--------------------------- MODULE DeathLinkProofs ---------------------------
(***************************************************************************)
(* Proofs about DeathLink, for every set of ROMs, of times of messages, and   *)
(* every PollInterval, Window and Dying that ClockAssumption admits.         *)
(*                                                                         *)
(* The hard one is ReceivedNotToldBack: the client only remembers when it    *)
(* last saw an effect of its own under way, and what it sees is as old as    *)
(* PollInterval.  OnTime bounds that clock by the other clocks, from the     *)
(* effect sent to the death that is seen.  Its bounds hold as long as the    *)
(* client looks, which is what Attached is for.                             *)
(***************************************************************************)
EXTENDS DeathLink, TLAPS, SequenceTheorems

-----------------------------------------------------------------------------
(* The queue of reads.                                                      *)

\* The reads that wait to be answered.
HpAwaited(q) == \E i \in DOMAIN q : q[i] = "hp"
EffectAwaited(q) == \E i \in DOMAIN q : q[i] = "effect"

\* What is left of the reads of one poll that saw no game, or of the second of Game.
Tails == {<<>>, <<"game">>, <<"hp", "game">>, <<"effect", "game">>, <<"hp", "effect", "game">>}

\* The queues: what a poll asks for, and what is left of it.
Queues ==
    Tails \cup {<<"game", "game">>, <<"game", "hp", "game">>, <<"game", "hp", "effect", "game">>}


\* The tails of the queues.
LEMMA TailsOfQueues ==
    /\ Tail(<<"game">>) = <<>>
    /\ Tail(<<"game", "game">>) = <<"game">>
    /\ Tail(<<"hp", "game">>) = <<"game">>
    /\ Tail(<<"effect", "game">>) = <<"game">>
    /\ Tail(<<"hp", "effect", "game">>) = <<"effect", "game">>
    /\ Tail(<<"game", "hp", "game">>) = <<"hp", "game">>
    /\ Tail(<<"game", "hp", "effect", "game">>) = <<"hp", "effect", "game">>
OBVIOUS

LEMMA HeadsOfQueues ==
    /\ Head(<<"game">>) = "game"
    /\ Head(<<"game", "game">>) = "game"
    /\ Head(<<"hp", "game">>) = "hp"
    /\ Head(<<"effect", "game">>) = "effect"
    /\ Head(<<"hp", "effect", "game">>) = "hp"
    /\ Head(<<"game", "hp", "game">>) = "game"
    /\ Head(<<"game", "hp", "effect", "game">>) = "game"
OBVIOUS

\* What is awaited in each.
LEMMA AwaitedInQueues ==
    /\ ~HpAwaited(<<>>) /\ ~EffectAwaited(<<>>)
    /\ ~HpAwaited(<<"game">>) /\ ~EffectAwaited(<<"game">>)
    /\ ~HpAwaited(<<"game", "game">>) /\ ~EffectAwaited(<<"game", "game">>)
    /\ HpAwaited(<<"hp", "game">>) /\ ~EffectAwaited(<<"hp", "game">>)
    /\ ~HpAwaited(<<"effect", "game">>) /\ EffectAwaited(<<"effect", "game">>)
    /\ HpAwaited(<<"hp", "effect", "game">>) /\ EffectAwaited(<<"hp", "effect", "game">>)
    /\ HpAwaited(<<"game", "hp", "game">>) /\ ~EffectAwaited(<<"game", "hp", "game">>)
    /\ HpAwaited(<<"game", "hp", "effect", "game">>)
    /\ EffectAwaited(<<"game", "hp", "effect", "game">>)
BY DEF HpAwaited, EffectAwaited

LEMMA QueueTypes == \A q \in Queues : q \in Seq({"game", "hp", "effect"})
<1> DEFINE R == {"game", "hp", "effect"}
<1>1. <<>> \in Seq(R) /\ <<"game">> \in Seq(R)
  OBVIOUS
<1>2. <<"game", "game">> \in Seq(R) /\ <<"hp", "game">> \in Seq(R) /\ <<"effect", "game">> \in Seq(R)
  OBVIOUS
<1>3. <<"hp", "effect", "game">> \in Seq(R) /\ <<"game", "hp", "game">> \in Seq(R)
  OBVIOUS
<1>4. <<"game", "hp", "effect", "game">> \in Seq(R)
  OBVIOUS
<1> HIDE DEF R
<1>5. \A q \in Queues : q \in Seq(R)
  BY <1>1, <1>2, <1>3, <1>4, Zenon DEF Queues, Tails
<1>. QED  BY <1>5 DEF R

\* The oldest read is answered.
LEMMA Popped ==
    ASSUME NEW q \in Queues, q # <<>>
    PROVE  /\ Tail(q) \in Tails
           /\ q \in Tails /\ Head(q) = "game" => Tail(q) = <<>>
           /\ HpAwaited(Tail(q)) <=> HpAwaited(q) /\ Head(q) # "hp"
           /\ EffectAwaited(Tail(q)) <=> EffectAwaited(q) /\ Head(q) # "effect"
           /\ Head(q) = "hp" => HpAwaited(q)
           /\ Head(q) = "effect" => EffectAwaited(q)
<1>1. Tail(q) \in Tails
  BY TailsOfQueues, Zenon DEF Queues, Tails
<1>2. q \in Tails /\ Head(q) = "game" => Tail(q) = <<>>
  BY TailsOfQueues, HeadsOfQueues, "hp" # "game", "effect" # "game", Zenon DEF Tails
<1>3. /\ HpAwaited(Tail(q)) <=> HpAwaited(q) /\ Head(q) # "hp"
      /\ EffectAwaited(Tail(q)) <=> EffectAwaited(q) /\ Head(q) # "effect"
      /\ Head(q) = "hp" => HpAwaited(q)
      /\ Head(q) = "effect" => EffectAwaited(q)
  BY TailsOfQueues, HeadsOfQueues, AwaitedInQueues, "hp" # "game", "effect" # "game",
     "hp" # "effect", Zenon DEF Queues, Tails
<1>. QED  BY <1>1, <1>2, <1>3

\* Nothing is looked at after the effect.
LEMMA EffectLast ==
    ASSUME NEW q \in Queues, q # <<>>, Head(q) = "effect"
    PROVE  Tail(q) \in Tails /\ ~HpAwaited(Tail(q)) /\ ~EffectAwaited(Tail(q))
<1>1. q = <<"effect", "game">>
  BY HeadsOfQueues, "hp" # "effect", "game" # "effect", Zenon DEF Queues, Tails
<1>. QED  BY <1>1, TailsOfQueues, AwaitedInQueues, Zenon DEF Tails

\* A batch has a check of Game at either end.
LEMMA BatchEnds ==
    ASSUME NEW R, "game" \in R, NEW q \in Seq(R), NEW r \in Seq(R), Len(r) = Len(q) + 2,
           r[1] = "game", r[Len(q) + 2] = "game", \A i \in 1..Len(q) : r[i + 1] = q[i]
    PROVE  <<"game">> \o q \o <<"game">> = r
<1> DEFINE g == <<"game">>
<1>1. g \in Seq(R) /\ Len(g) = 1 /\ g[1] = "game"
  OBVIOUS
<1> HIDE DEF g
<1>0. Len(q) \in Nat
  OBVIOUS
<1>2. /\ g \o q \in Seq(R) /\ Len(g \o q) = 1 + Len(q)
      /\ \A i \in 1..(1 + Len(q)) : (g \o q)[i] = IF i <= 1 THEN g[i] ELSE q[i - 1]
  <2>1. /\ g \o q \in Seq(R) /\ Len(g \o q) = Len(g) + Len(q)
        /\ \A i \in 1..(Len(g) + Len(q)) :
              (g \o q)[i] = IF i <= Len(g) THEN g[i] ELSE q[i - Len(g)]
    BY <1>1, ConcatProperties
  <2>. QED  BY <2>1, <1>1
<1> DEFINE h == g \o q
<1> HIDE DEF h
<1>3. /\ h \o g \in Seq(R) /\ Len(h \o g) = Len(q) + 2
      /\ \A i \in 1..(Len(q) + 2) :
            (h \o g)[i] = IF i <= Len(q) + 1 THEN h[i] ELSE g[i - (Len(q) + 1)]
  BY <1>1, <1>2, ConcatProperties DEF h
<1>4. ASSUME NEW i \in 1..(Len(q) + 2) PROVE (h \o g)[i] = r[i]
  <2>1. CASE i = 1
    BY <2>1, <1>1, <1>2, <1>3 DEF h
  <2>2. CASE i \in 2..(Len(q) + 1)
    <3>1. i - 1 \in 1..Len(q) /\ i \in 1..(1 + Len(q)) /\ ~(i <= 1) /\ i <= Len(q) + 1
      BY <2>2, <1>2
    <3>2. (h \o g)[i] = q[i - 1]
      BY <3>1, <1>2, <1>3 DEF h
    <3>3. r[(i - 1) + 1] = q[i - 1] /\ (i - 1) + 1 = i
      BY <3>1
    <3>. QED  BY <3>2, <3>3
  <2>3. CASE i = Len(q) + 2
    <3>1. ~(i <= Len(q) + 1) /\ i - (Len(q) + 1) = 1
      BY <2>3, <1>2
    <3>. QED  BY <3>1, <2>3, <1>1, <1>3
  <2>4. i = 1 \/ i \in 2..(Len(q) + 1) \/ i = Len(q) + 2
    BY <1>0
  <2>. QED  BY <2>1, <2>2, <2>3, <2>4
<1>5. h \o g = r
  BY <1>3, <1>4, SeqEqual
<1>. QED  BY <1>5 DEF g, h

LEMMA Batches ==
    /\ <<"game">> \o <<>> \o <<"game">> = <<"game", "game">>
    /\ <<"game">> \o <<"hp">> \o <<"game">> = <<"game", "hp", "game">>
    /\ <<"game">> \o <<"hp", "effect">> \o <<"game">> = <<"game", "hp", "effect", "game">>
<1> DEFINE R == {"game", "hp", "effect"}
<1>1. <<>> \in Seq(R) /\ <<"hp">> \in Seq(R) /\ <<"hp", "effect">> \in Seq(R)
  OBVIOUS
<1>2. /\ <<"game", "game">> \in Seq(R)
      /\ <<"game", "hp", "game">> \in Seq(R)
      /\ <<"game", "hp", "effect", "game">> \in Seq(R)
  BY QueueTypes, Zenon DEF Queues
<1>3. "game" \in R
  OBVIOUS
<1> HIDE DEF R
<1>4. <<"game">> \o <<>> \o <<"game">> = <<"game", "game">>
  <2>1. /\ Len(<<>>) = 0 /\ Len(<<"game", "game">>) = 2
        /\ <<"game", "game">>[1] = "game" /\ <<"game", "game">>[2] = "game"
    OBVIOUS
  <2> DEFINE q == <<>>
             r == <<"game", "game">>
  <2>2. q \in Seq(R) /\ r \in Seq(R)
    BY <1>1, <1>2
  <2>3. /\ Len(r) = Len(q) + 2 /\ r[1] = "game" /\ r[Len(q) + 2] = "game"
        /\ \A i \in 1..Len(q) : r[i + 1] = q[i]
    BY <2>1
  <2> HIDE DEF q, r
  <2>4. <<"game">> \o q \o <<"game">> = r
    BY <2>2, <2>3, <1>3, BatchEnds
  <2>. QED  BY <2>4 DEF q, r
<1>5. <<"game">> \o <<"hp">> \o <<"game">> = <<"game", "hp", "game">>
  <2>1. /\ Len(<<"hp">>) = 1 /\ Len(<<"game", "hp", "game">>) = 3
        /\ <<"game", "hp", "game">>[1] = "game" /\ <<"game", "hp", "game">>[3] = "game"
        /\ <<"game", "hp", "game">>[2] = <<"hp">>[1]
    OBVIOUS
  <2> DEFINE q == <<"hp">>
             r == <<"game", "hp", "game">>
  <2>2. q \in Seq(R) /\ r \in Seq(R)
    BY <1>1, <1>2
  <2>3. /\ Len(r) = Len(q) + 2 /\ r[1] = "game" /\ r[Len(q) + 2] = "game"
        /\ \A i \in 1..Len(q) : r[i + 1] = q[i]
    BY <2>1
  <2> HIDE DEF q, r
  <2>4. <<"game">> \o q \o <<"game">> = r
    BY <2>2, <2>3, <1>3, BatchEnds
  <2>. QED  BY <2>4 DEF q, r
<1>6. <<"game">> \o <<"hp", "effect">> \o <<"game">> = <<"game", "hp", "effect", "game">>
  <2>1. /\ Len(<<"hp", "effect">>) = 2 /\ Len(<<"game", "hp", "effect", "game">>) = 4
        /\ <<"game", "hp", "effect", "game">>[1] = "game" /\ <<"game", "hp", "effect", "game">>[4] = "game"
        /\ <<"game", "hp", "effect", "game">>[2] = <<"hp", "effect">>[1]
        /\ <<"game", "hp", "effect", "game">>[3] = <<"hp", "effect">>[2]
    OBVIOUS
  <2> DEFINE q == <<"hp", "effect">>
             r == <<"game", "hp", "effect", "game">>
  <2>2. q \in Seq(R) /\ r \in Seq(R)
    BY <1>1, <1>2
  <2>3. /\ Len(r) = Len(q) + 2 /\ r[1] = "game" /\ r[Len(q) + 2] = "game"
        /\ \A i \in 1..Len(q) : r[i + 1] = q[i]
    BY <2>1
  <2> HIDE DEF q, r
  <2>4. <<"game">> \o q \o <<"game">> = r
    BY <2>2, <2>3, <1>3, BatchEnds
  <2>. QED  BY <2>4 DEF q, r
<1>. QED  BY <1>4, <1>5, <1>6

\* What one poll asks for.
LEMMA Asked ==
    ASSUME NEW q \in {<<>>, <<"hp">>, <<"hp", "effect">>}
    PROVE  /\ <<"game">> \o q \o <<"game">> \in Queues
           /\ q = <<>> => ~HpAwaited(<<"game">> \o q \o <<"game">>)
           /\ q # <<>> => HpAwaited(<<"game">> \o q \o <<"game">>)
           /\ q # <<"hp", "effect">> => ~EffectAwaited(<<"game">> \o q \o <<"game">>)
           /\ q = <<"hp", "effect">> => EffectAwaited(<<"game">> \o q \o <<"game">>)
BY Batches, AwaitedInQueues, Zenon DEF Queues

-----------------------------------------------------------------------------
(* The inductive invariant.                                                 *)

\* The looks come in the unit of time in which they were asked for, the one at the effect
\* only while a death is queued; a game that stopped has one check to come at most.
Looking ==
    /\ pending \in Queues
    /\ gstate = "STOPPED" => pending \in Tails
    /\ HpAwaited(pending) \/ EffectAwaited(pending) => polled /\ sinceLook = 0
    /\ EffectAwaited(pending) => deathQueued

\* What is queued, and was not sent, was received.
Received == deathQueued /\ ~deathSent => queuedFor # "nothing"

\* The message of a time that is on its way is the last one told, and the only one.
EchoesKnown ==
    /\ ap = NoRom => inbox = <<>>
    /\ \A i \in DOMAIN inbox : inbox[i] # Foreign =>
            inbox[i] = deathtime /\ \A j \in DOMAIN inbox : inbox[j] # Foreign => i = j

\* What the player dies of is known while he does, in a save that is played; a death that
\* was told was seen.
Causes ==
    /\ cause # "nothing" => playing /\ boy # "alive"
    /\ cause = "told" => boy = "dead" /\ dead

\* The effect of a received death is followed: one is scheduled, or struck.
Killing == effect = "link" \/ cause = "link"

\* The client found the game again but has not polled, or lost the link.
Apart == gstate = "STOPPED" /\ pending = <<>>
Fresh == gstate = "RUNNING" /\ pending = <<>>

\* A client that follows an effect takes part in death link.
Attached ==
    /\ effect = "link" => deathSent /\ deathQueued
    /\ Killing \/ deathQueued => gstate = "STOPPED" \/ Fresh \/ (deathlink /\ want)

\* The player is looked at once in PollInterval, so that the clock of the last received
\* death is not far behind the effect: behind the effect sent, the death it is, the dead.
OnTime ==
    /\ Killing /\ polled => sinceLook < PollInterval
    /\ effect = "link" \/ (cause = "link" /\ deathSent) =>
            \/ sinceLink <= sinceLook
            \/ EffectAwaited(pending) /\ sinceLink <= PollInterval
    /\ cause = "link" /\ ~deathSent /\ boy = "doomed" => sinceLink <= dyingFor
    /\ cause = "link" /\ ~deathSent /\ boy = "dead" /\ ~dead =>
            \/ sinceLink <= Dying + sinceLook
            \/ HpAwaited(pending) /\ sinceLink <= Dying + PollInterval

Timing == Attached /\ (Apart \/ OnTime) /\ blamed # "link"

\* The inductive invariant.
Inv ==
    /\ TypeOK /\ Looking /\ Received /\ Causes /\ Timing
    /\ blamed # "told"
    /\ PromptEcho => EchoesKnown /\ queuedFor # "echo"

LEMMA Bounds ==
    /\ PollInterval \in Nat \ {0} /\ Window \in Nat /\ Dying \in Nat /\ MaxInbox \in Nat
    /\ PollInterval + 1 + Dying <= Window
    /\ \A n \in 0..PollInterval : n % PollInterval = IF n = PollInterval THEN 0 ELSE n
    /\ \A n \in 0..(Window + 1) : AtMost(n + 1, Window + 1) \in 0..(Window + 1)
                                  /\ AtMost(n + 1, Window + 1) <= n + 1
    /\ \A n \in 0..PollInterval : AtMost(n + 1, PollInterval) \in 0..PollInterval
                                  /\ (n < PollInterval => AtMost(n + 1, PollInterval) = n + 1)
BY ClockAssumption DEF AtMost

LEMMA InitInv == Init => Inv
<1>. SUFFICES ASSUME Init PROVE Inv
  OBVIOUS
<1>. USE DEF Init
<1>1. <<>> \in Seq({"game", "hp", "effect"}) /\ <<>> \in Seq(Times \cup {Foreign}) /\ Len(<<>>) = 0
  OBVIOUS
<1>2. TypeOK
  <2>1. Window + 1 \in 0..(Window + 1) /\ PollInterval \in 0..PollInterval /\ 0 \in 0..Dying
        /\ 0 <= MaxInbox
    BY Bounds
  <2>. QED  BY <1>1, <2>1 DEF TypeOK
<1>3. Looking /\ Received /\ Causes
  BY AwaitedInQueues DEF Looking, Received, Causes, Queues, Tails
<1>4. Timing
  BY DEF Timing, Attached, Apart, Killing, Phases!Init
<1>5. EchoesKnown
  BY DEF EchoesKnown
<1>. QED  BY <1>2, <1>3, <1>4, <1>5 DEF Inv

-----------------------------------------------------------------------------
(* One lemma per part of the invariant, one step per action.                *)

LEMMA TypeStep == TypeOK /\ Looking /\ [Next]_vars => TypeOK'
<1>. SUFFICES ASSUME TypeOK, Looking, [Next]_vars PROVE TypeOK'
  OBVIOUS
<1>. USE DEF TypeOK, phaseVars, flagVars, linkVars, clockVars, sessionVars, playerVars,
            clientUnchanged
<1>0. /\ <<>> \in Seq(Times \cup {Foreign}) /\ Len(<<>>) = 0
      /\ 0 \in 0..Dying /\ 0 \in 0..(Window + 1) /\ 0 <= MaxInbox
  BY Bounds
<1>1. CASE Poll
  <2>1. pending' \in Seq({"game", "hp", "effect"})
    <3>1. Looks \in {<<>>, <<"hp">>, <<"hp", "effect">>}
      BY DEF Looks
    <3>2. <<"game">> \in Queues /\ <<"game">> \o Looks \o <<"game">> \in Queues
      BY <3>1, Asked DEF Queues, Tails
    <3>3. pending' \in Queues
      BY <1>1, <3>2, Zenon DEF Poll
    <3>. QED  BY <3>3, QueueTypes
  <2>2. sinceLook % PollInterval \in 0..PollInterval
    BY Bounds
  <2>. HIDE DEF TypeOK
  <2>3. /\ UNCHANGED <<want, deathlink, sinceLink, ap, deathtime, inbox, boy, dyingFor>>
        /\ polled' = TRUE /\ blamed' = "nothing"
        /\ sinceLook' \in 0..PollInterval
    BY <1>1, <2>2 DEF Poll, TypeOK
  <2>4. CASE gstate = "JOINED"
    BY <1>1, <2>1, <2>3, <2>4 DEF Poll, TypeOK
  <2>5. CASE gstate # "JOINED"
    BY <1>1, <2>1, <2>3, <2>5 DEF Poll, NoPart, Astray, TypeOK
  <2>. QED  BY <2>4, <2>5
<1>2. ASSUME NEW r, Answers(r) PROVE pending' \in Seq({"game", "hp", "effect"})
  <2>1. Tail(pending) \in Tails
    BY <1>2, Popped DEF Answers, Looking
  <2>. QED  BY <1>2, <2>1, QueueTypes DEF Answers, Queues
<1>3. CASE OnHp
  <2>1. PICK hp \in HpReadings :
          /\ dead' = Dead(hp)
          /\ IF hp = "dead" /\ ~dead /\ Tells
             THEN /\ Tell
                  /\ blamed' = IF ap = NoRom THEN blamed ELSE IF playing THEN cause ELSE "garbage"
                  /\ cause' = IF playing THEN Told ELSE cause
             ELSE UNCHANGED <<deathtime, inbox, blamed, cause>>
    BY <1>3 DEF OnHp
  <2>2. dead' \in BOOLEAN
    BY <2>1 DEF Dead
  <2>3. /\ deathtime' \in Times \cup {NoTime}
        /\ inbox' \in Seq(Times \cup {Foreign})
        /\ Len(inbox') <= MaxInbox
    <3>1. CASE UNCHANGED <<deathtime, inbox>>
      BY <3>1
    <3>2. CASE UNCHANGED inbox /\ deathtime' \in Times
      BY <3>2
    <3>3. CASE deathtime' \in Times /\ Len(inbox) < MaxInbox /\ inbox' = Append(inbox, deathtime')
      <4>1. Len(inbox) \in Nat /\ Len(inbox') = Len(inbox) + 1
            /\ inbox' \in Seq(Times \cup {Foreign})
        BY <3>3, AppendProperties
      <4>. QED  BY <3>3, <4>1, Bounds
    <3>. QED  BY <2>1, <3>1, <3>2, <3>3 DEF Tell
  <2>4. blamed' \in {"nothing", "own", "link", "stray", "told", "untold", "garbage"}
        /\ cause' \in {"nothing", "own", "link", "stray", "told", "untold"}
    BY <2>1 DEF Told
  <2>5. pending' \in Seq({"game", "hp", "effect"})
    BY <1>2, <1>3 DEF OnHp
  <2>6. UNCHANGED <<phaseVars, flagVars, deathQueued, deathSent, queuedFor, clockVars, ap,
                    boy, dyingFor, effect>>
    BY <1>3 DEF OnHp
  <2>. QED  BY <2>2, <2>3, <2>4, <2>5, <2>6
<1>4. CASE OnEffect
  <2>1. pending' \in Seq({"game", "hp", "effect"})
    BY <1>2, <1>4 DEF OnEffect
  <2>2. deathQueued
    BY <1>4, Popped DEF OnEffect, Answers, Looking
  <2>3. /\ sinceLink' \in 0..(Window + 1)
        /\ queuedFor' \in {"nothing", "death", "echo"}
        /\ effect' \in {"none", "link", "stray"}
    BY <1>4, <1>0 DEF OnEffect, EffectDone, WaitForEffect, Astray
  <2>4. /\ deathSent' \in BOOLEAN /\ deathQueued' \in BOOLEAN
        /\ deathSent' => deathQueued'
    BY <1>4, <2>2 DEF OnEffect, EffectDone, WaitForEffect
  <2>5. UNCHANGED <<phaseVars, flagVars, dead, sinceLook, polled, sessionVars, playerVars>>
    BY <1>4 DEF OnEffect
  <2>. QED  BY <2>1, <2>3, <2>4, <2>5
<1>5. CASE OnGame
  <2>1. pending' \in Seq({"game", "hp", "effect"})
    BY <1>2, <1>5 DEF OnGame
  <2>2. /\ want' \in BOOLEAN /\ deathlink' \in BOOLEAN
        /\ ap' \in Roms \cup {NoRom}
        /\ inbox' \in Seq(Times \cup {Foreign})
        /\ Len(inbox') <= MaxInbox
    <3>1. CASE GameStarted
      <4>1. want' \in BOOLEAN
        BY <3>1, SMT DEF GameStarted
      <4>2. deathlink' \in BOOLEAN
        <5>1. deathlink \in BOOLEAN
          OBVIOUS
        <5>. HIDE DEF TypeOK
        <5>2. CASE ap = cart /\ ap \in {NoRom, cart}
          <6>1. deathlink' = (cart \in DeathlinkRoms)
            BY <3>1, <5>2, SMT DEF GameStarted
          <6>. QED  BY <6>1, SMT
        <5>3. CASE ~(ap = cart /\ ap \in {NoRom, cart})
          BY <3>1, <5>1, <5>3, SMT DEF GameStarted
        <5>. QED  BY <5>2, <5>3
      <4>3. /\ ap' \in Roms \cup {NoRom}
            /\ inbox' \in Seq(Times \cup {Foreign})
            /\ Len(inbox') <= MaxInbox
        BY <3>1, <1>0 DEF GameStarted
      <4>. QED  BY <4>1, <4>2, <4>3
    <3>2. CASE ~GameStarted
      BY <1>5, <3>2 DEF OnGame
    <3>. QED  BY <3>1, <3>2
  <2>3. UNCHANGED <<linkVars, clockVars, deathtime, blamed, playerVars, effect>>
    BY <1>5 DEF OnGame
  <2>. QED  BY <2>1, <2>2, <2>3
<1>6. CASE LinkLost
  BY <1>6 DEF LinkLost
<1>7. CASE Reopened
  BY <1>7 DEF Reopened
<1>8. CASE SlotConnected \/ SlotLost
  <2>1. CASE SlotConnected
    BY <2>1 DEF SlotConnected
  <2>2. CASE SlotLost
    BY <2>2, <1>0 DEF SlotLost
  <2>. QED  BY <1>8, <2>1, <2>2
<1>9. CASE ForeignDeath
  BY <1>9, Bounds DEF ForeignDeath
<1>10. CASE OnBounced
  <2>1. /\ inbox' \in Seq(Times \cup {Foreign})
        /\ Len(inbox') <= MaxInbox
    BY <1>10, Bounds DEF OnBounced
  <2>2. deathtime' \in Times \cup {NoTime}
    BY <1>10 DEF OnBounced
  <2>3. /\ deathQueued' \in BOOLEAN /\ (deathQueued => deathQueued')
        /\ queuedFor' \in {"nothing", "death", "echo"}
    BY <1>10 DEF OnBounced, SendDeath
  <2>4. UNCHANGED <<phaseVars, flagVars, dead, deathSent, clockVars, pending, ap, blamed,
                    playerVars, effect>>
    BY <1>10 DEF OnBounced
  <2>. QED  BY <2>1, <2>2, <2>3, <2>4
<1>11. CASE Load \/ Leaves \/ Revives
  <2>. QED  BY <1>11, <1>0 DEF Load, Leaves, Revives, Alive
<1>12. CASE Dies \/ Strikes \/ Falls
  <2>. QED  BY <1>12, <1>0 DEF Dies, Strikes, Falls
<1>13. CASE Tick
  <2>1. /\ sinceLink' \in 0..(Window + 1) /\ sinceLook' \in 0..PollInterval
        /\ polled' \in BOOLEAN /\ dyingFor' \in 0..Dying
    <3>1. polled' \in BOOLEAN /\ sinceLink' \in 0..(Window + 1) /\ sinceLook' \in 0..PollInterval
      BY <1>13, Bounds DEF Tick
    <3>2. dyingFor' \in 0..Dying
      <4>1. dyingFor \in Nat /\ dyingFor <= Dying /\ Dying \in Nat
        BY Bounds
      <4>. QED  BY <1>13, <4>1 DEF Tick
    <3>. QED  BY <3>1, <3>2
  <2>2. UNCHANGED <<phaseVars, flagVars, linkVars, pending, sessionVars, boy, cause, effect>>
    BY <1>13 DEF Tick
  <2>. QED  BY <2>1, <2>2
<1>14. CASE UNCHANGED vars
  BY <1>14 DEF vars
<1>. QED  BY <1>1, <1>3, <1>4, <1>5, <1>6, <1>7, <1>8, <1>9, <1>10, <1>11, <1>12, <1>13,
             <1>14 DEF Next

\* What the polls, the answers and the phases do to the queue.
LEMMA LookingStep == TypeOK /\ Looking /\ [Next]_vars => Looking'
<1>. SUFFICES ASSUME TypeOK, Looking, [Next]_vars PROVE Looking'
  OBVIOUS
<1>. USE DEF phaseVars, flagVars, linkVars, clockVars, sessionVars, playerVars, clientUnchanged
<1>1. CASE Poll
  <2>1. CASE gstate = "JOINED"
    <3>1. pending' = <<"game">> \o Looks \o <<"game">> /\ polled' /\ gstate' = gstate
          /\ sinceLook' = sinceLook % PollInterval /\ deathQueued' = deathQueued
      BY <1>1, <2>1 DEF Poll
    <3>2. CASE Looks = <<>>
      <4>1. pending' \in Queues /\ ~HpAwaited(pending') /\ ~EffectAwaited(pending')
        BY <3>1, <3>2, Batches, AwaitedInQueues, Zenon DEF Queues
      <4>. QED  BY <3>1, <4>1, <2>1 DEF Looking, HpAwaited, EffectAwaited
    <3>3. CASE Looks # <<>>
      <4>1. sinceLook = PollInterval /\ Looks \in {<<"hp">>, <<"hp", "effect">>}
            /\ (Looks = <<"hp", "effect">> => deathQueued)
        BY <3>3 DEF Looks
      <4>2. pending' \in Queues /\ (Looks # <<"hp", "effect">> => ~EffectAwaited(pending'))
        BY <3>1, <4>1, Asked, Zenon
      <4>3. sinceLook' = 0
        BY <3>1, <4>1, Bounds
      <4>. QED  BY <3>1, <4>1, <4>2, <4>3, <2>1 DEF Looking, HpAwaited, EffectAwaited
    <3>. QED  BY <3>2, <3>3
  <2>2. CASE gstate # "JOINED"
    <3>1. pending' = <<"game">> /\ polled' /\ gstate' = gstate
      BY <1>1, <2>2 DEF Poll
    <3>2. pending' \in Tails /\ ~HpAwaited(pending') /\ ~EffectAwaited(pending')
      BY <3>1, AwaitedInQueues, Zenon DEF Tails
    <3>. QED  BY <3>1, <3>2 DEF Looking, Queues, HpAwaited, EffectAwaited
  <2>. QED  BY <2>1, <2>2
<1>2. CASE OnHp
  <2>1. /\ pending' \in Tails
        /\ HpAwaited(pending') => HpAwaited(pending)
        /\ EffectAwaited(pending') => EffectAwaited(pending)
    BY <1>2, Popped DEF OnHp, Answers, Looking
  <2>2. UNCHANGED <<gstate, polled, sinceLook, deathQueued>>
    BY <1>2 DEF OnHp
  <2>. QED  BY <2>1, <2>2 DEF Looking, Queues, HpAwaited, EffectAwaited
<1>3. CASE OnEffect
  <2>1. pending' \in Tails /\ ~HpAwaited(pending') /\ ~EffectAwaited(pending')
    <3>1. pending \in Queues /\ pending # <<>> /\ Head(pending) = "effect" /\ pending' = Tail(pending)
      BY <1>3 DEF OnEffect, Answers, Looking
    <3>. QED  BY <3>1, EffectLast
  <2>2. UNCHANGED gstate
    BY <1>3 DEF OnEffect
  <2>. QED  BY <2>1, <2>2 DEF Looking, Queues, HpAwaited, EffectAwaited
<1>4. CASE OnGame
  <2>1. /\ pending' \in Tails
        /\ HpAwaited(pending') => HpAwaited(pending)
        /\ EffectAwaited(pending') => EffectAwaited(pending)
    BY <1>4, Popped DEF OnGame, Answers, Looking
  <2>2. UNCHANGED <<polled, sinceLook, deathQueued>>
    BY <1>4 DEF OnGame
  <2>. QED  BY <2>1, <2>2 DEF Looking, Queues, HpAwaited, EffectAwaited
<1>5. CASE LinkLost
  <2>1. pending' = <<>>
    BY <1>5 DEF LinkLost
  <2>2. pending' \in Tails /\ ~HpAwaited(pending') /\ ~EffectAwaited(pending')
    BY <2>1, AwaitedInQueues, Zenon DEF Tails
  <2>. QED  BY <2>2 DEF Looking, Queues, HpAwaited, EffectAwaited
<1>6. CASE Reopened
  BY <1>6 DEF Reopened, Phases!Reopen, Looking, HpAwaited, EffectAwaited
<1>7. CASE SlotConnected \/ SlotLost \/ ForeignDeath
  BY <1>7 DEF SlotConnected, SlotLost, ForeignDeath, Looking, HpAwaited, EffectAwaited
<1>8. CASE OnBounced
  <2>1. deathQueued => deathQueued'
    BY <1>8 DEF OnBounced, SendDeath
  <2>2. UNCHANGED <<gstate, pending, polled, sinceLook>>
    BY <1>8 DEF OnBounced
  <2>. QED  BY <2>1, <2>2 DEF Looking, HpAwaited, EffectAwaited
<1>9. CASE Load \/ Leaves \/ Dies \/ Revives \/ Strikes \/ Falls
  <2>1. UNCHANGED <<gstate, pending, polled, sinceLook, deathQueued>>
    BY <1>9 DEF Load, Leaves, Dies, Revives, Strikes, Falls, Phases!Load, Phases!Quit,
                Phases!SwapCart
  <2>. QED  BY <2>1 DEF Looking, HpAwaited, EffectAwaited
<1>10. CASE Tick
  <2>1. ~HpAwaited(pending) /\ ~EffectAwaited(pending)
    BY <1>10 DEF Tick, HpAwaited, EffectAwaited
  <2>2. UNCHANGED <<gstate, pending, deathQueued>>
    BY <1>10 DEF Tick
  <2>. QED  BY <2>1, <2>2 DEF Looking, HpAwaited, EffectAwaited
<1>11. CASE UNCHANGED vars
  BY <1>11 DEF vars, Looking, HpAwaited, EffectAwaited
<1>. QED  BY <1>1, <1>2, <1>3, <1>4, <1>5, <1>6, <1>7, <1>8, <1>9, <1>10, <1>11 DEF Next

\* A death is queued together with its reason; both are forgotten together, the reason
\* alone only when the effect is sent.
LEMMA ReceivedStep == Received /\ [Next]_vars => Received'
<1>. SUFFICES ASSUME Received, [Next]_vars PROVE Received'
  OBVIOUS
<1>. USE DEF Received, phaseVars, flagVars, linkVars, clockVars, sessionVars, playerVars,
            clientUnchanged
<1>1. CASE Poll
  BY <1>1 DEF Poll, NoPart
<1>2. CASE OnHp
  BY <1>2 DEF OnHp
<1>3. CASE OnEffect
  BY <1>3 DEF OnEffect, EffectDone
<1>4. CASE OnGame
  BY <1>4 DEF OnGame
<1>5. CASE LinkLost \/ Reopened \/ SlotConnected \/ SlotLost \/ ForeignDeath
  BY <1>5 DEF LinkLost, Reopened, SlotConnected, SlotLost, ForeignDeath
<1>6. CASE OnBounced
  BY <1>6 DEF OnBounced, SendDeath
<1>7. CASE Load \/ Leaves \/ Dies \/ Revives \/ Strikes \/ Falls
  BY <1>7 DEF Load, Leaves, Dies, Revives, Strikes, Falls
<1>8. CASE Tick
  BY <1>8 DEF Tick
<1>9. CASE UNCHANGED vars
  BY <1>9 DEF vars
<1>. QED  BY <1>1, <1>2, <1>3, <1>4, <1>5, <1>6, <1>7, <1>8, <1>9 DEF Next

\* The player dies, and is seen to be dead, in a save that is played.
LEMMA CausesStep == TypeOK /\ Causes /\ [Next]_vars => Causes' /\ (blamed # "told" => blamed' # "told")
<1>. SUFFICES ASSUME TypeOK, Causes, [Next]_vars
     PROVE  Causes' /\ (blamed # "told" => blamed' # "told")
  OBVIOUS
<1>. USE DEF Causes, phaseVars, flagVars, linkVars, clockVars, sessionVars, playerVars,
            clientUnchanged
<1>1. CASE Poll
  BY <1>1 DEF Poll, NoPart, Astray
<1>2. CASE OnHp
  <2>1. PICK hp \in HpReadings :
          /\ dead' = Dead(hp)
          /\ IF hp = "dead" /\ ~dead /\ Tells
             THEN /\ Tell
                  /\ blamed' = IF ap = NoRom THEN blamed ELSE IF playing THEN cause ELSE "garbage"
                  /\ cause' = IF playing THEN Told ELSE cause
             ELSE UNCHANGED <<deathtime, inbox, blamed, cause>>
    BY <1>2 DEF OnHp
  <2>2. UNCHANGED <<playing, boy>>
    BY <1>2 DEF OnHp
  <2>3. playing => hp = IF boy = "dead" THEN "dead" ELSE "alive"
    BY DEF HpReadings
  <2>. QED  BY <2>1, <2>2, <2>3 DEF Dead, Told
<1>3. CASE OnEffect
  BY <1>3 DEF OnEffect
<1>4. CASE OnGame
  BY <1>4 DEF OnGame, GameStarted, Phases!Start, Phases!Reset, Phases!Stop, Phases!Join,
              Phases!Leave, Phases!Finish
<1>5. CASE LinkLost \/ Reopened
  BY <1>5 DEF LinkLost, Reopened, Phases!Reset, Phases!Reopen
<1>6. CASE SlotConnected \/ SlotLost \/ ForeignDeath \/ OnBounced
  BY <1>6 DEF SlotConnected, SlotLost, ForeignDeath, OnBounced
<1>7. CASE Load \/ Leaves \/ Revives
  BY <1>7 DEF Load, Leaves, Revives, Alive
<1>8. CASE Dies \/ Strikes \/ Falls
  BY <1>8 DEF Dies, Strikes, Falls, TypeOK
<1>9. CASE Tick
  BY <1>9 DEF Tick
<1>10. CASE UNCHANGED vars
  BY <1>10 DEF vars
<1>. QED  BY <1>1, <1>2, <1>3, <1>4, <1>5, <1>6, <1>7, <1>8, <1>9, <1>10 DEF Next

\* What is on its way from the room, when a message is told, arrives or is added.
LEMMA EchoStep ==
    ASSUME PromptEcho, TypeOK, EchoesKnown, queuedFor # "echo", [Next]_vars
    PROVE  EchoesKnown' /\ queuedFor' # "echo"
<1>. USE DEF phaseVars, flagVars, linkVars, clockVars, sessionVars, playerVars, clientUnchanged
<1>. DEFINE Messages == Times \cup {Foreign}
<1>0. inbox \in Seq(Messages) /\ Len(inbox) \in Nat /\ DOMAIN inbox = 1..Len(inbox)
  BY DEF TypeOK
<1>1. ASSUME UNCHANGED <<ap, inbox, deathtime>> PROVE EchoesKnown'
  BY <1>1 DEF EchoesKnown
<1>2. ASSUME inbox' = <<>> PROVE EchoesKnown'
  BY <1>2 DEF EchoesKnown
<1>3. CASE Poll
  BY <1>1, <1>3 DEF Poll, NoPart
<1>4. CASE OnHp
  <2>1. /\ Tell \/ UNCHANGED <<deathtime, inbox>>
        /\ UNCHANGED <<ap, queuedFor>>
    BY <1>4 DEF OnHp
  <2>2. CASE UNCHANGED <<deathtime, inbox>>
    BY <1>1, <2>1, <2>2
  <2>3. CASE ap = NoRom /\ UNCHANGED inbox
    BY <1>2, <2>1, <2>3 DEF EchoesKnown
  <2>4. CASE /\ ap # NoRom
             /\ deathtime' \in Times
             /\ \A i \in DOMAIN inbox : inbox[i] = Foreign
             /\ inbox' = Append(inbox, deathtime')
    <3>1. /\ DOMAIN inbox' = 1..(Len(inbox) + 1)
          /\ inbox'[Len(inbox) + 1] = deathtime'
          /\ \A i \in 1..Len(inbox) : inbox'[i] = inbox[i]
      <4>1. /\ inbox' \in Seq(Messages)
            /\ Len(inbox') = Len(inbox) + 1
            /\ inbox'[Len(inbox) + 1] = deathtime'
            /\ \A i \in 1..Len(inbox) : inbox'[i] = inbox[i]
        BY <1>0, <2>4, AppendProperties
      <4>. QED  BY <4>1
    <3>2. \A i \in DOMAIN inbox' : inbox'[i] # Foreign => i = Len(inbox) + 1
      BY <1>0, <2>4, <3>1
    <3>. QED  BY <2>1, <2>4, <3>1, <3>2 DEF EchoesKnown
  <2>5. Tell /\ ~(ap = NoRom /\ UNCHANGED inbox) /\ ~UNCHANGED <<deathtime, inbox>>
        => /\ ap # NoRom
           /\ deathtime' \in Times
           /\ \A i \in DOMAIN inbox : inbox[i] = Foreign
           /\ inbox' = Append(inbox, deathtime')
    BY DEF Tell
  <2>. QED  BY <2>1, <2>2, <2>3, <2>4, <2>5
<1>5. CASE OnEffect
  BY <1>1, <1>5 DEF OnEffect, EffectDone
<1>6. CASE OnGame
  <2>1. /\ inbox' = <<>> \/ UNCHANGED <<ap, inbox>>
        /\ UNCHANGED <<deathtime, queuedFor>>
    BY <1>6 DEF OnGame, GameStarted
  <2>. QED  BY <1>1, <1>2, <2>1
<1>7. CASE LinkLost \/ Reopened
  BY <1>1, <1>7 DEF LinkLost, Reopened
<1>8. CASE SlotConnected \/ SlotLost
  <2>1. inbox' = <<>> /\ UNCHANGED queuedFor
    BY <1>8 DEF SlotConnected, SlotLost, EchoesKnown
  <2>. QED  BY <1>2, <2>1
<1>9. CASE ForeignDeath
  <2>1. inbox' = Append(inbox, Foreign) /\ ap # NoRom /\ UNCHANGED <<ap, deathtime, queuedFor>>
    BY <1>9 DEF ForeignDeath
  <2>2. /\ DOMAIN inbox' = 1..(Len(inbox) + 1)
        /\ inbox'[Len(inbox) + 1] = Foreign
        /\ \A i \in 1..Len(inbox) : inbox'[i] = inbox[i]
    <3>1. Foreign \in Messages
      OBVIOUS
    <3>2. /\ inbox' \in Seq(Messages)
          /\ Len(inbox') = Len(inbox) + 1
          /\ inbox'[Len(inbox) + 1] = Foreign
          /\ \A i \in 1..Len(inbox) : inbox'[i] = inbox[i]
      BY <1>0, <2>1, <3>1, AppendProperties
    <3>. QED  BY <3>2
  <2>3. \A i \in DOMAIN inbox' : inbox'[i] # Foreign => i \in DOMAIN inbox /\ inbox'[i] = inbox[i]
    BY <1>0, <2>2
  <2>. QED  BY <2>1, <2>3 DEF EchoesKnown
<1>10. CASE OnBounced
  <2>1. /\ inbox # <<>> /\ inbox' = Tail(inbox) /\ UNCHANGED ap
        /\ Len(inbox) # 0 /\ Head(inbox) = inbox[1]
    BY <1>0, <1>10 DEF OnBounced
  <2>2. /\ DOMAIN inbox' = 1..(Len(inbox) - 1)
        /\ \A i \in DOMAIN inbox' : i + 1 \in DOMAIN inbox /\ inbox'[i] = inbox[i + 1]
    BY <1>0, <2>1
  <2>3. ap # NoRom
    BY <2>1 DEF EchoesKnown
  <2>4. \A i \in DOMAIN inbox' : inbox'[i] # Foreign =>
              /\ inbox[1] = Foreign /\ inbox'[i] = deathtime
              /\ \A j \in DOMAIN inbox' : inbox'[j] # Foreign => i = j
    <3>1. SUFFICES ASSUME NEW i \in DOMAIN inbox', inbox'[i] # Foreign
                   PROVE  /\ inbox[1] = Foreign /\ inbox'[i] = deathtime
                          /\ \A j \in DOMAIN inbox' : inbox'[j] # Foreign => i = j
      OBVIOUS
    <3>2. 1 \in DOMAIN inbox /\ i + 1 \in DOMAIN inbox /\ i \in Nat \ {0} /\ 1 # i + 1
      BY <1>0, <2>1, <2>2
    <3>3. /\ inbox[i + 1] = deathtime
          /\ \A j \in DOMAIN inbox : inbox[j] # Foreign => i + 1 = j
      BY <2>2, <3>1, <3>2 DEF EchoesKnown
    <3>4. ASSUME NEW j \in DOMAIN inbox', inbox'[j] # Foreign PROVE i = j
      <4>1. i + 1 = j + 1 /\ j \in Nat
        BY <2>2, <3>3, <3>4
      <4>. QED  BY <3>2, <4>1
    <3>. QED  BY <2>2, <3>1, <3>2, <3>3, <3>4
  <2>5. deathtime # Foreign /\ NoTime # Foreign
    BY TimeAssumption DEF TypeOK
  <2>6. deathtime' = deathtime \/ inbox[1] # Foreign
    BY <1>10, <2>1, <2>5 DEF OnBounced, IsEcho
  <2>7. EchoesKnown'
    BY <2>1, <2>3, <2>4, <2>6 DEF EchoesKnown
  <2>8. queuedFor' # "echo"
    <3>1. ASSUME Head(inbox) # Foreign PROVE IsEcho
      <4>1. 1 \in DOMAIN inbox
        BY <1>0, <2>1
      <4>. QED  BY <2>1, <3>1, <4>1 DEF IsEcho, EchoesKnown
    <3>. QED  BY <1>10, <3>1 DEF OnBounced, SendDeath
  <2>. QED  BY <2>7, <2>8
<1>11. CASE Load \/ Leaves \/ Dies \/ Revives \/ Strikes \/ Falls
  BY <1>1, <1>11 DEF Load, Leaves, Dies, Revives, Strikes, Falls
<1>12. CASE Tick
  BY <1>1, <1>12 DEF Tick
<1>13. CASE UNCHANGED vars
  BY <1>1, <1>13 DEF vars
<1>. QED  BY <1>3, <1>4, <1>5, <1>6, <1>7, <1>8, <1>9, <1>10, <1>11, <1>12, <1>13 DEF Next

\* What keeps the clock close to the effect: who follows an effect, looks.
LEMMA TimingStep ==
    ASSUME TypeOK, Looking, Causes, Timing, [Next]_vars
    PROVE  Timing'
<1>. USE DEF phaseVars, flagVars, linkVars, clockVars, sessionVars, playerVars, clientUnchanged
<1>0. /\ Attached /\ (Apart \/ OnTime) /\ blamed # "link"
      /\ sinceLink \in Nat /\ sinceLook \in Nat /\ sinceLook <= PollInterval /\ dyingFor \in Nat
      /\ dyingFor <= Dying
      /\ PollInterval \in Nat \ {0} /\ Dying \in Nat /\ Window \in Nat
      /\ PollInterval + 1 + Dying <= Window
  BY Bounds DEF Timing, TypeOK
\* Nothing that the clocks are for has begun.
<1>1. ASSUME UNCHANGED <<gstate, pending, want, deathlink, deathQueued, deathSent, dead,
                         sinceLink, sinceLook, polled, blamed>>,
             effect' = "link" => effect = "link",
             cause' = "link" => cause = "link" /\ UNCHANGED <<boy, dyingFor>>
      PROVE  Timing'
  <2>1. Attached'
    BY <1>0, <1>1 DEF Attached, Killing, Fresh
  <2>2. Apart => Apart'
    BY <1>1 DEF Apart
  <2>3. OnTime => OnTime'
    BY <1>1 DEF OnTime, Killing, HpAwaited, EffectAwaited
  <2>. QED  BY <1>0, <1>1, <2>1, <2>2, <2>3 DEF Timing
<1>2. CASE Poll
  <2>1. CASE gstate = "JOINED"
    <3>1. /\ pending' = <<"game">> \o Looks \o <<"game">> /\ polled' /\ blamed' = "nothing"
          /\ sinceLook' = sinceLook % PollInterval
          /\ UNCHANGED <<gstate, want, deathlink, deathQueued, deathSent, dead, sinceLink,
                         effect, cause, boy, dyingFor>>
      BY <1>2, <2>1 DEF Poll
    <3>2. OnTime
      BY <1>0, <2>1 DEF Apart
    <3>3. Attached'
      BY <1>0, <2>1, <3>1 DEF Attached, Killing, Fresh
    <3>4. Killing => deathlink
      BY <1>0, <2>1 DEF Attached, Fresh
    <3>5. sinceLook' < PollInterval /\ (sinceLook # PollInterval => sinceLook' = sinceLook)
      <4>1. sinceLook \in 0..PollInterval
        BY <1>0
      <4>2. sinceLook' = IF sinceLook = PollInterval THEN 0 ELSE sinceLook
        BY <3>1, <4>1, Bounds
      <4>. QED  BY <1>0, <4>2
    <3>6. ~EffectAwaited(pending) /\ ~HpAwaited(pending)
      BY <1>2, AwaitedInQueues DEF Poll
    <3>7. Killing /\ sinceLook = PollInterval =>
            HpAwaited(pending') /\ (deathQueued => EffectAwaited(pending'))
      <4>1. Killing /\ sinceLook = PollInterval =>
              Looks = IF deathQueued THEN <<"hp", "effect">> ELSE <<"hp">>
        BY <3>4 DEF Looks
      <4>. QED  BY <3>1, <4>1, Batches, AwaitedInQueues, Zenon
    <3>8. (effect = "link" \/ (cause = "link" /\ deathSent)) => Killing /\ deathQueued
      BY <1>0 DEF Killing, Attached, TypeOK
    <3>9. OnTime'
      BY <1>0, <3>1, <3>2, <3>5, <3>6, <3>7, <3>8 DEF OnTime, Killing, HpAwaited, EffectAwaited
    <3>. QED  BY <3>1, <3>3, <3>9 DEF Timing
  <2>2. CASE gstate # "JOINED"
    <3>1. /\ effect' # "link" /\ cause' # "link" /\ deathQueued' = FALSE /\ blamed' = "nothing"
      BY <1>2, <2>2 DEF Poll, NoPart, Astray
    <3>. QED  BY <3>1 DEF Timing, Attached, OnTime, Killing
  <2>. QED  BY <2>1, <2>2
<1>3. CASE OnHp
  <2>1. /\ UNCHANGED <<gstate, want, deathlink, deathQueued, deathSent, sinceLink, sinceLook,
                       polled, boy, dyingFor, effect>>
        /\ pending # <<>> /\ Head(pending) = "hp" /\ pending' = Tail(pending)
    BY <1>3 DEF OnHp, Answers
  <2>2. HpAwaited(pending) /\ (EffectAwaited(pending') <=> EffectAwaited(pending))
    BY <2>1, Popped, "hp" # "effect", Zenon DEF Looking
  <2>3. OnTime /\ sinceLook = 0
    BY <1>0, <2>1, <2>2 DEF Apart, Looking
  <2>4. PICK hp \in HpReadings :
          /\ dead' = Dead(hp)
          /\ IF hp = "dead" /\ ~dead /\ Tells
             THEN /\ Tell
                  /\ blamed' = IF ap = NoRom THEN blamed ELSE IF playing THEN cause ELSE "garbage"
                  /\ cause' = IF playing THEN Told ELSE cause
             ELSE UNCHANGED <<deathtime, inbox, blamed, cause>>
    BY <1>3 DEF OnHp
  <2>5. cause' = "link" => cause = "link"
    BY <2>4 DEF Told
  <2>6. cause = "link" => playing /\ boy # "alive" /\ (boy = "dead" => dead')
                          /\ (hp = "dead" => boy = "dead")
    BY <2>4 DEF Causes, HpReadings, Dead
  <2>7. blamed' # "link"
    <3>1. SUFFICES ASSUME playing, cause = "link", hp = "dead", ~dead, sinceLink > Window
                   PROVE  FALSE
      BY <1>0, <2>4 DEF Tells
    <3>2. boy = "dead"
      BY <2>6, <3>1
    <3>3. CASE deathSent
      BY <1>0, <2>3, <3>1, <3>3 DEF OnTime
    <3>4. CASE ~deathSent
      BY <1>0, <2>3, <3>1, <3>2, <3>4 DEF OnTime
    <3>. QED  BY <3>3, <3>4
  <2>8. Attached'
    BY <1>0, <2>1, <2>5 DEF Attached, Killing, Fresh
  <2>9. OnTime'
    <3>1. Killing' => Killing
      BY <2>1, <2>5 DEF Killing
    <3>2. (Killing /\ polled => sinceLook < PollInterval)'
      BY <2>1, <2>3, <3>1 DEF OnTime
    <3>3. (effect = "link" \/ (cause = "link" /\ deathSent) =>
              \/ sinceLink <= sinceLook
              \/ EffectAwaited(pending) /\ sinceLink <= PollInterval)'
      BY <2>1, <2>2, <2>3, <2>5 DEF OnTime, EffectAwaited
    <3>4. (cause = "link" /\ ~deathSent /\ boy = "doomed" => sinceLink <= dyingFor)'
      BY <2>1, <2>3, <2>5 DEF OnTime
    <3>5. ~(cause = "link" /\ ~deathSent /\ boy = "dead" /\ ~dead)'
      BY <2>1, <2>5, <2>6
    <3>. QED  BY <3>2, <3>3, <3>4, <3>5 DEF OnTime
  <2>. QED  BY <2>7, <2>8, <2>9 DEF Timing
<1>4. CASE OnEffect
  <2>1. /\ UNCHANGED <<gstate, want, deathlink, dead, sinceLook, polled, blamed, boy, cause,
                       dyingFor>>
        /\ pending # <<>> /\ Head(pending) = "effect" /\ pending' = Tail(pending)
    BY <1>4 DEF OnEffect, Answers
  <2>2. EffectAwaited(pending) /\ deathQueued /\ sinceLook = 0 /\ ~HpAwaited(pending)
    <3>1. EffectAwaited(pending)
      BY <2>1, Popped, Zenon DEF Looking
    <3>2. HpAwaited(Tail(pending)) <=> HpAwaited(pending)
      BY <2>1, Popped, "hp" # "effect", Zenon DEF Looking
    <3>3. ~HpAwaited(pending)
      BY <2>1, <3>2, EffectLast, Zenon DEF Looking
    <3>. QED  BY <3>1, <3>3 DEF Looking
  <2>3. OnTime
    BY <1>0, <2>1 DEF Apart
  <2>4. gstate = "STOPPED" \/ (deathlink /\ want)
    BY <1>0, <2>1, <2>2 DEF Attached, Fresh
  \* The three answers.
  <2>5. \/ deathSent /\ ~deathSent' /\ sinceLink' = 0 /\ effect' # "link"
        \/ ~deathSent /\ deathSent' /\ sinceLink' = 0 /\ deathQueued'
        \/ deathSent /\ deathSent' /\ sinceLink' = 0 /\ deathQueued' /\ effect' = effect
        \/ UNCHANGED <<deathQueued, deathSent, sinceLink, effect>> /\ ~deathSent
    BY <1>4, <2>2 DEF OnEffect, EffectDone, WaitForEffect, Astray, TypeOK
  <2>6. Attached'
    BY <1>0, <2>1, <2>4, <2>5 DEF Attached, Killing, Fresh
  <2>7. OnTime'
    <3>1. CASE sinceLink' = 0
      BY <1>0, <2>1, <2>2, <3>1 DEF OnTime
    <3>2. CASE UNCHANGED <<deathQueued, deathSent, sinceLink, effect>> /\ ~deathSent
      <4>1. effect # "link"
        BY <1>0, <3>2 DEF Attached
      <4>. QED  BY <2>1, <2>2, <2>3, <3>2, <4>1 DEF OnTime, Killing, HpAwaited
    <3>. QED  BY <2>5, <3>1, <3>2
  <2>. QED  BY <1>0, <2>1, <2>6, <2>7 DEF Timing
<1>5. CASE OnGame
  <2>1. /\ UNCHANGED <<deathQueued, deathSent, dead, sinceLink, sinceLook, polled, blamed, boy,
                       cause, dyingFor, effect>>
        /\ pending # <<>> /\ Head(pending) = "game" /\ pending' = Tail(pending)
    BY <1>5 DEF OnGame, Answers
  <2>2. /\ HpAwaited(pending') <=> HpAwaited(pending)
        /\ EffectAwaited(pending') <=> EffectAwaited(pending)
        /\ pending \in Tails => pending' = <<>>
    BY <2>1, Popped, "hp" # "game", "effect" # "game", Zenon DEF Looking
  <2>3. OnTime
    BY <1>0, <2>1 DEF Apart
  <2>4. OnTime'
    BY <2>1, <2>2, <2>3 DEF OnTime, Killing, HpAwaited, EffectAwaited
  <2>5. CASE GameStarted
    <3>1. gstate = "STOPPED"
      BY <2>5 DEF GameStarted, Phases!Start
    <3>2. pending' = <<>>
      BY <2>2, <3>1 DEF Looking
    <3>3. gstate' \in {"STOPPED", "RUNNING"}
      BY <2>5 DEF GameStarted, Phases!Start, Phases!Reset
    <3>4. Attached'
      BY <1>0, <2>1, <3>2, <3>3 DEF Attached, Fresh
    <3>. QED  BY <1>0, <2>1, <2>4, <3>4 DEF Timing
  <2>6. CASE Phases!Stop
    <3>1. gstate' = "STOPPED"
      BY <2>6 DEF Phases!Stop
    <3>. QED  BY <1>0, <2>1, <2>4, <3>1 DEF Timing, Attached
  <2>7. CASE /\ Phases!Join \/ Phases!Leave \/ Phases!Finish \/ UNCHANGED phaseVars
             /\ UNCHANGED <<flagVars, ap, inbox>>
    <3>1. gstate = "STOPPED" => gstate' = "STOPPED"
      BY <2>7 DEF Phases!Join, Phases!Leave, Phases!Finish, Phases!Playing
    <3>2. Attached'
      BY <1>0, <2>1, <2>7, <3>1 DEF Attached, Killing, Fresh
    <3>. QED  BY <1>0, <2>1, <2>4, <3>2 DEF Timing
  <2>. QED  BY <1>5, <2>5, <2>6, <2>7 DEF OnGame
<1>6. CASE LinkLost
  <2>1. gstate' = "STOPPED" /\ pending' = <<>>
        /\ UNCHANGED <<effect, deathSent, deathQueued, blamed>>
    BY <1>6 DEF LinkLost, Phases!Reset
  <2>. QED  BY <1>0, <2>1 DEF Timing, Attached, Apart
<1>7. CASE Reopened
  <2>1. /\ gstate = "FINISHED" /\ gstate' = "JOINED"
        /\ UNCHANGED <<flagVars, linkVars, clockVars, pending, sessionVars, playerVars, effect>>
    BY <1>7 DEF Reopened, Phases!Reopen
  <2>2. OnTime
    BY <1>0, <2>1 DEF Apart
  <2>3. Attached'
    BY <1>0, <2>1 DEF Attached, Killing, Fresh
  <2>4. OnTime'
    BY <2>1, <2>2 DEF OnTime, Killing, HpAwaited, EffectAwaited
  <2>. QED  BY <1>0, <2>1, <2>3, <2>4 DEF Timing
<1>8. CASE SlotConnected
  <2>1. /\ deathlink' = want
        /\ UNCHANGED <<phaseVars, want, linkVars, clockVars, pending, deathtime, inbox, blamed,
                       playerVars, effect>>
    BY <1>8 DEF SlotConnected
  <2>2. Attached'
    BY <1>0, <2>1 DEF Attached, Killing, Fresh
  <2>3. (Apart \/ OnTime)'
    BY <1>0, <2>1 DEF Apart, OnTime, Killing, HpAwaited, EffectAwaited
  <2>. QED  BY <1>0, <2>1, <2>2, <2>3 DEF Timing
<1>9. CASE SlotLost \/ ForeignDeath
  BY <1>1, <1>9 DEF SlotLost, ForeignDeath
<1>10. CASE OnBounced
  <2>1. /\ UNCHANGED <<gstate, pending, want, deathlink, deathSent, dead, sinceLink, sinceLook,
                       polled, blamed, boy, cause, dyingFor, effect>>
        /\ deathQueued' = deathQueued \/ (deathQueued' = TRUE /\ want /\ deathlink)
    BY <1>10 DEF OnBounced, SendDeath
  <2>2. Attached'
    BY <1>0, <2>1 DEF Attached, Killing, Fresh
  <2>3. (Apart \/ OnTime)'
    BY <1>0, <2>1 DEF Apart, OnTime, Killing, HpAwaited, EffectAwaited
  <2>. QED  BY <1>0, <2>1, <2>2, <2>3 DEF Timing
<1>11. CASE Load \/ Leaves \/ Revives
  <2>1. /\ UNCHANGED gstate /\ cause' = "nothing" /\ (effect' = "link" => effect = "link")
        /\ clientUnchanged
    BY <1>11 DEF Load, Leaves, Revives, Alive, Phases!Load, Phases!Quit, Phases!SwapCart
  <2>. QED  BY <1>1, <2>1
<1>12. CASE Dies
  <2>1. cause' # "link" /\ UNCHANGED <<gstate, effect>> /\ clientUnchanged
    BY <1>12 DEF Dies
  <2>. QED  BY <1>1, <2>1
\* The effect strikes: what is known of the effect sent is what is wanted of the death.
<1>13. CASE Strikes
  <2>1. /\ UNCHANGED gstate /\ clientUnchanged /\ effect' = "none"
        /\ \/ UNCHANGED playerVars
           \/ boy' = "doomed" /\ cause' = effect
    BY <1>13 DEF Strikes
  <2>2. CASE UNCHANGED playerVars
    BY <1>1, <2>1, <2>2
  <2>3. CASE boy' = "doomed" /\ cause' = effect
    <3>1. Killing' => Killing /\ effect = "link" /\ deathSent
      BY <1>0, <2>1, <2>3 DEF Killing, Attached
    <3>2. Attached'
      BY <1>0, <2>1, <3>1 DEF Attached, Fresh
    <3>3. Apart => Apart'
      BY <2>1 DEF Apart
    <3>4. OnTime => OnTime'
      BY <2>1, <2>3, <3>1 DEF OnTime, Killing, EffectAwaited
    <3>. QED  BY <1>0, <2>1, <3>2, <3>3, <3>4 DEF Timing
  <2>. QED  BY <2>1, <2>2, <2>3
<1>14. CASE Falls
  <2>1. /\ boy = "doomed" /\ boy' = "dead"
        /\ UNCHANGED <<phaseVars, cause, dyingFor, effect>> /\ clientUnchanged
    BY <1>14 DEF Falls
  <2>2. Attached'
    BY <1>0, <2>1 DEF Attached, Killing, Fresh
  <2>3. Apart => Apart'
    BY <2>1 DEF Apart
  <2>4. OnTime => OnTime'
    BY <1>0, <2>1 DEF OnTime, Killing, HpAwaited, EffectAwaited
  <2>. QED  BY <1>0, <2>1, <2>2, <2>3, <2>4 DEF Timing
\* Time passes: all clocks go on, none beyond its bound that another is measured by.
<1>15. CASE Tick
  <2>1. /\ polled /\ ~polled'
        /\ sinceLink' \in Nat /\ sinceLink' <= sinceLink + 1
        /\ sinceLook < PollInterval => sinceLook' = sinceLook + 1
        /\ dyingFor' = IF boy = "doomed" THEN dyingFor + 1 ELSE dyingFor
        /\ UNCHANGED <<phaseVars, flagVars, linkVars, pending, sessionVars, boy, cause, effect>>
    <3>1. sinceLink \in 0..(Window + 1) /\ sinceLook \in 0..PollInterval
      BY DEF TypeOK
    <3>. QED  BY <1>15, <3>1, Bounds DEF Tick
  <2>2. ~HpAwaited(pending) /\ ~EffectAwaited(pending)
    BY <1>15 DEF Tick, HpAwaited, EffectAwaited
  <2>3. Attached'
    BY <1>0, <2>1 DEF Attached, Killing, Fresh
  <2>4. Apart => Apart'
    BY <2>1 DEF Apart
  <2>5. OnTime => OnTime'
    BY <1>0, <2>1, <2>2 DEF OnTime, Killing, HpAwaited, EffectAwaited
  <2>. QED  BY <1>0, <2>1, <2>3, <2>4, <2>5 DEF Timing
<1>16. CASE UNCHANGED vars
  BY <1>1, <1>16 DEF vars
<1>. QED  BY <1>2, <1>3, <1>4, <1>5, <1>6, <1>7, <1>8, <1>9, <1>10, <1>11, <1>12, <1>13,
             <1>14, <1>15, <1>16 DEF Next

-----------------------------------------------------------------------------
(* The theorems.                                                            *)

LEMMA NextInv == Inv /\ [Next]_vars => Inv'
<1>. SUFFICES ASSUME Inv, [Next]_vars PROVE Inv'
  OBVIOUS
<1>1. TypeOK' /\ Looking' /\ Received'
  BY TypeStep, LookingStep, ReceivedStep DEF Inv
<1>2. Causes' /\ blamed' # "told"
  BY CausesStep DEF Inv
<1>3. Timing'
  BY TimingStep DEF Inv
<1>4. PromptEcho => EchoesKnown' /\ queuedFor' # "echo"
  BY EchoStep DEF Inv
<1>. QED  BY <1>1, <1>2, <1>3, <1>4 DEF Inv

\* The invariant holds in every reachable state.
THEOREM Invariance == Spec => []Inv
<1>. QED  BY InitInv, NextInv, PTL DEF Spec

\* The fields of SoE, the clocks and what the room has on its way keep their types; a death
\* is not sent without having been queued.
THEOREM TypeCorrect == Spec => []TypeOK
<1>1. Inv => TypeOK
  BY DEF Inv
<1>. QED  BY Invariance, <1>1, PTL

\* SoE::poll() never tells the room of a death that an effect of its own was for, whatever
\* games, slots and links come and go: the window of the clock that send_death()'s effect
\* restarts outlasts the effect, and the time between two looks at the player.
THEOREM NeverToldBack == Spec => []ReceivedNotToldBack
<1>1. Inv => ReceivedNotToldBack
  BY DEF Inv, Timing, ReceivedNotToldBack
<1>. QED  BY Invariance, <1>1, PTL

\* One death is told at most once: _dead outlives every read that could hide it.
THEOREM ToldAtMostOnce == Spec => []ToldOnce
<1>1. Inv => ToldOnce
  BY DEF Inv, ToldOnce
<1>. QED  BY Invariance, <1>1, PTL

\* When the echo of a death comes before the next one, the bounced handler knows it by its
\* time, and never queues a death for it.
THEOREM EchoHarmless == ASSUME PromptEcho PROVE Spec => []EchoNeverKills
<1>1. Inv => EchoNeverKills
  BY DEF Inv, EchoNeverKills
<1>. QED  BY Invariance, <1>1, PTL

\* Whenever SoE::poll() is about to write the effect, a death came in since it wrote it last.
THEOREM KillsForAReason == Spec => []KillsWhatWasReceived
<1>1. Inv => KillsWhatWasReceived
  BY DEF Inv, Received, KillsWhatWasReceived
<1>. QED  BY Invariance, <1>1, PTL

=============================================================================
