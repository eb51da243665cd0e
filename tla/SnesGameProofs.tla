---------------------------- MODULE SnesGameProofs ----------------------------
(***************************************************************************)
(* Proofs about SnesGame, for every set of ROMs, locations and memory blocks. *)
(*                                                                         *)
(* The first invariant assumes nothing of the console and of the room: what  *)
(* is shown to the user, what the cache hides, and what is taken for a        *)
(* snapshot.  The second assumes that saves load slowly: what is reported was *)
(* earned, in the ROM it is reported for.  The third, for GamePhases, assumes  *)
(* that memory never passes for a save, and that no room interrupts a game    *)
(* that is joining, too.                                                    *)
(*                                                                         *)
(* All rest on the shape of the queue of callbacks: the reads of a game that *)
(* is not played wait alone, and of a batch the first check comes first, the   *)
(* blocks next, and the second check after them.                            *)
(***************************************************************************)
EXTENDS SnesGame, TLAPS, SequenceTheorems, FiniteSetTheorems

-----------------------------------------------------------------------------
(* The queue of callbacks.                                                  *)

\* The callbacks in a queue.
In(q) == {q[i] : i \in DOMAIN q}

\* A callback that identifies the ROM, or looks for a save, for the use u.
IsFor(c, u) == c.cb \in {"header", "flags", "section", "joined"} /\ c.use = u

Block(b) == [cb |-> "block", block |-> b]

Orderly(q) ==
    /\ \A c \in In(q) : IsFor(c, "start") \/ IsFor(c, "run") => Len(q) = 1
    /\ \A i \in DOMAIN q : q[i] = Joined("before") =>
            i = 1 /\ Joined("after") \in In(q) /\ \A b \in Blocks : Block(b) \in In(q)
    /\ \A i, j \in DOMAIN q : i < j /\ q[j].cb = "block" =>
            q[i].cb = "block" \/ q[i] = Joined("before")

LEMMA CallbackFields ==
    ASSUME NEW c \in Callbacks
    PROVE  /\ c.cb \in {"header", "flags", "section", "joined", "block", "finished"}
           /\ c.cb \in {"header", "flags", "section"} => c.use \in Uses
           /\ c.cb = "section" => c.deathlink \in BOOLEAN
           /\ c.cb = "joined" => c.use \in {"run", "before", "after"} /\ c = Joined(c.use)
           /\ c.cb = "block" => c.block \in Blocks /\ c = Block(c.block)
BY DEF Callbacks, Joined, Block

LEMMA CallbacksMade ==
    /\ \A u \in Uses : Header(u) \in Callbacks /\ FlagByte(u) \in Callbacks
    /\ \A u \in Uses, d \in BOOLEAN : Section(u, d) \in Callbacks
    /\ \A u \in {"run", "before", "after"} : Joined(u) \in Callbacks
    /\ \A b \in Blocks : Block(b) \in Callbacks
    /\ [cb |-> "finished"] \in Callbacks
BY DEF Callbacks, Header, FlagByte, Section, Joined, Block

\* The oldest callback leaves the queue.
LEMMA Popped ==
    ASSUME NEW q \in Seq(Callbacks), q # <<>>, Orderly(q)
    PROVE  /\ Tail(q) \in Seq(Callbacks)
           /\ Orderly(Tail(q))
           /\ Head(q) \in In(q) /\ Head(q) \in Callbacks
           /\ In(q) = In(Tail(q)) \cup {Head(q)}
           /\ IsFor(Head(q), "start") \/ IsFor(Head(q), "run") => Tail(q) = <<>>
           /\ Joined("before") \notin In(Tail(q))
           /\ Head(q).cb = "block" \/ Head(q) = Joined("before")
              \/ \A c \in In(Tail(q)) : c.cb # "block"
<1>1. /\ Len(q) \in Nat /\ Len(q) > 0 /\ DOMAIN q = 1..Len(q)
      /\ Tail(q) \in Seq(Callbacks) /\ Len(Tail(q)) = Len(q) - 1
      /\ Head(q) = q[1]
      /\ \A i \in 1..Len(Tail(q)) : Tail(q)[i] = q[i + 1]
      /\ DOMAIN Tail(q) = 1..Len(Tail(q))
  OBVIOUS
<1>2. Head(q) \in In(q) /\ Head(q) \in Callbacks
  BY <1>1 DEF In
<1>3. In(q) = In(Tail(q)) \cup {Head(q)}
  <2>1. ASSUME NEW i \in DOMAIN q PROVE q[i] \in In(Tail(q)) \cup {Head(q)}
    <3>1. CASE i = 1  BY <3>1, <1>1
    <3>2. CASE i # 1
      <4>1. i - 1 \in DOMAIN Tail(q) /\ Tail(q)[i - 1] = q[i]
        BY <3>2, <1>1
      <4>. QED  BY <4>1 DEF In
    <3>. QED  BY <3>1, <3>2
  <2>2. ASSUME NEW i \in DOMAIN Tail(q) PROVE Tail(q)[i] \in In(q)
    <3>1. i + 1 \in DOMAIN q /\ Tail(q)[i] = q[i + 1]
      BY <1>1
    <3>. QED  BY <3>1 DEF In
  <2>. QED  BY <1>2, <2>1, <2>2 DEF In
<1>4. Joined("before") \notin In(Tail(q))
  <2>1. ASSUME NEW i \in DOMAIN Tail(q) PROVE Tail(q)[i] # Joined("before")
    <3>1. i + 1 \in DOMAIN q /\ Tail(q)[i] = q[i + 1] /\ i + 1 # 1
      BY <1>1
    <3>. QED  BY <3>1 DEF Orderly
  <2>. QED  BY <2>1 DEF In
<1>5. IsFor(Head(q), "start") \/ IsFor(Head(q), "run") => Tail(q) = <<>>
  BY <1>1, <1>2 DEF Orderly
<1>6. Head(q).cb = "block" \/ Head(q) = Joined("before")
        \/ \A c \in In(Tail(q)) : c.cb # "block"
  <2>1. ASSUME NEW i \in DOMAIN Tail(q), Tail(q)[i].cb = "block"
        PROVE  Head(q).cb = "block" \/ Head(q) = Joined("before")
    <3>1. 1 \in DOMAIN q /\ i + 1 \in DOMAIN q /\ 1 < i + 1 /\ q[i + 1].cb = "block"
      BY <1>1, <2>1
    <3>. QED  BY <3>1, <1>1 DEF Orderly
  <2>. QED  BY <2>1 DEF In
<1>7. Orderly(Tail(q))
  <2>1. ASSUME NEW c \in In(Tail(q)), IsFor(c, "start") \/ IsFor(c, "run")
        PROVE  FALSE
    <3>1. c \in In(q) /\ Len(q) = 1  BY <2>1, <1>3 DEF Orderly
    <3>2. PICK i \in DOMAIN Tail(q) : Tail(q)[i] = c  BY <2>1 DEF In
    <3>3. i \in 1..(Len(q) - 1)  BY <1>1, <3>2
    <3>. QED  BY <3>1, <3>3
  <2>2. \A i \in DOMAIN Tail(q) : Tail(q)[i] # Joined("before")
    BY <1>4 DEF In
  <2>3. ASSUME NEW i \in DOMAIN Tail(q), NEW j \in DOMAIN Tail(q), i < j,
               Tail(q)[j].cb = "block"
        PROVE  Tail(q)[i].cb = "block" \/ Tail(q)[i] = Joined("before")
    <3>1. /\ i + 1 \in DOMAIN q /\ j + 1 \in DOMAIN q /\ i + 1 < j + 1
          /\ Tail(q)[i] = q[i + 1] /\ Tail(q)[j] = q[j + 1]
      BY <1>1, <2>3
    <3>. QED  BY <3>1, <2>3 DEF Orderly
  <2>. QED  BY <2>1, <2>2, <2>3 DEF Orderly
<1>. QED  BY <1>1, <1>2, <1>3, <1>4, <1>5, <1>6, <1>7

LEMMA InAppend ==
    ASSUME NEW q \in Seq(Callbacks), NEW x \in Callbacks
    PROVE  In(Append(q, x)) = In(q) \cup {x}
<1>1. /\ Len(q) \in Nat /\ DOMAIN q = 1..Len(q) /\ DOMAIN Append(q, x) = 1..(Len(q) + 1)
      /\ Append(q, x)[Len(q) + 1] = x
      /\ \A i \in DOMAIN q : Append(q, x)[i] = q[i]
  OBVIOUS
<1>2. ASSUME NEW i \in DOMAIN Append(q, x) PROVE Append(q, x)[i] \in In(q) \cup {x}
  <2>1. i \in DOMAIN q \/ i = Len(q) + 1  BY <1>1
  <2>. QED  BY <1>1, <2>1 DEF In
<1>3. In(q) \cup {x} \subseteq In(Append(q, x))
  BY <1>1 DEF In
<1>. QED  BY <1>2, <1>3 DEF In

\* A read is asked for by the oldest callback.
LEMMA Pushed ==
    ASSUME NEW q \in Seq(Callbacks), NEW x \in Callbacks, Orderly(q),
           Joined("before") \notin In(q), x # Joined("before"), x.cb # "block",
           IsFor(x, "start") \/ IsFor(x, "run") => q = <<>>,
           q # <<>> => \A c \in In(q) : ~IsFor(c, "start") /\ ~IsFor(c, "run")
    PROVE  /\ Append(q, x) \in Seq(Callbacks)
           /\ Orderly(Append(q, x))
           /\ In(Append(q, x)) = In(q) \cup {x}
<1> DEFINE r == Append(q, x)
<1>1. /\ Len(q) \in Nat /\ DOMAIN q = 1..Len(q)
      /\ r \in Seq(Callbacks) /\ Len(r) = Len(q) + 1 /\ DOMAIN r = 1..(Len(q) + 1)
      /\ r[Len(q) + 1] = x
      /\ \A i \in DOMAIN q : r[i] = q[i]
  OBVIOUS
<1>2. In(r) = In(q) \cup {x}
  BY InAppend
<1>3. ASSUME NEW c \in In(r), IsFor(c, "start") \/ IsFor(c, "run")
      PROVE  Len(r) = 1
  <2>1. CASE q = <<>>  BY <2>1, <1>1
  <2>2. CASE q # <<>>  BY <2>2, <1>2, <1>3
  <2>. QED  BY <2>1, <2>2
<1>4. \A i \in DOMAIN r : r[i] # Joined("before")
  BY <1>2 DEF In
<1>5. ASSUME NEW i \in DOMAIN r, NEW j \in DOMAIN r, i < j, r[j].cb = "block"
      PROVE  r[i].cb = "block" \/ r[i] = Joined("before")
  <2>1. j \in DOMAIN q /\ i \in DOMAIN q  BY <1>1, <1>5
  <2>. QED  BY <2>1, <1>1, <1>5 DEF Orderly
<1>6. Orderly(r)
  BY <1>3, <1>4, <1>5 DEF Orderly
<1>. QED  BY <1>1, <1>2, <1>6

\* A read that waits alone.
LEMMA Alone ==
    ASSUME NEW x \in Callbacks, x # Joined("before")
    PROVE  <<x>> \in Seq(Callbacks) /\ In(<<x>>) = {x} /\ Orderly(<<x>>)
<1>1. /\ <<x>> \in Seq(Callbacks) /\ Len(<<x>>) = 1
      /\ DOMAIN <<x>> = {1} /\ <<x>>[1] = x
  OBVIOUS
<1>2. In(<<x>>) = {x}
  BY <1>1 DEF In
<1>3. Orderly(<<x>>)
  BY <1>1 DEF Orderly
<1>. QED  BY <1>1, <1>2, <1>3

\* The blocks of a batch come in some order, and all of them.
LEMMA OrderIsComplete ==
    /\ Order \in Seq(Blocks)
    /\ \A b \in Blocks : \E i \in DOMAIN Order : Order[i] = b
<1>1. PICK n \in Nat : ExistsBijection(1..n, Blocks)
  BY FS_NatBijection, FlagAssumption
<1>2. n = Cardinality(Blocks)
  BY <1>1, FS_CountingElements, FlagAssumption
<1>3. PICK f \in Bijection(1..n, Blocks) : TRUE
  BY <1>1 DEF ExistsBijection
<1>4. f \in [1..n -> Blocks] /\ \A b \in Blocks : \E i \in DOMAIN f : f[i] = b
  BY <1>3 DEF Bijection, Surjection
<1>5. /\ Order \in [1..Cardinality(Blocks) -> Blocks]
      /\ \A b \in Blocks : \E i \in DOMAIN Order : Order[i] = b
  BY <1>2, <1>4 DEF Order
<1>. QED  BY <1>2, <1>5

LEMMA BatchFacts ==
    ASSUME gstate \in States
    PROVE  /\ Batch \in Seq(Callbacks) /\ Batch # <<>>
           /\ Orderly(Batch)
           /\ gstate = "STOPPED" => In(Batch) = {Header("start")}
           /\ gstate = "RUNNING" => In(Batch) = {Header("run")}
           /\ Playing(gstate) => \A c \in In(Batch) :
                 /\ ~IsFor(c, "start") /\ ~IsFor(c, "run")
                 /\ c.cb # "section"
<1>1. CASE gstate \in {"STOPPED", "RUNNING"}
  <2>1. PICK u \in {"start", "run"} :
           /\ Batch = <<Header(u)>>
           /\ u = IF gstate = "STOPPED" THEN "start" ELSE "run"
    <3>1. CASE gstate = "STOPPED"  BY <3>1 DEF Batch, Playing
    <3>2. CASE gstate = "RUNNING"  BY <3>2 DEF Batch, Playing
    <3>. QED  BY <1>1, <3>1, <3>2
  <2>2. Header(u) \in Callbacks
    BY CallbacksMade DEF Uses
  <2>3. In(Batch) = {Header(u)} /\ Len(Batch) = 1 /\ DOMAIN Batch = {1} /\ Batch[1] = Header(u)
    BY <2>1 DEF In
  <2>4. Header(u).cb = "header" /\ Header(u) # Joined("before")
    BY DEF Header, Joined
  <2>5. Orderly(Batch)
    BY <2>3, <2>4 DEF Orderly
  <2>. QED  BY <1>1, <2>1, <2>2, <2>3, <2>5 DEF Playing
<1>2. CASE Playing(gstate)
  <2> DEFINE first == <<Joined("before")>>
             last  == <<[cb |-> "finished"], Header("verify"), Joined("after")>>
             n     == Len(Order)
  <2>1. /\ Order \in Seq(Blocks) /\ n \in Nat /\ DOMAIN Order = 1..n
        /\ \A b \in Blocks : \E i \in 1..n : Order[i] = b
    BY OrderIsComplete
  <2>2. /\ BlockReads \in Seq(Callbacks) /\ Len(BlockReads) = n
        /\ \A i \in 1..n : BlockReads[i] = Block(Order[i])
    BY <2>1, CallbacksMade DEF BlockReads, Block
  <2>3. /\ first \in Seq(Callbacks) /\ Len(first) = 1
        /\ last \in Seq(Callbacks) /\ Len(last) = 3
    BY CallbacksMade DEF Uses
  <2>4. Batch = first \o BlockReads \o last
    BY <1>2 DEF Batch, Playing
  <2>5. /\ Batch \in Seq(Callbacks) /\ Len(Batch) = n + 4 /\ DOMAIN Batch = 1..(n + 4)
        /\ Batch[1] = Joined("before")
        /\ \A i \in 2..(n + 1) : Batch[i] = Block(Order[i - 1])
        /\ Batch[n + 2] = [cb |-> "finished"]
        /\ Batch[n + 3] = Header("verify")
        /\ Batch[n + 4] = Joined("after")
    BY <2>1, <2>2, <2>3, <2>4
  <2>6. ASSUME NEW i \in DOMAIN Batch
        PROVE  \/ i = 1 /\ Batch[i] = Joined("before")
               \/ i \in 2..(n + 1) /\ Batch[i] = Block(Order[i - 1]) /\ Batch[i].cb = "block"
               \/ i > n + 1 /\ Batch[i].cb \in {"finished", "header", "joined"}
                  /\ Batch[i] # Joined("before")
                  /\ ~IsFor(Batch[i], "start") /\ ~IsFor(Batch[i], "run")
    <3>1. i \in 1..(n + 4)  BY <2>5
    <3>2. CASE i = 1  BY <3>2, <2>5
    <3>3. CASE i \in 2..(n + 1)
      <4>1. Batch[i] = Block(Order[i - 1])  BY <3>3, <2>5
      <4>. QED  BY <3>3, <4>1 DEF Block
    <3>4. CASE i \in {n + 2, n + 3, n + 4}
      <4>1. Batch[i] \in {[cb |-> "finished"], Header("verify"), Joined("after")}
        BY <3>4, <2>5
      <4>2. /\ Batch[i].cb \in {"finished", "header", "joined"}
            /\ ~IsFor(Batch[i], "start") /\ ~IsFor(Batch[i], "run")
        BY <4>1 DEF Header, Joined, IsFor
      <4>3. Batch[i] # Joined("before")
        BY <4>1 DEF Header, Joined
      <4>. QED  BY <3>4, <2>1, <4>2, <4>3
    <3>. QED  BY <2>1, <3>1, <3>2, <3>3, <3>4
  <2>7. ASSUME NEW b \in Blocks PROVE Block(b) \in In(Batch)
    <3>1. PICK i \in 1..n : Order[i] = b  BY <2>1
    <3>2. i + 1 \in 2..(n + 1) /\ i + 1 \in DOMAIN Batch /\ (i + 1) - 1 = i
      BY <2>1, <2>5
    <3>. QED  BY <3>1, <3>2, <2>5 DEF In
  <2>8. \A c \in In(Batch) : ~IsFor(c, "start") /\ ~IsFor(c, "run") /\ c.cb # "section"
    BY <2>6 DEF In, IsFor, Joined, Block
  <2>9. ASSUME NEW i \in DOMAIN Batch, NEW j \in DOMAIN Batch, i < j, Batch[j].cb = "block"
        PROVE  Batch[i].cb = "block" \/ Batch[i] = Joined("before")
    <3>1. j <= n + 1 /\ i \in 1..(n + 1)
      BY <2>1, <2>5, <2>6, <2>9
    <3>. QED  BY <2>6, <2>1, <3>1
  <2>10. \A i \in DOMAIN Batch : Batch[i] = Joined("before") => i = 1
    BY <2>6 DEF Block, Joined
  <2>11. Joined("after") \in In(Batch)
    BY <2>1, <2>5 DEF In
  <2>12. Orderly(Batch)
    BY <2>7, <2>8, <2>9, <2>10, <2>11 DEF Orderly
  <2>. QED  BY <1>2, <2>1, <2>5, <2>8, <2>12 DEF Playing
<1>. QED  BY <1>1, <1>2 DEF States, Playing

-----------------------------------------------------------------------------
(* The invariant that assumes nothing.                                      *)

GameTyped ==
    /\ gstate \in States
    /\ rom \in Roms \cup {NoRom, Other}
    /\ wantDeathlink \in BOOLEAN
    /\ cache \subseteq Locations
    /\ status \in {"gray", "red", "yellow", "green"}
    /\ reported \subseteq (Roms \cup {NoRom, Other}) \X Flags

HistoryTyped == astray \in BOOLEAN /\ noticed \in BOOLEAN

BufferTyped ==
    /\ DOMAIN readBuffer \subseteq Blocks
    /\ readBuffer \in [DOMAIN readBuffer -> SUBSET Locations]
    /\ readBufferValid \in BOOLEAN
    /\ finishedBuffer \in BOOLEAN

LinkTyped ==
    /\ created \in BOOLEAN
    /\ connected \in BOOLEAN
    /\ apState \in {"NONE", "OFF", "SOCKET", "ROOM", "SLOT"}
    /\ rejected \subseteq Roms \cup {Other}

ConsoleTyped ==
    /\ cart \in Carts
    /\ playing \in BOOLEAN
    /\ ram \subseteq Flags
    /\ earned \subseteq Roms \X Flags

\* What is not reported again was reported for the ROM.
Told ==
    /\ \A l \in cache : <<rom, l>> \in reported
    /\ gstate = "FINISHED" => <<rom, Won>> \in reported

\* That is so while there is a client, unless the game was left: then it has to be found
\* again, which clears the cache, before a save is looked for.
CacheFits ==
    \/ apState = "NONE"
    \/ gstate = "STOPPED" /\ \A c \in In(pending) : ~IsFor(c, "run")
    \/ Told

\* A valid buffer is that of a game being played, and what it misses is asked for before
\* the second check.
SnapshotFits ==
    readBufferValid =>
        /\ Playing(gstate)
        /\ Joined("after") \in In(pending)
        /\ \A b \in Blocks : b \in DOMAIN readBuffer \/ Block(b) \in In(pending)

\* The game is looked for only while it is not known.
LooksWhileStopped == \A c \in In(pending) : IsFor(c, "start") => gstate = "STOPPED"

\* A game that was found has a ROM, and nothing but a callback ends it while a save is
\* looked for.
KnowsRom ==
    QuietRoom =>
        /\ gstate # "STOPPED" => rom # NoRom
        /\ \A c \in In(pending) : IsFor(c, "run") => gstate = "RUNNING"

Inv ==
    /\ GameTyped /\ BufferTyped /\ LinkTyped /\ ConsoleTyped
    /\ pending \in Seq(Callbacks)
    /\ Orderly(pending)
    /\ StatusMatchesGame
    /\ CacheFits
    /\ SnapshotFits
    /\ LooksWhileStopped
    /\ KnowsRom

-----------------------------------------------------------------------------
(* Steps shared by the callbacks.                                           *)

LEMMA InvImplies ==
    /\ Inv /\ HistoryTyped => TypeOK
    /\ Inv => CachedIsReported
<1>1. Inv /\ HistoryTyped => TypeOK
  BY DEF Inv, GameTyped, HistoryTyped, BufferTyped, LinkTyped, ConsoleTyped, TypeOK
<1>2. Inv => CachedIsReported
  BY DEF Inv, CacheFits, Told, CachedIsReported, Playing
<1>. QED  BY <1>1, <1>2

\* What is known of the queue when a callback runs.
LEMMA AnsweredFacts ==
    ASSUME Inv, NEW cb, Answered(cb)
    PROVE  /\ connected
           /\ Head(pending) \in Callbacks /\ Head(pending).cb = cb
           /\ Head(pending) \in In(pending)
           /\ Tail(pending) \in Seq(Callbacks) /\ Orderly(Tail(pending))
           /\ In(pending) = In(Tail(pending)) \cup {Head(pending)}
           /\ IsFor(Head(pending), "start") \/ IsFor(Head(pending), "run")
                 => Tail(pending) = <<>> /\ In(Tail(pending)) = {}
           /\ Joined("before") \notin In(Tail(pending))
           /\ cb = "block" \/ Head(pending) = Joined("before")
                \/ \A c \in In(Tail(pending)) : c.cb # "block"
<1>1. pending \in Seq(Callbacks) /\ pending # <<>> /\ Orderly(pending) /\ Head(pending).cb = cb
  BY DEF Inv, Answered
<1>2. In(<<>>) = {}
  BY DEF In
<1>. QED  BY <1>1, <1>2, Popped DEF Answered

LEMMA InvalidateFacts ==
    ASSUME Invalidate
    PROVE  BufferTyped' /\ SnapshotFits' /\ ~readBufferValid'
BY DEF Invalidate, NoBuffer, BufferTyped, SnapshotFits

LEMMA ResetFacts ==
    ASSUME Inv, Reset
    PROVE  /\ BufferTyped' /\ SnapshotFits'
           /\ gstate' = "STOPPED" /\ rom' = NoRom /\ cache' = {}
           /\ CacheFits' /\ LooksWhileStopped'
<1>1. BufferTyped' /\ SnapshotFits'
  BY InvalidateFacts DEF Reset
<1>. QED  BY <1>1 DEF Reset, CacheFits, Told, LooksWhileStopped

\* What the player does is not seen by the client.
LEMMA UnseenInv ==
    ASSUME Inv, clientUnchanged, ConsoleTyped'
    PROVE  Inv'
<1>. USE DEF clientUnchanged, gameVars, bufferVars, linkVars, roomVars
<1>1. GameTyped' /\ BufferTyped' /\ LinkTyped'
  BY DEF Inv, GameTyped, BufferTyped, LinkTyped
<1>2. pending' \in Seq(Callbacks) /\ Orderly(pending') /\ StatusMatchesGame' /\ CacheFits'
  BY DEF Inv, StatusMatchesGame, CacheFits, Told
<1>3. SnapshotFits' /\ LooksWhileStopped' /\ KnowsRom'
  BY DEF Inv, SnapshotFits, LooksWhileStopped, KnowsRom
<1>. QED  BY <1>1, <1>2, <1>3 DEF Inv

LEMMA ConsoleInv ==
    ASSUME Inv, LoadSave \/ LeaveSave \/ Earn \/ SwapCart
    PROVE  Inv'
<1>1. CASE LoadSave
  <2>1. ConsoleTyped'  BY <1>1 DEF LoadSave, Inv, ConsoleTyped
  <2>. QED  BY <1>1, <2>1, UnseenInv DEF LoadSave
<1>2. CASE LeaveSave
  <2>1. ConsoleTyped'  BY <1>2 DEF LeaveSave, Inv, ConsoleTyped
  <2>. QED  BY <1>2, <2>1, UnseenInv DEF LeaveSave
<1>3. CASE Earn
  <2>1. ConsoleTyped'  BY <1>3 DEF Earn, Inv, ConsoleTyped
  <2>. QED  BY <1>3, <2>1, UnseenInv DEF Earn
<1>4. CASE SwapCart
  <2>1. ConsoleTyped'  BY <1>4 DEF SwapCart, Inv, ConsoleTyped
  <2>. QED  BY <1>4, <2>1, UnseenInv DEF SwapCart
<1>. QED  BY <1>1, <1>2, <1>3, <1>4

LEMMA InitInv == Init => Inv
<1>. SUFFICES ASSUME Init PROVE Inv
  OBVIOUS
<1>1. pending = <<>> /\ In(pending) = {} /\ pending \in Seq(Callbacks) /\ Orderly(pending)
  BY DEF Init, In, Orderly
<1>2. GameTyped /\ BufferTyped /\ LinkTyped /\ ConsoleTyped
  BY DEF Init, GameTyped, BufferTyped, LinkTyped, ConsoleTyped, States, NoBuffer
<1>3. StatusMatchesGame /\ CacheFits /\ SnapshotFits /\ LooksWhileStopped /\ KnowsRom
  BY <1>1 DEF Init, StatusMatchesGame, Playing, CacheFits, Told, SnapshotFits, LooksWhileStopped,
              KnowsRom
<1>. QED  BY <1>1, <1>2, <1>3 DEF Inv

-----------------------------------------------------------------------------
(* The link and the room.                                                   *)

LEMMA ConnectInv ==
    ASSUME Inv, Connect
    PROVE  Inv'
<1>1. GameTyped' /\ BufferTyped' /\ LinkTyped' /\ ConsoleTyped'
  BY DEF Inv, Connect, bufferVars, roomVars, ConsoleStays, GameTyped, BufferTyped, LinkTyped,
         ConsoleTyped
<1>2. pending' \in Seq(Callbacks) /\ Orderly(pending') /\ CacheFits' /\ SnapshotFits'
  BY DEF Inv, Connect, bufferVars, roomVars, CacheFits, Told, SnapshotFits
<1>3. StatusMatchesGame' /\ LooksWhileStopped' /\ KnowsRom'
  BY DEF Inv, Connect, LooksWhileStopped, KnowsRom, StatusMatchesGame, Playing
<1>. QED  BY <1>1, <1>2, <1>3 DEF Inv

LEMMA DisconnectInv ==
    ASSUME Inv, Disconnect
    PROVE  Inv'
<1>1. pending' = <<>> /\ In(pending') = {} /\ pending' \in Seq(Callbacks) /\ Orderly(pending')
  BY DEF Disconnect, In, Orderly
<1>2. /\ BufferTyped' /\ SnapshotFits' /\ CacheFits' /\ LooksWhileStopped'
      /\ gstate' = "STOPPED" /\ rom' = NoRom /\ cache' = {}
  BY ResetFacts DEF Disconnect
<1>3. GameTyped' /\ LinkTyped' /\ ConsoleTyped'
  BY <1>2 DEF Inv, Disconnect, ConsoleStays, roomVars, GameTyped, LinkTyped, ConsoleTyped, States
<1>4. StatusMatchesGame' /\ KnowsRom'
  BY <1>1, <1>2 DEF Disconnect, StatusMatchesGame, Playing, KnowsRom
<1>. QED  BY <1>1, <1>2, <1>3, <1>4 DEF Inv

\* The cache is cleared, and a won game has to be reported again; of the room anything
\* may have changed.
LEMMA ForgetInv ==
    ASSUME Inv, Forget, LinkTyped', ConsoleStays, connected' = connected,
           reported' \subseteq reported,
           UNCHANGED <<rom, wantDeathlink, status, readBuffer, readBufferValid, finishedBuffer,
                       pending>>
    PROVE  Inv'
<1>1. /\ gstate' \in States
      /\ Playing(gstate') <=> Playing(gstate)
      /\ gstate' = "STOPPED" <=> gstate = "STOPPED"
      /\ gstate' = "RUNNING" <=> gstate = "RUNNING"
      /\ cache' = {} /\ gstate' # "FINISHED"
  BY DEF Inv, GameTyped, Forget, States, Playing
<1>2. GameTyped' /\ BufferTyped' /\ ConsoleTyped'
  BY <1>1 DEF Inv, ConsoleStays, GameTyped, BufferTyped, ConsoleTyped
<1>3. pending' \in Seq(Callbacks) /\ Orderly(pending') /\ CacheFits' /\ SnapshotFits'
  BY <1>1 DEF Inv, CacheFits, Told, SnapshotFits
<1>4. StatusMatchesGame' /\ LooksWhileStopped' /\ KnowsRom'
  BY <1>1 DEF Inv, LooksWhileStopped, KnowsRom, StatusMatchesGame
<1>. QED  BY <1>2, <1>3, <1>4 DEF Inv

LEMMA ForgettingInv ==
    ASSUME Inv, ConnectAp \/ SocketConnected \/ SyncCommand
    PROVE  Inv'
<1>1. /\ Forget /\ ConsoleStays /\ connected' = connected /\ reported' \subseteq reported
      /\ UNCHANGED <<rom, wantDeathlink, status, readBuffer, readBufferValid, finishedBuffer,
                     pending>>
  BY DEF ConnectAp, SocketConnected, SyncCommand, bufferVars, linkVars
<1>2. LinkTyped'
  BY DEF ConnectAp, SocketConnected, SyncCommand, linkVars, roomVars, Inv, LinkTyped
<1>. QED  BY <1>1, <1>2, ForgetInv

\* The client goes away, its socket is lost, or its slot is connected: the game stays.
LEMMA ClientInv ==
    ASSUME Inv, DisconnectAp \/ SocketLost \/ SlotConnected
    PROVE  Inv'
<1>1. /\ UNCHANGED <<gstate, rom, wantDeathlink, cache, status, readBuffer, readBufferValid,
                     finishedBuffer, pending, created, connected>>
      /\ ConsoleStays
      /\ \/ apState' = "NONE" /\ reported' = {}
         \/ apState # "NONE" /\ reported' = reported
      /\ apState' \in {"NONE", "OFF", "SLOT"}
      /\ rejected' \subseteq Roms \cup {Other}
  BY DEF DisconnectAp, SocketLost, SlotConnected, GameStays, gameVars, bufferVars, linkVars
<1>2. GameTyped' /\ BufferTyped' /\ LinkTyped' /\ ConsoleTyped'
  BY <1>1 DEF Inv, ConsoleStays, GameTyped, BufferTyped, LinkTyped, ConsoleTyped
<1>3. pending' \in Seq(Callbacks) /\ Orderly(pending') /\ StatusMatchesGame'
  BY <1>1 DEF Inv, StatusMatchesGame
<1>4. CacheFits'
  BY <1>1 DEF Inv, CacheFits, Told
<1>5. SnapshotFits' /\ LooksWhileStopped' /\ KnowsRom'
  BY <1>1 DEF Inv, SnapshotFits, LooksWhileStopped, KnowsRom
<1>. QED  BY <1>2, <1>3, <1>4, <1>5 DEF Inv

LEMMA RoomInfoInv ==
    ASSUME Inv, RoomInfo
    PROVE  Inv'
<1>1. /\ rejected' \in Rejects
      /\ apState # "NONE" /\ apState' = "ROOM"
      /\ IF rom \in rejected'
         THEN /\ QuietRoom => ~JoiningInFlight
              /\ Reset
              /\ status' = StatusAfterReset(gstate)
         ELSE UNCHANGED <<gstate, rom, cache, status, astray, bufferVars>>
      /\ UNCHANGED <<wantDeathlink, reported, pending, created, connected>>
      /\ ConsoleStays
  BY DEF RoomInfo, linkVars
<1>2. LinkTyped' /\ ConsoleTyped'
  BY <1>1 DEF Inv, LinkTyped, ConsoleTyped, ConsoleStays, Rejects
<1>3. CASE rom \in rejected'
  <2>1. /\ BufferTyped' /\ SnapshotFits' /\ CacheFits' /\ LooksWhileStopped'
        /\ gstate' = "STOPPED" /\ rom' = NoRom /\ cache' = {}
        /\ status' = StatusAfterReset(gstate)
    BY <1>1, <1>3, ResetFacts
  <2>2. GameTyped'
    BY <1>1, <2>1 DEF Inv, GameTyped, States, StatusAfterReset
  <2>3. StatusMatchesGame'
    BY <1>1, <2>1 DEF Inv, GameTyped, States, StatusMatchesGame, StatusAfterReset, Playing
  <2>4. KnowsRom'
    <3>1. QuietRoom => \A c \in In(pending) : ~IsFor(c, "run")
      BY <1>1, <1>3 DEF JoiningInFlight, In, IsFor
    <3>. QED  BY <1>1, <2>1, <3>1 DEF KnowsRom
  <2>. QED  BY <1>1, <1>2, <2>1, <2>2, <2>3, <2>4 DEF Inv
<1>4. CASE rom \notin rejected'
  <2>1. UNCHANGED <<gstate, rom, cache, status, readBuffer, readBufferValid, finishedBuffer,
                    wantDeathlink, reported, pending, connected>>
    BY <1>1, <1>4 DEF bufferVars
  <2>2. GameTyped' /\ BufferTyped' /\ StatusMatchesGame'
    BY <2>1 DEF Inv, GameTyped, BufferTyped, StatusMatchesGame
  <2>3. CacheFits' /\ SnapshotFits' /\ LooksWhileStopped' /\ KnowsRom'
    BY <1>1, <2>1 DEF Inv, CacheFits, Told, SnapshotFits, LooksWhileStopped, KnowsRom
  <2>. QED  BY <1>2, <2>1, <2>2, <2>3, <1>1 DEF Inv
<1>. QED  BY <1>3, <1>4

LEMMA PollInv ==
    ASSUME Inv, Poll
    PROVE  Inv'
<1>1. /\ gstate \in States /\ pending = <<>> /\ pending' = Batch
      /\ UNCHANGED <<gstate, rom, wantDeathlink, cache, status, reported, readBuffer,
                     readBufferValid, finishedBuffer, created, connected, apState, rejected,
                     cart, playing, ram, earned>>
  BY DEF Poll, GameStays, Inv, GameTyped, gameVars, bufferVars, linkVars, roomVars, ConsoleStays
<1>2. ~readBufferValid
  BY <1>1 DEF Inv, SnapshotFits, In, BufferTyped
<1>3. pending' \in Seq(Callbacks) /\ Orderly(pending')
  BY <1>1, BatchFacts
<1>4. GameTyped' /\ BufferTyped' /\ LinkTyped' /\ ConsoleTyped' /\ StatusMatchesGame'
  BY <1>1 DEF Inv, GameTyped, BufferTyped, LinkTyped, ConsoleTyped, StatusMatchesGame
<1>5. \A c \in In(pending') : /\ IsFor(c, "start") => gstate = "STOPPED"
                              /\ IsFor(c, "run") => gstate = "RUNNING"
  BY <1>1, BatchFacts DEF IsFor, Header, States, Playing
<1>6. CacheFits' /\ SnapshotFits' /\ LooksWhileStopped' /\ KnowsRom'
  BY <1>1, <1>2, <1>5 DEF Inv, CacheFits, Told, SnapshotFits, LooksWhileStopped, KnowsRom
<1>. QED  BY <1>3, <1>4, <1>6 DEF Inv

-----------------------------------------------------------------------------
(* The callbacks that learn the ROM.                                        *)

LEMMA Lone ==
    ASSUME Inv, NEW cb, Answered(cb),
           NEW c \in In(pending), IsFor(c, "start") \/ IsFor(c, "run")
    PROVE  c = Head(pending) /\ Tail(pending) = <<>> /\ In(Tail(pending)) = {}
<1>1. Len(pending) = 1 /\ pending \in Seq(Callbacks)
  BY DEF Inv, Orderly
<1>2. DOMAIN pending = {1} /\ Head(pending) = pending[1]
  BY <1>1
<1>3. c = Head(pending)
  BY <1>2 DEF In
<1>. QED  BY <1>3, AnsweredFacts

\* The read that follows waits alone.
LEMMA AfterIdentified ==
    ASSUME Inv, NEW cb \in {"header", "section"}, Answered(cb), NEW r,
           pending' = Tail(pending) \o ReadsAfter(Head(pending).use, r)
    PROVE  /\ pending' \in Seq(Callbacks) /\ Orderly(pending')
           /\ \/ pending' = Tail(pending)
              \/ /\ Head(pending).use = "run" /\ r = rom
                 /\ In(pending') = {Joined("run")}
<1>1. /\ Tail(pending) \in Seq(Callbacks) /\ Orderly(Tail(pending))
      /\ Head(pending) \in Callbacks /\ Head(pending).cb = cb
      /\ IsFor(Head(pending), "run") => Tail(pending) = <<>>
  BY AnsweredFacts
<1>2. CASE Head(pending).use = "run" /\ r = rom
  <2>1. Tail(pending) = <<>>
    BY <1>1, <1>2 DEF IsFor
  <2>2. Joined("run") \in Callbacks /\ Joined("run") # Joined("before")
    BY CallbacksMade DEF Joined
  <2>3. <<Joined("run")>> \in Seq(Callbacks)
    BY <2>2
  <2>4. pending' = <<Joined("run")>>
    BY <1>2, <2>1, <2>3, ConcatEmptySeq DEF ReadsAfter
  <2>. QED  BY <1>2, <2>2, <2>4, Alone
<1>3. CASE ~(Head(pending).use = "run" /\ r = rom)
  <2>1. pending' = Tail(pending)
    BY <1>1, <1>3 DEF ReadsAfter
  <2>. QED  BY <1>1, <2>1
<1>. QED  BY <1>2, <1>3

LEMMA StartIdentifiedInv ==
    ASSUME Inv, NEW cb \in {"header", "section"}, Answered(cb),
           NEW r \in Roms \cup {NoRom, Other}, NEW dl \in BOOLEAN,
           Head(pending).use = "start", StartIdentified(r, dl),
           pending' = Tail(pending) \o ReadsAfter("start", r),
           UNCHANGED <<reported, linkVars>>, ConsoleStays
    PROVE  Inv'
<1>1. /\ pending' \in Seq(Callbacks) /\ Orderly(pending') /\ In(pending') = {}
      /\ gstate = "STOPPED" /\ connected
  <2>1. IsFor(Head(pending), "start")  BY AnsweredFacts DEF IsFor
  <2>2. Tail(pending) = <<>> /\ In(Tail(pending)) = {} /\ Head(pending) \in In(pending) /\ connected
    BY <2>1, AnsweredFacts
  <2>3. gstate = "STOPPED"  BY <2>1, <2>2 DEF Inv, LooksWhileStopped
  <2>4. pending' = Tail(pending)  BY AfterIdentified, <2>2
  <2>. QED  BY AfterIdentified, <2>2, <2>3, <2>4
<1>2. ~readBufferValid
  BY <1>1 DEF Inv, SnapshotFits, Playing, BufferTyped
<1>3. LinkTyped' /\ ConsoleTyped'
  BY <1>1 DEF Inv, LinkTyped, ConsoleTyped, linkVars, ConsoleStays, StartIdentified, Started,
              roomVars
<1>4. LooksWhileStopped'
  BY <1>1 DEF LooksWhileStopped
<1>5. CASE r = NoRom
  <2>1. UNCHANGED <<gstate, rom, wantDeathlink, cache, status, readBuffer, readBufferValid,
                    finishedBuffer, reported, connected, apState>>
    BY <1>5 DEF StartIdentified, GameStays, gameVars, bufferVars, linkVars, roomVars
  <2>2. GameTyped' /\ BufferTyped' /\ StatusMatchesGame'
    BY <2>1 DEF Inv, GameTyped, BufferTyped, StatusMatchesGame
  <2>3. CacheFits' /\ SnapshotFits' /\ KnowsRom'
    BY <1>1, <1>2, <2>1 DEF CacheFits, Told, SnapshotFits, KnowsRom
  <2>. QED  BY <1>1, <1>3, <1>4, <2>2, <2>3 DEF Inv
<1>6. CASE r # NoRom /\ r \in rejected
  <2>1. Reset /\ status' = "red" /\ wantDeathlink' = dl
    BY <1>1, <1>6 DEF StartIdentified, Started
  <2>2. /\ BufferTyped' /\ SnapshotFits' /\ CacheFits'
        /\ gstate' = "STOPPED" /\ rom' = NoRom /\ cache' = {}
    BY <2>1, ResetFacts
  <2>3. GameTyped' /\ StatusMatchesGame' /\ KnowsRom'
    BY <1>1, <2>1, <2>2 DEF Inv, GameTyped, StatusMatchesGame, KnowsRom, States, Playing, linkVars, roomVars
  <2>. QED  BY <1>1, <1>3, <1>4, <2>2, <2>3 DEF Inv
<1>7. CASE r # NoRom /\ r \notin rejected
  <2>1. /\ rom' = r /\ gstate' = "RUNNING" /\ cache' = {} /\ status' = "yellow"
        /\ wantDeathlink' = dl
        /\ UNCHANGED <<readBuffer, readBufferValid, finishedBuffer>>
    BY <1>1, <1>7 DEF StartIdentified, Started, bufferVars, roomVars
  <2>2. GameTyped' /\ BufferTyped' /\ StatusMatchesGame'
    BY <1>1, <2>1 DEF Inv, GameTyped, BufferTyped, StatusMatchesGame, States, Playing, linkVars, roomVars
  <2>3. CacheFits' /\ SnapshotFits' /\ KnowsRom' /\ LooksWhileStopped'
    BY <1>1, <1>2, <1>7, <2>1 DEF CacheFits, Told, SnapshotFits, KnowsRom, LooksWhileStopped
  <2>. QED  BY <1>1, <1>3, <2>2, <2>3 DEF Inv
<1>. QED  BY <1>5, <1>6, <1>7

LEMMA RunIdentifiedInv ==
    ASSUME Inv, NEW cb \in {"header", "section"}, Answered(cb),
           NEW r \in Roms \cup {NoRom, Other}, NEW dl \in BOOLEAN,
           Head(pending).use = "run", RunIdentified(r, dl),
           pending' = Tail(pending) \o ReadsAfter("run", r),
           UNCHANGED <<reported, linkVars>>, ConsoleStays
    PROVE  Inv'
<1>1. IsFor(Head(pending), "run") /\ Head(pending) \in In(pending)
      /\ In(Tail(pending)) = {} /\ connected
  BY AnsweredFacts DEF IsFor
<1>2. /\ pending' \in Seq(Callbacks) /\ Orderly(pending')
      /\ r # rom => In(pending') = {}
      /\ In(pending') \subseteq {Joined("run")}
  BY <1>1, AfterIdentified
<1>3. LinkTyped' /\ ConsoleTyped'
  BY DEF Inv, LinkTyped, ConsoleTyped, linkVars, roomVars, ConsoleStays, RunIdentified
<1>4. BufferTyped' /\ SnapshotFits'
  BY InvalidateFacts DEF RunIdentified
<1>5. apState = "NONE" \/ Told
  BY <1>1 DEF Inv, CacheFits, Told
<1>6. LooksWhileStopped'
  BY <1>2 DEF LooksWhileStopped, Joined, IsFor
<1>7. CASE r = rom
  <2>1. UNCHANGED <<gstate, rom, cache, status, reported, connected, apState>> /\ wantDeathlink' = dl
    BY <1>7 DEF RunIdentified, linkVars, roomVars
  <2>2. GameTyped' /\ StatusMatchesGame' /\ CacheFits'
    BY <1>5, <2>1 DEF Inv, GameTyped, StatusMatchesGame, CacheFits, Told
  <2>3. KnowsRom'
    BY <1>1, <2>1 DEF Inv, KnowsRom
  <2>. QED  BY <1>2, <1>3, <1>4, <1>6, <2>2, <2>3 DEF Inv
<1>8. CASE r # rom
  <2>1. /\ gstate' = "STOPPED" /\ rom' = NoRom /\ wantDeathlink' = FALSE /\ status' = "red"
        /\ UNCHANGED <<cache, reported, connected, apState>>
    BY <1>8 DEF RunIdentified, linkVars, roomVars
  <2>2. GameTyped' /\ StatusMatchesGame' /\ CacheFits' /\ KnowsRom'
    BY <1>1, <1>2, <1>8, <2>1
       DEF Inv, GameTyped, StatusMatchesGame, CacheFits, Told, KnowsRom, States, Playing
  <2>. QED  BY <1>2, <1>3, <1>4, <1>6, <2>2 DEF Inv
<1>. QED  BY <1>7, <1>8

LEMMA VerifyIdentifiedInv ==
    ASSUME Inv, NEW cb \in {"header", "section"}, Answered(cb),
           NEW r \in Roms \cup {NoRom, Other}, NEW dl \in BOOLEAN,
           Head(pending).use = "verify", VerifyIdentified(r, dl),
           pending' = Tail(pending) \o ReadsAfter("verify", r),
           UNCHANGED <<reported, linkVars>>, ConsoleStays
    PROVE  Inv'
<1>1. /\ pending' = Tail(pending) /\ pending' \in Seq(Callbacks) /\ Orderly(pending')
      /\ In(pending) = In(pending') \cup {Head(pending)}
      /\ Head(pending).cb \in {"header", "section"} /\ connected
  BY AfterIdentified, AnsweredFacts
<1>2. LinkTyped' /\ ConsoleTyped'
  BY DEF Inv, LinkTyped, ConsoleTyped, linkVars, roomVars, ConsoleStays, VerifyIdentified, GameStays
<1>3. CASE r # NoRom /\ r = rom
  <2>1. UNCHANGED <<gstate, rom, wantDeathlink, cache, status, readBuffer, readBufferValid,
                    finishedBuffer, reported, connected, apState>>
    BY <1>3 DEF VerifyIdentified, GameStays, gameVars, bufferVars, linkVars, roomVars
  <2>2. GameTyped' /\ BufferTyped' /\ StatusMatchesGame'
    BY <2>1 DEF Inv, GameTyped, BufferTyped, StatusMatchesGame
  <2>3. CacheFits' /\ LooksWhileStopped' /\ KnowsRom'
    BY <1>1, <2>1 DEF Inv, CacheFits, Told, LooksWhileStopped, KnowsRom
  <2>4. SnapshotFits'
    <3>1. Head(pending) # Joined("after") /\ \A b \in Blocks : Head(pending) # Block(b)
      BY <1>1 DEF Joined, Block
    <3>. QED  BY <1>1, <2>1, <3>1 DEF Inv, SnapshotFits
  <2>. QED  BY <1>1, <1>2, <2>2, <2>3, <2>4 DEF Inv
<1>4. CASE ~(r # NoRom /\ r = rom)
  <2>1. /\ UNCHANGED <<rom, cache, reported, connected, apState>> /\ Invalidate
        /\ IF gstate \in {"JOINED", "RUNNING"}
           THEN gstate' = "STOPPED" /\ wantDeathlink' = FALSE /\ status' = "red"
           ELSE UNCHANGED <<gstate, wantDeathlink, status>>
    BY <1>4 DEF VerifyIdentified, linkVars, roomVars
  <2>2. BufferTyped' /\ SnapshotFits'
    BY <2>1, InvalidateFacts
  <2>3. GameTyped' /\ StatusMatchesGame'
    BY <1>1, <2>1 DEF Inv, GameTyped, StatusMatchesGame, States, Playing
  <2>4. CASE gstate = "RUNNING"
    <3>1. \A c \in In(pending) : ~IsFor(c, "run")
      BY Lone DEF IsFor
    <3>2. CacheFits' /\ LooksWhileStopped' /\ KnowsRom'
      BY <1>1, <2>1, <2>4, <3>1 DEF Inv, CacheFits, Told, LooksWhileStopped, KnowsRom
    <3>. QED  BY <1>1, <1>2, <2>2, <2>3, <3>2 DEF Inv
  <2>5. CASE gstate # "RUNNING"
    <3>1. CacheFits' /\ LooksWhileStopped'
      BY <1>1, <2>1, <2>5 DEF Inv, CacheFits, Told, LooksWhileStopped
    <3>2. KnowsRom'
      BY <1>1, <2>1, <2>5 DEF Inv, KnowsRom
    <3>. QED  BY <1>1, <1>2, <2>2, <2>3, <3>1, <3>2 DEF Inv
  <2>. QED  BY <2>4, <2>5
<1>. QED  BY <1>3, <1>4

\* The next of the three reads is asked for.
LEMMA ChainedInv ==
    ASSUME Inv, NEW cb \in {"header", "flags"}, Answered(cb),
           NEW x \in Callbacks, x.cb \in {"flags", "section"}, x.use = Head(pending).use,
           pending' = Append(Tail(pending), x),
           UNCHANGED <<gameVars, bufferVars, linkVars, roomVars, reported>>, ConsoleStays
    PROVE  Inv' /\ In(pending') = In(Tail(pending)) \cup {x}
<1>1. /\ Tail(pending) \in Seq(Callbacks) /\ Orderly(Tail(pending))
      /\ Head(pending) \in Callbacks /\ Head(pending).cb = cb
      /\ In(pending) = In(Tail(pending)) \cup {Head(pending)}
      /\ IsFor(Head(pending), "start") \/ IsFor(Head(pending), "run")
           => Tail(pending) = <<>> /\ In(Tail(pending)) = {}
      /\ Joined("before") \notin In(Tail(pending))
  BY AnsweredFacts
<1>2. \A u : IsFor(x, u) <=> IsFor(Head(pending), u)
  BY <1>1 DEF IsFor
<1>3. x # Joined("before") /\ x.cb # "block"
  BY DEF Joined
<1>4. Tail(pending) # <<>> => \A c \in In(Tail(pending)) : ~IsFor(c, "start") /\ ~IsFor(c, "run")
  <2>1. ASSUME NEW c \in In(Tail(pending)), IsFor(c, "start") \/ IsFor(c, "run"),
               Tail(pending) # <<>>
        PROVE  FALSE
    <3>1. c \in In(pending)  BY <1>1
    <3>. QED  BY <2>1, <3>1, Lone
  <2>. QED  BY <2>1
<1>5. /\ pending' \in Seq(Callbacks) /\ Orderly(pending')
      /\ In(pending') = In(Tail(pending)) \cup {x}
  BY <1>1, <1>2, <1>3, <1>4, Pushed
<1>. USE DEF gameVars, bufferVars, linkVars, roomVars, ConsoleStays
<1>6. GameTyped' /\ BufferTyped' /\ LinkTyped' /\ ConsoleTyped' /\ StatusMatchesGame'
  BY DEF Inv, GameTyped, BufferTyped, LinkTyped, ConsoleTyped, StatusMatchesGame
<1>7. CacheFits' /\ LooksWhileStopped' /\ KnowsRom'
  BY <1>1, <1>2, <1>5 DEF Inv, CacheFits, Told, LooksWhileStopped, KnowsRom
<1>8. SnapshotFits'
  <2>1. Head(pending) # Joined("after") /\ \A b \in Blocks : Head(pending) # Block(b)
    BY <1>1 DEF Joined, Block
  <2>. QED  BY <1>1, <1>5, <2>1 DEF Inv, SnapshotFits
<1>. QED  BY <1>5, <1>6, <1>7, <1>8 DEF Inv

LEMMA IdentifiedInv ==
    ASSUME Inv, NEW cb \in {"header", "section"}, Answered(cb),
           NEW r \in Roms \cup {NoRom, Other}, NEW dl \in BOOLEAN,
           Identified(Head(pending).use, r, dl),
           pending' = Tail(pending) \o ReadsAfter(Head(pending).use, r),
           UNCHANGED <<reported, linkVars>>, ConsoleStays
    PROVE  Inv'
<1>1. Head(pending).use \in {"start", "run", "verify"}
  BY AnsweredFacts, CallbackFields DEF Uses
<1>2. CASE Head(pending).use = "start"
  BY <1>2, StartIdentifiedInv DEF Identified
<1>3. CASE Head(pending).use = "run"
  BY <1>3, RunIdentifiedInv DEF Identified
<1>4. CASE Head(pending).use = "verify"
  BY <1>4, VerifyIdentifiedInv DEF Identified
<1>. QED  BY <1>1, <1>2, <1>3, <1>4

LEMMA OnHeaderInv ==
    ASSUME Inv, OnHeader
    PROVE  Inv'
<1>1. /\ Answered("header") /\ Head(pending).use \in Uses /\ Head(pending).cb = "header"
      /\ UNCHANGED <<reported, linkVars>> /\ ConsoleStays
  BY AnsweredFacts, CallbackFields DEF OnHeader
<1>2. CASE cart = Other
  <2>1. /\ Identified(Head(pending).use, NoRom, FALSE)
        /\ pending' = Tail(pending) \o ReadsAfter(Head(pending).use, NoRom)
    BY <1>2 DEF OnHeader
  <2>. QED  BY <1>1, <2>1, IdentifiedInv
<1>3. CASE cart # Other
  <2>1. /\ pending' = Append(Tail(pending), FlagByte(Head(pending).use))
        /\ UNCHANGED <<gameVars, bufferVars, roomVars>>
    BY <1>1, <1>3 DEF OnHeader, GameStays
  <2>2. /\ FlagByte(Head(pending).use) \in Callbacks
        /\ FlagByte(Head(pending).use).cb = "flags"
        /\ FlagByte(Head(pending).use).use = Head(pending).use
    BY <1>1, CallbacksMade DEF FlagByte
  <2>. QED  BY <1>1, <2>1, <2>2, ChainedInv
<1>. QED  BY <1>2, <1>3

LEMMA OnFlagsInv ==
    ASSUME Inv, OnFlags
    PROVE  Inv'
<1>1. Answered("flags") /\ Head(pending).use \in Uses /\ Head(pending).cb = "flags"
  BY AnsweredFacts, CallbackFields DEF OnFlags
<1> DEFINE x == Section(Head(pending).use, cart \in DeathlinkRoms)
<1>2. x \in Callbacks
  <2>1. (cart \in DeathlinkRoms) \in BOOLEAN  OBVIOUS
  <2>. QED  BY <1>1, <2>1, CallbacksMade
<1>4. x.cb = "section" /\ x.use = Head(pending).use
  BY DEF Section
<1>3. pending' = Append(Tail(pending), x) /\ UNCHANGED <<gameVars, bufferVars, linkVars, roomVars, reported>>
      /\ ConsoleStays
  BY DEF OnFlags, GameStays
<1> HIDE DEF x
<1>. QED  BY <1>1, <1>2, <1>3, <1>4, ChainedInv

LEMMA OnSectionInv ==
    ASSUME Inv, OnSection
    PROVE  Inv'
<1>1. /\ Answered("section") /\ Head(pending).deathlink \in BOOLEAN
      /\ UNCHANGED <<reported, linkVars>> /\ ConsoleStays
  BY AnsweredFacts, CallbackFields DEF OnSection
<1>2. SectionOf(cart) \in Roms \cup {NoRom, Other}
  BY DEF Inv, ConsoleTyped, Carts, SectionOf
<1>3. /\ Identified(Head(pending).use, SectionOf(cart), Head(pending).deathlink)
      /\ pending' = Tail(pending) \o ReadsAfter(Head(pending).use, SectionOf(cart))
  BY DEF OnSection
<1>. QED  BY <1>1, <1>2, <1>3, IdentifiedInv

-----------------------------------------------------------------------------
(* The callbacks that follow the play.                                      *)

\* What the step of a callback that asks for nothing leaves in the queue.
LEMMA PoppedInv ==
    ASSUME Inv, NEW cb, Answered(cb), pending' = Tail(pending), UNCHANGED gstate
    PROVE  LooksWhileStopped' /\ (rom' = rom => KnowsRom')
<1>1. In(pending') \subseteq In(pending)
  BY AnsweredFacts
<1>. QED  BY <1>1 DEF Inv, LooksWhileStopped, KnowsRom

LEMMA OnJoinedRunInv ==
    ASSUME Inv, OnJoinedRun
    PROVE  Inv'
<1>1. /\ Answered("joined") /\ Head(pending).use = "run" /\ pending' = Tail(pending)
      /\ Invalidate
      /\ \/ gstate' = "JOINED" /\ status' = "green"
         \/ UNCHANGED <<gstate, status>>
      /\ UNCHANGED <<rom, wantDeathlink, cache, reported, linkVars, roomVars>> /\ ConsoleStays
  BY DEF OnJoinedRun
<1>2. /\ IsFor(Head(pending), "run") /\ Head(pending) \in In(pending)
      /\ In(pending') = {} /\ connected
      /\ pending' \in Seq(Callbacks) /\ Orderly(pending')
  BY <1>1, AnsweredFacts DEF IsFor
<1>3. BufferTyped' /\ SnapshotFits'
  BY <1>1, InvalidateFacts
<1>4. LinkTyped' /\ ConsoleTyped' /\ LooksWhileStopped'
  BY <1>1, <1>2 DEF Inv, LinkTyped, ConsoleTyped, linkVars, roomVars, ConsoleStays, LooksWhileStopped
<1>5. GameTyped' /\ StatusMatchesGame'
  BY <1>1, <1>2 DEF Inv, GameTyped, StatusMatchesGame, States, Playing, linkVars, roomVars
<1>6. CacheFits'
  BY <1>1, <1>2 DEF Inv, CacheFits, roomVars, Told
<1>7. KnowsRom'
  BY <1>1, <1>2 DEF Inv, KnowsRom
<1>. QED  BY <1>2, <1>3, <1>4, <1>5, <1>6, <1>7 DEF Inv

LEMMA OnJoinedBeforeInv ==
    ASSUME Inv, OnJoinedBefore
    PROVE  Inv'
<1>1. PICK joined \in JoinedReadings :
        /\ Answered("joined") /\ Head(pending).use = "before" /\ pending' = Tail(pending)
        /\ readBuffer' = NoBuffer /\ finishedBuffer' = FALSE
        /\ readBufferValid' = (joined /\ Playing(gstate))
        /\ IF ~joined /\ Playing(gstate) THEN Left ELSE UNCHANGED <<gstate, status>>
        /\ UNCHANGED <<rom, wantDeathlink, cache, reported, linkVars, roomVars>> /\ ConsoleStays
  BY DEF OnJoinedBefore
<1>2. /\ Head(pending) = Joined("before") /\ connected
      /\ In(pending) = In(pending') \cup {Head(pending)}
      /\ Head(pending) \in In(pending)
      /\ pending' \in Seq(Callbacks) /\ Orderly(pending')
  BY <1>1, AnsweredFacts, CallbackFields
<1>3. joined \in BOOLEAN
  BY <1>1, TimingAssumption DEF JoinedReadings
<1>4. BufferTyped'
  BY <1>1, <1>3 DEF BufferTyped, NoBuffer, Inv, GameTyped, Playing
<1>5. LinkTyped' /\ ConsoleTyped'
  BY <1>1 DEF Inv, LinkTyped, ConsoleTyped, linkVars, roomVars, ConsoleStays
<1>6. GameTyped' /\ StatusMatchesGame'
  BY <1>1, <1>2 DEF Inv, GameTyped, StatusMatchesGame, States, Playing, linkVars, roomVars, Left
<1>7. \A c \in In(pending) : ~IsFor(c, "start") /\ ~IsFor(c, "run")
  BY <1>1, <1>2, Lone DEF IsFor, Joined
<1>8. CacheFits' /\ LooksWhileStopped' /\ KnowsRom'
  BY <1>1, <1>2, <1>7 DEF Inv, CacheFits, roomVars, Told, LooksWhileStopped, KnowsRom, Left, Playing
<1>9. SnapshotFits'
  <2>. SUFFICES ASSUME readBufferValid' PROVE SnapshotFits'
    BY DEF SnapshotFits
  <2>1. joined /\ Playing(gstate) /\ UNCHANGED gstate
    BY <1>1
  <2>2. Joined("after") \in In(pending) /\ \A b \in Blocks : Block(b) \in In(pending)
    <3>1. pending # <<>> /\ pending \in Seq(Callbacks)
      BY <1>1 DEF Answered, Inv
    <3>2. 1 \in DOMAIN pending /\ pending[1] = Joined("before")
      BY <3>1, <1>2
    <3>. QED  BY <3>2 DEF Inv, Orderly
  <2>3. Joined("after") \in In(pending') /\ \A b \in Blocks : Block(b) \in In(pending')
    <3>1. Joined("before") # Joined("after") /\ \A b \in Blocks : Block(b) # Joined("before")
      <4>1. Joined("before").cb = "joined" /\ \A b \in Blocks : Block(b).cb = "block"
        BY DEF Block, Joined
      <4>. QED  BY <4>1 DEF Joined
    <3>. QED  BY <1>2, <2>2, <3>1
  <2>. QED  BY <2>1, <2>3 DEF SnapshotFits
<1>. QED  BY <1>2, <1>4, <1>5, <1>6, <1>8, <1>9 DEF Inv

LEMMA OnBlockInv ==
    ASSUME Inv, OnBlock
    PROVE  Inv'
<1> DEFINE b == Head(pending).block
<1>1. /\ Answered("block") /\ pending' = Tail(pending)
      /\ UNCHANGED <<gameVars, readBufferValid, finishedBuffer, linkVars, roomVars, reported>> /\ ConsoleStays
  BY DEF OnBlock
<1>2. PICK value \in Readings(b) :
        readBuffer' = [x \in DOMAIN readBuffer \cup {b} |-> IF x = b THEN value ELSE readBuffer[x]]
  BY DEF OnBlock
<1>3. /\ b \in Blocks /\ Head(pending) = Block(b) /\ Head(pending).cb = "block"
      /\ In(pending) = In(pending') \cup {Head(pending)}
      /\ pending' \in Seq(Callbacks) /\ Orderly(pending')
  BY <1>1, AnsweredFacts, CallbackFields
<1>4. value \subseteq Locations
  BY <1>2 DEF Readings, FlagsOf
<1> HIDE DEF b
<1>5. DOMAIN readBuffer' = DOMAIN readBuffer \cup {b}
  BY <1>2
<1>6. BufferTyped'
  BY <1>1, <1>2, <1>3, <1>4, <1>5 DEF Inv, BufferTyped
<1>7. GameTyped' /\ LinkTyped' /\ ConsoleTyped' /\ StatusMatchesGame'
  BY <1>1 DEF Inv, gameVars, linkVars, roomVars, ConsoleStays, GameTyped, LinkTyped, ConsoleTyped,
              StatusMatchesGame
<1>8. LooksWhileStopped' /\ KnowsRom'
  BY <1>1, PoppedInv DEF gameVars
<1>9. CacheFits'
  BY <1>1, <1>3 DEF Inv, CacheFits, roomVars, Told, gameVars
<1>10. SnapshotFits'
  <2>1. Joined("after") # Head(pending)
    BY <1>3 DEF Joined
  <2>2. \A x \in Blocks : Block(x) = Head(pending) => x = b
    BY <1>3 DEF Block
  <2>. QED  BY <1>1, <1>3, <1>5, <2>1, <2>2 DEF Inv, SnapshotFits, gameVars
<1>. QED  BY <1>3, <1>6, <1>7, <1>8, <1>9, <1>10 DEF Inv

LEMMA OnFinishedInv ==
    ASSUME Inv, OnFinished
    PROVE  Inv'
<1>1. /\ Answered("finished") /\ pending' = Tail(pending)
      /\ finishedBuffer' \in BOOLEAN
      /\ UNCHANGED <<gstate, rom, wantDeathlink, cache, status, reported, readBuffer,
                     readBufferValid, created, connected, apState, rejected, cart, playing, ram, earned>>
  BY DEF OnFinished, gameVars, linkVars, roomVars, ConsoleStays
<1>2. /\ Head(pending).cb = "finished"
      /\ In(pending) = In(pending') \cup {Head(pending)}
      /\ pending' \in Seq(Callbacks) /\ Orderly(pending')
  BY <1>1, AnsweredFacts
<1>3. GameTyped' /\ BufferTyped' /\ LinkTyped' /\ ConsoleTyped' /\ StatusMatchesGame'
  BY <1>1 DEF Inv, GameTyped, BufferTyped, LinkTyped, ConsoleTyped, StatusMatchesGame
<1>4. LooksWhileStopped' /\ KnowsRom'
  BY <1>1, PoppedInv
<1>5. CacheFits'
  BY <1>1, <1>2 DEF Inv, CacheFits, roomVars, Told
<1>6. SnapshotFits'
  <2>1. Joined("after") # Head(pending) /\ \A b \in Blocks : Block(b) # Head(pending)
    BY <1>2 DEF Joined, Block
  <2>. QED  BY <1>1, <1>2, <2>1 DEF Inv, SnapshotFits
<1>. QED  BY <1>2, <1>3, <1>4, <1>5, <1>6 DEF Inv

\* What is applied was all read, is in the cache, and was reported.
LEMMA ApplyFacts ==
    ASSUME Inv, Apply, Playing(gstate)
    PROVE  /\ cache' \subseteq Locations
           /\ reported' \subseteq (Roms \cup {NoRom, Other}) \X Flags
           /\ apState # "NONE" =>
                 /\ \A l \in cache' : <<rom, l>> \in reported'
                 /\ gstate' = "FINISHED" => <<rom, Won>> \in reported'
           /\ Playing(gstate') /\ gstate' \in States
           /\ gstate' = gstate => status' = status
           /\ gstate' # gstate => status' = "green"
<1>1. /\ DOMAIN readBuffer \subseteq Blocks
      /\ \A b \in DOMAIN readBuffer : readBuffer[b] \subseteq Locations
  BY DEF Inv, BufferTyped
<1>2. Fresh \subseteq Locations
  BY <1>1 DEF Fresh
<1>3. cache' \subseteq Locations
  BY <1>1 DEF Apply, Cached, Inv, GameTyped
<1>4. ASSUME apState # "NONE"
      PROVE  /\ reported \subseteq reported' /\ \A l \in Fresh : <<rom, l>> \in reported'
             /\ finishedBuffer /\ gstate # "FINISHED" => <<rom, Won>> \in reported'
  BY <1>4 DEF Apply
<1>5. apState # "NONE" => Told
  BY DEF Inv, CacheFits, Playing
<1>6. cache' \subseteq cache \cup Fresh
  BY DEF Apply, Cached, Fresh
<1>9. ASSUME apState # "NONE", gstate' = "FINISHED" PROVE <<rom, Won>> \in reported'
  <2>1. CASE gstate = "FINISHED"
    BY <1>4, <1>5, <1>9, <2>1 DEF Told
  <2>2. CASE gstate # "FINISHED"
    <3>1. finishedBuffer  BY <1>9, <2>2 DEF Apply
    <3>. QED  BY <1>4, <1>9, <2>2, <3>1
  <2>. QED  BY <2>1, <2>2
<1>10. ASSUME apState # "NONE", NEW l \in cache' PROVE <<rom, l>> \in reported'
  BY <1>4, <1>5, <1>6, <1>10 DEF Told
<1>7. reported' \subseteq (Roms \cup {NoRom, Other}) \X Flags
  BY <1>2 DEF Apply, Inv, GameTyped, Flags
<1>8. /\ Playing(gstate') /\ gstate' \in States
      /\ gstate' = gstate => status' = status
      /\ gstate' # gstate => status' = "green"
  BY DEF Apply, Playing, States, Inv, GameTyped
<1>. QED  BY <1>3, <1>7, <1>8, <1>9, <1>10

LEMMA OnJoinedAfterInv ==
    ASSUME Inv, OnJoinedAfter
    PROVE  Inv'
<1>1. PICK joined \in JoinedReadings :
        /\ Answered("joined") /\ Head(pending).use = "after" /\ pending' = Tail(pending)
        /\ Checked(joined)
        /\ UNCHANGED <<rom, wantDeathlink, linkVars, roomVars>> /\ ConsoleStays
  BY DEF OnJoinedAfter
<1>2. /\ Head(pending) = Joined("after") /\ connected
      /\ In(pending) = In(pending') \cup {Head(pending)}
      /\ Head(pending) \in In(pending)
      /\ pending' \in Seq(Callbacks) /\ Orderly(pending')
  BY <1>1, AnsweredFacts, CallbackFields
<1>3. \A c \in In(pending) : ~IsFor(c, "start") /\ ~IsFor(c, "run")
  BY <1>1, <1>2, Lone DEF IsFor, Joined
<1>4. LinkTyped' /\ ConsoleTyped'
  BY <1>1 DEF Inv, LinkTyped, ConsoleTyped, linkVars, roomVars, ConsoleStays
<1>5. LooksWhileStopped'
  BY <1>2, <1>3 DEF LooksWhileStopped
<1>6. CASE Playing(gstate) /\ ~joined
  <2>1. Left /\ Invalidate /\ UNCHANGED <<cache, reported>>
    BY <1>1, <1>6 DEF Checked
  <2>2. BufferTyped' /\ SnapshotFits'
    BY <2>1, InvalidateFacts
  <2>3. GameTyped' /\ StatusMatchesGame'
    BY <1>1, <1>2, <2>1 DEF Inv, GameTyped, StatusMatchesGame, States, Playing, linkVars, roomVars, Left
  <2>4. CacheFits' /\ KnowsRom'
    BY <1>1, <1>2, <1>3, <1>6, <2>1 DEF Inv, CacheFits, roomVars, Told, KnowsRom, Left, Playing
  <2>. QED  BY <1>2, <1>4, <1>5, <2>2, <2>3, <2>4 DEF Inv
<1>7. CASE Playing(gstate) /\ joined /\ readBufferValid
  <2>1. Apply
    BY <1>1, <1>7 DEF Checked
  <2>2. BufferTyped' /\ SnapshotFits'
    BY <2>1, InvalidateFacts DEF Apply
  <2>3. /\ cache' \subseteq Locations
        /\ reported' \subseteq (Roms \cup {NoRom, Other}) \X Flags
        /\ apState # "NONE" =>
              /\ \A l \in cache' : <<rom, l>> \in reported'
              /\ gstate' = "FINISHED" => <<rom, Won>> \in reported'
        /\ Playing(gstate') /\ gstate' \in States
        /\ gstate' = gstate => status' = status
        /\ gstate' # gstate => status' = "green"
    BY <1>7, <2>1, ApplyFacts
  <2>4. status' = "green"
    BY <1>7, <2>3 DEF Inv, StatusMatchesGame
  <2>5. GameTyped' /\ StatusMatchesGame'
    BY <1>1, <1>2, <2>3, <2>4 DEF Inv, GameTyped, StatusMatchesGame, Playing, linkVars, roomVars
  <2>6. CacheFits' /\ KnowsRom'
    BY <1>1, <1>2, <1>3, <1>7, <2>3 DEF Inv, CacheFits, roomVars, Told, KnowsRom, Playing
  <2>. QED  BY <1>2, <1>4, <1>5, <2>2, <2>5, <2>6 DEF Inv
<1>8. CASE ~Playing(gstate) \/ (joined /\ ~readBufferValid)
  <2>1. UNCHANGED <<gstate, cache, status, reported, readBuffer, readBufferValid, finishedBuffer,
                    connected, apState>>
    BY <1>1, <1>8 DEF Checked, bufferVars, linkVars, roomVars
  <2>2. ~readBufferValid
    BY <1>8 DEF Inv, SnapshotFits
  <2>3. BufferTyped' /\ SnapshotFits' /\ GameTyped' /\ StatusMatchesGame'
    BY <1>1, <2>1, <2>2 DEF Inv, GameTyped, BufferTyped, StatusMatchesGame, SnapshotFits
  <2>4. CacheFits' /\ KnowsRom'
    BY <1>1, <1>2, <2>1 DEF Inv, CacheFits, roomVars, Told, KnowsRom
  <2>. QED  BY <1>2, <1>4, <1>5, <2>3, <2>4 DEF Inv
<1>9. joined \in BOOLEAN /\ readBufferValid \in BOOLEAN
  BY TimingAssumption DEF JoinedReadings, Inv, BufferTyped
<1>. QED  BY <1>6, <1>7, <1>8, <1>9

-----------------------------------------------------------------------------
(* The theorems that need no assumption on time.                             *)

LEMMA StutterInv ==
    ASSUME Inv, UNCHANGED vars
    PROVE  Inv'
<1>1. clientUnchanged /\ ConsoleTyped'
  BY DEF vars, clientUnchanged, consoleVars, Inv, ConsoleTyped
<1>. QED  BY <1>1, UnseenInv

LEMMA NextInv == Inv /\ [Next]_vars => Inv'
<1>. SUFFICES ASSUME Inv, [Next]_vars PROVE Inv'
  OBVIOUS
<1>1. CASE Connect  BY <1>1, ConnectInv
<1>2. CASE Disconnect  BY <1>2, DisconnectInv
<1>3. CASE ConnectAp \/ SocketConnected \/ SyncCommand  BY <1>3, ForgettingInv
<1>4. CASE RoomInfo  BY <1>4, RoomInfoInv
<1>5. CASE Poll  BY <1>5, PollInv
<1>6. CASE OnHeader  BY <1>6, OnHeaderInv
<1>7. CASE OnFlags  BY <1>7, OnFlagsInv
<1>8. CASE OnSection  BY <1>8, OnSectionInv
<1>9. CASE OnJoinedRun  BY <1>9, OnJoinedRunInv
<1>10. CASE OnJoinedBefore  BY <1>10, OnJoinedBeforeInv
<1>11. CASE OnBlock  BY <1>11, OnBlockInv
<1>12. CASE OnFinished  BY <1>12, OnFinishedInv
<1>13. CASE OnJoinedAfter  BY <1>13, OnJoinedAfterInv
<1>14. CASE LoadSave \/ LeaveSave \/ Earn \/ SwapCart  BY <1>14, ConsoleInv
<1>15. CASE UNCHANGED vars  BY <1>15, StutterInv
<1>16. CASE DisconnectAp \/ SocketLost \/ SlotConnected  BY <1>16, ClientInv
<1>. QED
  BY <1>1, <1>2, <1>3, <1>4, <1>5, <1>6, <1>7, <1>8, <1>9, <1>10, <1>11, <1>12, <1>13, <1>14,
     <1>15, <1>16 DEF Next

LEMMA HistoryInv == Inv /\ HistoryTyped /\ [Next]_vars => HistoryTyped'
<1>. SUFFICES ASSUME Inv, HistoryTyped, [Next]_vars PROVE HistoryTyped'
  OBVIOUS
<1>1. ASSUME ConsoleStays \/ Unnoticed \/ UNCHANGED noticed PROVE noticed' \in BOOLEAN
  BY <1>1 DEF ConsoleStays, Unnoticed, HistoryTyped
<1>2. ASSUME UNCHANGED astray \/ astray' = FALSE \/ \E joined \in BOOLEAN : Follow(joined)
      PROVE  astray' \in BOOLEAN
  BY <1>2 DEF Follow, HistoryTyped
<1>3. CASE Connect \/ Disconnect
  <2>1. (UNCHANGED astray \/ astray' = FALSE) /\ ConsoleStays
    BY <1>3 DEF Connect, Disconnect, Reset
  <2>. QED  BY <1>1, <1>2, <2>1 DEF HistoryTyped
<1>4. CASE ConnectAp \/ SocketConnected \/ SyncCommand
  <2>1. UNCHANGED astray /\ ConsoleStays
    BY <1>4 DEF ConnectAp, SocketConnected, SyncCommand
  <2>. QED  BY <1>1, <1>2, <2>1 DEF HistoryTyped
<1>5. CASE DisconnectAp \/ SocketLost \/ SlotConnected
  <2>1. UNCHANGED astray /\ ConsoleStays
    BY <1>5 DEF DisconnectAp, SocketLost, SlotConnected, GameStays, gameVars
  <2>. QED  BY <1>1, <1>2, <2>1 DEF HistoryTyped
<1>6. CASE RoomInfo
  <2>1. (UNCHANGED astray \/ astray' = FALSE) /\ ConsoleStays
    BY <1>6 DEF RoomInfo, Reset
  <2>. QED  BY <1>1, <1>2, <2>1 DEF HistoryTyped
<1>7. ASSUME NEW u, NEW r, NEW dl, Identified(u, r, dl), u \in Uses
      PROVE  UNCHANGED astray \/ astray' = FALSE
  BY <1>7 DEF Identified, Uses, StartIdentified, Started, RunIdentified, VerifyIdentified, Reset,
              GameStays, gameVars
<1>8. CASE Poll \/ OnFlags \/ OnBlock \/ OnFinished
  <2>1. UNCHANGED astray /\ ConsoleStays
    BY <1>8 DEF Poll, OnFlags, OnBlock, OnFinished, GameStays, gameVars
  <2>. QED  BY <1>1, <1>2, <2>1 DEF HistoryTyped
<1>9. CASE OnJoinedRun \/ OnJoinedBefore \/ OnJoinedAfter
  <2>1. \A joined \in JoinedReadings : joined \in BOOLEAN
    BY TimingAssumption DEF JoinedReadings
  <2>2. (\E joined \in JoinedReadings : Follow(joined)) /\ ConsoleStays
    BY <1>9 DEF OnJoinedRun, OnJoinedBefore, OnJoinedAfter
  <2>. QED  BY <1>1, <1>2, <2>1, <2>2 DEF HistoryTyped
<1>10. CASE LoadSave \/ LeaveSave \/ Earn \/ SwapCart
  <2>1. UNCHANGED astray /\ (Unnoticed \/ UNCHANGED noticed)
    BY <1>10 DEF LoadSave, LeaveSave, Earn, SwapCart, clientUnchanged, gameVars
  <2>. QED  BY <1>1, <1>2, <2>1 DEF HistoryTyped
<1>11. CASE UNCHANGED vars
  BY <1>11 DEF vars, gameVars, consoleVars, HistoryTyped
<1>12. CASE OnHeader \/ OnSection
  <2>1. ConsoleStays  BY <1>12 DEF OnHeader, OnSection
  <2>2. \/ UNCHANGED astray
        \/ \E r, dl : Identified(Head(pending).use, r, dl)
    BY <1>12 DEF OnHeader, OnSection, GameStays, gameVars
  <2>3. Answered("header") \/ Answered("section")  BY <1>12 DEF OnHeader, OnSection
  <2>4. Head(pending).use \in Uses
    BY <2>3, AnsweredFacts, CallbackFields
  <2>. QED  BY <1>1, <1>2, <1>7, <2>1, <2>2, <2>4 DEF HistoryTyped
<1>. QED
  BY <1>3, <1>4, <1>5, <1>6, <1>8, <1>9, <1>10, <1>11, <1>12 DEF Next

THEOREM Invariance == Spec => [](Inv /\ HistoryTyped)
<1>1. Init => HistoryTyped
  BY DEF Init, HistoryTyped
<1>. QED  BY <1>1, InitInv, NextInv, HistoryInv, PTL DEF Spec

\* The fields of Game, its queue and its buffer keep their types, for every number of ROMs,
\* locations and blocks.
THEOREM TypeCorrect == Spec => []TypeOK
BY Invariance, InvImplies, PTL

\* The colour of the game field tells the phase, whatever the console and the room do.
THEOREM StatusCorrect == Spec => []StatusMatchesGame
<1>1. Inv => StatusMatchesGame  BY DEF Inv
<1>. QED  BY <1>1, Invariance, PTL

\* While there is a client, what is suppressed was told to it since its socket connected,
\* whatever the console and the room do.
THEOREM CacheCorrect == Spec => []CachedIsReported
BY Invariance, InvImplies, PTL

\* What passes the second check is a complete snapshot, for every set of blocks.
THEOREM SnapshotCorrect == Spec => []SnapshotComplete
<1>1. Inv => SnapshotComplete
  <2>. SUFFICES ASSUME Inv, readBufferValid, Answered("joined"), Head(pending).use = "after"
                PROVE  DOMAIN readBuffer = Blocks
    BY DEF SnapshotComplete
  <2>1. /\ Head(pending).cb = "joined" /\ Head(pending) # Joined("before")
        /\ In(pending) = In(Tail(pending)) \cup {Head(pending)}
        /\ \A c \in In(Tail(pending)) : c.cb # "block"
    BY AnsweredFacts DEF Joined
  <2>2. \A b \in Blocks : Block(b) \notin In(pending)
    BY <2>1 DEF Block
  <2>. QED  BY <2>2 DEF Inv, SnapshotFits, BufferTyped
<1>. QED  BY <1>1, Invariance, PTL

-----------------------------------------------------------------------------
(* The invariant of a console that loads a save only after the client noticed that *)
(* the last one was left.  Of memory outside a save, and of the room, it assumes    *)
(* nothing.                                                                 *)

\* A save is that of a game that is modelled.
NoSaveOfOther == playing => cart # Other

RamEarned == \A f \in ram : <<cart, f>> \in earned

\* A client that waits for nothing and follows no save has noticed that none is played.
NoticedIdle == pending = <<>> /\ ~Playing(gstate) => noticed

AstrayPlays == astray => Playing(gstate)

\* While a save is looked for none is followed; one that was left is not loaded again.
RunWaits ==
    \A c \in In(pending) : IsFor(c, "run") =>
        /\ ~Playing(gstate)
        /\ noticed \/ ~playing

\* The flags that were read are those of the cartridge, unless it was exchanged since.
SectionFits ==
    \A c \in In(pending) : c.cb = "section" /\ noticed
        => (c.deathlink <=> cart \in DeathlinkRoms)

\* A save that is looked for is one of the ROM found, unless the game was reset.
RunFits ==
    Joined("run") \in In(pending) /\ noticed /\ rom # NoRom
        => cart = rom /\ (wantDeathlink <=> rom \in DeathlinkRoms)

\* A save that is followed is one of the ROM, and was not left and loaded again.
RomFollowed ==
    Playing(gstate) /\ ~astray =>
        /\ rom \in Roms
        /\ IF playing THEN cart = rom ELSE ~noticed

\* What was read is true of the save, unless it was left since.
BufferEarned ==
    readBufferValid /\ playing /\ ~astray =>
        /\ \A b \in DOMAIN readBuffer : \A l \in readBuffer[b] : <<cart, l>> \in earned
        /\ finishedBuffer => <<cart, Won>> \in earned

SlowInv ==
    /\ NoSaveOfOther /\ RamEarned /\ NoticedIdle /\ AstrayPlays
    /\ RunWaits /\ SectionFits /\ RunFits
    /\ RomFollowed /\ DeathlinkOfRom
    /\ BufferEarned

LEMMA InitSlow == Init => SlowInv
<1>. SUFFICES ASSUME Init PROVE SlowInv
  OBVIOUS
<1>1. pending = <<>> /\ In(pending) = {}
  BY DEF Init, In
<1>. QED
  BY <1>1 DEF Init, SlowInv, NoSaveOfOther, RamEarned, NoticedIdle, AstrayPlays, RunWaits,
              SectionFits, RunFits, RomFollowed, DeathlinkOfRom, BufferEarned, Playing

\* Between two steps of the client the console stays as it is.
LEMMA ConsoleSlow ==
    ASSUME SlowInv, ConsoleStays
    PROVE  /\ NoSaveOfOther' /\ RamEarned' /\ NoticedIdle'
           /\ noticed => noticed'
           /\ noticed' => (noticed \/ (In(pending') = {} /\ ~Playing(gstate')))
<1>1. In(<<>>) = {}
  BY DEF In
<1>2. /\ UNCHANGED <<cart, playing, ram, earned>>
      /\ noticed' = (noticed \/ (pending' = <<>> /\ ~Playing(gstate')))
  BY DEF ConsoleStays
<1>3. noticed' => (noticed \/ (pending' = <<>> /\ ~Playing(gstate')))
  BY <1>2
<1>4. pending' = <<>> => In(pending') = {}
  BY <1>1
<1>5. NoSaveOfOther' /\ RamEarned'
  BY <1>2 DEF SlowInv, NoSaveOfOther, RamEarned
<1>6. NoticedIdle' /\ (noticed => noticed')
  BY <1>2 DEF NoticedIdle
<1>. QED  BY <1>3, <1>4, <1>5, <1>6

\* What is followed after a step of the client was followed before.
LEMMA FollowedSlow ==
    ASSUME SlowInv, ConsoleStays, astray' => Playing(gstate'),
           Playing(gstate') /\ ~astray' =>
               Playing(gstate) /\ ~astray /\ UNCHANGED <<rom, wantDeathlink>>
    PROVE  AstrayPlays' /\ RomFollowed' /\ DeathlinkOfRom'
BY ConsoleSlow DEF SlowInv, ConsoleStays, AstrayPlays, RomFollowed, DeathlinkOfRom

\* What is asked for after a step of the client was asked for before, or by a poll.
LEMMA QueueSlow ==
    ASSUME SlowInv, ConsoleStays,
           \A c \in In(pending') : c.cb = "section" => c \in In(pending),
           \A c \in In(pending') : IsFor(c, "run") =>
               /\ ~Playing(gstate')
               /\ noticed \/ \E d \in In(pending) : IsFor(d, "run"),
           Joined("run") \in In(pending') =>
               /\ Joined("run") \in In(pending)
               /\ rom' = NoRom \/ UNCHANGED <<rom, wantDeathlink>>
    PROVE  RunWaits' /\ SectionFits' /\ RunFits'
<1>1. noticed => noticed'
  BY ConsoleSlow
<1>2. noticed' => noticed \/ In(pending') = {}
  BY ConsoleSlow
<1>3. UNCHANGED <<cart, playing>>
  BY DEF ConsoleStays
<1>4. RunWaits'
  <2>. SUFFICES ASSUME NEW c \in In(pending'), IsFor(c, "run")
                PROVE  ~Playing(gstate') /\ (noticed' \/ ~playing')
    BY DEF RunWaits
  <2>. QED  BY <1>1, <1>3 DEF SlowInv, RunWaits
<1>5. SectionFits'
  BY <1>2, <1>3 DEF SlowInv, SectionFits
<1>6. RunFits'
  BY <1>2, <1>3 DEF SlowInv, RunFits
<1>. QED  BY <1>4, <1>5, <1>6

\* A buffer that is valid after a step of the client was before, or is empty.
LEMMA BufferSlow ==
    ASSUME SlowInv, ConsoleStays,
           readBufferValid' =>
               \/ UNCHANGED <<readBuffer, readBufferValid, finishedBuffer>>
               \/ readBuffer' = NoBuffer /\ finishedBuffer' = FALSE,
           readBufferValid' /\ ~astray' => ~astray
    PROVE  BufferEarned'
<1>1. UNCHANGED <<cart, playing, earned>>
  BY DEF ConsoleStays
<1>2. CASE ~readBufferValid'
  BY <1>2 DEF BufferEarned
<1>3. CASE readBufferValid' /\ UNCHANGED <<readBuffer, readBufferValid, finishedBuffer>>
  BY <1>1, <1>3 DEF SlowInv, BufferEarned
<1>4. CASE readBuffer' = NoBuffer /\ finishedBuffer' = FALSE
  BY <1>4 DEF BufferEarned, NoBuffer
<1>. QED  BY <1>2, <1>3, <1>4

\* What a client is that took a callback from the queue, asked for more, left a game or
\* was reset.
LEMMA ClientSlow ==
    ASSUME SlowInv, ConsoleStays, astray' => Playing(gstate'),
           Playing(gstate') /\ ~astray' =>
               Playing(gstate) /\ ~astray /\ UNCHANGED <<rom, wantDeathlink>>,
           \A c \in In(pending') : c.cb = "section" => c \in In(pending),
           \A c \in In(pending') : IsFor(c, "run") =>
               /\ ~Playing(gstate')
               /\ noticed \/ \E d \in In(pending) : IsFor(d, "run"),
           Joined("run") \in In(pending') =>
               /\ Joined("run") \in In(pending)
               /\ rom' = NoRom \/ UNCHANGED <<rom, wantDeathlink>>,
           readBufferValid' =>
               \/ UNCHANGED <<readBuffer, readBufferValid, finishedBuffer>>
               \/ readBuffer' = NoBuffer /\ finishedBuffer' = FALSE,
           readBufferValid' /\ ~astray' => ~astray
    PROVE  SlowInv'
BY ConsoleSlow, FollowedSlow, QueueSlow, BufferSlow DEF SlowInv

-----------------------------------------------------------------------------
(* Each step keeps it.                                                      *)

LEMMA DisconnectSlow ==
    ASSUME SlowInv, Disconnect
    PROVE  SlowInv'
<1>1. /\ ConsoleStays /\ gstate' = "STOPPED" /\ ~astray' /\ ~readBufferValid'
      /\ pending' = <<>> /\ In(pending') = {}
  BY DEF Disconnect, Reset, Invalidate, In
<1>. QED  BY <1>1, ClientSlow DEF Playing

\* The game is left alone by the link and by the client of the room; a poll asks anew.
LEMMA AloneSlow ==
    ASSUME Inv, SlowInv,
           \/ Connect \/ Poll
           \/ ConnectAp \/ SocketConnected \/ SyncCommand
           \/ DisconnectAp \/ SocketLost \/ SlotConnected
    PROVE  SlowInv'
<1>1. /\ ConsoleStays
      /\ UNCHANGED <<rom, wantDeathlink, astray, readBuffer, readBufferValid, finishedBuffer>>
      /\ Playing(gstate') <=> Playing(gstate)
  <2>1. CASE Connect \/ DisconnectAp \/ SocketLost \/ SlotConnected
    BY <2>1 DEF Connect, DisconnectAp, SocketLost, SlotConnected, GameStays, gameVars, bufferVars
  <2>2. CASE Poll
    BY <2>2 DEF Poll, GameStays, gameVars, bufferVars
  <2>3. CASE ConnectAp \/ SocketConnected \/ SyncCommand
    BY <2>3 DEF ConnectAp, SocketConnected, SyncCommand, Forget, bufferVars, Playing
  <2>. QED  BY <2>1, <2>2, <2>3
<1>2. /\ \A c \in In(pending') : c.cb = "section" => c \in In(pending)
      /\ \A c \in In(pending') : IsFor(c, "run") =>
               /\ ~Playing(gstate')
               /\ noticed \/ \E d \in In(pending) : IsFor(d, "run")
      /\ Joined("run") \in In(pending') => Joined("run") \in In(pending)
  <2>1. CASE UNCHANGED pending
    BY <1>1, <2>1 DEF SlowInv, RunWaits
  <2>2. CASE Poll
    <3>1. pending' = Batch /\ pending = <<>> /\ gstate \in States
      BY <2>2 DEF Poll, Inv, GameTyped
    <3>2. \A c \in In(pending') : /\ c.cb # "section" /\ c # Joined("run")
                                  /\ IsFor(c, "run") => ~Playing(gstate)
      BY <3>1, BatchFacts DEF IsFor, Header, Joined, States, Playing
    <3>3. ~Playing(gstate) => noticed
      BY <3>1 DEF SlowInv, NoticedIdle
    <3>. QED  BY <1>1, <3>2, <3>3
  <2>. QED
    BY <2>1, <2>2 DEF Connect, ConnectAp, SocketConnected, SyncCommand, DisconnectAp, SocketLost,
                      SlotConnected
<1>. QED  BY <1>1, <1>2, ClientSlow DEF SlowInv, AstrayPlays

LEMMA RoomInfoSlow ==
    ASSUME SlowInv, RoomInfo
    PROVE  SlowInv'
<1>1. ConsoleStays /\ UNCHANGED <<wantDeathlink, pending>>
  BY DEF RoomInfo
<1>2. CASE rom \in rejected'
  <2>1. gstate' = "STOPPED" /\ ~astray' /\ ~readBufferValid' /\ rom' = NoRom
    BY <1>2 DEF RoomInfo, Reset, Invalidate
  <2>. QED  BY <1>1, <2>1, ClientSlow DEF Playing
<1>3. CASE rom \notin rejected'
  <2>1. UNCHANGED <<gstate, rom, astray, readBuffer, readBufferValid, finishedBuffer>>
    BY <1>3 DEF RoomInfo, bufferVars
  <2>2. \A c \in In(pending) : IsFor(c, "run") => ~Playing(gstate)
    BY DEF SlowInv, RunWaits
  <2>. QED  BY <1>1, <2>1, <2>2, ClientSlow DEF SlowInv, AstrayPlays
<1>. QED  BY <1>2, <1>3

\* The queue when a read that identifies the ROM is answered.
LEMMA IdentifiedQueue ==
    ASSUME Inv, NEW cb \in {"header", "section"}, Answered(cb), NEW r,
           pending' = Tail(pending) \o ReadsAfter(Head(pending).use, r)
    PROVE  /\ Head(pending) \in In(pending) /\ Head(pending).cb = cb
           /\ Head(pending).use \in Uses
           /\ IsFor(Head(pending), Head(pending).use)
           /\ \A c \in In(pending') : c \in In(pending) \/ c = Joined("run")
           /\ Joined("run") \in In(pending') =>
                 Head(pending).use = "run" /\ r = rom
           /\ Head(pending).use = "start" => In(pending') = {}
           /\ Head(pending).use = "run" => In(pending') \subseteq {Joined("run")}
           /\ Head(pending).use = "start" => gstate = "STOPPED"
           /\ Head(pending).use = "run" => gstate = "RUNNING" \/ ~QuietRoom
<1>1. /\ Head(pending) \in In(pending) /\ Head(pending).cb = cb /\ Head(pending) \in Callbacks
      /\ In(pending) = In(Tail(pending)) \cup {Head(pending)}
      /\ IsFor(Head(pending), "start") \/ IsFor(Head(pending), "run")
            => In(Tail(pending)) = {}
  BY AnsweredFacts
<1>2. Head(pending).use \in Uses /\ IsFor(Head(pending), Head(pending).use)
  BY <1>1, CallbackFields DEF IsFor
<1>3. \/ pending' = Tail(pending)
      \/ Head(pending).use = "run" /\ r = rom /\ In(pending') = {Joined("run")}
  BY AfterIdentified
<1>4. Joined("run") \in In(pending') => Head(pending).use = "run" /\ r = rom
  <2>1. ASSUME Joined("run") \in In(pending), Joined("run") # Head(pending) PROVE FALSE
    BY <2>1, Lone DEF IsFor, Joined
  <2>2. Joined("run") # Head(pending)
    BY <1>1 DEF Joined
  <2>. QED  BY <1>1, <1>3, <2>1, <2>2
<1>5. /\ Head(pending).use = "start" => In(pending') = {}
      /\ Head(pending).use = "run" => In(pending') \subseteq {Joined("run")}
  <2>1. CASE Head(pending).use = "start"  BY <1>1, <1>2, <1>3, <2>1
  <2>2. CASE Head(pending).use = "run"  BY <1>1, <1>2, <1>3, <2>2
  <2>. QED  BY <2>1, <2>2
<1>6. /\ Head(pending).use = "start" => gstate = "STOPPED"
      /\ Head(pending).use = "run" => gstate = "RUNNING" \/ ~QuietRoom
  BY <1>1, <1>2 DEF Inv, LooksWhileStopped, KnowsRom
<1>. QED  BY <1>1, <1>2, <1>3, <1>4, <1>5, <1>6

LEMMA StartIdentifiedSlow ==
    ASSUME Inv, SlowInv, NEW cb \in {"header", "section"}, Answered(cb), NEW r, NEW dl,
           Head(pending).use = "start", StartIdentified(r, dl), ConsoleStays,
           pending' = Tail(pending) \o ReadsAfter("start", r)
    PROVE  SlowInv'
<1>1. In(pending') = {} /\ gstate = "STOPPED" /\ ~readBufferValid /\ ~astray
  BY IdentifiedQueue DEF Inv, SnapshotFits, SlowInv, AstrayPlays, Playing
<1>2. gstate' \in {"STOPPED", "RUNNING"} /\ ~readBufferValid' /\ ~astray'
  BY <1>1 DEF StartIdentified, Started, Reset, Invalidate, GameStays, gameVars, bufferVars
<1>. QED  BY <1>1, <1>2, ClientSlow DEF Playing

\* A save is looked for only if the ROM is still the one that was found.
LEMMA RunIdentifiedSlow ==
    ASSUME Inv, SlowInv, NEW cb \in {"header", "section"}, Answered(cb),
           NEW r, r = cart \/ (cart \in {Vanilla, Other} /\ r = NoRom), NEW dl,
           r # NoRom /\ noticed => (dl <=> cart \in DeathlinkRoms),
           Head(pending).use = "run", RunIdentified(r, dl), ConsoleStays,
           pending' = Tail(pending) \o ReadsAfter("run", r)
    PROVE  SlowInv'
<1>1. /\ IsFor(Head(pending), "run") /\ Head(pending) \in In(pending)
      /\ In(pending') \subseteq {Joined("run")}
      /\ Joined("run") \in In(pending') => r = rom
  BY IdentifiedQueue
<1>2. ~Playing(gstate) /\ ~astray /\ (noticed \/ ~playing)
  BY <1>1 DEF SlowInv, RunWaits, AstrayPlays
<1>3. ~Playing(gstate') /\ ~readBufferValid' /\ ~astray'
  BY <1>2 DEF RunIdentified, Invalidate, Playing
<1>4. /\ NoSaveOfOther' /\ RamEarned' /\ NoticedIdle' /\ AstrayPlays' /\ RomFollowed'
      /\ DeathlinkOfRom' /\ BufferEarned'
  BY <1>2, <1>3, ConsoleSlow, FollowedSlow DEF BufferEarned
<1>5. /\ noticed => noticed'
      /\ noticed' => noticed \/ In(pending') = {}
      /\ UNCHANGED <<cart, playing>>
  BY ConsoleSlow DEF ConsoleStays
<1>6. RunWaits' /\ SectionFits'
  <2>1. Joined("run").cb # "section"  BY DEF Joined
  <2>. QED  BY <1>1, <1>2, <1>3, <1>5, <2>1 DEF RunWaits, SectionFits
<1>7. RunFits'
  <2>. SUFFICES ASSUME Joined("run") \in In(pending'), noticed', rom' # NoRom
                PROVE  (cart = rom /\ (wantDeathlink <=> rom \in DeathlinkRoms))'
    BY DEF RunFits
  <2>1. r = rom /\ noticed
    BY <1>1, <1>5
  <2>2. rom' = rom /\ wantDeathlink' = dl
    BY <2>1 DEF RunIdentified
  <2>3. cart = rom /\ (dl <=> cart \in DeathlinkRoms)
    BY <2>1, <2>2
  <2>. QED  BY <1>5, <2>2, <2>3
<1>. QED  BY <1>4, <1>6, <1>7 DEF SlowInv

\* A game is left only if another one runs.
LEMMA VerifyIdentifiedSlow ==
    ASSUME Inv, SlowInv, NEW cb \in {"header", "section"}, Answered(cb), NEW r, NEW dl,
           Head(pending).use = "verify", VerifyIdentified(r, dl), ConsoleStays,
           pending' = Tail(pending) \o ReadsAfter("verify", r)
    PROVE  SlowInv'
<1>1. Joined("run") \notin In(pending') /\ \A c \in In(pending') : c \in In(pending)
  BY IdentifiedQueue
<1>2. UNCHANGED rom
  BY DEF VerifyIdentified, GameStays, gameVars
<1>3. \/ gstate' = "STOPPED" /\ ~astray' /\ ~readBufferValid'
      \/ /\ UNCHANGED <<gstate, wantDeathlink, astray>>
         /\ \/ UNCHANGED <<readBuffer, readBufferValid, finishedBuffer>>
            \/ ~readBufferValid'
  BY DEF VerifyIdentified, GameStays, gameVars, bufferVars, Invalidate
<1>4. \A c \in In(pending') : IsFor(c, "run") =>
         /\ ~Playing(gstate')
         /\ noticed \/ \E d \in In(pending) : IsFor(d, "run")
  BY <1>1, <1>3 DEF SlowInv, RunWaits, Playing
<1>5. (astray => Playing(gstate)) /\ ~Playing("STOPPED")
  BY DEF SlowInv, AstrayPlays, Playing
<1>6. (astray' => Playing(gstate')) /\ (readBufferValid' /\ ~astray' => ~astray)
  BY <1>3, <1>5
<1>7. Playing(gstate') /\ ~astray' =>
         Playing(gstate) /\ ~astray /\ UNCHANGED <<rom, wantDeathlink>>
  BY <1>2, <1>3, <1>5
<1>8. readBufferValid' => UNCHANGED <<readBuffer, readBufferValid, finishedBuffer>>
  BY <1>3
<1>. QED  BY <1>1, <1>4, <1>6, <1>7, <1>8, ClientSlow

LEMMA IdentifiedSlow ==
    ASSUME Inv, SlowInv, NEW cb \in {"header", "section"}, Answered(cb),
           NEW r, r = cart \/ (cart \in {Vanilla, Other} /\ r = NoRom), NEW dl,
           r # NoRom /\ noticed => (dl <=> cart \in DeathlinkRoms),
           Identified(Head(pending).use, r, dl), ConsoleStays,
           pending' = Tail(pending) \o ReadsAfter(Head(pending).use, r)
    PROVE  SlowInv'
<1>1. CASE Head(pending).use = "start"
  BY <1>1, StartIdentifiedSlow DEF Identified
<1>2. CASE Head(pending).use = "run"
  BY <1>2, RunIdentifiedSlow DEF Identified
<1>3. CASE Head(pending).use = "verify"
  BY <1>3, VerifyIdentifiedSlow DEF Identified
<1>. QED  BY <1>1, <1>2, <1>3, IdentifiedQueue DEF Uses

LEMMA OnHeaderSlow ==
    ASSUME Inv, SlowInv, OnHeader
    PROVE  SlowInv'
<1>1. Answered("header") /\ ConsoleStays
  BY DEF OnHeader
<1>2. CASE cart = Other
  <2>1. /\ Identified(Head(pending).use, NoRom, FALSE)
        /\ pending' = Tail(pending) \o ReadsAfter(Head(pending).use, NoRom)
    BY <1>2 DEF OnHeader
  <2>. QED  BY <1>1, <1>2, <2>1, IdentifiedSlow
<1>3. CASE cart # Other
  <2>1. /\ pending' = Append(Tail(pending), FlagByte(Head(pending).use))
        /\ UNCHANGED <<gstate, rom, wantDeathlink, astray, readBuffer, readBufferValid,
                       finishedBuffer>>
    BY <1>3 DEF OnHeader, GameStays, gameVars, bufferVars
  <2>2. /\ Head(pending) \in Callbacks /\ Head(pending).cb = "header"
        /\ Head(pending) \in In(pending)
        /\ Tail(pending) \in Seq(Callbacks) /\ In(pending) = In(Tail(pending)) \cup {Head(pending)}
    BY <1>1, AnsweredFacts
  <2>3. In(pending') = In(Tail(pending)) \cup {FlagByte(Head(pending).use)}
    BY <2>1, <2>2, CallbackFields, CallbacksMade, InAppend
  <2>4. \A c \in In(pending') :
           /\ c.cb = "section" \/ c = Joined("run") => c \in In(pending)
           /\ IsFor(c, "run") => \E d \in In(pending) : IsFor(d, "run")
    BY <2>2, <2>3 DEF FlagByte, IsFor, Joined
  <2>5. (\E d \in In(pending) : IsFor(d, "run")) => ~Playing(gstate)
    BY DEF SlowInv, RunWaits
  <2>. QED  BY <1>1, <2>1, <2>4, <2>5, ClientSlow DEF SlowInv, AstrayPlays
<1>. QED  BY <1>2, <1>3

LEMMA OnFlagsSlow ==
    ASSUME Inv, SlowInv, OnFlags
    PROVE  SlowInv'
<1> DEFINE x == Section(Head(pending).use, cart \in DeathlinkRoms)
<1>1. /\ Answered("flags") /\ pending' = Append(Tail(pending), x) /\ ConsoleStays
      /\ UNCHANGED <<gstate, rom, wantDeathlink, astray, readBuffer, readBufferValid,
                     finishedBuffer>>
  BY DEF OnFlags, GameStays, gameVars, bufferVars
<1>2. /\ Head(pending) \in Callbacks /\ Head(pending).cb = "flags"
      /\ Head(pending) \in In(pending)
      /\ Tail(pending) \in Seq(Callbacks) /\ In(pending) = In(Tail(pending)) \cup {Head(pending)}
  BY <1>1, AnsweredFacts
<1>3. In(pending') = In(Tail(pending)) \cup {x}
  <2>1. Head(pending).use \in Uses /\ (cart \in DeathlinkRoms) \in BOOLEAN
    BY <1>2, CallbackFields
  <2>2. x \in Callbacks
    BY <2>1, CallbacksMade
  <2>. QED  BY <1>1, <1>2, <2>2, InAppend
<1>4. /\ x.cb = "section" /\ (x.deathlink <=> cart \in DeathlinkRoms) /\ x # Joined("run")
      /\ IsFor(x, "run") => IsFor(Head(pending), "run")
  BY <1>2 DEF Section, Joined, IsFor
<1> HIDE DEF x
<1>5. AstrayPlays' /\ RomFollowed' /\ DeathlinkOfRom'
  BY <1>1, FollowedSlow DEF SlowInv, AstrayPlays
<1>6. /\ noticed => noticed'
      /\ noticed' => noticed \/ In(pending') = {}
      /\ UNCHANGED <<cart, playing>>
  BY <1>1, ConsoleSlow DEF ConsoleStays
<1>7. SectionFits'
  <2>. SUFFICES ASSUME NEW c \in In(pending'), c.cb = "section", noticed'
                PROVE  c.deathlink <=> cart' \in DeathlinkRoms
    BY DEF SectionFits
  <2>1. CASE c = x  BY <1>4, <1>6, <2>1
  <2>2. CASE c \in In(pending) /\ noticed
    BY <1>6, <2>2 DEF SlowInv, SectionFits
  <2>. QED  BY <1>2, <1>3, <1>6, <2>1, <2>2
<1>8. RunWaits'
  <2>. SUFFICES ASSUME NEW c \in In(pending'), IsFor(c, "run")
                PROVE  ~Playing(gstate') /\ (noticed' \/ ~playing')
    BY DEF RunWaits
  <2>1. \E d \in In(pending) : IsFor(d, "run")  BY <1>2, <1>3, <1>4
  <2>. QED  BY <1>1, <1>6, <2>1 DEF SlowInv, RunWaits
<1>9. RunFits'
  BY <1>1, <1>2, <1>3, <1>4, <1>6 DEF SlowInv, RunFits
<1>10. BufferEarned'
  BY <1>1, BufferSlow
<1>. QED  BY <1>1, <1>5, <1>7, <1>8, <1>9, <1>10, ConsoleSlow DEF SlowInv

LEMMA OnSectionSlow ==
    ASSUME Inv, SlowInv, OnSection
    PROVE  SlowInv'
<1>1. Answered("section") /\ ConsoleStays
  BY DEF OnSection
<1>2. /\ Identified(Head(pending).use, SectionOf(cart), Head(pending).deathlink)
      /\ pending' = Tail(pending) \o ReadsAfter(Head(pending).use, SectionOf(cart))
  BY DEF OnSection
<1>3. SectionOf(cart) = cart \/ (cart \in {Vanilla, Other} /\ SectionOf(cart) = NoRom)
  BY DEF SectionOf
<1>4. noticed => (Head(pending).deathlink <=> cart \in DeathlinkRoms)
  <2>1. Head(pending) \in In(pending) /\ Head(pending).cb = "section"
    BY <1>1, AnsweredFacts
  <2>. QED  BY <2>1 DEF SlowInv, SectionFits
<1>. QED  BY <1>1, <1>2, <1>3, <1>4, IdentifiedSlow

\* A look at the save is deceived only where none is played.
LEMMA Looks ==
    ASSUME Inv, NEW joined \in JoinedReadings
    PROVE  joined \in BOOLEAN /\ playing \in BOOLEAN /\ (playing => joined)
BY TimingAssumption DEF JoinedReadings, Inv, ConsoleTyped

\* The save that is found is one of the ROM, or memory only passes for one.
LEMMA OnJoinedRunSlow ==
    ASSUME Inv, SlowInv, OnJoinedRun
    PROVE  SlowInv'
<1>1. PICK joined \in JoinedReadings :
        /\ Answered("joined") /\ Head(pending).use = "run" /\ pending' = Tail(pending)
        /\ Invalidate
        /\ IF joined /\ ~Playing(gstate)
           THEN gstate' = "JOINED"
           ELSE UNCHANGED gstate
        /\ Follow(joined)
        /\ UNCHANGED <<rom, wantDeathlink>>
        /\ ConsoleStays
  BY DEF OnJoinedRun
<1>2. /\ Head(pending) = Joined("run") /\ Head(pending) \in In(pending)
      /\ IsFor(Head(pending), "run") /\ In(pending') = {}
  BY <1>1, AnsweredFacts, CallbackFields DEF IsFor
<1>3. ~Playing(gstate) /\ ~astray /\ (noticed \/ ~playing) /\ ~readBufferValid'
  BY <1>1, <1>2 DEF SlowInv, RunWaits, AstrayPlays, Invalidate
<1>4. UNCHANGED <<cart, playing>> /\ (noticed' => noticed \/ ~Playing(gstate'))
  BY <1>1, ConsoleSlow DEF ConsoleStays
<1>5. astray' => Playing(gstate')
  BY <1>1 DEF Follow
<1>6. RunWaits' /\ SectionFits' /\ RunFits' /\ BufferEarned'
  BY <1>2, <1>3 DEF RunWaits, SectionFits, RunFits, BufferEarned
<1>7. RomFollowed' /\ DeathlinkOfRom'
  <2>. SUFFICES ASSUME Playing(gstate'), ~astray'
                PROVE  /\ rom \in Roms /\ playing /\ cart = rom
                       /\ wantDeathlink <=> rom \in DeathlinkRoms
    BY <1>1, <1>4 DEF RomFollowed, DeathlinkOfRom
  <2>1. joined /\ rom \in Roms /\ (joined => playing)
    BY <1>1, <1>3 DEF Follow
  <2>2. rom # NoRom  BY <2>1, RomAssumption
  <2>. QED  BY <1>2, <1>3, <2>1, <2>2 DEF SlowInv, RunFits
<1>. QED  BY <1>1, <1>5, <1>6, <1>7, ConsoleSlow DEF SlowInv, AstrayPlays

\* A callback that follows the play leaves the queue.
LEMMA PoppedQueue ==
    ASSUME Inv, NEW cb, Answered(cb), pending' = Tail(pending)
    PROVE  \A c \in In(pending') : c \in In(pending)
<1>1. In(pending) = In(Tail(pending)) \cup {Head(pending)}
  BY AnsweredFacts
<1>. QED  BY <1>1

\* While a save is followed none is looked for.
LEMMA LookedAt ==
    ASSUME Inv, SlowInv, NEW joined, NEW cb, Answered(cb), pending' = Tail(pending),
           Head(pending).cb = "joined", Head(pending).use # "run",
           Follow(joined), ConsoleStays, UNCHANGED <<rom, wantDeathlink>>,
           Playing(gstate') => Playing(gstate),
           readBufferValid' =>
               /\ Playing(gstate')
               /\ \/ UNCHANGED <<readBuffer, readBufferValid, finishedBuffer>>
                  \/ readBuffer' = NoBuffer /\ finishedBuffer' = FALSE
    PROVE  SlowInv'
<1>1. astray' => Playing(gstate')
  BY DEF Follow
<1>2. Playing(gstate') /\ ~astray' => ~astray
  BY DEF Follow
<1>3. \A c \in In(pending') : c \in In(pending)
  BY PoppedQueue
<1>4. \A c \in In(pending) : IsFor(c, "run") => ~Playing(gstate)
  BY DEF SlowInv, RunWaits
<1>. QED  BY <1>1, <1>2, <1>3, <1>4, ClientSlow

LEMMA OnJoinedBeforeSlow ==
    ASSUME Inv, SlowInv, OnJoinedBefore
    PROVE  SlowInv'
<1>1. PICK joined \in JoinedReadings :
        /\ Answered("joined") /\ Head(pending).use = "before" /\ pending' = Tail(pending)
        /\ readBuffer' = NoBuffer /\ finishedBuffer' = FALSE
        /\ readBufferValid' = (joined /\ Playing(gstate))
        /\ IF ~joined /\ Playing(gstate) THEN Left ELSE UNCHANGED <<gstate, status>>
        /\ Follow(joined)
        /\ UNCHANGED <<rom, wantDeathlink>>
        /\ ConsoleStays
  BY DEF OnJoinedBefore
<1>2. Head(pending).cb = "joined"
  BY <1>1, AnsweredFacts
<1>3. /\ Playing(gstate') => Playing(gstate)
      /\ readBufferValid' => Playing(gstate')
  BY <1>1, Looks DEF Left, Playing
<1>. QED  BY <1>1, <1>2, <1>3, LookedAt

LEMMA OnJoinedAfterSlow ==
    ASSUME Inv, SlowInv, OnJoinedAfter
    PROVE  SlowInv'
<1>1. PICK joined \in JoinedReadings :
        /\ Answered("joined") /\ Head(pending).use = "after" /\ pending' = Tail(pending)
        /\ Checked(joined)
        /\ Follow(joined)
        /\ UNCHANGED <<rom, wantDeathlink>>
        /\ ConsoleStays
  BY DEF OnJoinedAfter
<1>2. Head(pending).cb = "joined"
  BY <1>1, AnsweredFacts
<1>3. /\ Playing(gstate') => Playing(gstate)
      /\ readBufferValid' =>
            Playing(gstate') /\ UNCHANGED <<readBuffer, readBufferValid, finishedBuffer>>
  <2>1. CASE Playing(gstate) /\ ~joined
    BY <1>1, <2>1 DEF Checked, Left, Invalidate, Playing
  <2>2. CASE Playing(gstate) /\ joined /\ readBufferValid
    BY <1>1, <2>2 DEF Checked, Apply, Invalidate
  <2>3. CASE ~Playing(gstate) \/ (joined /\ ~readBufferValid)
    <3>1. UNCHANGED <<gstate, readBuffer, readBufferValid, finishedBuffer>>
      BY <1>1, <2>3 DEF Checked, bufferVars
    <3>. QED  BY <3>1 DEF Inv, SnapshotFits
  <2>4. joined \in BOOLEAN /\ readBufferValid \in BOOLEAN
    BY Looks DEF Inv, BufferTyped
  <2>. QED  BY <2>1, <2>2, <2>3, <2>4
<1>. QED  BY <1>1, <1>2, <1>3, LookedAt

\* What a client is that took a callback from the queue and has read more.
LEMMA ReadSlow ==
    ASSUME Inv, SlowInv, NEW cb, Answered(cb), pending' = Tail(pending), BufferEarned',
           ConsoleStays, UNCHANGED <<gstate, rom, wantDeathlink, astray>>
    PROVE  SlowInv'
<1>1. \A c \in In(pending') : c \in In(pending)
  BY PoppedQueue
<1>2. AstrayPlays' /\ RomFollowed' /\ DeathlinkOfRom'
  BY FollowedSlow DEF SlowInv, AstrayPlays
<1>3. \A c \in In(pending) : IsFor(c, "run") => ~Playing(gstate)
  BY DEF SlowInv, RunWaits
<1>4. RunWaits' /\ SectionFits' /\ RunFits'
  BY <1>1, <1>3, QueueSlow
<1>. QED  BY <1>2, <1>4, ConsoleSlow DEF SlowInv

LEMMA OnBlockSlow ==
    ASSUME Inv, SlowInv, OnBlock
    PROVE  SlowInv'
<1> DEFINE b == Head(pending).block
<1>1. /\ Answered("block") /\ pending' = Tail(pending) /\ ConsoleStays
      /\ UNCHANGED <<gstate, rom, wantDeathlink, astray, readBufferValid, finishedBuffer>>
  BY DEF OnBlock, gameVars
<1>2. PICK value \in Readings(b) :
        readBuffer' = [x \in DOMAIN readBuffer \cup {b} |-> IF x = b THEN value ELSE readBuffer[x]]
  BY DEF OnBlock
<1> HIDE DEF b
<1>3. ASSUME readBufferValid, playing, ~astray
      PROVE  \A x \in DOMAIN readBuffer' : \A l \in readBuffer'[x] : <<cart, l>> \in earned
  <2>1. cart \in Roms
    BY <1>3 DEF Inv, SnapshotFits, SlowInv, RomFollowed
  <2>2. \A l \in value : <<cart, l>> \in earned
    BY <1>2, <1>3, <2>1 DEF Readings, SlowInv, RamEarned
  <2>3. \A x \in DOMAIN readBuffer : \A l \in readBuffer[x] : <<cart, l>> \in earned
    BY <1>3 DEF SlowInv, BufferEarned
  <2>4. /\ DOMAIN readBuffer' = DOMAIN readBuffer \cup {b}
        /\ \A x \in DOMAIN readBuffer' :
              readBuffer'[x] = IF x = b THEN value ELSE readBuffer[x]
    BY <1>2
  <2>. QED  BY <2>2, <2>3, <2>4
<1>4. BufferEarned'
  BY <1>1, <1>3 DEF SlowInv, BufferEarned, ConsoleStays
<1>. QED  BY <1>1, <1>4, ReadSlow

LEMMA OnFinishedSlow ==
    ASSUME Inv, SlowInv, OnFinished
    PROVE  SlowInv'
<1>1. /\ Answered("finished") /\ pending' = Tail(pending) /\ ConsoleStays
      /\ playing /\ cart \in Roms => finishedBuffer' = (Won \in ram)
      /\ UNCHANGED <<gstate, rom, wantDeathlink, astray, readBuffer, readBufferValid>>
  BY DEF OnFinished, gameVars
<1>2. ASSUME readBufferValid, playing, ~astray
      PROVE  finishedBuffer' => <<cart, Won>> \in earned
  <2>1. cart \in Roms
    BY <1>2 DEF Inv, SnapshotFits, SlowInv, RomFollowed
  <2>. QED  BY <1>1, <1>2, <2>1 DEF SlowInv, RamEarned
<1>3. BufferEarned'
  BY <1>1, <1>2 DEF SlowInv, BufferEarned, ConsoleStays
<1>. QED  BY <1>1, <1>3, ReadSlow

LEMMA LoadSaveSlow ==
    ASSUME SlowReload, Inv, SlowInv, LoadSave
    PROVE  SlowInv'
<1>1. /\ UNCHANGED <<gstate, rom, wantDeathlink, astray, readBuffer, readBufferValid,
                     finishedBuffer, pending, cart, earned, noticed>>
      /\ playing' = TRUE /\ cart # Other
      /\ \A f \in ram' : <<cart, f>> \in earned
      /\ ~playing => noticed \/ astray
  BY SlowReload DEF LoadSave, clientUnchanged, gameVars, bufferVars
<1>2. Playing(gstate) /\ ~astray => playing
  BY <1>1 DEF SlowInv, RomFollowed
<1>3. \A c \in In(pending) : IsFor(c, "run") => ~Playing(gstate) /\ noticed
  BY <1>1 DEF SlowInv, RunWaits, AstrayPlays
<1>4. NoSaveOfOther' /\ RamEarned' /\ NoticedIdle' /\ AstrayPlays'
  BY <1>1 DEF SlowInv, NoSaveOfOther, RamEarned, NoticedIdle, AstrayPlays
<1>5. RunWaits' /\ SectionFits' /\ RunFits'
  BY <1>1, <1>3 DEF SlowInv, RunWaits, SectionFits, RunFits
<1>6. RomFollowed' /\ DeathlinkOfRom'
  BY <1>1, <1>2 DEF SlowInv, RomFollowed, DeathlinkOfRom
<1>7. BufferEarned'
  BY <1>1, <1>2 DEF SlowInv, BufferEarned, Inv, SnapshotFits
<1>. QED  BY <1>4, <1>5, <1>6, <1>7 DEF SlowInv

LEMMA LeaveSlow ==
    ASSUME SlowInv, LeaveSave \/ SwapCart
    PROVE  SlowInv'
<1>1. /\ UNCHANGED <<gstate, rom, wantDeathlink, astray, readBuffer, readBufferValid,
                     finishedBuffer, pending, earned>>
      /\ playing' = FALSE /\ ram' = {}
      /\ noticed' <=> pending = <<>> /\ ~Playing(gstate)
  BY DEF LeaveSave, SwapCart, Unnoticed, clientUnchanged, gameVars, bufferVars
<1>2. In(<<>>) = {}
  BY DEF In
<1>3. NoSaveOfOther' /\ RamEarned' /\ NoticedIdle' /\ AstrayPlays'
  BY <1>1 DEF SlowInv, NoSaveOfOther, RamEarned, NoticedIdle, AstrayPlays
<1>4. RunWaits' /\ SectionFits' /\ RunFits'
  BY <1>1, <1>2 DEF SlowInv, RunWaits, SectionFits, RunFits
<1>5. RomFollowed' /\ DeathlinkOfRom' /\ BufferEarned'
  BY <1>1 DEF SlowInv, RomFollowed, DeathlinkOfRom, BufferEarned
<1>. QED  BY <1>3, <1>4, <1>5 DEF SlowInv

LEMMA EarnSlow ==
    ASSUME SlowInv, Earn
    PROVE  SlowInv'
<1>1. PICK f \in Flags \ ram :
        /\ ram' = ram \cup {f} /\ earned' = earned \cup {<<cart, f>>}
        /\ UNCHANGED <<cart, playing, noticed>>
  BY DEF Earn
<1>2. UNCHANGED <<gstate, rom, wantDeathlink, astray, readBuffer, readBufferValid,
                  finishedBuffer, pending>>
  BY DEF Earn, clientUnchanged, gameVars, bufferVars
<1>3. NoSaveOfOther' /\ RamEarned' /\ NoticedIdle' /\ AstrayPlays'
  BY <1>1, <1>2 DEF SlowInv, NoSaveOfOther, RamEarned, NoticedIdle, AstrayPlays
<1>4. RunWaits' /\ SectionFits' /\ RunFits'
  BY <1>1, <1>2 DEF SlowInv, RunWaits, SectionFits, RunFits
<1>5. RomFollowed' /\ DeathlinkOfRom' /\ BufferEarned'
  BY <1>1, <1>2 DEF SlowInv, RomFollowed, DeathlinkOfRom, BufferEarned
<1>. QED  BY <1>3, <1>4, <1>5 DEF SlowInv

LEMMA NextSlow == SlowReload /\ Inv /\ SlowInv /\ [Next]_vars => SlowInv'
<1>. SUFFICES ASSUME SlowReload, Inv, SlowInv, [Next]_vars PROVE SlowInv'
  OBVIOUS
<1>1. CASE \/ Connect \/ Poll
           \/ ConnectAp \/ SocketConnected \/ SyncCommand
           \/ DisconnectAp \/ SocketLost \/ SlotConnected
  BY <1>1, AloneSlow
<1>2. CASE Disconnect  BY <1>2, DisconnectSlow
<1>3. CASE RoomInfo  BY <1>3, RoomInfoSlow
<1>4. CASE OnHeader  BY <1>4, OnHeaderSlow
<1>5. CASE OnFlags  BY <1>5, OnFlagsSlow
<1>6. CASE OnSection  BY <1>6, OnSectionSlow
<1>7. CASE OnJoinedRun  BY <1>7, OnJoinedRunSlow
<1>8. CASE OnJoinedBefore  BY <1>8, OnJoinedBeforeSlow
<1>9. CASE OnBlock  BY <1>9, OnBlockSlow
<1>10. CASE OnFinished  BY <1>10, OnFinishedSlow
<1>11. CASE OnJoinedAfter  BY <1>11, OnJoinedAfterSlow
<1>12. CASE LoadSave  BY <1>12, LoadSaveSlow
<1>13. CASE LeaveSave \/ SwapCart  BY <1>13, LeaveSlow
<1>14. CASE Earn  BY <1>14, EarnSlow
<1>15. CASE UNCHANGED vars
  <2>1. UNCHANGED <<gstate, rom, wantDeathlink, astray, readBuffer, readBufferValid,
                    finishedBuffer, pending, cart, playing, ram, earned, noticed>>
    BY <1>15 DEF vars, gameVars, bufferVars, consoleVars
  <2>. QED
    BY <2>1 DEF SlowInv, NoSaveOfOther, RamEarned, NoticedIdle, AstrayPlays, RunWaits,
                SectionFits, RunFits, RomFollowed, DeathlinkOfRom, BufferEarned
<1>. QED
  BY <1>1, <1>2, <1>3, <1>4, <1>5, <1>6, <1>7, <1>8, <1>9, <1>10, <1>11, <1>12, <1>13, <1>14,
     <1>15 DEF Next

-----------------------------------------------------------------------------
(* The theorems of a slow console.                                          *)

LEMMA SlowInvariance ==
    ASSUME SlowReload
    PROVE  Spec => [](Inv /\ SlowInv)
<1>1. Init => Inv /\ SlowInv
  BY InitInv, InitSlow
<1>2. Inv /\ SlowInv /\ [Next]_vars => (Inv /\ SlowInv)'
  BY NextInv, NextSlow, SlowReload
<1>. QED  BY <1>1, <1>2, PTL DEF Spec

\* What passes the second check was earned in the ROM it is reported for, unless a look
\* was deceived.
LEMMA AppliedEarned ==
    ASSUME Inv, SlowInv, NEW joined \in JoinedReadings, Checked(joined), Follow(joined), ~astray'
    PROVE  reported' \ reported \subseteq earned
<1>1. CASE Playing(gstate) /\ joined /\ readBufferValid
  <2>1. Apply  BY <1>1 DEF Checked
  <2>2. Playing(gstate')  BY <1>1, <2>1 DEF Apply, Playing
  <2>3. ~astray /\ playing
    BY <1>1, <2>2 DEF Follow
  <2>4. cart = rom
    BY <1>1, <2>3 DEF SlowInv, RomFollowed
  <2>5. \A l \in Fresh : <<rom, l>> \in earned
    BY <1>1, <2>3, <2>4 DEF Fresh, SlowInv, BufferEarned
  <2>6. finishedBuffer => <<rom, Won>> \in earned
    BY <1>1, <2>3, <2>4 DEF SlowInv, BufferEarned
  <2>. QED  BY <2>1, <2>5, <2>6 DEF Apply
<1>2. CASE ~(Playing(gstate) /\ joined /\ readBufferValid)
  BY <1>2 DEF Checked
<1>. QED  BY <1>1, <1>2

LEMMA ToldStep ==
    ASSUME Inv, SlowInv, [Next]_vars
    PROVE  astray' \/ reported' \ reported \subseteq earned
<1>1. CASE OnJoinedAfter
  BY <1>1, AppliedEarned DEF OnJoinedAfter
<1>2. CASE ~OnJoinedAfter
  <2>1. reported' \subseteq reported
    BY <1>2 DEF Next, Connect, Disconnect, ConnectAp, DisconnectAp, SyncCommand, SocketConnected,
       SocketLost, RoomInfo, SlotConnected, Poll, OnHeader, OnFlags, OnSection, OnJoinedRun,
       OnJoinedBefore, OnBlock, OnFinished, LoadSave, LeaveSave, Earn, SwapCart, clientUnchanged,
       vars
  <2>. QED  BY <2>1
<1>. QED  BY <1>1, <1>2

\* Archipelago is told only what the player did, and for the ROM it was done in, as long as
\* not every look at the memory is deceived: the two checks around a batch and the
\* verification of the ROM are enough, for every set of ROMs, locations and blocks,
\* whatever the room does.
THEOREM ReportsCorrect ==
    ASSUME SlowReload
    PROVE  Spec => ReportedIsEarned
<1>1. Inv /\ SlowInv /\ [Next]_vars => [astray' \/ reported' \ reported \subseteq earned]_vars
  BY ToldStep
<1>. QED  BY <1>1, SlowInvariance, PTL DEF Spec, ReportedIsEarned

\* The game takes part in death link exactly if the ROM being played does.
THEOREM DeathlinkCorrect ==
    ASSUME SlowReload
    PROVE  Spec => []DeathlinkOfRom
<1>1. SlowInv => DeathlinkOfRom
  BY DEF SlowInv
<1>. QED  BY <1>1, SlowInvariance, PTL

-----------------------------------------------------------------------------
(* The invariant of a calm console: besides, no memory passes for a save, and a    *)
(* room does not interrupt a game that is joining.  Then Game implements GamePhases. *)

CalmConsole == SlowReload /\ ~GarbageJoins /\ QuietRoom

\* Only a ROM is verified.
VerifiedRom == \A c \in In(pending) : IsFor(c, "verify") /\ gstate # "STOPPED" => rom \in Roms

CalmInv == ~astray /\ VerifiedRom

\* A step of Game is a step of GamePhases, or none.
PhaseStep == [Phases!Next]_(Phases!phaseVars)

LEMMA NoPhaseStep ==
    ASSUME UNCHANGED <<gstate, rom, cart, playing>>
    PROVE  PhaseStep
BY DEF PhaseStep, Phases!phaseVars

\* A client that was reset.
LEMMA ResetPhase ==
    ASSUME gstate' = "STOPPED", rom' = NoRom, UNCHANGED <<cart, playing>>
    PROVE  PhaseStep
BY DEF PhaseStep, Phases!Next, Phases!Reset

\* The bits say whether a save is played.
LEMMA JoinedSeen ==
    ASSUME CalmConsole, Inv, NEW joined \in JoinedReadings
    PROVE  joined = playing
<1>1. playing \in BOOLEAN /\ GarbageJoins = FALSE
  BY TimingAssumption DEF CalmConsole, Inv, ConsoleTyped
<1>2. CASE playing = TRUE  BY <1>2 DEF JoinedReadings
<1>3. CASE playing = FALSE  BY <1>1, <1>3 DEF JoinedReadings
<1>. QED  BY <1>1, <1>2, <1>3

\* What is verified after a step was before, or is the game that is followed.
LEMMA VerifiedKept ==
    ASSUME SlowInv, CalmInv, ~astray', UNCHANGED rom,
           gstate' # "STOPPED" => gstate # "STOPPED",
           \A c \in In(pending') : IsFor(c, "verify") =>
               Playing(gstate) \/ \E d \in In(pending) : IsFor(d, "verify")
    PROVE  CalmInv'
BY DEF CalmInv, VerifiedRom, SlowInv, RomFollowed

LEMMA InitCalm == Init => CalmInv /\ Phases!Init
<1>. SUFFICES ASSUME Init PROVE CalmInv /\ Phases!Init
  OBVIOUS
<1>1. pending = <<>> /\ In(pending) = {}
  BY DEF Init, In
<1>2. CalmInv
  BY <1>1 DEF Init, CalmInv, VerifiedRom
<1>3. Phases!Init
  BY DEF Init, Carts, Phases!Init
<1>. QED  BY <1>2, <1>3

LEMMA DisconnectCalm ==
    ASSUME Disconnect
    PROVE  CalmInv' /\ PhaseStep
<1>1. /\ gstate' = "STOPPED" /\ rom' = NoRom /\ ~astray' /\ UNCHANGED <<cart, playing>>
  BY DEF Disconnect, Reset, ConsoleStays
<1>. QED  BY <1>1, ResetPhase DEF CalmInv, VerifiedRom

\* A game that was won is followed again as if it were not.
LEMMA ForgetCalm ==
    ASSUME SlowInv, CalmInv, ConnectAp \/ SocketConnected \/ SyncCommand
    PROVE  CalmInv' /\ PhaseStep
<1>1. /\ Forget
      /\ UNCHANGED <<rom, astray, pending, cart, playing>>
  BY DEF ConnectAp, SocketConnected, SyncCommand, ConsoleStays
<1>2. CalmInv'
  BY <1>1, VerifiedKept DEF Forget, CalmInv
<1>3. CASE gstate = "FINISHED"
  <2>1. gstate' = "JOINED"  BY <1>1, <1>3 DEF Forget
  <2>. QED  BY <1>1, <1>2, <1>3, <2>1 DEF PhaseStep, Phases!Next, Phases!Reopen
<1>4. CASE gstate # "FINISHED"
  <2>1. UNCHANGED gstate  BY <1>1, <1>4 DEF Forget
  <2>. QED  BY <1>1, <1>2, <2>1, NoPhaseStep
<1>. QED  BY <1>3, <1>4

LEMMA RoomInfoCalm ==
    ASSUME SlowInv, CalmInv, RoomInfo
    PROVE  CalmInv' /\ PhaseStep
<1>1. UNCHANGED <<pending, cart, playing>>
  BY DEF RoomInfo, ConsoleStays
<1>2. CASE rom \in rejected'
  <2>1. gstate' = "STOPPED" /\ rom' = NoRom /\ ~astray'
    BY <1>2 DEF RoomInfo, Reset
  <2>. QED  BY <1>1, <2>1, ResetPhase DEF CalmInv, VerifiedRom
<1>3. CASE rom \notin rejected'
  <2>1. UNCHANGED <<gstate, rom, astray>>
    BY <1>3 DEF RoomInfo
  <2>. QED  BY <1>1, <2>1, VerifiedKept, NoPhaseStep DEF CalmInv
<1>. QED  BY <1>2, <1>3

\* The game is left alone; a poll verifies only a game that is followed.
LEMMA AloneCalm ==
    ASSUME Inv, SlowInv, CalmInv,
           \/ Connect \/ Poll \/ DisconnectAp \/ SocketLost \/ SlotConnected
           \/ UNCHANGED vars
    PROVE  CalmInv' /\ PhaseStep
<1>1. UNCHANGED <<gstate, rom, astray, cart, playing>>
  BY DEF Connect, Poll, DisconnectAp, SocketLost, SlotConnected, GameStays, ConsoleStays, vars,
         gameVars, consoleVars
<1>2. CASE Poll
  <2>1. pending' = Batch /\ gstate \in States
    BY <1>2 DEF Poll, Inv, GameTyped
  <2>2. \A c \in In(pending') : IsFor(c, "verify") => Playing(gstate)
    BY <2>1, BatchFacts DEF IsFor, Header, States, Playing
  <2>. QED  BY <1>1, <2>2, VerifiedKept, NoPhaseStep DEF CalmInv
<1>3. CASE UNCHANGED pending
  BY <1>1, <1>3, VerifiedKept, NoPhaseStep DEF CalmInv
<1>. QED
  BY <1>2, <1>3 DEF Connect, DisconnectAp, SocketLost, SlotConnected, vars

-----------------------------------------------------------------------------
(* The callbacks that learn the ROM.                                        *)

\* The game that is found is the one that runs, or it is rejected.
LEMMA StartIdentifiedCalm ==
    ASSUME Inv, SlowInv, CalmInv, NEW cb \in {"header", "section"}, Answered(cb),
           NEW r, r = cart \/ (cart \in {Vanilla, Other} /\ r = NoRom), r # Vanilla, NEW dl,
           Head(pending).use = "start", StartIdentified(r, dl), ConsoleStays,
           pending' = Tail(pending) \o ReadsAfter("start", r)
    PROVE  CalmInv' /\ PhaseStep
<1>1. In(pending') = {} /\ gstate = "STOPPED" /\ UNCHANGED <<cart, playing>>
  BY IdentifiedQueue DEF ConsoleStays
<1>2. ~astray'
  BY DEF CalmInv, StartIdentified, Started, Reset, GameStays, gameVars
<1>3. CalmInv'
  BY <1>1, <1>2 DEF CalmInv, VerifiedRom
<1>4. CASE r = NoRom
  BY <1>1, <1>3, <1>4, NoPhaseStep DEF StartIdentified, GameStays, gameVars
<1>5. CASE r # NoRom /\ r \in rejected
  <2>1. gstate' = "STOPPED" /\ rom' = NoRom
    BY <1>1, <1>5 DEF StartIdentified, Started, Reset
  <2>. QED  BY <1>1, <1>3, <2>1, ResetPhase
<1>6. CASE r # NoRom /\ r \notin rejected
  <2>1. gstate' = "RUNNING" /\ rom' = r /\ r = cart
    BY <1>1, <1>6 DEF StartIdentified, Started
  <2>. QED  BY <1>1, <1>3, <2>1 DEF PhaseStep, Phases!Next, Phases!Start
<1>. QED  BY <1>4, <1>5, <1>6

LEMMA RunIdentifiedCalm ==
    ASSUME CalmConsole, Inv, SlowInv, CalmInv, NEW cb \in {"header", "section"}, Answered(cb),
           NEW r, NEW dl,
           Head(pending).use = "run", RunIdentified(r, dl), ConsoleStays,
           pending' = Tail(pending) \o ReadsAfter("run", r)
    PROVE  CalmInv' /\ PhaseStep
<1>1. In(pending') \subseteq {Joined("run")} /\ UNCHANGED <<cart, playing, astray>>
  BY IdentifiedQueue DEF ConsoleStays, RunIdentified
<1>2. CalmInv'
  BY <1>1 DEF CalmInv, VerifiedRom, IsFor, Joined
<1>3. CASE r # rom
  <2>1. gstate' = "STOPPED" /\ rom' = NoRom
    BY <1>3 DEF RunIdentified
  <2>. QED  BY <1>1, <1>2, <2>1, ResetPhase
<1>4. CASE r = rom
  BY <1>1, <1>2, <1>4, NoPhaseStep DEF RunIdentified
<1>. QED  BY <1>3, <1>4

\* A game is left only if another one runs.
LEMMA VerifyIdentifiedCalm ==
    ASSUME Inv, SlowInv, CalmInv, NEW cb \in {"header", "section"}, Answered(cb),
           NEW r, r = cart \/ (cart \in {Vanilla, Other} /\ r = NoRom), NEW dl,
           Head(pending).use = "verify", VerifyIdentified(r, dl), ConsoleStays,
           pending' = Tail(pending) \o ReadsAfter("verify", r)
    PROVE  CalmInv' /\ PhaseStep
<1>1. /\ Joined("run") \notin In(pending')
      /\ \A c \in In(pending') : c \in In(pending)
      /\ gstate # "STOPPED" => rom \in Roms
      /\ UNCHANGED <<cart, playing>>
  BY IdentifiedQueue DEF ConsoleStays, CalmInv, VerifiedRom
<1>2. UNCHANGED rom /\ ~astray' /\ (gstate' # "STOPPED" => gstate # "STOPPED")
  BY DEF VerifyIdentified, GameStays, gameVars, CalmInv
<1>3. CalmInv'
  BY <1>1, <1>2, VerifiedKept
<1>4. CASE ~(r # NoRom /\ r = rom) /\ gstate \in {"JOINED", "RUNNING"}
  <2>1. gstate' = "STOPPED"
    BY <1>4 DEF VerifyIdentified
  <2>2. cart # rom
    BY <1>1, <1>4, RomAssumption
  <2>. QED  BY <1>1, <1>2, <1>3, <2>1, <2>2 DEF PhaseStep, Phases!Next, Phases!Stop
<1>5. CASE (r # NoRom /\ r = rom) \/ gstate \notin {"JOINED", "RUNNING"}
  <2>1. UNCHANGED gstate
    BY <1>5 DEF VerifyIdentified, GameStays, gameVars
  <2>. QED  BY <1>1, <1>2, <1>3, <2>1, NoPhaseStep
<1>. QED  BY <1>4, <1>5

LEMMA IdentifiedCalm ==
    ASSUME CalmConsole, Inv, SlowInv, CalmInv, NEW cb \in {"header", "section"}, Answered(cb),
           NEW r, r = cart \/ (cart \in {Vanilla, Other} /\ r = NoRom), r # Vanilla, NEW dl,
           Identified(Head(pending).use, r, dl), ConsoleStays,
           pending' = Tail(pending) \o ReadsAfter(Head(pending).use, r)
    PROVE  CalmInv' /\ PhaseStep
<1>1. CASE Head(pending).use = "start"
  BY <1>1, StartIdentifiedCalm DEF Identified
<1>2. CASE Head(pending).use = "run"
  BY <1>2, RunIdentifiedCalm DEF Identified
<1>3. CASE Head(pending).use = "verify"
  BY <1>3, VerifyIdentifiedCalm DEF Identified
<1>. QED  BY <1>1, <1>2, <1>3, IdentifiedQueue DEF Uses

\* The read that is chained is for the same use.
LEMMA ChainedCalm ==
    ASSUME Inv, SlowInv, CalmInv, NEW cb \in {"header", "flags"}, Answered(cb),
           NEW x \in Callbacks, IsFor(x, "verify") => IsFor(Head(pending), "verify"),
           pending' = Append(Tail(pending), x), GameStays, ConsoleStays
    PROVE  CalmInv' /\ PhaseStep
<1>1. UNCHANGED <<gstate, rom, astray, cart, playing>>
  BY DEF GameStays, gameVars, ConsoleStays
<1>2. /\ Head(pending) \in In(pending)
      /\ Tail(pending) \in Seq(Callbacks) /\ In(pending) = In(Tail(pending)) \cup {Head(pending)}
  BY AnsweredFacts
<1>3. In(pending') = In(Tail(pending)) \cup {x}
  BY <1>2, InAppend
<1>4. \A c \in In(pending') : IsFor(c, "verify") => \E d \in In(pending) : IsFor(d, "verify")
  BY <1>2, <1>3
<1>. QED  BY <1>1, <1>4, VerifiedKept, NoPhaseStep DEF CalmInv

LEMMA OnHeaderCalm ==
    ASSUME CalmConsole, Inv, SlowInv, CalmInv, OnHeader
    PROVE  CalmInv' /\ PhaseStep
<1>1. Answered("header") /\ ConsoleStays
  BY DEF OnHeader
<1>2. CASE cart = Other
  <2>1. /\ Identified(Head(pending).use, NoRom, FALSE)
        /\ pending' = Tail(pending) \o ReadsAfter(Head(pending).use, NoRom)
    BY <1>2 DEF OnHeader
  <2>2. NoRom # Vanilla
    BY RomAssumption
  <2>. QED  BY <1>1, <1>2, <2>1, <2>2, IdentifiedCalm
<1>3. CASE cart # Other
  <2>1. pending' = Append(Tail(pending), FlagByte(Head(pending).use)) /\ GameStays
    BY <1>3 DEF OnHeader
  <2>2. Head(pending) \in Callbacks /\ Head(pending).cb = "header"
    BY <1>1, AnsweredFacts
  <2>3. FlagByte(Head(pending).use) \in Callbacks
    BY <2>2, CallbackFields, CallbacksMade
  <2>4. IsFor(FlagByte(Head(pending).use), "verify") => IsFor(Head(pending), "verify")
    BY <2>2 DEF FlagByte, IsFor
  <2>. QED  BY <1>1, <2>1, <2>3, <2>4, ChainedCalm
<1>. QED  BY <1>2, <1>3

LEMMA OnFlagsCalm ==
    ASSUME Inv, SlowInv, CalmInv, OnFlags
    PROVE  CalmInv' /\ PhaseStep
<1> DEFINE x == Section(Head(pending).use, cart \in DeathlinkRoms)
<1>1. /\ Answered("flags") /\ pending' = Append(Tail(pending), x) /\ ConsoleStays /\ GameStays
  BY DEF OnFlags
<1>2. Head(pending) \in Callbacks /\ Head(pending).cb = "flags"
  BY <1>1, AnsweredFacts
<1>3. Head(pending).use \in Uses /\ (cart \in DeathlinkRoms) \in BOOLEAN
  BY <1>2, CallbackFields
<1>4. x \in Callbacks
  BY <1>3, CallbacksMade
<1>5. IsFor(x, "verify") => IsFor(Head(pending), "verify")
  BY <1>2 DEF Section, IsFor
<1> HIDE DEF x
<1>. QED  BY <1>1, <1>4, <1>5, ChainedCalm

LEMMA OnSectionCalm ==
    ASSUME CalmConsole, Inv, SlowInv, CalmInv, OnSection
    PROVE  CalmInv' /\ PhaseStep
<1>1. /\ Answered("section") /\ ConsoleStays
      /\ Identified(Head(pending).use, SectionOf(cart), Head(pending).deathlink)
      /\ pending' = Tail(pending) \o ReadsAfter(Head(pending).use, SectionOf(cart))
  BY DEF OnSection
<1>2. /\ SectionOf(cart) = cart \/ (cart \in {Vanilla, Other} /\ SectionOf(cart) = NoRom)
      /\ SectionOf(cart) # Vanilla
  BY RomAssumption DEF SectionOf
<1>. QED  BY <1>1, <1>2, IdentifiedCalm

-----------------------------------------------------------------------------
(* The callbacks that follow the play.                                      *)

\* The save that is found is one of the ROM.
LEMMA OnJoinedRunCalm ==
    ASSUME CalmConsole, Inv, SlowInv, CalmInv, OnJoinedRun
    PROVE  CalmInv' /\ PhaseStep
<1>1. PICK joined \in JoinedReadings :
        /\ Answered("joined") /\ Head(pending).use = "run" /\ pending' = Tail(pending)
        /\ IF joined /\ ~Playing(gstate)
           THEN gstate' = "JOINED"
           ELSE UNCHANGED gstate
        /\ Follow(joined)
        /\ UNCHANGED rom
        /\ ConsoleStays
  BY DEF OnJoinedRun
<1>2. /\ Head(pending) = Joined("run") /\ Head(pending) \in In(pending)
      /\ IsFor(Head(pending), "run") /\ In(pending') = {}
  BY <1>1, AnsweredFacts, CallbackFields DEF IsFor
<1>3. gstate = "RUNNING" /\ rom # NoRom
  BY <1>2 DEF CalmConsole, Inv, KnowsRom
<1>4. joined = playing /\ playing \in BOOLEAN /\ UNCHANGED <<cart, playing>>
  BY <1>1, JoinedSeen DEF ConsoleStays, Inv, ConsoleTyped
<1>5. CASE playing
  <2>1. gstate' = "JOINED"  BY <1>1, <1>3, <1>4, <1>5 DEF Playing
  <2>2. cart = rom
    BY <1>2, <1>3, <1>5 DEF SlowInv, RunWaits, RunFits
  <2>3. rom \in Roms
    BY <1>3, <1>5, <2>2, RomAssumption DEF Inv, GameTyped, ConsoleTyped, SlowInv, NoSaveOfOther, Carts
  <2>4. CalmInv'
    BY <1>1, <1>2, <1>5, <2>3 DEF CalmInv, VerifiedRom, Follow
  <2>. QED  BY <1>1, <1>3, <1>4, <1>5, <2>1, <2>2, <2>4 DEF PhaseStep, Phases!Next, Phases!Join
<1>6. CASE ~playing
  <2>1. UNCHANGED gstate /\ ~Playing(gstate')
    BY <1>1, <1>3, <1>4, <1>6 DEF Playing
  <2>2. CalmInv'
    BY <1>1, <1>2, <2>1 DEF CalmInv, VerifiedRom, Follow
  <2>. QED  BY <1>1, <1>4, <2>1, <2>2, NoPhaseStep
<1>. QED  BY <1>5, <1>6

\* A look at a save that is followed is not deceived.
LEMMA LookCalm ==
    ASSUME CalmConsole, Inv, SlowInv, CalmInv, NEW joined \in JoinedReadings, Follow(joined),
           NEW cb, Answered(cb), pending' = Tail(pending), UNCHANGED rom, ConsoleStays,
           Playing(gstate') => Playing(gstate), gstate' # "STOPPED" => gstate # "STOPPED"
    PROVE  CalmInv' /\ joined = playing /\ UNCHANGED <<cart, playing>>
<1>1. joined = playing /\ UNCHANGED <<cart, playing>>
  BY JoinedSeen DEF ConsoleStays
<1>2. Playing(gstate') => rom \in Roms
  BY DEF CalmInv, SlowInv, RomFollowed
<1>3. ~astray'
  BY <1>1, <1>2 DEF Follow, CalmInv
<1>4. \A c \in In(pending') : c \in In(pending)
  BY PoppedQueue
<1>. QED  BY <1>1, <1>3, <1>4, VerifiedKept

\* The player was seen to leave the save.
LEMMA LeavePhase ==
    ASSUME Playing(gstate), ~playing, gstate' = "RUNNING", UNCHANGED <<rom, cart, playing>>
    PROVE  PhaseStep
BY DEF PhaseStep, Phases!Next, Phases!Leave, Playing, Phases!Playing

LEMMA OnJoinedBeforeCalm ==
    ASSUME CalmConsole, Inv, SlowInv, CalmInv, OnJoinedBefore
    PROVE  CalmInv' /\ PhaseStep
<1>1. PICK joined \in JoinedReadings :
        /\ Answered("joined") /\ pending' = Tail(pending)
        /\ IF ~joined /\ Playing(gstate) THEN Left ELSE UNCHANGED <<gstate, status>>
        /\ Follow(joined)
        /\ UNCHANGED rom
        /\ ConsoleStays
  BY DEF OnJoinedBefore
<1>2. (Playing(gstate') => Playing(gstate)) /\ (gstate' # "STOPPED" => gstate # "STOPPED")
  BY <1>1 DEF Left, Playing
<1>3. CalmInv' /\ joined = playing /\ UNCHANGED <<cart, playing>>
  BY <1>1, <1>2, LookCalm
<1>4. CASE ~joined /\ Playing(gstate)
  BY <1>1, <1>3, <1>4, LeavePhase DEF Left
<1>5. CASE ~(~joined /\ Playing(gstate))
  BY <1>1, <1>3, <1>5, NoPhaseStep
<1>. QED  BY <1>4, <1>5

LEMMA OnJoinedAfterCalm ==
    ASSUME CalmConsole, Inv, SlowInv, CalmInv, OnJoinedAfter
    PROVE  CalmInv' /\ PhaseStep
<1>1. PICK joined \in JoinedReadings :
        /\ Answered("joined") /\ pending' = Tail(pending)
        /\ Checked(joined)
        /\ Follow(joined)
        /\ UNCHANGED rom
        /\ ConsoleStays
  BY DEF OnJoinedAfter
<1>2. joined \in BOOLEAN /\ readBufferValid \in BOOLEAN
  BY Looks DEF Inv, BufferTyped
<1>3. \/ Playing(gstate) /\ ~joined /\ gstate' = "RUNNING"
      \/ Playing(gstate) /\ joined /\ gstate = "JOINED" /\ gstate' = "FINISHED"
      \/ UNCHANGED gstate
  <2>1. CASE Playing(gstate) /\ ~joined
    BY <1>1, <2>1 DEF Checked, Left
  <2>2. CASE Playing(gstate) /\ joined /\ readBufferValid
    BY <1>1, <2>2 DEF Checked, Apply, Playing
  <2>3. CASE ~Playing(gstate) \/ (joined /\ ~readBufferValid)
    BY <1>1, <2>3 DEF Checked
  <2>. QED  BY <1>2, <2>1, <2>2, <2>3
<1>4. CalmInv' /\ joined = playing /\ UNCHANGED <<cart, playing>>
  <2>1. (Playing(gstate') => Playing(gstate)) /\ (gstate' # "STOPPED" => gstate # "STOPPED")
    BY <1>3 DEF Playing
  <2>. QED  BY <1>1, <2>1, LookCalm
<1>5. CASE Playing(gstate) /\ ~joined /\ gstate' = "RUNNING"
  BY <1>1, <1>4, <1>5, LeavePhase
<1>6. CASE joined /\ gstate = "JOINED" /\ gstate' = "FINISHED"
  BY <1>1, <1>4, <1>6 DEF PhaseStep, Phases!Next, Phases!Finish
<1>7. CASE UNCHANGED gstate
  BY <1>1, <1>4, <1>7, NoPhaseStep
<1>. QED  BY <1>3, <1>4, <1>5, <1>6, <1>7

\* The blocks and the won flag are read into the buffer.
LEMMA ReadCalm ==
    ASSUME Inv, SlowInv, CalmInv, OnBlock \/ OnFinished
    PROVE  CalmInv' /\ PhaseStep
<1>1. /\ pending' = Tail(pending) /\ \E cb : Answered(cb)
      /\ UNCHANGED <<gstate, rom, astray, cart, playing>>
  BY DEF OnBlock, OnFinished, gameVars, ConsoleStays
<1>2. \A c \in In(pending') : c \in In(pending)
  BY <1>1, PoppedQueue
<1>. QED  BY <1>1, <1>2, VerifiedKept, NoPhaseStep DEF CalmInv

\* The player loads a save only where the client follows none.
LEMMA PlayerCalm ==
    ASSUME CalmConsole, Inv, SlowInv, CalmInv, LoadSave \/ LeaveSave \/ Earn \/ SwapCart
    PROVE  CalmInv' /\ PhaseStep
<1>1. UNCHANGED <<gstate, rom, astray, pending>>
  BY DEF LoadSave, LeaveSave, Earn, SwapCart, clientUnchanged, gameVars
<1>2. CalmInv'
  BY <1>1, VerifiedKept DEF CalmInv
<1>3. CASE LoadSave /\ playing
  <2>1. UNCHANGED <<cart, playing>>
    BY <1>3 DEF LoadSave, Inv, ConsoleTyped
  <2>. QED  BY <1>1, <1>2, <2>1, NoPhaseStep
<1>4. CASE LoadSave /\ ~playing
  <2>1. noticed /\ cart # Other /\ playing' = TRUE /\ UNCHANGED cart
    BY <1>4 DEF LoadSave, CalmConsole, CalmInv
  <2>2. ~Playing(gstate)
    BY <1>4, <2>1 DEF SlowInv, RomFollowed, CalmInv
  <2>. QED  BY <1>1, <1>2, <1>4, <2>1, <2>2 DEF PhaseStep, Phases!Next, Phases!Load, Phases!Playing, Playing
<1>5. CASE LeaveSave \/ SwapCart
  BY <1>1, <1>2, <1>5 DEF LeaveSave, SwapCart, Carts, PhaseStep, Phases!Next, Phases!Quit,
                          Phases!SwapCart
<1>6. CASE Earn
  BY <1>1, <1>2, <1>6, NoPhaseStep DEF Earn
<1>. QED  BY <1>3, <1>4, <1>5, <1>6

LEMMA NextCalm == CalmConsole /\ Inv /\ SlowInv /\ CalmInv /\ [Next]_vars => CalmInv' /\ PhaseStep
<1>. SUFFICES ASSUME CalmConsole, Inv, SlowInv, CalmInv, [Next]_vars PROVE CalmInv' /\ PhaseStep
  OBVIOUS
<1>1. CASE Connect \/ Poll \/ DisconnectAp \/ SocketLost \/ SlotConnected \/ UNCHANGED vars
  BY <1>1, AloneCalm
<1>2. CASE Disconnect  BY <1>2, DisconnectCalm
<1>3. CASE ConnectAp \/ SocketConnected \/ SyncCommand  BY <1>3, ForgetCalm
<1>4. CASE RoomInfo  BY <1>4, RoomInfoCalm
<1>5. CASE OnHeader  BY <1>5, OnHeaderCalm
<1>6. CASE OnFlags  BY <1>6, OnFlagsCalm
<1>7. CASE OnSection  BY <1>7, OnSectionCalm
<1>8. CASE OnJoinedRun  BY <1>8, OnJoinedRunCalm
<1>9. CASE OnJoinedBefore  BY <1>9, OnJoinedBeforeCalm
<1>10. CASE OnBlock \/ OnFinished  BY <1>10, ReadCalm
<1>11. CASE OnJoinedAfter  BY <1>11, OnJoinedAfterCalm
<1>12. CASE LoadSave \/ LeaveSave \/ Earn \/ SwapCart  BY <1>12, PlayerCalm
<1>. QED
  BY <1>1, <1>2, <1>3, <1>4, <1>5, <1>6, <1>7, <1>8, <1>9, <1>10, <1>11, <1>12 DEF Next

\* Game implements the phases that the item half and the Archipelago handlers build on, on a
\* calm console: memory that passes for a save, and a room that interrupts a game that is
\* joining, are outside of what GamePhases promises.
THEOREM PhasesImplemented ==
    ASSUME CalmConsole
    PROVE  Spec => ImplementsPhases
<1>1. Init => Inv /\ SlowInv /\ CalmInv /\ Phases!Init
  BY InitInv, InitSlow, InitCalm
<1>2. Inv /\ SlowInv /\ CalmInv /\ [Next]_vars =>
        (Inv /\ SlowInv /\ CalmInv)' /\ [Phases!Next]_(Phases!phaseVars)
  BY NextInv, NextSlow, NextCalm, CalmConsole DEF CalmConsole, PhaseStep
<1>. QED  BY <1>1, <1>2, PTL DEF Spec, ImplementsPhases, Phases!Spec

=============================================================================
