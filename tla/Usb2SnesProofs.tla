--------------------------- MODULE Usb2SnesProofs ---------------------------
(***************************************************************************)
(* Proofs about Usb2Snes, for every configured URI, every set of memory     *)
(* blocks and every interval: the type invariant, and the safety invariants *)
(* that tie the state to the socket, to the colour shown, and to the queue  *)
(* of pending messages.  The queue is drained in one step, so everything    *)
(* about it rests on the lemma DrainProperties.                             *)
(***************************************************************************)
EXTENDS Usb2Snes, TLAPS, WellFoundedInduction, SequenceTheorems

\* A nonempty set of natural numbers has a least element, and Min is that element.
LEMMA MinOfNats ==
    ASSUME NEW S \in SUBSET Nat, S # {}
    PROVE  Min(S) \in S /\ \A y \in S : Min(S) <= y
<1>1. \E x \in S : \A y \in S : ~ (<<y, x>> \in OpToRel(<, Nat))
  BY NatLessThanWellFounded, WFMin
<1>2. \E x \in S : \A y \in S : x <= y
  <2>1. PICK x \in S : \A y \in S : ~ (<<y, x>> \in OpToRel(<, Nat))
    BY <1>1
  <2>2. \A y \in S : ~ (y < x)
    BY <2>1, Zenon DEF OpToRel
  <2>. QED  BY <2>2, SMT
<1>. QED  BY <1>2 DEF Min

\* Draining cuts off the messages before the first one that expects a response.
LEMMA DrainProperties ==
    ASSUME NEW queue \in Seq(TxItem)
    PROVE  \/ /\ Drain(queue) = <<>>
              /\ \A i \in 1..Len(queue) : ~ExpectsResponse(queue[i])
           \/ \E n \in 1..Len(queue) :
                /\ Drain(queue) = SubSeq(queue, n, Len(queue))
                /\ ExpectsResponse(queue[n])
                /\ \A i \in 1..(n - 1) : ~ExpectsResponse(queue[i])
<1> DEFINE I == {i \in 1..Len(queue) : ExpectsResponse(queue[i])}
           first == SelectInSeq(queue, ExpectsResponse)
<1>1. Len(queue) \in Nat
  OBVIOUS
<1>2. CASE I = {}
  <2>1. first = 0
    BY <1>2, Zenon DEF SelectInSeq
  <2>2. Drain(queue) = <<>>
    BY <2>1 DEF Drain
  <2>. QED  BY <2>2, <1>2
<1>3. CASE I # {}
  <2>1. first = Min(I)
    BY <1>3, Zenon DEF SelectInSeq
  <2> I \in SUBSET Nat
    BY <1>1
  <2> HIDE DEF I, first
  <2>2. first \in I /\ \A y \in I : first <= y
    BY <2>1, <1>3, MinOfNats
  <2> USE DEF I
  <2>3. first # 0
    BY <2>2, <1>1
  <2>4. Drain(queue) = SubSeq(queue, first, Len(queue))
    BY <2>3, Zenon DEF Drain, first
  <2>5. \A i \in 1..(first - 1) : ~ExpectsResponse(queue[i])
    BY <2>2, <1>1
  <2>. QED  BY <2>2, <2>4, <2>5
<1>. QED  BY <1>2, <1>3

\* What the rest of the proof uses of Drain: the result is a queue of messages of the
\* old one, its head expects a response, nothing is left if nothing did, and
\* a last message that alone expects one is all that is left.
LEMMA DrainFacts ==
    ASSUME NEW queue \in Seq(TxItem)
    PROVE  /\ Drain(queue) \in Seq(TxItem)
           /\ Drain(queue) # <<>> => ExpectsResponse(Head(Drain(queue)))
           /\ \A i \in 1..Len(Drain(queue)) : \E j \in 1..Len(queue) :
                 Drain(queue)[i] = queue[j]
           /\ (\A i \in 1..Len(queue) : ~ExpectsResponse(queue[i])) => Drain(queue) = <<>>
           /\ queue # <<>> /\ ExpectsResponse(queue[Len(queue)])
                /\ (\A i \in 1..(Len(queue) - 1) : ~ExpectsResponse(queue[i]))
                => Drain(queue) = <<queue[Len(queue)]>>
<1>1. Len(queue) \in Nat /\ \A i \in 1..Len(queue) : queue[i] \in TxItem
  BY ElementOfSeq
<1>2. CASE /\ Drain(queue) = <<>>
           /\ \A i \in 1..Len(queue) : ~ExpectsResponse(queue[i])
  <2>1. queue # <<>> => Len(queue) \in 1..Len(queue)
    BY <1>1, EmptySeq
  <2>. QED  BY <1>2, <2>1, EmptySeq
<1>3. CASE \E n \in 1..Len(queue) :
             /\ Drain(queue) = SubSeq(queue, n, Len(queue))
             /\ ExpectsResponse(queue[n])
             /\ \A i \in 1..(n - 1) : ~ExpectsResponse(queue[i])
  <2>1. PICK n \in 1..Len(queue) :
             /\ Drain(queue) = SubSeq(queue, n, Len(queue))
             /\ ExpectsResponse(queue[n])
             /\ \A i \in 1..(n - 1) : ~ExpectsResponse(queue[i])
    BY <1>3
  <2> DEFINE D == SubSeq(queue, n, Len(queue))
  <2>2. /\ D \in Seq(TxItem)
        /\ Len(D) = Len(queue) - n + 1
        /\ \A i \in 1..(Len(queue) - n + 1) : D[i] = queue[n + i - 1]
    BY <1>1, SubSeqProperties
  <2>3. Head(D) = queue[n]
    BY <1>1, HeadTailOfSubSeq
  <2>4. \A i \in 1..Len(D) : n + i - 1 \in 1..Len(queue) /\ D[i] = queue[n + i - 1]
    BY <1>1, <2>2
  <2>5. ASSUME ExpectsResponse(queue[Len(queue)]),
               \A i \in 1..(Len(queue) - 1) : ~ExpectsResponse(queue[i])
        PROVE  D = <<queue[Len(queue)]>>
    <3>1. n = Len(queue)
      BY <1>1, <2>1, <2>5
    <3>2. Len(D) = 1 /\ D[1] = queue[Len(queue)]
      BY <1>1, <2>2, <3>1
    <3> DEFINE last == queue[Len(queue)]
    <3>3. last \in TxItem
      BY <1>1, <3>1
    <3> HIDE DEF D, last
    <3>4. <<last>> \in Seq(TxItem) /\ Len(<<last>>) = 1 /\ <<last>>[1] = last
      BY <3>3
    <3>5. D = <<last>>
      BY <2>2, <3>2, <3>4, SeqEqual DEF last
    <3>. QED  BY <3>5 DEF last
  <2>. QED  BY <2>1, <2>2, <2>3, <2>4, <2>5
<1>. QED  BY <1>2, <1>3, DrainProperties

-----------------------------------------------------------------------------
(* The inductive invariant.                                                 *)

\* RetryClockSet is not inductive: the clock is set before the state in which it is
\* read, so it must be known to be set in every state with an open socket.
SnesClockSet == ~NoSocket => snesAge # Unset

Inv ==
    /\ TypeOK
    /\ LinkConsistent
    /\ StatusMatchesState
    /\ AnswerFitsState
    /\ BusyIsAwaited
    /\ SnesClockSet

\* The intervals and ages stay in their ranges.
LEMMA Ranges ==
    /\ MaxAge \in Nat
    /\ \A n \in Nat : BaseInterval <= n => AtMost(n, MaxInterval) \in BaseInterval..MaxInterval
    /\ \A age \in 0..MaxAge : Older(age) \in 0..MaxAge
    /\ Older(Unset) = Unset
    /\ \A age \in 0..MaxAge : Older(age) # Unset
BY IntervalAssumption DEF MaxAge, AtMost, Older, Unset

\* Commands and reads are messages; which of them expect a response.
LEMMA Messages ==
    /\ \A op \in Opcodes \ {"GetAddress"} : Command(op) \in TxItem
    /\ \A a \in Addrs : Get(a) \in TxItem /\ IsRead(Get(a)) /\ ExpectsResponse(Get(a))
    /\ ExpectsResponse(Command("DeviceList"))
    /\ ExpectsResponse(Command("Info"))
    /\ \A op \in {"Name", "Attach", "PutAddress", "Data"} : ~ExpectsResponse(Command(op))
    /\ expectedResponse(Command("DeviceList")) = JSON_RESPONSE
    /\ expectedResponse(Command("Info")) = JSON_RESPONSE
    /\ \A item \in TxItem : IsRead(item) => /\ item.addr \in Addrs
                                            /\ expectedResponse(item) = Length[item.addr]
                                            /\ expectedResponse(item) \in Nat \ {0}
BY BlockAssumption
   DEF Opcodes, TxItem, Command, Get, IsRead, ExpectsResponse, expectedResponse,
       JSON_RESPONSE, NO_RESPONSE

\* The initial state satisfies the invariant.
LEMMA InitInv == Init => Inv
<1> SUFFICES ASSUME Init PROVE Inv
  OBVIOUS
<1>1. uri \in Uris
  BY DEF Init, Swap, Uris
<1>2. reconnectInterval \in BaseInterval..MaxInterval
  <2>1. 2 * BaseInterval \in Nat /\ BaseInterval <= 2 * BaseInterval
    BY IntervalAssumption
  <2>. QED  BY <2>1, Ranges DEF Init
<1>3. TypeOK
  BY <1>1, <1>2, Ranges DEF Init, TypeOK, States, Unset
<1>4. LinkConsistent /\ StatusMatchesState /\ SnesClockSet
  BY DEF Init, LinkConsistent, StatusMatchesState, SnesClockSet, NoSocket
<1>5. AnswerFitsState /\ BusyIsAwaited
  BY DEF Init, AnswerFitsState, BusyIsAwaited
<1>. QED  BY <1>3, <1>4, <1>5 DEF Inv

-----------------------------------------------------------------------------
(* One lemma per action: the invariant is preserved.                        *)

\* A new socket: nothing is pending.
LEMMA PollReconnectInv == Inv /\ PollReconnect => Inv'
<1> SUFFICES ASSUME Inv, PollReconnect PROVE Inv'
  OBVIOUS
<1> USE DEF Inv, PollReconnect, ConnectSocket, ForgetPending
<1>1. uri' \in Uris
  BY DEF TypeOK, Uris, Swap
<1>2. reconnectInterval' \in BaseInterval..MaxInterval
  <2>1. 2 * reconnectInterval \in Nat /\ BaseInterval <= 2 * reconnectInterval
    BY IntervalAssumption DEF TypeOK
  <2>. QED  BY <2>1, Ranges DEF Backoff
<1>3. TypeOK'
  BY <1>1, <1>2, Ranges DEF TypeOK, States, envVars
<1>4. status = "red"
  BY DEF StatusMatchesState, NoSocket
<1>5. LinkConsistent' /\ StatusMatchesState' /\ SnesClockSet'
  BY <1>4 DEF LinkConsistent, StatusMatchesState, SnesClockSet, NoSocket
<1>6. AnswerFitsState' /\ BusyIsAwaited'
  BY DEF AnswerFitsState, BusyIsAwaited
<1>. QED  BY <1>3, <1>5, <1>6

\* A dropped socket: only ws changes.
LEMMA PollDropSocketInv == Inv /\ PollDropSocket => Inv'
<1> SUFFICES ASSUME Inv, PollDropSocket PROVE Inv'
  OBVIOUS
<1> USE DEF Inv, PollDropSocket, clockVars, serviceVars, envVars
<1>1. TypeOK'
  BY DEF TypeOK
<1>2. LinkConsistent' /\ StatusMatchesState' /\ SnesClockSet'
  BY DEF LinkConsistent, StatusMatchesState, SnesClockSet, NoSocket
<1>3. AnswerFitsState' /\ BusyIsAwaited'
  BY DEF AnswerFitsState, BusyIsAwaited
<1>. QED  BY <1>1, <1>2, <1>3

\* connect_snes(): behind messages that expect nothing, the DeviceList request is
\* the only one awaited.
LEMMA ConnectSnesQueue ==
    ASSUME NEW queue \in Seq(TxItem), ConnectSnes(queue), owed \in Seq(TxItem),
           \A i \in 1..Len(queue) : ~ExpectsResponse(queue[i])
    PROVE  /\ txQueue' \in Seq(TxItem)
           /\ owed' \in Seq(TxItem)
           /\ AnswerFitsState'
           /\ BusyIsAwaited'
           /\ SnesClockSet'
           /\ snesAge' \in 0..MaxAge
<1> USE DEF ConnectSnes
<1> DEFINE list == Command("DeviceList")
<1>1. list \in TxItem
  BY Messages DEF Opcodes
<1> HIDE DEF list
<1>2. txQueue' = Append(queue, list) /\ owed' = Append(owed, list)
  BY DEF list
<1>3. /\ txQueue' \in Seq(TxItem)
      /\ txQueue' # <<>>
      /\ Len(txQueue') = Len(queue) + 1
      /\ txQueue'[Len(queue) + 1] = list
      /\ \A i \in 1..Len(queue) : txQueue'[i] = queue[i]
  BY <1>1, <1>2, AppendProperties
<1>4. owed' \in Seq(TxItem)
  BY <1>1, <1>2, AppendProperties
<1>5. Len(queue) \in Nat
  BY LenProperties
<1>6. \A i \in 1..(Len(txQueue') - 1) : ~ExpectsResponse(txQueue'[i])
  BY <1>3, <1>5
<1>7. OnlyLastAwaited(Command("DeviceList"))'
  <2>1. /\ txQueue' # <<>>
        /\ txQueue'[Len(txQueue')] = list
        /\ \A i \in 1..(Len(txQueue') - 1) : ~ExpectsResponse(txQueue'[i])
    BY <1>3, <1>6, Zenon
  <2>. QED  BY <2>1, Zenon DEF OnlyLastAwaited, ExpectsResponse, expectedResponse, Command, list
<1>8. AnswerFitsState'
  BY <1>7 DEF AnswerFitsState
<1>9. BusyIsAwaited' /\ SnesClockSet'
  BY DEF BusyIsAwaited, SnesClockSet, Unset
<1>. QED  BY <1>3, <1>4, <1>8, <1>9, Ranges

\* The socket is open: the client introduced itself and asks for the devices.
LEMMA OnOpenInv == Inv /\ OnOpen => Inv'
<1> SUFFICES ASSUME Inv, OnOpen PROVE Inv'
  OBVIOUS
<1> USE DEF Inv, OnOpen, envVars
<1>1. txQueue = <<>>
  BY DEF LinkConsistent, NoSocket
<1> DEFINE queue == Append(txQueue, Command("Name"))
<1>2. queue \in Seq(TxItem) /\ Len(queue) = 1 /\ queue[1] = Command("Name")
  <2>1. Command("Name") \in TxItem
    BY Messages DEF Opcodes
  <2>2. txQueue \in Seq(TxItem) /\ Len(txQueue) = 0
    BY <1>1
  <2>. QED  BY <2>1, <2>2, AppendProperties
<1>3. \A i \in 1..Len(queue) : ~ExpectsResponse(queue[i])
  BY <1>2, Messages
<1>4. ConnectSnes(queue) /\ owed \in Seq(TxItem)
  BY DEF TypeOK
<1> HIDE DEF queue
<1>5. /\ txQueue' \in Seq(TxItem)
      /\ owed' \in Seq(TxItem)
      /\ AnswerFitsState' /\ BusyIsAwaited' /\ SnesClockSet'
      /\ snesAge' \in 0..MaxAge
  BY <1>2, <1>3, <1>4, ConnectSnesQueue
<1>6. state' = "SNES_LIST"
  BY <1>4 DEF ConnectSnes
<1>7. TypeOK'
  BY <1>5, <1>6 DEF TypeOK, States
<1>8. LinkConsistent' /\ StatusMatchesState'
  BY <1>6 DEF LinkConsistent, StatusMatchesState, NoSocket
<1>. QED  BY <1>5, <1>7, <1>8

\* The socket closed: nothing is pending, and the user sees it.
LEMMA OnCloseInv ==
    ASSUME Inv, OnClose, ws \in {"connecting", "open"}
    PROVE  Inv'
<1> USE DEF Inv, OnClose, ForgetPending, clockVars, envVars
<1>1. TypeOK'
  BY DEF TypeOK, States, StatusAfterClose
<1>2. LinkConsistent' /\ SnesClockSet'
  BY DEF LinkConsistent, SnesClockSet, NoSocket
<1>3. StatusMatchesState'
  BY DEF StatusMatchesState, StatusAfterClose, NoSocket, LinkConsistent
<1>4. AnswerFitsState' /\ BusyIsAwaited'
  BY DEF AnswerFitsState, BusyIsAwaited
<1>. QED  BY <1>1, <1>2, <1>3, <1>4

\* The devices are asked for again.
LEMMA PollListDevicesInv == Inv /\ PollListDevices => Inv'
<1> SUFFICES ASSUME Inv, PollListDevices PROVE Inv'
  OBVIOUS
<1> USE DEF Inv, PollListDevices, MayListDevices, envVars
<1>1. txQueue \in Seq(TxItem) /\ owed \in Seq(TxItem) /\ ConnectSnes(txQueue)
  BY DEF TypeOK
<1>2. \A i \in 1..Len(txQueue) : ~ExpectsResponse(txQueue[i])
  BY <1>1 DEF AnswerFitsState
<1>3. /\ txQueue' \in Seq(TxItem)
      /\ owed' \in Seq(TxItem)
      /\ AnswerFitsState' /\ BusyIsAwaited' /\ SnesClockSet'
      /\ snesAge' \in 0..MaxAge
  BY <1>1, <1>2, ConnectSnesQueue
<1>4. state' = "SNES_LIST"
  BY <1>1 DEF ConnectSnes
<1>5. TypeOK'
  BY <1>3, <1>4 DEF TypeOK, States
<1>6. LinkConsistent' /\ StatusMatchesState'
  BY <1>4 DEF LinkConsistent, StatusMatchesState, NoSocket
<1>. QED  BY <1>3, <1>5, <1>6

\* Time and the environment touch nothing the invariant speaks of.
LEMMA TickInv == Inv /\ Tick => Inv'
<1> SUFFICES ASSUME Inv, Tick PROVE Inv'
  OBVIOUS
<1> USE DEF Inv, Tick, clientVars, serviceVars, envVars
<1>1. sockAge' \in 0..MaxAge /\ snesAge' \in {Unset} \cup 0..MaxAge
  BY Ranges DEF TypeOK
<1>2. TypeOK'
  BY <1>1 DEF TypeOK
<1>3. SnesClockSet'
  BY Ranges DEF SnesClockSet, TypeOK, NoSocket
<1>4. LinkConsistent' /\ StatusMatchesState'
  BY DEF LinkConsistent, StatusMatchesState, NoSocket
<1>5. AnswerFitsState' /\ BusyIsAwaited'
  BY Zenon DEF AnswerFitsState, BusyIsAwaited, OnlyLastAwaited
<1>. QED  BY <1>2, <1>3, <1>4, <1>5

LEMMA ServiceChangeInv == Inv /\ ServiceChange => Inv'
<1> SUFFICES ASSUME Inv, ServiceChange PROVE Inv'
  OBVIOUS
<1> USE DEF Inv, ServiceChange, clientVars, clockVars, serviceVars
<1>1. TypeOK'
  BY DEF TypeOK
<1>2. LinkConsistent' /\ StatusMatchesState' /\ SnesClockSet'
  BY DEF LinkConsistent, StatusMatchesState, SnesClockSet, NoSocket
<1>3. AnswerFitsState' /\ BusyIsAwaited'
  BY Zenon DEF AnswerFitsState, BusyIsAwaited, OnlyLastAwaited
<1>. QED  BY <1>1, <1>2, <1>3

LEMMA StutterInv == Inv /\ UNCHANGED vars => Inv'
<1> SUFFICES ASSUME Inv, UNCHANGED vars PROVE Inv'
  OBVIOUS
<1> USE DEF Inv, vars, clientVars, clockVars, serviceVars, envVars
<1>1. TypeOK'
  BY DEF TypeOK
<1>2. LinkConsistent' /\ StatusMatchesState' /\ SnesClockSet'
  BY DEF LinkConsistent, StatusMatchesState, SnesClockSet, NoSocket
<1>3. AnswerFitsState' /\ BusyIsAwaited'
  BY Zenon DEF AnswerFitsState, BusyIsAwaited, OnlyLastAwaited
<1>. QED  BY <1>1, <1>2, <1>3

\* In a handshake state draining leaves exactly the awaited request.
LEMMA HandshakeQueue ==
    ASSUME Inv
    PROVE  /\ state = "SNES_LIST" => Drain(txQueue) = <<Command("DeviceList")>>
           /\ state = "SNES_CONNECTING" => Drain(txQueue) = <<Command("Info")>>
           /\ state = "SOCKET_CONNECTED" => Drain(txQueue) = <<>>
<1> USE DEF Inv, AnswerFitsState
<1>1. txQueue \in Seq(TxItem)
  BY DEF TypeOK
<1>2. ASSUME NEW item, OnlyLastAwaited(item), ExpectsResponse(item)
      PROVE  Drain(txQueue) = <<item>>
  BY <1>1, <1>2, DrainFacts DEF OnlyLastAwaited
<1>3. CASE state = "SNES_LIST"
  <2>1. OnlyLastAwaited(Command("DeviceList")) /\ ExpectsResponse(Command("DeviceList"))
    BY <1>3, Messages
  <2>. QED  BY <1>2, <1>3, <2>1
<1>4. CASE state = "SNES_CONNECTING"
  <2>1. OnlyLastAwaited(Command("Info")) /\ ExpectsResponse(Command("Info"))
    BY <1>4, Messages
  <2>. QED  BY <1>2, <1>4, <2>1
<1>5. CASE state = "SOCKET_CONNECTED"
  <2>1. \A i \in 1..Len(txQueue) : ~ExpectsResponse(txQueue[i])
    BY <1>1, <1>5
  <2>. QED  BY <1>1, <1>5, <2>1, DrainFacts
<1>. QED  BY <1>3, <1>4, <1>5

\* One message, then two.
LEMMA ShortConcat ==
    ASSUME NEW S, NEW a \in S, NEW b \in S, NEW c \in S
    PROVE  <<a>> \o <<b, c>> = <<a, b, c>>
<1> DEFINE one == <<a>>
           two == <<b, c>>
           three == <<a, b, c>>
<1>1. one \in Seq(S) /\ Len(one) = 1 /\ one[1] = a
  OBVIOUS
<1>2. two \in Seq(S) /\ Len(two) = 2 /\ two[1] = b /\ two[2] = c
  OBVIOUS
<1>3. three \in Seq(S) /\ Len(three) = 3 /\ three[1] = a /\ three[2] = b /\ three[3] = c
  OBVIOUS
<1> HIDE DEF one, two, three
<1>4. /\ one \o two \in Seq(S)
      /\ Len(one \o two) = Len(one) + Len(two)
      /\ \A i \in 1..(Len(one) + Len(two)) :
            (one \o two)[i] = IF i <= Len(one) THEN one[i] ELSE two[i - Len(one)]
  BY <1>1, <1>2, ConcatProperties, Zenon
<1> DEFINE both == one \o two
<1>5. both \in Seq(S) /\ Len(both) = Len(three)
  BY <1>1, <1>2, <1>3, <1>4
<1>6. \A i \in 1..Len(both) : both[i] = three[i]
  BY <1>1, <1>2, <1>3, <1>4
<1> HIDE DEF both
<1>7. both = three
  BY <1>3, <1>5, <1>6, SeqEqual
<1>. QED  BY <1>7 DEF both, one, two, three

\* Drained queues.
LEMMA SmallDrains ==
    /\ Drain(<<>>) = <<>>
    /\ Drain(<<Command("Attach"), Command("Info")>>) = <<Command("Info")>>
<1> DEFINE attach == Command("Attach")
           info == Command("Info")
           queue == <<attach, info>>
<1>1. <<>> \in Seq(TxItem) /\ Len(<<>>) = 0
  BY EmptySeq
<1>2. Drain(<<>>) = <<>>
  <2> DEFINE empty == <<>>
  <2>1. \A i \in 1..Len(empty) : ~ExpectsResponse(empty[i])
    BY <1>1
  <2> HIDE DEF empty
  <2>2. Drain(empty) = <<>>
    BY <1>1, <2>1, DrainFacts DEF empty
  <2>. QED  BY <2>2 DEF empty
<1>3. attach \in TxItem /\ info \in TxItem /\ ~ExpectsResponse(attach) /\ ExpectsResponse(info)
  BY Messages DEF Opcodes
<1> HIDE DEF attach, info
<1>4. queue \in Seq(TxItem) /\ Len(queue) = 2 /\ queue[1] = attach /\ queue[2] = info
  BY <1>3
<1>5. queue # <<>> /\ ExpectsResponse(queue[Len(queue)])
        /\ \A i \in 1..(Len(queue) - 1) : ~ExpectsResponse(queue[i])
  BY <1>3, <1>4
<1> HIDE DEF queue
<1>6. Drain(queue) = <<info>>
  BY <1>4, <1>5, DrainFacts
<1>. QED  BY <1>2, <1>6 DEF queue, attach, info

\* An answer to the handshake.
LEMMA OnJsonInv == Inv /\ OnJson => Inv'
<1> SUFFICES ASSUME Inv, OnJson PROVE Inv'
  OBVIOUS
<1> DEFINE list == Command("DeviceList")
           info == Command("Info")
           attach == Command("Attach")
<1>1. /\ ws = "open" /\ ws' = ws
      /\ owed # <<>> /\ owed \in Seq(TxItem)
      /\ rxBuffer' = <<>>
      /\ UNCHANGED <<uri, reply, sockAge, snesAge, given, listening, device>>
  BY DEF OnJson, Inv, TypeOK, clockVars, envVars
<1>2. list \in TxItem /\ info \in TxItem /\ attach \in TxItem
  BY Messages DEF Opcodes
<1>3. Tail(owed) \in Seq(TxItem) /\ Append(Tail(owed), info) \in Seq(TxItem)
  BY <1>1, <1>2, HeadTailProperties, AppendProperties
<1> HIDE DEF list, info, attach
<1>4. CASE /\ state = "SNES_LIST"
           /\ state' = "SNES_CONNECTING"
           /\ txQueue' = Answered(Drain(txQueue) \o <<attach, info>>)
           /\ owed' = Append(Tail(owed), info)
           /\ UNCHANGED <<reconnectInterval, status>>
  <2>1. Drain(txQueue) = <<list>>
    BY <1>4, HandshakeQueue DEF list
  <2>0. Drain(txQueue) \o <<attach, info>> = <<list, attach, info>>
    <3>1. <<list>> \o <<attach, info>> = <<list, attach, info>>
      BY <1>2, ShortConcat
    <3>. QED  BY <2>1, <3>1, Zenon
  <2>2. Tail(<<list, attach, info>>) = <<attach, info>>
    OBVIOUS
  <2>3. txQueue' = <<info>>
    <3>1. Drain(<<attach, info>>) = <<info>>
      BY SmallDrains DEF attach, info
    <3>. QED  BY <1>4, <2>0, <2>2, <3>1 DEF Answered
  <2>4. OnlyLastAwaited(Command("Info"))'
    BY <2>3 DEF OnlyLastAwaited, Command, info
  <2>5. AnswerFitsState'
    BY <1>4, <2>4 DEF AnswerFitsState
  <2>8. BusyIsAwaited' /\ SnesClockSet'
    BY <1>1, <1>4 DEF Inv, BusyIsAwaited, SnesClockSet, NoSocket
  <2>9. txQueue' \in Seq(TxItem)
    BY <1>2, <2>3
  <2>6. TypeOK'
    BY <2>9, <1>1, <1>2, <1>3, <1>4, <2>3 DEF Inv, TypeOK, States
  <2>7. LinkConsistent' /\ StatusMatchesState'
    BY <1>1, <1>4 DEF Inv, LinkConsistent, StatusMatchesState, NoSocket
  <2>. QED  BY <2>5, <2>6, <2>7, <2>8 DEF Inv
<1>5. CASE /\ state \in {"SNES_LIST", "SNES_CONNECTING"}
           /\ txQueue' = Answered(Drain(txQueue))
           /\ owed' = Tail(owed)
           /\ \/ /\ state = "SNES_CONNECTING"
                 /\ state' = "SNES_CONNECTED"
                 /\ reconnectInterval' = BaseInterval
                 /\ status' = "green"
              \/ /\ state' = "SOCKET_CONNECTED"
                 /\ UNCHANGED <<reconnectInterval, status>>
  <2>1. Drain(txQueue) = <<list>> \/ Drain(txQueue) = <<info>>
    BY <1>5, HandshakeQueue DEF list, info
  <2>2. Tail(<<list>>) = <<>> /\ Tail(<<info>>) = <<>>
    OBVIOUS
  <2>3. txQueue' = <<>>
    BY <1>5, <2>1, <2>2, SmallDrains DEF Answered
  <2>4. AnswerFitsState' /\ BusyIsAwaited'
    BY <1>5, <2>3 DEF AnswerFitsState, BusyIsAwaited
  <2>5. SnesClockSet'
    BY <1>1, <1>5 DEF Inv, SnesClockSet, NoSocket
  <2>6. TypeOK'
    BY <1>1, <1>3, <1>5, <2>3, IntervalAssumption DEF Inv, TypeOK, States
  <2>7. LinkConsistent' /\ StatusMatchesState'
    BY <1>1, <1>5 DEF Inv, LinkConsistent, StatusMatchesState, NoSocket
  <2>. QED  BY <2>4, <2>5, <2>6, <2>7 DEF Inv
<1>. QED  BY <1>4, <1>5 DEF OnJson, list, info, attach

\* A message nobody asked for: the queue is drained.
LEMMA OnNoiseInv == Inv /\ OnNoise => Inv'
<1> SUFFICES ASSUME Inv, OnNoise PROVE Inv'
  OBVIOUS
<1> USE DEF OnNoise, clockVars, serviceVars, envVars
<1>1. txQueue \in Seq(TxItem) /\ txQueue' = Drain(txQueue) /\ state' = state
  BY DEF Inv, TypeOK
<1>2. /\ txQueue' \in Seq(TxItem)
      /\ txQueue' # <<>> => ExpectsResponse(Head(txQueue'))
      /\ \A i \in 1..Len(txQueue') : \E j \in 1..Len(txQueue) : txQueue'[i] = txQueue[j]
  BY <1>1, DrainFacts
<1>3. TypeOK'
  BY <1>2 DEF Inv, TypeOK
<1>4. LinkConsistent' /\ StatusMatchesState' /\ SnesClockSet'
  BY <1>1 DEF Inv, LinkConsistent, StatusMatchesState, SnesClockSet, NoSocket
<1>5. BusyIsAwaited'
  BY <1>2, Zenon DEF BusyIsAwaited
<1>6. AnswerFitsState'
  <2>1. CASE state \in {"SNES_LIST", "SNES_CONNECTING"}
    <3>1. PICK item : txQueue' = <<item>> /\ OnlyLastAwaited(item)
                        /\ item = Command(IF state = "SNES_LIST" THEN "DeviceList" ELSE "Info")
      BY <1>1, <2>1, HandshakeQueue DEF Inv, AnswerFitsState
    <3>2. OnlyLastAwaited(item)'
      BY <3>1 DEF OnlyLastAwaited
    <3>. QED  BY <1>1, <2>1, <3>1, <3>2 DEF AnswerFitsState, OnlyLastAwaited, Command
  <2>2. CASE state \notin {"SNES_LIST", "SNES_CONNECTING"}
    <3>1. DOMAIN txQueue = 1..Len(txQueue) /\ DOMAIN txQueue' = 1..Len(txQueue')
      BY <1>1, <1>2, LenProperties
    <3>. QED  BY <1>1, <1>2, <2>2, <3>1 DEF Inv, AnswerFitsState
  <2>. QED  BY <2>1, <2>2
<1>. QED  BY <1>3, <1>4, <1>5, <1>6 DEF Inv

\* The reads of a batch are messages that are awaited.
LEMMA BatchMessages ==
    ASSUME NEW batch \in BoundedSeq(Addrs, MaxBatch)
    PROVE  LET gets == [i \in DOMAIN batch |-> Get(batch[i])]
           IN  /\ gets \in Seq(TxItem)
               /\ \A i \in 1..Len(gets) : IsRead(gets[i]) /\ ExpectsResponse(gets[i])
<1> DEFINE gets == [i \in DOMAIN batch |-> Get(batch[i])]
<1>1. batch \in Seq(Addrs)
  BY BlockAssumption DEF BoundedSeq, SeqOf
<1>2. DOMAIN batch = 1..Len(batch) /\ Len(batch) \in Nat
      /\ \A i \in 1..Len(batch) : batch[i] \in Addrs
  BY <1>1, LenProperties, ElementOfSeq
<1>3. \A i \in 1..Len(batch) : Get(batch[i]) \in TxItem
         /\ IsRead(Get(batch[i])) /\ ExpectsResponse(Get(batch[i]))
  BY <1>2, Messages
<1>. QED  BY <1>2, <1>3

LEMMA ReadBatchInv == Inv /\ ReadBatch => Inv'
<1> SUFFICES ASSUME Inv, ReadBatch PROVE Inv'
  OBVIOUS
<1> USE DEF clockVars, envVars
<1>1. PICK batch \in BoundedSeq(Addrs, MaxBatch) :
        /\ txQueue' = txQueue \o [i \in DOMAIN batch |-> Get(batch[i])]
        /\ owed' = owed \o [i \in DOMAIN batch |-> Get(batch[i])]
  BY DEF ReadBatch
<1> DEFINE gets == [i \in DOMAIN batch |-> Get(batch[i])]
<1>4. gets \in Seq(TxItem)
      /\ \A i \in 1..Len(gets) : IsRead(gets[i]) /\ ExpectsResponse(gets[i])
  BY BatchMessages
<1>5. /\ state = "SNES_CONNECTED" /\ txQueue = <<>>
      /\ UNCHANGED <<uri, ws, state, rxBuffer, reconnectInterval, status, reply,
                     sockAge, snesAge, given, listening, device>>
  BY DEF ReadBatch, Idle
<1>6. owed \in Seq(TxItem) /\ owed' = owed \o gets
  BY <1>1 DEF Inv, TypeOK
<1> HIDE DEF gets
<1>7. txQueue' = gets
  BY <1>1, <1>4, <1>5, ConcatEmptySeq DEF gets
<1>8. owed' \in Seq(TxItem)
  BY <1>4, <1>6, ConcatProperties
<1>9. TypeOK'
  BY <1>4, <1>5, <1>7, <1>8 DEF Inv, TypeOK
<1>10. LinkConsistent' /\ StatusMatchesState' /\ SnesClockSet'
  BY <1>5 DEF Inv, LinkConsistent, StatusMatchesState, SnesClockSet, NoSocket
<1>11. AnswerFitsState'
  BY <1>4, <1>5, <1>7 DEF AnswerFitsState
<1>12. BusyIsAwaited'
  BY <1>4, <1>7 DEF BusyIsAwaited
<1>. QED  BY <1>9, <1>10, <1>11, <1>12 DEF Inv

-----------------------------------------------------------------------------
(* Answers to reads.                                                        *)

\* While the console is attached only reads are awaited.
OnlyReads(queue) == \A i \in 1..Len(queue) : ExpectsResponse(queue[i]) => IsRead(queue[i])

\* It stays so when messages are added behind, taken from the front, and drained.
LEMMA OnlyReadsKept ==
    ASSUME NEW p \in Seq(TxItem), OnlyReads(p)
    PROVE  /\ \A q \in Seq(TxItem) : OnlyReads(q) => OnlyReads(p \o q)
           /\ p # <<>> => OnlyReads(Tail(p))
           /\ OnlyReads(Drain(p))
<1> USE DEF OnlyReads
<1>1. Len(p) \in Nat
  BY LenProperties
<1>2. ASSUME NEW q \in Seq(TxItem), OnlyReads(q)
      PROVE  OnlyReads(p \o q)
  <2>1. Len(q) \in Nat
    BY LenProperties
  <2>2. /\ Len(p \o q) = Len(p) + Len(q)
        /\ \A i \in 1..(Len(p) + Len(q)) :
              (p \o q)[i] = IF i <= Len(p) THEN p[i] ELSE q[i - Len(p)]
    BY ConcatProperties
  <2> DEFINE pq == p \o q
  <2> SUFFICES ASSUME NEW i \in 1..Len(pq), ExpectsResponse(pq[i])
               PROVE  IsRead(pq[i])
    OBVIOUS
  <2>3. i \in 1..(Len(p) + Len(q))
    BY <2>2
  <2> HIDE DEF pq
  <2>4. CASE i <= Len(p)
    <3>1. i \in 1..Len(p) /\ pq[i] = p[i]
      BY <1>1, <2>1, <2>2, <2>3, <2>4 DEF pq
    <3>. QED  BY <3>1
  <2>5. CASE ~(i <= Len(p))
    <3>1. i - Len(p) \in 1..Len(q) /\ pq[i] = q[i - Len(p)]
      BY <1>1, <2>1, <2>2, <2>3, <2>5 DEF pq
    <3>. QED  BY <3>1, <1>2
  <2>. QED  BY <2>4, <2>5
<1>3. ASSUME p # <<>> PROVE OnlyReads(Tail(p))
  <2>1. /\ Len(Tail(p)) = Len(p) - 1
        /\ \A i \in 1..Len(Tail(p)) : Tail(p)[i] = p[i + 1]
    BY <1>3, HeadTailProperties
  <2>2. \A i \in 1..Len(Tail(p)) : i + 1 \in 1..Len(p)
    BY <1>1, <2>1
  <2>. QED  BY <2>1, <2>2
<1>4. OnlyReads(Drain(p))
  BY DrainFacts
<1>. QED  BY <1>2, <1>3, <1>4

\* The messages a callback sends: a read, or writes that expect nothing.
LEMMA CallbackMessages ==
    ASSUME NEW a \in Addrs, NEW more \in CallbackSends(a)
    PROVE  /\ more.reads \in Seq(TxItem) /\ OnlyReads(more.reads)
           /\ more.reads = <<>> \/ \E b \in Addrs : more.reads = <<Get(b)>>
           /\ more.writes \in Seq(TxItem) /\ OnlyReads(more.writes)
           /\ \A i \in 1..Len(more.writes) : ~ExpectsResponse(more.writes[i])
<1> DEFINE Unanswered(q) == q \in Seq(TxItem) /\ \A i \in 1..Len(q) : ~ExpectsResponse(q[i])
<1>1. ASSUME NEW n \in Nat PROVE Unanswered(Puts(n))
  <2> DEFINE put == Command("PutAddress")
             data == Command("Data")
             puts == [i \in 1..(2 * n) |-> IF i % 2 = 1 THEN put ELSE data]
  <2>1. /\ put \in TxItem /\ data \in TxItem
        /\ ~ExpectsResponse(put) /\ ~ExpectsResponse(data)
    BY Messages DEF Opcodes
  <2>2. Puts(n) = puts
    BY DEF Puts, Command
  <2> HIDE DEF put, data
  <2>3. puts \in Seq(TxItem) /\ Len(puts) = 2 * n
    BY <2>1
  <2>4. \A i \in 1..(2 * n) : puts[i] = put \/ puts[i] = data
    OBVIOUS
  <2> HIDE DEF puts
  <2>5. Unanswered(puts)
    BY <2>1, <2>3, <2>4, Zenon
  <2>. QED  BY <2>2, <2>5, Zenon
<1>2. Unanswered(<<>>) /\ OnlyReads(<<>>)
  BY EmptySeq DEF OnlyReads
<1>3. ASSUME NEW b \in Addrs PROVE <<Get(b)>> \in Seq(TxItem) /\ OnlyReads(<<Get(b)>>)
  <2> DEFINE get == Get(b)
  <2>1. get \in TxItem /\ IsRead(get)
    BY Messages
  <2> HIDE DEF get
  <2>2. <<get>> \in Seq(TxItem) /\ OnlyReads(<<get>>)
    BY <2>1 DEF OnlyReads
  <2>. QED  BY <2>2 DEF get
<1>4. \A q : Unanswered(q) => OnlyReads(q)
  BY DEF OnlyReads
<1>5. CASE \E b \in Chained[a] : more = [reads |-> <<Get(b)>>, writes |-> <<>>]
  <2>1. PICK b \in Chained[a] : more.reads = <<Get(b)>> /\ more.writes = <<>>
    BY <1>5
  <2>2. b \in Addrs
    BY BlockAssumption
  <2> HIDE DEF Unanswered
  <2>3. /\ more.reads \in Seq(TxItem) /\ OnlyReads(more.reads)
        /\ \E c \in Addrs : more.reads = <<Get(c)>>
        /\ Unanswered(more.writes) /\ OnlyReads(more.writes)
    BY <1>2, <1>3, <2>1, <2>2
  <2>. QED  BY <2>3, Zenon DEF Unanswered
<1>6. CASE \E n \in Nat : more = [reads |-> <<>>, writes |-> Puts(n)]
  <2>1. PICK n \in Nat : more.reads = <<>> /\ more.writes = Puts(n)
    BY <1>6
  <2> HIDE DEF Unanswered
  <2>2. Unanswered(more.writes) /\ OnlyReads(more.writes) /\ more.reads = <<>>
    BY <1>1, <1>4, <2>1
  <2>. QED  BY <1>2, <2>2, Zenon DEF Unanswered
<1>7. \A n \in 0..(IF a \in Writers THEN MaxWrites ELSE 0) : n \in Nat
  BY BlockAssumption
<1>. QED  BY <1>5, <1>6, <1>7 DEF CallbackSends

\* The bytes of an answer, or of a part of it.
LEMMA BytesProperties ==
    ASSUME NEW a \in Addrs, NEW from \in Nat \ {0}, NEW to \in Nat, from <= to + 1
    PROVE  /\ Bytes(a, from, to) \in Seq(Addrs \X Nat)
           /\ Len(Bytes(a, from, to)) = to - from + 1
           /\ \A i \in 1..(to - from + 1) : Bytes(a, from, to)[i] = <<a, from + i - 1>>
<1>1. to - from + 1 \in Nat
  OBVIOUS
<1>2. \A i \in 1..(to - from + 1) : <<a, from + i - 1>> \in Addrs \X Nat
  OBVIOUS
<1>. QED  BY <1>1, <1>2 DEF Bytes

\* Bytes arrive for an attached client only.
LEMMA BytesWhenConnected == Inv /\ OnBytes => state = "SNES_CONNECTED"
<1> SUFFICES ASSUME Inv, OnBytes PROVE state = "SNES_CONNECTED"
  OBVIOUS
<1>1. /\ ws = "open"
      /\ Drain(txQueue) # <<>>
      /\ expectedResponse(Head(Drain(txQueue))) # JSON_RESPONSE
  BY DEF OnBytes
<1>2. state \in {"SOCKET_CONNECTED", "SNES_LIST", "SNES_CONNECTING", "SNES_CONNECTED"}
  BY <1>1 DEF Inv, TypeOK, LinkConsistent, NoSocket, States
<1>3. Head(<<Command("DeviceList")>>) = Command("DeviceList")
      /\ Head(<<Command("Info")>>) = Command("Info")
  OBVIOUS
<1>4. state # "SOCKET_CONNECTED"
  BY <1>1, HandshakeQueue
<1>5. state # "SNES_LIST" /\ state # "SNES_CONNECTING"
  BY <1>1, <1>3, HandshakeQueue, Messages, Zenon
<1>. QED  BY <1>2, <1>4, <1>5

\* A chunk of an answer: bytes come only for a read, so the callback that runs is the
\* callback of a read.
LEMMA OnBytesInv == Inv /\ OnBytes => Inv'
<1> SUFFICES ASSUME Inv, OnBytes PROVE Inv'
  OBVIOUS
<1> DEFINE queue == Drain(txQueue)
           ofBytes == Addrs \X Nat
<1>1. PICK n \in 1..(Length[Head(owed).addr] - given) :
        /\ given' = IF given + n = Length[Head(owed).addr] THEN 0 ELSE given + n
        /\ LET buffer   == rxBuffer \o Bytes(Head(owed).addr, given + 1, given + n)
               expected == expectedResponse(Head(queue))
               last     == given + n = Length[Head(owed).addr]
           IN  IF Len(buffer) >= expected
               THEN \E more \in CallbackSends(Head(queue).addr) :
                      /\ reply' = [addr  |-> Head(queue).addr,
                                   bytes |-> SubSeq(buffer, 1, expected)]
                      /\ rxBuffer' = SubSeq(buffer, expected + 1, Len(buffer))
                      /\ txQueue' = Answered(queue \o more.reads \o more.writes)
                      /\ owed' = (IF last THEN Tail(owed) ELSE owed) \o more.reads
               ELSE /\ rxBuffer' = buffer
                    /\ txQueue' = queue
                    /\ owed' = IF last THEN Tail(owed) ELSE owed
                    /\ UNCHANGED reply
  BY DEF OnBytes
<1>2. /\ ws = "open"
      /\ owed # <<>> /\ IsRead(Head(owed))
      /\ queue # <<>>
      /\ expectedResponse(Head(queue)) # JSON_RESPONSE
      /\ UNCHANGED <<uri, ws, state, reconnectInterval, status, sockAge, snesAge,
                     listening, device>>
  BY DEF OnBytes, IsRead, clockVars, envVars
<1>3. /\ txQueue \in Seq(TxItem) /\ owed \in Seq(TxItem)
      /\ rxBuffer \in Seq(ofBytes) /\ given \in Nat
  BY DEF Inv, TypeOK
<1>4. state = "SNES_CONNECTED"
  BY BytesWhenConnected
<1>5. OnlyReads(txQueue)
  BY <1>3, <1>4 DEF Inv, AnswerFitsState, OnlyReads
<1>6. queue \in Seq(TxItem) /\ OnlyReads(queue) /\ ExpectsResponse(Head(queue))
  BY <1>2, <1>3, <1>5, DrainFacts, OnlyReadsKept
<1> HIDE DEF queue, ofBytes
<1>7. /\ IsRead(Head(queue))
      /\ Head(queue).addr \in Addrs
      /\ expectedResponse(Head(queue)) \in Nat \ {0}
  <2>1. Len(queue) \in Nat \ {0}
    BY <1>2, <1>6, EmptySeq
  <2>2. Head(queue) = queue[1] /\ Head(queue) \in TxItem
    BY <1>2, <1>6, HeadTailProperties
  <2>3. IsRead(Head(queue))
    BY <1>6, <2>1, <2>2 DEF OnlyReads
  <2>. QED  BY <2>2, <2>3, Messages
<1>8. Head(owed) \in TxItem /\ Tail(owed) \in Seq(TxItem)
  BY <1>2, <1>3, HeadTailProperties
<1>9. /\ Head(owed).addr \in Addrs
      /\ Length[Head(owed).addr] \in Nat \ {0}
  BY <1>2, <1>8, Messages, BlockAssumption
<1>10. n \in Nat \ {0} /\ given + n \in Nat /\ given' \in Nat
  BY <1>1, <1>3, <1>9
<1> DEFINE chunk == Bytes(Head(owed).addr, given + 1, given + n)
           buffer == rxBuffer \o chunk
           expected == expectedResponse(Head(queue))
           rest == IF given + n = Length[Head(owed).addr] THEN Tail(owed) ELSE owed
<1>11. chunk \in Seq(ofBytes)
  <2>1. given + 1 \in Nat \ {0} /\ given + 1 <= (given + n) + 1
    BY <1>3, <1>10
  <2>. QED  BY <1>9, <1>10, <2>1, BytesProperties DEF ofBytes
<1>12. buffer \in Seq(ofBytes) /\ Len(buffer) \in Nat
  BY <1>3, <1>11, ConcatProperties, LenProperties
<1>13. rest \in Seq(TxItem)
  BY <1>3, <1>8
<1> HIDE DEF chunk, buffer, expected, rest
<1>14. /\ txQueue' \in Seq(TxItem) /\ OnlyReads(txQueue)'
       /\ txQueue' # <<>> => ExpectsResponse(Head(txQueue'))
       /\ owed' \in Seq(TxItem)
       /\ rxBuffer' \in Seq(ofBytes)
       /\ reply' \in {NoReply} \cup [addr : Addrs, bytes : Seq(ofBytes)]
  <2>1. CASE Len(buffer) >= expected
    <3>1. PICK more \in CallbackSends(Head(queue).addr) :
            /\ reply' = [addr |-> Head(queue).addr, bytes |-> SubSeq(buffer, 1, expected)]
            /\ rxBuffer' = SubSeq(buffer, expected + 1, Len(buffer))
            /\ txQueue' = Answered(queue \o more.reads \o more.writes)
            /\ owed' = rest \o more.reads
      BY <1>1, <2>1 DEF buffer, chunk, expected, rest
    <3>2. /\ more.reads \in Seq(TxItem) /\ OnlyReads(more.reads)
          /\ more.writes \in Seq(TxItem) /\ OnlyReads(more.writes)
      BY <1>7, CallbackMessages
    <3>3. queue \o more.reads \in Seq(TxItem) /\ OnlyReads(queue \o more.reads)
      BY <1>6, <3>2, OnlyReadsKept, ConcatProperties
    <3> DEFINE sent == queue \o more.reads \o more.writes
    <3>4. sent \in Seq(TxItem) /\ OnlyReads(sent)
      BY <3>2, <3>3, OnlyReadsKept, ConcatProperties
    <3>5. sent # <<>>
      <4>1. queue \o more.reads # <<>>
        BY <1>2, <1>6, <3>2, ConcatEqualIffEmpty
      <4>. QED  BY <3>2, <3>3, <4>1, ConcatEqualIffEmpty
    <3> HIDE DEF sent
    <3>6. Tail(sent) \in Seq(TxItem) /\ OnlyReads(Tail(sent))
      BY <3>4, <3>5, OnlyReadsKept, HeadTailProperties
    <3>7. txQueue' = Drain(Tail(sent))
      BY <3>1 DEF sent, Answered
    <3>8. /\ txQueue' \in Seq(TxItem) /\ OnlyReads(txQueue)'
          /\ txQueue' # <<>> => ExpectsResponse(Head(txQueue'))
      <4> DEFINE tail == Tail(sent)
      <4>1. /\ Drain(tail) \in Seq(TxItem) /\ OnlyReads(Drain(tail))
            /\ Drain(tail) # <<>> => ExpectsResponse(Head(Drain(tail)))
        BY <3>6, DrainFacts, OnlyReadsKept
      <4>2. OnlyReads(txQueue)' <=> OnlyReads(txQueue')
        BY Zenon DEF OnlyReads, ExpectsResponse, expectedResponse, IsRead
      <4>. QED  BY <3>7, <4>1, <4>2, Zenon
    <3>9. owed' \in Seq(TxItem)
      BY <1>13, <3>1, <3>2, ConcatProperties
    <3>10. \A i \in 1..Len(buffer) : buffer[i] \in ofBytes
      BY <1>12, ElementOfSeq
    <3>11. expected \in Nat
      BY <1>7 DEF expected
    <3>12. SubSeq(buffer, 1, expected) \in Seq(ofBytes)
      BY <1>12, <2>1, <3>10, <3>11, SubSeqProperties
    <3>13. SubSeq(buffer, expected + 1, Len(buffer)) \in Seq(ofBytes)
      <4>1. /\ expected + 1 \in Int /\ Len(buffer) \in Int
            /\ \A i \in (expected + 1)..Len(buffer) : buffer[i] \in ofBytes
        BY <1>12, <3>10, <3>11
      <4>. QED  BY <4>1, SubSeqProperties
    <3>. QED  BY <1>7, <3>1, <3>8, <3>9, <3>12, <3>13
  <2>2. CASE ~(Len(buffer) >= expected)
    <3>1. /\ rxBuffer' = buffer /\ txQueue' = queue /\ owed' = rest /\ reply' = reply
      BY <1>1, <2>2 DEF buffer, chunk, expected, rest
    <3>2. OnlyReads(txQueue)' <=> OnlyReads(txQueue')
      BY Zenon DEF OnlyReads, ExpectsResponse, expectedResponse, IsRead
    <3>3. reply \in {NoReply} \cup [addr : Addrs, bytes : Seq(ofBytes)]
      BY DEF Inv, TypeOK, ofBytes
    <3>. QED  BY <1>6, <1>12, <1>13, <3>1, <3>2, <3>3, Zenon
  <2>. QED  BY <2>1, <2>2
<1>15. TypeOK'
  BY <1>2, <1>10, <1>14 DEF Inv, TypeOK, ofBytes
<1>16. LinkConsistent' /\ StatusMatchesState' /\ SnesClockSet'
  BY <1>2, <1>4 DEF Inv, LinkConsistent, StatusMatchesState, SnesClockSet, NoSocket
<1>17. AnswerFitsState'
  BY <1>2, <1>4, <1>14 DEF AnswerFitsState, OnlyReads
<1>18. BusyIsAwaited'
  BY <1>14, Zenon DEF BusyIsAwaited
<1>. QED  BY <1>15, <1>16, <1>17, <1>18 DEF Inv

-----------------------------------------------------------------------------
(* The theorems.                                                            *)

\* Every step preserves the invariant.
LEMMA NextInv == Inv /\ [Next]_vars => Inv'
<1> SUFFICES ASSUME Inv, [Next]_vars PROVE Inv'
  OBVIOUS
<1>1. CASE Refused
  BY <1>1, OnCloseInv DEF Refused
<1>2. CASE LinkLost
  BY <1>2, OnCloseInv DEF LinkLost
<1>3. CASE PollReconnect \/ PollDropSocket \/ PollListDevices
  BY <1>3, PollReconnectInv, PollDropSocketInv, PollListDevicesInv
<1>4. CASE OnOpen \/ OnJson \/ OnBytes \/ OnNoise \/ ReadBatch
  BY <1>4, OnOpenInv, OnJsonInv, OnBytesInv, OnNoiseInv, ReadBatchInv
<1>5. CASE Tick \/ ServiceChange
  BY <1>5, TickInv, ServiceChangeInv
<1>6. CASE UNCHANGED vars
  BY <1>6, StutterInv
<1>. QED  BY <1>1, <1>2, <1>3, <1>4, <1>5, <1>6 DEF Next

\* Every reachable state satisfies the invariant.
THEOREM Invariance == Spec => []Inv
<1>. QED  BY InitInv, NextInv, PTL DEF Spec

\* The fields of USB2SNES keep their types, whatever the service sends: the retry
\* interval of connect_socket() stays between its base and its cap.
THEOREM TypeCorrect == Spec => []TypeOK
<1>1. Inv => TypeOK
  BY DEF Inv
<1>. QED  BY Invariance, <1>1, PTL

\* onclose(), onopen() and poll() keep the state and the socket together, and
\* no request survives the connection it was sent on.
THEOREM LinkCorrect == Spec => []LinkConsistent
<1>1. Inv => LinkConsistent
  BY DEF Inv
<1>. QED  BY Invariance, <1>1, PTL

\* onmessage() may tell the answers of the handshake apart by the state.
THEOREM HandshakeCorrect == Spec => []AnswerFitsState
<1>1. Inv => AnswerFitsState
  BY DEF Inv
<1>. QED  BY Invariance, <1>1, PTL

\* Writes never keep the client from being idle: the head of the queue of an attached
\* client has an answer coming.
THEOREM BusyCorrect == Spec => []BusyIsAwaited
<1>1. Inv => BusyIsAwaited
  BY DEF Inv
<1>. QED  BY Invariance, <1>1, PTL

\* The status handlers are called for every change of state that the user sees.
THEOREM StatusCorrect == Spec => []StatusMatchesState
<1>1. Inv => StatusMatchesState
  BY DEF Inv
<1>. QED  BY Invariance, <1>1, PTL

\* poll() never reads _lastSnesConnect before connect_snes() has set it.
THEOREM ClockCorrect == Spec => []RetryClockSet
<1>1. Inv => RetryClockSet
  BY DEF Inv, SnesClockSet, RetryClockSet, NoSocket
<1>. QED  BY Invariance, <1>1, PTL

=============================================================================
