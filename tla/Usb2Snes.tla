------------------------------ MODULE Usb2Snes ------------------------------
(***************************************************************************)
(* The class USB2SNES (src/src/usb2snes.hpp): the client's half of the      *)
(* usb2snes protocol.  It keeps one web socket to a usb2snes service, tries *)
(* two service URIs in turn until one accepts, attaches the first device    *)
(* the service lists, and then pipelines reads and writes of SNES memory:   *)
(* every message sent is queued with the response it expects, and responses *)
(* are matched to the queue by position alone.                              *)
(*                                                                         *)
(* The service, the socket and the console are the environment.  A service  *)
(* answers in the order it was asked; a read is answered in one or more     *)
(* chunks, and no chunk spans two answers; it may disconnect at any moment. *)
(* Everything the client does happens inside USB2SNES::poll(), so each      *)
(* socket callback, and each retry of poll(), is one action.                *)
(***************************************************************************)
EXTENDS Integers, Sequences, SequencesExt

CONSTANTS
    DefaultUri, LegacyUri,  \* the two well-known service URIs
    ConfiguredUri,          \* the URI given to the constructor
    BaseInterval,           \* ms after which a connection attempt is retried at first
    MaxInterval,            \* the cap of that interval while it is being doubled
    SnesRetry,              \* ms between two DeviceList requests
    Addrs, Length,          \* the memory blocks the client reads, and their lengths
    Chained,                \* Chained[a]: blocks the callback of a read of a may read next
    Writers,                \* blocks whose read callback may write to the console
    MaxBatch,               \* bound: reads asked for in one poll of the game
    MaxWrites,              \* bound: writes issued by one callback
    NoAddr, NoReply         \* no block; no answer yet

ASSUME UriAssumption ==
    /\ DefaultUri # LegacyUri

ASSUME IntervalAssumption ==
    /\ BaseInterval \in Nat \ {0}
    /\ MaxInterval \in Nat
    /\ BaseInterval <= MaxInterval
    /\ SnesRetry \in Nat

ASSUME BlockAssumption ==
    /\ Length \in [Addrs -> Nat \ {0}]
    /\ Chained \in [Addrs -> SUBSET Addrs]
    /\ Writers \subseteq Addrs
    /\ NoAddr \notin Addrs
    /\ MaxBatch \in Nat
    /\ MaxWrites \in Nat

VARIABLES
    uri,        \* _uri: the service tried last
    ws,         \* _ws: the socket object
    state,      \* _state
    txQueue,    \* _txQueue: messages sent and not yet accounted for, oldest first
    rxBuffer,   \* _rxBuffer: bytes received for the read at the head of txQueue
    reconnectInterval,  \* _socketReconnectInterval
    sockAge,    \* now() - _lastSocketConnect, up to MaxAge
    snesAge,    \* now() - _lastSnesConnect, up to MaxAge; Unset while uninitialised
    status,     \* the colour of the SNES field in the user interface
    reply,      \* history: the read answered last and the bytes its callback got
    owed,       \* environment: requests the service has not answered completely
    given,      \* environment: bytes of the answer to Head(owed) already delivered
    listening,  \* environment: the service URIs that accept connections
    device      \* environment: the service has a console to offer

clientVars  == <<uri, ws, state, txQueue, rxBuffer, reconnectInterval, status, reply>>
clockVars   == <<sockAge, snesAge>>
serviceVars == <<owed, given>>
envVars     == <<listening, device>>
vars == <<clientVars, clockVars, serviceVars, envVars>>

-----------------------------------------------------------------------------
(* The states, the messages and what they expect.                           *)

States == {"DISCONNECTED", "SOCKET_CONNECTING", "SOCKET_CONNECTED",
           "SNES_LIST", "SNES_CONNECTING", "SNES_CONNECTED"}

\* _state < State::SOCKET_CONNECTED
NoSocket == state \in {"DISCONNECTED", "SOCKET_CONNECTING"}

Uris   == {DefaultUri, LegacyUri, ConfiguredUri}
Unset  == -1
MaxAge == MaxInterval + 1 + SnesRetry

\* TxItem::expectedResponse
NO_RESPONSE   == 0
JSON_RESPONSE == -1

Opcodes == {"Name", "DeviceList", "Attach", "Info", "GetAddress", "PutAddress", "Data"}
TxItem  == [op : Opcodes \ {"GetAddress"}, addr : {NoAddr}]
               \cup [op : {"GetAddress"}, addr : Addrs]

IsRead(item) == item.op = "GetAddress"

Command(op) == [op |-> op, addr |-> NoAddr]
Get(a)      == [op |-> "GetAddress", addr |-> a]
\* Each write is announced, then sent; neither message is answered.
Puts(n)     == [i \in 1..(2 * n) |-> Command(IF i % 2 = 1 THEN "PutAddress" ELSE "Data")]

\* Variant: Attach is taken for a request that is answered.
AttachAnswered(item) ==
    CASE item.op \in {"DeviceList", "Attach", "Info"} -> JSON_RESPONSE
      [] item.op = "GetAddress"                       -> Length[item.addr]
      [] OTHER                                        -> NO_RESPONSE

expectedResponse(item) ==
    CASE item.op \in {"DeviceList", "Info"} -> JSON_RESPONSE
      [] item.op = "GetAddress"             -> Length[item.addr]
      [] OTHER                              -> NO_RESPONSE

ExpectsResponse(item) == expectedResponse(item) # NO_RESPONSE

\* Drop the messages at the head of the queue that expect no response.
Drain(queue) ==
    LET first == SelectInSeq(queue, ExpectsResponse)
    IN  IF first = 0 THEN <<>> ELSE SubSeq(queue, first, Len(queue))

\* Variant: writes sent by the callback stay in front.
AnsweredUndrained(queue) == Tail(queue)

\* The head was answered: pop it, and drain what came to the front.
Answered(queue) == Drain(Tail(queue))

Bytes(a, from, to) == [i \in 1..(to - from + 1) |-> <<a, from + i - 1>>]

\* Variant: the other URI is never tried.
SwapNever(u) == u

\* The other well-known URI; a configured one stays.
Swap(u) ==
    CASE u = DefaultUri -> LegacyUri
      [] u = LegacyUri  -> DefaultUri
      [] OTHER          -> u

\* Variant: no cap.
Uncapped(n, max) == n

AtMost(n, max) == IF n > max THEN max ELSE n

-----------------------------------------------------------------------------
(* Connecting the socket.                                                   *)

\* Variant: only the receive buffer is cleared.
ForgetBuffer == UNCHANGED txQueue /\ rxBuffer' = <<>>

\* Clear the queue and the buffer, without running any callback.
ForgetPending == txQueue' = <<>> /\ rxBuffer' = <<>>

\* Variant: past the cap, the interval starts over.
BackoffRestarts ==
    IF 2 * reconnectInterval > MaxInterval THEN BaseInterval ELSE 2 * reconnectInterval

Backoff == AtMost(2 * reconnectInterval, MaxInterval)

\* connect_socket(): a new socket to the other URI.
ConnectSocket ==
    /\ uri' = Swap(uri)
    /\ ws' = "connecting"
    /\ state' = "SOCKET_CONNECTING"
    /\ ForgetPending
    /\ sockAge' = 0
    /\ reconnectInterval' = Backoff
    /\ owed' = <<>>
    /\ given' = 0
    /\ UNCHANGED <<status, reply, snesAge, envVars>>

\* The constructor swaps the URI once so that connect_socket() swaps it back.
Init ==
    /\ uri = Swap(Swap(ConfiguredUri))
    /\ ws = "connecting"
    /\ state = "SOCKET_CONNECTING"
    /\ txQueue = <<>>
    /\ rxBuffer = <<>>
    /\ reconnectInterval = AtMost(2 * BaseInterval, MaxInterval)
    /\ sockAge = 0
    /\ snesAge = Unset
    /\ status = "red"
    /\ reply = NoReply
    /\ owed = <<>>
    /\ given = 0
    /\ listening \in SUBSET Uris
    /\ device \in BOOLEAN

\* poll(): the attempt timed out, or it is time to try again.
PollReconnect ==
    /\ NoSocket
    /\ sockAge > reconnectInterval
    /\ ConnectSocket

\* poll(): a socket that closed is destroyed.
PollDropSocket ==
    /\ state = "DISCONNECTED"
    /\ ws # "none"
    /\ sockAge <= reconnectInterval
    /\ ws' = "none"
    /\ UNCHANGED <<uri, state, txQueue, rxBuffer, reconnectInterval, status, reply,
                   clockVars, serviceVars, envVars>>

\* Variant: the time of the request is not kept.
ConnectSnesUntimed(queue) ==
    /\ state' = "SNES_LIST"
    /\ txQueue' = Append(queue, Command("DeviceList"))
    /\ owed' = Append(owed, Command("DeviceList"))
    /\ UNCHANGED snesAge

\* connect_snes(), after the messages of queue: ask for the devices.
ConnectSnes(queue) ==
    /\ state' = "SNES_LIST"
    /\ txQueue' = Append(queue, Command("DeviceList"))
    /\ owed' = Append(owed, Command("DeviceList"))
    /\ snesAge' = 0

\* onopen(): introduce the client, then connect_snes().
OnOpen ==
    /\ state = "SOCKET_CONNECTING"
    /\ ws = "connecting"
    /\ uri \in listening
    /\ ws' = "open"
    /\ ConnectSnes(Append(txQueue, Command("Name")))
    /\ status' = "yellow"
    /\ UNCHANGED <<uri, rxBuffer, reconnectInterval, reply, sockAge, given, envVars>>

\* Variant: the handlers are not called.
StatusKept == status

\* onclose() calls its handlers only if there was a connection to lose.
StatusAfterClose == IF NoSocket THEN status ELSE "red"

\* onclose(): forget what was pending and report what was lost.
OnClose ==
    /\ ws' = "closed"
    /\ state' = "DISCONNECTED"
    /\ ForgetPending
    /\ status' = StatusAfterClose
    /\ owed' = <<>>
    /\ given' = 0
    /\ UNCHANGED <<uri, reconnectInterval, reply, clockVars, envVars>>

\* The service refuses the connection.
Refused ==
    /\ state = "SOCKET_CONNECTING"
    /\ ws = "connecting"
    /\ OnClose

\* The service, or the network, ends the connection.
LinkLost ==
    /\ ws = "open"
    /\ OnClose

-----------------------------------------------------------------------------
(* Finding and attaching the console.                                       *)

\* Variant: the list is asked for again while an answer is outstanding.
MayListAgain == state \in {"SOCKET_CONNECTED", "SNES_LIST"}

MayListDevices == state = "SOCKET_CONNECTED"

\* poll(): ask again for a device while none could be attached.
PollListDevices ==
    /\ MayListDevices
    /\ snesAge > SnesRetry
    /\ ConnectSnes(txQueue)
    /\ UNCHANGED <<uri, ws, rxBuffer, reconnectInterval, status, reply, sockAge,
                   given, envVars>>

\* onmessage(): the head of the queue, once drained, expects JSON.  The service
\* lists, and attaches, a device when it has one.
OnJson ==
    LET queue == Drain(txQueue)
        attach == <<Command("Attach"), Command("Info")>>
    IN  /\ ws = "open"
        /\ owed # <<>>
        /\ expectedResponse(Head(owed)) = JSON_RESPONSE
        /\ queue # <<>>
        /\ expectedResponse(Head(queue)) = JSON_RESPONSE
        /\ rxBuffer' = <<>>
        /\ \/ /\ state = "SNES_LIST"
              /\ device
              /\ state' = "SNES_CONNECTING"
              /\ txQueue' = Answered(queue \o attach)
              /\ owed' = Append(Tail(owed), Command("Info"))
              /\ UNCHANGED <<reconnectInterval, status>>
           \/ /\ state = "SNES_CONNECTING"
              /\ device
              /\ state' = "SNES_CONNECTED"
              /\ reconnectInterval' = BaseInterval
              /\ status' = "green"
              /\ txQueue' = Answered(queue)
              /\ owed' = Tail(owed)
           \/ /\ state \in {"SNES_LIST", "SNES_CONNECTING"}
              /\ ~device
              /\ state' = "SOCKET_CONNECTED"
              /\ txQueue' = Answered(queue)
              /\ owed' = Tail(owed)
              /\ UNCHANGED <<reconnectInterval, status>>
        /\ UNCHANGED <<uri, ws, reply, clockVars, given, envVars>>

-----------------------------------------------------------------------------
(* Reading and writing memory.                                              *)

\* idle()
Idle == state = "SNES_CONNECTED" /\ txQueue = <<>>

\* The game polls: when idle it asks for a batch of reads.
ReadBatch ==
    /\ Idle
    /\ \E batch \in BoundedSeq(Addrs, MaxBatch) :
         LET gets == [i \in DOMAIN batch |-> Get(batch[i])]
         IN  /\ batch # <<>>
             /\ txQueue' = txQueue \o gets
             /\ owed' = owed \o gets
    /\ UNCHANGED <<uri, ws, state, rxBuffer, reconnectInterval, status, reply,
                   clockVars, given, envVars>>

\* What the callback of a read of block a may send: another read, or writes.
CallbackSends(a) ==
    {[reads |-> <<Get(b)>>, writes |-> <<>>] : b \in Chained[a]}
        \cup {[reads |-> <<>>, writes |-> Puts(n)] :
                 n \in 0..(IF a \in Writers THEN MaxWrites ELSE 0)}

\* onmessage(): a chunk of the answer to a read; the last one runs the callback.
OnBytes ==
    \E queue \in {Drain(txQueue)} :
    /\ ws = "open"
    /\ device
    /\ owed # <<>>
    /\ Head(owed).op = "GetAddress"
    /\ queue # <<>>
    /\ expectedResponse(Head(queue)) # JSON_RESPONSE
    /\ \E n \in 1..(Length[Head(owed).addr] - given) :
         LET buffer   == rxBuffer \o Bytes(Head(owed).addr, given + 1, given + n)
             expected == expectedResponse(Head(queue))
             last     == given + n = Length[Head(owed).addr]
         IN  /\ given' = IF last THEN 0 ELSE given + n
             /\ IF Len(buffer) >= expected
                THEN \E more \in CallbackSends(Head(queue).addr) :
                       /\ reply' = [addr  |-> Head(queue).addr,
                                    bytes |-> SubSeq(buffer, 1, expected)]
                       /\ rxBuffer' = SubSeq(buffer, expected + 1, Len(buffer))
                       /\ txQueue' = Answered(queue \o more.reads \o more.writes)
                       /\ owed' = (IF last THEN Tail(owed) ELSE owed) \o more.reads
                ELSE /\ rxBuffer' = buffer
                     /\ txQueue' = queue
                     /\ owed' = IF last THEN Tail(owed) ELSE owed
                     /\ UNCHANGED reply
    /\ UNCHANGED <<uri, ws, state, reconnectInterval, status, clockVars, envVars>>

\* onmessage(): an empty message, or data nobody asked for.
OnNoise ==
    /\ ws = "open"
    /\ txQueue' = Drain(txQueue)
    /\ UNCHANGED <<uri, ws, state, rxBuffer, reconnectInterval, status, reply,
                   clockVars, serviceVars, envVars>>

-----------------------------------------------------------------------------
(* Time and the environment.                                                *)

Older(age) == IF age = Unset THEN Unset ELSE AtMost(age + 1, MaxAge)

Tick ==
    /\ sockAge' = Older(sockAge)
    /\ snesAge' = Older(snesAge)
    /\ UNCHANGED <<clientVars, serviceVars, envVars>>

ServiceChange ==
    /\ listening' \in SUBSET Uris
    /\ device' \in BOOLEAN
    /\ UNCHANGED <<clientVars, clockVars, serviceVars>>

Poll == PollReconnect \/ PollDropSocket \/ PollListDevices

Next ==
    \/ PollReconnect \/ PollDropSocket \/ PollListDevices
    \/ OnOpen \/ Refused \/ LinkLost
    \/ OnJson \/ OnBytes \/ OnNoise
    \/ ReadBatch
    \/ Tick \/ ServiceChange

\* The main loop polls for ever, time passes, a service that owes an answer
\* gives it, and one that accepts connections accepts one sooner or later
\* when it is tried again and again.
Fairness ==
    /\ WF_vars(Poll)
    /\ WF_vars(Tick)
    /\ WF_vars(OnJson)
    /\ WF_vars(OnBytes)
    /\ SF_vars(OnOpen)

Spec == Init /\ [][Next]_vars
FairSpec == Spec /\ Fairness

-----------------------------------------------------------------------------
(* Properties.                                                              *)

\* The values of the fields of USB2SNES, and of the service it talks to.
TypeOK ==
    /\ uri \in Uris
    /\ ws \in {"none", "connecting", "open", "closed"}
    /\ state \in States
    /\ txQueue \in Seq(TxItem)
    /\ rxBuffer \in Seq(Addrs \X Nat)
    /\ reconnectInterval \in BaseInterval..MaxInterval
    /\ sockAge \in 0..MaxAge
    /\ snesAge \in {Unset} \cup 0..MaxAge
    /\ status \in {"red", "yellow", "green"}
    /\ reply \in {NoReply} \cup [addr : Addrs, bytes : Seq(Addrs \X Nat)]
    /\ owed \in Seq(TxItem)
    /\ given \in Nat
    /\ listening \subseteq Uris
    /\ device \in BOOLEAN

\* The state and the socket object agree, and nothing is pending on a socket
\* that is not open: no send() ever uses a socket that is gone, and no request of
\* an earlier connection is left to swallow an answer of the next one.
LinkConsistent ==
    /\ ws = "connecting" <=> state = "SOCKET_CONNECTING"
    /\ ws = "open" <=> ~NoSocket
    /\ NoSocket => txQueue = <<>> /\ rxBuffer = <<>>

\* The messages of the queue that are among items, in their order.
Those(queue, items) ==
    LET chosen[i \in 0..Len(queue)] ==
            IF i = 0 THEN <<>>
            ELSE IF queue[i] \in items THEN Append(chosen[i - 1], queue[i]) ELSE chosen[i - 1]
    IN  chosen[Len(queue)]

Requests == {item \in TxItem : ExpectsResponse(item)}
Reads    == {item \in TxItem : IsRead(item)}

\* Responses carry no request id.  At every moment what the queue still expects is
\* exactly what the service still owes, in the same order, and the receive
\* buffer holds exactly the delivered part of the answer at the head.
RepliesMeetRequests ==
    /\ owed = Those(txQueue, Requests)
    /\ rxBuffer = IF owed # <<>> /\ Head(owed).op = "GetAddress"
                  THEN Bytes(Head(owed).addr, 1, given)
                  ELSE <<>>
    /\ Len(rxBuffer) = given

\* The one message waiting for its answer is the last of the queue.
OnlyLastAwaited(item) ==
    /\ txQueue # <<>>
    /\ txQueue[Len(txQueue)] = item
    /\ \A i \in 1..(Len(txQueue) - 1) : ~ExpectsResponse(txQueue[i])

\* onmessage() tells the answers to DeviceList and to Info apart by the state alone:
\* in each state of the handshake exactly that request is outstanding, and
\* reads are outstanding only once the console is attached.
AnswerFitsState ==
    CASE state = "SNES_LIST"       -> OnlyLastAwaited(Command("DeviceList"))
      [] state = "SNES_CONNECTING" -> OnlyLastAwaited(Command("Info"))
      [] state = "SNES_CONNECTED"  -> \A i \in DOMAIN txQueue :
                                         ExpectsResponse(txQueue[i]) => IsRead(txQueue[i])
      [] OTHER                     -> \A i \in DOMAIN txQueue :
                                         ~ExpectsResponse(txQueue[i])

\* A write is never answered, so it must not be what idle() waits for: whenever the
\* attached client is busy, the oldest pending message has an answer coming.
BusyIsAwaited ==
    state = "SNES_CONNECTED" /\ txQueue # <<>> => ExpectsResponse(Head(txQueue))

\* _lastSnesConnect has no initialiser; poll() compares it with the clock only
\* in a state that is not reached before connect_snes() has set it.
RetryClockSet == state = "SOCKET_CONNECTED" => snesAge # Unset

\* The colour the user sees is the one of the state: green exactly while memory can
\* be read, red exactly while there is no service.
StatusMatchesState ==
    status = CASE NoSocket                   -> "red"
               [] state = "SNES_CONNECTED"   -> "green"
               [] OTHER                      -> "yellow"

\* A service that accepts connections and drops them again does not make the client
\* try faster: only an attached console brings the retry interval back down.
NoReconnectStorm ==
    [][reconnectInterval' < reconnectInterval
         => state = "SNES_CONNECTING" /\ state' = "SNES_CONNECTED"]_vars

ReadsPending == Those(txQueue, Reads)

\* USB2SNES keeps the promises of MemoryChannel to the game.
Channel == INSTANCE MemoryChannel WITH
    up    <- state = "SNES_CONNECTED",
    asked <- [i \in DOMAIN ReadsPending |-> ReadsPending[i].addr]

ImplementsChannel == Channel!Spec

\* The URIs the client tries in turn.
Tried ==
    IF ConfiguredUri \in {DefaultUri, LegacyUri} THEN {DefaultUri, LegacyUri}
                                                 ELSE {ConfiguredUri}

\* Once a service with a console keeps listening on a URI the client knows, and
\* connections stop being cut, the client attaches and stays attached.
Reconnects ==
    \A u \in Uris :
        /\ u \in Tried
        /\ <>[](u \in listening /\ device)
        /\ <>[][~LinkLost]_vars
        => <>[](state = "SNES_CONNECTED")

\* A busy client becomes idle again, so the game is polled again, unless the
\* console or the link goes away first.
IdleAgain ==
    state = "SNES_CONNECTED" /\ txQueue # <<>>
        ~> Idle \/ state # "SNES_CONNECTED" \/ ~device

=============================================================================
