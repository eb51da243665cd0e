------------------------ MODULE Usb2SnesChannelProofs ------------------------
(***************************************************************************)
(* More proofs about Usb2Snes: what the queue still expects is what the      *)
(* service still owes, and USB2SNES keeps the promises of MemoryChannel.     *)
(*                                                                         *)
(* Both speak of the messages that are chosen from a queue of any length, so *)
(* the first part proves what Those does with queues that are joined, cut    *)
(* and drained, by induction over the positions of a queue: a set of them    *)
(* that has 0, and with each position the next, has them all.                *)
(***************************************************************************)
EXTENDS Usb2SnesProofs

-----------------------------------------------------------------------------
(* The messages chosen from a queue.                                        *)

\* Otherwise the set would miss a least position.
LEMMA LastPosition ==
    ASSUME NEW n \in Nat, NEW S, 0 \in S, \A i \in 0..(n - 1) : i \in S => i + 1 \in S
    PROVE  n \in S
<1> DEFINE missed == (0..n) \ S
<1>1. SUFFICES ASSUME n \notin S PROVE FALSE
  OBVIOUS
<1>2. missed \in SUBSET Nat /\ missed # {}
  BY <1>1
<1> DEFINE m == Min(missed)
<1>3. m \in missed /\ \A y \in missed : m <= y
  BY <1>2, MinOfNats
<1> HIDE DEF m
<1>4. m \in 0..n /\ m \notin S /\ m # 0
  BY <1>3
<1>5. m - 1 \in 0..(n - 1) /\ m - 1 \in 0..n
  BY <1>4
<1>6. m - 1 \in S
  BY <1>3, <1>4, <1>5
<1>. QED  BY <1>4, <1>5, <1>6

\* What Those keeps at each position.
Step(f, queue, items, i) ==
    IF queue[i] \in items THEN Append(f[i - 1], queue[i]) ELSE f[i - 1]

Chooses(f, queue, items) ==
    f[0] = <<>> /\ \A i \in 1..Len(queue) : f[i] = Step(f, queue, items, i)

\* The function that defines Those exists.
LEMMA ChosenExists ==
    ASSUME NEW M, NEW queue \in Seq(M), NEW items
    PROVE  \E f : Chooses(f, queue, items) /\ f = [i \in 0..Len(queue) |-> f[i]]
<1> DEFINE Upto(f, n) == /\ f = [i \in 0..n |-> f[i]]
                         /\ f[0] = <<>>
                         /\ \A i \in 1..n : f[i] = Step(f, queue, items, i)
           S == {n \in 0..Len(queue) : \E f : Upto(f, n)}
<1>1. Len(queue) \in Nat
  OBVIOUS
<1>2. 0 \in S
  <2> DEFINE f == [i \in 0..0 |-> <<>>]
  <2>1. f = [i \in 0..0 |-> f[i]] /\ f[0] = <<>> /\ 1..0 = {}
    OBVIOUS
  <2>2. Upto(f, 0)
    BY <2>1
  <2>3. 0 \in 0..Len(queue)
    BY <1>1
  <2> HIDE DEF f, Upto
  <2>. QED  BY <2>2, <2>3
<1>3. ASSUME NEW n \in 0..(Len(queue) - 1), n \in S PROVE n + 1 \in S
  <2>1. PICK f : Upto(f, n)
    BY <1>3
  <2> DEFINE g == [i \in 0..(n + 1) |-> IF i <= n THEN f[i] ELSE Step(f, queue, items, n + 1)]
  <2>2. n \in Nat /\ n + 1 \in 0..Len(queue)
    BY <1>1
  <2>3. /\ \A i \in 0..n : g[i] = f[i]
        /\ g[n + 1] = Step(f, queue, items, n + 1)
    BY <2>2
  <2>4. g = [i \in 0..(n + 1) |-> g[i]] /\ g[0] = <<>>
    BY <2>1, <2>2, <2>3
  <2>. HIDE DEF g
  <2>5. ASSUME NEW i \in 1..(n + 1) PROVE g[i] = Step(g, queue, items, i)
    <3>1. i - 1 \in 0..n 
      BY <2>2
    <3>2. g[i - 1] = f[i - 1]
      BY <2>3, <3>1
    <3>3. Step(g, queue, items, i) = Step(f, queue, items, i)
      BY <3>2, Zenon DEF Step
    <3>4. CASE i <= n
      <4>1. i \in 1..n /\ g[i] = f[i]
        BY <2>2, <2>3, <3>4
      <4>. QED  BY <2>1, <3>3, <4>1
    <3>5. CASE ~(i <= n)
      <4>1. i = n + 1
        BY <2>2, <3>5
      <4>. QED  BY <2>3, <3>3, <4>1
    <3>. QED  BY <3>4, <3>5
  <2>6. Upto(g, n + 1)
    BY <2>4, <2>5
  <2> HIDE DEF Upto
  <2>. QED  BY <2>2, <2>6
<1> HIDE DEF S
<1>4. Len(queue) \in S
  BY <1>1, <1>2, <1>3, LastPosition
<1>5. PICK f : Upto(f, Len(queue))
  BY <1>4 DEF S
<1>. QED  BY <1>5 DEF Chooses

LEMMA Chosen ==
    ASSUME NEW M, NEW queue \in Seq(M), NEW items
    PROVE  \E f : Chooses(f, queue, items) /\ Those(queue, items) = f[Len(queue)]
<1> DEFINE Rule(f) == [i \in 0..Len(queue) |->
                         IF i = 0 THEN <<>>
                         ELSE IF queue[i] \in items THEN Append(f[i - 1], queue[i]) ELSE f[i - 1]]
           chosen == CHOOSE f : f = Rule(f)
<1>1. Those(queue, items) = chosen[Len(queue)]
  BY Zenon DEF Those
<1>2. PICK f : Chooses(f, queue, items) /\ f = [i \in 0..Len(queue) |-> f[i]]
  BY ChosenExists
<1>3. Len(queue) \in Nat
  OBVIOUS
<1>4. f = Rule(f)
  <2>1. \A i \in 0..Len(queue) : f[i] = Rule(f)[i]
    <3>1. \A i \in 0..Len(queue) : i = 0 \/ i \in 1..Len(queue)
      BY <1>3
    <3>. QED  BY <1>2, <3>1 DEF Chooses, Step
  <2>. QED  BY <1>2, <2>1
<1>5. chosen = Rule(chosen)
  BY <1>4
<1>6. Chooses(chosen, queue, items)
  <2> HIDE DEF chosen
  <2>1. 0 \in 0..Len(queue) /\ \A i \in 1..Len(queue) : i \in 0..Len(queue) /\ i # 0
    BY <1>3
  <2>. QED  BY <1>5, <2>1 DEF Chooses, Step
<1>. QED  BY <1>1, <1>6

\* It is a sequence of messages of the queue.
LEMMA ThoseType ==
    ASSUME NEW M, NEW queue \in Seq(M), NEW items
    PROVE  /\ Those(queue, items) \in Seq(M \cap items)
           /\ Those(queue, items) \in Seq(M)
<1>1. PICK f : Chooses(f, queue, items) /\ Those(queue, items) = f[Len(queue)]
  BY Chosen
<1> DEFINE S == {i \in 0..Len(queue) : f[i] \in Seq(M \cap items)}
<1>2. Len(queue) \in Nat
  OBVIOUS
<1>3. 0 \in S
  <2>1. <<>> \in Seq(M \cap items)
    OBVIOUS
  <2>2. f[0] = <<>> /\ 0 \in 0..Len(queue)
    BY <1>1, <1>2 DEF Chooses
  <2> HIDE DEF S
  <2>3. f[0] \in Seq(M \cap items)
    BY <2>1, <2>2, Zenon
  <2>. QED  BY <2>2, <2>3 DEF S
<1>4. ASSUME NEW i \in 0..(Len(queue) - 1), i \in S PROVE i + 1 \in S
  <2>1. i + 1 \in 1..Len(queue) /\ i + 1 \in 0..Len(queue) /\ (i + 1) - 1 = i
    BY <1>2
  <2>2. f[i + 1] = IF queue[i + 1] \in items THEN Append(f[i], queue[i + 1]) ELSE f[i]
    BY <1>1, <2>1 DEF Chooses, Step
  <2>3. queue[i + 1] \in M /\ f[i] \in Seq(M \cap items)
    BY <1>4, <2>1
  <2>4. queue[i + 1] \in items => Append(f[i], queue[i + 1]) \in Seq(M \cap items)
    BY <2>3, AppendProperties
  <2>. QED  BY <2>1, <2>2, <2>3, <2>4
<1>5. Len(queue) \in S
  <2> HIDE DEF S
  <2>. QED  BY <1>2, <1>3, <1>4, LastPosition
<1>6. f[Len(queue)] \in Seq(M \cap items)
  BY <1>5
<1>7. \A s \in Seq(M \cap items) : s \in Seq(M)
  OBVIOUS
<1>. QED  BY <1>1, <1>6, <1>7

\* Two joined queues.
LEMMA ThoseJoined ==
    ASSUME NEW M, NEW p \in Seq(M), NEW q \in Seq(M), NEW items
    PROVE  Those(p \o q, items) = Those(p, items) \o Those(q, items)
<1>1. PICK f : Chooses(f, p \o q, items) /\ Those(p \o q, items) = f[Len(p \o q)]
  BY ConcatProperties, Chosen
<1>2. PICK g : Chooses(g, p, items) /\ Those(p, items) = g[Len(p)]
  BY Chosen
<1>3. PICK h : Chooses(h, q, items) /\ Those(q, items) = h[Len(q)]
  BY Chosen
<1>4. /\ Len(p) \in Nat /\ Len(q) \in Nat
      /\ p \o q \in Seq(M) /\ Len(p \o q) = Len(p) + Len(q)
      /\ \A i \in 1..Len(p) : (p \o q)[i] = p[i]
      /\ \A i \in 1..Len(q) : (p \o q)[Len(p) + i] = q[i]
  <2>1. Len(p) \in Nat /\ Len(q) \in Nat
    OBVIOUS
  <2>2. /\ p \o q \in Seq(M) /\ Len(p \o q) = Len(p) + Len(q)
        /\ \A i \in 1..(Len(p) + Len(q)) : (p \o q)[i] = IF i <= Len(p) THEN p[i] ELSE q[i - Len(p)]
    BY ConcatProperties
  <2> DEFINE pq == p \o q
  <2> HIDE DEF pq
  <2>3. \A i \in 1..Len(p) : pq[i] = p[i]
    BY <2>1, <2>2 DEF pq
  <2>4. ASSUME NEW i \in 1..Len(q) PROVE pq[Len(p) + i] = q[i]
    <3>1. Len(p) + i \in 1..(Len(p) + Len(q)) /\ ~(Len(p) + i <= Len(p)) /\ (Len(p) + i) - Len(p) = i
      BY <2>1
    <3>. QED  BY <2>2, <3>1 DEF pq
  <2>. QED  BY <2>1, <2>2, <2>3, <2>4 DEF pq
<1> DEFINE pq == p \o q
<1> HIDE DEF pq
\* Up to the end of p.
<1>5. f[Len(p)] = g[Len(p)]
  <2> DEFINE S == {i \in 0..Len(p) : f[i] = g[i]}
  <2>1. 0 \in S
    BY <1>1, <1>2, <1>4 DEF Chooses
  <2>2. ASSUME NEW i \in 0..(Len(p) - 1), i \in S PROVE i + 1 \in S
    <3>1. /\ i + 1 \in 1..Len(p) /\ i + 1 \in 0..Len(p) /\ (i + 1) - 1 = i
          /\ i + 1 \in 1..Len(pq) /\ pq[i + 1] = p[i + 1]
      BY <1>4 DEF pq
    <3>2. f[i + 1] = Step(f, pq, items, i + 1) /\ g[i + 1] = Step(g, p, items, i + 1)
      BY <1>1, <1>2, <3>1 DEF Chooses, pq
    <3>3. f[i] = g[i]
      BY <2>2
    <3>. QED  BY <3>1, <3>2, <3>3 DEF Step
  <2> HIDE DEF S
  <2>3. Len(p) \in S
    BY <1>4, <2>1, <2>2, LastPosition
  <2>. QED  BY <2>3 DEF S
\* And on, along q.
<1>6. f[Len(p) + Len(q)] = g[Len(p)] \o h[Len(q)]
  <2> DEFINE before == g[Len(p)]
             S == {i \in 0..Len(q) : h[i] \in Seq(M) /\ f[Len(p) + i] = before \o h[i]}
  <2>1. before \in Seq(M)
    BY <1>2, ThoseType
  <2> HIDE DEF before
  <2>2. 0 \in S
    <3>1. before \o <<>> = before
      BY <2>1, ConcatEmptySeq
    <3>2. Len(p) + 0 = Len(p) /\ 0 \in 0..Len(q) /\ <<>> \in Seq(M) /\ h[0] = <<>>
      BY <1>3, <1>4 DEF Chooses
    <3>. QED  BY <1>5, <3>1, <3>2 DEF before
  <2>3. ASSUME NEW i \in 0..(Len(q) - 1), i \in S PROVE i + 1 \in S
    <3>1. /\ i + 1 \in 1..Len(q) /\ i + 1 \in 0..Len(q) /\ (i + 1) - 1 = i
          /\ Len(p) + (i + 1) \in 1..Len(pq) /\ (Len(p) + (i + 1)) - 1 = Len(p) + i
          /\ pq[Len(p) + (i + 1)] = q[i + 1]
          /\ q[i + 1] \in M
      BY <1>4 DEF pq
    <3>2. /\ f[Len(p) + (i + 1)] = Step(f, pq, items, Len(p) + (i + 1))
          /\ h[i + 1] = Step(h, q, items, i + 1)
      BY <1>1, <1>3, <3>1 DEF Chooses, pq
    <3>3. h[i] \in Seq(M) /\ f[Len(p) + i] = before \o h[i]
      BY <2>3
    <3> DEFINE x == q[i + 1]
               s == h[i]
    <3>4. Append(before \o s, x) = before \o Append(s, x) /\ Append(s, x) \in Seq(M)
      <4>1. x \in M /\ s \in Seq(M)
        BY <3>1, <3>3
      <4> HIDE DEF x, s
      <4>2. <<x>> \in Seq(M) /\ Append(s, x) \in Seq(M) /\ before \o s \in Seq(M)
        BY <2>1, <4>1, AppendProperties, ConcatProperties
      <4>3. Append(before \o s, x) = (before \o s) \o <<x>> /\ Append(s, x) = s \o <<x>>
        BY <4>1, <4>2, AppendIsConcat
      <4>4. (before \o s) \o <<x>> = before \o (s \o <<x>>)
        BY <2>1, <4>1, <4>2, ConcatAssociative
      <4>. QED  BY <4>2, <4>3, <4>4
    <3>. QED  BY <3>1, <3>2, <3>3, <3>4 DEF Step
  <2> HIDE DEF S
  <2>4. Len(q) \in S
    BY <1>4, <2>2, <2>3, LastPosition
  <2>. QED  BY <2>4 DEF S, before
<1>. QED  BY <1>1, <1>2, <1>3, <1>4, <1>6

\* Which items there are besides the messages of the queue does not matter.
LEMMA ThoseAgree ==
    ASSUME NEW M, NEW queue \in Seq(M), NEW A, NEW B,
           \A i \in 1..Len(queue) : queue[i] \in A <=> queue[i] \in B
    PROVE  Those(queue, A) = Those(queue, B)
<1>1. PICK f : Chooses(f, queue, A) /\ Those(queue, A) = f[Len(queue)]
  BY Chosen
<1>2. PICK g : Chooses(g, queue, B) /\ Those(queue, B) = g[Len(queue)]
  BY Chosen
<1> DEFINE S == {i \in 0..Len(queue) : f[i] = g[i]}
<1>3. Len(queue) \in Nat
  OBVIOUS
<1>4. 0 \in S
  BY <1>1, <1>2, <1>3 DEF Chooses
<1>5. ASSUME NEW i \in 0..(Len(queue) - 1), i \in S PROVE i + 1 \in S
  <2>1. i + 1 \in 1..Len(queue) /\ i + 1 \in 0..Len(queue) /\ (i + 1) - 1 = i
    BY <1>3
  <2>2. f[i + 1] = Step(f, queue, A, i + 1) /\ g[i + 1] = Step(g, queue, B, i + 1)
    BY <1>1, <1>2, <2>1 DEF Chooses
  <2>3. f[i] = g[i]
    BY <1>5
  <2>. QED  BY <2>1, <2>2, <2>3 DEF Step
<1> HIDE DEF S
<1>6. Len(queue) \in S
  BY <1>3, <1>4, <1>5, LastPosition
<1>. QED  BY <1>1, <1>2, <1>6 DEF S

\* Nothing chosen.
LEMMA ThoseNone ==
    ASSUME NEW M, NEW queue \in Seq(M), NEW items, \A i \in 1..Len(queue) : queue[i] \notin items
    PROVE  Those(queue, items) = <<>>
<1>1. Those(queue, items) = Those(queue, {})
  BY ThoseAgree
<1>2. Those(queue, {}) \in Seq(M \cap {})
  BY ThoseType
<1>3. \A s \in Seq(M \cap {}) : s = <<>>
  OBVIOUS
<1>. QED  BY <1>1, <1>2, <1>3

LEMMA ThoseEmpty == ASSUME NEW items PROVE Those(<<>>, items) = <<>>
<1> DEFINE empty == <<>>
<1>1. empty \in Seq({}) /\ \A i \in 1..Len(empty) : empty[i] \notin items
  OBVIOUS
<1> HIDE DEF empty
<1>2. Those(empty, items) = <<>>
  BY <1>1, ThoseNone
<1>. QED  BY <1>2 DEF empty

\* One message.
LEMMA ThoseOne ==
    ASSUME NEW M, NEW m \in M, NEW items
    PROVE  Those(<<m>>, items) = IF m \in items THEN <<m>> ELSE <<>>
<1>1. <<m>> \in Seq(M) /\ Len(<<m>>) = 1 /\ <<m>>[1] = m
  OBVIOUS
<1>2. PICK f : Chooses(f, <<m>>, items) /\ Those(<<m>>, items) = f[1]
  BY <1>1, Chosen
<1>3. f[0] = <<>> /\ f[1] = IF m \in items THEN Append(f[0], m) ELSE f[0]
  <2>1. 1 \in 1..1 /\ 1 - 1 = 0
    OBVIOUS
  <2>. QED  BY <1>1, <1>2, <2>1 DEF Chooses, Step
<1>4. Append(<<>>, m) = <<m>>
  OBVIOUS
<1>. QED  BY <1>2, <1>3, <1>4

\* All chosen.
LEMMA ThoseAll ==
    ASSUME NEW M, NEW queue \in Seq(M), NEW items, \A i \in 1..Len(queue) : queue[i] \in items
    PROVE  Those(queue, items) = queue
<1>1. PICK f : Chooses(f, queue, items) /\ Those(queue, items) = f[Len(queue)]
  BY Chosen
<1> DEFINE Same(i) == /\ f[i] \in Seq(M) /\ Len(f[i]) = i
                      /\ \A j \in 1..i : f[i][j] = queue[j]
           S == {i \in 0..Len(queue) : Same(i)}
<1>2. Len(queue) \in Nat
  OBVIOUS
<1>3. 0 \in S
  <2>1. <<>> \in Seq(M) /\ Len(<<>>) = 0 /\ f[0] = <<>> /\ 0 \in 0..Len(queue)
    BY <1>1, <1>2 DEF Chooses
  <2>2. Same(0)
    BY <2>1
  <2> HIDE DEF Same
  <2>. QED  BY <2>1, <2>2
<1>4. ASSUME NEW i \in 0..(Len(queue) - 1), i \in S PROVE i + 1 \in S
  <2>1. /\ i \in Nat /\ i + 1 \in 1..Len(queue) /\ i + 1 \in 0..Len(queue) /\ (i + 1) - 1 = i
        /\ queue[i + 1] \in M
    BY <1>2
  <2>2. f[i + 1] = Append(f[i], queue[i + 1])
    BY <1>1, <2>1 DEF Chooses, Step
  <2>3. Same(i)
    BY <1>4
  <2> DEFINE s == f[i]
             x == queue[i + 1]
  <2>4. /\ Append(s, x) \in Seq(M) /\ Len(Append(s, x)) = i + 1
        /\ \A j \in 1..i : Append(s, x)[j] = s[j]
        /\ Append(s, x)[i + 1] = x
    <3>1. s \in Seq(M) /\ Len(s) = i /\ x \in M
      BY <2>1, <2>3
    <3> HIDE DEF s, x
    <3>. QED  BY <3>1, AppendProperties
  <2>5. \A j \in 1..(i + 1) : j \in 1..i \/ j = i + 1
    BY <2>1
  <2>6. Same(i + 1)
    BY <2>1, <2>2, <2>3, <2>4, <2>5
  <2>. QED  BY <2>1, <2>6
<1>5. Len(queue) \in S
  <2> HIDE DEF S
  <2>. QED  BY <1>2, <1>3, <1>4, LastPosition
<1>6. Same(Len(queue))
  BY <1>5
<1>. QED  BY <1>1, <1>6, SeqEqual

-----------------------------------------------------------------------------
(* The messages of the client's queue that matter.                          *)

LEMMA Kinds ==
    /\ Requests \subseteq TxItem /\ Reads \subseteq Requests
    /\ \A op \in {"Name", "Attach", "PutAddress", "Data"} : Command(op) \notin Requests
    /\ Command("DeviceList") \in Requests /\ Command("Info") \in Requests
    /\ \A op \in Opcodes \ {"GetAddress"} : Command(op) \notin Reads
    /\ \A a \in Addrs : Get(a) \in Reads /\ Get(a) \in TxItem /\ Get(a).addr = a
<1>1. Reads \subseteq Requests
  <2>1. \A item \in TxItem : IsRead(item) => expectedResponse(item) \in Nat \ {0}
    BY Messages
  <2>. QED  BY <2>1 DEF Reads, Requests, ExpectsResponse, NO_RESPONSE
<1>2. \A op \in Opcodes \ {"GetAddress"} : ~IsRead(Command(op))
  BY DEF IsRead, Command
<1>3. \A a \in Addrs : Get(a).addr = a
  BY DEF Get
<1>. QED  BY <1>1, <1>2, <1>3, Messages DEF Requests, Reads, Opcodes

\* What is drained was not awaited.
LEMMA ThoseDrained ==
    ASSUME NEW queue \in Seq(TxItem), NEW items, items \subseteq Requests
    PROVE  Those(Drain(queue), items) = Those(queue, items)
<1>1. Len(queue) \in Nat
  OBVIOUS
<1>2. CASE /\ Drain(queue) = <<>>
           /\ \A i \in 1..Len(queue) : ~ExpectsResponse(queue[i])
  <2>1. \A i \in 1..Len(queue) : queue[i] \notin items
    BY <1>2 DEF Requests
  <2>2. Those(queue, items) = <<>>
    BY <2>1, ThoseNone
  <2>4. Those(<<>>, items) = <<>>
    BY ThoseEmpty
  <2>. QED  BY <1>2, <2>2, <2>4
<1>3. CASE \E n \in 1..Len(queue) :
             /\ Drain(queue) = SubSeq(queue, n, Len(queue))
             /\ ExpectsResponse(queue[n])
             /\ \A i \in 1..(n - 1) : ~ExpectsResponse(queue[i])
  <2>1. PICK n \in 1..Len(queue) :
             /\ Drain(queue) = SubSeq(queue, n, Len(queue))
             /\ \A i \in 1..(n - 1) : ~ExpectsResponse(queue[i])
    BY <1>3
  <2> DEFINE front == SubSeq(queue, 1, n - 1)
             rest  == SubSeq(queue, n, Len(queue))
  <2>2. front \in Seq(TxItem) /\ Len(front) = n - 1 /\ \A i \in 1..(n - 1) : front[i] = queue[i]
    <3>1. 1 \in Int /\ n - 1 \in Int /\ \A i \in 1..(n - 1) : queue[i] \in TxItem
      BY <1>1
    <3>2. /\ front \in Seq(TxItem)
          /\ Len(front) = IF 1 <= n - 1 THEN (n - 1) - 1 + 1 ELSE 0
          /\ \A i \in 1..((n - 1) - 1 + 1) : front[i] = queue[1 + i - 1]
      BY <3>1, SubSeqProperties
    <3> HIDE DEF front
    <3>. QED  BY <3>2
  <2>3. rest \in Seq(TxItem)
    BY <2>1, DrainFacts
  <2>4. front \o rest = queue
    <3>1. /\ 1 \in 1..(Len(queue) + 1) /\ n - 1 \in (1 - 1)..Len(queue)
          /\ Len(queue) \in (n - 1)..Len(queue) /\ (n - 1) + 1 = n
      BY <1>1
    <3>2. SubSeq(queue, 1, n - 1) \o SubSeq(queue, (n - 1) + 1, Len(queue))
            = SubSeq(queue, 1, Len(queue))
      BY <3>1, ConcatAdjacentSubSeq
    <3>3. SubSeq(queue, 1, Len(queue)) = queue
      BY SubSeqFull
    <3>. QED  BY <3>1, <3>2, <3>3
  <2>5. \A i \in 1..Len(front) : front[i] \notin items
    BY <2>1, <2>2 DEF Requests
  <2> HIDE DEF front, rest
  <2>6. Those(front, items) = <<>>
    BY <2>2, <2>5, ThoseNone
  <2>7. Those(queue, items) = Those(front, items) \o Those(rest, items)
    <3>1. Those(front \o rest, items) = Those(front, items) \o Those(rest, items)
      BY <2>2, <2>3, ThoseJoined
    <3>. QED  BY <2>4, <3>1, Zenon
  <2>8. Those(rest, items) \in Seq(TxItem)
    BY <2>3, ThoseType
  <2>9. Those(queue, items) = Those(rest, items)
    BY <2>6, <2>7, <2>8, ConcatEmptySeq
  <2>. QED  BY <2>1, <2>9 DEF rest
<1>. QED  BY <1>2, <1>3, DrainProperties

\* The head and the tail of a message and a queue behind it.
LEMMA HeadTailOfJoined ==
    ASSUME NEW M, NEW m \in M, NEW queue \in Seq(M)
    PROVE  /\ <<m>> \o queue # <<>>
           /\ Head(<<m>> \o queue) = m
           /\ Tail(<<m>> \o queue) = queue
<1> DEFINE one == <<m>>
<1>1. one \in Seq(M) /\ Len(one) = 1 /\ one[1] = m /\ Len(queue) \in Nat
  OBVIOUS
<1> HIDE DEF one
<1>2. /\ one \o queue \in Seq(M)
      /\ Len(one \o queue) = Len(one) + Len(queue)
      /\ \A i \in 1..(Len(one) + Len(queue)) :
            (one \o queue)[i] = IF i <= Len(one) THEN one[i] ELSE queue[i - Len(one)]
  BY <1>1, ConcatProperties
<1> DEFINE both == one \o queue
<1> HIDE DEF both
<1>3. /\ both \in Seq(M) /\ Len(both) = Len(queue) + 1 /\ both[1] = m
      /\ \A i \in 1..Len(queue) : both[i + 1] = queue[i]
  <2>1. both[1] = m
    BY <1>1, <1>2 DEF both
  <2>2. ASSUME NEW i \in 1..Len(queue) PROVE both[i + 1] = queue[i]
    <3>1. i + 1 \in 1..(Len(one) + Len(queue)) /\ ~(i + 1 <= Len(one)) /\ (i + 1) - Len(one) = i
      BY <1>1
    <3>. QED  BY <1>2, <3>1 DEF both
  <2>. QED  BY <1>1, <1>2, <2>1, <2>2 DEF both
<1>4. both # <<>> /\ Head(both) = m
  BY <1>1, <1>3
<1>5. /\ Tail(both) \in Seq(M) /\ Len(Tail(both)) = Len(queue)
      /\ \A i \in 1..Len(queue) : Tail(both)[i] = both[i + 1]
  <2>1. /\ Tail(both) \in Seq(M) /\ Len(Tail(both)) = Len(both) - 1
        /\ \A i \in 1..Len(Tail(both)) : Tail(both)[i] = both[i + 1]
    BY <1>3, <1>4, HeadTailProperties
  <2>. QED  BY <1>1, <1>3, <2>1
<1>6. Tail(both) = queue
  BY <1>3, <1>5, SeqEqual
<1>. QED  BY <1>4, <1>6 DEF both, one

\* A queue is its head and its tail.
LEMMA HeadThenTail ==
    ASSUME NEW M, NEW queue \in Seq(M), queue # <<>>
    PROVE  queue = <<Head(queue)>> \o Tail(queue)
<1>1. /\ Len(queue) \in Nat /\ 1 \in 1..Len(queue) /\ Len(queue) \in 1..Len(queue)
      /\ queue[1] = Head(queue)
  OBVIOUS
<1>2. SubSeq(queue, 1, Len(queue)) = <<queue[1]>> \o SubSeq(queue, 1 + 1, Len(queue))
  BY <1>1, SubSeqRecursiveFirst
<1>3. SubSeq(queue, 1, Len(queue)) = queue /\ Tail(queue) = SubSeq(queue, 2, Len(queue))
  BY SubSeqFull, TailIsSubSeq
<1>. QED  BY <1>1, <1>2, <1>3

\* Messages sent behind a queue do not change its head.
LEMMA HeadTailOfExtended ==
    ASSUME NEW M, NEW p \in Seq(M), p # <<>>, NEW q \in Seq(M)
    PROVE  /\ p \o q \in Seq(M) /\ p \o q # <<>>
           /\ Tail(p) \in Seq(M)
           /\ Head(p \o q) = Head(p)
           /\ Tail(p \o q) = Tail(p) \o q
<1> DEFINE h == Head(p)
           t == Tail(p)
           one == <<h>>
<1>1. h \in M /\ t \in Seq(M) /\ one \in Seq(M)
  BY HeadTailProperties
<1>2. p = one \o t
  BY HeadThenTail
<1> HIDE DEF h, t, one
<1>3. t \o q \in Seq(M)
  BY <1>1, ConcatProperties
<1>4. (one \o t) \o q = one \o (t \o q)
  BY <1>1, ConcatAssociative
<1>5. p \o q = one \o (t \o q)
  BY <1>2, <1>4, Zenon
<1>6. /\ one \o (t \o q) # <<>> /\ Head(one \o (t \o q)) = h
      /\ Tail(one \o (t \o q)) = t \o q
  BY <1>1, <1>3, HeadTailOfJoined DEF one
<1>. QED  BY <1>1, <1>5, <1>6, ConcatProperties DEF h, t

\* The head of a queue.
LEMMA ThoseHead ==
    ASSUME NEW M, NEW queue \in Seq(M), queue # <<>>, NEW items
    PROVE  /\ Head(queue) \in items =>
                /\ Those(queue, items) # <<>>
                /\ Head(Those(queue, items)) = Head(queue)
                /\ Tail(Those(queue, items)) = Those(Tail(queue), items)
           /\ Head(queue) \notin items => Those(queue, items) = Those(Tail(queue), items)
<1> DEFINE h == Head(queue)
           t == Tail(queue)
<1>1. h \in M /\ t \in Seq(M) /\ <<h>> \in Seq(M)
  BY HeadTailProperties
<1>2. queue = <<h>> \o t
  BY HeadThenTail
<1> HIDE DEF h, t
<1>3. Those(queue, items) = Those(<<h>>, items) \o Those(t, items)
  <2> DEFINE one == <<h>>
  <2>1. one \in Seq(M)
    BY <1>1
  <2> HIDE DEF one
  <2>2. Those(one \o t, items) = Those(one, items) \o Those(t, items)
    BY <1>1, <2>1, ThoseJoined
  <2>. QED  BY <1>2, <2>2, Zenon DEF one
<1>4. Those(<<h>>, items) = IF h \in items THEN <<h>> ELSE <<>>
  BY <1>1, ThoseOne
<1>5. Those(t, items) \in Seq(M)
  BY <1>1, ThoseType
<1>6. CASE h \in items
  <2> DEFINE rest == Those(t, items)
  <2>1. Those(queue, items) = <<h>> \o rest /\ rest \in Seq(M)
    BY <1>3, <1>4, <1>5, <1>6
  <2> HIDE DEF rest
  <2>2. <<h>> \o rest # <<>> /\ Head(<<h>> \o rest) = h /\ Tail(<<h>> \o rest) = rest
    BY <1>1, <2>1, HeadTailOfJoined
  <2>. QED  BY <1>6, <2>1, <2>2 DEF rest, h, t
<1>7. CASE h \notin items
  <2>1. Those(queue, items) = Those(t, items)
    BY <1>3, <1>4, <1>5, <1>7, ConcatEmptySeq
  <2>. QED  BY <1>7, <2>1 DEF h, t
<1>. QED  BY <1>6, <1>7

-----------------------------------------------------------------------------
(* What the queue expects is what the service owes.                         *)

\* RepliesMeetRequests, of any values of the four variables.
Meets(o, q, b, g) ==
    /\ o = Those(q, Requests)
    /\ b = IF o # <<>> /\ Head(o).op = "GetAddress" THEN Bytes(Head(o).addr, 1, g) ELSE <<>>
    /\ Len(b) = g

LEMMA MeetsNow == RepliesMeetRequests <=> Meets(owed, txQueue, rxBuffer, given)
BY Zenon DEF RepliesMeetRequests, Meets

LEMMA MeetsNext == RepliesMeetRequests' <=> Meets(owed', txQueue', rxBuffer', given')
BY Zenon DEF RepliesMeetRequests, Meets, Those, Requests, TxItem, Opcodes, ExpectsResponse,
             expectedResponse, NO_RESPONSE, JSON_RESPONSE, Bytes

\* How the chunks of an answer fit together.
LEMMA BytesJoined ==
    ASSUME NEW a \in Addrs, NEW k \in Nat, NEW n \in Nat
    PROVE  Bytes(a, 1, k) \o Bytes(a, k + 1, k + n) = Bytes(a, 1, k + n)
<1> DEFINE p == Bytes(a, 1, k)
           q == Bytes(a, k + 1, k + n)
           r == Bytes(a, 1, k + n)
<1>1. /\ 1 \in Nat \ {0} /\ 1 <= k + 1 /\ k + n \in Nat /\ 1 <= (k + n) + 1
      /\ k + 1 \in Nat \ {0} /\ k + 1 <= (k + n) + 1
      /\ k - 1 + 1 = k /\ (k + n) - (k + 1) + 1 = n /\ (k + n) - 1 + 1 = k + n
  OBVIOUS
<1>2. /\ p \in Seq(Addrs \X Nat) /\ Len(p) = k
      /\ \A i \in 1..k : p[i] = <<a, 1 + i - 1>>
  BY <1>1, BytesProperties
<1>3. /\ q \in Seq(Addrs \X Nat) /\ Len(q) = n
      /\ \A i \in 1..n : q[i] = <<a, (k + 1) + i - 1>>
  BY <1>1, BytesProperties
<1>4. /\ r \in Seq(Addrs \X Nat) /\ Len(r) = k + n
      /\ \A i \in 1..(k + n) : r[i] = <<a, 1 + i - 1>>
  BY <1>1, BytesProperties
<1> HIDE DEF p, q, r
<1>5. /\ p \o q \in Seq(Addrs \X Nat) /\ Len(p \o q) = k + n
      /\ \A i \in 1..(k + n) : (p \o q)[i] = IF i <= k THEN p[i] ELSE q[i - k]
  BY <1>2, <1>3, ConcatProperties
<1> DEFINE pq == p \o q
<1> HIDE DEF pq
<1>6. ASSUME NEW i \in 1..(k + n) PROVE pq[i] = r[i]
  <2>1. CASE i <= k
    BY <1>2, <1>4, <1>5, <2>1 DEF pq
  <2>2. CASE ~(i <= k)
    <3>1. i - k \in 1..n /\ (k + 1) + (i - k) - 1 = 1 + i - 1
      BY <2>2
    <3>2. q[i - k] = <<a, (k + 1) + (i - k) - 1>>
      BY <1>3, <3>1
    <3>. QED  BY <1>4, <1>5, <2>2, <3>1, <3>2 DEF pq
  <2>. QED  BY <2>1, <2>2
<1>7. pq = r
  BY <1>4, <1>5, <1>6, SeqEqual DEF pq
<1>. QED  BY <1>7 DEF pq, p, q, r

\* Nothing is delivered yet.
LEMMA NothingDelivered == ASSUME NEW a \in Addrs PROVE Bytes(a, 1, 0) = <<>>
<1>1. Bytes(a, 1, 0) \in Seq(Addrs \X Nat) /\ Len(Bytes(a, 1, 0)) = 0
  <2>1. 0 - 1 + 1 = 0 /\ 1 <= 0 + 1
    OBVIOUS
  <2>. QED  BY <2>1, BytesProperties
<1>. QED  BY <1>1, EmptySeq

\* Between two answers, it is enough that the requests agree.
LEMMA MeetsFresh ==
    ASSUME NEW q \in Seq(TxItem)
    PROVE  Meets(Those(q, Requests), q, <<>>, 0)
<1> DEFINE o == Those(q, Requests)
<1>1. o \in Seq(TxItem)
  BY ThoseType
<1> HIDE DEF o
<1>2. ASSUME o # <<>>, Head(o).op = "GetAddress" PROVE Bytes(Head(o).addr, 1, 0) = <<>>
  <2>1. Head(o) \in TxItem
    BY <1>1, <1>2, HeadTailProperties
  <2>2. Head(o).addr \in Addrs
    BY <1>2, <2>1, Messages DEF IsRead
  <2>. QED  BY <2>2, NothingDelivered
<1>. QED  BY <1>2, Zenon, EmptySeq DEF Meets, o

\* onmessage() has answered the head of a queue, and extra was sent behind it meanwhile.
LEMMA AnsweredThose ==
    ASSUME NEW queue \in Seq(TxItem), queue # <<>>, NEW extra \in Seq(TxItem),
           NEW items, items \subseteq Requests
    PROVE  /\ Answered(queue \o extra) \in Seq(TxItem)
           /\ Those(Answered(queue \o extra), items)
                = Those(Tail(queue), items) \o Those(extra, items)
<1> DEFINE sent == queue \o extra
           tail == Tail(queue)
<1>1. sent \in Seq(TxItem) /\ sent # <<>> /\ tail \in Seq(TxItem) /\ Tail(sent) = tail \o extra
  BY HeadTailOfExtended
<1> HIDE DEF sent, tail
<1>2. tail \o extra \in Seq(TxItem)
  BY <1>1, ConcatProperties
<1>3. Answered(sent) = Drain(tail \o extra)
  BY <1>1 DEF Answered
<1>4. Drain(tail \o extra) \in Seq(TxItem)
  BY <1>2, DrainFacts
<1>5. Those(Drain(tail \o extra), items) = Those(tail \o extra, items)
  BY <1>2, ThoseDrained
<1>6. Those(tail \o extra, items) = Those(tail, items) \o Those(extra, items)
  BY <1>1, ThoseJoined
<1>. QED  BY <1>3, <1>4, <1>5, <1>6, Zenon DEF sent, tail

\* The queue, once drained, and the service agree on what is answered next.
LEMMA Aligned ==
    ASSUME Inv, RepliesMeetRequests
    PROVE  LET queue == Drain(txQueue)
           IN  /\ queue \in Seq(TxItem)
               /\ owed = Those(queue, Requests)
               /\ queue = <<>> <=> owed = <<>>
               /\ queue # <<>> => /\ Head(queue) = Head(owed)
                                  /\ Tail(queue) \in Seq(TxItem)
                                  /\ Tail(owed) = Those(Tail(queue), Requests)
<1> DEFINE queue == Drain(txQueue)
<1>1. txQueue \in Seq(TxItem) /\ owed = Those(txQueue, Requests)
  BY DEF Inv, TypeOK, RepliesMeetRequests
<1>2. /\ queue \in Seq(TxItem)
      /\ queue # <<>> => ExpectsResponse(Head(queue))
  BY <1>1, DrainFacts
<1>3. owed = Those(queue, Requests)
  BY <1>1, ThoseDrained
<1> HIDE DEF queue
<1>4. CASE queue = <<>>
  BY <1>2, <1>3, <1>4, ThoseEmpty DEF queue
<1>5. CASE queue # <<>>
  <2>1. Head(queue) \in TxItem /\ Tail(queue) \in Seq(TxItem)
    BY <1>2, <1>5, HeadTailProperties
  <2>2. Head(queue) \in Requests
    BY <1>2, <1>5, <2>1 DEF Requests
  <2>3. /\ Those(queue, Requests) # <<>>
        /\ Head(Those(queue, Requests)) = Head(queue)
        /\ Tail(Those(queue, Requests)) = Those(Tail(queue), Requests)
    BY <1>2, <1>5, <2>2, ThoseHead
  <2>. QED  BY <1>2, <1>3, <1>5, <2>1, <2>3 DEF queue
<1>. QED  BY <1>4, <1>5

\* Only an answer to a read comes in pieces.
LEMMA NothingGiven ==
    ASSUME Inv, RepliesMeetRequests, owed = <<>> \/ Head(owed).op # "GetAddress"
    PROVE  rxBuffer = <<>> /\ given = 0
BY EmptySeq DEF RepliesMeetRequests

\* Nothing is asked for before the handshake, and nothing of it after.
LEMMA AskedOnLink ==
    ASSUME Inv, RepliesMeetRequests
    PROVE  state \in {"DISCONNECTED", "SOCKET_CONNECTING", "SOCKET_CONNECTED"} => owed = <<>>
<1>1. txQueue \in Seq(TxItem) /\ owed = Those(txQueue, Requests)
  BY DEF Inv, TypeOK, RepliesMeetRequests
<1>2. ASSUME state \in {"DISCONNECTED", "SOCKET_CONNECTING", "SOCKET_CONNECTED"}
      PROVE  \A i \in 1..Len(txQueue) : txQueue[i] \notin Requests
  <2>1. \A i \in 1..Len(txQueue) : ~ExpectsResponse(txQueue[i])
    BY <1>1, <1>2 DEF Inv, AnswerFitsState
  <2>. QED  BY <2>1 DEF Requests
<1>. QED  BY <1>1, <1>2, ThoseNone

\* A chunk of the answer to the read at the head: either more is to come, or the
\* callback gets the whole block and nothing else.
Chunk(a) ==
    /\ given' \in Nat
    /\ rxBuffer' = Bytes(a, 1, given')
    /\ txQueue' = Drain(txQueue)
    /\ UNCHANGED <<owed, reply>>

Whole(a) ==
    /\ given' = 0
    /\ rxBuffer' = <<>>
    /\ reply' = [addr |-> a, bytes |-> Bytes(a, 1, Length[a])]
    /\ \E more \in CallbackSends(a) :
         /\ txQueue' = Answered(Drain(txQueue) \o more.reads \o more.writes)
         /\ owed' = Tail(owed) \o more.reads

LEMMA Answering ==
    ASSUME Inv, RepliesMeetRequests, OnBytes
    PROVE  /\ state = "SNES_CONNECTED" /\ state' = state
           /\ Drain(txQueue) # <<>>
           /\ owed # <<>> /\ Head(owed).op = "GetAddress" /\ Head(owed).addr \in Addrs
           /\ Chunk(Head(owed).addr) \/ Whole(Head(owed).addr)
<1> DEFINE queue == Drain(txQueue)
           a == Head(owed).addr
           size == Length[a]
<1>1. state = "SNES_CONNECTED" /\ state' = state
  BY BytesWhenConnected DEF OnBytes
<1>2. queue # <<>> /\ owed # <<>> /\ Head(owed).op = "GetAddress" /\ Head(queue) = Head(owed)
  BY Aligned DEF OnBytes
<1>3. Head(owed) \in TxItem
  BY <1>2, HeadTailProperties DEF Inv, TypeOK
<1>4. a \in Addrs /\ size \in Nat \ {0} /\ expectedResponse(Head(queue)) = size
  BY <1>2, <1>3, Messages DEF IsRead
<1>5. rxBuffer = Bytes(a, 1, given) /\ given \in Nat
  BY <1>2 DEF RepliesMeetRequests, Inv, TypeOK
<1>6. PICK n \in 1..(size - given) :
        LET buffer   == rxBuffer \o Bytes(a, given + 1, given + n)
            expected == expectedResponse(Head(queue))
            last     == given + n = size
        IN  /\ given' = IF last THEN 0 ELSE given + n
            /\ IF Len(buffer) >= expected
               THEN \E more \in CallbackSends(Head(queue).addr) :
                      /\ reply' = [addr  |-> Head(queue).addr,
                                   bytes |-> SubSeq(buffer, 1, expected)]
                      /\ rxBuffer' = SubSeq(buffer, expected + 1, Len(buffer))
                      /\ txQueue' = Answered(queue \o more.reads \o more.writes)
                      /\ owed' = (IF last THEN Tail(owed) ELSE owed) \o more.reads
               ELSE /\ rxBuffer' = buffer
                    /\ txQueue' = queue
                    /\ owed' = IF last THEN Tail(owed) ELSE owed
                    /\ UNCHANGED reply
  BY DEF OnBytes
<1> DEFINE got == given + n
           buffer == Bytes(a, 1, got)
<1>7. Head(queue).addr = a
  BY <1>2
<1> HIDE DEF queue, a, size
<1>8. n \in Nat /\ got \in Nat /\ got <= size
  BY <1>4, <1>5, <1>6
<1>9. rxBuffer \o Bytes(a, given + 1, given + n) = buffer
  BY <1>4, <1>5, <1>8, BytesJoined
<1>10. buffer \in Seq(Addrs \X Nat) /\ Len(buffer) = got
  <2> HIDE DEF got
  <2>1. 1 \in Nat \ {0} /\ 1 <= got + 1 /\ got - 1 + 1 = got
    BY <1>8
  <2>. QED  BY <1>4, <1>8, <2>1, BytesProperties
<1> HIDE DEF got, buffer
<1>11. CASE got = size
  <2>1. Len(buffer) >= size
    BY <1>4, <1>10, <1>11
  <2>2. PICK more \in CallbackSends(a) :
          /\ reply' = [addr |-> a, bytes |-> SubSeq(buffer, 1, size)]
          /\ rxBuffer' = SubSeq(buffer, size + 1, Len(buffer))
          /\ txQueue' = Answered(queue \o more.reads \o more.writes)
          /\ owed' = Tail(owed) \o more.reads
    BY <1>4, <1>6, <1>7, <1>9, <1>11, <2>1 DEF got
  <2>3. SubSeq(buffer, 1, size) = buffer
    BY <1>10, <1>11, SubSeqFull
  <2>4. SubSeq(buffer, size + 1, Len(buffer)) = <<>>
    BY <1>4, <1>10, <1>11, SubSeqEmpty
  <2>5. given' = 0
    BY <1>6, <1>11 DEF got
  <2>6. Whole(a)
    BY <1>11, <2>2, <2>3, <2>4, <2>5 DEF Whole, buffer, queue, size
  <2>. QED  BY <1>1, <1>2, <1>4, <2>6 DEF a, queue
<1>12. CASE got # size
  <2>1. ~(Len(buffer) >= size)
    BY <1>4, <1>8, <1>10, <1>12
  <2>2. rxBuffer' = buffer /\ txQueue' = queue /\ owed' = owed /\ reply' = reply
    BY <1>4, <1>6, <1>9, <1>12, <2>1 DEF got
  <2>3. given' = got
    BY <1>6, <1>12 DEF got
  <2>4. Chunk(a)
    BY <1>8, <2>2, <2>3 DEF Chunk, buffer, queue
  <2>. QED  BY <1>1, <1>2, <1>4, <2>4 DEF a, queue
<1>. QED  BY <1>11, <1>12

-----------------------------------------------------------------------------
(* One lemma per action: the queue and the service go on agreeing.           *)

LEMMA ClearedMeets ==
    ASSUME txQueue' = <<>>, rxBuffer' = <<>>, owed' = <<>>, given' = 0
    PROVE  RepliesMeetRequests'
<1> DEFINE empty == <<>>
<1>1. empty \in Seq(TxItem)
  OBVIOUS
<1> HIDE DEF empty
<1>2. Meets(Those(empty, Requests), empty, <<>>, 0)
  BY <1>1, MeetsFresh
<1>3. Meets(<<>>, <<>>, <<>>, 0)
  BY <1>2, ThoseEmpty, Zenon DEF empty
<1>. QED  BY <1>3, MeetsNext, Zenon

LEMMA FreshMeets ==
    ASSUME txQueue' \in Seq(TxItem), owed' = Those(txQueue', Requests),
           rxBuffer' = <<>>, given' = 0
    PROVE  RepliesMeetRequests'
<1>1. \A q \in Seq(TxItem) : Meets(Those(q, Requests), q, <<>>, 0)
  BY MeetsFresh
<1>2. Meets(Those(txQueue', Requests), txQueue', <<>>, 0)
  BY <1>1
<1>. QED  BY <1>2, MeetsNext, Zenon

LEMMA UnchangedMeets ==
    RepliesMeetRequests /\ UNCHANGED <<txQueue, rxBuffer, owed, given>> => RepliesMeetRequests'
<1> SUFFICES ASSUME RepliesMeetRequests, UNCHANGED <<txQueue, rxBuffer, owed, given>>
             PROVE  RepliesMeetRequests'
  OBVIOUS
<1>1. txQueue' = txQueue /\ rxBuffer' = rxBuffer /\ owed' = owed /\ given' = given
  OBVIOUS
<1>. QED  BY <1>1, MeetsNow, MeetsNext, Zenon

LEMMA InitMeets == Init => RepliesMeetRequests
<1> SUFFICES ASSUME Init PROVE RepliesMeetRequests
  OBVIOUS
<1>1. owed = <<>> /\ txQueue = <<>> /\ rxBuffer = <<>> /\ given = 0
  BY DEF Init
<1>2. Those(<<>>, Requests) = <<>>
  BY ThoseEmpty
<1>3. owed = Those(txQueue, Requests) /\ ~(owed # <<>>) /\ Len(rxBuffer) = given
  BY <1>1, <1>2, EmptySeq
<1>. QED  BY <1>1, <1>3, Zenon DEF RepliesMeetRequests

\* connect_snes() asks when nothing is awaited.
LEMMA ConnectSnesMeets ==
    ASSUME NEW queue \in Seq(TxItem), ConnectSnes(queue),
           \A i \in 1..Len(queue) : ~ExpectsResponse(queue[i]),
           owed = <<>>, rxBuffer' = <<>>, given' = 0
    PROVE  RepliesMeetRequests'
<1> DEFINE list == Command("DeviceList")
           one == <<list>>
<1>1. list \in TxItem /\ list \in Requests
  BY Messages DEF Opcodes, Requests
<1> HIDE DEF list
<1>2. one \in Seq(TxItem)
  BY <1>1
<1>3. txQueue' = Append(queue, list) /\ owed' = Append(<<>>, list)
  BY DEF ConnectSnes, list
<1>4. Append(queue, list) = queue \o one /\ Append(<<>>, list) = one
  BY <1>1, AppendIsConcat
<1>5. Those(one, Requests) = one
  BY <1>1, ThoseOne
<1> HIDE DEF one
<1>6. queue \o one \in Seq(TxItem)
  BY <1>2, ConcatProperties
<1>7. Those(queue \o one, Requests) = Those(queue, Requests) \o Those(one, Requests)
  BY <1>2, ThoseJoined
<1>8. Those(queue, Requests) = <<>>
  <2>1. \A i \in 1..Len(queue) : queue[i] \notin Requests
    BY DEF Requests
  <2>. QED  BY <2>1, ThoseNone
<1>9. Those(queue \o one, Requests) = one
  BY <1>2, <1>5, <1>7, <1>8, ConcatEmptySeq
<1>10. txQueue' \in Seq(TxItem) /\ owed' = Those(txQueue', Requests)
  BY <1>3, <1>4, <1>6, <1>9, Zenon
<1>. QED  BY <1>10, FreshMeets

LEMMA OnOpenMeets == Inv /\ RepliesMeetRequests /\ OnOpen => RepliesMeetRequests'
<1> SUFFICES ASSUME Inv, RepliesMeetRequests, OnOpen PROVE RepliesMeetRequests'
  OBVIOUS
<1>1. state = "SOCKET_CONNECTING" /\ rxBuffer' = rxBuffer /\ given' = given
  BY DEF OnOpen, envVars
<1>2. owed = <<>> /\ rxBuffer' = <<>> /\ given' = 0 /\ txQueue = <<>>
  BY <1>1, AskedOnLink, NothingGiven DEF Inv, LinkConsistent, NoSocket
<1> DEFINE queue == Append(txQueue, Command("Name"))
<1>3. queue \in Seq(TxItem) /\ Len(queue) = 1 /\ queue[1] = Command("Name")
  <2>1. Command("Name") \in TxItem
    BY Messages DEF Opcodes
  <2>2. txQueue \in Seq(TxItem) /\ Len(txQueue) = 0
    BY <1>2
  <2>. QED  BY <2>1, <2>2, AppendProperties
<1>4. \A i \in 1..Len(queue) : ~ExpectsResponse(queue[i])
  BY <1>3, Messages
<1>5. ConnectSnes(queue)
  BY DEF OnOpen
<1> HIDE DEF queue
<1>. QED  BY <1>2, <1>3, <1>4, <1>5, ConnectSnesMeets

LEMMA PollListDevicesMeets == Inv /\ RepliesMeetRequests /\ PollListDevices => RepliesMeetRequests'
<1> SUFFICES ASSUME Inv, RepliesMeetRequests, PollListDevices PROVE RepliesMeetRequests'
  OBVIOUS
<1>1. /\ state = "SOCKET_CONNECTED" /\ rxBuffer' = rxBuffer /\ given' = given
      /\ ConnectSnes(txQueue)
  BY DEF PollListDevices, MayListDevices, envVars
<1>2. owed = <<>> /\ rxBuffer' = <<>> /\ given' = 0
  BY <1>1, AskedOnLink, NothingGiven
<1>3. txQueue \in Seq(TxItem) /\ \A i \in 1..Len(txQueue) : ~ExpectsResponse(txQueue[i])
  BY <1>1 DEF Inv, TypeOK, AnswerFitsState
<1>. QED  BY <1>1, <1>2, <1>3, ConnectSnesMeets

LEMMA OnNoiseMeets == Inv /\ RepliesMeetRequests /\ OnNoise => RepliesMeetRequests'
<1> SUFFICES ASSUME Inv, RepliesMeetRequests, OnNoise PROVE RepliesMeetRequests'
  OBVIOUS
<1>1. txQueue' = Drain(txQueue) /\ rxBuffer' = rxBuffer /\ owed' = owed /\ given' = given
  BY DEF OnNoise, serviceVars
<1>2. owed = Those(Drain(txQueue), Requests)
  BY Aligned
<1>3. Meets(owed, Drain(txQueue), rxBuffer, given)
  BY <1>2, MeetsNow, Zenon DEF Meets
<1>. QED  BY <1>1, <1>3, MeetsNext, Zenon

LEMMA OnJsonMeets == Inv /\ RepliesMeetRequests /\ OnJson => RepliesMeetRequests'
<1> SUFFICES ASSUME Inv, RepliesMeetRequests, OnJson PROVE RepliesMeetRequests'
  OBVIOUS
<1> DEFINE queue == Drain(txQueue)
           attach == Command("Attach")
           info == Command("Info")
           both == <<attach, info>>
<1>1. /\ owed # <<>> /\ expectedResponse(Head(owed)) = JSON_RESPONSE
      /\ rxBuffer' = <<>> /\ given' = given
      /\ \/ txQueue' = Answered(queue \o both) /\ owed' = Append(Tail(owed), info)
         \/ txQueue' = Answered(queue) /\ owed' = Tail(owed)
  BY DEF OnJson
<1>2. owed \in Seq(TxItem)
  BY DEF Inv, TypeOK
<1>3. given' = 0
  <2>1. Head(owed) \in TxItem
    BY <1>1, <1>2, HeadTailProperties
  <2>2. ~IsRead(Head(owed))
    BY <1>1, <2>1, Messages DEF JSON_RESPONSE
  <2>. QED  BY <1>1, <2>2, NothingGiven DEF IsRead
<1>4. /\ queue \in Seq(TxItem) /\ queue # <<>>
      /\ Tail(queue) \in Seq(TxItem)
      /\ Tail(owed) = Those(Tail(queue), Requests)
  BY <1>1, Aligned
<1>5. attach \in TxItem /\ info \in TxItem /\ info \in Requests
  BY Messages DEF Opcodes, Requests
<1>6. Drain(both) = <<info>>
  BY SmallDrains
<1> HIDE DEF queue, attach, info
<1>7. CASE txQueue' = Answered(queue \o both) /\ owed' = Append(Tail(owed), info)
  <2>1. both \in Seq(TxItem)
    BY <1>5
  <2>2. Those(Drain(both), Requests) = Those(both, Requests)
    BY <2>1, ThoseDrained
  <2>3. Those(<<info>>, Requests) = <<info>>
    BY <1>5, ThoseOne
  <2>4. Those(both, Requests) = <<info>>
    BY <1>6, <2>2, <2>3, Zenon
  <2> HIDE DEF both
  <2>5. /\ Answered(queue \o both) \in Seq(TxItem)
        /\ Those(Answered(queue \o both), Requests)
             = Those(Tail(queue), Requests) \o Those(both, Requests)
    BY <1>4, <2>1, AnsweredThose
  <2>6. Append(Tail(owed), info) = Tail(owed) \o <<info>>
    <3>1. Tail(owed) \in Seq(TxItem)
      BY <1>1, <1>2, HeadTailProperties
    <3>. QED  BY <1>5, <3>1, AppendIsConcat
  <2>7. owed' = Those(txQueue', Requests)
    BY <1>4, <1>7, <2>4, <2>5, <2>6, Zenon
  <2>. QED  BY <1>1, <1>3, <1>7, <2>5, <2>7, FreshMeets
<1>8. CASE txQueue' = Answered(queue) /\ owed' = Tail(owed)
  <2> DEFINE tail == Tail(queue)
  <2>1. tail \in Seq(TxItem) /\ txQueue' = Drain(tail)
    BY <1>4, <1>8 DEF Answered
  <2> HIDE DEF tail
  <2>2. Drain(tail) \in Seq(TxItem) /\ Those(Drain(tail), Requests) = Those(tail, Requests)
    BY <2>1, DrainFacts, ThoseDrained
  <2>3. owed' = Those(txQueue', Requests)
    BY <1>4, <1>8, <2>1, <2>2, Zenon DEF tail
  <2>. QED  BY <1>1, <1>3, <2>1, <2>2, <2>3, FreshMeets
<1>. QED  BY <1>1, <1>7, <1>8

LEMMA ReadBatchMeets == Inv /\ RepliesMeetRequests /\ ReadBatch => RepliesMeetRequests'
<1> SUFFICES ASSUME Inv, RepliesMeetRequests, ReadBatch PROVE RepliesMeetRequests'
  OBVIOUS
<1>1. PICK batch \in BoundedSeq(Addrs, MaxBatch) :
        /\ txQueue' = txQueue \o [i \in DOMAIN batch |-> Get(batch[i])]
        /\ owed' = owed \o [i \in DOMAIN batch |-> Get(batch[i])]
  BY DEF ReadBatch
<1> DEFINE gets == [i \in DOMAIN batch |-> Get(batch[i])]
<1>2. gets \in Seq(TxItem) /\ \A i \in 1..Len(gets) : gets[i] \in Requests
  <2>1. gets \in Seq(TxItem) /\ \A i \in 1..Len(gets) : ExpectsResponse(gets[i])
    BY BatchMessages
  <2> HIDE DEF gets
  <2>2. \A i \in 1..Len(gets) : gets[i] \in TxItem
    BY <2>1, ElementOfSeq
  <2>. QED  BY <2>1, <2>2 DEF Requests
<1>3. txQueue = <<>> /\ rxBuffer' = rxBuffer /\ given' = given
  BY DEF ReadBatch, Idle
<1>4. txQueue' = txQueue \o gets /\ owed' = owed \o gets
  BY <1>1
<1> HIDE DEF gets
<1>5. owed = <<>>
  BY <1>3, ThoseEmpty DEF RepliesMeetRequests
<1>6. rxBuffer' = <<>> /\ given' = 0
  BY <1>3, <1>5, NothingGiven
<1>7. txQueue' = gets /\ owed' = gets
  BY <1>2, <1>3, <1>4, <1>5, ConcatEmptySeq
<1>8. Those(gets, Requests) = gets
  BY <1>2, ThoseAll
<1>. QED  BY <1>2, <1>6, <1>7, <1>8, FreshMeets

\* The answered read is gone, and of what its callback sent the reads are awaited.
LEMMA WholeThose ==
    ASSUME Inv, RepliesMeetRequests, Drain(txQueue) # <<>>, NEW a \in Addrs,
           NEW more \in CallbackSends(a)
    PROVE  LET queue == Answered(Drain(txQueue) \o more.reads \o more.writes)
           IN  queue \in Seq(TxItem) /\ Those(queue, Requests) = Tail(owed) \o more.reads
<1> DEFINE queue == Drain(txQueue)
           reads == more.reads
           writes == more.writes
           extra == reads \o writes
<1>1. /\ reads \in Seq(TxItem) /\ writes \in Seq(TxItem)
      /\ reads = <<>> \/ \E b \in Addrs : reads = <<Get(b)>>
      /\ \A i \in 1..Len(writes) : writes[i] \notin Requests
  BY CallbackMessages DEF Requests
<1>2. /\ queue \in Seq(TxItem) /\ queue # <<>>
      /\ Tail(owed) = Those(Tail(queue), Requests)
  BY Aligned
<1> HIDE DEF queue, reads, writes
<1>3. Those(reads, Requests) = reads
  <2>1. CASE reads = <<>>
    BY <2>1, ThoseEmpty
  <2>2. CASE \E b \in Addrs : reads = <<Get(b)>>
    <3>1. PICK b \in Addrs : reads = <<Get(b)>>
      BY <2>2
    <3> DEFINE get == Get(b)
    <3>2. get \in TxItem /\ get \in Requests
      BY Kinds
    <3> HIDE DEF get
    <3>3. Those(<<get>>, Requests) = <<get>>
      BY <3>2, ThoseOne
    <3>. QED  BY <3>1, <3>3, Zenon DEF get
  <2>. QED  BY <1>1, <2>1, <2>2
<1>4. Those(writes, Requests) = <<>>
  BY <1>1, ThoseNone
<1>5. Those(extra, Requests) = reads
  <2>1. Those(extra, Requests) = Those(reads, Requests) \o Those(writes, Requests)
    BY <1>1, ThoseJoined
  <2>2. reads \o <<>> = reads
    BY <1>1, ConcatEmptySeq
  <2>. QED  BY <1>3, <1>4, <2>1, <2>2, Zenon
<1>6. extra \in Seq(TxItem) /\ (queue \o reads) \o writes = queue \o extra
  BY <1>1, <1>2, ConcatProperties, ConcatAssociative
<1> HIDE DEF extra
<1>7. /\ Answered(queue \o extra) \in Seq(TxItem)
      /\ Those(Answered(queue \o extra), Requests)
           = Those(Tail(queue), Requests) \o Those(extra, Requests)
  BY <1>2, <1>6, AnsweredThose
<1>8. /\ Answered(queue \o reads \o writes) \in Seq(TxItem)
      /\ Those(Answered(queue \o reads \o writes), Requests) = Tail(owed) \o reads
  BY <1>2, <1>5, <1>6, <1>7, Zenon
<1>. QED  BY <1>8 DEF queue, reads, writes

LEMMA OnBytesMeets == Inv /\ RepliesMeetRequests /\ OnBytes => RepliesMeetRequests'
<1> SUFFICES ASSUME Inv, RepliesMeetRequests, OnBytes PROVE RepliesMeetRequests'
  OBVIOUS
<1> DEFINE a == Head(owed).addr
<1>1. /\ Drain(txQueue) # <<>>
      /\ owed # <<>> /\ Head(owed).op = "GetAddress" /\ a \in Addrs
      /\ Chunk(a) \/ Whole(a)
  BY Answering
<1>2. CASE Chunk(a)
  <2>1. /\ given' \in Nat /\ rxBuffer' = Bytes(a, 1, given')
        /\ txQueue' = Drain(txQueue) /\ owed' = owed
    BY <1>2 DEF Chunk
  <2>2. owed = Those(Drain(txQueue), Requests)
    BY Aligned
  <2>3. Len(Bytes(a, 1, given')) = given'
    <3>1. \A k \in Nat : Len(Bytes(a, 1, k)) = k
      <4> SUFFICES ASSUME NEW k \in Nat PROVE Len(Bytes(a, 1, k)) = k
        OBVIOUS
      <4>1. 1 \in Nat \ {0} /\ 1 <= k + 1 /\ k - 1 + 1 = k
        OBVIOUS
      <4> HIDE DEF a
      <4>. QED  BY <1>1, <4>1, BytesProperties
    <3>. QED  BY <2>1, <3>1
  <2>4. Meets(owed, Drain(txQueue), Bytes(a, 1, given'), given')
    BY <1>1, <2>2, <2>3, Zenon DEF Meets
  <2>. QED  BY <2>1, <2>4, MeetsNext, Zenon
<1>3. CASE Whole(a)
  <2>1. PICK more \in CallbackSends(a) :
          /\ txQueue' = Answered(Drain(txQueue) \o more.reads \o more.writes)
          /\ owed' = Tail(owed) \o more.reads
    BY <1>3 DEF Whole
  <2>2. rxBuffer' = <<>> /\ given' = 0
    BY <1>3 DEF Whole
  <2> HIDE DEF a
  <2>3. txQueue' \in Seq(TxItem) /\ Those(txQueue', Requests) = owed'
    BY <1>1, <2>1, WholeThose
  <2>. QED  BY <2>2, <2>3, FreshMeets
<1>. QED  BY <1>1, <1>2, <1>3

\* Every step keeps the queue and the service in agreement.
LEMMA NextMeets == Inv /\ RepliesMeetRequests /\ [Next]_vars => RepliesMeetRequests'
<1> SUFFICES ASSUME Inv, RepliesMeetRequests, [Next]_vars PROVE RepliesMeetRequests'
  OBVIOUS
<1>1. CASE PollReconnect
  BY <1>1, ClearedMeets DEF PollReconnect, ConnectSocket, ForgetPending
<1>2. CASE Refused \/ LinkLost
  BY <1>2, ClearedMeets DEF Refused, LinkLost, OnClose, ForgetPending
<1>3. CASE PollDropSocket \/ Tick \/ ServiceChange \/ UNCHANGED vars
  <2>1. UNCHANGED <<txQueue, rxBuffer, owed, given>>
    BY <1>3 DEF PollDropSocket, Tick, ServiceChange, vars, clientVars, serviceVars
  <2>. QED  BY <2>1, UnchangedMeets
<1>4. CASE PollListDevices \/ OnOpen \/ OnNoise
  BY <1>4, PollListDevicesMeets, OnOpenMeets, OnNoiseMeets
<1>5. CASE OnJson \/ OnBytes \/ ReadBatch
  BY <1>5, OnJsonMeets, OnBytesMeets, ReadBatchMeets
<1>. QED  BY <1>1, <1>2, <1>3, <1>4, <1>5 DEF Next

\* Responses carry no request id, and onmessage() matches them to _txQueue by position:
\* what the queue still expects is at every moment what the service still owes, in
\* that order, and _rxBuffer holds the delivered part of the answer at the head.
THEOREM MatchedByPosition == Spec => []RepliesMeetRequests
<1>1. Inv /\ RepliesMeetRequests /\ [Next]_vars => (Inv /\ RepliesMeetRequests)'
  BY NextInv, NextMeets
<1>2. Init => Inv /\ RepliesMeetRequests
  BY InitInv, InitMeets
<1>. QED  BY <1>1, <1>2, PTL DEF Spec

-----------------------------------------------------------------------------
(* The retry interval.                                                      *)

LEMMA NextNoStorm ==
    Inv /\ [Next]_vars
      => [reconnectInterval' < reconnectInterval
            => state = "SNES_CONNECTING" /\ state' = "SNES_CONNECTED"]_vars
<1> SUFFICES ASSUME Inv, [Next]_vars, reconnectInterval' < reconnectInterval
             PROVE  state = "SNES_CONNECTING" /\ state' = "SNES_CONNECTED"
  OBVIOUS
<1>1. reconnectInterval \in BaseInterval..MaxInterval
  BY DEF Inv, TypeOK
<1>2. ASSUME PollReconnect PROVE FALSE
  <2>1. Backoff >= reconnectInterval
    BY <1>1, IntervalAssumption DEF Backoff, AtMost
  <2>2. reconnectInterval' = Backoff
    BY <1>2 DEF PollReconnect, ConnectSocket
  <2> HIDE DEF Backoff
  <2>3. Backoff \in Int
    BY <1>1, IntervalAssumption DEF Backoff, AtMost
  <2>. QED  BY <1>1, <2>1, <2>2, <2>3, IntervalAssumption
<1>3. ASSUME UNCHANGED reconnectInterval PROVE FALSE
  BY <1>1, <1>3, IntervalAssumption
<1>4. CASE OnJson
  BY <1>3, <1>4 DEF OnJson
<1>5. CASE PollDropSocket \/ PollListDevices \/ OnOpen \/ Refused \/ LinkLost
  BY <1>3, <1>5 DEF PollDropSocket, PollListDevices, OnOpen, Refused, LinkLost, OnClose
<1>6. CASE OnBytes \/ OnNoise \/ ReadBatch
  BY <1>3, <1>6 DEF OnBytes, OnNoise, ReadBatch
<1>7. CASE Tick \/ ServiceChange \/ UNCHANGED vars
  BY <1>3, <1>7 DEF Tick, ServiceChange, vars, clientVars
<1>. QED  BY <1>2, <1>4, <1>5, <1>6, <1>7 DEF Next

\* connect_socket() never shortens the interval after which it is called again: a
\* service that accepts a connection and drops it does not make the client
\* try faster, only a console that was attached does.
THEOREM NoStorm == Spec => NoReconnectStorm
<1>. QED  BY Invariance, NextNoStorm, PTL DEF Spec, NoReconnectStorm

-----------------------------------------------------------------------------
(* The refinement: USB2SNES keeps the promises of MemoryChannel.             *)

\* The blocks of a sequence of reads.
Blocks(reads) == [i \in DOMAIN reads |-> reads[i].addr]

LEMMA BlocksProperties ==
    ASSUME NEW reads \in Seq(Reads)
    PROVE  /\ Blocks(reads) \in Seq(Addrs)
           /\ Len(Blocks(reads)) = Len(reads)
           /\ \A i \in 1..Len(reads) : Blocks(reads)[i] = reads[i].addr
<1>1. DOMAIN reads = 1..Len(reads) /\ Len(reads) \in Nat
      /\ \A i \in 1..Len(reads) : reads[i] \in Reads
  BY LenProperties, ElementOfSeq
<1>2. \A item \in Reads : item.addr \in Addrs
  BY Messages DEF Reads
<1>. QED  BY <1>1, <1>2 DEF Blocks

LEMMA BlocksOfNone == Blocks(<<>>) = <<>>
<1> DEFINE none == <<>>
<1>1. none \in Seq(Reads) /\ Len(none) = 0
  OBVIOUS
<1> HIDE DEF none
<1>2. Blocks(none) \in Seq(Addrs) /\ Len(Blocks(none)) = 0
  BY <1>1, BlocksProperties
<1>3. Blocks(none) = <<>>
  BY <1>2, EmptySeq
<1>. QED  BY <1>3 DEF none

\* The head is answered.
LEMMA BlocksAnswered ==
    ASSUME NEW reads \in Seq(Reads), reads # <<>>
    PROVE  /\ Tail(reads) \in Seq(Reads)
           /\ Blocks(reads) # <<>>
           /\ Head(Blocks(reads)) = Head(reads).addr
           /\ Blocks(Tail(reads)) = Tail(Blocks(reads))
<1> DEFINE t == Tail(reads)
           b == Blocks(reads)
<1>1. Len(reads) \in Nat \ {0} /\ Head(reads) = reads[1]
  BY EmptySeq
<1>2. t \in Seq(Reads) /\ Len(t) = Len(reads) - 1 /\ \A i \in 1..Len(t) : t[i] = reads[i + 1]
  BY HeadTailProperties
<1>3. b \in Seq(Addrs) /\ Len(b) = Len(reads) /\ \A i \in 1..Len(reads) : b[i] = reads[i].addr
  BY BlocksProperties
<1> HIDE DEF t, b
<1>4. b # <<>> /\ Head(b) = Head(reads).addr
  BY <1>1, <1>3, EmptySeq
<1>5. /\ Tail(b) \in Seq(Addrs) /\ Len(Tail(b)) = Len(b) - 1
      /\ \A i \in 1..Len(Tail(b)) : Tail(b)[i] = b[i + 1]
  BY <1>3, <1>4, HeadTailProperties
<1>6. /\ Blocks(t) \in Seq(Addrs) /\ Len(Blocks(t)) = Len(t)
      /\ \A i \in 1..Len(t) : Blocks(t)[i] = t[i].addr
  BY <1>2, BlocksProperties
<1>7. \A i \in 1..Len(t) : i + 1 \in 1..Len(reads)
  BY <1>1, <1>2
<1>8. \A i \in 1..Len(t) : Blocks(t)[i] = Tail(b)[i]
  BY <1>2, <1>3, <1>5, <1>6, <1>7
<1>9. Blocks(t) = Tail(b)
  BY <1>2, <1>3, <1>5, <1>6, <1>8, SeqEqual
<1>. QED  BY <1>2, <1>4, <1>9 DEF t, b

\* One more read is asked for.
LEMMA BlocksAsked ==
    ASSUME NEW reads \in Seq(Reads), NEW a \in Addrs
    PROVE  Blocks(reads \o <<Get(a)>>) = Append(Blocks(reads), a)
<1> DEFINE get == Get(a)
           b == Blocks(reads)
           more == reads \o <<get>>
<1>1. get \in Reads /\ get.addr = a
  BY Kinds
<1> HIDE DEF get
<1>2. more = Append(reads, get)
  BY <1>1, AppendIsConcat
<1>3. /\ more \in Seq(Reads) /\ Len(more) = Len(reads) + 1
      /\ \A i \in 1..Len(reads) : more[i] = reads[i]
      /\ more[Len(reads) + 1] = get
  BY <1>1, <1>2, AppendProperties
<1>4. b \in Seq(Addrs) /\ Len(b) = Len(reads) /\ \A i \in 1..Len(reads) : b[i] = reads[i].addr
  BY BlocksProperties
<1> HIDE DEF more, b
<1>5. /\ Append(b, a) \in Seq(Addrs) /\ Len(Append(b, a)) = Len(b) + 1
      /\ \A i \in 1..Len(b) : Append(b, a)[i] = b[i]
      /\ Append(b, a)[Len(b) + 1] = a
  BY <1>4, AppendProperties
<1>6. /\ Blocks(more) \in Seq(Addrs) /\ Len(Blocks(more)) = Len(more)
      /\ \A i \in 1..Len(more) : Blocks(more)[i] = more[i].addr
  BY <1>3, BlocksProperties
<1>7. Len(reads) \in Nat
  BY LenProperties
<1>8. ASSUME NEW i \in 1..(Len(reads) + 1) PROVE Blocks(more)[i] = Append(b, a)[i]
  <2>1. CASE i = Len(reads) + 1
    BY <1>1, <1>3, <1>4, <1>5, <1>6, <1>7, <2>1
  <2>2. CASE i # Len(reads) + 1
    <3>1. i \in 1..Len(reads)
      BY <1>7, <2>2
    <3>. QED  BY <1>3, <1>4, <1>5, <1>6, <3>1
  <2>. QED  BY <2>1, <2>2
<1>9. Blocks(more) = Append(b, a)
  BY <1>3, <1>4, <1>5, <1>6, <1>8, SeqEqual
<1>. QED  BY <1>9 DEF more, b, get

\* The reads the game waits for are what the service owes an attached client; before,
\* there are none.
LEMMA PendingIs ==
    Inv /\ RepliesMeetRequests
      => IF state = "SNES_CONNECTED" THEN owed \in Seq(Reads) /\ ReadsPending = owed
                                     ELSE ReadsPending = <<>>
<1> SUFFICES ASSUME Inv, RepliesMeetRequests
             PROVE  IF state = "SNES_CONNECTED" THEN owed \in Seq(Reads) /\ ReadsPending = owed
                                                ELSE ReadsPending = <<>>
  OBVIOUS
<1>1. txQueue \in Seq(TxItem) /\ owed = Those(txQueue, Requests)
  BY DEF Inv, TypeOK, RepliesMeetRequests
<1>2. DOMAIN txQueue = 1..Len(txQueue) /\ \A i \in 1..Len(txQueue) : txQueue[i] \in TxItem
  BY <1>1, LenProperties, ElementOfSeq
<1>3. CASE state = "SNES_CONNECTED"
  <2>1. \A i \in 1..Len(txQueue) : txQueue[i] \in Requests <=> txQueue[i] \in Reads
    <3>1. \A i \in 1..Len(txQueue) : ExpectsResponse(txQueue[i]) => IsRead(txQueue[i])
      BY <1>2, <1>3 DEF Inv, AnswerFitsState
    <3>. QED  BY <1>2, <3>1, Kinds DEF Requests, Reads
  <2>2. ReadsPending = owed
    BY <1>1, <2>1, ThoseAgree DEF ReadsPending
  <2>3. Those(txQueue, Reads) \in Seq(TxItem \cap Reads)
    BY <1>1, ThoseType
  <2>4. TxItem \cap Reads = Reads
    BY DEF Reads
  <2>. QED  BY <1>3, <2>2, <2>3, <2>4 DEF ReadsPending
<1>4. CASE state # "SNES_CONNECTED"
  <2>1. \A i \in 1..Len(txQueue) : txQueue[i] \notin Reads
    <3>1. CASE state = "SNES_LIST" \/ state = "SNES_CONNECTING"
      <4>1. PICK op \in {"DeviceList", "Info"} : OnlyLastAwaited(Command(op))
        BY <3>1 DEF Inv, AnswerFitsState
      <4>2. Command(op) \notin Reads
        BY Kinds DEF Opcodes
      <4>3. \A i \in 1..(Len(txQueue) - 1) : txQueue[i] \notin Reads
        BY <4>1, Kinds DEF OnlyLastAwaited, Requests
      <4>4. txQueue[Len(txQueue)] = Command(op)
        BY <4>1 DEF OnlyLastAwaited
      <4>5. \A i \in 1..Len(txQueue) : i \in 1..(Len(txQueue) - 1) \/ i = Len(txQueue)
        BY <1>1
      <4>. QED  BY <4>2, <4>3, <4>4, <4>5
    <3>2. CASE state # "SNES_LIST" /\ state # "SNES_CONNECTING"
      <4>1. \A i \in 1..Len(txQueue) : ~ExpectsResponse(txQueue[i])
        BY <1>2, <1>4, <3>2 DEF Inv, AnswerFitsState
      <4>. QED  BY <4>1, Kinds DEF Requests
    <3>. QED  BY <3>1, <3>2
  <2>2. ReadsPending = <<>>
    BY <1>1, <2>1, ThoseNone DEF ReadsPending
  <2>. QED  BY <1>4, <2>2
<1>. QED  BY <1>3, <1>4

LEMMA PendingIsNext ==
    (Inv /\ RepliesMeetRequests)'
      => IF state' = "SNES_CONNECTED" THEN owed' \in Seq(Reads) /\ ReadsPending' = owed'
                                      ELSE ReadsPending' = <<>>
<1>1. (Inv /\ RepliesMeetRequests)'
        => (IF state = "SNES_CONNECTED" THEN owed \in Seq(Reads) /\ ReadsPending = owed
                                        ELSE ReadsPending = <<>>)'
  BY PendingIs, PTL
<1>2. Seq(Reads)' = Seq(Reads)
  BY Zenon DEF Reads, TxItem, Opcodes, IsRead
<1>. QED  BY <1>1, <1>2

\* A step of USB2SNES is a step of MemoryChannel, or none.
ChannelStep == [Channel!Next]_(Channel!channelVars)

LEMMA KeepStep ==
    ASSUME state = "SNES_CONNECTED" <=> state' = "SNES_CONNECTED",
           UNCHANGED <<ReadsPending, reply>>
    PROVE  ChannelStep
BY DEF ChannelStep, Channel!channelVars

LEMMA ConnectStep ==
    ASSUME state # "SNES_CONNECTED", state' = "SNES_CONNECTED",
           ReadsPending' = <<>>, UNCHANGED reply
    PROVE  ChannelStep
<1>1. [i \in DOMAIN ReadsPending |-> ReadsPending[i].addr]' = <<>>
  BY BlocksOfNone, Zenon DEF Blocks
<1>. QED  BY <1>1 DEF ChannelStep, Channel!Next, Channel!Connect

LEMMA DisconnectStep ==
    ASSUME state = "SNES_CONNECTED", state' # "SNES_CONNECTED",
           ReadsPending' = <<>>, UNCHANGED reply
    PROVE  ChannelStep
<1>1. [i \in DOMAIN ReadsPending |-> ReadsPending[i].addr]' = <<>>
  BY BlocksOfNone, Zenon DEF Blocks
<1>. QED  BY <1>1 DEF ChannelStep, Channel!Next, Channel!Disconnect

LEMMA AskStep ==
    ASSUME state = "SNES_CONNECTED", state' = state,
           ReadsPending = <<>>, ReadsPending' \in Seq(Reads), UNCHANGED reply
    PROVE  ChannelStep
<1>1. [i \in DOMAIN ReadsPending |-> ReadsPending[i].addr] = <<>>
  BY BlocksOfNone, Zenon DEF Blocks
<1>2. \A reads \in Seq(Reads) : [i \in DOMAIN reads |-> reads[i].addr] \in Seq(Addrs)
  BY BlocksProperties DEF Blocks
<1>3. [i \in DOMAIN ReadsPending |-> ReadsPending[i].addr]' \in Seq(Addrs)
  BY <1>2
<1>. QED  BY <1>1, <1>3 DEF ChannelStep, Channel!Next, Channel!Ask

LEMMA WholeBlock == \A a \in Addrs : Bytes(a, 1, Length[a]) = Channel!BytesOf(a)
<1> SUFFICES ASSUME NEW a \in Addrs PROVE Bytes(a, 1, Length[a]) = Channel!BytesOf(a)
  OBVIOUS
<1>1. Length[a] \in Nat \ {0} /\ Length[a] - 1 + 1 = Length[a]
  BY BlockAssumption
<1>2. \A i \in 1..Length[a] : 1 + i - 1 = i
  BY <1>1
<1>. QED  BY <1>1, <1>2 DEF Bytes, Channel!BytesOf

LEMMA AnswerStep ==
    ASSUME state = "SNES_CONNECTED", state' = state,
           ReadsPending \in Seq(Reads), ReadsPending # <<>>,
           Whole(Head(ReadsPending).addr), owed = ReadsPending, owed' = ReadsPending'
    PROVE  ChannelStep
<1> DEFINE reads == ReadsPending
           a == Head(reads).addr
           next == ReadsPending'
<1>1. /\ Tail(reads) \in Seq(Reads)
      /\ Blocks(reads) # <<>>
      /\ Head(Blocks(reads)) = a
      /\ Blocks(Tail(reads)) = Tail(Blocks(reads))
  BY BlocksAnswered
<1>2. a \in Addrs
  <2>1. Head(reads) \in Reads
    BY HeadTailProperties
  <2>. QED  BY <2>1, Messages DEF Reads
<1>3. reply' = [addr |-> a, bytes |-> Channel!BytesOf(a)]
  BY <1>2, WholeBlock DEF Whole
<1>4. PICK more \in CallbackSends(a) : next = Tail(reads) \o more.reads
  BY DEF Whole
<1>5. more.reads = <<>> \/ \E b \in Addrs : more.reads = <<Get(b)>>
  BY <1>2, CallbackMessages
<1> HIDE DEF reads, next, a
<1>6. \/ Blocks(next) = Tail(Blocks(reads))
      \/ \E b \in Addrs : Blocks(next) = Append(Tail(Blocks(reads)), b)
  <2>1. CASE more.reads = <<>>
    <3>1. next = Tail(reads)
      BY <1>1, <1>4, <2>1, ConcatEmptySeq
    <3>. QED  BY <1>1, <3>1
  <2>2. CASE \E b \in Addrs : more.reads = <<Get(b)>>
    <3>1. PICK b \in Addrs : more.reads = <<Get(b)>>
      BY <2>2
    <3>2. Blocks(Tail(reads) \o <<Get(b)>>) = Append(Blocks(Tail(reads)), b)
      BY <1>1, BlocksAsked
    <3>3. Blocks(next) = Append(Tail(Blocks(reads)), b)
      BY <1>1, <1>4, <3>1, <3>2, Zenon
    <3>. QED  BY <3>3
  <2>. QED  BY <1>5, <2>1, <2>2
<1>7. /\ [i \in DOMAIN ReadsPending |-> ReadsPending[i].addr] = Blocks(reads)
      /\ [i \in DOMAIN ReadsPending |-> ReadsPending[i].addr]' = Blocks(next)
  BY Zenon DEF Blocks, reads, next
<1> DEFINE before == Blocks(reads)
           after == Blocks(next)
<1> HIDE DEF before, after
<1>8. /\ [i \in DOMAIN ReadsPending |-> ReadsPending[i].addr] = before
      /\ [i \in DOMAIN ReadsPending |-> ReadsPending[i].addr]' = after
      /\ before # <<>> /\ reply' = [addr |-> Head(before), bytes |-> Channel!BytesOf(Head(before))]
      /\ after = Tail(before) \/ \E b \in Addrs : after = Append(Tail(before), b)
  BY <1>1, <1>3, <1>6, <1>7, Zenon DEF before, after
<1>. QED  BY <1>8 DEF ChannelStep, Channel!Next, Channel!Answer

\* The answer to Info attaches the console: nothing else is owed then.
LEMMA NothingOwedWhenAttached ==
    ASSUME Inv, RepliesMeetRequests, OnJson, state' = "SNES_CONNECTED"
    PROVE  owed' = <<>> /\ reply' = reply
<1> DEFINE info == Command("Info")
<1>1. state = "SNES_CONNECTING" /\ owed' = Tail(owed) /\ owed # <<>> /\ reply' = reply
  BY DEF OnJson
<1>2. Drain(txQueue) = <<info>>
  BY <1>1, HandshakeQueue
<1>3. Tail(<<info>>) = <<>>
  OBVIOUS
<1>4. Drain(txQueue) # <<>> /\ Tail(owed) = Those(Tail(Drain(txQueue)), Requests)
  BY <1>1, Aligned
<1>5. Tail(owed) = Those(<<>>, Requests)
  BY <1>2, <1>3, <1>4, Zenon
<1>. QED  BY <1>1, <1>5, ThoseEmpty

\* Without a console the channel is down, and comes up empty.
LEMMA NextWhileDown ==
    ASSUME Inv, RepliesMeetRequests, [Next]_vars, state # "SNES_CONNECTED"
    PROVE  /\ UNCHANGED reply
           /\ state' = "SNES_CONNECTED" => owed' = <<>>
<1>1. CASE OnBytes
  BY <1>1, BytesWhenConnected
<1>2. CASE OnJson
  BY <1>2, NothingOwedWhenAttached DEF OnJson
<1>3. CASE PollReconnect \/ PollDropSocket \/ PollListDevices
  BY <1>3 DEF PollReconnect, ConnectSocket, PollDropSocket, PollListDevices, ConnectSnes
<1>4. CASE OnOpen \/ Refused \/ LinkLost
  BY <1>4 DEF OnOpen, ConnectSnes, Refused, LinkLost, OnClose
<1>5. CASE OnNoise \/ ReadBatch
  BY <1>5 DEF OnNoise, ReadBatch
<1>6. CASE Tick \/ ServiceChange \/ UNCHANGED vars
  BY <1>6 DEF Tick, ServiceChange, vars, clientVars
<1>. QED  BY <1>1, <1>2, <1>3, <1>4, <1>5, <1>6 DEF Next

\* With a console the link goes down, a batch is asked for, a read is answered, or the
\* game sees nothing.
LEMMA NextWhileUp ==
    ASSUME Inv, RepliesMeetRequests, [Next]_vars, state = "SNES_CONNECTED"
    PROVE  \/ state' # "SNES_CONNECTED" /\ UNCHANGED reply
           \/ state' = state /\ UNCHANGED <<owed, reply>>
           \/ state' = state /\ owed = <<>> /\ UNCHANGED reply
           \/ state' = state /\ owed # <<>> /\ Whole(Head(owed).addr)
<1>1. CASE PollReconnect \/ PollDropSocket \/ PollListDevices \/ OnOpen \/ Refused \/ OnJson
  BY <1>1 DEF PollReconnect, NoSocket, PollDropSocket, PollListDevices, MayListDevices,
              OnOpen, Refused, OnJson
<1>2. CASE LinkLost
  BY <1>2 DEF LinkLost, OnClose
<1>3. CASE OnBytes
  <2>1. Chunk(Head(owed).addr) \/ Whole(Head(owed).addr)
    BY <1>3, Answering
  <2>2. state' = state /\ owed # <<>>
    BY <1>3, Answering
  <2>. QED  BY <2>1, <2>2 DEF Chunk
<1>4. CASE ReadBatch
  <2>1. txQueue = <<>> /\ state' = state /\ UNCHANGED reply
    BY <1>4 DEF ReadBatch, Idle
  <2>2. owed = Those(<<>>, Requests)
    BY <2>1 DEF RepliesMeetRequests
  <2>. QED  BY <2>1, <2>2, ThoseEmpty
<1>5. CASE OnNoise \/ Tick \/ ServiceChange \/ UNCHANGED vars
  BY <1>5 DEF OnNoise, Tick, ServiceChange, vars, clientVars, serviceVars
<1>. QED  BY <1>1, <1>2, <1>3, <1>4, <1>5 DEF Next

LEMMA NextChannel == Inv /\ RepliesMeetRequests /\ [Next]_vars => ChannelStep
<1> SUFFICES ASSUME Inv, RepliesMeetRequests, [Next]_vars PROVE ChannelStep
  OBVIOUS
<1>1. IF state = "SNES_CONNECTED" THEN owed \in Seq(Reads) /\ ReadsPending = owed
                                  ELSE ReadsPending = <<>>
  BY PendingIs
<1>2. IF state' = "SNES_CONNECTED" THEN owed' \in Seq(Reads) /\ ReadsPending' = owed'
                                   ELSE ReadsPending' = <<>>
  BY NextInv, NextMeets, PendingIsNext
<1>3. CASE state # "SNES_CONNECTED"
  <2>1. UNCHANGED reply /\ (state' = "SNES_CONNECTED" => owed' = <<>>)
    BY <1>3, NextWhileDown
  <2>2. CASE state' = "SNES_CONNECTED"
    BY <1>2, <1>3, <2>1, <2>2, ConnectStep
  <2>3. CASE state' # "SNES_CONNECTED"
    BY <1>1, <1>2, <1>3, <2>1, <2>3, KeepStep
  <2>. QED  BY <2>2, <2>3
<1>4. CASE state = "SNES_CONNECTED"
  <2>1. CASE state' # "SNES_CONNECTED" /\ UNCHANGED reply
    BY <1>2, <1>4, <2>1, DisconnectStep
  <2>2. CASE state' = state /\ UNCHANGED <<owed, reply>>
    BY <1>1, <1>2, <1>4, <2>2, KeepStep
  <2>3. CASE state' = state /\ owed = <<>> /\ UNCHANGED reply
    BY <1>1, <1>2, <1>4, <2>3, AskStep
  <2>4. CASE state' = state /\ owed # <<>> /\ Whole(Head(owed).addr)
    BY <1>1, <1>2, <1>4, <2>4, AnswerStep
  <2>. QED  BY <1>4, <2>1, <2>2, <2>3, <2>4, NextWhileUp
<1>. QED  BY <1>3, <1>4

LEMMA InitChannel == Init => Channel!Init
<1> SUFFICES ASSUME Init PROVE Channel!Init
  OBVIOUS
<1>1. state # "SNES_CONNECTED" /\ txQueue = <<>> /\ reply = NoReply
  BY DEF Init
<1>2. ReadsPending = <<>>
  BY <1>1, ThoseEmpty DEF ReadsPending
<1>3. [i \in DOMAIN ReadsPending |-> ReadsPending[i].addr] = <<>>
  BY <1>2, BlocksOfNone, Zenon DEF Blocks
<1>. QED  BY <1>1, <1>3 DEF Channel!Init

\* USB2SNES keeps the promises of MemoryChannel to Game: whatever chunks, writes, chained
\* reads and lost links come, each read asked for in a batch or by a callback is
\* answered in its turn with exactly the bytes of its block, or forgotten with the
\* link; a batch is only asked for when nothing is pending.
THEOREM ChannelImplemented == Spec => ImplementsChannel
<1>1. Inv /\ RepliesMeetRequests /\ [Next]_vars => [Channel!Next]_(Channel!channelVars)
  BY NextChannel DEF ChannelStep
<1>. QED  BY <1>1, InitChannel, Invariance, MatchedByPosition, PTL
          DEF Spec, ImplementsChannel, Channel!Spec

=============================================================================
