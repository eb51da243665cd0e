------------------------- MODULE AddressCacheProofs -------------------------
(***************************************************************************)
(* The reads that makeAddressCache() computes are right for every set of      *)
(* locations in the first bank of the work memory, and what they read is what *)
(* the locations hold.                                                      *)
(*                                                                         *)
(* Inv is the invariant of the merging loop.  It visits the addresses from    *)
(* the last to the first; of those it has visited, the ones that still have a *)
(* length are the reads, prev is the first of them, and each of the others    *)
(* is in one of the reads.                                                  *)
(***************************************************************************)
EXTENDS AddressCache, TLAPS

Visited == locations \ todo

\* a starts a read.
Starts(a) == a \in DOMAIN cache /\ cache[a] # 0

Types ==
    /\ locations \subseteq Addresses
    /\ todo \subseteq locations
    /\ cache \in [DOMAIN cache -> Nat]
    /\ DOMAIN cache \subseteq locations
    /\ phase \in {"merge", "read"}
    /\ phase = "merge" => DOMAIN cache = locations /\ unread = {}
    /\ phase = "read" => todo = {} /\ \A a \in DOMAIN cache : cache[a] # 0

\* What the loop has not visited has length one, and lies below.
Unvisited ==
    /\ \A a \in todo : cache[a] = 1
    /\ \A a \in todo, b \in Visited : a < b

\* prev is the first visited, and starts a read.
AtPrev ==
    /\ prev = None => Visited = {}
    /\ prev # None => prev \in Visited
    /\ phase = "merge" /\ prev # None =>
        cache[prev] # 0 /\ \A b \in Visited : prev <= b

\* The reads of the visited addresses are those wanted.
Tight ==
    \A a \in Visited : Starts(a) =>
        /\ a + cache[a] - 1 \in Visited
        /\ \A x \in BytesOf(a) : \E l \in locations : x <= l /\ l <= x + 2
        /\ \A b \in Visited : Starts(b) /\ a < b => b - a > cache[a] + 2

\* Each visited address is in a read.
Covered == \A l \in Visited : \E a \in Visited : Starts(a) /\ l \in BytesOf(a)

\* What a batch has read, and what it will.
Buffered ==
    /\ unread \subseteq DOMAIN cache
    /\ DOMAIN readBuffer \subseteq Wram..(Wram + Bank - 1)
    /\ \A x \in DOMAIN readBuffer : readBuffer[x] = MapAddr(x)
    /\ phase = "read" =>
        \A a \in DOMAIN cache \ unread : BytesOf(a) \subseteq DOMAIN readBuffer

Inv == Types /\ Unvisited /\ AtPrev /\ Tight /\ Covered /\ Buffered

-----------------------------------------------------------------------------

LEMMA AddressFacts ==
    ASSUME NEW a \in Addresses
    PROVE  a \in Int /\ a >= 8257536 /\ a <= 8323071
<1>1. a \in Wram..(Wram + Bank - 1)  BY AddressAssumption
<1>. QED  BY <1>1, SMT DEF Wram, Bank

LEMMA FirstBank ==
    /\ \A x \in Wram..(Wram + Bank - 1) : x \in Int /\ x >= 8257536 /\ x <= 8323071
    /\ \A x \in Int : x >= 8257536 /\ x <= 8323071 => x \in Wram..(Wram + Bank - 1)
<1>1. \A x \in Wram..(Wram + Bank - 1) : x \in Int /\ x >= 8257536 /\ x <= 8323071
  BY SMT DEF Wram, Bank
<1>2. ASSUME NEW x \in Int, x >= 8257536, x <= 8323071
      PROVE  x \in Wram..(Wram + Bank - 1)
  <2>1. Wram \in Int /\ Bank \in Int /\ Wram + Bank - 1 \in Int
    BY SMT DEF Wram, Bank
  <2>2. x >= Wram /\ x <= Wram + Bank - 1  BY <1>2, SMT DEF Wram, Bank
  <2>. QED  BY <2>1, <2>2, SMT
<1>. QED  BY <1>1, <1>2, SMT

\* In the first bank of the work memory, mapaddr() is a shift.
LEMMA MapsWram ==
    ASSUME NEW x \in Wram..(Wram + Bank - 1)
    PROVE  MapAddr(x) = x + 7798784
<1>1. x \in Int /\ x >= 8257536 /\ x <= 8323071  BY SMT DEF Wram, Bank
<1>2. BankOf(x) = 126 /\ Offset(x) = x - 8257536
  BY <1>1, SMTT(30) DEF BankOf, Offset, Bank
<1>3. MapAddr(x) = 245 * Bank + Offset(x)
  BY <1>2, SMT DEF MapAddr
<1>. QED  BY <1>1, <1>2, <1>3, SMT DEF Bank

LEMMA InitInv == Init => Inv
<1>. SUFFICES ASSUME Init PROVE Inv
  OBVIOUS
<1>1. Types  BY SMT DEF Init, Types
<1>2. Unvisited  BY SMT DEF Init, Unvisited, Visited
<1>3. AtPrev  BY SMT DEF Init, AtPrev, Visited
<1>4. Tight  BY SMT DEF Init, Tight, Visited
<1>5. Covered  BY SMT DEF Init, Covered, Visited
<1>6. Buffered  BY SMT DEF Init, Buffered
<1>. QED  BY <1>1, <1>2, <1>3, <1>4, <1>5, <1>6 DEF Inv

\* A turn of the loop: the read at prev becomes part of a new one, or a new one starts.
LEMMA MergeInv == \A it \in Addresses : Inv /\ Merge(it) => Inv'
<1>. SUFFICES ASSUME NEW it \in Addresses, Inv, Merge(it) PROVE Inv'
  OBVIOUS
<1>. USE DEF Inv
<1>a. /\ phase = "merge" /\ phase' = "merge" /\ locations' = locations
      /\ unread' = unread /\ readBuffer' = readBuffer /\ unread = {}
      /\ DOMAIN cache = locations /\ cache \in [locations -> Nat]
      /\ it \in todo /\ it \in locations
      /\ todo' = todo \ {it} /\ prev' = it
  BY DEF Merge, IsLast, Types
<1>b. /\ Visited' = Visited \cup {it}
      /\ it \notin Visited
      /\ \A b \in Visited : it < b
      /\ \A b \in todo : b <= it
      /\ cache[it] = 1
  BY <1>a DEF Merge, IsLast, Visited, Unvisited, Types
<1>c. \A l \in locations : l \in Int /\ l >= 3
  BY AddressFacts, SMT DEF Types
<1>d. prev # None => prev \in Visited /\ cache[prev] # 0 /\ it < prev
                     /\ \A b \in Visited : prev <= b
  BY <1>a, <1>b DEF AtPrev
<1>e. prev = None => Visited = {}
  BY DEF AtPrev
<1>f. Visited \subseteq locations  BY DEF Visited
<1>g. it \in Int /\ None = -1 /\ it # None
  BY <1>a, <1>c, SMT DEF None
<1>n. CASE Near(it)
  <2>1. /\ prev # None /\ prev \in Int /\ it >= prev - 3 /\ cache[prev] \in Nat \ {0}
        /\ it < prev /\ prev \in locations /\ prev \in Visited
    BY <1>n, <1>a, <1>c, <1>d, <1>f DEF Near
  <2>2. cache' = Merged(it)  BY <1>n DEF Merge
  <2>3. /\ cache' \in [locations -> Nat]
        /\ cache'[it] = cache[prev] + (prev - it)
        /\ cache'[it] \in Nat \ {0}
        /\ cache'[prev] = 0
        /\ \A a \in locations \ {it, prev} : cache'[a] = cache[a]
    <3>1. prev - it \in Nat /\ cache[prev] + (prev - it) \in Nat \ {0}
      BY <2>1, <1>g, SMT
    <3>. QED  BY <2>1, <2>2, <3>1, <1>a DEF Merged
  <2>4. Types'
    BY <1>a, <2>3 DEF Types
  <2>5. Unvisited'
    <3>1. \A a \in todo' : cache'[a] = 1
      BY <1>a, <2>1, <2>3 DEF Unvisited, Visited, Types
    <3>2. \A a \in todo', b \in Visited' : a < b
      <4>. SUFFICES ASSUME NEW a \in todo', NEW b \in Visited' PROVE a < b
        OBVIOUS
      <4>1. a \in todo /\ a # it /\ a <= it /\ a \in locations
        BY <1>a, <1>b DEF Types
      <4>2. a < it  BY <4>1, <1>c, <1>a, SMT
      <4>. QED  BY <4>1, <4>2, <1>b DEF Unvisited
    <3>. QED  BY <3>1, <3>2 DEF Unvisited
  <2>6. AtPrev'
    BY <1>a, <1>b, <1>g, <2>3, <1>c, <1>f DEF AtPrev
  <2>7. \A a \in Visited' : Starts(a)' /\ a # it => Starts(a) /\ a \in Visited /\ a # prev /\ cache'[a] = cache[a]
    BY <1>a, <1>b, <2>3, <1>f DEF Starts
  <2>8. it + cache'[it] - 1 = prev + cache[prev] - 1
    BY <2>3, <2>1, <1>g, SMT
  <2>9. Starts(prev)  BY <2>1, <1>a DEF Starts
  <2>10. Tight'
    <3>. SUFFICES ASSUME NEW a \in Visited', Starts(a)'
                  PROVE  /\ (a + cache[a] - 1 \in Visited)'
                         /\ \A x \in BytesOf(a)' : \E l \in locations' : x <= l /\ l <= x + 2
                         /\ \A b \in Visited' : Starts(b)' /\ a < b => b - a > cache'[a] + 2
      BY DEF Tight
    <3>1. CASE a = it
      <4>1. (a + cache[a] - 1 \in Visited)'
        BY <3>1, <2>8, <2>9, <2>1, <1>b DEF Tight
      <4>2. ASSUME NEW x \in BytesOf(a)' PROVE \E l \in locations' : x <= l /\ l <= x + 2
        <5>1. x \in Int /\ it <= x /\ x <= prev + cache[prev] - 1
          BY <4>2, <3>1, <2>8 DEF BytesOf
        <5>2. CASE x >= prev
          <6>1. x \in BytesOf(prev)  BY <5>1, <5>2, <2>1 DEF BytesOf
          <6>. QED  BY <6>1, <2>9, <2>1, <1>a DEF Tight
        <5>3. CASE x < prev /\ x # it
          <6>1. x <= prev /\ prev <= x + 2  BY <5>1, <5>3, <2>1, <1>g, SMT
          <6>. QED  BY <6>1, <2>1, <1>a
        <5>4. CASE x = it
          BY <5>4, <1>a, <1>g, SMT
        <5>. QED  BY <5>1, <5>2, <5>3, <5>4, <2>1, SMT
      <4>3. ASSUME NEW b \in Visited', Starts(b)', a < b PROVE b - a > cache'[a] + 2
        <5>1. b # it  BY <4>3, <3>1, <1>g, SMT
        <5>2. b \in Visited /\ Starts(b) /\ b # prev /\ b \in Int
          BY <5>1, <4>3, <2>7, <1>c, <1>f
        <5>3. prev < b  BY <5>2, <1>d, <2>1, SMT
        <5>4. b - prev > cache[prev] + 2
          BY <5>2, <5>3, <2>9, <2>1 DEF Tight
        <5>. QED  BY <5>4, <5>2, <3>1, <2>1, <2>3, <1>g, SMT
      <4>. QED  BY <4>1, <4>2, <4>3
    <3>2. CASE a # it
      <4>1. Starts(a) /\ a \in Visited /\ a # prev /\ cache'[a] = cache[a]
        BY <3>2, <2>7
      <4>2. BytesOf(a)' = BytesOf(a)  BY <4>1 DEF BytesOf
      <4>3. ASSUME NEW b \in Visited', Starts(b)', a < b PROVE b - a > cache'[a] + 2
        <5>1. b # it  BY <4>1, <4>3, <1>b, <1>c, <1>f, <1>g, SMT
        <5>2. b \in Visited /\ Starts(b)  BY <5>1, <4>3, <2>7
        <5>. QED  BY <5>2, <4>1, <4>3 DEF Tight
      <4>. QED  BY <4>1, <4>2, <4>3, <1>a, <1>b DEF Tight
    <3>. QED  BY <3>1, <3>2
  <2>11. Covered'
    <3>. SUFFICES ASSUME NEW l \in Visited'
                  PROVE  \E a \in Visited' : Starts(a)' /\ l \in BytesOf(a)'
      BY DEF Covered
    <3>0. Starts(it)' /\ it \in Visited'
      BY <1>a, <1>b, <2>3 DEF Starts
    <3>1. CASE l = it
      <4>1. l \in BytesOf(it)'  BY <3>1, <2>3, <1>g, SMT DEF BytesOf
      <4>. QED  BY <4>1, <3>0
    <3>2. CASE l # it
      <4>1. l \in Visited /\ l \in Int /\ it < l  BY <3>2, <1>b, <1>c, <1>f
      <4>2. PICK a \in Visited : Starts(a) /\ l \in BytesOf(a)
        BY <4>1 DEF Covered
      <4>3. CASE a = prev
        <5>1. l <= prev + cache[prev] - 1  BY <4>1, <4>2, <4>3, <2>1 DEF BytesOf
        <5>2. l \in BytesOf(it)'  BY <5>1, <4>1, <2>8, <2>3, <1>g, <2>1, SMT DEF BytesOf
        <5>. QED  BY <5>2, <3>0
      <4>4. CASE a # prev
        <5>1. a # it /\ a \in locations  BY <1>b, <1>f
        <5>2. cache'[a] = cache[a]  BY <5>1, <4>4, <2>3
        <5>3. BytesOf(a)' = BytesOf(a) /\ Starts(a)' /\ a \in Visited'
          BY <5>1, <5>2, <4>2, <1>a, <1>b, <2>3 DEF BytesOf, Starts
        <5>. QED  BY <5>3, <4>2
      <4>. QED  BY <4>3, <4>4
    <3>. QED  BY <3>1, <3>2
  <2>12. Buffered'  BY <1>a, <2>3 DEF Buffered
  <2>. QED  BY <2>4, <2>5, <2>6, <2>10, <2>11, <2>12
<1>m. CASE ~Near(it)
  <2>2. cache' = cache  BY <1>m DEF Merge
  <2>3. prev # None => it < prev - 3 /\ prev \in Int /\ prev \in Visited
    <3>. SUFFICES ASSUME prev # None PROVE it < prev - 3 /\ prev \in Int /\ prev \in Visited
      OBVIOUS
    <3>1. prev \in Int /\ prev >= 3 /\ prev \in Visited  BY <1>d, <1>f, <1>c
    <3>. QED  BY <3>1, <1>m, <1>g, SMT DEF Near
  <2>4. Types'  BY <1>a, <2>2 DEF Types
  <2>5. Unvisited'
    <3>2. \A a \in todo', b \in Visited' : a < b
      <4>. SUFFICES ASSUME NEW a \in todo', NEW b \in Visited' PROVE a < b
        OBVIOUS
      <4>1. a \in todo /\ a # it /\ a <= it /\ a \in locations
        BY <1>a, <1>b DEF Types
      <4>2. a < it  BY <4>1, <1>c, <1>a, SMT
      <4>. QED  BY <4>1, <4>2, <1>b DEF Unvisited
    <3>. QED  BY <3>2, <1>a, <2>2 DEF Unvisited
  <2>6. AtPrev'
    BY <1>a, <1>b, <1>g, <2>2, <1>c, <1>f DEF AtPrev
  <2>7. \A a : Starts(a)' <=> Starts(a)  BY <2>2 DEF Starts
  <2>8. \A a : BytesOf(a)' = BytesOf(a)  BY <2>2 DEF BytesOf
  <2>9. \A b \in Visited : b - it > 3
    BY <2>3, <1>d, <1>e, <1>c, <1>f, <1>g
  <2>10. Tight'
    <3>. SUFFICES ASSUME NEW a \in Visited', Starts(a)'
                  PROVE  /\ (a + cache[a] - 1 \in Visited)'
                         /\ \A x \in BytesOf(a)' : \E l \in locations' : x <= l /\ l <= x + 2
                         /\ \A b \in Visited' : Starts(b)' /\ a < b => b - a > cache'[a] + 2
      BY DEF Tight
    <3>1. CASE a = it
      <4>1. (a + cache[a] - 1 \in Visited)'
        BY <3>1, <2>2, <1>b, <1>g
      <4>2. \A x \in BytesOf(a)' : x = it
        <5>1. BytesOf(a)' = it..it
          BY <3>1, <2>2, <1>b, <1>g, SMT DEF BytesOf
        <5>. QED  BY <5>1, <1>g, SMT
      <4>3. \A x \in BytesOf(a)' : \E l \in locations' : x <= l /\ l <= x + 2
        BY <4>2, <1>a, <1>g
      <4>4. \A b \in Visited' : Starts(b)' /\ a < b => b - a > cache'[a] + 2
        BY <3>1, <2>2, <2>9, <1>b, <1>g
      <4>. QED  BY <4>1, <4>3, <4>4
    <3>2. CASE a # it
      <4>1. a \in Visited /\ Starts(a) /\ it < a  BY <3>2, <1>b, <2>7
      <4>2. \A b \in Visited' : a < b => b \in Visited
        BY <4>1, <1>b, <1>c, <1>f, <1>g
      <4>. QED  BY <4>1, <4>2, <2>2, <2>7, <2>8, <1>a, <1>b DEF Tight
    <3>. QED  BY <3>1, <3>2
  <2>11. Covered'
    <3>1. Starts(it) /\ it \in BytesOf(it)
      BY <1>a, <1>b, <1>g DEF Starts, BytesOf
    <3>. QED  BY <3>1, <2>7, <2>8, <1>b DEF Covered
  <2>12. Buffered'  BY <1>a, <2>2 DEF Buffered
  <2>. QED  BY <2>4, <2>5, <2>6, <2>10, <2>11, <2>12
<1>. QED  BY <1>n, <1>m

\* The lengths of zero are removed, and the first batch is asked for.
LEMMA CleanUpInv == Inv /\ CleanUp => Inv'
<1>. SUFFICES ASSUME Inv, CleanUp PROVE Inv'
  OBVIOUS
<1>. USE DEF Inv
<1>a. /\ phase = "merge" /\ phase' = "read" /\ locations' = locations /\ todo = {} /\ todo' = {}
      /\ prev' = prev /\ readBuffer' = readBuffer /\ unread' = DOMAIN cache'
      /\ DOMAIN cache = locations /\ cache \in [locations -> Nat]
  BY DEF CleanUp, Types
<1>b. /\ DOMAIN cache' = {b \in locations : cache[b] # 0}
      /\ \A a \in DOMAIN cache' : cache'[a] = cache[a]
  BY DEF CleanUp
<1>c. Visited' = Visited /\ Visited = locations  BY <1>a DEF Visited
<1>d. \A a \in locations : Starts(a)' <=> Starts(a)
  BY <1>a, <1>b DEF Starts
<1>e. \A a \in locations : Starts(a) => cache'[a] = cache[a] /\ BytesOf(a)' = BytesOf(a)
  BY <1>a, <1>b DEF Starts, BytesOf
<1>1. Types'
  <2>1. cache' \in [DOMAIN cache' -> Nat]  BY <1>a, <1>b DEF CleanUp
  <2>. QED  BY <2>1, <1>a, <1>b DEF Types
<1>2. Unvisited'  BY <1>a DEF Unvisited
<1>3. AtPrev'  BY <1>a, <1>c DEF AtPrev
<1>4. Tight'  BY <1>a, <1>c, <1>d, <1>e DEF Tight
<1>5. Covered'  BY <1>c, <1>d, <1>e DEF Covered
<1>6. Buffered'  BY <1>a DEF Buffered
<1>. QED  BY <1>1, <1>2, <1>3, <1>4, <1>5, <1>6

\* A read starts and ends with a location, so all its bytes are in the bank.
LEMMA ReadsInBank ==
    ASSUME Inv, phase = "read", NEW a \in DOMAIN cache
    PROVE  /\ a \in Int /\ cache[a] \in Nat \ {0}
           /\ BytesOf(a) \subseteq Wram..(Wram + Bank - 1)
           /\ a \in Wram..(Wram + Bank - 1)
<1>1. a \in locations /\ a \in Visited /\ Starts(a) /\ cache[a] \in Nat \ {0}
  BY DEF Inv, Types, Visited, Starts
<1>2. a + cache[a] - 1 \in locations  BY <1>1 DEF Inv, Tight, Visited
<1>3. a \in Int /\ a >= 8257536 /\ a <= 8323071
  BY <1>1, AddressFacts DEF Inv, Types
<1>4. a + cache[a] - 1 <= 8323071  BY <1>2, AddressFacts DEF Inv, Types
<1>5. \A x \in BytesOf(a) : x \in Int /\ x >= 8257536 /\ x <= 8323071
  BY <1>1, <1>3, <1>4, SMT DEF BytesOf
<1>6. BytesOf(a) \subseteq Wram..(Wram + Bank - 1)
  BY <1>5, FirstBank, SMT
<1>7. a \in Wram..(Wram + Bank - 1)
  BY <1>3, FirstBank, SMT
<1>. QED  BY <1>1, <1>3, <1>6, <1>7, SMT

LEMMA AnswerInv == \A a \in Addresses : Inv /\ Answer(a) => Inv'
<1>. SUFFICES ASSUME NEW a \in Addresses, Inv, Answer(a) PROVE Inv'
  OBVIOUS
<1>a. /\ a \in unread /\ unread' = unread \ {a}
      /\ UNCHANGED <<locations, cache, todo, prev, phase>>
  BY DEF Answer
<1>b. phase = "read" /\ a \in DOMAIN cache  BY <1>a DEF Inv, Types, Buffered
<1>c. /\ DOMAIN readBuffer' = DOMAIN readBuffer \cup BytesOf(a)
      /\ \A x \in DOMAIN readBuffer' :
            readBuffer'[x] = IF x \in BytesOf(a) THEN MapAddr(a) + (x - a) ELSE readBuffer[x]
  BY DEF Answer, BytesOf
<1>d. \A b : BytesOf(b)' = BytesOf(b) /\ (Starts(b)' <=> Starts(b))
  BY <1>a DEF BytesOf, Starts
<1>e. Visited' = Visited  BY <1>a DEF Visited
<1>f. /\ a \in Int /\ BytesOf(a) \subseteq Wram..(Wram + Bank - 1)
      /\ a \in Wram..(Wram + Bank - 1)
  BY <1>b, ReadsInBank
<1>g. \A x \in BytesOf(a) : MapAddr(a) + (x - a) = MapAddr(x)
  <2>. SUFFICES ASSUME NEW x \in BytesOf(a) PROVE MapAddr(a) + (x - a) = MapAddr(x)
    OBVIOUS
  <2>0. x \in Wram..(Wram + Bank - 1)  BY <1>f
  <2>1. x \in Wram..(Wram + Bank - 1) /\ x \in Int  BY <2>0, FirstBank, SMT
  <2>2. MapAddr(x) = x + 7798784 /\ MapAddr(a) = a + 7798784
    BY <2>1, <1>f, MapsWram
  <2>. QED  BY <2>1, <2>2, <1>f, SMT
<1>1. Types'  BY <1>a, <1>b DEF Inv, Types
<1>2. Unvisited'  BY <1>a, <1>e DEF Inv, Unvisited
<1>3. AtPrev'  BY <1>a, <1>e DEF Inv, AtPrev
<1>4. Tight'  BY <1>a, <1>d, <1>e DEF Inv, Tight
<1>5. Covered'  BY <1>d, <1>e DEF Inv, Covered
<1>6. Buffered'
  <2>1. unread' \subseteq DOMAIN cache'  BY <1>a DEF Inv, Buffered
  <2>2. DOMAIN readBuffer' \subseteq Wram..(Wram + Bank - 1)
    BY <1>c, <1>f DEF Inv, Buffered
  <2>3. \A x \in DOMAIN readBuffer' : readBuffer'[x] = MapAddr(x)
    BY <1>c, <1>g DEF Inv, Buffered
  <2>4. \A b \in DOMAIN cache' \ unread' : BytesOf(b)' \subseteq DOMAIN readBuffer'
    BY <1>a, <1>b, <1>c, <1>d DEF Inv, Buffered
  <2>. QED  BY <2>1, <2>2, <2>3, <2>4 DEF Buffered
<1>. QED  BY <1>1, <1>2, <1>3, <1>4, <1>5, <1>6 DEF Inv

LEMMA PollInv == Inv /\ Poll => Inv'
<1>. SUFFICES ASSUME Inv, Poll PROVE Inv'
  OBVIOUS
<1>a. /\ phase = "read" /\ unread' = DOMAIN cache /\ DOMAIN readBuffer' = {}
      /\ UNCHANGED <<locations, cache, todo, prev, phase>>
  BY DEF Poll
<1>d. \A b : BytesOf(b)' = BytesOf(b) /\ (Starts(b)' <=> Starts(b))
  BY <1>a DEF BytesOf, Starts
<1>e. Visited' = Visited  BY <1>a DEF Visited
<1>1. Types'  BY <1>a DEF Inv, Types
<1>2. Unvisited'  BY <1>a, <1>e DEF Inv, Unvisited
<1>3. AtPrev'  BY <1>a, <1>e DEF Inv, AtPrev
<1>4. Tight'  BY <1>a, <1>d, <1>e DEF Inv, Tight
<1>5. Covered'  BY <1>d, <1>e DEF Inv, Covered
<1>6. Buffered'  BY <1>a DEF Buffered
<1>. QED  BY <1>1, <1>2, <1>3, <1>4, <1>5, <1>6 DEF Inv

LEMMA StutterInv == Inv /\ UNCHANGED vars => Inv'
<1>. SUFFICES ASSUME Inv, UNCHANGED vars PROVE Inv'
  OBVIOUS
<1>a. UNCHANGED <<locations, cache, todo, prev, unread, readBuffer, phase>>
  BY DEF vars
<1>d. \A b : BytesOf(b)' = BytesOf(b) /\ (Starts(b)' <=> Starts(b))
  BY <1>a DEF BytesOf, Starts
<1>e. Visited' = Visited  BY <1>a DEF Visited
<1>1. Types'  BY <1>a DEF Inv, Types
<1>2. Unvisited'  BY <1>a, <1>e DEF Inv, Unvisited
<1>3. AtPrev'  BY <1>a, <1>e DEF Inv, AtPrev
<1>4. Tight'  BY <1>a, <1>d, <1>e DEF Inv, Tight
<1>5. Covered'  BY <1>d, <1>e DEF Inv, Covered
<1>6. Buffered'  BY <1>a, <1>d DEF Inv, Buffered
<1>. QED  BY <1>1, <1>2, <1>3, <1>4, <1>5, <1>6 DEF Inv

-----------------------------------------------------------------------------

LEMMA Invariance == Spec => []Inv
<1>1. Inv /\ [Next]_vars => Inv'
  BY MergeInv, CleanUpInv, AnswerInv, PollInv, StutterInv DEF Next
<1>. QED  BY <1>1, InitInv, PTL DEF Spec

\* The reads start and end with a location, have holes of at most two bytes, and no two
\* of them could be one, for every set of locations.
THEOREM ReadsCorrect == Spec => []ReadsAreDue
<1>1. Inv => ReadsAreDue
  <2>. SUFFICES ASSUME Inv, phase = "read", NEW a \in DOMAIN cache
                PROVE  /\ {a, a + cache[a] - 1} \subseteq locations
                       /\ \A x \in BytesOf(a) : locations \cap x..(x + 2) # {}
                       /\ \A b \in DOMAIN cache : a < b => b - a > cache[a] + 2
    BY DEF ReadsAreDue
  <2>1. Visited = locations /\ \A b \in DOMAIN cache : b \in Visited /\ Starts(b)
    BY DEF Inv, Types, Visited, Starts
  <2>2. \A x \in BytesOf(a) : locations \cap x..(x + 2) # {}
    <3>. SUFFICES ASSUME NEW x \in BytesOf(a) PROVE locations \cap x..(x + 2) # {}
      OBVIOUS
    <3>1. PICK l \in locations : x <= l /\ l <= x + 2
      BY <2>1 DEF Inv, Tight
    <3>2. l \in Int  BY AddressFacts DEF Inv, Types
    <3>3. x \in Int  BY ReadsInBank, SMT DEF BytesOf
    <3>. QED  BY <3>1, <3>2, <3>3
  <2>. QED  BY <2>1, <2>2 DEF Inv, Tight
<1>. QED  BY <1>1, Invariance, PTL

\* Merging changes nothing of what is read: every location's byte is read, from its own
\* place, for every set of locations.
THEOREM PlacesCorrect == Spec => []ReadInPlace
<1>1. Inv => ReadInPlace
  <2>. SUFFICES ASSUME Inv PROVE ReadInPlace
    OBVIOUS
  <2>1. ASSUME phase = "read", unread = {} PROVE locations \subseteq DOMAIN readBuffer
    <3>. SUFFICES ASSUME NEW l \in locations PROVE l \in DOMAIN readBuffer
      OBVIOUS
    <3>1. l \in Visited  BY <2>1 DEF Inv, Types, Visited
    <3>2. PICK a \in Visited : Starts(a) /\ l \in BytesOf(a)
      BY <3>1 DEF Inv, Covered
    <3>. QED  BY <3>2, <2>1 DEF Inv, Buffered, Starts
  <2>2. \A x \in DOMAIN readBuffer : readBuffer[x] = MapAddr(x)
    BY DEF Inv, Buffered
  <2>3. ASSUME NEW x \in DOMAIN readBuffer, NEW y \in DOMAIN readBuffer,
               readBuffer[x] = readBuffer[y]
        PROVE  x = y
    <3>1. x \in Wram..(Wram + Bank - 1) /\ y \in Wram..(Wram + Bank - 1)
      BY DEF Inv, Buffered
    <3>2. x \in Int /\ y \in Int  BY <3>1, FirstBank, SMT
    <3>3. x + 7798784 = y + 7798784  BY <3>1, <2>2, <2>3, MapsWram
    <3>. QED  BY <3>2, <3>3, SMT
  <2>. QED  BY <2>1, <2>2, <2>3 DEF ReadInPlace
<1>. QED  BY <1>1, Invariance, PTL

=============================================================================
