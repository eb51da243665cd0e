---------------------------- MODULE AddressCache ----------------------------
(***************************************************************************)
(* Which bytes of the console the client reads: makeAddressCache(), which    *)
(* merges the addresses of the locations into few reads, the reads of a      *)
(* batch (src/src/games/game.hpp), and mapaddr() (src/src/usb2snes.hpp),     *)
(* which turns the address of a read into a place in the memory of the       *)
(* service.                                                                 *)
(*                                                                         *)
(* Only the first address of a read is mapped, its other bytes are those      *)
(* that follow in the memory of the service: so a read must not leave the     *)
(* region it starts in.  Lengths are one byte, and the arithmetic of the      *)
(* code is unsigned: three less than an address below three is a high one.    *)
(***************************************************************************)
EXTENDS Integers

CONSTANTS
    Addresses       \* where a game may keep the flags of its locations

Bank == 65536
Wram == 126 * Bank              \* $7e0000
FastRom == 128 * Bank           \* $800000
SramBanks == 32..63             \* $20 to $3f
SramWindow == 24576..32767      \* $6000 to $7fff of these
SramSize == 8192
RomSize == 64 * Bank            \* $400000

\* All flags of locations are in the first bank of the work memory.
ASSUME AddressAssumption == Addresses \subseteq Wram..(Wram + Bank - 1)

VARIABLES
    locations,      \* the addresses of get_bit_locations()
    cache,          \* _addressCache: the length of the read at each address
    todo,           \* addresses that the merging loop has yet to visit
    prev,           \* prev: the one it visited last
    unread,         \* reads of the batch that are not answered, once merged
    readBuffer,     \* _readBuffer: the place each byte was read from
    phase           \* "merge", then "read"

vars == <<locations, cache, todo, prev, unread, readBuffer, phase>>

-----------------------------------------------------------------------------
(* Reads that do not depend on the locations: address and length.            *)

Read(addr, len) == [addr |-> addr, len |-> len]

FixedReads ==
    { Read(65472, 28),              \* $00ffc0: the header of the cartridge
      Read(61 * Bank + 12, 1),      \* $3d000c: the flags of the ROM
      Read(61 * Bank + 64, 64),     \* $3d0040: seed and slot
      Read(Wram + 8875, 1),         \* $7e22ab: joined
      Read(Wram + 8945, 1),         \* $7e22f1: finished
      Read(Wram + 9589, 10),        \* $7e2575: the item script
      Read(Wram + 20147, 4),        \* $7e4eb3: the health of the player
      Read(160 * Bank + 32766, 2) } \* $a07ffe: the effect script

BankOf(addr) == addr \div Bank
Offset(addr) == addr % Bank

\* "fastrom mirror"
Unmirrored(addr) == IF addr >= FastRom THEN addr - FastRom ELSE addr

InSram(addr) == BankOf(addr) \in SramBanks /\ Offset(addr) \in SramWindow

\* mapaddr(): the banks $7e and $7f come to the same place.
MapAddr(addr) ==
    LET a == Unmirrored(addr)
    IN  IF BankOf(addr) \in {126, 127} THEN 245 * Bank + Offset(addr)
        ELSE IF InSram(a) THEN 224 * Bank + (BankOf(a) - 32) * SramSize + (Offset(a) - 24576)
        ELSE a % RomSize

-----------------------------------------------------------------------------

IsLast(a, S) == a \in S /\ \A b \in S : b <= a

None == -1

\* _addressCache is filled, and the loop starts from its end.
Init ==
    /\ locations \in SUBSET Addresses
    /\ cache = [a \in locations |-> 1]
    /\ todo = locations
    /\ prev = None
    /\ unread = {}
    /\ readBuffer = [x \in {} |-> 0]
    /\ phase = "merge"

\* Variant: a hole of three bytes is allowed.
NearFar(it) == prev # None /\ prev >= 4 /\ it >= prev - 4

\* "allow 2B hole per 1B data"
Near(it) == prev # None /\ prev >= 3 /\ it >= prev - 3

\* Variant: the bytes between the two are forgotten.
MergedShort(it) == [cache EXCEPT ![it] = cache[prev] + 1, ![prev] = 0]

\* The read at prev becomes part of the one at it.
Merged(it) == [cache EXCEPT ![it] = cache[prev] + (prev - it), ![prev] = 0]

\* One turn of the merging loop of makeAddressCache()
Merge(it) ==
    /\ phase = "merge"
    /\ IsLast(it, todo)
    /\ cache' = IF Near(it) THEN Merged(it) ELSE cache
    /\ prev' = it
    /\ todo' = todo \ {it}
    /\ UNCHANGED <<locations, unread, readBuffer, phase>>

\* "clean up zero reads", and the first batch is asked for.
CleanUp ==
    /\ phase = "merge"
    /\ todo = {}
    /\ cache' = [a \in {b \in locations : cache[b] # 0} |-> cache[a]]
    /\ unread' = DOMAIN cache'
    /\ phase' = "read"
    /\ UNCHANGED <<locations, todo, prev, readBuffer>>

\* A read is answered; the reads are answered in the order of their addresses.
Answer(a) ==
    /\ a \in unread
    /\ \A b \in unread : a <= b
    /\ unread' = unread \ {a}
    /\ LET bytes == a..(a + cache[a] - 1)
       IN  readBuffer' = [x \in DOMAIN readBuffer \cup bytes |->
                            IF x \in bytes THEN MapAddr(a) + (x - a) ELSE readBuffer[x]]
    /\ UNCHANGED <<locations, cache, todo, prev, phase>>

\* The next batch; its first callback clears the buffer.
Poll ==
    /\ phase = "read"
    /\ unread = {}
    /\ unread' = DOMAIN cache
    /\ readBuffer' = [x \in {} |-> 0]
    /\ UNCHANGED <<locations, cache, todo, prev, phase>>

Next ==
    \/ \E a \in Addresses : Merge(a) \/ Answer(a)
    \/ CleanUp
    \/ Poll

Spec == Init /\ [][Next]_vars

-----------------------------------------------------------------------------
(* Properties.                                                              *)

\* The reads of fixed length stay in their region, and no two bytes of them share a place.
FixedInPlace ==
    \A r, s \in FixedReads : \A i \in 0..(r.len - 1), j \in 0..(s.len - 1) :
        /\ MapAddr(r.addr) + i = MapAddr(r.addr + i)
        /\ MapAddr(r.addr) + i = MapAddr(s.addr) + j => r.addr + i = s.addr + j

\* Merging changes nothing of what is read: at the end of a batch the buffer has the byte
\* of every location, from the place a read of that byte alone would have taken it from,
\* and no other address shares that place.
ReadInPlace ==
    /\ phase = "read" /\ unread = {} => locations \subseteq DOMAIN readBuffer
    /\ \A x \in DOMAIN readBuffer : readBuffer[x] = MapAddr(x)
    /\ \A x, y \in DOMAIN readBuffer : readBuffer[x] = readBuffer[y] => x = y

\* The bytes of a read
BytesOf(a) == a..(a + cache[a] - 1)

\* Every read starts and ends with a location and has holes of at most two bytes; two
\* reads that could be one, because no more than two bytes lie between them, are one.
ReadsAreDue ==
    phase = "read" =>
        \A a \in DOMAIN cache :
            /\ {a, a + cache[a] - 1} \subseteq locations
            /\ \A x \in BytesOf(a) : locations \cap x..(x + 2) # {}
            /\ \A b \in DOMAIN cache : a < b => b - a > cache[a] + 2

=============================================================================
