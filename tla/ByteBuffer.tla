----------------------------- MODULE ByteBuffer -----------------------------
(***************************************************************************)
(* The byte buffer (tools/ByteBuffer): a block of memory, a read index and *)
(* a write index.  wbuffer(n) makes room for n bytes and hands out a       *)
(* pointer; wlength(k) says how many of them were written; rlength(k)      *)
(* consumes, and the indices start again at 0 when nothing is left.        *)
(*                                                                         *)
(* A byte is known by its number: the i-th byte ever written is i, and     *)
(* memory that was never written holds Junk.                               *)
(***************************************************************************)
EXTENDS Integers

CONSTANTS
    Chunk,         \* BUFFER_CHUNK_SIZE
    InitialSize,   \* the size the constructor reserves
    MaxReserve,    \* the largest reservation asked for
    MaxCapacity    \* realloc succeeds up to this size

ASSUME BufferAssumption ==
    /\ Chunk \in Nat \ {0}
    /\ InitialSize \in Nat
    /\ MaxReserve \in Nat
    /\ MaxCapacity \in Nat

VARIABLES
    capacity,      \* _capacity
    rindex,        \* _rindex
    windex,        \* _windex
    mem,           \* _buf
    offered,       \* bytes behind the pointer of wbuffer() that may be written
    consumed       \* bytes ever consumed

vars == <<capacity, rindex, windex, mem, offered, consumed>>

Junk == 0

\* The constructor: reserve(InitialSize) with no memory.
Init ==
    /\ capacity = IF InitialSize < Chunk THEN Chunk ELSE InitialSize
    /\ rindex = 0
    /\ windex = 0
    /\ mem = [j \in 0 .. capacity - 1 |-> Junk]
    /\ offered = 0
    /\ consumed = 0

size == windex - rindex
blank == IF windex >= capacity THEN 0 ELSE capacity - windex

\* The number of the next byte to be written.
NextByte == consumed + size + 1

-----------------------------------------------------------------------------
\* Variant: takes room that was read for room to write.
newCapacityShort(n) ==
    IF blank + rindex > n THEN capacity ELSE capacity + (IF n < Chunk THEN Chunk ELSE n)

\* What reserve(n) makes of the capacity.
newCapacity(n) ==
    IF blank > n THEN capacity ELSE capacity + (IF n < Chunk THEN Chunk ELSE n)

\* Variant: malloc, without copying.
ReallocFresh(n) ==
    [j \in 0 .. newCapacity(n) - 1 |->
        IF newCapacity(n) = capacity THEN mem[j] ELSE Junk]

\* What realloc makes of the memory.
Realloc(n) == [j \in 0 .. newCapacity(n) - 1 |-> IF j < capacity THEN mem[j] ELSE Junk]

\* k new bytes are copied into block m from the write index on.
Copied(m, c, k) ==
    [j \in 0 .. c - 1 |->
        IF windex <= j /\ j < windex + k THEN NextByte + (j - windex) ELSE m[j]]

\* wbuffer(n).
wbuffer(n) ==
    /\ newCapacity(n) <= MaxCapacity
    /\ capacity' = newCapacity(n)
    /\ mem' = Realloc(n)
    /\ offered' = n
    /\ UNCHANGED <<rindex, windex, consumed>>

\* The caller of wbuffer() wrote k bytes and says so: wlength(k).
wlength(k) ==
    /\ k <= offered
    /\ mem' = Copied(mem, capacity, k)
    /\ windex' = windex + k
    /\ offered' = 0
    /\ UNCHANGED <<capacity, rindex, consumed>>

\* append(s, k): wbuffer, memcpy, wlength.
append(k) ==
    /\ newCapacity(k) <= MaxCapacity
    /\ capacity' = newCapacity(k)
    /\ mem' = Copied(Realloc(k), newCapacity(k), k)
    /\ windex' = windex + k
    /\ offered' = 0
    /\ UNCHANGED <<rindex, consumed>>

\* rlength(k), after the bytes were read; it ends with shrink().
rlength(k) ==
    /\ k <= size
    /\ consumed' = consumed + k
    /\ IF k = size
       THEN rindex' = 0 /\ windex' = 0
       ELSE rindex' = rindex + k /\ UNCHANGED windex
    /\ offered' = 0
    /\ UNCHANGED <<capacity, mem>>

\* reset(): the bytes are dropped, the memory is kept.
reset ==
    /\ consumed' = consumed + size
    /\ rindex' = 0
    /\ windex' = 0
    /\ offered' = 0
    /\ UNCHANGED <<capacity, mem>>

\* clear(): the memory is freed too.
clear ==
    /\ consumed' = consumed + size
    /\ capacity' = 0
    /\ rindex' = 0
    /\ windex' = 0
    /\ mem' = [j \in {} |-> Junk]
    /\ offered' = 0

Next ==
    \/ \E n \in 0 .. MaxReserve : wbuffer(n) \/ wlength(n) \/ append(n)
    \/ \E k \in 0 .. MaxCapacity : rlength(k)
    \/ reset
    \/ clear

Spec == Init /\ [][Next]_vars

-----------------------------------------------------------------------------
(* Properties.                                                              *)

\* The indices are ordered, so the assertions of size() and rlength() hold.
TypeOK ==
    /\ capacity \in Nat
    /\ rindex \in 0 .. windex
    /\ windex \in 0 .. capacity
    /\ mem \in [0 .. capacity - 1 -> Nat]
    /\ offered \in Nat
    /\ consumed \in Nat

\* The caller of wbuffer(n) may write n bytes behind the pointer it got, and
\* the assertion of wlength() holds afterwards: a reservation that does not
\* grow the block has room for it all the same.
ReservedFits == windex + offered <= capacity

\* What is readable is what was written and not consumed, in order: neither
\* growing nor starting again at 0 loses, repeats or exposes bytes.
Contents == \A j \in rindex .. windex - 1 : mem[j] = consumed + (j - rindex) + 1

=============================================================================
