----------------------------- MODULE SpMemFile ------------------------------
(***************************************************************************)
(* The file methods of dbmem/dbmem.c: a file kept in one malloc'ed buffer  *)
(* (spmembuffer_t) that grows by realloc.  used and total are ints, while  *)
(* offsets have 64 bits: the new total is computed with 64 bits and then   *)
(* stored in an int.                                                       *)
(***************************************************************************)
EXTENDS Integers, Sequences

CONSTANTS
  Bytes,
  Junk,    \* a byte of fresh memory
  Blocks,  \* what one call writes: non-empty sequences of bytes
  Limit,   \* the largest end of a write (and the largest initial file)
  IntMax   \* INT_MAX

\* The last conjunct is what a caller has to respect: databases of up to a
\* quarter of INT_MAX bytes.
ASSUME FileAssumption ==
  /\ Junk \notin Bytes
  /\ Blocks \subseteq Seq(Bytes) \ {<<>>}
  /\ {Limit, IntMax} \subseteq Nat
  /\ 4 * Limit <= IntMax

VARIABLES
  data,    \* mem->data: data[j] for j in 1..total
  used,    \* mem->used
  total,   \* mem->total
  reply,   \* what the last call returned
  outside  \* history: memcpy wrote behind the buffer

vars == <<data, used, total, reply, outside>>

Status(s) == [status |-> s, bytes |-> <<>>]

\* What an int holds after n is assigned to it.
ToInt(n) == ((n + IntMax + 1) % (2 * (IntMax + 1))) - (IntMax + 1)

\* readFile of dbmem-test fills the whole buffer; an empty one is calloc'ed.
Init ==
  /\ used \in 0..Limit
  /\ total = used
  /\ data \in [1..total -> Bytes]
  /\ reply = Status("ok")
  /\ outside = FALSE
-----------------------------------------------------------------------------
\* Mutant of NewTotal: only the old total is doubled.
DoubleTotal(last) == ToInt(2 * total)

\* Mutant of NewTotal: the sum is doubled twice.
GrowMore(last) == ToInt(4 * (last + total))

NewTotal(last) == ToInt(2 * (last + total))

Fits(last) == last <= total

\* Mutant of Resized: fresh memory instead of a realloc.
Allocated(n) == [j \in 1..n |-> Junk]

\* realloc(mem->data, n)
Resized(n) == [j \in 1..n |-> IF j <= total THEN data[j] ELSE Junk]

\* memcpy(cells + offset, block): what of it lies inside the buffer.
Copied(cells, offset, block) ==
  [j \in DOMAIN cells |->
     IF j \in (offset + 1)..(offset + Len(block)) THEN block[j - offset] ELSE cells[j]]

SetUsed(last) == used' = IF used > last THEN used ELSE last

WriteInPlace(offset, block) ==
  LET last == offset + Len(block) IN
  /\ Fits(last)
  /\ data' = Copied(data, offset, block)
  /\ SetUsed(last)
  /\ reply' = Status("ok")
  /\ UNCHANGED <<total, outside>>

WriteGrowing(offset, block) ==
  LET last == offset + Len(block) IN
  /\ ~Fits(last)
  /\ NewTotal(last) > 0
  /\ total' = NewTotal(last)
  /\ data' = Copied(Resized(NewTotal(last)), offset, block)
  /\ outside' = (outside \/ last > NewTotal(last))
  /\ SetUsed(last)
  /\ reply' = Status("ok")

\* realloc returns NULL: memory is short or the int is negative.
WriteNoMem(offset, block) ==
  /\ ~Fits(offset + Len(block))
  /\ reply' = Status("nomem")
  /\ UNCHANGED <<data, used, total, outside>>

Truncate(n) ==
  /\ used' = IF n < used THEN n ELSE used
  /\ reply' = Status("ok")
  /\ UNCHANGED <<data, total, outside>>

\* A short read copies nothing, and does not clear the caller's buffer.
Read(offset, len) ==
  /\ reply' = IF offset + len > used
              THEN Status("short")
              ELSE [status |-> "ok", bytes |-> [j \in 1..len |-> data[offset + j]]]
  /\ UNCHANGED <<data, used, total, outside>>
-----------------------------------------------------------------------------
Next ==
  \/ \E offset \in 0..Limit, block \in Blocks :
       /\ offset + Len(block) <= Limit
       /\ \/ WriteInPlace(offset, block)
          \/ WriteGrowing(offset, block)
          \/ WriteNoMem(offset, block)
  \/ \E n \in 0..Limit : Truncate(n)
  \/ \E offset \in 0..Limit, len \in 1..Limit : Read(offset, len)

Spec == Init /\ [][Next]_vars
-----------------------------------------------------------------------------
TypeOK ==
  /\ used \in 0..Limit
  /\ total \in 0..(4 * Limit)
  /\ data \in [1..total -> Bytes \cup {Junk}]
  /\ outside \in BOOLEAN

(* No write leaves the buffer and the file ends inside it: the int that    *)
(* holds the new total never wraps, for files up to a quarter of INT_MAX.  *)
InBounds == ~outside /\ used <= total

File == INSTANCE VfsFile WITH size <- used, content <- [j \in 1..used |-> data[j]]

(* The buffer behaves as a file: growing, shrinking and growing again      *)
(* never changes a byte that was written and not cut off.                  *)
FileSpec == File!Spec
=============================================================================
