----------------------------- MODULE ColorHash ------------------------------
(***************************************************************************)
(* One call of colordb_hash (db/db.c): the djb2 loop over the characters   *)
(* of a colour's name, and the reduction that gives the colour its type.   *)
(*                                                                         *)
(* hash is an unsigned long, which wraps; a character is a signed char.    *)
(* COLORDB_MAX_HASH_BUCKETS is the unparenthesised text 65536 * 1024, so   *)
(* hash % COLORDB_MAX_HASH_BUCKETS means (hash % 65536) * 1024.            *)
(***************************************************************************)
EXTENDS Integers, Sequences

CONSTANTS
  Residues,  \* 65536, the first factor of COLORDB_MAX_HASH_BUCKETS
  Stride,    \* 1024, the second factor
  Words,     \* an unsigned long has Residues * Words values
  IntMax,    \* INT_MAX
  Chars,     \* the values of a char
  MaxLen     \* bound: the length of a name

ASSUME HashAssumption ==
  /\ {Residues, Stride, Words} \subseteq Nat \ {0}
  /\ IntMax \in Nat
  /\ Residues * Stride <= IntMax
  /\ Chars \subseteq Int
  /\ MaxLen \in Nat

VARIABLES
  key,    \* the name
  i,      \* the loop index
  hash,   \* the unsigned long
  exact,  \* history: the same sum without wrapping
  out     \* the return value, or NoResult

vars == <<key, i, hash, exact, out>>

NoResult == -1
Names == UNION {[1..n -> Chars] : n \in 0..MaxLen}

\* Mutant of Wrap: one value too few.
WrapShort(n) == n % (Residues * Words - 1)

Wrap(n) == n % (Residues * Words)

\* Mutant of Mix: `+ hash` is missing.
MixShift(h, c) == 32 * h + c

\* ((hash << 5) + hash) + (*key)
Mix(h, c) == 33 * h + c

\* Mutant of Bucket: the hash is returned as it is.
BucketNot(h) == h

Bucket(h) == (h % Residues) * Stride

Init ==
  /\ key \in Names
  /\ i = 0
  /\ hash = Wrap(5381)
  /\ exact = 5381
  /\ out = NoResult

Step ==
  /\ i < Len(key)
  /\ hash' = Wrap(Mix(hash, key[i + 1]))
  /\ exact' = Mix(exact, key[i + 1])
  /\ i' = i + 1
  /\ UNCHANGED <<key, out>>

Return ==
  /\ i = Len(key)
  /\ out = NoResult
  /\ out' = Bucket(hash)
  /\ UNCHANGED <<key, i, hash, exact>>

Next == Step \/ Return

Spec == Init /\ [][Next]_vars
-----------------------------------------------------------------------------
TypeOK ==
  /\ key \in Names
  /\ i \in 0..Len(key)
  /\ hash \in 0..(Residues * Words - 1)
  /\ exact \in Int
  /\ out \in {NoResult} \cup 0..(Residues * Stride - 1)

(* The wrap of the unsigned long never reaches a type: the type of a name  *)
(* is the one exact arithmetic gives, so it does not depend on the width   *)
(* of unsigned long of the build that filled the database.                 *)
WrapInvisible == out # NoResult => out = Bucket(exact)

\* What sqlite3_bind_int receives when it is passed the 64-bit number n.
AsInt(n) == ((n + IntMax + 1) % (2 * (IntMax + 1))) - (IntMax + 1)

(* colordb_add binds a type with 64 bits, colordb_one, colordb_count_typeid*)
(* and colordb_get_typeid_ids with 32: the rows of a type can be found all *)
(* the same, because the conversion to int keeps every type.               *)
LookupFindsInserted == out # NoResult => AsInt(out) = out

(* COLORDB_MAX_HASH_BUCKETS as its name and its value 65536 * 1024 say:    *)
(* a name falls into one of that many buckets.                             *)
UsesAllBuckets == out # NoResult => out = hash % (Residues * Stride)
=============================================================================
