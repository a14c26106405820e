----------------------------- MODULE HashTwins ------------------------------
(***************************************************************************)
(* Two calls of colordb_hash side by side, for two names of the same       *)
(* length that differ in one character (Navy Blue, Navi Blue).  Colours    *)
(* whose names hash to one type displace each other in the database; these *)
(* two never do.  The first call is the one of ColorHash.                  *)
(***************************************************************************)
EXTENDS ColorHash

\* The multiplier of djb2 is invertible modulo Residues (33 is odd, 65536 a
\* power of two), and two characters are less than Residues apart.
ASSUME TwinAssumption ==
  /\ \A x \in 1..(Residues - 1) : (33 * x) % Residues # 0
  /\ \A c, d \in Chars : c - d < Residues

VARIABLES keyB, hashB, exactB, outB

B == INSTANCE ColorHash WITH key <- keyB, hash <- hashB, exact <- exactB, out <- outB

twinVars == <<key, hash, exact, out, keyB, hashB, exactB, outB, i>>

\* The two names differ at position k and nowhere else.
DifferAt(k) ==
  /\ k \in 1..Len(key)
  /\ Len(keyB) = Len(key)
  /\ \A j \in 1..Len(key) : key[j] # keyB[j] <=> j = k

TwinInit == Init /\ B!Init /\ \E k \in 1..MaxLen : DifferAt(k)

TwinNext == (Step /\ B!Step) \/ (Return /\ B!Return)

TwinSpec == TwinInit /\ [][TwinNext]_twinVars
-----------------------------------------------------------------------------
(* Two names of one length that differ in a single character get different *)
(* types, so neither keeps the other out of the database.                  *)
NeighboursDiffer == out # NoResult /\ outB # NoResult => out # outB
=============================================================================
