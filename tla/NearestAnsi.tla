---------------------------- MODULE NearestAnsi -----------------------------
(***************************************************************************)
(* hex_to_closest_ansi_code (rgb-ansi-utils.c): the search of the table    *)
(* set for the entry that is nearest to a colour.  A colour stands for the *)
(* sequence of its distances to the entries, which delta_e computes from   *)
(* the Lab values of both; only their order matters to the search.         *)
(***************************************************************************)
EXTENDS Integers, Sequences

CONSTANTS
  Far,        \* 255, the distance the search starts from
  Distances   \* the distances of a colour from the entries, one per entry

ASSUME AnsiAssumption ==
  /\ Far \in Nat
  /\ Distances \subseteq Seq(Nat)

VARIABLES
  dist,  \* the distances of the colour
  turn,  \* turns of the loop
  then,  \* the least distance so far
  t,     \* the index of its entry
  code   \* the return value, or NoCode

ansiVars == <<dist, turn, then, t, code>>

NoCode == 0

AnsiInit ==
  /\ dist \in Distances
  /\ turn = 0 /\ then = Far /\ t = 0
  /\ code = NoCode

\* Mutant of Nearer: the last of several nearest entries wins.
NearerOrSame(now) == now <= then

Nearer(now) == now < then

Turn ==
  /\ turn < Len(dist)
  /\ t' = IF Nearer(dist[turn + 1]) THEN turn ELSE t
  /\ then' = IF Nearer(dist[turn + 1]) THEN dist[turn + 1] ELSE then
  /\ turn' = turn + 1
  /\ UNCHANGED <<dist, code>>

\* The first 16 codes of a terminal are not in the table.
ReturnCode ==
  /\ turn = Len(dist)
  /\ code = NoCode
  /\ code' = t + 16
  /\ UNCHANGED <<dist, turn, then, t>>

AnsiNext == Turn \/ ReturnCode

AnsiSpec == AnsiInit /\ [][AnsiNext]_ansiVars
-----------------------------------------------------------------------------
AnsiTypeOK ==
  /\ dist \in Distances
  /\ turn \in 0..Len(dist)
  /\ then \in Nat
  /\ t \in Nat /\ (t = 0 \/ t < turn)
  /\ code \in Nat

\* The first of the nearest entries, if one is nearer than Far.
FirstNearest(k) ==
  /\ k \in DOMAIN dist
  /\ dist[k] < Far
  /\ \A j \in DOMAIN dist : dist[k] <= dist[j] /\ (j < k => dist[k] < dist[j])

(* The code is that of the first nearest entry, code 16 being the first    *)
(* entry; a colour as far as 255 from all of them is black.                *)
CodeIsNearest ==
  code # NoCode =>
    \/ FirstNearest(code - 15)
    \/ code = 16 /\ \A j \in DOMAIN dist : dist[j] >= Far
=============================================================================
