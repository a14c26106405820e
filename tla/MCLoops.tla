------------------------------ MODULE MCLoops -------------------------------
(* The two pure loops, side by side: the hash of two names, words and      *)
(* factors small, chars of both signs; and the search of tables of up to   *)
(* three entries, all distances with ties and without.                     *)
EXTENDS HashTwins, NearestAnsi
MCChars == {-3, 1, 32, 60}
MCDistances == UNION {[1..n -> 0..2] : n \in 0..3}

LoopsInit == TwinInit /\ AnsiInit

LoopsNext ==
  \/ TwinNext /\ UNCHANGED ansiVars
  \/ AnsiNext /\ UNCHANGED twinVars

Loops == LoopsInit /\ [][LoopsNext]_<<twinVars, ansiVars>>
=============================================================================
