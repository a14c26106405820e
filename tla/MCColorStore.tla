---------------------------- MODULE MCColorStore ----------------------------
(***************************************************************************)
(* Instances of ColorStore for TLC.  red and crimson have names that hash  *)
(* to the same type; the two input files overlap; pale has no hex.         *)
(***************************************************************************)
EXTENDS ColorStore, FiniteSets, TLC

CONSTANTS red, crimson, blue, pale, w1, w2

MCColors == {red, crimson, blue, pale}
MCTypeOf == (red :> 5) @@ (crimson :> 5) @@ (blue :> 7) @@ (pale :> 7)
MCLines == (w1 :> <<red, Malformed, blue>>) @@ (w2 :> <<crimson, pale, Nameless>>)

\* The first colour of w2 has type 0.
ZeroTypeOf == (red :> 5) @@ (crimson :> 0) @@ (blue :> 7) @@ (pale :> 3)

\* With ParseQty = 2 the last line of w1 is out of reach and red is its last;
\* w2 dies on pale and gets past it when it is run again.
LiveLines == (w1 :> <<Malformed, red, blue>>) @@ (w2 :> <<pale, crimson>>)

\* Two short inputs, for the run that also deletes.
ShortLines == (w1 :> <<red, blue>>) @@ (w2 :> <<crimson>>)
=============================================================================
