---------------------------- MODULE MCCsvParser -----------------------------
(* Two parsers with short files and two creators.  The first file starts   *)
(* with the header, whose second field is no colour, and has two names     *)
(* with one slug; the count is smaller than the number of its good lines.  *)
(* Lines without a comma are those of ab, which is too short to matter,    *)
(* and of gap.                                                             *)
EXTENDS CsvParser, TLC
CONSTANTS w1, w2, c1, c2, ab, red, Red, eclair, gap, header, r, b
Line(n, h) == [name |-> n, hex |-> h]
MCLines ==
  (w1 :> <<Line(header, BadHex), Line(Red, r), Line(ab, Wild), Line(eclair, b),
           Line(red, b)>>)
   @@ (w2 :> <<Line(eclair, r), Line(gap, Wild)>>)
MCWanted == (c1 :> r) @@ (c2 :> BadHex)
MCSlugOf == [n \in Names |-> IF n = Red THEN red ELSE n]
=============================================================================
