---------------------------- MODULE MCColorsLoad ----------------------------
(* Four names, two of one type; the third has the type of broken rows.     *)
EXTENDS ColorsLoad, TLC
CONSTANTS n1, n2, n3, n4
MCTypeOf == (n1 :> 1024) @@ (n2 :> 1024) @@ (n3 :> 2048) @@ (n4 :> 3072)
              @@ (NoName :> 2048) @@ (NoText :> 2048)
=============================================================================
