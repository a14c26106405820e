--------------------------- MODULE MCColorDbConn ----------------------------
(* One process in every mode, next to one that fills the database.  "csv"  *)
(* stands for the modes that leave the database alone and end well         *)
(* (debug_args, --help, --test).                                           *)
EXTENDS ColorDbConn, TLC
CONSTANTS p1, p2
MCModes ==
  (p1 :> {"json", "typeids", "typeids_hash", "db", "colors_test", "client",
          "csv", "unknown"}) @@
  (p2 :> {"json"})
=============================================================================
