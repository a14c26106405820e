---------------------------- MODULE ColorCatalog ----------------------------
(***************************************************************************)
(* What add_colors_db_if_not_exist promises to a reader that looks a type  *)
(* up with colordb_one: a write-once dictionary from type ids to colours.  *)
(* The first colour stored under a type stays the answer for ever; a later *)
(* colour whose name hashes to the same type is not stored.                *)
(***************************************************************************)
CONSTANTS
  Colors,   \* the colours a client may offer
  TypeOf,   \* TypeOf[c]: the type id of colour c (colordb_hash of its name)
  NoColor   \* the answer for a type nothing is stored under

VARIABLE catalog

Types == {TypeOf[c] : c \in Colors}

Init == catalog = [t \in Types |-> NoColor]

Publish(c) ==
  /\ catalog[TypeOf[c]] = NoColor
  /\ catalog' = [catalog EXCEPT ![TypeOf[c]] = c]

Next == \E c \in Colors : Publish(c)

Spec == Init /\ [][Next]_catalog
=============================================================================
