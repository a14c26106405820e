----------------------------- MODULE ColorsLoad -----------------------------
(***************************************************************************)
(* colors/colors.c: load_colors reads the colour database into three       *)
(* hashes and two lists, asserts that they have the same size, and the     *)
(* lookups answer from them; colors-test.c then tests the answers.         *)
(*                                                                         *)
(* The load runs one statement after the other, and another process may    *)
(* add or delete colours between them.  Names and hexes come from          *)
(* parse_colors_csv and have no blanks around them.  Any read of the       *)
(* database may fail: a scan then ends early, like one that is complete.   *)
(***************************************************************************)
EXTENDS Integers, Sequences, FiniteSets

CONSTANTS
  Names,
  Hexes,
  NoName,      \* NULL, the name of a row whose data is not a JSON object
  NoText,      \* the same, of a row whose data is empty
  NoHex,       \* NULL, the hex of a row that has none
  TypeOf,      \* TypeOf[n]: colordb_hash of a name
  MAX_COLORS,  \* 2000
  MinColors,   \* 10, from assert(qty > 10)
  MaxRows,     \* bound: rows before the load
  MaxAdded,    \* bound: rows added while it runs
  MaxDeleted   \* bound: rows deleted

ASSUME LoadAssumption ==
  /\ Names \cap {NoName, NoText} = {} /\ NoHex \notin Hexes
  /\ TypeOf \in [Names \cup {NoName, NoText} -> Nat]
  /\ MAX_COLORS \in Nat \ {0}
  /\ {MinColors, MaxRows, MaxAdded, MaxDeleted} \subseteq Nat

VARIABLES
  blobs,     \* table blobs: id -> [name, hex]
  pc,        \* "start", "types", "ids", "names", "check", "loaded", or Over
  typeids,   \* the types the outer loop has not come to
  ids,       \* the ids of this type the inner loop has not come to
  seen,      \* _processed_items, the ids it has
  qty,       \* the result of load_colors_hash
  COLORS_HASH, COLOR_NAME_HASH, COLOR_HEX_HASH,
  todo,      \* names the iterator over COLORS_HASH has not gone past
  item,      \* the name it stands at, or NoName
  COLOR_NAME_STRINGS, COLOR_HEX_STRINGS,
  stored,    \* history: names in the database when the types were read
  missed,    \* history: names of which a scan that failed returned no row
  unread,    \* history: memory ran out in a read, or a row was not returned
  added, deleted,
  cut        \* history: a loop ended because of MAX_COLORS

hashes == <<COLORS_HASH, COLOR_NAME_HASH, COLOR_HEX_HASH>>
strings == <<COLOR_NAME_STRINGS, COLOR_HEX_STRINGS>>
writer == <<blobs, added, deleted>>
lists == <<todo, item, strings>>
history == <<stored, missed, unread, cut>>
vars == <<writer, pc, typeids, ids, seen, qty, hashes, lists, history>>

\* add_colors_db_if_not_exist may die between the blob and the hex it is given
\* as NULL, so a colour without a hex can be there.
Row == [name : Names, hex : Hexes \cup {NoHex}]
         \cup [name : {NoName, NoText}, hex : {NoHex}]
Over == {"passed", "failed", "aborted", "crashed"}

Init ==
  /\ \E n \in 0..MaxRows : blobs \in [1..n -> Row]
  /\ pc = "start"
  /\ typeids = {} /\ ids = {} /\ todo = {} /\ item = NoName
  /\ stored = {} /\ missed = {} /\ unread = FALSE
  /\ seen = 0 /\ qty = 0 /\ added = 0 /\ deleted = 0
  /\ COLORS_HASH = << >> /\ COLOR_NAME_HASH = << >> /\ COLOR_HEX_HASH = << >>
  /\ COLOR_NAME_STRINGS = << >> /\ COLOR_HEX_STRINGS = << >>
  /\ cut = FALSE
-----------------------------------------------------------------------------
(* Another process (colordb_add, colordb_delete), between the statements.  *)

Put(f, x, y) == [z \in DOMAIN f \cup {x} |-> IF z = x THEN y ELSE f[z]]
Stored == {blobs[k].name : k \in DOMAIN blobs}

\* One more than the largest id: the id of a deleted row may come back.
NextRowid == CHOOSE k \in 1..(MaxRows + MaxAdded) :
  (\A j \in DOMAIN blobs : j < k) /\ (k = 1 \/ k - 1 \in DOMAIN blobs)

Add ==
  /\ pc \in {"types", "ids"}
  /\ added < MaxAdded
  /\ added' = added + 1
  /\ \E row \in Row : blobs' = Put(blobs, NextRowid, row)
  /\ UNCHANGED <<deleted, pc, typeids, ids, seen, qty, hashes, lists, history>>

Delete ==
  /\ pc \in {"types", "ids"}
  /\ deleted < MaxDeleted
  /\ deleted' = deleted + 1
  /\ \E gone \in DOMAIN blobs :
       blobs' = [k \in DOMAIN blobs \ {gone} |-> blobs[k]]
  /\ UNCHANGED <<added, pc, typeids, ids, seen, qty, hashes, lists, history>>
-----------------------------------------------------------------------------
(* load_colors_hash.                                                       *)

NamesOf(rows) == {blobs[k].name : k \in rows}
OfType(t) == {k \in DOMAIN blobs : TypeOf[blobs[k].name] = t}

\* SELECT DISTINCT type, in whatever order: the scan ends at the first result
\* that is not a row, which need not be the end.
ReadTypeids ==
  /\ pc = "start"
  /\ pc' = "types"
  /\ typeids' \in SUBSET {TypeOf[n] : n \in Stored}
  /\ stored' = Stored
  /\ missed' = {n \in Stored : TypeOf[n] \notin typeids'}
  /\ UNCHANGED <<writer, ids, seen, qty, hashes, lists, unread, cut>>

\* What a scan by ascending id returns: all rows, or fewer when it fails.
Scans(rows) == {{k \in rows : k <= last} : last \in rows \cup {0}}

\* The next type, in whatever order the query has returned them.
ReadIds ==
  /\ pc = "types"
  /\ qty < MAX_COLORS
  /\ pc' = "ids"
  /\ \E t \in typeids :
       /\ typeids' = typeids \ {t}
       /\ ids' \in Scans(OfType(t))
       /\ missed' = missed \cup (NamesOf(OfType(t)) \ NamesOf(ids'))
  /\ seen' = 0
  /\ UNCHANGED <<writer, qty, hashes, lists, stored, unread, cut>>

MoreIds == pc = "ids" /\ ids # {} /\ seen < MAX_COLORS

\* The row is there and has a name, and a hex when the name is a new one.
Loadable(k) ==
  /\ k \in DOMAIN blobs
  /\ blobs[k].name \in Names
  /\ blobs[k].hex # NoHex \/ blobs[k].name \in DOMAIN COLORS_HASH
NextId == CHOOSE k \in ids : \A j \in ids : k <= j

\* Mutant of HashRow: a name that is known is set again.
HashRowAgain(row) ==
  /\ COLORS_HASH' = Put(COLORS_HASH, row.name, row)
  /\ COLOR_NAME_HASH' = Put(COLOR_NAME_HASH, row.name, row.hex)
  /\ COLOR_HEX_HASH' = Put(COLOR_HEX_HASH, row.hex, row.name)
  /\ qty' = qty + 1

\* Mutant of HashRow: a hex that is known is not hashed again.
HashRowByHex(row) ==
  IF row.hex \in DOMAIN COLOR_HEX_HASH
  THEN UNCHANGED <<hashes, qty>>
  ELSE /\ COLORS_HASH' = Put(COLORS_HASH, row.name, row)
       /\ COLOR_NAME_HASH' = Put(COLOR_NAME_HASH, row.name, row.hex)
       /\ COLOR_HEX_HASH' = Put(COLOR_HEX_HASH, row.hex, row.name)
       /\ qty' = qty + 1

\* Mutant of HashRow: the third hash is forgotten.
HashRowTwice(row) ==
  IF row.name \in DOMAIN COLORS_HASH
  THEN UNCHANGED <<hashes, qty>>
  ELSE /\ COLORS_HASH' = Put(COLORS_HASH, row.name, row)
       /\ COLOR_NAME_HASH' = Put(COLOR_NAME_HASH, row.name, row.hex)
       /\ qty' = qty + 1
       /\ UNCHANGED COLOR_HEX_HASH

\* The first row of a name wins, and the last name of a hex.
HashRow(row) ==
  IF row.name \in DOMAIN COLORS_HASH
  THEN UNCHANGED <<hashes, qty>>
  ELSE /\ COLORS_HASH' = Put(COLORS_HASH, row.name, row)
       /\ COLOR_NAME_HASH' = Put(COLOR_NAME_HASH, row.name, row.hex)
       /\ COLOR_HEX_HASH' = Put(COLOR_HEX_HASH, row.hex, row.name)
       /\ qty' = qty + 1

LoadRow ==
  /\ MoreIds
  /\ Loadable(NextId)
  /\ HashRow(blobs[NextId])
  /\ ids' = ids \ {NextId}
  /\ seen' = seen + 1
  /\ UNCHANGED <<writer, pc, typeids, lists, history>>

\* colordb_get returns NULL for a row that is gone; json_object_get_string
\* then returns NULL as well, as it does for data without a name, and
\* djbhash_find takes the length of that; djbhash_set that of a NULL hex.  The
\* hashes are gone with the process.
LoadBadRow ==
  /\ MoreIds
  /\ ~Loadable(NextId)
  /\ pc' = "crashed"
  /\ UNCHANGED <<writer, typeids, ids, seen, qty, hashes, lists, history>>

\* Memory runs out in a scan with a row, which is copied to the NULL it got or
\* counted for a list that is NULL; or colordb_get, out of memory or after a
\* failed step, returns NULL for a row that is there.
ReadFails ==
  /\ \/ pc = "start" /\ DOMAIN blobs # {}
     \/ pc = "types" /\ qty < MAX_COLORS /\ \E t \in typeids : OfType(t) # {}
     \/ MoreIds
  /\ unread' = TRUE
  /\ pc' = "crashed"
  /\ UNCHANGED <<writer, typeids, ids, seen, qty, hashes, lists, stored, missed, cut>>

EndOfIds ==
  /\ pc = "ids" /\ ~MoreIds
  /\ pc' = "types"
  /\ cut' = (cut \/ ids # {})
  /\ UNCHANGED <<writer, typeids, ids, seen, qty, hashes, lists, stored, missed,
                 unread>>

\* djbhash_iterate, which returns the rows in any order.
Iterate ==
  IF todo' = {} THEN item' = NoName ELSE item' \in todo'

\* ColorLine, which was never set when there was no row, is freed at the end:
\* that may end anyhow.  assert(qty > 10) comes next, then the iteration.
EndOfTypes ==
  /\ pc = "types"
  /\ typeids = {} \/ qty >= MAX_COLORS
  /\ \/ pc' = IF qty > MinColors THEN "names" ELSE "aborted"
     \/ qty = 0 /\ pc' = "crashed"
  /\ todo' = DOMAIN COLORS_HASH
  /\ Iterate
  /\ cut' = (cut \/ typeids # {})
  /\ UNCHANGED <<writer, typeids, ids, seen, qty, hashes, strings, stored, missed,
                 unread>>
-----------------------------------------------------------------------------
(* load_color_names, the asserts of load_colors, and the lookups.          *)

\* Mutant of HasText: a hex that was listed is not listed again.
HasTextOnce(row) ==
  row.name # NoText /\ row.hex \notin {COLOR_HEX_STRINGS[k] : k \in DOMAIN COLOR_HEX_STRINGS}

\* strlen(row_data) > 0
HasText(row) == row.name # NoText

\* Mutant of ListItem: a hex is listed for one of its names only.
ListItemOnce(row) ==
  /\ COLOR_NAME_STRINGS' = Append(COLOR_NAME_STRINGS, row.name)
  /\ COLOR_HEX_STRINGS' =
       IF COLOR_HEX_HASH[row.hex] = row.name
       THEN Append(COLOR_HEX_STRINGS, row.hex) ELSE COLOR_HEX_STRINGS

\* Mutant of ListItem: the hexes are collected in the opposite order.
ListItemReversed(row) ==
  /\ COLOR_NAME_STRINGS' = Append(COLOR_NAME_STRINGS, row.name)
  /\ COLOR_HEX_STRINGS' = <<row.hex>> \o COLOR_HEX_STRINGS

ListItem(row) ==
  /\ COLOR_NAME_STRINGS' = Append(COLOR_NAME_STRINGS, row.name)
  /\ COLOR_HEX_STRINGS' = Append(COLOR_HEX_STRINGS, row.hex)

\* One turn of the loop, which gets to the next item only after a row with
\* text; at an empty row it would spin.
LoadName ==
  /\ pc = "names" /\ item # NoName
  /\ HasText(COLORS_HASH[item])
  /\ ListItem(COLORS_HASH[item])
  /\ todo' = todo \ {item}
  /\ Iterate
  /\ UNCHANGED <<writer, pc, typeids, ids, seen, qty, hashes, history>>

EndOfNames ==
  /\ pc = "names" /\ item = NoName
  /\ pc' = "check"
  /\ UNCHANGED <<writer, typeids, ids, seen, qty, hashes, lists, history>>

Lookup(hash, key) == IF key \in DOMAIN hash THEN {hash[key]} ELSE {}
get_color_hex_name(h) == Lookup(COLOR_HEX_HASH, h)
get_color_name_hex(n) == Lookup(COLOR_NAME_HASH, n)
get_color_name_row(n) == Lookup(COLORS_HASH, n)

Entries(s) == {s[k] : k \in DOMAIN s}

\* Both lists are iterated; a hex without a name is looked up as NULL.
CheckLoad ==
  /\ pc = "check"
  /\ pc' = IF \E h \in Entries(COLOR_HEX_STRINGS) : get_color_hex_name(h) = {}
           THEN "crashed"
           ELSE IF {Len(COLOR_NAME_STRINGS), Len(COLOR_HEX_STRINGS)} = {qty}
           THEN "loaded" ELSE "aborted"
  /\ UNCHANGED <<writer, typeids, ids, seen, qty, hashes, lists, history>>

\* GET_COLOR: every property of the name is taken from its row.
TestName(n) == get_color_name_row(n) # {} /\ get_color_name_hex(n) # {}
TestHex(h) ==
  \A n \in get_color_hex_name(h) : TestName(n) /\ get_color_name_hex(n) = {h}

TestColors ==
  /\ pc = "loaded"
  /\ pc' = IF /\ qty >= MinColors
              /\ \A n \in Entries(COLOR_NAME_STRINGS) : TestName(n)
              /\ \A h \in Entries(COLOR_HEX_STRINGS) : TestHex(h)
           THEN "passed" ELSE "failed"
  /\ UNCHANGED <<writer, typeids, ids, seen, qty, hashes, lists, history>>
-----------------------------------------------------------------------------
Load ==
  \/ ReadTypeids \/ ReadIds \/ LoadRow \/ LoadBadRow \/ EndOfIds \/ EndOfTypes
  \/ LoadName \/ EndOfNames \/ CheckLoad \/ TestColors

Next == Load \/ ReadFails \/ Add \/ Delete

\* The program runs until it ends; no read has to fail.
Spec == Init /\ [][Next]_vars /\ WF_vars(Load)
-----------------------------------------------------------------------------
(* The three hashes are about the same rows: a name, its hex and its row   *)
(* belong together although each row is stored in three steps and names    *)
(* share hexes, and hex to name to hex leads back (what t_color_hex_strings*)
(* of colors-test.c tests on five colours).                                *)
HashesAgree ==
  /\ qty = Cardinality(DOMAIN COLORS_HASH)
  /\ DOMAIN COLOR_NAME_HASH = DOMAIN COLORS_HASH
  /\ \A n \in DOMAIN COLORS_HASH :
       COLORS_HASH[n] = [name |-> n, hex |-> COLOR_NAME_HASH[n]]
  /\ DOMAIN COLOR_HEX_HASH = {COLOR_NAME_HASH[n] : n \in DOMAIN COLOR_NAME_HASH}
  /\ \A h \in DOMAIN COLOR_HEX_HASH : COLOR_NAME_HASH[COLOR_HEX_HASH[h]] = h

(* After a load the two lists are parallel: position k of both is one      *)
(* colour, and each name is there once.                                    *)
ListsAreParallel ==
  pc \in {"loaded", "passed", "failed"} =>
    /\ Entries(COLOR_NAME_STRINGS) = DOMAIN COLORS_HASH
    /\ Len(COLOR_NAME_STRINGS) = qty
    /\ \A k \in 1..qty :
         COLOR_HEX_STRINGS[k] = COLOR_NAME_HASH[COLOR_NAME_STRINGS[k]]

(* Every name stored when the load began is loaded, whatever is added in   *)
(* the meantime, unless the load reached MAX_COLORS, a row was deleted, or *)
(* a failed scan ended before all rows of this very name: a failure of the *)
(* database, which nothing reports, costs no other colour.                 *)
StoredIsLoaded ==
  pc \in {"names", "check", "loaded"} /\ ~cut /\ deleted = 0 =>
    stored \ missed \subseteq DOMAIN COLORS_HASH

(* load_colors aborts for one reason, too few colours: the three later     *)
(* asserts never fail and the tests of colors-test.c pass.                 *)
AssertsHold ==
  /\ pc = "aborted" => qty <= MinColors
  /\ pc # "failed"

(* The load crashes only on a row that was deleted after its id was read,  *)
(* on one without a name or a hex, when a read returned no row or found no *)
(* memory, or at the end, when no row at all was loaded.                   *)
CrashHasCause ==
  pc = "crashed" =>
    \/ deleted > 0 \/ unread
    \/ qty = 0 /\ ids = {}
    \/ \E k \in DOMAIN blobs : blobs[k].name \notin Names \/ blobs[k].hex = NoHex

(* The load ends: load_color_names never stands at an empty row, over which*)
(* it does not go, rows that share a hex or a type do not stop it, and     *)
(* rows added behind the load do not keep it going.                        *)
LoadEnds == <>(pc \in Over)
=============================================================================
