----------------------------- MODULE ColorStore -----------------------------
(***************************************************************************)
(* The sqlite colour database (db/db-mgr.c, db/db.c) and the processes     *)
(* that fill it: each worker is one `parse-colors -m json` process, which  *)
(* runs parse_colors_json over its input file and may be run again.        *)
(*                                                                         *)
(* Every SQL statement is a transaction of its own (the code never issues  *)
(* BEGIN), so one statement is one step and the steps of several processes *)
(* interleave.  The busy handler try_again always retries, so a statement  *)
(* waits for the file lock and never fails because of it.                  *)
(*                                                                         *)
(* A colour stands for one JSON line together with its name and its hex.   *)
(* As committed, the braces of the loop in parse_colors_json end it after  *)
(* json_value_get_object, and the blocks behind it use its index i; they   *)
(* are taken as the rest of the loop body, which is how they are written.  *)
(***************************************************************************)
EXTENDS Integers, Sequences

CONSTANTS
  Workers,    \* the processes that share the database file
  Colors,     \* the colours of the input files
  Malformed,  \* a line that json_parse_string rejects
  Nameless,   \* a line whose object has no "name"
  Hexless,    \* the colours whose lines have no "hex"
  NoColor,    \* no colour (the catalogue's empty answer)
  TypeOf,     \* TypeOf[c]: colordb_hash of the name of c
  Lines,      \* Lines[w]: the input lines of worker w
  ParseQty,   \* OPTIONS->parse_qty, the --count option
  MaxRowid,   \* bound: the largest rowid sqlite hands out
  MaxRuns,    \* bound: how often each process is started
  MaxFaults   \* bound: crashes and failed statements, together

ASSUME StoreAssumption ==
  /\ TypeOf \in [Colors -> Nat]
  /\ {Malformed, Nameless} \cap Colors = {}
  /\ Malformed # Nameless
  /\ Hexless \subseteq Colors
  /\ NoColor \notin Colors
  /\ Lines \in [Workers -> Seq(Colors \cup {Malformed, Nameless})]
  /\ {ParseQty, MaxRowid, MaxRuns, MaxFaults} \subseteq Nat

VARIABLES
  blobs,       \* table blobs: rows [id, type, data]; "by" is a history field
  hexcodes,    \* table hexcodes: row k is [blobid, color]
  colornames,  \* table colornames: row k is [blobid, color]
  pc,          \* pc[w]: where worker w is in parse_colors_json
  pos,         \* pos[w]: the line w is at (i + 1)
  newid,       \* newid[w]: new_id in add_colors_db_if_not_exist
  runs,        \* runs[w]: how often w was started
  faults,      \* crashes and failed statements so far
  torn,        \* history: rowids of blobs whose hex or name row was lost
  dropped,     \* history: colours whose blob insert failed
  blind        \* history: types whose lookup failed

tables == <<blobs, hexcodes, colornames>>
vars == <<blobs, hexcodes, colornames, pc, pos, newid, runs, faults,
          torn, dropped, blind>>

Types == {TypeOf[c] : c \in Colors}
Rowids == 1..MaxRowid
Stages == {"idle", "scan", "hung", "line", "add", "hex", "name"}

Blob == [id : Rowids, type : Types, data : Colors, by : Workers]
Link == [blobid : Rowids, color : Colors]

Init ==
  /\ blobs = {}
  /\ hexcodes = <<>>
  /\ colornames = <<>>
  /\ pc = [w \in Workers |-> "idle"]
  /\ pos = [w \in Workers |-> 1]
  /\ newid = [w \in Workers |-> 0]
  /\ runs = [w \in Workers |-> 0]
  /\ faults = 0
  /\ torn = {}
  /\ dropped = {}
  /\ blind = {}
-----------------------------------------------------------------------------
(* Queries.                                                                *)

Matches(t) == {b \in blobs : b.type = t}

\* Mutant of Oldest: the lookup returns the newest row.
Newest(rows) == {b \in rows : \A c \in rows : b.id >= c.id}

\* ONE_QUERY has no ORDER BY: the scan returns the row with the least rowid.
Oldest(rows) == {b \in rows : \A c \in rows : b.id <= c.id}
ColordbOne(t) == (CHOOSE b \in Oldest(Matches(t)) : TRUE).data

\* INTEGER PRIMARY KEY without AUTOINCREMENT: one more than the largest rowid.
IsNextRowid(i) ==
  /\ \A b \in blobs : b.id < i
  /\ i = 1 \/ \E b \in blobs : b.id = i - 1

Limit(w) == IF Len(Lines[w]) < ParseQty THEN Len(Lines[w]) ELSE ParseQty
Line(w) == Lines[w][pos[w]]

AtColor(w, stage) ==
  /\ pc[w] = stage
  /\ pos[w] <= Limit(w)
  /\ Line(w) \in Colors

Advance(w) ==
  /\ pc' = [pc EXCEPT ![w] = "line"]
  /\ pos' = [pos EXCEPT ![w] = @ + 1]

Goto(w, stage) ==
  /\ pc' = [pc EXCEPT ![w] = stage]
  /\ UNCHANGED pos

Fault ==
  /\ faults < MaxFaults
  /\ faults' = faults + 1
-----------------------------------------------------------------------------
(* One run of a worker.                                                    *)

\* main opens the database (creating the tables) and calls parse_colors_json.
Start(w) ==
  /\ pc[w] = "idle"
  /\ runs[w] < MaxRuns
  /\ pc' = [pc EXCEPT ![w] = "scan"]
  /\ pos' = [pos EXCEPT ![w] = 1]
  /\ runs' = [runs EXCEPT ![w] = @ + 1]
  /\ UNCHANGED <<tables, newid, faults, torn, dropped, blind>>

\* db_get_typeids_hash walks the distinct types it read; on a type below 1 it
\* executes `continue` without advancing and never returns.
ScanTypeids(w) ==
  /\ pc[w] = "scan"
  /\ Goto(w, IF \E b \in blobs : b.type < 1 THEN "hung" ELSE "line")
  /\ UNCHANGED <<tables, newid, runs, faults, torn, dropped, blind>>

\* Reading the distinct types fails: what is left to walk has no such type.
ScanFails(w) ==
  /\ pc[w] = "scan"
  /\ Fault
  /\ Goto(w, "line")
  /\ UNCHANGED <<tables, newid, runs, torn, dropped, blind>>

\* Mutant of SkipMalformed: the index is advanced twice.
SkipMalformedAndNext(w) ==
  /\ pc[w] = "line"
  /\ pos[w] <= Limit(w)
  /\ Line(w) = Malformed
  /\ pos' = [pos EXCEPT ![w] = @ + 2]
  /\ UNCHANGED <<tables, pc, newid, runs, faults, torn, dropped, blind>>

\* json_parse_string returns NULL and the loop continues.
SkipMalformed(w) ==
  /\ pc[w] = "line"
  /\ pos[w] <= Limit(w)
  /\ Line(w) = Malformed
  /\ Advance(w)
  /\ UNCHANGED <<tables, newid, runs, faults, torn, dropped, blind>>

\* ADD_ITEM_TO_NAME_DB takes the strlen of the name, which is NULL.
DieOnName(w) ==
  /\ pc[w] = "line"
  /\ pos[w] <= Limit(w)
  /\ Line(w) = Nameless
  /\ Goto(w, "idle")
  /\ UNCHANGED <<tables, newid, runs, faults, torn, dropped, blind>>

\* Mutant of AlreadyStored: the early return is missing, so the hex and name
\* rows are written for the blob that was found.
RewriteRows(w) ==
  /\ AtColor(w, "line")
  /\ \E b \in Oldest(Matches(TypeOf[Line(w)])) : newid' = [newid EXCEPT ![w] = b.id]
  /\ Goto(w, "hex")
  /\ UNCHANGED <<tables, runs, faults, torn, dropped, blind>>

\* db_get_typeid_id finds a row: add_colors_db_if_not_exist returns its id.
AlreadyStored(w) ==
  /\ AtColor(w, "line")
  /\ Matches(TypeOf[Line(w)]) # {}
  /\ Advance(w)
  /\ UNCHANGED <<tables, newid, runs, faults, torn, dropped, blind>>

\* Mutant of NotStored: add_colors_db is called without the lookup.
AddUnchecked(w) ==
  /\ AtColor(w, "line")
  /\ Goto(w, "add")
  /\ UNCHANGED <<tables, newid, runs, faults, torn, dropped, blind>>

NotStored(w) ==
  /\ AtColor(w, "line")
  /\ Matches(TypeOf[Line(w)]) = {}
  /\ Goto(w, "add")
  /\ UNCHANGED <<tables, newid, runs, faults, torn, dropped, blind>>

\* sqlite3_step of ONE_QUERY fails: colordb_one leaves id and size at 0, which
\* db_get_typeid_id reports exactly like a type that is not stored.
LookupFails(w) ==
  /\ AtColor(w, "line")
  /\ Fault
  /\ blind' = blind \cup {TypeOf[Line(w)]}
  /\ Goto(w, "add")
  /\ UNCHANGED <<tables, newid, runs, torn, dropped>>

\* colordb_add succeeds; nothing re-checks that the type is still absent.
AddBlob(w) ==
  /\ AtColor(w, "add")
  /\ \E i \in Rowids :
       /\ IsNextRowid(i)
       /\ blobs' = blobs \cup {[id |-> i, type |-> TypeOf[Line(w)],
                                data |-> Line(w), by |-> w]}
       /\ newid' = [newid EXCEPT ![w] = i]
  /\ Goto(w, "hex")
  /\ UNCHANGED <<hexcodes, colornames, runs, faults, torn, dropped, blind>>

\* Mutant of AddBlobFails: new_id < 1 is not tested.
UseFailedId(w) ==
  /\ AtColor(w, "add")
  /\ Fault
  /\ newid' = [newid EXCEPT ![w] = -1]
  /\ Goto(w, "hex")
  /\ UNCHANGED <<tables, runs, torn, dropped, blind>>

\* colordb_add returns -1: the line is given up and the loop goes on.
AddBlobFails(w) ==
  /\ AtColor(w, "add")
  /\ Fault
  /\ dropped' = dropped \cup {Line(w)}
  /\ Advance(w)
  /\ UNCHANGED <<tables, newid, runs, torn, blind>>

\* Mutant of AddHex: the row refers to the newest blob of the table.
AddHexToNewest(w) ==
  /\ AtColor(w, "hex")
  /\ Line(w) \notin Hexless
  /\ \E b \in Newest(blobs) :
       hexcodes' = Append(hexcodes, [blobid |-> b.id, color |-> Line(w)])
  /\ Goto(w, "name")
  /\ UNCHANGED <<blobs, colornames, newid, runs, faults, torn, dropped, blind>>

\* Mutant of AddHex: the name row is forgotten.
AddHexOnly(w) ==
  /\ AtColor(w, "hex")
  /\ Line(w) \notin Hexless
  /\ hexcodes' = Append(hexcodes, [blobid |-> newid[w], color |-> Line(w)])
  /\ Advance(w)
  /\ UNCHANGED <<blobs, colornames, newid, runs, faults, torn, dropped, blind>>

\* colordb_add_typeid_hex; its result hex_id is ignored.
AddHex(w) ==
  /\ AtColor(w, "hex")
  /\ Line(w) \notin Hexless
  /\ hexcodes' = Append(hexcodes, [blobid |-> newid[w], color |-> Line(w)])
  /\ Goto(w, "name")
  /\ UNCHANGED <<blobs, colornames, newid, runs, faults, torn, dropped, blind>>

AddHexFails(w) ==
  /\ AtColor(w, "hex")
  /\ Line(w) \notin Hexless
  /\ Fault
  /\ torn' = torn \cup {newid[w]}
  /\ Goto(w, "name")
  /\ UNCHANGED <<tables, newid, runs, dropped, blind>>

\* add_colors_db_typeid_hex takes the strlen of the hex, which is NULL; the
\* blob is in the database by then.
DieOnHex(w) ==
  /\ AtColor(w, "hex")
  /\ Line(w) \in Hexless
  /\ torn' = torn \cup {newid[w]}
  /\ Goto(w, "idle")
  /\ UNCHANGED <<tables, newid, runs, faults, dropped, blind>>

\* colordb_add_typeid_name; its result name_id is ignored.
AddName(w) ==
  /\ AtColor(w, "name")
  /\ colornames' = Append(colornames, [blobid |-> newid[w], color |-> Line(w)])
  /\ Advance(w)
  /\ UNCHANGED <<blobs, hexcodes, newid, runs, faults, torn, dropped, blind>>

AddNameFails(w) ==
  /\ AtColor(w, "name")
  /\ Fault
  /\ torn' = torn \cup {newid[w]}
  /\ Advance(w)
  /\ UNCHANGED <<tables, newid, runs, dropped, blind>>

\* Mutant of EndOfInput: the last line is left out.
EndBeforeLast(w) ==
  /\ pc[w] = "line"
  /\ pos[w] >= Limit(w)
  /\ Goto(w, "idle")
  /\ UNCHANGED <<tables, newid, runs, faults, torn, dropped, blind>>

EndOfInput(w) ==
  /\ pc[w] = "line"
  /\ pos[w] > Limit(w)
  /\ Goto(w, "idle")
  /\ UNCHANGED <<tables, newid, runs, faults, torn, dropped, blind>>

\* The process dies between two statements; what it wrote so far is durable.
Crash(w) ==
  /\ pc[w] # "idle"
  /\ Fault
  /\ torn' = IF pc[w] \in {"hex", "name"} THEN torn \cup {newid[w]} ELSE torn
  /\ Goto(w, "idle")
  /\ UNCHANGED <<tables, newid, runs, dropped, blind>>

\* colordb_delete: public in db-mgr.h, called by nothing in the repository.
Delete(i) ==
  /\ \E b \in blobs : b.id = i
  /\ blobs' = {b \in blobs : b.id # i}
  /\ UNCHANGED <<hexcodes, colornames, pc, pos, newid, runs, faults, torn, dropped, blind>>
-----------------------------------------------------------------------------
Step(w) ==
  \/ ScanTypeids(w) \/ SkipMalformed(w) \/ DieOnName(w)
  \/ AlreadyStored(w) \/ NotStored(w) \/ AddBlob(w)
  \/ AddHex(w) \/ DieOnHex(w) \/ AddName(w) \/ EndOfInput(w)

FailingStep(w) ==
  \/ ScanFails(w) \/ LookupFails(w)
  \/ AddBlobFails(w) \/ AddHexFails(w) \/ AddNameFails(w) \/ Crash(w)

Next == \E w \in Workers : Start(w) \/ Step(w) \/ FailingStep(w)

\* A process the operating system schedules keeps executing statements.
Fairness == \A w \in Workers : WF_vars(Step(w))

\* What the programs of the repository do.
Spec == Init /\ [][Next]_vars
FairSpec == Spec /\ Fairness

\* The same with a client that also uses colordb_delete.
ApiNext == Next \/ \E i \in Rowids : Delete(i)
ApiSpec == Init /\ [][ApiNext]_vars
-----------------------------------------------------------------------------
TypeOK ==
  /\ blobs \subseteq Blob
  /\ hexcodes \in Seq(Link)
  /\ colornames \in Seq(Link)
  /\ pc \in [Workers -> Stages]
  /\ pos \in [Workers -> Nat \ {0}]
  /\ newid \in [Workers -> 0..MaxRowid]
  /\ runs \in [Workers -> 0..MaxRuns]
  /\ faults \in 0..MaxFaults
  /\ torn \subseteq Rowids
  /\ dropped \subseteq Colors
  /\ blind \subseteq Types

\* The rows of table that belong to blob i.
RowsOf(table, i) == {k \in DOMAIN table : table[k].blobid = i}

InFlight(w) == pc[w] \in {"hex", "name"}

(* The lookup of add_colors_db_if_not_exist and its insert are separate    *)
(* statements.  Whatever the interleaving, one process never stores two    *)
(* blobs under one type unless a lookup of that type failed: duplicates    *)
(* come only from two processes that both looked before either inserted.   *)
OneBlobPerAdder ==
  \A b, c \in blobs :
    b.type = c.type /\ b.by = c.by => b = c \/ b.type \in blind

(* blobid of hexcodes and colornames REFERENCES blobs: every such row      *)
(* belongs to a stored blob and describes the colour that blob holds, also *)
(* when another process inserts a blob between add_colors_db and the two   *)
(* inserts that use its new_id.                                            *)
ReferencesBlobs ==
  \A table \in {hexcodes, colornames} : \A k \in DOMAIN table :
    \E b \in blobs : b.id = table[k].blobid /\ b.data = table[k].color

(* However often the input is processed again, a blob gets at most one     *)
(* hex row and at most one name row.                                       *)
OneRowPerBlob ==
  \A table \in {hexcodes, colornames} : \A j, k \in DOMAIN table :
    table[j].blobid = table[k].blobid => j = k

(* A blob without its hex row or its name row is still being written by    *)
(* one process, or an insert failed or a process died (torn), be it on a   *)
(* line without a hex; no blob is left half written in any other way.      *)
CompleteOrTorn ==
  \A b \in blobs :
    \/ RowsOf(hexcodes, b.id) # {} /\ RowsOf(colornames, b.id) # {}
    \/ b.id \in torn
    \/ \E w \in Workers : InFlight(w) /\ newid[w] = b.id

(* A half written blob is never completed: a later run finds the type      *)
(* stored and returns before the two inserts.                              *)
NeverRepaired ==
  \A i \in torn : RowsOf(hexcodes, i) = {} \/ RowsOf(colornames, i) = {}

\* The database holds colour c.
Stored(c) == \E b \in blobs : b.data = c

\* Another colour has the type of c, so that the lookup reports c as stored.
Collides(c) == \E b \in blobs : b.data # c /\ b.type = TypeOf[c]

AccountedFor(c) == Stored(c) \/ Collides(c) \/ c \in dropped

(* The loop of parse_colors_json forgets no line: a well-formed line it    *)
(* has passed is stored, or its own insert failed, or the early return of  *)
(* add_colors_db_if_not_exist took another stored colour for it.  The last *)
(* is a silent loss, and nothing but a shared type excuses it.             *)
PassedLinesStored ==
  \A w \in Workers : pc[w] \in {"line", "add", "hex", "name"} =>
    \A j \in 1..(pos[w] - 1) :
      Lines[w][j] \in Colors => AccountedFor(Lines[w][j])

InputStored(w) ==
  \A j \in 1..Limit(w) : Lines[w][j] \in Colors => AccountedFor(Lines[w][j])

Fatal(w) == \E j \in 1..Limit(w) : Lines[w][j] \in Hexless \cup {Nameless}

(* A sync that starts ends with its whole input stored (colours whose type *)
(* another colour took excepted), unless a line of it has no name or no    *)
(* hex, or a colour with a type below 1 gets stored: such a row makes      *)
(* db_get_typeids_hash spin for ever.                                      *)
SyncCompletes ==
  \A w \in Workers :
    pc[w] = "scan" ~> \/ pc[w] = "idle" /\ (InputStored(w) \/ Fatal(w))
                      \/ \E b \in blobs : b.type < 1

View == [t \in Types |-> IF Matches(t) = {} THEN NoColor ELSE ColordbOne(t)]
Catalog == INSTANCE ColorCatalog WITH catalog <- View

(* What colordb_one answers, type by type, is a write-once dictionary:     *)
(* racing processes may store a type twice, but a reader never sees the    *)
(* answer for a type change.                                               *)
CatalogSpec == Catalog!Spec
=============================================================================
