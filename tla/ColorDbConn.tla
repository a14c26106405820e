---------------------------- MODULE ColorDbConn ----------------------------
(***************************************************************************)
(* The connections to the colour database: colordb_open, colordb_close and *)
(* init_colors_db, and the processes of parse-colors that use them.        *)
(*                                                                         *)
(* A process parses its arguments, and main runs one mode: a script of     *)
(* connections to open and statements to run.  A statement takes the lock  *)
(* of the database file, which is shared by all connections, and keeps it  *)
(* until it has committed or is reset.  try_again makes sqlite3 wait for   *)
(* the lock without end, so a lock that is kept blocks everyone for ever.  *)
(*                                                                         *)
(* No process of the repository calls colordb_close; mode "client" stands  *)
(* for a program that uses the interface of db-mgr.h as it is declared.    *)
(*                                                                         *)
(* When no busy handler can be set, colordb_open closes the connection,    *)
(* frees its ColorDB and goes on with the freed memory.  Each use of it    *)
(* may crash, or fail, or seem to succeed; what a write through it does to *)
(* other memory of the process is left out.                                *)
(***************************************************************************)
EXTENDS Integers, Sequences

CONSTANTS
  Procs,     \* processes that use one database file
  Modes,     \* Modes[p]: the values of --mode considered for process p
  MaxFaults  \* bound: failing calls of sqlite3 or malloc, and kills

ASSUME ConnAssumption == MaxFaults \in Nat

VARIABLES
  pc,       \* pc[p]: one of Stages or Ended
  mode,     \* mode[p]: args.mode
  script,   \* script[p]: the opens, statements and closes of that mode
  at,       \* at[p]: the position in the script
  step,     \* step[p]: the position in OpenSteps while pc[p] = "open"
  conns,    \* conns[p]: the sqlite3 connections p has opened, in order
  db,       \* db[p]: DB->db, the number of a connection or NULL
  status,   \* status[p]: the exit status
  lowtype,  \* a row with a type below 1 is stored
  faults,
  freed,    \* the connections (p, k) closed and freed for want of a busy handler
  misused   \* history: the closed connections that sqlite3_close got again

vars == <<pc, mode, script, at, step, conns, db, status, lowtype, faults,
          freed, misused>>

NULL == 0
Stages == {"args", "run", "open", "reading", "writing", "spinning"}
Ended == {"exited", "crashed"}

Tables == {"blobs", "hexcodes", "colornames"}
Statements ==
  <<"insert", "insert_typeid_name", "insert_typeid_hex", "one", "delete",
    "count_typeid", "count_typeids", "count_ids", "typeid_ids",
    "distinct_typeids", "select">>

\* Mutant of OpenSteps: the busy handler comes after the tables.
OpenStepsLate ==
  <<"malloc", "sqlite3_open_v2", "blobs", "hexcodes", "colornames",
    "busy_handler">> \o Statements

OpenSteps ==
  <<"malloc", "sqlite3_open_v2", "busy_handler", "blobs", "hexcodes",
    "colornames">> \o Statements

StatementSet == {Statements[k] : k \in DOMAIN Statements}
Writes == {"insert", "insert_typeid_name", "insert_typeid_hex", "delete"}

\* The modes of main that use the database, and two other users.  In mode
\* json db_get_typeids_hash opens the database again; there may be no line to
\* look up (--count 0, or no line that parses), and a colour that is stored
\* needs no insert.  db_list_ids is shown with one row and with none.
Scripts(m) ==
  CASE m = "json" ->
         {<<"open", "open", "distinct_typeids">>,
          <<"open", "open", "distinct_typeids", "one">>,
          <<"open", "open", "distinct_typeids", "one", "insert",
            "insert_typeid_hex", "insert_typeid_name">>}
    [] m \in {"typeids", "typeids_hash"} -> {<<"open", "distinct_typeids">>}
    [] m = "db" ->
         {<<"open", "distinct_typeids", "count_typeid", "count_typeids", "count_ids">>,
          <<"open", "distinct_typeids", "typeid_ids", "select", "count_typeid",
            "count_typeids", "count_ids">>}
    [] m = "colors_test" -> {<<"open", "distinct_typeids", "typeid_ids", "select">>}
    [] m = "client" -> {<<"open", "delete", "close", "open", "one", "close">>}
    [] OTHER -> {<< >>}

\* The modes whose walk over the distinct types executes `continue` without
\* advancing when it meets a type below 1.
SpinModes == {"json", "typeids", "typeids_hash"}

Init ==
  /\ pc = [p \in Procs |-> "args"]
  /\ mode \in [Procs -> UNION {Modes[p] : p \in Procs}]
  /\ \A p \in Procs : mode[p] \in Modes[p]
  /\ script \in [Procs -> UNION {Scripts(mode[p]) : p \in Procs}]
  /\ \A p \in Procs : script[p] \in Scripts(mode[p])
  /\ at = [p \in Procs |-> 1]
  /\ step = [p \in Procs |-> 1]
  /\ conns = [p \in Procs |-> << >>]
  /\ db = [p \in Procs |-> NULL]
  /\ status = [p \in Procs |-> 0]
  /\ lowtype \in BOOLEAN
  /\ faults = 0
  /\ freed = {}
  /\ misused = {}
-----------------------------------------------------------------------------
(* The lock of the database file.                                          *)

NewConn == [stmts |-> {}, open |-> TRUE, retries |-> FALSE, lock |-> "none"]
Latest(p) == Len(conns[p])

OthersHold(p, k, locks) ==
  \E q \in Procs : \E j \in DOMAIN conns[q] :
    <<q, j>> # <<p, k>> /\ conns[q][j].lock \in locks

CanRead(p, k) == ~OthersHold(p, k, {"exclusive"})
CanWrite(p, k) == ~OthersHold(p, k, {"shared", "exclusive"})

Fault ==
  /\ faults < MaxFaults
  /\ faults' = faults + 1

\* The process ends: the system closes its files and releases their locks.
EndProcess(p, how, code) ==
  /\ pc' = [pc EXCEPT ![p] = how]
  /\ status' = [status EXCEPT ![p] = code]
  /\ conns' = [conns EXCEPT ![p] = << >>]
  /\ step' = [step EXCEPT ![p] = 1]

\* It ends in the middle of its work, and where it was is lost with it.
Crashes(p) ==
  /\ EndProcess(p, "crashed", 1)
  /\ at' = [at EXCEPT ![p] = 1]
  /\ db' = [db EXCEPT ![p] = NULL]
-----------------------------------------------------------------------------
(* main and its arguments.                                                 *)

\* --help and --test end the program; so does a mode nobody knows.
ParseArgs(p) ==
  /\ pc[p] = "args"
  /\ pc' = [pc EXCEPT ![p] = "run"]
  /\ UNCHANGED <<mode, script, at, step, conns, db, status, lowtype, faults, freed, misused>>

\* Mutant of ExitCodes: the number of types is the exit status.
ExitCodesCount(m) ==
  IF m = "typeids_hash" THEN 0..2 ELSE IF m = "unknown" THEN {1} ELSE {0}

\* typeids_hash returns `active_count > 0`: 1 when it has found something.
ExitCodes(m) ==
  CASE m = "typeids_hash" -> {0, 1}
    [] m = "unknown" -> {1}
    [] OTHER -> {0}

Exit(p) ==
  /\ pc[p] = "run"
  /\ at[p] > Len(script[p])
  /\ \E code \in ExitCodes(mode[p]) : EndProcess(p, "exited", code)
  /\ UNCHANGED <<mode, script, at, db, lowtype, faults, freed, misused>>

Kill(p) ==
  /\ pc[p] \notin Ended
  /\ Fault
  /\ Crashes(p)
  /\ UNCHANGED <<mode, script, lowtype, freed, misused>>
-----------------------------------------------------------------------------
(* colordb_open.                                                           *)

Op(p) == script[p][at[p]]
Runs(p, ops) == pc[p] = "run" /\ at[p] <= Len(script[p]) /\ Op(p) \in ops
OpenStep(p) == OpenSteps[step[p]]

\* Mutant of BeginOpen: the steps of an earlier open count.
BeginOpenAgain(p) ==
  /\ Runs(p, {"open"})
  /\ pc' = [pc EXCEPT ![p] = "open"]
  /\ UNCHANGED <<mode, script, at, step, conns, db, status, lowtype, faults, freed, misused>>

BeginOpen(p) ==
  /\ Runs(p, {"open"})
  /\ pc' = [pc EXCEPT ![p] = "open"]
  /\ step' = [step EXCEPT ![p] = 1]
  /\ UNCHANGED <<mode, script, at, conns, db, status, lowtype, faults, freed, misused>>

\* colordb_open goes on with the connection it has closed and freed.
Gone(p) == step[p] > 3 /\ <<p, Latest(p)>> \in freed

\* What a step that succeeds makes of the connection.
Advanced(c, s) ==
  CASE s = "busy_handler" -> [c EXCEPT !.retries = TRUE]
    [] s \in StatementSet -> [c EXCEPT !.stmts = @ \cup {s}]
    [] OTHER -> c

\* CREATE TABLE writes, sqlite3_prepare reads the schema.
LockIsFree(p, s) ==
  CASE s \in Tables -> CanWrite(p, Latest(p))
    [] s \in StatementSet -> CanRead(p, Latest(p))
    [] OTHER -> TRUE

Opening(p) ==
  /\ pc[p] = "open"
  /\ step[p] <= Len(OpenSteps)
  /\ Gone(p) \/ LockIsFree(p, OpenStep(p))
  /\ step' = [step EXCEPT ![p] = @ + 1]
  /\ conns' =
       CASE OpenStep(p) = "malloc" \/ Gone(p) -> conns
         [] OpenStep(p) = "sqlite3_open_v2" ->
              [conns EXCEPT ![p] = Append(@, NewConn)]
         [] OTHER ->
              [conns EXCEPT ![p][Latest(p)] = Advanced(@, OpenStep(p))]
  /\ UNCHANGED <<pc, mode, script, at, db, status, lowtype, faults, freed, misused>>

\* init_colors_db: DB->db is overwritten, whatever it was.
EndOpen(p) ==
  /\ pc[p] = "open"
  /\ step[p] > Len(OpenSteps)
  /\ pc' = [pc EXCEPT ![p] = "run"]
  /\ at' = [at EXCEPT ![p] = @ + 1]
  /\ db' = [db EXCEPT ![p] = Latest(p)]
  /\ UNCHANGED <<mode, script, step, conns, status, lowtype, faults, freed, misused>>

\* Mutant of Forgotten: every path finalizes what it has prepared.
ForgottenNothing == {}

\* The statements that no path of colordb_open and colordb_close finalizes.
Forgotten == {"insert_typeid_name", "insert_typeid_hex"}

\* sqlite3_close refuses (SQLITE_BUSY) while a statement is not finalized.
Finalized(c) ==
  LET left == c.stmts \cap Forgotten
  IN  [c EXCEPT !.stmts = left, !.open = (left # {}), !.lock = "none"]

\* sqlite3_busy_handler fails: the connection has no statement yet, so that it
\* is closed, and db is freed; no return follows.
BusyHandlerFails(p) ==
  /\ pc[p] = "open"
  /\ step[p] <= Len(OpenSteps)
  /\ OpenStep(p) = "busy_handler"
  /\ Fault
  /\ step' = [step EXCEPT ![p] = @ + 1]
  /\ conns' = [conns EXCEPT ![p][Latest(p)] = Finalized(@)]
  /\ freed' = freed \cup {<<p, Latest(p)>>}
  /\ UNCHANGED <<pc, mode, script, at, db, status, lowtype, misused>>

\* What sqlite3_close(db->db) of connection k finds closed already.
FoundClosed(p, k) == IF conns[p][k].open THEN {} ELSE {<<p, k>>}

\* The error paths from the tables on close the connection, the last one twice.
Reclosed(p) ==
  IF step[p] <= 2 THEN {}
  ELSE FoundClosed(p, Latest(p)) \cup
       (IF OpenStep(p) # "select" \/ Finalized(conns[p][Latest(p)]).open THEN {}
        ELSE {<<p, Latest(p)>>})

\* These paths finalize db->select, which nobody has set yet.
SelectIsUnset(s) ==
  s \in {"one", "delete", "count_typeid", "count_typeids", "count_ids",
         "typeid_ids", "distinct_typeids"}

\* Without a busy handler a lock held by another connection is an error.
Refused(p) ==
  /\ step[p] > 2
  /\ ~conns[p][Latest(p)].retries
  /\ ~LockIsFree(p, OpenStep(p))

\* What the callers do when init_colors_db has failed: main and the two
\* listings return 1, and db_get_typeids_hash returns an empty hash, which
\* main prints and parse_colors_json goes on with.
ReturnNull(p) ==
  LET first == at[p] = 1 IN
  CASE mode[p] \in {"typeids", "db"} \/ (mode[p] = "json" /\ first) ->
         EndProcess(p, "exited", 1) /\ UNCHANGED at
    [] mode[p] = "typeids_hash" ->
         EndProcess(p, "exited", 0) /\ UNCHANGED at
    [] OTHER ->
         /\ pc' = [pc EXCEPT ![p] = "run"]
         /\ at' = [at EXCEPT ![p] = @ + (IF mode[p] = "json" THEN 2 ELSE 1)]
         /\ conns' = IF step[p] <= 2 THEN conns
                     ELSE [conns EXCEPT ![p][Latest(p)] = Finalized(@)]
         /\ UNCHANGED <<step, status>>

\* An error path of colordb_open.  Finalizing an unset pointer, and what is
\* done with freed memory, may end anyhow.
OpenFails(p) ==
  /\ pc[p] = "open"
  /\ step[p] <= Len(OpenSteps)
  /\ OpenStep(p) # "busy_handler"
  /\ Refused(p) \/ Gone(p) \/ faults < MaxFaults
  /\ faults' = IF Refused(p) \/ Gone(p) THEN faults ELSE faults + 1
  /\ misused' = misused \cup Reclosed(p)
  /\ \/ ReturnNull(p) /\ db' = [db EXCEPT ![p] = NULL]
     \/ (Gone(p) \/ SelectIsUnset(OpenStep(p))) /\ Crashes(p)
  /\ UNCHANGED <<mode, script, lowtype, freed>>
-----------------------------------------------------------------------------
(* Running a statement, and colordb_close.                                 *)

\* Mutant of SetLock: locks are not released.
SetLockForEver(p, l) ==
  conns' = IF l = "none" THEN conns
           ELSE [conns EXCEPT ![p][db[p]].lock = l]

SetLock(p, l) ==
  conns' = [conns EXCEPT ![p][db[p]].lock = l]

\* db->one and its like, with db a NULL pointer; colordb_close likewise.
UseNull(p) ==
  /\ Runs(p, StatementSet \cup {"close"})
  /\ db[p] = NULL
  /\ Crashes(p)
  /\ UNCHANGED <<mode, script, lowtype, faults, freed, misused>>

\* The handle is an open connection, or memory that colordb_open has freed.
Usable(p) == db[p] # NULL /\ <<p, db[p]>> \notin freed

\* A statement or colordb_close with a handle to freed memory: the process
\* crashes, or the call comes back with nothing done.
UseFreed(p) ==
  /\ Runs(p, StatementSet \cup {"close"})
  /\ <<p, db[p]>> \in freed
  /\ misused' = IF Op(p) = "close" THEN misused \cup {<<p, db[p]>>} ELSE misused
  /\ \/ Crashes(p)
     \/ /\ at' = [at EXCEPT ![p] = @ + 1]
        /\ db' = IF Op(p) = "close" THEN [db EXCEPT ![p] = NULL] ELSE db
        /\ UNCHANGED <<pc, step, conns, status>>
  /\ UNCHANGED <<mode, script, lowtype, faults, freed>>

BeginRead(p) ==
  /\ Runs(p, StatementSet \ Writes)
  /\ Usable(p)
  /\ CanRead(p, db[p])
  /\ pc' = [pc EXCEPT ![p] = "reading"]
  /\ SetLock(p, "shared")
  /\ UNCHANGED <<mode, script, at, step, db, status, lowtype, faults, freed, misused>>

BeginWrite(p) ==
  /\ Runs(p, Writes)
  /\ Usable(p)
  /\ CanWrite(p, db[p])
  /\ pc' = [pc EXCEPT ![p] = "writing"]
  /\ SetLock(p, "exclusive")
  /\ UNCHANGED <<mode, script, at, step, db, status, lowtype, faults, freed, misused>>

\* reset: sqlite3_clear_bindings and sqlite3_reset, on every path.  The walk
\* over the types that were read follows.
Reset(p) ==
  /\ pc[p] \in {"reading", "writing"}
  /\ pc' = [pc EXCEPT ![p] =
       IF Op(p) = "distinct_typeids" /\ lowtype /\ mode[p] \in SpinModes
       THEN "spinning" ELSE "run"]
  /\ at' = [at EXCEPT ![p] = @ + 1]
  /\ SetLock(p, "none")
  /\ lowtype' \in CASE Op(p) = "insert" -> {lowtype, TRUE}
                    [] Op(p) = "delete" -> {lowtype, FALSE}
                    [] OTHER -> {lowtype}
  /\ UNCHANGED <<mode, script, step, db, status, faults, freed, misused>>

\* `if (!db)` guards the next statement only: with a handle, all but the
\* first finalize run.
ColordbClose(p) ==
  /\ Runs(p, {"close"})
  /\ Usable(p)
  /\ at' = [at EXCEPT ![p] = @ + 1]
  /\ conns' = [conns EXCEPT ![p][db[p]] = Finalized(@)]
  /\ db' = [db EXCEPT ![p] = NULL]
  /\ misused' = misused \cup FoundClosed(p, db[p])
  /\ UNCHANGED <<pc, mode, script, step, status, lowtype, faults, freed>>
-----------------------------------------------------------------------------
Proceed(p) ==
  \/ ParseArgs(p) \/ Exit(p)
  \/ BeginOpen(p) \/ Opening(p) \/ EndOpen(p)
  \/ UseNull(p) \/ UseFreed(p) \/ BeginRead(p) \/ BeginWrite(p) \/ Reset(p) \/ ColordbClose(p)

Next == \E p \in Procs :
  Proceed(p) \/ BusyHandlerFails(p) \/ OpenFails(p) \/ Kill(p)

\* The system runs every process, and a waiting sqlite3 looks at the lock
\* again and again.
Fairness == \A p \in Procs : WF_vars(Proceed(p))

Spec == Init /\ [][Next]_vars /\ Fairness
-----------------------------------------------------------------------------
Conn == [stmts : SUBSET StatementSet, open : BOOLEAN, retries : BOOLEAN,
         lock : {"none", "shared", "exclusive"}]

TypeOK ==
  /\ pc \in [Procs -> Stages \cup Ended]
  /\ at \in [Procs -> Nat \ {0}]
  /\ step \in [Procs -> 1..(Len(OpenSteps) + 1)]
  /\ conns \in [Procs -> Seq(Conn)]
  /\ db \in [Procs -> Nat]
  /\ status \in [Procs -> {0, 1}]
  /\ lowtype \in BOOLEAN
  /\ faults \in 0..MaxFaults
  /\ freed \subseteq Procs \X Nat
  /\ misused \subseteq Procs \X Nat
  /\ \A p \in Procs :
       /\ at[p] <= Len(script[p]) + 1
       /\ pc[p] \notin Ended => db[p] <= Latest(p)

(* What init_colors_db leaves in DB->db is NULL, or an open connection     *)
(* with the busy handler and all eleven statements, after whatever opens   *)
(* failed or were made before it; or it points to freed memory, and then   *)
(* the very open that made it could not set its busy handler.              *)
HandleIsComplete ==
  \A p \in Procs :
    pc[p] \notin Ended /\ db[p] # NULL /\ <<p, db[p]>> \notin freed =>
      LET c == conns[p][db[p]] IN c.open /\ c.retries /\ c.stmts = StatementSet

(* A connection that nobody can reach any more (overwritten by a second    *)
(* init_colors_db, left behind by a failed open, refused by sqlite3_close, *)
(* freed) holds no lock, so it cannot block anyone; a connection in use    *)
(* holds one only during a call, and none while its process spins.         *)
LeakedHoldNoLock ==
  \A p \in Procs : \A k \in DOMAIN conns[p] :
    conns[p][k].lock # "none" => k = db[p] /\ pc[p] \in {"reading", "writing"}

(* sqlite3_close gets a closed connection only where colordb_open went on  *)
(* without a busy handler.  The last error path, which closes twice, is    *)
(* not such a place: its first sqlite3_close always refuses, because two   *)
(* statements were never finalized.                                        *)
NeverClosedTwice == misused \subseteq freed

(* An exit status means what it says: typeids and db exit with 0 only with *)
(* a handle, and json without one only if it had no line to look up        *)
(* (typeids_hash does not look); and without a failing call no process     *)
(* crashes on a NULL handle or ends before its script, whatever locks it   *)
(* meets while others create tables.                                       *)
StatusIsHonest ==
  \A p \in Procs :
    /\ pc[p] = "exited" /\ status[p] = 0 /\ db[p] = NULL =>
         /\ mode[p] \notin {"typeids", "db"}
         /\ mode[p] = "json" => \A k \in 1..Len(script[p]) : script[p][k] # "one"
    /\ faults = 0 /\ pc[p] \in Ended => pc[p] = "exited" /\ at[p] > Len(script[p])

(* Every process ends although each waits for the lock without a limit:    *)
(* nobody keeps it, not even one that spins for ever on a type below 1.    *)
(* Only the three modes with such a walk can fail to end.                  *)
EveryProcessEnds ==
  \A p \in Procs :
    <>(pc[p] \in Ended \/ (pc[p] = "spinning" /\ mode[p] \in SpinModes))
=============================================================================
