------------------------- MODULE ColorDbConn_proofs -------------------------
(***************************************************************************)
(* Theorems about the connections to the colour database, for any number   *)
(* of processes and of failing calls.                                      *)
(*                                                                         *)
(* Handles, locks and exit statuses are about one process at a time: the   *)
(* lock of the file decides when a process may take a step and never what  *)
(* the step does.  So the invariant is a conjunction over the processes.   *)
(***************************************************************************)
EXTENDS ColorDbConn, SequenceTheorems, TLAPS

-----------------------------------------------------------------------------
(* The texts of the source: statements, steps of colordb_open, scripts.    *)

Ops == StatementSet \cup {"open", "close"}

\* The statements colordb_open has prepared before it takes step n.
Prepared(n) == {Statements[j] : j \in 1..(n - 7)}

\* The eleven statements of the ColorDB structure, by their names.
LEMMA StatementNames ==
  /\ DOMAIN Statements = 1..11 /\ Len(Statements) = 11
  /\ StatementSet =
       {"insert", "insert_typeid_name", "insert_typeid_hex", "one", "delete",
        "count_typeid", "count_typeids", "count_ids", "typeid_ids",
        "distinct_typeids", "select"}
<1>1. DOMAIN Statements = 1..11 /\ Len(Statements) = 11
  BY DEF Statements
<1> QED
  BY <1>1 DEF StatementSet, Statements

\* The six steps of colordb_open before the first statement.
LEMMA FirstSteps ==
  /\ Len(OpenSteps) = 17
  /\ OpenSteps[1] = "malloc" /\ OpenSteps[2] = "sqlite3_open_v2"
  /\ OpenSteps[3] = "busy_handler" /\ OpenSteps[4] = "blobs"
  /\ OpenSteps[5] = "hexcodes" /\ OpenSteps[6] = "colornames"
BY DEF OpenSteps, Statements

\* The steps after them prepare the statements in the order of the structure.
LEMMA StatementSteps ==
  /\ OpenSteps[17] = "select"
  /\ \A n \in 7..17 : OpenSteps[n] = Statements[n - 6] /\ OpenSteps[n] \in StatementSet
<1>1. /\ OpenSteps[17] = "select"
      /\ \A n \in 7..17 : OpenSteps[n] = Statements[n - 6]
  BY DEF OpenSteps, Statements
<1> QED
  BY <1>1, StatementNames DEF StatementSet

\* The last of the eleven statements is the only one named select.
LEMMA SelectIsLast == \A n \in 7..16 : OpenSteps[n] # "select"
BY DEF OpenSteps, Statements

\* A step of colordb_open that prepares a statement adds it to the prepared
\* ones; the steps before prepare nothing.
LEMMA PrepareOne ==
  /\ \A n \in 1..7 : Prepared(n) = {}
  /\ \A n \in 7..17 : Prepared(n + 1) = Prepared(n) \cup {OpenSteps[n]}
  /\ Prepared(18) = StatementSet
  /\ \A n \in 1..18 : Prepared(n) \subseteq StatementSet
  /\ "insert_typeid_name" \in Prepared(17)
<1>1. \A n \in 1..7 : 1..(n - 7) = {}
  OBVIOUS
<1>2. \A n \in 7..17 : 1..(n + 1 - 7) = 1..(n - 7) \cup {n - 6}
  OBVIOUS
<1>3. \A n \in 7..17 : Prepared(n + 1) = Prepared(n) \cup {Statements[n - 6]}
  BY <1>2 DEF Prepared
<1>4. Prepared(18) = StatementSet
  BY StatementNames DEF Prepared, StatementSet
<1>5. \A n \in 1..18 : 1..(n - 7) \subseteq 1..11
  OBVIOUS
<1>6. \A n \in 1..18 : Prepared(n) \subseteq StatementSet
  BY <1>5, StatementNames DEF Prepared, StatementSet
<1>7. "insert_typeid_name" = Statements[2] /\ 2 \in 1..(17 - 7)
  BY DEF Statements
<1>8. "insert_typeid_name" \in Prepared(17)
  BY <1>7 DEF Prepared
<1> QED
  BY <1>1, <1>3, <1>4, <1>6, <1>8, StatementSteps DEF Prepared

\* The modes whose exit status tells whether the database was opened.
Telling == {"json", "typeids", "db"}

\* A script that looks up no line.
NoLookup(s) == \A k \in 1..Len(s) : s[k] # "one"

\* What the modes have in common: the first thing done is to open, after a
\* close comes nothing or an open; what is special to some.
WellFormed(m, s) ==
  /\ s \in Seq(Ops)
  /\ Len(s) >= 1 => s[1] = "open"
  /\ \A k \in 1..Len(s) : s[k] = "close" => k = Len(s) \/ s[k + 1] = "open"
  /\ m \in Telling => Len(s) >= 2 /\ \A k \in 1..Len(s) : s[k] # "close"
  /\ m = "json" => /\ Len(s) >= 3
                   /\ Len(s) = 3 => NoLookup(s)
                   /\ \A k \in 2..Len(s) : s[k] = "open" => k = 2

\* The scripts of all modes of main are such scripts.
LEMMA ScriptsAreWellFormed ==
  ASSUME NEW m, NEW s \in Scripts(m)
  PROVE  WellFormed(m, s)
<1>1. CASE m = "json"
  <2>1. ASSUME s = <<"open", "open", "distinct_typeids", "one">>
       PROVE  WellFormed(m, s)
    <3>1. s \in Seq(Ops)
      BY <2>1, StatementNames DEF Ops
    <3>2. /\ Len(s) = 4 /\ s[1] = "open" /\ s[2] = "open"
          /\ s[3] = "distinct_typeids" /\ s[4] = "one"
      BY <2>1
    <3> QED
      BY <1>1, <3>1, <3>2 DEF WellFormed, Telling
  <2>2. ASSUME s = <<"open", "open", "distinct_typeids", "one", "insert",
                    "insert_typeid_hex", "insert_typeid_name">>
       PROVE  WellFormed(m, s)
    <3>1. s \in Seq(Ops)
      BY <2>2, StatementNames DEF Ops
    <3>2. /\ Len(s) = 7 /\ s[1] = "open" /\ s[2] = "open"
          /\ s[3] = "distinct_typeids" /\ s[4] = "one" /\ s[5] = "insert"
          /\ s[6] = "insert_typeid_hex" /\ s[7] = "insert_typeid_name"
      BY <2>2
    <3> QED
      BY <1>1, <3>1, <3>2 DEF WellFormed, Telling
  <2>3. ASSUME s = <<"open", "open", "distinct_typeids">>
       PROVE  WellFormed(m, s)
    <3>1. s \in Seq(Ops)
      BY <2>3, StatementNames DEF Ops
    <3>2. /\ Len(s) = 3 /\ s[1] = "open" /\ s[2] = "open"
          /\ s[3] = "distinct_typeids"
      BY <2>3
    <3> QED
      BY <1>1, <3>1, <3>2 DEF WellFormed, NoLookup, Telling
  <2> QED
    BY <1>1, <2>1, <2>2, <2>3 DEF Scripts
<1>2. CASE m \in {"typeids", "typeids_hash"}
  <2>1. s = <<"open", "distinct_typeids">>
    BY <1>2 DEF Scripts
  <2>2. s \in Seq(Ops)
    BY <2>1, StatementNames DEF Ops
  <2>3. /\ Len(s) = 2 /\ s[1] = "open" /\ s[2] = "distinct_typeids"
    BY <2>1
  <2> QED
    BY <1>2, <2>2, <2>3 DEF WellFormed, Telling
<1>3. CASE m = "db"
  <2>1. ASSUME s = <<"open", "distinct_typeids", "count_typeid",
                    "count_typeids", "count_ids">>
       PROVE  WellFormed(m, s)
    <3>1. s \in Seq(Ops)
      BY <2>1, StatementNames DEF Ops
    <3>2. /\ Len(s) = 5 /\ s[1] = "open" /\ s[2] = "distinct_typeids"
          /\ s[3] = "count_typeid" /\ s[4] = "count_typeids"
          /\ s[5] = "count_ids"
      BY <2>1
    <3> QED
      BY <1>3, <3>1, <3>2 DEF WellFormed, Telling
  <2>2. ASSUME s = <<"open", "distinct_typeids", "typeid_ids", "select",
                    "count_typeid", "count_typeids", "count_ids">>
       PROVE  WellFormed(m, s)
    <3>1. s \in Seq(Ops)
      BY <2>2, StatementNames DEF Ops
    <3>2. /\ Len(s) = 7 /\ s[1] = "open" /\ s[2] = "distinct_typeids"
          /\ s[3] = "typeid_ids" /\ s[4] = "select" /\ s[5] = "count_typeid"
          /\ s[6] = "count_typeids" /\ s[7] = "count_ids"
      BY <2>2
    <3> QED
      BY <1>3, <3>1, <3>2 DEF WellFormed, Telling
  <2> QED
    BY <1>3, <2>1, <2>2 DEF Scripts
<1>4. CASE m = "colors_test"
  <2>1. s = <<"open", "distinct_typeids", "typeid_ids", "select">>
    BY <1>4 DEF Scripts
  <2>2. s \in Seq(Ops)
    BY <2>1, StatementNames DEF Ops
  <2>3. /\ Len(s) = 4 /\ s[1] = "open" /\ s[2] = "distinct_typeids"
        /\ s[3] = "typeid_ids" /\ s[4] = "select"
    BY <2>1
  <2> QED
    BY <1>4, <2>2, <2>3 DEF WellFormed, Telling
<1>5. CASE m = "client"
  <2>1. s = <<"open", "delete", "close", "open", "one", "close">>
    BY <1>5 DEF Scripts
  <2>2. s \in Seq(Ops)
    BY <2>1, StatementNames DEF Ops
  <2>3. /\ Len(s) = 6 /\ s[1] = "open" /\ s[2] = "delete" /\ s[3] = "close"
        /\ s[4] = "open" /\ s[5] = "one" /\ s[6] = "close"
    BY <2>1
  <2> QED
    BY <1>5, <2>2, <2>3 DEF WellFormed, Telling
<1>6. CASE m \notin {"json", "typeids", "typeids_hash", "db", "colors_test", "client"}
  <2>1. s = << >>
    BY <1>6 DEF Scripts
  <2>2. s \in Seq(Ops) /\ Len(s) = 0
    BY <2>1, EmptySeq
  <2> QED
    BY <1>6, <2>2 DEF WellFormed, Telling
<1> QED
  BY <1>1, <1>2, <1>3, <1>4, <1>5, <1>6
-----------------------------------------------------------------------------
(* The invariant.                                                          *)

Types ==
  /\ pc \in [Procs -> Stages \cup Ended]
  /\ at \in [Procs -> Nat \ {0}]
  /\ step \in [Procs -> 1..18]
  /\ conns \in [Procs -> Seq(Conn)]
  /\ db \in [Procs -> Nat]
  /\ status \in [Procs -> {0, 1}]
  /\ faults \in 0..MaxFaults
  /\ lowtype \in BOOLEAN
  /\ freed \subseteq Procs \X (Nat \ {0})
  /\ misused \subseteq freed

\* A connection on which colordb_open is about to take step n > 2.
Fresh(c, n) == c.open /\ (c.retries <=> n > 3) /\ c.stmts = Prepared(n)

\* Inside colordb_open: the handle, if any, is of an earlier call.
Opened(q) ==
  /\ at[q] <= Len(script[q]) /\ Op(q) = "open"
  /\ step[q] > 2 => /\ db[q] < Latest(q)
                    /\ Gone(q) \/ Fresh(conns[q][Latest(q)], step[q])

Complete(c) == c.open /\ c.retries /\ c.stmts = StatementSet

\* What db[q] names, and when.
Handle(q) ==
  /\ pc[q] \notin Ended => db[q] <= Latest(q)
  /\ pc[q] = "open" => Opened(q)
  /\ pc[q] \in {"reading", "writing"} => at[q] <= Len(script[q]) /\ db[q] # NULL
  /\ pc[q] \notin Ended /\ db[q] # NULL =>
       <<q, db[q]>> \in freed \/ Complete(conns[q][db[q]])

NoLeakedLock(q) ==
  \A k \in DOMAIN conns[q] :
    conns[q][k].lock # "none" => k = db[q] /\ pc[q] \in {"reading", "writing"}

\* The handle is there where the exit status says so.
Answered(q) ==
  db[q] = NULL => /\ mode[q] \notin {"typeids", "db"}
                  /\ mode[q] = "json" => NoLookup(script[q])

\* Towards the exit status: a script that is through has its handle, and
\* only "open" is run without one if nothing has failed.
Honest(q) ==
  /\ pc[q] \notin Ended /\ at[q] > Len(script[q]) => Answered(q)
  /\ pc[q] = "exited" /\ status[q] = 0 => Answered(q)
  /\ faults = 0 /\ pc[q] \in {"args", "run"} /\ at[q] <= Len(script[q])
     /\ db[q] = NULL => Op(q) = "open"
  /\ faults = 0 /\ pc[q] \in Ended => pc[q] = "exited" /\ at[q] > Len(script[q])

\* colordb_open frees a connection only after a call has failed.
Blamed == freed # {} => faults # 0

Local(q) ==
  /\ WellFormed(mode[q], script[q])
  /\ at[q] <= Len(script[q]) + 1
  /\ Handle(q)
  /\ NoLeakedLock(q)
  /\ Honest(q)

Inv == Types /\ Blamed /\ \A q \in Procs : Local(q)
-----------------------------------------------------------------------------
(* Steps.                                                                  *)

\* A step of p changes what belongs to p.
Only(p) ==
  /\ mode' = mode /\ script' = script
  /\ \A q \in Procs \ {p} :
       /\ pc'[q] = pc[q] /\ at'[q] = at[q] /\ step'[q] = step[q]
       /\ conns'[q] = conns[q] /\ db'[q] = db[q] /\ status'[q] = status[q]
       /\ \A k : <<q, k>> \in freed' <=> <<q, k>> \in freed
  /\ faults' = 0 => faults = 0 /\ freed' = freed

\* What a step of p does not touch stays as it should be.
LEMMA OthersKeep ==
  ASSUME Inv, NEW p \in Procs, Only(p), Types', Local(p)'
  PROVE  Inv'
<1> SUFFICES ASSUME NEW q \in Procs \ {p} PROVE Local(q)'
  BY DEF Inv, Blamed, Only
<1>1. /\ mode' = mode /\ script' = script
      /\ pc'[q] = pc[q] /\ at'[q] = at[q] /\ step'[q] = step[q]
      /\ conns'[q] = conns[q] /\ db'[q] = db[q] /\ status'[q] = status[q]
      /\ faults' = 0 => faults = 0 /\ freed' = freed
      /\ \A k : <<q, k>> \in freed' <=> <<q, k>> \in freed
  BY DEF Only
<1>2. Local(q)
  BY DEF Inv
<1>3. Handle(q)'
  BY <1>1, <1>2 DEF Local, Handle, Opened, Gone, Op, Latest
<1>4. NoLeakedLock(q)'
  BY <1>1, <1>2 DEF Local, NoLeakedLock
<1>5. Honest(q)'
  BY <1>1, <1>2 DEF Local, Honest, Answered, Op
<1> QED
  BY <1>1, <1>2, <1>3, <1>4, <1>5 DEF Local

\* The facts about p that its steps start from.
LEMMA Here ==
  ASSUME Inv, NEW p \in Procs
  PROVE  /\ conns[p] \in Seq(Conn) /\ Latest(p) \in Nat
         /\ DOMAIN conns[p] = 1..Latest(p)
         /\ script[p] \in Seq(Ops) /\ Len(script[p]) \in Nat
         /\ at[p] \in Nat \ {0} /\ step[p] \in 1..18 /\ db[p] \in Nat
         /\ faults \in Nat
         /\ at[p] <= Len(script[p]) => Op(p) \in Ops
<1>1. conns[p] \in Seq(Conn) /\ script[p] \in Seq(Ops)
  BY DEF Inv, Types, Local, WellFormed
<1>2. at[p] \in Nat \ {0} /\ step[p] \in 1..18 /\ db[p] \in Nat /\ faults \in Nat
  BY ConnAssumption DEF Inv, Types
<1>3. Latest(p) \in Nat /\ DOMAIN conns[p] = 1..Latest(p) /\ Len(script[p]) \in Nat
  BY <1>1 DEF Latest
<1>4. at[p] <= Len(script[p]) => Op(p) \in Ops
  BY <1>1, <1>2, <1>3, ElementOfSeq DEF Op
<1> QED
  BY <1>1, <1>2, <1>3, <1>4

\* A changed connection, the k-th of p.
LEMMA Replaced ==
  ASSUME Inv, NEW p \in Procs, NEW k \in 1..Latest(p), NEW c \in Conn,
         conns' = [conns EXCEPT ![p] = [conns[p] EXCEPT ![k] = c]]
  PROVE  /\ conns' \in [Procs -> Seq(Conn)]
         /\ Latest(p)' = Latest(p)
         /\ DOMAIN conns'[p] = 1..Latest(p)
         /\ \A j \in 1..Latest(p) : conns'[p][j] = IF j = k THEN c ELSE conns[p][j]
         /\ \A q \in Procs \ {p} : conns'[q] = conns[q]
<1>1. conns[p] \in Seq(Conn) /\ conns \in [Procs -> Seq(Conn)]
  BY DEF Inv, Types
<1> DEFINE s == [conns[p] EXCEPT ![k] = c]
<1>2. /\ s \in Seq(Conn) /\ Len(s) = Len(conns[p])
      /\ \A j \in 1..Len(conns[p]) : s[j] = IF j = k THEN c ELSE conns[p][j]
  BY <1>1, ExceptSeq DEF Latest
<1>3. conns'[p] = s
  BY <1>1
<1> HIDE DEF s
<1>4. conns' \in [Procs -> Seq(Conn)]
  BY <1>1, <1>2 DEF s
<1>5. DOMAIN s = 1..Len(s)
  BY <1>2
<1> QED
  BY <1>1, <1>2, <1>3, <1>4, <1>5 DEF Latest

\* A process that ends keeps its answer if the answer is right.
LEMMA Ending ==
  ASSUME Inv, NEW p \in Procs, NEW how \in Ended, NEW code \in {0, 1},
         pc' = [pc EXCEPT ![p] = how],
         status' = [status EXCEPT ![p] = code],
         conns' = [conns EXCEPT ![p] = << >>],
         Only(p), at' \in [Procs -> Nat \ {0}], step' \in [Procs -> 1..18],
         db' \in [Procs -> Nat], faults' \in 0..MaxFaults,
         freed' = freed, lowtype' = lowtype, misused' \subseteq freed,
         at'[p] <= Len(script[p]) + 1,
         how = "exited" /\ code = 0 => Answered(p)',
         faults' = 0 => how = "exited" /\ at'[p] > Len(script[p])
  PROVE  Inv'
<1>1. /\ pc'[p] = how /\ status'[p] = code /\ conns'[p] = << >>
      /\ pc' \in [Procs -> Stages \cup Ended]
      /\ status' \in [Procs -> {0, 1}] /\ conns' \in [Procs -> Seq(Conn)]
  BY EmptySeq DEF Inv, Types
<1>2. Types'
  BY <1>1 DEF Inv, Types
<1>3. pc'[p] \in Ended /\ pc'[p] \notin Stages
  BY <1>1 DEF Ended, Stages
<1>4. Handle(p)'
  BY <1>1, <1>3 DEF Handle, Stages
<1>5. NoLeakedLock(p)'
  BY <1>1 DEF NoLeakedLock
<1>6. Honest(p)'
  BY <1>1, <1>3 DEF Honest, Only, Stages
<1>7. WellFormed(mode[p], script[p])' /\ at'[p] <= Len(script'[p]) + 1
  BY DEF Only, Inv, Local
<1> QED
  BY <1>2, <1>4, <1>5, <1>6, <1>7, OthersKeep DEF Local

\* A process that crashes keeps nothing, after some call has failed.
LEMMA Crashing ==
  ASSUME Inv, NEW p \in Procs, Crashes(p), UNCHANGED <<mode, script, freed, lowtype>>,
         faults' \in 1..MaxFaults, misused' \subseteq freed
  PROVE  Inv'
<1>1. /\ EndProcess(p, "crashed", 1)
      /\ at' = [at EXCEPT ![p] = 1] /\ db' = [db EXCEPT ![p] = NULL]
  BY DEF Crashes
<1>2. faults' # 0 /\ faults' \in 0..MaxFaults
  BY ConnAssumption
<1>3. Only(p)
  BY <1>1, <1>2 DEF Only, EndProcess, Inv, Types
<1>4. /\ at' \in [Procs -> Nat \ {0}] /\ at'[p] = 1
      /\ db' \in [Procs -> Nat] /\ NULL \in Nat
      /\ step' \in [Procs -> 1..18] /\ "crashed" \in Ended
  BY <1>1 DEF Inv, Types, EndProcess, NULL, Ended
<1>5. at'[p] <= Len(script[p]) + 1
  <2>1. Len(script[p]) \in Nat
    BY Here
  <2> QED
    BY <1>4, <2>1
<1> QED
  BY <1>1, <1>2, <1>3, <1>4, <1>5, Ending DEF EndProcess

\* main starts the mode.
LEMMA StepParseArgs == ASSUME Inv, NEW p \in Procs, ParseArgs(p) PROVE Inv'
<1>1. /\ pc' = [pc EXCEPT ![p] = "run"] /\ pc[p] = "args"
      /\ UNCHANGED <<mode, script, at, step, conns, db, status, lowtype, faults, freed, misused>>
  BY DEF ParseArgs
<1>2. Types' /\ pc'[p] = "run"
  BY <1>1 DEF Inv, Types, Stages
<1>3. Only(p)
  BY <1>1 DEF Only, Inv, Types
<1>4. Local(p)
  BY DEF Inv
<1>5. Handle(p)' /\ NoLeakedLock(p)'
  BY <1>1, <1>2, <1>4 DEF Local, Handle, NoLeakedLock, Latest, Ended
<1>6. Honest(p)'
  BY <1>1, <1>2, <1>4 DEF Local, Honest, Answered, Op, Ended
<1> QED
  BY <1>1, <1>2, <1>3, <1>4, <1>5, <1>6, OthersKeep DEF Local

\* main returns.
LEMMA StepExit == ASSUME Inv, NEW p \in Procs, Exit(p) PROVE Inv'
<1>1. PICK code \in ExitCodes(mode[p]) : EndProcess(p, "exited", code)
  BY DEF Exit
<1>2. /\ pc[p] = "run" /\ at[p] > Len(script[p])
      /\ UNCHANGED <<mode, script, at, db, lowtype, faults, freed, misused>>
  BY DEF Exit
<1>3. code \in {0, 1}
  BY DEF ExitCodes
<1>4. Local(p) /\ pc[p] \notin Ended
  BY <1>2 DEF Inv, Ended
<1>5. Answered(p)'
  BY <1>2, <1>4 DEF Local, Honest, Answered
<1>6. Only(p)
  BY <1>1, <1>2 DEF Only, EndProcess, Inv, Types
<1>7. /\ at' \in [Procs -> Nat \ {0}] /\ step' \in [Procs -> 1..18]
      /\ db' \in [Procs -> Nat] /\ faults' \in 0..MaxFaults
      /\ freed' = freed /\ lowtype' = lowtype /\ misused' \subseteq freed
      /\ at'[p] <= Len(script[p]) + 1 /\ "exited" \in Ended
  BY <1>1, <1>2, <1>4 DEF Inv, Types, Local, Ended, EndProcess
<1> QED
  BY <1>1, <1>2, <1>3, <1>5, <1>6, <1>7, Ending DEF EndProcess

\* A signal, at any point.
LEMMA StepKill == ASSUME Inv, NEW p \in Procs, Kill(p) PROVE Inv'
<1>1. /\ Crashes(p) /\ faults < MaxFaults /\ faults' = faults + 1
      /\ UNCHANGED <<mode, script, lowtype, freed, misused>>
  BY DEF Kill, Fault
<1>2. faults \in Nat /\ MaxFaults \in Nat /\ misused' \subseteq freed
  BY <1>1, ConnAssumption DEF Inv, Types
<1>3. faults' \in 1..MaxFaults
  BY <1>1, <1>2
<1> QED
  BY <1>1, <1>2, <1>3, Crashing

\* A statement or colordb_close with a NULL handle: something had failed.
LEMMA StepUseNull == ASSUME Inv, NEW p \in Procs, UseNull(p) PROVE Inv'
<1>1. /\ pc[p] = "run" /\ at[p] <= Len(script[p]) /\ db[p] = NULL
      /\ Op(p) \in StatementSet \cup {"close"}
      /\ Crashes(p)
      /\ UNCHANGED <<mode, script, lowtype, faults, freed, misused>>
  BY DEF UseNull, Runs
<1>2. Local(p)
  BY DEF Inv
<1>3. faults # 0
  <2>1. Op(p) # "open"
    BY <1>1, StatementNames
  <2> QED
    BY <1>1, <1>2, <2>1 DEF Local, Honest
<1>4. faults' \in 1..MaxFaults /\ misused' \subseteq freed
  BY <1>1, <1>3, ConnAssumption DEF Inv, Types
<1> QED
  BY <1>1, <1>4, Crashing

\* A handle to freed memory is not NULL, and something had failed.
LEMMA FreedHandle ==
  ASSUME Inv, NEW p \in Procs, NEW k, <<p, k>> \in freed
  PROVE  k # NULL /\ k \in Nat /\ faults \in 1..MaxFaults
<1>1. k \in Nat \ {0} /\ faults # 0 /\ faults \in 0..MaxFaults
  BY DEF Inv, Types, Blamed
<1> QED
  BY <1>1, ConnAssumption DEF NULL

\* A statement or colordb_close with a handle to freed memory.
LEMMA StepUseFreed == ASSUME Inv, NEW p \in Procs, UseFreed(p) PROVE Inv'
<1>1. /\ pc[p] = "run" /\ at[p] <= Len(script[p]) /\ <<p, db[p]>> \in freed
      /\ Op(p) \in StatementSet \cup {"close"}
      /\ misused' = IF Op(p) = "close" THEN misused \cup {<<p, db[p]>>} ELSE misused
      /\ UNCHANGED <<mode, script, lowtype, faults, freed>>
  BY DEF UseFreed, Runs
<1>2. misused' \subseteq freed /\ db[p] # NULL /\ faults \in 1..MaxFaults
  BY <1>1, FreedHandle DEF Inv, Types
<1>3. CASE Crashes(p)
  BY <1>1, <1>2, <1>3, Crashing
<1>4. ASSUME at' = [at EXCEPT ![p] = at[p] + 1],
             db' = IF Op(p) = "close" THEN [db EXCEPT ![p] = NULL] ELSE db,
             UNCHANGED <<pc, step, conns, status>>
      PROVE  Inv'
  <2>1. Local(p) /\ pc[p] \notin Ended
    BY <1>1 DEF Inv, Ended
  <2>2. /\ at[p] \in Nat \ {0} /\ Len(script[p]) \in Nat /\ db[p] \in Nat
        /\ Latest(p) \in Nat
    BY Here
  <2>3. Types' /\ at'[p] = at[p] + 1
    BY <1>1, <1>2, <1>4, <2>2 DEF Inv, Types, NULL
  <2>4. Only(p)
    BY <1>1, <1>4 DEF Only, Inv, Types
  <2>5. db'[p] = db[p] \/ db'[p] = NULL
    BY <1>4, <2>3 DEF Inv, Types
  <2>6. Handle(p)'
    BY <1>1, <1>4, <2>1, <2>2, <2>5 DEF Local, Handle, Latest, NULL
  <2>7. NoLeakedLock(p)'
    BY <1>1, <1>4, <2>1 DEF Local, NoLeakedLock
  <2>8. Answered(p)'
    <3>1. CASE Op(p) = "close"
      <4>1. at[p] \in 1..Len(script[p]) /\ script[p][at[p]] = "close"
        BY <1>1, <2>2, <3>1 DEF Op
      <4>2. mode[p] \notin Telling
        BY <2>1, <4>1 DEF Local, WellFormed
      <4> QED
        BY <1>1, <4>2 DEF Answered, Telling
    <3>2. CASE Op(p) # "close"
      BY <1>2, <1>4, <3>2 DEF Answered
    <3> QED
      BY <3>1, <3>2
  <2>9. Honest(p)'
    BY <1>1, <1>2, <1>4, <2>1, <2>8 DEF Honest, Ended
  <2>10. WellFormed(mode[p], script[p])' /\ at'[p] <= Len(script'[p]) + 1
    BY <1>1, <2>1, <2>2, <2>3 DEF Local
  <2> QED
    BY <2>3, <2>4, <2>6, <2>7, <2>9, <2>10, OthersKeep DEF Local
<1> QED
  BY <1>3, <1>4 DEF UseFreed

\* init_colors_db is called.
LEMMA StepBeginOpen == ASSUME Inv, NEW p \in Procs, BeginOpen(p) PROVE Inv'
<1>1. /\ pc[p] = "run" /\ at[p] <= Len(script[p]) /\ Op(p) = "open"
      /\ pc' = [pc EXCEPT ![p] = "open"] /\ step' = [step EXCEPT ![p] = 1]
      /\ UNCHANGED <<mode, script, at, conns, db, status, lowtype, faults, freed, misused>>
  BY DEF BeginOpen, Runs
<1>2. Types' /\ pc'[p] = "open" /\ step'[p] = 1
  BY <1>1 DEF Inv, Types, Stages
<1>3. Only(p)
  BY <1>1 DEF Only, Inv, Types
<1>4. Local(p) /\ pc[p] \notin Ended
  BY <1>1 DEF Inv, Ended
<1>5. Handle(p)'
  BY <1>1, <1>2, <1>4 DEF Local, Handle, Opened, Latest, Op
<1>6. NoLeakedLock(p)'
  BY <1>1, <1>2, <1>4 DEF Local, NoLeakedLock
<1>7. Honest(p)'
  BY <1>1, <1>2, <1>4 DEF Local, Honest, Answered, Op, Ended
<1> QED
  BY <1>1, <1>2, <1>3, <1>4, <1>5, <1>6, <1>7, OthersKeep DEF Local

\* init_colors_db returns and DB->db is overwritten.
LEMMA StepEndOpen == ASSUME Inv, NEW p \in Procs, EndOpen(p) PROVE Inv'
<1>1. /\ pc[p] = "open" /\ step[p] > 17
      /\ pc' = [pc EXCEPT ![p] = "run"] /\ at' = [at EXCEPT ![p] = at[p] + 1]
      /\ db' = [db EXCEPT ![p] = Latest(p)]
      /\ UNCHANGED <<mode, script, step, conns, status, lowtype, faults, freed, misused>>
  BY FirstSteps DEF EndOpen
<1>2. Local(p) /\ pc[p] \notin Ended
  BY <1>1 DEF Inv, Ended
<1>3. /\ Latest(p) \in Nat /\ step[p] = 18 /\ at[p] \in Nat \ {0} /\ db[p] \in Nat
      /\ Len(script[p]) \in Nat
  <2>1. /\ Latest(p) \in Nat /\ step[p] \in 1..18 /\ at[p] \in Nat \ {0}
        /\ db[p] \in Nat /\ Len(script[p]) \in Nat
    BY Here
  <2>2. step[p] > 17
    BY <1>1
  <2>3. \A n \in 1..18 : n > 17 => n = 18
    OBVIOUS
  <2> QED
    BY <2>1, <2>2, <2>3
<1>4. /\ at[p] <= Len(script[p]) /\ db[p] < Latest(p)
      /\ Gone(p) \/ Fresh(conns[p][Latest(p)], 18)
  BY <1>1, <1>2, <1>3 DEF Local, Handle, Opened
<1>5. /\ <<p, Latest(p)>> \in freed \/ Complete(conns[p][Latest(p)])
      /\ Latest(p) # NULL
  BY <1>3, <1>4, PrepareOne DEF Gone, Fresh, Complete, NULL
<1>6. /\ Types' /\ pc'[p] = "run" /\ at'[p] = at[p] + 1 /\ db'[p] = Latest(p)
      /\ Latest(p)' = Latest(p)
  BY <1>1, <1>3 DEF Inv, Types, Latest, Stages
<1>7. Only(p)
  BY <1>1 DEF Only, Inv, Types
<1>8. Handle(p)'
  BY <1>1, <1>3, <1>5, <1>6 DEF Handle
<1>9. NoLeakedLock(p)'
  BY <1>1, <1>2, <1>6 DEF Local, NoLeakedLock
<1>10. Honest(p)'
  BY <1>5, <1>6 DEF Honest, Answered, Ended
<1>11. WellFormed(mode[p], script[p])' /\ at'[p] <= Len(script'[p]) + 1
  BY <1>1, <1>2, <1>3, <1>4, <1>6 DEF Local
<1> QED
  BY <1>6, <1>7, <1>8, <1>9, <1>10, <1>11, OthersKeep DEF Local

\* The lock of the connection in use changes and nothing else of it.
LEMMA Locked ==
  ASSUME Inv, NEW p \in Procs, NEW l \in {"none", "shared", "exclusive"},
         pc[p] \notin Ended, db[p] # NULL, SetLock(p, l)
  PROVE  /\ conns' \in [Procs -> Seq(Conn)]
         /\ db[p] \in 1..Latest(p)
         /\ Latest(p)' = Latest(p)
         /\ DOMAIN conns'[p] = 1..Latest(p)
         /\ conns'[p][db[p]] = [conns[p][db[p]] EXCEPT !.lock = l]
         /\ Complete(conns[p][db[p]]) => Complete(conns'[p][db[p]])
         /\ \A j \in 1..Latest(p) : j # db[p] => conns'[p][j] = conns[p][j]
         /\ \A q \in Procs \ {p} : conns'[q] = conns[q]
<1>1. db[p] \in 1..Latest(p)
  <2>1. Latest(p) \in Nat /\ db[p] \in Nat
    BY Here
  <2>2. Handle(p)
    BY DEF Inv, Local
  <2> QED
    BY <2>1, <2>2 DEF Handle, NULL
<1> DEFINE c == [conns[p][db[p]] EXCEPT !.lock = l]
<1>2. conns[p][db[p]] \in Conn
  BY <1>1, Here, ElementOfSeq DEF Latest
<1>3. c \in Conn /\ (Complete(conns[p][db[p]]) => Complete(c))
  BY <1>1, <1>2 DEF Conn, Complete
<1>4. conns' = [conns EXCEPT ![p] = [conns[p] EXCEPT ![db[p]] = c]]
  BY <1>2 DEF SetLock, Inv, Types
<1> HIDE DEF c
<1> QED
  BY <1>1, <1>3, <1>4, Replaced DEF c

\* A statement begins, with a handle and with the lock it needs.
LEMMA Taking ==
  ASSUME Inv, NEW p \in Procs, NEW busy \in {"reading", "writing"},
         NEW l \in {"shared", "exclusive"},
         pc[p] = "run", at[p] <= Len(script[p]), db[p] # NULL,
         pc' = [pc EXCEPT ![p] = busy], SetLock(p, l),
         UNCHANGED <<mode, script, at, step, db, status, lowtype, faults, freed, misused>>
  PROVE  Inv'
<1>1. Local(p) /\ pc[p] \notin Ended
  BY DEF Inv, Ended
<1>2. /\ conns' \in [Procs -> Seq(Conn)]
      /\ db[p] \in 1..Latest(p)
      /\ Latest(p)' = Latest(p)
      /\ DOMAIN conns'[p] = 1..Latest(p)
      /\ Complete(conns[p][db[p]]) => Complete(conns'[p][db[p]])
      /\ \A j \in 1..Latest(p) : j # db[p] => conns'[p][j] = conns[p][j]
      /\ \A q \in Procs \ {p} : conns'[q] = conns[q]
  BY <1>1, Locked
<1>3. Types' /\ pc'[p] = busy
  BY <1>2 DEF Inv, Types, Stages
<1>4. Only(p)
  BY <1>2 DEF Only, Inv, Types
<1>5. Latest(p) \in Nat /\ DOMAIN conns[p] = 1..Latest(p)
  BY Here
<1>6. Handle(p)'
  BY <1>1, <1>2, <1>3, <1>5 DEF Local, Handle
<1>7. NoLeakedLock(p)'
  BY <1>1, <1>2, <1>3, <1>5 DEF Local, NoLeakedLock
<1>8. Honest(p)'
  BY <1>3 DEF Honest, Answered, Ended
<1>9. WellFormed(mode[p], script[p])' /\ at'[p] <= Len(script'[p]) + 1
  BY <1>1 DEF Local
<1> QED
  BY <1>3, <1>4, <1>6, <1>7, <1>8, <1>9, OthersKeep DEF Local

\* Reset, on every path of a statement.
LEMMA StepReset == ASSUME Inv, NEW p \in Procs, Reset(p) PROVE Inv'
<1>1. /\ pc[p] \in {"reading", "writing"} /\ SetLock(p, "none")
      /\ at' = [at EXCEPT ![p] = at[p] + 1] /\ lowtype' \in BOOLEAN
      /\ UNCHANGED <<mode, script, step, db, status, faults, freed, misused>>
  BY DEF Reset, Inv, Types
<1>1a. PICK then \in {"run", "spinning"} : pc' = [pc EXCEPT ![p] = then]
  BY DEF Reset
<1>2. Local(p) /\ pc[p] \notin Ended
  BY <1>1 DEF Inv, Ended
<1>3. db[p] # NULL /\ at[p] <= Len(script[p])
  BY <1>1, <1>2 DEF Local, Handle
<1>4. /\ conns' \in [Procs -> Seq(Conn)]
      /\ db[p] \in 1..Latest(p)
      /\ Latest(p)' = Latest(p)
      /\ DOMAIN conns'[p] = 1..Latest(p)
      /\ conns'[p][db[p]] = [conns[p][db[p]] EXCEPT !.lock = "none"]
      /\ Complete(conns[p][db[p]]) => Complete(conns'[p][db[p]])
      /\ \A j \in 1..Latest(p) : j # db[p] => conns'[p][j] = conns[p][j]
      /\ \A q \in Procs \ {p} : conns'[q] = conns[q]
  BY <1>1, <1>2, <1>3, Locked
<1>5. /\ Latest(p) \in Nat /\ DOMAIN conns[p] = 1..Latest(p)
      /\ at[p] \in Nat \ {0} /\ Len(script[p]) \in Nat /\ conns[p] \in Seq(Conn)
  BY Here
<1>6. Types' /\ pc'[p] = then /\ at'[p] = at[p] + 1
  <2>1. at' \in [Procs -> Nat \ {0}] /\ at'[p] = at[p] + 1
    BY <1>1, <1>5 DEF Inv, Types
  <2>2. pc' \in [Procs -> Stages \cup Ended] /\ pc'[p] = then
    BY <1>1a DEF Inv, Types, Stages
  <2> QED
    BY <1>1, <1>4, <2>1, <2>2 DEF Inv, Types
<1>7. Only(p)
  BY <1>1, <1>1a, <1>4 DEF Only, Inv, Types
<1>8. Handle(p)'
  BY <1>1, <1>2, <1>4, <1>5, <1>6 DEF Local, Handle
<1>9. NoLeakedLock(p)'
  <2>1. conns'[p][db[p]].lock = "none"
    <3>1. conns[p][db[p]] \in Conn
      BY <1>4, <1>5, ElementOfSeq DEF Latest
    <3> QED
      BY <1>4, <3>1 DEF Conn
  <2> QED
    BY <1>1, <1>2, <1>4, <1>5, <2>1 DEF Local, NoLeakedLock
<1>10. Honest(p)'
  BY <1>1, <1>3, <1>6 DEF Honest, Answered, Ended
<1>11. WellFormed(mode[p], script[p])' /\ at'[p] <= Len(script'[p]) + 1
  BY <1>1, <1>2, <1>3, <1>5, <1>6 DEF Local
<1> QED
  BY <1>6, <1>7, <1>8, <1>9, <1>10, <1>11, OthersKeep DEF Local

\* sqlite3_close refuses a connection with the statements of Forgotten.
LEMMA FinalizedConn ==
  ASSUME NEW c \in Conn
  PROVE  /\ Finalized(c) \in Conn /\ Finalized(c).lock = "none"
         /\ "insert_typeid_name" \in c.stmts => Finalized(c).open
BY StatementNames DEF Finalized, Conn, Forgotten

\* colordb_close; the caller opens again before it does anything else.
LEMMA StepColordbClose == ASSUME Inv, NEW p \in Procs, ColordbClose(p) PROVE Inv'
<1>1. /\ pc[p] = "run" /\ at[p] <= Len(script[p]) /\ Op(p) = "close"
      /\ db[p] # NULL /\ <<p, db[p]>> \notin freed
      /\ at' = [at EXCEPT ![p] = at[p] + 1] /\ db' = [db EXCEPT ![p] = NULL]
      /\ misused' = misused \cup FoundClosed(p, db[p])
      /\ UNCHANGED <<pc, mode, script, step, status, lowtype, faults, freed>>
  BY DEF ColordbClose, Runs, Usable
<1>2. Local(p) /\ pc[p] \notin Ended
  BY <1>1 DEF Inv, Ended
<1>3. /\ Latest(p) \in Nat /\ DOMAIN conns[p] = 1..Latest(p) /\ db[p] \in Nat
      /\ at[p] \in Nat \ {0} /\ Len(script[p]) \in Nat /\ conns[p] \in Seq(Conn)
  BY Here
<1>4. db[p] \in 1..Latest(p)
  BY <1>1, <1>2, <1>3 DEF Local, Handle, NULL
<1> DEFINE c == Finalized(conns[p][db[p]])
<1>5. c \in Conn /\ c.lock = "none"
  <2>1. conns[p][db[p]] \in Conn
    BY <1>3, <1>4, ElementOfSeq DEF Latest
  <2> QED
    BY <2>1, FinalizedConn
<1>6. conns' = [conns EXCEPT ![p] = [conns[p] EXCEPT ![db[p]] = c]]
  BY DEF ColordbClose
<1> HIDE DEF c
<1>7. /\ conns' \in [Procs -> Seq(Conn)]
      /\ Latest(p)' = Latest(p)
      /\ DOMAIN conns'[p] = 1..Latest(p)
      /\ \A j \in 1..Latest(p) :
           conns'[p][j] = IF j = db[p] THEN c ELSE conns[p][j]
      /\ \A q \in Procs \ {p} : conns'[q] = conns[q]
  BY <1>4, <1>5, <1>6, Replaced
<1>7a. misused' = misused
  <2>1. conns[p][db[p]].open
    BY <1>1, <1>2 DEF Local, Handle, Complete
  <2> QED
    BY <1>1, <2>1 DEF FoundClosed
<1>8. Types' /\ at'[p] = at[p] + 1 /\ db'[p] = NULL
  <2>1. at' \in [Procs -> Nat \ {0}] /\ at'[p] = at[p] + 1
    BY <1>1, <1>3 DEF Inv, Types
  <2>2. db' \in [Procs -> Nat] /\ db'[p] = NULL
    BY <1>1 DEF Inv, Types, NULL
  <2> QED
    BY <1>1, <1>7, <1>7a, <2>1, <2>2 DEF Inv, Types
<1>9. Only(p)
  BY <1>1, <1>7 DEF Only, Inv, Types
<1>10. Handle(p)'
  BY <1>1, <1>3, <1>7, <1>8 DEF Handle, NULL
<1>11. NoLeakedLock(p)'
  BY <1>1, <1>2, <1>3, <1>5, <1>7 DEF Local, NoLeakedLock
<1>12. at[p] \in 1..Len(script[p]) /\ script[p][at[p]] = "close"
  BY <1>1, <1>3 DEF Op
<1>13. mode[p] \notin Telling /\ (at[p] = Len(script[p]) \/ script[p][at[p] + 1] = "open")
  BY <1>2, <1>12 DEF Local, WellFormed
<1>14. Honest(p)'
  BY <1>1, <1>3, <1>8, <1>13 DEF Honest, Answered, Telling, Ended, Op
<1>15. WellFormed(mode[p], script[p])' /\ at'[p] <= Len(script'[p]) + 1
  BY <1>1, <1>2, <1>3, <1>8 DEF Local
<1> QED
  BY <1>8, <1>9, <1>10, <1>11, <1>14, <1>15, OthersKeep DEF Local

\* What a step that succeeds does to the new connection.
LEMMA AdvancedFresh ==
  ASSUME NEW c \in Conn, NEW n \in 3..17, Fresh(c, n)
  PROVE  /\ Advanced(c, OpenSteps[n]) \in Conn
         /\ Advanced(c, OpenSteps[n]).lock = c.lock
         /\ Fresh(Advanced(c, OpenSteps[n]), n + 1)
         /\ OpenSteps[n] \notin {"malloc", "sqlite3_open_v2"}
<1> DEFINE d == Advanced(c, OpenSteps[n])
<1>1. CASE n = 3
  <2>1. d = [c EXCEPT !.retries = TRUE]
    BY <1>1, FirstSteps, StatementNames DEF Advanced
  <2>2. Prepared(3) = {} /\ Prepared(4) = {}
    BY PrepareOne
  <2>3. /\ d \in Conn /\ d.lock = c.lock /\ d.open = c.open
        /\ d.retries = TRUE /\ d.stmts = c.stmts
    BY <2>1 DEF Conn
  <2>4. Fresh(d, n + 1)
    BY <1>1, <2>2, <2>3 DEF Fresh
  <2>5. OpenSteps[n] \notin {"malloc", "sqlite3_open_v2"}
    BY <1>1, FirstSteps
  <2> QED
    BY <2>3, <2>4, <2>5
<1>2. CASE n \in 4..6
  <2>1. OpenSteps[n] \in {"blobs", "hexcodes", "colornames"}
    BY <1>2, FirstSteps
  <2>2. d = c
    BY <2>1, StatementNames DEF Advanced
  <2>3. Prepared(n) = {} /\ Prepared(n + 1) = {}
    BY <1>2, PrepareOne
  <2> QED
    BY <1>2, <2>1, <2>2, <2>3 DEF Fresh
<1>3. CASE n \in 7..17
  <2>1. OpenSteps[n] \in StatementSet
    BY <1>3, StatementSteps
  <2>2. d = [c EXCEPT !.stmts = c.stmts \cup {OpenSteps[n]}]
    BY <2>1, StatementNames DEF Advanced
  <2>3. Prepared(n + 1) = Prepared(n) \cup {OpenSteps[n]}
    BY <1>3, PrepareOne
  <2>4. OpenSteps[n] \notin {"malloc", "sqlite3_open_v2"}
    BY <2>1, StatementNames
  <2> QED
    BY <1>3, <2>1, <2>2, <2>3, <2>4 DEF Conn, Fresh
<1> QED
  BY <1>1, <1>2, <1>3

\* Inside colordb_open no connection of the process holds a lock, and the
\* busy handler is set before anything that needs one, or db has been freed.
LEMMA InsideOpen ==
  ASSUME Inv, NEW p \in Procs, pc[p] = "open"
  PROVE  /\ \A k \in 1..Latest(p) : conns[p][k].lock = "none"
         /\ db[p] <= Latest(p)
         /\ at[p] <= Len(script[p]) /\ Op(p) = "open"
         /\ step[p] > 2 => /\ db[p] < Latest(p) /\ Latest(p) \in 1..Latest(p)
                           /\ conns[p][Latest(p)] \in Conn
                           /\ Gone(p) \/ Fresh(conns[p][Latest(p)], step[p])
         /\ Refused(p) => Gone(p)
<1>1. Handle(p) /\ NoLeakedLock(p) /\ pc[p] \notin Ended
  BY DEF Inv, Local, Ended
<1>2. /\ Latest(p) \in Nat /\ DOMAIN conns[p] = 1..Latest(p) /\ db[p] \in Nat
      /\ conns[p] \in Seq(Conn) /\ step[p] \in 1..18
  BY Here
<1>3. \A k \in 1..Latest(p) : conns[p][k].lock = "none"
  BY <1>1, <1>2 DEF NoLeakedLock
<1>4. Opened(p) /\ db[p] <= Latest(p)
  BY <1>1 DEF Handle
<1>5. step[p] > 2 => /\ db[p] < Latest(p) /\ Latest(p) \in 1..Latest(p)
                     /\ conns[p][Latest(p)] \in Conn
                     /\ Gone(p) \/ Fresh(conns[p][Latest(p)], step[p])
  <2> SUFFICES ASSUME step[p] > 2
               PROVE  /\ db[p] < Latest(p) /\ Latest(p) \in 1..Latest(p)
                      /\ conns[p][Latest(p)] \in Conn
                      /\ Gone(p) \/ Fresh(conns[p][Latest(p)], step[p])
    OBVIOUS
  <2>1. db[p] < Latest(p) /\ (Gone(p) \/ Fresh(conns[p][Latest(p)], step[p]))
    BY <1>4 DEF Opened
  <2>2. Latest(p) \in 1..Latest(p)
    BY <1>2, <2>1
  <2>3. conns[p][Latest(p)] \in Conn
    BY <1>2, <2>2, ElementOfSeq DEF Latest
  <2> QED
    BY <2>1, <2>2, <2>3
<1>6. Refused(p) => Gone(p)
  <2> SUFFICES ASSUME Refused(p), ~Gone(p) PROVE FALSE
    OBVIOUS
  <2>1. /\ step[p] > 2 /\ ~conns[p][Latest(p)].retries
        /\ ~LockIsFree(p, OpenSteps[step[p]])
    BY DEF Refused, OpenStep
  <2>2. ~(step[p] > 3)
    BY <1>5, <2>1 DEF Fresh
  <2>3. \A n \in 1..18 : n > 2 /\ ~(n > 3) => n = 3
    OBVIOUS
  <2>4. OpenSteps[step[p]] = "busy_handler"
    BY <1>2, <2>1, <2>2, <2>3, FirstSteps
  <2> QED
    BY <2>1, <2>4, StatementNames DEF LockIsFree, Tables
<1> QED
  BY <1>3, <1>4, <1>5, <1>6 DEF Opened

\* A step of colordb_open that leaves the connections in order.
LEMMA OpeningKeeps ==
  ASSUME Inv, NEW p \in Procs, pc[p] = "open", step[p] <= 17,
         step' = [step EXCEPT ![p] = step[p] + 1],
         conns' \in [Procs -> Seq(Conn)],
         \A q \in Procs \ {p} : conns'[q] = conns[q],
         DOMAIN conns'[p] = 1..Latest(p)',
         db[p] <= Latest(p)',
         \A k \in 1..Latest(p)' : conns'[p][k].lock = "none",
         db[p] # NULL => conns'[p][db[p]] = conns[p][db[p]],
         step[p] + 1 > 2 =>
           /\ db[p] < Latest(p)'
           /\ Gone(p)' \/ Fresh(conns'[p][Latest(p)'], step[p] + 1),
         freed' = freed \/
           (freed' = freed \cup {<<p, Latest(p)>>} /\ faults' # 0 /\ Latest(p) # 0),
         faults' \in faults..MaxFaults,
         UNCHANGED <<pc, mode, script, at, db, status, lowtype, misused>>
  PROVE  Inv'
<1>1. Local(p) /\ pc[p] \notin Ended
  BY DEF Inv, Ended
<1>2. step[p] + 1 \in 1..18
  <2>1. step[p] \in 1..18
    BY Here
  <2> QED
    BY <2>1
<1>3. Types' /\ step'[p] = step[p] + 1
  <2>1. freed' \subseteq Procs \X (Nat \ {0}) /\ misused' \subseteq freed'
    <3>1. Latest(p) \in Nat
      BY Here
    <3> QED
      BY <3>1 DEF Inv, Types
  <2>2. faults' \in 0..MaxFaults
    BY Here, ConnAssumption
  <2> QED
    BY <1>2, <2>1, <2>2 DEF Inv, Types
<1>4. Only(p)
  <2>1. faults' = 0 => faults = 0 /\ freed' = freed
    BY Here, ConnAssumption
  <2>2. \A q \in Procs \ {p} : \A k : <<q, k>> \in freed' <=> <<q, k>> \in freed
    OBVIOUS
  <2> QED
    BY <2>1, <2>2 DEF Only, Inv, Types
<1>5. Opened(p)'
  BY <1>1, <1>3 DEF Local, Handle, Opened, Op
<1>6. Handle(p)'
  BY <1>1, <1>5 DEF Local, Handle
<1>7. NoLeakedLock(p)'
  BY DEF NoLeakedLock
<1>8. Honest(p)'
  <2>1. /\ pc'[p] = "open" /\ at'[p] <= Len(script'[p])
        /\ at'[p] \in Nat /\ Len(script'[p]) \in Nat
    BY <1>1, Here DEF Local, Handle, Opened
  <2> QED
    BY <2>1 DEF Honest, Ended
<1>9. WellFormed(mode[p], script[p])' /\ at'[p] <= Len(script'[p]) + 1
  BY <1>1 DEF Local
<1> QED
  BY <1>3, <1>4, <1>6, <1>7, <1>8, <1>9, OthersKeep DEF Local

\* A step of colordb_open succeeds.
LEMMA StepOpening == ASSUME Inv, NEW p \in Procs, Opening(p) PROVE Inv'
<1> DEFINE n == step[p]
<1>1. /\ pc[p] = "open" /\ n <= 17
      /\ step' = [step EXCEPT ![p] = step[p] + 1]
      /\ UNCHANGED <<pc, mode, script, at, db, status, lowtype, faults, freed, misused>>
  BY FirstSteps DEF Opening
<1>2. /\ conns' = CASE OpenSteps[n] = "malloc" \/ Gone(p) -> conns
                    [] OpenSteps[n] = "sqlite3_open_v2" ->
                         [conns EXCEPT ![p] = Append(conns[p], NewConn)]
                    [] OTHER ->
                         [conns EXCEPT ![p] = [conns[p] EXCEPT ![Latest(p)] =
                            Advanced(conns[p][Latest(p)], OpenSteps[n])]]
  BY DEF Opening, OpenStep
<1>3. /\ conns \in [Procs -> Seq(Conn)] /\ conns[p] \in Seq(Conn)
      /\ Latest(p) \in Nat /\ DOMAIN conns[p] = 1..Latest(p)
      /\ db[p] \in Nat /\ n \in 1..18
  BY Here DEF Inv, Types
<1>4. /\ \A k \in 1..Latest(p) : conns[p][k].lock = "none"
      /\ db[p] <= Latest(p)
      /\ n > 2 => /\ db[p] < Latest(p) /\ Latest(p) \in 1..Latest(p)
                  /\ conns[p][Latest(p)] \in Conn
                  /\ Gone(p) \/ Fresh(conns[p][Latest(p)], n)
      /\ Gone(p) => n > 3
      /\ faults' \in faults..MaxFaults /\ freed' = freed
  BY <1>1, InsideOpen, ConnAssumption DEF Gone, Inv, Types
<1>5. CASE n = 1
  <2>1. conns' = conns
    BY <1>2, <1>5, FirstSteps
  <2>2. Latest(p)' = Latest(p)
    BY <2>1 DEF Latest
  <2>3. ~(n + 1 > 2)
    BY <1>5
  <2> QED
    BY <1>1, <1>3, <1>4, <2>1, <2>2, <2>3, OpeningKeeps
<1>6. CASE n = 2
  <2> DEFINE s == Append(conns[p], NewConn)
  <2>1. conns' = [conns EXCEPT ![p] = s]
    BY <1>2, <1>4, <1>6, FirstSteps
  <2>2. NewConn \in Conn /\ NewConn.lock = "none" /\ Fresh(NewConn, 3)
    BY PrepareOne DEF NewConn, Conn, Fresh
  <2>3. /\ s \in Seq(Conn) /\ Len(s) = Latest(p) + 1
        /\ \A k \in 1..Latest(p) : s[k] = conns[p][k]
        /\ s[Latest(p) + 1] = NewConn
    BY <1>3, <2>2, AppendProperties DEF Latest
  <2> HIDE DEF s
  <2>4. /\ conns'[p] = s /\ \A q \in Procs \ {p} : conns'[q] = conns[q]
        /\ conns' \in [Procs -> Seq(Conn)]
    BY <1>3, <2>1, <2>3
  <2>5. Latest(p)' = Latest(p) + 1 /\ DOMAIN conns'[p] = 1..(Latest(p) + 1)
    BY <2>3, <2>4 DEF Latest
  <2>6. \A k \in 1..(Latest(p) + 1) : k \in 1..Latest(p) \/ k = Latest(p) + 1
    BY <1>3
  <2>7. \A k \in 1..(Latest(p) + 1) : conns'[p][k].lock = "none"
    BY <1>4, <2>2, <2>3, <2>4, <2>6
  <2>8. db[p] <= Latest(p) + 1 /\ db[p] < Latest(p) + 1
    BY <1>3, <1>4
  <2>9. db[p] # NULL => conns'[p][db[p]] = conns[p][db[p]]
    <3>1. db[p] # NULL => db[p] \in 1..Latest(p)
      BY <1>3, <1>4 DEF NULL
    <3> QED
      BY <2>3, <2>4, <3>1
  <2>10. Fresh(conns'[p][Latest(p)'], n + 1)
    BY <1>6, <2>2, <2>3, <2>4, <2>5
  <2> QED
    BY <1>1, <1>4, <2>4, <2>5, <2>7, <2>8, <2>9, <2>10, OpeningKeeps
<1>7. CASE Gone(p)
  <2>1. n > 3 /\ <<p, Latest(p)>> \in freed
    BY <1>7 DEF Gone
  <2>2. conns' = conns /\ Latest(p)' = Latest(p)
    <3>1. \A j \in 1..18 : j <= 17 /\ j > 3 => j \in 4..6 \/ j \in 7..17
      OBVIOUS
    <3>2. OpenSteps[n] # "sqlite3_open_v2"
      <4>1. CASE n \in 4..6
        <5>1. OpenSteps[n] \in {"blobs", "hexcodes", "colornames"}
          BY <4>1, FirstSteps
        <5> QED
          BY <5>1
      <4>2. CASE n \in 7..17
        <5>1. OpenSteps[n] \in StatementSet
          BY <4>2, StatementSteps
        <5> QED
          BY <5>1, StatementNames
      <4> QED
        BY <1>1, <1>3, <2>1, <3>1, <4>1, <4>2
    <3>3. conns' = conns
      BY <1>2, <1>7, <3>2
    <3> QED
      BY <3>3 DEF Latest
  <2>3. Gone(p)'
    <3>1. step'[p] = n + 1 /\ n + 1 > 3
      BY <1>1, <1>3, <2>1 DEF Inv, Types
    <3> QED
      BY <1>1, <2>1, <2>2, <3>1 DEF Gone
  <2>4. /\ conns' \in [Procs -> Seq(Conn)] /\ DOMAIN conns'[p] = 1..Latest(p)'
        /\ \A k \in 1..Latest(p)' : conns'[p][k].lock = "none"
        /\ db[p] <= Latest(p)' /\ db[p] < Latest(p)'
    BY <1>3, <1>4, <2>1, <2>2
  <2> QED
    BY <1>1, <1>4, <2>2, <2>3, <2>4, OpeningKeeps
<1>8. CASE n > 2 /\ ~Gone(p)
  <2> DEFINE c == Advanced(conns[p][Latest(p)], OpenSteps[n])
  <2>1. n \in 3..17
    BY <1>1, <1>3, <1>8
  <2>2. /\ c \in Conn /\ c.lock = "none" /\ Fresh(c, n + 1)
        /\ OpenSteps[n] \notin {"malloc", "sqlite3_open_v2"}
    BY <1>4, <1>8, <2>1, AdvancedFresh
  <2>3. conns' = [conns EXCEPT ![p] = [conns[p] EXCEPT ![Latest(p)] = c]]
    BY <1>2, <1>8, <2>2
  <2> HIDE DEF c
  <2>4. /\ conns' \in [Procs -> Seq(Conn)]
        /\ Latest(p)' = Latest(p)
        /\ DOMAIN conns'[p] = 1..Latest(p)
        /\ \A j \in 1..Latest(p) :
             conns'[p][j] = IF j = Latest(p) THEN c ELSE conns[p][j]
        /\ \A q \in Procs \ {p} : conns'[q] = conns[q]
    BY <1>4, <1>8, <2>2, <2>3, Replaced
  <2>5. \A k \in 1..Latest(p) : conns'[p][k].lock = "none"
    BY <1>4, <2>2, <2>4
  <2>6. db[p] # NULL => conns'[p][db[p]] = conns[p][db[p]]
    <3>1. db[p] # NULL => db[p] \in 1..Latest(p) /\ db[p] # Latest(p)
      BY <1>3, <1>4, <1>8 DEF NULL
    <3> QED
      BY <2>4, <3>1
  <2>7. db[p] < Latest(p) /\ Fresh(conns'[p][Latest(p)'], n + 1)
    BY <1>4, <1>8, <2>2, <2>4
  <2> QED
    BY <1>1, <1>4, <2>4, <2>5, <2>6, <2>7, OpeningKeeps
<1> QED
  BY <1>3, <1>5, <1>6, <1>7, <1>8

\* sqlite3_busy_handler fails: the connection is freed and stays the latest.
LEMMA StepBusyHandlerFails == ASSUME Inv, NEW p \in Procs, BusyHandlerFails(p) PROVE Inv'
<1>1. /\ pc[p] = "open" /\ step[p] <= 17 /\ OpenSteps[step[p]] = "busy_handler"
      /\ faults < MaxFaults /\ faults' = faults + 1
      /\ step' = [step EXCEPT ![p] = step[p] + 1]
      /\ freed' = freed \cup {<<p, Latest(p)>>}
      /\ UNCHANGED <<pc, mode, script, at, db, status, lowtype, misused>>
  BY FirstSteps DEF BusyHandlerFails, Fault, OpenStep
<1>2. /\ step[p] \in 1..18 /\ faults \in Nat /\ MaxFaults \in Nat
      /\ db[p] \in Nat /\ Latest(p) \in Nat
  BY Here, ConnAssumption
<1>3. step[p] = 3
  <2>1. \A n \in 1..18 : n <= 17 => n \in 1..6 \/ n \in 7..17
    OBVIOUS
  <2>2. \A n \in 1..6 : OpenSteps[n] = "busy_handler" => n = 3
    BY FirstSteps
  <2>3. \A n \in 7..17 : OpenSteps[n] # "busy_handler"
    BY StatementSteps, StatementNames
  <2> QED
    BY <1>1, <1>2, <2>1, <2>2, <2>3
<1>4. /\ \A k \in 1..Latest(p) : conns[p][k].lock = "none"
      /\ db[p] < Latest(p) /\ Latest(p) \in 1..Latest(p)
      /\ conns[p][Latest(p)] \in Conn
  BY <1>1, <1>3, InsideOpen
<1> DEFINE c == Finalized(conns[p][Latest(p)])
<1>5. c \in Conn /\ c.lock = "none"
  BY <1>4, FinalizedConn
<1>6. conns' = [conns EXCEPT ![p] = [conns[p] EXCEPT ![Latest(p)] = c]]
  BY DEF BusyHandlerFails
<1> HIDE DEF c
<1>7. /\ conns' \in [Procs -> Seq(Conn)]
      /\ Latest(p)' = Latest(p)
      /\ DOMAIN conns'[p] = 1..Latest(p)
      /\ \A j \in 1..Latest(p) :
           conns'[p][j] = IF j = Latest(p) THEN c ELSE conns[p][j]
      /\ \A q \in Procs \ {p} : conns'[q] = conns[q]
  BY <1>4, <1>5, <1>6, Replaced
<1>8. \A k \in 1..Latest(p) : conns'[p][k].lock = "none"
  BY <1>4, <1>5, <1>7
<1>9. db[p] # NULL => conns'[p][db[p]] = conns[p][db[p]]
  <2>1. db[p] # NULL => db[p] \in 1..Latest(p) /\ db[p] # Latest(p)
    BY <1>2, <1>4 DEF NULL
  <2> QED
    BY <1>7, <2>1
<1>10. Gone(p)'
  <2>1. step'[p] = 4 /\ <<p, Latest(p)>> \in freed'
    BY <1>1, <1>3 DEF Inv, Types
  <2> QED
    BY <1>7, <2>1 DEF Gone
<1>11. faults' \in faults..MaxFaults /\ faults' # 0 /\ Latest(p) # 0 /\ db[p] <= Latest(p)
  BY <1>1, <1>2, <1>4
<1> QED
  BY <1>1, <1>4, <1>7, <1>8, <1>9, <1>10, <1>11, OpeningKeeps

\* The error paths close a closed connection only if it is freed already: the
\* last one closes twice, and its first call refuses.
LEMMA OnlyFreedIsReclosed ==
  ASSUME Inv, NEW p \in Procs, pc[p] = "open", step[p] <= 17
  PROVE  Reclosed(p) \subseteq freed
<1>1. step[p] \in 1..18
  BY Here
<1>2. CASE step[p] <= 2
  BY <1>2 DEF Reclosed
<1>3. CASE Gone(p)
  BY <1>3 DEF Gone, Reclosed, FoundClosed
<1>4. CASE step[p] > 2 /\ ~Gone(p)
  <2>1. conns[p][Latest(p)] \in Conn /\ Fresh(conns[p][Latest(p)], step[p])
    BY <1>4, InsideOpen
  <2>2. FoundClosed(p, Latest(p)) = {}
    BY <2>1 DEF Fresh, FoundClosed
  <2>3. OpenStep(p) = "select" => Finalized(conns[p][Latest(p)]).open
    <3> SUFFICES ASSUME OpenStep(p) = "select"
                 PROVE  Finalized(conns[p][Latest(p)]).open
      OBVIOUS
    <3>1. \A n \in 1..18 : n <= 17 => n \in 1..6 \/ n \in 7..16 \/ n = 17
      OBVIOUS
    <3>2. step[p] \notin 1..6
      BY FirstSteps DEF OpenStep
    <3>3. step[p] = 17
      BY <1>1, <3>1, <3>2, SelectIsLast DEF OpenStep
    <3>4. "insert_typeid_name" \in conns[p][Latest(p)].stmts
      BY <2>1, <3>3, PrepareOne DEF Fresh
    <3> QED
      BY <2>1, <3>4, FinalizedConn
  <2> QED
    BY <2>2, <2>3 DEF Reclosed
<1> QED
  BY <1>1, <1>2, <1>3, <1>4

\* A failed open that the caller survives: there is no handle then.
LEMMA Surviving ==
  ASSUME Inv, NEW p \in Procs, pc[p] = "open", step[p] <= 17,
         mode[p] \notin {"typeids", "db"}, mode[p] = "json" => at[p] # 1,
         pc' = [pc EXCEPT ![p] = "run"],
         at' = [at EXCEPT ![p] = at[p] + (IF mode[p] = "json" THEN 2 ELSE 1)],
         conns' = IF step[p] <= 2 THEN conns
                  ELSE [conns EXCEPT ![p] = [conns[p] EXCEPT ![Latest(p)] =
                          Finalized(conns[p][Latest(p)])]],
         db' = [db EXCEPT ![p] = NULL],
         faults' \in 1..MaxFaults, misused' \subseteq freed,
         UNCHANGED <<mode, script, step, status, lowtype, freed>>
  PROVE  Inv'
<1>1. Local(p) /\ pc[p] \notin Ended
  BY DEF Inv, Ended
<1>2. /\ Latest(p) \in Nat /\ DOMAIN conns[p] = 1..Latest(p)
      /\ at[p] \in Nat \ {0} /\ Len(script[p]) \in Nat
  BY Here
<1>3. /\ \A k \in 1..Latest(p) : conns[p][k].lock = "none"
      /\ at[p] <= Len(script[p]) /\ Op(p) = "open"
      /\ step[p] > 2 => /\ Latest(p) \in 1..Latest(p)
                        /\ conns[p][Latest(p)] \in Conn
  BY InsideOpen
<1>4. /\ conns' \in [Procs -> Seq(Conn)]
      /\ Latest(p)' = Latest(p) /\ DOMAIN conns'[p] = 1..Latest(p)
      /\ \A k \in 1..Latest(p) : conns'[p][k].lock = "none"
      /\ \A q \in Procs \ {p} : conns'[q] = conns[q]
  <2>1. CASE step[p] <= 2
    <3>1. conns' = conns /\ Latest(p)' = Latest(p)
      BY <2>1 DEF Latest
    <3> QED
      BY <1>2, <1>3, <3>1 DEF Inv, Types
  <2>2. CASE ~(step[p] <= 2)
    <3> DEFINE c == Finalized(conns[p][Latest(p)])
    <3>1. step[p] > 2
      <4>1. step[p] \in 1..18
        BY Here
      <4> QED
        BY <2>2, <4>1
    <3>2. c \in Conn /\ c.lock = "none"
      BY <1>3, <3>1, FinalizedConn
    <3>3. conns' = [conns EXCEPT ![p] = [conns[p] EXCEPT ![Latest(p)] = c]]
      BY <2>2
    <3> HIDE DEF c
    <3>4. /\ conns' \in [Procs -> Seq(Conn)]
          /\ Latest(p)' = Latest(p)
          /\ DOMAIN conns'[p] = 1..Latest(p)
          /\ \A j \in 1..Latest(p) :
               conns'[p][j] = IF j = Latest(p) THEN c ELSE conns[p][j]
          /\ \A q \in Procs \ {p} : conns'[q] = conns[q]
      BY ONLY Inv, <1>3, <3>1, <3>2, <3>3, Replaced
    <3> QED
      BY <1>3, <3>2, <3>4
  <2> QED
    BY <2>1, <2>2
<1>5. /\ at'[p] = at[p] + (IF mode[p] = "json" THEN 2 ELSE 1)
      /\ at' \in [Procs -> Nat \ {0}]
  BY <1>2 DEF Inv, Types
<1>6. /\ at'[p] <= Len(script[p]) + 1
      /\ at'[p] > Len(script[p]) => Answered(p)'
  <2>1. CASE mode[p] = "json"
    <3>1. at[p] \in 2..Len(script[p]) /\ script[p][at[p]] = "open"
      BY <1>2, <1>3, <2>1 DEF Op
    <3>2. /\ at[p] = 2 /\ Len(script[p]) >= 3
          /\ Len(script[p]) = 3 => NoLookup(script[p])
      BY <1>1, <2>1, <3>1 DEF Local, WellFormed
    <3>3. at'[p] = 4
      BY <1>5, <2>1, <3>2
    <3>4. at'[p] > Len(script[p]) => Len(script[p]) = 3
      <4>1. \A j \in Nat : j >= 3 /\ 4 > j => j = 3
        OBVIOUS
      <4> QED
        BY <1>2, <3>2, <3>3, <4>1
    <3> QED
      BY <1>2, <2>1, <3>2, <3>3, <3>4 DEF Answered, NoLookup
  <2>2. CASE mode[p] # "json"
    BY <1>2, <1>3, <1>5, <2>2 DEF Answered
  <2> QED
    BY <2>1, <2>2
<1>7. /\ pc'[p] = "run" /\ db'[p] = NULL /\ NULL \in Nat /\ faults' # 0
      /\ pc' \in [Procs -> Stages \cup Ended]
      /\ db' \in [Procs -> Nat] /\ faults' \in 0..MaxFaults
  <2>1. faults' # 0 /\ faults' \in 0..MaxFaults
    BY ConnAssumption
  <2>2. /\ pc'[p] = "run" /\ db'[p] = NULL /\ NULL \in Nat
        /\ pc' \in [Procs -> Stages \cup Ended] /\ db' \in [Procs -> Nat]
    BY DEF Inv, Types, NULL, Stages
  <2> QED
    BY <2>1, <2>2
<1>8. Types'
  BY <1>4, <1>5, <1>7 DEF Inv, Types
<1>9. Only(p)
  BY <1>4, <1>7 DEF Only, Inv, Types
<1>10. Handle(p)'
  BY <1>2, <1>4, <1>7 DEF Handle, NULL
<1>11. NoLeakedLock(p)'
  BY <1>4 DEF NoLeakedLock
<1>12. Honest(p)'
  BY <1>6, <1>7 DEF Honest, Ended
<1>13. WellFormed(mode[p], script[p])' /\ at'[p] <= Len(script'[p]) + 1
  BY <1>1, <1>6 DEF Local
<1> QED
  BY <1>8, <1>9, <1>10, <1>11, <1>12, <1>13, OthersKeep DEF Local

\* An error path of colordb_open, and what the caller does then.
LEMMA StepOpenFails == ASSUME Inv, NEW p \in Procs, OpenFails(p) PROVE Inv'
<1>1. /\ pc[p] = "open" /\ step[p] <= 17
      /\ misused' = misused \cup Reclosed(p)
      /\ UNCHANGED <<mode, script, lowtype, freed>>
  BY FirstSteps DEF OpenFails
<1>2. faults' \in 1..MaxFaults
  <2>1. CASE Refused(p) \/ Gone(p)
    <3>1. Gone(p) /\ faults' = faults
      BY <1>1, <2>1, InsideOpen DEF OpenFails
    <3> QED
      BY <3>1, FreedHandle DEF Gone
  <2>2. CASE ~(Refused(p) \/ Gone(p))
    <3>1. faults < MaxFaults /\ faults' = faults + 1 /\ faults \in Nat
      BY <2>2, Here DEF OpenFails
    <3> QED
      BY <3>1, ConnAssumption
  <2> QED
    BY <2>1, <2>2
<1>3. misused' \subseteq freed
  BY <1>1, OnlyFreedIsReclosed DEF Inv, Types
<1>4. CASE Crashes(p)
  BY <1>1, <1>2, <1>3, <1>4, Crashing
<1>5. ASSUME ReturnNull(p), db' = [db EXCEPT ![p] = NULL] PROVE Inv'
  <2>1. Local(p) /\ pc[p] \notin Ended
    BY <1>1 DEF Inv, Ended
  <2>2. ASSUME NEW code \in {0, 1}, EndProcess(p, "exited", code), at' = at,
               code = 0 => mode[p] = "typeids_hash"
        PROVE  Inv'
    <3>1. faults' # 0 /\ faults' \in 0..MaxFaults
      BY <1>2, ConnAssumption
    <3>2. Only(p)
      BY <1>1, <1>5, <2>2, <3>1 DEF Only, EndProcess, Inv, Types
    <3>3. /\ at' \in [Procs -> Nat \ {0}] /\ step' \in [Procs -> 1..18]
          /\ db' \in [Procs -> Nat] /\ at'[p] <= Len(script[p]) + 1
          /\ "exited" \in Ended
      BY <1>5, <2>1, <2>2 DEF Inv, Types, Local, NULL, EndProcess, Ended
    <3>4. code = 0 => Answered(p)'
      BY <1>1, <2>2 DEF Answered
    <3> QED
      BY <1>1, <1>3, <2>2, <3>1, <3>2, <3>3, <3>4, Ending DEF EndProcess
  <2>3. CASE mode[p] \in {"typeids", "db"} \/ (mode[p] = "json" /\ at[p] = 1)
    <3>1. EndProcess(p, "exited", 1) /\ at' = at
      BY <1>5, <2>3 DEF ReturnNull
    <3> QED
      BY <2>2, <3>1
  <2>4. CASE mode[p] = "typeids_hash"
    <3>1. EndProcess(p, "exited", 0) /\ at' = at
      BY <1>5, <2>4 DEF ReturnNull
    <3> QED
      BY <2>2, <2>4, <3>1
  <2>5. CASE /\ mode[p] \notin {"typeids", "db", "typeids_hash"}
             /\ mode[p] = "json" => at[p] # 1
    <3>1. /\ pc' = [pc EXCEPT ![p] = "run"]
          /\ at' = [at EXCEPT ![p] = at[p] + (IF mode[p] = "json" THEN 2 ELSE 1)]
          /\ conns' = IF step[p] <= 2 THEN conns
                      ELSE [conns EXCEPT ![p] = [conns[p] EXCEPT ![Latest(p)] =
                              Finalized(conns[p][Latest(p)])]]
          /\ UNCHANGED <<step, status>>
      BY <1>5, <2>5 DEF ReturnNull
    <3> QED
      BY <1>1, <1>2, <1>3, <1>5, <2>5, <3>1, Surviving
  <2> QED
    BY <2>3, <2>4, <2>5
<1> QED
  BY <1>4, <1>5 DEF OpenFails
-----------------------------------------------------------------------------
(* The theorems.                                                           *)

\* Every process starts with a script of its mode and without connections.
LEMMA InitInv == Init => Inv
<1> SUFFICES ASSUME Init PROVE Inv
  OBVIOUS
<1>1. Types
  BY EmptySeq, ConnAssumption DEF Init, Types, NULL, Stages
<1>3. Blamed
  BY DEF Init, Blamed
<1>2. ASSUME NEW q \in Procs PROVE Local(q)
  <2>1. WellFormed(mode[q], script[q])
    BY ScriptsAreWellFormed DEF Init
  <2>2. /\ pc[q] = "args" /\ at[q] = 1 /\ conns[q] = << >> /\ db[q] = NULL
        /\ Len(script[q]) \in Nat
    BY <2>1 DEF Init, WellFormed
  <2>3. Handle(q) /\ NoLeakedLock(q)
    BY <2>2, EmptySeq DEF Handle, NoLeakedLock, Latest, NULL, Ended
  <2>4. Honest(q)
    <3>1. (at[q] > Len(script[q])) => mode[q] \notin Telling
      BY <2>1, <2>2 DEF WellFormed
    <3> QED
      BY <2>1, <2>2, <3>1 DEF Honest, Answered, Telling, WellFormed, Op, Ended
  <2> QED
    BY <2>1, <2>2, <2>3, <2>4 DEF Local
<1> QED
  BY <1>1, <1>2, <1>3 DEF Inv

\* Every step of every process keeps the invariant.
LEMMA StepInv == Inv /\ [Next]_vars => Inv'
<1> SUFFICES ASSUME Inv, [Next]_vars PROVE Inv'
  OBVIOUS
<1>1. ASSUME NEW p \in Procs, Proceed(p) PROVE Inv'
  <2>1. ASSUME BeginRead(p) PROVE Inv'
    BY <2>1, Taking DEF BeginRead, Runs, Usable
  <2>2. ASSUME BeginWrite(p) PROVE Inv'
    BY <2>2, Taking DEF BeginWrite, Runs, Usable
  <2> QED
    BY <1>1, <2>1, <2>2, StepParseArgs, StepExit, StepBeginOpen, StepOpening,
       StepEndOpen, StepUseNull, StepUseFreed, StepReset, StepColordbClose DEF Proceed
<1>2. CASE UNCHANGED vars
  BY <1>2 DEF vars, Inv, Types, Blamed, Local, Handle, Opened, Gone,
              NoLeakedLock, Honest, Answered, Op, Latest
<1> QED
  BY <1>1, <1>2, StepBusyHandlerFails, StepOpenFails, StepKill DEF Next

\* The invariant holds in every state of every behaviour.
LEMMA Invariance == Spec => []Inv
BY InitInv, StepInv, PTL DEF Spec

(* Every state is well typed, for any number of processes and faults.      *)
THEOREM ConnTypeCorrect == Spec => []TypeOK
<1>1. Inv => TypeOK
  <2> SUFFICES ASSUME Inv PROVE TypeOK
    OBVIOUS
  <2>1. Len(OpenSteps) + 1 = 18
    BY FirstSteps
  <2>2. \A p \in Procs : /\ at[p] <= Len(script[p]) + 1
                         /\ pc[p] \notin Ended => db[p] <= Latest(p)
    BY DEF Inv, Local, Handle
  <2> QED
    BY <2>1, <2>2 DEF Inv, Types, TypeOK
<1> QED
  BY <1>1, Invariance, PTL

(* What init_colors_db leaves in DB->db is NULL, an open connection with   *)
(* the busy handler and all eleven statements, after whatever opens failed *)
(* or were made before it, or the freed memory of the very open that could *)
(* not set its busy handler and went on.                                   *)
THEOREM HandlesAreComplete == Spec => []HandleIsComplete
<1>1. Inv => HandleIsComplete
  BY DEF Inv, Local, Handle, Complete, HandleIsComplete
<1> QED
  BY <1>1, Invariance, PTL

(* A connection nobody can reach any more holds no lock, so a leaked one   *)
(* blocks nobody; nor does a process that spins on a type below 1.         *)
THEOREM LeaksBlockNobody == Spec => []LeakedHoldNoLock
<1>1. Inv => LeakedHoldNoLock
  BY DEF Inv, Local, NoLeakedLock, LeakedHoldNoLock
<1> QED
  BY <1>1, Invariance, PTL

(* sqlite3_close gets a closed connection only where colordb_open went on  *)
(* with one it had freed for want of a busy handler: never on the error    *)
(* path that calls it twice, and never in colordb_close after a good open. *)
THEOREM NothingIsClosedTwice == Spec => []NeverClosedTwice
<1>1. Inv => NeverClosedTwice
  BY DEF Inv, Types, NeverClosedTwice
<1> QED
  BY <1>1, Invariance, PTL

(* typeids and db exit with 0 only with a handle, json without one only if *)
(* no line was looked up, and a process ends before its script only if a   *)
(* call has failed.                                                        *)
THEOREM ExitStatusIsHonest == Spec => []StatusIsHonest
<1>1. Inv => StatusIsHonest
  BY DEF Inv, Local, Honest, Answered, NoLookup, StatusIsHonest
<1> QED
  BY <1>1, Invariance, PTL
=============================================================================
