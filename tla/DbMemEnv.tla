------------------------------ MODULE DbMemEnv ------------------------------
(***************************************************************************)
(* The in-memory VFS of dbmem/dbmem.c: who owns the buffer of a database.  *)
(*                                                                         *)
(* dbmem_open_db puts the caller's buffer into the list of g_dbmem_env and *)
(* calls sqlite3_open_v2, which calls back dbmemOpen; its load_cb takes a  *)
(* buffer out of a list again, the first one whose path matches.  The list *)
(* is locked during each of these steps, not between them, and it is that  *)
(* of the environment g_dbmem was registered with, whatever g_dbmem_env is *)
(* by then.                                                                *)
(*                                                                         *)
(* Several threads initialise the environment, which nothing locks, and    *)
(* open and close databases.  dbmem_env_fini is not called while a thread  *)
(* is inside one of these, because it frees the mutex, and databases are   *)
(* closed with their statements finalized.                                 *)
(***************************************************************************)
EXTENDS Integers, Sequences

CONSTANTS
  Threads,
  Paths,
  NoPath,      \* of a thread that is not inside dbmem_open_db
  Buffers,     \* addresses of a spmembuffer_t; a freed one is used again
  NoBuffer,    \* NULL
  Envs,        \* addresses of a dbmem_env_t
  NoEnv,       \* NULL
  MaxFaults    \* bound: failures inside sqlite3

ASSUME EnvAssumption ==
  /\ NoBuffer \notin Buffers
  /\ NoPath \notin Paths
  /\ NoEnv \notin Envs
  /\ MaxFaults \in Nat

VARIABLES
  env,        \* g_dbmem_env
  lists,      \* lists[e]: the list of environment e, [path, mem], head first
  vfs,        \* g_dbmem: "none", "registered", or "failed" with parent set
  cbArg,      \* g_dbmem.cb.arg
  pc,         \* pc[t]: where thread t is
  path,       \* path[t]: the argument path
  given,      \* given[t]: the argument mem
  fileMem,    \* fileMem[t]: memfile->mem of the open sqlite3 handle
  journal,    \* journal[t]: memfile->mem of another file of that handle
  dbMem,      \* dbMem[t]: db->mem
  heap,       \* the buffers that are allocated
  badFree,    \* history: a buffer was freed that was not allocated
  lost,       \* history: buffers of opens that failed after load_cb
  overlap,    \* history: two opens of one path were under way at one time
  raced,      \* history: an environment replaced another one
  faults

envVars == <<env, lists, vfs, cbArg>>
locals == <<pc, path, given, fileMem, journal, dbMem>>
memory == <<heap, badFree>>
history == <<lost, overlap, raced, faults>>
vars == <<envVars, locals, memory, history>>

Initialising == {"tested", "assigned"}
Opening == {"pushed", "loaded", "failed"}

Init ==
  /\ env = NoEnv /\ cbArg = NoEnv
  /\ lists = << >>
  /\ vfs = "none"
  /\ pc = [t \in Threads |-> "closed"]
  /\ path = [t \in Threads |-> NoPath]
  /\ given = [t \in Threads |-> NoBuffer]
  /\ fileMem = [t \in Threads |-> NoBuffer]
  /\ journal = [t \in Threads |-> NoBuffer]
  /\ dbMem = [t \in Threads |-> NoBuffer]
  /\ heap = {} /\ badFree = FALSE /\ lost = {}
  /\ overlap = FALSE /\ raced = FALSE
  /\ faults = 0

Goto(t, where) == pc' = [pc EXCEPT ![t] = where]

\* The arguments of dbmem_open_db are gone when it returns.
Return(t, where) ==
  /\ Goto(t, where)
  /\ path' = [path EXCEPT ![t] = NoPath]
  /\ given' = [given EXCEPT ![t] = NoBuffer]

Fault ==
  /\ faults < MaxFaults
  /\ faults' = faults + 1
-----------------------------------------------------------------------------
(* calloc, spmembuffer_link_remove, and free.                              *)

Allocate(m) ==
  /\ m \notin heap
  /\ heap' = heap \cup {m}

\* Mutant of Free: nothing is released.
FreeNothing(mems) == UNCHANGED memory

Free(mems) ==
  /\ heap' = heap \ mems
  /\ badFree' = (badFree \/ ~(mems \subseteq heap))

MemsOf(list) == {list[k].mem : k \in DOMAIN list}
Listed == UNION {MemsOf(lists[e]) : e \in DOMAIN lists}

Found(list, p) == {k \in DOMAIN list : list[k].path = p}
First(list, p) == CHOOSE k \in Found(list, p) : \A j \in Found(list, p) : k <= j
Without(list, k) == SubSeq(list, 1, k - 1) \o SubSeq(list, k + 1, Len(list))
-----------------------------------------------------------------------------
(* dbmem_env_init and dbmem_env_fini.                                      *)

TestEnv(t) ==
  /\ pc[t] = "closed"
  /\ env = NoEnv
  /\ Goto(t, "tested")
  /\ UNCHANGED <<envVars, path, given, fileMem, journal, dbMem, memory, history>>

AssignEnv(t) ==
  /\ pc[t] = "tested"
  /\ Goto(t, "assigned")
  /\ \E e \in Envs \ DOMAIN lists :
       /\ env' = e
       /\ lists' = [f \in DOMAIN lists \cup {e} |->
                      IF f = e THEN << >> ELSE lists[f]]
  /\ raced' = (raced \/ env # NoEnv)
  /\ UNCHANGED <<vfs, cbArg, path, given, fileMem, journal, dbMem, memory,
                 lost, overlap, faults>>

\* dbmem_init.  If it fails, g_dbmem_env and parent are set nevertheless, and
\* further calls return 0 without another try.
RegisterVfs(t) ==
  /\ pc[t] = "assigned"
  /\ Goto(t, "closed")
  /\ IF vfs # "none" THEN UNCHANGED <<vfs, cbArg, faults>>
     ELSE /\ cbArg' = env
          /\ \/ vfs' = "registered" /\ UNCHANGED faults
             \/ vfs' = "failed" /\ Fault
  /\ UNCHANGED <<env, lists, path, given, fileMem, journal, dbMem, memory,
                 lost, overlap, raced>>

EnvFini ==
  /\ env # NoEnv
  /\ \A t \in Threads : pc[t] \notin Initialising \cup Opening
  /\ env' = NoEnv
  /\ vfs' = "none"
  /\ Free(MemsOf(lists[env]))
  /\ lists' = [e \in DOMAIN lists \ {env} |-> lists[e]]
  /\ UNCHANGED <<cbArg, locals, history>>
-----------------------------------------------------------------------------
(* dbmem_open_db and dbmem_close_db.                                       *)

\* The buffer is pushed on the list.
Push(t, p, m) ==
  /\ env # NoEnv
  /\ pc[t] = "closed"
  /\ Allocate(m)
  /\ overlap' = (overlap \/ \E u \in Threads : pc[u] \in Opening /\ path[u] = p)
  /\ lists' = [lists EXCEPT ![env] = <<[path |-> p, mem |-> m]>> \o @]
  /\ Goto(t, "pushed")
  /\ path' = [path EXCEPT ![t] = p]
  /\ given' = [given EXCEPT ![t] = m]
  /\ UNCHANGED <<env, vfs, cbArg, fileMem, journal, dbMem, badFree, lost, raced,
                 faults>>

Calling(t) == pc[t] = "pushed" /\ vfs = "registered"

\* Mutant of Load: the link stays in the list.
LoadCopy(t) ==
  LET list == lists[cbArg] IN
  /\ Calling(t)
  /\ Found(list, path[t]) # {}
  /\ Goto(t, "loaded")
  /\ fileMem' = [fileMem EXCEPT ![t] = list[First(list, path[t])].mem]
  /\ UNCHANGED <<envVars, path, given, journal, dbMem, memory, history>>

\* Mutant of Load: the head is taken whatever its path.
LoadHead(t) ==
  LET list == lists[cbArg] IN
  /\ Calling(t)
  /\ list # << >>
  /\ Goto(t, "loaded")
  /\ fileMem' = [fileMem EXCEPT ![t] = Head(list).mem]
  /\ lists' = [lists EXCEPT ![cbArg] = Tail(@)]
  /\ UNCHANGED <<env, vfs, cbArg, path, given, journal, dbMem, memory, history>>

\* sqlite3_open_v2 calls dbmemOpen, which calls load_cb.
Load(t) ==
  LET list == lists[cbArg]
      k == First(list, path[t])
  IN
  /\ Calling(t)
  /\ Found(list, path[t]) # {}
  /\ Goto(t, "loaded")
  /\ fileMem' = [fileMem EXCEPT ![t] = list[k].mem]
  /\ lists' = [lists EXCEPT ![cbArg] = Without(list, k)]
  /\ UNCHANGED <<env, vfs, cbArg, path, given, journal, dbMem, memory, history>>

\* load_cb finds nothing and dbmemOpen returns SQLITE_ERROR.
LoadNothing(t) ==
  /\ Calling(t)
  /\ Found(lists[cbArg], path[t]) = {}
  /\ Goto(t, "failed")
  /\ UNCHANGED <<envVars, path, given, fileMem, journal, dbMem, memory, history>>

\* sqlite3_open_v2 does not know a VFS of that name.
NoSuchVfs(t) ==
  /\ pc[t] = "pushed"
  /\ vfs # "registered"
  /\ Goto(t, "failed")
  /\ UNCHANGED <<envVars, path, given, fileMem, journal, dbMem, memory, history>>

\* sqlite3_open_v2 fails before it calls dbmemOpen (out of memory).
FailEarly(t) ==
  /\ Calling(t)
  /\ Fault
  /\ Goto(t, "failed")
  /\ UNCHANGED <<envVars, path, given, fileMem, journal, dbMem, memory,
                 lost, overlap, raced>>

\* It fails after dbmemOpen: the file is closed, which for the main database
\* leaves the buffer alone, and nothing refers to the buffer any more.
FailLate(t) ==
  /\ pc[t] = "loaded"
  /\ Fault
  /\ Goto(t, "failed")
  /\ lost' = lost \cup {fileMem[t]}
  /\ fileMem' = [fileMem EXCEPT ![t] = NoBuffer]
  /\ UNCHANGED <<envVars, path, given, journal, dbMem, memory, overlap, raced>>

Opened(t) ==
  /\ pc[t] = "loaded"
  /\ Return(t, "open")
  /\ dbMem' = [dbMem EXCEPT ![t] = given[t]]
  /\ UNCHANGED <<envVars, fileMem, journal, memory, history>>

\* Mutant of CleanUp: the caller's buffer is freed, listed or not.
CleanUpGiven(t) ==
  /\ pc[t] = "failed"
  /\ Return(t, "closed")
  /\ Free({given[t]})
  /\ UNCHANGED <<envVars, fileMem, journal, dbMem, history>>

\* The error path of dbmem_open_db.
CleanUp(t) ==
  LET list == lists[env]
      k == First(list, path[t])
  IN
  /\ pc[t] = "failed"
  /\ Return(t, "closed")
  /\ IF Found(list, path[t]) = {} THEN UNCHANGED <<lists, memory>>
     ELSE /\ Free({list[k].mem})
          /\ lists' = [lists EXCEPT ![env] = Without(list, k)]
  /\ UNCHANGED <<env, vfs, cbArg, fileMem, journal, dbMem, history>>

\* dbmemOpen and spmemfileClose for a file that is no main database.
OpenJournal(t, m) ==
  /\ pc[t] = "open"
  /\ journal[t] = NoBuffer
  /\ Allocate(m)
  /\ journal' = [journal EXCEPT ![t] = m]
  /\ UNCHANGED <<envVars, pc, path, given, fileMem, dbMem, badFree, history>>

CloseJournal(t) ==
  /\ pc[t] = "open"
  /\ journal[t] # NoBuffer
  /\ Free({journal[t]})
  /\ journal' = [journal EXCEPT ![t] = NoBuffer]
  /\ UNCHANGED <<envVars, pc, path, given, fileMem, dbMem, history>>

\* sqlite3_close closes the other files first; db->mem is never NULL here.
Close(t) ==
  /\ pc[t] = "open"
  /\ journal[t] = NoBuffer
  /\ Goto(t, "closed")
  /\ fileMem' = [fileMem EXCEPT ![t] = NoBuffer]
  /\ dbMem' = [dbMem EXCEPT ![t] = NoBuffer]
  /\ Free({dbMem[t]})
  /\ UNCHANGED <<envVars, path, given, journal, history>>
-----------------------------------------------------------------------------
Next ==
  \/ EnvFini
  \/ \E t \in Threads :
       \/ TestEnv(t) \/ AssignEnv(t) \/ RegisterVfs(t)
       \/ \E p \in Paths, m \in Buffers : Push(t, p, m)
       \/ Load(t) \/ LoadNothing(t) \/ NoSuchVfs(t)
       \/ FailEarly(t) \/ FailLate(t)
       \/ Opened(t) \/ CleanUp(t)
       \/ (\E m \in Buffers : OpenJournal(t, m)) \/ CloseJournal(t) \/ Close(t)

Spec == Init /\ [][Next]_vars
-----------------------------------------------------------------------------
\* Whatever goes wrong with an open concerns that open only, unless its path
\* was being opened by another thread, or two threads initialised at once.
Calm == ~overlap /\ ~raced

(* After dbmem_open_db has returned, db->mem is the buffer the connection  *)
(* reads and writes, and load_cb finds the link that was pushed for it, in *)
(* calm times: not when opens of one path overlap, and not after two calls *)
(* of dbmem_env_init have raced, when the links go to one environment and  *)
(* load_cb searches the other.                                             *)
OwnBuffer ==
  Calm => \A t \in Threads :
    /\ pc[t] = "open" => fileMem[t] = dbMem[t]
    /\ Calling(t) => Found(lists[cbArg], path[t]) # {}

(* The same without the exception: dbmem-test saves db.mem as the contents *)
(* of the database it has worked on, and the list is guarded by a mutex.   *)
AlwaysOwnBuffer ==
  \A t \in Threads : pc[t] = "open" => fileMem[t] = dbMem[t]

(* No connection works on a buffer that was freed, no buffer that was      *)
(* freed waits in a list to be opened, and none is freed twice, whatever   *)
(* opens fail in between, in calm times.                                   *)
NoUseAfterFree ==
  Calm =>
    /\ ~badFree
    /\ Listed \subseteq heap
    /\ \A t \in Threads : {fileMem[t], dbMem[t]} \subseteq heap \cup {NoBuffer}

(* A buffer is in one place at a time: it is listed once, or one file uses *)
(* it, although addresses are used again, in calm times.  (When opens of   *)
(* one path overlap, closing one frees the buffer of the other, and the    *)
(* next one to be opened may get the same address.)                        *)
NoSharing ==
  Calm =>
    /\ \A e \in DOMAIN lists : \A j, k \in DOMAIN lists[e] :
         lists[e][j].mem = lists[e][k].mem => j = k
    /\ \A t \in Threads : {fileMem[t], journal[t]} \cap Listed = {}
    /\ \A t, u \in Threads :
         /\ fileMem[t] = fileMem[u] => t = u \/ fileMem[t] = NoBuffer
         /\ fileMem[t] = journal[u] => fileMem[t] = NoBuffer

(* No buffer leaks, except when sqlite3_open_v2 fails after load_cb took   *)
(* the buffer out of the list: every other failed open frees it, in calm   *)
(* times.  And a link never outlives the dbmem_open_db that pushed it, so  *)
(* that dbmem_env_fini has nothing to free, even if opens of one path      *)
(* overlap.                                                                *)
NoOtherLeak ==
  /\ Calm => \A m \in heap :
       m \in lost \cup Listed \/ \E t \in Threads : m \in {fileMem[t], journal[t]}
  /\ ~raced /\ (\A t \in Threads : pc[t] \notin Opening) => Listed = {}
=============================================================================
