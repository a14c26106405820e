-------------------------- MODULE DbMemEnv_proofs ---------------------------
(***************************************************************************)
(* Theorems about DbMemEnv for any number of threads, paths, buffers,      *)
(* environments and failures.                                              *)
(***************************************************************************)
EXTENDS DbMemEnv, SequenceTheorems, WellFoundedInduction, TLAPS

(* spmembuffer_link_remove.                                                *)

\* A set of positions has a first one.
LEMMA LeastExists ==
  ASSUME NEW S, S \subseteq Nat, S # {}
  PROVE  \E k \in S : \A j \in S : k <= j
<1>1. PICK k \in S : \A j \in S : <<j, k>> \notin OpToRel(<, Nat)
  BY NatLessThanWellFounded, WFMin, Zenon
<1>2. \A j \in S : ~(j < k)
  BY <1>1 DEF OpToRel
<1> QED
  BY <1>2

\* The search finds a link of the path if there is one.
LEMMA FirstFound ==
  ASSUME NEW T, NEW L \in Seq(T), NEW p, Found(L, p) # {}
  PROVE  First(L, p) \in DOMAIN L /\ L[First(L, p)].path = p
<1>1. Found(L, p) \subseteq DOMAIN L /\ DOMAIN L \subseteq Nat
  BY DEF Found
<1>2. \E k \in Found(L, p) : \A j \in Found(L, p) : k <= j
  BY <1>1, LeastExists
<1>3. First(L, p) \in Found(L, p)
  BY <1>2 DEF First
<1> QED
  BY <1>3 DEF Found

\* Removing a link moves those behind it up.
LEMMA WithoutItem ==
  ASSUME NEW T, NEW L \in Seq(T), NEW k \in DOMAIN L
  PROVE  /\ Without(L, k) \in Seq(T)
         /\ DOMAIN Without(L, k) = 1..(Len(L) - 1)
         /\ \A j \in 1..(Len(L) - 1) :
              Without(L, k)[j] = IF j < k THEN L[j] ELSE L[j + 1]
<1> DEFINE a == SubSeq(L, 1, k - 1)
           b == SubSeq(L, k + 1, Len(L))
<1>1. k \in 1..Len(L) /\ Len(L) \in Nat
  OBVIOUS
<1>2. /\ a \in Seq(T) /\ Len(a) = k - 1
      /\ \A j \in 1..(k - 1) : a[j] = L[j]
  BY <1>1
<1>3. /\ b \in Seq(T) /\ Len(b) = Len(L) - k
      /\ \A j \in 1..(Len(L) - k) : b[j] = L[k + j]
  BY <1>1
<1>4. Without(L, k) = a \o b
  BY DEF Without
<1> HIDE DEF a, b
<1>5. /\ a \o b \in Seq(T) /\ Len(a \o b) = Len(L) - 1
      /\ \A j \in 1..(Len(L) - 1) : (a \o b)[j] = IF j < k THEN a[j] ELSE b[j - (k - 1)]
  BY <1>1, <1>2, <1>3
<1>6. \A j \in 1..(Len(L) - 1) : (a \o b)[j] = IF j < k THEN L[j] ELSE L[j + 1]
  <2> SUFFICES ASSUME NEW j \in 1..(Len(L) - 1)
               PROVE  (a \o b)[j] = IF j < k THEN L[j] ELSE L[j + 1]
    OBVIOUS
  <2>1. CASE j < k
    BY <1>1, <1>2, <1>5, <2>1
  <2>2. CASE ~(j < k)
    <3>1. j - (k - 1) \in 1..(Len(L) - k) /\ k + (j - (k - 1)) = j + 1
      BY <1>1, <2>2
    <3>2. b[j - (k - 1)] = L[j + 1]
      BY <1>3, <3>1
    <3> QED
      BY <1>5, <2>2, <3>2
  <2> QED
    BY <2>1, <2>2
<1> QED
  BY <1>4, <1>5, <1>6

\* spmembuffer_link_alloc puts the link in front.
LEMMA WithFront ==
  ASSUME NEW T, NEW L \in Seq(T), NEW x \in T
  PROVE  /\ <<x>> \o L \in Seq(T)
         /\ DOMAIN (<<x>> \o L) = 1..(Len(L) + 1)
         /\ (<<x>> \o L)[1] = x
         /\ \A j \in 1..Len(L) : (<<x>> \o L)[j + 1] = L[j]
OBVIOUS
-----------------------------------------------------------------------------
(* The invariants.                                                         *)

Entry == [path : Paths, mem : Buffers]

\* The list of g_dbmem_env.
List == IF env = NoEnv THEN << >> ELSE lists[env]

Places == {"closed", "open"} \cup Initialising \cup Opening
Waiting == {"pushed", "failed"}

\* Each link has a thread of its own inside dbmem_open_db that still waits
\* for it: the link was pushed for its path.
Claims(f) ==
  /\ f \in [DOMAIN List -> Threads]
  /\ \A j, k \in DOMAIN List : f[j] = f[k] => j = k
  /\ \A k \in DOMAIN List : pc[f[k]] \in Waiting /\ path[f[k]] = List[k].path

Claimed == \E f \in [DOMAIN List -> Threads] : Claims(f)

\* While no two initialisations have raced: there is one environment, which
\* g_dbmem was registered with.
Base ==
  /\ pc \in [Threads -> Places]
  /\ path \in [Threads -> Paths \cup {NoPath}]
  /\ {given, fileMem, journal, dbMem} \subseteq [Threads -> Buffers \cup {NoBuffer}]
  /\ DOMAIN lists = IF env = NoEnv THEN {} ELSE {env}
  /\ List \in Seq(Entry)
  /\ vfs # "none" => env # NoEnv /\ cbArg = env
  /\ \A t \in Threads :
       /\ pc[t] \in Opening => env # NoEnv /\ path[t] \in Paths /\ given[t] \in Buffers
       /\ pc[t] = "assigned" => env # NoEnv
  /\ Claimed

\* The buffer thread t works with.
Mem(t) == IF pc[t] \in Opening THEN given[t] ELSE dbMem[t]

\* In calm times every path has one opener, and its link is where the state
\* of that thread says.
Links ==
  /\ \A t, u \in Threads :
       {pc[t], pc[u]} \subseteq Opening /\ path[t] = path[u] => t = u
  /\ \A k \in DOMAIN List : \E t \in Threads :
       pc[t] \in Waiting /\ List[k].path = path[t] /\ List[k].mem = given[t]
  /\ \A t \in Threads :
       /\ pc[t] = "pushed" => Found(List, path[t]) # {}
       /\ pc[t] = "failed" => (Found(List, path[t]) # {} <=> given[t] \notin lost)

\* Every thread uses what it has allocated.
Uses ==
  \A t \in Threads :
    /\ pc[t] \in Opening => given[t] \in heap
    /\ fileMem[t] = IF pc[t] \in {"loaded", "open"} THEN Mem(t) ELSE NoBuffer
    /\ IF pc[t] = "open" THEN dbMem[t] \in heap ELSE dbMem[t] = NoBuffer
    /\ journal[t] \in heap \/ journal[t] = NoBuffer
    /\ journal[t] # NoBuffer => pc[t] = "open"

\* Every allocated buffer is in one place.
Owners ==
  /\ heap \subseteq Buffers
  /\ lost \subseteq heap
  /\ \A t, u \in Threads :
       /\ Mem(t) = Mem(u) => t = u \/ Mem(t) = NoBuffer
       /\ Mem(t) = journal[u] => Mem(t) = NoBuffer
       /\ journal[t] = journal[u] => t = u \/ journal[t] = NoBuffer
  /\ \A t \in Threads :
       /\ journal[t] \notin lost
       /\ Mem(t) \in lost => pc[t] = "failed"
  /\ \A m \in heap : m \in lost \/ \E t \in Threads : m \in {Mem(t), journal[t]}

Owned == Links /\ Uses /\ Owners /\ ~badFree

Inv ==
  /\ {raced, overlap} \subseteq BOOLEAN
  /\ ~raced => Base
  /\ Calm => Owned
-----------------------------------------------------------------------------
(* What the steps do to the list.                                          *)

\* The steps that leave the list and the environment alone.
Quiet(t) ==
  \/ TestEnv(t) \/ RegisterVfs(t) \/ LoadNothing(t) \/ NoSuchVfs(t)
  \/ FailEarly(t) \/ FailLate(t) \/ Opened(t)
  \/ (\E m \in Buffers : OpenJournal(t, m)) \/ CloseJournal(t) \/ Close(t)

\* The list after each kind of step.
LEMMA QuietList ==
  ASSUME NEW t \in Threads, Quiet(t)
  PROVE  List' = List /\ lists' = lists /\ env' = env
BY DEF Quiet, TestEnv, RegisterVfs, LoadNothing, NoSuchVfs, FailEarly, FailLate,
       Opened, OpenJournal, CloseJournal, Close, envVars, List

\* A push puts a link in front.
LEMMA PushList ==
  ASSUME Base, NEW t \in Threads, NEW p \in Paths, NEW m \in Buffers, Push(t, p, m)
  PROVE  /\ env # NoEnv /\ env' = env /\ DOMAIN lists' = DOMAIN lists
         /\ List' = <<[path |-> p, mem |-> m]>> \o List
BY DEF Base, Push, List

\* load_cb takes the first link of its path.
LEMMA LoadList ==
  ASSUME Base, NEW t \in Threads, Load(t)
  PROVE  /\ env # NoEnv /\ env' = env /\ DOMAIN lists' = DOMAIN lists
         /\ Found(List, path[t]) # {}
         /\ List' = Without(List, First(List, path[t]))
         /\ fileMem' = [fileMem EXCEPT ![t] = List[First(List, path[t])].mem]
BY DEF Base, Load, Calling, List

\* The error path takes one out, if there is one.
LEMMA CleanUpList ==
  ASSUME Base, NEW t \in Threads, CleanUp(t)
  PROVE  /\ env # NoEnv /\ env' = env /\ DOMAIN lists' = DOMAIN lists
         /\ IF Found(List, path[t]) = {} THEN List' = List /\ UNCHANGED memory
            ELSE /\ List' = Without(List, First(List, path[t]))
                 /\ Free({List[First(List, path[t])].mem})
BY DEF Base, CleanUp, Opening, List

\* Without a race there is no environment yet.
LEMMA NewList ==
  ASSUME Base, NEW t \in Threads, AssignEnv(t), ~raced'
  PROVE  env = NoEnv /\ vfs = "none" /\ List = << >>
BY DEF Base, AssignEnv, List

\* A finished environment has an empty list.
LEMMA FiniList ==
  ASSUME Base, EnvFini
  PROVE  List = << >> /\ lists[env] = List /\ env' = NoEnv /\ List' = << >>
<1>1. \A t \in Threads : pc[t] \notin Waiting
  BY DEF EnvFini, Opening, Waiting
<1>2. DOMAIN List = {} /\ List \in Seq(Entry)
  BY <1>1 DEF Base, Claimed, Claims
<1>3. List = << >>
  BY <1>2, EmptySeq DEF Base
<1> QED
  BY <1>3 DEF EnvFini, List
-----------------------------------------------------------------------------
(* Every link is claimed.                                                  *)

\* The threads whose links are listed keep waiting for them.
LEMMA KeepClaims ==
  ASSUME Claimed, List' = List,
         \A t \in Threads : pc[t] \in Waiting /\ Found(List, path[t]) # {} =>
           pc'[t] \in Waiting /\ path'[t] = path[t]
  PROVE  Claimed'
<1>1. PICK f \in [DOMAIN List -> Threads] : Claims(f)
  BY DEF Claimed
<1>2. \A k \in DOMAIN List : k \in Found(List, path[f[k]])
  BY <1>1 DEF Claims, Found
<1>3. \A k \in DOMAIN List : pc'[f[k]] \in Waiting /\ path'[f[k]] = List[k].path
  BY <1>1, <1>2 DEF Claims
<1>4. Claims(f)'
  BY <1>1, <1>3 DEF Claims
<1> QED
  BY <1>1, <1>4 DEF Claimed

\* A thread takes a link of its path out: who claimed that one gets hers.
LEMMA RemoveClaims ==
  ASSUME Claimed, List \in Seq(Entry),
         NEW t \in Threads, pc[t] \in Waiting,
         Found(List, path[t]) # {}, List' = Without(List, First(List, path[t])),
         \A u \in Threads \ {t} : pc'[u] = pc[u] /\ path'[u] = path[u]
  PROVE  Claimed'
<1> DEFINE k == First(List, path[t])
<1>1. PICK f \in [DOMAIN List -> Threads] : Claims(f)
  BY DEF Claimed
<1>2. k \in DOMAIN List /\ List[k].path = path[t]
  BY FirstFound
<1>3. /\ DOMAIN List' = 1..(Len(List) - 1)
      /\ \A j \in 1..(Len(List) - 1) : List'[j] = IF j < k THEN List[j] ELSE List[j + 1]
  BY <1>2, WithoutItem
<1> HIDE DEF k
<1> DEFINE old(j) == IF j < k THEN j ELSE j + 1
           g == [j \in 1..(Len(List) - 1) |-> IF f[old(j)] = t THEN f[k] ELSE f[old(j)]]
<1>4. /\ \A j \in 1..(Len(List) - 1) : old(j) \in DOMAIN List /\ old(j) # k
      /\ \A i, j \in 1..(Len(List) - 1) : old(i) = old(j) => i = j
      /\ \A j \in 1..(Len(List) - 1) : List'[j] = List[old(j)]
  BY <1>2, <1>3
<1> HIDE DEF old
<1>5. \A j \in 1..(Len(List) - 1) :
        /\ g[j] \in Threads \ {t} /\ pc[g[j]] \in Waiting
        /\ path[g[j]] = List'[j].path
  BY <1>1, <1>2, <1>4 DEF Claims
<1>6. \A i, j \in 1..(Len(List) - 1) : g[i] = g[j] => i = j
  BY <1>1, <1>2, <1>4 DEF Claims
<1>7. g \in [1..(Len(List) - 1) -> Threads]
  BY <1>5
<1> HIDE DEF g
<1>8. PICK h : h = g
  OBVIOUS
<1>9. h \in [DOMAIN List' -> Threads]
  BY <1>3, <1>7, <1>8
<1>10. \A i, j \in DOMAIN List' : h[i] = h[j] => i = j
  BY <1>3, <1>6, <1>8
<1>11. \A j \in DOMAIN List' : pc'[h[j]] \in Waiting /\ path'[h[j]] = List'[j].path
  BY <1>3, <1>5, <1>8
<1>12. Claims(h)'
  BY <1>9, <1>10, <1>11 DEF Claims
<1> QED
  BY <1>9, <1>12 DEF Claimed

\* A thread pushes a link for its path.
LEMMA PushClaims ==
  ASSUME Claimed, List \in Seq(Entry), NEW x \in Entry,
         NEW t \in Threads, pc[t] \notin Waiting,
         List' = <<x>> \o List, pc'[t] \in Waiting, path'[t] = x.path,
         \A u \in Threads \ {t} : pc'[u] = pc[u] /\ path'[u] = path[u]
  PROVE  Claimed'
<1>1. PICK f \in [DOMAIN List -> Threads] : Claims(f)
  BY DEF Claimed
<1>2. /\ DOMAIN List' = 1..(Len(List) + 1) /\ List'[1] = x
      /\ \A j \in 1..Len(List) : List'[j + 1] = List[j]
  BY WithFront
<1>3. DOMAIN List = 1..Len(List) /\ Len(List) \in Nat
  OBVIOUS
<1>4. \A j \in 1..Len(List) : f[j] # t /\ f[j] \in Threads /\ pc[f[j]] \in Waiting
                              /\ path[f[j]] = List[j].path
  BY <1>1, <1>3 DEF Claims
<1> DEFINE g == [j \in 1..(Len(List) + 1) |-> IF j = 1 THEN t ELSE f[j - 1]]
<1>5. \A j \in 2..(Len(List) + 1) : j - 1 \in 1..Len(List) /\ g[j] = f[j - 1]
                                    /\ List'[j] = List[j - 1]
  BY <1>2, <1>3
<1>6. g[1] = t /\ \A j \in 1..(Len(List) + 1) : j = 1 \/ j \in 2..(Len(List) + 1)
  BY <1>3
<1>7. g \in [1..(Len(List) + 1) -> Threads]
  <2> SUFFICES ASSUME NEW j \in 1..(Len(List) + 1) PROVE g[j] \in Threads
    OBVIOUS
  <2>1. CASE j = 1
    BY <1>6, <2>1
  <2>2. CASE j # 1
    BY <1>4, <1>5, <1>6, <2>2
  <2> QED
    BY <2>1, <2>2
<1> HIDE DEF g
<1>8. \A j \in 1..(Len(List) + 1) : pc'[g[j]] \in Waiting /\ path'[g[j]] = List'[j].path
  <2> SUFFICES ASSUME NEW j \in 1..(Len(List) + 1)
               PROVE  pc'[g[j]] \in Waiting /\ path'[g[j]] = List'[j].path
    OBVIOUS
  <2>1. CASE j = 1
    BY <1>2, <1>6, <2>1
  <2>2. CASE j # 1
    <3>1. /\ j - 1 \in 1..Len(List)
          /\ g[j] = f[j - 1] /\ List'[j] = List[j - 1]
      BY <1>5, <1>6, <2>2
    <3> QED
      BY <1>4, <3>1
  <2> QED
    BY <2>1, <2>2
<1>9. \A i, j \in 1..(Len(List) + 1) : g[i] = g[j] => i = j
  <2> SUFFICES ASSUME NEW i \in 1..(Len(List) + 1), NEW j \in 1..(Len(List) + 1), g[i] = g[j]
               PROVE  i = j
    OBVIOUS
  <2>1. CASE i = 1 \/ j = 1
    BY <1>4, <1>5, <1>6, <2>1
  <2>2. CASE i # 1 /\ j # 1
    <3>1. f[i - 1] = f[j - 1] /\ i - 1 \in DOMAIN List /\ j - 1 \in DOMAIN List
      BY <1>3, <1>5, <1>6, <2>2
    <3>2. i - 1 = j - 1
      BY <1>1, <3>1 DEF Claims
    <3> QED
      BY <3>2
  <2> QED
    BY <2>1, <2>2
<1>10. PICK h : h = g
  OBVIOUS
<1>11. h \in [DOMAIN List' -> Threads]
  BY <1>2, <1>7, <1>10
<1>12. Claims(h)'
  BY <1>2, <1>8, <1>9, <1>10, <1>11 DEF Claims
<1> QED
  BY <1>11, <1>12 DEF Claimed

\* Nobody needs to claim an empty list.
LEMMA EmptyClaims ==
  ASSUME List' = << >>
  PROVE  Claimed'
<1>1. Claims(<< >>)' /\ << >> \in [DOMAIN List' -> Threads]
  BY DEF Claims
<1> QED
  BY <1>1 DEF Claimed
-----------------------------------------------------------------------------
(* Base is invariant until two initialisations race.                       *)

\* Steps of Quiet.
LEMMA QuietBase ==
  ASSUME Base, NEW t \in Threads, Quiet(t)
  PROVE  Base'
<1>1. List' = List /\ lists' = lists /\ env' = env
  BY QuietList
<1>2. \A u \in Threads \ {t} : pc'[u] = pc[u] /\ path'[u] = path[u] /\ given'[u] = given[u]
  BY DEF Quiet, TestEnv, RegisterVfs, LoadNothing, NoSuchVfs, FailEarly, FailLate,
         Opened, OpenJournal, CloseJournal, Close, Base, Goto, Return
<1>3. \/ pc'[t] \notin Opening
      \/ pc[t] \in Opening /\ path'[t] = path[t] /\ given'[t] = given[t]
  BY DEF Quiet, TestEnv, RegisterVfs, LoadNothing, NoSuchVfs, FailEarly, FailLate,
         Opened, OpenJournal, CloseJournal, Close, Base, Goto, Return, Opening, Calling
<1>4. pc'[t] # "assigned"
  BY DEF Quiet, TestEnv, RegisterVfs, LoadNothing, NoSuchVfs, FailEarly, FailLate,
         Opened, OpenJournal, CloseJournal, Close, Base, Goto, Return
<1>5. pc[t] \in Waiting => pc'[t] \in Waiting /\ path'[t] = path[t]
  BY DEF Quiet, TestEnv, RegisterVfs, LoadNothing, NoSuchVfs, FailEarly, FailLate,
         Opened, OpenJournal, CloseJournal, Close, Base, Goto, Return, Waiting, Calling
<1>6. Claimed'
  BY <1>1, <1>2, <1>5, KeepClaims DEF Base
<1>7. vfs' # "none" => env' # NoEnv /\ cbArg' = env'
  <2>1. CASE RegisterVfs(t)
    BY <2>1 DEF RegisterVfs, Base
  <2>2. CASE ~RegisterVfs(t)
    BY <2>2 DEF Quiet, TestEnv, LoadNothing, NoSuchVfs, FailEarly, FailLate,
                Opened, OpenJournal, CloseJournal, Close, Base, envVars
  <2> QED
    BY <2>1, <2>2
<1>8. /\ pc' \in [Threads -> Places]
      /\ path' \in [Threads -> Paths \cup {NoPath}]
      /\ given' \in [Threads -> Buffers \cup {NoBuffer}]
  BY DEF Quiet, TestEnv, RegisterVfs, LoadNothing, NoSuchVfs, FailEarly, FailLate,
         Opened, OpenJournal, CloseJournal, Close, Base, Goto, Return, Places,
         Initialising, Opening
<1>9. {fileMem', journal', dbMem'} \subseteq [Threads -> Buffers \cup {NoBuffer}]
  BY DEF Quiet, TestEnv, RegisterVfs, LoadNothing, NoSuchVfs, FailEarly, FailLate,
         Opened, OpenJournal, CloseJournal, Close, Base
<1>10. \A u \in Threads :
        /\ pc'[u] \in Opening => env' # NoEnv /\ path'[u] \in Paths /\ given'[u] \in Buffers
        /\ pc'[u] = "assigned" => env' # NoEnv
  BY <1>1, <1>2, <1>3, <1>4 DEF Base
<1> QED
  BY <1>1, <1>6, <1>7, <1>8, <1>9, <1>10 DEF Base

\* No step breaks Base unless it is a race.
LEMMA StepBase == Base /\ [Next]_vars /\ ~raced' => Base'
<1> SUFFICES ASSUME Base, [Next]_vars, ~raced' PROVE Base'
  OBVIOUS
<1>1. ASSUME NEW t \in Threads, Quiet(t) PROVE Base'
  BY <1>1, QuietBase
<1>2. ASSUME NEW t \in Threads, NEW p \in Paths, NEW m \in Buffers, Push(t, p, m)
      PROVE  Base'
  <2> DEFINE x == [path |-> p, mem |-> m]
  <2>1. /\ env # NoEnv /\ env' = env /\ DOMAIN lists' = DOMAIN lists
        /\ List' = <<x>> \o List
    BY <1>2, PushList
  <2>2. x \in Entry /\ x.path = p
    BY DEF Entry
  <2> HIDE DEF x
  <2>3. List' \in Seq(Entry)
    BY <2>1, <2>2, WithFront DEF Base
  <2>4. /\ pc[t] = "closed" /\ pc' = [pc EXCEPT ![t] = "pushed"]
        /\ path' = [path EXCEPT ![t] = p] /\ given' = [given EXCEPT ![t] = m]
        /\ UNCHANGED <<vfs, cbArg, fileMem, journal, dbMem>>
    BY <1>2 DEF Push, Goto
  <2>5. Claimed'
    BY <2>1, <2>2, <2>4, PushClaims DEF Base, Waiting
  <2> QED
    BY <2>1, <2>3, <2>4, <2>5 DEF Base, Places, Opening, Initialising
<1>3. ASSUME NEW t \in Threads, Load(t) PROVE Base'
  <2>1. /\ env # NoEnv /\ env' = env /\ DOMAIN lists' = DOMAIN lists
        /\ Found(List, path[t]) # {}
        /\ List' = Without(List, First(List, path[t]))
        /\ fileMem' = [fileMem EXCEPT ![t] = List[First(List, path[t])].mem]
    BY <1>3, LoadList
  <2>2. First(List, path[t]) \in DOMAIN List
    BY <2>1, FirstFound DEF Base
  <2>3. List' \in Seq(Entry) /\ List[First(List, path[t])].mem \in Buffers
    <3>1. List \in Seq(Entry)
      BY DEF Base
    <3>2. List' \in Seq(Entry)
      BY <2>1, <2>2, <3>1, WithoutItem
    <3>3. List[First(List, path[t])] \in Entry
      BY <2>2, <3>1
    <3> QED
      BY <3>2, <3>3 DEF Entry
  <2>4. /\ pc[t] = "pushed" /\ pc' = [pc EXCEPT ![t] = "loaded"]
        /\ UNCHANGED <<path, given, vfs, cbArg, journal, dbMem>>
    BY <1>3 DEF Load, Calling, Goto
  <2>5. Claimed'
    BY <2>1, <2>4, RemoveClaims DEF Base, Waiting
  <2> QED
    BY <2>1, <2>3, <2>4, <2>5 DEF Base, Places, Opening, Initialising
<1>4. ASSUME NEW t \in Threads, CleanUp(t) PROVE Base'
  <2>1. /\ env # NoEnv /\ env' = env /\ DOMAIN lists' = DOMAIN lists
        /\ IF Found(List, path[t]) = {} THEN List' = List
           ELSE List' = Without(List, First(List, path[t]))
    BY <1>4, CleanUpList
  <2>2. /\ pc[t] = "failed" /\ pc' = [pc EXCEPT ![t] = "closed"]
        /\ path' = [path EXCEPT ![t] = NoPath]
        /\ given' = [given EXCEPT ![t] = NoBuffer]
        /\ UNCHANGED <<vfs, cbArg, fileMem, journal, dbMem>>
    BY <1>4 DEF CleanUp, Return, Goto
  <2>3. List' \in Seq(Entry) /\ Claimed'
    <3>1. CASE Found(List, path[t]) = {}
      BY <2>1, <2>2, <3>1, KeepClaims DEF Base
    <3>2. CASE Found(List, path[t]) # {}
      BY <2>1, <2>2, <3>2, FirstFound, WithoutItem, RemoveClaims DEF Base, Waiting
    <3> QED
      BY <3>1, <3>2
  <2> QED
    BY <2>1, <2>2, <2>3 DEF Base, Places, Opening, Initialising
<1>5. ASSUME NEW t \in Threads, AssignEnv(t) PROVE Base'
  <2>1. env = NoEnv /\ vfs = "none" /\ List = << >>
    BY <1>5, NewList
  <2>2. PICK e \in Envs : env' = e /\ lists' = [f \in DOMAIN lists \cup {e} |->
                                             IF f = e THEN << >> ELSE lists[f]]
    BY <1>5 DEF AssignEnv
  <2>3. e # NoEnv /\ DOMAIN lists' = {env'} /\ List' = << >>
    BY <2>1, <2>2, EnvAssumption DEF Base, List
  <2>4. /\ pc[t] = "tested" /\ pc' = [pc EXCEPT ![t] = "assigned"]
        /\ UNCHANGED <<vfs, path, given, fileMem, journal, dbMem>>
    BY <1>5 DEF AssignEnv, Goto
  <2>5. Claimed'
    BY <2>3, EmptyClaims
  <2> QED
    BY <2>1, <2>2, <2>3, <2>4, <2>5, EmptySeq DEF Base, Places, Opening, Initialising
<1>6. CASE EnvFini
  <2>1. env' = NoEnv /\ List' = << >>
    BY <1>6, FiniList
  <2>2. /\ env # NoEnv /\ vfs' = "none" /\ DOMAIN lists' = DOMAIN lists \ {env}
        /\ UNCHANGED locals
        /\ \A t \in Threads : pc[t] \notin Initialising \cup Opening
    BY <1>6 DEF EnvFini
  <2>3. Claimed'
    BY <2>1, EmptyClaims
  <2> QED
    BY <2>1, <2>2, <2>3, EmptySeq DEF Base, locals, Opening, Initialising
<1>7. CASE UNCHANGED vars
  <2>1. UNCHANGED <<envVars, locals>> /\ List' = List
    BY <1>7 DEF vars, envVars, List
  <2>2. Claimed'
    BY <2>1, KeepClaims DEF Base, locals
  <2> QED
    BY <2>1, <2>2 DEF Base, locals, envVars
<1> QED
  BY <1>1, <1>2, <1>3, <1>4, <1>5, <1>6, <1>7 DEF Next, Quiet
-----------------------------------------------------------------------------
(* Links in calm times.                                                    *)

\* No two links have the same path.
LEMMA OneLinkPerPath ==
  ASSUME Base, Links, NEW j \in DOMAIN List, NEW k \in DOMAIN List,
         List[j].path = List[k].path
  PROVE  j = k
<1>1. PICK f \in [DOMAIN List -> Threads] : Claims(f)
  BY DEF Base, Claimed
<1>2. f[j] = f[k]
  BY <1>1 DEF Claims, Links, Waiting, Opening
<1> QED
  BY <1>1, <1>2 DEF Claims

\* The link a waiting thread finds is the one it has pushed.
LEMMA OwnLink ==
  ASSUME Links, NEW t \in Threads, pc[t] \in Opening,
         NEW k \in DOMAIN List, List[k].path = path[t]
  PROVE  pc[t] \in Waiting /\ List[k].mem = given[t]
BY DEF Links, Waiting, Opening

\* What is left when a thread has taken out its link.
LEMMA AfterRemove ==
  ASSUME Base, Links, NEW p, Found(List, p) # {},
         List' = Without(List, First(List, p))
  PROVE  /\ \A j \in DOMAIN List' : \E i \in DOMAIN List :
              List'[j] = List[i] /\ List[i].path # p
         /\ \A q : q # p => (Found(List', q) # {} <=> Found(List, q) # {})
         /\ Found(List', p) = {}
<1> DEFINE k == First(List, p)
<1>1. k \in DOMAIN List /\ List[k].path = p /\ List \in Seq(Entry)
  BY FirstFound DEF Base
<1>2. /\ DOMAIN List' = 1..(Len(List) - 1)
      /\ \A j \in 1..(Len(List) - 1) : List'[j] = IF j < k THEN List[j] ELSE List[j + 1]
  BY <1>1, WithoutItem
<1> HIDE DEF k
<1>3. ASSUME NEW j \in DOMAIN List'
      PROVE  \E i \in DOMAIN List : List'[j] = List[i] /\ List[i].path # p
  <2> DEFINE i == IF j < k THEN j ELSE j + 1
  <2>1. i \in DOMAIN List /\ i # k /\ List'[j] = List[i]
    BY <1>1, <1>2, <1>3
  <2>2. List[i].path # p
    BY <1>1, <2>1, OneLinkPerPath
  <2> QED
    BY <2>1, <2>2
<1>4. ASSUME NEW i \in DOMAIN List, List[i].path # p
      PROVE  \E j \in DOMAIN List' : List'[j] = List[i]
  <2> DEFINE j == IF i < k THEN i ELSE i - 1
  <2>1. i # k
    BY <1>1, <1>4
  <2>2. j \in DOMAIN List' /\ List'[j] = List[i]
    BY <1>1, <1>2, <2>1
  <2> QED
    BY <2>2
<1>5. \A q : q # p => (Found(List', q) # {} <=> Found(List, q) # {})
  BY <1>3, <1>4 DEF Found
<1>6. Found(List', p) = {}
  BY <1>3 DEF Found
<1> QED
  BY <1>3, <1>5, <1>6

\* What a push adds.
LEMMA AfterPush ==
  ASSUME List \in Seq(Entry), NEW x \in Entry, List' = <<x>> \o List
  PROVE  /\ \A j \in DOMAIN List' : List'[j] = x \/ \E i \in DOMAIN List : List'[j] = List[i]
         /\ \A q : Found(List', q) # {} <=> q = x.path \/ Found(List, q) # {}
<1>1. /\ DOMAIN List' = 1..(Len(List) + 1) /\ List'[1] = x
      /\ \A j \in 1..Len(List) : List'[j + 1] = List[j]
  BY WithFront
<1>2. ASSUME NEW j \in DOMAIN List'
      PROVE  List'[j] = x \/ \E i \in DOMAIN List : List'[j] = List[i]
  <2>1. j = 1 \/ (j - 1 \in 1..Len(List) /\ (j - 1) + 1 = j)
    BY <1>1
  <2>2. CASE j - 1 \in 1..Len(List) /\ (j - 1) + 1 = j
    <3>1. List'[j] = List[j - 1]
      BY <1>1, <2>2
    <3> QED
      BY <2>2, <3>1
  <2> QED
    BY <1>1, <2>1, <2>2
<1>3. ASSUME NEW i \in DOMAIN List
      PROVE  \E j \in DOMAIN List' : List'[j] = List[i]
  <2>1. i \in 1..Len(List) /\ i + 1 \in DOMAIN List'
    BY <1>1
  <2> QED
    BY <1>1, <2>1
<1>4. 1 \in DOMAIN List' /\ List'[1] = x
  BY <1>1
<1>5. ASSUME NEW q
      PROVE  Found(List', q) # {} <=> q = x.path \/ Found(List, q) # {}
  <2>1. ASSUME Found(List', q) # {} PROVE q = x.path \/ Found(List, q) # {}
    <3>1. PICK j \in DOMAIN List' : List'[j].path = q
      BY <2>1 DEF Found
    <3>2. List'[j] = x \/ \E i \in DOMAIN List : List'[j] = List[i]
      BY <1>2
    <3> QED
      BY <3>1, <3>2 DEF Found
  <2>2. ASSUME q = x.path PROVE Found(List', q) # {}
    BY <1>4, <2>2 DEF Found
  <2>3. ASSUME Found(List, q) # {} PROVE Found(List', q) # {}
    <3>1. PICK i \in DOMAIN List : List[i].path = q
      BY <2>3 DEF Found
    <3>2. PICK j \in DOMAIN List' : List'[j] = List[i]
      BY <1>3
    <3> QED
      BY <3>1, <3>2 DEF Found
  <2> QED
    BY <2>1, <2>2, <2>3
<1> QED
  BY <1>2, <1>5
-----------------------------------------------------------------------------
(* Owned is invariant in calm times.                                       *)

Calmer == Base /\ Owned /\ Calm

\* Nothing changes hands.
LEMMA SameOwners ==
  ASSUME Owners, UNCHANGED <<journal, heap, lost>>,
         \A u \in Threads : Mem(u)' = Mem(u) /\ (pc[u] = "failed" => pc'[u] = "failed")
  PROVE  Owners'
BY DEF Owners

\* A thread gives up its buffer: it is freed, or was lost before.
LEMMA DropOwners ==
  ASSUME Owners, NEW t \in Threads, UNCHANGED <<journal, lost>>,
         \A u \in Threads \ {t} : Mem(u)' = Mem(u) /\ pc'[u] = pc[u],
         Mem(t)' = NoBuffer, Mem(t) # NoBuffer,
         \/ Mem(t) \in lost /\ heap' = heap
         \/ Mem(t) \notin lost /\ heap' = heap \ {Mem(t)}
  PROVE  Owners'
<1>1. NoBuffer \notin heap /\ NoBuffer \notin lost
  BY EnvAssumption DEF Owners
<1> QED
  BY <1>1 DEF Owners

\* Threads outside dbmem_open_db: the list and its openers stay as they are.
LEMMA SameLinks ==
  ASSUME Links, List' = List, lost' = lost,
         \A u \in Threads :
           \/ pc'[u] \notin Opening /\ pc[u] \notin Waiting
           \/ pc'[u] = pc[u] /\ path'[u] = path[u] /\ given'[u] = given[u]
  PROVE  Links'
BY DEF Links, Found, Waiting, Opening

\* Steps outside dbmem_open_db.
LEMMA OutsideOwned ==
  ASSUME Calmer, NEW t \in Threads,
         \/ TestEnv(t) \/ AssignEnv(t) \/ RegisterVfs(t)
         \/ (\E m \in Buffers : OpenJournal(t, m)) \/ CloseJournal(t) \/ Close(t),
         ~raced'
  PROVE  Owned'
<1> USE DEF Calmer, Owned
<1>1. /\ List' = List /\ lost' = lost
      /\ pc[t] \notin Opening /\ pc'[t] \notin Opening
      /\ \A u \in Threads \ {t} : pc'[u] = pc[u]
      /\ path' = path /\ given' = given
  <2>1. List' = List
    <3>1. CASE AssignEnv(t)
      BY <3>1, NewList, EnvAssumption DEF AssignEnv, List
    <3>2. CASE ~AssignEnv(t)
      BY <3>2, QuietList DEF Quiet
    <3> QED
      BY <3>1, <3>2
  <2>2. /\ lost' = lost
        /\ pc[t] \notin Opening /\ pc'[t] \notin Opening
        /\ \A u \in Threads \ {t} : pc'[u] = pc[u]
        /\ path' = path /\ given' = given
    BY DEF TestEnv, AssignEnv, RegisterVfs, OpenJournal, CloseJournal, Close,
           Base, Goto, Opening, history
  <2> QED
    BY <2>1, <2>2
<1>2. Links'
  BY <1>1, SameLinks DEF Waiting, Opening
<1>3. ASSUME TestEnv(t) \/ AssignEnv(t) \/ RegisterVfs(t) PROVE Owned'
  <2>1. /\ UNCHANGED <<fileMem, journal, dbMem, memory>>
        /\ pc[t] \notin {"open", "loaded", "failed"} /\ pc'[t] \notin {"open", "loaded"}
    BY <1>3 DEF TestEnv, AssignEnv, RegisterVfs, Goto, Base
  <2>2. \A u \in Threads : Mem(u)' = Mem(u)
    BY <1>1, <2>1 DEF Mem
  <2>3. Owners'
    BY <1>1, <2>1, <2>2, SameOwners DEF memory
  <2>4. Uses'
    BY <1>1, <2>1, <2>2 DEF Uses, memory
  <2> QED
    BY <1>2, <2>1, <2>3, <2>4 DEF memory
<1>4. ASSUME NEW m \in Buffers, OpenJournal(t, m) PROVE Owned'
  <2>1. /\ pc[t] = "open" /\ journal[t] = NoBuffer /\ m \notin heap
        /\ heap' = heap \cup {m} /\ journal' = [journal EXCEPT ![t] = m]
        /\ journal \in [Threads -> Buffers \cup {NoBuffer}]
        /\ UNCHANGED <<pc, given, fileMem, dbMem, badFree, lost>>
    BY <1>4 DEF OpenJournal, Allocate, Base, history
  <2>2. \A u \in Threads : Mem(u)' = Mem(u) /\ Mem(u) \in heap \cup {NoBuffer}
    BY <2>1 DEF Mem, Uses
  <2>3. m # NoBuffer /\ \A u \in Threads : journal[u] # m /\ Mem(u) # m
    BY <2>1, <2>2, EnvAssumption DEF Uses
  <2>4. Owners'
    <3>1. heap' \subseteq Buffers /\ lost' \subseteq heap'
      BY <2>1 DEF Owners
    <3>2. \A u, v \in Threads :
            /\ Mem(u)' = Mem(v)' => u = v \/ Mem(u)' = NoBuffer
            /\ Mem(u)' = journal'[v] => Mem(u)' = NoBuffer
            /\ journal'[u] = journal'[v] => u = v \/ journal'[u] = NoBuffer
      BY <2>1, <2>2, <2>3 DEF Owners
    <3>3. \A u \in Threads :
            /\ journal'[u] \notin lost'
            /\ Mem(u)' \in lost' => pc'[u] = "failed"
      BY <2>1, <2>2, EnvAssumption DEF Owners
    <3>4. ASSUME NEW n \in heap', n \notin lost'
          PROVE  \E u \in Threads : n \in {Mem(u)', journal'[u]}
      <4>1. CASE n = m
        BY <2>1, <4>1
      <4>2. CASE n \in heap
        <5>1. PICK u \in Threads : n \in {Mem(u), journal[u]}
          BY <2>1, <3>4, <4>2 DEF Owners
        <5>2. n # NoBuffer
          BY <4>2, EnvAssumption DEF Owners
        <5>3. n = Mem(u)' \/ n = journal'[u]
          BY <2>1, <2>2, <5>1, <5>2
        <5> QED
          BY <5>3
      <4> QED
        BY <2>1, <4>1, <4>2
    <3> QED
      BY <3>1, <3>2, <3>3, <3>4 DEF Owners
  <2>5. Uses'
    BY <2>1, <2>2, <2>3 DEF Uses
  <2> QED
    BY <1>2, <2>1, <2>4, <2>5
<1>5. ASSUME CloseJournal(t) PROVE Owned'
  <2> DEFINE m == journal[t]
  <2>1. /\ pc[t] = "open" /\ m # NoBuffer
        /\ heap' = heap \ {m} /\ journal' = [journal EXCEPT ![t] = NoBuffer]
        /\ badFree' = (badFree \/ m \notin heap)
        /\ journal \in [Threads -> Buffers \cup {NoBuffer}]
        /\ UNCHANGED <<pc, given, fileMem, dbMem, lost>>
    BY <1>5 DEF CloseJournal, Free, Base, history
  <2>2. m \in heap
    BY <2>1 DEF Uses
  <2>3. \A u \in Threads :
          /\ Mem(u)' = Mem(u) /\ Mem(u) # m
          /\ u # t => journal[u] # m
    BY <2>1 DEF Mem, Owners
  <2>4. m \notin lost
    BY DEF Owners
  <2> HIDE DEF m
  <2>5. Owners'
    <3>1. heap' \subseteq Buffers /\ lost' \subseteq heap'
      BY <2>1, <2>4 DEF Owners
    <3>2. \A u, v \in Threads :
            /\ Mem(u)' = Mem(v)' => u = v \/ Mem(u)' = NoBuffer
            /\ Mem(u)' = journal'[v] => Mem(u)' = NoBuffer
            /\ journal'[u] = journal'[v] => u = v \/ journal'[u] = NoBuffer
      BY <2>1, <2>3 DEF Owners
    <3>3. \A u \in Threads :
            /\ journal'[u] \notin lost'
            /\ Mem(u)' \in lost' => pc'[u] = "failed"
      BY <2>1, <2>3, EnvAssumption DEF Owners
    <3>4. ASSUME NEW n \in heap', n \notin lost'
          PROVE  \E u \in Threads : n \in {Mem(u)', journal'[u]}
      <4>1. n \in heap /\ n # m
        BY <2>1
      <4>2. PICK u \in Threads : n \in {Mem(u), journal[u]}
        BY <2>1, <3>4, <4>1 DEF Owners
      <4>3. n = Mem(u)' \/ n = journal'[u]
        BY <2>1, <2>3, <4>1, <4>2 DEF m
      <4> QED
        BY <4>3
    <3> QED
      BY <3>1, <3>2, <3>3, <3>4 DEF Owners
  <2>6. \A u \in Threads : journal'[u] \in heap' \/ journal'[u] = NoBuffer
    BY <2>1, <2>3 DEF Uses
  <2>7. \A u \in Threads :
          /\ pc'[u] \in Opening => given'[u] \in heap'
          /\ pc'[u] = "open" => dbMem'[u] \in heap'
    BY <2>1, <2>3 DEF Uses, Mem, Opening
  <2>8. Uses'
    BY <2>1, <2>3, <2>6, <2>7 DEF Uses
  <2> QED
    BY <1>2, <2>1, <2>2, <2>5, <2>8
<1>6. ASSUME Close(t) PROVE Owned'
  <2> DEFINE m == dbMem[t]
  <2>1. /\ pc[t] = "open" /\ journal[t] = NoBuffer
        /\ pc' = [pc EXCEPT ![t] = "closed"]
        /\ fileMem' = [fileMem EXCEPT ![t] = NoBuffer]
        /\ dbMem' = [dbMem EXCEPT ![t] = NoBuffer]
        /\ heap' = heap \ {m} /\ badFree' = (badFree \/ m \notin heap)
        /\ UNCHANGED <<given, journal, lost>>
        /\ pc \in [Threads -> Places]
        /\ {fileMem, dbMem} \subseteq [Threads -> Buffers \cup {NoBuffer}]
    BY <1>6 DEF Close, Goto, Free, Base, history
  <2>2. m \in heap /\ Mem(t) = m /\ Mem(t)' = NoBuffer
    BY <2>1 DEF Uses, Mem, Opening
  <2>3. m # NoBuffer /\ m \notin lost
    BY <2>1, <2>2, EnvAssumption DEF Owners
  <2>4. \A u \in Threads \ {t} :
          Mem(u)' = Mem(u) /\ Mem(u) # m /\ pc'[u] = pc[u]
    BY <2>1, <2>2, <2>3 DEF Mem, Owners
  <2>5. \A u \in Threads : journal[u] # m
    BY <2>2, <2>3 DEF Owners
  <2> HIDE DEF m
  <2>6. Owners'
    BY <2>1, <2>2, <2>3, <2>4, DropOwners
  <2>7. Uses'
    <3> SUFFICES ASSUME NEW u \in Threads
                 PROVE  /\ pc'[u] \in Opening => given'[u] \in heap'
                        /\ fileMem'[u] = IF pc'[u] \in {"loaded", "open"} THEN Mem(u)' ELSE NoBuffer
                        /\ IF pc'[u] = "open" THEN dbMem'[u] \in heap' ELSE dbMem'[u] = NoBuffer
                        /\ journal'[u] \in heap' \/ journal'[u] = NoBuffer
                        /\ journal'[u] # NoBuffer => pc'[u] = "open"
      BY DEF Uses
    <3>1. CASE u = t
      BY <2>1, <3>1 DEF Opening
    <3>2. CASE u # t
      BY <2>1, <2>4, <2>5, <3>2 DEF Uses, Mem, Opening
    <3> QED
      BY <3>1, <3>2
  <2> QED
    BY <1>2, <2>1, <2>2, <2>6, <2>7
<1> QED
  BY <1>3, <1>4, <1>5, <1>6

\* A push on a path nobody else is opening.
LEMMA PushOwned ==
  ASSUME Calmer, NEW t \in Threads, NEW p \in Paths, NEW m \in Buffers,
         Push(t, p, m), ~overlap'
  PROVE  Owned'
<1> USE DEF Calmer, Owned
<1> DEFINE x == [path |-> p, mem |-> m]
<1>1. /\ pc[t] = "closed" /\ pc' = [pc EXCEPT ![t] = "pushed"]
      /\ path' = [path EXCEPT ![t] = p] /\ given' = [given EXCEPT ![t] = m]
      /\ m \notin heap /\ heap' = heap \cup {m}
      /\ UNCHANGED <<fileMem, journal, dbMem, badFree, lost>>
      /\ pc \in [Threads -> Places]
      /\ path \in [Threads -> Paths \cup {NoPath}]
      /\ given \in [Threads -> Buffers \cup {NoBuffer}]
  BY DEF Push, Goto, Allocate, Base
<1>2. \A u \in Threads : pc[u] \in Opening => path[u] # p
  BY DEF Push
<1>3. x \in Entry /\ x.path = p /\ x.mem = m /\ List' = <<x>> \o List /\ List \in Seq(Entry)
  BY PushList DEF Entry, Base
<1> HIDE DEF x
<1>4. /\ \A j \in DOMAIN List' : List'[j] = x \/ \E i \in DOMAIN List : List'[j] = List[i]
      /\ \A q : Found(List', q) # {} <=> q = p \/ Found(List, q) # {}
  BY <1>3, AfterPush
<1>5. m # NoBuffer /\ m \notin lost /\ \A u \in Threads : Mem(u) # m /\ journal[u] # m
  BY <1>1, EnvAssumption DEF Owners, Uses, Mem
<1>6. /\ Mem(t) = NoBuffer /\ Mem(t)' = m
      /\ \A u \in Threads \ {t} : Mem(u)' = Mem(u)
  BY <1>1 DEF Mem, Uses, Opening
<1>7. Links'
  <2>1. \A u, v \in Threads :
          {pc'[u], pc'[v]} \subseteq Opening /\ path'[u] = path'[v] => u = v
    BY <1>1, <1>2 DEF Links, Opening
  <2>2. \A j \in DOMAIN List' : \E u \in Threads :
          pc'[u] \in Waiting /\ List'[j].path = path'[u] /\ List'[j].mem = given'[u]
    <3> SUFFICES ASSUME NEW j \in DOMAIN List'
                 PROVE  \E u \in Threads : pc'[u] \in Waiting /\ List'[j].path = path'[u]
                                          /\ List'[j].mem = given'[u]
      OBVIOUS
    <3>1. CASE List'[j] = x
      BY <1>1, <1>3, <3>1 DEF Waiting
    <3>2. ASSUME NEW i \in DOMAIN List, List'[j] = List[i]
          PROVE  \E u \in Threads : pc'[u] \in Waiting /\ List'[j].path = path'[u]
                                   /\ List'[j].mem = given'[u]
      <4>1. PICK u \in Threads : pc[u] \in Waiting /\ List[i].path = path[u]
                                /\ List[i].mem = given[u]
        BY DEF Links
      <4>2. u # t
        BY <1>1, <4>1 DEF Waiting
      <4> QED
        BY <1>1, <3>2, <4>1, <4>2
    <3> QED
      BY <1>4, <3>1, <3>2
  <2>3. \A u \in Threads :
          /\ pc'[u] = "pushed" => Found(List', path'[u]) # {}
          /\ pc'[u] = "failed" => (Found(List', path'[u]) # {} <=> given'[u] \notin lost')
    BY <1>1, <1>2, <1>4 DEF Links, Opening
  <2> QED
    BY <2>1, <2>2, <2>3 DEF Links
<1>8. Uses'
  <2> SUFFICES ASSUME NEW u \in Threads
               PROVE  /\ pc'[u] \in Opening => given'[u] \in heap'
                      /\ fileMem'[u] = IF pc'[u] \in {"loaded", "open"} THEN Mem(u)' ELSE NoBuffer
                      /\ IF pc'[u] = "open" THEN dbMem'[u] \in heap' ELSE dbMem'[u] = NoBuffer
                      /\ journal'[u] \in heap' \/ journal'[u] = NoBuffer
                      /\ journal'[u] # NoBuffer => pc'[u] = "open"
    BY DEF Uses
  <2>1. CASE u = t
    BY <1>1, <2>1 DEF Uses
  <2>2. CASE u # t
    BY <1>1, <1>6, <2>2 DEF Uses
  <2> QED
    BY <2>1, <2>2
<1>9. Owners'
  <2>1. heap' \subseteq Buffers /\ lost' \subseteq heap'
    BY <1>1 DEF Owners
  <2>2. \A u, v \in Threads :
          /\ Mem(u)' = Mem(v)' => u = v \/ Mem(u)' = NoBuffer
          /\ Mem(u)' = journal'[v] => Mem(u)' = NoBuffer
          /\ journal'[u] = journal'[v] => u = v \/ journal'[u] = NoBuffer
    BY <1>1, <1>5, <1>6 DEF Owners
  <2>3. \A u \in Threads :
          /\ journal'[u] \notin lost'
          /\ Mem(u)' \in lost' => pc'[u] = "failed"
    BY <1>1, <1>5, <1>6 DEF Owners
  <2>4. ASSUME NEW n \in heap', n \notin lost'
        PROVE  \E u \in Threads : n \in {Mem(u)', journal'[u]}
    <3>1. CASE n = m
      BY <1>6, <3>1
    <3>2. CASE n \in heap
      <4>1. PICK u \in Threads : n \in {Mem(u), journal[u]}
        BY <1>1, <2>4, <3>2 DEF Owners
      <4>2. n # NoBuffer
        BY <3>2, EnvAssumption DEF Owners
      <4>3. n = Mem(u)' \/ n = journal'[u]
        BY <1>1, <1>6, <4>1, <4>2
      <4> QED
        BY <4>3
    <3> QED
      BY <1>1, <3>1, <3>2
  <2> QED
    BY <2>1, <2>2, <2>3, <2>4 DEF Owners
<1> QED
  BY <1>1, <1>7, <1>8, <1>9

\* load_cb: in calm times a thread gets its own buffer.
LEMMA LoadOwned ==
  ASSUME Calmer, NEW t \in Threads, Load(t)
  PROVE  Owned'
<1> USE DEF Calmer, Owned
<1> DEFINE k == First(List, path[t])
<1>1. /\ Found(List, path[t]) # {} /\ List' = Without(List, k)
      /\ fileMem' = [fileMem EXCEPT ![t] = List[k].mem]
  BY LoadList
<1>2. /\ pc[t] = "pushed" /\ pc' = [pc EXCEPT ![t] = "loaded"]
      /\ UNCHANGED <<path, given, journal, dbMem, heap, badFree, lost>>
      /\ pc \in [Threads -> Places]
      /\ {fileMem} \subseteq [Threads -> Buffers \cup {NoBuffer}]
  BY DEF Load, Calling, Goto, Base, memory, history
<1>3. k \in DOMAIN List /\ List[k].path = path[t]
  BY <1>1, FirstFound DEF Base
<1>4. List[k].mem = given[t]
  BY <1>2, <1>3, OwnLink DEF Opening
<1>5. /\ \A j \in DOMAIN List' : \E i \in DOMAIN List :
           List'[j] = List[i] /\ List[i].path # path[t]
      /\ \A q : q # path[t] => (Found(List', q) # {} <=> Found(List, q) # {})
  BY <1>1, AfterRemove
<1> HIDE DEF k
<1>6. \A u \in Threads : Mem(u)' = Mem(u) /\ (pc[u] = "failed" => pc'[u] = "failed")
  BY <1>2 DEF Mem, Opening
<1>7. \A u \in Threads \ {t} : pc[u] \in Opening => path[u] # path[t]
  BY <1>2 DEF Links, Opening
<1>8. Links'
  <2>1. \A u, v \in Threads :
          {pc'[u], pc'[v]} \subseteq Opening /\ path'[u] = path'[v] => u = v
    BY <1>2, <1>7 DEF Links
  <2>2. \A j \in DOMAIN List' : \E u \in Threads :
          pc'[u] \in Waiting /\ List'[j].path = path'[u] /\ List'[j].mem = given'[u]
    <3> SUFFICES ASSUME NEW j \in DOMAIN List'
                 PROVE  \E u \in Threads : pc'[u] \in Waiting /\ List'[j].path = path'[u]
                                          /\ List'[j].mem = given'[u]
      OBVIOUS
    <3>1. PICK i \in DOMAIN List : List'[j] = List[i] /\ List[i].path # path[t]
      BY <1>5
    <3>2. PICK u \in Threads : pc[u] \in Waiting /\ List[i].path = path[u]
                              /\ List[i].mem = given[u]
      BY DEF Links
    <3> QED
      BY <1>2, <3>1, <3>2
  <2>3. \A u \in Threads :
          /\ pc'[u] = "pushed" => Found(List', path'[u]) # {}
          /\ pc'[u] = "failed" => (Found(List', path'[u]) # {} <=> given'[u] \notin lost')
    BY <1>2, <1>5, <1>7 DEF Links, Opening
  <2> QED
    BY <2>1, <2>2, <2>3 DEF Links
<1>9. Uses'
  BY <1>1, <1>2, <1>4, <1>6 DEF Uses, Mem, Opening
<1>10. Owners'
  BY <1>2, <1>6, SameOwners
<1> QED
  BY <1>2, <1>8, <1>9, <1>10

\* In calm times load_cb finds a link.
LEMMA LoadFinds ==
  ASSUME Calmer, NEW t \in Threads, Calling(t)
  PROVE  Found(lists[cbArg], path[t]) # {}
BY DEF Calmer, Base, Owned, Links, Calling, List

\* An open that fails before load_cb was called.
LEMMA FailEarlyOwned ==
  ASSUME Calmer, NEW t \in Threads, NoSuchVfs(t) \/ LoadNothing(t) \/ FailEarly(t)
  PROVE  Owned'
<1> USE DEF Calmer, Owned
<1>1. List' = List
  BY QuietList DEF Quiet
<1>2. ~LoadNothing(t)
  BY LoadFinds DEF LoadNothing
<1>3. /\ pc[t] = "pushed" /\ pc' = [pc EXCEPT ![t] = "failed"]
      /\ UNCHANGED <<path, given, fileMem, journal, dbMem, heap, badFree, lost>>
      /\ pc \in [Threads -> Places]
  BY <1>2 DEF NoSuchVfs, FailEarly, Calling, Goto, Base, memory, history
<1>4. \A u \in Threads : Mem(u)' = Mem(u) /\ (pc[u] = "failed" => pc'[u] = "failed")
  BY <1>3 DEF Mem, Opening
<1>5. given[t] \notin lost
  BY <1>3 DEF Owners, Mem, Opening
<1>6. Links'
  <2>1. \A p : Found(List', p) = Found(List, p)
    BY <1>1 DEF Found
  <2> QED
    BY <1>1, <1>3, <1>5, <2>1 DEF Links, Waiting, Opening
<1>7. Uses'
  BY <1>3, <1>4 DEF Uses, Opening
<1>8. Owners'
  BY <1>3, <1>4, SameOwners
<1> QED
  BY <1>3, <1>6, <1>7, <1>8

\* An open that fails after load_cb: the buffer is lost.
LEMMA FailLateOwned ==
  ASSUME Calmer, NEW t \in Threads, FailLate(t)
  PROVE  Owned'
<1> USE DEF Calmer, Owned
<1>1. List' = List
  BY QuietList DEF Quiet
<1>2. /\ pc[t] = "loaded" /\ pc' = [pc EXCEPT ![t] = "failed"]
      /\ fileMem' = [fileMem EXCEPT ![t] = NoBuffer]
      /\ lost' = lost \cup {fileMem[t]}
      /\ UNCHANGED <<path, given, journal, dbMem, heap, badFree>>
      /\ pc \in [Threads -> Places]
      /\ fileMem \in [Threads -> Buffers \cup {NoBuffer}]
  BY DEF FailLate, Goto, Base, memory
<1>3. fileMem[t] = given[t] /\ Mem(t) = given[t] /\ given[t] \in heap
  BY <1>2 DEF Uses, Mem, Opening
<1>4. given[t] # NoBuffer /\ given[t] \notin lost
  BY <1>2, <1>3, EnvAssumption DEF Owners
<1>5. \A u \in Threads : Mem(u)' = Mem(u)
  BY <1>2 DEF Mem, Opening
<1>6. \A u \in Threads \ {t} : pc[u] \in Opening => given[u] # given[t] /\ path[u] # path[t]
  <2>1. \A u \in Threads \ {t} : pc[u] \in Opening => Mem(u) = given[u]
    BY DEF Mem
  <2> QED
    BY <1>2, <1>3, <1>4, <2>1 DEF Owners, Links, Opening
<1>7. Found(List, path[t]) = {}
  BY <1>2, OwnLink DEF Found, Waiting, Opening
<1>8. Links'
  <2>1. \A p : Found(List', p) = Found(List, p)
    BY <1>1 DEF Found
  <2>2. \A u, v \in Threads :
          {pc'[u], pc'[v]} \subseteq Opening /\ path'[u] = path'[v] => u = v
    BY <1>2, <1>6 DEF Links
  <2>3. \A j \in DOMAIN List' : \E u \in Threads :
          pc'[u] \in Waiting /\ List'[j].path = path'[u] /\ List'[j].mem = given'[u]
    BY <1>1, <1>2 DEF Links, Waiting
  <2>4. \A u \in Threads :
          /\ pc'[u] = "pushed" => Found(List', path'[u]) # {}
          /\ pc'[u] = "failed" => (Found(List', path'[u]) # {} <=> given'[u] \notin lost')
    BY <1>2, <1>3, <1>6, <1>7, <2>1 DEF Links, Opening
  <2> QED
    BY <2>2, <2>3, <2>4 DEF Links
<1>9. Uses'
  BY <1>2, <1>3, <1>5 DEF Uses, Opening
<1>10. Owners'
  <2>1. \A u \in Threads : u # t => Mem(u) # given[t]
    BY <1>3, <1>4 DEF Owners
  <2>2. \A u \in Threads : journal[u] # given[t]
    BY <1>3, <1>4 DEF Owners
  <2> QED
    BY <1>2, <1>3, <1>5, <2>1, <2>2 DEF Owners
<1> QED
  BY <1>2, <1>8, <1>9, <1>10

\* dbmem_open_db returns the caller's own buffer.
LEMMA OpenedOwned ==
  ASSUME Calmer, NEW t \in Threads, Opened(t)
  PROVE  Owned'
<1> USE DEF Calmer, Owned
<1>1. List' = List
  BY QuietList DEF Quiet
<1>2. /\ pc[t] = "loaded" /\ pc' = [pc EXCEPT ![t] = "open"]
      /\ path' = [path EXCEPT ![t] = NoPath] /\ given' = [given EXCEPT ![t] = NoBuffer]
      /\ dbMem' = [dbMem EXCEPT ![t] = given[t]]
      /\ UNCHANGED <<fileMem, journal, heap, badFree, lost>>
      /\ pc \in [Threads -> Places]
      /\ {given, dbMem} \subseteq [Threads -> Buffers \cup {NoBuffer}]
      /\ path \in [Threads -> Paths \cup {NoPath}]
  BY DEF Opened, Return, Goto, Base, memory, history
<1>3. \A u \in Threads : Mem(u)' = Mem(u) /\ (pc[u] = "failed" => pc'[u] = "failed")
  BY <1>2 DEF Mem, Opening
<1>4. Links'
  BY <1>1, <1>2, SameLinks DEF Opening, Waiting
<1>5. Uses'
  BY <1>2, <1>3 DEF Uses, Mem, Opening
<1>6. Owners'
  BY <1>2, <1>3, SameOwners
<1> QED
  BY <1>2, <1>4, <1>5, <1>6

\* The error path frees the buffer if it is still listed.
LEMMA CleanUpOwned ==
  ASSUME Calmer, NEW t \in Threads, CleanUp(t)
  PROVE  Owned'
<1> USE DEF Calmer, Owned
<1> DEFINE k == First(List, path[t])
<1>1. IF Found(List, path[t]) = {} THEN List' = List /\ UNCHANGED memory
      ELSE List' = Without(List, k) /\ Free({List[k].mem})
  BY CleanUpList
<1>2. /\ pc[t] = "failed" /\ pc' = [pc EXCEPT ![t] = "closed"]
      /\ path' = [path EXCEPT ![t] = NoPath] /\ given' = [given EXCEPT ![t] = NoBuffer]
      /\ UNCHANGED <<fileMem, journal, dbMem, lost>>
      /\ pc \in [Threads -> Places]
      /\ given \in [Threads -> Buffers \cup {NoBuffer}]
      /\ path \in [Threads -> Paths \cup {NoPath}]
  BY DEF CleanUp, Return, Goto, Base, history
<1>3. /\ Mem(t) = given[t] /\ given[t] \in heap /\ given[t] # NoBuffer
      /\ Mem(t)' = NoBuffer
  BY <1>2, EnvAssumption DEF Mem, Uses, Owners, Opening
<1>4. \A u \in Threads \ {t} :
        /\ Mem(u)' = Mem(u) /\ Mem(u) # given[t] /\ pc'[u] = pc[u]
        /\ path'[u] = path[u] /\ given'[u] = given[u]
        /\ pc[u] \in Opening => path[u] # path[t]
  BY <1>2, <1>3 DEF Mem, Owners, Links, Opening
<1>5. \A u \in Threads : journal[u] # given[t]
  BY <1>3 DEF Owners
<1>6. Uses /\ heap \ {given[t]} \subseteq heap' => Uses'
  <2> SUFFICES ASSUME Uses, heap \ {given[t]} \subseteq heap', NEW u \in Threads
               PROVE  /\ pc'[u] \in Opening => given'[u] \in heap'
                      /\ fileMem'[u] = IF pc'[u] \in {"loaded", "open"} THEN Mem(u)' ELSE NoBuffer
                      /\ IF pc'[u] = "open" THEN dbMem'[u] \in heap' ELSE dbMem'[u] = NoBuffer
                      /\ journal'[u] \in heap' \/ journal'[u] = NoBuffer
                      /\ journal'[u] # NoBuffer => pc'[u] = "open"
    BY DEF Uses
  <2>1. CASE u = t
    BY <1>2, <1>5, <2>1 DEF Uses, Opening
  <2>2. CASE u # t
    BY <1>2, <1>4, <1>5, <2>2 DEF Uses, Mem, Opening
  <2> QED
    BY <2>1, <2>2
<1>7. CASE Found(List, path[t]) = {}
  <2>1. List' = List /\ UNCHANGED memory /\ given[t] \in lost
    BY <1>1, <1>2, <1>7 DEF Links
  <2>2. Owners'
    BY <1>2, <1>3, <1>4, <2>1, DropOwners DEF memory
  <2>3. Links'
    <3>1. \A p : Found(List', p) = Found(List, p)
      BY <2>1 DEF Found
    <3>2. \A j \in DOMAIN List' : \E u \in Threads :
            pc'[u] \in Waiting /\ List'[j].path = path'[u] /\ List'[j].mem = given'[u]
      <4> SUFFICES ASSUME NEW j \in DOMAIN List
                   PROVE  \E u \in Threads : pc'[u] \in Waiting /\ List[j].path = path'[u]
                                            /\ List[j].mem = given'[u]
        BY <2>1
      <4>1. PICK u \in Threads : pc[u] \in Waiting /\ List[j].path = path[u]
                                /\ List[j].mem = given[u]
        BY DEF Links
      <4>2. u # t
        BY <1>7, <4>1 DEF Found
      <4> QED
        BY <1>4, <4>1, <4>2
    <3> QED
      BY <1>2, <1>4, <3>1, <3>2 DEF Links, Opening
  <2> QED
    BY <1>2, <1>6, <2>1, <2>2, <2>3 DEF memory
<1>8. CASE Found(List, path[t]) # {}
  <2>1. k \in DOMAIN List /\ List[k].path = path[t]
    BY <1>8, FirstFound DEF Base
  <2>2. List[k].mem = given[t] /\ given[t] \notin lost
    BY <1>2, <1>8, <2>1, OwnLink DEF Opening, Links
  <2>3. heap' = heap \ {given[t]} /\ ~badFree'
    BY <1>1, <1>3, <1>8, <2>2 DEF Free
  <2>4. Owners'
    BY <1>2, <1>3, <1>4, <2>2, <2>3, DropOwners
  <2>5. /\ \A j \in DOMAIN List' : \E i \in DOMAIN List :
             List'[j] = List[i] /\ List[i].path # path[t]
        /\ \A q : q # path[t] => (Found(List', q) # {} <=> Found(List, q) # {})
    BY <1>1, <1>8, AfterRemove
  <2>6. Links'
    <3>1. \A j \in DOMAIN List' : \E u \in Threads :
            pc'[u] \in Waiting /\ List'[j].path = path'[u] /\ List'[j].mem = given'[u]
      <4> SUFFICES ASSUME NEW j \in DOMAIN List'
                   PROVE  \E u \in Threads : pc'[u] \in Waiting /\ List'[j].path = path'[u]
                                            /\ List'[j].mem = given'[u]
        OBVIOUS
      <4>1. PICK i \in DOMAIN List : List'[j] = List[i] /\ List[i].path # path[t]
        BY <2>5
      <4>2. PICK u \in Threads : pc[u] \in Waiting /\ List[i].path = path[u]
                                /\ List[i].mem = given[u]
        BY DEF Links
      <4> QED
        BY <1>4, <4>1, <4>2
    <3>2. \A u, v \in Threads :
            {pc'[u], pc'[v]} \subseteq Opening /\ path'[u] = path'[v] => u = v
      BY <1>2, <1>4 DEF Links, Opening
    <3>3. \A u \in Threads :
            /\ pc'[u] = "pushed" => Found(List', path'[u]) # {}
            /\ pc'[u] = "failed" => (Found(List', path'[u]) # {} <=> given'[u] \notin lost')
      BY <1>2, <1>4, <2>5 DEF Links, Opening
    <3> QED
      BY <3>1, <3>2, <3>3 DEF Links
  <2> QED
    BY <1>6, <2>3, <2>4, <2>6
<1> QED
  BY <1>7, <1>8

\* dbmem_env_fini has nothing to free.
LEMMA FiniOwned ==
  ASSUME Calmer, EnvFini
  PROVE  Owned'
<1> USE DEF Calmer, Owned
<1>1. List = << >> /\ lists[env] = List /\ List' = List
  BY FiniList
<1>2. MemsOf(lists[env]) = {}
  BY <1>1 DEF MemsOf
<1>3. UNCHANGED <<locals, heap, lost>> /\ ~badFree'
  <2>1. Free({}) /\ UNCHANGED <<locals, history>>
    BY <1>2 DEF EnvFini
  <2> QED
    BY <2>1 DEF Free, history
<1>4. Links'
  BY <1>1, <1>3, SameLinks DEF locals
<1>5. \A u \in Threads : Mem(u)' = Mem(u)
  BY <1>3 DEF Mem, locals
<1>6. Owners'
  BY <1>3, <1>5, SameOwners DEF locals
<1>7. Uses'
  BY <1>3, <1>5 DEF Uses, locals
<1> QED
  BY <1>3, <1>4, <1>6, <1>7

\* Every step that stays calm keeps every buffer owned.
LEMMA StepOwned == Calmer /\ [Next]_vars /\ Calm' => Owned'
<1> SUFFICES ASSUME Calmer, [Next]_vars, Calm' PROVE Owned'
  OBVIOUS
<1>1. ~raced' /\ ~overlap'
  BY DEF Calm
<1>2. ASSUME NEW t \in Threads,
             \/ TestEnv(t) \/ AssignEnv(t) \/ RegisterVfs(t)
             \/ (\E m \in Buffers : OpenJournal(t, m)) \/ CloseJournal(t) \/ Close(t)
      PROVE  Owned'
  BY <1>1, <1>2, OutsideOwned
<1>3. ASSUME NEW t \in Threads, NEW p \in Paths, NEW m \in Buffers, Push(t, p, m)
      PROVE  Owned'
  BY <1>1, <1>3, PushOwned
<1>4. ASSUME NEW t \in Threads, Load(t) PROVE Owned'
  BY <1>4, LoadOwned
<1>5. ASSUME NEW t \in Threads, NoSuchVfs(t) \/ LoadNothing(t) \/ FailEarly(t)
      PROVE  Owned'
  BY <1>5, FailEarlyOwned
<1>6. ASSUME NEW t \in Threads, FailLate(t) PROVE Owned'
  BY <1>6, FailLateOwned
<1>7. ASSUME NEW t \in Threads, Opened(t) PROVE Owned'
  BY <1>7, OpenedOwned
<1>8. ASSUME NEW t \in Threads, CleanUp(t) PROVE Owned'
  BY <1>8, CleanUpOwned
<1>9. CASE EnvFini
  BY <1>9, FiniOwned
<1>10. CASE UNCHANGED vars
  <2>1. UNCHANGED <<envVars, locals, memory, history>> /\ List' = List
    BY <1>10 DEF vars, envVars, List
  <2>2. \A u \in Threads : Mem(u)' = Mem(u)
    BY <2>1 DEF Mem, locals
  <2>3. Links'
    BY <2>1, SameLinks DEF Calmer, Owned, locals, history
  <2>4. Owners'
    BY <2>1, <2>2, SameOwners DEF Calmer, Owned, locals, memory, history
  <2> QED
    BY <2>1, <2>2, <2>3, <2>4 DEF Calmer, Owned, Uses, locals, memory
<1> QED
  BY <1>2, <1>3, <1>4, <1>5, <1>6, <1>7, <1>8, <1>9, <1>10 DEF Next

\* Trouble is remembered.
LEMMA HistoryGrows ==
  ASSUME {raced, overlap} \subseteq BOOLEAN, [Next]_vars
  PROVE  /\ {raced', overlap'} \subseteq BOOLEAN
         /\ (raced => raced') /\ (overlap => overlap')
<1> DEFINE Goal == /\ {raced', overlap'} \subseteq BOOLEAN
                   /\ (raced => raced') /\ (overlap => overlap')
<1>1. ASSUME NEW t \in Threads, AssignEnv(t) PROVE Goal
  <2>1. overlap' = overlap /\ raced' = (raced \/ env # NoEnv)
    BY <1>1 DEF AssignEnv
  <2> QED
    BY <2>1
<1>2. ASSUME NEW t \in Threads, NEW p \in Paths, NEW m \in Buffers, Push(t, p, m)
      PROVE  Goal
  <2>1. raced' = raced
        /\ overlap' = (overlap \/ \E u \in Threads : pc[u] \in Opening /\ path[u] = p)
    BY <1>2 DEF Push
  <2> QED
    BY <2>1
<1>3. ASSUME NEW t \in Threads, Load(t) \/ CleanUp(t) \/ Quiet(t) PROVE Goal
  <2>1. UNCHANGED <<raced, overlap>>
    BY <1>3 DEF Quiet, TestEnv, RegisterVfs, Load, LoadNothing, NoSuchVfs, FailEarly,
                FailLate, Opened, CleanUp, OpenJournal, CloseJournal, Close, history
  <2> QED
    BY <2>1
<1>4. ASSUME EnvFini \/ UNCHANGED vars PROVE Goal
  <2>1. UNCHANGED <<raced, overlap>>
    BY <1>4 DEF EnvFini, history, vars
  <2> QED
    BY <2>1
<1> HIDE DEF Goal
<1>5. Goal
  BY <1>1, <1>2, <1>3, <1>4 DEF Next, Quiet
<1> QED
  BY <1>5 DEF Goal

\* The strengthening of the four theorems.
LEMMA InvInvariant == Spec => []Inv
<1>1. Init => Inv
  <2> SUFFICES ASSUME Init PROVE Inv
    OBVIOUS
  <2>1. List = << >> /\ \A p : Found(List, p) = {}
    BY DEF Init, List, Found
  <2>2. Claims(<< >>) /\ << >> \in [DOMAIN List -> Threads]
    BY <2>1 DEF Claims
  <2>3. Base
    <3>1. Claimed
      BY <2>2 DEF Claimed
    <3>2. List \in Seq(Entry) /\ DOMAIN lists = {}
      BY <2>1, EmptySeq DEF Init
    <3> QED
      BY <3>1, <3>2 DEF Init, Base, Places, Initialising, Opening
  <2>4. \A t \in Threads : Mem(t) = NoBuffer
    BY DEF Init, Mem
  <2>5. Owned
    BY <2>1, <2>4 DEF Init, Owned, Links, Uses, Owners, Opening
  <2> QED
    BY <2>3, <2>5 DEF Init, Inv
<1>2. Inv /\ [Next]_vars => Inv'
  <2> SUFFICES ASSUME Inv, [Next]_vars PROVE Inv'
    OBVIOUS
  <2>1. /\ {raced', overlap'} \subseteq BOOLEAN
        /\ (raced => raced') /\ (overlap => overlap')
    BY HistoryGrows DEF Inv
  <2>2. ASSUME ~raced' PROVE Base'
    <3>1. Base
      BY <2>1, <2>2 DEF Inv
    <3> QED
      BY <2>2, <3>1, StepBase
  <2>3. ASSUME Calm' PROVE Owned'
    <3>1. Calm
      BY <2>1, <2>3 DEF Calm
    <3>2. Calmer
      BY <3>1 DEF Inv, Calm, Calmer
    <3> QED
      BY <2>3, <3>2, StepOwned
  <2> QED
    BY <2>1, <2>2, <2>3 DEF Inv
<1> QED
  BY <1>1, <1>2, PTL DEF Spec
-----------------------------------------------------------------------------
(* The theorems.                                                           *)

\* What is listed are the buffers of the list of g_dbmem_env.
LEMMA ListedMems == Base => Listed = MemsOf(List)
BY DEF Base, Listed, MemsOf, List

\* A listed buffer belongs to a thread that waits for it.
LEMMA ListedOwner ==
  ASSUME Base, Links, NEW m \in Listed
  PROVE  \E t \in Threads : pc[t] \in Waiting /\ given[t] = m /\ Mem(t) = m
<1>1. PICK k \in DOMAIN List : List[k].mem = m
  BY ListedMems DEF MemsOf
<1> QED
  BY <1>1 DEF Links, Mem, Waiting, Opening

(* In calm times dbmem_open_db returns the buffer the connection works on, *)
(* and load_cb finds the link that was pushed for it.                      *)
THEOREM CallersGetTheirBuffer == Spec => []OwnBuffer
<1>1. Inv => OwnBuffer
  <2> SUFFICES ASSUME Inv, Calm, NEW t \in Threads
               PROVE  /\ pc[t] = "open" => fileMem[t] = dbMem[t]
                      /\ Calling(t) => Found(lists[cbArg], path[t]) # {}
    BY DEF OwnBuffer
  <2>1. Calmer
    BY DEF Inv, Calm, Calmer
  <2> QED
    BY <2>1, LoadFinds DEF Calmer, Owned, Uses, Mem, Opening
<1> QED
  BY <1>1, InvInvariant, PTL

(* In calm times nothing freed is used, listed, or freed again, whatever   *)
(* opens fail.                                                             *)
THEOREM FreedBuffersAreGone == Spec => []NoUseAfterFree
<1>1. Inv => NoUseAfterFree
  <2> SUFFICES ASSUME Inv, Calm
               PROVE  /\ ~badFree /\ Listed \subseteq heap
                      /\ \A t \in Threads : {fileMem[t], dbMem[t]} \subseteq heap \cup {NoBuffer}
    BY DEF NoUseAfterFree
  <2>1. Base /\ Links /\ Uses /\ ~badFree
    BY DEF Inv, Calm, Owned
  <2>2. Listed \subseteq heap
    BY <2>1, ListedOwner DEF Uses, Waiting, Opening
  <2>3. \A t \in Threads : {fileMem[t], dbMem[t]} \subseteq heap \cup {NoBuffer}
    BY <2>1 DEF Uses, Mem, Opening
  <2> QED
    BY <2>1, <2>2, <2>3
<1> QED
  BY <1>1, InvInvariant, PTL

(* In calm times a buffer is in one place: listed once, or in one file.    *)
THEOREM OneOwnerPerBuffer == Spec => []NoSharing
<1>1. Inv => NoSharing
  <2> SUFFICES ASSUME Inv, Calm
               PROVE  /\ \A e \in DOMAIN lists : \A j, k \in DOMAIN lists[e] :
                           lists[e][j].mem = lists[e][k].mem => j = k
                      /\ \A t \in Threads : {fileMem[t], journal[t]} \cap Listed = {}
                      /\ \A t, u \in Threads :
                           /\ fileMem[t] = fileMem[u] => t = u \/ fileMem[t] = NoBuffer
                           /\ fileMem[t] = journal[u] => fileMem[t] = NoBuffer
    BY DEF NoSharing
  <2>1. Base /\ Links /\ Uses /\ Owners
    BY DEF Inv, Calm, Owned
  <2>2. NoBuffer \notin heap
    BY <2>1, EnvAssumption DEF Owners
  <2>3. ASSUME NEW j \in DOMAIN List, NEW k \in DOMAIN List, List[j].mem = List[k].mem
        PROVE  j = k
    <3>1. PICK t \in Threads : pc[t] \in Waiting /\ List[j].path = path[t] /\ List[j].mem = given[t]
      BY <2>1 DEF Links
    <3>2. PICK u \in Threads : pc[u] \in Waiting /\ List[k].path = path[u] /\ List[k].mem = given[u]
      BY <2>1 DEF Links
    <3>3. Mem(t) = Mem(u) /\ Mem(t) # NoBuffer
      BY <2>1, <2>2, <2>3, <3>1, <3>2 DEF Mem, Uses, Waiting, Opening
    <3>4. t = u
      BY <2>1, <3>3 DEF Owners
    <3> QED
      BY <2>1, <3>1, <3>2, <3>4, OneLinkPerPath
  <2>4. \A e \in DOMAIN lists : \A j, k \in DOMAIN lists[e] :
          lists[e][j].mem = lists[e][k].mem => j = k
    BY <2>1, <2>3 DEF Base, List
  <2>5. ASSUME NEW t \in Threads PROVE {fileMem[t], journal[t]} \cap Listed = {}
    <3> SUFFICES ASSUME NEW m \in Listed, m \in {fileMem[t], journal[t]} PROVE FALSE
      OBVIOUS
    <3>1. PICK u \in Threads : pc[u] \in Waiting /\ given[u] = m /\ Mem(u) = m
      BY <2>1, ListedOwner
    <3>2. m # NoBuffer
      BY <2>1, <2>2, <3>1 DEF Uses, Waiting, Opening
    <3>3. CASE m = fileMem[t]
      <4>1. m = Mem(t) /\ pc[t] \in {"loaded", "open"}
        BY <2>1, <3>2, <3>3 DEF Uses
      <4>2. t = u
        BY <2>1, <3>1, <3>2, <4>1 DEF Owners
      <4> QED
        BY <3>1, <4>1, <4>2 DEF Waiting
    <3>4. CASE m = journal[t]
      BY <2>1, <3>1, <3>2, <3>4 DEF Owners
    <3> QED
      BY <3>3, <3>4
  <2>6. \A t, u \in Threads :
          /\ fileMem[t] = fileMem[u] => t = u \/ fileMem[t] = NoBuffer
          /\ fileMem[t] = journal[u] => fileMem[t] = NoBuffer
    BY <2>1 DEF Uses, Owners
  <2> QED
    BY <2>4, <2>5, <2>6
<1> QED
  BY <1>1, InvInvariant, PTL

(* In calm times only an open that fails after load_cb leaks its buffer;   *)
(* and links never outlive the dbmem_open_db that pushed them.             *)
THEOREM OnlyLateFailuresLeak == Spec => []NoOtherLeak
<1>1. Inv => NoOtherLeak
  <2> SUFFICES ASSUME Inv PROVE NoOtherLeak
    OBVIOUS
  <2>1. ASSUME Calm, NEW m \in heap, m \notin lost, m \notin Listed
        PROVE  \E t \in Threads : m \in {fileMem[t], journal[t]}
    <3>1. Base /\ Links /\ Uses /\ Owners
      BY <2>1 DEF Inv, Calm, Owned
    <3>2. m # NoBuffer
      BY <3>1, EnvAssumption DEF Owners
    <3>3. PICK t \in Threads : m \in {Mem(t), journal[t]}
      BY <2>1, <3>1 DEF Owners
    <3>4. ASSUME m = Mem(t), m # fileMem[t] PROVE FALSE
      <4>1. pc[t] \in Waiting /\ given[t] = m
        BY <3>1, <3>2, <3>4 DEF Uses, Mem, Waiting, Opening
      <4>2. Found(List, path[t]) # {}
        BY <2>1, <3>1, <4>1 DEF Links, Waiting
      <4>3. PICK k \in DOMAIN List : List[k].path = path[t]
        BY <4>2 DEF Found
      <4>4. List[k].mem = m
        BY <3>1, <4>1, <4>3, OwnLink DEF Waiting, Opening
      <4> QED
        BY <2>1, <3>1, <4>4, ListedMems DEF MemsOf
    <3> QED
      BY <3>3, <3>4
  <2>2. ASSUME ~raced, \A t \in Threads : pc[t] \notin Opening PROVE Listed = {}
    <3>1. Base
      BY <2>2 DEF Inv
    <3>2. DOMAIN List = {}
      BY <2>2, <3>1 DEF Base, Claimed, Claims, Waiting, Opening
    <3> QED
      BY <3>1, <3>2, ListedMems DEF MemsOf
  <2> QED
    BY <2>1, <2>2 DEF NoOtherLeak
<1> QED
  BY <1>1, InvInvariant, PTL
=============================================================================
