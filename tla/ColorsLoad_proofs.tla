------------------------- MODULE ColorsLoad_proofs --------------------------
(***************************************************************************)
(* The load of the colours, for any database, any writer that adds and     *)
(* deletes rows while it runs and any bounds: the hashes and the lists     *)
(* agree, a stored colour is missed only when a scan has failed on it, the *)
(* asserts hold, and a crash has one of the causes CrashHasCause names.    *)
(***************************************************************************)
EXTENDS ColorsLoad, FiniteSetTheorems, SequenceTheorems, WellFoundedInduction, TLAPS

(* The inductive invariant.                                                *)

Loading == {"start", "types", "ids"}
Listed == {"check", "loaded", "passed", "failed"}

TypeOK ==
  /\ DOMAIN blobs \subseteq 1..(MaxRows + added)
  /\ \A k \in DOMAIN blobs : blobs[k] \in Row
  /\ added \in 0..MaxAdded /\ deleted \in Nat
  /\ pc \in Loading \cup {"names"} \cup Listed \cup Over
  /\ ids \subseteq Nat
  /\ seen \in Nat /\ qty \in Nat
  /\ cut \in BOOLEAN

\* HashesAgree, and what it rests on: the names are finitely many, each with a
\* colour, and a hex leads to one of them.
HashInv ==
  /\ HashesAgree
  /\ IsFiniteSet(DOMAIN COLORS_HASH)
  /\ DOMAIN COLORS_HASH \subseteq Names
  /\ \A n \in DOMAIN COLORS_HASH : COLOR_NAME_HASH[n] \in Hexes
  /\ \A h \in DOMAIN COLOR_HEX_HASH : COLOR_HEX_HASH[h] \in DOMAIN COLORS_HASH

\* The iterator stands at a row it has not gone past, or has gone past all.
Standing == item \in todo \/ (item = NoName /\ todo = {})

\* The lists while they grow: what is not in them is still to do.
ListInv ==
  /\ pc \in Loading => COLOR_NAME_STRINGS = << >> /\ COLOR_HEX_STRINGS = << >>
  /\ pc \in {"names"} \cup Listed =>
       /\ qty > MinColors
       /\ COLOR_NAME_STRINGS \in Seq(Names) /\ COLOR_HEX_STRINGS \in Seq(Hexes)
       /\ Len(COLOR_HEX_STRINGS) = Len(COLOR_NAME_STRINGS)
       /\ todo \subseteq DOMAIN COLORS_HASH
       /\ Entries(COLOR_NAME_STRINGS) = DOMAIN COLORS_HASH \ todo
       /\ Len(COLOR_NAME_STRINGS) + Cardinality(todo) = qty
       /\ \A k \in DOMAIN COLOR_NAME_STRINGS :
            COLOR_HEX_STRINGS[k] = COLOR_NAME_HASH[COLOR_NAME_STRINGS[k]]
  /\ pc = "names" => Standing
  /\ pc \in Listed => todo = {}

\* A name that was stored and not lost in a scan is loaded, or its type, or the
\* id of one of its rows, is still to come.
StoredInv ==
  /\ StoredIsLoaded
  /\ pc \in {"types", "ids"} /\ deleted = 0 => stored \subseteq Stored
  /\ pc \in {"types", "ids"} /\ deleted = 0 /\ ~cut =>
       \A n \in stored \ missed :
         \/ n \in DOMAIN COLORS_HASH \/ TypeOf[n] \in typeids
         \/ pc = "ids" /\ \E k \in ids : blobs[k].name = n

\* As long as nothing is deleted, the ids are those of rows; the first row that
\* is loaded is counted.
CauseInv ==
  /\ deleted = 0 => ids \subseteq DOMAIN blobs
  /\ pc = "ids" /\ qty = 0 => seen = 0
  /\ pc \in {"start", "types"} /\ qty = 0 => ids = {}
  /\ CrashHasCause

-----------------------------------------------------------------------------
(* Lemmas about the operators of the model.                                *)

\* A non-empty set of naturals has a least element.
LEMMA LeastOfNaturals ==
  ASSUME NEW S, S \subseteq Nat, S # {}
  PROVE  \E k \in S : \A j \in S : k <= j
<1>1. PICK k \in S : \A j \in S : <<j, k>> \notin OpToRel(<, Nat)
  BY NatLessThanWellFounded, WFMin, Zenon
<1>2. \A j \in S : ~(j < k)
  BY <1>1 DEF OpToRel
<1> QED
  BY <1>2

\* The next id is one of those to come.
LEMMA NextIdFacts ==
  ASSUME TypeOK, ids # {}
  PROVE  NextId \in ids
<1>1. \E k \in ids : \A j \in ids : k <= j
  BY LeastOfNaturals DEF TypeOK
<1> QED
  BY <1>1 DEF NextId

\* A row that is added gets an id no row has.
LEMMA NextRowidFacts ==
  ASSUME TypeOK, added < MaxAdded
  PROVE  NextRowid \in 1..(MaxRows + added + 1) /\ NextRowid \notin DOMAIN blobs
<1>0. /\ MaxRows \in Nat /\ MaxAdded \in Nat /\ added \in Nat
      /\ DOMAIN blobs \subseteq 1..(MaxRows + added)
  BY LoadAssumption DEF TypeOK
<1> DEFINE free == {k \in Nat \ {0} : \A j \in DOMAIN blobs : j < k}
<1>1. MaxRows + added + 1 \in free
  BY <1>0
<1>2. PICK k \in free : \A j \in free : k <= j
  <2>1. free \subseteq Nat /\ free # {}
    BY <1>1
  <2> QED
    BY <2>1, LeastOfNaturals
<1>3. k \in 1..(MaxRows + added + 1) /\ \A j \in DOMAIN blobs : j < k
  BY <1>0, <1>1, <1>2
<1>4. k = 1 \/ k - 1 \in DOMAIN blobs
  <2>1. SUFFICES ASSUME k # 1, k - 1 \notin DOMAIN blobs PROVE FALSE
    OBVIOUS
  <2>2. k - 1 \in Nat \ {0}
    BY <1>0, <1>3, <2>1
  <2>3. ASSUME NEW j \in DOMAIN blobs PROVE j < k - 1
    BY <1>0, <1>3, <2>1, <2>3
  <2>4. k - 1 \in free
    BY <2>2, <2>3
  <2> QED
    BY <1>2, <1>3, <2>4
<1>5. \E m \in 1..(MaxRows + MaxAdded) :
        (\A j \in DOMAIN blobs : j < m) /\ (m = 1 \/ m - 1 \in DOMAIN blobs)
  BY <1>0, <1>3, <1>4
<1> DEFINE next == NextRowid
<1>6. /\ next \in 1..(MaxRows + MaxAdded) /\ \A j \in DOMAIN blobs : j < next
      /\ next = 1 \/ next - 1 \in DOMAIN blobs
  BY <1>5 DEF NextRowid
<1> HIDE DEF next
<1>7. next \in 1..(MaxRows + added + 1) /\ next \notin DOMAIN blobs
  BY <1>0, <1>6
<1> QED
  BY <1>7 DEF next

\* Putting a pair into a hash.
LEMMA PutFacts ==
  ASSUME NEW f, NEW x, NEW y
  PROVE  /\ DOMAIN Put(f, x, y) = DOMAIN f \cup {x}
         /\ Put(f, x, y)[x] = y
         /\ \A z \in DOMAIN f : z # x => Put(f, x, y)[z] = f[z]
BY DEF Put

\* What a row is.
LEMMA RowFacts ==
  ASSUME NEW row \in Row
  PROVE  /\ row = [name |-> row.name, hex |-> row.hex]
         /\ row.hex \in Hexes \cup {NoHex}
BY DEF Row

\* A row that is loaded under a new name has a name and a hex.
LEMMA LoadableFacts ==
  ASSUME TypeOK, NEW k, Loadable(k)
  PROVE  /\ k \in DOMAIN blobs /\ blobs[k].name \in Names
         /\ blobs[k].name \notin DOMAIN COLORS_HASH =>
              /\ blobs[k] = [name |-> blobs[k].name, hex |-> blobs[k].hex]
              /\ blobs[k].hex \in Hexes
<1>1. k \in DOMAIN blobs /\ blobs[k] \in Row
  BY DEF Loadable, TypeOK
<1> QED
  BY <1>1, RowFacts DEF Loadable

\* A scan returns some of the rows.
LEMMA ScanFacts ==
  ASSUME NEW rows, NEW S \in Scans(rows)
  PROVE  S \subseteq rows
BY DEF Scans
-----------------------------------------------------------------------------
(* Types.                                                                  *)

\* Before the load every variable has its type.
LEMMA InitType == Init => TypeOK
<1> SUFFICES ASSUME Init PROVE TypeOK
  OBVIOUS
<1>1. PICK n \in 0..MaxRows : blobs \in [1..n -> Row]
  BY DEF Init
<1>2. MaxRows \in Nat /\ MaxAdded \in Nat
  BY LoadAssumption
<1>3. DOMAIN blobs \subseteq 1..MaxRows /\ \A k \in DOMAIN blobs : blobs[k] \in Row
  BY <1>1, <1>2
<1>4. /\ added = 0 /\ deleted = 0 /\ qty = 0 /\ seen = 0 /\ pc = "start" /\ ids = {} /\ cut = FALSE
      /\ MaxRows + added = MaxRows /\ added \in 0..MaxAdded
  BY <1>2 DEF Init
<1> QED
  BY <1>3, <1>4 DEF TypeOK, Loading

\* The types are kept by every step.
LEMMA TypeStep ==
  ASSUME TypeOK, [Next]_vars
  PROVE  TypeOK'
<1>0. MaxRows \in Nat /\ MaxAdded \in Nat
  BY LoadAssumption
<1>1. CASE Add
  <2>1. PICK row \in Row : blobs' = Put(blobs, NextRowid, row)
    BY <1>1 DEF Add
  <2>2. added < MaxAdded /\ added' = added + 1
    BY <1>1 DEF Add
  <2>3. NextRowid \in 1..(MaxRows + added + 1)
    BY <2>2, NextRowidFacts
  <2> DEFINE k == NextRowid
  <2>4. DOMAIN blobs' = DOMAIN blobs \cup {k} /\ \A j \in DOMAIN blobs' : blobs'[j] \in Row
    BY <2>1 DEF Put, TypeOK
  <2> HIDE DEF k
  <2>5. DOMAIN blobs' \subseteq 1..(MaxRows + added') /\ added' \in 0..MaxAdded
    <3>1. added \in 0..MaxAdded /\ DOMAIN blobs \subseteq 1..(MaxRows + added)
      BY DEF TypeOK
    <3> QED
      BY <1>0, <2>2, <2>3, <2>4, <3>1 DEF k
  <2> QED
    BY <1>1, <2>4, <2>5 DEF Add, history, TypeOK
<1>2. CASE Delete
  <2>1. /\ DOMAIN blobs' \subseteq DOMAIN blobs
        /\ \A j \in DOMAIN blobs' : blobs'[j] \in Row
    BY <1>2 DEF Delete, TypeOK
  <2> QED
    BY <1>2, <2>1 DEF Delete, history, TypeOK
<1>3. CASE LoadRow
  <2>1. qty' \in Nat /\ seen' \in Nat
    BY <1>3 DEF LoadRow, HashRow, TypeOK
  <2> QED
    BY <1>3, <2>1 DEF LoadRow, writer, history, TypeOK
<1>4. CASE ReadIds
  <2>1. ids' \subseteq DOMAIN blobs
    BY <1>4, ScanFacts DEF ReadIds, OfType
  <2>2. DOMAIN blobs \subseteq Nat
    BY DEF TypeOK
  <2> QED
    BY <1>4, <2>1, <2>2 DEF ReadIds, writer, TypeOK, Loading
<1>5. CASE ReadTypeids
  BY <1>5 DEF ReadTypeids, writer, TypeOK, Loading
<1>6. CASE LoadBadRow \/ ReadFails \/ EndOfIds \/ EndOfTypes
  <2>1. cut' \in BOOLEAN
    BY <1>6 DEF LoadBadRow, ReadFails, EndOfIds, EndOfTypes, history, TypeOK
  <2>2. pc' \in {"types", "names", "aborted", "crashed"}
    BY <1>6 DEF LoadBadRow, ReadFails, EndOfIds, EndOfTypes
  <2>3. UNCHANGED <<blobs, added, deleted, ids, seen, qty>>
    BY <1>6 DEF LoadBadRow, ReadFails, EndOfIds, EndOfTypes, writer
  <2> QED
    BY <2>1, <2>2, <2>3 DEF TypeOK, Loading, Over
<1>7. CASE LoadName \/ EndOfNames \/ CheckLoad \/ TestColors
  <2>1. pc' = pc \/ pc' \in Listed \cup Over
    BY <1>7 DEF LoadName, EndOfNames, CheckLoad, TestColors, Listed, Over
  <2>2. UNCHANGED <<blobs, added, deleted, ids, seen, qty, cut>>
    BY <1>7 DEF LoadName, EndOfNames, CheckLoad, TestColors, writer, history
  <2> QED
    BY <2>1, <2>2 DEF TypeOK
<1>8. CASE UNCHANGED vars
  BY <1>8 DEF vars, writer, history, TypeOK
<1> QED
  BY <1>1, <1>2, <1>3, <1>4, <1>5, <1>6, <1>7, <1>8 DEF Next, Load
-----------------------------------------------------------------------------
(* The hashes.                                                             *)

\* The hashes start empty.
LEMMA InitHash == Init => HashInv
<1> SUFFICES ASSUME Init PROVE HashInv
  OBVIOUS
<1>1. /\ DOMAIN COLORS_HASH = {} /\ DOMAIN COLOR_NAME_HASH = {}
      /\ DOMAIN COLOR_HEX_HASH = {} /\ qty = 0
  BY DEF Init
<1>2. qty = Cardinality(DOMAIN COLORS_HASH) /\ IsFiniteSet(DOMAIN COLORS_HASH)
  BY <1>1, FS_EmptySet
<1> QED
  BY <1>1, <1>2 DEF HashInv, HashesAgree

\* A new row goes into the three hashes; only LoadRow touches them.
LEMMA HashStep ==
  ASSUME TypeOK, HashInv, [Next]_vars
  PROVE  HashInv'
<1>1. CASE UNCHANGED <<hashes, qty>>
  BY <1>1 DEF hashes, HashInv, HashesAgree
<1>2. CASE LoadRow /\ ~UNCHANGED <<hashes, qty>>
  <2> DEFINE row == blobs[NextId]
             n == row.name
             hex == row.hex
             names == DOMAIN COLORS_HASH
  <2>1. Loadable(NextId) /\ HashRow(row)
    BY <1>2 DEF LoadRow
  <2>2. n \notin DOMAIN COLORS_HASH
    BY <1>2, <2>1 DEF HashRow
  <2>3. row = [name |-> n, hex |-> hex] /\ hex \in Hexes /\ n \in Names
    BY <2>1, <2>2, LoadableFacts
  <2>4. /\ n \notin names
        /\ COLORS_HASH' = Put(COLORS_HASH, n, row)
        /\ COLOR_NAME_HASH' = Put(COLOR_NAME_HASH, n, hex)
        /\ COLOR_HEX_HASH' = Put(COLOR_HEX_HASH, hex, n)
        /\ qty' = qty + 1
    BY <1>2, <2>1 DEF HashRow
  <2>5. /\ qty = Cardinality(names) /\ IsFiniteSet(names) /\ names \subseteq Names
        /\ DOMAIN COLOR_NAME_HASH = names
        /\ \A m \in names : COLORS_HASH[m] = [name |-> m, hex |-> COLOR_NAME_HASH[m]]
        /\ \A m \in names : COLOR_NAME_HASH[m] \in Hexes
        /\ DOMAIN COLOR_HEX_HASH = {COLOR_NAME_HASH[m] : m \in names}
        /\ \A h \in DOMAIN COLOR_HEX_HASH :
             COLOR_HEX_HASH[h] \in names /\ COLOR_NAME_HASH[COLOR_HEX_HASH[h]] = h
    BY DEF HashInv, HashesAgree
  <2> HIDE DEF row, n, hex
  <2>6. /\ DOMAIN COLORS_HASH' = names \cup {n} /\ COLORS_HASH'[n] = row
        /\ \A m \in names : COLORS_HASH'[m] = COLORS_HASH[m]
    <3>1. /\ DOMAIN Put(COLORS_HASH, n, row) = names \cup {n}
          /\ Put(COLORS_HASH, n, row)[n] = row
          /\ \A m \in names : m # n => Put(COLORS_HASH, n, row)[m] = COLORS_HASH[m]
      BY DEF Put
    <3> QED
      BY <2>4, <3>1
  <2>7. /\ DOMAIN COLOR_NAME_HASH' = names \cup {n} /\ COLOR_NAME_HASH'[n] = hex
        /\ \A m \in names : COLOR_NAME_HASH'[m] = COLOR_NAME_HASH[m]
    <3>1. /\ DOMAIN Put(COLOR_NAME_HASH, n, hex) = names \cup {n}
          /\ Put(COLOR_NAME_HASH, n, hex)[n] = hex
          /\ \A m \in names : m # n => Put(COLOR_NAME_HASH, n, hex)[m] = COLOR_NAME_HASH[m]
      BY <2>5 DEF Put
    <3> QED
      BY <2>4, <3>1
  <2>8. /\ DOMAIN COLOR_HEX_HASH' = DOMAIN COLOR_HEX_HASH \cup {hex}
        /\ COLOR_HEX_HASH'[hex] = n
        /\ \A h \in DOMAIN COLOR_HEX_HASH : h # hex => COLOR_HEX_HASH'[h] = COLOR_HEX_HASH[h]
    BY <2>4, PutFacts
  <2> HIDE DEF names
  <2>9. qty' = Cardinality(names \cup {n}) /\ IsFiniteSet(names \cup {n})
    BY <2>4, <2>5, FS_AddElement DEF names
  <2>10. \A m \in names \cup {n} :
           /\ COLORS_HASH'[m] = [name |-> m, hex |-> COLOR_NAME_HASH'[m]]
           /\ COLOR_NAME_HASH'[m] \in Hexes
    BY <2>3, <2>5, <2>6, <2>7
  <2>11. DOMAIN COLOR_HEX_HASH' = {COLOR_NAME_HASH'[m] : m \in names \cup {n}}
    <3>1. {COLOR_NAME_HASH'[m] : m \in names \cup {n}}
            = {COLOR_NAME_HASH[m] : m \in names} \cup {hex}
      BY <2>7
    <3> QED
      BY <2>5, <2>8, <3>1
  <2>12. \A h \in DOMAIN COLOR_HEX_HASH' :
           /\ COLOR_HEX_HASH'[h] \in names \cup {n}
           /\ COLOR_NAME_HASH'[COLOR_HEX_HASH'[h]] = h
    BY <2>5, <2>7, <2>8
  <2> QED
    BY <2>3, <2>5, <2>6, <2>7, <2>9, <2>10, <2>11, <2>12 DEF HashInv, HashesAgree
<1> QED
  BY <1>1, <1>2 DEF Next, Load, vars, ReadTypeids, ReadIds, LoadBadRow, ReadFails, EndOfIds,
                    EndOfTypes, LoadName, EndOfNames, CheckLoad, TestColors, Add, Delete
-----------------------------------------------------------------------------
(* The lists.                                                              *)

\* What the iterator still has to return, while the lists grow.
Parallel ==
  /\ qty > MinColors
  /\ COLOR_NAME_STRINGS \in Seq(Names) /\ COLOR_HEX_STRINGS \in Seq(Hexes)
  /\ Len(COLOR_HEX_STRINGS) = Len(COLOR_NAME_STRINGS)
  /\ todo \subseteq DOMAIN COLORS_HASH
  /\ Entries(COLOR_NAME_STRINGS) = DOMAIN COLORS_HASH \ todo
  /\ Len(COLOR_NAME_STRINGS) + Cardinality(todo) = qty
  /\ \A k \in DOMAIN COLOR_NAME_STRINGS :
       COLOR_HEX_STRINGS[k] = COLOR_NAME_HASH[COLOR_NAME_STRINGS[k]]

\* One turn moves a name from todo to the end of both lists.
LEMMA LoadNameStep ==
  ASSUME HashInv, Parallel, Standing, LoadName
  PROVE  Parallel' /\ Standing'
<1> DEFINE N == COLOR_NAME_STRINGS
           H == COLOR_HEX_STRINGS
<1>0. Standing'
  BY DEF LoadName, Iterate, Standing
<1>1. PICK n \in todo : /\ todo' = todo \ {n}
                        /\ COLOR_NAME_STRINGS' = Append(N, n)
                        /\ COLOR_HEX_STRINGS' = Append(H, COLORS_HASH[n].hex)
  <2>1. item \in todo
    BY DEF LoadName, Standing
  <2>2. COLORS_HASH[item].name = item
    BY <2>1 DEF Parallel, HashInv, HashesAgree
  <2> QED
    BY <2>1, <2>2 DEF LoadName, ListItem
<1>2. UNCHANGED <<qty, COLORS_HASH, COLOR_NAME_HASH>>
  BY DEF LoadName, hashes
<1>3. /\ n \in DOMAIN COLORS_HASH /\ n \in Names
      /\ COLORS_HASH[n].hex = COLOR_NAME_HASH[n] /\ COLOR_NAME_HASH[n] \in Hexes
  <2>1. n \in DOMAIN COLORS_HASH
    BY DEF Parallel
  <2>2. COLORS_HASH[n] = [name |-> n, hex |-> COLOR_NAME_HASH[n]]
    BY <2>1 DEF HashInv, HashesAgree
  <2>3. COLORS_HASH[n].hex = COLOR_NAME_HASH[n]
    BY <2>2
  <2> QED
    BY <2>1, <2>3 DEF HashInv
<1> DEFINE hex == COLOR_NAME_HASH[n]
<1>4. /\ N \in Seq(Names) /\ H \in Seq(Hexes) /\ Len(H) = Len(N)
      /\ todo \subseteq DOMAIN COLORS_HASH /\ Entries(N) = DOMAIN COLORS_HASH \ todo
      /\ Len(N) + Cardinality(todo) = qty /\ qty > MinColors
      /\ \A k \in DOMAIN N : H[k] = COLOR_NAME_HASH[N[k]]
  BY DEF Parallel
<1>5. /\ COLOR_NAME_STRINGS' = Append(N, n) /\ COLOR_HEX_STRINGS' = Append(H, hex)
      /\ n \in Names /\ hex \in Hexes
  BY <1>1, <1>3
<1> HIDE DEF N, H, hex
<1>6. /\ Len(N) \in Nat /\ DOMAIN N = 1..Len(N) /\ DOMAIN H = 1..Len(N)
      /\ DOMAIN Append(N, n) = 1..(Len(N) + 1)
      /\ Len(Append(N, n)) = Len(N) + 1 /\ Len(Append(H, hex)) = Len(N) + 1
      /\ Append(N, n) \in Seq(Names) /\ Append(H, hex) \in Seq(Hexes)
      /\ Append(N, n)[Len(N) + 1] = n /\ Append(H, hex)[Len(N) + 1] = hex
      /\ \A k \in 1..Len(N) : Append(N, n)[k] = N[k] /\ Append(H, hex)[k] = H[k]
  BY <1>4, <1>5
<1>7. \A k \in 1..(Len(N) + 1) : k \in 1..Len(N) \/ k = Len(N) + 1
  BY <1>6
<1>8. Entries(Append(N, n)) = Entries(N) \cup {n}
  <2>1. 1..Len(N) \subseteq 1..(Len(N) + 1) /\ Len(N) + 1 \in 1..(Len(N) + 1)
    BY <1>6
  <2> QED
    BY <1>6, <1>7, <2>1 DEF Entries
<1>9. Entries(Append(N, n)) = DOMAIN COLORS_HASH \ (todo \ {n})
  BY <1>3, <1>4, <1>8
<1>10. Len(N) + 1 + Cardinality(todo \ {n}) = qty
  <2>1. IsFiniteSet(todo)
    BY <1>4, FS_Subset DEF HashInv
  <2>2. Cardinality(todo \ {n}) = Cardinality(todo) - 1 /\ Cardinality(todo) \in Nat
    BY <1>1, <2>1, FS_RemoveElement, FS_CardinalityType
  <2> QED
    BY <1>4, <1>6, <2>2
<1>11. \A k \in 1..(Len(N) + 1) : Append(H, hex)[k] = COLOR_NAME_HASH[Append(N, n)[k]]
  BY <1>4, <1>6, <1>7 DEF hex
<1> QED
  BY <1>0, <1>1, <1>2, <1>4, <1>5, <1>6, <1>9, <1>10, <1>11 DEF Parallel

\* ListInv in terms of Parallel.
LEMMA ListParts ==
  ListInv <=> /\ pc \in Loading => COLOR_NAME_STRINGS = << >> /\ COLOR_HEX_STRINGS = << >>
              /\ pc \in {"names"} \cup Listed => Parallel
              /\ pc = "names" => Standing
              /\ pc \in Listed => todo = {}
BY DEF ListInv, Parallel

\* When the iteration starts everything is to do.
LEMMA NothingListed ==
  ASSUME HashInv, TypeOK, EndOfTypes, pc' = "names",
         COLOR_NAME_STRINGS = << >>, COLOR_HEX_STRINGS = << >>
  PROVE  Parallel' /\ Standing'
<1>0. Standing'
  BY DEF EndOfTypes, Iterate, Standing
<1>1. /\ todo' = DOMAIN COLORS_HASH /\ UNCHANGED <<qty, COLORS_HASH, COLOR_NAME_HASH>>
      /\ COLOR_NAME_STRINGS' = << >> /\ COLOR_HEX_STRINGS' = << >> /\ qty > MinColors
  BY DEF EndOfTypes, hashes, strings
<1>2. /\ qty = Cardinality(DOMAIN COLORS_HASH) /\ qty \in Nat
  BY DEF HashInv, HashesAgree, TypeOK
<1>3. << >> \in Seq(Names) /\ << >> \in Seq(Hexes) /\ Len(<< >>) = 0 /\ DOMAIN << >> = {}
  OBVIOUS
<1>4. Entries(<< >>) = {}
  BY DEF Entries
<1> QED
  BY <1>0, <1>1, <1>2, <1>3, <1>4 DEF Parallel

\* Every step keeps the lists parallel.
LEMMA ListStep ==
  ASSUME TypeOK, HashInv, ListInv, [Next]_vars
  PROVE  ListInv'
<1> USE DEF Loading, Listed
<1>0. /\ pc \in Loading => COLOR_NAME_STRINGS = << >> /\ COLOR_HEX_STRINGS = << >>
      /\ pc \in {"names"} \cup Listed => Parallel
      /\ pc = "names" => Standing
      /\ pc \in Listed => todo = {}
  BY ListParts
<1> SUFFICES /\ pc' \in Loading => COLOR_NAME_STRINGS' = << >> /\ COLOR_HEX_STRINGS' = << >>
             /\ pc' \in {"names"} \cup Listed => Parallel'
             /\ pc' = "names" => Standing'
             /\ pc' \in Listed => todo' = {}
  BY DEF ListInv, Parallel
<1>1. UNCHANGED <<qty, COLORS_HASH, COLOR_NAME_HASH, lists>>
        => Parallel' = Parallel /\ Standing' = Standing
  BY DEF Parallel, Standing, lists, strings
<1>2. CASE Add \/ Delete
  BY <1>0, <1>1, <1>2 DEF Add, Delete, hashes, lists, strings
<1>3. CASE ReadTypeids \/ ReadIds
  BY <1>0, <1>1, <1>3 DEF ReadTypeids, ReadIds, hashes, lists, strings
<1>4. CASE LoadRow
  BY <1>0, <1>4 DEF LoadRow, MoreIds, lists, strings
<1>5. CASE LoadBadRow \/ ReadFails \/ EndOfIds
  BY <1>0, <1>5 DEF LoadBadRow, ReadFails, EndOfIds, MoreIds, lists, strings
<1>6. CASE EndOfTypes
  <2>1. pc' \in {"names", "aborted", "crashed"} /\ pc \in Loading
    BY <1>6 DEF EndOfTypes
  <2> QED
    BY <1>0, <1>6, <2>1, NothingListed
<1>7. CASE LoadName
  <2>1. pc' = "names" /\ pc = "names"
    BY <1>7 DEF LoadName
  <2> QED
    BY <1>0, <1>7, <2>1, LoadNameStep
<1>8. CASE EndOfNames
  <2>1. pc = "names" /\ pc' = "check" /\ item = NoName /\ UNCHANGED <<hashes, lists, qty>>
    BY <1>8 DEF EndOfNames
  <2>2. NoName \notin todo
    BY <1>0, <2>1, LoadAssumption DEF Parallel, HashInv
  <2>3. todo = {} /\ todo' = todo
    BY <1>0, <2>1, <2>2 DEF Standing, lists
  <2> QED
    BY <1>0, <1>1, <2>1, <2>3 DEF hashes
<1>9. CASE CheckLoad \/ TestColors
  BY <1>0, <1>1, <1>9 DEF CheckLoad, TestColors, hashes, lists, strings
<1>10. CASE UNCHANGED vars
  BY <1>0, <1>1, <1>10 DEF vars, hashes, lists, strings
<1> QED
  BY <1>2, <1>3, <1>4, <1>5, <1>6, <1>7, <1>8, <1>9, <1>10 DEF Next, Load
-----------------------------------------------------------------------------
(* Nothing that was stored is missed, and why the load crashes.            *)

\* Adding a row keeps the others.
LEMMA AddKeeps ==
  ASSUME TypeOK, Add
  PROVE  /\ DOMAIN blobs \subseteq DOMAIN blobs'
         /\ \A k \in DOMAIN blobs : blobs'[k] = blobs[k]
         /\ Stored \subseteq Stored'
<1>1. PICK row \in Row : blobs' = Put(blobs, NextRowid, row)
  BY DEF Add
<1>2. NextRowid \notin DOMAIN blobs
  BY NextRowidFacts DEF Add
<1> DEFINE next == NextRowid
<1>3. /\ DOMAIN blobs' = DOMAIN blobs \cup {next}
      /\ \A k \in DOMAIN blobs : blobs'[k] = blobs[k]
  BY <1>1, <1>2 DEF Put
<1> HIDE DEF next
<1> QED
  BY <1>3 DEF Stored

\* The part of StoredInv that is about one name.
Pending(n) ==
  \/ n \in DOMAIN COLORS_HASH \/ TypeOf[n] \in typeids
  \/ pc = "ids" /\ \E k \in ids : blobs[k].name = n

\* A name whose type comes next has a row among the ids, unless it was deleted
\* or the scan has missed it.
LEMMA ReadIdsPending ==
  ASSUME ReadIds, NEW n \in Stored, Pending(n), n \notin missed'
  PROVE  Pending(n)'
<1>1. PICK t \in typeids :
        /\ typeids' = typeids \ {t}
        /\ missed' = missed \cup (NamesOf(OfType(t)) \ NamesOf(ids'))
  BY DEF ReadIds
<1>2. UNCHANGED <<blobs, COLORS_HASH>> /\ pc' = "ids" /\ pc # "ids"
  BY DEF ReadIds, writer, hashes
<1>3. CASE TypeOf[n] = t
  <2>1. n \in NamesOf(OfType(t))
    BY <1>3 DEF Stored, OfType, NamesOf
  <2>2. n \in NamesOf(ids')
    BY <1>1, <2>1
  <2>3. PICK k \in ids' : blobs[k].name = n
    BY <2>2 DEF NamesOf
  <2> QED
    BY <1>2, <2>3 DEF Pending
<1>4. CASE TypeOf[n] # t
  BY <1>1, <1>2, <1>4 DEF Pending
<1> QED
  BY <1>3, <1>4

\* The id that is taken off the list is that of a name that is now loaded.
LEMMA LoadRowPending ==
  ASSUME TypeOK, LoadRow, NEW n, Pending(n)
  PROVE  Pending(n)'
<1> DEFINE row == blobs[NextId]
<1>1. /\ UNCHANGED <<blobs, pc, typeids>> /\ ids' = ids \ {NextId} /\ HashRow(row)
  BY DEF LoadRow, writer
<1>2. DOMAIN COLORS_HASH \subseteq DOMAIN COLORS_HASH' /\ row.name \in DOMAIN COLORS_HASH'
  BY <1>1 DEF HashRow, hashes, Put
<1>3. ASSUME pc = "ids", NEW k \in ids, blobs[k].name = n PROVE Pending(n)'
  <2>1. CASE k = NextId
    BY <1>2, <1>3, <2>1 DEF Pending
  <2>2. CASE k # NextId
    BY <1>1, <1>3, <2>2 DEF Pending
  <2> QED
    BY <2>1, <2>2
<1> QED
  BY <1>1, <1>2, <1>3 DEF Pending

\* Every step keeps StoredInv.
LEMMA StoredStep ==
  ASSUME TypeOK, StoredInv, CauseInv, [Next]_vars
  PROVE  StoredInv'
<1>0. /\ pc \in {"names", "check", "loaded"} /\ ~cut /\ deleted = 0
           => stored \ missed \subseteq DOMAIN COLORS_HASH
      /\ pc \in {"types", "ids"} /\ deleted = 0 => stored \subseteq Stored
      /\ pc \in {"types", "ids"} /\ deleted = 0 /\ ~cut => \A n \in stored \ missed : Pending(n)
  BY DEF StoredInv, StoredIsLoaded, Pending
<1> SUFFICES
      /\ pc' \in {"names", "check", "loaded"} /\ ~cut' /\ deleted' = 0 =>
           stored' \ missed' \subseteq DOMAIN COLORS_HASH'
      /\ pc' \in {"types", "ids"} /\ deleted' = 0 => stored' \subseteq Stored'
      /\ pc' \in {"types", "ids"} /\ deleted' = 0 /\ ~cut' =>
           \A n \in stored' \ missed' : Pending(n)'
  BY DEF StoredInv, StoredIsLoaded, Pending
<1>1. CASE Add
  <2>1. /\ UNCHANGED <<deleted, pc, typeids, ids, COLORS_HASH, stored, missed, cut>>
        /\ pc \in {"types", "ids"}
    BY <1>1 DEF Add, hashes, history
  <2>2. Stored \subseteq Stored'
    BY <1>1, AddKeeps
  <2>3. ASSUME NEW n \in stored, deleted = 0, Pending(n) PROVE Pending(n)'
    <3>1. ASSUME pc = "ids", NEW k \in ids, blobs[k].name = n PROVE blobs'[k].name = n
      <4>1. k \in DOMAIN blobs => blobs'[k] = blobs[k]
        BY <1>1, AddKeeps
      <4> QED
        BY <2>3, <3>1, <4>1 DEF CauseInv
    <3> QED
      BY <2>1, <2>3, <3>1 DEF Pending
  <2> QED
    BY <1>0, <2>1, <2>2, <2>3
<1>2. CASE Delete
  <2>1. deleted' # 0
    BY <1>2 DEF Delete, TypeOK
  <2> QED
    BY <2>1
<1>3. CASE ReadTypeids
  <2>1. /\ pc' = "types" /\ stored' = Stored /\ UNCHANGED blobs
        /\ missed' = {n \in Stored : TypeOf[n] \notin typeids'}
    BY <1>3 DEF ReadTypeids, writer
  <2>2. Stored' = Stored
    BY <2>1 DEF Stored
  <2>3. \A n \in stored' \ missed' : TypeOf[n] \in typeids'
    BY <2>1
  <2> QED
    BY <2>1, <2>2, <2>3 DEF Pending
<1>4. CASE ReadIds
  <2>1. /\ pc = "types" /\ pc' = "ids"
        /\ UNCHANGED <<blobs, deleted, stored, cut>> /\ Stored' = Stored
    BY <1>4 DEF ReadIds, writer, Stored
  <2>2. missed \subseteq missed'
    BY <1>4 DEF ReadIds
  <2>3. deleted = 0 /\ ~cut => \A n \in stored \ missed' : Pending(n)'
    BY <1>0, <1>4, <2>1, <2>2, ReadIdsPending
  <2> QED
    BY <1>0, <2>1, <2>3
<1>5. CASE LoadRow
  <2>1. /\ pc' = pc /\ pc = "ids"
        /\ UNCHANGED <<blobs, deleted, stored, missed, cut>> /\ Stored' = Stored
    BY <1>5 DEF LoadRow, MoreIds, writer, history, Stored
  <2>2. \A n \in stored : Pending(n) => Pending(n)'
    BY <1>5, LoadRowPending
  <2> QED
    BY <1>0, <2>1, <2>2
<1>6. CASE LoadBadRow \/ ReadFails
  BY <1>6 DEF LoadBadRow, ReadFails
<1>7. CASE EndOfIds
  <2>1. /\ pc = "ids" /\ pc' = "types"
        /\ UNCHANGED <<blobs, deleted, stored, missed, typeids, COLORS_HASH>>
        /\ Stored' = Stored /\ cut' = (cut \/ ids # {})
    BY <1>7 DEF EndOfIds, writer, hashes, Stored
  <2>2. ~cut' /\ cut \in BOOLEAN => ~cut /\ ids = {}
    BY <2>1
  <2>3. \A n : ids = {} /\ Pending(n) => Pending(n)'
    BY <2>1 DEF Pending
  <2> QED
    BY <1>0, <2>1, <2>2, <2>3 DEF TypeOK
<1>8. CASE EndOfTypes
  <2>1. /\ pc = "types" /\ pc' \in {"names", "aborted", "crashed"}
        /\ UNCHANGED <<deleted, stored, missed, COLORS_HASH>>
        /\ cut' = (cut \/ typeids # {})
    BY <1>8 DEF EndOfTypes, writer, hashes
  <2>2. ~cut' /\ cut \in BOOLEAN => ~cut /\ typeids = {}
    BY <2>1
  <2>3. ASSUME ~cut, typeids = {}, deleted = 0
        PROVE  stored \ missed \subseteq DOMAIN COLORS_HASH
    BY <1>0, <2>1, <2>3 DEF Pending
  <2> QED
    BY <2>1, <2>2, <2>3 DEF TypeOK
<1>9. CASE LoadName \/ EndOfNames \/ CheckLoad \/ TestColors
  <2>1. /\ pc \in {"names", "check", "loaded"} /\ pc' \notin {"types", "ids"}
        /\ UNCHANGED <<deleted, stored, missed, COLORS_HASH, cut>>
    BY <1>9 DEF LoadName, EndOfNames, CheckLoad, TestColors, writer, hashes, history
  <2> QED
    BY <1>0, <2>1
<1>10. CASE UNCHANGED vars
  <2>1. UNCHANGED <<pc, blobs, typeids, ids, stored, missed, deleted, cut, COLORS_HASH>>
    BY <1>10 DEF vars, writer, hashes, history
  <2> QED
    BY <1>0, <2>1 DEF Pending, Stored
<1> QED
  BY <1>1, <1>2, <1>3, <1>4, <1>5, <1>6, <1>7, <1>8, <1>9, <1>10 DEF Next, Load

\* After the load both lists are about the colours of the hashes.
LEMMA ListedColours ==
  ASSUME HashInv, Parallel, todo = {}
  PROVE  /\ Len(COLOR_NAME_STRINGS) = qty /\ Len(COLOR_HEX_STRINGS) = qty
         /\ Entries(COLOR_NAME_STRINGS) = DOMAIN COLORS_HASH
         /\ Entries(COLOR_HEX_STRINGS) \subseteq DOMAIN COLOR_HEX_HASH
<1>1. /\ COLOR_NAME_STRINGS \in Seq(Names) /\ COLOR_HEX_STRINGS \in Seq(Hexes)
      /\ Len(COLOR_HEX_STRINGS) = Len(COLOR_NAME_STRINGS)
      /\ Entries(COLOR_NAME_STRINGS) = DOMAIN COLORS_HASH
      /\ Len(COLOR_NAME_STRINGS) + Cardinality({}) = qty
      /\ \A k \in DOMAIN COLOR_NAME_STRINGS :
           COLOR_HEX_STRINGS[k] = COLOR_NAME_HASH[COLOR_NAME_STRINGS[k]]
  BY DEF Parallel
<1>2. Len(COLOR_NAME_STRINGS) = qty
  BY <1>1, FS_EmptySet
<1>3. ASSUME NEW k \in DOMAIN COLOR_HEX_STRINGS
      PROVE  COLOR_HEX_STRINGS[k] \in DOMAIN COLOR_HEX_HASH
  <2>1. k \in DOMAIN COLOR_NAME_STRINGS
    BY <1>1, <1>3
  <2>2. COLOR_NAME_STRINGS[k] \in DOMAIN COLORS_HASH
    BY <1>1, <2>1 DEF Entries
  <2>3. COLOR_HEX_STRINGS[k] = COLOR_NAME_HASH[COLOR_NAME_STRINGS[k]]
    BY <1>1, <2>1
  <2> QED
    BY <2>2, <2>3 DEF HashInv, HashesAgree
<1> QED
  BY <1>1, <1>2, <1>3 DEF Entries

\* What makes a load crash.
Cause ==
  \/ deleted > 0 \/ unread
  \/ qty = 0 /\ ids = {}
  \/ \E k \in DOMAIN blobs : blobs[k].name \notin Names \/ blobs[k].hex = NoHex

\* Loading a row counts it, or its name has been counted.
LEMMA LoadRowCounts ==
  ASSUME TypeOK, HashInv, LoadRow
  PROVE  qty' # 0
<1>1. HashRow(blobs[NextId]) /\ qty \in Nat
  BY DEF LoadRow, TypeOK
<1>2. CASE blobs[NextId].name \in DOMAIN COLORS_HASH
  <2>1. qty' = qty
    BY <1>1, <1>2 DEF HashRow
  <2>2. Cardinality(DOMAIN COLORS_HASH) # 0
    BY <1>2, FS_EmptySet DEF HashInv
  <2> QED
    BY <2>1, <2>2 DEF HashInv, HashesAgree
<1>3. CASE blobs[NextId].name \notin DOMAIN COLORS_HASH
  BY <1>1, <1>3 DEF HashRow
<1> QED
  BY <1>2, <1>3

\* A row that is not loaded was deleted, or has no name or no hex.
LEMMA BadRowCause ==
  ASSUME TypeOK, CauseInv, LoadBadRow
  PROVE  Cause'
<1> DEFINE k == NextId
<1>1. k \in ids /\ ~Loadable(k) /\ UNCHANGED <<deleted, blobs>> /\ deleted \in Nat
  BY NextIdFacts DEF LoadBadRow, MoreIds, writer, TypeOK
<1> HIDE DEF k
<1>2. deleted = 0 =>
        k \in DOMAIN blobs /\ (blobs[k].name \notin Names \/ blobs[k].hex = NoHex)
  BY <1>1 DEF CauseInv, Loadable
<1>3. CASE deleted = 0
  BY <1>1, <1>2, <1>3 DEF Cause
<1>4. CASE deleted # 0
  BY <1>1, <1>4 DEF Cause
<1> QED
  BY <1>3, <1>4

\* Every step keeps CauseInv.
LEMMA CauseStep ==
  ASSUME TypeOK, HashInv, ListInv, CauseInv, [Next]_vars
  PROVE  CauseInv'
<1>0. /\ deleted = 0 => ids \subseteq DOMAIN blobs
      /\ pc = "ids" /\ qty = 0 => seen = 0
      /\ pc \in {"start", "types"} /\ qty = 0 => ids = {}
      /\ pc = "crashed" => Cause
  BY DEF CauseInv, CrashHasCause, Cause
<1> SUFFICES /\ deleted' = 0 => ids' \subseteq DOMAIN blobs'
             /\ pc' = "ids" /\ qty' = 0 => seen' = 0
             /\ pc' \in {"start", "types"} /\ qty' = 0 => ids' = {}
             /\ pc' = "crashed" => Cause'
  BY DEF CauseInv, CrashHasCause, Cause
<1>1. CASE Add
  <2>1. UNCHANGED <<ids, seen, qty, deleted, pc>> /\ pc # "crashed"
    BY <1>1 DEF Add
  <2> QED
    BY <1>0, <1>1, <2>1, AddKeeps
<1>2. CASE Delete
  BY <1>0, <1>2 DEF Delete, TypeOK
<1>3. CASE ReadIds
  <2>1. /\ ids' \subseteq DOMAIN blobs /\ seen' = 0 /\ pc' = "ids"
        /\ UNCHANGED blobs
    BY <1>3, ScanFacts DEF ReadIds, OfType, writer
  <2> QED
    BY <2>1
<1>4. CASE LoadRow
  <2>1. /\ pc = "ids" /\ pc' = pc /\ ids' \subseteq ids
        /\ UNCHANGED <<blobs, deleted>>
    BY <1>4 DEF LoadRow, MoreIds, writer
  <2>2. qty' # 0
    BY <1>4, LoadRowCounts
  <2> QED
    BY <1>0, <2>1, <2>2
<1>5. CASE LoadBadRow
  <2>1. Cause' /\ pc' = "crashed" /\ UNCHANGED <<blobs, deleted, ids>>
    BY <1>5, BadRowCause DEF LoadBadRow, writer
  <2> QED
    BY <1>0, <2>1
<1>6. CASE ReadFails
  <2>1. unread' /\ pc' = "crashed" /\ UNCHANGED <<blobs, deleted, ids>>
    BY <1>6 DEF ReadFails, writer
  <2> QED
    BY <1>0, <2>1 DEF Cause
<1>7. CASE ReadTypeids
  <2>1. pc' = "types" /\ UNCHANGED <<blobs, deleted, ids, qty>>
    BY <1>7 DEF ReadTypeids, writer
  <2> QED
    BY <1>0, <1>7, <2>1 DEF ReadTypeids
<1>8. CASE EndOfIds
  <2>1. /\ pc = "ids" /\ pc' = "types" /\ UNCHANGED <<blobs, deleted, ids, qty>>
        /\ ids = {} \/ ~(seen < MAX_COLORS)
    BY <1>8 DEF EndOfIds, MoreIds, writer
  <2>2. 0 < MAX_COLORS
    BY LoadAssumption
  <2> QED
    BY <1>0, <2>1, <2>2
<1>9. CASE EndOfTypes
  <2>1. /\ pc = "types" /\ pc' \notin {"start", "types", "ids"}
        /\ pc' = "crashed" => qty = 0
        /\ UNCHANGED <<blobs, deleted, ids, qty>>
    BY <1>9 DEF EndOfTypes, writer
  <2> QED
    BY <1>0, <2>1 DEF Cause
<1>10. CASE LoadName \/ EndOfNames \/ CheckLoad \/ TestColors
  <2>1. pc' # "crashed"
    <3>1. CASE CheckLoad
      <4>1. Parallel /\ todo = {}
        BY <3>1, ListParts DEF CheckLoad, Listed
      <4>2. \A h \in Entries(COLOR_HEX_STRINGS) : get_color_hex_name(h) # {}
        BY <4>1, ListedColours DEF get_color_hex_name, Lookup
      <4> QED
        BY <3>1, <4>2 DEF CheckLoad
    <3> QED
      BY <1>10, <3>1 DEF LoadName, EndOfNames, TestColors
  <2>2. pc' \notin {"start", "types", "ids"} /\ UNCHANGED <<blobs, deleted, ids>>
    BY <1>10 DEF LoadName, EndOfNames, CheckLoad, TestColors, writer
  <2> QED
    BY <1>0, <2>1, <2>2
<1>11. CASE UNCHANGED vars
  <2>1. UNCHANGED <<pc, blobs, deleted, ids, seen, qty, unread>>
    BY <1>11 DEF vars, writer, history
  <2> QED
    BY <1>0, <2>1 DEF Cause
<1> QED
  BY <1>1, <1>2, <1>3, <1>4, <1>5, <1>6, <1>7, <1>8, <1>9, <1>10, <1>11 DEF Next, Load
-----------------------------------------------------------------------------
(* The theorems.                                                           *)

IInv == TypeOK /\ HashInv /\ ListInv /\ StoredInv /\ CauseInv

\* The parts together are an inductive invariant.
LEMMA Invariance == Spec => []IInv
<1>1. Init => IInv
  <2>1. Init => ListInv /\ StoredInv /\ CauseInv
    BY DEF Init, ListInv, StoredInv, StoredIsLoaded, CauseInv, CrashHasCause, Loading, Listed
  <2> QED
    BY <2>1, InitType, InitHash DEF IInv
<1>2. IInv /\ [Next]_vars => IInv'
  BY TypeStep, HashStep, ListStep, StoredStep, CauseStep DEF IInv
<1> QED
  BY <1>1, <1>2, PTL DEF Spec

\* HashesAgree, of the runs: at every moment of the load the three hashes are
\* about the same rows, whichever names share a hex or appear twice.
THEOREM HashesStayPaired == Spec => []HashesAgree
<1>1. IInv => HashesAgree
  BY DEF IInv, HashInv
<1> QED
  BY <1>1, Invariance, PTL

\* ListsAreParallel, of the runs: position k of both lists is one colour, and
\* each name is there once.
THEOREM ListsStayParallel == Spec => []ListsAreParallel
<1>1. IInv => ListsAreParallel
  <2> SUFFICES ASSUME IInv, pc \in {"loaded", "passed", "failed"}
               PROVE  /\ Entries(COLOR_NAME_STRINGS) = DOMAIN COLORS_HASH
                      /\ Len(COLOR_NAME_STRINGS) = qty
                      /\ \A k \in 1..qty :
                           COLOR_HEX_STRINGS[k] = COLOR_NAME_HASH[COLOR_NAME_STRINGS[k]]
    BY DEF ListsAreParallel
  <2>1. Parallel /\ todo = {}
    BY ListParts DEF IInv, Listed
  <2>2. /\ Len(COLOR_NAME_STRINGS) = qty
        /\ Entries(COLOR_NAME_STRINGS) = DOMAIN COLORS_HASH
    BY <2>1, ListedColours DEF IInv
  <2>3. COLOR_NAME_STRINGS \in Seq(Names)
    BY <2>1 DEF Parallel
  <2>4. DOMAIN COLOR_NAME_STRINGS = 1..qty
    BY <2>2, <2>3
  <2> QED
    BY <2>1, <2>2, <2>4 DEF Parallel
<1> QED
  BY <1>1, Invariance, PTL

\* StoredIsLoaded, of the runs: a load that reaches its end without a cut has
\* every name that was stored when it began, except those of which a scan that
\* failed has returned no row, whatever is added meanwhile.
THEOREM NoStoredColourMissed == Spec => []StoredIsLoaded
<1>1. IInv => StoredIsLoaded
  BY DEF IInv, StoredInv
<1> QED
  BY <1>1, Invariance, PTL

\* CrashHasCause, of the runs: a deleted row, one without a name or a hex, a
\* read that failed, or a load without a row, nothing else, makes it crash.
THEOREM LoadCrashIsExplained == Spec => []CrashHasCause
<1>1. IInv => CrashHasCause
  BY DEF IInv, CauseInv
<1> QED
  BY <1>1, Invariance, PTL

\* The tests of colors-test.c pass on what the load has made.
LEMMA TestsPass ==
  ASSUME HashInv, Parallel, todo = {}, qty \in Nat, TestColors
  PROVE  pc' = "passed"
<1>1. /\ Entries(COLOR_NAME_STRINGS) = DOMAIN COLORS_HASH
      /\ Entries(COLOR_HEX_STRINGS) \subseteq DOMAIN COLOR_HEX_HASH
  BY ListedColours
<1>2. ASSUME NEW n \in DOMAIN COLORS_HASH PROVE TestName(n)
  BY <1>2 DEF TestName, get_color_name_row, get_color_name_hex, Lookup, HashInv, HashesAgree
<1>3. ASSUME NEW h \in DOMAIN COLOR_HEX_HASH PROVE TestHex(h)
  <2>1. get_color_hex_name(h) = {COLOR_HEX_HASH[h]} /\ COLOR_HEX_HASH[h] \in DOMAIN COLORS_HASH
    BY <1>3 DEF get_color_hex_name, Lookup, HashInv
  <2>2. get_color_name_hex(COLOR_HEX_HASH[h]) = {h}
    BY <1>3, <2>1 DEF get_color_name_hex, Lookup, HashInv, HashesAgree
  <2> QED
    BY <1>2, <2>1, <2>2 DEF TestHex
<1>4. qty >= MinColors
  BY LoadAssumption DEF Parallel
<1> QED
  BY <1>1, <1>2, <1>3, <1>4 DEF TestColors

\* AssertsHold, of the runs: too few colours is the only assert of load_colors
\* that can fail, and the tests of the lookups never do.
THEOREM NoAssertFires == Spec => []AssertsHold
<1>1. Init => AssertsHold
  BY DEF Init, AssertsHold
<1>2. ASSUME IInv, AssertsHold, [Next]_vars PROVE AssertsHold'
  <2>0. /\ HashInv /\ qty \in Nat /\ MinColors \in Nat
        /\ pc = "aborted" => qty <= MinColors
        /\ pc # "failed"
        /\ pc \in Listed => Parallel /\ todo = {}
    BY <1>2, ListParts, LoadAssumption DEF IInv, TypeOK, AssertsHold
  <2>1. CASE EndOfTypes
    BY <2>0, <2>1 DEF EndOfTypes, AssertsHold
  <2>2. CASE CheckLoad
    <3>1. Len(COLOR_NAME_STRINGS) = qty /\ Len(COLOR_HEX_STRINGS) = qty
      BY <2>0, <2>2, ListedColours DEF CheckLoad, Listed
    <3>2. pc' \in {"crashed", "loaded"}
      BY <2>2, <3>1 DEF CheckLoad
    <3> QED
      BY <3>2 DEF AssertsHold
  <2>3. CASE TestColors
    <3>1. pc' = "passed"
      BY <2>0, <2>3, TestsPass DEF TestColors, Listed
    <3> QED
      BY <3>1 DEF AssertsHold
  <2>4. CASE Add \/ Delete
    BY <2>0, <2>4 DEF Add, Delete, AssertsHold
  <2>5. CASE ReadTypeids \/ ReadIds \/ LoadBadRow \/ ReadFails \/ EndOfIds \/ EndOfNames
    BY <2>5 DEF ReadTypeids, ReadIds, LoadBadRow, ReadFails, EndOfIds, EndOfNames, AssertsHold
  <2>6. CASE LoadRow \/ LoadName
    BY <2>6 DEF LoadRow, LoadName, MoreIds, AssertsHold
  <2>7. CASE UNCHANGED vars
    BY <2>0, <2>7 DEF vars, AssertsHold
  <2> QED
    BY <1>2, <2>1, <2>2, <2>3, <2>4, <2>5, <2>6, <2>7 DEF Next, Load
<1> QED
  BY <1>1, <1>2, Invariance, PTL DEF Spec
=============================================================================
