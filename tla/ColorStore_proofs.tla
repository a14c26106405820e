------------------------- MODULE ColorStore_proofs --------------------------
(***************************************************************************)
(* Theorems about ColorStore for any number of workers, colours, input     *)
(* lines, faults and rowids: types and references, no duplicate of one     *)
(* process, the refinement of ColorCatalog; and what faults do: no line is *)
(* forgotten, blobs are complete or accounted for, a torn one stays torn.  *)
(***************************************************************************)
EXTENDS ColorStore, SequenceTheorems, TLAPS

\* A worker that processes a colour is at a line of its input that holds one.
LEMMA LineAtColor ==
  ASSUME NEW w \in Workers, NEW s, AtColor(w, s)
  PROVE  Line(w) \in Colors /\ TypeOf[Line(w)] \in Types
BY DEF AtColor, Types

-----------------------------------------------------------------------------
(* Types.                                                                  *)

InFlightIds == \A w \in Workers : InFlight(w) => newid[w] \in Rowids

Typed == TypeOK /\ InFlightIds

\* The empty database is well typed.
LEMMA InitTyped == Init => Typed
BY StoreAssumption, EmptySeq
   DEF Init, Typed, TypeOK, InFlightIds, InFlight, Stages

\* Every step keeps the types, and a worker in flight keeps a real rowid.
LEMMA StepTyped == Typed /\ [Next]_vars => Typed'
<1> SUFFICES ASSUME Typed, [Next]_vars PROVE Typed'
  OBVIOUS
<1> USE StoreAssumption
    DEF Typed, TypeOK, InFlightIds, InFlight, tables, Stages, Goto, Advance, Fault
<1>1. ASSUME NEW w \in Workers, Start(w) PROVE Typed'
  BY <1>1 DEF Start
<1>2. ASSUME NEW w \in Workers, ScanTypeids(w) PROVE Typed'
  BY <1>2 DEF ScanTypeids
<1>3. ASSUME NEW w \in Workers, ScanFails(w) PROVE Typed'
  BY <1>3 DEF ScanFails
<1>4. ASSUME NEW w \in Workers, SkipMalformed(w) PROVE Typed'
  BY <1>4 DEF SkipMalformed
<1>5. ASSUME NEW w \in Workers, AlreadyStored(w) PROVE Typed'
  BY <1>5 DEF AlreadyStored
<1>6. ASSUME NEW w \in Workers, NotStored(w) PROVE Typed'
  BY <1>6 DEF NotStored
<1>7. ASSUME NEW w \in Workers, LookupFails(w) PROVE Typed'
  BY <1>7, LineAtColor DEF LookupFails
<1>8. ASSUME NEW w \in Workers, AddBlob(w) PROVE Typed'
  <2>1. PICK i \in Rowids :
          /\ blobs' = blobs \cup {[id |-> i, type |-> TypeOf[Line(w)],
                                   data |-> Line(w), by |-> w]}
          /\ newid' = [newid EXCEPT ![w] = i]
    BY <1>8 DEF AddBlob
  <2>2. blobs' \subseteq Blob
    BY <1>8, <2>1, LineAtColor DEF AddBlob, Blob
  <2> QED
    BY <1>8, <2>1, <2>2 DEF AddBlob, Rowids
<1>9. ASSUME NEW w \in Workers, AddBlobFails(w) PROVE Typed'
  BY <1>9, LineAtColor DEF AddBlobFails
<1>10. ASSUME NEW w \in Workers, AddHex(w) PROVE Typed'
  <2>1. [blobid |-> newid[w], color |-> Line(w)] \in Link
    BY <1>10, LineAtColor DEF AddHex, AtColor, Link
  <2>2. hexcodes' \in Seq(Link)
    BY <1>10, <2>1, AppendProperties, Zenon DEF AddHex
  <2> QED
    BY <1>10, <2>2 DEF AddHex, AtColor
<1>11. ASSUME NEW w \in Workers, AddHexFails(w) PROVE Typed'
  BY <1>11 DEF AddHexFails, AtColor
<1>12. ASSUME NEW w \in Workers, AddName(w) PROVE Typed'
  <2>1. [blobid |-> newid[w], color |-> Line(w)] \in Link
    BY <1>12, LineAtColor DEF AddName, AtColor, Link
  <2>2. colornames' \in Seq(Link)
    BY <1>12, <2>1, AppendProperties, Zenon DEF AddName
  <2> QED
    BY <1>12, <2>2 DEF AddName
<1>13. ASSUME NEW w \in Workers, AddNameFails(w) PROVE Typed'
  <2>1. newid[w] \in Rowids
    BY <1>13 DEF AddNameFails, AtColor
  <2> QED
    BY <1>13, <2>1 DEF AddNameFails
<1>14. ASSUME NEW w \in Workers, EndOfInput(w) PROVE Typed'
  BY <1>14 DEF EndOfInput
<1>15. ASSUME NEW w \in Workers, Crash(w) PROVE Typed'
  BY <1>15 DEF Crash
<1>16. ASSUME NEW w \in Workers, DieOnName(w) \/ DieOnHex(w) PROVE Typed'
  BY <1>16 DEF DieOnName, DieOnHex, AtColor
<1>17. CASE UNCHANGED vars
  BY <1>17 DEF vars
<1> QED
  BY <1>1, <1>2, <1>3, <1>4, <1>5, <1>6, <1>7, <1>8, <1>9, <1>10, <1>11,
     <1>12, <1>13, <1>14, <1>15, <1>16, <1>17
     DEF Next, Step, FailingStep

(* Every variable keeps its type: in particular the row ids the workers    *)
(* remember and the rows of the three tables are well formed.              *)
THEOREM TypeCorrect == Spec => []TypeOK
<1>1. Typed => TypeOK
  BY DEF Typed
<1> QED
  BY <1>1, InitTyped, StepTyped, PTL DEF Spec
-----------------------------------------------------------------------------
(* Rows that refer to blobs.                                               *)

UniqueIds == \A b, c \in blobs : b.id = c.id => b = c

Flight ==
  \A w \in Workers : InFlight(w) =>
    \E b \in blobs : b.id = newid[w] /\ b.by = w /\ b.data = Line(w)

NoRow(table, i) == \A k \in DOMAIN table : table[k].blobid # i

Pending ==
  \A w \in Workers :
    /\ pc[w] = "hex" => NoRow(hexcodes, newid[w])
    /\ InFlight(w) => NoRow(colornames, newid[w])

Refers(table) ==
  \A k \in DOMAIN table :
    \E b \in blobs : b.id = table[k].blobid /\ b.data = table[k].color

Single(table) ==
  \A j, k \in DOMAIN table : table[j].blobid = table[k].blobid => j = k

Links ==
  /\ UniqueIds
  /\ Flight
  /\ Pending
  /\ Refers(hexcodes) /\ Refers(colornames)
  /\ Single(hexcodes) /\ Single(colornames)

\* The steps that write no row and put no worker in flight.
Quiet ==
  /\ UNCHANGED <<blobs, hexcodes, colornames, newid>>
  /\ \A u \in Workers :
       /\ InFlight(u)' => InFlight(u) /\ pos'[u] = pos[u]
       /\ pc'[u] = "hex" => pc[u] = "hex"

\* A step inserts a blob, a hex row or a name row, or leaves the tables alone.
LEMMA StepKinds ==
  ASSUME Typed, [Next]_vars
  PROVE  Quiet \/ \E w \in Workers : AddBlob(w) \/ AddHex(w) \/ AddName(w)
<1> USE DEF Typed, TypeOK, Quiet, InFlight, tables, Goto, Advance
<1>1. ASSUME NEW w \in Workers, Start(w) PROVE Quiet
  BY <1>1 DEF Start
<1>2. ASSUME NEW w \in Workers,
             \/ ScanTypeids(w) \/ ScanFails(w) \/ SkipMalformed(w)
             \/ DieOnName(w) \/ AlreadyStored(w) \/ NotStored(w)
             \/ LookupFails(w)
      PROVE  Quiet
  BY <1>2 DEF ScanTypeids, ScanFails, SkipMalformed, DieOnName, AlreadyStored,
              NotStored, LookupFails
<1>3. ASSUME NEW w \in Workers,
             \/ AddBlobFails(w) \/ AddHexFails(w) \/ AddNameFails(w)
             \/ DieOnHex(w) \/ EndOfInput(w) \/ Crash(w)
      PROVE  Quiet
  BY <1>3 DEF AddBlobFails, AddHexFails, AddNameFails, DieOnHex, EndOfInput,
              Crash, AtColor
<1>4. CASE UNCHANGED vars
  BY <1>4 DEF vars
<1> QED
  BY <1>1, <1>2, <1>3, <1>4 DEF Next, Step, FailingStep

\* Steps that leave the tables alone keep the links.
LEMMA QuietLinks == ASSUME Links, Quiet PROVE Links'
<1>1. \A u \in Workers : InFlight(u)' => Line(u)' = Line(u)
  BY DEF Quiet, Line
<1> QED
  BY <1>1 DEF Links, Quiet, UniqueIds, Flight, Pending, NoRow, Refers, Single, InFlight

\* A row for blob i is appended to a table that has none.
LEMMA AppendRow ==
  ASSUME NEW table \in Seq(Link), NEW i \in Rowids, NEW c \in Colors,
         NoRow(table, i)
  PROVE  LET new == Append(table, [blobid |-> i, color |-> c])
         IN  /\ DOMAIN new = DOMAIN table \cup {Len(table) + 1}
             /\ \A k \in DOMAIN table : new[k] = table[k]
             /\ new[Len(table) + 1] = [blobid |-> i, color |-> c]
             /\ Single(table) => Single(new)
             /\ \A j : j # i /\ NoRow(table, j) => NoRow(new, j)
<1> DEFINE new == Append(table, [blobid |-> i, color |-> c])
<1>1. [blobid |-> i, color |-> c] \in Link
  BY DEF Link
<1>2. /\ DOMAIN new = DOMAIN table \cup {Len(table) + 1}
      /\ \A k \in DOMAIN table : new[k] = table[k]
      /\ new[Len(table) + 1] = [blobid |-> i, color |-> c]
  BY <1>1, AppendProperties
<1>3. Single(table) => Single(new)
  BY <1>2 DEF Single, NoRow
<1>4. \A j : j # i /\ NoRow(table, j) => NoRow(new, j)
  BY <1>2 DEF NoRow
<1> QED
  BY <1>2, <1>3, <1>4

\* colordb_add keeps the links: the new blob has an id that no row refers to.
LEMMA AddBlobLinks ==
  ASSUME Typed, Links, NEW w \in Workers, AddBlob(w)
  PROVE  Links'
<1> USE DEF Typed, TypeOK, Links
<1>1. PICK i \in Rowids :
        /\ IsNextRowid(i)
        /\ blobs' = blobs \cup {[id |-> i, type |-> TypeOf[Line(w)],
                                 data |-> Line(w), by |-> w]}
        /\ newid' = [newid EXCEPT ![w] = i]
  BY DEF AddBlob
<1>2. /\ pc' = [pc EXCEPT ![w] = "hex"] /\ pos' = pos
      /\ hexcodes' = hexcodes /\ colornames' = colornames
      /\ pc[w] = "add"
  BY DEF AddBlob, Goto, AtColor
<1>3. \A b \in blobs : b.id # i /\ b.id \in Int /\ i \in Int
  BY <1>1 DEF IsNextRowid, Blob, Rowids
<1>4. UniqueIds'
  BY <1>1, <1>3 DEF UniqueIds
<1>5. Flight'
  <2> SUFFICES ASSUME NEW u \in Workers, InFlight(u)'
               PROVE  \E b \in blobs' : /\ b.id = newid'[u] /\ b.by = u
                                        /\ b.data = Line(u)'
    BY DEF Flight
  <2>1. Line(u)' = Line(u)
    BY <1>2 DEF Line
  <2>2. CASE u = w
    <3> DEFINE b == [id |-> i, type |-> TypeOf[Line(w)], data |-> Line(w), by |-> w]
    <3>1. newid'[u] = i
      BY <1>1, <2>2
    <3>2. b \in blobs' /\ b.id = i /\ b.by = w /\ b.data = Line(w)
      BY <1>1
    <3> HIDE DEF b
    <3> QED
      BY <2>1, <2>2, <3>1, <3>2
  <2>3. CASE u # w
    BY <1>1, <1>2, <2>1, <2>3 DEF Flight, InFlight
  <2> QED
    BY <2>2, <2>3
<1>6. NoRow(hexcodes, i) /\ NoRow(colornames, i)
  BY <1>3 DEF Refers, NoRow
<1>7. Pending'
  BY <1>1, <1>2, <1>6 DEF Pending, InFlight, NoRow
<1>8. Refers(hexcodes)' /\ Refers(colornames)'
  BY <1>1, <1>2 DEF Refers
<1>9. Single(hexcodes)' /\ Single(colornames)'
  BY <1>2 DEF Single
<1> QED
  BY <1>4, <1>5, <1>7, <1>8, <1>9

\* What the two inserts that use new_id share.
LEMMA OwnRow ==
  ASSUME Typed, Links, NEW w \in Workers, InFlight(w), Line(w) \in Colors
  PROVE  /\ newid[w] \in Rowids
         /\ \E b \in blobs : b.id = newid[w] /\ b.data = Line(w)
         /\ \A u \in Workers \ {w} : InFlight(u) => newid[u] # newid[w]
<1>1. newid[w] \in Rowids
  BY DEF Typed, InFlightIds
<1>2. PICK b \in blobs : b.id = newid[w] /\ b.by = w /\ b.data = Line(w)
  BY DEF Links, Flight
<1>3. ASSUME NEW u \in Workers \ {w}, InFlight(u) PROVE newid[u] # newid[w]
  <2>1. PICK c \in blobs : c.id = newid[u] /\ c.by = u
    BY <1>3 DEF Links, Flight
  <2> QED
    BY <1>2, <2>1 DEF Links, UniqueIds
<1> QED
  BY <1>1, <1>2, <1>3

\* colordb_add_typeid_hex keeps the links.
LEMMA AddHexLinks ==
  ASSUME Typed, Links, NEW w \in Workers, AddHex(w)
  PROVE  Links'
<1> DEFINE row == [blobid |-> newid[w], color |-> Line(w)]
<1>1. /\ pc[w] = "hex" /\ InFlight(w) /\ Line(w) \in Colors
      /\ hexcodes' = Append(hexcodes, row)
      /\ pc' = [pc EXCEPT ![w] = "name"] /\ pos' = pos
      /\ blobs' = blobs /\ newid' = newid /\ colornames' = colornames
  BY DEF AddHex, AtColor, InFlight, Goto
<1>2. NoRow(hexcodes, newid[w]) /\ hexcodes \in Seq(Link) /\ pc \in [Workers -> Stages]
  BY <1>1 DEF Links, Pending, Typed, TypeOK
<1>3. /\ DOMAIN hexcodes' = DOMAIN hexcodes \cup {Len(hexcodes) + 1}
      /\ \A k \in DOMAIN hexcodes : hexcodes'[k] = hexcodes[k]
      /\ hexcodes'[Len(hexcodes) + 1] = row
      /\ Single(hexcodes)'
      /\ \A j : j # newid[w] /\ NoRow(hexcodes, j) => NoRow(hexcodes, j)'
  <2>1. Single(hexcodes)
    BY DEF Links
  <2> QED
    BY <1>1, <1>2, <2>1, OwnRow, AppendRow DEF Single, NoRow
<1>4. UniqueIds' /\ Flight'
  BY <1>1, <1>2 DEF Links, UniqueIds, Flight, InFlight, Line
<1>5. Pending'
  <2> SUFFICES ASSUME NEW u \in Workers
               PROVE  /\ pc[u]' = "hex" => NoRow(hexcodes, newid[u])'
                      /\ InFlight(u)' => NoRow(colornames, newid[u])'
    BY DEF Pending
  <2>1. CASE u = w
    BY <1>1, <1>2, <2>1 DEF Links, Pending, InFlight, NoRow
  <2>2. CASE u # w
    <3>1. pc'[u] = pc[u] /\ newid'[u] = newid[u] /\ (InFlight(u)' <=> InFlight(u))
      BY <1>1, <1>2, <2>2 DEF InFlight
    <3>2. InFlight(u) => NoRow(colornames, newid[u])'
      BY <1>1 DEF Links, Pending, NoRow
    <3>3. pc[u] = "hex" => NoRow(hexcodes, newid[u])'
      BY <1>1, <1>3, <2>2, OwnRow DEF Links, Pending, InFlight, NoRow
    <3> QED
      BY <3>1, <3>2, <3>3 DEF NoRow
  <2> QED
    BY <2>1, <2>2
<1>6. Refers(hexcodes)'
  BY <1>1, <1>3, OwnRow DEF Links, Refers
<1>7. Refers(colornames)' /\ Single(colornames)'
  BY <1>1 DEF Links, Refers, Single
<1> QED
  BY <1>3, <1>4, <1>5, <1>6, <1>7 DEF Links

\* colordb_add_typeid_name keeps the links.
LEMMA AddNameLinks ==
  ASSUME Typed, Links, NEW w \in Workers, AddName(w)
  PROVE  Links'
<1> DEFINE row == [blobid |-> newid[w], color |-> Line(w)]
<1>1. /\ pc[w] = "name" /\ InFlight(w) /\ Line(w) \in Colors
      /\ colornames' = Append(colornames, row)
      /\ pc' = [pc EXCEPT ![w] = "line"] /\ pos' = [pos EXCEPT ![w] = @ + 1]
      /\ blobs' = blobs /\ newid' = newid /\ hexcodes' = hexcodes
  BY DEF AddName, AtColor, InFlight, Advance
<1>2. /\ NoRow(colornames, newid[w]) /\ colornames \in Seq(Link)
      /\ pc \in [Workers -> Stages] /\ pos \in [Workers -> Nat \ {0}]
  BY <1>1 DEF Links, Pending, Typed, TypeOK
<1>3. /\ DOMAIN colornames' = DOMAIN colornames \cup {Len(colornames) + 1}
      /\ \A k \in DOMAIN colornames : colornames'[k] = colornames[k]
      /\ colornames'[Len(colornames) + 1] = row
      /\ Single(colornames)'
      /\ \A j : j # newid[w] /\ NoRow(colornames, j) => NoRow(colornames, j)'
  <2>1. Single(colornames)
    BY DEF Links
  <2> QED
    BY <1>1, <1>2, <2>1, OwnRow, AppendRow DEF Single, NoRow
<1>4. UniqueIds'
  BY <1>1 DEF Links, UniqueIds
<1>5. \A u \in Workers :
        InFlight(u)' => u # w /\ InFlight(u) /\ pc'[u] = pc[u] /\ Line(u)' = Line(u)
  BY <1>1, <1>2 DEF InFlight, Line
<1>6. Flight'
  BY <1>1, <1>5 DEF Links, Flight
<1>7. Pending'
  <2> SUFFICES ASSUME NEW u \in Workers
               PROVE  /\ pc[u]' = "hex" => NoRow(hexcodes, newid[u])'
                      /\ InFlight(u)' => NoRow(colornames, newid[u])'
    BY DEF Pending
  <2>1. pc'[u] = "hex" => NoRow(hexcodes, newid[u])'
    BY <1>1, <1>5 DEF Links, Pending, InFlight, NoRow
  <2>2. InFlight(u)' => NoRow(colornames, newid[u])'
    BY <1>1, <1>3, <1>5, OwnRow DEF Links, Pending, NoRow
  <2> QED
    BY <2>1, <2>2
<1>8. Refers(colornames)'
  BY <1>1, <1>3, OwnRow DEF Links, Refers
<1>9. Refers(hexcodes)' /\ Single(hexcodes)'
  BY <1>1 DEF Links, Refers, Single
<1> QED
  BY <1>3, <1>4, <1>6, <1>7, <1>8, <1>9 DEF Links

\* The types and the links hold in every reachable state.
LEMMA LinksInvariant == Spec => [](Typed /\ Links)
<1>1. Init => Links
  BY DEF Init, Links, UniqueIds, Flight, Pending, InFlight, NoRow, Refers, Single
<1>2. Typed /\ Links /\ [Next]_vars => Links'
  BY StepKinds, QuietLinks, AddBlobLinks, AddHexLinks, AddNameLinks
<1> QED
  BY <1>1, <1>2, InitTyped, StepTyped, PTL DEF Spec

(* Every hex row and every name row belongs to a stored blob that holds    *)
(* the colour the row describes, for any number of racing processes.       *)
THEOREM RowsReferToBlobs == Spec => []ReferencesBlobs
<1>1. Typed /\ Links => ReferencesBlobs
  BY DEF Links, Refers, ReferencesBlobs
<1> QED
  BY <1>1, LinksInvariant, PTL

(* No blob ever gets two hex rows or two name rows.                        *)
THEOREM AtMostOneRow == Spec => []OneRowPerBlob
<1>1. Typed /\ Links => OneRowPerBlob
  BY DEF Links, Single, OneRowPerBlob
<1> QED
  BY <1>1, LinksInvariant, PTL
-----------------------------------------------------------------------------
(* Duplicates.                                                             *)

\* A worker about to insert has no blob of that type, or its lookup failed.
Adding ==
  \A w \in Workers : pc[w] = "add" =>
    \A b \in blobs :
      b.by = w /\ b.type = TypeOf[Line(w)] => b.type \in blind

Own == OneBlobPerAdder /\ Adding

\* Every step keeps the blobs of one process apart by type.
LEMMA StepOwn == Typed /\ Own /\ [Next]_vars => Own'
<1> SUFFICES ASSUME Typed, Own, [Next]_vars PROVE Own'
  OBVIOUS
<1> USE DEF Typed, TypeOK, Own
<1>1. ASSUME NEW w \in Workers, AddBlob(w) PROVE Own'
  <2>1. PICK i \in Rowids :
          blobs' = blobs \cup {[id |-> i, type |-> TypeOf[Line(w)],
                                data |-> Line(w), by |-> w]}
    BY <1>1 DEF AddBlob
  <2>2. /\ pc[w] = "add" /\ pc' = [pc EXCEPT ![w] = "hex"]
        /\ pos' = pos /\ blind' = blind
    BY <1>1 DEF AddBlob, AtColor, Goto
  <2>3. \A c \in blobs :
          c.by = w /\ c.type = TypeOf[Line(w)] => c.type \in blind
    BY <2>2 DEF Adding
  <2>4. OneBlobPerAdder'
    BY <2>1, <2>2, <2>3 DEF OneBlobPerAdder
  <2>5. Adding'
    BY <2>1, <2>2 DEF Adding, Line
  <2> QED
    BY <2>4, <2>5
<1>2. ASSUME NEW w \in Workers, NotStored(w) PROVE Own'
  <2>1. /\ Matches(TypeOf[Line(w)]) = {}
        /\ pc' = [pc EXCEPT ![w] = "add"] /\ pos' = pos
        /\ blobs' = blobs /\ blind' = blind
    BY <1>2 DEF NotStored, Goto, tables
  <2> QED
    BY <2>1 DEF OneBlobPerAdder, Adding, Line, Matches
<1>3. ASSUME NEW w \in Workers, LookupFails(w) PROVE Own'
  <2>1. /\ blind' = blind \cup {TypeOf[Line(w)]}
        /\ pc' = [pc EXCEPT ![w] = "add"] /\ pos' = pos
        /\ blobs' = blobs
    BY <1>3 DEF LookupFails, Goto, tables
  <2> QED
    BY <2>1 DEF OneBlobPerAdder, Adding, Line
<1>4. ASSUME /\ blobs' = blobs /\ blind' = blind
             /\ \A u \in Workers :
                  pc'[u] = "add" => pc[u] = "add" /\ pos'[u] = pos[u]
      PROVE  Own'
  BY <1>4 DEF OneBlobPerAdder, Adding, Line
<1>5. ASSUME NEW w \in Workers,
             \/ Start(w) \/ ScanTypeids(w) \/ ScanFails(w) \/ SkipMalformed(w)
             \/ DieOnName(w) \/ AlreadyStored(w) \/ EndOfInput(w) \/ Crash(w)
             \/ AddBlobFails(w) \/ AddHex(w) \/ AddHexFails(w) \/ DieOnHex(w)
             \/ AddName(w) \/ AddNameFails(w)
      PROVE  Own'
  BY <1>4, <1>5
     DEF Start, ScanTypeids, ScanFails, SkipMalformed, DieOnName, AlreadyStored,
         EndOfInput, Crash, DieOnHex, AddBlobFails, AddHex, AddHexFails, AddName, AddNameFails,
         tables, Goto, Advance
<1>6. CASE UNCHANGED vars
  BY <1>4, <1>6 DEF vars
<1> QED
  BY <1>1, <1>2, <1>3, <1>5, <1>6 DEF Next, Step, FailingStep

(* One process never stores two blobs under one type unless a lookup of    *)
(* that type failed, whatever the other processes do.                      *)
THEOREM NoDuplicateByOneAdder == Spec => []OneBlobPerAdder
<1>1. Init => Own
  BY DEF Init, Own, OneBlobPerAdder, Adding
<1>2. Own => OneBlobPerAdder
  BY DEF Own
<1> QED
  BY <1>1, <1>2, InitTyped, StepTyped, StepOwn, PTL DEF Spec
-----------------------------------------------------------------------------
(* The catalogue a reader sees.                                            *)

\* A row whose id exceeds all others is never the oldest of several.
LEMMA OldestKept ==
  ASSUME NEW rows \in SUBSET Blob, rows # {}, NEW new \in Blob,
         \A b \in rows : b.id < new.id
  PROVE  Oldest(rows \cup {new}) = Oldest(rows)
<1>1. new.id \in Int /\ \A b \in rows : b.id \in Int
  BY DEF Blob, Rowids
<1> QED
  BY <1>1 DEF Oldest

\* Inserting a blob publishes a colour, or changes no answer.
LEMMA AddBlobPublishes ==
  ASSUME Typed, NEW w \in Workers, AddBlob(w)
  PROVE  Catalog!Next \/ UNCHANGED View
<1>1. PICK c \in Colors, i \in Rowids :
        /\ IsNextRowid(i)
        /\ blobs' = blobs \cup {[id |-> i, type |-> TypeOf[c], data |-> c, by |-> w]}
  BY LineAtColor DEF AddBlob
<1> DEFINE t0 == TypeOf[c]
           new == [id |-> i, type |-> t0, data |-> c, by |-> w]
<1>2. t0 \in Types
  BY DEF Types
<1>3. new \in Blob /\ new.id = i /\ new.type = t0 /\ new.data = c
  BY <1>2 DEF Blob
<1>4. \A t \in Types : t # t0 => Matches(t)' = Matches(t)
  BY <1>1, <1>3 DEF Matches
<1>5. Matches(t0)' = Matches(t0) \cup {new}
  BY <1>1, <1>3 DEF Matches
<1>6. \A b \in Matches(t0) : b.id < new.id
  BY <1>1, <1>3 DEF Matches, IsNextRowid
<1>7. \A t \in Types : t # t0 => ColordbOne(t)' = ColordbOne(t)
  BY <1>4 DEF ColordbOne
<1> HIDE DEF t0, new
<1>8. CASE Matches(t0) # {}
  <2>1. Matches(t0) \in SUBSET Blob
    BY DEF Typed, TypeOK, Matches
  <2>2. Oldest(Matches(t0)') = Oldest(Matches(t0))
    BY <1>3, <1>5, <1>6, <1>8, <2>1, OldestKept
  <2>3. ColordbOne(t0)' = ColordbOne(t0)
    BY <2>2 DEF ColordbOne
  <2>4. Matches(t0)' # {}
    BY <1>5
  <2>5. \A t \in Types : /\ Matches(t)' = {} <=> Matches(t) = {}
                         /\ ColordbOne(t)' = ColordbOne(t)
    BY <1>4, <1>7, <1>8, <2>3, <2>4
  <2> QED
    BY <2>5 DEF View
<1>9. CASE Matches(t0) = {}
  <2>1. Oldest(Matches(t0)') = {new}
    BY <1>3, <1>5, <1>9 DEF Oldest, Blob, Rowids
  <2>2. ColordbOne(t0)' = c
    BY <1>3, <2>1 DEF ColordbOne
  <2>3. View[t0] = NoColor
    BY <1>2, <1>9 DEF View
  <2>4. Matches(t0)' # {}
    BY <1>5
  <2>5. View' = [View EXCEPT ![t0] = c]
    BY <1>2, <1>4, <1>7, <2>2, <2>4 DEF View
  <2>6. t0 = TypeOf[c]
    BY DEF t0
  <2> QED
    BY <2>3, <2>5, <2>6 DEF Catalog!Next, Catalog!Publish
<1> QED
  BY <1>8, <1>9

(* The store implements the write-once dictionary: the answer colordb_one  *)
(* gives for a type never changes, although racing processes may store     *)
(* the type several times.                                                 *)
THEOREM ImplementsCatalog == Spec => CatalogSpec
<1>1. Init => Catalog!Init
  BY DEF Init, Catalog!Init, Catalog!Types, View, Matches, Types
<1>2. Typed /\ [Next]_vars => [Catalog!Next]_View
  <2> SUFFICES ASSUME Typed, [Next]_vars PROVE Catalog!Next \/ UNCHANGED View
    OBVIOUS
  <2>1. ASSUME blobs' = blobs PROVE UNCHANGED View
    BY <2>1 DEF View, Matches, ColordbOne
  <2> QED
    BY <2>1, StepKinds, AddBlobPublishes DEF Quiet, AddHex, AddName
<1> QED
  BY <1>1, <1>2, InitTyped, StepTyped, PTL DEF Spec, CatalogSpec, Catalog!Spec
-----------------------------------------------------------------------------
(* No line is forgotten.                                                   *)

Walking == {"line", "add", "hex", "name"}

\* A process starts at its first line, and the colour it is writing rows for
\* is itself stored.
Passed ==
  /\ PassedLinesStored
  /\ \A w \in Workers :
       /\ pc[w] = "scan" => pos[w] = 1
       /\ InFlight(w) => Stored(Line(w))

\* What is stored stays stored, and what is accounted for stays so.
LEMMA StoredStays ==
  ASSUME blobs \subseteq blobs', dropped \subseteq dropped', NEW c
  PROVE  /\ Stored(c) => Stored(c)'
         /\ AccountedFor(c) => AccountedFor(c)'
BY DEF Stored, Collides, AccountedFor

\* The database only grows.
LEMMA Grows ==
  ASSUME Typed, [Next]_vars
  PROVE  blobs \subseteq blobs' /\ dropped \subseteq dropped'
<1>1. ASSUME NEW w \in Workers, AddBlob(w) PROVE blobs \subseteq blobs' /\ dropped' = dropped
  BY <1>1 DEF AddBlob
<1>2. ASSUME NEW w \in Workers, Start(w) \/ Step(w) \/ FailingStep(w), ~AddBlob(w)
      PROVE  blobs' = blobs /\ dropped \subseteq dropped'
  BY <1>2 DEF Step, FailingStep, Start, ScanTypeids, ScanFails, SkipMalformed,
              DieOnName, AlreadyStored, NotStored, LookupFails, AddBlobFails,
              AddHex, AddHexFails, DieOnHex, AddName, AddNameFails, EndOfInput,
              Crash, tables
<1>3. CASE UNCHANGED vars
  BY <1>3 DEF vars
<1> QED
  BY <1>1, <1>2, <1>3 DEF Next

\* A process that goes on to its next line leaves one behind that is
\* accounted for.
LEMMA AdvancePassed ==
  ASSUME Typed, Passed, blobs \subseteq blobs', dropped \subseteq dropped',
         NEW w \in Workers, Advance(w), pc[w] \in Walking,
         NEW c, c = Line(w), c \in Colors => AccountedFor(c)'
  PROVE  Passed'
<1>1. /\ pc' = [pc EXCEPT ![w] = "line"] /\ pos' = [pos EXCEPT ![w] = @ + 1]
      /\ pc \in [Workers -> Stages] /\ pos \in [Workers -> Nat \ {0}]
  BY DEF Advance, Typed, TypeOK
<1>2. ASSUME NEW u \in Workers, pc'[u] \in Walking, NEW j \in 1..(pos'[u] - 1),
             Lines[u][j] \in Colors
      PROVE  AccountedFor(Lines[u][j])'
  <2>1. CASE u = w /\ j = pos[w]
    BY <1>2, <2>1 DEF Line
  <2>2. CASE ~(u = w /\ j = pos[w])
    <3>1. pc[u] \in Walking /\ j \in 1..(pos[u] - 1)
      BY <1>1, <1>2, <2>2
    <3> QED
      BY <1>2, <3>1, StoredStays DEF Passed, PassedLinesStored, Walking
  <2> QED
    BY <2>1, <2>2
<1>3. ASSUME NEW u \in Workers, InFlight(u)' PROVE Stored(Line(u))'
  <2>1. u # w /\ InFlight(u) /\ pos'[u] = pos[u]
    BY <1>1, <1>3 DEF InFlight
  <2> QED
    BY <2>1, StoredStays DEF Passed, Line, Stored
<1>4. ASSUME NEW u \in Workers, pc'[u] = "scan" PROVE pos'[u] = 1
  BY <1>1, <1>4 DEF Passed
<1> QED
  BY <1>2, <1>3, <1>4 DEF Passed, PassedLinesStored, Walking

\* A process that stays on its line, or goes back to its first one.
LEMMA StayPassed ==
  ASSUME Typed, Passed, blobs \subseteq blobs', dropped \subseteq dropped',
         \A u \in Workers :
           \/ pos'[u] = 1 /\ ~InFlight(u)'
           \/ /\ pos'[u] = pos[u]
              /\ pc'[u] \in Walking => pc[u] \in Walking
              /\ pc'[u] # "scan"
              /\ InFlight(u)' => InFlight(u) \/ Stored(Line(u))'
           \/ pos'[u] = pos[u] /\ pc'[u] = pc[u]
  PROVE  Passed'
<1>1. ASSUME NEW u \in Workers, pc'[u] \in Walking, NEW j \in 1..(pos'[u] - 1),
             Lines[u][j] \in Colors
      PROVE  AccountedFor(Lines[u][j])'
  <2>1. pos'[u] # 1
    BY <1>1
  <2>2. pos'[u] = pos[u] /\ pc[u] \in Walking
    BY <1>1, <2>1
  <2> QED
    BY <1>1, <2>2, StoredStays DEF Passed, PassedLinesStored, Walking
<1>2. ASSUME NEW u \in Workers, InFlight(u)' PROVE Stored(Line(u))'
  <2>1. pos'[u] = pos[u] /\ (InFlight(u) \/ Stored(Line(u))')
    BY <1>2 DEF InFlight
  <2> QED
    BY <2>1, StoredStays DEF Passed, Line, Stored
<1>3. ASSUME NEW u \in Workers, pc'[u] = "scan" PROVE pos'[u] = 1
  BY <1>3 DEF Passed
<1> QED
  BY <1>1, <1>2, <1>3 DEF Passed, PassedLinesStored, Walking

\* Every step keeps the passed lines accounted for.
LEMMA StepPassed == Typed /\ Passed /\ [Next]_vars => Passed'
<1> SUFFICES ASSUME Typed, Passed, [Next]_vars PROVE Passed'
  OBVIOUS
<1>1. blobs \subseteq blobs' /\ dropped \subseteq dropped'
  BY Grows
<1> USE DEF Typed, TypeOK
<1>2. ASSUME NEW w \in Workers, SkipMalformed(w) PROVE Passed'
  BY <1>1, <1>2, AdvancePassed, StoreAssumption DEF SkipMalformed, Walking
<1>3. ASSUME NEW w \in Workers, AlreadyStored(w) PROVE Passed'
  <2>1. PICK c : c = Line(w)
    OBVIOUS
  <2>2. AccountedFor(c)'
    BY <1>3, <2>1 DEF AlreadyStored, AccountedFor, Stored, Collides, Matches, tables
  <2>3. Advance(w) /\ pc[w] \in Walking
    BY <1>3 DEF AlreadyStored, AtColor, Walking
  <2> QED
    BY <1>1, <2>1, <2>2, <2>3, AdvancePassed
<1>4. ASSUME NEW w \in Workers, AddBlobFails(w) PROVE Passed'
  <2>1. PICK c : c = Line(w)
    OBVIOUS
  <2>2. AccountedFor(c)'
    BY <1>4, <2>1 DEF AddBlobFails, AccountedFor
  <2>3. Advance(w) /\ pc[w] \in Walking
    BY <1>4 DEF AddBlobFails, AtColor, Walking
  <2> QED
    BY <1>1, <2>1, <2>2, <2>3, AdvancePassed
<1>5. ASSUME NEW w \in Workers, AddName(w) \/ AddNameFails(w) PROVE Passed'
  <2>1. InFlight(w) /\ pc[w] \in Walking /\ Advance(w)
    BY <1>5 DEF AddName, AddNameFails, AtColor, InFlight, Walking
  <2>2. PICK c : c = Line(w)
    OBVIOUS
  <2>3. Stored(c)
    BY <2>1, <2>2 DEF Passed
  <2>4. AccountedFor(c)'
    BY <1>1, <2>3, StoredStays DEF AccountedFor
  <2> QED
    BY <1>1, <2>1, <2>2, <2>4, AdvancePassed
<1>6. ASSUME NEW w \in Workers, AddBlob(w) PROVE Passed'
  <2>1. PICK i \in Rowids :
          blobs' = blobs \cup {[id |-> i, type |-> TypeOf[Line(w)],
                                data |-> Line(w), by |-> w]}
    BY <1>6 DEF AddBlob
  <2>2. pos' = pos /\ pc' = [pc EXCEPT ![w] = "hex"] /\ pc[w] = "add"
    BY <1>6 DEF AddBlob, Goto, AtColor
  <2> DEFINE new == [id |-> i, type |-> TypeOf[Line(w)], data |-> Line(w), by |-> w]
  <2>3. Stored(Line(w))'
    <3>1. Line(w)' = Line(w)
      BY <2>2 DEF Line
    <3>2. new \in blobs' /\ new.data = Line(w)
      BY <2>1
    <3> HIDE DEF new
    <3> QED
      BY <3>1, <3>2 DEF Stored
  <2> QED
    BY <1>1, <2>2, <2>3, StayPassed DEF InFlight, Walking
<1>7. ASSUME NEW w \in Workers, Start(w) PROVE Passed'
  BY <1>1, <1>7, StayPassed DEF Start, InFlight
<1>8. ASSUME NEW w \in Workers, ScanTypeids(w) \/ ScanFails(w) PROVE Passed'
  <2>1. /\ pos' = pos /\ pos[w] = 1 /\ pc'[w] \in {"hung", "line"}
        /\ \A u \in Workers \ {w} : pc'[u] = pc[u]
    BY <1>8 DEF ScanTypeids, ScanFails, Goto, Passed
  <2> QED
    BY <1>1, <2>1, StayPassed DEF InFlight
<1>9. ASSUME NEW w \in Workers,
             \/ DieOnName(w) \/ NotStored(w) \/ LookupFails(w) \/ AddHex(w)
             \/ AddHexFails(w) \/ DieOnHex(w) \/ EndOfInput(w) \/ Crash(w)
      PROVE  Passed'
  <2>1. /\ pos' = pos
        /\ \A u \in Workers \ {w} : pc'[u] = pc[u]
        /\ \/ pc'[w] = "idle"
           \/ pc'[w] = "add" /\ pc[w] = "line"
           \/ pc'[w] = "name" /\ pc[w] = "hex"
    BY <1>9 DEF DieOnName, NotStored, LookupFails, AddHex, AddHexFails, DieOnHex,
                EndOfInput, Crash, Goto, AtColor
  <2> QED
    BY <1>1, <2>1, StayPassed DEF InFlight, Walking
<1>10. CASE UNCHANGED vars
  BY <1>1, <1>10, StayPassed DEF vars
<1> QED
  BY <1>2, <1>3, <1>4, <1>5, <1>6, <1>7, <1>8, <1>9, <1>10
     DEF Next, Step, FailingStep

(* parse_colors_json forgets no line: whatever fails and whoever races,    *)
(* each well-formed line it has passed is stored itself, or its own insert *)
(* failed, or a stored colour of another name has its type.                *)
THEOREM NoLineForgotten == Spec => []PassedLinesStored
<1>1. Init => Passed
  BY DEF Init, Passed, PassedLinesStored, InFlight
<1>2. Passed => PassedLinesStored
  BY DEF Passed
<1> QED
  BY <1>1, <1>2, InitTyped, StepTyped, StepPassed, PTL DEF Spec
-----------------------------------------------------------------------------
(* Complete or torn.                                                       *)

\* A process that has left the hex row behind has written it, or lost it.
HexDone ==
  \A w \in Workers : pc[w] = "name" =>
    RowsOf(hexcodes, newid[w]) # {} \/ newid[w] \in torn

Complete == CompleteOrTorn /\ HexDone

\* Rows are only appended.
LEMMA RowsStay ==
  ASSUME NEW table \in Seq(Link), NEW row \in Link, NEW i,
         RowsOf(table, i) # {} \/ row.blobid = i
  PROVE  RowsOf(Append(table, row), i) # {}
<1>1. /\ DOMAIN Append(table, row) = DOMAIN table \cup {Len(table) + 1}
      /\ \A k \in DOMAIN table : Append(table, row)[k] = table[k]
      /\ Append(table, row)[Len(table) + 1] = row
  OBVIOUS
<1> QED
  BY <1>1 DEF RowsOf

\* The rows a process in flight writes are rows.
LEMMA OwnLink ==
  ASSUME Typed, NEW w \in Workers, InFlight(w), Line(w) \in Colors
  PROVE  [blobid |-> newid[w], color |-> Line(w)] \in Link
BY DEF Typed, InFlightIds, Link

\* A step that loses no row and ends no process in flight.
LEMMA CalmComplete ==
  ASSUME Complete,
         UNCHANGED <<blobs, hexcodes, colornames, newid, torn>>,
         \A u \in Workers : (InFlight(u)' <=> InFlight(u)) /\ (pc'[u] = "name" => pc[u] = "name")
  PROVE  Complete'
BY DEF Complete, CompleteOrTorn, HexDone, RowsOf

\* A process loses a row of its blob, which is torn from then on.
LEMMA TearComplete ==
  ASSUME Complete, NEW w \in Workers,
         UNCHANGED <<blobs, hexcodes, colornames, newid>>,
         torn' = torn \cup {newid[w]},
         \A u \in Workers \ {w} : pc'[u] = pc[u]
  PROVE  Complete'
BY DEF Complete, CompleteOrTorn, HexDone, RowsOf, InFlight

\* Every step keeps the blobs complete or torn.
LEMMA StepComplete == Typed /\ Complete /\ [Next]_vars => Complete'
<1> SUFFICES ASSUME Typed, Complete, [Next]_vars PROVE Complete'
  OBVIOUS
<1> USE DEF Typed, TypeOK
<1>1. ASSUME NEW w \in Workers, AddBlob(w) PROVE Complete'
  <2>1. PICK i \in Rowids :
          /\ blobs' = blobs \cup {[id |-> i, type |-> TypeOf[Line(w)],
                                   data |-> Line(w), by |-> w]}
          /\ newid' = [newid EXCEPT ![w] = i]
    BY <1>1 DEF AddBlob
  <2>2. /\ pc[w] = "add" /\ pc' = [pc EXCEPT ![w] = "hex"]
        /\ UNCHANGED <<hexcodes, colornames, torn>>
    BY <1>1 DEF AddBlob, AtColor, Goto
  <2>3. InFlight(w)' /\ newid'[w] = i
    BY <2>1, <2>2 DEF InFlight
  <2>4. \A u \in Workers : InFlight(u) => InFlight(u)' /\ newid'[u] = newid[u]
    BY <2>1, <2>2 DEF InFlight
  <2>5. CompleteOrTorn'
    <3> SUFFICES ASSUME NEW b \in blobs'
                 PROVE  \/ RowsOf(hexcodes, b.id) # {} /\ RowsOf(colornames, b.id) # {}
                        \/ b.id \in torn
                        \/ \E u \in Workers : InFlight(u)' /\ newid'[u] = b.id
      BY <2>2 DEF CompleteOrTorn, RowsOf
    <3>1. CASE b \in blobs
      BY <2>4, <3>1 DEF Complete, CompleteOrTorn
    <3>2. CASE b \notin blobs
      BY <2>1, <2>3, <3>2
    <3> QED
      BY <3>1, <3>2
  <2>6. HexDone'
    BY <2>1, <2>2 DEF Complete, HexDone, RowsOf
  <2> QED
    BY <2>5, <2>6 DEF Complete
<1>2. ASSUME NEW w \in Workers, AddHex(w) PROVE Complete'
  <2> DEFINE row == [blobid |-> newid[w], color |-> Line(w)]
  <2>1. /\ pc[w] = "hex" /\ Line(w) \in Colors /\ hexcodes' = Append(hexcodes, row)
        /\ pc' = [pc EXCEPT ![w] = "name"]
        /\ UNCHANGED <<blobs, colornames, newid, torn>>
    BY <1>2 DEF AddHex, AtColor, Goto
  <2>2. row \in Link /\ row.blobid = newid[w]
    BY <2>1, OwnLink DEF InFlight
  <2> HIDE DEF row
  <2>3. \A i : RowsOf(hexcodes, i) # {} => RowsOf(hexcodes', i) # {}
    BY <2>1, <2>2, RowsStay
  <2>4. RowsOf(hexcodes', newid[w]) # {}
    BY <2>1, <2>2, RowsStay
  <2>5. \A u \in Workers : InFlight(u)' <=> InFlight(u)
    BY <2>1 DEF InFlight
  <2>6. CompleteOrTorn'
    BY <2>1, <2>3, <2>5 DEF Complete, CompleteOrTorn, RowsOf
  <2>7. HexDone'
    BY <2>1, <2>3, <2>4 DEF Complete, HexDone, RowsOf
  <2> QED
    BY <2>6, <2>7 DEF Complete
<1>3. ASSUME NEW w \in Workers, AddName(w) PROVE Complete'
  <2> DEFINE row == [blobid |-> newid[w], color |-> Line(w)]
  <2>1. /\ pc[w] = "name" /\ Line(w) \in Colors
        /\ colornames' = Append(colornames, row)
        /\ pc' = [pc EXCEPT ![w] = "line"]
        /\ UNCHANGED <<blobs, hexcodes, newid, torn>>
    BY <1>3 DEF AddName, AtColor, Advance
  <2>2. row \in Link /\ row.blobid = newid[w]
    BY <2>1, OwnLink DEF InFlight
  <2> HIDE DEF row
  <2>3. \A i : RowsOf(colornames, i) # {} => RowsOf(colornames', i) # {}
    BY <2>1, <2>2, RowsStay
  <2>4. RowsOf(colornames', newid[w]) # {}
    BY <2>1, <2>2, RowsStay
  <2>5. RowsOf(hexcodes, newid[w]) # {} \/ newid[w] \in torn
    BY <2>1 DEF Complete, HexDone
  <2>6. CompleteOrTorn'
    <3> SUFFICES ASSUME NEW b \in blobs
                 PROVE  \/ RowsOf(hexcodes, b.id) # {} /\ RowsOf(colornames', b.id) # {}
                        \/ b.id \in torn
                        \/ \E u \in Workers : InFlight(u)' /\ newid[u] = b.id
      BY <2>1 DEF CompleteOrTorn, RowsOf
    <3>1. CASE b.id = newid[w]
      BY <2>4, <2>5, <3>1
    <3>2. ASSUME NEW u \in Workers, InFlight(u), newid[u] = b.id, b.id # newid[w]
          PROVE  InFlight(u)'
      BY <2>1, <3>2 DEF InFlight
    <3> QED
      BY <2>3, <3>1, <3>2 DEF Complete, CompleteOrTorn
  <2>7. HexDone'
    BY <2>1 DEF Complete, HexDone, RowsOf
  <2> QED
    BY <2>6, <2>7 DEF Complete
<1>4. ASSUME NEW w \in Workers, AddHexFails(w) \/ AddNameFails(w) \/ DieOnHex(w)
      PROVE  Complete'
  BY <1>4, TearComplete
     DEF AddHexFails, AddNameFails, DieOnHex, Goto, Advance, tables
<1>5. ASSUME NEW w \in Workers, Crash(w) PROVE Complete'
  <2>1. CASE InFlight(w)
    BY <1>5, <2>1, TearComplete DEF Crash, Goto, tables, InFlight
  <2>2. CASE ~InFlight(w)
    BY <1>5, <2>2, CalmComplete DEF Crash, Goto, tables, InFlight
  <2> QED
    BY <2>1, <2>2
<1>6. ASSUME NEW w \in Workers,
             \/ Start(w) \/ ScanTypeids(w) \/ ScanFails(w) \/ SkipMalformed(w)
             \/ DieOnName(w) \/ AlreadyStored(w) \/ NotStored(w)
             \/ LookupFails(w) \/ AddBlobFails(w) \/ EndOfInput(w)
      PROVE  Complete'
  <2>1. /\ UNCHANGED <<blobs, hexcodes, colornames, newid, torn>>
        /\ pc[w] \notin {"hex", "name"} /\ pc'[w] \notin {"hex", "name"}
        /\ \A u \in Workers \ {w} : pc'[u] = pc[u]
    BY <1>6 DEF Start, ScanTypeids, ScanFails, SkipMalformed, DieOnName,
                AlreadyStored, NotStored, LookupFails, AddBlobFails, EndOfInput,
                AtColor, Goto, Advance, tables
  <2> QED
    BY <2>1, CalmComplete DEF InFlight
<1>7. CASE UNCHANGED vars
  BY <1>7, CalmComplete DEF vars, InFlight
<1> QED
  BY <1>1, <1>2, <1>3, <1>4, <1>5, <1>6, <1>7 DEF Next, Step, FailingStep

(* A blob without its two rows is being written, or a fault tore it: races *)
(* and reruns leave nothing half written.                                  *)
THEOREM OnlyFaultsTear == Spec => []CompleteOrTorn
<1>1. Init => Complete
  BY DEF Init, Complete, CompleteOrTorn, HexDone
<1>2. Complete => CompleteOrTorn
  BY DEF Complete
<1> QED
  BY <1>1, <1>2, InitTyped, StepTyped, StepComplete, PTL DEF Spec
-----------------------------------------------------------------------------
(* Torn for ever.                                                          *)

\* What a torn blob lacks, and who may still write rows for one.
Torn ==
  /\ \A i \in torn : NoRow(hexcodes, i) \/ NoRow(colornames, i)
  /\ \A i \in torn : \E b \in blobs : b.id = i
  /\ \A w \in Workers : pc[w] = "hex" => newid[w] \notin torn
  /\ \A w \in Workers :
       pc[w] = "name" /\ newid[w] \in torn => NoRow(hexcodes, newid[w])

\* A step that writes no row and tears no blob.
LEMMA CalmTorn ==
  ASSUME Torn, UNCHANGED <<blobs, hexcodes, colornames, newid, torn>>,
         \A u \in Workers : pc'[u] \in {"hex", "name"} => pc'[u] = pc[u]
  PROVE  Torn'
BY DEF Torn, NoRow

\* The line of a process in flight is a colour: it is its blob's data.
LEMMA FlightLine ==
  ASSUME Typed, Links, NEW w \in Workers, InFlight(w)
  PROVE  Line(w) \in Colors
BY DEF Typed, TypeOK, Links, Flight, Blob

\* A process in flight loses a row: its blob has no name row yet, and no
\* other process writes rows for it.
LEMMA TearTorn ==
  ASSUME Typed, Links, Torn,
         NEW w \in Workers, InFlight(w), Line(w) \in Colors,
         UNCHANGED <<blobs, hexcodes, colornames, newid>>,
         torn' = torn \cup {newid[w]},
         \A u \in Workers \ {w} : pc'[u] = pc[u],
         pc'[w] # "hex",
         pc'[w] = "name" => NoRow(hexcodes, newid[w])
  PROVE  Torn'
<1>1. NoRow(colornames, newid[w])
  BY DEF Links, Pending
<1>2. \E b \in blobs : b.id = newid[w]
  BY OwnRow
<1>3. \A u \in Workers \ {w} : InFlight(u) => newid[u] # newid[w]
  BY OwnRow
<1> QED
  BY <1>1, <1>2, <1>3 DEF Torn, NoRow, InFlight

\* Every step keeps torn blobs torn.
LEMMA StepTorn == Typed /\ Links /\ Torn /\ [Next]_vars => Torn'
<1> SUFFICES ASSUME Typed, Links, Torn, [Next]_vars PROVE Torn'
  OBVIOUS
<1> USE DEF Typed, TypeOK
<1>1. ASSUME NEW w \in Workers, AddBlob(w) PROVE Torn'
  <2>1. PICK i \in Rowids :
          /\ IsNextRowid(i)
          /\ blobs' = blobs \cup {[id |-> i, type |-> TypeOf[Line(w)],
                                   data |-> Line(w), by |-> w]}
          /\ newid' = [newid EXCEPT ![w] = i]
    BY <1>1 DEF AddBlob
  <2>2. /\ pc' = [pc EXCEPT ![w] = "hex"]
        /\ UNCHANGED <<hexcodes, colornames, torn>>
    BY <1>1 DEF AddBlob, Goto
  <2>3. \A b \in blobs : b.id \in Int /\ b.id < i
    BY <2>1 DEF IsNextRowid, Blob, Rowids
  <2>4. i \notin torn
    <3>1. i \in Int
      BY <2>1, StoreAssumption DEF Rowids
    <3> QED
      BY ONLY <2>3, <3>1, Torn DEF Torn
  <2>5. blobs \subseteq blobs' /\ newid' = [newid EXCEPT ![w] = i]
    BY <2>1
  <2>6. \A j \in torn' : \E b \in blobs' : b.id = j
    BY ONLY <2>2, <2>5, Torn DEF Torn
  <2>7. \A u \in Workers : pc'[u] = "hex" => newid'[u] \notin torn'
    BY <2>2, <2>4, <2>5 DEF Torn
  <2>8. \A u \in Workers :
          pc'[u] = "name" /\ newid'[u] \in torn' => NoRow(hexcodes', newid'[u])
    BY <2>2, <2>5 DEF Torn
  <2>9. \A j \in torn' : NoRow(hexcodes', j) \/ NoRow(colornames', j)
    BY ONLY <2>2, Torn DEF Torn
  <2> QED
    BY ONLY <2>6, <2>7, <2>8, <2>9 DEF Torn, NoRow
<1>2. ASSUME NEW w \in Workers, AddHex(w) PROVE Torn'
  <2> DEFINE row == [blobid |-> newid[w], color |-> Line(w)]
  <2>1. /\ pc[w] = "hex" /\ Line(w) \in Colors /\ hexcodes' = Append(hexcodes, row)
        /\ pc' = [pc EXCEPT ![w] = "name"]
        /\ UNCHANGED <<blobs, colornames, newid, torn>>
    BY <1>2 DEF AddHex, AtColor, Goto
  <2>2. newid[w] \in Rowids /\ NoRow(hexcodes, newid[w]) /\ newid[w] \notin torn
    BY <2>1 DEF InFlightIds, InFlight, Links, Pending, Torn
  <2>3. \A j : j # newid[w] /\ NoRow(hexcodes, j) => NoRow(hexcodes', j)
    BY <2>1, <2>2, AppendRow
  <2> QED
    BY <2>1, <2>2, <2>3 DEF Torn, NoRow
<1>3. ASSUME NEW w \in Workers, AddName(w) PROVE Torn'
  <2> DEFINE row == [blobid |-> newid[w], color |-> Line(w)]
  <2>1. /\ pc[w] = "name" /\ Line(w) \in Colors
        /\ colornames' = Append(colornames, row)
        /\ pc' = [pc EXCEPT ![w] = "line"]
        /\ UNCHANGED <<blobs, hexcodes, newid, torn>>
    BY <1>3 DEF AddName, AtColor, Advance
  <2>2. newid[w] \in Rowids /\ NoRow(colornames, newid[w])
    BY <2>1 DEF InFlightIds, InFlight, Links, Pending
  <2>3. \A j : j # newid[w] /\ NoRow(colornames, j) => NoRow(colornames', j)
    BY <2>1, <2>2, AppendRow
  <2>4. newid[w] \in torn => NoRow(hexcodes, newid[w])
    BY <2>1 DEF Torn
  <2> QED
    BY <2>1, <2>3, <2>4 DEF Torn, NoRow
<1>4. ASSUME NEW w \in Workers, AddHexFails(w) \/ DieOnHex(w) PROVE Torn'
  <2>1. /\ pc[w] = "hex" /\ Line(w) \in Colors
        /\ UNCHANGED <<blobs, hexcodes, colornames, newid>>
        /\ torn' = torn \cup {newid[w]}
        /\ pc'[w] \in {"name", "idle"} /\ \A u \in Workers \ {w} : pc'[u] = pc[u]
    BY <1>4 DEF AddHexFails, DieOnHex, AtColor, Goto, tables
  <2>2. NoRow(hexcodes, newid[w])
    BY <2>1 DEF Links, Pending
  <2> QED
    BY <2>1, <2>2, TearTorn DEF InFlight
<1>5. ASSUME NEW w \in Workers, AddNameFails(w) PROVE Torn'
  <2>1. /\ pc[w] = "name" /\ Line(w) \in Colors
        /\ UNCHANGED <<blobs, hexcodes, colornames, newid>>
        /\ torn' = torn \cup {newid[w]}
        /\ pc'[w] = "line" /\ \A u \in Workers \ {w} : pc'[u] = pc[u]
    BY <1>5 DEF AddNameFails, AtColor, Advance, tables
  <2> QED
    BY <2>1, TearTorn DEF InFlight
<1>6. ASSUME NEW w \in Workers, Crash(w) PROVE Torn'
  <2>1. /\ UNCHANGED <<blobs, hexcodes, colornames, newid>>
        /\ torn' = IF InFlight(w) THEN torn \cup {newid[w]} ELSE torn
        /\ pc'[w] = "idle" /\ \A u \in Workers \ {w} : pc'[u] = pc[u]
    BY <1>6 DEF Crash, Goto, tables, InFlight
  <2>2. CASE InFlight(w)
    <3>1. Line(w) \in Colors
      BY <2>2, FlightLine
    <3> QED
      BY <2>1, <2>2, <3>1, TearTorn
  <2>3. CASE ~InFlight(w)
    BY <2>1, <2>3, CalmTorn
  <2> QED
    BY <2>2, <2>3
<1>7. ASSUME NEW w \in Workers,
             \/ Start(w) \/ ScanTypeids(w) \/ ScanFails(w) \/ SkipMalformed(w)
             \/ DieOnName(w) \/ AlreadyStored(w) \/ NotStored(w)
             \/ LookupFails(w) \/ AddBlobFails(w) \/ EndOfInput(w)
      PROVE  Torn'
  <2>1. /\ UNCHANGED <<blobs, hexcodes, colornames, newid, torn>>
        /\ pc'[w] \notin {"hex", "name"}
        /\ \A u \in Workers \ {w} : pc'[u] = pc[u]
    BY <1>7 DEF Start, ScanTypeids, ScanFails, SkipMalformed, DieOnName,
                AlreadyStored, NotStored, LookupFails, AddBlobFails, EndOfInput,
                Goto, Advance, tables
  <2> QED
    BY <2>1, CalmTorn
<1>8. CASE UNCHANGED vars
  BY <1>8, CalmTorn DEF vars
<1> QED
  BY <1>1, <1>2, <1>3, <1>4, <1>5, <1>6, <1>7, <1>8 DEF Next, Step, FailingStep

(* A torn blob never gets its missing row, however often the input is      *)
(* processed again.                                                        *)
THEOREM TornForEver == Spec => []NeverRepaired
<1>1. Init => Torn
  BY DEF Init, Torn
<1>2. Torn => NeverRepaired
  BY DEF Torn, NeverRepaired, NoRow, RowsOf
<1> QED
  BY <1>1, <1>2, LinksInvariant, StepTorn, PTL DEF Spec
=============================================================================
