-------------------------- MODULE TypeidScan_proofs -------------------------
(***************************************************************************)
(* Packed integer lists, for any number of rows of any width and all four  *)
(* loops: unless an allocation fails, the builder and the loops stay       *)
(* inside the buffer, and a loop converts every row once, in order.        *)
(***************************************************************************)
EXTENDS TypeidScan, SequenceTheorems, TLAPS

TypeOK ==
  /\ rows \in Seq(Row)
  /\ style \in {"hash", "ids", "load", "rows"}
  /\ phase \in {"read", "walk", "done", "fault"}
  /\ size \in Nat /\ qty \in Nat /\ qty <= Len(rows)
  /\ at \in Nat /\ processed \in Nat
  /\ visited \in Seq(Nat)
  /\ failed \in BOOLEAN
  /\ phase = "read" => ~failed /\ at = 0 /\ processed = 0 /\ visited = << >>

\* The layout of the buffer: off[k] cells hold the first k rows, the digits of
\* row k are followed by its NUL, and there is nothing behind the last row.
Laid(off) ==
  /\ off \in [0..qty -> Nat]
  /\ off[0] = 0 /\ off[qty] = size + qty
  /\ \A k \in 0..qty : off[k] <= size + qty
  /\ \A k \in 1..qty :
       /\ off[k] = off[k - 1] + rows[k].width + 1
       /\ \A j \in (off[k - 1] + 1)..(off[k] - 1) : buf[j] = k
       /\ buf[off[k]] = Nul
  /\ buf \in Seq(Int) /\ Len(buf) = size + qty

\* Where a loop is after converting rows: at the next row or at the NUL of the
\* last one, and it has counted them all, or all but that one.
Walked(off) ==
  LET v == Len(visited) IN
    /\ v <= qty
    /\ \A k \in 1..v : visited[k] = k
    /\ \/ at = off[v] /\ processed = v
       \/ /\ v > 0 /\ at = off[v] - 1
          /\ processed = IF CountsAtDigits THEN v ELSE v - 1
    /\ phase = "done" => processed >= qty

IInv ==
  /\ TypeOK
  /\ failed => buf = NoBuffer /\ visited = << >>
  /\ ~failed => phase # "fault" /\ \E off : Laid(off) /\ Walked(off)

\* A row has at least one digit.
LEMMA WidthFacts ==
  ASSUME TypeOK, NEW k \in 1..Len(rows)
  PROVE  rows[k].width \in Nat \ {0}
<1>1. rows[k] \in Row /\ MaxWidth \in Nat
  BY ElementOfSeq, ScanAssumption DEF TypeOK
<1> QED
  BY <1>1 DEF Row

\* Before the first row nothing is packed or visited.
LEMMA InitInv == Init => IInv
<1> SUFFICES ASSUME Init PROVE IInv
  OBVIOUS
<1>1. PICK n \in 0..MaxRows : rows \in [1..n -> Row]
  BY DEF Init
<1>2. rows \in Seq(Row) /\ Len(rows) = n /\ n \in Nat
  BY <1>1, ScanAssumption
<1>3. TypeOK
  <2>1. style \in {"hash", "ids", "load", "rows"} /\ << >> \in Seq(Nat)
    BY ScanAssumption DEF Init
  <2>2. /\ phase = "read" /\ size = 0 /\ qty = 0 /\ at = 0 /\ processed = 0
        /\ visited = << >> /\ ~failed /\ failed \in BOOLEAN
    BY DEF Init
  <2>3. qty <= Len(rows)
    BY <1>2, <2>2
  <2> QED
    BY <1>2, <2>1, <2>2, <2>3 DEF TypeOK
<1> DEFINE none == [k \in 0..0 |-> 0]
<1>4. /\ qty = 0 /\ size = 0 /\ at = 0 /\ processed = 0 /\ visited = << >> /\ buf = << >>
      /\ phase = "read" /\ failed = FALSE /\ Len(<< >>) = 0 /\ << >> \in Seq(Int)
  BY DEF Init, NoBuffer
<1>5. Laid(none)
  BY <1>4 DEF Laid
<1>6. Walked(none)
  BY <1>4 DEF Walked
<1> QED
  BY <1>3, <1>4, <1>5, <1>6 DEF IInv
-----------------------------------------------------------------------------
(* The builder.                                                            *)

\* The buffer always has room for exactly the rows so far and the next.
LEMMA RoomFacts ==
  ASSUME TypeOK, NEW off, Laid(off), NEW width \in Nat \ {0}
  PROVE  Room(width) = size + width + 1 + qty
<1>1. /\ Len(buf) = size + qty /\ size \in Nat /\ qty \in Nat
  BY DEF Laid, TypeOK
<1>2. CASE buf = NoBuffer
  <2>1. Len(buf) = 0
    BY <1>2 DEF NoBuffer
  <2>2. size = 0 /\ qty = 0
    BY <1>1, <2>1
  <2> QED
    BY <1>2, <2>2 DEF Room
<1>3. CASE buf # NoBuffer
  BY <1>3 DEF Room
<1> QED
  BY <1>2, <1>3

\* One row more leaves the earlier ones where they are.
LEMMA PackedFacts ==
  ASSUME TypeOK, NEW off, Laid(off), NEW width \in Nat \ {0}
  PROVE  LET p == Packed(width) IN
           /\ p \in Seq(Int) /\ Len(p) = size + qty + width + 1
           /\ \A j \in 1..(size + qty) : p[j] = buf[j]
           /\ \A j \in (size + qty + 1)..(size + qty + width) : p[j] = qty + 1
           /\ p[size + qty + width + 1] = Nul
<1> DEFINE start == size + qty
           cell(j) == CASE j <= start -> (IF j <= Len(buf) THEN buf[j] ELSE Junk)
                        [] j > start /\ j <= start + width -> qty + 1
                        [] j = start + width + 1 -> Nul
                        [] OTHER -> Junk
           last == start + width + 1
<1>1. /\ start \in Nat /\ width \in Nat /\ last \in Nat /\ last = start + width + 1
      /\ qty + 1 \in Int /\ Len(buf) = start
  BY DEF TypeOK, Laid
<1>2. Packed(width) = [j \in 1..last |-> cell(j)]
  <2>1. Room(width) = last
    BY RoomFacts DEF TypeOK
  <2> QED
    BY <2>1 DEF Packed
<1>3. \A j \in 1..start : buf[j] \in Int
  BY ElementOfSeq DEF Laid
<1> HIDE DEF last, start
<1>4. ASSUME NEW j \in 1..start PROVE j \in 1..last /\ cell(j) = buf[j]
  BY <1>1, <1>4
<1>5. ASSUME NEW j \in (start + 1)..(start + width) PROVE j \in 1..last /\ cell(j) = qty + 1
  BY <1>1, <1>5
<1>6. last \in 1..last /\ cell(last) = Nul
  BY <1>1
<1>7. ASSUME NEW j \in 1..last PROVE cell(j) \in Int
  <2>1. j \in 1..start \/ j \in (start + 1)..(start + width) \/ j = last
    BY <1>1, <1>7
  <2> QED
    BY <1>1, <1>3, <1>4, <1>5, <1>6, <2>1 DEF Nul
<1> HIDE DEF cell
<1>8. Packed(width) \in [1..last -> Int]
  BY <1>2, <1>7
<1>9. Packed(width) \in Seq(Int) /\ Len(Packed(width)) = last
  BY <1>1, <1>8
<1>10. /\ \A j \in 1..start : Packed(width)[j] = buf[j]
       /\ \A j \in (start + 1)..(start + width) : Packed(width)[j] = qty + 1
       /\ Packed(width)[last] = Nul
  BY <1>2, <1>4, <1>5, <1>6
<1> QED
  BY <1>9, <1>10 DEF start, last

\* The layout after one row more.
LEMMA PackStep ==
  ASSUME TypeOK, ~failed, NEW off, Laid(off), Walked(off), PackRow
  PROVE  /\ TypeOK' /\ ~failed' /\ phase' # "fault"
         /\ \E new : Laid(new)' /\ Walked(new)'
<1> DEFINE start == size + qty
<1>0. PICK width \in Nat \ {0} : width = rows[qty + 1].width
  <2>1. qty + 1 \in 1..Len(rows)
    BY DEF PackRow, TypeOK
  <2> QED
    BY <2>1, WidthFacts
<1>1. /\ phase = "read" /\ qty < Len(rows)
      /\ phase' = IF start + width + 1 > Room(width) THEN "fault" ELSE "read"
      /\ buf' = Packed(width) /\ size' = size + width /\ qty' = qty + 1
      /\ UNCHANGED <<rows, style, at, processed, visited, failed>>
  BY <1>0 DEF PackRow
<1>2. /\ size \in Nat /\ qty \in Nat /\ start \in Nat
      /\ at = 0 /\ processed = 0 /\ visited = << >>
  BY <1>1 DEF TypeOK
<1>3. phase' = "read"
  <2>1. Room(width) = size + width + 1 + qty
    BY RoomFacts
  <2> QED
    BY <1>1, <1>2, <2>1
<1>4. TypeOK'
  <2>1. size' \in Nat /\ qty' \in Nat /\ qty' <= Len(rows)
    <3>1. Len(rows) \in Nat
      BY DEF TypeOK
    <3> QED
      BY <1>1, <1>2, <3>1
  <2> QED
    BY <1>1, <1>3, <2>1 DEF TypeOK
<1>5. /\ buf' \in Seq(Int) /\ Len(buf') = start + width + 1
      /\ \A j \in 1..start : buf'[j] = buf[j]
      /\ \A j \in (start + 1)..(start + width) : buf'[j] = qty + 1
      /\ buf'[start + width + 1] = Nul
  BY <1>1, PackedFacts
<1> DEFINE new == [k \in 0..(qty + 1) |-> IF k = qty + 1 THEN start + width + 1 ELSE off[k]]
<1>6. PICK f : f = new
  OBVIOUS
<1>7. /\ off \in [0..qty -> Nat] /\ off[0] = 0 /\ off[qty] = start
      /\ \A k \in 0..qty : off[k] <= start
      /\ \A k \in 1..qty : /\ off[k] = off[k - 1] + rows[k].width + 1
                           /\ \A j \in (off[k - 1] + 1)..(off[k] - 1) : buf[j] = k
                           /\ buf[off[k]] = Nul
  BY DEF Laid
<1>8. /\ \A k \in 0..qty : f[k] = off[k]
      /\ f[qty + 1] = start + width + 1
      /\ f \in [0..(qty + 1) -> Nat]
  <2>1. \A k \in 0..(qty + 1) : k \in 0..qty \/ k = qty + 1
    BY <1>2
  <2>2. \A k \in 0..qty : k \in 0..(qty + 1) /\ k # qty + 1
    BY <1>2
  <2>3. qty + 1 \in 0..(qty + 1) /\ start + width + 1 \in Nat
    BY <1>2
  <2> HIDE DEF start
  <2>4. \A k \in 0..qty : f[k] = off[k]
    BY <1>6, <2>2
  <2>5. f[qty + 1] = start + width + 1
    BY <1>6, <2>3
  <2>6. \A k \in 0..(qty + 1) : f[k] \in Nat
    BY <1>7, <2>1, <2>3, <2>4, <2>5
  <2> QED
    BY <1>6, <2>4, <2>5, <2>6
<1> HIDE DEF new
<1>9. size' + qty' = start + width + 1 /\ qty' = qty + 1
  BY <1>1, <1>2
<1> HIDE DEF start
<1> DEFINE Placed(k) == /\ f[k] = f[k - 1] + rows[k].width + 1
                        /\ \A j \in (f[k - 1] + 1)..(f[k] - 1) : buf'[j] = k
                        /\ buf'[f[k]] = Nul
<1>10. ASSUME NEW k \in 1..qty
       PROVE  Placed(k)
  <2>1. k \in 0..qty /\ k - 1 \in 0..qty /\ f[k] = off[k] /\ f[k - 1] = off[k - 1]
    BY <1>2, <1>8, <1>10
  <2>2. off[k] \in Nat /\ off[k - 1] \in Nat /\ off[k] <= start
    BY <1>7, <2>1
  <2>3. off[k] = off[k - 1] + rows[k].width + 1 /\ rows[k].width \in Nat \ {0}
    <3>1. k \in 1..Len(rows)
      BY <1>1, <1>2, <1>10 DEF TypeOK
    <3> QED
      BY <1>7, <1>10, <3>1, WidthFacts
  <2>4. ASSUME NEW j \in (off[k - 1] + 1)..(off[k] - 1) PROVE buf'[j] = k
    <3>1. j \in 1..start
      BY <1>2, <2>2, <2>4
    <3> QED
      BY <1>5, <1>7, <1>10, <2>4, <3>1
  <2>5. off[k] \in 1..start
    BY <1>2, <2>2, <2>3
  <2> QED
    BY <1>5, <1>7, <1>10, <2>1, <2>3, <2>4, <2>5
<1>11. ASSUME NEW k \in Nat, k = qty + 1 PROVE Placed(k)
  <2>1. k - 1 = qty /\ qty \in 0..qty
    BY <1>2, <1>11
  <2>2. f[k - 1] = start /\ f[k] = start + width + 1
    BY <1>7, <1>8, <1>11, <2>1
  <2>3. f[k] - 1 = start + width
    BY <1>2, <2>2
  <2>4. \A j \in (f[k - 1] + 1)..(f[k] - 1) : buf'[j] = k
    BY <1>5, <1>11, <2>2, <2>3
  <2>5. f[k] = f[k - 1] + rows[k].width + 1
    BY <1>0, <1>11, <2>2
  <2>6. buf'[f[k]] = Nul
    BY <1>5, <2>2
  <2> QED
    BY <2>4, <2>5, <2>6
<1> HIDE DEF Placed
<1>12. Laid(f)'
  <2>1. f[0] = 0 /\ \A k \in 0..(qty + 1) : f[k] <= start + width + 1
    <3>1. \A k \in 0..(qty + 1) : k \in 0..qty \/ k = qty + 1
      BY <1>2
    <3>2. 0 \in 0..qty
      BY <1>2
    <3>3. \A k \in 0..qty : off[k] \in Nat
      BY <1>7
    <3> QED
      BY <1>2, <1>7, <1>8, <3>1, <3>2, <3>3
  <2>2. \A k \in 1..(qty + 1) : k \in 1..qty \/ (k \in Nat /\ k = qty + 1)
    BY <1>2
  <2>3. \A k \in 1..(qty + 1) : Placed(k)
    BY <1>10, <1>11, <2>2
  <2> QED
    BY <1>1, <1>5, <1>8, <1>9, <2>1, <2>3 DEF Laid, Placed
<1>13. Walked(f)'
  <2>1. /\ at' = 0 /\ processed' = 0 /\ Len(visited') = 0 /\ qty' \in Nat /\ phase' = "read"
    BY <1>1, <1>2, <1>3
  <2>2. f[0] = 0
    BY <1>12 DEF Laid
  <2> QED
    BY <2>1, <2>2 DEF Walked
<1> QED
  BY <1>1, <1>3, <1>4, <1>12, <1>13
-----------------------------------------------------------------------------
(* The loops.                                                              *)

\* Row k of the buffer: its digits and its NUL are inside.
LEMMA RowCells ==
  ASSUME TypeOK, NEW off, Laid(off), NEW k \in 1..qty
  PROVE  /\ k \in Nat \ {0} /\ off[k - 1] \in Nat /\ rows[k].width \in Nat \ {0}
         /\ off[k] = off[k - 1] + rows[k].width + 1 /\ off[k] <= Len(buf)
         /\ \A j \in (off[k - 1] + 1)..(off[k] - 1) : buf[j] = k
         /\ buf[off[k]] = Nul
<1>1. k \in 0..qty /\ k - 1 \in 0..qty /\ k \in 1..Len(rows) /\ k \in Nat \ {0}
  <2>1. qty \in Nat /\ Len(rows) \in Nat /\ qty <= Len(rows)
    BY DEF TypeOK
  <2> QED
    BY <2>1
<1>2. off[k] <= Len(buf) /\ off[k - 1] \in Nat
  BY <1>1 DEF Laid
<1> QED
  BY <1>1, <1>2, WidthFacts DEF Laid

\* At the first digit of row k strlen is the width of the row.
LEMMA StrlenFacts ==
  ASSUME TypeOK, NEW off, Laid(off), NEW k \in 1..qty, at = off[k - 1]
  PROVE  /\ AtDigits /\ buf[at + 1] = k
         /\ at + Strlen = off[k] - 1
<1> DEFINE width == rows[k].width
           IsLen(n) == buf[at + n + 1] = Nul /\ \A m \in 0..(n - 1) : buf[at + m + 1] # Nul
<1>1. /\ k \in Nat \ {0} /\ at \in Nat /\ width \in Nat \ {0}
      /\ off[k] = at + width + 1 /\ off[k] <= Len(buf)
      /\ \A j \in (at + 1)..(off[k] - 1) : buf[j] = k
      /\ buf[off[k]] = Nul
  BY RowCells
<1>2. Len(buf) \in Nat
  BY DEF Laid
<1> HIDE DEF width
<1>3. ASSUME NEW m \in 0..(width - 1) PROVE buf[at + m + 1] # Nul
  <2>1. at + m + 1 \in (at + 1)..(off[k] - 1)
    BY <1>1, <1>3
  <2>2. buf[at + m + 1] = k
    BY <1>1, <2>1
  <2> QED
    BY <1>1, <2>2 DEF Nul
<1>4. width \in 0..(Len(buf) - at - 1) /\ IsLen(width)
  <2>1. width \in 0..(Len(buf) - at - 1)
    BY <1>1, <1>2
  <2> QED
    BY <1>1, <1>3, <2>1
<1>5. ASSUME NEW n \in 0..(Len(buf) - at - 1), IsLen(n) PROVE n = width
  <2>1. n \in Nat
    BY <1>1, <1>2
  <2>2. ~(n < width)
    <3> SUFFICES ASSUME n < width PROVE FALSE
      OBVIOUS
    <3>1. n \in 0..(width - 1)
      BY <1>1, <2>1
    <3> QED
      BY <1>3, <1>5, <3>1
  <2>3. ~(width < n)
    <3> SUFFICES ASSUME width < n PROVE FALSE
      OBVIOUS
    <3>1. width \in 0..(n - 1)
      BY <1>1, <2>1
    <3>2. buf[at + width + 1] # Nul
      BY <1>5, <3>1
    <3> QED
      BY <1>4, <3>2
  <2> QED
    BY <1>1, <2>1, <2>2, <2>3
<1>6. Strlen = CHOOSE n \in 0..(Len(buf) - at - 1) : IsLen(n)
  BY DEF Strlen
<1> HIDE DEF IsLen
<1>7. Strlen = width
  BY <1>4, <1>5, <1>6
<1>8. buf[at + 1] = k /\ at < Len(buf)
  BY <1>1, <1>2
<1> QED
  BY <1>1, <1>7, <1>8 DEF AtDigits, Readable, Nul

\* Where a loop that goes on is: at the digits of a row not yet converted, or
\* at the NUL of the row converted last.
LEMMA LoopPosition ==
  ASSUME TypeOK, NEW off, Laid(off), Walked(off), InLoop
  PROVE  \/ /\ Len(visited) + 1 \in 1..qty /\ at = off[Len(visited)]
            /\ processed = Len(visited)
            /\ AtDigits /\ buf[at + 1] = Len(visited) + 1
            /\ at + Strlen = off[Len(visited) + 1] - 1
         \/ /\ Len(visited) \in 1..qty /\ at = off[Len(visited)] - 1
            /\ Readable /\ buf[at + 1] = Nul
            /\ processed = IF CountsAtDigits THEN Len(visited) ELSE Len(visited) - 1
<1>0. /\ qty \in Nat /\ at \in Nat /\ processed \in Nat /\ processed < qty
      /\ Len(visited) \in Nat /\ Len(visited) <= qty
  BY DEF TypeOK, InLoop, Walked
<1>1. PICK v \in Nat : v = Len(visited)
  BY <1>0
<1>2. CASE at = off[v] /\ processed = v
  <2>1. v + 1 \in 1..qty /\ (v + 1) - 1 = v
    BY <1>0, <1>1, <1>2
  <2>2. PICK k \in 1..qty : k = v + 1 /\ k - 1 = v
    BY <2>1
  <2>3. AtDigits /\ buf[at + 1] = k /\ at + Strlen = off[k] - 1
    BY <1>2, <2>2, StrlenFacts
  <2> QED
    BY <1>1, <1>2, <2>1, <2>2, <2>3
<1>3. CASE /\ v > 0 /\ at = off[v] - 1
           /\ processed = IF CountsAtDigits THEN v ELSE v - 1
  <2>1. v \in 1..qty
    BY <1>0, <1>1, <1>3
  <2>2. off[v] \in Nat \ {0} /\ off[v] <= Len(buf) /\ buf[off[v]] = Nul /\ Len(buf) \in Nat
    <3>1. /\ off[v - 1] \in Nat /\ rows[v].width \in Nat \ {0}
          /\ off[v] = off[v - 1] + rows[v].width + 1 /\ off[v] <= Len(buf)
          /\ buf[off[v]] = Nul
      BY <2>1, RowCells
    <3>2. Len(buf) \in Nat
      BY DEF Laid
    <3> QED
      BY <3>1, <3>2
  <2>3. at + 1 = off[v] /\ at < Len(buf)
    BY <1>3, <2>2
  <2> QED
    BY <1>1, <1>3, <2>1, <2>2, <2>3 DEF Readable
<1> QED
  BY <1>1, <1>2, <1>3 DEF Walked

\* The layout and the position only depend on these variables.
LEMMA LaidUnchanged ==
  ASSUME NEW off, Laid(off), UNCHANGED <<rows, buf, size, qty>>
  PROVE  Laid(off)'
BY DEF Laid

\* Without an allocation failure a loop step keeps the position invariant.
LEMMA LoopSteps ==
  ASSUME TypeOK, ~failed, phase # "fault", NEW off, Laid(off), Walked(off),
         Convert \/ Spin \/ StepOver \/ BadRead \/ EndLoop
  PROVE  TypeOK' /\ ~failed' /\ phase' # "fault" /\ Laid(off)' /\ Walked(off)'
<1>0. /\ UNCHANGED <<rows, style, buf, size, qty, failed>> /\ phase # "read"
      /\ phase' # "read"
  BY DEF Convert, Spin, StepOver, BadRead, EndLoop, InLoop, vars
<1>1. Laid(off)'
  BY <1>0, LaidUnchanged
<1>2. PICK v \in Nat : v = Len(visited)
  BY DEF TypeOK
<1>3. /\ visited \in Seq(Nat) /\ at \in Nat /\ processed \in Nat /\ qty \in Nat
      /\ v <= qty /\ \A k \in 1..v : visited[k] = k
  BY <1>2 DEF TypeOK, Walked
<1>4. CASE Convert
  <2>1. /\ v + 1 \in 1..qty /\ processed = v /\ buf[at + 1] = v + 1
        /\ at + Strlen = off[v + 1] - 1
    BY <1>2, <1>4, LoopPosition DEF Convert, AtDigits
  <2>2. /\ visited' = Append(visited, v + 1) /\ at' = off[v + 1] - 1
        /\ processed' = processed + (IF CountsAtDigits THEN 1 ELSE 0)
        /\ phase' = "walk" /\ v + 1 \in Nat
    BY <1>4, <2>1 DEF Convert, InLoop
  <2>3. /\ visited' \in Seq(Nat) /\ Len(visited') = v + 1
        /\ \A k \in 1..v : visited'[k] = visited[k]
        /\ visited'[v + 1] = v + 1
    BY <1>2, <1>3, <2>2, AppendProperties
  <2>4. \A k \in 1..(v + 1) : visited'[k] = k
    <3>1. \A k \in 1..(v + 1) : k \in 1..v \/ k = v + 1
      OBVIOUS
    <3> QED
      BY <1>3, <2>3, <3>1
  <2>5. at' \in Nat
    <3>1. PICK w \in 1..qty : w = v + 1
      BY <2>1
    <3>2. /\ off[w - 1] \in Nat /\ rows[w].width \in Nat \ {0}
          /\ off[w] = off[w - 1] + rows[w].width + 1
      BY <3>1, RowCells
    <3> QED
      BY <2>2, <3>1, <3>2
  <2>6. CountsAtDigits' = CountsAtDigits
    BY <1>0 DEF CountsAtDigits
  <2>7. processed' \in Nat /\ processed' = IF CountsAtDigits THEN v + 1 ELSE v
    BY <1>2, <2>1, <2>2
  <2>8. Walked(off)'
    <3>1. (v + 1) - 1 = v /\ v + 1 > 0 /\ v + 1 <= qty'
      BY <1>0, <2>1
    <3> QED
      BY <2>2, <2>3, <2>4, <2>6, <2>7, <3>1 DEF Walked
  <2>9. TypeOK'
    BY <1>0, <2>2, <2>3, <2>5, <2>7 DEF TypeOK
  <2> QED
    BY <1>0, <1>1, <2>2, <2>8, <2>9
<1>5. CASE Spin
  <2>1. UNCHANGED vars
    BY <1>5 DEF Spin
  <2> QED
    BY <1>1, <2>1 DEF vars, TypeOK, Walked, CountsAtDigits
<1>6. CASE StepOver
  <2>1. buf # NoBuffer
    <3>1. InLoop
      BY <1>6 DEF StepOver
    <3>2. Readable
      BY <3>1, LoopPosition DEF AtDigits
    <3> QED
      BY <1>3, <3>2 DEF Readable, NoBuffer
  <2>2. /\ v \in 1..qty /\ at = off[v] - 1
        /\ processed = IF CountsAtDigits THEN v ELSE v - 1
    BY <1>2, <1>6, <2>1, LoopPosition DEF StepOver, AtDigits
  <2>3. off[v] \in Nat
    BY <1>3, <2>2 DEF Laid
  <2>4. /\ at' = off[v] /\ processed' = v /\ at' \in Nat /\ processed' \in Nat
        /\ visited' = visited /\ phase' = "walk"
    BY <1>3, <1>6, <2>2, <2>3 DEF StepOver, InLoop
  <2>5. Walked(off)'
    BY <1>0, <1>2, <1>3, <2>4 DEF Walked
  <2>6. TypeOK'
    BY <1>0, <2>4 DEF TypeOK
  <2> QED
    BY <1>0, <1>1, <2>4, <2>5, <2>6
<1>7. ~BadRead
  <2>1. InLoop => Readable
    BY LoopPosition DEF AtDigits
  <2> QED
    BY <2>1 DEF BadRead
<1>8. CASE EndLoop
  <2>1. /\ processed >= qty /\ phase' = "done"
        /\ UNCHANGED <<at, processed, visited>>
    BY <1>8 DEF EndLoop
  <2>2. Walked(off)'
    BY <1>0, <2>1 DEF Walked, CountsAtDigits
  <2>3. TypeOK'
    BY <1>0, <2>1 DEF TypeOK
  <2> QED
    BY <1>0, <1>1, <2>1, <2>2, <2>3
<1> QED
  BY <1>4, <1>5, <1>6, <1>7, <1>8

\* After a failure there is no buffer: a loop steps over NULL or misuses it,
\* and never converts a row.
LEMMA FailedSteps ==
  ASSUME TypeOK, failed, buf = NoBuffer, visited = << >>, Next
  PROVE  TypeOK' /\ failed' /\ buf' = NoBuffer /\ visited' = << >>
<1>1. ~Readable /\ ~AtDigits
  <2>1. Len(buf) = 0 /\ at \in Nat
    BY DEF NoBuffer, TypeOK
  <2> QED
    BY <2>1 DEF Readable, AtDigits
<1>2. phase # "read"
  BY DEF TypeOK
<1>3. StepOver \/ BadRead \/ EndLoop
  BY <1>1, <1>2 DEF Next, PackRow, PackFails, EndRows, Convert, Spin
<1>4. /\ UNCHANGED <<rows, style, buf, size, qty, visited, failed>>
      /\ phase' \in {"walk", "done", "fault"}
  BY <1>3 DEF StepOver, BadRead, EndLoop, InLoop
<1>5. at' \in Nat /\ processed' \in Nat
  <2>1. at \in Nat /\ processed \in Nat
    BY DEF TypeOK
  <2>2. at' \in {at, at + 1} /\ processed' \in {processed, processed + 1}
    <3>1. StepOver => at' = at + 1 /\ processed' \in {processed, processed + 1}
      <4>1. processed + 0 = processed
        BY <2>1
      <4> QED
        BY <4>1 DEF StepOver
    <3>2. BadRead \/ EndLoop => at' = at /\ processed' = processed
      BY DEF BadRead, EndLoop
    <3> QED
      BY <1>3, <3>1, <3>2
  <2> QED
    BY <2>1, <2>2
<1> QED
  BY <1>4, <1>5 DEF TypeOK

\* The end of the rows, and a failed allocation.
LEMMA ReadEnds ==
  ASSUME IInv, ~failed, PackFails \/ EndRows
  PROVE  IInv'
<1>1. TypeOK /\ phase = "read" /\ visited = << >>
  BY DEF IInv, TypeOK, PackFails, EndRows
<1>2. UNCHANGED <<rows, style, size, qty, at, processed, visited>> /\ phase' = "walk"
  BY DEF PackFails, EndRows
<1>3. TypeOK'
  BY <1>1, <1>2 DEF TypeOK, PackFails, EndRows
<1>4. CASE PackFails
  <2>1. failed' /\ buf' = NoBuffer
    BY <1>4 DEF PackFails
  <2> QED
    BY <1>1, <1>2, <1>3, <2>1 DEF IInv
<1>5. CASE EndRows
  <2>1. UNCHANGED <<buf, failed>>
    BY <1>5 DEF EndRows
  <2>2. PICK off : Laid(off) /\ Walked(off)
    BY DEF IInv
  <2>3. Laid(off)'
    BY <1>2, <2>1, <2>2, LaidUnchanged
  <2>4. Walked(off)'
    BY <1>2, <2>2 DEF Walked, CountsAtDigits
  <2> QED
    BY <1>2, <1>3, <2>1, <2>3, <2>4 DEF IInv
<1> QED
  BY <1>4, <1>5

\* The invariant is inductive.
LEMMA Invariance == Spec => []IInv
<1>1. Init => IInv
  BY InitInv
<1>2. IInv /\ [Next]_vars => IInv'
  <2> SUFFICES ASSUME IInv, [Next]_vars PROVE IInv'
    OBVIOUS
  <2>0. TypeOK
    BY DEF IInv
  <2>1. CASE UNCHANGED vars
    BY <2>1 DEF vars, IInv, TypeOK, Laid, Walked, CountsAtDigits
  <2>2. CASE Next /\ failed
    <3>1. buf = NoBuffer /\ visited = << >>
      BY <2>2 DEF IInv
    <3> QED
      BY <2>0, <2>2, <3>1, FailedSteps DEF IInv
  <2>3. CASE Next /\ ~failed
    <3>1. PICK off : Laid(off) /\ Walked(off)
      BY <2>3 DEF IInv
    <3>2. phase # "fault"
      BY <2>3 DEF IInv
    <3>3. CASE PackRow
      BY <2>0, <2>3, <3>1, <3>3, PackStep DEF IInv
    <3>4. CASE PackFails \/ EndRows
      BY <2>3, <3>4, ReadEnds
    <3>5. CASE Convert \/ Spin \/ StepOver \/ BadRead \/ EndLoop
      BY <2>0, <2>3, <3>1, <3>2, <3>5, LoopSteps DEF IInv
    <3> QED
      BY <2>3, <3>3, <3>4, <3>5 DEF Next
  <2> QED
    BY <2>1, <2>2, <2>3
<1> QED
  BY <1>1, <1>2, PTL DEF Spec
-----------------------------------------------------------------------------
\* Unless an allocation failed, neither colordb_get_distinct_typeids (nor
\* colordb_get_typeid_ids) nor a loop over its list leaves the buffer.
THEOREM StaysInBuffer == Spec => []MemorySafe
<1>1. IInv => MemorySafe
  BY DEF IInv, MemorySafe
<1> QED
  BY <1>1, Invariance, PTL

\* All four loops convert the rows in order, each once, and all of them.
THEOREM RowsConvertedOnce == Spec => []EachRowOnce
<1>1. IInv => EachRowOnce
  <2> SUFFICES ASSUME IInv PROVE EachRowOnce
    OBVIOUS
  <2>1. visited \in Seq(Nat) /\ qty \in Nat
    BY DEF IInv, TypeOK
  <2>2. DOMAIN visited = 1..Len(visited) /\ Len(visited) \in Nat
    BY <2>1
  <2>3. CASE failed
    BY <2>2, <2>3 DEF IInv, EachRowOnce
  <2>4. CASE ~failed
    <3>1. PICK off : Walked(off)
      BY <2>4 DEF IInv
    <3>2. \A k \in DOMAIN visited : visited[k] = k
      BY <2>2, <3>1 DEF Walked
    <3>3. ASSUME phase = "done" PROVE Len(visited) = qty
      <4>1. Len(visited) <= qty
        BY <3>1 DEF Walked
      <4>2. processed = Len(visited) \/ processed = Len(visited) - 1
        BY <3>1 DEF Walked
      <4>3. processed >= qty
        BY <3>1, <3>3 DEF Walked
      <4>4. PICK v \in Nat : v = Len(visited)
        BY <2>2
      <4>5. v <= qty /\ (v >= qty \/ v - 1 >= qty)
        BY <4>1, <4>2, <4>3, <4>4
      <4> QED
        BY <2>1, <4>4, <4>5
    <3> QED
      BY <3>2, <3>3 DEF EachRowOnce
  <2> QED
    BY <2>3, <2>4
<1> QED
  BY <1>1, Invariance, PTL
=============================================================================
