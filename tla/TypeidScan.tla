----------------------------- MODULE TypeidScan -----------------------------
(***************************************************************************)
(* A list of integers handed over as text: colordb_get_distinct_typeids    *)
(* and colordb_get_typeid_ids (db/db-mgr.c) pack the rows of a query into  *)
(* one malloc'ed buffer, each as its digits and a NUL, and return it with  *)
(* the number of rows.  The loops of db/db.c and colors/colors.c that walk *)
(* such a buffer differ in where they count a row and in what they check:  *)
(*   "hash"  db_get_typeids_hash, and db_list_typeids likewise: a row is   *)
(*           counted at its NUL, a value below 1 is skipped by `continue`; *)
(*   "ids"   both loops of db_list_ids: counted at the NUL, the pointer is *)
(*           not compared with NULL;                                       *)
(*   "load"  the outer loop of load_colors_hash: counted at the digits;    *)
(*   "rows"  its inner loop: counted at the digits, not compared with NULL.*)
(***************************************************************************)
EXTENDS Integers, Sequences

CONSTANTS
  MaxRows,   \* bound: rows of the query
  MaxWidth,  \* bound: digits of a number
  Styles     \* the loops considered

ASSUME ScanAssumption ==
  /\ {MaxRows, MaxWidth} \subseteq Nat
  /\ Styles \subseteq {"hash", "ids", "load", "rows"}

VARIABLES
  rows,       \* the result of the query: [width, positive] per row
  style,      \* the loop that will walk the buffer
  phase,      \* "read", "walk", "done", or "fault" (memory misused)
  buf,        \* copy: NoBuffer, or cells holding a row's number, Nul or Junk
  size,       \* *size: the digits copied so far
  qty,        \* *rows_qty
  at,         \* tmp - copy
  processed,  \* processed_items
  visited,    \* history: the rows whose digits the loop converted
  failed      \* history: malloc or realloc returned NULL

vars == <<rows, style, phase, buf, size, qty, at, processed, visited, failed>>

NoBuffer == <<>>
Nul == 0
Junk == -1
Row == [width : 1..MaxWidth, positive : BOOLEAN]

Init ==
  /\ rows \in UNION {[1..n -> Row] : n \in 0..MaxRows}
  /\ style \in Styles
  /\ phase = "read"
  /\ buf = NoBuffer
  /\ size = 0 /\ qty = 0
  /\ at = 0 /\ processed = 0
  /\ visited = <<>>
  /\ failed = FALSE
-----------------------------------------------------------------------------
(* Packing the rows.                                                       *)

\* Mutant of Room: the NULs of the earlier rows are not counted.
RoomForDigits(width) == size + width + 1

\* The argument of malloc for the first row, of realloc for the others.
Room(width) ==
  IF buf = NoBuffer THEN width + 1 ELSE size + width + 1 + qty

\* realloc keeps the old cells; the row is then written behind them.
Packed(width) ==
  LET start == size + qty
  IN  [j \in 1..Room(width) |->
         CASE j <= start -> (IF j <= Len(buf) THEN buf[j] ELSE Junk)
           [] j > start /\ j <= start + width -> qty + 1
           [] j = start + width + 1 -> Nul
           [] OTHER -> Junk]

PackRow ==
  /\ phase = "read"
  /\ qty < Len(rows)
  /\ LET width == rows[qty + 1].width IN
       /\ phase' = IF size + qty + width + 1 > Room(width) THEN "fault" ELSE "read"
       /\ buf' = Packed(width)
       /\ size' = size + width
  /\ qty' = qty + 1
  /\ UNCHANGED <<rows, style, at, processed, visited, failed>>

\* goto reset: NULL is returned together with the rows counted so far.
PackFails ==
  /\ phase = "read"
  /\ qty < Len(rows)
  /\ buf' = NoBuffer
  /\ failed' = TRUE
  /\ phase' = "walk"
  /\ UNCHANGED <<rows, style, size, qty, at, processed, visited>>

\* sqlite3_step returns something else than a row: the end, or an error.
EndRows ==
  /\ phase = "read"
  /\ phase' = "walk"
  /\ UNCHANGED <<rows, style, buf, size, qty, at, processed, visited, failed>>
-----------------------------------------------------------------------------
(* Walking the buffer.                                                     *)

InLoop == phase = "walk" /\ processed < qty

\* How the loop of this style counts a row and whether it tests the pointer.
CountsAtDigits == style \in {"load", "rows"}
TestsNull == style \in {"hash", "load"}

\* tmp points at memory the loop may read.
Readable == at < Len(buf)
AtDigits == Readable /\ buf[at + 1] # Nul

\* strlen(tmp)
Strlen ==
  CHOOSE n \in 0..(Len(buf) - at - 1) :
    buf[at + n + 1] = Nul /\ \A m \in 0..(n - 1) : buf[at + m + 1] # Nul

\* Mutant of Convert: every loop counts the row at its digits too.
ConvertAndCount ==
  /\ InLoop /\ AtDigits
  /\ style = "hash" => rows[buf[at + 1]].positive
  /\ visited' = Append(visited, buf[at + 1])
  /\ at' = at + Strlen
  /\ processed' = processed + 1
  /\ UNCHANGED <<rows, style, phase, buf, size, qty, failed>>

\* Mutant of Convert: "ids" checks the sign like "hash".
ConvertPositive ==
  /\ InLoop /\ AtDigits
  /\ rows[buf[at + 1]].positive
  /\ visited' = Append(visited, buf[at + 1])
  /\ at' = at + Strlen
  /\ processed' = processed + (IF CountsAtDigits THEN 1 ELSE 0)
  /\ UNCHANGED <<rows, style, phase, buf, size, qty, failed>>

\* Digits: the number is converted and used.
Convert ==
  /\ InLoop /\ AtDigits
  /\ style = "hash" => rows[buf[at + 1]].positive
  /\ visited' = Append(visited, buf[at + 1])
  /\ at' = at + Strlen
  /\ processed' = processed + (IF CountsAtDigits THEN 1 ELSE 0)
  /\ UNCHANGED <<rows, style, phase, buf, size, qty, failed>>

\* `if (row_typeid < 1) continue;` with nothing advanced.
Spin ==
  /\ InLoop /\ AtDigits
  /\ style = "hash" /\ ~rows[buf[at + 1]].positive
  /\ UNCHANGED vars

\* A NUL, or the NULL pointer in the loops that compare with it.
StepOver ==
  /\ InLoop
  /\ \/ Readable /\ buf[at + 1] = Nul
     \/ buf = NoBuffer /\ at = 0 /\ TestsNull
  /\ at' = at + 1
  /\ processed' = processed + (IF CountsAtDigits THEN 0 ELSE 1)
  /\ UNCHANGED <<rows, style, phase, buf, size, qty, visited, failed>>

\* strlen of a pointer that is NULL, next to NULL or behind the buffer.
BadRead ==
  /\ InLoop
  /\ ~Readable
  /\ buf = NoBuffer /\ TestsNull => at > 0
  /\ phase' = "fault"
  /\ UNCHANGED <<rows, style, buf, size, qty, at, processed, visited, failed>>

EndLoop ==
  /\ phase = "walk"
  /\ processed >= qty
  /\ phase' = "done"
  /\ UNCHANGED <<rows, style, buf, size, qty, at, processed, visited, failed>>
-----------------------------------------------------------------------------
Next ==
  \/ PackRow \/ PackFails \/ EndRows
  \/ Convert \/ Spin \/ StepOver \/ BadRead \/ EndLoop

Spec == Init /\ [][Next]_vars

\* The calling thread keeps running.
FairSpec == Spec /\ WF_vars(Next)
-----------------------------------------------------------------------------
(* The builder and the four ways of walking agree on the layout: neither   *)
(* writes or reads outside the buffer, unless an allocation failed (the    *)
(* row count is then returned together with a NULL buffer).                *)
MemorySafe == phase = "fault" => failed

(* Every loop converts the rows in their order, each once, and has         *)
(* converted all rows that were packed when it ends.                       *)
EachRowOnce ==
  /\ \A k \in DOMAIN visited : visited[k] = k
  /\ phase = "done" /\ ~failed => Len(visited) = qty

(* The walk ends, except that "hash" spins on a type below 1.              *)
WalkEnds ==
  phase = "walk" ~>
    \/ phase \in {"done", "fault"}
    \/ style = "hash" /\ \E k \in DOMAIN rows : ~rows[k].positive
=============================================================================
