----------------------------- MODULE CsvParser ------------------------------
(***************************************************************************)
(* parse_colors_csv (colors-csv-parser.c), which turns the lines of a CSV  *)
(* file into JSON rows, and hex-png-pixel-creator, which writes the pixel  *)
(* of one colour to a file.  Both encode pixels through the one temporary  *)
(* file of PngTempFile, in processes that may run at the same time.        *)
(*                                                                         *)
(* Of a row the model keeps the line, the slug and the picture.  The other *)
(* fields are functions of the hex, except ansicode: it is the result of   *)
(* NearestAnsi for the address of the hex string instead of its colour,    *)
(* since hex_to_256_color_ansicode casts the pointer.                      *)
(***************************************************************************)
EXTENDS PngTempFile, FiniteSets

CONSTANTS
  Parsers,    \* processes in mode csv
  Creators,   \* processes of hex-png-pixel-creator
  Names,      \* names of colours
  Lines,      \* Lines[w]: the lines of the input file, [name, hex], with the
              \* hex that is read in strings[1], even past its end
  ShortNames, \* names of less than three characters
  AsciiNames, \* names stringfn_is_ascii accepts
  SlugOf,     \* SlugOf[n]: n in lower case, blanks and quotes replaced by -
  BadHex,     \* a second field that has not seven characters with its #
  Wild,       \* strings[1] of a line without a comma, when it is no string
  NoSlug,     \* "none"
  ParseQty,   \* args.count, an int
  Wanted,     \* Wanted[c]: the --hex of creator c, six characters or BadHex
  MaxFaults   \* bound: kills, failing calls, and hexes strtol reads wrongly

ASSUME CsvAssumption ==
  /\ Users = Parsers \cup Creators
  /\ Parsers \cap Creators = {}
  /\ {Absent, Empty, Cut, BadHex, Wild} \cap Hexes = {}
  /\ Absent # Empty /\ Cut \notin {Absent, Empty} /\ Wild # BadHex
  /\ Lines \in [Parsers -> Seq([name : Names, hex : Hexes \cup {BadHex, Wild}])]
  /\ Wanted \in [Creators -> Hexes \cup {BadHex}]
  /\ ParseQty \in Int
  /\ MaxFaults \in Nat

VARIABLES
  pc,      \* pc[u]: "ready", "encode", "done" or "crashed"
  i,       \* i[w]: the line parser w is at, counted from 1
  sl,      \* sl[w]: the variable sl
  rows,    \* rows[w]: the rows parser w has made
  target,  \* target[c]: the file creator c has written
  status,  \* status[c]: the exit status of creator c
  killed,  \* history: processes killed while they used the file
  faults

csvVars == <<i, sl, rows>>
vars == <<pngVars, pc, csvVars, target, status, killed, faults>>

Init ==
  /\ PngInit
  /\ pc = [u \in Users |-> "ready"]
  /\ i = [w \in Parsers |-> 1]
  /\ sl = [w \in Parsers |-> NoSlug]
  /\ rows = [w \in Parsers |-> << >>]
  /\ target = [c \in Creators |-> NoPicture]
  /\ status = [c \in Creators |-> 0]
  /\ killed = {}
  /\ faults = 0

Fault ==
  /\ faults < MaxFaults
  /\ faults' = faults + 1

Goto(u, where) == pc' = [pc EXCEPT ![u] = where]
-----------------------------------------------------------------------------
(* The steps both programs share.                                          *)

Colour(u) == IF u \in Parsers THEN Lines[u][i[u]].hex ELSE Wanted[u]

\* The two characters strtol gets have no NUL behind them: if the heap has a
\* digit there, the pixel is of another colour.
BeginEncoding(u) ==
  /\ Goto(u, "encode")
  /\ \/ OpenTmp(u, Colour(u)) /\ UNCHANGED faults
     \/ (\E other \in Hexes : OpenTmp(u, other)) /\ Fault
     \/ OpenTmpFails(u, Colour(u)) /\ Fault
  /\ UNCHANGED <<csvVars, target, status, killed>>

Encode(u) ==
  /\ pc[u] = "encode"
  /\ WriteTmp(u) \/ MeasureTmp(u) \/ ReadTmp(u)
  /\ UNCHANGED <<pc, csvVars, target, status, killed, faults>>

EncodeFails(u) ==
  /\ pc[u] = "encode"
  /\ Fault
  /\ WriteTmpShort(u) \/ MeasureTmpFails(u) \/ ReadTmpFails(u)
  /\ UNCHANGED <<pc, csvVars, target, status, killed>>

EncodeCrashes(u) ==
  /\ pc[u] = "encode"
  /\ UnlinkTmp(u)
  /\ MayCrash(u)
  /\ Goto(u, "crashed")
  /\ UNCHANGED <<csvVars, target, status, killed, faults>>

Kill(u) ==
  /\ pc[u] = "encode"
  /\ Fault
  /\ Abandon(u)
  /\ Goto(u, "crashed")
  /\ killed' = killed \cup {u}
  /\ UNCHANGED <<csvVars, target, status>>
-----------------------------------------------------------------------------
(* parse_colors_csv.                                                       *)

\* Mutant of InLoop: the lines that are skipped count.
InLoopLines(w) ==
  /\ pc[w] = "ready"
  /\ i[w] <= Len(Lines[w])
  /\ ParseQty >= 0 => i[w] <= ParseQty

\* OPTIONS->parse_qty is a size_t: a negative count is a very large one.
InLoop(w) ==
  /\ pc[w] = "ready"
  /\ i[w] <= Len(Lines[w])
  /\ ParseQty >= 0 => Len(rows[w]) < ParseQty

Broken(line) == line.name \notin ShortNames /\ line.hex = Wild
Accepted(line) == line.name \notin ShortNames /\ line.hex \notin {BadHex, Wild}

\* stringfn_trim or strlen gets a pointer that nobody has set.
LineCrashes(w) ==
  /\ InLoop(w)
  /\ Broken(Lines[w][i[w]])
  /\ Goto(w, "crashed")
  /\ UNCHANGED <<pngVars, csvVars, target, status, killed, faults>>

SkipLine(w) ==
  /\ InLoop(w)
  /\ ~Accepted(Lines[w][i[w]]) /\ ~Broken(Lines[w][i[w]])
  /\ i' = [i EXCEPT ![w] = @ + 1]
  /\ UNCHANGED <<pngVars, pc, sl, rows, target, status, killed, faults>>

TakeLine(w) ==
  /\ InLoop(w)
  /\ Accepted(Lines[w][i[w]])
  /\ BeginEncoding(w)

\* Mutant of NextSlug: the slug of every name is kept.
NextSlugAny(w) == SlugOf[Lines[w][i[w]].name]

\* A name that is not ASCII leaves sl as it is.
NextSlug(w) ==
  LET name == Lines[w][i[w]].name
  IN  IF name \in AsciiNames THEN SlugOf[name] ELSE sl[w]

AppendRow(w) ==
  /\ pc[w] = "encode"
  /\ UnlinkTmp(w)
  /\ ~MustCrash(w)
  /\ sl' = [sl EXCEPT ![w] = NextSlug(w)]
  /\ rows' = [rows EXCEPT ![w] = Append(@,
       [line |-> Lines[w][i[w]], slug |-> NextSlug(w), pixel |-> pixel[w],
        png |-> Encoded(w), tainted |-> tainted[w]])]
  /\ i' = [i EXCEPT ![w] = @ + 1]
  /\ Goto(w, "ready")
  /\ UNCHANGED <<target, status, killed, faults>>

\* The rows are written to the output file in one go.
FinishCsv(w) ==
  /\ pc[w] = "ready"
  /\ ~InLoop(w)
  /\ Goto(w, "done")
  /\ UNCHANGED <<pngVars, csvVars, target, status, killed, faults>>
-----------------------------------------------------------------------------
(* hex-png-pixel-creator: main and write_hex_png_to_path.                  *)

\* An empty path is 9, a directory that cannot be made 11.
RefuseConfig(c) ==
  /\ pc[c] = "ready"
  /\ \/ Wanted[c] = BadHex /\ status' = [status EXCEPT ![c] = 10] /\ UNCHANGED faults
     \/ Wanted[c] # BadHex /\ Fault /\ \E code \in {9, 11} : status' = [status EXCEPT ![c] = code]
  /\ Goto(c, "done")
  /\ UNCHANGED <<pngVars, csvVars, target, killed>>

StartCreator(c) ==
  /\ pc[c] = "ready"
  /\ Wanted[c] # BadHex
  /\ BeginEncoding(c)

\* The size of the file that was written is tested.
Written(png) == IF png = NoPicture THEN 1 ELSE 0

WriteTarget(c) ==
  /\ pc[c] = "encode"
  /\ UnlinkTmp(c)
  /\ ~MustCrash(c)
  /\ \/ /\ target' = [target EXCEPT ![c] = Encoded(c)]
        /\ status' = [status EXCEPT ![c] = Written(Encoded(c))]
        /\ UNCHANGED faults
     \/ /\ Fault
        /\ status' = [status EXCEPT ![c] = 15]
        /\ UNCHANGED target
  /\ Goto(c, "done")
  /\ UNCHANGED <<csvVars, killed>>
-----------------------------------------------------------------------------
Next ==
  \/ \E u \in Users : Encode(u) \/ EncodeFails(u) \/ EncodeCrashes(u) \/ Kill(u)
  \/ \E w \in Parsers :
       LineCrashes(w) \/ SkipLine(w) \/ TakeLine(w) \/ AppendRow(w) \/ FinishCsv(w)
  \/ \E c \in Creators : RefuseConfig(c) \/ StartCreator(c) \/ WriteTarget(c)

Spec == Init /\ [][Next]_vars
-----------------------------------------------------------------------------
\* The lines among the first n that become rows.
AcceptedUpTo(w, n) == {j \in 1..n : Accepted(Lines[w][j])}
Rank(w, n) == Cardinality(AcceptedUpTo(w, n))

Smaller(m, n) == IF m < n THEN m ELSE n

(* A run that ends has one row for each of the first ParseQty lines that   *)
(* are long enough, in the order of the input: the line of rank n among    *)
(* them is row n.  Lines that are skipped do not count, and a negative     *)
(* count takes all.                                                        *)
RowsAreAcceptedLines ==
  \A w \in Parsers : pc[w] = "done" =>
    LET all == Rank(w, Len(Lines[w])) IN
      /\ Len(rows[w]) = IF ParseQty < 0 THEN all ELSE Smaller(ParseQty, all)
      /\ \A j \in AcceptedUpTo(w, Len(Lines[w])) :
           Rank(w, j) <= Len(rows[w]) => rows[w][Rank(w, j)].line = Lines[w][j]

(* The slug of a row is that of its own name or, for a name that is not    *)
(* ASCII, that of the last row above it whose name is, and never the slug  *)
(* of a line that was skipped.  (Several names may have one slug.)         *)
SlugIsNearestAsciiAbove ==
  \A w \in Parsers : \A k \in DOMAIN rows[w] :
    LET ascii == {j \in 1..k : rows[w][j].line.name \in AsciiNames} IN
      IF ascii = {} THEN rows[w][k].slug = NoSlug
      ELSE \E j \in ascii : /\ \A m \in ascii : m <= j
                            /\ rows[w][k].slug = SlugOf[rows[w][j].line.name]

Own(colour) == [picture |-> colour, length |-> colour]

(* A row, and a file a creator reports as written, has the picture of the  *)
(* pixel strtol made of its hex, with the right length, unless another     *)
(* process used the temporary file at the same time or a call on the file  *)
(* failed; what a creator reports as written is not empty even then.       *)
PicturesAreOwn ==
  /\ \A w \in Parsers : \A k \in DOMAIN rows[w] :
       rows[w][k].tainted \/ rows[w][k].png = Own(rows[w][k].pixel)
  /\ \A c \in Creators : pc[c] = "done" /\ status[c] = 0 =>
       /\ tainted[c] \/ target[c] = Own(pixel[c])
       /\ target[c].picture # Empty

(* The temporary file does not outlive its users, in whatever order they   *)
(* open and unlink it, unless one of them was killed.                      *)
TempFileIsRemoved == tmp # Absent => Using # {} \/ killed # {}

(* A process crashes only when it was killed, shared the temporary file,   *)
(* when a call on that file failed, or at a line without a comma; a pixel  *)
(* of the wrong colour is no reason.                                       *)
CrashHasCause ==
  \A u \in Users : pc[u] = "crashed" =>
    \/ tainted[u] \/ u \in killed
    \/ u \in Parsers /\ i[u] <= Len(Lines[u]) /\ Broken(Lines[u][i[u]])
=============================================================================
