-------------------------- MODULE CsvParser_proofs --------------------------
(***************************************************************************)
(* The temporary file and the rows of parse_colors_csv, for any number of  *)
(* processes, any files and any count: a process that had the file for     *)
(* itself, and whose calls on it worked, gets its own picture and survives *)
(* unless it meets a line without a comma; a kill is the only way to       *)
(* leave the file behind, and the rows are those of the accepted lines,    *)
(* each with the slug of the nearest ASCII name above it.                  *)
(***************************************************************************)
EXTENDS CsvParser, FiniteSetTheorems, SequenceTheorems, TLAPS

Files == Hexes \cup {Absent, Empty, Cut}
Line == [name : Names, hex : Hexes \cup {BadHex, Wild}]
SlugValues == {SlugOf[n] : n \in Names} \cup {NoSlug}
Png == [picture : Files, length : Files]
CsvRow == [line : Line, slug : SlugValues, pixel : Hexes \cup {Absent}, png : Png,
           tainted : BOOLEAN]

\* A call on the temporary file fails.
Spoiled(u) == WriteTmpShort(u) \/ MeasureTmpFails(u) \/ ReadTmpFails(u)

TmpTypeOK ==
  /\ tmp \in Files
  /\ stage \in [Users -> {"idle", "opened", "written", "measured", "read"}]
  /\ fd \in [Users -> {"none", "named", "unlinked"}]
  /\ pixel \in [Users -> Hexes \cup {Absent}]
  /\ size \in [Users -> Files]
  /\ data \in [Users -> Files]
  /\ tainted \in [Users -> BOOLEAN]

CsvTypeOK ==
  /\ i \in [Parsers -> Nat \ {0}]
  /\ sl \in [Parsers -> SlugValues]
  /\ rows \in [Parsers -> Seq(CsvRow)]

TypeOK ==
  /\ TmpTypeOK
  /\ CsvTypeOK
  /\ pc \in [Users -> {"ready", "encode", "done", "crashed"}]
  /\ target \in [Creators -> Png]
  /\ status \in [Creators -> Nat]
  /\ killed \subseteq Users
  /\ faults \in Nat

\* A process encodes a colour, of an accepted line or of its configuration.
Encoding ==
  \A u \in Users :
    /\ pc[u] = "encode" <=> u \in Using
    /\ pc[u] = "encode" =>
         /\ pixel[u] \in Hexes
         /\ u \in Parsers => i[u] <= Len(Lines[u]) /\ Accepted(Lines[u][i[u]])

\* What a process that shares the file with nobody has in it.
OwnFile(u) ==
  /\ Using = {u}
  /\ stage[u] = "opened" => fd[u] = "named"
  /\ stage[u] \in {"written", "measured", "read"} => tmp = pixel[u]
  /\ stage[u] \in {"measured", "read"} => size[u] = pixel[u]
  /\ stage[u] = "read" => data[u] = pixel[u]

Alone == \A u \in Using : ~tainted[u] => OwnFile(u)

-----------------------------------------------------------------------------
(* Types, and who encodes.                                                 *)

\* The lines of a parser.
LEMMA LinesFacts ==
  ASSUME NEW w \in Parsers
  PROVE  /\ Lines[w] \in Seq(Line) /\ Len(Lines[w]) \in Nat
         /\ \A j \in 1..Len(Lines[w]) : Lines[w][j] \in Line
<1>1. Lines[w] \in Seq(Line)
  BY CsvAssumption DEF Line
<1> QED
  BY <1>1, LenProperties, ElementOfSeq

\* A process is a parser or a creator, and not both.
LEMMA UsersFacts ==
  /\ Parsers \subseteq Users /\ Creators \subseteq Users
  /\ \A u \in Users : u \in Parsers \/ u \in Creators
  /\ \A u \in Parsers : u \notin Creators
BY CsvAssumption

\* The colour a process starts to encode is a colour.
LEMMA ColourIsHex ==
  ASSUME TypeOK, NEW u \in Users,
         u \in Parsers => i[u] <= Len(Lines[u]) /\ Accepted(Lines[u][i[u]]),
         u \in Creators => Wanted[u] # BadHex
  PROVE  Colour(u) \in Hexes
<1>1. CASE u \in Parsers
  <2>1. i[u] \in 1..Len(Lines[u]) /\ Accepted(Lines[u][i[u]])
    BY <1>1, LinesFacts DEF TypeOK, CsvTypeOK
  <2>2. Lines[u][i[u]] \in Line
    BY <1>1, <2>1, LinesFacts
  <2> QED
    BY <1>1, <2>1, <2>2 DEF Colour, Accepted, Line
<1>2. CASE u \notin Parsers
  <2>1. u \in Creators /\ Wanted[u] # BadHex
    BY <1>2, CsvAssumption
  <2>2. Wanted[u] \in Hexes \cup {BadHex}
    BY <2>1, CsvAssumption
  <2> QED
    BY <1>2, <2>1, <2>2 DEF Colour
<1> QED
  BY <1>1, <1>2

\* Who begins to encode has a colour, and has opened the file or failed to.
LEMMA Begins ==
  ASSUME TypeOK, NEW u \in Users,
         (u \in Parsers /\ TakeLine(u)) \/ (u \in Creators /\ StartCreator(u))
  PROVE  /\ \E colour \in Hexes : OpenTmp(u, colour) \/ OpenTmpFails(u, colour)
         /\ pc[u] = "ready" /\ pc' = [pc EXCEPT ![u] = "encode"]
         /\ Fault \/ UNCHANGED faults
         /\ UNCHANGED <<csvVars, target, status, killed>>
         /\ u \in Parsers => i[u] <= Len(Lines[u]) /\ Accepted(Lines[u][i[u]])
<1>1. pc[u] = "ready" /\ BeginEncoding(u)
  BY DEF TakeLine, InLoop, StartCreator
<1>2. /\ u \in Parsers => i[u] <= Len(Lines[u]) /\ Accepted(Lines[u][i[u]])
      /\ u \in Creators => Wanted[u] # BadHex
  BY UsersFacts DEF TakeLine, InLoop, StartCreator
<1>3. Colour(u) \in Hexes
  BY <1>2, ColourIsHex
<1> QED
  BY <1>1, <1>2, <1>3 DEF BeginEncoding, Goto

\* The values that are no colour.
LEMMA NotHexes ==
  /\ Absent \notin Hexes /\ Empty \notin Hexes /\ Cut \notin Hexes
  /\ BadHex \notin Hexes /\ Wild \notin Hexes /\ Absent # Empty
BY CsvAssumption

\* The value a process gets is a picture and a length.
LEMMA EncodedType ==
  ASSUME TypeOK, NEW u \in Users
  PROVE  Encoded(u) \in Png
BY DEF TypeOK, TmpTypeOK, Encoded, NoPicture, Png, Files

\* The initial state has the right types.
LEMMA InitType == Init => TypeOK /\ Encoding
BY UsersFacts, EmptySeq
   DEF Init, PngInit, TypeOK, TmpTypeOK, CsvTypeOK, Encoding, Using, Files, Png, NoPicture,
       SlugValues

\* What a process may do to the temporary file.
TmpStep(u) ==
  \/ \E colour \in Hexes : OpenTmp(u, colour) \/ OpenTmpFails(u, colour)
  \/ WriteTmp(u) \/ MeasureTmp(u) \/ ReadTmp(u) \/ Spoiled(u)
  \/ UnlinkTmp(u) \/ Abandon(u)

\* The steps on the temporary file keep its types.
LEMMA TmpTypeStep ==
  ASSUME TmpTypeOK, NEW u \in Users, TmpStep(u)
  PROVE  TmpTypeOK'
<1> USE DEF TmpTypeOK, Files
<1>1. ASSUME NEW colour \in Hexes, OpenTmp(u, colour) PROVE TmpTypeOK'
  <2>1. tainted' \in [Users -> BOOLEAN]
    BY <1>1 DEF OpenTmp
  <2> QED
    BY <1>1, <2>1 DEF OpenTmp
<1>2. ASSUME NEW colour \in Hexes, OpenTmpFails(u, colour) PROVE TmpTypeOK'
  <2>1. tainted' \in [Users -> BOOLEAN]
    BY <1>2 DEF OpenTmpFails
  <2> QED
    BY <1>2, <2>1 DEF OpenTmpFails
<1>0. Taint(u) => tainted' \in [Users -> BOOLEAN]
  BY DEF Taint
<1>3. CASE MeasureTmp(u)
  BY <1>3 DEF MeasureTmp
<1>4. CASE MeasureTmpFails(u)
  <2>1. /\ size' = [size EXCEPT ![u] = Absent]
        /\ stage' = [stage EXCEPT ![u] = "measured"]
        /\ tainted' \in [Users -> BOOLEAN]
    BY <1>0, <1>4 DEF MeasureTmpFails
  <2> QED
    BY <1>4, <2>1 DEF MeasureTmpFails
<1>10. CASE ReadTmp(u)
  BY <1>10 DEF ReadTmp
<1>11. CASE ReadTmpFails(u)
  <2>1. /\ data' = [data EXCEPT ![u] = Absent]
        /\ stage' = [stage EXCEPT ![u] = "read"]
        /\ tainted' \in [Users -> BOOLEAN]
    BY <1>0, <1>11 DEF ReadTmpFails
  <2> QED
    BY <1>11, <2>1 DEF ReadTmpFails
<1>5. CASE UnlinkTmp(u)
  BY <1>5 DEF UnlinkTmp
<1>6. CASE Abandon(u)
  BY <1>6 DEF Abandon
<1>7. ASSUME NEW contents \in Files, Store(u, contents), Taint(u) \/ UNCHANGED tainted
      PROVE  TmpTypeOK'
  BY <1>7 DEF Store, Taint
<1>8. CASE WriteTmp(u)
  BY <1>7, <1>8 DEF WriteTmp
<1>9. CASE WriteTmpShort(u)
  BY <1>7, <1>9 DEF WriteTmpShort
<1> QED
  BY <1>1, <1>2, <1>3, <1>4, <1>5, <1>6, <1>8, <1>9, <1>10, <1>11 DEF TmpStep, Spoiled

\* The row AppendRow makes is a row.
LEMMA NewRowType ==
  ASSUME TypeOK, Encoding, NEW w \in Parsers, pc[w] = "encode"
  PROVE  /\ i[w] \in 1..Len(Lines[w])
         /\ Lines[w][i[w]] \in Line
         /\ NextSlug(w) \in SlugValues
         /\ [line |-> Lines[w][i[w]], slug |-> NextSlug(w), pixel |-> pixel[w],
             png |-> Encoded(w), tainted |-> tainted[w]] \in CsvRow
<1>1. w \in Users /\ i[w] \in 1..Len(Lines[w])
  BY LinesFacts, UsersFacts DEF Encoding, TypeOK, CsvTypeOK
<1>2. Lines[w][i[w]] \in Line
  BY <1>1, LinesFacts
<1>3. NextSlug(w) \in SlugValues
  BY <1>2 DEF NextSlug, Line, SlugValues, TypeOK, CsvTypeOK
<1>4. tainted[w] \in BOOLEAN /\ Encoded(w) \in Png /\ pixel[w] \in Hexes \cup {Absent}
  BY <1>1, EncodedType DEF TypeOK, TmpTypeOK
<1> QED
  BY <1>1, <1>2, <1>3, <1>4 DEF CsvRow

\* A row more keeps the types of a parser.
LEMMA CsvTypeStep ==
  ASSUME TypeOK, Encoding, NEW w \in Parsers, AppendRow(w)
  PROVE  CsvTypeOK'
<1> DEFINE row == [line |-> Lines[w][i[w]], slug |-> NextSlug(w), pixel |-> pixel[w],
                   png |-> Encoded(w), tainted |-> tainted[w]]
<1>1. row \in CsvRow /\ NextSlug(w) \in SlugValues
  BY NewRowType DEF AppendRow
<1>2. /\ sl' = [sl EXCEPT ![w] = NextSlug(w)]
      /\ rows' = [rows EXCEPT ![w] = Append(rows[w], row)]
      /\ i' = [i EXCEPT ![w] = i[w] + 1]
  BY DEF AppendRow
<1> HIDE DEF row
<1>3. rows[w] \in Seq(CsvRow)
  BY DEF TypeOK, CsvTypeOK
<1>4. Append(rows[w], row) \in Seq(CsvRow)
  BY <1>1, <1>3
<1> QED
  BY <1>1, <1>2, <1>4 DEF TypeOK, CsvTypeOK

\* Every step does at most one thing to the temporary file.
LEMMA TmpSteps ==
  ASSUME TypeOK, [Next]_vars
  PROVE  UNCHANGED pngVars \/ \E u \in Users : TmpStep(u)
<1>1. ASSUME NEW u \in Users, Encode(u) \/ EncodeFails(u) PROVE TmpStep(u)
  BY <1>1 DEF Encode, EncodeFails, TmpStep, Spoiled
<1>2. ASSUME NEW u \in Users, EncodeCrashes(u) \/ Kill(u) PROVE TmpStep(u)
  BY <1>2 DEF EncodeCrashes, Kill, TmpStep
<1>3. ASSUME NEW w \in Parsers, LineCrashes(w) \/ SkipLine(w) \/ FinishCsv(w)
      PROVE  UNCHANGED pngVars
  BY <1>3 DEF LineCrashes, SkipLine, FinishCsv
<1>4. ASSUME NEW w \in Parsers, TakeLine(w) PROVE TmpStep(w)
  BY <1>4, Begins, UsersFacts DEF TmpStep
<1>5. ASSUME NEW c \in Creators, StartCreator(c) PROVE TmpStep(c)
  BY <1>5, Begins, UsersFacts DEF TmpStep
<1>6. ASSUME NEW w \in Users, AppendRow(w) \/ WriteTarget(w) PROVE TmpStep(w)
  BY <1>6 DEF AppendRow, WriteTarget, TmpStep
<1>7. ASSUME NEW c \in Creators, RefuseConfig(c) PROVE UNCHANGED pngVars
  BY <1>7 DEF RefuseConfig
<1>8. CASE UNCHANGED vars
  BY <1>8 DEF vars
<1> QED
  BY <1>1, <1>2, <1>3, <1>4, <1>5, <1>6, <1>7, <1>8, UsersFacts DEF Next

\* A fault is counted.
LEMMA FaultType == ASSUME TypeOK, Fault \/ UNCHANGED faults PROVE faults' \in Nat
BY DEF TypeOK, Fault

\* Every step keeps the types.
LEMMA TypeStep ==
  ASSUME TypeOK, Encoding, [Next]_vars
  PROVE  TypeOK'
<1>1. TmpTypeOK'
  <2>1. TmpTypeOK
    BY DEF TypeOK
  <2>2. CASE UNCHANGED pngVars
    BY <2>1, <2>2 DEF TmpTypeOK, pngVars
  <2> QED
    BY <2>1, <2>2, TmpSteps, TmpTypeStep
<1> DEFINE Others == /\ pc' \in [Users -> {"ready", "encode", "done", "crashed"}]
                     /\ target' \in [Creators -> Png] /\ status' \in [Creators -> Nat]
                     /\ killed' \subseteq Users /\ faults' \in Nat
<1>2. ASSUME NEW u \in Users, Encode(u) \/ EncodeFails(u) \/ EncodeCrashes(u) \/ Kill(u)
      PROVE  UNCHANGED csvVars /\ Others
  BY <1>2, FaultType DEF Encode, EncodeFails, EncodeCrashes, Kill, Goto, TypeOK
<1>3. ASSUME NEW w \in Parsers, LineCrashes(w) \/ TakeLine(w) \/ FinishCsv(w)
      PROVE  UNCHANGED csvVars /\ Others
  <2>1. CASE TakeLine(w)
    BY <2>1, FaultType, Begins, UsersFacts DEF TypeOK
  <2>2. CASE LineCrashes(w) \/ FinishCsv(w)
    BY <2>2, UsersFacts DEF LineCrashes, FinishCsv, Goto, TypeOK
  <2> QED
    BY <1>3, <2>1, <2>2
<1>4. ASSUME NEW w \in Parsers, SkipLine(w)
      PROVE  CsvTypeOK' /\ Others
  BY <1>4 DEF SkipLine, TypeOK, CsvTypeOK
<1>5. ASSUME NEW w \in Parsers, AppendRow(w)
      PROVE  CsvTypeOK' /\ Others
  BY <1>5, CsvTypeStep, UsersFacts DEF AppendRow, Goto, TypeOK
<1>6. ASSUME NEW c \in Creators, RefuseConfig(c) \/ StartCreator(c)
      PROVE  UNCHANGED csvVars /\ Others
  <2>1. CASE StartCreator(c)
    BY <2>1, FaultType, Begins, UsersFacts DEF TypeOK
  <2>2. CASE RefuseConfig(c)
    <3>1. status' \in [Creators -> Nat]
      BY <2>2 DEF RefuseConfig, TypeOK
    <3> QED
      BY <2>2, <3>1, FaultType, UsersFacts DEF RefuseConfig, Goto, TypeOK
  <2> QED
    BY <1>6, <2>1, <2>2
<1>7. ASSUME NEW c \in Creators, WriteTarget(c)
      PROVE  UNCHANGED csvVars /\ Others
  <2>1. Encoded(c) \in Png /\ Written(Encoded(c)) \in Nat
    BY EncodedType, UsersFacts DEF Written
  <2>2. target' \in [Creators -> Png] /\ status' \in [Creators -> Nat]
    BY <1>7, <2>1 DEF WriteTarget, TypeOK
  <2>3. /\ pc' = [pc EXCEPT ![c] = "done"]
        /\ UNCHANGED <<csvVars, killed>> /\ (Fault \/ UNCHANGED faults)
    BY <1>7 DEF WriteTarget, Goto
  <2> QED
    BY <2>2, <2>3, FaultType, UsersFacts DEF TypeOK
<1>8. ASSUME UNCHANGED vars PROVE UNCHANGED csvVars /\ Others
  BY <1>8 DEF vars, TypeOK
<1> HIDE DEF Others
<1>9. UNCHANGED csvVars => CsvTypeOK'
  BY DEF TypeOK, CsvTypeOK, csvVars
<1>10. CsvTypeOK' /\ Others
  BY <1>2, <1>3, <1>4, <1>5, <1>6, <1>7, <1>8, <1>9 DEF Next
<1> QED
  BY <1>1, <1>10 DEF TypeOK, Others

\* A step of one process is none of the others'.
Keeps(v) ==
  /\ pc'[v] = pc[v] /\ stage'[v] = stage[v] /\ pixel'[v] = pixel[v]
  /\ v \in Parsers => i'[v] = i[v] /\ rows'[v] = rows[v] /\ sl'[v] = sl[v]
  /\ v \in Creators => target'[v] = target[v] /\ status'[v] = status[v]

\* Who encodes: one process.
EncodingOf(u) ==
  /\ pc[u] = "encode" <=> stage[u] # "idle"
  /\ pc[u] = "encode" =>
       /\ pixel[u] \in Hexes
       /\ u \in Parsers => i[u] <= Len(Lines[u]) /\ Accepted(Lines[u][i[u]])

\* Encoding, process by process.
LEMMA EncodingEach == Encoding <=> \A u \in Users : EncodingOf(u)
BY DEF Encoding, EncodingOf, Using

\* Every step is one of a process u that moves nobody else, and leaves what
\* Encoding says of u true.
LEMMA OneMoves ==
  ASSUME TypeOK, Encoding, [Next]_vars
  PROVE  \/ \A v \in Users : Keeps(v)
         \/ \E u \in Users : EncodingOf(u)' /\ \A v \in Users \ {u} : Keeps(v)
<1> USE DEF Keeps
<1>0. /\ pc \in [Users -> {"ready", "encode", "done", "crashed"}]
      /\ stage \in [Users -> {"idle", "opened", "written", "measured", "read"}]
      /\ i \in [Parsers -> Nat \ {0}] /\ DOMAIN rows = Parsers /\ DOMAIN sl = Parsers
      /\ DOMAIN target = Creators /\ DOMAIN status = Creators
      /\ pixel \in [Users -> Hexes \cup {Absent}]
  BY DEF TypeOK, TmpTypeOK, CsvTypeOK
<1>1. ASSUME NEW u \in Users, Encode(u) \/ EncodeFails(u)
      PROVE  EncodingOf(u)' /\ \A v \in Users \ {u} : Keeps(v)
  <2>1. UNCHANGED <<pc, csvVars, target, status, pixel>>
    BY <1>1 DEF Encode, EncodeFails, WriteTmp, WriteTmpShort, Store, MeasureTmp,
                MeasureTmpFails, ReadTmp, ReadTmpFails
  <2>2. /\ stage' = [stage EXCEPT ![u] = stage'[u]]
        /\ stage'[u] \in {"written", "measured", "read"}
    BY <1>0, <1>1 DEF Encode, EncodeFails, WriteTmp, WriteTmpShort, Store, MeasureTmp,
                      MeasureTmpFails, ReadTmp, ReadTmpFails
  <2>3. pc[u] = "encode" /\ EncodingOf(u)
    BY <1>1, EncodingEach DEF Encode, EncodeFails
  <2>4. EncodingOf(u)'
    BY <2>1, <2>2, <2>3 DEF EncodingOf, csvVars
  <2> QED
    BY <1>0, <2>1, <2>2, <2>4 DEF csvVars
<1>2. ASSUME NEW u \in Users, EncodeCrashes(u) \/ Kill(u)
      PROVE  EncodingOf(u)' /\ \A v \in Users \ {u} : Keeps(v)
  <2>1. /\ pc' = [pc EXCEPT ![u] = "crashed"] /\ stage' = [stage EXCEPT ![u] = "idle"]
        /\ UNCHANGED <<csvVars, target, status, pixel>>
    BY <1>2 DEF EncodeCrashes, Kill, UnlinkTmp, Abandon, Goto
  <2> QED
    BY <1>0, <2>1 DEF csvVars, EncodingOf
<1>3. ASSUME NEW u \in Users,
             (u \in Parsers /\ TakeLine(u)) \/ (u \in Creators /\ StartCreator(u))
      PROVE  EncodingOf(u)' /\ \A v \in Users \ {u} : Keeps(v)
  <2>1. /\ pc' = [pc EXCEPT ![u] = "encode"]
        /\ UNCHANGED <<csvVars, target, status>>
        /\ u \in Parsers => i[u] <= Len(Lines[u]) /\ Accepted(Lines[u][i[u]])
    BY <1>3, Begins
  <2>2. PICK colour \in Hexes : OpenTmp(u, colour) \/ OpenTmpFails(u, colour)
    BY <1>3, Begins
  <2>3. /\ stage' = [stage EXCEPT ![u] = stage'[u]]
        /\ stage'[u] \in {"opened", "written"}
        /\ pixel' = [pixel EXCEPT ![u] = colour]
    BY <1>0, <2>2 DEF OpenTmp, OpenTmpFails
  <2>4. EncodingOf(u)'
    BY <1>0, <2>1, <2>3 DEF csvVars, EncodingOf
  <2> QED
    BY <1>0, <2>1, <2>3, <2>4 DEF csvVars
<1>4. ASSUME NEW w \in Parsers, TakeLine(w)
      PROVE  EncodingOf(w)' /\ \A v \in Users \ {w} : Keeps(v)
  BY <1>3, <1>4, UsersFacts
<1>5. ASSUME NEW c \in Creators, StartCreator(c)
      PROVE  EncodingOf(c)' /\ \A v \in Users \ {c} : Keeps(v)
  BY <1>3, <1>5, UsersFacts
<1>6. ASSUME NEW w \in Parsers, SkipLine(w)
      PROVE  EncodingOf(w)' /\ \A v \in Users \ {w} : Keeps(v)
  <2>1. /\ UNCHANGED <<pc, stage, pixel, sl, rows, target, status>> /\ pc[w] # "encode"
        /\ i' = [i EXCEPT ![w] = i[w] + 1]
    BY <1>6 DEF SkipLine, pngVars, InLoop
  <2>2. EncodingOf(w)
    BY EncodingEach, UsersFacts
  <2> QED
    BY <1>0, <2>1, <2>2 DEF EncodingOf
<1>7. ASSUME NEW w \in Parsers, AppendRow(w)
      PROVE  EncodingOf(w)' /\ \A v \in Users \ {w} : Keeps(v)
  <2> DEFINE row == [line |-> Lines[w][i[w]], slug |-> NextSlug(w), pixel |-> pixel[w],
                     png |-> Encoded(w), tainted |-> tainted[w]]
  <2>1. /\ pc' = [pc EXCEPT ![w] = "ready"] /\ stage' = [stage EXCEPT ![w] = "idle"]
        /\ sl' = [sl EXCEPT ![w] = NextSlug(w)]
        /\ rows' = [rows EXCEPT ![w] = Append(@, row)]
        /\ i' = [i EXCEPT ![w] = @ + 1]
        /\ UNCHANGED <<target, status, pixel>>
    BY <1>7 DEF AppendRow, UnlinkTmp, Goto
  <2> HIDE DEF row
  <2> QED
    BY <1>0, <2>1, UsersFacts DEF EncodingOf
<1>8. ASSUME NEW w \in Parsers, FinishCsv(w) \/ LineCrashes(w)
      PROVE  EncodingOf(w)' /\ \A v \in Users \ {w} : Keeps(v)
  <2>1. /\ \E where \in {"done", "crashed"} : pc' = [pc EXCEPT ![w] = where]
        /\ pc[w] # "encode"
        /\ UNCHANGED <<stage, pixel, csvVars, target, status>>
    BY <1>8 DEF FinishCsv, LineCrashes, InLoop, Goto, pngVars
  <2>2. EncodingOf(w)
    BY EncodingEach, UsersFacts
  <2> QED
    BY <1>0, <2>1, <2>2, UsersFacts DEF EncodingOf, csvVars
<1>9. ASSUME NEW c \in Creators, RefuseConfig(c)
      PROVE  EncodingOf(c)' /\ \A v \in Users \ {c} : Keeps(v)
  <2>1. /\ pc' = [pc EXCEPT ![c] = "done"] /\ pc[c] # "encode"
        /\ UNCHANGED <<stage, pixel, csvVars, target>>
        /\ \E code \in Nat : status' = [status EXCEPT ![c] = code]
    BY <1>9 DEF RefuseConfig, Goto, pngVars
  <2>2. EncodingOf(c)
    BY EncodingEach, UsersFacts
  <2> QED
    BY <1>0, <2>1, <2>2, UsersFacts DEF EncodingOf, csvVars
<1>10. ASSUME NEW c \in Creators, WriteTarget(c)
      PROVE  EncodingOf(c)' /\ \A v \in Users \ {c} : Keeps(v)
  <2>1. /\ pc' = [pc EXCEPT ![c] = "done"] /\ stage' = [stage EXCEPT ![c] = "idle"]
        /\ UNCHANGED <<csvVars, pixel>>
    BY <1>10 DEF WriteTarget, UnlinkTmp, Goto
  <2>2. \A v \in Creators \ {c} : target'[v] = target[v] /\ status'[v] = status[v]
    BY <1>0, <1>10 DEF WriteTarget
  <2> QED
    BY <1>0, <2>1, <2>2, UsersFacts DEF EncodingOf, csvVars
<1>11. ASSUME UNCHANGED vars PROVE \A v \in Users : Keeps(v)
  BY <1>11 DEF vars, csvVars, pngVars
<1> HIDE DEF Keeps
<1> QED
  BY <1>1, <1>2, <1>4, <1>5, <1>6, <1>7, <1>8, <1>9, <1>10, <1>11, UsersFacts DEF Next

\* Every step keeps Encoding.
LEMMA EncodingStep ==
  ASSUME TypeOK, Encoding, [Next]_vars
  PROVE  Encoding'
<1>1. \A v \in Users : EncodingOf(v)
  BY EncodingEach
<1>2. \A v \in Users : EncodingOf(v) /\ Keeps(v) => EncodingOf(v)'
  BY DEF EncodingOf, Keeps
<1>3. \A v \in Users : EncodingOf(v)'
  BY <1>1, <1>2, OneMoves
<1> QED
  BY <1>3 DEF Encoding, EncodingOf, Using
-----------------------------------------------------------------------------
(* A process alone with the file.                                          *)

\* The pixel of a process does not change while it encodes it.
LEMMA PixelStays ==
  ASSUME TypeOK, NEW v \in Users, stage[v] # "idle", NEW u \in Users, TmpStep(u)
  PROVE  pixel'[v] = pixel[v]
<1>1. ASSUME NEW colour \in Hexes, OpenTmp(u, colour) \/ OpenTmpFails(u, colour)
      PROVE  pixel'[v] = pixel[v]
  <2>1. u # v /\ pixel' = [pixel EXCEPT ![u] = colour]
    BY <1>1 DEF OpenTmp, OpenTmpFails
  <2> QED
    BY <2>1 DEF TypeOK, TmpTypeOK
<1>2. CASE WriteTmp(u) \/ WriteTmpShort(u)
  BY <1>2 DEF WriteTmp, WriteTmpShort, Store
<1>3. CASE MeasureTmp(u) \/ MeasureTmpFails(u) \/ ReadTmp(u) \/ ReadTmpFails(u)
  BY <1>3 DEF MeasureTmp, MeasureTmpFails, ReadTmp, ReadTmpFails
<1>4. CASE UnlinkTmp(u) \/ Abandon(u)
  BY <1>4 DEF UnlinkTmp, Abandon
<1> QED
  BY <1>1, <1>2, <1>3, <1>4 DEF TmpStep, Spoiled

\* One step on the file by u, seen from a process v that is alone after it:
\* u is v, or it does not use the file.
LEMMA AloneStep ==
  ASSUME TypeOK, Encoding, Alone, [Next]_vars
  PROVE  Alone'
<1> SUFFICES ASSUME NEW v \in Users, stage'[v] # "idle", ~tainted'[v]
             PROVE  OwnFile(v)'
  BY DEF Alone, Using
<1>0. /\ tmp \in Files
      /\ stage \in [Users -> {"idle", "opened", "written", "measured", "read"}]
      /\ fd \in [Users -> {"none", "named", "unlinked"}]
      /\ size \in [Users -> Files] /\ data \in [Users -> Files]
      /\ tainted \in [Users -> BOOLEAN] /\ DOMAIN pixel = Users
  BY DEF TypeOK, TmpTypeOK
<1>1. v \in Using => pixel'[v] = pixel[v]
  <2>1. UNCHANGED pngVars => pixel' = pixel
    BY DEF pngVars
  <2> QED
    BY <2>1, PixelStays, TmpSteps DEF Using
<1>2. v \in Using /\ ~tainted[v] => OwnFile(v)
  BY DEF Alone
<1>3. CASE UNCHANGED pngVars
  <2>1. /\ Using' = Using /\ tmp' = tmp /\ stage' = stage /\ fd' = fd
        /\ size' = size /\ data' = data /\ tainted' = tainted
    BY <1>3 DEF pngVars, Using
  <2>2. v \in Using /\ OwnFile(v)
    BY <1>2, <2>1 DEF Using
  <2> QED
    BY <1>1, <2>1, <2>2 DEF OwnFile
<1>4. ASSUME NEW u \in Users, NEW colour, OpenTmp(u, colour) PROVE OwnFile(v)'
  <2>1. v = u /\ Using = {}
    BY <1>0, <1>4 DEF OpenTmp, Using
  <2>2. Using' = {u}
    BY <1>0, <1>4, <2>1 DEF OpenTmp, Using
  <2> QED
    BY <1>0, <1>4, <2>1, <2>2 DEF OpenTmp, OwnFile
<1>5. ASSUME NEW u \in Users, NEW colour, OpenTmpFails(u, colour) PROVE OwnFile(v)'
  BY <1>0, <1>5 DEF OpenTmpFails, Using
<1>6. ASSUME NEW u \in Users, WriteTmp(u) PROVE OwnFile(v)'
  <2>1. Using' = Using /\ u \in Using /\ v \in Using
    BY <1>0, <1>6 DEF WriteTmp, Store, Using
  <2>2. OwnFile(v) /\ u = v
    BY <1>2, <1>6, <2>1 DEF WriteTmp, Store, OwnFile
  <2>3. fd[v] = "named"
    BY <1>6, <2>2 DEF WriteTmp, Store, OwnFile
  <2>4. stage'[v] = "written" /\ tmp' = pixel[v]
    BY <1>0, <1>6, <2>2, <2>3 DEF WriteTmp, Store
  <2> QED
    BY <1>1, <2>1, <2>2, <2>4 DEF OwnFile
<1>7. ASSUME NEW u \in Users, MeasureTmp(u) PROVE OwnFile(v)'
  <2>1. Using' = Using /\ u \in Using /\ v \in Using
    BY <1>0, <1>7 DEF MeasureTmp, Using
  <2>2. OwnFile(v) /\ u = v
    BY <1>2, <1>7, <2>1 DEF MeasureTmp, OwnFile
  <2>3. stage'[v] = "measured" /\ size'[v] = tmp /\ tmp' = tmp /\ tmp = pixel[v]
    BY <1>0, <1>7, <2>2 DEF MeasureTmp, OwnFile
  <2> QED
    BY <1>1, <2>1, <2>2, <2>3 DEF OwnFile
<1>8. ASSUME NEW u \in Users, ReadTmp(u) PROVE OwnFile(v)'
  <2>1. Using' = Using /\ u \in Using /\ v \in Using
    BY <1>0, <1>8 DEF ReadTmp, Using
  <2>2. OwnFile(v) /\ u = v
    BY <1>2, <1>8, <2>1 DEF ReadTmp, OwnFile
  <2>3. /\ stage'[v] = "read" /\ data'[v] = tmp /\ tmp' = tmp /\ size' = size
        /\ tmp = pixel[v] /\ size[v] = pixel[v]
    BY <1>0, <1>8, <2>2 DEF ReadTmp, OwnFile
  <2> QED
    BY <1>1, <2>1, <2>2, <2>3 DEF OwnFile
<1>9. ASSUME NEW u \in Users, UnlinkTmp(u) PROVE OwnFile(v)'
  <2>1. u \in Using /\ v \in Using /\ u # v /\ ~tainted[v]
    BY <1>0, <1>9 DEF UnlinkTmp, Using
  <2> QED
    BY <1>2, <2>1 DEF OwnFile
<1>10. ASSUME NEW u \in Users, Abandon(u) PROVE OwnFile(v)'
  <2>1. /\ u # v /\ v \in Using /\ ~tainted[v] /\ Using' = Using \ {u}
        /\ stage'[v] = stage[v] /\ fd'[v] = fd[v] /\ size'[v] = size[v]
        /\ data'[v] = data[v] /\ tmp' = tmp
    BY <1>0, <1>10 DEF Abandon, Using
  <2>2. OwnFile(v)
    BY <1>2, <2>1
  <2> QED
    BY <1>1, <2>1, <2>2 DEF OwnFile
<1>11. ASSUME NEW u \in Users, Spoiled(u) PROVE OwnFile(v)'
  <2>1. /\ tainted' = [tainted EXCEPT ![u] = TRUE] /\ stage[u] # "idle"
        /\ stage' = [stage EXCEPT ![u] = stage'[u]]
    BY <1>0, <1>11 DEF Spoiled, WriteTmpShort, MeasureTmpFails, ReadTmpFails, Store, Taint
  <2>2. u \in Using /\ v \in Using /\ u # v /\ ~tainted[v]
    BY <1>0, <2>1 DEF Using
  <2> QED
    BY <1>2, <2>2 DEF OwnFile
<1> QED
  BY <1>3, <1>4, <1>5, <1>6, <1>7, <1>8, <1>9, <1>10, <1>11, TmpSteps DEF TmpStep

IInv == TypeOK /\ Encoding /\ Alone

\* The three parts together are an inductive invariant.
LEMMA Invariance == Spec => []IInv
<1>1. Init => IInv
  BY InitType DEF Init, PngInit, IInv, Alone, Using
<1>2. IInv /\ [Next]_vars => IInv'
  BY TypeStep, EncodingStep, AloneStep DEF IInv
<1> QED
  BY <1>1, <1>2, PTL DEF Spec
-----------------------------------------------------------------------------
(* Pictures, the file that is left behind, and crashes.                    *)

\* Only AppendRow makes rows and slugs, only WriteTarget and RefuseConfig end
\* a creator, and only a kill or a bad file ends a process early.
LEMMA WhoWrites ==
  ASSUME [Next]_vars
  PROVE  /\ UNCHANGED <<rows, sl>> \/ \E w \in Parsers : AppendRow(w)
         /\ \/ UNCHANGED <<target, status>>
            \/ \E c \in Creators : RefuseConfig(c) \/ WriteTarget(c)
         /\ UNCHANGED killed \/ \E u \in Users : Kill(u)
BY DEF Next, vars, csvVars, Encode, EncodeFails, EncodeCrashes, Kill, LineCrashes, SkipLine,
       TakeLine, BeginEncoding, AppendRow, FinishCsv, RefuseConfig, StartCreator, WriteTarget

\* What has happened to the file of a process is known when it is done.
LEMMA TaintStays ==
  ASSUME TypeOK, Encoding, [Next]_vars, NEW v \in Users, stage'[v] = "idle"
  PROVE  tainted'[v] = tainted[v]
<1>0. /\ stage \in [Users -> {"idle", "opened", "written", "measured", "read"}]
      /\ tainted \in [Users -> BOOLEAN]
  BY DEF TypeOK, TmpTypeOK
<1>1. ASSUME NEW u \in Users, NEW colour, OpenTmp(u, colour) PROVE tainted'[v] = tainted[v]
  <2>1. v # u /\ v \notin Using
    BY <1>0, <1>1 DEF OpenTmp, Using
  <2>2. tainted' = [x \in Users |-> CASE x = u -> Using # {} [] x \in Using -> TRUE
                                     [] OTHER -> tainted[x]]
    BY <1>1 DEF OpenTmp
  <2> HIDE DEF Using
  <2> QED
    BY <2>1, <2>2
<1>2. ASSUME NEW u \in Users, NEW colour, OpenTmpFails(u, colour) PROVE tainted'[v] = tainted[v]
  <2>1. v # u /\ v \notin Using
    BY <1>0, <1>2 DEF OpenTmpFails, Using
  <2>2. tainted' = [x \in Users |-> x \in Using \cup {u} \/ tainted[x]]
    BY <1>2 DEF OpenTmpFails
  <2> QED
    BY <1>0, <2>1, <2>2
<1>3. ASSUME NEW u \in Users,
             MeasureTmp(u) \/ ReadTmp(u) \/ UnlinkTmp(u) \/ Abandon(u) \/ WriteTmp(u)
      PROVE  tainted'[v] = tainted[v]
  BY <1>3 DEF MeasureTmp, ReadTmp, UnlinkTmp, Abandon, WriteTmp
<1>4. ASSUME NEW u \in Users, Spoiled(u) PROVE tainted'[v] = tainted[v]
  <2>1. v # u
    BY <1>0, <1>4 DEF Spoiled, WriteTmpShort, MeasureTmpFails, ReadTmpFails, Store
  <2> QED
    BY <1>0, <1>4, <2>1 DEF Spoiled, WriteTmpShort, MeasureTmpFails, ReadTmpFails, Taint
<1>5. CASE UNCHANGED pngVars
  BY <1>5 DEF pngVars
<1> QED
  BY <1>1, <1>2, <1>3, <1>4, <1>5, TmpSteps DEF TmpStep

\* The pixel of a process that is done is that of its last encoding.
LEMMA DonePixelStays ==
  ASSUME TypeOK, [Next]_vars, NEW v \in Users, stage'[v] = "idle"
  PROVE  pixel'[v] = pixel[v]
<1>1. ASSUME NEW u \in Users, NEW colour, OpenTmp(u, colour) \/ OpenTmpFails(u, colour)
      PROVE  pixel'[v] = pixel[v]
  <2>1. u # v
    BY <1>1 DEF OpenTmp, OpenTmpFails, TypeOK, TmpTypeOK
  <2> QED
    BY <1>1, <2>1 DEF OpenTmp, OpenTmpFails, TypeOK, TmpTypeOK
<1>2. ASSUME NEW u \in Users,
             \/ MeasureTmp(u) \/ ReadTmp(u) \/ UnlinkTmp(u) \/ Abandon(u) \/ WriteTmp(u)
             \/ Spoiled(u)
      PROVE  pixel'[v] = pixel[v]
  BY <1>2 DEF MeasureTmp, ReadTmp, UnlinkTmp, Abandon, WriteTmp, Spoiled, WriteTmpShort,
              MeasureTmpFails, ReadTmpFails, Store
<1>3. CASE UNCHANGED pngVars
  BY <1>3 DEF pngVars
<1> QED
  BY <1>1, <1>2, <1>3, TmpSteps DEF TmpStep

\* Who has read the file alone gets the picture of the colour.
LEMMA ReadAlone ==
  ASSUME IInv, NEW u \in Users, stage[u] = "read", ~tainted[u]
  PROVE  /\ data[u] \in Hexes /\ size[u] \in Hexes
         /\ Encoded(u) = Own(pixel[u])
<1>1. OwnFile(u) /\ pc[u] = "encode"
  BY DEF IInv, Alone, Using, Encoding
<1>2. data[u] = pixel[u] /\ size[u] = pixel[u]
  BY <1>1 DEF OwnFile
<1>3. pixel[u] \in Hexes
  BY <1>1 DEF IInv, Encoding
<1> QED
  BY <1>2, <1>3, NotHexes DEF Encoded, Own

\* The rows of one parser, and the file of one creator.
RowsAreOwn(w) ==
  \A k \in DOMAIN rows[w] : rows[w][k].tainted \/ rows[w][k].png = Own(rows[w][k].pixel)
TargetIsOwn(c) ==
  pc[c] = "done" /\ status[c] = 0 =>
    /\ tainted[c] \/ target[c] = Own(pixel[c])
    /\ target[c].picture # Empty

\* A row more is the one AppendRow makes.
LEMMA AppendedRow ==
  ASSUME TypeOK, NEW w \in Parsers, AppendRow(w)
  PROVE  /\ Len(rows[w]) \in Nat /\ DOMAIN rows[w] = 1..Len(rows[w])
         /\ Len(rows'[w]) = Len(rows[w]) + 1
         /\ DOMAIN rows'[w] = 1..(Len(rows[w]) + 1)
         /\ \A k \in 1..Len(rows[w]) : rows'[w][k] = rows[w][k]
         /\ rows'[w][Len(rows[w]) + 1] =
              [line |-> Lines[w][i[w]], slug |-> NextSlug(w), pixel |-> pixel[w],
               png |-> Encoded(w), tainted |-> tainted[w]]
         /\ sl'[w] = NextSlug(w) /\ i'[w] = i[w] + 1
         /\ \A v \in Parsers \ {w} : rows'[v] = rows[v] /\ sl'[v] = sl[v] /\ i'[v] = i[v]
<1> DEFINE row == [line |-> Lines[w][i[w]], slug |-> NextSlug(w), pixel |-> pixel[w],
                   png |-> Encoded(w), tainted |-> tainted[w]]
<1>1. /\ rows' = [rows EXCEPT ![w] = Append(@, row)]
      /\ sl' = [sl EXCEPT ![w] = NextSlug(w)] /\ i' = [i EXCEPT ![w] = @ + 1]
  BY DEF AppendRow
<1>2. /\ rows \in [Parsers -> Seq(CsvRow)] /\ DOMAIN sl = Parsers /\ DOMAIN i = Parsers
  BY DEF TypeOK, CsvTypeOK
<1> HIDE DEF row
<1>3. rows[w] \in Seq(CsvRow) /\ rows'[w] = Append(rows[w], row)
  BY <1>1, <1>2
<1>4. Len(rows[w]) \in Nat /\ DOMAIN rows[w] = 1..Len(rows[w])
  BY <1>3, LenProperties
<1>5. /\ Len(rows'[w]) = Len(rows[w]) + 1
      /\ DOMAIN rows'[w] = 1..(Len(rows[w]) + 1)
      /\ \A k \in 1..Len(rows[w]) : rows'[w][k] = rows[w][k]
      /\ rows'[w][Len(rows[w]) + 1] = row
  BY <1>3, <1>4
<1> QED
  BY <1>1, <1>2, <1>4, <1>5 DEF row

\* A creator that is done after a step was done before it, or has just been
\* refused or written its file.
LEMMA CreatorMoves ==
  ASSUME TypeOK, Encoding, [Next]_vars, NEW c \in Creators, pc'[c] = "done"
  PROVE  \/ pc[c] = "done" /\ status'[c] = status[c] /\ target'[c] = target[c]
         \/ RefuseConfig(c) \/ WriteTarget(c)
<1>0. /\ pc \in [Users -> {"ready", "encode", "done", "crashed"}] /\ c \in Users
      /\ c \notin Parsers /\ DOMAIN status = Creators /\ DOMAIN target = Creators
  BY UsersFacts DEF TypeOK
<1>1. ASSUME NEW u \in Users, Encode(u) \/ EncodeFails(u) \/ EncodeCrashes(u) \/ Kill(u)
      PROVE  pc[c] = "done" /\ UNCHANGED <<target, status>>
  BY <1>0, <1>1 DEF Encode, EncodeFails, EncodeCrashes, Kill, Goto
<1>2. ASSUME NEW u \in Users, TakeLine(u) \/ StartCreator(u)
      PROVE  pc[c] = "done" /\ UNCHANGED <<target, status>>
  BY <1>0, <1>2 DEF TakeLine, StartCreator, BeginEncoding, Goto
<1>3. ASSUME NEW w \in Parsers,
             LineCrashes(w) \/ SkipLine(w) \/ AppendRow(w) \/ FinishCsv(w)
      PROVE  pc[c] = "done" /\ UNCHANGED <<target, status>>
  BY <1>0, <1>3 DEF LineCrashes, SkipLine, AppendRow, FinishCsv, Goto
<1>4. ASSUME NEW d \in Creators, d # c, RefuseConfig(d) \/ WriteTarget(d)
      PROVE  pc[c] = "done" /\ status'[c] = status[c] /\ target'[c] = target[c]
  BY <1>0, <1>4 DEF RefuseConfig, WriteTarget, Goto
<1>5. CASE UNCHANGED vars
  BY <1>5 DEF vars
<1> QED
  BY <1>1, <1>2, <1>3, <1>4, <1>5, UsersFacts DEF Next

\* PicturesAreOwn, of the runs: every picture a process got without sharing
\* the temporary file, and without a failing call, is that of its pixel.
THEOREM OwnPicturesOnly == Spec => []PicturesAreOwn
<1>1. Init => PicturesAreOwn
  BY UsersFacts DEF Init, PicturesAreOwn
<1>2. ASSUME IInv, PicturesAreOwn, [Next]_vars, IInv' PROVE PicturesAreOwn'
  <2>0. TypeOK /\ Encoding /\ Encoding'
    BY <1>2 DEF IInv
  <2>1. ASSUME NEW w \in Parsers PROVE RowsAreOwn(w)'
    <3>0. RowsAreOwn(w)
      BY <1>2 DEF PicturesAreOwn, RowsAreOwn
    <3>1. CASE rows'[w] = rows[w]
      BY <3>0, <3>1 DEF RowsAreOwn
    <3>2. CASE rows'[w] # rows[w]
      <4>1. PICK v \in Parsers : AppendRow(v)
        BY <1>2, <3>2, WhoWrites
      <4>2. v = w
        BY <2>0, <3>2, <4>1, AppendedRow
      <4>3. stage[w] = "read" /\ w \in Users
        BY <4>1, <4>2, UsersFacts DEF AppendRow, UnlinkTmp
      <4>4. tainted[w] \/ Encoded(w) = Own(pixel[w])
        BY <1>2, <4>3, ReadAlone
      <4>5. /\ DOMAIN rows'[w] = 1..(Len(rows[w]) + 1) /\ Len(rows[w]) \in Nat
            /\ DOMAIN rows[w] = 1..Len(rows[w])
            /\ \A k \in 1..Len(rows[w]) : rows'[w][k] = rows[w][k]
            /\ rows'[w][Len(rows[w]) + 1] =
                 [line |-> Lines[w][i[w]], slug |-> NextSlug(w), pixel |-> pixel[w],
                  png |-> Encoded(w), tainted |-> tainted[w]]
        BY <2>0, <4>1, <4>2, AppendedRow
      <4>6. \/ rows'[w][Len(rows[w]) + 1].tainted
            \/ rows'[w][Len(rows[w]) + 1].png = Own(rows'[w][Len(rows[w]) + 1].pixel)
        BY <4>4, <4>5
      <4>7. \A k \in 1..(Len(rows[w]) + 1) : k \in 1..Len(rows[w]) \/ k = Len(rows[w]) + 1
        BY <4>5
      <4> QED
        BY <3>0, <4>5, <4>6, <4>7 DEF RowsAreOwn
    <3> QED
      BY <3>1, <3>2
  <2>2. ASSUME NEW c \in Creators PROVE TargetIsOwn(c)'
    <3> SUFFICES ASSUME pc'[c] = "done", status'[c] = 0
                 PROVE  /\ tainted'[c] \/ target'[c] = Own(pixel'[c])
                        /\ target'[c].picture # Empty
      BY DEF TargetIsOwn
    <3>0. TargetIsOwn(c) /\ c \in Users
      BY <1>2, UsersFacts DEF PicturesAreOwn, TargetIsOwn
    <3>1. tainted'[c] = tainted[c] /\ pixel'[c] = pixel[c]
      BY <1>2, <2>0, <3>0, TaintStays, DonePixelStays DEF Encoding, Using
    <3>2. CASE pc[c] = "done" /\ status'[c] = status[c] /\ target'[c] = target[c]
      BY <3>0, <3>1, <3>2 DEF TargetIsOwn
    <3>3. CASE RefuseConfig(c)
      BY <2>0, <3>3 DEF RefuseConfig, TypeOK
    <3>4. CASE WriteTarget(c)
      <4>1. stage[c] = "read" /\ target'[c] = Encoded(c) /\ Written(Encoded(c)) = 0
        BY <2>0, <3>4 DEF WriteTarget, UnlinkTmp, TypeOK
      <4>2. Encoded(c).picture # Empty
        BY <4>1 DEF Written, Encoded
      <4>3. tainted[c] \/ Encoded(c) = Own(pixel[c])
        BY <1>2, <3>0, <4>1, ReadAlone
      <4> QED
        BY <3>1, <4>1, <4>2, <4>3
    <3> QED
      BY <1>2, <2>0, <3>0, <3>2, <3>3, <3>4, CreatorMoves
  <2> QED
    BY <2>1, <2>2 DEF PicturesAreOwn, RowsAreOwn, TargetIsOwn
<1> QED
  BY <1>1, <1>2, Invariance, PTL DEF Spec

\* Only a kill abandons the file.
LEMMA OnlyKillsAbandon ==
  ASSUME TypeOK, [Next]_vars, ~\E u \in Users : Kill(u)
  PROVE  UNCHANGED pngVars \/ \E u \in Users : u \in Using' \/ UnlinkTmp(u)
<1>1. ASSUME NEW u \in Users, Encode(u) \/ EncodeFails(u) PROVE u \in Using'
  <2>1. stage'[u] # "idle"
    BY <1>1 DEF Encode, EncodeFails, Store, WriteTmp, WriteTmpShort, MeasureTmp,
                MeasureTmpFails, ReadTmp, ReadTmpFails, TypeOK, TmpTypeOK
  <2> QED
    BY <2>1 DEF Using
<1>2. ASSUME NEW u \in Users, EncodeCrashes(u) \/ AppendRow(u) \/ WriteTarget(u)
      PROVE  UnlinkTmp(u)
  BY <1>2 DEF EncodeCrashes, AppendRow, WriteTarget
<1>3. ASSUME NEW w, LineCrashes(w) \/ SkipLine(w) \/ FinishCsv(w) \/ RefuseConfig(w)
      PROVE  UNCHANGED pngVars
  BY <1>3 DEF LineCrashes, SkipLine, FinishCsv, RefuseConfig
<1>4. ASSUME NEW u \in Users,
             (u \in Parsers /\ TakeLine(u)) \/ (u \in Creators /\ StartCreator(u))
      PROVE  u \in Using'
  <2>1. PICK colour \in Hexes : OpenTmp(u, colour) \/ OpenTmpFails(u, colour)
    BY <1>4, Begins
  <2>2. stage'[u] # "idle"
    BY <2>1 DEF OpenTmp, OpenTmpFails, TypeOK, TmpTypeOK
  <2> QED
    BY <2>2 DEF Using
<1>5. CASE UNCHANGED vars
  BY <1>5 DEF vars
<1> QED
  BY <1>1, <1>2, <1>3, <1>4, <1>5, UsersFacts DEF Next

\* TempFileIsRemoved, of the runs: whatever the processes do in whatever order,
\* only a kill leaves the temporary file behind.
THEOREM OnlyKillsLeaveTheFile == Spec => []TempFileIsRemoved
<1>1. Init => TempFileIsRemoved
  BY DEF Init, PngInit, TempFileIsRemoved
<1>2. ASSUME IInv, TempFileIsRemoved, [Next]_vars PROVE TempFileIsRemoved'
  <2>0. /\ TypeOK /\ Encoding /\ killed \subseteq Users
        /\ stage \in [Users -> {"idle", "opened", "written", "measured", "read"}]
        /\ (tmp # Absent => Using # {} \/ killed # {})
    BY <1>2 DEF IInv, TypeOK, TmpTypeOK, TempFileIsRemoved
  <2>1. ASSUME NEW u \in Users, Kill(u) PROVE killed' # {}
    BY <2>1 DEF Kill
  <2>2. CASE ~\E u \in Users : Kill(u)
    <3>1. killed' = killed
      BY <1>2, <2>2, WhoWrites
    <3>2. ASSUME NEW u \in Users, UnlinkTmp(u) PROVE tmp' = Absent
      BY <3>2 DEF UnlinkTmp
    <3>3. CASE UNCHANGED pngVars
      BY <2>0, <3>1, <3>3 DEF pngVars, Using, TempFileIsRemoved
    <3> QED
      BY <1>2, <2>0, <2>2, <3>2, <3>3, OnlyKillsAbandon DEF TempFileIsRemoved, Using
  <2> QED
    BY <2>1, <2>2 DEF TempFileIsRemoved
<1> QED
  BY <1>1, <1>2, Invariance, PTL DEF Spec

\* What explains a crash of v.
Explained(v) ==
  \/ tainted[v] \/ v \in killed
  \/ v \in Parsers /\ i[v] <= Len(Lines[v]) /\ Broken(Lines[v][i[v]])

\* A process that has crashed stays at its line.
LEMMA CrashedStay ==
  ASSUME TypeOK, Encoding, [Next]_vars, NEW v \in Users, pc[v] = "crashed"
  PROVE  v \in Parsers => i'[v] = i[v]
<1>0. i \in [Parsers -> Nat \ {0}]
  BY DEF TypeOK, CsvTypeOK
<1>1. ASSUME NEW w \in Parsers, SkipLine(w) \/ AppendRow(w), v \in Parsers
      PROVE  i'[v] = i[v]
  <2>1. w # v /\ i' = [i EXCEPT ![w] = i[w] + 1]
    BY <1>1 DEF SkipLine, InLoop, AppendRow
  <2> QED
    BY <1>0, <1>1, <2>1
<1>2. i' = i \/ \E w \in Parsers : SkipLine(w) \/ AppendRow(w)
  BY DEF Next, vars, csvVars, Encode, EncodeFails, EncodeCrashes, Kill, LineCrashes, TakeLine,
         BeginEncoding, FinishCsv, RefuseConfig, StartCreator, WriteTarget
<1> QED
  BY <1>1, <1>2

\* Who crashes in a step was killed, or crashed while it encoded or on a line.
LEMMA WhoCrashes ==
  ASSUME TypeOK, [Next]_vars, NEW v \in Users, pc[v] # "crashed", pc'[v] = "crashed"
  PROVE  EncodeCrashes(v) \/ Kill(v) \/ (v \in Parsers /\ LineCrashes(v))
<1>0. pc \in [Users -> {"ready", "encode", "done", "crashed"}]
  BY DEF TypeOK
<1>1. ASSUME NEW u \in Users, Encode(u) \/ EncodeFails(u) \/ SkipLine(u) PROVE FALSE
  BY <1>1 DEF Encode, EncodeFails, SkipLine
<1>2. ASSUME NEW u \in Users, EncodeCrashes(u) \/ Kill(u) \/ LineCrashes(u) PROVE u = v
  BY <1>0, <1>2 DEF EncodeCrashes, Kill, LineCrashes, Goto
<1>3. ASSUME NEW u \in Users,
             \/ TakeLine(u) \/ AppendRow(u) \/ FinishCsv(u)
             \/ RefuseConfig(u) \/ StartCreator(u) \/ WriteTarget(u)
      PROVE  FALSE
  BY <1>0, <1>3 DEF TakeLine, StartCreator, BeginEncoding, AppendRow, FinishCsv, RefuseConfig,
                    WriteTarget, Goto
<1>4. ~UNCHANGED vars
  BY DEF vars
<1> QED
  BY <1>1, <1>2, <1>3, <1>4, UsersFacts DEF Next

\* CrashHasCause, of the runs: a process that shared the temporary file with
\* nobody, whose calls on it worked, and which was not killed and met no line
\* without a comma, does not crash.
THEOREM CsvCrashIsExplained == Spec => []CrashHasCause
<1>1. Init => CrashHasCause
  BY DEF Init, CrashHasCause
<1>2. ASSUME IInv, CrashHasCause, [Next]_vars, IInv' PROVE CrashHasCause'
  <2>0. TypeOK /\ Encoding /\ Encoding'
    BY <1>2 DEF IInv
  <2> SUFFICES ASSUME NEW v \in Users, pc'[v] = "crashed" PROVE Explained(v)'
    BY DEF CrashHasCause, Explained
  <2>1. tainted'[v] = tainted[v]
    BY <1>2, <2>0, TaintStays DEF Encoding, Using
  <2>2. killed \subseteq killed'
    BY <1>2, WhoWrites DEF Kill
  <2>3. CASE pc[v] = "crashed"
    <3>1. Explained(v)
      BY <1>2, <2>3 DEF CrashHasCause, Explained
    <3>2. v \in Parsers => i'[v] = i[v]
      BY <1>2, <2>0, <2>3, CrashedStay
    <3> QED
      BY <2>1, <2>2, <3>1, <3>2 DEF Explained
  <2>4. CASE Kill(v)
    BY <2>4 DEF Kill, Explained
  <2>5. CASE EncodeCrashes(v)
    <3>1. stage[v] = "read" /\ MayCrash(v)
      BY <2>5 DEF EncodeCrashes, UnlinkTmp
    <3>2. tainted[v]
      BY <1>2, <3>1, ReadAlone, NotHexes DEF MayCrash
    <3> QED
      BY <2>1, <3>2 DEF Explained
  <2>6. CASE v \in Parsers /\ LineCrashes(v)
    BY <2>6 DEF LineCrashes, InLoop, csvVars, Explained
  <2> QED
    BY <1>2, <2>0, <2>3, <2>4, <2>5, <2>6, WhoCrashes
<1> QED
  BY <1>1, <1>2, Invariance, PTL DEF Spec
-----------------------------------------------------------------------------
(* The rows of a parser.                                                   *)

\* A parser takes a line, skips it, makes a row of it, or stays where it is.
LEMMA ParserMoves ==
  ASSUME TypeOK, Encoding, [Next]_vars, NEW w \in Parsers
  PROVE  \/ SkipLine(w) \/ AppendRow(w)
         \/ /\ rows'[w] = rows[w] /\ i'[w] = i[w] /\ sl'[w] = sl[w]
            /\ pc'[w] = "encode" => pc[w] = "encode" \/ TakeLine(w)
            /\ pc'[w] = "done" => pc[w] = "done" \/ FinishCsv(w)
<1>0. /\ pc \in [Users -> {"ready", "encode", "done", "crashed"}] /\ w \in Users
      /\ w \notin Creators /\ DOMAIN rows = Parsers /\ DOMAIN i = Parsers
      /\ DOMAIN sl = Parsers
  BY UsersFacts DEF TypeOK, CsvTypeOK
<1> DEFINE Stays == /\ rows'[w] = rows[w] /\ i'[w] = i[w] /\ sl'[w] = sl[w]
                    /\ pc'[w] = "encode" => pc[w] = "encode" \/ TakeLine(w)
                    /\ pc'[w] = "done" => pc[w] = "done" \/ FinishCsv(w)
<1>1. ASSUME NEW u \in Users,
             Encode(u) \/ EncodeFails(u) \/ EncodeCrashes(u) \/ Kill(u) \/ LineCrashes(u)
      PROVE  Stays
  BY <1>0, <1>1 DEF Encode, EncodeFails, EncodeCrashes, Kill, LineCrashes, Goto, csvVars
<1>2. ASSUME NEW u \in Users, TakeLine(u) \/ StartCreator(u), u = w => TakeLine(u) PROVE Stays
  <2>1. pc' = [pc EXCEPT ![u] = "encode"] /\ UNCHANGED csvVars
    BY <1>2 DEF TakeLine, StartCreator, BeginEncoding, Goto
  <2> QED
    BY <1>0, <1>2, <2>1 DEF csvVars
<1>3. ASSUME NEW u \in Users, FinishCsv(u) \/ RefuseConfig(u) \/ WriteTarget(u),
             u = w => FinishCsv(u)
      PROVE  Stays
  <2>1. pc' = [pc EXCEPT ![u] = "done"] /\ UNCHANGED csvVars
    BY <1>3 DEF FinishCsv, RefuseConfig, WriteTarget, Goto
  <2> QED
    BY <1>0, <1>3, <2>1 DEF csvVars
<1>4. ASSUME NEW v \in Parsers, v # w, SkipLine(v) \/ AppendRow(v) PROVE Stays
  BY <1>0, <1>4 DEF SkipLine, AppendRow, Goto
<1>5. ASSUME UNCHANGED vars PROVE Stays
  BY <1>5 DEF vars, csvVars
<1> HIDE DEF Stays
<1>6. SkipLine(w) \/ AppendRow(w) \/ Stays
  BY <1>0, <1>1, <1>2, <1>3, <1>4, <1>5, UsersFacts DEF Next
<1> QED
  BY <1>6 DEF Stays

\* The rank of a line grows by one at an accepted line.
LEMMA RankFacts ==
  ASSUME NEW w, NEW n \in Nat
  PROVE  /\ IsFiniteSet(AcceptedUpTo(w, n)) /\ Rank(w, n) \in Nat
         /\ Rank(w, 0) = 0
         /\ Accepted(Lines[w][n + 1]) =>
              /\ AcceptedUpTo(w, n + 1) = AcceptedUpTo(w, n) \cup {n + 1}
              /\ Rank(w, n + 1) = Rank(w, n) + 1
         /\ ~Accepted(Lines[w][n + 1]) => AcceptedUpTo(w, n + 1) = AcceptedUpTo(w, n)
<1>1. IsFiniteSet(AcceptedUpTo(w, n))
  <2>1. IsFiniteSet(1..n) /\ AcceptedUpTo(w, n) \in SUBSET (1..n)
    BY FS_Interval DEF AcceptedUpTo
  <2> QED
    BY <2>1, FS_Subset
<1>2. Rank(w, n) \in Nat
  BY <1>1, FS_CardinalityType DEF Rank
<1>3. Rank(w, 0) = 0
  <2>1. AcceptedUpTo(w, 0) = {}
    BY DEF AcceptedUpTo
  <2> QED
    BY <2>1, FS_EmptySet DEF Rank
<1>4. ASSUME Accepted(Lines[w][n + 1])
      PROVE  /\ AcceptedUpTo(w, n + 1) = AcceptedUpTo(w, n) \cup {n + 1}
             /\ Rank(w, n + 1) = Rank(w, n) + 1
  <2>1. AcceptedUpTo(w, n + 1) = AcceptedUpTo(w, n) \cup {n + 1}
    BY <1>4 DEF AcceptedUpTo
  <2>2. n + 1 \notin AcceptedUpTo(w, n)
    BY DEF AcceptedUpTo
  <2> QED
    BY <1>1, <2>1, <2>2, FS_AddElement DEF Rank
<1>5. ASSUME ~Accepted(Lines[w][n + 1])
      PROVE  AcceptedUpTo(w, n + 1) = AcceptedUpTo(w, n)
  BY <1>5 DEF AcceptedUpTo
<1> QED
  BY <1>1, <1>2, <1>3, <1>4, <1>5

\* A line further down has no smaller rank; an accepted one has a larger.
LEMMA RankGrows ==
  ASSUME NEW w, NEW m \in Nat, NEW n \in Nat, m <= n
  PROVE  /\ Rank(w, m) <= Rank(w, n)
         /\ m < n /\ n \in AcceptedUpTo(w, n) => Rank(w, m) < Rank(w, n)
<1>1. ASSUME NEW k \in Nat, m <= k PROVE Rank(w, m) <= Rank(w, k)
  <2>1. AcceptedUpTo(w, m) \in SUBSET AcceptedUpTo(w, k)
    BY <1>1 DEF AcceptedUpTo
  <2> QED
    BY <2>1, RankFacts, FS_Subset DEF Rank
<1>2. ASSUME m < n, n \in AcceptedUpTo(w, n) PROVE Rank(w, m) < Rank(w, n)
  <2>1. n - 1 \in Nat /\ m <= n - 1 /\ (n - 1) + 1 = n
    BY <1>2
  <2>2. Rank(w, m) <= Rank(w, n - 1)
    BY <1>1, <2>1
  <2>3. Accepted(Lines[w][n])
    BY <1>2 DEF AcceptedUpTo
  <2>4. Rank(w, n) = Rank(w, n - 1) + 1
    BY <2>1, <2>3, RankFacts
  <2>5. Rank(w, m) \in Nat /\ Rank(w, n - 1) \in Nat
    BY <2>1, RankFacts
  <2> QED
    BY <2>2, <2>4, <2>5
<1> QED
  BY <1>1, <1>2

\* The rows of a parser are those of its accepted lines before i.
RowsOf(w) ==
  /\ i[w] <= Len(Lines[w]) + 1
  /\ Len(rows[w]) = Rank(w, i[w] - 1)
  /\ ParseQty >= 0 => Len(rows[w]) <= ParseQty
  /\ pc[w] = "encode" /\ ParseQty >= 0 => Len(rows[w]) < ParseQty
  /\ \A j \in AcceptedUpTo(w, i[w] - 1) : rows[w][Rank(w, j)].line = Lines[w][j]

\* The next line of a parser keeps its rows in step with its lines.
LEMMA RowsStep ==
  ASSUME TypeOK, Encoding, [Next]_vars, NEW w \in Parsers, RowsOf(w)
  PROVE  RowsOf(w)'
<1>0. /\ i[w] \in Nat \ {0} /\ i[w] - 1 \in Nat /\ (i[w] - 1) + 1 = i[w]
      /\ Len(Lines[w]) \in Nat /\ ParseQty \in Int
      /\ pc \in [Users -> {"ready", "encode", "done", "crashed"}] /\ w \in Users
      /\ i \in [Parsers -> Nat \ {0}]
  BY LinesFacts, UsersFacts, CsvAssumption DEF TypeOK, CsvTypeOK
<1>1. CASE SkipLine(w)
  <2>1. /\ rows' = rows /\ pc' = pc /\ i'[w] = i[w] + 1 /\ pc[w] = "ready"
        /\ i[w] <= Len(Lines[w]) /\ ~Accepted(Lines[w][i[w]])
    BY <1>0, <1>1 DEF SkipLine, InLoop
  <2>2. AcceptedUpTo(w, i[w]) = AcceptedUpTo(w, i[w] - 1)
    BY <1>0, <2>1, RankFacts
  <2>3. i'[w] - 1 = i[w]
    BY <1>0, <2>1
  <2> QED
    BY <1>0, <2>1, <2>2, <2>3 DEF RowsOf, Rank
<1>2. CASE AppendRow(w)
  <2> DEFINE n == Len(rows[w])
  <2>1. /\ i[w] <= Len(Lines[w]) /\ Accepted(Lines[w][i[w]]) /\ pc[w] = "encode"
        /\ pc'[w] = "ready"
    BY <1>0, <1>2 DEF Encoding, AppendRow, Goto
  <2>2. /\ i'[w] = i[w] + 1 /\ n \in Nat /\ Len(rows'[w]) = n + 1
        /\ \A k \in 1..n : rows'[w][k] = rows[w][k]
        /\ rows'[w][n + 1].line = Lines[w][i[w]]
    <3>1. /\ rows'[w][n + 1] = [line |-> Lines[w][i[w]], slug |-> NextSlug(w),
                                pixel |-> pixel[w], png |-> Encoded(w),
                                tainted |-> tainted[w]]
          /\ i'[w] = i[w] + 1 /\ n \in Nat /\ Len(rows'[w]) = n + 1
          /\ \A k \in 1..n : rows'[w][k] = rows[w][k]
      BY <1>2, AppendedRow, Zenon
    <3> HIDE DEF n
    <3> QED
      BY <3>1
  <2>3. i'[w] - 1 = i[w]
    BY <1>0, <2>2
  <2>4. /\ AcceptedUpTo(w, i[w]) = AcceptedUpTo(w, i[w] - 1) \cup {i[w]}
        /\ Rank(w, i[w]) = Rank(w, i[w] - 1) + 1
    BY <1>0, <2>1, RankFacts
  <2>5. n = Rank(w, i[w] - 1)
    BY DEF RowsOf
  <2> HIDE DEF n
  <2>6. ASSUME NEW j \in AcceptedUpTo(w, i[w]) PROVE rows'[w][Rank(w, j)].line = Lines[w][j]
    <3>1. CASE j = i[w]
      BY <2>2, <2>4, <2>5, <3>1
    <3>2. CASE j # i[w]
      <4>1. j \in AcceptedUpTo(w, i[w] - 1)
        BY <2>4, <2>6, <3>2
      <4>2. j \in 1..(i[w] - 1) /\ j \in AcceptedUpTo(w, j)
        BY <4>1 DEF AcceptedUpTo
      <4>3. j \in Nat /\ 0 < j /\ j <= i[w] - 1
        BY <1>0, <4>2
      <4>4. Rank(w, j) <= n
        BY <1>0, <2>5, <4>3, RankGrows
      <4>5. Rank(w, 0) < Rank(w, j) /\ Rank(w, 0) = 0 /\ Rank(w, j) \in Nat
        BY <4>2, <4>3, RankFacts, RankGrows
      <4>6. Rank(w, j) \in 1..n
        BY <2>2, <4>4, <4>5
      <4> QED
        BY <2>2, <4>1, <4>6 DEF RowsOf
    <3> QED
      BY <3>1, <3>2
  <2>7. ParseQty >= 0 => n + 1 <= ParseQty
    BY <1>0, <2>1, <2>2 DEF RowsOf, n
  <2> QED
    BY <1>0, <2>1, <2>2, <2>3, <2>4, <2>5, <2>6, <2>7 DEF RowsOf
<1>3. CASE /\ rows'[w] = rows[w] /\ i'[w] = i[w]
           /\ pc'[w] = "encode" => pc[w] = "encode" \/ TakeLine(w)
  <2>1. TakeLine(w) /\ ParseQty >= 0 => Len(rows[w]) < ParseQty
    BY DEF TakeLine, InLoop
  <2> QED
    BY <1>3, <2>1 DEF RowsOf
<1> QED
  BY <1>1, <1>2, <1>3, ParserMoves

\* A parser that leaves its loop has gone as far as its lines or its count.
LEMMA FinishedRows ==
  ASSUME TypeOK, NEW w \in Parsers, RowsOf(w), FinishCsv(w)
  PROVE  LET all == Rank(w, Len(Lines[w])) IN
           /\ Len(rows[w]) = IF ParseQty < 0 THEN all ELSE Smaller(ParseQty, all)
           /\ \A j \in AcceptedUpTo(w, Len(Lines[w])) :
                Rank(w, j) <= Len(rows[w]) => rows[w][Rank(w, j)].line = Lines[w][j]
<1> DEFINE all == Rank(w, Len(Lines[w]))
           n == Len(rows[w])
           m == i[w] - 1
<1>1. /\ i[w] \in Nat \ {0} /\ Len(Lines[w]) \in Nat /\ ParseQty \in Int
      /\ i[w] <= Len(Lines[w]) + 1
  BY LinesFacts, CsvAssumption DEF TypeOK, CsvTypeOK, RowsOf
<1>2. m \in Nat /\ m <= Len(Lines[w])
  BY <1>1
<1>3. n = Rank(w, m) /\ n \in Nat /\ all \in Nat /\ n <= all
  BY <1>1, <1>2, RankFacts, RankGrows DEF RowsOf
<1>4. \/ i[w] > Len(Lines[w])
      \/ ParseQty >= 0 /\ n >= ParseQty
  BY <1>1, <1>3 DEF FinishCsv, InLoop
<1>5. ParseQty >= 0 => n <= ParseQty
  BY DEF RowsOf
<1>6. i[w] > Len(Lines[w]) => m = Len(Lines[w])
  BY <1>1
<1>7. \A j \in AcceptedUpTo(w, m) : rows[w][Rank(w, j)].line = Lines[w][j]
  BY DEF RowsOf
<1> HIDE DEF all, n, m
<1>8. n = IF ParseQty < 0 THEN all ELSE Smaller(ParseQty, all)
  <2>1. m = Len(Lines[w]) => n = all
    BY <1>3 DEF all
  <2> QED
    BY <1>1, <1>3, <1>4, <1>5, <1>6, <2>1 DEF Smaller
<1>9. ASSUME NEW j \in AcceptedUpTo(w, Len(Lines[w])), Rank(w, j) <= n
      PROVE  rows[w][Rank(w, j)].line = Lines[w][j]
  <2>1. j \in Nat \ {0} /\ j \in AcceptedUpTo(w, j)
    BY <1>1 DEF AcceptedUpTo
  <2>2. ~(m < j)
    <3>1. SUFFICES ASSUME m < j PROVE FALSE
      OBVIOUS
    <3>2. Rank(w, m) < Rank(w, j) /\ Rank(w, j) \in Nat
      BY <1>2, <2>1, <3>1, RankFacts, RankGrows
    <3> QED
      BY <1>3, <1>9, <3>2
  <2>3. j \in AcceptedUpTo(w, m)
    BY <1>2, <1>9, <2>1, <2>2 DEF AcceptedUpTo
  <2> QED
    BY <1>7, <2>3
<1> QED
  BY <1>8, <1>9 DEF all, n

\* RowsAreAcceptedLines, of the runs: a parser that is done has made its rows
\* of exactly the first accepted lines, in order, as many as its count allows.
THEOREM RowPerAcceptedLine == Spec => []RowsAreAcceptedLines
<1> DEFINE Rows == \A w \in Parsers : RowsOf(w)
<1>1. Init => Rows /\ RowsAreAcceptedLines
  <2> SUFFICES ASSUME Init, NEW w \in Parsers PROVE RowsOf(w) /\ pc[w] # "done"
    BY DEF RowsAreAcceptedLines
  <2>1. /\ i[w] = 1 /\ rows[w] = << >> /\ pc[w] = "ready" /\ Len(Lines[w]) \in Nat
        /\ ParseQty \in Int /\ i[w] - 1 = 0
    BY LinesFacts, UsersFacts, CsvAssumption DEF Init
  <2>2. AcceptedUpTo(w, 0) = {}
    BY DEF AcceptedUpTo
  <2>3. Rank(w, 0) = 0
    BY RankFacts, 0 \in Nat
  <2>4. Len(rows[w]) = 0
    BY <2>1
  <2> QED
    BY <2>1, <2>2, <2>3, <2>4 DEF RowsOf
<1>2. ASSUME IInv, Rows, RowsAreAcceptedLines, [Next]_vars
      PROVE  Rows' /\ RowsAreAcceptedLines'
  <2>1. TypeOK /\ Encoding
    BY <1>2 DEF IInv
  <2>2. Rows'
    BY <1>2, <2>1, RowsStep
  <2>3. ASSUME NEW w \in Parsers, pc'[w] = "done"
        PROVE  LET all == Rank(w, Len(Lines[w])) IN
                 /\ Len(rows'[w]) = IF ParseQty < 0 THEN all ELSE Smaller(ParseQty, all)
                 /\ \A j \in AcceptedUpTo(w, Len(Lines[w])) :
                      Rank(w, j) <= Len(rows'[w]) => rows'[w][Rank(w, j)].line = Lines[w][j]
    <3>1. ~SkipLine(w) /\ ~AppendRow(w)
      BY <2>1, <2>3, UsersFacts DEF SkipLine, AppendRow, InLoop, Goto, TypeOK
    <3>2. rows'[w] = rows[w] /\ (pc[w] = "done" \/ FinishCsv(w))
      BY <1>2, <2>1, <2>3, <3>1, ParserMoves
    <3>3. CASE pc[w] = "done"
      BY <1>2, <3>2, <3>3 DEF RowsAreAcceptedLines
    <3>4. CASE FinishCsv(w)
      BY <1>2, <2>1, <3>2, <3>4, FinishedRows
    <3> QED
      BY <3>2, <3>3, <3>4
  <2>4. RowsAreAcceptedLines'
    BY <2>3 DEF RowsAreAcceptedLines
  <2> QED
    BY <2>2, <2>4
<1> QED
  BY <1>1, <1>2, Invariance, PTL DEF Spec

\* The rows up to k whose names are ASCII, and what SlugIsNearestAsciiAbove
\* says of row k.
AsciiUpTo(w, k) == {j \in 1..k : rows[w][j].line.name \in AsciiNames}
Nearest(w, k) ==
  IF AsciiUpTo(w, k) = {} THEN rows[w][k].slug = NoSlug
  ELSE \E j \in AsciiUpTo(w, k) : /\ \A m \in AsciiUpTo(w, k) : m <= j
                                  /\ rows[w][k].slug = SlugOf[rows[w][j].line.name]
SlugsOf(w) ==
  /\ sl[w] = IF Len(rows[w]) = 0 THEN NoSlug ELSE rows[w][Len(rows[w])].slug
  /\ \A k \in 1..Len(rows[w]) : Nearest(w, k)

\* The slug of a new row is right, and is that of sl.
LEMMA SlugStep ==
  ASSUME TypeOK, NEW w \in Parsers, SlugsOf(w), AppendRow(w)
  PROVE  SlugsOf(w)'
<1> DEFINE name == Lines[w][i[w]].name
<1>0. PICK n \in Nat : n = Len(rows[w])
  BY AppendedRow
<1>1. /\ n \in Nat /\ Len(rows'[w]) = n + 1 /\ sl'[w] = NextSlug(w)
      /\ \A k \in 1..n : rows'[w][k] = rows[w][k]
      /\ rows'[w][n + 1].line.name = name /\ rows'[w][n + 1].slug = NextSlug(w)
  <2>1. /\ rows'[w][n + 1] = [line |-> Lines[w][i[w]], slug |-> NextSlug(w),
                              pixel |-> pixel[w], png |-> Encoded(w),
                              tainted |-> tainted[w]]
        /\ n \in Nat /\ Len(rows'[w]) = n + 1 /\ sl'[w] = NextSlug(w)
        /\ \A k \in 1..n : rows'[w][k] = rows[w][k]
    BY <1>0, AppendedRow
  <2> QED
    BY <2>1
<1>2. NextSlug(w) = IF name \in AsciiNames THEN SlugOf[name] ELSE sl[w]
  BY DEF NextSlug
<1>3. /\ sl[w] = IF n = 0 THEN NoSlug ELSE rows[w][n].slug
      /\ \A k \in 1..n : Nearest(w, k)
  BY <1>0 DEF SlugsOf
<1> HIDE DEF name
<1>4. ASSUME NEW k \in 1..n PROVE AsciiUpTo(w, k)' = AsciiUpTo(w, k)
  BY <1>1, <1>4 DEF AsciiUpTo
<1>5. ASSUME NEW k \in 1..n PROVE Nearest(w, k)'
  <2>1. AsciiUpTo(w, k)' = AsciiUpTo(w, k) /\ rows'[w][k] = rows[w][k] /\ Nearest(w, k)
    BY <1>1, <1>3, <1>4
  <2>2. \A j \in AsciiUpTo(w, k) : rows'[w][j] = rows[w][j]
    BY <1>1 DEF AsciiUpTo
  <2> QED
    BY <2>1, <2>2 DEF Nearest
<1>6. Nearest(w, n + 1)'
  <2>1. CASE name \in AsciiNames
    <3>1. n + 1 \in AsciiUpTo(w, n + 1)'
      BY <1>1, <2>1 DEF AsciiUpTo
    <3>2. \A m \in AsciiUpTo(w, n + 1)' : m <= n + 1
      BY <1>1 DEF AsciiUpTo
    <3> QED
      BY <1>1, <1>2, <2>1, <3>1, <3>2 DEF Nearest
  <2>2. CASE name \notin AsciiNames /\ n = 0
    <3>1. AsciiUpTo(w, n + 1)' = {}
      BY <1>1, <2>2 DEF AsciiUpTo
    <3> QED
      BY <1>1, <1>2, <1>3, <2>2, <3>1 DEF Nearest
  <2>3. CASE name \notin AsciiNames /\ n # 0
    <3>1. n \in 1..n
      BY <1>1, <2>3
    <3>2. AsciiUpTo(w, n + 1)' = AsciiUpTo(w, n)
      <4>1. \A j \in 1..(n + 1) : j \in 1..n \/ j = n + 1
        BY <1>1
      <4>2. 1..n \subseteq 1..(n + 1)
        BY <1>1
      <4> QED
        BY <1>1, <2>3, <4>1, <4>2 DEF AsciiUpTo
    <3>3. \A j \in AsciiUpTo(w, n) : rows'[w][j] = rows[w][j]
      BY <1>1 DEF AsciiUpTo
    <3>4. rows'[w][n + 1].slug = rows[w][n].slug /\ Nearest(w, n)
      BY <1>1, <1>2, <1>3, <2>3, <3>1
    <3> QED
      BY <3>2, <3>3, <3>4 DEF Nearest
  <2> QED
    BY <2>1, <2>2, <2>3
<1>7. \A k \in 1..(n + 1) : k \in 1..n \/ k = n + 1
  BY <1>1
<1>8. \A k \in 1..Len(rows'[w]) : Nearest(w, k)'
  BY <1>1, <1>5, <1>6, <1>7
<1>9. sl'[w] = IF Len(rows'[w]) = 0 THEN NoSlug ELSE rows'[w][Len(rows'[w])].slug
  BY <1>1
<1> QED
  BY <1>8, <1>9 DEF SlugsOf

\* SlugIsNearestAsciiAbove, of the runs: a row has the slug of the last row, up
\* to itself, whose name is ASCII, and never that of a skipped line.
THEOREM SlugFromAbove == Spec => []SlugIsNearestAsciiAbove
<1> DEFINE Slugs == \A w \in Parsers : SlugsOf(w)
<1>1. Init => Slugs
  <2> SUFFICES ASSUME Init, NEW w \in Parsers PROVE SlugsOf(w)
    OBVIOUS
  <2>1. sl[w] = NoSlug /\ Len(rows[w]) = 0
    BY DEF Init
  <2> QED
    BY <2>1 DEF SlugsOf
<1>2. ASSUME IInv, Slugs, [Next]_vars PROVE Slugs'
  <2> SUFFICES ASSUME NEW w \in Parsers PROVE SlugsOf(w)'
    OBVIOUS
  <2>1. TypeOK /\ Encoding /\ SlugsOf(w)
    BY <1>2 DEF IInv
  <2>2. CASE rows'[w] = rows[w] /\ sl'[w] = sl[w]
    BY <2>1, <2>2 DEF SlugsOf, Nearest, AsciiUpTo
  <2>3. CASE AppendRow(w)
    BY <2>1, <2>3, SlugStep
  <2>4. SkipLine(w) => rows'[w] = rows[w] /\ sl'[w] = sl[w]
    BY DEF SkipLine
  <2> QED
    BY <1>2, <2>1, <2>2, <2>3, <2>4, ParserMoves
<1>3. IInv /\ Slugs => SlugIsNearestAsciiAbove
  <2> SUFFICES ASSUME IInv, Slugs, NEW w \in Parsers, NEW k \in DOMAIN rows[w]
               PROVE  Nearest(w, k)
    BY DEF SlugIsNearestAsciiAbove, Nearest, AsciiUpTo
  <2>1. rows[w] \in Seq(CsvRow)
    BY DEF IInv, TypeOK, CsvTypeOK
  <2>2. k \in 1..Len(rows[w])
    BY <2>1, LenProperties
  <2> QED
    BY <2>2 DEF SlugsOf
<1> QED
  BY <1>1, <1>2, <1>3, Invariance, PTL DEF Spec
=============================================================================
