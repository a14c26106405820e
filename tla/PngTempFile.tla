---------------------------- MODULE PngTempFile ----------------------------
(***************************************************************************)
(* hex_to_png_encoded_bytes (hex-png-pixel-utils.c): a pixel is encoded by *)
(* writing a PNG to $TMPDIR/.tmp.png, measuring, reading and unlinking it. *)
(* Every process uses the same file, without a lock.                       *)
(*                                                                         *)
(* A picture stands for the contents of the file one colour makes, and for *)
(* its length, which depends on the colour.  A file that is unlinked while *)
(* a process writes it is out of reach for everyone else.  Nobody looks at *)
(* what fopen, fwrite and fclose return, nor at the results of the calls   *)
(* that measure and read the file.                                         *)
(***************************************************************************)
EXTENDS Integers, Sequences

CONSTANTS
  Users,     \* processes that encode colours
  Hexes,     \* colours
  Absent,    \* no file
  Empty,     \* a file without contents; also a result without a picture
  Cut        \* a file with a part of a picture

VARIABLES
  tmp,       \* .tmp.png: Absent, Empty or a picture
  stage,     \* stage[u]: how far u is in hex_to_png_encoded_bytes
  fd,        \* fd[u]: u has the file open, "named" or "unlinked", or "none"
  pixel,     \* pixel[u]: the colour strtol has made of the hex
  size,      \* size[u]: wrote_bytes, as the file that was measured
  data,      \* data[u]: PNG_DATA
  tainted    \* history: in its last encoding u shared the file with another
             \* process, or could not open, write, measure or read it

pngVars == <<tmp, stage, fd, pixel, size, data, tainted>>

Using == {u \in Users : stage[u] # "idle"}

PngInit ==
  /\ tmp = Absent
  /\ stage = [u \in Users |-> "idle"]
  /\ fd = [u \in Users |-> "none"]
  /\ pixel = [u \in Users |-> Absent]
  /\ size = [u \in Users |-> Absent]
  /\ data = [u \in Users |-> Absent]
  /\ tainted = [u \in Users |-> FALSE]

\* The pixel is computed and stbi_write_png opens the file, which creates or
\* truncates it.
OpenTmp(u, colour) ==
  /\ stage[u] = "idle"
  /\ stage' = [stage EXCEPT ![u] = "opened"]
  /\ pixel' = [pixel EXCEPT ![u] = colour]
  /\ tmp' = Empty
  /\ fd' = [fd EXCEPT ![u] = "named"]
  /\ tainted' = [v \in Users |->
                  CASE v = u -> Using # {}
                    [] v \in Using -> TRUE
                    [] OTHER -> tainted[v]]
  /\ UNCHANGED <<size, data>>

\* It has no memory for the picture, or cannot open the file, and returns 0.
OpenTmpFails(u, colour) ==
  /\ stage[u] = "idle"
  /\ stage' = [stage EXCEPT ![u] = "written"]
  /\ pixel' = [pixel EXCEPT ![u] = colour]
  /\ tainted' = [v \in Users |-> v \in Using \cup {u} \/ tainted[v]]
  /\ UNCHANGED <<tmp, fd, size, data>>

\* fwrite and fclose leave contents in the file.
Store(u, contents) ==
  /\ stage[u] = "opened"
  /\ stage' = [stage EXCEPT ![u] = "written"]
  /\ tmp' = IF fd[u] = "named" THEN contents ELSE tmp
  /\ fd' = [fd EXCEPT ![u] = "none"]
  /\ UNCHANGED <<pixel, size, data>>

Taint(u) == tainted' = [tainted EXCEPT ![u] = TRUE]

WriteTmp(u) == Store(u, pixel[u]) /\ UNCHANGED tainted

\* The disk is full.
WriteTmpShort(u) == (\E part \in {Empty, Cut} : Store(u, part)) /\ Taint(u)

\* Mutant of MeasureTmp: the file is measured before it is written.
MeasureTmpEarly(u) ==
  /\ stage[u] = "written"
  /\ stage' = [stage EXCEPT ![u] = "measured"]
  /\ size' = [size EXCEPT ![u] = Empty]
  /\ UNCHANGED <<tmp, fd, pixel, data, tainted>>

MeasureTmp(u) ==
  /\ stage[u] = "written"
  /\ stage' = [stage EXCEPT ![u] = "measured"]
  /\ size' = [size EXCEPT ![u] = tmp]
  /\ UNCHANGED <<tmp, fd, pixel, data, tainted>>

\* fsio_file_size returns -1, as for a missing file.
MeasureTmpFails(u) ==
  /\ stage[u] = "written"
  /\ stage' = [stage EXCEPT ![u] = "measured"]
  /\ size' = [size EXCEPT ![u] = Absent]
  /\ Taint(u)
  /\ UNCHANGED <<tmp, fd, pixel, data>>

\* Mutant of ReadTmp: the file is read after it is unlinked.
ReadTmpLate(u) ==
  /\ stage[u] = "measured"
  /\ stage' = [stage EXCEPT ![u] = "read"]
  /\ data' = [data EXCEPT ![u] = Absent]
  /\ UNCHANGED <<tmp, fd, pixel, size, tainted>>

ReadTmp(u) ==
  /\ stage[u] = "measured"
  /\ stage' = [stage EXCEPT ![u] = "read"]
  /\ data' = [data EXCEPT ![u] = tmp]
  /\ UNCHANGED <<tmp, fd, pixel, size, tainted>>

\* fsio_read_binary_file returns NULL, as for a missing file.
ReadTmpFails(u) ==
  /\ stage[u] = "measured"
  /\ stage' = [stage EXCEPT ![u] = "read"]
  /\ data' = [data EXCEPT ![u] = Absent]
  /\ Taint(u)
  /\ UNCHANGED <<tmp, fd, pixel, size>>

\* Mutant of UnlinkTmp: the file stays.
UnlinkTmpNot(u) ==
  /\ stage[u] = "read"
  /\ stage' = [stage EXCEPT ![u] = "idle"]
  /\ size' = [size EXCEPT ![u] = Absent]
  /\ data' = [data EXCEPT ![u] = Absent]
  /\ UNCHANGED <<tmp, fd, pixel, tainted>>

UnlinkTmp(u) ==
  /\ stage[u] = "read"
  /\ stage' = [stage EXCEPT ![u] = "idle"]
  /\ tmp' = Absent
  /\ fd' = [v \in Users |-> IF fd[v] = "named" THEN "unlinked" ELSE fd[v]]
  /\ size' = [size EXCEPT ![u] = Absent]
  /\ data' = [data EXCEPT ![u] = Absent]
  /\ UNCHANGED <<pixel, tainted>>

\* u is killed: the system closes the file, nobody unlinks it.
Abandon(u) ==
  /\ stage' = [stage EXCEPT ![u] = "idle"]
  /\ fd' = [fd EXCEPT ![u] = "none"]
  /\ size' = [size EXCEPT ![u] = Absent]
  /\ data' = [data EXCEPT ![u] = Absent]
  /\ UNCHANGED <<tmp, pixel, tainted>>

NoPicture == [picture |-> Empty, length |-> Empty]

\* The value hex_to_png_encoded_bytes returns after the unlink.  A missing
\* file is measured as -1 and read as NULL, whose strlen is taken; the length
\* -1 is larger than any buffer.  An empty file may be read as NULL too.
MayCrash(u) == Absent \in {data[u], size[u]} \/ data[u] = Empty
MustCrash(u) == data[u] = Absent \/ (data[u] # Empty /\ size[u] = Absent)
Encoded(u) ==
  IF Empty \in {data[u], size[u]} THEN NoPicture
  ELSE [picture |-> data[u], length |-> size[u]]
=============================================================================
