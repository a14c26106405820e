-------------------------- MODULE SpMemFile_proofs --------------------------
(***************************************************************************)
(* The memory file, for every size that respects FileAssumption: the       *)
(* growth never wraps, no write leaves the buffer, and the buffer          *)
(* implements the file of VfsFile.                                         *)
(***************************************************************************)
EXTENDS SpMemFile, TLAPS

IInv == TypeOK /\ InBounds

\* The end of a block written at offset, as Next bounds it.
LEMMA BlockFacts ==
  ASSUME NEW block \in Blocks, NEW offset \in 0..Limit, offset + Len(block) <= Limit
  PROVE  /\ block \in Seq(Bytes)
         /\ Len(block) \in Nat \ {0}
         /\ offset + Len(block) \in 1..Limit
<1>1. block \in Seq(Bytes) /\ block # <<>>
  BY FileAssumption
<1>2. Len(block) \in Nat \ {0}
  BY <1>1
<1>3. Limit \in Nat
  BY FileAssumption
<1> QED
  BY ONLY <1>1, <1>2, <1>3, offset \in 0..Limit, offset + Len(block) <= Limit

\* A number below the modulus is its own remainder.
LEMMA SmallRemainder ==
  ASSUME NEW m \in Nat \ {0}, NEW r \in 0..(m - 1)
  PROVE  r % m = r
<1> DEFINE q == r \div m
           v == r % m
<1>1. q \in Int /\ v \in 0..(m - 1) /\ r = m * q + v
  OBVIOUS
<1> HIDE DEF q
<1>2. -m < m * q /\ m * q < m
  BY <1>1
<1>3. q = 0
  BY ONLY <1>1, <1>2, m \in Nat \ {0}
<1> QED
  BY <1>1, <1>3

\* Assigning a non-negative value up to INT_MAX to an int keeps it.
LEMMA FitsInt ==
  ASSUME NEW n \in 0..IntMax
  PROVE  ToInt(n) = n
<1> DEFINE m == 2 * (IntMax + 1)
<1>1. IntMax \in Nat
  BY FileAssumption
<1>2. m \in Nat \ {0} /\ n + IntMax + 1 \in 0..(m - 1)
  BY <1>1
<1> HIDE DEF m
<1>3. (n + IntMax + 1) % m = n + IntMax + 1
  BY <1>2, SmallRemainder
<1> QED
  BY <1>1, <1>3 DEF ToInt, m

\* The int newTotal of spmemfileWrite holds the sum the code means.
LEMMA GrowthFacts ==
  ASSUME NEW last \in 1..Limit, total \in Nat, ~Fits(last)
  PROVE  /\ NewTotal(last) \in 0..(4 * Limit)
         /\ last <= NewTotal(last)
         /\ total <= NewTotal(last)
<1> DEFINE n == 2 * (last + total)
<1>1. Limit \in Nat /\ IntMax \in Nat /\ 4 * Limit <= IntMax
  BY FileAssumption
<1>2. total < last
  BY <1>1 DEF Fits
<1>3. n \in 0..(4 * Limit) /\ n \in 0..IntMax /\ last <= n /\ total <= n
  BY <1>1, <1>2
<1>4. NewTotal(last) = n
  BY <1>3, FitsInt DEF NewTotal
<1> QED
  BY <1>3, <1>4

\* Copying a block into an array of bytes leaves an array of bytes.
LEMMA CopiedType ==
  ASSUME NEW n \in Nat, NEW cells \in [1..n -> Bytes \cup {Junk}],
         NEW offset \in Nat, NEW block \in Seq(Bytes)
  PROVE  Copied(cells, offset, block) \in [1..n -> Bytes \cup {Junk}]
<1>1. DOMAIN cells = 1..n
  OBVIOUS
<1>2. ASSUME NEW j \in 1..n, j \in (offset + 1)..(offset + Len(block))
      PROVE  block[j - offset] \in Bytes
  <2>1. j - offset \in 1..Len(block)
    BY <1>2
  <2> QED
    BY <2>1
<1> QED
  BY <1>1, <1>2 DEF Copied
-----------------------------------------------------------------------------
(* TypeOK and InBounds together are inductive.                             *)

\* A buffer as readFile fills it satisfies the invariant.
LEMMA InitInvariant == Init => IInv
<1> SUFFICES ASSUME Init PROVE IInv
  OBVIOUS
<1>1. Limit \in Nat
  BY FileAssumption
<1>2. data \in [1..total -> Bytes \cup {Junk}]
  BY DEF Init
<1>3. used \in 0..Limit /\ total \in 0..(4 * Limit) /\ used <= total
  BY <1>1 DEF Init
<1>4. outside = FALSE
  BY DEF Init
<1> QED
  BY <1>2, <1>3, <1>4 DEF IInv, TypeOK, InBounds

\* A write inside the buffer keeps the invariant.
LEMMA WriteInPlaceKeeps ==
  ASSUME IInv, NEW offset \in 0..Limit, NEW block \in Blocks,
         offset + Len(block) <= Limit, WriteInPlace(offset, block)
  PROVE  IInv'
<1>1. offset + Len(block) \in 1..Limit /\ block \in Seq(Bytes) /\ Limit \in Nat
  BY BlockFacts, FileAssumption
<1>2. data' \in [1..total -> Bytes \cup {Junk}]
  BY <1>1, CopiedType DEF IInv, TypeOK, WriteInPlace
<1>3. used' \in 0..Limit /\ used' <= total
  BY <1>1 DEF IInv, TypeOK, InBounds, WriteInPlace, SetUsed, Fits
<1> QED
  BY <1>2, <1>3 DEF IInv, TypeOK, InBounds, WriteInPlace

\* A write that makes the buffer grow keeps the invariant.
LEMMA WriteGrowingKeeps ==
  ASSUME IInv, NEW offset \in 0..Limit, NEW block \in Blocks,
         offset + Len(block) <= Limit, WriteGrowing(offset, block)
  PROVE  IInv'
<1> DEFINE last == offset + Len(block)
<1>1. last \in 1..Limit /\ block \in Seq(Bytes) /\ Limit \in Nat
  BY BlockFacts, FileAssumption
<1>2. total \in Nat /\ ~Fits(last) /\ used \in 0..Limit /\ used <= total
  BY <1>1 DEF IInv, TypeOK, InBounds, WriteGrowing
<1>3. total' = NewTotal(last) /\ total' \in 0..(4 * Limit) /\ last <= total' /\ total <= total'
  BY <1>1, <1>2, GrowthFacts DEF WriteGrowing
<1>4. Resized(total') \in [1..total' -> Bytes \cup {Junk}]
  <2>1. \A j \in 1..total' : j <= total => data[j] \in Bytes \cup {Junk}
    BY <1>1, <1>2, <1>3 DEF IInv, TypeOK
  <2> QED
    BY <2>1 DEF Resized
<1>5. data' \in [1..total' -> Bytes \cup {Junk}]
  <2>1. data' = Copied(Resized(total'), offset, block)
    BY <1>3 DEF WriteGrowing
  <2>2. total' \in Nat /\ offset \in Nat
    BY <1>1, <1>3
  <2> QED
    BY <1>1, <1>4, <2>1, <2>2, CopiedType
<1>6. used' \in 0..Limit /\ used' <= total'
  BY <1>1, <1>2, <1>3 DEF WriteGrowing, SetUsed
<1>7. outside' = FALSE
  BY <1>1, <1>3 DEF IInv, InBounds, TypeOK, WriteGrowing
<1> QED
  BY <1>3, <1>5, <1>6, <1>7 DEF IInv, TypeOK, InBounds

\* Every call keeps the invariant.
LEMMA NextInvariant == IInv /\ [Next]_vars => IInv'
<1> SUFFICES ASSUME IInv, [Next]_vars PROVE IInv'
  OBVIOUS
<1>1. Limit \in Nat
  BY FileAssumption
<1>2. CASE UNCHANGED vars
  BY <1>2 DEF vars, IInv, TypeOK, InBounds
<1>3. ASSUME NEW offset \in 0..Limit, NEW block \in Blocks,
             offset + Len(block) <= Limit,
             \/ WriteInPlace(offset, block)
             \/ WriteGrowing(offset, block)
             \/ WriteNoMem(offset, block)
      PROVE  IInv'
  <2>1. CASE WriteInPlace(offset, block)
    BY <1>3, <2>1, WriteInPlaceKeeps
  <2>2. CASE WriteGrowing(offset, block)
    BY <1>3, <2>2, WriteGrowingKeeps
  <2>3. CASE WriteNoMem(offset, block)
    BY <2>3 DEF WriteNoMem, IInv, TypeOK, InBounds
  <2> QED
    BY <1>3, <2>1, <2>2, <2>3
<1>4. ASSUME NEW n \in 0..Limit, Truncate(n) PROVE IInv'
  <2>1. used' \in 0..Limit /\ used' <= total
    BY <1>1, <1>4 DEF Truncate, IInv, TypeOK, InBounds
  <2> QED
    BY <1>4, <2>1 DEF Truncate, IInv, TypeOK, InBounds
<1>5. ASSUME NEW offset \in 0..Limit, NEW len \in 1..Limit, Read(offset, len)
      PROVE  IInv'
  BY <1>5 DEF Read, IInv, TypeOK, InBounds
<1> QED
  BY <1>2, <1>3, <1>4, <1>5 DEF Next

\* The invariant holds in every reachable state.
LEMMA Inductive == Spec => []IInv
<1> QED
  BY InitInvariant, NextInvariant, PTL DEF Spec

\* Used, total and the bytes of a memory file keep their ranges: the sizes
\* that spmemfileWrite computes never leave an int.
THEOREM FileTypeCorrect == Spec => []TypeOK
<1>1. IInv => TypeOK
  BY DEF IInv
<1> QED
  BY Inductive, <1>1, PTL

\* spmemfileWrite never copies outside the buffer, and the end of the file
\* stays inside it, for every file of up to a quarter of INT_MAX bytes.
THEOREM WritesStayInside == Spec => []InBounds
<1>1. IInv => InBounds
  BY DEF IInv
<1> QED
  BY Inductive, <1>1, PTL
-----------------------------------------------------------------------------
(* Refinement: every step of the buffer is a step of the file.             *)

\* What Copied puts where, for a block that lies inside the array.
LEMMA CopiedFacts ==
  ASSUME NEW n \in Nat, NEW cells, DOMAIN cells = 1..n,
         NEW offset \in Nat, NEW block \in Seq(Bytes), offset + Len(block) <= n
  PROVE  /\ \A j \in 1..Len(block) : Copied(cells, offset, block)[offset + j] = block[j]
         /\ \A j \in 1..n : j \notin (offset + 1)..(offset + Len(block)) =>
              Copied(cells, offset, block)[j] = cells[j]
<1>1. Len(block) \in Nat
  OBVIOUS
<1>2. ASSUME NEW j \in 1..Len(block)
      PROVE  Copied(cells, offset, block)[offset + j] = block[j]
  <2>1. offset + j \in 1..n /\ offset + j \in (offset + 1)..(offset + Len(block))
    BY <1>1
  <2>2. (offset + j) - offset = j
    BY <1>1
  <2> QED
    BY <2>1, <2>2 DEF Copied
<1>3. ASSUME NEW j \in 1..n, j \notin (offset + 1)..(offset + Len(block))
      PROVE  Copied(cells, offset, block)[j] = cells[j]
  BY <1>3 DEF Copied
<1> QED
  BY <1>2, <1>3

\* A successful write, in place or growing, is a write of the file.
LEMMA WriteMaps ==
  ASSUME NEW offset \in 0..Limit, NEW block \in Blocks,
         offset + Len(block) <= Limit,
         used \in 0..Limit,
         SetUsed(offset + Len(block)), reply' = Status("ok"),
         \A j \in 1..Len(block) : data'[offset + j] = block[j],
         \A j \in 1..used : j \notin (offset + 1)..(offset + Len(block)) => data'[j] = data[j]
  PROVE  File!Write(offset, block)
<1> DEFINE last == offset + Len(block)
<1>1. last \in 1..Limit /\ Len(block) \in Nat \ {0} /\ Limit \in Nat
  BY BlockFacts, FileAssumption
<1>2. used' = (IF last > used THEN last ELSE used) /\ used' \in Nat
  BY <1>1 DEF SetUsed
<1>3. 1..used \subseteq 1..used' /\ \A j \in 1..Len(block) : offset + j \in 1..used'
  BY <1>1, <1>2
<1>4. \A j \in 1..Len(block) : [i \in 1..used' |-> data'[i]][offset + j] = block[j]
  BY <1>3
<1>5. \A j \in 1..used : j \notin (offset + 1)..last =>
        [i \in 1..used' |-> data'[i]][j] = [i \in 1..used |-> data[i]][j]
  BY <1>3
<1> QED
  BY <1>2, <1>4, <1>5 DEF File!Write, File!Status, Status

\* A write inside the buffer is a write of the file.
LEMMA WriteInPlaceMaps ==
  ASSUME IInv, NEW offset \in 0..Limit, NEW block \in Blocks,
         offset + Len(block) <= Limit, WriteInPlace(offset, block)
  PROVE  File!Write(offset, block)
<1>1. /\ used \in 0..Limit /\ total \in Nat /\ used <= total /\ DOMAIN data = 1..total
      /\ Limit \in Nat /\ block \in Seq(Bytes)
  BY FileAssumption, BlockFacts DEF IInv, TypeOK, InBounds
<1>2. /\ offset + Len(block) <= total /\ data' = Copied(data, offset, block)
      /\ SetUsed(offset + Len(block)) /\ reply' = Status("ok")
  BY DEF WriteInPlace, Fits
<1>3. /\ \A j \in 1..Len(block) : data'[offset + j] = block[j]
      /\ \A j \in 1..total : j \notin (offset + 1)..(offset + Len(block)) => data'[j] = data[j]
  BY <1>1, <1>2, CopiedFacts
<1>4. 1..used \subseteq 1..total
  BY <1>1
<1> QED
  BY <1>1, <1>2, <1>3, <1>4, WriteMaps

\* A write that makes the buffer grow is a write of the file.
LEMMA WriteGrowingMaps ==
  ASSUME IInv, NEW offset \in 0..Limit, NEW block \in Blocks,
         offset + Len(block) <= Limit, WriteGrowing(offset, block)
  PROVE  File!Write(offset, block)
<1> DEFINE last == offset + Len(block)
<1>1. /\ used \in 0..Limit /\ total \in Nat /\ used <= total
      /\ Limit \in Nat /\ block \in Seq(Bytes) /\ last \in 1..Limit
  BY FileAssumption, BlockFacts DEF IInv, TypeOK, InBounds
<1>2. /\ ~Fits(last) /\ total' = NewTotal(last)
      /\ data' = Copied(Resized(total'), offset, block)
      /\ SetUsed(last) /\ reply' = Status("ok")
  BY DEF WriteGrowing
<1>3. total' \in Nat /\ last <= total' /\ total <= total'
  BY <1>1, <1>2, GrowthFacts
<1>4. DOMAIN Resized(total') = 1..total'
  BY DEF Resized
<1>5. /\ \A j \in 1..Len(block) : data'[offset + j] = block[j]
      /\ \A j \in 1..total' : j \notin (offset + 1)..last => data'[j] = Resized(total')[j]
  BY <1>1, <1>2, <1>3, <1>4, CopiedFacts
<1>6. \A j \in 1..used : j \in 1..total' /\ Resized(total')[j] = data[j]
  BY <1>1, <1>3 DEF Resized
<1>7. \A j \in 1..used : j \notin (offset + 1)..last => data'[j] = data[j]
  BY <1>5, <1>6
<1> QED
  BY <1>1, <1>2, <1>5, <1>7, WriteMaps

\* spmemfileTruncate truncates the file: the bytes it keeps are unchanged.
LEMMA TruncateMaps ==
  ASSUME IInv, NEW n \in 0..Limit, Truncate(n)
  PROVE  File!Truncate(n)
<1>1. Limit \in Nat /\ used \in Nat
  BY FileAssumption DEF IInv, TypeOK
<1>2. used' = (IF n < used THEN n ELSE used) /\ data' = data /\ reply' = Status("ok")
  BY DEF Truncate
<1>3. 1..used' \subseteq 1..used
  BY <1>1, <1>2
<1>4. [j \in 1..used' |-> data'[j]] = [j \in 1..used' |-> [i \in 1..used |-> data[i]][j]]
  BY <1>2, <1>3
<1> QED
  BY <1>2, <1>4 DEF File!Truncate, File!Status, Status

\* spmemfileRead reads the file.
LEMMA ReadMaps ==
  ASSUME IInv, NEW offset \in 0..Limit, NEW len \in 1..Limit, Read(offset, len)
  PROVE  File!Read(offset, len)
<1>1. Limit \in Nat /\ used \in Nat
  BY FileAssumption DEF IInv, TypeOK
<1>2. UNCHANGED <<data, used>>
  BY DEF Read
<1>3. CASE offset + len > used
  BY <1>2, <1>3 DEF Read, Status, File!Read, File!Status
<1>4. CASE ~(offset + len > used)
  <2>1. \A j \in 1..len : offset + j \in 1..used
    BY <1>1, <1>4
  <2>2. [j \in 1..len |-> data[offset + j]]
          = [j \in 1..len |-> [i \in 1..used |-> data[i]][offset + j]]
    BY <2>1
  <2> QED
    BY <1>2, <1>4, <2>2 DEF Read, File!Read
<1> QED
  BY <1>3, <1>4

\* Every step of the buffer is a step of the file or changes nothing of it.
LEMMA StepMaps == IInv /\ [Next]_vars => [File!Next]_(File!vars)
<1> SUFFICES ASSUME IInv, [Next]_vars PROVE [File!Next]_(File!vars)
  OBVIOUS
<1>1. CASE UNCHANGED vars
  BY <1>1 DEF vars, File!vars
<1>2. ASSUME NEW offset \in 0..Limit, NEW block \in Blocks,
             offset + Len(block) <= Limit,
             \/ WriteInPlace(offset, block)
             \/ WriteGrowing(offset, block)
             \/ WriteNoMem(offset, block)
      PROVE  File!Next
  <2>1. CASE WriteInPlace(offset, block)
    BY <1>2, <2>1, WriteInPlaceMaps DEF File!Next
  <2>2. CASE WriteGrowing(offset, block)
    BY <1>2, <2>2, WriteGrowingMaps DEF File!Next
  <2>3. CASE WriteNoMem(offset, block)
    BY <2>3 DEF WriteNoMem, Status, File!Next, File!Refuse, File!Status
  <2> QED
    BY <1>2, <2>1, <2>2, <2>3
<1>3. ASSUME NEW n \in 0..Limit, Truncate(n) PROVE File!Next
  BY <1>3, TruncateMaps DEF File!Next
<1>4. ASSUME NEW offset \in 0..Limit, NEW len \in 1..Limit, Read(offset, len)
      PROVE  File!Next
  BY <1>4, ReadMaps DEF File!Next
<1> QED
  BY <1>1, <1>2, <1>3, <1>4 DEF Next

\* The growing buffer of dbmem is a file: whatever the sequence of writes,
\* truncations and refused writes, a read returns the bytes written last.
THEOREM ImplementsFile == Spec => FileSpec
<1>1. Init => File!Init
  BY DEF Init, Status, File!Init, File!Status
<1> QED
  BY Inductive, StepMaps, <1>1, PTL DEF Spec, FileSpec, File!Spec
=============================================================================
