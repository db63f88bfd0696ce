--------------------------- MODULE ScannerProofs ---------------------------
(***************************************************************************)
(* IInv is an inductive invariant of Scanner, for files, buffers, block    *)
(* and boundary sizes, fingerprints and read errors of any kind, and under *)
(* it every step of the scan is a step of ChunkLog or stutters.  CutInv    *)
(* adds where varScan cuts: as TTTD says, which knows the file only.       *)
(*                                                                         *)
(* The second half is about the fingerprint varScan asks for, with words   *)
(* and polynomials of any size: RabinInv says that it differs from the     *)
(* polynomial of the last bytes by a multiple of poly.  Multiples are      *)
(* those of any ideal that poly is in, so that no quotient is needed; that *)
(* a word without its most significant bit that differs by a multiple is   *)
(* the remainder, and that there is one only, comes after it.              *)
(***************************************************************************)
EXTENDS TTTD, Rabin, DataTheorems

USE DEF Loaded, InBuffer

Values == Byte \union {Stale}

-----------------------------------------------------------------------------
(* Slices and blocks *)

\* Buffer b has, from index i on, the n bytes of the file from position `from' on.
Copies(b, i, from, n) == \A k \in 0 .. n - 1 : b[i + k] = file[from + k + 1]

FileBytes(from, n) == SubSeq(file, from + 1, from + n)

\* A slice of a buffer that copies a range of the file is that range.
LEMMA SliceOfFile ==
  ASSUME file \in Seq(Byte), NEW b, NEW i \in Nat, NEW n \in Nat, NEW from \in Nat,
         from + n <= Len(file), Copies(b, i, from, n)
  PROVE  Slice(b, i, n) = FileBytes(from, n)
<1> DEFINE e(k) == b[i + k - 1]
           s == [k \in 1 .. n |-> e(k)]
           t == SubSeq(file, from + 1, from + n)
<1>1. Len(file) \in Nat /\ \A k \in 1 .. Len(file) : file[k] \in Byte
  BY LenProperties, ElementOfSeq
<1>2. \A k \in 1 .. n : e(k) = file[from + k] /\ file[from + k] \in Byte
  <2> SUFFICES ASSUME NEW k \in 1 .. n PROVE e(k) = file[from + k] /\ file[from + k] \in Byte
    OBVIOUS
  <2>1. b[i + (k - 1)] = file[from + (k - 1) + 1]
    BY k - 1 \in 0 .. n - 1 DEF Copies
  <2>2. i + (k - 1) = i + k - 1 /\ from + (k - 1) + 1 = from + k /\ from + k \in 1 .. Len(file)
    BY <1>1
  <2> QED BY <1>1, <2>1, <2>2
<1>3. s \in Seq(Byte) /\ Len(s) = n /\ \A k \in 1 .. n : s[k] = file[from + k]
  <2>1. \A k \in 1 .. n : e(k) \in Byte
    BY <1>2
  <2>2. s \in Seq(Byte)
    <3> HIDE DEF e
    <3> QED BY <2>1, IsASeq
  <2>3. DOMAIN s = 1 .. n /\ \A k \in 1 .. n : s[k] = file[from + k]
    BY <1>2
  <2>4. Len(s) = n
    <3> HIDE DEF s
    <3> QED BY <2>2, <2>3, LenProperties
  <2> QED BY <2>2, <2>3, <2>4
<1>4. t \in Seq(Byte) /\ Len(t) = n /\ \A k \in 1 .. n : t[k] = file[from + k]
  <2>1. \A k \in from + 1 .. from + n : file[k] \in Byte
    BY <1>1
  <2>2. /\ t \in Seq(Byte)
        /\ Len(t) = IF from + 1 <= from + n THEN from + n - (from + 1) + 1 ELSE 0
        /\ \A k \in 1 .. from + n - (from + 1) + 1 : t[k] = file[from + 1 + k - 1]
    BY <2>1, SubSeqProperties
  <2> HIDE DEF t
  <2> QED BY <2>2
<1>5. s = t
  <2> HIDE DEF s, t
  <2> QED BY <1>3, <1>4, SeqEqual
<1> QED
  BY <1>5 DEF Slice, FileBytes

LEMMA FileByte ==
  ASSUME TypeOK
  PROVE  /\ Len(file) \in Nat
         /\ \A i \in 1 .. Len(file) : file[i] \in Byte
BY FilesAssumption, LenProperties, ElementOfSeq DEF TypeOK

LEMMA FileRange ==
  ASSUME TypeOK, NEW from \in Nat, NEW to \in Nat, to <= Len(file)
  PROVE  /\ SubSeq(file, from + 1, to) \in Seq(Byte)
         /\ Len(SubSeq(file, from + 1, to)) = IF from < to THEN to - from ELSE 0
         /\ \A k \in 1 .. to - from : SubSeq(file, from + 1, to)[k] = file[from + k]
<1>1. \A i \in from + 1 .. to : file[i] \in Byte
  BY FileByte
<1> QED
  BY <1>1, SubSeqProperties

\* The numbers of the scan are natural numbers.
LEMMA Numbers ==
  ASSUME TypeOK
  PROVE  /\ p \in Nat /\ b1_offset \in Nat /\ new_start \in Nat /\ backup_break \in Nat
         /\ nbytes \in Nat /\ nbytes <= READ_BUFFER_SIZE /\ total_bytes \in Nat
         /\ READ_BUFFER_SIZE \in Nat /\ READ_BUFFER_SIZE > 0
         /\ Tmin \in Nat /\ Tmax \in Nat /\ 1 < Tmin /\ Tmin <= Tmax
         /\ Tmax <= READ_BUFFER_SIZE
         /\ avg_size \in Nat /\ avg_size > 0
         /\ fix_boundary_size \in Nat
BY SizesAssumption DEF TypeOK

\* What IInv says of the buffers and of the pending block during varScan.
LEMMA VarScanFacts ==
  ASSUME IInv, is_var, Loaded
  PROVE  /\ TypeOK
         /\ b1_offset # 0 => b1_offset >= READ_BUFFER_SIZE
         /\ total_bytes = b1_offset + nbytes /\ total_bytes <= Len(file)
         /\ nbytes > 0 /\ p <= nbytes /\ eof = (nbytes # READ_BUFFER_SIZE)
         /\ new_start = LogEnd(log)
         /\ new_start <= b1_offset + p /\ b1_offset + p - new_start < Tmax
         /\ pos = b1_offset + p /\ NoBoundaryInside(new_start, pos)
         /\ backup_break # 0 => new_start <= backup_break /\ backup_break < b1_offset + p
         /\ pc = "slide" => new_start = b1_offset + p /\ backup_break = 0 /\ p < nbytes
<1>1. pos = b1_offset + p
  BY DEF pos, offset
<1>2. pc # "done"
  OBVIOUS
<1>3. /\ new_start = LogEnd(log)
      /\ new_start <= pos /\ pos - new_start < Tmax
      /\ NoBoundaryInside(new_start, pos)
      /\ backup_break # 0 => new_start <= backup_break /\ backup_break < pos
      /\ pc = "slide" => new_start = pos /\ backup_break = 0
  BY <1>2 DEF IInv, PendingBlock
<1>4. /\ b1_offset # 0 => b1_offset >= READ_BUFFER_SIZE
      /\ total_bytes = b1_offset + nbytes /\ total_bytes <= Len(file)
      /\ nbytes > 0 /\ p <= nbytes /\ eof = (nbytes # READ_BUFFER_SIZE)
      /\ pc = "slide" => p < nbytes
  BY <1>2 DEF IInv, ReadProgress
<1>5. TypeOK /\ p \in Nat /\ b1_offset \in Nat /\ new_start \in Nat
  BY Numbers DEF IInv
<1> QED
  BY <1>1, <1>3, <1>4, <1>5

LEMMA FileBytesProperties ==
  ASSUME TypeOK, NEW from \in Nat, NEW n \in Nat, from + n <= Len(file)
  PROVE  FileBytes(from, n) \in Seq(Byte) /\ Len(FileBytes(from, n)) = n
<1> DEFINE to == from + n
<1>1. to \in Nat /\ to <= Len(file) /\ to - from = n /\ (from < to \/ n = 0)
  BY FileByte
<1>2. /\ SubSeq(file, from + 1, to) \in Seq(Byte)
      /\ Len(SubSeq(file, from + 1, to)) = IF from < to THEN to - from ELSE 0
  <2> HIDE DEF to
  <2> QED BY <1>1, FileRange
<1> QED
  BY <1>1, <1>2 DEF FileBytes

\* What the three cases of addBreakpoint hash is the block in the file.
LEMMA BlockBytesInFile ==
  ASSUME IInv, is_var, Loaded, NEW to \in Nat,
         new_start <= to, to < b1_offset + nbytes
  PROVE  BlockBytes(to) = SubSeq(file, new_start + 1, to + 1)
<1>1. /\ TypeOK
      /\ b1_offset # 0 => b1_offset >= READ_BUFFER_SIZE
      /\ total_bytes = b1_offset + nbytes /\ total_bytes <= Len(file)
      /\ b1_offset + p - new_start < Tmax
  BY VarScanFacts
<1>2. /\ new_start \in Nat /\ b1_offset \in Nat /\ nbytes \in Nat
      /\ p \in Nat /\ Tmax \in Nat /\ READ_BUFFER_SIZE \in Nat /\ Tmax <= READ_BUFFER_SIZE
  BY <1>1, Numbers
<1>3. file \in Seq(Byte) /\ Len(file) \in Nat /\ to + 1 <= Len(file)
  BY <1>1, <1>2, FileByte, FilesAssumption DEF TypeOK
<1>4. \A i \in 0 .. nbytes - 1 : p1[i] = file[b1_offset + i + 1]
  BY DEF IInv, BuffersHold, Holds
<1>5. b1_offset # 0 =>
        \A i \in 0 .. READ_BUFFER_SIZE - 1 :
          p2[i] = file[b1_offset - READ_BUFFER_SIZE + i + 1]
  BY DEF IInv, BuffersHold, Holds
<1>6. CASE new_start >= b1_offset
  <2> DEFINE i == new_start - b1_offset
             n == to - new_start + 1
  <2>1. i \in Nat /\ n \in Nat /\ new_start + n <= Len(file) /\ new_start + n = to + 1
    BY <1>2, <1>3, <1>6
  <2>2. Copies(p1, i, new_start, n)
    <3> SUFFICES ASSUME NEW k \in 0 .. n - 1 PROVE p1[i + k] = file[new_start + k + 1]
      BY DEF Copies
    <3>1. i + k \in 0 .. nbytes - 1
      BY <1>2, <1>6
    <3>2. p1[i + k] = file[b1_offset + (i + k) + 1]
      BY <1>4, <3>1
    <3>3. b1_offset + (i + k) + 1 = new_start + k + 1
      BY <1>2
    <3> QED BY <3>2, <3>3
  <2>3. Slice(p1, i, n) = FileBytes(new_start, n)
    BY <1>2, <1>3, <2>1, <2>2, SliceOfFile
  <2> QED
    BY <1>2, <1>6, <2>1, <2>3 DEF BlockBytes, FileBytes
<1>7. CASE new_start < b1_offset /\ to < b1_offset
  <2> DEFINE i == new_start + READ_BUFFER_SIZE - b1_offset
             n == to - new_start + 1
  <2>1. i \in Nat /\ n \in Nat /\ new_start + n <= Len(file) /\ new_start + n = to + 1
    BY <1>1, <1>2, <1>3, <1>7
  <2>2. Copies(p2, i, new_start, n)
    <3> SUFFICES ASSUME NEW k \in 0 .. n - 1 PROVE p2[i + k] = file[new_start + k + 1]
      BY DEF Copies
    <3>1. i + k \in 0 .. READ_BUFFER_SIZE - 1 /\ b1_offset # 0
      BY <1>2, <1>7, <2>1
    <3>2. p2[i + k] = file[b1_offset - READ_BUFFER_SIZE + (i + k) + 1]
      BY <1>5, <3>1
    <3>3. b1_offset - READ_BUFFER_SIZE + (i + k) + 1 = new_start + k + 1
      BY <1>2
    <3> QED BY <3>2, <3>3
  <2>3. Slice(p2, i, n) = FileBytes(new_start, n)
    BY <1>2, <1>3, <2>1, <2>2, SliceOfFile
  <2> QED
    BY <1>2, <1>7, <2>1, <2>3 DEF BlockBytes, FileBytes
<1>8. CASE new_start < b1_offset /\ to >= b1_offset
  <2> DEFINE i == new_start + READ_BUFFER_SIZE - b1_offset
             n == b1_offset - new_start
             m == to - b1_offset + 1
  <2>1. /\ i \in Nat /\ n \in Nat /\ m \in Nat
        /\ new_start + n = b1_offset /\ b1_offset <= Len(file)
        /\ b1_offset + m = to + 1
    BY <1>1, <1>2, <1>3, <1>8
  <2>2. Copies(p2, i, new_start, n)
    <3> SUFFICES ASSUME NEW k \in 0 .. n - 1 PROVE p2[i + k] = file[new_start + k + 1]
      BY DEF Copies
    <3>1. i + k \in 0 .. READ_BUFFER_SIZE - 1 /\ b1_offset # 0
      BY <1>2, <1>8, <2>1
    <3>2. p2[i + k] = file[b1_offset - READ_BUFFER_SIZE + (i + k) + 1]
      BY <1>5, <3>1
    <3>3. b1_offset - READ_BUFFER_SIZE + (i + k) + 1 = new_start + k + 1
      BY <1>2
    <3> QED BY <3>2, <3>3
  <2>3. Slice(p2, i, n) = FileBytes(new_start, n)
    BY <1>2, <1>3, <2>1, <2>2, SliceOfFile
  <2>4. Copies(p1, 0, b1_offset, m)
    BY <1>2, <1>4 DEF Copies
  <2>5. Slice(p1, 0, m) = FileBytes(b1_offset, m)
    BY <1>2, <1>3, <2>1, <2>4, SliceOfFile
  <2>6. SubSeq(file, new_start + 1, b1_offset) \o SubSeq(file, b1_offset + 1, to + 1)
          = SubSeq(file, new_start + 1, to + 1)
    <3>1. /\ new_start + 1 \in 1 .. Len(file) + 1
          /\ b1_offset \in (new_start + 1) - 1 .. Len(file)
          /\ to + 1 \in b1_offset .. Len(file)
      BY <1>2, <1>3, <1>8, <2>1
    <3> QED BY <1>3, <3>1, ConcatAdjacentSubSeq
  <2>7. FileBytes(new_start, n) = SubSeq(file, new_start + 1, b1_offset)
    BY <2>1 DEF FileBytes
  <2>8. FileBytes(b1_offset, m) = SubSeq(file, b1_offset + 1, to + 1)
    BY <2>1 DEF FileBytes
  <2>9. BlockBytes(to) = Slice(p2, i, n) \o Slice(p1, 0, m)
    BY <1>2, <1>8 DEF BlockBytes
  <2> QED
    BY <2>3, <2>5, <2>6, <2>7, <2>8, <2>9
<1> QED
  BY <1>2, <1>6, <1>7, <1>8

-----------------------------------------------------------------------------
(* Writing a block is a step of ChunkLog *)

LEMMA StoredIsInDataMap ==
  ASSUME DataMapMatches, NEW c
  PROVE  CL!Stored(data, c) <=> c \in datamap
BY DEF DataMapMatches, CL!Stored

LEMMA LogEndOfAppend ==
  ASSUME NEW l \in Seq(Blocks), NEW b \in Blocks
  PROVE  /\ Append(l, b) \in Seq(Blocks)
         /\ LogEnd(Append(l, b)) = b.offset + b.size
<1>1. /\ Append(l, b) \in Seq(Blocks) /\ Append(l, b) # <<>>
      /\ Len(Append(l, b)) = Len(l) + 1 /\ Append(l, b)[Len(l) + 1] = b
  BY AppendProperties
<1> QED
  BY <1>1 DEF LogEnd

\* The data file after a block: a new entry, or a duplicate is counted.
LEMMA SaveDataStores ==
  ASSUME OutputTypeOK, DataMapMatches, NEW c \in Seq(Byte), SaveData(c)
  PROVE  /\ data' = IF has_data /\ ~CL!Stored(data, c)
                      THEN Append(data, [cksum |-> c, size |-> Len(c)]) ELSE data
         /\ data' \in Seq([cksum : Seq(Values), size : Nat])
         /\ datamap' \subseteq Seq(Values)
         /\ tot_dup_blocks' \in Nat
         /\ DataMapMatches'
<1> DEFINE Entries == [cksum : Seq(Values), size : Nat]
           new == [cksum |-> c, size |-> Len(c)]
<1>1. /\ data \in Seq(Entries) /\ datamap \subseteq Seq(Values) /\ tot_dup_blocks \in Nat
  BY DEF OutputTypeOK, Values
<1>2. c \in Seq(Values) /\ Len(c) \in Nat
  BY SeqMonotonic, LenProperties DEF Values
<1>3. new \in Entries
  BY <1>2
<1>4. CASE has_data /\ c \notin datamap
  <2>1. /\ data' = Append(data, new) /\ datamap' = datamap \union {c}
        /\ tot_dup_blocks' = tot_dup_blocks
    BY <1>4 DEF SaveData
  <2>2. /\ Append(data, new) \in Seq(Entries)
        /\ Len(Append(data, new)) = Len(data) + 1
        /\ \A i \in 1 .. Len(data) : Append(data, new)[i] = data[i]
        /\ Append(data, new)[Len(data) + 1] = new
    <3> HIDE DEF Entries, new
    <3> QED BY <1>1, <1>3, AppendProperties
  <2>3. DataMapMatches'
    <3>1. Len(data) \in Nat
      BY <1>1, LenProperties
    <3>2. {data'[i].cksum : i \in 1 .. Len(data')}
            = {data[i].cksum : i \in 1 .. Len(data)} \union {new.cksum}
      <4> HIDE DEF new
      <4>1. 1 .. Len(data') = 1 .. Len(data) \union {Len(data) + 1}
        BY <2>1, <2>2, <3>1
      <4> QED BY <2>1, <2>2, <3>1, <4>1
    <3> QED BY <2>1, <3>2 DEF DataMapMatches
  <2> QED BY <1>1, <1>2, <1>4, <2>1, <2>2, <2>3, StoredIsInDataMap
<1>5. CASE ~(has_data /\ c \notin datamap)
  <2>1. /\ data' = data /\ datamap' = datamap
        /\ tot_dup_blocks' = tot_dup_blocks \/ tot_dup_blocks' = tot_dup_blocks + 1
    BY <1>5 DEF SaveData
  <2>2. DataMapMatches'
    BY <2>1 DEF DataMapMatches
  <2> QED BY <1>1, <1>5, <2>1, <2>2, StoredIsInDataMap
<1> QED
  BY <1>4, <1>5

LEMMA ModeFields ==
  /\ ModeOf(is_var).max_block = IF is_var THEN Tmax ELSE avg_size
  /\ ModeOf(is_var).boundary = IF is_var THEN fix_boundary_size ELSE 0
  /\ ModeOf(is_var).keep_data <=> has_data /\ is_var
BY DEF ModeOf

\* A block of n bytes from the end of the log on is a step of ChunkLog.
LEMMA LogsABlock ==
  ASSUME TypeOK, NEW n \in Nat, n > 0,
         n <= IF is_var THEN Tmax ELSE avg_size,
         LogEnd(log) \in Nat, LogEnd(log) + n <= Len(file),
         NoBoundaryInside(LogEnd(log), LogEnd(log) + n),
         AddBlock(LogEnd(log), FileBytes(LogEnd(log), n)),
         data' = IF has_data /\ is_var /\ ~CL!Stored(data, FileBytes(LogEnd(log), n))
                   THEN Append(data, [cksum |-> FileBytes(LogEnd(log), n), size |-> n])
                   ELSE data,
         file' = file, is_var' = is_var
  PROVE  /\ CL!Next
         /\ LogEnd(log') = LogEnd(log) + n
         /\ log' \in Seq(Blocks)
<1> DEFINE from == LogEnd(log)
           bytes == FileBytes(from, n)
           block == [offset |-> from, size |-> n, cksum |-> bytes]
<1>1. bytes \in Seq(Byte) /\ Len(bytes) = n
  BY FileBytesProperties
<1>2. log' = Append(log, block)
  BY <1>1 DEF AddBlock
<1>3. CL!LogEnd(log) = from
  BY DEF CL!LogEnd, LogEnd
<1>4. CL!LogBlock(n)
  <2>1. from + n <= Len(file)
    OBVIOUS
  <2>2. \A x \in from + 1 .. from + n - 1 : ~CL!IsBoundary(x)
    BY DEF NoBoundaryInside
  <2>3. bytes = SubSeq(file, from + 1, from + n)
    BY DEF FileBytes
  <2>4. data' = IF (has_data /\ is_var) /\ ~CL!Stored(data, bytes)
                  THEN Append(data, [cksum |-> bytes, size |-> n]) ELSE data
    OBVIOUS
  <2> HIDE DEF from, bytes
  <2> QED BY <1>2, <1>3, <2>1, <2>2, <2>3, <2>4, ModeFields, file' = file, is_var' = is_var
       DEF CL!LogBlock
<1>5. CL!Next
  <2>1. n \in 1 .. (IF is_var THEN Tmax ELSE avg_size)
    BY SizesAssumption
  <2> QED BY <1>4, <2>1, ModeFields DEF CL!Next
<1>6. block \in Blocks
  <2>1. bytes \in Seq(Byte \union {Stale})
    BY <1>1, SeqMonotonic
  <2> HIDE DEF bytes
  <2> QED BY <2>1 DEF Blocks
<1>7. log \in Seq(Blocks)
  BY DEF TypeOK, OutputTypeOK
<1>8. Append(log, block) \in Seq(Blocks) /\ LogEnd(Append(log, block)) = from + n
  <2>1. block.offset = from /\ block.size = n
    OBVIOUS
  <2> HIDE DEF block
  <2> QED BY <1>6, <1>7, <2>1, LogEndOfAppend
<1> QED
  BY <1>2, <1>5, <1>8

\* addBreakpoint(to) logs the block from new_start to `to'.
LEMMA AddBreakpointLogs ==
  ASSUME IInv, is_var, Loaded, NEW to \in Nat,
         new_start <= to, to < b1_offset + nbytes, to - new_start < Tmax,
         NoBoundaryInside(new_start, to + 1),
         AddBreakpoint(to), file' = file, is_var' = is_var
  PROVE  /\ CL!Next
         /\ LogEnd(log') = to + 1
         /\ OutputTypeOK'
         /\ DataMapMatches'
<1> DEFINE n == to - new_start + 1
           bytes == FileBytes(new_start, n)
<1>1. /\ TypeOK /\ OutputTypeOK /\ DataMapMatches /\ new_start = LogEnd(log)
      /\ total_bytes = b1_offset + nbytes /\ total_bytes <= Len(file)
  BY VarScanFacts DEF IInv, TypeOK
<1>2. /\ new_start \in Nat /\ b1_offset \in Nat /\ nbytes \in Nat /\ Tmax \in Nat
      /\ Len(file) \in Nat
  BY <1>1, Numbers, FileByte
<1>3. n \in Nat /\ n > 0 /\ n <= Tmax /\ new_start + n = to + 1 /\ new_start + n <= Len(file)
  BY <1>1, <1>2
<1>4. BlockBytes(to) = bytes
  BY <1>3, BlockBytesInFile DEF FileBytes
<1>5. bytes \in Seq(Byte) /\ Len(bytes) = n
  BY <1>1, <1>2, <1>3, FileBytesProperties
<1>6. /\ tot_blocks' = tot_blocks + 1
      /\ SaveData(bytes)
      /\ AddBlock(new_start, bytes)
  BY <1>2, <1>3, <1>4 DEF AddBreakpoint
<1>7. /\ data' = IF has_data /\ ~CL!Stored(data, bytes)
                   THEN Append(data, [cksum |-> bytes, size |-> n]) ELSE data
      /\ data' \in Seq([cksum : Seq(Values), size : Nat])
      /\ datamap' \subseteq Seq(Values)
      /\ tot_dup_blocks' \in Nat
      /\ DataMapMatches'
  <2> HIDE DEF bytes, n
  <2> QED BY <1>1, <1>5, <1>6, SaveDataStores
<1>8. /\ CL!Next /\ LogEnd(log') = new_start + n /\ log' \in Seq(Blocks)
  <2>1. NoBoundaryInside(new_start, new_start + n)
    BY <1>3
  <2> HIDE DEF bytes, n
  <2> QED BY <1>1, <1>2, <1>3, <1>6, <1>7, <2>1, LogsABlock DEF bytes
<1>9. OutputTypeOK'
  <2>1. tot_blocks \in Nat
    BY <1>1 DEF OutputTypeOK
  <2> QED BY <1>6, <1>7, <1>8, <2>1 DEF OutputTypeOK, Values, Blocks
<1> QED
  BY <1>3, <1>7, <1>8, <1>9

-----------------------------------------------------------------------------
(* The steps of varScan *)

\* What a step inside a buffer has to show for IInv to hold after it.
LEMMA VarScanStep ==
  ASSUME IInv, is_var, Loaded, UNCHANGED <<readVars, b1_offset>>,
         pc' \in {"scan", "slide"}, p' \in Nat, p' <= nbytes, pc' = "slide" => p' < nbytes,
         new_start' \in Nat, backup_break' \in Nat, window' \in Windows,
         OutputTypeOK', DataMapMatches', PendingBlock'
  PROVE  IInv'
<1>1. TypeOK'
  BY DEF IInv, TypeOK, readVars
<1>2. ReadProgress'
  <2>1. pc # "done"
    OBVIOUS
  <2> QED BY <2>1 DEF IInv, ReadProgress, readVars
<1>3. BuffersHold'
  BY DEF IInv, BuffersHold, Holds, readVars
<1>4. FixedProgress'
  BY DEF FixedProgress, readVars
<1>5. OnlyATailIsLost'
  BY DEF OnlyATailIsLost
<1> QED
  BY <1>1, <1>2, <1>3, <1>4, <1>5 DEF IInv

\* The byte at p, and what it makes of the window.
LEMMA SlideType ==
  ASSUME IInv, is_var, Loaded, p < nbytes
  PROVE  Slide(window, p1[p]) \in Windows
<1>1. /\ TypeOK /\ total_bytes = b1_offset + nbytes /\ total_bytes <= Len(file)
  BY VarScanFacts
<1>2. p \in Nat /\ b1_offset \in Nat /\ nbytes \in Nat /\ Len(file) \in Nat
  BY <1>1, Numbers, FileByte
<1>3. p1[p] \in Byte
  <2>1. p1[p] = file[b1_offset + p + 1]
    BY <1>2 DEF IInv, BuffersHold, Holds
  <2>2. b1_offset + p + 1 \in 1 .. Len(file)
    BY <1>1, <1>2
  <2> QED BY <1>1, <2>1, <2>2, FileByte
<1>4. window \in [1 .. RABIN_WINDOW_SIZE -> Byte] /\ RABIN_WINDOW_SIZE \in Nat
  BY <1>1, FingerprintAssumption DEF TypeOK, Windows
<1> QED
  BY <1>3, <1>4 DEF Slide, Windows

LEMMA BoundaryIsBoundary ==
  ASSUME is_var
  PROVE  AtBoundary <=> CL!IsBoundary(offset)
BY ModeFields DEF AtBoundary, CL!IsBoundary

LEMMA EnforceBoundaryStep ==
  ASSUME IInv, EnforceBoundary
  PROVE  IInv' /\ [CL!Next]_CL!vars
<1>1. /\ is_var /\ Loaded /\ pc = "scan" /\ p < nbytes
      /\ UNCHANGED <<readVars, b1_offset>> /\ p' = p /\ pc' = "slide"
      /\ new_start' = offset /\ backup_break' = 0
  BY DEF EnforceBoundary
<1>2. /\ TypeOK /\ new_start = LogEnd(log) /\ new_start <= b1_offset + p
      /\ b1_offset + p - new_start < Tmax
      /\ pos = b1_offset + p /\ NoBoundaryInside(new_start, pos)
      /\ OutputTypeOK /\ DataMapMatches
  BY <1>1, VarScanFacts DEF IInv, TypeOK
<1>3. /\ new_start \in Nat /\ b1_offset \in Nat /\ p \in Nat /\ nbytes \in Nat
      /\ Tmax \in Nat /\ 0 < Tmax
  BY <1>2, Numbers
<1>4. window' \in Windows
  <2>1. window' = EmptyWindow
    BY DEF EnforceBoundary, RestartRabin
  <2> QED BY <2>1, FilesAssumption DEF EmptyWindow, Windows
<1>5. offset = b1_offset + p /\ offset \in Nat
  BY <1>3 DEF offset
<1>6. pos' = offset
  BY <1>1, <1>5 DEF pos, offset
<1>7. ASSUME LogEnd(log') = offset, OutputTypeOK', DataMapMatches'
      PROVE  IInv'
  <2>1. PendingBlock'
    <3>1. NoBoundaryInside(new_start, pos)'
      <4>1. NoBoundaryInside(offset, offset)
        BY <1>5 DEF NoBoundaryInside
      <4> QED BY <1>1, <1>6, <4>1 DEF NoBoundaryInside, CL!IsBoundary, readVars
    <3> QED BY <1>1, <1>3, <1>5, <1>6, <1>7, <3>1 DEF PendingBlock
  <2> QED BY <1>1, <1>3, <1>4, <1>5, <1>7, <2>1, VarScanStep
<1>8. CASE new_start < offset
  <2>1. AddBreakpoint(offset - 1)
    BY <1>8 DEF EnforceBoundary
  <2>2. /\ offset - 1 \in Nat /\ new_start <= offset - 1
        /\ offset - 1 < b1_offset + nbytes /\ (offset - 1) - new_start < Tmax
        /\ NoBoundaryInside(new_start, (offset - 1) + 1)
    BY <1>1, <1>2, <1>3, <1>5, <1>8
  <2>3. file' = file /\ is_var' = is_var
    BY <1>1 DEF readVars
  <2>4. CL!Next /\ LogEnd(log') = (offset - 1) + 1 /\ OutputTypeOK' /\ DataMapMatches'
    BY <1>1, <2>1, <2>2, <2>3, AddBreakpointLogs
  <2>5. IInv'
    BY <1>5, <1>7, <2>4
  <2> QED BY <2>4, <2>5
<1>9. CASE new_start = offset
  <2>1. UNCHANGED outVars
    BY <1>3, <1>5, <1>9 DEF EnforceBoundary
  <2>2. LogEnd(log') = offset /\ OutputTypeOK' /\ DataMapMatches'
    BY <1>2, <1>9, <2>1 DEF outVars, OutputTypeOK, DataMapMatches
  <2>3. UNCHANGED CL!vars
    BY <1>1, <2>1 DEF CL!vars, outVars, readVars
  <2> QED BY <1>7, <2>2, <2>3
<1> QED
  BY <1>2, <1>3, <1>5, <1>8, <1>9

LEMMA NoBoundaryMonotone ==
  ASSUME NEW from \in Nat, NEW to \in Nat, NEW a \in Nat, NEW b \in Nat,
         from <= a, b <= to, NoBoundaryInside(from, to)
  PROVE  NoBoundaryInside(a, b)
BY DEF NoBoundaryInside

\* Where the scan is before and after it takes in the byte at p.
LEMMA ByteFacts ==
  ASSUME IInv, AtByte, NextByte
  PROVE  /\ is_var /\ Loaded /\ p < nbytes
         /\ UNCHANGED <<readVars, b1_offset>>
         /\ p' = p + 1 /\ pc' = "scan" /\ window' \in Windows
         /\ offset \in Nat /\ new_start \in Nat /\ backup_break \in Nat /\ Tmax \in Nat
         /\ p \in Nat /\ nbytes \in Nat /\ b1_offset \in Nat
         /\ offset < b1_offset + nbytes /\ pos' = offset + 1
         /\ new_start <= offset /\ offset - new_start < Tmax
         /\ NoBoundaryInside(new_start, offset + 1)
         /\ backup_break # 0 => new_start <= backup_break /\ backup_break < offset
         /\ new_start = LogEnd(log)
         /\ OutputTypeOK /\ DataMapMatches
<1>1. /\ is_var /\ Loaded /\ p < nbytes /\ UNCHANGED <<readVars, b1_offset>>
      /\ p' = p + 1 /\ pc' = "scan" /\ window' = Slide(window, p1[p])
      /\ pc = "slide" \/ ~AtBoundary
  BY DEF AtByte, NextByte
<1>2. /\ TypeOK /\ new_start = LogEnd(log) /\ new_start <= b1_offset + p
      /\ b1_offset + p - new_start < Tmax
      /\ pos = b1_offset + p /\ NoBoundaryInside(new_start, pos)
      /\ backup_break # 0 => new_start <= backup_break /\ backup_break < b1_offset + p
      /\ pc = "slide" => new_start = b1_offset + p
  BY <1>1, VarScanFacts
<1>3. /\ new_start \in Nat /\ b1_offset \in Nat /\ p \in Nat /\ nbytes \in Nat
      /\ Tmax \in Nat /\ backup_break \in Nat
  BY <1>2, Numbers
<1>4. offset = b1_offset + p /\ offset \in Nat /\ pos = offset
  BY <1>2, <1>3 DEF offset
<1>5. pos' = offset + 1
  <2>1. pos' = b1_offset + (p + 1)
    BY <1>1 DEF pos, offset
  <2> QED BY <1>3, <1>4, <2>1
<1>6. NoBoundaryInside(new_start, offset + 1)
  <2>1. CASE pc = "slide"
    BY <1>2, <1>3, <1>4, <2>1 DEF NoBoundaryInside
  <2>2. CASE ~AtBoundary
    <3>1. ~CL!IsBoundary(offset)
      BY <1>1, <2>2, BoundaryIsBoundary
    <3>2. NoBoundaryInside(new_start, offset)
      BY <1>2, <1>4
    <3> QED BY <1>3, <1>4, <3>1, <3>2 DEF NoBoundaryInside
  <2> QED BY <1>1, <2>1, <2>2
<1>7. window' \in Windows
  BY <1>1, SlideType
<1> QED
  BY <1>1, <1>2, <1>3, <1>4, <1>5, <1>6, <1>7 DEF IInv, TypeOK

\* A byte after which no break is made.
LEMMA QuietStep ==
  ASSUME IInv, AtByte, NextByte, UNCHANGED <<outVars, new_start>>, length < Tmax,
         backup_break' = backup_break \/ backup_break' = offset
  PROVE  IInv' /\ [CL!Next]_CL!vars
<1>1. /\ is_var /\ Loaded /\ p < nbytes
      /\ UNCHANGED <<readVars, b1_offset>>
      /\ p' = p + 1 /\ pc' = "scan" /\ window' \in Windows
      /\ offset \in Nat /\ new_start \in Nat /\ backup_break \in Nat /\ Tmax \in Nat
      /\ p \in Nat /\ nbytes \in Nat /\ b1_offset \in Nat
      /\ offset < b1_offset + nbytes /\ pos' = offset + 1
      /\ new_start <= offset /\ offset - new_start < Tmax
      /\ NoBoundaryInside(new_start, offset + 1)
      /\ backup_break # 0 => new_start <= backup_break /\ backup_break < offset
      /\ new_start = LogEnd(log)
      /\ OutputTypeOK /\ DataMapMatches
  BY ByteFacts
<1>2. OutputTypeOK' /\ DataMapMatches' /\ LogEnd(log') = new_start
  BY <1>1 DEF outVars, OutputTypeOK, DataMapMatches
<1>3. PendingBlock'
  <2>1. NoBoundaryInside(new_start, pos)'
    BY <1>1 DEF NoBoundaryInside, CL!IsBoundary, readVars
  <2>2. new_start' <= pos' /\ pos' - new_start' < Tmax
    BY <1>1 DEF length
  <2>3. backup_break' # 0 => new_start' <= backup_break' /\ backup_break' < pos'
    BY <1>1
  <2> QED BY <1>1, <1>2, <2>1, <2>2, <2>3 DEF PendingBlock
<1>4. p' \in Nat /\ p' <= nbytes /\ new_start' \in Nat /\ backup_break' \in Nat
  BY <1>1
<1>5. IInv'
  BY <1>1, <1>2, <1>3, <1>4, VarScanStep
<1>6. UNCHANGED CL!vars
  BY <1>1 DEF CL!vars, outVars, readVars
<1> QED
  BY <1>5, <1>6

\* A byte at which the block up to byte b is logged.
LEMMA BreakStep ==
  ASSUME IInv, AtByte, NextByte, NEW b \in Nat, new_start <= b, b <= offset, BreakAfter(b)
  PROVE  IInv' /\ [CL!Next]_CL!vars
<1>1. /\ is_var /\ Loaded /\ p < nbytes
      /\ UNCHANGED <<readVars, b1_offset>>
      /\ p' = p + 1 /\ pc' = "scan" /\ window' \in Windows
      /\ offset \in Nat /\ new_start \in Nat /\ backup_break \in Nat /\ Tmax \in Nat
      /\ p \in Nat /\ nbytes \in Nat /\ b1_offset \in Nat
      /\ offset < b1_offset + nbytes /\ pos' = offset + 1
      /\ new_start <= offset /\ offset - new_start < Tmax
      /\ NoBoundaryInside(new_start, offset + 1)
  BY ByteFacts
<1>2. AddBreakpoint(b) /\ new_start' = b + 1 /\ backup_break' = 0
  BY DEF BreakAfter
<1>3. NoBoundaryInside(new_start, b + 1) /\ NoBoundaryInside(b + 1, offset + 1)
  <2>1. b + 1 \in Nat /\ offset + 1 \in Nat /\ b + 1 <= offset + 1 /\ new_start <= b + 1
    BY <1>1
  <2> QED BY <1>1, <2>1, NoBoundaryMonotone
<1>4. CL!Next /\ LogEnd(log') = b + 1 /\ OutputTypeOK' /\ DataMapMatches'
  <2>1. b < b1_offset + nbytes /\ b - new_start < Tmax /\ file' = file /\ is_var' = is_var
    BY <1>1 DEF readVars
  <2> QED BY <1>1, <1>2, <1>3, <2>1, AddBreakpointLogs
<1>5. PendingBlock'
  <2>1. NoBoundaryInside(new_start, pos)'
    BY <1>1, <1>2, <1>3 DEF NoBoundaryInside, CL!IsBoundary, readVars
  <2>2. new_start' <= pos' /\ pos' - new_start' < Tmax
    BY <1>1, <1>2
  <2> QED BY <1>1, <1>2, <1>4, <2>1, <2>2 DEF PendingBlock
<1>6. p' \in Nat /\ p' <= nbytes /\ new_start' \in Nat /\ backup_break' \in Nat
  BY <1>1, <1>2
<1>7. IInv'
  BY <1>1, <1>4, <1>5, <1>6, VarScanStep
<1> QED
  BY <1>4, <1>7

LEMMA BelowMinStep ==
  ASSUME IInv, BelowMin
  PROVE  IInv' /\ [CL!Next]_CL!vars
<1>1. /\ AtByte /\ NextByte /\ length < Tmin /\ UNCHANGED <<outVars, new_start, backup_break>>
  BY DEF BelowMin
<1>2. length < Tmax
  <2>1. offset \in Nat /\ new_start \in Nat
    BY <1>1, ByteFacts
  <2> QED BY <1>1, <2>1, SizesAssumption DEF length
<1> QED
  BY <1>1, <1>2, QuietStep

LEMMA NoBreakStep ==
  ASSUME IInv, NoBreak
  PROVE  IInv' /\ [CL!Next]_CL!vars
<1>1. /\ AtByte /\ NextByte /\ length < Tmax /\ UNCHANGED <<outVars, new_start>>
      /\ backup_break' = backup
  BY DEF NoBreak
<1>2. backup_break' = backup_break \/ backup_break' = offset
  BY <1>1 DEF backup
<1> QED
  BY <1>1, <1>2, QuietStep

LEMMA MainBreakStep ==
  ASSUME IInv, MainBreak
  PROVE  IInv' /\ [CL!Next]_CL!vars
<1>1. AtByte /\ NextByte /\ BreakAfter(offset)
  BY DEF MainBreak
<1>2. offset \in Nat /\ new_start <= offset /\ offset <= offset
  BY <1>1, ByteFacts
<1> QED
  BY <1>1, <1>2, BreakStep

LEMMA BackupBreakStep ==
  ASSUME IInv, BackupBreak
  PROVE  IInv' /\ [CL!Next]_CL!vars
<1>1. AtByte /\ NextByte /\ backup # 0 /\ BreakAfter(backup)
  BY DEF BackupBreak, AtMax
<1>2. /\ offset \in Nat /\ new_start \in Nat /\ backup_break \in Nat
      /\ new_start <= offset
      /\ backup_break # 0 => new_start <= backup_break /\ backup_break < offset
  BY <1>1, ByteFacts
<1>3. backup \in Nat /\ new_start <= backup /\ backup <= offset
  <2>1. backup = offset \/ backup = backup_break
    BY DEF backup
  <2> QED BY <1>1, <1>2, <2>1
<1> QED
  BY <1>1, <1>3, BreakStep

LEMMA HardBreakStep ==
  ASSUME IInv, HardBreak
  PROVE  IInv' /\ [CL!Next]_CL!vars
<1>1. AtByte /\ NextByte /\ BreakAfter(offset)
  BY DEF HardBreak, AtMax
<1>2. offset \in Nat /\ new_start <= offset /\ offset <= offset
  BY <1>1, ByteFacts
<1> QED
  BY <1>1, <1>2, BreakStep

-----------------------------------------------------------------------------
(* The steps of the read loop *)

\* The buffer swap and the read: p1 now copies the file from b1_offset on.
LEMMA ReadFacts ==
  ASSUME IInv, pc = "load", NEW n \in ReadResults,
         p1' = [i \in InBuffer |-> IF i < n THEN file[total_bytes + i + 1] ELSE p2[i]]
  PROVE  /\ TypeOK /\ total_bytes = b1_offset /\ ~eof
         /\ b1_offset \in Nat /\ READ_BUFFER_SIZE \in Nat /\ Len(file) \in Nat
         /\ n \in Nat /\ n <= READ_BUFFER_SIZE /\ total_bytes + n <= Len(file)
         /\ p1' \in [InBuffer -> Values]
         /\ \A i \in 0 .. n - 1 : p1'[i] = file[b1_offset + i + 1]
         /\ ctx \o Slice(p1', 0, n) = SubSeq(file, 1, total_bytes + n)
<1>1. /\ TypeOK /\ total_bytes = b1_offset /\ ~eof /\ total_bytes <= Len(file)
      /\ ctx = SubSeq(file, 1, total_bytes)
  BY DEF IInv, ReadProgress
<1>2. total_bytes \in Nat /\ READ_BUFFER_SIZE \in Nat /\ Len(file) \in Nat
  BY <1>1, Numbers, FileByte
<1>3. n \in Nat /\ n <= READ_BUFFER_SIZE /\ total_bytes + n <= Len(file)
  <2>1. n \in 0 .. READ_BUFFER_SIZE /\ n <= Len(file) - total_bytes
    BY <1>1, <1>2 DEF ReadResults
  <2> QED BY <1>2, <2>1
<1>4. \A i \in 0 .. n - 1 : p1'[i] = file[total_bytes + i + 1]
  BY <1>2, <1>3
<1>5. p1' \in [InBuffer -> Values]
  <2>1. \A i \in InBuffer : p2[i] \in Values
    BY <1>1 DEF TypeOK, Values
  <2>2. \A i \in InBuffer : i < n => file[total_bytes + i + 1] \in Values
    <3> SUFFICES ASSUME NEW i \in InBuffer, i < n PROVE file[total_bytes + i + 1] \in Values
      OBVIOUS
    <3>1. total_bytes + i + 1 \in 1 .. Len(file)
      BY <1>2, <1>3
    <3> QED BY <1>1, <3>1, FileByte DEF Values
  <2> QED BY <2>1, <2>2
<1>6. ctx \o Slice(p1', 0, n) = SubSeq(file, 1, total_bytes + n)
  <2>1. file \in Seq(Byte)
    BY <1>1, FilesAssumption DEF TypeOK
  <2>2. Copies(p1', 0, total_bytes, n)
    BY <1>2, <1>3, <1>4 DEF Copies
  <2>3. Slice(p1', 0, n) = FileBytes(total_bytes, n)
    BY <1>2, <1>3, <2>1, <2>2, SliceOfFile
  <2>4. SubSeq(file, 1, total_bytes) \o SubSeq(file, total_bytes + 1, total_bytes + n)
          = SubSeq(file, 1, total_bytes + n)
    <3>1. /\ 1 \in 1 .. Len(file) + 1 /\ total_bytes \in 1 - 1 .. Len(file)
          /\ total_bytes + n \in total_bytes .. Len(file)
      BY <1>1, <1>2, <1>3
    <3> QED BY <2>1, <3>1, ConcatAdjacentSubSeq
  <2> QED BY <1>1, <2>3, <2>4 DEF FileBytes
<1> QED
  BY <1>1, <1>2, <1>3, <1>4, <1>5, <1>6

LEMMA LoadDataStep ==
  ASSUME IInv, LoadData
  PROVE  IInv' /\ [CL!Next]_CL!vars
<1>1. PICK n \in ReadResults :
        /\ p2' = p1
        /\ p1' = [i \in InBuffer |-> IF i < n THEN file[total_bytes + i + 1] ELSE p2[i]]
        /\ nbytes' = n
        /\ total_bytes' = total_bytes + n
        /\ ctx' = ctx \o Slice(p1', 0, n)
        /\ eof' = (n # 0 /\ IsShort(n))
        /\ pc' = IF n = 0 THEN "done" ELSE "scan"
  BY DEF LoadData, AfterRead
<1>2. /\ pc = "load" /\ p' = 0 /\ file' = file /\ is_var' = is_var
      /\ UNCHANGED <<b1_offset, new_start, backup_break, window>>
      /\ UNCHANGED <<log, data, datamap, tot_blocks, tot_dup_blocks>>
  BY DEF LoadData, cutVars, outVars
<1>3. /\ TypeOK /\ total_bytes = b1_offset /\ ~eof
      /\ b1_offset \in Nat /\ READ_BUFFER_SIZE \in Nat /\ Len(file) \in Nat
      /\ n \in Nat /\ n <= READ_BUFFER_SIZE /\ total_bytes + n <= Len(file)
      /\ p1' \in [InBuffer -> Values]
      /\ \A i \in 0 .. n - 1 : p1'[i] = file[b1_offset + i + 1]
      /\ ctx \o Slice(p1', 0, n) = SubSeq(file, 1, total_bytes + n)
  BY <1>1, <1>2, ReadFacts
<1>4. ctx' \in Seq(Values)
  <2>1. SubSeq(file, 0 + 1, total_bytes + n) \in Seq(Byte)
    <3>1. 0 \in Nat /\ total_bytes + n \in Nat
      BY <1>3
    <3> QED BY <1>3, <3>1, FileRange
  <2>2. SubSeq(file, 1, total_bytes + n) \in Seq(Byte)
    BY <2>1
  <2> QED BY <1>1, <1>3, <2>2, SeqMonotonic DEF Values
<1>5. TypeOK'
  BY <1>1, <1>2, <1>3, <1>4 DEF TypeOK, OutputTypeOK, Values, Blocks
<1>6. ReadProgress'
  <2>1. ctx' = SubSeq(file', 1, total_bytes')
    BY <1>1, <1>2, <1>3
  <2>2. total_bytes' <= Len(file')
    BY <1>1, <1>2, <1>3
  <2>3. b1_offset' = 0 \/ b1_offset' >= READ_BUFFER_SIZE
    BY <1>2 DEF IInv, ReadProgress
  <2>4. Loaded' => /\ total_bytes' = b1_offset' + nbytes'
                   /\ nbytes' > 0
                   /\ eof' = (nbytes' # READ_BUFFER_SIZE)
                   /\ p' <= nbytes'
    BY <1>1, <1>2, <1>3 DEF IsShort
  <2> QED BY <1>1, <2>1, <2>2, <2>3, <2>4 DEF ReadProgress
<1>7. BuffersHold'
  <2>1. Loaded' => Holds(p1, b1_offset, nbytes)'
    BY <1>1, <1>2, <1>3 DEF Holds
  <2>2. b1_offset # 0 => Holds(p1, b1_offset - READ_BUFFER_SIZE, READ_BUFFER_SIZE)
    BY <1>2 DEF IInv, BuffersHold
  <2>3. b1_offset' # 0 => Holds(p2, b1_offset - READ_BUFFER_SIZE, READ_BUFFER_SIZE)'
    BY <1>1, <1>2, <2>2 DEF Holds
  <2>4. pc' # "load"
    BY <1>1
  <2> QED BY <2>1, <2>3, <2>4 DEF BuffersHold
<1>8. pos = b1_offset /\ pos' = b1_offset
  BY <1>1, <1>2, <1>3 DEF pos, offset
<1>9. PendingBlock'
  <2>1. NoBoundaryInside(new_start, pos) => NoBoundaryInside(new_start, pos)'
    BY <1>2, <1>8 DEF NoBoundaryInside, CL!IsBoundary
  <2>2. LogEnd(log') = LogEnd(log) /\ pc' # "slide"
    BY <1>1, <1>2
  <2> QED BY <1>2, <1>8, <2>1, <2>2 DEF IInv, PendingBlock
<1>10. FixedProgress'
  <2>1. ~is_var => LogEnd(log) = total_bytes
    BY <1>2 DEF IInv, FixedProgress
  <2>2. Loaded' => total_bytes = b1_offset' + p'
    BY <1>2, <1>3
  <2>3. ~Loaded' => total_bytes' = total_bytes
    BY <1>1, <1>3
  <2>4. p' <= nbytes'
    BY <1>1, <1>2, <1>3
  <2> QED BY <1>2, <2>1, <2>2, <2>3, <2>4 DEF FixedProgress
<1>11. OnlyATailIsLost'
  <2> SUFFICES ASSUME pc' = "done" PROVE OnlyATailIsLost'
    BY DEF OnlyATailIsLost
  <2>0. n = 0
    BY <1>1
  <2>1. n = 0 /\ total_bytes' = total_bytes /\ eof' = FALSE
    <3>1. total_bytes + 0 = total_bytes
      BY <1>3
    <3> QED BY <1>1, <2>0, <3>1
  <2>2. CASE is_var
    <3>1. new_start = LogEnd(log) /\ new_start <= pos /\ pos - new_start < Tmax
      BY <1>2, <2>2 DEF IInv, PendingBlock
    <3> QED BY <1>2, <1>3, <1>8, <2>1, <2>2, <3>1 DEF OnlyATailIsLost
  <2>3. CASE ~is_var
    <3>1. LogEnd(log) = total_bytes
      BY <1>2, <2>3 DEF IInv, FixedProgress
    <3> QED BY <1>2, <1>3, <2>1, <3>1, SizesAssumption DEF OnlyATailIsLost
  <2> QED BY <2>2, <2>3
<1>12. DataMapMatches'
  BY <1>2 DEF IInv, DataMapMatches
<1> QED
  BY <1>2, <1>5, <1>6, <1>7, <1>9, <1>10, <1>11, <1>12 DEF IInv, CL!vars

\* The last step in a buffer of varScan: what is left at the end of the file
\* becomes a block.
LEMMA EndOfVarBufferStep ==
  ASSUME IInv, EndOfVarBuffer
  PROVE  IInv' /\ [CL!Next]_CL!vars
<1>1. /\ is_var /\ pc = "scan" /\ p >= nbytes
      /\ b1_offset' = b1_offset + nbytes
      /\ pc' = IF eof THEN "done" ELSE "load"
      /\ file' = file /\ is_var' = is_var /\ p1' = p1 /\ p2' = p2 /\ nbytes' = nbytes
      /\ total_bytes' = total_bytes /\ eof' = eof /\ ctx' = ctx
      /\ new_start' = new_start /\ backup_break' = backup_break
      /\ window' = window /\ p' = p
  BY DEF EndOfVarBuffer, EndOfBuffer, AfterBuffer, readVars
<1>2. /\ TypeOK /\ OutputTypeOK /\ DataMapMatches
      /\ total_bytes = b1_offset + nbytes /\ total_bytes <= Len(file)
      /\ b1_offset # 0 => b1_offset >= READ_BUFFER_SIZE
      /\ nbytes > 0 /\ p <= nbytes /\ eof = (nbytes # READ_BUFFER_SIZE)
      /\ new_start = LogEnd(log)
      /\ new_start <= b1_offset + p /\ b1_offset + p - new_start < Tmax
      /\ pos = b1_offset + p /\ NoBoundaryInside(new_start, pos)
      /\ backup_break # 0 => new_start <= backup_break /\ backup_break < b1_offset + p
  BY <1>1, VarScanFacts DEF IInv, TypeOK
<1>3. /\ new_start \in Nat /\ b1_offset \in Nat /\ p \in Nat /\ nbytes \in Nat
      /\ Tmax \in Nat /\ backup_break \in Nat /\ total_bytes \in Nat
      /\ READ_BUFFER_SIZE \in Nat
  BY <1>2, Numbers
<1>0. (eof => nbytes # READ_BUFFER_SIZE) /\ (~eof => nbytes = READ_BUFFER_SIZE)
  BY <1>2, Zenon
<1>4. /\ p = nbytes /\ b1_offset' = total_bytes /\ pos = total_bytes /\ pos' = total_bytes
      /\ b1_offset + p = total_bytes
  <2>1. p = nbytes
    BY <1>1, <1>2, <1>3
  <2>2. b1_offset' = total_bytes /\ pos = total_bytes
    BY <1>1, <1>2, <2>1
  <2> QED BY <1>1, <2>1, <2>2 DEF pos
<1>5. ASSUME OutputTypeOK', DataMapMatches',
             eof => LogEnd(log') = total_bytes,
             ~eof => LogEnd(log') = new_start
      PROVE  IInv'
  <2>1. TypeOK'
    BY <1>1, <1>2, <1>3, <1>4, <1>5 DEF TypeOK
  <2>2. ReadProgress'
    <3>1. ctx' = SubSeq(file', 1, total_bytes') /\ total_bytes' <= Len(file')
      BY <1>1, <1>2 DEF IInv, ReadProgress
    <3>2. pc' # "done" => total_bytes >= READ_BUFFER_SIZE
      <4>1. pc' # "done" => nbytes = READ_BUFFER_SIZE
        BY <1>0, <1>1
      <4> QED BY <1>2, <1>3, <4>1
    <3> QED BY <1>1, <1>4, <3>1, <3>2 DEF ReadProgress
  <2>3. BuffersHold'
    <3>1. Holds(p1, b1_offset, nbytes)
      BY <1>1 DEF IInv, BuffersHold
    <3>2. nbytes = READ_BUFFER_SIZE => b1_offset = b1_offset' - READ_BUFFER_SIZE
      BY <1>1, <1>3
    <3>3. nbytes = READ_BUFFER_SIZE
            => Holds(p1, b1_offset - READ_BUFFER_SIZE, READ_BUFFER_SIZE)'
      BY <1>1, <3>1, <3>2 DEF Holds
    <3>4. ~Loaded' /\ (pc' = "load" => nbytes = READ_BUFFER_SIZE)
      BY <1>0, <1>1
    <3> QED BY <3>3, <3>4 DEF BuffersHold
  <2>4. PendingBlock'
    <3>1. ~eof => NoBoundaryInside(new_start, pos)'
      BY <1>1, <1>2, <1>4 DEF NoBoundaryInside, CL!IsBoundary
    <3>2. pc' # "done" => ~eof /\ pc' # "slide"
      BY <1>1
    <3>3. new_start <= total_bytes /\ total_bytes - new_start < Tmax
          /\ (backup_break # 0 => new_start <= backup_break /\ backup_break < total_bytes)
      BY <1>2, <1>3, <1>4
    <3> QED BY <1>1, <1>4, <1>5, <3>1, <3>2, <3>3 DEF PendingBlock
  <2>5. FixedProgress'
    BY <1>1 DEF FixedProgress
  <2>6. OnlyATailIsLost'
    <3>1. pc' = "done" => LogEnd(log') = total_bytes
      BY <1>1, <1>5
    <3>2. total_bytes <= total_bytes /\ total_bytes - total_bytes < Tmax
      BY <1>3, SizesAssumption
    <3> QED BY <1>1, <3>1, <3>2 DEF OnlyATailIsLost
  <2> QED BY <1>5, <2>1, <2>2, <2>3, <2>4, <2>5, <2>6 DEF IInv
<1>6. CASE eof /\ new_start < nbytes + b1_offset
  <2> DEFINE to == nbytes + b1_offset - 1
  <2>1. AddBreakpoint(to)
    BY <1>6 DEF EndOfVarBuffer
  <2>2. /\ to \in Nat /\ new_start <= to /\ to < b1_offset + nbytes
        /\ to - new_start < Tmax /\ to + 1 = total_bytes /\ to + 1 = pos
    BY <1>2, <1>3, <1>4, <1>6
  <2>3. CL!Next /\ LogEnd(log') = to + 1 /\ OutputTypeOK' /\ DataMapMatches'
    <3>1. NoBoundaryInside(new_start, to + 1)
      BY <1>2, <2>2
    <3> HIDE DEF to
    <3> QED BY <1>1, <2>1, <2>2, <3>1, AddBreakpointLogs
  <2>4. LogEnd(log') = total_bytes
    BY <2>2, <2>3
  <2>5. IInv'
    BY <1>5, <1>6, <2>3, <2>4
  <2> QED BY <2>3, <2>5
<1>7. CASE ~(eof /\ new_start < nbytes + b1_offset)
  <2>1. UNCHANGED <<log, data, datamap, tot_blocks, tot_dup_blocks>>
    BY <1>7 DEF EndOfVarBuffer, outVars
  <2>2. OutputTypeOK' /\ DataMapMatches' /\ LogEnd(log') = new_start
    BY <1>2, <2>1 DEF OutputTypeOK, DataMapMatches
  <2>3. eof => new_start = total_bytes
    BY <1>2, <1>3, <1>4, <1>7
  <2>4. UNCHANGED CL!vars
    BY <1>1, <2>1 DEF CL!vars
  <2> QED BY <1>5, <2>2, <2>3, <2>4
<1> QED
  BY <1>6, <1>7

-----------------------------------------------------------------------------
(* The steps of fixScan *)

\* What IInv says during fixScan.
LEMMA FixScanFacts ==
  ASSUME IInv, ~is_var, pc = "scan"
  PROVE  /\ TypeOK /\ OutputTypeOK /\ DataMapMatches
         /\ b1_offset # 0 => b1_offset >= READ_BUFFER_SIZE
         /\ total_bytes = b1_offset + nbytes /\ total_bytes <= Len(file)
         /\ nbytes > 0 /\ eof = (nbytes # READ_BUFFER_SIZE)
         /\ LogEnd(log) = IF p <= nbytes THEN b1_offset + p ELSE total_bytes
         /\ Holds(p1, b1_offset, nbytes)
<1>1. pc # "done" /\ Loaded
  OBVIOUS
<1> QED
  BY <1>1 DEF IInv, TypeOK, ReadProgress, FixedProgress, BuffersHold

LEMMA FixBlockStep ==
  ASSUME IInv, FixBlock
  PROVE  IInv' /\ [CL!Next]_CL!vars
<1>1. /\ ~is_var /\ pc = "scan" /\ p < nbytes
      /\ AddBlock(p + b1_offset, Slice(p1, p, fixSize))
      /\ p' = p + avg_size /\ pc' = pc
      /\ file' = file /\ is_var' = is_var /\ p1' = p1 /\ p2' = p2 /\ nbytes' = nbytes
      /\ total_bytes' = total_bytes /\ eof' = eof /\ ctx' = ctx
      /\ b1_offset' = b1_offset /\ new_start' = new_start
      /\ backup_break' = backup_break /\ window' = window
      /\ data' = data /\ datamap' = datamap
      /\ tot_blocks' = tot_blocks /\ tot_dup_blocks' = tot_dup_blocks
  BY DEF FixBlock, readVars, cutVars
<1>2. /\ TypeOK /\ OutputTypeOK /\ DataMapMatches
      /\ b1_offset # 0 => b1_offset >= READ_BUFFER_SIZE
      /\ total_bytes = b1_offset + nbytes /\ total_bytes <= Len(file)
      /\ nbytes > 0 /\ eof = (nbytes # READ_BUFFER_SIZE)
      /\ LogEnd(log) = IF p <= nbytes THEN b1_offset + p ELSE total_bytes
      /\ Holds(p1, b1_offset, nbytes)
  BY <1>1, FixScanFacts
<1>3. /\ b1_offset \in Nat /\ p \in Nat /\ nbytes \in Nat /\ total_bytes \in Nat
      /\ avg_size \in Nat /\ avg_size > 0 /\ Len(file) \in Nat /\ file \in Seq(Byte)
  BY <1>2, Numbers, FileByte, FilesAssumption DEF TypeOK
<1>0. p < nbytes
  BY <1>1
<1>4. PICK n \in Nat : n = fixSize
  <2>1. nbytes - p \in Nat
    BY <1>0, <1>3
  <2>2. fixSize = nbytes - p \/ fixSize = avg_size
    BY DEF fixSize
  <2> QED BY <1>3, <2>1, <2>2
<1>5. /\ n > 0 /\ n <= avg_size /\ p + n <= nbytes
      /\ n = avg_size \/ p + n = nbytes
      /\ n # avg_size => p + avg_size > nbytes
  BY <1>1, <1>3, <1>4 DEF fixSize
<1>6. PICK from \in Nat : from = b1_offset + p
  BY <1>3
<1>7. LogEnd(log) = from /\ from = p + b1_offset /\ from + n <= Len(file)
  BY <1>1, <1>2, <1>3, <1>5, <1>6
<1>8. Slice(p1, p, n) = FileBytes(from, n)
  <2>1. Copies(p1, p, from, n)
    <3> SUFFICES ASSUME NEW k \in 0 .. n - 1 PROVE p1[p + k] = file[from + k + 1]
      BY DEF Copies
    <3>1. p + k \in 0 .. nbytes - 1 /\ b1_offset + (p + k) + 1 = from + k + 1
      BY <1>3, <1>5, <1>6
    <3> QED BY <1>2, <3>1 DEF Holds
  <2> QED BY <1>3, <1>7, <2>1, SliceOfFile
<1>9. NoBoundaryInside(LogEnd(log), LogEnd(log) + n)
  BY <1>1, ModeFields DEF NoBoundaryInside, CL!IsBoundary
<1>10. AddBlock(LogEnd(log), FileBytes(LogEnd(log), n))
  BY <1>1, <1>4, <1>7, <1>8
<1>11. CL!Next /\ LogEnd(log') = from + n /\ log' \in Seq(Blocks)
  <2>1. n <= IF is_var THEN Tmax ELSE avg_size
    BY <1>1, <1>5
  <2>2. LogEnd(log) \in Nat /\ LogEnd(log) + n <= Len(file)
    BY <1>7
  <2>3. data' = IF has_data /\ is_var /\ ~CL!Stored(data, FileBytes(LogEnd(log), n))
                  THEN Append(data, [cksum |-> FileBytes(LogEnd(log), n), size |-> n])
                  ELSE data
    BY <1>1
  <2>4. CL!Next /\ LogEnd(log') = LogEnd(log) + n /\ log' \in Seq(Blocks)
    BY <1>1, <1>2, <1>5, <1>9, <1>10, <2>1, <2>2, <2>3, LogsABlock
  <2> QED BY <1>7, <2>4
<1>12. TypeOK'
  <2>1. OutputTypeOK'
    BY <1>1, <1>2, <1>11 DEF OutputTypeOK
  <2>2. p' \in Nat
    BY <1>1, <1>3
  <2> QED BY <1>1, <1>2, <2>1, <2>2 DEF TypeOK
<1>13. ReadProgress'
  <2>1. ctx = SubSeq(file, 1, total_bytes)
    BY DEF IInv, ReadProgress
  <2> QED BY <1>1, <1>2, <2>1 DEF ReadProgress
<1>14. BuffersHold'
  BY <1>1 DEF IInv, BuffersHold, Holds
<1>15. FixedProgress'
  <2>1. CASE n = avg_size
    <3>1. p' <= nbytes' /\ LogEnd(log') = b1_offset' + p'
      BY <1>1, <1>3, <1>5, <1>6, <1>11, <2>1
    <3> QED BY <1>1, <3>1 DEF FixedProgress
  <2>2. CASE n # avg_size
    <3>1. from + n = total_bytes /\ ~(p + avg_size <= nbytes)
      BY <1>2, <1>3, <1>5, <1>6, <2>2
    <3>2. LogEnd(log') = total_bytes' /\ ~(p' <= nbytes')
      BY <1>1, <1>11, <3>1
    <3> QED BY <3>2 DEF FixedProgress
  <2> QED BY <2>1, <2>2
<1>16. PendingBlock' /\ OnlyATailIsLost'
  BY <1>1 DEF PendingBlock, OnlyATailIsLost
<1>17. DataMapMatches'
  BY <1>1, <1>2 DEF DataMapMatches
<1> QED
  BY <1>11, <1>12, <1>13, <1>14, <1>15, <1>16, <1>17 DEF IInv

LEMMA EndOfFixBufferStep ==
  ASSUME IInv, EndOfFixBuffer
  PROVE  IInv' /\ [CL!Next]_CL!vars
<1>1. /\ ~is_var /\ pc = "scan" /\ p >= nbytes
      /\ b1_offset' = b1_offset + nbytes
      /\ pc' = IF eof THEN "done" ELSE "load"
      /\ file' = file /\ is_var' = is_var /\ p1' = p1 /\ p2' = p2 /\ nbytes' = nbytes
      /\ total_bytes' = total_bytes /\ eof' = eof /\ ctx' = ctx
      /\ new_start' = new_start /\ backup_break' = backup_break
      /\ window' = window /\ p' = p
      /\ UNCHANGED <<log, data, datamap, tot_blocks, tot_dup_blocks>>
  BY DEF EndOfFixBuffer, EndOfBuffer, AfterBuffer, readVars, outVars
<1>2. /\ TypeOK /\ OutputTypeOK /\ DataMapMatches
      /\ b1_offset # 0 => b1_offset >= READ_BUFFER_SIZE
      /\ total_bytes = b1_offset + nbytes /\ total_bytes <= Len(file)
      /\ nbytes > 0 /\ eof = (nbytes # READ_BUFFER_SIZE)
      /\ LogEnd(log) = IF p <= nbytes THEN b1_offset + p ELSE total_bytes
      /\ Holds(p1, b1_offset, nbytes)
  BY <1>1, FixScanFacts
<1>3. /\ b1_offset \in Nat /\ p \in Nat /\ nbytes \in Nat /\ total_bytes \in Nat
      /\ READ_BUFFER_SIZE \in Nat /\ Tmax \in Nat /\ 0 < Tmax
  BY <1>2, Numbers
<1>0. (eof => nbytes # READ_BUFFER_SIZE) /\ (~eof => nbytes = READ_BUFFER_SIZE)
  BY <1>2, Zenon
<1>4. b1_offset' = total_bytes /\ LogEnd(log) = total_bytes
  BY <1>1, <1>2, <1>3
<1>5. TypeOK'
  BY <1>1, <1>2, <1>3, <1>4 DEF TypeOK, OutputTypeOK
<1>6. ReadProgress'
  <2>1. ctx' = SubSeq(file', 1, total_bytes') /\ total_bytes' <= Len(file')
    BY <1>1, <1>2 DEF IInv, ReadProgress
  <2>2. pc' # "done" => total_bytes >= READ_BUFFER_SIZE
    <3>1. pc' # "done" => nbytes = READ_BUFFER_SIZE
      BY <1>0, <1>1
    <3> QED BY <1>2, <1>3, <3>1
  <2> QED BY <1>1, <1>4, <2>1, <2>2 DEF ReadProgress
<1>7. BuffersHold'
  <2>1. nbytes = READ_BUFFER_SIZE => b1_offset = b1_offset' - READ_BUFFER_SIZE
    BY <1>1, <1>3
  <2>2. nbytes = READ_BUFFER_SIZE
          => Holds(p1, b1_offset - READ_BUFFER_SIZE, READ_BUFFER_SIZE)'
    BY <1>1, <1>2, <2>1 DEF Holds
  <2>3. ~Loaded' /\ (pc' = "load" => nbytes = READ_BUFFER_SIZE)
    BY <1>0, <1>1
  <2> QED BY <2>2, <2>3 DEF BuffersHold
<1>8. PendingBlock' /\ DataMapMatches'
  BY <1>1, <1>2 DEF PendingBlock, DataMapMatches
<1>9. FixedProgress'
  BY <1>1, <1>4 DEF FixedProgress
<1>10. OnlyATailIsLost'
  BY <1>1, <1>3, <1>4 DEF OnlyATailIsLost
<1>11. UNCHANGED CL!vars
  BY <1>1 DEF CL!vars
<1> QED
  BY <1>5, <1>6, <1>7, <1>8, <1>9, <1>10, <1>11 DEF IInv

-----------------------------------------------------------------------------
(* The theorems *)

LEMMA InitHolds ==
  ASSUME Init
  PROVE  IInv /\ CL!Init
<1>1. /\ file \in Files /\ is_var \in BOOLEAN /\ pc = "load"
      /\ p1 = [i \in 0 .. READ_BUFFER_SIZE - 1 |-> Stale]
      /\ p2 = [i \in 0 .. READ_BUFFER_SIZE - 1 |-> Stale]
      /\ nbytes = 0 /\ total_bytes = 0 /\ eof = FALSE /\ ctx = <<>>
      /\ p = 0 /\ b1_offset = 0 /\ new_start = 0 /\ backup_break = 0
      /\ window = EmptyWindow
      /\ log = <<>> /\ data = <<>> /\ datamap = {}
      /\ tot_blocks \in Nat /\ tot_dup_blocks \in Nat
  BY ModeAssumption DEF Init
<1>2. OutputTypeOK
  BY <1>1 DEF OutputTypeOK
<1>3. TypeOK
  <2>1. window \in Windows
    BY <1>1, FilesAssumption DEF EmptyWindow, Windows
  <2>2. nbytes \in 0 .. READ_BUFFER_SIZE
    BY <1>1, SizesAssumption
  <2>3. ctx \in Seq(Byte \union {Stale})
    BY <1>1
  <2>4. /\ p1 \in [InBuffer -> Byte \union {Stale}]
        /\ p2 \in [InBuffer -> Byte \union {Stale}]
    BY <1>1
  <2>5. p \in Nat /\ b1_offset \in Nat /\ new_start \in Nat /\ backup_break \in Nat
    BY <1>1
  <2>6. total_bytes \in Nat /\ eof \in BOOLEAN
    BY <1>1
  <2> QED BY <1>1, <1>2, <2>1, <2>2, <2>3, <2>4, <2>5, <2>6 DEF TypeOK
<1>4. ReadProgress
  <2>1. Len(file) \in Nat /\ file \in Seq(Byte)
    BY <1>3, FileByte, FilesAssumption DEF TypeOK
  <2>2. SubSeq(file, 1, 0) = <<>>
    BY <2>1, SubSeqEmpty
  <2> QED BY <1>1, <2>1, <2>2 DEF ReadProgress
<1>5. pos = 0 /\ LogEnd(log) = 0
  BY <1>1 DEF pos, LogEnd
<1>6. PendingBlock
  <2>1. NoBoundaryInside(0, 0)
    BY DEF NoBoundaryInside
  <2> QED BY <1>1, <1>5, <2>1, SizesAssumption DEF PendingBlock
<1>7. DataMapMatches
  BY <1>1 DEF DataMapMatches
<1>8. BuffersHold /\ FixedProgress /\ OnlyATailIsLost
  BY <1>1, <1>5 DEF BuffersHold, FixedProgress, OnlyATailIsLost
<1> QED
  BY <1>1, <1>3, <1>4, <1>6, <1>7, <1>8 DEF IInv, CL!Init

LEMMA StutterStep ==
  ASSUME IInv, UNCHANGED vars
  PROVE  IInv' /\ [CL!Next]_CL!vars
<1>1. /\ file' = file /\ is_var' = is_var /\ p1' = p1 /\ p2' = p2 /\ nbytes' = nbytes
      /\ total_bytes' = total_bytes /\ eof' = eof /\ ctx' = ctx
      /\ b1_offset' = b1_offset /\ new_start' = new_start
      /\ backup_break' = backup_break /\ window' = window
      /\ log' = log /\ data' = data /\ datamap' = datamap
      /\ tot_blocks' = tot_blocks /\ tot_dup_blocks' = tot_dup_blocks
      /\ pc' = pc /\ p' = p
  BY DEF vars, readVars, outVars, cutVars
<1>2. TypeOK' /\ ReadProgress'
  BY <1>1 DEF IInv, TypeOK, OutputTypeOK, ReadProgress
<1>3. BuffersHold' /\ FixedProgress' /\ OnlyATailIsLost' /\ DataMapMatches'
  BY <1>1 DEF IInv, BuffersHold, Holds, FixedProgress, OnlyATailIsLost, DataMapMatches
<1>4. PendingBlock'
  <2>1. pos' = pos
    BY <1>1 DEF pos, offset
  <2> QED BY <1>1, <2>1 DEF IInv, PendingBlock, NoBoundaryInside, CL!IsBoundary
<1> QED
  BY <1>1, <1>2, <1>3, <1>4 DEF IInv, CL!vars

\* One step of the scan, whichever it is, keeps IInv and is a step of ChunkLog
\* or a stutter.
LEMMA ScanStep ==
  ASSUME IInv, [Next]_vars
  PROVE  IInv' /\ [CL!Next]_CL!vars
<1>1. CASE LoadData
  BY <1>1, LoadDataStep
<1>2. CASE EnforceBoundary
  BY <1>2, EnforceBoundaryStep
<1>3. CASE BelowMin
  BY <1>3, BelowMinStep
<1>4. CASE MainBreak
  BY <1>4, MainBreakStep
<1>5. CASE NoBreak
  BY <1>5, NoBreakStep
<1>6. CASE BackupBreak
  BY <1>6, BackupBreakStep
<1>7. CASE HardBreak
  BY <1>7, HardBreakStep
<1>8. CASE EndOfVarBuffer
  BY <1>8, EndOfVarBufferStep
<1>9. CASE FixBlock
  BY <1>9, FixBlockStep
<1>10. CASE EndOfFixBuffer
  BY <1>10, EndOfFixBufferStep
<1>11. CASE Done \/ UNCHANGED vars
  BY <1>11, StutterStep DEF Done
<1> QED
  BY <1>1, <1>2, <1>3, <1>4, <1>5, <1>6, <1>7, <1>8, <1>9, <1>10, <1>11 DEF Next

\* The buffers, the cut positions and the output agree between any two steps
\* of scan, varScan and fixScan, for every size, fingerprint and read error.
THEOREM Invariance == Spec => []IInv
<1>1. Init => IInv
  BY InitHolds
<1>2. IInv /\ [Next]_vars => IInv'
  BY ScanStep
<1> QED
  BY <1>1, <1>2, PTL DEF Spec

\* Every variable of the scan keeps its type.
THEOREM TypeCorrect == Spec => []TypeOK
<1>1. IInv => TypeOK
  BY DEF IInv
<1> QED
  BY <1>1, Invariance, PTL

\* When scan returns, less than Tmax bytes at the end of what was read are
\* missing from the log, and none when the last read was a short one.
THEOREM TailOnly == Spec => []OnlyATailIsLost
<1>1. IInv => OnlyATailIsLost
  BY DEF IInv
<1> QED
  BY <1>1, Invariance, PTL

\* The scan of a file implements ChunkLog: every record written to the log
\* is the next range of the file, in bounds, with the checksum of its bytes.
THEOREM Implementation == Spec => ImplementsChunkLog
<1>1. Init => CL!Init
  BY InitHolds
<1>2. IInv /\ [Next]_vars => [CL!Next]_CL!vars
  BY ScanStep
<1> QED
  BY <1>1, <1>2, Invariance, PTL DEF Spec, ImplementsChunkLog, CL!Spec

-----------------------------------------------------------------------------
(* What ChunkLog keeps, the scan keeps *)

LEMMA AppendIsOneMore ==
  ASSUME NEW S, NEW s \in Seq(S), NEW e
  PROVE  /\ Len(Append(s, e)) = Len(s) + 1
         /\ Append(s, e)[Len(s) + 1] = e
         /\ \A i \in 1 .. Len(s) : Append(s, e)[i] = s[i]
  OBVIOUS

LEMMA ScannerStays ==
  ASSUME [Next]_vars
  PROVE  is_var' = is_var
BY DEF Next, Done, LoadData, EnforceBoundary, BelowMin, MainBreak, NoBreak, BackupBreak,
       HardBreak, AtByte, AtMax, NextByte, EndOfVarBuffer, EndOfBuffer, FixBlock,
       EndOfFixBuffer, vars, readVars

\* A block comes into the log with its content, or after it.
LEMMA RestorableStep ==
  ASSUME OutputTypeOK, DataRestoresLog, [CL!Next]_CL!vars, is_var' = is_var
  PROVE  DataRestoresLog'
<1>1. SUFFICES ASSUME is_var, has_data, CL!Next
               PROVE  DataRestoresLog'
  BY DEF CL!vars, DataRestoresLog
<1>2. PICK n : CL!LogBlock(n)
  BY <1>1 DEF CL!Next
<1> DEFINE bytes == SubSeq(file, CL!LogEnd(log) + 1, CL!LogEnd(log) + n)
           block == [offset |-> CL!LogEnd(log), size |-> n, cksum |-> bytes]
           entry == [cksum |-> bytes, size |-> n]
<1>3. /\ log' = Append(log, block)
      /\ data' = IF ~CL!Stored(data, bytes) THEN Append(data, entry) ELSE data
  BY <1>1, <1>2, ModeFields DEF CL!LogBlock
<1>4. /\ \A i \in 1 .. Len(log) : \E j \in 1 .. Len(data) : data[j].cksum = log[i].cksum
      /\ \A i, j \in 1 .. Len(data) : i # j => data[i].cksum # data[j].cksum
  BY <1>1 DEF DataRestoresLog
<1> DEFINE Entries == [cksum : Seq(Byte \union {Stale}), size : Nat]
<1>5. log \in Seq(Blocks) /\ data \in Seq(Entries)
  BY DEF OutputTypeOK
<1> HIDE DEF Entries
<1>6. Len(log) \in Nat /\ Len(data) \in Nat
  BY <1>5, LenProperties
<1>7. /\ Len(log') = Len(log) + 1 /\ log'[Len(log) + 1].cksum = bytes
      /\ \A i \in 1 .. Len(log) : log'[i] = log[i]
  <2>1. block.cksum = bytes
    OBVIOUS
  <2> HIDE DEF block
  <2> QED BY <1>5, <1>3, <2>1, AppendIsOneMore
<1>8. CASE CL!Stored(data, bytes)
  <2>1. \E j \in 1 .. Len(data) : data[j].cksum = bytes
    BY <1>8 DEF CL!Stored
  <2> HIDE DEF bytes
  <2>2. \A i \in 1 .. Len(log') : \E j \in 1 .. Len(data) : data[j].cksum = log'[i].cksum
    BY <1>4, <1>7, <1>6, <2>1
  <2> QED BY <1>3, <1>4, <1>8, <2>2 DEF DataRestoresLog
<1>9. CASE ~CL!Stored(data, bytes)
  <2>1. /\ Len(data') = Len(data) + 1 /\ data'[Len(data) + 1].cksum = bytes
        /\ \A j \in 1 .. Len(data) : data'[j] = data[j]
    <3>1. entry.cksum = bytes
      OBVIOUS
    <3> HIDE DEF entry
    <3> QED BY <1>5, <1>3, <1>9, <3>1, AppendIsOneMore
  <2>2. \A j \in 1 .. Len(data) : data[j].cksum # bytes
    BY <1>9 DEF CL!Stored
  <2> HIDE DEF bytes
  <2>3. \A i \in 1 .. Len(log') : \E j \in 1 .. Len(data') : data'[j].cksum = log'[i].cksum
    <3> TAKE i \in 1 .. Len(log')
    <3>1. CASE i = Len(log) + 1
      <4>1. Len(data) + 1 \in 1 .. Len(data')
        BY <1>6, <2>1
      <4> QED BY <1>7, <2>1, <3>1, <4>1
    <3>2. CASE i \in 1 .. Len(log)
      <4>1. PICK j \in 1 .. Len(data) : data[j].cksum = log[i].cksum
        BY <1>4, <3>2
      <4>2. j \in 1 .. Len(data')
        BY <1>6, <2>1
      <4> QED BY <1>7, <2>1, <3>2, <4>1, <4>2
    <3> QED BY <1>7, <1>6, <3>1, <3>2
  <2>4. \A i, j \in 1 .. Len(data') : i # j => data'[i].cksum # data'[j].cksum
    <3> SUFFICES ASSUME NEW i \in 1 .. Len(data'), NEW j \in 1 .. Len(data'), i # j
                 PROVE  data'[i].cksum # data'[j].cksum
      OBVIOUS
    <3>1. /\ i \in 1 .. Len(data) \/ i = Len(data) + 1
          /\ j \in 1 .. Len(data) \/ j = Len(data) + 1
      BY <1>6, <2>1
    <3> QED BY <1>4, <2>1, <2>2, <3>1
  <2> QED BY <2>3, <2>4 DEF DataRestoresLog
<1> QED BY <1>8, <1>9

\* From the log and the data file the file can be restored: the content of
\* every logged block is in the data file, and is there once.  Known of
\* ChunkLog's steps, it holds of the scan because that implements ChunkLog.
THEOREM LogIsRestorable == Spec => []DataRestoresLog
<1>1. Init => DataRestoresLog
  BY DEF Init, DataRestoresLog
<1>2. IInv /\ DataRestoresLog /\ [Next]_vars => DataRestoresLog'
  BY ScanStep, RestorableStep, ScannerStays DEF IInv, TypeOK
<1> QED
  BY <1>1, <1>2, Invariance, PTL DEF Spec

-----------------------------------------------------------------------------
(* Segments of the file *)

\* The greatest multiple of f up to x.
LEMMA Multiples ==
  ASSUME NEW f \in Nat \ {0}, NEW x \in Nat
  PROVE  /\ x % f \in 0 .. f - 1 /\ x - (x % f) \in 0 .. x
         /\ (x - (x % f)) % f = 0
         /\ \A z \in 0 .. x : z % f = 0 => z <= x - (x % f)
<1>1. PICK q \in Nat, r \in Nat : x = f * q + r /\ x % f = r /\ r < f
  <2>1. x \div f \in Nat /\ x % f \in 0 .. f - 1
    OBVIOUS
  <2>2. x = f * (x \div f) + (x % f)
    OBVIOUS
  <2>3. x \div f \in Nat /\ x % f \in Nat /\ x % f < f
    BY <2>1
  <2> WITNESS x \div f \in Nat, x % f \in Nat
  <2> QED BY <2>2, <2>3
<1>2. f * q \in Nat /\ (f * q) % f = 0 /\ x - (x % f) = f * q
  <2>1. f * q \in Nat /\ (f * q) % f = 0
    OBVIOUS
  <2> QED BY <1>1, <2>1
<1>3. ASSUME NEW z \in 0 .. x, z % f = 0 PROVE z <= f * q
  <2>1. PICK k \in Nat : z = f * k
    <3>1. z \div f \in Nat /\ z = f * (z \div f) + (z % f)
      OBVIOUS
    <3>2. z = f * (z \div f)
      BY <1>3, <3>1
    <3> QED BY <3>1, <3>2
  <2>2. CASE k <= q
    <3>1. PICK d \in Nat : q = k + d
      BY <2>2, q - k \in Nat
    <3>2. f * q = f * k + f * d /\ f * d \in Nat
      BY <3>1
    <3> QED BY <2>1, <3>2
  <2>3. CASE k > q
    <3>1. PICK d \in Nat : k = q + 1 + d
      BY <2>3, k - q - 1 \in Nat
    <3>2. f * k = f * q + f + f * d /\ f * d \in Nat
      BY <3>1
    <3>3. z > x
      BY <1>1, <1>2, <2>1, <3>2
    <3> QED BY <3>3
  <2> QED BY <2>2, <2>3
<1> QED BY <1>1, <1>2, <1>3

\* A segment starts at the last boundary up to the byte.
LEMMA SegmentStartIs ==
  ASSUME NEW x \in Nat
  PROVE  /\ SegmentStart(x) \in 0 .. x
         /\ fix_boundary_size # 0 => SegmentStart(x) % fix_boundary_size = 0
         /\ fix_boundary_size # 0 =>
              \A z \in 0 .. x : z % fix_boundary_size = 0 => z <= SegmentStart(x)
<1>1. CASE fix_boundary_size = 0
  BY <1>1 DEF SegmentStart
<1>2. CASE fix_boundary_size # 0
  <2>1. fix_boundary_size \in Nat \ {0}
    BY <1>2, SizesAssumption
  <2>2. SegmentStart(x) = x - (x % fix_boundary_size)
    BY <1>2 DEF SegmentStart
  <2> QED BY <1>2, <2>1, <2>2, Multiples
<1> QED BY <1>1, <1>2

IsForced(x) == fix_boundary_size # 0 /\ x # 0 /\ x % fix_boundary_size = 0

\* A byte that begins no segment is in the segment of the one before.
LEMMA SegmentOfNext ==
  ASSUME NEW x \in Nat
  PROVE  /\ IsForced(x) => SegmentStart(x) = x
         /\ ~IsForced(x) /\ x > 0 => SegmentStart(x) = SegmentStart(x - 1)
<1>1. IsForced(x) => SegmentStart(x) = x
  <2>1. IsForced(x) => x <= SegmentStart(x) /\ SegmentStart(x) \in 0 .. x
    BY SegmentStartIs DEF IsForced
  <2> QED BY <2>1
<1>2. ASSUME ~IsForced(x), x > 0 PROVE SegmentStart(x) = SegmentStart(x - 1)
  <2>1. CASE fix_boundary_size = 0
    BY <2>1 DEF SegmentStart
  <2>2. CASE fix_boundary_size # 0
    <3> DEFINE s == SegmentStart(x)
               t == SegmentStart(x - 1)
    <3>1. s \in 0 .. x /\ s % fix_boundary_size = 0
          /\ \A z \in 0 .. x : z % fix_boundary_size = 0 => z <= s
      BY <2>2, SegmentStartIs
    <3>2. t \in 0 .. x - 1 /\ t % fix_boundary_size = 0
          /\ \A z \in 0 .. x - 1 : z % fix_boundary_size = 0 => z <= t
      BY <1>2, <2>2, x - 1 \in Nat, SegmentStartIs
    <3>3. s # x
      BY <1>2, <2>2, <3>1 DEF IsForced
    <3> HIDE DEF s, t
    <3>4. s \in 0 .. x - 1 /\ t \in 0 .. x
      BY <1>2, <3>1, <3>2, <3>3
    <3>5. s = t
      BY <3>1, <3>2, <3>4
    <3> QED BY <3>5 DEF s, t
  <2> QED BY <2>1, <2>2
<1> QED BY <1>1, <1>2

\* A range is in one segment if no segment begins behind its first byte.
LEMMA InOneSegment ==
  ASSUME NEW from \in Nat, NEW x \in Nat, from <= x
  PROVE  SegmentStart(x) <= from <=> \A z \in from + 1 .. x : ~IsForced(z)
<1>1. CASE fix_boundary_size = 0
  BY <1>1 DEF SegmentStart, IsForced
<1>2. CASE fix_boundary_size # 0
  <2> DEFINE s == SegmentStart(x)
  <2>1. s \in 0 .. x /\ s % fix_boundary_size = 0
        /\ \A z \in 0 .. x : z % fix_boundary_size = 0 => z <= s
    BY <1>2, SegmentStartIs
  <2> HIDE DEF s
  <2>2. s <= from => \A z \in from + 1 .. x : ~IsForced(z)
    BY <2>1 DEF IsForced
  <2>3. ASSUME s > from PROVE \E z \in from + 1 .. x : IsForced(z)
    <3>1. s \in from + 1 .. x /\ s # 0
      BY <2>1, <2>3
    <3> QED BY <1>2, <2>1, <3>1 DEF IsForced
  <2>4. s <= from \/ s > from
    BY <2>1
  <2> QED BY <2>2, <2>3, <2>4 DEF s
<1> QED BY <1>1, <1>2
-----------------------------------------------------------------------------
(* The rule, of a file and where it ends *)

\* What the fingerprint covers at byte x of f, and the kind of break there.
Covered(f, x) ==
  [k \in 1 .. RABIN_WINDOW_SIZE |->
     LET y == x - RABIN_WINDOW_SIZE + k IN IF y >= SegmentStart(x) THEN f[y + 1] ELSE 0]
KindOf(f, x) == Kind[Covered(f, x)]

Limits(from, end) ==
  {n \in 1 .. Tmax : from + n <= end /\ (SegmentStart(from + n - 1) <= from \/ n = 1)}

OfKind(f, from, limit, kd) == {n \in Tmin .. limit : KindOf(f, from + n - 1) = kd}

RuleSize(f, from, end) ==
  LET limit   == Max(Limits(from, end))
      mains   == OfKind(f, from, limit, "main")
      backups == OfKind(f, from, limit, "backup")
  IN  IF mains # {} THEN Min(mains)
      ELSE IF limit = Tmax /\ backups # {} THEN Max(backups)
      ELSE limit

\* The same rule as TTTD's, with file and end as arguments.
LEMMA BlockSizeIsRuleSize ==
  ASSUME NEW from PROVE BlockSize(from) = RuleSize(file, from, DataEnd)
BY DEF BlockSize, RuleSize, Limits, OfKind, KindOf, Covered, WindowAt

\* The largest size that the end, the segment and Tmax allow.
LEMMA LimitIs ==
  ASSUME NEW from \in Nat, NEW end \in Nat, NEW n \in 1 .. Tmax, from + n <= end,
         \A z \in from + 1 .. from + n - 1 : ~IsForced(z)
  PROVE  /\ Max(Limits(from, end)) \in n .. Tmax
         /\ n = Tmax \/ from + n = end \/ IsForced(from + n) => Max(Limits(from, end)) = n
<1> DEFINE L == Limits(from, end)
<1>1. Tmax \in Nat
  BY SizesAssumption
<1>2. n \in L
  <2>1. SegmentStart(from + n - 1) <= from
    BY from + n - 1 \in Nat, from <= from + n - 1, InOneSegment
  <2> QED BY <2>1 DEF Limits
<1>3. Max(L) \in L /\ Max(L) \in 1 .. Tmax /\ \A j \in L : j <= Max(L)
  <2>1. L \in SUBSET (1 .. Tmax) /\ L # {}
    BY <1>2 DEF Limits
  <2> HIDE DEF L
  <2> QED BY <1>1, <2>1, MaxOfSubset
<1>4. Max(L) \in n .. Tmax
  BY <1>1, <1>2, <1>3
<1>5. ASSUME IsForced(from + n), NEW m \in L PROVE m <= n
  <2>1. m \in 1 .. Tmax /\ (SegmentStart(from + m - 1) <= from \/ m = 1)
    BY <1>5 DEF Limits
  <2>2. CASE m > n
    <3>1. m # 1 /\ from + n \in from + 1 .. from + m - 1 /\ from + m - 1 \in Nat /\ from <= from + m - 1
      BY <1>1, <2>1, <2>2
    <3>2. SegmentStart(from + m - 1) <= from
      BY <2>1, <3>1
    <3>3. ~IsForced(from + n)
      BY <3>1, <3>2, InOneSegment
    <3> QED BY <1>5, <3>3
  <2> QED BY <1>1, <2>1, <2>2
<1>6. ASSUME from + n = end, NEW m \in L PROVE m <= n
  BY <1>1, <1>6 DEF Limits
<1>7. ASSUME n = Tmax \/ from + n = end \/ IsForced(from + n) PROVE Max(L) = n
  <2> HIDE DEF L
  <2>1. Max(L) <= n
    BY <1>1, <1>3, <1>5, <1>6, <1>7
  <2> QED BY <1>1, <1>4, <2>1
<1> QED BY <1>4, <1>7

\* A block ends at its first main breakpoint.
LEMMA RuleMain ==
  ASSUME NEW f, NEW from \in Nat, NEW end \in Nat, NEW n \in Tmin .. Tmax, from + n <= end,
         \A z \in from + 1 .. from + n - 1 : ~IsForced(z),
         KindOf(f, from + n - 1) = "main",
         \A y \in from + Tmin - 1 .. from + n - 2 : KindOf(f, y) # "main"
  PROVE  RuleSize(f, from, end) = n
<1> DEFINE limit == Max(Limits(from, end))
           mains == OfKind(f, from, limit, "main")
<1>1. Tmin \in Nat /\ Tmax \in Nat /\ Tmin > 1
  BY SizesAssumption
<1>2. limit \in n .. Tmax
  <2>1. n \in 1 .. Tmax
    BY <1>1
  <2> QED BY <2>1, LimitIs
<1> HIDE DEF limit
<1>3. n \in mains /\ mains \in SUBSET Nat
  BY <1>1, <1>2 DEF OfKind
<1>4. ASSUME NEW m \in mains PROVE m >= n
  <2>1. m \in Tmin .. limit /\ KindOf(f, from + m - 1) = "main"
    BY <1>4 DEF OfKind
  <2>2. CASE m < n
    <3>1. from + m - 1 \in from + Tmin - 1 .. from + n - 2
      BY <1>1, <1>2, <2>1, <2>2
    <3> QED BY <2>1, <3>1
  <2> QED BY <1>1, <1>2, <2>1, <2>2
<1>5. Min(mains) = n
  <2> HIDE DEF mains
  <2>1. Min(mains) \in mains /\ \A m \in mains : Min(mains) <= m
    BY <1>3, MinOfNat
  <2>2. Min(mains) \in Nat
    BY <1>3, <2>1
  <2> QED BY <1>1, <1>3, <1>4, <2>1, <2>2
<1>6. mains # {}
  BY <1>3
<1> QED BY <1>5, <1>6 DEF RuleSize, limit

\* Without one it is as long as it may be, unless that is Tmax and there is a
\* backup breakpoint.
LEMMA RuleLimit ==
  ASSUME NEW f, NEW from \in Nat, NEW end \in Nat, NEW n \in 1 .. Tmax, from + n <= end,
         \A z \in from + 1 .. from + n - 1 : ~IsForced(z),
         n = Tmax \/ from + n = end \/ IsForced(from + n),
         \A y \in from + Tmin - 1 .. from + n - 1 : KindOf(f, y) # "main",
         n # Tmax \/ \A y \in from + Tmin - 1 .. from + n - 1 : KindOf(f, y) # "backup"
  PROVE  RuleSize(f, from, end) = n
<1> DEFINE limit   == Max(Limits(from, end))
           mains   == OfKind(f, from, limit, "main")
           backups == OfKind(f, from, limit, "backup")
<1>1. Tmin \in Nat /\ Tmax \in Nat /\ Tmin > 1
  BY SizesAssumption
<1>2. limit = n
  BY LimitIs
<1> HIDE DEF limit
<1>3. mains = {}
  BY <1>1, <1>2 DEF OfKind
<1>4. n # Tmax \/ backups = {}
  BY <1>1, <1>2 DEF OfKind
<1> QED BY <1>2, <1>3, <1>4 DEF RuleSize, limit

\* Otherwise it ends at the last of these.
LEMMA RuleBackup ==
  ASSUME NEW f, NEW from \in Nat, NEW end \in Nat, NEW m \in Tmin .. Tmax, from + Tmax <= end,
         \A z \in from + 1 .. from + Tmax - 1 : ~IsForced(z),
         \A y \in from + Tmin - 1 .. from + Tmax - 1 : KindOf(f, y) # "main",
         KindOf(f, from + m - 1) = "backup",
         \A y \in from + m .. from + Tmax - 1 : KindOf(f, y) # "backup"
  PROVE  RuleSize(f, from, end) = m
<1> DEFINE limit   == Max(Limits(from, end))
           mains   == OfKind(f, from, limit, "main")
           backups == OfKind(f, from, limit, "backup")
<1>1. Tmin \in Nat /\ Tmax \in Nat /\ Tmin > 1 /\ Tmax \in 1 .. Tmax
  BY SizesAssumption
<1>2. limit = Tmax
  BY <1>1, LimitIs
<1> HIDE DEF limit
<1>3. mains = {}
  BY <1>1, <1>2 DEF OfKind
<1>4. m \in backups /\ backups \in SUBSET (1 .. Tmax)
  BY <1>1, <1>2 DEF OfKind
<1>5. ASSUME NEW j \in backups PROVE j <= m
  <2>1. j \in Tmin .. Tmax /\ KindOf(f, from + j - 1) = "backup"
    BY <1>2, <1>5 DEF OfKind
  <2>2. CASE j > m
    <3>1. from + j - 1 \in from + m .. from + Tmax - 1
      BY <1>1, <2>1, <2>2
    <3> QED BY <2>1, <3>1
  <2> QED BY <1>1, <2>1, <2>2
<1>6. Max(backups) = m
  <2> HIDE DEF backups
  <2>1. backups # {}
    BY <1>4
  <2>2. Max(backups) \in backups /\ Max(backups) \in 1 .. Tmax /\ \A j \in backups : j <= Max(backups)
    BY <1>1, <1>4, <2>1, MaxOfSubset
  <2>3. Max(backups) <= m /\ m <= Max(backups)
    BY <1>4, <1>5, <2>2
  <2> QED BY <1>1, <2>2, <2>3
<1> QED BY <1>2, <1>3, <1>4, <1>6 DEF RuleSize, limit

-----------------------------------------------------------------------------
(* The cuts: an inductive invariant *)

\* Every logged block is what the rule says, wherever in seen .. end the data
\* may turn out to end.
AllCut(f, l, seen, end) ==
  \A k \in 1 .. Len(l) : \A e \in seen .. end : l[k].size = RuleSize(f, l[k].offset, e)

\* In the pending block no main breakpoint was met, and b is the last backup
\* breakpoint, 0 if there was none.
NoCutYet(f, from, b, seen) ==
  /\ \A y \in from + Tmin - 1 .. seen - 1 : KindOf(f, y) # "main"
  /\ b = 0 => \A y \in from + Tmin - 1 .. seen - 1 : KindOf(f, y) # "backup"
  /\ b # 0 => /\ from + Tmin - 1 <= b /\ KindOf(f, b) = "backup"
              /\ \A y \in b + 1 .. seen - 1 : KindOf(f, y) # "backup"

\* The window covers what the rule says up to the last byte scanned.
WindowIs(f, w, restarted, x) ==
  IF restarted THEN w = EmptyWindow /\ IsForced(x)
  ELSE IF x = 0 THEN w = EmptyWindow
  ELSE w = Covered(f, x - 1)

CutInv ==
  is_var =>
    /\ pos <= DataEnd
    /\ AllCut(file, log, pos, DataEnd)
    /\ pc # "done" => /\ NoCutYet(file, new_start, backup_break, pos)
                      /\ WindowIs(file, window, pc = "slide", pos)

\* What was cut stays right when the scan is further or the data ends earlier.
LEMMA AllCutLater ==
  ASSUME NEW f, NEW l, NEW s \in Nat, NEW t \in Nat, NEW end \in Nat, NEW stop \in Nat,
         AllCut(f, l, s, end), s <= t, stop <= end
  PROVE  AllCut(f, l, t, stop)
<1>1. \A e \in t .. stop : e \in s .. end
  OBVIOUS
<1> QED BY <1>1 DEF AllCut

LEMMA AllCutAppend ==
  ASSUME NEW f, NEW l \in Seq(Blocks), NEW blk \in Blocks, NEW s \in Nat, NEW end \in Nat,
         AllCut(f, l, s, end), \A e \in s .. end : blk.size = RuleSize(f, blk.offset, e)
  PROVE  AllCut(f, Append(l, blk), s, end)
<1>1. /\ Len(l) \in Nat /\ Len(Append(l, blk)) = Len(l) + 1
      /\ \A k \in 1 .. Len(l) : Append(l, blk)[k] = l[k]
      /\ Append(l, blk)[Len(l) + 1] = blk
  BY AppendProperties, LenProperties
<1> SUFFICES ASSUME NEW k \in 1 .. Len(l) + 1, NEW e \in s .. end
             PROVE  Append(l, blk)[k].size = RuleSize(f, Append(l, blk)[k].offset, e)
  BY <1>1 DEF AllCut
<1>2. CASE k = Len(l) + 1
  BY <1>1, <1>2
<1>3. CASE k \in 1 .. Len(l)
  BY <1>1, <1>3 DEF AllCut
<1> QED BY <1>1, <1>2, <1>3

\* The fingerprint after byte x.
LEMMA WindowSlides ==
  ASSUME NEW f, NEW w, NEW restarted \in BOOLEAN, NEW x \in Nat, WindowIs(f, w, restarted, x),
         restarted \/ ~IsForced(x)
  PROVE  Slide(w, f[x + 1]) = Covered(f, x)
<1>1. RABIN_WINDOW_SIZE \in Nat \ {0}
  BY FingerprintAssumption
<1> SUFFICES ASSUME NEW k \in 1 .. RABIN_WINDOW_SIZE
             PROVE  Slide(w, f[x + 1])[k] = Covered(f, x)[k]
  BY Zenon DEF Slide, Covered
<1> DEFINE y == x - RABIN_WINDOW_SIZE + k
<1>2. Covered(f, x)[k] = IF y >= SegmentStart(x) THEN f[y + 1] ELSE 0
  BY DEF Covered
<1>3. SegmentStart(x) \in 0 .. x
  BY SegmentStartIs
<1>4. CASE k = RABIN_WINDOW_SIZE
  BY <1>1, <1>2, <1>3, <1>4 DEF Slide
<1>5. CASE k < RABIN_WINDOW_SIZE
  <2>1. Slide(w, f[x + 1])[k] = w[k + 1] /\ k + 1 \in 1 .. RABIN_WINDOW_SIZE
    BY <1>1, <1>5 DEF Slide
  <2>2. CASE restarted \/ x = 0
    <3>1. w[k + 1] = 0
      BY <2>1, <2>2 DEF WindowIs, EmptyWindow
    <3>2. y < SegmentStart(x)
      <4>1. SegmentStart(x) = x
        <5>1. restarted => IsForced(x)
          BY DEF WindowIs
        <5> QED BY <1>3, <2>2, <5>1, SegmentOfNext
      <4> QED BY <1>1, <1>5, <4>1
    <3> QED BY <1>1, <1>2, <1>3, <2>1, <3>1, <3>2
  <2>3. CASE ~restarted /\ x # 0
    <3>1. w = Covered(f, x - 1) /\ SegmentStart(x) = SegmentStart(x - 1)
      BY <2>3, SegmentOfNext DEF WindowIs
    <3>2. Covered(f, x - 1)[k + 1] =
            LET z == (x - 1) - RABIN_WINDOW_SIZE + (k + 1)
            IN  IF z >= SegmentStart(x - 1) THEN f[z + 1] ELSE 0
      BY <2>1 DEF Covered
    <3>3. (x - 1) - RABIN_WINDOW_SIZE + (k + 1) = y
      BY <1>1
    <3> QED BY <1>2, <2>1, <3>1, <3>2, <3>3
  <2> QED BY <2>2, <2>3
<1> QED BY <1>1, <1>4, <1>5

LEMMA ForcedIsBoundary ==
  ASSUME is_var PROVE \A x : IsForced(x) <=> CL!IsBoundary(x)
BY ModeFields DEF IsForced, CL!IsBoundary

\* What addBreakpoint appends to the log.
LEMMA BlockLogged ==
  ASSUME IInv, CutInv, is_var, Loaded, NEW to \in Nat, NEW s \in Nat, pos <= s, s <= DataEnd,
         new_start <= to, to < b1_offset + nbytes, AddBreakpoint(to),
         \A e \in s .. DataEnd : to - new_start + 1 = RuleSize(file, new_start, e)
  PROVE  AllCut(file, log', s, DataEnd)
<1> DEFINE n == to - new_start + 1
           bytes == FileBytes(new_start, n)
           blk == [offset |-> new_start, size |-> n, cksum |-> bytes]
<1>1. /\ TypeOK /\ total_bytes = b1_offset + nbytes /\ total_bytes <= Len(file)
      /\ pos = b1_offset + p
  BY VarScanFacts
<1>2. /\ new_start \in Nat /\ b1_offset \in Nat /\ nbytes \in Nat /\ total_bytes \in Nat
      /\ p \in Nat /\ Len(file) \in Nat
  BY <1>1, Numbers, FileByte
<1>3. n \in Nat /\ n > 0 /\ new_start + n = to + 1 /\ new_start + n <= Len(file)
  BY <1>1, <1>2
<1>4. BlockBytes(to) = bytes
  BY <1>3, BlockBytesInFile DEF FileBytes
<1>5. bytes \in Seq(Byte) /\ Len(bytes) = n
  BY <1>1, <1>2, <1>3, FileBytesProperties
<1>6. log' = Append(log, blk)
  BY <1>2, <1>3, <1>4, <1>5 DEF AddBreakpoint, AddBlock
<1>7. blk \in Blocks
  <2>1. bytes \in Seq(Byte \union {Stale})
    BY <1>5, SeqMonotonic
  <2> HIDE DEF bytes
  <2> QED BY <1>2, <1>3, <2>1 DEF Blocks
<1>8. log \in Seq(Blocks)
  BY <1>1 DEF TypeOK, OutputTypeOK
<1>9. DataEnd \in Nat /\ pos \in Nat
  BY <1>1, <1>2 DEF DataEnd
<1>10. AllCut(file, log, s, DataEnd)
  BY <1>9, AllCutLater DEF CutInv
<1>11. blk.size = n /\ blk.offset = new_start
  OBVIOUS
<1> HIDE DEF blk
<1> QED BY <1>6, <1>7, <1>8, <1>9, <1>10, <1>11, AllCutAppend

\* What a step inside a buffer has to show for CutInv to hold after it.
LEMMA CutStep ==
  ASSUME IInv, CutInv, is_var, UNCHANGED readVars, pos' <= DataEnd,
         AllCut(file, log', pos', DataEnd),
         NoCutYet(file, new_start', backup_break', pos'),
         WindowIs(file, window', pc' = "slide", pos')
  PROVE  CutInv'
BY DEF CutInv, DataEnd, readVars

LEMMA CutsInit == Init => CutInv
<1> SUFFICES ASSUME Init, is_var PROVE CutInv
  BY DEF CutInv
<1>1. IInv
  BY InitHolds
<1>2. /\ pc = "load" /\ b1_offset = 0 /\ new_start = 0 /\ backup_break = 0 /\ window = EmptyWindow
      /\ log = <<>> /\ pos = 0 /\ total_bytes = 0 /\ eof = FALSE
  BY DEF Init, pos
<1>3. pos <= DataEnd
  BY <1>1, <1>2, FileByte DEF DataEnd, IInv
<1>4. NoCutYet(file, 0, 0, 0)
  BY SizesAssumption DEF NoCutYet
<1>5. AllCut(file, log, pos, DataEnd)
  BY <1>2 DEF AllCut
<1> QED BY <1>2, <1>3, <1>4, <1>5 DEF CutInv, WindowIs

LEMMA CutsLoad == IInv /\ CutInv /\ LoadData /\ is_var => CutInv'
<1> SUFFICES ASSUME IInv, CutInv, LoadData, is_var PROVE CutInv'
  OBVIOUS
<1>1. PICK n \in ReadResults :
        /\ total_bytes' = total_bytes + n
        /\ eof' = (n # 0 /\ IsShort(n))
        /\ pc' = AfterRead(n)
        /\ p1' = [k \in InBuffer |-> IF k < n THEN file[total_bytes + k + 1] ELSE p2[k]]
  BY DEF LoadData
<1>2. /\ pc = "load" /\ p' = 0 /\ file' = file /\ log' = log
      /\ b1_offset' = b1_offset /\ new_start' = new_start
      /\ backup_break' = backup_break /\ window' = window
  BY DEF LoadData, cutVars, outVars
<1>3. /\ total_bytes = b1_offset /\ ~eof /\ b1_offset \in Nat /\ Len(file) \in Nat
      /\ n \in Nat /\ total_bytes + n <= Len(file)
  BY <1>1, <1>2, ReadFacts
<1>4. pos = b1_offset /\ pos' = pos /\ pc' # "slide" /\ pc' # "load"
  BY <1>1, <1>2, <1>3 DEF pos, offset, AfterRead
<1>5. DataEnd = Len(file) /\ DataEnd' \in Nat /\ pos <= DataEnd' /\ DataEnd' <= DataEnd
  BY <1>1, <1>2, <1>3, <1>4 DEF DataEnd
<1>6. AllCut(file, log, pos, DataEnd')
  BY <1>3, <1>4, <1>5, AllCutLater DEF CutInv
<1>7. NoCutYet(file, new_start, backup_break, pos) /\ WindowIs(file, window, FALSE, pos)
  <2>1. WindowIs(file, window, pc = "slide", pos) /\ (pc = "slide") = FALSE
    BY <1>2 DEF CutInv
  <2> QED BY <1>2, <2>1 DEF CutInv
<1>8. (pc' = "slide") = FALSE
  BY <1>4
<1> QED BY <1>2, <1>4, <1>5, <1>6, <1>7, <1>8 DEF CutInv

LEMMA CutsBoundary == IInv /\ CutInv /\ EnforceBoundary => CutInv'
<1> SUFFICES ASSUME IInv, CutInv, EnforceBoundary PROVE CutInv'
  OBVIOUS
<1>1. /\ is_var /\ pc = "scan" /\ p < nbytes /\ UNCHANGED <<readVars, b1_offset>>
      /\ p' = p /\ pc' = "slide" /\ new_start' = offset /\ backup_break' = 0
      /\ window' = EmptyWindow /\ AtBoundary
      /\ IF new_start < offset THEN AddBreakpoint(offset - 1) ELSE log' = log
  BY DEF EnforceBoundary, RestartRabin, outVars
<1>2. /\ TypeOK /\ new_start <= b1_offset + p /\ b1_offset + p - new_start < Tmax
      /\ total_bytes = b1_offset + nbytes /\ total_bytes <= Len(file)
      /\ pos = b1_offset + p /\ NoBoundaryInside(new_start, pos)
  BY <1>1, VarScanFacts
<1>3. /\ new_start \in Nat /\ b1_offset \in Nat /\ p \in Nat /\ nbytes \in Nat
      /\ Tmax \in Nat /\ Tmin \in Nat /\ Tmin > 1 /\ total_bytes \in Nat /\ Len(file) \in Nat
  BY <1>2, Numbers, FileByte
<1>4. offset = pos /\ pos \in Nat /\ pos' = pos
  BY <1>1, <1>2, <1>3 DEF offset, pos
<1>5. IsForced(pos) /\ \A z \in new_start + 1 .. pos - 1 : ~IsForced(z)
  <2>1. CL!IsBoundary(pos)
    BY <1>1, <1>4, BoundaryIsBoundary
  <2> QED BY <1>1, <1>2, <2>1, ForcedIsBoundary DEF NoBoundaryInside
<1>6. pos <= DataEnd /\ AllCut(file, log, pos, DataEnd) /\ NoCutYet(file, new_start, backup_break, pos)
      /\ DataEnd \in Nat
  BY <1>1, <1>3 DEF CutInv, DataEnd
<1>7. AllCut(file, log', pos, DataEnd)
  <2>1. CASE new_start < offset
    <3> DEFINE n == pos - new_start
    <3>1. /\ n \in 1 .. Tmax /\ n # Tmax /\ new_start + n = pos
          /\ \A z \in new_start + 1 .. new_start + n - 1 : ~IsForced(z)
          /\ IsForced(new_start + n)
          /\ \A y \in new_start + Tmin - 1 .. new_start + n - 1 : KindOf(file, y) # "main"
      BY <1>2, <1>3, <1>4, <1>5, <1>6, <2>1 DEF NoCutYet
    <3>2. ASSUME NEW e \in pos .. DataEnd PROVE RuleSize(file, new_start, e) = n
      <4>1. e \in Nat /\ new_start + n <= e
        BY <1>4, <3>1, <3>2
      <4> HIDE DEF n
      <4> QED BY <1>3, <3>1, <4>1, RuleLimit
    <3>3. /\ offset - 1 \in Nat /\ new_start <= offset - 1 /\ offset - 1 < b1_offset + nbytes
          /\ (offset - 1) - new_start + 1 = n
      BY <1>1, <1>2, <1>3, <1>4, <2>1
    <3>4. AddBreakpoint(offset - 1)
      BY <1>1, <2>1
    <3> HIDE DEF n
    <3> QED BY <1>1, <1>4, <1>6, <3>2, <3>3, <3>4, BlockLogged
  <2>2. CASE ~(new_start < offset)
    BY <1>1, <1>6, <2>2
  <2> QED BY <2>1, <2>2
<1>8. NoCutYet(file, pos, 0, pos)
  BY <1>3, <1>4 DEF NoCutYet
<1>9. WindowIs(file, window', pc' = "slide", pos)
  BY <1>1, <1>5 DEF WindowIs
<1> QED BY <1>1, <1>4, <1>6, <1>7, <1>8, <1>9, CutStep

LEMMA CoveredType ==
  ASSUME TypeOK, NEW x \in Nat, x < Len(file)
  PROVE  Covered(file, x) \in Windows
<1>1. RABIN_WINDOW_SIZE \in Nat /\ Len(file) \in Nat /\ 0 \in Byte
  BY FingerprintAssumption, FilesAssumption, FileByte
<1>2. SegmentStart(x) \in 0 .. x
  BY SegmentStartIs
<1>3. ASSUME NEW k \in 1 .. RABIN_WINDOW_SIZE
      PROVE  LET y == x - RABIN_WINDOW_SIZE + k
             IN  (IF y >= SegmentStart(x) THEN file[y + 1] ELSE 0) \in Byte
  <2>1. x - RABIN_WINDOW_SIZE + k >= SegmentStart(x)
           => x - RABIN_WINDOW_SIZE + k + 1 \in 1 .. Len(file)
    BY <1>1, <1>2
  <2> QED BY <1>1, <2>1, FileByte
<1> QED BY <1>3 DEF Covered, Windows

\* What CutInv says when the scan takes in a byte.
LEMMA CutsAtByte ==
  ASSUME IInv, CutInv, AtByte, NextByte
  PROVE  /\ is_var /\ Loaded /\ UNCHANGED readVars /\ pos = offset /\ pos' = offset + 1
         /\ offset \in Nat /\ new_start \in Nat /\ backup_break \in Nat
         /\ new_start <= offset /\ offset - new_start < Tmax /\ offset < b1_offset + nbytes
         /\ offset + 1 <= DataEnd /\ DataEnd \in Nat
         /\ Tmin \in Nat /\ Tmax \in Nat /\ Tmin > 1 /\ Tmin <= Tmax
         /\ backup_break # 0 => backup_break < offset
         /\ kind = KindOf(file, offset)
         /\ \A z \in new_start + 1 .. offset : ~IsForced(z)
         /\ AllCut(file, log, offset, DataEnd)
         /\ NoCutYet(file, new_start, backup_break, offset)
         /\ WindowIs(file, window', pc' = "slide", pos')
<1>1. /\ is_var /\ Loaded /\ p < nbytes /\ UNCHANGED readVars
      /\ offset \in Nat /\ new_start \in Nat /\ backup_break \in Nat
      /\ p \in Nat /\ nbytes \in Nat /\ b1_offset \in Nat
      /\ offset < b1_offset + nbytes /\ pos' = offset + 1
      /\ new_start <= offset /\ offset - new_start < Tmax
      /\ NoBoundaryInside(new_start, offset + 1)
      /\ backup_break # 0 => backup_break < offset
  BY ByteFacts
<1>2. TypeOK /\ total_bytes = b1_offset + nbytes /\ total_bytes <= Len(file) /\ Len(file) \in Nat
  BY <1>1, VarScanFacts, FileByte
<1>3. pos = offset
  BY <1>1 DEF pos
<1>4. offset + 1 <= DataEnd /\ DataEnd \in Nat
  BY <1>1, <1>2 DEF DataEnd
<1>5. \A z \in new_start + 1 .. offset : ~IsForced(z)
  BY <1>1, ForcedIsBoundary DEF NoBoundaryInside
<1>6. /\ AllCut(file, log, offset, DataEnd)
      /\ NoCutYet(file, new_start, backup_break, offset)
      /\ WindowIs(file, window, pc = "slide", offset)
  BY <1>1, <1>3 DEF CutInv
<1>7. pc = "slide" \/ ~IsForced(offset)
  BY <1>1, BoundaryIsBoundary, ForcedIsBoundary DEF AtByte
<1>8. p1[p] = file[offset + 1]
  <2>1. p1[p] = file[b1_offset + p + 1]
    BY <1>1 DEF IInv, BuffersHold, Holds
  <2> QED BY <2>1 DEF offset
<1>9. Slide(window, p1[p]) = Covered(file, offset)
  <2>1. (pc = "slide") \in BOOLEAN
    OBVIOUS
  <2>2. (pc = "slide") \/ ~IsForced(offset)
    BY <1>7
  <2>3. Slide(window, file[offset + 1]) = Covered(file, offset)
    BY <1>1, <1>6, <2>1, <2>2, WindowSlides, Zenon
  <2> QED BY <1>8, <2>3
<1>10. WindowIs(file, window', pc' = "slide", pos')
  <2>1. window' = Covered(file, offset) /\ (pc' = "slide") = FALSE
    BY <1>9 DEF NextByte
  <2>2. pos' # 0 /\ pos' - 1 = offset
    BY <1>1
  <2> QED BY <2>1, <2>2 DEF WindowIs
<1>11. kind = KindOf(file, offset)
  BY <1>9 DEF kind, KindOf
<1>12. Tmin \in Nat /\ Tmax \in Nat /\ Tmin > 1 /\ Tmin <= Tmax
  BY SizesAssumption
<1> QED BY <1>1, <1>3, <1>4, <1>5, <1>6, <1>10, <1>11, <1>12

\* After a byte of no break, what is known of the pending block grows by it.
LEMMA CutsQuiet ==
  ASSUME IInv, CutInv, AtByte, NextByte, UNCHANGED <<outVars, new_start>>,
         NoCutYet(file, new_start, backup_break', offset + 1)
  PROVE  CutInv'
<1>1. /\ is_var /\ UNCHANGED readVars /\ pos = offset /\ pos' = offset + 1
      /\ offset \in Nat /\ offset + 1 <= DataEnd /\ DataEnd \in Nat
      /\ AllCut(file, log, offset, DataEnd)
      /\ WindowIs(file, window', pc' = "slide", pos')
  BY CutsAtByte
<1>2. AllCut(file, log, offset + 1, DataEnd)
  BY <1>1, AllCutLater
<1> QED BY <1>1, <1>2, CutStep DEF outVars

LEMMA CutsBelowMin == IInv /\ CutInv /\ BelowMin => CutInv'
<1> SUFFICES ASSUME IInv, CutInv, BelowMin PROVE CutInv'
  OBVIOUS
<1>1. AtByte /\ NextByte /\ length < Tmin /\ UNCHANGED <<outVars, new_start, backup_break>>
  BY DEF BelowMin
<1>2. /\ offset \in Nat /\ new_start \in Nat /\ backup_break \in Nat /\ Tmin \in Nat
      /\ backup_break # 0 => backup_break < offset
      /\ NoCutYet(file, new_start, backup_break, offset)
  BY <1>1, CutsAtByte
<1>3. NoCutYet(file, new_start, backup_break, offset + 1)
  <2>1. offset < new_start + Tmin - 1
    BY <1>1, <1>2 DEF length
  <2>2. backup_break = 0
    BY <1>2, <2>1 DEF NoCutYet
  <2> QED BY <1>2, <2>1, <2>2 DEF NoCutYet
<1> QED BY <1>1, <1>3, CutsQuiet

\* A block grown to Tmin that did not reach a main breakpoint: what its last
\* backup breakpoint is, this byte included.
LEMMA BackupIsLast ==
  ASSUME IInv, CutInv, AtByte, NextByte, length >= Tmin, kind # "main"
  PROVE  backup \in Nat /\ NoCutYet(file, new_start, backup, offset + 1)
<1>1. /\ offset \in Nat /\ new_start \in Nat /\ backup_break \in Nat /\ Tmin \in Nat /\ Tmin > 1
      /\ backup_break # 0 => backup_break < offset
      /\ kind = KindOf(file, offset)
      /\ NoCutYet(file, new_start, backup_break, offset)
  BY CutsAtByte
<1>2. offset >= new_start + Tmin - 1 /\ offset # 0
  BY <1>1 DEF length
<1>3. \A y \in new_start + Tmin - 1 .. offset : KindOf(file, y) # "main"
  BY <1>1 DEF NoCutYet
<1>4. CASE kind = "none"
  <2>1. backup = backup_break /\ KindOf(file, offset) # "backup"
    BY <1>1, <1>4 DEF backup
  <2>2. backup_break = 0 => \A y \in new_start + Tmin - 1 .. offset : KindOf(file, y) # "backup"
    <3>1. ASSUME backup_break = 0, NEW y \in new_start + Tmin - 1 .. offset PROVE KindOf(file, y) # "backup"
      <4>1. y = offset \/ y \in new_start + Tmin - 1 .. offset - 1
        BY <1>1, <3>1
      <4> QED BY <1>1, <2>1, <3>1, <4>1 DEF NoCutYet
    <3> QED BY <3>1
  <2>3. backup_break # 0 =>
          /\ new_start + Tmin - 1 <= backup_break /\ KindOf(file, backup_break) = "backup"
          /\ \A y \in backup_break + 1 .. offset : KindOf(file, y) # "backup"
    <3>1. ASSUME backup_break # 0, NEW y \in backup_break + 1 .. offset PROVE KindOf(file, y) # "backup"
      <4>1. y = offset \/ y \in backup_break + 1 .. offset - 1
        BY <1>1, <3>1
      <4> QED BY <1>1, <2>1, <3>1, <4>1 DEF NoCutYet
    <3> QED BY <1>1, <3>1 DEF NoCutYet
  <2>4. (offset + 1) - 1 = offset
    BY <1>1
  <2> QED BY <1>1, <1>3, <2>1, <2>2, <2>3, <2>4 DEF NoCutYet
<1>5. CASE kind # "none"
  <2>1. kind = "backup"
    <3>1. kind \in Kinds
      <4>1. Slide(window, p1[p]) \in Windows
        BY ByteFacts, SlideType
      <4> QED BY <4>1, FingerprintAssumption DEF kind
    <3> QED BY <1>5, <3>1 DEF Kinds
  <2>2. backup = offset
    BY <1>5 DEF backup
  <2>3. (offset + 1) - 1 = offset /\ KindOf(file, offset) = "backup"
        /\ \A y \in offset + 1 .. offset : KindOf(file, y) # "backup"
    BY <1>1, <2>1
  <2> QED BY <1>1, <1>2, <1>3, <2>2, <2>3 DEF NoCutYet
<1> QED BY <1>4, <1>5

LEMMA CutsNoBreak == IInv /\ CutInv /\ NoBreak => CutInv'
<1> SUFFICES ASSUME IInv, CutInv, NoBreak PROVE CutInv'
  OBVIOUS
<1>1. /\ AtByte /\ NextByte /\ length >= Tmin /\ kind # "main"
      /\ backup_break' = backup /\ UNCHANGED <<outVars, new_start>>
  BY DEF NoBreak
<1>2. NoCutYet(file, new_start, backup, offset + 1)
  BY <1>1, BackupIsLast
<1> QED BY <1>1, <1>2, CutsQuiet

\* After a break behind byte b.
LEMMA CutsBreak ==
  ASSUME IInv, CutInv, AtByte, NextByte, NEW b \in Nat, new_start <= b, b <= offset, BreakAfter(b),
         \A e \in offset + 1 .. DataEnd : b - new_start + 1 = RuleSize(file, new_start, e),
         \A y \in b + Tmin .. offset : KindOf(file, y) = "none"
  PROVE  CutInv'
<1>1. /\ is_var /\ Loaded /\ UNCHANGED readVars /\ pos = offset /\ pos' = offset + 1
      /\ offset \in Nat /\ offset + 1 <= DataEnd /\ DataEnd \in Nat /\ Tmin \in Nat
      /\ offset < b1_offset + nbytes
      /\ WindowIs(file, window', pc' = "slide", pos')
  BY CutsAtByte
<1>2. AddBreakpoint(b) /\ new_start' = b + 1 /\ backup_break' = 0
  BY DEF BreakAfter
<1>3. AllCut(file, log', offset + 1, DataEnd)
  <2>1. b < b1_offset + nbytes
    <3>1. b1_offset \in Nat /\ nbytes \in Nat
      BY ByteFacts
    <3> QED BY <1>1, <3>1
  <2>2. offset + 1 \in Nat /\ pos <= offset + 1
    BY <1>1
  <2> QED BY <1>1, <1>2, <2>1, <2>2, BlockLogged
<1>4. NoCutYet(file, b + 1, 0, offset + 1)
  BY <1>1 DEF NoCutYet
<1> QED BY <1>1, <1>2, <1>3, <1>4, CutStep

LEMMA CutsMain == IInv /\ CutInv /\ MainBreak => CutInv'
<1> SUFFICES ASSUME IInv, CutInv, MainBreak PROVE CutInv'
  OBVIOUS
<1>1. AtByte /\ NextByte /\ length >= Tmin /\ kind = "main" /\ BreakAfter(offset)
  BY DEF MainBreak
<1>2. /\ offset \in Nat /\ new_start \in Nat /\ new_start <= offset /\ offset - new_start < Tmax
      /\ Tmin \in Nat /\ Tmax \in Nat /\ Tmin > 1 /\ DataEnd \in Nat
      /\ kind = KindOf(file, offset)
      /\ \A z \in new_start + 1 .. offset : ~IsForced(z)
      /\ NoCutYet(file, new_start, backup_break, offset)
  BY <1>1, CutsAtByte
<1>3. ASSUME NEW e \in offset + 1 .. DataEnd
      PROVE  offset - new_start + 1 = RuleSize(file, new_start, e)
  <2> DEFINE n == offset - new_start + 1
  <2>1. /\ n \in Tmin .. Tmax /\ e \in Nat /\ new_start + n <= e
        /\ \A z \in new_start + 1 .. new_start + n - 1 : ~IsForced(z)
        /\ KindOf(file, new_start + n - 1) = "main"
        /\ \A y \in new_start + Tmin - 1 .. new_start + n - 2 : KindOf(file, y) # "main"
    <3>1. new_start + n - 1 = offset /\ new_start + n - 2 = offset - 1
      BY <1>2
    <3>2. n \in Tmin .. Tmax /\ e \in Nat /\ new_start + n <= e
      BY <1>1, <1>2, <1>3 DEF length
    <3> HIDE DEF n
    <3> QED BY <1>1, <1>2, <3>1, <3>2 DEF NoCutYet
  <2> HIDE DEF n
  <2>2. RuleSize(file, new_start, e) = n
    BY <1>2, <2>1, RuleMain
  <2> QED BY <2>2 DEF n
<1>4. \A y \in offset + Tmin .. offset : KindOf(file, y) = "none"
  BY <1>2
<1> QED BY <1>1, <1>2, <1>3, <1>4, CutsBreak

\* A block of Tmax bytes ends at its last backup breakpoint, or there.
LEMMA CutsAtMax ==
  ASSUME IInv, CutInv, AtMax, NextByte, BreakAfter(IF backup # 0 THEN backup ELSE offset)
  PROVE  CutInv'
<1>1. AtByte /\ length >= Tmin /\ kind # "main" /\ length >= Tmax
  BY DEF AtMax
<1>2. /\ offset \in Nat /\ new_start \in Nat /\ new_start <= offset /\ offset - new_start < Tmax
      /\ Tmin \in Nat /\ Tmax \in Nat /\ Tmin > 1 /\ Tmin <= Tmax /\ DataEnd \in Nat
      /\ kind = KindOf(file, offset) /\ backup_break \in Nat
      /\ backup_break # 0 => backup_break < offset
      /\ \A z \in new_start + 1 .. offset : ~IsForced(z)
  BY <1>1, CutsAtByte
<1>3. offset = new_start + Tmax - 1
  BY <1>1, <1>2 DEF length
<1>4. backup \in Nat /\ NoCutYet(file, new_start, backup, offset + 1)
  BY <1>1, BackupIsLast
<1>5. CASE backup # 0
  <2>1. backup <= offset
    BY <1>2, <1>5 DEF backup
  <2>2. /\ new_start + Tmin - 1 <= backup /\ KindOf(file, backup) = "backup"
        /\ \A y \in backup + 1 .. offset : KindOf(file, y) # "backup"
        /\ \A y \in new_start + Tmin - 1 .. offset : KindOf(file, y) # "main"
    BY <1>2, <1>4, <1>5 DEF NoCutYet
  <2>3. ASSUME NEW e \in offset + 1 .. DataEnd
        PROVE  backup - new_start + 1 = RuleSize(file, new_start, e)
    <3> DEFINE m == backup - new_start + 1
    <3>1. /\ m \in Tmin .. Tmax /\ new_start + m - 1 = backup /\ new_start + m = backup + 1
          /\ e \in Nat /\ new_start + Tmax <= e
      BY <1>2, <1>3, <1>4, <2>1, <2>2, <2>3
    <3> HIDE DEF m
    <3>2. RuleSize(file, new_start, e) = m
      BY <1>2, <1>3, <2>2, <3>1, RuleBackup
    <3> QED BY <3>2 DEF m
  <2>4. \A y \in backup + Tmin .. offset : KindOf(file, y) = "none"
    <3> SUFFICES ASSUME NEW y \in backup + Tmin .. offset PROVE KindOf(file, y) = "none"
      OBVIOUS
    <3>1. y \in backup + 1 .. offset /\ y \in new_start + Tmin - 1 .. offset
      BY <1>2, <1>4, <2>2
    <3>2. KindOf(file, y) # "backup" /\ KindOf(file, y) # "main"
      BY <2>2, <3>1
    <3>3. KindOf(file, y) \in Kinds
      <4>1. Covered(file, y) \in Windows
        <5>1. TypeOK /\ offset + 1 <= DataEnd /\ total_bytes <= Len(file) /\ Len(file) \in Nat
          BY <1>1, CutsAtByte, FileByte DEF IInv, ReadProgress
        <5>2. y < Len(file) /\ y \in Nat
          BY <1>2, <1>4, <5>1 DEF DataEnd, TypeOK
        <5> QED BY <5>1, <5>2, CoveredType
      <4> QED BY <4>1, FingerprintAssumption DEF KindOf
    <3> QED BY <3>2, <3>3 DEF Kinds
  <2>5. new_start <= backup /\ BreakAfter(backup)
    BY <1>2, <1>4, <1>5, <2>2
  <2> QED BY <1>1, <1>4, <2>1, <2>3, <2>4, <2>5, CutsBreak
<1>6. CASE backup = 0
  <2>1. /\ \A y \in new_start + Tmin - 1 .. offset : KindOf(file, y) # "backup"
        /\ \A y \in new_start + Tmin - 1 .. offset : KindOf(file, y) # "main"
    BY <1>2, <1>4, <1>6 DEF NoCutYet
  <2>2. ASSUME NEW e \in offset + 1 .. DataEnd
        PROVE  offset - new_start + 1 = RuleSize(file, new_start, e)
    <3>1. e \in Nat /\ new_start + Tmax <= e /\ Tmax \in 1 .. Tmax
      BY <1>2, <1>3, <2>2
    <3>2. RuleSize(file, new_start, e) = Tmax
      BY <1>2, <1>3, <2>1, <3>1, RuleLimit
    <3> QED BY <1>2, <1>3, <3>2
  <2>3. \A y \in offset + Tmin .. offset : KindOf(file, y) = "none"
    BY <1>2
  <2> QED BY <1>1, <1>2, <1>6, <2>2, <2>3, CutsBreak
<1> QED BY <1>5, <1>6

LEMMA CutsEnd == IInv /\ CutInv /\ EndOfVarBuffer => CutInv'
<1> SUFFICES ASSUME IInv, CutInv, EndOfVarBuffer PROVE CutInv'
  OBVIOUS
<1>1. /\ is_var /\ pc = "scan" /\ p >= nbytes /\ UNCHANGED readVars
      /\ b1_offset' = b1_offset + nbytes
      /\ pc' = IF eof THEN "done" ELSE "load"
      /\ new_start' = new_start /\ backup_break' = backup_break /\ window' = window
  BY DEF EndOfVarBuffer, EndOfBuffer, AfterBuffer
<1>2. /\ TypeOK /\ total_bytes = b1_offset + nbytes /\ total_bytes <= Len(file)
      /\ nbytes > 0 /\ p <= nbytes
      /\ new_start <= b1_offset + p /\ b1_offset + p - new_start < Tmax
      /\ pos = b1_offset + p /\ NoBoundaryInside(new_start, pos)
  BY <1>1, VarScanFacts
<1>3. /\ new_start \in Nat /\ b1_offset \in Nat /\ p \in Nat /\ nbytes \in Nat
      /\ Tmax \in Nat /\ Tmin \in Nat /\ Tmin > 1 /\ total_bytes \in Nat /\ Len(file) \in Nat
  BY <1>2, Numbers, FileByte
<1>4. pos = total_bytes /\ pos' = pos
  BY <1>1, <1>2, <1>3 DEF pos
<1>5. /\ pos <= DataEnd /\ DataEnd \in Nat /\ AllCut(file, log, pos, DataEnd)
      /\ NoCutYet(file, new_start, backup_break, pos) /\ WindowIs(file, window, FALSE, pos)
  <2>1. WindowIs(file, window, pc = "slide", pos) /\ (pc = "slide") = FALSE
    BY <1>1 DEF CutInv
  <2> QED BY <1>1, <1>3, <2>1 DEF CutInv, DataEnd
<1>6. AllCut(file, log', pos, DataEnd)
  <2>1. CASE eof /\ new_start < nbytes + b1_offset
    <3> DEFINE n == pos - new_start
               to == nbytes + b1_offset - 1
    <3>1. /\ n \in 1 .. Tmax /\ n # Tmax /\ new_start + n = pos
          /\ \A z \in new_start + 1 .. new_start + n - 1 : ~IsForced(z)
          /\ \A y \in new_start + Tmin - 1 .. new_start + n - 1 : KindOf(file, y) # "main"
      BY <1>1, <1>2, <1>3, <1>4, <1>5, <2>1, ForcedIsBoundary DEF NoCutYet, NoBoundaryInside
    <3>2. ASSUME NEW e \in pos .. DataEnd PROVE RuleSize(file, new_start, e) = n
      <4>1. e \in Nat /\ new_start + n = e
        BY <1>3, <1>4, <2>1, <3>1, <3>2 DEF DataEnd
      <4>2. new_start + n <= e
        BY <4>1
      <4> HIDE DEF n
      <4> QED BY <1>3, <3>1, <4>1, <4>2, RuleLimit
    <3>3. to \in Nat /\ new_start <= to /\ to < b1_offset + nbytes /\ to - new_start + 1 = n
      BY <1>2, <1>3, <1>4, <2>1
    <3>4. AddBreakpoint(to)
      BY <2>1 DEF EndOfVarBuffer
    <3>5. pos \in Nat /\ pos <= pos
      BY <1>3, <1>4
    <3> HIDE DEF n, to
    <3> QED BY <1>1, <1>5, <3>2, <3>3, <3>4, <3>5, BlockLogged
  <2>2. CASE ~(eof /\ new_start < nbytes + b1_offset)
    BY <1>5, <2>2 DEF EndOfVarBuffer, outVars
  <2> QED BY <2>1, <2>2
<1>7. (pc' = "slide") = FALSE
  BY <1>1
<1>8. WindowIs(file, window', pc' = "slide", pos')
  BY <1>1, <1>4, <1>5, <1>7
<1> QED BY <1>1, <1>4, <1>5, <1>6, <1>8, CutStep

LEMMA CutsKept == IInv /\ CutInv /\ [Next]_vars => CutInv'
<1> SUFFICES ASSUME IInv, CutInv, [Next]_vars, is_var PROVE CutInv'
  BY ScannerStays DEF CutInv
<1>1. CASE LoadData
  BY <1>1, CutsLoad
<1>2. CASE EnforceBoundary
  BY <1>2, CutsBoundary
<1>3. CASE BelowMin
  BY <1>3, CutsBelowMin
<1>4. CASE MainBreak
  BY <1>4, CutsMain
<1>5. CASE NoBreak
  BY <1>5, CutsNoBreak
<1>6. CASE BackupBreak
  BY <1>6, CutsAtMax DEF BackupBreak
<1>7. CASE HardBreak
  BY <1>7, CutsAtMax DEF HardBreak
<1>8. CASE EndOfVarBuffer
  BY <1>8, CutsEnd
<1>9. CASE FixBlock \/ EndOfFixBuffer
  BY <1>9 DEF FixBlock, EndOfFixBuffer
<1>10. CASE UNCHANGED vars
  BY <1>10 DEF CutInv, vars, readVars, outVars, cutVars, DataEnd, pos, offset
<1> QED
  BY <1>1, <1>2, <1>3, <1>4, <1>5, <1>6, <1>7, <1>8, <1>9, <1>10 DEF Next, Done

\* varScan decides byte by byte and never looks back: every block it logs
\* ends where the rule of the two thresholds and the two divisors says,
\* whatever the reads return and wherever the data ends.
THEOREM CutsFollowTheRule == Spec => []CutsAreTTTD
<1>1. IInv /\ CutInv => CutsAreTTTD
  <2> SUFFICES ASSUME IInv, CutInv, is_var, NEW k \in 1 .. Len(log)
               PROVE  log[k].size = BlockSize(log[k].offset)
    BY DEF CutsAreTTTD
  <2>1. TypeOK /\ Len(file) \in Nat
    BY FileByte DEF IInv
  <2>2. pos <= DataEnd /\ pos \in Nat /\ DataEnd \in Nat
    BY <2>1, Numbers DEF CutInv, DataEnd, pos, offset
  <2>3. log[k].size = RuleSize(file, log[k].offset, DataEnd)
    BY <2>2 DEF CutInv, AllCut
  <2> QED BY <2>3, BlockSizeIsRuleSize
<1>2. IInv /\ CutInv /\ [Next]_vars => IInv' /\ CutInv'
  BY ScanStep, CutsKept
<1>3. Init => IInv /\ CutInv
  BY InitHolds, CutsInit
<1> QED BY <1>1, <1>2, <1>3, PTL DEF Spec

-----------------------------------------------------------------------------
(* Every step advances *)

LEMMA RemainingIs ==
  ASSUME IInv
  PROVE  /\ InBufferLeft \in Nat /\ Len(file) - total_bytes \in Nat
         /\ pc = "done" => Remaining = 0
         /\ pc = "load" => Remaining = 1 + 4 * (Len(file) - total_bytes)
         /\ pc = "scan" => Remaining = 2 + 4 * (Len(file) - total_bytes) + 2 * InBufferLeft
         /\ pc = "slide" => Remaining = 1 + 4 * (Len(file) - total_bytes) + 2 * InBufferLeft
<1>1. TypeOK /\ total_bytes <= Len(file) /\ Len(file) \in Nat
  BY FileByte DEF IInv, ReadProgress
<1>2. InBufferLeft \in Nat /\ Len(file) - total_bytes \in Nat
  BY <1>1, Numbers DEF InBufferLeft
<1> QED BY <1>2 DEF Remaining

LEMMA AdvanceStep == IInv /\ IInv' /\ [Next]_vars => [Remaining' < Remaining]_vars
<1> SUFFICES ASSUME IInv, IInv', Next, vars' # vars PROVE Remaining' < Remaining
  OBVIOUS
<1> DEFINE left == Len(file) - total_bytes
<1>1. /\ InBufferLeft \in Nat /\ left \in Nat
      /\ pc = "done" => Remaining = 0
      /\ pc = "load" => Remaining = 1 + 4 * left
      /\ pc = "scan" => Remaining = 2 + 4 * left + 2 * InBufferLeft
      /\ pc = "slide" => Remaining = 1 + 4 * left + 2 * InBufferLeft
  BY RemainingIs
<1>2. /\ InBufferLeft' \in Nat /\ left' \in Nat
      /\ pc' = "done" => Remaining' = 0
      /\ pc' = "load" => Remaining' = 1 + 4 * left'
      /\ pc' = "scan" => Remaining' = 2 + 4 * left' + 2 * InBufferLeft'
      /\ pc' = "slide" => Remaining' = 1 + 4 * left' + 2 * InBufferLeft'
  <2>1. (IInv => /\ InBufferLeft \in Nat /\ left \in Nat
                 /\ pc = "done" => Remaining = 0
                 /\ pc = "load" => Remaining = 1 + 4 * left
                 /\ pc = "scan" => Remaining = 2 + 4 * left + 2 * InBufferLeft
                 /\ pc = "slide" => Remaining = 1 + 4 * left + 2 * InBufferLeft)'
    BY RemainingIs, PTL
  <2> QED BY <2>1
<1>3. TypeOK /\ nbytes \in Nat /\ p \in Nat /\ avg_size \in Nat /\ avg_size > 0
  BY Numbers, SizesAssumption DEF IInv
<1> HIDE DEF left
<1>4. CASE LoadData
  <2>1. PICK n \in ReadResults : /\ nbytes' = n /\ total_bytes' = total_bytes + n
                                 /\ pc' = AfterRead(n) /\ p' = 0 /\ file' = file /\ pc = "load"
    BY <1>4 DEF LoadData
  <2>2. n \in Nat /\ total_bytes \in Nat /\ Len(file) \in Nat
    BY <1>3, <2>1, Numbers, FileByte, SizesAssumption DEF ReadResults, IInv, ReadProgress
  <2>3. left' = left - n
    BY <2>1, <2>2 DEF left
  <2>4. InBufferLeft' = n
    BY <2>1, <2>2 DEF InBufferLeft
  <2>5. CASE n = 0
    BY <1>1, <1>2, <2>1, <2>5 DEF AfterRead
  <2>6. CASE n # 0
    BY <1>1, <1>2, <2>1, <2>2, <2>3, <2>4, <2>6 DEF AfterRead
  <2> QED BY <2>5, <2>6
<1>5. CASE EnforceBoundary
  <2>1. pc = "scan" /\ pc' = "slide" /\ UNCHANGED <<file, total_bytes, nbytes, p>>
    BY <1>5 DEF EnforceBoundary, readVars
  <2>2. left' = left /\ InBufferLeft' = InBufferLeft
    BY <2>1 DEF left, InBufferLeft
  <2> QED BY <1>1, <1>2, <2>1, <2>2
<1>6. CASE BelowMin \/ MainBreak \/ NoBreak \/ BackupBreak \/ HardBreak
  <2>1. /\ pc \in {"scan", "slide"} /\ pc' = "scan" /\ p < nbytes /\ p' = p + 1
        /\ UNCHANGED <<file, total_bytes, nbytes>>
    BY <1>6 DEF BelowMin, MainBreak, NoBreak, BackupBreak, HardBreak, AtMax, AtByte, NextByte, readVars
  <2>2. left' = left /\ InBufferLeft' = InBufferLeft - 1
    BY <1>3, <2>1 DEF left, InBufferLeft
  <2> QED BY <1>1, <1>2, <2>1, <2>2
<1>7. CASE EndOfVarBuffer \/ EndOfFixBuffer
  <2>1. pc = "scan" /\ pc' \in {"load", "done"} /\ UNCHANGED <<file, total_bytes>>
    BY <1>7 DEF EndOfVarBuffer, EndOfFixBuffer, EndOfBuffer, AfterBuffer, readVars
  <2>2. left' = left
    BY <2>1 DEF left
  <2>3. CASE pc' = "load"
    BY <1>1, <1>2, <2>1, <2>2, <2>3
  <2>4. CASE pc' = "done"
    BY <1>1, <1>2, <2>1, <2>4
  <2> QED BY <2>1, <2>3, <2>4
<1>8. CASE FixBlock
  <2>1. pc = "scan" /\ pc' = "scan" /\ p < nbytes /\ p' = p + avg_size /\ UNCHANGED <<file, total_bytes, nbytes>>
    BY <1>8 DEF FixBlock, readVars
  <2>2. left' = left /\ InBufferLeft' < InBufferLeft
    BY <1>3, <2>1 DEF left, InBufferLeft
  <2>3. Remaining = 2 + 4 * left + 2 * InBufferLeft /\ Remaining' = 2 + 4 * left + 2 * InBufferLeft'
    BY <1>1, <1>2, <2>1, <2>2
  <2>4. \A r, i, j \in Nat : i < j => 2 + 4 * r + 2 * i < 2 + 4 * r + 2 * j
    OBVIOUS
  <2>5. left \in Nat /\ InBufferLeft \in Nat /\ InBufferLeft' \in Nat
    BY <1>1, <1>2
  <2> QED BY <2>2, <2>3, <2>4, <2>5
<1>9. CASE Done
  BY <1>9 DEF Done
<1> QED
  BY <1>4, <1>5, <1>6, <1>7, <1>8, <1>9 DEF Next

\* The scan of a file of n bytes begins with 4 * n + 1 steps to do at most,
\* and each leaves less, in both modes, whatever reads return and wherever
\* the data ends: no loop of scan, varScan or fixScan goes on for ever.
THEOREM ScanAdvances ==
  Spec => Remaining = 1 + 4 * Len(file) /\ [](Remaining \in Nat) /\ EveryStepAdvances
<1>1. IInv => Remaining \in Nat
  <2> SUFFICES ASSUME IInv PROVE Remaining \in Nat
    OBVIOUS
  <2>1. pc \in {"load", "scan", "slide", "done"}
    BY DEF IInv, TypeOK
  <2> QED BY <2>1, RemainingIs
<1>2. Init => Remaining = 1 + 4 * Len(file)
  <2> SUFFICES ASSUME Init PROVE Remaining = 1 + 4 * Len(file)
    OBVIOUS
  <2>1. IInv
    BY InitHolds
  <2>2. pc = "load" /\ total_bytes = 0 /\ Len(file) \in Nat
    BY <2>1, FileByte DEF Init, IInv
  <2> QED BY <2>1, <2>2, RemainingIs
<1> QED BY <1>1, <1>2, AdvanceStep, Invariance, PTL DEF Spec, EveryStepAdvances

-----------------------------------------------------------------------------
(* Rabin: polynomials *)

Polynomial == SUBSET Nat

LEMMA XorIn == \A a, b, e : e \in Xor(a, b) <=> ((e \in a) # (e \in b))
BY DEF Xor, SymDiff

LEMMA SameExponents ==
  ASSUME NEW a, NEW b, a \subseteq Int, b \subseteq Int, \A e \in Int : e \in a <=> e \in b
  PROVE  a = b
OBVIOUS

LEMMA TimesIn ==
  ASSUME NEW a \in Polynomial, NEW n \in Nat
  PROVE  \A e \in Int : e \in Times(a, n) <=> e - n \in a
BY DEF Times, Polynomial

LEMMA TimesType ==
  ASSUME NEW a \in Polynomial, NEW n \in Nat
  PROVE  Times(a, n) \in Polynomial
BY DEF Times, Polynomial

LEMMA XorType ==
  ASSUME NEW a \in Polynomial, NEW b \in Polynomial
  PROVE  Xor(a, b) \in Polynomial
BY DEF Xor, SymDiff, Polynomial

LEMMA TimesTwice ==
  ASSUME NEW a \in Polynomial, NEW m \in Nat, NEW n \in Nat
  PROVE  Times(Times(a, m), n) = Times(a, m + n)
<1>1. Times(Times(a, m), n) \subseteq Int /\ Times(a, m + n) \subseteq Int
  BY TimesType DEF Polynomial
<1>2. \A e \in Int : e \in Times(Times(a, m), n) <=> e - n \in Times(a, m)
  BY TimesType, TimesIn
<1>3. \A e \in Int : e \in Times(a, m) <=> e - m \in a
  BY TimesIn
<1>4. \A e \in Int : e \in Times(a, m + n) <=> e - (m + n) \in a
  BY TimesIn
<1>5. \A e \in Int : e - n \in Int /\ (e - n) - m = e - (m + n)
  OBVIOUS
<1>6. \A e \in Int : e \in Times(Times(a, m), n) <=> e \in Times(a, m + n)
  BY <1>2, <1>3, <1>4, <1>5
<1> QED BY <1>1, <1>6, SameExponents

LEMMA TimesZero ==
  ASSUME NEW a \in Polynomial
  PROVE  Times(a, 0) = a
<1>1. \A e \in Int : e \in Times(a, 0) <=> e - 0 \in a
  BY TimesIn
<1>2. Times(a, 0) \subseteq Int /\ a \subseteq Int
  BY TimesType DEF Polynomial
<1>3. \A e \in Int : e \in Times(a, 0) <=> e \in a
  BY <1>1
<1> QED BY <1>2, <1>3, SameExponents

\* A shift distributes over xor.
LEMMA TimesXor ==
  ASSUME NEW a \in Polynomial, NEW b \in Polynomial, NEW n \in Nat
  PROVE  Times(Xor(a, b), n) = Xor(Times(a, n), Times(b, n))
<1>1. Times(Xor(a, b), n) \subseteq Int /\ Xor(Times(a, n), Times(b, n)) \subseteq Int
  BY TimesType, XorType DEF Polynomial
<1>2. \A e \in Int : e \in Times(Xor(a, b), n) <=> e - n \in Xor(a, b)
  BY XorType, TimesIn
<1>3. \A e \in Int : e \in Xor(Times(a, n), Times(b, n)) <=> ((e - n \in a) # (e - n \in b))
  BY TimesIn, XorIn
<1>4. \A e \in Int : e \in Times(Xor(a, b), n) <=> e \in Xor(Times(a, n), Times(b, n))
  BY <1>2, <1>3, XorIn
<1> QED BY <1>1, <1>4, SameExponents

LEMMA XorSelf == \A a : Xor(a, a) = {}
BY DEF Xor, SymDiff

\* What one has in common with the next falls out.
LEMMA XorChain ==
  ASSUME NEW a, NEW b, NEW c
  PROVE  Xor(Xor(a, b), Xor(b, c)) = Xor(a, c)
BY DEF Xor, SymDiff

-----------------------------------------------------------------------------
(* Multiples of poly *)

IsIdeal(I) ==
  /\ I \subseteq Polynomial
  /\ {} \in I
  /\ poly \in I
  /\ \A a, b \in I : Xor(a, b) \in I
  /\ \A a \in I, n \in Nat : Times(a, n) \in I

CongruentIn(I, a, b) == Xor(a, b) \in I

LEMMA WordsArePolynomials ==
  ASSUME RabinTypeOK
  PROVE  /\ Octet \subseteq Polynomial /\ Residue \subseteq Polynomial /\ poly \in Polynomial
         /\ OldShifts \in Nat /\ TopByte \in Nat
BY WordsAssumption, PolynomialsAssumption
   DEF RabinTypeOK, Octet, Residue, Word, Polynomial, OldShifts, TopByte

LEMMA TableIsRight ==
  ASSUME RabinTypeOK, Normalized, NEW a \in Residue
  PROVE  /\ ShiftAndReduce(a) \in Residue
         /\ \/ ShiftAndReduce(a) = Times(a, 1)
            \/ ShiftAndReduce(a) = Xor(Times(a, 1), poly)
<1>1. ShiftLeft(a, 1) = Times(a, 1)
  BY WordsAssumption DEF ShiftLeft, Times, Residue
<1>2. Times(a, 1) \in Word
  BY WordsAssumption DEF Times, Residue, Word
<1>3. poly \in Word /\ Degree \in poly
  BY PolynomialsAssumption DEF RabinTypeOK, Normalized
<1>4. Degree \notin Times(a, 1) => Times(a, 1) \in Residue
  BY <1>2, WordsAssumption DEF Word, Residue
<1>5. Degree \in Times(a, 1) => Xor(Times(a, 1), poly) \in Residue
  <2> SUFFICES ASSUME Degree \in Times(a, 1), NEW e \in Xor(Times(a, 1), poly)
                PROVE  e \in 0 .. Degree - 1
    BY DEF Residue
  <2>0. e \in Times(a, 1) \/ e \in poly
    BY XorIn
  <2>1. e \in 0 .. Degree
    BY <2>0, <1>2, <1>3 DEF Word
  <2>2. e # Degree
    BY <1>3, XorIn
  <2> QED BY <2>1, <2>2, WordsAssumption
<1> QED BY <1>1, <1>4, <1>5 DEF ShiftAndReduce

\* One shift of the word stands for one shift of the polynomial.
LEMMA ShiftStaysCongruent ==
  ASSUME RabinTypeOK, Normalized, NEW I, IsIdeal(I),
         NEW a \in Residue, NEW b \in Polynomial, NEW n \in Nat,
         CongruentIn(I, a, Times(b, n))
  PROVE  CongruentIn(I, ShiftAndReduce(a), Times(b, n + 1))
<1>1. a \in Polynomial /\ Times(b, n) \in Polynomial /\ poly \in Polynomial
  BY WordsArePolynomials, TimesType
<1>2. Times(Xor(a, Times(b, n)), 1) = Xor(Times(a, 1), Times(b, n + 1))
  BY <1>1, TimesXor, TimesTwice
<1>3. Xor(Times(a, 1), Times(b, n + 1)) \in I
  BY <1>2 DEF IsIdeal, CongruentIn
<1>4. CASE ShiftAndReduce(a) = Times(a, 1)
  BY <1>3, <1>4 DEF CongruentIn
<1>5. CASE ShiftAndReduce(a) = Xor(Times(a, 1), poly)
  <2>1. Xor(Xor(Times(a, 1), Times(b, n + 1)), poly) = Xor(Xor(Times(a, 1), poly), Times(b, n + 1))
    BY DEF Xor, SymDiff
  <2> QED BY <1>3, <1>5, <2>1 DEF IsIdeal, CongruentIn
<1> QED BY <1>4, <1>5, TableIsRight

-----------------------------------------------------------------------------
(* The circular buffer *)

LEMMA NextPlaceType ==
  ASSUME NEW n \in Places
  PROVE  NextPlace(n) \in Places /\ NextPlace(n) = (IF n = 0 THEN size - 1 ELSE n - 1)
BY WordsAssumption DEF NextPlace, Places

PlaceOf(k) == IF bufptr - (k - 1) < 0 THEN bufptr - (k - 1) + size ELSE bufptr - (k - 1)

LEMMA WindowType ==
  ASSUME RabinTypeOK
  PROVE  /\ Window = [k \in 1 .. size |-> buf[PlaceOf(k)]]
         /\ \A k \in 1 .. size : PlaceOf(k) \in Places /\ Window[k] \in Octet
         /\ Window[1] = buf[bufptr]
<1>1. Window = [k \in 1 .. size |-> buf[PlaceOf(k)]]
  BY DEF Window, PlaceOf
<1>2. \A k \in 1 .. size : PlaceOf(k) \in Places
  BY WordsAssumption DEF PlaceOf, RabinTypeOK, Places
<1>3. 1 \in 1 .. size /\ PlaceOf(1) = bufptr
  BY WordsAssumption DEF PlaceOf, RabinTypeOK, Places
<1> QED BY <1>1, <1>2, <1>3 DEF RabinTypeOK

\* A byte that is taken in is the newest, and each of the others is one
\* older: the pointer and the buffer together slide the window.
LEMMA RabinWindowSlides ==
  ASSUME RabinTypeOK, RabinTypeOK', NEW m \in Octet, rabin_slide8(m)
  PROVE  /\ \A k \in 1 .. size - 1 : Window'[k] = Window[k + 1]
         /\ Window'[size] = m
<1>1. bufptr' = (IF bufptr = 0 THEN size - 1 ELSE bufptr - 1) /\ bufptr \in Places
  BY NextPlaceType DEF rabin_slide8, RabinTypeOK
<1>2. buf' = [buf EXCEPT ![bufptr] = m] /\ buf \in [Places -> Octet]
  BY DEF rabin_slide8, RabinTypeOK
<1>3. Window' = [k \in 1 .. size |-> buf'[PlaceOf(k)']]
  BY DEF Window, PlaceOf
<1>4. ASSUME NEW k \in 1 .. size - 1
      PROVE  Window'[k] = Window[k + 1]
  <2>1. k \in 1 .. size /\ k + 1 \in 1 .. size
    BY WordsAssumption
  <2>2. PlaceOf(k)' = PlaceOf(k + 1) /\ PlaceOf(k + 1) # bufptr
    BY <1>1, WordsAssumption DEF PlaceOf, Places
  <2>3. PlaceOf(k + 1) \in Places /\ Window[k + 1] = buf[PlaceOf(k + 1)]
    BY <2>1, WindowType
  <2> QED BY <1>2, <1>3, <2>1, <2>2, <2>3
<1>5. Window'[size] = m
  <2>1. size \in 1 .. size
    BY WordsAssumption
  <2>2. PlaceOf(size)' = bufptr
    BY <1>1, WordsAssumption DEF PlaceOf, Places
  <2> QED BY <1>1, <1>2, <1>3, <2>1, <2>2
<1> QED BY <1>4, <1>5

-----------------------------------------------------------------------------
(* The polynomial of the window *)

LEMMA WindowIn ==
  ASSUME NEW w
  PROVE  \A e : e \in WindowPolynomial(w)
                  <=> \E k \in 1 .. size : e \in Times(w[k], Bits * (size - k))
BY DEF WindowPolynomial

\* Bytes do not overlap.
LEMMA BytesApart ==
  ASSUME NEW k \in 1 .. size
  PROVE  /\ Bits * (size - k) \in Nat
         /\ Bits * (size - k) + Bits = Bits * (size - (k - 1))
         /\ k > 1 => Bits * (size - (k - 1)) <= OldShifts - Bits
         /\ Bits * (size - 1) + Bits = OldShifts
<1>1. Bits \in Nat /\ size \in Nat /\ k \in Nat /\ size - k \in Nat /\ k - 1 \in Nat
  BY WordsAssumption
<1>2. \A x, y \in Nat : x * y \in Nat
  OBVIOUS
<1>3. Bits * (size - k) \in Nat
  BY <1>1, <1>2
<1>4. Bits * (size - (k - 1)) = Bits * (size - k) + Bits
  BY <1>1
<1>5. Bits * (size - 1) + Bits = Bits * size /\ Bits * size = OldShifts
  BY <1>1 DEF OldShifts
<1>6. k > 1 => Bits * (size - (k - 1)) <= OldShifts - Bits
  <2> SUFFICES ASSUME k > 1 PROVE Bits * (size - (k - 1)) <= OldShifts - Bits
    OBVIOUS
  <2>1. Bits * (k - 2) \in Nat
    BY <1>1, <1>2
  <2>2. Bits * (size - (k - 1)) = Bits * size - Bits - Bits * (k - 2)
    BY <1>1
  <2>3. Bits * size \in Nat
    BY <1>1, <1>2
  <2> QED BY <1>1, <1>5, <2>1, <2>2, <2>3
<1> QED BY <1>3, <1>4, <1>5, <1>6

\* The exponents of the bytes that stay, before or after the window slides.
Staying(w) == {e \in Int : \E k \in 2 .. size : e - Bits * (size - (k - 1)) \in w[k]}

IsWindow(w) == \A k \in 1 .. size : w[k] \in Octet

LEMMA StayingIsBetween ==
  ASSUME NEW w, IsWindow(w), NEW e \in Staying(w)
  PROVE  Bits <= e /\ e < OldShifts
<1>1. PICK k \in 2 .. size : e - Bits * (size - (k - 1)) \in w[k]
  BY DEF Staying
<1>2. k \in 1 .. size /\ k > 1
  OBVIOUS
<1>3. e - Bits * (size - (k - 1)) \in 0 .. Bits - 1
  BY <1>1, <1>2 DEF IsWindow, Octet
<1>4. e \in Int /\ Bits \in Nat /\ OldShifts \in Int
  BY WordsAssumption DEF Staying, OldShifts
<1> DEFINE x == Bits * (size - (k - 1))
<1>5. Bits * (size - k) \in Nat /\ x = Bits * (size - k) + Bits /\ x <= OldShifts - Bits
  BY <1>2, BytesApart
<1>6. x \in Int /\ x >= Bits
  BY <1>4, <1>5
<1>7. e - x \in 0 .. Bits - 1
  BY <1>3
<1> HIDE DEF x
<1>8. x <= OldShifts - Bits
  BY <1>5
<1> QED BY <1>4, <1>6, <1>7, <1>8

LEMMA PolynomialSlides ==
  ASSUME NEW w, IsWindow(w), NEW v, NEW m \in Octet,
         \A k \in 1 .. size - 1 : v[k] = w[k + 1], v[size] = m
  PROVE  WindowPolynomial(v)
           = Xor(Xor(Times(WindowPolynomial(w), Bits), m), Times(w[1], OldShifts))
<1> DEFINE Gone == Times(w[1], OldShifts)
           Shifted == Times(WindowPolynomial(w), Bits)
<1>1. Bits \in Nat \ {0} /\ size \in Nat \ {0} /\ 1 \in 1 .. size /\ size \in 1 .. size
  BY WordsAssumption
<1>2. OldShifts \in Nat /\ Bits <= OldShifts
  BY <1>1, BytesApart
<1>3. Octet \subseteq Polynomial
  BY DEF Octet, Polynomial
<1>4. \A k \in 1 .. size : w[k] \in Polynomial /\ v[k] \in Polynomial
  <2> SUFFICES ASSUME NEW k \in 1 .. size
               PROVE  w[k] \in Polynomial /\ v[k] \in Polynomial
    OBVIOUS
  <2>1. w[k] \in Polynomial
    BY <1>3 DEF IsWindow
  <2>2. CASE k = size
    BY <2>1, <2>2, <1>3
  <2>3. CASE k # size
    <3>1. k \in 1 .. size - 1 /\ k + 1 \in 1 .. size
      BY <2>3, <1>1
    <3> QED BY <2>1, <3>1, <1>3 DEF IsWindow
  <2> QED BY <2>2, <2>3
<1>5. \A u : (\A k \in 1 .. size : u[k] \in Polynomial) =>
        /\ WindowPolynomial(u) \in Polynomial
        /\ \A e \in Int : e \in WindowPolynomial(u)
                            <=> \E k \in 1 .. size : e - Bits * (size - k) \in u[k]
  <2> SUFFICES ASSUME NEW u, \A k \in 1 .. size : u[k] \in Polynomial
               PROVE  /\ WindowPolynomial(u) \in Polynomial
                      /\ \A e \in Int : e \in WindowPolynomial(u)
                            <=> \E k \in 1 .. size : e - Bits * (size - k) \in u[k]
    OBVIOUS
  <2>1. \A k \in 1 .. size :
          /\ Times(u[k], Bits * (size - k)) \in Polynomial
          /\ \A e \in Int : e \in Times(u[k], Bits * (size - k)) <=> e - Bits * (size - k) \in u[k]
    BY BytesApart, TimesIn, TimesType
  <2>2. WindowPolynomial(u) \in Polynomial
    BY <2>1, WindowIn DEF Polynomial
  <2> QED BY <2>1, <2>2, WindowIn
<1>6. ASSUME NEW e \in Int
      PROVE  e \in WindowPolynomial(v) <=> (e \in m \/ e \in Staying(w))
  <2>1. \A k \in 1 .. size - 1 :
          /\ k + 1 \in 2 .. size
          /\ size - k = size - ((k + 1) - 1)
    BY <1>1
  <2>2. \A k \in 2 .. size : k - 1 \in 1 .. size - 1 /\ (k - 1) + 1 = k
    BY <1>1
  <2>3. e \in Staying(w) <=> \E k \in 1 .. size - 1 : e - Bits * (size - k) \in v[k]
    BY <2>1, <2>2 DEF Staying
  <2>4. e - Bits * (size - size) = e
    BY <1>1
  <2>5. \A k : k \in 1 .. size <=> k \in 1 .. size - 1 \/ k = size
    BY <1>1
  <2> QED BY <1>4, <1>5, <2>3, <2>4, <2>5
<1>7. ASSUME NEW e \in Int
      PROVE  e \in Shifted <=> (e \in Gone \/ e \in Staying(w))
  <2>1. e \in Shifted <=> e - Bits \in WindowPolynomial(w)
    BY <1>1, <1>4, <1>5, TimesIn
  <2>2. e - Bits \in Int
    BY <1>1
  <2>3. e - Bits \in WindowPolynomial(w)
          <=> \E k \in 1 .. size : (e - Bits) - Bits * (size - k) \in w[k]
    BY <2>2, <1>4, <1>5
  <2>4. \A k \in 1 .. size : (e - Bits) - Bits * (size - k) = e - Bits * (size - (k - 1))
    <3> SUFFICES ASSUME NEW k \in 1 .. size
                 PROVE  (e - Bits) - Bits * (size - k) = e - Bits * (size - (k - 1))
      OBVIOUS
    <3>1. Bits * (size - k) \in Nat /\ Bits * (size - k) + Bits = Bits * (size - (k - 1))
      BY BytesApart
    <3> QED BY <3>1, <1>1
  <2>5. e \in Gone <=> e - Bits * (size - (1 - 1)) \in w[1]
    <3>1. Bits * (size - (1 - 1)) = OldShifts
      BY <1>1 DEF OldShifts
    <3> QED BY <3>1, <1>1, <1>2, <1>4, TimesIn
  <2>6. \A k : k \in 1 .. size <=> k = 1 \/ k \in 2 .. size
    BY <1>1
  <2> QED BY <2>1, <2>3, <2>4, <2>5, <2>6 DEF Staying
<1>8. ASSUME NEW e \in Int
      PROVE  /\ ~(e \in m /\ e \in Staying(w))
             /\ ~(e \in m /\ e \in Gone)
             /\ ~(e \in Gone /\ e \in Staying(w))
  <2>1. e \in m => e < Bits
    BY <1>1 DEF Octet
  <2>2. e \in Staying(w) => Bits <= e /\ e < OldShifts
    BY StayingIsBetween
  <2>3. e \in Gone => e - OldShifts \in Nat
    BY <1>1, <1>2, <1>4, TimesIn DEF Polynomial
  <2>4. e \in Gone => e >= OldShifts
    BY <2>3, <1>2
  <2> QED BY <2>1, <2>2, <2>4, <1>1, <1>2
<1>9. /\ WindowPolynomial(v) \in Polynomial /\ Shifted \in Polynomial
      /\ m \in Polynomial /\ Gone \in Polynomial
  BY <1>1, <1>2, <1>3, <1>4, <1>5, TimesType
<1>10. Xor(Xor(Shifted, m), Gone) \in Polynomial
  BY <1>9, XorType
<1>11. \A e \in Int : e \in WindowPolynomial(v) <=> e \in Xor(Xor(Shifted, m), Gone)
  BY <1>6, <1>7, <1>8, XorIn
<1>12. WindowPolynomial(v) \subseteq Int /\ Xor(Xor(Shifted, m), Gone) \subseteq Int
  BY <1>9, <1>10 DEF Polynomial
<1> QED BY <1>11, <1>12, SameExponents

-----------------------------------------------------------------------------
(* The update *)

\* The bits that stay in the word when it is shifted by a byte.
Low(a) == {e \in a : e < TopByte}

\* The new fingerprint is one shift by a byte, the byte, and the two entries.
LEMMA UpdateIsXor ==
  ASSUME RabinTypeOK, Ready, IndicesInRange, NEW m \in Octet, rabin_slide8(m)
  PROVE  LET old == old_ringing[buf[bufptr]]
             new == new_ringing[TopBits]
         IN  /\ old \in Residue /\ new \in Residue /\ fingerprint' \in Residue
             /\ Times(fingerprint, Bits) = Xor(Times(Low(fingerprint), Bits), Times(TopBits, Degree))
             /\ fingerprint' = Xor(Xor(Times(Low(fingerprint), Bits), m), Xor(old, new))
<1> DEFINE old == old_ringing[buf[bufptr]]
           new == new_ringing[TopBits]
           low == Times(Low(fingerprint), Bits)
<1>1. /\ Bits \in Nat \ {0} /\ Degree \in Nat /\ Bits <= Degree /\ TopByte \in Nat
      /\ Degree = TopByte + Bits
  BY WordsAssumption DEF TopByte
<1>2. old \in Residue /\ new \in Residue
  BY DEF IndicesInRange, RabinTypeOK
<1>3. fingerprint \in Polynomial /\ fingerprint \in Residue /\ Low(fingerprint) \in Polynomial
      /\ TopBits \in Polynomial
  <2>1. fingerprint \in Polynomial /\ fingerprint \in Residue
    BY WordsArePolynomials DEF RabinTypeOK
  <2>2. TopBits \in Polynomial
    BY WordsArePolynomials DEF IndicesInRange
  <2> QED BY <2>1, <2>2 DEF Low, Polynomial
<1>4. \A e \in Int : e \in Times(TopBits, Degree) <=> e - Bits \in fingerprint /\ e - Bits >= TopByte
  <2> SUFFICES ASSUME NEW e \in Int
               PROVE  e \in Times(TopBits, Degree) <=> e - Bits \in fingerprint /\ e - Bits >= TopByte
    OBVIOUS
  <2>1. e \in Times(TopBits, Degree) <=> e - Degree \in TopBits
    BY <1>1, <1>3, TimesIn
  <2>2. e - Degree \in TopBits <=> \E x \in fingerprint : x >= TopByte /\ e - Degree = x - TopByte
    BY DEF TopBits, ShiftRight
  <2>3. \A x \in fingerprint : e - Degree = x - TopByte <=> x = e - Bits
    BY <1>1, <1>3 DEF Polynomial
  <2> QED BY <2>1, <2>2, <2>3
<1>5. \A e \in Int : e \in low <=> e - Bits \in fingerprint /\ e - Bits < TopByte
  BY <1>1, <1>3, TimesIn DEF Low
<1>6. \A e \in Int : e \in Times(fingerprint, Bits) <=> e - Bits \in fingerprint
  BY <1>1, <1>3, TimesIn
<1>7. low \subseteq Int /\ Times(TopBits, Degree) \subseteq Int /\ Times(fingerprint, Bits) \subseteq Int
  BY <1>1, <1>3, TimesType DEF Polynomial
<1>8. Times(fingerprint, Bits) = Xor(low, Times(TopBits, Degree))
  <2>1. \A e \in Int : e \in Times(fingerprint, Bits) <=> e \in Xor(low, Times(TopBits, Degree))
    BY <1>1, <1>4, <1>5, <1>6, XorIn
  <2>2. Xor(low, Times(TopBits, Degree)) \subseteq Int
    BY <1>7 DEF Xor, SymDiff
  <2> QED BY <1>7, <2>1, <2>2, SameExponents
<1>9. fingerprint' = Xor(ShiftLeft(fingerprint, Bits) \union m, Xor(old, new)) \ {Degree}
  BY DEF rabin_slide8, ClearMSB
<1>10. \A e : e \in ShiftLeft(fingerprint, Bits) <=> e \in low \/ (e = Degree /\ TopByte \in fingerprint)
  <2>1. \A e : e \in ShiftLeft(fingerprint, Bits) <=> e \in 0 .. Degree /\ e - Bits \in fingerprint
    BY <1>1, <1>6, <1>7 DEF ShiftLeft
  <2>2. \A e : e \in low => e \in 0 .. Degree
    <3>1. \A e \in low : e \in Int /\ e - Bits \in fingerprint /\ e - Bits < TopByte
      BY <1>5, <1>7
    <3> QED BY <3>1, <1>1, <1>3 DEF Residue
  <2>3. \A e \in 0 .. Degree : e - Bits < TopByte \/ e = Degree
    BY <1>1
  <2>4. Degree - Bits = TopByte /\ Degree \in 0 .. Degree /\ Degree \in Int
    BY <1>1
  <2> QED BY <1>5, <1>7, <2>1, <2>2, <2>3, <2>4
<1>11. /\ Degree \notin low /\ Degree \notin m /\ Degree \notin old /\ Degree \notin new
       /\ \A e : ~(e \in low /\ e \in m)
  <2>1. Degree \notin m /\ Degree \notin old /\ Degree \notin new
    BY <1>1, <1>2 DEF Octet, Residue
  <2>2. \A e \in low : e >= Bits /\ e # Degree
    <3>1. \A e \in low : e \in Int /\ e - Bits \in fingerprint /\ e - Bits < TopByte
      BY <1>5, <1>7
    <3> QED BY <3>1, <1>1, <1>3 DEF Polynomial
  <2>3. \A e \in m : e < Bits
    BY <1>1 DEF Octet
  <2>4. \A e : e \in low /\ e \in m => FALSE
    <3> SUFFICES ASSUME NEW e, e \in low, e \in m PROVE FALSE
      OBVIOUS
    <3>1. e \in Int
      BY <1>7
    <3> QED BY <2>2, <2>3, <3>1, <1>1
  <2> QED BY <2>1, <2>2, <2>4
<1>12. \A e : e \in fingerprint' <=> e \in Xor(Xor(low, m), Xor(old, new))
  BY <1>9, <1>10, <1>11, XorIn
<1>13. fingerprint' = Xor(Xor(low, m), Xor(old, new))
  <2> HIDE DEF old, new, low
  <2>1. \A a, b : (\A e : e \in Xor(a, b) <=> e \in a \ b \/ e \in b \ a)
    BY XorIn
  <2>2. fingerprint' = {e \in fingerprint' : TRUE}
    OBVIOUS
  <2> QED BY <1>12, <1>9 DEF Xor, SymDiff
<1>14. fingerprint' \in Residue
  <2>1. \A e : e \in low => e \in 0 .. Degree - 1
    <3>1. \A e \in low : e \in Int /\ e - Bits \in fingerprint /\ e - Bits < TopByte
      BY <1>5, <1>7
    <3> QED BY <3>1, <1>1, <1>3 DEF Residue
  <2>2. m \subseteq 0 .. Degree - 1
    BY <1>1 DEF Octet
  <2>3. old \subseteq 0 .. Degree - 1 /\ new \subseteq 0 .. Degree - 1
    BY <1>2 DEF Residue
  <2> QED BY <1>13, <2>1, <2>2, <2>3 DEF Xor, SymDiff, Residue
<1> QED BY <1>2, <1>8, <1>13, <1>14

-----------------------------------------------------------------------------
(* Rabin: the inductive invariant *)

\* The entries written are those the update needs.
TablesIn(I) ==
  /\ \A b \in DOMAIN old_ringing : CongruentIn(I, old_ringing[b], Times(b, OldShifts))
  /\ \A b \in DOMAIN new_ringing : CongruentIn(I, new_ringing[b], Times(b, Degree))

\* So is the entry at work, as far as it has been shifted.
EntryIn(I) ==
  /\ phase = "old" => shifts <= OldShifts /\ CongruentIn(I, ringing, Times(octet, shifts))
  /\ phase = "new" => shifts <= Bits /\ CongruentIn(I, ringing, Times(octet, TopByte + shifts))

FingerprintIn(I) == Ready => CongruentIn(I, fingerprint, WindowPolynomial(Window))

Filled ==
  /\ phase # "null" => Normalized
  /\ phase = "new" => DOMAIN old_ringing = Octet

RabinTypeInv == RabinTypeOK /\ Filled /\ IndicesInRange

LEMMA SetTable ==
  ASSUME NEW table, NEW b, NEW w
  PROVE  /\ DOMAIN Set(table, b, w) = DOMAIN table \union {b}
         /\ Set(table, b, w)[b] = w
         /\ \A c \in DOMAIN table : c # b => Set(table, b, w)[c] = table[c]
BY DEF Set

LEMMA SetTableType ==
  ASSUME NEW table, DOMAIN table \subseteq Octet, \A c \in DOMAIN table : table[c] \in Residue,
         NEW b \in Octet, NEW w \in Residue
  PROVE  /\ DOMAIN Set(table, b, w) \subseteq Octet
         /\ \A c \in DOMAIN Set(table, b, w) : Set(table, b, w)[c] \in Residue
BY DEF Set

LEMMA StartsAreResidues ==
  ASSUME NEW b \in Octet
  PROVE  b \in Residue /\ Times(b, TopByte) \in Residue
<1>1. TopByte \in Nat /\ Degree \in Nat /\ Bits \in Nat /\ TopByte + Bits = Degree
  BY WordsAssumption DEF TopByte
<1>2. b \subseteq 0 .. Bits - 1
  BY DEF Octet
<1>3. Times(b, TopByte) \subseteq 0 .. Degree - 1
  BY <1>1, <1>2 DEF Times
<1> QED BY <1>1, <1>2, <1>3 DEF Residue

LEMMA EmptyWord == {} \in Octet /\ {} \in Residue /\ 0 \in Places
BY WordsAssumption DEF Octet, Residue, Places

LEMMA RabinTypeInit == RabinInit => RabinTypeInv
<1> SUFFICES ASSUME RabinInit PROVE RabinTypeInv
  OBVIOUS
<1>1. RabinTypeOK
  BY EmptyWord DEF RabinInit, RabinTypeOK, Begun, NoEntries
<1>2. Filled /\ IndicesInRange
  BY DEF RabinInit, Begun, Filled, IndicesInRange, Ready
<1> QED BY <1>1, <1>2 DEF RabinTypeInv

LEMMA ResetType == ASSUME rabin_reset PROVE
  fingerprint' \in Residue /\ buf' \in [Places -> Octet] /\ bufptr' \in Places
BY EmptyWord DEF rabin_reset

LEMMA TopBitsType ==
  ASSUME fingerprint \in Residue PROVE TopBits \in Octet
<1>1. TopByte \in Nat /\ TopByte + Bits = Degree /\ Bits \in Nat /\ Degree \in Nat
  BY WordsAssumption DEF TopByte
<1>2. fingerprint \subseteq 0 .. Degree - 1
  BY DEF Residue
<1> QED BY <1>1, <1>2 DEF TopBits, ShiftRight, Octet

LEMMA RabinTypeStep == RabinTypeInv /\ [RabinNext]_rabinVars => RabinTypeInv'
<1> SUFFICES ASSUME RabinTypeInv, [RabinNext]_rabinVars PROVE RabinTypeInv'
  OBVIOUS
<1> USE DEF RabinTypeInv
<1>1. CASE Ring
  <2>1. RabinTypeOK'
    BY <1>1, TableIsRight DEF Ring, RabinTypeOK, Filled, slideVars, tableVars
  <2>2. Filled' /\ IndicesInRange'
    BY <1>1 DEF Ring, Filled, IndicesInRange, Ready, Normalized, slideVars, tableVars
  <2> QED BY <2>1, <2>2
<1>2. CASE StoreOld
  <2>1. /\ DOMAIN old_ringing' \subseteq Octet
        /\ \A b \in DOMAIN old_ringing' : old_ringing'[b] \in Residue
    BY <1>2, SetTableType DEF StoreOld, RabinTypeOK
  <2>2. octet' \in Octet /\ shifts' \in Nat /\ ringing' \in Residue
    BY <1>2, StartsAreResidues, EmptyWord DEF StoreOld, StartOld, StartNew
  <2>3. RabinTypeOK'
    BY <1>2, <2>1, <2>2 DEF StoreOld, RabinTypeOK, slideVars
  <2>4. Filled' /\ IndicesInRange'
    BY <1>2 DEF StoreOld, Filled, IndicesInRange, Ready, Normalized
  <2> QED BY <2>3, <2>4
<1>3. CASE StoreNew
  <2>1. /\ DOMAIN new_ringing' \subseteq Octet
        /\ \A b \in DOMAIN new_ringing' : new_ringing'[b] \in Residue
    BY <1>3, SetTableType DEF StoreNew, RabinTypeOK
  <2>2. octet' \in Octet /\ shifts' \in Nat /\ ringing' \in Residue
    BY <1>3, StartsAreResidues DEF StoreNew, StartNew, RabinTypeOK, loopVars
  <2>3. fingerprint' \in Residue /\ buf' \in [Places -> Octet] /\ bufptr' \in Places
    BY <1>3, ResetType DEF StoreNew, RabinTypeOK, slideVars
  <2>4. RabinTypeOK'
    BY <1>3, <2>1, <2>2, <2>3 DEF StoreNew, RabinTypeOK
  <2>5. Filled' /\ IndicesInRange'
    BY <1>3, <2>3, TopBitsType, EmptyWord
       DEF StoreNew, Filled, IndicesInRange, Ready, Normalized, rabin_reset, TopBits, ShiftRight
  <2> QED BY <2>4, <2>5
<1>4. CASE NoState
  BY <1>4 DEF NoState, rabinVars, loopVars, tableVars, slideVars, RabinTypeOK, Filled, IndicesInRange,
              Ready, Normalized, TopBits
<1>5. CASE StartAgain
  <2>1. RabinTypeOK'
    BY <1>5, StartsAreResidues, EmptyWord DEF StartAgain, Begun, StartOld, NoEntries, RabinTypeOK, slideVars
  <2>2. Filled' /\ IndicesInRange'
    BY <1>5 DEF StartAgain, Begun, Filled, IndicesInRange, Ready, Normalized
  <2> QED BY <2>1, <2>2
<1>6. ASSUME NEW m \in Octet, rabin_slide8(m)
      PROVE  RabinTypeInv'
  <2>1. Ready
    BY <1>6 DEF rabin_slide8, Ready
  <2>2. fingerprint' \in Residue
    BY <1>6, <2>1, UpdateIsXor
  <2>3. buf' \in [Places -> Octet] /\ bufptr' \in Places
    BY <1>6, NextPlaceType DEF rabin_slide8, RabinTypeOK
  <2>4. RabinTypeOK'
    BY <1>6, <2>2, <2>3 DEF rabin_slide8, RabinTypeOK, loopVars, tableVars
  <2>5. TopBits' \in Octet
    <3>1. ASSUME NEW x \in Residue PROVE ShiftRight(x, TopByte) \in Octet
      <4>1. TopByte \in Nat /\ TopByte + Bits = Degree /\ Bits \in Nat /\ Degree \in Nat
        BY WordsAssumption DEF TopByte
      <4>2. x \subseteq 0 .. Degree - 1
        BY DEF Residue
      <4> QED BY <4>1, <4>2 DEF ShiftRight, Octet
    <3> QED BY <2>2, <3>1 DEF TopBits
  <2>6. Filled' /\ IndicesInRange'
    BY <1>6, <2>5 DEF rabin_slide8, Filled, IndicesInRange, Ready, Normalized, tableVars
  <2> QED BY <2>4, <2>6
<1>7. CASE UNCHANGED rabinVars
  BY <1>7 DEF rabinVars, loopVars, tableVars, slideVars, RabinTypeOK, Filled, IndicesInRange,
              Ready, Normalized, TopBits
<1> QED BY <1>1, <1>2, <1>3, <1>4, <1>5, <1>6, <1>7 DEF RabinNext

\* Between any two steps, in any ideal that poly is in.
RabinInv(I) == RabinTypeInv /\ TablesIn(I) /\ EntryIn(I) /\ FingerprintIn(I)

\* An entry that is begun stands for itself.
LEMMA StartsAreCongruent ==
  ASSUME NEW I, IsIdeal(I), NEW b \in Octet
  PROVE  /\ CongruentIn(I, b, Times(b, 0))
         /\ CongruentIn(I, Times(b, TopByte), Times(b, TopByte + 0))
<1>1. b \in Polynomial /\ TopByte + 0 = TopByte
  BY WordsAssumption DEF Octet, Polynomial, TopByte
<1> QED BY <1>1, TimesZero, XorSelf DEF IsIdeal, CongruentIn

LEMMA SetTableIn ==
  ASSUME NEW I, NEW table, NEW n,
         \A c \in DOMAIN table : CongruentIn(I, table[c], Times(c, n)),
         NEW b, NEW w, CongruentIn(I, w, Times(b, n))
  PROVE  \A c \in DOMAIN Set(table, b, w) : CongruentIn(I, Set(table, b, w)[c], Times(c, n))
BY DEF Set

\* The empty window has the polynomial 0.
LEMMA EmptyPolynomial ==
  ASSUME NEW w, \A k \in 1 .. size : w[k] = {}
  PROVE  WindowPolynomial(w) = {}
BY DEF WindowPolynomial, Times

LEMMA ResetFingerprint ==
  ASSUME NEW I, IsIdeal(I), rabin_reset
  PROVE  CongruentIn(I, fingerprint', WindowPolynomial(Window'))
<1>1. Window' = [k \in 1 .. size |-> buf'[PlaceOf(k)']]
  BY DEF Window, PlaceOf
<1>2. \A k \in 1 .. size : PlaceOf(k)' \in Places
  BY WordsAssumption DEF rabin_reset, PlaceOf, Places
<1>3. \A k \in 1 .. size : Window'[k] = {}
  BY <1>1, <1>2 DEF rabin_reset
<1>4. fingerprint' = {} /\ WindowPolynomial(Window') = {}
  BY <1>3, EmptyPolynomial DEF rabin_reset
<1> QED BY <1>4, XorSelf DEF IsIdeal, CongruentIn

\* One byte: what the update drops is a multiple of poly.
LEMMA SlideStaysCongruent ==
  ASSUME NEW I, IsIdeal(I), RabinInv(I), RabinTypeInv', NEW m \in Octet, rabin_slide8(m)
  PROVE  CongruentIn(I, fingerprint', WindowPolynomial(Window'))
<1> DEFINE om == buf[bufptr]
           old == old_ringing[om]
           new == new_ringing[TopBits]
           low == Times(Low(fingerprint), Bits)
           P == WindowPolynomial(Window)
<1>1. Ready /\ RabinTypeOK /\ RabinTypeOK' /\ IndicesInRange
  BY DEF rabin_slide8, Ready, RabinInv, RabinTypeInv
<1>2. /\ fingerprint' = Xor(Xor(low, m), Xor(old, new))
      /\ Times(fingerprint, Bits) = Xor(low, Times(TopBits, Degree))
  BY <1>1, UpdateIsXor
<1>3. WindowPolynomial(Window') = Xor(Xor(Times(P, Bits), m), Times(om, OldShifts))
  <2>1. IsWindow(Window) /\ Window[1] = om
    BY <1>1, WindowType DEF IsWindow
  <2> QED BY <1>1, <2>1, RabinWindowSlides, PolynomialSlides
<1>4. P \in Polynomial /\ fingerprint \in Polynomial /\ Bits \in Nat
  <2>1. \A k \in 1 .. size : Window[k] \in Octet
    BY <1>1, WindowType
  <2>2. \A k \in 1 .. size : Times(Window[k], Bits * (size - k)) \in Polynomial
    BY <1>1, <2>1, WordsArePolynomials, BytesApart, TimesType
  <2>3. P \in Polynomial
    BY <2>2, WindowIn DEF Polynomial
  <2> QED BY <1>1, <2>3, WordsArePolynomials, WordsAssumption DEF RabinTypeOK
<1>5. Xor(Times(fingerprint, Bits), Times(P, Bits)) \in I
  <2>1. Xor(fingerprint, P) \in I
    BY <1>1 DEF RabinInv, FingerprintIn, CongruentIn
  <2>2. Times(Xor(fingerprint, P), Bits) \in I
    BY <2>1, <1>4 DEF IsIdeal
  <2> QED BY <2>2, <1>4, TimesXor
<1>6. Xor(old, Times(om, OldShifts)) \in I
  BY <1>1 DEF RabinInv, TablesIn, CongruentIn, IndicesInRange, RabinTypeOK
<1>7. Xor(new, Times(TopBits, Degree)) \in I
  BY <1>1 DEF RabinInv, TablesIn, CongruentIn, IndicesInRange
<1> DEFINE A == Xor(Times(fingerprint, Bits), Times(P, Bits))
           B == Xor(old, Times(om, OldShifts))
           C == Xor(new, Times(TopBits, Degree))
<1>8. Xor(Xor(A, B), C) \in I
  BY <1>5, <1>6, <1>7 DEF IsIdeal
<1>9. Xor(fingerprint', WindowPolynomial(Window')) = Xor(Xor(A, B), C)
  <2> DEFINE T == Times(TopBits, Degree)
             Q == Times(P, Bits)
             O == Times(om, OldShifts)
  <2>1. \A l, t, o, q, n, s, r :
          Xor(Xor(Xor(l, r), Xor(s, n)), Xor(Xor(q, r), o)) = Xor(Xor(Xor(Xor(l, t), q), Xor(s, o)), Xor(n, t))
    BY DEF Xor, SymDiff
  <2>2. Xor(Xor(Xor(low, m), Xor(old, new)), Xor(Xor(Q, m), O))
          = Xor(Xor(Xor(Xor(low, T), Q), Xor(old, O)), Xor(new, T))
    BY <2>1
  <2> QED BY <1>2, <1>3, <2>2
<1> QED BY <1>8, <1>9 DEF CongruentIn

LEMMA CongruentInit == ASSUME NEW I, IsIdeal(I), RabinInit PROVE RabinInv(I)
<1>1. RabinTypeInv
  BY RabinTypeInit
<1>2. TablesIn(I)
  BY DEF RabinInit, TablesIn, NoEntries
<1>3. EntryIn(I)
  <2>1. OldShifts \in Nat
    BY <1>1, WordsArePolynomials DEF RabinTypeInv
  <2> QED BY <2>1, StartsAreCongruent, EmptyWord DEF RabinInit, Begun, EntryIn
<1>4. FingerprintIn(I)
  BY DEF RabinInit, Begun, FingerprintIn, Ready
<1> QED BY <1>1, <1>2, <1>3, <1>4 DEF RabinInv

LEMMA CongruentStep ==
  ASSUME NEW I
  PROVE  RabinInv(I) /\ IsIdeal(I) /\ [RabinNext]_rabinVars => RabinInv(I)' /\ IsIdeal(I)'
<1> SUFFICES ASSUME RabinInv(I), IsIdeal(I), [RabinNext]_rabinVars
             PROVE  RabinInv(I)' /\ IsIdeal(I)'
  OBVIOUS
<1>1. RabinTypeInv /\ RabinTypeInv' /\ RabinTypeOK
  BY RabinTypeStep DEF RabinInv, RabinTypeInv
<1>2. IsIdeal(I)'
  <2>1. poly' = poly
    BY DEF RabinNext, Ring, StoreOld, StoreNew, NoState, StartAgain, rabin_slide8, rabinVars
  <2> QED BY <2>1 DEF IsIdeal
<1>3. OldShifts \in Nat /\ TopByte \in Nat /\ Bits \in Nat /\ TopByte + Bits = Degree
  BY <1>1, WordsArePolynomials, WordsAssumption DEF TopByte
<1>4. TablesIn(I)' /\ EntryIn(I)' /\ FingerprintIn(I)'
  <2>1. CASE Ring
    <3>1. TablesIn(I)' /\ FingerprintIn(I)'
      BY <2>1 DEF Ring, RabinInv, TablesIn, FingerprintIn, Ready, tableVars
    <3>2. octet \in Polynomial /\ ringing \in Residue /\ shifts \in Nat
      BY <1>1, WordsArePolynomials DEF RabinTypeOK
    <3>3. Normalized
      BY <2>1, <1>1 DEF Ring, RabinTypeInv, Filled
    <3>4. CASE phase = "old"
      <4>1. CongruentIn(I, ringing, Times(octet, shifts))
        BY <3>4 DEF RabinInv, EntryIn
      <4>2. CongruentIn(I, ShiftAndReduce(ringing), Times(octet, shifts + 1))
        BY <1>1, <3>2, <3>3, <4>1, ShiftStaysCongruent
      <4> QED BY <2>1, <3>1, <3>2, <3>4, <4>2, <1>3 DEF Ring, EntryIn
    <3>5. CASE phase = "new"
      <4>1. CongruentIn(I, ringing, Times(octet, TopByte + shifts)) /\ TopByte + shifts \in Nat
        BY <3>2, <3>5, <1>3 DEF RabinInv, EntryIn
      <4>2. CongruentIn(I, ShiftAndReduce(ringing), Times(octet, (TopByte + shifts) + 1))
        BY <1>1, <3>2, <3>3, <4>1, ShiftStaysCongruent
      <4>3. (TopByte + shifts) + 1 = TopByte + (shifts + 1)
        BY <3>2, <1>3
      <4> QED BY <2>1, <3>1, <3>2, <3>5, <4>2, <4>3, <1>3 DEF Ring, EntryIn
    <3> QED BY <2>1, <3>4, <3>5 DEF Ring
  <2>2. CASE StoreOld
    <3>1. CongruentIn(I, ringing, Times(octet, OldShifts))
      BY <2>2 DEF StoreOld, RabinInv, EntryIn
    <3>2. TablesIn(I)'
      BY <2>2, <3>1, SetTableIn DEF StoreOld, RabinInv, TablesIn
    <3>3. EntryIn(I)'
      BY <2>2, <1>2, <1>3, StartsAreCongruent, EmptyWord DEF StoreOld, StartOld, StartNew, EntryIn
    <3>4. FingerprintIn(I)'
      BY <2>2 DEF StoreOld, FingerprintIn, Ready
    <3> QED BY <3>2, <3>3, <3>4
  <2>3. CASE StoreNew
    <3>1. CongruentIn(I, ringing, Times(octet, Degree))
      BY <2>3, <1>3 DEF StoreNew, RabinInv, EntryIn
    <3>2. TablesIn(I)'
      BY <2>3, <3>1, SetTableIn DEF StoreNew, RabinInv, TablesIn
    <3>3. EntryIn(I)'
      BY <2>3, <1>3, StartsAreCongruent DEF StoreNew, StartNew, EntryIn, loopVars
    <3>4. FingerprintIn(I)'
      BY <2>3, ResetFingerprint DEF StoreNew, FingerprintIn, Ready
    <3> QED BY <3>2, <3>3, <3>4
  <2>4. CASE NoState
    BY <2>4 DEF NoState, rabinVars, loopVars, tableVars, slideVars, RabinInv, TablesIn,
                EntryIn, FingerprintIn, Ready, Window
  <2>5. CASE StartAgain
    BY <2>5, <1>3, StartsAreCongruent, EmptyWord
       DEF StartAgain, Begun, StartOld, NoEntries, RabinInv, TablesIn, EntryIn, FingerprintIn, Ready
  <2>6. ASSUME NEW m \in Octet, rabin_slide8(m)
        PROVE  TablesIn(I)' /\ EntryIn(I)' /\ FingerprintIn(I)'
    <3>1. TablesIn(I)' /\ EntryIn(I)'
      BY <2>6 DEF rabin_slide8, RabinInv, TablesIn, EntryIn, tableVars
    <3>2. FingerprintIn(I)'
      BY <2>6, <1>1, SlideStaysCongruent DEF FingerprintIn
    <3> QED BY <3>1, <3>2
  <2>7. CASE UNCHANGED rabinVars
    BY <2>7 DEF rabinVars, loopVars, tableVars, slideVars, RabinInv, TablesIn, EntryIn,
                FingerprintIn, Ready, Window
  <2> QED BY <2>1, <2>2, <2>3, <2>4, <2>5, <2>6, <2>7 DEF RabinNext
<1> QED BY <1>1, <1>2, <1>4 DEF RabinInv

-----------------------------------------------------------------------------
(* Rabin: remainders are unique *)

Odd(S) == Cardinality(S) % 2 = 1

Terms(a, b, e) == {d \in b : e - d \in a}

\* Polynomials of some degree.
Bounded == {b \in Polynomial : \E n \in Nat : \A d \in b : d <= n}

\* Product, whatever the degrees.
LongProduct(a, b) == {e \in Nat : Odd(Terms(a, b, e))}

AllMultiples(a) == {LongProduct(a, b) : b \in Bounded}

LEMMA BoundedIsFinite ==
  ASSUME NEW b \in Bounded
  PROVE  IsFiniteSet(b)
<1>1. PICK n \in Nat : \A d \in b : d <= n
  BY DEF Bounded
<1>2. b \in SUBSET Nat
  BY DEF Bounded, Polynomial
<1> QED BY <1>1, <1>2, FS_BoundedSetOfNaturals

LEMMA TermsAreFinite ==
  ASSUME NEW a, NEW b \in Bounded, NEW e
  PROVE  IsFiniteSet(Terms(a, b, e))
BY BoundedIsFinite, FS_Subset DEF Terms

LEMMA OddOfXor ==
  ASSUME NEW S, NEW T, IsFiniteSet(S), IsFiniteSet(T)
  PROVE  Odd(Xor(S, T)) <=> (Odd(S) # Odd(T))
<1>1. /\ IsFiniteSet(S \union T) /\ IsFiniteSet(S \intersect T)
      /\ Cardinality(S \union T) = Cardinality(S) + Cardinality(T) - Cardinality(S \intersect T)
  BY FS_Union, FS_Intersection
<1>2. Xor(S, T) = (S \union T) \ (S \intersect T)
  BY DEF Xor, SymDiff
<1>3. (S \union T) \intersect (S \intersect T) = S \intersect T
  OBVIOUS
<1>4. Cardinality(Xor(S, T)) = Cardinality(S \union T) - Cardinality(S \intersect T)
  BY <1>1, <1>2, <1>3, FS_Difference
<1>5. \A s, t, i \in Nat : (s + t - i - i) % 2 = 1 <=> ((s % 2 = 1) # (t % 2 = 1))
  OBVIOUS
<1>6. Cardinality(S) \in Nat /\ Cardinality(T) \in Nat /\ Cardinality(S \intersect T) \in Nat
  BY <1>1, FS_CardinalityType
<1>7. Cardinality(Xor(S, T)) = Cardinality(S) + Cardinality(T) - Cardinality(S \intersect T) - Cardinality(S \intersect T)
  BY <1>1, <1>4, <1>6
<1> QED BY <1>5, <1>6, <1>7 DEF Odd

LEMMA XorOfBounded ==
  ASSUME NEW b \in Bounded, NEW c \in Bounded
  PROVE  Xor(b, c) \in Bounded
<1>1. PICK m \in Nat, n \in Nat : (\A d \in b : d <= m) /\ (\A d \in c : d <= n)
  BY DEF Bounded
<1>2. b \in Polynomial /\ c \in Polynomial
  BY DEF Bounded
<1>3. \A d \in Xor(b, c) : d \in Nat /\ (d \in b \/ d \in c)
  BY <1>2 DEF Polynomial, Xor, SymDiff
<1>4. \A d \in Xor(b, c) : d <= m + n
  BY <1>1, <1>3
<1>5. m + n \in Nat /\ Xor(b, c) \in Polynomial
  BY <1>2, XorType
<1> QED BY <1>4, <1>5 DEF Bounded

LEMMA ProductOfXor ==
  ASSUME NEW a, NEW b \in Bounded, NEW c \in Bounded
  PROVE  LongProduct(a, Xor(b, c)) = Xor(LongProduct(a, b), LongProduct(a, c))
<1>1. ASSUME NEW e \in Nat
      PROVE  Odd(Terms(a, Xor(b, c), e)) <=> (Odd(Terms(a, b, e)) # Odd(Terms(a, c, e)))
  <2>1. Terms(a, Xor(b, c), e) = Xor(Terms(a, b, e), Terms(a, c, e))
    BY DEF Terms, Xor, SymDiff
  <2> QED BY <2>1, TermsAreFinite, OddOfXor
<1>2. LongProduct(a, Xor(b, c)) \subseteq Nat /\ Xor(LongProduct(a, b), LongProduct(a, c)) \subseteq Nat
  BY DEF LongProduct, Xor, SymDiff
<1>3. ASSUME NEW e \in Nat
      PROVE  e \in LongProduct(a, Xor(b, c)) <=> e \in Xor(LongProduct(a, b), LongProduct(a, c))
  <2>1. /\ e \in LongProduct(a, Xor(b, c)) <=> Odd(Terms(a, Xor(b, c), e))
        /\ e \in LongProduct(a, b) <=> Odd(Terms(a, b, e))
        /\ e \in LongProduct(a, c) <=> Odd(Terms(a, c, e))
    BY DEF LongProduct
  <2>2. e \in Xor(LongProduct(a, b), LongProduct(a, c))
          <=> ((e \in LongProduct(a, b)) # (e \in LongProduct(a, c)))
    BY XorIn
  <2>3. Odd(Terms(a, Xor(b, c), e)) <=> (Odd(Terms(a, b, e)) # Odd(Terms(a, c, e)))
    BY <1>1
  <2> QED BY <2>1, <2>2, <2>3 DEF Odd
<1> QED BY <1>2, <1>3

LEMMA TimesOfBounded ==
  ASSUME NEW b \in Bounded, NEW n \in Nat
  PROVE  Times(b, n) \in Bounded
<1>1. PICK m \in Nat : \A d \in b : d <= m
  BY DEF Bounded
<1>2. b \in Polynomial
  BY DEF Bounded
<1>3. \A d \in Times(b, n) : d <= m + n
  BY <1>1, <1>2 DEF Times, Polynomial
<1>4. m + n \in Nat /\ Times(b, n) \in Polynomial
  BY <1>2, TimesType
<1> QED BY <1>3, <1>4 DEF Bounded

LEMMA TimesHasAsMany ==
  ASSUME NEW S \in Polynomial, IsFiniteSet(S), NEW n \in Nat
  PROVE  Cardinality(Times(S, n)) = Cardinality(S)
<1> DEFINE f == [d \in S |-> d + n]
<1>1. f \in Bijection(S, Times(S, n))
  <2>1. f \in [S -> Times(S, n)]
    BY DEF Times
  <2>2. \A d, e \in S : f[d] = f[e] => d = e
    BY DEF Polynomial
  <2>3. \A e \in Times(S, n) : \E d \in S : f[d] = e
    BY DEF Times
  <2> HIDE DEF f
  <2> QED BY <2>1, <2>2, <2>3 DEF Bijection, Injection, Surjection, IsInjective
<1>2. ExistsBijection(S, Times(S, n))
  BY <1>1 DEF ExistsBijection
<1> QED BY <1>2, FS_Bijection

LEMMA ProductOfTimes ==
  ASSUME NEW a \in Polynomial, NEW b \in Bounded, NEW n \in Nat
  PROVE  LongProduct(a, Times(b, n)) = Times(LongProduct(a, b), n)
<1>1. b \in Polynomial /\ LongProduct(a, b) \in Polynomial /\ Times(b, n) \in Polynomial
  BY TimesType DEF Bounded, LongProduct, Polynomial
<1>2. ASSUME NEW e \in Nat
      PROVE  Odd(Terms(a, Times(b, n), e)) <=> e - n \in LongProduct(a, b)
  <2>1. Terms(a, Times(b, n), e) = Times(Terms(a, b, e - n), n)
    <3>1. \A d \in b : d \in Nat /\ e - (d + n) = (e - n) - d
      BY <1>1 DEF Polynomial
    <3> QED BY <3>1 DEF Terms, Times
  <2>2. Terms(a, b, e - n) \in Polynomial /\ IsFiniteSet(Terms(a, b, e - n))
    BY <1>1, TermsAreFinite DEF Terms, Polynomial
  <2>3. Odd(Terms(a, Times(b, n), e)) <=> Odd(Terms(a, b, e - n))
    BY <2>1, <2>2, TimesHasAsMany DEF Odd
  <2>4. CASE e - n \in Nat
    BY <2>3, <2>4 DEF LongProduct
  <2>5. CASE e - n \notin Nat
    <3>1. Terms(a, b, e - n) = {}
      <4>1. \A d \in b : d \in Nat /\ (e - n) - d \notin Nat
        BY <1>1, <2>5 DEF Polynomial
      <4> QED BY <4>1 DEF Terms, Polynomial
    <3>2. ~Odd({})
      BY FS_EmptySet DEF Odd
    <3>3. e - n \notin LongProduct(a, b)
      BY <2>5 DEF LongProduct
    <3> QED BY <2>3, <3>1, <3>2, <3>3
  <2> QED BY <2>4, <2>5
<1>3. LongProduct(a, Times(b, n)) \subseteq Nat /\ Times(LongProduct(a, b), n) \subseteq Nat
  BY <1>1, TimesType DEF LongProduct, Polynomial
<1>4. \A e \in Nat : e \in LongProduct(a, Times(b, n)) <=> Odd(Terms(a, Times(b, n), e))
  BY DEF LongProduct
<1>5. \A e \in Nat : e \in Times(LongProduct(a, b), n) <=> e - n \in LongProduct(a, b)
  BY <1>1, TimesIn
<1> QED BY <1>2, <1>3, <1>4, <1>5

LEMMA ProductWithOne ==
  ASSUME NEW a \in Polynomial
  PROVE  {0} \in Bounded /\ LongProduct(a, {0}) = a
<1>1. {0} \in Bounded
  BY DEF Bounded, Polynomial
<1>2. ASSUME NEW e \in Nat PROVE Odd(Terms(a, {0}, e)) <=> e \in a
  <2>1. Terms(a, {0}, e) = IF e \in a THEN {0} ELSE {}
    BY DEF Terms
  <2>2. Cardinality({0}) = 1 /\ Cardinality({}) = 0
    BY FS_EmptySet, FS_Singleton
  <2>3. Odd({0}) /\ ~Odd({})
    BY <2>2 DEF Odd
  <2> QED BY <2>1, <2>3
<1>3. \A e \in Nat : e \in LongProduct(a, {0}) <=> e \in a
  BY <1>2 DEF LongProduct
<1>4. LongProduct(a, {0}) \subseteq Nat /\ a \subseteq Nat
  BY DEF LongProduct, Polynomial
<1> QED BY <1>1, <1>3, <1>4

LEMMA ProductWithNothing ==
  ASSUME NEW a
  PROVE  {} \in Bounded /\ LongProduct(a, {}) = {}
<1>1. {} \in Bounded
  <2>1. {} \in Polynomial /\ 0 \in Nat /\ \A d \in {} : d <= 0
    BY DEF Polynomial
  <2> QED BY <2>1 DEF Bounded
<1>2. \A e : Terms(a, {}, e) = {}
  BY DEF Terms
<1>3. ~Odd({})
  BY FS_EmptySet DEF Odd
<1> QED BY <1>1, <1>2, <1>3 DEF LongProduct

LEMMA MultiplesAreIdeal ==
  ASSUME poly \in Polynomial
  PROVE  IsIdeal(AllMultiples(poly))
<1>1. AllMultiples(poly) \subseteq Polynomial
  BY DEF AllMultiples, LongProduct, Polynomial
<1>2. {} \in AllMultiples(poly)
  BY ProductWithNothing DEF AllMultiples
<1>3. poly \in AllMultiples(poly)
  BY ProductWithOne DEF AllMultiples
<1>4. ASSUME NEW x \in AllMultiples(poly), NEW y \in AllMultiples(poly)
      PROVE  Xor(x, y) \in AllMultiples(poly)
  <2>1. PICK b \in Bounded, c \in Bounded : x = LongProduct(poly, b) /\ y = LongProduct(poly, c)
    BY <1>4 DEF AllMultiples
  <2>2. Xor(x, y) = LongProduct(poly, Xor(b, c)) /\ Xor(b, c) \in Bounded
    BY <2>1, ProductOfXor, XorOfBounded
  <2> QED BY <2>2 DEF AllMultiples
<1>5. ASSUME NEW x \in AllMultiples(poly), NEW n \in Nat
      PROVE  Times(x, n) \in AllMultiples(poly)
  <2>1. PICK b \in Bounded : x = LongProduct(poly, b)
    BY <1>5 DEF AllMultiples
  <2>2. Times(x, n) = LongProduct(poly, Times(b, n)) /\ Times(b, n) \in Bounded
    BY <2>1, ProductOfTimes, TimesOfBounded
  <2> QED BY <2>2 DEF AllMultiples
<1> QED BY <1>1, <1>2, <1>3, <1>4, <1>5 DEF IsIdeal

\* A polynomial that is not 0 has a highest exponent.
LEMMA HighestExponent ==
  ASSUME NEW b \in Bounded, b # {}
  PROVE  \E m \in b : m \in Nat /\ \A d \in b : d <= m
<1>1. PICK n \in Nat : \A d \in b : d <= n
  BY DEF Bounded
<1>2. b \in SUBSET Nat
  BY DEF Bounded, Polynomial
<1>3. Max(b) \in b /\ \A d \in b : d <= Max(b)
  BY <1>1, <1>2, MaxOfNat
<1> QED BY <1>2, <1>3

\* Exponents add up in the highest one, which nothing else reaches.
LEMMA DegreesAdd ==
  ASSUME NEW a \in Word, Degree \in a, NEW b \in Bounded, NEW m \in b, \A d \in b : d <= m
  PROVE  m + Degree \in LongProduct(a, b)
<1>1. PICK e \in Nat : e = m + Degree
  BY WordsAssumption DEF Bounded, Polynomial
<1>2. m \in Nat /\ Degree \in Nat /\ b \subseteq Nat /\ a \subseteq 0 .. Degree
  BY WordsAssumption DEF Bounded, Polynomial, Word
<1>3. ASSUME NEW d \in b PROVE e - d \in a <=> d = m
  <2>1. CASE d = m
    <3>1. e - d = Degree
      BY <1>1, <1>2, <2>1
    <3> QED BY <2>1, <3>1
  <2>2. CASE d # m
    <3>1. e - d > Degree
      BY <1>1, <1>2, <2>2
    <3>2. e - d \notin 0 .. Degree
      BY <3>1, <1>2
    <3> QED BY <1>2, <2>2, <3>2
  <2> QED BY <2>1, <2>2
<1>4. Terms(a, b, e) = {m}
  BY <1>3 DEF Terms
<1>5. Odd({m})
  BY FS_Singleton DEF Odd
<1> QED BY <1>1, <1>4, <1>5 DEF LongProduct

\* A multiple less than poly is 0.
LEMMA SmallMultiple ==
  ASSUME NEW a \in Word, Degree \in a, NEW x \in AllMultiples(a), x \in Residue
  PROVE  x = {}
<1>1. PICK b \in Bounded : x = LongProduct(a, b)
  BY DEF AllMultiples
<1>2. b = {}
  <2> SUFFICES ASSUME b # {} PROVE FALSE
    OBVIOUS
  <2>1. PICK m \in b : m \in Nat /\ \A d \in b : d <= m
    BY HighestExponent
  <2>2. m + Degree \in x
    BY <1>1, <2>1, DegreesAdd
  <2> QED BY <2>1, <2>2, WordsAssumption DEF Residue
<1> QED BY <1>1, <1>2, ProductWithNothing

\* In the window's range, the products of the specification are all there
\* are.
LEMMA ShortProduct ==
  ASSUME NEW a \in Word, NEW b \in SUBSET (0 .. size * Bits - 1)
  PROVE  b \in Bounded /\ Product(a, b) = LongProduct(a, b)
<1>1. PICK n \in Nat : n = size * Bits
  BY WordsAssumption
<1>2. b \in Bounded
  <2>1. b \in Polynomial /\ \A d \in b : d <= n
    BY <1>1 DEF Polynomial
  <2> QED BY <2>1 DEF Bounded
<1>3. ASSUME NEW e \in Nat, e > Degree + n
      PROVE  ~Odd(Terms(a, b, e))
  <2>1. \A d \in b : d \in Nat /\ d <= n
    BY <1>1
  <2>2. \A d \in b : e - d > Degree
    BY <1>3, <2>1, WordsAssumption
  <2>3. a \subseteq 0 .. Degree
    BY DEF Word
  <2>4. \A d \in b : e - d \notin a
    BY <2>1, <2>2, <2>3, WordsAssumption
  <2>5. Terms(a, b, e) = {}
    BY <2>4 DEF Terms
  <2>6. ~Odd({})
    BY FS_EmptySet DEF Odd
  <2> QED BY <2>5, <2>6
<1>4. Product(a, b) = {e \in 0 .. Degree + n : Odd(Terms(a, b, e))}
  BY <1>1 DEF Product, Odd, Terms
<1>5. \A e \in Nat : e \in Product(a, b) <=> e \in LongProduct(a, b)
  BY <1>3, <1>4, WordsAssumption DEF LongProduct
<1>6. Product(a, b) \subseteq Nat /\ LongProduct(a, b) \subseteq Nat
  BY <1>4, WordsAssumption DEF LongProduct
<1> QED BY <1>2, <1>5, <1>6

LEMMA WindowIsShort ==
  ASSUME NEW w, IsWindow(w)
  PROVE  WindowPolynomial(w) \in SUBSET (0 .. size * Bits - 1)
<1> SUFFICES ASSUME NEW k \in 1 .. size, NEW e \in Times(w[k], Bits * (size - k))
             PROVE  e \in 0 .. size * Bits - 1
  BY WindowIn
<1>1. PICK d \in w[k] : e = d + Bits * (size - k)
  BY DEF Times
<1>2. d \in 0 .. Bits - 1
  BY DEF IsWindow, Octet
<1>3. Bits \in Nat /\ size \in Nat /\ Bits * (size - k) \in Nat
  BY BytesApart, WordsAssumption
<1>4. Bits * (size - k) + Bits <= size * Bits
  <2>1. Bits * (size - k) + Bits = Bits * (size - (k - 1))
    BY BytesApart
  <2>2. k = 1 => Bits * (size - (k - 1)) = size * Bits
    BY <1>3
  <2>3. k > 1 => Bits * (size - (k - 1)) <= OldShifts - Bits
    BY BytesApart
  <2>4. OldShifts = size * Bits /\ OldShifts \in Nat
    BY <1>3 DEF OldShifts
  <2>5. k = 1 \/ k > 1
    OBVIOUS
  <2>6. Bits * (size - (k - 1)) <= size * Bits
    BY <1>3, <2>2, <2>3, <2>4, <2>5
  <2> QED BY <2>1, <2>6
<1> QED BY <1>1, <1>2, <1>3, <1>4

\* A residue that differs from a window by a multiple is its remainder, and
\* there is no other.
LEMMA RemainderIs ==
  ASSUME NEW a \in Polynomials, Degree \in a, NEW w, IsWindow(w),
         NEW r \in Residue, CongruentIn(AllMultiples(a), r, WindowPolynomial(w))
  PROVE  Remainder(a, w) = r
<1> DEFINE W == WindowPolynomial(w)
<1>1. a \in Word /\ a \in Polynomial
  BY PolynomialsAssumption DEF Word, Polynomial
<1>2. W \in SUBSET (0 .. size * Bits - 1)
  BY WindowIsShort
<1>3. PICK b \in Bounded : Xor(r, W) = LongProduct(a, b)
  BY DEF CongruentIn, AllMultiples
<1>4. b \in SUBSET (0 .. size * Bits - 1)
  <2> SUFFICES ASSUME b # {} PROVE b \in SUBSET (0 .. size * Bits - 1)
    OBVIOUS
  <2>1. PICK m \in b : m \in Nat /\ \A d \in b : d <= m
    BY HighestExponent
  <2>2. m + Degree \in Xor(r, W)
    BY <1>1, <1>3, <2>1, DegreesAdd
  <2>3. m + Degree \notin r
    BY <2>1, WordsAssumption DEF Residue
  <2>4. m + Degree \in W
    BY <2>2, <2>3 DEF Xor, SymDiff
  <2>5. m + Degree <= size * Bits - 1 /\ size * Bits \in Nat /\ Degree \in Nat
    BY <1>2, <2>4, WordsAssumption
  <2>6. b \subseteq Nat
    BY DEF Bounded, Polynomial
  <2> HIDE DEF W
  <2> QED BY <2>1, <2>5, <2>6
<1>5. Xor(r, W) \in MultiplesOf[a]
  BY <1>1, <1>3, <1>4, ShortProduct DEF MultiplesOf
<1>6. ASSUME NEW s \in Residue, Xor(s, W) \in MultiplesOf[a]
      PROVE  s = r
  <2>1. PICK c \in SUBSET (0 .. size * Bits - 1) : Xor(s, W) = Product(a, c)
    BY <1>6 DEF MultiplesOf
  <2>2. c \in Bounded /\ Xor(s, W) = LongProduct(a, c)
    BY <1>1, <2>1, ShortProduct
  <2>3. Xor(s, r) = Xor(Xor(s, W), Xor(r, W))
    BY DEF Xor, SymDiff
  <2>4. Xor(s, r) = LongProduct(a, Xor(c, b)) /\ Xor(c, b) \in Bounded
    BY <1>3, <2>2, <2>3, ProductOfXor, XorOfBounded
  <2>5. Xor(s, r) \in Residue
    BY DEF Xor, SymDiff, Residue
  <2>6. Xor(s, r) = {}
    BY <1>1, <2>4, <2>5, SmallMultiple DEF AllMultiples
  <2> QED BY <2>6 DEF Xor, SymDiff
<1> QED
  BY <1>5, <1>6 DEF Remainder

-----------------------------------------------------------------------------
(* Rabin: a step of the fingerprint is one of SlidingWindow *)

\* RabinInv, with the multiples of poly.
RemainderInv == \E I : I = AllMultiples(poly) /\ IsIdeal(I) /\ RabinInv(I)

LEMMA RemainderInit == RabinInit => RemainderInv
<1> SUFFICES ASSUME RabinInit PROVE RemainderInv
  OBVIOUS
<1>1. IsIdeal(AllMultiples(poly))
  <2>1. poly \in Polynomial
    BY PolynomialsAssumption DEF RabinInit, Word, Polynomial
  <2> QED BY <2>1, MultiplesAreIdeal
<1>2. PICK I : I = AllMultiples(poly)
  OBVIOUS
<1>3. RabinInv(I)
  BY <1>1, <1>2, CongruentInit
<1> QED BY <1>1, <1>2, <1>3 DEF RemainderInv

LEMMA PolyStays == [RabinNext]_rabinVars => poly' = poly
BY DEF RabinNext, Ring, StoreOld, StoreNew, NoState, StartAgain, rabin_slide8, rabinVars

LEMMA RemainderStep == RemainderInv /\ [RabinNext]_rabinVars => RemainderInv'
<1> SUFFICES ASSUME RemainderInv, [RabinNext]_rabinVars PROVE RemainderInv'
  OBVIOUS
<1>1. PICK I : I = AllMultiples(poly) /\ IsIdeal(I) /\ RabinInv(I)
  BY DEF RemainderInv
<1>2. IsIdeal(I)' /\ RabinInv(I)'
  BY <1>1, CongruentStep
<1>3. I = AllMultiples(poly)'
  <2>1. AllMultiples(poly)' = AllMultiples(poly')
    BY DEF AllMultiples
  <2> QED BY <1>1, <2>1, PolyStays
<1> QED BY <1>2, <1>3 DEF RemainderInv

LEMMA FingerprintIs ==
  RemainderInv /\ Ready => Degree \in poly /\ Remainder(poly, Window) = fingerprint
<1> SUFFICES ASSUME RemainderInv, Ready
             PROVE  Degree \in poly /\ Remainder(poly, Window) = fingerprint
  OBVIOUS
<1>1. PICK I : I = AllMultiples(poly) /\ RabinInv(I)
  BY DEF RemainderInv
<1>2. RabinTypeOK /\ Degree \in poly
  BY <1>1 DEF RabinInv, RabinTypeInv, Filled, Ready, Normalized
<1>3. IsWindow(Window)
  BY <1>2, WindowType DEF IsWindow
<1>4. CongruentIn(AllMultiples(poly), fingerprint, WindowPolynomial(Window))
  BY <1>1 DEF RabinInv, FingerprintIn
<1>5. poly \in Polynomials /\ fingerprint \in Residue
  BY <1>2 DEF RabinTypeOK
<1> QED BY <1>2, <1>3, <1>4, <1>5, RemainderIs

LEMMA NothingIsHashed ==
  RemainderInv /\ Degree \in poly => Remainder(poly, ZeroWindow) = {}
<1> SUFFICES ASSUME RemainderInv, Degree \in poly PROVE Remainder(poly, ZeroWindow) = {}
  OBVIOUS
<1>1. PICK I : I = AllMultiples(poly) /\ IsIdeal(I) /\ RabinInv(I)
  BY DEF RemainderInv
<1>2. poly \in Polynomials
  BY <1>1 DEF RabinInv, RabinTypeInv, RabinTypeOK
<1>3. IsWindow(ZeroWindow) /\ WindowPolynomial(ZeroWindow) = {}
  BY EmptyWord, EmptyPolynomial DEF IsWindow, ZeroWindow
<1>4. CongruentIn(AllMultiples(poly), {}, {})
  BY <1>1, XorSelf DEF CongruentIn, IsIdeal
<1> QED BY <1>2, <1>3, <1>4, EmptyWord, RemainderIs

LEMMA ZeroIsEmpty == SW!EmptyWindow = ZeroWindow
BY DEF SW!EmptyWindow, ZeroWindow

\* While there is no fingerprint, the window is empty.
LEMMA HashedInit == RabinInit => SW!Init
<1> SUFFICES ASSUME RabinInit PROVE SW!Init
  OBVIOUS
<1>1. ~Ready
  BY DEF RabinInit, Begun, Ready
<1>2. Degree \in poly => Remainder(poly, ZeroWindow) = {}
  BY RemainderInit, NothingIsHashed
<1> QED BY <1>1, <1>2, ZeroIsEmpty DEF SW!Init, SW!IsHashed, RabinInit

LEMMA ResetWindow ==
  ASSUME rabin_reset
  PROVE  Window' = ZeroWindow /\ fingerprint' = {}
<1>1. Window' = [k \in 1 .. size |-> buf'[PlaceOf(k)']]
  BY DEF Window, PlaceOf
<1>2. \A k \in 1 .. size : PlaceOf(k)' \in Places
  BY WordsAssumption DEF rabin_reset, PlaceOf, Places
<1> QED BY <1>1, <1>2 DEF rabin_reset, ZeroWindow

LEMMA SlideStep ==
  ASSUME RemainderInv, RemainderInv', NEW m \in Octet, rabin_slide8(m)
  PROVE  SW!Push(m)
<1>1. Ready /\ Ready' /\ poly' = poly
  BY DEF rabin_slide8, Ready
<1>2. RabinTypeOK /\ RabinTypeOK'
  BY DEF RemainderInv, RabinInv, RabinTypeInv
<1>3. Window' = SW!Slide(Window, m)
  <2>1. Window' = [k \in 1 .. size |-> Window'[k]]
    BY DEF Window
  <2>2. \A k \in 1 .. size : Window'[k] = IF k < size THEN Window[k + 1] ELSE m
    BY <1>2, RabinWindowSlides, WordsAssumption
  <2> QED BY <2>1, <2>2 DEF SW!Slide
<1>4. (RemainderInv /\ Ready => Degree \in poly /\ Remainder(poly, Window) = fingerprint)'
  BY FingerprintIs, PTL
<1> QED BY <1>1, <1>3, <1>4 DEF SW!Push, SW!IsHashed

LEMMA HashedStep ==
  RemainderInv /\ RemainderInv' /\ [RabinNext]_rabinVars => [SW!Next]_(SW!vars)
<1> SUFFICES ASSUME RemainderInv, RemainderInv', [RabinNext]_rabinVars
             PROVE  [SW!Next]_(SW!vars)
  OBVIOUS
<1>1. CASE Ring \/ StoreOld \/ NoState
  BY <1>1 DEF Ring, StoreOld, NoState, rabinVars, Ready, SW!vars
<1>2. CASE StoreNew
  <2>1. CASE rabin_reset /\ Ready'
    BY <1>2, <2>1, ResetWindow DEF StoreNew, Ready, SW!vars
  <2>2. CASE UNCHANGED <<phase, slideVars>>
    BY <1>2, <2>2 DEF StoreNew, Ready, SW!vars
  <2> QED BY <1>2, <2>1, <2>2 DEF StoreNew, Ready
<1>3. CASE StartAgain
  <2>1. ~Ready' /\ poly' = poly
    BY <1>3 DEF StartAgain, Begun, Ready
  <2>2. (RemainderInv /\ Degree \in poly => Remainder(poly, ZeroWindow) = {})'
    BY NothingIsHashed, PTL
  <2> QED BY <2>1, <2>2, ZeroIsEmpty DEF SW!Next, SW!Restart, SW!IsHashed
<1>4. ASSUME NEW m \in Octet, rabin_slide8(m) PROVE SW!Next
  BY <1>4, SlideStep DEF SW!Next
<1>5. CASE UNCHANGED rabinVars
  BY <1>5 DEF rabinVars, slideVars, Ready, Window, SW!vars
<1> QED BY <1>1, <1>2, <1>3, <1>4, <1>5 DEF RabinNext

-----------------------------------------------------------------------------
(* Rabin: theorems *)

\* What rabin_init and rabin_slide8 keep (rabin.c:71, rabin.c:126) are words
\* and bytes at all times: no shift leaves a bit past the word, and the
\* fingerprint is always below the degree of the polynomial.
THEOREM RabinTypes == RabinSpec => []RabinTypeOK
<1>1. RabinTypeInv => RabinTypeOK
  BY DEF RabinTypeInv
<1> QED BY <1>1, RabinTypeInit, RabinTypeStep, PTL DEF RabinSpec

\* No byte and no fingerprint ever indexes past a table (rabin.c:126,
\* rabin.c:127).
THEOREM RabinIndices == RabinSpec => []IndicesInRange
<1>1. RabinTypeInv => IndicesInRange
  BY DEF RabinTypeInv
<1> QED BY <1>1, RabinTypeInit, RabinTypeStep, PTL DEF RabinSpec

\* After every byte the fingerprint is a word without its most significant
\* bit that differs from the polynomial of the last `size' bytes by a
\* multiple of poly: it is their remainder, and nothing older is left in it.
THEOREM FingerprintIsRemainder ==
  ASSUME NEW I
  PROVE  RabinSpec /\ IsIdeal(I) => [](fingerprint \in Residue /\ FingerprintIn(I))
<1>1. RabinInit /\ IsIdeal(I) => RabinInv(I) /\ IsIdeal(I)
  BY CongruentInit
<1>2. (RabinInv(I) /\ IsIdeal(I)) /\ [RabinNext]_rabinVars => (RabinInv(I) /\ IsIdeal(I))'
  BY CongruentStep
<1>3. RabinInv(I) /\ IsIdeal(I) => fingerprint \in Residue /\ FingerprintIn(I)
  BY DEF RabinInv, RabinTypeInv, RabinTypeOK
<1> QED BY <1>1, <1>2, <1>3, PTL DEF RabinSpec

\* rabin_slide8, with its tables, its circular buffer and the fingerprint of
\* the byte before (rabin.c:111), does what hashing the last bytes from the
\* start would do, for every polynomial, window and word; the fingerprint is
\* their remainder, and rabin_init anew forgets them.
THEOREM RabinSlides == RabinSpec => ImplementsSlidingWindow
<1>1. RabinInit => RemainderInv /\ SW!Init
  BY RemainderInit, HashedInit
<1>2. RemainderInv /\ [RabinNext]_rabinVars => RemainderInv'
  BY RemainderStep
<1>3. RemainderInv /\ RemainderInv' /\ [RabinNext]_rabinVars => [SW!Next]_(SW!vars)
  BY HashedStep
<1> QED BY <1>1, <1>2, <1>3, PTL DEF RabinSpec, ImplementsSlidingWindow, SW!Spec

=============================================================================
