--------------------------- MODULE CuttingProofs ----------------------------
(***************************************************************************)
(* Theorems about how files are cut, for every size of a file and of a     *)
(* chunk: the desktop's copies of the arithmetic of chunks, the shares of  *)
(* two lanes in one file, and the policies that choose a chunk size.       *)
(***************************************************************************)
EXTENDS MCScheduler, ChunkSizing, ChunkingProofs

\* A chunk that ends before the next one begins.
LEMMA NextProduct ==
  ASSUME NEW i \in Nat, NEW n \in Nat, NEW k \in Nat, i < n
  PROVE  k * i + k <= k * n
<1>1. PICK d \in Nat : n = i + 1 + d
  <2>1. n - i - 1 \in Nat /\ n = i + 1 + (n - i - 1)
    OBVIOUS
  <2> QED
    BY <2>1
<1>2. k * n = k * i + k + k * d
  BY <1>1
<1>3. k * d \in Nat /\ k * i \in Nat
  BY <1>1
<1> QED
  BY <1>2, <1>3

(***************************************************************************)
(* Where chunk i of the split lies in its file.                            *)
(***************************************************************************)
LEMMA ChunkRange ==
  ASSUME NEW f \in File, NEW chunkSz \in Nat, NEW i \in 0 .. (NumChunks(f, chunkSz) - 1)
  PROVE  LET k    == AtLeastOne(chunkSz)
             size == FileSize[f]
         IN  /\ Offset(chunkSz, i) = k * i /\ k \in Nat \ {0} /\ k * i \in Nat
             /\ size > 0 => k * i < size
             /\ k * i <= size
             /\ Length(size, chunkSz, i) = IF size - k * i < k THEN size - k * i ELSE k
<1> DEFINE k    == AtLeastOne(chunkSz)
           size == FileSize[f]
           n    == NumChunks(f, chunkSz)
           Place == /\ size > 0 => k * i < size
                    /\ k * i <= size
                    /\ Length(size, chunkSz, i) = IF size - k * i < k THEN size - k * i ELSE k
<1>1. k \in Nat \ {0} /\ size \in Nat
  BY ChunkingAssumption DEF AtLeastOne
<1>2. n \in Nat \ {0}
  BY ChunkCountIsPositive, <1>1 DEF NumChunks
<1>3. Offset(chunkSz, i) = k * i
  BY <1>1, <1>2 DEF Offset
<1>4. n = IF size = 0 THEN 1 ELSE (size + k - 1) \div k
  BY DEF NumChunks, ChunkCount
<1>5. Length(size, chunkSz, i)
      = LET left == IF k * i > size THEN 0 ELSE size - k * i
        IN  IF left < k THEN left ELSE k
  BY <1>3 DEF Length
<1>6. i \in Nat /\ i < n
  BY <1>2
<1> HIDE DEF k, size, n
<1>7. k * i \in Nat
  BY <1>1, <1>6
<1>8. ASSUME size = 0 PROVE Place
  <2>1. i = 0
    BY <1>4, <1>6, <1>8
  <2>2. k * i = 0
    BY <1>1, <2>1
  <2> QED
    BY <1>1, <1>5, <1>8, <2>2
<1>9. ASSUME size > 0 PROVE Place
  <2>1. k * n <= size + k - 1
    <3>1. size + k - 1 \in Nat
      BY <1>1, <1>9
    <3> QED
      BY <1>1, <1>4, <1>9, <3>1, Quotient
  <2>2. k * i + k <= k * n
    BY <1>1, <1>2, <1>6, NextProduct
  <2>3. k * n \in Nat
    BY <1>1, <1>2
  <2>4. k * i < size
    BY <1>1, <1>7, <1>9, <2>1, <2>2, <2>3
  <2> QED
    BY <1>1, <1>5, <1>7, <1>9, <2>4
<1>10. size = 0 \/ size > 0
  BY <1>1
<1>11. Place
  BY <1>8, <1>9, <1>10
<1> QED
  BY <1>1, <1>3, <1>7, <1>11, Zenon DEF k, size

\* A byte of the file lies in the range of the chunk it is divided to, no other.
LEMMA ByteInOneRange ==
  ASSUME NEW f \in File, NEW chunkSz \in Nat, NEW b \in Bytes(f), NEW c \in Split(f, chunkSz)
  PROVE  /\ Offset(chunkSz, c[2]) <= b[2]
         /\ b[2] < Offset(chunkSz, c[2]) + Length(FileSize[f], chunkSz, c[2])
         <=> c = ChunkOf(b, chunkSz)
<1> DEFINE k    == AtLeastOne(chunkSz)
           size == FileSize[f]
           i    == c[2]
<1>1. i \in 0 .. (NumChunks(f, chunkSz) - 1) /\ c = <<f, i>>
  BY DEF Split
<1>2. b[1] = f /\ b[2] \in Nat /\ b[2] < size /\ size \in Nat
  BY ChunkingAssumption DEF Bytes
<1>3. /\ Offset(chunkSz, i) = k * i /\ k \in Nat \ {0} /\ k * i \in Nat
      /\ k * i <= size
      /\ Length(size, chunkSz, i) = IF size - k * i < k THEN size - k * i ELSE k
  BY <1>1, ChunkRange
<1>4. i \in Nat
  BY <1>1
<1>5. c = ChunkOf(b, chunkSz) <=> b[2] \div k = i
  BY <1>1, <1>2 DEF ChunkOf
<1> HIDE DEF k, size, i
<1>6. b[2] \div k = i <=> k * i <= b[2] /\ b[2] < k * i + k
  BY <1>2, <1>3, <1>4, Quotient, QuotientIs
<1>7. (/\ Offset(chunkSz, i) <= b[2] /\ b[2] < Offset(chunkSz, i) + Length(size, chunkSz, i))
      <=> (k * i <= b[2] /\ b[2] < k * i + k)
  BY <1>2, <1>3
<1> QED
  BY <1>5, <1>6, <1>7 DEF i, size
-----------------------------------------------------------------------------
\* The chunk size a file is cut with is one of those configured.
LEMMA CutsWithItsSize == CutSpec => [](chunkSize \in ChunkSizes)
<1>1. CutInit => chunkSize \in ChunkSizes
  BY DEF CutInit
<1>2. chunkSize \in ChunkSizes /\ [CutNext]_cutVars => (chunkSize \in ChunkSizes)'
  BY DEF CutNext, cutVars
<1> QED
  BY <1>1, <1>2, PTL DEF CutSpec

(***************************************************************************)
(* Every byte lies in one chunk, and a chunk covers the bytes its length   *)
(* says, for every size of a file and of a chunk, 0 included.              *)
(***************************************************************************)
THEOREM EachByteIsCoveredOnce == CutSpec => []SplitCoversEachByteOnce
<1>1. chunkSize \in ChunkSizes => SplitCoversEachByteOnce
  <2> SUFFICES ASSUME chunkSize \in ChunkSizes, NEW f \in File
               PROVE  /\ \A b \in Bytes(f) :
                           {c \in Split(f, chunkSize) :
                              /\ Offset(chunkSize, c[2]) <= b[2]
                              /\ b[2] < Offset(chunkSize, c[2])
                                          + Length(FileSize[f], chunkSize, c[2])}
                           = {ChunkOf(b, chunkSize)}
                      /\ \A c \in Split(f, chunkSize) :
                           /\ Cardinality(BytesOf({c}, chunkSize))
                              = Length(FileSize[f], chunkSize, c[2])
                           /\ Length(FileSize[f], chunkSize, c[2]) = 0 => FileSize[f] = 0
    BY DEF SplitCoversEachByteOnce
  <2>1. chunkSize \in Nat /\ FileSize[f] \in Nat
    BY ChunkingAssumption
  <2>2. ASSUME NEW b \in Bytes(f)
        PROVE  {c \in Split(f, chunkSize) :
                  /\ Offset(chunkSize, c[2]) <= b[2]
                  /\ b[2] < Offset(chunkSize, c[2]) + Length(FileSize[f], chunkSize, c[2])}
               = {ChunkOf(b, chunkSize)}
    <3>1. b \in BytesOf(Split(f, chunkSize), chunkSize)
      BY <2>1, SplitCoversTheFile
    <3>2. ChunkOf(b, chunkSize) \in Split(f, chunkSize)
      BY <3>1 DEF BytesOf
    <3>3. \A c \in Split(f, chunkSize) :
            /\ Offset(chunkSize, c[2]) <= b[2]
            /\ b[2] < Offset(chunkSize, c[2]) + Length(FileSize[f], chunkSize, c[2])
            <=> c = ChunkOf(b, chunkSize)
      BY <2>1, ByteInOneRange
    <3> QED
      BY <3>2, <3>3
  <2>3. ASSUME NEW c \in Split(f, chunkSize)
        PROVE  /\ Cardinality(BytesOf({c}, chunkSize)) = Length(FileSize[f], chunkSize, c[2])
               /\ Length(FileSize[f], chunkSize, c[2]) = 0 => FileSize[f] = 0
    <3> DEFINE i == c[2]
    <3>1. c = <<f, i>> /\ i \in 0 .. (NumChunks(f, chunkSize) - 1)
      BY DEF Split
    <3>2. i \in Nat
      BY <3>1
    <3>3. LET k    == AtLeastOne(chunkSize)
              size == FileSize[f]
          IN  /\ k \in Nat \ {0} /\ k * i \in Nat
              /\ size > 0 => k * i < size
              /\ k * i <= size
              /\ Length(size, chunkSize, i) = IF size - k * i < k THEN size - k * i ELSE k
      BY <2>1, <3>1, ChunkRange
    <3> HIDE DEF i
    <3>4. Cardinality(BytesOf({<<f, i>>}, chunkSize)) = Length(FileSize[f], chunkSize, i)
      BY <2>1, <3>2, ChunkHoldsItsLength
    <3>5. Length(FileSize[f], chunkSize, i) = 0 => FileSize[f] = 0
      <4> DEFINE k == AtLeastOne(chunkSize)
                 start == k * i
      <4>1. /\ k \in Nat /\ k # 0 /\ start \in Nat
            /\ FileSize[f] > 0 => start < FileSize[f]
            /\ Length(FileSize[f], chunkSize, i)
               = IF FileSize[f] - start < k THEN FileSize[f] - start ELSE k
        BY <3>3
      <4> HIDE DEF k, start
      <4> QED
        BY <2>1, <4>1
    <3> QED
      BY <3>1, <3>4, <3>5, Zenon DEF i
  <2> QED
    BY <2>2, <2>3
<1> QED
  BY <1>1, CutsWithItsSize, PTL
-----------------------------------------------------------------------------
\* Rounding up by adding a chunk less one, and by looking at the remainder.
LEMMA RoundingUp ==
  ASSUME NEW size \in Nat, NEW k \in Nat \ {0}
  PROVE  (size + k - 1) \div k = size \div k + (IF size % k = 0 THEN 0 ELSE 1)
<1> DEFINE q == size \div k
           r == size % k
<1>1. q \in Nat /\ r \in Nat /\ r < k /\ size = k * q + r
  OBVIOUS
<1>2. k * q \in Nat /\ k * (q + 1) = k * q + k
  BY <1>1
<1> HIDE DEF q, r
<1>3. CASE r = 0
  <2>1. size + k - 1 \in Nat /\ k * q <= size + k - 1 /\ size + k - 1 < k * q + k
    BY <1>1, <1>2, <1>3
  <2>2. (size + k - 1) \div k = q
    BY <1>1, <2>1, QuotientIs
  <2> QED
    BY <1>1, <1>3, <2>2 DEF q, r
<1>4. CASE r # 0
  <2>1. /\ size + k - 1 \in Nat /\ q + 1 \in Nat
        /\ k * (q + 1) <= size + k - 1 /\ size + k - 1 < k * (q + 1) + k
    BY <1>1, <1>2, <1>4
  <2>2. (size + k - 1) \div k = q + 1
    BY <2>1, QuotientIs
  <2> QED
    BY <1>4, <2>2 DEF q, r
<1> QED
  BY <1>3, <1>4

(***************************************************************************)
(* The desktop counts and measures chunks as the engine does, for every    *)
(* size of a file and of a chunk.                                          *)
(***************************************************************************)
THEOREM BothCountAlike == CutSpec => []DesktopCutsLikeTheEngine
<1>1. chunkSize \in ChunkSizes => DesktopCutsLikeTheEngine
  <2> SUFFICES ASSUME chunkSize \in ChunkSizes, NEW f \in File
               PROVE  /\ ChunkCountForSize(FileSize[f], chunkSize) = NumChunks(f, chunkSize)
                      /\ \A c \in Split(f, chunkSize) :
                           ChunkLengthFor(FileSize[f], chunkSize, c[2])
                           = Length(FileSize[f], chunkSize, c[2])
    BY DEF DesktopCutsLikeTheEngine
  <2> DEFINE k == AtLeastOne(chunkSize)
  <2>1. k \in Nat \ {0} /\ FileSize[f] \in Nat /\ chunkSize \in Nat
    BY ChunkingAssumption DEF AtLeastOne
  <2>2. ChunkCountForSize(FileSize[f], chunkSize) = NumChunks(f, chunkSize)
    <3>1. (FileSize[f] + k - 1) \div k
          = FileSize[f] \div k + (IF FileSize[f] % k = 0 THEN 0 ELSE 1)
      BY <2>1, RoundingUp
    <3> HIDE DEF k
    <3> QED
      BY <3>1 DEF k, ChunkCountForSize, NumChunks, ChunkCount
  <2>3. ASSUME NEW c \in Split(f, chunkSize)
        PROVE  ChunkLengthFor(FileSize[f], chunkSize, c[2])
               = Length(FileSize[f], chunkSize, c[2])
    <3>1. c[2] \in 0 .. (NumChunks(f, chunkSize) - 1)
      BY DEF Split
    <3>2. FileSize[f] = 0 => Length(FileSize[f], chunkSize, c[2]) = 0
      <4>1. LET start == k * c[2]
            IN  /\ start \in Nat /\ start <= FileSize[f]
                /\ Length(FileSize[f], chunkSize, c[2])
                   = IF FileSize[f] - start < k THEN FileSize[f] - start ELSE k
        BY <2>1, <3>1, ChunkRange
      <4> HIDE DEF k
      <4> QED
        BY <2>1, <4>1
    <3> QED
      BY <3>2 DEF ChunkLengthFor, Length, Offset
  <2> QED
    BY <2>2, <2>3
<1> QED
  BY <1>1, CutsWithItsSize, PTL

(***************************************************************************)
(* The lanes that share a file own every chunk once, and with two chunks   *)
(* or more neither is idle, for every stride.                              *)
(***************************************************************************)
THEOREM LanesShare ==
  ASSUME MaxStride \in Nat
  PROVE  CutSpec => []LanesShareTheFile
<1>1. chunkSize \in ChunkSizes => LanesShareTheFile
  <2> SUFFICES ASSUME chunkSize \in ChunkSizes, NEW f \in File, NEW stride \in 0 .. MaxStride
               PROVE  LET chunks      == Split(f, chunkSize)
                          owned(lane) == {c \in chunks : OwnsChunk(lane, c[2], stride)}
                      IN  /\ owned("Adb") \cup owned("Wifi") = chunks
                          /\ owned("Adb") \cap owned("Wifi") = {}
                          /\ Cardinality(chunks) > 1 => owned("Adb") # {} /\ owned("Wifi") # {}
    BY DEF LanesShareTheFile
  <2> DEFINE chunks      == Split(f, chunkSize)
             owned(lane) == {c \in chunks : OwnsChunk(lane, c[2], stride)}
             modulus     == IF stride < 2 THEN 2 ELSE stride
  <2>1. chunkSize \in Nat /\ modulus \in Nat /\ modulus >= 2
    BY ChunkingAssumption
  <2>2. \A i : OwnsChunk("Wifi", i, stride) <=> ~ OwnsChunk("Adb", i, stride)
    BY DEF OwnsChunk
  <2>3. owned("Adb") \cup owned("Wifi") = chunks /\ owned("Adb") \cap owned("Wifi") = {}
    BY <2>2
  <2>4. ASSUME Cardinality(chunks) > 1 PROVE owned("Adb") # {} /\ owned("Wifi") # {}
    <3>1. NumChunks(f, chunkSize) > 1 /\ NumChunks(f, chunkSize) \in Nat
      BY <2>1, <2>4, SplitCardinality, ChunkCountIsPositive, ChunkingAssumption DEF NumChunks
    <3>2. <<f, 0>> \in chunks /\ <<f, 1>> \in chunks
      BY <3>1 DEF Split
    <3>3. 0 % modulus = 0 /\ 1 % modulus = 1
      <4> HIDE DEF modulus
      <4> QED
        BY <2>1
    <3>4. OwnsChunk("Adb", 0, stride) /\ OwnsChunk("Wifi", 1, stride)
      BY <3>3 DEF OwnsChunk
    <3> QED
      BY <3>2, <3>4
  <2> QED
    BY <2>3, <2>4
<1> QED
  BY <1>1, CutsWithItsSize, PTL
-----------------------------------------------------------------------------
(***************************************************************************)
(* The chunk size of a task.  The policies return one of a few values, the *)
(* largest of which is that of the whole task.                             *)
(***************************************************************************)
LEMMA GreatestIs ==
  ASSUME NEW S \in SUBSET Nat, NEW top \in S, \A n \in S : n <= top
  PROVE  Greatest(S) = top
<1>1. \E n \in S : \A m \in S : m <= n
  OBVIOUS
<1>2. Greatest(S) \in S /\ \A m \in S : m <= Greatest(S)
  BY <1>1 DEF Greatest
<1>3. PICK g \in Nat : g = Greatest(S)
  BY <1>2
<1>4. g <= top /\ top <= g /\ top \in Nat
  BY <1>2, <1>3
<1> QED
  BY <1>3, <1>4

\* Numbers up to a bound have a greatest one.
LEMMA GreatestOf ==
  ASSUME NEW S \in SUBSET Nat, S # {}, NEW bound \in Nat, \A n \in S : n <= bound
  PROVE  Greatest(S) \in S /\ \A n \in S : n <= Greatest(S)
<1> DEFINE above == {b \in Nat : \A n \in S : n <= b}
<1>1. bound \in above
  OBVIOUS
<1>2. PICK m \in above : \A x \in above : ~ (<<x, m>> \in OpToRel(<, Nat))
  BY <1>1, NatLessThanWellFounded, WFMin
<1>3. m \in Nat /\ \A n \in S : n \in Nat /\ n <= m
  BY <1>2
<1>4. m \in S
  <2> SUFFICES ASSUME m \notin S PROVE FALSE
    OBVIOUS
  <2>1. \A n \in S : n < m
    BY <1>3
  <2>2. PICK n \in S : n \in Nat /\ n < m
    BY <1>3, <2>1
  <2>3. m - 1 \in Nat /\ m - 1 < m
    BY <1>3, <2>2
  <2>4. \A x \in S : x <= m - 1
    BY <1>3, <2>1
  <2>5. m - 1 \in above
    BY <2>3, <2>4
  <2>6. <<m - 1, m>> \in OpToRel(<, Nat)
    BY <1>3, <2>3 DEF OpToRel
  <2> QED
    BY <1>2, <2>5, <2>6
<1> HIDE DEF above
<1> QED
  BY <1>3, <1>4, GreatestIs

\* A clamped size is within its bounds.
LEMMA ClampIsBetween ==
  ASSUME NEW n \in Nat, NEW low \in Nat, NEW high \in Nat, low <= high
  PROVE  LET m == Clamp(n, low, high)
         IN  /\ m \in Nat /\ low <= m /\ m <= high
             /\ low <= n /\ n <= high => m = n
BY DEF Clamp, AtLeast, AtMost

\* Raising a size and clamping it leaves alone what is between its first
\* result and the upper bound.
LEMMA ClampAgain ==
  ASSUME NEW a \in Nat, NEW low \in Nat, NEW high \in Nat, low <= a, a <= high,
         NEW r \in Nat, NEW again \in Nat,
         Clamp(AtLeast(r, a), low, high) <= again, again <= high
  PROVE  Clamp(AtLeast(again, a), low, high) = again
BY DEF Clamp, AtLeast, AtMost

(***************************************************************************)
(* Both policies raise a size that is asked for, within bounds.            *)
(***************************************************************************)
LEMMA WifiPolicy ==
  ASSUME NEW size \in Nat, NEW requested \in Nat
  PROVE  LET w == WifiTransferChunkSize(size, requested)
         IN  /\ w \in Nat /\ 64 <= w /\ w <= 8 * MiB
             /\ \A again \in Nat : w <= again /\ again <= 8 * MiB =>
                  WifiTransferChunkSize(size, again) = again
<1>1. MiB \in Nat /\ GiB = 1024 * MiB /\ 1024 <= MiB
  BY DEF MiB, GiB
<1>2. PICK top \in Nat : top = 8 * MiB /\ 64 <= top
  BY <1>1
<1>3. PICK a \in Nat : /\ 64 <= a /\ a <= top
                       /\ \A r : WifiTransferChunkSize(size, r) =
                                  Clamp(AtLeast(Clamp(r, 64, top), a), 64, top)
  <2> DEFINE Like(a) == \A r : WifiTransferChunkSize(size, r) =
                                  Clamp(AtLeast(Clamp(r, 64, top), a), 64, top)
  <2>1. CASE size >= 4 * GiB
    <3>1. Like(8 * MiB)
      BY <1>1, <1>2, <2>1 DEF WifiTransferChunkSize
    <3> QED
      BY <1>1, <1>2, <3>1
  <2>2. CASE size >= GiB /\ size < 4 * GiB
    <3>1. Like(4 * MiB)
      BY <1>1, <1>2, <2>2 DEF WifiTransferChunkSize
    <3> QED
      BY <1>1, <1>2, <3>1
  <2>3. CASE size >= 128 * MiB /\ size < GiB
    <3>1. Like(2 * MiB)
      BY <1>1, <1>2, <2>3 DEF WifiTransferChunkSize
    <3> QED
      BY <1>1, <1>2, <3>1
  <2>4. CASE size >= 16 * MiB /\ size < 128 * MiB
    <3>1. Like(MiB)
      BY <1>1, <1>2, <2>4 DEF WifiTransferChunkSize
    <3> QED
      BY <1>1, <1>2, <3>1
  <2>5. CASE size >= MiB /\ size < 16 * MiB
    <3>1. Like(512)
      BY <1>1, <1>2, <2>5 DEF WifiTransferChunkSize
    <3> QED
      BY <1>1, <1>2, <3>1
  <2>6. CASE size > 0 /\ size < MiB
    <3>1. Like(256)
      BY <1>1, <1>2, <2>6 DEF WifiTransferChunkSize
    <3> QED
      BY <1>1, <1>2, <3>1
  <2>7. CASE size = 0
    <3>1. Like(MiB)
      BY <1>1, <1>2, <2>7 DEF WifiTransferChunkSize
    <3> QED
      BY <1>1, <1>2, <3>1
  <2> QED
    BY <1>1, <2>1, <2>2, <2>3, <2>4, <2>5, <2>6, <2>7
<1>4. PICK c \in Nat : c = Clamp(requested, 64, top)
  BY <1>2, ClampIsBetween
<1>5. PICK r \in Nat : r = AtLeast(c, a)
  BY <1>3, <1>4 DEF AtLeast
<1>6. PICK w \in Nat : w = Clamp(r, 64, top) /\ 64 <= w /\ w <= top
  BY <1>2, <1>5, ClampIsBetween
<1>7. WifiTransferChunkSize(size, requested) = w
  BY <1>3, <1>4, <1>5, <1>6
<1>8. ASSUME NEW again \in Nat, w <= again, again <= top
      PROVE  WifiTransferChunkSize(size, again) = again
  <2>1. Clamp(again, 64, top) = again
    BY <1>2, <1>6, <1>8, ClampIsBetween
  <2>2. Clamp(AtLeast(again, a), 64, top) = again
    BY <1>2, <1>3, <1>4, <1>5, <1>6, <1>8, ClampAgain
  <2> QED
    BY <1>3, <2>1, <2>2
<1> QED
  BY <1>2, <1>6, <1>7, <1>8

\* The policy of the lanes that share a file, likewise.
LEMMA DualPolicy ==
  ASSUME NEW size \in Nat, NEW requested \in Nat
  PROVE  LET w == DualSameFileChunkSize(size, requested)
         IN  /\ w \in Nat /\ 1 <= w /\ w <= 64 * MiB
             /\ \A again \in Nat : w <= again /\ again <= 64 * MiB =>
                  DualSameFileChunkSize(size, again) = again
<1>1. MiB \in Nat /\ GiB = 1024 * MiB /\ 1024 <= MiB
  BY DEF MiB, GiB
<1>2. PICK top \in Nat : top = 64 * MiB /\ 1 <= top
  BY <1>1
<1>3. PICK a \in Nat : /\ 1 <= a /\ a <= top
                       /\ \A r : DualSameFileChunkSize(size, r) =
                                  Clamp(AtLeast(r, a), 1, top)
  <2> DEFINE Like(a) == \A r : DualSameFileChunkSize(size, r) =
                                  Clamp(AtLeast(r, a), 1, top)
  <2>1. CASE size >= 4 * GiB
    <3>1. Like(64 * MiB)
      BY <1>1, <1>2, <2>1 DEF DualSameFileChunkSize
    <3> QED
      BY <1>1, <1>2, <3>1
  <2>2. CASE size >= GiB /\ size < 4 * GiB
    <3>1. Like(32 * MiB)
      BY <1>1, <1>2, <2>2 DEF DualSameFileChunkSize
    <3> QED
      BY <1>1, <1>2, <3>1
  <2>3. CASE size < GiB
    <3>1. Like(8 * MiB)
      BY <1>1, <1>2, <2>3 DEF DualSameFileChunkSize
    <3> QED
      BY <1>1, <1>2, <3>1
  <2> QED
    BY <1>1, <2>1, <2>2, <2>3
<1>4. PICK r \in Nat : r = AtLeast(requested, a)
  BY <1>3 DEF AtLeast
<1>5. PICK w \in Nat : w = Clamp(r, 1, top) /\ 1 <= w /\ w <= top
  BY <1>2, <1>4, ClampIsBetween
<1>6. DualSameFileChunkSize(size, requested) = w
  BY <1>3, <1>4, <1>5
<1>7. ASSUME NEW again \in Nat, w <= again, again <= top
      PROVE  DualSameFileChunkSize(size, again) = again
  <2>1. Clamp(AtLeast(again, a), 1, top) = again
    BY <1>2, <1>3, <1>4, <1>5, <1>7, ClampAgain
  <2> QED
    BY <1>3, <2>1
<1> QED
  BY <1>2, <1>5, <1>6, <1>7

(***************************************************************************)
(* The size for all files of a task is one the policy leaves alone for     *)
(* each of them, and so for all of them.                                   *)
(***************************************************************************)
LEMMA WifiTaskSettles ==
  ASSUME NEW sizes \in SUBSET Nat, NEW requested \in Nat
  PROVE  \E size \in Nat \ {0} :
           /\ WifiTaskChunkSize(sizes, requested) = size
           /\ WifiTaskChunkSize(sizes, size) = size
<1>1. PICK top \in Nat : top = 8 * MiB
  BY DEF MiB
<1>2. CASE sizes = {}
  <2>1. PICK w \in Nat : /\ w = WifiTransferChunkSize(0, requested) /\ 64 <= w
                         /\ WifiTransferChunkSize(0, w) = w
    <3>1. PICK w \in Nat : /\ w = WifiTransferChunkSize(0, requested)
                           /\ 64 <= w /\ w <= 8 * MiB
                           /\ \A again \in Nat : w <= again /\ again <= 8 * MiB =>
                                WifiTransferChunkSize(0, again) = again
      BY WifiPolicy
    <3> QED
      BY <3>1
  <2> QED
    BY <1>2, <2>1 DEF WifiTaskChunkSize
<1>3. CASE sizes # {}
  <2> DEFINE Of(r) == {WifiTransferChunkSize(s, r) : s \in sizes}
             S == Of(requested)
  <2>1. \A s \in sizes : s \in Nat
    OBVIOUS
  <2>2. ASSUME NEW s \in sizes
        PROVE  LET w == WifiTransferChunkSize(s, requested)
               IN  /\ w \in Nat /\ 64 <= w /\ w <= top
                   /\ \A again \in Nat : w <= again /\ again <= top =>
                        WifiTransferChunkSize(s, again) = again
    BY <1>1, <2>1, WifiPolicy
  <2>3. S \in SUBSET Nat /\ S # {} /\ \A n \in S : 64 <= n /\ n <= top
    BY <1>3, <2>2
  <2>4. \A s \in sizes : WifiTransferChunkSize(s, requested) \in S
    OBVIOUS
  <2> HIDE DEF S
  <2>5. PICK size : size = Greatest(S)
    OBVIOUS
  <2>6. size \in S /\ \A n \in S : n <= size
    BY <1>1, <2>3, <2>5, GreatestOf
  <2>7. size \in Nat /\ 64 <= size /\ size <= top
    BY <2>3, <2>6
  <2>8. ASSUME NEW s \in sizes PROVE WifiTransferChunkSize(s, size) = size
    BY <2>2, <2>4, <2>6, <2>7
  <2>9. Of(size) = {size}
    BY <1>3, <2>8
  <2>10. Greatest({size}) = size
    BY <2>7, GreatestIs
  <2>11. WifiTaskChunkSize(sizes, size) = size
    BY <1>3, <2>9, <2>10 DEF WifiTaskChunkSize
  <2>12. WifiTaskChunkSize(sizes, requested) = size
    BY <1>3, <2>5 DEF WifiTaskChunkSize, S
  <2> QED
    BY <2>7, <2>11, <2>12
<1> QED
  BY <1>2, <1>3

\* In a Dual task the large files count, and a task without any keeps the size
\* that was asked for.
LEMMA DualTaskSettles ==
  ASSUME NEW sizes \in SUBSET Nat, NEW requested \in Nat \ {0}
  PROVE  \E size \in Nat \ {0} :
           /\ DualTaskChunkSize(sizes, requested) = size
           /\ DualTaskChunkSize(sizes, size) = size
           /\ \A s \in LargeOf(sizes) : DualSameFileChunkSize(s, size) = size
<1>1. PICK top \in Nat : top = 64 * MiB
  BY DEF MiB
<1>2. CASE LargeOf(sizes) = {}
  BY <1>2 DEF DualTaskChunkSize
<1>3. CASE LargeOf(sizes) # {}
  <2> DEFINE Of(r) == {DualSameFileChunkSize(s, r) : s \in LargeOf(sizes)}
             S == Of(requested)
  <2>1. \A s \in LargeOf(sizes) : s \in Nat
    BY DEF LargeOf
  <2>2. ASSUME NEW s \in LargeOf(sizes)
        PROVE  LET w == DualSameFileChunkSize(s, requested)
               IN  /\ w \in Nat /\ 1 <= w /\ w <= top
                   /\ \A again \in Nat : w <= again /\ again <= top =>
                        DualSameFileChunkSize(s, again) = again
    BY <1>1, <2>1, DualPolicy
  <2>3. S \in SUBSET Nat /\ S # {} /\ \A n \in S : 1 <= n /\ n <= top
    BY <1>3, <2>2
  <2>4. \A s \in LargeOf(sizes) : DualSameFileChunkSize(s, requested) \in S
    OBVIOUS
  <2> HIDE DEF S
  <2>5. PICK size : size = Greatest(S)
    OBVIOUS
  <2>6. size \in S /\ \A n \in S : n <= size
    BY <1>1, <2>3, <2>5, GreatestOf
  <2>7. size \in Nat /\ 1 <= size /\ size <= top
    BY <2>3, <2>6
  <2>8. ASSUME NEW s \in LargeOf(sizes) PROVE DualSameFileChunkSize(s, size) = size
    BY <2>2, <2>4, <2>6, <2>7
  <2>9. Of(size) = {size}
    BY <1>3, <2>8
  <2>10. Greatest({size}) = size
    BY <2>7, GreatestIs
  <2>11. DualTaskChunkSize(sizes, size) = size
    BY <1>3, <2>9, <2>10 DEF DualTaskChunkSize
  <2>12. DualTaskChunkSize(sizes, requested) = size
    BY <1>3, <2>5 DEF DualTaskChunkSize, S
  <2> QED
    BY <2>7, <2>8, <2>11, <2>12
<1> QED
  BY <1>2, <1>3
-----------------------------------------------------------------------------
(***************************************************************************)
(* The copies of the chunk size agree: the record has the engine's, what a *)
(* start settled on it settles on again, and the workers have that.        *)
(***************************************************************************)
SizesInOrder ==
  /\ task \in {"Adb", "Wifi", "Dual", "WifiPull"}
  /\ source \in SUBSET Nat
  /\ listed \in SUBSET Nat
  /\ stage \in {"draft", "created", "started"}
  /\ stage = "draft" => workers = {}
  /\ stage # "draft" => engine \in Nat \ {0} /\ record = engine
  /\ stage = "started" => StartChunkSize(listed) = record
  /\ WorkersUseTheEngineSplit

\* What a start settles on from a size above zero.
LEMMA StartSettles ==
  ASSUME task \in {"Adb", "Wifi", "Dual", "WifiPull"},
         NEW sizes \in SUBSET Nat, record \in Nat \ {0}
  PROVE  \E size \in Nat \ {0} :
           /\ StartChunkSize(sizes) = size
           /\ task = "Adb" => size = record
           /\ task \in {"Wifi", "WifiPull"} => WifiTaskChunkSize(sizes, size) = size
           /\ task = "Dual" => DualTaskChunkSize(sizes, size) = size
           /\ WorkerChunkSizes(sizes, size) = {size}
<1>1. CASE task = "Adb"
  BY <1>1 DEF StartChunkSize, WorkerChunkSizes
<1>2. CASE task \in {"Wifi", "WifiPull"}
  BY <1>2, WifiTaskSettles DEF StartChunkSize, WorkerChunkSizes
<1>3. CASE task = "Dual"
  <2>1. PICK size \in Nat \ {0} :
          /\ DualTaskChunkSize(sizes, record) = size
          /\ DualTaskChunkSize(sizes, size) = size
          /\ \A s \in LargeOf(sizes) : DualSameFileChunkSize(s, size) = size
    BY DualTaskSettles
  <2>2. {DualSameFileChunkSize(s, size) : s \in LargeOf(sizes)} \subseteq {size}
    BY <2>1
  <2>3. WorkerChunkSizes(sizes, size) = {size}
    BY <1>3, <2>2 DEF WorkerChunkSizes
  <2> QED
    BY <1>3, <2>1, <2>3 DEF StartChunkSize
<1> QED
  BY <1>1, <1>2, <1>3

\* The sizes of the files of a source.
LEMMA SourcesAreSizes ==
  \A S \in Sources : S \in SUBSET Nat
BY ChunkSizingAssumption DEF Sources

\* A draft has nothing to disagree about.
LEMMA SizesInOrderInit ==
  SizingInit => SizesInOrder
BY SourcesAreSizes, ChunkSizingAssumption
   DEF SizingInit, SizesInOrder, WorkersUseTheEngineSplit

\* Every step keeps the copies in agreement, as long as records are written.
LEMMA SizesInOrderStep ==
  ASSUME RecordIoErrors = FALSE, SizesInOrder, [SizingNext]_sizingVars
  PROVE  SizesInOrder'
<1> USE DEF SizesInOrder
<1>1. ASSUME NEW request \in Requests, CreateTransferTask(request)
      PROVE  SizesInOrder'
  <2>1. request \in Nat \ {0}
    BY ChunkSizingAssumption
  <2>2. engine' \in Nat \ {0}
    BY <1>1, <2>1, DualTaskSettles DEF CreateTransferTask
  <2>3. workers' = {} /\ stage' = "created"
    BY <1>1 DEF CreateTransferTask
  <2> QED
    BY <1>1, <2>2, <2>3 DEF CreateTransferTask, WorkersUseTheEngineSplit
<1>2. CASE StartTransferTask
  <2> DEFINE sizes == IF task = "WifiPull" THEN listed ELSE source
  <2>1. sizes \in SUBSET Nat
    OBVIOUS
  <2>2. record \in Nat \ {0} /\ record = engine
    BY <1>2 DEF StartTransferTask
  <2>3. listed' = sizes /\ task' = task /\ source' = source /\ stage' = "started"
    BY <1>2 DEF StartTransferTask
  <2> HIDE DEF sizes
  <2>4. PICK size \in Nat \ {0} :
          /\ StartChunkSize(sizes) = size
          /\ task = "Adb" => size = record
          /\ task \in {"Wifi", "WifiPull"} => WifiTaskChunkSize(sizes, size) = size
          /\ task = "Dual" => DualTaskChunkSize(sizes, size) = size
          /\ WorkerChunkSizes(sizes, size) = {size}
    BY <2>1, <2>2, StartSettles
  <2>5. Resize(size) /\ workers' = {size}
    BY <1>2, <2>4 DEF StartTransferTask, sizes
  <2>6. record' = size /\ engine' = size
    BY <2>2, <2>4, <2>5 DEF Resize, AtLeast
  <2>7. StartChunkSize(listed)' = record'
    BY <2>3, <2>4, <2>6 DEF StartChunkSize
  <2>8. WorkersUseTheEngineSplit'
    BY <2>5, <2>6 DEF WorkersUseTheEngineSplit
  <2> QED
    BY <2>1, <2>3, <2>4, <2>6, <2>7, <2>8
<1>3. CASE WorkersStop
  BY <1>3 DEF WorkersStop, WorkersUseTheEngineSplit, StartChunkSize
<1>4. CASE SourceChanges
  BY <1>4, SourcesAreSizes DEF SourceChanges, Sources, WorkersUseTheEngineSplit, StartChunkSize
<1>5. CASE UNCHANGED sizingVars
  BY <1>5 DEF sizingVars, WorkersUseTheEngineSplit, StartChunkSize
<1> QED
  BY <1>1, <1>2, <1>3, <1>4, <1>5 DEF SizingNext

\* The copies agree in every state.
LEMMA SizesAreInOrder ==
  ASSUME RecordIoErrors = FALSE
  PROVE  SizingSpec => []SizesInOrder
<1>1. SizesInOrder /\ [SizingNext]_sizingVars => SizesInOrder'
  BY SizesInOrderStep
<1> QED
  BY <1>1, SizesInOrderInit, PTL DEF SizingSpec

(***************************************************************************)
(* Every worker cuts its files with the engine's chunk size, for files of  *)
(* any size and any size a draft asks for, unless a .task record cannot be *)
(* written.                                                                *)
(***************************************************************************)
THEOREM WorkersCutAlike ==
  ASSUME RecordIoErrors = FALSE
  PROVE  SizingSpec => []WorkersUseTheEngineSplit
<1>1. SizesInOrder => WorkersUseTheEngineSplit
  BY DEF SizesInOrder
<1> QED
  BY <1>1, SizesAreInOrder, PTL

(***************************************************************************)
(* A task that starts again over the files it started with keeps the chunk *)
(* size under which its checkpoint was recorded.                           *)
(***************************************************************************)
THEOREM RestartsKeepTheSplit ==
  ASSUME RecordIoErrors = FALSE
  PROVE  SizingSpec => RestartKeepsTheSplit
<1>1. ASSUME SizesInOrder, [SizingNext]_sizingVars, stage = "started", listed' = listed
      PROVE  engine' = engine
  <2>1. CASE StartTransferTask
    <3>1. Resize(StartChunkSize(listed))
      BY <1>1, <2>1 DEF StartTransferTask
    <3>2. StartChunkSize(listed) = record
      BY <1>1 DEF SizesInOrder
    <3> QED
      BY <3>1, <3>2 DEF Resize
  <2>2. ASSUME NEW request \in Requests, CreateTransferTask(request) PROVE engine' = engine
    BY <1>1, <2>2 DEF CreateTransferTask
  <2>3. CASE WorkersStop \/ SourceChanges \/ UNCHANGED sizingVars
    BY <2>3 DEF WorkersStop, SourceChanges, sizingVars
  <2> QED
    BY <1>1, <2>1, <2>2, <2>3 DEF SizingNext
<1>2. SizesInOrder /\ [SizingNext]_sizingVars
        => [stage = "started" /\ listed' = listed => engine' = engine]_sizingVars
  BY <1>1
<1> QED
  BY <1>2, SizesAreInOrder, PTL DEF SizingSpec, RestartKeepsTheSplit
=============================================================================
