--------------------------- MODULE ChunkingProofs ---------------------------
(***************************************************************************)
(* Facts about the chunks and bytes of a task, for every number of files,  *)
(* file size and chunk size.                                               *)
(***************************************************************************)
EXTENDS Chunking, FiniteSetTheorems, TLAPS

(***************************************************************************)
(* split_into_chunks always gives at least one chunk.                      *)
(***************************************************************************)
LEMMA ChunkCountIsPositive ==
  ASSUME NEW size \in Nat, NEW chunkSize \in Nat
  PROVE  ChunkCount(size, chunkSize) \in Nat \ {0}
<1> DEFINE k == AtLeastOne(chunkSize)
<1>1. k \in Nat /\ k > 0
  BY DEF AtLeastOne
<1>2. CASE size = 0
  BY <1>2 DEF ChunkCount
<1>3. CASE size # 0
  <2>1. size + k - 1 \in Nat /\ size + k - 1 >= k
    BY <1>1, <1>3
  <2> HIDE DEF k
  <2>2. (size + k - 1) \div k \in Nat \ {0}
    BY <1>1, <2>1
  <2> QED
    BY <1>3, <2>2 DEF ChunkCount, k
<1> QED
  BY <1>2, <1>3

(***************************************************************************)
(* The splits are made of chunks, and there are finitely many of them.     *)
(***************************************************************************)
LEMMA SplitIsFinite ==
  ASSUME NEW f \in File, NEW chunkSize \in Nat
  PROVE  Split(f, chunkSize) \subseteq {f} \X Nat /\ IsFiniteSet(Split(f, chunkSize))
<1>1. NumChunks(f, chunkSize) \in Nat \ {0}
  BY ChunkingAssumption, ChunkCountIsPositive DEF NumChunks
<1>2. IsFiniteSet(0 .. (NumChunks(f, chunkSize) - 1))
  BY <1>1, FS_Interval
<1>3. IsFiniteSet({f})
  BY FS_Singleton
<1>4. IsFiniteSet({f} \X (0 .. (NumChunks(f, chunkSize) - 1)))
  BY <1>2, <1>3, FS_Product
<1> QED
  BY <1>1, <1>4 DEF Split

\* The split of any number of the files is a finite set of chunks.
LEMMA SplitAllIsFinite ==
  ASSUME NEW n \in 0 .. NFiles, NEW chunkSize \in Nat
  PROVE  SplitAll(n, chunkSize) \subseteq Chunk /\ IsFiniteSet(SplitAll(n, chunkSize))
<1> DEFINE F   == 0 .. (n - 1)
           map == [f \in F |-> Split(f, chunkSize)]
           S   == {Split(f, chunkSize) : f \in F}
<1>1. F \subseteq File /\ IsFiniteSet(F)
  BY ChunkingAssumption, FS_Interval DEF File
<1>2. map \in Surjection(F, S)
  BY DEF Surjection
<1>3. IsFiniteSet(S)
  BY <1>1, <1>2, FS_Surjection
<1>4. \A T \in S : IsFiniteSet(T) /\ T \subseteq Chunk
  BY <1>1, SplitIsFinite DEF Chunk
<1>5. IsFiniteSet(UNION S)
  BY <1>3, <1>4, FS_UNION
<1> QED
  BY <1>4, <1>5 DEF SplitAll

(***************************************************************************)
(* A chunk of the task is a chunk of one file.                             *)
(***************************************************************************)
LEMMA ChunkOfSplitAll ==
  ASSUME NEW n \in 0 .. NFiles, NEW chunkSz \in Nat, NEW c
  PROVE  c \in SplitAll(n, chunkSz) <=> \E f \in 0 .. (n - 1) : c \in Split(f, chunkSz) /\ c[1] = f
  BY DEF SplitAll, Split

(***************************************************************************)
(* A chunk of the task is a chunk of the first n files if its file is one  *)
(* of them.                                                                *)
(***************************************************************************)
LEMMA SplitAllOfFewerFiles ==
  ASSUME NEW n \in 0 .. NFiles, NEW chunkSz \in Nat,
         NEW c \in SplitAll(NFiles, chunkSz)
  PROVE  c[1] < n <=> c \in SplitAll(n, chunkSz)
<1>1. NFiles \in 0 .. NFiles
  BY ChunkingAssumption
<1>2. PICK f \in 0 .. (NFiles - 1) : c \in Split(f, chunkSz) /\ c[1] = f
  BY <1>1, ChunkOfSplitAll
<1>3. f < n <=> f \in 0 .. (n - 1)
  BY <1>1, <1>2
<1> QED
  BY <1>2, <1>3, ChunkOfSplitAll

(***************************************************************************)
(* A file has as many chunks as split_into_chunks counts.                  *)
(***************************************************************************)
LEMMA SplitCardinality ==
  ASSUME NEW f \in File, NEW chunkSz \in Nat
  PROVE  IsFiniteSet(Split(f, chunkSz)) /\ Cardinality(Split(f, chunkSz)) = NumChunks(f, chunkSz)
<1> DEFINE n == NumChunks(f, chunkSz)
           I == 0 .. (n - 1)
<1>1. n \in Nat \ {0}
  BY ChunkingAssumption, ChunkCountIsPositive DEF NumChunks
<1> HIDE DEF n
<1>2. IsFiniteSet(I) /\ Cardinality(I) = n
  BY <1>1, FS_Interval
<1>3. IsFiniteSet({f}) /\ Cardinality({f}) = 1
  BY FS_Singleton
<1>4. IsFiniteSet({f} \X I) /\ Cardinality({f} \X I) = Cardinality({f}) * Cardinality(I)
  BY <1>2, <1>3, FS_Product
<1>5. Split(f, chunkSz) = {f} \X I
  BY DEF Split, n
<1> QED
  BY <1>1, <1>2, <1>3, <1>4, <1>5 DEF n

(***************************************************************************)
(* A task has finitely many bytes, so any set of chunks covers a number of *)
(* them.                                                                   *)
(***************************************************************************)
LEMMA AllBytesIsFinite == IsFiniteSet(AllBytes)
<1> DEFINE map == [f \in File |-> Bytes(f)]
           S   == {Bytes(f) : f \in File}
<1>1. IsFiniteSet(File)
  BY ChunkingAssumption, FS_Interval DEF File
<1>2. map \in Surjection(File, S)
  BY DEF Surjection
<1>3. IsFiniteSet(S)
  BY <1>1, <1>2, FS_Surjection
<1>4. ASSUME NEW f \in File PROVE IsFiniteSet(Bytes(f))
  <2>1. CASE FileSize[f] = 0
    BY <2>1, FS_EmptySet DEF Bytes
  <2>2. CASE FileSize[f] # 0
    <3>1. IsFiniteSet(0 .. (FileSize[f] - 1))
      BY ChunkingAssumption, FS_Interval
    <3>2. IsFiniteSet({f})
      BY FS_Singleton
    <3>3. IsFiniteSet({f} \X (0 .. (FileSize[f] - 1)))
      BY <3>1, <3>2, FS_Product
    <3> QED
      BY <2>2, <3>3 DEF Bytes
  <2> QED
    BY <2>1, <2>2
<1>5. \A T \in S : IsFiniteSet(T)
  BY <1>4
<1>6. IsFiniteSet(UNION S)
  BY <1>3, <1>5, FS_UNION
<1> QED
  BY <1>6 DEF AllBytes

\* So is the set of bytes some chunks cover.
LEMMA BytesOfIsFinite ==
  ASSUME NEW S, NEW chunkSize
  PROVE  IsFiniteSet(BytesOf(S, chunkSize)) /\ Cardinality(BytesOf(S, chunkSize)) \in Nat
<1>1. BytesOf(S, chunkSize) \in SUBSET AllBytes
  BY DEF BytesOf
<1>2. IsFiniteSet(BytesOf(S, chunkSize))
  BY <1>1, AllBytesIsFinite, FS_Subset
<1> QED
  BY <1>2, FS_CardinalityType

(***************************************************************************)
(* The bytes of a set of chunks cut in two are shared out between the two  *)
(* parts: adding up lane by lane is adding up.                             *)
(***************************************************************************)
LEMMA BytesOfParts ==
  ASSUME NEW S, NEW T, NEW chunkSize, S \cap T = {}
  PROVE  Cardinality(BytesOf(S \cup T, chunkSize))
         = Cardinality(BytesOf(S, chunkSize)) + Cardinality(BytesOf(T, chunkSize))
<1> DEFINE A == BytesOf(S, chunkSize)
           B == BytesOf(T, chunkSize)
<1>1. BytesOf(S \cup T, chunkSize) = A \cup B /\ A \cap B = {}
  BY DEF BytesOf
<1>2. /\ IsFiniteSet(A) /\ IsFiniteSet(B)
      /\ Cardinality(A) \in Nat /\ Cardinality(B) \in Nat
  BY BytesOfIsFinite
<1> HIDE DEF A, B
<1>3. Cardinality(A \cup B) = Cardinality(A) + Cardinality(B) - Cardinality(A \cap B)
  BY <1>2, FS_Union
<1>4. Cardinality(A \cap B) = 0
  BY <1>1, FS_EmptySet
<1>5. Cardinality(A \cup B) = Cardinality(A) + Cardinality(B)
  BY <1>2, <1>3, <1>4
<1> QED
  BY <1>1, <1>5 DEF A, B

(***************************************************************************)
(* Integer division, by what it leaves.                                    *)
(***************************************************************************)
LEMMA Quotient ==
  ASSUME NEW a \in Nat, NEW k \in Nat \ {0}
  PROVE  a \div k \in Nat /\ k * (a \div k) <= a /\ a < k * (a \div k) + k
  OBVIOUS

\* The quotient is the only number that leaves less than the divisor.
LEMMA QuotientIs ==
  ASSUME NEW a \in Nat, NEW k \in Nat \ {0}, NEW q \in Nat, k * q <= a, a < k * q + k
  PROVE  a \div k = q
  OBVIOUS

(***************************************************************************)
(* Multiplication by a natural number keeps the order.                     *)
(***************************************************************************)
LEMMA ProductsInOrder ==
  ASSUME NEW p \in Nat, NEW q \in Nat, NEW k \in Nat, k * p < k * q
  PROVE  p < q
  OBVIOUS

(***************************************************************************)
(* The chunk a byte belongs to is one of those split_into_chunks makes.    *)
(***************************************************************************)
LEMMA ByteIsInSomeChunk ==
  ASSUME NEW size \in Nat, NEW b \in 0 .. (size - 1), NEW chunkSize \in Nat
  PROVE  b \div AtLeastOne(chunkSize) \in 0 .. (ChunkCount(size, chunkSize) - 1)
<1> DEFINE k == AtLeastOne(chunkSize)
           q == b \div k
           n == (size + k - 1) \div k
<1>1. k \in Nat \ {0}
  BY DEF AtLeastOne
<1>2. ChunkCount(size, chunkSize) = n
  BY DEF ChunkCount
<1> HIDE DEF k
<1>3. q \in Nat /\ k * q <= b
  BY <1>1, Quotient
<1>4. size + k - 1 \in Nat /\ n \in Nat /\ size + k - 1 < k * n + k
  BY <1>1, Quotient
<1> HIDE DEF q, n
<1>5. k * q < k * n
  <2> DEFINE x == k * q
             y == k * n
  <2>1. x \in Nat /\ y \in Nat
    BY <1>1, <1>3, <1>4
  <2>2. x <= b /\ size + k - 1 < y + k
    BY <1>3, <1>4
  <2> HIDE DEF x, y
  <2>3. x < y
    BY <1>1, <2>1, <2>2
  <2> QED
    BY <2>3 DEF x, y
<1>6. q < n
  BY <1>1, <1>3, <1>4, <1>5, ProductsInOrder
<1> QED
  BY <1>2, <1>3, <1>4, <1>6 DEF q, k

(***************************************************************************)
(* The chunks of a file cover its bytes and no others; those of all files  *)
(* cover every byte of the task.                                           *)
(***************************************************************************)
LEMMA SplitCoversTheFile ==
  ASSUME NEW f \in File, NEW chunkSize \in Nat
  PROVE  BytesOf(Split(f, chunkSize), chunkSize) = Bytes(f)
<1>1. ASSUME NEW b \in Bytes(f) PROVE ChunkOf(b, chunkSize) \in Split(f, chunkSize)
  <2>1. FileSize[f] \in Nat /\ b[1] = f /\ b[2] \in 0 .. (FileSize[f] - 1)
    BY ChunkingAssumption DEF Bytes
  <2>2. b[2] \div AtLeastOne(chunkSize) \in 0 .. (NumChunks(f, chunkSize) - 1)
    BY <2>1, ByteIsInSomeChunk DEF NumChunks
  <2> QED
    BY <2>1, <2>2 DEF ChunkOf, Split
<1>2. ASSUME NEW b \in AllBytes, ChunkOf(b, chunkSize) \in Split(f, chunkSize)
      PROVE  b \in Bytes(f)
  <2>1. PICK g \in File : b \in Bytes(g)
    BY DEF AllBytes
  <2>2. b[1] = g
    BY <2>1 DEF Bytes
  <2> QED
    BY <1>2, <2>1, <2>2 DEF ChunkOf, Split
<1> QED
  BY <1>1, <1>2 DEF BytesOf, AllBytes

\* The splits of all files cover all bytes.
LEMMA SplitsCoverAllBytes ==
  ASSUME NEW chunkSize \in Nat
  PROVE  BytesOf(SplitAll(NFiles, chunkSize), chunkSize) = AllBytes
<1> SUFFICES ASSUME NEW f \in File, NEW b \in Bytes(f)
             PROVE  b \in BytesOf(SplitAll(NFiles, chunkSize), chunkSize)
  BY DEF AllBytes, BytesOf
<1>1. b \in BytesOf(Split(f, chunkSize), chunkSize)
  BY SplitCoversTheFile
<1> QED
  BY <1>1 DEF BytesOf, SplitAll, File

-----------------------------------------------------------------------------
(***************************************************************************)
(* A chunk covers as many bytes of its file as split_into_chunks says it   *)
(* has.                                                                    *)
(***************************************************************************)
LEMMA ChunkHoldsItsLength ==
  ASSUME NEW f \in File, NEW chunkSz \in Nat, NEW i \in Nat
  PROVE  Cardinality(BytesOf({<<f, i>>}, chunkSz)) = Length(FileSize[f], chunkSz, i)
<1> DEFINE k    == AtLeastOne(chunkSz)
           size == FileSize[f]
           lo   == k * i
           hi   == IF lo + k <= size THEN lo + k ELSE size
           held == {b \in 0 .. (size - 1) : b \div k = i}
<1>1. k \in Nat \ {0} /\ size \in Nat
  BY ChunkingAssumption DEF AtLeastOne
<1>2. Offset(chunkSz, i) = lo
  BY <1>1 DEF Offset
<1>3. Length(size, chunkSz, i) = IF lo <= size THEN hi - lo ELSE 0
  <2>1. lo \in Nat
    BY <1>1
  <2> HIDE DEF lo, k, size
  <2> QED
    BY <1>1, <1>2, <2>1 DEF Length, k
<1>4. BytesOf({<<f, i>>}, chunkSz) = {f} \X held
  <2>1. ASSUME NEW b, b \in AllBytes, ChunkOf(b, chunkSz) = <<f, i>>
        PROVE  b \in {f} \X held
    <3>1. PICK g \in File : b \in Bytes(g)
      BY <2>1 DEF AllBytes
    <3>2. b = <<g, b[2]>> /\ b[2] \in 0 .. (FileSize[g] - 1)
      BY <3>1 DEF Bytes
    <3> QED
      BY <2>1, <3>2 DEF ChunkOf
  <2>2. ASSUME NEW b \in held PROVE <<f, b>> \in BytesOf({<<f, i>>}, chunkSz)
    BY <1>1 DEF Bytes, AllBytes, BytesOf, ChunkOf
  <2> QED
    BY <2>1, <2>2 DEF BytesOf
<1>5. held = IF lo <= size THEN lo .. (hi - 1) ELSE {}
  <2>1. ASSUME NEW b \in Nat PROVE b \div k = i <=> lo <= b /\ b < lo + k
    BY <1>1, Quotient, QuotientIs
  <2>2. lo \in Nat
    BY <1>1
  <2> HIDE DEF lo, k, size
  <2> QED
    BY <1>1, <2>1, <2>2
<1> HIDE DEF held
<1>6. IsFiniteSet(held) /\ Cardinality(held) = IF lo <= size THEN hi - lo ELSE 0
  <2>1. lo \in Nat
    BY <1>1
  <2> HIDE DEF lo, k, size
  <2>2. CASE lo <= size
    <3>1. hi \in Int /\ lo <= hi /\ lo \in Int
      BY <1>1, <2>1, <2>2
    <3> HIDE DEF hi
    <3>2. /\ IsFiniteSet(lo .. (hi - 1))
          /\ Cardinality(lo .. (hi - 1)) = hi - lo
      <4> DEFINE range == lo .. (hi - 1)
      <4>1. hi - 1 \in Int
        BY <3>1
      <4>2. /\ IsFiniteSet(range)
            /\ Cardinality(range) = IF lo > hi - 1 THEN 0 ELSE (hi - 1) - lo + 1
        BY <3>1, <4>1, FS_Interval
      <4> HIDE DEF range
      <4>3. IsFiniteSet(range) /\ Cardinality(range) = hi - lo
        BY <3>1, <4>2
      <4> QED
        BY <4>3 DEF range
    <3> QED
      BY <1>5, <2>2, <3>2, Zenon
  <2>3. CASE ~ (lo <= size)
    BY <1>5, <2>3, FS_EmptySet
  <2> QED
    BY <2>2, <2>3
<1>7. Cardinality({f} \X held) = Cardinality(held)
  <2>1. IsFiniteSet({f}) /\ Cardinality({f}) = 1
    BY FS_Singleton
  <2>2. Cardinality(held) \in Nat
    BY <1>6, FS_CardinalityType
  <2> QED
    BY <1>6, <2>1, <2>2, FS_Product
<1> QED
  BY <1>3, <1>4, <1>6, <1>7

=============================================================================
