---------------------------- MODULE FwLoadProofs ----------------------------
(* Theorems about FwLoad for files of every size.                          *)
EXTENDS FwLoad, TLAPS

\* ret says how far the mapping got: nothing is mapped or described before
\* the mapping or after a failure; after a success the whole file's range is
\* mapped, and nothing is described while it is read.
MappingInv ==
  /\ pc \in {"open", "stat", "map"} => ret = "none"
  /\ pc \in {"read", "loaded"} => ret = "ok" /\ dmab = 0
  /\ pc \in {"close", "return", "prepare"} => ret \in {"ok", "error"}
  /\ ret = "ok" => window = size
  /\ ret # "ok" => window = 0 /\ dmab = 0

IInv == TypeOK /\ FileClosed /\ MappingInv

LEMMA InitIInv == Init => IInv
<1> SUFFICES ASSUME Init PROVE IInv
  OBVIOUS
<1>1. TypeOK
  <2>1. size \in Nat /\ size \in FileSizes
    BY SizesAssumption DEF Init
  <2>2. image \in [Offsets -> {Zero} \cup Offsets]
    BY DEF Init
  <2>3. fd \in BOOLEAN /\ stripped \in Indeterminate /\ fw = stripped
    BY Zenon DEF Init
  <2> QED  BY <2>1, <2>2, <2>3 DEF Init, TypeOK
<1>2. FileClosed /\ MappingInv
  BY DEF Init, FileClosed, MappingInv
<1> QED
  BY <1>1, <1>2 DEF IInv

\* A read keeps the image a map from the file's offsets to its bytes.
LEMMA ReadKeepsImage == ASSUME TypeOK, Read PROVE TypeOK'
<1>1. size \in Nat /\ readSize \in Nat /\ image \in [Offsets -> {Zero} \cup Offsets]
  BY SizesAssumption DEF TypeOK
<1>2. PICK n \in 1..size - readSize :
        /\ image' = [k \in Offsets |-> IF k < n THEN readSize + k ELSE image[k]]
        /\ readSize' = readSize + n
  BY DEF Read
<1>3. readSize' \in 0..size
  BY <1>1, <1>2
<1>4. ASSUME NEW k \in Offsets, k < n PROVE readSize + k \in Offsets
  BY <1>1, <1>2, <1>4 DEF Offsets
<1>5. image' \in [Offsets -> {Zero} \cup Offsets]
  BY <1>1, <1>2, <1>4
<1>6. UNCHANGED <<pc, size, ret, fd, window, dmab, fw, stripped, bufsize>>
  BY DEF Read
<1> QED
  BY <1>3, <1>5, <1>6 DEF TypeOK, Offsets

LEMMA NextIInv == IInv /\ [Next]_vars => IInv'
<1> SUFFICES ASSUME IInv, [Next]_vars PROVE IInv'
  OBVIOUS
<1> USE DEF IInv
<1>0. size \in Nat
  BY SizesAssumption DEF TypeOK
<1>1. CASE Open
  <2>1. TypeOK'
    BY <1>1 DEF Open, TypeOK, Offsets
  <2> QED  BY <2>1, <1>1 DEF Open, FileClosed, MappingInv
<1>2. CASE Stat
  <2>1. TypeOK'
    BY <1>2 DEF Stat, TypeOK, Offsets
  <2> QED  BY <2>1, <1>2 DEF Stat, FileClosed, MappingInv
<1>3. CASE Map
  <2>1. TypeOK'
    BY <1>3 DEF Map, TypeOK, Offsets
  <2> QED  BY <2>1, <1>3 DEF Map, FileClosed, MappingInv
<1>4. CASE Read
  <2>1. TypeOK'
    BY <1>4, ReadKeepsImage
  <2> QED  BY <2>1, <1>4 DEF Read, FileClosed, MappingInv
<1>5. CASE ReadFails
  <2>1. TypeOK'
    BY <1>5 DEF ReadFails, TypeOK, Offsets
  <2> QED  BY <2>1, <1>5 DEF ReadFails, FileClosed, MappingInv
<1>6. CASE ReadEnds
  <2>1. TypeOK'
    BY <1>6 DEF ReadEnds, TypeOK, Offsets
  <2> QED  BY <2>1, <1>6 DEF ReadEnds, FileClosed, MappingInv
<1>7. CASE Loaded
  <2>1. TypeOK'
    BY <1>7 DEF Loaded, TypeOK, Offsets
  <2> QED  BY <2>1, <1>7 DEF Loaded, FileClosed, MappingInv
<1>8. CASE Close
  <2>1. TypeOK'
    BY <1>8 DEF Close, TypeOK, Offsets
  <2> QED  BY <2>1, <1>8 DEF Close, FileClosed, MappingInv
<1>9. CASE PrepareStream
  <2>1. TypeOK'
    BY <1>9 DEF PrepareStream, TypeOK, Offsets
  <2> QED  BY <2>1, <1>9 DEF PrepareStream, FileClosed, MappingInv
<1>10. CASE UNCHANGED vars
  BY <1>10 DEF vars, TypeOK, Offsets, FileClosed, MappingInv
<1> QED
  BY [Next]_vars, <1>1, <1>2, <1>3, <1>4, <1>5, <1>6, <1>7, <1>8, <1>9, <1>10 DEF Next

\* The image keeps the file's shape and no more is read than there is, for
\* every file size and every way of splitting the reads (loader.c 739-750).
THEOREM TypeCorrect == Spec => []TypeOK
<1>1. IInv => TypeOK
  BY DEF IInv
<1> QED
  BY InitIInv, NextIInv, <1>1, PTL DEF Spec

\* The file is open exactly between its open and the end of the function.
THEOREM NoLeak == Spec => []FileClosed
<1>1. IInv => FileClosed
  BY DEF IInv
<1> QED
  BY InitIInv, NextIInv, <1>1, PTL DEF Spec

\* A described buffer is mapped as a whole; a load reported as failed leaves
\* neither a mapping nor a description.
THEOREM BufferMapped == Spec => []DmabDescribesMapping
<1>1. IInv => DmabDescribesMapping
  BY SizesAssumption DEF IInv, TypeOK, MappingInv, DmabDescribesMapping
<1> QED
  BY InitIInv, NextIInv, <1>1, PTL DEF Spec

-----------------------------------------------------------------------------
(* When the image is right after all, and that the load ends.              *)

\* Before the first read the memory is fresh; then its first byte is where
\* the last read began, and a single read has put every byte in its place.
ImageInv ==
  /\ readSize = 0 => \A k \in Offsets : image[k] = Zero
  /\ readSize > 0 => image[0] \in 0..readSize - 1
  /\ readSize > 0 /\ image[0] = 0 => \A k \in 0..readSize - 1 : image[k] = k

LEMMA InitImage == Init => ImageInv
<1> SUFFICES ASSUME Init PROVE ImageInv
  OBVIOUS
<1> QED
  BY SizesAssumption DEF Init, ImageInv, Offsets

LEMMA NextImage == IInv /\ ImageInv /\ [Next]_vars => ImageInv'
<1> SUFFICES ASSUME IInv, ImageInv, [Next]_vars PROVE ImageInv'
  OBVIOUS
<1>1. size \in Nat /\ readSize \in 0..size /\ image \in [Offsets -> {Zero} \cup Offsets]
  BY SizesAssumption DEF IInv, TypeOK
<1>2. CASE Read
  <2>1. PICK n \in 1..size - readSize :
          /\ image' = [k \in Offsets |-> IF k < n THEN readSize + k ELSE image[k]]
          /\ readSize' = readSize + n
    BY <1>2 DEF Read
  <2>2. size' = size /\ 0 \in Offsets
    BY <1>1, <1>2 DEF Read, Offsets
  <2>3. readSize' > 0 /\ image'[0] = readSize
    BY <1>1, <2>1, <2>2
  <2>4. readSize = 0 => \A k \in 0..readSize' - 1 : image'[k] = k
    BY <1>1, <2>1 DEF Offsets
  <2> QED
    BY <1>1, <2>1, <2>3, <2>4 DEF ImageInv
<1>3. CASE UNCHANGED <<size, image, readSize>>
  BY <1>3 DEF ImageInv, Offsets
<1> QED
  BY <1>2, <1>3
  DEF Next, Open, Stat, Map, ReadFails, ReadEnds, Loaded, Close, PrepareStream, vars

\* Exactly a file that one read() delivered is in memory as the message says:
\* each further read has overwritten the beginning with what comes later in
\* the file (loader.c 738-750).
THEOREM LoadedByOneRead ==
  Spec => [](pc = "loaded" => (LoadedIsFile <=> readSize = 0 \/ image[0] = 0))
<1>1. IInv /\ ImageInv => (pc = "loaded" => (LoadedIsFile <=> readSize = 0 \/ image[0] = 0))
  BY SizesAssumption DEF IInv, TypeOK, ImageInv, LoadedIsFile
<1> QED
  BY InitIInv, NextIInv, InitImage, NextImage, <1>1, PTL DEF Spec

\* An upper bound on the steps of the load and of what its caller does next.
StepsLeft ==
  CASE pc = "open" -> size + 7 [] pc = "stat" -> size + 6 [] pc = "map" -> size + 5
    [] pc = "read" -> (size - readSize) + 4 [] pc = "loaded" -> 3 [] pc = "close" -> 2
    [] pc = "return" -> 1 [] OTHER -> 0

\* However little each read() returns, the load ends, after at most a step
\* for each byte and seven more (loader.c 739-750).
THEOREM LoadStops ==
  Spec => /\ StepsLeft = size + 7
          /\ [](StepsLeft \in Nat) /\ [][StepsLeft' < StepsLeft]_vars
<1>1. Init => StepsLeft = size + 7
  BY DEF Init, StepsLeft
<1>2. IInv => StepsLeft \in Nat
  BY SizesAssumption DEF IInv, TypeOK, StepsLeft
<1>3. IInv /\ [Next]_vars => StepsLeft' < StepsLeft \/ UNCHANGED vars
  <2> SUFFICES ASSUME IInv, Next PROVE StepsLeft' < StepsLeft
    OBVIOUS
  <2>1. size \in Nat /\ readSize \in 0..size
    BY SizesAssumption DEF IInv, TypeOK
  <2>2. CASE Read
    BY <2>1, <2>2 DEF Read, StepsLeft
  <2>3. CASE Open \/ Stat \/ Map
    BY <2>1, <2>3 DEF Open, Stat, Map, StepsLeft
  <2>4. CASE ReadFails \/ ReadEnds \/ Loaded \/ Close \/ PrepareStream
    BY <2>1, <2>4 DEF ReadFails, ReadEnds, Loaded, Close, PrepareStream, StepsLeft
  <2> QED
    BY <2>2, <2>3, <2>4 DEF Next
<1> QED
  BY InitIInv, NextIInv, <1>1, <1>2, <1>3, PTL DEF Spec
=============================================================================
