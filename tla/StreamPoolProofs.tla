-------------------------- MODULE StreamPoolProofs --------------------------
(* Theorems about StreamPool for any sets of counts GCAP may report.       *)
EXTENDS StreamPool, TLAPS

\* The counts are those of GCAP, the list holds the first i streams.
CountsOK == captures \in 0..15 /\ playbacks \in 0..15 /\ i \in 0..total
ListOK ==
  /\ list \in Seq(Stream) /\ Len(list) = i
  /\ \A k \in 1..i : list[k] = NewStream(k - 1)

\* The windows follow each other page by page from the position buffer on:
\* that, the ring buffer and a list for each stream so far.
Posbuf == Window(PosbufAddr, DpibEntrySize * total)
Page(k) == [iova |-> PosbufAddr + (k - 1) * PageSize, size |-> PageSize]
WindowsOK ==
  /\ windows \in Seq([iova : Nat, size : Nat])
  /\ \A k \in 1..Len(windows) : windows[k] = Page(k)
  /\ pc = "posbuf" => Len(windows) = 0
  /\ pc = "ring" => Len(windows) = 1
  /\ pc = "create" \/ i > 0 => Len(windows) = i + 2
  /\ pc \in {"posbuf", "ring"} => i = 0

\* The stream worked on is the one opened, or a capture stream.
Discovery == {"posbuf", "ring", "create", "probed"}
Own == list[stream].direction = "playback" /\ opened = {stream}
StreamOK ==
  /\ pc \in Discovery \cup {"params", "lookup", "boot", "nodev", "failed"}
  /\ pc \in Discovery => opened = {} /\ stream = 0
  /\ stream \in 0..i /\ opened \subseteq 1..i
  /\ pc \in {"params", "lookup"} =>
       /\ stream \in 1..i
       /\ Own \/ list[stream].direction = "capture"
  /\ pc = "boot" => stream \in 1..i /\ Own

IInv == CountsOK /\ ListOK /\ WindowsOK /\ StreamOK

LEMMA NewStreamType ==
  ASSUME CountsOK, NEW k \in 0..total - 1 PROVE NewStream(k) \in Stream
  BY DEF CountsOK, total, NewStream, Stream, BdlAddr, PageSize

\* Every mapping asked for is the page behind the last one.
LEMMA NextPage ==
  ASSUME CountsOK
  PROVE  /\ Posbuf = Page(1)
         /\ Window(RbAddr, PageSize) = Page(2)
         /\ \A k \in 0..29 : Window(BdlAddr(k), PageSize) = Page(k + 3)
<1>1. total \in 0..30
  BY DEF CountsOK, total
<1> QED
  BY <1>1 DEF Posbuf, Page, Window, PosbufAddr, RbAddr, BdlAddr, DpibEntrySize, PageSize

LEMMA AppendPage ==
  ASSUME WindowsOK, windows' = Append(windows, Page(Len(windows) + 1))
  PROVE  /\ windows' \in Seq([iova : Nat, size : Nat])
         /\ Len(windows') = Len(windows) + 1
         /\ \A k \in 1..Len(windows') : windows'[k] = Page(k)
<1>1. windows \in Seq([iova : Nat, size : Nat]) /\ Len(windows) \in Nat
  BY DEF WindowsOK
<1>2. Page(Len(windows) + 1) \in [iova : Nat, size : Nat]
  BY <1>1 DEF Page, PosbufAddr, PageSize
<1>3. \A k \in 1..Len(windows) : windows[k] = Page(k)
  BY DEF WindowsOK
<1> HIDE DEF Page
<1> QED
  BY <1>1, <1>2, <1>3

LEMMA InitIInv == Init => IInv
<1> SUFFICES ASSUME Init PROVE IInv
  OBVIOUS
<1>1. CountsOK
  BY CountsAssumption DEF Init, CountsOK, total
<1>2. ListOK
  BY DEF Init, ListOK
<1>3. WindowsOK /\ StreamOK
  BY DEF Init, WindowsOK, StreamOK, Discovery
<1> QED
  BY <1>1, <1>2, <1>3 DEF IInv

LEMMA NextIInv == IInv /\ [Next]_vars => IInv'
<1> SUFFICES ASSUME IInv, [Next]_vars PROVE IInv'
  OBVIOUS
<1> USE DEF IInv
<1>1. CASE MapPosbuf
  <2>1. CountsOK' /\ ListOK' /\ UNCHANGED total
    BY <1>1 DEF MapPosbuf, counts, CountsOK, ListOK, total, NewStream
  <2>2. WindowsOK'
    <3>1. CASE pc' = "ring"
      <4>1. Len(windows) = 0 /\ i = 0
        BY <1>1 DEF MapPosbuf, WindowsOK
      <4>2. windows' = Append(windows, Page(Len(windows) + 1))
        BY <1>1, <3>1, <4>1, NextPage DEF MapPosbuf, Posbuf
      <4> QED  BY <1>1, <3>1, <4>1, <4>2, AppendPage DEF MapPosbuf, WindowsOK
    <3>2. CASE pc' = "probed"
      <4>1. UNCHANGED <<windows, i>>
        BY <1>1, <3>2 DEF MapPosbuf
      <4> QED  BY <1>1, <3>2, <4>1 DEF MapPosbuf, WindowsOK
    <3> QED  BY <1>1, <3>1, <3>2 DEF MapPosbuf
  <2>3. StreamOK'
    BY <1>1 DEF MapPosbuf, StreamOK, Discovery
  <2> QED  BY <2>1, <2>2, <2>3
<1>2. CASE MapRing
  <2>1. CountsOK' /\ ListOK' /\ UNCHANGED total
    BY <1>2 DEF MapRing, counts, CountsOK, ListOK, total, NewStream
  <2>2. WindowsOK'
    <3>1. CASE pc' = "create"
      <4>1. Len(windows) = 1 /\ i = 0
        BY <1>2 DEF MapRing, WindowsOK
      <4>2. windows' = Append(windows, Page(Len(windows) + 1))
        BY <1>2, <3>1, <4>1, NextPage DEF MapRing
      <4> QED  BY <1>2, <3>1, <4>1, <4>2, AppendPage DEF MapRing, WindowsOK
    <3>2. CASE pc' = "probed"
      <4>1. UNCHANGED <<windows, i>>
        BY <1>2, <3>2 DEF MapRing
      <4> QED  BY <1>2, <3>2, <4>1 DEF MapRing, WindowsOK
    <3> QED  BY <1>2, <3>1, <3>2 DEF MapRing
  <2>3. StreamOK'
    BY <1>2 DEF MapRing, StreamOK, Discovery
  <2> QED  BY <2>1, <2>2, <2>3
<1>3. CASE Create
  <2>1. CASE pc' = "probed"
    <3>1. UNCHANGED <<captures, playbacks, i, windows, list, stream, opened>>
      BY <1>3, <2>1 DEF Create, counts
    <3>2. CountsOK' /\ ListOK' /\ UNCHANGED total
      BY <3>1 DEF CountsOK, ListOK, total, NewStream
    <3>3. WindowsOK' /\ StreamOK'
      BY <1>3, <2>1, <3>1, <3>2 DEF Create, WindowsOK, StreamOK, Discovery
    <3> QED  BY <3>2, <3>3
  <2>2. CASE pc' # "probed"
    <3>1. /\ pc = "create" /\ pc' = "create" /\ i < total /\ i' = i + 1
          /\ windows' = Append(windows, Window(BdlAddr(i), PageSize))
          /\ list' = Append(list, NewStream(i))
          /\ UNCHANGED <<captures, playbacks, stream, opened>>
      BY <1>3, <2>2 DEF Create, AddTail, counts
    <3>2. CountsOK' /\ UNCHANGED total
      BY <3>1 DEF CountsOK, total
    <3>3. \A k : UNCHANGED NewStream(k)
      BY <3>1 DEF NewStream
    <3>4. NewStream(i) \in Stream
      BY <3>1, NewStreamType DEF CountsOK, total
    <3>5. ListOK'
      <4>1. list' \in Seq(Stream) /\ Len(list') = i'
        BY <3>1, <3>4 DEF ListOK
      <4>2. ASSUME NEW k \in 1..i' PROVE list'[k] = NewStream(k - 1)
        <5>1. CASE k = i + 1
          BY <5>1, <3>1 DEF ListOK, CountsOK
        <5>2. CASE k \in 1..i
          BY <5>2, <3>1 DEF ListOK
        <5>3. i \in Nat /\ k \in 1..i + 1
          BY <3>1 DEF CountsOK
        <5> QED  BY <5>1, <5>2, <5>3
      <4> QED  BY <4>1, <4>2, <3>3 DEF ListOK
    <3>6. WindowsOK'
      <4>1. i \in 0..29 /\ Len(windows) = i + 2
        BY <3>1 DEF CountsOK, total, WindowsOK
      <4>2. Window(BdlAddr(i), PageSize) = Page(i + 3)
        BY <4>1, NextPage
      <4>3. Len(windows) + 1 = i + 3
        BY <4>1
      <4>4. windows' = Append(windows, Page(Len(windows) + 1))
        BY <3>1, <4>2, <4>3
      <4> QED  BY <3>1, <4>1, <4>4, AppendPage DEF WindowsOK
    <3>7. StreamOK'
      BY <3>1 DEF StreamOK, Discovery, CountsOK
    <3> QED  BY <3>2, <3>5, <3>6, <3>7
  <2> QED  BY <2>1, <2>2
\* The remaining steps leave the list and the windows alone.
<1>4. ASSUME UNCHANGED <<captures, playbacks, i, windows, list>>,
             pc' \in {"posbuf", "ring", "create"} => pc' = pc
      PROVE  CountsOK' /\ ListOK' /\ WindowsOK'
  <2>1. CountsOK' /\ ListOK' /\ UNCHANGED total
    BY <1>4 DEF CountsOK, ListOK, total, NewStream
  <2> QED
    BY <1>4, <2>1 DEF WindowsOK
<1>5. CASE AllCreated
  <2>1. StreamOK'
    BY <1>5 DEF AllCreated, StreamOK, Discovery
  <2> QED
    BY <1>4, <1>5, <2>1 DEF AllCreated, counts
<1>6. CASE GetStream
  <2>1. /\ stream = 0 /\ opened = {} /\ Len(list) = i /\ i \in Nat
        /\ UNCHANGED <<captures, playbacks, i, windows, list>>
    BY <1>6 DEF GetStream, StreamOK, Discovery, ListOK, CountsOK, counts
  <2>2. ASSUME Unused("playback") = {}, stream' = Len(list), UNCHANGED opened,
               pc' = IF list = <<>> THEN "nodev" ELSE "params"
        PROVE  StreamOK'
    <3>1. \A k \in 1..i : list[k].direction = "capture"
      BY <2>1, <2>2 DEF Unused, ListOK, NewStream
    <3>2. i = 0 <=> list = <<>>
      BY <2>1 DEF ListOK
    <3> QED
      BY <3>1, <3>2, <2>1, <2>2 DEF StreamOK, Discovery
  <2>3. ASSUME NEW k \in 1..Len(list), IsFirst(k, Unused("playback")),
               stream' = k, opened' = opened \cup {k}, pc' = "params"
        PROVE  StreamOK'
    <3>1. list[k].direction = "playback" /\ opened' = {k} /\ k \in 1..i
      BY <2>1, <2>3 DEF IsFirst, Unused
    <3> QED
      BY <3>1, <2>1, <2>3 DEF StreamOK, Discovery, Own
  <2>4. StreamOK'
    BY <1>6, <2>2, <2>3 DEF GetStream
  <2>5. pc' \in {"params", "nodev"}
    BY <1>6 DEF GetStream
  <2> QED
    BY <1>4, <2>1, <2>4, <2>5
<1>7. CASE HwParams
  <2>1. StreamOK'
    BY <1>7 DEF HwParams, StreamOK, Discovery, Own
  <2> QED
    BY <1>4, <1>7, <2>1 DEF HwParams, counts
<1>8. CASE LookUp
  <2>1. StreamOK'
    <3>1. /\ pc = "lookup" /\ stream \in 1..i /\ Len(list) = i
          /\ Own \/ list[stream].direction = "capture"
      BY <1>8 DEF LookUp, StreamOK, ListOK
    <3>2. \A k, l \in 1..i : list[k].tag = list[l].tag => k = l
      BY DEF ListOK, NewStream, CountsOK
    <3>3. ASSUME NEW k \in 1..i, Matches(list[k], list[stream].tag)
          PROVE  k = stream /\ Own
      BY <3>1, <3>2, <3>3 DEF Matches
    <3> QED
      BY <1>8, <3>1, <3>3
      DEF LookUp, IsFirst, StreamOK, Discovery, Own, CountsOK
  <2> QED
    BY <1>4, <1>8, <2>1 DEF LookUp, counts
<1>9. CASE UNCHANGED vars
  <2>1. StreamOK'
    BY <1>9 DEF vars, StreamOK, Own
  <2> QED
    BY <1>4, <1>9, <2>1 DEF vars, counts
<1> QED
  BY <1>1, <1>2, <1>3, <1>5, <1>6, <1>7, <1>8, <1>9 DEF Next

\* No two of the mappings the driver asks for overlap, whatever GCAP says.
THEOREM Disjoint == Spec => []WindowsDisjoint
<1>1. IInv => WindowsDisjoint
  <2> SUFFICES ASSUME IInv PROVE WindowsDisjoint
    OBVIOUS
  <2>1. DOMAIN windows = 1..Len(windows) /\ Len(windows) \in Nat
    BY DEF IInv, WindowsOK
  <2>2. ASSUME NEW k \in 1..Len(windows), NEW l \in 1..Len(windows), k < l
        PROVE  windows[k].iova + windows[k].size <= windows[l].iova
    <3>1. windows[k] = Page(k) /\ windows[l] = Page(l)
      BY DEF IInv, WindowsOK
    <3> QED
      BY <2>1, <2>2, <3>1 DEF Page, PageSize, PosbufAddr
  <2> QED
    BY <2>1, <2>2 DEF WindowsDisjoint
<1> QED
  BY InitIInv, NextIInv, <1>1, PTL DEF Spec

\* However far discovery got, the streams in the list are all usable and
\* share nothing.
THEOREM Usable == Spec => []ListedUsable
<1>1. IInv => ListedUsable
  <2> SUFFICES ASSUME IInv PROVE ListedUsable
    OBVIOUS
  <2>1. total \in 0..30 /\ i \in 0..total /\ Len(list) = i
    BY DEF IInv, CountsOK, ListOK, total
  <2>2. ASSUME NEW k \in 1..i
        PROVE  /\ list[k].index = k - 1 /\ list[k].tag = k
               /\ list[k].bdl = 69632 + (k - 1) * 4096
    BY <2>1 DEF IInv, ListOK, NewStream, BdlAddr, PageSize
  <2>3. ASSUME NEW k \in 1..i PROVE Mapped(list[k].bdl, PageSize)
    <3>1. k + 2 \in DOMAIN windows /\ windows[k + 2] = Page(k + 2)
      BY <2>1 DEF IInv, WindowsOK
    <3> QED
      BY <2>1, <2>2, <3>1 DEF Mapped, Page, PosbufAddr, PageSize
  <2>4. ASSUME NEW k \in 1..i
        PROVE  Mapped(PosbufAddr + list[k].index * DpibEntrySize, DpibEntrySize)
    <3>1. 1 \in DOMAIN windows /\ windows[1] = Page(1)
      BY <2>1, <2>4 DEF IInv, WindowsOK
    <3>2. Page(1) = [iova |-> 61440, size |-> 4096]
      BY DEF Page, PosbufAddr, PageSize
    <3>3. /\ 61440 <= PosbufAddr + list[k].index * DpibEntrySize
          /\ PosbufAddr + list[k].index * DpibEntrySize + DpibEntrySize <= 61440 + 4096
      <4>1. k \in 1..30
        BY <2>1
      <4>2. list[k].index = k - 1
        BY <2>2
      <4> QED  BY <4>1, <4>2 DEF PosbufAddr, DpibEntrySize
    <3> QED
      BY <3>1, <3>2, <3>3 DEF Mapped
  <2>5. ASSUME NEW k \in 1..i PROVE list[k].index < total
    <3>1. list[k].index = k - 1
      BY <2>2
    <3>2. i \in Int /\ total \in Int /\ i <= total
      BY <2>1
    <3>3. k - 1 < total
      BY <3>2
    <3> QED  BY <3>1, <3>3
  <2>6. ASSUME NEW k \in 1..i, NEW l \in 1..i, l # k
        PROVE  /\ list[l].index # list[k].index /\ list[l].tag # list[k].tag
               /\ list[l].bdl # list[k].bdl
    <3>1. k \in Int /\ l \in Int
      BY <2>1
    <3>2. l - 1 # k - 1 /\ 69632 + (l - 1) * 4096 # 69632 + (k - 1) * 4096
      BY <3>1, <2>6
    <3> QED  BY <2>2, <2>6, <3>2
  <2> QED
    BY <2>1, <2>3, <2>4, <2>5, <2>6, Zenon DEF ListedUsable
<1> QED
  BY InitIInv, NextIInv, <1>1, PTL DEF Spec

\* A boot goes on only with the playback stream that was opened for it.
THEOREM OwnStream == Spec => []BootsOnOwnStream
<1>1. IInv => BootsOnOwnStream
  BY DEF IInv, StreamOK, Own, BootsOnOwnStream
<1> QED
  BY InitIInv, NextIInv, <1>1, PTL DEF Spec

\* The list holds streams the controller has, as many as were created, and
\* what is mapped and opened is described within its range.
THEOREM TypeCorrect == Spec => []TypeOK
<1>1. IInv => TypeOK
  <2> SUFFICES ASSUME IInv PROVE TypeOK
    OBVIOUS
  <2>1. i \in 0..total /\ total \in 0..30
    BY DEF IInv, CountsOK, total
  <2> QED
    BY <2>1 DEF IInv, CountsOK, ListOK, WindowsOK, StreamOK, Discovery, TypeOK
<1> QED
  BY InitIInv, NextIInv, <1>1, PTL DEF Spec

-----------------------------------------------------------------------------
(* When the search finds a stream, and that discovery ends.                *)

\* The search marks a stream if there is one of the kind it looks for.
MarksIfAny ==
  pc \in {"params", "lookup"} =>
    (stream \in opened <=> \E k \in 1..Len(list) : list[k].direction = "playback")

\* The stream that is programmed next is one the search marked as opened, if
\* and only if the list holds a playback stream at all: GotUnusedStream fails
\* in no other case (loader-helper.c 67-113).
THEOREM MarkedUnlessNone == Spec => []MarksIfAny
<1>1. Init => MarksIfAny
  BY DEF Init, MarksIfAny
<1>2. IInv /\ MarksIfAny /\ [Next]_vars => MarksIfAny'
  <2> SUFFICES ASSUME IInv, MarksIfAny, [Next]_vars PROVE MarksIfAny'
    OBVIOUS
  <2>1. CASE GetStream
    <3>1. opened = {} /\ list' = list
      BY <2>1 DEF GetStream, IInv, StreamOK, Discovery
    <3>2. CASE Unused("playback") = {} /\ opened' = opened
      <4>1. opened' = {} /\ ~\E k \in 1..Len(list) : list[k].direction = "playback"
        BY <3>1, <3>2 DEF Unused
      <4> QED
        BY <3>1, <4>1 DEF MarksIfAny
    <3>3. ASSUME NEW k \in 1..Len(list), IsFirst(k, Unused("playback")),
                 stream' = k, opened' = opened \cup {k}
          PROVE  MarksIfAny'
      <4>1. list[k].direction = "playback" /\ stream' \in opened'
        BY <3>3 DEF IsFirst, Unused
      <4> QED
        BY <3>1, <3>3, <4>1 DEF MarksIfAny
    <3> QED
      BY <2>1, <3>2, <3>3 DEF GetStream
  <2>2. CASE HwParams
    BY <2>2 DEF HwParams, MarksIfAny
  <2>3. CASE UNCHANGED vars
    BY <2>3 DEF vars, MarksIfAny
  <2> QED
    BY <2>1, <2>2, <2>3
    DEF Next, MapPosbuf, MapRing, Create, AllCreated, LookUp, MarksIfAny
<1> QED
  BY InitIInv, NextIInv, <1>1, <1>2, PTL DEF Spec

\* An upper bound on the steps of discovery and search.
StepsLeft ==
  CASE pc = "posbuf" -> total + 7 [] pc = "ring" -> total + 6
    [] pc = "create" -> (total - i) + 5 [] pc = "probed" -> 4 [] pc = "params" -> 3
    [] pc = "lookup" -> 2 [] OTHER -> 0

\* Discovery makes a turn for each stream at most, the searches end.
THEOREM DiscoveryStops ==
  Spec => /\ StepsLeft = total + 7
          /\ [](StepsLeft \in Nat) /\ [][StepsLeft' < StepsLeft]_vars
<1>1. Init => StepsLeft = total + 7
  BY DEF Init, StepsLeft
<1>2. IInv => total \in Nat /\ i \in 0..total /\ StepsLeft \in Nat
  BY DEF IInv, CountsOK, total, StepsLeft
<1>3. IInv /\ [Next]_vars => StepsLeft' < StepsLeft \/ UNCHANGED vars
  <2> SUFFICES ASSUME IInv, Next PROVE StepsLeft' < StepsLeft
    OBVIOUS
  <2>1. total \in Nat /\ i \in 0..total
    BY <1>2
  <2>2. total' = total
    BY DEF Next, MapPosbuf, MapRing, Create, AllCreated, GetStream, HwParams, LookUp, counts, total
  <2>3. CASE MapPosbuf \/ MapRing \/ Create \/ AllCreated
    BY <2>1, <2>2, <2>3 DEF IInv, WindowsOK, MapPosbuf, MapRing, Create, AllCreated, StepsLeft
  <2>4. CASE GetStream \/ HwParams \/ LookUp
    <3>1. \/ pc = "probed" /\ pc' \in {"params", "nodev"}
          \/ pc = "params" /\ pc' \in {"lookup", "failed"}
          \/ pc = "lookup" /\ pc' \in {"boot", "nodev"}
      BY <2>4 DEF GetStream, HwParams, LookUp
    <3> QED
      BY <3>1 DEF StepsLeft
  <2> QED
    BY <2>3, <2>4 DEF Next
<1> QED
  BY InitIInv, NextIInv, <1>1, <1>2, <1>3, PTL DEF Spec
=============================================================================
