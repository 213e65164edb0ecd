---------------------------- MODULE CapWalkProofs ----------------------------
(* Theorems about CapWalk for every set of places, linked in every way,    *)
(* and every limit, checked by TLAPS.                                      *)
EXTENDS CapWalk, TLAPS

\* What the proofs need of the three slots: each kind has one of its own,
\* and none is that of the controller's own registers.
LEMMA Slots ==
  /\ \A k \in Kinds : Slot[k] \in Regions \ {0}
  /\ \A k, j \in Kinds : Slot[k] = Slot[j] => k = j
  /\ "other" \notin Kinds
  BY DEF Kinds, Slot, Regions

\* An offset of a region is a number, and so is an offset in the HDA region.
LEMMA Numbers == Words \subseteq Nat /\ \A r \in Regions : r * Span \in Nat
  BY SpanAssumption, PlacesAssumption DEF Words, Regions

\* A header, read or not.
LEMMA HeaderTypes == NoHeader \in Headers /\ NoHeader.id \notin Kinds /\ NoHeader.next = 0
  BY DEF NoHeader, Headers, Words, Kinds

\* The controller's own registers stay at offset 0 of the region.
HdaAtZero == offsets[0] = 0

\* The limit: a turn is only begun with one more header allowed.
CountedOK == pc = "walk" => count <= MaxCaps + 1

\* Nothing has been read before the walk; in it, what a header read names is
\* read already, read next, or the end.
WalkingAll ==
  /\ pc = "llch" => seen = {} /\ count = 0
  /\ pc = "walk" /\ ~failed =>
       /\ IF count = 0 THEN seen = {} /\ offset = llch ELSE llch \in seen
       /\ \A p \in seen : mem[p].next \in seen \cup {0, offset}

IInv == TypeOK /\ HdaAtZero /\ CountedOK /\ WalkingAll /\ FoundExactly

LEMMA InitIInv == Init => IInv
<1> SUFFICES ASSUME Init PROVE IInv
  OBVIOUS
<1> USE DEF Init
<1>1. known \subseteq Regions /\ offsets = [r \in Regions |-> IF r \in known THEN r * Span ELSE 0]
  OBVIOUS
<1>2. offsets \in [Regions -> Nat]
  BY <1>1, Numbers
<1>3. TypeOK
  <2>1. count \in 0..MaxCaps + 2
    BY MaxCapsAssumption
  <2>2. offset \in Words /\ seen \subseteq Words
    BY DEF Words
  <2>3. failed \in BOOLEAN /\ pc \in {"llch", "walk", "walked"}
    BY Zenon
  <2> QED
    BY <1>1, <1>2, <2>1, <2>2, <2>3, Zenon DEF TypeOK
<1>4. HdaAtZero
  <2>1. offsets[0] = IF 0 \in known THEN 0 * Span ELSE 0
    BY <1>1 DEF Regions
  <2> QED
    BY <2>1, SpanAssumption DEF HdaAtZero
<1>5. SlotsMeanKinds
  BY <1>1, Slots DEF SlotsMeanKinds, Found
<1> QED
  BY <1>3, <1>4, <1>5, MaxCapsAssumption
  DEF IInv, CountedOK, WalkingAll, FoundExactly, WalkedAll

\* A turn keeps the types and the limit, whatever header it works on.
LEMMA VisitTypes ==
  ASSUME TypeOK, HdaAtZero, CountedOK, NEW header \in Headers, Visit(header)
  PROVE  /\ pc' \in {"walk", "walked"} /\ offsets' \in [Regions -> Nat]
         /\ mem' = mem /\ llch' = llch /\ known' = known /\ offset' \in Words /\ count' \in 0..MaxCaps + 2
         /\ HdaAtZero' /\ CountedOK'
<1> USE DEF Visit, TypeOK, device
<1>1. offsets' \in [Regions -> Nat] /\ HdaAtZero'
  <2>1. 0 \in Regions /\ offsets[0] + offset \in Nat
    BY Numbers DEF Regions, HdaAtZero
  <2> QED
    BY <2>1, Slots DEF Record, HdaAtZero
<1>2. count' \in 0..MaxCaps + 2 /\ CountedOK'
  BY MaxCapsAssumption DEF CountedOK, Again, Counted
<1> QED
  BY <1>1, <1>2 DEF Headers

LEMMA NextIInv == IInv /\ [Next]_vars => IInv'
<1> SUFFICES ASSUME IInv, [Next]_vars PROVE IInv'
  OBVIOUS
<1> USE DEF IInv
<1>1. CASE ReadStart \/ StartFails
  <2>1. SlotsMeanKinds'
    BY <1>1 DEF FoundExactly, SlotsMeanKinds, Found, ReadStart, StartFails, Start, device
  <2>2. TypeOK' /\ HdaAtZero'
    BY <1>1 DEF TypeOK, HdaAtZero, Words, ReadStart, StartFails, Start, device
  <2> QED
    BY <1>1, <2>1, <2>2, MaxCapsAssumption
    DEF CountedOK, WalkingAll, FoundExactly, WalkedAll, ReadStart, StartFails, Start, device
<1>2. CASE ReadHeader
  <2> DEFINE header == mem[offset]
  <2>1. header \in Headers /\ Visit(header) /\ seen' = seen \cup {offset} /\ failed' = failed
    BY <1>2 DEF ReadHeader, TypeOK
  <2>2. TypeOK' /\ HdaAtZero' /\ CountedOK'
    BY <2>1, VisitTypes DEF TypeOK
  <2>3. SlotsMeanKinds'
    <3> SUFFICES ASSUME NEW k \in Kinds
                 PROVE IF Found(k)' = {}
                         THEN offsets'[Slot[k]] = IF Slot[k] \in known THEN Slot[k] * Span ELSE 0
                         ELSE offsets'[Slot[k]] \in Found(k)'
      BY <2>1 DEF SlotsMeanKinds, Visit
    <3>1. Slot[k] \in Regions /\ mem' = mem
      BY <2>1, Slots DEF Visit, device
    <3>2. CASE header.id = k
      <4>1. offsets'[Slot[k]] = offset
        BY <2>1, <3>1, <3>2, Numbers DEF Visit, Record, TypeOK, HdaAtZero
      <4>2. offset \in Found(k)'
        BY <2>1, <3>1, <3>2 DEF Found
      <4> QED
        BY <4>1, <4>2
    <3>3. CASE header.id # k
      <4>1. offsets'[Slot[k]] = offsets[Slot[k]]
        BY <2>1, <3>1, <3>3, Slots DEF Visit, Record, TypeOK
      <4>2. Found(k)' = Found(k)
        BY <2>1, <3>1, <3>3 DEF Found
      <4> QED
        BY <4>1, <4>2 DEF FoundExactly, SlotsMeanKinds
    <3> QED
      BY <3>2, <3>3
  <2>4. pc = "walk" /\ mem' = mem /\ llch' = llch /\ offset' = header.next /\ count' = count + 1
    BY <2>1 DEF Visit, device, Counted
  <2>5. ~failed => llch \in seen' /\ \A p \in seen' : mem[p].next \in seen' \cup {0, offset'}
    BY <2>1, <2>4 DEF WalkingAll
  <2>6. WalkingAll'
    BY <2>1, <2>2, <2>4, <2>5 DEF WalkingAll, Visit, TypeOK
  <2>7. WalkedAll'
    <3>1. pc' = "walked" /\ count' < MaxCaps + 2 => offset' = 0
      BY <2>1, <2>4, MaxCapsAssumption DEF Visit, Again, TypeOK
    <3> QED
      BY <2>1, <2>4, <2>5, <3>1 DEF WalkedAll
  <2> QED
    BY <2>2, <2>3, <2>6, <2>7 DEF FoundExactly
<1>3. CASE HeaderFails
  <2>1. Visit(NoHeader) /\ seen' = seen /\ failed' = TRUE
    BY <1>3 DEF HeaderFails
  <2>2. TypeOK' /\ HdaAtZero' /\ CountedOK'
    BY <2>1, VisitTypes, HeaderTypes DEF TypeOK
  <2>3. offsets' = offsets /\ known' = known /\ mem' = mem
    BY <2>1, HeaderTypes DEF Visit, Record, device
  <2>4. SlotsMeanKinds'
    BY <2>1, <2>3 DEF FoundExactly, SlotsMeanKinds, Found
  <2> QED
    BY <2>1, <2>2, <2>4 DEF WalkingAll, WalkedAll, FoundExactly, Visit
<1>4. CASE UNCHANGED vars
  <2> USE <1>4 DEF vars, device
  <2>1. SlotsMeanKinds'
    BY DEF FoundExactly, SlotsMeanKinds, Found
  <2> QED
    BY <2>1 DEF TypeOK, HdaAtZero, CountedOK, WalkingAll, FoundExactly, WalkedAll
<1> QED
  BY <1>1, <1>2, <1>3, <1>4 DEF Next

\* The walk stays in its table and never reads more than MaxCaps + 2
\* headers, however the device has linked them.
THEOREM TypeCorrect == Spec => []TypeOK
<1>1. IInv => TypeOK
  BY DEF IInv
<1> QED
  BY InitIInv, NextIInv, <1>1, PTL DEF Spec

\* For every list, cyclic or not, and every failing read: the three slots
\* say what the walk has found, and a walk without a failing read that stays
\* under the limit has read every header the list links.
THEOREM WalkFindsExactly == Spec => []FoundExactly
<1>1. IInv => FoundExactly
  BY DEF IInv
<1> QED
  BY InitIInv, NextIInv, <1>1, PTL DEF Spec

\* An upper bound on the steps of the walk: LLCH, and a header for each turn.
StepsLeft ==
  CASE pc = "llch" -> MaxCaps + 4 [] pc = "walk" -> (MaxCaps + 3) - count [] OTHER -> 0

\* The walk is over after at most MaxCaps + 4 steps, however the device has
\* linked its list: in a cycle too every step leaves fewer to be taken.
THEOREM WalkStops ==
  Spec => /\ StepsLeft = MaxCaps + 4
          /\ [](StepsLeft \in Nat /\ (StepsLeft = 0 <=> pc = "walked"))
          /\ [][StepsLeft' < StepsLeft]_vars
<1>1. Init => StepsLeft = MaxCaps + 4
  BY DEF Init, StepsLeft
<1>2. IInv => StepsLeft \in Nat /\ (StepsLeft = 0 <=> pc = "walked")
  BY MaxCapsAssumption DEF IInv, TypeOK, CountedOK, StepsLeft
<1>3. IInv /\ [Next]_vars => StepsLeft' < StepsLeft \/ UNCHANGED vars
  <2> SUFFICES ASSUME IInv, Next PROVE StepsLeft' < StepsLeft
    OBVIOUS
  <2>1. \/ pc = "llch" /\ pc' = "walk" /\ count' = count
        \/ pc = "walk" /\ pc' \in {"walk", "walked"} /\ count' = count + 1
    BY DEF Next, ReadStart, StartFails, ReadHeader, HeaderFails, Start, Visit, Counted
  <2> QED
    BY <2>1, MaxCapsAssumption DEF IInv, TypeOK, CountedOK, StepsLeft
<1> QED
  BY InitIInv, NextIInv, <1>1, <1>2, <1>3, PTL DEF Spec
=============================================================================
