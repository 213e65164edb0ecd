----------------------------- MODULE BdlProofs -----------------------------
(* Theorems about Bdl for every page size, list size and buffer size.      *)
EXTENDS Bdl, FiniteSetTheorems, TLAPS

LEMMA Distribute ==
  ASSUME NEW p \in Nat, NEW q \in Nat, NEW r \in Nat, NEW m \in Nat
  PROVE  p * q + (p * r + m) = p * (q + r) + m
  OBVIOUS

\* A multiple of the page changes no remainder: the code tests the offset
\* where the engine sees the address.
LEMMA SameRemainder ==
  ASSUME NEW p \in Nat \ {0}, NEW b \in Nat, NEW n \in Nat, b % p = 0
  PROVE  (b + n) % p = n % p
<1> DEFINE q == b \div p   r == n \div p   m == n % p
<1>1. b = p * q /\ q \in Nat
  OBVIOUS
<1>2. n = p * r + m /\ r \in Nat /\ m \in 0..p-1
  OBVIOUS
<1> HIDE DEF q, r, m
<1>3. b + n = p * (q + r) + m
  BY <1>1, <1>2, Distribute
<1>4. (b + n) % p = m
  BY <1>1, <1>2, <1>3
<1> QED
  BY <1>4 DEF m

\* The size of the next entry: not empty, within the period and the page.
LEMMA ChunkBounds ==
  ASSUME offset \in Nat, size \in Int, size > 0
  PROVE  /\ Chunk \in Nat /\ 0 < Chunk /\ Chunk <= size
         /\ (offset % Page) + Chunk <= Page
  BY PageAssumption DEF Chunk

-----------------------------------------------------------------------------

StreamOK == bufsize \in Buffers /\ period \in PeriodSizes /\ wakeup \in BOOLEAN
LocalsOK ==
  /\ offset \in {-EINVAL} \cup Nat /\ size \in Int /\ ioc \in BOOLEAN
  /\ bdl \in Seq(Entry)

\* The list is full when an error has been returned, and otherwise ends where
\* the next entry is to start.
OffsetInv ==
  /\ offset < 0 => Full
  /\ offset >= 0 /\ frags > 0 => Base + offset = bdl[frags].addr + bdl[frags].size
  /\ offset >= 0 /\ frags = 0 => offset = 0

IInv == StreamOK /\ LocalsOK /\ BdlBounded /\ EntriesTile /\ OffsetInv

LEMMA InitIInv == Init => IInv
<1> SUFFICES ASSUME Init PROVE IInv
  OBVIOUS
<1>1. StreamOK /\ ioc \in BOOLEAN
  BY Zenon DEF Init, StreamOK
<1>2. offset = 0 /\ size = 0 /\ bdl = <<>> /\ Len(bdl) = 0
  BY DEF Init
<1> QED
  BY <1>1, <1>2, LimitAssumption
  DEF IInv, LocalsOK, BdlBounded, EntriesTile, OffsetInv, frags

\* The sizes computed from the stream are integers, whatever their sign.
LEMMA PeriodSizeType ==
  ASSUME StreamOK
  PROVE  ToInt(IF IsLastSmall THEN Remain ELSE PeriodBytes) \in Int
<1>1. bufsize \in Nat \ {0} /\ period \in Nat
  BY SizesAssumption, LimitAssumption DEF StreamOK
<1>2. PeriodBytes \in Nat \ {0}
  BY <1>1 DEF PeriodBytes
<1>3. Remain \in Nat
  BY <1>1, <1>2 DEF Remain
<1> QED
  BY <1>2, <1>3, LimitAssumption DEF ToInt

\* Appending an entry keeps the tiling.
LEMMA AddEntryKeeps == ASSUME IInv, AddEntry PROVE IInv'
<1> DEFINE e == [addr |-> Base + offset, size |-> Chunk, ioc |-> EntryIoc]
<1>1. bdl \in Seq(Entry) /\ offset \in Nat /\ size \in Int /\ size > 0 /\ frags < MaxEntries
  <2>1. offset \in {-EINVAL} \cup Nat /\ size \in Int /\ size > 0 /\ bdl \in Seq(Entry)
    BY DEF IInv, LocalsOK, AddEntry
  <2>2. ~(frags >= MaxEntries) /\ ~(offset < 0)
    BY DEF IInv, OffsetInv, AddEntry, Full
  <2> QED  BY <2>1, <2>2, LimitAssumption DEF frags, EINVAL
<1>2. /\ Chunk \in Nat /\ 0 < Chunk /\ Chunk <= size
      /\ (offset % Page) + Chunk <= Page
  BY <1>1, ChunkBounds
<1>3. (Base + offset) % Page = offset % Page /\ Base + offset \in Nat
  <2>1. Base \in Nat /\ Base % Page = 0 /\ Page \in Nat \ {0} /\ offset \in Nat
    BY <1>1, BaseAssumption, PageAssumption
  <2>2. (Base + offset) % Page = offset % Page
    BY <2>1, SameRemainder, Zenon
  <2> QED  BY <2>1, <2>2
<1>4. EntryIoc \in BOOLEAN
  BY Zenon DEF EntryIoc
<1>5. e \in Entry /\ e.addr = Base + offset /\ e.size = Chunk
  BY <1>2, <1>3, <1>4 DEF Entry
<1>6. bdl' = Append(bdl, e) /\ offset' = offset + Chunk /\ size' = size - Chunk
      /\ UNCHANGED <<stream, ioc>>
  BY DEF AddEntry
<1> HIDE DEF e
<1>7. /\ bdl' \in Seq(Entry) /\ Len(bdl') = Len(bdl) + 1 /\ Len(bdl) \in Nat
      /\ bdl'[Len(bdl) + 1] = e
      /\ \A k \in 1..Len(bdl) : bdl'[k] = bdl[k]
  BY <1>1, <1>5, <1>6
<1>8. StreamOK'
  BY <1>6, Zenon DEF IInv, StreamOK, stream
<1>9. LocalsOK'
  <2>1. ioc' \in BOOLEAN
    BY <1>6, Zenon DEF IInv, LocalsOK
  <2> QED  BY <2>1, <1>1, <1>2, <1>6, <1>7 DEF LocalsOK
<1>10. BdlBounded'
  BY <1>1, <1>7, LimitAssumption DEF BdlBounded, frags
<1>11. EntriesTile'
  <2>1. ASSUME NEW k \in 1..Len(bdl')
        PROVE  bdl'[k].size > 0 /\ (bdl'[k].addr % Page) + bdl'[k].size <= Page
    <3>1. CASE k = Len(bdl) + 1
      BY <3>1, <1>2, <1>3, <1>5, <1>7
    <3>2. CASE k \in 1..Len(bdl)
      BY <3>2, <1>7 DEF IInv, EntriesTile, frags
    <3> QED  BY <3>1, <3>2, <1>7
  <2>2. ASSUME NEW k \in 1..Len(bdl') - 1
        PROVE  bdl'[k + 1].addr = bdl'[k].addr + bdl'[k].size
    <3>1. CASE k = Len(bdl)
      <4>1. Base + offset = bdl[k].addr + bdl[k].size
        BY <3>1, <1>1 DEF IInv, OffsetInv, frags
      <4> QED  BY <4>1, <3>1, <1>5, <1>7
    <3>2. CASE k \in 1..Len(bdl) - 1
      BY <3>2, <1>7 DEF IInv, EntriesTile, frags
    <3> QED  BY <3>1, <3>2, <1>7
  <2>3. bdl'[1].addr = Base
    <3>1. CASE Len(bdl) = 0
      BY <3>1, <1>1, <1>5, <1>7, BaseAssumption DEF IInv, OffsetInv, frags
    <3>2. CASE Len(bdl) > 0
      BY <3>2, <1>7 DEF IInv, EntriesTile, frags
    <3> QED  BY <3>1, <3>2, <1>7
  <2> QED  BY <2>1, <2>2, <2>3 DEF EntriesTile, frags
<1>12. OffsetInv'
  <2>1. offset' \in Nat /\ Len(bdl') > 0
    BY <1>1, <1>2, <1>6, <1>7
  <2>2. Base + offset' = bdl'[Len(bdl')].addr + bdl'[Len(bdl')].size
    BY <1>1, <1>2, <1>5, <1>6, <1>7, BaseAssumption
  <2> QED  BY <2>1, <2>2 DEF OffsetInv, frags
<1> QED
  BY <1>8, <1>9, <1>10, <1>11, <1>12 DEF IInv

LEMMA NextIInv == IInv /\ [Next]_vars => IInv'
<1> SUFFICES ASSUME IInv, [Next]_vars PROVE IInv'
  OBVIOUS
\* Every step but AddEntry leaves the list alone.
<1>1. ASSUME UNCHANGED bdl PROVE BdlBounded' /\ EntriesTile'
  BY <1>1 DEF IInv, BdlBounded, EntriesTile, frags
<1>2. CASE NextPeriod
  <2>1. size' \in Int
    BY <1>2, PeriodSizeType DEF IInv, NextPeriod
  <2>2. ioc' \in BOOLEAN
    BY <1>2, Zenon DEF NextPeriod
  <2>3. StreamOK'
    BY <1>2, Zenon DEF NextPeriod, IInv, StreamOK, stream
  <2> QED
    BY <1>1, <1>2, <2>1, <2>2, <2>3
    DEF NextPeriod, IInv, LocalsOK, OffsetInv, Full, frags
<1>3. CASE AddEntry
  BY <1>3, AddEntryKeeps
<1>4. CASE Exceeded
  <2>1. StreamOK' /\ ioc' \in BOOLEAN
    BY <1>4, Zenon DEF Exceeded, IInv, StreamOK, LocalsOK, stream
  <2>2. offset' = -EINVAL /\ size' = size /\ bdl' = bdl /\ Full
    BY <1>4 DEF Exceeded
  <2> QED
    BY <1>1, <2>1, <2>2 DEF IInv, LocalsOK, OffsetInv, Full, frags, EINVAL
<1>5. CASE PeriodDone \/ Program \/ UNCHANGED vars
  <2>1. UNCHANGED <<bufsize, period, wakeup, offset, size, ioc, bdl>>
    <3>1. CASE PeriodDone
      BY <3>1, Zenon DEF PeriodDone, stream
    <3>2. CASE Program
      <4>1. UNCHANGED <<stream, i, offset, size, ioc, bdl>>
        BY <3>2, SMT DEF Program
      <4> QED  BY <4>1, Zenon DEF stream
    <3>3. CASE UNCHANGED vars
      BY <3>3, Zenon DEF vars, stream
    <3> QED  BY <1>5, <3>1, <3>2, <3>3
  <2>2. StreamOK' /\ LocalsOK'
    BY <2>1, Zenon DEF IInv, StreamOK, LocalsOK
  <2>3. BdlBounded' /\ EntriesTile'
    BY <2>1, <1>1
  <2>4. OffsetInv'
    BY <2>1 DEF IInv, OffsetInv, Full, frags
  <2> QED
    BY <2>2, <2>3, <2>4 DEF IInv
<1> QED
  BY <1>2, <1>3, <1>4, <1>5 DEF Next

\* The DMA engine's list is never written past its end, whatever the buffer
\* and period sizes, also when an error return is taken for an offset.
THEOREM ListBounded == Spec => []BdlBounded
<1>1. IInv => BdlBounded
  BY DEF IInv
<1> QED
  BY InitIInv, NextIInv, <1>1, PTL DEF Spec

\* The entries tile the buffer from its start, page by page, for every page
\* size, every period length and every size, negative as int or not.
THEOREM ListTiles == Spec => []EntriesTile
<1>1. IInv => EntriesTile
  BY DEF IInv
<1> QED
  BY InitIInv, NextIInv, <1>1, PTL DEF Spec

-----------------------------------------------------------------------------
(* The types.                                                              *)

\* What the list's theorems do not need: the loop counter and the registers.
ControlOK ==
  /\ pc \in {"period", "entry", "failed", "ready"} /\ i \in Nat
  /\ cbl \in Nat /\ lvi \in 0..LviMax

\* What fits a register of that many values.
LEMMA InRange ==
  ASSUME NEW n \in Int, NEW m \in Nat PROVE n % (m + 1) \in 0..m
  OBVIOUS

LEMMA NextControlOK == IInv /\ ControlOK /\ [Next]_vars => ControlOK'
<1> SUFFICES ASSUME IInv, ControlOK, [Next]_vars PROVE ControlOK'
  OBVIOUS
<1>1. CASE NextPeriod
  BY <1>1 DEF NextPeriod, ControlOK
<1>2. CASE AddEntry
  BY <1>2 DEF AddEntry, ControlOK
<1>3. CASE Exceeded
  BY <1>3 DEF Exceeded, ControlOK
<1>4. CASE PeriodDone
  BY <1>4 DEF PeriodDone, ControlOK
<1>5. CASE Program
  <2>1. bufsize \in Nat /\ frags \in Nat
    BY SizesAssumption, LimitAssumption DEF IInv, StreamOK, LocalsOK, frags
  <2>2. LastValidIndex \in 0..LviMax
    <3>1. LviMax \in Nat
      BY DEF LviMax
    <3>2. frags - 1 \in Int
      BY <2>1
    <3> QED  BY <3>1, <3>2, InRange DEF LastValidIndex
  <2>3. /\ cbl' \in {cbl, bufsize} /\ lvi' \in {lvi, LastValidIndex}
        /\ pc' \in {"failed", "ready"} /\ i' = i
    BY <1>5 DEF Program
  <2> QED  BY <2>1, <2>2, <2>3 DEF ControlOK
<1>6. CASE UNCHANGED vars
  BY <1>6 DEF vars, ControlOK
<1> QED
  BY <1>1, <1>2, <1>3, <1>4, <1>5, <1>6 DEF Next

\* Every size and offset keeps the type the code gives it, and what is put
\* into the 16 bits of the last valid index fits.
THEOREM TypeCorrect == Spec => []TypeOK
<1>1. Init => ControlOK
  BY DEF Init, ControlOK, LviMax
<1>2. IInv /\ ControlOK => TypeOK
  <2> SUFFICES ASSUME IInv, ControlOK PROVE TypeOK
    OBVIOUS
  <2>1. wakeup \in BOOLEAN /\ ioc \in BOOLEAN
    BY Zenon DEF IInv, StreamOK, LocalsOK
  <2>2. bufsize \in Buffers /\ period \in PeriodSizes
    BY Zenon DEF IInv, StreamOK
  <2>3. offset \in {-EINVAL} \cup Nat /\ size \in Int /\ bdl \in Seq(Entry)
    BY Zenon DEF IInv, LocalsOK
  <2>4. i \in Nat /\ cbl \in Nat /\ lvi \in 0..LviMax
        /\ pc \in {"period", "entry", "failed", "ready"}
    BY Zenon DEF ControlOK
  <2> QED  BY <2>1, <2>2, <2>3, <2>4, Zenon DEF TypeOK
<1> QED
  BY InitIInv, NextIInv, NextControlOK, <1>1, <1>2, PTL DEF Spec

-----------------------------------------------------------------------------
(* Where the interrupts are.                                               *)

\* A number of bytes the code takes for an int is that number or negative.
LEMMA ToIntBounds ==
  ASSUME NEW n \in 0..2 * IntMax + 1 PROVE ToInt(n) = n \/ ToInt(n) < 0
  BY LimitAssumption DEF ToInt

LEMMA StreamFacts ==
  ASSUME StreamOK
  PROVE  /\ PeriodBytes \in Nat \ {0} /\ PeriodBytes <= 2 * IntMax + 1
         /\ Remain \in 0..PeriodBytes - 1 /\ Periods \in Int
<1>1. bufsize \in Nat \ {0} /\ period \in Nat /\ bufsize <= 2 * IntMax + 1
      /\ period <= 2 * IntMax + 1
  BY SizesAssumption, LimitAssumption DEF StreamOK
<1>2. PeriodBytes \in Nat \ {0} /\ PeriodBytes <= 2 * IntMax + 1
  BY <1>1 DEF PeriodBytes
<1>3. Remain \in 0..PeriodBytes - 1
  BY <1>1, <1>2 DEF Remain
<1>4. bufsize \div PeriodBytes \in Int
  BY <1>1, <1>2
<1>5. Periods \in Int
  BY <1>4, LimitAssumption DEF Periods, ToInt
<1> QED  BY <1>2, <1>3, <1>5

\* The bytes of a period are between two multiples of its size: b is where the
\* period under way starts.
InPeriod(b) ==
  /\ b % PeriodBytes = 0 /\ b <= offset
  /\ IsLastSmall => offset + size <= b + Remain
  /\ ~IsLastSmall => \/ offset = b /\ size < 0
                     \/ offset + size = b + PeriodBytes /\ size >= 0

PeriodInv ==
  /\ pc = "period" /\ offset >= 0 /\ i < Periods => offset % PeriodBytes = 0
  /\ pc = "entry" => (ioc <=> wakeup /\ ~IsLastSmall)
  /\ pc = "entry" /\ offset >= 0 => \E b \in Nat : InPeriod(b)

PInv == IInv /\ ControlOK /\ PeriodInv /\ IocPerPeriod

\* Where an entry ends that is added d bytes behind the start of its period.
LEMMA EndsAt ==
  ASSUME NEW p \in Nat \ {0}, NEW b \in Nat, b % p = 0, NEW d \in 1..p
  PROVE  (b + d) % p = 0 <=> d = p
<1>1. (b + d) % p = d % p
  <2>1. d \in Nat
    OBVIOUS
  <2> QED  BY <2>1, SameRemainder, Zenon
<1>2. CASE d = p
  <2>1. p % p = 0
    OBVIOUS
  <2> QED  BY <1>1, <1>2, <2>1
<1>3. CASE d < p
  <2>1. d % p = d
    BY <1>3
  <2> QED  BY <1>1, <1>3, <2>1
<1> QED  BY <1>2, <1>3

LEMMA PeriodSame ==
  ASSUME UNCHANGED <<stream, i>>
  PROVE  /\ PeriodBytes' = PeriodBytes /\ Remain' = Remain /\ Periods' = Periods
         /\ IsLastSmall' <=> IsLastSmall
<1>1. bufsize' = bufsize /\ period' = period /\ i' = i
  BY DEF stream
<1>2. PeriodBytes' = PeriodBytes
  BY <1>1 DEF PeriodBytes
<1>3. Remain' = Remain
  BY <1>1, <1>2 DEF Remain
<1>4. Periods' = Periods
  BY <1>1, <1>2, <1>3 DEF Periods, ToInt
<1> QED  BY <1>1, <1>2, <1>3, <1>4, Zenon DEF IsLastSmall

LEMMA NextPeriodKeeps == ASSUME PInv, NextPeriod PROVE PeriodInv'
<1>1. /\ pc = "period" /\ pc' = "entry" /\ i < Periods /\ i' = i /\ offset' = offset
      /\ size' = ToInt(IF IsLastSmall THEN Remain ELSE PeriodBytes)
      /\ UNCHANGED stream /\ wakeup' = wakeup
  BY DEF NextPeriod, stream
<1>2. ioc' = (wakeup /\ ~IsLastSmall)
  BY Zenon DEF NextPeriod
<1>3. /\ PeriodBytes' = PeriodBytes /\ Remain' = Remain /\ Periods' = Periods
      /\ IsLastSmall' <=> IsLastSmall
  BY <1>1, PeriodSame, Zenon
<1>4. /\ PeriodBytes \in Nat \ {0} /\ PeriodBytes <= 2 * IntMax + 1
      /\ Remain \in 0..PeriodBytes - 1 /\ IntMax \in Nat
  BY StreamFacts, LimitAssumption DEF PInv, IInv
<1>5. ioc' <=> wakeup' /\ ~IsLastSmall'
  BY <1>1, <1>2, <1>3, Zenon
<1>6. ASSUME offset' >= 0 PROVE \E b \in Nat : InPeriod(b)'
  <2>1. offset \in Nat /\ offset % PeriodBytes = 0
    BY <1>1, <1>6 DEF PInv, PeriodInv, IInv, LocalsOK, EINVAL
  <2>2. CASE IsLastSmall
    <3>1. size' <= Remain
      <4>1. size' = ToInt(Remain) /\ Remain \in 0..2 * IntMax + 1
        BY <1>1, <1>4, <2>2
      <4>2. ToInt(Remain) = Remain \/ ToInt(Remain) < 0
        BY <4>1, ToIntBounds, Zenon
      <4>3. ToInt(Remain) \in Int
        BY <1>4 DEF ToInt
      <4> QED  BY <4>1, <4>2, <4>3
    <3>2. size' \in Int
      BY <1>1, PeriodSizeType DEF PInv, IInv
    <3> QED  BY <1>1, <1>3, <1>4, <2>1, <2>2, <3>1, <3>2 DEF InPeriod
  <2>3. CASE ~IsLastSmall
    <3>1. size' = PeriodBytes \/ size' < 0
      <4>1. size' = ToInt(PeriodBytes) /\ PeriodBytes \in 0..2 * IntMax + 1
        BY <1>1, <1>4, <2>3
      <4> QED  BY <4>1, <1>4, ToIntBounds
    <3> QED  BY <1>1, <1>3, <1>4, <2>1, <2>3, <3>1 DEF InPeriod
  <2> QED  BY <2>2, <2>3
<1> QED  BY <1>1, <1>5, <1>6 DEF PeriodInv

LEMMA AddEntryIoc == ASSUME PInv, AddEntry PROVE PeriodInv' /\ IocPerPeriod'
<1>1. /\ pc = "entry" /\ pc' = "entry" /\ i' = i /\ wakeup' = wakeup /\ size > 0 /\ ~Full
      /\ bdl' = Append(bdl, [addr |-> Base + offset, size |-> Chunk, ioc |-> EntryIoc])
      /\ size' = size - Chunk /\ offset' = offset + Chunk /\ UNCHANGED stream
  BY DEF AddEntry, stream
<1>2. ioc' = ioc
  BY DEF AddEntry
<1>3. /\ PeriodBytes' = PeriodBytes /\ Remain' = Remain /\ Periods' = Periods
      /\ IsLastSmall' <=> IsLastSmall
  BY <1>1, PeriodSame, Zenon
<1>4. PeriodBytes \in Nat \ {0} /\ Remain \in 0..PeriodBytes - 1
  BY StreamFacts DEF PInv, IInv
<1>5. offset \in Nat /\ size \in Int /\ bdl \in Seq(Entry)
  BY <1>1 DEF PInv, IInv, LocalsOK, OffsetInv, EINVAL
<1>6. Chunk \in Nat /\ 0 < Chunk /\ Chunk <= size
  BY <1>1, <1>5, ChunkBounds
<1>7. PICK b \in Nat : InPeriod(b)
  BY <1>1, <1>5 DEF PInv, PeriodInv
<1>8. InPeriod(b)'
  BY <1>1, <1>3, <1>4, <1>5, <1>6, <1>7 DEF InPeriod
<1>9. ioc <=> wakeup /\ ~IsLastSmall
  BY <1>1, Zenon DEF PInv, PeriodInv
<1>10. PeriodInv'
  <2>1. ioc' <=> wakeup' /\ ~IsLastSmall'
    BY <1>1, <1>2, <1>3, <1>9, Zenon
  <2> QED  BY <1>1, <1>8, <2>1 DEF PeriodInv
\* The new entry ends behind the start of the period, by at most its size.
<1>11. EntryIoc <=> wakeup /\ (offset + Chunk) % PeriodBytes = 0
  <2> DEFINE d == offset + Chunk - b
  <2>1. d \in 1..PeriodBytes /\ b + d = offset + Chunk /\ b % PeriodBytes = 0
    BY <1>1, <1>4, <1>5, <1>6, <1>7 DEF InPeriod
  <2> HIDE DEF d
  <2>2. (offset + Chunk) % PeriodBytes = 0 <=> d = PeriodBytes
    <3>1. (b + d) % PeriodBytes = 0 <=> d = PeriodBytes
      BY <1>4, <2>1, EndsAt, Zenon
    <3> QED  BY <2>1, <3>1
  <2>3. CASE IsLastSmall
    <3>1. d # PeriodBytes
      BY <1>4, <1>5, <1>6, <1>7, <2>1, <2>3 DEF InPeriod
    <3>2. ~EntryIoc
      BY <1>9, <2>3, Zenon DEF EntryIoc
    <3> QED  BY <2>2, <3>1, <3>2
  <2>4. CASE ~IsLastSmall
    <3>1. d = PeriodBytes <=> size = Chunk
      BY <1>1, <1>4, <1>5, <1>6, <1>7, <2>1, <2>4 DEF InPeriod
    <3> QED  BY <1>9, <2>2, <2>4, <3>1, Zenon DEF EntryIoc
  <2> QED  BY <2>3, <2>4
<1>12. IocPerPeriod'
  <2> DEFINE e == [addr |-> Base + offset, size |-> Chunk, ioc |-> EntryIoc]
  <2>1. e.addr - Base + e.size = offset + Chunk /\ e.ioc = EntryIoc
    BY <1>5, <1>6, BaseAssumption
  <2>2. e \in Entry
    <3>1. EntryIoc \in BOOLEAN
      BY Zenon DEF EntryIoc
    <3> QED  BY <1>5, <1>6, <3>1, BaseAssumption DEF Entry
  <2>3. bdl' = Append(bdl, e)
    BY <1>1
  <2> HIDE DEF e
  <2>4. /\ Len(bdl') = Len(bdl) + 1 /\ Len(bdl) \in Nat /\ bdl'[Len(bdl) + 1] = e
        /\ \A k \in 1..Len(bdl) : bdl'[k] = bdl[k]
    BY <1>5, <2>2, <2>3
  <2>5. ASSUME NEW k \in 1..Len(bdl')
        PROVE  bdl'[k].ioc <=> wakeup /\ (bdl'[k].addr - Base + bdl'[k].size) % PeriodBytes = 0
    <3>1. CASE k = Len(bdl) + 1
      <4>1. bdl'[k] = e
        BY <2>4, <3>1
      <4> QED  BY <4>1, <2>1, <1>11, Zenon
    <3>2. CASE k \in 1..Len(bdl)
      <4>1. bdl'[k] = bdl[k]
        BY <2>4, <3>2
      <4> QED  BY <4>1, <3>2, Zenon DEF PInv, IocPerPeriod, frags
    <3> QED  BY <3>1, <3>2, <2>4
  <2> QED  BY <2>5, <1>1, <1>3, Zenon DEF IocPerPeriod, frags
<1> QED  BY <1>10, <1>12

LEMMA PeriodDoneKeeps == ASSUME PInv, PeriodDone PROVE PeriodInv'
<1>1. /\ pc = "entry" /\ pc' = "period" /\ i' = i + 1 /\ offset' = offset /\ size <= 0
      /\ UNCHANGED stream
  BY DEF PeriodDone
<1>2. PeriodBytes' = PeriodBytes /\ Remain' = Remain /\ Periods' = Periods
  BY <1>1 DEF stream, PeriodBytes, Remain, Periods, ToInt
<1>3. /\ PeriodBytes \in Nat \ {0} /\ Remain \in 0..PeriodBytes - 1
      /\ Periods \in Int /\ i \in Nat
  BY StreamFacts DEF PInv, IInv, ControlOK
<1>4. ASSUME offset' >= 0, i' < Periods' PROVE offset' % PeriodBytes' = 0
  <2>1. offset \in Nat /\ size \in Int
    BY <1>1, <1>4 DEF PInv, IInv, LocalsOK, EINVAL
  <2>2. PICK b \in Nat : InPeriod(b)
    BY <1>1, <2>1 DEF PInv, PeriodInv
  <2>3. ~IsLastSmall
    BY <1>1, <1>2, <1>3, <1>4 DEF IsLastSmall
  <2>4. b % PeriodBytes = 0 /\ (offset = b \/ offset = b + PeriodBytes)
    BY <1>1, <1>3, <2>1, <2>2, <2>3 DEF InPeriod
  <2>5. (b + PeriodBytes) % PeriodBytes = 0
    <3>1. PeriodBytes \in 1..PeriodBytes
      BY <1>3
    <3> QED  BY <1>3, <2>4, <3>1, EndsAt, Zenon
  <2> QED  BY <1>1, <1>2, <2>4, <2>5
<1> QED  BY <1>1, <1>4 DEF PeriodInv

LEMMA NextPInv == PInv /\ [Next]_vars => PInv'
<1> SUFFICES ASSUME PInv, [Next]_vars PROVE PInv'
  OBVIOUS
<1>1. IInv' /\ ControlOK'
  BY NextIInv, NextControlOK DEF PInv
\* A step that leaves the list and the stream alone moves no interrupt.
<1>2. ASSUME UNCHANGED <<stream, bdl>> PROVE IocPerPeriod'
  <2>1. bdl' = bdl /\ bufsize' = bufsize /\ period' = period /\ wakeup' = wakeup
    BY <1>2 DEF stream
  <2> QED  BY <2>1, Zenon DEF PInv, IocPerPeriod, frags, PeriodBytes
<1>3. CASE NextPeriod
  <2>1. UNCHANGED <<stream, bdl>>
    BY <1>3 DEF NextPeriod
  <2> QED  BY <1>1, <1>2, <1>3, <2>1, NextPeriodKeeps DEF PInv
<1>4. CASE AddEntry
  BY <1>1, <1>4, AddEntryIoc DEF PInv
<1>5. CASE Exceeded
  <2>1. UNCHANGED <<stream, bdl>> /\ pc' = "period" /\ offset' = -EINVAL
    BY <1>5 DEF Exceeded
  <2>2. PeriodInv'
    BY <2>1 DEF PeriodInv, EINVAL
  <2> QED  BY <1>1, <1>2, <2>1, <2>2 DEF PInv
<1>6. CASE PeriodDone
  <2>1. UNCHANGED <<stream, bdl>>
    BY <1>6 DEF PeriodDone
  <2> QED  BY <1>1, <1>2, <1>6, <2>1, PeriodDoneKeeps DEF PInv
<1>7. CASE Program
  <2>1. UNCHANGED <<stream, bdl>> /\ pc' \in {"failed", "ready"}
    BY <1>7 DEF Program
  <2>2. PeriodInv'
    BY <2>1 DEF PeriodInv
  <2> QED  BY <1>1, <1>2, <2>1, <2>2 DEF PInv
<1>8. CASE UNCHANGED vars
  <2>1. UNCHANGED <<bufsize, period, wakeup, pc, i, offset, size, ioc, bdl>>
    BY <1>8, Zenon DEF vars, stream
  <2>2. PeriodInv'
    BY <2>1, Zenon DEF PInv, PeriodInv, InPeriod, IsLastSmall, Periods, Remain, PeriodBytes, ToInt
  <2>3. UNCHANGED <<stream, bdl>>
    BY <2>1 DEF stream
  <2> QED  BY <1>1, <1>2, <2>2, <2>3 DEF PInv
<1> QED
  BY <1>3, <1>4, <1>5, <1>6, <1>7, <1>8 DEF Next

LEMMA InitPInv == Init => PInv
<1> SUFFICES ASSUME Init PROVE PInv
  OBVIOUS
<1>1. ControlOK
  BY DEF Init, ControlOK, LviMax
<1>2. IocPerPeriod
  BY DEF Init, IocPerPeriod, frags
<1>3. PeriodInv
  <2>1. pc = "period" /\ offset = 0 /\ StreamOK
    BY InitIInv DEF Init, IInv
  <2>2. 0 % PeriodBytes = 0
    BY <2>1, StreamFacts
  <2> QED  BY <2>1, <2>2 DEF PeriodInv
<1> QED  BY InitIInv, <1>1, <1>2, <1>3 DEF PInv

\* The DMA interrupts exactly where a whole period ends, for every page size
\* and however periods and pages lie to each other, the sizes that are
\* negative as int included.
THEOREM InterruptsAtPeriods == Spec => []IocPerPeriod
<1>1. PInv => IocPerPeriod
  BY DEF PInv
<1> QED
  BY <1>1, InitPInv, NextPInv, PTL DEF Spec

-----------------------------------------------------------------------------
(* Where the cuts are, for a buffer whose size is an int.                  *)

Addrs == {bdl[k].addr - Base : k \in 1..frags}
Start == i * PeriodBytes  \* of the period under way
End   == IF IsLastSmall THEN bufsize ELSE Start + PeriodBytes

\* The entries are all cuts before the offset; after an error return the list
\* is full of cuts and one is missing.
CutsSoFar ==
  /\ IsFiniteSet(Addrs) /\ Cardinality(Addrs) = frags
  /\ offset >= 0 => /\ Addrs = {x \in Starts : x < offset}
                    /\ offset < bufsize => offset \in Starts
  /\ offset < 0 => Addrs \subseteq Starts /\ \E x \in Starts : x \notin Addrs

\* The loops keep step with the buffer.
InStep ==
  /\ pc = "period" /\ offset >= 0 => offset = IF i < Periods THEN Start ELSE bufsize
  /\ pc = "entry" => i < Periods
  /\ pc = "entry" /\ offset >= 0 => size >= 0 /\ Start <= offset /\ offset + size = End
  /\ pc = "ready" => offset = bufsize /\ cbl = bufsize /\ lvi = frags - 1
  /\ pc = "failed" => offset < 0

CutInv == bufsize <= IntMax => CutsSoFar /\ InStep

LEMMA Times ==
  ASSUME NEW p \in Nat, NEW q \in Nat, NEW r \in Nat
  PROVE  /\ q * p \in Nat /\ (q + 1) * p = q * p + p
         /\ q < r => q * p + p <= r * p
<1>1. q * p \in Nat /\ (q + 1) * p = q * p + p
  OBVIOUS
<1>2. ASSUME q < r PROVE q * p + p <= r * p
  <2> DEFINE s == r - q - 1
  <2>1. s \in Nat /\ r = q + 1 + s
    BY <1>2
  <2> HIDE DEF s
  <2>2. r * p = q * p + p + s * p /\ s * p \in Nat
    BY <2>1
  <2> QED  BY <1>1, <2>2
<1> QED  BY <1>1, <1>2

LEMMA MultipleMod ==
  ASSUME NEW p \in Nat \ {0}, NEW q \in Nat PROVE (q * p) % p = 0
  OBVIOUS

\* The whole periods and the rest make up the buffer.
LEMMA BufferParts ==
  ASSUME StreamOK, bufsize <= IntMax
  PROVE  \E n \in Nat : /\ bufsize = n * PeriodBytes + Remain
                        /\ Periods = n + IF Remain = 0 THEN 0 ELSE 1
<1> DEFINE n == bufsize \div PeriodBytes
<1>1. /\ PeriodBytes \in Nat \ {0} /\ Remain \in 0..PeriodBytes - 1 /\ IntMax \in Nat
      /\ bufsize \in Nat \ {0}
  BY StreamFacts, SizesAssumption, LimitAssumption DEF StreamOK
<1>2. n \in Nat /\ bufsize = n * PeriodBytes + Remain
  BY <1>1 DEF Remain
<1> HIDE DEF n
\* No more periods than bytes, so their number is an int, too.
<1>3. n + (IF Remain = 0 THEN 0 ELSE 1) <= IntMax
  <2>1. n <= n * PeriodBytes
    BY <1>1, <1>2
  <2> QED  BY <1>1, <1>2, <2>1
<1>4. Periods = n + IF Remain = 0 THEN 0 ELSE 1
  <2>1. Periods = ToInt(n + IF Remain = 0 THEN 0 ELSE 1)
    BY DEF n, Periods
  <2> QED  BY <1>1, <1>2, <1>3, <2>1 DEF ToInt
<1> QED  BY <1>2, <1>4

\* Where the period under way ends, and what comes after it.
LEMMA PeriodEnd ==
  ASSUME StreamOK, bufsize <= IntMax, i \in Nat, i < Periods
  PROVE  /\ Start \in Nat /\ Start % PeriodBytes = 0
         /\ IsLastSmall => bufsize = Start + Remain
         /\ ~IsLastSmall => Start + PeriodBytes <= bufsize
         /\ i + 1 < Periods => ~IsLastSmall /\ (i + 1) * PeriodBytes = End
         /\ i + 1 >= Periods => bufsize = End
<1>1. PICK n \in Nat : /\ bufsize = n * PeriodBytes + Remain
                       /\ Periods = n + IF Remain = 0 THEN 0 ELSE 1
  BY BufferParts
<1>2. PeriodBytes \in Nat \ {0} /\ Remain \in 0..PeriodBytes - 1 /\ bufsize \in Nat
  BY StreamFacts, SizesAssumption, LimitAssumption DEF StreamOK
<1>3. Start \in Nat /\ (i + 1) * PeriodBytes = Start + PeriodBytes
  BY <1>2, Times DEF Start
<1>4. Start % PeriodBytes = 0
  BY <1>2, MultipleMod, Zenon DEF Start
<1>5. CASE IsLastSmall
  <2>1. i = n
    BY <1>1, <1>2, <1>5 DEF IsLastSmall
  <2>2. bufsize = Start + Remain
    BY <1>1, <2>1 DEF Start
  <2> QED  BY <1>1, <1>2, <1>3, <1>4, <1>5, <2>1, <2>2 DEF End, IsLastSmall
<1>6. CASE ~IsLastSmall
  <2>1. i < n
    BY <1>1, <1>2, <1>6 DEF IsLastSmall
  <2>2. Start + PeriodBytes <= n * PeriodBytes
    BY <1>1, <1>2, <2>1, Times DEF Start
  <2>3. n * PeriodBytes \in Nat
    BY <1>2, Times
  <2>4. Start + PeriodBytes <= bufsize
    BY <1>1, <1>2, <1>3, <2>2, <2>3
  <2>5. ASSUME i + 1 >= Periods PROVE bufsize = Start + PeriodBytes
    <3>1. Remain = 0 /\ n = i + 1
      BY <1>1, <1>2, <1>6, <2>1, <2>5 DEF IsLastSmall
    <3>2. n * PeriodBytes = (i + 1) * PeriodBytes
      BY <3>1
    <3> QED  BY <1>1, <1>3, <2>3, <3>1, <3>2
  <2> QED  BY <1>3, <1>4, <1>6, <2>4, <2>5 DEF End
<1> QED  BY <1>5, <1>6

LEMMA Floor ==
  ASSUME NEW p \in Nat \ {0}, NEW n \in Nat
  PROVE  \E c \in Nat : c % p = 0 /\ n = c + (n % p)
<1> DEFINE q == n \div p   m == n % p
<1>1. q \in Nat /\ n = p * q + m
  OBVIOUS
<1> HIDE DEF q, m
<1>2. q * p \in Nat /\ (q * p) % p = 0 /\ q * p = p * q
  BY <1>1, MultipleMod, Times
<1>3. n = q * p + m
  BY <1>1, <1>2
<1> QED  BY <1>2, <1>3, Zenon DEF m

\* An entry starts at a cut, goes on to the next one and passes none.
LEMMA EntryCuts ==
  ASSUME PInv, CutInv, bufsize <= IntMax, AddEntry
  PROVE  /\ offset \in Nat /\ offset \in Starts /\ Chunk \in Nat /\ Chunk > 0
         /\ offset + Chunk < bufsize => offset + Chunk \in Starts
         /\ \A x \in Starts : x < offset + Chunk <=> x < offset \/ x = offset
<1>1. pc = "entry" /\ size > 0 /\ ~Full
  BY DEF AddEntry
<1>2. offset \in Nat /\ size \in Int
  BY <1>1 DEF PInv, IInv, LocalsOK, OffsetInv, EINVAL
<1>3. /\ PeriodBytes \in Nat \ {0} /\ Remain \in 0..PeriodBytes - 1 /\ bufsize \in Nat
      /\ Page \in Nat \ {0}
  BY StreamFacts, SizesAssumption, LimitAssumption, PageAssumption DEF PInv, IInv, StreamOK
<1>4. Chunk \in Nat /\ 0 < Chunk /\ Chunk <= size /\ (offset % Page) + Chunk <= Page
  BY <1>1, <1>2, ChunkBounds
<1>5. i < Periods /\ Start <= offset /\ offset + size = End
  BY <1>1, <1>2 DEF CutInv, InStep
<1>6. /\ Start \in Nat /\ Start % PeriodBytes = 0
      /\ IsLastSmall => bufsize = Start + Remain
      /\ ~IsLastSmall => Start + PeriodBytes <= bufsize
  BY <1>5, PeriodEnd DEF PInv, IInv, ControlOK
<1>7. End <= bufsize /\ End <= Start + PeriodBytes
  BY <1>3, <1>6 DEF End
<1> DEFINE m == offset % Page
<1>8. PICK c \in Nat : c % Page = 0 /\ offset = c + m
  BY <1>2, <1>3, Floor
<1>9. m \in Nat /\ m + Chunk <= Page /\ Chunk = IF size > Page - m THEN Page - m ELSE size
  BY <1>2, <1>3, <1>4 DEF Chunk
<1> HIDE DEF m
<1>10. offset \in Starts
  BY <1>1, <1>2, <1>5, <1>7, <1>3 DEF CutInv, CutsSoFar
<1>11. ASSUME offset + Chunk < bufsize PROVE offset + Chunk \in Starts
  <2>1. CASE Chunk = size
    <3>1. offset + Chunk = Start + PeriodBytes
      BY <1>2, <1>3, <1>5, <1>6, <1>11, <2>1 DEF End
    <3>2. PeriodBytes \in 1..PeriodBytes
      BY <1>3
    <3>3. (Start + PeriodBytes) % PeriodBytes = 0
      BY <1>3, <1>6, <3>2, EndsAt, Zenon
    <3> QED  BY <1>2, <1>3, <1>4, <1>11, <3>1, <3>3 DEF Starts
  <2>2. CASE Chunk # size
    <3>1. offset + Chunk = c + Page
      BY <1>2, <1>3, <1>8, <1>9, <2>2
    <3>2. Page \in 1..Page
      BY <1>3
    <3>3. (c + Page) % Page = 0
      BY <1>3, <1>8, <3>2, EndsAt, Zenon
    <3> QED  BY <1>2, <1>3, <1>4, <1>11, <3>1, <3>3 DEF Starts
  <2> QED  BY <2>1, <2>2
<1>12. ASSUME NEW x \in Nat, offset < x, x < offset + Chunk PROVE x \notin Starts
  <2>1. x % Page # 0
    <3>1. PICK d \in 1..Page : d # Page /\ x = c + d
      <4>1. x - c \in 1..Page /\ x - c # Page /\ x = c + (x - c)
        BY <1>2, <1>3, <1>4, <1>8, <1>9, <1>12
      <4> QED  BY <4>1
    <3>2. (c + d) % Page # 0
      <4>1. d \in 1..Page /\ d # Page /\ c % Page = 0
        BY <3>1, <1>8
      <4> QED  BY <1>3, <1>8, <4>1, EndsAt, Zenon
    <3> QED  BY <3>1, <3>2
  <2>2. x % PeriodBytes # 0
    <3>1. PICK d \in 1..PeriodBytes : d # PeriodBytes /\ x = Start + d
      <4>1. x - Start \in 1..PeriodBytes /\ x - Start # PeriodBytes /\ x = Start + (x - Start)
        BY <1>2, <1>3, <1>4, <1>5, <1>6, <1>7, <1>12
      <4> QED  BY <4>1
    <3>2. (Start + d) % PeriodBytes # 0
      <4>1. d \in 1..PeriodBytes /\ d # PeriodBytes /\ Start % PeriodBytes = 0
        BY <3>1, <1>6
      <4> QED  BY <1>3, <1>6, <4>1, EndsAt, Zenon
    <3> QED  BY <3>1, <3>2
  <2> QED  BY <2>1, <2>2 DEF Starts
<1>13. \A x \in Starts : x < offset + Chunk <=> x < offset \/ x = offset
  <2>1. \A x \in Starts : x \in Nat
    BY <1>3 DEF Starts
  <2> QED  BY <2>1, <1>2, <1>4, <1>12
<1> QED  BY <1>2, <1>4, <1>10, <1>11, <1>13

LEMMA AddEntryCuts ==
  ASSUME PInv, CutInv, bufsize <= IntMax, AddEntry PROVE CutsSoFar' /\ InStep'
<1>1. /\ pc = "entry" /\ pc' = "entry" /\ i' = i /\ size' = size - Chunk
      /\ offset' = offset + Chunk /\ UNCHANGED stream
      /\ bdl' = Append(bdl, [addr |-> Base + offset, size |-> Chunk, ioc |-> EntryIoc])
  BY DEF AddEntry
<1>2. /\ offset \in Nat /\ offset \in Starts /\ Chunk \in Nat /\ Chunk > 0
      /\ offset + Chunk < bufsize => offset + Chunk \in Starts
      /\ \A x \in Starts : x < offset + Chunk <=> x < offset \/ x = offset
  BY EntryCuts
<1>3. bufsize' = bufsize /\ period' = period /\ PeriodBytes' = PeriodBytes
  BY <1>1 DEF stream, PeriodBytes
<1>4. Starts' = Starts
  BY <1>3 DEF Starts
<1>5. size \in Int /\ size > 0 /\ Chunk <= size
  BY <1>2, ChunkBounds DEF AddEntry, PInv, IInv, LocalsOK
<1>6. /\ IsFiniteSet(Addrs) /\ Cardinality(Addrs) = frags /\ Addrs = {x \in Starts : x < offset}
      /\ i < Periods /\ Start <= offset /\ offset + size = End
  BY <1>1, <1>2 DEF CutInv, CutsSoFar, InStep
<1>7. Addrs' = Addrs \cup {offset} /\ frags' = frags + 1
  <2> DEFINE e == [addr |-> Base + offset, size |-> Chunk, ioc |-> EntryIoc]
  <2>1. bdl' = Append(bdl, e) /\ e.addr - Base = offset /\ bdl \in Seq(Entry)
    BY <1>1, <1>2, BaseAssumption DEF PInv, IInv, LocalsOK
  <2> HIDE DEF e
  <2>2. /\ Len(bdl') = Len(bdl) + 1 /\ Len(bdl) \in Nat /\ bdl'[Len(bdl) + 1] = e
        /\ \A k \in 1..Len(bdl) : bdl'[k] = bdl[k]
    BY <2>1
  <2>3. 1..Len(bdl') = 1..Len(bdl) \cup {Len(bdl) + 1}
    BY <2>2
  <2> QED  BY <2>1, <2>2, <2>3 DEF Addrs, frags
<1>8. CutsSoFar'
  <2>1. IsFiniteSet(Addrs') /\ Cardinality(Addrs') = frags'
    <3>1. offset \notin Addrs
      BY <1>2, <1>6
    <3> QED  BY <1>6, <1>7, <3>1, FS_AddElement
  <2>2. Addrs' = {x \in Starts : x < offset + Chunk}
    BY <1>2, <1>6, <1>7
  <2>3. offset' >= 0
    BY <1>1, <1>2
  <2> QED  BY <1>1, <1>2, <1>3, <1>4, <2>1, <2>2, <2>3 DEF CutsSoFar
<1>9. InStep'
  <2>1. /\ Periods' = Periods /\ (IsLastSmall' <=> IsLastSmall) /\ Start' = Start
    BY <1>1, <1>3, PeriodSame DEF Start
  <2>2. End' = End
    BY <1>3, <2>1 DEF End
  <2>3. Start \in Nat /\ End \in Int
    <3>1. Start \in Nat /\ PeriodBytes \in Nat /\ bufsize \in Nat
      BY <1>6, PeriodEnd, StreamFacts, SizesAssumption, LimitAssumption
      DEF PInv, IInv, StreamOK, ControlOK
    <3> QED  BY <3>1 DEF End
  <2> QED  BY <1>1, <1>2, <1>5, <1>6, <2>1, <2>2, <2>3 DEF InStep
<1> QED  BY <1>8, <1>9

\* The steps that leave the list and the stream alone.
LEMMA CutsKept ==
  ASSUME CutsSoFar, UNCHANGED <<stream, bdl, offset>> PROVE CutsSoFar'
<1>1. bdl' = bdl /\ offset' = offset /\ bufsize' = bufsize /\ PeriodBytes' = PeriodBytes
  BY DEF stream, PeriodBytes
<1>2. Addrs' = Addrs /\ frags' = frags /\ Starts' = Starts
  BY <1>1 DEF Addrs, frags, Starts
<1> QED  BY <1>1, <1>2 DEF CutsSoFar

LEMMA SmallMod ==
  ASSUME NEW m \in Nat, NEW n \in 0..m PROVE n % (m + 1) = n
  OBVIOUS

LEMMA OtherCuts ==
  ASSUME PInv, CutsSoFar, InStep, bufsize <= IntMax,
         NextPeriod \/ Exceeded \/ PeriodDone \/ Program
  PROVE  CutsSoFar' /\ InStep'
<1>1. /\ PeriodBytes \in Nat \ {0} /\ Remain \in 0..PeriodBytes - 1 /\ Periods \in Int
      /\ bufsize \in Nat \ {0} /\ IntMax \in Nat /\ MaxEntries \in Nat /\ i \in Nat
      /\ size \in Int /\ offset \in {-EINVAL} \cup Nat /\ frags \in Nat
  BY StreamFacts, SizesAssumption, LimitAssumption
  DEF PInv, IInv, StreamOK, LocalsOK, ControlOK, frags
<1>2. ASSUME i < Periods
      PROVE  /\ Start \in Nat
             /\ IsLastSmall => bufsize = Start + Remain
             /\ ~IsLastSmall => Start + PeriodBytes <= bufsize
             /\ i + 1 < Periods => ~IsLastSmall /\ (i + 1) * PeriodBytes = End
             /\ i + 1 >= Periods => bufsize = End
  BY <1>1, <1>2, PeriodEnd DEF PInv, IInv
<1>3. bdl' = bdl /\ bufsize' = bufsize /\ period' = period /\ frags' = frags
  BY DEF NextPeriod, Exceeded, PeriodDone, Program, stream, frags
<1>4. PeriodBytes' = PeriodBytes /\ Remain' = Remain /\ Periods' = Periods
  BY <1>3 DEF PeriodBytes, Remain, Periods, ToInt
<1>5. CASE NextPeriod
  <2>1. /\ pc = "period" /\ pc' = "entry" /\ i' = i /\ i < Periods /\ offset' = offset
        /\ size' = ToInt(IF IsLastSmall THEN Remain ELSE PeriodBytes)
        /\ UNCHANGED <<stream, bdl>>
    BY <1>5 DEF NextPeriod
  <2>2. (IsLastSmall' <=> IsLastSmall) /\ Start' = Start /\ End' = End
    BY <1>3, <1>4, <2>1, Zenon DEF IsLastSmall, Start, End
  \* The sizes are those of parts of the buffer and so do not overflow.
  <2>3. size' = IF IsLastSmall THEN Remain ELSE PeriodBytes
    BY <1>1, <1>2, <2>1 DEF ToInt
  <2>4. offset >= 0 => offset + size' = End
    BY <1>1, <1>2, <2>1, <2>3 DEF InStep, End
  <2>5. size' >= 0
    BY <1>1, <2>3
  <2>6. InStep'
    BY <1>1, <1>2, <1>4, <2>1, <2>2, <2>4, <2>5 DEF InStep
  <2> QED  BY <2>1, <2>6, CutsKept
<1>6. CASE Exceeded
  <2>1. pc = "entry" /\ pc' = "period" /\ size > 0 /\ offset' < 0
    BY <1>6 DEF Exceeded, EINVAL
  <2>2. Addrs' = Addrs /\ Starts' = Starts
    BY <1>3, <1>4 DEF Addrs, Starts
  <2>3. Addrs \subseteq Starts /\ \E x \in Starts : x \notin Addrs
    <3>1. CASE offset >= 0
      <4>1. offset < bufsize
        BY <1>1, <1>2, <2>1, <3>1 DEF InStep, End
      <4> QED  BY <1>1, <3>1, <4>1 DEF CutsSoFar
    <3>2. CASE offset < 0
      BY <3>2 DEF CutsSoFar
    <3> QED  BY <1>1, <3>1, <3>2 DEF EINVAL
  <2>4. CutsSoFar'
    <3>1. IsFiniteSet(Addrs') /\ Cardinality(Addrs') = frags'
      BY <1>3, <2>2, Zenon DEF CutsSoFar
    <3>2. Addrs' \subseteq Starts' /\ \E x \in Starts' : x \notin Addrs'
      BY <2>2, <2>3, Zenon
    <3>3. ~(offset' >= 0)
      BY <1>6 DEF Exceeded, EINVAL
    <3> QED  BY <3>1, <3>2, <3>3, Zenon DEF CutsSoFar
  <2> QED  BY <1>6, <2>1, <2>4 DEF InStep, Exceeded, EINVAL
<1>7. CASE PeriodDone
  <2>1. /\ pc = "entry" /\ pc' = "period" /\ i' = i + 1 /\ size <= 0 /\ offset' = offset
        /\ UNCHANGED <<stream, bdl>>
    BY <1>7 DEF PeriodDone
  <2>2. Start' = (i + 1) * PeriodBytes
    BY <1>4, <2>1 DEF Start
  <2>3. i < Periods /\ (offset >= 0 => offset = End)
    BY <1>1, <2>1 DEF InStep
  <2>4. InStep'
    BY <1>1, <1>2, <1>3, <1>4, <2>1, <2>2, <2>3 DEF InStep
  <2> QED  BY <2>1, <2>4, CutsKept
<1>8. CASE Program
  <2>1. /\ pc = "period" /\ i >= Periods /\ offset' = offset
        /\ \/ offset < 0 /\ pc' = "failed"
           \/ offset >= 0 /\ pc' = "ready" /\ cbl' = bufsize /\ lvi' = LastValidIndex
        /\ UNCHANGED <<stream, bdl>>
    BY <1>8 DEF Program
  <2>2. ASSUME offset >= 0 PROVE offset = bufsize /\ LastValidIndex = frags - 1
    <3>1. offset = bufsize
      BY <1>1, <2>1, <2>2 DEF InStep
    <3>2. frags > 0 /\ frags <= MaxEntries
      BY <1>1, <3>1 DEF PInv, IInv, OffsetInv, BdlBounded
    <3>3. LviMax \in Nat
      BY DEF LviMax
    <3>4. frags - 1 \in 0..LviMax
      BY <1>1, <3>2, <3>3, ListAssumption
    <3> QED  BY <3>1, <3>3, <3>4, SmallMod DEF LastValidIndex
  <2>3. InStep'
    BY <1>3, <2>1, <2>2 DEF InStep
  <2> QED  BY <2>1, <2>3, CutsKept
<1> QED  BY <1>5, <1>6, <1>7, <1>8

LEMMA NextCutInv == PInv /\ CutInv /\ [Next]_vars => CutInv'
<1> SUFFICES ASSUME PInv, CutInv, [Next]_vars, bufsize' <= IntMax PROVE CutsSoFar' /\ InStep'
  BY DEF CutInv
<1>1. bufsize' = bufsize
  BY DEF Next, NextPeriod, AddEntry, Exceeded, PeriodDone, Program, vars, stream
<1>2. CutsSoFar /\ InStep /\ bufsize <= IntMax
  BY <1>1 DEF CutInv
<1>3. CASE AddEntry
  BY <1>2, <1>3, AddEntryCuts
<1>4. CASE NextPeriod \/ Exceeded \/ PeriodDone \/ Program
  BY <1>2, <1>4, OtherCuts
<1>5. CASE UNCHANGED vars
  <2>1. UNCHANGED <<bufsize, period, pc, i, offset, size, bdl, cbl, lvi>>
    BY <1>5, Zenon DEF vars, stream
  <2>2. InStep'
    BY <1>2, <2>1, Zenon
    DEF InStep, Start, End, IsLastSmall, Periods, Remain, PeriodBytes, ToInt, frags
  <2>3. UNCHANGED <<stream, bdl, offset>>
    BY <1>5 DEF vars
  <2> QED  BY <1>2, <2>2, <2>3, CutsKept
<1> QED  BY <1>3, <1>4, <1>5 DEF Next

\* A buffer whose size is an int is cut at every page and every period, the
\* registers say so, and the loops fail only when the cuts do not fit.
THEOREM CutsRight == Spec => []CutsExactly
<1>1. Init => PInv /\ CutInv
  <2> SUFFICES ASSUME Init PROVE PInv /\ CutInv
    OBVIOUS
  <2>1. PInv
    BY InitPInv
  <2>2. bdl = <<>> /\ frags = 0 /\ offset = 0 /\ pc = "period" /\ i = 0
    BY DEF Init, frags
  <2>3. PeriodBytes \in Nat \ {0} /\ Periods \in Int /\ bufsize \in Nat \ {0}
    BY <2>1, StreamFacts, SizesAssumption, LimitAssumption DEF PInv, IInv, StreamOK
  <2>4. Addrs = {} /\ {x \in Starts : x < 0} = {}
    BY <2>2, <2>3 DEF Addrs, Starts
  <2>5. 0 \in Starts
    BY <2>3, PageAssumption DEF Starts
  <2>6. CutsSoFar
    BY <2>2, <2>4, <2>5, FS_EmptySet DEF CutsSoFar
  <2>7. ASSUME bufsize <= IntMax PROVE InStep
    <3>1. Start = 0
      BY <2>2, <2>3 DEF Start
    <3>2. 0 < Periods
      <4>1. PICK n \in Nat : /\ bufsize = n * PeriodBytes + Remain
                             /\ Periods = n + IF Remain = 0 THEN 0 ELSE 1
        BY <2>1, <2>7, BufferParts DEF PInv, IInv
      <4>2. CASE n = 0
        BY <2>3, <4>1, <4>2
      <4>3. CASE n > 0
        BY <4>1, <4>3
      <4> QED  BY <4>2, <4>3
    <3> QED  BY <2>2, <3>1, <3>2 DEF InStep
  <2> QED  BY <2>1, <2>6, <2>7 DEF CutInv
<1>2. PInv /\ CutInv => CutsExactly
  <2> SUFFICES ASSUME PInv, CutInv, bufsize <= IntMax
               PROVE  /\ pc = "ready" => /\ Addrs = Starts /\ frags = Cardinality(Starts)
                                         /\ offset = bufsize /\ cbl = bufsize /\ lvi = frags - 1
                      /\ pc = "failed" => Cardinality(Starts) > MaxEntries
    BY DEF CutsExactly, Addrs
  <2>1. bufsize \in Nat /\ MaxEntries \in Nat /\ frags \in Nat
    BY SizesAssumption, LimitAssumption DEF PInv, IInv, StreamOK, LocalsOK, frags
  <2>2. ASSUME pc = "ready"
        PROVE  /\ Addrs = Starts /\ frags = Cardinality(Starts)
               /\ offset = bufsize /\ cbl = bufsize /\ lvi = frags - 1
    <3>1. offset = bufsize /\ cbl = bufsize /\ lvi = frags - 1
      BY <2>2 DEF CutInv, InStep
    <3>2. Addrs = Starts
      <4>1. \A x \in Starts : x < bufsize
        BY <2>1 DEF Starts
      <4> QED  BY <2>1, <3>1, <4>1 DEF CutInv, CutsSoFar
    <3> QED  BY <3>1, <3>2 DEF CutInv, CutsSoFar
  <2>3. ASSUME pc = "failed" PROVE Cardinality(Starts) > MaxEntries
    <3>1. offset < 0 /\ frags >= MaxEntries
      BY <2>3 DEF CutInv, InStep, PInv, IInv, OffsetInv, Full
    <3>2. Addrs \subseteq Starts /\ IsFiniteSet(Addrs) /\ Cardinality(Addrs) = frags
      BY <3>1 DEF CutInv, CutsSoFar
    <3>3. Starts # Addrs
      BY <3>1 DEF CutInv, CutsSoFar
    <3>4. IsFiniteSet(Starts)
      <4>1. IsFiniteSet(0..bufsize - 1) /\ Starts \subseteq 0..bufsize - 1
        BY <2>1, FS_Interval DEF Starts
      <4> QED  BY <4>1, FS_Subset
    <3>5. Cardinality(Addrs) < Cardinality(Starts)
      <4>1. Cardinality(Addrs) <= Cardinality(Starts)
        BY <3>2, <3>4, FS_Subset
      <4>2. Cardinality(Starts) # Cardinality(Addrs)
        BY <3>2, <3>3, <3>4, FS_Subset
      <4>3. Cardinality(Starts) \in Nat /\ Cardinality(Addrs) \in Nat
        BY <3>2, <3>4, FS_CardinalityType
      <4> QED  BY <4>1, <4>2, <4>3
    <3>6. Cardinality(Starts) \in Nat
      BY <3>4, FS_CardinalityType
    <3> QED  BY <2>1, <3>1, <3>2, <3>5, <3>6
  <2> QED  BY <2>2, <2>3
<1> QED
  BY <1>1, <1>2, NextPInv, NextCutInv, PTL DEF Spec

-----------------------------------------------------------------------------
(* The loops end.                                                          *)

\* The periods still to be started are the same before and after a step.
LEMMA PeriodsStay == [Next]_vars => Periods' = Periods
<1> SUFFICES ASSUME [Next]_vars PROVE Periods' = Periods
  OBVIOUS
<1>1. bufsize' = bufsize /\ period' = period
  BY DEF Next, NextPeriod, AddEntry, Exceeded, PeriodDone, Program, vars, stream
<1> QED
  BY <1>1, Zenon DEF Periods, ToInt, Remain, PeriodBytes

\* An upper bound on the turns of the two loops.
StepsLeft ==
  IF pc \in {"failed", "ready"} THEN 0
  ELSE 2 * (IF i < Periods THEN Periods - i ELSE 0) + (MaxEntries - frags)
       + (IF pc = "entry" THEN 0 ELSE 1)

Underway == pc = "entry" => i < Periods

\* The loops end, whatever the sizes, those that are negative as int or that
\* the list has no room for included, after two turns for each period and one
\* for each entry at most (loader-helper.c 326-358, 403-418).
THEOREM ListEnds ==
  Spec => /\ StepsLeft = 2 * (IF 0 < Periods THEN Periods ELSE 0) + MaxEntries + 1
          /\ [](StepsLeft \in Nat) /\ [][StepsLeft' < StepsLeft]_vars
<1>1. Init => Underway /\ StepsLeft = 2 * (IF 0 < Periods THEN Periods ELSE 0) + MaxEntries + 1
  <2> SUFFICES ASSUME Init
               PROVE  /\ Underway
                      /\ StepsLeft = 2 * (IF 0 < Periods THEN Periods ELSE 0) + MaxEntries + 1
    OBVIOUS
  <2>1. Periods \in Int
    BY InitIInv, StreamFacts DEF IInv
  <2>2. pc = "period" /\ i = 0 /\ frags = 0
    BY DEF Init, frags
  <2> QED
    BY <2>1, <2>2, LimitAssumption DEF Underway, StepsLeft
<1>2. Underway /\ [Next]_vars => Underway'
  <2> SUFFICES ASSUME Underway, [Next]_vars PROVE Underway'
    OBVIOUS
  <2>1. Periods' = Periods
    BY PeriodsStay
  <2> QED
    BY <2>1 DEF Underway, Next, NextPeriod, AddEntry, Exceeded, PeriodDone, Program, vars
<1>3. ASSUME IInv, ControlOK
      PROVE  /\ Periods \in Int /\ i \in Nat /\ MaxEntries \in Nat
             /\ frags \in Nat /\ frags <= MaxEntries
  <2>1. StreamOK /\ BdlBounded /\ bdl \in Seq(Entry) /\ i \in Nat
    BY <1>3, Zenon DEF IInv, LocalsOK, ControlOK
  <2>2. Periods \in Int
    BY <2>1, StreamFacts
  <2>3. frags \in Nat
    BY <2>1 DEF frags
  <2> QED
    BY <2>1, <2>2, <2>3, LimitAssumption DEF BdlBounded
<1>4. IInv /\ ControlOK => StepsLeft \in Nat
  BY <1>3 DEF StepsLeft
<1>5. IInv /\ ControlOK /\ Underway /\ [Next]_vars => StepsLeft' < StepsLeft \/ UNCHANGED vars
  <2> SUFFICES ASSUME IInv, ControlOK, Underway, Next PROVE StepsLeft' < StepsLeft
    OBVIOUS
  <2>0. frags' \in Nat /\ frags' <= MaxEntries
    <3>1. IInv'
      BY NextIInv
    <3>2. LocalsOK' /\ BdlBounded'
      BY <3>1 DEF IInv
    <3>3. bdl' \in Seq(Entry)
      BY <3>2, Zenon DEF LocalsOK
    <3>4. Len(bdl') \in Nat
      BY <3>3
    <3> QED
      BY <3>2, <3>4 DEF BdlBounded, frags
  <2>1. PICK p \in Int, m \in Nat, n \in Nat, q \in Nat :
          /\ p = Periods /\ m = MaxEntries /\ n = frags /\ q = frags'
          /\ n <= m /\ q <= m
    <3>1. frags \in 0..MaxEntries /\ frags' \in 0..MaxEntries
      BY <1>3, <2>0
    <3> QED
      BY <1>3, <3>1
  <2>2. Periods' = p /\ i \in Nat
    BY <1>3, <2>1, PeriodsStay
  <2>3. CASE NextPeriod
    <3>1. q = n
      BY <2>1, <2>3 DEF NextPeriod, frags
    <3> QED
      BY <2>1, <2>2, <2>3, <3>1 DEF NextPeriod, StepsLeft
  <2>4. CASE AddEntry
    <3>1. q = n + 1
      BY <2>1, <2>4 DEF AddEntry, IInv, LocalsOK, frags
    <3> QED
      BY <2>1, <2>2, <2>4, <3>1 DEF AddEntry, StepsLeft
  <2>5. CASE Exceeded \/ PeriodDone
    <3>1. pc = "entry" /\ i < p /\ pc' = "period" /\ i' = i + 1 /\ q = n
      BY <2>1, <2>5 DEF Exceeded, PeriodDone, Underway, frags
    <3> QED
      BY <2>1, <2>2, <3>1 DEF StepsLeft
  <2>6. CASE Program
    <3>1. pc = "period" /\ pc' \in {"failed", "ready"} /\ i >= p
      BY <2>1, <2>6 DEF Program
    <3> QED
      BY <2>1, <2>2, <3>1 DEF StepsLeft
  <2> QED
    BY <2>3, <2>4, <2>5, <2>6 DEF Next
<1>6. Init => IInv /\ ControlOK
  BY InitPInv DEF PInv
<1> QED
  BY <1>1, <1>2, <1>4, <1>5, <1>6, NextIInv, NextControlOK, PTL DEF Spec
=============================================================================
