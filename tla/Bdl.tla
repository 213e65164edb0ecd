-------------------------------- MODULE Bdl --------------------------------
(***************************************************************************)
(* hda_dsp_stream_setup_bdl() and hda_setup_bdle() of                      *)
(* sof-vfio/loader-helper.c: the Buffer Descriptor List the stream's DMA   *)
(* engine walks, built period by period and page by page, and the two      *)
(* registers hda_dsp_stream_hw_params() derives from it.  One step is one  *)
(* turn of a loop.  The sizes keep their C types: bufsize and period_bytes *)
(* of the stream are unsigned, everything computed from them is int.       *)
(***************************************************************************)
EXTENDS Integers, Sequences, FiniteSets

CONSTANTS Page,       \* 0x1000
          MaxEntries, \* HDA_DSP_MAX_BDL_ENTRIES
          Base,       \* dmab->addr
          IntMax,     \* INT_MAX
          Buffers, PeriodSizes  \* the stream's bufsize and period_bytes

ASSUME PageAssumption == Page \in Nat \ {0}
ASSUME LimitAssumption == MaxEntries \in Nat /\ IntMax \in Nat
ASSUME BaseAssumption == Base \in Nat /\ Base % Page = 0
ASSUME SizesAssumption ==
  Buffers \subseteq 1 .. 2 * IntMax + 1 /\ PeriodSizes \subseteq 0 .. 2 * IntMax + 1

VARIABLES
  bufsize, period, wakeup,  \* of the stream: wakeup is !no_period_wakeup
  pc,      \* "period" and "entry" are the heads of the two loops
  i,       \* the period under way
  offset,  \* where the next entry starts, or -EINVAL
  size,    \* what is left of the period
  ioc,     \* interrupt on completion wanted for the period
  bdl,     \* the entries written, stream->frags of them
  cbl, lvi \* cyclic buffer length and last valid index registers

stream == <<bufsize, period, wakeup>>
vars == <<stream, pc, i, offset, size, ioc, bdl, cbl, lvi>>

EINVAL == 22
LviMax == 65535  \* the last valid index is a 16-bit register
frags == Len(bdl)

\* The conversion of an unsigned value to int.
ToInt(n) == IF n > IntMax THEN n - (2 * IntMax + 2) ELSE n

\* A list's worth of pages, the largest offset ever reached, is an int.
ASSUME OffsetAssumption == MaxEntries * Page <= IntMax

\* The register can tell as many entries apart as the list holds.
ASSUME ListAssumption == MaxEntries <= LviMax + 1

\* period_bytes as it was before it became an int, which is what the
\* unsigned division and remainder compute with.
PeriodBytes == IF period = 0 THEN bufsize ELSE period
Remain == bufsize % PeriodBytes
Periods == ToInt(bufsize \div PeriodBytes + IF Remain = 0 THEN 0 ELSE 1)

Init ==
  /\ bufsize \in Buffers /\ period \in PeriodSizes /\ wakeup \in BOOLEAN
  /\ pc = "period" /\ i = 0 /\ offset = 0 /\ size = 0 /\ ioc = FALSE
  /\ bdl = <<>> /\ cbl = 0 /\ lvi = 0

\* Defect: the last period is taken for a whole one.
IsLastSmall_Never == FALSE

\* The last period is smaller and raises no interrupt.
IsLastSmall == i = Periods - 1 /\ Remain # 0

\* setup_bdl's loop: the next period is handed to hda_setup_bdle().
NextPeriod ==
  /\ pc = "period" /\ i < Periods
  /\ pc' = "entry"
  /\ size' = ToInt(IF IsLastSmall THEN Remain ELSE PeriodBytes)
  /\ ioc' = (wakeup /\ ~IsLastSmall)
  /\ UNCHANGED <<stream, i, offset, bdl, cbl, lvi>>

\* Defect: an entry may cross a page.
Chunk_Whole == size

\* No more than to the next 4K boundary of the offset.
Chunk == LET remain == Page - (offset % Page) IN IF size > remain THEN remain ELSE size

\* Defects: every entry interrupts; one entry more than the list holds.
EntryIoc_Always == ioc
Full_OffByOne == frags > MaxEntries

\* Only the entry that completes the period interrupts.
EntryIoc == ioc /\ size = Chunk
Full == frags >= MaxEntries

\* setup_bdle's loop: one more entry,
AddEntry ==
  /\ pc = "entry" /\ size > 0 /\ ~Full
  /\ bdl' = Append(bdl, [addr |-> Base + offset, size |-> Chunk, ioc |-> EntryIoc])
  /\ size' = size - Chunk
  /\ offset' = offset + Chunk
  /\ UNCHANGED <<stream, pc, i, ioc, cbl, lvi>>

\* or the return with -EINVAL, which setup_bdl's loop takes for an offset,
Exceeded ==
  /\ pc = "entry" /\ size > 0 /\ Full
  /\ pc' = "period" /\ i' = i + 1 /\ offset' = -EINVAL
  /\ UNCHANGED <<stream, size, ioc, bdl, cbl, lvi>>

\* or the end of the period.
PeriodDone ==
  /\ pc = "entry" /\ size <= 0
  /\ pc' = "period" /\ i' = i + 1
  /\ UNCHANGED <<stream, offset, size, ioc, bdl, cbl, lvi>>

\* Defect: the value is not cut to the width of the register.
LastValidIndex_Signed == frags - 1
LastValidIndex == (frags - 1) % (LviMax + 1)

\* Back in hda_dsp_stream_hw_params(): a negative offset is an error, any
\* other programs the cyclic buffer length and the last valid index.
Program ==
  /\ pc = "period" /\ i >= Periods
  /\ \/ offset < 0 /\ pc' = "failed" /\ UNCHANGED <<cbl, lvi>>
     \/ offset >= 0 /\ pc' = "ready" /\ cbl' = bufsize /\ lvi' = LastValidIndex
  /\ UNCHANGED <<stream, i, offset, size, ioc, bdl>>

Next == NextPeriod \/ AddEntry \/ Exceeded \/ PeriodDone \/ Program

Spec == Init /\ [][Next]_vars

-----------------------------------------------------------------------------
(* Properties.                                                             *)

Entry == [addr : Nat, size : Nat, ioc : BOOLEAN]

\* Types; the offset is a place in the buffer or -EINVAL.
TypeOK ==
  /\ bufsize \in Buffers /\ period \in PeriodSizes /\ wakeup \in BOOLEAN
  /\ pc \in {"period", "entry", "failed", "ready"}
  /\ i \in Nat /\ size \in Int /\ offset \in {-EINVAL} \cup Nat /\ ioc \in BOOLEAN
  /\ bdl \in Seq(Entry)
  /\ cbl \in Nat /\ lvi \in 0..LviMax

\* The engine is never given more entries than the list's page holds: a
\* period that starts after the list is full writes nothing behind it,
\* although setup_bdl ignored the -EINVAL of the period before (333, 406-416).
BdlBounded == frags <= MaxEntries

\* Entries follow each other without gap or overlap from the start of the
\* buffer, none is empty and none crosses a page ("one BDLE should not cross
\* 4K boundary", 344), across period boundaries that are no page boundaries.
EntriesTile ==
  /\ \A k \in 1..frags :
       /\ bdl[k].size > 0
       /\ (bdl[k].addr % Page) + bdl[k].size <= Page
  /\ \A k \in 1..frags - 1 : bdl[k + 1].addr = bdl[k].addr + bdl[k].size
  /\ frags > 0 => bdl[1].addr = Base

\* A whole buffer needs an entry at 0, at each page and at each period.
Starts == {x \in 0..bufsize - 1 : x % Page = 0 \/ x % PeriodBytes = 0}

\* The loops cut a buffer whose size is an int exactly there, the registers
\* describe the result ("program last valid index", 274), and they fail
\* exactly when that is more than the list holds.
CutsExactly ==
  bufsize <= IntMax =>
    /\ pc = "ready" => /\ {bdl[k].addr - Base : k \in 1..frags} = Starts
                       /\ frags = Cardinality(Starts)
                       /\ offset = bufsize /\ cbl = bufsize /\ lvi = frags - 1
    /\ pc = "failed" => Cardinality(Starts) > MaxEntries

\* With period wakeups the DMA interrupts at the end of each whole period and
\* nowhere else ("only program IOC when the whole segment is processed", 352).
IocPerPeriod ==
  \A k \in 1..frags :
    bdl[k].ioc <=> wakeup /\ (bdl[k].addr - Base + bdl[k].size) % PeriodBytes = 0
=============================================================================
