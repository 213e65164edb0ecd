------------------------------- MODULE CapWalk -------------------------------
(***************************************************************************)
(* hda_dsp_ctrl_get_caps() of sof-vfio/probe.c: the walk through the       *)
(* controller's list of capabilities.  The list is in device memory: a     *)
(* header names a capability and the offset of the next header, 0 ends the *)
(* list, and nothing keeps a device from linking it into a cycle.  Three   *)
(* kinds of capability are remembered, in info->offsets[], in the slots    *)
(* that vfio_setup() has filled with the offsets of VFIO regions 1 to 3.   *)
(* A pread() may fail; the register then reads as 0.                       *)
(***************************************************************************)
EXTENDS Naturals

CONSTANTS Places,    \* offsets in the HDA region that a header may name
          MaxCaps,   \* SOF_HDA_MAX_CAPS
          Span,      \* VFIO region r starts at r * Span of the device's file
          Unanswered \* the regions of which vfio_setup() may have learned nothing

ASSUME SpanAssumption == Span \in Nat \ {0}
ASSUME PlacesAssumption == Places \subseteq 1..Span - 1
ASSUME MaxCapsAssumption == MaxCaps \in Nat

VARIABLES
  pc,
  offsets, \* info->offsets[]
  known,   \* history: the regions vfio_setup() has learned of
  mem,     \* the device: the word at each offset, read as a header
  llch,    \* the device: LLCH, where the list starts
  offset,  \* the header to be read next
  count,   \* headers read
  failed,  \* history: a read has failed
  seen     \* history: where a header was read

device == <<mem, llch>>
vars == <<pc, offsets, known, device, offset, count, failed, seen>>

Regions == 0..8
Kinds == {"PP", "SPIB", "DRSM"}
Words == Places \cup {0}
Headers == [id : Kinds \cup {"other"}, next : Words]

\* Defect: two capabilities share a slot.
Slot_Shared == [PP |-> 1, SPIB |-> 2, DRSM |-> 2]

\* HDA_DSP_PP_BAR, HDA_DSP_SPIB_BAR and HDA_DSP_DRSM_BAR.
Slot == [PP |-> 1, SPIB |-> 2, DRSM |-> 3]

\* What a failed read looks like.
NoHeader == [id |-> "other", next |-> 0]

\* The slots are as vfio_setup() left them: the regions' offsets, or 0 where
\* it learned none.  At offset 0 is GCAP, whose upper half is the version of
\* the specification and no capability.
Init ==
  /\ pc = "llch"
  /\ known \in {Regions \ unknown : unknown \in SUBSET Unanswered}
  /\ offsets = [r \in Regions |-> IF r \in known THEN r * Span ELSE 0]
  /\ mem \in [Words -> Headers] /\ mem[0].id = "other" /\ llch \in Words
  /\ offset = 0 /\ count = 0 /\ failed = FALSE /\ seen = {}

\* The read of LLCH; a list that is not there starts at 0 as well.
Start(start) ==
  /\ pc = "llch" /\ pc' = "walk"
  /\ offset' = start
  /\ UNCHANGED <<offsets, known, device, count, seen>>

Record(header) ==
  IF header.id \in Kinds
    THEN [offsets EXCEPT ![Slot[header.id]] = offsets[0] + offset]
    ELSE offsets

\* Defects: one turn too many; the turns are not counted.
Again_OneMore(next) == count <= MaxCaps + 1 /\ next # 0
Counted_Not(n) == n

\* The loop's condition compares the count before it is incremented, after
\* the body: up to MaxCaps + 2 headers are read.
Again(next) == count <= MaxCaps /\ next # 0
Counted(n) == n + 1

\* A turn of the loop, the first of which is made in any case.
Visit(header) ==
  /\ pc = "walk"
  /\ offsets' = Record(header)
  /\ offset' = header.next
  /\ pc' = IF Again(header.next) THEN "walk" ELSE "walked"
  /\ count' = Counted(count)
  /\ UNCHANGED <<known, device>>

ReadStart   == Start(llch) /\ UNCHANGED failed
StartFails  == Start(0) /\ failed' = TRUE
ReadHeader  == Visit(mem[offset]) /\ seen' = seen \cup {offset} /\ UNCHANGED failed
HeaderFails == Visit(NoHeader) /\ failed' = TRUE /\ UNCHANGED seen

Next == ReadStart \/ StartFails \/ ReadHeader \/ HeaderFails

\* The program runs; the device answers or the read fails.
Spec == Init /\ [][Next]_vars /\ WF_vars(Next)

-----------------------------------------------------------------------------
(* Properties.                                                             *)

\* Types; never more than MaxCaps + 2 headers are read (probe.c 149-185).
TypeOK ==
  /\ pc \in {"llch", "walk", "walked"}
  /\ offsets \in [Regions -> Nat] /\ known \subseteq Regions
  /\ mem \in [Words -> Headers] /\ llch \in Words
  /\ offset \in Words /\ count \in 0..MaxCaps + 2
  /\ failed \in BOOLEAN /\ seen \subseteq Words

Found(k) == {p \in seen : mem[p].id = k}

\* A slot holds the offset of a capability of its own kind that the walk has
\* read.  While there is none it is the offset of the VFIO region with the
\* slot's number, and if that one could not be queried 0, the controller's own.
SlotsMeanKinds ==
  \A k \in Kinds :
    IF Found(k) = {}
      THEN offsets[Slot[k]] = IF Slot[k] \in known THEN Slot[k] * Span ELSE 0
      ELSE offsets[Slot[k]] \in Found(k)

\* No header is left out unless a read failed or the limit was reached,
\* cycle or not.
WalkedAll ==
  pc = "walked" /\ ~failed =>
    /\ llch \in seen
    /\ count < MaxCaps + 2 => \A p \in seen : mem[p].next \in seen \cup {0}

\* In every walk, failed or not, the slots say what was found, and all that
\* the device lists is found (probe.c 149-185).  A later access through a slot
\* reaches a capability of the slot's kind or, when none was found, nothing;
\* but the controller's own registers if the slot's region was refused, which
\* module Driver follows up.
FoundExactly == SlotsMeanKinds /\ WalkedAll

\* However the device has linked its list, the walk ends (probe.c 185).
WalkEnds == <>(pc = "walked")
=============================================================================
