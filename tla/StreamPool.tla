----------------------------- MODULE StreamPool -----------------------------
(***************************************************************************)
(* The streams of the HD-audio controller: hda_init() and                  *)
(* hda_dsp_stream_init() of sof-vfio/probe.c, which discover them and map  *)
(* what their DMA needs, the list of sof-vfio/list.c that holds them, and  *)
(* the two searches of that list the code loader makes:                    *)
(* hda_dsp_stream_get() and get_stream_with_tag().  Discovery may stop     *)
(* half-way; the probe prints that and goes on with the streams it has.    *)
(***************************************************************************)
EXTENDS Integers, Sequences, FiniteSets

CONSTANTS Captures, Playbacks \* the counts GCAP may report

\* Both are four-bit fields, so the tests against the limit of 16 streams
\* never fail.
ASSUME CountsAssumption == Captures \subseteq 0..15 /\ Playbacks \subseteq 0..15

VARIABLES
  pc,
  captures, playbacks, \* num_capture, num_playback
  i,       \* the loop counter of both loops
  windows, \* the IOVA ranges mapped for the device, in that order
  list,    \* *info->stream_ref
  stream,  \* what the code loader works on: a place in the list, 0 for NULL
  opened   \* places in the list of the streams with ->opened set

counts == <<captures, playbacks>>
vars == <<pc, counts, i, windows, list, stream, opened>>

total == captures + playbacks

PageSize == 4096    \* 0x1000, also MIN_DMA_SIZE and HDA_DSP_BDL_SIZE
DpibEntrySize == 8  \* SOF_HDA_DPIB_ENTRY_SIZE

\* Where the device sees them: 0xf000, 0x10000 and 0x11000 + i * PAGE_SIZE.
PosbufAddr == 61440
RbAddr == 65536

\* Defect: the first list shares the ring buffer's page.
BdlAddr_NoRing(k) == 65536 + k * PageSize
BdlAddr(k) == 69632 + k * PageSize

\* map_dma() maps at least a page.
Window(addr, size) == [iova |-> addr, size |-> IF size < PageSize THEN PageSize ELSE size]

Init ==
  /\ pc = "posbuf"
  /\ captures \in Captures /\ playbacks \in Playbacks
  /\ i = 0 /\ windows = <<>> /\ list = <<>> /\ stream = 0 /\ opened = {}

-----------------------------------------------------------------------------
(* hda_dsp_stream_init().                                                  *)

\* The position buffer, then the ring buffer; each mapping may fail, which
\* ends discovery with an empty list.
MapPosbuf ==
  /\ pc = "posbuf"
  /\ \/ pc' = "ring" /\ windows' = Append(windows, Window(PosbufAddr, DpibEntrySize * total))
     \/ pc' = "probed" /\ UNCHANGED windows
  /\ UNCHANGED <<counts, i, list, stream, opened>>

MapRing ==
  /\ pc = "ring"
  /\ \/ pc' = "create" /\ windows' = Append(windows, Window(RbAddr, PageSize))
     \/ pc' = "probed" /\ UNCHANGED windows
  /\ UNCHANGED <<counts, i, list, stream, opened>>

\* Defect: the playback loop counts from 0, as the loop before it did.
NewStream_Restart(k) ==
  [index     |-> IF k < captures THEN k ELSE k - captures,
   tag       |-> k + 1,
   direction |-> IF k < captures THEN "capture" ELSE "playback",
   bdl       |-> BdlAddr(k)]

\* Defect: what counts from num_capture already is counted on once more.
NewStream_Offset(k) ==
  [index     |-> IF k < captures THEN k ELSE k + captures,
   tag       |-> k + 1,
   direction |-> IF k < captures THEN "capture" ELSE "playback",
   bdl       |-> BdlAddr(k)]

\* The k-th stream: captures first, playback streams numbered on from there.
NewStream(k) ==
  [index     |-> k,
   tag       |-> k + 1,
   direction |-> IF k < captures THEN "capture" ELSE "playback",
   bdl       |-> BdlAddr(k)]

\* list_add_tail(): new streams go behind those that are there.
AddTail(l, s) == Append(l, s)

\* One turn of either loop.  The list's page is mapped before the stream is
\* added at the tail; an allocation or a mapping that fails ends discovery.
Create ==
  /\ pc = "create" /\ i < total
  /\ \/ /\ windows' = Append(windows, Window(BdlAddr(i), PageSize))
        /\ list' = AddTail(list, NewStream(i))
        /\ i' = i + 1
        /\ UNCHANGED pc
     \/ pc' = "probed" /\ UNCHANGED <<windows, list, i>>
  /\ UNCHANGED <<counts, stream, opened>>

\* All streams are in the list.
AllCreated ==
  /\ pc = "create" /\ i = total
  /\ pc' = "probed"
  /\ UNCHANGED <<counts, i, windows, list, stream, opened>>

-----------------------------------------------------------------------------
(* The code loader's searches.                                             *)

Unused(direction) ==
  {k \in 1..Len(list) : list[k].direction = direction /\ k \notin opened}

IsFirst(k, places) == k \in places /\ \A l \in places : k <= l

\* hda_dsp_stream_get(), called for a playback stream: the first unused one
\* is marked as opened.  When there is none the loop ends on the last stream
\* of the list, and that is returned; NULL only for an empty list.
GetStream ==
  /\ pc = "probed"
  /\ \/ \E k \in 1..Len(list) :
          /\ IsFirst(k, Unused("playback"))
          /\ stream' = k /\ opened' = opened \cup {k}
          /\ pc' = "params"
     \/ /\ Unused("playback") = {}
        /\ stream' = Len(list) /\ UNCHANGED opened
        /\ pc' = IF list = <<>> THEN "nodev" ELSE "params"
  /\ UNCHANGED <<counts, i, windows, list>>

\* hda_dsp_stream_hw_params() on that stream may fail, which ends the boot.
HwParams ==
  /\ pc = "params"
  /\ pc' \in {"lookup", "failed"}
  /\ UNCHANGED <<counts, i, windows, list, stream, opened>>

\* Defect: the tag alone decides.
Matches_AnyDirection(s, tag) == s.tag = tag
Matches(s, tag) == s.direction = "playback" /\ s.tag = tag

\* get_stream_with_tag() for the tag cl_stream_prepare() returned; NULL ends
\* the boot with -ENODEV.
LookUp ==
  /\ pc = "lookup"
  /\ LET found == {k \in 1..Len(list) : Matches(list[k], list[stream].tag)} IN
       \/ \E k \in 1..Len(list) : IsFirst(k, found) /\ stream' = k /\ pc' = "boot"
       \/ found = {} /\ stream' = 0 /\ pc' = "nodev"
  /\ UNCHANGED <<counts, i, windows, list, opened>>

Next ==
  \/ MapPosbuf \/ MapRing \/ Create \/ AllCreated
  \/ GetStream \/ HwParams \/ LookUp

Spec == Init /\ [][Next]_vars

-----------------------------------------------------------------------------
(* Properties.                                                             *)

Stream == [index : 0..29, tag : 1..30, direction : {"capture", "playback"}, bdl : Nat]

\* Types; the list never holds more streams than the controller has.
TypeOK ==
  /\ pc \in {"posbuf", "ring", "create", "probed", "params", "lookup", "boot", "nodev", "failed"}
  /\ captures \in 0..15 /\ playbacks \in 0..15 /\ i \in 0..total
  /\ windows \in Seq([iova : Nat, size : Nat])
  /\ list \in Seq(Stream) /\ Len(list) = i
  /\ stream \in 0..Len(list) /\ opened \subseteq 1..Len(list)

\* The fixed addresses the driver picks never make two mappings overlap,
\* for any number of streams (probe.c 229, 236, 285, 337): the kernel would
\* refuse the second, or the device would write through the wrong one.
WindowsDisjoint ==
  \A k, l \in DOMAIN windows :
    k < l => \/ windows[k].iova + windows[k].size <= windows[l].iova
             \/ windows[l].iova + windows[l].size <= windows[k].iova

Mapped(addr, size) ==
  \E k \in DOMAIN windows :
    windows[k].iova <= addr /\ addr + size <= windows[k].iova + windows[k].size

\* However far discovery got, every stream in the list can be used: its
\* descriptor list and its slot of the position buffer are mapped, and it
\* shares neither them nor its registers nor its tag with another stream
\* (probe.c 276-293, 326-346).
ListedUsable ==
  \A k \in 1..Len(list) :
    /\ Mapped(list[k].bdl, PageSize)
    /\ list[k].index < total
    /\ Mapped(PosbufAddr + list[k].index * DpibEntrySize, DpibEntrySize)
    /\ \A l \in 1..Len(list) \ {k} :
         /\ list[l].index # list[k].index
         /\ list[l].tag # list[k].tag
         /\ list[l].bdl # list[k].bdl

\* The DSP is only booted with the very stream that was marked as opened and
\* prepared, and that is a playback stream, although the first search may
\* have returned another one ("get stream with tag", loader.c 59-66).
BootsOnOwnStream ==
  pc = "boot" => list[stream].direction = "playback" /\ opened = {stream}

\* "get next unused stream" (loader-helper.c 65): what is programmed next is
\* a stream that the search marked as opened.
GotUnusedStream == pc = "params" => stream \in opened
=============================================================================
