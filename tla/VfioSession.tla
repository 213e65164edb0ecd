----------------------------- MODULE VfioSession -----------------------------
(***************************************************************************)
(* Every program of the repository first asks the kernel for what it needs *)
(* to reach the device: vfio_setup() of sof-vfio/sof-vfio.c and its older  *)
(* copies in old/.  The calls are made one after the other whatever the    *)
(* earlier ones returned; an error is printed.  What the kernel refuses is *)
(* missing for the calls that need it, and these are refused as well.      *)
(* Module Driver goes on from here.                                        *)
(***************************************************************************)
EXTENDS Naturals, Sequences, SequencesExt

CONSTANTS Span,     \* VFIO region r starts at r * Span of the device's file
          MaxFaults \* bound: calls and accesses refused although in order

ASSUME SpanIsPositive == Span \in Nat \ {0}
ASSUME MaxFaultsAssumption == MaxFaults \in Nat

VARIABLES
  prog,    \* the program that runs
  calls,   \* the kernel calls it has still to make
  i,       \* the loop over the regions
  offsets, \* info->offsets[], all 0 from calloc(); the older programs keep none
  buf,     \* vfio_write: what it has read of the configuration space
  have,    \* the kernel: what has been granted
  config,  \* the device: those bytes of its configuration space
  known,   \* history: the regions whose query was answered
  refused, \* history: the calls that were refused although in order
  faults   \* history: the number of calls and accesses so refused

sessionVars == <<prog, calls, i, offsets, buf, have, config, known, refused, faults>>

Regions == 0..8

\* Eight bytes of configuration space: the cache line size, and seven more.
ConfigBytes == [cls : {"initial", "eleven", "junk"}, rest : {"initial", "junk"}]

\* What each program asks for, in its order.
Opening == <<"container", "group", "status", "attach", "iommu", "iommu_info">>

\* Defect: the device is asked for before its group has an IOMMU.
vfio_setup_DeviceFirst ==
  <<"container", "group", "status", "device", "info", "regions", "attach", "iommu", "iommu_info">>

vfio_setup == Opening \o <<"device", "info", "regions">>

\* load_fw_for_dma(): what fails ends it, and the caller goes on.
load_fw_for_dma == <<"open", "fstat", "map_image", "read_image">>

vfio_boot == Opening \o <<"device", "info", "regions">> \o load_fw_for_dma
vfio_api   == Opening \o <<"map", "device", "info", "regions", "config", "irqs">>
vfio_irq   == Opening \o <<"map", "device", "info", "irqs">>

\* Defect: the bytes are written back before they have been read.
vfio_write_Unread ==
  Opening \o <<"map", "device", "info", "regions", "config", "write", "read", "irqs">>

vfio_write ==
  Opening \o <<"map", "device", "info", "regions", "config", "read", "write", "read", "irqs">>

Script == [sof |-> vfio_setup, boot |-> vfio_boot, api |-> vfio_api,
           irq |-> vfio_irq, write |-> vfio_write]
Programs == DOMAIN Script

\* What has to be granted before a call can be: by the kernel's rules for
\* VFIO, and by the early exits of load_fw_for_dma() and the ifs around the
\* accesses to the configuration space.
Needs(call) ==
  CASE call = "status"                      -> {"group"}
    [] call = "attach"                      -> {"container", "group"}
    [] call = "iommu"                       -> {"container", "attach"}
    [] call \in {"iommu_info", "map"}       -> {"iommu"}
    [] call = "device"                      -> {"group", "iommu"}
    [] call = "fstat"                       -> {"open"}
    [] call = "map_image"                   -> {"fstat", "iommu"}
    [] call = "read_image"                  -> {"map_image"}
    [] call \in {"info", "config", "msi"}   -> {"device"}
    [] call = "irqs"                        -> {"info"}
    [] call \in {"read", "write"}           -> {"config"}
    [] OTHER                                -> {}

Fault == faults < MaxFaults /\ faults' = faults + 1

SessionInit ==
  /\ prog \in Programs /\ calls = Script[prog] /\ i = 0
  /\ offsets = [r \in Regions |-> 0] /\ known = {}
  /\ buf = [cls |-> "junk", rest |-> "junk"]
  /\ config = [cls |-> "initial", rest |-> "initial"]
  /\ have = {} /\ refused = {} /\ faults = 0

\* The next call.  The buffers are fresh from malloc() before each read; the
\* first byte is set before it is written.
Call(call) ==
  /\ calls # <<>> /\ call = Head(calls) /\ call # "regions"
  /\ calls' = Tail(calls)
  /\ UNCHANGED <<prog, i, offsets, known>>

Granted(call) ==
  /\ Call(call) /\ Needs(call) \subseteq have
  /\ have' = have \cup {call}
  /\ buf' = CASE call = "read"  -> config
              [] call = "write" -> [buf EXCEPT !.cls = "eleven"]
              [] OTHER          -> buf
  /\ config' = IF call = "write" THEN buf' ELSE config
  /\ UNCHANGED <<refused, faults>>

Refused(call) ==
  /\ Call(call)
  /\ IF Needs(call) \subseteq have
       THEN Fault /\ refused' = refused \cup {call}
       ELSE UNCHANGED <<refused, faults>>
  /\ buf' = CASE call = "read"                         -> [cls |-> "junk", rest |-> "junk"]
              [] call = "write" /\ "config" \in have -> [buf EXCEPT !.cls = "eleven"]
              [] OTHER                               -> buf
  /\ UNCHANGED <<have, config>>

\* A turn of the loop over the regions.  Without the device's information
\* their number is 0 and there is none.
Region(answered) ==
  /\ calls # <<>> /\ Head(calls) = "regions" /\ "info" \in have
  /\ i' = i + 1
  /\ offsets' = [offsets EXCEPT ![i] = IF answered /\ prog = "sof" THEN i * Span ELSE 0]
  /\ known' = IF answered THEN known \cup {i} ELSE known
  /\ IF answered THEN UNCHANGED <<refused, faults>>
                 ELSE Fault /\ refused' = refused \cup {"regions"}
  /\ calls' = IF i + 1 \in Regions THEN calls ELSE Tail(calls)
  /\ UNCHANGED <<prog, buf, have, config>>

NoRegions ==
  /\ calls # <<>> /\ Head(calls) = "regions" /\ "info" \notin have
  /\ calls' = Tail(calls)
  /\ UNCHANGED <<prog, i, offsets, buf, have, config, known, refused, faults>>

SessionNext ==
  \/ \E call \in ToSet(calls) : Granted(call) \/ Refused(call)
  \/ \E answered \in BOOLEAN : Region(answered)
  \/ NoRegions

-----------------------------------------------------------------------------
(* Properties.                                                             *)

SessionTypeOK ==
  /\ prog \in Programs /\ calls \in Seq(ToSet(Script[prog])) /\ i \in 0..9
  /\ offsets \in [Regions -> Nat]
  /\ buf \in ConfigBytes /\ config \in ConfigBytes
  /\ have \subseteq ToSet(Script[prog]) \cup {"msi"}
  /\ known \subseteq Regions /\ refused \subseteq ToSet(Script[prog])
  /\ faults \in 0..MaxFaults

\* A program asks for things in an order the kernel accepts: whatever is
\* refused on the way, no call fails because it was made too early.  At the
\* end each call whose needs are granted has been granted too, unless it was
\* refused for a reason of its own (sof-vfio.c 31-99 and the mains of old/).
SetupComplete ==
  calls = <<>> =>
    /\ \A call \in ToSet(Script[prog]) \ {"regions"} :
         Needs(call) \subseteq have => call \in have \cup refused
    /\ "regions" \in ToSet(Script[prog]) /\ "info" \in have =>
         known = Regions \/ "regions" \in refused

\* old/vfio_write.c changes one byte by reading and writing eight: only if
\* the read was refused does any other byte of the configuration space change,
\* that one never becomes anything but 11, and if it does not become 11, a
\* call that the write rests on was refused (old/vfio_write.c 24-152).
OneByteWritten ==
  /\ config.cls # "junk"
  /\ config.rest # "initial" => "read" \in refused
  /\ prog = "write" /\ calls = <<>> /\ config.cls # "eleven" =>
       \E call \in refused : call \in {"container", "group", "attach", "iommu", "device",
                                      "config", "write"}
=============================================================================
