-------------------------------- MODULE Driver --------------------------------
(***************************************************************************)
(* The programs as a whole: main() of sof-vfio/driver.c, which sets up the *)
(* session (module VfioSession), probes the controller, switches clock and *)
(* power gating off, boots the firmware and switches the gating on again,  *)
(* and the older mains, of which only that of old/vfio_boot.c touches a    *)
(* register.  No step looks at the result of the one before it.            *)
(*                                                                         *)
(* The capability walk is module CapWalk, step by step; the boot is what   *)
(* module BootContract promises, which FirmwareBoot implements; discovery  *)
(* is the number of streams it lists (module StreamPool).  A register is a *)
(* set of bits, and an access goes through the slot of info->offsets[]     *)
(* that the code names, wherever that slot leads.                          *)
(***************************************************************************)
EXTENDS VfioSession

CONSTANTS Places, MaxCaps, \* of module CapWalk
          Lists,           \* the capability lists a device may have
          Attempts,        \* HDA_FW_BOOT_ATTEMPTS
          SdSts            \* the status registers of the device's streams

ASSUME PlacesBelowSpan == Places \subseteq 1..Span - 1
ASSUME LimitsAssumption == MaxCaps \in Nat /\ Attempts \in Nat \ {0}
ASSUME SdStsAssumption == SdSts \in Seq(STRING)

VARIABLES
  pc,       \* "session", CapWalk's values, "msi", "access" and "exit"
  mem, llch, offset, count, failed, seen, \* of module CapWalk
  phase, tries, outcome,                  \* of module BootContract
  listed,   \* streams in the list
  todo,     \* the accesses still to be made
  regs,     \* the device: its registers, as sets of bits
  stray,    \* history: slots that led to a register of another block
  missed    \* history: registers an access was meant for and did not reach

walkVars == <<mem, llch, offset, count, failed, seen>>
bootVars == <<phase, tries, outcome>>
ioVars == <<todo, regs, stray, missed>>
driverVars == <<pc, walkVars, bootVars, listed, ioVars>>
vars == <<sessionVars, driverVars>>

W == INSTANCE CapWalk WITH Unanswered <- Regions
B == INSTANCE BootContract

\* As in CapWalk, what is at offset 0 is no capability.
ASSUME ListsAssumption ==
  \A l \in Lists : l.mem \in [W!Words -> W!Headers] /\ l.mem[0].id = "other" /\ l.llch \in W!Words

-----------------------------------------------------------------------------
(* Registers and the ways to access them.                                  *)

HDA == 0
PP == 1
SPIB == 2
DSP == 4
CONFIG == 7

\* "other" and "spare" stand for the bits this program has no business with,
\* of which one is set and one is not.
Others == {"other", "spare"}
Own == [PGCTL |-> {"TCSEL", "ADSPPGD"}, CGCTL |-> {"ADSPDCGE"}, EM2 |-> {"L1SEN"},
        INTCTL |-> {"GIE", "CIE", "S7"}, PPCTL |-> {"GPROCEN", "PIE", "PROCEN"},
        SPBFCTL |-> {"SPIBE"}, SD7_CTL |-> {"RUN", "INTS"}]
Shared == DOMAIN Own
Status == ToSet(SdSts) \cup {"WAKESTS", "INTSTS"}
Registers == Shared \cup Status \cup {"DPLBASE", "DPUBASE"}
Bits == (UNION {Own[r] : r \in Shared}) \cup Others \cup {"stale", "addr"}

\* A stream's status register is its own.
ASSUME StatusAssumption == ToSet(SdSts) \cap (Shared \cup {"DPLBASE", "DPUBASE"}) = {}

Access(op, slot, reg, mask, value) ==
  [op |-> op, slot |-> slot, reg |-> reg, mask |-> mask, value |-> value]

\* snd_sof_dsp_update_bits(), a write of 1 to clear, a plain write.
Update(slot, reg, mask, value) == Access("update", slot, reg, mask, value)
Clear(reg) == Access("clear", HDA, reg, {"stale"}, {})
Write(reg, value) == Access("write", HDA, reg, {}, value)
BootFirmware == Access("boot", DSP, "PGCTL", {}, {})

\* Defect: the bits outside the mask are not taken over.
Written_NoMask(a, old) ==
  CASE a.op = "clear" -> old \ a.mask
    [] OTHER          -> a.value

\* What a register holds after an access that found it holding old.
Written(a, old) ==
  CASE a.op = "update" -> (old \ a.mask) \cup a.value
    [] a.op = "clear"  -> old \ a.mask
    [] a.op = "write"  -> a.value

-----------------------------------------------------------------------------
(* The accesses, in program order.                                         *)

hda_dsp_ctrl_ppcap ==
  <<Update(PP, "PPCTL", {"GPROCEN"}, {"GPROCEN"}), Update(PP, "PPCTL", {"PIE"}, {"PIE"})>>

\* Defect: the last stream of the list is left out.
ClearStreams_ButLast(n) == [k \in 1..(IF n > 0 THEN n - 1 ELSE 0) |-> Clear(SdSts[k])]

\* One for each stream of the list.
ClearStreams(n) == [k \in 1..n |-> Clear(SdSts[k])]

\* TCSEL is the low three bits of a register of which PGCTL's are others, the
\* third of them both.
hda_dsp_probe(n) ==
  <<Update(CONFIG, "PGCTL", {"TCSEL", "ADSPPGD"}, {})>>
  \o ClearStreams(n)
  \o <<Clear("WAKESTS"), Clear("INTSTS"),
       Update(HDA, "INTCTL", {"CIE", "GIE"}, {"CIE", "GIE"})>>
  \o <<Write("DPLBASE", {"addr"}), Write("DPUBASE", {})>>
  \o hda_dsp_ctrl_ppcap

\* Defect: the power gating is never allowed again.
hda_dsp_ctrl_clock_power_gating_KeepsPower(enable) ==
  <<Update(CONFIG, "CGCTL", {"ADSPDCGE"}, IF enable THEN {"ADSPDCGE"} ELSE {}),
    Update(HDA, "EM2", {"L1SEN"}, IF enable THEN {"L1SEN"} ELSE {}),
    Update(CONFIG, "PGCTL", {"ADSPPGD"}, {"ADSPPGD"})>>

hda_dsp_ctrl_clock_power_gating(enable) ==
  <<Update(CONFIG, "CGCTL", {"ADSPDCGE"}, IF enable THEN {"ADSPDCGE"} ELSE {}),
    Update(HDA, "EM2", {"L1SEN"}, IF enable THEN {"L1SEN"} ELSE {}),
    Update(CONFIG, "PGCTL", {"ADSPPGD"}, IF enable THEN {} ELSE {"ADSPPGD"})>>

\* Defect: the gating is switched off before the controller is probed.
main_GatesFirst(n) ==
  hda_dsp_ctrl_clock_power_gating(FALSE) \o hda_dsp_probe(n)
  \o <<BootFirmware>> \o hda_dsp_ctrl_clock_power_gating(TRUE)

main(n) ==
  hda_dsp_probe(n) \o hda_dsp_ctrl_clock_power_gating(FALSE)
  \o <<BootFirmware>> \o hda_dsp_ctrl_clock_power_gating(TRUE)

Decouple == Update(PP, "PPCTL", {"PROCEN"}, {"PROCEN"})
Couple == Update(PP, "PPCTL", {"PROCEN"}, {})

\* Defect: SPIB is used whether it is there or not.
PrepareStream_Unasked ==
  <<Decouple, Couple, Decouple, Update(SPIB, "SPBFCTL", {"SPIBE"}, {"SPIBE"})>>

\* What preparing the code loader's stream does through the capabilities'
\* slots (module CodeLoader has the rest): the stream is coupled while its
\* format is set, and SPIB is used only when its slot is filled.
PrepareStream ==
  <<Decouple, Couple, Decouple>>
  \o (IF offsets[SPIB] # 0 THEN <<Update(SPIB, "SPBFCTL", {"SPIBE"}, {"SPIBE"})>> ELSE <<>>)

\* The prototype starts stream 7 as it is and looks at the ROM's status.
vfio_boot_main ==
  <<Update(HDA, "INTCTL", {"S7"}, {"S7"}),
    Update(HDA, "SD7_CTL", {"RUN", "INTS"}, {"RUN", "INTS"})>>

-----------------------------------------------------------------------------
Init ==
  /\ SessionInit /\ pc = "session"
  /\ \E l \in Lists : mem = l.mem /\ llch = l.llch
  /\ offset = 0 /\ count = 0 /\ failed = FALSE /\ seen = {}
  /\ B!Init
  /\ listed = 0 /\ todo = <<>> /\ stray = {} /\ missed = {}
  /\ \E left \in BOOLEAN :
       regs = [r \in Registers |->
                 IF r \in Shared THEN {"other"} \cup (IF left THEN Own[r] ELSE {})
                 ELSE IF r \in Status THEN {"stale"} ELSE {}]

\* Refused, if only because the device was never opened.
Denied == IF "device" \in have THEN Fault ELSE UNCHANGED faults

Session ==
  /\ pc = "session" /\ SessionNext
  /\ UNCHANGED driverVars

SessionOver ==
  /\ pc = "session" /\ calls = <<>>
  /\ pc' = IF prog = "sof" THEN "llch" ELSE "access"
  /\ todo' = IF prog = "boot" THEN vfio_boot_main ELSE <<>>
  /\ UNCHANGED <<sessionVars, walkVars, bootVars, listed, regs, stray, missed>>

hda_dsp_ctrl_get_caps ==
  /\ \/ "device" \in have /\ (W!ReadStart \/ W!ReadHeader) /\ UNCHANGED faults
     \/ Denied /\ (W!StartFails \/ W!HeaderFails)
  /\ UNCHANGED <<prog, calls, i, buf, have, config, known, refused, bootVars, listed, ioVars>>

\* All of the device's streams are listed, or those before a read or a
\* mapping that failed.
hda_dsp_stream_init ==
  /\ pc = "walked" /\ pc' = "msi"
  /\ \/ {"device", "iommu"} \subseteq have
        /\ \/ listed' = Len(SdSts) /\ UNCHANGED faults
           \/ listed' \in 0..Len(SdSts) - 1 /\ Fault
     \/ ~({"device", "iommu"} \subseteq have) /\ UNCHANGED <<listed, faults>>
  /\ todo' = main(listed')
  /\ UNCHANGED <<prog, calls, i, offsets, buf, have, config, known, refused, walkVars, bootVars,
                 regs, stray, missed>>

\* The caller takes the interrupt for enabled either way.
irq_enable ==
  /\ pc = "msi" /\ pc' = "access"
  /\ \/ "device" \in have /\ have' = have \cup {"msi"} /\ UNCHANGED faults
     \/ Denied /\ UNCHANGED have
  /\ UNCHANGED <<prog, calls, i, offsets, buf, config, known, refused, walkVars, bootVars,
                 listed, ioVars>>

\* Where a slot leads: a capability lies in the HDA region; regions 1 to 3
\* have no registers; a region that could not be queried has the HDA region's
\* offset.
LeadsByOffset(slot) ==
  CASE slot = HDA                                    -> "there"
    [] slot # HDA /\ offsets[slot] = 0               -> "astray"
    [] slot \in {PP, SPIB} /\ offsets[slot] >= Span  -> "nowhere"
    [] OTHER                                         -> "there"

\* The prototype queries the region again at every access.
LeadsByQuery(slot) == "there"

Leads(slot) == IF prog = "boot" THEN LeadsByQuery(slot) ELSE LeadsByOffset(slot)

\* The next access.
NextAccess(a) ==
  /\ pc = "access" /\ todo # <<>> /\ a = Head(todo) /\ a.op # "boot"
  /\ todo' = Tail(todo)
  /\ UNCHANGED <<prog, calls, i, offsets, buf, have, config, known, refused, pc, walkVars,
                 bootVars, listed>>

Done(a) ==
  /\ NextAccess(a) /\ "device" \in have /\ Leads(a.slot) = "there"
  /\ regs' = [regs EXCEPT ![a.reg] = Written(a, @)]
  /\ UNCHANGED <<faults, stray, missed>>

\* A read that fails reads 0, and what is written back has nothing else; a
\* write that fails, or has nothing to reach, writes nothing.
Fails(a) ==
  /\ NextAccess(a)
  /\ IF Leads(a.slot) = "there" THEN Denied ELSE Leads(a.slot) = "nowhere" /\ UNCHANGED faults
  /\ \/ UNCHANGED regs
     \/ /\ a.op = "update" /\ a.value # {}
        /\ "device" \in have /\ Leads(a.slot) = "there"
        /\ regs' = [regs EXCEPT ![a.reg] = a.value]
  /\ missed' = missed \cup {a.reg}
  /\ UNCHANGED stray

Strays(a) ==
  /\ NextAccess(a) /\ Leads(a.slot) = "astray"
  /\ missed' = missed \cup {a.reg}
  /\ stray' = IF "device" \in have THEN stray \cup {a.slot} ELSE stray
  /\ UNCHANGED <<regs, faults>>

\* The boot's contract, a step at a time.  Without a stream in the list there
\* is nothing to prepare; a stream that does not stop or reset, or whose
\* buffer does not fit its list, is left decoupled.  The attempts use the
\* registers of the DSP's region.
Prepare ==
  /\ B!Prepare
  /\ \/ listed > 0 /\ todo' = PrepareStream \o todo
     \/ listed > 0 /\ phase' = "done" /\ todo' = <<Decouple>> \o todo
     \/ listed = 0 /\ phase' = "done" /\ UNCHANGED todo
  /\ UNCHANGED stray

Attempt ==
  /\ B!TryFails \/ B!TrySucceeds \/ B!Load
  /\ stray' = IF Leads(DSP) = "astray" THEN stray \cup {DSP} ELSE stray
  /\ UNCHANGED todo

Return ==
  /\ phase = "done" /\ todo' = Tail(todo)
  /\ UNCHANGED <<bootVars, stray>>

hda_dsp_cl_boot_firmware ==
  /\ pc = "access" /\ todo # <<>> /\ Head(todo).op = "boot"
  /\ Prepare \/ Attempt \/ Return
  /\ UNCHANGED <<sessionVars, pc, walkVars, listed, regs, missed>>

Exit ==
  /\ pc = "access" /\ todo = <<>> /\ pc' = "exit"
  /\ UNCHANGED <<sessionVars, walkVars, bootVars, listed, ioVars>>

Next ==
  \/ Session \/ SessionOver
  \/ hda_dsp_ctrl_get_caps \/ hda_dsp_stream_init \/ irq_enable
  \/ \E a \in ToSet(todo) : Done(a) \/ Fails(a) \/ Strays(a)
  \/ hda_dsp_cl_boot_firmware
  \/ Exit

\* One thread; every call and every access returns.
Spec == Init /\ [][Next]_vars /\ WF_vars(Next)
-----------------------------------------------------------------------------
(* Properties.                                                             *)

TypeOK ==
  /\ SessionTypeOK
  /\ pc \in {"session", "llch", "walk", "walked", "msi", "access", "exit"}
  /\ offset \in Places \cup {0} /\ count \in 0..MaxCaps + 2
  /\ failed \in BOOLEAN /\ seen \subseteq Places \cup {0}
  /\ phase \in {"preparing", "trying", "loading", "done"}
  /\ tries \in 0..Attempts /\ outcome \in {"none", "ok", "error"}
  /\ listed \in 0..Len(SdSts)
  /\ todo \in Seq([op : {"update", "clear", "write", "boot"}, slot : Regions,
                   reg : Registers, mask : SUBSET Bits, value : SUBSET Bits])
  /\ regs \in [Registers -> SUBSET Bits]
  /\ stray \subseteq Regions /\ missed \subseteq Registers

Gated(enable) ==
  /\ "CGCTL" \in missed \/ ("ADSPDCGE" \in regs["CGCTL"]) = enable
  /\ "EM2" \in missed \/ ("L1SEN" \in regs["EM2"]) = enable
  /\ "PGCTL" \in missed \/ ("ADSPPGD" \in regs["PGCTL"]) = ~enable

\* While the DSP is being booted, clock and power gating are off, though
\* clearing TCSEL clears a bit of the same register, and the controller's
\* processing and interrupts are on: in every register that the program
\* managed to access each time (driver.c 33-36, probe.c 59-99).
ReadyToBoot ==
  pc = "access" /\ todo # <<>> /\ Head(todo).op = "boot" /\ phase \in {"trying", "loading"} =>
    /\ Gated(FALSE)
    /\ "PPCTL" \in missed \/ {"GPROCEN", "PIE", "PROCEN"} \subseteq regs["PPCTL"]
    /\ "INTCTL" \in missed \/ {"GIE", "CIE"} \subseteq regs["INTCTL"]

\* However the boot ended, the program leaves with the gating on
\* (driver.c 36-37).
GatingRestored == pc = "exit" /\ prog = "sof" => Gated(TRUE)

\* Several parts of the program, and others, have bits in one register: no
\* update changes a bit that is not its own, unless an access failed
\* (tools.c 82-90).
OtherBitsKept == \A r \in Shared \ missed : regs[r] \cap Others = {"other"}

\* What a slot of info->offsets[] is used for is where it leads.  Only a
\* region whose own query failed leads astray, SPIB not even then, and PP
\* only when no such capability was found; with nothing refused an access is
\* lost only for want of the capability (probe.c 154-169, 264, 359).
AccessesReach ==
  /\ SPIB \notin stray /\ stray \cap known = {}
  /\ PP \in stray => W!Found("PP") = {}
  /\ faults = 0 => /\ missed \subseteq {"PPCTL", "SPBFCTL"}
                   /\ "PPCTL" \in missed => W!Found("PP") = {}
                   /\ "SPBFCTL" \in missed => W!Found("SPIB") = {}

\* Interrupts are not enabled while one of an earlier user is pending, in the
\* controller's status registers or in that of any stream of the list, which
\* is all of the device's streams unless something failed; but where an access
\* failed it may be (probe.c 66-87).
NothingPending ==
  \A r \in ({"WAKESTS", "INTSTS"} \cup {SdSts[k] : k \in 1..listed}) \ missed : regs[r] = {}
EnabledWhenClear ==
  [][prog = "sof" /\ "GIE" \notin regs["INTCTL"] /\ "GIE" \in regs'["INTCTL"] =>
       /\ NothingPending
       /\ faults = 0 => listed = Len(SdSts)]_vars

\* Every program ends, whatever fails.
ProgramEnds == <>(pc = "exit")
=============================================================================
