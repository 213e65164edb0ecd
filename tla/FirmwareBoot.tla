---------------------------- MODULE FirmwareBoot ----------------------------
(***************************************************************************)
(* hda_dsp_cl_boot_firmware() of sof-vfio/loader.c and everything it calls *)
(* once the firmware image is in memory: the retry loop, cl_dsp_init(),    *)
(* the core power, reset and stall helpers, cl_copy_fw() and the stream    *)
(* trigger.  The host is one sequential program; the audio DSP (its ADSPCS *)
(* register, power islands, ROM and code-loader DMA) moves on its own      *)
(* between any two of the host's register accesses.                        *)
(*                                                                         *)
(* The source says of a register only what it does with it, so the         *)
(* hardware is as unreliable as that use allows:                           *)
(*  - a field the driver polls after writing it (SPA, CRST, the stream's   *)
(*    RUN bit) may lag the write: ...Req is what was last written, the     *)
(*    plain name what a read returns.  CSTALL is never polled and          *)
(*    hda_dsp_core_run() reads it straight after writing it, so it obeys   *)
(*    at once.  CPA follows SPA core by core;                              *)
(*  - the ROM status survives a reset: the driver prints it after having   *)
(*    reset and powered down the cores (loader.c 80-84);                   *)
(*  - with Faulty, the hardware may take longer than a poll does and the   *)
(*    ROM may fail.  Without, a poll outlasts the hardware.                *)
(*                                                                         *)
(* Nothing in the program resets the device: it is found as whoever had it *)
(* before left it, an earlier run of this program among them.              *)
(***************************************************************************)
EXTENDS Naturals

CONSTANTS Cores,    \* chip->cores_mask
          Core0,    \* HDA_DSP_CORE_MASK(0), the core that runs the ROM
          Attempts, \* HDA_FW_BOOT_ATTEMPTS
          PollReads,\* reads after which the poll macro gives up
          Faulty    \* may the hardware fail or be late?

ASSUME CoreAssumption == Core0 \in Cores
ASSUME AttemptsAssumption == Attempts \in Nat \ {0}
ASSUME PollAssumption == PollReads \in Nat \ {0}
ASSUME FaultyAssumption == Faulty \in BOOLEAN

VARIABLES
  pc,       \* the host's next step
  reads,    \* reads of the poll under way that were in vain (its count)
  i,        \* attempts made (the retry loop's counter)
  ret,      \* what hda_dsp_cl_boot_firmware() would return
  caller,   \* who called hda_dsp_core_stall_reset()
  running,  \* hstream->running
  stale,    \* history: what showed already when this attempt let core 0 go
  spa, spaReq, cpa, cstall, crst, crstReq,  \* ADSPCS, as sets of cores
  ssp,      \* all SSPs in slave mode
  busy,     \* HIPCIDR.BUSY: a purge request the ROM has not taken yet
  done,     \* HIPCIDA.DONE: a reply the host has not acknowledged yet
  ipcInt,   \* IPC interrupts enabled (HIPCCTL and ADSPIC)
  rom,      \* what core 0 is really doing
  romStatus,\* HDA_DSP_SRAM_REG_ROM_STATUS
  sdRun, sdRunReq, sdSts,  \* the stream's RUN bit and status byte
  intctl    \* the stream's bit of INTCTL

host   == <<i, ret, caller, running, stale>>
adspcs == <<spa, spaReq, cpa, cstall, crst, crstReq>>
ipc    == <<ssp, busy, done, ipcInt>>
romv   == <<rom, romStatus>>
dma    == <<sdRun, sdRunReq, sdSts, intctl>>
vars   == <<pc, reads, host, adspcs, ipc, romv, dma>>

BeforeRelease == {"power_up", "power_up_poll", "power_up_check", "purge",
                  "leave_reset", "leave_poll", "leave_check", "unstall"}
Released  == {"run_check", "wait_done", "clear_done", "park", "park_poll",
              "int_enable", "wait_init"}
Resetting == {"err", "stall", "enter_reset", "enter_poll", "enter_check"}
Failed    == {"off", "off_poll", "attempt_failed"}
Trying    == BeforeRelease \cup Released \cup Resetting \cup Failed
Loading   == {"trigger_start", "await_entered", "trigger_stop", "stop_poll"}
Labels    == Trying \cup Loading \cup {"prepare", "return"}

\* A core fetches instructions: powered, out of reset and not stalled.
Executing(c) == c \in cpa /\ c \notin crst /\ c \notin cstall

RomStates == {"off", "running", "replied", "init", "entered", "failed"}
Statuses  == {"none", "init", "entered", "error"}

\* The cores as they are found: at rest and held in reset and stall, which
\* the boot never changes for any but core 0.  An earlier run has left core 0
\* held or, if it came to the download, running.
FoundCores ==
  /\ spa \in SUBSET Cores /\ spaReq = spa /\ cpa = spa
  /\ cstall \in {Cores, Cores \ {Core0}}
  /\ crst \in {Cores, Cores \ {Core0}} /\ crstReq = crst
  /\ Core0 \notin cstall => Executing(Core0)

\* The signals of the ROM as they are found.  Nothing clears DONE or the
\* status, so they may be an earlier run's; what runs has been prepared.
FoundSignals ==
  /\ ssp \in BOOLEAN /\ busy \in BOOLEAN /\ done \in BOOLEAN /\ ipcInt \in BOOLEAN
  /\ rom \in RomStates /\ romStatus \in Statuses
  /\ Core0 \in crst \/ Core0 \notin cpa => rom = "off"
  /\ rom \in {"init", "entered"} => romStatus = rom
  /\ rom = "failed" => romStatus = "error"
  /\ Core0 \notin cstall => ssp /\ (rom \in {"off", "running"} => busy)

\* The stream, which an earlier run may not have managed to stop.
FoundStream ==
  /\ sdRun \in BOOLEAN /\ sdRunReq = sdRun /\ sdSts \in BOOLEAN /\ intctl \in BOOLEAN

Init ==
  /\ pc = "prepare" /\ reads = 0 /\ i = 0 /\ ret = "none" /\ caller = "none"
  /\ running = FALSE /\ stale = {}
  /\ FoundCores /\ FoundSignals /\ FoundStream

-----------------------------------------------------------------------------
(* Register access.                                                        *)

\* snd_sof_dsp_update_bits_unlocked() on ADSPCS: the new word is made of what
\* was read back, and is not written at all when it equals that.  The
\* hardware does not move between the read and the write (one action).
UpdateAdspcs(newSpa, newStall, newRst) ==
  /\ IF <<newSpa, newStall, newRst>> = <<spa, cstall, crst>>
       THEN UNCHANGED <<spaReq, cstall, crstReq>>
       ELSE spaReq' = newSpa /\ cstall' = newStall /\ crstReq' = newRst
  /\ UNCHANGED <<spa, cpa, crst>>

\* Defect: the loop goes on as long as the condition does not hold.
Poll_Mixed(at, cond, ok, late) ==
  /\ pc = at
  /\ \/ cond /\ pc' = ok /\ reads' = 0
     \/ Faulty /\ ~cond /\ pc' = at /\ UNCHANGED reads

\* A turn of snd_sof_dsp_read_poll_timeout()'s loop: it is left when the
\* condition holds, or with -ETIMEDOUT when the last read was in vain too.
\* (Behind a read in vain the condition in the loop's own test is false.)
Poll(at, cond, ok, late) ==
  /\ pc = at
  /\ \/ cond /\ pc' = ok /\ reads' = 0
     \/ Faulty /\ ~cond /\ reads + 1 < PollReads /\ reads' = reads + 1 /\ UNCHANGED pc
     \/ Faulty /\ ~cond /\ reads + 1 = PollReads /\ pc' = late /\ reads' = 0

Step(from, to) == pc = from /\ pc' = to /\ UNCHANGED reads

\* A single read that decides where the host goes next.
Check(at, cond, ok, bad) == Step(at, IF cond THEN ok ELSE bad)

Reads == UNCHANGED <<host, adspcs, ipc, romv, dma>>

-----------------------------------------------------------------------------
(* hda_dsp_cl_boot_firmware(): preparation and retry loop.                 *)

\* cl_stream_prepare() hands on a stream that rests (module CodeLoader).  An
\* error of it or of get_stream_with_tag() returns; the stream may have been
\* told to stop by then.
Prepare ==
  /\ \/ /\ Step("prepare", "power_up") /\ UNCHANGED ret
        /\ sdRun' = FALSE /\ sdRunReq' = FALSE /\ sdSts' = FALSE
     \/ /\ Step("prepare", "return") /\ ret' = "refused"
        /\ sdRunReq' \in {sdRunReq, FALSE} /\ sdSts' \in {sdSts, FALSE} /\ UNCHANGED sdRun
  /\ UNCHANGED <<i, caller, running, stale, adspcs, ipc, romv, intctl>>

\* Defects: one attempt too many; the download after the last failed attempt.
AfterAttempt_OneMore == IF i + 1 <= Attempts THEN "power_up" ELSE "return"
AfterAttempt_NoGoto  == IF i + 1 < Attempts THEN "power_up" ELSE "trigger_start"

\* The loop's condition and the test behind the loop.
AfterAttempt == IF i + 1 < Attempts THEN "power_up" ELSE "return"

\* The end of a loop iteration whose cl_dsp_init() failed.
NextAttempt ==
  /\ Step("attempt_failed", AfterAttempt)
  /\ i' = i + 1
  /\ ret' = "error"
  /\ UNCHANGED <<caller, running, stale, adspcs, ipc, romv, dma>>

-----------------------------------------------------------------------------
(* cl_dsp_init(), in program order.                                        *)

\* Defects: only core 0 is powered up; all cores are let go.
PowerMask_Core0 == {Core0}
RunMask_All == Cores

\* The cores of steps 1 and 3.
PowerMask == Cores
RunMask == {Core0}

\* hda_dsp_core_is_enabled(): for CPA and SPA one core of the mask is enough.
IsEnabled(mask) ==
  /\ mask \cap cpa # {} /\ mask \cap spa # {}
  /\ mask \cap crst = {} /\ mask \cap cstall = {}

\* Step 1: hda_dsp_core_power_up(cores_mask).
PowerUp ==
  /\ Step("power_up", "power_up_poll")
  /\ UpdateAdspcs(spa \cup PowerMask, cstall, crst)
  /\ UNCHANGED <<host, ipc, romv, dma>>
PowerUpPoll == Poll("power_up_poll", PowerMask \subseteq cpa, "power_up_check", "err") /\ Reads
PowerUpCheck == Check("power_up_check", PowerMask \subseteq cpa, "purge", "err") /\ Reads

\* Defect: no purge request.
SetSlaveAndPurge_NoPurge ==
  Step("purge", "leave_reset") /\ ssp' = TRUE
  /\ UNCHANGED <<host, adspcs, busy, done, ipcInt, romv, dma>>

\* All SSPs to slave mode, then step 2: the purge request with BUSY set.
SetSlaveAndPurge ==
  /\ Step("purge", "leave_reset")
  /\ ssp' = TRUE /\ busy' = TRUE
  /\ UNCHANGED <<host, adspcs, done, ipcInt, romv, dma>>

\* Step 3: hda_dsp_core_run(core 0), which is hda_dsp_core_reset_leave(),
ResetLeave ==
  /\ Step("leave_reset", "leave_poll")
  /\ UpdateAdspcs(spa, cstall, crst \ RunMask)
  /\ UNCHANGED <<host, ipc, romv, dma>>
ResetLeavePoll == Poll("leave_poll", RunMask \cap crst = {}, "leave_check", "err") /\ Reads
ResetLeaveCheck == Check("leave_check", RunMask \cap crst = {}, "unstall", "err") /\ Reads

\* unstalling the core
Unstall ==
  /\ Step("unstall", "run_check")
  /\ UpdateAdspcs(spa, cstall \ RunMask, crst)
  /\ stale' = {x \in {"done", "init"} : IF x = "done" THEN done ELSE romStatus = "init"}
  /\ UNCHANGED <<i, ret, caller, running, ipc, romv, dma>>

\* and hda_dsp_core_is_enabled(); if not, the core is stalled and reset.
RunCheck ==
  /\ Check("run_check", IsEnabled(RunMask), "wait_done", "stall")
  /\ caller' = IF pc' = "stall" THEN "core_run" ELSE caller
  /\ UNCHANGED <<i, ret, running, stale, adspcs, ipc, romv, dma>>

\* Step 4: wait for the ROM's IPC reply,
WaitDone == Poll("wait_done", done, "clear_done", "err") /\ Reads

\* and clear DONE, which writing 1 does.  But snd_sof_dsp_update_bits_forced()
\* is the unforced update: with DONE read as 1 the new word equals the old
\* one, nothing is written and DONE stays.
ClearDone == Step("clear_done", "park") /\ Reads

\* Step 5: hda_dsp_core_power_down(all cores but 0), which polls SPA.
Park ==
  /\ Step("park", "park_poll")
  /\ UpdateAdspcs(spa \ (Cores \ {Core0}), cstall, crst)
  /\ UNCHANGED <<host, ipc, romv, dma>>
ParkPoll == Poll("park_poll", spa \cap (Cores \ {Core0}) = {}, "int_enable", "err") /\ Reads

\* Step 6: hda_dsp_ipc_int_enable().
IpcIntEnable ==
  /\ Step("int_enable", "wait_init")
  /\ ipcInt' = TRUE
  /\ UNCHANGED <<host, adspcs, ssp, busy, done, romv, dma>>

\* Defect: a status that has not been written yet passes for INIT.
WaitInit_NotInError ==
  /\ Poll("wait_init", romStatus # "error", "trigger_start", "err")
  /\ ret' = IF pc' = "trigger_start" THEN "ok" ELSE ret
  /\ UNCHANGED <<i, caller, running, stale, adspcs, ipc, romv, dma>>

\* Step 7: wait for HDA_DSP_ROM_INIT; success leaves the retry loop.
WaitInit ==
  /\ Poll("wait_init", romStatus = "init", "trigger_start", "err")
  /\ ret' = IF pc' = "trigger_start" THEN "ok" ELSE ret
  /\ UNCHANGED <<i, caller, running, stale, adspcs, ipc, romv, dma>>

-----------------------------------------------------------------------------
(* The error path: hda_dsp_core_reset_power_down(cores_mask), whose result *)
(* cl_dsp_init() ignores, and hda_dsp_core_stall_reset(), which            *)
(* hda_dsp_core_run() also calls.                                          *)

\* Defect: power down without stall and reset.
Error_NoReset ==
  /\ Step("err", "off")
  /\ caller' = "reset_power_down"
  /\ UNCHANGED <<i, ret, running, stale, adspcs, ipc, romv, dma>>

\* The caller's err label.
Error ==
  /\ Step("err", "stall")
  /\ caller' = "reset_power_down" /\ stale' = {}
  /\ UNCHANGED <<i, ret, running, adspcs, ipc, romv, dma>>

\* The cores hda_dsp_core_stall_reset() was called for.
ResetMask == IF caller = "core_run" THEN {Core0} ELSE Cores

\* Defect: reset without stalling first.
Stall_Not == Step("stall", "enter_reset") /\ Reads

Stall ==
  /\ Step("stall", "enter_reset")
  /\ UpdateAdspcs(spa, cstall \cup ResetMask, crst)
  /\ UNCHANGED <<host, ipc, romv, dma>>

ResetEnter ==
  /\ Step("enter_reset", "enter_poll")
  /\ UpdateAdspcs(spa, cstall, crst \cup ResetMask)
  /\ UNCHANGED <<host, ipc, romv, dma>>

\* hda_dsp_core_run() fails whatever stall_reset returned; reset_power_down
\* goes on only if it succeeded.
StallResetReturns(success) ==
  IF caller = "core_run" THEN "err"
  ELSE IF success THEN "off" ELSE "attempt_failed"

ResetEnterPoll ==
  /\ Poll("enter_poll", ResetMask \subseteq crst, "enter_check", StallResetReturns(FALSE))
  /\ Reads
ResetEnterCheck ==
  /\ Check("enter_check", ResetMask \subseteq crst, StallResetReturns(TRUE), StallResetReturns(FALSE))
  /\ Reads

\* hda_dsp_core_power_down(cores_mask).  Whether its poll of SPA and the
\* read of hda_dsp_core_is_enabled() succeed changes only an ignored result.
PowerDown ==
  /\ Step("off", "off_poll")
  /\ UpdateAdspcs(spa \ Cores, cstall, crst)
  /\ UNCHANGED <<host, ipc, romv, dma>>
PowerDownPoll == Poll("off_poll", spa = {}, "attempt_failed", "attempt_failed") /\ Reads

-----------------------------------------------------------------------------
(* cl_copy_fw(): start the DMA, wait for the firmware, stop the DMA.       *)

\* A read-modify-write of the stream's control word writes back the status
\* bits it read, and they are cleared by writing 1 to them.
UpdateSdCtl(run) ==
  /\ sdRunReq' = run
  /\ sdSts' = FALSE
  /\ UNCHANGED sdRun

\* cl_trigger(START), which polls nothing and always returns 0.
TriggerStart ==
  /\ Step("trigger_start", "await_entered")
  /\ intctl' = TRUE
  /\ UpdateSdCtl(TRUE)
  /\ running' = TRUE
  /\ UNCHANGED <<i, ret, caller, stale, adspcs, ipc, romv>>

\* Defect: the status of the wait is lost.
AwaitEntered_StatusLost ==
  /\ Poll("await_entered", romStatus = "entered", "trigger_stop", "trigger_stop")
  /\ UNCHANGED <<host, adspcs, ipc, romv, dma>>

\* Wait for HDA_DSP_ROM_FW_ENTERED; late or not, the DMA is stopped next.
AwaitEntered ==
  /\ Poll("await_entered", romStatus = "entered", "trigger_stop", "trigger_stop")
  /\ \/ romStatus = "entered" /\ ret' = "ok"
     \/ romStatus # "entered" /\ ret' = IF pc' = "trigger_stop" THEN "error" ELSE ret
  /\ UNCHANGED <<i, caller, running, stale, adspcs, ipc, romv, dma>>

\* hda_dsp_stream_trigger(STOP).
TriggerStop ==
  /\ Step("trigger_stop", "stop_poll")
  /\ UpdateSdCtl(FALSE)
  /\ UNCHANGED <<host, adspcs, ipc, romv, intctl>>

\* Defect: the RUN bit is not waited for.
StopPoll_NoWait ==
  /\ Step("stop_poll", "return")
  /\ sdSts' = FALSE /\ running' = FALSE /\ intctl' = FALSE
  /\ UNCHANGED <<i, ret, caller, stale, adspcs, ipc, romv, sdRun, sdRunReq>>

\* Its wait for the RUN bit, and what it does only when that is clear.
StopPoll ==
  /\ Poll("stop_poll", ~sdRun, "return", "return")
  /\ \/ ~sdRun /\ sdSts' = FALSE /\ running' = FALSE /\ intctl' = FALSE /\ UNCHANGED ret
     \/ /\ sdRun /\ ret' = IF pc' = "return" THEN "error" ELSE ret
        /\ UNCHANGED <<sdSts, running, intctl>>
  /\ UNCHANGED <<i, caller, stale, adspcs, ipc, romv, sdRun, sdRunReq>>

Host ==
  \/ Prepare \/ NextAttempt
  \/ PowerUp \/ PowerUpPoll \/ PowerUpCheck \/ SetSlaveAndPurge
  \/ ResetLeave \/ ResetLeavePoll \/ ResetLeaveCheck \/ Unstall \/ RunCheck
  \/ WaitDone \/ ClearDone \/ Park \/ ParkPoll \/ IpcIntEnable \/ WaitInit
  \/ Error \/ Stall \/ ResetEnter \/ ResetEnterPoll \/ ResetEnterCheck
  \/ PowerDown \/ PowerDownPoll
  \/ TriggerStart \/ AwaitEntered \/ TriggerStop \/ StopPoll

-----------------------------------------------------------------------------
(* The hardware.                                                           *)

SpaSettles ==
  /\ spa # spaReq /\ spa' = spaReq
  /\ UNCHANGED <<pc, reads, host, spaReq, cpa, cstall, crst, crstReq, ipc, romv, dma>>

\* A core in reset loses whatever it was doing.
CrstSettles ==
  /\ crst # crstReq /\ crst' = crstReq
  /\ rom' = IF Core0 \in crstReq THEN "off" ELSE rom
  /\ UNCHANGED <<pc, reads, host, spa, spaReq, cpa, cstall, crstReq, ipc, romStatus, dma>>

PowerAck(c) ==
  /\ c \in spa \ cpa /\ cpa' = cpa \cup {c}
  /\ UNCHANGED <<pc, reads, host, spa, spaReq, cstall, crst, crstReq, ipc, romv, dma>>

PowerGone(c) ==
  /\ c \in cpa \ spa /\ cpa' = cpa \ {c}
  /\ rom' = IF c = Core0 THEN "off" ELSE rom
  /\ UNCHANGED <<pc, reads, host, spa, spaReq, cstall, crst, crstReq, ipc, romStatus, dma>>

\* The ROM starts over; it may or may not wipe the status it left last time.
RomStarts ==
  /\ rom = "off" /\ Executing(Core0)
  /\ rom' = "running" /\ romStatus' \in {romStatus, "none"}
  /\ UNCHANGED <<pc, reads, host, adspcs, ipc, dma>>

\* "core 0 waits for power status on core 1" (loader.c 203), then takes the
\* purge request and replies.
RomReplies ==
  /\ rom = "running" /\ Executing(Core0) /\ busy /\ Cores \subseteq cpa
  /\ rom' = "replied" /\ busy' = FALSE /\ done' = TRUE
  /\ UNCHANGED <<pc, reads, host, adspcs, ssp, ipcInt, romStatus, dma>>

RomInits ==
  /\ rom = "replied" /\ Executing(Core0)
  /\ rom' = "init" /\ romStatus' = "init"
  /\ UNCHANGED <<pc, reads, host, adspcs, ipc, dma>>

\* The firmware comes through the DMA and is entered.
RomEnters ==
  /\ rom = "init" /\ Executing(Core0) /\ sdRun
  /\ rom' = "entered" /\ romStatus' = "entered"
  /\ UNCHANGED <<pc, reads, host, adspcs, ipc, dma>>

RomFails ==
  /\ Faulty /\ rom \in {"running", "replied", "init"} /\ Executing(Core0)
  /\ rom' = "failed" /\ romStatus' = "error"
  /\ UNCHANGED <<pc, reads, host, adspcs, ipc, dma>>

SdRunSettles ==
  /\ sdRun # sdRunReq /\ sdRun' = sdRunReq
  /\ UNCHANGED <<pc, reads, host, adspcs, ipc, romv, sdRunReq, sdSts, intctl>>

\* A buffer completion sets the stream's status bits.
DmaCompletes ==
  /\ sdRun /\ ~sdSts /\ sdSts' = TRUE
  /\ UNCHANGED <<pc, reads, host, adspcs, ipc, romv, sdRun, sdRunReq, intctl>>

Rom == RomStarts \/ RomReplies \/ RomInits \/ RomEnters \/ RomFails
Power == \E c \in Cores : PowerAck(c) \/ PowerGone(c)
Hardware ==
  SpaSettles \/ CrstSettles \/ Power \/ Rom \/ SdRunSettles \/ DmaCompletes

Next == Host \/ Hardware

\* The host program runs; the hardware may stop at any point.
Spec == Init /\ [][Next]_vars /\ WF_vars(Host)

\* No reply left to be taken for the next one, and core 0 in reset: what a
\* reset of the device leaves, and a run whose attempts came to no reply.
FoundReset == ~done /\ Core0 \in crst \cap cstall

HealthyInit == Init /\ FoundReset

\* A device in working order, found so, also finishes what it was asked to do.
HealthySpec ==
  /\ HealthyInit /\ [][Next]_vars /\ WF_vars(Host)
  /\ WF_vars(SpaSettles) /\ WF_vars(CrstSettles) /\ WF_vars(SdRunSettles)
  /\ WF_vars(RomStarts) /\ WF_vars(RomReplies) /\ WF_vars(RomInits) /\ WF_vars(RomEnters)
  /\ \A c \in Cores : WF_vars(PowerAck(c))

-----------------------------------------------------------------------------
(* Properties.                                                             *)

FlagsOK ==
  /\ running \in BOOLEAN /\ ssp \in BOOLEAN /\ busy \in BOOLEAN
  /\ done \in BOOLEAN /\ ipcInt \in BOOLEAN /\ intctl \in BOOLEAN
  /\ sdRun \in BOOLEAN /\ sdRunReq \in BOOLEAN /\ sdSts \in BOOLEAN

\* Types, and the loop counter: an attempt is only ever under way for
\* i < Attempts (loader.c 69).
TypeOK ==
  /\ pc \in Labels /\ reads \in 0..PollReads - 1
  /\ i \in 0..Attempts /\ (pc # "return" => i < Attempts)
  /\ ret \in {"none", "ok", "error", "refused"} /\ stale \subseteq {"done", "init"}
  /\ caller \in {"none", "core_run", "reset_power_down"}
  /\ spa \subseteq Cores /\ spaReq \subseteq Cores /\ cpa \subseteq Cores
  /\ cstall \subseteq Cores /\ crst \subseteq Cores /\ crstReq \subseteq Cores
  /\ rom \in RomStates /\ romStatus \in Statuses
  /\ FlagsOK

\* The other cores are powered up only so that core 0 sees them powered: in
\* no interleaving of the four ADSPCS updates, late registers and retries do
\* they leave reset or the stall, or are about to (loader.c 203-206).
SecondaryCoresHeld == Cores \ {Core0} \subseteq crst \cap crstReq \cap cstall

\* Core 0 never fetches an instruction before the SSPs are in slave mode, and
\* a ROM that has not replied yet always finds its purge request pending,
\* also in a retry that follows a reset which was late (loader.c 223-239).
Core0StartsPrepared ==
  Executing(Core0) => ssp /\ (rom \in {"off", "running"} => busy)

\* From the failure of an attempt until the next one unstalls core 0 no core
\* can run, whatever the failed one left behind and however the cores were
\* found before the first (loader.c 306, 435, 415).
NoCoreRunsBetweenAttempts ==
  pc \in Failed \/ (i > 0 /\ pc \in BeforeRelease) => cstall = Cores

\* When a boot that got its stream returns with the stream marked as stopped,
\* the code-loader DMA really is: not running, not about to, no status bit
\* left to raise an interrupt and, if there was a download, its interrupt
\* masked (loader.c 626-649).
DmaQuiet ==
  pc = "return" /\ ret # "refused" /\ ~running =>
    ~(sdRun \/ sdRunReq \/ sdSts) /\ (i < Attempts => ~intctl)

\* A boot that reports success has the firmware running on core 0 alone, the
\* other cores' power dropped, and the DMA stopped (loader.c 99-136).
BootedMeansEntered ==
  pc = "return" /\ ret = "ok" =>
    /\ rom = "entered" /\ Executing(Core0)
    /\ spa = {Core0} /\ spaReq = {Core0}
    /\ ~running

\* The host never asks for the power of a core that is not stalled to be
\* dropped ("place core in reset prior to power down", loader.c 316).
PowerDownOnlyStalled ==
  [][\A c \in Cores : c \in spaReq /\ c \notin spaReq' => c \in cstall]_vars

\* However late the hardware is, the boot returns.
Termination == <>(pc = "return")

\* On a device in working order, an attempt that is begun ends in a booted
\* firmware: no wait of the host is for something the device will not do.
HealthyBoot == pc = "power_up" ~> (pc = "return" /\ ret = "ok")

\* What an attempt waits for is what it gets: the reply it takes is that of
\* the ROM it let go ("wait for IPC DONE bit from ROM", loader.c 249), and the
\* download starts only with a ROM that "has been initialized" (96), in every
\* attempt and on a device found in any state, unless the very signal showed
\* already when core 0 was let go.
SignalsGenuine ==
  /\ pc = "clear_done" /\ "done" \notin stale => rom \notin {"off", "running"}
  /\ pc = "trigger_start" /\ "init" \notin stale => rom \in {"init", "failed"}

\* The comment's claim: "set DONE bit to clear the reply IPC message"
\* (loader.c 266).
ReplyCleared == [][pc = "clear_done" /\ pc' # pc => ~done']_vars

-----------------------------------------------------------------------------
(* The boot as its caller sees it.                                         *)

Contract == INSTANCE BootContract WITH
  phase   <- IF pc = "prepare" THEN "preparing"
             ELSE IF pc \in Trying THEN "trying"
             ELSE IF pc \in Loading THEN "loading" ELSE "done",
  tries   <- i,
  outcome <- IF pc # "return" THEN "none" ELSE IF ret = "ok" THEN "ok" ELSE "error"

\* The host and the DSP together do what BootContract promises: at most
\* Attempts tries, one download, only after a try that succeeded.
ContractSpec == Contract!Spec
ContractSteps == Contract!Init /\ [][Contract!Next]_(Contract!vars)
=============================================================================
