------------------------ MODULE FirmwareBootProgress ------------------------
(* That the boot makes progress, for every set of cores and number of      *)
(* attempts: a bound on the steps host and hardware can still take, and,   *)
(* on a device in working order, that the host never waits for something   *)
(* the device will not do and needs one attempt.  Checked by TLAPS.        *)
EXTENDS FirmwareBootProofs, FiniteSetTheorems

USE DEF Labels, Trying, Loading, BeforeRelease, Released, Resetting, Failed

-----------------------------------------------------------------------------
(* Steps that are left.                                                    *)

\* The steps the host still takes in this attempt, the way to the end of its
\* error path included.  hda_dsp_core_stall_reset() called from core_run()
\* returns to the err label, which calls it again.
LabelRank ==
  CASE pc = "prepare" -> 28   [] pc = "power_up" -> 27      [] pc = "power_up_poll" -> 26
    [] pc = "power_up_check" -> 25 [] pc = "purge" -> 24    [] pc = "leave_reset" -> 23
    [] pc = "leave_poll" -> 22 [] pc = "leave_check" -> 21  [] pc = "unstall" -> 20
    [] pc = "run_check" -> 19 [] pc = "wait_done" -> 18     [] pc = "clear_done" -> 17
    [] pc = "park" -> 16      [] pc = "park_poll" -> 15     [] pc = "int_enable" -> 14
    [] pc = "wait_init" -> 13
    [] pc = "err" -> 8        [] pc = "stall" -> 7          [] pc = "enter_reset" -> 6
    [] pc = "enter_poll" -> 5 [] pc = "enter_check" -> 4    [] pc = "off" -> 3
    [] pc = "off_poll" -> 2   [] pc = "attempt_failed" -> 1
    [] pc = "trigger_start" -> 4 [] pc = "await_entered" -> 3
    [] pc = "trigger_stop" -> 2  [] pc = "stop_poll" -> 1   [] OTHER -> 0

AttemptRank ==
  IF caller = "core_run" /\ pc \in {"stall", "enter_reset", "enter_poll", "enter_check"}
  THEN LabelRank + 5 ELSE LabelRank

\* The labels the host still comes to, in this attempt and those that may follow,
HostRank == 29 * (Attempts - i) + AttemptRank

\* and its steps, as if it polled at every one of them.
ReadsLeft == PollReads - 1 - reads
HostSteps == PollReads * HostRank + ReadsLeft

Flag(b) == IF b THEN 1 ELSE 0

\* How far the ROM can still get without the host.
RomRank ==
  CASE rom = "off" -> 5  [] rom = "running" -> 4 [] rom = "replied" -> 3
    [] rom = "init" -> 2 [] rom = "entered" -> 1 [] OTHER -> 0

\* The cores whose power is not what SPA asks for.
Unsettled == (spa \ cpa) \cup (cpa \ spa)

\* SPA taking effect may unsettle every core; a core that loses its power or
\* enters reset may set the ROM back to its start.
SpaRank == (6 * Cardinality(Cores) + 1) * Flag(spa # spaReq)
PowerRank == 6 * Cardinality(Unsettled)
CrstRank == 6 * Flag(crst # crstReq)
DmaRank == Flag(sdRun # sdRunReq) + Flag(~sdSts)

\* The most the hardware can do before the host moves again.
HardwareRank == SpaRank + PowerRank + CrstRank + RomRank + DmaRank

Burst == 12 * Cardinality(Cores) + 15

\* An upper bound on the steps of both.
StepsLeft == Burst * HostSteps + HardwareRank

\* The ranges of the parts.
PartsOK ==
  /\ SpaRank \in 0..(6 * Cardinality(Cores) + 1) /\ PowerRank \in 0..(6 * Cardinality(Cores))
  /\ CrstRank \in 0..6 /\ RomRank \in 0..5 /\ DmaRank \in 0..2

LEMMA PartsInRange ==
  ASSUME Cardinality(Cores) \in Nat, Cardinality(Unsettled) \in 0..Cardinality(Cores)
  PROVE  PartsOK
<1>1. \A n \in Nat : n * 0 = 0 /\ n * 1 = n
  OBVIOUS
<1>2. SpaRank \in 0..(6 * Cardinality(Cores) + 1)
  BY <1>1 DEF SpaRank, Flag
<1>3. RomRank \in 0..5
  BY DEF RomRank
<1> QED
  BY <1>2, <1>3 DEF PartsOK, PowerRank, CrstRank, DmaRank, Flag

\* The ranks are natural numbers, and the hardware's is below Burst.
RanksOK ==
  /\ PartsOK /\ HostRank \in Nat /\ ReadsLeft \in 0..PollReads - 1 /\ HostSteps \in Nat
  /\ HardwareRank \in Nat /\ HardwareRank < Burst

LEMMA RanksInRange == ASSUME IsFiniteSet(Cores), TypeOK PROVE RanksOK
<1>1. AttemptRank \in 0..28
  <2>1. LabelRank \in 0..28
    BY DEF LabelRank
  <2>2. pc \in {"stall", "enter_reset", "enter_poll", "enter_check"} => LabelRank <= 7
    BY DEF LabelRank
  <2> QED
    BY <2>1, <2>2 DEF AttemptRank
<1>2. HostRank \in Nat
  BY <1>1, AttemptsAssumption DEF TypeOK, HostRank
<1>3. Cardinality(Cores) \in Nat /\ Cardinality(Unsettled) \in 0..Cardinality(Cores)
  <2>1. Unsettled \subseteq Cores
    BY DEF TypeOK, Unsettled
  <2> QED
    BY <2>1, FS_Subset, FS_CardinalityType
<1>4. PartsOK
  BY <1>3, PartsInRange
<1>5. ReadsLeft \in 0..PollReads - 1
  BY PollAssumption DEF TypeOK, ReadsLeft
<1>6. HostSteps \in Nat
  <2>1. \A b, x, w \in Nat : b * x + w \in Nat
    OBVIOUS
  <2>2. PollReads \in Nat /\ ReadsLeft \in Nat
    BY <1>5, PollAssumption
  <2> QED
    BY <1>2, <2>1, <2>2, Zenon DEF HostSteps
<1> QED
  BY <1>2, <1>3, <1>4, <1>5, <1>6 DEF PartsOK, HardwareRank, Burst, RanksOK

\* A step of the host is one more read of a poll or takes it to a later label.
ReadsAgain == reads' = reads + 1 /\ HostRank' = HostRank

LEMMA HostGoesOn == TypeOK /\ Host => ReadsAgain \/ HostRank' <= HostRank - 1
<1> SUFFICES ASSUME TypeOK, Host, ~ReadsAgain PROVE HostRank' <= HostRank - 1
  OBVIOUS
<1> USE AttemptsAssumption DEF TypeOK, host, adspcs, ipc, romv, dma, Poll, Check, Step, Reads,
    StallResetReturns, ReadsAgain, HostRank, AttemptRank, LabelRank
<1>1. CASE Prepare
  <2>1. UNCHANGED <<i, caller>> /\ pc = "prepare" /\ pc' \in {"power_up", "return"}
    BY <1>1, Zenon DEF Prepare
  <2> QED
    BY <2>1
<1>8. CASE NextAttempt
  <2>1. /\ pc = "attempt_failed" /\ i' = i + 1 /\ caller' = caller
        /\ pc' \in {"power_up", "return"}
    BY <1>8, Zenon DEF NextAttempt, AfterAttempt
  <2> QED
    BY <2>1
<1>2. CASE PowerUp \/ PowerUpPoll \/ PowerUpCheck \/ SetSlaveAndPurge
  BY <1>2 DEF PowerUp, PowerUpPoll, PowerUpCheck, SetSlaveAndPurge
<1>3. CASE ResetLeave \/ ResetLeavePoll \/ ResetLeaveCheck \/ Unstall \/ RunCheck
  BY <1>3 DEF ResetLeave, ResetLeavePoll, ResetLeaveCheck, Unstall, RunCheck
<1>4. CASE WaitDone \/ ClearDone \/ Park \/ ParkPoll \/ IpcIntEnable \/ WaitInit
  BY <1>4 DEF WaitDone, ClearDone, Park, ParkPoll, IpcIntEnable, WaitInit
<1>5. CASE Error \/ Stall \/ ResetEnter
  BY <1>5 DEF Error, Stall, ResetEnter
<1>6. CASE ResetEnterPoll \/ ResetEnterCheck \/ PowerDown \/ PowerDownPoll
  BY <1>6 DEF ResetEnterPoll, ResetEnterCheck, PowerDown, PowerDownPoll
<1>7. CASE TriggerStart \/ AwaitEntered \/ TriggerStop \/ StopPoll
  <2>1. /\ UNCHANGED <<i, caller>>
        /\ \/ pc = "trigger_start" /\ pc' = "await_entered"
           \/ pc = "await_entered" /\ pc' = "trigger_stop"
           \/ pc = "trigger_stop" /\ pc' = "stop_poll"
           \/ pc = "stop_poll" /\ pc' = "return"
           \/ UNCHANGED pc /\ reads' = reads + 1
    BY <1>7, Zenon DEF TriggerStart, AwaitEntered, TriggerStop, StopPoll, Poll, Step, host
  <2> QED
    BY <2>1
<1> QED
  BY <1>1, <1>2, <1>3, <1>4, <1>5, <1>6, <1>7, <1>8 DEF Host

\* One less of the larger unit outweighs any count of the smaller.
LEMMA Descent ==
  ASSUME NEW b \in Nat, NEW x \in Nat, NEW y \in Nat, NEW v \in Nat, NEW w \in Nat,
         x <= y - 1, v < b
  PROVE  b * x + v < b * y + w
<1>1. b * x <= b * (y - 1)
  OBVIOUS
<1>2. b * (y - 1) = b * y - b /\ b * y \in Nat /\ b * x \in Nat
  OBVIOUS
<1> QED
  BY <1>1, <1>2

\* Every step of the host takes its steps down by one at least.
LEMMA HostDescends ==
  ASSUME TypeOK, TypeOK', RanksOK, RanksOK', Host
  PROVE  HostSteps' <= HostSteps - 1
<1>1. PollReads \in Nat
  BY PollAssumption
<1>2. CASE ReadsAgain
  <2>1. ReadsLeft' = ReadsLeft - 1
    BY <1>2, PollAssumption DEF TypeOK, ReadsAgain, ReadsLeft
  <2>2. PICK q \in Nat : q = PollReads * HostRank
    <3>1. \A b, x \in Nat : b * x \in Nat
      OBVIOUS
    <3> QED
      BY <1>1, <3>1 DEF RanksOK
  <2>3. HostSteps = q + ReadsLeft /\ HostSteps' = q + ReadsLeft'
    BY <1>2, <2>2, Zenon DEF ReadsAgain, HostSteps
  <2> QED
    BY <2>1, <2>3 DEF RanksOK
<1>3. CASE HostRank' <= HostRank - 1
  <2>1. ReadsLeft \in Nat /\ ReadsLeft' \in Nat /\ ReadsLeft' < PollReads
    BY <1>1 DEF RanksOK
  <2>2. HostSteps' < HostSteps
    BY <1>1, <1>3, <2>1, Descent, Zenon DEF RanksOK, HostSteps
  <2> QED
    BY <2>2 DEF RanksOK
<1> QED
  BY <1>2, <1>3, HostGoesOn

\* Every step of the hardware takes it down by one at least and leaves the
\* host where it is.
LEMMA HardwareDescends ==
  ASSUME IsFiniteSet(Cores), TypeOK, TypeOK', PartsOK, PartsOK', Hardware
  PROVE  HardwareRank' < HardwareRank /\ HostSteps' = HostSteps
<1>1. HostSteps' = HostSteps
  <2>1. UNCHANGED <<pc, reads, i, caller>>
    BY Zenon DEF Hardware, SpaSettles, CrstSettles, Power, PowerAck, PowerGone, Rom,
       RomStarts, RomReplies, RomInits, RomEnters, RomFails, SdRunSettles, DmaCompletes, host
  <2> QED
    BY <2>1 DEF HostSteps, ReadsLeft, HostRank, AttemptRank, LabelRank
<1>2. Cardinality(Cores) \in Nat
  BY FS_CardinalityType
\* The parts as numbers.
<1>3. PICK a \in Nat, b \in Nat, c \in Nat, d \in Nat, e \in Nat,
           a2 \in Nat, b2 \in Nat, c2 \in Nat, d2 \in Nat, e2 \in Nat :
        /\ SpaRank = a /\ PowerRank = b /\ CrstRank = c /\ RomRank = d /\ DmaRank = e
        /\ SpaRank' = a2 /\ PowerRank' = b2 /\ CrstRank' = c2 /\ RomRank' = d2
        /\ DmaRank' = e2 /\ b2 <= 6 * Cardinality(Cores) /\ d2 <= 5
  BY <1>2 DEF PartsOK
<1>4. HardwareRank = a + b + c + d + e /\ HardwareRank' = a2 + b2 + c2 + d2 + e2
  BY <1>3 DEF HardwareRank
<1> USE DEF adspcs, ipc, romv, dma
<1>5. CASE SpaSettles
  <2>1. spa # spaReq /\ spa' = spaReq' /\ UNCHANGED <<crst, crstReq, rom, sdRun, sdRunReq, sdSts>>
    BY <1>5, Zenon DEF SpaSettles
  <2>2. SpaRank = 6 * Cardinality(Cores) + 1 /\ SpaRank' = 0
    BY <1>2, <2>1 DEF SpaRank, Flag
  <2>3. UNCHANGED <<CrstRank, RomRank, DmaRank>>
    BY <2>1 DEF CrstRank, RomRank, DmaRank
  <2> QED
    BY <1>1, <1>2, <1>3, <1>4, <2>2, <2>3
<1>6. CASE CrstSettles
  <2>1. /\ crst # crstReq /\ crst' = crstReq'
        /\ UNCHANGED <<spa, spaReq, cpa, sdRun, sdRunReq, sdSts>>
    BY <1>6, Zenon DEF CrstSettles
  <2>2. CrstRank = 6 /\ CrstRank' = 0
    BY <2>1 DEF CrstRank, Flag
  <2>3. UNCHANGED <<SpaRank, PowerRank, DmaRank>>
    BY <2>1 DEF SpaRank, PowerRank, Unsettled, DmaRank
  <2> QED
    BY <1>1, <1>2, <1>3, <1>4, <2>2, <2>3
<1>7. ASSUME NEW x \in Cores, PowerAck(x) \/ PowerGone(x)
      PROVE  HardwareRank' < HardwareRank
  <2>1. x \in Unsettled /\ Unsettled' = Unsettled \ {x}
    BY <1>7 DEF PowerAck, PowerGone, Unsettled
  <2>2. IsFiniteSet(Unsettled)
    BY FS_Subset DEF TypeOK, Unsettled
  <2>3. Cardinality(Unsettled') = Cardinality(Unsettled) - 1 /\ Cardinality(Unsettled) \in Nat
    BY <2>1, <2>2, FS_RemoveElement, FS_CardinalityType
  <2>4. PowerRank' = PowerRank - 6
    BY <2>3 DEF PowerRank
  <2>5. UNCHANGED <<spa, spaReq, crst, crstReq, sdRun, sdRunReq, sdSts>>
    BY <1>7, Zenon DEF PowerAck, PowerGone
  <2>6. UNCHANGED <<SpaRank, CrstRank, DmaRank>>
    BY <2>5 DEF SpaRank, CrstRank, DmaRank
  <2> QED
    BY <1>2, <1>3, <1>4, <2>4, <2>6
<1>8. CASE Rom
  <2>1. UNCHANGED <<spa, spaReq, cpa, crst, crstReq, sdRun, sdRunReq, sdSts>>
    BY <1>8, Zenon DEF Rom, RomStarts, RomReplies, RomInits, RomEnters, RomFails
  <2>2. RomRank' < RomRank
    BY <1>8 DEF Rom, RomStarts, RomReplies, RomInits, RomEnters, RomFails, RomRank
  <2>3. UNCHANGED <<SpaRank, PowerRank, CrstRank, DmaRank>>
    BY <2>1 DEF SpaRank, PowerRank, Unsettled, CrstRank, DmaRank
  <2> QED
    BY <1>1, <1>2, <1>3, <1>4, <2>2, <2>3
<1>9. CASE SdRunSettles \/ DmaCompletes
  <2>1. UNCHANGED <<spa, spaReq, cpa, crst, crstReq, rom>>
    BY <1>9, Zenon DEF SdRunSettles, DmaCompletes
  <2>2. \/ sdRun # sdRunReq /\ sdRun' = sdRunReq' /\ UNCHANGED sdSts
        \/ ~sdSts /\ sdSts' /\ UNCHANGED <<sdRun, sdRunReq>>
    BY <1>9, Zenon DEF SdRunSettles, DmaCompletes
  <2>3. DmaRank' < DmaRank
    BY <2>2 DEF DmaRank, Flag
  <2>4. UNCHANGED <<SpaRank, PowerRank, CrstRank, RomRank>>
    BY <2>1 DEF SpaRank, PowerRank, Unsettled, CrstRank, RomRank
  <2> QED
    BY <1>1, <1>2, <1>3, <1>4, <2>3, <2>4
<1> QED
  BY <1>1, <1>5, <1>6, <1>7, <1>8, <1>9 DEF Hardware, Power

\* StepsLeft is a natural number, and every step lowers it.
LEMMA StepsLeftType == ASSUME IsFiniteSet(Cores), RanksOK PROVE StepsLeft \in Nat
<1>1. Burst \in Nat
  BY FS_CardinalityType DEF Burst
<1>2. \A b, x, w \in Nat : b * x + w \in Nat
  OBVIOUS
<1> QED
  BY <1>1, <1>2, Zenon DEF RanksOK, StepsLeft

LEMMA StepDescends ==
  ASSUME IsFiniteSet(Cores), TypeOK, TypeOK', RanksOK, RanksOK', [Next]_vars
  PROVE  [StepsLeft' < StepsLeft]_vars
<1>1. Burst \in Nat /\ Burst' = Burst
  BY FS_CardinalityType DEF Burst
<1>2. CASE Host
  <2>1. HostSteps' <= HostSteps - 1
    BY <1>2, HostDescends
  <2> QED
    BY <1>1, <2>1, Descent DEF RanksOK, StepsLeft
<1>3. CASE Hardware
  <2>1. HostSteps' = HostSteps /\ HardwareRank' < HardwareRank
    BY <1>3, HardwareDescends DEF RanksOK
  <2>2. \A b, x, v, w \in Nat : v < w => b * x + v < b * x + w
    <3>1. \A b, x \in Nat : b * x \in Nat
      OBVIOUS
    <3> QED
      BY <3>1
  <2> QED
    BY <1>1, <2>1, <2>2, Zenon DEF RanksOK, StepsLeft
<1> QED
  BY <1>2, <1>3 DEF Next

\* Host and hardware together take at most
\*   (12 |cores_mask| + 15) PollReads (29 HDA_FW_BOOT_ATTEMPTS + 29)
\* steps, where PollReads is what the poll macro reads before it gives up,
\* whatever the device does and in whatever order: there is no endless retry,
\* no polling that feeds on itself and no ping-pong of the two.
THEOREM BootEnds ==
  ASSUME IsFiniteSet(Cores)
  PROVE  Spec => /\ StepsLeft < Burst * (PollReads * (29 * Attempts + 29))
                 /\ [](StepsLeft \in Nat)
                 /\ [][StepsLeft' < StepsLeft]_vars
<1>1. TypeOK => RanksOK
  BY RanksInRange
<1>2. RanksOK => StepsLeft \in Nat
  BY StepsLeftType
<1>3. TypeOK /\ TypeOK' /\ RanksOK /\ RanksOK' /\ [Next]_vars => [StepsLeft' < StepsLeft]_vars
  BY StepDescends
<1>4. Init => StepsLeft < Burst * (PollReads * (29 * Attempts + 29))
  <2> SUFFICES ASSUME Init PROVE StepsLeft < Burst * (PollReads * (29 * Attempts + 29))
    OBVIOUS
  <2>1. RanksOK /\ Burst \in Nat
    BY InitTypeOK, <1>1, FS_CardinalityType DEF Burst
  <2>2. HostRank = 29 * Attempts + 28 /\ 29 * Attempts + 29 \in Nat
    BY AttemptsAssumption DEF Init, HostRank, AttemptRank, LabelRank
  <2>3. PICK z \in Nat : z = 29 * Attempts + 29
    BY <2>2
  <2>4. HostRank <= z - 1 /\ 0 \in Nat /\ PollReads \in Nat /\ ReadsLeft \in Nat
          /\ ReadsLeft < PollReads
    BY <2>1, <2>2, <2>3, AttemptsAssumption, PollAssumption DEF RanksOK
  <2>5. HostSteps < PollReads * z + 0
    BY <2>1, <2>4, Descent, Zenon DEF RanksOK, HostSteps
  <2>6. PICK y \in Nat : y = PollReads * z /\ y = PollReads * z + 0
    <3>1. \A b, x \in Nat : b * x \in Nat
      OBVIOUS
    <3>2. PollReads * z \in Nat
      BY <2>3, <2>4, <3>1, Zenon
    <3> QED
      BY <3>2
  <2>7. HostSteps <= y - 1
    BY <2>1, <2>5, <2>6 DEF RanksOK
  <2>8. StepsLeft < Burst * y + 0
    BY <2>1, <2>4, <2>7, Descent, Zenon DEF RanksOK, StepsLeft
  <2>9. Burst * y + 0 = Burst * y
    BY <2>1
  <2> QED
    BY <2>3, <2>6, <2>8, <2>9, Zenon
<1> QED
  BY InitTypeOK, NextTypeOK, <1>1, <1>2, <1>3, <1>4, PTL DEF Spec

-----------------------------------------------------------------------------
(* A device in working order.                                              *)

\* Labels between the release of core 0 and the moment its power changes.
AllPowered == {"purge", "leave_reset", "leave_poll", "leave_check", "unstall",
               "run_check", "wait_done", "clear_done", "park"}

\* The way of the one attempt: what the registers are asked for at each label,
\* and what is left of it to happen.
HealthyPower ==
  /\ pc \in {"prepare", "power_up"} => spaReq = spa /\ cpa = spa
  /\ pc \in {"power_up_poll", "power_up_check"} => spaReq = Cores /\ cpa \subseteq spa
  /\ pc = "power_up_check" => Cores \subseteq cpa
  /\ pc \in AllPowered => spa = Cores /\ spaReq = Cores /\ cpa = Cores

HealthyReset ==
  /\ pc \in {"prepare", "power_up", "power_up_poll", "power_up_check", "purge", "leave_reset"}
       => Core0 \in crst /\ Core0 \in crstReq
  /\ pc \in {"prepare"} \cup BeforeRelease => Core0 \in cstall
  /\ pc \in {"leave_poll", "leave_check", "unstall", "run_check"} => Core0 \notin crstReq
  /\ pc \in {"leave_check", "unstall", "run_check"} => Core0 \notin crst

\* The reply is that of the ROM, and the host does not get ahead of it.  Only
\* the status may be an old one, which the ROM overwrites.
HealthyRom ==
  /\ rom # "failed" /\ (rom \in {"init", "entered"} => romStatus = rom)
  /\ pc \in {"prepare"} \cup BeforeRelease => rom = "off" /\ ~done
  /\ pc \in Released /\ ~done => rom \in {"off", "running"}
  /\ pc \in Released /\ done => rom \notin {"off", "running"}
  /\ pc \in {"clear_done", "park", "park_poll", "int_enable", "wait_init"}
       => rom \notin {"off", "running"}
  /\ pc \notin Loading \cup {"return"} => rom # "entered"
  /\ pc \in {"trigger_start", "await_entered"} => rom \in {"replied", "init", "entered"}

HealthyHost ==
  /\ i = 0 /\ pc \notin Resetting \cup Failed
  /\ pc \in Loading => ret = "ok"
  /\ pc = "await_entered" => sdRunReq
  /\ pc = "return" /\ ret # "ok" =>
       ret = "refused" /\ rom = "off" /\ Core0 \in crst \cap crstReq \cap cstall

HealthyInv == ~Faulty => HealthyPower /\ HealthyReset /\ HealthyRom /\ HealthyHost

\* A step of the host can be taken: it has not returned, and what it polls for
\* has come.
HostMoves ==
  /\ pc # "return"
  /\ pc = "power_up_poll" => Cores \subseteq cpa
  /\ pc = "leave_poll" => Core0 \notin crst
  /\ pc = "wait_done" => done
  /\ pc = "park_poll" => spa \subseteq {Core0}
  /\ pc = "wait_init" => romStatus = "init"
  /\ pc = "enter_poll" => ResetMask \subseteq crst
  /\ pc = "off_poll" => spa = {}
  /\ pc = "await_entered" => romStatus = "entered"
  /\ pc = "stop_poll" => ~sdRun

\* A step can be taken that HealthySpec says the device does not put off for
\* ever: a register settles, a core acknowledges its power, the ROM goes on.
DeviceMoves ==
  \/ spa # spaReq \/ crst # crstReq \/ sdRun # sdRunReq \/ spa \ cpa # {}
  \/ /\ Executing(Core0)
     /\ \/ rom = "off"
        \/ rom = "running" /\ busy /\ Cores \subseteq cpa
        \/ rom = "replied"
        \/ rom = "init" /\ sdRun

NoVainWait == ~Faulty => pc = "return" \/ HostMoves \/ DeviceMoves

\* One attempt, never the error path, and a boot that does not succeed is one
\* that Prepare refused, with core 0 held as it was found.
OneAttempt ==
  ~Faulty =>
    /\ i = 0 /\ pc \notin Resetting \cup Failed
    /\ pc = "return" /\ ret # "ok" =>
         ret = "refused" /\ rom = "off" /\ Core0 \in crst \cap cstall

LEMMA InitHealthyInv == Init /\ FoundReset => HealthyInv
<1> SUFFICES ASSUME Init, FoundReset
             PROVE HealthyPower /\ HealthyReset /\ HealthyRom /\ HealthyHost
  BY DEF HealthyInv
<1>1. pc = "prepare" /\ i = 0 /\ ret = "none"
  BY Zenon DEF Init
<1>2. /\ spaReq = spa /\ cpa = spa /\ crstReq = crst
      /\ Core0 \in crst /\ Core0 \in cstall /\ ~done
  BY Zenon DEF Init, FoundCores, FoundReset
<1>3. rom = "off"
  BY <1>2, Zenon DEF Init, FoundSignals
<1>4. HealthyPower
  BY <1>1, <1>2 DEF HealthyPower, AllPowered
<1>5. HealthyReset
  BY <1>1, <1>2 DEF HealthyReset
<1>6. HealthyRom
  BY <1>1, <1>2, <1>3 DEF HealthyRom
<1>7. HealthyHost
  BY <1>1 DEF HealthyHost
<1> QED
  BY <1>4, <1>5, <1>6, <1>7

LEMMA NextHealthyInv == BInv /\ HealthyInv /\ [Next]_vars => HealthyInv'
<1> SUFFICES ASSUME BInv, HealthyInv, [Next]_vars, ~Faulty
             PROVE (HealthyPower /\ HealthyReset /\ HealthyRom /\ HealthyHost)'
  BY DEF HealthyInv
<1> USE CoreAssumption DEF BInv, IInv, TypeOK, RomStates, StallWindow,
    NothingInFlight, DmaInv, BootInv, Core0Up,
    HealthyInv, HealthyPower, HealthyReset, HealthyRom, HealthyHost, AllPowered,
    Executing, host, adspcs, ipc, romv, dma,
    UpdateAdspcs, UpdateSdCtl, Poll, Check, Step, Reads, PowerMask, RunMask, IsEnabled
<1>1. CASE Prepare
  BY <1>1 DEF Prepare
<1>2. CASE NextAttempt
  BY <1>2 DEF NextAttempt
<1>3. CASE PowerUp
  BY <1>3 DEF PowerUp
<1>4. CASE PowerUpPoll
  BY <1>4 DEF PowerUpPoll
<1>5. CASE PowerUpCheck
  BY <1>5 DEF PowerUpCheck
<1>6. CASE SetSlaveAndPurge
  BY <1>6 DEF SetSlaveAndPurge
<1>7. CASE ResetLeave
  BY <1>7 DEF ResetLeave
<1>8. CASE ResetLeavePoll
  BY <1>8 DEF ResetLeavePoll
<1>9. CASE ResetLeaveCheck
  BY <1>9 DEF ResetLeaveCheck
<1>10. CASE Unstall
  BY <1>10 DEF Unstall
<1>11. CASE RunCheck
  BY <1>11 DEF RunCheck
<1>12. CASE WaitDone \/ ClearDone
  BY <1>12 DEF WaitDone, ClearDone
<1>13. CASE Park
  BY <1>13 DEF Park
<1>14. CASE ParkPoll \/ IpcIntEnable
  BY <1>14 DEF ParkPoll, IpcIntEnable
<1>15. CASE WaitInit
  BY <1>15 DEF WaitInit
\* No label of the error path is ever reached.
<1>16. CASE Error \/ Stall \/ ResetEnter \/ ResetEnterPoll \/ ResetEnterCheck
  BY <1>16 DEF Error, Stall, ResetEnter, ResetEnterPoll, ResetEnterCheck
<1>17. CASE PowerDown \/ PowerDownPoll
  BY <1>17 DEF PowerDown, PowerDownPoll
<1>18. CASE TriggerStart
  BY <1>18 DEF TriggerStart
<1>19. CASE AwaitEntered
  BY <1>19 DEF AwaitEntered
<1>20. CASE TriggerStop
  BY <1>20 DEF TriggerStop
<1>21. CASE StopPoll
  BY <1>21 DEF StopPoll
<1>22. CASE SpaSettles
  BY <1>22 DEF SpaSettles
<1>23. CASE CrstSettles
  BY <1>23 DEF CrstSettles
<1>24. CASE RomStarts
  <2>1. rom = "off" /\ rom' = "running" /\ romStatus' \in {romStatus, "none"}
        /\ Core0 \notin cstall
        /\ UNCHANGED <<pc, i, ret, spa, spaReq, cpa, cstall, crst, crstReq, done, sdRunReq>>
    BY <1>24, Zenon DEF RomStarts
  <2>2. HealthyRom'
    BY <2>1
  <2>3. (HealthyPower /\ HealthyReset)'
    BY <2>1
  <2>4. HealthyHost'
    BY <1>24, <2>1 DEF RomStarts
  <2> QED
    BY <2>2, <2>3, <2>4
<1>25. CASE RomReplies
  BY <1>25 DEF RomReplies
<1>26. CASE RomInits
  BY <1>26 DEF RomInits
<1>27. CASE RomEnters
  BY <1>27 DEF RomEnters
<1>28. CASE RomFails
  BY <1>28 DEF RomFails
<1>29. CASE SdRunSettles \/ DmaCompletes
  BY <1>29 DEF SdRunSettles, DmaCompletes
<1>30. ASSUME NEW c \in Cores, PowerAck(c)
       PROVE (HealthyPower /\ HealthyReset /\ HealthyRom /\ HealthyHost)'
  BY <1>30 DEF PowerAck
<1>31. ASSUME NEW c \in Cores, PowerGone(c)
       PROVE (HealthyPower /\ HealthyReset /\ HealthyRom /\ HealthyHost)'
  BY <1>31 DEF PowerGone
<1>32. CASE UNCHANGED vars
  BY <1>32 DEF vars
<1> QED
  BY [Next]_vars,
     <1>1, <1>2, <1>3, <1>4, <1>5, <1>6, <1>7, <1>8, <1>9, <1>10, <1>11, <1>12, <1>13, <1>14,
     <1>15, <1>16, <1>17, <1>18, <1>19, <1>20, <1>21, <1>22, <1>23, <1>24, <1>25, <1>26,
     <1>27, <1>28, <1>29, <1>30, <1>31, <1>32
  DEF Next, Host, Hardware, Power, Rom

LEMMA Progress == BInv /\ HealthyInv => NoVainWait
<1> SUFFICES ASSUME BInv, HealthyInv, ~Faulty, pc # "return", ~HostMoves PROVE DeviceMoves
  BY DEF NoVainWait
<1> USE CoreAssumption DEF BInv, IInv, TypeOK, BootInv, Core0Up, PurgeBeforeReply, DmaInv,
    NothingInFlight, RomStates,
    HealthyInv, HealthyHost, HealthyPower, HealthyReset, HealthyRom, AllPowered,
    Executing, DeviceMoves
<1>1. CASE pc = "power_up_poll"
  BY <1>1 DEF HostMoves
<1>2. CASE pc = "leave_poll"
  BY <1>2 DEF HostMoves
<1>3. CASE pc = "wait_done"
  BY <1>3 DEF HostMoves
<1>4. CASE pc = "park_poll"
  BY <1>4 DEF HostMoves
<1>5. CASE pc = "wait_init"
  BY <1>5 DEF HostMoves
<1>6. CASE pc = "await_entered"
  <2>1. rom \in {"replied", "init"} /\ Executing(Core0) /\ sdRunReq
    BY <1>6 DEF HostMoves
  <2>2. sdRun \/ sdRun # sdRunReq
    BY <2>1, Zenon
  <2> QED
    BY <2>1, <2>2, Zenon
<1>7. CASE pc = "stop_poll"
  <2>1. sdRun /\ ~sdRunReq
    BY <1>7 DEF HostMoves
  <2>2. sdRun # sdRunReq
    BY <2>1, Zenon
  <2> QED
    BY <2>2, Zenon
<1> QED
  BY <1>1, <1>2, <1>3, <1>4, <1>5, <1>6, <1>7 DEF HostMoves

\* On a device in working order that is found reset no poll of the host waits
\* for something the device will not do.  With BootEnds this is why the boot
\* comes to its end: the steps are bounded, and before "return" one that
\* fairness promises can always be taken.
THEOREM NoWaitInVain == Spec /\ FoundReset => []NoVainWait
  BY InitBInv, NextBInv, InitHealthyInv, NextHealthyInv, Progress, PTL DEF Spec

\* On such a device the first attempt succeeds: the retry loop, the err label
\* and the reset behind it are there for hardware that fails, or is found with
\* a reply that was not cleared.
THEOREM FirstAttemptSucceeds == Spec /\ FoundReset => []OneAttempt
<1>1. HealthyInv => OneAttempt
  BY DEF HealthyInv, HealthyHost, OneAttempt
<1> QED
  BY InitBInv, NextBInv, InitHealthyInv, NextHealthyInv, <1>1, PTL DEF Spec
=============================================================================
