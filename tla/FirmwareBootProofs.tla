------------------------- MODULE FirmwareBootProofs -------------------------
(* Theorems about FirmwareBoot for every set of cores, number of attempts  *)
(* and kind of hardware, checked by TLAPS.                                 *)
EXTENDS FirmwareBoot, TLAPS

USE DEF Labels, Trying, Loading, BeforeRelease, Released, Resetting, Failed

-----------------------------------------------------------------------------
(* Types.                                                                  *)

LEMMA InitTypeOK == Init => TypeOK
<1> SUFFICES ASSUME Init PROVE TypeOK
  OBVIOUS
<1>1. FlagsOK
  BY Zenon DEF Init, FoundSignals, FoundStream, FlagsOK
<1>2. i \in 0..Attempts /\ i < Attempts /\ reads \in 0..PollReads - 1
  BY AttemptsAssumption, PollAssumption DEF Init
<1>3. /\ spa \subseteq Cores /\ spaReq \subseteq Cores /\ cpa \subseteq Cores
      /\ cstall \subseteq Cores /\ crst \subseteq Cores /\ crstReq \subseteq Cores
  BY DEF Init, FoundCores
<1>4. rom \in RomStates /\ romStatus \in Statuses
  BY Zenon DEF Init, FoundSignals
<1> QED
  BY <1>1, <1>2, <1>3, <1>4 DEF Init, TypeOK

LEMMA NextFlagsOK == FlagsOK /\ [Next]_vars => FlagsOK'
<1> SUFFICES ASSUME FlagsOK, [Next]_vars PROVE FlagsOK'
  OBVIOUS
<1> USE DEF FlagsOK, Reads, host, adspcs, ipc, romv, dma
<1>0. CASE Prepare  BY <1>0, Zenon DEF Prepare
<1>1. CASE SetSlaveAndPurge  BY <1>1, Zenon DEF SetSlaveAndPurge
<1>2. CASE IpcIntEnable  BY <1>2, Zenon DEF IpcIntEnable
<1>3. CASE TriggerStart  BY <1>3, Zenon DEF TriggerStart, UpdateSdCtl
<1>4. CASE TriggerStop  BY <1>4, Zenon DEF TriggerStop, UpdateSdCtl
<1>5. CASE StopPoll  BY <1>5, Zenon DEF StopPoll
<1>6. CASE RomReplies  BY <1>6, Zenon DEF RomReplies
<1>7. CASE SdRunSettles  BY <1>7, Zenon DEF SdRunSettles
<1>8. CASE DmaCompletes  BY <1>8, Zenon DEF DmaCompletes
\* No other step touches a flag.
<1>9. CASE UNCHANGED <<running, ipc, dma>>
  BY <1>9
<1>10. CASE Host
  BY <1>0, <1>1, <1>2, <1>3, <1>4, <1>5, <1>9, <1>10, Zenon
  DEF Host, NextAttempt, PowerUp, PowerUpPoll, PowerUpCheck, ResetLeave,
      ResetLeavePoll, ResetLeaveCheck, Unstall, RunCheck, WaitDone, ClearDone, Park,
      ParkPoll, WaitInit, Error, Stall, ResetEnter, ResetEnterPoll, ResetEnterCheck,
      PowerDown, PowerDownPoll, AwaitEntered
<1>11. CASE Hardware
  BY <1>6, <1>7, <1>8, <1>9, <1>11, Zenon
  DEF Hardware, SpaSettles, CrstSettles, Power, PowerAck, PowerGone, Rom, RomStarts,
      RomInits, RomEnters, RomFails
<1>12. CASE UNCHANGED vars
  BY <1>12 DEF vars
<1> QED
  BY <1>10, <1>11, <1>12 DEF Next

LEMMA NextTypeOK == TypeOK /\ [Next]_vars => TypeOK'
<1> SUFFICES ASSUME TypeOK, [Next]_vars PROVE TypeOK'
  OBVIOUS
<1>0. FlagsOK'
  BY NextFlagsOK DEF TypeOK
<1> USE <1>0, CoreAssumption, AttemptsAssumption, PollAssumption
  DEF TypeOK, RomStates, Statuses, host, adspcs, ipc, romv, dma,
    UpdateAdspcs, Poll, Check, Step, Reads, PowerMask, RunMask,
    ResetMask, StallResetReturns, AfterAttempt, IsEnabled
<1>1. CASE Prepare
  BY <1>1 DEF Prepare
<1>2. CASE NextAttempt
  BY <1>2 DEF NextAttempt
<1>3. CASE PowerUp
  BY <1>3 DEF PowerUp
<1>4. CASE PowerUpPoll
  BY <1>4 DEF PowerUpPoll
<1>5. CASE PowerUpCheck
  BY <1>5 DEF PowerUpCheck
<1>6. CASE SetSlaveAndPurge
  BY <1>6 DEF SetSlaveAndPurge
<1>7. CASE ResetLeave
  BY <1>7 DEF ResetLeave
<1>8. CASE ResetLeavePoll
  BY <1>8 DEF ResetLeavePoll
<1>9. CASE ResetLeaveCheck
  BY <1>9 DEF ResetLeaveCheck
<1>10. CASE Unstall
  BY <1>10 DEF Unstall
<1>11. CASE RunCheck
  BY <1>11 DEF RunCheck
<1>12. CASE WaitDone
  BY <1>12 DEF WaitDone
<1>13. CASE ClearDone
  BY <1>13 DEF ClearDone
<1>14. CASE Park
  BY <1>14 DEF Park
<1>15. CASE ParkPoll
  BY <1>15 DEF ParkPoll
<1>16. CASE IpcIntEnable
  BY <1>16 DEF IpcIntEnable
<1>17. CASE WaitInit
  BY <1>17 DEF WaitInit
<1>18. CASE Error
  BY <1>18 DEF Error
<1>19. CASE Stall
  BY <1>19 DEF Stall
<1>20. CASE ResetEnter
  BY <1>20 DEF ResetEnter
<1>21. CASE ResetEnterPoll
  BY <1>21 DEF ResetEnterPoll
<1>22. CASE ResetEnterCheck
  BY <1>22 DEF ResetEnterCheck
<1>23. CASE PowerDown
  BY <1>23 DEF PowerDown
<1>24. CASE PowerDownPoll
  BY <1>24 DEF PowerDownPoll
<1>25. CASE TriggerStart
  BY <1>25 DEF TriggerStart
<1>26. CASE AwaitEntered
  BY <1>26 DEF AwaitEntered
<1>27. CASE TriggerStop
  BY <1>27 DEF TriggerStop
<1>28. CASE StopPoll
  BY <1>28 DEF StopPoll
<1>29. CASE SpaSettles
  BY <1>29 DEF SpaSettles
<1>30. CASE CrstSettles
  BY <1>30 DEF CrstSettles
<1>31. CASE RomStarts
  BY <1>31 DEF RomStarts
<1>32. CASE RomReplies
  BY <1>32 DEF RomReplies
<1>33. CASE RomInits
  BY <1>33 DEF RomInits
<1>34. CASE RomEnters
  BY <1>34 DEF RomEnters
<1>35. CASE RomFails
  BY <1>35 DEF RomFails
<1>36. CASE SdRunSettles
  BY <1>36 DEF SdRunSettles
<1>37. CASE DmaCompletes
  BY <1>37 DEF DmaCompletes
<1>38. ASSUME NEW c \in Cores, PowerAck(c) PROVE TypeOK'
  BY <1>38 DEF PowerAck
<1>39. ASSUME NEW c \in Cores, PowerGone(c) PROVE TypeOK'
  BY <1>39 DEF PowerGone
<1>40. CASE UNCHANGED vars
  BY <1>40 DEF vars
<1> QED
  BY [Next]_vars,
     <1>1, <1>2, <1>3, <1>4, <1>5, <1>6, <1>7, <1>8, <1>9, <1>10, <1>11, <1>12, <1>13,
     <1>14, <1>15, <1>16, <1>17, <1>18, <1>19, <1>20, <1>21, <1>22, <1>23, <1>24, <1>25,
     <1>26, <1>27, <1>28, <1>29, <1>30, <1>31, <1>32, <1>33, <1>34, <1>35, <1>36, <1>37,
     <1>38, <1>39, <1>40
  DEF Next, Host, Hardware, Power, Rom

\* The program counter, the loop counter and every register stay in range;
\* in particular no attempt is ever begun past HDA_FW_BOOT_ATTEMPTS.
THEOREM TypeCorrect == Spec => []TypeOK
  BY InitTypeOK, NextTypeOK, PTL DEF Spec

-----------------------------------------------------------------------------
(* What holds core 0 (and the others) down between attempts.               *)

\* Outside the window from the unstall to the next stall all cores are stalled,
\* up to the first unstall only if core 0 was found so.
StallWindow ==
  pc \in {"enter_reset", "enter_poll", "enter_check"} \cup Failed
    \/ (i > 0 /\ pc \in {"prepare"} \cup BeforeRelease)
    => cstall = Cores

\* A core 0 that was found running stays up while the first attempt powers up
\* the others, and no power is in flight when they all have it.
FoundRunning ==
  i = 0 /\ pc \in {"prepare"} \cup BeforeRelease /\ Core0 \notin cstall =>
    /\ Executing(Core0) /\ Core0 \in spa /\ cpa \subseteq spa
    /\ pc \in {"prepare", "power_up"} => spaReq = spa
    /\ pc \in BeforeRelease \ {"power_up"} => spaReq = Cores
    /\ pc \in BeforeRelease \ {"power_up", "power_up_poll", "power_up_check"} => spa = Cores

\* While core 0 is unstalled no write to its reset or power bit is still in
\* flight: the unstall wrote back what it had read of both.
NothingInFlight ==
  Core0 \notin cstall => ssp /\ crst = crstReq /\ (Core0 \in spa <=> Core0 \in spaReq)

\* The purge request stays pending until core 0 is let go,
PurgePending ==
  pc \in {"leave_reset", "leave_poll", "leave_check", "unstall"} =>
    ssp /\ (Core0 \in cstall => busy)

\* and until the ROM of a core 0 that was let go has taken it.
PurgeBeforeReply ==
  Core0 \notin cstall \cup crst /\ Core0 \in spa \cup cpa /\ rom \in {"off", "running"}
    => busy

IInv ==
  TypeOK /\ SecondaryCoresHeld /\ StallWindow /\ FoundRunning /\ NothingInFlight
  /\ PurgePending /\ PurgeBeforeReply

LEMMA InitIInv == Init => IInv
<1> SUFFICES ASSUME Init PROVE IInv
  OBVIOUS
<1>1. pc = "prepare" /\ i = 0 /\ FoundCores /\ FoundSignals
  BY Zenon DEF Init
<1>2. SecondaryCoresHeld /\ StallWindow /\ FoundRunning /\ PurgePending
  BY <1>1, CoreAssumption
  DEF FoundCores, SecondaryCoresHeld, StallWindow, FoundRunning, PurgePending, Executing
<1>3. Core0 \notin cstall => ssp /\ (rom \in {"off", "running"} => busy)
  BY <1>1, Zenon DEF FoundSignals
<1>4. NothingInFlight
  <2>1. crst = crstReq /\ spa = spaReq
    BY <1>1, Zenon DEF FoundCores
  <2> QED
    BY <1>3, <2>1, Zenon DEF NothingInFlight
<1>5. PurgeBeforeReply
  BY <1>3, Zenon DEF PurgeBeforeReply
<1> QED
  BY <1>2, <1>4, <1>5, InitTypeOK DEF IInv

LEMMA NextIInv == IInv /\ [Next]_vars => IInv'
<1> SUFFICES ASSUME IInv, [Next]_vars
             PROVE (SecondaryCoresHeld /\ StallWindow /\ FoundRunning /\ NothingInFlight
                    /\ PurgePending /\ PurgeBeforeReply)'
  BY NextTypeOK DEF IInv
<1> USE CoreAssumption
  DEF IInv, TypeOK, SecondaryCoresHeld, StallWindow, FoundRunning, NothingInFlight, PurgePending,
    PurgeBeforeReply, Executing, host, adspcs, ipc, romv, dma,
    UpdateAdspcs, Poll, Check, Step, Reads, PowerMask, RunMask,
    ResetMask, StallResetReturns, AfterAttempt, IsEnabled
<1>1. CASE Prepare
  <2>1. SecondaryCoresHeld'
    BY <1>1 DEF Prepare
  <2>2. StallWindow'
    BY <1>1 DEF Prepare
  <2>3. FoundRunning'
    BY <1>1 DEF Prepare
  <2>4. NothingInFlight'
    BY <1>1 DEF Prepare
  <2>5. PurgePending'
    BY <1>1 DEF Prepare
  <2>6. PurgeBeforeReply'
    BY <1>1 DEF Prepare
  <2> QED
    BY <2>1, <2>2, <2>3, <2>4, <2>5, <2>6, Zenon
<1>2. CASE NextAttempt
  BY <1>2 DEF NextAttempt
<1>3. CASE PowerUp
  <2>1. SecondaryCoresHeld'
    BY <1>3 DEF PowerUp
  <2>2. StallWindow'
    BY <1>3 DEF PowerUp
  <2>3. FoundRunning'
    BY <1>3 DEF PowerUp
  <2>4. NothingInFlight'
    BY <1>3 DEF PowerUp
  <2>5. PurgePending'
    BY <1>3 DEF PowerUp
  <2>6. PurgeBeforeReply'
    BY <1>3 DEF PowerUp
  <2> QED
    BY <2>1, <2>2, <2>3, <2>4, <2>5, <2>6, Zenon
<1>4. CASE PowerUpPoll
  BY <1>4 DEF PowerUpPoll
<1>5. CASE PowerUpCheck
  BY <1>5 DEF PowerUpCheck
<1>6. CASE SetSlaveAndPurge
  BY <1>6 DEF SetSlaveAndPurge
<1>7. CASE ResetLeave
  BY <1>7 DEF ResetLeave
<1>8. CASE ResetLeavePoll
  BY <1>8 DEF ResetLeavePoll
<1>9. CASE ResetLeaveCheck
  BY <1>9 DEF ResetLeaveCheck
<1>10. CASE Unstall
  BY <1>10 DEF Unstall
<1>11. CASE RunCheck
  BY <1>11 DEF RunCheck
<1>12. CASE WaitDone
  BY <1>12 DEF WaitDone
<1>13. CASE ClearDone
  BY <1>13 DEF ClearDone
<1>14. CASE Park
  BY <1>14 DEF Park
<1>15. CASE ParkPoll
  BY <1>15 DEF ParkPoll
<1>16. CASE IpcIntEnable
  BY <1>16 DEF IpcIntEnable
<1>17. CASE WaitInit
  BY <1>17 DEF WaitInit
<1>18. CASE Error
  BY <1>18 DEF Error
<1>19. CASE Stall
  <2>1. SecondaryCoresHeld'
    BY <1>19 DEF Stall
  <2>2. StallWindow'
    BY <1>19 DEF Stall
  <2>3. FoundRunning'
    BY <1>19 DEF Stall
  <2>4. NothingInFlight'
    BY <1>19 DEF Stall
  <2>5. PurgePending'
    BY <1>19 DEF Stall
  <2>6. PurgeBeforeReply'
    BY <1>19 DEF Stall
  <2> QED
    BY <2>1, <2>2, <2>3, <2>4, <2>5, <2>6, Zenon
<1>20. CASE ResetEnter
  BY <1>20 DEF ResetEnter
<1>21. CASE ResetEnterPoll
  BY <1>21 DEF ResetEnterPoll
<1>22. CASE ResetEnterCheck
  BY <1>22 DEF ResetEnterCheck
<1>23. CASE PowerDown
  BY <1>23 DEF PowerDown
<1>24. CASE PowerDownPoll
  BY <1>24 DEF PowerDownPoll
<1>25. CASE TriggerStart
  BY <1>25 DEF TriggerStart
<1>26. CASE AwaitEntered
  BY <1>26 DEF AwaitEntered
<1>27. CASE TriggerStop
  BY <1>27 DEF TriggerStop
<1>28. CASE StopPoll
  BY <1>28 DEF StopPoll
<1>29. CASE SpaSettles
  BY <1>29 DEF SpaSettles
<1>30. CASE CrstSettles
  BY <1>30 DEF CrstSettles
<1>31. CASE RomStarts
  BY <1>31 DEF RomStarts
<1>32. CASE RomReplies
  <2>1. SecondaryCoresHeld'
    BY <1>32 DEF RomReplies
  <2>2. StallWindow'
    BY <1>32 DEF RomReplies
  <2>3. FoundRunning'
    BY <1>32 DEF RomReplies
  <2>4. NothingInFlight'
    BY <1>32 DEF RomReplies
  <2>5. PurgePending'
    BY <1>32 DEF RomReplies
  <2>6. PurgeBeforeReply'
    BY <1>32 DEF RomReplies
  <2> QED
    BY <2>1, <2>2, <2>3, <2>4, <2>5, <2>6, Zenon
<1>33. CASE RomInits
  BY <1>33 DEF RomInits
<1>34. CASE RomEnters
  BY <1>34 DEF RomEnters
<1>35. CASE RomFails
  BY <1>35 DEF RomFails
<1>36. CASE SdRunSettles
  BY <1>36 DEF SdRunSettles
<1>37. CASE DmaCompletes
  BY <1>37 DEF DmaCompletes
<1>38. ASSUME NEW c \in Cores, PowerAck(c)
       PROVE  (SecondaryCoresHeld /\ StallWindow /\ FoundRunning /\ NothingInFlight
               /\ PurgePending /\ PurgeBeforeReply)'
  BY <1>38 DEF PowerAck
<1>39. ASSUME NEW c \in Cores, PowerGone(c)
       PROVE  (SecondaryCoresHeld /\ StallWindow /\ FoundRunning /\ NothingInFlight
               /\ PurgePending /\ PurgeBeforeReply)'
  BY <1>39 DEF PowerGone
<1>40. CASE UNCHANGED vars
  BY <1>40 DEF vars
<1> QED
  BY [Next]_vars,
     <1>1, <1>2, <1>3, <1>4, <1>5, <1>6, <1>7, <1>8, <1>9, <1>10, <1>11, <1>12, <1>13,
     <1>14, <1>15, <1>16, <1>17, <1>18, <1>19, <1>20, <1>21, <1>22, <1>23, <1>24, <1>25,
     <1>26, <1>27, <1>28, <1>29, <1>30, <1>31, <1>32, <1>33, <1>34, <1>35, <1>36, <1>37,
     <1>38, <1>39, <1>40
  DEF Next, Host, Hardware, Power, Rom

\* Only core 0 ever leaves reset or the stall, for any number of cores.
THEOREM SecondaryHeld == Spec => []SecondaryCoresHeld
<1>1. IInv => SecondaryCoresHeld
  BY DEF IInv
<1> QED
  BY InitIInv, NextIInv, <1>1, PTL DEF Spec

\* Core 0 finds slave SSPs and a pending purge request in every attempt, also
\* after resets and power-downs that were still under way when it began.
THEOREM Core0Prepared == Spec => []Core0StartsPrepared
<1>1. IInv => Core0StartsPrepared
  BY DEF IInv, NothingInFlight, PurgeBeforeReply, Core0StartsPrepared, Executing
<1> QED
  BY InitIInv, NextIInv, <1>1, PTL DEF Spec

\* Nothing runs between the failure of an attempt and the next unstall, however
\* the device was found.
THEOREM StalledBetween == Spec => []NoCoreRunsBetweenAttempts
<1>1. IInv => NoCoreRunsBetweenAttempts
  BY DEF IInv, StallWindow, NoCoreRunsBetweenAttempts
<1> QED
  BY InitIInv, NextIInv, <1>1, PTL DEF Spec

\* No write of the host takes the power request of a core that could run: a
\* read-modify-write cannot drop a bit that has not settled, because an
\* unstalled core has none that is in flight.
THEOREM PowerDownStalled == Spec => PowerDownOnlyStalled
<1>1. IInv /\ [Next]_vars =>
        [\A c \in Cores : c \in spaReq /\ c \notin spaReq' => c \in cstall]_vars
  <2> SUFFICES ASSUME IInv, [Next]_vars, NEW c \in Cores, c \in spaReq, c \notin spaReq'
               PROVE c \in cstall
    OBVIOUS
  <2> USE CoreAssumption
    DEF IInv, TypeOK, SecondaryCoresHeld, StallWindow, FoundRunning, NothingInFlight, host, adspcs, ipc,
      romv, dma, UpdateAdspcs, Step, PowerMask, RunMask
  <2>1. CASE PowerUp  BY <2>1 DEF PowerUp
  <2>2. CASE ResetLeave  BY <2>2 DEF ResetLeave
  <2>3. CASE Unstall  BY <2>3 DEF Unstall
  <2>4. CASE Park  BY <2>4 DEF Park
  <2>5. CASE Stall  BY <2>5 DEF Stall
  <2>6. CASE ResetEnter  BY <2>6 DEF ResetEnter
  <2>7. CASE PowerDown  BY <2>7 DEF PowerDown
  \* No other step writes ADSPCS.
  <2>8. CASE UNCHANGED spaReq  BY <2>8
  <2>9. CASE Host
    BY <2>1, <2>2, <2>3, <2>4, <2>5, <2>6, <2>7, <2>8, <2>9, Zenon
    DEF Host, Prepare, NextAttempt, PowerUpPoll, PowerUpCheck, SetSlaveAndPurge,
        ResetLeavePoll, ResetLeaveCheck, RunCheck, WaitDone, ClearDone, ParkPoll,
        IpcIntEnable, WaitInit, Error, ResetEnterPoll, ResetEnterCheck, PowerDownPoll,
        TriggerStart, AwaitEntered, TriggerStop, StopPoll, Reads
  <2>10. CASE Hardware
    BY <2>8, <2>10, Zenon
    DEF Hardware, SpaSettles, CrstSettles, Power, PowerAck, PowerGone, Rom, RomStarts,
        RomReplies, RomInits, RomEnters, RomFails, SdRunSettles, DmaCompletes
  <2>11. CASE UNCHANGED vars  BY <2>11 DEF vars
  <2> QED
    BY <2>9, <2>10, <2>11 DEF Next
<1> QED
  BY InitIInv, NextIInv, <1>1, PTL DEF Spec, PowerDownOnlyStalled

-----------------------------------------------------------------------------
(* What the boot leaves behind.                                            *)

\* The DMA is quiet whenever the host thinks so, and the host thinks so
\* except from the start to the successful stop.
DmaInv ==
  /\ pc # "prepare" /\ ret # "refused" /\ ~running => ~sdRun /\ ~sdRunReq /\ ~sdSts
  /\ pc = "return" /\ ret # "refused" /\ ~running /\ i < Attempts => ~intctl
  /\ pc = "stop_poll" => ~sdRunReq
  /\ pc \notin Loading \cup {"return"} => ~running
  /\ pc # "return" => ret # "refused"

\* Labels at which core 0 has been seen enabled and not been stalled since.
Core0Up == (Released \ {"run_check"}) \cup Loading

Booted == pc = "return" /\ ret = "ok"

\* Core 0 stays up from the check of hda_dsp_core_run() to the end of the
\* download, and beyond it if the DMA did not stop or the firmware is entered;
\* its power, once the other cores are parked, is the only one requested; and
\* in the download the status ENTERED is no longer an old one.
BootInv ==
  /\ pc \in Core0Up \/ running \/ Booted => Executing(Core0) /\ Core0 \in spa
  /\ pc \in {"run_check", "wait_done", "clear_done", "park"} => spa = spaReq
  /\ pc \in {"run_check"} \cup Core0Up => Core0 \notin cstall
  /\ pc = "park_poll" => spaReq = {Core0}
  /\ pc \in {"int_enable", "wait_init"} \cup Loading \/ running \/ Booted =>
       spa = {Core0} /\ spaReq = {Core0}
  /\ (pc \in Loading \/ Booted) /\ romStatus = "entered" => rom = "entered"
  /\ ret = "ok" /\ pc \in {"trigger_stop", "stop_poll", "return"} => romStatus = "entered"
  /\ ret = "ok" /\ pc = "return" => ~running
  /\ pc \in {"trigger_stop", "stop_poll"} => ret \in {"ok", "error"}

BInv == IInv /\ DmaInv /\ BootInv

LEMMA InitBInv == Init => BInv
<1> SUFFICES ASSUME Init PROVE DmaInv /\ BootInv
  BY InitIInv DEF BInv
<1>1. ~running /\ pc = "prepare" /\ ret = "none"
  BY Zenon DEF Init
<1> QED
  BY <1>1 DEF DmaInv, BootInv, Booted, Core0Up

LEMMA NextDmaInv == TypeOK /\ DmaInv /\ [Next]_vars => DmaInv'
<1> SUFFICES ASSUME TypeOK, DmaInv, [Next]_vars PROVE DmaInv'
  OBVIOUS
<1> USE AttemptsAssumption DEF TypeOK, FlagsOK, DmaInv, host, adspcs, ipc, romv, dma, UpdateSdCtl, Poll, Check, Step, Reads,
    StallResetReturns, AfterAttempt
<1>1. CASE Prepare
  BY <1>1 DEF Prepare
<1>2. CASE NextAttempt
  BY <1>2 DEF NextAttempt
<1>3. CASE PowerUp
  BY <1>3 DEF PowerUp
<1>4. CASE PowerUpPoll
  BY <1>4 DEF PowerUpPoll
<1>5. CASE PowerUpCheck
  BY <1>5 DEF PowerUpCheck
<1>6. CASE SetSlaveAndPurge
  BY <1>6 DEF SetSlaveAndPurge
<1>7. CASE ResetLeave
  BY <1>7 DEF ResetLeave
<1>8. CASE ResetLeavePoll
  BY <1>8 DEF ResetLeavePoll
<1>9. CASE ResetLeaveCheck
  BY <1>9 DEF ResetLeaveCheck
<1>10. CASE Unstall
  BY <1>10 DEF Unstall
<1>11. CASE RunCheck
  BY <1>11 DEF RunCheck
<1>12. CASE WaitDone
  BY <1>12 DEF WaitDone
<1>13. CASE ClearDone
  BY <1>13 DEF ClearDone
<1>14. CASE Park
  BY <1>14 DEF Park
<1>15. CASE ParkPoll
  BY <1>15 DEF ParkPoll
<1>16. CASE IpcIntEnable
  BY <1>16 DEF IpcIntEnable
<1>17. CASE WaitInit
  BY <1>17 DEF WaitInit
<1>18. CASE Error
  BY <1>18 DEF Error
<1>19. CASE Stall
  BY <1>19 DEF Stall
<1>20. CASE ResetEnter
  BY <1>20 DEF ResetEnter
<1>21. CASE ResetEnterPoll
  BY <1>21 DEF ResetEnterPoll
<1>22. CASE ResetEnterCheck
  BY <1>22 DEF ResetEnterCheck
<1>23. CASE PowerDown
  BY <1>23 DEF PowerDown
<1>24. CASE PowerDownPoll
  BY <1>24 DEF PowerDownPoll
<1>25. CASE TriggerStart
  BY <1>25 DEF TriggerStart
<1>26. CASE AwaitEntered
  BY <1>26 DEF AwaitEntered
<1>27. CASE TriggerStop
  BY <1>27 DEF TriggerStop
<1>28. CASE StopPoll
  BY <1>28 DEF StopPoll
<1>29. CASE SpaSettles
  BY <1>29 DEF SpaSettles
<1>30. CASE CrstSettles
  BY <1>30 DEF CrstSettles
<1>31. CASE RomStarts
  BY <1>31 DEF RomStarts
<1>32. CASE RomReplies
  BY <1>32 DEF RomReplies
<1>33. CASE RomInits
  BY <1>33 DEF RomInits
<1>34. CASE RomEnters
  BY <1>34 DEF RomEnters
<1>35. CASE RomFails
  BY <1>35 DEF RomFails
<1>36. CASE SdRunSettles
  BY <1>36 DEF SdRunSettles
<1>37. CASE DmaCompletes
  BY <1>37 DEF DmaCompletes
<1>38. ASSUME NEW c \in Cores, PowerAck(c) PROVE DmaInv'
  BY <1>38 DEF PowerAck
<1>39. ASSUME NEW c \in Cores, PowerGone(c) PROVE DmaInv'
  BY <1>39 DEF PowerGone
<1>40. CASE UNCHANGED vars
  BY <1>40 DEF vars
<1> QED
  BY [Next]_vars,
     <1>1, <1>2, <1>3, <1>4, <1>5, <1>6, <1>7, <1>8, <1>9, <1>10, <1>11, <1>12, <1>13,
     <1>14, <1>15, <1>16, <1>17, <1>18, <1>19, <1>20, <1>21, <1>22, <1>23, <1>24, <1>25,
     <1>26, <1>27, <1>28, <1>29, <1>30, <1>31, <1>32, <1>33, <1>34, <1>35, <1>36, <1>37,
     <1>38, <1>39, <1>40
  DEF Next, Host, Hardware, Power, Rom

LEMMA NextBootInv == BInv /\ [Next]_vars => BootInv'
<1> SUFFICES ASSUME BInv, [Next]_vars PROVE BootInv'
  OBVIOUS
<1> USE CoreAssumption DEF BInv, IInv, TypeOK, SecondaryCoresHeld, StallWindow, FoundRunning,
    NothingInFlight, DmaInv, BootInv, Booted, Core0Up, Executing, host, adspcs, ipc, romv, dma,
    UpdateAdspcs, UpdateSdCtl, Poll, Check, Step, Reads, PowerMask, RunMask, ResetMask,
    StallResetReturns, AfterAttempt, IsEnabled
<1>1. CASE Prepare
  BY <1>1 DEF Prepare
<1>2. CASE NextAttempt
  BY <1>2 DEF NextAttempt
<1>3. CASE PowerUp
  BY <1>3 DEF PowerUp
<1>4. CASE PowerUpPoll
  BY <1>4 DEF PowerUpPoll
<1>5. CASE PowerUpCheck
  BY <1>5 DEF PowerUpCheck
<1>6. CASE SetSlaveAndPurge
  BY <1>6 DEF SetSlaveAndPurge
<1>7. CASE ResetLeave
  BY <1>7 DEF ResetLeave
<1>8. CASE ResetLeavePoll
  BY <1>8 DEF ResetLeavePoll
<1>9. CASE ResetLeaveCheck
  BY <1>9 DEF ResetLeaveCheck
<1>10. CASE Unstall
  BY <1>10 DEF Unstall
<1>11. CASE RunCheck
  BY <1>11 DEF RunCheck
<1>12. CASE WaitDone
  BY <1>12 DEF WaitDone
<1>13. CASE ClearDone
  BY <1>13 DEF ClearDone
<1>14. CASE Park
  BY <1>14 DEF Park
<1>15. CASE ParkPoll
  BY <1>15 DEF ParkPoll
<1>16. CASE IpcIntEnable
  BY <1>16 DEF IpcIntEnable
<1>17. CASE WaitInit
  BY <1>17 DEF WaitInit
<1>18. CASE Error
  BY <1>18 DEF Error
<1>19. CASE Stall
  BY <1>19 DEF Stall
<1>20. CASE ResetEnter
  BY <1>20 DEF ResetEnter
<1>21. CASE ResetEnterPoll
  BY <1>21 DEF ResetEnterPoll
<1>22. CASE ResetEnterCheck
  BY <1>22 DEF ResetEnterCheck
<1>23. CASE PowerDown
  BY <1>23 DEF PowerDown
<1>24. CASE PowerDownPoll
  BY <1>24 DEF PowerDownPoll
<1>25. CASE TriggerStart
  BY <1>25 DEF TriggerStart
<1>26. CASE AwaitEntered
  BY <1>26 DEF AwaitEntered
<1>27. CASE TriggerStop
  BY <1>27 DEF TriggerStop
<1>28. CASE StopPoll
  BY <1>28 DEF StopPoll
<1>29. CASE SpaSettles
  BY <1>29 DEF SpaSettles
<1>30. CASE CrstSettles
  BY <1>30 DEF CrstSettles
<1>31. CASE RomStarts
  BY <1>31 DEF RomStarts
<1>32. CASE RomReplies
  BY <1>32 DEF RomReplies
<1>33. CASE RomInits
  BY <1>33 DEF RomInits
<1>34. CASE RomEnters
  BY <1>34 DEF RomEnters
<1>35. CASE RomFails
  BY <1>35 DEF RomFails
<1>36. CASE SdRunSettles
  BY <1>36 DEF SdRunSettles
<1>37. CASE DmaCompletes
  BY <1>37 DEF DmaCompletes
<1>38. ASSUME NEW c \in Cores, PowerAck(c) PROVE BootInv'
  BY <1>38 DEF PowerAck
<1>39. ASSUME NEW c \in Cores, PowerGone(c) PROVE BootInv'
  BY <1>39 DEF PowerGone
<1>40. CASE UNCHANGED vars
  BY <1>40 DEF vars
<1> QED
  BY [Next]_vars,
     <1>1, <1>2, <1>3, <1>4, <1>5, <1>6, <1>7, <1>8, <1>9, <1>10, <1>11, <1>12, <1>13,
     <1>14, <1>15, <1>16, <1>17, <1>18, <1>19, <1>20, <1>21, <1>22, <1>23, <1>24, <1>25,
     <1>26, <1>27, <1>28, <1>29, <1>30, <1>31, <1>32, <1>33, <1>34, <1>35, <1>36, <1>37,
     <1>38, <1>39, <1>40
  DEF Next, Host, Hardware, Power, Rom

LEMMA NextBInv == BInv /\ [Next]_vars => BInv'
  BY NextIInv, NextDmaInv, NextBootInv DEF BInv, IInv

\* A stream the host holds stopped is stopped when the boot returns.
THEOREM DmaLeftQuiet == Spec => []DmaQuiet
<1>1. BInv => DmaQuiet
  BY DEF BInv, DmaInv, DmaQuiet
<1> QED
  BY InitBInv, NextBInv, <1>1, PTL DEF Spec

\* Success means the firmware is running, on core 0, powered alone.
THEOREM BootedEntered == Spec => []BootedMeansEntered
<1>1. BInv => BootedMeansEntered
  BY DEF BInv, BootInv, Booted, BootedMeansEntered
<1> QED
  BY InitBInv, NextBInv, <1>1, PTL DEF Spec

-----------------------------------------------------------------------------
(* The signals an attempt waits for.                                       *)

\* A core 0 whose power went while it was let go, which RunCheck will see.
Dropped == pc = "run_check" /\ Core0 \notin spa

\* What did not show when core 0 was let go and does now is of the ROM that
\* runs on it.
SignalInv ==
  /\ pc \in Released \cup {"trigger_start"} =>
       /\ done /\ "done" \notin stale => rom \notin {"off", "running"} \/ Dropped
       /\ romStatus = "init" /\ "init" \notin stale => rom = "init" \/ Dropped
  /\ pc = "clear_done" => done
  /\ pc = "trigger_start" => ~running /\ ("init" \notin stale => rom \in {"init", "failed"})

LEMMA InitSignalInv == Init => SignalInv
  BY Zenon DEF Init, SignalInv

LEMMA NextSignalInv == BInv /\ SignalInv /\ [Next]_vars => SignalInv'
<1> SUFFICES ASSUME BInv, SignalInv, [Next]_vars PROVE SignalInv'
  OBVIOUS
<1> USE CoreAssumption DEF BInv, IInv, TypeOK, StallWindow, FoundRunning,
    NothingInFlight, DmaInv, BootInv, Booted, Core0Up, SignalInv, Dropped,
    Executing, host, adspcs, ipc, romv, dma,
    UpdateAdspcs, UpdateSdCtl, Poll, Check, Step, Reads, PowerMask, RunMask, ResetMask,
    StallResetReturns, AfterAttempt, IsEnabled
<1>1. CASE Prepare
  BY <1>1 DEF Prepare
<1>2. CASE NextAttempt
  BY <1>2 DEF NextAttempt
<1>3. CASE PowerUp
  BY <1>3 DEF PowerUp
<1>4. CASE PowerUpPoll
  BY <1>4 DEF PowerUpPoll
<1>5. CASE PowerUpCheck
  BY <1>5 DEF PowerUpCheck
<1>6. CASE SetSlaveAndPurge
  BY <1>6 DEF SetSlaveAndPurge
<1>7. CASE ResetLeave
  BY <1>7 DEF ResetLeave
<1>8. CASE ResetLeavePoll
  BY <1>8 DEF ResetLeavePoll
<1>9. CASE ResetLeaveCheck
  BY <1>9 DEF ResetLeaveCheck
<1>10. CASE Unstall
  BY <1>10 DEF Unstall
<1>11. CASE RunCheck
  BY <1>11 DEF RunCheck
<1>12. CASE WaitDone
  BY <1>12 DEF WaitDone
<1>13. CASE ClearDone
  BY <1>13 DEF ClearDone
<1>14. CASE Park
  BY <1>14 DEF Park
<1>15. CASE ParkPoll
  BY <1>15 DEF ParkPoll
<1>16. CASE IpcIntEnable
  BY <1>16 DEF IpcIntEnable
<1>17. CASE WaitInit
  BY <1>17 DEF WaitInit
<1>18. CASE Error
  BY <1>18 DEF Error
<1>19. CASE Stall
  BY <1>19 DEF Stall
<1>20. CASE ResetEnter
  BY <1>20 DEF ResetEnter
<1>21. CASE ResetEnterPoll
  BY <1>21 DEF ResetEnterPoll
<1>22. CASE ResetEnterCheck
  BY <1>22 DEF ResetEnterCheck
<1>23. CASE PowerDown
  BY <1>23 DEF PowerDown
<1>24. CASE PowerDownPoll
  BY <1>24 DEF PowerDownPoll
<1>25. CASE TriggerStart
  BY <1>25 DEF TriggerStart
<1>26. CASE AwaitEntered
  BY <1>26 DEF AwaitEntered
<1>27. CASE TriggerStop
  BY <1>27 DEF TriggerStop
<1>28. CASE StopPoll
  BY <1>28 DEF StopPoll
<1>29. CASE SpaSettles
  BY <1>29 DEF SpaSettles
<1>30. CASE CrstSettles
  BY <1>30 DEF CrstSettles
<1>31. CASE RomStarts
  BY <1>31 DEF RomStarts
<1>32. CASE RomReplies
  BY <1>32 DEF RomReplies
<1>33. CASE RomInits
  BY <1>33 DEF RomInits
<1>34. CASE RomEnters
  BY <1>34 DEF RomEnters
<1>35. CASE RomFails
  BY <1>35 DEF RomFails
<1>36. CASE SdRunSettles
  BY <1>36 DEF SdRunSettles
<1>37. CASE DmaCompletes
  BY <1>37 DEF DmaCompletes
<1>38. ASSUME NEW c \in Cores, PowerAck(c) PROVE SignalInv'
  BY <1>38 DEF PowerAck
<1>39. ASSUME NEW c \in Cores, PowerGone(c) PROVE SignalInv'
  BY <1>39 DEF PowerGone
<1>40. CASE UNCHANGED vars
  BY <1>40 DEF vars
<1> QED
  BY [Next]_vars,
     <1>1, <1>2, <1>3, <1>4, <1>5, <1>6, <1>7, <1>8, <1>9, <1>10, <1>11, <1>12, <1>13,
     <1>14, <1>15, <1>16, <1>17, <1>18, <1>19, <1>20, <1>21, <1>22, <1>23, <1>24, <1>25,
     <1>26, <1>27, <1>28, <1>29, <1>30, <1>31, <1>32, <1>33, <1>34, <1>35, <1>36, <1>37,
     <1>38, <1>39, <1>40
  DEF Next, Host, Hardware, Power, Rom

\* In every attempt, on a device found in any state, the reply is the one of
\* the ROM that has just been let go and the download starts only behind its
\* INIT, unless that signal was there before, however late the hardware.
THEOREM Genuine == Spec => []SignalsGenuine
<1>1. SignalInv => SignalsGenuine
  BY DEF SignalInv, Dropped, SignalsGenuine
<1> QED
  BY InitBInv, NextBInv, InitSignalInv, NextSignalInv, <1>1, PTL DEF Spec

-----------------------------------------------------------------------------
(* FirmwareBoot implements BootContract.                                   *)

\* Four steps of the host are steps of the contract; every other step of the
\* host and every step of the hardware stutters.
LEMMA NextContract == BInv /\ [Next]_vars => [Contract!Next]_(Contract!vars)
<1> SUFFICES ASSUME BInv, [Next]_vars PROVE Contract!Next \/ UNCHANGED Contract!vars
  OBVIOUS
<1> USE AttemptsAssumption DEF BInv, IInv, TypeOK, BootInv, host, adspcs, ipc, romv, dma,
    Poll, Check, Step, Reads, StallResetReturns, AfterAttempt, Contract!vars, Contract!Next
<1>1. CASE Prepare
  BY <1>1 DEF Prepare, Contract!Prepare
<1>2. CASE NextAttempt
  BY <1>2 DEF NextAttempt, Contract!TryFails
<1>3. CASE PowerUp
  BY <1>3 DEF PowerUp
<1>4. CASE PowerUpPoll
  BY <1>4 DEF PowerUpPoll
<1>5. CASE PowerUpCheck
  BY <1>5 DEF PowerUpCheck
<1>6. CASE SetSlaveAndPurge
  BY <1>6 DEF SetSlaveAndPurge
<1>7. CASE ResetLeave
  BY <1>7 DEF ResetLeave
<1>8. CASE ResetLeavePoll
  BY <1>8 DEF ResetLeavePoll
<1>9. CASE ResetLeaveCheck
  BY <1>9 DEF ResetLeaveCheck
<1>10. CASE Unstall
  BY <1>10 DEF Unstall
<1>11. CASE RunCheck
  BY <1>11 DEF RunCheck
<1>12. CASE WaitDone
  BY <1>12 DEF WaitDone
<1>13. CASE ClearDone
  BY <1>13 DEF ClearDone
<1>14. CASE Park
  BY <1>14 DEF Park
<1>15. CASE ParkPoll
  BY <1>15 DEF ParkPoll
<1>16. CASE IpcIntEnable
  BY <1>16 DEF IpcIntEnable
<1>17. CASE WaitInit
  BY <1>17 DEF WaitInit, Contract!TrySucceeds
<1>18. CASE Error
  BY <1>18 DEF Error
<1>19. CASE Stall
  BY <1>19 DEF Stall
<1>20. CASE ResetEnter
  BY <1>20 DEF ResetEnter
<1>21. CASE ResetEnterPoll
  BY <1>21 DEF ResetEnterPoll
<1>22. CASE ResetEnterCheck
  BY <1>22 DEF ResetEnterCheck
<1>23. CASE PowerDown
  BY <1>23 DEF PowerDown
<1>24. CASE PowerDownPoll
  BY <1>24 DEF PowerDownPoll
<1>25. CASE TriggerStart
  BY <1>25 DEF TriggerStart
<1>26. CASE AwaitEntered
  BY <1>26 DEF AwaitEntered
<1>27. CASE TriggerStop
  BY <1>27 DEF TriggerStop
<1>28. CASE StopPoll
  BY <1>28 DEF StopPoll, Contract!Load
<1>29. CASE SpaSettles
  BY <1>29 DEF SpaSettles
<1>30. CASE CrstSettles
  BY <1>30 DEF CrstSettles
<1>31. CASE RomStarts
  BY <1>31 DEF RomStarts
<1>32. CASE RomReplies
  BY <1>32 DEF RomReplies
<1>33. CASE RomInits
  BY <1>33 DEF RomInits
<1>34. CASE RomEnters
  BY <1>34 DEF RomEnters
<1>35. CASE RomFails
  BY <1>35 DEF RomFails
<1>36. CASE SdRunSettles
  BY <1>36 DEF SdRunSettles
<1>37. CASE DmaCompletes
  BY <1>37 DEF DmaCompletes
<1>38. ASSUME NEW c \in Cores, PowerAck(c) PROVE Contract!Next \/ UNCHANGED Contract!vars
  BY <1>38 DEF PowerAck
<1>39. ASSUME NEW c \in Cores, PowerGone(c) PROVE Contract!Next \/ UNCHANGED Contract!vars
  BY <1>39 DEF PowerGone
<1>40. CASE UNCHANGED vars
  BY <1>40 DEF vars
<1> QED
  BY [Next]_vars,
     <1>1, <1>2, <1>3, <1>4, <1>5, <1>6, <1>7, <1>8, <1>9, <1>10, <1>11, <1>12, <1>13,
     <1>14, <1>15, <1>16, <1>17, <1>18, <1>19, <1>20, <1>21, <1>22, <1>23, <1>24, <1>25,
     <1>26, <1>27, <1>28, <1>29, <1>30, <1>31, <1>32, <1>33, <1>34, <1>35, <1>36, <1>37,
     <1>38, <1>39, <1>40
  DEF Next, Host, Hardware, Power, Rom

\* The boot makes at most HDA_FW_BOOT_ATTEMPTS tries, downloads at most once
\* and only after a try that succeeded, and says "ok" only after a download
\* (the safety half of ContractSpec; its fairness stays with TLC).
THEOREM ImplementsContract == Spec => ContractSteps
<1>1. Init => Contract!Init
  BY DEF Init, Contract!Init
<1> QED
  BY InitBInv, NextBInv, NextContract, <1>1, PTL DEF Spec, ContractSteps
=============================================================================
