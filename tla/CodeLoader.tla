----------------------------- MODULE CodeLoader -----------------------------
(***************************************************************************)
(* cl_stream_prepare() of sof-vfio/loader-helper.c on the stream it got:   *)
(* hda_dsp_stream_hw_params(), hda_dsp_stream_spib_config() and the error  *)
(* path, one step per register access, interleaved with the stream's DMA   *)
(* engine.  RUN and SRST are polled after they are written, so they may    *)
(* lag; ...Req is what was last written, the plain name what a read        *)
(* returns.  A poll may give up whenever its condition does not hold.  The *)
(* two halves of an address are written in one step, and the interrupt     *)
(* enable bits, which are only ever changed together, are one.             *)
(*                                                                         *)
(* The stream's control word and status byte share a 32-bit register: an   *)
(* update of a control bit writes back the status bits it has read, and a  *)
(* status bit is cleared by writing 1 to it.                               *)
(***************************************************************************)
EXTENDS Naturals

VARIABLES
  pc,
  run, runReq,     \* SD_CTL.RUN: the DMA engine is running
  srst, srstReq,   \* SD_CTL.SRST: the stream is in reset
  ie, sts,         \* its interrupt enable bits and status bits
  tag,             \* the tag in SD_CTL
  desc,            \* the descriptor: list pointer, length, last index, format
  decoupled,       \* the stream's bit of PPCTL
  posOn, posEntry, \* position buffer enabled; this stream's entry is 0
  hasSpib, spib,   \* SPIB capability found; SPIB enabled and set
  mapped           \* the firmware's IOVA range

control == <<run, runReq, srst, srstReq>>
engine == <<control, ie, sts, tag, desc>>
others == <<decoupled, posOn, posEntry, hasSpib, spib, mapped>>
vars == <<pc, engine, others>>

StatusBits == {"complete", "fifo", "desc"}  \* SOF_HDA_CL_DMA_SD_INT_MASK
Cleared == [bdlp |-> "0", cbl |-> "0", lvi |-> "0", fmt |-> "0"]
Stale   == [bdlp |-> "old", cbl |-> "old", lvi |-> "old", fmt |-> "old"]

\* The stream as the kernel's driver or an earlier run of the program left
\* it, but for the status bits: the probe has just cleared those.
Init ==
  /\ pc = "decouple"
  /\ run \in BOOLEAN /\ runReq = run
  /\ srst \in BOOLEAN /\ srstReq = srst /\ ~(run /\ srst)
  /\ ie \in BOOLEAN /\ sts = {} /\ tag \in {0, 7} /\ desc \in {Cleared, Stale}
  /\ srst => ~ie /\ tag = 0 /\ desc = Cleared
  /\ decoupled \in BOOLEAN /\ posOn = FALSE /\ posEntry = FALSE
  /\ hasSpib \in BOOLEAN /\ spib = FALSE
  /\ mapped = TRUE

-----------------------------------------------------------------------------
(* Register access.                                                        *)

\* snd_sof_dsp_update_bits() on SD_CTL: nothing is written when the word is
\* as it should be already.
UpdateSdCtl(newRun, newRst, newIe, newTag) ==
  /\ IF <<newRun, newRst, newIe, newTag>> = <<run, srst, ie, tag>>
       THEN UNCHANGED <<runReq, srstReq, ie, sts, tag>>
       ELSE runReq' = newRun /\ srstReq' = newRst /\ ie' = newIe /\ tag' = newTag /\ sts' = {}
  /\ UNCHANGED <<run, srst>>

\* The same on SD_STS, where setting all bits means clearing them.
ClearStatus ==
  /\ sts' = IF sts = StatusBits THEN sts ELSE {}
  /\ UNCHANGED <<control, ie, tag>>

Step(from, to) == pc = from /\ pc' = to

\* Defect: the condition is not waited for.
Poll_Not(at, cond, ok) == pc = at /\ pc' = ok /\ UNCHANGED <<engine, others>>

\* A bounded wait; hw_params returns -ETIMEDOUT if it was in vain.
Poll(at, cond, ok) ==
  /\ pc = at
  /\ \/ cond /\ pc' = ok
     \/ ~cond /\ pc' = "error"
  /\ UNCHANGED <<engine, others>>

-----------------------------------------------------------------------------
(* hda_dsp_stream_hw_params().                                             *)

Decouple ==
  /\ Step("decouple", "stop")
  /\ decoupled' = TRUE
  /\ UNCHANGED <<engine, posOn, posEntry, hasSpib, spib, mapped>>

Stop(at, next) ==
  /\ Step(at, next)
  /\ UpdateSdCtl(FALSE, srst, FALSE, tag)
  /\ UNCHANGED <<desc, others>>

ClearSts(at, next) == Step(at, next) /\ ClearStatus /\ UNCHANGED <<desc, others>>

Reset(at, next, value) ==
  /\ Step(at, next)
  /\ UpdateSdCtl(run, value, ie, tag)
  /\ UNCHANGED <<desc, others>>

\* The stream is stopped, its status cleared, and it is put through a reset.
StopFirst   == Stop("stop", "stop_poll")
StopPoll    == Poll("stop_poll", ~run, "clear_sts")
ClearSts1   == ClearSts("clear_sts", "reset")
EnterReset  == Reset("reset", "reset_poll", TRUE)
ResetPoll   == Poll("reset_poll", srst, "unreset")
LeaveReset  == Reset("unreset", "unreset_poll", FALSE)
UnresetPoll == Poll("unreset_poll", ~srst, "position")

\* A register written while the stream is in reset keeps its reset value.
Write(field, value) == desc' = IF srst THEN desc ELSE [desc EXCEPT ![field] = value]

\* The position entry and the list pointer start from 0.
ResetPosition ==
  /\ Step("position", "bdl_zero")
  /\ posEntry' = TRUE
  /\ UNCHANGED <<engine, decoupled, posOn, hasSpib, spib, mapped>>
ZeroBdlp ==
  /\ Step("bdl_zero", "stop_again")
  /\ Write("bdlp", "0")
  /\ UNCHANGED <<control, ie, sts, tag, others>>

\* And stopped once more.
StopAgain     == Stop("stop_again", "stop_again_poll")
StopAgainPoll == Poll("stop_again_poll", ~run, "clear_sts_again")
ClearSts2     == ClearSts("clear_sts_again", "setup_bdl")

\* hda_dsp_stream_setup_bdl() may find the buffer too large (module Bdl).
SetupBdl ==
  /\ pc = "setup_bdl" /\ pc' \in {"tag", "error"}
  /\ UNCHANGED <<engine, others>>

\* Defect: shifted one bit too far.
SetTag_Shift ==
  /\ Step("tag", "cbl")
  /\ UpdateSdCtl(run, srst, ie, 14)
  /\ UNCHANGED <<desc, others>>

\* "program stream tag" (238): the constant 7, whatever the stream's own is.
SetTag ==
  /\ Step("tag", "cbl")
  /\ UpdateSdCtl(run, srst, ie, 7)
  /\ UNCHANGED <<desc, others>>

Program(at, next, field) ==
  /\ Step(at, next)
  /\ Write(field, "new")
  /\ UNCHANGED <<control, ie, sts, tag, others>>

Couple(at, next, value) ==
  /\ Step(at, next)
  /\ decoupled' = value
  /\ UNCHANGED <<engine, posOn, posEntry, hasSpib, spib, mapped>>

\* Defect: the format is written before the coupling.
CoupleForFormat_Late == Step("couple", "fmt") /\ UNCHANGED <<engine, others>>

SetCbl          == Program("cbl", "couple", "cbl")
CoupleForFormat == Couple("couple", "fmt", FALSE)
SetFormat       == Program("fmt", "decouple_again", "fmt")
DecoupleAgain   == Couple("decouple_again", "lvi", TRUE)
SetLvi          == Program("lvi", "bdlp", "lvi")
SetBdlp         == Program("bdlp", "posbuf", "bdlp")

\* The probe has written the buffer's address without the enable bit.
EnablePosbuf ==
  /\ Step("posbuf", "int_enable")
  /\ posOn' = TRUE
  /\ UNCHANGED <<engine, decoupled, posEntry, hasSpib, spib, mapped>>

\* Defect: the bits are written instead of updated.
IntEnable_Write ==
  /\ Step("int_enable", "spib")
  /\ UpdateSdCtl(FALSE, FALSE, TRUE, 0)
  /\ UNCHANGED <<desc, others>>

\* The interrupt enable bits, the last of hw_params.
IntEnable ==
  /\ Step("int_enable", "spib")
  /\ UpdateSdCtl(run, srst, TRUE, tag)
  /\ UNCHANGED <<desc, others>>

-----------------------------------------------------------------------------
(* The rest of cl_stream_prepare().                                        *)

\* hda_dsp_stream_spib_config(), whose error is ignored.
SpibConfig ==
  /\ Step("spib", "ready")
  /\ spib' = hasSpib
  /\ UNCHANGED <<engine, decoupled, posOn, posEntry, hasSpib, mapped>>

\* unmap_dma() of size bytes; whether that is the size mapped is not known.
ErrorPath ==
  /\ Step("error", "failed")
  /\ mapped' \in BOOLEAN
  /\ UNCHANGED <<engine, decoupled, posOn, posEntry, hasSpib, spib>>

Host ==
  \/ Decouple \/ StopFirst \/ StopPoll \/ ClearSts1
  \/ EnterReset \/ ResetPoll \/ LeaveReset \/ UnresetPoll
  \/ ResetPosition \/ ZeroBdlp \/ StopAgain \/ StopAgainPoll \/ ClearSts2
  \/ SetupBdl \/ SetTag \/ SetCbl \/ CoupleForFormat \/ SetFormat
  \/ DecoupleAgain \/ SetLvi \/ SetBdlp \/ EnablePosbuf \/ IntEnable
  \/ SpibConfig \/ ErrorPath

-----------------------------------------------------------------------------
(* The engine.                                                             *)

RunSettles ==
  /\ run # runReq /\ run' = runReq
  /\ UNCHANGED <<pc, runReq, srst, srstReq, ie, sts, tag, desc, others>>

\* On the way into reset every register of the stream is cleared.
SrstSettles ==
  /\ srst # srstReq /\ srst' = srstReq
  /\ IF srstReq
       THEN desc' = Cleared /\ sts' = {} /\ ie' = FALSE /\ tag' = 0
       ELSE UNCHANGED <<desc, sts, ie, tag>>
  /\ UNCHANGED <<pc, run, runReq, srstReq, others>>

\* A running engine reports.
Report ==
  /\ run
  /\ \E b \in StatusBits \ sts : sts' = sts \cup {b}
  /\ UNCHANGED <<pc, control, ie, tag, desc, others>>

Engine == RunSettles \/ SrstSettles \/ Report

Next == Host \/ Engine

Spec == Init /\ [][Next]_vars

-----------------------------------------------------------------------------
(* Properties.                                                             *)

Labels ==
  {"decouple", "stop", "stop_poll", "clear_sts", "reset", "reset_poll", "unreset",
   "unreset_poll", "position", "bdl_zero", "stop_again", "stop_again_poll",
   "clear_sts_again", "setup_bdl", "tag", "cbl", "couple", "fmt", "decouple_again",
   "lvi", "bdlp", "posbuf", "int_enable", "spib", "ready", "error", "failed"}

\* Types.
TypeOK ==
  /\ pc \in Labels
  /\ run \in BOOLEAN /\ runReq \in BOOLEAN /\ srst \in BOOLEAN /\ srstReq \in BOOLEAN
  /\ ie \in BOOLEAN /\ sts \subseteq StatusBits /\ tag \in {0, 7}
  /\ desc \in [{"bdlp", "cbl", "lvi", "fmt"} -> {"0", "old", "new"}]
  /\ decoupled \in BOOLEAN /\ posOn \in BOOLEAN /\ posEntry \in BOOLEAN
  /\ hasSpib \in BOOLEAN /\ spib \in BOOLEAN /\ mapped \in BOOLEAN

AtRest == ~run /\ ~runReq /\ ~srst /\ ~srstReq

\* The descriptor of a stream is only touched while its engine has stopped
\* and left reset, and will stay so: no write is lost in a late reset, none
\* changes a transfer under way (loader-helper.c 143-206, 244-285).
ProgrammedAtRest == [][desc' # desc => AtRest \/ (srst' /\ ~srst)]_vars

\* No update of the shared control word writes back a RUN bit that has not
\* gone down yet: preparing never starts the engine again (148-158, 213-223).
NeverRestarted == [][~runReq => ~runReq']_vars

\* The format is written in coupled mode ("Put DMA into coupled mode ...
\* before the time of writing format", 250-258).
FormatWhileCoupled == [][desc'.fmt = "new" /\ desc.fmt # "new" => ~decoupled]_vars

\* A stream that is handed on holds all of what was programmed, although
\* resets and write-backs happened in between: stopped, with no status bit
\* from before, decoupled, its interrupts on and the position buffer ready.
PreparedRight ==
  pc = "ready" =>
    /\ AtRest /\ sts = {} /\ ie /\ tag = 7
    /\ desc = [bdlp |-> "new", cbl |-> "new", lvi |-> "new", fmt |-> "new"]
    /\ decoupled /\ posOn /\ posEntry /\ spib = hasSpib
=============================================================================
