-------------------------- MODULE CodeLoaderProofs --------------------------
(* Theorems about CodeLoader, in whatever state the stream was left and     *)
(* however the engine's steps fall between the program's.                   *)
EXTENDS CodeLoader, Integers, TLAPS

(* How far cl_stream_prepare() is: the labels behind each step of it.       *)
AfterInt       == {"spib", "ready"}
AfterPosbuf    == AfterInt \cup {"int_enable"}
AfterBdlp      == AfterPosbuf \cup {"posbuf"}
AfterLvi       == AfterBdlp \cup {"bdlp"}
AfterDecouple2 == AfterLvi \cup {"lvi"}
AfterFmt       == AfterDecouple2 \cup {"decouple_again"}
AfterCbl       == AfterFmt \cup {"couple", "fmt"}
AfterTag       == AfterCbl \cup {"cbl"}
AfterPosition  == AfterTag \cup {"bdl_zero", "stop_again", "stop_again_poll",
                                 "clear_sts_again", "setup_bdl", "tag"}
Late           == AfterPosition \cup {"position"}  \* out of reset for good
Unstopped      == {"decouple", "stop"}
Settled        == Unstopped \cup {"stop_poll", "clear_sts", "reset"}
Stopped        == Late \cup {"clear_sts", "reset", "reset_poll", "unreset", "unreset_poll"}

USE DEF AfterInt, AfterPosbuf, AfterBdlp, AfterLvi, AfterDecouple2, AfterFmt,
        AfterCbl, AfterTag, AfterPosition, Late, Unstopped, Settled, Stopped

\* What was written last to RUN, SRST and the status, and what has come of it.
ControlInv ==
  /\ pc \in Unstopped => run = runReq
  /\ pc \notin Unstopped => ~runReq
  /\ pc \in Stopped => ~run
  /\ pc \in Settled => srst = srstReq
  /\ pc = "reset_poll" => srstReq
  /\ pc = "unreset" => srst /\ srstReq
  /\ pc = "unreset_poll" => ~srstReq
  /\ pc \in Late => ~srst /\ ~srstReq
  /\ pc \in Late \cup {"unreset_poll"} => sts = {}

\* What each step has left behind for the ones that follow it.
EngineInv ==
  /\ pc \in AfterTag => tag = 7
  /\ pc \in AfterCbl => desc.cbl = "new"
  /\ pc \in AfterFmt => desc.fmt = "new"
  /\ pc \in AfterLvi => desc.lvi = "new"
  /\ pc \in AfterBdlp => desc.bdlp = "new"
  /\ pc \in AfterInt => ie

OthersInv ==
  /\ pc = "fmt" => ~decoupled
  /\ pc \in AfterDecouple2 => decoupled
  /\ pc \in AfterPosition => posEntry
  /\ pc \in AfterPosbuf => posOn
  /\ pc = "ready" => spib = hasSpib

Inv == TypeOK /\ ControlInv /\ EngineInv /\ OthersInv

LEMMA InitInv == Init => Inv
<1> SUFFICES ASSUME Init PROVE Inv
  OBVIOUS
<1>1. ControlInv
  BY DEF Init, ControlInv
<1>2. EngineInv /\ OthersInv
  BY DEF Init, EngineInv, OthersInv
<1>3. /\ desc \in [{"bdlp", "cbl", "lvi", "fmt"} -> {"0", "old", "new"}]
      /\ pc \in Labels /\ sts \subseteq StatusBits
  BY DEF Init, Labels, Cleared, Stale
<1>4. TypeOK
  BY <1>3, Zenon DEF Init, TypeOK
<1> QED
  BY <1>1, <1>2, <1>4 DEF Inv

\* An update of the control word writes it whole, or finds it as it should be.
Updated(newRun, newRst, newIe, newTag) ==
  /\ run' = run /\ srst' = srst
  /\ \/ /\ newRun = run /\ newRst = srst /\ newIe = ie /\ newTag = tag
        /\ runReq' = runReq /\ srstReq' = srstReq /\ ie' = ie /\ sts' = sts /\ tag' = tag
     \/ runReq' = newRun /\ srstReq' = newRst /\ ie' = newIe /\ tag' = newTag /\ sts' = {}

LEMMA UpdateEffect ==
  ASSUME NEW newRun, NEW newRst, NEW newIe, NEW newTag,
         UpdateSdCtl(newRun, newRst, newIe, newTag)
  PROVE  Updated(newRun, newRst, newIe, newTag)
  BY DEF UpdateSdCtl, Updated

(* The six updates of the control word.                                     *)
LEMMA StopFirstWord ==
  ASSUME StopFirst
  PROVE  /\ pc = "stop" /\ pc' = "stop_poll" /\ run' = run /\ srst' = srst
         /\ \/ ~run /\ runReq' = runReq /\ srstReq' = srstReq
            \/ ~runReq' /\ srstReq' = srst
<1>1. Updated(FALSE, srst, FALSE, tag)
  BY UpdateEffect, Zenon DEF StopFirst, Stop
<1> QED  BY <1>1, Zenon DEF Updated, StopFirst, Stop, Step

LEMMA StopAgainWord ==
  ASSUME StopAgain
  PROVE  /\ pc = "stop_again" /\ pc' = "stop_again_poll" /\ run' = run /\ srst' = srst
         /\ \/ runReq' = runReq /\ srstReq' = srstReq /\ sts' = sts
            \/ ~runReq' /\ srstReq' = srst /\ sts' = {}
<1>1. Updated(FALSE, srst, FALSE, tag)
  BY UpdateEffect, Zenon DEF StopAgain, Stop
<1> QED  BY <1>1, Zenon DEF Updated, StopAgain, Stop, Step

LEMMA EnterResetWord ==
  ASSUME EnterReset
  PROVE  /\ pc = "reset" /\ pc' = "reset_poll" /\ run' = run /\ srst' = srst
         /\ \/ srst /\ runReq' = runReq /\ srstReq' = srstReq
            \/ runReq' = run /\ srstReq'
<1>1. Updated(run, TRUE, ie, tag)
  BY UpdateEffect, Zenon DEF EnterReset, Reset
<1> QED  BY <1>1, Zenon DEF Updated, EnterReset, Reset, Step

LEMMA LeaveResetWord ==
  ASSUME LeaveReset
  PROVE  /\ pc = "unreset" /\ pc' = "unreset_poll" /\ run' = run /\ srst' = srst
         /\ \/ ~srst
            \/ runReq' = run /\ ~srstReq' /\ sts' = {}
<1>1. Updated(run, FALSE, ie, tag)
  BY UpdateEffect, Zenon DEF LeaveReset, Reset
<1> QED  BY <1>1, Zenon DEF Updated, LeaveReset, Reset, Step

LEMMA SetTagWord ==
  ASSUME SetTag
  PROVE  /\ pc = "tag" /\ pc' = "cbl" /\ run' = run /\ srst' = srst /\ tag' = 7
         /\ \/ runReq' = runReq /\ srstReq' = srstReq /\ sts' = sts
            \/ runReq' = run /\ srstReq' = srst /\ sts' = {}
<1>1. Updated(run, srst, ie, 7)
  BY UpdateEffect, Zenon DEF SetTag
<1> QED  BY <1>1, Zenon DEF Updated, SetTag, Step

LEMMA IntEnableWord ==
  ASSUME IntEnable
  PROVE  /\ pc = "int_enable" /\ pc' = "spib" /\ run' = run /\ srst' = srst
         /\ tag' = tag /\ ie'
         /\ \/ runReq' = runReq /\ srstReq' = srstReq /\ sts' = sts
            \/ runReq' = run /\ srstReq' = srst /\ sts' = {}
<1>1. Updated(run, srst, TRUE, tag)
  BY UpdateEffect, Zenon DEF IntEnable
<1>2. ie'
  BY <1>1, SMT DEF Updated
<1> QED  BY <1>1, <1>2, Zenon DEF Updated, IntEnable, Step

LEMMA ControlStep == ASSUME Inv, [Next]_vars PROVE ControlInv'
<1> USE DEF Inv, TypeOK, ControlInv, engine, control, others
<1>1. CASE Decouple \/ CoupleForFormat \/ DecoupleAgain
  BY <1>1 DEF Decouple, CoupleForFormat, DecoupleAgain, Couple, Step
<1>2. CASE StopPoll \/ ResetPoll \/ UnresetPoll \/ StopAgainPoll
  BY <1>2 DEF StopPoll, ResetPoll, UnresetPoll, StopAgainPoll, Poll
<1>3. CASE ClearSts1 \/ ClearSts2
  BY <1>3 DEF ClearSts1, ClearSts2, ClearSts, ClearStatus, Step
<1>4. CASE ResetPosition \/ EnablePosbuf \/ SpibConfig \/ ErrorPath \/ SetupBdl
  BY <1>4 DEF ResetPosition, EnablePosbuf, SpibConfig, ErrorPath, SetupBdl, Step
<1>5. CASE ZeroBdlp \/ SetCbl \/ SetFormat
  BY <1>5 DEF ZeroBdlp, SetCbl, SetFormat, Program, Write, Step
<1>6. CASE SetLvi \/ SetBdlp
  BY <1>6 DEF SetLvi, SetBdlp, Program, Write, Step
<1>7. CASE RunSettles \/ SrstSettles \/ Report
  BY <1>7 DEF RunSettles, SrstSettles, Report
<1>8. CASE UNCHANGED vars
  BY <1>8 DEF vars
<1>9. CASE StopFirst
  BY <1>9, StopFirstWord
<1>10. CASE StopAgain
  BY <1>10, StopAgainWord
<1>11. CASE EnterReset
  BY <1>11, EnterResetWord
<1>12. CASE LeaveReset
  BY <1>12, LeaveResetWord
<1>13. CASE SetTag
  BY <1>13, SetTagWord
<1>14. CASE IntEnable
  BY <1>14, IntEnableWord
<1> QED
  BY <1>1, <1>2, <1>3, <1>4, <1>5, <1>6, <1>7, <1>8, <1>9, <1>10, <1>11, <1>12, <1>13,
     <1>14 DEF Next, Host, Engine

LEMMA EngineStep == ASSUME Inv, [Next]_vars PROVE EngineInv'
<1> USE DEF Inv, TypeOK, ControlInv, EngineInv, engine, control, others
<1>1. CASE Decouple \/ CoupleForFormat \/ DecoupleAgain
  BY <1>1 DEF Decouple, CoupleForFormat, DecoupleAgain, Couple, Step
<1>2. CASE StopPoll \/ ResetPoll \/ UnresetPoll \/ StopAgainPoll
  BY <1>2 DEF StopPoll, ResetPoll, UnresetPoll, StopAgainPoll, Poll
<1>3. CASE ClearSts1 \/ ClearSts2
  BY <1>3 DEF ClearSts1, ClearSts2, ClearSts, ClearStatus, Step
<1>4. CASE ResetPosition \/ EnablePosbuf \/ SpibConfig \/ ErrorPath \/ SetupBdl
  BY <1>4 DEF ResetPosition, EnablePosbuf, SpibConfig, ErrorPath, SetupBdl, Step
<1>5. CASE ZeroBdlp \/ SetCbl \/ SetFormat
  BY <1>5 DEF ZeroBdlp, SetCbl, SetFormat, Program, Write, Step
<1>6. CASE SetLvi \/ SetBdlp
  BY <1>6 DEF SetLvi, SetBdlp, Program, Write, Step
<1>7. CASE RunSettles \/ SrstSettles \/ Report
  BY <1>7 DEF RunSettles, SrstSettles, Report
<1>8. CASE UNCHANGED vars
  BY <1>8 DEF vars
<1>9. CASE StopFirst
  BY <1>9, StopFirstWord DEF StopFirst, Stop
<1>10. CASE StopAgain
  BY <1>10, StopAgainWord DEF StopAgain, Stop
<1>11. CASE EnterReset
  BY <1>11, EnterResetWord DEF EnterReset, Reset
<1>12. CASE LeaveReset
  BY <1>12, LeaveResetWord DEF LeaveReset, Reset
<1>13. CASE SetTag
  BY <1>13, SetTagWord DEF SetTag
<1>14. CASE IntEnable
  BY <1>14, IntEnableWord DEF IntEnable
<1> QED
  BY <1>1, <1>2, <1>3, <1>4, <1>5, <1>6, <1>7, <1>8, <1>9, <1>10, <1>11, <1>12, <1>13,
     <1>14 DEF Next, Host, Engine

LEMMA OthersStep == ASSUME Inv, [Next]_vars PROVE OthersInv'
<1> USE DEF Inv, TypeOK, ControlInv, OthersInv, engine, control, others
<1>1. CASE Decouple \/ CoupleForFormat \/ DecoupleAgain
  BY <1>1 DEF Decouple, CoupleForFormat, DecoupleAgain, Couple, Step
<1>2. CASE StopPoll \/ ResetPoll \/ UnresetPoll \/ StopAgainPoll
  BY <1>2 DEF StopPoll, ResetPoll, UnresetPoll, StopAgainPoll, Poll
<1>3. CASE ClearSts1 \/ ClearSts2
  BY <1>3 DEF ClearSts1, ClearSts2, ClearSts, ClearStatus, Step
<1>4. CASE ResetPosition \/ EnablePosbuf \/ SpibConfig \/ ErrorPath \/ SetupBdl
  BY <1>4 DEF ResetPosition, EnablePosbuf, SpibConfig, ErrorPath, SetupBdl, Step
<1>5. CASE ZeroBdlp \/ SetCbl \/ SetFormat
  BY <1>5 DEF ZeroBdlp, SetCbl, SetFormat, Program, Write, Step
<1>6. CASE SetLvi \/ SetBdlp
  BY <1>6 DEF SetLvi, SetBdlp, Program, Write, Step
<1>7. CASE RunSettles \/ SrstSettles \/ Report
  BY <1>7 DEF RunSettles, SrstSettles, Report
<1>8. CASE UNCHANGED vars
  BY <1>8 DEF vars
<1>9. CASE StopFirst \/ StopAgain \/ EnterReset \/ LeaveReset \/ SetTag \/ IntEnable
  BY <1>9
  DEF StopFirst, StopAgain, EnterReset, LeaveReset, SetTag, IntEnable, Stop, Reset, Step
<1> QED  BY <1>1, <1>2, <1>3, <1>4, <1>5, <1>6, <1>7, <1>8, <1>9 DEF Next, Host, Engine

(* Types.  Of the stream's own registers first, then of the rest.           *)
WordOK ==
  /\ run \in BOOLEAN /\ runReq \in BOOLEAN /\ srst \in BOOLEAN /\ srstReq \in BOOLEAN
  /\ ie \in BOOLEAN /\ sts \subseteq StatusBits /\ tag \in {0, 7}

LEMMA UpdateType ==
  ASSUME WordOK, NEW newRun \in BOOLEAN, NEW newRst \in BOOLEAN, NEW newIe \in BOOLEAN,
         NEW newTag \in {0, 7}, UpdateSdCtl(newRun, newRst, newIe, newTag)
  PROVE  WordOK'
<1>1. Updated(newRun, newRst, newIe, newTag)
  BY UpdateEffect, Zenon
<1> QED  BY <1>1, Zenon DEF Updated, WordOK

LEMMA WordStep == ASSUME WordOK, [Next]_vars PROVE WordOK'
<1>1. CASE StopFirst \/ StopAgain
  <2>1. UpdateSdCtl(FALSE, srst, FALSE, tag)
    BY <1>1, Zenon DEF StopFirst, StopAgain, Stop
  <2> QED  BY <2>1, UpdateType, Zenon DEF WordOK
<1>2. CASE EnterReset
  <2>1. UpdateSdCtl(run, TRUE, ie, tag)
    BY <1>2, Zenon DEF EnterReset, Reset
  <2> QED  BY <2>1, UpdateType, Zenon DEF WordOK
<1>3. CASE LeaveReset
  <2>1. UpdateSdCtl(run, FALSE, ie, tag)
    BY <1>3, Zenon DEF LeaveReset, Reset
  <2> QED  BY <2>1, UpdateType, Zenon DEF WordOK
<1>4. CASE SetTag
  <2>1. UpdateSdCtl(run, srst, ie, 7)
    BY <1>4, Zenon DEF SetTag
  <2> QED  BY <2>1, UpdateType, Zenon DEF WordOK
<1>5. CASE IntEnable
  <2>1. UpdateSdCtl(run, srst, TRUE, tag)
    BY <1>5, Zenon DEF IntEnable
  <2> QED  BY <2>1, UpdateType, Zenon DEF WordOK
<1>6. CASE RunSettles \/ SrstSettles \/ Report
  BY <1>6 DEF RunSettles, SrstSettles, Report, control, WordOK
<1>7. CASE ClearSts1 \/ ClearSts2
  BY <1>7 DEF ClearSts1, ClearSts2, ClearSts, ClearStatus, control, WordOK
<1>8. CASE \/ ResetPosition \/ EnablePosbuf \/ SpibConfig \/ ErrorPath \/ SetupBdl
           \/ Decouple \/ CoupleForFormat \/ DecoupleAgain
           \/ StopPoll \/ ResetPoll \/ UnresetPoll \/ StopAgainPoll
           \/ UNCHANGED vars
  BY <1>8
  DEF ResetPosition, EnablePosbuf, SpibConfig, ErrorPath, SetupBdl, Decouple, CoupleForFormat,
      DecoupleAgain, Couple, StopPoll, ResetPoll, UnresetPoll, StopAgainPoll, Poll, vars,
      engine, control, WordOK
<1>9. CASE ZeroBdlp \/ SetCbl \/ SetFormat \/ SetLvi \/ SetBdlp
  BY <1>9 DEF ZeroBdlp, SetCbl, SetFormat, SetLvi, SetBdlp, Program, control, WordOK
<1> QED
  BY <1>1, <1>2, <1>3, <1>4, <1>5, <1>6, <1>7, <1>8, <1>9 DEF Next, Host, Engine

RestOK ==
  /\ pc \in Labels
  /\ desc \in [{"bdlp", "cbl", "lvi", "fmt"} -> {"0", "old", "new"}]
  /\ decoupled \in BOOLEAN /\ posOn \in BOOLEAN /\ posEntry \in BOOLEAN
  /\ hasSpib \in BOOLEAN /\ spib \in BOOLEAN /\ mapped \in BOOLEAN

LEMMA RestStep == ASSUME RestOK, [Next]_vars PROVE RestOK'
<1> USE DEF RestOK, Labels, engine, control, others
<1>1. CASE Decouple \/ CoupleForFormat \/ DecoupleAgain
  BY <1>1 DEF Decouple, CoupleForFormat, DecoupleAgain, Couple, Step
<1>2. CASE StopPoll \/ ResetPoll \/ UnresetPoll \/ StopAgainPoll
  BY <1>2 DEF StopPoll, ResetPoll, UnresetPoll, StopAgainPoll, Poll
<1>3. CASE StopFirst \/ StopAgain \/ EnterReset \/ LeaveReset \/ SetTag \/ IntEnable
  BY <1>3
  DEF StopFirst, StopAgain, EnterReset, LeaveReset, SetTag, IntEnable, Stop, Reset, Step
<1>4. CASE ResetPosition \/ EnablePosbuf \/ SpibConfig \/ ErrorPath \/ SetupBdl
  BY <1>4 DEF ResetPosition, EnablePosbuf, SpibConfig, ErrorPath, SetupBdl, Step
<1>5. CASE ZeroBdlp \/ SetCbl \/ SetFormat \/ SetLvi \/ SetBdlp
  BY <1>5 DEF ZeroBdlp, SetCbl, SetFormat, SetLvi, SetBdlp, Program, Write, Step
<1>6. CASE ClearSts1 \/ ClearSts2
  BY <1>6 DEF ClearSts1, ClearSts2, ClearSts, ClearStatus, Step
<1>7. CASE RunSettles \/ SrstSettles \/ Report
  BY <1>7 DEF RunSettles, SrstSettles, Report, Cleared
<1>8. CASE UNCHANGED vars
  BY <1>8 DEF vars
<1> QED
  BY <1>1, <1>2, <1>3, <1>4, <1>5, <1>6, <1>7, <1>8 DEF Next, Host, Engine

LEMMA TypeStep == ASSUME TypeOK, [Next]_vars PROVE TypeOK'
<1>1. WordOK /\ RestOK
  BY Zenon DEF TypeOK, WordOK, RestOK
<1>2. WordOK' /\ RestOK'
  BY <1>1, WordStep, RestStep
<1> QED  BY <1>2, Zenon DEF TypeOK, WordOK, RestOK

LEMMA NextInv == Inv /\ [Next]_vars => Inv'
  BY TypeStep, ControlStep, EngineStep, OthersStep DEF Inv

-----------------------------------------------------------------------------

\* Every register and step of the preparation stays within its type.
THEOREM TypeCorrect == Spec => []TypeOK
<1>1. Inv => TypeOK
  BY DEF Inv
<1> QED  BY InitInv, NextInv, <1>1, PTL DEF Spec

\* Whatever an earlier run has left in the stream and however late RUN and
\* SRST follow, a stream handed on holds all of what was programmed.
THEOREM HandedOnPrepared == Spec => []PreparedRight
<1>1. Inv => PreparedRight
  <2> SUFFICES ASSUME Inv, pc = "ready" PROVE PreparedRight
    BY DEF PreparedRight
  <2>1. AtRest /\ sts = {} /\ ie /\ tag = 7
    BY DEF Inv, ControlInv, EngineInv, AtRest
  <2>2. desc = [bdlp |-> "new", cbl |-> "new", lvi |-> "new", fmt |-> "new"]
    BY DEF Inv, TypeOK, EngineInv
  <2>3. decoupled /\ posOn /\ posEntry /\ spib = hasSpib
    BY DEF Inv, OthersInv
  <2> QED  BY <2>1, <2>2, <2>3 DEF PreparedRight
<1> QED  BY InitInv, NextInv, <1>1, PTL DEF Spec

\* No update of the shared control word starts the engine again.
THEOREM StaysStopped == Spec => NeverRestarted
<1>1. Inv /\ [Next]_vars => [~runReq => ~runReq']_vars
  <2> SUFFICES ASSUME Inv, Next, ~runReq PROVE ~runReq'
    BY DEF vars
  <2>1. CASE pc' \notin Unstopped
    BY <2>1, NextInv DEF Inv, ControlInv
  <2>2. CASE pc' \in Unstopped
    <3>1. Decouple \/ RunSettles \/ SrstSettles \/ Report
      BY <2>2
      DEF Next, Host, Engine, StopFirst, StopPoll, ClearSts1, EnterReset, ResetPoll, LeaveReset,
          UnresetPoll, ResetPosition, ZeroBdlp, StopAgain, StopAgainPoll, ClearSts2, SetupBdl,
          SetTag, SetCbl, CoupleForFormat, SetFormat, DecoupleAgain, SetLvi, SetBdlp,
          EnablePosbuf, IntEnable, SpibConfig, ErrorPath, Stop, ClearSts, Reset, Poll, Program,
          Couple, Step
    <3>2. runReq' = runReq
      BY <3>1 DEF Decouple, RunSettles, SrstSettles, Report, engine, control
    <3> QED  BY <3>2
  <2> QED  BY <2>1, <2>2
<1> QED  BY InitInv, NextInv, <1>1, PTL DEF Spec, NeverRestarted

\* The steps that leave the descriptor alone.
LEMMA DescKept ==
  ASSUME Next, ~(ZeroBdlp \/ SetCbl \/ SetFormat \/ SetLvi \/ SetBdlp \/ SrstSettles)
  PROVE  desc' = desc
<1> USE DEF engine
<1>1. CASE Decouple \/ CoupleForFormat \/ DecoupleAgain
  BY <1>1 DEF Decouple, CoupleForFormat, DecoupleAgain, Couple
<1>2. CASE StopPoll \/ ResetPoll \/ UnresetPoll \/ StopAgainPoll
  BY <1>2 DEF StopPoll, ResetPoll, UnresetPoll, StopAgainPoll, Poll
<1>3. CASE StopFirst \/ StopAgain \/ EnterReset \/ LeaveReset \/ SetTag \/ IntEnable
  BY <1>3 DEF StopFirst, StopAgain, EnterReset, LeaveReset, SetTag, IntEnable, Stop, Reset
<1>4. CASE ResetPosition \/ EnablePosbuf \/ SpibConfig \/ ErrorPath \/ SetupBdl
  BY <1>4 DEF ResetPosition, EnablePosbuf, SpibConfig, ErrorPath, SetupBdl
<1>5. CASE ClearSts1 \/ ClearSts2
  BY <1>5 DEF ClearSts1, ClearSts2, ClearSts
<1>6. CASE RunSettles \/ Report
  BY <1>6 DEF RunSettles, Report
<1> QED
  BY <1>1, <1>2, <1>3, <1>4, <1>5, <1>6 DEF Next, Host, Engine

\* The descriptor changes only while the engine is at rest and stays so, or
\* as the stream goes into the reset that clears it.
THEOREM DescriptorAtRest == Spec => ProgrammedAtRest
<1>1. Inv /\ [Next]_vars => [desc' # desc => AtRest \/ (srst' /\ ~srst)]_vars
  <2> SUFFICES ASSUME Inv, Next, desc' # desc PROVE AtRest \/ (srst' /\ ~srst)
    BY DEF vars
  <2>1. CASE ZeroBdlp \/ SetCbl \/ SetFormat \/ SetLvi \/ SetBdlp
    <3>1. pc \in Late
      BY <2>1 DEF ZeroBdlp, SetCbl, SetFormat, SetLvi, SetBdlp, Program, Step
    <3> QED  BY <3>1 DEF Inv, ControlInv, AtRest
  <2>2. CASE SrstSettles
    BY <2>2 DEF SrstSettles, Inv, TypeOK
  <2> QED  BY <2>1, <2>2, DescKept
<1> QED  BY InitInv, NextInv, <1>1, PTL DEF Spec, ProgrammedAtRest

\* The format reaches the descriptor only in coupled mode.
THEOREM FormatCoupled == Spec => FormatWhileCoupled
<1>1. Inv /\ [Next]_vars => [desc'.fmt = "new" /\ desc.fmt # "new" => ~decoupled]_vars
  <2> SUFFICES ASSUME Inv, Next, desc'.fmt = "new", desc.fmt # "new" PROVE ~decoupled
    BY DEF vars
  <2>1. CASE ZeroBdlp \/ SetCbl \/ SetLvi \/ SetBdlp
    BY <2>1 DEF ZeroBdlp, SetCbl, SetLvi, SetBdlp, Program, Write, Inv, TypeOK
  <2>2. CASE SetFormat
    BY <2>2 DEF SetFormat, Program, Step, Inv, OthersInv
  <2>3. CASE SrstSettles
    BY <2>3 DEF SrstSettles, Cleared
  <2> QED  BY <2>1, <2>2, <2>3, DescKept
<1> QED  BY InitInv, NextInv, <1>1, PTL DEF Spec, FormatWhileCoupled

-----------------------------------------------------------------------------
(* The preparation ends.                                                   *)

\* The program's steps from a label to the end, on the longest way.
HostLeft ==
  CASE pc = "decouple" -> 25 [] pc = "stop" -> 24 [] pc = "stop_poll" -> 23
    [] pc = "clear_sts" -> 22 [] pc = "reset" -> 21 [] pc = "reset_poll" -> 20
    [] pc = "unreset" -> 19 [] pc = "unreset_poll" -> 18 [] pc = "position" -> 17
    [] pc = "bdl_zero" -> 16 [] pc = "stop_again" -> 15 [] pc = "stop_again_poll" -> 14
    [] pc = "clear_sts_again" -> 13 [] pc = "setup_bdl" -> 12 [] pc = "tag" -> 11
    [] pc = "cbl" -> 10 [] pc = "couple" -> 9 [] pc = "fmt" -> 8
    [] pc = "decouple_again" -> 7 [] pc = "lvi" -> 6 [] pc = "bdlp" -> 5
    [] pc = "posbuf" -> 4 [] pc = "int_enable" -> 3 [] pc = "spib" -> 2
    [] pc = "error" -> 1 [] OTHER -> 0

Bit(b) == IF b THEN 1 ELSE 0

\* The engine's steps to the program's next: RUN and SRST each settle once, a
\* reset forgets what was reported, and no status bit is reported twice.
EngineLeft ==
  Bit(run # runReq) + 4 * Bit(srst # srstReq)
  + Bit("complete" \notin sts) + Bit("fifo" \notin sts) + Bit("desc" \notin sts)

StepsLeft == 9 * HostLeft + EngineLeft

LEMMA EngineBounds == EngineLeft \in 0..8
  BY DEF EngineLeft, Bit

LEMMA HostBounds == HostLeft \in 0..25
  BY DEF HostLeft

\* Each step of the program comes nearer to its end.
LEMMA HostAdvances == ASSUME Host PROVE HostLeft' < HostLeft
<1>1. CASE Decouple \/ StopFirst \/ ClearSts1 \/ EnterReset \/ LeaveReset
  <2>1. \/ pc = "decouple" /\ pc' = "stop"
        \/ pc = "stop" /\ pc' = "stop_poll"
        \/ pc = "clear_sts" /\ pc' = "reset"
        \/ pc = "reset" /\ pc' = "reset_poll"
        \/ pc = "unreset" /\ pc' = "unreset_poll"
    BY <1>1, Zenon
    DEF Decouple, StopFirst, Stop, ClearSts1, ClearSts, EnterReset, Reset, LeaveReset, Step
  <2> QED  BY <2>1 DEF HostLeft
<1>2. CASE StopPoll \/ ResetPoll \/ UnresetPoll \/ StopAgainPoll
  <2>1. \/ pc = "stop_poll" /\ pc' \in {"clear_sts", "error"}
        \/ pc = "reset_poll" /\ pc' \in {"unreset", "error"}
        \/ pc = "unreset_poll" /\ pc' \in {"position", "error"}
        \/ pc = "stop_again_poll" /\ pc' \in {"clear_sts_again", "error"}
    BY <1>2, Zenon DEF StopPoll, ResetPoll, UnresetPoll, StopAgainPoll, Poll
  <2> QED  BY <2>1 DEF HostLeft
<1>3. CASE ResetPosition \/ ZeroBdlp \/ StopAgain \/ ClearSts2 \/ SetupBdl
  <2>1. \/ pc = "position" /\ pc' = "bdl_zero"
        \/ pc = "bdl_zero" /\ pc' = "stop_again"
        \/ pc = "stop_again" /\ pc' = "stop_again_poll"
        \/ pc = "clear_sts_again" /\ pc' = "setup_bdl"
        \/ pc = "setup_bdl" /\ pc' \in {"tag", "error"}
    BY <1>3, Zenon DEF ResetPosition, ZeroBdlp, StopAgain, Stop, ClearSts2, ClearSts, SetupBdl, Step
  <2> QED  BY <2>1 DEF HostLeft
<1>4. CASE SetTag \/ SetCbl \/ CoupleForFormat \/ SetFormat \/ DecoupleAgain
  <2>1. \/ pc = "tag" /\ pc' = "cbl"
        \/ pc = "cbl" /\ pc' = "couple"
        \/ pc = "couple" /\ pc' = "fmt"
        \/ pc = "fmt" /\ pc' = "decouple_again"
        \/ pc = "decouple_again" /\ pc' = "lvi"
    BY <1>4, Zenon
    DEF SetTag, SetCbl, CoupleForFormat, SetFormat, DecoupleAgain, Program, Couple, Step
  <2> QED  BY <2>1 DEF HostLeft
<1>5. CASE SetLvi \/ SetBdlp \/ EnablePosbuf \/ IntEnable \/ SpibConfig \/ ErrorPath
  <2>1. \/ pc = "lvi" /\ pc' = "bdlp"
        \/ pc = "bdlp" /\ pc' = "posbuf"
        \/ pc = "posbuf" /\ pc' = "int_enable"
        \/ pc = "int_enable" /\ pc' = "spib"
        \/ pc = "spib" /\ pc' = "ready"
        \/ pc = "error" /\ pc' = "failed"
    BY <1>5, Zenon
    DEF SetLvi, SetBdlp, Program, EnablePosbuf, IntEnable, SpibConfig, ErrorPath, Step
  <2> QED  BY <2>1 DEF HostLeft
<1> QED
  BY <1>1, <1>2, <1>3, <1>4, <1>5 DEF Host

\* A sum of bits falls when one falls and none of those rises that weigh as much.
LEMMA BitsFall ==
  ASSUME NEW x \in 0..1, NEW y \in 0..1, NEW u \in 0..1, NEW v \in 0..1, NEW w \in 0..1,
         NEW a \in 0..1, NEW b \in 0..1, NEW c \in 0..1, NEW d \in 0..1, NEW e \in 0..1,
         \/ a < x /\ b = y /\ c = u /\ d = v /\ e = w
         \/ a = x /\ b < y
         \/ a = x /\ b = y /\ c < u /\ d = v /\ e = w
         \/ a = x /\ b = y /\ d < v /\ c = u /\ e = w
         \/ a = x /\ b = y /\ e < w /\ c = u /\ d = v
  PROVE  a + 4 * b + c + d + e < x + 4 * y + u + v + w
  OBVIOUS

\* Each step of the engine uses up one of those it has.
LEMMA EngineAdvances == ASSUME TypeOK, Engine PROVE EngineLeft' < EngineLeft /\ HostLeft' = HostLeft
<1>1. HostLeft' = HostLeft
  BY Zenon DEF Engine, RunSettles, SrstSettles, Report, HostLeft
<1>2. \A b : Bit(b) \in 0..1
  BY DEF Bit
\* What the terms of the sum are before and after the step.
<1> DEFINE x == Bit(run # runReq)   y == Bit(srst # srstReq)
           u == Bit("complete" \notin sts)
           v == Bit("fifo" \notin sts)   w == Bit("desc" \notin sts)
<1>3. x \in 0..1 /\ y \in 0..1 /\ u \in 0..1 /\ v \in 0..1 /\ w \in 0..1
      /\ x' \in 0..1 /\ y' \in 0..1 /\ u' \in 0..1 /\ v' \in 0..1 /\ w' \in 0..1
  BY Zenon, <1>2
<1>4. EngineLeft = x + 4 * y + u + v + w /\ EngineLeft' = x' + 4 * y' + u' + v' + w'
  BY Zenon DEF EngineLeft
<1>5. CASE RunSettles
  <2>1. x = 1 /\ x' = 0 /\ y' = y /\ u' = u /\ v' = v /\ w' = w
    BY <1>5, Zenon DEF RunSettles, Bit
  <2> HIDE DEF x, y, u, v, w
  <2>2. x' < x
    BY <2>1
  <2> QED  BY <1>1, <1>3, <1>4, <2>1, <2>2, BitsFall, Zenon
<1>6. CASE SrstSettles
  <2>1. y = 1 /\ y' = 0 /\ x' = x
    BY <1>6, Zenon DEF SrstSettles, Bit
  <2> HIDE DEF x, y, u, v, w
  <2>2. y' < y
    BY <2>1
  <2> QED  BY <1>1, <1>3, <1>4, <2>1, <2>2, BitsFall, Zenon
<1>7. CASE Report
  <2>1. x' = x /\ y' = y
    BY <1>7, Zenon DEF Report, control, Bit
  <2>2. PICK b \in {"complete", "fifo", "desc"} : b \notin sts /\ sts' = sts \cup {b}
    BY <1>7 DEF Report, StatusBits
  <2>3. \/ u = 1 /\ u' = 0 /\ v' = v /\ w' = w
        \/ v = 1 /\ v' = 0 /\ u' = u /\ w' = w
        \/ w = 1 /\ w' = 0 /\ u' = u /\ v' = v
    BY <2>2 DEF Bit
  <2> HIDE DEF x, y, u, v, w
  <2>4. \/ u' < u /\ v' = v /\ w' = w
        \/ v' < v /\ u' = u /\ w' = w
        \/ w' < w /\ u' = u /\ v' = v
    BY <2>3
  <2>5. CASE u' < u /\ v' = v /\ w' = w
    BY <1>1, <1>3, <1>4, <2>1, <2>5, BitsFall, Zenon
  <2>6. CASE v' < v /\ u' = u /\ w' = w
    BY <1>1, <1>3, <1>4, <2>1, <2>6, BitsFall, Zenon
  <2>7. CASE w' < w /\ u' = u /\ v' = v
    BY <1>1, <1>3, <1>4, <2>1, <2>7, BitsFall, Zenon
  <2> QED  BY <2>4, <2>5, <2>6, <2>7
<1> QED
  BY <1>5, <1>6, <1>7, <1>1 DEF Engine

\* However the engine's steps fall between the program's, the preparation of
\* a stream ends, each of its bounded waits being one step here: the engine
\* moves at most eight times before the program does (loader-helper.c 21-65, 116-309).
THEOREM PreparationEnds == Spec => [](StepsLeft \in 0..233) /\ [][StepsLeft' < StepsLeft]_vars
<1>1. StepsLeft \in 0..233
  BY EngineBounds, HostBounds DEF StepsLeft
<1>2. ASSUME NEW a \in 0..25, NEW b \in 0..25, NEW c \in 0..8, NEW d \in 0..8,
             b < a \/ (b = a /\ d < c)
      PROVE  9 * b + d < 9 * a + c
  BY <1>2
<1>3. Inv /\ [Next]_vars => StepsLeft' < StepsLeft \/ UNCHANGED vars
  <2> SUFFICES ASSUME Inv, Next PROVE StepsLeft' < StepsLeft
    OBVIOUS
  <2>1. HostLeft' < HostLeft \/ (HostLeft' = HostLeft /\ EngineLeft' < EngineLeft)
    BY HostAdvances, EngineAdvances DEF Next, Inv
  <2>2. (HostLeft \in 0..25)' /\ (EngineLeft \in 0..8)'
    BY EngineBounds, HostBounds, PTL
  <2> QED
    BY <1>2, <2>1, <2>2, EngineBounds, HostBounds, Zenon DEF StepsLeft
<1> QED
  BY InitInv, NextInv, <1>1, <1>3, PTL DEF Spec
=============================================================================
