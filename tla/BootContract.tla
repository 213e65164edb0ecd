---------------------------- MODULE BootContract ----------------------------
(***************************************************************************)
(* What hda_dsp_cl_boot_firmware() promises its caller, without registers: *)
(* the stream is prepared once; the DSP is then tried at most Attempts     *)
(* times, each try but the last repeated on failure; only a try that       *)
(* succeeded is followed by the download, which is never repeated; and the *)
(* result is "ok" only after a download.                                   *)
(***************************************************************************)
EXTENDS Naturals

CONSTANT Attempts  \* a positive number

VARIABLES phase, tries, outcome

vars == <<phase, tries, outcome>>

Init == phase = "preparing" /\ tries = 0 /\ outcome = "none"

Prepare ==
  /\ phase = "preparing"
  /\ \/ phase' = "trying" /\ UNCHANGED outcome
     \/ phase' = "done" /\ outcome' = "error"
  /\ UNCHANGED tries

TryFails ==
  /\ phase = "trying"
  /\ tries' = tries + 1
  /\ \/ tries' < Attempts /\ UNCHANGED <<phase, outcome>>
     \/ tries' = Attempts /\ phase' = "done" /\ outcome' = "error"

TrySucceeds ==
  /\ phase = "trying" /\ tries < Attempts
  /\ phase' = "loading"
  /\ UNCHANGED <<tries, outcome>>

Load ==
  /\ phase = "loading"
  /\ phase' = "done" /\ outcome' \in {"ok", "error"}
  /\ UNCHANGED tries

Next == Prepare \/ TryFails \/ TrySucceeds \/ Load

\* The caller gets an answer.
Spec == Init /\ [][Next]_vars /\ WF_vars(Next)
=============================================================================
