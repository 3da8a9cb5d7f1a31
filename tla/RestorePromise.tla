--------------------------- MODULE RestorePromise ----------------------------
(***************************************************************************)
(* What a restore promises its users, without stores, retries or workers:  *)
(* the organization of a package appears once and whole, or not at all; a  *)
(* restore that is reported COMPLETED has made one, and stays COMPLETED;   *)
(* one that is reported FAILED has made none, and may be tried again.      *)
(***************************************************************************)
CONSTANT Organizations   \* what a package may become

VARIABLES
  visible,   \* the organizations that users see
  verdict    \* what they are told: "open", "completed" or "failed"

promiseVars == <<visible, verdict>>

Init == visible = {} /\ verdict = "open"

Appear(o) == visible = {} /\ verdict = "open" /\ visible' = {o} /\ UNCHANGED verdict

Succeed == visible # {} /\ verdict = "open" /\ verdict' = "completed" /\ UNCHANGED visible

Fail == visible = {} /\ verdict = "open" /\ verdict' = "failed" /\ UNCHANGED visible

TryAgain == verdict = "failed" /\ verdict' = "open" /\ UNCHANGED visible

Next == (\E o \in Organizations : Appear(o)) \/ Succeed \/ Fail \/ TryAgain

Spec == Init /\ [][Next]_promiseVars
=============================================================================
