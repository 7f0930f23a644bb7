---------------------------- MODULE PromptQueue ----------------------------
(***************************************************************************)
(* What the queue of a session promises about its prompts, whatever        *)
(* happens to the sandbox and the handlers: they are started in the order  *)
(* they were submitted, one at a time, each at most once, and what is done *)
(* stays done.                                                             *)
(***************************************************************************)
EXTENDS Naturals

CONSTANT MaxMessages

VARIABLE prompt

Ids == 1..MaxMessages

Init == prompt = [m \in Ids |-> "new"]

Submit(m) ==
  /\ prompt[m] = "new" /\ \A n \in Ids : n < m => prompt[n] # "new"
  /\ prompt' = [prompt EXCEPT ![m] = "queued"]

Begin(m) ==
  /\ prompt[m] = "queued" /\ \A n \in Ids : n < m => prompt[n] = "done"
  /\ prompt' = [prompt EXCEPT ![m] = "begun"]

\* Completion, failure, stop or withdrawal, of one prompt or of several.
End ==
  \E S \in SUBSET {m \in Ids : prompt[m] \in {"queued", "begun"}} :
    prompt' = [m \in Ids |-> IF m \in S THEN "done" ELSE prompt[m]]

Next == End \/ \E m \in Ids : Submit(m) \/ Begin(m)

Spec == Init /\ [][Next]_prompt
=============================================================================
