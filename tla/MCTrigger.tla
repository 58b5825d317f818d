----------------------------- MODULE MCTrigger ------------------------------
(***************************************************************************)
(* Small instances of Trigger: one pull request, three commands on the     *)
(* topic, one fault of each kind.                                          *)
(***************************************************************************)
EXTENDS Trigger

CONSTANTS p1

At(stage, queued) ==
    [config |-> TRUE, spec |-> 1, stage |-> stage, inDiff |-> TRUE,
     queued |-> queued]

OneSpec == {At("approved", TRUE), At("approved", FALSE), At("completed", FALSE)}

AllRequests == [pr : PRs, force : BOOLEAN, valid : {TRUE}]
                 \cup [pr : PRs, force : {FALSE}, valid : {FALSE}]

Forced == [pr : PRs, force : {TRUE}, valid : {TRUE}]

Pushed == [p \in PRs |-> {"push"}]
PushedAndDrafted == [p \in PRs |-> {"push", "draft"}]

OneFaultEach == [k \in TriggerFaultKinds |-> 1]
OneRestart == [k \in TriggerFaultKinds |-> IF k = "restart" THEN 1 ELSE 0]
=============================================================================
