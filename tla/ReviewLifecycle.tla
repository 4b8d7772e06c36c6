--------------------------- MODULE ReviewLifecycle ---------------------------
(***************************************************************************)
(* What a security review promises its agent and its reviewer: the four    *)
(* statuses in order, a task list fixed by the answers, and attestations   *)
(* that cover it.                                                          *)
(***************************************************************************)
EXTENDS Naturals

CONSTANT TaskDefs

VARIABLES status, tasks, attestations

vars == <<status, tasks, attestations>>

TaskId == Nat \X TaskDefs

Init ==
    /\ status = "questionnaire_pending"
    /\ tasks = {}
    /\ attestations = {}

Answer ==
    /\ status = "questionnaire_pending"
    /\ status' = "questionnaire_answered"
    /\ tasks' \in SUBSET TaskId
    /\ UNCHANGED attestations

Acknowledge ==
    /\ status = "questionnaire_answered"
    /\ status' = "tasks_acknowledged"
    /\ UNCHANGED <<tasks, attestations>>

Attest ==
    /\ status = "tasks_acknowledged"
    /\ status' = "attested"
    /\ attestations' = tasks
    /\ UNCHANGED tasks

Next == Answer \/ Acknowledge \/ Attest

Spec == Init /\ [][Next]_vars
=============================================================================
