---------------------------- MODULE MCAgentTasks ----------------------------
(* Instances of AgentTasks for TLC. *)
EXTENDS AgentTasks

\* The general agent is not restricted, the explorer only reads.
TwoDefinitions == [a \in {"general", "explore"} |-> IF a = "explore" THEN {"read"} ELSE {}]

FreshOnly == {<<>>}
FreshOrChat == {<<>>, <<"seed", "seed">>}
ChatOnly == {<<"seed", "seed">>}

\* No tool, an unknown one, single uses, and batches with an unsafe one in them.
EveryReply ==
  {<<>>, <<"ghost">>, <<"read">>, <<"complete">>, <<"agent">>, <<"message">>,
   <<"read", "complete">>, <<"read", "message">>}

Delegation == {<<"agent">>, <<"complete">>}
Reading == {<<"read">>, <<"complete">>}
=============================================================================
