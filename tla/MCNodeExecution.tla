-------------------------- MODULE MCNodeExecution --------------------------
(***************************************************************************)
(* Three tasks on two task slots: a wave of two agents with a harness node *)
(* after it, and two tasks of one harness node and one agent.              *)
(***************************************************************************)
EXTENDS NodeExecution

Agents    == {"a1", "a2", "a3"}
Harnesses == {"h1", "h2"}

ThreeTasks == << << {"a1", "a2"}, {"h1"} >>, << {"h2"} >>, << {"a3"} >> >>
=============================================================================
