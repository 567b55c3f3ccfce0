---------------------------- MODULE MCAgentRuns ----------------------------
(***************************************************************************)
(* The instance of AgentRuns for TLC: every run belongs to the same page.  *)
(***************************************************************************)
EXTENDS AgentRuns

MCPageOf == [r \in Runs |-> "page"]

\* The switch decides which runs are claimed and swept and has no part in what
\* their packets do: automation is off at times only while no packet is left.
OffBeforePackets == paused => \A r \in Runs : Children(r) = {}
=============================================================================
