--------------------------- MODULE MCPremiumMedia ---------------------------
(***************************************************************************)
(* The instance of PremiumMedia for TLC.                                   *)
(***************************************************************************)
EXTENDS PremiumMedia, FiniteSets

Busy == {p \in Workers \cup Handlers \cup {Submitter} : proc[p].at # "idle"}

\* Any three of the four processes are in the middle of something at once, or died
\* there, and never all four.
ThreeAtOnce == Cardinality(Busy) <= 3
=============================================================================
