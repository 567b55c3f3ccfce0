---------------------------- MODULE MCEventStream ----------------------------
(***************************************************************************)
(* Instances of EventStream for TLC.  Number 2 belongs to another          *)
(* workspace, so pages of the broadcast and of the replay differ.          *)
(***************************************************************************)
EXTENDS EventStream

MCMine == Seqs \ {2}
=============================================================================
