--------------------------- MODULE MCVoiceSession ---------------------------
(***************************************************************************)
(* Instances of VoiceSession for TLC: close calls are interchangeable.     *)
(***************************************************************************)
EXTENDS VoiceSession, TLC

CloserSymmetry == Permutations(Closers)
=============================================================================
