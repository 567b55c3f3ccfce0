---------------------------- MODULE MCAiRequest ----------------------------
(***************************************************************************)
(* Instances of AiRequest for TLC: callers c1 and c2 use the same key,     *)
(* further callers a key of their own; one top-up.                         *)
(***************************************************************************)
EXTENDS AiRequest

CONSTANTS c1, c2, q1, q2

MCKeyOf == [c \in Callers |-> IF c \in {c1, c2} THEN q1 ELSE q2]

MCAmount == [t \in Topups |-> 3]

MCNone == [r \in Reversals |-> 0]
=============================================================================
