----------------------------- MODULE MCRcuQsbr -----------------------------
(* Bounded instances of RcuQsbr: the number of objects bounds the number of *)
(* tokens, as every object is removed once.                                 *)
EXTENDS RcuQsbr

\* Values for Self: no writer is a reader, or writer w1 is reader 0.
NoSelf == [w \in Writers |-> NoThread]
OneSelf == [w \in Writers |-> IF w = CHOOSE x \in Writers : TRUE THEN 0 ELSE NoThread]
=============================================================================
