------------------------------ MODULE MCTimer ------------------------------
(* Bounded instances of Timer.                                              *)
EXTENDS Timer

CONSTANTS c0, c1

\* The lists that rte_timer_alt_manage polls.
MCPollLcores == <<c0, c1>>
=============================================================================
