-------------------------- MODULE MCRoundCompletion --------------------------
(* Two members, three tasks and two fan-out slots: enough for two pick      *)
(* paths and a roster path to meet at the event's unique key.               *)
EXTENDS RoundCompletion
=============================================================================
