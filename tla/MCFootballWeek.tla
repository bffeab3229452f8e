--------------------------- MODULE MCFootballWeek ---------------------------
(* Three dates of one week, the second of them the Saturday, and one member *)
(* whose pick marks a round as claimed.  Two edits reach every mix of       *)
(* cadence, declared and undeclared rounds.                                 *)
EXTENDS FootballWeek, TLC

MCDays == 1..3
=============================================================================
