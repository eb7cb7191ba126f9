------------------------------- MODULE MCApps -------------------------------
(***************************************************************************)
(* An instance of Apps for TLC: a text of one character in three cells, a  *)
(* light of four blinks.                                                   *)
(***************************************************************************)
EXTENDS Apps

MCText == [c \in Cells |-> IF c = 1 THEN MSG_NULL_TERM ELSE 0]
MCLight == <<1, 0, 1, 0>>
=============================================================================
