------------------------------- MODULE MCTouch -------------------------------
(***************************************************************************)
(* An instance of Touch for TLC: on each slider nothing, one half, the     *)
(* other half, or the finger between the two.                              *)
(***************************************************************************)
EXTENDS Touch

Across == {<<3, 3>>, <<0, 3>>}
Along == Across \cup {<<3, 0>>, <<0, 1>>}
MCReadings == {[p \in Pads |-> CASE p = "LEFT_SLIDER" -> h[1] [] p = "RIGHT_SLIDER" -> h[2]
                                 [] p = "TOP_SLIDER" -> u[1] [] OTHER -> u[2]] :
               h \in Across, u \in Along}
MCPolls == <<"TOP_SLIDER", "BOTTOM_SLIDER">>
=============================================================================
