------------------------------ MODULE PressOnce ------------------------------
(***************************************************************************)
(* What the touch driver promises the program that polls it: each press of *)
(* a key is reported at most once, never before it happened, and a press   *)
(* that lasts is never passed over.  A poll that succeeds first claims the *)
(* press and then answers; only if the key is let go in between may the    *)
(* answer be "no" and the press be lost.  Touch implements it.             *)
(***************************************************************************)
EXTENDS FiniteSets

CONSTANTS
  Keys,
  NoKey      \* what `claimed` holds when no press is claimed

VARIABLES
  held,      \* keys that are down
  unseen,    \* keys that are down and whose press was not claimed yet
  claimed,   \* the key whose press a poll has claimed
  lasting,   \* it is still down
  answer     \* the last answer: <<key, was it pressed>>

pressVars == <<held, unseen, claimed, lasting, answer>>

Init ==
  /\ held = {} /\ unseen = {}
  /\ claimed = NoKey /\ lasting = FALSE
  /\ answer = <<NoKey, FALSE>>

\* The fingers move: the keys down are now `down`.
Scan(down) ==
  /\ held' = down
  /\ unseen' = {k \in down : k \in unseen \/ k \notin held}
  /\ lasting' = (lasting /\ claimed \in down)
  /\ UNCHANGED <<claimed, answer>>

Claim(k) ==
  /\ claimed = NoKey /\ k \in unseen
  /\ unseen' = unseen \ {k}
  /\ claimed' = k /\ lasting' = TRUE
  /\ UNCHANGED <<held, answer>>

Report ==
  /\ claimed # NoKey
  /\ \E pressed \in BOOLEAN : /\ lasting => pressed
                              /\ answer' = <<claimed, pressed>>
  /\ claimed' = NoKey /\ lasting' = FALSE
  /\ UNCHANGED <<held, unseen>>

Deny(k) ==
  /\ claimed = NoKey /\ k \notin unseen
  /\ answer' = <<k, FALSE>>
  /\ UNCHANGED <<held, unseen, claimed, lasting>>

Pending(k) == k \in unseen

Next == \/ \E down \in SUBSET Keys : Scan(down)
        \/ \E k \in Keys : Claim(k) \/ Deny(k)
        \/ Report

Spec == Init /\ [][Next]_pressVars
=============================================================================
