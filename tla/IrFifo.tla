------------------------------- MODULE IrFifo -------------------------------
(***************************************************************************)
(* What an IR packet queue of the badge promises its two users: a bounded  *)
(* first-in first-out mailbox.  The producer may Put a packet while the    *)
(* mailbox has room; the consumer Takes the oldest one into `taken`, the   *)
(* place it works from, and may forget it (Forget) once it is done.        *)
(* Nothing is lost, repeated, reordered or altered between Put and Take.   *)
(* IrLink implements it twice: once for packets received, once for packets *)
(* to send.                                                                *)
(***************************************************************************)
EXTENDS Naturals, Sequences

CONSTANTS
  Capacity,   \* packets the mailbox has room for
  KeepsPlace, \* TRUE when a packet taken keeps its place until it is forgotten
  Items,      \* what can be put in it
  Nothing     \* what `taken` holds when the consumer works on no packet

VARIABLES waiting, taken

fifoVars == <<waiting, taken>>

InUse == Len(waiting) + (IF KeepsPlace /\ taken # Nothing THEN 1 ELSE 0)

Init == waiting = <<>> /\ taken = Nothing

Put(p) ==
  /\ InUse < Capacity
  /\ waiting' = Append(waiting, p)
  /\ UNCHANGED taken

Take ==
  /\ waiting # <<>>
  /\ taken = Nothing
  /\ taken' = Head(waiting)
  /\ waiting' = Tail(waiting)

Forget == taken # Nothing /\ taken' = Nothing /\ UNCHANGED waiting

Next == (\E p \in Items : Put(p)) \/ Take \/ Forget

Spec == Init /\ [][Next]_fifoVars
=============================================================================
