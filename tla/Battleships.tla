----------------------------- MODULE Battleships -----------------------------
(***************************************************************************)
(* Battleships as two people play it at one table: what the packets, the   *)
(* repetitions and the state machines of Firewall are there to bring about. *)
(* A player's ships are numbered here the way the other one shoots at them. *)
(***************************************************************************)
EXTENDS Integers, FiniteSets

CONSTANTS
  Players,
  Cells,
  Boards,     \* what ships a player may place: sets of cells
  Numbers     \* the numbers that each player may draw

VARIABLES
  ships,      \* the player's ships; none before it joined the game
  number,     \* the number it drew: the higher one begins
  shots,      \* the cells that it has shot at,
  marked,     \* those of them that its opponent has marked,
  told,       \* those of them whose result it was told,
  hits,       \* and those that it has entered as hits
  winners,
  over        \* a player has left, and the boards were wiped

vars == <<ships, number, shots, marked, told, hits, winners, over>>

Wiped == [p \in Players |-> {}]

Clear ==
  /\ ships = Wiped /\ shots = Wiped /\ marked = Wiped /\ told = Wiped /\ hits = Wiped
  /\ number = [p \in Players |-> 0]
  /\ winners = {}

Init == Clear /\ ~over

Sunk(p, q) == ships[p] \subseteq marked[q]

Ahead(p, q) == Cardinality(shots[p]) - Cardinality(shots[q])

\* The player that began is one shot ahead, or it is its turn.
HasTheTurn(p, q) == IF number[p] > number[q] THEN Ahead(p, q) = 0 ELSE Ahead(q, p) = 1

Join(p) ==
  /\ ~over /\ ships[p] = {}
  /\ \E board \in Boards : ships' = [ships EXCEPT ![p] = board]
  /\ \E n \in Numbers[p] : number' = [number EXCEPT ![p] = n]
  /\ UNCHANGED <<shots, marked, told, hits, winners, over>>

\* Both have joined, nobody has lost, all shots are marked, and the player
\* knows what became of its own.
Shoot(p, q) ==
  /\ ships[p] # {} /\ ships[q] # {} /\ ~Sunk(p, q) /\ ~Sunk(q, p)
  /\ marked[p] = shots[p] /\ marked[q] = shots[q] /\ told[p] = shots[p]
  /\ HasTheTurn(p, q)
  /\ \E c \in Cells \ shots[p] : shots' = [shots EXCEPT ![p] = @ \cup {c}]
  /\ UNCHANGED <<ships, number, marked, told, hits, winners, over>>

\* q marks p's shot; it waits for one, so it knows what became of its own.
Mark(p, q) ==
  /\ marked[p] # shots[p] /\ ~Sunk(q, p) /\ told[q] = shots[q]
  /\ marked' = [marked EXCEPT ![p] = shots[p]]
  /\ UNCHANGED <<ships, number, shots, told, hits, winners, over>>

\* p is told of its marked shot: that it has won, or whether it was a hit.
Tell(p, q) ==
  /\ told[p] # shots[p] /\ marked[p] = shots[p]
  /\ told' = [told EXCEPT ![p] = shots[p]]
  /\ IF Sunk(q, p)
     THEN winners' = winners \cup {p} /\ UNCHANGED hits
     ELSE hits' = [hits EXCEPT ![p] = shots[p] \cap ships[q]] /\ UNCHANGED winners
  /\ UNCHANGED <<ships, number, shots, marked, over>>

Leave(p) == ~over /\ ships[p] # {} /\ over' /\ Clear'

Next ==
  \E p \in Players :
    \/ Join(p) \/ Leave(p)
    \/ \E q \in Players \ {p} : Shoot(p, q) \/ Mark(p, q) \/ Tell(p, q)

Spec == Init /\ [][Next]_vars
=============================================================================
