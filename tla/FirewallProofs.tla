--------------------------- MODULE FirewallProofs ---------------------------
(***************************************************************************)
(* The safety properties of Firewall for every grid, ships, numbers drawn  *)
(* and loss of packets, in a game between two badges (TwoPlayers).         *)
(***************************************************************************)
EXTENDS Firewall, FiniteSetTheorems, LeastTheorems

-----------------------------------------------------------------------------
(* The inductive invariant.                                                *)

\* Before the first shot; states a badge is in before another has answered;
\* those in which it waits for a shot, and those in which it has the turn.
Handshake == {"WELCOME_SCREEN", "INITIAL_DISPLAY", "WAITING_FOR_CONNECT",
              "WAITING_FOR_OTHER_PLAYER", "WHO_GOES_FIRST"}
Alone == {"START", "WELCOME_SCREEN", "INITIAL_DISPLAY", "WAITING_FOR_CONNECT", "EXIT"}
Defending == {"DISPLAY_DEFENSE", "WAITING", "SHOW_OFF_GRID", "DISPLAY_HIT", "DISPLAY_MISS"}
Attacking == {"DISPLAY_OFFENSE", "SEND_HIT", "SEND_MISS", "TAKE_SHOT"}

Packet == [cmd : DOMAIN Heeded, num : Nat, cell : Cell]
IsShot(m) == m.cmd = "SHOT_TAKEN"
IsResult(m) == m.cmd \in {"IM_HIT", "YOU_MISSED", "IM_DEAD"}

\* The shots at b that b has recorded, as its opponent numbers the cells.
Heard(b) == Mirror(defensive_tries[b])
Flying(a, b) == offensive_tries[a] # Heard(b)
Fresh(a, m) == Transposed(m.cell) \notin defensive_tries[a]
Lost(b) == defensive_tries[b] # {} /\ placed_items[b] \subseteq defensive_tries[b]
Playing(b) == ~Left(b)

\* Types, and the shots can be counted.
TypeInv ==
  /\ state \in [Badges -> States] /\ my_random \in [Badges -> Nat]
  /\ curr \in [Badges -> Cell] /\ placed_items \in [Badges -> SUBSET Cell]
  /\ offensive_tries \in [Badges -> SUBSET Cell] /\ offensive_hits \in [Badges -> SUBSET Cell]
  /\ defensive_tries \in [Badges -> SUBSET Cell]
  /\ inbox \in [Badges -> Seq(Packet)] /\ opens \in [Badges -> Nat]
  /\ \A b \in Badges : IsFiniteSet(offensive_tries[b]) /\ Len(inbox[b]) <= InboxRoom

\* What holds of a badge alone.
Idle(a) ==
  Left(a) => /\ placed_items[a] = {} /\ offensive_tries[a] = {}
             /\ offensive_hits[a] = {} /\ defensive_tries[a] = {}

\* Own board and mailbox: nothing was shot at before the handshake ended, and
\* the state after a shot is its verdict.
Solo(a) ==
  /\ my_random[a] \in Randoms[a] /\ opens[a] = 1
  /\ state[a] \in Handshake =>
       offensive_tries[a] = {} /\ offensive_hits[a] = {} /\ defensive_tries[a] = {}
  /\ state[a] # "WELCOME_SCREEN" => placed_items[a] # {}
  /\ state[a] = "SENDING_SHOT" => curr[a] \in offensive_tries[a]
  /\ state[a] \in {"SEND_HIT", "SEND_MISS"} =>
       /\ curr[a] \in defensive_tries[a]
       /\ curr[a] \in placed_items[a] <=> state[a] = "SEND_HIT"
  /\ state[a] = "DEAD" => Lost(a)
  /\ Lost(a) => state[a] \in {"DEAD", "EXIT"}
  /\ state[a] = "DISPLAY_OFFENSE" => offensive_tries[a] = {} /\ defensive_tries[a] = {}
  /\ offensive_hits[a] \subseteq offensive_tries[a]
  /\ \A i \in DOMAIN inbox[a] :
       inbox[a][i].cmd = "IM_HIT" => Transposed(inbox[a][i].cell) \in offensive_tries[a]

Own(a) == Idle(a) /\ (Playing(a) => Solo(a))

\* Until a has opened the game, its opponent has come no further than to ask.
Unopened(a, b) ==
  opens[a] = 0 =>
    /\ Left(a) /\ state[b] \in Alone /\ inbox[b] = <<>>
    /\ offensive_tries[b] = {} /\ offensive_hits[b] = {} /\ defensive_tries[b] = {}
    /\ \A i \in DOMAIN inbox[a] : inbox[a][i].cmd = "SHALL_WE_PLAY"

\* A packet from b that a has not handled: numbers are those that were drawn,
\* a shot was taken; whoever waits for a shot does not find an old one; and the
\* result that a shooter finds is that of its last shot.
Fits(a, b, m) ==
  /\ m.cmd = "WHO_STARTS" => m.num = my_random[b]
  /\ m.cmd = "LETS_START" => m.num = my_random[b] \/ (m.num = 0 /\ my_random[a] > my_random[b])
  /\ IsShot(m) => /\ m.cell \in offensive_tries[b]
                  /\ state[a] \in Handshake \cup Defending => Fresh(a, m)
  /\ IsResult(m) =>
       /\ state[a] \notin Handshake \cup Attacking
       /\ state[a] = "SENDING_SHOT" =>
            /\ curr[a] \in Heard(b)
            /\ m.cmd = "IM_DEAD" <=> Lost(b)
            /\ m.cmd = "IM_HIT" =>
                 Transposed(m.cell) = curr[a] /\ Transposed(curr[a]) \in placed_items[b]
            /\ m.cmd = "YOU_MISSED" => Transposed(curr[a]) \notin placed_items[b]

Mail(a, b) == \A i \in DOMAIN inbox[a] : Fits(a, b, inbox[a][i])

\* m may come before n: results before the shot that follows them.
InOrder(a, m, n) ==
  /\ IsShot(m) /\ Fresh(a, m) => ~IsResult(n)
  /\ IsResult(m) /\ IsShot(n) => Fresh(a, n)

Order(a) ==
  state[a] \notin {"DEAD", "EXIT"} =>
    \A i, j \in DOMAIN inbox[a] : i < j => InOrder(a, inbox[a][i], inbox[a][j])

\* What a knows of its shots, and what b knows of them.
Tries(a, b) ==
  /\ Heard(b) \subseteq offensive_tries[a]
  /\ offensive_tries[a] \ Heard(b)
       \subseteq (IF state[a] \in {"SENDING_SHOT", "EXIT"} THEN {curr[a]} ELSE {})
  /\ offensive_hits[a] \subseteq Heard(b) \cap Mirror(placed_items[b])
  /\ Heard(b) \cap Mirror(placed_items[b])
       \subseteq offensive_hits[a]
         \cup (IF state[a] \in {"SENDING_SHOT", "EXIT", "BASKING"} THEN {curr[a]} ELSE {})

\* How far the badge that began is ahead, by whose turn it is.
Ahead(a, b) == Cardinality(offensive_tries[a]) - Cardinality(offensive_tries[b])

Turn(a, b) ==
  my_random[a] > my_random[b] =>
    /\ Ahead(a, b) \in {0, 1}
    /\ state[a] \in Attacking \/ Flying(b, a) => Ahead(a, b) = 0
    /\ state[b] \in Attacking \/ Flying(a, b) => Ahead(a, b) = 1

\* What a's state says of b's.
Duel(a, b) ==
  /\ state[a] = "DISPLAY_OFFENSE" => my_random[a] > my_random[b]
  /\ state[a] = "DISPLAY_DEFENSE" => my_random[a] < my_random[b]
  /\ state[a] = "TAKE_SHOT" => curr[a] \notin offensive_tries[a]
  /\ state[a] \in Attacking \cup {"DEAD"} => ~Flying(b, a)
  /\ state[a] \in {"SEND_HIT", "SEND_MISS"} /\ state[b] = "SENDING_SHOT" =>
       curr[a] = Transposed(curr[b])
  /\ Lost(a) => state[b] \in {"SENDING_SHOT", "BASKING", "EXIT"}
  /\ state[b] = "BASKING" => Lost(a)
  /\ state[b] = "SENDING_SHOT" /\ curr[b] \in Heard(a) =>
       \/ state[a] \in Attacking \cup {"DEAD", "EXIT"}
       \/ state[a] = "SENDING_SHOT" /\ Flying(a, b)

Pair(a, b) == Mail(a, b) /\ Order(a) /\ Tries(a, b) /\ Turn(a, b) /\ Duel(a, b)

Both(a, b) == Unopened(a, b) /\ (Playing(a) /\ Playing(b) => Pair(a, b))

IInv ==
  /\ TypeInv
  /\ \A a \in Badges : Own(a)
  /\ \A a, b \in Badges : a # b => Both(a, b)

-----------------------------------------------------------------------------
(* Cells.                                                                  *)

(* Rows and columns change places twice.                                   *)
LEMMA Transposing ==
  /\ \A c \in Cell : Transposed(c) \in Cell /\ Transposed(Transposed(c)) = c
  /\ \A S \in SUBSET Cell : Mirror(S) \in SUBSET Cell
  /\ \A S \in SUBSET Cell, c \in Cell : c \in Mirror(S) <=> Transposed(c) \in S
  /\ Mirror({}) = {}
<1>1. \A c \in Cell : Transposed(c) \in Cell /\ Transposed(Transposed(c)) = c
  BY DEF Cell, Transposed
<1> HIDE DEF Cell
<1>2. \A S \in SUBSET Cell : Mirror(S) \in SUBSET Cell BY <1>1 DEF Mirror
<1>3. ASSUME NEW S \in SUBSET Cell, NEW c \in Cell
      PROVE  c \in Mirror(S) <=> Transposed(c) \in S
  BY <1>1 DEF Mirror
<1>4. Mirror({}) = {} BY DEF Mirror
<1> QED BY <1>1, <1>2, <1>3, <1>4

(* One more shot is recorded.                                              *)
LEMMA MirrorAdds ==
  ASSUME NEW S \in SUBSET Cell, NEW c \in Cell
  PROVE  Mirror(S \cup {c}) = Mirror(S) \cup {Transposed(c)}
BY Transposing

(* A grid has finitely many cells, one of them first by rows.              *)
LEMMA FirstCell ==
  ASSUME NEW S \in SUBSET Cell, S # {}
  PROVE  \E c \in S : \A d \in S \ {c} : Before(c, d)
<1> DEFINE rows == {c[1] : c \in S}
<1>1. GRID_CELLS \in Nat BY GridAssumption
<1>2. \A c \in S : c[1] \in Nat /\ c[2] \in Nat /\ c = <<c[1], c[2]>> BY <1>1 DEF Cell
<1>3. rows \in SUBSET Nat /\ rows # {} BY <1>2
<1> DEFINE r == Min(rows)
<1>4. r \in rows /\ \A k \in rows : r <= k BY <1>3, MinIsLeast
<1> HIDE DEF r
<1> DEFINE row == {c \in S : c[1] = r}  columns == {c[2] : c \in row}
<1>5. columns \in SUBSET Nat /\ columns # {} BY <1>2, <1>4
<1>6. Min(columns) \in columns /\ \A k \in columns : Min(columns) <= k BY <1>5, MinIsLeast
<1>7. PICK c \in row : \A k \in columns : c[2] <= k BY <1>6
<1>8. ASSUME NEW d \in S \ {c} PROVE Before(c, d)
  <2>1. c \in S /\ c[1] = r /\ r <= d[1] BY <1>4, <1>7
  <2>2. CASE d[1] = r
    <3>1. c[2] <= d[2] BY <1>7, <2>2
    <3>2. c[2] # d[2] BY <1>2, <1>8, <2>1, <2>2
    <3> QED BY <1>2, <2>1, <2>2, <3>1, <3>2 DEF Before
  <2>3. CASE d[1] # r BY <1>2, <1>4, <2>1, <2>3 DEF Before
  <2> QED BY <2>2, <2>3
<1> QED BY <1>7, <1>8

-----------------------------------------------------------------------------
(* Two players.                                                            *)

\* The two badges of TwoPlayers.
Players(x, y) ==
  /\ x \in Badges /\ y \in Badges /\ x # y /\ Badges = {x, y}
  /\ Randoms[x] \cap Randoms[y] = {} /\ MaxOpens <= 1 /\ {} \notin Placements

(* With two badges the invariant is about them and their two pairs.        *)
LEMMA OfBoth ==
  ASSUME NEW x, NEW y, Players(x, y)
  PROVE  /\ IInv <=> TypeInv /\ Own(x) /\ Own(y) /\ Both(x, y) /\ Both(y, x)
         /\ (IInv <=> TypeInv /\ Own(x) /\ Own(y) /\ Both(x, y) /\ Both(y, x))'
<1>1. x \in Badges /\ y \in Badges /\ x # y /\ Badges = {x, y} BY DEF Players
<1>2. IInv <=> TypeInv /\ Own(x) /\ Own(y) /\ Both(x, y) /\ Both(y, x) BY <1>1 DEF IInv
<1>3. (IInv <=> TypeInv /\ Own(x) /\ Own(y) /\ Both(x, y) /\ Both(y, x))' BY <1>1 DEF IInv
<1> QED BY <1>2, <1>3

-----------------------------------------------------------------------------
(* Sending.                                                                *)

(* What a badge sends, by its state.                                       *)
LEMMA OutgoingIs ==
  ASSUME NEW x, NEW m \in Outgoing(x)
  PROVE  \/ state[x] = "WAITING_FOR_CONNECT" /\ m = Message("SHALL_WE_PLAY", 0, NoCell)
         \/ state[x] = "WAITING_FOR_OTHER_PLAYER" /\ m = Message("LOVE_TO", 0, NoCell)
         \/ state[x] = "WHO_GOES_FIRST" /\ m = Message("WHO_STARTS", my_random[x], NoCell)
         \/ state[x] = "DISPLAY_OFFENSE" /\ m = Message("LETS_START", my_random[x], NoCell)
         \/ state[x] = "DISPLAY_DEFENSE" /\ m = Message("LETS_START", 0, NoCell)
         \/ state[x] = "SENDING_SHOT" /\ m = Message("SHOT_TAKEN", 0, curr[x])
         \/ state[x] = "SEND_HIT" /\ m = Message("IM_HIT", 0, curr[x])
         \/ state[x] = "SEND_MISS" /\ m = Message("YOU_MISSED", 0, curr[x])
         \/ state[x] = "DEAD" /\ m = Message("IM_DEAD", 0, NoCell)
BY DEF Outgoing

(* What a badge sends in its state fits behind all that it sent before.    *)
LEMMA SentFits ==
  ASSUME NEW x, NEW y, Players(x, y), IInv, NEW m \in Outgoing(x)
  PROVE  /\ m \in Packet /\ Playing(x)
         /\ opens[y] = 0 => m.cmd = "SHALL_WE_PLAY"
         /\ Playing(y) => /\ Fits(y, x, m)
                          /\ state[y] \notin {"DEAD", "EXIT"} =>
                               \A i \in DOMAIN inbox[y] : InOrder(y, inbox[y][i], m)
                          /\ m.cmd = "IM_HIT" => Transposed(m.cell) \in offensive_tries[y]
<1>1. /\ x \in Badges /\ y \in Badges /\ x # y /\ TypeInv
      /\ Own(x) /\ Own(y) /\ Both(x, y) /\ Both(y, x)
  BY OfBoth DEF Players
<1>2. m \in Packet /\ Playing(x)
  <2>1. my_random[x] \in Nat /\ curr[x] \in Cell /\ NoCell \in Cell
    BY <1>1, GridAssumption DEF TypeInv, Cell, NoCell
  <2> HIDE DEF Cell
  <2>2. DOMAIN Heeded = {"SHALL_WE_PLAY", "LOVE_TO", "WHO_STARTS", "LETS_START", "SHOT_TAKEN",
                         "IM_HIT", "YOU_MISSED", "IM_DEAD"}
    BY DEF Heeded, HeededIn
  <2> QED BY <2>1, <2>2, OutgoingIs DEF Message, Packet, Playing, Left
<1>3. ASSUME opens[y] = 0 PROVE m.cmd = "SHALL_WE_PLAY"
  <2>1. state[x] \in Alone BY <1>1, <1>3 DEF Both, Unopened
  <2> QED BY <2>1, OutgoingIs DEF Alone, Message
<1>4. SUFFICES ASSUME Playing(y)
               PROVE  /\ Fits(y, x, m)
                      /\ state[y] \notin {"DEAD", "EXIT"} =>
                           \A i \in DOMAIN inbox[y] : InOrder(y, inbox[y][i], m)
                      /\ m.cmd = "IM_HIT" => Transposed(m.cell) \in offensive_tries[y]
  BY <1>2, <1>3
<1>5. /\ Tries(x, y) /\ Tries(y, x) /\ Turn(x, y) /\ Turn(y, x) /\ Duel(x, y) /\ Duel(y, x)
      /\ Solo(x) /\ Solo(y) /\ Mail(y, x)
  BY <1>1, <1>2, <1>4 DEF Own, Both, Pair
<1>6. /\ curr[x] \in Cell /\ curr[y] \in Cell /\ my_random[x] \in Nat /\ my_random[y] \in Nat
      /\ defensive_tries[x] \in SUBSET Cell /\ defensive_tries[y] \in SUBSET Cell
      /\ IsFiniteSet(offensive_tries[x]) /\ IsFiniteSet(offensive_tries[y])
      /\ state[x] \in States /\ state[y] \in States
  BY <1>1 DEF TypeInv
<1>7. CASE ~IsShot(m) /\ ~IsResult(m)
  <2>1. Fits(y, x, m)
    BY <1>5, <1>6, <1>7, OutgoingIs DEF Fits, IsShot, IsResult, Message, Duel
  <2> QED BY <1>7, <2>1 DEF InOrder, IsResult, IsShot
<1>8. CASE IsShot(m)
  <2>1. state[x] = "SENDING_SHOT" /\ m = Message("SHOT_TAKEN", 0, curr[x])
    BY <1>8, OutgoingIs DEF IsShot, Message
  <2>2. m.cell = curr[x] /\ ~IsResult(m) /\ m.cmd = "SHOT_TAKEN" BY <2>1 DEF Message, IsResult
  <2>3. curr[x] \in offensive_tries[x] BY <1>5, <2>1 DEF Solo
  <2>4. ASSUME ~Fresh(y, m)
        PROVE  \/ state[y] \in Attacking \cup {"DEAD", "EXIT"}
               \/ state[y] = "SENDING_SHOT" /\ Flying(y, x)
    <3>1. curr[x] \in Heard(y) BY <1>6, <2>2, <2>4, Transposing DEF Fresh, Heard
    <3> QED BY <1>5, <2>1, <3>1 DEF Duel
  <2>5. Fits(y, x, m) BY <2>2, <2>3, <2>4 DEF Fits, Attacking, Handshake, Defending
  <2>6. ASSUME NEW i \in DOMAIN inbox[y], IsResult(inbox[y][i]), ~Fresh(y, m),
               state[y] \notin {"DEAD", "EXIT"}
        PROVE  FALSE
    <3>1. Fits(y, x, inbox[y][i]) BY <1>5 DEF Mail
    <3>2. state[y] = "SENDING_SHOT" /\ Flying(y, x) BY <2>4, <2>6, <3>1 DEF Fits
    <3>3. curr[y] \in Heard(x) BY <2>6, <3>1, <3>2 DEF Fits
    <3>4. offensive_tries[y] \ Heard(x) = {} BY <1>5, <3>2, <3>3 DEF Tries
    <3> QED BY <1>5, <3>2, <3>4 DEF Tries, Flying
  <2>7. ASSUME NEW i \in DOMAIN inbox[y], state[y] \notin {"DEAD", "EXIT"}
        PROVE  InOrder(y, inbox[y][i], m)
    BY <2>2, <2>6, <2>7 DEF InOrder
  <2> QED BY <2>2, <2>5, <2>7
<1>9. CASE IsResult(m)
  <2>1. state[x] \in {"SEND_HIT", "SEND_MISS", "DEAD"} BY <1>9, OutgoingIs DEF IsResult, Message
  <2>2. /\ m.cmd = "IM_HIT" <=> state[x] = "SEND_HIT"
        /\ m.cmd = "YOU_MISSED" <=> state[x] = "SEND_MISS"
        /\ m.cmd = "IM_DEAD" <=> state[x] = "DEAD"
        /\ m.cmd = "IM_HIT" => m.cell = curr[x]
        /\ ~IsShot(m)
    BY <1>9, OutgoingIs DEF IsResult, IsShot, Message
  <2>3. offensive_tries[y] = Heard(x) BY <1>5, <2>1 DEF Duel, Attacking, Flying
  <2>4. Lost(x) <=> state[x] = "DEAD" BY <1>5, <2>1 DEF Solo
  <2>5. state[y] \notin Attacking
    <3>1. CASE state[x] = "DEAD" BY <1>5, <2>4, <3>1 DEF Duel, Attacking
    <3>2. CASE state[x] \in Attacking
      <4>1. my_random[x] > my_random[y] \/ my_random[y] > my_random[x]
        BY <1>5, <1>6 DEF Players, Solo
      <4> QED BY <1>5, <3>2, <4>1 DEF Turn
    <3> QED BY <2>1, <3>1, <3>2 DEF Attacking
  <2>6. state[y] = "SENDING_SHOT" => curr[y] \in Heard(x) BY <1>5, <2>3 DEF Solo
  <2>7. ASSUME state[x] \in {"SEND_HIT", "SEND_MISS"}, state[y] = "SENDING_SHOT"
        PROVE  /\ Transposed(curr[x]) = curr[y] /\ Transposed(curr[y]) = curr[x]
               /\ Transposed(curr[y]) \in placed_items[x] <=> state[x] = "SEND_HIT"
    <3>1. curr[x] = Transposed(curr[y]) BY <1>5, <2>7 DEF Duel
    <3> QED BY <1>5, <1>6, <2>7, <3>1, Transposing DEF Solo
  <2>8. state[y] \notin Handshake
    <3>1. defensive_tries[x] # {} BY <1>5, <2>1, <2>4 DEF Solo, Lost
    <3>2. Heard(x) # {} BY <1>6, <3>1, Transposing DEF Heard
    <3> QED BY <1>5, <2>3, <3>2 DEF Solo
  <2>9. Fits(y, x, m) BY <1>9, <2>1, <2>2, <2>4, <2>5, <2>6, <2>7, <2>8 DEF Fits, IsResult
  <2>10. ASSUME NEW i \in DOMAIN inbox[y] PROVE ~(IsShot(inbox[y][i]) /\ Fresh(y, inbox[y][i]))
    <3>1. SUFFICES ASSUME IsShot(inbox[y][i]), Fresh(y, inbox[y][i]) PROVE FALSE OBVIOUS
    <3>2. inbox[y][i].cell \in offensive_tries[x] BY <1>5, <3>1 DEF Mail, Fits
    <3>3. inbox[y][i].cell \in Cell BY <1>1, <3>2 DEF TypeInv
    <3>4. inbox[y][i].cell \notin Heard(y) BY <1>6, <3>1, <3>3, Transposing DEF Fresh, Heard
    <3> QED BY <1>5, <2>1, <3>2, <3>4 DEF Tries
  <2>11. m.cmd = "IM_HIT" => Transposed(m.cell) \in offensive_tries[y]
    BY <1>5, <1>6, <2>2, <2>3, Transposing DEF Solo, Heard
  <2> QED BY <2>2, <2>9, <2>10, <2>11 DEF InOrder
<1> QED BY <1>7, <1>8, <1>9

(* Send: the packet is lost, or is the last in the opponent's mailbox.     *)
LEMMA SendKeeps ==
  ASSUME NEW x, NEW y, Players(x, y), IInv, Send(x)
  PROVE  IInv'
<1>1. /\ x \in Badges /\ y \in Badges /\ x # y /\ TypeInv /\ Badges = {x, y}
      /\ Own(x) /\ Own(y) /\ Both(x, y) /\ Both(y, x)
  BY OfBoth DEF Players
<1>2. UNCHANGED <<state, my_random, curr, gridVars, opens>> BY DEF Send
<1>3. inbox'[x] = inbox[x] /\ inbox' = [c \in Badges |-> inbox'[c]]
  BY <1>1 DEF Send, TypeInv
<1>4. PICK m \in Outgoing(x) :
        inbox'[y] = inbox[y] \/ (inbox'[y] = Append(inbox[y], m) /\ Len(inbox[y]) < InboxRoom)
  BY <1>1 DEF Send
<1>5. /\ m \in Packet /\ Playing(x)
      /\ opens[y] = 0 => m.cmd = "SHALL_WE_PLAY"
      /\ Playing(y) => /\ Fits(y, x, m)
                       /\ state[y] \notin {"DEAD", "EXIT"} =>
                            \A i \in DOMAIN inbox[y] : InOrder(y, inbox[y][i], m)
                       /\ m.cmd = "IM_HIT" => Transposed(m.cell) \in offensive_tries[y]
  BY SentFits
<1>6. /\ inbox'[y] \in Seq(Packet) /\ Len(inbox'[y]) <= InboxRoom
      /\ DOMAIN inbox[y] = 1..Len(inbox[y]) /\ Len(inbox[y]) \in Nat
      /\ \A i \in DOMAIN inbox'[y] :
           \/ i \in DOMAIN inbox[y] /\ inbox'[y][i] = inbox[y][i]
           \/ i = Len(inbox[y]) + 1 /\ inbox'[y][i] = m
  <2>1. inbox[y] \in Seq(Packet) /\ Len(inbox[y]) <= InboxRoom /\ InboxRoom \in Nat
    BY <1>1, PlayAssumption DEF TypeInv
  <2>2. CASE inbox'[y] = inbox[y] BY <2>1, <2>2
  <2>3. CASE inbox'[y] = Append(inbox[y], m) /\ Len(inbox[y]) < InboxRoom BY <1>5, <2>1, <2>3
  <2> QED BY <1>4, <2>2, <2>3
<1>7. TypeInv' BY <1>1, <1>2, <1>3, <1>6 DEF TypeInv, gridVars
<1>8. Own(x)' BY <1>1, <1>2, <1>3 DEF Own, Idle, Left, Playing, Solo, Lost, gridVars
<1>9. Own(y)'
  <2>1. Idle(y)' BY <1>1, <1>2 DEF Own, Idle, Left, gridVars
  <2>2. ASSUME Playing(y) PROVE Solo(y)'
    <3>1. Solo(y) BY <1>1, <2>2 DEF Own
    <3> QED BY <1>2, <1>5, <1>6, <2>2, <3>1 DEF Solo, Lost, gridVars
  <2> QED BY <1>2, <2>1, <2>2 DEF Own, Playing, Left
<1>10. Unopened(x, y)' /\ Unopened(y, x)'
  <2>1. opens[x] = 1 BY <1>1, <1>5 DEF Own, Solo
  <2> QED BY <1>1, <1>2, <1>3, <1>5, <1>6, <2>1 DEF Both, Unopened, Left, gridVars
<1>11. ASSUME Playing(y) PROVE Pair(x, y)' /\ Pair(y, x)'
  <2>1. Pair(x, y) /\ Pair(y, x) BY <1>1, <1>5, <1>11 DEF Both
  <2>2. (Tries(x, y) /\ Tries(y, x))' BY <1>2, <2>1 DEF Pair, Tries, Heard, gridVars
  <2>3. (Turn(x, y) /\ Turn(y, x))' BY <1>2, <2>1 DEF Pair, Turn, Ahead, Flying, Heard, gridVars
  <2>4. (Duel(x, y) /\ Duel(y, x))' BY <1>2, <2>1 DEF Pair, Duel, Lost, Flying, Heard, gridVars
  <2>5. Mail(x, y)' /\ Order(x)'
    BY <1>2, <1>3, <2>1 DEF Pair, Mail, Order, InOrder, Fits, Fresh, Heard, Lost, gridVars
  <2>6. Mail(y, x)'
    <3>1. \A i \in DOMAIN inbox'[y] : Fits(y, x, inbox'[y][i])
      BY <1>5, <1>6, <1>11, <2>1 DEF Pair, Mail
    <3> QED BY <1>2, <3>1 DEF Mail, Fits, Fresh, Heard, Lost, gridVars
  <2>7. Order(y)'
    <3>1. ASSUME state[y] \notin {"DEAD", "EXIT"}
          PROVE  \A i, j \in DOMAIN inbox'[y] : i < j => InOrder(y, inbox'[y][i], inbox'[y][j])
      BY <1>5, <1>6, <1>11, <2>1, <3>1 DEF Pair, Order
    <3> QED BY <1>2, <3>1 DEF Order, InOrder, Fresh, gridVars
  <2> QED BY <2>2, <2>3, <2>4, <2>5, <2>6, <2>7 DEF Pair
<1>12. Both(x, y)' /\ Both(y, x)' BY <1>2, <1>10, <1>11 DEF Both, Playing, Left
<1> QED BY <1>7, <1>8, <1>9, <1>12, OfBoth

-----------------------------------------------------------------------------
(* The user.                                                               *)

(* Where the button leads.                                                 *)
LEMMA ButtonIs ==
  ASSUME NEW s \in DOMAIN ButtonNext
  PROVE  /\ ButtonNext[s] \in States \ {"START"} /\ s # "START" /\ s # "WELCOME_SCREEN"
         /\ s \in Alone => ButtonNext[s] \in Alone
         /\ \/ s \in Handshake /\ ButtonNext[s] \in Handshake \ {"WELCOME_SCREEN"}
            \/ s \in Defending /\ ButtonNext[s] \in Defending \ {"DISPLAY_DEFENSE"}
            \/ s \in Handshake \cup Defending \cup {"SENDING_SHOT", "DEAD"} /\ ButtonNext[s] = "EXIT"
<1>1. s \in {"INITIAL_DISPLAY", "WAITING_FOR_CONNECT", "WAITING_FOR_OTHER_PLAYER", "WHO_GOES_FIRST",
             "DISPLAY_DEFENSE", "WAITING", "SENDING_SHOT", "DISPLAY_HIT", "DISPLAY_MISS",
             "SHOW_OFF_GRID", "DEAD"}
  BY DEF ButtonNext
<1> QED BY <1>1 DEF ButtonNext, States, Alone, Handshake, Defending

(* The button ends the display of a result, or leaves the game.            *)
LEMMA ButtonKeeps ==
  ASSUME NEW x, NEW y, Players(x, y), IInv, Button(x)
  PROVE  IInv'
<1>1. /\ x \in Badges /\ y \in Badges /\ x # y /\ TypeInv /\ Badges = {x, y}
      /\ Own(x) /\ Own(y) /\ Both(x, y) /\ Both(y, x)
  BY OfBoth DEF Players
<1>2. UNCHANGED <<my_random, curr, gridVars, inbox, opens>> BY DEF Button
<1>3. /\ state' \in [Badges -> States] /\ state'[y] = state[y]
      /\ state'[x] \in States \ {"START"} /\ state[x] # "START" /\ state[x] # "WELCOME_SCREEN"
      /\ state[x] \in Alone => state'[x] \in Alone
      /\ \/ state[x] \in Handshake /\ state'[x] \in Handshake \ {"WELCOME_SCREEN"}
         \/ state[x] \in Defending /\ state'[x] \in Defending \ {"DISPLAY_DEFENSE"}
         \/ state[x] \in Handshake \cup Defending \cup {"SENDING_SHOT", "DEAD"} /\ state'[x] = "EXIT"
  <2>1. state[x] \in DOMAIN ButtonNext /\ state' = [state EXCEPT ![x] = ButtonNext[state[x]]]
    BY DEF Button, Goto
  <2> HIDE DEF ButtonNext
  <2>2. state'[x] = ButtonNext[state[x]] /\ state'[y] = state[y] BY <1>1, <2>1 DEF TypeInv
  <2>3. state'[x] \in States \ {"START"} BY <2>1, <2>2, ButtonIs
  <2>4. state' \in [Badges -> States] BY <1>1, <2>1, <2>2, <2>3 DEF TypeInv
  <2> QED BY <2>1, <2>2, <2>3, <2>4, ButtonIs
<1>4. TypeInv' BY <1>1, <1>2, <1>3 DEF TypeInv, gridVars
<1>5. Own(x)'
  <2>1. Solo(x) BY <1>1, <1>3 DEF Own, Playing, Left
  <2>2. Solo(x)' BY <1>2, <1>3, <2>1 DEF Solo, Lost, gridVars, Handshake, Defending
  <2> QED BY <1>3, <2>2 DEF Own, Idle, Left
<1>6. Own(y)' BY <1>1, <1>2, <1>3 DEF Own, Idle, Left, Playing, Solo, Lost, gridVars
<1>7. Unopened(x, y)' /\ Unopened(y, x)'
  BY <1>1, <1>2, <1>3 DEF Both, Unopened, Left, gridVars
<1>8. ASSUME Playing(y) PROVE Pair(x, y)' /\ Pair(y, x)'
  <2>1. Pair(x, y) /\ Pair(y, x) BY <1>1, <1>3, <1>8 DEF Both, Playing, Left
  <2>2. (Tries(x, y) /\ Tries(y, x))'
    BY <1>2, <1>3, <2>1 DEF Pair, Tries, Heard, gridVars, Handshake, Defending
  <2>3. (Turn(x, y) /\ Turn(y, x))'
    BY <1>2, <1>3, <2>1 DEF Pair, Turn, Ahead, Flying, Heard, gridVars, Handshake, Defending, Attacking
  <2>4. (Duel(x, y) /\ Duel(y, x))'
    BY <1>2, <1>3, <2>1 DEF Pair, Duel, Lost, Flying, Heard, gridVars, Handshake, Defending, Attacking
  <2>5. Mail(x, y)'
    BY <1>2, <1>3, <2>1 DEF Pair, Mail, Fits, Fresh, Heard, Lost, gridVars, Handshake, Defending, Attacking
  <2>6. Mail(y, x)'
    BY <1>2, <1>3, <2>1 DEF Pair, Mail, Fits, Fresh, Heard, Lost, gridVars
  <2>7. Order(x)' /\ Order(y)'
    BY <1>2, <1>3, <2>1 DEF Pair, Order, InOrder, Fresh, gridVars, Handshake, Defending
  <2> QED BY <2>2, <2>3, <2>4, <2>5, <2>6, <2>7 DEF Pair
<1>9. Both(x, y)' /\ Both(y, x)' BY <1>3, <1>7, <1>8 DEF Both, Playing, Left
<1> QED BY <1>4, <1>5, <1>6, <1>9, OfBoth

(* reset_firewall_state: of a badge that has left nothing is claimed.      *)
LEMMA ExitKeeps ==
  ASSUME NEW x, NEW y, Players(x, y), IInv, Exit(x)
  PROVE  IInv'
<1>1. /\ x \in Badges /\ y \in Badges /\ x # y /\ TypeInv /\ Badges = {x, y}
      /\ Own(x) /\ Own(y) /\ Both(x, y) /\ Both(y, x)
  BY OfBoth DEF Players
<1>2. /\ inbox' = inbox /\ opens' = opens /\ state[x] = "EXIT" /\ state'[x] = "START"
      /\ placed_items'[x] = {} /\ offensive_tries'[x] = {} /\ offensive_hits'[x] = {}
      /\ defensive_tries'[x] = {}
      /\ state'[y] = state[y] /\ my_random'[y] = my_random[y] /\ curr'[y] = curr[y]
      /\ placed_items'[y] = placed_items[y] /\ offensive_tries'[y] = offensive_tries[y]
      /\ offensive_hits'[y] = offensive_hits[y] /\ defensive_tries'[y] = defensive_tries[y]
  BY <1>1 DEF Exit, Goto, TypeInv
<1>3. TypeInv'
  <2>1. NoCell \in Cell /\ "START" \in States BY GridAssumption DEF Cell, NoCell, States
  <2>2. IsFiniteSet({}) BY FS_EmptySet
  <2>3. /\ state' \in [Badges -> States] /\ my_random' \in [Badges -> Nat] /\ curr' \in [Badges -> Cell]
        /\ placed_items' \in [Badges -> SUBSET Cell] /\ offensive_tries' \in [Badges -> SUBSET Cell]
        /\ offensive_hits' \in [Badges -> SUBSET Cell] /\ defensive_tries' \in [Badges -> SUBSET Cell]
    BY <1>1, <2>1 DEF Exit, Goto, TypeInv
  <2> QED BY <1>1, <1>2, <2>2, <2>3 DEF TypeInv
<1>4. Own(x)' BY <1>2 DEF Own, Idle, Left, Playing
<1>5. Own(y)' BY <1>1, <1>2 DEF Own, Idle, Left, Playing, Solo, Lost
<1>6. opens[x] = 1 BY <1>1, <1>2 DEF Own, Playing, Left, Solo
<1>7. Both(x, y)' /\ Both(y, x)'
  BY <1>1, <1>2, <1>6 DEF Both, Unopened, Playing, Left, Alone
<1> QED BY <1>3, <1>4, <1>5, <1>7, OfBoth

(* A game is opened with empty grids, before there is anything to shoot at.*)
LEMMA OpenKeeps ==
  ASSUME NEW x, NEW y, Players(x, y), IInv, Open(x)
  PROVE  IInv'
<1>1. /\ x \in Badges /\ y \in Badges /\ x # y /\ TypeInv /\ Badges = {x, y} /\ MaxOpens <= 1
      /\ Own(x) /\ Own(y) /\ Both(x, y) /\ Both(y, x)
  BY OfBoth DEF Players
<1>2. UNCHANGED <<curr, gridVars, inbox>> BY DEF Open
<1>3. opens[x] = 0 /\ opens'[x] = 1 /\ opens'[y] = opens[y] /\ opens' \in [Badges -> Nat]
  BY <1>1, PlayAssumption DEF Open, TypeInv
<1>4. /\ state'[x] = "WELCOME_SCREEN" /\ state'[y] = state[y] /\ state' \in [Badges -> States]
      /\ my_random'[x] \in Randoms[x] /\ my_random'[y] = my_random[y]
      /\ my_random' \in [Badges -> Nat]
  <2>1. "WELCOME_SCREEN" \in States BY DEF States
  <2>2. Randoms[x] \subseteq Nat BY <1>1, PlayAssumption
  <2> QED BY <1>1, <2>1, <2>2 DEF Open, Goto, TypeInv
<1>5. TypeInv' BY <1>1, <1>2, <1>3, <1>4 DEF TypeInv, gridVars
<1>6. /\ Left(x) /\ state[y] \in Alone /\ inbox[y] = <<>>
      /\ \A b \in Badges :
           offensive_tries[b] = {} /\ offensive_hits[b] = {} /\ defensive_tries[b] = {}
      /\ \A i \in DOMAIN inbox[x] : inbox[x][i].cmd = "SHALL_WE_PLAY"
  BY <1>1, <1>3 DEF Both, Unopened, Own, Idle
<1>7. Own(x)'
  <2>1. Solo(x)' BY <1>1, <1>2, <1>3, <1>4, <1>6 DEF Solo, Lost, gridVars
  <2> QED BY <1>4, <2>1 DEF Own, Idle, Left
<1>8. Own(y)' BY <1>1, <1>2, <1>3, <1>4 DEF Own, Idle, Left, Playing, Solo, Lost, gridVars
<1>9. Unopened(x, y)' /\ Unopened(y, x)'
  BY <1>1, <1>2, <1>3, <1>4, <1>6 DEF Both, Unopened, Alone, Left, gridVars
<1>10. Pair(x, y)' /\ Pair(y, x)'
  <2>1. \A b \in Badges : offensive_tries'[b] = {} /\ offensive_hits'[b] = {} /\ Heard(b)' = {}
                          /\ defensive_tries'[b] = {}
    BY <1>2, <1>6, Transposing DEF gridVars, Heard
  <2>2. (Tries(x, y) /\ Tries(y, x))' BY <1>1, <2>1 DEF Tries
  <2>3. (Turn(x, y) /\ Turn(y, x))'
    <3>1. (Ahead(x, y) = 0 /\ Ahead(y, x) = 0 /\ ~Flying(x, y) /\ ~Flying(y, x))'
      BY <1>1, <2>1, FS_EmptySet DEF Ahead, Flying
    <3>2. state'[x] \notin Attacking /\ state'[y] \notin Attacking
      BY <1>4, <1>6 DEF Attacking, Alone
    <3> QED BY <3>1, <3>2 DEF Turn
  <2>4. (Duel(x, y) /\ Duel(y, x))'
    BY <1>1, <1>4, <1>6, <2>1 DEF Duel, Lost, Flying, Attacking, Alone
  <2>5. (Mail(x, y) /\ Order(x))'
    BY <1>2, <1>6 DEF Mail, Order, Fits, InOrder, IsShot, IsResult
  <2>6. (Mail(y, x) /\ Order(y))' BY <1>2, <1>6 DEF Mail, Order
  <2> QED BY <2>2, <2>3, <2>4, <2>5, <2>6 DEF Pair
<1> QED BY <1>5, <1>7, <1>8, <1>9, <1>10, OfBoth DEF Both

(* display_our_ships: nobody has shot at them yet.                         *)
LEMMA ShipsKeep ==
  ASSUME NEW x, NEW y, Players(x, y), IInv, display_our_ships(x)
  PROVE  IInv'
<1>1. /\ x \in Badges /\ y \in Badges /\ x # y /\ TypeInv /\ Badges = {x, y} /\ {} \notin Placements
      /\ Own(x) /\ Own(y) /\ Both(x, y) /\ Both(y, x)
  BY OfBoth DEF Players
<1>2. UNCHANGED <<my_random, curr, offensive_tries, offensive_hits, defensive_tries, inbox, opens>>
  BY DEF display_our_ships
<1>3. /\ state[x] = "WELCOME_SCREEN" /\ state'[x] = "INITIAL_DISPLAY" /\ state'[y] = state[y]
      /\ state' \in [Badges -> States]
      /\ placed_items'[x] # {} /\ placed_items'[y] = placed_items[y]
      /\ placed_items' \in [Badges -> SUBSET Cell]
  <2>1. "INITIAL_DISPLAY" \in States BY DEF States, ButtonNext
  <2> QED BY <1>1, <2>1, GridAssumption DEF display_our_ships, Goto, TypeInv
<1>4. TypeInv' BY <1>1, <1>2, <1>3 DEF TypeInv
<1>5. Solo(x) BY <1>1, <1>3 DEF Own, Playing, Left
<1>6. offensive_tries[x] = {} /\ offensive_hits[x] = {} /\ defensive_tries[x] = {}
  BY <1>3, <1>5 DEF Solo, Handshake
<1>7. Own(x)'
  <2>1. Solo(x)' BY <1>2, <1>3, <1>5, <1>6 DEF Solo, Lost
  <2> QED BY <1>3, <2>1 DEF Own, Idle, Left
<1>8. Own(y)' BY <1>1, <1>2, <1>3 DEF Own, Idle, Left, Playing, Solo, Lost
<1>9. Unopened(x, y)' /\ Unopened(y, x)'
  BY <1>1, <1>2, <1>3 DEF Both, Unopened, Alone, Left
<1>10. ASSUME Playing(y) PROVE Pair(x, y)' /\ Pair(y, x)'
  <2>1. Pair(x, y) /\ Pair(y, x) BY <1>1, <1>3, <1>10 DEF Both, Playing, Left
  <2>2. (Tries(x, y) /\ Tries(y, x))' BY <1>2, <1>3, <1>6, <2>1, Transposing DEF Pair, Tries, Heard
  <2>3. (Turn(x, y) /\ Turn(y, x))'
    BY <1>2, <1>3, <2>1 DEF Pair, Turn, Ahead, Flying, Heard, Attacking
  <2>4. (Duel(x, y) /\ Duel(y, x))'
    BY <1>2, <1>3, <1>6, <2>1 DEF Pair, Duel, Lost, Flying, Heard, Attacking
  <2>5. Mail(x, y)'
    BY <1>2, <1>3, <2>1 DEF Pair, Mail, Fits, Fresh, Heard, Lost, Handshake, Attacking
  <2>6. Mail(y, x)'
    <3>1. Heard(x) = {} BY <1>6, Transposing DEF Heard
    <3> QED BY <1>2, <1>3, <1>6, <2>1, <3>1 DEF Pair, Mail, Fits, Fresh, Heard, Lost
  <2>7. Order(x)' /\ Order(y)' BY <1>2, <1>3, <2>1 DEF Pair, Order, InOrder, Fresh
  <2> QED BY <2>2, <2>3, <2>4, <2>5, <2>6, <2>7 DEF Pair
<1>11. Both(x, y)' /\ Both(y, x)' BY <1>3, <1>9, <1>10 DEF Both, Playing, Left
<1> QED BY <1>4, <1>7, <1>8, <1>11, OfBoth

-----------------------------------------------------------------------------
(* Shooting.                                                               *)

(* Two badges never both have the turn, and the one that has it has seen   *)
(* all its shots answered by an opponent that is not lost.                 *)
LEMMA OneHasTheTurn ==
  ASSUME NEW x, NEW y, Players(x, y), IInv, Playing(x), Playing(y), state[x] \in Attacking
  PROVE  /\ state[y] \notin Attacking \cup {"DEAD"} /\ ~Lost(y)
         /\ offensive_tries[x] = Heard(y) /\ offensive_tries[y] = Heard(x)
<1>1. /\ x \in Badges /\ y \in Badges /\ TypeInv /\ Solo(x) /\ Solo(y)
      /\ Pair(x, y) /\ Pair(y, x) /\ Randoms[x] \cap Randoms[y] = {}
  BY OfBoth DEF Players, Own, Both
<1>2. my_random[x] > my_random[y] \/ my_random[y] > my_random[x] BY <1>1 DEF Solo, TypeInv
<1>3. state[y] \notin Attacking BY <1>1, <1>2 DEF Pair, Turn
<1>4. ~Lost(y) BY <1>1 DEF Pair, Duel, Attacking
<1>5. state[y] # "DEAD" BY <1>1, <1>4 DEF Solo
<1>6. offensive_tries[y] = Heard(x) BY <1>1 DEF Pair, Duel, Flying
<1>7. offensive_tries[x] = Heard(y) BY <1>1 DEF Pair, Tries, Attacking
<1> QED BY <1>3, <1>4, <1>5, <1>6, <1>7

(* A badge that has the turn has a cell left to shoot at.                  *)
LEMMA CellIsLeft ==
  ASSUME NEW x, NEW y, Players(x, y), IInv, Playing(x), Playing(y), state[x] \in Attacking
  PROVE  Untried(x) # {}
<1>1. x \in Badges /\ y \in Badges /\ TypeInv /\ Solo(y) BY OfBoth DEF Players, Own
<1>2. offensive_tries[x] = Heard(y) /\ ~Lost(y) BY OneHasTheTurn
<1>3. <<0, 0>> \in Cell BY GridAssumption DEF Cell
<1>4. defensive_tries[y] \in SUBSET Cell /\ placed_items[y] \in SUBSET Cell BY <1>1 DEF TypeInv
<1> SUFFICES ASSUME Untried(x) = {} PROVE FALSE OBVIOUS
<1>5. \A c \in Cell : c \in Heard(y) BY <1>2 DEF Untried
<1>6. \A c \in Cell : c \in defensive_tries[y] BY <1>4, <1>5, Transposing DEF Heard
<1> QED BY <1>2, <1>3, <1>4, <1>6 DEF Lost

(* Moving the crosshair, the first time or later.                          *)
LEMMA AimKeeps ==
  ASSUME NEW x, NEW y, Players(x, y), IInv,
         state[x] \in Attacking, state' = [state EXCEPT ![x] = "TAKE_SHOT"],
         NEW d \in Cell, Playing(y) => d \in Untried(x), curr' = [curr EXCEPT ![x] = d],
         UNCHANGED <<my_random, gridVars, inbox, opens>>
  PROVE  IInv'
<1>1. /\ x \in Badges /\ y \in Badges /\ x # y /\ TypeInv /\ Badges = {x, y}
      /\ Own(x) /\ Own(y) /\ Both(x, y) /\ Both(y, x)
  BY OfBoth DEF Players
<1>2. /\ state' \in [Badges -> States] /\ state'[x] = "TAKE_SHOT" /\ state'[y] = state[y]
      /\ curr' \in [Badges -> Cell] /\ curr'[x] = d /\ curr'[y] = curr[y]
  BY <1>1 DEF TypeInv, States
<1>3. TypeInv' BY <1>1, <1>2 DEF TypeInv, gridVars
<1>4. Playing(x) /\ Solo(x) BY <1>1 DEF Own, Playing, Left, Attacking
<1>5. Own(x)'
  <2>1. Solo(x)' BY <1>2, <1>4 DEF Solo, Lost, gridVars, Handshake, Attacking
  <2> QED BY <1>2, <2>1 DEF Own, Idle, Left
<1>6. Own(y)' BY <1>1, <1>2 DEF Own, Idle, Left, Playing, Solo, Lost, gridVars
<1>7. Unopened(x, y)' /\ Unopened(y, x)'
  BY <1>1, <1>2, <1>4 DEF Both, Unopened, Left, gridVars, Solo, Alone, Attacking
<1>8. ASSUME Playing(y) PROVE Pair(x, y)' /\ Pair(y, x)'
  <2>1. Pair(x, y) /\ Pair(y, x) BY <1>1, <1>4, <1>8 DEF Both
  <2>2. (Tries(x, y) /\ Tries(y, x))' BY <1>2, <2>1 DEF Pair, Tries, Heard, gridVars, Attacking
  <2>3. (Turn(x, y) /\ Turn(y, x))'
    BY <1>2, <2>1 DEF Pair, Turn, Ahead, Flying, Heard, gridVars, Attacking
  <2>4. ~Lost(y) /\ d \notin offensive_tries[x] BY <1>4, <1>8, OneHasTheTurn DEF Untried
  <2>5. (Duel(x, y) /\ Duel(y, x))'
    BY <1>2, <2>1, <2>4 DEF Pair, Duel, Lost, Flying, Heard, gridVars, Attacking
  <2>6. Mail(x, y)'
    BY <1>2, <2>1 DEF Pair, Mail, Fits, Fresh, Heard, Lost, gridVars, Handshake, Defending, Attacking
  <2>7. Mail(y, x)' BY <1>2, <2>1 DEF Pair, Mail, Fits, Fresh, Heard, Lost, gridVars
  <2>8. Order(x)' /\ Order(y)'
    BY <1>2, <2>1 DEF Pair, Order, InOrder, Fresh, gridVars, Attacking
  <2> QED BY <2>2, <2>3, <2>5, <2>6, <2>7, <2>8 DEF Pair
<1>9. Both(x, y)' /\ Both(y, x)' BY <1>2, <1>4, <1>7, <1>8 DEF Both, Playing, Left
<1> QED BY <1>3, <1>5, <1>6, <1>9, OfBoth

(* find_first_valid_shot finds one.                                        *)
LEMMA SetUpKeeps ==
  ASSUME NEW x, NEW y, Players(x, y), IInv, set_up_to_take_shot(x)
  PROVE  IInv'
<1>1. x \in Badges /\ y \in Badges /\ TypeInv BY OfBoth DEF Players
<1>2. state[x] \in Attacking /\ Playing(x) BY DEF set_up_to_take_shot, Attacking, Playing, Left
<1>3. Untried(x) # {} => find_first_valid_shot(x) \in Untried(x)
  <2>1. Untried(x) \in SUBSET Cell BY DEF Untried
  <2> QED BY <2>1, FirstCell DEF find_first_valid_shot
<1>4. find_first_valid_shot(x) \in Cell
  <2>1. Untried(x) = {} => find_first_valid_shot(x) = curr[x] BY DEF find_first_valid_shot
  <2> QED BY <1>1, <1>3, <2>1 DEF TypeInv, Untried
<1>5. Playing(y) => find_first_valid_shot(x) \in Untried(x) BY <1>2, <1>3, CellIsLeft
<1> QED BY <1>2, <1>4, <1>5, AimKeeps DEF set_up_to_take_shot, Goto

(* The crosshair stops at cells not tried.                                 *)
LEMMA CrosshairKeeps ==
  ASSUME NEW x, NEW y, Players(x, y), IInv, fw_move_crosshair(x)
  PROVE  IInv'
<1>1. x \in Badges /\ TypeInv BY OfBoth DEF Players
<1>2. state[x] \in Attacking BY DEF fw_move_crosshair, Attacking
<1>3. state' = [state EXCEPT ![x] = "TAKE_SHOT"] BY <1>1 DEF fw_move_crosshair, TypeInv
<1>4. PICK d \in Untried(x) : curr' = [curr EXCEPT ![x] = d] BY DEF fw_move_crosshair, Toward
<1>5. d \in Cell BY DEF Untried
<1> QED BY <1>2, <1>3, <1>4, <1>5, AimKeeps DEF fw_move_crosshair

(* The shot is the only one that its opponent does not know of.            *)
LEMMA TakeShotKeeps ==
  ASSUME NEW x, NEW y, Players(x, y), IInv, TakeShot(x)
  PROVE  IInv'
<1>1. /\ x \in Badges /\ y \in Badges /\ x # y /\ TypeInv /\ Badges = {x, y}
      /\ Own(x) /\ Own(y) /\ Both(x, y) /\ Both(y, x)
  BY OfBoth DEF Players
<1>2. UNCHANGED <<my_random, curr, placed_items, offensive_hits, defensive_tries, inbox, opens>>
  BY DEF TakeShot
<1>3. /\ state[x] = "TAKE_SHOT" /\ state'[x] = "SENDING_SHOT" /\ state'[y] = state[y]
      /\ state' \in [Badges -> States]
      /\ offensive_tries'[x] = offensive_tries[x] \cup {curr[x]}
      /\ offensive_tries'[y] = offensive_tries[y]
      /\ offensive_tries' \in [Badges -> SUBSET Cell]
  <2>1. "SENDING_SHOT" \in States BY DEF States, ButtonNext
  <2>2. curr[x] \in Cell BY <1>1 DEF TypeInv
  <2> QED BY <1>1, <2>1, <2>2 DEF TakeShot, Goto, TypeInv
<1>4. TypeInv'
  <2>1. IsFiniteSet(offensive_tries[x]) BY <1>1 DEF TypeInv
  <2>2. IsFiniteSet(offensive_tries[x] \cup {curr[x]}) BY <2>1, FS_AddElement
  <2> QED BY <1>1, <1>2, <1>3, <2>2 DEF TypeInv
<1>5. Playing(x) /\ Solo(x) BY <1>1, <1>3 DEF Own, Playing, Left
<1>6. Own(x)'
  <2>1. Solo(x)' BY <1>2, <1>3, <1>5 DEF Solo, Lost, Handshake
  <2> QED BY <1>3, <2>1 DEF Own, Idle, Left
<1>7. Own(y)' BY <1>1, <1>2, <1>3 DEF Own, Idle, Left, Playing, Solo, Lost
<1>8. Unopened(x, y)' /\ Unopened(y, x)'
  BY <1>1, <1>2, <1>3, <1>5 DEF Both, Unopened, Left, Solo, Alone
<1>9. ASSUME Playing(y) PROVE Pair(x, y)' /\ Pair(y, x)'
  <2>1. Pair(x, y) /\ Pair(y, x) BY <1>1, <1>5, <1>9 DEF Both
  <2>2. state[x] \in Attacking BY <1>3 DEF Attacking
  <2>3. /\ state[y] \notin Attacking \cup {"DEAD"} /\ ~Lost(y)
        /\ offensive_tries[x] = Heard(y) /\ offensive_tries[y] = Heard(x)
    BY <1>5, <1>9, <2>2, OneHasTheTurn
  <2>4. curr[x] \notin offensive_tries[x] BY <1>3, <2>1 DEF Pair, Duel
  <2>5. Heard(x)' = Heard(x) /\ Heard(y)' = Heard(y) BY <1>2 DEF Heard
  <2>6. Flying(x, y)' /\ ~Flying(y, x)' BY <1>3, <2>3, <2>4, <2>5 DEF Flying
  <2>7. (Tries(x, y) /\ Tries(y, x))'
    BY <1>2, <1>3, <2>1, <2>3, <2>5 DEF Pair, Tries
  <2>8. (Turn(x, y) /\ Turn(y, x))'
    <3>1. /\ Cardinality(offensive_tries'[x]) = Cardinality(offensive_tries[x]) + 1
          /\ Cardinality(offensive_tries[x]) \in Nat /\ Cardinality(offensive_tries[y]) \in Nat
      <4>1. IsFiniteSet(offensive_tries[x]) /\ IsFiniteSet(offensive_tries[y]) BY <1>1 DEF TypeInv
      <4>2. Cardinality(offensive_tries[x] \cup {curr[x]}) = Cardinality(offensive_tries[x]) + 1
        BY <2>4, <4>1, FS_AddElement
      <4> QED BY <1>3, <4>1, <4>2, FS_CardinalityType
    <3>2. Ahead(x, y)' = Ahead(x, y) + 1 /\ Ahead(y, x)' = Ahead(y, x) - 1
          /\ Ahead(x, y) \in Int /\ Ahead(y, x) \in Int
      BY <1>3, <3>1 DEF Ahead
    <3>3. state'[x] \notin Attacking BY <1>3 DEF Attacking
    <3> QED BY <1>2, <1>3, <2>1, <2>2, <2>3, <2>6, <3>2, <3>3 DEF Pair, Turn
  <2>9. (Duel(x, y) /\ Duel(y, x))'
    <3>1. Lost(x)' = Lost(x) /\ Lost(y)' = Lost(y) BY <1>2 DEF Lost
    <3> QED BY <1>2, <1>3, <2>1, <2>3, <2>4, <2>5, <2>6, <3>1 DEF Pair, Duel, Attacking
  <2>10. Mail(x, y)'
    BY <1>2, <1>3, <2>1, <2>2 DEF Pair, Mail, Fits, Handshake, Defending
  <2>11. Mail(y, x)'
    BY <1>2, <1>3, <2>1 DEF Pair, Mail, Fits, Fresh, Heard, Lost
  <2>12. Order(x)' /\ Order(y)' BY <1>2, <1>3, <2>1 DEF Pair, Order, InOrder, Fresh
  <2> QED BY <2>7, <2>8, <2>9, <2>10, <2>11, <2>12 DEF Pair
<1>10. Both(x, y)' /\ Both(y, x)' BY <1>3, <1>5, <1>8, <1>9 DEF Both, Playing, Left
<1> QED BY <1>4, <1>6, <1>7, <1>10, OfBoth

-----------------------------------------------------------------------------
(* Packets.                                                                *)

\* The oldest packet is taken from the mailbox.
Consume(x) == inbox[x] # <<>> /\ inbox' = [inbox EXCEPT ![x] = Tail(@)] /\ UNCHANGED opens

(* What is left of the mailbox.                                            *)
LEMMA Consumed ==
  ASSUME NEW x, NEW y, Players(x, y), IInv, Consume(x)
  PROVE  /\ inbox' \in [Badges -> Seq(Packet)] /\ inbox'[y] = inbox[y]
         /\ \A b \in Badges : Len(inbox'[b]) <= InboxRoom
         /\ 1 \in DOMAIN inbox[x] /\ Head(inbox[x]) = inbox[x][1] /\ Head(inbox[x]) \in Packet
         /\ \A i \in DOMAIN inbox'[x] :
              i \in Nat /\ i + 1 > 1 /\ i + 1 \in DOMAIN inbox[x] /\ inbox'[x][i] = inbox[x][i + 1]
         /\ opens[y] # 0
<1>1. /\ x \in Badges /\ y \in Badges /\ x # y /\ Badges = {x, y} /\ TypeInv /\ Both(y, x)
  BY OfBoth DEF Players
<1>2. inbox[x] \in Seq(Packet) /\ inbox[x] # <<>> BY <1>1 DEF TypeInv, Consume
<1>3. inbox'[x] = Tail(inbox[x]) /\ inbox'[y] = inbox[y] BY <1>1 DEF Consume, TypeInv
<1>4. /\ Tail(inbox[x]) \in Seq(Packet) /\ Len(Tail(inbox[x])) = Len(inbox[x]) - 1
      /\ Len(inbox[x]) \in Nat /\ 1 \in DOMAIN inbox[x]
      /\ Head(inbox[x]) = inbox[x][1] /\ Head(inbox[x]) \in Packet
  BY <1>2
<1>5. inbox' \in [Badges -> Seq(Packet)] BY <1>1, <1>4 DEF Consume, TypeInv
<1>6. \A b \in Badges : Len(inbox'[b]) <= InboxRoom
  BY <1>1, <1>3, <1>4, PlayAssumption DEF TypeInv
<1>7. \A i \in DOMAIN inbox'[x] :
        i \in Nat /\ i + 1 > 1 /\ i + 1 \in DOMAIN inbox[x] /\ inbox'[x][i] = inbox[x][i + 1]
  BY <1>2, <1>3, <1>4
<1>8. opens[y] # 0 BY <1>1, <1>2 DEF Both, Unopened
<1> QED BY <1>3, <1>4, <1>5, <1>6, <1>7, <1>8

(* It was in order behind the packet.                                      *)
LEMMA RestInOrder ==
  ASSUME NEW x, NEW y, Players(x, y), IInv, Consume(x), Order(x), state[x] \notin {"DEAD", "EXIT"}
  PROVE  \A i \in DOMAIN inbox'[x] :
           /\ InOrder(x, Head(inbox[x]), inbox'[x][i])
           /\ \A j \in DOMAIN inbox'[x] : i < j => InOrder(x, inbox'[x][i], inbox'[x][j])
<1>1. /\ 1 \in DOMAIN inbox[x] /\ Head(inbox[x]) = inbox[x][1]
      /\ \A i \in DOMAIN inbox'[x] :
           i \in Nat /\ i + 1 > 1 /\ i + 1 \in DOMAIN inbox[x] /\ inbox'[x][i] = inbox[x][i + 1]
  BY Consumed
<1>2. \A i, j \in DOMAIN inbox[x] : i < j => InOrder(x, inbox[x][i], inbox[x][j]) BY DEF Order
<1> TAKE i \in DOMAIN inbox'[x]
<1>3. i + 1 \in DOMAIN inbox[x] /\ i \in Nat /\ 1 < i + 1 BY <1>1
<1>4. InOrder(x, inbox[x][1], inbox[x][i + 1]) BY <1>1, <1>2, <1>3
<1>5. ASSUME NEW j \in DOMAIN inbox'[x], i < j PROVE InOrder(x, inbox'[x][i], inbox'[x][j])
  <2>1. j + 1 \in DOMAIN inbox[x] /\ j \in Nat /\ i + 1 < j + 1 BY <1>1, <1>3, <1>5
  <2>2. InOrder(x, inbox[x][i + 1], inbox[x][j + 1]) BY <1>2, <1>3, <2>1
  <2> QED BY <1>1, <2>2
<1> QED BY <1>1, <1>4, <1>5

(* A packet that is not heeded.                                            *)
LEMMA IgnoredKeeps ==
  ASSUME NEW x, NEW y, Players(x, y), IInv, Consume(x),
         UNCHANGED <<state, my_random, curr, gridVars>>
  PROVE  IInv'
<1>1. /\ x \in Badges /\ y \in Badges /\ x # y /\ TypeInv /\ Badges = {x, y}
      /\ Own(x) /\ Own(y) /\ Both(x, y) /\ Both(y, x)
  BY OfBoth DEF Players
<1>2. /\ inbox' \in [Badges -> Seq(Packet)] /\ inbox'[y] = inbox[y]
      /\ \A b \in Badges : Len(inbox'[b]) <= InboxRoom
      /\ \A i \in DOMAIN inbox'[x] :
           i \in Nat /\ i + 1 > 1 /\ i + 1 \in DOMAIN inbox[x] /\ inbox'[x][i] = inbox[x][i + 1]
      /\ opens[y] # 0 /\ opens' = opens
  BY Consumed DEF Consume
<1>3. TypeInv' BY <1>1, <1>2 DEF TypeInv, gridVars
<1>4. Own(x)' /\ Own(y)'
  BY <1>1, <1>2 DEF Own, Idle, Left, Playing, Solo, Lost, gridVars
<1>5. Unopened(x, y)' /\ Unopened(y, x)' BY <1>1, <1>2 DEF Both, Unopened, Left, gridVars
<1>6. ASSUME Playing(x), Playing(y) PROVE Pair(x, y)' /\ Pair(y, x)'
  <2>1. Pair(x, y) /\ Pair(y, x) BY <1>1, <1>6 DEF Both
  <2>2. (Tries(x, y) /\ Tries(y, x))' BY <2>1 DEF Pair, Tries, Heard, gridVars
  <2>3. (Turn(x, y) /\ Turn(y, x))' BY <2>1 DEF Pair, Turn, Ahead, Flying, Heard, gridVars
  <2>4. (Duel(x, y) /\ Duel(y, x))' BY <2>1 DEF Pair, Duel, Lost, Flying, Heard, gridVars
  <2>5. Mail(x, y)' /\ Mail(y, x)'
    BY <1>2, <2>1 DEF Pair, Mail, Fits, Fresh, Heard, Lost, gridVars
  <2>6. Order(x)'
    <3>1. state[x] \notin {"DEAD", "EXIT"} =>
            \A i, j \in DOMAIN inbox'[x] : i < j => InOrder(x, inbox'[x][i], inbox'[x][j])
      BY <2>1, RestInOrder DEF Pair
    <3> QED BY <3>1 DEF Order, InOrder, Fresh, gridVars
  <2>7. Order(y)' BY <1>2, <2>1 DEF Pair, Order, InOrder, Fresh, gridVars
  <2> QED BY <2>2, <2>3, <2>4, <2>5, <2>6, <2>7 DEF Pair
<1>7. Both(x, y)' /\ Both(y, x)' BY <1>5, <1>6 DEF Both, Playing, Left
<1> QED BY <1>3, <1>4, <1>7, OfBoth

(* The handshake: the badge that comes to display its offense or defense   *)
(* has compared the numbers of both.                                       *)
LEMMA HandshakeKeeps ==
  ASSUME NEW x, NEW y, Players(x, y), IInv, Consume(x),
         state[x] \in Handshake \ {"WELCOME_SCREEN"},
         NEW s \in States, state' = [state EXCEPT ![x] = s],
         s \in Handshake \ {"WELCOME_SCREEN"} \/ s \in {"DISPLAY_OFFENSE", "DISPLAY_DEFENSE"},
         Playing(y) => /\ my_random' = my_random
                       /\ s = "DISPLAY_OFFENSE" => my_random[x] > my_random[y]
                       /\ s = "DISPLAY_DEFENSE" => my_random[x] < my_random[y],
         NEW r \in Randoms[x], my_random' = [my_random EXCEPT ![x] = r],
         UNCHANGED <<curr, gridVars>>
  PROVE  IInv'
<1>1. /\ x \in Badges /\ y \in Badges /\ x # y /\ TypeInv /\ Badges = {x, y}
      /\ Own(x) /\ Own(y) /\ Both(x, y) /\ Both(y, x)
  BY OfBoth DEF Players
<1>2. /\ inbox' \in [Badges -> Seq(Packet)] /\ inbox'[y] = inbox[y]
      /\ \A b \in Badges : Len(inbox'[b]) <= InboxRoom
      /\ \A i \in DOMAIN inbox'[x] :
           i \in Nat /\ i + 1 > 1 /\ i + 1 \in DOMAIN inbox[x] /\ inbox'[x][i] = inbox[x][i + 1]
      /\ opens[y] # 0 /\ opens' = opens
  BY Consumed DEF Consume
<1>3. /\ state'[x] = s /\ state'[y] = state[y] /\ state' \in [Badges -> States]
      /\ my_random'[x] = r /\ my_random'[y] = my_random[y] /\ my_random' \in [Badges -> Nat]
  <2>1. r \in Nat BY <1>1, PlayAssumption
  <2> QED BY <1>1, <2>1 DEF TypeInv
<1>4. Playing(x) /\ Solo(x) /\ s # "START"
      /\ offensive_tries[x] = {} /\ offensive_hits[x] = {} /\ defensive_tries[x] = {}
  BY <1>1 DEF Own, Playing, Left, Solo, Handshake
<1>5. TypeInv' BY <1>1, <1>2, <1>3 DEF TypeInv, gridVars
<1>6. Own(x)'
  <2>1. Solo(x)' BY <1>2, <1>3, <1>4 DEF Solo, Lost, gridVars, Handshake
  <2> QED BY <1>3, <1>4, <2>1 DEF Own, Idle, Left
<1>7. Own(y)' BY <1>1, <1>2, <1>3 DEF Own, Idle, Left, Playing, Solo, Lost, gridVars
<1>8. Unopened(x, y)' /\ Unopened(y, x)'
  <2>1. opens[x] = 1 BY <1>4 DEF Solo
  <2> QED BY <1>2, <2>1 DEF Unopened
<1>9. ASSUME Playing(y) PROVE Pair(x, y)' /\ Pair(y, x)'
  <2>1. Pair(x, y) /\ Pair(y, x) BY <1>1, <1>4, <1>9 DEF Both
  <2>2. (Tries(x, y) /\ Tries(y, x))'
    BY <1>2, <1>3, <1>9, <2>1 DEF Pair, Tries, Heard, gridVars, Handshake
  <2>3. Heard(x) = {} BY <1>4, Transposing DEF Heard
  <2>4. (Turn(x, y) /\ Turn(y, x))' /\ (s = "DISPLAY_OFFENSE" => ~Flying(y, x))
    <3>1. CASE s = "DISPLAY_OFFENSE"
      <4>1. my_random[x] > my_random[y] BY <1>9, <3>1
      <4>2. Cardinality(offensive_tries[x]) = 0 BY <1>4, FS_EmptySet
      <4>3. IsFiniteSet(offensive_tries[y]) BY <1>1 DEF TypeInv
      <4>4. Cardinality(offensive_tries[y]) \in Nat BY <4>3, FS_CardinalityType
      <4>5. Ahead(x, y) = 0 /\ Cardinality(offensive_tries[y]) = 0
        BY <2>1, <4>1, <4>2, <4>4 DEF Pair, Turn, Ahead
      <4>6. offensive_tries[y] = {} BY <4>3, <4>5, FS_EmptySet
      <4>7. ~Flying(y, x) BY <2>3, <4>6 DEF Flying
      <4>8. Turn(x, y)'
        BY <1>3, <1>9, <2>1, <4>1, <4>5, <4>7 DEF Pair, Turn, Ahead, Flying, Heard, gridVars
      <4>9. Turn(y, x)' BY <1>1, <1>3, <1>9, <4>1 DEF Turn, TypeInv
      <4> QED BY <4>7, <4>8, <4>9
    <3>2. CASE s # "DISPLAY_OFFENSE"
      <4>1. s \notin Attacking BY <3>2 DEF Attacking, Handshake
      <4> QED BY <1>3, <1>9, <2>1, <3>2, <4>1 DEF Pair, Turn, Ahead, Flying, Heard, gridVars
    <3> QED BY <3>1, <3>2
  <2>5. (Duel(x, y) /\ Duel(y, x))'
    BY <1>3, <1>4, <1>9, <2>1, <2>3, <2>4
    DEF Pair, Duel, Lost, Flying, Heard, gridVars, Handshake, Attacking
  <2>6. Mail(x, y)'
    <3>1. \A i \in DOMAIN inbox[x] : Fits(x, y, inbox[x][i]) BY <2>1 DEF Pair, Mail
    <3>2. \A i \in DOMAIN inbox[x] : IsShot(inbox[x][i]) => Fresh(x, inbox[x][i])
      BY <3>1 DEF Fits
    <3>3. \A i \in DOMAIN inbox[x] : ~IsResult(inbox[x][i]) BY <3>1 DEF Fits
    <3> QED BY <1>2, <1>3, <1>9, <3>1, <3>2, <3>3 DEF Mail, Fits, Fresh, gridVars
  <2>7. Mail(y, x)' BY <1>2, <1>3, <1>9, <2>1 DEF Pair, Mail, Fits, Fresh, Heard, Lost, gridVars
  <2>8. Order(x)'
    <3>1. \A i, j \in DOMAIN inbox'[x] : i < j => InOrder(x, inbox'[x][i], inbox'[x][j])
      BY <2>1, RestInOrder DEF Pair, Handshake
    <3> QED BY <3>1 DEF Order, InOrder, Fresh, gridVars
  <2>9. Order(y)' BY <1>2, <1>3, <2>1 DEF Pair, Order, InOrder, Fresh, gridVars
  <2> QED BY <2>2, <2>4, <2>5, <2>6, <2>7, <2>8, <2>9 DEF Pair
<1>10. Both(x, y)' /\ Both(y, x)' BY <1>3, <1>8, <1>9 DEF Both, Playing, Left
<1> QED BY <1>5, <1>6, <1>7, <1>10, OfBoth

(* A shot is heeded by a badge that waits for it: it is the opponent's     *)
(* last, and the only one that was not recorded.                           *)
LEMMA ShotKeeps ==
  ASSUME NEW x, NEW y, Players(x, y), IInv, Consume(x),
         Head(inbox[x]).cmd = "SHOT_TAKEN",
         state[x] \in {"DISPLAY_DEFENSE", "WAITING", "SHOW_OFF_GRID"},
         received_shot(x, Head(inbox[x]).cell)
  PROVE  IInv'
<1> DEFINE p == Head(inbox[x])  c == Transposed(p.cell)  tries == defensive_tries[x] \cup {c}
<1>1. /\ x \in Badges /\ y \in Badges /\ x # y /\ TypeInv /\ Badges = {x, y}
      /\ Own(x) /\ Own(y) /\ Both(x, y) /\ Both(y, x)
  BY OfBoth DEF Players
<1>2. /\ inbox' \in [Badges -> Seq(Packet)] /\ inbox'[y] = inbox[y]
      /\ \A b \in Badges : Len(inbox'[b]) <= InboxRoom
      /\ \A i \in DOMAIN inbox'[x] :
           i \in Nat /\ i + 1 > 1 /\ i + 1 \in DOMAIN inbox[x] /\ inbox'[x][i] = inbox[x][i + 1]
      /\ 1 \in DOMAIN inbox[x] /\ p = inbox[x][1] /\ p \in Packet
      /\ opens[y] # 0 /\ opens' = opens
  BY Consumed DEF Consume
<1>3. p.cell \in Cell /\ c \in Cell /\ Transposed(c) = p.cell BY <1>2, Transposing DEF Packet
<1>4. UNCHANGED <<my_random, placed_items, offensive_tries, offensive_hits>> BY DEF received_shot
<1>5. /\ state'[x] = Verdict(x, c, tries) /\ state'[y] = state[y] /\ state' \in [Badges -> States]
      /\ curr'[x] = c /\ curr'[y] = curr[y] /\ curr' \in [Badges -> Cell]
      /\ defensive_tries'[x] = tries /\ defensive_tries'[y] = defensive_tries[y]
      /\ defensive_tries' \in [Badges -> SUBSET Cell]
  <2>1. Verdict(x, c, tries) \in States BY DEF Verdict, States, ButtonNext
  <2>2. tries \in SUBSET Cell BY <1>1, <1>3 DEF TypeInv
  <2> HIDE DEF c, tries
  <2>3. /\ curr' = [curr EXCEPT ![x] = c] /\ defensive_tries' = [defensive_tries EXCEPT ![x] = tries]
        /\ state' = [state EXCEPT ![x] = Verdict(x, c, tries)]
    BY DEF received_shot, Goto, c, tries
  <2> QED BY <1>1, <1>3, <2>1, <2>2, <2>3 DEF TypeInv
<1>6. tries = defensive_tries[x] \cup {c} /\ Transposed(p.cell) = c OBVIOUS
<1> HIDE DEF p, c, tries
<1>7. TypeInv' BY <1>1, <1>2, <1>4, <1>5 DEF TypeInv
<1>8. Playing(x) /\ Solo(x) BY <1>1 DEF Own, Playing, Left
<1>9. ~Lost(x) /\ placed_items[x] # {} BY <1>8 DEF Solo
<1>10. /\ state'[x] \in {"SEND_HIT", "SEND_MISS", "DEAD"}
       /\ c \in placed_items[x] => state'[x] = "SEND_HIT" \/ state'[x] = "DEAD"
       /\ state'[x] = "SEND_HIT" => c \in placed_items[x]
       /\ state'[x] = "DEAD" <=> Lost(x)'
  <2>1. Lost(x)' <=> placed_items[x] \subseteq tries BY <1>4, <1>5, <1>6 DEF Lost
  <2>2. CASE c \notin placed_items[x]
    <3>1. state'[x] = "SEND_MISS" BY <1>5, <2>2 DEF Verdict
    <3>2. ~(placed_items[x] \subseteq tries) BY <1>6, <1>9, <2>2 DEF Lost
    <3> QED BY <2>1, <2>2, <3>1, <3>2
  <2>3. CASE c \in placed_items[x] BY <1>5, <2>1, <2>3 DEF Verdict
  <2> QED BY <2>2, <2>3
<1>11. Own(x)'
  <2>1. Solo(x)' BY <1>2, <1>4, <1>5, <1>6, <1>8, <1>10 DEF Solo, Handshake
  <2> QED BY <1>10, <2>1 DEF Own, Idle, Left
<1>12. Own(y)' BY <1>1, <1>2, <1>4, <1>5 DEF Own, Idle, Left, Playing, Solo, Lost
<1>13. Unopened(x, y)' /\ Unopened(y, x)'
  <2>1. opens[x] = 1 BY <1>8 DEF Solo
  <2> QED BY <1>2, <2>1 DEF Unopened
<1>14. ASSUME Playing(y) PROVE Pair(x, y)' /\ Pair(y, x)'
  <2>1. Pair(x, y) /\ Pair(y, x) BY <1>1, <1>8, <1>14 DEF Both
  <2>2. IsShot(p) /\ Fresh(x, p) /\ p.cell \in offensive_tries[y]
    BY <1>2, <2>1 DEF Pair, Mail, Fits, IsShot, Defending, p
  <2>3. p.cell \notin Heard(x) BY <1>1, <1>3, <2>2, Transposing DEF Fresh, Heard, TypeInv
  <2>4. p.cell = curr[y] /\ state[y] \in {"SENDING_SHOT", "EXIT"} BY <2>1, <2>2, <2>3 DEF Pair, Tries
  <2>5. Heard(x)' = offensive_tries[y] /\ Heard(y)' = Heard(y)
    <3>1. Heard(x)' = Heard(x) \cup {p.cell}
      <4>1. Mirror(tries) = Mirror(defensive_tries[x]) \cup {Transposed(c)}
        BY <1>1, <1>3, <1>6, MirrorAdds DEF TypeInv
      <4> QED BY <1>3, <1>5, <4>1 DEF Heard
    <3>2. offensive_tries[y] = Heard(x) \cup {p.cell} BY <2>1, <2>2, <2>4 DEF Pair, Tries
    <3> QED BY <1>5, <3>1, <3>2 DEF Heard
  <2>6. Flying(y, x) /\ ~Flying(y, x)' BY <1>4, <2>2, <2>3, <2>5 DEF Flying
  <2>7. ~Flying(x, y) /\ ~Flying(x, y)' /\ ~Lost(y) /\ ~Lost(y)'
    <3>1. offensive_tries[x] = Heard(y) BY <2>1 DEF Pair, Tries
    <3>2. ~Lost(y) BY <2>1 DEF Pair, Duel
    <3>3. Lost(y)' <=> Lost(y) BY <1>4, <1>5 DEF Lost
    <3> QED BY <1>4, <2>5, <3>1, <3>2, <3>3 DEF Flying
  <2>8. (Tries(x, y) /\ Tries(y, x))'
    <3>1. Tries(x, y)' BY <1>4, <1>10, <2>1, <2>5 DEF Pair, Tries
    <3>2. Heard(x)' = Heard(x) \cup {curr[y]} BY <2>1, <2>2, <2>4, <2>5 DEF Pair, Tries
    <3>3. Tries(y, x)' BY <1>4, <1>5, <2>1, <2>4, <2>5, <3>2 DEF Pair, Tries
    <3> QED BY <3>1, <3>3
  <2>9. (Turn(x, y) /\ Turn(y, x))'
    <3>1. Ahead(x, y)' = Ahead(x, y) /\ Ahead(y, x)' = Ahead(y, x) BY <1>4 DEF Ahead
    <3>2. state[y] \notin Attacking BY <2>4 DEF Attacking
    <3> QED BY <1>4, <1>5, <2>1, <2>6, <2>7, <3>1, <3>2 DEF Pair, Turn
  <2>10. (Duel(x, y) /\ Duel(y, x))'
    <3>1. state[y] # "SENDING_SHOT" \/ curr'[x] = Transposed(curr'[y]) BY <1>5, <1>6, <2>4
    <3>2. Duel(x, y)' BY <1>4, <1>5, <1>10, <2>4, <2>6, <3>1 DEF Duel, Attacking
    <3>3. Duel(y, x)' BY <1>4, <1>5, <1>10, <2>4, <2>7 DEF Duel, Attacking
    <3> QED BY <3>2, <3>3
  <2>11. \A i \in DOMAIN inbox'[x] : ~IsResult(inbox'[x][i])
    BY <2>1, <2>2, RestInOrder DEF Pair, InOrder, p
  <2>12. Mail(x, y)'
    <3>1. \A i \in DOMAIN inbox'[x] : Fits(x, y, inbox'[x][i]) BY <1>2, <2>1 DEF Pair, Mail
    <3>2. state'[x] \notin Handshake \cup Defending BY <1>10 DEF Handshake, Defending
    <3> QED BY <1>4, <1>5, <2>11, <3>1, <3>2 DEF Mail, Fits, IsShot, IsResult
  <2>13. Mail(y, x)'
    <3>1. \A i \in DOMAIN inbox[y] : Fits(y, x, inbox[y][i]) BY <2>1 DEF Pair, Mail
    <3>2. ASSUME state[y] = "SENDING_SHOT" PROVE curr[y] \notin Heard(x) BY <2>3, <2>4
    <3>3. \A i \in DOMAIN inbox[y] : IsResult(inbox[y][i]) => state[y] # "SENDING_SHOT"
      BY <3>1, <3>2 DEF Fits
    <3> QED BY <1>2, <1>4, <1>5, <3>1, <3>3 DEF Mail, Fits, Fresh, IsShot, IsResult
  <2>14. Order(x)' BY <2>11 DEF Order, InOrder, IsResult
  <2>15. Order(y)' BY <1>2, <1>5, <2>1 DEF Pair, Order, InOrder, Fresh
  <2> QED BY <2>8, <2>9, <2>10, <2>12, <2>13, <2>14, <2>15 DEF Pair
<1>15. Both(x, y)' /\ Both(y, x)' BY <1>5, <1>8, <1>13, <1>14 DEF Both, Playing, Left
<1> QED BY <1>7, <1>11, <1>12, <1>15, OfBoth

(* The result of a shot: it is that of the last one.                       *)
LEMMA ResultKeeps ==
  ASSUME NEW x, NEW y, Players(x, y), IInv, Consume(x),
         state[x] = "SENDING_SHOT",
         NEW p, p = Head(inbox[x]),
         NEW s, \/ p.cmd = "IM_HIT" /\ s = "DISPLAY_HIT"
                \/ p.cmd = "YOU_MISSED" /\ s = "DISPLAY_MISS"
                \/ p.cmd = "IM_DEAD" /\ s = "BASKING",
         state' = [state EXCEPT ![x] = s],
         offensive_hits' = IF p.cmd = "IM_HIT"
                           THEN [offensive_hits EXCEPT ![x] = @ \cup {Transposed(p.cell)}]
                           ELSE offensive_hits,
         UNCHANGED <<my_random, curr, placed_items, offensive_tries, defensive_tries>>
  PROVE  IInv'
<1>1. /\ x \in Badges /\ y \in Badges /\ x # y /\ TypeInv /\ Badges = {x, y}
      /\ Own(x) /\ Own(y) /\ Both(x, y) /\ Both(y, x)
  BY OfBoth DEF Players
<1>2. /\ inbox' \in [Badges -> Seq(Packet)] /\ inbox'[y] = inbox[y]
      /\ \A b \in Badges : Len(inbox'[b]) <= InboxRoom
      /\ \A i \in DOMAIN inbox'[x] :
           i \in Nat /\ i + 1 > 1 /\ i + 1 \in DOMAIN inbox[x] /\ inbox'[x][i] = inbox[x][i + 1]
      /\ 1 \in DOMAIN inbox[x] /\ p = inbox[x][1] /\ p \in Packet
      /\ opens[y] # 0 /\ opens' = opens
  BY Consumed DEF Consume
<1>3. /\ IsResult(p)
      /\ \/ p.cmd = "IM_HIT" /\ s = "DISPLAY_HIT"
         \/ p.cmd = "YOU_MISSED" /\ s = "DISPLAY_MISS"
         \/ p.cmd = "IM_DEAD" /\ s = "BASKING"
  BY DEF IsResult
<1>4. Transposed(p.cell) \in Cell BY <1>2, Transposing DEF Packet
<1>5. /\ state'[x] = s /\ state'[y] = state[y] /\ state' \in [Badges -> States]
      /\ offensive_hits'[x] = offensive_hits[x]
           \cup (IF p.cmd = "IM_HIT" THEN {Transposed(p.cell)} ELSE {})
      /\ offensive_hits'[y] = offensive_hits[y]
      /\ offensive_hits' \in [Badges -> SUBSET Cell]
  <2>1. s \in States BY <1>3 DEF States, ButtonNext
  <2>2. /\ offensive_hits[x] \in SUBSET Cell
        /\ offensive_hits[x] \cup {Transposed(p.cell)} \in SUBSET Cell
    BY <1>1, <1>4 DEF TypeInv
  <2>3. state'[x] = s /\ state'[y] = state[y] /\ state' \in [Badges -> States]
    BY <1>1, <2>1 DEF TypeInv
  <2>4. CASE p.cmd = "IM_HIT" BY <1>1, <2>2, <2>3, <2>4 DEF TypeInv
  <2>5. CASE p.cmd # "IM_HIT" BY <1>1, <2>2, <2>3, <2>5 DEF TypeInv
  <2> QED BY <2>4, <2>5
<1>6. TypeInv' BY <1>1, <1>2, <1>5 DEF TypeInv
<1>7. Playing(x) /\ Solo(x) BY <1>1 DEF Own, Playing, Left
<1>8. Own(x)'
  <2>1. Solo(x)' BY <1>2, <1>3, <1>5, <1>7 DEF Solo, Lost, Handshake
  <2> QED BY <1>3, <1>5, <2>1 DEF Own, Idle, Left
<1>9. Own(y)' BY <1>1, <1>2, <1>5 DEF Own, Idle, Left, Playing, Solo, Lost
<1>10. Unopened(x, y)' /\ Unopened(y, x)'
  <2>1. opens[x] = 1 BY <1>7 DEF Solo
  <2> QED BY <1>2, <2>1 DEF Unopened
<1>11. ASSUME Playing(y) PROVE Pair(x, y)' /\ Pair(y, x)'
  <2>1. Pair(x, y) /\ Pair(y, x) BY <1>1, <1>7, <1>11 DEF Both
  <2>2. Fits(x, y, p) BY <1>2, <2>1 DEF Pair, Mail
  <2>3. /\ curr[x] \in Heard(y)
        /\ p.cmd = "IM_DEAD" <=> Lost(y)
        /\ p.cmd = "IM_HIT" => Transposed(p.cell) = curr[x] /\ Transposed(curr[x]) \in placed_items[y]
        /\ p.cmd = "YOU_MISSED" => Transposed(curr[x]) \notin placed_items[y]
    BY <1>3, <2>2 DEF Fits
  <2>4. offensive_tries[x] = Heard(y) BY <2>1, <2>3 DEF Pair, Tries
  <2>5. Heard(x)' = Heard(x) /\ Heard(y)' = Heard(y) /\ Lost(x)' = Lost(x) /\ Lost(y)' = Lost(y)
    BY DEF Heard, Lost
  <2>6. (Flying(x, y)' <=> Flying(x, y)) /\ (Flying(y, x)' <=> Flying(y, x)) /\ ~Flying(x, y)
    BY <2>4, <2>5 DEF Flying
  <2>7. (Tries(x, y) /\ Tries(y, x))'
    <3>1. curr[x] \in Cell /\ placed_items[y] \in SUBSET Cell BY <1>1 DEF TypeInv
    <3>2. p.cmd = "IM_HIT" => curr[x] \in Mirror(placed_items[y]) BY <2>3, <3>1, Transposing
    <3>3. p.cmd = "YOU_MISSED" => curr[x] \notin Mirror(placed_items[y]) BY <2>3, <3>1, Transposing
    <3>4. Tries(x, y)' BY <1>3, <1>5, <2>1, <2>3, <2>4, <2>5, <3>2, <3>3 DEF Pair, Tries
    <3>5. Tries(y, x)' BY <1>5, <2>1, <2>5 DEF Pair, Tries
    <3> QED BY <3>4, <3>5
  <2>8. (Turn(x, y) /\ Turn(y, x))'
    <3>1. s \notin Attacking BY <1>3 DEF Attacking
    <3> QED BY <1>5, <2>1, <2>6, <3>1 DEF Pair, Turn, Ahead
  <2>9. (Duel(x, y) /\ Duel(y, x))'
    <3>1. Duel(x, y)' BY <1>3, <1>5, <2>1, <2>5, <2>6 DEF Pair, Duel, Attacking
    <3>2. Duel(y, x)' BY <1>3, <1>5, <2>1, <2>3, <2>5, <2>6 DEF Pair, Duel, Attacking
    <3> QED BY <3>1, <3>2
  <2>10. \A i \in DOMAIN inbox'[x] : IsShot(inbox'[x][i]) => Fresh(x, inbox'[x][i])
    BY <1>3, <2>1, RestInOrder DEF Pair, InOrder
  <2>11. Mail(x, y)'
    <3>1. \A i \in DOMAIN inbox'[x] : Fits(x, y, inbox'[x][i]) BY <1>2, <2>1 DEF Pair, Mail
    <3>2. s \notin Handshake \cup Attacking /\ s # "SENDING_SHOT" BY <1>3 DEF Handshake, Attacking
    <3> QED BY <1>5, <2>10, <3>1, <3>2 DEF Mail, Fits, Fresh, IsShot, IsResult
  <2>12. Mail(y, x)' BY <1>2, <1>5, <2>1 DEF Pair, Mail, Fits, Fresh, Heard, Lost
  <2>13. Order(x)'
    <3>1. \A i, j \in DOMAIN inbox'[x] : i < j => InOrder(x, inbox'[x][i], inbox'[x][j])
      BY <2>1, RestInOrder DEF Pair
    <3> QED BY <3>1 DEF Order, InOrder, Fresh
  <2>14. Order(y)' BY <1>2, <1>5, <2>1 DEF Pair, Order, InOrder, Fresh
  <2> QED BY <2>7, <2>8, <2>9, <2>11, <2>12, <2>13, <2>14 DEF Pair
<1>12. Both(x, y)' /\ Both(y, x)' BY <1>5, <1>7, <1>10, <1>11 DEF Both, Playing, Left
<1> QED BY <1>6, <1>8, <1>9, <1>12, OfBoth

(* Whatever the packet.                                                    *)
LEMMA PacketKeeps ==
  ASSUME NEW x, NEW y, Players(x, y), IInv, firewall_ir_cb(x)
  PROVE  IInv'
<1> DEFINE p == Head(inbox[x])
<1>1. /\ x \in Badges /\ y \in Badges /\ x # y /\ TypeInv /\ Own(x) /\ Own(y) /\ Both(x, y)
      /\ Randoms[x] \cap Randoms[y] = {}
  BY OfBoth DEF Players
<1>2. Consume(x) BY DEF firewall_ir_cb, Consume
<1>3. /\ 1 \in DOMAIN inbox[x] /\ p = inbox[x][1] /\ p \in Packet
  BY <1>2, Consumed
<1>4. CASE UNCHANGED <<state, my_random, curr, gridVars>> BY <1>2, <1>4, IgnoredKeeps
<1>5. CASE state[x] \in Heeded[p.cmd] /\ Handle(x, p)
  <2>1. p.cmd \in {"SHALL_WE_PLAY", "LOVE_TO", "WHO_STARTS", "LETS_START", "SHOT_TAKEN",
                   "IM_HIT", "YOU_MISSED", "IM_DEAD"}
    BY <1>3 DEF Packet, Heeded, HeededIn
  <2>2. /\ p.cmd = "SHALL_WE_PLAY" => state[x] = "WAITING_FOR_CONNECT"
        /\ p.cmd = "LOVE_TO" => state[x] \in {"WAITING_FOR_CONNECT", "WAITING_FOR_OTHER_PLAYER"}
        /\ p.cmd = "WHO_STARTS" => state[x] \in {"WAITING_FOR_OTHER_PLAYER", "WHO_GOES_FIRST"}
        /\ p.cmd = "LETS_START" => state[x] = "WHO_GOES_FIRST"
        /\ p.cmd = "SHOT_TAKEN" => state[x] \in {"DISPLAY_DEFENSE", "WAITING", "SHOW_OFF_GRID"}
        /\ p.cmd \in {"IM_HIT", "YOU_MISSED", "IM_DEAD"} => state[x] = "SENDING_SHOT"
    BY <1>5, <2>1 DEF Heeded, HeededIn
  <2> HIDE DEF p
  <2>3. ASSUME state[x] \in Handshake \ {"WELCOME_SCREEN"}
        PROVE  Playing(x) /\ my_random[x] \in Randoms[x]
               /\ my_random = [my_random EXCEPT ![x] = my_random[x]]
    <3>1. Playing(x) BY <2>3 DEF Playing, Left, Handshake
    <3> QED BY <1>1, <3>1 DEF Own, Solo, TypeInv
  <2>4. ASSUME p.cmd \in {"WHO_STARTS", "LETS_START"}, Playing(y)
        PROVE  /\ my_random[x] # my_random[y] /\ my_random[x] \in Nat /\ my_random[y] \in Nat
               /\ p.num = my_random[y] \/ (p.num = 0 /\ my_random[x] > my_random[y])
               /\ p.cmd = "WHO_STARTS" => p.num = my_random[y]
    <3>1. state[x] \in Handshake \ {"WELCOME_SCREEN"} BY <2>2, <2>4 DEF Handshake
    <3>2. Playing(x) /\ my_random[x] \in Randoms[x] BY <2>3, <3>1
    <3>3. Pair(x, y) /\ my_random[y] \in Randoms[y] BY <1>1, <2>4, <3>2 DEF Both, Own, Solo
    <3>4. Fits(x, y, p) BY <1>3, <3>3 DEF Pair, Mail
    <3> QED BY <1>1, <2>4, <3>2, <3>3, <3>4 DEF Fits, TypeInv
  <2>5. CASE p.cmd \in {"SHALL_WE_PLAY", "LOVE_TO"}
    <3>1. PICK s \in {"WAITING_FOR_OTHER_PLAYER", "WHO_GOES_FIRST"} : received_peering(x, s)
      BY <1>5, <2>5 DEF Handle
    <3>2. state[x] \in Handshake \ {"WELCOME_SCREEN"} BY <2>2, <2>5 DEF Handshake
    <3>3. s \in States /\ s \in Handshake \ {"WELCOME_SCREEN"}
      BY <3>1 DEF States, ButtonNext, Handshake
    <3>4. s \notin {"DISPLAY_OFFENSE", "DISPLAY_DEFENSE"} BY <3>1
    <3> QED BY <1>2, <2>3, <3>1, <3>2, <3>3, <3>4, HandshakeKeeps DEF received_peering, Goto
  <2>6. CASE p.cmd \in {"WHO_STARTS", "LETS_START"}
    <3>1. state[x] \in Handshake \ {"WELCOME_SCREEN"} BY <2>2, <2>6 DEF Handshake
    <3> DEFINE role == IF my_random[x] > p.num THEN "DISPLAY_OFFENSE" ELSE "DISPLAY_DEFENSE"
    <3>2. role \in States /\ role \in {"DISPLAY_OFFENSE", "DISPLAY_DEFENSE"} BY DEF States, ButtonNext
    <3>3. Playing(y) => /\ role = "DISPLAY_OFFENSE" => my_random[x] > my_random[y]
                        /\ role = "DISPLAY_DEFENSE" => my_random[x] < my_random[y]
      BY <2>4, <2>6
    <3>4. CASE Roles(x, p.num) /\ UNCHANGED <<my_random, curr, gridVars>>
      <4>1. state' = [state EXCEPT ![x] = role] BY <3>4 DEF Roles, Goto
      <4> HIDE DEF role
      <4> QED BY <1>2, <2>3, <3>1, <3>2, <3>3, <3>4, <4>1, HandshakeKeeps
    <3>5. CASE p.cmd = "WHO_STARTS" /\ p.num = my_random[x] /\ received_who_first(x, p.num)
      <4>1. ~Playing(y) BY <2>4, <3>5
      <4>2. PICK r \in Randoms[x] : my_random' = [my_random EXCEPT ![x] = r]
        BY <3>5 DEF received_who_first
      <4>3. state' = [state EXCEPT ![x] = "WHO_GOES_FIRST"] /\ UNCHANGED <<curr, gridVars>>
        BY <3>5 DEF received_who_first, Goto
      <4>4. "WHO_GOES_FIRST" \in States /\ "WHO_GOES_FIRST" \in Handshake \ {"WELCOME_SCREEN"}
        BY DEF States, ButtonNext, Handshake
      <4> QED BY <1>2, <3>1, <4>1, <4>2, <4>3, <4>4, HandshakeKeeps
    <3>6. Handle(x, p) => \/ received_lets_start(x, p.num) /\ p.cmd = "LETS_START"
                          \/ received_who_first(x, p.num) /\ p.cmd = "WHO_STARTS"
      BY <2>6 DEF Handle
    <3> QED BY <1>5, <3>4, <3>5, <3>6 DEF received_lets_start, received_who_first
  <2>7. CASE p.cmd = "SHOT_TAKEN"
    <3>1. received_shot(x, p.cell) BY <1>5, <2>7 DEF Handle
    <3> QED BY <1>2, <2>2, <2>7, <3>1, ShotKeeps DEF p
  <2>8. CASE p.cmd = "IM_HIT"
    <3>1. received_confirmation(x, TRUE, p.cell) BY <1>5, <2>8 DEF Handle
    <3>2. /\ state' = [state EXCEPT ![x] = "DISPLAY_HIT"]
          /\ offensive_hits' = [offensive_hits EXCEPT ![x] = @ \cup {Transposed(p.cell)}]
          /\ UNCHANGED <<my_random, curr, placed_items, offensive_tries, defensive_tries>>
      BY <3>1 DEF received_confirmation, Goto
    <3> QED BY <1>2, <2>2, <2>8, <3>2, ResultKeeps DEF p
  <2>9. CASE p.cmd = "YOU_MISSED"
    <3>1. received_confirmation(x, FALSE, p.cell) BY <1>5, <2>9 DEF Handle
    <3>2. /\ state' = [state EXCEPT ![x] = "DISPLAY_MISS"] /\ offensive_hits' = offensive_hits
          /\ UNCHANGED <<my_random, curr, placed_items, offensive_tries, defensive_tries>>
      BY <1>1, <3>1 DEF received_confirmation, Goto, TypeInv
    <3> QED BY <1>2, <2>2, <2>9, <3>2, ResultKeeps DEF p
  <2>10. CASE p.cmd = "IM_DEAD"
    <3>1. received_victory(x) BY <1>5, <2>10 DEF Handle
    <3>2. /\ state' = [state EXCEPT ![x] = "BASKING"] /\ offensive_hits' = offensive_hits
          /\ UNCHANGED <<my_random, curr, placed_items, offensive_tries, defensive_tries>>
      BY <3>1 DEF received_victory, Goto, gridVars
    <3> QED BY <1>2, <2>2, <2>10, <3>2, ResultKeeps DEF p
  <2> QED BY <2>1, <2>5, <2>6, <2>7, <2>8, <2>9, <2>10
<1> QED BY <1>4, <1>5 DEF firewall_ir_cb

-----------------------------------------------------------------------------
(* The game.                                                               *)

(* Nobody has opened the game.                                             *)
LEMMA InitInv ==
  ASSUME TwoPlayers, Init
  PROVE  IInv
<1>1. TypeInv
  <2>1. NoCell \in Cell /\ "START" \in States BY GridAssumption DEF Cell, NoCell, States
  <2> QED BY <2>1, FS_EmptySet, PlayAssumption DEF Init, TypeInv
<1>2. \A b \in Badges : Own(b) BY DEF Init, Own, Idle, Left, Playing
<1>3. \A a, b \in Badges : a # b => Both(a, b) BY DEF Init, Both, Unopened, Left, Playing, Alone
<1> QED BY <1>1, <1>2, <1>3 DEF IInv

(* Every step, of either badge.                                            *)
LEMMA NextInv ==
  ASSUME TwoPlayers, IInv, [Next]_vars
  PROVE  IInv'
<1>1. CASE Next
  <2>1. PICK x \in Badges : User(x) \/ Exit(x) \/ Send(x) \/ firewall_ir_cb(x) BY <1>1 DEF Next
  <2>2. PICK y : Players(x, y) BY DEF TwoPlayers, Players
  <2> QED BY <2>1, <2>2, OpenKeeps, ShipsKeep, ButtonKeeps, SetUpKeeps, CrosshairKeeps, TakeShotKeeps,
             ExitKeeps, SendKeeps, PacketKeeps DEF User
<1>2. CASE UNCHANGED vars
  <2>1. UNCHANGED <<state, my_random, curr, placed_items, offensive_tries, offensive_hits,
                    defensive_tries, inbox, opens>>
    BY <1>2 DEF vars, gridVars
  <2>2. TypeInv' BY <2>1 DEF IInv, TypeInv
  <2>3. \A a \in Badges : Own(a)' BY <2>1 DEF IInv, Own, Idle, Left, Playing, Solo, Lost
  <2>4. ASSUME NEW a \in Badges, NEW b \in Badges, a # b PROVE Both(a, b)'
    <3>1. Both(a, b) BY <2>4 DEF IInv
    <3>2. Unopened(a, b)' BY <2>1, <3>1 DEF Both, Unopened, Left
    <3>3. ASSUME Playing(a), Playing(b) PROVE Pair(a, b)'
      <4>1. Pair(a, b) BY <3>1, <3>3 DEF Both
      <4>2. Mail(a, b)' BY <2>1, <4>1 DEF Pair, Mail, Fits, Fresh, Heard, Lost
      <4>3. Order(a)' BY <2>1, <4>1 DEF Pair, Order, InOrder, Fresh
      <4>4. Tries(a, b)' BY <2>1, <4>1 DEF Pair, Tries, Heard
      <4>5. Turn(a, b)' BY <2>1, <4>1 DEF Pair, Turn, Ahead, Flying, Heard
      <4>6. Duel(a, b)' BY <2>1, <4>1 DEF Pair, Duel, Lost, Flying, Heard
      <4> QED BY <4>2, <4>3, <4>4, <4>5, <4>6 DEF Pair
    <3> QED BY <2>1, <3>2, <3>3 DEF Both, Playing, Left
  <2> QED BY <2>2, <2>3, <2>4 DEF IInv
<1> QED BY <1>1, <1>2

\* Two badges that play once keep the invariant, whatever is lost and however
\* their users and packets interleave.
THEOREM GameInvariant == ASSUME TwoPlayers PROVE Spec => []IInv
<1>1. Init => IInv BY InitInv
<1>2. IInv /\ [Next]_vars => IInv' BY NextInv
<1> QED BY <1>1, <1>2, PTL DEF Spec

\* What is known of two opponents.
LEMMA OpponentsPair ==
  ASSUME IInv, NEW ab \in Opponents
  PROVE  /\ ab[1] \in Badges /\ ab[2] \in Badges /\ TypeInv
         /\ Playing(ab[1]) /\ Playing(ab[2]) =>
              Pair(ab[1], ab[2]) /\ Pair(ab[2], ab[1]) /\ Solo(ab[1]) /\ Solo(ab[2])
BY DEF IInv, Opponents, Both, Own

\* Every variable keeps its range, and a badge has shot at what it hit
\* (received_confirmation), also when its opponent has left.
THEOREM FirewallTypeCorrect == ASSUME TwoPlayers PROVE Spec => []TypeOK
<1>1. ASSUME IInv PROVE TypeOK
  <2>1. TypeInv /\ \A b \in Badges : Own(b) BY <1>1 DEF IInv
  <2>2. \A b \in Badges : offensive_hits[b] \subseteq offensive_tries[b]
    BY <2>1 DEF Own, Idle, Playing, Solo
  <2> QED BY <2>1, <2>2 DEF TypeInv, TypeOK
<1>2. IInv => TypeOK BY <1>1
<1> QED BY <1>2, GameInvariant, PTL

\* Whatever of the handshake is lost or repeated, the badge with the higher
\* number has the first shot (HighestStarts: received_who_first,
\* received_lets_start).
THEOREM HigherNumberStarts == ASSUME TwoPlayers PROVE Spec => []HighestStarts
<1>1. ASSUME IInv PROVE HighestStarts
  BY <1>1, OpponentsPair DEF HighestStarts, Playing, Pair, Duel
<1>2. IInv => HighestStarts BY <1>1
<1> QED BY <1>2, GameInvariant, PTL

\* Repeated shots and answers never give a badge two shots in a row
\* (TurnsAlternate: the states in which firewall_ir_cb heeds a packet).
THEOREM TurnsDoAlternate == ASSUME TwoPlayers PROVE Spec => []TurnsAlternate
<1>1. ASSUME IInv, NEW ab \in Opponents, Playing(ab[1]), Playing(ab[2]),
             ~(my_random[ab[1]] < my_random[ab[2]])
      PROVE  Ahead(ab[1], ab[2]) \in {0, 1}
  <2>1. Pair(ab[1], ab[2]) /\ Solo(ab[1]) /\ Solo(ab[2]) /\ TypeInv
    BY <1>1, OpponentsPair
  <2>2. PICK x, y \in Badges : x # y /\ Badges = {x, y} /\ Randoms[x] \cap Randoms[y] = {}
    BY DEF TwoPlayers
  <2>3. ab[1] \in Badges /\ ab[2] \in Badges /\ ab[1] # ab[2] BY DEF Opponents
  <2>4. my_random[ab[1]] # my_random[ab[2]] BY <2>1, <2>2, <2>3 DEF Solo
  <2>5. my_random[ab[1]] \in Nat /\ my_random[ab[2]] \in Nat BY <2>1, <2>3 DEF TypeInv
  <2>6. my_random[ab[1]] > my_random[ab[2]] BY <1>1, <2>4, <2>5
  <2> QED BY <2>1, <2>6 DEF Pair, Turn
<1>2. IInv => TurnsAlternate BY <1>1 DEF TurnsAlternate, Ahead, Playing
<1> QED BY <1>2, GameInvariant, PTL

\* The two badges' grids tell the same story, all but the last shot and its
\* result (GridsAgree: received_shot, received_confirmation).
THEOREM GridsDoAgree == ASSUME TwoPlayers PROVE Spec => []GridsAgree
<1>1. ASSUME IInv, NEW ab \in Opponents, Playing(ab[1]), Playing(ab[2])
      PROVE  /\ Tries(ab[1], ab[2])
             /\ Cardinality(offensive_tries[ab[1]] \ Heard(ab[2])) <= 1
  <2>1. Tries(ab[1], ab[2]) BY <1>1, OpponentsPair DEF Pair
  <2>2. offensive_tries[ab[1]] \ Heard(ab[2]) \subseteq {curr[ab[1]]} BY <2>1 DEF Tries
  <2>3. \/ offensive_tries[ab[1]] \ Heard(ab[2]) = {}
        \/ offensive_tries[ab[1]] \ Heard(ab[2]) = {curr[ab[1]]}
    BY <2>2
  <2>4. CASE offensive_tries[ab[1]] \ Heard(ab[2]) = {} BY <2>1, <2>4, FS_EmptySet
  <2>5. CASE offensive_tries[ab[1]] \ Heard(ab[2]) = {curr[ab[1]]}
    <3>1. Cardinality({curr[ab[1]]}) = 1 BY FS_Singleton
    <3>2. Cardinality(offensive_tries[ab[1]] \ Heard(ab[2])) = 1 BY <2>5, <3>1
    <3> QED BY <2>1, <3>2
  <2> QED BY <2>3, <2>4, <2>5
<1>2. IInv => GridsAgree BY <1>1 DEF GridsAgree, Tries, Heard, Playing
<1> QED BY <1>2, GameInvariant, PTL

\* Only a badge that has hit all of its opponent's ships celebrates
\* (VictoryIsEarned: i_am_dead, received_victory).
THEOREM VictoryIsDeserved == ASSUME TwoPlayers PROVE Spec => []VictoryIsEarned
<1>1. ASSUME IInv, NEW ab \in Opponents, state[ab[1]] = "BASKING", Playing(ab[2])
      PROVE  Mirror(placed_items[ab[2]]) \subseteq offensive_tries[ab[1]]
  <2>1. Pair(ab[1], ab[2]) /\ Pair(ab[2], ab[1]) BY <1>1, OpponentsPair DEF Playing, Left
  <2>2. placed_items[ab[2]] \subseteq defensive_tries[ab[2]] BY <1>1, <2>1 DEF Pair, Duel, Lost
  <2>3. Mirror(placed_items[ab[2]]) \subseteq Heard(ab[2]) BY <2>2 DEF Mirror, Heard
  <2> QED BY <2>1, <2>3 DEF Pair, Tries
<1>2. IInv => VictoryIsEarned BY <1>1 DEF VictoryIsEarned, Playing
<1> QED BY <1>2, GameInvariant, PTL

-----------------------------------------------------------------------------
(* The game that is played: Firewall implements Battleships.               *)

\* A badge that has not asked for an opponent has not been answered.
Unready(a, b) ==
  /\ state[a] = "WELCOME_SCREEN" => placed_items[a] = {}
  /\ state[a] \in {"WELCOME_SCREEN", "INITIAL_DISPLAY"} => state[b] \in Alone /\ inbox[b] = <<>>

GInv == IInv /\ \A a, b \in Badges : a # b => Unready(a, b)

Step(b) == User(b) \/ Exit(b) \/ Send(b) \/ firewall_ir_cb(b)

(* A packet is heeded in the course of the game, and its handler stays     *)
(* there.                                                                  *)
LEMMA HandledIs ==
  ASSUME NEW x \in Badges, TypeInv, NEW p \in Packet, state[x] \in Heeded[p.cmd], Handle(x, p)
  PROVE  /\ state[x] \in {"WAITING_FOR_CONNECT", "WAITING_FOR_OTHER_PLAYER", "WHO_GOES_FIRST",
                          "DISPLAY_DEFENSE", "WAITING", "SHOW_OFF_GRID", "SENDING_SHOT"}
         /\ \E s \in States \ (Alone \cup {"SENDING_SHOT"}) : state' = [state EXCEPT ![x] = s]
         /\ UNCHANGED placed_items
<1>1. p.cmd \in {"SHALL_WE_PLAY", "LOVE_TO", "WHO_STARTS", "LETS_START", "SHOT_TAKEN",
                 "IM_HIT", "YOU_MISSED", "IM_DEAD"}
  BY DEF Packet, Heeded, HeededIn
<1>2. state[x] \in {"WAITING_FOR_CONNECT", "WAITING_FOR_OTHER_PLAYER", "WHO_GOES_FIRST",
                    "DISPLAY_DEFENSE", "WAITING", "SHOW_OFF_GRID", "SENDING_SHOT"}
  BY <1>1 DEF Heeded, HeededIn
<1> DEFINE later == {"WAITING_FOR_OTHER_PLAYER", "WHO_GOES_FIRST", "DISPLAY_OFFENSE", "DISPLAY_DEFENSE",
                     "SEND_HIT", "SEND_MISS", "DEAD", "DISPLAY_HIT", "DISPLAY_MISS", "BASKING"}
<1>3. later \subseteq States \ (Alone \cup {"SENDING_SHOT"}) BY DEF States, ButtonNext, Alone
<1>4. \E s \in later : Goto(x, s) /\ UNCHANGED placed_items
  BY <1>1 DEF Handle, received_peering, received_who_first, received_lets_start, Roles,
              received_shot, Verdict, received_confirmation, received_victory, gridVars
<1> HIDE DEF later
<1> QED BY <1>2, <1>3, <1>4 DEF Goto

(* A step of a badge is its own.                                           *)
LEMMA StepIsOwn ==
  ASSUME NEW x, NEW y, Players(x, y), IInv, Step(x)
  PROVE  /\ state'[y] = state[y] /\ opens'[y] = opens[y] /\ placed_items'[y] = placed_items[y]
         /\ my_random'[y] = my_random[y] /\ offensive_tries'[y] = offensive_tries[y]
         /\ offensive_hits'[y] = offensive_hits[y] /\ defensive_tries'[y] = defensive_tries[y]
         /\ curr'[y] = curr[y]
<1>1. x \in Badges /\ y \in Badges /\ x # y /\ TypeInv BY OfBoth DEF Players
<1> USE <1>1 DEF TypeInv, Goto, gridVars
<1>2. CASE Open(x) BY <1>2 DEF Open
<1>3. CASE display_our_ships(x) BY <1>3 DEF display_our_ships
<1>4. CASE Button(x) BY <1>4 DEF Button
<1>5. CASE set_up_to_take_shot(x) BY <1>5 DEF set_up_to_take_shot
<1>6. CASE fw_move_crosshair(x)
  <2>1. PICK d : curr' = [curr EXCEPT ![x] = d] BY <1>6 DEF fw_move_crosshair
  <2> QED BY <1>6, <2>1 DEF fw_move_crosshair
<1>7. CASE TakeShot(x) BY <1>7 DEF TakeShot
<1>8. CASE Exit(x) BY <1>8 DEF Exit
<1>9. CASE Send(x) BY <1>9 DEF Send
<1>10. CASE firewall_ir_cb(x)
  <2>1. opens' = opens BY <1>10 DEF firewall_ir_cb
  <2>2. PICK p : \/ state[x] \in Heeded[p.cmd] /\ Handle(x, p) /\ p \in Packet
                 \/ UNCHANGED <<state, my_random, curr, gridVars>>
    <3>1. inbox[x] \in Seq(Packet) /\ inbox[x] # <<>> BY <1>10 DEF firewall_ir_cb
    <3>2. Head(inbox[x]) \in Packet BY <3>1
    <3> QED BY <1>10, <3>2 DEF firewall_ir_cb
  <2>3. CASE state[x] \in Heeded[p.cmd] /\ Handle(x, p) /\ p \in Packet
    <3>1. p.cmd \in {"SHALL_WE_PLAY", "LOVE_TO", "WHO_STARTS", "LETS_START", "SHOT_TAKEN",
                     "IM_HIT", "YOU_MISSED", "IM_DEAD"}
      BY <2>3 DEF Packet, Heeded, HeededIn
    <3> QED BY <2>1, <2>3, <3>1 DEF Handle, received_peering, received_who_first, received_lets_start,
              Roles, received_shot, received_confirmation, received_victory
  <2> QED BY <2>1, <2>2, <2>3
<1> QED BY <1>2, <1>3, <1>4, <1>5, <1>6, <1>7, <1>8, <1>9, <1>10 DEF Step, User

(* Who has not asked gets no packet, and who gets one asked before.        *)
LEMMA UnreadyKeeps ==
  ASSUME NEW x, NEW y, Players(x, y), IInv, Unready(x, y), Unready(y, x), Step(x)
  PROVE  Unready(x, y)' /\ Unready(y, x)'
<1>1. x \in Badges /\ y \in Badges /\ x # y /\ TypeInv /\ Own(x) /\ Both(x, y) BY OfBoth DEF Players
<1>2. state'[y] = state[y] /\ placed_items'[y] = placed_items[y] BY StepIsOwn
<1> USE <1>1, <1>2 DEF TypeInv, Goto, gridVars, Unready
<1>3. CASE Open(x)
  <2>1. state'[x] = "WELCOME_SCREEN" /\ UNCHANGED <<placed_items, inbox>> /\ Left(x) BY <1>3 DEF Open, Left
  <2>2. opens[x] = 0 BY <1>3, PlayAssumption DEF Open, Players
  <2>3. state[y] \in Alone /\ inbox[y] = <<>> BY <2>2 DEF Both, Unopened
  <2>4. placed_items[x] = {} BY <2>1 DEF Own, Idle
  <2>5. "WELCOME_SCREEN" \in Alone BY DEF Alone
  <2> QED BY <2>1, <2>3, <2>4, <2>5
<1>4. CASE display_our_ships(x)
  <2>1. state[x] = "WELCOME_SCREEN" /\ state'[x] = "INITIAL_DISPLAY" /\ inbox' = inbox
    BY <1>4 DEF display_our_ships
  <2>2. "INITIAL_DISPLAY" \in Alone BY DEF Alone
  <2> QED BY <2>1, <2>2
<1>5. CASE Button(x)
  <2>1. state[x] \in DOMAIN ButtonNext /\ state' = [state EXCEPT ![x] = ButtonNext[state[x]]]
        /\ inbox' = inbox
    BY <1>5 DEF Button
  <2>2. \A s \in DOMAIN ButtonNext : ButtonNext[s] \notin {"WELCOME_SCREEN", "INITIAL_DISPLAY"}
    BY DEF ButtonNext
  <2>3. state'[x] \notin {"WELCOME_SCREEN", "INITIAL_DISPLAY"} BY <2>1, <2>2
  <2>4. state[x] \in Alone => state'[x] \in Alone
    <3> HIDE DEF Alone
    <3>1. state'[x] = ButtonNext[state[x]] BY <2>1
    <3> QED BY <2>1, <3>1, ButtonIs
  <2> QED BY <2>1, <2>3, <2>4
<1>6. CASE set_up_to_take_shot(x) BY <1>6 DEF set_up_to_take_shot, Alone
<1>7. CASE fw_move_crosshair(x) BY <1>7 DEF fw_move_crosshair, Alone
<1>8. CASE TakeShot(x) BY <1>8 DEF TakeShot, Alone
<1>9. CASE Exit(x) BY <1>9 DEF Exit, Alone
<1>10. CASE Send(x)
  <2>1. UNCHANGED <<state, placed_items>> BY <1>10 DEF Send
  <2>2. PICK m \in Outgoing(x), heard \in SUBSET (Badges \ {x}) :
          inbox' = [c \in Badges |-> IF c \in heard /\ Len(inbox[c]) < InboxRoom
                                     THEN Append(inbox[c], m) ELSE inbox[c]]
    BY <1>10 DEF Send
  <2>3. inbox'[x] = inbox[x] BY <2>2
  <2>4. state[x] \notin {"WELCOME_SCREEN", "INITIAL_DISPLAY"} BY OutgoingIs
  <2> QED BY <2>1, <2>3, <2>4
<1>11. CASE firewall_ir_cb(x)
  <2>1. inbox[x] # <<>> /\ inbox'[y] = inbox[y] BY <1>11 DEF firewall_ir_cb
  <2>2. state[y] \notin {"WELCOME_SCREEN", "INITIAL_DISPLAY"} BY <2>1
  <2>3. Head(inbox[x]) \in Packet BY <2>1
  <2>4. \/ UNCHANGED <<state, placed_items>>
        \/ \E s \in States \ (Alone \cup {"SENDING_SHOT"}) : state' = [state EXCEPT ![x] = s]
    BY <1>11, <2>3, HandledIs DEF firewall_ir_cb
  <2>5. {"WELCOME_SCREEN", "INITIAL_DISPLAY"} \subseteq Alone BY DEF Alone
  <2>6. UNCHANGED <<state, placed_items>> \/ state'[x] \notin {"WELCOME_SCREEN", "INITIAL_DISPLAY"}
    BY <2>4, <2>5
  <2> QED BY <2>1, <2>2, <2>6
<1> QED BY <1>3, <1>4, <1>5, <1>6, <1>7, <1>8, <1>9, <1>10, <1>11 DEF Step, User

(* The stronger invariant, for two badges.                                 *)
LEMMA OfBothReady ==
  ASSUME NEW x, NEW y, Players(x, y)
  PROVE  /\ GInv <=> IInv /\ Unready(x, y) /\ Unready(y, x)
         /\ (GInv <=> IInv /\ Unready(x, y) /\ Unready(y, x))'
<1>1. Badges = {x, y} /\ x # y BY DEF Players
<1>2. GInv <=> IInv /\ Unready(x, y) /\ Unready(y, x) BY <1>1 DEF GInv
<1>3. (GInv <=> IInv /\ Unready(x, y) /\ Unready(y, x))' BY <1>1 DEF GInv
<1> QED BY <1>2, <1>3

(* Every step keeps it.                                                    *)
LEMMA NextReady ==
  ASSUME TwoPlayers, GInv, [Next]_vars
  PROVE  GInv'
<1>1. IInv' BY NextInv DEF GInv
<1>2. CASE Next
  <2>1. PICK x \in Badges : Step(x) BY <1>2 DEF Next, Step
  <2>2. PICK y : Players(x, y) BY DEF TwoPlayers, Players
  <2> QED BY <1>1, <2>1, <2>2, OfBothReady, UnreadyKeeps
<1>3. CASE UNCHANGED vars BY <1>1, <1>3 DEF GInv, Unready, vars, gridVars
<1> QED BY <1>2, <1>3

(* A step of a badge that has left, or is about to, is the last of a game. *)
LEMMA OverForGood ==
  ASSUME NEW x, NEW y, Players(x, y), IInv, Over, Step(x)
  PROVE  Over'
<1>1. /\ x \in Badges /\ y \in Badges /\ x # y /\ Badges = {x, y} /\ MaxOpens <= 1 /\ TypeInv
      /\ Own(x) /\ state'[y] = state[y] /\ opens'[y] = opens[y]
  BY OfBoth, StepIsOwn DEF Players
<1> USE <1>1 DEF TypeInv
<1>2. CASE state[y] = "EXIT" \/ (Left(y) /\ opens[y] > 0) BY <1>2 DEF Over, Left
<1>3. CASE state[x] = "EXIT" \/ (Left(x) /\ opens[x] > 0)
  <2>1. opens[x] = 1 \/ (Left(x) /\ opens[x] > 0) BY <1>3 DEF Own, Playing, Solo, Left
  <2>2. CASE Exit(x) BY <2>1, <2>2 DEF Exit, Goto, Over, Left
  <2>3. CASE Send(x) BY <1>3, <2>3 DEF Send, Over, Left
  <2>4. CASE firewall_ir_cb(x)
    <3>1. inbox[x] \in Seq(Packet) /\ inbox[x] # <<>> BY <2>4 DEF firewall_ir_cb
    <3>2. Head(inbox[x]) \in Packet BY <3>1
    <3>3. ~(state[x] \in Heeded[Head(inbox[x]).cmd] /\ Handle(x, Head(inbox[x])))
      BY <1>3, <3>2, HandledIs DEF Left
    <3> QED BY <1>3, <2>4, <3>3 DEF firewall_ir_cb, Over, Left
  <2>5. CASE Open(x) BY <1>3, <2>5, PlayAssumption DEF Open, Left
  <2>6. CASE User(x) /\ ~Open(x)
    BY <1>3, <2>6 DEF User, display_our_ships, Button, ButtonNext, set_up_to_take_shot,
                      fw_move_crosshair, TakeShot, Left
  <2> QED BY <2>2, <2>3, <2>4, <2>5, <2>6 DEF Step
<1> QED BY <1>2, <1>3 DEF Over

-----------------------------------------------------------------------------
(* The steps of the game.                                                  *)

\* The boards while both badges are in the game.
Boards ==
  /\ gameShips = [b \in Badges |-> Mirror(placed_items[b])]
  /\ gameNumber = [b \in Badges |-> IF placed_items[b] = {} THEN 0 ELSE my_random[b]]
  /\ gameShots = [b \in Badges |-> offensive_tries[b]]
  /\ gameMarked = [b \in Badges |-> Heard(Opponent(b))]
  /\ gameTold = [b \in Badges |-> offensive_tries[b] \ Awaited(b)]
  /\ gameHits = [b \in Badges |-> offensive_hits[b]]
  /\ gameWinners = {b \in Badges : state[b] = "BASKING"}

LEMMA BoardsAre ==
  /\ ~Over => Boards
  /\ (~Over => Boards)'
<1> USE DEF Boards, gameShips, gameNumber, gameShots, gameMarked, gameTold, gameHits, gameWinners, Heard
<1>1. ~Over => Boards OBVIOUS
<1>2. (~Over => Boards)' OBVIOUS
<1> QED BY <1>1, <1>2

(* When one has left, they are wiped.                                      *)
LEMMA WipedBoards ==
  /\ Over => Game!Clear
  /\ Over' => Game!Clear'
<1> USE DEF Game!Clear, Game!Wiped, gameShips, gameNumber, gameShots, gameMarked, gameTold, gameHits,
            gameWinners
<1>1. Over => Game!Clear OBVIOUS
<1>2. (Over => Game!Clear)' OBVIOUS
<1> QED BY <1>1, <1>2

LEMMA OpponentIs ==
  ASSUME NEW x, NEW y, Players(x, y)
  PROVE  Opponent(x) = y /\ Opponent(y) = x
BY DEF Players, Opponent

(* Ships are sunk when the badge has lost.                                 *)
LEMMA SunkIsLost ==
  ASSUME NEW x, NEW y, Players(x, y), TypeInv, Boards, placed_items[x] # {}
  PROVE  Game!Sunk(x, y) <=> Lost(x)
<1>1. /\ x \in Badges /\ y \in Badges /\ Opponent(y) = x BY OpponentIs DEF Players
<1>2. placed_items[x] \in SUBSET Cell /\ defensive_tries[x] \in SUBSET Cell BY <1>1 DEF TypeInv
<1>3. Game!Sunk(x, y) <=> Mirror(placed_items[x]) \subseteq Mirror(defensive_tries[x])
  BY <1>1 DEF Game!Sunk, Boards, Heard
<1>4. Mirror(placed_items[x]) \subseteq Mirror(defensive_tries[x])
        <=> placed_items[x] \subseteq defensive_tries[x]
  <2>1. \A c \in placed_items[x] : Transposed(c) \in Mirror(placed_items[x]) /\ c \in Cell
                                   /\ Transposed(c) \in Cell /\ Transposed(Transposed(c)) = c
    BY <1>2, Transposing DEF Mirror
  <2>2. \A c \in Cell : Transposed(c) \in Mirror(defensive_tries[x]) =>
                          Transposed(Transposed(c)) \in defensive_tries[x]
    BY <1>2, Transposing
  <2>3. ASSUME Mirror(placed_items[x]) \subseteq Mirror(defensive_tries[x])
        PROVE  placed_items[x] \subseteq defensive_tries[x]
    BY <2>1, <2>2, <2>3
  <2>4. ASSUME placed_items[x] \subseteq defensive_tries[x]
        PROVE  Mirror(placed_items[x]) \subseteq Mirror(defensive_tries[x])
    BY <2>4 DEF Mirror
  <2> QED BY <2>3, <2>4
<1>5. placed_items[x] \subseteq defensive_tries[x] => defensive_tries[x] # {} BY <1>2
<1> QED BY <1>3, <1>4, <1>5 DEF Lost

(* A step of a badge that changes no board.                                *)
LEMMA SameGame ==
  ASSUME ~Over, ~Over', UNCHANGED gridVars,
         \A b \in Badges : /\ placed_items[b] = {} \/ my_random'[b] = my_random[b]
                           /\ state'[b] = "SENDING_SHOT" <=> state[b] = "SENDING_SHOT"
                           /\ state[b] = "SENDING_SHOT" => curr'[b] = curr[b]
                           /\ state'[b] = "BASKING" <=> state[b] = "BASKING"
  PROVE  UNCHANGED Game!vars
<1>1. Boards /\ Boards' BY BoardsAre
<1>2. \A b \in Badges : Awaited(b)' = Awaited(b) BY DEF Awaited
<1>3. \A b : Heard(b)' = Heard(b) BY DEF gridVars, Heard
<1>4. UNCHANGED <<gameShips, gameNumber, gameShots, gameMarked, gameTold, gameHits, gameWinners>>
  BY <1>1, <1>2, <1>3 DEF Boards, gridVars
<1>5. Over' = Over BY DEF Over
<1> QED BY <1>4, <1>5 DEF Game!vars

(* A badge that is past its first question has an opponent that is, too.   *)
LEMMA BothPlay ==
  ASSUME NEW x, NEW y, Players(x, y), GInv, ~Over, state[x] \notin Alone
  PROVE  /\ Playing(x) /\ Playing(y) /\ Solo(x) /\ Solo(y) /\ Pair(x, y) /\ Pair(y, x)
         /\ placed_items[x] # {} /\ placed_items[y] # {} /\ state[y] # "EXIT"
<1>1. /\ x \in Badges /\ y \in Badges /\ TypeInv /\ Unready(y, x)
      /\ Own(x) /\ Own(y) /\ Both(x, y) /\ Both(y, x)
  BY OfBoth, OfBothReady DEF Players
<1>2. state[y] # "EXIT" /\ (Left(y) => opens[y] = 0) BY <1>1 DEF Over, TypeInv
<1>3. Playing(x) /\ Playing(y) /\ state[x] # "WELCOME_SCREEN" /\ state[y] # "WELCOME_SCREEN"
  BY <1>1, <1>2 DEF Both, Unopened, Playing, Left, Unready, Alone
<1>4. Solo(x) /\ Solo(y) /\ Pair(x, y) /\ Pair(y, x) BY <1>1, <1>3 DEF Own, Both
<1> QED BY <1>2, <1>3, <1>4 DEF Solo

(* display_our_ships is the badge's joining the game.                      *)
LEMMA JoinStep ==
  ASSUME NEW x, NEW y, Players(x, y), GInv, ~Over, ~Over', display_our_ships(x)
  PROVE  Game!Join(x)
<1>1. /\ x \in Badges /\ y \in Badges /\ x # y /\ Badges = {x, y} /\ {} \notin Placements
      /\ TypeInv /\ Own(x) /\ Unready(x, y)
  BY OfBoth, OfBothReady DEF Players
<1>2. Boards /\ Boards' BY BoardsAre
<1>3. PICK p \in Placements : placed_items' = [placed_items EXCEPT ![x] = p]
  BY DEF display_our_ships
<1>4. /\ state[x] = "WELCOME_SCREEN" /\ state' = [state EXCEPT ![x] = "INITIAL_DISPLAY"]
      /\ UNCHANGED <<my_random, curr, offensive_tries, offensive_hits, defensive_tries>>
  BY DEF display_our_ships, Goto
<1>5. placed_items[x] = {} /\ my_random[x] \in Randoms[x]
  BY <1>1, <1>4 DEF Unready, Own, Playing, Left, Solo
<1>6. placed_items'[x] = p /\ placed_items'[y] = placed_items[y] /\ p # {}
  BY <1>1, <1>3 DEF TypeInv
<1>7. gameShips[x] = {} BY <1>1, <1>2, <1>5, Transposing DEF Boards
<1>8. gameShips' = [gameShips EXCEPT ![x] = Mirror(p)] BY <1>1, <1>2, <1>6 DEF Boards
<1>9. gameNumber' = [gameNumber EXCEPT ![x] = my_random[x]] BY <1>1, <1>2, <1>4, <1>6 DEF Boards
<1>10. UNCHANGED <<gameShots, gameMarked, gameTold, gameHits, gameWinners>>
  <2>1. \A b : Heard(b)' = Heard(b) BY <1>4 DEF Heard
  <2>2. \A b \in Badges : /\ state'[b] = "SENDING_SHOT" <=> state[b] = "SENDING_SHOT"
                          /\ state'[b] = "BASKING" <=> state[b] = "BASKING"
    BY <1>1, <1>4 DEF TypeInv
  <2>3. \A b \in Badges : Awaited(b)' = Awaited(b) BY <1>4, <2>2 DEF Awaited
  <2> QED BY <1>2, <1>4, <2>1, <2>2, <2>3 DEF Boards
<1>11. Over' = Over BY DEF Over
<1> QED BY <1>5, <1>7, <1>8, <1>9, <1>10, <1>11 DEF Game!Join

(* TakeShot is the badge's shot.                                           *)
LEMMA ShootStep ==
  ASSUME NEW x, NEW y, Players(x, y), GInv, ~Over, ~Over', TakeShot(x)
  PROVE  Game!Shoot(x, y)
<1>1. /\ x \in Badges /\ y \in Badges /\ x # y /\ Badges = {x, y}
      /\ Randoms[x] \cap Randoms[y] = {} /\ TypeInv /\ IInv
  BY OfBoth DEF Players, GInv
<1>2. Boards /\ Boards' BY BoardsAre
<1>3. /\ state[x] = "TAKE_SHOT" /\ state' = [state EXCEPT ![x] = "SENDING_SHOT"]
      /\ offensive_tries' = [offensive_tries EXCEPT ![x] = @ \cup {curr[x]}]
      /\ UNCHANGED <<my_random, curr, placed_items, offensive_hits, defensive_tries>>
  BY DEF TakeShot, Goto
<1>4. /\ Playing(x) /\ Playing(y) /\ Solo(x) /\ Solo(y) /\ Pair(x, y) /\ Pair(y, x)
      /\ placed_items[x] # {} /\ placed_items[y] # {}
  BY <1>3, BothPlay DEF Alone
<1>5. state[x] \in Attacking BY <1>3 DEF Attacking
<1>6. /\ state[y] \notin Attacking \cup {"DEAD"} /\ ~Lost(y)
      /\ offensive_tries[x] = Heard(y) /\ offensive_tries[y] = Heard(x)
  BY <1>1, <1>4, <1>5, OneHasTheTurn
<1>7. ~Lost(x) BY <1>3, <1>4 DEF Solo
<1>8. /\ curr[x] \notin offensive_tries[x] /\ curr[x] \in Cell
  BY <1>1, <1>3, <1>4 DEF Pair, Duel, TypeInv
<1>9. gameShips[x] # {} /\ gameShips[y] # {} BY <1>1, <1>2, <1>4 DEF Boards, Mirror
<1>10. ~Game!Sunk(x, y) /\ ~Game!Sunk(y, x)
  BY <1>1, <1>2, <1>4, <1>6, <1>7, SunkIsLost DEF Players
<1>11. gameMarked[x] = gameShots[x] /\ gameMarked[y] = gameShots[y] /\ gameTold[x] = gameShots[x]
  BY <1>1, <1>2, <1>3, <1>6, OpponentIs DEF Boards, Awaited
<1>12. Game!HasTheTurn(x, y)
  <2>1. /\ gameNumber[x] = my_random[x] /\ gameNumber[y] = my_random[y]
        /\ gameShots[x] = offensive_tries[x] /\ gameShots[y] = offensive_tries[y]
    BY <1>1, <1>2, <1>4 DEF Boards
  <2>2. /\ my_random[x] \in Nat /\ my_random[y] \in Nat /\ my_random[x] # my_random[y]
    BY <1>1, <1>4 DEF TypeInv, Solo
  <2>3. IF my_random[x] > my_random[y] THEN Ahead(x, y) = 0 ELSE Ahead(y, x) = 1
    BY <1>4, <1>5, <2>2 DEF Pair, Turn
  <2>4. \A S : Game!Cardinality(S) = Cardinality(S) BY DEF Game!Cardinality, Cardinality
  <2> QED BY <2>1, <2>3, <2>4 DEF Game!HasTheTurn, Game!Ahead, Ahead
<1>13. gameShots' = [gameShots EXCEPT ![x] = @ \cup {curr[x]}]
  BY <1>1, <1>2, <1>3 DEF Boards, TypeInv
<1>14. curr[x] \in Cell \ gameShots[x] BY <1>1, <1>2, <1>8 DEF Boards
<1>15. UNCHANGED <<gameShips, gameNumber, gameMarked, gameTold, gameHits, gameWinners>>
  <2>1. \A b : Heard(b)' = Heard(b) BY <1>3 DEF Heard
  <2>2. \A b \in Badges : state'[b] = "BASKING" <=> state[b] = "BASKING" BY <1>1, <1>3 DEF TypeInv
  <2>3. state'[x] = "SENDING_SHOT" /\ state'[y] = state[y] BY <1>1, <1>3 DEF TypeInv
  <2>4. Awaited(x) = {} /\ Awaited(x)' = {curr[x]} /\ Awaited(y)' = Awaited(y)
    BY <1>3, <2>3 DEF Awaited
  <2>5. /\ offensive_tries'[x] = offensive_tries[x] \cup {curr[x]}
        /\ offensive_tries'[y] = offensive_tries[y]
    BY <1>1, <1>3 DEF TypeInv
  <2>6. \A b \in Badges : offensive_tries'[b] \ Awaited(b)' = offensive_tries[b] \ Awaited(b)
    BY <1>1, <1>8, <2>4, <2>5
  <2> QED BY <1>2, <1>3, <2>1, <2>2, <2>6 DEF Boards
<1>16. Over' = Over BY DEF Over
<1> QED BY <1>9, <1>10, <1>11, <1>12, <1>13, <1>14, <1>15, <1>16 DEF Game!Shoot

(* received_shot marks the shot that was under way, on a board that is not *)
(* yet lost.                                                               *)
LEMMA MarkStep ==
  ASSUME NEW x, NEW y, Players(x, y), GInv, ~Over, ~Over', Consume(x),
         Head(inbox[x]).cmd = "SHOT_TAKEN",
         state[x] \in {"DISPLAY_DEFENSE", "WAITING", "SHOW_OFF_GRID"},
         received_shot(x, Head(inbox[x]).cell)
  PROVE  Game!Mark(y, x)
<1> DEFINE p == Head(inbox[x])  c == Transposed(p.cell)
<1>1. x \in Badges /\ y \in Badges /\ x # y /\ Badges = {x, y} /\ TypeInv /\ IInv
  BY OfBoth DEF Players, GInv
<1>2. Boards /\ Boards' BY BoardsAre
<1>3. /\ Playing(x) /\ Playing(y) /\ Solo(x) /\ Solo(y) /\ Pair(x, y) /\ Pair(y, x)
      /\ placed_items[x] # {} /\ state[y] # "EXIT"
  BY BothPlay DEF Alone
<1>4. Fits(x, y, p) /\ p \in Packet BY <1>1, <1>3, Consumed DEF Pair, Mail
<1>5. p.cell \in Cell /\ c \in Cell /\ Transposed(c) = p.cell BY <1>4, Transposing DEF Packet
<1>6. p.cell \in offensive_tries[y] /\ c \notin defensive_tries[x]
  BY <1>4 DEF Fits, IsShot, Fresh, Defending
<1>7. p.cell \notin Heard(x) BY <1>1, <1>5, <1>6, Transposing DEF TypeInv, Heard
<1>8. offensive_tries[y] = Heard(x) \cup {p.cell} BY <1>3, <1>6, <1>7 DEF Pair, Tries
<1>9. /\ UNCHANGED <<my_random, placed_items, offensive_tries, offensive_hits>>
      /\ defensive_tries'[x] = defensive_tries[x] \cup {c}
      /\ defensive_tries'[y] = defensive_tries[y] /\ curr'[y] = curr[y]
      /\ state'[x] \in {"SEND_HIT", "SEND_MISS", "DEAD"} /\ state'[y] = state[y]
  BY <1>1 DEF received_shot, Goto, Verdict, TypeInv
<1>10. Heard(x)' = offensive_tries[y] /\ Heard(y)' = Heard(y)
  <2>1. defensive_tries[x] \in SUBSET Cell BY <1>1 DEF TypeInv
  <2>2. Mirror(defensive_tries[x] \cup {c}) = Heard(x) \cup {p.cell}
    BY <1>5, <2>1, MirrorAdds DEF Heard
  <2> HIDE DEF p, c
  <2>3. Heard(x)' = Mirror(defensive_tries[x] \cup {c}) BY <1>9 DEF Heard
  <2> QED BY <1>8, <1>9, <2>2, <2>3 DEF Heard
<1> HIDE DEF p, c
<1>11. gameMarked[y] # gameShots[y] BY <1>1, <1>2, <1>7, <1>8, OpponentIs DEF Boards
<1>12. ~Game!Sunk(x, y)
  <2>1. ~Lost(x) BY <1>3 DEF Solo
  <2> QED BY <1>1, <1>2, <1>3, <2>1, SunkIsLost
<1>13. gameTold[x] = gameShots[x] BY <1>1, <1>2 DEF Boards, Awaited
<1>14. gameMarked' = [gameMarked EXCEPT ![y] = gameShots[y]]
  BY <1>1, <1>2, <1>10, OpponentIs DEF Boards, Heard
<1>15. UNCHANGED <<gameShips, gameNumber, gameShots, gameTold, gameHits, gameWinners>>
  <2>1. Awaited(x)' = Awaited(x) /\ Awaited(y)' = Awaited(y) BY <1>9 DEF Awaited
  <2>2. \A b \in Badges : state'[b] = "BASKING" <=> state[b] = "BASKING" BY <1>1, <1>9
  <2> QED BY <1>1, <1>2, <1>9, <2>1, <2>2 DEF Boards
<1>16. Over' = Over BY DEF Over
<1> QED BY <1>11, <1>12, <1>13, <1>14, <1>15, <1>16 DEF Game!Mark

(* An answer tells the shooter what became of its marked shot.             *)
LEMMA TellStep ==
  ASSUME NEW x, NEW y, Players(x, y), GInv, GInv', ~Over, ~Over', Consume(x),
         state[x] = "SENDING_SHOT",
         NEW p, p = Head(inbox[x]),
         NEW s, \/ p.cmd = "IM_HIT" /\ s = "DISPLAY_HIT"
                \/ p.cmd = "YOU_MISSED" /\ s = "DISPLAY_MISS"
                \/ p.cmd = "IM_DEAD" /\ s = "BASKING",
         state' = [state EXCEPT ![x] = s],
         \E hits : offensive_hits' = [offensive_hits EXCEPT ![x] = hits],
         p.cmd = "IM_DEAD" => offensive_hits' = offensive_hits,
         UNCHANGED <<my_random, curr, placed_items, offensive_tries, defensive_tries>>
  PROVE  Game!Tell(x, y)
<1>1. x \in Badges /\ y \in Badges /\ x # y /\ Badges = {x, y} /\ TypeInv /\ IInv
  BY OfBoth DEF Players, GInv
<1>2. Boards /\ Boards' BY BoardsAre
<1>3. /\ Playing(x) /\ Playing(y) /\ Solo(x) /\ Pair(x, y) /\ Pair(y, x) /\ placed_items[y] # {}
  BY BothPlay DEF Alone
<1>4. Fits(x, y, p) /\ IsResult(p) BY <1>1, <1>3, Consumed DEF Pair, Mail, IsResult
<1>5. curr[x] \in Heard(y) /\ (p.cmd = "IM_DEAD" <=> Lost(y)) BY <1>4 DEF Fits
<1>6. offensive_tries[x] = Heard(y) /\ curr[x] \in offensive_tries[x]
  BY <1>3, <1>5 DEF Pair, Tries
<1>7. state'[x] = s /\ state'[y] = state[y] /\ s # "SENDING_SHOT" BY <1>1 DEF TypeInv
<1>8. Awaited(x) = {curr[x]} /\ Awaited(x)' = {} /\ Awaited(y)' = Awaited(y)
  BY <1>7 DEF Awaited
<1>9. gameTold[x] # gameShots[x] /\ gameMarked[x] = gameShots[x]
  BY <1>1, <1>2, <1>6, <1>8, OpponentIs DEF Boards
<1>10. gameTold' = [gameTold EXCEPT ![x] = gameShots[x]] BY <1>1, <1>2, <1>8 DEF Boards
<1>11. Game!Sunk(y, x) <=> Lost(y)
  <2>1. Players(y, x) BY DEF Players
  <2> QED BY <1>1, <1>2, <1>3, <2>1, SunkIsLost
<1>12. \A b : Heard(b)' = Heard(b) BY DEF Heard
<1>13. ASSUME p.cmd = "IM_DEAD"
       PROVE  Game!Sunk(y, x) /\ gameWinners' = gameWinners \cup {x} /\ UNCHANGED gameHits
  <2>1. gameWinners' = gameWinners \cup {x} BY <1>1, <1>2, <1>7, <1>13 DEF Boards
  <2>2. gameHits' = gameHits BY <1>2, <1>13 DEF Boards
  <2> QED BY <1>5, <1>11, <1>13, <2>1, <2>2
<1>14. ASSUME p.cmd # "IM_DEAD"
       PROVE  /\ ~Game!Sunk(y, x) /\ UNCHANGED gameWinners
              /\ gameHits' = [gameHits EXCEPT ![x] = gameShots[x] \cap gameShips[y]]
  <2>1. s \in {"DISPLAY_HIT", "DISPLAY_MISS"} BY <1>14
  <2>2. gameWinners' = gameWinners BY <1>1, <1>2, <1>7, <2>1 DEF Boards
  <2>3. Tries(x, y)'
    <3>1. Both(x, y)' BY OfBoth DEF GInv
    <3>2. Playing(x)' /\ Playing(y)' BY <1>3, <1>7, <2>1 DEF Playing, Left
    <3> QED BY <3>1, <3>2 DEF Both, Pair
  <2>4. offensive_hits'[x] = offensive_tries[x] \cap Mirror(placed_items[y])
    BY <1>6, <1>7, <1>12, <2>1, <2>3 DEF Tries
  <2>5. offensive_hits' = [offensive_hits EXCEPT ![x] = offensive_tries[x] \cap Mirror(placed_items[y])]
    BY <1>1, <2>4 DEF TypeInv
  <2>6. gameHits' = [gameHits EXCEPT ![x] = gameShots[x] \cap gameShips[y]]
    BY <1>1, <1>2, <2>5 DEF Boards, TypeInv
  <2> QED BY <1>5, <1>11, <1>14, <2>2, <2>6
<1>15. UNCHANGED <<gameShips, gameNumber, gameShots, gameMarked>> BY <1>2, <1>12 DEF Boards
<1>16. Over' = Over BY DEF Over
<1> QED BY <1>9, <1>10, <1>13, <1>14, <1>15, <1>16 DEF Game!Tell

(* The button that leads to EXIT ends the game.                            *)
LEMMA LeaveStep ==
  ASSUME NEW x, NEW y, Players(x, y), GInv, ~Over, Over', Step(x)
  PROVE  Game!Leave(x)
<1>1. x \in Badges /\ y \in Badges /\ x # y /\ Badges = {x, y} /\ TypeInv /\ IInv /\ Own(x)
  BY OfBoth DEF Players, GInv
<1>2. state'[x] = "EXIT" \/ (state'[x] = "START" /\ opens'[x] > 0)
  BY <1>1, StepIsOwn DEF Over, Left
<1>3. state[x] # "EXIT" /\ ~(state[x] = "START" /\ opens[x] > 0) BY <1>1 DEF Over, Left
<1> USE <1>1 DEF TypeInv, Goto
<1>4. Button(x)
  <2>1. ~Open(x) BY <1>2 DEF Open
  <2>2. ~display_our_ships(x) BY <1>2 DEF display_our_ships
  <2>3. ~set_up_to_take_shot(x) BY <1>2 DEF set_up_to_take_shot
  <2>4. ~fw_move_crosshair(x) BY <1>2 DEF fw_move_crosshair
  <2>5. ~TakeShot(x) BY <1>2 DEF TakeShot
  <2>6. ~Exit(x) BY <1>3 DEF Exit
  <2>7. ~Send(x) BY <1>2, <1>3 DEF Send
  <2>8. ~firewall_ir_cb(x)
    <3>1. SUFFICES ASSUME firewall_ir_cb(x) PROVE FALSE OBVIOUS
    <3>2. inbox[x] \in Seq(Packet) /\ inbox[x] # <<>> /\ opens' = opens BY <3>1 DEF firewall_ir_cb
    <3>3. Head(inbox[x]) \in Packet BY <3>2
    <3>4. ~(state[x] \in Heeded[Head(inbox[x]).cmd] /\ Handle(x, Head(inbox[x])))
      BY <1>2, <3>3, HandledIs DEF Alone
    <3> QED BY <1>2, <1>3, <3>1, <3>2, <3>4 DEF firewall_ir_cb
  <2> QED BY <2>1, <2>2, <2>3, <2>4, <2>5, <2>6, <2>7, <2>8 DEF Step, User
<1>5. state[x] \notin {"START", "WELCOME_SCREEN"} BY <1>4 DEF Button, ButtonNext
<1>6. placed_items[x] # {} BY <1>5 DEF Own, Playing, Left, Solo
<1>7. gameShips[x] # {}
  <2>1. gameShips[x] = Mirror(placed_items[x]) BY BoardsAre DEF Boards
  <2> QED BY <1>6, <2>1 DEF Mirror
<1> QED BY <1>7, WipedBoards DEF Game!Leave

(* A packet that is heeded marks a shot, tells a result, or is part of the *)
(* handshake, which changes no board.                                      *)
LEMMA PacketStep ==
  ASSUME NEW x, NEW y, Players(x, y), GInv, GInv', ~Over, ~Over', firewall_ir_cb(x)
  PROVE  Game!Mark(y, x) \/ Game!Tell(x, y) \/ UNCHANGED Game!vars
<1> DEFINE p == Head(inbox[x])
<1>1. /\ x \in Badges /\ y \in Badges /\ x # y /\ Badges = {x, y} /\ TypeInv /\ IInv
      /\ Randoms[x] \cap Randoms[y] = {} /\ Consume(x)
  BY OfBoth DEF Players, GInv, firewall_ir_cb, Consume
<1>2. state'[y] = state[y] /\ curr'[y] = curr[y] /\ my_random'[y] = my_random[y]
  BY <1>1, StepIsOwn DEF Step
<1>3. p \in Packet BY <1>1, Consumed
<1>4. CASE UNCHANGED <<state, my_random, curr, gridVars>> BY <1>4, SameGame
<1>5. CASE state[x] \in Heeded[p.cmd] /\ Handle(x, p)
  <2>1. p.cmd \in {"SHALL_WE_PLAY", "LOVE_TO", "WHO_STARTS", "LETS_START", "SHOT_TAKEN",
                   "IM_HIT", "YOU_MISSED", "IM_DEAD"}
    BY <1>3 DEF Packet, Heeded, HeededIn
  <2> HIDE DEF p
  <2>2. CASE p.cmd = "SHOT_TAKEN"
    <3>1. received_shot(x, p.cell) BY <1>5, <2>2 DEF Handle
    <3>2. state[x] \in {"DISPLAY_DEFENSE", "WAITING", "SHOW_OFF_GRID"}
      BY <1>5, <2>2 DEF Heeded, HeededIn
    <3> QED BY <1>1, <2>2, <3>1, <3>2, MarkStep DEF p
  <2>3. CASE p.cmd \in {"IM_HIT", "YOU_MISSED", "IM_DEAD"}
    <3>1. state[x] = "SENDING_SHOT" BY <1>5, <2>3 DEF Heeded, HeededIn
    <3>2. PICK s : /\ \/ p.cmd = "IM_HIT" /\ s = "DISPLAY_HIT"
                      \/ p.cmd = "YOU_MISSED" /\ s = "DISPLAY_MISS"
                      \/ p.cmd = "IM_DEAD" /\ s = "BASKING"
                   /\ state' = [state EXCEPT ![x] = s]
      BY <1>5, <2>3 DEF Handle, received_confirmation, received_victory, Goto
    <3>3. UNCHANGED <<my_random, curr, placed_items, offensive_tries, defensive_tries>>
      BY <1>5, <2>3 DEF Handle, received_confirmation, received_victory, gridVars
    <3>4. \E hits : offensive_hits' = [offensive_hits EXCEPT ![x] = hits]
      <4>1. CASE p.cmd = "IM_HIT" BY <1>5, <4>1 DEF Handle, received_confirmation
      <4>2. CASE p.cmd # "IM_HIT"
        <5>1. offensive_hits' = offensive_hits
          BY <1>1, <1>5, <2>3, <4>2 DEF Handle, received_confirmation, received_victory, gridVars, TypeInv
        <5>2. offensive_hits = [offensive_hits EXCEPT ![x] = offensive_hits[x]] BY <1>1 DEF TypeInv
        <5> QED BY <5>1, <5>2
      <4> QED BY <4>1, <4>2
    <3>5. p.cmd = "IM_DEAD" => offensive_hits' = offensive_hits
      BY <1>5 DEF Handle, received_victory, gridVars
    <3>6. Game!Tell(x, y) BY <1>1, <3>1, <3>2, <3>3, <3>4, <3>5, TellStep DEF p
    <3> QED BY <3>6
  <2>4. CASE p.cmd \in {"SHALL_WE_PLAY", "LOVE_TO", "WHO_STARTS", "LETS_START"}
    <3>1. UNCHANGED <<curr, gridVars>>
      BY <1>5, <2>4 DEF Handle, received_peering, received_who_first, received_lets_start
    <3>2. /\ state[x] \in {"WAITING_FOR_CONNECT", "WAITING_FOR_OTHER_PLAYER", "WHO_GOES_FIRST"}
          /\ p.cmd = "WHO_STARTS" => state[x] # "WAITING_FOR_CONNECT"
      BY <1>5, <2>4 DEF Heeded, HeededIn
    <3>3. \E s \in {"WAITING_FOR_OTHER_PLAYER", "WHO_GOES_FIRST", "DISPLAY_OFFENSE", "DISPLAY_DEFENSE"} :
            state' = [state EXCEPT ![x] = s]
      BY <1>5, <2>4 DEF Handle, received_peering, received_who_first, received_lets_start, Roles, Goto
    <3>4. state'[x] \in {"WAITING_FOR_OTHER_PLAYER", "WHO_GOES_FIRST", "DISPLAY_OFFENSE", "DISPLAY_DEFENSE"}
      BY <1>1, <3>3 DEF TypeInv
    <3>5. my_random' = my_random
      <4>1. CASE p.cmd = "WHO_STARTS"
        <5>1. /\ Solo(x) /\ Solo(y) /\ Pair(x, y) BY <3>2, <4>1, BothPlay DEF Alone
        <5>2. Fits(x, y, p) BY <1>1, <5>1, Consumed DEF Pair, Mail, p
        <5>3. p.num # my_random[x] BY <1>1, <4>1, <5>1, <5>2 DEF Fits, Solo
        <5> QED BY <1>5, <4>1, <5>3 DEF Handle, received_who_first
      <4>2. CASE p.cmd # "WHO_STARTS"
        BY <1>5, <2>4, <4>2 DEF Handle, received_peering, received_lets_start
      <4> QED BY <4>1, <4>2
    <3> QED BY <1>1, <1>2, <3>1, <3>2, <3>4, <3>5, SameGame
  <2> QED BY <2>1, <2>2, <2>3, <2>4
<1> QED BY <1>4, <1>5 DEF firewall_ir_cb

(* The user's steps: to open the game, to press on or to aim changes no    *)
(* board.                                                                  *)
LEMMA UserStep ==
  ASSUME NEW x, NEW y, Players(x, y), GInv, ~Over, ~Over', User(x) \/ Send(x)
  PROVE  Game!Join(x) \/ Game!Shoot(x, y) \/ UNCHANGED Game!vars
<1>1. /\ x \in Badges /\ y \in Badges /\ x # y /\ Badges = {x, y} /\ TypeInv /\ IInv /\ Own(x)
  BY OfBoth DEF Players, GInv
<1>2. /\ state'[y] = state[y] /\ curr'[y] = curr[y] /\ my_random'[y] = my_random[y]
      /\ opens'[y] = opens[y]
  BY <1>1, StepIsOwn DEF Step
<1>3. CASE Open(x)
  <2>1. state[x] = "START" /\ state'[x] = "WELCOME_SCREEN" /\ UNCHANGED gridVars /\ placed_items[x] = {}
    BY <1>1, <1>3 DEF Open, Goto, TypeInv, Own, Idle, Left
  <2> QED BY <1>1, <1>2, <2>1, SameGame
<1>4. CASE display_our_ships(x) BY <1>4, JoinStep
<1>5. CASE Button(x)
  <2>1. /\ state[x] \in DOMAIN ButtonNext /\ UNCHANGED <<my_random, curr, gridVars>>
        /\ state'[x] = ButtonNext[state[x]]
    BY <1>1, <1>5 DEF Button, Goto, TypeInv
  <2>2. state'[x] # "EXIT" BY <1>1 DEF Over
  <2>3. \A s \in DOMAIN ButtonNext : /\ ButtonNext[s] \notin {"SENDING_SHOT", "BASKING"} /\ s # "BASKING"
                                     /\ s = "SENDING_SHOT" => ButtonNext[s] = "EXIT"
    BY DEF ButtonNext
  <2>4. state[x] \notin {"SENDING_SHOT", "BASKING"} /\ state'[x] \notin {"SENDING_SHOT", "BASKING"}
    BY <2>1, <2>2, <2>3
  <2> QED BY <1>1, <1>2, <2>1, <2>4, SameGame
<1>6. CASE set_up_to_take_shot(x) \/ fw_move_crosshair(x)
  <2>1. UNCHANGED <<my_random, gridVars>> BY <1>6 DEF set_up_to_take_shot, fw_move_crosshair
  <2>2. state[x] \notin {"SENDING_SHOT", "BASKING"} /\ state'[x] \notin {"SENDING_SHOT", "BASKING"}
    BY <1>1, <1>6 DEF set_up_to_take_shot, fw_move_crosshair, Goto, TypeInv
  <2> QED BY <1>1, <1>2, <2>1, <2>2, SameGame
<1>7. CASE TakeShot(x) BY <1>7, ShootStep
<1>8. CASE Send(x) BY <1>8, SameGame DEF Send
<1> QED BY <1>3, <1>4, <1>5, <1>6, <1>7, <1>8 DEF User

(* Every step of Firewall is one of Battleships or changes no board.       *)
LEMMA NextIsPlayed ==
  ASSUME TwoPlayers, GInv, GInv', [Next]_vars
  PROVE  [Game!Next]_(Game!vars)
<1>1. CASE UNCHANGED vars
  <2>1. UNCHANGED <<state, my_random, curr, placed_items, offensive_tries, offensive_hits,
                    defensive_tries, inbox, opens>>
    BY <1>1 DEF vars, gridVars
  <2>2. Over' = Over BY <2>1 DEF Over, Left
  <2>3. \A b : Awaited(b)' = Awaited(b) BY <2>1 DEF Awaited
  <2>4. UNCHANGED <<gameShips, gameNumber, gameShots, gameMarked, gameTold, gameHits, gameWinners>>
    BY <2>1, <2>2, <2>3 DEF gameShips, gameNumber, gameShots, gameMarked, gameTold, gameHits, gameWinners
  <2> QED BY <2>2, <2>4 DEF Game!vars
<1>2. CASE Next
  <2>1. PICK x \in Badges : Step(x) BY <1>2 DEF Next, Step
  <2>2. PICK y : Players(x, y) BY DEF TwoPlayers, Players
  <2>3. IInv /\ y \in Badges /\ x # y BY <2>2 DEF GInv, Players
  <2>4. CASE Over
    <3>1. Over' BY <2>1, <2>2, <2>3, <2>4, OverForGood
    <3>2. Over' = Over BY <2>4, <3>1 DEF Over
    <3>3. Game!Clear /\ Game!Clear' BY <2>4, <3>1, WipedBoards
    <3> QED BY <3>2, <3>3 DEF Game!Clear, Game!Wiped, Game!vars
  <2>5. CASE ~Over /\ Over' 
    <3>1. Game!Leave(x) BY <2>1, <2>2, <2>5, LeaveStep
    <3> QED BY <3>1 DEF Game!Next
  <2>6. CASE ~Over /\ ~Over'
    <3>1. ~Exit(x) BY <2>6 DEF Exit, Over
    <3>2. \/ Game!Join(x) \/ Game!Shoot(x, y) \/ Game!Mark(y, x) \/ Game!Tell(x, y)
          \/ UNCHANGED Game!vars
      BY <2>1, <2>2, <2>6, <3>1, UserStep, PacketStep DEF Step
    <3> QED BY <2>3, <3>2 DEF Game!Next
  <2> QED BY <2>4, <2>5, <2>6
<1> QED BY <1>1, <1>2

(* At first nobody has joined.                                             *)
LEMMA InitIsPlayed ==
  ASSUME TwoPlayers, Init
  PROVE  Game!Init
<1>1. ~Over BY DEF Init, Over, Left
<1>2. Boards BY <1>1, BoardsAre
<1>3. \A b \in Badges : Opponent(b) \in Badges
  <2>1. PICK x, y : Players(x, y) BY DEF TwoPlayers, Players
  <2> QED BY <2>1, OpponentIs DEF Players
<1>4. Mirror({}) = {} BY Transposing
<1> QED BY <1>1, <1>2, <1>3, <1>4 DEF Init, Boards, Heard, Awaited, Game!Init, Game!Clear, Game!Wiped

\* The invariant with the asking.
LEMMA ReadyInvariant == ASSUME TwoPlayers PROVE Spec => []GInv
<1>1. ASSUME Init PROVE GInv
  <2>1. IInv BY <1>1, InitInv
  <2> QED BY <1>1, <2>1 DEF GInv, Unready, Init
<1>2. Init => GInv BY <1>1
<1>3. GInv /\ [Next]_vars => GInv' BY NextReady
<1> QED BY <1>2, <1>3, PTL DEF Spec

\* Whatever of their packets is lost, repeated or late, the two badges play
\* Battleships (GameIsPlayed: the whole of firewall_ng_cb and firewall_ir_cb).
THEOREM GameImplemented == ASSUME TwoPlayers PROVE Spec => GameIsPlayed
<1>1. Init => Game!Init BY InitIsPlayed
<1>2. GInv /\ GInv' /\ [Next]_vars => [Game!Next]_(Game!vars) BY NextIsPlayed
<1> QED BY <1>1, <1>2, ReadyInvariant, PTL DEF Spec, GameIsPlayed, Game!Spec

-----------------------------------------------------------------------------
(* The stall.                                                              *)

(* The badge that waits heeds nothing else; its opponent has the turn, has  *)
(* shot and waits for a result as well, or waits for a shot.               *)
LEMMA StalledIs ==
  ASSUME NEW a, NEW b, Players(a, b), IInv, Stalled(a, b)
  PROVE  /\ state[b] \in {"WAITING", "TAKE_SHOT", "SENDING_SHOT", "EXIT"}
         /\ ResultLost(a, b) => state[b] # "WAITING"
         /\ state[b] = "WAITING" => \A i \in DOMAIN inbox[b] : ~IsShot(inbox[b][i])
         /\ state[b] = "SENDING_SHOT" => \A i \in DOMAIN inbox[b] : ~IsResult(inbox[b][i])
<1>1. /\ a \in Badges /\ b \in Badges /\ a # b /\ TypeInv /\ Own(a) /\ Own(b)
      /\ Both(a, b) /\ Both(b, a)
  BY OfBoth DEF Players
<1>2. Playing(a) /\ Playing(b)
  BY <1>1 DEF Stalled, ResultLost, RolesLost, Own, Idle, Playing, Left
<1>3. /\ Solo(a) /\ Solo(b) /\ Tries(b, a) /\ Duel(a, b) /\ Duel(b, a) /\ Mail(b, a)
  BY <1>1, <1>2 DEF Own, Both, Pair
<1>4. CASE ResultLost(a, b)
  <2>1. curr[a] \in Heard(b) BY <1>1, <1>4, Transposing DEF ResultLost, TypeInv, Heard
  <2>2. \/ state[b] \in Attacking \cup {"DEAD", "EXIT"}
        \/ state[b] = "SENDING_SHOT" /\ Flying(b, a)
    BY <1>3, <1>4, <2>1 DEF Duel, ResultLost
  <2>3. state[b] \in {"TAKE_SHOT", "SENDING_SHOT", "EXIT"}
    BY <1>3, <1>4, <2>2 DEF ResultLost, Solo, Attacking
  <2>4. ASSUME state[b] = "SENDING_SHOT", NEW i \in DOMAIN inbox[b], IsResult(inbox[b][i])
        PROVE  FALSE
    <3>1. curr[b] \in Heard(a) BY <1>3, <2>4 DEF Mail, Fits
    <3>2. offensive_tries[b] = Heard(a) BY <1>3, <2>4, <3>1 DEF Tries
    <3>3. Flying(b, a) BY <2>2, <2>4 DEF Attacking
    <3> QED BY <3>2, <3>3 DEF Flying
  <2> QED BY <2>3, <2>4
<1>5. CASE RolesLost(a, b)
  <2>1. offensive_tries[a] = {} /\ Heard(a) = {}
    BY <1>3, <1>5, Transposing DEF RolesLost, Solo, Handshake, Heard
  <2>2. \A i \in DOMAIN inbox[b] : ~IsShot(inbox[b][i]) BY <1>3, <2>1 DEF Mail, Fits
  <2>3. state[b] = "SENDING_SHOT" => \A i \in DOMAIN inbox[b] : ~IsResult(inbox[b][i])
    BY <1>3, <2>1 DEF Mail, Fits
  <2> QED BY <1>5, <2>2, <2>3 DEF RolesLost, ResultLost
<1> QED BY <1>4, <1>5 DEF Stalled

(* It repeats its message, or its user gives up.                           *)
LEMMA ShooterStalls ==
  ASSUME NEW a, NEW b, Players(a, b), IInv, Stalled(a, b), Step(a)
  PROVE  Stalled(a, b)' \/ state'[a] = "EXIT"
<1>1. a \in Badges /\ b \in Badges /\ a # b /\ TypeInv BY OfBoth DEF Players
<1>2. /\ state'[b] = state[b] /\ defensive_tries'[b] = defensive_tries[b]
      /\ state[a] \in {"SENDING_SHOT", "WHO_GOES_FIRST"}
  BY StepIsOwn DEF Stalled, ResultLost, RolesLost
<1>3. CASE User(a)
  <2>1. Button(a)
    BY <1>2, <1>3 DEF User, Open, display_our_ships, set_up_to_take_shot, fw_move_crosshair, TakeShot
  <2>2. ButtonNext["SENDING_SHOT"] = "EXIT" /\ ButtonNext["WHO_GOES_FIRST"] = "EXIT" BY DEF ButtonNext
  <2> QED BY <1>1, <1>2, <2>1, <2>2 DEF Button, Goto, TypeInv
<1>4. CASE Send(a)
  <2>1. inbox'[a] = inbox[a] BY <1>1, <1>4 DEF Send
  <2> QED BY <1>4, <2>1 DEF Send, gridVars, Stalled, ResultLost, RolesLost
<1>5. CASE firewall_ir_cb(a)
  <2>1. Consume(a) BY <1>5 DEF firewall_ir_cb, Consume
  <2>2. /\ 1 \in DOMAIN inbox[a] /\ Head(inbox[a]) = inbox[a][1] /\ Head(inbox[a]) \in Packet
        /\ \A i \in DOMAIN inbox'[a] : i + 1 \in DOMAIN inbox[a] /\ inbox'[a][i] = inbox[a][i + 1]
    BY <2>1, Consumed
  <2>3. /\ ResultLost(a, b) => Head(inbox[a]).cmd \notin {"IM_HIT", "YOU_MISSED", "IM_DEAD"}
        /\ RolesLost(a, b) => Head(inbox[a]).cmd \notin {"WHO_STARTS", "LETS_START"}
    BY <2>2 DEF ResultLost, RolesLost
  <2>4. state[a] \notin Heeded[Head(inbox[a]).cmd]
    BY <2>2, <2>3 DEF Packet, Heeded, HeededIn, Stalled, ResultLost, RolesLost
  <2>5. UNCHANGED <<state, curr, defensive_tries>> BY <1>5, <2>4 DEF firewall_ir_cb, gridVars
  <2> QED BY <2>2, <2>5 DEF Stalled, ResultLost, RolesLost
<1>6. ~Exit(a) BY <1>2 DEF Exit
<1> QED BY <1>3, <1>4, <1>5, <1>6 DEF Step

(* Its opponent aims and shoots, and does not say again what was lost.     *)
LEMMA OpponentStalls ==
  ASSUME NEW a, NEW b, Players(a, b), IInv, Stalled(a, b), Step(b)
  PROVE  Stalled(a, b)' \/ Left(b)'
<1>1. a \in Badges /\ b \in Badges /\ a # b /\ TypeInv /\ Players(b, a) BY OfBoth DEF Players
<1>2. /\ state'[a] = state[a] /\ curr'[a] = curr[a]
      /\ state[b] \in {"WAITING", "TAKE_SHOT", "SENDING_SHOT", "EXIT"}
      /\ ResultLost(a, b) => state[b] # "WAITING"
  BY <1>1, StepIsOwn, StalledIs
<1>3. CASE Exit(b) BY <1>1, <1>3 DEF Exit, Goto, Left, TypeInv
<1>4. CASE User(b)
  <2>1. Button(b) \/ fw_move_crosshair(b) \/ TakeShot(b)
    BY <1>2, <1>4 DEF User, Open, display_our_ships, set_up_to_take_shot
  <2>2. UNCHANGED <<defensive_tries, inbox>>
    BY <2>1 DEF Button, fw_move_crosshair, TakeShot, gridVars
  <2>3. state'[b] \in {"TAKE_SHOT", "SENDING_SHOT", "EXIT"}
    <3>1. CASE Button(b)
      <4>1. /\ state[b] \in DOMAIN ButtonNext /\ state'[b] = ButtonNext[state[b]]
        BY <1>1, <3>1 DEF Button, Goto, TypeInv
      <4> QED BY <1>2, <4>1 DEF ButtonNext
    <3>2. CASE fw_move_crosshair(b) BY <1>2, <3>2 DEF fw_move_crosshair
    <3>3. CASE TakeShot(b) BY <1>1, <3>3 DEF TakeShot, Goto, TypeInv
    <3> QED BY <2>1, <3>1, <3>2, <3>3
  <2> QED BY <1>2, <2>2, <2>3 DEF Stalled, ResultLost, RolesLost
<1>5. CASE Send(b)
  <2>1. PICK m \in Outgoing(b), heard \in SUBSET (Badges \ {b}) :
          inbox' = [c \in Badges |-> IF c \in heard /\ Len(inbox[c]) < InboxRoom
                                     THEN Append(inbox[c], m) ELSE inbox[c]]
    BY <1>5 DEF Send
  <2>2. m = Message("SHOT_TAKEN", 0, curr[b]) BY <1>2, OutgoingIs
  <2>3. m.cmd = "SHOT_TAKEN" BY <2>2 DEF Message
  <2>4. inbox[a] \in Seq(Packet) BY <1>1 DEF TypeInv
  <2>5. m \in Packet BY <1>1, SentFits
  <2>6. inbox'[a] = inbox[a] \/ inbox'[a] = Append(inbox[a], m) BY <1>1, <2>1
  <2>7. \A i \in DOMAIN inbox'[a] :
          \/ i \in DOMAIN inbox[a] /\ inbox'[a][i] = inbox[a][i]
          \/ inbox'[a][i] = m
    BY <2>4, <2>5, <2>6
  <2>8. UNCHANGED <<state, curr, defensive_tries>> BY <1>5 DEF Send, gridVars
  <2> QED BY <2>3, <2>7, <2>8 DEF Stalled, ResultLost, RolesLost
<1>6. CASE firewall_ir_cb(b)
  <2>1. Consume(b) BY <1>6 DEF firewall_ir_cb, Consume
  <2>2. /\ 1 \in DOMAIN inbox[b] /\ Head(inbox[b]) = inbox[b][1] /\ Head(inbox[b]) \in Packet
        /\ inbox'[a] = inbox[a]
    BY <1>1, <2>1, Consumed
  <2>3. /\ state[b] = "SENDING_SHOT" => ~IsResult(Head(inbox[b]))
        /\ state[b] = "WAITING" => ~IsShot(Head(inbox[b]))
    BY <2>2, StalledIs
  <2>4. state[b] \notin Heeded[Head(inbox[b]).cmd]
    BY <1>2, <2>2, <2>3 DEF Packet, Heeded, HeededIn, IsResult, IsShot
  <2>5. UNCHANGED <<state, curr, defensive_tries>> BY <1>6, <2>4 DEF firewall_ir_cb, gridVars
  <2> QED BY <2>2, <2>5 DEF Stalled, ResultLost, RolesLost
<1> QED BY <1>3, <1>4, <1>5, <1>6 DEF Step

\* Once the result of a shot is lost, or word of who starts, repeating messages
\* does not help: the badges are stuck until one of them leaves (StallLasts:
\* ST_SENDING_SHOT, ST_WHO_GOES_FIRST).
THEOREM StallIsForGood == ASSUME TwoPlayers PROVE Spec => StallLasts
<1>1. ASSUME IInv, [Next]_vars, NEW ab \in Opponents, Stalled(ab[1], ab[2])
      PROVE  Stalled(ab[1], ab[2])' \/ state'[ab[1]] = "EXIT" \/ Left(ab[2])'
  <2>1. Players(ab[1], ab[2])
    <3>1. PICK x, y \in Badges : Players(x, y) BY DEF TwoPlayers, Players
    <3>2. ab[1] \in Badges /\ ab[2] \in Badges /\ ab[1] # ab[2] BY DEF Opponents
    <3> QED BY <3>1, <3>2 DEF Players
  <2>2. CASE Next
    <3>1. PICK c \in Badges : Step(c) BY <2>2 DEF Next, Step
    <3>2. c = ab[1] \/ c = ab[2] BY <2>1 DEF Players
    <3> QED BY <1>1, <2>1, <3>1, <3>2, ShooterStalls, OpponentStalls
  <2>3. CASE UNCHANGED vars BY <1>1, <2>3 DEF vars, gridVars, Stalled, ResultLost, RolesLost
  <2> QED BY <1>1, <2>2, <2>3
<1>2. IInv /\ [Next]_vars =>
        [\A ab \in Opponents : Stalled(ab[1], ab[2]) =>
           Stalled(ab[1], ab[2])' \/ state'[ab[1]] = "EXIT" \/ Left(ab[2])']_vars
  BY <1>1
<1> QED BY <1>2, GameInvariant, PTL DEF Spec, StallLasts

-----------------------------------------------------------------------------
(* Where a result is lost.                                                 *)

NoResultUnderWay(a) == \A i \in DOMAIN inbox[a] : ~IsResult(inbox[a][i])

\* b has the result of a's shot to tell, and a has yet to hear it.
Unheard(a, b) ==
  /\ state[a] = "SENDING_SHOT" /\ Transposed(curr[a]) \in defensive_tries[b]
  /\ NoResultUnderWay(a)

\* What firewall_ng_cb leaves to the user: ST_SEND_HIT and ST_SEND_MISS repeat
\* the result until the button is pressed, and so does ST_DEAD.
Patient ==
  \A ab \in Opponents :
    Unheard(ab[1], ab[2]) /\ state[ab[2]] \in {"SEND_HIT", "SEND_MISS", "DEAD"} =>
      state'[ab[2]] = state[ab[2]]

(* The shooter leaves its screen when it hears a result, and shoots where  *)
(* it did not shoot before.                                                *)
LEMMA ShooterHears ==
  ASSUME NEW a, NEW b, Players(a, b), IInv, Step(a), ~ResultLost(a, b)
  PROVE  ~ResultLost(a, b)'
<1> SUFFICES ASSUME ResultLost(a, b)' PROVE FALSE OBVIOUS
<1>1. a \in Badges /\ b \in Badges /\ a # b /\ TypeInv /\ Own(a) /\ Own(b) /\ Both(a, b)
  BY OfBoth DEF Players
<1>2. /\ state'[b] = state[b] /\ defensive_tries'[b] = defensive_tries[b]
      /\ state'[a] = "SENDING_SHOT" /\ Transposed(curr'[a]) \in defensive_tries[b]
      /\ state[b] \notin {"SEND_HIT", "SEND_MISS", "DEAD"}
      /\ \A i \in DOMAIN inbox'[a] : ~IsResult(inbox'[a][i])
  BY StepIsOwn DEF ResultLost, IsResult
<1>3. CASE TakeShot(a)
  <2>1. /\ state[a] = "TAKE_SHOT" /\ curr' = curr BY <1>3 DEF TakeShot
  <2>2. Playing(b) /\ Playing(a) BY <1>1, <1>2, <2>1 DEF Own, Idle, Playing, Left
  <2>3. curr[a] \notin offensive_tries[a] /\ Heard(b) \subseteq offensive_tries[a]
    BY <1>1, <2>1, <2>2 DEF Both, Pair, Duel, Tries
  <2>4. curr[a] \in Heard(b) BY <1>1, <1>2, <2>1, Transposing DEF Heard, TypeInv
  <2> QED BY <2>3, <2>4
<1>4. CASE firewall_ir_cb(a)
  <2>1. Consume(a) BY <1>4 DEF firewall_ir_cb, Consume
  <2>2. /\ 1 \in DOMAIN inbox[a] /\ Head(inbox[a]) = inbox[a][1] /\ Head(inbox[a]) \in Packet
        /\ inbox[a] \in Seq(Packet) /\ inbox'[a] = Tail(inbox[a])
    BY <1>1, <2>1, Consumed DEF Consume, TypeInv
  <2>3. state[a] \notin Heeded[Head(inbox[a]).cmd]
    <3> SUFFICES ASSUME state[a] \in Heeded[Head(inbox[a]).cmd] PROVE FALSE OBVIOUS
    <3>1. Handle(a, Head(inbox[a])) BY <1>4 DEF firewall_ir_cb
    <3>2. PICK s \in States \ (Alone \cup {"SENDING_SHOT"}) : state' = [state EXCEPT ![a] = s]
      BY <1>1, <2>2, <3>1, HandledIs
    <3> QED BY <1>1, <1>2, <3>2 DEF TypeInv
  <2>4. UNCHANGED <<state, curr, defensive_tries>> BY <1>4, <2>3 DEF firewall_ir_cb, gridVars
  <2>5. ~IsResult(Head(inbox[a])) BY <1>2, <2>3, <2>4 DEF Heeded, HeededIn, IsResult
  <2>6. \A i \in DOMAIN inbox[a] : ~IsResult(inbox[a][i])
    <3> TAKE i \in DOMAIN inbox[a]
    <3>1. i = 1 \/ (i - 1 \in DOMAIN inbox'[a] /\ inbox[a][i] = inbox'[a][i - 1]) BY <2>2
    <3> QED BY <1>2, <2>2, <2>5, <3>1
  <2> QED BY <1>2, <2>4, <2>6 DEF ResultLost, IsResult
<1>5. CASE Send(a)
  <2>1. inbox'[a] = inbox[a] BY <1>1, <1>5 DEF Send
  <2> QED BY <1>2, <1>5, <2>1 DEF Send, gridVars, ResultLost, IsResult
<1>6. ~Open(a) /\ ~display_our_ships(a) /\ ~set_up_to_take_shot(a) /\ ~Exit(a)
  BY <1>1, <1>2 DEF Open, display_our_ships, set_up_to_take_shot, Exit, Goto, TypeInv
<1>7. ~fw_move_crosshair(a) BY <1>2 DEF fw_move_crosshair
<1>8. ~Button(a)
  <2>1. \A s \in DOMAIN ButtonNext : ButtonNext[s] # "SENDING_SHOT" BY DEF ButtonNext
  <2> QED BY <1>1, <1>2, <2>1 DEF Button, Goto, TypeInv
<1> QED BY <1>3, <1>4, <1>5, <1>6, <1>7, <1>8 DEF Step, User

(* Its opponent records a shot and shows the result in one step, and stays *)
(* there while its user is patient.                                        *)
LEMMA OpponentTells ==
  ASSUME NEW a, NEW b, Players(a, b), IInv, Step(b), Patient, ~ResultLost(a, b)
  PROVE  ~ResultLost(a, b)'
<1> SUFFICES ASSUME ResultLost(a, b)' PROVE FALSE OBVIOUS
<1>1. /\ a \in Badges /\ b \in Badges /\ a # b /\ TypeInv /\ Players(b, a) /\ <<a, b>> \in Opponents
  BY OfBoth DEF Players, Opponents
<1>2. /\ state'[a] = state[a] /\ curr'[a] = curr[a]
      /\ state[a] = "SENDING_SHOT" /\ Transposed(curr[a]) \in defensive_tries'[b]
      /\ state'[b] \notin {"SEND_HIT", "SEND_MISS", "DEAD"}
      /\ \A i \in DOMAIN inbox'[a] : ~IsResult(inbox'[a][i])
  BY <1>1, StepIsOwn DEF ResultLost, IsResult
<1>3. CASE defensive_tries' = defensive_tries
  <2>1. NoResultUnderWay(a)
    <3>1. CASE Send(b)
      <4>1. PICK m \in Outgoing(b), heard \in SUBSET (Badges \ {b}) :
              inbox' = [c \in Badges |-> IF c \in heard /\ Len(inbox[c]) < InboxRoom
                                         THEN Append(inbox[c], m) ELSE inbox[c]]
        BY <3>1 DEF Send
      <4>2. inbox[a] \in Seq(Packet) /\ m \in Packet BY <1>1, SentFits DEF TypeInv
      <4>3. inbox'[a] = inbox[a] \/ inbox'[a] = Append(inbox[a], m) BY <1>1, <4>1
      <4>4. \A i \in DOMAIN inbox[a] : i \in DOMAIN inbox'[a] /\ inbox'[a][i] = inbox[a][i]
        BY <4>2, <4>3
      <4> QED BY <1>2, <4>4 DEF NoResultUnderWay
    <3>2. CASE ~Send(b)
      <4>1. inbox'[a] = inbox[a]
        BY <1>1, <3>2 DEF Step, User, Open, display_our_ships, Button, set_up_to_take_shot,
             fw_move_crosshair, TakeShot, Exit, firewall_ir_cb, TypeInv
      <4> QED BY <1>2, <4>1 DEF NoResultUnderWay
    <3> QED BY <3>1, <3>2
  <2>2. Unheard(a, b) /\ state[b] \in {"SEND_HIT", "SEND_MISS", "DEAD"}
    BY <1>2, <1>3, <2>1 DEF Unheard, ResultLost, NoResultUnderWay, IsResult
  <2>3. state'[b] = state[b] BY <1>1, <2>2 DEF Patient
  <2> QED BY <1>2, <2>2, <2>3
<1>4. CASE defensive_tries' # defensive_tries
  <2>1. ~User(b) /\ ~Send(b)
    BY <1>4 DEF User, Open, display_our_ships, Button, set_up_to_take_shot, fw_move_crosshair,
         TakeShot, Send, gridVars
  <2>2. ~Exit(b) BY <1>1, <1>2 DEF Exit, TypeInv
  <2>3. firewall_ir_cb(b) BY <2>1, <2>2 DEF Step
  <2>4. Head(inbox[b]) \in Packet
    <3>1. Consume(b) BY <2>3 DEF firewall_ir_cb, Consume
    <3> QED BY <1>1, <3>1, Consumed
  <2>5. Handle(b, Head(inbox[b])) BY <1>4, <2>3 DEF firewall_ir_cb, gridVars
  <2>6. Head(inbox[b]).cmd \in {"SHALL_WE_PLAY", "LOVE_TO", "WHO_STARTS", "LETS_START", "SHOT_TAKEN",
                                "IM_HIT", "YOU_MISSED", "IM_DEAD"}
    BY <2>4 DEF Packet, Heeded, HeededIn
  <2>7. received_shot(b, Head(inbox[b]).cell)
    BY <1>4, <2>5, <2>6 DEF Handle, received_peering, received_who_first, received_lets_start,
         received_confirmation, received_victory, gridVars
  <2>8. state'[b] \in {"SEND_HIT", "SEND_MISS", "DEAD"}
    BY <1>1, <2>7 DEF received_shot, Goto, Verdict, TypeInv
  <2> QED BY <1>2, <2>8
<1> QED BY <1>3, <1>4

\* A badge whose shot was recorded fails to hear the result only because the
\* other badge's user leaves the screen that repeats it ("need[s] to send
\* result to opp", firewall_ng.c:536): no loss, delay or repetition of packets
\* does it.
THEOREM PatienceReachesShooter ==
  ASSUME TwoPlayers
  PROVE  Spec /\ [][Patient]_vars => []ResultReachesShooter
<1>1. Init => ResultReachesShooter BY DEF Init, ResultReachesShooter, ResultLost, Opponents
<1>2. ASSUME IInv, ResultReachesShooter, [Next]_vars, [Patient]_vars
      PROVE  ResultReachesShooter'
  <2> SUFFICES ASSUME NEW ab \in Opponents PROVE ~ResultLost(ab[1], ab[2])'
    BY DEF ResultReachesShooter, Opponents
  <2>1. Players(ab[1], ab[2])
    <3>1. PICK x, y \in Badges : Players(x, y) BY DEF TwoPlayers, Players
    <3>2. ab[1] \in Badges /\ ab[2] \in Badges /\ ab[1] # ab[2] BY DEF Opponents
    <3> QED BY <3>1, <3>2 DEF Players
  <2>2. ~ResultLost(ab[1], ab[2]) BY <1>2 DEF ResultReachesShooter
  <2>3. CASE UNCHANGED vars BY <2>2, <2>3 DEF vars, gridVars, ResultLost
  <2>4. CASE Next /\ Patient
    <3>1. PICK c \in Badges : Step(c) BY <2>4 DEF Next, Step
    <3>2. c = ab[1] \/ c = ab[2] BY <2>1 DEF Players
    <3> QED BY <1>2, <2>1, <2>2, <2>4, <3>1, <3>2, ShooterHears, OpponentTells
  <2> QED BY <1>2, <2>3, <2>4
<1> QED BY <1>1, <1>2, GameInvariant, PTL DEF Spec
=============================================================================
