------------------------------ MODULE Firewall ------------------------------
(***************************************************************************)
(* FIREWALL, a game for two badges in the manner of battleships, played    *)
(* over infra-red packets that may be lost.  Each badge runs the same      *)
(* state machine: one step of firewall_ng_cb in every pass of the main     *)
(* loop, and firewall_ir_cb for every packet.  A badge repeats its last    *)
(* message until its user or a packet moves it on.                         *)
(*                                                                         *)
(* Abstraction.  inbox[b] is what other badges have sent and b has not     *)
(* handled: their send queues and b's receive queue (mailboxes, see        *)
(* IrLink).  RESEND_DELAY only delays a message.  Screens are left out,    *)
(* and so are the types of ships and other_badge_id, which are only shown. *)
(***************************************************************************)
EXTENDS Integers, Sequences, FiniteSets

CONSTANTS
  Badges,
  GRID_CELLS,     \* rows and columns (8 in the code)
  Placements,     \* what set_ship may place: sets of cells
  Randoms,        \* the numbers each badge may draw (0..2047 in the code)
  InboxRoom,      \* packets under way to a badge
  MaxOpens        \* bound: times a badge opens the game

Cell == (0..(GRID_CELLS - 1)) \X (0..(GRID_CELLS - 1))
NoCell == <<0, 0>>

ASSUME GridAssumption == GRID_CELLS \in Nat \ {0} /\ Placements \subseteq SUBSET Cell
ASSUME PlayAssumption ==
  /\ \A b \in Badges : Randoms[b] \subseteq Nat
  /\ InboxRoom \in Nat /\ MaxOpens \in Nat

VARIABLES
  state,
  my_random,
  curr,             \* <<curr_row, curr_column>>
  placed_items, offensive_tries, offensive_hits, defensive_tries,
  inbox,
  opens             \* times the game was opened, for the bound only

gridVars == <<placed_items, offensive_tries, offensive_hits, defensive_tries>>
vars == <<state, my_random, curr, gridVars, inbox, opens>>

Init ==
  /\ state = [b \in Badges |-> "START"]
  /\ my_random = [b \in Badges |-> 0]
  /\ curr = [b \in Badges |-> NoCell]
  /\ placed_items = [b \in Badges |-> {}]
  /\ offensive_tries = [b \in Badges |-> {}]
  /\ offensive_hits = [b \in Badges |-> {}]
  /\ defensive_tries = [b \in Badges |-> {}]
  /\ inbox = [b \in Badges |-> <<>>]
  /\ opens = [b \in Badges |-> 0]

Goto(b, s) == state' = [state EXCEPT ![b] = s]

(***************************************************************************)
(* firewall_ng_cb: messages.  What is sent depends on the state alone.     *)
(***************************************************************************)
Message(cmd, num, cell) == [cmd |-> cmd, num |-> num, cell |-> cell]

Outgoing(b) ==
  CASE state[b] = "WAITING_FOR_CONNECT"      -> {Message("SHALL_WE_PLAY", 0, NoCell)}
    [] state[b] = "WAITING_FOR_OTHER_PLAYER" -> {Message("LOVE_TO", 0, NoCell)}
    [] state[b] = "WHO_GOES_FIRST"           -> {Message("WHO_STARTS", my_random[b], NoCell)}
    [] state[b] = "DISPLAY_OFFENSE"          -> {Message("LETS_START", my_random[b], NoCell)}
    [] state[b] = "DISPLAY_DEFENSE"          -> {Message("LETS_START", 0, NoCell)}
    [] state[b] = "SENDING_SHOT"             -> {Message("SHOT_TAKEN", 0, curr[b])}
    [] state[b] = "SEND_HIT"                 -> {Message("IM_HIT", 0, curr[b])}
    [] state[b] = "SEND_MISS"                -> {Message("YOU_MISSED", 0, curr[b])}
    [] state[b] = "DEAD"                     -> {Message("IM_DEAD", 0, NoCell)}
    [] OTHER                                 -> {}

\* Every message is for everybody (badgeId 0).
Send(b) ==
  /\ \E m \in Outgoing(b), heard \in SUBSET (Badges \ {b}) :
       inbox' = [c \in Badges |-> IF c \in heard /\ Len(inbox[c]) < InboxRoom
                                  THEN Append(inbox[c], m) ELSE inbox[c]]
  /\ UNCHANGED <<state, my_random, curr, gridVars, opens>>

(***************************************************************************)
(* firewall_ng_cb: the user.                                               *)
(***************************************************************************)
Open(b) ==
  /\ state[b] = "START" /\ opens[b] < MaxOpens
  /\ Goto(b, "WELCOME_SCREEN")
  /\ \E r \in Randoms[b] : my_random' = [my_random EXCEPT ![b] = r]
  /\ opens' = [opens EXCEPT ![b] = @ + 1]
  /\ UNCHANGED <<curr, gridVars, inbox>>

display_our_ships(b) ==
  /\ state[b] = "WELCOME_SCREEN"
  /\ Goto(b, "INITIAL_DISPLAY")
  /\ \E p \in Placements : placed_items' = [placed_items EXCEPT ![b] = p]
  /\ UNCHANGED <<my_random, curr, offensive_tries, offensive_hits, defensive_tries, inbox, opens>>

\* States that the button leaves without more ado.
ButtonNext ==
  [INITIAL_DISPLAY |-> "WAITING_FOR_CONNECT", WAITING_FOR_CONNECT |-> "EXIT",
   WAITING_FOR_OTHER_PLAYER |-> "WHO_GOES_FIRST", WHO_GOES_FIRST |-> "EXIT",
   DISPLAY_DEFENSE |-> "WAITING", WAITING |-> "EXIT", SENDING_SHOT |-> "EXIT",
   DISPLAY_HIT |-> "SHOW_OFF_GRID", DISPLAY_MISS |-> "SHOW_OFF_GRID",
   SHOW_OFF_GRID |-> "WAITING", DEAD |-> "EXIT"]

Button(b) ==
  /\ state[b] \in DOMAIN ButtonNext
  /\ Goto(b, ButtonNext[state[b]])
  /\ UNCHANGED <<my_random, curr, gridVars, inbox, opens>>

\* Row by row.
Before(c, d) == c[1] < d[1] \/ (c[1] = d[1] /\ c[2] < d[2])

Untried(b) == Cell \ offensive_tries[b]

\* Mutant: the first cell, tried or not.
FirstCellOfGrid(b) == CHOOSE c \in Cell : \A d \in Cell \ {c} : Before(c, d)

find_first_valid_shot(b) ==
  IF Untried(b) = {} THEN curr[b]
  ELSE CHOOSE c \in Untried(b) : \A d \in Untried(b) \ {c} : Before(c, d)

set_up_to_take_shot(b) ==
  /\ state[b] \in {"DISPLAY_OFFENSE", "SEND_HIT", "SEND_MISS"}
  /\ curr' = [curr EXCEPT ![b] = find_first_valid_shot(b)]
  /\ Goto(b, "TAKE_SHOT")
  /\ UNCHANGED <<my_random, gridVars, inbox, opens>>

\* Untried cells in line with c, on one side of it; and the nearest of them.
Toward(b, c, axis, delta) ==
  {d \in Untried(b) : d[3 - axis] = c[3 - axis] /\ (d[axis] - c[axis]) * delta > 0}

fw_move_crosshair(b) ==
  /\ state[b] = "TAKE_SHOT"
  /\ \E axis \in {1, 2}, delta \in {-1, 1} :
       LET line == Toward(b, curr[b], axis, delta) IN
         \E d \in line :
           /\ \A e \in line : (e[axis] - d[axis]) * delta >= 0
           /\ curr' = [curr EXCEPT ![b] = d]
  /\ UNCHANGED <<state, my_random, gridVars, inbox, opens>>

\* Mutant: the shot is not recorded.
TakeShotUnrecorded(b) ==
  /\ state[b] = "TAKE_SHOT"
  /\ Goto(b, "SENDING_SHOT")
  /\ UNCHANGED <<my_random, curr, gridVars, inbox, opens>>

TakeShot(b) ==
  /\ state[b] = "TAKE_SHOT"
  /\ offensive_tries' = [offensive_tries EXCEPT ![b] = @ \cup {curr[b]}]
  /\ Goto(b, "SENDING_SHOT")
  /\ UNCHANGED <<my_random, curr, placed_items, offensive_hits, defensive_tries, inbox, opens>>

\* reset_firewall_state, and back to the menus.
Exit(b) ==
  /\ state[b] = "EXIT"
  /\ Goto(b, "START")
  /\ my_random' = [my_random EXCEPT ![b] = 0]
  /\ curr' = [curr EXCEPT ![b] = NoCell]
  /\ placed_items' = [placed_items EXCEPT ![b] = {}]
  /\ offensive_tries' = [offensive_tries EXCEPT ![b] = {}]
  /\ offensive_hits' = [offensive_hits EXCEPT ![b] = {}]
  /\ defensive_tries' = [defensive_tries EXCEPT ![b] = {}]
  /\ UNCHANGED <<inbox, opens>>

(***************************************************************************)
(* firewall_ir_cb, with the oldest packet.                                 *)
(***************************************************************************)
received_peering(b, next_state) ==
  Goto(b, next_state) /\ UNCHANGED <<my_random, curr, gridVars>>

Roles(b, their_random) ==
  Goto(b, IF my_random[b] > their_random THEN "DISPLAY_OFFENSE" ELSE "DISPLAY_DEFENSE")

received_who_first(b, their_random) ==
  /\ IF their_random = my_random[b]
     THEN /\ \E r \in Randoms[b] : my_random' = [my_random EXCEPT ![b] = r]
          /\ Goto(b, "WHO_GOES_FIRST")
     ELSE Roles(b, their_random) /\ UNCHANGED my_random
  /\ UNCHANGED <<curr, gridVars>>

\* Mutant: "data not [really] used here".
ReceivedLetsStartNoData(b, their_random) ==
  Roles(b, 0) /\ UNCHANGED <<my_random, curr, gridVars>>

received_lets_start(b, their_random) ==
  Roles(b, their_random) /\ UNCHANGED <<my_random, curr, gridVars>>

\* Row and column change places when a message is read.
Transposed(c) == <<c[2], c[1]>>

\* Mutant: one hit is enough to die.
VerdictAnyHit(b, c, tries) ==
  IF c \in placed_items[b] THEN "DEAD" ELSE "SEND_MISS"

\* The state after a shot at cell c, with the shots so far.
Verdict(b, c, tries) ==
  IF c \notin placed_items[b] THEN "SEND_MISS"
  ELSE IF placed_items[b] \subseteq tries THEN "DEAD"        \* i_am_dead
  ELSE "SEND_HIT"

received_shot(b, location) ==
  /\ LET c == Transposed(location)
         tries == defensive_tries[b] \cup {c}
     IN  /\ curr' = [curr EXCEPT ![b] = c]
         /\ defensive_tries' = [defensive_tries EXCEPT ![b] = tries]
         /\ Goto(b, Verdict(b, c, tries))
  /\ UNCHANGED <<my_random, placed_items, offensive_tries, offensive_hits>>

\* Mutant: row and column as in the message.
ConfirmationAsSent(b, its_a_hit, location) ==
  /\ Goto(b, IF its_a_hit THEN "DISPLAY_HIT" ELSE "DISPLAY_MISS")
  /\ offensive_hits' = [offensive_hits EXCEPT ![b] = IF its_a_hit THEN @ \cup {location} ELSE @]
  /\ UNCHANGED <<my_random, curr, placed_items, offensive_tries, defensive_tries>>

received_confirmation(b, its_a_hit, location) ==
  /\ Goto(b, IF its_a_hit THEN "DISPLAY_HIT" ELSE "DISPLAY_MISS")
  /\ offensive_hits' = [offensive_hits EXCEPT
                          ![b] = IF its_a_hit THEN @ \cup {Transposed(location)} ELSE @]
  /\ UNCHANGED <<my_random, curr, placed_items, offensive_tries, defensive_tries>>

received_victory(b) ==
  Goto(b, "BASKING") /\ UNCHANGED <<my_random, curr, gridVars>>

\* The states in which a command is heeded.
HeededIn(shot) ==
  [SHALL_WE_PLAY |-> {"WAITING_FOR_CONNECT"},
   LOVE_TO |-> {"WAITING_FOR_CONNECT", "WAITING_FOR_OTHER_PLAYER"},
   WHO_STARTS |-> {"WAITING_FOR_OTHER_PLAYER", "WHO_GOES_FIRST"},
   LETS_START |-> {"WHO_GOES_FIRST"},
   SHOT_TAKEN |-> shot,
   IM_HIT |-> {"SENDING_SHOT"}, YOU_MISSED |-> {"SENDING_SHOT"}, IM_DEAD |-> {"SENDING_SHOT"}]

\* Mutant: a shot is heeded by a badge that is shooting.
HeededShooting == HeededIn({"DISPLAY_DEFENSE", "WAITING", "SHOW_OFF_GRID", "SENDING_SHOT"})

Heeded == HeededIn({"DISPLAY_DEFENSE", "WAITING", "SHOW_OFF_GRID"})

Handle(b, p) ==
  CASE p.cmd = "SHALL_WE_PLAY" -> received_peering(b, "WAITING_FOR_OTHER_PLAYER")
    [] p.cmd = "LOVE_TO"       -> received_peering(b, "WHO_GOES_FIRST")
    [] p.cmd = "WHO_STARTS"    -> received_who_first(b, p.num)
    [] p.cmd = "LETS_START"    -> received_lets_start(b, p.num)
    [] p.cmd = "SHOT_TAKEN"    -> received_shot(b, p.cell)
    [] p.cmd = "IM_HIT"        -> received_confirmation(b, TRUE, p.cell)
    [] p.cmd = "YOU_MISSED"    -> received_confirmation(b, FALSE, p.cell)
    [] p.cmd = "IM_DEAD"       -> received_victory(b)

firewall_ir_cb(b) ==
  /\ inbox[b] # <<>>
  /\ inbox' = [inbox EXCEPT ![b] = Tail(@)]
  /\ LET p == Head(inbox[b]) IN
       IF state[b] \in Heeded[p.cmd] THEN Handle(b, p)
       ELSE UNCHANGED <<state, my_random, curr, gridVars>>
  /\ UNCHANGED opens

User(b) ==
  Open(b) \/ display_our_ships(b) \/ Button(b) \/ set_up_to_take_shot(b)
  \/ fw_move_crosshair(b) \/ TakeShot(b)

Next == \E b \in Badges : User(b) \/ Exit(b) \/ Send(b) \/ firewall_ir_cb(b)

Spec == Init /\ [][Next]_vars

(***************************************************************************)
(* Properties.  All but the last hold if TwoPlayers.                       *)
(***************************************************************************)
\* A game between two badges that do not draw the same number, each of which
\* plays once: packets carry no mark of the game they belong to.
TwoPlayers ==
  /\ MaxOpens <= 1 /\ {} \notin Placements
  /\ \E x, y \in Badges : x # y /\ Badges = {x, y} /\ Randoms[x] \cap Randoms[y] = {}

States ==
  {"START", "WELCOME_SCREEN", "TAKE_SHOT", "SEND_HIT", "SEND_MISS", "BASKING",
   "DISPLAY_OFFENSE", "EXIT"} \cup DOMAIN ButtonNext

\* Types; a badge has shot at what it hit.
TypeOK ==
  /\ state \in [Badges -> States] /\ my_random \in [Badges -> Nat]
  /\ curr \in [Badges -> Cell]
  /\ \A grid \in {placed_items, offensive_tries, defensive_tries} : grid \in [Badges -> SUBSET Cell]
  /\ \A b \in Badges : /\ offensive_hits[b] \subseteq offensive_tries[b]
                       /\ Len(inbox[b]) <= InboxRoom

\* reset_firewall_state wiped the badge's side of the game.
Left(b) == state[b] = "START"

Opponents == {ab \in Badges \X Badges : ab[1] # ab[2]}

\* The badge with the highest random number shoots first, whatever of the
\* handshake was lost or repeated (firewall_common.h:124-126).
HighestStarts ==
  \A ab \in Opponents : LET a == ab[1]  b == ab[2] IN
    \/ Left(a) \/ Left(b)
    \/ /\ state[a] = "DISPLAY_OFFENSE" => my_random[a] > my_random[b]
       /\ state[a] = "DISPLAY_DEFENSE" => my_random[a] < my_random[b]

\* Nobody shoots twice in a row, though shots and answers are repeated: the
\* badges' numbers of shots never differ by more than one, and it is the one
\* that started who is ahead.
TurnsAlternate ==
  \A ab \in Opponents : LET a == ab[1]  b == ab[2] IN
    \/ Left(a) \/ Left(b) \/ my_random[a] < my_random[b]
    \/ Cardinality(offensive_tries[a]) - Cardinality(offensive_tries[b]) \in {0, 1}

Mirror(cells) == {Transposed(c) : c \in cells}

\* The two badges' grids tell the same story, though rows and columns change
\* places on the way there and on the way back (received_shot,
\* received_confirmation): the shots that a badge knows of are its opponent's,
\* all but perhaps the last, and the opponent's hits are those of them that hit
\* a ship, all but perhaps the one whose result is awaited.
GridsAgree ==
  \A ab \in Opponents : LET a == ab[1]  b == ab[2] IN
    \/ Left(a) \/ Left(b)
    \/ LET known == Mirror(defensive_tries[b])
           hits == known \cap Mirror(placed_items[b])
       IN  /\ known \subseteq offensive_tries[a]
           /\ Cardinality(offensive_tries[a] \ known) <= 1
           /\ offensive_hits[a] \subseteq hits
           /\ hits \subseteq offensive_hits[a]
                \cup (IF state[a] \in {"SENDING_SHOT", "EXIT", "BASKING"} THEN {curr[a]} ELSE {})

\* A badge that celebrates has hit every cell of its opponent's ships
\* (received_victory, i_am_dead).
VictoryIsEarned ==
  \A ab \in Opponents : state[ab[1]] = "BASKING" =>
    Left(ab[2]) \/ Mirror(placed_items[ab[2]]) \subseteq offensive_tries[ab[1]]

\* The game that is played, as long as both badges are in it: boards and shots,
\* and what the badges know of them.
Over == \E b \in Badges : state[b] = "EXIT" \/ (Left(b) /\ opens[b] > 0)

Opponent(b) == CHOOSE c \in Badges : c # b
Awaited(b) == IF state[b] = "SENDING_SHOT" THEN {curr[b]} ELSE {}

gameShips == [b \in Badges |-> IF Over THEN {} ELSE Mirror(placed_items[b])]
gameNumber == [b \in Badges |-> IF Over \/ placed_items[b] = {} THEN 0 ELSE my_random[b]]
gameShots == [b \in Badges |-> IF Over THEN {} ELSE offensive_tries[b]]
gameMarked == [b \in Badges |-> IF Over THEN {} ELSE Mirror(defensive_tries[Opponent(b)])]
gameTold == [b \in Badges |-> IF Over THEN {} ELSE offensive_tries[b] \ Awaited(b)]
gameHits == [b \in Badges |-> IF Over THEN {} ELSE offensive_hits[b]]
gameWinners == {b \in Badges : ~Over /\ state[b] = "BASKING"}

Game == INSTANCE Battleships WITH
  Players <- Badges, Cells <- Cell, Numbers <- Randoms,
  Boards <- {Mirror(p) : p \in Placements},
  ships <- gameShips, number <- gameNumber, shots <- gameShots, marked <- gameMarked,
  told <- gameTold, hits <- gameHits, winners <- gameWinners, over <- Over

\* Whatever is lost, repeated or late, the badges play Battleships: a shot is
\* fired in turn, at an untried cell of an opponent that has placed its ships,
\* and by a badge that knows what became of its last one; it is marked once; and
\* its shooter is told as the ships lie (firewall_ng_cb, firewall_ir_cb).
GameIsPlayed == Game!Spec

\* The shot of a is on b's board, and nothing will tell a of the result: b has
\* gone on, and no answer is under way.
ResultLost(a, b) ==
  /\ state[a] = "SENDING_SHOT" /\ Transposed(curr[a]) \in defensive_tries[b]
  /\ state[b] \notin {"SEND_HIT", "SEND_MISS", "DEAD"}
  /\ \A i \in DOMAIN inbox[a] : inbox[a][i].cmd \notin {"IM_HIT", "YOU_MISSED", "IM_DEAD"}

\* a waits to hear who starts, and b, which knows, has gone on.
RolesLost(a, b) ==
  /\ state[a] = "WHO_GOES_FIRST" /\ state[b] \in {"WAITING", "TAKE_SHOT", "SENDING_SHOT", "EXIT"}
  /\ \A i \in DOMAIN inbox[a] : inbox[a][i].cmd \notin {"WHO_STARTS", "LETS_START"}

\* A badge that was shot at "need[s] to send result to opp" (firewall_ng.c:536):
\* a badge whose shot was recorded still hears the result.
ResultReachesShooter == \A ab \in Opponents : ~ResultLost(ab[1], ab[2])

\* A game that has stalled stays so, though both badges repeat their messages:
\* neither heeds what the other sends, and it ends when one of them leaves
\* (ST_SENDING_SHOT, ST_WHO_GOES_FIRST).
Stalled(a, b) == ResultLost(a, b) \/ RolesLost(a, b)

StallLasts ==
  [][\A ab \in Opponents : Stalled(ab[1], ab[2]) =>
       Stalled(ab[1], ab[2])' \/ state'[ab[1]] = "EXIT" \/ Left(ab[2])']_vars
=============================================================================
