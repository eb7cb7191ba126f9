# Verification of the RVAsec 2016 badge firmware

The program verified here is the firmware of an electronic conference badge (PIC32MX250, C, no
operating system), `src/badge2016/software/trunk/src`, called *P* below. A badge has a small
colour display, five touch pads, a button, a piezo, an LED and an infra-red transmitter and
receiver over which badges talk to each other. Everything else in the repository (branches and
tags of the same firmware, the 2015 badge, PCB tools, Microchip's bootloader and USB examples) is
older, generated or vendored, and left aside.

## 1. The system

One main loop (`main.c`, `ProcessIO`) calls `menus()`, which runs either the application the user
has opened or one step of the menus, and then `IRhandler()`, which hands the oldest packet
received to a callback. Interrupt handlers run in between: Timer2 (38 kHz, priority 2: infra-red
bits, audio, LED), Int1 (an edge of the infra-red receiver, priority 1), Timer3 (touch pads and
button). Nothing is locked anywhere: the code relies on each shared variable having one writer, on
priorities and on timing.

| Component | State | Operations | Interacts through | What makes it correct |
|---|---|---|---|---|
| IR link (`timer1_int.c`, `ir.c`) | two circular queues of 8 packets and their four indices; `G_IRrecv`, `G_IRsend`, `G_IRerror`; `send_delay`, `pinged`, `ping_responded` | `Timer2Handler`, `Int1Interrupt`, `IRqueueSend`, `IRhandler`, `ir_ping` | shared variables between three contexts | both queues are first-in first-out mailboxes without a lock; what waits in them is handled |
| Message relay ("Bweets": `apps/messenger.c`, `ir.c`, `menu.c`) | text and position being sent; text received, relay count | Send, `msg_send_msg`, `ir_livetext`, relay in `menus()`, Clear Message | packets between badges; one static position shared by messenger and relay | a message being relayed is not disturbed; relaying ends |
| Menus (`menu.c`) | stack of menus, cursor, running application, alert item | button, taps, `returnToMenus`, `closeMenuAndReturn`, forced redraw | `redraw_main_menu`, `new_message`, written by the IR callbacks | the cursor rests on a selectable item; the stack holds the path to the screen |
| Settings and ping screens (`settings.c`, `apps/QC.c`) | values set, `num_pinged` | callbacks run by `menus()` | `getSelectedMenuStack(1)`, `pinged`, `ping_responded` | the value is shown on the item it was entered from |
| Flash storage (`flash.c`) | a page of records | `NVwrite`, `NVread`, `flashErasePage` | main loop, one game, the serial console | once the page was erased, a record stays what it was, whatever is written later or interrupted; nothing is written outside the page |
| Firewall game (`apps/firewall_*.c`) | state machine of 19 states, four bit grids, two random numbers | IR callbacks, one step per pass | packets between two badges, lost at will | one badge starts; both agree on hits; the game ends |
| Touch driver (`touchCTMU.c`) | bit and time of each key, debounce counter, the touch that may become a slide | Timer3 handler, `..._AND_CONSUME` macros, `initTouch` | bits and times written by the handler, compared with `lastHandledTimestamp` by the main loop | no press is reported twice, none that lasts is passed over, a slide was made |
| Menus of applications (`genericMenu` in `menu.c`) | one cursor and one stack for all applications | a call in each pass of an application that shows a menu | static variables that survive the application | the menu shown is the one asked for |
| Messenger's editor (`apps/messenger.c`) | text, cursor, relay amount | screens of the messenger | the array that is sent | the text keeps its terminator |
| Capture the flag (`apps/CTF.c`, the server in `main.c`) | page, level, state of the serial server, blinks of Light Me | `ctf_app`, `ProcessIO` | `g_ctf_serial_state`, `g_ctf_server_enable`, a stopwatch counted down by an interrupt | levels in order and earned, the console only during a challenge, challenges end |
| Serial commands (`main.c`) | command parser, debug level | `ProcessIO` | USB buffers | not modelled, see section 6 |
| Pong, the other single-badge games, screen savers, display, audio, clock, USB stack, Forth | | | | not modelled: drawing, arithmetic, register access, vendor code |

The behaviours that are hard to test: the interleavings of the three contexts over the queues;
packets lost, mixed or echoed between badges; a message arriving while the user is deep in the
menus; queues and stacks at their limit; a user who acts between two steps of a protocol. They
are listed line by line under `hazards` in `PROJECT.json`, with the properties that cover them.

## 2. Modules

| Module | Role |
|---|---|
| `IrFifo` | abstract: a bounded first-in first-out mailbox with a consumer that works on one packet at a time |
| `IrLink` | the IR link of one badge, every interleaving of its three contexts |
| `MCIrLink` | instances of `IrLink` for TLC |
| `IrLinkProofs` | TLAPS: the inductive invariant of `IrLink`, and that its two queues implement `IrFifo` |
| `MsgRelay` | text messages among several badges |
| `MCMsgRelay` | instances of `MsgRelay` |
| `MsgRelayProofs` | TLAPS: types, a relayed text is not disturbed, a relay keeps to its text, an echo has a smaller count |
| `Menu` | the menus of one badge |
| `BadgeMenus` | the badge's whole tree of menus |
| `MCMenu` | an instance with a part of the tree; evaluates the assumptions for the whole |
| `MenuProofs` | TLAPS: the invariants of `Menu` for every well-formed tree and every depth |
| `LeastTheorems` | TLAPS: what `Min` and `Max` of a set of numbers are, for the other proofs |
| `Battleships` | abstract: a two-player game of Battleships, without messages |
| `Firewall` | the FIREWALL game between badges over packets that may be lost |
| `MCFirewall` | instances: two badges, four cells |
| `FirewallProofs` | TLAPS: the invariants of `Firewall` for every grid, in a game of two badges; that it implements `Battleships`; that a stalled game stays so |
| `RecordStore` | abstract: a store that keeps the first value of a key until it is erased |
| `FlashStore` | the records in the flash memory, power loss included |
| `MCFlashStore` | instances with the keys that the firmware uses |
| `FlashStoreProofs` | TLAPS: that `FlashStore` implements `RecordStore` as long as the page has room |
| `PressOnce` | abstract: a press is reported at most once, and passed over only if it did not last |
| `Touch` | the driver of pads and button, and the polls of the main loop between its passes |
| `MCTouch` | an instance: two halves of a slider polled, readings of both sliders |
| `TouchProofs` | TLAPS: the invariants of `Touch`, and that it implements `PressOnce` |
| `AppMenus`, `GenericMenu` | the menus of three applications; `genericMenu`, which shows them |
| `Lander`, `Messenger`, `CTF`, `Console` | what each application does to its own state, and the serial server |
| `Apps` | their composition: menus() starts and calls them, the console and the stopwatch run beside |
| `MCApps` | an instance: a text of three cells, a light of four blinks |
| `AppsProofs` | TLAPS: the safety properties of `Apps` |

### IrLink

Variables have the names of the code. `frame` is the frame on the air (its value and how many of
its bits are not a proper Manchester transition), sampled by Timer2 alone. `int1`, `main`/`arg`
and `enq`/`enqArg` are program counters of `Int1Interrupt`, `IRhandler` and `IRqueueSend` with the
value each works on.

*Atomicity.* Timer2 has the highest priority of the contexts that touch these variables, so each
of its branches is one action (`Timer2RecvDone`, `Timer2SendStart`, `Timer2SendDone`). Int1 may be
interrupted between its test and its assignment (`Int1Test`, `Int1Set`). The main loop is cut
wherever it touches a shared variable: `IRqueueSend` is test, store, increment, modulo; `IRhandler`
is test, call, callback, increment, modulo. While Int1 is half way the main loop does not run
(`Running`).

*Assumptions.* The compiler keeps the order of the stores (the variables are not volatile). A
frame takes 2048 ticks, so none starts or ends between `x++` and `x %= MAXPACKETQUEUE` (`Settled`),
but a single tick may fall there and start a send.

*Abstracted.* The 32 bits of a frame; what callbacks other than `ir_ping` do (they do not touch
the link); `packets_seen` and `num_packets_seen`, which only choose the colour of an animation;
`IRPair` and the serial commands, which are `AppSend` like every other use of `IRqueueSend`.

### MsgRelay

One action for each thing a pass of the main loop may do: `ir_livetext`, one packet of the
messenger (`AppPacket`), one packet of the relay (`RelayStart`, `RelayPacket`), and the user's
actions. The queues of the IR link appear as what `IrLink` shows they are: `inbox` is a mailbox,
and a packet sent is received by any subset of the other badges, or by none (it was lost, or the
send queue was full). The pauses between packets and before a relay only delay a step. `i` is the
static variable of `msg_send_msg`.

### Menu

`stackMenu`/`stackSel` are `G_menuStack`; pointers are indices, NULL is 0. `Selection` is what
`display_menu` returns, `Display` also what it does to the item "Clear Message"
(`main_m[4].attrib`, here `clearShown`). `Redraw`, the presses by the type of the item under the
cursor, `TopTap`, `BottomTap` are the branches of `menus()`; an application ends by
`returnToMenus`, a setting by `closeMenuAndReturn`. `ir_livetext` and `RelayRound` are what the
message code does to this state. The menu tree is a constant.

### Firewall

`state` has the states of `game_state` without the prefix `ST_`; `WAITING_FOR_CONNECT` to
`WHO_GOES_FIRST` are the handshake, `DISPLAY_OFFENSE`/`DISPLAY_DEFENSE` the roles. A grid is a set
of cells `<<row, column>>`. `Send` is the sending of the current state's message, which may happen
any number of times (also none) before the state is left, for `send_with_delay` waits first and
then repeats it; a message reaches any subset of the other badges. `ButtonNext`, `display_our_ships`,
`set_up_to_take_shot`, `TakeShot` are what the button does in each state, `fw_move_crosshair` the
taps, `Open` the first pass after the game was chosen. `firewall_ir_cb` drops a message unless the
state heeds it (`Heeded`) and otherwise calls the `received_...` function (`Handle`). Reading a
message exchanges row and column (`Transposed`), and answering it exchanges them back, so a
defender's grids are the mirror image of the shooter's.

`Battleships` is what the two badges play: a player joins with a placement (`Join`), shoots at a cell
not tried before (`Shoot`), the opponent marks the shot (`Mark`), and word of the result gets back
(`Tell`); a player may leave at any time (`Leave`). There are no messages in it. Whose turn it is
(`HasTheTurn`) follows from the numbers drawn and the shots fired, and a player shoots only when all
shots are marked and it was told the result of its own. The mapping
`Game == INSTANCE Battleships WITH ...` reads ships, shots, marks and hits off the grids (with row and
column exchanged where the code does so), and whether a result is awaited off the state. A badge that
leaves wipes its grids; from then on the game is `Over`, and its state counts as wiped.

Not in the model: drawing; the types of ships; where `set_ship` finds room (`Placements` is any set
of sets of cells). The state of the game while it is not running is that of `ST_START`, in which no
message is heeded.

### FlashStore

`flash` is the memory from `G_flashAddr` on, as far as the code's search can reach, so that what
happens beyond the page can be seen. At first the page is the zeros of `G_flashstart`; what follows
it is the rest of that array and other constants of the program: any of `Programs`. `NVwrite` is the search and the header, `NVwriteData` each
data word; `PowerLoss` may come between any two. Scans are recursive functions over addresses
(`FreeFrom`, `RecordOf`). The skip over data is `dataWordSize` words although it counts bytes, and
an unsigned char, as in the code. A word that is not erased keeps the bits that it has in common
with what is programmed (`Programmed`, `And`). `erased` is history: the page was erased, which only
a serial command does (`main.c:1012`). `RecordStore` is the promise, of a store that begins when it
is formatted: `FirstWriteIsKept` maps that to the first erasure, and from then on each key to what
`NVread` returns. It says what the code does: the value read is the *first* one written since
the page was erased. So a second top score of Badgey Bird (`badgey_bird.c:188`), or settings saved
twice, are never read back; no comment claims otherwise, so it is a hazard here and not a finding.
The properties hold if `HasRoom`: what may be written between two erasures fits into the page.
Before the first erasure they promise one thing, that the page is not written
(`ProgramsErasedWords`): both searches run through its zeros into the program, where `NVwrite`
takes any word with a low byte of 0xFF for a free one and `NVread` any matching pair for a record.

### Touch

Timer3 is an interrupt, so each tick is one action: `Timer3Sample` for the ticks of a measurement,
`Timer3Compute` for the pass of `TOUCH_COMPUTE_BUTTONS` that ends it, `Timer3Init` for
`TOUCH_INIT`. A poll is cut at its three reads (`PollTest`, `PollCompare`, `PollAssign`); in the
last one the compiler may read the time again or keep it in a register, so the value remembered is
either. The polls of a pass form the chain of `else` of `menus()`: `Polls` is their order, and one
that succeeds ends the pass. A measurement takes several hundred ticks and a poll a few
instructions, hence at most one pass of the driver, or one initialisation, falls into a poll.

Times are names that differ from the time remembered, since only equality is tested and the
counter takes 2^32 ticks to return. `ownTouch`, `slid`, `quietTicks` and `rested` are history: the
touch that each axis itself made, the slides reported in the last pass, and whether the contact of
the button rested between two presses. A slide that is recognised is an event; its bit and time
are polled like those of a key and are not modelled a second time. Readings, calibration and
averages are arbitrary values of `Readings`.

### Apps and its parts

`genericMenu(m)` is a call with menu `m` that only moves the cursor or opens a menu;
`genericMenuRuns(f)` is a call in which the button runs the function of an item. Each application
conjoins one of them with what its function does to its state, so an application's pass is one
action, as in the code. Which key is reported in a pass is arbitrary (`Touch` says what the driver
promises). `Lander` leaves out the flight; a pass of it lands, crashes or goes on. In `Messenger`
a character is a number modulo `CHAR_RANGE`, because the code's test for a negative character
never holds of an `unsigned char`. The pages of `CTF` are tables: `DrawnThen` of those that a pass
draws and leaves, `PressedThen` of those the button leaves, `Reached`/`Asked` of the level that
leaving one leads to and the state of the console it requires, `Started`/`Stopped` of those that
start or stop the console. `usb_console` says whether a pass gets as far as the console: `ProcessIO`
returns before it in Forth mode and while USB is not ready, and both may begin and end at any time
(`Usb`). `Console` has the states of `g_ctf_serial_state`; an answer typed is
right or wrong at will. The stopwatch is 1 while it runs, whatever the 10 or 20 tenths it was set
to. `granted` (an answer was accepted since the challenge started) and `followed` (blinks answered
right since the light started) are history.

## 3. Runs

| Run | Instance | Shows |
|---|---|---|
| `ir_link` | 2 slots, pings for everybody and frames for others, 0 or 1 error, one kind of application packet; 108,000 states, liveness | no index leaves the array, no test goes stale (`NoLockNeeded`); both queues are mailboxes (`ReceiveQueueIsFifo`, `SendQueueIsFifo`) and both drain (`ReceivedIsHandled`, `QueuedIsSent`) |
| `ir_stale_error` | violation | a frame received without an error is stored as `IR_ERROR` |
| `msg_relay` | a writer and a receiver, texts of two packets, relay count 3, inboxes of 2 packets, one Send; 80,000 states, liveness | `RelayUndisturbed`, `RelayInText`, `EchoIsLower`, `FloodEnds`, `RelayCompletes` |
| `msg_overrun` | violation, two writers | a send begun while a relay is half way runs past the terminator |
| `menu` | 7 menus, four levels, stack of 5; 121,000 states | `CursorIsSelectable`, `PathIsStacked`, `SettingCanReturn`; the whole tree of the badge meets `WellFormed` (`BadgeIsWellFormed`) |
| `firewall` | two badges, a grid of 2 by 2, ships of one or two cells, different random numbers, inboxes of 2, one game each; 1.0 M states | `HighestStarts`, `TurnsAlternate`, `GridsAgree`, `VictoryIsEarned`; the two badges play a game of Battleships (`GameIsPlayed`); a game that stalled stays so until its player gives up (`StallLasts`) |
| `firewall_stall` | violation, same instance | a result that was not heard is not repeated once the user goes on |
| `flash_store` | four keys of 1, 8 and 12 bytes, a page of 40 words, three writes before the first erasure and between erasures, data that looks like a header, two programs behind the page with a word that ends a search and a record nobody wrote; 152,000 states | `FirstWriteIsKept`, `ProgramsErasedWords` |
| `flash_full` | violation, four writes | a record is written past the page that was erased |
| `touch` | two halves of a slider polled, eight readings of the two sliders, quiet period 3 | `PressIsReportedOnce`, `BouncesOnce`, `SlideIsTrue`, `HeldIsReported` |
| `apps` | lander, messenger and capture the flag in any order; text of 3 cells, 5 characters, 4 blinks, USB cut off at any time; 386,000 states, liveness | `NoStaleMenu`, `CursorStops`, `ServerOnlyInChallenge`, `TerminatorKept`, `LevelsInOrder`, `LevelIsEarned`, `InjectionEnds`, `LightMeEnds` |
| `ctf_light` | violation, same instance | Light Me is passed by failing often enough |

*Bounds.* A ring of two slots has the full, the empty and the wrapped queue, and every relative
position of the indices; the proofs cover every length. `ERR_RANGE` and `SEND_DELAY` keep two
counters small: only whether they are 0 matters to the properties run with them. A text of two
packets has a first, a last and a lost packet; a relay count of 3 lets an echo be relayed again;
the position has one value beyond the text (`IndexRange`). A stack of 5 over a tree with four
levels is filled only with the help of redraws, as in the badge (8 and five levels). Four cells give
games of up to eight shots, with repeated, lost and late messages in every turn; inboxes of 2 hold a
late copy and the message after it. The firewall run needs two bounds to hold at all, because
messages carry no mark of their game or draw: each badge plays once (`MaxOpens`), and the badges
draw different numbers (`DifferentDraws`; with equal ones, 1 in 2048 in the badge, a late copy of
the first draw can make both start). `TwoPlayers` states both for the proofs.
Three records of 13 words nearly fill a page of 40, and the
fourth passes its end; in the badge (256 words) it takes 52 one-byte records. `FLASHSIZE` keeps its
ratio of 4 to the page. The programs have one word each that ends a search: a write over it takes the
end away, so that further writes find none. In `touch` a quiet period of 3 ticks has a first, a middle and a last tick,
and a slide of more than one pass can be too short or long enough; the proofs cover every period,
length and chain of polls. In `apps` three cells have a first cell, one the cursor reaches last,
and the cell kept for the terminator; five characters have one that can be chosen twice, one that
cannot, the terminator and the wrap-around.

*Deadlock.* Checked except in `firewall`: a badge that won stays in `ST_BASKING`, and a badge that
left does not open the game again.

*Fairness.* In `IrLink`: Timer2 fires 38000 times a second and ends, Int1 ends: weak fairness. The
main loop is interrupted again and again but gets the processor back each time, and the air is
quiet between two frames for at least half a bit: strong fairness for its steps and for
`Timer2SendStart`. In `MsgRelay`: each pass of the main loop handles a packet if there is one, and
sends one if the messenger is sending: weak fairness. The relay runs only in passes without an
application: strong fairness. In `Touch`: the main loop goes on (`WF_vars(Poll)`); the driver needs no
fairness, and a key that is held is held by assumption. In `Apps`: each pass of the main loop runs
the application that is open (`LightPass`), and the console if USB is ready and the badge is not in
Forth mode (`Printed`, which `usb_console` guards); the stopwatch is counted down by an interrupt
(`Time`): weak fairness. Nothing makes `usb_console` hold, so `InjectionEnds` has it as a premise:
it may fail any number of times on the way, but not for ever. The user is never fair.

The strong fairness of `Timer2SendStart` takes part of the hazard at `timer1_int.c:122` for granted:
badges that filled the air without a pause would keep a packet waiting.

## 4. Proofs

`IrLinkProofs` holds for every queue length of at least 2, every set of packets and every badge id
(assumptions `QueueAssumption`, `PacketAssumption`, `NumberAssumption` of `IrLink`, which TLC
evaluates in each run).

- `LockFree`: `Spec => []NoLockNeeded`. `NoLockNeeded` is itself inductive, and each of its parts is
  needed. `TypeOK` alone is not inductive: `ConsumeBump` keeps `IRpacketInCurr` in range only if it
  was inside the ring (`IndexInv`), and the packets taken are packets only because the control
  state says which variable holds one (`ControlInv`). `TestedInv` is the heart of the comment in
  `IRhandler`, "should we lock ... No": a queue seen not empty (not full) stays so until the
  index is moved, since the other context only adds (removes).
- `TypeCorrect`: its first conjunct.
- `ReceiveRefines`, `SendRefines`: under the mapping of `InFifo` and `OutFifo`, every step of the
  link is a Put, a Take, a Forget or a stutter of `IrFifo`. A packet leaves the abstract receive
  queue when `IRhandler` calls its callback, and leaves its slot when the index has moved. The
  proof has one lemma for each way an index or a slot may change, over the operators `Distance`
  and `Queued`, and one step for each action.

`MsgRelayProofs` holds for every number of badges, texts and relay counts.

- `RelayTypeCorrect`, `RelayIsUndisturbed`: types, and that a text on its way through a badge stays
  what it was until the badge is done. The position stays in range because the relay and the
  messenger both stop at the terminator or at the bound that the model names (`IndexRange`).
- `RelayKeepsToText`: the position that messenger and relay share (`messenger.c:81`) is, unless the
  messenger is writing, 0 or a place that a relay has come to in its text with the terminator ahead
  of it, so a relay neither begins in the middle nor runs past its end. That is not inductive by
  itself. `TextInv` adds that the position is even (the text is tested two characters at a time, and
  an odd position would step over the terminator at the end of the array), that whatever is marked
  as a complete message has a terminator, and, for that, that the packets under way lie inside the
  text. The exception for the writing messenger is needed: it is finding 2 (`msg_overrun`). The run
  has one Send, so that it does not show a relay broken off by a second one; the theorem does.
- `EchoesAreLower`: the count in whatever a badge hears of a text is lower than the count it was
  written with. By itself this is not inductive: a relay in progress and every packet in an inbox
  must be below the writer's count too (`EchoInv`).

`MenuProofs` holds for every depth of at least 2 and every tree that meets `TreeAssumption`, which
`MCMenu` evaluates for the badge's whole tree with its stack of 8.

- The inductive invariant `IInv` is `Ranges`, `CursorInv`, `StackInv`, `PathIsStacked` and
  `SettingInv`. `CursorIsSelectable` needs `StackInv`: BACK puts the cursor where a stack entry
  says, so each entry must be an item on which the cursor may rest. `End(m)` is the last such
  index, and stays so whether "Clear Message" is shown or not.
- `PathStacked`: the entry on top of the stack leads to the menu on the screen, unless the screen
  is the main menu again. `SettingReturns` follows from it with `SettingInv`.

`TouchProofs` holds for every quiet period of at least 2 ticks, every chain of polls and every set
of readings.

- `StampInv`, `PollInv`: a key has a time exactly while its bit is set, and a poll that compared a
  time still finds that time unless a pass of the driver fell into it. From them
  `PressOnceImplemented`: every step is a Scan, a Claim, a Report, a Deny or a stutter of
  `PressOnce`. The press is claimed when the times were compared, not when it is answered.
- `RestInv` counts the debounce counter and the quiet ticks together: `BounceIsOnePress`.
- `SlideInv`: when the shared start lies on an axis that slides, it is this axis's own start, and
  the shared time is no longer than its own touch: `SlidesAreTrue`.

`AppsProofs` holds for every length of the text, alphabet and light (`MessengerAssumption`,
`LightAssumption`, `NoMenuAssumption`, `NoAppAssumption`; the menus are those of `AppMenus`).

- The invariant has a part for each piece of state. `MenuInv`: the menu remembered is `Shown` by the
  running application or its submenu, and the cursor is on an item that can be selected. `AppsInv`:
  an application that is not running would open a menu of its own. `TextInv`: the editor's text
  is made of characters and the cursor stays off the last cell. `CtfInv`: which page goes with which
  level, and what state the console may be in while a page is shown.
- `LevelsAreEarned` needs the last part: a success left over from an earlier challenge must not be
  asked for by a later page, which the starting page ensures by setting the console's state.
- `MenusAreNotStale`, `CursorAlwaysStops`, `TerminatorIsKept`, `LevelsGoInOrder`,
  `ServerOnlyForChallenges`, `AppsTypeCorrect` follow from the same invariant.

**FlashStore** (`FlashStoreProofs`), for every set of keys, sizes, values and page for which
`HasRoom` holds: there is a length that no record exceeds and that `MaxWrites` records do not fill
the page with, and no size is above 252, from where the code's unsigned char wraps around. The
scans of `NVwrite` and `NVread` are recursive functions over addresses; each is shown to exist and
to satisfy its equation by an induction from the last address down (`DownwardInduction`,
`ScanExists`), which is written with sets and the least element of `LeastTheorems`. The inductive
invariant `StoreInv` says that the page was never erased, is still zeros and is not being written
(`Unformatted`: the search for a free word leaves a page of zeros, `NoRoomInZeros`, so that no step
but the erasure enters it, `PageIsLeftAlone`), or holds a *chain*: a set of headers H, each
followed by its data and then by the next header, up to a first free word F behind which everything
is erased, with F no further than the writes so far can have filled, and the write under way at its
last record. It is needed because neither a scan nor a write looks at anything but the
words it passes: that they never take data for a header is a property of the whole chain. From it
follow, for every program behind the page, `FirstValueStays` (the refinement of `RecordStore`: `Settled` is what is read from the first
record of the key, a new record is never before it, and a loss of power only settles what is
written), `WrittenOnce`, `FlashTypeCorrect` and `NothingPastThePage`. The last is what the run
`flash_full` refutes for four writes: with three, `HasRoom` holds and the page is enough, and
`MCFlashStore` has TLC evaluate on both runs that three is where `HasRoom` ends.

**Firewall** (`FirewallProofs`), for every grid, every choice of ships and numbers, every size of the
inboxes and every loss and repetition, if `TwoPlayers`: two badges that draw different numbers, each
of which plays once and has a ship. These conditions are not idle (section 3), and `MCFirewall`
has TLC evaluate them on its instance. The inductive invariant `IInv` says of each badge alone what
its state means for its own
grids (`Solo`), of a badge that has not opened the game that its opponent has only asked so far
(`Unopened`), and of two badges that play, seen from each side (`Pair`):

- `Mail` and `Order`: what may be under way. A badge that waits for a shot has no shot in its mailbox
  that it has recorded already, and a badge that awaits a result has no older result; a shot that was
  not recorded has no result behind it. This is where repeated packets could do harm, and the order
  of the mailbox is needed for it: the old ones are passed over in the states that do not heed them.
- `Tries`: all of a badge's shots but the last are recorded by its opponent, and the results too.
- `Turn` and `Duel`: which of the two has the turn, counted by the shots of both, so that never both
  have it; a badge whose ships are all hit has an opponent that waits for the news or has it.

`HigherNumberStarts`, `TurnsDoAlternate`, `GridsDoAgree`, `VictoryIsDeserved` and
`FirewallTypeCorrect` follow from it. That a badge which has the turn finds a cell to shoot at
(`CellIsLeft`) is part of the induction: it would else shoot at a cell again and the count of shots
would stop.

- `GameImplemented`: `Spec => GameIsPlayed`, that is, `Init` maps to `Game!Init` and every step of
  the badges is a step or a stutter of `Battleships`. Which is which depends on the invariant: a
  packet that is a `Mark` must be the opponent's last shot and not recorded yet; a `Tell` must carry
  what the opponent's ships say; a `Shoot` needs the turn, which the shooter's own state does not
  show. The steps are in `JoinStep`, `ShootStep`, `MarkStep`, `TellStep`, `LeaveStep`; `PacketStep` and
  `UserStep` say which action of `Firewall` is which of them. `IInv` is strengthened by `Unready`: a
  badge in its first welcome screen has placed nothing, and in both of them its opponent has received
  nothing and is still by itself. `OverForGood` and `WipedBoards` deal with a badge
  that leaves.
- `StallIsForGood`: `Spec => StallLasts`. A game is `Stalled` if the result of a shot, or word of who
  starts, was neither heard nor can be heard any more: the badge that should repeat it has moved on.
  No packet under way and none that may be repeated moves the waiting badge out of its state, until
  its user gives up or the other badge has left. It complements finding 3: `firewall_stall` shows that
  a result can be lost, `StallIsForGood` that nothing in the protocol recovers from it. It covers the
  badges that stand in `ST_DISPLAY_OFFENSE` and `ST_DISPLAY_DEFENSE` (`firewall_ng.c:502`), too.

**What the disagreements of section 5 come down to.** A run that finds a violation shows one way to
it. For each of the five a theorem says that there is no other: the property that the run refutes
holds of every behaviour in which the one step that the code gets wrong is not taken. For the fourth
that is a condition on the constants; for the others it is an action formula over the same variables,
so that the theorem has the form `Spec /\ [][Condition]_vars => Property`. It is a hypothesis about
behaviours, which the counterexample of the run breaks, and not a claim about the code.

| Finding | Condition | Theorem |
|---|---|---|
| 1 | `DroppedWithoutError`: a frame that is dropped had no errors | `OnlyDroppedErrorsStay`: `GoodFrameIsKept` |
| 2 | `BegunAtStart`: a send begins at position 0 | `SendsFromTheStartEnd`: `NothingAfterNull`, and every position written to is in the array, if all texts have a terminator |
| 3 | `Patient`: no user leaves the screen that repeats a result which the shooter has not heard | `PatienceReachesShooter`: `ResultReachesShooter`, if `TwoPlayers` |
| 4 | `HasRoom`: the records fit into the page (on the constants) | `NothingPastThePage` |
| 5 | `LitFromTheStart`: the light begins with the index at 0 | `LightFromTheStartIsEarned`: `LightMeIsEarned` |

`Patient` lets a user go on as soon as a copy of the result is in the other badge's mailbox, whatever
lies before it there, and asks nothing of a badge whose opponent has given up. `SendInv` adds to `TextInv` that a message which is being written is
never past its terminator; `FollowedInv`, that each blink which the light has come past was answered.

Only model-checked: all liveness properties (`ReceivedIsHandled`, `QueuedIsSent`, `FloodEnds`,
`RelayCompletes`, `HeldIsReported`, `InjectionEnds`, `LightMeEnds`), which rest on fairness and are out
of the provers' reach. Every invariant and every action property of a passing run, and all the
refinements (`IrFifo` twice, `Battleships`, `RecordStore`, `PressOnce`), are theorems.

Two hazards have no property. Equal draws (`firewall_ng.c:361`) and messages of an earlier game
(`firewall_comm.c:18`) are excluded by `TwoPlayers`: with them both badges may start, or a shot of a
game that was left may be heeded, and the code has nothing that would make the properties true.

## 5. Disagreements found

Each is a run that ends in a violation and an entry under `findings` in `PROJECT.json`.

1. `G_IRerror` is not cleared when a frame is dropped because the queue is full: the next good
   frame is turned into an `IR_ERROR` packet (`ir_stale_error`).
2. `msg_begin_send` does not reset the position that the relay left in `msg_send_msg`
   (`msg_overrun`).
3. Leaving the screen "you have been hit" or "missed" before the opponent heard the result leaves
   both badges shooting for ever (`firewall_stall`).
4. `NVwrite` does not notice the end of the page (`flash_full`).
5. The index of the blinks of Light Me is not reset by a new attempt (`ctf_light`).

Seen while modelling, without a run of its own:

- The page of a new badge is zeros and not erased (`flash.c:23`), and a comment of `flashInit` says
  "erase page first" (`flash.c:44`), but nothing erases it except a serial command. Until then the
  searches of `NVwrite` and `NVread` run out of the 2 KB block into 3 KB of program memory
  (`flash.c:90`, `flash.c:104`, `flash.c:145-193`): a top score (`badgey_bird.c:188`) may be programmed
  over a constant whose low byte is 0xFF, or read out of one. No property speaks of that memory.
- The redraw on a received message does not pop the menu stack (`menu.c:1099`), so BACK may skip a
  menu later; and once the stack is full its last entry is overwritten, so that
  `getSelectedMenuStack(1)` may name the wrong item (`menu.c:1141`, `settings.c:449`).
- "Num. times Others will resend msg": a receiver relays `count` rounds (`menu.c:1078`), and may
  relay again on an echo.
- An edit in the same pass as a move onto the terminator loses it (`messenger.c:271`, stated by
  `TerminatorKept`); the send then goes on past the array (`messenger.c:131`).
- The errors of a frame are counted in an unsigned char, which wraps (`timer1_int.c:164`).
- The debug level is saved anew in each pass of the console, and so never restored
  (`main.c:483`, `main.c:809`); `ctf_serial_buffer` is not cleared between two attempts
  (`main.c:612`); the index of the bits may leave their table (`main.c:783`).
- The DIGIT pages look at the contact of the button and not at its presses (`CTF.c:1146`): one
  press passes all three. The last blink of Light Me is never compared.
- `initTouch` while a key is held reports its press a second time; `PressOnce` allows it, for the
  bits are cleared in between.

## 6. Plan, and what is not modelled

Done: `IrFifo`, `IrLink`, `MsgRelay`, `Menu`, `Battleships`, `Firewall`, `RecordStore`, `FlashStore`, `PressOnce`,
`Touch`, `Apps` with its parts, and the proofs of section 4. Worth doing next:

1. The serial commands other than the capture-the-flag server, and the debug level.
2. The bit level of a frame, and `IrLink` composed with `MsgRelay` through `IrFifo`.
3. A third badge in earshot of a FIREWALL game, and a second game, which the proofs leave out
   (`TwoPlayers`): their messages carry no mark.

Not modelled: drawing, audio and the arithmetic games, which keep no state that a step of another
actor could disturb and leave `genericMenu` only through items that run a function; Pong's
two-badge branch, which is never entered (`pong.c:211`); the clock and random numbers (register
access); the USB stack, the bootloader and the Forth interpreter (vendor code). Branches, tags, the
2015 badge, PCB tools and vendored packages make up nearly all of the lines in the repository and
are not the program.
