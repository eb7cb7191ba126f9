-------------------------------- MODULE Touch --------------------------------
(***************************************************************************)
(* The touch pads and the push button of the badge (touchCTMU.c).  The     *)
(* Timer3 handler runs touchInterrupt: it debounces the button in every    *)
(* tick, and every few hundred ticks, when all four pads were measured,    *)
(* works out which keys are down, when each went down and which slides     *)
(* were made.  The main loop polls keys with the ..._AND_CONSUME macros    *)
(* while that goes on: nothing is locked.                                  *)
(*                                                                         *)
(* Atomicity.  Timer3 has a higher priority than the main loop, so a tick  *)
(* is one action.  A poll is three reads of shared variables, each an      *)
(* action: the bit, the two times compared, the time remembered, which the *)
(* compiler reads again or keeps in a register.                            *)
(*                                                                         *)
(* Abstraction.  The ticks of a measurement (AtoD, averages, calibration)  *)
(* only pass the time; readings are arbitrary.  A time is a name that      *)
(* differs from the times it is compared with, since the counter wraps     *)
(* around after 2^32 ticks.  The length of a slide is counted in passes of *)
(* TOUCH_COMPUTE_BUTTONS; a slide that is made is an event here, its bit   *)
(* and time are polled like those of a key.  The escape callback is never  *)
(* set.                                                                    *)
(***************************************************************************)
EXTENDS Integers, Sequences, FiniteSets, FiniteSetsExt

CONSTANTS
  Readings,       \* what the pads may read: a set of functions from Pads
  tripValue,      \* a pad that reads less is touched
  MARGIN,         \* ... and by this much less than the opposite pad (4000)
  DEBOUNCE,       \* quiet period of the button, in ticks (8)
  SLIDE_PASSES,   \* a touch must last longer to be a slide (1100 ticks)
  Polls,          \* the keys the main loop polls in a pass, in order
  NoKey

Horizontal == {"LEFT_SLIDER", "RIGHT_SLIDER"}
Vertical == {"TOP_SLIDER", "BOTTOM_SLIDER"}
Pads == Horizontal \cup Vertical
Axes == {Horizontal, Vertical}
Keys == Pads \cup {"BUTTON"}
Opposite(p) == CASE p = "LEFT_SLIDER" -> "RIGHT_SLIDER" [] p = "RIGHT_SLIDER" -> "LEFT_SLIDER"
                 [] p = "TOP_SLIDER" -> "BOTTOM_SLIDER" [] p = "BOTTOM_SLIDER" -> "TOP_SLIDER"
\* The slide that a touch which began at p makes.
SlideFrom(p) == CASE p = "LEFT_SLIDER" -> "SLIDE_RIGHT" [] p = "RIGHT_SLIDER" -> "SLIDE_LEFT"
                  [] p = "TOP_SLIDER" -> "SLIDE_DOWN" [] p = "BOTTOM_SLIDER" -> "SLIDE_UP"
Slides == {SlideFrom(p) : p \in Pads}

ASSUME TouchAssumption ==
  /\ Readings \subseteq [Pads -> Nat] /\ tripValue \in Nat /\ MARGIN \in Nat
  /\ DEBOUNCE \in Nat \ {0, 1} /\ SLIDE_PASSES \in Nat
  /\ Polls \in Seq(Keys) /\ Polls # <<>>
  /\ NoKey \notin Keys

Stamps == 1..2      \* names of times; 0 is "not down"

VARIABLES
  touchState,             \* "INIT" or "SAMPLE", which stands for all the others
  G_buttonDebounce,
  sampleButtonStatus,     \* the keys whose bit is set
  buttonTimestamp,
  sliding,                \* isHorizontalSliding, isVerticalSliding: the axes
  slideStart,             \* (NoKey while nothing slides: it is not looked at then)
  touchAge,               \* passes since startTouch (0 while nothing slides)
  lastHandledTimestamp,
  main,                   \* the poll under way, see Idle
  \* History, for the properties only:
  answer,                 \* the last answer: <<key, was it pressed>>
  ownTouch,               \* of each axis: where its touch began, passes since
  slid,                   \* slides recognised in the last pass
  quietTicks, rested      \* ticks since the contact was closed; whether a quiet
                          \* period was over since the button's bit was last set

driverVars == <<touchState, G_buttonDebounce, sampleButtonStatus, buttonTimestamp,
                sliding, slideStart, touchAge>>
history == <<ownTouch, slid, quietTicks, rested>>
vars == <<driverVars, lastHandledTimestamp, main, answer, history>>

\* Before the poll of Polls[at].  `seen` is the time that was compared,
\* `scanned` that a pass of the driver fell into this poll.
Idle(at) == [at |-> at, pc |-> "test", seen |-> 0, scanned |-> FALSE]

Init ==
  /\ touchState = "INIT"
  /\ G_buttonDebounce = 0
  /\ sampleButtonStatus = {}
  /\ buttonTimestamp = [k \in Keys |-> 0]
  /\ sliding = {} /\ slideStart = NoKey /\ touchAge = 0
  /\ lastHandledTimestamp = [k \in Keys |-> 0]
  /\ main = Idle(1)
  /\ answer = <<NoKey, FALSE>>
  /\ ownTouch = [a \in Axes |-> [from |-> NoKey, passes |-> 0]]
  /\ slid = {} /\ quietTicks = 0 /\ rested = TRUE

(***************************************************************************)
(* Every tick: the debounce of the button, whose contact is active low.    *)
(***************************************************************************)
G_button(debounce) == debounce # 0

\* The contact that bounces off once is taken for let go.
DebouncedNever(contact) == IF contact THEN 2 ELSE 0

Debounced(contact) ==
  LET running == IF contact THEN 1 ELSE G_buttonDebounce IN
  IF running = 0 \/ running + 1 > DEBOUNCE THEN 0 ELSE running + 1

Tick(contact) ==
  /\ G_buttonDebounce' = Debounced(contact)
  /\ quietTicks' = IF contact THEN 0 ELSE Min({quietTicks + 1, DEBOUNCE - 1})

(***************************************************************************)
(* The states of touchInterrupt.                                           *)
(***************************************************************************)
Rested == rested \/ quietTicks' = DEBOUNCE - 1

Timer3Init ==
  /\ touchState = "INIT" /\ ~main.scanned
  /\ \E contact \in BOOLEAN : Tick(contact)
  /\ sampleButtonStatus' = {}
  /\ buttonTimestamp' = [k \in Keys |-> 0]
  /\ touchState' = "SAMPLE"
  /\ main' = [main EXCEPT !.scanned = main.pc # "test"]
  /\ rested' = TRUE
  /\ UNCHANGED <<sliding, slideStart, touchAge, lastHandledTimestamp, answer, ownTouch, slid>>

Timer3Sample ==
  /\ touchState = "SAMPLE"
  /\ \E contact \in BOOLEAN : Tick(contact)
  /\ slid' = {} /\ rested' = Rested
  /\ UNCHANGED <<touchState, sampleButtonStatus, buttonTimestamp, sliding, slideStart, touchAge,
                 lastHandledTimestamp, main, answer, ownTouch>>

\* A finger between two pads touches both.
TouchedAlone(v, p) == v[p] < tripValue

Touched(v, p) == v[p] < tripValue /\ v[p] + MARGIN < v[Opposite(p)]
Down(v, button) == {p \in Pads : Touched(v, p)} \cup (IF button THEN {"BUTTON"} ELSE {})

\* The axes on which a touch begins; the vertical one is looked at last.
Begins(v) == {a \in Axes : a \notin sliding /\ \E p \in a : Touched(v, p)}
StartOn(v, a) == CHOOSE p \in a : Touched(v, p)
SlideStart(v) ==
  CASE Vertical \in Begins(v) -> StartOn(v, Vertical)
    [] Begins(v) = {Horizontal} -> StartOn(v, Horizontal)
    [] OTHER -> slideStart
\* A second touch that begins does not restart the time they share.
TouchAgeOfFirst(v) == IF Begins(v) # {} /\ sliding = {} THEN 0
                      ELSE Min({touchAge + 1, SLIDE_PASSES + 1})
TouchAge(v) == IF Begins(v) # {} THEN 0 ELSE Min({touchAge + 1, SLIDE_PASSES + 1})

Ends(v) == {a \in sliding : \A p \in a : v[p] >= tripValue}
\* The slide, if any, that ends in this pass.
Slid(v) == {SlideFrom(p) : p \in {q \in UNION Ends(v) :
                                    SlideStart(v) = q /\ TouchAge(v) > SLIDE_PASSES}}

\* A time later than the one that the polls remember.
Now(k) == CHOOSE t \in Stamps : t # lastHandledTimestamp[k]

\* A key let go keeps the time when it was pressed.
StampKept(k, down) == IF buttonTimestamp[k] = 0 /\ k \in down THEN Now(k) ELSE buttonTimestamp[k]

Stamp(k, down) ==
  IF k \notin down THEN 0
  ELSE IF buttonTimestamp[k] = 0 /\ k \notin sampleButtonStatus THEN Now(k)
  ELSE buttonTimestamp[k]

\* Where each axis's own touch began and how long it has lasted.
OwnTouch(v) ==
  [a \in Axes |-> IF a \in Begins(v) THEN [from |-> StartOn(v, a), passes |-> 0]
                  ELSE IF a \in sliding
                  THEN [ownTouch[a] EXCEPT !.passes = Min({@ + 1, SLIDE_PASSES + 1})]
                  ELSE [from |-> NoKey, passes |-> 0]]

Timer3Compute ==
  /\ touchState = "SAMPLE" /\ ~main.scanned
  /\ \E contact \in BOOLEAN, v \in Readings :
       LET down == Down(v, G_button(Debounced(contact))) IN
       /\ Tick(contact)
       /\ sampleButtonStatus' = down
       /\ buttonTimestamp' = [k \in Keys |-> Stamp(k, down)]
       /\ sliding' = (sliding \cup Begins(v)) \ Ends(v)
       /\ slideStart' = IF sliding' = {} THEN NoKey ELSE SlideStart(v)
       /\ touchAge' = IF sliding' = {} THEN 0 ELSE TouchAge(v)
       /\ ownTouch' = OwnTouch(v)
       /\ slid' = Slid(v)
       /\ rested' = IF "BUTTON" \in down \ sampleButtonStatus THEN FALSE ELSE Rested
  /\ main' = [main EXCEPT !.scanned = main.pc # "test"]
  /\ UNCHANGED <<touchState, lastHandledTimestamp, answer>>

Timer3 == Timer3Init \/ Timer3Sample \/ Timer3Compute

(***************************************************************************)
(* BUTTON_PRESSED_AND_CONSUME, IsTap...() and IsSlide...(): a chain of     *)
(* polls, each tried only if the one before answered "no".                 *)
(* A poll takes a few instructions: at most one pass of the driver, or one *)
(* initialisation, falls into it (`scanned`).                              *)
(***************************************************************************)
Key == Polls[main.at]

Answer(pressed) ==
  /\ answer' = <<Key, pressed>>
  /\ main' = Idle(IF pressed \/ main.at = Len(Polls) THEN 1 ELSE main.at + 1)

PollTest ==
  /\ main.pc = "test"
  /\ IF Key \in sampleButtonStatus
     THEN main' = [main EXCEPT !.pc = "compare"] /\ UNCHANGED answer
     ELSE Answer(FALSE)
  /\ UNCHANGED <<driverVars, lastHandledTimestamp, history>>

PollCompare ==
  /\ main.pc = "compare"
  /\ IF buttonTimestamp[Key] # lastHandledTimestamp[Key]
     THEN main' = [main EXCEPT !.pc = "assign", !.seen = buttonTimestamp[Key]] /\ UNCHANGED answer
     ELSE Answer(FALSE)
  /\ UNCHANGED <<driverVars, lastHandledTimestamp, history>>

\* A press that is not remembered as handled.
AssignUnremembered(stamp) == UNCHANGED lastHandledTimestamp

Assign(stamp) == lastHandledTimestamp' = [lastHandledTimestamp EXCEPT ![Key] = stamp]

PollAssign ==
  /\ main.pc = "assign"
  /\ \E stamp \in {main.seen, buttonTimestamp[Key]} :
       /\ Assign(stamp)
       /\ Answer(stamp # 0)
  /\ UNCHANGED <<driverVars, history>>

\* A serial command calls initTouch between two passes of menus().
initTouch ==
  /\ main = Idle(1)
  /\ touchState' = "INIT"
  /\ UNCHANGED <<G_buttonDebounce, sampleButtonStatus, buttonTimestamp, sliding, slideStart,
                 touchAge, lastHandledTimestamp, main, answer, history>>

Poll == PollTest \/ PollCompare \/ PollAssign

Next == Timer3 \/ Poll \/ initTouch

Spec == Init /\ [][Next]_vars
FairSpec == Spec /\ WF_vars(Poll)

(***************************************************************************)
(* Properties.                                                             *)
(***************************************************************************)
\* Every variable keeps its range; a key has a time exactly while its bit is set.
TypeOK ==
  /\ touchState \in {"INIT", "SAMPLE"}
  /\ G_buttonDebounce \in 0..DEBOUNCE
  /\ sampleButtonStatus \subseteq Keys
  /\ buttonTimestamp \in [Keys -> {0} \cup Stamps]
  /\ \A k \in Keys : k \in sampleButtonStatus <=> buttonTimestamp[k] # 0
  /\ sliding \subseteq Axes
  /\ slideStart \in Pads \cup {NoKey}
  /\ touchAge \in 0..(SLIDE_PASSES + 1)
  /\ lastHandledTimestamp \in [Keys -> {0} \cup Stamps]
  /\ main \in [at : 1..Len(Polls), pc : {"test", "compare", "assign"},
               seen : {0} \cup Stamps, scanned : BOOLEAN]

\* slideStart and startTouch are shared by the two axes: a slide reported must
\* still be one that its own axis made, from where it began and long enough.
SlideIsTrue ==
  \A a \in Axes : \A p \in a :
    SlideFrom(p) \in slid => ownTouch[a].from = p /\ ownTouch[a].passes > SLIDE_PASSES

\* A press that is polled while the handler clears or sets it is reported at
\* most once, and is passed over only if it was let go during the poll.
Unseen == {k \in sampleButtonStatus : /\ buttonTimestamp[k] # lastHandledTimestamp[k]
                                      /\ ~(main.pc = "assign" /\ Key = k)}
Claimed == IF main.pc = "assign" /\ main.seen # 0 THEN Key ELSE NoKey
Lasting == main.pc = "assign" /\ main.seen # 0 /\ buttonTimestamp[Key] = main.seen
Press == INSTANCE PressOnce WITH
           held <- sampleButtonStatus, unseen <- Unseen, claimed <- Claimed, lasting <- Lasting
PressIsReportedOnce == Press!Spec

\* The button's bit is not set a second time before the contact was open for
\* a whole quiet period, unless the driver was initialised: a contact that
\* bounces is one press, whenever the passes of the driver look at it.
BouncesOnce ==
  [][("BUTTON" \in sampleButtonStatus' \ sampleButtonStatus) => rested]_vars

\* A key that stays down is reported in the end, unless a key polled before it
\* is pressed again and again.  The other half of its slider cannot be: why the
\* chain of else in menus(), of which its author was "not convinced", loses no tap.
Before(k) == {Polls[m] : m \in {n \in 1..Len(Polls) : \A l \in 1..n : Polls[l] # k}}
HeldIsReported ==
  \A n \in 1..Len(Polls) :
    LET k == Polls[n] IN
    <>[](k \in sampleButtonStatus /\ \A j \in Before(k) : Press!Pending(j) => k \in Pads /\ j = Opposite(k))
      => <>[]~Press!Pending(k)
=============================================================================
