----------------------------- MODULE TouchProofs -----------------------------
(***************************************************************************)
(* Proofs about Touch, for all pads' readings, thresholds, quiet periods   *)
(* and chains of polls: the driver implements PressOnce, and a bouncing    *)
(* contact is one press.                                                   *)
(***************************************************************************)
EXTENDS Touch, TLAPS

-----------------------------------------------------------------------------
(* The inductive invariant.                                                *)

\* A key has a time exactly while its bit is set.
StampInv ==
  /\ touchState \in {"INIT", "SAMPLE"}
  /\ sampleButtonStatus \subseteq Keys
  /\ buttonTimestamp \in [Keys -> {0} \cup Stamps]
  /\ \A k \in Keys : k \in sampleButtonStatus <=> buttonTimestamp[k] # 0
  /\ lastHandledTimestamp \in [Keys -> {0} \cup Stamps]

\* At most one pass of the driver falls into a poll: until then the key is
\* down, and while it is down the time compared is still its time.
PollInv ==
  /\ main \in [at : 1..Len(Polls), pc : {"test", "compare", "assign"},
               seen : {0} \cup Stamps, scanned : BOOLEAN]
  /\ main.pc # "test" /\ ~main.scanned => Key \in sampleButtonStatus
  /\ main.pc = "test" => ~main.scanned
  /\ main.pc = "assign" /\ Key \in sampleButtonStatus => main.seen = buttonTimestamp[Key]

\* While the button is not down, a quiet period is over since it was.
RestInv ==
  /\ G_buttonDebounce \in Nat /\ quietTicks \in Nat
  /\ rested \in BOOLEAN
  /\ G_buttonDebounce # 0 =>
       /\ G_buttonDebounce \in 2..DEBOUNCE
       /\ quietTicks = G_buttonDebounce - 2
  /\ G_buttonDebounce = 0 => rested
  /\ "BUTTON" \notin sampleButtonStatus => rested

IInv == StampInv /\ PollInv /\ RestInv

-----------------------------------------------------------------------------
(* Operators.                                                              *)

\* The smaller of two numbers.
LEMMA MinOfTwo ==
  ASSUME NEW a \in Int, NEW b \in Int
  PROVE  Min({a, b}) = IF a < b THEN a ELSE b
<1>1. \E x \in {a, b} : \A y \in {a, b} : x <= y
  BY SMT
<1>2. /\ Min({a, b}) \in {a, b}
      /\ \A y \in {a, b} : Min({a, b}) <= y
  BY <1>1 DEF Min
<1> QED BY <1>2, SMT

\* The key polled is a key.
LEMMA KeyType == PollInv => Key \in Keys
  BY TouchAssumption DEF PollInv, Key

\* A key is stamped exactly when it is down; the stamp of one that stays down
\* is kept, and that of one that goes down is not the one remembered.
LEMMA StampIs ==
  ASSUME StampInv, NEW down \in SUBSET Keys, NEW k \in Keys
  PROVE  /\ Stamp(k, down) \in {0} \cup Stamps
         /\ Stamp(k, down) # 0 <=> k \in down
         /\ k \in down /\ k \in sampleButtonStatus => Stamp(k, down) = buttonTimestamp[k]
         /\ k \in down /\ k \notin sampleButtonStatus => Stamp(k, down) # lastHandledTimestamp[k]
<1>1. lastHandledTimestamp[k] \in {0, 1, 2}
  BY DEF StampInv, Stamps
<1>2. \E t \in {1, 2} : t # lastHandledTimestamp[k]
  BY <1>1
<1>3. Stamps = {1, 2}
  BY DEF Stamps
<1>4. Now(k) \in Stamps /\ Now(k) # lastHandledTimestamp[k]
  BY <1>2, <1>3 DEF Now
<1>5. /\ buttonTimestamp[k] \in {0} \cup Stamps
      /\ k \in sampleButtonStatus <=> buttonTimestamp[k] # 0
  BY DEF StampInv
<1>6. Now(k) # 0
  BY <1>3, <1>4
<1>7. CASE k \notin down
  <2>1. Stamp(k, down) = 0
    BY <1>7 DEF Stamp
  <2> QED BY <1>7, <2>1
<1>8. CASE k \in down /\ buttonTimestamp[k] = 0
  <2>1. Stamp(k, down) = Now(k)
    BY <1>5, <1>8 DEF Stamp
  <2> QED BY <1>4, <1>5, <1>6, <1>8, <2>1
<1>9. CASE k \in down /\ buttonTimestamp[k] # 0
  <2>1. Stamp(k, down) = buttonTimestamp[k]
    BY <1>9 DEF Stamp
  <2> QED BY <1>5, <1>9, <2>1
<1> QED BY <1>7, <1>8, <1>9

\* What is down are keys.
LEMMA DownType == \A v, button : Down(v, button) \in SUBSET Keys
  BY DEF Down, Keys

\* A tick keeps the count of the quiet ticks in step with the debounce, and
\* when the debounce is over so is the quiet period.
LEMMA TickInv ==
  ASSUME RestInv, NEW contact \in BOOLEAN, Tick(contact)
  PROVE  /\ G_buttonDebounce' \in Nat /\ quietTicks' \in Nat
         /\ G_buttonDebounce' # 0 => /\ G_buttonDebounce' \in 2..DEBOUNCE
                                     /\ quietTicks' = G_buttonDebounce' - 2
         /\ G_buttonDebounce' = 0 => Rested
         /\ Rested \in BOOLEAN
         /\ rested => Rested
<1>1. DEBOUNCE \in Nat /\ DEBOUNCE >= 2
  BY TouchAssumption
<1>2. Min({quietTicks + 1, DEBOUNCE - 1}) =
        IF quietTicks + 1 < DEBOUNCE - 1 THEN quietTicks + 1 ELSE DEBOUNCE - 1
  BY <1>1, MinOfTwo DEF RestInv
<1>3. CASE contact
  <2>1. G_buttonDebounce' = 2 /\ quietTicks' = 0
    BY <1>1, <1>3 DEF Tick, Debounced
  <2> QED BY <1>1, <2>1 DEF Rested, RestInv
<1>4. CASE ~contact
  <2>1. quietTicks' = IF quietTicks + 1 < DEBOUNCE - 1 THEN quietTicks + 1 ELSE DEBOUNCE - 1
    BY <1>2, <1>4 DEF Tick
  <2>2. G_buttonDebounce' = IF G_buttonDebounce = 0 \/ G_buttonDebounce + 1 > DEBOUNCE
                            THEN 0 ELSE G_buttonDebounce + 1
    BY <1>4 DEF Tick, Debounced
  <2> QED BY <1>1, <2>1, <2>2 DEF Rested, RestInv
<1> QED BY <1>3, <1>4

-----------------------------------------------------------------------------
(* The invariant is inductive.                                             *)

\* A badge that is switched on.
LEMMA InitInv == Init => IInv
<1> SUFFICES ASSUME Init PROVE IInv
  OBVIOUS
<1>1. StampInv
  BY DEF Init, StampInv, Stamps
<1>2. main = Idle(1) /\ 1 \in 1..Len(Polls)
  BY TouchAssumption DEF Init
<1>3. PollInv
  BY <1>2 DEF PollInv, Idle
<1>4. RestInv
  BY DEF Init, RestInv
<1> QED BY <1>1, <1>3, <1>4 DEF IInv

\* A pass of the driver: the bits and the times agree, and a poll sees at
\* most one pass.
LEMMA ComputeInv == IInv /\ Timer3Compute => IInv'
<1> SUFFICES ASSUME IInv, Timer3Compute PROVE IInv'
  OBVIOUS
<1> USE DEF IInv
<1>1. PICK contact \in BOOLEAN, v \in Readings :
        /\ Tick(contact)
        /\ sampleButtonStatus' = Down(v, G_button(Debounced(contact)))
        /\ buttonTimestamp' = [k \in Keys |-> Stamp(k, Down(v, G_button(Debounced(contact))))]
        /\ rested' = IF "BUTTON" \in Down(v, G_button(Debounced(contact))) \ sampleButtonStatus
                     THEN FALSE ELSE Rested
  BY DEF Timer3Compute
<1>2. /\ touchState' = touchState /\ lastHandledTimestamp' = lastHandledTimestamp
      /\ ~main.scanned
      /\ main' = [main EXCEPT !.scanned = main.pc # "test"]
  BY DEF Timer3Compute
<1> DEFINE down == Down(v, G_button(Debounced(contact)))
<1>3. down \in SUBSET Keys
  BY DownType
<1>4. StampInv'
  <2>1. \A k \in Keys : Stamp(k, down) \in {0} \cup Stamps /\ (Stamp(k, down) # 0 <=> k \in down)
    BY <1>3, StampIs
  <2> HIDE DEF down
  <2> QED BY <1>1, <1>2, <1>3, <2>1 DEF StampInv, down
<1>5. PollInv'
  <2>1. /\ main' \in [at : 1..Len(Polls), pc : {"test", "compare", "assign"},
                      seen : {0} \cup Stamps, scanned : BOOLEAN]
        /\ main'.at = main.at /\ main'.pc = main.pc /\ main'.seen = main.seen
        /\ main'.scanned = (main.pc # "test")
    BY <1>2 DEF PollInv
  <2>2. Key' = Key /\ Key \in Keys
    BY <2>1, KeyType DEF Key
  <2>3. ASSUME main.pc = "assign", Key \in down PROVE main.seen = Stamp(Key, down)
    <3>1. Key \in sampleButtonStatus /\ main.seen = buttonTimestamp[Key]
      BY <1>2, <2>3 DEF PollInv
    <3> QED BY <1>3, <2>2, <2>3, <3>1, StampIs
  <2>4. main'.pc = "assign" /\ Key' \in sampleButtonStatus' => main'.seen = buttonTimestamp'[Key']
    <3> HIDE DEF down
    <3> QED BY <1>1, <2>1, <2>2, <2>3 DEF down
  <2> QED BY <2>1, <2>4 DEF PollInv
<1>6. RestInv'
  <2>1. /\ G_buttonDebounce' \in Nat /\ quietTicks' \in Nat
        /\ G_buttonDebounce' # 0 => /\ G_buttonDebounce' \in 2..DEBOUNCE
                                    /\ quietTicks' = G_buttonDebounce' - 2
        /\ G_buttonDebounce' = 0 => Rested
        /\ Rested \in BOOLEAN /\ (rested => Rested)
    BY <1>1, TickInv
  <2>2. "BUTTON" \in down <=> G_buttonDebounce' # 0
    BY <1>1 DEF Tick, Down, G_button, Pads, Horizontal, Vertical
  <2>3. "BUTTON" \notin sampleButtonStatus' => rested'
    BY <1>1, <2>1, <2>2
  <2>4. G_buttonDebounce' = 0 => rested'
    BY <1>1, <2>1, <2>2
  <2>5. rested' \in BOOLEAN
    BY <1>1, <2>1
  <2> QED BY <2>1, <2>3, <2>4, <2>5 DEF RestInv
<1> QED BY <1>4, <1>5, <1>6

\* Every step.
LEMMA NextInv == IInv /\ [Next]_vars => IInv'
<1> SUFFICES ASSUME IInv, [Next]_vars PROVE IInv'
  OBVIOUS
<1> USE DEF IInv
<1>1. CASE Timer3Init
  <2>1. /\ sampleButtonStatus' = {} /\ buttonTimestamp' = [k \in Keys |-> 0]
        /\ touchState' = "SAMPLE" /\ lastHandledTimestamp' = lastHandledTimestamp
        /\ ~main.scanned /\ main' = [main EXCEPT !.scanned = main.pc # "test"]
        /\ rested' = TRUE
    BY <1>1 DEF Timer3Init
  <2>2. StampInv'
    BY <2>1 DEF StampInv
  <2>3. PollInv'
    BY <2>1 DEF PollInv, Key
  <2>4. PICK contact \in BOOLEAN : Tick(contact)
    BY <1>1 DEF Timer3Init
  <2>5. RestInv'
    <3>1. /\ G_buttonDebounce' \in Nat /\ quietTicks' \in Nat
          /\ G_buttonDebounce' # 0 => /\ G_buttonDebounce' \in 2..DEBOUNCE
                                      /\ quietTicks' = G_buttonDebounce' - 2
      BY <2>4, TickInv
    <3> QED BY <2>1, <3>1 DEF RestInv
  <2> QED BY <2>2, <2>3, <2>5
<1>2. CASE Timer3Sample
  <2>1. UNCHANGED <<touchState, sampleButtonStatus, buttonTimestamp, lastHandledTimestamp, main>>
    BY <1>2 DEF Timer3Sample
  <2>2. PICK contact \in BOOLEAN : Tick(contact)
    BY <1>2 DEF Timer3Sample
  <2>3. rested' = Rested
    BY <1>2 DEF Timer3Sample
  <2>4. /\ G_buttonDebounce' \in Nat /\ quietTicks' \in Nat
        /\ G_buttonDebounce' # 0 => /\ G_buttonDebounce' \in 2..DEBOUNCE
                                    /\ quietTicks' = G_buttonDebounce' - 2
        /\ G_buttonDebounce' = 0 => Rested
        /\ Rested \in BOOLEAN /\ (rested => Rested)
    BY <2>2, TickInv
  <2>5. RestInv'
    BY <2>1, <2>3, <2>4 DEF RestInv
  <2> QED BY <2>1, <2>5 DEF StampInv, PollInv, Key
<1>3. CASE Timer3Compute
  BY <1>3, ComputeInv
<1>4. ASSUME NEW pressed \in BOOLEAN, Answer(pressed)
      PROVE  /\ main'.pc = "test" /\ ~main'.scanned
             /\ main' \in [at : 1..Len(Polls), pc : {"test", "compare", "assign"},
                           seen : {0} \cup Stamps, scanned : BOOLEAN]
  <2>1. Len(Polls) \in Nat /\ 1 \in 1..Len(Polls) /\ main.at \in 1..Len(Polls)
    BY TouchAssumption DEF PollInv
  <2> QED BY <1>4, <2>1 DEF Answer, Idle
<1>5. CASE PollTest
  <2>1. UNCHANGED <<touchState, sampleButtonStatus, buttonTimestamp, lastHandledTimestamp,
                    G_buttonDebounce, quietTicks, rested>>
    BY <1>5 DEF PollTest, driverVars, history
  <2>2. StampInv' /\ RestInv'
    BY <2>1 DEF StampInv, RestInv
  <2>3. CASE Key \in sampleButtonStatus
    <3>1. main' = [main EXCEPT !.pc = "compare"]
      BY <1>5, <2>3 DEF PollTest
    <3> QED BY <2>1, <2>2, <2>3, <3>1 DEF PollInv, Key
  <2>4. CASE Answer(FALSE)
    <3>1. PollInv'
      BY <1>4, <2>4 DEF PollInv
    <3> QED BY <2>2, <3>1
  <2> QED BY <1>5, <2>3, <2>4 DEF PollTest
<1>6. CASE PollCompare
  <2>1. UNCHANGED <<touchState, sampleButtonStatus, buttonTimestamp, lastHandledTimestamp,
                    G_buttonDebounce, quietTicks, rested>>
    BY <1>6 DEF PollCompare, driverVars, history
  <2>2. StampInv' /\ RestInv'
    BY <2>1 DEF StampInv, RestInv
  <2>3. CASE main' = [main EXCEPT !.pc = "assign", !.seen = buttonTimestamp[Key]]
    <3>1. Key \in Keys
      BY KeyType
    <3>2. buttonTimestamp[Key] \in {0} \cup Stamps
      BY <3>1 DEF StampInv
    <3>3. PollInv'
      BY <1>6, <2>1, <2>3, <3>2 DEF PollInv, PollCompare, Key
    <3> QED BY <2>2, <3>3
  <2>4. CASE Answer(FALSE)
    <3>1. PollInv'
      BY <1>4, <2>4 DEF PollInv
    <3> QED BY <2>2, <3>1
  <2> QED BY <1>6, <2>3, <2>4 DEF PollCompare
<1>7. CASE PollAssign
  <2>1. UNCHANGED <<touchState, sampleButtonStatus, buttonTimestamp,
                    G_buttonDebounce, quietTicks, rested>>
    BY <1>7 DEF PollAssign, driverVars, history
  <2>2. PICK stamp \in {main.seen, buttonTimestamp[Key]} : Assign(stamp) /\ Answer(stamp # 0)
    BY <1>7 DEF PollAssign
  <2>3. stamp \in {0} \cup Stamps
    BY KeyType DEF StampInv, PollInv
  <2>4. StampInv'
    BY <2>1, <2>2, <2>3 DEF StampInv, Assign
  <2>5. PollInv'
    BY <1>4, <2>2 DEF PollInv
  <2> QED BY <2>1, <2>4, <2>5 DEF RestInv
<1>8. CASE initTouch
  BY <1>8 DEF initTouch, history, StampInv, PollInv, RestInv, Key
<1>9. CASE UNCHANGED vars
  BY <1>9 DEF vars, driverVars, history, StampInv, PollInv, RestInv, Key
<1> QED BY <1>1, <1>2, <1>3, <1>5, <1>6, <1>7, <1>8, <1>9 DEF Next, Timer3, Poll

\* The invariant holds in every reachable state.
THEOREM TouchInvariant == Spec => []IInv
<1>1. Init => IInv
  BY InitInv
<1>2. IInv /\ [Next]_vars => IInv'
  BY NextInv
<1> QED BY <1>1, <1>2, PTL DEF Spec

-----------------------------------------------------------------------------
(* A contact that bounces is one press.                                    *)

\* The button's bit is set again only after a quiet period (BouncesOnce).
THEOREM BounceIsOnePress == Spec => BouncesOnce
<1>1. IInv /\ [Next]_vars
        => [("BUTTON" \in sampleButtonStatus' \ sampleButtonStatus) => rested]_vars
  BY DEF IInv, RestInv
<1> QED BY <1>1, TouchInvariant, PTL DEF Spec, BouncesOnce

-----------------------------------------------------------------------------
(* A slide that is reported was made.                                      *)

\* When the shared start lies on an axis that slides, it is where the touch of
\* this axis began, and the shared time is no longer than this touch.
SlideInv ==
  /\ sliding \subseteq Axes /\ touchAge \in 0..(SLIDE_PASSES + 1)
  /\ slideStart \in Pads \cup {NoKey}
  /\ ownTouch \in [Axes -> [from : Pads \cup {NoKey}, passes : Nat]]
  /\ \A a \in Axes : a \in sliding /\ slideStart \in a =>
       ownTouch[a].from = slideStart /\ touchAge <= ownTouch[a].passes
  /\ SlideIsTrue

\* A pad belongs to one axis.
LEMMA AxesDisjoint ==
  /\ Axes = {Horizontal, Vertical} /\ Horizontal # Vertical
  /\ \A p \in Horizontal : p \notin Vertical /\ p \in Pads
  /\ \A p \in Vertical : p \notin Horizontal /\ p \in Pads
BY DEF Axes, Horizontal, Vertical, Pads

\* The slides are told apart by where they begin.
LEMMA SlideFromInjective == \A p, q \in Pads : SlideFrom(p) = SlideFrom(q) => p = q
BY DEF SlideFrom, Pads, Horizontal, Vertical

\* A touch begins at a pad of its axis.
LEMMA StartOnType ==
  ASSUME NEW v, NEW a \in Begins(v)
  PROVE  StartOn(v, a) \in a /\ a \in Axes /\ a \notin sliding
BY DEF StartOn, Begins

\* The shared start, by the axes on which a touch begins.
LEMMA SlideStartIs ==
  ASSUME NEW v, NEW a \in Axes, SlideStart(v) \in a, NoKey \notin Pads
  PROVE  /\ a \in Begins(v) => SlideStart(v) = StartOn(v, a)
         /\ a \notin Begins(v) => SlideStart(v) = slideStart
<1>1. Begins(v) \subseteq Axes
  BY DEF Begins
<1>2. CASE Vertical \in Begins(v)
  <2>1. SlideStart(v) = StartOn(v, Vertical) /\ SlideStart(v) \in Vertical
    BY <1>2, StartOnType, AxesDisjoint DEF SlideStart
  <2>2. a = Vertical
    BY <2>1, AxesDisjoint
  <2> QED BY <1>2, <2>1, <2>2
<1>3. CASE Begins(v) = {Horizontal}
  <2>1. SlideStart(v) = StartOn(v, Horizontal) /\ SlideStart(v) \in Horizontal
    BY <1>3, StartOnType, AxesDisjoint DEF SlideStart
  <2>2. a = Horizontal
    BY <2>1, AxesDisjoint
  <2> QED BY <1>3, <2>1, <2>2
<1>4. CASE Vertical \notin Begins(v) /\ Begins(v) # {Horizontal}
  <2>1. Begins(v) = {}
    BY <1>1, <1>4, AxesDisjoint
  <2>2. SlideStart(v) = slideStart
    BY <1>4 DEF SlideStart
  <2> QED BY <2>1, <2>2
<1> QED BY <1>2, <1>3, <1>4

\* The shared time starts again with each touch that begins.
LEMMA TouchAgeIs ==
  ASSUME SlideInv, NEW v
  PROVE  /\ TouchAge(v) \in 0..(SLIDE_PASSES + 1)
         /\ Begins(v) # {} => TouchAge(v) = 0
         /\ Begins(v) = {} => TouchAge(v) =
              IF touchAge + 1 < SLIDE_PASSES + 1 THEN touchAge + 1 ELSE SLIDE_PASSES + 1
<1>1. SLIDE_PASSES \in Nat /\ touchAge \in 0..(SLIDE_PASSES + 1)
  BY TouchAssumption DEF SlideInv
<1>2. Min({touchAge + 1, SLIDE_PASSES + 1}) =
        IF touchAge + 1 < SLIDE_PASSES + 1 THEN touchAge + 1 ELSE SLIDE_PASSES + 1
  BY <1>1, MinOfTwo
<1> QED BY <1>1, <1>2 DEF TouchAge

\* So does the time of each axis.
LEMMA OwnTouchIs ==
  ASSUME SlideInv, NEW v
  PROVE  /\ OwnTouch(v) \in [Axes -> [from : Pads \cup {NoKey}, passes : Nat]]
         /\ \A a \in Begins(v) : OwnTouch(v)[a].from = StartOn(v, a) /\ OwnTouch(v)[a].passes = 0
         /\ \A a \in sliding \ Begins(v) :
              /\ OwnTouch(v)[a].from = ownTouch[a].from
              /\ OwnTouch(v)[a].passes = IF ownTouch[a].passes + 1 < SLIDE_PASSES + 1
                                         THEN ownTouch[a].passes + 1 ELSE SLIDE_PASSES + 1
<1>1. SLIDE_PASSES \in Nat
  BY TouchAssumption
<1>2. \A a \in Axes :
        LET t == [ownTouch[a] EXCEPT !.passes = Min({@ + 1, SLIDE_PASSES + 1})]
        IN  /\ t \in [from : Pads \cup {NoKey}, passes : Nat]
            /\ t.from = ownTouch[a].from
            /\ t.passes = IF ownTouch[a].passes + 1 < SLIDE_PASSES + 1
                          THEN ownTouch[a].passes + 1 ELSE SLIDE_PASSES + 1
  <2> SUFFICES ASSUME NEW a \in Axes
               PROVE  LET t == [ownTouch[a] EXCEPT !.passes = Min({@ + 1, SLIDE_PASSES + 1})]
                      IN  /\ t \in [from : Pads \cup {NoKey}, passes : Nat]
                          /\ t.from = ownTouch[a].from
                          /\ t.passes = IF ownTouch[a].passes + 1 < SLIDE_PASSES + 1
                                        THEN ownTouch[a].passes + 1 ELSE SLIDE_PASSES + 1
    OBVIOUS
  <2>1. ownTouch[a] \in [from : Pads \cup {NoKey}, passes : Nat]
    BY DEF SlideInv
  <2>2. Min({ownTouch[a].passes + 1, SLIDE_PASSES + 1}) =
          IF ownTouch[a].passes + 1 < SLIDE_PASSES + 1
          THEN ownTouch[a].passes + 1 ELSE SLIDE_PASSES + 1
    BY <1>1, <2>1, MinOfTwo
  <2> QED BY <1>1, <2>1, <2>2
<1>3. \A a \in Begins(v) : a \in Axes /\ StartOn(v, a) \in Pads
  BY StartOnType, AxesDisjoint
<1>4. sliding \subseteq Axes
  BY DEF SlideInv
<1> QED BY <1>2, <1>3, <1>4 DEF OwnTouch

\* The invariant of the slides is inductive.
LEMMA SlideStep == SlideInv /\ [Next]_vars => SlideInv'
<1> SUFFICES ASSUME SlideInv, [Next]_vars PROVE SlideInv'
  OBVIOUS
<1>0. NoKey \notin Pads /\ SLIDE_PASSES \in Nat
  BY TouchAssumption DEF Keys
<1>1. ASSUME UNCHANGED <<sliding, slideStart, touchAge, ownTouch, slid>> PROVE SlideInv'
  BY <1>1 DEF SlideInv, SlideIsTrue
<1>2. CASE Timer3Compute
  <2>1. PICK v \in Readings :
          /\ sliding' = (sliding \cup Begins(v)) \ Ends(v)
          /\ slideStart' = IF sliding' = {} THEN NoKey ELSE SlideStart(v)
          /\ touchAge' = IF sliding' = {} THEN 0 ELSE TouchAge(v)
          /\ ownTouch' = OwnTouch(v)
          /\ slid' = Slid(v)
    BY <1>2 DEF Timer3Compute
  <2>2. sliding' \subseteq Axes /\ touchAge' \in 0..(SLIDE_PASSES + 1)
    BY <1>0, <2>1, StartOnType, TouchAgeIs DEF SlideInv
  <2>6. slideStart' \in Pads \cup {NoKey}
    <3>1. Vertical \in Begins(v) => StartOn(v, Vertical) \in Pads
      BY StartOnType, AxesDisjoint
    <3>2. Begins(v) = {Horizontal} => StartOn(v, Horizontal) \in Pads
      BY StartOnType, AxesDisjoint
    <3> QED BY <2>1, <3>1, <3>2 DEF SlideStart, SlideInv
  <2>3. ownTouch' \in [Axes -> [from : Pads \cup {NoKey}, passes : Nat]]
    BY <2>1, OwnTouchIs
  <2>4. ASSUME NEW a \in Axes, a \in sliding', slideStart' \in a
        PROVE  ownTouch'[a].from = slideStart' /\ touchAge' <= ownTouch'[a].passes
    <3>1. slideStart' = SlideStart(v) /\ touchAge' = TouchAge(v) /\ SlideStart(v) \in a
      BY <2>1, <2>4
    <3>2. CASE a \in Begins(v)
      <4>1. SlideStart(v) = StartOn(v, a)
        BY <1>0, <3>1, <3>2, SlideStartIs
      <4> QED BY <2>1, <3>1, <3>2, <4>1, OwnTouchIs, TouchAgeIs
    <3>3. CASE a \notin Begins(v)
      <4>1. a \in sliding /\ SlideStart(v) = slideStart
        BY <1>0, <2>1, <2>4, <3>1, <3>3, SlideStartIs
      <4>2. /\ ownTouch[a].from = slideStart /\ touchAge <= ownTouch[a].passes
            /\ ownTouch[a].passes \in Nat /\ touchAge \in Nat
        BY <3>1, <4>1 DEF SlideInv
      <4>3. TouchAge(v) = 0 \/ TouchAge(v) =
              IF touchAge + 1 < SLIDE_PASSES + 1 THEN touchAge + 1 ELSE SLIDE_PASSES + 1
        BY TouchAgeIs
      <4>4. /\ OwnTouch(v)[a].from = ownTouch[a].from
            /\ OwnTouch(v)[a].passes = IF ownTouch[a].passes + 1 < SLIDE_PASSES + 1
                                       THEN ownTouch[a].passes + 1 ELSE SLIDE_PASSES + 1
        BY <3>3, <4>1, OwnTouchIs
      <4> QED BY <1>0, <2>1, <3>1, <4>1, <4>2, <4>3, <4>4
    <3> QED BY <3>2, <3>3
  <2>5. ASSUME NEW a \in Axes, NEW p \in a, SlideFrom(p) \in slid'
        PROVE  ownTouch'[a].from = p /\ ownTouch'[a].passes > SLIDE_PASSES
    <3>1. PICK q \in UNION Ends(v) : /\ SlideFrom(p) = SlideFrom(q)
                                     /\ SlideStart(v) = q /\ TouchAge(v) > SLIDE_PASSES
      BY <2>1, <2>5 DEF Slid
    <3>2. PICK b \in sliding : q \in b /\ b \in Axes
      BY DEF Ends, SlideInv
    <3>3. p = q /\ b = a
      BY <3>1, <3>2, SlideFromInjective, AxesDisjoint
    <3>4. Begins(v) = {}
      BY <1>0, <3>1, TouchAgeIs
    <3>5. SlideStart(v) = slideStart /\ slideStart = p /\ a \in sliding
      BY <1>0, <3>1, <3>2, <3>3, <3>4, SlideStartIs
    <3>6. /\ ownTouch[a].from = p /\ touchAge <= ownTouch[a].passes
          /\ ownTouch[a].passes \in Nat /\ touchAge \in Nat
      BY <3>5 DEF SlideInv
    <3>7. touchAge + 1 > SLIDE_PASSES
      BY <1>0, <3>1, <3>4, <3>6, TouchAgeIs
    <3>8. /\ OwnTouch(v)[a].from = ownTouch[a].from
          /\ OwnTouch(v)[a].passes = IF ownTouch[a].passes + 1 < SLIDE_PASSES + 1
                                     THEN ownTouch[a].passes + 1 ELSE SLIDE_PASSES + 1
      BY <3>4, <3>5, OwnTouchIs
    <3> QED BY <1>0, <2>1, <3>6, <3>7, <3>8
  <2> QED BY <2>2, <2>3, <2>4, <2>5, <2>6 DEF SlideInv, SlideIsTrue
<1>3. CASE Timer3Sample
  <2>1. slid' = {} /\ UNCHANGED <<sliding, slideStart, touchAge, ownTouch>>
    BY <1>3 DEF Timer3Sample
  <2> QED BY <2>1 DEF SlideInv, SlideIsTrue
<1>4. CASE Timer3Init
  BY <1>1, <1>4 DEF Timer3Init
<1>5. CASE Poll
  <2>1. UNCHANGED <<driverVars, history>>
    BY <1>5 DEF Poll, PollTest, PollCompare, PollAssign
  <2> QED BY <1>1, <2>1 DEF driverVars, history
<1>6. CASE initTouch
  BY <1>1, <1>6 DEF initTouch, history
<1>7. CASE UNCHANGED vars
  BY <1>1, <1>7 DEF vars, driverVars, history
<1> QED BY <1>2, <1>3, <1>4, <1>5, <1>6, <1>7 DEF Next, Timer3

\* The slides' invariant holds in every reachable state.
LEMMA SlideInvariant == Spec => []SlideInv
<1>1. Init => SlideInv
  BY TouchAssumption DEF Init, SlideInv, SlideIsTrue
<1>2. SlideInv /\ [Next]_vars => SlideInv'
  BY SlideStep
<1> QED BY <1>1, <1>2, PTL DEF Spec

\* Two fingers never make a slide that neither made (SlideIsTrue).
THEOREM SlidesAreTrue == Spec => []SlideIsTrue
<1>1. SlideInv => SlideIsTrue
  BY DEF SlideInv
<1> QED BY <1>1, SlideInvariant, PTL

\* Every variable keeps its range, and a key has a time exactly while it is down.
THEOREM TouchTypeCorrect == Spec => []TypeOK
<1>1. IInv /\ SlideInv => TypeOK
  <2> SUFFICES ASSUME IInv, SlideInv PROVE TypeOK
    OBVIOUS
  <2>1. DEBOUNCE \in Nat
    BY TouchAssumption
  <2>2. G_buttonDebounce \in 0..DEBOUNCE
    BY <2>1 DEF IInv, RestInv
  <2> QED BY <2>2 DEF IInv, StampInv, PollInv, SlideInv, TypeOK
<1> QED BY <1>1, TouchInvariant, SlideInvariant, PTL

-----------------------------------------------------------------------------
(* The driver implements PressOnce.                                        *)

\* At first nothing is down.
LEMMA PressInit == Init => Press!Init
BY DEF Init, Idle, Press!Init, Unseen, Claimed, Lasting

\* What the pads and the button do in a pass is a Scan.
LEMMA DriverScans ==
  ASSUME IInv, NEW down \in SUBSET Keys, ~main.scanned,
         sampleButtonStatus' = down,
         buttonTimestamp' \in [Keys -> {0} \cup Stamps],
         \A k \in Keys :
           /\ buttonTimestamp'[k] # 0 <=> k \in down
           /\ k \in down /\ k \in sampleButtonStatus => buttonTimestamp'[k] = buttonTimestamp[k]
           /\ k \in down /\ k \notin sampleButtonStatus
                => buttonTimestamp'[k] # lastHandledTimestamp[k],
         main' = [main EXCEPT !.scanned = main.pc # "test"],
         UNCHANGED <<lastHandledTimestamp, answer>>
  PROVE  Press!Scan(down)
<1> USE DEF IInv
<1>1. /\ main'.at = main.at /\ main'.pc = main.pc /\ main'.seen = main.seen
      /\ Key' = Key /\ Key \in Keys /\ NoKey \notin Keys
  BY KeyType, TouchAssumption DEF PollInv, Key
<1>2. main.pc = "assign" => Key \in sampleButtonStatus /\ main.seen = buttonTimestamp[Key]
  BY DEF PollInv
<1>3. \A k \in down : k \in Unseen' <=> (k \in Unseen \/ k \notin sampleButtonStatus)
  <2> SUFFICES ASSUME NEW k \in down
               PROVE k \in Unseen' <=> (k \in Unseen \/ k \notin sampleButtonStatus)
    OBVIOUS
  <2>1. k \in Unseen' <=> /\ buttonTimestamp'[k] # lastHandledTimestamp[k]
                          /\ ~(main.pc = "assign" /\ Key = k)
    BY <1>1 DEF Unseen
  <2>2. CASE k \in sampleButtonStatus
    BY <2>1, <2>2 DEF Unseen
  <2>3. CASE k \notin sampleButtonStatus
    BY <1>2, <2>1, <2>3
  <2> QED BY <2>2, <2>3
<1>4. Unseen' = {k \in down : k \in Unseen \/ k \notin sampleButtonStatus}
  BY <1>3 DEF Unseen
<1>5. Claimed' = Claimed
  BY <1>1 DEF Claimed
<1>6. Lasting' = (Lasting /\ Claimed \in down)
  <2>1. CASE main.pc = "assign" /\ main.seen # 0
    <3>1. Claimed = Key /\ Lasting
      BY <1>2, <2>1 DEF Claimed, Lasting
    <3>2. Lasting' <=> buttonTimestamp'[Key] = main.seen
      BY <1>1, <2>1 DEF Lasting
    <3>3. buttonTimestamp'[Key] = main.seen <=> Key \in down
      BY <1>1, <1>2, <2>1
    <3>4. Lasting' \in BOOLEAN /\ Lasting \in BOOLEAN
      BY DEF Lasting
    <3> QED BY <3>1, <3>2, <3>3, <3>4
  <2>2. CASE ~(main.pc = "assign" /\ main.seen # 0)
    BY <1>1, <2>2 DEF Lasting
  <2> QED BY <2>1, <2>2
<1> QED BY <1>4, <1>5, <1>6 DEF Press!Scan

\* Every step of the driver and of a poll is a step of PressOnce or none.
LEMMA PressStep == IInv /\ [Next]_vars => [Press!Next]_(Press!pressVars)
<1> SUFFICES ASSUME IInv, [Next]_vars PROVE Press!Next \/ UNCHANGED Press!pressVars
  OBVIOUS
<1> USE DEF IInv
<1>0. Key \in Keys /\ NoKey \notin Keys
  BY KeyType, TouchAssumption
<1>1. ASSUME UNCHANGED <<sampleButtonStatus, buttonTimestamp, lastHandledTimestamp, main, answer>>
      PROVE  UNCHANGED Press!pressVars
  BY <1>1 DEF Press!pressVars, Unseen, Claimed, Lasting, Key
<1>2. CASE Timer3Init
  <2>1. /\ {} \in SUBSET Keys /\ ~main.scanned /\ sampleButtonStatus' = {}
        /\ buttonTimestamp' = [k \in Keys |-> 0]
        /\ main' = [main EXCEPT !.scanned = main.pc # "test"]
        /\ UNCHANGED <<lastHandledTimestamp, answer>>
    BY <1>2 DEF Timer3Init
  <2>2. Press!Scan({})
    BY <2>1, DriverScans
  <2> QED BY <2>1, <2>2 DEF Press!Next
<1>3. CASE Timer3Compute
  <2>1. PICK contact \in BOOLEAN, v \in Readings :
          /\ sampleButtonStatus' = Down(v, G_button(Debounced(contact)))
          /\ buttonTimestamp' = [k \in Keys |-> Stamp(k, Down(v, G_button(Debounced(contact))))]
    BY <1>3 DEF Timer3Compute
  <2> DEFINE down == Down(v, G_button(Debounced(contact)))
  <2>2. down \in SUBSET Keys
    BY DownType
  <2>3. \A k \in Keys :
          /\ Stamp(k, down) \in {0} \cup Stamps
          /\ Stamp(k, down) # 0 <=> k \in down
          /\ k \in down /\ k \in sampleButtonStatus => Stamp(k, down) = buttonTimestamp[k]
          /\ k \in down /\ k \notin sampleButtonStatus => Stamp(k, down) # lastHandledTimestamp[k]
    BY <2>2, StampIs
  <2>4. /\ ~main.scanned /\ main' = [main EXCEPT !.scanned = main.pc # "test"]
        /\ UNCHANGED <<lastHandledTimestamp, answer>>
    BY <1>3 DEF Timer3Compute
  <2>5. Press!Scan(down)
    <3> HIDE DEF down
    <3>1. sampleButtonStatus' = down /\ buttonTimestamp' = [k \in Keys |-> Stamp(k, down)]
      BY <2>1 DEF down
    <3>2. buttonTimestamp' \in [Keys -> {0} \cup Stamps]
      BY <2>3, <3>1
    <3> QED BY <2>2, <2>3, <2>4, <3>1, <3>2, DriverScans
  <2> QED BY <2>2, <2>5 DEF Press!Next
<1>4. CASE Timer3Sample
  BY <1>1, <1>4 DEF Timer3Sample
<1>5. CASE initTouch
  BY <1>1, <1>5 DEF initTouch
<1>6. CASE UNCHANGED vars
  BY <1>1, <1>6 DEF vars, driverVars
<1>7. ASSUME UNCHANGED driverVars PROVE UNCHANGED <<sampleButtonStatus, buttonTimestamp>>
  BY <1>7 DEF driverVars
<1>8. ASSUME main.pc # "assign", UNCHANGED <<sampleButtonStatus, buttonTimestamp, lastHandledTimestamp>>,
             Answer(FALSE), Key \notin Unseen
      PROVE  Press!Deny(Key)
  <2>1. main'.pc = "test" /\ answer' = <<Key, FALSE>>
    BY <1>8 DEF Answer, Idle
  <2>2. Unseen' = Unseen /\ Claimed = NoKey /\ Claimed' = NoKey
    BY <1>8, <2>1 DEF Unseen, Claimed
  <2>3. Lasting = FALSE /\ Lasting' = FALSE
    BY <1>8, <2>1 DEF Lasting
  <2> QED BY <1>8, <2>1, <2>2, <2>3 DEF Press!Deny
<1>9. CASE PollTest
  <2>1. UNCHANGED <<sampleButtonStatus, buttonTimestamp, lastHandledTimestamp>> /\ main.pc = "test"
    BY <1>7, <1>9 DEF PollTest
  <2>2. CASE Key \in sampleButtonStatus
    <3>1. main' = [main EXCEPT !.pc = "compare"] /\ answer' = answer
      BY <1>9, <2>2 DEF PollTest
    <3>2. main'.pc = "compare"
      BY <3>1 DEF PollInv
    <3> QED BY <2>1, <3>1, <3>2 DEF Press!pressVars, Unseen, Claimed, Lasting
  <2>3. CASE Key \notin sampleButtonStatus
    <3>1. Answer(FALSE) /\ Key \notin Unseen
      BY <1>9, <2>3 DEF PollTest, Unseen
    <3> QED BY <1>0, <1>8, <2>1, <3>1 DEF Press!Next
  <2> QED BY <2>2, <2>3
<1>10. CASE PollCompare
  <2>1. UNCHANGED <<sampleButtonStatus, buttonTimestamp, lastHandledTimestamp>> /\ main.pc = "compare"
    BY <1>7, <1>10 DEF PollCompare
  <2>2. CASE buttonTimestamp[Key] # lastHandledTimestamp[Key]
    <3>1. main' = [main EXCEPT !.pc = "assign", !.seen = buttonTimestamp[Key]] /\ answer' = answer
      BY <1>10, <2>2 DEF PollCompare
    <3>2. main'.pc = "assign" /\ main'.seen = buttonTimestamp[Key] /\ Key' = Key
      BY <3>1 DEF PollInv, Key
    <3>3. Claimed = NoKey /\ Lasting = FALSE
      BY <2>1 DEF Claimed, Lasting
    <3>4. \A k : k \in Unseen' <=> k \in Unseen /\ k # Key
      BY <2>1, <3>2 DEF Unseen
    <3>5. CASE Key \in sampleButtonStatus
      <4>1. buttonTimestamp[Key] # 0
        BY <1>0, <3>5 DEF StampInv
      <4>2. Key \in Unseen
        BY <2>1, <2>2, <3>5 DEF Unseen
      <4>3. Claimed' = Key /\ Lasting' = TRUE
        BY <2>1, <3>2, <4>1 DEF Claimed, Lasting
      <4>4. Unseen' = Unseen \ {Key}
        BY <3>4
      <4>5. Press!Claim(Key)
        BY <2>1, <3>1, <3>3, <4>2, <4>3, <4>4 DEF Press!Claim
      <4> QED BY <1>0, <4>5 DEF Press!Next
    <3>6. CASE Key \notin sampleButtonStatus
      <4>1. buttonTimestamp[Key] = 0
        BY <1>0, <3>6 DEF StampInv
      <4>2. Claimed' = NoKey /\ Lasting' = FALSE
        BY <3>2, <4>1 DEF Claimed, Lasting
      <4>3. Unseen' = Unseen
        BY <3>4, <3>6 DEF Unseen
      <4> QED BY <2>1, <3>1, <3>3, <4>2, <4>3 DEF Press!pressVars
    <3> QED BY <3>5, <3>6
  <2>3. CASE buttonTimestamp[Key] = lastHandledTimestamp[Key]
    <3>1. Answer(FALSE) /\ Key \notin Unseen
      BY <1>10, <2>3 DEF PollCompare, Unseen
    <3> QED BY <1>0, <1>8, <2>1, <3>1 DEF Press!Next
  <2> QED BY <2>2, <2>3
<1>11. CASE PollAssign
  <2>1. UNCHANGED <<sampleButtonStatus, buttonTimestamp>> /\ main.pc = "assign"
    BY <1>7, <1>11 DEF PollAssign
  <2>0. PICK stamp \in {main.seen, buttonTimestamp[Key]} : Assign(stamp) /\ Answer(stamp # 0)
    BY <1>11 DEF PollAssign
  <2>2. /\ lastHandledTimestamp' = [lastHandledTimestamp EXCEPT ![Key] = stamp]
        /\ answer' = <<Key, stamp # 0>> /\ main'.pc = "test"
    BY <2>0 DEF Assign, Answer, Idle
  <2>3. Claimed' = NoKey /\ Lasting' = FALSE
    BY <2>2 DEF Claimed, Lasting
  <2>4. \A k \in sampleButtonStatus :
          (k \in Unseen' <=> buttonTimestamp[k] # lastHandledTimestamp'[k])
    BY <2>1, <2>2 DEF Unseen
  <2>5. Key \in sampleButtonStatus => buttonTimestamp[Key] = stamp
    BY <2>1, <2>2 DEF PollInv
  <2>6. \A k \in sampleButtonStatus : k \in Unseen' <=> k \in Unseen
    <3> SUFFICES ASSUME NEW k \in sampleButtonStatus PROVE k \in Unseen' <=> k \in Unseen
      OBVIOUS
    <3>1. k \in Keys /\ Key \in Keys
      BY <1>0 DEF StampInv
    <3>2. CASE k = Key
      <4>1. lastHandledTimestamp'[k] = stamp
        BY <2>2, <3>1, <3>2 DEF StampInv
      <4> QED BY <2>1, <2>4, <2>5, <3>2, <4>1 DEF Unseen
    <3>3. CASE k # Key
      <4>1. lastHandledTimestamp'[k] = lastHandledTimestamp[k]
        BY <2>2, <3>1, <3>3 DEF StampInv
      <4> QED BY <2>4, <3>3, <4>1 DEF Unseen
    <3> QED BY <3>2, <3>3
  <2>7. Unseen' = Unseen
    BY <2>1, <2>6 DEF Unseen
  <2>8. CASE main.seen # 0
    <3>1. Claimed = Key /\ Claimed # NoKey
      BY <1>0, <2>1, <2>8 DEF Claimed
    <3>2. Lasting => stamp # 0
      BY <2>2, <2>8 DEF Lasting
    <3>3. Press!Report
      BY <2>1, <2>2, <2>3, <2>7, <3>1, <3>2 DEF Press!Report
    <3> QED BY <3>3 DEF Press!Next
  <2>9. CASE main.seen = 0
    <3>1. Key \notin sampleButtonStatus
      BY <1>0, <2>1, <2>9 DEF PollInv, StampInv
    <3>2. stamp = 0
      BY <1>0, <2>2, <2>9, <3>1 DEF StampInv
    <3>3. Claimed = NoKey /\ Lasting = FALSE /\ Key \notin Unseen
      BY <2>9, <3>1 DEF Claimed, Lasting, Unseen
    <3>4. answer' = <<Key, FALSE>>
      BY <2>2, <3>2
    <3>5. Press!Deny(Key)
      BY <2>1, <2>3, <2>7, <3>3, <3>4 DEF Press!Deny
    <3> QED BY <1>0, <3>5 DEF Press!Next
  <2> QED BY <2>8, <2>9 DEF PollInv
<1> QED BY <1>2, <1>3, <1>4, <1>5, <1>6, <1>9, <1>10, <1>11 DEF Next, Timer3, Poll

\* A press is reported at most once, and is passed over only if it was let go
\* during the poll (PressIsReportedOnce).
THEOREM PressOnceImplemented == Spec => PressIsReportedOnce
<1>1. Init => Press!Init
  BY PressInit
<1>2. IInv /\ [Next]_vars => [Press!Next]_(Press!pressVars)
  BY PressStep
<1> QED BY <1>1, <1>2, TouchInvariant, PTL DEF Spec, PressIsReportedOnce, Press!Spec
=============================================================================
