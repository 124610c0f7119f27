---------------------------- MODULE EventScorers ----------------------------
(***************************************************************************)
(* The two scorers that keep their events: WindowedTrustScorer             *)
(* (presidium/trust/windowed.py) and LearningTrustScorer                   *)
(* (presidium_contrib/trust/scorer.py), side by side on the same calls.    *)
(* Both are synchronous: a call is a step.  Their code computes the value  *)
(* twice over; the model keeps the two copies apart.                       *)
(*                                                                         *)
(* A HUMAN_OVERRIDE event without an actor raises before anything changes  *)
(* and is left out, as are the tiers, which follow from the values.        *)
(***************************************************************************)
EXTENDS Scoring, FiniteSets, FiniteSetsExt

CONSTANTS
    ScoreWindow,     \* max_events and max_age_hours of both scorers
    Starts,          \* cold-start strategies: an initial value and min_events
    InitialValues,   \* the values initial_value is given as, when it is given
    BaseWeights,     \* the weights both scorers start with
    Recorded,        \* events recorded: a type, and whether controllable
    Overrides,       \* values the callers of set_value() use
    HandWeights,     \* [type, weight] pairs adjust_weights() is called with
    LearningRate,    \* 1 / learning_rate
    MaxWeightDelta,  \* max_weight_delta
    Cooldown,        \* learn_cooldown_hours
    MaxHours,        \* bound on the clock
    MaxEvents        \* bound on the journal

Weighted == {"success", "failure", "policy_violation"}

ASSUME EventScorersAssumption ==
    /\ ScoreWindow \in Windows
    /\ Starts \subseteq [initial : TrustValues, min : Nat]
    /\ InitialValues \subseteq TrustValues
    /\ BaseWeights \in [TrustEvents -> Int]
    /\ Recorded \subseteq [type : TrustEvents, controllable : BOOLEAN]
    /\ Overrides \subseteq TrustValues
    /\ HandWeights \subseteq [type : Weighted, weight : Int]
    /\ LearningRate \in Nat \ {0} /\ Cooldown \in Nat \ {0}
    /\ MaxWeightDelta \in Nat /\ MaxHours \in Nat /\ MaxEvents \in Nat

Never == -1  \* _last_learn_at = None

VARIABLES
    start,      \* the cold-start strategy both were built with
    filter,     \* controllability_filter of the windowed scorer
    windowed,   \* the windowed scorer: _initial_value, _events, _n_seen
    learning,   \* the learning scorer: the same, and weights, journal, learnt
    now,        \* the clock, in hours
    readings,   \* history: the windowed value at the end of each hour
    byHand      \* history: the weights as they were last set by hand

scorerVars == <<start, filter, windowed, learning, now, readings, byHand>>

DefaultInitial == One \div 2

FreshWindowed(initial) == [initial |-> initial, events |-> <<>>, seen |-> 0]

FreshLearning(initial) == [initial |-> initial, events |-> <<>>, seen |-> 0,
                           weights |-> BaseWeights, journal |-> <<>>, learnt |-> Never]

\* Without an initial_value the windowed scorer asks its cold-start strategy
\* for one.  The learning scorer takes the strategy too, but begins at its own
\* default whatever the strategy says; of the strategy it uses min_events only.
ScorersInit ==
    /\ start \in Starts
    /\ filter \in BOOLEAN
    /\ \/ /\ windowed = FreshWindowed(start.initial)
          /\ learning = FreshLearning(DefaultInitial)
       \/ \E given \in InitialValues :
             /\ windowed = FreshWindowed(given)
             /\ learning = FreshLearning(given)
    /\ now = 0
    /\ readings = {}
    /\ byHand = BaseWeights

(***************************************************************************)
(* Reading                                                                 *)
(***************************************************************************)
\* During warm-up the computed value counts in proportion to the events seen.
\* Floats in the code; the blend is rounded down here.
Warmed(initial, min, seen, computed) ==
    IF seen = 0 THEN Clamp(initial)
    ELSE IF seen < min
    THEN Clamp(((min - seen) * initial + seen * computed) \div min)
    ELSE Clamp(computed)

WindowedValue(s, at) ==
    Warmed(s.initial, start.min, s.seen,
           WindowedScore(s.events, [weights |-> BaseWeights, initial |-> s.initial],
                         ScoreWindow, at, filter))

\* Faulty variant: the events seen are the ones in the window.
LearningValueOfWindow(s, at) ==
    Warmed(s.initial, start.min, Len(InWindow(s.events, ScoreWindow, at)),
           WindowedScore(s.events, [weights |-> s.weights, initial |-> s.initial],
                         ScoreWindow, at, FALSE))

\* The learning scorer never filters.
LearningValue(s, at) ==
    Warmed(s.initial, start.min, s.seen,
           WindowedScore(s.events, [weights |-> s.weights, initial |-> s.initial],
                         ScoreWindow, at, FALSE))

(***************************************************************************)
(* Calls                                                                   *)
(***************************************************************************)
WithEvent(s, weights, type, controllable) ==
    [s EXCEPT !.events = Append(@, [at |-> now, type |-> type, delta |-> weights[type],
                                    controllable |-> controllable]),
              !.seen = @ + 1]

\* The value given is the new beginning: the events so far are forgotten.
Overridden(s, value) == [s EXCEPT !.initial = Clamp(value), !.events = <<>>, !.seen = 0]

Journaled(s, type, before) ==
    [s EXCEPT !.journal = Append(@, [event |-> type, before |-> before,
                                     after |-> LearningValue(s, now)])]

RecordEventInBoth(type, controllable) ==
    /\ Len(learning.journal) < MaxEvents
    /\ windowed' = WithEvent(windowed, BaseWeights, type, controllable)
    /\ learning' = Journaled(WithEvent(learning, learning.weights, type, controllable),
                             type, LearningValue(learning, now))
    /\ UNCHANGED <<start, filter, now, readings, byHand>>

SetValueOfBoth(value) ==
    /\ Len(learning.journal) < MaxEvents
    /\ windowed' = Overridden(windowed, value)
    /\ learning' = Journaled(Overridden(learning, value), "human_override",
                             LearningValue(learning, now))
    /\ readings' = {}
    /\ UNCHANGED <<start, filter, now, byHand>>

AdjustWeights(change) ==
    /\ learning' = [learning EXCEPT !.weights[change.type] = change.weight]
    /\ byHand' = learning'.weights
    /\ UNCHANGED <<start, filter, windowed, now, readings>>

\* The overrides that come right after an event of the type, and how far each
\* moved the value.
Lessons(type) ==
    {i \in 2 .. Len(learning.journal) :
        /\ learning.journal[i].event = "human_override"
        /\ learning.journal[i - 1].event = type}

Direction(i) == learning.journal[i].after - learning.journal[i].before

Capped(change) ==
    IF change > MaxWeightDelta THEN MaxWeightDelta
    ELSE IF change < -MaxWeightDelta THEN -MaxWeightDelta
    ELSE change

\* Faulty variant: each override moves the weight by up to the cap.
ChangePerLesson(type) ==
    MapThenSumSet(LAMBDA i : Capped(Direction(i) \div LearningRate), Lessons(type))

\* The average over all of the journal, however often it was learnt from.
Change(type) ==
    IF Lessons(type) = {} THEN 0
    ELSE Capped(MapThenSumSet(Direction, Lessons(type))
                    \div (LearningRate * Cardinality(Lessons(type))))

LearnFromHistory ==
    /\ learning.learnt # Never => now - learning.learnt >= Cooldown
    /\ learning' = [learning EXCEPT
           !.weights = [type \in TrustEvents |->
                           IF type \in Weighted THEN @[type] + Change(type) ELSE @[type]],
           !.learnt = now]
    /\ UNCHANGED <<start, filter, windowed, now, readings, byHand>>

Tick ==
    /\ now < MaxHours
    /\ now' = now + 1
    /\ readings' = readings \cup {[at |-> now, value |-> WindowedValue(windowed, now)]}
    /\ UNCHANGED <<start, filter, windowed, learning, byHand>>

ScorersNext ==
    \/ \E e \in Recorded : RecordEventInBoth(e.type, e.controllable)
    \/ \E value \in Overrides : SetValueOfBoth(value)
    \/ \E change \in HandWeights : AdjustWeights(change)
    \/ LearnFromHistory
    \/ Tick

ScorersSpec == ScorersInit /\ [][ScorersNext]_scorerVars

(***************************************************************************)
(* Properties                                                              *)
(***************************************************************************)
\* replay() gives back every value the windowed scorer showed at the end of an
\* hour since the last override, whatever was recorded afterwards, when there
\* is no warm-up.
ReplayReproduces ==
    start.min = 0 =>
        \A r \in readings :
            Replay(windowed.events, [weights |-> BaseWeights, initial |-> windowed.initial],
                   ScoreWindow, r.at, filter) = r.value

\* The two copies of the code show the same value, blend of the warm-up
\* included, once they have the same beginning - the same initial_value given,
\* a strategy that says what the learning scorer assumes, or an override since -
\* as long as neither the weights nor the filter tells them apart.
ScorersAgree ==
    /\ windowed.initial = learning.initial
    /\ \A i \in DOMAIN learning.events : LET e == learning.events[i] IN
          e.delta = BaseWeights[e.type] /\ (filter => e.controllable)
    => WindowedValue(windowed, now) = LearningValue(learning, now)

\* Learning moves a weight by at most max_weight_delta per cooldown, however
\* often learn_from_history() is called and however long the journal is.
LearningIsBounded ==
    \A type \in Weighted :
        learning.weights[type] - byHand[type] \in
            LET most == MaxWeightDelta * (1 + now \div Cooldown) IN -most .. most

\* New weights apply to the events to come: neither learning nor a change by
\* hand alters the value shown.
WeightsActForward ==
    [][learning'.weights # learning.weights =>
          LearningValue(learning', now') = LearningValue(learning, now)]_scorerVars
=============================================================================
