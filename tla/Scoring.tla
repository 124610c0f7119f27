------------------------------ MODULE Scoring ------------------------------
(***************************************************************************)
(* The scoring library (presidium/scoring/functions.py): a score is folded *)
(* from a buffer of timestamped events on every read.  Values are counted  *)
(* and time is kept as in Trust.  Decay is linear, the default; a buffer   *)
(* is filled by a clock that does not go back, so it is in the order that  *)
(* the code's sorts establish.                                             *)
(***************************************************************************)
EXTENDS Trust, Sequences, SequencesExt, FiniteSets

\* An event with the delta its scorer gave it when it was recorded.
Events == [at : Nat, type : TrustEvents, delta : Int, controllable : BOOLEAN]

\* What a score is computed with: the weights and the value before any event.
Configs == [weights : [TrustEvents -> Int], initial : TrustValues]

\* The events a score looks at: the last size of those at most age hours old.
Windows == [size : Nat \ {0}, age : Nat]

\* decay(): nothing is lost in no time, or when the clock went back.
Decay(value, hours) ==
    IF hours <= 0 THEN value ELSE AtLeastZero(value - DecayRate * hours)

\* The events at these positions, in order: SelectSeq for the provers, which
\* have no definition of it.
EventsAt(events, positions) ==
    [k \in 1 .. Cardinality(positions) |->
        events[CHOOSE i \in positions : Cardinality({j \in positions : j <= i}) = k]]

InWindow(events, window, asOf) ==
    LET fresh == EventsAt(events, {i \in DOMAIN events : events[i].at >= asOf - window.age})
    IN  SubSeq(fresh, 1 + AtLeastZero(Len(fresh) - window.size), Len(fresh))

OnlyControllable(events, filter) ==
    EventsAt(events, {i \in DOMAIN events : filter => events[i].controllable})

\* Faulty variant: the weight of the event's type as it is by now.
DeltaByWeight(e, config) == config.weights[e.type]

\* Both scorers write the delta into the event, and it prevails over the
\* weight of the event's type.
DeltaOf(e, config) == e.delta

Score(events, config, asOf) ==
    LET start     == [value |-> config.initial,
                      at    |-> IF events = <<>> THEN asOf ELSE Head(events).at]
        Add(s, e) == [value |-> Clamp(Decay(s.value, e.at - s.at) + DeltaOf(e, config)),
                      at    |-> e.at]
        last      == FoldLeft(Add, start, events)
    IN  Clamp(Decay(last.value, asOf - last.at))

\* A window that has no event in it scores as if there had never been one.
WindowedScore(events, config, window, asOf, filter) ==
    LET scored == OnlyControllable(InWindow(events, window, asOf), filter)
    IN  IF scored = <<>> THEN config.initial ELSE Score(scored, config, asOf)

\* Faulty variant: events after the time in question count.
ReplayWithHindsight(events, config, window, asOf, filter) ==
    WindowedScore(events, config, window, asOf, filter)

\* The score as it was at an earlier time.
Replay(events, config, window, asOf, filter) ==
    WindowedScore(EventsAt(events, {i \in DOMAIN events : events[i].at <= asOf}),
                  config, window, asOf, filter)
=============================================================================
