------------------------------- MODULE Trust -------------------------------
(***************************************************************************)
(* The default trust scorer, LinearTrustScore                              *)
(* (presidium/trust/core.py), as operators on a scorer record.             *)
(*                                                                         *)
(* Trust is counted in units of one hundredth: One is the code's 1.0.  The *)
(* clock counts hours.  The code computes with floats at microsecond       *)
(* resolution; rounding is abstracted away.  A scorer's ceiling of None is *)
(* One here: value clamps to 0.0..1.0 first, so the two never differ.      *)
(***************************************************************************)
EXTENDS Integers

CONSTANTS
    One,             \* trust 1.0
    DecayRate,       \* units lost per hour without a positive signal
    SuccessGain,     \* the delta of a SUCCESS event
    FailureCost,     \* minus the delta of a FAILURE event
    ViolationCost,   \* minus the delta of a POLICY_VIOLATION event
    TrustedAt,       \* lowest value of tier TRUSTED
    StandardAt       \* lowest value of tier STANDARD

ASSUME TrustAssumption ==
    /\ One \in Nat \ {0}
    /\ DecayRate \in Nat
    /\ SuccessGain \in Nat /\ FailureCost \in Nat /\ ViolationCost \in Nat
    /\ TrustedAt \in Nat /\ StandardAt \in Nat /\ StandardAt <= TrustedAt

TrustValues == 0 .. One

TrustEvents == {"success", "failure", "policy_violation", "human_override"}

Tiers == {"trusted", "standard", "restricted"}

\* signal is _last_positive_signal; _last_updated is not read by anything
\* and is left out.
Scorers == [stored : TrustValues, ceiling : TrustValues, signal : Nat]

Lower(x, y) == IF x <= y THEN x ELSE y

AtLeastZero(x) == IF x < 0 THEN 0 ELSE x

Clamp(x) == AtLeastZero(Lower(x, One))

TierFor(value) == IF value >= TrustedAt THEN "trusted"
                  ELSE IF value >= StandardAt THEN "standard"
                  ELSE "restricted"

NewScorer(initial, ceiling, now) ==
    [stored |-> Clamp(initial), ceiling |-> ceiling, signal |-> now]

\* The stored value less the decay since the last positive signal.
Decayed(s, now) == AtLeastZero(s.stored - DecayRate * (now - s.signal))

\* What a reader of the scorer sees, computed on every read.
Value(s, now) == Lower(Decayed(s, now), s.ceiling)

Delta(event) == CASE event = "success"          -> SuccessGain
                  [] event = "failure"          -> -FailureCost
                  [] event = "policy_violation" -> -ViolationCost
                  [] OTHER                      -> 0

\* Faulty variant: every event restarts the decay clock but the decay so far
\* is not written into the stored value.
RecordEventUnmaterialized(s, event, now) ==
    [stored |-> Clamp(s.stored + Delta(event)), ceiling |-> s.ceiling, signal |-> now]

\* Decay is written into the stored value, then the delta is applied.  Only a
\* SUCCESS restarts the decay clock.
RecordEvent(s, event, now) ==
    [stored  |-> Clamp(Decayed(s, now) + Delta(event)),
     ceiling |-> s.ceiling,
     signal  |-> IF event = "success" THEN now ELSE s.signal]

\* A human override stores the value as it is given; the ceiling applies on
\* the read path only.
SetValue(s, value, now) ==
    [stored |-> Clamp(value), ceiling |-> s.ceiling, signal |-> now]
=============================================================================
