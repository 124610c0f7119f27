--------------------------- MODULE MCEventScorers ---------------------------
(***************************************************************************)
(* Instances of EventScorers for TLC.  Trust is in hundredths, with the    *)
(* code's own weights, caps and starting values; the window and the        *)
(* cooldown are a few events and hours.                                    *)
(***************************************************************************)
EXTENDS EventScorers

SmallWindow == [size |-> 2, age |-> 2]

\* NeutralStart and PessimisticStart, which warms up over two events here.
NeutralOrPessimistic == {[initial |-> 50, min |-> 0], [initial |-> 20, min |-> 2]}

\* A value that neither strategy gives.
HighStart == {80}

DefaultWeights == [success |-> 2, failure |-> -5, policy_violation |-> -10, human_override |-> 0]

SuccessOrFailure == {[type |-> "success", controllable |-> TRUE],
                     [type |-> "failure", controllable |-> TRUE],
                     [type |-> "failure", controllable |-> FALSE]}

HighAndLow == {0, 95}

LightFailure == {[type |-> "failure", weight |-> -3]}
=============================================================================
