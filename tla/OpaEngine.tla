----------------------------- MODULE OpaEngine -----------------------------
(***************************************************************************)
(* OPAPolicyEngine (presidium_contrib/opa/engine.py): the verdict made of  *)
(* what an OPA server answers.  load_policies does nothing: the server's   *)
(* documents change without the program's doing.                           *)
(***************************************************************************)
CONSTANTS
    Documents,      \* what the server may have loaded
    Says(_, _),     \* Says(d, question): its answer, or NoAnswer
    NoAnswer,       \* a result that is missing or empty
    Down            \* the server cannot be reached, or fails

Verdict(decision, mode) == [decision |-> decision, mode |-> mode]

Decisions == {"allow", "deny", "require_approval"}
Modes == {"advisory", "soft", "hard"}

\* Whatever goes wrong with the query, the answer is no.
Closed == Verdict("deny", "hard")

\* A decision that is missing allows, one that is unknown denies; a mode that
\* is missing or unknown is hard.
DecisionOf(answer) ==
    CASE answer.decision = "missing"   -> "allow"
      [] answer.decision \in Decisions -> answer.decision
      [] OTHER                         -> "deny"

ModeOf(answer) == IF answer.mode \in Modes THEN answer.mode ELSE "hard"

\* Faulty variant: a server that cannot be reached has no objection.
OpaVerdictOpen(document, question) ==
    IF document = Down \/ Says(document, question) = NoAnswer
    THEN Verdict("allow", "hard")
    ELSE Verdict(DecisionOf(Says(document, question)), ModeOf(Says(document, question)))

OpaVerdict(document, question) ==
    IF document = Down THEN Closed
    ELSE IF Says(document, question) = NoAnswer THEN Verdict("allow", "hard")
    ELSE Verdict(DecisionOf(Says(document, question)), ModeOf(Says(document, question)))
=============================================================================
