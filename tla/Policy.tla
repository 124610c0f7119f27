------------------------------- MODULE Policy -------------------------------
(***************************************************************************)
(* CelPolicyEngine (presidium/policy/cel.py) as operators: which rule of a *)
(* loaded policy decides a request, and what the decision is.  A policy is *)
(* the sequence of rules in the order of the file.                         *)
(*                                                                         *)
(* What an expression says of an activation is the constant Truth; an      *)
(* expression that does not compile is one of Broken.  The cache of        *)
(* compiled grant conditions only saves work and is left out.              *)
(***************************************************************************)
EXTENDS Naturals, Sequences

CONSTANTS
    Resources,        \* what a request can name, with its action
    Expressions,      \* CEL expressions of rules and grant conditions
    Broken,           \* those that do not compile
    Truth(_, _),      \* Truth(e, activation): "true", "false" or "error"
    NoResult,         \* EvaluationContext.result = None
    NoCondition,      \* Grant.condition = None
    Never,            \* Grant.expires_at = None
    AllowUnmatched,   \* allow_unmatched_requests
    UnmatchedMode     \* unmatched_enforcement

EvaluationStages == {"pre_tool", "post_tool", "pre_llm", "post_llm", "pre_message"}
Decisions == {"allow", "deny", "require_approval"}
EnforcementModes == {"advisory", "soft", "hard"}

PolicyAssumption ==
    /\ Broken \subseteq Expressions
    /\ NoCondition \notin Expressions
    /\ AllowUnmatched \in BOOLEAN
    /\ UnmatchedMode \in EnforcementModes

ASSUME PolicyAssumption

Rules ==
    [stages     : SUBSET EvaluationStages,
     expression : Expressions,
     decision   : Decisions,
     mode       : EnforcementModes,
     priority   : Nat,
     enabled    : BOOLEAN]

\* What the engine sees of a record: its trust and its grants.
IsAgent(agent) ==
    /\ agent.trusted \in BOOLEAN
    /\ \A g \in agent.grants :
          /\ g.resource \in Resources
          /\ g.condition \in Expressions \cup {NoCondition}
          /\ g.until = Never \/ g.until \in Nat

(***************************************************************************)
(* parse_policy_rules and load_policies                                    *)
(***************************************************************************)
\* A rule read from a configuration file has the default mode, whatever the
\* file says.
Parsed(file) == [i \in DOMAIN file |-> [file[i] EXCEPT !.mode = "hard"]]

Enabled(policy) == {i \in DOMAIN policy : policy[i].enabled}

Compiles(policy) == \A i \in Enabled(policy) : policy[i].expression \notin Broken

\* Faulty variant: the rules before the one that does not compile are in force.
LoadedAsFarAsItCompiles(old, policy) ==
    IF Compiles(policy) THEN policy
    ELSE LET bad   == {i \in Enabled(policy) : policy[i].expression \in Broken}
             first == CHOOSE i \in bad : \A j \in bad : i <= j
         IN  SubSeq(policy, 1, first - 1)

\* The new policy replaces the old one as a whole, or load_policies raises
\* and the old one stays.
Loaded(old, policy) == IF Compiles(policy) THEN policy ELSE old

(***************************************************************************)
(* evaluate                                                                *)
(***************************************************************************)
\* Faulty variant: expiry and condition of a grant are not looked at.
ActiveOrNot(agent, resource, time) == {g.resource : g \in agent.grants}

\* The grants an expression sees: not expired, and their condition true.  A
\* condition that does not compile, or raises, counts as false.
Active(agent, resource, time) ==
    { g.resource : g \in
        { h \in agent.grants :
            /\ h.until = Never \/ time <= h.until
            /\ \/ h.condition = NoCondition
               \/ /\ h.condition \notin Broken
                  /\ Truth(h.condition, [trusted  |-> agent.trusted,
                                         active   |-> {},
                                         resource |-> resource,
                                         result   |-> NoResult]) = "true" } }

Activation(agent, resource, result, time) ==
    [trusted  |-> agent.trusted,
     active   |-> Active(agent, resource, time),
     resource |-> resource,
     result   |-> result]

\* The rules of a stage that do not say "false", and of those the one that is
\* reached first: by priority, then by position in the file.
Hits(policy, stage, activation) ==
    { i \in Enabled(policy) : /\ stage \in policy[i].stages
                              /\ Truth(policy[i].expression, activation) # "false" }

Before(policy, i, j) ==
    \/ policy[i].priority > policy[j].priority
    \/ policy[i].priority = policy[j].priority /\ i <= j

FirstHit(policy, hits) == CHOOSE i \in hits : \A j \in hits : Before(policy, i, j)

Verdict(decision, mode) == [decision |-> decision, mode |-> mode]

\* A rule that raises decides: denied, whatever its own decision and mode.
Evaluate(policy, stage, agent, resource, result, time) ==
    LET activation == Activation(agent, resource, result, time)
        hits       == Hits(policy, stage, activation)
        rule       == policy[FirstHit(policy, hits)]
    IN  IF hits = {}
        THEN IF AllowUnmatched THEN Verdict("allow", "hard")
             ELSE Verdict("deny", UnmatchedMode)
        ELSE IF Truth(rule.expression, activation) = "error"
        THEN Verdict("deny", "hard")
        ELSE Verdict(rule.decision, rule.mode)
=============================================================================
