---------------------------- MODULE Enforcement ----------------------------
(***************************************************************************)
(* Governed calls of one agent: every path on which presidium asks the     *)
(* policy engine before (and after) something is done.                     *)
(*                                                                         *)
(*   "execute"  tool calls and delegations: GovernedToolAdapter,           *)
(*              GatewayToolProvider over GovernedToolProvider              *)
(*   "chat"     model calls: GovernedModelProviderAdapter and              *)
(*              GatewayModelProvider over GovernedModelProvider            *)
(*   "spawn"    governed_spawn_check                                       *)
(*   "http"     /v1/check_grant of PresidiumGatewayAgent                   *)
(*   "message"  GovernedMessageBus.route                                   *)
(*                                                                         *)
(* A call suspends at the registry, the audit sink, the approval service   *)
(* and the backend.  What happens between two suspensions is one action.   *)
(* The registry and the rules may change at every suspension.              *)
(***************************************************************************)
EXTENDS Policy, FiniteSets

CONSTANTS
    Calls,
    KindsOf,      \* KindsOf[c]: the kinds of call c that the runs use
    ResourceOf,   \* ResourceOf[c]: what the call names, with its action
    Results,      \* what a backend may answer
    CallIds,      \* request_id values of approval requests
    IdOf,         \* IdOf[c]: the id of the request the call would make
    ServiceModes, \* modes of the approval service
    MaxClicks,    \* bound on the decisions sent for one id
    Records,      \* what the registry may hold of the agent
    Gone,         \* ... or it is not registered
    FirstRecord, FirstPolicy,
    Files,        \* rules that are loaded later
    MaxTime,      \* bound on the clock
    MaxChanges,   \* bound on the changes of registry, rules and clock
    NoVerdict

Kinds == {"execute", "chat", "spawn", "http", "message"}

ASSUME EnforcementAssumption ==
    /\ KindsOf \in [Calls -> SUBSET Kinds]
    /\ ResourceOf \in [Calls -> Resources]
    /\ NoResult \notin Results
    /\ \A r \in Records : IsAgent(r)
    /\ Gone \notin Records /\ FirstRecord \in Records
    /\ Files \cup {FirstPolicy} \subseteq Seq(Rules)
    /\ Compiles(FirstPolicy)
    /\ MaxTime \in Nat /\ MaxChanges \in Nat
    /\ IdOf \in [Calls -> CallIds]
    /\ ServiceModes \subseteq {"auto_approve", "auto_deny", "callback", "manual", "posted"}
    /\ MaxClicks \in Nat

VARIABLES
    worlds,    \* record, rules and time, oldest first: the last ones are the
               \* present, the others history
    kind,      \* the kind of each call
    call,      \* each call's place and locals
    audit,     \* the events of each call in the audit sink, oldest first
    attached,  \* the providers have an ApprovalService
    mode, stage, future, pending, futures, told, clicks   \* see Approval

approvalVars == <<mode, stage, future, pending, futures, told, clicks>>
vars == <<worlds, kind, call, audit, attached, approvalVars>>

A == INSTANCE Approval WITH
        Requests <- Calls, RequestIds <- CallIds, Modes <- ServiceModes

World == worlds[Len(worlds)]

Ended == {"returned", "withheld", "spawned", "routed", "replied", "denied", "failed"}
Places == {"new", "found", "read", "auditing", "approving", "acting",
           "read_again", "auditing_again"} \cup Ended

PreStage(c) ==
    CASE kind[c] = "chat" -> "pre_llm"
      [] kind[c] = "message" -> "pre_message"
      [] OTHER -> "pre_tool"
PostStage(c) == IF kind[c] = "chat" THEN "post_llm" ELSE "post_tool"

Init ==
    /\ worlds = << [record |-> FirstRecord, policy |-> FirstPolicy, time |-> 0] >>
    /\ kind \in {k \in [Calls -> Kinds] : \A c \in Calls : k[c] \in KindsOf[c]}
    /\ call = [c \in Calls |-> [at |-> "new", record |-> Gone, verdict |-> NoVerdict,
                                result |-> NoResult, since |-> 1]]
    /\ audit = [c \in Calls |-> <<>>]
    /\ attached \in BOOLEAN
    /\ A!Init

Goes(c, place) == call' = [call EXCEPT ![c].at = place]
Hears(c, place, verdict) ==
    call' = [call EXCEPT ![c].at = place, ![c].verdict = verdict]

(***************************************************************************)
(* Before the act                                                          *)
(***************************************************************************)
\* The endpoint looks the agent up by id, and again by name in check_grant.
FindById(c) ==
    /\ kind[c] = "http" /\ call[c].at = "new"
    /\ Goes(c, IF World.record = Gone THEN "denied" ELSE "found")
    /\ UNCHANGED <<worlds, kind, audit, attached, approvalVars>>

\* Faulty variant: a record that was read before is used again.
ReadOnce(c) ==
    /\ call[c].at = IF kind[c] = "http" THEN "found" ELSE "new"
    /\ call' = [call EXCEPT ![c].at = "read", ![c].since = Len(worlds),
                            ![c].record = worlds[1].record]
    /\ UNCHANGED <<worlds, kind, audit, attached, approvalVars>>

\* The registry reads the record; the caller resumes with it later.
Read(c) ==
    /\ call[c].at = IF kind[c] = "http" THEN "found" ELSE "new"
    /\ call' = [call EXCEPT ![c].at = "read", ![c].since = Len(worlds),
                            ![c].record = World.record]
    /\ UNCHANGED <<worlds, kind, audit, attached, approvalVars>>

\* Only an unknown sender of a message is not refused.
MissesRecord(c) ==
    /\ call[c].at = "read" /\ call[c].record = Gone
    /\ Goes(c, IF kind[c] = "message" THEN "routed" ELSE "denied")
    /\ UNCHANGED <<worlds, kind, audit, attached, approvalVars>>

\* Decided on the record as it was read, with the rules and the time of now.
Decided(c, evaluationStage, result) ==
    Evaluate(World.policy, evaluationStage, call[c].record, ResourceOf[c], result, World.time)

\* The bus asks only for the decision.
RouteOrNot(c) ==
    /\ kind[c] = "message" /\ call[c].at = "read" /\ call[c].record # Gone
    /\ LET v == Decided(c, PreStage(c), NoResult)
       IN  Hears(c, IF v.decision = "deny" THEN "denied" ELSE "routed", v)
    /\ UNCHANGED <<worlds, kind, audit, attached, approvalVars>>

EvaluateBefore(c) ==
    /\ kind[c] # "message" /\ call[c].at = "read" /\ call[c].record # Gone
    /\ Hears(c, "auditing", Decided(c, PreStage(c), NoResult))
    /\ UNCHANGED <<worlds, kind, audit, attached, approvalVars>>

\* Faulty variant: what is allowed is not written.
EmitsObjections(c) ==
    audit' = IF call[c].verdict.decision = "allow" THEN audit
             ELSE [audit EXCEPT ![c] =
                     Append(@, [stage |-> PreStage(c), verdict |-> call[c].verdict])]

\* _emit_audit names the stage before the act, also after it.
Emits(c) ==
    audit' = [audit EXCEPT ![c] =
                Append(@, [stage |-> PreStage(c), verdict |-> call[c].verdict])]

Objects(v) == v.mode = "hard" /\ v.decision # "allow"

\* check and check_resource go on at once ...
Passes(c) ==
    /\ kind[c] \in {"execute", "chat"} /\ call[c].at = "auditing"
    /\ ~Objects(call[c].verdict)
    /\ Emits(c)
    /\ Goes(c, "acting")
    /\ UNCHANGED <<worlds, kind, attached, approvalVars>>

\* ... or refuse ...
Refuses(c) ==
    /\ kind[c] \in {"execute", "chat"} /\ call[c].at = "auditing"
    /\ Objects(call[c].verdict)
    /\ call[c].verdict.decision = "deny" \/ ~attached
    /\ Emits(c)
    /\ Goes(c, "denied")
    /\ UNCHANGED <<worlds, kind, attached, approvalVars>>

\* Faulty variant: an approver who does not answer in time has no objection.
AfterSilence(s) ==
    CASE s \in {"approved", "timed_out"} -> "acting"
      [] s = "denied" -> "denied"
      [] s = "raised" -> "failed"
      [] OTHER -> "approving"

AfterApproval(s) ==
    CASE s = "approved" -> "acting"
      [] s \in {"denied", "timed_out"} -> "denied"
      [] s = "raised" -> "failed"
      [] OTHER -> "approving"

FollowsApproval(c) ==
    /\ Goes(c, AfterApproval(stage'[c]))
    /\ UNCHANGED <<worlds, kind, attached>>

\* ... or ask for approval, and go on or refuse when it ends.
Asks(c) ==
    /\ kind[c] \in {"execute", "chat"} /\ call[c].at = "auditing"
    /\ Objects(call[c].verdict) /\ call[c].verdict.decision = "require_approval"
    /\ attached
    /\ Emits(c)
    /\ A!AnswerAtOnce(c) \/ A!AskCallback(c) \/ A!RequestManually(c) \/ A!Post(c)
    /\ FollowsApproval(c)

CallbackOrMessage(c) ==
    /\ A!CallbackEnds(c) \/ A!Deliver(c) \/ A!Cancel(c)
    /\ FollowsApproval(c) /\ UNCHANGED audit

PostEnds(c) ==
    /\ A!PostSucceeds(c) \/ A!PostFails(c)
    /\ FollowsApproval(c) /\ UNCHANGED audit

TimerOrAnswer(c) ==
    /\ A!Expire(c) \/ A!Resume(c)
    /\ FollowsApproval(c) /\ UNCHANGED audit

GivesUp(c) ==
    /\ A!GiveUp(c)
    /\ FollowsApproval(c) /\ UNCHANGED audit

Approver(i, d) ==
    /\ A!Decide(i, d)
    /\ UNCHANGED <<worlds, kind, call, audit, attached>>

\* check_grant asks nobody: the spawn goes on unless the decision objects.
SpawnOrNot(c) ==
    /\ kind[c] = "spawn" /\ call[c].at = "auditing"
    /\ Emits(c)
    /\ Goes(c, IF Objects(call[c].verdict) THEN "denied" ELSE "spawned")
    /\ UNCHANGED <<worlds, kind, attached, approvalVars>>

\* The decision is sent; its mode is not.
Reply(c) ==
    /\ kind[c] = "http" /\ call[c].at = "auditing"
    /\ Emits(c)
    /\ Goes(c, "replied")
    /\ UNCHANGED <<worlds, kind, attached, approvalVars>>

(***************************************************************************)
(* After the act                                                           *)
(***************************************************************************)
\* Faulty variant: the record of the check before the act is used again.
BackendReturnsOnly(c) ==
    /\ call[c].at = "acting"
    /\ \E r \in Results :
          call' = [call EXCEPT ![c].at = "read_again", ![c].since = Len(worlds),
                               ![c].result = r]
    /\ UNCHANGED <<worlds, kind, audit, attached, approvalVars>>

\* The backend answers, and the record is read again.
BackendReturns(c) ==
    /\ call[c].at = "acting"
    /\ \E r \in Results :
          call' = [call EXCEPT ![c].at = "read_again", ![c].since = Len(worlds),
                               ![c].record = World.record, ![c].result = r]
    /\ UNCHANGED <<worlds, kind, audit, attached, approvalVars>>

EvaluateAfter(c) ==
    /\ call[c].at = "read_again"
    /\ IF call[c].record = Gone
       THEN Hears(c, "withheld", NoVerdict)
       ELSE Hears(c, "auditing_again", Decided(c, PostStage(c), call[c].result))
    /\ UNCHANGED <<worlds, kind, audit, attached, approvalVars>>

\* After the act nobody is asked: a hard require_approval, too, lets the result
\* pass (PersonalDataIsReviewed of ToolGateway says what is documented).
ReturnOrNot(c) ==
    /\ call[c].at = "auditing_again"
    /\ Emits(c)
    /\ Goes(c, IF Objects(call[c].verdict) /\ call[c].verdict.decision = "deny"
               THEN "withheld" ELSE "returned")
    /\ UNCHANGED <<worlds, kind, attached, approvalVars>>

\* The registry, the sink or the backend raises, or the task is cancelled.
Raises(c) ==
    /\ call[c].at \in {"found", "read", "auditing", "acting", "read_again", "auditing_again"}
    /\ Goes(c, "failed")
    /\ UNCHANGED <<worlds, kind, audit, attached, approvalVars>>

(***************************************************************************)
(* Meanwhile                                                               *)
(***************************************************************************)
Becomes(world) ==
    /\ Len(worlds) <= MaxChanges
    /\ world # World
    /\ worlds' = Append(worlds, world)
    /\ UNCHANGED <<kind, call, audit, attached, approvalVars>>

\* Calls of the registry: trust and grants change, the agent goes or comes.
RegistryChanges ==
    \E r \in Records \cup {Gone} : Becomes([World EXCEPT !.record = r])

\* GovernedRuntime.reload_policies.
ReloadPolicies ==
    \E f \in Files : Becomes([World EXCEPT !.policy = Loaded(@, Parsed(f))])

\* CelPolicyEngine.load_policies with rules of the embedding program.
LoadPolicies ==
    \E f \in Files : Becomes([World EXCEPT !.policy = Loaded(@, f)])

Tick ==
    /\ World.time < MaxTime
    /\ Becomes([World EXCEPT !.time = @ + 1])

Next ==
    \/ \E c \in Calls :
          \/ FindById(c)
          \/ Read(c)
          \/ MissesRecord(c)
          \/ RouteOrNot(c)
          \/ EvaluateBefore(c)
          \/ Passes(c)
          \/ Refuses(c)
          \/ Asks(c)
          \/ CallbackOrMessage(c)
          \/ PostEnds(c)
          \/ TimerOrAnswer(c)
          \/ GivesUp(c)
          \/ SpawnOrNot(c)
          \/ Reply(c)
          \/ BackendReturns(c)
          \/ EvaluateAfter(c)
          \/ ReturnOrNot(c)
          \/ Raises(c)
    \/ \E i \in CallIds, d \in A!Answers : Approver(i, d)
    \/ RegistryChanges
    \/ ReloadPolicies
    \/ LoadPolicies
    \/ Tick

Spec == Init /\ [][Next]_vars

(***************************************************************************)
(* Invariants                                                              *)
(***************************************************************************)
\* The backend was called.
ActedOn == {"acting", "read_again", "auditing_again", "returned", "withheld"}

Verdicts == [decision : Decisions, mode : EnforcementModes]
Event == [stage : EvaluationStages, verdict : Verdicts]

Worlds == [record : Records \cup {Gone}, policy : Seq(Rules), time : 0..MaxTime]
CallStates ==
    [at      : Places,
     record  : Records \cup {Gone},
     verdict : Verdicts \cup {NoVerdict},
     result  : Results \cup {NoResult},
     since   : Nat]

\* Every variable has its type; no call writes more than two events.
TypeOK ==
    /\ worlds \in Seq(Worlds) /\ worlds # <<>>
    /\ kind \in [Calls -> Kinds]
    /\ call \in [Calls -> CallStates]
    /\ audit \in [Calls -> Seq(Event)]
    /\ \A c \in Calls : call[c].since \in DOMAIN worlds /\ Len(audit[c]) <= 2
    /\ attached \in BOOLEAN
    /\ A!TypeOK

\* What the sink holds tells why each thing was done.  The backend was called
\* after an event that does not object, or that asks for an approval which this
\* call got; a result was returned after a second event that does not deny,
\* though it may ask for an approval that nobody gave; a spawn and a reply have
\* their event.
AuditExplainsActs ==
    \A c \in Calls :
        /\ call[c].at \in ActedOn =>
              /\ audit[c] # <<>>
              /\ LET v == audit[c][1].verdict
                 IN  Objects(v) => v.decision = "require_approval" /\ stage[c] = "approved"
        /\ call[c].at = "returned" =>
              /\ Len(audit[c]) = 2
              /\ LET v == audit[c][2].verdict
                 IN  Objects(v) => v.decision = "require_approval"
        /\ call[c].at = "spawned" => audit[c] # <<>> /\ ~Objects(audit[c][1].verdict)
        /\ call[c].at = "replied" => audit[c] # <<>> /\ audit[c][1].verdict = call[c].verdict

\* Of the calls that a rule made wait for an approver and whose requests share
\* an id, no more come to act than approvals were given.
ActsPerApproval ==
    mode \in {"manual", "posted"} =>
        \A i \in CallIds :
            LET acted == { c \in Calls :
                    /\ IdOf[c] = i
                    /\ stage[c] # "new"
                    /\ call[c].at \in ActedOn }
            IN  Cardinality(acted) <= clicks[i]["approved"]

(***************************************************************************)
(* Action properties                                                       *)
(***************************************************************************)
Enters(c, places) == call[c].at \notin places /\ call'[c].at \in places

\* What the agent and the rules were since the record was read.
Window(c) == call[c].since .. Len(worlds)

Known(i) == worlds[i].record # Gone

VerdictBetween(c, i, j, evaluationStage) ==
    Evaluate(worlds[j].policy, evaluationStage, worlds[i].record, ResourceOf[c],
             call[c].result, worlds[j].time)

\* Nothing is done on an authority that ended before the call began: an agent
\* acts, spawns or sends only if a record it had and rules that were in force
\* since then permit it, or an approver did.  Only what changes while the call
\* is on its way may be overtaken.
ActsOnCurrentAuthority ==
    [][\A c \in Calls : Enters(c, {"acting", "spawned", "routed"}) =>
          \/ kind[c] = "message" /\ \E i \in Window(c) : ~Known(i)
          \/ \E i, j \in Window(c) :
                /\ i <= j /\ Known(i)
                /\ LET v == VerdictBetween(c, i, j, PreStage(c))
                   IN  \/ ~Objects(v)
                       \/ v.decision = "require_approval" /\
                             (kind[c] = "message" \/ stage'[c] = "approved")]_vars

\* A result is withheld from an agent that is no longer registered when the
\* backend has answered, and when every pair of a record it had and rules in
\* force since then denies it with force.  The rules are those of the time after
\* the answer, not those of the check before the act.  Nothing is said of a
\* result that rules want reviewed: it passes without a review.
DeniedResultsAreWithheld ==
    [][\A c \in Calls : Enters(c, {"returned"}) =>
          \E i, j \in Window(c) :
             /\ i <= j /\ Known(i)
             /\ LET v == VerdictBetween(c, i, j, PostStage(c))
                IN  Objects(v) => v.decision # "deny"]_vars

\* A grant of the record that is in force at the time.
InForce(g, agent, resource, time) ==
    /\ g.resource = resource
    /\ g.until = Never \/ time <= g.until
    /\ \/ g.condition = NoCondition
       \/ /\ g.condition \notin Broken
          /\ Truth(g.condition, [trusted  |-> agent.trusted, active |-> {},
                                 resource |-> resource, result |-> NoResult]) = "true"

\* A grant the record holds, in force at an instant of the window.
Authorized(c) ==
    \E i, j \in Window(c) :
        /\ i <= j /\ Known(i)
        /\ \E g \in worlds[i].record.grants :
              InForce(g, worlds[i].record, ResourceOf[c], worlds[j].time)

Activations == [trusted : BOOLEAN, active : SUBSET Resources,
                resource : Resources, result : Results \cup {NoResult}]

Denies(rule, activation) ==
    \/ Truth(rule.expression, activation) = "error"
    \/ rule.decision = "deny" /\ rule.mode = "hard"

\* At each stage the policy begins, by priority, with rules that deny what no
\* active grant allows.
EnforcesGrants(policy) ==
    \A s \in EvaluationStages, a \in Activations :
        a.resource \notin a.active =>
            \E i \in Hits(policy, s, a) :
                \A j \in Hits(policy, s, a) : Before(policy, j, i) => Denies(policy[j], a)

\* Under policies that enforce grants no registered agent acts, spawns, sends
\* or is given a result without a grant that was in force during the call: not
\* under rules that were loaded in part, not with an expired grant or one whose
\* condition fails, and not by an approval.
NothingWithoutGrant ==
    [][\A c \in Calls :
          Enters(c, {"acting", "spawned", "routed", "returned"}) =>
              \/ Authorized(c)
              \/ kind[c] = "message" /\ \E i \in Window(c) : ~Known(i)]_vars

(***************************************************************************)
(* Claims of comments and documents that the code does not meet            *)
(***************************************************************************)
\* EnforcementMode: advisory and soft rules do not block, whatever they say.
OnlyHardBlocks ==
    [][\A c \in Calls :
          Enters(c, {"denied", "withheld"}) /\ call'[c].verdict # NoVerdict =>
              call'[c].verdict.mode = "hard"]_vars
\* policy-engine-requirements.md, FR-5.4: every evaluation has an event with
\* its stage; here: after the act, once the call ended.
EveryEvaluationAudited ==
    \A c \in Calls :
        call[c].at = "returned" =>
            \E i \in DOMAIN audit[c] : audit[c][i].stage = PostStage(c)
=============================================================================
