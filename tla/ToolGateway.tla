---------------------------- MODULE ToolGateway ----------------------------
(***************************************************************************)
(* Calls of an agent through an external gateway: GovernedMcpToolPipeline  *)
(* (presidium_contrib/mcp_gateway), GatewayToolProvider and                *)
(* GatewayModelProvider (presidium/providers/gateway.py) over              *)
(* AgentGatewayClient (presidium_contrib/agentgateway/client.py), with an  *)
(* OPA server as the policy engine.                                        *)
(*                                                                         *)
(* Unlike the CEL engine, OPA is asked over the network.  Between the      *)
(* pipeline's look at a tool, OPA's answer, the approver's, the run of the *)
(* tool and OPA's second answer, the gateway may serve another tool under  *)
(* the name, an operator may approve or revoke it, and OPA's documents may *)
(* change.  The agent's record and the audit sink are in Enforcement.      *)
(***************************************************************************)
EXTENDS Payload, OpaEngine, Naturals, Sequences

CONSTANTS
    Calls,
    KindsOf,      \* KindsOf[c]: the kinds of call c that the runs use
    Definitions,  \* a tool's description and input schema
    Blank,        \* ... both empty
    Absent,       \* the gateway serves no tool, or no agent, of the name
    NotApproved,  \* no snapshot
    Arguments,    \* payloads agents send
    Results,      \* payloads tools answer with
    FirstDocument,
    MaxChanges,   \* bound on the changes of gateway, snapshots and documents
    NoVerdict

Kinds == {"pipeline", "described", "tool", "delegate", "chat"}

ASSUME ToolGatewayAssumption ==
    /\ KindsOf \in [Calls -> SUBSET Kinds]
    /\ Blank \in Definitions
    /\ Absent \notin Definitions /\ NotApproved \notin Definitions
    /\ Arguments \subseteq Unprocessed /\ Results \subseteq Unprocessed
    /\ FirstDocument \in Documents /\ Down \notin Documents
    /\ MaxChanges \in Nat

VARIABLES
    worlds,   \* the definition the gateway serves, the snapshot, OPA's
              \* document, oldest first: the last are the present, the others
              \* history
    options,  \* allow_unapproved_tools, pii_detector is set, mask_pii_in_results
    kind,     \* the kind of each call
    call      \* each call's place and locals

vars == <<worlds, options, kind, call>>

World == worlds[Len(worlds)]

Worlds == [served : Definitions \cup {Absent}, approved : Definitions \cup {NotApproved},
           document : Documents \cup {Down}]

Init ==
    /\ \E d \in Definitions :
          worlds = << [served |-> d, approved |-> d, document |-> FirstDocument] >>
    /\ options \in [allowUnapproved : BOOLEAN, scans : BOOLEAN, masks : BOOLEAN]
    /\ kind \in {k \in [Calls -> Kinds] : \A c \in Calls : k[c] \in KindsOf[c]}
    /\ \E a \in Arguments :
          call = [c \in Calls |-> [at |-> "new", since |-> 1, definition |-> Blank,
                                   arguments |-> a, verdict |-> NoVerdict,
                                   result |-> {}, contains |-> FALSE]]

Goes(c, place) == call' = [call EXCEPT ![c].at = place]

InPipeline(c) == kind[c] \in {"pipeline", "described"}

(***************************************************************************)
(* Before the act                                                          *)
(***************************************************************************)
\* A tool the gateway does not list is looked at as if it said nothing.
Listed(served) == IF served = Absent THEN Blank ELSE served

\* The pipeline lists the gateway's tools to see the one it is to call ...
ListTools(c) ==
    /\ kind[c] = "pipeline" /\ call[c].at = "new"
    /\ call' = [call EXCEPT ![c].at = "listed", ![c].since = Len(worlds),
                            ![c].definition = Listed(World.served)]
    /\ UNCHANGED <<worlds, options, kind>>

\* ... or takes the definition from its caller, who saw it at some time.
TakeDescription(c) ==
    /\ kind[c] = "described" /\ call[c].at = "new"
    /\ \E i \in DOMAIN worlds :
          call' = [call EXCEPT ![c].at = "listed", ![c].since = i,
                               ![c].definition = Listed(worlds[i].served)]
    /\ UNCHANGED <<worlds, options, kind>>

\* PoisoningDetector.check.  Faulty variant: a tool that is not listed has
\* nothing that could have changed.
CleanOrBlank(definition) == definition \in {World.approved, Blank}

Clean(definition) == World.approved # NotApproved /\ definition = World.approved

Examine(c) ==
    /\ call[c].at = "listed"
    /\ Goes(c, IF Clean(call[c].definition) \/ options.allowUnapproved
               THEN "asking" ELSE "poisoned")
    /\ UNCHANGED <<worlds, options, kind>>

\* The providers go to the policy engine without a look at the tool.
AskDirectly(c) ==
    /\ ~InPipeline(c) /\ call[c].at = "new"
    /\ call' = [call EXCEPT ![c].at = "asking", ![c].since = Len(worlds)]
    /\ UNCHANGED <<worlds, options, kind>>

\* Only the pipeline passes the arguments on to the policy, redacted.
QuestionBefore(c) ==
    [stage      |-> IF kind[c] = "chat" THEN "pre_llm" ELSE "pre_tool",
     parameters |-> IF InPipeline(c) THEN Redacted(call[c].arguments) ELSE {},
     contains   |-> FALSE]

\* OPA answers from the document it has, or too late.
AnswerBefore(c) ==
    /\ call[c].at = "asking"
    /\ \E v \in {OpaVerdict(World.document, QuestionBefore(c)), Closed} :
          call' = [call EXCEPT ![c].at = "answered", ![c].verdict = v]
    /\ UNCHANGED <<worlds, options, kind>>

Objects(v) == v.mode = "hard" /\ v.decision # "allow"

Decide(c) ==
    /\ call[c].at = "answered"
    /\ LET v == call[c].verdict
       IN  Goes(c, IF ~Objects(v) THEN "acting"
                   ELSE IF v.decision = "require_approval" THEN "approving" ELSE "denied")
    /\ UNCHANGED <<worlds, options, kind>>

ApproverSays(c) ==
    /\ call[c].at = "approving"
    /\ Goes(c, "acting") \/ Goes(c, "denied")
    /\ UNCHANGED <<worlds, options, kind>>

(***************************************************************************)
(* The act, and after                                                      *)
(***************************************************************************)
\* Faulty variant: what is scanned is what is returned.
ScannedMasked(c, result) ==
    call' = [call EXCEPT ![c].at = "asking_again", ![c].since = Len(worlds),
                ![c].result = IF InPipeline(c) /\ options.scans /\ options.masks
                              THEN Masked(result) ELSE result,
                ![c].contains = InPipeline(c) /\ options.scans /\
                    HoldsPersonal(IF options.masks THEN Masked(result) ELSE result)]

\* The pipeline adds to the result whether it holds personal data.
Scanned(c, result) ==
    call' = [call EXCEPT ![c].at = "asking_again", ![c].since = Len(worlds),
                         ![c].result = result,
                         ![c].contains = InPipeline(c) /\ options.scans /\ HoldsPersonal(result)]

Gets(c) == (\E r \in Results : Scanned(c, r)) /\ UNCHANGED <<worlds, options, kind>>

\* A tool is run by what the gateway serves by then.
ToolReturns(c) ==
    /\ call[c].at = "acting" /\ kind[c] \in {"pipeline", "described", "tool"}
    /\ World.served # Absent
    /\ Gets(c)

\* Another agent completes the task it is given.
AgentReturns(c) ==
    /\ call[c].at = "acting" /\ kind[c] = "delegate"
    /\ World.served # Absent
    /\ Gets(c)

ModelReturns(c) ==
    /\ call[c].at = "acting" /\ kind[c] = "chat"
    /\ Gets(c)

\* The gateway is away, there is no route to the agent, the tool reports an
\* error, or the agent's task ends failed, rejected or cancelled: the client
\* raises, and nothing comes after.
BackendFails(c) ==
    /\ call[c].at = "acting"
    /\ Goes(c, "failed")
    /\ UNCHANGED <<worlds, options, kind>>

\* After the act the arguments are not passed on.
QuestionAfter(c) ==
    [stage      |-> IF kind[c] = "chat" THEN "post_llm" ELSE "post_tool",
     parameters |-> {},
     contains   |-> call[c].contains]

AnswerAfter(c) ==
    /\ call[c].at = "asking_again"
    /\ \E v \in {OpaVerdict(World.document, QuestionAfter(c)), Closed} :
          call' = [call EXCEPT ![c].at = "answered_again", ![c].verdict = v]
    /\ UNCHANGED <<worlds, options, kind>>

\* What the agent gets.
Final(c) == IF call[c].contains /\ options.masks THEN Masked(call[c].result)
            ELSE call[c].result

ReturnOrNot(c) ==
    /\ call[c].at = "answered_again"
    /\ IF Objects(call[c].verdict) /\ call[c].verdict.decision = "deny"
       THEN Goes(c, "withheld")
       ELSE call' = [call EXCEPT ![c].at = "returned", ![c].result = Final(c)]
    /\ UNCHANGED <<worlds, options, kind>>

(***************************************************************************)
(* Meanwhile                                                               *)
(***************************************************************************)
Becomes(world) ==
    /\ Len(worlds) <= MaxChanges
    /\ world # World
    /\ worlds' = Append(worlds, world)
    /\ UNCHANGED <<options, kind, call>>

GatewayChanges ==
    \E d \in Definitions \cup {Absent} : Becomes([World EXCEPT !.served = d])

\* approve_tool and revoke; what is approved is what the operator was shown.
ApproveTool ==
    \E i \in DOMAIN worlds :
        worlds[i].served # Absent /\ Becomes([World EXCEPT !.approved = worlds[i].served])

Revoke == Becomes([World EXCEPT !.approved = NotApproved])

OpaChanges == \E d \in Documents \cup {Down} : Becomes([World EXCEPT !.document = d])

Next ==
    \/ \E c \in Calls :
          \/ ListTools(c)
          \/ TakeDescription(c)
          \/ Examine(c)
          \/ AskDirectly(c)
          \/ AnswerBefore(c)
          \/ Decide(c)
          \/ ApproverSays(c)
          \/ ToolReturns(c)
          \/ AgentReturns(c)
          \/ ModelReturns(c)
          \/ BackendFails(c)
          \/ AnswerAfter(c)
          \/ ReturnOrNot(c)
    \/ GatewayChanges
    \/ ApproveTool
    \/ Revoke
    \/ OpaChanges

Spec == Init /\ [][Next]_vars

(***************************************************************************)
(* Properties                                                              *)
(***************************************************************************)
Enters(c, place) == call[c].at # place /\ call'[c].at = place

\* The call's own time: since it looked at the tool, asked OPA, or ran.
Window(c) == call[c].since .. Len(worlds)

\* The pipeline runs a tool only if the definition it looked at, listed during
\* the call or seen by the caller before, was approved at some time since: not
\* after an older revocation, and not a tool that changed before the look.
RunsWhatWasApproved ==
    [][\A c \in Calls :
          Enters(c, "acting") /\ InPipeline(c) /\ ~options.allowUnapproved =>
              /\ Listed(worlds[call[c].since].served) = call[c].definition
              /\ \E i \in Window(c) : worlds[i].approved = call[c].definition]_vars

\* Whoever asks for an approval does not deny.
NotDenied(v) == Objects(v) => v.decision # "deny"

\* Nothing is done while OPA is away, nor when every document it had during
\* the call denies what the call says with its credentials redacted, nor, if
\* none of them lets it pass at once, without an approver's word.
ActsOnOpasWord ==
    [][\A c \in Calls : Enters(c, "acting") =>
          \E i \in Window(c) :
              /\ worlds[i].document # Down
              /\ LET v == OpaVerdict(worlds[i].document, QuestionBefore(c))
                 IN  NotDenied(v) /\ (Objects(v) => call[c].at = "approving")]_vars

\* A result that holds personal data reaches the agent of a scanning pipeline
\* only if a document OPA had since then does not deny what is said to hold
\* some, and masked wherever the masking looks.  A document that wants such a
\* result reviewed does not deny it (see PersonalDataIsReviewed).
PersonalDataIsUndeniedAndMasked ==
    [][\A c \in Calls :
          Enters(c, "returned") /\ InPipeline(c) /\ options.scans /\
          (HoldsPersonal(call[c].result) \/ [holds |-> "masked", spot |-> "plain"] \in call'[c].result) =>
              /\ \E i \in Window(c) :
                    /\ worlds[i].document # Down
                    /\ NotDenied(OpaVerdict(worlds[i].document,
                                            [QuestionAfter(c) EXCEPT !.contains = TRUE]))
              /\ options.masks =>
                    \A leaf \in call'[c].result : leaf.holds = "personal" => leaf.spot = "nested"]_vars

(***************************************************************************)
(* Claims of documents that the code does not meet                         *)
(***************************************************************************)
\* mcp-gateway.md documents a require_approval rule of the stage post_tool as
\* "Tool result contains PII - review before returning to agent", and FR-6.4 of
\* policy-engine-requirements.md demands that every require_approval awaits a
\* decision: a result in which the pipeline found personal data, and of which
\* OPA says with force that it needs an approval, is returned only from the
\* place where an approver answers.
PersonalDataIsReviewed ==
    [][\A c \in Calls :
          /\ Enters(c, "returned") /\ InPipeline(c) /\ call[c].contains
          /\ Objects(call[c].verdict) /\ call[c].verdict.decision = "require_approval"
          => call[c].at = "approving"]_vars
=============================================================================
