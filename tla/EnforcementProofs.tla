-------------------------- MODULE EnforcementProofs --------------------------
(***************************************************************************)
(* Governed calls, for any policy files and expressions, any records, any  *)
(* number of calls and of changes of registry, rules and clock.            *)
(***************************************************************************)
EXTENDS Enforcement, FiniteSetTheorems, WellFoundedInduction, TLAPS

AP == INSTANCE ApprovalProofs WITH
        Requests <- Calls, RequestIds <- CallIds, Modes <- ServiceModes

-----------------------------------------------------------------------------
(* The engine decides.                                                     *)

\* Among the rules that hit there is one that comes before all others.
LEMMA FirstHitIsAHit ==
    ASSUME NEW policy \in Seq(Rules), NEW hits \in SUBSET DOMAIN policy, hits # {}
    PROVE  /\ FirstHit(policy, hits) \in hits
           /\ \A j \in hits : Before(policy, FirstHit(policy, hits), j)
<1> DEFINE earlier(i) == {j \in hits : j # i /\ Before(policy, j, i)}
           counts == {Cardinality(earlier(i)) : i \in hits}
<1>1. ASSUME NEW i \in hits PROVE i \in Nat /\ policy[i].priority \in Nat
  <2>1. i \in 1 .. Len(policy) /\ Len(policy) \in Nat OBVIOUS
  <2>2. policy[i] \in Rules BY <2>1
  <2>3. policy[i].priority \in Nat BY <2>2 DEF Rules
  <2> QED BY <2>1, <2>3
<1>2. IsFiniteSet(hits)
  <2>1. hits \subseteq 1 .. Len(policy) /\ Len(policy) \in Nat OBVIOUS
  <2>2. IsFiniteSet(1 .. Len(policy)) BY <2>1, FS_Interval
  <2> QED BY <2>1, <2>2, FS_Subset
<1>3. \A i \in hits : IsFiniteSet(earlier(i)) /\ Cardinality(earlier(i)) \in Nat
  <2> SUFFICES ASSUME NEW i \in hits
               PROVE  IsFiniteSet(earlier(i)) /\ Cardinality(earlier(i)) \in Nat
    OBVIOUS
  <2>1. earlier(i) \subseteq hits OBVIOUS
  <2> HIDE DEF earlier
  <2> QED BY <1>2, <2>1, FS_Subset, FS_CardinalityType
<1>4. PICK i \in hits : \A j \in hits : ~(Cardinality(earlier(j)) < Cardinality(earlier(i)))
  <2> HIDE DEF earlier
  <2>1. counts \subseteq Nat /\ counts # {} BY <1>3
  <2>2. PICK x \in counts : \A y \in counts : ~(<<y, x>> \in OpToRel(<, Nat))
    BY <2>1, WFMin, NatLessThanWellFounded
  <2>3. \A y \in counts : ~(y < x) BY <2>1, <2>2 DEF OpToRel
  <2> QED BY <2>3
<1>5. ASSUME NEW j \in hits, ~Before(policy, i, j) PROVE FALSE
  <2>1. j # i /\ Before(policy, j, i) BY <1>1, <1>5 DEF Before
  <2>2. earlier(j) \subseteq earlier(i) BY <1>1, <2>1 DEF Before
  <2>3. j \in earlier(i) /\ j \notin earlier(j) BY <2>1
  <2> HIDE DEF earlier
  <2>4. Cardinality(earlier(j)) <= Cardinality(earlier(i))
        /\ (Cardinality(earlier(j)) = Cardinality(earlier(i)) => earlier(j) = earlier(i))
    BY <1>3, <2>2, FS_Subset
  <2> QED BY <1>3, <1>4, <2>3, <2>4
<1> QED BY <1>4, <1>5 DEF FirstHit

LEMMA EvaluateType ==
    ASSUME NEW policy \in Seq(Rules), NEW s, NEW agent, NEW resource, NEW result, NEW time
    PROVE  Evaluate(policy, s, agent, resource, result, time) \in Verdicts
<1> DEFINE activation == Activation(agent, resource, result, time)
           hits == Hits(policy, s, activation)
           rule == policy[FirstHit(policy, hits)]
<1>1. \A d \in Decisions, m \in EnforcementModes : Verdict(d, m) \in Verdicts
  BY DEF Verdict, Verdicts
<1>2. "allow" \in Decisions /\ "deny" \in Decisions /\ "hard" \in EnforcementModes
  BY DEF Decisions, EnforcementModes
<1>3. CASE hits = {}
  <2>1. UnmatchedMode \in EnforcementModes BY PolicyAssumption DEF PolicyAssumption
  <2> QED BY <1>1, <1>2, <1>3, <2>1 DEF Evaluate
<1>4. CASE hits # {}
  <2>1. hits \in SUBSET DOMAIN policy BY DEF Hits, Enabled
  <2>2. FirstHit(policy, hits) \in DOMAIN policy BY <1>4, <2>1, FirstHitIsAHit
  <2>3. rule \in Rules BY <2>2
  <2>4. rule.decision \in Decisions /\ rule.mode \in EnforcementModes BY <2>3 DEF Rules
  <2>5. Evaluate(policy, s, agent, resource, result, time)
            \in {Verdict("deny", "hard"), Verdict(rule.decision, rule.mode)}
    BY <1>4 DEF Evaluate
  <2> HIDE DEF rule
  <2> QED BY <1>1, <1>2, <2>4, <2>5
<1> QED BY <1>3, <1>4

LEMMA ParsedType == ASSUME NEW file \in Seq(Rules) PROVE Parsed(file) \in Seq(Rules)
<1>1. ASSUME NEW i \in DOMAIN file PROVE [file[i] EXCEPT !.mode = "hard"] \in Rules
  <2>1. file[i] \in Rules OBVIOUS
  <2>2. "hard" \in EnforcementModes BY DEF EnforcementModes
  <2> QED BY <2>1, <2>2 DEF Rules
<1>2. DOMAIN file = 1 .. Len(file) /\ Len(file) \in Nat OBVIOUS
<1> QED BY <1>1, <1>2 DEF Parsed

-----------------------------------------------------------------------------
(* The invariant.                                                          *)

Judged(c, evaluationStage) ==
    \E i, j \in Window(c) :
        /\ i <= j /\ Known(i)
        /\ call[c].verdict = VerdictBetween(c, i, j, evaluationStage)

\* Why the backend may be called, as the sink has it.
Permitted(c) ==
    /\ audit[c] # <<>>
    /\ LET v == audit[c][1].verdict
       IN  Objects(v) => v.decision = "require_approval" /\ stage[c] = "approved"

AskingStages == {"asking", "posting", "waiting", "expiring", "cancelling"}

CallInv(c) ==
    /\ call[c].at \in {"new", "found", "read", "auditing"} =>
          audit[c] = <<>> /\ stage[c] = "new" /\ call[c].result = NoResult
    /\ call[c].at \in {"read", "read_again"} => call[c].record = worlds[call[c].since].record
    /\ call[c].at \in {"auditing", "approving", "auditing_again"} => call[c].verdict \in Verdicts
    /\ call[c].at = "auditing" => kind[c] # "message" /\ Judged(c, PreStage(c))
    /\ call[c].at = "approving" => kind[c] # "message" /\ Judged(c, PreStage(c))
    /\ stage[c] \in AskingStages <=> call[c].at = "approving"
    /\ call[c].at = "approving" =>
          /\ Len(audit[c]) = 1 /\ audit[c][1].verdict = call[c].verdict
          /\ call[c].verdict.decision = "require_approval"
    /\ call[c].at \in {"acting", "read_again", "auditing_again"} => Len(audit[c]) = 1
    /\ call[c].at \in ActedOn => Permitted(c) /\ stage[c] \in {"new", "approved"}
    /\ call[c].at = "auditing_again" => Judged(c, PostStage(c))
    /\ call[c].at = "returned" =>
          /\ Len(audit[c]) = 2
          /\ Objects(audit[c][2].verdict) => audit[c][2].verdict.decision = "require_approval"
    /\ call[c].at = "spawned" => audit[c] # <<>> /\ ~Objects(audit[c][1].verdict)
    /\ call[c].at = "replied" => audit[c] # <<>> /\ audit[c][1].verdict = call[c].verdict

IInv ==
    /\ TypeOK
    /\ \A c \in Calls : CallInv(c)
    /\ AP!IInv

-----------------------------------------------------------------------------
(* The approval service is as ApprovalProofs has it.                       *)

LEMMA ApprovalType == ASSUME AP!IInv PROVE A!TypeOK /\ stage \in [Calls -> A!Stages]
<1>1. A!TypeOK
  BY DEF AP!IInv, AP!TypeOK, A!TypeOK, AP!Stages, A!Stages, AP!Live, A!Live,
         AP!Ended, A!Ended, AP!Answers, A!Answers
<1> QED BY <1>1 DEF A!TypeOK

LEMMA ApprovalTypeNext == AP!IInv' => A!TypeOK'
<1>1. AP!IInv => A!TypeOK BY ApprovalType
<1> QED BY <1>1, PTL

LEMMA ApprovalStays == ASSUME AP!IInv, UNCHANGED approvalVars PROVE AP!IInv'
<1>1. UNCHANGED AP!vars BY DEF approvalVars, AP!vars
<1> QED BY <1>1, AP!NextKeeps, EnforcementAssumption DEF EnforcementAssumption

\* What a call does at the service is what a request does there.
LEMMA CallIsRequest ==
    ASSUME NEW c \in Calls,
           \/ A!AnswerAtOnce(c) \/ A!AskCallback(c) \/ A!RequestManually(c) \/ A!Post(c)
           \/ A!CallbackEnds(c) \/ A!Deliver(c) \/ A!Cancel(c) \/ A!PostSucceeds(c)
           \/ A!PostFails(c) \/ A!Expire(c) \/ A!Resume(c) \/ A!GiveUp(c)
    PROVE  AP!Next
<1> USE DEF A!EndsAs, AP!EndsAs
<1>1. A!AnswerAtOnce(c) => AP!AnswerAtOnce(c) BY DEF A!AnswerAtOnce, AP!AnswerAtOnce
<1>2. A!AskCallback(c) => AP!AskCallback(c) BY DEF A!AskCallback, AP!AskCallback
<1>3. A!RequestManually(c) => AP!RequestManually(c)
  BY DEF A!RequestManually, AP!RequestManually, A!WaitForAnswer, AP!WaitForAnswer,
         A!With, AP!With
<1>4. A!Post(c) => AP!Post(c) BY DEF A!Post, AP!Post
<1>5. A!CallbackEnds(c) => AP!CallbackEnds(c)
  BY DEF A!CallbackEnds, AP!CallbackEnds, A!Answers, AP!Answers
<1>6. A!Deliver(c) => AP!Deliver(c) BY DEF A!Deliver, AP!Deliver
<1>7. A!Cancel(c) => AP!Cancel(c) BY DEF A!Cancel, AP!Cancel
<1>8. A!PostSucceeds(c) => AP!PostSucceeds(c)
  BY DEF A!PostSucceeds, AP!PostSucceeds, A!WaitForAnswer, AP!WaitForAnswer, A!With, AP!With
<1>9. A!PostFails(c) => AP!PostFails(c) BY DEF A!PostFails, AP!PostFails
<1>10. A!Expire(c) => AP!Expire(c) BY DEF A!Expire, AP!Expire
<1>11. A!Resume(c) => AP!Resume(c)
  BY DEF A!Resume, AP!Resume, A!Answers, AP!Answers, A!Unlist, AP!Unlist, A!Without, AP!Without
<1>12. A!GiveUp(c) => AP!GiveUp(c)
  BY DEF A!GiveUp, AP!GiveUp, A!Unlist, AP!Unlist, A!Without, AP!Without
<1> QED
  BY <1>1, <1>2, <1>3, <1>4, <1>5, <1>6, <1>7, <1>8, <1>9, <1>10, <1>11, <1>12 DEF AP!Next

LEMMA ApprovalGoesOn ==
    ASSUME AP!IInv, NEW c \in Calls,
           \/ A!AnswerAtOnce(c) \/ A!AskCallback(c) \/ A!RequestManually(c) \/ A!Post(c)
           \/ A!CallbackEnds(c) \/ A!Deliver(c) \/ A!Cancel(c) \/ A!PostSucceeds(c)
           \/ A!PostFails(c) \/ A!Expire(c) \/ A!Resume(c) \/ A!GiveUp(c)
    PROVE  AP!IInv'
<1>1. AP!Next BY CallIsRequest
<1> QED BY <1>1, AP!NextKeeps, EnforcementAssumption DEF EnforcementAssumption

LEMMA ApproverDecides ==
    ASSUME NEW i \in CallIds, NEW d \in A!Answers, A!Decide(i, d)
    PROVE  AP!Next
<1>1. AP!Decide(i, d)
  BY DEF A!Decide, AP!Decide, A!Settle, AP!Settle, A!Answers, AP!Answers
<1> QED BY <1>1 DEF AP!Next, AP!Answers, A!Answers

LEMMA ApproverAnswers ==
    ASSUME AP!IInv, NEW i \in CallIds, NEW d \in A!Answers, A!Decide(i, d)
    PROVE  AP!IInv' /\ stage' = stage
<1>1. AP!Next BY ApproverDecides
<1>2. AP!IInv' BY <1>1, AP!NextKeeps, EnforcementAssumption DEF EnforcementAssumption
<1> QED BY <1>2 DEF A!Decide

LEMMA ServiceStarts == A!Init => AP!Init
BY DEF A!Init, AP!Init, A!Answers, AP!Answers

LEMMA ApprovalStarts == ASSUME A!Init PROVE AP!IInv
<1>1. AP!Init BY ServiceStarts
<1> QED BY <1>1, AP!InitHolds, EnforcementAssumption DEF EnforcementAssumption

-----------------------------------------------------------------------------
(* One call goes on, or the world changes.                                 *)

\* What the fields of a call become.
LEMMA GoesTo ==
    ASSUME TypeOK, NEW c \in Calls, NEW place \in Places, Goes(c, place)
    PROVE  /\ call' \in [Calls -> CallStates]
           /\ \A d \in Calls \ {c} : call'[d] = call[d]
           /\ call'[c].at = place
           /\ call'[c].record = call[c].record /\ call'[c].verdict = call[c].verdict
           /\ call'[c].result = call[c].result /\ call'[c].since = call[c].since
<1>1. call \in [Calls -> CallStates] /\ call[c] \in CallStates BY DEF TypeOK
<1> DEFINE r == [call[c] EXCEPT !.at = place]
<1>2. call' = [call EXCEPT ![c] = r] BY DEF Goes
<1>3. r \in CallStates BY <1>1 DEF CallStates
<1>4. /\ r.at = place /\ r.record = call[c].record /\ r.verdict = call[c].verdict
      /\ r.result = call[c].result /\ r.since = call[c].since
  BY <1>1 DEF CallStates
<1> HIDE DEF r
<1> QED BY <1>1, <1>2, <1>3, <1>4

LEMMA HearsAt ==
    ASSUME TypeOK, NEW c \in Calls, NEW place \in Places,
           NEW v \in Verdicts \cup {NoVerdict}, Hears(c, place, v)
    PROVE  /\ call' \in [Calls -> CallStates]
           /\ \A d \in Calls \ {c} : call'[d] = call[d]
           /\ call'[c].at = place /\ call'[c].verdict = v
           /\ call'[c].record = call[c].record
           /\ call'[c].result = call[c].result /\ call'[c].since = call[c].since
<1>1. call \in [Calls -> CallStates] /\ call[c] \in CallStates BY DEF TypeOK
<1> DEFINE q == [call[c] EXCEPT !.at = place]
           r == [q EXCEPT !.verdict = v]
<1>2. call' = [call EXCEPT ![c] = r] BY DEF Hears
<1>3. q \in CallStates /\ q.at = place /\ q.record = call[c].record
      /\ q.result = call[c].result /\ q.since = call[c].since
  BY <1>1 DEF CallStates
<1> HIDE DEF q
<1>4. r \in CallStates BY <1>3 DEF CallStates
<1>5. /\ r.at = q.at /\ r.record = q.record /\ r.verdict = v
      /\ r.result = q.result /\ r.since = q.since
  BY <1>3 DEF CallStates
<1> HIDE DEF r
<1> QED BY <1>1, <1>2, <1>3, <1>4, <1>5

\* What was judged stays judged while the world goes on.
LEMMA JudgedStays ==
    ASSUME TypeOK, NEW c \in Calls, NEW s, Judged(c, s),
           worlds' \in Seq(Worlds), Len(worlds) <= Len(worlds'),
           \A i \in 1 .. Len(worlds) : worlds'[i] = worlds[i],
           call'[c].since = call[c].since, call'[c].verdict = call[c].verdict,
           call'[c].result = call[c].result
    PROVE  Judged(c, s)'
<1>1. worlds \in Seq(Worlds) /\ call[c].since \in 1 .. Len(worlds) BY DEF TypeOK
<1>2. PICK i, j \in Window(c) :
         /\ i <= j /\ Known(i)
         /\ call[c].verdict = VerdictBetween(c, i, j, s)
  BY DEF Judged
<1>3. /\ i \in Window(c)' /\ j \in Window(c)'
      /\ worlds'[i] = worlds[i] /\ worlds'[j] = worlds[j]
  BY <1>1 DEF Window
<1>4. VerdictBetween(c, i, j, s)' = VerdictBetween(c, i, j, s)
  BY <1>3 DEF VerdictBetween
<1>5. Known(i)' BY <1>2, <1>3 DEF Known
<1> QED BY <1>2, <1>3, <1>4, <1>5 DEF Judged

\* A call that does not take the step is where it was.
LEMMA StandsStill ==
    ASSUME TypeOK, NEW c \in Calls, CallInv(c), kind' = kind,
           worlds' \in Seq(Worlds), Len(worlds) <= Len(worlds'),
           \A i \in 1 .. Len(worlds) : worlds'[i] = worlds[i],
           call'[c] = call[c], audit'[c] = audit[c], stage'[c] = stage[c]
    PROVE  CallInv(c)'
<1>1. /\ worlds \in Seq(Worlds) /\ call[c].since \in 1 .. Len(worlds)
      /\ worlds'[call[c].since] = worlds[call[c].since]
  BY DEF TypeOK
<1>2. PreStage(c)' = PreStage(c) /\ PostStage(c)' = PostStage(c) BY DEF PreStage, PostStage
<1>3. Judged(c, PreStage(c)) => Judged(c, PreStage(c))'
  BY <1>2, JudgedStays DEF Judged
<1>4. Judged(c, PostStage(c)) => Judged(c, PostStage(c))'
  BY <1>2, JudgedStays DEF Judged
<1>5. Permitted(c)' <=> Permitted(c) BY DEF Permitted
<1> QED BY <1>1, <1>3, <1>4, <1>5 DEF CallInv

\* What the two action properties say of a step of one call.
ActsRight(c) ==
    Enters(c, {"acting", "spawned", "routed"}) =>
          \/ kind[c] = "message" /\ \E i \in Window(c) : ~Known(i)
          \/ \E i, j \in Window(c) :
                /\ i <= j /\ Known(i)
                /\ LET v == VerdictBetween(c, i, j, PreStage(c))
                   IN  \/ ~Objects(v)
                       \/ v.decision = "require_approval" /\
                             (kind[c] = "message" \/ stage'[c] = "approved")

ReturnsRight(c) ==
    Enters(c, {"returned"}) =>
          \E i, j \in Window(c) :
             /\ i <= j /\ Known(i)
             /\ LET v == VerdictBetween(c, i, j, PostStage(c))
                IN  Objects(v) => v.decision # "deny"

Right(c) == ActsRight(c) /\ ReturnsRight(c)

LEMMA StaysRight == ASSUME NEW c \in Calls, call'[c].at = call[c].at PROVE Right(c)
BY DEF Right, ActsRight, ReturnsRight, Enters

LEMMA NoEntryIsRight ==
    ASSUME NEW c \in Calls, call'[c].at \notin {"acting", "spawned", "routed", "returned"}
    PROVE  Right(c)
BY DEF Right, ActsRight, ReturnsRight, Enters

\* One call goes on.
LEMMA OneGoesOn ==
    ASSUME IInv, NEW c \in Calls, UNCHANGED <<worlds, kind, attached>>, AP!IInv',
           call' \in [Calls -> CallStates], call'[c].since \in 1 .. Len(worlds),
           \A d \in Calls \ {c} : call'[d] = call[d] /\ stage'[d] = stage[d],
           audit' \in [Calls -> Seq(Event)], Len(audit'[c]) <= 2,
           \A d \in Calls \ {c} : audit'[d] = audit[d],
           CallInv(c)', Right(c)
    PROVE  IInv' /\ \A d \in Calls : Right(d)
<1>1. worlds \in Seq(Worlds) BY DEF IInv, TypeOK
<1>2. A!TypeOK' BY ApprovalTypeNext
<1>3. TypeOK'
  <2>1. ASSUME NEW d \in Calls PROVE call'[d].since \in DOMAIN worlds' /\ Len(audit'[d]) <= 2
    <3>1. CASE d = c BY <1>1, <3>1
    <3>2. CASE d # c BY <3>2 DEF IInv, TypeOK
    <3> QED BY <3>1, <3>2
  <2> QED BY <1>2, <2>1 DEF IInv, TypeOK
<1>4. ASSUME NEW d \in Calls, d # c PROVE CallInv(d)' /\ Right(d)
  <2>1. Len(worlds) \in Nat BY <1>1
  <2>2. CallInv(d) /\ TypeOK BY DEF IInv
  <2> QED BY <1>1, <1>4, <2>1, <2>2, StandsStill, StaysRight
<1>5. \A d \in Calls : CallInv(d)' /\ Right(d) BY <1>4
<1> QED BY <1>3, <1>5 DEF IInv

\* An event is added to those of the call.
LEMMA EmitsOne ==
    ASSUME TypeOK, NEW c \in Calls, call[c].verdict \in Verdicts, Emits(c)
    PROVE  /\ audit' \in [Calls -> Seq(Event)]
           /\ \A d \in Calls \ {c} : audit'[d] = audit[d]
           /\ Len(audit[c]) \in Nat /\ Len(audit'[c]) = Len(audit[c]) + 1
           /\ audit'[c][Len(audit[c]) + 1].verdict = call[c].verdict
           /\ \A i \in 1 .. Len(audit[c]) : audit'[c][i] = audit[c][i]
<1> DEFINE e == [stage |-> PreStage(c), verdict |-> call[c].verdict]
<1>1. PreStage(c) \in EvaluationStages BY DEF PreStage, EvaluationStages
<1>2. e \in Event /\ e.verdict = call[c].verdict BY <1>1 DEF Event
<1>3. audit' = [audit EXCEPT ![c] = Append(@, e)] BY DEF Emits
<1>4. audit \in [Calls -> Seq(Event)] BY DEF TypeOK
<1> HIDE DEF e
<1>5. /\ Append(audit[c], e) \in Seq(Event)
      /\ Len(Append(audit[c], e)) = Len(audit[c]) + 1 /\ Len(audit[c]) \in Nat
      /\ Append(audit[c], e)[Len(audit[c]) + 1] = e
      /\ \A i \in 1 .. Len(audit[c]) : Append(audit[c], e)[i] = audit[c][i]
  BY <1>2, <1>4
<1>6. audit'[c] = Append(audit[c], e) BY <1>3, <1>4
<1> QED BY <1>2, <1>3, <1>4, <1>5, <1>6

\* What the engine says of the record as it was read is judged.
LEMMA DecidedIsJudged ==
    ASSUME TypeOK, NEW c \in Calls, NEW s,
           call[c].record = worlds[call[c].since].record, call[c].record # Gone
    PROVE  /\ Decided(c, s, call[c].result) \in Verdicts
           /\ call[c].since \in Window(c) /\ Len(worlds) \in Window(c)
           /\ call[c].since <= Len(worlds) /\ Known(call[c].since)
           /\ Decided(c, s, call[c].result) = VerdictBetween(c, call[c].since, Len(worlds), s)
<1>1. /\ worlds \in Seq(Worlds) /\ Len(worlds) \in Nat
      /\ call[c].since \in 1 .. Len(worlds)
  BY DEF TypeOK
<1>2. World \in Worlds BY <1>1 DEF World
<1>3. World.policy \in Seq(Rules) BY <1>2 DEF Worlds
<1>4. Decided(c, s, call[c].result) \in Verdicts BY <1>3, EvaluateType DEF Decided
<1>5. Known(call[c].since) BY DEF Known
<1>6. Decided(c, s, call[c].result) = VerdictBetween(c, call[c].since, Len(worlds), s)
  BY DEF Decided, VerdictBetween, World
<1> QED BY <1>1, <1>4, <1>5, <1>6 DEF Window

-----------------------------------------------------------------------------
(* Before the act.                                                         *)

\* The call is refused, fails or is sent on, and nothing is written.
LEMMA LeavesKeeps ==
    ASSUME IInv, NEW c \in Calls, NEW place \in {"denied", "failed", "routed"},
           call[c].at # "approving", UNCHANGED <<worlds, kind, attached, audit, approvalVars>>,
           call' \in [Calls -> CallStates], \A d \in Calls \ {c} : call'[d] = call[d],
           call'[c].at = place, call'[c].since = call[c].since,
           ActsRight(c)
    PROVE  IInv' /\ \A d \in Calls : Right(d)
<1>1. TypeOK /\ CallInv(c) /\ AP!IInv BY DEF IInv
<1>2. AP!IInv' BY <1>1, ApprovalStays
<1>3. stage' = stage BY DEF approvalVars
<1>4. CallInv(c)' BY <1>1, <1>3 DEF CallInv, ActedOn
<1>5. Right(c) BY DEF Right, ReturnsRight, Enters
<1>6. /\ audit' \in [Calls -> Seq(Event)] /\ Len(audit'[c]) <= 2
      /\ call'[c].since \in 1 .. Len(worlds)
  BY <1>1 DEF TypeOK
<1> QED BY <1>2, <1>3, <1>4, <1>5, <1>6, OneGoesOn

LEMMA FindByIdKeeps ==
    ASSUME IInv, NEW c \in Calls, FindById(c)
    PROVE  IInv' /\ \A d \in Calls : Right(d)
<1> DEFINE place == IF World.record = Gone THEN "denied" ELSE "found"
<1>1. TypeOK /\ CallInv(c) /\ AP!IInv BY DEF IInv
<1>2. /\ call[c].at = "new" /\ Goes(c, place)
      /\ UNCHANGED <<worlds, kind, audit, attached, approvalVars>>
  BY DEF FindById
<1>3. place \in Places /\ place \in {"denied", "found"} BY DEF Places, Ended
<1> HIDE DEF place
<1>4. /\ call' \in [Calls -> CallStates]
      /\ \A d \in Calls \ {c} : call'[d] = call[d]
      /\ call'[c].at = place /\ call'[c].since = call[c].since
      /\ call'[c].result = call[c].result
  BY <1>1, <1>2, <1>3, GoesTo
<1>5. AP!IInv' BY <1>1, <1>2, ApprovalStays
<1>6. stage' = stage BY <1>2 DEF approvalVars
<1>7. CallInv(c)' BY <1>1, <1>2, <1>3, <1>4, <1>6 DEF CallInv, ActedOn
<1>8. Right(c) BY <1>3, <1>4, NoEntryIsRight
<1>9. /\ audit' \in [Calls -> Seq(Event)] /\ Len(audit'[c]) <= 2
      /\ call'[c].since \in 1 .. Len(worlds)
  BY <1>1, <1>2, <1>4 DEF TypeOK
<1> QED BY <1>2, <1>4, <1>5, <1>6, <1>7, <1>8, <1>9, OneGoesOn

LEMMA ReadKeeps ==
    ASSUME IInv, NEW c \in Calls, Read(c)
    PROVE  IInv' /\ \A d \in Calls : Right(d)
<1>1. /\ TypeOK /\ CallInv(c) /\ AP!IInv
      /\ call \in [Calls -> CallStates] /\ call[c] \in CallStates
      /\ worlds \in Seq(Worlds) /\ worlds # <<>>
  BY DEF IInv, TypeOK
<1> DEFINE q == [call[c] EXCEPT !.at = "read"]
           p == [q EXCEPT !.since = Len(worlds)]
           r == [p EXCEPT !.record = World.record]
<1>2. /\ call[c].at \in {"new", "found"} /\ call' = [call EXCEPT ![c] = r]
      /\ UNCHANGED <<worlds, kind, audit, attached, approvalVars>>
  BY DEF Read
<1>3. Len(worlds) \in 1 .. Len(worlds) /\ Len(worlds) \in Nat /\ World \in Worlds
  BY <1>1 DEF World
<1>4. World.record \in Records \cup {Gone} BY <1>3 DEF Worlds
<1>5. q \in CallStates /\ q.at = "read" /\ q.result = call[c].result
  BY <1>1 DEF CallStates, Places
<1> HIDE DEF q
<1>6. p \in CallStates /\ p.at = "read" /\ p.result = call[c].result /\ p.since = Len(worlds)
  BY <1>3, <1>5 DEF CallStates
<1> HIDE DEF p
<1>7. /\ r \in CallStates /\ r.at = "read" /\ r.result = call[c].result
      /\ r.since = Len(worlds) /\ r.record = worlds[Len(worlds)].record
  BY <1>4, <1>6 DEF CallStates, World
<1> HIDE DEF r
<1>8. /\ call' \in [Calls -> CallStates] /\ call'[c] = r
      /\ \A d \in Calls \ {c} : call'[d] = call[d]
  BY <1>1, <1>2, <1>7
<1>9. AP!IInv' BY <1>1, <1>2, ApprovalStays
<1>10. stage' = stage BY <1>2 DEF approvalVars
<1>11. CallInv(c)' BY <1>1, <1>2, <1>7, <1>8, <1>10 DEF CallInv, ActedOn
<1>12. Right(c) BY <1>7, <1>8, NoEntryIsRight
<1>13. /\ audit' \in [Calls -> Seq(Event)] /\ Len(audit'[c]) <= 2
       /\ call'[c].since \in 1 .. Len(worlds)
  BY <1>1, <1>2, <1>3, <1>7, <1>8 DEF TypeOK
<1> QED BY <1>2, <1>8, <1>9, <1>10, <1>11, <1>12, <1>13, OneGoesOn

\* An unknown sender's message is let through, for want of a record.
LEMMA MissesRecordKeeps ==
    ASSUME IInv, NEW c \in Calls, MissesRecord(c)
    PROVE  IInv' /\ \A d \in Calls : Right(d)
<1> DEFINE place == IF kind[c] = "message" THEN "routed" ELSE "denied"
<1>1. /\ TypeOK /\ CallInv(c)
      /\ worlds \in Seq(Worlds) /\ call[c].since \in 1 .. Len(worlds)
  BY DEF IInv, TypeOK
<1>2. /\ call[c].at = "read" /\ call[c].record = Gone /\ Goes(c, place)
      /\ UNCHANGED <<worlds, kind, audit, attached, approvalVars>>
  BY DEF MissesRecord
<1>3. /\ place \in Places /\ place \in {"denied", "failed", "routed"}
      /\ place = "routed" => kind[c] = "message"
      /\ place \notin {"acting", "spawned"}
  BY DEF Places, Ended
<1> HIDE DEF place
<1>4. /\ call' \in [Calls -> CallStates]
      /\ \A d \in Calls \ {c} : call'[d] = call[d]
      /\ call'[c].at = place /\ call'[c].since = call[c].since
  BY <1>1, <1>2, <1>3, GoesTo
<1>5. call[c].since \in Window(c) /\ ~Known(call[c].since)
  BY <1>1, <1>2 DEF Window, Known, CallInv
<1>6. ActsRight(c) BY <1>3, <1>4, <1>5 DEF ActsRight, Enters
<1> QED BY <1>2, <1>3, <1>4, <1>6, LeavesKeeps

LEMMA RouteOrNotKeeps ==
    ASSUME IInv, NEW c \in Calls, RouteOrNot(c)
    PROVE  IInv' /\ \A d \in Calls : Right(d)
<1> DEFINE v == Decided(c, PreStage(c), NoResult)
           place == IF v.decision = "deny" THEN "denied" ELSE "routed"
<1>1. /\ TypeOK /\ CallInv(c)
      /\ worlds \in Seq(Worlds) /\ call[c].since \in 1 .. Len(worlds)
  BY DEF IInv, TypeOK
<1>2. /\ kind[c] = "message" /\ call[c].at = "read" /\ call[c].record # Gone
      /\ Hears(c, place, v)
      /\ UNCHANGED <<worlds, kind, audit, attached, approvalVars>>
  BY DEF RouteOrNot
<1>3. call[c].result = NoResult /\ call[c].record = worlds[call[c].since].record
  BY <1>1, <1>2 DEF CallInv
<1>4. /\ v \in Verdicts
      /\ call[c].since \in Window(c) /\ Len(worlds) \in Window(c)
      /\ call[c].since <= Len(worlds) /\ Known(call[c].since)
      /\ v = VerdictBetween(c, call[c].since, Len(worlds), PreStage(c))
  BY <1>1, <1>2, <1>3, DecidedIsJudged
<1>5. /\ place \in Places /\ place \in {"denied", "failed", "routed"}
      /\ place = "routed" => v.decision # "deny"
  BY DEF Places, Ended
<1> HIDE DEF v, place
<1>6. /\ call' \in [Calls -> CallStates]
      /\ \A d \in Calls \ {c} : call'[d] = call[d]
      /\ call'[c].at = place /\ call'[c].since = call[c].since
  BY <1>1, <1>2, <1>4, <1>5, HearsAt
<1>7. place = "routed" => ~Objects(v) \/ v.decision = "require_approval"
  BY <1>4, <1>5 DEF Objects, Verdicts, Decisions
<1>8. ActsRight(c) BY <1>2, <1>4, <1>5, <1>6, <1>7 DEF ActsRight, Enters
<1> QED BY <1>2, <1>5, <1>6, <1>8, LeavesKeeps

LEMMA EvaluateBeforeKeeps ==
    ASSUME IInv, NEW c \in Calls, EvaluateBefore(c)
    PROVE  IInv' /\ \A d \in Calls : Right(d)
<1> DEFINE v == Decided(c, PreStage(c), NoResult)
           n == Len(worlds)
<1>1. /\ TypeOK /\ CallInv(c) /\ AP!IInv
      /\ worlds \in Seq(Worlds) /\ call[c].since \in 1 .. Len(worlds)
  BY DEF IInv, TypeOK
<1>2. /\ kind[c] # "message" /\ call[c].at = "read" /\ call[c].record # Gone
      /\ Hears(c, "auditing", v)
      /\ UNCHANGED <<worlds, kind, audit, attached, approvalVars>>
  BY DEF EvaluateBefore
<1>3. call[c].result = NoResult /\ call[c].record = worlds[call[c].since].record
  BY <1>1, <1>2 DEF CallInv
<1>4. /\ v \in Verdicts
      /\ call[c].since \in Window(c) /\ n \in Window(c)
      /\ call[c].since <= n /\ Known(call[c].since)
      /\ v = VerdictBetween(c, call[c].since, n, PreStage(c))
  BY <1>1, <1>2, <1>3, DecidedIsJudged
<1> HIDE DEF v
<1>5. /\ call' \in [Calls -> CallStates]
      /\ \A d \in Calls \ {c} : call'[d] = call[d]
      /\ call'[c].at = "auditing" /\ call'[c].verdict = v
      /\ call'[c].since = call[c].since /\ call'[c].result = call[c].result
  BY <1>1, <1>2, <1>4, HearsAt DEF Places
<1>6. AP!IInv' BY <1>1, <1>2, ApprovalStays
<1>7. stage' = stage BY <1>2 DEF approvalVars
<1>8. Judged(c, PreStage(c))'
  <2>1. PreStage(c)' = PreStage(c) BY <1>2 DEF PreStage
  <2>2. VerdictBetween(c, call[c].since, n, PreStage(c))' = v
    BY <1>2, <1>4, <1>5, <2>1 DEF VerdictBetween
  <2>3. Window(c)' = Window(c) /\ Known(call[c].since)'
    BY <1>2, <1>4, <1>5 DEF Window, Known
  <2> QED BY <1>2, <1>4, <1>5, <2>2, <2>3 DEF Judged
<1>9. CallInv(c)' BY <1>1, <1>2, <1>4, <1>5, <1>7, <1>8 DEF CallInv, ActedOn
<1>10. Right(c) BY <1>5, NoEntryIsRight
<1>11. /\ audit' \in [Calls -> Seq(Event)] /\ Len(audit'[c]) <= 2
       /\ call'[c].since \in 1 .. Len(worlds)
  BY <1>1, <1>2, <1>5 DEF TypeOK
<1> QED BY <1>2, <1>5, <1>6, <1>7, <1>9, <1>10, <1>11, OneGoesOn

-----------------------------------------------------------------------------
(* The first event, and what follows it.                                   *)

LEMMA OneIsSome == ASSUME NEW q, Len(q) = 1 PROVE q # <<>>
OBVIOUS

\* What a call brings along that was judged and not yet written down.
LEMMA Audited ==
    ASSUME IInv, NEW c \in Calls, call[c].at = "auditing", Emits(c)
    PROVE  /\ TypeOK /\ CallInv(c) /\ AP!IInv /\ stage[c] = "new" /\ kind[c] # "message"
           /\ call[c].verdict \in Verdicts /\ Judged(c, PreStage(c))
           /\ call[c].since \in 1 .. Len(worlds)
           /\ audit' \in [Calls -> Seq(Event)] /\ Len(audit'[c]) = 1
           /\ \A d \in Calls \ {c} : audit'[d] = audit[d]
           /\ audit'[c] # <<>> /\ audit'[c][1].verdict = call[c].verdict
<1>1. TypeOK /\ CallInv(c) /\ AP!IInv BY DEF IInv
<1>2. /\ audit[c] = <<>> /\ stage[c] = "new" /\ kind[c] # "message"
      /\ call[c].verdict \in Verdicts /\ Judged(c, PreStage(c))
  BY <1>1 DEF CallInv
<1>3. Len(audit[c]) = 0 /\ Len(audit[c]) + 1 = 1 BY <1>2
<1>4. /\ audit' \in [Calls -> Seq(Event)] /\ Len(audit'[c]) = 1
      /\ \A d \in Calls \ {c} : audit'[d] = audit[d]
      /\ audit'[c][1].verdict = call[c].verdict
  BY <1>1, <1>2, <1>3, EmitsOne
<1>5. audit'[c] # <<>> BY <1>4, OneIsSome
<1>6. call[c].since \in 1 .. Len(worlds) BY <1>1 DEF TypeOK
<1> QED BY <1>1, <1>2, <1>4, <1>5, <1>6

\* The verdict was right to go by.
LEMMA JudgedIsRight ==
    ASSUME NEW c \in Calls, Judged(c, PreStage(c)),
           \/ ~Objects(call[c].verdict)
           \/ call[c].verdict.decision = "require_approval" /\ stage'[c] = "approved"
    PROVE  ActsRight(c)
<1>1. PICK i, j \in Window(c) :
         /\ i <= j /\ Known(i)
         /\ call[c].verdict = VerdictBetween(c, i, j, PreStage(c))
  BY DEF Judged
<1>2. \/ ~Objects(VerdictBetween(c, i, j, PreStage(c)))
      \/ /\ VerdictBetween(c, i, j, PreStage(c)).decision = "require_approval"
         /\ stage'[c] = "approved"
  BY <1>1
<1> QED BY <1>1, <1>2 DEF ActsRight

\* The event is written and nobody is asked.
LEMMA AuditedKeeps ==
    ASSUME IInv, NEW c \in Calls, call[c].at = "auditing", Emits(c),
           NEW place \in {"acting", "denied", "spawned", "replied"}, Goes(c, place),
           place \in {"acting", "spawned"} => ~Objects(call[c].verdict),
           UNCHANGED <<worlds, kind, attached, approvalVars>>
    PROVE  IInv' /\ \A d \in Calls : Right(d)
<1>1. /\ TypeOK /\ CallInv(c) /\ AP!IInv /\ stage[c] = "new"
      /\ Judged(c, PreStage(c)) /\ call[c].since \in 1 .. Len(worlds)
      /\ audit' \in [Calls -> Seq(Event)] /\ Len(audit'[c]) = 1
      /\ \A d \in Calls \ {c} : audit'[d] = audit[d]
      /\ audit'[c] # <<>> /\ audit'[c][1].verdict = call[c].verdict
  BY Audited
<1>2. place \in Places BY DEF Places, Ended
<1>3. /\ call' \in [Calls -> CallStates]
      /\ \A d \in Calls \ {c} : call'[d] = call[d]
      /\ call'[c].at = place /\ call'[c].since = call[c].since
      /\ call'[c].verdict = call[c].verdict
  BY <1>1, <1>2, GoesTo
<1>4. AP!IInv' BY <1>1, ApprovalStays
<1>5. stage' = stage BY DEF approvalVars
<1>6. place = "acting" => Permitted(c)'
  BY <1>1, <1>3 DEF Permitted, Objects
<1>7. place = "spawned" => ~Objects(audit'[c][1].verdict)
  BY <1>1, <1>3 DEF Objects
<1>8. CallInv(c)' BY <1>1, <1>3, <1>5, <1>6, <1>7 DEF CallInv, ActedOn, AskingStages, Objects
<1>9. Right(c)
  <2>1. CASE place \in {"acting", "spawned"}
    <3>1. ActsRight(c) BY <1>1, <2>1, JudgedIsRight
    <3>2. ReturnsRight(c) BY <1>3, <2>1 DEF ReturnsRight, Enters
    <3> QED BY <3>1, <3>2 DEF Right
  <2>2. CASE place \in {"denied", "replied"} BY <1>3, <2>2, NoEntryIsRight
  <2> QED BY <2>1, <2>2
<1>10. call'[c].since \in 1 .. Len(worlds) /\ Len(audit'[c]) <= 2 BY <1>1, <1>3
<1> QED BY <1>1, <1>3, <1>4, <1>5, <1>8, <1>9, <1>10, OneGoesOn

LEMMA AnsweredKeeps ==
    ASSUME IInv, NEW c \in Calls, Passes(c) \/ Refuses(c) \/ SpawnOrNot(c) \/ Reply(c)
    PROVE  IInv' /\ \A d \in Calls : Right(d)
<1>1. CASE Passes(c) BY <1>1, AuditedKeeps DEF Passes
<1>2. CASE Refuses(c) BY <1>2, AuditedKeeps DEF Refuses
<1>3. CASE SpawnOrNot(c)
  <2>1. CASE Objects(call[c].verdict)
    <3>1. Goes(c, "denied") BY <1>3, <2>1 DEF SpawnOrNot
    <3> QED BY <1>3, <3>1, AuditedKeeps DEF SpawnOrNot
  <2>2. CASE ~Objects(call[c].verdict)
    <3>1. Goes(c, "spawned") BY <1>3, <2>2 DEF SpawnOrNot
    <3> QED BY <1>3, <2>2, <3>1, AuditedKeeps DEF SpawnOrNot
  <2> QED BY <2>1, <2>2
<1>4. CASE Reply(c) BY <1>4, AuditedKeeps DEF Reply
<1> QED BY <1>1, <1>2, <1>3, <1>4

-----------------------------------------------------------------------------
(* The approval.                                                           *)

\* The call follows the stage of its request.
LEMMA FollowsKeeps ==
    ASSUME IInv, NEW c \in Calls, NEW s \in A!Stages \ {"new"},
           stage' = [stage EXCEPT ![c] = s], AP!IInv', FollowsApproval(c),
           kind[c] # "message", Judged(c, PreStage(c)), call[c].verdict \in Verdicts,
           call[c].verdict.decision = "require_approval",
           audit' \in [Calls -> Seq(Event)], Len(audit'[c]) = 1,
           \A d \in Calls \ {c} : audit'[d] = audit[d],
           audit'[c][1].verdict = call[c].verdict
    PROVE  IInv' /\ \A d \in Calls : Right(d)
<1> DEFINE place == AfterApproval(s)
<1>1. /\ TypeOK /\ call[c].since \in 1 .. Len(worlds) /\ worlds \in Seq(Worlds)
      /\ stage \in [Calls -> A!Stages]
  BY ApprovalType DEF IInv, TypeOK
<1>2. stage'[c] = s /\ \A d \in Calls \ {c} : stage'[d] = stage[d] BY <1>1
<1>3. /\ s \in AskingStages => place = "approving"
      /\ s = "approved" => place = "acting"
      /\ s \in {"denied", "timed_out"} => place = "denied"
      /\ s = "raised" => place = "failed"
      /\ s \in AskingStages \cup {"approved", "denied", "timed_out", "raised"}
  BY DEF AfterApproval, AskingStages, A!Stages, A!Live, A!Ended
<1>4. place \in {"approving", "acting", "denied", "failed"} /\ place \in Places
  BY <1>3 DEF Places, Ended
<1>5. Goes(c, place) /\ UNCHANGED <<worlds, kind, attached>>
  BY <1>2 DEF FollowsApproval
<1> HIDE DEF place
<1>6. /\ call' \in [Calls -> CallStates]
      /\ \A d \in Calls \ {c} : call'[d] = call[d]
      /\ call'[c].at = place /\ call'[c].since = call[c].since
      /\ call'[c].verdict = call[c].verdict /\ call'[c].result = call[c].result
  BY <1>1, <1>4, <1>5, GoesTo
<1>7. Judged(c, PreStage(c))'
  <2>1. PreStage(c)' = PreStage(c) BY <1>5 DEF PreStage
  <2>2. \A i \in 1 .. Len(worlds) : worlds'[i] = worlds[i] BY <1>5
  <2>3. worlds' \in Seq(Worlds) /\ Len(worlds) <= Len(worlds') BY <1>1, <1>5
  <2>4. ASSUME NEW z, z = PreStage(c) PROVE Judged(c, z)'
    BY <1>1, <1>6, <2>2, <2>3, <2>4, JudgedStays
  <2> QED BY <2>1, <2>4 DEF Judged
<1>8. place = "acting" => s = "approved" BY <1>3 DEF AskingStages
<1>9. place = "acting" => Permitted(c)' BY <1>2, <1>8, OneIsSome DEF Permitted, Objects
<1>10. s \in AskingStages <=> place = "approving" BY <1>3 DEF AskingStages
<1>11. CallInv(c)'
  BY <1>2, <1>4, <1>5, <1>6, <1>7, <1>8, <1>9, <1>10 DEF CallInv, ActedOn
<1>12. Right(c)
  <2>1. CASE place = "acting"
    <3>1. ActsRight(c) BY <1>2, <1>8, <2>1, JudgedIsRight
    <3>2. ReturnsRight(c) BY <1>6, <2>1 DEF ReturnsRight, Enters
    <3> QED BY <3>1, <3>2 DEF Right
  <2>2. CASE place # "acting" BY <1>4, <1>6, <2>2, NoEntryIsRight
  <2> QED BY <2>1, <2>2
<1>13. call'[c].since \in 1 .. Len(worlds) /\ Len(audit'[c]) <= 2 BY <1>1, <1>6
<1> QED BY <1>2, <1>5, <1>6, <1>11, <1>12, <1>13, OneGoesOn

LEMMA AsksKeeps ==
    ASSUME IInv, NEW c \in Calls, Asks(c)
    PROVE  IInv' /\ \A d \in Calls : Right(d)
<1>1. /\ call[c].at = "auditing" /\ Emits(c) /\ FollowsApproval(c)
      /\ call[c].verdict.decision = "require_approval"
      /\ A!AnswerAtOnce(c) \/ A!AskCallback(c) \/ A!RequestManually(c) \/ A!Post(c)
  BY DEF Asks
<1>2. /\ AP!IInv /\ kind[c] # "message"
      /\ call[c].verdict \in Verdicts /\ Judged(c, PreStage(c))
      /\ audit' \in [Calls -> Seq(Event)] /\ Len(audit'[c]) = 1
      /\ \A d \in Calls \ {c} : audit'[d] = audit[d]
      /\ audit'[c][1].verdict = call[c].verdict
  BY <1>1, Audited
<1>3. AP!IInv' BY <1>1, <1>2, ApprovalGoesOn
<1>4. PICK s \in {"approved", "denied", "asking", "posting", "waiting"} :
         stage' = [stage EXCEPT ![c] = s]
  BY <1>1 DEF A!AnswerAtOnce, A!AskCallback, A!RequestManually, A!Post, A!EndsAs, A!WaitForAnswer
<1>5. s \in A!Stages \ {"new"} BY DEF A!Stages, A!Live, A!Ended
<1> QED BY <1>1, <1>2, <1>3, <1>4, <1>5, FollowsKeeps

LEMMA ApprovalKeeps ==
    ASSUME IInv, NEW c \in Calls,
           CallbackOrMessage(c) \/ PostEnds(c) \/ TimerOrAnswer(c) \/ GivesUp(c)
    PROVE  IInv' /\ \A d \in Calls : Right(d)
<1>1. /\ FollowsApproval(c) /\ audit' = audit
      /\ \/ A!CallbackEnds(c) \/ A!Deliver(c) \/ A!Cancel(c) \/ A!PostSucceeds(c)
         \/ A!PostFails(c) \/ A!Expire(c) \/ A!Resume(c) \/ A!GiveUp(c)
  BY DEF CallbackOrMessage, PostEnds, TimerOrAnswer, GivesUp
<1>2. TypeOK /\ CallInv(c) /\ AP!IInv /\ stage \in [Calls -> A!Stages]
  BY ApprovalType DEF IInv
<1>3. AP!IInv' BY <1>1, <1>2, ApprovalGoesOn
<1>4. /\ stage[c] \in AskingStages
      /\ \E s \in {"approved", "denied", "raised", "posting", "waiting", "expiring",
                   "cancelling", "timed_out"} : stage' = [stage EXCEPT ![c] = s]
  <2>1. CASE A!Deliver(c)
    <3>1. stage[c] = "posting" /\ stage' = stage BY <2>1 DEF A!Deliver
    <3>2. stage' = [stage EXCEPT ![c] = "posting"] BY <1>2, <3>1
    <3> QED BY <3>1, <3>2 DEF AskingStages
  <2>2. CASE A!Resume(c)
    BY <2>2 DEF A!Resume, A!EndsAs, A!Answers, AskingStages
  <2>3. CASE A!CallbackEnds(c) \/ A!Cancel(c) \/ A!PostFails(c)
    BY <2>3 DEF A!CallbackEnds, A!Cancel, A!PostFails, A!EndsAs, A!Answers, AskingStages
  <2>4. CASE A!PostSucceeds(c)
    BY <2>4 DEF A!PostSucceeds, A!WaitForAnswer, A!EndsAs, AskingStages
  <2>5. CASE A!Expire(c) \/ A!GiveUp(c)
    BY <2>5 DEF A!Expire, A!GiveUp, A!EndsAs, AskingStages
  <2> QED BY <1>1, <2>1, <2>2, <2>3, <2>4, <2>5
<1>5. PICK s \in A!Stages \ {"new"} : stage' = [stage EXCEPT ![c] = s]
  BY <1>4 DEF A!Stages, A!Live, A!Ended
<1>6. /\ kind[c] # "message" /\ call[c].verdict \in Verdicts /\ Judged(c, PreStage(c))
      /\ call[c].verdict.decision = "require_approval"
      /\ Len(audit'[c]) = 1 /\ audit'[c][1].verdict = call[c].verdict
  BY <1>1, <1>2, <1>4 DEF CallInv
<1>7. audit' \in [Calls -> Seq(Event)] BY <1>1, <1>2 DEF TypeOK
<1> QED BY <1>1, <1>3, <1>5, <1>6, <1>7, FollowsKeeps

-----------------------------------------------------------------------------
(* After the act.                                                          *)

LEMMA BackendKeeps ==
    ASSUME IInv, NEW c \in Calls, BackendReturns(c)
    PROVE  IInv' /\ \A d \in Calls : Right(d)
<1>1. /\ TypeOK /\ CallInv(c) /\ AP!IInv
      /\ call \in [Calls -> CallStates] /\ call[c] \in CallStates
      /\ worlds \in Seq(Worlds) /\ worlds # <<>>
  BY DEF IInv, TypeOK
<1>2. PICK x \in Results :
         call' = [call EXCEPT ![c].at = "read_again", ![c].since = Len(worlds),
                              ![c].record = World.record, ![c].result = x]
  BY DEF BackendReturns
<1> DEFINE o == [call[c] EXCEPT !.at = "read_again"]
           q == [o EXCEPT !.since = Len(worlds)]
           p == [q EXCEPT !.record = World.record]
           r == [p EXCEPT !.result = x]
<1>3. /\ call[c].at = "acting" /\ call' = [call EXCEPT ![c] = r]
      /\ UNCHANGED <<worlds, kind, audit, attached, approvalVars>>
  BY <1>2 DEF BackendReturns
<1>4. Len(worlds) \in 1 .. Len(worlds) /\ Len(worlds) \in Nat /\ World \in Worlds
  BY <1>1 DEF World
<1>5. World.record \in Records \cup {Gone} BY <1>4 DEF Worlds
<1>6. o \in CallStates /\ o.at = "read_again"
  BY <1>1 DEF CallStates, Places
<1> HIDE DEF o
<1>7. q \in CallStates /\ q.at = "read_again" /\ q.since = Len(worlds)
  BY <1>4, <1>6 DEF CallStates
<1> HIDE DEF q
<1>8. /\ p \in CallStates /\ p.at = "read_again" /\ p.since = Len(worlds)
      /\ p.record = worlds[Len(worlds)].record
  BY <1>5, <1>7 DEF CallStates, World
<1> HIDE DEF p
<1>9. /\ r \in CallStates /\ r.at = "read_again" /\ r.since = Len(worlds)
      /\ r.record = worlds[Len(worlds)].record
  BY <1>8 DEF CallStates
<1> HIDE DEF r
<1>10. /\ call' \in [Calls -> CallStates] /\ call'[c] = r
       /\ \A d \in Calls \ {c} : call'[d] = call[d]
  BY <1>1, <1>3, <1>9
<1>11. AP!IInv' BY <1>1, <1>3, ApprovalStays
<1>12. stage' = stage BY <1>3 DEF approvalVars
<1>13. Permitted(c)' BY <1>1, <1>3, <1>12 DEF CallInv, ActedOn, Permitted
<1>14. CallInv(c)' BY <1>1, <1>3, <1>9, <1>10, <1>12, <1>13 DEF CallInv, ActedOn, AskingStages
<1>15. Right(c) BY <1>9, <1>10, NoEntryIsRight
<1>16. /\ audit' \in [Calls -> Seq(Event)] /\ Len(audit'[c]) <= 2
       /\ call'[c].since \in 1 .. Len(worlds)
  BY <1>1, <1>3, <1>4, <1>9, <1>10 DEF TypeOK
<1> QED BY <1>3, <1>10, <1>11, <1>12, <1>14, <1>15, <1>16, OneGoesOn

LEMMA EvaluateAfterKeeps ==
    ASSUME IInv, NEW c \in Calls, EvaluateAfter(c)
    PROVE  IInv' /\ \A d \in Calls : Right(d)
<1> DEFINE v == Decided(c, PostStage(c), call[c].result)
           n == Len(worlds)
<1>1. /\ TypeOK /\ CallInv(c) /\ AP!IInv
      /\ worlds \in Seq(Worlds) /\ call[c].since \in 1 .. Len(worlds)
  BY DEF IInv, TypeOK
<1>2. /\ call[c].at = "read_again"
      /\ UNCHANGED <<worlds, kind, audit, attached, approvalVars>>
  BY DEF EvaluateAfter
<1>3. AP!IInv' BY <1>1, <1>2, ApprovalStays
<1>4. stage' = stage BY <1>2 DEF approvalVars
<1>5. /\ Permitted(c)' /\ stage'[c] \in {"new", "approved"}
      /\ Len(audit'[c]) = 1
  BY <1>1, <1>2, <1>4 DEF CallInv, ActedOn, Permitted
<1>6. audit' \in [Calls -> Seq(Event)] /\ Len(audit'[c]) <= 2
  BY <1>1, <1>2 DEF TypeOK
<1>7. CASE call[c].record = Gone
  <2>1. Hears(c, "withheld", NoVerdict) BY <1>7 DEF EvaluateAfter
  <2>2. /\ call' \in [Calls -> CallStates]
        /\ \A d \in Calls \ {c} : call'[d] = call[d]
        /\ call'[c].at = "withheld" /\ call'[c].since = call[c].since
    BY <1>1, <2>1, HearsAt DEF Places, Ended
  <2>3. CallInv(c)' BY <1>5, <2>2 DEF CallInv, ActedOn, AskingStages
  <2>4. Right(c) BY <2>2, NoEntryIsRight
  <2>5. call'[c].since \in 1 .. Len(worlds) BY <1>1, <2>2
  <2> QED BY <1>2, <1>3, <1>4, <1>6, <2>2, <2>3, <2>4, <2>5, OneGoesOn
<1>8. CASE call[c].record # Gone
  <2>1. Hears(c, "auditing_again", v) BY <1>8 DEF EvaluateAfter
  <2>2. call[c].record = worlds[call[c].since].record BY <1>1, <1>2 DEF CallInv
  <2>3. /\ v \in Verdicts
        /\ call[c].since \in Window(c) /\ n \in Window(c)
        /\ call[c].since <= n /\ Known(call[c].since)
        /\ v = VerdictBetween(c, call[c].since, n, PostStage(c))
    BY <1>1, <1>8, <2>2, DecidedIsJudged
  <2> HIDE DEF v
  <2>4. /\ call' \in [Calls -> CallStates]
        /\ \A d \in Calls \ {c} : call'[d] = call[d]
        /\ call'[c].at = "auditing_again" /\ call'[c].verdict = v
        /\ call'[c].since = call[c].since /\ call'[c].result = call[c].result
    BY <1>1, <2>1, <2>3, HearsAt DEF Places
  <2>5. Judged(c, PostStage(c))'
    <3>1. PostStage(c)' = PostStage(c) BY <1>2 DEF PostStage
    <3>2. VerdictBetween(c, call[c].since, n, PostStage(c))' = v
      BY <1>2, <2>3, <2>4, <3>1 DEF VerdictBetween
    <3>3. Window(c)' = Window(c) /\ Known(call[c].since)'
      BY <1>2, <2>3, <2>4 DEF Window, Known
    <3> QED BY <1>2, <2>3, <2>4, <3>2, <3>3 DEF Judged
  <2>6. CallInv(c)' BY <1>5, <2>3, <2>4, <2>5 DEF CallInv, ActedOn, AskingStages
  <2>7. Right(c) BY <2>4, NoEntryIsRight
  <2>8. call'[c].since \in 1 .. Len(worlds) BY <1>1, <2>4
  <2> QED BY <1>2, <1>3, <1>4, <1>6, <2>4, <2>6, <2>7, <2>8, OneGoesOn
<1> QED BY <1>7, <1>8

LEMMA ReturnOrNotKeeps ==
    ASSUME IInv, NEW c \in Calls, ReturnOrNot(c)
    PROVE  IInv' /\ \A d \in Calls : Right(d)
<1> DEFINE place == IF Objects(call[c].verdict) /\ call[c].verdict.decision = "deny"
                    THEN "withheld" ELSE "returned"
<1>1. /\ TypeOK /\ CallInv(c) /\ AP!IInv /\ call[c].since \in 1 .. Len(worlds)
  BY DEF IInv, TypeOK
<1>2. /\ call[c].at = "auditing_again" /\ Emits(c) /\ Goes(c, place)
      /\ UNCHANGED <<worlds, kind, attached, approvalVars>>
  BY DEF ReturnOrNot
<1>3. /\ call[c].verdict \in Verdicts /\ Judged(c, PostStage(c)) /\ Len(audit[c]) = 1
      /\ Permitted(c) /\ stage[c] \in {"new", "approved"}
  BY <1>1, <1>2 DEF CallInv, ActedOn
<1>4. /\ place \in Places /\ place \in {"withheld", "returned"}
      /\ place = "returned" /\ Objects(call[c].verdict)
            => call[c].verdict.decision = "require_approval"
  BY <1>3 DEF Places, Ended, Verdicts, Decisions, Objects
<1> HIDE DEF place
<1>5. /\ call' \in [Calls -> CallStates]
      /\ \A d \in Calls \ {c} : call'[d] = call[d]
      /\ call'[c].at = place /\ call'[c].since = call[c].since
  BY <1>1, <1>2, <1>4, GoesTo
<1>6. /\ audit' \in [Calls -> Seq(Event)] /\ Len(audit'[c]) = Len(audit[c]) + 1
      /\ \A d \in Calls \ {c} : audit'[d] = audit[d]
      /\ audit'[c][Len(audit[c]) + 1].verdict = call[c].verdict
      /\ \A i \in 1 .. Len(audit[c]) : audit'[c][i] = audit[c][i]
  BY <1>1, <1>2, <1>3, EmitsOne
<1>7. /\ Len(audit'[c]) = 2 /\ audit'[c][2].verdict = call[c].verdict
      /\ audit'[c][1] = audit[c][1]
  <2>1. Len(audit[c]) + 1 = 2 /\ 1 \in 1 .. Len(audit[c]) BY <1>3
  <2> QED BY <1>6, <2>1
<1>8. audit'[c] # <<>> BY <1>7
<1>9. AP!IInv' BY <1>1, <1>2, ApprovalStays
<1>10. stage' = stage BY <1>2 DEF approvalVars
<1>11. Permitted(c)' BY <1>3, <1>7, <1>8, <1>10 DEF Permitted, Objects
<1>12. CallInv(c)'
  <2>1. Objects(audit'[c][2].verdict) <=> Objects(call[c].verdict) BY <1>7 DEF Objects
  <2>2. place = "returned" /\ Objects(audit'[c][2].verdict)
            => audit'[c][2].verdict.decision = "require_approval"
    BY <1>4, <1>7, <2>1
  <2> QED BY <1>3, <1>4, <1>5, <1>7, <1>10, <1>11, <2>2 DEF CallInv, ActedOn, AskingStages, Objects
<1>13. Right(c)
  <2>1. CASE place = "withheld" BY <1>5, <2>1, NoEntryIsRight
  <2>2. CASE place = "returned"
    <3>1. PICK i, j \in Window(c) :
             /\ i <= j /\ Known(i)
             /\ call[c].verdict = VerdictBetween(c, i, j, PostStage(c))
      BY <1>3 DEF Judged
    <3>2. Objects(VerdictBetween(c, i, j, PostStage(c)))
              => VerdictBetween(c, i, j, PostStage(c)).decision # "deny"
      BY <1>4, <2>2, <3>1
    <3>3. ReturnsRight(c) BY <3>1, <3>2 DEF ReturnsRight
    <3>4. ActsRight(c) BY <1>5, <2>2 DEF ActsRight, Enters
    <3> QED BY <3>3, <3>4 DEF Right
  <2> QED BY <1>4, <2>1, <2>2
<1>14. call'[c].since \in 1 .. Len(worlds) /\ Len(audit'[c]) <= 2 BY <1>1, <1>5, <1>7
<1> QED BY <1>2, <1>5, <1>6, <1>9, <1>10, <1>12, <1>13, <1>14, OneGoesOn

LEMMA RaisesKeeps ==
    ASSUME IInv, NEW c \in Calls, Raises(c)
    PROVE  IInv' /\ \A d \in Calls : Right(d)
<1>1. TypeOK BY DEF IInv
<1>2. /\ call[c].at # "approving" /\ Goes(c, "failed")
      /\ UNCHANGED <<worlds, kind, attached, audit, approvalVars>>
  BY DEF Raises
<1>3. /\ call' \in [Calls -> CallStates]
      /\ \A d \in Calls \ {c} : call'[d] = call[d]
      /\ call'[c].at = "failed" /\ call'[c].since = call[c].since
  BY <1>1, <1>2, GoesTo DEF Places, Ended
<1>4. ActsRight(c) BY <1>3 DEF ActsRight, Enters
<1> QED BY <1>2, <1>3, <1>4, LeavesKeeps

-----------------------------------------------------------------------------
(* The rest of the world.                                                  *)

LEMMA AllStand ==
    ASSUME IInv, kind' = kind, UNCHANGED <<call, audit, attached>>, stage' = stage, AP!IInv',
           worlds' \in Seq(Worlds), worlds' # <<>>, Len(worlds) <= Len(worlds'),
           \A i \in 1 .. Len(worlds) : worlds'[i] = worlds[i]
    PROVE  IInv' /\ \A d \in Calls : Right(d)
<1>1. TypeOK'
  <2>1. worlds \in Seq(Worlds) /\ Len(worlds) \in Nat /\ Len(worlds') \in Nat
    BY DEF IInv, TypeOK
  <2>2. ASSUME NEW d \in Calls PROVE call[d].since \in DOMAIN worlds'
    <3>1. call[d].since \in 1 .. Len(worlds) BY DEF IInv, TypeOK
    <3>2. call[d].since \in 1 .. Len(worlds') BY <2>1, <3>1
    <3> QED BY <3>2
  <2>3. A!TypeOK' BY ApprovalTypeNext
  <2> QED BY <2>2, <2>3 DEF IInv, TypeOK
<1>2. ASSUME NEW d \in Calls PROVE CallInv(d)' /\ Right(d)
  BY StandsStill, StaysRight DEF IInv
<1> QED BY <1>1, <1>2 DEF IInv

LEMMA WorldKeeps ==
    ASSUME IInv, NEW world \in Worlds, Becomes(world)
    PROVE  IInv' /\ \A d \in Calls : Right(d)
<1>1. /\ worlds' = Append(worlds, world) /\ worlds \in Seq(Worlds)
      /\ UNCHANGED <<kind, call, audit, attached, approvalVars>>
  BY DEF Becomes, IInv, TypeOK
<1>2. /\ worlds' \in Seq(Worlds) /\ worlds' # <<>> /\ Len(worlds) <= Len(worlds')
      /\ \A i \in 1 .. Len(worlds) : worlds'[i] = worlds[i]
  BY <1>1
<1>3. AP!IInv' BY <1>1, ApprovalStays DEF IInv
<1>4. stage' = stage BY <1>1 DEF approvalVars
<1> QED BY <1>1, <1>2, <1>3, <1>4, AllStand

LEMMA WorldStep ==
    ASSUME IInv, RegistryChanges \/ ReloadPolicies \/ LoadPolicies \/ Tick
    PROVE  IInv' /\ \A d \in Calls : Right(d)
<1>1. worlds \in Seq(Worlds) /\ worlds # <<>> BY DEF IInv, TypeOK
<1>2. World \in Worlds BY <1>1 DEF World
<1>3. World.policy \in Seq(Rules) BY <1>2 DEF Worlds
<1>4. CASE RegistryChanges
  <2>1. PICK r \in Records \cup {Gone} : Becomes([World EXCEPT !.record = r])
    BY <1>4 DEF RegistryChanges
  <2>2. [World EXCEPT !.record = r] \in Worlds BY <1>2 DEF Worlds
  <2> QED BY <2>1, <2>2, WorldKeeps
<1>5. CASE ReloadPolicies
  <2>1. PICK f \in Files :
           Becomes([World EXCEPT !.policy = Loaded(World.policy, Parsed(f))])
    BY <1>5 DEF ReloadPolicies
  <2>2. Parsed(f) \in Seq(Rules) BY ParsedType, EnforcementAssumption DEF EnforcementAssumption
  <2>3. Loaded(World.policy, Parsed(f)) \in Seq(Rules) BY <1>3, <2>2 DEF Loaded
  <2> DEFINE p == Loaded(World.policy, Parsed(f))
  <2> HIDE DEF p
  <2>4. [World EXCEPT !.policy = p] \in Worlds
    <3>1. p \in Seq(Rules) BY <2>3 DEF p
    <3> QED BY <1>2, <3>1 DEF Worlds
  <2> QED BY <2>1, <2>4, WorldKeeps DEF p
<1>6. CASE LoadPolicies
  <2>1. PICK f \in Files : Becomes([World EXCEPT !.policy = Loaded(World.policy, f)])
    BY <1>6 DEF LoadPolicies
  <2>2. f \in Seq(Rules) BY EnforcementAssumption DEF EnforcementAssumption
  <2>3. Loaded(World.policy, f) \in Seq(Rules) BY <1>3, <2>2 DEF Loaded
  <2> DEFINE p == Loaded(World.policy, f)
  <2> HIDE DEF p
  <2>4. [World EXCEPT !.policy = p] \in Worlds
    <3>1. p \in Seq(Rules) BY <2>3 DEF p
    <3> QED BY <1>2, <3>1 DEF Worlds
  <2> QED BY <2>1, <2>4, WorldKeeps DEF p
<1>7. CASE Tick
  <2>1. World.time < MaxTime /\ Becomes([World EXCEPT !.time = World.time + 1])
    BY <1>7 DEF Tick
  <2>2. World.time \in 0 .. MaxTime /\ MaxTime \in Nat
    BY <1>2, EnforcementAssumption DEF Worlds, EnforcementAssumption
  <2>3. World.time + 1 \in 0 .. MaxTime BY <2>1, <2>2
  <2>4. [World EXCEPT !.time = World.time + 1] \in Worlds BY <1>2, <2>3 DEF Worlds
  <2> QED BY <2>1, <2>4, WorldKeeps
<1> QED BY <1>4, <1>5, <1>6, <1>7

LEMMA ApproverKeeps ==
    ASSUME IInv, NEW i \in CallIds, NEW d \in A!Answers, Approver(i, d)
    PROVE  IInv' /\ \A c \in Calls : Right(c)
<1>1. A!Decide(i, d) /\ UNCHANGED <<worlds, kind, call, audit, attached>> BY DEF Approver
<1>2. AP!IInv' /\ stage' = stage BY <1>1, ApproverAnswers DEF IInv
<1>3. worlds \in Seq(Worlds) /\ worlds # <<>> /\ Len(worlds) \in Nat BY DEF IInv, TypeOK
<1> QED BY <1>1, <1>2, <1>3, AllStand

LEMMA StutterKeeps ==
    ASSUME IInv, UNCHANGED vars
    PROVE  IInv' /\ \A c \in Calls : Right(c)
<1>1. UNCHANGED <<worlds, kind, call, audit, attached, approvalVars>> BY DEF vars
<1>2. AP!IInv' BY <1>1, ApprovalStays DEF IInv
<1>3. stage' = stage BY <1>1 DEF approvalVars
<1>4. worlds \in Seq(Worlds) /\ worlds # <<>> /\ Len(worlds) \in Nat BY DEF IInv, TypeOK
<1> QED BY <1>1, <1>2, <1>3, <1>4, AllStand

-----------------------------------------------------------------------------
(* Every step.                                                             *)

LEMMA StartHolds == ASSUME Init PROVE IInv
<1>1. AP!IInv BY ApprovalStarts DEF Init
<1>2. A!TypeOK /\ stage = [c \in Calls |-> "new"] BY <1>1, ApprovalType DEF Init, A!Init
<1> DEFINE w == [record |-> FirstRecord, policy |-> FirstPolicy, time |-> 0]
<1>3. w \in Worlds
  <2>1. FirstRecord \in Records /\ FirstPolicy \in Seq(Rules) /\ 0 \in 0 .. MaxTime
    BY EnforcementAssumption DEF EnforcementAssumption
  <2> QED BY <2>1 DEF Worlds
<1>4. worlds = <<w>> BY DEF Init
<1> HIDE DEF w
<1>5. worlds \in Seq(Worlds) /\ worlds # <<>> /\ 1 \in DOMAIN worlds BY <1>3, <1>4
<1> DEFINE k == [at |-> "new", record |-> Gone, verdict |-> NoVerdict,
                result |-> NoResult, since |-> 1]
<1>6. k \in CallStates /\ k.at = "new" /\ k.since = 1 /\ k.result = NoResult
  BY DEF CallStates, Places
<1>7. call = [c \in Calls |-> k] BY DEF Init
<1> HIDE DEF k
<1>8. call \in [Calls -> CallStates] /\ \A c \in Calls : call[c] = k BY <1>6, <1>7
<1>9. /\ audit \in [Calls -> Seq(Event)]
      /\ \A c \in Calls : audit[c] = <<>> /\ Len(audit[c]) = 0
  BY DEF Init
<1>10. TypeOK BY <1>2, <1>5, <1>6, <1>8, <1>9 DEF Init, TypeOK
<1>11. ASSUME NEW c \in Calls PROVE CallInv(c)
  BY <1>2, <1>6, <1>8, <1>9 DEF CallInv, ActedOn, AskingStages
<1> QED BY <1>1, <1>10, <1>11 DEF IInv

LEMMA NextKeeps == ASSUME IInv, [Next]_vars PROVE IInv' /\ \A c \in Calls : Right(c)
<1>1. CASE UNCHANGED vars BY <1>1, StutterKeeps
<1>2. ASSUME NEW c \in Calls,
             FindById(c) \/ Read(c) \/ MissesRecord(c) \/ RouteOrNot(c) \/ EvaluateBefore(c)
      PROVE  IInv' /\ \A d \in Calls : Right(d)
  BY <1>2, FindByIdKeeps, ReadKeeps, MissesRecordKeeps, RouteOrNotKeeps, EvaluateBeforeKeeps
<1>3. ASSUME NEW c \in Calls,
             \/ Passes(c) \/ Refuses(c) \/ Asks(c) \/ SpawnOrNot(c) \/ Reply(c)
             \/ CallbackOrMessage(c) \/ PostEnds(c) \/ TimerOrAnswer(c) \/ GivesUp(c)
      PROVE  IInv' /\ \A d \in Calls : Right(d)
  BY <1>3, AnsweredKeeps, AsksKeeps, ApprovalKeeps
<1>4. ASSUME NEW c \in Calls,
             BackendReturns(c) \/ EvaluateAfter(c) \/ ReturnOrNot(c) \/ Raises(c)
      PROVE  IInv' /\ \A d \in Calls : Right(d)
  BY <1>4, BackendKeeps, EvaluateAfterKeeps, ReturnOrNotKeeps, RaisesKeeps
<1>5. ASSUME NEW i \in CallIds, NEW d \in A!Answers, Approver(i, d)
      PROVE  IInv' /\ \A c \in Calls : Right(c)
  BY <1>5, ApproverKeeps
<1>6. CASE RegistryChanges \/ ReloadPolicies \/ LoadPolicies \/ Tick BY <1>6, WorldStep
<1> QED BY <1>1, <1>2, <1>3, <1>4, <1>5, <1>6 DEF Next

-----------------------------------------------------------------------------
(* What governed calls promise.                                            *)

\* An instance has definitions of its own of what a module defines.
LEMMA SameCount ==
    ASSUME NEW S
    PROVE  (AP!IsFiniteSet(S) <=> IsFiniteSet(S)) /\ AP!Cardinality(S) = Cardinality(S)
<1>1. AP!IsFiniteSet(S) <=> IsFiniteSet(S) BY DEF AP!IsFiniteSet, IsFiniteSet
<1>2. AP!Cardinality(S) = Cardinality(S) BY DEF AP!Cardinality, Cardinality
<1> QED BY <1>1, <1>2

\* At each await a call carries what it carries in the code: before the act
\* nothing is written and nobody asked, while it waits its request does, and
\* its verdict is what rules of the time say of the record it read.
THEOREM CallsInvariant == Spec => []IInv
<1>1. Init => IInv BY StartHolds
<1>2. IInv /\ [Next]_vars => IInv' BY NextKeeps
<1> QED BY <1>1, <1>2, PTL DEF Spec

\* Whatever files are loaded, every verdict is a decision and a mode, and no
\* call writes more than two events.
THEOREM CallsAreTyped == Spec => []TypeOK
<1>1. IInv => TypeOK BY DEF IInv
<1> QED BY <1>1, CallsInvariant, PTL

\* What the sink holds of a call tells why it acted, returned, spawned or was
\* answered, whatever the rules were.
THEOREM SinkExplainsActs == Spec => []AuditExplainsActs
<1>1. ASSUME IInv PROVE AuditExplainsActs
  BY <1>1 DEF IInv, CallInv, Permitted, AuditExplainsActs
<1> QED BY <1>1, CallsInvariant, PTL

\* The calls that share a request id act no more often than it was approved.
THEOREM ActsAreApproved == Spec => []ActsPerApproval
<1>1. ASSUME IInv PROVE ActsPerApproval
  <2> SUFFICES ASSUME mode \in {"manual", "posted"}, NEW i \in CallIds
               PROVE  Cardinality({ c \in Calls : /\ IdOf[c] = i
                                                  /\ stage[c] # "new"
                                                  /\ call[c].at \in ActedOn })
                          <= clicks[i]["approved"]
    BY DEF ActsPerApproval
  <2> DEFINE acted == { c \in Calls : /\ IdOf[c] = i
                                      /\ stage[c] # "new"
                                      /\ call[c].at \in ActedOn }
  <2>1. AP!Sent(i) /\ clicks[i]["approved"] \in Nat
    BY <1>1 DEF IInv, AP!IInv, AP!TypeOK, AP!Answers
  <2>2. ASSUME NEW c \in acted PROVE c \in AP!Approved(i)
    <3>1. stage[c] = "approved" BY <1>1 DEF IInv, CallInv
    <3>2. future[c] = "approved" BY <1>1, <3>1 DEF IInv, AP!IInv, AP!Placed
    <3> QED BY <3>2 DEF AP!Approved
  <2> HIDE DEF acted
  <2>3. acted \subseteq AP!Approved(i) BY <2>2
  <2>4. /\ IsFiniteSet(AP!Approved(i))
        /\ Cardinality(AP!Approved(i)) <= clicks[i]["approved"]
    BY <2>1, SameCount DEF AP!Sent
  <2>5. /\ Cardinality(acted) <= Cardinality(AP!Approved(i))
        /\ Cardinality(acted) \in Nat /\ Cardinality(AP!Approved(i)) \in Nat
    BY <2>3, <2>4, FS_Subset, FS_CardinalityType
  <2>6. Cardinality(acted) <= clicks[i]["approved"] BY <2>1, <2>4, <2>5
  <2> QED BY <2>6 DEF acted
<1> QED BY <1>1, CallsInvariant, PTL

\* An agent acts, spawns or sends only on an authority it had during the call,
\* or an approval of this call.
THEOREM CallsActOnCurrentAuthority == Spec => ActsOnCurrentAuthority
<1>1. ASSUME IInv, [Next]_vars PROVE \A c \in Calls : ActsRight(c)
  BY <1>1, NextKeeps DEF Right
<1>2. ASSUME IInv, [Next]_vars
      PROVE  [\A c \in Calls : ActsRight(c)]_vars
  BY <1>1, <1>2
<1> QED BY <1>2, CallsInvariant, PTL DEF Spec, ActsOnCurrentAuthority, ActsRight

\* post_check withholds what it denies on a record and rules that were there
\* since the backend answered, and every result of an agent that is gone.
THEOREM DeniedResultsStayWithheld == Spec => DeniedResultsAreWithheld
<1>1. ASSUME IInv, [Next]_vars
      PROVE  [\A c \in Calls : ReturnsRight(c)]_vars
  BY <1>1, NextKeeps DEF Right
<1> QED BY <1>1, CallsInvariant, PTL DEF Spec, DeniedResultsAreWithheld, ReturnsRight

-----------------------------------------------------------------------------
(* Grants.                                                                 *)

\* Rules that enforce grants deny what the record has no active grant for.
LEMMA UngrantedIsDenied ==
    ASSUME NEW policy \in Seq(Rules), EnforcesGrants(policy), NEW s \in EvaluationStages,
           NEW agent, NEW resource, NEW result, NEW time,
           Activation(agent, resource, result, time) \in Activations,
           resource \notin Active(agent, resource, time)
    PROVE  Evaluate(policy, s, agent, resource, result, time) = Verdict("deny", "hard")
<1> DEFINE a == Activation(agent, resource, result, time)
           hits == Hits(policy, s, a)
           first == FirstHit(policy, hits)
<1>1. a.resource \notin a.active BY DEF Activation
<1>2. PICK i \in hits : \A j \in hits : Before(policy, j, i) => Denies(policy[j], a)
  BY <1>1 DEF EnforcesGrants
<1>3. hits \in SUBSET DOMAIN policy /\ hits # {} BY <1>2 DEF Hits, Enabled
<1>4. first \in hits /\ Before(policy, first, i)
  <2> HIDE DEF hits
  <2> QED BY <1>2, <1>3, FirstHitIsAHit
<1>5. Denies(policy[first], a) BY <1>2, <1>4
<1>6. Evaluate(policy, s, agent, resource, result, time)
          = IF Truth(policy[first].expression, a) = "error" THEN Verdict("deny", "hard")
            ELSE Verdict(policy[first].decision, policy[first].mode)
  BY <1>3 DEF Evaluate
<1> HIDE DEF first, a
<1> QED BY <1>5, <1>6 DEF Denies

\* What an expression is told of a call is an activation.
LEMMA ToldAnActivation ==
    ASSUME NEW agent, IsAgent(agent), NEW resource \in Resources,
           NEW result \in Results \cup {NoResult}, NEW time
    PROVE  Activation(agent, resource, result, time) \in Activations
<1>1. agent.trusted \in BOOLEAN /\ Active(agent, resource, time) \subseteq Resources
  BY DEF IsAgent, Active
<1> QED BY <1>1 DEF Activation, Activations

\* A grant in force is all that makes a resource active.
LEMMA ActiveIsInForce ==
    ASSUME NEW agent, NEW resource, NEW time, resource \in Active(agent, resource, time)
    PROVE  \E g \in agent.grants : InForce(g, agent, resource, time)
BY DEF Active, InForce

\* Reading a file makes its rules hard, and leaves them in their order.
LEMMA ParsedEnforces ==
    ASSUME NEW file \in Seq(Rules), EnforcesGrants(file)
    PROVE  EnforcesGrants(Parsed(file))
<1> DEFINE read == Parsed(file)
<1>1. /\ DOMAIN read = DOMAIN file
      /\ \A i \in DOMAIN file :
            /\ read[i].stages = file[i].stages /\ read[i].expression = file[i].expression
            /\ read[i].decision = file[i].decision /\ read[i].priority = file[i].priority
            /\ read[i].enabled = file[i].enabled /\ read[i].mode = "hard"
  <2>1. ASSUME NEW i \in DOMAIN file
        PROVE  LET rule == [file[i] EXCEPT !.mode = "hard"]
               IN  /\ rule.stages = file[i].stages /\ rule.expression = file[i].expression
                   /\ rule.decision = file[i].decision /\ rule.priority = file[i].priority
                   /\ rule.enabled = file[i].enabled /\ rule.mode = "hard"
    <3>1. file[i] \in Rules OBVIOUS
    <3> QED BY <3>1 DEF Rules
  <2> QED BY <2>1 DEF Parsed
<1> HIDE DEF read
<1>2. SUFFICES ASSUME NEW s \in EvaluationStages, NEW a \in Activations,
                      a.resource \notin a.active
               PROVE  \E i \in Hits(read, s, a) :
                         \A j \in Hits(read, s, a) : Before(read, j, i) => Denies(read[j], a)
  BY DEF EnforcesGrants, read
<1>3. Hits(read, s, a) = Hits(file, s, a) BY <1>1 DEF Hits, Enabled
<1>4. PICK i \in Hits(file, s, a) :
         \A j \in Hits(file, s, a) : Before(file, j, i) => Denies(file[j], a)
  BY <1>2 DEF EnforcesGrants
<1>5. ASSUME NEW j \in Hits(file, s, a), Before(read, j, i) PROVE Denies(read[j], a)
  <2>1. i \in DOMAIN file /\ j \in DOMAIN file BY DEF Hits, Enabled
  <2>2. Before(file, j, i) BY <1>1, <1>5, <2>1 DEF Before
  <2>3. Denies(file[j], a) BY <1>4, <2>2
  <2> QED BY <1>1, <2>1, <2>3 DEF Denies
<1> QED BY <1>3, <1>4, <1>5

FilesEnforceGrants == \A f \in Files \cup {FirstPolicy} : Compiles(f) => EnforcesGrants(f)

GrantsEnforced == \A i \in DOMAIN worlds : EnforcesGrants(worlds[i].policy)

\* A policy in force is one that was loaded as a whole.
LEMMA LoadingEnforces ==
    ASSUME FilesEnforceGrants, NEW old, EnforcesGrants(old), NEW f \in Files
    PROVE  EnforcesGrants(Loaded(old, f)) /\ EnforcesGrants(Loaded(old, Parsed(f)))
<1>1. f \in Seq(Rules) BY EnforcementAssumption
<1>2. Compiles(Parsed(f)) => Compiles(f)
  <2>1. /\ DOMAIN Parsed(f) = DOMAIN f
        /\ \A i \in DOMAIN f : /\ Parsed(f)[i].enabled = f[i].enabled
                               /\ Parsed(f)[i].expression = f[i].expression
    <3>1. \A i \in DOMAIN f : f[i] \in Rules BY <1>1
    <3> QED BY <3>1 DEF Parsed, Rules
  <2> QED BY <2>1 DEF Compiles, Enabled
<1>3. Compiles(f) => EnforcesGrants(f) /\ EnforcesGrants(Parsed(f))
  BY <1>1, ParsedEnforces DEF FilesEnforceGrants
<1> QED BY <1>2, <1>3 DEF Loaded

LEMMA GrantsEnforcedStays ==
    ASSUME FilesEnforceGrants, IInv, GrantsEnforced, [Next]_vars
    PROVE  GrantsEnforced'
<1>1. worlds \in Seq(Worlds) /\ worlds # <<>> /\ World \in Worlds
      /\ EnforcesGrants(World.policy)
  <2>1. worlds \in Seq(Worlds) /\ worlds # <<>> BY DEF IInv, TypeOK
  <2>2. Len(worlds) \in DOMAIN worlds BY <2>1
  <2> QED BY <2>1, <2>2 DEF World, GrantsEnforced
<1>2. ASSUME NEW world, world \in Worlds, EnforcesGrants(world.policy), Becomes(world)
      PROVE  GrantsEnforced'
  <2>1. worlds' = Append(worlds, world) BY <1>2 DEF Becomes
  <2>2. ASSUME NEW i \in DOMAIN worlds'
        PROVE  worlds'[i] = world \/ (i \in DOMAIN worlds /\ worlds'[i] = worlds[i])
    <3>1. Len(worlds) \in Nat /\ i \in 1 .. (Len(worlds) + 1) BY <1>1, <2>1
    <3>2. CASE i = Len(worlds) + 1 BY <1>1, <2>1, <3>1, <3>2
    <3>3. CASE i \in 1 .. Len(worlds) BY <1>1, <2>1, <3>1, <3>3
    <3> QED BY <3>1, <3>2, <3>3
  <2> QED BY <1>2, <2>2 DEF GrantsEnforced
<1>3. ASSUME worlds' = worlds PROVE GrantsEnforced' BY <1>3 DEF GrantsEnforced
<1>4. CASE UNCHANGED vars BY <1>3, <1>4 DEF vars
<1>5. ASSUME NEW c \in Calls,
             FindById(c) \/ Read(c) \/ MissesRecord(c) \/ RouteOrNot(c) \/ EvaluateBefore(c)
      PROVE  GrantsEnforced'
  BY <1>3, <1>5 DEF FindById, Read, MissesRecord, RouteOrNot, EvaluateBefore
<1>6. ASSUME NEW c \in Calls,
             \/ Passes(c) \/ Refuses(c) \/ Asks(c) \/ SpawnOrNot(c) \/ Reply(c)
             \/ CallbackOrMessage(c) \/ PostEnds(c) \/ TimerOrAnswer(c) \/ GivesUp(c)
      PROVE  GrantsEnforced'
  BY <1>3, <1>6 DEF Passes, Refuses, Asks, SpawnOrNot, Reply, CallbackOrMessage, PostEnds,
                    TimerOrAnswer, GivesUp, FollowsApproval
<1>7. ASSUME NEW c \in Calls,
             BackendReturns(c) \/ EvaluateAfter(c) \/ ReturnOrNot(c) \/ Raises(c)
      PROVE  GrantsEnforced'
  BY <1>3, <1>7 DEF BackendReturns, EvaluateAfter, ReturnOrNot, Raises
<1>8. ASSUME NEW i \in CallIds, NEW d \in A!Answers, Approver(i, d) PROVE GrantsEnforced'
  BY <1>3, <1>8 DEF Approver
<1>9. CASE RegistryChanges
  <2>1. PICK r \in Records \cup {Gone} : Becomes([World EXCEPT !.record = r])
    BY <1>9 DEF RegistryChanges
  <2>2. [World EXCEPT !.record = r] \in Worlds
        /\ [World EXCEPT !.record = r].policy = World.policy
    BY <1>1 DEF Worlds
  <2> QED BY <1>1, <1>2, <2>1, <2>2
<1>10. ASSUME NEW p \in Seq(Rules), EnforcesGrants(p), Becomes([World EXCEPT !.policy = p])
       PROVE  GrantsEnforced'
  <2>1. [World EXCEPT !.policy = p] \in Worlds /\ [World EXCEPT !.policy = p].policy = p
    BY <1>1 DEF Worlds
  <2> QED BY <1>2, <1>10, <2>1
<1>11. CASE ReloadPolicies \/ LoadPolicies
  <2>1. PICK f \in Files : \/ Becomes([World EXCEPT !.policy = Loaded(World.policy, Parsed(f))])
                           \/ Becomes([World EXCEPT !.policy = Loaded(World.policy, f)])
    BY <1>11 DEF ReloadPolicies, LoadPolicies
  <2>2. f \in Seq(Rules) /\ Parsed(f) \in Seq(Rules) /\ World.policy \in Seq(Rules)
    BY <1>1, ParsedType, EnforcementAssumption DEF Worlds
  <2>3. Loaded(World.policy, Parsed(f)) \in Seq(Rules) /\ Loaded(World.policy, f) \in Seq(Rules)
    BY <2>2 DEF Loaded
  <2> QED BY <1>1, <1>10, <2>1, <2>3, LoadingEnforces
<1>12. CASE Tick
  <2>1. World.time < MaxTime /\ Becomes([World EXCEPT !.time = World.time + 1])
    BY <1>12 DEF Tick
  <2>2. World.time \in 0 .. MaxTime /\ MaxTime \in Nat
    BY <1>1, EnforcementAssumption DEF Worlds
  <2>3. World.time + 1 \in 0 .. MaxTime BY <2>1, <2>2
  <2>4. [World EXCEPT !.time = World.time + 1] \in Worlds
        /\ [World EXCEPT !.time = World.time + 1].policy = World.policy
    BY <1>1, <2>3 DEF Worlds
  <2> QED BY <1>1, <1>2, <2>1, <2>4
<1> QED BY <1>4, <1>5, <1>6, <1>7, <1>8, <1>9, <1>11, <1>12 DEF Next

\* Without a grant in force during the call, whatever is asked is denied.
LEMMA UnauthorizedIsDenied ==
    ASSUME IInv, GrantsEnforced, NEW c \in Calls, ~Authorized(c),
           NEW i \in Window(c), NEW j \in Window(c), i <= j, Known(i),
           NEW s \in EvaluationStages
    PROVE  VerdictBetween(c, i, j, s) = Verdict("deny", "hard")
<1>1. worlds \in Seq(Worlds) /\ call[c].since \in 1 .. Len(worlds) /\ call[c] \in CallStates
  BY DEF IInv, TypeOK
<1>2. i \in DOMAIN worlds /\ j \in DOMAIN worlds BY <1>1 DEF Window
<1>3. worlds[i] \in Worlds /\ worlds[j] \in Worlds BY <1>1, <1>2
<1>4. worlds[i].record \in Records /\ worlds[j].policy \in Seq(Rules)
  BY <1>3 DEF Known, Worlds
<1>5. IsAgent(worlds[i].record) /\ ResourceOf[c] \in Resources
  BY <1>4, EnforcementAssumption
<1>6. call[c].result \in Results \cup {NoResult} BY <1>1 DEF CallStates
<1>7. Activation(worlds[i].record, ResourceOf[c], call[c].result, worlds[j].time) \in Activations
  BY <1>5, <1>6, ToldAnActivation
<1>8. ResourceOf[c] \notin Active(worlds[i].record, ResourceOf[c], worlds[j].time)
  BY ActiveIsInForce DEF Authorized
<1>9. EnforcesGrants(worlds[j].policy) BY <1>2 DEF GrantsEnforced
<1> QED BY <1>4, <1>7, <1>8, <1>9, UngrantedIsDenied DEF VerdictBetween

\* Whatever the rules are besides, if each file that compiles enforces grants,
\* no path lets a registered agent act, spawn, send or have a result without a
\* grant of the time of the call; nor does an approver.
THEOREM NothingIsDoneWithoutGrant ==
    ASSUME \A f \in Files \cup {FirstPolicy} : Compiles(f) => EnforcesGrants(f)
    PROVE  Spec => NothingWithoutGrant
<1>1. FilesEnforceGrants BY DEF FilesEnforceGrants
<1>2. Init => GrantsEnforced
  <2>1. EnforcesGrants(FirstPolicy) BY EnforcementAssumption
  <2> QED BY <2>1 DEF Init, GrantsEnforced
<1>3. IInv /\ GrantsEnforced /\ [Next]_vars => GrantsEnforced'
  BY <1>1, GrantsEnforcedStays
<1> DEFINE Granted(c) ==
        Enters(c, {"acting", "spawned", "routed", "returned"}) =>
            \/ Authorized(c)
            \/ kind[c] = "message" /\ \E i \in Window(c) : ~Known(i)
<1>4. ASSUME IInv, GrantsEnforced, [Next]_vars, NEW c \in Calls PROVE Granted(c)
  <2> SUFFICES ASSUME Enters(c, {"acting", "spawned", "routed", "returned"}), ~Authorized(c)
               PROVE  kind[c] = "message" /\ \E i \in Window(c) : ~Known(i)
    OBVIOUS
  <2>1. ActsRight(c) /\ ReturnsRight(c) BY <1>4, NextKeeps DEF Right
  <2>2. PreStage(c) \in EvaluationStages /\ PostStage(c) \in EvaluationStages
    BY DEF PreStage, PostStage, EvaluationStages
  <2>3. Objects(Verdict("deny", "hard")) /\ Verdict("deny", "hard").decision = "deny"
    BY DEF Objects, Verdict
  <2>4. \A i, j \in Window(c) : i <= j /\ Known(i) =>
           /\ VerdictBetween(c, i, j, PreStage(c)) = Verdict("deny", "hard")
           /\ VerdictBetween(c, i, j, PostStage(c)) = Verdict("deny", "hard")
    BY <1>4, <2>2, UnauthorizedIsDenied
  <2>5. CASE Enters(c, {"acting", "spawned", "routed"})
    BY <2>1, <2>3, <2>4, <2>5 DEF ActsRight
  <2>6. CASE Enters(c, {"returned"})
    BY <2>1, <2>3, <2>4, <2>6 DEF ReturnsRight
  <2> QED BY <2>5, <2>6 DEF Enters
<1>5. ASSUME IInv, GrantsEnforced, [Next]_vars
      PROVE  [\A c \in Calls : Granted(c)]_vars
  BY <1>4, <1>5
<1> QED BY <1>2, <1>3, <1>5, CallsInvariant, PTL DEF Spec, NothingWithoutGrant

-----------------------------------------------------------------------------
(* What the approval services promise, they promise to governed calls.     *)

LEMMA EveryStepIsAtTheService == [Next]_vars => [AP!Next]_(AP!vars)
<1> SUFFICES ASSUME [Next]_vars PROVE AP!Next \/ UNCHANGED AP!vars
  OBVIOUS
<1>1. ASSUME UNCHANGED approvalVars PROVE UNCHANGED AP!vars
  BY <1>1 DEF approvalVars, AP!vars
<1>2. ASSUME NEW c \in Calls,
             \/ FindById(c) \/ Read(c) \/ MissesRecord(c) \/ RouteOrNot(c)
             \/ EvaluateBefore(c) \/ Passes(c) \/ Refuses(c) \/ SpawnOrNot(c) \/ Reply(c)
             \/ BackendReturns(c) \/ EvaluateAfter(c) \/ ReturnOrNot(c) \/ Raises(c)
      PROVE  UNCHANGED approvalVars
  BY <1>2 DEF FindById, Read, MissesRecord, RouteOrNot, EvaluateBefore, Passes, Refuses,
              SpawnOrNot, Reply, BackendReturns, EvaluateAfter, ReturnOrNot, Raises
<1>3. ASSUME NEW c \in Calls,
             Asks(c) \/ CallbackOrMessage(c) \/ PostEnds(c) \/ TimerOrAnswer(c) \/ GivesUp(c)
      PROVE  AP!Next
  <2>1. \/ A!AnswerAtOnce(c) \/ A!AskCallback(c) \/ A!RequestManually(c) \/ A!Post(c)
        \/ A!CallbackEnds(c) \/ A!Deliver(c) \/ A!Cancel(c) \/ A!PostSucceeds(c)
        \/ A!PostFails(c) \/ A!Expire(c) \/ A!Resume(c) \/ A!GiveUp(c)
    BY <1>3 DEF Asks, CallbackOrMessage, PostEnds, TimerOrAnswer, GivesUp
  <2> QED BY <2>1, CallIsRequest
<1>4. ASSUME NEW i \in CallIds, NEW d \in A!Answers, Approver(i, d) PROVE AP!Next
  BY <1>4, ApproverDecides DEF Approver
<1>5. ASSUME RegistryChanges \/ ReloadPolicies \/ LoadPolicies \/ Tick
      PROVE  UNCHANGED approvalVars
  BY <1>5 DEF RegistryChanges, ReloadPolicies, LoadPolicies, Tick, Becomes
<1>6. CASE UNCHANGED vars BY <1>1, <1>6 DEF vars
<1>7. CASE Next BY <1>1, <1>2, <1>3, <1>4, <1>5, <1>7 DEF Next
<1> QED BY <1>6, <1>7

\* Governed calls are requests of an approval service: seen from there, every
\* step of theirs is a step of Approval or none.  So its safety properties hold
\* of the calls, whatever policies, records and the other calls do.
THEOREM CallsImplementApproval == Spec => AP!Init /\ [][AP!Next]_(AP!vars)
<1>1. Init => AP!Init BY ServiceStarts DEF Init
<1> QED BY <1>1, EveryStepIsAtTheService, PTL DEF Spec
=============================================================================
