------------------------------ MODULE Approval ------------------------------
(***************************************************************************)
(* The approval services: CallbackApprovalProvider (presidium/approval.py) *)
(* in its four modes, and the contrib providers that first post the        *)
(* request to a webhook or a Slack channel.  Decisions come from another   *)
(* task: the /v1/approvals agents of presidium_contrib/server, a webhook   *)
(* or button handler.                                                      *)
(*                                                                         *)
(* request_approval suspends at the callback, at the post and at           *)
(* wait_for(future, timeout).  Since Python 3.12 an expiring timer cancels *)
(* the waiting task even when its future has a result that the task was    *)
(* not resumed with yet: Expire may overtake a decision.                   *)
(***************************************************************************)
EXTENDS Naturals, FiniteSets

CONSTANTS
    Requests,    \* calls of request_approval
    RequestIds,  \* their request_id values
    IdOf,        \* IdOf[r]; two calls may carry one id (it ends in a timestamp)
    Modes,       \* the modes of the provider the runs use
    MaxClicks    \* bound on the decisions sent for one id

ASSUME ApprovalAssumption ==
    /\ IdOf \in [Requests -> RequestIds]
    /\ Modes \subseteq {"auto_approve", "auto_deny", "callback", "manual", "posted"}
    /\ MaxClicks \in Nat

VARIABLES
    mode,     \* the provider's mode, fixed when it is built
    stage,    \* where each call is; "approved", "denied", "timed_out" are
              \* the request's status and the answer returned
    future,   \* the state of each call's future
    pending,  \* _pending: id -> request
    futures,  \* _futures: id -> the request whose future it is
    told,     \* requests an approver can know of
    clicks    \* history: decisions sent, per id and answer

vars == <<mode, stage, future, pending, futures, told, clicks>>

Answers == {"approved", "denied"}
Live == {"waiting", "expiring", "cancelling"}
Ended == {"approved", "denied", "timed_out", "raised"}
Stages == {"new", "asking", "posting"} \cup Live \cup Ended

Init ==
    /\ mode \in Modes
    /\ stage = [r \in Requests |-> "new"]
    /\ future = [r \in Requests |-> "none"]
    /\ pending = <<>>
    /\ futures = <<>>
    /\ told = {}
    /\ clicks = [i \in RequestIds |-> [d \in Answers |-> 0]]

\* d[k] = v and d.pop(k, None)
With(d, k, v) == [x \in DOMAIN d \cup {k} |-> IF x = k THEN v ELSE d[x]]
Without(d, k) == [x \in DOMAIN d \ {k} |-> d[x]]

EndsAs(r, s) == stage' = [stage EXCEPT ![r] = s]

(***************************************************************************)
(* request_approval                                                        *)
(***************************************************************************)
\* The future is created and listed under the id, over what was there.
WaitForAnswer(r) ==
    /\ EndsAs(r, "waiting")
    /\ future' = [future EXCEPT ![r] = "open"]
    /\ pending' = With(pending, IdOf[r], r)
    /\ futures' = With(futures, IdOf[r], r)
    /\ told' = told \cup {r}

AnswerAtOnce(r) ==
    /\ stage[r] = "new"
    /\ \/ mode = "auto_approve" /\ EndsAs(r, "approved")
       \/ mode = "auto_deny" /\ EndsAs(r, "denied")
    /\ UNCHANGED <<mode, future, pending, futures, told, clicks>>

AskCallback(r) ==
    /\ stage[r] = "new" /\ mode = "callback"
    /\ EndsAs(r, "asking")
    /\ UNCHANGED <<mode, future, pending, futures, told, clicks>>

\* The callback is the caller's code: it answers or raises, or never ends.
CallbackEnds(r) ==
    /\ stage[r] = "asking"
    /\ \E s \in Answers \cup {"raised"} : EndsAs(r, s)
    /\ UNCHANGED <<mode, future, pending, futures, told, clicks>>

RequestManually(r) ==
    /\ stage[r] = "new" /\ mode = "manual"
    /\ WaitForAnswer(r)
    /\ UNCHANGED <<mode, clicks>>

\* The webhook and Slack providers post before anything is listed.
Post(r) ==
    /\ stage[r] = "new" /\ mode = "posted"
    /\ EndsAs(r, "posting")
    /\ UNCHANGED <<mode, future, pending, futures, told, clicks>>

\* The message arrives: from here on an approver may answer.
Deliver(r) ==
    /\ stage[r] = "posting"
    /\ told' = told \cup {r}
    /\ UNCHANGED <<mode, stage, future, pending, futures, clicks>>

PostSucceeds(r) ==
    /\ stage[r] = "posting" /\ r \in told
    /\ WaitForAnswer(r)
    /\ UNCHANGED <<mode, clicks>>

\* No answer, or an error answer: denied, though the message may be out.
PostFails(r) ==
    /\ stage[r] = "posting"
    /\ EndsAs(r, "denied")
    /\ UNCHANGED <<mode, future, pending, futures, told, clicks>>

(***************************************************************************)
(* Waiting                                                                 *)
(***************************************************************************)
\* Faulty variant: only the call that is listed under its id times out.
ExpireListed(r) ==
    /\ stage[r] = "waiting"
    /\ IdOf[r] \in DOMAIN futures /\ futures[IdOf[r]] = r
    /\ EndsAs(r, "expiring")
    /\ future' = [future EXCEPT ![r] = IF @ = "open" THEN "cancelled" ELSE @]
    /\ UNCHANGED <<mode, pending, futures, told, clicks>>

\* The timer of wait_for fires.
Expire(r) ==
    /\ stage[r] = "waiting"
    /\ EndsAs(r, "expiring")
    /\ future' = [future EXCEPT ![r] = IF @ = "open" THEN "cancelled" ELSE @]
    /\ UNCHANGED <<mode, pending, futures, told, clicks>>

\* Faulty variant: the request stays in _pending.
UnlistFutureOnly(r) ==
    /\ futures' = Without(futures, IdOf[r])
    /\ UNCHANGED pending

\* The finally clause: whatever is listed under the id goes.
Unlist(r) ==
    /\ pending' = Without(pending, IdOf[r])
    /\ futures' = Without(futures, IdOf[r])

\* The calling task is cancelled (its agent is stopped).
Cancel(r) ==
    /\ \/ stage[r] \in {"asking", "posting"} /\ EndsAs(r, "raised")
       \/ stage[r] = "waiting" /\ EndsAs(r, "cancelling")
    /\ future' = [future EXCEPT ![r] = IF @ = "open" THEN "cancelled" ELSE @]
    /\ UNCHANGED <<mode, pending, futures, told, clicks>>

\* The task resumes after its timer fired, denied, "timed out", or after it
\* was cancelled.
GiveUp(r) ==
    /\ \/ stage[r] = "expiring" /\ EndsAs(r, "timed_out")
       \/ stage[r] = "cancelling" /\ EndsAs(r, "raised")
    /\ Unlist(r)
    /\ UNCHANGED <<mode, future, told, clicks>>

\* The task resumes with its future's result.
Resume(r) ==
    /\ stage[r] = "waiting" /\ future[r] \in Answers
    /\ EndsAs(r, future[r])
    /\ Unlist(r)
    /\ UNCHANGED <<mode, future, told, clicks>>

(***************************************************************************)
(* decide                                                                  *)
(***************************************************************************)
\* Faulty variant: an answer replaces the one that is there.
SettleAgain(i, d) ==
    IF i \in DOMAIN futures
    THEN future' = [future EXCEPT ![futures[i]] = d]
    ELSE UNCHANGED future

\* Faulty variant: every call that waits under the id gets the answer.
SettleAll(i, d) ==
    future' = [r \in Requests |->
        IF IdOf[r] = i /\ future[r] = "open" THEN d ELSE future[r]]

\* Without an open future under the id the decision has no effect, and the
\* caller cannot tell.
Settle(i, d) ==
    IF i \in DOMAIN futures /\ future[futures[i]] = "open"
    THEN future' = [future EXCEPT ![futures[i]] = d]
    ELSE UNCHANGED future

\* An approver answers for an id of a request that is known, as often as
\* the approver likes.
Decide(i, d) ==
    /\ \E r \in told : IdOf[r] = i
    /\ clicks[i][d] < MaxClicks
    /\ clicks' = [clicks EXCEPT ![i][d] = @ + 1]
    /\ Settle(i, d)
    /\ UNCHANGED <<mode, stage, pending, futures, told>>

Next ==
    \/ \E r \in Requests :
          \/ AnswerAtOnce(r)
          \/ AskCallback(r)
          \/ CallbackEnds(r)
          \/ RequestManually(r)
          \/ Post(r)
          \/ Deliver(r)
          \/ PostSucceeds(r)
          \/ PostFails(r)
          \/ Expire(r)
          \/ Cancel(r)
          \/ GiveUp(r)
          \/ Resume(r)
    \/ \E i \in RequestIds, d \in Answers : Decide(i, d)

\* Timers fire, resumed tasks run, and a post ends (httpx gives it 10 s).
\* Nothing makes a callback end or an approver answer.
Fairness ==
    \A r \in Requests :
        /\ WF_vars(Expire(r) \/ Resume(r))
        /\ WF_vars(GiveUp(r))
        /\ WF_vars(PostSucceeds(r) \/ PostFails(r))

Spec == Init /\ [][Next]_vars /\ Fairness

(***************************************************************************)
(* Invariants                                                              *)
(***************************************************************************)
\* Every variable has its type; an id is listed under one of its requests.
TypeOK ==
    /\ mode \in Modes
    /\ stage \in [Requests -> Stages]
    /\ future \in [Requests -> {"none", "open", "cancelled"} \cup Answers]
    /\ DOMAIN pending = DOMAIN futures
    /\ \A i \in DOMAIN futures :
          /\ futures[i] \in Requests /\ IdOf[futures[i]] = i
          /\ pending[i] = futures[i]
    /\ DOMAIN futures \subseteq RequestIds
    /\ told \subseteq Requests
    /\ clicks \in [RequestIds -> [Answers -> Nat]]

\* One approval lets one request through: however calls with the same id
\* overlap, no more of them are approved than approvals were sent.
OneApprovalOneRequest ==
    mode \in {"manual", "posted"} =>
        \A i \in RequestIds :
            Cardinality({r \in Requests : IdOf[r] = i /\ stage[r] = "approved"})
                <= clicks[i]["approved"]

SharesId(r) == \E q \in Requests \ {r} : IdOf[q] = IdOf[r] /\ stage[q] # "new"

\* list_pending shows the requests that wait and no others: nothing that has
\* ended stays listed, and a request whose id is its own is listed, hence
\* decidable, for as long as it waits.
ListedIsLive ==
    /\ \A i \in DOMAIN pending : stage[pending[i]] \in Live
    /\ \A r \in Requests :
          stage[r] \in Live /\ ~SharesId(r) =>
              IdOf[r] \in DOMAIN pending /\ pending[IdOf[r]] = r

(***************************************************************************)
(* Action properties                                                       *)
(***************************************************************************)
\* The first answer that reaches a request stands: later answers, also
\* contrary ones, change neither the future nor a request that has ended.
FirstAnswerStands ==
    [][\A r \in Requests :
          /\ future[r] \in Answers => future'[r] = future[r]
          /\ stage[r] \in Ended => stage'[r] = stage[r]
          /\ stage[r] = "waiting" /\ stage'[r] \in Answers => future[r] = stage'[r]]_vars

(***************************************************************************)
(* Liveness                                                                *)
(***************************************************************************)
\* A request that waits or is being posted ends, answered or not, even when
\* another call with its id took its place in the dictionaries.
EveryRequestEnds ==
    \A r \in Requests : stage[r] \in {"posting"} \cup Live ~> stage[r] \in Ended

(***************************************************************************)
(* A claim of the documentation that the code does not meet                *)
(***************************************************************************)
\* approval-service-requirements.md, FR-2.1: an approver can approve or deny
\* a pending request, here: an answer to a request that was delivered and is
\* not answered reaches it.
AnswerIsHeard ==
    [][\A r \in told :
          /\ stage[r] \in {"posting", "waiting"}
          /\ future[r] \in {"none", "open"}
          /\ clicks'[IdOf[r]] # clicks[IdOf[r]]
          => future'[r] \in Answers]_vars
=============================================================================
