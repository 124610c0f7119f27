---------------------------- MODULE ApprovalProofs ----------------------------
(***************************************************************************)
(* The approval services, for every set of requests, whatever ids they     *)
(* carry, in every mode, and for any number of decisions.                  *)
(***************************************************************************)
EXTENDS Approval, FiniteSetTheorems, TLAPS

\* How far a request's future can be when the request is where it is.
Placed(r) ==
    /\ stage[r] \in {"new", "asking", "posting"} => future[r] = "none"
    /\ stage[r] = "waiting" => future[r] \in {"open"} \cup Answers
    /\ stage[r] \in {"expiring", "cancelling"} => future[r] \in {"cancelled"} \cup Answers
    /\ stage[r] = "asking" => mode = "callback"
    /\ stage[r] = "posting" => mode = "posted"
    /\ stage[r] = "approved" /\ mode \in {"manual", "posted"} => future[r] = "approved"

ListedLive == \A i \in DOMAIN futures : stage[futures[i]] \in Live

OwnIdListed ==
    \A r \in Requests :
        stage[r] \in Live /\ ~SharesId(r) => IdOf[r] \in DOMAIN futures

\* OneApprovalOneRequest speaks of requests that ended; what is counted step by
\* step is the futures that were given the answer.
Approved(i) == {r \in Requests : IdOf[r] = i /\ future[r] = "approved"}

Sent(i) == IsFiniteSet(Approved(i)) /\ Cardinality(Approved(i)) <= clicks[i]["approved"]

IInv ==
    /\ TypeOK
    /\ \A r \in Requests : Placed(r)
    /\ ListedLive
    /\ OwnIdListed
    /\ \A i \in RequestIds : Sent(i)

-----------------------------------------------------------------------------
(* Steps by what they do to the dictionaries.                              *)

LEMMA InitHolds == ASSUME Init PROVE IInv
<1>1. TypeOK
  <2>1. DOMAIN pending = {} /\ DOMAIN futures = {} BY DEF Init
  <2>2. stage \in [Requests -> Stages] BY DEF Init, Stages
  <2> QED BY <2>1, <2>2 DEF Init, TypeOK
<1>2. \A r \in Requests : Placed(r) BY DEF Init, Placed
<1>3. ListedLive
  <2>1. DOMAIN futures = {} BY DEF Init
  <2> QED BY <2>1 DEF ListedLive
<1>4. OwnIdListed BY DEF Init, OwnIdListed, Live
<1>5. ASSUME NEW i \in RequestIds PROVE Sent(i)
  <2>1. Approved(i) = {} BY DEF Init, Approved
  <2>2. clicks[i]["approved"] = 0 BY DEF Init, Answers
  <2> QED BY <2>1, <2>2, FS_EmptySet DEF Sent
<1> QED BY <1>1, <1>2, <1>3, <1>4, <1>5 DEF IInv

\* No future is given an approval.
LEMMA NothingApproved ==
    ASSUME IInv, UNCHANGED clicks,
           \A r \in Requests : future'[r] = "approved" => future[r] = "approved"
    PROVE  \A i \in RequestIds : Sent(i)'
<1> SUFFICES ASSUME NEW i \in RequestIds PROVE Sent(i)' OBVIOUS
<1>1. Sent(i) /\ clicks[i]["approved"] \in Nat BY DEF IInv, TypeOK, Answers
<1>2. Approved(i)' \subseteq Approved(i) BY DEF Approved
<1>3. /\ IsFiniteSet(Approved(i)') /\ Cardinality(Approved(i)') <= Cardinality(Approved(i))
      /\ Cardinality(Approved(i)) \in Nat /\ Cardinality(Approved(i)') \in Nat
  BY <1>1, <1>2, FS_Subset, FS_CardinalityType DEF Sent
<1>4. Cardinality(Approved(i)') <= clicks[i]["approved"] BY <1>1, <1>3 DEF Sent
<1> QED BY <1>3, <1>4 DEF Sent

\* One request moves on, and neither dictionary changes.
LEMMA MovesOn ==
    ASSUME IInv, NEW r \in Requests, NEW s \in Stages, EndsAs(r, s),
           s \in Live <=> stage[r] \in Live,
           s # "new",
           future' \in {future, [future EXCEPT ![r] = IF @ = "open" THEN "cancelled" ELSE @]},
           UNCHANGED <<mode, pending, futures, clicks>>, told' \subseteq Requests,
           Placed(r)'
    PROVE  IInv'
<1>1. /\ stage' = [stage EXCEPT ![r] = s] /\ stage \in [Requests -> Stages]
      /\ future \in [Requests -> {"none", "open", "cancelled"} \cup Answers]
  BY DEF EndsAs, IInv, TypeOK
<1>2. /\ future' \in [Requests -> {"none", "open", "cancelled"} \cup Answers]
      /\ \A q \in Requests : q # r => future'[q] = future[q]
      /\ future'[r] = "approved" => future[r] = "approved"
  BY <1>1
<1>3. TypeOK' BY <1>1, <1>2 DEF IInv, TypeOK
<1>4. ASSUME NEW q \in Requests, q # r PROVE Placed(q)'
  BY <1>1, <1>2, <1>4 DEF IInv, Placed
<1>5. ListedLive' BY <1>1 DEF IInv, TypeOK, ListedLive
<1>6. OwnIdListed'
  <2>1. \A q \in Requests : stage[q] # "new" => stage'[q] # "new" BY <1>1
  <2>2. \A q \in Requests : SharesId(q) => SharesId(q)' BY <2>1 DEF SharesId
  <2> QED BY <1>1, <2>2 DEF IInv, OwnIdListed
<1>7. \A i \in RequestIds : Sent(i)' BY <1>2, NothingApproved
<1> QED BY <1>3, <1>4, <1>5, <1>6, <1>7 DEF IInv

\* One request is listed, over what was there.
LEMMA Waits ==
    ASSUME IInv, NEW r \in Requests, stage[r] \in {"new", "posting"}, WaitForAnswer(r),
           UNCHANGED <<mode, clicks>>
    PROVE  IInv'
<1>1. /\ stage' = [stage EXCEPT ![r] = "waiting"] /\ stage \in [Requests -> Stages]
      /\ future' = [future EXCEPT ![r] = "open"]
      /\ future \in [Requests -> {"none", "open", "cancelled"} \cup Answers]
      /\ IdOf[r] \in RequestIds
  BY ApprovalAssumption DEF WaitForAnswer, EndsAs, IInv, TypeOK
<1>2. /\ DOMAIN futures' = DOMAIN futures \cup {IdOf[r]}
      /\ DOMAIN pending' = DOMAIN futures \cup {IdOf[r]}
      /\ futures'[IdOf[r]] = r /\ pending'[IdOf[r]] = r
      /\ \A i \in DOMAIN futures : i # IdOf[r] =>
            futures'[i] = futures[i] /\ pending'[i] = futures[i]
  BY DEF WaitForAnswer, With, IInv, TypeOK
<1>3. TypeOK'
  <2>1. stage' \in [Requests -> Stages] BY <1>1 DEF Stages, Live
  <2>2. future' \in [Requests -> {"none", "open", "cancelled"} \cup Answers] BY <1>1
  <2>3. told' \subseteq Requests BY DEF WaitForAnswer, IInv, TypeOK
  <2>4. \A i \in DOMAIN futures' :
           /\ futures'[i] \in Requests /\ IdOf[futures'[i]] = i
           /\ pending'[i] = futures'[i]
    BY <1>2 DEF IInv, TypeOK
  <2>5. DOMAIN pending' = DOMAIN futures' /\ DOMAIN futures' \subseteq RequestIds
    BY <1>1, <1>2 DEF IInv, TypeOK
  <2> QED BY <2>1, <2>2, <2>3, <2>4, <2>5 DEF IInv, TypeOK
<1>4. ASSUME NEW q \in Requests PROVE Placed(q)'
  <2>1. CASE q = r BY <1>1, <2>1 DEF Placed
  <2>2. CASE q # r BY <1>1, <2>2 DEF IInv, Placed
  <2> QED BY <2>1, <2>2
<1>5. ListedLive'
  <2>1. ASSUME NEW i \in DOMAIN futures, i # IdOf[r]
        PROVE  stage'[futures'[i]] \in Live
    <3>1. futures[i] \in Requests /\ futures[i] # r /\ stage[futures[i]] \in Live
      BY <2>1 DEF IInv, TypeOK, ListedLive
    <3> QED BY <1>1, <1>2, <2>1, <3>1
  <2>2. stage'[futures'[IdOf[r]]] \in Live BY <1>1, <1>2 DEF Live
  <2> QED BY <1>2, <2>1, <2>2 DEF ListedLive
<1>6. OwnIdListed'
  <2> SUFFICES ASSUME NEW q \in Requests, stage'[q] \in Live, ~SharesId(q)'
               PROVE  IdOf[q] \in DOMAIN futures'
    BY DEF OwnIdListed
  <2>1. CASE q = r BY <1>2, <2>1
  <2>2. CASE q # r
    <3>1. stage[q] \in Live BY <1>1, <2>2
    <3>2. SharesId(q) => SharesId(q)' BY <1>1 DEF SharesId
    <3> QED BY <1>2, <3>1, <3>2 DEF IInv, OwnIdListed
  <2> QED BY <2>1, <2>2
<1>7. \A i \in RequestIds : Sent(i)'
  <2>1. \A q \in Requests : future'[q] = "approved" => future[q] = "approved"
    BY <1>1
  <2> QED BY <2>1, NothingApproved
<1> QED BY <1>3, <1>4, <1>5, <1>6, <1>7 DEF IInv

\* One request ends, and what is listed under its id goes.
LEMMA EndsUnlisted ==
    ASSUME IInv, NEW r \in Requests, NEW s \in Ended, stage[r] \in Live, EndsAs(r, s),
           s = "approved" => future[r] = "approved",
           Unlist(r), UNCHANGED <<mode, future, told, clicks>>
    PROVE  IInv'
<1>1. /\ stage' = [stage EXCEPT ![r] = s] /\ stage \in [Requests -> Stages]
      /\ s \in Stages /\ s \notin Live /\ s # "new"
      /\ s \notin {"asking", "posting", "waiting", "expiring", "cancelling"}
  BY DEF EndsAs, IInv, TypeOK, Stages, Ended, Live
<1>2. /\ DOMAIN futures' = DOMAIN futures \ {IdOf[r]}
      /\ DOMAIN pending' = DOMAIN futures \ {IdOf[r]}
      /\ \A i \in DOMAIN futures : i # IdOf[r] =>
            futures'[i] = futures[i] /\ pending'[i] = futures[i]
  BY DEF Unlist, Without, IInv, TypeOK
<1>3. TypeOK'
  <2>1. stage' \in [Requests -> Stages] BY <1>1
  <2>2. \A i \in DOMAIN futures' :
           /\ futures'[i] \in Requests /\ IdOf[futures'[i]] = i
           /\ pending'[i] = futures'[i]
    BY <1>2 DEF IInv, TypeOK
  <2> QED BY <1>2, <2>1, <2>2 DEF IInv, TypeOK
<1>4. ASSUME NEW q \in Requests PROVE Placed(q)'
  <2>1. CASE q = r BY <1>1, <2>1 DEF Placed
  <2>2. CASE q # r BY <1>1, <2>2 DEF IInv, Placed
  <2> QED BY <2>1, <2>2
<1>5. ListedLive'
  <2> SUFFICES ASSUME NEW i \in DOMAIN futures' PROVE stage'[futures'[i]] \in Live
    BY DEF ListedLive
  <2>1. /\ futures[i] \in Requests /\ futures[i] # r /\ stage[futures[i]] \in Live
        /\ futures'[i] = futures[i]
    BY <1>2 DEF IInv, TypeOK, ListedLive
  <2> QED BY <1>1, <2>1
<1>6. OwnIdListed'
  <2> SUFFICES ASSUME NEW q \in Requests, stage'[q] \in Live, ~SharesId(q)'
               PROVE  IdOf[q] \in DOMAIN futures'
    BY DEF OwnIdListed
  <2>1. q # r /\ stage[q] \in Live BY <1>1
  <2>2. IdOf[q] # IdOf[r] BY <1>1, <2>1 DEF SharesId
  <2>3. SharesId(q) => SharesId(q)' BY <1>1 DEF SharesId
  <2> QED BY <1>2, <2>1, <2>2, <2>3 DEF IInv, OwnIdListed
<1>7. \A i \in RequestIds : Sent(i)' BY NothingApproved
<1> QED BY <1>3, <1>4, <1>5, <1>6, <1>7 DEF IInv

\* A decision settles one open future at most, and is counted.
LEMMA DecideKeeps ==
    ASSUME IInv, NEW i \in RequestIds, NEW d \in Answers, Decide(i, d)
    PROVE  IInv'
<1>1. /\ UNCHANGED <<mode, stage, pending, futures, told>>
      /\ clicks' = [clicks EXCEPT ![i][d] = @ + 1]
      /\ clicks \in [RequestIds -> [Answers -> Nat]]
      /\ future \in [Requests -> {"none", "open", "cancelled"} \cup Answers]
  BY DEF Decide, IInv, TypeOK
<1>2. \/ future' = future
      \/ \E q \in Requests :
            IdOf[q] = i /\ future[q] = "open" /\ future' = [future EXCEPT ![q] = d]
  BY DEF Decide, Settle, IInv, TypeOK
<1>3. TypeOK'
  <2>1. clicks' \in [RequestIds -> [Answers -> Nat]] BY <1>1
  <2>2. future' \in [Requests -> {"none", "open", "cancelled"} \cup Answers] BY <1>1, <1>2
  <2> QED BY <1>1, <2>1, <2>2 DEF IInv, TypeOK
<1>4. ASSUME NEW q \in Requests PROVE Placed(q)'
  <2>1. future'[q] = future[q] \/ (future[q] = "open" /\ future'[q] \in Answers)
    BY <1>1, <1>2
  <2> QED BY <1>1, <2>1 DEF IInv, Placed, Answers
<1>5. ListedLive' /\ OwnIdListed'
  BY <1>1 DEF IInv, ListedLive, OwnIdListed, SharesId
<1>6. ASSUME NEW j \in RequestIds PROVE Sent(j)'
  <2>1. /\ Sent(j) /\ clicks[j]["approved"] \in Nat
        /\ Cardinality(Approved(j)) \in Nat
    BY <1>1, FS_CardinalityType DEF IInv, Sent, Answers
  <2>2. clicks'[j]["approved"] = IF j = i /\ d = "approved" THEN clicks[j]["approved"] + 1
                                 ELSE clicks[j]["approved"]
    BY <1>1 DEF Answers
  <2>3. CASE Approved(j)' = Approved(j)
    BY <2>1, <2>2, <2>3 DEF Sent
  <2>4. CASE Approved(j)' # Approved(j)
    <3>1. PICK q \in Requests :
             IdOf[q] = i /\ future[q] = "open" /\ future' = [future EXCEPT ![q] = d]
      BY <1>2, <2>4 DEF Approved
    <3>2. /\ Approved(j)' = Approved(j) \cup {q}
          /\ q \notin Approved(j) /\ j = i /\ d = "approved"
      BY <1>1, <2>4, <3>1 DEF Approved
    <3>3. /\ IsFiniteSet(Approved(j)')
          /\ Cardinality(Approved(j)') = Cardinality(Approved(j)) + 1
      BY <2>1, <3>2, FS_AddElement DEF Sent
    <3> QED BY <2>1, <2>2, <3>2, <3>3 DEF Sent
  <2> QED BY <2>3, <2>4
<1> QED BY <1>3, <1>4, <1>5, <1>6 DEF IInv

-----------------------------------------------------------------------------
(* Every step.                                                             *)

\* Answered at once, asked, posted, called off before it waits.
LEMMA BeforeWaiting ==
    ASSUME IInv, NEW r \in Requests,
           \/ AnswerAtOnce(r) \/ AskCallback(r) \/ CallbackEnds(r) \/ Post(r)
           \/ Deliver(r) \/ PostFails(r)
           \/ stage[r] \in {"asking", "posting"} /\ Cancel(r)
    PROVE  IInv'
<1> Placed(r) /\ stage \in [Requests -> Stages] BY DEF IInv, TypeOK
<1>1. CASE AnswerAtOnce(r) \/ AskCallback(r) \/ CallbackEnds(r) \/ Post(r) \/ PostFails(r)
  <2>1. PICK s \in Stages \ (Live \cup {"new"}) :
           /\ EndsAs(r, s)
           /\ s = "approved" => mode \notin {"manual", "posted"}
           /\ s = "asking" => mode = "callback"
           /\ s = "posting" => mode = "posted" /\ stage[r] = "new"
           /\ s = "asking" => stage[r] = "new"
    BY <1>1 DEF AnswerAtOnce, AskCallback, CallbackEnds, Post, PostFails, Stages, Live,
                Ended, Answers, Placed
  <2>2. /\ stage[r] \notin Live /\ UNCHANGED <<mode, future, pending, futures, told, clicks>>
        /\ stage[r] = "new" => future[r] = "none"
    BY <1>1 DEF AnswerAtOnce, AskCallback, CallbackEnds, Post, PostFails, Live, Placed
  <2>3. stage'[r] = s BY <2>1 DEF EndsAs
  <2>4. Placed(r)'
    BY <2>1, <2>2, <2>3 DEF Placed, Live
  <2>5. told' \subseteq Requests BY <2>2 DEF IInv, TypeOK
  <2> QED BY <2>1, <2>2, <2>4, <2>5, MovesOn
<1>2. CASE Deliver(r)
  <2>1. /\ UNCHANGED <<mode, stage, future, pending, futures, clicks>>
        /\ told' \subseteq Requests
    BY <1>2 DEF Deliver, IInv, TypeOK
  <2> QED BY <2>1 DEF IInv, TypeOK, Placed, ListedLive, OwnIdListed, SharesId, Sent, Approved
<1>3. CASE stage[r] \in {"asking", "posting"} /\ Cancel(r)
  <2>1. /\ EndsAs(r, "raised") /\ stage[r] \notin Live
        /\ future' = [future EXCEPT ![r] = IF @ = "open" THEN "cancelled" ELSE @]
        /\ UNCHANGED <<mode, pending, futures, told, clicks>>
    BY <1>3 DEF Cancel, Live
  <2>2. "raised" \in Stages /\ "raised" \notin Live BY DEF Stages, Ended, Live
  <2>3. stage'[r] = "raised" BY <2>1 DEF EndsAs
  <2>4. Placed(r)' BY <2>3 DEF Placed
  <2>5. told' \subseteq Requests BY <2>1 DEF IInv, TypeOK
  <2> QED BY <2>1, <2>2, <2>4, <2>5, MovesOn
<1> QED BY <1>1, <1>2, <1>3

\* Timed out, or called off, while it waits.
LEMMA StopsWaiting ==
    ASSUME IInv, NEW r \in Requests,
           Expire(r) \/ (stage[r] \notin {"asking", "posting"} /\ Cancel(r))
    PROVE  IInv'
<1>1. PICK s \in {"expiring", "cancelling"} : EndsAs(r, s)
  BY DEF Expire, Cancel
<1>2. /\ stage[r] = "waiting"
      /\ future' = [future EXCEPT ![r] = IF @ = "open" THEN "cancelled" ELSE @]
      /\ UNCHANGED <<mode, pending, futures, told, clicks>>
  BY DEF Expire, Cancel
<1>3. s \in Stages /\ s \in Live /\ stage[r] \in Live BY <1>2 DEF Stages, Live
<1>4. Placed(r)'
  <2>1. stage'[r] = s BY <1>1 DEF EndsAs, IInv, TypeOK
  <2>2. future[r] \in {"open"} \cup Answers BY <1>2 DEF IInv, Placed
  <2>3. future'[r] \in {"cancelled"} \cup Answers
    BY <1>2, <2>2 DEF IInv, TypeOK, Answers
  <2> QED BY <1>1, <2>1, <2>3 DEF Placed
<1>5. told' \subseteq Requests BY <1>2 DEF IInv, TypeOK
<1> QED BY <1>1, <1>2, <1>3, <1>4, <1>5, MovesOn

LEMMA Ends == ASSUME IInv, NEW r \in Requests, GiveUp(r) \/ Resume(r) PROVE IInv'
<1>1. CASE GiveUp(r)
  <2>1. PICK s \in {"timed_out", "raised"} : EndsAs(r, s) BY <1>1 DEF GiveUp
  <2> QED BY <1>1, <2>1, EndsUnlisted DEF GiveUp, Live, Ended
<1>2. CASE Resume(r)
  <2>1. future[r] \in Ended /\ stage[r] \in Live BY <1>2 DEF Resume, Answers, Ended, Live
  <2> QED BY <1>2, <2>1, EndsUnlisted DEF Resume
<1> QED BY <1>1, <1>2

LEMMA NextKeeps == ASSUME IInv, [Next]_vars PROVE IInv'
<1>1. CASE UNCHANGED vars
  BY <1>1 DEF vars, IInv, TypeOK, Placed, ListedLive, OwnIdListed, SharesId, Sent, Approved
<1>2. ASSUME NEW r \in Requests,
             RequestManually(r) \/ PostSucceeds(r)
      PROVE  IInv'
  BY <1>2, Waits DEF RequestManually, PostSucceeds
<1>3. ASSUME NEW i \in RequestIds, NEW d \in Answers, Decide(i, d) PROVE IInv'
  BY <1>3, DecideKeeps
<1>4. ASSUME NEW r \in Requests,
             \/ AnswerAtOnce(r) \/ AskCallback(r) \/ CallbackEnds(r) \/ Post(r)
             \/ Deliver(r) \/ PostFails(r)
      PROVE  IInv'
  BY <1>4, BeforeWaiting
<1>5. ASSUME NEW r \in Requests, Expire(r) \/ Cancel(r) PROVE IInv'
  BY <1>5, BeforeWaiting, StopsWaiting
<1>6. ASSUME NEW r \in Requests, GiveUp(r) \/ Resume(r) PROVE IInv'
  BY <1>6, Ends
<1> QED BY <1>1, <1>2, <1>3, <1>4, <1>5, <1>6 DEF Next

-----------------------------------------------------------------------------
(* What the services promise.                                              *)

\* In every mode the dictionaries hold what waits for an answer, and no more
\* futures have an approval than decide() was given.
THEOREM ApprovalInvariant == Spec => []IInv
<1>1. Init => IInv BY InitHolds
<1>2. IInv /\ [Next]_vars => IInv' BY NextKeeps
<1> QED BY <1>1, <1>2, PTL DEF Spec

\* However many requests carry one id, no more of them are approved than the
\* approvals that decide() was given for it.
THEOREM ApprovalsAreNotShared == Spec => []OneApprovalOneRequest
<1>1. ASSUME IInv PROVE OneApprovalOneRequest
  <2> SUFFICES ASSUME mode \in {"manual", "posted"}, NEW i \in RequestIds
               PROVE  Cardinality({r \in Requests : IdOf[r] = i /\ stage[r] = "approved"})
                          <= clicks[i]["approved"]
    BY DEF OneApprovalOneRequest
  <2> DEFINE S == {r \in Requests : IdOf[r] = i /\ stage[r] = "approved"}
  <2>1. Sent(i) /\ clicks[i]["approved"] \in Nat BY <1>1 DEF IInv, TypeOK, Answers
  <2>2. S \subseteq Approved(i) BY <1>1 DEF IInv, Placed, Approved
  <2>3. /\ Cardinality(S) <= Cardinality(Approved(i))
        /\ Cardinality(S) \in Nat /\ Cardinality(Approved(i)) \in Nat
    BY <2>1, <2>2, FS_Subset, FS_CardinalityType DEF Sent
  <2>4. Cardinality(S) <= clicks[i]["approved"] BY <2>1, <2>3 DEF Sent
  <2> QED BY <2>4
<1> QED BY <1>1, ApprovalInvariant, PTL

\* list_pending shows requests that wait, and every one whose id is its own.
THEOREM PendingIsLive == Spec => []ListedIsLive
<1>1. ASSUME IInv PROVE ListedIsLive
  <2>1. \A i \in DOMAIN pending : stage[pending[i]] \in Live
    BY <1>1 DEF IInv, TypeOK, ListedLive
  <2>2. ASSUME NEW r \in Requests, stage[r] \in Live, ~SharesId(r)
        PROVE  IdOf[r] \in DOMAIN pending /\ pending[IdOf[r]] = r
    <3>1. IdOf[r] \in DOMAIN pending /\ IdOf[r] \in DOMAIN futures
      BY <1>1, <2>2 DEF IInv, TypeOK, OwnIdListed
    <3> DEFINE q == pending[IdOf[r]]
    <3>2. q \in Requests /\ IdOf[q] = IdOf[r] /\ stage[q] \in Live
      BY <1>1, <2>1, <3>1 DEF IInv, TypeOK
    <3>3. stage[q] # "new" BY <3>2 DEF Live
    <3>4. q = r BY <2>2, <3>2, <3>3 DEF SharesId
    <3> QED BY <3>1, <3>4
  <2> QED BY <2>1, <2>2 DEF ListedIsLive
<1> QED BY <1>1, ApprovalInvariant, PTL

\* A second decide() for a request changes neither its future nor its end.
THEOREM TheFirstAnswerStands == Spec => FirstAnswerStands
<1>1. ASSUME IInv, [Next]_vars, NEW r \in Requests
      PROVE  /\ future[r] \in Answers => future'[r] = future[r]
             /\ stage[r] \in Ended => stage'[r] = stage[r]
             /\ stage[r] = "waiting" /\ stage'[r] \in Answers => future[r] = stage'[r]
  <2> USE DEF Answers, Ended
  <2> /\ Placed(r) /\ stage \in [Requests -> Stages]
      /\ future \in [Requests -> {"none", "open", "cancelled"} \cup Answers]
    BY <1>1 DEF IInv, TypeOK
  <2>1. CASE UNCHANGED vars BY <2>1 DEF vars
  <2>2. ASSUME NEW q \in Requests,
               AnswerAtOnce(q) \/ AskCallback(q) \/ CallbackEnds(q) \/ Post(q) \/ PostFails(q)
        PROVE  /\ future' = future
               /\ stage[q] \in {"new", "asking", "posting"}
               /\ \E s : EndsAs(q, s)
    BY <2>2 DEF AnswerAtOnce, AskCallback, CallbackEnds, Post, PostFails
  <2>3. ASSUME NEW q \in Requests, RequestManually(q) \/ PostSucceeds(q)
        PROVE  /\ future' = [future EXCEPT ![q] = "open"] /\ future[q] = "none"
               /\ stage[q] \in {"new", "posting"} /\ EndsAs(q, "waiting")
    BY <1>1, <2>3 DEF RequestManually, PostSucceeds, WaitForAnswer, IInv, Placed
  <2>4. ASSUME NEW q \in Requests, Expire(q) \/ Cancel(q)
        PROVE  /\ future' = [future EXCEPT ![q] = IF @ = "open" THEN "cancelled" ELSE @]
               /\ stage[q] \in {"asking", "posting", "waiting"}
               /\ \E s \in {"expiring", "raised", "cancelling"} : EndsAs(q, s)
    BY <2>4 DEF Expire, Cancel
  <2>5. ASSUME NEW q \in Requests, GiveUp(q)
        PROVE  future' = future /\ stage[q] \in {"expiring", "cancelling"}
               /\ \E s : EndsAs(q, s)
    BY <2>5 DEF GiveUp
  <2>6. ASSUME NEW q \in Requests, Resume(q)
        PROVE  future' = future /\ stage[q] = "waiting" /\ EndsAs(q, future[q])
    BY <2>6 DEF Resume
  <2>7. ASSUME NEW q \in Requests, Deliver(q) PROVE UNCHANGED <<stage, future>>
    BY <2>7 DEF Deliver
  <2>8. ASSUME NEW i \in RequestIds, NEW d \in Answers, Decide(i, d)
        PROVE  /\ stage' = stage
               /\ future[r] \in Answers => future'[r] = future[r]
    BY <2>8 DEF Decide, Settle
  <2>9. CASE \E q \in Requests :
               AnswerAtOnce(q) \/ AskCallback(q) \/ CallbackEnds(q) \/ Post(q) \/ PostFails(q)
    BY <2>2, <2>9 DEF EndsAs
  <2>10. CASE \E q \in Requests : RequestManually(q) \/ PostSucceeds(q)
    BY <2>3, <2>10 DEF EndsAs
  <2>11. CASE \E q \in Requests : Expire(q) \/ Cancel(q)
    BY <2>4, <2>11 DEF EndsAs
  <2>12. CASE \E q \in Requests : GiveUp(q)
    BY <2>5, <2>12 DEF EndsAs
  <2>13. CASE \E q \in Requests : Resume(q)
    BY <2>6, <2>13 DEF EndsAs
  <2>14. CASE (\E q \in Requests : Deliver(q)) \/ \E i \in RequestIds, d \in Answers : Decide(i, d)
    BY <2>7, <2>8, <2>14
  <2> QED BY <1>1, <2>1, <2>9, <2>10, <2>11, <2>12, <2>13, <2>14 DEF Next
<1>2. ASSUME IInv, [Next]_vars
      PROVE  [\A r \in Requests :
                /\ future[r] \in Answers => future'[r] = future[r]
                /\ stage[r] \in Ended => stage'[r] = stage[r]
                /\ stage[r] = "waiting" /\ stage'[r] \in Answers => future[r] = stage'[r]]_vars
  BY <1>1, <1>2
<1> QED BY <1>2, ApprovalInvariant, PTL DEF Spec, FirstAnswerStands
=============================================================================
