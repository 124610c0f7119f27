----------------------- MODULE GatewayAndScorerProofs -----------------------
(***************************************************************************)
(* Two components that share nothing, each a leaf of the project: the      *)
(* calls through external gateways (ToolGateway), and the scorers that     *)
(* keep their events (EventScorers).                                       *)
(***************************************************************************)
EXTENDS ToolGateway, EventScorers, SequenceTheorems, FiniteSetTheorems,
        WellFoundedInduction, TLAPS

-----------------------------------------------------------------------------
(* I. What a call through an external gateway may do, for every value of   *)
(* the constants: whatever OPA's documents say, whatever tools there are,  *)
(* and however often the gateway, the approvals and the documents change.  *)

Places == {"new", "listed", "poisoned", "asking", "answered", "approving", "denied",
           "acting", "failed", "asking_again", "answered_again", "withheld", "returned"}

Verdicts == [decision : Decisions, mode : Modes] \cup {NoVerdict}

CallType == [at : Places, since : Nat, definition : Definitions, arguments : Arguments,
             verdict : Verdicts, result : SUBSET [holds : Contents, spot : Spots],
             contains : BOOLEAN]

Typed ==
    /\ worlds \in Seq(Worlds) /\ worlds # <<>>
    /\ kind \in [Calls -> Kinds]
    /\ options \in [allowUnapproved : BOOLEAN, scans : BOOLEAN, masks : BOOLEAN]
    /\ call \in [Calls -> CallType]
    /\ \A c \in Calls : call[c].since \in 1 .. Len(worlds)

\* Until it acts, a call of the pipeline has the definition that was served when
\* it looked ...
Looked(c) ==
    InPipeline(c) /\ call[c].at \in {"listed", "asking", "answered", "approving"}
    => call[c].definition = Listed(worlds[call[c].since].served)

\* ... and, once examined, that was approved since.
Examined(c) ==
    InPipeline(c) /\ ~options.allowUnapproved /\ call[c].at \in {"asking", "answered", "approving"}
    => \E i \in Window(c) : worlds[i].approved = call[c].definition

\* A document of the call's time lets it pass.
Permitted(c) ==
    \E i \in Window(c) :
        /\ worlds[i].document # Down
        /\ NotDenied(OpaVerdict(worlds[i].document, QuestionBefore(c)))

Answered(c) ==
    /\ call[c].at = "answered" =>
          \/ call[c].verdict = Closed
          \/ \E i \in Window(c) :
                call[c].verdict = OpaVerdict(worlds[i].document, QuestionBefore(c))
    /\ call[c].at = "approving" => Permitted(c)

\* Until it is handed over, a result is as the tool gave it, what the policy is
\* told of it is so, and the answer is no, or that of a document of its time.
Judged(c) ==
    /\ call[c].at \in {"asking_again", "answered_again"} =>
          /\ call[c].result \in Unprocessed
          /\ call[c].contains <=>
                InPipeline(c) /\ options.scans /\ HoldsPersonal(call[c].result)
    /\ call[c].at = "answered_again" =>
          \/ call[c].verdict = Closed
          \/ \E i \in Window(c) :
                call[c].verdict = OpaVerdict(worlds[i].document, QuestionAfter(c))

CallInv(c) == Looked(c) /\ Examined(c) /\ Answered(c) /\ Judged(c)

IInv == Typed /\ \A c \in Calls : CallInv(c)

-----------------------------------------------------------------------------
(* What OPA's word is worth.                                               *)

LEMMA VerdictTypes ==
    ASSUME NEW document, NEW question
    PROVE  OpaVerdict(document, question) \in [decision : Decisions, mode : Modes]
<1>1. ASSUME NEW answer
      PROVE  DecisionOf(answer) \in Decisions /\ ModeOf(answer) \in Modes
  <2>1. DecisionOf(answer) \in Decisions BY DEF DecisionOf, Decisions
  <2>2. ModeOf(answer) \in Modes BY DEF ModeOf, Modes
  <2> QED BY <2>1, <2>2
<1>2. Closed \in [decision : Decisions, mode : Modes]
      /\ Verdict("allow", "hard") \in [decision : Decisions, mode : Modes]
  BY DEF Closed, Verdict, Decisions, Modes
<1>3. Verdict(DecisionOf(Says(document, question)), ModeOf(Says(document, question)))
         \in [decision : Decisions, mode : Modes]
  BY <1>1 DEF Verdict
<1> QED BY <1>2, <1>3 DEF OpaVerdict

\* A no without an answer is as hard as a no can be, and is all there is when
\* OPA is away.
LEMMA ClosedObjects ==
    /\ Closed.mode = "hard" /\ Closed.decision = "deny"
    /\ Objects(Closed) /\ ~NotDenied(Closed)
    /\ \A question : OpaVerdict(Down, question) = Closed
BY DEF Closed, Verdict, Objects, NotDenied, OpaVerdict

\* A verdict that does not deny with force is that of a document OPA had.
LEMMA WordIsADocuments ==
    ASSUME NEW c \in Calls, Answered(c), call[c].at = "answered", NotDenied(call[c].verdict)
    PROVE  \E i \in Window(c) :
              /\ worlds[i].document # Down
              /\ call[c].verdict = OpaVerdict(worlds[i].document, QuestionBefore(c))
<1>1. call[c].verdict # Closed BY ClosedObjects
<1>2. PICK i \in Window(c) :
         call[c].verdict = OpaVerdict(worlds[i].document, QuestionBefore(c))
  BY <1>1 DEF Answered
<1>3. worlds[i].document # Down BY <1>1, <1>2, ClosedObjects
<1> QED BY <1>2, <1>3

-----------------------------------------------------------------------------
(* The world changes, or one call goes on.                                 *)

\* A call's record stays one, whichever of its fields is set.
LEMMA FieldsAreSet ==
    ASSUME NEW r \in CallType
    PROVE  /\ \A x \in Places : [r EXCEPT !.at = x] \in CallType
           /\ \A x \in Nat : [r EXCEPT !.since = x] \in CallType
           /\ \A x \in Definitions : [r EXCEPT !.definition = x] \in CallType
           /\ \A x \in Verdicts : [r EXCEPT !.verdict = x] \in CallType
           /\ \A x \in SUBSET [holds : Contents, spot : Spots] :
                 [r EXCEPT !.result = x] \in CallType
           /\ \A x \in BOOLEAN : [r EXCEPT !.contains = x] \in CallType
<1>1. \A x \in Places : [r EXCEPT !.at = x] \in CallType BY DEF CallType
<1>2. \A x \in Nat : [r EXCEPT !.since = x] \in CallType BY DEF CallType
<1>3. \A x \in Definitions : [r EXCEPT !.definition = x] \in CallType BY DEF CallType
<1>4. \A x \in Verdicts : [r EXCEPT !.verdict = x] \in CallType BY DEF CallType
<1>5. \A x \in SUBSET [holds : Contents, spot : Spots] :
         [r EXCEPT !.result = x] \in CallType
  BY DEF CallType
<1>6. \A x \in BOOLEAN : [r EXCEPT !.contains = x] \in CallType BY DEF CallType
<1> QED BY <1>1, <1>2, <1>3, <1>4, <1>5, <1>6

\* What a call asks OPA depends on its kind and its arguments.
LEMMA SameQuestion ==
    ASSUME NEW c \in Calls, kind' = kind, call'[c].arguments = call[c].arguments
    PROVE  /\ InPipeline(c)' <=> InPipeline(c)
           /\ QuestionBefore(c)' = QuestionBefore(c)
<1>1. InPipeline(c)' <=> InPipeline(c) BY DEF InPipeline
<1>2. Redacted(call'[c].arguments) = Redacted(call[c].arguments) OBVIOUS
<1>3. CASE InPipeline(c) BY <1>1, <1>2, <1>3 DEF QuestionBefore
<1>4. CASE ~InPipeline(c) BY <1>1, <1>4 DEF QuestionBefore
<1> QED BY <1>1, <1>3, <1>4

\* ... and, after the act, on its kind and on what its result was found to hold.
LEMMA SameQuestionAfter ==
    ASSUME NEW c \in Calls, kind' = kind, call'[c].contains = call[c].contains
    PROVE  QuestionAfter(c)' = QuestionAfter(c)
BY DEF QuestionAfter

LEMMA WorldKeeps ==
    ASSUME IInv, NEW world \in Worlds, Becomes(world)
    PROVE  IInv'
<1>1. /\ worlds' = Append(worlds, world) /\ worlds \in Seq(Worlds)
      /\ UNCHANGED <<options, kind, call>>
  BY DEF Becomes, IInv, Typed
<1>2. /\ worlds' \in Seq(Worlds) /\ worlds' # <<>> /\ Len(worlds') = Len(worlds) + 1
      /\ Len(worlds) \in Nat
      /\ \A i \in 1 .. Len(worlds) : worlds'[i] = worlds[i]
  BY <1>1
<1>3. Typed'
  <2>1. \A c \in Calls : call[c].since \in 1 .. Len(worlds')
    BY <1>2 DEF IInv, Typed
  <2> QED BY <1>1, <1>2, <2>1 DEF IInv, Typed
<1>4. ASSUME NEW c \in Calls PROVE CallInv(c)'
  <2>1. /\ call[c].since \in 1 .. Len(worlds) /\ Window(c) \subseteq Window(c)'
        /\ \A i \in Window(c) : worlds'[i] = worlds[i]
        /\ worlds'[call[c].since] = worlds[call[c].since]
    BY <1>1, <1>2 DEF IInv, Typed, Window
  <2>2. Looked(c)' BY <1>1, <2>1 DEF IInv, CallInv, Looked, InPipeline
  <2>3. Examined(c)' BY <1>1, <2>1 DEF IInv, CallInv, Examined, InPipeline
  <2>4. QuestionBefore(c)' = QuestionBefore(c) BY <1>1, SameQuestion
  <2>5. Answered(c)' BY <1>1, <2>1, <2>4 DEF IInv, CallInv, Answered, Permitted
  <2>6. QuestionAfter(c)' = QuestionAfter(c) BY <1>1, SameQuestionAfter
  <2>7. Judged(c)'
    <3>1. Judged(c) BY DEF IInv, CallInv
    <3>2. InPipeline(c)' <=> InPipeline(c) BY <1>1 DEF InPipeline
    <3>3. call'[c] = call[c] /\ options' = options BY <1>1
    <3> QED BY <2>1, <2>6, <3>1, <3>2, <3>3 DEF Judged
  <2> QED BY <2>2, <2>3, <2>5, <2>7 DEF CallInv
<1> QED BY <1>3, <1>4 DEF IInv

LEMMA CallGoesOn ==
    ASSUME IInv, NEW c \in Calls, NEW r \in CallType, call' = [call EXCEPT ![c] = r],
           r.since \in 1 .. Len(worlds), UNCHANGED <<worlds, options, kind>>, CallInv(c)'
    PROVE  IInv'
<1>1. Typed' BY DEF IInv, Typed
<1>2. ASSUME NEW d \in Calls, d # c PROVE CallInv(d)'
  <2>1. call'[d] = call[d] BY <1>2 DEF IInv, Typed
  <2>2. Window(d)' = Window(d) /\ QuestionBefore(d)' = QuestionBefore(d)
        /\ (InPipeline(d)' <=> InPipeline(d))
    <3>1. Window(d)' = Window(d) BY <2>1 DEF Window
    <3>2. InPipeline(d)' <=> InPipeline(d) BY DEF InPipeline
    <3>3. QuestionBefore(d)' = QuestionBefore(d) BY <2>1, SameQuestion
    <3> QED BY <3>1, <3>2, <3>3
  <2>3. Looked(d)' /\ Examined(d)'
    BY <2>1, <2>2 DEF IInv, CallInv, Looked, Examined
  <2>4. Answered(d)'
    BY <2>1, <2>2 DEF IInv, CallInv, Answered, Permitted
  <2>5. QuestionAfter(d)' = QuestionAfter(d) BY <2>1, SameQuestionAfter
  <2>6. Judged(d)' BY <2>1, <2>2, <2>5 DEF IInv, CallInv, Judged
  <2> QED BY <2>3, <2>4, <2>6 DEF CallInv
<1> QED BY <1>1, <1>2 DEF IInv

\* Only the place changes.
LEMMA PlaceChanges ==
    ASSUME IInv, NEW c \in Calls, NEW place \in Places, Goes(c, place),
           UNCHANGED <<worlds, options, kind>>
    PROVE  /\ call'[c].at = place
           /\ call'[c].since = call[c].since
           /\ call'[c].definition = call[c].definition
           /\ Window(c)' = Window(c)
           /\ InPipeline(c)' <=> InPipeline(c)
           /\ QuestionBefore(c)' = QuestionBefore(c)
           /\ CallInv(c)' => IInv'
<1> DEFINE r == [call[c] EXCEPT !.at = place]
<1>1. call[c] \in CallType /\ call' = [call EXCEPT ![c] = r] /\ call'[c] = r
  BY DEF IInv, Typed, Goes
<1>2. /\ r \in CallType /\ r.at = place /\ r.since = call[c].since
      /\ r.definition = call[c].definition /\ r.arguments = call[c].arguments
  BY <1>1 DEF CallType
<1> HIDE DEF r
<1>3. r.since \in 1 .. Len(worlds) BY <1>2 DEF IInv, Typed
<1>4. CallInv(c)' => IInv' BY <1>1, <1>2, <1>3, CallGoesOn
<1>5. Window(c)' = Window(c) BY <1>1, <1>2 DEF Window
<1>6. InPipeline(c)' <=> InPipeline(c) BY DEF InPipeline
<1>7. QuestionBefore(c)' = QuestionBefore(c) BY <1>1, <1>2, SameQuestion
<1> QED BY <1>1, <1>2, <1>4, <1>5, <1>6, <1>7

LEMMA LooksKeeps ==
    ASSUME IInv, NEW c \in Calls, ListTools(c) \/ TakeDescription(c)
    PROVE  IInv'
<1>1. UNCHANGED <<worlds, options, kind>> BY DEF ListTools, TakeDescription
<1>2. PICK i \in 1 .. Len(worlds) :
         call' = [call EXCEPT ![c].at = "listed", ![c].since = i,
                              ![c].definition = Listed(worlds[i].served)]
  <2>1. Len(worlds) \in 1 .. Len(worlds) /\ DOMAIN worlds = 1 .. Len(worlds)
    BY EmptySeq DEF IInv, Typed
  <2> QED BY <2>1 DEF ListTools, TakeDescription, World
<1> DEFINE d == Listed(worlds[i].served)
           r == [[[call[c] EXCEPT !.at = "listed"] EXCEPT !.since = i] EXCEPT !.definition = d]
<1>3. d \in Definitions
  <2>1. worlds[i] \in Worlds BY DEF IInv, Typed
  <2>2. worlds[i].served \in Definitions \cup {Absent} BY <2>1 DEF Worlds
  <2> QED BY <2>2, ToolGatewayAssumption DEF Listed
<1> HIDE DEF d
<1>4. call[c] \in CallType /\ call' = [call EXCEPT ![c] = r] /\ call'[c] = r
  BY <1>2 DEF IInv, Typed, d
<1>5. r \in CallType /\ r.at = "listed" /\ r.since = i /\ r.definition = d
  <2> DEFINE q == [call[c] EXCEPT !.at = "listed"]
             p == [q EXCEPT !.since = i]
  <2>1. q \in CallType /\ q.at = "listed" BY <1>4 DEF CallType, Places
  <2> HIDE DEF q
  <2>2. i \in Nat OBVIOUS
  <2>3. p \in CallType /\ p.at = "listed" /\ p.since = i
    BY <2>1, <2>2 DEF CallType
  <2> HIDE DEF p
  <2>4. [p EXCEPT !.definition = d] \in CallType BY <1>3, <2>3, FieldsAreSet
  <2>5. r = [p EXCEPT !.definition = d] BY DEF p, q
  <2> QED BY <2>3, <2>4, <2>5 DEF CallType
<1> HIDE DEF r
<1>6. CallInv(c)'
  BY <1>1, <1>4, <1>5 DEF CallInv, Looked, Examined, Answered, Judged, d
<1> QED BY <1>1, <1>4, <1>5, <1>6, CallGoesOn

LEMMA ExamineKeeps == ASSUME IInv, NEW c \in Calls, Examine(c) PROVE IInv'
<1>1. UNCHANGED <<worlds, options, kind>> /\ call[c].at = "listed" BY DEF Examine
<1>2. CASE Goes(c, "poisoned")
  <2>1. "poisoned" \in Places BY DEF Places
  <2> QED BY <1>1, <1>2, <2>1, PlaceChanges
          DEF CallInv, Looked, Examined, Answered, Judged
<1>3. CASE Goes(c, "asking") /\ (Clean(call[c].definition) \/ options.allowUnapproved)
  <2>1. "asking" \in Places BY DEF Places
  <2>2. Looked(c)'
    BY <1>1, <1>3, <2>1, PlaceChanges DEF IInv, CallInv, Looked
  <2>3. Examined(c)'
    <3>1. Len(worlds) \in Window(c) BY DEF IInv, Typed, Window
    <3> QED BY <1>1, <1>3, <2>1, <3>1, PlaceChanges DEF Examined, Clean, World
  <2>4. Answered(c)' /\ Judged(c)' BY <1>1, <1>3, <2>1, PlaceChanges DEF Answered, Judged
  <2> QED BY <1>1, <1>3, <2>1, <2>2, <2>3, <2>4, PlaceChanges DEF CallInv
<1> QED BY <1>2, <1>3 DEF Examine

LEMMA AskKeeps == ASSUME IInv, NEW c \in Calls, AskDirectly(c) PROVE IInv'
<1> DEFINE r == [[call[c] EXCEPT !.at = "asking"] EXCEPT !.since = Len(worlds)]
<1>1. /\ UNCHANGED <<worlds, options, kind>> /\ ~InPipeline(c)
      /\ Len(worlds) \in 1 .. Len(worlds)
  BY EmptySeq DEF AskDirectly, IInv, Typed
<1>2. call[c] \in CallType /\ call' = [call EXCEPT ![c] = r] /\ call'[c] = r
  BY DEF AskDirectly, IInv, Typed
<1>3. r \in CallType /\ r.at = "asking" /\ r.since = Len(worlds)
  <2> DEFINE q == [call[c] EXCEPT !.at = "asking"]
  <2>1. q \in CallType /\ q.at = "asking" BY <1>2 DEF CallType, Places
  <2> HIDE DEF q
  <2>2. Len(worlds) \in Nat BY <1>1
  <2>3. [q EXCEPT !.since = Len(worlds)] \in CallType BY <2>1, <2>2, FieldsAreSet
  <2>4. r = [q EXCEPT !.since = Len(worlds)] BY DEF q
  <2> QED BY <2>1, <2>3, <2>4 DEF CallType
<1> HIDE DEF r
<1>4. CallInv(c)'
  BY <1>1, <1>2, <1>3 DEF CallInv, Looked, Examined, Answered, Judged, InPipeline
<1> QED BY <1>1, <1>2, <1>3, <1>4, CallGoesOn

LEMMA AnswerKeeps == ASSUME IInv, NEW c \in Calls, AnswerBefore(c) PROVE IInv'
<1>1. UNCHANGED <<worlds, options, kind>> /\ call[c].at = "asking" BY DEF AnswerBefore
<1>2. PICK v \in {OpaVerdict(World.document, QuestionBefore(c)), Closed} :
         call' = [call EXCEPT ![c].at = "answered", ![c].verdict = v]
  BY DEF AnswerBefore
<1> DEFINE r == [[call[c] EXCEPT !.at = "answered"] EXCEPT !.verdict = v]
<1>3. v \in [decision : Decisions, mode : Modes]
  BY VerdictTypes DEF Closed, Verdict, Decisions, Modes
<1>4. call[c] \in CallType /\ call' = [call EXCEPT ![c] = r] /\ call'[c] = r
  BY <1>2 DEF IInv, Typed
<1>5. /\ r \in CallType /\ r.at = "answered" /\ r.since = call[c].since /\ r.verdict = v
      /\ r.definition = call[c].definition /\ r.arguments = call[c].arguments
  BY <1>3, <1>4 DEF CallType, Places, Verdicts
<1> HIDE DEF r
<1>6. Window(c)' = Window(c) /\ Len(worlds) \in Window(c)
  BY <1>1, <1>4, <1>5 DEF Window, IInv, Typed
<1>7. InPipeline(c)' <=> InPipeline(c) BY <1>1 DEF InPipeline
<1>8. QuestionBefore(c)' = QuestionBefore(c)
  BY <1>1, <1>4, <1>5, SameQuestion
<1>9. Looked(c)' BY <1>1, <1>4, <1>5, <1>7 DEF IInv, CallInv, Looked
<1>10. Examined(c)' BY <1>1, <1>4, <1>5, <1>6, <1>7 DEF IInv, CallInv, Examined
<1>11. Answered(c)'
  <2>1. call'[c].at = "answered" /\ call'[c].verdict = v BY <1>4, <1>5
  <2>2. CASE v = Closed BY <2>1, <2>2 DEF Answered
  <2>3. CASE v = OpaVerdict(worlds[Len(worlds)].document, QuestionBefore(c))
    BY <1>1, <1>6, <1>8, <2>1, <2>3 DEF Answered
  <2> QED BY <2>2, <2>3 DEF World
<1>12. Judged(c)' BY <1>4, <1>5 DEF Judged
<1> QED BY <1>1, <1>4, <1>5, <1>9, <1>10, <1>11, <1>12, CallGoesOn DEF CallInv, IInv, Typed

LEMMA DecideKeeps == ASSUME IInv, NEW c \in Calls, Decide(c) PROVE IInv'
<1>1. /\ UNCHANGED <<worlds, options, kind>> /\ call[c].at = "answered"
      /\ Looked(c) /\ Examined(c) /\ Answered(c)
  BY DEF Decide, IInv, CallInv
<1>2. CASE Goes(c, "acting") \/ Goes(c, "denied")
  BY <1>1, <1>2, PlaceChanges DEF Places, CallInv, Looked, Examined, Answered, Judged
<1>3. CASE Goes(c, "approving") /\ call[c].verdict.decision = "require_approval"
  <2>1. "approving" \in Places BY DEF Places
  <2>2. Permitted(c)
    <3>1. NotDenied(call[c].verdict) BY <1>3 DEF NotDenied
    <3> QED BY <1>1, <3>1, WordIsADocuments DEF Permitted
  <2>3. Looked(c)' BY <1>1, <1>3, <2>1, PlaceChanges DEF Looked
  <2>4. Examined(c)' BY <1>1, <1>3, <2>1, PlaceChanges DEF Examined
  <2>5. Permitted(c)' BY <1>1, <1>3, <2>1, <2>2, PlaceChanges DEF Permitted
  <2>6. Answered(c)' BY <1>1, <1>3, <2>1, <2>5, PlaceChanges DEF Answered
  <2>7. Judged(c)' BY <1>1, <1>3, <2>1, PlaceChanges DEF Judged
  <2> QED BY <1>1, <1>3, <2>1, <2>3, <2>4, <2>6, <2>7, PlaceChanges DEF CallInv
<1> QED BY <1>2, <1>3 DEF Decide

LEMMA PlaceOnlyKeeps ==
    ASSUME IInv, NEW c \in Calls, ApproverSays(c) \/ BackendFails(c)
    PROVE  IInv'
<1>1. UNCHANGED <<worlds, options, kind>> BY DEF ApproverSays, BackendFails
<1>2. PICK place \in {"acting", "denied", "failed"} : Goes(c, place)
  BY DEF ApproverSays, BackendFails
<1>3. place \in Places BY DEF Places
<1> QED BY <1>1, <1>2, <1>3, PlaceChanges DEF CallInv, Looked, Examined, Answered, Judged

LEMMA GetsKeeps == ASSUME IInv, NEW c \in Calls, Gets(c) PROVE IInv'
<1>1. UNCHANGED <<worlds, options, kind>> /\ Len(worlds) \in 1 .. Len(worlds)
  BY EmptySeq DEF Gets, IInv, Typed
<1>2. PICK x \in Results : Scanned(c, x) BY DEF Gets
<1> DEFINE b == InPipeline(c) /\ options.scans /\ HoldsPersonal(x)
           n == Len(worlds)
           q == [[call[c] EXCEPT !.at = "asking_again"] EXCEPT !.since = n]
           r == [[q EXCEPT !.result = x] EXCEPT !.contains = b]
<1>3. b \in BOOLEAN BY DEF InPipeline, HoldsPersonal
<1>4. call' = [call EXCEPT ![c].at = "asking_again", ![c].since = n,
                           ![c].result = x, ![c].contains = b]
  BY <1>2 DEF Scanned
<1> HIDE DEF b
<1>5. call[c] \in CallType /\ call' = [call EXCEPT ![c] = r] /\ call'[c] = r
  BY <1>4 DEF IInv, Typed
<1>6. q \in CallType /\ q.at = "asking_again" /\ q.since = n
  <2> DEFINE p == [call[c] EXCEPT !.at = "asking_again"]
  <2>1. p \in CallType /\ p.at = "asking_again" BY <1>5 DEF CallType, Places
  <2> HIDE DEF p
  <2>2. n \in Nat BY <1>1
  <2>3. [p EXCEPT !.since = n] \in CallType BY <2>1, <2>2, FieldsAreSet
  <2>4. q = [p EXCEPT !.since = n] BY DEF p
  <2> QED BY <2>1, <2>3, <2>4 DEF CallType
<1> HIDE DEF q
<1>7. /\ r \in CallType /\ r.at = "asking_again" /\ r.since = n
      /\ r.result = x /\ r.contains = b
  <2> DEFINE p == [q EXCEPT !.result = x]
  <2>1. x \in SUBSET [holds : Contents, spot : Spots]
    BY ToolGatewayAssumption DEF Unprocessed, Contents
  <2>2. p \in CallType BY <1>6, <2>1, FieldsAreSet
  <2>3. p.at = "asking_again" /\ p.since = n /\ p.result = x BY <1>6 DEF CallType
  <2> HIDE DEF p
  <2>4. [p EXCEPT !.contains = b] \in CallType BY <1>3, <2>2, FieldsAreSet
  <2>5. r = [p EXCEPT !.contains = b] BY DEF p
  <2> QED BY <2>2, <2>3, <2>4, <2>5 DEF CallType
<1> HIDE DEF r
<1>8. Looked(c)' /\ Examined(c)' /\ Answered(c)' BY <1>5, <1>7 DEF Looked, Examined, Answered
<1>9. Judged(c)'
  <2>1. x \in Unprocessed BY ToolGatewayAssumption
  <2>2. b <=> (InPipeline(c) /\ options.scans /\ HoldsPersonal(x))' BY <1>1 DEF b, InPipeline
  <2> QED BY <1>5, <1>7, <2>1, <2>2 DEF Judged
<1> QED BY <1>1, <1>5, <1>7, <1>8, <1>9, CallGoesOn DEF CallInv

LEMMA AnswerAfterKeeps == ASSUME IInv, NEW c \in Calls, AnswerAfter(c) PROVE IInv'
<1>1. UNCHANGED <<worlds, options, kind>> /\ call[c].at = "asking_again" BY DEF AnswerAfter
<1>2. PICK v \in {OpaVerdict(World.document, QuestionAfter(c)), Closed} :
         call' = [call EXCEPT ![c].at = "answered_again", ![c].verdict = v]
  BY DEF AnswerAfter
<1> DEFINE r == [[call[c] EXCEPT !.at = "answered_again"] EXCEPT !.verdict = v]
<1>3. v \in [decision : Decisions, mode : Modes]
  BY VerdictTypes DEF Closed, Verdict, Decisions, Modes
<1>4. call[c] \in CallType /\ call' = [call EXCEPT ![c] = r] /\ call'[c] = r
  BY <1>2 DEF IInv, Typed
<1>5. /\ r \in CallType /\ r.at = "answered_again" /\ r.since = call[c].since
      /\ r.verdict = v /\ r.result = call[c].result /\ r.contains = call[c].contains
  BY <1>3, <1>4 DEF CallType, Places, Verdicts
<1> HIDE DEF r
<1>6. Looked(c)' /\ Examined(c)' /\ Answered(c)' BY <1>4, <1>5 DEF Looked, Examined, Answered
<1>7. Judged(c)'
  <2>1. Window(c)' = Window(c) /\ Len(worlds) \in Window(c)
    BY <1>1, <1>4, <1>5 DEF Window, IInv, Typed
  <2>2. QuestionAfter(c)' = QuestionAfter(c) BY <1>1, <1>4, <1>5, SameQuestionAfter
  <2>3. InPipeline(c)' <=> InPipeline(c) BY <1>1 DEF InPipeline
  <2>4. /\ call'[c].result \in Unprocessed
        /\ call'[c].contains <=>
              (InPipeline(c) /\ options.scans /\ HoldsPersonal(call[c].result))'
    BY <1>1, <1>4, <1>5, <2>3 DEF IInv, CallInv, Judged
  <2>5. \/ v = Closed
        \/ \E i \in Window(c) : v = OpaVerdict(worlds[i].document, QuestionAfter(c))
    BY <1>2, <2>1 DEF World
  <2> QED BY <1>1, <1>4, <1>5, <2>1, <2>2, <2>4, <2>5 DEF Judged
<1> QED BY <1>1, <1>4, <1>5, <1>6, <1>7, CallGoesOn DEF IInv, Typed, CallInv

LEMMA ReturnKeeps == ASSUME IInv, NEW c \in Calls, ReturnOrNot(c) PROVE IInv'
<1>1. UNCHANGED <<worlds, options, kind>> BY DEF ReturnOrNot
<1>2. CASE Goes(c, "withheld")
  BY <1>1, <1>2, PlaceChanges DEF Places, CallInv, Looked, Examined, Answered, Judged
<1>3. CASE call' = [call EXCEPT ![c].at = "returned", ![c].result = Final(c)]
  <2> DEFINE x == Final(c)
             q == [call[c] EXCEPT !.at = "returned"]
             r == [q EXCEPT !.result = x]
  <2>1. call[c] \in CallType /\ call' = [call EXCEPT ![c] = r] /\ call'[c] = r
    BY <1>3 DEF IInv, Typed
  <2>2. x \in SUBSET [holds : Contents, spot : Spots]
    <3>1. call[c].result \in SUBSET [holds : Contents, spot : Spots]
      BY <2>1 DEF CallType
    <3>2. ASSUME NEW leaf \in [holds : Contents, spot : Spots]
          PROVE  MaskedLeaf(leaf) \in [holds : Contents, spot : Spots]
      <4>1. [leaf EXCEPT !.holds = "masked"] \in [holds : Contents, spot : Spots]
        BY DEF Contents
      <4> QED BY <4>1 DEF MaskedLeaf
    <3>3. Masked(call[c].result) \in SUBSET [holds : Contents, spot : Spots]
      BY <3>1, <3>2 DEF Masked
    <3> QED BY <3>1, <3>3 DEF Final
  <2> HIDE DEF x
  <2>3. q \in CallType /\ q.at = "returned" /\ q.since = call[c].since
    BY <2>1 DEF CallType, Places
  <2>4. r \in CallType BY <2>2, <2>3, FieldsAreSet
  <2>5. r.at = "returned" /\ r.since = call[c].since BY <2>3 DEF CallType
  <2> HIDE DEF q, r
  <2>6. CallInv(c)' BY <2>1, <2>5 DEF CallInv, Looked, Examined, Answered, Judged
  <2> QED BY <1>1, <2>1, <2>4, <2>5, <2>6, CallGoesOn DEF IInv, Typed
<1> QED BY <1>2, <1>3 DEF ReturnOrNot

LEMMA WorldStepsKeep ==
    ASSUME IInv, GatewayChanges \/ ApproveTool \/ Revoke \/ OpaChanges
    PROVE  IInv'
<1>1. World \in Worlds /\ \A i \in DOMAIN worlds : worlds[i] \in Worlds
  BY EmptySeq DEF IInv, Typed, World
<1>2. CASE GatewayChanges
  <2>1. PICK d \in Definitions \cup {Absent} : Becomes([World EXCEPT !.served = d])
    BY <1>2 DEF GatewayChanges
  <2>2. [World EXCEPT !.served = d] \in Worlds BY <1>1 DEF Worlds
  <2> QED BY <2>1, <2>2, WorldKeeps
<1>3. CASE ApproveTool
  <2>1. PICK i \in DOMAIN worlds :
           worlds[i].served # Absent /\ Becomes([World EXCEPT !.approved = worlds[i].served])
    BY <1>3 DEF ApproveTool
  <2>2. worlds[i].served \in Definitions BY <1>1, <2>1 DEF Worlds
  <2>3. [World EXCEPT !.approved = worlds[i].served] \in Worlds BY <1>1, <2>2 DEF Worlds
  <2> QED BY <2>1, <2>3, WorldKeeps
<1>4. CASE Revoke
  <2>1. [World EXCEPT !.approved = NotApproved] \in Worlds BY <1>1 DEF Worlds
  <2> QED BY <1>4, <2>1, WorldKeeps DEF Revoke
<1>5. CASE OpaChanges
  <2>1. PICK d \in Documents \cup {Down} : Becomes([World EXCEPT !.document = d])
    BY <1>5 DEF OpaChanges
  <2>2. [World EXCEPT !.document = d] \in Worlds BY <1>1 DEF Worlds
  <2> QED BY <2>1, <2>2, WorldKeeps
<1> QED BY <1>2, <1>3, <1>4, <1>5

-----------------------------------------------------------------------------
(* The invariant, and what follows.                                        *)

LEMMA InitHolds == ASSUME Init PROVE IInv
<1>1. PICK d \in Definitions :
         worlds = << [served |-> d, approved |-> d, document |-> FirstDocument] >>
  BY DEF Init
<1>2. PICK a \in Arguments :
         call = [c \in Calls |-> [at |-> "new", since |-> 1, definition |-> Blank,
                                  arguments |-> a, verdict |-> NoVerdict,
                                  result |-> {}, contains |-> FALSE]]
  BY DEF Init
<1>3. worlds \in Seq(Worlds) /\ worlds # <<>> /\ Len(worlds) = 1
  <2>1. [served |-> d, approved |-> d, document |-> FirstDocument] \in Worlds
    BY ToolGatewayAssumption DEF Worlds
  <2> QED BY <1>1, <2>1
<1>4. kind \in [Calls -> Kinds]
      /\ options \in [allowUnapproved : BOOLEAN, scans : BOOLEAN, masks : BOOLEAN]
  BY DEF Init
<1>5. call \in [Calls -> CallType]
  <2>1. {} \in SUBSET [holds : Contents, spot : Spots] /\ NoVerdict \in Verdicts
    BY DEF Verdicts
  <2>2. [at |-> "new", since |-> 1, definition |-> Blank, arguments |-> a,
         verdict |-> NoVerdict, result |-> {}, contains |-> FALSE] \in CallType
    BY <2>1, ToolGatewayAssumption DEF CallType, Places
  <2> QED BY <1>2, <2>2
<1>6. \A c \in Calls : call[c].at = "new" /\ call[c].since = 1 BY <1>2
<1>7. \A c \in Calls : CallInv(c) BY <1>6 DEF CallInv, Looked, Examined, Answered, Judged
<1> QED BY <1>3, <1>4, <1>5, <1>6, <1>7 DEF IInv, Typed

LEMMA NextKeeps == ASSUME IInv, [Next]_vars PROVE IInv'
<1>1. CASE UNCHANGED vars
  BY <1>1 DEF vars, IInv, Typed, CallInv, Looked, Examined, Answered, Judged, Permitted,
              Judged, Window, InPipeline, QuestionBefore, QuestionAfter
<1>2. ASSUME NEW c \in Calls,
             \/ ListTools(c) \/ TakeDescription(c) \/ Examine(c) \/ AskDirectly(c)
             \/ AnswerBefore(c) \/ Decide(c) \/ ApproverSays(c) \/ ToolReturns(c)
             \/ AgentReturns(c) \/ ModelReturns(c) \/ BackendFails(c) \/ AnswerAfter(c)
             \/ ReturnOrNot(c)
      PROVE  IInv'
  <2>1. CASE ToolReturns(c) \/ AgentReturns(c) \/ ModelReturns(c)
    BY <2>1, GetsKeeps DEF ToolReturns, AgentReturns, ModelReturns
  <2> QED BY <1>2, <2>1, LooksKeeps, ExamineKeeps, AskKeeps, AnswerKeeps, DecideKeeps,
             PlaceOnlyKeeps, AnswerAfterKeeps, ReturnKeeps
<1>3. CASE GatewayChanges \/ ApproveTool \/ Revoke \/ OpaChanges
  BY <1>3, WorldStepsKeep
<1> QED BY <1>1, <1>2, <1>3 DEF Next

\* A look at the tool takes a call to "listed", and no other call anywhere.
LEMMA LookingLists ==
    ASSUME IInv, NEW c \in Calls, NEW d \in Calls, ListTools(d) \/ TakeDescription(d)
    PROVE  call'[c].at \in {call[c].at, "listed"}
<1>1. PICK since, definition :
         call' = [call EXCEPT ![d].at = "listed", ![d].since = since,
                              ![d].definition = definition]
  BY DEF ListTools, TakeDescription
<1>2. call \in [Calls -> CallType] BY DEF IInv, Typed
<1> QED BY <1>1, <1>2 DEF CallType

\* A call acts when OPA's answer does not object or the approver agrees, and by
\* no other step.
LEMMA ActsWhenAnswered ==
    ASSUME IInv, [Next]_vars, NEW c \in Calls, Enters(c, "acting")
    PROVE  \/ call[c].at = "answered" /\ ~Objects(call[c].verdict)
           \/ call[c].at = "approving"
<1> call \in [Calls -> CallType] BY DEF IInv, Typed
<1> call'[c].at = "acting" /\ call[c].at # "acting" BY DEF Enters
<1>1. CASE UNCHANGED vars BY <1>1 DEF vars
<1>2. CASE GatewayChanges \/ ApproveTool \/ Revoke \/ OpaChanges
  BY <1>2 DEF GatewayChanges, ApproveTool, Revoke, OpaChanges, Becomes
<1>3. ASSUME NEW d \in Calls, ListTools(d) \/ TakeDescription(d) PROVE FALSE
  BY <1>3, LookingLists
<1>4. ASSUME NEW d \in Calls, Examine(d) \/ BackendFails(d) PROVE FALSE
  BY <1>4 DEF Examine, BackendFails, Goes, CallType
<1>5. ASSUME NEW d \in Calls, AskDirectly(d) PROVE FALSE
  BY <1>5 DEF AskDirectly, CallType
<1>6. ASSUME NEW d \in Calls, AnswerBefore(d) \/ AnswerAfter(d) PROVE FALSE
  BY <1>6 DEF AnswerBefore, AnswerAfter, CallType
<1>7. ASSUME NEW d \in Calls, ToolReturns(d) \/ AgentReturns(d) \/ ModelReturns(d)
      PROVE  FALSE
  BY <1>7 DEF ToolReturns, AgentReturns, ModelReturns, Gets, Scanned, CallType
<1>8. ASSUME NEW d \in Calls, ReturnOrNot(d) PROVE FALSE
  BY <1>8 DEF ReturnOrNot, Goes, CallType
<1>9. ASSUME NEW d \in Calls, Decide(d)
      PROVE  call[c].at = "answered" /\ ~Objects(call[c].verdict)
  BY <1>9 DEF Decide, Goes, CallType
<1>10. ASSUME NEW d \in Calls, ApproverSays(d) PROVE call[c].at = "approving"
  BY <1>10 DEF ApproverSays, Goes, CallType
<1>11. ASSUME NEW d \in Calls,
             \/ ListTools(d) \/ TakeDescription(d) \/ Examine(d) \/ AskDirectly(d)
             \/ AnswerBefore(d) \/ Decide(d) \/ ApproverSays(d) \/ ToolReturns(d)
             \/ AgentReturns(d) \/ ModelReturns(d) \/ BackendFails(d) \/ AnswerAfter(d)
             \/ ReturnOrNot(d)
       PROVE  \/ call[c].at = "answered" /\ ~Objects(call[c].verdict)
              \/ call[c].at = "approving"
  BY <1>3, <1>4, <1>5, <1>6, <1>7, <1>8, <1>9, <1>10, <1>11, Zenon
<1> QED BY <1>1, <1>2, <1>11 DEF Next

\* Every state of the gateway's calls is typed, and what a call has gone through
\* so far was said of it in its own time.
THEOREM CallsInvariant == Spec => []IInv
<1>1. Init => IInv BY InitHolds
<1>2. IInv /\ [Next]_vars => IInv' BY NextKeeps
<1> QED BY <1>1, <1>2, PTL DEF Spec

\* GovernedMcpToolPipeline.call_tool runs no tool whose definition, as it was
\* served at the look, was not approved at some time since.
THEOREM PipelineRunsWhatWasApproved == Spec => RunsWhatWasApproved
<1>1. ASSUME IInv, [Next]_vars
      PROVE  [\A c \in Calls :
                Enters(c, "acting") /\ InPipeline(c) /\ ~options.allowUnapproved =>
                    /\ Listed(worlds[call[c].since].served) = call[c].definition
                    /\ \E i \in Window(c) : worlds[i].approved = call[c].definition]_vars
  <2> SUFFICES ASSUME NEW c \in Calls, Enters(c, "acting"), InPipeline(c),
                      ~options.allowUnapproved
               PROVE  /\ Listed(worlds[call[c].since].served) = call[c].definition
                      /\ \E i \in Window(c) : worlds[i].approved = call[c].definition
    OBVIOUS
  <2>1. call[c].at \in {"answered", "approving"} BY <1>1, ActsWhenAnswered
  <2>2. Looked(c) /\ Examined(c) BY <1>1 DEF IInv, CallInv
  <2> QED BY <2>1, <2>2 DEF Looked, Examined
<1> QED BY <1>1, CallsInvariant, PTL DEF Spec, RunsWhatWasApproved

\* The pipeline, call_tool, delegate and the model's calls act only on a word of
\* a document that OPA had during the call.
THEOREM CallsActOnOpasWord == Spec => ActsOnOpasWord
<1>1. ASSUME IInv, [Next]_vars
      PROVE  [\A c \in Calls : Enters(c, "acting") =>
                \E i \in Window(c) :
                    /\ worlds[i].document # Down
                    /\ LET v == OpaVerdict(worlds[i].document, QuestionBefore(c))
                       IN  NotDenied(v) /\ (Objects(v) => call[c].at = "approving")]_vars
  <2> SUFFICES ASSUME NEW c \in Calls, Enters(c, "acting")
               PROVE  \E i \in Window(c) :
                         /\ worlds[i].document # Down
                         /\ LET v == OpaVerdict(worlds[i].document, QuestionBefore(c))
                            IN  NotDenied(v) /\ (Objects(v) => call[c].at = "approving")
    OBVIOUS
  <2>1. Answered(c) BY <1>1 DEF IInv, CallInv
  <2>2. CASE call[c].at = "answered" /\ ~Objects(call[c].verdict)
    <3>1. NotDenied(call[c].verdict) BY <2>2 DEF NotDenied
    <3> QED BY <2>1, <2>2, <3>1, WordIsADocuments
  <2>3. CASE call[c].at = "approving"
    <3>1. Permitted(c) BY <2>1, <2>3 DEF Answered
    <3> QED BY <2>3, <3>1 DEF Permitted
  <2> QED BY <1>1, <2>2, <2>3, ActsWhenAnswered
<1> QED BY <1>1, CallsInvariant, PTL DEF Spec, ActsOnOpasWord

\* A call returns from the place where OPA has answered a second time, and by
\* no other step.
LEMMA ReturnsWhenAnswered ==
    ASSUME IInv, [Next]_vars, NEW c \in Calls, Enters(c, "returned")
    PROVE  ReturnOrNot(c)
<1> call \in [Calls -> CallType] BY DEF IInv, Typed
<1> call'[c].at = "returned" /\ call[c].at # "returned" BY DEF Enters
<1>1. CASE UNCHANGED vars BY <1>1 DEF vars
<1>2. CASE GatewayChanges \/ ApproveTool \/ Revoke \/ OpaChanges
  BY <1>2 DEF GatewayChanges, ApproveTool, Revoke, OpaChanges, Becomes
<1>3. ASSUME NEW d \in Calls, ListTools(d) \/ TakeDescription(d) PROVE FALSE
  BY <1>3, LookingLists
<1>4. ASSUME NEW d \in Calls, Examine(d) \/ Decide(d) \/ ApproverSays(d) \/ BackendFails(d)
      PROVE  FALSE
  BY <1>4 DEF Examine, Decide, ApproverSays, BackendFails, Goes, CallType
<1>5. ASSUME NEW d \in Calls, AskDirectly(d) PROVE FALSE
  BY <1>5 DEF AskDirectly, CallType
<1>6. ASSUME NEW d \in Calls, AnswerBefore(d) \/ AnswerAfter(d) PROVE FALSE
  BY <1>6 DEF AnswerBefore, AnswerAfter, CallType
<1>7. ASSUME NEW d \in Calls, ToolReturns(d) \/ AgentReturns(d) \/ ModelReturns(d)
      PROVE  FALSE
  <2>1. PICK r \in Results : Scanned(d, r)
    BY <1>7 DEF ToolReturns, AgentReturns, ModelReturns, Gets
  <2> DEFINE b == InPipeline(d) /\ options.scans /\ HoldsPersonal(r)
  <2>2. call' = [call EXCEPT ![d].at = "asking_again", ![d].since = Len(worlds),
                             ![d].result = r, ![d].contains = b]
    BY <2>1 DEF Scanned
  <2> HIDE DEF b
  <2>3. call'[c].at \in {call[c].at, "asking_again"} BY <2>2 DEF CallType
  <2> QED BY <2>3
<1>8. ASSUME NEW d \in Calls, ReturnOrNot(d), d # c PROVE FALSE
  BY <1>8 DEF ReturnOrNot, Goes, CallType
<1>9. ASSUME NEW d \in Calls,
             \/ ListTools(d) \/ TakeDescription(d) \/ Examine(d) \/ AskDirectly(d)
             \/ AnswerBefore(d) \/ Decide(d) \/ ApproverSays(d) \/ ToolReturns(d)
             \/ AgentReturns(d) \/ ModelReturns(d) \/ BackendFails(d) \/ AnswerAfter(d)
             \/ ReturnOrNot(d)
      PROVE  ReturnOrNot(c)
  <2>1. CASE ReturnOrNot(d)
    <3>1. d = c BY <1>8, <2>1
    <3> QED BY <2>1, <3>1
  <2> QED BY <1>3, <1>4, <1>5, <1>6, <1>7, <1>9, <2>1, Zenon
<1> QED BY <1>1, <1>2, <1>9 DEF Next

\* A question that says that a result holds personal data is the one that is
\* made to say so.
LEMMA SaysItContains ==
    ASSUME NEW Stages, NEW Parameters,
           NEW q \in [stage : Stages, parameters : Parameters, contains : BOOLEAN], q.contains
    PROVE  q = [q EXCEPT !.contains = TRUE]
OBVIOUS

\* Masking leaves personal data in lists within lists only.
LEMMA MaskedLeavesNested ==
    ASSUME NEW payload \in SUBSET [holds : Contents, spot : Spots],
           NEW leaf \in Masked(payload), leaf.holds = "personal"
    PROVE  leaf.spot = "nested"
<1>1. PICK old \in payload : leaf = MaskedLeaf(old) BY DEF Masked
<1>2. CASE old.spot # "nested" /\ old.holds = "personal"
  <2>1. leaf = [old EXCEPT !.holds = "masked"] BY <1>1, <1>2 DEF MaskedLeaf
  <2> QED BY <2>1
<1>3. CASE ~(old.spot # "nested" /\ old.holds = "personal")
  BY <1>1, <1>3 DEF MaskedLeaf
<1> QED BY <1>2, <1>3

\* What GovernedMcpToolPipeline hands to the agent: what was found to hold
\* personal data, a document of the call's time does not deny as such, and
\* where results are masked nothing of it is left but in lists within lists.
THEOREM ResultsAreUndeniedAndMasked == Spec => PersonalDataIsUndeniedAndMasked
<1> DEFINE Right(c) ==
        Enters(c, "returned") /\ InPipeline(c) /\ options.scans /\
        (HoldsPersonal(call[c].result) \/ [holds |-> "masked", spot |-> "plain"] \in call'[c].result) =>
            /\ \E i \in Window(c) :
                  /\ worlds[i].document # Down
                  /\ NotDenied(OpaVerdict(worlds[i].document,
                                          [QuestionAfter(c) EXCEPT !.contains = TRUE]))
            /\ options.masks =>
                  \A leaf \in call'[c].result : leaf.holds = "personal" => leaf.spot = "nested"
<1>1. ASSUME IInv, [Next]_vars PROVE [\A c \in Calls : Right(c)]_vars
  <2> SUFFICES ASSUME NEW c \in Calls,
                      Enters(c, "returned"), InPipeline(c), options.scans,
                      \/ HoldsPersonal(call[c].result)
                      \/ [holds |-> "masked", spot |-> "plain"] \in call'[c].result
               PROVE  /\ \E i \in Window(c) :
                            /\ worlds[i].document # Down
                            /\ NotDenied(OpaVerdict(worlds[i].document,
                                         [QuestionAfter(c) EXCEPT !.contains = TRUE]))
                      /\ options.masks =>
                            \A leaf \in call'[c].result :
                                leaf.holds = "personal" => leaf.spot = "nested"
    OBVIOUS
  <2>1. ReturnOrNot(c) BY <1>1, ReturnsWhenAnswered
  <2>2. /\ call[c].at = "answered_again" /\ Judged(c) /\ call[c] \in CallType
        /\ call \in [Calls -> CallType]
    BY <1>1, <2>1 DEF ReturnOrNot, IInv, CallInv, Typed
  <2>3. /\ ~(Objects(call[c].verdict) /\ call[c].verdict.decision = "deny")
        /\ call'[c].result = Final(c)
    <3>1. ~Goes(c, "withheld")
      <4>1. call'[c].at = "returned" BY DEF Enters
      <4>2. Goes(c, "withheld") => call'[c].at = "withheld" BY <2>2 DEF Goes, CallType
      <4> QED BY <4>1, <4>2
    <3>2. call' = [call EXCEPT ![c].at = "returned", ![c].result = Final(c)]
          /\ ~(Objects(call[c].verdict) /\ call[c].verdict.decision = "deny")
      BY <2>1, <3>1 DEF ReturnOrNot
    <3> QED BY <2>2, <3>2
  <2>4. call[c].contains
    <3>1. HoldsPersonal(call[c].result) \/ call[c].contains
      <4>1. CASE ~call[c].contains
        <5>1. call'[c].result \in Unprocessed BY <2>2, <2>3, <4>1 DEF Final, Judged
        <5>2. [holds |-> "masked", spot |-> "plain"] \notin call'[c].result
          BY <5>1 DEF Unprocessed
        <5> QED BY <5>2
      <4> QED BY <4>1
    <3> QED BY <2>2, <3>1 DEF Judged
  <2>5. QuestionAfter(c) = [QuestionAfter(c) EXCEPT !.contains = TRUE]
    <3>1. call[c].contains = TRUE BY <2>2, <2>4 DEF CallType
    <3>2. /\ QuestionAfter(c) \in [stage : {"post_llm", "post_tool"}, parameters : {{}},
                                  contains : BOOLEAN]
          /\ QuestionAfter(c).contains
      BY <3>1 DEF QuestionAfter
    <3> QED BY <3>2, SaysItContains
  <2>6. \E i \in Window(c) :
           /\ worlds[i].document # Down
           /\ NotDenied(OpaVerdict(worlds[i].document, QuestionAfter(c)))
    <3>1. call[c].verdict # Closed BY <2>3, ClosedObjects
    <3>2. PICK i \in Window(c) :
             call[c].verdict = OpaVerdict(worlds[i].document, QuestionAfter(c))
      BY <2>2, <3>1 DEF Judged
    <3>3. NotDenied(call[c].verdict) BY <2>3 DEF NotDenied
    <3>4. worlds[i].document # Down BY <3>1, <3>2, ClosedObjects
    <3> QED BY <3>2, <3>3, <3>4
  <2>7. ASSUME options.masks, NEW leaf \in call'[c].result, leaf.holds = "personal"
        PROVE  leaf.spot = "nested"
    <3>1. call'[c].result = Masked(call[c].result) BY <2>3, <2>4, <2>7 DEF Final
    <3> QED BY <2>2, <2>7, <3>1, MaskedLeavesNested DEF CallType
  <2> QED BY <2>5, <2>6, <2>7
<1> QED BY <1>1, CallsInvariant, PTL DEF Spec, PersonalDataIsUndeniedAndMasked

-----------------------------------------------------------------------------
(* II. What the scorers that keep their events show and learn, for every   *)
(* window, strategy, weights and rate, and any number of calls and hours.  *)

(* Induction over the subsets of a finite set, first-order.                *)

\* A set of naturals that holds zero and with each number the next holds all.
LEMMA NaturalsByOne ==
    ASSUME NEW T, 0 \in T, \A n \in Nat : n \in T => n + 1 \in T
    PROVE  \A n \in Nat : n \in T
<1> SUFFICES ASSUME NEW m \in Nat, m \notin T PROVE FALSE
  OBVIOUS
<1> DEFINE bad == {n \in Nat : n \notin T}
<1>1. bad \subseteq Nat /\ bad # {} OBVIOUS
<1>2. PICK x \in bad : \A y \in bad : ~(<<y, x>> \in OpToRel(<, Nat))
  BY <1>1, WFMin, NatLessThanWellFounded
<1>3. \A y \in bad : ~(y < x) BY <1>2 DEF OpToRel
<1>4. x # 0 /\ x - 1 \in Nat /\ x - 1 < x OBVIOUS
<1>5. x - 1 \in T BY <1>3, <1>4
<1>6. (x - 1) + 1 \in T BY <1>4, <1>5
<1> QED BY <1>6

\* What a subset has as soon as all that lack one of its elements have it, all
\* subsets have.
LEMMA SubsetsByOne ==
    ASSUME NEW S, IsFiniteSet(S), NEW good,
           \A s \in SUBSET S : (\A x \in s : s \ {x} \in good) => s \in good
    PROVE  \A s \in SUBSET S : s \in good
<1> DEFINE T == {n \in Nat : \A s \in SUBSET S : Cardinality(s) <= n => s \in good}
<1>1. \A s \in SUBSET S : IsFiniteSet(s) /\ Cardinality(s) \in Nat
  BY FS_Subset, FS_CardinalityType
<1>2. 0 \in T
  <2>1. ASSUME NEW s \in SUBSET S, Cardinality(s) <= 0 PROVE s \in good
    <3>1. s = {} BY <1>1, <2>1, FS_EmptySet
    <3> QED BY <3>1
  <2> QED BY <2>1
<1>3. ASSUME NEW n \in Nat, n \in T PROVE n + 1 \in T
  <2>1. ASSUME NEW s \in SUBSET S, Cardinality(s) <= n + 1 PROVE s \in good
    <3>1. ASSUME NEW x \in s PROVE s \ {x} \in good
      <4>1. Cardinality(s \ {x}) = Cardinality(s) - 1 BY <1>1, FS_RemoveElement
      <4>2. Cardinality(s \ {x}) <= n BY <1>1, <2>1, <4>1
      <4> QED BY <1>3, <4>2
    <3> QED BY <3>1
  <2> QED BY <2>1
<1>4. \A n \in Nat : n \in T
  <2> HIDE DEF T
  <2> QED BY <1>2, <1>3, NaturalsByOne
<1> QED BY <1>1, <1>4

\* Given how an element is picked from each subset and what it makes of a value,
\* the functions that fold the subsets one element at a time.
Picks(pick, S) == \A s \in SUBSET S : s # {} => pick[s] \in s

Steps(step, S, V) == \A x \in S, v \in V : step[<<x, v>>] \in V

Folding(S, V, base, pick, step) ==
    {g \in [SUBSET S -> V] :
        \A s \in SUBSET S :
            g[s] = IF s = {} THEN base ELSE step[<<pick[s], g[s \ {pick[s]}]>>]}

\* A fold over a finite set is defined.
LEMMA FoldExists ==
    ASSUME NEW S, IsFiniteSet(S), NEW V, NEW base \in V,
           NEW pick, Picks(pick, S), NEW step, Steps(step, S, V)
    PROVE  Folding(S, V, base, pick, step) # {}
<1> DEFINE D(n) == {s \in SUBSET S : Cardinality(s) <= n}
           Solves(g, n) == \A s \in D(n) :
                  g[s] = IF s = {} THEN base ELSE step[<<pick[s], g[s \ {pick[s]}]>>]
           T == {n \in Nat : \E g \in [D(n) -> V] : Solves(g, n)}
<1>1. \A s \in SUBSET S : IsFiniteSet(s) /\ Cardinality(s) \in Nat
  BY FS_Subset, FS_CardinalityType
<1>2. 0 \in T
  <2> DEFINE g == [s \in D(0) |-> base]
  <2>1. g \in [D(0) -> V] OBVIOUS
  <2>2. \A s \in D(0) : s = {} BY <1>1, FS_EmptySet
  <2>3. Solves(g, 0) BY <2>2
  <2> QED BY <2>1, <2>3
<1>3. ASSUME NEW n \in Nat, n \in T PROVE n + 1 \in T
  <2>1. PICK g \in [D(n) -> V] : Solves(g, n) BY <1>3
  <2> DEFINE Solved(s) == IF s \in D(n) THEN g[s] ELSE step[<<pick[s], g[s \ {pick[s]}]>>]
             h == [s \in D(n + 1) |-> Solved(s)]
  <2>2. ASSUME NEW s \in D(n + 1), s # {}
        PROVE  s \ {pick[s]} \in D(n) /\ s \ {pick[s]} \in D(n + 1) /\ pick[s] \in S
    <3>1. pick[s] \in s BY <2>2 DEF Picks
    <3>2. Cardinality(s \ {pick[s]}) = Cardinality(s) - 1 BY <1>1, <3>1, FS_RemoveElement
    <3>3. s \ {pick[s]} \in SUBSET S OBVIOUS
    <3> QED BY <1>1, <3>1, <3>2, <3>3
  <2>3. {} \in D(n) BY FS_EmptySet
  <2>4. \A s \in D(n) : s \in D(n + 1) BY <1>1
  <2>5. ASSUME NEW s \in D(n + 1) PROVE Solved(s) \in V
    <3>1. CASE s \in D(n) BY <3>1
    <3>2. CASE s \notin D(n)
      <4>1. s # {} BY <2>3, <3>2
      <4>2. g[s \ {pick[s]}] \in V /\ pick[s] \in S BY <2>2, <4>1
      <4> QED BY <3>2, <4>2 DEF Steps
    <3> QED BY <3>1, <3>2
  <2>6. h \in [D(n + 1) -> V] BY <2>5
  <2>7. ASSUME NEW s \in D(n + 1)
        PROVE  h[s] = IF s = {} THEN base ELSE step[<<pick[s], h[s \ {pick[s]}]>>]
    <3>1. h[s] = Solved(s) OBVIOUS
    <3>2. CASE s = {}
      <4>1. g[s] = base BY <2>1, <2>3, <3>2
      <4> QED BY <2>3, <3>1, <3>2, <4>1
    <3>3. CASE s # {}
      <4>1. h[s \ {pick[s]}] = g[s \ {pick[s]}] BY <2>2, <3>3
      <4>2. CASE s \in D(n)
        <5>1. g[s] = step[<<pick[s], g[s \ {pick[s]}]>>] BY <2>1, <3>3, <4>2
        <5> QED BY <3>1, <3>3, <4>1, <4>2, <5>1
      <4>3. CASE s \notin D(n) BY <3>1, <3>3, <4>1, <4>3
      <4> QED BY <4>2, <4>3
    <3> QED BY <3>2, <3>3
  <2> HIDE DEF h
  <2>8. Solves(h, n + 1) BY <2>7
  <2> HIDE DEF Solves, D
  <2>9. \E k \in [D(n + 1) -> V] : Solves(k, n + 1) BY <2>6, <2>8
  <2>10. n + 1 \in Nat OBVIOUS
  <2> QED BY <2>9, <2>10
<1>4. \A n \in Nat : n \in T
  <2> HIDE DEF T
  <2> QED BY <1>2, <1>3, NaturalsByOne
<1>5. Cardinality(S) \in Nat BY FS_CardinalityType
<1>6. D(Cardinality(S)) = SUBSET S BY <1>1, FS_Subset
<1>7. PICK g \in [D(Cardinality(S)) -> V] : Solves(g, Cardinality(S)) BY <1>4, <1>5
<1> QED BY <1>6, <1>7 DEF Folding

\* A finite set of integers that is not empty has a greatest element.
LEMMA GreatestExists ==
    ASSUME NEW S \in SUBSET Int, IsFiniteSet(S)
    PROVE  \A s \in SUBSET S : s # {} => Max(s) \in s /\ \A y \in s : Max(s) >= y
<1> DEFINE good == {s \in SUBSET S : s # {} => \E m \in s : \A y \in s : m >= y}
<1>1. ASSUME NEW s \in SUBSET S, \A x \in s : s \ {x} \in good PROVE s \in good
  <2> SUFFICES ASSUME NEW x \in s PROVE \E m \in s : \A y \in s : m >= y
    OBVIOUS
  <2>1. CASE s \ {x} = {} BY <2>1
  <2>2. CASE s \ {x} # {}
    <3>1. PICK m \in s \ {x} : \A y \in s \ {x} : m >= y BY <1>1, <2>2
    <3>2. CASE m >= x BY <3>1, <3>2
    <3>3. CASE ~(m >= x) BY <3>1, <3>3
    <3> QED BY <3>2, <3>3
  <2> QED BY <2>1, <2>2
<1>2. \A s \in SUBSET S : s \in good
  <2> HIDE DEF good
  <2> QED BY <1>1, SubsetsByOne
<1> QED BY <1>2 DEF Max

-----------------------------------------------------------------------------
(* The events at some positions.                                           *)

Rank(positions, i) == Cardinality({j \in positions : j <= i})

\* Each number up to the size of a set of positions is the rank of one of them.
LEMMA RanksExist ==
    ASSUME NEW S \in SUBSET Int, IsFiniteSet(S)
    PROVE  \A s \in SUBSET S : \A k \in 1 .. Cardinality(s) : \E i \in s : Rank(s, i) = k
<1> DEFINE good == {s \in SUBSET S : \A k \in 1 .. Cardinality(s) : \E i \in s : Rank(s, i) = k}
<1>1. ASSUME NEW s \in SUBSET S, \A x \in s : s \ {x} \in good PROVE s \in good
  <2>1. IsFiniteSet(s) /\ Cardinality(s) \in Nat BY FS_Subset, FS_CardinalityType
  <2>2. SUFFICES ASSUME NEW k \in 1 .. Cardinality(s) PROVE \E i \in s : Rank(s, i) = k
    OBVIOUS
  <2>3. s # {} BY <2>1, FS_EmptySet
  <2> DEFINE m == Max(s)
  <2>4. m \in s /\ \A y \in s : m >= y BY <2>3, GreatestExists
  <2> HIDE DEF m
  <2>5. CASE k = Cardinality(s)
    <3>1. {j \in s : j <= m} = s BY <2>4
    <3> QED BY <2>4, <2>5, <3>1 DEF Rank
  <2>6. CASE k # Cardinality(s)
    <3>1. Cardinality(s \ {m}) = Cardinality(s) - 1 BY <2>1, <2>4, FS_RemoveElement
    <3>2. k \in 1 .. Cardinality(s \ {m}) BY <2>1, <2>6, <3>1
    <3>3. PICK i \in s \ {m} : Rank(s \ {m}, i) = k BY <1>1, <2>4, <3>2
    <3>4. {j \in s : j <= i} = {j \in s \ {m} : j <= i} BY <2>4, <3>3
    <3> QED BY <3>3, <3>4 DEF Rank
  <2> QED BY <2>5, <2>6
<1>2. \A s \in SUBSET S : s \in good
  <2> HIDE DEF good
  <2> QED BY <1>1, SubsetsByOne
<1> QED BY <1>2

\* The position that EventsAt takes its k-th event from.
At(positions, k) == CHOOSE i \in positions : Rank(positions, i) = k

LEMMA EventsAtPositions ==
    ASSUME NEW E, NEW events \in Seq(E), NEW positions \in SUBSET DOMAIN events
    PROVE  /\ Cardinality(positions) \in Nat
           /\ EventsAt(events, positions)
                 = [k \in 1 .. Cardinality(positions) |-> events[At(positions, k)]]
           /\ \A k \in 1 .. Cardinality(positions) :
                 At(positions, k) \in positions /\ Rank(positions, At(positions, k)) = k
<1>1. DOMAIN events = 1 .. Len(events) /\ Len(events) \in Nat OBVIOUS
<1>2. IsFiniteSet(DOMAIN events) /\ DOMAIN events \in SUBSET Int BY <1>1, FS_Interval
<1>3. IsFiniteSet(positions) /\ Cardinality(positions) \in Nat
  BY <1>2, FS_Subset, FS_CardinalityType
<1>4. \A k \in 1 .. Cardinality(positions) : \E i \in positions : Rank(positions, i) = k
  BY <1>2, RanksExist
<1>5. EventsAt(events, positions)
         = [k \in 1 .. Cardinality(positions) |-> events[At(positions, k)]]
  BY DEF EventsAt, At, Rank
<1> QED BY <1>3, <1>4, <1>5 DEF At

\* They are events of the buffer, ...
LEMMA EventsAtType ==
    ASSUME NEW E, NEW events \in Seq(E), NEW positions \in SUBSET DOMAIN events,
           NEW F, \A i \in positions : events[i] \in F
    PROVE  EventsAt(events, positions) \in Seq(F)
<1>1. \A k \in 1 .. Cardinality(positions) : events[At(positions, k)] \in F
  BY EventsAtPositions
<1> QED BY <1>1, EventsAtPositions

\* ... all of them at all positions, ...
LEMMA EventsAtAll ==
    ASSUME NEW E, NEW events \in Seq(E), NEW positions, positions = DOMAIN events
    PROVE  EventsAt(events, positions) = events
<1>1. positions = 1 .. Len(events) /\ Len(events) \in Nat OBVIOUS
<1>2. Cardinality(positions) = Len(events) BY <1>1, FS_Interval
<1>3. ASSUME NEW i \in positions PROVE Rank(positions, i) = i
  <2>1. {j \in positions : j <= i} = 1 .. i /\ i \in Nat \ {0} BY <1>1
  <2>2. Cardinality(1 .. i) = i BY <2>1, FS_Interval
  <2> QED BY <2>1, <2>2 DEF Rank
<1>4. \A k \in 1 .. Len(events) : At(positions, k) = k
  BY <1>2, <1>3, EventsAtPositions
<1> QED BY <1>2, <1>4, EventsAtPositions

\* ... and no others when the buffer grows.
LEMMA EventsAtOfLonger ==
    ASSUME NEW E, NEW events \in Seq(E), NEW e \in E, NEW positions \in SUBSET DOMAIN events
    PROVE  EventsAt(Append(events, e), positions) = EventsAt(events, positions)
<1> DEFINE longer == Append(events, e)
<1>1. longer \in Seq(E) /\ positions \subseteq DOMAIN longer
      /\ \A i \in positions : longer[i] = events[i]
  OBVIOUS
<1> HIDE DEF longer
<1>2. \A k \in 1 .. Cardinality(positions) :
         longer[At(positions, k)] = events[At(positions, k)]
  BY <1>1, EventsAtPositions
<1>3. EventsAt(longer, positions) = EventsAt(events, positions)
  BY <1>1, <1>2, EventsAtPositions
<1> QED BY <1>3 DEF longer

-----------------------------------------------------------------------------
(* Values.                                                                 *)

LEMMA ClampType ==
    ASSUME NEW x \in Int
    PROVE  /\ Clamp(x) \in TrustValues /\ Clamp(x) \in Int
           /\ x \in TrustValues => Clamp(x) = x
BY TrustAssumption DEF Clamp, AtLeastZero, Lower, TrustValues

LEMMA TrustValuesAreInts == TrustValues \subseteq Int
BY TrustAssumption DEF TrustValues

LEMMA DecayType == ASSUME NEW value \in Int, NEW hours \in Int PROVE Decay(value, hours) \in Int
<1>1. DecayRate * hours \in Int BY TrustAssumption
<1> QED BY <1>1 DEF Decay, AtLeastZero

\* What FoldLeft carries along the events.
Running == [value : Int, at : Int]

\* A score is a value of trust, whatever the weights are.
LEMMA ScoreType ==
    ASSUME NEW events \in Seq(Events), NEW config, config.initial \in Int, NEW asOf \in Int
    PROVE  Score(events, config, asOf) \in TrustValues
<1> DEFINE first == [value |-> config.initial,
                     at    |-> IF events = <<>> THEN asOf ELSE Head(events).at]
           Add(s, e) == [value |-> Clamp(Decay(s.value, e.at - s.at) + e.delta), at |-> e.at]
           S == DOMAIN events
           Folds(g) == g = [s \in SUBSET S |->
                               IF s = {} THEN first ELSE Add(g[s \ {Max(s)}], events[Max(s)])]
           iter == CHOOSE g : Folds(g)
           last == iter[S]
<1>1. S = 1 .. Len(events) /\ Len(events) \in Nat OBVIOUS
<1>2. IsFiniteSet(S) /\ S \in SUBSET Int BY <1>1, FS_Interval
<1>3. first \in Running
  <2>1. CASE events = <<>> BY <2>1 DEF Running
  <2>2. CASE events # <<>>
    <3>1. Head(events) \in Events BY <2>2
    <3>2. Head(events).at \in Int BY <3>1 DEF Events
    <3> QED BY <2>2, <3>2 DEF Running
  <2> QED BY <2>1, <2>2
<1>4. ASSUME NEW i \in S, NEW s \in Running PROVE Add(s, events[i]) \in Running
  <2>1. events[i] \in Events OBVIOUS
  <2>2. events[i].at \in Int /\ events[i].delta \in Int BY <2>1 DEF Events
  <2>3. s.value \in Int /\ s.at \in Int BY DEF Running
  <2>4. Decay(s.value, events[i].at - s.at) \in Int
    <3>1. events[i].at - s.at \in Int BY <2>2, <2>3
    <3> QED BY <2>3, <3>1, DecayType
  <2>5. Clamp(Decay(s.value, events[i].at - s.at) + events[i].delta) \in Int
    BY <2>2, <2>4, ClampType
  <2> QED BY <2>2, <2>5 DEF Running
<1>5. Score(events, config, asOf) = Clamp(Decay(last.value, asOf - last.at))
  BY DEF Score, DeltaOf, FoldLeft, MapThenFoldSet
<1>6. \A s \in SUBSET S : s # {} => Max(s) \in s BY <1>2, GreatestExists
<1>7. \E g : Folds(g)
  <2> DEFINE pick == [s \in SUBSET S |-> Max(s)]
             step == [p \in S \X Running |-> Add(p[2], events[p[1]])]
  <2>1. Picks(pick, S) /\ Steps(step, S, Running) BY <1>4, <1>6 DEF Picks, Steps
  <2> HIDE DEF pick, step, first, S
  <2>2. Folding(S, Running, first, pick, step) # {} BY <1>2, <1>3, <2>1, FoldExists
  <2>3. PICK g \in [SUBSET S -> Running] :
           \A s \in SUBSET S :
              g[s] = IF s = {} THEN first ELSE step[<<pick[s], g[s \ {pick[s]}]>>]
    BY <2>2 DEF Folding
  <2> USE DEF pick, step
  <2>4. ASSUME NEW s \in SUBSET S
        PROVE  g[s] = IF s = {} THEN first ELSE Add(g[s \ {Max(s)}], events[Max(s)])
    <3>1. CASE s = {} BY <2>3, <3>1
    <3>2. CASE s # {}
      <4>1. Max(s) \in S /\ g[s \ {Max(s)}] \in Running /\ pick[s] = Max(s) BY <1>6, <3>2
      <4>2. step[<<Max(s), g[s \ {Max(s)}]>>] = Add(g[s \ {Max(s)}], events[Max(s)])
        BY <4>1
      <4> HIDE DEF step, Add, first
      <4> QED BY <2>3, <3>2, <4>1, <4>2
    <3> QED BY <3>1, <3>2
  <2> HIDE DEF Add
  <2> QED BY <2>4
<1>8. Folds(iter) BY <1>7
<1> DEFINE good == {s \in SUBSET S : iter[s] \in Running}
<1>9. ASSUME NEW s \in SUBSET S, \A x \in s : s \ {x} \in good PROVE s \in good
  <2> HIDE DEF iter, Add, first
  <2>1. iter[s] = IF s = {} THEN first ELSE Add(iter[s \ {Max(s)}], events[Max(s)])
    BY <1>8
  <2>2. CASE s = {} BY <1>3, <2>1, <2>2
  <2>3. CASE s # {}
    <3>1. Max(s) \in S /\ iter[s \ {Max(s)}] \in Running BY <1>6, <1>9, <2>3
    <3> QED BY <1>4, <2>1, <2>3, <3>1
  <2> QED BY <2>2, <2>3
<1>10. \A s \in SUBSET S : s \in good
  <2> HIDE DEF good, S
  <2> QED BY <1>2, <1>9, SubsetsByOne
<1>11. last \in Running BY <1>10
<1> HIDE DEF last
<1>12. last.value \in Int /\ asOf - last.at \in Int BY <1>11 DEF Running
<1> QED BY <1>5, <1>12, DecayType, ClampType

\* A window holds events of the buffer ...
LEMMA InWindowType ==
    ASSUME NEW E, NEW events \in Seq(E), NEW window \in Windows, NEW asOf
    PROVE  InWindow(events, window, asOf) \in Seq(E)
<1> DEFINE positions == {i \in DOMAIN events : events[i].at >= asOf - window.age}
           fresh == EventsAt(events, positions)
<1>1. positions \in SUBSET DOMAIN events /\ \A i \in positions : events[i] \in E OBVIOUS
<1> HIDE DEF positions
<1>2. fresh \in Seq(E) BY <1>1, EventsAtType
<1>3. InWindow(events, window, asOf)
          = SubSeq(fresh, 1 + AtLeastZero(Len(fresh) - window.size), Len(fresh))
  BY DEF InWindow, positions
<1> HIDE DEF fresh
<1>4. Len(fresh) \in Nat /\ window.size \in Nat \ {0} BY <1>2 DEF Windows
<1>5. /\ 1 + AtLeastZero(Len(fresh) - window.size) \in 1 .. Len(fresh) + 1
      /\ Len(fresh) \in 1 + AtLeastZero(Len(fresh) - window.size) - 1 .. Len(fresh)
  BY <1>4 DEF AtLeastZero
<1> QED BY <1>2, <1>3, <1>5, SubSeqProperties

\* ... and its score is a value of trust.
LEMMA WindowedScoreType ==
    ASSUME NEW events \in Seq(Events), NEW config, config.initial \in TrustValues,
           NEW window \in Windows, NEW asOf \in Int, NEW only
    PROVE  WindowedScore(events, config, window, asOf, only) \in TrustValues
<1> DEFINE inside == InWindow(events, window, asOf)
           positions == {i \in DOMAIN inside : only => inside[i].controllable}
           scored == EventsAt(inside, positions)
<1>1. inside \in Seq(Events) BY InWindowType
<1> HIDE DEF inside
<1>2. positions \in SUBSET DOMAIN inside /\ \A i \in positions : inside[i] \in Events
  BY <1>1
<1> HIDE DEF positions
<1>3. scored \in Seq(Events) BY <1>1, <1>2, EventsAtType
<1>4. WindowedScore(events, config, window, asOf, only)
          = IF scored = <<>> THEN config.initial ELSE Score(scored, config, asOf)
  BY DEF WindowedScore, OnlyControllable, inside, positions
<1> HIDE DEF scored
<1> QED BY <1>3, <1>4, TrustValuesAreInts, ScoreType

\* The events have their delta: a score does not depend on the weights.
LEMMA WeightsDoNotScore ==
    ASSUME NEW events, NEW one, NEW other, one.initial = other.initial, NEW asOf
    PROVE  Score(events, one, asOf) = Score(events, other, asOf)
BY DEF Score, DeltaOf

\* The score of all the events in the window, whatever their controllability.
Unfiltered(events, weights, initial, asOf) ==
    WindowedScore(events, [weights |-> weights, initial |-> initial],
                  ScoreWindow, asOf, FALSE)

LEMMA WeightsDoNotScoreWindows ==
    ASSUME NEW events, NEW one, NEW other, NEW initial, NEW asOf
    PROVE  Unfiltered(events, one, initial, asOf) = Unfiltered(events, other, initial, asOf)
<1> DEFINE first == [weights |-> one, initial |-> initial]
           second == [weights |-> other, initial |-> initial]
           inside == InWindow(events, ScoreWindow, asOf)
           positions == {i \in DOMAIN inside : FALSE => inside[i].controllable}
           scored == EventsAt(inside, positions)
<1>1. first.initial = initial /\ second.initial = initial OBVIOUS
<1>2. /\ Unfiltered(events, one, initial, asOf)
             = IF scored = <<>> THEN first.initial ELSE Score(scored, first, asOf)
      /\ Unfiltered(events, other, initial, asOf)
             = IF scored = <<>> THEN second.initial ELSE Score(scored, second, asOf)
  BY DEF Unfiltered, WindowedScore, OnlyControllable
<1> HIDE DEF scored, first, second
<1>3. Score(scored, first, asOf) = Score(scored, second, asOf) BY <1>1, WeightsDoNotScore
<1> QED BY <1>1, <1>2, <1>3

\* A filter that takes nothing away does not matter.
LEMMA FilterOfControllable ==
    ASSUME NEW E, \A e \in E : e.controllable, NEW events \in Seq(E), NEW config,
           NEW window \in Windows, NEW asOf
    PROVE  WindowedScore(events, config, window, asOf, TRUE)
               = WindowedScore(events, config, window, asOf, FALSE)
<1> DEFINE inside == InWindow(events, window, asOf)
<1>1. inside \in Seq(E) BY InWindowType
<1> HIDE DEF inside
<1>2. {i \in DOMAIN inside : inside[i].controllable} = DOMAIN inside
  <2>1. \A i \in DOMAIN inside : inside[i] \in E BY <1>1
  <2>2. \A i \in DOMAIN inside : inside[i].controllable BY <2>1
  <2> QED BY <2>2, Zenon
<1>3. OnlyControllable(inside, TRUE) = OnlyControllable(inside, FALSE)
  BY <1>2 DEF OnlyControllable
<1> QED BY <1>3 DEF WindowedScore, inside

\* What warms up is an integer between the beginning and the computed value.
LEMMA WarmedType ==
    ASSUME NEW initial \in TrustValues, NEW min \in Nat, NEW seen \in Nat,
           NEW computed \in TrustValues
    PROVE  /\ Warmed(initial, min, seen, computed) \in TrustValues
           /\ min = 0 => Warmed(initial, min, seen, computed)
                            = IF seen = 0 THEN initial ELSE computed
<1>1. initial \in Int /\ computed \in Int BY TrustValuesAreInts
<1>2. CASE seen = 0 BY <1>1, <1>2, ClampType DEF Warmed
<1>3. CASE seen # 0 /\ ~(seen < min) BY <1>1, <1>3, ClampType DEF Warmed
<1>4. CASE seen # 0 /\ seen < min
  <2> DEFINE total == (min - seen) * initial + seen * computed
  <2>1. min \in Nat \ {0} BY <1>4
  <2>2. (min - seen) * initial \in Int /\ seen * computed \in Int BY <1>1
  <2>3. total \in Int BY <2>2
  <2>4. Warmed(initial, min, seen, computed) = Clamp(total \div min) BY <1>4 DEF Warmed
  <2> HIDE DEF total
  <2>5. total \div min \in Int BY <2>1, <2>3
  <2> QED BY <2>1, <2>4, <2>5, ClampType
<1> QED BY <1>2, <1>3, <1>4

-----------------------------------------------------------------------------
(* The invariant.                                                          *)

Buffers == [initial : TrustValues, events : Seq(Events), seen : Nat]

Entries == [event : TrustEvents, before : Int, after : Int]

Learners == [initial : TrustValues, events : Seq(Events), seen : Nat,
             weights : [TrustEvents -> Int], journal : Seq(Entries), learnt : Int]

ScorersTyped ==
    /\ start \in Starts /\ filter \in BOOLEAN
    /\ windowed \in Buffers /\ learning \in Learners
    /\ now \in Nat
    /\ readings \in SUBSET [at : Nat, value : Int]
    /\ byHand \in [TrustEvents -> Int]

\* Both scorers have seen the same; the windowed one weighed it as at first.
SameBuffer ==
    /\ windowed.seen = learning.seen
    /\ Len(windowed.events) = Len(learning.events)
    /\ \A i \in DOMAIN windowed.events :
          /\ windowed.events[i].at = learning.events[i].at
          /\ windowed.events[i].type = learning.events[i].type
          /\ windowed.events[i].controllable = learning.events[i].controllable
          /\ windowed.events[i].delta = BaseWeights[windowed.events[i].type]

\* The clock is past every reading and not before any event.
Timely ==
    /\ windowed.seen = Len(windowed.events)
    /\ \A i \in DOMAIN windowed.events : windowed.events[i].at <= now
    /\ \A r \in readings : r.at < now

\* What learning may have added to a weight by the time it last learnt.
Reach(time) == MaxWeightDelta * (1 + time \div Cooldown)

LearntInReach ==
    /\ learning.learnt # Never => learning.learnt \in 0 .. now
    /\ \A type \in Weighted :
          IF learning.learnt = Never
          THEN learning.weights[type] = byHand[type]
          ELSE learning.weights[type] - byHand[type]
                  \in -Reach(learning.learnt) .. Reach(learning.learnt)

ScorersInv == ScorersTyped /\ SameBuffer /\ Timely /\ LearntInReach /\ ReplayReproduces

LEMMA WindowedValueType ==
    ASSUME NEW s, s.initial \in TrustValues, s.events \in Seq(Events), s.seen \in Nat,
           start \in Starts, NEW at \in Int
    PROVE  WindowedValue(s, at) \in TrustValues
<1> DEFINE config == [weights |-> BaseWeights, initial |-> s.initial]
           computed == WindowedScore(s.events, config, ScoreWindow, at, filter)
<1>1. config.initial \in TrustValues OBVIOUS
<1> HIDE DEF config
<1>2. computed \in TrustValues BY <1>1, EventScorersAssumption, WindowedScoreType
<1>3. start.min \in Nat BY EventScorersAssumption
<1> HIDE DEF computed
<1>4. WindowedValue(s, at) = Warmed(s.initial, start.min, s.seen, computed)
  BY DEF WindowedValue, computed, config
<1> QED BY <1>2, <1>3, <1>4, WarmedType

LEMMA LearningValueType ==
    ASSUME NEW s, s.initial \in TrustValues, s.events \in Seq(Events), s.seen \in Nat,
           start \in Starts, NEW at \in Int
    PROVE  LearningValue(s, at) \in TrustValues
<1> DEFINE config == [weights |-> s.weights, initial |-> s.initial]
           computed == WindowedScore(s.events, config, ScoreWindow, at, FALSE)
<1>1. config.initial \in TrustValues OBVIOUS
<1> HIDE DEF config
<1>2. computed \in TrustValues BY <1>1, EventScorersAssumption, WindowedScoreType
<1>3. start.min \in Nat BY EventScorersAssumption
<1> HIDE DEF computed
<1>4. LearningValue(s, at) = Warmed(s.initial, start.min, s.seen, computed)
  BY DEF LearningValue, computed, config
<1> QED BY <1>2, <1>3, <1>4, WarmedType

-----------------------------------------------------------------------------
(* What a change by learning is.                                           *)

LEMMA LessonsSum ==
    ASSUME ScorersTyped, NEW type
    PROVE  /\ IsFiniteSet(Lessons(type))
           /\ MapThenSumSet(Direction, Lessons(type)) \in Int
<1> DEFINE S == Lessons(type)
           Folds(g) == g = [s \in SUBSET S |->
                               IF s = {} THEN 0
                               ELSE Direction(CHOOSE x \in s : TRUE)
                                       + g[s \ {CHOOSE x \in s : TRUE}]]
           iter == CHOOSE g : Folds(g)
<1>1. learning.journal \in Seq(Entries) BY DEF ScorersTyped, Learners
<1>2. IsFiniteSet(S)
  <2>1. S \subseteq 2 .. Len(learning.journal) /\ Len(learning.journal) \in Int
    BY <1>1 DEF Lessons
  <2>2. IsFiniteSet(2 .. Len(learning.journal)) BY <2>1, FS_Interval
  <2> HIDE DEF S
  <2> QED BY <2>1, <2>2, FS_Subset
<1>3. ASSUME NEW i \in S PROVE Direction(i) \in Int
  <2>1. i \in DOMAIN learning.journal BY <1>1 DEF Lessons
  <2>2. learning.journal[i] \in Entries BY <1>1, <2>1
  <2>3. learning.journal[i].after \in Int /\ learning.journal[i].before \in Int
    BY <2>2 DEF Entries
  <2> QED BY <2>3 DEF Direction
<1>4. MapThenSumSet(Direction, S) = iter[S]
  BY DEF MapThenSumSet, MapThenFoldSet
<1> HIDE DEF S
<1>5. \A s \in SUBSET S : s # {} => (CHOOSE x \in s : TRUE) \in s OBVIOUS
<1>6. \E g : Folds(g)
  <2> DEFINE pick == [s \in SUBSET S |-> CHOOSE x \in s : TRUE]
             step == [p \in S \X Int |-> Direction(p[1]) + p[2]]
  <2>1. Picks(pick, S) /\ Steps(step, S, Int) BY <1>3, <1>5 DEF Picks, Steps
  <2> HIDE DEF pick, step
  <2>2. Folding(S, Int, 0, pick, step) # {}
    <3>1. \A base \in Int : Folding(S, Int, base, pick, step) # {} BY <1>2, <2>1, FoldExists
    <3> QED BY <3>1
  <2>3. PICK g \in [SUBSET S -> Int] :
           \A s \in SUBSET S :
              g[s] = IF s = {} THEN 0 ELSE step[<<pick[s], g[s \ {pick[s]}]>>]
    BY <2>2 DEF Folding
  <2> USE DEF pick, step
  <2>4. ASSUME NEW s \in SUBSET S
        PROVE  g[s] = IF s = {} THEN 0
                      ELSE Direction(CHOOSE x \in s : TRUE)
                              + g[s \ {CHOOSE x \in s : TRUE}]
    <3> DEFINE x == CHOOSE y \in s : TRUE
    <3>1. CASE s = {} BY <2>3, <3>1
    <3>2. CASE s # {}
      <4>1. x \in S /\ g[s \ {x}] \in Int /\ pick[s] = x BY <1>5, <3>2
      <4> HIDE DEF x
      <4>2. step[<<x, g[s \ {x}]>>] = Direction(x) + g[s \ {x}] BY <4>1
      <4> HIDE DEF step, pick
      <4>3. g[s] = Direction(x) + g[s \ {x}] BY <2>3, <3>2, <4>1, <4>2
      <4> QED BY <3>2, <4>3 DEF x
    <3> QED BY <3>1, <3>2
  <2> QED BY <2>4
<1>7. Folds(iter) BY <1>6
<1> DEFINE good == {s \in SUBSET S : iter[s] \in Int}
<1>8. ASSUME NEW s \in SUBSET S, \A x \in s : s \ {x} \in good PROVE s \in good
  <2> HIDE DEF iter
  <2>1. iter[s] = IF s = {} THEN 0
                  ELSE Direction(CHOOSE x \in s : TRUE)
                          + iter[s \ {CHOOSE x \in s : TRUE}]
    BY <1>7
  <2>2. CASE s = {} BY <2>1, <2>2
  <2>3. CASE s # {}
    <3> DEFINE x == CHOOSE y \in s : TRUE
    <3>1. iter[s] = Direction(x) + iter[s \ {x}] BY <2>1, <2>3
    <3>2. x \in s BY <1>5, <2>3
    <3> HIDE DEF x
    <3>3. Direction(x) \in Int /\ iter[s \ {x}] \in Int BY <1>3, <1>8, <3>2
    <3> QED BY <3>1, <3>3
  <2> QED BY <2>2, <2>3
<1>9. \A s \in SUBSET S : s \in good
  <2> HIDE DEF good
  <2> QED BY <1>2, <1>8, SubsetsByOne
<1>10. iter[S] \in Int BY <1>9
<1> HIDE DEF iter
<1> QED BY <1>2, <1>4, <1>10 DEF S

\* However long the journal is, learning once moves a weight by the cap at most.
LEMMA ChangeIsCapped ==
    ASSUME ScorersTyped, NEW type
    PROVE  Change(type) \in -MaxWeightDelta .. MaxWeightDelta
<1> DEFINE sum == MapThenSumSet(Direction, Lessons(type))
           n == Cardinality(Lessons(type))
<1>1. MaxWeightDelta \in Nat /\ LearningRate \in Nat \ {0} BY EventScorersAssumption
<1>2. CASE Lessons(type) = {} BY <1>1, <1>2 DEF Change
<1>3. CASE Lessons(type) # {}
  <2>1. sum \in Int /\ n \in Nat /\ n # 0
    BY <1>3, LessonsSum, FS_CardinalityType, FS_EmptySet
  <2>2. Change(type) = Capped(sum \div (LearningRate * n)) BY <1>3 DEF Change
  <2> HIDE DEF sum, n
  <2>3. LearningRate * n \in Nat \ {0} BY <1>1, <2>1
  <2>4. sum \div (LearningRate * n) \in Int BY <2>1, <2>3
  <2> QED BY <1>1, <2>2, <2>4 DEF Capped
<1> QED BY <1>2, <1>3

\* Another cooldown, another cap.
LEMMA ReachGrows ==
    ASSUME NEW a \in Nat
    PROVE  /\ Reach(a) \in Nat /\ MaxWeightDelta <= Reach(a)
           /\ \A b \in Nat : a <= b => Reach(a) <= Reach(b)
           /\ \A b \in Nat : b - a >= Cooldown => Reach(a) + MaxWeightDelta <= Reach(b)
<1>1. MaxWeightDelta \in Nat /\ Cooldown \in Nat \ {0} BY EventScorersAssumption
<1>2. \A b \in Nat : b \div Cooldown \in Nat BY <1>1
<1>3. \A x, y \in Nat : x <= y => MaxWeightDelta * x <= MaxWeightDelta * y
  <2> SUFFICES ASSUME NEW x \in Nat, NEW y \in Nat, x <= y
               PROVE  MaxWeightDelta * x <= MaxWeightDelta * y
    OBVIOUS
  <2>1. MaxWeightDelta * (y - x) \in Nat BY <1>1
  <2>2. MaxWeightDelta * y = MaxWeightDelta * x + MaxWeightDelta * (y - x) BY <1>1
  <2> QED BY <1>1, <2>1, <2>2
<1>4. \A b \in Nat : Reach(b) = MaxWeightDelta * (1 + b \div Cooldown) BY DEF Reach
<1>5. Reach(a) \in Nat /\ MaxWeightDelta <= Reach(a)
  <2>1. Reach(a) \in Nat BY <1>1, <1>2, <1>4
  <2>2. MaxWeightDelta * 1 <= Reach(a) BY <1>2, <1>3, <1>4
  <2> QED BY <1>1, <2>1, <2>2
<1>6. ASSUME NEW b \in Nat, a <= b PROVE Reach(a) <= Reach(b)
  <2>1. a \div Cooldown <= b \div Cooldown BY <1>1, <1>6
  <2>2. 1 + a \div Cooldown <= 1 + b \div Cooldown BY <1>2, <2>1
  <2>3. 1 + a \div Cooldown \in Nat /\ 1 + b \div Cooldown \in Nat BY <1>2
  <2> QED BY <1>3, <1>4, <2>2, <2>3
<1>7. ASSUME NEW b \in Nat, b - a >= Cooldown PROVE Reach(a) + MaxWeightDelta <= Reach(b)
  <2> DEFINE x == a \div Cooldown
             y == b \div Cooldown
  <2>1. y >= x + 1 BY <1>1, <1>7
  <2>2. x \in Nat /\ y \in Nat BY <1>2
  <2>3. Reach(a) = MaxWeightDelta * (1 + x) /\ Reach(b) = MaxWeightDelta * (1 + y) BY <1>4
  <2> HIDE DEF x, y
  <2>4. MaxWeightDelta * (2 + x) <= MaxWeightDelta * (1 + y) BY <1>3, <2>1, <2>2
  <2>5. MaxWeightDelta * (2 + x) = MaxWeightDelta * (1 + x) + MaxWeightDelta BY <1>1, <2>2
  <2> QED BY <2>3, <2>4, <2>5
<1> QED BY <1>5, <1>6, <1>7

-----------------------------------------------------------------------------
(* Replaying.                                                              *)

\* What is recorded after the time in question does not matter, ...
LEMMA ReplayOfLonger ==
    ASSUME NEW events \in Seq(Events), NEW e \in Events, NEW asOf \in Int, asOf < e.at,
           NEW config, NEW window, NEW only
    PROVE  Replay(Append(events, e), config, window, asOf, only)
               = Replay(events, config, window, asOf, only)
<1> DEFINE longer == Append(events, e)
           positions == {i \in DOMAIN events : events[i].at <= asOf}
<1>1. e.at \in Int BY DEF Events
<1>2. {i \in DOMAIN longer : longer[i].at <= asOf} = positions
  <2>1. /\ Len(events) \in Nat /\ DOMAIN events = 1 .. Len(events)
        /\ DOMAIN longer = 1 .. Len(events) + 1 /\ longer[Len(events) + 1] = e
        /\ \A i \in 1 .. Len(events) : longer[i] = events[i]
    OBVIOUS
  <2>2. ~(longer[Len(events) + 1].at <= asOf) BY <1>1, <2>1
  <2> HIDE DEF longer
  <2> QED BY <2>1, <2>2
<1>3. EventsAt(longer, positions) = EventsAt(events, positions)
  <2>1. positions \in SUBSET DOMAIN events OBVIOUS
  <2> HIDE DEF positions
  <2> QED BY <2>1, EventsAtOfLonger
<1> QED BY <1>2, <1>3 DEF Replay

\* ... and at the time itself a replay is the score.
LEMMA ReplayOfAll ==
    ASSUME NEW events \in Seq(Events), NEW asOf \in Int,
           \A i \in DOMAIN events : events[i].at <= asOf,
           NEW config, NEW window, NEW only
    PROVE  Replay(events, config, window, asOf, only)
               = WindowedScore(events, config, window, asOf, only)
<1>1. {i \in DOMAIN events : events[i].at <= asOf} = DOMAIN events OBVIOUS
<1>2. EventsAt(events, {i \in DOMAIN events : events[i].at <= asOf}) = events
  BY <1>1, EventsAtAll
<1> QED BY <1>2 DEF Replay

\* An empty buffer shows its beginning.
LEMMA NothingScored ==
    ASSUME NEW config, NEW window \in Windows, NEW asOf, NEW only
    PROVE  WindowedScore(<<>>, config, window, asOf, only) = config.initial
<1> DEFINE inside == InWindow(<<>>, window, asOf)
           positions == {i \in DOMAIN inside : only => inside[i].controllable}
<1>1. <<>> \in Seq({}) OBVIOUS
<1>2. inside \in Seq({}) BY <1>1, InWindowType
<1> HIDE DEF inside
<1>3. positions \in SUBSET DOMAIN inside /\ \A i \in positions : inside[i] \in {} BY <1>2
<1>4. OnlyControllable(inside, only) = EventsAt(inside, positions) BY DEF OnlyControllable
<1> HIDE DEF positions
<1>5. EventsAt(inside, positions) \in Seq({}) BY <1>2, <1>3, EventsAtType
<1>6. OnlyControllable(inside, only) = <<>> BY <1>4, <1>5
<1> QED BY <1>6 DEF WindowedScore, inside

-----------------------------------------------------------------------------
(* The calls.                                                              *)

\* The value of either scorer is an integer.
LEMMA ValuesAreInts ==
    ASSUME start \in Starts, now \in Nat
    PROVE  /\ \A s \in Buffers : WindowedValue(s, now) \in Int
           /\ \A s \in Learners : LearningValue(s, now) \in Int
<1>0. now \in Int OBVIOUS
<1>1. ASSUME NEW s \in Buffers PROVE WindowedValue(s, now) \in Int
  <2>1. s.initial \in TrustValues /\ s.events \in Seq(Events) /\ s.seen \in Nat
    BY DEF Buffers
  <2>2. WindowedValue(s, now) \in TrustValues BY <1>0, <2>1, WindowedValueType
  <2> QED BY <2>2, TrustValuesAreInts
<1>2. ASSUME NEW s \in Learners PROVE LearningValue(s, now) \in Int
  <2>1. s.initial \in TrustValues /\ s.events \in Seq(Events) /\ s.seen \in Nat
    BY DEF Learners
  <2>2. LearningValue(s, now) \in TrustValues BY <1>0, <2>1, LearningValueType
  <2> QED BY <2>2, TrustValuesAreInts
<1> QED BY <1>1, <1>2

NewEvent(weights, type, controllable) ==
    [at |-> now, type |-> type, delta |-> weights[type], controllable |-> controllable]

LEMMA BufferGrows ==
    ASSUME NEW s \in Buffers, NEW weights \in [TrustEvents -> Int], now \in Nat,
           NEW type \in TrustEvents, NEW controllable \in BOOLEAN,
           NEW t, t = WithEvent(s, weights, type, controllable)
    PROVE  /\ NewEvent(weights, type, controllable) \in Events
           /\ t \in Buffers /\ t.initial = s.initial /\ t.seen = s.seen + 1
           /\ t.events = Append(s.events, NewEvent(weights, type, controllable))
<1> DEFINE e == NewEvent(weights, type, controllable)
<1>1. e \in Events BY DEF Events, NewEvent
<1>2. t = [s EXCEPT !.events = Append(s.events, e), !.seen = s.seen + 1]
  BY DEF WithEvent, NewEvent
<1> HIDE DEF e
<1>3. Append(s.events, e) \in Seq(Events) /\ s.seen + 1 \in Nat BY <1>1 DEF Buffers
<1> DEFINE longer == Append(s.events, e)
           more == s.seen + 1
<1>4. t = [s EXCEPT !.events = longer, !.seen = more] BY <1>2
<1>5. longer \in Seq(Events) /\ more \in Nat BY <1>3
<1> HIDE DEF longer, more
<1>6. t \in Buffers /\ t.initial = s.initial /\ t.seen = more /\ t.events = longer
  BY <1>4, <1>5 DEF Buffers
<1> QED BY <1>1, <1>6 DEF e, longer, more

LEMMA LearnerGrows ==
    ASSUME NEW s \in Learners, now \in Nat,
           NEW type \in TrustEvents, NEW controllable \in BOOLEAN,
           NEW t, t = WithEvent(s, s.weights, type, controllable)
    PROVE  /\ NewEvent(s.weights, type, controllable) \in Events
           /\ t \in Learners /\ t.initial = s.initial /\ t.seen = s.seen + 1
           /\ t.events = Append(s.events, NewEvent(s.weights, type, controllable))
           /\ t.weights = s.weights /\ t.learnt = s.learnt
<1> DEFINE e == NewEvent(s.weights, type, controllable)
<1>1. e \in Events
  <2>1. s.weights[type] \in Int BY DEF Learners
  <2> QED BY <2>1 DEF Events, NewEvent
<1>2. t = [s EXCEPT !.events = Append(s.events, e), !.seen = s.seen + 1]
  BY DEF WithEvent, NewEvent
<1> HIDE DEF e
<1> DEFINE longer == Append(s.events, e)
           more == s.seen + 1
<1>3. longer \in Seq(Events) /\ more \in Nat BY <1>1 DEF Learners
<1>4. t = [s EXCEPT !.events = longer, !.seen = more] BY <1>2
<1> HIDE DEF longer, more
<1>5. /\ t \in Learners /\ t.initial = s.initial /\ t.seen = more /\ t.events = longer
      /\ t.weights = s.weights /\ t.learnt = s.learnt
  BY <1>3, <1>4 DEF Learners
<1> QED BY <1>1, <1>5 DEF e, longer, more

LEMMA BufferForgets ==
    ASSUME NEW s \in Buffers, NEW value \in TrustValues, NEW t, t = Overridden(s, value)
    PROVE  t \in Buffers /\ t.initial = Clamp(value) /\ t.seen = 0 /\ t.events = <<>>
<1> DEFINE initial == Clamp(value)
<1>1. initial \in TrustValues BY TrustValuesAreInts, ClampType
<1>2. <<>> \in Seq(Events) /\ 0 \in Nat OBVIOUS
<1>3. t = [s EXCEPT !.initial = initial, !.events = <<>>, !.seen = 0] BY DEF Overridden
<1> HIDE DEF initial
<1>4. t \in Buffers /\ t.initial = initial /\ t.seen = 0 /\ t.events = <<>>
  BY <1>1, <1>2, <1>3 DEF Buffers
<1> QED BY <1>4 DEF initial

LEMMA LearnerForgets ==
    ASSUME NEW s \in Learners, NEW value \in TrustValues, NEW t, t = Overridden(s, value)
    PROVE  /\ t \in Learners /\ t.initial = Clamp(value) /\ t.seen = 0 /\ t.events = <<>>
           /\ t.weights = s.weights /\ t.learnt = s.learnt
<1> DEFINE initial == Clamp(value)
<1>1. initial \in TrustValues BY TrustValuesAreInts, ClampType
<1>2. <<>> \in Seq(Events) /\ 0 \in Nat OBVIOUS
<1>3. t = [s EXCEPT !.initial = initial, !.events = <<>>, !.seen = 0] BY DEF Overridden
<1> HIDE DEF initial
<1>4. /\ t \in Learners /\ t.initial = initial /\ t.seen = 0 /\ t.events = <<>>
      /\ t.weights = s.weights /\ t.learnt = s.learnt
  BY <1>1, <1>2, <1>3 DEF Learners
<1> QED BY <1>4 DEF initial

\* An entry of the journal is all that is written at the end.
LEMMA JournalGrows ==
    ASSUME start \in Starts, now \in Nat, NEW s \in Learners, NEW type \in TrustEvents,
           NEW before \in Int, NEW t, t = Journaled(s, type, before)
    PROVE  /\ t \in Learners /\ t.initial = s.initial /\ t.seen = s.seen
           /\ t.events = s.events /\ t.weights = s.weights /\ t.learnt = s.learnt
<1> DEFINE after == LearningValue(s, now)
           entry == [event |-> type, before |-> before, after |-> after]
           longer == Append(s.journal, entry)
<1>1. after \in Int BY ValuesAreInts
<1>2. t = [s EXCEPT !.journal = longer] BY DEF Journaled
<1> HIDE DEF after
<1>3. entry \in Entries BY <1>1 DEF Entries
<1> HIDE DEF entry
<1>4. longer \in Seq(Entries) BY <1>3 DEF Learners
<1> HIDE DEF longer
<1> QED BY <1>2, <1>4 DEF Learners

Relearnt(s, weights, at) == [s EXCEPT !.weights = weights, !.learnt = at]

\* Learning touches the weights and the time.
LEMMA WeightsLearnt ==
    ASSUME NEW s \in Learners, NEW weights \in [TrustEvents -> Int], NEW at \in Nat,
           NEW t, t = Relearnt(s, weights, at)
    PROVE  /\ t \in Learners /\ t.initial = s.initial /\ t.seen = s.seen
           /\ t.events = s.events /\ t.weights = weights /\ t.learnt = at
<1> at \in Int OBVIOUS
<1> QED BY DEF Learners, Relearnt

LEMMA RecordKeeps ==
    ASSUME ScorersInv, NEW e \in Recorded, RecordEventInBoth(e.type, e.controllable)
    PROVE  ScorersInv'
<1> DEFINE type == e.type
           controllable == e.controllable
           grown == WithEvent(learning, learning.weights, type, controllable)
           before == LearningValue(learning, now)
           ours == NewEvent(BaseWeights, type, controllable)
           theirs == NewEvent(learning.weights, type, controllable)
<1>1. type \in TrustEvents /\ controllable \in BOOLEAN BY EventScorersAssumption
<1>2. /\ windowed \in Buffers /\ learning \in Learners /\ start \in Starts /\ now \in Nat
      /\ BaseWeights \in [TrustEvents -> Int]
  BY EventScorersAssumption DEF ScorersInv, ScorersTyped
<1>3. /\ windowed' = WithEvent(windowed, BaseWeights, type, controllable)
      /\ learning' = Journaled(grown, type, before)
      /\ UNCHANGED <<start, filter, now, readings, byHand>>
  BY DEF RecordEventInBoth
<1> HIDE DEF type, controllable
<1>4. before \in Int BY <1>2, ValuesAreInts
<1> HIDE DEF before
<1>5. /\ windowed' \in Buffers /\ windowed'.initial = windowed.initial
      /\ windowed'.seen = windowed.seen + 1 /\ windowed'.events = Append(windowed.events, ours)
      /\ ours \in Events
  BY <1>1, <1>2, <1>3, BufferGrows
<1>6. /\ grown \in Learners /\ grown.initial = learning.initial
      /\ grown.seen = learning.seen + 1 /\ grown.events = Append(learning.events, theirs)
      /\ grown.weights = learning.weights /\ grown.learnt = learning.learnt
      /\ theirs \in Events
  BY <1>1, <1>2, LearnerGrows
<1> HIDE DEF grown
<1>7. /\ learning' \in Learners /\ learning'.initial = learning.initial
      /\ learning'.seen = learning.seen + 1 /\ learning'.events = Append(learning.events, theirs)
      /\ learning'.weights = learning.weights /\ learning'.learnt = learning.learnt
  <2>1. /\ learning' \in Learners /\ learning'.initial = grown.initial
        /\ learning'.seen = grown.seen /\ learning'.events = grown.events
        /\ learning'.weights = grown.weights /\ learning'.learnt = grown.learnt
    <3>1. grown \in Learners BY <1>6
    <3>2. learning' = Journaled(grown, type, before) BY <1>3
    <3> QED BY <1>1, <1>2, <1>4, <3>1, <3>2, JournalGrows
  <2> QED BY <1>6, <2>1
<1>8. /\ ours.at = now /\ theirs.at = now /\ ours.type = type /\ theirs.type = type
      /\ ours.controllable = controllable /\ theirs.controllable = controllable
      /\ ours.delta = BaseWeights[type]
  BY DEF NewEvent
<1> HIDE DEF ours, theirs
<1>9. /\ windowed.events \in Seq(Events) /\ learning.events \in Seq(Events)
      /\ Len(windowed.events) = Len(learning.events) /\ Len(windowed.events) \in Nat
      /\ windowed.seen \in Nat
  BY <1>2 DEF ScorersInv, SameBuffer, Buffers, Learners
<1>10. ScorersTyped' BY <1>3, <1>5, <1>7 DEF ScorersInv, ScorersTyped
<1>11. ASSUME NEW i \in DOMAIN windowed'.events
       PROVE  \/ /\ i \in DOMAIN windowed.events
                 /\ windowed'.events[i] = windowed.events[i]
                 /\ learning'.events[i] = learning.events[i]
              \/ windowed'.events[i] = ours /\ learning'.events[i] = theirs
  <2>1. i \in 1 .. Len(windowed.events) + 1 BY <1>5, <1>9, <1>11
  <2>2. CASE i = Len(windowed.events) + 1 BY <1>5, <1>7, <1>9, <2>2
  <2>3. CASE i \in 1 .. Len(windowed.events) BY <1>5, <1>7, <1>9, <2>3
  <2> QED BY <1>9, <2>1, <2>2, <2>3
<1>12. SameBuffer'
  <2>1. Len(windowed'.events) = Len(learning'.events) BY <1>5, <1>6, <1>7, <1>9
  <2> QED BY <1>5, <1>7, <1>8, <1>11, <2>1 DEF ScorersInv, SameBuffer
<1>13. Timely'
  <2>1. windowed'.seen = Len(windowed'.events) BY <1>5, <1>9 DEF ScorersInv, Timely
  <2>2. \A i \in DOMAIN windowed'.events : windowed'.events[i].at <= now
    BY <1>2, <1>8, <1>11 DEF ScorersInv, Timely
  <2> QED BY <1>3, <2>1, <2>2 DEF ScorersInv, Timely
<1>14. LearntInReach' BY <1>3, <1>7 DEF ScorersInv, LearntInReach, Reach
<1>15. ReplayReproduces'
  <2> DEFINE config == [weights |-> BaseWeights, initial |-> windowed.initial]
  <2>1. ASSUME NEW r \in readings
        PROVE  Replay(windowed'.events, config, ScoreWindow, r.at, filter)
                   = Replay(windowed.events, config, ScoreWindow, r.at, filter)
    <3>1. r.at \in Int /\ r.at < ours.at BY <1>8 DEF ScorersInv, ScorersTyped, Timely
    <3> QED BY <1>5, <1>9, <3>1, ReplayOfLonger
  <2> QED BY <1>3, <1>5, <2>1 DEF ScorersInv, ReplayReproduces
<1> QED BY <1>10, <1>12, <1>13, <1>14, <1>15 DEF ScorersInv

LEMMA SetValueKeeps ==
    ASSUME ScorersInv, NEW value \in Overrides, SetValueOfBoth(value)
    PROVE  ScorersInv'
<1> DEFINE fresh == Overridden(learning, value)
           before == LearningValue(learning, now)
<1>1. value \in TrustValues /\ "human_override" \in TrustEvents
  BY EventScorersAssumption DEF TrustEvents
<1>2. windowed \in Buffers /\ learning \in Learners /\ start \in Starts /\ now \in Nat
  BY DEF ScorersInv, ScorersTyped
<1>3. /\ windowed' = Overridden(windowed, value)
      /\ learning' = Journaled(fresh, "human_override", before)
      /\ readings' = {} /\ UNCHANGED <<start, filter, now, byHand>>
  BY DEF SetValueOfBoth
<1>4. before \in Int BY <1>2, ValuesAreInts
<1> HIDE DEF before
<1>5. /\ windowed' \in Buffers /\ windowed'.initial = Clamp(value)
      /\ windowed'.seen = 0 /\ windowed'.events = <<>>
  BY <1>1, <1>2, <1>3, BufferForgets
<1>6. /\ fresh \in Learners /\ fresh.initial = Clamp(value)
      /\ fresh.seen = 0 /\ fresh.events = <<>>
      /\ fresh.weights = learning.weights /\ fresh.learnt = learning.learnt
  BY <1>1, <1>2, LearnerForgets
<1> HIDE DEF fresh
<1>7. /\ learning' \in Learners /\ learning'.initial = Clamp(value)
      /\ learning'.seen = 0 /\ learning'.events = <<>>
      /\ learning'.weights = learning.weights /\ learning'.learnt = learning.learnt
  BY <1>1, <1>2, <1>3, <1>4, <1>6, JournalGrows
<1>8. ScorersTyped' BY <1>3, <1>5, <1>7 DEF ScorersInv, ScorersTyped
<1>9. SameBuffer' /\ Timely' BY <1>3, <1>5, <1>7 DEF SameBuffer, Timely
<1>10. LearntInReach' BY <1>3, <1>7 DEF ScorersInv, LearntInReach, Reach
<1>11. ReplayReproduces' BY <1>3 DEF ReplayReproduces
<1> QED BY <1>8, <1>9, <1>10, <1>11 DEF ScorersInv

LEMMA AdjustKeeps ==
    ASSUME ScorersInv, NEW change \in HandWeights, AdjustWeights(change)
    PROVE  ScorersInv'
<1>1. learning \in Learners /\ now \in Nat BY DEF ScorersInv, ScorersTyped
<1>2. change.type \in TrustEvents /\ change.weight \in Int
  BY EventScorersAssumption DEF Weighted, TrustEvents
<1> DEFINE weights == [learning.weights EXCEPT ![change.type] = change.weight]
<1>3. learning' = [learning EXCEPT !.weights = weights]
      /\ byHand' = learning'.weights
      /\ UNCHANGED <<start, filter, windowed, now, readings>>
  BY DEF AdjustWeights
<1>4. weights \in [TrustEvents -> Int] BY <1>1, <1>2 DEF Learners
<1> HIDE DEF weights
<1>5. /\ learning' \in Learners /\ learning'.initial = learning.initial
      /\ learning'.seen = learning.seen /\ learning'.events = learning.events
      /\ learning'.weights = weights /\ learning'.learnt = learning.learnt
  BY <1>1, <1>3, <1>4 DEF Learners
<1>6. ScorersTyped' BY <1>3, <1>4, <1>5 DEF ScorersInv, ScorersTyped
<1>7. SameBuffer' /\ Timely' BY <1>3, <1>5 DEF ScorersInv, SameBuffer, Timely
<1>8. LearntInReach'
  <2>1. learning'.learnt # Never => learning'.learnt \in 0 .. now
    BY <1>5 DEF ScorersInv, LearntInReach
  <2>2. ASSUME NEW type \in Weighted
        PROVE  IF learning'.learnt = Never
               THEN learning'.weights[type] = byHand'[type]
               ELSE learning'.weights[type] - byHand'[type]
                       \in -Reach(learning'.learnt) .. Reach(learning'.learnt)
    <3>1. CASE learning'.learnt = Never BY <1>3, <3>1
    <3>2. CASE learning'.learnt # Never
      <4>1. learning'.learnt \in Nat BY <1>1, <2>1, <3>2
      <4>2. Reach(learning'.learnt) \in Nat BY <4>1, ReachGrows
      <4>3. weights[type] - weights[type] = 0
        BY <1>4 DEF Weighted, TrustEvents
      <4> QED BY <1>3, <1>5, <3>2, <4>2, <4>3
    <3> QED BY <3>1, <3>2
  <2> QED BY <1>3, <2>1, <2>2 DEF LearntInReach
<1>9. ReplayReproduces' BY <1>3 DEF ScorersInv, ReplayReproduces
<1> QED BY <1>6, <1>7, <1>8, <1>9 DEF ScorersInv

LEMMA LearnKeeps == ASSUME ScorersInv, LearnFromHistory PROVE ScorersInv'
<1>1. learning \in Learners /\ now \in Nat BY DEF ScorersInv, ScorersTyped
<1> DEFINE weights == [type \in TrustEvents |->
                          IF type \in Weighted THEN learning.weights[type] + Change(type)
                          ELSE learning.weights[type]]
<1>2. /\ learning.learnt # Never => now - learning.learnt >= Cooldown
      /\ learning' = [learning EXCEPT !.weights = weights, !.learnt = now]
      /\ UNCHANGED <<start, filter, windowed, now, readings, byHand>>
  BY DEF LearnFromHistory
<1>3. \A type : Change(type) \in -MaxWeightDelta .. MaxWeightDelta /\ Change(type) \in Int
  BY EventScorersAssumption, ChangeIsCapped DEF ScorersInv
<1>4. learning.weights \in [TrustEvents -> Int] BY <1>1 DEF Learners
<1>5. weights \in [TrustEvents -> Int] BY <1>3, <1>4
<1>6. \A type \in Weighted : weights[type] = learning.weights[type] + Change(type)
  BY DEF Weighted, TrustEvents
<1> HIDE DEF weights
<1>7. /\ learning' \in Learners /\ learning'.initial = learning.initial
      /\ learning'.seen = learning.seen /\ learning'.events = learning.events
      /\ learning'.weights = weights /\ learning'.learnt = now
  <2>1. learning' = Relearnt(learning, weights, now) BY <1>2 DEF Relearnt
  <2> QED BY <1>1, <1>5, <2>1, WeightsLearnt
<1>8. ScorersTyped' BY <1>2, <1>7 DEF ScorersInv, ScorersTyped
<1>9. SameBuffer' /\ Timely' BY <1>2, <1>7 DEF ScorersInv, SameBuffer, Timely
<1>10. LearntInReach'
  <2>1. now # Never /\ now \in 0 .. now BY <1>1 DEF Never
  <2>2. ASSUME NEW type \in Weighted
        PROVE  weights[type] - byHand[type] \in -Reach(now) .. Reach(now)
    <3> DEFINE w == learning.weights[type]
               b == byHand[type]
               d == Change(type)
               far == Reach(now)
    <3>0. \A n \in Int, m \in Nat : n \in -m .. m <=> n <= m /\ -m <= n OBVIOUS
    <3>1. w \in Int /\ b \in Int /\ d \in -MaxWeightDelta .. MaxWeightDelta
      BY <1>3, <1>4 DEF ScorersInv, ScorersTyped, Weighted, TrustEvents
    <3>2. weights[type] = w + d BY <1>6
    <3>3. MaxWeightDelta \in Nat /\ far \in Nat /\ MaxWeightDelta <= far
      BY <1>1, EventScorersAssumption, ReachGrows
    <3>4. CASE learning.learnt = Never
      <4>1. w = b BY <3>4 DEF ScorersInv, LearntInReach
      <4> HIDE DEF w, b, d, far
      <4>2. d <= MaxWeightDelta /\ -MaxWeightDelta <= d /\ d \in Int BY <3>1, <3>3
      <4>3. (w + d) - b \in Int /\ (w + d) - b <= far /\ -far <= (w + d) - b
        BY <3>1, <3>3, <4>1, <4>2
      <4>4. (w + d) - b \in -far .. far BY <3>0, <3>3, <4>3
      <4>5. weights[type] - b \in -far .. far BY <3>2, <4>4
      <4> QED BY <4>5 DEF b, far
    <3>5. CASE learning.learnt # Never
      <4> DEFINE l == learning.learnt
      <4>1. l \in Nat /\ w - b \in -Reach(l) .. Reach(l)
        BY <1>1, <3>5 DEF ScorersInv, LearntInReach
      <4>2. now - l >= Cooldown BY <1>2, <3>5
      <4> DEFINE near == Reach(l)
      <4>3. near \in Nat /\ near + MaxWeightDelta <= far
        BY <1>1, <4>1, <4>2, ReachGrows
      <4> HIDE DEF w, b, d, l, near, far
      <4>4. d <= MaxWeightDelta /\ -MaxWeightDelta <= d /\ d \in Int BY <3>1, <3>3
      <4>5. w - b <= near /\ -near <= w - b /\ w - b \in Int BY <3>1, <4>1, <4>3 DEF near
      <4>6. (w + d) - b \in Int /\ (w + d) - b <= far /\ -far <= (w + d) - b
        BY <3>1, <3>3, <4>3, <4>4, <4>5
      <4>7. (w + d) - b \in -far .. far BY <3>0, <3>3, <4>6
      <4>8. weights[type] - b \in -far .. far BY <3>2, <4>7
      <4> QED BY <4>8 DEF b, far
    <3> QED BY <3>4, <3>5
  <2> QED BY <1>2, <1>7, <2>1, <2>2 DEF LearntInReach
<1>11. ReplayReproduces' BY <1>2 DEF ScorersInv, ReplayReproduces
<1> QED BY <1>8, <1>9, <1>10, <1>11 DEF ScorersInv

LEMMA TickKeeps == ASSUME ScorersInv, Tick PROVE ScorersInv'
<1> DEFINE value == WindowedValue(windowed, now)
           reading == [at |-> now, value |-> value]
<1>1. /\ windowed \in Buffers /\ learning \in Learners /\ start \in Starts /\ now \in Nat
      /\ readings \in SUBSET [at : Nat, value : Int]
  BY DEF ScorersInv, ScorersTyped
<1>2. /\ now' = now + 1 /\ readings' = readings \cup {reading}
      /\ UNCHANGED <<start, filter, windowed, learning, byHand>>
  BY DEF Tick
<1>3. value \in Int BY <1>1, ValuesAreInts
<1>4. start.min = 0 =>
         Replay(windowed.events, [weights |-> BaseWeights, initial |-> windowed.initial],
                ScoreWindow, now, filter) = value
  <2> DEFINE config == [weights |-> BaseWeights, initial |-> windowed.initial]
             computed == WindowedScore(windowed.events, config, ScoreWindow, now, filter)
  <2>1. windowed.events \in Seq(Events) /\ windowed.initial \in TrustValues
        /\ windowed.seen \in Nat
    BY <1>1 DEF Buffers
  <2>2. config.initial = windowed.initial /\ ScoreWindow \in Windows /\ start.min \in Nat
    BY <1>1, EventScorersAssumption
  <2>3. value = Warmed(windowed.initial, start.min, windowed.seen, computed)
    BY DEF WindowedValue
  <2> HIDE DEF config, value
  <2>4. Replay(windowed.events, config, ScoreWindow, now, filter) = computed
    BY <1>1, <2>1, ReplayOfAll DEF ScorersInv, Timely
  <2>5. computed \in TrustValues BY <1>1, <2>1, <2>2, WindowedScoreType
  <2>6. windowed.seen = 0 => computed = windowed.initial
    <3>1. windowed.seen = 0 => windowed.events = <<>>
      BY <2>1, EmptySeq DEF ScorersInv, Timely
    <3> QED BY <2>2, <3>1, NothingScored
  <2> HIDE DEF computed
  <2>7. start.min = 0 => value = computed BY <2>1, <2>2, <2>3, <2>5, <2>6, WarmedType
  <2> QED BY <2>4, <2>7 DEF config
<1> HIDE DEF value
<1>5. reading \in [at : Nat, value : Int] /\ reading.at = now /\ reading.value = value
  BY <1>1, <1>3
<1> HIDE DEF reading
<1>6. ScorersTyped' BY <1>1, <1>2, <1>5 DEF ScorersInv, ScorersTyped
<1>7. SameBuffer' BY <1>2 DEF ScorersInv, SameBuffer
<1>8. Timely'
  <2>1. \A r \in readings' : r.at < now + 1
    BY <1>1, <1>2, <1>5 DEF ScorersInv, Timely
  <2>2. \A i \in DOMAIN windowed.events : windowed.events[i].at <= now + 1
    <3>1. \A i \in DOMAIN windowed.events : windowed.events[i] \in Events
      BY <1>1 DEF Buffers
    <3>2. \A i \in DOMAIN windowed.events : windowed.events[i].at \in Nat
      BY <3>1 DEF Events
    <3> QED BY <1>1, <3>2 DEF ScorersInv, Timely
  <2> QED BY <1>2, <2>1, <2>2 DEF ScorersInv, Timely
<1>9. LearntInReach'
  <2>1. learning.learnt # Never => learning.learnt \in 0 .. now + 1
    BY <1>1 DEF ScorersInv, LearntInReach
  <2> QED BY <1>2, <2>1 DEF ScorersInv, LearntInReach, Reach
<1>10. ReplayReproduces' BY <1>2, <1>4, <1>5 DEF ScorersInv, ReplayReproduces
<1> QED BY <1>6, <1>7, <1>8, <1>9, <1>10 DEF ScorersInv

LEMMA ScorersStart == ScorersInit => ScorersInv
<1> SUFFICES ASSUME ScorersInit PROVE ScorersInv
  OBVIOUS
<1>1. <<>> \in Seq(Events) /\ <<>> \in Seq(Entries)
  OBVIOUS
<1>2. BaseWeights \in [TrustEvents -> Int] /\ 0 \in Nat /\ Never \in Int
  BY EventScorersAssumption DEF Never
<1>3. windowed \in Buffers /\ learning \in Learners
  <2>1. ASSUME NEW initial \in TrustValues
        PROVE  FreshWindowed(initial) \in Buffers /\ FreshLearning(initial) \in Learners
    BY <1>1, <1>2 DEF FreshWindowed, FreshLearning, Buffers, Learners
  <2>2. start.initial \in TrustValues /\ InitialValues \subseteq TrustValues
    BY EventScorersAssumption DEF ScorersInit
  <2>3. DefaultInitial \in TrustValues
    BY TrustAssumption DEF DefaultInitial, TrustValues
  <2> QED BY <2>1, <2>2, <2>3 DEF ScorersInit
<1>4. /\ windowed.events = <<>> /\ learning.events = <<>>
      /\ windowed.seen = 0 /\ learning.seen = 0
      /\ learning.learnt = Never /\ learning.weights = BaseWeights
  BY DEF ScorersInit, FreshWindowed, FreshLearning
<1>5. ScorersTyped BY <1>2, <1>3 DEF ScorersInit, ScorersTyped
<1>6. SameBuffer /\ Timely BY <1>4 DEF ScorersInit, SameBuffer, Timely
<1>7. LearntInReach BY <1>4 DEF ScorersInit, LearntInReach
<1>8. ReplayReproduces BY DEF ScorersInit, ReplayReproduces
<1> QED BY <1>5, <1>6, <1>7, <1>8 DEF ScorersInv

LEMMA ScorersStay == ScorersInv /\ UNCHANGED scorerVars => ScorersInv'
BY DEF ScorersInv, ScorersTyped, SameBuffer, Timely, LearntInReach, Reach,
       ReplayReproduces, scorerVars

LEMMA ScorersStep == ScorersInv /\ [ScorersNext]_scorerVars => ScorersInv'
<1> SUFFICES ASSUME ScorersInv, [ScorersNext]_scorerVars PROVE ScorersInv'
  OBVIOUS
<1>1. CASE \E e \in Recorded : RecordEventInBoth(e.type, e.controllable)
  BY <1>1, RecordKeeps
<1>2. CASE \E value \in Overrides : SetValueOfBoth(value) BY <1>2, SetValueKeeps
<1>3. CASE \E change \in HandWeights : AdjustWeights(change) BY <1>3, AdjustKeeps
<1>4. CASE LearnFromHistory BY <1>4, LearnKeeps
<1>5. CASE Tick BY <1>5, TickKeeps
<1>6. CASE UNCHANGED scorerVars BY <1>6, ScorersStay
<1> QED BY <1>1, <1>2, <1>3, <1>4, <1>5, <1>6 DEF ScorersNext

\* Both scorers' records have their types; their buffers hold the same events,
\* none from later than now; and what learning has added to a weight fits the
\* cooldowns up to the time it last learnt.
THEOREM ScorersInvariant == ScorersSpec => []ScorersInv
BY ScorersStart, ScorersStep, PTL DEF ScorersSpec

\* Whatever is recorded after an hour, replay() gives back the value that the
\* windowed scorer showed at its end, as long as nobody sets the value anew.
THEOREM ReplaysReproduce == ScorersSpec => []ReplayReproduces
<1>1. ScorersInv => ReplayReproduces BY DEF ScorersInv
<1> QED BY <1>1, ScorersInvariant, PTL

\* However often learn_from_history() is called and however long its journal
\* is, a weight stays within max_weight_delta per cooldown of what it was set
\* to by hand.
THEOREM LearningStaysBounded == ScorersSpec => []LearningIsBounded
<1>1. ASSUME ScorersInv PROVE LearningIsBounded
  <2>1. /\ learning \in Learners /\ now \in Nat /\ byHand \in [TrustEvents -> Int]
        /\ learning.weights \in [TrustEvents -> Int]
    BY <1>1 DEF ScorersInv, ScorersTyped, Learners
  <2>2. ASSUME NEW type \in Weighted
        PROVE  learning.weights[type] - byHand[type] \in -Reach(now) .. Reach(now)
    <3> DEFINE w == learning.weights[type]
               b == byHand[type]
               l == learning.learnt
               far == Reach(now)
    <3>1. w \in Int /\ b \in Int BY <2>1 DEF Weighted, TrustEvents
    <3>2. far \in Nat BY <2>1, ReachGrows
    <3>3. CASE l = Never
      <4>1. w = b BY <1>1, <3>3 DEF ScorersInv, LearntInReach
      <4> HIDE DEF w, b, far
      <4>2. w - b \in -far .. far BY <3>1, <3>2, <4>1
      <4> QED BY <4>2 DEF w, b, far
    <3>4. CASE l # Never
      <4> DEFINE near == Reach(l)
      <4>1. l \in 0 .. now /\ w - b \in -near .. near
        BY <1>1, <3>4 DEF ScorersInv, LearntInReach
      <4> HIDE DEF w, b, l
      <4>2. l \in Nat /\ l <= now BY <2>1, <4>1
      <4>3. near \in Nat /\ near <= far BY <2>1, <4>2, ReachGrows
      <4> HIDE DEF near, far
      <4>4. w - b \in -far .. far BY <3>1, <3>2, <4>1, <4>3
      <4> QED BY <4>4 DEF w, b, far
    <3> QED BY <3>3, <3>4
  <2> QED BY <2>2 DEF LearningIsBounded, Reach
<1> QED BY <1>1, ScorersInvariant, PTL

LEMMA EventsAlike ==
    ASSUME NEW one \in Events, NEW other \in Events,
           one.at = other.at, one.type = other.type,
           one.delta = other.delta, one.controllable = other.controllable
    PROVE  one = other
<1>1. one = [at |-> one.at, type |-> one.type, delta |-> one.delta,
             controllable |-> one.controllable]
  BY Zenon DEF Events
<1>2. other = [at |-> other.at, type |-> other.type, delta |-> other.delta,
               controllable |-> other.controllable]
  BY Zenon DEF Events
<1> QED BY <1>1, <1>2, Zenon

LEMMA SameEventsSameValue ==
    ASSUME ScorersInv, windowed.initial = learning.initial,
           \A i \in DOMAIN learning.events : LET e == learning.events[i] IN
              e.delta = BaseWeights[e.type] /\ (filter => e.controllable)
    PROVE  WindowedValue(windowed, now) = LearningValue(learning, now)
<1>1. /\ windowed \in Buffers /\ learning \in Learners /\ now \in Nat
      /\ filter \in BOOLEAN /\ ScoreWindow \in Windows
  BY EventScorersAssumption DEF ScorersInv, ScorersTyped
<1>2. /\ windowed.events \in Seq(Events) /\ learning.events \in Seq(Events)
      /\ windowed.initial = learning.initial /\ windowed.seen = learning.seen
      /\ Len(windowed.events) = Len(learning.events)
  BY <1>1 DEF ScorersInv, SameBuffer, Buffers, Learners
<1>3. windowed.events = learning.events
  <2>1. ASSUME NEW i \in DOMAIN windowed.events
        PROVE  windowed.events[i] = learning.events[i]
    <3> DEFINE one == windowed.events[i]
               other == learning.events[i]
    <3>1. i \in DOMAIN learning.events BY <1>2
    <3>2. one \in Events /\ other \in Events BY <1>2, <3>1
    <3>3. /\ one.at = other.at /\ one.type = other.type
          /\ one.controllable = other.controllable /\ one.delta = BaseWeights[one.type]
      BY DEF ScorersInv, SameBuffer
    <3>4. other.delta = BaseWeights[other.type] BY <3>1
    <3> HIDE DEF one, other
    <3>5. one.delta = other.delta BY <3>3, <3>4
    <3>6. one = other BY <3>2, <3>3, <3>5, EventsAlike
    <3> QED BY <3>6 DEF one, other
  <2> QED BY <1>2, <2>1
<1> DEFINE events == learning.events
           initial == learning.initial
           config == [weights |-> BaseWeights, initial |-> initial]
<1>4. WindowedValue(windowed, now)
         = Warmed(initial, start.min, learning.seen,
                  WindowedScore(events, config, ScoreWindow, now, filter))
  BY <1>2, <1>3 DEF WindowedValue
<1>5. LearningValue(learning, now)
         = Warmed(initial, start.min, learning.seen,
                  Unfiltered(events, learning.weights, initial, now))
  BY DEF LearningValue, Unfiltered
<1>6. events \in Seq({e \in Events : filter => e.controllable}) BY <1>2
<1> HIDE DEF events, initial
<1>7. WindowedScore(events, config, ScoreWindow, now, filter)
         = Unfiltered(events, BaseWeights, initial, now)
  <2>1. CASE filter
    <3> DEFINE E == {e \in Events : e.controllable}
    <3>1. events \in Seq(E) BY <1>6, <2>1
    <3>2. \A e \in E : e.controllable OBVIOUS
    <3> HIDE DEF E, config
    <3>3. WindowedScore(events, config, ScoreWindow, now, TRUE)
             = WindowedScore(events, config, ScoreWindow, now, FALSE)
      BY <1>1, <3>1, <3>2, FilterOfControllable
    <3>4. filter = TRUE BY <1>1, <2>1
    <3> QED BY <3>3, <3>4 DEF Unfiltered, config
  <2>2. CASE ~filter
    <3>1. filter = FALSE BY <1>1, <2>2
    <3> QED BY <3>1 DEF Unfiltered
  <2> QED BY <2>1, <2>2
<1> HIDE DEF config
<1>8. Unfiltered(events, BaseWeights, initial, now)
         = Unfiltered(events, learning.weights, initial, now)
  BY WeightsDoNotScoreWindows
<1> QED BY <1>4, <1>5, <1>7, <1>8

\* Once they have the same beginning, the two copies of the code show the same
\* value as long as no weight has changed for an event in the buffer and the
\* filter takes none away.
THEOREM BothScorersAgree == ScorersSpec => []ScorersAgree
<1>1. ScorersInv => ScorersAgree BY SameEventsSameValue DEF ScorersAgree
<1> QED BY <1>1, ScorersInvariant, PTL

\* The value shown is computed from the beginning, the events and their number.
LEMMA WeightsDoNotShow ==
    ASSUME NEW s, NEW t, NEW at,
           t.initial = s.initial, t.events = s.events, t.seen = s.seen
    PROVE  LearningValue(t, at) = LearningValue(s, at)
<1>1. Unfiltered(s.events, t.weights, s.initial, at)
         = Unfiltered(s.events, s.weights, s.initial, at)
  BY WeightsDoNotScoreWindows
<1>2. LearningValue(s, at)
         = Warmed(s.initial, start.min, s.seen,
                  Unfiltered(s.events, s.weights, s.initial, at))
  BY DEF LearningValue, Unfiltered
<1>3. LearningValue(t, at)
         = Warmed(s.initial, start.min, s.seen,
                  Unfiltered(s.events, t.weights, s.initial, at))
  BY DEF LearningValue, Unfiltered
<1> QED BY <1>1, <1>2, <1>3

\* Neither learning nor a change by hand alters the value that the learning
\* scorer shows: new weights are for the events to come.
THEOREM NewWeightsActForward == ScorersSpec => WeightsActForward
<1> DEFINE Forward == learning'.weights # learning.weights =>
                          LearningValue(learning', now') = LearningValue(learning, now)
<1>1. ASSUME ScorersInv, [ScorersNext]_scorerVars PROVE [Forward]_scorerVars
  <2>1. learning \in Learners /\ start \in Starts /\ now \in Nat /\ windowed \in Buffers
    BY <1>1 DEF ScorersInv, ScorersTyped
  <2>2. CASE \E e \in Recorded : RecordEventInBoth(e.type, e.controllable)
    <3>1. PICK e \in Recorded : RecordEventInBoth(e.type, e.controllable) BY <2>2
    <3> DEFINE type == e.type
               controllable == e.controllable
               grown == WithEvent(learning, learning.weights, type, controllable)
               before == LearningValue(learning, now)
    <3>2. type \in TrustEvents /\ controllable \in BOOLEAN BY EventScorersAssumption
    <3>3. before \in Int BY <2>1, ValuesAreInts
    <3>4. learning' = Journaled(grown, type, before) BY <3>1 DEF RecordEventInBoth
    <3> HIDE DEF type, controllable, before
    <3>5. grown \in Learners /\ grown.weights = learning.weights
      BY <2>1, <3>2, LearnerGrows
    <3> HIDE DEF grown
    <3>6. learning'.weights = grown.weights BY <2>1, <3>2, <3>3, <3>4, <3>5, JournalGrows
    <3> QED BY <3>5, <3>6
  <2>3. CASE \E value \in Overrides : SetValueOfBoth(value)
    <3>1. PICK value \in Overrides : SetValueOfBoth(value) BY <2>3
    <3> DEFINE fresh == Overridden(learning, value)
               before == LearningValue(learning, now)
    <3>2. value \in TrustValues /\ "human_override" \in TrustEvents
      BY EventScorersAssumption DEF TrustEvents
    <3>3. before \in Int BY <2>1, ValuesAreInts
    <3>4. learning' = Journaled(fresh, "human_override", before)
      BY <3>1 DEF SetValueOfBoth
    <3> HIDE DEF before
    <3>5. fresh \in Learners /\ fresh.weights = learning.weights
      BY <2>1, <3>2, LearnerForgets
    <3> HIDE DEF fresh
    <3>6. learning'.weights = fresh.weights BY <2>1, <3>2, <3>3, <3>4, <3>5, JournalGrows
    <3> QED BY <3>5, <3>6
  <2>4. CASE \E change \in HandWeights : AdjustWeights(change)
    <3>1. PICK change \in HandWeights : AdjustWeights(change) BY <2>4
    <3> DEFINE weights == [learning.weights EXCEPT ![change.type] = change.weight]
    <3>2. learning' = [learning EXCEPT !.weights = weights] /\ now' = now /\ start' = start
      BY <3>1 DEF AdjustWeights
    <3> HIDE DEF weights
    <3>3. /\ learning'.initial = learning.initial /\ learning'.seen = learning.seen
          /\ learning'.events = learning.events
      BY <2>1, <3>2 DEF Learners
    <3>4. LearningValue(learning', now) = LearningValue(learning, now)
      BY <3>3, WeightsDoNotShow
    <3> QED BY <3>2, <3>4
  <2>5. CASE LearnFromHistory
    <3>1. /\ learning'.initial = learning.initial /\ learning'.seen = learning.seen
          /\ learning'.events = learning.events
      BY <2>1, <2>5 DEF LearnFromHistory, Learners
    <3>2. LearningValue(learning', now) = LearningValue(learning, now)
      BY <3>1, WeightsDoNotShow
    <3>3. now' = now BY <2>5 DEF LearnFromHistory
    <3> QED BY <3>2, <3>3
  <2>6. CASE Tick
    <3>1. learning' = learning BY <2>6 DEF Tick
    <3> QED BY <3>1
  <2>7. CASE UNCHANGED scorerVars BY <2>7
  <2> QED BY <1>1, <2>2, <2>3, <2>4, <2>5, <2>6, <2>7 DEF ScorersNext
<1> QED BY <1>1, ScorersInvariant, PTL DEF ScorersSpec, WeightsActForward
=============================================================================
