---------------------------- MODULE AuditEnricher ----------------------------
(***************************************************************************)
(* InProcessAuditEnricher (presidium/audit.py): an event about a           *)
(* registered agent goes to the sink with what the registry says of the    *)
(* agent, cached for a while; anything that fails forwards it as it came.  *)
(***************************************************************************)
EXTENDS AgentRecords

CONSTANTS
    Emits,          \* the calls of emit()
    TTL,            \* cache_ttl
    MaxSinkFailures \* bound on the sink's calls that fail

ASSUME AuditEnricherAssumption == TTL \in Nat \ {0}

VARIABLES
    cache,         \* name -> since, data; the entry expires at since + TTL
    emits,         \* the calls of emit()
    sinkFailures   \* history: the sink's calls that failed

enricherVars == <<cache, emits, sinkFailures>>

Nothing == 0       \* the data of an agent that is not registered
NoAgent == "none"  \* the agent of an event without one, or already enriched

\* An emit() call: `called` is the time it read at its start; `data` the stamp
\* of the content the event gets; `kept` the forms of the event the sink has
\* stored; `failed` whether the lookup or the sink's first call raised.
Idle == [at |-> "idle", agent |-> NoAgent, called |-> 0, data |-> Nothing,
         kept |-> <<>>, failed |-> FALSE]

Ended(at, kept, failed) ==
    [at |-> at, agent |-> NoAgent, called |-> 0, data |-> Nothing,
     kept |-> kept, failed |-> failed]

EnricherInit ==
    /\ cache = <<>>
    /\ emits = [e \in Emits |-> Idle]
    /\ sinkFailures = 0

Cached(n) == n \in DOMAIN cache /\ now < cache[n].since + TTL

\* emit() up to its first await.
Emit(e, n) ==
    /\ emits[e].at = "idle"
    /\ emits' = [emits EXCEPT
         ![e].agent = n, ![e].called = now,
         ![e].at = IF n = NoAgent THEN "forwarding"
                   ELSE IF Cached(n) THEN "enriching" ELSE "looking",
         ![e].data = IF n # NoAgent /\ Cached(n) THEN cache[n].data ELSE Nothing]
    /\ UNCHANGED <<cache, sinkFailures>>

\* The registry's answer, before emit() goes on with it.
LookUp(e) ==
    /\ emits[e].at = "looking"
    /\ LET n == emits[e].agent IN
       emits' = [emits EXCEPT
         ![e].at = "read",
         ![e].data = IF n \in Registered THEN records[n].stamp ELSE Nothing]
    /\ UNCHANGED <<cache, sinkFailures>>

LookUpFails(e) ==
    /\ emits[e].at = "looking" /\ sinkFailures < MaxSinkFailures
    /\ emits' = [emits EXCEPT ![e].at = "forwarding", ![e].failed = TRUE]
    /\ sinkFailures' = sinkFailures + 1
    /\ UNCHANGED cache

Entry(since, data) == [since |-> since, data |-> data]

With(n, entry) == [m \in DOMAIN cache \cup {n} |-> IF m = n THEN entry ELSE cache[m]]

\* Faulty variant: the entry's time is the answer's, not the call's.
ResumeAfresh(e) ==
    /\ emits[e].at = "read"
    /\ IF emits[e].data = Nothing
       THEN emits' = [emits EXCEPT ![e].at = "forwarding"] /\ UNCHANGED cache
       ELSE /\ emits' = [emits EXCEPT ![e].at = "enriching"]
            /\ cache' = With(emits[e].agent, Entry(now, emits[e].data))
    /\ UNCHANGED sinkFailures

\* Faulty variant: an event of an agent that is not registered is dropped.
ResumeDropping(e) ==
    /\ emits[e].at = "read"
    /\ IF emits[e].data = Nothing
       THEN emits' = [emits EXCEPT ![e] = Ended("returned", @.kept, @.failed)] /\ UNCHANGED cache
       ELSE /\ emits' = [emits EXCEPT ![e].at = "enriching"]
            /\ cache' = With(emits[e].agent, Entry(emits[e].called, emits[e].data))
    /\ UNCHANGED sinkFailures

\* emit() goes on with the answer; that there is no agent is not cached.
Resume(e) ==
    /\ emits[e].at = "read"
    /\ IF emits[e].data = Nothing
       THEN emits' = [emits EXCEPT ![e].at = "forwarding"] /\ UNCHANGED cache
       ELSE /\ emits' = [emits EXCEPT ![e].at = "enriching"]
            /\ cache' = With(emits[e].agent, Entry(emits[e].called, emits[e].data))
    /\ UNCHANGED sinkFailures

\* The form of the event that emit() has handed to the sink.
Form(e) == IF emits[e].at = "enriching" THEN <<"enriched">> ELSE <<"original">>

AtSink(e) == emits[e].at \in {"enriching", "forwarding"}

SinkStores(e) ==
    /\ AtSink(e)
    /\ emits' = [emits EXCEPT ![e] = Ended("returned", @.kept \o Form(e), @.failed)]
    /\ UNCHANGED <<cache, sinkFailures>>

\* The sink raises, having stored the event or not: the original follows an
\* enriched event; otherwise emit() raises.
SinkRaises(e) ==
    /\ AtSink(e) /\ sinkFailures < MaxSinkFailures
    /\ \E stored \in {<<>>, Form(e)} :
         LET kept == emits[e].kept \o stored IN
         emits' = [emits EXCEPT ![e] =
           IF @.at = "enriching"
           THEN [@ EXCEPT !.at = "forwarding", !.kept = kept, !.failed = TRUE]
           ELSE Ended("raised", kept, TRUE)]
    /\ sinkFailures' = sinkFailures + 1
    /\ UNCHANGED cache

EnricherNext ==
    \E e \in Emits :
        \/ \E n \in Names \cup {NoAgent} : Emit(e, n)
        \/ LookUp(e) \/ LookUpFails(e) \/ Resume(e)
        \/ SinkStores(e) \/ SinkRaises(e)

(***************************************************************************)
(* Properties                                                              *)
(***************************************************************************)
\* What an event says of its agent was true less than the TTL before emit()
\* was called, however long the lookups that filled the cache took and
\* whichever of them ended last (_get_governance_data(): `now` is read before
\* the await).
TrustInEventsIsRecent ==
    \A e \in Emits :
        emits[e].at = "enriching" => ended[emits[e].data] + TTL > emits[e].called

\* emit() returns only once the sink has the event, and has it twice only if
\* it raised after storing it.  It has no governance data only if the event
\* names no registered agent or something failed (emit(): fail-open).
EventsAreKept ==
    \A e \in Emits :
        /\ emits[e].at = "returned" =>
             \/ emits[e].kept \in {<<"enriched">>, <<"original">>}
             \/ emits[e].kept = <<"enriched", "original">> /\ emits[e].failed
        /\ emits[e].at = "forwarding" => emits[e].failed \/ emits[e].data = Nothing
=============================================================================
