------------------------- MODULE RuntimeLifeProofs -------------------------
(***************************************************************************)
(* What the audit enricher, start() and the SPIFFE binding promise, for    *)
(* every value of the constants: any number of agents, calls, changes,     *)
(* failures and crashes, and any time.                                     *)
(***************************************************************************)
EXTENDS RuntimeLife, SequenceTheorems, TLAPS

IsRecord(r) ==
    r = [key |-> r.key, algorithm |-> r.algorithm, content |-> r.content, trust |-> r.trust,
         stamp |-> r.stamp]

\* Each registered agent has a content of its own, which nothing has replaced.
RecordsHold(recs, ends) ==
    /\ \A n \in DOMAIN recs :
          /\ IsRecord(recs[n])
          /\ recs[n].stamp \in DOMAIN ends
          /\ ends[recs[n].stamp] = Current
    /\ \A m, n \in DOMAIN recs : recs[m].stamp = recs[n].stamp => m = n

\* What is cached was not replaced before the time of its entry.
EntryHolds(entry, ends, time) ==
    /\ entry = [since |-> entry.since, data |-> entry.data]
    /\ entry.since \in Nat /\ entry.since <= time
    /\ entry.data \in Nat \ {Nothing} /\ entry.data \in DOMAIN ends
    /\ ends[entry.data] >= entry.since

CacheHolds(entries, ends, time) ==
    \A n \in DOMAIN entries : EntryHolds(entries[n], ends, time)

\* A call of emit(): what it read was not replaced before the call, what it
\* took from the cache not a TTL before.
DataHolds(m, ends, time) ==
    /\ m.called \in Nat /\ m.called <= time
    /\ m.data \in Nat
    /\ m.at = "read" /\ m.data # Nothing =>
          m.data \in DOMAIN ends /\ ends[m.data] >= m.called
    /\ m.at = "enriching" =>
          m.data \in DOMAIN ends /\ ends[m.data] + TTL > m.called

\* ... and what the sink has of its event.
KeptHolds(m) ==
    /\ m.at \in {"idle", "looking", "read", "enriching"} => m.kept = <<>>
    /\ m.at = "forwarding" =>
          /\ m.kept = <<>> \/ (m.kept = <<"enriched">> /\ m.failed)
          /\ m.failed \/ m.data = Nothing
    /\ m.at = "returned" =>
          \/ m.kept \in {<<"enriched">>, <<"original">>}
          \/ m.kept = <<"enriched", "original">> /\ m.failed

IsEmit(m) ==
    m = [at |-> m.at, agent |-> m.agent, called |-> m.called, data |-> m.data,
         kept |-> m.kept, failed |-> m.failed]

EmitHolds(m, ends, time) == IsEmit(m) /\ DataHolds(m, ends, time) /\ KeptHolds(m)

EmitsHold(calls, ends, time) ==
    /\ DOMAIN calls = Emits /\ calls = [e \in Emits |-> calls[e]]
    /\ \A e \in Emits : EmitHolds(calls[e], ends, time)

ClockHolds(ends, time) == time \in 0 .. MaxTime /\ ends \in Seq(Nat)

IInv ==
    /\ ClockHolds(ended, now)
    /\ RecordsHold(records, ended)
    /\ CacheHolds(cache, ended, now)
    /\ EmitsHold(emits, ended, now)

-----------------------------------------------------------------------------
(* Steps that give no promise anything to say about.                       *)

\* later continues ends: contents were added, and some were replaced just now.
Continues(later, ends, time) ==
    /\ later \in Seq(Nat) /\ Len(ends) <= Len(later)
    /\ \A i \in DOMAIN ends : later[i] = ends[i] \/ later[i] = time

\* What a cache entry or a call says stays as true as it was.
LEMMA ContinuesKeeps ==
    ASSUME NEW ends \in Seq(Nat), NEW later \in Seq(Nat), NEW time \in Nat,
           Continues(later, ends, time)
    PROVE  /\ \A entry : EntryHolds(entry, ends, time) => EntryHolds(entry, later, time)
           /\ \A m : EmitHolds(m, ends, time) => EmitHolds(m, later, time)
<1>1. \A i \in DOMAIN ends : /\ i \in DOMAIN later /\ ends[i] \in Nat
                             /\ later[i] = ends[i] \/ later[i] = time
  BY DEF Continues
<1>2. ASSUME NEW entry, EntryHolds(entry, ends, time)
      PROVE  EntryHolds(entry, later, time)
  BY <1>1, <1>2 DEF EntryHolds
<1>3. ASSUME NEW m, EmitHolds(m, ends, time)
      PROVE  EmitHolds(m, later, time)
  <2>1. DataHolds(m, ends, time) BY <1>3 DEF EmitHolds
  <2>2. m.called \in Nat /\ m.called <= time /\ m.data \in Nat
    BY <2>1 DEF DataHolds
  <2>3. m.at = "read" /\ m.data # Nothing => m.data \in DOMAIN later /\ later[m.data] >= m.called
    BY <1>1, <2>1, <2>2 DEF DataHolds
  <2>4. m.at = "enriching" => m.data \in DOMAIN later /\ later[m.data] + TTL > m.called
    <3>1. m.at = "enriching" =>
             m.data \in DOMAIN ends /\ ends[m.data] + TTL > m.called
      BY <2>1 DEF DataHolds
    <3>2. TTL \in Nat /\ time + TTL > m.called
      BY <2>2, AuditEnricherAssumption
    <3> QED BY <1>1, <3>1, <3>2
  <2>5. DataHolds(m, later, time) BY <2>2, <2>3, <2>4 DEF DataHolds
  <2> QED BY <1>3, <2>5 DEF EmitHolds
<1> QED BY <1>2, <1>3

LEMMA EndedByContinues ==
    ASSUME IInv, NEW n
    PROVE  /\ EndedBy(n) \in Seq(Nat) /\ Len(EndedBy(n)) = Len(ended)
           /\ \A i \in DOMAIN ended :
                 /\ EndedBy(n)[i] = ended[i] \/ EndedBy(n)[i] = now
                 /\ (n \in Registered => i # records[n].stamp) => EndedBy(n)[i] = ended[i]
<1>1. ended \in Seq(Nat) /\ now \in Nat /\ (n \in Registered => records[n].stamp \in DOMAIN ended)
  BY AgentRecordsAssumption DEF IInv, ClockHolds, RecordsHold, Registered
<1> QED BY <1>1 DEF EndedBy

\* A write or a removal of a record disturbs neither cache nor calls.
LEMMA RecordStepKeepsRest ==
    ASSUME IInv, Continues(ended', ended, now), ended' \in Seq(Nat), now' = now,
           UNCHANGED enricherVars
    PROVE  ClockHolds(ended', now') /\ CacheHolds(cache', ended', now')
           /\ EmitsHold(emits', ended', now')
<1>1. ended \in Seq(Nat) /\ now \in Nat
  BY AgentRecordsAssumption DEF IInv, ClockHolds
<1>2. cache' = cache /\ emits' = emits BY DEF enricherVars
<1>3. CacheHolds(cache, ended', now)
  BY <1>1, ContinuesKeeps DEF IInv, CacheHolds
<1>4. EmitsHold(emits, ended', now)
  BY <1>1, ContinuesKeeps DEF IInv, EmitsHold
<1> QED BY <1>1, <1>2, <1>3, <1>4 DEF IInv, ClockHolds

LEMMA WriteKeeps ==
    ASSUME IInv, NEW n, NEW key, NEW algorithm, NEW content, NEW trust,
           Write(n, Record(key, algorithm, content, trust)), now' = now,
           UNCHANGED enricherVars
    PROVE  IInv'
<1> DEFINE r == Record(key, algorithm, content, trust)
<1>1. ended \in Seq(Nat) /\ now \in Nat /\ Current \in Nat
  BY AgentRecordsAssumption DEF IInv, ClockHolds, Current
<1>2. /\ ended' = Append(EndedBy(n), Current)
      /\ records' = [m \in Registered \cup {n} |-> IF m = n THEN r ELSE records[m]]
  BY DEF Write
<1>3. /\ ended' \in Seq(Nat) /\ Len(ended') = Len(ended) + 1
      /\ \A i \in DOMAIN ended :
            /\ ended'[i] = ended[i] \/ ended'[i] = now
            /\ (n \in Registered => i # records[n].stamp) => ended'[i] = ended[i]
      /\ ended'[Len(ended) + 1] = Current
  BY <1>1, <1>2, EndedByContinues
<1>4. Continues(ended', ended, now) BY <1>1, <1>3 DEF Continues
<1>5. RecordsHold(records', ended')
  <2>1. IsRecord(r) /\ r.stamp = Len(ended) + 1 BY DEF IsRecord, Record
  <2>2. ASSUME NEW m \in Registered, m # n
        PROVE  /\ IsRecord(records[m]) /\ records[m].stamp \in DOMAIN ended
               /\ ended'[records[m].stamp] = Current
    BY <1>3, <2>2 DEF IInv, RecordsHold, Registered
  <2>3. \A m \in DOMAIN records' : IsRecord(records'[m]) /\ records'[m].stamp \in DOMAIN ended'
                                   /\ ended'[records'[m].stamp] = Current
    BY <1>1, <1>2, <1>3, <2>1, <2>2
  <2>4. \A l, m \in DOMAIN records' : records'[l].stamp = records'[m].stamp => l = m
    BY <1>1, <1>2, <2>1, <2>2 DEF IInv, RecordsHold, Registered
  <2> QED BY <2>3, <2>4 DEF RecordsHold, Current
<1> QED BY <1>3, <1>4, <1>5, RecordStepKeepsRest DEF IInv

LEMMA UnregisterKeeps ==
    ASSUME IInv, NEW n, Unregister(n), now' = now, UNCHANGED enricherVars
    PROVE  IInv'
<1>1. ended \in Seq(Nat) /\ now \in Nat
  BY AgentRecordsAssumption DEF IInv, ClockHolds
<1>2. ended' = EndedBy(n) /\ records' = [m \in Registered \ {n} |-> records[m]]
  BY DEF Unregister
<1>3. Continues(ended', ended, now) /\ ended' \in Seq(Nat)
  BY <1>1, <1>2, EndedByContinues DEF Continues
<1>4. RecordsHold(records', ended')
  <2>1. ASSUME NEW m \in Registered \ {n}
        PROVE  /\ IsRecord(records[m]) /\ records[m].stamp \in DOMAIN ended'
               /\ ended'[records[m].stamp] = Current
    <3>1. n \in Registered => records[m].stamp # records[n].stamp
      BY DEF IInv, RecordsHold, Registered
    <3>2. /\ IsRecord(records[m]) /\ records[m].stamp \in DOMAIN ended
          /\ ended[records[m].stamp] = Current
      BY DEF IInv, RecordsHold, Registered
    <3> QED BY <1>1, <1>2, <3>1, <3>2, EndedByContinues
  <2> QED BY <1>2, <2>1 DEF IInv, RecordsHold, Registered, Current
<1> QED BY <1>3, <1>4, RecordStepKeepsRest DEF IInv

-----------------------------------------------------------------------------
(* The steps of the enricher.                                              *)

\* A call of emit() goes on; the cache gets what holds, or stays.
LEMMA EmitGoesOn ==
    ASSUME IInv, NEW e \in Emits, NEW m, EmitHolds(m, ended, now),
           emits' = [f \in Emits |-> IF f = e THEN m ELSE emits[f]],
           UNCHANGED recordVars, CacheHolds(cache', ended, now)
    PROVE  IInv'
<1>1. records' = records /\ ended' = ended /\ now' = now BY DEF recordVars
<1>2. EmitsHold(emits', ended, now) BY DEF IInv, EmitsHold
<1> QED BY <1>1, <1>2 DEF IInv, ClockHolds, RecordsHold, Current

LEMMA Pair ==
    ASSUME NEW x, NEW y
    PROVE  <<x>> \o <<y>> = <<x, y>>
<1> DEFINE S == {x, y}
<1>1. /\ <<x>> \in Seq(S) /\ <<y>> \in Seq(S) /\ <<x, y>> \in Seq(S)
      /\ Len(<<x>>) = 1 /\ Len(<<y>>) = 1 /\ Len(<<x, y>>) = 2
  OBVIOUS
<1> HIDE DEF S
<1>2. <<x>> \o <<y>> \in Seq(S) /\ Len(<<x>> \o <<y>>) = 2
  BY <1>1, ConcatProperties
<1>3. \A i \in 1 .. 2 : (<<x>> \o <<y>>)[i] = <<x, y>>[i]
  BY <1>1, ConcatProperties
<1> QED BY <1>1, <1>2, <1>3, SeqEqual

LEMMA Appended ==
    /\ <<>> \o <<"enriched">> = <<"enriched">>
    /\ <<>> \o <<"original">> = <<"original">>
    /\ <<"enriched">> \o <<"original">> = <<"enriched", "original">>
    /\ <<>> \o <<>> = <<>>
    /\ <<"enriched">> \o <<>> = <<"enriched">>
<1> DEFINE one == <<"enriched">>
           two == <<"original">>
<1>1. one \in Seq({"enriched", "original"}) /\ two \in Seq({"enriched", "original"})
      /\ <<>> \in Seq({"enriched", "original"})
  OBVIOUS
<1> HIDE DEF one, two
<1>2. <<>> \o one = one /\ one \o <<>> = one /\ <<>> \o two = two /\ <<>> \o <<>> = <<>>
  BY <1>1, ConcatEmptySeq
<1> QED BY <1>2, Pair DEF one, two

\* A call of emit() with one field changed.
LEMMA OneField ==
    ASSUME NEW r, IsEmit(r), NEW x
    PROVE  /\ [r EXCEPT !.at = x] =
                 [at |-> x, agent |-> r.agent, called |-> r.called, data |-> r.data,
                  kept |-> r.kept, failed |-> r.failed]
           /\ [r EXCEPT !.agent = x] =
                 [at |-> r.at, agent |-> x, called |-> r.called, data |-> r.data,
                  kept |-> r.kept, failed |-> r.failed]
           /\ [r EXCEPT !.called = x] =
                 [at |-> r.at, agent |-> r.agent, called |-> x, data |-> r.data,
                  kept |-> r.kept, failed |-> r.failed]
           /\ [r EXCEPT !.data = x] =
                 [at |-> r.at, agent |-> r.agent, called |-> r.called, data |-> x,
                  kept |-> r.kept, failed |-> r.failed]
           /\ [r EXCEPT !.kept = x] =
                 [at |-> r.at, agent |-> r.agent, called |-> r.called, data |-> r.data,
                  kept |-> x, failed |-> r.failed]
           /\ [r EXCEPT !.failed = x] =
                 [at |-> r.at, agent |-> r.agent, called |-> r.called, data |-> r.data,
                  kept |-> r.kept, failed |-> x]
<1>1. PICK at, agent, called, data, kept, failed :
         r = [at |-> at, agent |-> agent, called |-> called, data |-> data,
              kept |-> kept, failed |-> failed]
  BY DEF IsEmit
<1> QED BY <1>1

LEMMA EmitTypes ==
    ASSUME IInv, NEW e \in Emits
    PROVE  /\ emits = [f \in Emits |-> emits[f]]
           /\ EmitHolds(emits[e], ended, now)
           /\ now \in Nat /\ ended \in Seq(Nat)
BY AgentRecordsAssumption DEF IInv, EmitsHold, ClockHolds

LEMMA EmitKeeps ==
    ASSUME IInv, NEW e \in Emits, NEW n, Emit(e, n), UNCHANGED recordVars
    PROVE  IInv'
<1> DEFINE m == [at |-> IF n = NoAgent THEN "forwarding"
                        ELSE IF Cached(n) THEN "enriching" ELSE "looking",
                 agent |-> n, called |-> now,
                 data |-> IF n # NoAgent /\ Cached(n) THEN cache[n].data ELSE Nothing,
                 kept |-> emits[e].kept, failed |-> emits[e].failed]
<1>1. emits' = [f \in Emits |-> IF f = e THEN m ELSE emits[f]]
  <2> DEFINE r == emits[e]
  <2>1. /\ DOMAIN emits' = Emits /\ emits' = [f \in Emits |-> emits'[f]]
        /\ \A f \in Emits : f # e => emits'[f] = emits[f]
        /\ emits'[e] = [[[[r EXCEPT !.agent = n] EXCEPT !.called = now]
                           EXCEPT !.at = m.at] EXCEPT !.data = m.data]
    BY EmitTypes DEF Emit
  <2>2. emits'[e] = m
    BY <2>1, EmitTypes, OneField, ZenonT(60) DEF EmitHolds, IsEmit
  <2> QED BY <2>1, <2>2
<1>2. KeptHolds(m) BY EmitTypes DEF Emit, KeptHolds, EmitHolds, Nothing
<1>3. DataHolds(m, ended, now)
  <2>1. CASE n # NoAgent /\ Cached(n)
    <3>1. EntryHolds(cache[n], ended, now) /\ now < cache[n].since + TTL
      BY <2>1 DEF IInv, CacheHolds, Cached
    <3> QED BY <2>1, <3>1, EmitTypes, AuditEnricherAssumption DEF DataHolds, EntryHolds
  <2>2. CASE ~(n # NoAgent /\ Cached(n))
    BY <2>2, EmitTypes DEF DataHolds, Nothing
  <2> QED BY <2>1, <2>2
<1>4. CacheHolds(cache', ended, now) BY DEF IInv, Emit
<1> HIDE DEF m
<1>5. IsEmit(m) BY DEF m, IsEmit
<1> QED BY <1>1, <1>2, <1>3, <1>4, <1>5, EmitGoesOn DEF EmitHolds

LEMMA LookUpKeeps ==
    ASSUME IInv, NEW e \in Emits, LookUp(e) \/ LookUpFails(e), UNCHANGED recordVars
    PROVE  IInv'
<1>1. CacheHolds(cache', ended, now) BY DEF IInv, LookUp, LookUpFails
<1>2. CASE LookUp(e)
  <2> DEFINE n == emits[e].agent
             m == [at |-> "read", agent |-> n, called |-> emits[e].called,
                   data |-> IF n \in Registered THEN records[n].stamp ELSE Nothing,
                   kept |-> emits[e].kept, failed |-> emits[e].failed]
  <2>1. emits' = [f \in Emits |-> IF f = e THEN m ELSE emits[f]]
    <3> DEFINE r == emits[e]
    <3>1. /\ DOMAIN emits' = Emits /\ emits' = [f \in Emits |-> emits'[f]]
          /\ \A f \in Emits : f # e => emits'[f] = emits[f]
          /\ emits'[e] = [[r EXCEPT !.at = "read"] EXCEPT !.data = m.data]
      BY <1>2, EmitTypes DEF LookUp
    <3>2. emits'[e] = m
      BY <3>1, EmitTypes, OneField DEF EmitHolds, IsEmit
    <3> QED BY <3>1, <3>2
  <2>2. KeptHolds(m) BY <1>2, EmitTypes DEF LookUp, KeptHolds, EmitHolds
  <2>3. DataHolds(m, ended, now)
    <3>1. n \in Registered =>
             records[n].stamp \in DOMAIN ended /\ ended[records[n].stamp] = Current
      BY DEF IInv, RecordsHold, Registered
    <3>2. now <= Current /\ Current \in Nat
      BY AgentRecordsAssumption DEF IInv, ClockHolds, Current
    <3> QED BY <3>1, <3>2, EmitTypes DEF DataHolds, EmitHolds, Nothing
  <2>4. IsEmit(m) BY DEF IsEmit
  <2> QED BY <1>1, <2>1, <2>2, <2>3, <2>4, EmitGoesOn DEF EmitHolds
<1>3. CASE LookUpFails(e)
  <2> DEFINE m == [at |-> "forwarding", agent |-> emits[e].agent, called |-> emits[e].called,
                   data |-> emits[e].data, kept |-> emits[e].kept, failed |-> TRUE]
  <2>1. emits' = [f \in Emits |-> IF f = e THEN m ELSE emits[f]]
    <3> DEFINE r == emits[e]
    <3>1. /\ DOMAIN emits' = Emits /\ emits' = [f \in Emits |-> emits'[f]]
          /\ \A f \in Emits : f # e => emits'[f] = emits[f]
          /\ emits'[e] = [[r EXCEPT !.at = "forwarding"] EXCEPT !.failed = TRUE]
      BY <1>3, EmitTypes DEF LookUpFails
    <3>2. emits'[e] = m
      BY <3>1, EmitTypes, OneField DEF EmitHolds, IsEmit
    <3> QED BY <3>1, <3>2
  <2>2. EmitHolds(m, ended, now)
    BY <1>3, EmitTypes DEF LookUpFails, EmitHolds, IsEmit, DataHolds, KeptHolds
  <2> QED BY <1>1, <2>1, <2>2, EmitGoesOn
<1> QED BY <1>2, <1>3

LEMMA ResumeKeeps ==
    ASSUME IInv, NEW e \in Emits, Resume(e), UNCHANGED recordVars
    PROVE  IInv'
<1> DEFINE m(at) == [at |-> at, agent |-> emits[e].agent, called |-> emits[e].called,
                     data |-> emits[e].data, kept |-> emits[e].kept,
                     failed |-> emits[e].failed]
<1>1. DataHolds(emits[e], ended, now) /\ emits[e].at = "read" /\ KeptHolds(emits[e])
      /\ IsEmit(emits[e])
  BY EmitTypes DEF Resume, EmitHolds
<1>2. CASE emits[e].data = Nothing
  <2>1. emits' = [f \in Emits |-> IF f = e THEN m("forwarding") ELSE emits[f]]
    BY <1>1, <1>2, EmitTypes DEF Resume, IsEmit
  <2>2. EmitHolds(m("forwarding"), ended, now)
    BY <1>1, <1>2 DEF EmitHolds, IsEmit, DataHolds, KeptHolds
  <2>3. CacheHolds(cache', ended, now) BY <1>2 DEF IInv, Resume
  <2> QED BY <2>1, <2>2, <2>3, EmitGoesOn
<1>3. CASE emits[e].data # Nothing
  <2>1. emits' = [f \in Emits |-> IF f = e THEN m("enriching") ELSE emits[f]]
    BY <1>1, <1>3, EmitTypes DEF Resume, IsEmit
  <2>2. emits[e].data \in DOMAIN ended /\ ended[emits[e].data] >= emits[e].called
        /\ ended[emits[e].data] \in Nat
    BY <1>1, <1>3, EmitTypes DEF DataHolds
  <2>3. EmitHolds(m("enriching"), ended, now)
    BY <1>1, <1>3, <2>2, AuditEnricherAssumption DEF EmitHolds, IsEmit, DataHolds, KeptHolds
  <2>4. EntryHolds(Entry(emits[e].called, emits[e].data), ended, now)
    BY <1>1, <1>3, <2>2 DEF EntryHolds, Entry, DataHolds
  <2>5. CacheHolds(cache', ended, now)
    BY <1>3, <2>4 DEF IInv, Resume, With, CacheHolds
  <2> QED BY <2>1, <2>3, <2>5, EmitGoesOn
<1> QED BY <1>2, <1>3

LEMMA EndedHolds ==
    ASSUME NEW kept, NEW failed, NEW ends, NEW time \in Nat
    PROVE  EmitHolds(Ended("raised", kept, failed), ends, time)
BY DEF Ended, EmitHolds, IsEmit, DataHolds, KeptHolds, Nothing

LEMMA SinkKeeps ==
    ASSUME IInv, NEW e \in Emits, SinkStores(e) \/ SinkRaises(e), UNCHANGED recordVars
    PROVE  IInv'
<1> DEFINE r == emits[e]
<1>1. CacheHolds(cache', ended, now) BY DEF IInv, SinkStores, SinkRaises
<1>2. IsEmit(r) /\ DataHolds(r, ended, now) /\ KeptHolds(r) /\ AtSink(e)
  BY EmitTypes DEF EmitHolds, SinkStores, SinkRaises
<1>3. CASE SinkStores(e)
  <2> DEFINE m == Ended("returned", r.kept \o Form(e), r.failed)
  <2>1. emits' = [f \in Emits |-> IF f = e THEN m ELSE emits[f]]
    BY <1>3, EmitTypes DEF SinkStores
  <2>2. EmitHolds(m, ended, now)
    <3>1. IsEmit(m) /\ DataHolds(m, ended, now)
      BY EmitTypes DEF Ended, IsEmit, DataHolds, Nothing
    <3>2. \/ m.kept \in {<<"enriched">>, <<"original">>}
          \/ m.kept = <<"enriched", "original">> /\ m.failed
      BY <1>2, Appended DEF Ended, Form, AtSink, KeptHolds
    <3>3. m.at = "returned" BY DEF Ended
    <3> QED BY <3>1, <3>2, <3>3 DEF EmitHolds, KeptHolds
  <2> QED BY <1>1, <2>1, <2>2, EmitGoesOn
<1>4. CASE SinkRaises(e) /\ r.at = "enriching"
  <2>1. PICK stored \in {<<>>, Form(e)} :
           emits' = [emits EXCEPT ![e] =
             IF r.at = "enriching"
             THEN [r EXCEPT !.at = "forwarding", !.kept = r.kept \o stored, !.failed = TRUE]
             ELSE Ended("raised", r.kept \o stored, TRUE)]
    BY <1>4, Zenon DEF SinkRaises
  <2> DEFINE first == [at |-> "forwarding", agent |-> r.agent, called |-> r.called,
                       data |-> r.data, kept |-> r.kept, failed |-> r.failed]
             then == [at |-> "forwarding", agent |-> r.agent, called |-> r.called,
                      data |-> r.data, kept |-> r.kept \o stored, failed |-> r.failed]
             m == [at |-> "forwarding", agent |-> r.agent, called |-> r.called,
                   data |-> r.data, kept |-> r.kept \o stored, failed |-> TRUE]
  <2>2. emits' = [f \in Emits |-> IF f = e THEN m ELSE emits[f]]
    <3>1. [r EXCEPT !.at = "forwarding"] = first BY <1>2, OneField
    <3> DEFINE more == r.kept \o stored
    <3>2. [first EXCEPT !.kept = more] = then
      <4>1. /\ IsEmit(first) /\ first.at = "forwarding" /\ first.agent = r.agent
            /\ first.called = r.called /\ first.data = r.data /\ first.failed = r.failed
        BY DEF IsEmit
      <4> HIDE DEF first, more
      <4>2. [first EXCEPT !.kept = more] =
              [at |-> first.at, agent |-> first.agent, called |-> first.called,
               data |-> first.data, kept |-> more, failed |-> first.failed]
        BY <4>1, OneField
      <4> QED BY <4>1, <4>2 DEF more
    <3>3. [then EXCEPT !.failed = TRUE] = m
      <4>1. /\ IsEmit(then) /\ then.at = "forwarding" /\ then.agent = r.agent
            /\ then.called = r.called /\ then.data = r.data /\ then.kept = more
        BY DEF IsEmit
      <4> HIDE DEF then, more
      <4>2. [then EXCEPT !.failed = TRUE] =
              [at |-> then.at, agent |-> then.agent, called |-> then.called,
               data |-> then.data, kept |-> then.kept, failed |-> TRUE]
        BY <4>1, OneField
      <4> QED BY <4>1, <4>2 DEF more
    <3>4. [r EXCEPT !.at = "forwarding", !.kept = r.kept \o stored, !.failed = TRUE]
           = [[[r EXCEPT !.at = "forwarding"] EXCEPT !.kept = r.kept \o stored]
                EXCEPT !.failed = TRUE]
      BY Zenon
    <3> HIDE DEF first, then, m
    <3>5. [r EXCEPT !.at = "forwarding", !.kept = r.kept \o stored, !.failed = TRUE] = m
      BY <3>1, <3>2, <3>3, <3>4
    <3> QED BY <1>4, <2>1, <3>5, EmitTypes
  <2>3. m.kept \in {<<>>, <<"enriched">>}
    BY <1>2, <1>4, <2>1, Appended DEF Form, KeptHolds
  <2>4. EmitHolds(m, ended, now)
    BY <1>2, <2>3 DEF EmitHolds, IsEmit, DataHolds, KeptHolds
  <2> QED BY <1>1, <2>2, <2>4, EmitGoesOn
<1>5. CASE SinkRaises(e) /\ r.at # "enriching"
  <2>1. PICK stored \in {<<>>, Form(e)} :
           emits' = [emits EXCEPT ![e] = Ended("raised", r.kept \o stored, TRUE)]
    BY <1>5 DEF SinkRaises
  <2> DEFINE m == Ended("raised", r.kept \o stored, TRUE)
  <2>2. emits' = [f \in Emits |-> IF f = e THEN m ELSE emits[f]]
    BY <2>1, EmitTypes
  <2>3. EmitHolds(m, ended, now) BY EmitTypes, EndedHolds
  <2> QED BY <1>1, <2>2, <2>3, EmitGoesOn
<1> QED BY <1>3, <1>4, <1>5

-----------------------------------------------------------------------------
(* The other steps, and the theorems.                                      *)

LEMMA InitIInv == Init => IInv
<1> SUFFICES ASSUME Init PROVE IInv OBVIOUS
<1>1. DOMAIN records = {} /\ DOMAIN cache = {} BY DEF Init, EnricherInit
<1>2. ClockHolds(ended, now) BY AgentRecordsAssumption DEF Init, ClockHolds
<1>3. EmitsHold(emits, ended, now)
  <2>1. emits = [e \in Emits |-> Idle] /\ now = 0 BY DEF Init, EnricherInit
  <2>2. EmitHolds(Idle, ended, now)
    BY <2>1 DEF Idle, EmitHolds, IsEmit, DataHolds, KeptHolds, Nothing
  <2> QED BY <2>1, <2>2 DEF EmitsHold
<1> QED BY <1>1, <1>2, <1>3 DEF IInv, RecordsHold, CacheHolds

\* A key is replaced: nothing promised is about keys.
LEMMA KeyKeeps ==
    ASSUME IInv, SyncReturns, now' = now, UNCHANGED enricherVars
    PROVE  IInv'
<1> DEFINE old == records[Bound]
<1>1. PICK key, algorithm, trust :
         records' = [records EXCEPT ![Bound].key = key, ![Bound].algorithm = algorithm,
                                    ![Bound].trust = trust]
  BY DEF SyncReturns
<1>2. Bound \in DOMAIN records /\ ended' = ended BY DEF SyncReturns, Registered
<1>3. PICK k, a, c, t, s :
         old = [key |-> k, algorithm |-> a, content |-> c, trust |-> t, stamp |-> s]
  BY <1>2 DEF IInv, RecordsHold, IsRecord
<1> DEFINE one == [key |-> key, algorithm |-> a, content |-> c, trust |-> t, stamp |-> s]
           two == [key |-> key, algorithm |-> algorithm, content |-> c, trust |-> t, stamp |-> s]
           new == [key |-> key, algorithm |-> algorithm, content |-> c, trust |-> trust,
                   stamp |-> s]
<1>4. /\ [old EXCEPT !.key = key] = one /\ [one EXCEPT !.algorithm = algorithm] = two
      /\ [two EXCEPT !.trust = trust] = new
  BY <1>3
<1>5. /\ DOMAIN records' = DOMAIN records
      /\ \A n \in DOMAIN records : n # Bound => records'[n] = records[n]
      /\ records'[Bound] = [[[old EXCEPT !.key = key] EXCEPT !.algorithm = algorithm]
                              EXCEPT !.trust = trust]
  BY <1>1, <1>2
<1>6. records'[Bound] = new BY <1>4, <1>5
<1>7. IsRecord(new) /\ new.stamp = old.stamp BY <1>3 DEF IsRecord
<1>8. RecordsHold(records', ended)
  <2>1. \A n \in DOMAIN records' : IsRecord(records'[n]) /\ records'[n].stamp = records[n].stamp
    <3> HIDE DEF new, old
    <3> QED BY <1>2, <1>5, <1>6, <1>7 DEF IInv, RecordsHold, old
  <2> QED BY <1>5, <2>1 DEF IInv, RecordsHold
<1>9. cache' = cache /\ emits' = emits BY DEF enricherVars
<1> QED BY <1>2, <1>8, <1>9 DEF IInv, ClockHolds, RecordsHold, Current

LEMMA TickKeeps == ASSUME IInv, Tick PROVE IInv'
<1>1. /\ now' = now + 1 /\ now \in Nat /\ now' \in 0 .. MaxTime /\ ended' = ended
      /\ records' = records /\ cache' = cache /\ emits' = emits
  BY AgentRecordsAssumption DEF Tick, IInv, ClockHolds, enricherVars
<1>2. CacheHolds(cache, ended, now')
  BY <1>1 DEF IInv, CacheHolds, EntryHolds
<1>3. EmitsHold(emits, ended, now')
  BY <1>1 DEF IInv, EmitsHold, EmitHolds, DataHolds
<1> QED BY <1>1, <1>2, <1>3 DEF IInv, ClockHolds, RecordsHold, Current

LEMMA CrashKeeps == ASSUME IInv, Crash PROVE IInv'
<1>1. now' = now /\ ended' = ended /\ DOMAIN cache' = {} BY DEF Crash
<1>2. RecordsHold(records', ended)
  <2>1. CASE records' = records BY <2>1 DEF IInv, RecordsHold, Current
  <2>2. CASE records' = <<>> BY <2>2 DEF RecordsHold
  <2> QED BY <2>1, <2>2 DEF Crash
<1>3. EmitsHold(emits', ended, now)
  <2> DEFINE lost == Ended("lost", <<>>, FALSE)
  <2>1. emits' = [e \in Emits |-> IF emits[e].at = "idle" THEN Idle ELSE lost]
    BY DEF Crash
  <2>2. now \in Nat BY AgentRecordsAssumption DEF IInv, ClockHolds
  <2>3. EmitHolds(Idle, ended, now) /\ EmitHolds(lost, ended, now)
    BY <2>2 DEF Idle, Ended, EmitHolds, IsEmit, DataHolds, KeptHolds, Nothing
  <2> HIDE DEF lost
  <2> QED BY <2>1, <2>3 DEF EmitsHold
<1> QED BY <1>1, <1>2, <1>3 DEF IInv, ClockHolds, CacheHolds, RecordsHold, Current

\* Steps of the binding and of the runtime that leave records and enricher alone.
LEMMA StutterKeeps ==
    ASSUME IInv, UNCHANGED <<records, ended, now, cache, emits>>
    PROVE  IInv'
BY DEF IInv, ClockHolds, RecordsHold, CacheHolds, EmitsHold, Current

LEMMA NextIInv == IInv /\ [Next]_vars => IInv'
<1> SUFFICES ASSUME IInv, [Next]_vars PROVE IInv' OBVIOUS
<1>1. CASE BindingStep
  <2>1. now' = now /\ UNCHANGED enricherVars BY <1>1 DEF BindingStep
  <2>2. CASE SyncReturns BY <2>1, <2>2, KeyKeeps
  <2>3. CASE UNCHANGED <<records, ended>>
    BY <2>1, <2>3, StutterKeeps DEF enricherVars
  <2> QED BY <1>1, <2>2, <2>3 DEF BindingStep, BindingNext
<1>2. CASE Crash BY <1>2, CrashKeeps
<1>3. CASE Tick BY <1>3, TickKeeps
<1>4. CASE Start \/ LoadKey \/ StartReturns \/ StartRaises \/ Stop
  BY <1>4, StutterKeeps DEF Start, LoadKey, StartReturns, StartRaises, Stop, recordVars, enricherVars
<1>5. CASE RegisterConfigured
  BY <1>5, WriteKeeps DEF RegisterConfigured, ConfiguredRecord
<1>6. CASE EnricherStep
  <2>1. UNCHANGED recordVars BY <1>6 DEF EnricherStep
  <2> QED BY <1>6, <2>1, EmitKeeps, LookUpKeeps, ResumeKeeps, SinkKeeps DEF EnricherStep, EnricherNext
<1>7. ASSUME NEW n \in Names, HttpRegister(n) PROVE IInv'
  BY <1>7, WriteKeeps DEF HttpRegister, RequestedRecord
<1>8. ASSUME NEW n \in Names, HttpDeregister(n) PROVE IInv'
  BY <1>8, UnregisterKeeps DEF HttpDeregister
<1>9. ASSUME NEW n \in Names, ChangeAgent(n) PROVE IInv'
  BY <1>9, WriteKeeps DEF ChangeAgent
<1>10. ASSUME NEW n \in Names, ReportTrust(n) PROVE IInv'
  BY <1>10, WriteKeeps DEF ReportTrust
<1>11. CASE UNCHANGED vars
  BY <1>11, StutterKeeps DEF vars, recordVars, enricherVars
<1> QED BY <1>1, <1>2, <1>3, <1>4, <1>5, <1>6, <1>7, <1>8, <1>9, <1>10, <1>11 DEF Next

\* Contents in use have not ended, cache entries were true at their time, and
\* every call of emit() has what it may have (IInv): in every reachable state.
THEOREM EnricherInvariant == Spec => []IInv
BY InitIInv, NextIInv, PTL DEF Spec

\* TrustInEventsIsRecent, for any TTL above zero, any number of calls, agents
\* and changes, and any time: _get_governance_data() dates an entry by the
\* time before its lookup.
THEOREM EventsSayWhatIsRecent == Spec => []TrustInEventsIsRecent
<1>1. IInv => TrustInEventsIsRecent
  BY DEF IInv, EmitsHold, EmitHolds, DataHolds, TrustInEventsIsRecent
<1> QED BY <1>1, EnricherInvariant, PTL

\* EventsAreKept, likewise: emit() loses no event, whatever fails.
THEOREM EmitKeepsEvents == Spec => []EventsAreKept
<1>1. IInv => EventsAreKept
  BY DEF IInv, EmitsHold, EmitHolds, KeptHolds, EventsAreKept
<1> QED BY <1>1, EnricherInvariant, PTL

-----------------------------------------------------------------------------
(* What start() returns with.                                              *)

AsConfigured(n) ==
    /\ n \in Registered
    /\ records[n].content = "configured"
    /\ records[n].key = Key("file", 1)
    /\ records[n].trust = "initial"
    /\ n \in moved => durable

\* The agents start() has gone past are as it registered them, unless others
\* changed them; the agent it is at has its key once that is loaded.
StartInv ==
    /\ keyFiles \in [Names -> {0, 1}]
    /\ next \in 1 .. Len(Configured) + 1
    /\ loaded \in BOOLEAN
    /\ loaded => next <= Len(Configured) /\ keyFiles[AtAgent] = 1
    /\ runtime # "starting" => next = 1 /\ ~loaded
    /\ \A i \in 1 .. next - 1 : Configured[i] \in touched \/ AsConfigured(Configured[i])

LEMMA InitStartInv == Init => StartInv
<1> SUFFICES ASSUME Init PROVE StartInv OBVIOUS
<1>1. keyFiles \in [Names -> {0, 1}] /\ next = 1 /\ loaded = FALSE BY DEF Init
<1>2. Len(Configured) \in Nat BY RuntimeLifeAssumption
<1>3. next \in 1 .. Len(Configured) + 1 /\ \A i \in 1 .. next - 1 : FALSE
  BY <1>1, <1>2
<1>4. \A i \in 1 .. next - 1 : Configured[i] \in touched \/ AsConfigured(Configured[i])
  BY <1>3
<1>5. loaded \in BOOLEAN /\ ~loaded BY <1>1
<1> QED BY <1>1, <1>3, <1>4, <1>5, Zenon DEF StartInv

\* A step of others: what it changes is touched.
LEMMA OthersKeepStart ==
    ASSUME StartInv, UNCHANGED startVars,
           runtime = "starting" =>
               /\ touched \subseteq touched'
               /\ \A n \in Registered :
                     \/ n \in touched'
                     \/ n \in Registered' /\ records'[n] = records[n] /\ (n \in moved' => n \in moved)
    PROVE  StartInv'
<1>1. UNCHANGED <<keyFiles, next, loaded, runtime, durable>> BY DEF startVars
<1>2. CASE runtime = "starting"
  <2>1. \A i \in 1 .. next - 1 : (Configured[i] \in touched \/ AsConfigured(Configured[i]))'
    BY <1>1, <1>2 DEF StartInv, AsConfigured
  <2> QED BY <1>1, <2>1 DEF StartInv, AtAgent
<1>3. CASE runtime # "starting"
  <2>1. next = 1 /\ \A i \in 1 .. next - 1 : FALSE BY <1>3 DEF StartInv
  <2> QED BY <1>1, <2>1 DEF StartInv, AtAgent
<1> QED BY <1>2, <1>3

\* start() begins, ends, or never was under way.
LEMMA StartOverHolds ==
    ASSUME StartInv, next' = 1, loaded' = FALSE, keyFiles' = keyFiles
    PROVE  StartInv'
<1>1. Len(Configured) \in Nat BY RuntimeLifeAssumption
<1>2. next' \in 1 .. Len(Configured) + 1 /\ \A i \in 1 .. next' - 1 : FALSE
  BY <1>1
<1>3. \A i \in 1 .. next' - 1 : (Configured[i] \in touched \/ AsConfigured(Configured[i]))'
  BY <1>2
<1>4. loaded' \in BOOLEAN /\ ~loaded' /\ keyFiles' \in [Names -> {0, 1}]
  BY DEF StartInv
<1> QED BY <1>2, <1>3, <1>4, Zenon DEF StartInv

LEMMA RegisterKeepsStart == ASSUME StartInv, RegisterConfigured PROVE StartInv'
<1>1. /\ runtime = "starting" /\ loaded /\ next' = next + 1 /\ loaded' = FALSE
      /\ touched' = touched \ {AtAgent} /\ runtime' = runtime /\ keyFiles' = keyFiles
      /\ records' = [m \in Registered \cup {AtAgent} |->
                        IF m = AtAgent THEN ConfiguredRecord(AtAgent) ELSE records[m]]
      /\ durable' = durable /\ moved' \subseteq moved
      /\ AtAgent \in moved' => durable
  BY DEF RegisterConfigured, Write, Rescored
<1>2. next \in 1 .. Len(Configured) /\ Len(Configured) \in Nat
  BY <1>1, RuntimeLifeAssumption DEF StartInv
<1>3. /\ ConfiguredRecord(AtAgent).content = "configured"
      /\ ConfiguredRecord(AtAgent).key = Key("file", 1)
      /\ ConfiguredRecord(AtAgent).trust = "initial"
  BY <1>1 DEF StartInv, ConfiguredRecord, Record
<1>4. ASSUME NEW i \in 1 .. next
      PROVE  (Configured[i] \in touched \/ AsConfigured(Configured[i]))'
  <2>1. CASE Configured[i] = AtAgent
    BY <1>1, <1>3, <2>1 DEF AsConfigured, Registered
  <2>2. CASE Configured[i] # AtAgent
    <3>1. i \in 1 .. next - 1 BY <1>2, <2>2 DEF AtAgent
    <3> QED BY <1>1, <2>2, <3>1 DEF StartInv, AsConfigured, Registered
  <2> QED BY <2>1, <2>2
<1>5. 1 .. next' - 1 = 1 .. next /\ next' \in 1 .. Len(Configured) + 1
  BY <1>1, <1>2
<1>6. \A i \in 1 .. next' - 1 : (Configured[i] \in touched \/ AsConfigured(Configured[i]))'
  BY <1>4, <1>5
<1>7. keyFiles' \in [Names -> {0, 1}] /\ loaded' = FALSE /\ runtime' = "starting"
  BY <1>1 DEF StartInv
<1> QED BY <1>5, <1>6, <1>7 DEF StartInv

LEMMA NextStartInv == StartInv /\ [Next]_vars => StartInv'
<1> SUFFICES ASSUME StartInv, [Next]_vars PROVE StartInv' OBVIOUS
<1>1. CASE BindingStep
  <2>1. UNCHANGED startVars BY <1>1 DEF BindingStep
  <2>2. \A n \in Registered : n # Bound \/ records' = records =>
           n \in Registered' /\ records'[n] = records[n] /\ moved' = moved
    BY <1>1 DEF BindingStep, BindingNext, SyncReturns, Registered
  <2> QED BY <1>1, <2>1, <2>2, OthersKeepStart DEF BindingStep, Touch
<1>2. CASE Crash BY <1>2, StartOverHolds DEF Crash, StartOver
<1>3. CASE Tick
  BY <1>3, OthersKeepStart DEF Tick, lifeVars, startVars, Registered
<1>4. CASE Start \/ Stop
  <2>1. next = 1 /\ ~loaded /\ next' = next /\ loaded' = loaded /\ keyFiles' = keyFiles
    BY <1>4 DEF Start, Stop, StartInv
  <2> QED BY <2>1, StartOverHolds DEF StartInv
<1>5. CASE LoadKey
  <2>1. /\ UNCHANGED <<records, moved, durable, next, touched, runtime>> /\ loaded' = TRUE
        /\ runtime = "starting" /\ next <= Len(Configured)
        /\ keyFiles' = [keyFiles EXCEPT ![AtAgent] = IF @ = 0 THEN 1 ELSE @]
    BY <1>5 DEF LoadKey, recordVars
  <2>2. AtAgent \in Names BY <2>1, RuntimeLifeAssumption DEF StartInv, AtAgent
  <2>3. keyFiles' \in [Names -> {0, 1}] /\ keyFiles'[AtAgent] = 1
    BY <2>1, <2>2 DEF StartInv
  <2> QED BY <2>1, <2>3 DEF StartInv, AtAgent, AsConfigured, Registered
<1>6. CASE RegisterConfigured BY <1>6, RegisterKeepsStart
<1>7. CASE StartReturns \/ StartRaises
  BY <1>7, StartOverHolds DEF StartReturns, StartRaises, StartOver
<1>8. CASE EnricherStep
  BY <1>8, OthersKeepStart DEF EnricherStep, recordVars, lifeVars, startVars, Registered
<1>9. ASSUME NEW n \in Names,
             HttpRegister(n) \/ HttpDeregister(n) \/ ChangeAgent(n) \/ ReportTrust(n)
      PROVE  StartInv'
  <2>1. UNCHANGED startVars /\ Touch(n)
    BY <1>9 DEF HttpRegister, HttpDeregister, ChangeAgent, ReportTrust
  <2>2. \A m \in Registered : m # n =>
           m \in Registered' /\ records'[m] = records[m] /\ (m \in moved' => m \in moved)
    BY <1>9 DEF HttpRegister, HttpDeregister, ChangeAgent, ReportTrust, Rescored, Write,
                Unregister, Registered
  <2> QED BY <2>1, <2>2, OthersKeepStart DEF Touch
<1>10. CASE UNCHANGED vars
  BY <1>10, OthersKeepStart DEF vars, recordVars, lifeVars, startVars, Registered
<1> QED BY <1>1, <1>2, <1>3, <1>4, <1>5, <1>6, <1>7, <1>8, <1>9, <1>10 DEF Next

\* StartsAsConfigured, for any topology file (names may even repeat), any
\* number of crashes and failed starts, and whatever others do meanwhile.
THEOREM StartReturnsAsConfigured == Spec => StartsAsConfigured
<1> DEFINE Property ==
      runtime = "starting" /\ runtime' = "up" =>
          \A i \in DOMAIN Configured : Configured[i] \notin touched =>
              /\ Configured[i] \in Registered
              /\ records[Configured[i]].content = "configured"
              /\ records[Configured[i]].key = Key("file", 1)
              /\ ShownTrust(Configured[i]) = IF durable /\ Configured[i] \in moved
                                             THEN "earned" ELSE "initial"
<1>1. StartInv /\ [Next]_vars => [Property]_vars
  <2> SUFFICES ASSUME StartInv, [Next]_vars, runtime = "starting", runtime' = "up"
               PROVE  Property
    BY DEF vars
  <2>1. StartReturns
    BY DEF Next, BindingStep, Crash, Tick, Start, LoadKey, RegisterConfigured, StartRaises,
           Stop, EnricherStep, HttpRegister, HttpDeregister, ChangeAgent, ReportTrust,
           startVars, lifeVars, vars
  <2>2. next - 1 = Len(Configured) /\ DOMAIN Configured = 1 .. Len(Configured)
    BY <2>1, RuntimeLifeAssumption DEF StartReturns, StartInv
  <2> QED BY <2>2 DEF StartInv, AsConfigured, ShownTrust
<1> QED BY <1>1, InitStartInv, NextStartInv, PTL DEF Spec, StartsAsConfigured

-----------------------------------------------------------------------------
(***************************************************************************)
(* What the SPIFFE binding promises, for every value of the constants: any *)
(* number of rotations, at any moments, of failures and of other writers.  *)
(***************************************************************************)

Algorithms == {"none"} \cup {AlgorithmOf[s] : s \in DOMAIN AlgorithmOf}

Runs == [at : {"scheduled", "reading", "calling"}, svid : Nat, algorithm : Algorithms]

\* What a run of _sync has read is of the current SVID.
ReadsCurrent(run) ==
    /\ run.at # "scheduled" => run.svid = svid
    /\ run.at = "calling" => run.algorithm = AlgorithmOf[svid]

RecordCurrent ==
    Bound \in Registered =>
        /\ records[Bound].key = Key("svid", svid)
        /\ records[Bound].algorithm = AlgorithmOf[svid]

\* A bound source that has missed nothing: the last run under way reads what is
\* current, and without one the registry has it.
Follows ==
    binding # "none" /\ ~missed =>
        IF syncs = <<>> THEN RecordCurrent ELSE ReadsCurrent(syncs[Len(syncs)])

KeyInv ==
    /\ svid \in 1 .. Len(AlgorithmOf)
    /\ syncs \in Seq(Runs)
    /\ missed \in BOOLEAN
    /\ binding \in {"none", "syncing", "synced", "subscribed"}
    /\ Follows

-----------------------------------------------------------------------------
LEMMA InitKeyInv == Init => KeyInv
<1> SUFFICES ASSUME Init PROVE KeyInv OBVIOUS
<1>1. svid = 1 /\ syncs = <<>> /\ binding = "none" /\ missed = FALSE
  BY DEF Init, BindingInit, Unbound
<1>2. Len(AlgorithmOf) \in Nat \ {0} BY SpiffeBindingAssumption
<1>3. Follows BY <1>1 DEF Follows
<1>4. syncs \in Seq(Runs) BY <1>1, EmptySeq
<1>5. svid \in 1 .. Len(AlgorithmOf) BY <1>1, <1>2
<1>6. missed \in BOOLEAN /\ binding = "none" BY <1>1
<1> QED BY <1>3, <1>4, <1>5, <1>6 DEF KeyInv

LEMMA KeyTypes ==
    ASSUME KeyInv
    PROVE  svid \in Nat /\ AlgorithmOf[svid] \in Algorithms /\ Scheduled \in Runs /\ Reading \in Runs
<1>1. svid \in 1 .. Len(AlgorithmOf) /\ DOMAIN AlgorithmOf = 1 .. Len(AlgorithmOf)
  BY SpiffeBindingAssumption DEF KeyInv
<1>2. svid \in Nat /\ AlgorithmOf[svid] \in Algorithms /\ "none" \in Algorithms
  BY <1>1 DEF Algorithms
<1>3. Scheduled \in Runs BY <1>2 DEF Scheduled, Runs
<1>4. Reading \in Runs BY <1>2 DEF Reading, Runs
<1> QED BY <1>2, <1>3, <1>4

\* Steps that leave the binding alone, and the key of the agent's record unless
\* missed says so.
LEMMA OthersKeepKey ==
    ASSUME KeyInv, UNCHANGED <<svid, syncs, binding>>, missed' \in BOOLEAN,
           missed => missed',
           Bound \in Registered' =>
               \/ /\ Bound \in Registered
                  /\ records'[Bound].key = records[Bound].key
                  /\ records'[Bound].algorithm = records[Bound].algorithm
               \/ binding # "none" /\ syncs = <<>> => missed'
    PROVE  KeyInv'
<1>1. Follows'
  BY DEF KeyInv, Follows, RecordCurrent, ReadsCurrent
<1> QED BY <1>1 DEF KeyInv

\* The last run stays the last one.
LEMMA LastStays ==
    ASSUME NEW s \in Seq(Runs), s # <<>>
    PROVE  /\ Tail(s) \in Seq(Runs)
           /\ Tail(s) # <<>> => Len(s) > 1 /\ Tail(s)[Len(Tail(s))] = s[Len(s)]
           /\ Tail(s) = <<>> => Len(s) = 1
           /\ \A i \in DOMAIN s :
                 /\ Seqs!RemoveAt(s, i) \in Seq(Runs)
                 /\ i # Len(s) => /\ Seqs!RemoveAt(s, i) # <<>>
                                  /\ Seqs!RemoveAt(s, i)[Len(Seqs!RemoveAt(s, i))] = s[Len(s)]
<1>1. Len(s) \in Nat \ {0} /\ DOMAIN s = 1 .. Len(s) BY EmptySeq
<1>2. /\ Tail(s) \in Seq(Runs) /\ Len(Tail(s)) = Len(s) - 1
      /\ \A i \in 1 .. Len(Tail(s)) : Tail(s)[i] = s[i + 1]
  BY HeadTailProperties
<1>3. ASSUME NEW i \in DOMAIN s
      PROVE  /\ Seqs!RemoveAt(s, i) \in Seq(Runs)
             /\ i # Len(s) => /\ Seqs!RemoveAt(s, i) # <<>>
                              /\ Seqs!RemoveAt(s, i)[Len(Seqs!RemoveAt(s, i))] = s[Len(s)]
  <2> DEFINE front == SubSeq(s, 1, i - 1)
             back == SubSeq(s, i + 1, Len(s))
  <2>1. /\ front \in Seq(Runs) /\ Len(front) = i - 1
        /\ back \in Seq(Runs) /\ Len(back) = Len(s) - i
        /\ \A j \in 1 .. Len(s) - i : back[j] = s[i + j]
    <3>1. /\ i - 1 \in 0 .. Len(s) /\ i + 1 \in 1 .. Len(s) + 1 /\ Len(s) \in Nat
      BY <1>1
    <3>2. front \in Seq(Runs) /\ Len(front) = i - 1
      BY <3>1, SubSeqProperties
    <3>3. back \in Seq(Runs) /\ Len(back) = Len(s) - i
      BY <3>1, SubSeqProperties
    <3>4. \A j \in 1 .. Len(s) - i : back[j] = s[i + j]
      BY <3>1, SubSeqProperties
    <3> QED BY <3>2, <3>3, <3>4
  <2> HIDE DEF front, back
  <2>2. /\ front \o back \in Seq(Runs) /\ Len(front \o back) = Len(s) - 1
        /\ i # Len(s) => (front \o back)[Len(s) - 1] = back[Len(s) - i]
    <3>1. i \in 1 .. Len(s) /\ Len(s) \in Nat BY <1>1
    <3>2. /\ front \o back \in Seq(Runs) /\ Len(front \o back) = Len(front) + Len(back)
          /\ \A j \in 1 .. Len(front) + Len(back) :
                (front \o back)[j] = IF j <= Len(front) THEN front[j] ELSE back[j - Len(front)]
      BY <2>1, ConcatProperties
    <3>3. Len(front) + Len(back) = Len(s) - 1 BY <2>1, <3>1
    <3>4. ASSUME i # Len(s) PROVE (front \o back)[Len(s) - 1] = back[Len(s) - i]
      <4>1. Len(s) - 1 \in 1 .. Len(front) + Len(back) /\ ~(Len(s) - 1 <= Len(front))
        BY <2>1, <3>1, <3>3, <3>4
      <4>2. Len(s) - 1 - Len(front) = Len(s) - i BY <2>1, <3>1
      <4> QED BY <3>2, <4>1, <4>2
    <3>5. Len(front \o back) = Len(s) - 1 BY <3>2, <3>3
    <3>6. front \o back \in Seq(Runs) BY <3>2
    <3> QED BY <3>4, <3>5, <3>6
  <2>3. Seqs!RemoveAt(s, i) = front \o back BY DEF Seqs!RemoveAt, front, back
  <2>4. i # Len(s) => front \o back # <<>> /\ back[Len(s) - i] = s[Len(s)]
    BY <1>1, <2>1, <2>2
  <2> QED BY <2>2, <2>3, <2>4
<1> QED BY <1>1, <1>2, <1>3

-----------------------------------------------------------------------------
(* The steps of the binding.                                               *)

LEMMA SyncedRecord ==
    ASSUME IInv, SyncReturns
    PROVE  /\ records'[Bound].key = Key("svid", syncs[1].svid)
           /\ records'[Bound].algorithm = syncs[1].algorithm
<1> DEFINE key == Key("svid", syncs[1].svid)
           algorithm == syncs[1].algorithm
           trust == ShownTrust(Bound)
<1>1. /\ Bound \in DOMAIN records
      /\ records' = [records EXCEPT ![Bound].key = key, ![Bound].algorithm = algorithm,
                                    ![Bound].trust = trust]
  BY DEF SyncReturns, Registered
<1> HIDE DEF key, algorithm, trust
<1>2. PICK k, a, c, t, s :
         records[Bound] = [key |-> k, algorithm |-> a, content |-> c, trust |-> t, stamp |-> s]
  BY <1>1 DEF IInv, RecordsHold, IsRecord
<1>3. records'[Bound] = [[[records[Bound] EXCEPT !.key = key] EXCEPT !.algorithm = algorithm]
                            EXCEPT !.trust = trust]
  BY <1>1
<1>4. records'[Bound].key = key /\ records'[Bound].algorithm = algorithm
  BY <1>2, <1>3
<1> QED BY <1>4 DEF key, algorithm

\* A step after which a bound source has runs, and has missed something or the
\* last run reads what is current.
LEMMA RunsFollow ==
    ASSUME KeyInv, svid' \in 1 .. Len(AlgorithmOf), syncs' \in Seq(Runs), syncs' # <<>>,
           missed' \in BOOLEAN, binding' \in {"none", "syncing", "synced", "subscribed"},
           binding' # "none" /\ ~missed' => ReadsCurrent(syncs[Len(syncs)])'
    PROVE  KeyInv'
<1>1. Follows' BY DEF Follows
<1> QED BY <1>1 DEF KeyInv

LEMMA RotateKeeps == ASSUME KeyInv, Rotate PROVE KeyInv'
<1>1. svid' \in 1 .. Len(AlgorithmOf) /\ missed' \in BOOLEAN /\ binding' = binding
  <2>1. svid' = svid + 1 /\ svid < Len(AlgorithmOf) /\ svid \in Nat /\ Len(AlgorithmOf) \in Nat
    BY KeyTypes, SpiffeBindingAssumption DEF Rotate
  <2>2. missed' \in BOOLEAN BY DEF Rotate
  <2> QED BY <2>1, <2>2 DEF Rotate
<1>2. CASE binding = "subscribed"
  <2>1. syncs' = Append(syncs, Scheduled) /\ syncs \in Seq(Runs) /\ Scheduled \in Runs
    BY <1>2, KeyTypes DEF Rotate, KeyInv
  <2>2. /\ syncs' \in Seq(Runs) /\ Len(syncs') = Len(syncs) + 1 /\ Len(syncs) \in Nat
        /\ syncs'[Len(syncs')] = Scheduled /\ syncs' # <<>>
    BY <2>1, AppendProperties
  <2>3. ReadsCurrent(syncs[Len(syncs)])'
    BY <2>2 DEF ReadsCurrent, Scheduled
  <2> QED BY <1>1, <1>2, <2>2, <2>3, RunsFollow
<1>3. CASE binding # "subscribed"
  <2>1. syncs' = syncs /\ (missed' <=> missed \/ binding \in {"syncing", "synced"})
    BY <1>3 DEF Rotate
  <2>2. Follows' BY <1>1, <1>3, <2>1 DEF KeyInv, Follows
  <2> QED BY <1>1, <2>1, <2>2 DEF KeyInv
<1> QED BY <1>2, <1>3

LEMMA BindKeeps == ASSUME KeyInv, Bind PROVE KeyInv'
<1>1. /\ syncs' = <<Reading>> /\ svid' = svid /\ missed' = FALSE /\ binding' = "syncing"
      /\ Reading \in Runs
  BY KeyTypes DEF Bind
<1>2. <<Reading>> \in Seq(Runs) /\ <<Reading>> # <<>> /\ Len(<<Reading>>) = 1
      /\ <<Reading>>[1] = Reading
  BY <1>1
<1>3. ReadsCurrent(syncs[Len(syncs)])'
  BY <1>1, <1>2 DEF ReadsCurrent, Reading
<1> QED BY <1>1, <1>2, <1>3, RunsFollow DEF KeyInv

\* Run i gets on: if it is the last one, it reads what is current.
LEMMA ReadKeeps ==
    ASSUME KeyInv, NEW i \in DOMAIN syncs, ReadKey(i) \/ ReadAlgorithm(i)
    PROVE  KeyInv'
<1>1. /\ UNCHANGED <<svid, binding, missed>> /\ syncs \in Seq(Runs) /\ syncs[i] \in Runs
      /\ i \in 1 .. Len(syncs) /\ Len(syncs) \in Nat /\ svid \in Nat
  BY KeyTypes DEF KeyInv, ReadKey, ReadAlgorithm
<1>2. PICK run \in Runs :
         /\ syncs' = [syncs EXCEPT ![i] = run]
         /\ i = Len(syncs) /\ binding # "none" /\ ~missed => ReadsCurrent(run)
  <2>1. CASE ReadKey(i)
    <3>1. syncs' = [syncs EXCEPT ![i] = Reading] /\ Reading \in Runs /\ ReadsCurrent(Reading)
      BY <2>1, KeyTypes DEF ReadKey, ReadsCurrent, Reading
    <3> QED BY <3>1
  <2>2. CASE ReadAlgorithm(i)
    <3> DEFINE run == [[syncs[i] EXCEPT !.at = "calling"] EXCEPT !.algorithm = AlgorithmOf[svid]]
    <3>1. syncs' = [syncs EXCEPT ![i] = run] /\ syncs[i].at = "reading"
      BY <1>1, <2>2 DEF ReadAlgorithm
    <3>2. run \in Runs /\ run.svid = syncs[i].svid /\ run.algorithm = AlgorithmOf[svid]
      BY <1>1, KeyTypes DEF Runs
    <3>3. i = Len(syncs) /\ binding # "none" /\ ~missed => syncs[i].svid = svid
      BY <1>1, <3>1 DEF KeyInv, Follows, ReadsCurrent
    <3> HIDE DEF run
    <3> QED BY <3>1, <3>2, <3>3 DEF ReadsCurrent
  <2> QED BY <2>1, <2>2
<1>3. /\ syncs' \in Seq(Runs) /\ Len(syncs') = Len(syncs) /\ syncs' # <<>>
      /\ syncs'[Len(syncs)] = IF i = Len(syncs) THEN run ELSE syncs[Len(syncs)]
  BY <1>1, <1>2
<1>4. binding # "none" /\ ~missed => ReadsCurrent(syncs'[Len(syncs')])
  BY <1>1, <1>2, <1>3 DEF KeyInv, Follows
<1> QED BY <1>1, <1>3, <1>4, RunsFollow DEF KeyInv, ReadsCurrent

LEMMA SyncReturnsKeeps == ASSUME IInv, KeyInv, SyncReturns PROVE KeyInv'
<1>1. /\ UNCHANGED <<svid, missed>> /\ syncs # <<>> /\ syncs' = Tail(syncs)
      /\ syncs \in Seq(Runs) /\ syncs[1].at = "calling" /\ Bound \in Registered
      /\ binding' \in {"none", "syncing", "synced", "subscribed"}
      /\ binding' = "none" <=> binding = "none"
  BY DEF SyncReturns, KeyInv
<1>2. CASE Tail(syncs) # <<>>
  <2>1. syncs' \in Seq(Runs) /\ syncs'[Len(syncs')] = syncs[Len(syncs)]
    BY <1>1, <1>2, LastStays
  <2> QED BY <1>1, <1>2, <2>1, RunsFollow DEF KeyInv, Follows, ReadsCurrent
<1>3. CASE Tail(syncs) = <<>>
  <2>1. syncs' \in Seq(Runs) /\ Len(syncs) = 1 BY <1>1, <1>3, LastStays
  <2>2. /\ records'[Bound].key = Key("svid", syncs[1].svid)
        /\ records'[Bound].algorithm = syncs[1].algorithm
    BY SyncedRecord
  <2>3. Follows'
    BY <1>1, <1>3, <2>1, <2>2 DEF KeyInv, Follows, ReadsCurrent, RecordCurrent
  <2> QED BY <1>1, <2>1, <2>3 DEF KeyInv
<1> QED BY <1>2, <1>3

LEMMA SyncRaisesKeeps ==
    ASSUME KeyInv, NEW i \in DOMAIN syncs, SyncRaises(i)
    PROVE  KeyInv'
<1>1. /\ svid' = svid /\ syncs \in Seq(Runs) /\ syncs # <<>>
      /\ syncs' = Seqs!RemoveAt(syncs, i) /\ missed' = (missed \/ i = Len(syncs))
      /\ binding' \in {"none", "syncing", "synced", "subscribed"}
      /\ binding = "none" => binding' = "none"
  BY DEF SyncRaises, KeyInv
<1>2. syncs' \in Seq(Runs) BY <1>1, LastStays
<1>3. CASE i = Len(syncs)
  <2>1. missed' = TRUE BY <1>1, <1>3
  <2>2. Follows' BY <2>1 DEF Follows
  <2> QED BY <1>1, <1>2, <2>1, <2>2 DEF KeyInv
<1>4. CASE i # Len(syncs)
  <2>1. syncs' # <<>> /\ syncs'[Len(syncs')] = syncs[Len(syncs)] BY <1>1, <1>4, LastStays
  <2>2. missed' = missed /\ missed' \in BOOLEAN BY <1>1, <1>4 DEF KeyInv
  <2> QED BY <1>1, <1>2, <2>1, <2>2, RunsFollow DEF KeyInv, Follows, ReadsCurrent
<1> QED BY <1>3, <1>4

LEMMA BindingKeepsKey == ASSUME IInv, KeyInv, BindingNext PROVE KeyInv'
<1>1. CASE SyncReturns BY <1>1, SyncReturnsKeeps
<1>2. CASE ConnectSource \/ Subscribe
  <2>1. /\ UNCHANGED <<svid, syncs, missed>>
        /\ binding' \in {"none", "syncing", "synced", "subscribed"}
        /\ binding' = "none" <=> binding = "none"
    BY <1>2 DEF ConnectSource, Subscribe, KeyInv
  <2>2. CASE UNCHANGED <<records, ended>>
    <3>1. Follows' BY <2>1, <2>2 DEF KeyInv, Follows, RecordCurrent, ReadsCurrent, Registered
    <3> QED BY <2>1, <3>1 DEF KeyInv
  <2> QED BY <1>1, <2>2 DEF BindingNext
<1>3. CASE Bind BY <1>3, BindKeeps
<1>4. CASE Rotate BY <1>4, RotateKeeps
<1>5. CASE CloseSource
  <2>1. Follows' BY <1>5 DEF CloseSource, Follows
  <2> QED BY <1>5, <2>1 DEF CloseSource, KeyInv
<1>6. ASSUME NEW i \in DOMAIN syncs, ReadKey(i) \/ ReadAlgorithm(i) \/ SyncRaises(i)
      PROVE  KeyInv'
  BY <1>6, ReadKeeps, SyncRaisesKeeps
<1> QED BY <1>1, <1>2, <1>3, <1>4, <1>5, <1>6 DEF BindingNext

-----------------------------------------------------------------------------
(* The steps of the others.                                                *)

\* A record is written: by a writer that gives the bound agent another key
\* (KeyGivenTo), or with the key that was there.
LEMMA WriteKeepsKey ==
    ASSUME KeyInv, NEW n, NEW r, Write(n, r), UNCHANGED <<svid, syncs, binding>>,
           \/ KeyGivenTo(n)
           \/ /\ missed' = missed /\ n \in Registered
              /\ r.key = records[n].key /\ r.algorithm = records[n].algorithm
    PROVE  KeyInv'
<1>1. records' = [m \in Registered \cup {n} |-> IF m = n THEN r ELSE records[m]]
  BY DEF Write
<1>2. missed' \in BOOLEAN /\ (missed => missed') BY DEF KeyGivenTo, KeyInv
<1>3. CASE n = Bound
  BY <1>1, <1>2, <1>3, OthersKeepKey DEF KeyGivenTo, Registered
<1>4. CASE n # Bound
  BY <1>1, <1>2, <1>4, OthersKeepKey DEF Registered
<1> QED BY <1>3, <1>4

LEMMA NextKeyInv == IInv /\ KeyInv /\ [Next]_vars => KeyInv'
<1> SUFFICES ASSUME IInv, KeyInv, [Next]_vars PROVE KeyInv' OBVIOUS
<1>1. CASE BindingStep BY <1>1, BindingKeepsKey DEF BindingStep
<1>2. CASE Crash
  <2>1. svid' = svid /\ binding' = "none" /\ syncs' = <<>> /\ missed' = FALSE
    BY <1>2 DEF Crash
  <2>2. Follows' BY <2>1 DEF Follows
  <2>3. syncs' \in Seq(Runs) BY <2>1, EmptySeq
  <2> QED BY <2>1, <2>2, <2>3 DEF KeyInv
<1>3. CASE UNCHANGED <<records, svid, syncs, binding, missed>>
  BY <1>3, OthersKeepKey DEF KeyInv, Registered
<1>4. CASE RegisterConfigured
  BY <1>4, WriteKeepsKey DEF RegisterConfigured
<1>5. ASSUME NEW n \in Names, HttpRegister(n) PROVE KeyInv'
  BY <1>5, WriteKeepsKey DEF HttpRegister
<1>6. ASSUME NEW n \in Names, HttpDeregister(n) PROVE KeyInv'
  <2>1. /\ UNCHANGED <<svid, syncs, binding, missed>>
        /\ records' = [m \in Registered \ {n} |-> records[m]]
    BY <1>6 DEF HttpDeregister, Unregister, bindingVars
  <2> QED BY <2>1, OthersKeepKey DEF KeyInv, Registered
<1>7. ASSUME NEW n \in Names, ChangeAgent(n) \/ ReportTrust(n) PROVE KeyInv'
  <2>1. PICK content, trust :
           Write(n, Record(records[n].key, records[n].algorithm, content, trust))
    BY <1>7 DEF ChangeAgent, ReportTrust
  <2>2. n \in Registered /\ UNCHANGED <<svid, syncs, binding, missed>>
    BY <1>7 DEF ChangeAgent, ReportTrust, bindingVars
  <2> DEFINE r == Record(records[n].key, records[n].algorithm, content, trust)
  <2>3. r.key = records[n].key /\ r.algorithm = records[n].algorithm
    BY DEF Record
  <2> HIDE DEF r
  <2> QED BY <2>1, <2>2, <2>3, WriteKeepsKey DEF r
<1>8. CASE Tick \/ Start \/ LoadKey \/ StartReturns \/ StartRaises \/ Stop \/ EnricherStep
  BY <1>3, <1>8 DEF Tick, Start, LoadKey, StartReturns, StartRaises, Stop, EnricherStep,
                    recordVars, bindingVars
<1>9. CASE UNCHANGED vars BY <1>3, <1>9 DEF vars, recordVars, bindingVars
<1> QED BY <1>1, <1>2, <1>4, <1>5, <1>6, <1>7, <1>8, <1>9 DEF Next

\* KeyFollowsSource, for any number of SVIDs, rotations, failures and writers,
\* in any order: the last run under way always reads what is current.
THEOREM RegistryFollowsSource == Spec => []KeyFollowsSource
<1>1. KeyInv => KeyFollowsSource
  BY DEF KeyInv, Follows, RecordCurrent, KeyFollowsSource
<1>2. Spec => []KeyInv
  BY InitKeyInv, NextKeyInv, EnricherInvariant, PTL DEF Spec
<1> QED BY <1>1, <1>2, PTL
=============================================================================
