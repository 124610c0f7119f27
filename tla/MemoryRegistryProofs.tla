------------------------ MODULE MemoryRegistryProofs ------------------------
(***************************************************************************)
(* InMemoryRegistry, for every value of the constants: no bound on the     *)
(* clock, on revisions, on events or on the number of agents is used.      *)
(***************************************************************************)
EXTENDS MemoryRegistry, LineageProofs

\* The clock never runs behind a scorer, so decay is never negative.
ClockAhead == \A n \in Registered : scorers[n].signal <= now

\* A scorer's ceiling is the record's, and is below the trust every ancestor
\* had at its delegation.  LineageBound alone is not inductive: a SUCCESS
\* raises the trust, and it is the ceiling that keeps it below the ancestors'.
CeilingsHold ==
    \A n \in Registered :
        /\ scorers[n].ceiling = agents[n].ceiling
        /\ \A t \in lineage[n] : scorers[n].ceiling <= t /\ agents[n].trust <= t

IInv == TypeOK /\ ClockAhead /\ CeilingsHold

-----------------------------------------------------------------------------
(* Steps that change the entry of one registered agent, or add it.         *)

LEMMA InitIInv == Init => IInv
<1> SUFFICES ASSUME Init PROVE IInv OBVIOUS
<1>1. DOMAIN agents = {} /\ DOMAIN scorers = {} /\ DOMAIN lineage = {}
  BY DEF Init
<1>2. journal \in Seq(JournalEntries) /\ now \in Nat /\ authority \in SUBSET Pairs
  BY DEF Init
<1>3. QED BY <1>1, <1>2 DEF IInv, TypeOK, ClockAhead, CeilingsHold, Registered

\* What a reader of a registered agent sees is a trust value at most every
\* ancestor's, and writing it into the record keeps the record's type.
LEMMA SyncedFacts ==
    ASSUME IInv, NEW n \in Registered
    PROVE  /\ TrustOf(n) \in TrustValues
           /\ TrustOf(n) <= scorers[n].ceiling
           /\ \A t \in lineage[n] : TrustOf(n) <= t
           /\ Synced(n) \in Records
           /\ Synced(n).trust = TrustOf(n)
           /\ Synced(n).ceiling = agents[n].ceiling
           /\ Synced(n).grants = agents[n].grants
           /\ Synced(n).parent = agents[n].parent
           /\ Synced(n).depth = agents[n].depth
           /\ Synced(n).id = agents[n].id
           /\ Synced(n).revision = agents[n].revision
<1>1. /\ scorers[n] \in Scorers /\ scorers[n].signal <= now /\ now \in Nat
      /\ agents[n] \in Records /\ lineage[n] \in SUBSET TrustValues
  BY DEF IInv, TypeOK, ClockAhead, Registered
<1>2. TrustOf(n) \in TrustValues /\ TrustOf(n) <= scorers[n].ceiling
  BY <1>1, ValueBounds DEF TrustOf
<1>3. ASSUME NEW t \in lineage[n] PROVE TrustOf(n) <= t
  <2>1. scorers[n].ceiling <= t BY DEF IInv, CeilingsHold
  <2>2. t \in TrustValues /\ scorers[n].ceiling \in TrustValues
    BY <1>1 DEF Scorers
  <2>3. QED BY <1>2, <2>1, <2>2, TrustAssumption DEF TrustValues
<1>4. Synced(n) \in Records /\ Synced(n).trust = TrustOf(n)
  BY <1>1, <1>2 DEF Synced, Records
<1>5. /\ Synced(n).ceiling = agents[n].ceiling /\ Synced(n).grants = agents[n].grants
      /\ Synced(n).parent = agents[n].parent /\ Synced(n).depth = agents[n].depth
      /\ Synced(n).id = agents[n].id /\ Synced(n).revision = agents[n].revision
  BY <1>1 DEF Synced, Records
<1>6. QED BY <1>2, <1>3, <1>4, <1>5

\* _touch changes the revision only.
LEMMA TouchedFacts ==
    ASSUME NEW record \in Records
    PROVE  /\ Touched(record) \in Records
           /\ Touched(record).revision = record.revision + 1
           /\ Touched(record).ceiling = record.ceiling
           /\ Touched(record).trust = record.trust
           /\ Touched(record).grants = record.grants
           /\ Touched(record).parent = record.parent
           /\ Touched(record).depth = record.depth
           /\ Touched(record).status = record.status
           /\ Touched(record).key = record.key
           /\ Touched(record).id = record.id
BY DEF Touched, Records

\* Steps that leave scorers, history and clock alone keep IInv when every
\* record keeps its ceiling and shows no more than its lineage allows.
LEMMA RecordsOnly ==
    ASSUME IInv,
           DOMAIN agents' = DOMAIN agents,
           \A m \in Registered :
               /\ agents'[m] \in Records
               /\ agents'[m].ceiling = agents[m].ceiling
               /\ agents'[m].trust \in {agents[m].trust, TrustOf(m)},
           UNCHANGED <<scorers, journal, now, lineage>>,
           authority' \in SUBSET Pairs
    PROVE  IInv'
<1>1. TypeOK' BY DEF IInv, TypeOK, Registered
<1>2. ClockAhead' BY DEF IInv, ClockAhead, Registered
<1>3. CeilingsHold'
  <2> SUFFICES ASSUME NEW n \in Registered, NEW t \in lineage[n]
               PROVE  agents'[n].trust <= t
    BY DEF IInv, CeilingsHold, Registered
  <2>1. CASE agents'[n].trust = agents[n].trust
    BY <2>1 DEF IInv, CeilingsHold
  <2>2. CASE agents'[n].trust = TrustOf(n)
    BY <2>2, SyncedFacts
  <2>3. QED BY <2>1, <2>2
<1>4. QED BY <1>1, <1>2, <1>3 DEF IInv

\* register() under name k: the new record and scorer agree on a ceiling that
\* respects the new lineage.
LEMMA Registering ==
    ASSUME IInv,
           NEW k \in Names, NEW rec \in Records, NEW L \in SUBSET TrustValues,
           NEW old, DOMAIN old = DOMAIN agents,
           \A m \in Registered :
               /\ old[m] \in Records
               /\ old[m].ceiling = agents[m].ceiling
               /\ old[m].trust \in {agents[m].trust, TrustOf(m)},
           \A t \in L : rec.ceiling <= t /\ rec.trust <= t,
           agents' = Put(old, k, rec),
           scorers' = Put(scorers, k, NewScorer(rec.trust, rec.ceiling, now)),
           lineage' = Put(lineage, k, L),
           UNCHANGED <<journal, now>>,
           authority' \in SUBSET Pairs
    PROVE  IInv'
<1>1. rec.trust \in TrustValues /\ rec.ceiling \in TrustValues BY DEF Records
<1> DEFINE s == NewScorer(rec.trust, rec.ceiling, now)
<1>2. s \in Scorers /\ s.ceiling = rec.ceiling /\ s.signal = now
  BY <1>1, NewScorerType DEF IInv, TypeOK
<1> HIDE DEF s
<1>3. /\ DOMAIN agents' = DOMAIN agents \cup {k}
      /\ DOMAIN scorers' = DOMAIN agents \cup {k}
      /\ DOMAIN lineage' = DOMAIN agents \cup {k}
  BY DEF Put, IInv, TypeOK
<1>4. agents'[k] = rec /\ scorers'[k] = s /\ lineage'[k] = L
  BY DEF Put, s
<1>5. \A m \in Registered : m # k =>
         agents'[m] = old[m] /\ scorers'[m] = scorers[m] /\ lineage'[m] = lineage[m]
  BY DEF Put, IInv, TypeOK, Registered
<1>6. TypeOK'
  <2>1. ASSUME NEW m \in DOMAIN agents'
        PROVE  agents'[m] \in Records /\ scorers'[m] \in Scorers
               /\ lineage'[m] \in SUBSET TrustValues
    BY <1>2, <1>3, <1>4, <1>5 DEF IInv, TypeOK, Registered
  <2>2. QED BY <1>3, <2>1 DEF IInv, TypeOK
<1>7. ClockAhead'
  <2>1. ASSUME NEW m \in DOMAIN agents' PROVE scorers'[m].signal <= now
    <3>1. now \in Nat BY DEF IInv, TypeOK
    <3>2. CASE m = k BY <1>2, <1>4, <3>1, <3>2
    <3>3. CASE m # k BY <1>3, <1>5, <3>3 DEF IInv, ClockAhead, Registered
    <3>4. QED BY <3>2, <3>3
  <2>2. QED BY <2>1 DEF ClockAhead, Registered
<1>8. CeilingsHold'
  <2>1. ASSUME NEW m \in DOMAIN agents'
        PROVE  /\ scorers'[m].ceiling = agents'[m].ceiling
               /\ \A t \in lineage'[m] :
                     scorers'[m].ceiling <= t /\ agents'[m].trust <= t
    <3>1. CASE m = k BY <1>2, <1>4, <3>1
    <3>2. CASE m # k
      <4>1. m \in Registered BY <1>3, <3>2 DEF Registered
      <4>2. scorers'[m].ceiling = agents'[m].ceiling
        BY <1>5, <3>2, <4>1 DEF IInv, CeilingsHold
      <4>3. ASSUME NEW t \in lineage'[m]
            PROVE  scorers'[m].ceiling <= t /\ agents'[m].trust <= t
        <5>1. t \in lineage[m] /\ agents'[m] = old[m] /\ scorers'[m] = scorers[m]
          BY <1>5, <3>2, <4>1
        <5>2. scorers[m].ceiling <= t /\ agents[m].trust <= t
          BY <4>1, <5>1 DEF IInv, CeilingsHold
        <5>3. TrustOf(m) <= t BY <4>1, <5>1, SyncedFacts
        <5>4. QED BY <4>1, <5>1, <5>2, <5>3
      <4>4. QED BY <4>2, <4>3
    <3>3. QED BY <3>1, <3>2
  <2>2. QED BY <2>1 DEF CeilingsHold, Registered
<1>9. QED BY <1>6, <1>7, <1>8 DEF IInv

\* Any new state of an agent's scorer that keeps its ceiling keeps IInv.
LEMMA Rescoring ==
    ASSUME IInv, NEW n \in Registered, NEW event \in TrustEvents,
           NEW s \in Scorers, s.ceiling = scorers[n].ceiling, s.signal <= now,
           Rescore(n, event, s)
    PROVE  IInv'
<1>1. /\ now \in Nat /\ agents[n] \in Records /\ scorers[n] \in Scorers
      /\ lineage[n] \in SUBSET TrustValues /\ journal \in Seq(JournalEntries)
  BY DEF IInv, TypeOK, Registered
<1>2. Value(s, now) \in TrustValues /\ Value(s, now) <= s.ceiling
  BY <1>1, ValueBounds
<1>3. \A t \in lineage[n] : Value(s, now) <= t
  <2> SUFFICES ASSUME NEW t \in lineage[n] PROVE Value(s, now) <= t OBVIOUS
  <2>1. s.ceiling <= t BY DEF IInv, CeilingsHold
  <2>2. t \in TrustValues /\ s.ceiling \in TrustValues BY <1>1 DEF Scorers
  <2>3. QED BY <1>2, <2>1, <2>2, TrustAssumption DEF TrustValues
<1> DEFINE rec == Touched([agents[n] EXCEPT !.trust = Value(s, now)])
<1> DEFINE synced == [agents[n] EXCEPT !.trust = Value(s, now)]
<1>a. /\ synced \in Records /\ synced.ceiling = agents[n].ceiling
      /\ synced.trust = Value(s, now)
  BY <1>1, <1>2 DEF Records
<1> HIDE DEF synced
<1>4. /\ rec \in Records /\ rec.ceiling = agents[n].ceiling
      /\ rec.trust = Value(s, now)
  BY <1>a, TouchedFacts DEF synced
<1>5. agents' = [agents EXCEPT ![n] = rec] BY DEF Rescore
<1> HIDE DEF rec
<1>6. journal' \in Seq(JournalEntries)
  <2>1. TrustOf(n) \in TrustValues BY SyncedFacts
  <2>2. agents[n].id \in Ids BY <1>1 DEF Records
  <2>3. [agent |-> agents[n].id, event |-> event, before |-> TrustOf(n),
         after |-> Value(s, now)] \in JournalEntries
    BY <1>2, <2>1, <2>2 DEF JournalEntries
  <2>4. QED BY <1>1, <2>3 DEF Rescore
<1>7. scorers' = [scorers EXCEPT ![n] = s] /\ UNCHANGED <<now, lineage, authority>>
  BY DEF Rescore
<1>8. TypeOK'
  BY <1>4, <1>5, <1>6, <1>7 DEF IInv, TypeOK, Registered
<1>9. ClockAhead' BY <1>5, <1>7 DEF IInv, TypeOK, ClockAhead, Registered
<1>10. CeilingsHold'
  <2>1. ASSUME NEW m \in Registered
        PROVE  /\ scorers'[m].ceiling = agents'[m].ceiling
               /\ \A t \in lineage[m] :
                     scorers'[m].ceiling <= t /\ agents'[m].trust <= t
    <3>1. CASE m = n
      BY <1>3, <1>4, <1>5, <1>7, <3>1 DEF IInv, TypeOK, CeilingsHold, Registered
    <3>2. CASE m # n
      BY <1>5, <1>7, <3>2 DEF IInv, TypeOK, CeilingsHold, Registered
    <3>3. QED BY <3>1, <3>2
  <2>2. QED BY <1>5, <1>7, <2>1 DEF CeilingsHold, Registered
<1>11. QED BY <1>8, <1>9, <1>10 DEF IInv

-----------------------------------------------------------------------------
(* The invariant is kept by every action.                                  *)

LEMMA KeepRegisterRoot ==
    ASSUME IInv, NEW r \in Requests, RegisterRoot(r)
    PROVE  IInv'
<1>1. r \in RequestType /\ r.name \in Names /\ r.grants \in Seq(Grants)
  BY MemoryRegistryAssumption DEF RequestType
<1>2. RootRecord(r) \in Records /\ RootRecord(r).ceiling = r.ceiling
      /\ RootRecord(r).trust = r.trust
  BY <1>1, RootType, LineageAssumption DEF RegisterRoot
<1>3. authority' \in SUBSET Pairs
  BY <1>1, PairsOfType DEF RegisterRoot, IInv, TypeOK
<1>4. \A m \in Registered : agents[m] \in Records
  BY DEF IInv, TypeOK, Registered
<1>5. QED
  BY <1>1, <1>2, <1>3, <1>4, Registering DEF RegisterRoot

\* The child's ceiling is below its parent's trust and ceiling, hence below
\* the trust of every ancestor in the parent's lineage.
LEMMA KeepRegisterChild ==
    ASSUME IInv, NEW r \in Requests, NEW p \in Registered, RegisterChild(r, p)
    PROVE  IInv'
<1>1. r \in RequestType /\ r.name \in Names
  BY MemoryRegistryAssumption DEF RequestType
<1>2. Synced(p) \in Records BY SyncedFacts
<1> DEFINE child == ChildRecord(r, Synced(p))
           old == [agents EXCEPT ![p] = Synced(p)]
           L == lineage[p] \cup {TrustOf(p)}
<1>3. /\ child \in Records /\ child.ceiling <= agents[p].ceiling
      /\ child.ceiling <= TrustOf(p) /\ child.trust <= child.ceiling
      /\ child.trust \in TrustValues /\ child.ceiling \in TrustValues
  BY <1>1, <1>2, SyncedFacts, ChildBounded, LineageAssumption
<1>4. /\ agents' = Put(old, r.name, child)
      /\ scorers' = Put(scorers, r.name, NewScorer(child.trust, child.ceiling, now))
      /\ lineage' = Put(lineage, r.name, L)
      /\ UNCHANGED <<journal, now, authority>>
  BY DEF RegisterChild
<1>5. /\ DOMAIN old = DOMAIN agents
      /\ \A m \in Registered :
            /\ old[m] \in Records
            /\ old[m].ceiling = agents[m].ceiling
            /\ old[m].trust \in {agents[m].trust, TrustOf(m)}
  BY SyncedFacts DEF IInv, TypeOK, Registered
<1>6. L \in SUBSET TrustValues
  BY SyncedFacts DEF IInv, TypeOK, Registered
<1> HIDE DEF child, old
<1>7. ASSUME NEW t \in L PROVE child.ceiling <= t /\ child.trust <= t
  <2>1. t \in TrustValues BY <1>6
  <2>2. child.ceiling <= t
    <3>1. CASE t = TrustOf(p) BY <1>3, <3>1
    <3>2. CASE t \in lineage[p]
      <4>1. agents[p].ceiling <= t BY <3>2 DEF IInv, CeilingsHold
      <4>2. agents[p].ceiling \in TrustValues
        BY DEF IInv, TypeOK, Registered, Records
      <4>3. QED BY <1>3, <2>1, <4>1, <4>2, TrustAssumption DEF TrustValues
    <3>3. QED BY <3>1, <3>2
  <2>3. QED BY <1>3, <2>1, <2>2, TrustAssumption DEF TrustValues
<1> HIDE DEF L
<1>8. authority' \in SUBSET Pairs BY <1>4 DEF IInv, TypeOK
<1>9. QED
  BY <1>1, <1>3, <1>4, <1>5, <1>6, <1>7, <1>8, Registering

LEMMA KeepDeregister ==
    ASSUME IInv, NEW n \in Registered, Deregister(n)
    PROVE  IInv'
<1>1. /\ DOMAIN agents' = DOMAIN agents \ {n}
      /\ DOMAIN scorers' = DOMAIN agents \ {n}
      /\ DOMAIN lineage' = DOMAIN agents \ {n}
      /\ \A m \in DOMAIN agents \ {n} :
            agents'[m] = agents[m] /\ scorers'[m] = scorers[m] /\ lineage'[m] = lineage[m]
  BY DEF Deregister, Drop, IInv, TypeOK
<1>2. UNCHANGED <<journal, now, authority>> BY DEF Deregister
<1>3. QED
  BY <1>1, <1>2 DEF IInv, TypeOK, ClockAhead, CeilingsHold, Registered

LEMMA KeepReads ==
    ASSUME IInv, ListAgents \/ \E n \in Registered : Lookup(n)
    PROVE  IInv'
<1>1. CASE ListAgents
  <2>1. DOMAIN agents' = DOMAIN agents /\ \A m \in Registered : agents'[m] = Synced(m)
    BY <1>1 DEF ListAgents, Registered
  <2>2. UNCHANGED <<scorers, journal, now, lineage, authority>> BY <1>1 DEF ListAgents
  <2>3. authority' \in SUBSET Pairs BY <2>2 DEF IInv, TypeOK
  <2>4. QED BY <2>1, <2>2, <2>3, SyncedFacts, RecordsOnly
<1>2. ASSUME NEW n \in Registered, Lookup(n) PROVE IInv'
  <2>1. /\ DOMAIN agents' = DOMAIN agents
        /\ \A m \in Registered : agents'[m] \in {agents[m], Synced(m)}
    BY <1>2 DEF Lookup, Registered
  <2>2. UNCHANGED <<scorers, journal, now, lineage, authority>> BY <1>2 DEF Lookup
  <2>3. authority' \in SUBSET Pairs BY <2>2 DEF IInv, TypeOK
  <2>4. \A m \in Registered : agents[m] \in Records
    BY DEF IInv, TypeOK, Registered
  <2>5. QED BY <2>1, <2>2, <2>3, <2>4, SyncedFacts, RecordsOnly
<1>3. QED BY <1>1, <1>2

\* A step that rewrites the records of n and perhaps p, touching n only in
\* grants, status, key and revision.
LEMMA KeepRewrite ==
    ASSUME IInv, NEW n \in Registered, NEW rec \in Records,
           rec.ceiling = agents[n].ceiling,
           rec.trust \in {agents[n].trust, TrustOf(n)},
           DOMAIN agents' = DOMAIN agents,
           agents'[n] = rec,
           \A m \in Registered \ {n} : agents'[m] \in {agents[m], Synced(m)},
           UNCHANGED <<scorers, journal, now, lineage>>,
           authority' \in SUBSET Pairs
    PROVE  IInv'
<1>1. \A m \in Registered : agents[m] \in Records
  BY DEF IInv, TypeOK, Registered
<1>2. QED BY <1>1, SyncedFacts, RecordsOnly

LEMMA KeepAddGrant ==
    ASSUME IInv, NEW n \in Registered, NEW g \in NewGrants,
           AddGrantToRoot(n, g) \/ \E p \in Registered : AddGrantToChild(n, p, g)
    PROVE  IInv'
<1> DEFINE rec == Touched(WithGrant(Synced(n), g))
<1>1. g \in Grants /\ g.pairs \in SUBSET Pairs
  BY MemoryRegistryAssumption DEF Grants
<1>2. Synced(n) \in Records BY SyncedFacts
<1>3. rec \in Records /\ rec.ceiling = agents[n].ceiling /\ rec.trust = TrustOf(n)
  BY <1>1, <1>2, WithGrantFacts, TouchedFacts, SyncedFacts
<1>4. CASE AddGrantToRoot(n, g)
  <2>1. agents' = [agents EXCEPT ![n] = rec] BY <1>4 DEF AddGrantToRoot
  <2>2. /\ UNCHANGED <<scorers, journal, now, lineage>>
        /\ authority' \in SUBSET Pairs
    BY <1>1, <1>4 DEF AddGrantToRoot, IInv, TypeOK
  <2> HIDE DEF rec
  <2>3. /\ DOMAIN agents' = DOMAIN agents /\ agents'[n] = rec
        /\ \A m \in Registered \ {n} : agents'[m] \in {agents[m], Synced(m)}
    BY <2>1 DEF Registered
  <2>4. QED BY <1>3, <2>2, <2>3, KeepRewrite
<1>5. ASSUME NEW p \in Registered, AddGrantToChild(n, p, g) PROVE IInv'
  <2>1. agents' = [[agents EXCEPT ![p] = Synced(p)] EXCEPT ![n] = rec]
    BY <1>5 DEF AddGrantToChild
  <2>2. UNCHANGED <<scorers, journal, now, lineage, authority>>
    BY <1>5 DEF AddGrantToChild
  <2>3. authority' \in SUBSET Pairs BY <2>2 DEF IInv, TypeOK
  <2> HIDE DEF rec
  <2>4. /\ DOMAIN agents' = DOMAIN agents /\ agents'[n] = rec
        /\ \A m \in Registered \ {n} : agents'[m] \in {agents[m], Synced(m)}
    BY <2>1 DEF Registered
  <2>5. QED BY <1>3, <2>2, <2>3, <2>4, KeepRewrite
<1>6. QED BY <1>4, <1>5

LEMMA KeepRemoveGrant ==
    ASSUME IInv, NEW n \in Registered, NEW i \in Nat, RemoveGrant(n, i)
    PROVE  IInv'
<1> DEFINE rec == Touched(WithoutGrant(Synced(n), i))
<1>1. Synced(n) \in Records /\ i \in DOMAIN Synced(n).grants
  BY SyncedFacts DEF RemoveGrant, FirstWithItsId
<1>2. rec \in Records /\ rec.ceiling = agents[n].ceiling /\ rec.trust = TrustOf(n)
  BY <1>1, WithoutGrantFacts, TouchedFacts, SyncedFacts
<1>3. agents' = [agents EXCEPT ![n] = rec] BY DEF RemoveGrant
<1>4. UNCHANGED <<scorers, journal, now, lineage, authority>> BY DEF RemoveGrant
<1>5. authority' \in SUBSET Pairs BY <1>4 DEF IInv, TypeOK
<1> HIDE DEF rec
<1>6. /\ DOMAIN agents' = DOMAIN agents /\ agents'[n] = rec
      /\ \A m \in Registered \ {n} : agents'[m] \in {agents[m], Synced(m)}
  BY <1>3 DEF Registered
<1>7. QED BY <1>2, <1>4, <1>5, <1>6, KeepRewrite

LEMMA KeepTrust ==
    ASSUME IInv, NEW n \in Registered,
           \/ \E event \in TrustEvents : RecordTrustEvent(n, event)
           \/ \E value \in Overrides : SetTrust(n, value)
    PROVE  IInv'
<1>1. scorers[n] \in Scorers /\ scorers[n].signal <= now /\ now \in Nat
  BY DEF IInv, TypeOK, ClockAhead, Registered
<1>2. ASSUME NEW event \in TrustEvents, RecordTrustEvent(n, event) PROVE IInv'
  <2>1. /\ RecordEvent(scorers[n], event, now) \in Scorers
        /\ RecordEvent(scorers[n], event, now).ceiling = scorers[n].ceiling
        /\ RecordEvent(scorers[n], event, now).signal <= now
    BY <1>1, RecordEventType
  <2>2. QED BY <1>2, <2>1, Rescoring DEF RecordTrustEvent
<1>3. ASSUME NEW value \in Overrides, SetTrust(n, value) PROVE IInv'
  <2>1. value \in TrustValues BY MemoryRegistryAssumption
  <2>2. /\ SetValue(scorers[n], value, now) \in Scorers
        /\ SetValue(scorers[n], value, now).ceiling = scorers[n].ceiling
        /\ SetValue(scorers[n], value, now).signal <= now
    BY <1>1, <2>1, SetValueType
  <2>3. "human_override" \in TrustEvents BY DEF TrustEvents
  <2>4. QED BY <1>3, <2>2, <2>3, Rescoring DEF SetTrust
<1>4. QED BY <1>2, <1>3

LEMMA KeepStatusAndIdentity ==
    ASSUME IInv, NEW n \in Registered,
           \/ \E status \in Statuses : UpdateStatus(n, status)
           \/ \E key \in Keys : UpdateIdentity(n, key)
    PROVE  IInv'
<1>1. agents[n] \in Records /\ Synced(n) \in Records
  BY SyncedFacts DEF IInv, TypeOK, Registered
<1>2. ASSUME NEW status \in Statuses, UpdateStatus(n, status) PROVE IInv'
  <2> DEFINE changed == [Synced(n) EXCEPT !.status = status]
             rec == Touched(changed)
  <2>1. /\ changed \in Records /\ changed.ceiling = agents[n].ceiling
        /\ changed.trust = TrustOf(n)
    BY <1>1, SyncedFacts DEF Records
  <2>2. agents' = [agents EXCEPT ![n] = rec] BY <1>2 DEF UpdateStatus
  <2>3. UNCHANGED <<scorers, journal, now, lineage, authority>> BY <1>2 DEF UpdateStatus
  <2> HIDE DEF changed
  <2>4. rec \in Records /\ rec.ceiling = agents[n].ceiling /\ rec.trust = TrustOf(n)
    BY <2>1, TouchedFacts
  <2>5. authority' \in SUBSET Pairs BY <2>3 DEF IInv, TypeOK
  <2> HIDE DEF rec
  <2>6. /\ DOMAIN agents' = DOMAIN agents /\ agents'[n] = rec
        /\ \A m \in Registered \ {n} : agents'[m] \in {agents[m], Synced(m)}
    BY <2>2 DEF Registered
  <2>7. QED BY <2>3, <2>4, <2>5, <2>6, KeepRewrite
<1>3. ASSUME NEW key \in Keys, UpdateIdentity(n, key) PROVE IInv'
  <2> DEFINE changed == [agents[n] EXCEPT !.key = key]
             rec == Touched(changed)
  <2>1. /\ changed \in Records /\ changed.ceiling = agents[n].ceiling
        /\ changed.trust = agents[n].trust
    BY <1>1 DEF Records
  <2>2. agents' = [agents EXCEPT ![n] = rec] BY <1>3 DEF UpdateIdentity
  <2>3. UNCHANGED <<scorers, journal, now, lineage, authority>> BY <1>3 DEF UpdateIdentity
  <2> HIDE DEF changed
  <2>4. rec \in Records /\ rec.ceiling = agents[n].ceiling
        /\ rec.trust = agents[n].trust
    BY <2>1, TouchedFacts
  <2>5. authority' \in SUBSET Pairs BY <2>3 DEF IInv, TypeOK
  <2> HIDE DEF rec
  <2>6. /\ DOMAIN agents' = DOMAIN agents /\ agents'[n] = rec
        /\ \A m \in Registered \ {n} : agents'[m] \in {agents[m], Synced(m)}
    BY <2>2 DEF Registered
  <2>7. QED BY <2>3, <2>4, <2>5, <2>6, KeepRewrite
<1>4. QED BY <1>2, <1>3

LEMMA KeepTick == ASSUME IInv, Tick PROVE IInv'
<1>1. UNCHANGED <<agents, scorers, journal, lineage, authority>> /\ now' = now + 1
  BY DEF Tick
<1>2. now \in Nat /\ \A n \in DOMAIN agents : scorers[n].signal \in Nat
  BY DEF IInv, TypeOK, Scorers
<1>3. TypeOK' BY <1>1, <1>2 DEF IInv, TypeOK
<1>4. ClockAhead' BY <1>1, <1>2 DEF IInv, ClockAhead, Registered
<1>5. CeilingsHold' BY <1>1 DEF IInv, CeilingsHold, Registered
<1>6. QED BY <1>3, <1>4, <1>5 DEF IInv

LEMMA NextIInv == IInv /\ [Next]_vars => IInv'
<1> SUFFICES ASSUME IInv, [Next]_vars PROVE IInv' OBVIOUS
<1>1. CASE UNCHANGED vars
  BY <1>1 DEF vars, IInv, TypeOK, ClockAhead, CeilingsHold, Registered
<1>2. CASE Next
  <2>1. CASE \E r \in Requests : RegisterRoot(r)
    BY <2>1, KeepRegisterRoot
  <2>2. CASE \E r \in Requests, p \in Registered : RegisterChild(r, p)
    BY <2>2, KeepRegisterChild
  <2>3. CASE \E n \in Registered : Deregister(n)
    BY <2>3, KeepDeregister
  <2>4. CASE ListAgents \/ \E n \in Registered : Lookup(n)
    BY <2>4, KeepReads
  <2>5. CASE \/ \E n \in Registered, g \in NewGrants : AddGrantToRoot(n, g)
             \/ \E n, p \in Registered, g \in NewGrants : AddGrantToChild(n, p, g)
    BY <2>5, KeepAddGrant
  <2>6. CASE \E n \in Registered, i \in 1 .. MaxGrants : RemoveGrant(n, i)
    BY <2>6, KeepRemoveGrant
  <2>7. CASE \/ \E n \in Registered, event \in TrustEvents : RecordTrustEvent(n, event)
             \/ \E n \in Registered, value \in Overrides : SetTrust(n, value)
    BY <2>7, KeepTrust
  <2>8. CASE \/ \E n \in Registered, status \in Statuses : UpdateStatus(n, status)
             \/ \E n \in Registered, key \in Keys : UpdateIdentity(n, key)
    BY <2>8, KeepStatusAndIdentity
  <2>9. CASE Tick
    BY <2>9, KeepTick
  <2>10. QED BY <1>2, <2>1, <2>2, <2>3, <2>4, <2>5, <2>6, <2>7, <2>8, <2>9 DEF Next
<1>3. QED BY <1>1, <1>2

\* No operation of the registry breaks the types, puts a signal in the future,
\* or raises a scorer's ceiling above the record's or the lineage's.
THEOREM InductiveInvariant == Spec => []IInv
BY InitIInv, NextIInv, PTL DEF Spec

\* The type invariant holds in every reachable state.
THEOREM TypeCorrect == Spec => []TypeOK
<1>1. IInv => TypeOK BY DEF IInv
<1>2. QED BY <1>1, InductiveInvariant, PTL

\* No agent ever shows more trust than any of its ancestors had when it, or
\* the ancestor's child on the way to it, was registered.
THEOREM LineageIsBound == Spec => []LineageBound
<1>1. IInv => LineageBound
  <2> SUFFICES ASSUME IInv, NEW n \in Registered, NEW t \in lineage[n]
               PROVE  TrustOf(n) <= t /\ agents[n].trust <= t
    BY DEF LineageBound
  <2>1. QED BY SyncedFacts DEF IInv, CeilingsHold
<1>2. QED BY <1>1, InductiveInvariant, PTL

-----------------------------------------------------------------------------
(* What moves trust, and what the journal says of it.                      *)

\* A success raises the trust a reader sees by its gain at most; no other event
\* raises it at all.
LEMMA EventMoves ==
    ASSUME NEW s \in Scorers, NEW t \in Nat, s.signal <= t, NEW e \in TrustEvents
    PROVE  /\ Value(s, t) \in TrustValues /\ Value(RecordEvent(s, e, t), t) \in TrustValues
           /\ e = "success" => Value(RecordEvent(s, e, t), t)
                                  \in Value(s, t) .. Value(s, t) + SuccessGain
           /\ e # "success" => Value(RecordEvent(s, e, t), t) <= Value(s, t)
<1> DEFINE x == RecordEvent(s, e, t)
           d == Decayed(s, t)
<1>1. /\ d \in TrustValues /\ s.ceiling \in TrustValues
      /\ Value(s, t) \in TrustValues /\ Value(s, t) = Lower(d, s.ceiling)
  BY DecayedInScale, ValueBounds DEF Value, Scorers
<1>2. /\ x \in Scorers /\ x.ceiling = s.ceiling /\ x.signal <= t
      /\ x.stored = Clamp(d + Delta(e))
      /\ e = "success" => x.signal = t
  BY RecordEventType DEF RecordEvent
<1> HIDE DEF x, d
<1>3. /\ Value(x, t) \in TrustValues /\ Value(x, t) = Lower(Decayed(x, t), s.ceiling)
      /\ Decayed(x, t) \in TrustValues /\ Decayed(x, t) <= x.stored
  BY <1>2, DecayedInScale, ValueBounds DEF Value
<1>4. CASE e = "success"
  <2>1. Delta(e) = SuccessGain BY <1>4 DEF Delta
  <2>2. x.stored \in d .. d + SuccessGain
    BY <1>1, <1>2, <2>1, TrustAssumption DEF Clamp, Lower, AtLeastZero, TrustValues
  <2>3. Decayed(x, t) = x.stored
    <3>1. t - x.signal = 0 /\ DecayRate * 0 = 0 BY <1>2, <1>4, TrustAssumption
    <3>2. x.stored \in TrustValues BY <1>2 DEF Scorers
    <3> QED BY <3>1, <3>2, TrustAssumption DEF Decayed, AtLeastZero, TrustValues
  <2>4. Value(x, t) \in Value(s, t) .. Value(s, t) + SuccessGain
    BY <1>1, <1>3, <2>2, <2>3, TrustAssumption DEF Lower, TrustValues
  <2> QED BY <1>1, <1>3, <1>4, <2>4 DEF x
<1>5. CASE e # "success"
  <2>1. Delta(e) \in Int /\ Delta(e) <= 0
    BY <1>5, TrustAssumption DEF Delta, TrustEvents
  <2>2. x.stored <= d
    BY <1>1, <1>2, <2>1, TrustAssumption DEF Clamp, Lower, AtLeastZero, TrustValues
  <2>3. x.stored \in TrustValues BY <1>2 DEF Scorers
  <2>4. Value(x, t) <= Value(s, t)
    BY <1>1, <1>3, <2>2, <2>3, TrustAssumption DEF Lower, TrustValues
  <2> QED BY <1>1, <1>3, <1>5, <2>4 DEF x
<1> QED BY <1>4, <1>5

EntrySound(e) ==
    CASE e.event = "human_override" -> TRUE
      [] e.event = "success" -> e.after \in e.before .. e.before + SuccessGain
      [] OTHER               -> e.after <= e.before

\* A new entry, if there is one, is sound.
LEMMA NewEntries ==
    ASSUME IInv, [Next]_vars
    PROVE  \/ journal' = journal
           \/ \E e \in JournalEntries : EntrySound(e) /\ journal' = Append(journal, e)
<1>1. CASE UNCHANGED vars BY <1>1 DEF vars
<1>2. ASSUME NEW n \in Registered, NEW event \in TrustEvents, RecordTrustEvent(n, event)
      PROVE  \E e \in JournalEntries : EntrySound(e) /\ journal' = Append(journal, e)
  <2> DEFINE s == RecordEvent(scorers[n], event, now)
             e == [agent |-> agents[n].id, event |-> event,
                   before |-> TrustOf(n), after |-> Value(s, now)]
  <2>1. /\ scorers[n] \in Scorers /\ scorers[n].signal <= now /\ now \in Nat
        /\ agents[n] \in Records
    BY DEF IInv, TypeOK, ClockAhead, Registered
  <2>2. /\ TrustOf(n) \in TrustValues /\ Value(s, now) \in TrustValues
        /\ event = "success" => Value(s, now) \in TrustOf(n) .. TrustOf(n) + SuccessGain
        /\ event # "success" => Value(s, now) <= TrustOf(n)
    BY <2>1, EventMoves DEF TrustOf
  <2>3. journal' = Append(journal, e) BY <1>2 DEF RecordTrustEvent, Rescore
  <2> HIDE DEF s
  <2>4. e \in JournalEntries BY <2>1, <2>2 DEF JournalEntries, Records
  <2>5. EntrySound(e) BY <2>2 DEF EntrySound
  <2> QED BY <2>3, <2>4, <2>5
<1>3. ASSUME NEW n \in Registered, NEW value \in Overrides, SetTrust(n, value)
      PROVE  \E e \in JournalEntries : EntrySound(e) /\ journal' = Append(journal, e)
  <2> DEFINE s == SetValue(scorers[n], value, now)
             e == [agent |-> agents[n].id, event |-> "human_override",
                   before |-> TrustOf(n), after |-> Value(s, now)]
  <2>1. /\ scorers[n] \in Scorers /\ now \in Nat /\ agents[n] \in Records
        /\ value \in TrustValues
    BY MemoryRegistryAssumption DEF IInv, TypeOK, Registered
  <2>2. s \in Scorers /\ s.signal <= now BY <2>1, SetValueType
  <2>3. TrustOf(n) \in TrustValues /\ Value(s, now) \in TrustValues
    BY <2>1, <2>2, ValueBounds, SyncedFacts
  <2>4. journal' = Append(journal, e) BY <1>3 DEF SetTrust, Rescore
  <2> HIDE DEF s
  <2>5. e \in JournalEntries BY <2>1, <2>3 DEF JournalEntries, Records, TrustEvents
  <2>6. EntrySound(e) BY DEF EntrySound
  <2> QED BY <2>4, <2>5, <2>6
<1>4. CASE \/ \E r \in Requests : RegisterRoot(r)
           \/ \E r \in Requests, p \in Registered : RegisterChild(r, p)
           \/ \E n \in Registered : Deregister(n) \/ Lookup(n)
           \/ ListAgents \/ Tick
           \/ \E n \in Registered, g \in NewGrants : AddGrantToRoot(n, g)
           \/ \E n, p \in Registered, g \in NewGrants : AddGrantToChild(n, p, g)
           \/ \E n \in Registered, i \in 1 .. MaxGrants : RemoveGrant(n, i)
           \/ \E n \in Registered, status \in Statuses : UpdateStatus(n, status)
           \/ \E n \in Registered, key \in Keys : UpdateIdentity(n, key)
  BY <1>4 DEF RegisterRoot, RegisterChild, Deregister, Lookup, ListAgents, Tick,
              AddGrantToRoot, AddGrantToChild, RemoveGrant, UpdateStatus, UpdateIdentity
<1> QED BY <1>1, <1>2, <1>3, <1>4 DEF Next

\* What the journal says of an event's effect on trust is true of that event.
THEOREM JournalIsSound == Spec => []JournalSound
<1>1. Init => JournalSound BY DEF Init, JournalSound
<1>2. ASSUME IInv, JournalSound, [Next]_vars PROVE JournalSound'
  <2>1. journal \in Seq(JournalEntries) /\ \A i \in DOMAIN journal : EntrySound(journal[i])
    BY <1>2 DEF IInv, TypeOK, JournalSound, EntrySound
  <2>2. CASE journal' = journal BY <1>2, <2>2 DEF JournalSound
  <2>3. ASSUME NEW e \in JournalEntries, EntrySound(e), journal' = Append(journal, e)
        PROVE  JournalSound'
    <3>1. \A i \in DOMAIN journal' : EntrySound(journal'[i])
      BY <2>1, <2>3
    <3> QED BY <3>1 DEF JournalSound, EntrySound
  <2> QED BY <1>2, <2>2, <2>3, NewEntries
<1> QED BY <1>1, <1>2, InductiveInvariant, PTL DEF Spec

Journaled(n) ==
    /\ Len(journal') = Len(journal) + 1
    /\ journal'[Len(journal')].agent = agents[n].id
    /\ journal'[Len(journal')].event \in {"success", "human_override"}

\* While an agent keeps its scorer, readers see no more of it as time goes on.
LEMMA NoRiseWithoutScorer ==
    ASSUME IInv, NEW n \in Registered, scorers'[n] = scorers[n], now' \in {now, now + 1}
    PROVE  ~(TrustOf(n)' > TrustOf(n))
<1>1. scorers[n] \in Scorers /\ scorers[n].signal <= now /\ now \in Nat
  BY DEF IInv, TypeOK, ClockAhead, Registered
<1>2. Value(scorers[n], now) \in TrustValues /\ Value(scorers[n], now + 1) \in TrustValues
      /\ Value(scorers[n], now + 1) <= Value(scorers[n], now)
  <2>1. scorers[n].signal <= now + 1 /\ now + 1 \in Nat BY <1>1 DEF Scorers
  <2> QED BY <1>1, <2>1, ValueBounds, ValueFalls
<1>3. TrustOf(n)' = Value(scorers[n], now') BY DEF TrustOf
<1>4. TrustOf(n)' <= TrustOf(n) /\ TrustOf(n)' \in Int /\ TrustOf(n) \in Int
  BY <1>2, <1>3, TrustAssumption DEF TrustOf, TrustValues
<1> QED BY <1>4

LEMMA RisesByItsOwnSignal ==
    ASSUME IInv, NEW n \in Registered, NEW m \in Registered, NEW event \in TrustEvents,
           NEW s \in Scorers, Rescore(n, event, s),
           event \notin {"success", "human_override"} => Value(s, now) <= TrustOf(n),
           Value(s, now) \in TrustValues,
           TrustOf(m)' > TrustOf(m)
    PROVE  Journaled(m)
<1>1. /\ scorers' = [scorers EXCEPT ![n] = s] /\ now' = now
      /\ journal' = Append(journal, [agent |-> agents[n].id, event |-> event,
                                     before |-> TrustOf(n), after |-> Value(s, now)])
  BY DEF Rescore
<1>2. m = n
  <2>1. m # n => scorers'[m] = scorers[m] BY <1>1 DEF IInv, TypeOK, Registered
  <2> QED BY <1>1, <2>1, NoRiseWithoutScorer
<1>3. TrustOf(n)' = Value(s, now)
  BY <1>1 DEF TrustOf, IInv, TypeOK, Registered
<1>4. TrustOf(n) \in Int /\ Value(s, now) \in Int
  BY SyncedFacts, TrustAssumption DEF TrustValues
<1>5. event \in {"success", "human_override"} BY <1>2, <1>3, <1>4
<1>6. journal \in Seq(JournalEntries) BY DEF IInv, TypeOK
<1>7. Len(journal') = Len(journal) + 1
      /\ journal'[Len(journal')] = [agent |-> agents[n].id, event |-> event,
                                    before |-> TrustOf(n), after |-> Value(s, now)]
  BY <1>1, <1>6
<1> QED BY <1>2, <1>5, <1>7 DEF Journaled

\* Trust rises by a journaled success or override of that agent, or with a new
\* registration, and in no other way.
THEOREM TrustRisesBySignal == Spec => TrustRisesOnlyBySignal
<1>1. ASSUME IInv, [Next]_vars, NEW m \in Registered \cap Registered',
             TrustOf(m)' > TrustOf(m)
      PROVE  FreshlyRegistered(m) \/ Journaled(m)
  <2>1. CASE scorers' = scorers /\ now' \in {now, now + 1}
    BY <1>1, <2>1, NoRiseWithoutScorer
  <2>2. ASSUME NEW r \in Requests,
               RegisterRoot(r) \/ \E p \in Registered : RegisterChild(r, p)
        PROVE  FreshlyRegistered(m)
    <3>1. /\ now' = now
          /\ m # r.name => scorers'[m] = scorers[m]
          /\ agents'[r.name].revision = 1
      <4>1. PICK old, rec, c : /\ agents' = Put(old, r.name, rec) /\ rec.revision = 1
                               /\ scorers' = Put(scorers, r.name, c) /\ now' = now
        <5>1. CASE RegisterRoot(r)
          <6>1. RootRecord(r).revision = 1 BY DEF RootRecord, NewRecord
          <6> QED BY <5>1, <6>1 DEF RegisterRoot
        <5>2. ASSUME NEW p \in Registered, RegisterChild(r, p)
              PROVE  \E old, rec, c : /\ agents' = Put(old, r.name, rec) /\ rec.revision = 1
                                      /\ scorers' = Put(scorers, r.name, c) /\ now' = now
          <6>1. ChildRecord(r, Synced(p)).revision = 1 BY DEF ChildRecord, NewRecord
          <6>2. /\ agents' = Put([agents EXCEPT ![p] = Synced(p)], r.name,
                                 ChildRecord(r, Synced(p)))
                /\ scorers' = Put(scorers, r.name,
                       NewScorer(ChildRecord(r, Synced(p)).trust,
                                 ChildRecord(r, Synced(p)).ceiling, now))
                /\ now' = now
            BY <5>2 DEF RegisterChild
          <6> QED BY <6>1, <6>2
        <5> QED BY <2>2, <5>1, <5>2
      <4>2. m \in DOMAIN scorers BY <1>1 DEF IInv, TypeOK, Registered
      <4> QED BY <4>1, <4>2 DEF Put
    <3>2. m = r.name /\ scorers'[m] # scorers[m]
      BY <1>1, <3>1, NoRiseWithoutScorer
    <3>3. <<agents'[m], scorers'[m]>> # <<agents[m], scorers[m]>> BY <3>2
    <3> QED BY <3>1, <3>2, <3>3 DEF FreshlyRegistered
  <2>3. ASSUME NEW n \in Registered, Deregister(n) PROVE FALSE
    <3>1. now' = now /\ scorers'[m] = scorers[m]
      BY <1>1, <2>3 DEF Deregister, Drop, IInv, TypeOK, Registered
    <3> QED BY <1>1, <3>1, NoRiseWithoutScorer
  <2>4. ASSUME NEW n \in Registered, NEW event \in TrustEvents, RecordTrustEvent(n, event)
        PROVE  Journaled(m)
    <3> DEFINE s == RecordEvent(scorers[n], event, now)
    <3>1. scorers[n] \in Scorers /\ scorers[n].signal <= now /\ now \in Nat
      BY <1>1 DEF IInv, TypeOK, ClockAhead, Registered
    <3>2. s \in Scorers BY <3>1, RecordEventType
    <3>3. Value(s, now) \in TrustValues
          /\ (event # "success" => Value(s, now) <= TrustOf(n))
      BY <3>1, EventMoves DEF TrustOf
    <3>4. Rescore(n, event, s) BY <2>4 DEF RecordTrustEvent
    <3> HIDE DEF s
    <3> QED BY <1>1, <3>2, <3>3, <3>4, RisesByItsOwnSignal
  <2>5. ASSUME NEW n \in Registered, NEW value \in Overrides, SetTrust(n, value)
        PROVE  Journaled(m)
    <3> DEFINE s == SetValue(scorers[n], value, now)
    <3>1. scorers[n] \in Scorers /\ now \in Nat /\ value \in TrustValues
      BY <1>1, MemoryRegistryAssumption DEF IInv, TypeOK, Registered
    <3>2. s \in Scorers /\ s.signal <= now BY <3>1, SetValueType
    <3>3. Value(s, now) \in TrustValues BY <3>1, <3>2, ValueBounds
    <3>4. Rescore(n, "human_override", s) BY <2>5 DEF SetTrust
    <3>5. "human_override" \in TrustEvents BY DEF TrustEvents
    <3> HIDE DEF s
    <3> QED BY <1>1, <3>2, <3>3, <3>4, <3>5, RisesByItsOwnSignal
  <2>6. CASE UNCHANGED vars BY <2>1, <2>6 DEF vars
  <2>7. CASE \/ \E n \in Registered : Lookup(n)
             \/ ListAgents \/ Tick
             \/ \E n \in Registered, g \in NewGrants : AddGrantToRoot(n, g)
             \/ \E n, p \in Registered, g \in NewGrants : AddGrantToChild(n, p, g)
             \/ \E n \in Registered, i \in 1 .. MaxGrants : RemoveGrant(n, i)
             \/ \E n \in Registered, status \in Statuses : UpdateStatus(n, status)
             \/ \E n \in Registered, key \in Keys : UpdateIdentity(n, key)
    BY <2>1, <2>7 DEF Lookup, ListAgents, Tick, AddGrantToRoot, AddGrantToChild,
                      RemoveGrant, UpdateStatus, UpdateIdentity
  <2> QED BY <1>1, <2>2, <2>3, <2>4, <2>5, <2>6, <2>7 DEF Next
<1>2. ASSUME IInv, [Next]_vars
      PROVE  [\A n \in Registered \cap Registered' :
                TrustOf(n)' > TrustOf(n) =>
                    \/ FreshlyRegistered(n)
                    \/ /\ Len(journal') = Len(journal) + 1
                       /\ journal'[Len(journal')].agent = agents[n].id
                       /\ journal'[Len(journal')].event \in {"success", "human_override"}]_vars
  BY <1>1, <1>2 DEF Journaled
<1> QED BY <1>2, InductiveInvariant, PTL DEF Spec, TrustRisesOnlyBySignal

-----------------------------------------------------------------------------
(***************************************************************************)
(* What InMemoryRegistry does to grants, revisions and the delegation      *)
(* tree, for every value of the constants.  Every operation has one of     *)
(* seven effects; each theorem is shown from the effects.                  *)
(***************************************************************************)

Holding(n) == PairsOf(agents[n].grants)

\* A read may have refreshed its trust, nothing else happened to m.
Unmoved(m) ==
    /\ m \in Registered'
    /\ agents'[m].grants = agents[m].grants
    /\ agents'[m].parent = agents[m].parent /\ agents'[m].id = agents[m].id
    /\ agents'[m].status = agents[m].status /\ agents'[m].key = agents[m].key
    /\ agents'[m].revision = agents[m].revision
    /\ scorers'[m].ceiling = scorers[m].ceiling

UnmovedBut(n) == \A m \in Registered \ {n} : Unmoved(m)

\* n was touched once, and stays where it is in the tree.
Counted(n) ==
    /\ n \in Registered /\ Registered' = Registered /\ UnmovedBut(n)
    /\ agents'[n].parent = agents[n].parent
    /\ agents'[n].revision = agents[n].revision + 1
    /\ scorers'[n].ceiling = scorers[n].ceiling

\* The effects.
Rooted(n) ==
    /\ n \in Names /\ Registered' = Registered \cup {n} /\ UnmovedBut(n)
    /\ agents'[n].parent = NoParent /\ agents'[n].revision = 1
    /\ authority' = authority \cup Holding(n)'

Adopted(n, p) ==
    /\ n \in Names /\ Registered' = Registered \cup {n} /\ UnmovedBut(n)
    /\ agents'[n].parent # NoParent /\ agents'[n].revision = 1
    /\ p \in Registered
    /\ Holding(n)' \subseteq Holding(p) /\ scorers'[n].ceiling <= scorers[p].ceiling
    /\ authority' = authority

Removed(n) ==
    /\ n \in Registered /\ Registered' = Registered \ {n} /\ UnmovedBut(n)
    /\ authority' = authority

Endowed(n) ==
    /\ Counted(n) /\ ~HasParent(n)
    /\ \E ps \in SUBSET Pairs :
          Holding(n)' = Holding(n) \cup ps /\ authority' = authority \cup ps

Given(n, p) ==
    /\ Counted(n) /\ HasParent(n) /\ p \in ParentsOf(n)
    /\ Holding(n)' \subseteq Holding(n) \cup Holding(p)
    /\ authority' = authority

Lessened(n) ==
    /\ Counted(n)
    /\ Holding(n)' \subseteq Holding(n)
    /\ authority' = authority

Steady ==
    /\ Registered' = Registered /\ \A m \in Registered : Unmoved(m)
    /\ authority' = authority

Effect ==
    \/ \E n \in Names : Rooted(n)
    \/ \E n \in Names, p \in Registered : Adopted(n, p)
    \/ \E n \in Registered : Removed(n) \/ Endowed(n) \/ Lessened(n)
    \/ \E n, p \in Registered : Given(n, p)
    \/ Steady

-----------------------------------------------------------------------------
(* Every step has one of the effects.                                      *)

LEMMA RecordOf ==
    ASSUME IInv, NEW n \in Registered
    PROVE  agents[n] \in Records /\ scorers[n] \in Scorers /\ n \in Names
           /\ agents[n].grants \in Seq(Grants) /\ agents[n].revision \in Nat
           /\ scorers[n].ceiling \in TrustValues
           /\ scorers[n].ceiling = agents[n].ceiling
<1>1. agents[n] \in Records /\ scorers[n] \in Scorers /\ n \in Names
  BY DEF IInv, TypeOK, Registered
<1>2. scorers[n].ceiling = agents[n].ceiling BY DEF IInv, CeilingsHold
<1> QED BY <1>1, <1>2 DEF Records, Scorers

\* Refreshing the stored trust moves nothing.
LEMMA SyncedKeeps ==
    ASSUME IInv, NEW n \in Registered
    PROVE  /\ Synced(n).grants = agents[n].grants /\ Synced(n).parent = agents[n].parent
           /\ Synced(n).id = agents[n].id /\ Synced(n).status = agents[n].status
           /\ Synced(n).key = agents[n].key /\ Synced(n).revision = agents[n].revision
BY RecordOf DEF Synced, Records

LEMMA RefreshIsSteady ==
    ASSUME IInv, NEW S \in SUBSET Registered, Registered' = Registered,
           \A m \in S : agents'[m] \in {agents[m], Synced(m)},
           \A m \in S : scorers'[m].ceiling = scorers[m].ceiling
    PROVE  \A m \in S : Unmoved(m)
BY SyncedKeeps DEF Unmoved

LEMMA RootEffect ==
    ASSUME IInv, NEW r \in Requests, RegisterRoot(r)
    PROVE  Rooted(r.name)
<1>1. r \in RequestType /\ r.name \in Names
  BY MemoryRegistryAssumption DEF RequestType
<1>2. /\ Registered' = Registered \cup {r.name}
      /\ agents'[r.name] = RootRecord(r)
      /\ \A m \in Registered \ {r.name} : agents'[m] = agents[m] /\ scorers'[m] = scorers[m]
  BY DEF RegisterRoot, Put, Registered, IInv, TypeOK
<1>3. RootRecord(r).grants = r.grants /\ RootRecord(r).parent = NoParent
      /\ RootRecord(r).revision = 1
  BY DEF RootRecord, NewRecord, RegisterRoot
<1>4. UnmovedBut(r.name) BY <1>2 DEF UnmovedBut, Unmoved
<1>5. authority' = authority \cup Holding(r.name)'
  BY <1>2, <1>3 DEF RegisterRoot, Holding
<1> QED BY <1>1, <1>2, <1>3, <1>4, <1>5 DEF Rooted

LEMMA ChildEffect ==
    ASSUME IInv, NEW r \in Requests, NEW p \in Registered, RegisterChild(r, p)
    PROVE  Adopted(r.name, p)
<1> DEFINE child == ChildRecord(r, Synced(p))
           old == [agents EXCEPT ![p] = Synced(p)]
           k == r.name
<1>1. r \in RequestType /\ k \in Names
  BY MemoryRegistryAssumption DEF RequestType
<1>2. /\ child.parent = r.parent /\ child.grants = r.grants /\ child.revision = 1
      /\ child.ceiling <= agents[p].ceiling
      /\ child.ceiling \in TrustValues /\ child.trust \in TrustValues
  <2>1. child.revision = 1 BY DEF ChildRecord, NewRecord
  <2>2. Synced(p) \in Records /\ Synced(p).ceiling = agents[p].ceiling BY SyncedFacts
  <2> QED BY <1>1, <2>1, <2>2, ChildBounded, LineageAssumption
<1>3. /\ agents' = Put(old, k, child)
      /\ scorers' = Put(scorers, k, NewScorer(child.trust, child.ceiling, now))
      /\ authority' = authority /\ r.parent # NoParent
      /\ PairsOf(r.grants) \subseteq Holding(p)
  BY DEF RegisterChild, NarrowsGrants, Holding
<1> HIDE DEF child
<1>4. NewScorer(child.trust, child.ceiling, now).ceiling = child.ceiling
  BY DEF NewScorer
<1>5. /\ Registered' = Registered \cup {k} /\ agents'[k] = child
      /\ scorers'[k].ceiling = child.ceiling
      /\ \A m \in Registered \ {k} :
            agents'[m] \in {agents[m], Synced(m)} /\ scorers'[m] = scorers[m]
  BY <1>3, <1>4 DEF Put, Registered, IInv, TypeOK
<1>6. UnmovedBut(k)
  BY <1>5, SyncedKeeps DEF UnmovedBut, Unmoved
<1> QED BY <1>1, <1>2, <1>3, <1>5, <1>6, RecordOf DEF Adopted, Holding

LEMMA DeregisterEffect ==
    ASSUME IInv, NEW n \in Registered, Deregister(n)
    PROVE  Removed(n)
<1>1. /\ Registered' = Registered \ {n} /\ authority' = authority
      /\ \A m \in Registered \ {n} : agents'[m] = agents[m] /\ scorers'[m] = scorers[m]
  BY DEF Deregister, Drop, Registered, IInv, TypeOK
<1> QED BY <1>1 DEF Removed, UnmovedBut, Unmoved

LEMMA ReadEffect ==
    ASSUME IInv, ListAgents \/ \E n \in Registered : Lookup(n)
    PROVE  Steady
<1>1. /\ Registered' = Registered /\ UNCHANGED <<scorers, authority>>
      /\ \A m \in Registered : agents'[m] \in {agents[m], Synced(m)}
  BY DEF ListAgents, Lookup, Registered
<1> QED BY <1>1, RefreshIsSteady DEF Steady

\* A record that was touched once more, with the grants of another.
LEMMA TouchEffect ==
    ASSUME IInv, NEW n \in Registered, NEW rec \in Records,
           rec.parent = agents[n].parent, rec.revision = agents[n].revision,
           agents'[n] = Touched(rec), Registered' = Registered,
           \A m \in Registered \ {n} : agents'[m] \in {agents[m], Synced(m)},
           \A m \in Registered : scorers'[m].ceiling = scorers[m].ceiling
    PROVE  Counted(n) /\ Holding(n)' = PairsOf(rec.grants)
<1>1. UnmovedBut(n) BY RefreshIsSteady DEF UnmovedBut
<1>2. /\ agents'[n].parent = agents[n].parent
      /\ agents'[n].revision = agents[n].revision + 1
      /\ agents'[n].grants = rec.grants
  BY TouchedFacts
<1> QED BY <1>1, <1>2 DEF Counted, Holding

LEMMA AddToRootEffect ==
    ASSUME IInv, NEW n \in Registered, NEW g \in NewGrants, AddGrantToRoot(n, g)
    PROVE  Endowed(n)
<1> DEFINE rec == WithGrant(Synced(n), g)
<1>1. g \in Grants /\ g.pairs \in SUBSET Pairs BY MemoryRegistryAssumption DEF Grants
<1>2. Synced(n) \in Records BY SyncedFacts
<1>3. /\ rec \in Records /\ rec.parent = agents[n].parent
      /\ rec.revision = agents[n].revision
      /\ PairsOf(rec.grants) = Holding(n) \cup g.pairs
  BY <1>1, <1>2, WithGrantFacts, SyncedKeeps DEF Holding
<1>4. agents' = [agents EXCEPT ![n] = Touched(rec)] /\ ~HasParent(n)
      /\ scorers' = scorers /\ authority' = authority \cup g.pairs
  BY DEF AddGrantToRoot
<1> HIDE DEF rec
<1>5. Counted(n) /\ Holding(n)' = PairsOf(rec.grants)
  BY <1>3, <1>4, TouchEffect DEF Registered
<1> QED BY <1>1, <1>3, <1>4, <1>5 DEF Endowed

LEMMA AddToChildEffect ==
    ASSUME IInv, NEW n \in Registered, NEW p \in Registered, NEW g \in NewGrants,
           AddGrantToChild(n, p, g)
    PROVE  Given(n, p)
<1> DEFINE rec == WithGrant(Synced(n), g)
<1>1. g \in Grants BY MemoryRegistryAssumption
<1>2. Synced(n) \in Records BY SyncedFacts
<1>3. /\ rec \in Records /\ rec.parent = agents[n].parent
      /\ rec.revision = agents[n].revision
      /\ PairsOf(rec.grants) = Holding(n) \cup g.pairs
  BY <1>1, <1>2, WithGrantFacts, SyncedKeeps DEF Holding
<1>4. /\ agents' = [[agents EXCEPT ![p] = Synced(p)] EXCEPT ![n] = Touched(rec)]
      /\ HasParent(n) /\ p \in ParentsOf(n)
      /\ scorers' = scorers /\ authority' = authority
      /\ PairsOf(<<g>>) \subseteq Holding(p)
  BY DEF AddGrantToChild, NarrowsGrants, Holding
<1>5. PairsOf(<<g>>) = g.pairs
  <2>1. <<>> \in Seq(Grants) OBVIOUS
  <2> QED BY <1>1, <2>1, PairsOfAppend
<1> HIDE DEF rec
<1>6. /\ Registered' = Registered /\ agents'[n] = Touched(rec)
      /\ \A m \in Registered \ {n} : agents'[m] \in {agents[m], Synced(m)}
  BY <1>4 DEF Registered
<1>7. Counted(n) /\ Holding(n)' = PairsOf(rec.grants)
  BY <1>3, <1>4, <1>6, TouchEffect
<1> QED BY <1>3, <1>4, <1>5, <1>7 DEF Given

LEMMA RemoveGrantEffect ==
    ASSUME IInv, NEW n \in Registered, NEW i \in Nat, RemoveGrant(n, i)
    PROVE  Lessened(n)
<1> DEFINE rec == WithoutGrant(Synced(n), i)
<1>1. Synced(n) \in Records /\ i \in DOMAIN Synced(n).grants
  BY SyncedFacts DEF RemoveGrant, FirstWithItsId
<1>2. /\ rec \in Records /\ rec.parent = agents[n].parent
      /\ rec.revision = agents[n].revision /\ PairsOf(rec.grants) \subseteq Holding(n)
  BY <1>1, WithoutGrantFacts, SyncedKeeps DEF Holding
<1>3. agents' = [agents EXCEPT ![n] = Touched(rec)] /\ UNCHANGED <<scorers, authority>>
  BY DEF RemoveGrant
<1> HIDE DEF rec
<1>4. Counted(n) /\ Holding(n)' = PairsOf(rec.grants)
  BY <1>2, <1>3, TouchEffect DEF Registered
<1> QED BY <1>2, <1>3, <1>4 DEF Lessened

LEMMA TrustEffect ==
    ASSUME IInv, NEW n \in Registered,
           \/ \E event \in TrustEvents : RecordTrustEvent(n, event)
           \/ \E value \in Overrides : SetTrust(n, value)
    PROVE  Lessened(n)
<1>1. PICK event, s :
         /\ event \in TrustEvents /\ Rescore(n, event, s)
         /\ s.ceiling = scorers[n].ceiling /\ Value(s, now) \in TrustValues
  <2>1. now \in Nat /\ scorers[n] \in Scorers /\ scorers[n].signal <= now
    BY DEF IInv, TypeOK, ClockAhead, Registered
  <2>2. ASSUME NEW e \in TrustEvents, RecordTrustEvent(n, e)
        PROVE  /\ Rescore(n, e, RecordEvent(scorers[n], e, now))
               /\ RecordEvent(scorers[n], e, now).ceiling = scorers[n].ceiling
               /\ Value(RecordEvent(scorers[n], e, now), now) \in TrustValues
    BY <2>1, <2>2, RecordEventType, ValueBounds DEF RecordTrustEvent
  <2>3. ASSUME NEW v \in Overrides, SetTrust(n, v)
        PROVE  /\ Rescore(n, "human_override", SetValue(scorers[n], v, now))
               /\ SetValue(scorers[n], v, now).ceiling = scorers[n].ceiling
               /\ Value(SetValue(scorers[n], v, now), now) \in TrustValues
    <3>1. v \in TrustValues BY MemoryRegistryAssumption
    <3>2. /\ SetValue(scorers[n], v, now) \in Scorers
          /\ SetValue(scorers[n], v, now).ceiling = scorers[n].ceiling
          /\ SetValue(scorers[n], v, now).signal = now
      BY <2>1, <3>1, SetValueType
    <3>3. SetValue(scorers[n], v, now).signal <= now BY <2>1, <3>2
    <3> QED BY <2>1, <2>3, <3>2, <3>3, ValueBounds DEF SetTrust
  <2>4. "human_override" \in TrustEvents BY DEF TrustEvents
  <2>5. CASE \E e \in TrustEvents : RecordTrustEvent(n, e) BY <2>2, <2>5
  <2>6. CASE \E v \in Overrides : SetTrust(n, v) BY <2>3, <2>4, <2>6
  <2> QED BY <2>5, <2>6
<1> DEFINE rec == [agents[n] EXCEPT !.trust = Value(s, now)]
<1>2. agents' = [agents EXCEPT ![n] = Touched(rec)] /\ authority' = authority
      /\ scorers' = [scorers EXCEPT ![n] = s]
  BY <1>1 DEF Rescore
<1>3. /\ rec \in Records /\ rec.parent = agents[n].parent
      /\ rec.revision = agents[n].revision /\ rec.grants = agents[n].grants
  BY <1>1, RecordOf DEF Records
<1> HIDE DEF rec
<1>4. \A m \in Registered : scorers'[m].ceiling = scorers[m].ceiling
  BY <1>1, <1>2 DEF IInv, TypeOK, Registered
<1>5. Counted(n) /\ Holding(n)' = PairsOf(rec.grants)
  BY <1>2, <1>3, <1>4, TouchEffect DEF Registered
<1> QED BY <1>2, <1>3, <1>5 DEF Lessened, Holding

LEMMA StatusAndIdentityEffect ==
    ASSUME IInv, NEW n \in Registered,
           \/ \E status \in Statuses : UpdateStatus(n, status)
           \/ \E key \in Keys : UpdateIdentity(n, key)
    PROVE  Lessened(n)
<1>1. PICK rec \in Records :
         /\ agents' = [agents EXCEPT ![n] = Touched(rec)]
         /\ rec.parent = agents[n].parent /\ rec.revision = agents[n].revision
         /\ rec.grants = agents[n].grants
  <2>1. ASSUME NEW status \in Statuses, UpdateStatus(n, status)
        PROVE  \E rec \in Records :
                  /\ agents' = [agents EXCEPT ![n] = Touched(rec)]
                  /\ rec.parent = agents[n].parent /\ rec.revision = agents[n].revision
                  /\ rec.grants = agents[n].grants
    <3> DEFINE rec == [Synced(n) EXCEPT !.status = status]
    <3>1. Synced(n) \in Records BY SyncedFacts
    <3>2. /\ rec \in Records /\ rec.parent = Synced(n).parent
          /\ rec.revision = Synced(n).revision /\ rec.grants = Synced(n).grants
      BY <3>1 DEF Records
    <3>3. agents' = [agents EXCEPT ![n] = Touched(rec)] BY <2>1 DEF UpdateStatus
    <3> HIDE DEF rec
    <3> QED BY <3>2, <3>3, SyncedKeeps
  <2>2. ASSUME NEW key \in Keys, UpdateIdentity(n, key)
        PROVE  \E rec \in Records :
                  /\ agents' = [agents EXCEPT ![n] = Touched(rec)]
                  /\ rec.parent = agents[n].parent /\ rec.revision = agents[n].revision
                  /\ rec.grants = agents[n].grants
    <3> DEFINE rec == [agents[n] EXCEPT !.key = key]
    <3>1. /\ rec \in Records /\ rec.parent = agents[n].parent
          /\ rec.revision = agents[n].revision /\ rec.grants = agents[n].grants
      BY RecordOf DEF Records
    <3>2. agents' = [agents EXCEPT ![n] = Touched(rec)] BY <2>2 DEF UpdateIdentity
    <3> HIDE DEF rec
    <3> QED BY <3>1, <3>2
  <2> QED BY <2>1, <2>2
<1>2. UNCHANGED <<scorers, authority>> BY DEF UpdateStatus, UpdateIdentity
<1>3. Counted(n) /\ Holding(n)' = PairsOf(rec.grants)
  BY <1>1, <1>2, TouchEffect DEF Registered
<1> QED BY <1>1, <1>2, <1>3 DEF Lessened, Holding

LEMMA EveryStepHasAnEffect == ASSUME IInv, [Next]_vars PROVE Effect
<1>1. CASE UNCHANGED vars \/ Tick
  BY <1>1 DEF vars, Tick, Effect, Steady, Unmoved, Registered
<1>2. ASSUME NEW r \in Requests, RegisterRoot(r) PROVE Effect
  BY <1>2, RootEffect DEF Effect, Rooted
<1>3. ASSUME NEW r \in Requests, NEW p \in Registered, RegisterChild(r, p) PROVE Effect
  BY <1>3, ChildEffect DEF Effect, Adopted
<1>4. ASSUME NEW n \in Registered, Deregister(n) PROVE Effect
  BY <1>4, DeregisterEffect DEF Effect
<1>5. CASE ListAgents \/ \E n \in Registered : Lookup(n)
  BY <1>5, ReadEffect DEF Effect
<1>6. ASSUME NEW n \in Registered, NEW g \in NewGrants, AddGrantToRoot(n, g) PROVE Effect
  BY <1>6, AddToRootEffect DEF Effect
<1>7. ASSUME NEW n \in Registered, NEW p \in Registered, NEW g \in NewGrants,
             AddGrantToChild(n, p, g)
      PROVE  Effect
  BY <1>7, AddToChildEffect DEF Effect
<1>8. ASSUME NEW n \in Registered, NEW i \in 1 .. MaxGrants, RemoveGrant(n, i) PROVE Effect
  BY <1>8, RemoveGrantEffect DEF Effect
<1>9. ASSUME NEW n \in Registered,
             \/ \E event \in TrustEvents : RecordTrustEvent(n, event)
             \/ \E value \in Overrides : SetTrust(n, value)
      PROVE  Effect
  BY <1>9, TrustEffect DEF Effect
<1>10. ASSUME NEW n \in Registered,
              \/ \E status \in Statuses : UpdateStatus(n, status)
              \/ \E key \in Keys : UpdateIdentity(n, key)
       PROVE  Effect
  BY <1>10, StatusAndIdentityEffect DEF Effect
<1> QED BY <1>1, <1>2, <1>3, <1>4, <1>5, <1>6, <1>7, <1>8, <1>9, <1>10 DEF Next

-----------------------------------------------------------------------------
(* What follows from the effects.                                          *)

\* No pair is held that was not once given to an agent without a parent.
THEOREM AuthorityComesFromRoots == Spec => []AuthorityFromRoots
<1>1. Init => AuthorityFromRoots BY DEF Init, AuthorityFromRoots, Registered
<1>2. ASSUME IInv, AuthorityFromRoots, [Next]_vars PROVE AuthorityFromRoots'
  <2>1. \A m \in Registered : Holding(m) \subseteq authority
    BY <1>2 DEF AuthorityFromRoots, Holding
  <2>2. \A m \in Registered : Unmoved(m) => Holding(m)' = Holding(m)
    BY DEF Unmoved, Holding
  <2>3. Effect BY <1>2, EveryStepHasAnEffect
  <2> SUFFICES ASSUME NEW m \in Registered' PROVE Holding(m)' \subseteq authority'
    BY DEF AuthorityFromRoots, Holding
  <2>4. CASE \E n \in Names : Rooted(n)
    BY <2>1, <2>2, <2>4 DEF Rooted, UnmovedBut
  <2>5. CASE \E n \in Names, p \in Registered : Adopted(n, p)
    BY <2>1, <2>2, <2>5 DEF Adopted, UnmovedBut
  <2>6. CASE \E n \in Registered : Removed(n)
    BY <2>1, <2>2, <2>6 DEF Removed, UnmovedBut
  <2>7. CASE \E n \in Registered : Endowed(n)
    BY <2>1, <2>2, <2>7 DEF Endowed, Counted, UnmovedBut
  <2>8. CASE \E n, p \in Registered : Given(n, p)
    BY <2>1, <2>2, <2>8 DEF Given, Counted, UnmovedBut
  <2>9. CASE \E n \in Registered : Lessened(n)
    BY <2>1, <2>2, <2>9 DEF Lessened, Counted, UnmovedBut
  <2>10. CASE Steady
    BY <2>1, <2>2, <2>10 DEF Steady
  <2> QED BY <2>3, <2>4, <2>5, <2>6, <2>7, <2>8, <2>9, <2>10 DEF Effect
<1> QED BY <1>1, <1>2, InductiveInvariant, PTL DEF Spec

\* What happens to an agent that is registered before and after a step.
LEMMA EffectOnOne ==
    ASSUME Effect, NEW m \in Registered \cap Registered'
    PROVE  \/ agents'[m].revision = 1 /\ (Rooted(m) \/ \E p \in Registered : Adopted(m, p))
           \/ Endowed(m) \/ Lessened(m) \/ \E p \in Registered : Given(m, p)
           \/ Unmoved(m)
<1>1. CASE \E n \in Names : Rooted(n)
  BY <1>1 DEF Rooted, UnmovedBut
<1>2. CASE \E n \in Names, p \in Registered : Adopted(n, p)
  BY <1>2 DEF Adopted, UnmovedBut
<1>3. CASE \E n \in Registered : Removed(n)
  BY <1>3 DEF Removed, UnmovedBut
<1>4. CASE \E n \in Registered : Endowed(n)
  BY <1>4 DEF Endowed, Counted, UnmovedBut
<1>5. CASE \E n \in Registered : Lessened(n)
  BY <1>5 DEF Lessened, Counted, UnmovedBut
<1>6. CASE \E n, p \in Registered : Given(n, p)
  BY <1>6 DEF Given, Counted, UnmovedBut
<1>7. CASE Steady
  BY <1>7 DEF Steady
<1> QED BY <1>1, <1>2, <1>3, <1>4, <1>5, <1>6, <1>7 DEF Effect

\* add_grant and everything else short of a new registration leave an agent
\* whose parent does not resolve with the pairs it has, or fewer.
THEOREM OrphansHoldWhatTheyHold == Spec => OrphansGainNothing
<1>1. ASSUME IInv, [Next]_vars
      PROVE  [\A n \in Registered \cap Registered' :
                /\ HasParent(n) /\ ParentsOf(n) = {}
                /\ ~FreshlyRegistered(n)
                => PairsOf(agents'[n].grants) \subseteq PairsOf(agents[n].grants)]_vars
  <2> SUFFICES ASSUME NEW n \in Registered \cap Registered',
                      HasParent(n), ParentsOf(n) = {}, ~FreshlyRegistered(n)
               PROVE  Holding(n)' \subseteq Holding(n)
    BY DEF Holding
  <2>1. CASE agents'[n].revision = 1
    BY <2>1 DEF FreshlyRegistered, Holding
  <2>2. CASE Lessened(n) BY <2>2 DEF Lessened
  <2>3. CASE Unmoved(n) BY <2>3 DEF Unmoved, Holding
  <2>4. CASE Endowed(n) \/ \E p \in Registered : Given(n, p)
    BY <2>4 DEF Endowed, Given
  <2> QED BY <1>1, <2>1, <2>2, <2>3, <2>4, EveryStepHasAnEffect, EffectOnOne
<1> QED BY <1>1, InductiveInvariant, PTL DEF Spec, OrphansGainNothing

\* Two snapshots of one registration that show the same revision show the same
\* grants, status and key.
THEOREM RevisionTellsSnapshotsApart == Spec => RevisionTracksContent
<1>1. ASSUME IInv, [Next]_vars
      PROVE  [\A n \in Registered \cap Registered' :
                \/ FreshlyRegistered(n)
                \/ agents'[n].revision = agents[n].revision + 1
                \/ /\ agents'[n].revision = agents[n].revision
                   /\ agents'[n].grants = agents[n].grants
                   /\ agents'[n].status = agents[n].status
                   /\ agents'[n].key = agents[n].key]_vars
  <2> SUFFICES ASSUME NEW n \in Registered \cap Registered'
               PROVE  \/ FreshlyRegistered(n)
                      \/ agents'[n].revision = agents[n].revision + 1
                      \/ /\ agents'[n].revision = agents[n].revision
                         /\ agents'[n].grants = agents[n].grants
                         /\ agents'[n].status = agents[n].status
                         /\ agents'[n].key = agents[n].key
    OBVIOUS
  <2>1. CASE agents'[n].revision = 1
    <3>1. CASE <<agents'[n], scorers'[n]>> = <<agents[n], scorers[n]>> BY <3>1
    <3>2. CASE <<agents'[n], scorers'[n]>> # <<agents[n], scorers[n]>>
      BY <2>1, <3>2 DEF FreshlyRegistered
    <3> QED BY <3>1, <3>2
  <2>2. CASE Endowed(n) \/ Lessened(n) \/ \E p \in Registered : Given(n, p)
    BY <2>2 DEF Endowed, Lessened, Given, Counted
  <2>3. CASE Unmoved(n) BY <2>3 DEF Unmoved
  <2> QED BY <1>1, <2>1, <2>2, <2>3, EveryStepHasAnEffect, EffectOnOne
<1> QED BY <1>1, InductiveInvariant, PTL DEF Spec, RevisionTracksContent

-----------------------------------------------------------------------------
(* The registry implements Delegation.                                     *)

Held == [n \in Names |-> IF n \in Registered THEN PairsOf(agents[n].grants) ELSE {}]
Reached == [n \in Names |-> IF n \in Registered THEN scorers[n].ceiling ELSE 0]
Roots == {n \in Registered : agents[n].parent = NoParent}

HeldTyped == Held \in [Names -> SUBSET Pairs] /\ Reached \in [Names -> 0 .. One]

LEMMA HeldTypes == IInv => HeldTyped
<1> SUFFICES ASSUME IInv PROVE HeldTyped OBVIOUS
<1>1. \A n \in Registered : PairsOf(agents[n].grants) \in SUBSET Pairs
  BY RecordOf, PairsOfType
<1>2. \A n \in Registered : scorers[n].ceiling \in 0 .. One
  BY RecordOf DEF TrustValues
<1>3. 0 \in 0 .. One BY TrustAssumption
<1> QED BY <1>1, <1>2, <1>3 DEF HeldTyped, Held, Reached

LEMMA HeldTypesNext == IInv' => HeldTyped'
BY HeldTypes, PTL

LEMMA UnmovedMaps ==
    ASSUME IInv, NEW m \in Registered, Unmoved(m)
    PROVE  /\ Held'[m] = Held[m] /\ Reached'[m] = Reached[m]
           /\ m \in Roots' <=> m \in Roots
<1>1. m \in Names BY RecordOf
<1> QED BY <1>1 DEF Unmoved, Held, Reached, Roots

\* Only n, if anything, is mapped to something else.
LEMMA OnlyOneMaps ==
    ASSUME IInv, IInv', NEW n \in Names, UnmovedBut(n),
           Registered' \ {n} = Registered \ {n}
    PROVE  /\ Held' \in [Names -> SUBSET Pairs] /\ Reached' \in [Names -> 0 .. One]
           /\ \A m \in Names \ {n} : Held'[m] = Held[m] /\ Reached'[m] = Reached[m]
           /\ Roots' \ {n} = Roots \ {n}
<1>1. HeldTyped' BY HeldTypesNext
<1>2. ASSUME NEW m \in Names \ {n}
      PROVE  /\ Held'[m] = Held[m] /\ Reached'[m] = Reached[m]
             /\ m \in Roots' <=> m \in Roots
  <2>1. CASE m \in Registered BY <2>1, UnmovedMaps DEF UnmovedBut
  <2>2. CASE m \notin Registered
    BY <2>2 DEF Held, Reached, Roots
  <2> QED BY <2>1, <2>2
<1>3. Roots \subseteq Names /\ Roots' \subseteq Names
  <2>1. Registered \subseteq Names BY DEF IInv, TypeOK, Registered
  <2>2. Registered' \subseteq Names BY DEF IInv, TypeOK, Registered
  <2> QED BY <2>1, <2>2 DEF Roots
<1> QED BY <1>1, <1>2, <1>3 DEF HeldTyped

LEMMA RootedMaps ==
    ASSUME IInv, IInv', NEW n \in Names, Rooted(n)
    PROVE  D!Endow(n)
<1>1. /\ Held' \in [Names -> SUBSET Pairs] /\ Reached' \in [Names -> 0 .. One]
      /\ \A m \in Names \ {n} : Held'[m] = Held[m] /\ Reached'[m] = Reached[m]
      /\ Roots' \ {n} = Roots \ {n}
  BY OnlyOneMaps DEF Rooted
<1>2. n \in Roots' BY DEF Rooted, Roots
<1>3. Roots' = Roots \cup {n} BY <1>1, <1>2
<1> QED BY <1>1, <1>3 DEF D!Endow, D!OnlyChanges, Held, Reached, Roots

LEMMA AdoptedMaps ==
    ASSUME IInv, IInv', NEW n \in Names, NEW p \in Registered, Adopted(n, p)
    PROVE  D!Delegate(n, p) /\ p \in Names
<1>1. /\ Held' \in [Names -> SUBSET Pairs] /\ Reached' \in [Names -> 0 .. One]
      /\ \A m \in Names \ {n} : Held'[m] = Held[m] /\ Reached'[m] = Reached[m]
      /\ Roots' \ {n} = Roots \ {n}
  BY OnlyOneMaps DEF Adopted
<1>2. Roots' = Roots \ {n}
  <2>1. n \notin Roots' BY DEF Adopted, Roots
  <2> QED BY <1>1, <2>1
<1>3. p \in Names BY RecordOf
<1>4. Held'[n] \subseteq Held[p] /\ Reached'[n] <= Reached[p]
  BY <1>3 DEF Adopted, Holding, Held, Reached
<1> QED BY <1>1, <1>2, <1>3, <1>4 DEF D!Delegate, D!OnlyChanges, Held, Reached, Roots

LEMMA RemovedMaps ==
    ASSUME IInv, IInv', NEW n \in Registered, Removed(n)
    PROVE  D!Diminish(n)
<1>1. n \in Names BY RecordOf
<1>2. /\ Held' \in [Names -> SUBSET Pairs] /\ Reached' \in [Names -> 0 .. One]
      /\ \A m \in Names \ {n} : Held'[m] = Held[m] /\ Reached'[m] = Reached[m]
      /\ Roots' \ {n} = Roots \ {n}
  BY <1>1, OnlyOneMaps DEF Removed
<1>3. Roots' = Roots \ {n}
  <2>1. n \notin Roots' BY DEF Removed, Roots
  <2> QED BY <1>2, <2>1
<1>4. Held'[n] = {} /\ Reached'[n] = 0 BY <1>1 DEF Removed, Held, Reached
<1>5. Reached[n] \in 0 .. One BY <1>1, HeldTypes DEF HeldTyped
<1>6. Held'[n] \subseteq Held[n] /\ Reached'[n] <= Reached[n] BY <1>4, <1>5
<1> QED BY <1>2, <1>3, <1>6 DEF D!Diminish, D!OnlyChanges, Held, Reached, Roots

\* A touched agent has the ceiling it had and is a root if it was one.
LEMMA CountedMaps ==
    ASSUME IInv, IInv', NEW n \in Registered, Counted(n)
    PROVE  /\ n \in Names
           /\ Held' \in [Names -> SUBSET Pairs] /\ Reached' \in [Names -> 0 .. One]
           /\ \A m \in Names \ {n} : Held'[m] = Held[m] /\ Reached'[m] = Reached[m]
           /\ Held[n] = Holding(n) /\ Held'[n] = Holding(n)'
           /\ Reached'[n] = Reached[n] /\ Roots' = Roots
<1>1. n \in Names BY RecordOf
<1>2. /\ Held' \in [Names -> SUBSET Pairs] /\ Reached' \in [Names -> 0 .. One]
      /\ \A m \in Names \ {n} : Held'[m] = Held[m] /\ Reached'[m] = Reached[m]
      /\ Roots' \ {n} = Roots \ {n}
  BY <1>1, OnlyOneMaps DEF Counted
<1>3. /\ Held[n] = Holding(n) /\ Held'[n] = Holding(n)'
      /\ Reached'[n] = Reached[n]
      /\ n \in Roots' <=> n \in Roots
  BY <1>1 DEF Counted, Held, Reached, Roots, Holding
<1>4. Roots' = Roots BY <1>2, <1>3
<1> QED BY <1>1, <1>2, <1>3, <1>4

LEMMA EffectsMap ==
    ASSUME IInv, IInv', Effect
    PROVE  D!Next \/ UNCHANGED <<Held, Reached, Roots>>
<1>1. ASSUME NEW n \in Names, Rooted(n) PROVE D!Next
  BY <1>1, RootedMaps DEF D!Next
<1>2. ASSUME NEW n \in Names, NEW p \in Registered, Adopted(n, p) PROVE D!Next
  BY <1>2, AdoptedMaps DEF D!Next
<1>3. ASSUME NEW n \in Registered, Removed(n) PROVE D!Next
  BY <1>3, RemovedMaps, RecordOf DEF D!Next
<1>4. ASSUME NEW n \in Registered, Endowed(n) PROVE D!Next
  <2>1. Counted(n) /\ n \in Roots BY <1>4 DEF Endowed, HasParent, Roots
  <2>2. Roots' = Roots \cup {n} BY <2>1, CountedMaps
  <2>3. D!Endow(n)
    BY <2>1, <2>2, CountedMaps DEF D!Endow, D!OnlyChanges, Held, Reached, Roots
  <2> QED BY <2>1, <2>3, CountedMaps DEF D!Next
<1>5. ASSUME NEW n \in Registered, NEW p \in Registered, Given(n, p) PROVE D!Next
  <2>1. Counted(n) /\ n \notin Roots BY <1>5 DEF Given, HasParent, Roots
  <2>2. p \in Names /\ Held[p] = Holding(p) BY RecordOf DEF Held, Holding
  <2>3. Held'[n] \ Held[n] \subseteq Held[p] BY <1>5, <2>1, <2>2, CountedMaps DEF Given
  <2>4. Roots' = Roots \ {n} BY <2>1, CountedMaps
  <2>5. D!Delegate(n, p)
    BY <2>1, <2>3, <2>4, CountedMaps DEF D!Delegate, D!OnlyChanges, Held, Reached, Roots
  <2> QED BY <2>1, <2>2, <2>5, CountedMaps DEF D!Next
<1>6. ASSUME NEW n \in Registered, Lessened(n) PROVE D!Next
  <2>1. Counted(n) BY <1>6 DEF Lessened
  <2>2. Held'[n] \subseteq Held[n] BY <1>6, <2>1, CountedMaps DEF Lessened
  <2>3. Reached[n] \in 0 .. One BY <2>1, CountedMaps, HeldTypes DEF HeldTyped
  <2>4. Reached'[n] <= Reached[n] BY <2>1, <2>3, CountedMaps
  <2>5. D!Diminish(n)
    BY <2>1, <2>2, <2>4, CountedMaps DEF D!Diminish, D!OnlyChanges, Held, Reached, Roots
  <2> QED BY <2>1, <2>5, CountedMaps DEF D!Next
<1>7. CASE Steady
  <2>1. \A m \in Names : Held'[m] = Held[m] /\ Reached'[m] = Reached[m]
    BY <1>7 DEF Steady, Unmoved, Held, Reached
  <2>2. Held' = Held /\ Reached' = Reached BY <2>1 DEF Held, Reached
  <2>3. Roots' = Roots BY <1>7 DEF Steady, Unmoved, Roots
  <2> QED BY <2>2, <2>3
<1> QED BY <1>1, <1>2, <1>3, <1>4, <1>5, <1>6, <1>7 DEF Effect

\* What register() and add_grant() give a child its parent has at that moment:
\* the registry, with its dictionaries, scorers and clock, does what Delegation
\* promises.
THEOREM RegistryImplementsDelegation == Spec => ImplementsDelegation
<1>1. Init => D!Init
  BY DEF Init, D!Init, Registered
<1>2. ASSUME IInv, IInv', [Next]_vars
      PROVE  [D!Next]_(D!vars)
  <2>1. D!Next \/ UNCHANGED <<Held, Reached, Roots>>
    BY <1>2, EveryStepHasAnEffect, EffectsMap
  <2> QED BY <2>1 DEF D!vars, Held, Reached, Roots
<1> QED BY <1>1, <1>2, InductiveInvariant, PTL DEF Spec, ImplementsDelegation, D!Spec
=============================================================================
