--------------------------- MODULE MemoryRegistry ---------------------------
(***************************************************************************)
(* InMemoryRegistry (presidium/registry/memory.py): two dictionaries keyed *)
(* by agent name and an append-only list of trust events.  No method has a *)
(* real suspension point, so under asyncio each one is a single step.      *)
(*                                                                         *)
(* A call that raises before it changes anything (unknown agent, parent    *)
(* that does not resolve) is no step.  A call refused after the parent was *)
(* looked up (grant escalation, depth exceeded) has exactly the effect of  *)
(* Lookup on the parent.  Callers hand register() a fresh record each      *)
(* time, as every caller in src/ does.                                     *)
(***************************************************************************)
EXTENDS Lineage

CONSTANTS
    Requests,      \* records callers may register
    NewGrants,     \* grants callers may add
    Overrides,     \* values operators may set
    MaxHours,      \* bound on the clock
    MaxRevision,   \* bound on a record's revision
    MaxEvents,     \* bound on the trust event list
    MaxGrants      \* bound on a record's grant list

ASSUME MemoryRegistryAssumption ==
    /\ Requests \subseteq RequestType
    /\ NewGrants \subseteq Grants
    /\ Overrides \subseteq TrustValues
    /\ MaxHours \in Nat /\ MaxRevision \in Nat /\ MaxEvents \in Nat /\ MaxGrants \in Nat

VARIABLES
    agents,     \* _agents: name -> record
    scorers,    \* _scorers: name -> scorer
    journal,    \* _trust_events
    now,        \* the clock, in hours
    lineage,    \* history: name -> trust of each ancestor when it delegated
    authority   \* history: pairs ever given to an agent without a parent

vars == <<agents, scorers, journal, now, lineage, authority>>

JournalEntries == [agent : Ids, event : TrustEvents,
                   before : TrustValues, after : TrustValues]

Init ==
    /\ agents = <<>>
    /\ scorers = <<>>
    /\ journal = <<>>
    /\ now = 0
    /\ lineage = <<>>
    /\ authority = {}

Registered == DOMAIN agents

TrustOf(n) == Value(scorers[n], now)

\* _sync_trust.  The tier is TierFor of the trust at every read and is not
\* kept in the record.
Synced(n) == [agents[n] EXCEPT !.trust = TrustOf(n)]

\* lookup_by_id takes the first match in insertion order; the order is
\* abstracted to any of the agents that carry the id.
HoldersOf(id) == {n \in Registered : agents[n].id = id}

HasParent(n) == agents[n].parent # NoParent

\* The agents that n's next grant is checked against.
ParentsOf(n) == HoldersOf(agents[n].parent)

\* _touch
Touched(record) == [record EXCEPT !.revision = @ + 1]

MayTouch(n) == n \in Registered /\ agents[n].revision < MaxRevision

(***************************************************************************)
(* Registration                                                            *)
(***************************************************************************)
RegisterRoot(r) ==
    /\ r.parent = NoParent
    /\ agents' = Put(agents, r.name, RootRecord(r))
    /\ scorers' = Put(scorers, r.name, NewScorer(r.trust, r.ceiling, now))
    /\ lineage' = Put(lineage, r.name, {})
    /\ authority' = authority \cup PairsOf(r.grants)
    /\ UNCHANGED <<journal, now>>

\* Faulty variant: a name that is known keeps its scorer.
RegisterChildKeepingScorer(r, p) ==
    /\ r.parent # NoParent
    /\ p \in HoldersOf(r.parent)
    /\ NarrowsGrants(agents[p], r.grants)
    /\ DepthAllowed(agents[p])
    /\ LET child == ChildRecord(r, Synced(p))
       IN  /\ agents' = Put([agents EXCEPT ![p] = Synced(p)], r.name, child)
           /\ scorers' = IF r.name \in Registered THEN scorers
                         ELSE Put(scorers, r.name, NewScorer(child.trust, child.ceiling, now))
    /\ lineage' = Put(lineage, r.name, lineage[p] \cup {TrustOf(p)})
    /\ UNCHANGED <<journal, now, authority>>

\* The lookup of the parent refreshes the parent's stored trust.
RegisterChild(r, p) ==
    /\ r.parent # NoParent
    /\ p \in HoldersOf(r.parent)
    /\ NarrowsGrants(agents[p], r.grants)
    /\ DepthAllowed(agents[p])
    /\ LET child == ChildRecord(r, Synced(p))
       IN  /\ agents' = Put([agents EXCEPT ![p] = Synced(p)], r.name, child)
           /\ scorers' = Put(scorers, r.name, NewScorer(child.trust, child.ceiling, now))
    /\ lineage' = Put(lineage, r.name, lineage[p] \cup {TrustOf(p)})
    /\ UNCHANGED <<journal, now, authority>>

\* Faulty variant: the scorer stays behind.
DeregisterKeepingScorer(n) ==
    /\ n \in Registered
    /\ agents' = Drop(agents, n)
    /\ lineage' = Drop(lineage, n)
    /\ UNCHANGED <<scorers, journal, now, authority>>

Deregister(n) ==
    /\ n \in Registered
    /\ agents' = Drop(agents, n)
    /\ scorers' = Drop(scorers, n)
    /\ lineage' = Drop(lineage, n)
    /\ UNCHANGED <<journal, now, authority>>

(***************************************************************************)
(* Reads that refresh the stored trust                                     *)
(***************************************************************************)
\* lookup and lookup_by_id
Lookup(n) ==
    /\ n \in Registered
    /\ agents' = [agents EXCEPT ![n] = Synced(n)]
    /\ UNCHANGED <<scorers, journal, now, lineage, authority>>

ListAgents ==
    /\ agents' = [n \in Registered |-> Synced(n)]
    /\ UNCHANGED <<scorers, journal, now, lineage, authority>>

(***************************************************************************)
(* Grants                                                                  *)
(***************************************************************************)
AddGrantToRoot(n, g) ==
    /\ MayTouch(n)
    /\ ~HasParent(n)
    /\ Len(agents[n].grants) < MaxGrants
    /\ agents' = [agents EXCEPT ![n] = Touched(WithGrant(Synced(n), g))]
    /\ authority' = authority \cup g.pairs
    /\ UNCHANGED <<scorers, journal, now, lineage>>

\* Faulty variant: a parent that does not resolve leaves nothing to check.
AddGrantToChildOrOrphan(n, p, g) ==
    /\ MayTouch(n)
    /\ HasParent(n)
    /\ Len(agents[n].grants) < MaxGrants
    /\ ParentsOf(n) # {} => p \in ParentsOf(n) /\ NarrowsGrants(agents[p], <<g>>)
    /\ agents' = [agents EXCEPT ![n] = Touched(WithGrant(Synced(n), g))]
    /\ UNCHANGED <<scorers, journal, now, lineage, authority>>

AddGrantToChild(n, p, g) ==
    /\ MayTouch(n)
    /\ HasParent(n)
    /\ Len(agents[n].grants) < MaxGrants
    /\ p \in ParentsOf(n)
    /\ NarrowsGrants(agents[p], <<g>>)
    /\ agents' = [[agents EXCEPT ![p] = Synced(p)] EXCEPT ![n] = Touched(WithGrant(Synced(n), g))]
    /\ UNCHANGED <<scorers, journal, now, lineage, authority>>

\* Faulty variant: the revision stays.
RemoveGrantUntouched(n, i) ==
    /\ MayTouch(n)
    /\ FirstWithItsId(agents[n].grants, i)
    /\ agents' = [agents EXCEPT ![n] = WithoutGrant(Synced(n), i)]
    /\ UNCHANGED <<scorers, journal, now, lineage, authority>>

\* remove_grant drops the first grant that carries the id.
RemoveGrant(n, i) ==
    /\ MayTouch(n)
    /\ FirstWithItsId(agents[n].grants, i)
    /\ agents' = [agents EXCEPT ![n] = Touched(WithoutGrant(Synced(n), i))]
    /\ UNCHANGED <<scorers, journal, now, lineage, authority>>

(***************************************************************************)
(* Trust                                                                   *)
(***************************************************************************)
\* Faulty variant: the event does not reach the journal.
RescoreUnjournaled(n, event, s) ==
    /\ scorers' = [scorers EXCEPT ![n] = s]
    /\ agents' = [agents EXCEPT ![n] =
           Touched([@ EXCEPT !.trust = Value(s, now)])]
    /\ UNCHANGED <<journal, now, lineage, authority>>

\* A new scorer state s for n: journaled, synced into the record, touched.
Rescore(n, event, s) ==
    /\ scorers' = [scorers EXCEPT ![n] = s]
    /\ journal' = Append(journal, [agent |-> agents[n].id, event |-> event,
                                   before |-> TrustOf(n), after |-> Value(s, now)])
    /\ agents' = [agents EXCEPT ![n] =
           Touched([@ EXCEPT !.trust = Value(s, now)])]
    /\ UNCHANGED <<now, lineage, authority>>

RecordTrustEvent(n, event) ==
    /\ MayTouch(n)
    /\ Len(journal) < MaxEvents
    /\ Rescore(n, event, RecordEvent(scorers[n], event, now))

SetTrust(n, value) ==
    /\ MayTouch(n)
    /\ Len(journal) < MaxEvents
    /\ Rescore(n, "human_override", SetValue(scorers[n], value, now))

(***************************************************************************)
(* Status and identity                                                     *)
(***************************************************************************)
\* No transition is refused.
UpdateStatus(n, status) ==
    /\ MayTouch(n)
    /\ agents' = [agents EXCEPT ![n] = Touched([Synced(n) EXCEPT !.status = status])]
    /\ UNCHANGED <<scorers, journal, now, lineage, authority>>

UpdateIdentity(n, key) ==
    /\ MayTouch(n)
    /\ agents' = [agents EXCEPT ![n] = Touched([@ EXCEPT !.key = key])]
    /\ UNCHANGED <<scorers, journal, now, lineage, authority>>

Tick ==
    /\ now < MaxHours
    /\ now' = now + 1
    /\ UNCHANGED <<agents, scorers, journal, lineage, authority>>

Next ==
    \/ \E r \in Requests : RegisterRoot(r)
    \/ \E r \in Requests, p \in Registered : RegisterChild(r, p)
    \/ \E n \in Registered : Deregister(n)
    \/ \E n \in Registered : Lookup(n)
    \/ ListAgents
    \/ \E n \in Registered, g \in NewGrants : AddGrantToRoot(n, g)
    \/ \E n, p \in Registered, g \in NewGrants : AddGrantToChild(n, p, g)
    \/ \E n \in Registered, i \in 1 .. MaxGrants : RemoveGrant(n, i)
    \/ \E n \in Registered, event \in TrustEvents : RecordTrustEvent(n, event)
    \/ \E n \in Registered, value \in Overrides : SetTrust(n, value)
    \/ \E n \in Registered, status \in Statuses : UpdateStatus(n, status)
    \/ \E n \in Registered, key \in Keys : UpdateIdentity(n, key)
    \/ Tick

Spec == Init /\ [][Next]_vars

(***************************************************************************)
(* Type invariant                                                          *)
(***************************************************************************)
\* Every variable has its type; the two dictionaries and the history have
\* the same keys.
TypeOK ==
    /\ DOMAIN agents \subseteq Names
    /\ DOMAIN scorers = DOMAIN agents
    /\ DOMAIN lineage = DOMAIN agents
    /\ \A n \in DOMAIN agents :
          /\ agents[n] \in Records
          /\ scorers[n] \in Scorers
          /\ lineage[n] \in SUBSET TrustValues
    /\ journal \in Seq(JournalEntries)
    /\ now \in Nat
    /\ authority \in SUBSET Pairs

(***************************************************************************)
(* Safety                                                                  *)
(***************************************************************************)
\* However many successes, overrides, re-registrations and hops there are, an
\* agent never shows more trust than any of its ancestors had when it (or the
\* ancestor's child) was registered: the ceiling of register() is transitive
\* along the chain and no scorer operation escapes it.
LineageBound ==
    \A n \in Registered : \A t \in lineage[n] :
        /\ TrustOf(n) <= t
        /\ agents[n].trust <= t

\* Delegation creates no authority: every pair any agent holds was at some
\* time given by an operator to an agent without a parent, whatever was
\* removed, deregistered or re-registered since.
AuthorityFromRoots ==
    \A n \in Registered : PairsOf(agents[n].grants) \subseteq authority

\* Each journal entry tells a truth about its event: only a success or an
\* override can leave the trust higher than it was, and a success by no more
\* than its gain.
JournalSound ==
    \A i \in DOMAIN journal :
        LET e == journal[i]
        IN  CASE e.event = "human_override" -> TRUE
              [] e.event = "success" -> e.after \in e.before .. e.before + SuccessGain
              [] OTHER               -> e.after <= e.before

(***************************************************************************)
(* Action properties                                                       *)
(***************************************************************************)
\* Only register() leaves a record at revision 1, every other mutation is
\* counted on top of it.
FreshlyRegistered(n) ==
    agents'[n].revision = 1 /\ <<agents'[n], scorers'[n]>> # <<agents[n], scorers[n]>>

\* The trust a reader sees rises in one way only besides registration: a
\* journaled success or override of that very agent.  Passing time, reading,
\* and other agents' events never raise it.
TrustRisesOnlyBySignal ==
    [][\A n \in Registered \cap Registered' :
          TrustOf(n)' > TrustOf(n) =>
              \/ FreshlyRegistered(n)
              \/ /\ Len(journal') = Len(journal) + 1
                 /\ journal'[Len(journal')].agent = agents[n].id
                 /\ journal'[Len(journal')].event \in {"success", "human_override"}]_vars

\* An agent whose parent no longer resolves gains nothing (add_grant fails
\* closed with UnresolvableParentError) until it is registered again.
OrphansGainNothing ==
    [][\A n \in Registered \cap Registered' :
          /\ HasParent(n) /\ ParentsOf(n) = {}
          /\ ~FreshlyRegistered(n)
          => PairsOf(agents'[n].grants) \subseteq PairsOf(agents[n].grants)]_vars

\* The revision tells two snapshots of one registration apart: grants, status
\* and key never change without exactly one increment.
RevisionTracksContent ==
    [][\A n \in Registered \cap Registered' :
          \/ FreshlyRegistered(n)
          \/ agents'[n].revision = agents[n].revision + 1
          \/ /\ agents'[n].revision = agents[n].revision
             /\ agents'[n].grants = agents[n].grants
             /\ agents'[n].status = agents[n].status
             /\ agents'[n].key = agents[n].key]_vars

(***************************************************************************)
(* The registry implements the promise of Delegation.                      *)
(***************************************************************************)
D == INSTANCE Delegation WITH
    holds <- [n \in Names |-> IF n \in Registered THEN PairsOf(agents[n].grants) ELSE {}],
    reach <- [n \in Names |-> IF n \in Registered THEN scorers[n].ceiling ELSE 0],
    roots <- {n \in Registered : agents[n].parent = NoParent}

\* Every step of the registry is a step of Delegation or changes nothing of
\* it: what register() and add_grant() give a child, its parent has then.
ImplementsDelegation == D!Spec

(***************************************************************************)
(* Claims of the documentation that the code does not meet                 *)
(***************************************************************************)
\* trust/core.py:47 and 53: a failure costs 0.05, decay having been baked in.
FailureCostsItsDelta ==
    \A i \in DOMAIN journal :
        journal[i].event = "failure" =>
            journal[i].after >= journal[i].before - FailureCost
=============================================================================
