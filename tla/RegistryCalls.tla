--------------------------- MODULE RegistryCalls ---------------------------
(***************************************************************************)
(* The calls of the AgentRegistry protocol (presidium/registry/_base.py)   *)
(* that change state, as the SQL backends receive them, and the entries of *)
(* the trust_events table both keep.                                       *)
(***************************************************************************)
EXTENDS Lineage, FiniteSets

CallType ==
    [kind : {"register"}, request : RequestType]
    \cup [kind : {"deregister"}, name : Names]
    \cup [kind : {"add_grant"}, name : Names, grant : Grants]
    \cup [kind : {"remove_grant"}, name : Names, id : GrantIds]
    \cup [kind : {"trust_event"}, name : Names, event : TrustEvents]
    \cup [kind : {"set_trust"}, name : Names, value : TrustValues]
    \cup [kind : {"update_status"}, name : Names, status : Statuses]
    \cup [kind : {"update_identity"}, name : Names, key : Keys]
    \cup [kind : {"list_by_tier"}]

NamesAnAgent(call) == call.kind \notin {"register", "list_by_tier"}

IsTrustCall(call) == call.kind \in {"trust_event", "set_trust"}

HasParentToResolve(call) == call.kind = "register" /\ call.request.parent # NoParent

JournalEntries == [agent : Ids, event : TrustEvents,
                   before : TrustValues, after : TrustValues]

\* A call's new scorer and its journal entry, from the scorer it found.
Moved(call, scorer, now) ==
    IF call.kind = "set_trust"
    THEN SetValue(scorer, call.value, now)
    ELSE RecordEvent(scorer, call.event, now)

EntryFor(call, id, scorer, now) ==
    [agent  |-> id,
     event  |-> IF call.kind = "set_trust" THEN "human_override" ELSE call.event,
     before |-> Value(scorer, now),
     after  |-> Value(Moved(call, scorer, now), now)]
=============================================================================
