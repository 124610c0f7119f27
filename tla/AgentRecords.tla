---------------------------- MODULE AgentRecords ----------------------------
(***************************************************************************)
(* The agents' records as the parts around a registry see them.  A call of *)
(* a registry takes effect at one moment between its start and its return  *)
(* (the registries themselves are in MemoryRegistry, SqliteRegistry and    *)
(* PostgresRegistry).                                                      *)
(***************************************************************************)
EXTENDS Naturals, Sequences, FiniteSets

CONSTANTS
    Names,
    MaxTime,    \* bound on the clock
    MaxStamps   \* bound on the changes of the agents' contents

ASSUME AgentRecordsAssumption == MaxTime \in Nat /\ MaxStamps \in Nat

VARIABLES
    records,    \* the registered agents: name -> key, algorithm, content, trust,
                \* stamp
    moved,      \* the agents whose scorer in the process has taken an event
    ended,      \* history: ended[s] is when the content stamped s was replaced
    now         \* time.monotonic()

recordVars == <<records, moved, ended, now>>

Current == MaxTime + 1  \* the end of a content that has not been replaced

\* A key is the one of the agent's key file ("file"), an SVID's or a client's;
\* the number tells keys of the same origin apart.
Key(from, number) == [from |-> from, number |-> number]

\* A record's content is its grants, owner and status: as the topology file
\* configures them, or anything else.  Its trust is the default of a new record
\* ("initial") or what events made of it ("earned").  A stamp tells contents
\* and trusts apart.
Record(key, algorithm, content, trust) ==
    [key |-> key, algorithm |-> algorithm, content |-> content, trust |-> trust,
     stamp |-> Len(ended) + 1]

Registered == DOMAIN records

\* _sync_trust(): a lookup shows what the scorer says, if there is one.  It says
\* what the record has until it takes an event.
ShownTrust(n) == IF n \in moved THEN "earned" ELSE records[n].trust

\* The ends of the contents, once the one of agent n is replaced.
EndedBy(n) ==
    IF n \in Registered THEN [ended EXCEPT ![records[n].stamp] = now] ELSE ended

\* Agent n gets a record with new content.
Write(n, record) ==
    /\ Len(ended) < MaxStamps
    /\ records' = [m \in Registered \cup {n} |-> IF m = n THEN record ELSE records[m]]
    /\ ended' = Append(EndedBy(n), Current)

Unregister(n) ==
    /\ n \in Registered
    /\ records' = [m \in Registered \ {n} |-> records[m]]
    /\ moved' = moved \ {n}
    /\ ended' = EndedBy(n)
=============================================================================
