----------------------------- MODULE RuntimeLife -----------------------------
(***************************************************************************)
(* The life of a GovernedRuntime (presidium/runtime.py) with those that    *)
(* use its registry: start() registers the configured agents with the keys *)
(* of their key files, the HTTP agents register and deregister, grants and *)
(* trust change, the audit enricher looks agents up, and an SVID binding   *)
(* updates the key of one agent.                                           *)
(***************************************************************************)
EXTENDS SpiffeBinding, AuditEnricher

CONSTANTS
    Configured,  \* the names of the topology file's agents, in its order
    MaxCrashes   \* bound on the crashes of the process

ASSUME RuntimeLifeAssumption == Configured \in Seq(Names)

VARIABLES
    runtime,   \* "down", "starting", "up"
    next,      \* start(): the index of the configured agent it is at
    loaded,    \* start(): has that agent's key been loaded
    keyFiles,  \* the key each agent's file holds, by its number; 0 for no file
    durable,   \* does the registry outlive the process
    touched,   \* history: agents others changed since start() registered them
    crashes    \* history: crashes of the process

lifeVars == <<runtime, next, loaded, keyFiles, durable, touched, crashes>>
startVars == <<runtime, next, loaded, keyFiles, durable, crashes>>

vars == <<recordVars, bindingVars, enricherVars, lifeVars>>

AtAgent == Configured[next]

\* Agent n is changed by others than start().
Touch(n) == touched' = IF runtime = "starting" THEN touched \cup {n} ELSE touched

StartOver == next' = 1 /\ loaded' = FALSE /\ touched' = {}

\* __init__() and from_config(): the latter's registry is an InMemoryRegistry.
Init ==
    /\ records = <<>> /\ moved = {} /\ ended = <<>> /\ now = 0
    /\ BindingInit
    /\ EnricherInit
    /\ runtime = "down" /\ next = 1 /\ loaded = FALSE
    /\ keyFiles = [n \in Names |-> 0]
    /\ durable \in BOOLEAN
    /\ touched = {}
    /\ crashes = 0

Start ==
    /\ runtime # "starting"
    /\ runtime' = "starting"
    /\ UNCHANGED <<recordVars, bindingVars, enricherVars, next, loaded, keyFiles,
                   durable, touched, crashes>>

\* load_or_generate(): a key is generated once.
LoadKey ==
    /\ runtime = "starting" /\ next <= Len(Configured) /\ ~loaded
    /\ loaded' = TRUE
    /\ keyFiles' = [keyFiles EXCEPT ![AtAgent] = IF @ = 0 THEN 1 ELSE @]
    /\ UNCHANGED <<recordVars, bindingVars, enricherVars, runtime, next, durable, touched, crashes>>

\* The topology file says nothing of trust: a record has AgentRecord's default.
ConfiguredRecord(n) == Record(Key("file", keyFiles[n]), "ed25519", "configured", "initial")

\* register() in memory makes a new scorer; a durable registry keeps the one the
\* process has for the name.
Rescored(n) == moved' = IF durable THEN moved ELSE moved \ {n}

\* Faulty variant: an agent the registry knows keeps its record.
RegisterUnlessKnown ==
    /\ runtime = "starting" /\ loaded
    /\ IF AtAgent \in Registered
       THEN UNCHANGED <<records, moved, ended, missed>>
       ELSE /\ Write(AtAgent, ConfiguredRecord(AtAgent))
            /\ Rescored(AtAgent)
            /\ KeyGivenTo(AtAgent)
    /\ next' = next + 1 /\ loaded' = FALSE
    /\ touched' = touched \ {AtAgent}
    /\ UNCHANGED <<now, svid, source, binding, syncs, failures, enricherVars,
                   runtime, keyFiles, durable, crashes>>

\* A fresh record replaces whatever the registry has for the name, its trust
\* included; what the scorer says comes before it.
RegisterConfigured ==
    /\ runtime = "starting" /\ loaded
    /\ Write(AtAgent, ConfiguredRecord(AtAgent))
    /\ Rescored(AtAgent)
    /\ KeyGivenTo(AtAgent)
    /\ next' = next + 1 /\ loaded' = FALSE
    /\ touched' = touched \ {AtAgent}
    /\ UNCHANGED <<now, svid, source, binding, syncs, failures, enricherVars,
                   runtime, keyFiles, durable, crashes>>

StartReturns ==
    /\ runtime = "starting" /\ next > Len(Configured)
    /\ runtime' = "up"
    /\ StartOver
    /\ UNCHANGED <<recordVars, bindingVars, enricherVars, keyFiles, durable, crashes>>

\* A key file, the registry or the Civitas runtime fails: the agents that were
\* registered stay.
StartRaises ==
    /\ runtime = "starting" /\ failures < MaxFailures
    /\ runtime' = "down"
    /\ StartOver
    /\ failures' = failures + 1
    /\ UNCHANGED <<recordVars, svid, source, binding, syncs, missed, enricherVars,
                   keyFiles, durable, crashes>>

\* stop() stops the Civitas runtime; the registry, the cache of the enricher
\* and the binding are as before.
Stop ==
    /\ runtime = "up"
    /\ runtime' = "down"
    /\ UNCHANGED <<recordVars, bindingVars, enricherVars, next, loaded, keyFiles,
                   durable, touched, crashes>>

\* The process ends at any point: its key files and a durable registry stay.
Crash ==
    /\ crashes < MaxCrashes
    /\ crashes' = crashes + 1
    /\ runtime' = "down" /\ StartOver
    /\ IF durable THEN UNCHANGED records ELSE records' = <<>>
    /\ moved' = {}
    /\ source' = "new" /\ binding' = "none" /\ syncs' = <<>> /\ missed' = FALSE
    /\ cache' = <<>>
    /\ emits' = [e \in Emits |-> IF emits[e].at = "idle" THEN Idle ELSE Ended("lost", <<>>, FALSE)]
    /\ UNCHANGED <<ended, now, svid, failures, sinkFailures, keyFiles, durable>>

\* A request sets the key and the owner; grants, trust and status are the
\* defaults.
RequestedRecord == Record(Key("client", 1), "ed25519", "registered", "initial")

\* RegisterAgentGatewayAgent
HttpRegister(n) ==
    /\ Write(n, RequestedRecord)
    /\ Rescored(n)
    /\ KeyGivenTo(n)
    /\ Touch(n)
    /\ UNCHANGED <<now, svid, source, binding, syncs, failures, enricherVars, startVars>>

\* DeregisterAgentGatewayAgent
HttpDeregister(n) ==
    /\ Unregister(n)
    /\ Touch(n)
    /\ UNCHANGED <<now, bindingVars, enricherVars, startVars>>

\* A grant is added or removed, or the status changes.  The record is saved as
\* a lookup shows it.
ChangeAgent(n) ==
    /\ n \in Registered
    /\ Write(n, Record(records[n].key, records[n].algorithm, "changed", ShownTrust(n)))
    /\ Touch(n)
    /\ UNCHANGED <<moved, now, bindingVars, enricherVars, startVars>>

\* A trust event is recorded, or trust is set.
ReportTrust(n) ==
    /\ n \in Registered
    /\ Write(n, Record(records[n].key, records[n].algorithm, records[n].content, "earned"))
    /\ moved' = moved \cup {n}
    /\ Touch(n)
    /\ UNCHANGED <<now, bindingVars, enricherVars, startVars>>

Tick ==
    /\ now < MaxTime
    /\ now' = now + 1
    /\ UNCHANGED <<records, moved, ended, bindingVars, enricherVars, lifeVars>>

BindingStep ==
    /\ BindingNext
    /\ IF records' = records THEN UNCHANGED touched ELSE Touch(Bound)
    /\ UNCHANGED <<now, enricherVars, startVars>>

EnricherStep ==
    /\ EnricherNext
    /\ UNCHANGED <<recordVars, bindingVars, lifeVars>>

Next ==
    \/ BindingStep
    \/ Crash
    \/ Tick
    \/ /\ LoopIsFree
       /\ \/ Start \/ LoadKey \/ RegisterConfigured \/ StartReturns \/ StartRaises \/ Stop
          \/ EnricherStep
          \/ \E n \in Names :
                HttpRegister(n) \/ HttpDeregister(n) \/ ChangeAgent(n) \/ ReportTrust(n)

Spec == Init /\ [][Next]_vars

(***************************************************************************)
(* Properties                                                              *)
(***************************************************************************)
\* When start() returns, every configured agent that nobody changed since its
\* turn has the configured grants and owner, and the one key ever generated for
\* it: after a second start, a crash half-way, a start that failed half-way, and
\* whatever the registry had kept or others had registered under its name.  The
\* trust a lookup shows is then the default of a new record, but what it was
\* before where a durable registry still has the scorer of the name
\* (runtime.py's start() over register() and _ensure_scorer()).
StartsAsConfigured ==
    [][ runtime = "starting" /\ runtime' = "up" =>
          \A i \in DOMAIN Configured : Configured[i] \notin touched =>
              /\ Configured[i] \in Registered
              /\ records[Configured[i]].content = "configured"
              /\ records[Configured[i]].key = Key("file", 1)
              /\ ShownTrust(Configured[i]) = IF durable /\ Configured[i] \in moved
                                             THEN "earned" ELSE "initial" ]_vars

(***************************************************************************)
(* Claims of documents that the code does not meet                         *)
(***************************************************************************)
\* agent-registry-requirements.md, FR-3.6: "Trust scores MUST be durable across
\* agent restarts (persisted to the registry backend)."  Over a durable registry
\* start() does not take from a registered agent the trust it earned.
TrustIsDurable ==
    [][ durable /\ RegisterConfigured =>
          \A n \in Registered : ShownTrust(n) = "earned" => ShownTrust(n)' = "earned" ]_vars
=============================================================================
