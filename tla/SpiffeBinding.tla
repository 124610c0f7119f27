---------------------------- MODULE SpiffeBinding ----------------------------
(***************************************************************************)
(* The key of one agent kept up to date from SPIRE: SpiffeIdentitySource   *)
(* and bind_identity_to_registry (presidium_contrib/spiffe).               *)
(*                                                                         *)
(* The SVID is replaced by a thread, at any point of the event loop's      *)
(* code.  Its callback schedules a coroutine on the loop, which reads the  *)
(* key, then the algorithm, each from the SVID that is there by then, and  *)
(* awaits update_identity().  A source is bound to one agent, and is not   *)
(* started again once closed.                                              *)
(***************************************************************************)
EXTENDS AgentRecords
Seqs == INSTANCE SequencesExt

CONSTANTS
    Bound,        \* the agent whose key follows the SVID
    AlgorithmOf,  \* AlgorithmOf[s]: the key type of SPIRE's s-th SVID
    MaxFailures   \* bound on the calls, of any kind, that fail

ASSUME SpiffeBindingAssumption == AlgorithmOf \in Seq(STRING) \ {<<>>}

VARIABLES
    svid,      \* the number of SPIRE's current SVID for the agent
    source,    \* the SpiffeIdentitySource: "new", "open", "closed"
    binding,   \* bind_identity_to_registry: "none", "syncing", "synced", "subscribed"
    syncs,     \* the runs of _sync, in the order they were scheduled in
    missed,    \* history: the registry's key is not the SVID's, nor is a run to come
    failures   \* history: the calls that failed

bindingVars == <<svid, source, binding, syncs, missed, failures>>

Unbound ==
    /\ source = "new" /\ binding = "none" /\ syncs = <<>> /\ missed = FALSE

BindingInit == svid = 1 /\ failures = 0 /\ Unbound

Scheduled == [at |-> "scheduled", svid |-> 0, algorithm |-> "none"]
Reading == [at |-> "reading", svid |-> svid, algorithm |-> "none"]

\* _extract_public_key(): the key types it knows.
Supported(s) == AlgorithmOf[s] \in {"ec_p256", "ed25519"}

\* Between the two reads of a run the event loop does nothing else.
LoopIsFree == \A i \in DOMAIN syncs : syncs[i].at # "reading"

\* start(): a thread waits for the first SVID.
ConnectSource ==
    /\ LoopIsFree
    /\ source = "new"
    /\ source' = "open"
    /\ UNCHANGED <<svid, binding, syncs, missed, failures>>

\* The first run of _sync is awaited, so it reads at once.
Bind ==
    /\ LoopIsFree
    /\ source = "open" /\ binding = "none" /\ Supported(svid)
    /\ binding' = "syncing"
    /\ syncs' = <<Reading>>
    /\ missed' = FALSE
    /\ UNCHANGED <<svid, source, failures>>

\* The first run returned; the code goes on to subscribe.
Subscribe ==
    /\ LoopIsFree
    /\ binding = "synced"
    /\ binding' = "subscribed"
    /\ UNCHANGED <<svid, source, syncs, missed, failures>>

\* Faulty variant: a rotation schedules no run while one is under way.
RotateCoalescing ==
    /\ svid < Len(AlgorithmOf)
    /\ svid' = svid + 1
    /\ syncs' = IF binding = "subscribed" /\ syncs = <<>> THEN <<Scheduled>> ELSE syncs
    /\ missed' = (binding # "subscribed" /\ (missed \/ binding \in {"syncing", "synced"}))
    /\ UNCHANGED <<source, binding, failures>>

\* SPIRE renews the SVID: _bridge() schedules a run of _sync, once subscribed.
Rotate ==
    /\ svid < Len(AlgorithmOf)
    /\ svid' = svid + 1
    /\ syncs' = IF binding = "subscribed" THEN Append(syncs, Scheduled) ELSE syncs
    /\ missed' = (binding # "subscribed" /\ (missed \/ binding \in {"syncing", "synced"}))
    /\ UNCHANGED <<source, binding, failures>>

\* Runs start in the order they were scheduled in.
ReadKey(i) ==
    /\ LoopIsFree
    /\ source = "open" /\ Supported(svid)
    /\ syncs[i].at = "scheduled"
    /\ \A j \in 1 .. i - 1 : syncs[j].at = "calling"
    /\ syncs' = [syncs EXCEPT ![i] = Reading]
    /\ UNCHANGED <<svid, source, binding, missed, failures>>

ReadAlgorithm(i) ==
    /\ syncs[i].at = "reading" /\ Supported(svid)
    /\ syncs' = [syncs EXCEPT ![i].at = "calling", ![i].algorithm = AlgorithmOf[svid]]
    /\ UNCHANGED <<svid, source, binding, missed, failures>>

\* update_identity() calls take effect in the order they were made in.  They
\* save the record as a lookup shows it.
SyncReturns ==
    /\ LoopIsFree
    /\ syncs # <<>> /\ syncs[1].at = "calling"
    /\ Bound \in Registered
    /\ records' = [records EXCEPT ![Bound].key = Key("svid", syncs[1].svid),
                                  ![Bound].algorithm = syncs[1].algorithm,
                                  ![Bound].trust = ShownTrust(Bound)]
    /\ syncs' = Tail(syncs)
    /\ binding' = IF binding = "syncing" THEN "synced" ELSE binding
    /\ UNCHANGED <<moved, ended, svid, source, missed, failures>>

\* A run can fail: the key type is unknown, the source is closed, the agent is
\* not registered, or the database fails.
CanRaise(i) ==
    \/ syncs[i].at = "reading" /\ ~Supported(svid)
    \/ syncs[i].at = "scheduled" /\ (source = "closed" \/ ~Supported(svid))
    \/ syncs[i].at = "calling" /\ i = 1 /\ (Bound \notin Registered \/ failures < MaxFailures)

\* The exception of the first run is the caller's, who may bind again; nobody
\* sees that of a later one, and nobody tries again.
SyncRaises(i) ==
    /\ LoopIsFree \/ syncs[i].at = "reading"
    /\ CanRaise(i)
    /\ failures' = IF syncs[i].at = "calling" /\ Bound \in Registered
                   THEN failures + 1 ELSE failures
    /\ syncs' = Seqs!RemoveAt(syncs, i)
    /\ binding' = IF binding = "syncing" THEN "none" ELSE binding
    /\ missed' = (missed \/ i = Len(syncs))
    /\ UNCHANGED <<svid, source>>

\* close(): the subscription goes with the source.
CloseSource ==
    /\ LoopIsFree
    /\ source = "open" /\ binding # "syncing"
    /\ source' = "closed"
    /\ binding' = "none"
    /\ UNCHANGED <<svid, syncs, missed, failures>>

\* A key another writer gave the bound agent stays, unless a run is to come.
KeyGivenTo(n) ==
    missed' = (missed \/ (n = Bound /\ binding # "none" /\ syncs = <<>>))

BindingNext ==
    \/ SyncReturns
    \/ /\ ConnectSource \/ Bind \/ Subscribe \/ Rotate \/ CloseSource
          \/ \E i \in DOMAIN syncs : ReadKey(i) \/ ReadAlgorithm(i) \/ SyncRaises(i)
       /\ UNCHANGED <<records, moved, ended>>

(***************************************************************************)
(* Properties                                                              *)
(***************************************************************************)
\* When nothing is under way, the registry has the key and the algorithm of
\* the current SVID, both of the same one: even if it was replaced between the
\* two reads, while an update waited for the registry, or several times, and
\* even if some updates failed.  Except for what missed says: a rotation before
\* the subscription, a last update that failed, a key from another writer
\* (source.py's _bridge with binding.py's _sync).
KeyFollowsSource ==
    binding = "subscribed" /\ syncs = <<>> /\ ~missed /\ Bound \in Registered
    => /\ records[Bound].key = Key("svid", svid)
       /\ records[Bound].algorithm = AlgorithmOf[svid]
=============================================================================
