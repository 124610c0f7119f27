-------------------------- MODULE PostgresRegistry --------------------------
(***************************************************************************)
(* PostgresAgentRegistry (presidium_contrib/registry/postgres.py): several *)
(* processes on one database.  No statement opens a transaction, so each   *)
(* one commits by itself; the write lock and the scorers belong to one     *)
(* process, and nothing orders the statements of two processes.            *)
(*                                                                         *)
(* One step is the code from a resumption to the next statement, and that  *)
(* statement.  The code before the statement touches only the task and     *)
(* what its process keeps, so a step of another process that falls between *)
(* the two can as well come before both.  The final re-read of a mutation  *)
(* changes nothing and is folded into its return.                          *)
(***************************************************************************)
EXTENDS RegistryCalls

CONSTANTS
    Processes,     \* processes that opened the database
    Tasks,         \* asyncio tasks that call a registry
    ProcessOf,     \* the process each task runs in
    Calls,         \* the calls each task makes
    MaxRevision,   \* bound on the revision a call starts from
    MaxEvents,     \* bound on the journal a call starts from
    MaxSetbacks    \* bound on crashes, failed statements and lost answers

ASSUME PostgresRegistryAssumption ==
    /\ ProcessOf \in [Tasks -> Processes]
    /\ DOMAIN Calls = Tasks
    /\ \A t \in Tasks : Calls[t] \subseteq CallType
    /\ MaxRevision \in Nat /\ MaxEvents \in Nat /\ MaxSetbacks \in Nat

VARIABLES
    rows,       \* table agent_records, by name
    events,     \* table trust_events
    scorers,    \* _scorers of each process: name -> scorer
    queue,      \* _write_lock of each process: its holder, then its waiters
    task,       \* where each task is in its call, with its local variables
    setbacks    \* history: crashes, failed statements and lost answers so far

vars == <<rows, events, scorers, queue, task, setbacks>>

\* The clock stands still: decay is in Trust and MemoryRegistry, and here
\* only the order of statements matters.
now == 0

\* A row and, as history, the trust of each ancestor when it delegated, and
\* the process that wrote the row last.
IsRow(row) ==
    /\ row = [rec |-> row.rec, line |-> row.line, by |-> row.by]
    /\ row.rec \in Records /\ row.line \subseteq TrustValues /\ row.by \in Processes

Idle == [pc |-> "idle", call |-> [kind |-> "none"]]

Init ==
    /\ rows = <<>>
    /\ events = <<>>
    /\ scorers = [p \in Processes |-> <<>>]
    /\ queue = [p \in Processes |-> <<>>]
    /\ task = [t \in Tasks |-> Idle]
    /\ setbacks = 0

Registered == DOMAIN rows

\* agent_id is the primary key: at most one row carries an id.
HoldersOf(id) == {n \in Registered : rows[n].rec.id = id}

\* trust_events.agent_id REFERENCES agent_records(agent_id)
Referenced(id) == \E i \in DOMAIN events : events[i].agent = id

(***************************************************************************)
(* Control                                                                 *)
(***************************************************************************)
At(t, pc) == task[t].pc = pc
Call(t) == task[t].call
Kind(t) == Call(t).kind
Mine(t) == scorers[ProcessOf[t]]
Lock(t) == queue[ProcessOf[t]]
HoldsLock(t) == Lock(t) # <<>> /\ Head(Lock(t)) = t
Enqueue(t) == queue' = [queue EXCEPT ![ProcessOf[t]] = Append(@, t)]
Goto(t, pc) == task' = [task EXCEPT ![t].pc = pc]
Return(t) == task' = [task EXCEPT ![t] = Idle]

\* Leaving "async with self._write_lock", by return or by exception.
ReturnUnlocked(t) ==
    /\ Return(t)
    /\ HoldsLock(t)
    /\ queue' = [queue EXCEPT ![ProcessOf[t]] = Tail(@)]

\* _sync_trust and _ensure_scorer, on the scorers of the task's process
Synced(t, n, record) ==
    IF n \in DOMAIN Mine(t)
    THEN [record EXCEPT !.trust = Value(Mine(t)[n], now)]
    ELSE record

ScorerFor(t, n, trust, ceiling) ==
    IF n \in DOMAIN Mine(t) THEN Mine(t)[n] ELSE NewScorer(trust, ceiling, now)

SetScorer(t, n, scorer) == [scorers EXCEPT ![ProcessOf[t]] = Put(@, n, scorer)]

(***************************************************************************)
(* Starting a call                                                         *)
(***************************************************************************)
WithinBounds(call) ==
    /\ NamesAnAgent(call) /\ call.name \in Registered =>
          rows[call.name].rec.revision < MaxRevision
    /\ IsTrustCall(call) => Len(events) < MaxEvents

\* The call goes for the write lock.
StartLocked(t, call) ==
    /\ At(t, "idle")
    /\ call.kind # "list_by_tier"
    /\ ~HasParentToResolve(call)
    /\ WithinBounds(call)
    /\ task' = [task EXCEPT ![t] =
           IF call.kind = "register"
           THEN [pc |-> "waiting", call |-> call, rec |-> RootRecord(call.request), line |-> {}]
           ELSE [pc |-> "waiting", call |-> call]]
    /\ Enqueue(t)
    /\ UNCHANGED <<rows, events, scorers, setbacks>>

\* register() of a child reads its parent's row before it takes the lock.
StartChild(t, call, p) ==
    /\ At(t, "idle")
    /\ HasParentToResolve(call)
    /\ p \in HoldersOf(call.request.parent)
    /\ task' = [task EXCEPT ![t] =
           [pc |-> "resolved", call |-> call, parent |-> p, row |-> rows[p]]]
    /\ UNCHANGED <<rows, events, scorers, queue, setbacks>>

\* Back from the read: the checks against the parent, then the lock.
QueueChild(t) ==
    /\ At(t, "resolved") /\ Kind(t) = "register"
    /\ LET r      == Call(t).request
           parent == Synced(t, task[t].parent, task[t].row.rec)
       IN  IF NarrowsGrants(parent, r.grants) /\ DepthAllowed(parent)
           THEN /\ task' = [task EXCEPT ![t] =
                       [pc |-> "waiting", call |-> Call(t),
                        rec |-> ChildRecord(r, parent),
                        line |-> task[t].row.line \cup {parent.trust}]]
                /\ Enqueue(t)
           ELSE Return(t) /\ UNCHANGED queue
    /\ UNCHANGED <<rows, events, scorers, setbacks>>

(***************************************************************************)
(* Under the lock                                                          *)
(***************************************************************************)
Row(t, rec, line) == [rec |-> rec, line |-> line, by |-> ProcessOf[t]]

\* The upsert resolves a conflict on the name only: it raises when another
\* name holds the id, and when it would take a row's id from its journal.
InsertRaises(r) ==
    \/ HoldersOf(r.id) \ {r.name} # {}
    \/ /\ r.name \in Registered
       /\ rows[r.name].rec.id # r.id
       /\ Referenced(rows[r.name].rec.id)

\* Faulty variant: the journal does not reference the agents.
InsertUnreferenced(t) ==
    /\ At(t, "waiting") /\ Kind(t) = "register" /\ HoldsLock(t)
    /\ LET r == Call(t).request
       IN  IF HoldersOf(r.id) \ {r.name} # {}
           THEN ReturnUnlocked(t) /\ UNCHANGED rows
           ELSE /\ rows' = Put(rows, r.name, Row(t, task[t].rec, task[t].line))
                /\ Goto(t, "written")
                /\ UNCHANGED queue
    /\ UNCHANGED <<events, scorers, setbacks>>

Insert(t) ==
    /\ At(t, "waiting") /\ Kind(t) = "register" /\ HoldsLock(t)
    /\ LET r == Call(t).request
       IN  IF InsertRaises(r)
           THEN ReturnUnlocked(t) /\ UNCHANGED rows
           ELSE /\ rows' = Put(rows, r.name, Row(t, task[t].rec, task[t].line))
                /\ Goto(t, "written")
                /\ UNCHANGED queue
    /\ UNCHANGED <<events, scorers, setbacks>>

SelectedBy(t) == [pc |-> "selected", call |-> Call(t),
                  rec |-> rows[Call(t).name].rec, line |-> rows[Call(t).name].line]

\* Faulty variant: the row is read without the lock.
SelectUnlocked(t) ==
    /\ At(t, "waiting") /\ Kind(t) # "register"
    /\ Call(t).name \in Registered
    /\ task' = [task EXCEPT ![t] = SelectedBy(t)]
    /\ UNCHANGED <<rows, events, scorers, queue, setbacks>>

\* Every other mutation reads the row first, and raises without one.
Select(t) ==
    /\ At(t, "waiting") /\ Kind(t) # "register" /\ HoldsLock(t)
    /\ IF Call(t).name \in Registered
       THEN task' = [task EXCEPT ![t] = SelectedBy(t)] /\ UNCHANGED queue
       ELSE ReturnUnlocked(t)
    /\ UNCHANGED <<rows, events, scorers, setbacks>>

\* The record of the row that was read, its trust as of the resumption.
OwnRecord(t) ==
    IF At(t, "selected") THEN Synced(t, Call(t).name, task[t].rec) ELSE task[t].rec

\* add_grant() to a child reads the parent's row, the lock held.
SelectParent(t) ==
    /\ At(t, "selected") /\ Kind(t) = "add_grant" /\ task[t].rec.parent # NoParent
    /\ IF HoldersOf(task[t].rec.parent) = {}
       THEN ReturnUnlocked(t)
       ELSE /\ UNCHANGED queue
            /\ \E p \in HoldersOf(task[t].rec.parent) :
                  task' = [task EXCEPT ![t] =
                      [pc |-> "resolved", call |-> Call(t), rec |-> OwnRecord(t),
                       line |-> task[t].line, row |-> rows[p]]]
    /\ UNCHANGED <<rows, events, scorers, setbacks>>

\* The grant that remove_grant() drops: the first one with the id.
Dropped(t) ==
    LET grants == task[t].rec.grants
    IN  {i \in DOMAIN grants : FirstWithItsId(grants, i) /\ grants[i].id = Call(t).id}

\* add_grant() beyond the parent's grants and remove_grant() of no grant raise.
Objects(t) ==
    \/ /\ At(t, "resolved") /\ Kind(t) = "add_grant"
       /\ ~NarrowsGrants(task[t].row.rec, <<Call(t).grant>>)
    \/ At(t, "selected") /\ Kind(t) = "remove_grant" /\ Dropped(t) = {}

\* Faulty variant: an exception leaves the lock held.
RefuseLocked(t) ==
    /\ Objects(t)
    /\ Return(t)
    /\ UNCHANGED <<rows, events, scorers, queue, setbacks>>

Refuse(t) ==
    /\ Objects(t)
    /\ ReturnUnlocked(t)
    /\ UNCHANGED <<rows, events, scorers, setbacks>>

\* A mutation that comes to its UPDATE.
ReadyToSave(t) ==
    /\ ~Objects(t)
    /\ \/ At(t, "selected") /\ Kind(t) # "deregister"
          /\ (Kind(t) = "add_grant" => task[t].rec.parent = NoParent)
       \/ At(t, "resolved") /\ Kind(t) = "add_grant"

\* A scorer that is missing is rebuilt without a ceiling.
OldScorer(t) == ScorerFor(t, Call(t).name, task[t].rec.trust, One)

\* What the mutation makes of the record it read.
Mutated(t) ==
    CASE Kind(t) = "add_grant"       -> WithGrant(OwnRecord(t), Call(t).grant)
      [] Kind(t) = "remove_grant"    -> WithoutGrant(OwnRecord(t), CHOOSE i \in Dropped(t) : TRUE)
      [] Kind(t) = "update_status"   -> [OwnRecord(t) EXCEPT !.status = Call(t).status]
      [] Kind(t) = "update_identity" -> [OwnRecord(t) EXCEPT !.key = Call(t).key]
      [] OTHER -> [task[t].rec EXCEPT !.trust = Value(Moved(Call(t), OldScorer(t), now), now)]

\* Faulty variant: _save is an upsert too.
SavedOrInserted(t, record) ==
    Put(rows, Call(t).name, Row(t, [record EXCEPT !.revision = record.revision + 1], task[t].line))

\* The UPDATE of _save: every column but the id, in the row that has the name.
Saved(t, record) ==
    LET n      == Call(t).name
        saving == [record EXCEPT !.id = rows[n].rec.id, !.revision = record.revision + 1]
    IN  IF n \in Registered
        THEN [rows EXCEPT ![n] = Row(t, saving, task[t].line)]
        ELSE rows

\* The scorer moves in memory, then the row with it.
MovedScorers(t) ==
    IF IsTrustCall(Call(t))
    THEN SetScorer(t, Call(t).name, Moved(Call(t), OldScorer(t), now))
    ELSE scorers

Save(t) ==
    /\ ReadyToSave(t)
    /\ rows' = Saved(t, Mutated(t))
    /\ scorers' = MovedScorers(t)
    /\ task' = [task EXCEPT ![t] =
           IF IsTrustCall(Call(t))
           THEN [pc |-> "written", call |-> Call(t),
                 entry |-> EntryFor(Call(t), task[t].rec.id, OldScorer(t), now)]
           ELSE [pc |-> "written", call |-> Call(t)]]
    /\ UNCHANGED <<events, queue, setbacks>>

\* The DELETE raises when the journal references the row that has the name.
Delete(t) ==
    /\ At(t, "selected") /\ Kind(t) = "deregister"
    /\ LET n == Call(t).name
       IN  IF n \in Registered /\ Referenced(rows[n].rec.id)
           THEN ReturnUnlocked(t) /\ UNCHANGED rows
           ELSE rows' = Drop(rows, n) /\ Goto(t, "written") /\ UNCHANGED queue
    /\ UNCHANGED <<events, scorers, setbacks>>

\* The INSERT raises when the id is gone from agent_records.
Journal(t) ==
    /\ At(t, "written") /\ IsTrustCall(Call(t))
    /\ IF HoldersOf(task[t].entry.agent) # {}
       THEN events' = Append(events, task[t].entry) /\ Goto(t, "recorded") /\ UNCHANGED queue
       ELSE ReturnUnlocked(t) /\ UNCHANGED events
    /\ UNCHANGED <<rows, scorers, setbacks>>

\* A name that is known keeps its scorer when it is registered again.
FinishedScorers(t) ==
    CASE Kind(t) = "register" ->
           LET r == Call(t).request
           IN  SetScorer(t, r.name, ScorerFor(t, r.name, task[t].rec.trust, task[t].rec.ceiling))
      [] Kind(t) = "deregister" ->
           [scorers EXCEPT ![ProcessOf[t]] = Drop(@, Call(t).name)]
      [] OTHER -> scorers

Finish(t) ==
    /\ \/ At(t, "written") /\ ~IsTrustCall(Call(t))
       \/ At(t, "recorded")
    /\ scorers' = FinishedScorers(t)
    /\ ReturnUnlocked(t)
    /\ UNCHANGED <<rows, events, setbacks>>

(***************************************************************************)
(* list_agents with a tier: trust is written to every row, without the     *)
(* lock.                                                                   *)
(***************************************************************************)
StartList(t, call) ==
    /\ At(t, "idle") /\ call.kind = "list_by_tier"
    /\ task' = [task EXCEPT ![t] = [pc |-> "syncing", call |-> call, seen |-> {},
                                    size |-> Cardinality(DOMAIN Mine(t))]]
    /\ UNCHANGED <<rows, events, scorers, queue, setbacks>>

SameSize(t) == Cardinality(DOMAIN Mine(t)) = task[t].size

SyncRow(t) ==
    /\ At(t, "syncing") /\ SameSize(t)
    /\ \E n \in DOMAIN Mine(t) \ task[t].seen :
          /\ rows' = IF n \in Registered
                     THEN [rows EXCEPT ![n].rec = Synced(t, n, rows[n].rec)] ELSE rows
          /\ task' = [task EXCEPT ![t].seen = @ \cup {n}]
    /\ UNCHANGED <<events, scorers, queue, setbacks>>

\* All rows are written, or the dictionary changed its size under the loop
\* and the call raises.
EndList(t) ==
    /\ At(t, "syncing")
    /\ ~SameSize(t) \/ DOMAIN Mine(t) \subseteq task[t].seen
    /\ Return(t)
    /\ UNCHANGED <<rows, events, scorers, queue, setbacks>>

(***************************************************************************)
(* The environment                                                         *)
(***************************************************************************)
\* A statement that writes fails; a scorer that moved stays moved.
StatementFails(t) ==
    /\ setbacks < MaxSetbacks
    /\ setbacks' = setbacks + 1
    /\ \/ At(t, "waiting") /\ Kind(t) = "register" /\ UNCHANGED scorers
       \/ At(t, "selected") /\ Kind(t) = "deregister" /\ UNCHANGED scorers
       \/ ReadyToSave(t) /\ scorers' = MovedScorers(t)
    /\ ReturnUnlocked(t)
    /\ UNCHANGED <<rows, events>>

\* The statement ran, but the connection broke before its answer came: the
\* call raises and what it would have done next is left undone.
AnswerLost(t) ==
    /\ setbacks < MaxSetbacks
    /\ setbacks' = setbacks + 1
    /\ At(t, "written")
    /\ ReturnUnlocked(t)
    /\ UNCHANGED <<rows, events, scorers>>

\* A process dies and comes up again; the database stays.
Restart(p) ==
    /\ setbacks < MaxSetbacks
    /\ setbacks' = setbacks + 1
    /\ scorers' = [scorers EXCEPT ![p] = <<>>]
    /\ queue' = [queue EXCEPT ![p] = <<>>]
    /\ task' = [t \in Tasks |-> IF ProcessOf[t] = p THEN Idle ELSE task[t]]
    /\ UNCHANGED <<rows, events>>

Start(t) ==
    \E call \in Calls[t] :
        \/ StartLocked(t, call)
        \/ StartList(t, call)
        \/ \E p \in Registered : StartChild(t, call, p)

Step(t) ==
    \/ QueueChild(t)
    \/ Insert(t)
    \/ Select(t)
    \/ SelectParent(t)
    \/ Refuse(t)
    \/ Save(t)
    \/ Delete(t)
    \/ Journal(t)
    \/ Finish(t)
    \/ SyncRow(t)
    \/ EndList(t)

Next ==
    \/ \E t \in Tasks : Start(t) \/ Step(t) \/ StatementFails(t) \/ AnswerLost(t)
    \/ \E p \in Processes : Restart(p)

Spec == Init /\ [][Next]_vars

(***************************************************************************)
(* Invariants                                                              *)
(***************************************************************************)
TaskStates == {"idle", "waiting", "selected", "resolved", "written", "recorded", "syncing"}

\* Every variable has its type, each process's lock queues its own tasks once.
TypeOK ==
    /\ Registered \subseteq Names
    /\ \A n \in Registered : IsRow(rows[n])
    /\ events \in Seq(JournalEntries)
    /\ \A p \in Processes :
          /\ DOMAIN scorers[p] \subseteq Names
          /\ \A n \in DOMAIN scorers[p] : scorers[p][n] \in Scorers
          /\ \A i \in DOMAIN queue[p] : ProcessOf[queue[p][i]] = p
          /\ \A i, j \in DOMAIN queue[p] : queue[p][i] = queue[p][j] => i = j
    /\ \A t \in Tasks : task[t].pc \in TaskStates
    /\ setbacks \in Nat

\* The ceiling in a row is at most the trust that every ancestor had when it
\* delegated, also in a row that one process saved over another's changes:
\* the ceiling it brings back is the one of the record it read.
CeilingBelowLineage ==
    \A n \in Registered : \A t \in rows[n].line : rows[n].rec.ceiling <= t

\* Every journal entry names an agent that is still there: deregister() of an
\* agent with a history raises, and so does its registration under a new id,
\* whichever process recorded the history and whenever.
JournalPinsRow ==
    \A i \in DOMAIN events : HoldersOf(events[i].agent) # {}

(***************************************************************************)
(* Action properties                                                       *)
(***************************************************************************)
ContentChanges(old, new) == {f \in {"grants", "status", "key"} : old[f] # new[f]}

\* new is old with at most one field of its content changed.
BuildsOn(old, new) ==
    \/ new.revision = old.revision /\ ContentChanges(old, new) = {}
    \/ /\ new.revision = old.revision + 1
       /\ Cardinality(ContentChanges(old, new)) <= 1

\* A process never overwrites its own last write with what it read before
\* it, whatever the other processes write, lose or crash in between.
OwnWritesNotLost ==
    [][\A n \in Registered \cap Registered' :
          rows[n].by = rows'[n].by =>
              \/ rows'[n].rec.revision = 1
              \/ BuildsOn(rows[n].rec, rows'[n].rec)]_vars

\* Only register() brings a row into being: a save that comes after another
\* process deregistered the agent does not bring it back.
OnlyRegisterCreates ==
    [][\A n \in Registered' \ Registered : rows'[n].rec.revision = 1]_vars

(***************************************************************************)
(* A claim of the documentation that the code does not meet                *)
(***************************************************************************)
\* The class docstring: SERIALIZABLE isolation for write consistency.  No
\* write takes back what another process wrote since the row was read.
WritesBuildOnTheLast ==
    [][\A n \in Registered \cap Registered' :
          \/ rows'[n].rec.revision = 1
          \/ BuildsOn(rows[n].rec, rows'[n].rec)]_vars
=============================================================================
