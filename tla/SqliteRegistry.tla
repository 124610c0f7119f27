--------------------------- MODULE SqliteRegistry ---------------------------
(***************************************************************************)
(* SqliteRegistry (presidium/registry/sqlite.py) from the moment its one   *)
(* connection is open.  Every await of a statement, a commit or the write  *)
(* lock suspends the calling asyncio task; between two of them a method    *)
(* runs undisturbed.  All tasks share the connection, hence its open       *)
(* transaction: each sees what the others wrote but did not commit, and a  *)
(* commit by one commits for all.                                          *)
(*                                                                         *)
(* One step is the code from a resumption to the next statement, and that  *)
(* statement: statements run in the order they are submitted, so nothing   *)
(* comes between the two.  The final re-read of a mutation changes nothing *)
(* and is folded into its return; lookups change nothing at all.           *)
(***************************************************************************)
EXTENDS RegistryCalls

Seqs == INSTANCE SequencesExt

CONSTANTS
    Tasks,         \* asyncio tasks that call the registry
    Calls,         \* the calls they make
    MaxHours,      \* bound on the clock
    MaxRevision,   \* bound on the revision a call starts from
    MaxEvents,     \* bound on the journal a call starts from
    MaxSetbacks    \* bound on crashes, cancelled calls, failed statements and commits

ASSUME SqliteRegistryAssumption ==
    /\ Calls \subseteq CallType
    /\ MaxHours \in Nat /\ MaxRevision \in Nat /\ MaxEvents \in Nat /\ MaxSetbacks \in Nat

VARIABLES
    conn,       \* the database as the connection sees it
    saved,      \* the database as of the last commit
    scorers,    \* _scorers: name -> scorer, in memory only
    queue,      \* _write_lock: its holder, then its waiters in FIFO order
    task,       \* where each task is in its call, with its local variables
    now,        \* the clock, in hours
    authority,  \* history: pairs ever given to an agent without a parent
    setbacks    \* history: crashes, cancelled calls, failed statements and commits so far

vars == <<conn, saved, scorers, queue, task, now, authority, setbacks>>

\* A row and, as history, the trust of each ancestor when it delegated.
Rows == [rec : Records, line : SUBSET TrustValues]

\* The two tables; moved counts, as history, the trust changes in the rows.
IsDatabase(d) ==
    /\ d = [rows |-> d.rows, events |-> d.events, moved |-> d.moved]
    /\ DOMAIN d.rows \subseteq Names
    /\ \A n \in DOMAIN d.rows : d.rows[n] \in Rows
    /\ d.events \in Seq(JournalEntries)
    /\ d.moved \in Nat

Idle == [pc |-> "idle", call |-> [kind |-> "none"]]

Init ==
    /\ conn = [rows |-> <<>>, events |-> <<>>, moved |-> 0]
    /\ saved = conn
    /\ scorers = <<>>
    /\ queue = <<>>
    /\ task = [t \in Tasks |-> Idle]
    /\ now = 0
    /\ authority = {}
    /\ setbacks = 0

rows == conn.rows
Registered == DOMAIN rows

\* agent_id is the primary key: at most one row carries an id.
HoldersOf(id) == {n \in Registered : rows[n].rec.id = id}

\* _sync_trust on a record read from n's row
Synced(n, record) ==
    IF n \in DOMAIN scorers
    THEN [record EXCEPT !.trust = Value(scorers[n], now)]
    ELSE record

\* _ensure_scorer
ScorerFor(n, trust, ceiling) ==
    IF n \in DOMAIN scorers THEN scorers[n] ELSE NewScorer(trust, ceiling, now)

(***************************************************************************)
(* Control                                                                 *)
(***************************************************************************)
At(t, pc) == task[t].pc = pc
Call(t) == task[t].call
Kind(t) == Call(t).kind
HoldsLock(t) == queue # <<>> /\ Head(queue) = t
Enqueue(t) == queue' = Append(queue, t)
Release(t) == HoldsLock(t) /\ queue' = Tail(queue)
Goto(t, pc) == task' = [task EXCEPT ![t].pc = pc]
Return(t) == task' = [task EXCEPT ![t] = Idle]

\* A task that is cancelled leaves the queue from wherever it stands in it.
LeaveQueue(t) ==
    \/ \E i \in DOMAIN queue : queue[i] = t /\ queue' = Seqs!RemoveAt(queue, i)
    \/ (\A i \in DOMAIN queue : queue[i] # t) /\ UNCHANGED queue

\* Leaving "async with self._write_lock", by return or by exception.
ReturnUnlocked(t) == Return(t) /\ Release(t)

(***************************************************************************)
(* Starting a call                                                         *)
(***************************************************************************)
WithinBounds(call) ==
    /\ NamesAnAgent(call) /\ call.name \in Registered =>
          rows[call.name].rec.revision < MaxRevision
    /\ IsTrustCall(call) => Len(conn.events) < MaxEvents

\* The call goes for the write lock.
StartLocked(t, call) ==
    /\ At(t, "idle")
    /\ call.kind # "list_by_tier"
    /\ ~HasParentToResolve(call)
    /\ WithinBounds(call)
    /\ task' = [task EXCEPT ![t] =
           IF call.kind = "register"
           THEN [pc |-> "waiting", call |-> call, rec |-> RootRecord(call.request), line |-> {}]
           ELSE [pc |-> "waiting", call |-> call]]
    /\ Enqueue(t)
    /\ UNCHANGED <<conn, saved, scorers, now, authority, setbacks>>

\* register() of a child reads its parent's row before it takes the lock.
StartChild(t, call, p) ==
    /\ At(t, "idle")
    /\ HasParentToResolve(call)
    /\ p \in HoldersOf(call.request.parent)
    /\ task' = [task EXCEPT ![t] =
           [pc |-> "resolved", call |-> call, parent |-> p, row |-> rows[p]]]
    /\ UNCHANGED <<conn, saved, scorers, queue, now, authority, setbacks>>

\* Back from the read: the checks against the parent, then the lock.
QueueChild(t) ==
    /\ At(t, "resolved") /\ Kind(t) = "register"
    /\ LET r      == Call(t).request
           parent == Synced(task[t].parent, task[t].row.rec)
       IN  IF NarrowsGrants(parent, r.grants) /\ DepthAllowed(parent)
           THEN /\ task' = [task EXCEPT ![t] =
                       [pc |-> "waiting", call |-> Call(t),
                        rec |-> ChildRecord(r, parent),
                        line |-> task[t].row.line \cup {parent.trust}]]
                /\ Enqueue(t)
           ELSE Return(t) /\ UNCHANGED queue
    /\ UNCHANGED <<conn, saved, scorers, now, authority, setbacks>>

(***************************************************************************)
(* Under the lock                                                          *)
(***************************************************************************)
\* INSERT OR REPLACE also deletes the row of another name with the same id.
Insert(t) ==
    /\ At(t, "waiting") /\ Kind(t) = "register" /\ HoldsLock(t)
    /\ LET r    == Call(t).request
           kept == Registered \ HoldersOf(r.id)
       IN  conn' = [conn EXCEPT !.rows =
               Put([n \in kept |-> rows[n]], r.name,
                   [rec |-> task[t].rec, line |-> task[t].line])]
    /\ authority' = IF Call(t).request.parent = NoParent
                    THEN authority \cup PairsOf(Call(t).request.grants)
                    ELSE authority
    /\ Goto(t, "written")
    /\ UNCHANGED <<saved, scorers, queue, now, setbacks>>

\* Faulty variant: the row is read without the lock.
SelectUnlocked(t) ==
    /\ At(t, "waiting") /\ Kind(t) # "register"
    /\ Call(t).name \in Registered
    /\ task' = [task EXCEPT ![t] =
           [pc |-> "selected", call |-> Call(t), rec |-> rows[Call(t).name].rec]]
    /\ UNCHANGED <<conn, saved, scorers, queue, now, authority, setbacks>>

\* Every other mutation reads the row first, and raises without one.
Select(t) ==
    /\ At(t, "waiting") /\ Kind(t) # "register" /\ HoldsLock(t)
    /\ IF Call(t).name \in Registered
       THEN /\ task' = [task EXCEPT ![t] =
                   [pc |-> "selected", call |-> Call(t), rec |-> rows[Call(t).name].rec]]
            /\ UNCHANGED queue
       ELSE ReturnUnlocked(t)
    /\ UNCHANGED <<conn, saved, scorers, now, authority, setbacks>>

\* The record of the row that was read, its trust as of the resumption.
OwnRecord(t) ==
    IF At(t, "selected") THEN Synced(Call(t).name, task[t].rec) ELSE task[t].rec

\* Faulty variant: the parent is read under the lock, which the task holds.
SelectParentLocking(t) ==
    /\ At(t, "selected") /\ Kind(t) = "add_grant" /\ task[t].rec.parent # NoParent
    /\ Enqueue(t)
    /\ Goto(t, "waiting")
    /\ UNCHANGED <<conn, saved, scorers, now, authority, setbacks>>

\* Faulty variant: a parent that is missing is waited for, the lock held.
SelectParentRetrying(t) ==
    /\ At(t, "selected") /\ Kind(t) = "add_grant" /\ task[t].rec.parent # NoParent
    /\ UNCHANGED queue
    /\ IF HoldersOf(task[t].rec.parent) = {}
       THEN task' = [task EXCEPT ![t] = [pc |-> "waiting", call |-> Call(t)]]
       ELSE \E p \in HoldersOf(task[t].rec.parent) :
               task' = [task EXCEPT ![t] =
                   [pc |-> "resolved", call |-> Call(t),
                    rec |-> OwnRecord(t), row |-> rows[p]]]
    /\ UNCHANGED <<conn, saved, scorers, now, authority, setbacks>>

\* add_grant() to a child reads the parent's row, the lock held.
SelectParent(t) ==
    /\ At(t, "selected") /\ Kind(t) = "add_grant" /\ task[t].rec.parent # NoParent
    /\ IF HoldersOf(task[t].rec.parent) = {}
       THEN ReturnUnlocked(t)
       ELSE /\ UNCHANGED queue
            /\ \E p \in HoldersOf(task[t].rec.parent) :
                  task' = [task EXCEPT ![t] =
                      [pc |-> "resolved", call |-> Call(t),
                       rec |-> OwnRecord(t), row |-> rows[p]]]
    /\ UNCHANGED <<conn, saved, scorers, now, authority, setbacks>>

\* The UPDATE of _save, which matches the row by name.
Updated(database, n, record) ==
    LET table  == database.rows
        saving == [record EXCEPT !.revision = @ + 1]
    IN  [database EXCEPT !.rows =
            IF n \in DOMAIN table THEN [table EXCEPT ![n].rec = saving] ELSE table]

Save(t, record) == conn' = Updated(conn, Call(t).name, record) /\ Goto(t, "written")

\* Faulty variant: the parent is read but not compared.
ReadyToGrantUnchecked(t) ==
    /\ Kind(t) = "add_grant"
    /\ \/ At(t, "selected") /\ task[t].rec.parent = NoParent
       \/ At(t, "resolved")

ReadyToGrant(t) ==
    /\ Kind(t) = "add_grant"
    /\ \/ At(t, "selected") /\ task[t].rec.parent = NoParent
       \/ At(t, "resolved") /\ NarrowsGrants(task[t].row.rec, <<Call(t).grant>>)

UpdateGrantAdded(t) ==
    /\ ReadyToGrant(t)
    /\ Save(t, WithGrant(OwnRecord(t), Call(t).grant))
    /\ authority' = IF task[t].rec.parent = NoParent
                    THEN authority \cup Call(t).grant.pairs
                    ELSE authority
    /\ UNCHANGED <<saved, scorers, queue, now, setbacks>>

RefuseGrant(t) ==
    /\ Kind(t) = "add_grant" /\ At(t, "resolved")
    /\ ~NarrowsGrants(task[t].row.rec, <<Call(t).grant>>)
    /\ ReturnUnlocked(t)
    /\ UNCHANGED <<conn, saved, scorers, now, authority, setbacks>>

\* remove_grant() drops the first grant with the id, and raises without one.
UpdateGrantRemoved(t) ==
    /\ At(t, "selected") /\ Kind(t) = "remove_grant"
    /\ LET grants == task[t].rec.grants
           hits   == {i \in DOMAIN grants : FirstWithItsId(grants, i) /\ grants[i].id = Call(t).id}
       IN  IF hits = {}
           THEN ReturnUnlocked(t) /\ UNCHANGED conn
           ELSE /\ \E i \in hits :
                      Save(t, WithoutGrant(OwnRecord(t), i))
                /\ UNCHANGED queue
    /\ UNCHANGED <<saved, scorers, now, authority, setbacks>>

UpdateStatusOrIdentity(t) ==
    /\ At(t, "selected")
    /\ \/ /\ Kind(t) = "update_status"
          /\ Save(t, [OwnRecord(t) EXCEPT !.status = Call(t).status])
       \/ /\ Kind(t) = "update_identity"
          /\ Save(t, [OwnRecord(t) EXCEPT !.key = Call(t).key])
    /\ UNCHANGED <<saved, scorers, queue, now, authority, setbacks>>

\* A scorer that is missing is rebuilt without a ceiling.
OldScorer(t) == ScorerFor(Call(t).name, task[t].rec.trust, One)

NewScorerOf(t) == Moved(Call(t), OldScorer(t), now)

Entry(t) == EntryFor(Call(t), task[t].rec.id, OldScorer(t), now)

\* record_trust_event() and set_trust(): the scorer moves in memory, then
\* the row with it.
UpdateTrust(t) ==
    /\ At(t, "selected") /\ IsTrustCall(Call(t))
    /\ scorers' = Put(scorers, Call(t).name, NewScorerOf(t))
    /\ conn' = Updated([conn EXCEPT !.moved = @ + 1], Call(t).name,
                       [task[t].rec EXCEPT !.trust = Value(NewScorerOf(t), now)])
    /\ task' = [task EXCEPT ![t] =
           [pc |-> "written", call |-> Call(t), entry |-> Entry(t)]]
    /\ UNCHANGED <<saved, queue, now, authority, setbacks>>

Delete(t) ==
    /\ At(t, "selected") /\ Kind(t) = "deregister"
    /\ conn' = [conn EXCEPT !.rows = Drop(@, Call(t).name)]
    /\ Goto(t, "written")
    /\ UNCHANGED <<saved, scorers, queue, now, authority, setbacks>>

\* Faulty variant: left for a later commit.
CommitLater(t) ==
    /\ At(t, "written")
    /\ Goto(t, "committed")
    /\ UNCHANGED <<conn, saved, scorers, queue, now, authority, setbacks>>

Commit(t) ==
    /\ At(t, "written")
    /\ saved' = conn
    /\ Goto(t, "committed")
    /\ UNCHANGED <<conn, scorers, queue, now, authority, setbacks>>

\* Faulty variant: an override is not journaled.
JournalEventsOnly(t) ==
    /\ At(t, "committed") /\ IsTrustCall(Call(t))
    /\ IF Kind(t) = "set_trust" THEN UNCHANGED conn
       ELSE conn' = [conn EXCEPT !.events = Append(@, task[t].entry)]
    /\ Goto(t, "journaled")
    /\ UNCHANGED <<saved, scorers, queue, now, authority, setbacks>>

\* The journal entry has a transaction of its own.
Journal(t) ==
    /\ At(t, "committed") /\ IsTrustCall(Call(t))
    /\ conn' = [conn EXCEPT !.events = Append(@, task[t].entry)]
    /\ Goto(t, "journaled")
    /\ UNCHANGED <<saved, scorers, queue, now, authority, setbacks>>

CommitJournal(t) ==
    /\ At(t, "journaled")
    /\ saved' = conn
    /\ Goto(t, "recorded")
    /\ UNCHANGED <<conn, scorers, queue, now, authority, setbacks>>

\* What a failure does to the open transaction: it stays as it is, for a
\* later commit, or SQLite rolls all of it back (a full disk, an I/O error).
KeepOrRollBack == conn' \in {conn, saved}

Setback == setbacks < MaxSetbacks /\ setbacks' = setbacks + 1

\* A statement under the lock that writes may fail (another process has the
\* file locked): the call raises, and a scorer that moved stays moved.
StatementFails(t) ==
    /\ Setback
    /\ \/ At(t, "waiting") /\ Kind(t) = "register"
       \/ At(t, "selected") /\ Kind(t) # "add_grant"
       \/ ReadyToGrant(t)
       \/ At(t, "committed") /\ IsTrustCall(Call(t))
    /\ scorers' = IF At(t, "selected") /\ IsTrustCall(Call(t))
                  THEN Put(scorers, Call(t).name, NewScorerOf(t))
                  ELSE scorers
    /\ KeepOrRollBack
    /\ ReturnUnlocked(t)
    /\ UNCHANGED <<saved, now, authority>>

\* So may a commit: the call raises with its statement done.
CommitFails(t) ==
    /\ Setback
    /\ At(t, "written") \/ At(t, "journaled")
    /\ KeepOrRollBack
    /\ ReturnUnlocked(t)
    /\ UNCHANGED <<saved, scorers, now, authority>>

\* The task is cancelled at the await where it is.  The statement it waits
\* for is done all the same, and nothing takes back what it wrote; the lock,
\* or the place in its queue, is given up.  A SELECT that raises, and a
\* statement or commit of list_agents that does, end their call the same way.
Cancel(t) ==
    /\ Setback
    /\ ~At(t, "idle")
    /\ Return(t)
    /\ LeaveQueue(t)
    /\ UNCHANGED <<conn, saved, scorers, now, authority>>

\* A name that is known keeps its scorer when it is registered again.
Finish(t) ==
    /\ \/ At(t, "committed") /\ ~IsTrustCall(Call(t))
       \/ At(t, "recorded")
    /\ scorers' = CASE Kind(t) = "register" ->
                         LET n == Call(t).request.name
                         IN  Put(scorers, n, ScorerFor(n, task[t].rec.trust, task[t].rec.ceiling))
                    [] Kind(t) = "deregister" -> Drop(scorers, Call(t).name)
                    [] OTHER -> scorers
    /\ ReturnUnlocked(t)
    /\ UNCHANGED <<conn, saved, now, authority, setbacks>>

(***************************************************************************)
(* list_agents with a tier: trust is written to every row, without the     *)
(* lock.                                                                   *)
(***************************************************************************)
StartList(t, call) ==
    /\ At(t, "idle") /\ call.kind = "list_by_tier"
    /\ task' = [task EXCEPT ![t] = [pc |-> "syncing", call |-> call, seen |-> {},
                                    size |-> Cardinality(DOMAIN scorers)]]
    /\ UNCHANGED <<conn, saved, scorers, queue, now, authority, setbacks>>

SameSize(t) == Cardinality(DOMAIN scorers) = task[t].size

SyncRow(t) ==
    /\ At(t, "syncing") /\ SameSize(t)
    /\ \E n \in DOMAIN scorers \ task[t].seen :
          /\ conn' = [conn EXCEPT !.rows =
                 IF n \in Registered THEN [rows EXCEPT ![n].rec = Synced(n, rows[n].rec)]
                 ELSE rows]
          /\ task' = [task EXCEPT ![t].seen = @ \cup {n}]
    /\ UNCHANGED <<saved, scorers, queue, now, authority, setbacks>>

\* "dictionary changed size during iteration": the call raises, what it wrote
\* stays in the open transaction.
SyncRaises(t) ==
    /\ At(t, "syncing") /\ ~SameSize(t)
    /\ Return(t)
    /\ UNCHANGED <<conn, saved, scorers, queue, now, authority, setbacks>>

FinishList(t) ==
    /\ At(t, "syncing") /\ SameSize(t) /\ DOMAIN scorers \subseteq task[t].seen
    /\ saved' = conn
    /\ Return(t)
    /\ UNCHANGED <<conn, scorers, queue, now, authority, setbacks>>

(***************************************************************************)
(* The environment                                                         *)
(***************************************************************************)
Tick ==
    /\ now < MaxHours
    /\ now' = now + 1
    /\ UNCHANGED <<conn, saved, scorers, queue, task, authority, setbacks>>

\* The process dies and comes up again on the same file.
Restart ==
    /\ Setback
    /\ conn' = saved
    /\ scorers' = <<>>
    /\ queue' = <<>>
    /\ task' = [t \in Tasks |-> Idle]
    /\ UNCHANGED <<saved, now, authority>>

Start(t) ==
    \E call \in Calls :
        \/ StartLocked(t, call)
        \/ StartList(t, call)
        \/ \E p \in Registered : StartChild(t, call, p)

Step(t) ==
    \/ QueueChild(t)
    \/ Insert(t)
    \/ Select(t)
    \/ SelectParent(t)
    \/ UpdateGrantAdded(t)
    \/ RefuseGrant(t)
    \/ UpdateGrantRemoved(t)
    \/ UpdateStatusOrIdentity(t)
    \/ UpdateTrust(t)
    \/ Delete(t)
    \/ Commit(t)
    \/ Journal(t)
    \/ CommitJournal(t)
    \/ Finish(t)
    \/ SyncRow(t)
    \/ SyncRaises(t)
    \/ FinishList(t)

Next ==
    \/ \E t \in Tasks : Start(t) \/ Step(t)
    \/ \E t \in Tasks : StatementFails(t) \/ CommitFails(t) \/ Cancel(t)
    \/ Tick
    \/ Restart

\* asyncio resumes every task whose statement or lock has come through.
Fairness == \A t \in Tasks : WF_vars(Step(t))

Spec == Init /\ [][Next]_vars /\ Fairness

(***************************************************************************)
(* Invariants                                                              *)
(***************************************************************************)
TaskStates ==
    {"idle", "waiting", "selected", "resolved", "written", "committed",
     "journaled", "recorded", "syncing"}

\* Every variable has its type, the lock's queue holds each task once.
TypeOK ==
    /\ IsDatabase(conn) /\ IsDatabase(saved)
    /\ DOMAIN scorers \subseteq Names
    /\ \A n \in DOMAIN scorers : scorers[n] \in Scorers
    /\ queue \in Seq(Tasks)
    /\ \A i, j \in DOMAIN queue : queue[i] = queue[j] => i = j
    /\ DOMAIN task = Tasks
    /\ \A t \in Tasks : task[t].pc \in TaskStates
    /\ now \in Nat
    /\ authority \in SUBSET Pairs
    /\ setbacks \in Nat

\* A call that has done its last commit leaves nothing in the transaction
\* the tasks share: all that it and the calls before it wrote survives a crash
\* (grants, status, key, rows, journal; not the trust that list_agents
\* refreshes).  Neither does any call that is over, refused and listing calls
\* included, until the first is cancelled or fails between its statement and
\* its commit, which leaves the row in the transaction and the lock free.
Content(database) ==
    [n \in DOMAIN database.rows |-> [database.rows[n].rec EXCEPT !.trust = 0]]

ReturnedIsSaved ==
    (queue = <<>> /\ setbacks = 0) \/ (\E t \in Tasks : At(t, "committed") \/ At(t, "recorded"))
        => Content(conn) = Content(saved) /\ conn.events = saved.events

\* The ceiling in a row is at most the trust that every ancestor had when it
\* delegated, whatever ran between the read of the parent and the insert, and
\* on both sides of a crash.
CeilingBelowLineage ==
    \A database \in {conn, saved} : \A n \in DOMAIN database.rows :
        \A t \in database.rows[n].line : database.rows[n].rec.ceiling <= t

\* Delegation creates no authority, even when the parent's row was read
\* before others changed it.
AuthorityFromRoots ==
    \A database \in {conn, saved} : \A n \in DOMAIN database.rows :
        PairsOf(database.rows[n].rec.grants) \subseteq authority

\* The trust in a row and the journal are saved by two transactions.  The
\* journal never runs ahead, and each crash, cancelled call, failed statement
\* or failed commit costs it at most one entry; one more may be under way.
JournalMissesOnlySetbacks ==
    saved.moved - Len(saved.events) \in 0 .. setbacks + 1

(***************************************************************************)
(* Action properties                                                       *)
(***************************************************************************)
\* Neither a crash nor a rollback, which take the connection's view back to
\* what was saved.
NoSetback == UNCHANGED setbacks

\* No call overwrites what another wrote: a row that is not inserted anew
\* changes by one field of its content at a time, and its revision by one.
WritesBuildOnTheLast ==
    [][NoSetback => \A n \in Registered \cap Registered' :
          LET old == rows[n].rec
              new == rows'[n].rec
              changed == {f \in {"grants", "status", "key"} : old[f] # new[f]}
          IN  \/ new.revision = 1
              \/ new.revision = old.revision /\ changed = {}
              \/ /\ new.revision = old.revision + 1
                 /\ Cardinality(changed) <= 1
                 /\ Len(new.grants) - Len(old.grants) \in -1 .. 1]_vars

Held(n) == IF n \in Registered THEN PairsOf(rows[n].rec.grants) ELSE {}

\* What n gains in this step is held right now by the agent it names as parent.
GainsFromParent(n) ==
    LET new == rows'[n].rec
    IN  PairsOf(new.grants) \ Held(n) \subseteq UNION {Held(p) : p \in HoldersOf(new.parent)}

\* add_grant() to a child: at the moment of the write the parent still holds
\* what is given, for the lock covers the read of the parent and the write.
AddGrantHasNoWindow ==
    [][NoSetback => \A n \in Registered' :
          rows'[n].rec.parent # NoParent /\ rows'[n].rec.revision > 1 => GainsFromParent(n)]_vars

(***************************************************************************)
(* Liveness                                                                *)
(***************************************************************************)
\* Every call returns or raises: the lock is never left held and no two
\* calls wait for each other.
EveryCallReturns == \A t \in Tasks : ~At(t, "idle") ~> At(t, "idle")

(***************************************************************************)
(* Claims of the documentation that the code does not meet                 *)
(***************************************************************************)
\* CHANGELOG.md: a delegated child cannot end up with more grants than its
\* parent, enforced inside register() and add_grant() of every backend.
DelegationHasNoWindow ==
    [][NoSetback => \A n \in Registered' :
          rows'[n].rec.parent # NoParent => GainsFromParent(n)]_vars

\* CHANGELOG.md: the ceiling is a hard boundary, respected even by set_trust.
CeilingIsHard ==
    \A n \in Registered : rows[n].rec.trust <= rows[n].rec.ceiling
=============================================================================
