----------------------------- MODULE PostgresProofs -----------------------------
(***************************************************************************)
(* PostgresRegistry, for every value of the constants: any number of       *)
(* processes, tasks, agents and calls, and any number of crashes, failed   *)
(* statements and lost answers.                                            *)
(***************************************************************************)
EXTENDS PostgresRegistry, LineageProofs

-----------------------------------------------------------------------------
(* What a task keeps in its local variables, by where it is in its call.   *)

Rows == [rec : Records, line : SUBSET TrustValues, by : Processes]

Registrations == {call \in CallType : call.kind = "register"}
Mutations == {call \in CallType : NamesAnAgent(call)}
TrustMutations == {call \in Mutations : IsTrustCall(call)}
GrantMutations == {call \in Mutations : call.kind = "add_grant"}

\* register() of a child, its parent's row read
ResolvedTasks == [pc : {"resolved"}, call : Registrations, parent : Names, row : Rows]

\* register() from the moment it has the record to insert
RegisteringTasks == [pc : {"waiting", "written"}, call : Registrations,
                     rec : Records, line : SUBSET TrustValues]

\* every other mutation: before it has the lock, from its read on, and once
\* its UPDATE is made
WaitingTasks == [pc : {"waiting"}, call : Mutations]

SelectedTasks == [pc : {"selected", "written"}, call : Mutations,
                  rec : Records, line : SUBSET TrustValues]

GrantingTasks == [pc : {"resolved"}, call : GrantMutations, rec : Records,
                  line : SUBSET TrustValues, row : Rows]

SavedTasks == [pc : {"written"}, call : Mutations]

JournalingTasks == [pc : {"written", "recorded"}, call : TrustMutations,
                    entry : JournalEntries]

IsListing(k) == k = [pc |-> "syncing", call |-> k.call, seen |-> k.seen, size |-> k.size]

\* A trust call that has written is the one with a journal entry to come.
IsTask(k) ==
    \/ k = Idle
    \/ k \in ResolvedTasks \cup RegisteringTasks \cup WaitingTasks
    \/ k \in SelectedTasks /\ (k.pc = "written" => ~IsTrustCall(k.call))
    \/ k \in SavedTasks /\ ~IsTrustCall(k.call)
    \/ k \in GrantingTasks \cup JournalingTasks
    \/ IsListing(k)

-----------------------------------------------------------------------------
(* The inductive invariant                                                 *)

IsScorers(table) ==
    /\ DOMAIN table \subseteq Names
    /\ \A n \in DOMAIN table : table[n] \in Scorers /\ table[n].signal <= now

\* TypeOK, with the task's locals, and no scorer ahead of the clock.
Types ==
    /\ Registered \subseteq Names
    /\ \A n \in Registered : rows[n] \in Rows
    /\ events \in Seq(JournalEntries)
    /\ DOMAIN scorers = Processes
    /\ \A p \in Processes : IsScorers(scorers[p])
    /\ DOMAIN task = Tasks
    /\ \A t \in Tasks : IsTask(task[t])
    /\ setbacks \in Nat

\* A task that read a row under its process's lock and has not written yet.
Reading(k) ==
    \/ k.pc = "selected"
    \/ k.pc = "resolved" /\ k.call.kind = "add_grant"

\* A task with the lock, once it has run under it, and one that has not asked
\* for it.
Inside(k) == Reading(k) \/ k.pc \in {"written", "recorded"}

Outside(k) ==
    \/ k.pc \in {"idle", "syncing"}
    \/ k.pc = "resolved" /\ k.call.kind = "register"

IsLock(p, waiters) ==
    /\ waiters \in Seq(Tasks)
    /\ \A i \in DOMAIN waiters : ProcessOf[waiters[i]] = p
    /\ \A i, j \in DOMAIN waiters : waiters[i] = waiters[j] => i = j

Locks ==
    /\ DOMAIN queue = Processes
    /\ \A p \in Processes : IsLock(p, queue[p])
    /\ \A t \in Tasks : Inside(task[t]) => HoldsLock(t)
    /\ \A t \in Tasks : Outside(task[t]) => \A i \in DOMAIN Lock(t) : Lock(t)[i] # t

\* A ceiling is below the trust of every ancestor when it delegated: in the
\* table, and in whatever a task has read of it or is about to write to it.
IsBounded(rec, line) == \A v \in line : rec.ceiling <= v

IsSoundTask(k) ==
    /\ k \in ResolvedTasks => IsBounded(k.row.rec, k.row.line)
    /\ k \in RegisteringTasks =>
          k.rec.revision = 1 /\ k.rec.id = k.call.request.id /\ IsBounded(k.rec, k.line)
    /\ Reading(k) => IsBounded(k.rec, k.line)

Sound ==
    /\ \A n \in Registered : IsBounded(rows[n].rec, rows[n].line)
    /\ \A t \in Tasks : IsSoundTask(task[t])

\* What a task read under the lock is what the table still holds, unless
\* another process has written the row since.
IsCurrent(k, p, table) ==
    Reading(k) /\ k.call.name \in DOMAIN table /\ table[k.call.name].by = p
        => Alike(table[k.call.name].rec, k.rec)

ReadsAreCurrent == \A t \in Tasks : IsCurrent(task[t], ProcessOf[t], rows)

IInv == Types /\ Locks /\ Sound /\ ReadsAreCurrent /\ JournalPinsRow

-----------------------------------------------------------------------------
(* Calls, tasks, records and scorers                                       *)

LEMMA CallFacts ==
    ASSUME NEW c \in CallType
    PROVE  /\ c.kind = "register" => c.request \in RequestType
           /\ NamesAnAgent(c) => c.name \in Names
           /\ c.kind = "add_grant" => c.grant \in Grants
           /\ c.kind = "trust_event" => c.event \in TrustEvents
           /\ c.kind = "set_trust" => c.value \in TrustValues
           /\ c.kind = "update_status" => c.status \in Statuses
           /\ c.kind = "update_identity" => c.key \in Keys
           /\ c.kind = "list_by_tier" \/ c \in Registrations \/ c \in Mutations
           /\ c.kind \in {"register", "deregister", "add_grant", "remove_grant", "trust_event",
                          "set_trust", "update_status", "update_identity", "list_by_tier"}
BY DEF CallType, NamesAnAgent, Registrations, Mutations

LEMMA CallsTyped ==
    ASSUME NEW t \in Tasks, NEW call \in Calls[t]
    PROVE  call \in CallType
BY PostgresRegistryAssumption

LEMMA ItsProcess == ASSUME NEW t \in Tasks PROVE ProcessOf[t] \in Processes
BY PostgresRegistryAssumption

\* The shape of a task follows from where it is.
LEMMA TaskShape ==
    ASSUME NEW k, IsTask(k)
    PROVE  /\ k.pc = "waiting" /\ k.call.kind = "register" => k \in RegisteringTasks
           /\ k.pc = "waiting" /\ k.call.kind # "register" => k \in WaitingTasks
           /\ k.pc = "selected" => k \in SelectedTasks
           /\ k.pc = "resolved" /\ k.call.kind = "register" => k \in ResolvedTasks
           /\ k.pc = "resolved" /\ k.call.kind = "add_grant" => k \in GrantingTasks
           /\ k.pc = "written" /\ k.call.kind = "register" => k \in RegisteringTasks
           /\ k.pc \in {"written", "recorded"} /\ IsTrustCall(k.call) => k \in JournalingTasks
           /\ k.pc = "recorded" => k \in JournalingTasks
           /\ k.pc = "written" => k.call \in CallType
           /\ k.pc = "syncing" => IsListing(k)
           /\ k.pc \in TaskStates
           /\ k \in RegisteringTasks => k.call.kind = "register"
           /\ k \in RegisteringTasks => k.pc \in {"waiting", "written"}
           /\ k \in ResolvedTasks => k.pc = "resolved" /\ k.call.kind = "register"
<1> USE DEF Idle, ResolvedTasks, RegisteringTasks, WaitingTasks, SelectedTasks, SavedTasks,
            GrantingTasks, JournalingTasks, IsListing, TaskStates,
            Registrations, Mutations, GrantMutations, TrustMutations, NamesAnAgent, IsTrustCall
<1>1. CASE k = Idle BY <1>1
<1>2. CASE k \in ResolvedTasks BY <1>2
<1>3. CASE k \in RegisteringTasks BY <1>3
<1>4. CASE k \in WaitingTasks BY <1>4
<1>5. CASE k \in SelectedTasks /\ (k.pc = "written" => ~IsTrustCall(k.call)) BY <1>5
<1>6. CASE k \in SavedTasks /\ ~IsTrustCall(k.call) BY <1>6
<1>7. CASE k \in GrantingTasks BY <1>7
<1>8. CASE k \in JournalingTasks BY <1>8
<1>9. CASE IsListing(k) BY <1>9
<1>10. QED BY <1>1, <1>2, <1>3, <1>4, <1>5, <1>6, <1>7, <1>8, <1>9 DEF IsTask

LEMMA NowIsNat == now \in Nat
BY DEF now

\* Refreshing the trust of a record leaves its content alone.
LEMMA SyncedFacts ==
    ASSUME Types, NEW t \in Tasks, NEW n, NEW record \in Records
    PROVE  /\ Synced(t, n, record) \in Records
           /\ Alike(Synced(t, n, record), record)
<1>1. CASE n \in DOMAIN Mine(t)
  <2>1. Mine(t)[n] \in Scorers /\ Mine(t)[n].signal <= now
    BY <1>1, ItsProcess DEF Types, IsScorers, Mine
  <2>2. Value(Mine(t)[n], now) \in TrustValues BY <2>1, NowIsNat, ValueBounds
  <2>3. Synced(t, n, record) = [record EXCEPT !.trust = Value(Mine(t)[n], now)]
    BY <1>1 DEF Synced
  <2>4. QED BY <2>2, <2>3 DEF Records, Alike
<1>2. CASE n \notin DOMAIN Mine(t) BY <1>2 DEF Synced, Alike
<1>3. QED BY <1>1, <1>2

\* The scorer a call finds or makes, and the one it leaves.
LEMMA ScorerFacts ==
    ASSUME Types, NEW t \in Tasks, NEW n, NEW trust \in TrustValues, NEW ceiling \in TrustValues
    PROVE  /\ ScorerFor(t, n, trust, ceiling) \in Scorers
           /\ ScorerFor(t, n, trust, ceiling).signal <= now
<1>1. CASE n \in DOMAIN Mine(t)
  BY <1>1, ItsProcess DEF Types, IsScorers, Mine, ScorerFor
<1>2. CASE n \notin DOMAIN Mine(t)
  BY <1>2, NowIsNat, NewScorerType DEF ScorerFor
<1>3. QED BY <1>1, <1>2

LEMMA MovedFacts ==
    ASSUME NEW t \in Nat, NEW c \in TrustMutations, NEW s \in Scorers, s.signal <= t
    PROVE  Moved(c, s, t) \in Scorers /\ Moved(c, s, t).signal <= t
<1>1. c \in CallType /\ c.kind \in {"trust_event", "set_trust"}
  BY DEF TrustMutations, Mutations, IsTrustCall
<1>2. CASE c.kind = "set_trust"
  BY <1>1, <1>2, CallFacts, SetValueType DEF Moved
<1>3. CASE c.kind = "trust_event"
  BY <1>1, <1>3, CallFacts, RecordEventType DEF Moved
<1>4. QED BY <1>1, <1>2, <1>3

LEMMA EntryFacts ==
    ASSUME NEW t \in Nat, NEW c \in TrustMutations, NEW id \in Ids,
           NEW s \in Scorers, s.signal <= t
    PROVE  EntryFor(c, id, s, t) \in JournalEntries
<1>1. c \in CallType /\ c.kind \in {"trust_event", "set_trust"}
  BY DEF TrustMutations, Mutations, IsTrustCall
<1>2. (IF c.kind = "set_trust" THEN "human_override" ELSE c.event) \in TrustEvents
  BY <1>1, CallFacts DEF TrustEvents
<1>3. Value(s, t) \in TrustValues /\ Value(Moved(c, s, t), t) \in TrustValues
  BY MovedFacts, ValueBounds
<1>4. QED BY <1>2, <1>3 DEF EntryFor, JournalEntries

\* The scorers of every process, once the one of t has a new scorer for n, or
\* none.
AreScorers(tables) ==
    DOMAIN tables = Processes /\ \A p \in Processes : IsScorers(tables[p])

LEMMA PutScorer ==
    ASSUME Types, NEW t \in Tasks, NEW n \in Names, NEW s \in Scorers, s.signal <= now
    PROVE  AreScorers(SetScorer(t, n, s))
<1> DEFINE after == Put(Mine(t), n, s)
<1>1. IsScorers(Mine(t)) BY ItsProcess DEF Types, Mine
<1>2. IsScorers(after) BY <1>1 DEF Put, IsScorers
<1>3. SetScorer(t, n, s) = [scorers EXCEPT ![ProcessOf[t]] = after]
  BY DEF SetScorer, Mine
<1> HIDE DEF after
<1>4. QED BY <1>2, <1>3 DEF Types, AreScorers

-----------------------------------------------------------------------------
(* The locks                                                               *)

\* Two tasks of a process are never both past its lock.
LEMMA Alone ==
    ASSUME Locks, NEW t \in Tasks, NEW u \in Tasks, ProcessOf[u] = ProcessOf[t],
           HoldsLock(t), Inside(task[u])
    PROVE  t = u
BY DEF Locks, HoldsLock, Lock

\* A step that leaves the locks alone.
LEMMA LockStays ==
    ASSUME Types, Locks, NEW t \in Tasks, NEW k, task' = [task EXCEPT ![t] = k],
           UNCHANGED queue,
           Inside(k) => HoldsLock(t), Outside(k) => Outside(task[t])
    PROVE  Locks'
BY DEF Types, Locks, HoldsLock, Lock

Waits(u, waiters) == \E i \in DOMAIN waiters : waiters[i] = u

LEMMA QueuedFacts ==
    ASSUME NEW p, NEW waiters, IsLock(p, waiters), NEW t \in Tasks, ProcessOf[t] = p,
           ~Waits(t, waiters)
    PROVE  /\ IsLock(p, Append(waiters, t))
           /\ waiters # <<>> =>
                 Append(waiters, t) # <<>> /\ Head(Append(waiters, t)) = Head(waiters)
           /\ \A u : u # t /\ ~Waits(u, waiters) => ~Waits(u, Append(waiters, t))
<1> DEFINE longer == Append(waiters, t)
<1>1. waiters \in Seq(Tasks) /\ Len(waiters) \in Nat /\ DOMAIN waiters = 1 .. Len(waiters)
  BY DEF IsLock
<1>2. /\ longer \in Seq(Tasks) /\ DOMAIN longer = 1 .. Len(waiters) + 1
      /\ \A i \in DOMAIN waiters : longer[i] = waiters[i]
      /\ longer[Len(waiters) + 1] = t
      /\ waiters # <<>> => longer # <<>> /\ Head(longer) = Head(waiters)
  BY <1>1
<1>3. DOMAIN longer = DOMAIN waiters \cup {Len(waiters) + 1}
  BY <1>1, <1>2
<1> HIDE DEF longer
<1>4. \A i, j \in DOMAIN longer : longer[i] = longer[j] => i = j
  BY <1>2, <1>3 DEF IsLock, Waits
<1>5. \A i \in DOMAIN longer : ProcessOf[longer[i]] = p
  BY <1>2, <1>3 DEF IsLock
<1>6. \A u : u # t /\ ~Waits(u, waiters) => ~Waits(u, longer)
  BY <1>2, <1>3 DEF Waits
<1>7. IsLock(p, longer) BY <1>2, <1>4, <1>5 DEF IsLock
<1>8. QED BY <1>2, <1>6, <1>7 DEF longer

LEMMA ReleasedFacts ==
    ASSUME NEW p, NEW waiters, IsLock(p, waiters), waiters # <<>>
    PROVE  /\ IsLock(p, Tail(waiters))
           /\ ~Waits(Head(waiters), Tail(waiters))
           /\ \A u : ~Waits(u, waiters) => ~Waits(u, Tail(waiters))
<1> DEFINE rest == Tail(waiters)
<1>1. /\ waiters \in Seq(Tasks) /\ Len(waiters) \in Nat /\ Len(waiters) >= 1
      /\ DOMAIN waiters = 1 .. Len(waiters) /\ Head(waiters) = waiters[1]
  BY DEF IsLock
<1>2. /\ rest \in Seq(Tasks) /\ DOMAIN rest = 1 .. Len(waiters) - 1
      /\ \A i \in DOMAIN rest : i + 1 \in DOMAIN waiters /\ rest[i] = waiters[i + 1]
  BY <1>1
<1> HIDE DEF rest
<1>3. \A i, j \in DOMAIN rest : rest[i] = rest[j] => i = j
  <2> SUFFICES ASSUME NEW i \in DOMAIN rest, NEW j \in DOMAIN rest, rest[i] = rest[j]
               PROVE  i = j
    OBVIOUS
  <2>1. i + 1 = j + 1 BY <1>2 DEF IsLock
  <2>2. i \in Nat /\ j \in Nat BY <1>1, <1>2
  <2>3. QED BY <2>1, <2>2
<1>4. ~Waits(Head(waiters), rest)
  <2> SUFFICES ASSUME NEW i \in DOMAIN rest, rest[i] = Head(waiters) PROVE FALSE
    BY DEF Waits
  <2>1. i + 1 \in DOMAIN waiters /\ 1 \in DOMAIN waiters /\ waiters[i + 1] = waiters[1]
    BY <1>1, <1>2
  <2>2. i + 1 = 1 BY <2>1 DEF IsLock
  <2>3. i \in 1 .. Len(waiters) - 1 BY <1>2
  <2>4. QED BY <1>1, <2>2, <2>3
<1>5. \A u : ~Waits(u, waiters) => ~Waits(u, rest) BY <1>2 DEF Waits
<1>6. IsLock(p, rest) BY <1>2, <1>3 DEF IsLock
<1>7. QED BY <1>4, <1>5, <1>6 DEF rest

\* A task asks for its process's lock.
LEMMA LockQueued ==
    ASSUME Types, Locks, NEW t \in Tasks, NEW k, task' = [task EXCEPT ![t] = k],
           Enqueue(t), Outside(task[t]), k.pc = "waiting"
    PROVE  Locks'
<1> DEFINE p == ProcessOf[t]
           longer == Append(queue[p], t)
<1>1. p \in Processes BY ItsProcess
<1>2. queue' = [queue EXCEPT ![p] = longer] BY DEF Enqueue
<1>3. ~Waits(t, queue[p]) BY DEF Locks, Lock, Waits
<1>4. /\ IsLock(p, longer)
      /\ queue[p] # <<>> => longer # <<>> /\ Head(longer) = Head(queue[p])
      /\ \A u : u # t /\ ~Waits(u, queue[p]) => ~Waits(u, longer)
  BY <1>1, <1>3, QueuedFacts DEF Locks
<1> HIDE DEF longer
<1>5. /\ DOMAIN queue' = Processes /\ queue'[p] = longer
      /\ \A q \in Processes \ {p} : queue'[q] = queue[q]
  BY <1>1, <1>2 DEF Locks
<1> HIDE DEF p
<1>6. \A q \in Processes : IsLock(q, queue'[q]) BY <1>4, <1>5 DEF Locks
<1>7. ~Inside(k) /\ ~Outside(k) BY DEF Inside, Outside, Reading
<1>8. ASSUME NEW u \in Tasks, Inside(task'[u]) PROVE HoldsLock(u)'
  <2>1. u # t /\ task'[u] = task[u] BY <1>7, <1>8 DEF Types
  <2>2. HoldsLock(u) BY <1>8, <2>1 DEF Locks
  <2>3. queue[ProcessOf[u]] # <<>> /\ Head(queue[ProcessOf[u]]) = u
    BY <2>2 DEF HoldsLock, Lock
  <2>4. queue'[ProcessOf[u]] # <<>> /\ Head(queue'[ProcessOf[u]]) = u
    BY <1>4, <1>5, <2>3, ItsProcess
  <2>5. QED BY <2>4 DEF HoldsLock, Lock
<1>9. ASSUME NEW u \in Tasks, Outside(task'[u]) PROVE ~Waits(u, queue'[ProcessOf[u]])
  <2>1. u # t /\ task'[u] = task[u] BY <1>7, <1>9 DEF Types
  <2>2. ~Waits(u, queue[ProcessOf[u]]) BY <1>9, <2>1 DEF Locks, Lock, Waits
  <2>3. QED BY <1>4, <1>5, <2>1, <2>2, ItsProcess
<1>10. QED BY <1>5, <1>6, <1>8, <1>9 DEF Locks, Lock, Waits

\* A task leaves its lock to the next in the queue.
LEMMA LockReleased ==
    ASSUME Types, Locks, NEW t \in Tasks, ReturnUnlocked(t)
    PROVE  Locks'
<1> DEFINE p == ProcessOf[t]
           rest == Tail(queue[p])
<1>1. p \in Processes BY ItsProcess
<1>2. /\ queue' = [queue EXCEPT ![p] = rest] /\ task' = [task EXCEPT ![t] = Idle]
      /\ queue[p] # <<>> /\ Head(queue[p]) = t /\ HoldsLock(t)
  BY DEF ReturnUnlocked, Return, HoldsLock, Lock
<1>3. /\ IsLock(p, rest) /\ ~Waits(t, rest)
      /\ \A u : ~Waits(u, queue[p]) => ~Waits(u, rest)
  BY <1>1, <1>2, ReleasedFacts DEF Locks
<1> HIDE DEF rest
<1>4. /\ DOMAIN queue' = Processes /\ queue'[p] = rest
      /\ \A q \in Processes \ {p} : queue'[q] = queue[q]
  BY <1>1, <1>2 DEF Locks
<1>5. \A q \in Processes : IsLock(q, queue'[q]) BY <1>3, <1>4 DEF Locks
<1>6. ~Inside(Idle) BY DEF Inside, Reading, Idle
<1>7. ASSUME NEW u \in Tasks, Inside(task'[u]) PROVE HoldsLock(u)'
  <2>1. u # t /\ task'[u] = task[u] BY <1>2, <1>6, <1>7 DEF Types
  <2>2. ProcessOf[u] # p BY <1>2, <1>7, <2>1, Alone
  <2>3. HoldsLock(u) BY <1>7, <2>1 DEF Locks
  <2>4. queue'[ProcessOf[u]] = queue[ProcessOf[u]] BY <1>4, <2>2, ItsProcess
  <2>5. QED BY <2>3, <2>4 DEF HoldsLock, Lock
<1>8. ASSUME NEW u \in Tasks, Outside(task'[u]) PROVE ~Waits(u, queue'[ProcessOf[u]])
  <2>1. CASE u = t BY <1>3, <1>4, <2>1
  <2>2. CASE u # t
    <3>1. task'[u] = task[u] BY <1>2, <2>2 DEF Types
    <3>2. ~Waits(u, queue[ProcessOf[u]]) BY <1>8, <3>1 DEF Locks, Lock, Waits
    <3>3. QED BY <1>3, <1>4, <3>2, ItsProcess
  <2>3. QED BY <2>1, <2>2
<1>9. QED BY <1>4, <1>5, <1>7, <1>8 DEF Locks, Lock, Waits

-----------------------------------------------------------------------------
(* What a step does                                                        *)

\* A row as the invariant has it, and an agent's entries in the journal.
IsSoundTable(table) ==
    \A n \in DOMAIN table : n \in Names /\ table[n] \in Rows /\ IsBounded(table[n].rec, table[n].line)

\* A step of t.  Of a row that stays it changes the trust at most, or writes
\* it in the name of its process, which it does with the lock held.
LEMMA Writes ==
    ASSUME IInv, NEW t \in Tasks, NEW k, task' = [task EXCEPT ![t] = k],
           IsTask(k), IsSoundTask(k), IsCurrent(k, ProcessOf[t], rows'),
           setbacks' \in Nat, Locks', AreScorers(scorers'),
           IsSoundTable(rows'), events' \in Seq(JournalEntries), JournalPinsRow',
           \A m \in DOMAIN rows' :
              \/ m \in DOMAIN rows /\ rows'[m].by = rows[m].by /\ Alike(rows'[m].rec, rows[m].rec)
              \/ HoldsLock(t) /\ rows'[m].by = ProcessOf[t]
    PROVE  IInv'
<1>1. task'[t] = k /\ \A u \in Tasks \ {t} : task'[u] = task[u]
  BY DEF IInv, Types
<1>2. Types'
  BY <1>1 DEF IInv, Types, AreScorers, IsSoundTable, Registered
<1>3. Sound' BY <1>1 DEF IInv, Sound, IsSoundTable, Registered
<1>4. ReadsAreCurrent'
  <2>1. ASSUME NEW u \in Tasks \ {t} PROVE IsCurrent(task[u], ProcessOf[u], rows')
    <3> DEFINE n == task[u].call.name
    <3>1. SUFFICES ASSUME Reading(task[u]), n \in DOMAIN rows', rows'[n].by = ProcessOf[u]
                   PROVE  Alike(rows'[n].rec, task[u].rec)
      BY DEF IsCurrent
    <3>2. Inside(task[u]) BY <3>1 DEF Inside
    <3>3. ~(HoldsLock(t) /\ rows'[n].by = ProcessOf[t])
      BY <2>1, <3>1, <3>2, Alone DEF IInv
    <3>4. n \in DOMAIN rows /\ rows'[n].by = rows[n].by /\ Alike(rows'[n].rec, rows[n].rec)
      BY <3>1, <3>3
    <3>5. Alike(rows[n].rec, task[u].rec)
      BY <3>1, <3>4 DEF IInv, ReadsAreCurrent, IsCurrent
    <3>6. QED BY <3>4, <3>5 DEF Alike
  <2>2. QED BY <1>1, <2>1 DEF ReadsAreCurrent
<1>5. QED BY <1>2, <1>3, <1>4 DEF IInv

\* A step of t that leaves the database alone.
LEMMA WritesNothing ==
    ASSUME IInv, NEW t \in Tasks, NEW k, task' = [task EXCEPT ![t] = k],
           IsTask(k), IsSoundTask(k), IsCurrent(k, ProcessOf[t], rows),
           setbacks' \in Nat, UNCHANGED <<rows, events>>, Locks', AreScorers(scorers')
    PROVE  IInv'
<1>1. IsSoundTable(rows)
  BY DEF IInv, Types, Sound, IsSoundTable, Registered
<1>2. \A m \in DOMAIN rows : Alike(rows[m].rec, rows[m].rec) BY DEF Alike
<1>3. events' \in Seq(JournalEntries) BY DEF IInv, Types
<1>4. JournalPinsRow' BY DEF IInv, JournalPinsRow, HoldersOf, Registered
<1>5. QED BY <1>1, <1>2, <1>3, <1>4, Writes

LEMMA ScorersStay == ASSUME IInv, UNCHANGED scorers PROVE AreScorers(scorers')
BY DEF IInv, Types, AreScorers

\* A task that is done, with the lock or without.
LEMMA IdleFacts ==
    /\ IsTask(Idle) /\ ~Reading(Idle) /\ ~Inside(Idle) /\ IsSoundTask(Idle)
    /\ \A p, table : IsCurrent(Idle, p, table)
<1>1. IsTask(Idle) /\ ~Reading(Idle) /\ ~Inside(Idle) /\ Idle.pc = "idle"
  BY DEF Idle, IsTask, Reading, Inside
<1>2. Idle \notin RegisteringTasks /\ Idle \notin ResolvedTasks
  BY <1>1, TaskShape
<1>3. QED BY <1>1, <1>2 DEF IsSoundTask, IsCurrent

LEMMA ReturnsUnlocked ==
    ASSUME IInv, NEW t \in Tasks, ReturnUnlocked(t), UNCHANGED <<rows, events>>,
           setbacks' \in Nat, AreScorers(scorers')
    PROVE  IInv'
<1>1. task' = [task EXCEPT ![t] = Idle] BY DEF ReturnUnlocked, Return
<1>2. Locks' BY LockReleased DEF IInv
<1>3. QED BY <1>1, <1>2, IdleFacts, WritesNothing

LEMMA ReturnsFromOutside ==
    ASSUME IInv, NEW t \in Tasks, Return(t), Outside(task[t]),
           UNCHANGED <<rows, events, scorers, queue, setbacks>>
    PROVE  IInv'
<1>1. task' = [task EXCEPT ![t] = Idle] BY DEF Return
<1>2. Locks' BY <1>1, IdleFacts, LockStays DEF IInv
<1>3. AreScorers(scorers') BY ScorersStay
<1>4. setbacks' \in Nat BY DEF IInv, Types
<1>5. QED BY <1>1, <1>2, <1>3, <1>4, IdleFacts, WritesNothing

-----------------------------------------------------------------------------
(* The steps that write nothing                                            *)

LEMMA StartLockedKeeps ==
    ASSUME IInv, NEW t \in Tasks, NEW call \in Calls[t], StartLocked(t, call)
    PROVE  IInv'
<1> DEFINE k == IF call.kind = "register"
                THEN [pc |-> "waiting", call |-> call,
                      rec |-> RootRecord(call.request), line |-> {}]
                ELSE [pc |-> "waiting", call |-> call]
<1>1. /\ task' = [task EXCEPT ![t] = k] /\ Enqueue(t) /\ At(t, "idle")
      /\ UNCHANGED <<rows, events, scorers, setbacks>>
      /\ call.kind # "list_by_tier" /\ ~HasParentToResolve(call) /\ call \in CallType
  BY CallsTyped DEF StartLocked
<1>2. k.pc = "waiting" /\ k.call = call OBVIOUS
<1>3. ~Reading(k) BY <1>2 DEF Reading
<1>4. IsTask(k) /\ IsSoundTask(k)
  <2>1. CASE call.kind = "register"
    <3>1. /\ call \in Registrations /\ call.request \in RequestType
          /\ call.request.parent = NoParent
      BY <1>1, <2>1, CallFacts DEF Registrations, HasParentToResolve
    <3>2. /\ RootRecord(call.request) \in Records /\ RootRecord(call.request).revision = 1
          /\ RootRecord(call.request).id = call.request.id
      BY <3>1, RootType, LineageAssumption DEF RootRecord, NewRecord
    <3>3. k = [pc |-> "waiting", call |-> call, rec |-> RootRecord(call.request), line |-> {}]
      BY <2>1
    <3>4. k \in RegisteringTasks BY <3>1, <3>2, <3>3 DEF RegisteringTasks
    <3>5. IsTask(k) BY <3>4 DEF IsTask
    <3>6. QED BY <1>3, <3>2, <3>3, <3>5, TaskShape DEF IsSoundTask, IsBounded
  <2>2. CASE call.kind # "register"
    <3>1. call \in Mutations BY <1>1, <2>2, CallFacts DEF Registrations
    <3>2. k \in WaitingTasks BY <2>2, <3>1 DEF WaitingTasks
    <3>3. IsTask(k) BY <3>2 DEF IsTask
    <3>4. k \notin RegisteringTasks /\ k \notin ResolvedTasks
      BY <1>2, <2>2, <3>3, TaskShape
    <3>5. QED BY <1>3, <3>3, <3>4 DEF IsSoundTask
  <2>3. QED BY <2>1, <2>2
<1> HIDE DEF k
<1>5. IsCurrent(k, ProcessOf[t], rows) BY <1>3 DEF IsCurrent
<1>6. Outside(task[t]) BY <1>1 DEF At, Outside
<1>7. Locks' BY <1>1, <1>2, <1>6, LockQueued DEF IInv
<1>8. AreScorers(scorers') BY <1>1, ScorersStay
<1>9. setbacks' \in Nat BY <1>1 DEF IInv, Types
<1>10. QED BY <1>1, <1>4, <1>5, <1>7, <1>8, <1>9, WritesNothing

LEMMA StartChildKeeps ==
    ASSUME IInv, NEW t \in Tasks, NEW call \in Calls[t], NEW p \in Registered,
           StartChild(t, call, p)
    PROVE  IInv'
<1> DEFINE k == [pc |-> "resolved", call |-> call, parent |-> p, row |-> rows[p]]
<1>1. /\ task' = [task EXCEPT ![t] = k] /\ At(t, "idle")
      /\ UNCHANGED <<rows, events, scorers, queue, setbacks>>
      /\ call.kind = "register" /\ call \in CallType
  BY CallsTyped DEF StartChild, HasParentToResolve
<1>2. k.pc = "resolved" /\ k.call = call /\ k.row = rows[p] OBVIOUS
<1>3. rows[p] \in Rows /\ p \in Names /\ IsBounded(rows[p].rec, rows[p].line)
  BY DEF IInv, Types, Sound
<1>4. k \in ResolvedTasks BY <1>1, <1>3 DEF ResolvedTasks, Registrations
<1> HIDE DEF k
<1>5. IsTask(k) BY <1>4 DEF IsTask
<1>6. ~Reading(k) /\ ~Inside(k) BY <1>1, <1>2 DEF Reading, Inside
<1>7. IsSoundTask(k) BY <1>2, <1>3, <1>5, <1>6, TaskShape DEF IsSoundTask
<1>8. IsCurrent(k, ProcessOf[t], rows) BY <1>6 DEF IsCurrent
<1>9. Outside(task[t]) BY <1>1 DEF At, Outside
<1>10. Locks' BY <1>1, <1>6, <1>9, LockStays DEF IInv
<1>11. AreScorers(scorers') BY <1>1, ScorersStay
<1>12. setbacks' \in Nat BY <1>1 DEF IInv, Types
<1>13. QED BY <1>1, <1>5, <1>7, <1>8, <1>10, <1>11, <1>12, WritesNothing

\* The child's ceiling is below the trust its parent has now and below the
\* ceiling, hence the lineage, of the row that was read.
LEMMA QueueChildKeeps ==
    ASSUME IInv, NEW t \in Tasks, QueueChild(t)
    PROVE  IInv'
<1> DEFINE r == Call(t).request
           row == task[t].row
           parent == Synced(t, task[t].parent, row.rec)
           L == row.line \cup {parent.trust}
           k == [pc |-> "waiting", call |-> Call(t), rec |-> ChildRecord(r, parent), line |-> L]
<1>1. /\ task[t] \in ResolvedTasks /\ IsBounded(row.rec, row.line)
      /\ UNCHANGED <<rows, events, scorers, setbacks>>
      /\ At(t, "resolved") /\ Kind(t) = "register"
  <2>1. At(t, "resolved") /\ Kind(t) = "register" BY DEF QueueChild
  <2>2. task[t] \in ResolvedTasks
    BY <2>1, TaskShape DEF IInv, Types, At, Kind, Call
  <2>3. IsBounded(row.rec, row.line) BY <2>2 DEF IInv, Sound, IsSoundTask
  <2>4. QED BY <2>1, <2>2, <2>3 DEF QueueChild
<1>2. /\ Call(t) \in Registrations /\ r \in RequestType
      /\ row.rec \in Records /\ row.line \subseteq TrustValues
  BY <1>1, CallFacts DEF ResolvedTasks, Registrations, Rows, Call
<1>3. parent \in Records /\ Alike(parent, row.rec) BY <1>2, SyncedFacts DEF IInv
<1>4. \/ task' = [task EXCEPT ![t] = k] /\ Enqueue(t)
      \/ Return(t) /\ UNCHANGED queue
  BY DEF QueueChild
<1>5. Outside(task[t]) BY <1>1 DEF Outside, At, Kind, Call
<1>6. CASE Return(t) /\ UNCHANGED queue BY <1>1, <1>5, <1>6, ReturnsFromOutside
<1>7. ASSUME task' = [task EXCEPT ![t] = k], Enqueue(t)
      PROVE  IInv'
  <2>1. k.pc = "waiting" /\ k.call = Call(t) /\ k.rec = ChildRecord(r, parent) /\ k.line = L
    OBVIOUS
  <2> HIDE DEF parent
  <2>2. /\ ChildRecord(r, parent) \in Records
        /\ ChildRecord(r, parent).ceiling <= parent.ceiling
        /\ ChildRecord(r, parent).ceiling <= parent.trust
        /\ ChildRecord(r, parent).ceiling \in TrustValues
    BY <1>2, <1>3, ChildBounded, LineageAssumption
  <2>3. ChildRecord(r, parent).revision = 1 /\ ChildRecord(r, parent).id = r.id
    BY DEF ChildRecord, NewRecord
  <2>4. parent.trust \in TrustValues /\ parent.ceiling \in TrustValues
        /\ parent.ceiling = row.rec.ceiling
    BY <1>3 DEF Records, Alike
  <2>5. L \subseteq TrustValues BY <1>2, <2>4
  <2>6. \A v \in L : ChildRecord(r, parent).ceiling <= v
    <3> SUFFICES ASSUME NEW v \in L PROVE ChildRecord(r, parent).ceiling <= v OBVIOUS
    <3>1. CASE v = parent.trust BY <2>2, <3>1
    <3>2. CASE v \in row.line
      <4>1. parent.ceiling <= v BY <1>1, <2>4, <3>2 DEF IsBounded
      <4>2. QED BY <2>2, <2>4, <2>5, <4>1, TrustAssumption DEF TrustValues
    <3>3. QED BY <3>1, <3>2
  <2>7. k \in RegisteringTasks
    BY <1>2, <2>2, <2>5 DEF RegisteringTasks
  <2>8. IsTask(k) BY <2>7 DEF IsTask
  <2> HIDE DEF k, L
  <2>9. ~Reading(k) BY <2>1 DEF Reading
  <2>10. IsSoundTask(k)
    <3>1. k \notin ResolvedTasks BY <2>1, <2>8, TaskShape
    <3>2. QED BY <2>1, <2>3, <2>6, <2>9, <3>1 DEF IsSoundTask, IsBounded
  <2>11. IsCurrent(k, ProcessOf[t], rows) BY <2>9 DEF IsCurrent
  <2>12. Locks' BY <1>5, <1>7, <2>1, LockQueued DEF IInv
  <2>13. AreScorers(scorers') BY <1>1, ScorersStay
  <2>14. setbacks' \in Nat BY <1>1 DEF IInv, Types
  <2>15. QED BY <1>1, <1>7, <2>8, <2>10, <2>11, <2>12, <2>13, <2>14, WritesNothing
<1>8. QED BY <1>4, <1>6, <1>7

LEMMA SelectKeeps ==
    ASSUME IInv, NEW t \in Tasks, Select(t)
    PROVE  IInv'
<1> DEFINE n == Call(t).name
           k == [pc |-> "selected", call |-> Call(t), rec |-> rows[n].rec, line |-> rows[n].line]
<1>1. /\ At(t, "waiting") /\ Kind(t) # "register" /\ HoldsLock(t)
      /\ UNCHANGED <<rows, events, scorers, setbacks>>
  BY DEF Select
<1>2. AreScorers(scorers') /\ setbacks' \in Nat
  BY <1>1, ScorersStay DEF IInv, Types
<1>3. Call(t) \in Mutations
  <2>1. task[t] \in WaitingTasks BY <1>1, TaskShape DEF IInv, Types, At, Kind, Call
  <2>2. QED BY <2>1 DEF WaitingTasks, Call
<1>4. CASE n \notin Registered
  BY <1>1, <1>2, <1>4, ReturnsUnlocked DEF Select
<1>5. CASE n \in Registered
  <2>1. task' = [task EXCEPT ![t] = k] /\ UNCHANGED queue BY <1>5 DEF Select, SelectedBy
  <2>2. rows[n].rec \in Records /\ rows[n].line \subseteq TrustValues
    BY <1>5 DEF IInv, Types, Rows
  <2>3. IsBounded(rows[n].rec, rows[n].line) BY <1>5 DEF IInv, Sound
  <2>4. k \in SelectedTasks BY <1>3, <2>2 DEF SelectedTasks
  <2>5. /\ k.pc = "selected" /\ k.call = Call(t)
        /\ k.rec = rows[n].rec /\ k.line = rows[n].line
    OBVIOUS
  <2>6. IsTask(k) BY <2>4, <2>5 DEF IsTask
  <2>7. IsCurrent(k, ProcessOf[t], rows)
    BY <2>5 DEF IsCurrent, Alike
  <2> HIDE DEF k
  <2>8. IsSoundTask(k)
    <3>1. k \notin RegisteringTasks /\ k \notin ResolvedTasks BY <2>5, <2>6, TaskShape
    <3>2. QED BY <2>3, <2>5, <3>1 DEF IsSoundTask
  <2>9. ~Outside(k) BY <2>5 DEF Outside
  <2>10. Locks' BY <1>1, <2>1, <2>9, LockStays DEF IInv
  <2>11. QED BY <1>1, <1>2, <2>1, <2>6, <2>7, <2>8, <2>10, WritesNothing
<1>6. QED BY <1>4, <1>5

\* The record a task read, and that record with its trust refreshed.
LEMMA OwnFacts ==
    ASSUME IInv, NEW t \in Tasks, Reading(task[t])
    PROVE  /\ task[t].rec \in Records /\ Call(t) \in Mutations
           /\ task[t].line \subseteq TrustValues
           /\ IsBounded(task[t].rec, task[t].line)
           /\ OwnRecord(t) \in Records
           /\ Alike(OwnRecord(t), task[t].rec)
           /\ HoldsLock(t) /\ ~Outside(task[t])
           /\ At(t, "selected") => task[t] \in SelectedTasks
           /\ At(t, "resolved") => task[t] \in GrantingTasks
<1>1. IsTask(task[t]) BY DEF IInv, Types
<1>2. HoldsLock(t) BY DEF IInv, Locks, Inside
<1>3. IsBounded(task[t].rec, task[t].line) /\ ~Outside(task[t])
  BY DEF IInv, Sound, IsSoundTask, Outside, Reading
<1>4. CASE At(t, "selected")
  <2>1. task[t] \in SelectedTasks BY <1>1, <1>4, TaskShape DEF At
  <2>2. /\ task[t].rec \in Records /\ Call(t) \in Mutations
        /\ task[t].line \subseteq TrustValues
    BY <2>1 DEF SelectedTasks, Call
  <2>3. QED BY <1>2, <1>3, <1>4, <2>1, <2>2, SyncedFacts DEF IInv, OwnRecord, At
<1>5. CASE At(t, "resolved") /\ Kind(t) = "add_grant"
  <2>1. task[t] \in GrantingTasks BY <1>1, <1>5, TaskShape DEF At, Kind, Call
  <2>2. /\ task[t].rec \in Records /\ Call(t) \in Mutations
        /\ task[t].line \subseteq TrustValues
    BY <2>1 DEF GrantingTasks, GrantMutations, Mutations, Call
  <2>3. QED BY <1>2, <1>3, <1>5, <2>1, <2>2 DEF OwnRecord, At, Alike
<1>6. QED BY <1>4, <1>5 DEF Reading, At, Kind, Call

LEMMA SelectParentKeeps ==
    ASSUME IInv, NEW t \in Tasks, SelectParent(t)
    PROVE  IInv'
<1>1. /\ At(t, "selected") /\ Kind(t) = "add_grant"
      /\ UNCHANGED <<rows, events, scorers, setbacks>>
  BY DEF SelectParent
<1>2. Reading(task[t]) BY <1>1 DEF At, Reading
<1>3. AreScorers(scorers') /\ setbacks' \in Nat
  BY <1>1, ScorersStay DEF IInv, Types
<1>4. /\ OwnRecord(t) \in Records /\ Alike(OwnRecord(t), task[t].rec)
      /\ Call(t) \in Mutations /\ HoldsLock(t)
      /\ task[t].line \subseteq TrustValues /\ IsBounded(task[t].rec, task[t].line)
  BY <1>2, OwnFacts
<1>5. CASE HoldersOf(task[t].rec.parent) = {}
  BY <1>1, <1>3, <1>5, ReturnsUnlocked DEF SelectParent
<1>6. CASE HoldersOf(task[t].rec.parent) # {}
  <2>1. PICK p \in HoldersOf(task[t].rec.parent) :
            task' = [task EXCEPT ![t] = [pc |-> "resolved", call |-> Call(t),
                                         rec |-> OwnRecord(t), line |-> task[t].line,
                                         row |-> rows[p]]]
    BY <1>6 DEF SelectParent
  <2> DEFINE k == [pc |-> "resolved", call |-> Call(t), rec |-> OwnRecord(t),
                   line |-> task[t].line, row |-> rows[p]]
  <2>2. UNCHANGED queue BY <1>6 DEF SelectParent
  <2>3. rows[p] \in Rows BY <2>1 DEF HoldersOf, IInv, Types
  <2>4. k \in GrantingTasks
    BY <1>1, <1>4, <2>3 DEF GrantingTasks, GrantMutations, Kind
  <2>5. /\ k.pc = "resolved" /\ k.call = Call(t) /\ k.rec = OwnRecord(t)
        /\ k.line = task[t].line
    OBVIOUS
  <2>6. task' = [task EXCEPT ![t] = k] BY <2>1
  <2> HIDE DEF k
  <2>7. IsTask(k) BY <2>4 DEF IsTask
  <2>8. IsCurrent(k, ProcessOf[t], rows)
    <3>1. IsCurrent(task[t], ProcessOf[t], rows) BY DEF IInv, ReadsAreCurrent
    <3>2. QED BY <1>2, <1>4, <2>5, <3>1 DEF IsCurrent, Alike, Call
  <2>9. IsSoundTask(k)
    <3>1. k \notin RegisteringTasks /\ k \notin ResolvedTasks
      BY <1>1, <2>5, <2>7, TaskShape DEF Kind
    <3>2. k.rec.ceiling = task[t].rec.ceiling BY <1>4, <2>5 DEF Alike
    <3>3. QED BY <1>4, <2>5, <3>1, <3>2 DEF IsSoundTask, IsBounded
  <2>10. ~Outside(k) BY <1>1, <2>5 DEF Outside, Kind
  <2>11. Locks' BY <1>4, <2>2, <2>6, <2>10, LockStays DEF IInv
  <2>12. QED BY <1>1, <1>3, <2>6, <2>7, <2>8, <2>9, <2>11, WritesNothing
<1>7. QED BY <1>5, <1>6

LEMMA RefuseKeeps ==
    ASSUME IInv, NEW t \in Tasks, Refuse(t)
    PROVE  IInv'
<1>1. AreScorers(scorers') /\ setbacks' \in Nat
  BY ScorersStay DEF Refuse, IInv, Types
<1>2. QED BY <1>1, ReturnsUnlocked DEF Refuse

LEMMA StartListKeeps ==
    ASSUME IInv, NEW t \in Tasks, NEW call \in Calls[t], StartList(t, call)
    PROVE  IInv'
<1> DEFINE k == [pc |-> "syncing", call |-> call, seen |-> {},
                 size |-> Cardinality(DOMAIN Mine(t))]
<1>1. /\ task' = [task EXCEPT ![t] = k] /\ At(t, "idle")
      /\ UNCHANGED <<rows, events, scorers, queue, setbacks>>
  BY DEF StartList
<1>2. k.pc = "syncing" /\ IsListing(k) BY DEF IsListing
<1> HIDE DEF k
<1>3. IsTask(k) BY <1>2 DEF IsTask
<1>4. ~Reading(k) /\ ~Inside(k) BY <1>2 DEF Reading, Inside
<1>5. IsSoundTask(k) /\ IsCurrent(k, ProcessOf[t], rows)
  <2>1. k \notin RegisteringTasks /\ k \notin ResolvedTasks BY <1>2, <1>3, TaskShape
  <2>2. QED BY <1>4, <2>1 DEF IsSoundTask, IsCurrent
<1>6. Outside(task[t]) BY <1>1 DEF At, Outside
<1>7. Locks' BY <1>1, <1>4, <1>6, LockStays DEF IInv
<1>8. AreScorers(scorers') BY <1>1, ScorersStay
<1>9. setbacks' \in Nat BY <1>1 DEF IInv, Types
<1>10. QED BY <1>1, <1>3, <1>5, <1>7, <1>8, <1>9, WritesNothing

LEMMA EndListKeeps ==
    ASSUME IInv, NEW t \in Tasks, EndList(t)
    PROVE  IInv'
<1>1. Outside(task[t]) BY DEF EndList, At, Outside
<1>2. QED BY <1>1, ReturnsFromOutside DEF EndList

-----------------------------------------------------------------------------
(* The steps that write                                                    *)

MutatedRow(n) ==
    /\ rows'[n].rec.revision = rows[n].rec.revision + 1
    /\ \E f \in ContentFields :
          \A g \in ContentFields \ {f} : rows'[n].rec[g] = rows[n].rec[g]

\* The rows after a step: inserted anew, or there before; then a row that
\* its own process wrote again has the content it had, or one mutation more.
MovesRight ==
    \A n \in DOMAIN rows' :
        \/ rows'[n].rec.revision = 1
        \/ /\ n \in DOMAIN rows
           /\ rows'[n].by = rows[n].by => Alike(rows'[n].rec, rows[n].rec) \/ MutatedRow(n)

LEMMA NoChange == ASSUME UNCHANGED rows PROVE MovesRight
BY DEF MovesRight, Alike

\* Rows that the journal references stay, and keep their ids.
LEMMA PinsKept ==
    ASSUME JournalPinsRow, UNCHANGED events,
           \A m \in DOMAIN rows : Referenced(rows[m].rec.id) =>
              m \in DOMAIN rows' /\ rows'[m].rec.id = rows[m].rec.id
    PROVE  JournalPinsRow'
<1> SUFFICES ASSUME NEW i \in DOMAIN events PROVE HoldersOf(events[i].agent)' # {}
  BY DEF JournalPinsRow
<1>1. PICK m \in DOMAIN rows : rows[m].rec.id = events[i].agent
  BY DEF JournalPinsRow, HoldersOf, Registered
<1>2. Referenced(rows[m].rec.id) BY <1>1 DEF Referenced
<1>3. QED BY <1>1, <1>2 DEF HoldersOf, Registered

LEMMA TableIsSound == ASSUME IInv PROVE IsSoundTable(rows)
BY DEF IInv, Types, Sound, IsSoundTable, Registered

\* The upsert of register().  A row that the journal references keeps its id.
LEMMA InsertKeeps ==
    ASSUME IInv, NEW t \in Tasks, Insert(t)
    PROVE  IInv' /\ MovesRight
<1> DEFINE r == Call(t).request
           k == [task[t] EXCEPT !.pc = "written"]
           row == Row(t, task[t].rec, task[t].line)
           table == Put(rows, r.name, row)
<1>1. /\ At(t, "waiting") /\ Kind(t) = "register" /\ HoldsLock(t)
      /\ UNCHANGED <<events, scorers, setbacks>>
      /\ \/ ReturnUnlocked(t) /\ UNCHANGED rows
         \/ /\ ~InsertRaises(r) /\ rows' = table
            /\ task' = [task EXCEPT ![t] = k] /\ UNCHANGED queue
  BY DEF Insert, Goto
<1>2. AreScorers(scorers') /\ setbacks' \in Nat
  BY <1>1, ScorersStay DEF IInv, Types
<1>3. CASE ReturnUnlocked(t) /\ UNCHANGED rows
  BY <1>1, <1>2, <1>3, ReturnsUnlocked, NoChange
<1>4. ASSUME ~InsertRaises(r), rows' = table, task' = [task EXCEPT ![t] = k], UNCHANGED queue
      PROVE  IInv' /\ MovesRight
  <2>1. task[t] \in RegisteringTasks
    BY <1>1, TaskShape DEF IInv, Types, At, Kind, Call
  <2>2. /\ k \in RegisteringTasks /\ k.pc = "written" /\ k.call = Call(t)
        /\ k.rec = task[t].rec /\ k.line = task[t].line
    BY <2>1 DEF RegisteringTasks, Call
  <2>3. /\ Call(t) \in CallType /\ r \in RequestType
        /\ task[t].rec \in Records /\ task[t].line \subseteq TrustValues
    BY <2>1, CallFacts DEF RegisteringTasks, Registrations, Call
  <2>4. /\ task[t].rec.revision = 1 /\ task[t].rec.id = r.id
        /\ IsBounded(task[t].rec, task[t].line)
    BY <2>1 DEF IInv, Sound, IsSoundTask, Call
  <2>5. /\ row \in Rows /\ row.rec = task[t].rec /\ row.line = task[t].line
        /\ row.by = ProcessOf[t] /\ r.name \in Names
    BY <2>3, ItsProcess DEF Row, Rows, RequestType
  <2> HIDE DEF k, row
  <2>6. /\ DOMAIN table = DOMAIN rows \cup {r.name} /\ table[r.name] = row
        /\ \A n \in DOMAIN table \ {r.name} : n \in DOMAIN rows /\ table[n] = rows[n]
    BY DEF Put
  <2> HIDE DEF table
  <2>7. IsSoundTable(rows')
    BY <1>4, <2>4, <2>5, <2>6, TableIsSound DEF IsSoundTable
  <2>8. JournalPinsRow'
    <3>1. ASSUME NEW m \in DOMAIN rows, Referenced(rows[m].rec.id)
          PROVE  m \in DOMAIN table /\ table[m].rec.id = rows[m].rec.id
      <4>1. CASE m # r.name BY <2>6, <4>1
      <4>2. CASE m = r.name
        <5>1. rows[m].rec.id = r.id
          BY <1>4, <3>1, <4>2 DEF InsertRaises, Registered
        <5>2. QED BY <2>4, <2>5, <2>6, <4>2, <5>1
      <4>3. QED BY <4>1, <4>2
    <3>2. QED BY <1>1, <1>4, <3>1, PinsKept DEF IInv
  <2>9. IsTask(k) BY <2>2 DEF IsTask
  <2>10. ~Reading(k) /\ ~Outside(k) BY <2>2 DEF Reading, Outside
  <2>11. IsSoundTask(k)
    BY <2>2, <2>4, <2>9, <2>10, TaskShape DEF IsSoundTask
  <2>12. IsCurrent(k, ProcessOf[t], rows') BY <2>10 DEF IsCurrent
  <2>13. Locks' BY <1>1, <1>4, <2>10, LockStays DEF IInv
  <2>14. events' \in Seq(JournalEntries) BY <1>1 DEF IInv, Types
  <2>15. \A m \in DOMAIN rows' :
            \/ m \in DOMAIN rows /\ rows'[m].by = rows[m].by /\ Alike(rows'[m].rec, rows[m].rec)
            \/ HoldsLock(t) /\ rows'[m].by = ProcessOf[t]
    BY <1>1, <1>4, <2>5, <2>6 DEF Alike
  <2>16. IInv'
    BY <1>2, <1>4, <2>7, <2>8, <2>9, <2>11, <2>12, <2>13, <2>14, <2>15, Writes
  <2>17. MovesRight
    BY <1>4, <2>4, <2>5, <2>6 DEF MovesRight, Alike
  <2>18. QED BY <2>16, <2>17
<1>5. QED BY <1>1, <1>3, <1>4

\* What a mutation makes of the record that was read: one change.
LEMMA MutatedFacts ==
    ASSUME IInv, NEW t \in Tasks, ReadyToSave(t)
    PROVE  /\ Reading(task[t]) /\ Kind(t) # "deregister"
           /\ Mutated(t) \in Records /\ OneChange(task[t].rec, Mutated(t))
           /\ AreScorers(MovedScorers(t))
           /\ IsTrustCall(Call(t)) =>
                 /\ Call(t) \in TrustMutations
                 /\ EntryFor(Call(t), task[t].rec.id, OldScorer(t), now) \in JournalEntries
<1>1. Reading(task[t]) /\ Kind(t) # "deregister"
  BY DEF ReadyToSave, Reading, At, Kind, Call
<1>2. /\ task[t].rec \in Records /\ Call(t) \in Mutations
      /\ OwnRecord(t) \in Records /\ Alike(OwnRecord(t), task[t].rec)
      /\ Call(t) \in CallType /\ NamesAnAgent(Call(t)) /\ Call(t).name \in Names
  BY <1>1, OwnFacts, CallFacts DEF Mutations
<1>3. Alike(task[t].rec, task[t].rec) BY DEF Alike
<1>4. task[t].rec.trust \in TrustValues /\ task[t].rec.id \in Ids BY <1>2 DEF Records
<1>5. One \in TrustValues BY TrustAssumption DEF TrustValues
<1>6. OldScorer(t) \in Scorers /\ OldScorer(t).signal <= now
  BY <1>4, <1>5, ScorerFacts DEF IInv, OldScorer
<1>7. ASSUME IsTrustCall(Call(t))
      PROVE  /\ Call(t) \in TrustMutations
             /\ Moved(Call(t), OldScorer(t), now) \in Scorers
             /\ Moved(Call(t), OldScorer(t), now).signal <= now
             /\ Value(Moved(Call(t), OldScorer(t), now), now) \in TrustValues
             /\ EntryFor(Call(t), task[t].rec.id, OldScorer(t), now) \in JournalEntries
  <2>1. Call(t) \in TrustMutations BY <1>2, <1>7 DEF TrustMutations
  <2>2. /\ Moved(Call(t), OldScorer(t), now) \in Scorers
        /\ Moved(Call(t), OldScorer(t), now).signal <= now
    BY <1>6, <2>1, NowIsNat, MovedFacts
  <2>3. Value(Moved(Call(t), OldScorer(t), now), now) \in TrustValues
    BY <2>2, NowIsNat, ValueBounds
  <2>4. EntryFor(Call(t), task[t].rec.id, OldScorer(t), now) \in JournalEntries
    BY <1>4, <1>6, <2>1, NowIsNat, EntryFacts
  <2>5. QED BY <2>1, <2>2, <2>3, <2>4
<1>8. AreScorers(MovedScorers(t))
  <2>1. CASE IsTrustCall(Call(t))
    BY <1>2, <1>7, <2>1, PutScorer DEF IInv, MovedScorers
  <2>2. CASE ~IsTrustCall(Call(t))
    BY <2>2 DEF MovedScorers, IInv, Types, AreScorers
  <2>3. QED BY <2>1, <2>2
<1>9. Mutated(t) \in Records /\ OneChange(task[t].rec, Mutated(t))
  <2>1. CASE Kind(t) = "add_grant"
    <3>1. Call(t).grant \in Grants BY <1>2, <2>1, CallFacts DEF Kind
    <3>2. Mutated(t) = WithGrant(OwnRecord(t), Call(t).grant) BY <2>1 DEF Mutated
    <3>3. QED BY <1>2, <3>1, <3>2, WithGrantFacts, GrantAdded
  <2>2. CASE Kind(t) = "remove_grant"
    <3>1. At(t, "selected") /\ Dropped(t) # {} BY <2>2 DEF ReadyToSave, Objects
    <3> DEFINE i == CHOOSE j \in Dropped(t) : TRUE
    <3>2. i \in DOMAIN OwnRecord(t).grants BY <1>2, <3>1 DEF Dropped, Alike
    <3>3. Mutated(t) = WithoutGrant(OwnRecord(t), i) BY <2>2 DEF Mutated
    <3> HIDE DEF i
    <3>4. QED BY <1>2, <3>2, <3>3, WithoutGrantFacts, GrantRemoved
  <2>3. CASE Kind(t) = "update_status"
    <3>1. Call(t).status \in Statuses BY <1>2, <2>3, CallFacts DEF Kind
    <3>2. Mutated(t) = [OwnRecord(t) EXCEPT !.status = Call(t).status] BY <2>3 DEF Mutated
    <3>3. QED BY <1>2, <3>1, <3>2, FieldChanged
  <2>4. CASE Kind(t) = "update_identity"
    <3>1. Call(t).key \in Keys BY <1>2, <2>4, CallFacts DEF Kind
    <3>2. Mutated(t) = [OwnRecord(t) EXCEPT !.key = Call(t).key] BY <2>4 DEF Mutated
    <3>3. QED BY <1>2, <3>1, <3>2, FieldChanged
  <2>5. CASE Kind(t) \in {"trust_event", "set_trust"}
    <3>1. IsTrustCall(Call(t)) BY <2>5 DEF IsTrustCall, Kind
    <3>2. Mutated(t) = [task[t].rec EXCEPT !.trust = Value(Moved(Call(t), OldScorer(t), now), now)]
      BY <2>5 DEF Mutated
    <3>3. QED BY <1>2, <1>3, <1>7, <3>1, <3>2, FieldChanged
  <2>6. QED BY <1>1, <1>2, <2>1, <2>2, <2>3, <2>4, <2>5, CallFacts DEF NamesAnAgent, Kind
<1>10. QED BY <1>1, <1>7, <1>8, <1>9

\* The UPDATE of the whole row.  If this process wrote the row last, it still
\* is what the task read, and the write builds on it.
LEMMA SaveKeeps ==
    ASSUME IInv, NEW t \in Tasks, Save(t)
    PROVE  IInv' /\ MovesRight
<1> DEFINE n == Call(t).name
           record == Mutated(t)
           saving == [record EXCEPT !.id = rows[n].rec.id, !.revision = record.revision + 1]
           row == Row(t, saving, task[t].line)
           k == IF IsTrustCall(Call(t))
                THEN [pc |-> "written", call |-> Call(t),
                      entry |-> EntryFor(Call(t), task[t].rec.id, OldScorer(t), now)]
                ELSE [pc |-> "written", call |-> Call(t)]
<1>1. /\ ReadyToSave(t) /\ task' = [task EXCEPT ![t] = k]
      /\ rows' = IF n \in DOMAIN rows THEN [rows EXCEPT ![n] = row] ELSE rows
      /\ scorers' = MovedScorers(t) /\ UNCHANGED <<events, queue, setbacks>>
  BY DEF Save, Saved, Registered
<1>2. /\ Reading(task[t]) /\ Kind(t) # "deregister"
      /\ record \in Records /\ OneChange(task[t].rec, record)
      /\ AreScorers(MovedScorers(t))
      /\ IsTrustCall(Call(t)) =>
            /\ Call(t) \in TrustMutations
            /\ EntryFor(Call(t), task[t].rec.id, OldScorer(t), now) \in JournalEntries
  BY <1>1, MutatedFacts
<1>3. /\ task[t].rec \in Records /\ Call(t) \in Mutations /\ HoldsLock(t)
      /\ task[t].line \subseteq TrustValues /\ IsBounded(task[t].rec, task[t].line)
  BY <1>2, OwnFacts
<1>4. /\ IsTask(k) /\ k.pc = "written" /\ k.call = Call(t)
  <2>1. CASE IsTrustCall(Call(t))
    BY <1>2, <2>1 DEF IsTask, JournalingTasks
  <2>2. CASE ~IsTrustCall(Call(t))
    BY <1>3, <2>2 DEF IsTask, SavedTasks
  <2>3. QED BY <2>1, <2>2
<1> HIDE DEF k, record
<1>5. /\ record.grants \in Seq(Grants) /\ record.ceiling = task[t].rec.ceiling
      /\ record.revision = task[t].rec.revision
  BY <1>2 DEF Records, OneChange
<1>6. ASSUME n \in DOMAIN rows
      PROVE  /\ saving \in Records /\ saving.id = rows[n].rec.id
             /\ saving.revision = record.revision + 1 /\ saving.ceiling = record.ceiling
             /\ \A f \in ContentFields : saving[f] = record[f]
  <2>1. rows[n].rec.id \in Ids BY <1>6 DEF IInv, Types, Rows, Records, Registered
  <2> DEFINE moved == [record EXCEPT !.id = rows[n].rec.id]
  <2>2. record.revision + 1 \in Nat BY <1>2 DEF Records
  <2>3. /\ moved \in Records /\ moved.id = rows[n].rec.id /\ moved.ceiling = record.ceiling
        /\ moved.grants = record.grants /\ moved.status = record.status
        /\ moved.key = record.key
    BY <1>2, <2>1 DEF Records
  <2>4. saving = [moved EXCEPT !.revision = record.revision + 1]
    BY <1>2 DEF Records
  <2> HIDE DEF moved, saving
  <2>5. /\ saving \in Records /\ saving.id = moved.id
        /\ saving.revision = record.revision + 1 /\ saving.ceiling = moved.ceiling
        /\ saving.grants = moved.grants /\ saving.status = moved.status
        /\ saving.key = moved.key
    BY <2>2, <2>3, <2>4 DEF Records
  <2>6. QED BY <2>3, <2>5 DEF ContentFields
<1>7. row = [rec |-> saving, line |-> task[t].line, by |-> ProcessOf[t]] BY DEF Row
<1> HIDE DEF saving, row, n
<1>8. /\ DOMAIN rows' = DOMAIN rows
      /\ \A m \in DOMAIN rows \ {n} : rows'[m] = rows[m]
      /\ n \in DOMAIN rows => rows'[n] = row
  BY <1>1
<1>9. n \in DOMAIN rows => row \in Rows /\ IsBounded(row.rec, row.line)
  BY <1>3, <1>5, <1>6, <1>7, ItsProcess DEF Rows, IsBounded
<1>10. IsSoundTable(rows')
  BY <1>8, <1>9, TableIsSound DEF IsSoundTable
<1>11. JournalPinsRow'
  <2>1. \A m \in DOMAIN rows : m \in DOMAIN rows' /\ rows'[m].rec.id = rows[m].rec.id
    BY <1>6, <1>7, <1>8
  <2>2. QED BY <1>1, <2>1, PinsKept DEF IInv
<1>12. ~Reading(k) /\ ~Outside(k) BY <1>4 DEF Reading, Outside
<1>13. k \notin RegisteringTasks /\ k \notin ResolvedTasks
  BY <1>3, <1>4, TaskShape DEF Mutations, NamesAnAgent
<1>14. IsSoundTask(k) /\ IsCurrent(k, ProcessOf[t], rows')
  BY <1>12, <1>13 DEF IsSoundTask, IsCurrent
<1>15. Locks' BY <1>1, <1>3, <1>12, LockStays DEF IInv
<1>16. events' \in Seq(JournalEntries) /\ setbacks' \in Nat BY <1>1 DEF IInv, Types
<1>17. \A m \in DOMAIN rows' :
          \/ m \in DOMAIN rows /\ rows'[m].by = rows[m].by /\ Alike(rows'[m].rec, rows[m].rec)
          \/ HoldsLock(t) /\ rows'[m].by = ProcessOf[t]
  BY <1>3, <1>7, <1>8 DEF Alike
<1>18. IInv'
  BY <1>1, <1>2, <1>4, <1>10, <1>11, <1>14, <1>15, <1>16, <1>17, Writes
<1>19. ASSUME n \in DOMAIN rows, rows'[n].by = rows[n].by PROVE MutatedRow(n)
  <2>1. Alike(rows[n].rec, task[t].rec)
    BY <1>2, <1>7, <1>8, <1>19 DEF IInv, ReadsAreCurrent, IsCurrent, Call, n
  <2>2. rows'[n].rec = saving BY <1>7, <1>8, <1>19
  <2>3. rows'[n].rec.revision = rows[n].rec.revision + 1
    BY <1>5, <1>6, <1>19, <2>1, <2>2 DEF Alike
  <2>4. \A f \in ContentFields :
           rows'[n].rec[f] = record[f] /\ rows[n].rec[f] = task[t].rec[f]
    BY <1>6, <1>19, <2>1, <2>2 DEF Alike, ContentFields
  <2>5. QED BY <1>2, <2>3, <2>4 DEF OneChange, MutatedRow
<1>20. MovesRight
  <2>1. ASSUME NEW m \in DOMAIN rows, m # n PROVE Alike(rows'[m].rec, rows[m].rec)
    BY <1>8, <2>1 DEF Alike
  <2>2. QED BY <1>8, <1>19, <2>1 DEF MovesRight
<1>21. QED BY <1>18, <1>20

\* The DELETE, of a row that the journal does not reference.
LEMMA DeleteKeeps ==
    ASSUME IInv, NEW t \in Tasks, Delete(t)
    PROVE  IInv' /\ MovesRight
<1> DEFINE n == Call(t).name
           k == [task[t] EXCEPT !.pc = "written"]
           table == Drop(rows, n)
<1>1. /\ At(t, "selected") /\ Kind(t) = "deregister"
      /\ UNCHANGED <<events, scorers, setbacks>>
      /\ \/ ReturnUnlocked(t) /\ UNCHANGED rows
         \/ /\ ~(n \in Registered /\ Referenced(rows[n].rec.id))
            /\ rows' = table /\ task' = [task EXCEPT ![t] = k] /\ UNCHANGED queue
  BY DEF Delete, Goto
<1>2. AreScorers(scorers') /\ setbacks' \in Nat
  BY <1>1, ScorersStay DEF IInv, Types
<1>3. CASE ReturnUnlocked(t) /\ UNCHANGED rows
  BY <1>1, <1>2, <1>3, ReturnsUnlocked, NoChange
<1>4. ASSUME ~(n \in Registered /\ Referenced(rows[n].rec.id)),
             rows' = table, task' = [task EXCEPT ![t] = k], UNCHANGED queue
      PROVE  IInv' /\ MovesRight
  <2>1. Reading(task[t]) BY <1>1 DEF Reading, At
  <2>2. task[t] \in SelectedTasks /\ HoldsLock(t) BY <1>1, <2>1, OwnFacts
  <2>3. k \in SelectedTasks /\ k.pc = "written" /\ k.call = Call(t)
    BY <2>2 DEF SelectedTasks, Call
  <2>4. ~IsTrustCall(k.call) /\ k.call.kind # "register"
    BY <1>1, <2>3 DEF IsTrustCall, Kind
  <2>5. IsTask(k) /\ k \notin ResolvedTasks /\ k \notin RegisteringTasks
    <3>1. IsTask(k) BY <2>3, <2>4 DEF IsTask
    <3>2. QED BY <2>3, <2>4, <3>1, TaskShape
  <2> HIDE DEF k
  <2>6. /\ DOMAIN table = DOMAIN rows \ {n} /\ \A m \in DOMAIN table : table[m] = rows[m]
    BY DEF Drop
  <2> HIDE DEF table
  <2>7. IsSoundTable(rows') BY <1>4, <2>6, TableIsSound DEF IsSoundTable
  <2>8. JournalPinsRow'
    BY <1>1, <1>4, <2>6, PinsKept DEF IInv, Registered
  <2>9. ~Reading(k) /\ ~Outside(k) BY <2>3 DEF Reading, Outside
  <2>10. IsSoundTask(k) /\ IsCurrent(k, ProcessOf[t], rows')
    BY <2>5, <2>9 DEF IsSoundTask, IsCurrent
  <2>11. Locks' BY <1>4, <2>2, <2>9, LockStays DEF IInv
  <2>12. events' \in Seq(JournalEntries) BY <1>1 DEF IInv, Types
  <2>13. \A m \in DOMAIN rows' : m \in DOMAIN rows /\ rows'[m].by = rows[m].by
                                /\ Alike(rows'[m].rec, rows[m].rec)
    BY <1>4, <2>6 DEF Alike
  <2>14. IInv'
    BY <1>2, <1>4, <2>5, <2>7, <2>8, <2>10, <2>11, <2>12, <2>13, Writes
  <2>15. MovesRight BY <2>13 DEF MovesRight
  <2>16. QED BY <2>14, <2>15
<1>5. QED BY <1>1, <1>3, <1>4

\* The INSERT into the journal, of an id that some row has.
LEMMA JournalKeeps ==
    ASSUME IInv, NEW t \in Tasks, Journal(t)
    PROVE  IInv'
<1> DEFINE k == [task[t] EXCEPT !.pc = "recorded"]
           entry == task[t].entry
           longer == Append(events, entry)
<1>1. /\ At(t, "written") /\ IsTrustCall(Call(t)) /\ UNCHANGED <<rows, scorers, setbacks>>
      /\ \/ /\ HoldersOf(entry.agent) # {} /\ events' = longer
            /\ task' = [task EXCEPT ![t] = k] /\ UNCHANGED queue
         \/ ReturnUnlocked(t) /\ UNCHANGED events
  BY DEF Journal, Goto
<1>2. AreScorers(scorers') /\ setbacks' \in Nat
  BY <1>1, ScorersStay DEF IInv, Types
<1>3. CASE ReturnUnlocked(t) /\ UNCHANGED events
  BY <1>1, <1>2, <1>3, ReturnsUnlocked
<1>4. ASSUME HoldersOf(entry.agent) # {}, events' = longer,
             task' = [task EXCEPT ![t] = k], UNCHANGED queue
      PROVE  IInv'
  <2>1. task[t] \in JournalingTasks BY <1>1, TaskShape DEF IInv, Types, At, Call
  <2>2. k \in JournalingTasks /\ k.pc = "recorded" /\ entry \in JournalEntries
    BY <2>1 DEF JournalingTasks
  <2>3. HoldsLock(t) BY <1>1 DEF IInv, Locks, Inside, At
  <2> HIDE DEF k, entry
  <2>4. IsTask(k) BY <2>2 DEF IsTask
  <2>5. ~Reading(k) /\ ~Outside(k) BY <2>2 DEF Reading, Outside
  <2>6. IsSoundTask(k) BY <2>2, <2>4, <2>5, TaskShape DEF IsSoundTask
  <2>7. IsCurrent(k, ProcessOf[t], rows') BY <2>5 DEF IsCurrent
  <2>8. Locks' BY <1>4, <2>3, <2>5, LockStays DEF IInv
  <2>9. events \in Seq(JournalEntries) BY DEF IInv, Types
  <2>10. /\ events' \in Seq(JournalEntries)
         /\ \A i \in DOMAIN events' : \/ i \in DOMAIN events /\ events'[i] = events[i]
                                      \/ events'[i] = entry
    BY <1>4, <2>2, <2>9
  <2>11. JournalPinsRow'
    BY <1>1, <1>4, <2>10 DEF IInv, JournalPinsRow, HoldersOf, Registered
  <2>12. IsSoundTable(rows') BY <1>1, TableIsSound
  <2>13. \A m \in DOMAIN rows' : m \in DOMAIN rows /\ rows'[m].by = rows[m].by
                                /\ Alike(rows'[m].rec, rows[m].rec)
    BY <1>1 DEF Alike
  <2>14. QED
    BY <1>2, <1>4, <2>4, <2>6, <2>7, <2>8, <2>10, <2>11, <2>12, <2>13, Writes
<1>5. QED BY <1>1, <1>3, <1>4

LEMMA FinishKeeps ==
    ASSUME IInv, NEW t \in Tasks, Finish(t)
    PROVE  IInv'
<1>1. /\ ReturnUnlocked(t) /\ UNCHANGED <<rows, events, setbacks>>
      /\ scorers' = FinishedScorers(t)
      /\ \/ At(t, "written") /\ ~IsTrustCall(Call(t))
         \/ At(t, "recorded")
  BY DEF Finish
<1>2. setbacks' \in Nat /\ IsTask(task[t]) BY <1>1 DEF IInv, Types
<1>3. AreScorers(scorers')
  <2>1. CASE Kind(t) = "register"
    <3> DEFINE n == Call(t).request.name
               s == ScorerFor(t, n, task[t].rec.trust, task[t].rec.ceiling)
    <3>1. scorers' = SetScorer(t, n, s) BY <1>1, <2>1 DEF FinishedScorers
    <3>2. At(t, "written")
      <4>1. ASSUME At(t, "recorded") PROVE FALSE
        <5>1. task[t] \in JournalingTasks BY <1>2, <4>1, TaskShape DEF At
        <5>2. QED BY <2>1, <5>1 DEF JournalingTasks, TrustMutations, IsTrustCall, Kind, Call
      <4>2. QED BY <1>1, <4>1
    <3>3. task[t] \in RegisteringTasks BY <1>2, <2>1, <3>2, TaskShape DEF At, Kind, Call
    <3>4. Call(t) \in Registrations /\ task[t].rec \in Records
      BY <3>3 DEF RegisteringTasks, Call
    <3>5. Call(t).request \in RequestType BY <3>4, CallFacts DEF Registrations
    <3>6. /\ n \in Names /\ task[t].rec.trust \in TrustValues
          /\ task[t].rec.ceiling \in TrustValues
      BY <3>4, <3>5 DEF RequestType, Records
    <3>7. s \in Scorers /\ s.signal <= now BY <3>6, ScorerFacts DEF IInv
    <3> HIDE DEF s
    <3>8. QED BY <3>1, <3>6, <3>7, PutScorer DEF IInv
  <2>2. CASE Kind(t) = "deregister"
    <3> DEFINE left == Drop(Mine(t), Call(t).name)
    <3>1. scorers' = [scorers EXCEPT ![ProcessOf[t]] = left]
      BY <1>1, <2>2 DEF FinishedScorers, Mine
    <3>2. IsScorers(Mine(t)) BY ItsProcess DEF IInv, Types, Mine
    <3>3. IsScorers(left) BY <3>2 DEF Drop, IsScorers
    <3> HIDE DEF left
    <3>4. QED BY <3>1, <3>3 DEF IInv, Types, AreScorers
  <2>3. CASE Kind(t) # "register" /\ Kind(t) # "deregister"
    BY <1>1, <2>3, ScorersStay DEF FinishedScorers
  <2>4. QED BY <2>1, <2>2, <2>3
<1>4. QED BY <1>1, <1>2, <1>3, ReturnsUnlocked

\* list_agents refreshes the trust in a row and nothing else of it; the row
\* remains the writer's who wrote it.
LEMMA SyncRowKeeps ==
    ASSUME IInv, NEW t \in Tasks, SyncRow(t)
    PROVE  IInv' /\ MovesRight
<1>1. PICK n \in DOMAIN Mine(t) \ task[t].seen :
          /\ rows' = IF n \in Registered
                     THEN [rows EXCEPT ![n].rec = Synced(t, n, rows[n].rec)] ELSE rows
          /\ task' = [task EXCEPT ![t].seen = @ \cup {n}]
  BY DEF SyncRow
<1>2. At(t, "syncing") /\ UNCHANGED <<events, scorers, queue, setbacks>>
  BY DEF SyncRow
<1> DEFINE k == [task[t] EXCEPT !.seen = @ \cup {n}]
<1>3. task' = [task EXCEPT ![t] = k] BY <1>1
<1>4. IsListing(task[t]) BY <1>2, TaskShape DEF IInv, Types, At
<1>5. k.pc = "syncing" /\ IsListing(k) BY <1>2, <1>4 DEF IsListing, At
<1> HIDE DEF k
<1>6. IsTask(k) BY <1>5 DEF IsTask
<1>7. ~Reading(k) /\ ~Inside(k) BY <1>5 DEF Reading, Inside
<1>8. IsSoundTask(k) /\ IsCurrent(k, ProcessOf[t], rows')
  <2>1. k \notin RegisteringTasks /\ k \notin ResolvedTasks BY <1>5, <1>6, TaskShape
  <2>2. QED BY <1>7, <2>1 DEF IsSoundTask, IsCurrent
<1>9. Outside(task[t]) BY <1>2 DEF At, Outside
<1>10. /\ DOMAIN rows' = DOMAIN rows
       /\ \A m \in DOMAIN rows :
             /\ rows'[m] \in Rows /\ rows'[m].by = rows[m].by /\ rows'[m].line = rows[m].line
             /\ Alike(rows'[m].rec, rows[m].rec)
  <2>1. DOMAIN rows' = DOMAIN rows BY <1>1
  <2>2. ASSUME NEW m \in DOMAIN rows
        PROVE  /\ rows'[m] \in Rows /\ rows'[m].by = rows[m].by /\ rows'[m].line = rows[m].line
               /\ Alike(rows'[m].rec, rows[m].rec)
    <3>1. rows[m] \in Rows BY DEF IInv, Types, Registered
    <3>2. rows[m].rec \in Records BY <3>1 DEF Rows
    <3>3. CASE m = n
      <4>1. Synced(t, n, rows[m].rec) \in Records /\ Alike(Synced(t, n, rows[m].rec), rows[m].rec)
        BY <3>2, SyncedFacts DEF IInv
      <4>2. rows'[m] = [rows[m] EXCEPT !.rec = Synced(t, n, rows[m].rec)]
        BY <1>1, <3>3 DEF Registered
      <4>3. QED BY <3>1, <4>1, <4>2 DEF Rows
    <3>4. CASE m # n
      <4>1. rows'[m] = rows[m] BY <1>1, <3>4 DEF Registered
      <4>2. QED BY <3>1, <4>1 DEF Alike
    <3>5. QED BY <3>3, <3>4
  <2>3. QED BY <2>1, <2>2
<1>11. IsSoundTable(rows')
  BY <1>10, TableIsSound DEF IsSoundTable, IsBounded, Alike
<1>12. JournalPinsRow' BY <1>2, <1>10, PinsKept DEF IInv, Alike
<1>13. Locks' BY <1>2, <1>3, <1>7, <1>9, LockStays DEF IInv
<1>14. AreScorers(scorers') BY <1>2, ScorersStay
<1>15. events' \in Seq(JournalEntries) /\ setbacks' \in Nat BY <1>2 DEF IInv, Types
<1>16. IInv'
  BY <1>3, <1>6, <1>8, <1>10, <1>11, <1>12, <1>13, <1>14, <1>15, Writes
<1>17. MovesRight BY <1>10 DEF MovesRight
<1>18. QED BY <1>16, <1>17

-----------------------------------------------------------------------------
(* Failed statements, lost answers and crashes                             *)

LEMMA StatementFailsKeeps ==
    ASSUME IInv, NEW t \in Tasks, StatementFails(t)
    PROVE  IInv'
<1>1. /\ setbacks' = setbacks + 1 /\ ReturnUnlocked(t) /\ UNCHANGED <<rows, events>>
      /\ \/ UNCHANGED scorers
         \/ ReadyToSave(t) /\ scorers' = MovedScorers(t)
  BY DEF StatementFails
<1>2. AreScorers(scorers') BY <1>1, ScorersStay, MutatedFacts
<1>3. setbacks' \in Nat BY <1>1 DEF IInv, Types
<1>4. QED BY <1>1, <1>2, <1>3, ReturnsUnlocked

LEMMA AnswerLostKeeps ==
    ASSUME IInv, NEW t \in Tasks, AnswerLost(t)
    PROVE  IInv'
<1>1. /\ setbacks' = setbacks + 1 /\ ReturnUnlocked(t) /\ UNCHANGED <<rows, events, scorers>>
  BY DEF AnswerLost
<1>2. AreScorers(scorers') BY <1>1, ScorersStay
<1>3. setbacks' \in Nat BY <1>1 DEF IInv, Types
<1>4. QED BY <1>1, <1>2, <1>3, ReturnsUnlocked

\* The tasks of the process are gone and its lock is new; the other processes
\* and the database do not notice.
LEMMA RestartKeeps ==
    ASSUME IInv, NEW p \in Processes, Restart(p)
    PROVE  IInv'
<1>1. /\ setbacks' = setbacks + 1 /\ UNCHANGED <<rows, events>>
      /\ scorers' = [scorers EXCEPT ![p] = <<>>]
      /\ queue' = [queue EXCEPT ![p] = <<>>]
      /\ task' = [t \in Tasks |-> IF ProcessOf[t] = p THEN Idle ELSE task[t]]
  BY DEF Restart
<1>2. \A t \in Tasks : task'[t] = Idle \/ (task'[t] = task[t] /\ ProcessOf[t] # p)
  BY <1>1
<1>3. Types'
  <2>1. IsScorers(<<>>) BY DEF IsScorers
  <2>2. DOMAIN scorers' = Processes /\ \A q \in Processes : IsScorers(scorers'[q])
    BY <1>1, <2>1 DEF IInv, Types
  <2>3. DOMAIN task' = Tasks /\ \A t \in Tasks : IsTask(task'[t])
    BY <1>1, <1>2, IdleFacts DEF IInv, Types
  <2>4. setbacks' \in Nat BY <1>1 DEF IInv, Types
  <2>5. QED BY <1>1, <2>2, <2>3, <2>4 DEF IInv, Types, Registered
<1>4. Locks'
  <2>1. IsLock(p, <<>>) BY DEF IsLock
  <2>2. /\ DOMAIN queue' = Processes /\ queue'[p] = <<>>
        /\ \A q \in Processes \ {p} : queue'[q] = queue[q]
    BY <1>1 DEF IInv, Locks
  <2>3. \A q \in Processes : IsLock(q, queue'[q]) BY <2>1, <2>2 DEF IInv, Locks
  <2>4. ASSUME NEW t \in Tasks, Inside(task'[t]) PROVE HoldsLock(t)'
    <3>1. task'[t] = task[t] /\ ProcessOf[t] # p BY <1>2, <2>4, IdleFacts
    <3>2. HoldsLock(t) BY <2>4, <3>1 DEF IInv, Locks
    <3>3. QED BY <2>2, <3>1, <3>2, ItsProcess DEF HoldsLock, Lock
  <2>5. ASSUME NEW t \in Tasks, Outside(task'[t]), NEW i \in DOMAIN queue'[ProcessOf[t]]
        PROVE  queue'[ProcessOf[t]][i] # t
    <3>1. ProcessOf[t] # p BY <2>2, <2>5
    <3>2. task'[t] = task[t] BY <1>1, <3>1
    <3>3. QED BY <2>2, <2>5, <3>1, <3>2, ItsProcess DEF IInv, Locks, Lock
  <2>6. QED BY <2>2, <2>3, <2>4, <2>5 DEF Locks, Lock
<1>5. Sound' BY <1>1, <1>2, IdleFacts DEF IInv, Sound, Registered
<1>6. ReadsAreCurrent' BY <1>1, <1>2, IdleFacts DEF IInv, ReadsAreCurrent
<1>7. JournalPinsRow' BY <1>1 DEF IInv, JournalPinsRow, HoldersOf, Registered
<1>8. QED BY <1>3, <1>4, <1>5, <1>6, <1>7 DEF IInv

-----------------------------------------------------------------------------
(* The theorems                                                            *)

LEMMA InitIInv == Init => IInv
<1> SUFFICES ASSUME Init PROVE IInv OBVIOUS
<1> USE DEF Init
<1>1. \A t \in Tasks : task[t] = Idle OBVIOUS
<1>2. DOMAIN <<>> = {} /\ <<>> \in Seq(JournalEntries) /\ <<>> \in Seq(Tasks)
  OBVIOUS
<1>3. IsScorers(<<>>) BY <1>2 DEF IsScorers
<1>4. Types BY <1>1, <1>2, <1>3, IdleFacts DEF Types, Registered
<1>5. Locks
  <2>1. \A p \in Processes : IsLock(p, <<>>) BY <1>2 DEF IsLock
  <2>2. \A p \in Processes : queue[p] = <<>> OBVIOUS
  <2>3. DOMAIN queue = Processes OBVIOUS
  <2>4. \A t \in Tasks : DOMAIN Lock(t) = {} BY <1>2, <2>2, ItsProcess DEF Lock
  <2>5. QED BY <1>1, <2>1, <2>2, <2>3, <2>4, IdleFacts DEF Locks
<1>6. Sound BY <1>1, <1>2, IdleFacts DEF Sound, Registered
<1>7. ReadsAreCurrent BY <1>1, IdleFacts DEF ReadsAreCurrent
<1>8. JournalPinsRow BY <1>2 DEF JournalPinsRow
<1>9. QED BY <1>4, <1>5, <1>6, <1>7, <1>8 DEF IInv

LEMMA NextIInv ==
    ASSUME IInv, [Next]_vars
    PROVE  IInv' /\ MovesRight
<1>1. ASSUME NEW t \in Tasks, NEW call \in Calls[t],
             \/ StartLocked(t, call) \/ StartList(t, call)
             \/ \E p \in Registered : StartChild(t, call, p)
      PROVE  IInv' /\ MovesRight
  <2>1. UNCHANGED rows BY <1>1 DEF StartLocked, StartList, StartChild
  <2>2. IInv' BY <1>1, StartLockedKeeps, StartListKeeps, StartChildKeeps
  <2>3. QED BY <2>1, <2>2, NoChange
<1>2. ASSUME NEW t \in Tasks,
             \/ QueueChild(t) \/ Select(t) \/ SelectParent(t) \/ Refuse(t) \/ Journal(t)
             \/ Finish(t) \/ EndList(t) \/ StatementFails(t) \/ AnswerLost(t)
      PROVE  IInv' /\ MovesRight
  <2>1. UNCHANGED rows
    BY <1>2 DEF QueueChild, Select, SelectParent, Refuse, Journal, Finish, EndList,
                StatementFails, AnswerLost
  <2>2. IInv'
    BY <1>2, QueueChildKeeps, SelectKeeps, SelectParentKeeps, RefuseKeeps, JournalKeeps,
       FinishKeeps, EndListKeeps, StatementFailsKeeps, AnswerLostKeeps
  <2>3. QED BY <2>1, <2>2, NoChange
<1>3. ASSUME NEW t \in Tasks, Insert(t) \/ Save(t) \/ Delete(t) \/ SyncRow(t)
      PROVE  IInv' /\ MovesRight
  BY <1>3, InsertKeeps, SaveKeeps, DeleteKeeps, SyncRowKeeps
<1>4. ASSUME NEW p \in Processes, Restart(p) PROVE IInv' /\ MovesRight
  <2>1. UNCHANGED rows BY <1>4 DEF Restart
  <2>2. QED BY <1>4, <2>1, RestartKeeps, NoChange
<1>5. CASE UNCHANGED vars
  <2>1. UNCHANGED <<rows, events, scorers, queue, task, setbacks>> BY <1>5 DEF vars
  <2>2. Types' BY <2>1 DEF IInv, Types, Registered
  <2>3. Locks' BY <2>1 DEF IInv, Locks, HoldsLock, Lock
  <2>4. Sound' /\ ReadsAreCurrent' BY <2>1 DEF IInv, Sound, ReadsAreCurrent, Registered
  <2>5. JournalPinsRow' BY <2>1 DEF IInv, JournalPinsRow, HoldersOf, Registered
  <2>6. QED BY <2>1, <2>2, <2>3, <2>4, <2>5, NoChange DEF IInv
<1>6. QED BY <1>1, <1>2, <1>3, <1>4, <1>5 DEF Next, Start, Step

\* The invariant holds in every reachable state: each process's lock excludes
\* its own tasks, what a task read under it is what the table holds unless
\* another process wrote, and no ceiling rises above an ancestor's trust.
THEOREM PostgresInvariant == Spec => []IInv
<1>1. IInv /\ [Next]_vars => IInv' BY NextIInv
<1>2. QED BY InitIInv, <1>1, PTL DEF Spec

\* TypeOK: every variable keeps its type, each task queues once, and for the
\* lock of its own process.
THEOREM PostgresTypes == Spec => []TypeOK
<1>1. IInv => TypeOK
  <2> SUFFICES ASSUME IInv PROVE TypeOK OBVIOUS
  <2>1. \A t \in Tasks : task[t].pc \in TaskStates BY TaskShape DEF IInv, Types
  <2>2. \A n \in Registered : IsRow(rows[n]) BY DEF IInv, Types, IsRow, Rows
  <2>3. \A p \in Processes :
           /\ DOMAIN scorers[p] \subseteq Names
           /\ \A n \in DOMAIN scorers[p] : scorers[p][n] \in Scorers
           /\ \A i \in DOMAIN queue[p] : ProcessOf[queue[p][i]] = p
           /\ \A i, j \in DOMAIN queue[p] : queue[p][i] = queue[p][j] => i = j
    BY DEF IInv, Types, IsScorers, Locks, IsLock
  <2>4. QED BY <2>1, <2>2, <2>3 DEF IInv, Types, TypeOK
<1>2. QED BY <1>1, PostgresInvariant, PTL

\* CeilingBelowLineage: whichever processes register, save and crash in
\* between, no row's ceiling is above the trust an ancestor delegated with.
THEOREM CeilingsStayBelowLineage == Spec => []CeilingBelowLineage
<1>1. IInv => CeilingBelowLineage
  BY DEF IInv, Sound, IsBounded, CeilingBelowLineage
<1>2. QED BY <1>1, PostgresInvariant, PTL

\* JournalPinsRow: an agent with a history is neither deregistered nor given
\* another id, by any process.
THEOREM JournaledAgentsStay == Spec => []JournalPinsRow
<1>1. IInv => JournalPinsRow BY DEF IInv
<1>2. QED BY <1>1, PostgresInvariant, PTL

LEMMA OneChangeBuildsOn ==
    ASSUME NEW old, NEW new, new.revision = old.revision + 1,
           NEW f \in ContentFields, \A g \in ContentFields \ {f} : new[g] = old[g]
    PROVE  BuildsOn(old, new)
<1>1. Cardinality({g \in ContentFields : old[g] # new[g]}) <= 1 BY OneFieldChanges
<1>2. QED BY <1>1 DEF BuildsOn, ContentChanges, ContentFields

\* OwnWritesNotLost: what a process wrote last it does not take back.
THEOREM OwnWritesAreKept == Spec => OwnWritesNotLost
<1> DEFINE Right ==
        \A n \in Registered \cap Registered' :
          rows[n].by = rows'[n].by =>
              \/ rows'[n].rec.revision = 1
              \/ BuildsOn(rows[n].rec, rows'[n].rec)
<1>1. ASSUME IInv, [Next]_vars PROVE Right
  <2> SUFFICES ASSUME NEW n \in Registered, n \in Registered', rows[n].by = rows'[n].by,
                      rows'[n].rec.revision # 1
               PROVE  BuildsOn(rows[n].rec, rows'[n].rec)
    OBVIOUS
  <2> DEFINE old == rows[n].rec
             new == rows'[n].rec
  <2>1. Alike(new, old) \/ MutatedRow(n)
    BY <1>1, NextIInv DEF MovesRight, Registered
  <2>2. CASE Alike(new, old)
    BY <2>2 DEF Alike, BuildsOn, ContentChanges
  <2>3. CASE MutatedRow(n)
    <3>1. new.revision = old.revision + 1 BY <2>3 DEF MutatedRow
    <3>2. PICK f \in ContentFields : \A g \in ContentFields \ {f} : new[g] = old[g]
      BY <2>3 DEF MutatedRow
    <3>3. \A g \in ContentFields \ {f} : new[g] = old[g] BY <3>2
    <3> HIDE DEF old, new
    <3>4. BuildsOn(old, new) BY <3>1, <3>3, OneChangeBuildsOn
    <3>5. QED BY <3>4 DEF old, new
  <2>4. QED BY <2>1, <2>2, <2>3
<1>2. IInv /\ [Next]_vars => [Right]_vars BY <1>1
<1>3. QED BY <1>2, PostgresInvariant, PTL DEF Spec, OwnWritesNotLost

\* OnlyRegisterCreates: no save brings a deregistered agent back.
THEOREM OnlyRegistrationCreates == Spec => OnlyRegisterCreates
<1> DEFINE Right == \A n \in Registered' \ Registered : rows'[n].rec.revision = 1
<1>1. ASSUME IInv, [Next]_vars PROVE Right
  BY <1>1, NextIInv DEF MovesRight, Registered
<1>2. IInv /\ [Next]_vars => [Right]_vars BY <1>1
<1>3. QED BY <1>2, PostgresInvariant, PTL DEF Spec, OnlyRegisterCreates
=============================================================================
