----------------------------- MODULE SqliteProofs -----------------------------
(***************************************************************************)
(* SqliteRegistry, for every value of the constants: any number of tasks,  *)
(* agents and calls, and any number of crashes, cancelled calls, failed    *)
(* statements and failed commits.  Fairness is not used.                   *)
(***************************************************************************)
EXTENDS SqliteRegistry, LineageProofs, SequenceTheorems

-----------------------------------------------------------------------------
(* What a task keeps in its local variables, by where it is in its call.   *)

Registrations == {call \in CallType : call.kind = "register"}
Mutations == {call \in CallType : NamesAnAgent(call)}
TrustMutations == {call \in Mutations : IsTrustCall(call)}
GrantMutations == {call \in Mutations : call.kind = "add_grant"}

\* register() of a child, its parent's row read
ResolvedTasks == [pc : {"resolved"}, call : Registrations, parent : Names, row : Rows]

\* register() from the moment it has the record to insert
RegisteringTasks == [pc : {"waiting", "written", "committed"}, call : Registrations,
                     rec : Records, line : SUBSET TrustValues]

\* every other mutation: before it has the lock, and from its read on
WaitingTasks == [pc : {"waiting"}, call : Mutations]

SelectedTasks == [pc : {"selected", "written", "committed"}, call : Mutations, rec : Records]

\* add_grant() to a child, and a trust call that has moved the scorer
GrantingTasks == [pc : {"resolved", "written", "committed"}, call : GrantMutations,
                  rec : Records, row : Rows]

JournalingTasks == [pc : {"written", "committed", "journaled", "recorded"},
                    call : TrustMutations, entry : JournalEntries]

IsListing(k) == k = [pc |-> "syncing", call |-> k.call, seen |-> k.seen, size |-> k.size]

IsTask(k) ==
    \/ k = Idle
    \/ k \in ResolvedTasks \cup RegisteringTasks \cup WaitingTasks
    \/ k \in SelectedTasks /\ (k.pc # "selected" => ~IsTrustCall(k.call))
    \/ k \in GrantingTasks \cup JournalingTasks
    \/ IsListing(k)

-----------------------------------------------------------------------------
(* The inductive invariant                                                 *)

\* TypeOK, with the task's locals, and no scorer ahead of the clock.
Types ==
    /\ IsDatabase(conn) /\ IsDatabase(saved)
    /\ DOMAIN scorers \subseteq Names
    /\ \A n \in DOMAIN scorers : scorers[n] \in Scorers /\ scorers[n].signal <= now
    /\ DOMAIN task = Tasks
    /\ \A t \in Tasks : IsTask(task[t])
    /\ now \in Nat
    /\ authority \in SUBSET Pairs
    /\ setbacks \in Nat

\* A task that read a row under the lock and has not written it yet.
Reading(k) ==
    \/ k.pc = "selected"
    \/ k.pc = "resolved" /\ k.call.kind = "add_grant"

\* A task with the write lock, once it has run under it, and one that has
\* not asked for it.
Inside(k) == Reading(k) \/ k.pc \in {"written", "committed", "journaled", "recorded"}

Outside(k) ==
    \/ k.pc \in {"idle", "syncing"}
    \/ k.pc = "resolved" /\ k.call.kind = "register"

Locks ==
    /\ queue \in Seq(Tasks)
    /\ \A i, j \in DOMAIN queue : queue[i] = queue[j] => i = j
    /\ \A t \in Tasks : Inside(task[t]) => HoldsLock(t)
    /\ \A t \in Tasks : Outside(task[t]) => \A i \in DOMAIN queue : queue[i] # t

\* What a task read under the lock is still what the table holds.
IsCurrent(k, table) ==
    Reading(k) =>
        /\ k.call.name \in DOMAIN table
        /\ Alike(table[k.call.name].rec, k.rec)
        /\ k.pc = "resolved" =>
              \E p \in DOMAIN table : /\ table[p].rec.id = k.rec.parent
                                      /\ table[p].rec.grants = k.row.rec.grants

ReadsAreCurrent == \A t \in Tasks : IsCurrent(task[t], conn.rows)

\* A row's grants come from roots, its ceiling is below its lineage; so in
\* both databases, in the parent's row a task has read, and in the record of
\* a child it is about to insert.  A root's own grants are added with it.
IsSoundRow(row, roots) ==
    /\ PairsOf(row.rec.grants) \subseteq roots
    /\ \A t \in row.line : row.rec.ceiling <= t

IsSoundTask(k, roots) ==
    /\ k \in ResolvedTasks => IsSoundRow(k.row, roots)
    /\ k \in RegisteringTasks =>
          /\ k.rec.revision = 1
          /\ k.rec.grants = k.call.request.grants
          /\ k.call.request.parent # NoParent => PairsOf(k.rec.grants) \subseteq roots
          /\ \A t \in k.line : k.rec.ceiling <= t

Sound ==
    /\ \A n \in DOMAIN conn.rows : IsSoundRow(conn.rows[n], authority)
    /\ \A n \in DOMAIN saved.rows : IsSoundRow(saved.rows[n], authority)
    /\ \A t \in Tasks : IsSoundTask(task[t], authority)

\* When a task has done its commit, the open transaction holds refreshed
\* trust only; so it does, unless a task is between its write and its commit,
\* as long as none was broken off there.
Writing(k) == k.pc \in {"written", "journaled"}

Settled(k) == k.pc \in {"committed", "recorded"}

SameContent(d, e) ==
    /\ DOMAIN d.rows = DOMAIN e.rows
    /\ \A n \in DOMAIN d.rows : Alike(d.rows[n].rec, e.rows[n].rec)
    /\ d.events = e.events

Durable ==
    /\ (\E t \in Tasks : Settled(task[t])) => SameContent(conn, saved)
    /\ setbacks = 0 /\ (\A t \in Tasks : ~Writing(task[t])) => SameContent(conn, saved)

\* A trust change whose journal entry is still to come is the one that may
\* be missing beyond the setbacks.
Owing(k) == k.pc \in {"written", "committed"} /\ IsTrustCall(k.call)

Missing(d) == d.moved - Len(d.events)

Journaled ==
    /\ Missing(saved) \in 0 .. setbacks + 1
    /\ Missing(conn) \in 0 .. setbacks + 1
    /\ (\E t \in Tasks : Owing(task[t])) => Missing(conn) >= 1
    /\ (\A t \in Tasks : ~Owing(task[t])) => Missing(conn) <= setbacks

IInv == Types /\ Locks /\ ReadsAreCurrent /\ Sound /\ Durable /\ Journaled

-----------------------------------------------------------------------------
(* Calls, tasks and records                                                *)

LEMMA CallFacts ==
    ASSUME NEW c \in CallType
    PROVE  /\ c.kind = "register" => c.request \in RequestType
           /\ NamesAnAgent(c) => c.name \in Names
           /\ c.kind = "add_grant" => c.grant \in Grants
           /\ c.kind = "trust_event" => c.event \in TrustEvents
           /\ c.kind = "set_trust" => c.value \in TrustValues
           /\ c.kind = "update_status" => c.status \in Statuses
           /\ c.kind = "update_identity" => c.key \in Keys
           /\ c.kind = "list_by_tier" \/ c \in Registrations \/ c \in Mutations
BY DEF CallType, NamesAnAgent, Registrations, Mutations

\* The shape of a task follows from where it is.
LEMMA TaskShape ==
    ASSUME NEW k, IsTask(k)
    PROVE  /\ k.pc = "idle" => k = Idle
           /\ k.pc = "waiting" /\ k.call.kind = "register" => k \in RegisteringTasks
           /\ k.pc = "waiting" /\ k.call.kind # "register" => k \in WaitingTasks
           /\ k.pc = "selected" => k \in SelectedTasks
           /\ k.pc = "resolved" /\ k.call.kind = "register" => k \in ResolvedTasks
           /\ k.pc = "resolved" /\ k.call.kind = "add_grant" => k \in GrantingTasks
           /\ k.pc = "resolved" => k.call.kind \in {"register", "add_grant"}
           /\ k.pc \in {"journaled", "recorded"} => k \in JournalingTasks
           /\ Owing(k) => k \in JournalingTasks
           /\ k.pc = "syncing" => IsListing(k)
           /\ k.pc \in TaskStates
           /\ k.pc \in {"written", "committed"} =>
                 k \in RegisteringTasks \cup SelectedTasks \cup GrantingTasks \cup JournalingTasks
           /\ k \in RegisteringTasks => k.call.kind = "register"
           /\ k \in RegisteringTasks => k.pc \in {"waiting", "written", "committed"}
           /\ k \in ResolvedTasks => k.pc = "resolved" /\ k.call.kind = "register"
<1> USE DEF Idle, ResolvedTasks, RegisteringTasks, WaitingTasks, SelectedTasks,
            GrantingTasks, JournalingTasks, IsListing, TaskStates, Owing,
            Registrations, Mutations, GrantMutations, TrustMutations, NamesAnAgent, IsTrustCall
<1>1. CASE k = Idle BY <1>1
<1>2. CASE k \in ResolvedTasks BY <1>2
<1>3. CASE k \in RegisteringTasks BY <1>3
<1>4. CASE k \in WaitingTasks BY <1>4
<1>5. CASE k \in SelectedTasks /\ (k.pc # "selected" => ~IsTrustCall(k.call)) BY <1>5
<1>6. CASE k \in GrantingTasks BY <1>6
<1>7. CASE k \in JournalingTasks BY <1>7
<1>8. CASE IsListing(k) BY <1>8
<1>9. QED BY <1>1, <1>2, <1>3, <1>4, <1>5, <1>6, <1>7, <1>8 DEF IsTask

\* Refreshing the trust of a record leaves its content alone.
LEMMA SyncedFacts ==
    ASSUME Types, NEW n, NEW record \in Records
    PROVE  /\ Synced(n, record) \in Records
           /\ Alike(Synced(n, record), record)
<1>1. CASE n \in DOMAIN scorers
  <2>1. Value(scorers[n], now) \in TrustValues BY <1>1, ValueBounds DEF Types
  <2>2. Synced(n, record) = [record EXCEPT !.trust = Value(scorers[n], now)]
    BY <1>1 DEF Synced
  <2>3. QED BY <2>1, <2>2 DEF Records, Alike
<1>2. CASE n \notin DOMAIN scorers BY <1>2 DEF Synced, Alike
<1>3. QED BY <1>1, <1>2

\* The scorer a call finds or makes, and the one it leaves.
LEMMA ScorerFacts ==
    ASSUME Types, NEW n, NEW trust \in TrustValues, NEW ceiling \in TrustValues
    PROVE  /\ ScorerFor(n, trust, ceiling) \in Scorers
           /\ ScorerFor(n, trust, ceiling).signal <= now
BY NewScorerType DEF ScorerFor, Types

LEMMA MovedFacts ==
    ASSUME NEW t \in Nat, NEW c \in TrustMutations, NEW s \in Scorers, s.signal <= t
    PROVE  Moved(c, s, t) \in Scorers /\ Moved(c, s, t).signal <= t
<1>1. c \in CallType /\ c.kind \in {"trust_event", "set_trust"}
  BY DEF TrustMutations, Mutations, IsTrustCall
<1>2. CASE c.kind = "set_trust"
  BY <1>1, <1>2, CallFacts, SetValueType DEF Moved
<1>3. CASE c.kind = "trust_event"
  BY <1>1, <1>3, CallFacts, RecordEventType DEF Moved
<1>4. QED BY <1>1, <1>2, <1>3

LEMMA EntryFacts ==
    ASSUME NEW t \in Nat, NEW c \in TrustMutations, NEW id \in Ids,
           NEW s \in Scorers, s.signal <= t
    PROVE  EntryFor(c, id, s, t) \in JournalEntries
<1>1. c \in CallType /\ c.kind \in {"trust_event", "set_trust"}
  BY DEF TrustMutations, Mutations, IsTrustCall
<1>2. (IF c.kind = "set_trust" THEN "human_override" ELSE c.event) \in TrustEvents
  BY <1>1, CallFacts DEF TrustEvents
<1>3. Value(s, t) \in TrustValues /\ Value(Moved(c, s, t), t) \in TrustValues
  BY MovedFacts, ValueBounds
<1>4. QED BY <1>2, <1>3 DEF EntryFor, JournalEntries

LEMMA PutScorer ==
    ASSUME Types, NEW n \in Names, NEW s \in Scorers, s.signal <= now
    PROVE  LET after == Put(scorers, n, s)
           IN  /\ DOMAIN after \subseteq Names
               /\ \A m \in DOMAIN after : after[m] \in Scorers /\ after[m].signal <= now
BY DEF Put, Types

-----------------------------------------------------------------------------
(* The lock                                                                *)

\* Two tasks are never both past the lock.
LEMMA Alone ==
    ASSUME Locks, NEW t \in Tasks, NEW u \in Tasks, HoldsLock(t), Inside(task[u])
    PROVE  t = u
BY DEF Locks, HoldsLock

\* A step that leaves the lock alone.
LEMMA LockStays ==
    ASSUME Types, Locks, NEW t \in Tasks, NEW k, task' = [task EXCEPT ![t] = k],
           UNCHANGED queue,
           Inside(k) => HoldsLock(t), Outside(k) => Outside(task[t])
    PROVE  Locks'
BY DEF Types, Locks, HoldsLock

\* A task asks for the lock.
LEMMA LockQueued ==
    ASSUME Types, Locks, NEW t \in Tasks, NEW k, task' = [task EXCEPT ![t] = k],
           Enqueue(t), Outside(task[t]), k.pc = "waiting"
    PROVE  Locks'
<1>1. /\ queue \in Seq(Tasks) /\ Len(queue) \in Nat /\ DOMAIN queue = 1 .. Len(queue)
      /\ queue' = Append(queue, t)
  BY DEF Locks, Enqueue
<1>2. /\ queue' \in Seq(Tasks)
      /\ DOMAIN queue' = 1 .. Len(queue) + 1
      /\ \A i \in DOMAIN queue : queue'[i] = queue[i]
      /\ queue'[Len(queue) + 1] = t
  BY <1>1
<1>3. DOMAIN queue' = DOMAIN queue \cup {Len(queue) + 1} /\ Len(queue) + 1 \notin DOMAIN queue
  BY <1>1, <1>2
<1>4. \A i \in DOMAIN queue : queue[i] # t BY DEF Locks
<1>5. \A i, j \in DOMAIN queue' : queue'[i] = queue'[j] => i = j
  BY <1>2, <1>3, <1>4 DEF Locks
<1>6. ~Inside(k) /\ ~Outside(k) BY DEF Inside, Outside, Reading
<1>7. ASSUME NEW u \in Tasks, Inside(task'[u]) PROVE HoldsLock(u)'
  <2>1. u # t /\ task'[u] = task[u] BY <1>6, <1>7 DEF Types
  <2>2. queue # <<>> /\ Head(queue) = u BY <1>7, <2>1 DEF Locks, HoldsLock
  <2>3. queue' # <<>> /\ Head(queue') = Head(queue) BY <1>1, <2>2
  <2>4. QED BY <2>2, <2>3 DEF HoldsLock
<1>8. ASSUME NEW u \in Tasks, Outside(task'[u]), NEW i \in DOMAIN queue' PROVE queue'[i] # u
  <2>1. u # t /\ task'[u] = task[u] BY <1>6, <1>8 DEF Types
  <2>2. \A j \in DOMAIN queue : queue[j] # u BY <1>8, <2>1 DEF Locks
  <2>3. QED BY <1>2, <1>3, <2>1, <2>2
<1>9. QED BY <1>2, <1>5, <1>7, <1>8 DEF Locks

\* A task leaves the lock to the next in the queue.
LEMMA LockReleased ==
    ASSUME Types, Locks, NEW t \in Tasks, ReturnUnlocked(t)
    PROVE  Locks'
<1>1. /\ queue \in Seq(Tasks) /\ queue # <<>> /\ Head(queue) = t /\ queue' = Tail(queue)
      /\ task' = [task EXCEPT ![t] = Idle]
  BY DEF Locks, ReturnUnlocked, Release, Return, HoldsLock
<1>2. /\ Len(queue) \in Nat /\ Len(queue) >= 1 /\ DOMAIN queue = 1 .. Len(queue) /\ queue[1] = t
  BY <1>1
<1>3. /\ queue' \in Seq(Tasks) /\ DOMAIN queue' = 1 .. Len(queue) - 1
      /\ \A i \in DOMAIN queue' : i + 1 \in DOMAIN queue /\ queue'[i] = queue[i + 1]
  BY <1>1, <1>2
<1>4. \A i, j \in DOMAIN queue' : queue'[i] = queue'[j] => i = j
  <2> SUFFICES ASSUME NEW i \in DOMAIN queue', NEW j \in DOMAIN queue', queue'[i] = queue'[j]
               PROVE  i = j
    OBVIOUS
  <2>1. i + 1 = j + 1 BY <1>3 DEF Locks
  <2>2. i \in Nat /\ j \in Nat BY <1>2, <1>3
  <2>3. QED BY <2>1, <2>2
<1>5. \A i \in DOMAIN queue' : queue'[i] # t
  <2> SUFFICES ASSUME NEW i \in DOMAIN queue', queue'[i] = t PROVE FALSE OBVIOUS
  <2>1. i + 1 \in DOMAIN queue /\ 1 \in DOMAIN queue /\ queue[i + 1] = queue[1]
    BY <1>2, <1>3
  <2>2. i + 1 = 1 BY <2>1 DEF Locks
  <2>3. i \in 1 .. Len(queue) - 1 BY <1>3
  <2>4. QED BY <1>2, <2>2, <2>3
<1>6. ~Inside(Idle) BY DEF Inside, Reading, Idle
<1>7. ASSUME NEW u \in Tasks PROVE ~Inside(task'[u])
  BY <1>1, <1>6, Alone DEF Types, HoldsLock
<1>8. ASSUME NEW u \in Tasks, Outside(task'[u]), NEW i \in DOMAIN queue' PROVE queue'[i] # u
  <2>1. CASE u = t BY <1>5, <2>1
  <2>2. CASE u # t
    <3>1. task'[u] = task[u] BY <1>1, <2>2 DEF Types
    <3>2. \A j \in DOMAIN queue : queue[j] # u BY <1>8, <3>1 DEF Locks
    <3>3. QED BY <1>3, <3>2
  <2>3. QED BY <2>1, <2>2
<1>9. QED BY <1>3, <1>4, <1>7, <1>8 DEF Locks

\* What is left of a sequence when one place of it is removed.
LEMMA RemovedFacts ==
    ASSUME NEW S, NEW s \in Seq(S), NEW i \in DOMAIN s
    PROVE  LET left == Seqs!RemoveAt(s, i)
           IN  /\ left \in Seq(S) /\ DOMAIN left = 1 .. Len(s) - 1
               /\ \A j \in DOMAIN left : left[j] = IF j < i THEN s[j] ELSE s[j + 1]
<1> DEFINE front == SubSeq(s, 1, i - 1)
           back == SubSeq(s, i + 1, Len(s))
<1>1. Len(s) \in Nat /\ DOMAIN s = 1 .. Len(s) /\ i \in 1 .. Len(s) OBVIOUS
<1>2. /\ front \in Seq(S) /\ Len(front) = i - 1
      /\ \A j \in 1 .. i - 1 : front[j] = s[j]
  <2>1. i - 1 \in 0 .. Len(s) /\ 1 \in 1 .. Len(s) + 1 BY <1>1
  <2>2. QED BY <1>1, <2>1, SubSeqProperties
<1>3. /\ back \in Seq(S) /\ Len(back) = Len(s) - i
      /\ \A j \in 1 .. Len(s) - i : back[j] = s[i + j]
  <2>1. i + 1 \in 1 .. Len(s) + 1 /\ Len(s) \in 0 .. Len(s) BY <1>1
  <2>2. back \in Seq(S) /\ Len(back) = Len(s) - i BY <1>1, <2>1, SubSeqProperties
  <2>3. \A j \in 1 .. Len(s) - i : back[j] = s[i + j] BY <1>1, <2>1, SubSeqProperties
  <2>4. QED BY <2>2, <2>3
<1> HIDE DEF front, back
<1>4. /\ front \o back \in Seq(S) /\ Len(front \o back) = Len(front) + Len(back)
      /\ \A j \in 1 .. Len(front) + Len(back) :
            (front \o back)[j] = IF j <= Len(front) THEN front[j] ELSE back[j - Len(front)]
  BY <1>2, <1>3, ConcatProperties
<1>5. Len(front) + Len(back) = Len(s) - 1 BY <1>1, <1>2, <1>3
<1>6. DOMAIN (front \o back) = 1 .. Len(s) - 1 BY <1>4, <1>5
<1>7. ASSUME NEW j \in 1 .. Len(s) - 1
      PROVE  (front \o back)[j] = IF j < i THEN s[j] ELSE s[j + 1]
  <2>1. CASE j < i
    <3>1. j <= Len(front) /\ j \in 1 .. i - 1 BY <1>1, <1>2, <2>1
    <3>2. QED BY <1>2, <1>4, <1>5, <2>1, <3>1
  <2>2. CASE ~(j < i)
    <3>1. /\ ~(j <= Len(front)) /\ j - Len(front) = j - i + 1
          /\ j - i + 1 \in 1 .. Len(s) - i /\ i + (j - i + 1) = j + 1
      BY <1>1, <1>2, <2>2
    <3>2. (front \o back)[j] = back[j - i + 1] BY <1>4, <1>5, <3>1
    <3>3. back[j - i + 1] = s[i + (j - i + 1)] BY <1>3, <3>1
    <3>4. QED BY <2>2, <3>1, <3>2, <3>3
  <2>3. QED BY <2>1, <2>2
<1>8. Seqs!RemoveAt(s, i) = front \o back BY DEF Seqs!RemoveAt, front, back
<1>9. QED BY <1>4, <1>6, <1>7, <1>8

\* A cancelled task leaves the lock, or its place in the queue, wherever it
\* is; who holds the lock otherwise keeps it.
LEMMA LockLeft ==
    ASSUME Types, Locks, NEW t \in Tasks, Return(t), LeaveQueue(t)
    PROVE  Locks'
<1>1. task'[t] = Idle /\ \A u \in Tasks \ {t} : task'[u] = task[u]
  BY DEF Types, Return
<1>2. ~Inside(Idle) BY DEF Inside, Reading, Idle
<1>3. CASE (\A i \in DOMAIN queue : queue[i] # t) /\ UNCHANGED queue
  BY <1>1, <1>2, <1>3 DEF Locks, HoldsLock
<1>4. ASSUME NEW i \in DOMAIN queue, queue[i] = t, queue' = Seqs!RemoveAt(queue, i)
      PROVE  Locks'
  <2>1. /\ queue \in Seq(Tasks) /\ Len(queue) \in Nat /\ DOMAIN queue = 1 .. Len(queue)
        /\ \A j, l \in DOMAIN queue : queue[j] = queue[l] => j = l
    BY DEF Locks
  <2>2. /\ queue' \in Seq(Tasks) /\ DOMAIN queue' = 1 .. Len(queue) - 1
        /\ \A j \in DOMAIN queue' : queue'[j] = IF j < i THEN queue[j] ELSE queue[j + 1]
    BY <1>4, <2>1, RemovedFacts
  <2> DEFINE was(j) == IF j < i THEN j ELSE j + 1
  <2>3. ASSUME NEW j \in DOMAIN queue'
        PROVE  was(j) \in DOMAIN queue /\ was(j) # i /\ queue'[j] = queue[was(j)]
    BY <2>1, <2>2, <2>3
  <2>4. ASSUME NEW j \in DOMAIN queue', NEW l \in DOMAIN queue', queue'[j] = queue'[l]
        PROVE  j = l
    <3>1. was(j) = was(l) BY <2>1, <2>3, <2>4
    <3>2. j \in Nat /\ l \in Nat /\ i \in Nat BY <2>1, <2>2
    <3>3. QED BY <3>1, <3>2
  <2>5. \A j \in DOMAIN queue' : queue'[j] # t BY <1>4, <2>1, <2>3
  <2>6. ASSUME NEW u \in Tasks, Inside(task'[u]) PROVE HoldsLock(u)'
    <3>1. u # t /\ task'[u] = task[u] BY <1>1, <1>2, <2>6
    <3>2. queue # <<>> /\ Head(queue) = u BY <2>6, <3>1 DEF Locks, HoldsLock
    <3>3. 1 \in DOMAIN queue /\ queue[1] = u BY <2>1, <3>2
    <3>4. i # 1 BY <1>4, <3>1, <3>3
    <3>5. 1 \in DOMAIN queue' /\ queue'[1] = u BY <2>1, <2>2, <3>3, <3>4
    <3>6. queue' # <<>> /\ Head(queue') = u BY <2>2, <3>5
    <3>7. QED BY <3>6 DEF HoldsLock
  <2>7. ASSUME NEW u \in Tasks, Outside(task'[u]), NEW j \in DOMAIN queue'
        PROVE  queue'[j] # u
    <3>1. CASE u = t BY <2>5, <3>1
    <3>2. CASE u # t
      <4>1. \A l \in DOMAIN queue : queue[l] # u BY <1>1, <2>7, <3>2 DEF Locks
      <4>2. QED BY <2>3, <4>1
    <3>3. QED BY <3>1, <3>2
  <2>8. QED BY <2>2, <2>4, <2>6, <2>7 DEF Locks
<1>5. QED BY <1>3, <1>4 DEF LeaveQueue

-----------------------------------------------------------------------------
(* The kinds of steps                                                      *)

ScorersTyped ==
    /\ DOMAIN scorers \subseteq Names
    /\ \A n \in DOMAIN scorers : scorers[n] \in Scorers /\ scorers[n].signal <= now

\* What is sound stays sound when more pairs come from roots.
LEMMA SoundGrows ==
    ASSUME NEW few, NEW many, few \subseteq many
    PROVE  /\ \A row : IsSoundRow(row, few) => IsSoundRow(row, many)
           /\ \A k : IsSoundTask(k, few) => IsSoundTask(k, many)
BY DEF IsSoundRow, IsSoundTask

\* A step of t that writes nothing to the database.
LEMMA WritesNothing ==
    ASSUME IInv, NEW t \in Tasks, NEW k, task' = [task EXCEPT ![t] = k],
           IsTask(k), IsSoundTask(k, authority), IsCurrent(k, conn.rows),
           ~Writing(k), ~Writing(task[t]), ~Owing(k), ~Owing(task[t]), ~Settled(k),
           UNCHANGED <<conn, saved, now, authority, setbacks>>,
           Locks', ScorersTyped'
    PROVE  IInv'
<1> USE DEF IInv
<1>1. task'[t] = k /\ \A u \in Tasks \ {t} : task'[u] = task[u]
  BY DEF Types
<1>2. Types' BY <1>1 DEF Types, ScorersTyped
<1>3. ReadsAreCurrent' BY <1>1 DEF ReadsAreCurrent
<1>4. Sound' BY <1>1 DEF Sound
<1>5. Durable' BY <1>1 DEF Durable
<1>6. Journaled'
  <2>1. UNCHANGED <<Missing(conn), Missing(saved)>> OBVIOUS
  <2>2. \A u \in Tasks : Owing(task'[u]) <=> Owing(task[u]) BY <1>1
  <2>3. QED BY <2>1, <2>2 DEF Journaled
<1>7. QED BY <1>2, <1>3, <1>4, <1>5, <1>6

\* A call that is broken off.  What it wrote stays in the open transaction,
\* or the transaction is rolled back by the task that has the lock.
LEMMA BreaksOff ==
    ASSUME IInv, NEW t \in Tasks, Return(t), setbacks' = setbacks + 1,
           conn' = conn \/ (conn' = saved /\ HoldsLock(t)),
           UNCHANGED <<saved, now, authority>>, Locks', ScorersTyped'
    PROVE  IInv'
<1> USE DEF IInv
<1>1. task'[t] = Idle /\ \A u \in Tasks \ {t} : task'[u] = task[u]
  BY DEF Types, Return
<1>2. /\ IsTask(Idle) /\ ~Reading(Idle) /\ ~Settled(Idle) /\ ~Owing(Idle) /\ ~Inside(Idle)
      /\ Idle \notin ResolvedTasks /\ Idle \notin RegisteringTasks
  <2>1. Idle.pc = "idle" /\ IsTask(Idle) BY DEF Idle, IsTask
  <2>2. Idle \notin ResolvedTasks /\ Idle \notin RegisteringTasks BY <2>1, TaskShape
  <2>3. QED BY <2>1, <2>2 DEF Reading, Settled, Owing, Inside
<1>3. setbacks \in Nat /\ setbacks' \in Nat /\ setbacks' # 0 BY DEF Types
<1>4. Types'
  <2>1. \A u \in Tasks : IsTask(task'[u]) BY <1>1, <1>2 DEF Types
  <2>2. DOMAIN task' = Tasks BY DEF Types, Return
  <2>3. IsDatabase(conn') /\ IsDatabase(saved') BY DEF Types
  <2>4. QED BY <1>3, <2>1, <2>2, <2>3 DEF Types, ScorersTyped
<1>5. HoldsLock(t) => \A u \in Tasks \ {t} : ~Inside(task[u]) BY Alone
<1>6. ReadsAreCurrent'
  <2>1. CASE conn' = conn BY <1>1, <1>2, <2>1 DEF ReadsAreCurrent, IsCurrent
  <2>2. CASE HoldsLock(t)
    BY <1>1, <1>2, <1>5, <2>2 DEF ReadsAreCurrent, IsCurrent, Inside
  <2>3. QED BY <2>1, <2>2
<1>7. Sound'
  <2>1. \A u \in Tasks : IsSoundTask(task'[u], authority)
    BY <1>1, <1>2 DEF Sound, IsSoundTask
  <2>2. QED BY <2>1 DEF Sound
<1>8. Durable'
  <2>1. CASE conn' = conn BY <1>1, <1>2, <1>3, <2>1 DEF Durable
  <2>2. CASE conn' = saved
    <3>1. SameContent(saved, saved) BY DEF SameContent, Alike
    <3>2. QED BY <2>2, <3>1 DEF Durable
  <2>3. QED BY <2>1, <2>2
<1>9. Journaled'
  <2>1. /\ conn.moved \in Nat /\ saved.moved \in Nat
        /\ Len(conn.events) \in Nat /\ Len(saved.events) \in Nat
    BY DEF Types, IsDatabase
  <2>2. Missing(conn) \in Int /\ Missing(saved) \in Int BY <2>1 DEF Missing
  <2>3. UNCHANGED Missing(saved) OBVIOUS
  <2>4. Missing(conn)' = Missing(conn) \/ Missing(conn)' = Missing(saved) OBVIOUS
  <2>5. /\ Missing(saved)' \in 0 .. setbacks' + 1
        /\ Missing(conn)' \in 0 .. setbacks' + 1
        /\ Missing(conn)' <= setbacks'
    BY <1>3, <2>2, <2>3, <2>4 DEF Journaled
  <2>6. ASSUME NEW u \in Tasks, Owing(task'[u]) PROVE Missing(conn)' >= 1
    <3>1. u # t /\ Owing(task[u]) BY <1>1, <1>2, <2>6
    <3>2. Inside(task[u]) BY <3>1 DEF Owing, Inside
    <3>3. conn' = conn BY <1>5, <3>1, <3>2
    <3>4. Missing(conn)' = Missing(conn) BY <3>3
    <3>5. QED BY <3>1, <3>4 DEF Journaled
  <2>7. QED BY <2>5, <2>6 DEF Journaled
<1>10. QED BY <1>4, <1>6, <1>7, <1>8, <1>9

\* The write of t, which has the lock.
LEMMA Writes ==
    ASSUME IInv, NEW t \in Tasks, NEW k, task' = [task EXCEPT ![t] = k],
           HoldsLock(t), ~Writing(task[t]), ~Owing(task[t]),
           k.pc = "written", IsTask(k), IsSoundTask(k, authority'),
           authority \subseteq authority', authority' \in SUBSET Pairs,
           UNCHANGED <<saved, queue, now, setbacks>>,
           ScorersTyped', IsDatabase(conn'),
           \A n \in DOMAIN conn'.rows : IsSoundRow(conn'.rows[n], authority'),
           conn'.events = conn.events,
           conn'.moved = conn.moved + (IF IsTrustCall(k.call) THEN 1 ELSE 0)
    PROVE  IInv'
<1> USE DEF IInv
<1>1. task'[t] = k /\ \A u \in Tasks \ {t} : task'[u] = task[u]
  BY DEF Types
<1>2. Types' BY <1>1 DEF Types, ScorersTyped
<1>3. Inside(k) /\ ~Outside(k) /\ Writing(k) /\ ~Reading(k) /\ ~Settled(k)
      /\ (Owing(k) <=> IsTrustCall(k.call))
  BY DEF Inside, Outside, Writing, Reading, Owing, Settled
<1>4. Locks' BY <1>3, LockStays
<1>5. \A u \in Tasks \ {t} : ~Inside(task[u])
  BY Alone
<1>6. ReadsAreCurrent' BY <1>1, <1>3, <1>5 DEF ReadsAreCurrent, IsCurrent, Inside
<1>7. Sound'
  <2>1. \A n \in DOMAIN saved.rows : IsSoundRow(saved.rows[n], authority')
    BY SoundGrows DEF Sound
  <2>2. \A u \in Tasks : IsSoundTask(task'[u], authority')
    BY <1>1, SoundGrows DEF Sound
  <2>3. QED BY <2>1, <2>2 DEF Sound
<1>8. Durable' BY <1>1, <1>3, <1>5 DEF Durable, Settled, Inside
<1>9. Journaled'
  <2>1. /\ conn.moved \in Nat /\ saved.moved \in Nat /\ setbacks \in Nat
        /\ Len(conn.events) \in Nat /\ Len(saved.events) \in Nat
    BY DEF Types, IsDatabase
  <2>2. Missing(conn) \in Int /\ Missing(saved) \in Int BY <2>1 DEF Missing
  <2>3. UNCHANGED Missing(saved) OBVIOUS
  <2>4. Missing(conn)' = Missing(conn) + (IF IsTrustCall(k.call) THEN 1 ELSE 0)
    BY <2>1 DEF Missing
  <2>5. \A u \in Tasks : ~Owing(task[u])
    BY <1>5 DEF Owing, Inside
  <2>6. Missing(conn) <= setbacks /\ 0 <= Missing(conn)
    BY <2>1, <2>2, <2>5 DEF Journaled
  <2>7. (\E u \in Tasks : Owing(task'[u])) <=> IsTrustCall(k.call)
    BY <1>1, <1>3, <2>5
  <2>8. CASE IsTrustCall(k.call)
    <3>1. Missing(conn)' = Missing(conn) + 1 BY <2>4, <2>8
    <3>2. /\ Missing(conn)' \in 0 .. setbacks + 1 /\ Missing(conn)' >= 1
      BY <2>1, <2>2, <2>6, <3>1
    <3>3. QED BY <2>3, <2>7, <2>8, <3>2 DEF Journaled
  <2>9. CASE ~IsTrustCall(k.call)
    <3>1. Missing(conn)' = Missing(conn) BY <2>2, <2>4, <2>9
    <3>2. /\ Missing(conn)' \in 0 .. setbacks + 1 /\ Missing(conn)' <= setbacks
      BY <2>1, <2>2, <2>6, <3>1
    <3>3. QED BY <2>3, <2>7, <2>9, <3>2 DEF Journaled
  <2>10. QED BY <2>8, <2>9
<1>10. QED BY <1>2, <1>4, <1>6, <1>7, <1>8, <1>9

\* A commit, by whatever task: it saves what every task wrote.
LEMMA Commits ==
    ASSUME IInv, NEW t \in Tasks, NEW k, task' = [task EXCEPT ![t] = k],
           saved' = conn, UNCHANGED <<conn, scorers, queue, now, authority, setbacks>>,
           IsTask(k), IsSoundTask(k, authority), ~Reading(k),
           Owing(k) <=> Owing(task[t]),
           Inside(k) => HoldsLock(t), Outside(k) => Outside(task[t])
    PROVE  IInv'
<1> USE DEF IInv
<1>1. task'[t] = k /\ \A u \in Tasks \ {t} : task'[u] = task[u]
  BY DEF Types
<1>2. Types' BY <1>1 DEF Types
<1>3. Locks' BY LockStays
<1>4. ReadsAreCurrent' BY <1>1 DEF ReadsAreCurrent, IsCurrent
<1>5. Sound' BY <1>1 DEF Sound
<1>6. Durable'
  <2>1. SameContent(conn, conn) BY DEF SameContent, Alike
  <2>2. QED BY <2>1 DEF Durable
<1>7. Journaled'
  <2>1. UNCHANGED Missing(conn) /\ Missing(saved)' = Missing(conn) BY DEF Missing
  <2>2. (\E u \in Tasks : Owing(task'[u])) <=> (\E u \in Tasks : Owing(task[u]))
    BY <1>1
  <2>3. QED BY <2>1, <2>2 DEF Journaled
<1>8. QED BY <1>2, <1>3, <1>4, <1>5, <1>6, <1>7

-----------------------------------------------------------------------------
(* What a mutation makes of the table                                      *)

\* The rows after a step: inserted anew, of the same content as before, or
\* one mutation further on, with what is gained held by the parent.
MutatedRow(n) ==
    LET old == rows[n].rec
        new == rows'[n].rec
    IN  /\ new.revision = old.revision + 1
        /\ new.parent = old.parent
        /\ \E f \in ContentFields : \A g \in ContentFields \ {f} : new[g] = old[g]
        /\ Len(new.grants) - Len(old.grants) \in -1 .. 1
        /\ new.parent # NoParent => GainsFromParent(n)

RowsMoveRight ==
    \A n \in Registered' :
        \/ rows'[n].rec.revision = 1
        \/ n \in Registered /\ Alike(rows'[n].rec, rows[n].rec)
        \/ n \in Registered /\ MutatedRow(n)

LEMMA NoChange == ASSUME UNCHANGED rows PROVE RowsMoveRight
BY DEF RowsMoveRight, Alike, Registered

LEMMA UpdatedFacts ==
    ASSUME NEW d, IsDatabase(d), NEW n, NEW record \in Records
    PROVE  LET after == Updated(d, n, record)
           IN  /\ IsDatabase(after)
               /\ after.events = d.events /\ after.moved = d.moved
               /\ DOMAIN after.rows = DOMAIN d.rows
               /\ \A m \in DOMAIN d.rows \ {n} : after.rows[m] = d.rows[m]
               /\ n \in DOMAIN d.rows =>
                     /\ after.rows[n].line = d.rows[n].line
                     /\ after.rows[n].rec = [record EXCEPT !.revision = @ + 1]
<1> DEFINE saving == [record EXCEPT !.revision = @ + 1]
           table == IF n \in DOMAIN d.rows THEN [d.rows EXCEPT ![n].rec = saving] ELSE d.rows
<1>1. saving \in Records BY DEF Records
<1>2. Updated(d, n, record) = [d EXCEPT !.rows = table] BY DEF Updated
<1> HIDE DEF saving
<1>3. /\ DOMAIN table = DOMAIN d.rows
      /\ \A m \in DOMAIN d.rows \ {n} : table[m] = d.rows[m]
  OBVIOUS
<1>4. ASSUME n \in DOMAIN d.rows
      PROVE  table[n] \in Rows /\ table[n].line = d.rows[n].line /\ table[n].rec = saving
  <2>1. d.rows[n] \in Rows BY <1>4 DEF IsDatabase
  <2>2. table[n] = [d.rows[n] EXCEPT !.rec = saving] BY <1>4
  <2>3. QED BY <1>1, <2>1, <2>2 DEF Rows
<1>5. \A m \in DOMAIN table : table[m] \in Rows BY <1>3, <1>4 DEF IsDatabase
<1> HIDE DEF table
<1>6. /\ Updated(d, n, record).rows = table
      /\ Updated(d, n, record).events = d.events
      /\ Updated(d, n, record).moved = d.moved
      /\ Updated(d, n, record) = [rows |-> table, events |-> d.events, moved |-> d.moved]
  BY <1>2 DEF IsDatabase
<1>7. IsDatabase(Updated(d, n, record)) BY <1>3, <1>5, <1>6 DEF IsDatabase
<1>8. QED BY <1>3, <1>4, <1>6, <1>7 DEF saving

\* The task that read a row under the lock saves a mutation of what it read.
\* The row still is what was read: nothing another task wrote is lost.
LEMMA Saves ==
    ASSUME IInv, NEW t \in Tasks, Reading(task[t]),
           NEW k, task' = [task EXCEPT ![t] = k], k.pc = "written", IsTask(k),
           IsSoundTask(k, authority'), k.call = Call(t),
           NEW record \in Records, OneChange(task[t].rec, record),
           PairsOf(record.grants) \subseteq PairsOf(task[t].rec.grants) \cup authority',
           record.parent # NoParent =>
               PairsOf(record.grants) \subseteq
                   PairsOf(task[t].rec.grants)
                   \cup (IF At(t, "resolved") THEN PairsOf(task[t].row.rec.grants) ELSE {}),
           authority \subseteq authority', authority' \in SUBSET Pairs,
           UNCHANGED <<saved, queue, now, setbacks>>, ScorersTyped',
           NEW d, IsDatabase(d), d.rows = conn.rows, d.events = conn.events,
           d.moved = conn.moved + (IF IsTrustCall(k.call) THEN 1 ELSE 0),
           conn' = Updated(d, Call(t).name, record)
    PROVE  IInv' /\ RowsMoveRight
<1> DEFINE n == Call(t).name
           saving == [record EXCEPT !.revision = @ + 1]
<1>1. /\ n \in Registered /\ Alike(rows[n].rec, task[t].rec)
      /\ At(t, "resolved") => \E p \in HoldersOf(task[t].rec.parent) :
                                 rows[p].rec.grants = task[t].row.rec.grants
  BY DEF IInv, ReadsAreCurrent, IsCurrent, Registered, rows, Call, At, HoldersOf
<1>2. /\ IsDatabase(conn') /\ conn'.events = conn.events /\ conn'.moved = d.moved
      /\ Registered' = Registered
      /\ \A m \in Registered \ {n} : rows'[m] = rows[m]
      /\ rows'[n].line = rows[n].line /\ rows'[n].rec = saving
  BY <1>1, UpdatedFacts DEF Registered, rows
<1>3. /\ saving.revision = record.revision + 1 /\ saving.parent = record.parent
      /\ saving.grants = record.grants /\ saving.status = record.status
      /\ saving.key = record.key /\ saving.ceiling = record.ceiling
  BY DEF Records
<1> HIDE DEF n, saving
<1>4. rows[n] \in Rows /\ rows[n].rec \in Records
  BY <1>1 DEF IInv, Types, IsDatabase, Registered, rows, Rows
<1>5. IsSoundRow(rows'[n], authority')
  <2>1. IsSoundRow(rows[n], authority) BY <1>1 DEF IInv, Sound, Registered, rows
  <2>2. PairsOf(task[t].rec.grants) = PairsOf(rows[n].rec.grants) BY <1>1 DEF Alike
  <2>3. PairsOf(rows'[n].rec.grants) \subseteq authority'
    BY <1>2, <1>3, <2>1, <2>2 DEF IsSoundRow
  <2>4. rows'[n].rec.ceiling = rows[n].rec.ceiling
    BY <1>1, <1>2, <1>3 DEF OneChange, Alike
  <2>5. QED BY <1>2, <2>1, <2>3, <2>4 DEF IsSoundRow
<1>6. \A m \in DOMAIN conn'.rows : IsSoundRow(conn'.rows[m], authority')
  <2>1. ASSUME NEW m \in Registered, m # n PROVE IsSoundRow(rows'[m], authority')
    BY <1>2, <2>1, SoundGrows DEF IInv, Sound, Registered, rows
  <2>2. QED BY <1>2, <1>5, <2>1 DEF Registered, rows
<1>7. HoldsLock(t) /\ ~Writing(task[t]) /\ ~Owing(task[t])
  BY DEF IInv, Locks, Inside, Reading, Writing, Owing
<1>8. IInv' BY <1>2, <1>6, <1>7, Writes
<1>9. MutatedRow(n)
  <2>1. rows'[n].rec.revision = rows[n].rec.revision + 1
    BY <1>1, <1>2, <1>3 DEF OneChange, Alike
  <2>2. rows'[n].rec.parent = rows[n].rec.parent
    BY <1>1, <1>2, <1>3 DEF OneChange, Alike
  <2>3. \A f \in ContentFields :
           rows'[n].rec[f] = record[f] /\ rows[n].rec[f] = task[t].rec[f]
    BY <1>1, <1>2, <1>3 DEF Alike, ContentFields
  <2>4. \E f \in ContentFields : \A g \in ContentFields \ {f} :
           rows'[n].rec[g] = rows[n].rec[g]
    BY <2>3 DEF OneChange
  <2>5. Len(rows'[n].rec.grants) - Len(rows[n].rec.grants) \in -1 .. 1
    BY <1>1, <1>2, <1>3 DEF OneChange, Alike
  <2>6. ASSUME rows'[n].rec.parent # NoParent PROVE GainsFromParent(n)
    <3>1. Held(n) = PairsOf(task[t].rec.grants) BY <1>1 DEF Held, Alike
    <3>2. /\ rows'[n].rec.parent = record.parent /\ record.parent = task[t].rec.parent
          /\ rows'[n].rec.grants = record.grants
      BY <1>2, <1>3 DEF OneChange
    <3>3. CASE At(t, "resolved")
      <4>1. PICK p \in HoldersOf(task[t].rec.parent) :
                rows[p].rec.grants = task[t].row.rec.grants
        BY <1>1, <3>3
      <4>2. Held(p) = PairsOf(task[t].row.rec.grants)
        BY <4>1 DEF Held, HoldersOf
      <4>3. PairsOf(record.grants) \ Held(n) \subseteq Held(p)
        BY <2>6, <3>1, <3>2, <3>3, <4>2
      <4>4. QED BY <3>2, <4>1, <4>3 DEF GainsFromParent
    <3>4. CASE ~At(t, "resolved")
      <4>1. PairsOf(record.grants) \ Held(n) = {} BY <2>6, <3>1, <3>2, <3>4
      <4>2. QED BY <3>2, <4>1 DEF GainsFromParent
    <3>5. QED BY <3>3, <3>4
  <2>7. QED BY <2>1, <2>2, <2>4, <2>5, <2>6 DEF MutatedRow
<1>10. RowsMoveRight
  <2>1. ASSUME NEW m \in Registered, m # n PROVE Alike(rows'[m].rec, rows[m].rec)
    BY <1>2, <2>1 DEF Alike
  <2>2. QED BY <1>1, <1>2, <1>9, <2>1 DEF RowsMoveRight
<1>11. QED BY <1>8, <1>10

\* The record a task read, and that record with its trust refreshed.
LEMMA OwnFacts ==
    ASSUME IInv, NEW t \in Tasks, Reading(task[t])
    PROVE  /\ task[t].rec \in Records /\ Call(t) \in Mutations
           /\ OwnRecord(t) \in Records
           /\ Alike(OwnRecord(t), task[t].rec)
           /\ At(t, "resolved") => task[t].row \in Rows /\ Call(t).grant \in Grants
           /\ At(t, "selected") => task[t] \in SelectedTasks
           /\ At(t, "resolved") => task[t] \in GrantingTasks
<1>1. IsTask(task[t]) BY DEF IInv, Types
<1>2. CASE At(t, "selected")
  <2>1. task[t] \in SelectedTasks BY <1>1, <1>2, TaskShape DEF At
  <2>2. task[t].rec \in Records /\ Call(t) \in Mutations BY <2>1 DEF SelectedTasks, Call
  <2>3. QED BY <1>2, <2>1, <2>2, SyncedFacts DEF IInv, OwnRecord, At
<1>3. CASE At(t, "resolved") /\ Kind(t) = "add_grant"
  <2>1. task[t] \in GrantingTasks BY <1>1, <1>3, TaskShape DEF At, Kind, Call
  <2>2. /\ task[t].rec \in Records /\ task[t].row \in Rows
        /\ Call(t) \in Mutations /\ Call(t) \in CallType
    BY <2>1 DEF GrantingTasks, GrantMutations, Mutations, Call
  <2>3. Call(t).grant \in Grants BY <1>3, <2>2, CallFacts DEF Kind
  <2>4. QED BY <1>3, <2>1, <2>2, <2>3 DEF OwnRecord, At, Alike
<1>4. QED BY <1>2, <1>3 DEF Reading, At, Kind, Call

-----------------------------------------------------------------------------
(* The steps that write nothing                                            *)

LEMMA CallsTyped == ASSUME NEW call \in Calls PROVE call \in CallType
BY SqliteRegistryAssumption

LEMMA ScorersStay == ASSUME IInv, UNCHANGED <<scorers, now>> PROVE ScorersTyped'
BY DEF IInv, Types, ScorersTyped

LEMMA StartLockedKeeps ==
    ASSUME IInv, NEW t \in Tasks, NEW call \in Calls, StartLocked(t, call)
    PROVE  IInv'
<1> DEFINE k == IF call.kind = "register"
                THEN [pc |-> "waiting", call |-> call,
                      rec |-> RootRecord(call.request), line |-> {}]
                ELSE [pc |-> "waiting", call |-> call]
<1>1. /\ task' = [task EXCEPT ![t] = k] /\ Enqueue(t) /\ At(t, "idle")
      /\ UNCHANGED <<conn, saved, scorers, now, authority, setbacks>>
      /\ call.kind # "list_by_tier" /\ ~HasParentToResolve(call) /\ call \in CallType
  BY CallsTyped DEF StartLocked
<1>2. k.pc = "waiting" /\ k.call = call OBVIOUS
<1>3. IsTask(k) /\ IsSoundTask(k, authority)
  <2>1. CASE call.kind = "register"
    <3>1. /\ call \in Registrations /\ call.request \in RequestType
          /\ call.request.parent = NoParent
      BY <1>1, <2>1, CallFacts DEF Registrations, HasParentToResolve
    <3>2. RootRecord(call.request) \in Records /\ RootRecord(call.request).revision = 1
          /\ RootRecord(call.request).grants = call.request.grants
      BY <3>1, RootType, LineageAssumption DEF RootRecord, NewRecord
    <3>3. k = [pc |-> "waiting", call |-> call, rec |-> RootRecord(call.request), line |-> {}]
      BY <2>1
    <3>4. k \in RegisteringTasks BY <3>1, <3>2, <3>3 DEF RegisteringTasks
    <3>5. IsTask(k) BY <3>4 DEF IsTask
    <3>6. QED BY <3>1, <3>2, <3>3, <3>5, TaskShape DEF IsSoundTask
  <2>2. CASE call.kind # "register"
    <3>1. call \in Mutations BY <1>1, <2>2, CallFacts DEF Registrations
    <3>2. k \in WaitingTasks BY <2>2, <3>1 DEF WaitingTasks
    <3>3. IsTask(k) BY <3>2 DEF IsTask
    <3>4. k \notin RegisteringTasks /\ k \notin ResolvedTasks
      BY <1>2, <2>2, <3>3, TaskShape
    <3>5. QED BY <3>3, <3>4 DEF IsSoundTask
  <2>3. QED BY <2>1, <2>2
<1> HIDE DEF k
<1>4. ~Reading(k) /\ ~Writing(k) /\ ~Owing(k) /\ ~Settled(k)
  BY <1>2 DEF Reading, Writing, Owing, Settled
<1>5. IsCurrent(k, conn.rows) BY <1>4 DEF IsCurrent
<1>6. Outside(task[t]) /\ ~Writing(task[t]) /\ ~Owing(task[t])
  BY <1>1 DEF At, Outside, Writing, Owing
<1>7. Locks' BY <1>1, <1>2, <1>6, LockQueued DEF IInv
<1>8. ScorersTyped' BY <1>1, ScorersStay
<1>9. QED BY <1>1, <1>3, <1>4, <1>5, <1>6, <1>7, <1>8, WritesNothing

LEMMA StartChildKeeps ==
    ASSUME IInv, NEW t \in Tasks, NEW call \in Calls, NEW p \in Registered,
           StartChild(t, call, p)
    PROVE  IInv'
<1> DEFINE k == [pc |-> "resolved", call |-> call, parent |-> p, row |-> rows[p]]
<1>1. /\ task' = [task EXCEPT ![t] = k] /\ At(t, "idle")
      /\ UNCHANGED <<conn, saved, scorers, queue, now, authority, setbacks>>
      /\ call.kind = "register" /\ call \in CallType
  BY CallsTyped DEF StartChild, HasParentToResolve
<1>2. k.pc = "resolved" /\ k.call = call /\ k.row = rows[p] OBVIOUS
<1>3. rows[p] \in Rows /\ p \in Names /\ IsSoundRow(rows[p], authority)
  BY DEF IInv, Types, IsDatabase, Sound, Registered, rows
<1>4. k \in ResolvedTasks BY <1>1, <1>3 DEF ResolvedTasks, Registrations
<1> HIDE DEF k
<1>5. IsTask(k) BY <1>4 DEF IsTask
<1>6. IsSoundTask(k, authority)
  BY <1>2, <1>3, <1>5, TaskShape DEF IsSoundTask
<1>7. ~Reading(k) /\ ~Writing(k) /\ ~Owing(k) /\ ~Settled(k) /\ ~Inside(k)
  BY <1>1, <1>2 DEF Reading, Writing, Owing, Settled, Inside
<1>8. IsCurrent(k, conn.rows) BY <1>7 DEF IsCurrent
<1>9. Outside(task[t]) /\ ~Writing(task[t]) /\ ~Owing(task[t])
  BY <1>1 DEF At, Outside, Writing, Owing
<1>10. Locks' BY <1>1, <1>7, <1>9, LockStays DEF IInv
<1>11. ScorersTyped' BY <1>1, ScorersStay
<1>12. QED BY <1>1, <1>5, <1>6, <1>7, <1>8, <1>9, <1>10, <1>11, WritesNothing

\* A task that returns without the lock held.
LEMMA IdleFacts ==
    /\ IsTask(Idle) /\ ~Reading(Idle) /\ ~Writing(Idle) /\ ~Owing(Idle) /\ ~Inside(Idle)
    /\ ~Settled(Idle)
    /\ \A roots : IsSoundTask(Idle, roots)
    /\ \A table : IsCurrent(Idle, table)
<1>1. /\ IsTask(Idle) /\ ~Reading(Idle) /\ ~Writing(Idle) /\ ~Owing(Idle) /\ ~Inside(Idle)
      /\ Idle.pc = "idle" /\ ~Settled(Idle)
  BY DEF Idle, IsTask, Reading, Writing, Owing, Inside, Settled, IsTrustCall
<1>2. Idle \notin RegisteringTasks /\ Idle \notin ResolvedTasks
  BY <1>1, TaskShape
<1>3. QED BY <1>1, <1>2 DEF IsSoundTask, IsCurrent

LEMMA ReturnsUnlocked ==
    ASSUME IInv, NEW t \in Tasks, ReturnUnlocked(t), ~Writing(task[t]),
           ~Owing(task[t]), UNCHANGED <<conn, saved, now, authority, setbacks>>, ScorersTyped'
    PROVE  IInv'
<1>1. task' = [task EXCEPT ![t] = Idle] BY DEF ReturnUnlocked, Return
<1>2. Locks' BY LockReleased DEF IInv
<1>3. QED BY <1>1, <1>2, IdleFacts, WritesNothing

LEMMA ReturnsFromOutside ==
    ASSUME IInv, NEW t \in Tasks, Return(t), Outside(task[t]),
           UNCHANGED <<conn, saved, queue, scorers, now, authority, setbacks>>
    PROVE  IInv'
<1>1. task' = [task EXCEPT ![t] = Idle] BY DEF Return
<1>2. ~Writing(task[t]) /\ ~Owing(task[t]) BY DEF Outside, Writing, Owing
<1>3. Locks' BY <1>1, IdleFacts, LockStays DEF IInv
<1>4. ScorersTyped' BY ScorersStay
<1>5. QED BY <1>1, <1>2, <1>3, <1>4, IdleFacts, WritesNothing

\* The child's ceiling is below the trust its parent has now and below the
\* ceiling, hence the lineage, of the row that was read.
LEMMA QueueChildKeeps ==
    ASSUME IInv, NEW t \in Tasks, QueueChild(t)
    PROVE  IInv'
<1> DEFINE r == Call(t).request
           row == task[t].row
           parent == Synced(task[t].parent, row.rec)
           L == row.line \cup {parent.trust}
           k == [pc |-> "waiting", call |-> Call(t), rec |-> ChildRecord(r, parent), line |-> L]
<1>1. /\ task[t] \in ResolvedTasks /\ IsSoundRow(row, authority)
      /\ UNCHANGED <<conn, saved, scorers, now, authority, setbacks>>
      /\ At(t, "resolved") /\ Kind(t) = "register"
  <2>1. At(t, "resolved") /\ Kind(t) = "register" BY DEF QueueChild
  <2>2. task[t] \in ResolvedTasks
    BY <2>1, TaskShape DEF IInv, Types, At, Kind, Call
  <2>3. IsSoundRow(row, authority) BY <2>2 DEF IInv, Sound, IsSoundTask
  <2>4. QED BY <2>1, <2>2, <2>3 DEF QueueChild
<1>2. /\ Call(t) \in Registrations /\ r \in RequestType
      /\ row.rec \in Records /\ row.line \subseteq TrustValues
  BY <1>1, CallFacts DEF ResolvedTasks, Registrations, Rows, Call
<1>3. parent \in Records /\ Alike(parent, row.rec) BY <1>2, SyncedFacts DEF IInv
<1>4. \/ /\ NarrowsGrants(parent, r.grants)
         /\ task' = [task EXCEPT ![t] = k] /\ Enqueue(t)
      \/ Return(t) /\ UNCHANGED queue
  BY DEF QueueChild
<1>5. Outside(task[t]) BY <1>1 DEF Outside, At, Kind, Call
<1>6. CASE Return(t) /\ UNCHANGED queue BY <1>1, <1>5, <1>6, ReturnsFromOutside
<1>7. ASSUME NarrowsGrants(parent, r.grants), task' = [task EXCEPT ![t] = k], Enqueue(t)
      PROVE  IInv'
  <2>1. k.pc = "waiting" /\ k.call = Call(t) /\ k.rec = ChildRecord(r, parent) /\ k.line = L
    OBVIOUS
  <2> HIDE DEF parent
  <2>2. /\ ChildRecord(r, parent) \in Records
        /\ ChildRecord(r, parent).ceiling <= parent.ceiling
        /\ ChildRecord(r, parent).ceiling <= parent.trust
        /\ ChildRecord(r, parent).ceiling \in TrustValues
        /\ ChildRecord(r, parent).grants = r.grants
    BY <1>2, <1>3, ChildBounded, LineageAssumption
  <2>3. ChildRecord(r, parent).revision = 1 BY DEF ChildRecord, NewRecord
  <2>4. parent.trust \in TrustValues /\ parent.ceiling \in TrustValues
        /\ parent.ceiling = row.rec.ceiling /\ parent.grants = row.rec.grants
    BY <1>3 DEF Records, Alike
  <2>5. L \subseteq TrustValues BY <1>2, <2>4
  <2>6. \A v \in L : ChildRecord(r, parent).ceiling <= v
    <3> SUFFICES ASSUME NEW v \in L PROVE ChildRecord(r, parent).ceiling <= v OBVIOUS
    <3>1. CASE v = parent.trust BY <2>2, <3>1
    <3>2. CASE v \in row.line
      <4>1. parent.ceiling <= v BY <1>1, <2>4, <3>2 DEF IsSoundRow
      <4>2. QED BY <2>2, <2>4, <2>5, <4>1, TrustAssumption DEF TrustValues
    <3>3. QED BY <3>1, <3>2
  <2>7. PairsOf(r.grants) \subseteq authority
    BY <1>1, <1>7, <2>4 DEF NarrowsGrants, IsSoundRow
  <2>8. k \in RegisteringTasks
    BY <1>2, <2>2, <2>5 DEF RegisteringTasks
  <2>9. IsTask(k) BY <2>8 DEF IsTask
  <2> HIDE DEF k, L
  <2>10. IsSoundTask(k, authority)
    <3>1. k \notin ResolvedTasks BY <2>1, <2>9, TaskShape
    <3>2. QED BY <2>1, <2>2, <2>3, <2>6, <2>7, <3>1 DEF IsSoundTask
  <2>11. ~Reading(k) /\ ~Writing(k) /\ ~Owing(k) /\ ~Settled(k)
    BY <2>1 DEF Reading, Writing, Owing, Settled
  <2>12. IsCurrent(k, conn.rows) BY <2>11 DEF IsCurrent
  <2>13. ~Writing(task[t]) /\ ~Owing(task[t]) BY <1>5 DEF Outside, Writing, Owing
  <2>14. Locks' BY <1>5, <1>7, <2>1, LockQueued DEF IInv
  <2>15. ScorersTyped' BY <1>1, ScorersStay
  <2>16. QED
    BY <1>1, <1>7, <2>9, <2>10, <2>11, <2>12, <2>13, <2>14, <2>15, WritesNothing
<1>8. QED BY <1>4, <1>6, <1>7

LEMMA SelectKeeps ==
    ASSUME IInv, NEW t \in Tasks, Select(t)
    PROVE  IInv'
<1> DEFINE n == Call(t).name
           k == [pc |-> "selected", call |-> Call(t), rec |-> rows[n].rec]
<1>1. /\ At(t, "waiting") /\ Kind(t) # "register" /\ HoldsLock(t)
      /\ UNCHANGED <<conn, saved, scorers, now, authority, setbacks>>
  BY DEF Select
<1>2. ~Writing(task[t]) /\ ~Owing(task[t]) /\ ~Outside(task[t])
  BY <1>1 DEF At, Writing, Owing, Outside
<1>3. ScorersTyped' BY <1>1, ScorersStay
<1>4. Call(t) \in Mutations
  <2>1. task[t] \in WaitingTasks BY <1>1, TaskShape DEF IInv, Types, At, Kind, Call
  <2>2. QED BY <2>1 DEF WaitingTasks, Call
<1>5. CASE n \notin Registered
  BY <1>1, <1>2, <1>3, <1>5, ReturnsUnlocked DEF Select
<1>6. CASE n \in Registered
  <2>1. task' = [task EXCEPT ![t] = k] /\ UNCHANGED queue BY <1>6 DEF Select
  <2>2. rows[n].rec \in Records
    BY <1>6 DEF IInv, Types, IsDatabase, Registered, rows, Rows
  <2>3. k \in SelectedTasks BY <1>4, <2>2 DEF SelectedTasks
  <2>4. k.pc = "selected" /\ k.call = Call(t) /\ k.rec = rows[n].rec OBVIOUS
  <2>5. IsTask(k) BY <2>3, <2>4 DEF IsTask
  <2>6. IsCurrent(k, conn.rows)
    BY <1>6, <2>4 DEF IsCurrent, Alike, Registered, rows
  <2> HIDE DEF k
  <2>7. IsSoundTask(k, authority)
    <3>1. k \notin RegisteringTasks /\ k \notin ResolvedTasks BY <2>4, <2>5, TaskShape
    <3>2. QED BY <3>1 DEF IsSoundTask
  <2>8. ~Writing(k) /\ ~Owing(k) /\ ~Settled(k) /\ ~Outside(k)
    BY <2>4 DEF Writing, Owing, Settled, Outside
  <2>9. Locks' BY <1>1, <2>1, <2>8, LockStays DEF IInv
  <2>10. QED BY <1>1, <1>2, <1>3, <2>1, <2>5, <2>6, <2>7, <2>8, <2>9, WritesNothing
<1>7. QED BY <1>5, <1>6

LEMMA SelectParentKeeps ==
    ASSUME IInv, NEW t \in Tasks, SelectParent(t)
    PROVE  IInv'
<1>1. /\ At(t, "selected") /\ Kind(t) = "add_grant"
      /\ UNCHANGED <<conn, saved, scorers, now, authority, setbacks>>
  BY DEF SelectParent
<1>2. /\ ~Writing(task[t]) /\ ~Owing(task[t]) /\ ~Outside(task[t])
      /\ Reading(task[t]) /\ Inside(task[t])
  BY <1>1 DEF At, Writing, Owing, Outside, Reading, Inside
<1>3. ScorersTyped' BY <1>1, ScorersStay
<1>4. HoldsLock(t) BY <1>2 DEF IInv, Locks
<1>5. CASE HoldersOf(task[t].rec.parent) = {}
  BY <1>1, <1>2, <1>3, <1>5, ReturnsUnlocked DEF SelectParent
<1>6. CASE HoldersOf(task[t].rec.parent) # {}
  <2>1. PICK p \in HoldersOf(task[t].rec.parent) :
            task' = [task EXCEPT ![t] = [pc |-> "resolved", call |-> Call(t),
                                         rec |-> OwnRecord(t), row |-> rows[p]]]
    BY <1>6 DEF SelectParent
  <2> DEFINE k == [pc |-> "resolved", call |-> Call(t), rec |-> OwnRecord(t), row |-> rows[p]]
  <2>2. UNCHANGED queue BY <1>6 DEF SelectParent
  <2>3. /\ p \in Registered /\ rows[p] \in Rows
        /\ rows[p].rec.id = task[t].rec.parent
    BY <2>1 DEF HoldersOf, IInv, Types, IsDatabase, Registered, rows
  <2>4. /\ OwnRecord(t) \in Records /\ Alike(OwnRecord(t), task[t].rec)
        /\ Call(t) \in Mutations
    BY <1>2, OwnFacts
  <2>5. k \in GrantingTasks
    BY <1>1, <2>3, <2>4 DEF GrantingTasks, GrantMutations, Kind
  <2>6. k.pc = "resolved" /\ k.call = Call(t) /\ k.rec = OwnRecord(t) /\ k.row = rows[p]
    OBVIOUS
  <2>7. task' = [task EXCEPT ![t] = k] BY <2>1
  <2> HIDE DEF k
  <2>8. IsTask(k) BY <2>5 DEF IsTask
  <2>9. IsCurrent(k, conn.rows)
    <3>1. /\ Call(t).name \in Registered /\ Alike(rows[Call(t).name].rec, task[t].rec)
      BY <1>2 DEF IInv, ReadsAreCurrent, IsCurrent, Registered, rows, Call
    <3>2. Alike(rows[Call(t).name].rec, OwnRecord(t)) BY <2>4, <3>1 DEF Alike
    <3>3. rows[p].rec.id = k.rec.parent /\ rows[p].rec.grants = k.row.rec.grants
      BY <2>3, <2>4, <2>6 DEF Alike
    <3>4. QED BY <2>3, <2>6, <3>1, <3>2, <3>3 DEF IsCurrent, Registered, rows
  <2>10. IsSoundTask(k, authority)
    <3>1. k \notin RegisteringTasks /\ k \notin ResolvedTasks
      BY <1>1, <2>6, <2>8, TaskShape DEF Kind
    <3>2. QED BY <3>1 DEF IsSoundTask
  <2>11. ~Writing(k) /\ ~Owing(k) /\ ~Settled(k) /\ ~Outside(k)
    BY <1>1, <2>6 DEF Writing, Owing, Settled, Outside, Kind
  <2>12. Locks' BY <1>4, <2>2, <2>7, <2>11, LockStays DEF IInv
  <2>13. QED BY <1>1, <1>2, <1>3, <2>7, <2>8, <2>9, <2>10, <2>11, <2>12, WritesNothing
<1>7. QED BY <1>5, <1>6

LEMMA RefuseGrantKeeps ==
    ASSUME IInv, NEW t \in Tasks, RefuseGrant(t)
    PROVE  IInv'
<1>1. ~Writing(task[t]) /\ ~Owing(task[t])
  BY DEF RefuseGrant, At, Writing, Owing
<1>2. ScorersTyped' BY ScorersStay DEF RefuseGrant
<1>3. QED BY <1>1, <1>2, ReturnsUnlocked DEF RefuseGrant

\* The scorer that a trust call leaves, and its journal entry.
LEMMA TrustCallFacts ==
    ASSUME IInv, NEW t \in Tasks, At(t, "selected"), IsTrustCall(Call(t))
    PROVE  /\ Call(t) \in TrustMutations /\ Call(t).name \in Names
           /\ NewScorerOf(t) \in Scorers /\ NewScorerOf(t).signal <= now
           /\ Value(NewScorerOf(t), now) \in TrustValues
           /\ Entry(t) \in JournalEntries
<1>1. /\ task[t].rec \in Records /\ Call(t) \in Mutations
  BY OwnFacts DEF Reading, At
<1>2. task[t].rec.trust \in TrustValues /\ task[t].rec.id \in Ids BY <1>1 DEF Records
<1>3. Call(t) \in TrustMutations /\ Call(t).name \in Names
  BY <1>1, CallFacts DEF TrustMutations, Mutations
<1>4. One \in TrustValues BY TrustAssumption DEF TrustValues
<1>5. OldScorer(t) \in Scorers /\ OldScorer(t).signal <= now
  BY <1>2, <1>4, ScorerFacts DEF IInv, OldScorer
<1>6. now \in Nat BY DEF IInv, Types
<1>7. NewScorerOf(t) \in Scorers /\ NewScorerOf(t).signal <= now
  BY <1>3, <1>5, <1>6, MovedFacts DEF NewScorerOf
<1>8. Value(NewScorerOf(t), now) \in TrustValues BY <1>6, <1>7, ValueBounds
<1>9. Entry(t) \in JournalEntries BY <1>2, <1>3, <1>5, <1>6, EntryFacts DEF Entry
<1>10. QED BY <1>3, <1>7, <1>8, <1>9

LEMMA StatementFailsKeeps ==
    ASSUME IInv, NEW t \in Tasks, StatementFails(t)
    PROVE  IInv'
<1>1. /\ setbacks' = setbacks + 1 /\ ReturnUnlocked(t) /\ conn' \in {conn, saved}
      /\ UNCHANGED <<saved, now, authority>>
  BY DEF StatementFails, Setback, KeepOrRollBack
<1>2. Return(t) /\ HoldsLock(t) BY <1>1 DEF ReturnUnlocked, Release
<1>3. ScorersTyped'
  <2>1. CASE At(t, "selected") /\ IsTrustCall(Call(t))
    <3>1. scorers' = Put(scorers, Call(t).name, NewScorerOf(t)) BY <2>1 DEF StatementFails
    <3>2. QED BY <1>1, <2>1, <3>1, TrustCallFacts, PutScorer DEF IInv, ScorersTyped
  <2>2. CASE ~(At(t, "selected") /\ IsTrustCall(Call(t)))
    BY <1>1, <2>2, ScorersStay DEF StatementFails
  <2>3. QED BY <2>1, <2>2
<1>4. Locks' BY <1>1, LockReleased DEF IInv
<1>5. QED BY <1>1, <1>2, <1>3, <1>4, BreaksOff

LEMMA CommitFailsKeeps ==
    ASSUME IInv, NEW t \in Tasks, CommitFails(t)
    PROVE  IInv'
<1>1. /\ setbacks' = setbacks + 1 /\ ReturnUnlocked(t) /\ conn' \in {conn, saved}
      /\ UNCHANGED <<saved, scorers, now, authority>>
  BY DEF CommitFails, Setback, KeepOrRollBack
<1>2. Return(t) /\ HoldsLock(t) BY <1>1 DEF ReturnUnlocked, Release
<1>3. Locks' /\ ScorersTyped' BY <1>1, LockReleased, ScorersStay DEF IInv
<1>4. QED BY <1>1, <1>2, <1>3, BreaksOff

LEMMA CancelKeeps ==
    ASSUME IInv, NEW t \in Tasks, Cancel(t)
    PROVE  IInv'
<1>1. /\ setbacks' = setbacks + 1 /\ Return(t) /\ LeaveQueue(t)
      /\ UNCHANGED <<conn, saved, scorers, now, authority>>
  BY DEF Cancel, Setback
<1>2. Locks' /\ ScorersTyped' BY <1>1, LockLeft, ScorersStay DEF IInv
<1>3. QED BY <1>1, <1>2, BreaksOff

LEMMA FinishKeeps ==
    ASSUME IInv, NEW t \in Tasks, Finish(t)
    PROVE  IInv'
<1>1. /\ ReturnUnlocked(t) /\ UNCHANGED <<conn, saved, now, authority, setbacks>>
      /\ \/ At(t, "committed") /\ ~IsTrustCall(Call(t))
         \/ At(t, "recorded")
  BY DEF Finish
<1>2. ~Writing(task[t]) /\ ~Owing(task[t])
  BY <1>1 DEF At, Call, Writing, Owing
<1>3. ScorersTyped'
  <2>1. CASE Kind(t) = "register"
    <3> DEFINE n == Call(t).request.name
               s == ScorerFor(n, task[t].rec.trust, task[t].rec.ceiling)
    <3>1. scorers' = Put(scorers, n, s) BY <2>1 DEF Finish
    <3>2. task[t] \in RegisteringTasks
      <4>1. IsTask(task[t]) BY DEF IInv, Types
      <4>2. At(t, "committed")
        <5>1. ASSUME At(t, "recorded") PROVE FALSE
          <6>1. task[t] \in JournalingTasks BY <4>1, <5>1, TaskShape DEF At
          <6>2. QED BY <2>1, <6>1 DEF JournalingTasks, TrustMutations, IsTrustCall, Kind, Call
        <5>2. QED BY <1>1, <5>1
      <4>3. task[t] \in RegisteringTasks \cup SelectedTasks \cup GrantingTasks \cup JournalingTasks
        BY <4>1, <4>2, TaskShape DEF At
      <4>4. QED
        BY <2>1, <4>3 DEF SelectedTasks, GrantingTasks, JournalingTasks, TrustMutations,
                          GrantMutations, Mutations, NamesAnAgent, Kind, Call
    <3>3. /\ n \in Names /\ task[t].rec.trust \in TrustValues
          /\ task[t].rec.ceiling \in TrustValues
      <4>1. Call(t) \in Registrations /\ task[t].rec \in Records
        BY <3>2 DEF RegisteringTasks, Call
      <4>2. Call(t).request \in RequestType BY <4>1, CallFacts DEF Registrations
      <4>3. QED BY <4>1, <4>2 DEF RequestType, Records
    <3>4. s \in Scorers /\ s.signal <= now BY <3>3, ScorerFacts DEF IInv
    <3> HIDE DEF s
    <3>5. QED BY <1>1, <3>1, <3>3, <3>4, PutScorer DEF IInv, ScorersTyped
  <2>2. CASE Kind(t) = "deregister"
    <3>1. scorers' = Drop(scorers, Call(t).name) BY <2>2 DEF Finish
    <3>2. QED BY <1>1, <3>1 DEF Drop, IInv, Types, ScorersTyped
  <2>3. CASE Kind(t) # "register" /\ Kind(t) # "deregister"
    <3>1. scorers' = scorers BY <2>3 DEF Finish
    <3>2. QED BY <1>1, <3>1, ScorersStay
  <2>4. QED BY <2>1, <2>2, <2>3
<1>4. QED BY <1>1, <1>2, <1>3, ReturnsUnlocked

LEMMA StartListKeeps ==
    ASSUME IInv, NEW t \in Tasks, NEW call \in Calls, StartList(t, call)
    PROVE  IInv'
<1> DEFINE k == [pc |-> "syncing", call |-> call, seen |-> {},
                 size |-> Cardinality(DOMAIN scorers)]
<1>1. /\ task' = [task EXCEPT ![t] = k] /\ At(t, "idle")
      /\ UNCHANGED <<conn, saved, scorers, queue, now, authority, setbacks>>
  BY DEF StartList
<1>2. k.pc = "syncing" /\ IsListing(k) BY DEF IsListing
<1> HIDE DEF k
<1>3. IsTask(k) BY <1>2 DEF IsTask
<1>4. ~Reading(k) /\ ~Writing(k) /\ ~Owing(k) /\ ~Settled(k) /\ ~Inside(k)
  BY <1>2 DEF Reading, Writing, Owing, Settled, Inside
<1>5. IsSoundTask(k, authority) /\ IsCurrent(k, conn.rows)
  <2>1. k \notin RegisteringTasks /\ k \notin ResolvedTasks BY <1>2, <1>3, TaskShape
  <2>2. QED BY <1>4, <2>1 DEF IsSoundTask, IsCurrent
<1>6. Outside(task[t]) /\ ~Writing(task[t]) /\ ~Owing(task[t])
  BY <1>1 DEF At, Outside, Writing, Owing
<1>7. Locks' BY <1>1, <1>4, <1>6, LockStays DEF IInv
<1>8. ScorersTyped' BY <1>1, ScorersStay
<1>9. QED BY <1>1, <1>3, <1>4, <1>5, <1>6, <1>7, <1>8, WritesNothing

LEMMA SyncRaisesKeeps ==
    ASSUME IInv, NEW t \in Tasks, SyncRaises(t)
    PROVE  IInv'
<1>1. Outside(task[t]) BY DEF SyncRaises, At, Outside
<1>2. QED BY <1>1, ReturnsFromOutside DEF SyncRaises

-----------------------------------------------------------------------------
(* The steps that write                                                    *)

LEMMA InsertKeeps ==
    ASSUME IInv, NEW t \in Tasks, Insert(t)
    PROVE  IInv' /\ RowsMoveRight
<1> DEFINE r == Call(t).request
           k == [task[t] EXCEPT !.pc = "written"]
           row == [rec |-> task[t].rec, line |-> task[t].line]
           kept == Registered \ HoldersOf(r.id)
           table == Put([n \in kept |-> rows[n]], r.name, row)
<1>1. /\ At(t, "waiting") /\ Kind(t) = "register" /\ HoldsLock(t)
      /\ conn' = [conn EXCEPT !.rows = table]
      /\ authority' = IF r.parent = NoParent THEN authority \cup PairsOf(r.grants) ELSE authority
      /\ task' = [task EXCEPT ![t] = k]
      /\ UNCHANGED <<saved, scorers, queue, now, setbacks>>
  BY DEF Insert, Goto
<1>2. task[t] \in RegisteringTasks
  BY <1>1, TaskShape DEF IInv, Types, At, Kind, Call
<1>3. k \in RegisteringTasks /\ k.pc = "written" /\ k.call = Call(t)
      /\ k.rec = task[t].rec /\ k.line = task[t].line
  BY <1>2 DEF RegisteringTasks, Call
<1>4. IsTask(k) /\ k \notin ResolvedTasks
  <2>1. IsTask(k) BY <1>3 DEF IsTask
  <2>2. QED BY <1>3, <2>1, TaskShape
<1>5. /\ Call(t) \in CallType /\ r \in RequestType
      /\ task[t].rec \in Records /\ task[t].line \subseteq TrustValues
  BY <1>2, CallFacts DEF RegisteringTasks, Registrations, Call
<1>6. /\ task[t].rec.revision = 1
      /\ task[t].rec.grants = r.grants
      /\ r.parent # NoParent => PairsOf(task[t].rec.grants) \subseteq authority
      /\ \A v \in task[t].line : task[t].rec.ceiling <= v
  BY <1>2 DEF IInv, Sound, IsSoundTask, Call
<1>7. r.name \in Names /\ PairsOf(r.grants) \subseteq Pairs
  BY <1>5, PairsOfType DEF RequestType
<1>8. authority \subseteq authority' /\ authority' \in SUBSET Pairs
  BY <1>1, <1>7 DEF IInv, Types
<1>9. IsSoundRow(row, authority') BY <1>1, <1>6 DEF IsSoundRow
<1>10. row \in Rows BY <1>5 DEF Rows
<1>11. row.rec = task[t].rec OBVIOUS
<1> HIDE DEF k, row
<1>12. /\ DOMAIN table = kept \cup {r.name} /\ table[r.name] = row
       /\ \A n \in DOMAIN table \ {r.name} : n \in Registered /\ table[n] = rows[n]
  BY DEF Put
<1>13. \A n \in Registered : rows[n] \in Rows /\ n \in Names /\ IsSoundRow(rows[n], authority')
  BY <1>8, SoundGrows DEF IInv, Types, IsDatabase, Sound, Registered, rows
<1> HIDE DEF table
<1>14. \A n \in DOMAIN table : n \in Names /\ table[n] \in Rows /\ IsSoundRow(table[n], authority')
  BY <1>7, <1>9, <1>10, <1>12, <1>13
<1>15. /\ conn'.rows = table /\ conn'.events = conn.events /\ conn'.moved = conn.moved
       /\ IsDatabase(conn')
  BY <1>1, <1>14 DEF IInv, Types, IsDatabase
<1>16. IsSoundTask(k, authority')
  BY <1>1, <1>3, <1>4, <1>6 DEF IsSoundTask
<1>17. ScorersTyped' BY <1>1, ScorersStay
<1>18. ~Writing(task[t]) /\ ~Owing(task[t]) BY <1>1 DEF At, Writing, Owing
<1>19. ~IsTrustCall(k.call) BY <1>1, <1>3 DEF IsTrustCall, Kind
<1>20. conn'.moved = conn.moved + (IF IsTrustCall(k.call) THEN 1 ELSE 0)
  <2>1. conn.moved \in Nat BY DEF IInv, Types, IsDatabase
  <2>2. QED BY <1>15, <1>19, <2>1
<1>21. IInv'
  BY <1>1, <1>3, <1>4, <1>8, <1>14, <1>15, <1>16, <1>17, <1>18, <1>20, Writes
<1>22. RowsMoveRight
  <2>1. Registered' = DOMAIN table /\ rows' = table BY <1>15 DEF Registered, rows
  <2>2. rows'[r.name].rec.revision = 1 BY <1>6, <1>11, <1>12, <2>1
  <2>3. \A n \in Registered' \ {r.name} : n \in Registered /\ Alike(rows'[n].rec, rows[n].rec)
    BY <1>12, <2>1 DEF Alike
  <2>4. QED BY <2>2, <2>3 DEF RowsMoveRight
<1>23. QED BY <1>21, <1>22

LEMMA DeleteKeeps ==
    ASSUME IInv, NEW t \in Tasks, Delete(t)
    PROVE  IInv' /\ RowsMoveRight
<1> DEFINE n == Call(t).name
           k == [task[t] EXCEPT !.pc = "written"]
           table == Drop(rows, n)
<1>1. /\ At(t, "selected") /\ Kind(t) = "deregister"
      /\ conn' = [conn EXCEPT !.rows = table]
      /\ task' = [task EXCEPT ![t] = k]
      /\ UNCHANGED <<saved, scorers, queue, now, authority, setbacks>>
  BY DEF Delete, Goto, rows
<1>2. task[t] \in SelectedTasks BY <1>1, TaskShape DEF IInv, Types, At
<1>3. k \in SelectedTasks /\ k.pc = "written" /\ k.call = Call(t)
  BY <1>2 DEF SelectedTasks, Call
<1>4. ~IsTrustCall(k.call) /\ k.call.kind # "register"
  BY <1>1, <1>3 DEF IsTrustCall, Kind
<1>5. IsTask(k) /\ k \notin ResolvedTasks /\ k \notin RegisteringTasks
  <2>1. IsTask(k) BY <1>3, <1>4 DEF IsTask
  <2>2. QED BY <1>3, <1>4, <2>1, TaskShape
<1> HIDE DEF k
<1>6. /\ DOMAIN table \subseteq Registered /\ \A m \in DOMAIN table : table[m] = rows[m]
  BY DEF Drop, Registered
<1> HIDE DEF table
<1>7. /\ authority \subseteq authority' /\ authority' \in SUBSET Pairs
  BY <1>1 DEF IInv, Types
<1>8. \A m \in DOMAIN table : m \in Names /\ table[m] \in Rows /\ IsSoundRow(table[m], authority')
  BY <1>1, <1>6 DEF IInv, Types, IsDatabase, Sound, Registered, rows
<1>9. /\ conn'.rows = table /\ conn'.events = conn.events /\ conn'.moved = conn.moved
      /\ IsDatabase(conn')
  BY <1>1, <1>8 DEF IInv, Types, IsDatabase
<1>10. IsSoundTask(k, authority') BY <1>5 DEF IsSoundTask
<1>11. ScorersTyped' BY <1>1, ScorersStay
<1>12. ~Writing(task[t]) /\ ~Owing(task[t]) /\ Inside(task[t])
  BY <1>1 DEF At, Writing, Owing, Inside, Reading
<1>13. HoldsLock(t) BY <1>12 DEF IInv, Locks
<1>14. conn'.moved = conn.moved + (IF IsTrustCall(k.call) THEN 1 ELSE 0)
  <2>1. conn.moved \in Nat BY DEF IInv, Types, IsDatabase
  <2>2. QED BY <1>4, <1>9, <2>1
<1>15. IInv'
  BY <1>1, <1>3, <1>5, <1>7, <1>8, <1>9, <1>10, <1>11, <1>12, <1>13, <1>14, Writes
<1>16. RowsMoveRight
  BY <1>6, <1>9 DEF RowsMoveRight, Registered, rows, Alike
<1>17. QED BY <1>15, <1>16

\* An UPDATE of the row that was read, after anything but a trust call.
LEMMA SaveKeeps ==
    ASSUME IInv, NEW t \in Tasks, Reading(task[t]), ~IsTrustCall(Call(t)),
           NEW record \in Records, OneChange(task[t].rec, record), Save(t, record),
           PairsOf(record.grants) \subseteq PairsOf(task[t].rec.grants) \cup authority',
           record.parent # NoParent =>
               PairsOf(record.grants) \subseteq
                   PairsOf(task[t].rec.grants)
                   \cup (IF At(t, "resolved") THEN PairsOf(task[t].row.rec.grants) ELSE {}),
           authority \subseteq authority', authority' \in SUBSET Pairs,
           UNCHANGED <<saved, scorers, queue, now, setbacks>>
    PROVE  IInv' /\ RowsMoveRight
<1> DEFINE k == [task[t] EXCEPT !.pc = "written"]
<1>1. task' = [task EXCEPT ![t] = k] /\ conn' = Updated(conn, Call(t).name, record)
  BY DEF Save, Goto
<1>2. task[t] \in SelectedTasks \cup GrantingTasks
  BY OwnFacts DEF Reading, At
<1>3. k \in SelectedTasks \cup GrantingTasks /\ k.pc = "written" /\ k.call = Call(t)
  BY <1>2 DEF SelectedTasks, GrantingTasks, Call
<1>4. k.call.kind # "register"
  BY <1>3 DEF SelectedTasks, GrantingTasks, GrantMutations, Mutations, NamesAnAgent
<1>5. IsTask(k) /\ k \notin ResolvedTasks /\ k \notin RegisteringTasks
  <2>1. IsTask(k) BY <1>3 DEF IsTask
  <2>2. QED BY <1>3, <1>4, <2>1, TaskShape
<1> HIDE DEF k
<1>6. IsSoundTask(k, authority') BY <1>5 DEF IsSoundTask
<1>7. ScorersTyped' BY ScorersStay
<1>8. IsDatabase(conn) /\ conn.moved = conn.moved + (IF IsTrustCall(k.call) THEN 1 ELSE 0)
  <2>1. IsDatabase(conn) /\ conn.moved \in Nat BY DEF IInv, Types, IsDatabase
  <2>2. QED BY <1>3, <2>1
<1>9. QED BY <1>1, <1>3, <1>5, <1>6, <1>7, <1>8, Saves

LEMMA GrantAddedKeeps ==
    ASSUME IInv, NEW t \in Tasks, UpdateGrantAdded(t)
    PROVE  IInv' /\ RowsMoveRight
<1> DEFINE g == Call(t).grant
           record == WithGrant(OwnRecord(t), g)
<1>1. /\ Kind(t) = "add_grant" /\ Save(t, record)
      /\ \/ At(t, "selected") /\ task[t].rec.parent = NoParent
         \/ At(t, "resolved") /\ NarrowsGrants(task[t].row.rec, <<g>>)
      /\ authority' = IF task[t].rec.parent = NoParent THEN authority \cup g.pairs ELSE authority
      /\ UNCHANGED <<saved, scorers, queue, now, setbacks>>
  BY DEF UpdateGrantAdded, ReadyToGrant
<1>2. Reading(task[t]) /\ ~IsTrustCall(Call(t))
  BY <1>1 DEF Reading, At, Kind, Call, IsTrustCall
<1>3. /\ task[t].rec \in Records /\ OwnRecord(t) \in Records
      /\ Alike(OwnRecord(t), task[t].rec) /\ Call(t) \in CallType
  BY <1>2, OwnFacts DEF Mutations
<1>4. g \in Grants BY <1>1, <1>3, CallFacts DEF Kind
<1>5. /\ record \in Records /\ record.parent = task[t].rec.parent
      /\ PairsOf(record.grants) = PairsOf(task[t].rec.grants) \cup g.pairs
  BY <1>3, <1>4, WithGrantFacts DEF Alike
<1>6. OneChange(task[t].rec, record) BY <1>3, <1>4, GrantAdded
<1> HIDE DEF record
<1>7. authority \subseteq authority' /\ authority' \in SUBSET Pairs
  BY <1>1, <1>4 DEF IInv, Types, Grants
<1>8. PairsOf(<<g>>) = g.pairs
  <2>1. <<>> \in Seq(Grants) OBVIOUS
  <2>2. QED BY <1>4, <2>1, PairsOfAppend
<1>9. At(t, "resolved") => g.pairs \subseteq PairsOf(task[t].row.rec.grants)
  BY <1>1, <1>8 DEF NarrowsGrants, At
<1>10. record.parent # NoParent =>
          PairsOf(record.grants) \subseteq
              PairsOf(task[t].rec.grants)
              \cup (IF At(t, "resolved") THEN PairsOf(task[t].row.rec.grants) ELSE {})
  BY <1>1, <1>5, <1>9
<1>11. PairsOf(record.grants) \subseteq PairsOf(task[t].rec.grants) \cup authority'
  <2>1. CASE task[t].rec.parent = NoParent BY <1>1, <1>5, <2>1
  <2>2. CASE task[t].rec.parent # NoParent
    <3>1. At(t, "resolved") BY <1>1, <2>2
    <3>2. PICK p \in Registered : rows[p].rec.grants = task[t].row.rec.grants
      BY <1>2, <3>1 DEF IInv, ReadsAreCurrent, IsCurrent, At, Registered, rows
    <3>3. PairsOf(rows[p].rec.grants) \subseteq authority
      BY DEF IInv, Sound, IsSoundRow, Registered, rows
    <3>4. QED BY <1>5, <1>7, <1>9, <3>1, <3>2, <3>3
  <2>3. QED BY <2>1, <2>2
<1>12. QED BY <1>1, <1>2, <1>5, <1>6, <1>7, <1>10, <1>11, SaveKeeps

LEMMA GrantRemovedKeeps ==
    ASSUME IInv, NEW t \in Tasks, UpdateGrantRemoved(t)
    PROVE  IInv' /\ RowsMoveRight
<1> DEFINE grants == task[t].rec.grants
           hits == {i \in DOMAIN grants : FirstWithItsId(grants, i) /\ grants[i].id = Call(t).id}
<1>1. /\ At(t, "selected") /\ Kind(t) = "remove_grant"
      /\ UNCHANGED <<saved, scorers, now, authority, setbacks>>
      /\ \/ ReturnUnlocked(t) /\ UNCHANGED conn
         \/ /\ \E i \in hits : Save(t, WithoutGrant(OwnRecord(t), i))
            /\ UNCHANGED queue
  BY DEF UpdateGrantRemoved
<1>2. Reading(task[t]) /\ ~IsTrustCall(Call(t)) /\ ~Writing(task[t]) /\ ~Owing(task[t])
  BY <1>1 DEF Reading, Writing, Owing, At, Kind, Call, IsTrustCall
<1>3. CASE ReturnUnlocked(t) /\ UNCHANGED conn
  <2>1. ScorersTyped' BY <1>1, ScorersStay
  <2>2. IInv' BY <1>1, <1>2, <1>3, <2>1, ReturnsUnlocked
  <2>3. RowsMoveRight BY <1>3, NoChange DEF rows
  <2>4. QED BY <2>2, <2>3
<1>4. ASSUME NEW i \in hits, Save(t, WithoutGrant(OwnRecord(t), i)), UNCHANGED queue
      PROVE  IInv' /\ RowsMoveRight
  <2> DEFINE record == WithoutGrant(OwnRecord(t), i)
  <2>1. /\ task[t].rec \in Records /\ OwnRecord(t) \in Records
        /\ Alike(OwnRecord(t), task[t].rec)
    BY <1>2, OwnFacts
  <2>2. i \in DOMAIN OwnRecord(t).grants BY <2>1 DEF Alike
  <2>3. /\ record \in Records
        /\ PairsOf(record.grants) \subseteq PairsOf(task[t].rec.grants)
    BY <2>1, <2>2, WithoutGrantFacts DEF Alike
  <2>4. OneChange(task[t].rec, record) BY <2>1, <2>2, GrantRemoved
  <2>5. authority \subseteq authority' /\ authority' \in SUBSET Pairs
    BY <1>1 DEF IInv, Types
  <2>6. Save(t, record) BY <1>4
  <2> HIDE DEF record
  <2>7. QED BY <1>1, <1>2, <1>4, <2>3, <2>4, <2>5, <2>6, SaveKeeps
<1>5. QED BY <1>1, <1>3, <1>4

LEMMA StatusOrIdentityKeeps ==
    ASSUME IInv, NEW t \in Tasks, UpdateStatusOrIdentity(t)
    PROVE  IInv' /\ RowsMoveRight
<1>1. /\ At(t, "selected") /\ UNCHANGED <<saved, scorers, queue, now, authority, setbacks>>
      /\ \/ /\ Kind(t) = "update_status"
            /\ Save(t, [OwnRecord(t) EXCEPT !.status = Call(t).status])
         \/ /\ Kind(t) = "update_identity"
            /\ Save(t, [OwnRecord(t) EXCEPT !.key = Call(t).key])
  BY DEF UpdateStatusOrIdentity
<1>2. Reading(task[t]) /\ ~IsTrustCall(Call(t))
  BY <1>1 DEF Reading, At, Kind, Call, IsTrustCall
<1>3. /\ task[t].rec \in Records /\ OwnRecord(t) \in Records
      /\ Alike(OwnRecord(t), task[t].rec) /\ Call(t) \in CallType
  BY <1>2, OwnFacts DEF Mutations
<1>4. authority \subseteq authority' /\ authority' \in SUBSET Pairs
  BY <1>1 DEF IInv, Types
<1>5. PICK record \in Records :
          /\ Save(t, record) /\ OneChange(task[t].rec, record)
          /\ record.grants = task[t].rec.grants
  <2>1. CASE Kind(t) = "update_status"
    <3>1. Call(t).status \in Statuses BY <1>3, <2>1, CallFacts DEF Kind
    <3> DEFINE record == [OwnRecord(t) EXCEPT !.status = Call(t).status]
    <3>2. Save(t, record) BY <1>1, <2>1
    <3>3. /\ record \in Records /\ OneChange(task[t].rec, record)
          /\ record.grants = task[t].rec.grants
      BY <1>3, <3>1, FieldChanged
    <3> HIDE DEF record
    <3>4. QED BY <3>2, <3>3
  <2>2. CASE Kind(t) = "update_identity"
    <3>1. Call(t).key \in Keys BY <1>3, <2>2, CallFacts DEF Kind
    <3> DEFINE record == [OwnRecord(t) EXCEPT !.key = Call(t).key]
    <3>2. Save(t, record) BY <1>1, <2>2
    <3>3. /\ record \in Records /\ OneChange(task[t].rec, record)
          /\ record.grants = task[t].rec.grants
      BY <1>3, <3>1, FieldChanged
    <3> HIDE DEF record
    <3>4. QED BY <3>2, <3>3
  <2>3. QED BY <1>1, <2>1, <2>2
<1>6. QED BY <1>1, <1>2, <1>4, <1>5, SaveKeeps

\* A trust call: the row's trust and the journal's debt grow in one step.
LEMMA TrustKeeps ==
    ASSUME IInv, NEW t \in Tasks, UpdateTrust(t)
    PROVE  IInv' /\ RowsMoveRight
<1> DEFINE k == [pc |-> "written", call |-> Call(t), entry |-> Entry(t)]
           d == [conn EXCEPT !.moved = @ + 1]
           record == [task[t].rec EXCEPT !.trust = Value(NewScorerOf(t), now)]
<1>1. /\ At(t, "selected") /\ IsTrustCall(Call(t))
      /\ scorers' = Put(scorers, Call(t).name, NewScorerOf(t))
      /\ conn' = Updated(d, Call(t).name, record)
      /\ task' = [task EXCEPT ![t] = k]
      /\ UNCHANGED <<saved, queue, now, authority, setbacks>>
  BY DEF UpdateTrust
<1>2. Reading(task[t]) BY <1>1 DEF Reading, At
<1>3. /\ Call(t) \in TrustMutations /\ Call(t).name \in Names
      /\ NewScorerOf(t) \in Scorers /\ NewScorerOf(t).signal <= now
      /\ Value(NewScorerOf(t), now) \in TrustValues
      /\ Entry(t) \in JournalEntries
  BY <1>1, TrustCallFacts
<1>4. ScorersTyped' BY <1>1, <1>3, PutScorer DEF IInv, ScorersTyped
<1>5. task[t].rec \in Records BY <1>2, OwnFacts
<1>6. Alike(task[t].rec, task[t].rec) BY DEF Alike
<1>7. /\ record \in Records /\ OneChange(task[t].rec, record)
      /\ record.grants = task[t].rec.grants
  BY <1>3, <1>5, <1>6, FieldChanged
<1> HIDE DEF record
<1>8. k \in JournalingTasks BY <1>3 DEF JournalingTasks
<1>9. k.pc = "written" /\ k.call = Call(t) OBVIOUS
<1> HIDE DEF k
<1>10. IsTask(k) BY <1>8 DEF IsTask
<1>11. k \notin ResolvedTasks /\ k \notin RegisteringTasks
  BY <1>1, <1>9, <1>10, TaskShape DEF IsTrustCall
<1>12. IsSoundTask(k, authority') BY <1>11 DEF IsSoundTask
<1>13. /\ IsDatabase(d) /\ d.rows = conn.rows /\ d.events = conn.events
       /\ d.moved = conn.moved + 1
  BY DEF IInv, Types, IsDatabase
<1>14. d.moved = conn.moved + (IF IsTrustCall(k.call) THEN 1 ELSE 0)
  BY <1>1, <1>9, <1>13
<1> HIDE DEF d
<1>15. authority \subseteq authority' /\ authority' \in SUBSET Pairs
  BY <1>1 DEF IInv, Types
<1>16. QED
  BY <1>1, <1>2, <1>4, <1>7, <1>9, <1>10, <1>12, <1>13, <1>14, <1>15, Saves

-----------------------------------------------------------------------------
(* Commits, the journal, list_agents, the clock and crashes                *)

LEMMA CommitKeeps ==
    ASSUME IInv, NEW t \in Tasks, Commit(t)
    PROVE  IInv'
<1> DEFINE k == [task[t] EXCEPT !.pc = "committed"]
<1>1. /\ At(t, "written") /\ saved' = conn /\ task' = [task EXCEPT ![t] = k]
      /\ UNCHANGED <<conn, scorers, queue, now, authority, setbacks>>
  BY DEF Commit, Goto
<1>2. /\ task[t] \in RegisteringTasks \cup SelectedTasks \cup GrantingTasks \cup JournalingTasks
      /\ IsTask(task[t])
  BY <1>1, TaskShape DEF IInv, Types, At
<1>3. /\ k.pc = "committed" /\ k.call = Call(t)
      /\ task[t] \in RegisteringTasks => k \in RegisteringTasks
                                          /\ k.rec = task[t].rec /\ k.line = task[t].line
      /\ task[t] \in SelectedTasks => k \in SelectedTasks
      /\ task[t] \in GrantingTasks => k \in GrantingTasks
      /\ task[t] \in JournalingTasks => k \in JournalingTasks
  <2>1. CASE task[t] \in RegisteringTasks BY <2>1 DEF RegisteringTasks, SelectedTasks,
           GrantingTasks, JournalingTasks, Call
  <2>2. CASE task[t] \in SelectedTasks BY <2>2 DEF RegisteringTasks, SelectedTasks,
           GrantingTasks, JournalingTasks, Call
  <2>3. CASE task[t] \in GrantingTasks BY <2>3 DEF RegisteringTasks, SelectedTasks,
           GrantingTasks, JournalingTasks, Call
  <2>4. CASE task[t] \in JournalingTasks BY <2>4 DEF RegisteringTasks, SelectedTasks,
           GrantingTasks, JournalingTasks, Call
  <2>5. QED BY <1>2, <2>1, <2>2, <2>3, <2>4
<1> HIDE DEF k
<1>4. task[t] \in SelectedTasks /\ task[t] \notin RegisteringTasks
         /\ task[t] \notin GrantingTasks /\ task[t] \notin JournalingTasks
      => ~IsTrustCall(Call(t))
  BY <1>1, <1>2 DEF IsTask, At, Call, Idle, ResolvedTasks, WaitingTasks, IsListing
<1>5. IsTask(k)
  BY <1>2, <1>3, <1>4 DEF IsTask
<1>6. IsSoundTask(k, authority)
  <2>1. k \notin ResolvedTasks BY <1>3, <1>5, TaskShape
  <2>2. k \in RegisteringTasks => task[t] \in RegisteringTasks
    <3>1. ASSUME k \in RegisteringTasks PROVE task[t] \in RegisteringTasks
      <4>1. Call(t).kind = "register" BY <1>3, <1>5, <3>1, TaskShape
      <4>2. QED
        BY <1>2, <4>1 DEF SelectedTasks, GrantingTasks, JournalingTasks, TrustMutations,
                          GrantMutations, Mutations, NamesAnAgent, Call
    <3>2. QED BY <3>1
  <2>3. QED BY <1>3, <2>1, <2>2 DEF IInv, Sound, IsSoundTask, Call
<1>7. /\ ~Reading(k) /\ ~Outside(k) /\ Inside(task[t])
      /\ (Owing(k) <=> Owing(task[t]))
  BY <1>1, <1>3 DEF Reading, Outside, Inside, Owing, At, Call
<1>8. HoldsLock(t) BY <1>7 DEF IInv, Locks
<1>9. QED BY <1>1, <1>5, <1>6, <1>7, <1>8, Commits

LEMMA CommitJournalKeeps ==
    ASSUME IInv, NEW t \in Tasks, CommitJournal(t)
    PROVE  IInv'
<1> DEFINE k == [task[t] EXCEPT !.pc = "recorded"]
<1>1. /\ At(t, "journaled") /\ saved' = conn /\ task' = [task EXCEPT ![t] = k]
      /\ UNCHANGED <<conn, scorers, queue, now, authority, setbacks>>
  BY DEF CommitJournal, Goto
<1>2. task[t] \in JournalingTasks BY <1>1, TaskShape DEF IInv, Types, At
<1>3. k \in JournalingTasks /\ k.pc = "recorded" BY <1>2 DEF JournalingTasks
<1> HIDE DEF k
<1>4. IsTask(k) BY <1>3 DEF IsTask
<1>5. IsSoundTask(k, authority)
  BY <1>3, <1>4, TaskShape DEF IsSoundTask
<1>6. /\ ~Reading(k) /\ ~Outside(k) /\ Inside(task[t]) /\ ~Owing(k) /\ ~Owing(task[t])
  BY <1>1, <1>3 DEF Reading, Outside, Inside, Owing, At
<1>7. HoldsLock(t) BY <1>6 DEF IInv, Locks
<1>8. QED BY <1>1, <1>4, <1>5, <1>6, <1>7, Commits

LEMMA FinishListKeeps ==
    ASSUME IInv, NEW t \in Tasks, FinishList(t)
    PROVE  IInv'
<1>1. /\ At(t, "syncing") /\ saved' = conn /\ task' = [task EXCEPT ![t] = Idle]
      /\ UNCHANGED <<conn, scorers, queue, now, authority, setbacks>>
  BY DEF FinishList, Return
<1>2. ~Owing(task[t]) /\ Outside(task[t]) BY <1>1 DEF Owing, Outside, At
<1>3. QED BY <1>1, <1>2, IdleFacts, Commits

\* The entry that was owed is appended.
LEMMA JournalKeeps ==
    ASSUME IInv, NEW t \in Tasks, Journal(t)
    PROVE  IInv'
<1> DEFINE k == [task[t] EXCEPT !.pc = "journaled"]
           entry == task[t].entry
           longer == Append(conn.events, entry)
<1>1. /\ At(t, "committed") /\ IsTrustCall(Call(t))
      /\ conn' = [conn EXCEPT !.events = longer]
      /\ task' = [task EXCEPT ![t] = k]
      /\ UNCHANGED <<saved, scorers, queue, now, authority, setbacks>>
  BY DEF Journal, Goto
<1>2. Owing(task[t]) /\ Inside(task[t]) BY <1>1 DEF Owing, Inside, At, Call
<1>3. task[t] \in JournalingTasks BY <1>2, TaskShape DEF IInv, Types
<1>4. k \in JournalingTasks /\ k.pc = "journaled" /\ entry \in JournalEntries
  BY <1>3 DEF JournalingTasks
<1> HIDE DEF k, entry
<1>5. IsTask(k) BY <1>4 DEF IsTask
<1>6. IsSoundTask(k, authority) BY <1>4, <1>5, TaskShape DEF IsSoundTask
<1>7. ~Reading(k) /\ ~Outside(k) /\ ~Owing(k) /\ Writing(k)
  BY <1>4 DEF Reading, Outside, Owing, Writing
<1>8. HoldsLock(t) BY <1>2 DEF IInv, Locks
<1>9. task'[t] = k /\ \A u \in Tasks \ {t} : task'[u] = task[u]
  BY <1>1 DEF IInv, Types
<1>10. \A u \in Tasks \ {t} : ~Inside(task[u]) BY <1>8, Alone DEF IInv
<1>11. /\ conn'.rows = conn.rows /\ conn'.events = longer /\ conn'.moved = conn.moved
       /\ longer \in Seq(JournalEntries) /\ Len(longer) = Len(conn.events) + 1
       /\ IsDatabase(conn')
  <2>1. conn.events \in Seq(JournalEntries) BY DEF IInv, Types, IsDatabase
  <2>2. longer \in Seq(JournalEntries) /\ Len(longer) = Len(conn.events) + 1
    BY <1>4, <2>1
  <2> HIDE DEF longer
  <2>3. /\ conn'.rows = conn.rows /\ conn'.events = longer /\ conn'.moved = conn.moved
        /\ conn' = [rows |-> conn.rows, events |-> longer, moved |-> conn.moved]
    BY <1>1 DEF IInv, Types, IsDatabase
  <2>4. QED BY <2>2, <2>3 DEF IInv, Types, IsDatabase
<1> HIDE DEF longer
<1>12. Types' BY <1>1, <1>5, <1>9, <1>11 DEF IInv, Types
<1>13. Locks' BY <1>1, <1>7, <1>8, LockStays DEF IInv
<1>14. ReadsAreCurrent'
  BY <1>7, <1>9, <1>11 DEF IInv, ReadsAreCurrent, IsCurrent
<1>15. Sound' BY <1>1, <1>6, <1>9, <1>11 DEF IInv, Sound
<1>16. Durable' BY <1>7, <1>9, <1>10 DEF Durable, Settled, Writing, Inside
<1>17. Journaled'
  <2>1. /\ conn.moved \in Nat /\ Len(conn.events) \in Nat /\ setbacks \in Nat
    BY DEF IInv, Types, IsDatabase
  <2>2. Missing(conn) \in Int /\ Missing(conn)' = Missing(conn) - 1
    BY <1>11, <2>1 DEF Missing
  <2>3. Missing(saved)' = Missing(saved) BY <1>1
  <2>4. \A u \in Tasks : ~Owing(task'[u])
    BY <1>7, <1>9, <1>10 DEF Owing, Inside
  <2>5. Missing(conn) >= 1 /\ Missing(conn) \in 0 .. setbacks + 1
    BY <1>2 DEF IInv, Journaled
  <2>6. Missing(conn)' \in 0 .. setbacks + 1 /\ Missing(conn)' <= setbacks
    BY <2>1, <2>2, <2>5
  <2>7. QED BY <1>1, <2>3, <2>4, <2>6 DEF IInv, Journaled
<1>18. QED BY <1>12, <1>13, <1>14, <1>15, <1>16, <1>17 DEF IInv

\* list_agents refreshes the trust in a row and nothing else of it.
LEMMA SyncRowKeeps ==
    ASSUME IInv, NEW t \in Tasks, SyncRow(t)
    PROVE  IInv' /\ RowsMoveRight
<1>1. PICK n \in DOMAIN scorers \ task[t].seen :
          /\ conn' = [conn EXCEPT !.rows =
                 IF n \in Registered THEN [rows EXCEPT ![n].rec = Synced(n, rows[n].rec)]
                 ELSE rows]
          /\ task' = [task EXCEPT ![t].seen = @ \cup {n}]
  BY DEF SyncRow
<1>2. At(t, "syncing") /\ UNCHANGED <<saved, scorers, queue, now, authority, setbacks>>
  BY DEF SyncRow
<1> DEFINE k == [task[t] EXCEPT !.seen = @ \cup {n}]
           table == IF n \in DOMAIN conn.rows
                    THEN [conn.rows EXCEPT ![n].rec = Synced(n, conn.rows[n].rec)]
                    ELSE conn.rows
<1>3. conn' = [conn EXCEPT !.rows = table] /\ task' = [task EXCEPT ![t] = k]
  BY <1>1 DEF Registered, rows
<1>4. IsListing(task[t]) BY <1>2, TaskShape DEF IInv, Types, At
<1>5. k.pc = "syncing" /\ IsListing(k) BY <1>2, <1>4 DEF IsListing, At
<1> HIDE DEF k
<1>6. IsTask(k) BY <1>5 DEF IsTask
<1>7. k \notin RegisteringTasks /\ k \notin ResolvedTasks BY <1>5, <1>6, TaskShape
<1>8. ~Reading(k) /\ ~Writing(k) /\ ~Owing(k) /\ ~Inside(k)
  BY <1>5 DEF Reading, Writing, Owing, Inside
<1>9. Outside(task[t]) /\ ~Writing(task[t]) /\ ~Owing(task[t])
  BY <1>2 DEF At, Outside, Writing, Owing
<1>10. /\ DOMAIN table = DOMAIN conn.rows
       /\ \A m \in DOMAIN conn.rows :
             /\ table[m] \in Rows /\ table[m].line = conn.rows[m].line
             /\ Alike(table[m].rec, conn.rows[m].rec)
  <2>1. DOMAIN table = DOMAIN conn.rows OBVIOUS
  <2>2. ASSUME NEW m \in DOMAIN conn.rows
        PROVE  /\ table[m] \in Rows /\ table[m].line = conn.rows[m].line
               /\ Alike(table[m].rec, conn.rows[m].rec)
    <3>1. conn.rows[m] \in Rows BY DEF IInv, Types, IsDatabase
    <3>2. conn.rows[m].rec \in Records BY <3>1 DEF Rows
    <3>3. CASE m = n
      <4>1. Synced(n, conn.rows[m].rec) \in Records
            /\ Alike(Synced(n, conn.rows[m].rec), conn.rows[m].rec)
        BY <3>2, SyncedFacts DEF IInv
      <4>2. table[m] = [conn.rows[m] EXCEPT !.rec = Synced(n, conn.rows[m].rec)]
        BY <3>3
      <4>3. QED BY <3>1, <4>1, <4>2 DEF Rows
    <3>4. CASE m # n
      <4>1. table[m] = conn.rows[m] BY <3>4
      <4>2. QED BY <3>1, <4>1 DEF Alike
    <3>5. QED BY <3>3, <3>4
  <2>3. QED BY <2>1, <2>2
<1> HIDE DEF table
<1>11. /\ conn'.rows = table /\ conn'.events = conn.events /\ conn'.moved = conn.moved
       /\ IsDatabase(conn')
  BY <1>3, <1>10 DEF IInv, Types, IsDatabase
<1>12. task'[t] = k /\ \A u \in Tasks \ {t} : task'[u] = task[u]
  BY <1>3 DEF IInv, Types
<1>13. Types' BY <1>2, <1>3, <1>6, <1>11, <1>12 DEF IInv, Types
<1>14. Locks' BY <1>2, <1>3, <1>8, <1>9, LockStays DEF IInv
<1>15. ReadsAreCurrent'
  <2>1. ASSUME NEW u \in Tasks, Reading(task'[u]) PROVE IsCurrent(task'[u], table)
    <3>1. task'[u] = task[u] BY <1>8, <1>12, <2>1
    <3>2. IsCurrent(task[u], conn.rows) BY DEF IInv, ReadsAreCurrent
    <3>3. task[u].call.name \in DOMAIN conn.rows
          /\ Alike(conn.rows[task[u].call.name].rec, task[u].rec)
      BY <2>1, <3>1, <3>2 DEF IsCurrent
    <3>4. Alike(table[task[u].call.name].rec, task[u].rec)
      BY <1>10, <3>3 DEF Alike
    <3>5. task[u].pc = "resolved" =>
              \E p \in DOMAIN table : /\ table[p].rec.id = task[u].rec.parent
                                      /\ table[p].rec.grants = task[u].row.rec.grants
      BY <1>10, <2>1, <3>1, <3>2 DEF IsCurrent, Alike
    <3>6. QED BY <1>10, <3>1, <3>3, <3>4, <3>5 DEF IsCurrent
  <2>2. QED BY <1>11, <2>1 DEF ReadsAreCurrent, IsCurrent
<1>16. Sound'
  <2>1. ASSUME NEW m \in DOMAIN table PROVE IsSoundRow(table[m], authority)
    BY <1>10 DEF IInv, Sound, IsSoundRow, Alike
  <2>2. \A u \in Tasks : IsSoundTask(task'[u], authority)
    BY <1>7, <1>12 DEF IInv, Sound, IsSoundTask
  <2>3. QED BY <1>2, <1>11, <2>1, <2>2 DEF IInv, Sound
<1>17. Durable'
  <2> SUFFICES ASSUME SameContent(conn, saved) PROVE SameContent(conn, saved)'
    <3>1. \A u \in Tasks : /\ Settled(task'[u]) <=> Settled(task[u])
                           /\ Writing(task'[u]) <=> Writing(task[u])
      BY <1>2, <1>5, <1>12 DEF Settled, Writing, At
    <3>2. QED BY <1>2, <3>1 DEF IInv, Durable
  <2>1. SameContent(conn, saved) OBVIOUS
  <2>2. \A m \in DOMAIN table : Alike(table[m].rec, saved.rows[m].rec)
    BY <1>10, <2>1 DEF SameContent, Alike
  <2>3. QED BY <1>2, <1>10, <1>11, <2>1, <2>2 DEF SameContent
<1>18. Journaled'
  <2>1. Missing(conn)' = Missing(conn) /\ Missing(saved)' = Missing(saved)
    BY <1>2, <1>11 DEF Missing
  <2>2. \A u \in Tasks : Owing(task'[u]) <=> Owing(task[u]) BY <1>8, <1>9, <1>12
  <2>3. QED BY <1>2, <2>1, <2>2 DEF IInv, Journaled
<1>19. IInv' BY <1>13, <1>14, <1>15, <1>16, <1>17, <1>18 DEF IInv
<1>20. RowsMoveRight
  BY <1>10, <1>11 DEF RowsMoveRight, Registered, rows
<1>21. QED BY <1>19, <1>20

LEMMA TickKeeps == ASSUME IInv, Tick PROVE IInv'
<1>1. now' = now + 1 /\ now \in Nat
      /\ UNCHANGED <<conn, saved, scorers, queue, task, authority, setbacks>>
  BY DEF Tick, IInv, Types
<1>2. \A n \in DOMAIN scorers : scorers[n].signal <= now + 1
  <2>1. \A n \in DOMAIN scorers : scorers[n] \in Scorers /\ scorers[n].signal <= now
    BY DEF IInv, Types
  <2>2. \A n \in DOMAIN scorers : scorers[n].signal \in Nat BY <2>1 DEF Scorers
  <2>3. QED BY <1>1, <2>1, <2>2
<1>3. Types' BY <1>1, <1>2 DEF IInv, Types
<1>4. Locks' BY <1>1 DEF IInv, Locks, HoldsLock
<1>5. ReadsAreCurrent' BY <1>1 DEF IInv, ReadsAreCurrent
<1>6. Sound' BY <1>1 DEF IInv, Sound
<1>7. Durable' BY <1>1 DEF IInv, Durable
<1>8. Journaled' BY <1>1 DEF IInv, Journaled
<1>9. QED BY <1>3, <1>4, <1>5, <1>6, <1>7, <1>8 DEF IInv

\* What is lost was not saved: the database the process comes up with again
\* is the one of the last commit.
LEMMA RestartKeeps == ASSUME IInv, Restart PROVE IInv'
<1>1. /\ setbacks' = setbacks + 1 /\ setbacks \in Nat
      /\ conn' = saved /\ scorers' = <<>> /\ queue' = <<>>
      /\ task' = [t \in Tasks |-> Idle] /\ UNCHANGED <<saved, now, authority>>
  BY DEF Restart, Setback, IInv, Types
<1>2. \A t \in Tasks : task'[t] = Idle BY <1>1
<1>3. Types'
  <2>1. DOMAIN scorers' = {} BY <1>1
  <2>2. IsDatabase(conn') /\ IsDatabase(saved') /\ setbacks' \in Nat
    BY <1>1 DEF IInv, Types
  <2>3. DOMAIN task' = Tasks /\ \A t \in Tasks : IsTask(task'[t])
    BY <1>1, <1>2, IdleFacts
  <2>4. now' \in Nat /\ authority' \in SUBSET Pairs BY <1>1 DEF IInv, Types
  <2>5. QED BY <2>1, <2>2, <2>3, <2>4 DEF Types
<1>4. Locks'
  <2>1. queue' \in Seq(Tasks) /\ DOMAIN queue' = {} BY <1>1
  <2>2. \A t \in Tasks : ~Inside(task'[t]) BY <1>2, IdleFacts
  <2>3. QED BY <2>1, <2>2 DEF Locks
<1>5. ReadsAreCurrent' BY <1>2, IdleFacts DEF ReadsAreCurrent
<1>6. Sound' BY <1>1, <1>2, IdleFacts DEF IInv, Sound
<1>7. Durable'
  <2>1. SameContent(saved, saved) BY DEF SameContent, Alike
  <2>2. QED BY <1>1, <2>1 DEF Durable
<1>8. Journaled'
  <2>1. Missing(saved) \in 0 .. setbacks + 1 BY DEF IInv, Journaled
  <2>2. Missing(conn)' = Missing(saved) /\ Missing(saved)' = Missing(saved) BY <1>1 DEF Missing
  <2>3. \A t \in Tasks : ~Owing(task'[t]) BY <1>2, IdleFacts
  <2>4. QED BY <1>1, <2>1, <2>2, <2>3 DEF Journaled
<1>9. QED BY <1>3, <1>4, <1>5, <1>6, <1>7, <1>8 DEF IInv

-----------------------------------------------------------------------------
(* The theorems                                                            *)

LEMMA InitIInv == Init => IInv
<1> SUFFICES ASSUME Init PROVE IInv OBVIOUS
<1> USE DEF Init
<1>1. \A t \in Tasks : task[t] = Idle OBVIOUS
<1>2. DOMAIN <<>> = {} /\ <<>> \in Seq(JournalEntries) /\ <<>> \in Seq(Tasks)
  OBVIOUS
<1>3. IsDatabase(conn) /\ conn.rows = <<>> /\ conn.events = <<>> /\ conn.moved = 0
  BY <1>2 DEF IsDatabase
<1>4. Types BY <1>1, <1>2, <1>3, IdleFacts DEF Types
<1>5. Locks BY <1>1, <1>2, IdleFacts DEF Locks
<1>6. ReadsAreCurrent BY <1>1, IdleFacts DEF ReadsAreCurrent
<1>7. Sound BY <1>1, <1>2, <1>3, IdleFacts DEF Sound
<1>8. Durable BY DEF Durable, SameContent, Alike
<1>9. Journaled
  <2>1. Missing(conn) = 0 /\ Missing(saved) = 0 BY <1>3 DEF Missing
  <2>2. \A t \in Tasks : ~Owing(task[t]) BY <1>1, IdleFacts
  <2>3. QED BY <2>1, <2>2 DEF Journaled
<1>10. QED BY <1>4, <1>5, <1>6, <1>7, <1>8, <1>9 DEF IInv

\* Every step keeps the invariant, and only a crash or a rollback takes back
\* what a row held.
LEMMA NextIInv ==
    ASSUME IInv, [Next]_vars
    PROVE  IInv' /\ (NoSetback => RowsMoveRight)
<1> USE DEF rows
<1>1. ASSUME NEW t \in Tasks, NEW call \in Calls,
             \/ StartLocked(t, call) \/ StartList(t, call)
             \/ \E p \in Registered : StartChild(t, call, p)
      PROVE  IInv' /\ RowsMoveRight
  <2>1. UNCHANGED conn BY <1>1 DEF StartLocked, StartList, StartChild
  <2>2. RowsMoveRight BY <2>1, NoChange
  <2>3. IInv' BY <1>1, StartLockedKeeps, StartListKeeps, StartChildKeeps
  <2>4. QED BY <2>2, <2>3
<1>2. ASSUME NEW t \in Tasks,
             \/ QueueChild(t) \/ Select(t) \/ SelectParent(t) \/ RefuseGrant(t)
             \/ Commit(t) \/ CommitJournal(t) \/ Finish(t)
             \/ SyncRaises(t) \/ FinishList(t)
      PROVE  IInv' /\ RowsMoveRight
  <2>1. UNCHANGED conn
    BY <1>2 DEF QueueChild, Select, SelectParent, RefuseGrant, Commit, CommitJournal,
                Finish, SyncRaises, FinishList
  <2>2. RowsMoveRight BY <2>1, NoChange
  <2>3. IInv'
    BY <1>2, QueueChildKeeps, SelectKeeps, SelectParentKeeps, RefuseGrantKeeps, CommitKeeps,
       CommitJournalKeeps, FinishKeeps, SyncRaisesKeeps, FinishListKeeps
  <2>4. QED BY <2>2, <2>3
<1>3. ASSUME NEW t \in Tasks,
             \/ Insert(t) \/ Delete(t) \/ UpdateGrantAdded(t) \/ UpdateGrantRemoved(t)
             \/ UpdateStatusOrIdentity(t) \/ UpdateTrust(t) \/ SyncRow(t)
      PROVE  IInv' /\ RowsMoveRight
  BY <1>3, InsertKeeps, DeleteKeeps, GrantAddedKeeps, GrantRemovedKeeps,
     StatusOrIdentityKeeps, TrustKeeps, SyncRowKeeps
<1>4. ASSUME NEW t \in Tasks, Journal(t) PROVE IInv' /\ RowsMoveRight
  <2>1. conn'.rows = conn.rows BY <1>4 DEF Journal, IInv, Types, IsDatabase
  <2>2. RowsMoveRight BY <2>1, NoChange
  <2>3. QED BY <1>4, <2>2, JournalKeeps
<1>5. CASE Tick
  <2>1. RowsMoveRight BY <1>5, NoChange DEF Tick
  <2>2. QED BY <1>5, <2>1, TickKeeps
<1>6. ASSUME \/ Restart
             \/ \E t \in Tasks : StatementFails(t) \/ CommitFails(t) \/ Cancel(t)
      PROVE  IInv' /\ ~NoSetback
  <2>1. setbacks' = setbacks + 1 /\ setbacks \in Nat
    BY <1>6 DEF Restart, StatementFails, CommitFails, Cancel, Setback, IInv, Types
  <2>2. IInv' BY <1>6, RestartKeeps, StatementFailsKeeps, CommitFailsKeeps, CancelKeeps
  <2>3. QED BY <2>1, <2>2 DEF NoSetback
<1>7. CASE UNCHANGED vars
  <2>1. UNCHANGED <<conn, saved, scorers, queue, task, now, authority, setbacks>>
    BY <1>7 DEF vars
  <2>2. RowsMoveRight BY <2>1, NoChange
  <2>3. Types' BY <2>1 DEF IInv, Types
  <2>4. Locks' BY <2>1 DEF IInv, Locks, HoldsLock
  <2>5. ReadsAreCurrent' /\ Sound' BY <2>1 DEF IInv, ReadsAreCurrent, Sound
  <2>6. Durable' /\ Journaled' BY <2>1 DEF IInv, Durable, Journaled
  <2>7. QED BY <2>2, <2>3, <2>4, <2>5, <2>6 DEF IInv
<1>8. QED BY <1>1, <1>2, <1>3, <1>4, <1>5, <1>6, <1>7 DEF Next, Start, Step

\* The invariant holds in every reachable state: the lock excludes, what was
\* read under it is still what the table holds, ceilings and grants in both
\* databases and in every task descend from the ancestors', and the two
\* databases differ by no more than the calls under way.
THEOREM SqliteInvariant == Spec => []IInv
<1>1. IInv /\ [Next]_vars => IInv' BY NextIInv
<1>2. QED BY InitIInv, <1>1, PTL DEF Spec

\* TypeOK: every variable keeps its type, each task queues for the lock once.
THEOREM SqliteTypes == Spec => []TypeOK
<1>1. IInv => TypeOK
  <2> SUFFICES ASSUME IInv PROVE TypeOK OBVIOUS
  <2>1. \A t \in Tasks : task[t].pc \in TaskStates BY TaskShape DEF IInv, Types
  <2>2. QED BY <2>1 DEF IInv, Types, Locks, TypeOK
<1>2. QED BY <1>1, SqliteInvariant, PTL

\* CeilingBelowLineage: between the read of the parent and the insert of the
\* child, and across a crash, no ceiling rises above an ancestor's trust.
THEOREM CeilingsStayBelowLineage == Spec => []CeilingBelowLineage
<1>1. IInv => CeilingBelowLineage
  BY DEF IInv, Sound, IsSoundRow, CeilingBelowLineage
<1>2. QED BY <1>1, SqliteInvariant, PTL

\* AuthorityFromRoots: no interleaving, cancelled call, failed statement or
\* commit, rollback or crash leaves an agent with a pair that no root was ever
\* given.
THEOREM GrantsComeFromRoots == Spec => []AuthorityFromRoots
<1>1. IInv => AuthorityFromRoots
  BY DEF IInv, Sound, IsSoundRow, AuthorityFromRoots
<1>2. QED BY <1>1, SqliteInvariant, PTL

\* ReturnedIsSaved: when a call has done its last commit, nothing that any
\* call wrote is left in the open transaction, hence nothing of it is lost in
\* a crash, whatever was cancelled or failed before.
THEOREM ReturnedCallsAreDurable == Spec => []ReturnedIsSaved
<1>1. ASSUME IInv,
             (queue = <<>> /\ setbacks = 0)
             \/ (\E t \in Tasks : At(t, "committed") \/ At(t, "recorded"))
      PROVE  Content(conn) = Content(saved) /\ conn.events = saved.events
  <2>1. ASSUME queue = <<>>, setbacks = 0 PROVE SameContent(conn, saved)
    <3>1. \A t \in Tasks : ~Writing(task[t])
      BY <1>1, <2>1 DEF IInv, Locks, HoldsLock, Inside, Writing
    <3>2. QED BY <1>1, <2>1, <3>1 DEF IInv, Durable
  <2>2. SameContent(conn, saved)
    <3>1. ASSUME NEW t \in Tasks, At(t, "committed") \/ At(t, "recorded")
          PROVE  SameContent(conn, saved)
      BY <1>1, <3>1 DEF IInv, Durable, Settled, At
    <3>2. QED BY <1>1, <2>1, <3>1
  <2>3. ASSUME NEW n \in DOMAIN conn.rows
        PROVE  [conn.rows[n].rec EXCEPT !.trust = 0] = [saved.rows[n].rec EXCEPT !.trust = 0]
    <3>1. conn.rows[n].rec \in Records /\ saved.rows[n].rec \in Records
      BY <1>1, <2>2 DEF IInv, Types, IsDatabase, Rows, SameContent
    <3>2. Alike(conn.rows[n].rec, saved.rows[n].rec) BY <2>2 DEF SameContent
    <3>3. QED BY <3>1, <3>2 DEF Records, Alike
  <2>4. QED BY <2>2, <2>3 DEF SameContent, Content
<1>2. IInv => ReturnedIsSaved BY <1>1 DEF ReturnedIsSaved
<1>3. QED BY <1>2, SqliteInvariant, PTL

\* JournalMissesOnlySetbacks: the journal never runs ahead of the trust in
\* the rows, and misses at most one entry per setback and one under way.
THEOREM JournalKeepsUp == Spec => []JournalMissesOnlySetbacks
<1>1. IInv => JournalMissesOnlySetbacks
  BY DEF IInv, Journaled, Missing, JournalMissesOnlySetbacks
<1>2. QED BY <1>1, SqliteInvariant, PTL

\* WritesBuildOnTheLast: no call overwrites what another wrote.
THEOREM NoWriteIsLost == Spec => WritesBuildOnTheLast
<1> DEFINE Right ==
        NoSetback => \A n \in Registered \cap Registered' :
          LET old == rows[n].rec
              new == rows'[n].rec
              changed == {f \in {"grants", "status", "key"} : old[f] # new[f]}
          IN  \/ new.revision = 1
              \/ new.revision = old.revision /\ changed = {}
              \/ /\ new.revision = old.revision + 1
                 /\ Cardinality(changed) <= 1
                 /\ Len(new.grants) - Len(old.grants) \in -1 .. 1
<1>1. ASSUME IInv, [Next]_vars PROVE Right
  <2> SUFFICES ASSUME NoSetback, NEW n \in Registered, n \in Registered',
                      rows'[n].rec.revision # 1
               PROVE  \/ /\ rows'[n].rec.revision = rows[n].rec.revision
                         /\ {f \in ContentFields : rows[n].rec[f] # rows'[n].rec[f]} = {}
                      \/ /\ rows'[n].rec.revision = rows[n].rec.revision + 1
                         /\ Cardinality({f \in ContentFields :
                                           rows[n].rec[f] # rows'[n].rec[f]}) <= 1
                         /\ Len(rows'[n].rec.grants) - Len(rows[n].rec.grants) \in -1 .. 1
    BY DEF ContentFields
  <2>1. Alike(rows'[n].rec, rows[n].rec) \/ MutatedRow(n)
    BY <1>1, NextIInv DEF RowsMoveRight
  <2>2. CASE Alike(rows'[n].rec, rows[n].rec)
    BY <2>2 DEF Alike, ContentFields
  <2>3. CASE MutatedRow(n)
    <3>1. PICK f \in ContentFields :
             \A g \in ContentFields \ {f} : rows'[n].rec[g] = rows[n].rec[g]
      BY <2>3 DEF MutatedRow
    <3>2. Cardinality({g \in ContentFields : rows[n].rec[g] # rows'[n].rec[g]}) <= 1
      <4> DEFINE old == rows[n].rec
                 new == rows'[n].rec
      <4>1. \A g \in ContentFields \ {f} : new[g] = old[g] BY <3>1
      <4> HIDE DEF old, new
      <4>2. Cardinality({g \in ContentFields : old[g] # new[g]}) <= 1
        BY <4>1, OneFieldChanges
      <4>3. QED BY <4>2 DEF old, new
    <3>3. QED BY <2>3, <3>2 DEF MutatedRow
  <2>4. QED BY <2>1, <2>2, <2>3
<1>2. IInv /\ [Next]_vars => [Right]_vars BY <1>1
<1>3. QED BY <1>2, SqliteInvariant, PTL DEF Spec, WritesBuildOnTheLast

\* AddGrantHasNoWindow: at the moment add_grant() writes, the parent holds
\* what the child is given.
THEOREM GrantsAreHeldWhenGiven == Spec => AddGrantHasNoWindow
<1> DEFINE Right ==
        NoSetback => \A n \in Registered' :
          rows'[n].rec.parent # NoParent /\ rows'[n].rec.revision > 1 => GainsFromParent(n)
<1>1. ASSUME IInv, [Next]_vars PROVE Right
  <2> SUFFICES ASSUME NoSetback, NEW n \in Registered',
                      rows'[n].rec.parent # NoParent, rows'[n].rec.revision > 1
               PROVE  GainsFromParent(n)
    OBVIOUS
  <2>1. rows'[n].rec.revision # 1 OBVIOUS
  <2>2. n \in Registered /\ (Alike(rows'[n].rec, rows[n].rec) \/ MutatedRow(n))
    BY <1>1, <2>1, NextIInv DEF RowsMoveRight
  <2>3. CASE Alike(rows'[n].rec, rows[n].rec)
    <3>1. PairsOf(rows'[n].rec.grants) \ Held(n) = {} BY <2>2, <2>3 DEF Alike, Held
    <3>2. QED BY <3>1 DEF GainsFromParent
  <2>4. CASE MutatedRow(n) BY <2>4 DEF MutatedRow
  <2>5. QED BY <2>2, <2>3, <2>4
<1>2. IInv /\ [Next]_vars => [Right]_vars BY <1>1
<1>3. QED BY <1>2, SqliteInvariant, PTL DEF Spec, AddGrantHasNoWindow
=============================================================================
