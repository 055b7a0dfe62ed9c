----------------------------- MODULE RequestLog ------------------------------
(***************************************************************************)
(* The request log: record_request_metrics (crates/api/src/lib.rs) spawns  *)
(* a task per authenticated request that pushes an entry on a Redis list   *)
(* and trims the list, the worker of crates/api/src/metrics_worker.rs in   *)
(* every API process pops batches from the other end and inserts rows, and *)
(* the dashboard (crates/api/src/routes/admin_metrics.rs) counts rows.     *)
(*                                                                         *)
(* Entry n stands for the n-th authenticated request; Attr gives its key,  *)
(* path and status.  The list's head is its first element.  The history    *)
(* variables are pushes, the order of the LPUSHes, and lost.               *)
(***************************************************************************)
EXTENDS Integers, Sequences, FiniteSets, Functions

CONSTANTS Procs, Users, Owner,   \* Owner: the user of a key
          Attr,                  \* per entry: key, path, status
          GraphqlPaths,          \* the paths LIKE '/graphql%'
          Last,                  \* number of entries, a bound
          MaxBuffered,           \* MAX_BUFFERED_LOGS
          BatchSize, MaxBatches, \* BATCH_SIZE, MAX_BATCHES_PER_TICK
          Day, MaxTime,
          MaxFaults,             \* bound on failures of Redis, Postgres and processes
          NULL

ASSUME LogConstants ==
  /\ Last \in Nat /\ MaxBuffered \in Nat \ {0}
  /\ BatchSize \in Nat \ {0} /\ MaxBatches \in Nat \ {0}
  /\ Day \in Nat /\ MaxTime \in Nat /\ MaxFaults \in Nat

Entries == 1 .. Last

VARIABLES now, served,
          task, by,              \* the task of an entry and, while it runs, its process
          list, worker, rows, cancelled, lost, faults, pushes

vars == <<now, served, task, by, list, worker, rows, cancelled, lost, faults, pushes>>

Worker(at, hand, left) == [at |-> at, hand |-> hand, left |-> left, full |-> FALSE]

Asleep == Worker("select", <<>>, 0)
Stopped == Worker("stopped", <<>>, 0)
Down == Worker("down", <<>>, 0)

Init ==
  /\ now = 0 /\ served = 0 /\ faults = 0
  /\ task = [e \in Entries |-> "none"]
  /\ by = [e \in Entries |-> NULL]
  /\ list = <<>> /\ rows = <<>> /\ pushes = <<>> /\ lost = {}
  /\ worker = [p \in Procs |-> Asleep]
  /\ cancelled = [p \in Procs |-> FALSE]

Fault == faults < MaxFaults /\ faults' = faults + 1

-----------------------------------------------------------------------------
(* record_request_metrics and the task it spawns.                          *)

\* An authenticated request is answered; the task that logs it is spawned.
Serve(p) ==
  /\ served < Last /\ ~cancelled[p] /\ worker[p].at \notin {"stopped", "down"}
  /\ served' = served + 1
  /\ task' = [task EXCEPT ![served + 1] = "push"]
  /\ by' = [by EXCEPT ![served + 1] = p]
  /\ UNCHANGED <<now, list, worker, rows, cancelled, lost, faults, pushes>>

\* LPUSH.
Push(e) ==
  /\ task[e] = "push"
  /\ list' = <<e>> \o list
  /\ task' = [task EXCEPT ![e] = "trim"]
  /\ pushes' = Append(pushes, e)
  /\ UNCHANGED <<now, served, by, worker, rows, cancelled, lost, faults>>

\* LPUSH fails; its result is ignored and the trim follows all the same.
PushFails(e) ==
  /\ task[e] = "push"
  /\ Fault
  /\ lost' = lost \cup {e}
  /\ task' = [task EXCEPT ![e] = "trim"]
  /\ UNCHANGED <<now, served, by, list, worker, rows, cancelled, pushes>>

\* LTRIM 0 MAX_BUFFERED_LOGS, one entry too many.
Kept_OffByOne(l) == SubSeq(l, 1, IF Len(l) > MaxBuffered + 1 THEN MaxBuffered + 1 ELSE Len(l))

\* LTRIM 0 (MAX_BUFFERED_LOGS - 1): the newest entries stay.
Kept(l) == SubSeq(l, 1, IF Len(l) > MaxBuffered THEN MaxBuffered ELSE Len(l))

\* A trim makes up for those that failed before it.
Trim(e) ==
  /\ task[e] = "trim"
  /\ list' = Kept(list)
  /\ lost' = lost \cup {list[i] : i \in Len(Kept(list)) + 1 .. Len(list)}
  /\ task' = [d \in Entries |-> IF d = e \/ task[d] = "untrimmed" THEN "end" ELSE task[d]]
  /\ by' = [by EXCEPT ![e] = NULL]
  /\ UNCHANGED <<now, served, worker, rows, cancelled, faults, pushes>>

TrimFails(e) ==
  /\ task[e] = "trim"
  /\ Fault
  /\ task' = [task EXCEPT ![e] = "untrimmed"]
  /\ by' = [by EXCEPT ![e] = NULL]
  /\ UNCHANGED <<now, served, list, worker, rows, cancelled, lost, pushes>>

-----------------------------------------------------------------------------
(* The worker.                                                             *)

\* The worker waits until there is more than a batch.
WakeUp_FullBatch(p) ==
  /\ worker[p].at = "select" /\ Len(list) > BatchSize
  /\ worker' = [worker EXCEPT ![p] = Worker("pop", <<>>, MaxBatches)]
  /\ UNCHANGED <<now, served, task, by, list, rows, cancelled, lost, faults, pushes>>

\* The interval ticks.
WakeUp(p) ==
  /\ worker[p].at = "select"
  /\ worker' = [worker EXCEPT ![p] = Worker("pop", <<>>, MaxBatches)]
  /\ UNCHANGED <<now, served, task, by, list, rows, cancelled, lost, faults, pushes>>

PopCount(l) == IF Len(l) > BatchSize THEN BatchSize ELSE Len(l)

\* RPOP: up to BATCH_SIZE entries from the tail, oldest first.
Popped(l) == [i \in 1 .. PopCount(l) |-> l[Len(l) - i + 1]]
Unpopped(l) == SubSeq(l, 1, Len(l) - PopCount(l))

\* An empty answer ends the tick.
Pop(p) ==
  /\ worker[p].at = "pop"
  /\ list' = Unpopped(list)
  /\ worker' = [worker EXCEPT ![p] =
       IF list = <<>> THEN Asleep
       ELSE [at |-> "insert", hand |-> Popped(list), left |-> @.left - 1,
             full |-> PopCount(list) = BatchSize]]
  /\ UNCHANGED <<now, served, task, by, rows, cancelled, lost, faults, pushes>>

\* RPOP fails, before or after Redis took the entries off the list.
PopFails(p) ==
  /\ worker[p].at = "pop"
  /\ Fault
  /\ \/ UNCHANGED <<list, lost>>
     \/ /\ list' = Unpopped(list)
        /\ lost' = lost \cup {Popped(list)[i] : i \in 1 .. PopCount(list)}
  /\ worker' = [worker EXCEPT ![p] = Asleep]
  /\ UNCHANGED <<now, served, task, by, rows, cancelled, pushes>>

\* After a row: the next of the batch, the next batch, or back to the select.
AfterRow(w) ==
  IF Len(w.hand) > 1 THEN [w EXCEPT !.hand = Tail(@)]
  ELSE IF w.full /\ w.left > 0 THEN Worker("pop", <<>>, w.left) ELSE Asleep

Insert(p) ==
  /\ worker[p].at = "insert"
  /\ rows' = Append(rows, [entry |-> Head(worker[p].hand), time |-> now])
  /\ worker' = [worker EXCEPT ![p] = AfterRow(@)]
  /\ UNCHANGED <<now, served, task, by, list, cancelled, lost, faults, pushes>>

\* A failed INSERT is tried again.
InsertFails_Retry(p) ==
  /\ worker[p].at = "insert"
  /\ Fault
  /\ \/ UNCHANGED rows
     \/ rows' = Append(rows, [entry |-> Head(worker[p].hand), time |-> now])
  /\ UNCHANGED <<now, served, task, by, list, worker, cancelled, lost, pushes>>

\* A failed INSERT is logged and skipped; the row may have been committed.
InsertFails(p) ==
  /\ worker[p].at = "insert"
  /\ Fault
  /\ \/ UNCHANGED rows /\ lost' = lost \cup {Head(worker[p].hand)}
     \/ /\ rows' = Append(rows, [entry |-> Head(worker[p].hand), time |-> now])
        /\ UNCHANGED lost
  /\ worker' = [worker EXCEPT ![p] = AfterRow(@)]
  /\ UNCHANGED <<now, served, task, by, list, cancelled, pushes>>

\* The select sees the cancellation.
StopWorker(p) ==
  /\ cancelled[p] /\ worker[p].at = "select"
  /\ worker' = [worker EXCEPT ![p] = Stopped]
  /\ UNCHANGED <<now, served, task, by, list, rows, cancelled, lost, faults, pushes>>

-----------------------------------------------------------------------------
(* Processes and time.                                                     *)

\* The tasks of a process that ends go with it.
DropTasks(p) ==
  /\ task' = [e \in Entries |-> IF by[e] # p THEN task[e]
                               ELSE IF task[e] = "push" THEN "end"
                               ELSE IF task[e] = "trim" THEN "untrimmed" ELSE task[e]]
  /\ by' = [e \in Entries |-> IF by[e] = p THEN NULL ELSE by[e]]

Unpushed(p) == {e \in Entries : by[e] = p /\ task[e] = "push"}

\* main: the token is cancelled once the server has drained.
Cancel(p) ==
  /\ ~cancelled[p] /\ worker[p].at \notin {"stopped", "down"}
  /\ cancelled' = [cancelled EXCEPT ![p] = TRUE]
  /\ UNCHANGED <<now, served, task, by, list, worker, rows, lost, faults, pushes>>

\* main joins the worker and returns.
Exit(p) ==
  /\ worker[p] = Stopped
  /\ worker' = [worker EXCEPT ![p] = Down]
  /\ DropTasks(p)
  /\ lost' = lost \cup Unpushed(p)
  /\ cancelled' = [cancelled EXCEPT ![p] = FALSE]
  /\ UNCHANGED <<now, served, list, rows, faults, pushes>>

Crash(p) ==
  /\ worker[p].at # "down"
  /\ Fault
  /\ worker' = [worker EXCEPT ![p] = Down]
  /\ DropTasks(p)
  /\ lost' = lost \cup Unpushed(p) \cup {worker[p].hand[i] : i \in DOMAIN worker[p].hand}
  /\ cancelled' = [cancelled EXCEPT ![p] = FALSE]
  /\ UNCHANGED <<now, served, list, rows, pushes>>

\* A new process, with a token of its own.
Restart(p) ==
  /\ worker[p] = Down
  /\ worker' = [worker EXCEPT ![p] = Asleep]
  /\ UNCHANGED <<now, served, task, by, list, rows, cancelled, lost, faults, pushes>>

Tick ==
  /\ now < MaxTime
  /\ now' = now + 1
  /\ UNCHANGED <<served, task, by, list, worker, rows, cancelled, lost, faults, pushes>>

Next ==
  \/ Tick
  \/ \E e \in Entries : Push(e) \/ PushFails(e) \/ Trim(e) \/ TrimFails(e)
  \/ \E p \in Procs :
        \/ Serve(p) \/ WakeUp(p) \/ Pop(p) \/ PopFails(p) \/ Insert(p) \/ InsertFails(p)
        \/ StopWorker(p) \/ Cancel(p) \/ Exit(p) \/ Crash(p) \/ Restart(p)

Spec == Init /\ [][Next]_vars

\* The runtime polls every task, the interval keeps ticking, select! is unbiased
\* and a process that went down is started again.
FairSpec ==
  /\ Spec
  /\ \A e \in Entries : WF_vars(Push(e)) /\ WF_vars(Trim(e))
  /\ \A p \in Procs :
        /\ SF_vars(WakeUp(p)) /\ WF_vars(Pop(p)) /\ WF_vars(Insert(p))
        /\ SF_vars(StopWorker(p)) /\ WF_vars(Exit(p)) /\ WF_vars(Restart(p))

-----------------------------------------------------------------------------
(* The dashboard.                                                          *)

RowKey(r) == Attr[r.entry].key
RowPath(r) == Attr[r.entry].path
RowStatus(r) == Attr[r.entry].status

\* The subquery on the user's keys is missing.
RowsOf_Everyone(u) == DOMAIN rows

\* The rows of a user's keys.
RowsOf(u) == {i \in DOMAIN rows : Owner[RowKey(rows[i])] = u}

Recent(u) == {i \in RowsOf(u) : rows[i].time >= now - Day}

\* The two series of usage, without their split into hours.
Usage(u) ==
  [rest    |-> Cardinality({i \in Recent(u) : RowPath(rows[i]) \notin GraphqlPaths}),
   graphql |-> Cardinality({i \in Recent(u) : RowPath(rows[i]) \in GraphqlPaths})]

\* The counts of summary; its rates are quotients of them.
Summary(u) ==
  [recent  |-> Cardinality(Recent(u)),
   old     |-> Cardinality({i \in RowsOf(u) : /\ rows[i].time >= now - 2 * Day
                                             /\ rows[i].time < now - Day}),
   errors  |-> Cardinality({i \in Recent(u) : RowStatus(rows[i]) = "error"}),
   limited |-> Cardinality({i \in Recent(u) : RowStatus(rows[i]) = "limited"})]

\* endpoints: GROUP BY path, and the ten with the most requests.
PathCounts(u) ==
  {[endpoint |-> p, requests |-> Cardinality({i \in Recent(u) : RowPath(rows[i]) = p})] :
     p \in {RowPath(rows[i]) : i \in Recent(u)}}
Endpoints(u) ==
  {c \in PathCounts(u) :
     Cardinality({d \in PathCounts(u) : d.requests > c.requests}) < 10}

\* activity and rate_limits: the last ten rows, of any status or 429.
Latest(S) == {i \in S : Cardinality({j \in S : rows[j].time > rows[i].time}) < 10}
Activity(u) == {rows[i].entry : i \in Latest(RowsOf(u))}
RateLimits(u) == {rows[i].entry : i \in Latest({j \in RowsOf(u) : RowStatus(rows[j]) = "limited"})}

-----------------------------------------------------------------------------
(* Properties.                                                             *)

\* Type invariant: the worker's batch budget never underflows, and what it holds
\* in hand came from the list.
TypeOK ==
  /\ now \in 0 .. MaxTime /\ served \in 0 .. Last /\ faults \in 0 .. MaxFaults
  /\ task \in [Entries -> {"none", "push", "trim", "untrimmed", "end"}]
  /\ by \in [Entries -> Procs \cup {NULL}]
  /\ list \in Seq(Entries)
  /\ worker \in [Procs -> [at : {"select", "pop", "insert", "stopped", "down"},
                          hand : Seq(Entries), left : 0 .. MaxBatches, full : BOOLEAN]]
  /\ rows \in Seq([entry : Entries, time : 0 .. MaxTime])
  /\ cancelled \in [Procs -> BOOLEAN]
  /\ lost \subseteq Entries /\ pushes \in Seq(Entries)

Untrimmed == {e \in Entries : task[e] \in {"trim", "untrimmed"}}

\* The list is bounded by MAX_BUFFERED_LOGS plus the pushes whose trim is still to
\* come or failed: one trim that succeeds makes up for all that failed before.
ListBounded == Len(list) <= MaxBuffered + Cardinality(Untrimmed)

\* Where a logged request can be.
Copies(e) ==
  Cardinality({i \in DOMAIN list : list[i] = e})
  + Cardinality({i \in DOMAIN rows : rows[i].entry = e})
  + Cardinality({h \in Procs \X (1 .. BatchSize) :
                   h[2] \in DOMAIN worker[h[1]].hand /\ worker[h[1]].hand[h[2]] = e})

\* A request is logged at most once: with failed commands, lost answers, several
\* workers, crashes and restarts, an entry is in one place, or on its way, or lost.
LoggedOnce ==
  \A e \in Entries :
     /\ Copies(e) <= 1
     /\ e <= served /\ e \notin lost => Copies(e) = 1 \/ task[e] = "push"
     /\ e \in lost => Copies(e) = 0

Before(s, d, e) == \E i, j \in DOMAIN s : i < j /\ s[i] = d /\ s[j] = e
PushedBefore(d, e) == Before(pushes, d, e)
Hands == {worker[p].hand : p \in Procs}

\* The oldest entries drain first: whatever a worker holds or has inserted was
\* pushed before all that is still in the list, and a batch is in the order of
\* its pushes.
Fifo ==
  /\ \A i \in DOMAIN list :
        /\ \A r \in DOMAIN rows : PushedBefore(rows[r].entry, list[i])
        /\ \A hand \in Hands : \A k \in DOMAIN hand : PushedBefore(hand[k], list[i])
  /\ \A hand \in Hands : \A k, l \in DOMAIN hand : k < l => PushedBefore(hand[k], hand[l])

\* The log is faithful to the requests: none is logged twice or vanishes unseen,
\* and they drain in the order they were pushed (run_metrics_worker's RPOP and
\* insert_batch, record_request_metrics' LPUSH and LTRIM).
LogIsFaithful == LoggedOnce /\ Fifo

ServedTo(u) == {e \in 1 .. served : Owner[Attr[e].key] = u}

Settled(u) == \A e \in ServedTo(u) : e \in lost \/ \E i \in DOMAIN rows : rows[i].entry = e

\* The dashboard shows a user their own requests and never more of them than were
\* served; once the log has drained, and while the window covers it all, it shows
\* all that were not lost, and its pages agree.
DashboardAccounts ==
  \A u \in Users :
     /\ Activity(u) \cup RateLimits(u) \subseteq ServedTo(u)
     /\ Summary(u).recent + Summary(u).old <= Cardinality(ServedTo(u))
     /\ Usage(u).rest + Usage(u).graphql = Summary(u).recent
     /\ \A row \in Endpoints(u) :
          row.requests <= IF row.endpoint \in GraphqlPaths THEN Usage(u).graphql ELSE Usage(u).rest
     /\ Settled(u) /\ now <= Day =>
          /\ Summary(u).recent = Cardinality(ServedTo(u) \ lost)
          /\ Summary(u).limited = Cardinality({e \in ServedTo(u) \ lost : Attr[e].status = "limited"})
          /\ Summary(u).errors = Cardinality({e \in ServedTo(u) \ lost : Attr[e].status = "error"})

\* Every request that was answered ends up in the table or is lost to a failure, a
\* trim or the end of its process: nothing stays in the list for ever, across
\* shutdowns and restarts.
LogDrains == []<>(\A u \in Users : Settled(u))

-----------------------------------------------------------------------------
(* The inductive invariant behind LogIsFaithful and DashboardAccounts.     *)

\* A worker has a batch in hand exactly while it inserts, no larger than RPOP
\* gives, and budget left when it pops.
WorkerOK(w) ==
  /\ w.at = "insert" <=> w.hand # <<>>
  /\ Len(w.hand) <= BatchSize
  /\ w.at = "pop" => w.left > 0

Logged == {rows[i].entry : i \in DOMAIN rows}
InHand(p) == Range(worker[p].hand)

\* An entry that was pushed, or is lost, will not be pushed again.
Done(e) == task[e] \notin {"none", "push"}

\* The list, the table, the workers' hands and the lost entries share nothing,
\* all but the lost ones were pushed, and nothing served is anywhere else.
PlacesInv ==
  /\ \A p \in Procs : WorkerOK(worker[p])
  /\ Range(list) \cup Logged \subseteq Range(pushes)
  /\ \A e \in Range(pushes) \cup lost : Done(e)
  /\ Range(list) \cap Logged = {}
  /\ lost \cap (Range(list) \cup Logged) = {}
  /\ \A p \in Procs :
       /\ InHand(p) \subseteq Range(pushes)
       /\ InHand(p) \cap (Range(list) \cup Logged \cup lost) = {}
       /\ \A q \in Procs : p # q => InHand(p) \cap InHand(q) = {}
  /\ \A e \in 1 .. served : \/ e \in Range(list) \cup Logged \cup lost
                            \/ \E p \in Procs : e \in InHand(p)
                            \/ task[e] = "push"
  /\ \A e \in Entries : e > served => task[e] = "none"

\* Nothing is pushed or inserted twice, and the newest entry is at the head.
OrderInv ==
  /\ IsInjective(pushes)
  /\ \A i, j \in DOMAIN rows : rows[i].entry = rows[j].entry => i = j
  /\ \A i, j \in DOMAIN list : i < j => PushedBefore(list[j], list[i])
  /\ \A d \in Logged, e \in Range(list) : PushedBefore(d, e)
  /\ \A p \in Procs :
       /\ \A d \in InHand(p), e \in Range(list) : PushedBefore(d, e)
       /\ \A k, l \in DOMAIN worker[p].hand :
            k < l => PushedBefore(worker[p].hand[k], worker[p].hand[l])

FaithInv == TypeOK /\ PlacesInv /\ OrderInv
=============================================================================
