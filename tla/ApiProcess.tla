----------------------------- MODULE ApiProcess ------------------------------
(***************************************************************************)
(* The API process (api/src/main.rs) with the request path it serves: what *)
(* main connects and spawns, in which order, when it serves the requests   *)
(* of Gateway, and how it stops on a signal.  Whether a request is metered *)
(* and logged depends on what main found at startup.                       *)
(* The tasks themselves are in TipTracker, RequestLog and EventFanout;     *)
(* here a task is running until the token is cancelled.  Then it either    *)
(* waits where it sees the token, or is away in an await of its own where  *)
(* it does not (refresh_once on Postgres and the node, the metrics worker  *)
(* on Redis and Postgres, the listener while it connects and subscribes,   *)
(* the dispatcher in load_webhooks), or it has panicked before.            *)
(***************************************************************************)
EXTENDS Gateway

Tasks == {"refresh", "metrics", "listener", "webhooks"}
TaskStates == {"none", "running", "waiting", "away", "ended"}

VARIABLES
  pc,         \* where main is
  task,       \* per task: where it is (TaskStates)
  joining,    \* the handles main still has to await
  signalled,  \* SIGINT or SIGTERM came
  cancelled   \* the cancellation token

config == <<manager, failOpen>>
mainVars == <<pc, task, joining, signalled, cancelled>>
vars == <<config, requestVars, mainVars>>

Init ==
  /\ RequestInit /\ failOpen \in BOOLEAN /\ manager = FALSE
  /\ pc = "connect"
  /\ task = [t \in Tasks |-> "none"] /\ joining = <<>>
  /\ signalled = FALSE /\ cancelled = FALSE

Spawn(ts) == task' = [t \in Tasks |-> IF t \in ts THEN "running" ELSE task[t]]

-----------------------------------------------------------------------------
(* Startup                                                                 *)

\* Postgres is connected and the refresh task runs before Redis is tried.
ConnectPostgres ==
  /\ pc = "connect"
  /\ Spawn({"refresh"}) /\ pc' = "redis"
  /\ UNCHANGED <<config, requestVars, joining, signalled, cancelled>>

\* The process ends: every task goes with it.
Exit == /\ pc' = "exited" /\ task' = [t \in Tasks |-> "none"]
        /\ UNCHANGED <<config, requestVars, joining, signalled,
                       cancelled>>

\* No database, or a URL or an address that does not parse; an admin command
\* instead of the server ends here too, once it has run
LeaveEarly == pc = "connect" /\ Exit

\* The metrics worker needs the manager, the event listener a Redis URL that
\* parses, the webhook dispatcher neither.
Spawned(parses, connected) ==
  {"webhooks"} \union (IF parses THEN {"listener"} ELSE {})
               \union (IF connected THEN {"metrics"} ELSE {})

\* build_redis_manager, once: the URL parses or not, Redis can be reached or
\* not.
BuildRedisManager ==
  /\ pc = "redis"
  /\ \E parses, connected \in BOOLEAN :
       /\ connected => parses
       /\ manager' = connected /\ Spawn(Spawned(parses, connected))
  /\ pc' = "bind"
  /\ UNCHANGED <<failOpen, requestVars, joining, signalled, cancelled>>

Bind == /\ pc = "bind" /\ pc' = "serve"
        /\ UNCHANGED <<config, requestVars, task, joining, signalled,
                       cancelled>>

\* The address is taken: main returns, and the runtime drops its tasks.
BindFails == pc = "bind" /\ Exit

-----------------------------------------------------------------------------
(* Serving                                                                 *)

\* A request is accepted until the signal comes.
Accept(r) == /\ pc = "serve" /\ ~signalled
             /\ \E route \in Routes : Receive(r, route)
             /\ UNCHANGED <<config, mainVars>>

\* A request already accepted goes on, signal or not.
Serve(r) == Step(r) /\ UNCHANGED <<config, mainVars>>

TimerFires(r) == Timeout(r) /\ UNCHANGED <<config, mainVars>>

\* What no request waits for: the client taking its answer, the log's entry.
Finish(r) == TakeAnswer(r) /\ UNCHANGED <<config, mainVars>>
Push(s) == pc # "stopped" /\ PushEntry(s) /\ UNCHANGED <<config, mainVars>>

\* shutdown_signal: axum stops accepting
Signal == /\ pc = "serve" /\ ~signalled /\ signalled' = TRUE
          /\ UNCHANGED <<config, requestVars, pc, task, joining,
                         cancelled>>

-----------------------------------------------------------------------------
(* Shutdown                                                                *)

\* mutant: the token cancelled as soon as the signal comes
Drained_Signalled == signalled

\* with_graceful_shutdown: serve returns once the open requests are done and
\* their answers written
Drained == signalled /\ \A r \in Slots : ~InFlight(r) /\ ~Sending(r)

\* The handles main holds, in the order it awaits them.
HandleOf(t) == IF task[t] = "none" THEN <<>> ELSE <<t>>
JoinHandles == HandleOf("refresh") \o HandleOf("metrics")
                 \o HandleOf("listener") \o HandleOf("webhooks")

\* Where the token finds the tasks that were spawned.
CancelTasks ==
  /\ pc = "serve" /\ Drained
  /\ cancelled' = TRUE /\ joining' = JoinHandles
  /\ task' \in {f \in [Tasks -> TaskStates] : \A t \in Tasks :
                  IF task[t] = "none" THEN f[t] = "none"
                  ELSE f[t] \in {"waiting", "away", "ended"}}
  /\ pc' = "join"
  /\ UNCHANGED <<config, requestVars, signalled>>

TaskMoves(t, from, to) ==
  /\ cancelled /\ task[t] = from /\ task' = [task EXCEPT ![t] = to]
  /\ UNCHANGED <<config, requestVars, pc, joining, signalled, cancelled>>

\* A tick, a message or an event takes the task into an await that does not
\* look at the token; whoever it waits for may answer, or never.
TaskLeaves(t) == TaskMoves(t, "waiting", "away")
TaskReturns(t) == TaskMoves(t, "away", "waiting")

\* A waiting task sees the token and returns.
TaskStops(t) == TaskMoves(t, "waiting", "ended")

\* A task dies on its way: to main that is an end too, its handle reports it.
TaskPanics(t) == TaskMoves(t, "away", "ended")

TaskStep(t) == TaskLeaves(t) \/ TaskReturns(t) \/ TaskStops(t) \/ TaskPanics(t)

\* A join failure is only logged.
Join == /\ pc = "join" /\ joining # <<>> /\ task[Head(joining)] = "ended"
        /\ joining' = Tail(joining)
        /\ UNCHANGED <<config, requestVars, pc, task, signalled,
                       cancelled>>

\* "cellora api stopped cleanly".  main returns, and the runtime drops the
\* detached tasks with whatever they still had to push.
StopCleanly == /\ pc = "join" /\ joining = <<>>
               /\ pc' = "stopped"
               /\ pushing' = [s \in Statuses |-> 0]
               /\ UNCHANGED <<config, request, answer, received, total,
                              decisions, logged, task, joining, signalled,
                              cancelled>>

Next == \/ ConnectPostgres \/ LeaveEarly \/ BuildRedisManager
        \/ Bind \/ BindFails \/ Signal
        \/ \E r \in Slots : Accept(r) \/ Serve(r) \/ Finish(r)
        \/ \E s \in Statuses : Push(s)
        \/ \E t \in Tasks : TaskStep(t)
        \/ CancelTasks \/ Join \/ StopCleanly

Spec == Init /\ [][Next]_vars

\* main runs.  Of a request only its timer is sure to fire: a database, a
\* Redis or a node may never answer.  A task that comes back again and again to
\* the select! where the token is one of the ready branches takes that branch
\* in the end (select! picks at random); that it comes back is not assumed.
FairSpec == /\ Spec
            /\ \A r \in Slots : WF_vars(TimerFires(r))
            /\ WF_vars(CancelTasks \/ Join \/ StopCleanly)
            /\ \A t \in Tasks : SF_vars(TaskStops(t))

-----------------------------------------------------------------------------

\* Type invariant: the metrics worker exists only with a connection manager,
\* and main awaits only tasks it spawned.
TypeOK ==
  /\ GatewayTypeOK
  /\ pc \in {"connect", "redis", "bind", "serve", "join", "stopped", "exited"}
  /\ task \in [Tasks -> TaskStates]
  /\ task["metrics"] # "none" => manager /\ task["listener"] # "none"
  /\ joining \in Seq(Tasks) /\ Len(joining) <= 4
  /\ \A i \in DOMAIN joining : task[joining[i]] # "none"

\* No task a request relies on (the tip, the request log, the events) is
\* stopped under it: main cancels the tasks only when every request has ended
\* and its client has the answer.
RequestsFindTheirTasks ==
  \A r \in Slots : InFlight(r) \/ Sending(r) => ~cancelled

Running(t) == task[t] \in {"running", "waiting", "away"}

\* When main reports a clean stop every accepted request has ended with its
\* answer taken, and every task it spawned has ended of itself: nothing a task
\* had in hand is cut short.
CleanStopIsComplete ==
  pc = "stopped" => /\ \A r \in Slots : ~InFlight(r) /\ ~Sending(r)
                    /\ \A t \in Tasks : ~Running(t)

\* main stops in the right order: requests first, then the tasks they rely on,
\* then the report of a clean stop.
StopIsOrderly == RequestsFindTheirTasks /\ CleanStopIsComplete

\* Inductive: requests are in flight only while main serves, the token is cancelled
\* only afterwards, and main still has to join whatever runs.
StopInv ==
  /\ task \in [Tasks -> TaskStates] /\ joining \in Seq(Tasks)
  /\ \A r \in Slots : InFlight(r) \/ Sending(r) => pc = "serve"
  /\ cancelled => pc \in {"join", "stopped"}
  /\ pc = "join" => \A t \in Tasks : Running(t) => \E i \in DOMAIN joining : joining[i] = t
  /\ pc = "stopped" => \A t \in Tasks : ~Running(t)

ProcessInv == PathInv /\ StopInv

\* After a signal main stops, however requests and tasks interleave and whatever
\* the requests wait for, unless one of two things nothing bounds keeps it: a
\* task that never comes back from an await without a timeout (Postgres, Redis),
\* or a client that never takes its answer.  (Neither a signal nor the stop is
\* ever undone, so the first line says that the one leads to the other.)
NothingHangs ==
  \/ []<>signalled => []<>(pc = "stopped")
  \/ \E t \in Tasks : <>[](task[t] = "away")
  \/ \E r \in Slots : <>[]Sending(r)
=============================================================================
