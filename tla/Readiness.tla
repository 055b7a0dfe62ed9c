------------------------------ MODULE Readiness ------------------------------
(***************************************************************************)
(* GET /v1/health/ready (api/src/routes/health.rs): three probes run side  *)
(* by side (tokio::join!), each under its own timeout; the CKB probe makes *)
(* two calls under one.  A dependency that was not attached at startup is  *)
(* skipped.  The dependencies fail, hang and recover while they are        *)
(* probed.                                                                 *)
(***************************************************************************)
EXTENDS Naturals

CONSTANTS ProbeTimeout,   \* PROBE_TIMEOUT, in ticks
          MaxFlips,       \* bound: how often a dependency changes
          NULL

Deps == {"db", "redis", "ckb"}

VARIABLES attached,  \* the dependencies attached to AppState
          health,    \* external: each dependency is "up", "down" or "hung"
          flips,     \* how often that changed
          synced,    \* external: is the node out of initial block download
          probe,     \* per dependency: the probe's state
          elapsed,   \* ticks since the request came
          answer,    \* the answer, NULL while the probes run
          seen       \* history: what each dependency was since the request

vars == <<attached, health, flips, synced, probe, elapsed, answer, seen>>

\* A probe: the calls it still has to make, its deadline, and its result.
Probe(calls, deadline, result) ==
  [calls |-> calls, deadline |-> deadline, result |-> result]

Calls == [db |-> 1, redis |-> 1, ckb |-> 2]   \* chain_info, tip_block_number

Deadline(d, now) == now + ProbeTimeout

\* join!: every probe starts with the request, or is skipped
Started(d, now) == IF d \in attached
                   THEN Probe(Calls[d], Deadline(d, now), NULL)
                   ELSE Probe(0, now, "skipped")

\* with_redis and with_ckb are optional, the pool is not
Init == /\ attached \in {{"db"} \union more : more \in SUBSET {"redis", "ckb"}}
        /\ health \in [Deps -> {"up", "down", "hung"}] /\ flips = 0
        /\ synced \in BOOLEAN
        /\ probe = [d \in Deps |-> Started(d, 0)]
        /\ elapsed = 0 /\ answer = NULL
        /\ seen = [d \in Deps |-> {health[d]}]

Running(d) == probe[d].result = NULL

Finish(d, result) == /\ probe' = [probe EXCEPT ![d].result = result]
                     /\ UNCHANGED <<attached, health, flips, synced, elapsed, answer, seen>>

-----------------------------------------------------------------------------

Flip == /\ flips < MaxFlips /\ answer = NULL
        /\ \E d \in Deps, h \in {"up", "down", "hung"} :
             /\ h # health[d]
             /\ health' = [health EXCEPT ![d] = h]
             /\ seen' = [seen EXCEPT ![d] = @ \union {h}]
        /\ flips' = flips + 1
        /\ UNCHANGED <<attached, synced, probe, elapsed, answer>>

\* A call is answered; the next one starts, or the probe is "ok".
CallAnswered(d) ==
  /\ Running(d) /\ health[d] = "up"
  /\ IF probe[d].calls > 1
     THEN /\ probe' = [probe EXCEPT ![d].calls = @ - 1]
          /\ UNCHANGED <<attached, health, flips, synced, elapsed, answer, seen>>
     ELSE Finish(d, "ok")

CallFails(d) == /\ Running(d) /\ health[d] = "down"
                /\ Finish(d, "error")

Deadlined(d) == elapsed = probe[d].deadline

\* timeout(PROBE_TIMEOUT, ..): the probe is dropped at its deadline
TimesOut(d) == /\ Running(d) /\ Deadlined(d)
               /\ Finish(d, "error")

\* Time passes; a timer that is due fires first.
Tick == /\ answer = NULL
        /\ \E d \in Deps : Running(d)
        /\ \A d \in Deps : Running(d) => elapsed < probe[d].deadline
        /\ elapsed' = elapsed + 1
        /\ UNCHANGED <<attached, health, flips, synced, probe, answer, seen>>

\* mutant: the node's state left out of the verdict
AnyError_NoNode == \E d \in {"db", "redis"} : probe[d].result = "error"

AnyError == \E d \in Deps : probe[d].result = "error"

\* The verdict, once every probe has one.
Respond == /\ answer = NULL
           /\ \A d \in Deps : ~Running(d)
           /\ answer' = [status |-> IF AnyError THEN 503 ELSE 200,
                         is_synced |-> CASE probe["ckb"].result = "ok" -> synced
                                         [] OTHER -> probe["ckb"].result = "skipped"]
           /\ UNCHANGED <<attached, health, flips, synced, probe, elapsed, seen>>

Next == \/ Flip \/ Tick \/ Respond
        \/ \E d \in Deps : CallAnswered(d) \/ CallFails(d) \/ TimesOut(d)

Spec == Init /\ [][Next]_vars

\* The runtime polls the handler and its timers fire.
Progress == Tick \/ Respond \/ \E d \in Deps : TimesOut(d)

FairSpec == Spec /\ WF_vars(Progress)

-----------------------------------------------------------------------------

\* Type invariant: a probe of an attached dependency is never "skipped" and
\* one of a missing dependency never runs.
TypeOK ==
  /\ \A d \in Deps : probe[d].result \in IF d \in attached
                                         THEN {NULL, "ok", "error"} ELSE {"skipped"}
  /\ \A d \in Deps : probe[d].calls \in 0..2
  /\ answer = NULL \/ answer \in [status : {200, 503}, is_synced : BOOLEAN]

\* "A hung dependency cannot wedge the readiness response": however the
\* dependencies fail and hang, and however many of them, the answer is made
\* within one probe timeout (health.rs PROBE_TIMEOUT).
AnswersInOneTimeout == elapsed <= ProbeTimeout

\* The verdict is about what was really there: 200 says that every attached
\* dependency was up at some moment of the probe, 503 that one of them was
\* not, at some moment, or took the whole timeout.  The node's initial block
\* download changes neither.
VerdictIsObserved ==
  answer # NULL =>
    IF answer.status = 200 THEN \A d \in attached : "up" \in seen[d]
    ELSE elapsed = ProbeTimeout \/ \E d \in attached : seen[d] # {"up"}

\* Every readiness request is answered.
ProbeEnds == <>(answer # NULL)

=============================================================================
