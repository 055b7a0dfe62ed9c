------------------------------ MODULE TipTracker ------------------------------
(***************************************************************************)
(* The API's tip cache (crates/api/src/tip.rs): one background task reads  *)
(* the checkpoint from Postgres, then the tip from the CKB node, and       *)
(* publishes a snapshot; every response reads the snapshot without waiting *)
(* (tip_headers, /v1/stats, GraphQL stats, /admin/metrics/status).         *)
(*                                                                         *)
(* Time is counted in whole units.  The two sources move on their own;     *)
(* dbSeen and nodeSeen keep, for every value, the last moment the source   *)
(* really had it.  An answer takes time: it carries a value that its       *)
(* source had at some moment of the await, not the one it has when the     *)
(* answer arrives.                                                         *)
(***************************************************************************)
EXTENDS Integers

CONSTANTS StaleAfter,       \* STALE_AFTER
          RefreshInterval,  \* api_tip_cache_refresh_ms
          QueryTime,        \* longest the checkpoint's query takes (no timeout in the code)
          RpcTimeout,       \* longest the node's answer may take
          MaxHeight,        \* heights the sources move between
          MaxTime,          \* bound on the clock
          NULL

ASSUME TipConstants ==
  /\ StaleAfter \in Nat \ {0}
  /\ RefreshInterval \in Nat /\ QueryTime \in Nat /\ RpcTimeout \in Nat
  /\ MaxHeight \in Nat /\ MaxTime \in Nat
  /\ NULL \notin Nat

VARIABLES now, checkpoint, nodeTip, dbSeen, nodeSeen,
          snapshot, pc, since, indexerTip, indexerOk, cancelled

sourceVars == <<checkpoint, nodeTip>>
seenVars == <<dbSeen, nodeSeen>>
localVars == <<indexerTip, indexerOk>>
vars == <<now, checkpoint, nodeTip, dbSeen, nodeSeen,
          snapshot, pc, since, indexerTip, indexerOk, cancelled>>

Heights == 0 .. MaxHeight
Tips == Heights \cup {NULL}

Snapshot(indexer, node, observed) ==
  [indexer_tip |-> indexer, node_tip |-> node, observed |-> observed]

\* Before the service started, further back than the threshold.
LongAgo == -2 * StaleAfter

\* TipSnapshot::empty: no tips, observed twice the threshold ago (an Instant of
\* the Unix build is signed, so checked_sub does not fail).
EmptySnapshot == Snapshot(NULL, NULL, LongAgo)

Init ==
  /\ now = 0
  /\ checkpoint \in Tips
  /\ nodeTip \in Heights
  /\ dbSeen = [v \in Tips |-> IF v = checkpoint THEN 0 ELSE LongAgo]
  /\ nodeSeen = [v \in Heights |-> IF v = nodeTip THEN 0 ELSE LongAgo]
  /\ snapshot = EmptySnapshot
  /\ pc = "read_db"
  /\ since = 0
  /\ indexerTip = NULL
  /\ indexerOk = FALSE
  /\ cancelled = FALSE

-----------------------------------------------------------------------------
(* What a response takes from the snapshot.                                *)

Elapsed == now - snapshot.observed

IsStale == Elapsed > StaleAfter

LagBlocks ==
  IF snapshot.indexer_tip = NULL \/ snapshot.node_tip = NULL
  THEN NULL
  ELSE snapshot.node_tip - snapshot.indexer_tip

\* The headers tip_headers puts on a response of the given success.
TipHeaders(success) ==
  [tip   |-> IF success THEN snapshot.indexer_tip ELSE NULL,
   stale |-> success /\ IsStale]

\* The body of /v1/stats and of the GraphQL stats field.
Stats ==
  [indexer_tip |-> snapshot.indexer_tip, node_tip |-> snapshot.node_tip,
   lag_blocks |-> LagBlocks, snapshot_age |-> Elapsed, is_stale |-> IsStale]

\* The body of /admin/metrics/status.
Status ==
  [tip |-> IF snapshot.node_tip = NULL THEN 0 ELSE snapshot.node_tip,
   sync_status |-> IF IsStale THEN "syncing" ELSE "synced",
   snapshot_age |-> Elapsed]

-----------------------------------------------------------------------------
(* The sources and the clock.                                              *)

\* The node's answer arrives, or the client gives up, within RpcTimeout.
Tick ==
  /\ now < MaxTime
  /\ pc = "read_db" => now < since + QueryTime
  /\ pc = "read_node" => now < since + RpcTimeout
  /\ now' = now + 1
  /\ dbSeen' = [dbSeen EXCEPT ![checkpoint] = now + 1]
  /\ nodeSeen' = [nodeSeen EXCEPT ![nodeTip] = now + 1]
  /\ UNCHANGED <<sourceVars, snapshot, pc, since, localVars, cancelled>>

\* The indexer commits a block or a rollback.
CheckpointMoves ==
  /\ checkpoint' \in Heights \ {checkpoint}
  /\ dbSeen' = [dbSeen EXCEPT ![checkpoint'] = now]
  /\ UNCHANGED <<now, nodeTip, nodeSeen, snapshot, pc, since, localVars, cancelled>>

NodeMoves ==
  /\ nodeTip' \in Heights \ {nodeTip}
  /\ nodeSeen' = [nodeSeen EXCEPT ![nodeTip'] = now]
  /\ UNCHANGED <<now, checkpoint, dbSeen, snapshot, pc, since, localVars, cancelled>>

-----------------------------------------------------------------------------
(* The refresh task.                                                       *)

\* What a read begun at `since` may answer: a value the source had meanwhile.
CheckpointAnswers == {v \in Tips : dbSeen[v] >= since}
NodeAnswers == {v \in Heights : nodeSeen[v] >= since}

\* refresh_once, first await: the checkpoint, or on an error the previous tip.
ReadIndexerTip ==
  /\ pc = "read_db"
  /\ \/ indexerOk' = TRUE /\ indexerTip' \in CheckpointAnswers
     \/ indexerOk' = FALSE /\ indexerTip' = snapshot.indexer_tip
  /\ pc' = "read_node"
  /\ since' = now
  /\ UNCHANGED <<now, sourceVars, seenVars, snapshot, cancelled>>

\* A failed read stamps the snapshot all the same.
Publish_RestampOnFailure(ok, tip) ==
  snapshot' = Snapshot(indexerTip, IF ok THEN tip ELSE snapshot.node_tip, now)

\* What refresh_once publishes when the node's answer is in: the stamp moves
\* only when both sources were read in this cycle.
Publish(ok, tip) ==
  snapshot' = Snapshot(indexerTip,
                       IF ok THEN tip ELSE snapshot.node_tip,
                       IF indexerOk /\ ok THEN now ELSE snapshot.observed)

\* The locals of refresh_once end with it.
RefreshEnds ==
  /\ indexerTip' = NULL /\ indexerOk' = FALSE
  /\ since' = now
  /\ UNCHANGED <<now, sourceVars, seenVars, cancelled>>

\* A failed read is retried at once instead of going back to the select!.
ReadNodeTip_RetryAtOnce ==
  /\ pc = "read_node"
  /\ \E ok \in BOOLEAN, tip \in NodeAnswers :
       /\ Publish(ok, tip)
       /\ pc' = IF ok THEN "sleep" ELSE "read_db"
  /\ RefreshEnds

\* refresh_once, second await, and the publication.
ReadNodeTip ==
  /\ pc = "read_node"
  /\ \E ok \in BOOLEAN, tip \in NodeAnswers : Publish(ok, tip)
  /\ pc' = "sleep"
  /\ RefreshEnds

\* The select! of spawn_refresh_task: the sleep ends ...
WakeUp ==
  /\ pc = "sleep"
  /\ now >= since + RefreshInterval
  /\ pc' = "read_db"
  /\ since' = now
  /\ UNCHANGED <<now, sourceVars, seenVars, snapshot, localVars, cancelled>>

\* ... or the token is cancelled, which is seen only here.
StopRefresh ==
  /\ pc = "sleep"
  /\ cancelled
  /\ pc' = "stopped"
  /\ UNCHANGED <<now, sourceVars, seenVars, snapshot, since, localVars, cancelled>>

Cancel ==
  /\ ~cancelled
  /\ cancelled' = TRUE
  /\ UNCHANGED <<now, sourceVars, seenVars, snapshot, pc, since, localVars>>

Refresh == ReadIndexerTip \/ ReadNodeTip \/ WakeUp \/ StopRefresh

Next == Tick \/ CheckpointMoves \/ NodeMoves \/ Cancel \/ Refresh

Spec == Init /\ [][Next]_vars

\* Every await of the task returns and every sleep ends; a select! entered with
\* the token cancelled finds it ready while the new sleep is not.
FairSpec == Spec /\ WF_vars(Refresh) /\ SF_vars(StopRefresh)

-----------------------------------------------------------------------------
(* Properties.                                                             *)

\* Type invariant: the snapshot the middleware reads holds heights or no tip.
TypeOK ==
  /\ now \in Nat
  /\ checkpoint \in Tips /\ nodeTip \in Heights
  /\ dbSeen \in [Tips -> Int] /\ nodeSeen \in [Heights -> Int]
  /\ snapshot \in [indexer_tip : Tips, node_tip : Tips, observed : Int]
  /\ pc \in {"read_db", "read_node", "sleep", "stopped"}
  /\ since \in Nat
  /\ indexerTip \in Tips
  /\ indexerOk \in BOOLEAN /\ cancelled \in BOOLEAN

\* The database had tip v at some moment this recent.
DbHadRecently(v) == now - dbSeen[v] <= StaleAfter + RpcTimeout + QueryTime

\* The node had tip v at some moment this recent.
NodeHadRecently(v) == v \in Heights /\ now - nodeSeen[v] <= StaleAfter + RpcTimeout

\* An answer that is not marked stale (no x-indexer-tip-stale header, is_stale
\* false, status "synced") names a node tip that the node really had within the
\* staleness threshold plus the time its answer may take, and an indexer tip that
\* the database had within that and the time of its own query: the stamp is taken
\* after both awaits, so their length adds to the threshold, but a source that
\* stopped answering is never shown as fresh (the comment in refresh_once).
FreshMeansRecent ==
  /\ ~ TipHeaders(TRUE).stale => DbHadRecently(TipHeaders(TRUE).tip)
  /\ ~ Stats.is_stale => /\ DbHadRecently(Stats.indexer_tip)
                         /\ NodeHadRecently(Stats.node_tip)
  /\ Status.sync_status = "synced" => NodeHadRecently(Status.tip)

\* Once the service is told to stop, the refresh task stops, whatever its
\* sources answer (main joins it before it exits).
RefreshStops == cancelled ~> (pc = "stopped")

=============================================================================
