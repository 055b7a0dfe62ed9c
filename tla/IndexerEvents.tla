---------------------------- MODULE IndexerEvents ----------------------------
(***************************************************************************)
(* What the indexer tells the rest of the system after each commit: the    *)
(* block and reorg events it publishes on Redis (indexer/src/events.rs,    *)
(* reorg.rs publish_reorg) and the Prometheus metrics of the process       *)
(* (indexer/src/metrics.rs).  Indexer has the database side; its steps are *)
(* taken whole and each is joined with what it announces.                  *)
(*                                                                         *)
(* The reader of the events is a replica: it stores every block event at   *)
(* its height and drops what is above the ancestor of a reorg event.       *)
(***************************************************************************)
EXTENDS Indexer

CONSTANT ReorgMaxDepth    \* config.indexer_reorg_max_depth

ASSUME EventConstants == ReorgMaxDepth \in Nat

VARIABLES
  replica,    \* height -> block, from the events published so far
  missed,     \* history: a commit was not announced
  unsure,     \* history: this process took a commit for a failure
  metrics,    \* the process's registry
  boot        \* history: what was stored when the process started

eventVars == <<replica, missed, unsure, metrics, boot>>

Stored == [blocks |-> Cardinality(DOMAIN blocks), log |-> Len(reorgLog),
           whole |-> NoGaps]

(* Metrics::new: every counter, and the gauge, starts at 0.                *)
NewMetrics == [latest |-> 0, indexed |-> 0, reorgs |-> 0, oversized |-> 0,
               depths |-> 0]

EventsInit ==
  /\ Init
  /\ replica = NoRows /\ missed = FALSE /\ unsure = FALSE
  /\ metrics = NewMetrics /\ boot = Stored

(* An event is published when the process has a connection and Redis takes *)
(* it; otherwise it is logged and gone, and the replica is followed no     *)
(* more.                                                                   *)
Publish(applied) ==
  \/ replica' = applied /\ UNCHANGED missed
  \/ missed' = TRUE /\ replica' = NoRows

ObserveBlockIndexed(height_) ==
  [metrics EXCEPT !.latest = height_, !.indexed = @ + 1]

IsOversized(depth) == depth > ReorgMaxDepth

(* Mutant of ObserveReorg: the depth counts the ancestor too.              *)
ObserveReorgPlusOne(depth, ancestor) ==
  [metrics EXCEPT !.reorgs = @ + 1, !.latest = ancestor,
                  !.oversized = @ + (IF IsOversized(depth) THEN 1 ELSE 0),
                  !.depths = @ + depth + 1]

(* observe_reorg, then set_latest_block.                                   *)
ObserveReorg(depth, ancestor) ==
  [metrics EXCEPT !.reorgs = @ + 1, !.latest = ancestor,
                  !.oversized = @ + (IF IsOversized(depth) THEN 1 ELSE 0),
                  !.depths = @ + depth]

(* publish_block_and_cells, then observe_block_indexed.                    *)
AnnounceBlockEvent ==
  /\ AnnounceBlock
  /\ Publish(InsertBlock(replica, nextBlock, fetched))
  /\ metrics' = ObserveBlockIndexed(nextBlock)
  /\ UNCHANGED <<unsure, boot>>

(* Mutant of ReorgApplied: the event names the height of the poll.         *)
ReorgAppliedAtPoll == DeleteAbove(replica, nextBlock - 1)

(* The event names the ancestor, the new canonical tip.                    *)
ReorgApplied == DeleteAbove(replica, height)

(* The metrics of the rollback, whose depth is the logged one, then        *)
(* publish_reorg.                                                          *)
AnnounceReorgEvent ==
  /\ AnnounceReorg
  /\ metrics' = ObserveReorg(reorgLog[Len(reorgLog)].depth, height)
  /\ Publish(ReorgApplied)
  /\ UNCHANGED <<unsure, boot>>

(* A commit whose announcement never comes: the process dies after it, or  *)
(* takes it for a failure.                                                 *)
DieUnannounced ==
  /\ Crash
  /\ IF pc \in {"announce", "announce_reorg"}
     THEN missed' = TRUE /\ replica' = NoRows
     ELSE UNCHANGED <<missed, replica>>
  /\ UNCHANGED <<unsure, metrics, boot>>

CommitUnannounced ==
  /\ IndexBlockUnacknowledged \/ RollbackUnacknowledged
  /\ missed' = TRUE /\ replica' = NoRows /\ unsure' = TRUE
  /\ UNCHANGED <<metrics, boot>>

(* A new process has a new registry.                                       *)
RestartProcess ==
  /\ Restart
  /\ metrics' = NewMetrics /\ boot' = Stored /\ unsure' = FALSE
  /\ UNCHANGED <<replica, missed>>

Silent ==
  /\ \/ NodeMove \/ Boot \/ BootFails \/ Stop \/ Cancel \/ WaitForTip
     \/ FetchBlock \/ DetectReorg \/ ParseBlock \/ ParseFails \/ IndexBlock
     \/ InsertConflict \/ WalkDown \/ WalkFails \/ FindAncestor \/ Rollback
     \/ StepFails
  /\ UNCHANGED eventVars

EventsNext == \/ AnnounceBlockEvent \/ AnnounceReorgEvent \/ DieUnannounced
              \/ CommitUnannounced \/ RestartProcess \/ Silent

EventsSpec == EventsInit /\ [][EventsNext]_<<vars, eventVars>>

-----------------------------------------------------------------------------
(* What the announcements promise.                                         *)

(* The type invariant: the counters of the registry, and what the process  *)
(* found when it started.                                                  *)
EventsTypeOK ==
  /\ missed \in BOOLEAN /\ unsure \in BOOLEAN
  /\ IsTable(replica, Height, Block)
  /\ metrics \in [{"latest", "indexed", "reorgs", "oversized", "depths"} -> Nat]
  /\ metrics.latest <= MaxHeight
  /\ metrics.oversized <= metrics.reorgs /\ metrics.reorgs <= metrics.depths
  /\ boot \in [blocks : Nat, log : Nat, whole : BOOLEAN]

(* A reader of both channels that missed nothing holds exactly the blocks  *)
(* table: the events come after the commit they announce, in the order of  *)
(* the commits, and a reorg event takes back exactly what its rollback     *)
(* deleted (poller.rs step and handle_reorg).                              *)
ReplicaIsExact ==
  ~missed => CASE pc = "announce" -> replica = DeleteAbove(blocks, nextBlock - 1)
               [] pc = "announce_reorg" -> blocks = DeleteAbove(replica, height)
               [] OTHER -> replica = blocks

(* The process runs, has announced what it committed, and has taken no     *)
(* commit for a failure.                                                   *)
Settled == pc \notin {"down", "announce", "announce_reorg"} /\ ~unsure

(* indexer_latest_block is the checkpoint from the first block or reorg of *)
(* the process on, down through every rollback (set_latest_block), as long *)
(* as no commit is taken for a failure.                                    *)
GaugeIsCheckpoint ==
  Settled /\ metrics.indexed + metrics.reorgs > 0
    => metrics.latest = checkpoint.last_indexed_block

(* The counters of a process that found no gap account for the rows it     *)
(* wrote: blocks indexed minus the summed depths of its reorgs is the      *)
(* growth of the blocks table.                                             *)
CountersBalance ==
  Settled /\ boot.whole => metrics.indexed + boot.blocks
                             = metrics.depths + Cardinality(DOMAIN blocks)

(* The reorg counters agree with reorg_log: one reorg for each row the     *)
(* process wrote, oversized when the row's depth exceeds the bound.        *)
ReorgsMatchLog ==
  Settled => /\ metrics.reorgs = Len(reorgLog) - boot.log
             /\ metrics.oversized
                  = Cardinality({i \in (boot.log + 1)..Len(reorgLog) :
                                   reorgLog[i].depth > ReorgMaxDepth})

(* What Prometheus shows of the indexer is what the database holds: the    *)
(* gauge, the block counter with the depth histogram, and the reorg        *)
(* counters (indexer/src/metrics.rs).                                      *)
MetricsAgree == GaugeIsCheckpoint /\ CountersBalance /\ ReorgsMatchLog

-----------------------------------------------------------------------------
(* Inductive strengthenings, for the proofs.                               *)

(* The block to announce is the one the checkpoint names, and the reorg to *)
(* announce was logged.                                                    *)
AnnouncedInv ==
  /\ pc = "announce" =>
       checkpoint = [last_indexed_block |-> nextBlock, last_indexed_hash |-> fetched]
  /\ pc = "announce_reorg" => reorgLog # <<>>

ReplicaInv == AnnouncedInv /\ ReplicaIsExact

(* The process runs and has taken no commit for a failure; it may still    *)
(* have a commit to announce.                                              *)
Sure == pc # "down" /\ ~unsure

LastDepth == reorgLog[Len(reorgLog)].depth

OversizedRows == {i \in (boot.log + 1)..Len(reorgLog) : reorgLog[i].depth > ReorgMaxDepth}

(* The reorg counters are one rollback behind reorg_log while a reorg is   *)
(* being announced.                                                        *)
LogInv ==
  Sure => /\ metrics.reorgs + (IF pc = "announce_reorg" THEN 1 ELSE 0)
               = Len(reorgLog) - boot.log
          /\ metrics.oversized
               + (IF pc = "announce_reorg" /\ LastDepth > ReorgMaxDepth THEN 1 ELSE 0)
               = Cardinality(OversizedRows)

(* A process that found no gap makes none, and its counters are one commit *)
(* behind the blocks table while it announces.                             *)
BalanceInv ==
  Sure /\ boot.whole =>
    /\ ResumeInv /\ NoGaps
    /\ metrics.indexed + (IF pc = "announce" THEN 1 ELSE 0) + boot.blocks
         = metrics.depths + (IF pc = "announce_reorg" THEN LastDepth ELSE 0)
             + Cardinality(DOMAIN blocks)

RegistryOK ==
  /\ metrics \in [latest : Nat, indexed : Nat, reorgs : Nat, oversized : Nat, depths : Nat]
  /\ boot \in [blocks : Nat, log : Nat, whole : BOOLEAN]
  /\ boot.log <= Len(reorgLog)

MetricsInv == RegistryOK /\ GaugeIsCheckpoint /\ LogInv /\ BalanceInv

EventsInv == DurableInv /\ ReplicaInv /\ MetricsInv
=============================================================================
