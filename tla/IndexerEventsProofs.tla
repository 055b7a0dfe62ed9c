------------------------ MODULE IndexerEventsProofs -------------------------
(***************************************************************************)
(* Proofs about what the indexer announces: a reader of its events has the *)
(* blocks table, and its metrics agree with the database.  Lost replies to *)
(* COMMITs are not excluded.                                               *)
(***************************************************************************)
EXTENDS IndexerProofs, IndexerEvents, FiniteSetTheorems

-----------------------------------------------------------------------------
(* How many rows there are.                                                *)

(* The heights a rollback deletes are those from ancestor + 1 to the       *)
(* suspect height, so their number is the logged depth.                    *)
LEMMA RollbackDepth ==
  ASSUME WholeInv, pc = "rollback", CommitRollback(height, nextBlock - 1)
  PROVE  LET deleted == DOMAIN blocks \ DOMAIN blocks'
         IN  /\ deleted # {}
             /\ reorgLog'[Len(reorgLog')].depth = Cardinality(deleted)
<1>. DEFINE tip == checkpoint.last_indexed_block
<1>1. height \in Height /\ height \in DOMAIN blocks
      /\ DOMAIN blocks' = {k \in DOMAIN blocks : k <= height}
  BY RollbackEffect, Zenon DEF WholeInv
<1>2. checkpoint # NULL /\ tip \in Height
  BY <1>1, StoredInterval, Zenon
<1>3. DOMAIN blocks = StartBlock..tip
  BY <1>1, StoredInterval, Zenon
<1>4. nextBlock = tip + 1 /\ height < nextBlock - 1
  BY <1>2, Zenon DEF WholeInv, ResumeInv, ResumeBlock
<1>. HIDE DEF tip
<1>5. DOMAIN blocks \ DOMAIN blocks' = (height + 1)..tip
  BY <1>1, <1>2, <1>3, IndexerConstants DEF Height
<1>6. Cardinality((height + 1)..tip) = tip - height /\ (height + 1) \in (height + 1)..tip
  BY <1>1, <1>2, <1>4, FS_Interval DEF Height
<1>7. reorgLog'[Len(reorgLog')].depth = nextBlock - 1 - height
  <2>1. reorgLog \in Seq(LogRow)
    BY Zenon DEF WholeInv, DurableInv, TypeOK, TablesTypeOK
  <2>. QED  BY <2>1 DEF CommitRollback
<1>8. nextBlock - 1 - height = tip - height
  BY <1>1, <1>2, <1>4 DEF Height
<1>9. DOMAIN blocks \ DOMAIN blocks' # {}
  BY <1>5, <1>6, Zenon
<1>10. Cardinality(DOMAIN blocks \ DOMAIN blocks') = tip - height
  BY <1>5, <1>6, Zenon
<1>. QED  BY <1>7, <1>8, <1>9, <1>10, Zenon

(* As long as every COMMIT is answered, the depth written to reorg_log is  *)
(* the number of blocks the rollback deletes, which is at least one: the   *)
(* depth-0 guard leaves no empty rollback.                                 *)
THEOREM RollbackDepthIsExact ==
  ASSUME "ack" \notin FaultKinds
  PROVE  Spec => RollbackDepthExact
<1>. DEFINE deleted == DOMAIN blocks \ DOMAIN blocks'
            Exact == /\ deleted # {}
                     /\ reorgLog'[Len(reorgLog')].depth = Cardinality(deleted)
<1>1. WholeInv /\ [Next]_vars => [reorgLog' # reorgLog => Exact]_vars
  <2>. SUFFICES ASSUME WholeInv, [Next]_vars, reorgLog' # reorgLog PROVE Exact
    OBVIOUS
  <2>1. pc = "rollback" /\ CommitRollback(height, nextBlock - 1)
    BY StepKinds, Zenon DEF dbVars, CommitBlock
  <2>. QED  BY <2>1, RollbackDepth, Zenon DEF WholeInv
<1>. QED  BY <1>1, WholeAlways, PTL DEF Spec, RollbackDepthExact

(* The blocks table is finite.                                             *)
LEMMA StoredFinite ==
  ASSUME TablesTypeOK
  PROVE  IsFiniteSet(DOMAIN blocks) /\ Cardinality(DOMAIN blocks) \in Nat
<1>1. DOMAIN blocks \subseteq 0..MaxHeight /\ 0 \in Int /\ MaxHeight \in Int
  BY ChainTypes DEF TablesTypeOK, IsTable, Height
<1>2. IsFiniteSet(0..MaxHeight)
  BY <1>1, FS_Interval
<1>3. IsFiniteSet(DOMAIN blocks)
  BY <1>1, <1>2, FS_Subset, Zenon
<1>. QED  BY <1>3, FS_CardinalityType, Zenon

(* An empty table has no rows.                                             *)
LEMMA EmptyCount == Cardinality({}) = 0
BY FS_EmptySet, Zenon

(* A commit of a block adds one row to blocks.                             *)
LEMMA CommitCounts ==
  ASSUME DurableInv, pc = "insert", CommitBlock(fetched)
  PROVE  Cardinality(DOMAIN blocks') = Cardinality(DOMAIN blocks) + 1
<1>1. DOMAIN blocks' = DOMAIN blocks \cup {nextBlock} /\ nextBlock \notin DOMAIN blocks
  BY CommitBlockEffect DEF Height
<1>2. IsFiniteSet(DOMAIN blocks)
  BY StoredFinite, Zenon DEF DurableInv, TypeOK
<1>. QED  BY <1>1, <1>2, FS_AddElement, Zenon

(* A rollback removes as many as its depth.                                *)
LEMMA RollbackCounts ==
  ASSUME WholeInv, pc = "rollback", CommitRollback(height, nextBlock - 1)
  PROVE  Cardinality(DOMAIN blocks)
           = Cardinality(DOMAIN blocks') + reorgLog'[Len(reorgLog')].depth
<1>. DEFINE deleted == DOMAIN blocks \ DOMAIN blocks'
<1>1. DOMAIN blocks' \subseteq DOMAIN blocks
  BY RollbackEffect, Zenon DEF WholeInv
<1>2. reorgLog'[Len(reorgLog')].depth = Cardinality(deleted)
  BY RollbackDepth, Zenon
<1>3. IsFiniteSet(DOMAIN blocks) /\ Cardinality(DOMAIN blocks) \in Nat
  BY StoredFinite, Zenon DEF WholeInv, DurableInv, TypeOK
<1>4. /\ Cardinality(deleted) = Cardinality(DOMAIN blocks) - Cardinality(DOMAIN blocks \cap DOMAIN blocks')
      /\ DOMAIN blocks \cap DOMAIN blocks' = DOMAIN blocks'
  BY <1>1, <1>3, FS_Difference, Zenon
<1>5. Cardinality(DOMAIN blocks') \in Nat
  BY <1>1, <1>3, FS_Subset, FS_CardinalityType, Zenon
<1>. HIDE DEF deleted
<1>. QED  BY <1>2, <1>3, <1>4, <1>5

(* The rows of reorg_log after the first lo whose depth exceeds a bound.   *)
DeepRows(log, lo, bound) == {i \in (lo + 1)..Len(log) : log[i].depth > bound}

(* A new row adds one to the rows that exceed the bound, or none.          *)
LEMMA DeepRowsAppend ==
  ASSUME NEW log \in Seq(LogRow), NEW row \in LogRow, NEW bound \in Nat,
         NEW lo \in 0..Len(log)
  PROVE  LET deep == Cardinality(DeepRows(log, lo, bound)) IN
         /\ deep \in Nat
         /\ Cardinality(DeepRows(Append(log, row), lo, bound))
              = deep + (IF row.depth > bound THEN 1 ELSE 0)
<1>. DEFINE S == DeepRows(log, lo, bound)  n == Len(log) + 1
            S1 == DeepRows(Append(log, row), lo, bound)
<1>1. S \subseteq (lo + 1)..Len(log)
  BY Zenon DEF DeepRows
<1>2. lo + 1 \in Int /\ Len(log) \in Int
  OBVIOUS
<1>3. IsFiniteSet(S)
  BY <1>1, <1>2, FS_Interval, FS_Subset
<1>4. Cardinality(S) \in Nat
  BY <1>3, FS_CardinalityType, Zenon
<1>5. n \notin S
  BY <1>1
<1>6. S1 = IF row.depth > bound THEN S \cup {n} ELSE S
  <2>1. /\ Len(Append(log, row)) = n /\ Append(log, row)[n] = row
        /\ \A i \in 1..Len(log) : Append(log, row)[i] = log[i]
    OBVIOUS
  <2>2. (lo + 1)..n = ((lo + 1)..Len(log)) \cup {n} /\ (lo + 1)..Len(log) \subseteq 1..Len(log)
    OBVIOUS
  <2>3. S1 = {i \in ((lo + 1)..Len(log)) \cup {n} : Append(log, row)[i].depth > bound}
    BY <2>1, <2>2, Zenon DEF DeepRows
  <2>4. \A i \in (lo + 1)..Len(log) : Append(log, row)[i].depth > bound <=> log[i].depth > bound
    BY <2>1, <2>2, Zenon
  <2>5. S = {i \in (lo + 1)..Len(log) : log[i].depth > bound}
    BY Zenon DEF DeepRows
  <2>. HIDE DEF n, S1, S
  <2>. QED  BY <2>1, <2>3, <2>4, <2>5
<1>. HIDE DEF S, n, S1
<1>7. Cardinality(S \cup {n}) = Cardinality(S) + 1
  BY <1>3, <1>5, FS_AddElement, Zenon
<1>8. Cardinality(S1) = Cardinality(S) + (IF row.depth > bound THEN 1 ELSE 0)
  BY <1>4, <1>6, <1>7
<1>. QED  BY <1>4, <1>8, Zenon DEF S, S1

(* No row is above the last one.                                           *)
LEMMA DeepRowsNone ==
  ASSUME NEW log \in Seq(LogRow), NEW bound
  PROVE  Cardinality(DeepRows(log, Len(log), bound)) = 0
<1>1. DeepRows(log, Len(log), bound) = {}
  BY DEF DeepRows
<1>. QED  BY <1>1, FS_EmptySet, Zenon

-----------------------------------------------------------------------------
(* The announcing steps                                                    *)

(* An announcing step is a step of the indexer.                            *)
LEMMA EventsAreSteps ==
  ASSUME [EventsNext]_<<vars, eventVars>>
  PROVE  [Next]_vars
BY Zenon DEF EventsNext, AnnounceBlockEvent, AnnounceReorgEvent, DieUnannounced,
  CommitUnannounced, RestartProcess, Silent, Next, Poll, Faulty

(* The silent steps that change nothing the announcements depend on, and   *)
(* those that move the process between points with nothing to announce.    *)
Idle == /\ UNCHANGED <<dbVars, pc, nextBlock, stepVars>>
        /\ UNCHANGED eventVars

Control == /\ UNCHANGED dbVars /\ UNCHANGED eventVars
           /\ pc \notin {"down", "announce", "announce_reorg"}
           /\ pc' \notin {"announce", "announce_reorg"}

(* What a step is to the announcements.                                    *)
LEMMA EventKinds ==
  ASSUME [EventsNext]_<<vars, eventVars>>
  PROVE  \/ Idle \/ Control
         \/ IndexBlock /\ UNCHANGED eventVars
         \/ Rollback /\ UNCHANGED eventVars
         \/ AnnounceBlockEvent \/ AnnounceReorgEvent \/ DieUnannounced
         \/ CommitUnannounced \/ RestartProcess
<1>1. CASE UNCHANGED <<vars, eventVars>>
  BY <1>1, Zenon DEF Idle, vars
<1>2. CASE Silent
  <2>1. CASE NodeMove \/ Cancel \/ WaitForTip
    BY <1>2, <2>1, Zenon DEF Silent, NodeMove, Cancel, WaitForTip, vars, Idle
  <2>2. CASE Boot \/ BootFails \/ Stop \/ FetchBlock \/ DetectReorg \/ ParseBlock
              \/ ParseFails \/ InsertConflict
    BY <1>2, <2>2, Zenon
    DEF Silent, Boot, BootFails, Stop, FetchBlock, DetectReorg, ParseBlock, ParseFails,
        InsertConflict, Loop, Halt, Control
  <2>3. CASE WalkDown \/ WalkFails \/ FindAncestor \/ StepFails
    BY <1>2, <2>3
    DEF Silent, WalkDown, WalkFails, FindAncestor, StepFails, Loop, Control
  <2>. QED  BY <1>2, <2>1, <2>2, <2>3, Zenon DEF Silent
<1>. QED  BY <1>1, <1>2, Zenon DEF EventsNext

-----------------------------------------------------------------------------
(* The replica                                                             *)

(* Inserting the next block above the stored ones, then cutting it off,    *)
(* gives the stored ones back; cutting the top off and inserting it again  *)
(* changes nothing.                                                        *)
LEMMA CutTop ==
  ASSUME NEW t, t \in [DOMAIN t -> Block], NEW n \in Nat, NEW b,
         \A k \in DOMAIN t : k \in Nat /\ k < n
  PROVE  DeleteAbove(InsertBlock(t, n, b), n - 1) = t
<1>. DEFINE u == InsertBlock(t, n, b)
<1>1. {k \in DOMAIN u : k <= n - 1} = DOMAIN t
  <2>1. DOMAIN u = DOMAIN t \cup {n}
    BY Zenon DEF InsertBlock
  <2>2. \A k \in DOMAIN t : k <= n - 1
    OBVIOUS
  <2>3. ~(n <= n - 1)
    OBVIOUS
  <2>. HIDE DEF u
  <2>. QED  BY <2>1, <2>2, <2>3, Zenon
<1>2. DeleteAbove(u, n - 1) = [k \in DOMAIN t |-> u[k]]
  BY <1>1, Zenon DEF DeleteAbove, Restrict
<1>3. \A k \in DOMAIN t : u[k] = t[k]
  BY DEF InsertBlock
<1>. HIDE DEF u
<1>4. [k \in DOMAIN t |-> u[k]] = t
  BY <1>3
<1>. QED  BY <1>2, <1>4 DEF u

(* Deleting the top row and inserting it again gives the table back.       *)
LEMMA PutTopBack ==
  ASSUME NEW t, t \in [DOMAIN t -> Block], NEW n \in DOMAIN t,
         \A k \in DOMAIN t : k \in Nat /\ k <= n
  PROVE  InsertBlock(DeleteAbove(t, n - 1), n, t[n]) = t
<1>. DEFINE u == DeleteAbove(t, n - 1)
<1>1. DOMAIN u = {k \in DOMAIN t : k <= n - 1} /\ \A k \in DOMAIN u : u[k] = t[k]
  BY DEF DeleteAbove, Restrict
<1>2. DOMAIN u \cup {n} = DOMAIN t /\ n \notin DOMAIN u
  <2>1. \A k \in DOMAIN t : k <= n - 1 <=> k # n
    OBVIOUS
  <2>. QED  BY <1>1, <2>1, Zenon
<1>. HIDE DEF u
<1>3. InsertBlock(u, n, t[n]) = [k \in DOMAIN t |-> t[k]]
  BY <1>1, <1>2 DEF InsertBlock
<1>. QED  BY <1>3 DEF u

(* ReplicaInv is kept by every step.                                       *)
LEMMA ReplicaStep ==
  ASSUME DurableInv, ReplicaInv, [EventsNext]_<<vars, eventVars>>
  PROVE  ReplicaInv'
<1>1. CASE Idle
  BY <1>1, Zenon DEF Idle, eventVars, dbVars, stepVars, ReplicaInv, AnnouncedInv, ReplicaIsExact
<1>2. CASE Control
  BY <1>2, Zenon DEF Control, eventVars, dbVars, ReplicaInv, AnnouncedInv, ReplicaIsExact
<1>3. CASE IndexBlock /\ UNCHANGED eventVars
  <2>1. pc = "insert" /\ pc' = "announce" /\ CommitBlock(fetched) /\ nextBlock' = nextBlock
        /\ fetched' = fetched
    BY <1>3, Zenon DEF IndexBlock, stepVars
  <2>2. /\ nextBlock \in Nat /\ Number[fetched] = nextBlock
        /\ \A k \in DOMAIN blocks : k \in Nat /\ k < nextBlock
    BY <2>1, CommitBlockEffect DEF Height
  <2>3. AnnouncedInv'
    BY <2>1, <2>2 DEF CommitBlock, AnnouncedInv
  <2>4. blocks' = InsertBlock(blocks, nextBlock, fetched)
    BY <2>1, <2>2, Zenon DEF CommitBlock
  <2>5. blocks \in [DOMAIN blocks -> Block]
    BY Zenon DEF DurableInv, TypeOK, TablesTypeOK, IsTable
  <2>6. DeleteAbove(blocks', nextBlock - 1) = blocks
    BY <2>2, <2>4, <2>5, CutTop, Zenon
  <2>7. ~missed => replica = blocks
    BY <2>1, Zenon DEF ReplicaInv, ReplicaIsExact
  <2>8. replica' = replica /\ missed' = missed
    BY <1>3, Zenon DEF eventVars
  <2>9. ReplicaIsExact'
    BY <2>1, <2>6, <2>7, <2>8, Zenon DEF ReplicaIsExact
  <2>. QED  BY <2>3, <2>9, Zenon DEF ReplicaInv
<1>4. CASE Rollback /\ UNCHANGED eventVars
  <2>1. /\ pc = "rollback" /\ pc' = "announce_reorg" /\ height' = height
        /\ blocks' = DeleteAbove(blocks, height)
        /\ replica' = replica /\ missed' = missed
    BY <1>4, Zenon DEF Rollback, CommitRollback, stepVars, eventVars
  <2>2. reorgLog' # <<>>
    <3>1. reorgLog \in Seq(LogRow)
      BY Zenon DEF DurableInv, TypeOK, TablesTypeOK
    <3>. QED  BY <1>4, <3>1 DEF Rollback, CommitRollback
  <2>. QED  BY <2>1, <2>2 DEF ReplicaInv, AnnouncedInv, ReplicaIsExact
<1>5. CASE AnnounceBlockEvent
  <2>1. /\ pc = "announce" /\ pc' = "loop" /\ blocks' = blocks
        /\ Publish(InsertBlock(replica, nextBlock, fetched))
    BY <1>5, Zenon DEF AnnounceBlockEvent, AnnounceBlock, Loop, dbVars
  <2>2. checkpoint = [last_indexed_block |-> nextBlock, last_indexed_hash |-> fetched]
    BY <2>1, Zenon DEF ReplicaInv, AnnouncedInv
  <2>3. checkpoint # NULL
    BY <2>1, <2>2, IndexerConstants, ChainTypes
    DEF DurableInv, TypeOK, ControlTypeOK, CheckpointRow
  <2>4. /\ nextBlock \in DOMAIN blocks /\ blocks[nextBlock] = fetched
        /\ \A k \in DOMAIN blocks : k <= nextBlock
    BY <2>2, <2>3 DEF DurableInv, CheckpointMatches
  <2>5. blocks \in [DOMAIN blocks -> Block] /\ \A k \in DOMAIN blocks : k \in Nat
    BY DEF DurableInv, TypeOK, TablesTypeOK, IsTable, Height
  <2>6. ~missed => InsertBlock(replica, nextBlock, fetched) = blocks
    <3>1. ~missed => replica = DeleteAbove(blocks, nextBlock - 1)
      BY <2>1 DEF ReplicaInv, ReplicaIsExact
    <3>2. InsertBlock(DeleteAbove(blocks, nextBlock - 1), nextBlock, blocks[nextBlock]) = blocks
      BY <2>4, <2>5, PutTopBack
    <3>. QED  BY <2>4, <3>1, <3>2
  <2>. QED  BY <2>1, <2>6 DEF ReplicaInv, AnnouncedInv, ReplicaIsExact, Publish
<1>6. CASE AnnounceReorgEvent
  <2>1. /\ pc = "announce_reorg" /\ pc' = "loop" /\ blocks' = blocks
        /\ Publish(DeleteAbove(replica, height))
    BY <1>6, Zenon DEF AnnounceReorgEvent, AnnounceReorg, ReorgApplied, Loop, dbVars
  <2>2. ~missed => blocks = DeleteAbove(replica, height)
    BY <2>1, Zenon DEF ReplicaInv, ReplicaIsExact
  <2>. QED  BY <2>1, <2>2 DEF ReplicaInv, AnnouncedInv, ReplicaIsExact, Publish
<1>7. CASE DieUnannounced
  <2>1. pc' = "down" /\ blocks' = blocks
    BY <1>7, Zenon DEF DieUnannounced, Crash, Halt, dbVars
  <2>. QED  BY <1>7, <2>1 DEF DieUnannounced, ReplicaInv, AnnouncedInv, ReplicaIsExact
<1>8. CASE CommitUnannounced
  <2>1. pc' = "loop" /\ missed' = TRUE
    BY <1>8, Zenon
    DEF CommitUnannounced, IndexBlockUnacknowledged, RollbackUnacknowledged, Loop
  <2>. QED  BY <2>1, Zenon DEF ReplicaInv, AnnouncedInv, ReplicaIsExact
<1>9. CASE RestartProcess
  <2>1. /\ pc = "down" /\ pc' = "boot" /\ blocks' = blocks
        /\ replica' = replica /\ missed' = missed
    BY <1>9, Zenon DEF RestartProcess, Restart, dbVars
  <2>. QED  BY <2>1, Zenon DEF ReplicaInv, AnnouncedInv, ReplicaIsExact
<1>. QED  BY <1>1, <1>2, <1>3, <1>4, <1>5, <1>6, <1>7, <1>8, <1>9, EventKinds, Zenon

(* Nothing is stored and nothing announced.                                *)
LEMMA EventsStart ==
  ASSUME EventsInit
  PROVE  DurableInv /\ ReplicaInv
<1>1. Init /\ pc = "boot" /\ replica = blocks
  BY Zenon DEF EventsInit, Init
<1>. QED  BY <1>1, DurableInit, Zenon DEF ReplicaInv, AnnouncedInv, ReplicaIsExact

(* Whatever fails, dies or is lost, a reader of both channels that missed  *)
(* no event holds exactly the blocks table once the last commit is         *)
(* announced.                                                              *)
THEOREM ReplicaFollows == EventsSpec => []ReplicaIsExact
<1>1. EventsInit => DurableInv /\ ReplicaInv
  BY EventsStart, Zenon
<1>2. DurableInv /\ ReplicaInv /\ [EventsNext]_<<vars, eventVars>> => (DurableInv /\ ReplicaInv)'
  BY EventsAreSteps, DurableStep, ReplicaStep, Zenon
<1>3. ReplicaInv => ReplicaIsExact
  BY Zenon DEF ReplicaInv
<1>. QED  BY <1>1, <1>2, <1>3, PTL DEF EventsSpec

-----------------------------------------------------------------------------
(* The metrics                                                             *)

(* What announcing a block does to the registry.                           *)
LEMMA BlockObserved ==
  ASSUME DurableInv, RegistryOK, AnnounceBlockEvent
  PROVE  /\ metrics' \in [latest : Nat, indexed : Nat, reorgs : Nat, oversized : Nat, depths : Nat]
         /\ metrics'.latest = nextBlock /\ metrics'.indexed = metrics.indexed + 1
         /\ metrics'.reorgs = metrics.reorgs /\ metrics'.oversized = metrics.oversized
         /\ metrics'.depths = metrics.depths
         /\ pc = "announce" /\ pc' = "loop"
         /\ UNCHANGED dbVars /\ unsure' = unsure /\ boot' = boot
<1>1. pc = "announce" /\ pc' = "loop" /\ UNCHANGED dbVars /\ unsure' = unsure /\ boot' = boot
  BY Zenon DEF AnnounceBlockEvent, AnnounceBlock, Loop
<1>2. metrics' = [metrics EXCEPT !.latest = nextBlock, !.indexed = @ + 1]
  BY Zenon DEF AnnounceBlockEvent, ObserveBlockIndexed
<1>3. nextBlock \in Nat
  BY <1>1, ChainTypes DEF DurableInv, TypeOK, ControlTypeOK
<1>4. metrics = [latest |-> metrics.latest, indexed |-> metrics.indexed, reorgs |-> metrics.reorgs,
                 oversized |-> metrics.oversized, depths |-> metrics.depths]
  BY Zenon DEF RegistryOK
<1>5. metrics' = [latest |-> nextBlock, indexed |-> metrics.indexed + 1, reorgs |-> metrics.reorgs,
                  oversized |-> metrics.oversized, depths |-> metrics.depths]
  BY <1>2, <1>4, Zenon
<1>. QED  BY <1>1, <1>3, <1>5 DEF RegistryOK

(* What announcing a reorg does to the registry.                           *)
LEMMA ReorgObserved ==
  ASSUME DurableInv, RegistryOK, AnnounceReorgEvent, LastDepth \in Nat
  PROVE  /\ metrics' \in [latest : Nat, indexed : Nat, reorgs : Nat, oversized : Nat, depths : Nat]
         /\ metrics'.latest = height /\ metrics'.indexed = metrics.indexed
         /\ metrics'.reorgs = metrics.reorgs + 1
         /\ metrics'.oversized = metrics.oversized + (IF LastDepth > ReorgMaxDepth THEN 1 ELSE 0)
         /\ metrics'.depths = metrics.depths + LastDepth
         /\ pc = "announce_reorg" /\ pc' = "loop"
         /\ UNCHANGED dbVars /\ unsure' = unsure /\ boot' = boot
<1>1. pc = "announce_reorg" /\ pc' = "loop" /\ UNCHANGED dbVars /\ unsure' = unsure /\ boot' = boot
  BY Zenon DEF AnnounceReorgEvent, AnnounceReorg, Loop
<1>2. metrics' = [metrics EXCEPT !.reorgs = @ + 1, !.latest = height,
                    !.oversized = @ + (IF LastDepth > ReorgMaxDepth THEN 1 ELSE 0),
                    !.depths = @ + LastDepth]
  BY Zenon DEF AnnounceReorgEvent, ObserveReorg, IsOversized, LastDepth
<1>3. height \in Nat
  BY <1>1, ChainTypes DEF DurableInv, TypeOK, ControlTypeOK
<1>. DEFINE big == IF LastDepth > ReorgMaxDepth THEN 1 ELSE 0
<1>4. big \in Nat
  OBVIOUS
<1>. HIDE DEF big
<1>5. metrics' = [metrics EXCEPT !.reorgs = @ + 1, !.latest = height,
                    !.oversized = @ + big, !.depths = @ + LastDepth]
  BY <1>2 DEF big
<1>6. metrics = [latest |-> metrics.latest, indexed |-> metrics.indexed, reorgs |-> metrics.reorgs,
                 oversized |-> metrics.oversized, depths |-> metrics.depths]
  BY Zenon DEF RegistryOK
<1>7. metrics' = [latest |-> height, indexed |-> metrics.indexed, reorgs |-> metrics.reorgs + 1,
                  oversized |-> metrics.oversized + big, depths |-> metrics.depths + LastDepth]
  BY <1>5, <1>6, Zenon
<1>8. /\ metrics.indexed \in Nat /\ metrics.reorgs + 1 \in Nat
      /\ metrics.oversized + big \in Nat /\ metrics.depths + LastDepth \in Nat
  <2>1. /\ metrics.indexed \in Nat /\ metrics.reorgs \in Nat
        /\ metrics.oversized \in Nat /\ metrics.depths \in Nat
    BY Zenon DEF RegistryOK
  <2>. QED  BY <1>4, <2>1
<1>9. metrics' \in [latest : Nat, indexed : Nat, reorgs : Nat, oversized : Nat, depths : Nat]
  BY <1>3, <1>7, <1>8, Zenon
<1>10. /\ metrics'.latest = height /\ metrics'.indexed = metrics.indexed
       /\ metrics'.reorgs = metrics.reorgs + 1 /\ metrics'.oversized = metrics.oversized + big
       /\ metrics'.depths = metrics.depths + LastDepth
  BY <1>7, Zenon
<1>. QED  BY <1>1, <1>9, <1>10, Zenon DEF big

(* What a rollback does to reorg_log.                                      *)
LEMMA RollbackLogs ==
  ASSUME DurableInv, pc = "rollback", CommitRollback(height, nextBlock - 1)
  PROVE  \E row \in LogRow : reorgLog' = Append(reorgLog, row) /\ LastDepth' = row.depth
<1>. DEFINE row == [divergence_block_number |-> height + 1,
                   divergence_node_hash    |-> nodeHash,
                   divergence_indexed_hash |-> suspectHash,
                   depth                   |-> nextBlock - 1 - height,
                   status                  |-> "completed"]
<1>1. reorgLog' = Append(reorgLog, row) /\ reorgLog \in Seq(LogRow)
  BY Zenon DEF CommitRollback, DurableInv, TypeOK, TablesTypeOK
<1>2. /\ nextBlock \in 0..(MaxHeight + 1) /\ height \in 0..(nextBlock - 1)
      /\ nodeHash \in Block /\ suspectHash \in Block
  BY Zenon DEF DurableInv, TypeOK, ControlTypeOK
<1>3. height + 1 \in Nat /\ nextBlock - 1 - height \in Nat
  BY <1>2, ChainTypes
<1>4. row \in LogRow
  BY <1>2, <1>3 DEF LogRow
<1>. HIDE DEF row
<1>5. reorgLog'[Len(reorgLog')] = row
  BY <1>1, <1>4
<1>. QED  BY <1>1, <1>4, <1>5, Zenon DEF LastDepth

(* The last row of the log while a reorg is announced.                     *)
LEMMA LastDepthType ==
  ASSUME DurableInv, AnnouncedInv, pc = "announce_reorg"
  PROVE  LastDepth \in Nat
<1>1. reorgLog # <<>> /\ reorgLog \in Seq(LogRow)
  BY Zenon DEF DurableInv, TypeOK, TablesTypeOK, AnnouncedInv
<1>2. reorgLog[Len(reorgLog)] \in LogRow
  BY <1>1
<1>. QED  BY <1>2, Zenon DEF LastDepth, LogRow

(* reorg_log only grows.                                                   *)
LEMMA LogGrows ==
  ASSUME DurableInv, [Next]_vars
  PROVE  Len(reorgLog) \in Nat /\ Len(reorgLog') \in Nat /\ Len(reorgLog) <= Len(reorgLog')
<1>1. reorgLog \in Seq(LogRow)
  BY Zenon DEF DurableInv, TypeOK, TablesTypeOK
<1>2. CASE reorgLog' = reorgLog
  BY <1>1, <1>2
<1>3. CASE pc = "rollback" /\ CommitRollback(height, nextBlock - 1)
  BY <1>1, <1>3, RollbackLogs
<1>. QED  BY <1>2, <1>3, StepKinds, Zenon DEF dbVars, CommitBlock

(* How a step changes the numbers of rows the metrics are compared with.   *)
Counted ==
  /\ Cardinality(DOMAIN blocks) \in Nat /\ Cardinality(DOMAIN blocks') \in Nat
  /\ pc = "insert" /\ CommitBlock(fetched) =>
       Cardinality(DOMAIN blocks') = Cardinality(DOMAIN blocks) + 1
  /\ WholeInv /\ pc = "rollback" /\ CommitRollback(height, nextBlock - 1) =>
       Cardinality(DOMAIN blocks) = Cardinality(DOMAIN blocks') + LastDepth'
  /\ \A row \in LogRow :
       reorgLog' = Append(reorgLog, row) /\ boot' = boot =>
         Cardinality(OversizedRows')
           = Cardinality(OversizedRows) + (IF row.depth > ReorgMaxDepth THEN 1 ELSE 0)
  /\ boot'.log = Len(reorgLog') => Cardinality(OversizedRows') = 0

(* The registry stays well typed.                                          *)
LEMMA RegistryStep ==
  ASSUME DurableInv, AnnouncedInv, RegistryOK, Counted, [EventsNext]_<<vars, eventVars>>
  PROVE  RegistryOK'
<1>1. [Next]_vars
  BY EventsAreSteps, Zenon
<1>2. Len(reorgLog) \in Nat /\ Len(reorgLog') \in Nat /\ Len(reorgLog) <= Len(reorgLog')
  BY <1>1, LogGrows, Zenon
<1>3. CASE metrics' = metrics /\ boot' = boot
  BY <1>2, <1>3 DEF RegistryOK
<1>4. CASE AnnounceBlockEvent
  BY <1>2, <1>4, BlockObserved DEF RegistryOK, dbVars
<1>5. CASE AnnounceReorgEvent
  <2>1. LastDepth \in Nat
    BY <1>5, LastDepthType, Zenon DEF AnnounceReorgEvent, AnnounceReorg
  <2>. QED  BY <1>2, <1>5, <2>1, ReorgObserved DEF RegistryOK, dbVars
<1>6. CASE RestartProcess
  <2>1. reorgLog' = reorgLog /\ metrics' = NewMetrics /\ boot' = Stored
    BY <1>6, Zenon DEF RestartProcess, Restart, dbVars
  <2>2. Cardinality(DOMAIN blocks) \in Nat
    BY Zenon DEF Counted
  <2>3. Stored \in [blocks : Nat, log : Nat, whole : BOOLEAN] /\ Stored.log = Len(reorgLog)
    <3>1. NoGaps \in BOOLEAN
      BY Zenon DEF NoGaps
    <3>. QED  BY <1>2, <2>2, <3>1, Zenon DEF Stored
  <2>. QED  BY <1>2, <2>1, <2>3, Zenon DEF RegistryOK, NewMetrics
<1>7. CASE DieUnannounced \/ CommitUnannounced
  BY <1>3, <1>7, Zenon DEF DieUnannounced, CommitUnannounced
<1>8. CASE UNCHANGED eventVars
  BY <1>3, <1>8, Zenon DEF eventVars
<1>. QED  BY <1>4, <1>5, <1>6, <1>7, <1>8, EventKinds, Zenon DEF Idle, Control

(* The gauge is the checkpoint again after every announcement.             *)
LEMMA GaugeStep ==
  ASSUME DurableInv, AnnouncedInv, RegistryOK, GaugeIsCheckpoint,
         [EventsNext]_<<vars, eventVars>>
  PROVE  GaugeIsCheckpoint'
<1>1. CASE Idle
  BY <1>1, Zenon DEF Idle, eventVars, dbVars, GaugeIsCheckpoint, Settled
<1>2. CASE Control
  BY <1>2, Zenon DEF Control, eventVars, dbVars, GaugeIsCheckpoint, Settled
<1>3. CASE IndexBlock \/ Rollback \/ DieUnannounced
  <2>1. pc' \in {"announce", "announce_reorg", "down"}
    BY <1>3, Zenon DEF IndexBlock, Rollback, DieUnannounced, Crash, Halt
  <2>. QED  BY <2>1, Zenon DEF GaugeIsCheckpoint, Settled
<1>4. CASE AnnounceBlockEvent
  <2>1. /\ metrics'.latest = nextBlock /\ checkpoint' = checkpoint /\ pc = "announce"
    BY <1>4, BlockObserved, Zenon DEF dbVars
  <2>2. checkpoint.last_indexed_block = nextBlock
    BY <2>1 DEF AnnouncedInv
  <2>. QED  BY <2>1, <2>2, Zenon DEF GaugeIsCheckpoint
<1>5. CASE AnnounceReorgEvent
  <2>1. pc = "announce_reorg"
    BY <1>5, Zenon DEF AnnounceReorgEvent, AnnounceReorg
  <2>2. metrics'.latest = height /\ checkpoint' = checkpoint
    BY <1>5, <2>1, LastDepthType, ReorgObserved, Zenon DEF dbVars
  <2>3. checkpoint.last_indexed_block = height
    BY <2>1, Zenon DEF DurableInv, StepInv
  <2>. QED  BY <2>2, <2>3, Zenon DEF GaugeIsCheckpoint
<1>6. CASE CommitUnannounced
  BY <1>6, Zenon DEF CommitUnannounced, GaugeIsCheckpoint, Settled
<1>7. CASE RestartProcess
  <2>1. metrics' = NewMetrics
    BY <1>7, Zenon DEF RestartProcess
  <2>2. ~(metrics'.indexed + metrics'.reorgs > 0)
    BY <2>1 DEF NewMetrics
  <2>. QED  BY <2>2, Zenon DEF GaugeIsCheckpoint
<1>. QED  BY <1>1, <1>2, <1>3, <1>4, <1>5, <1>6, <1>7, EventKinds, Zenon

(* A step that leaves the log and the registry alone, and is not at a      *)
(* reorg before or after, keeps the reorg counters right.                  *)
LEMMA LogSame ==
  ASSUME LogInv, reorgLog' = reorgLog, boot' = boot, Sure' => Sure,
         metrics'.reorgs = metrics.reorgs, metrics'.oversized = metrics.oversized,
         pc' = "announce_reorg" <=> pc = "announce_reorg"
  PROVE  LogInv'
BY Zenon DEF LogInv, LastDepth, OversizedRows

(* The reorg counters agree with reorg_log again after every announcement. *)
LEMMA LogStep ==
  ASSUME DurableInv, AnnouncedInv, RegistryOK, LogInv, Counted,
         [EventsNext]_<<vars, eventVars>>
  PROVE  LogInv'
<1>0. /\ reorgLog \in Seq(LogRow) /\ ReorgMaxDepth \in Nat
      /\ boot.log \in 0..Len(reorgLog)
      /\ metrics.reorgs \in Nat /\ metrics.oversized \in Nat
  BY EventConstants DEF DurableInv, TypeOK, TablesTypeOK, RegistryOK
<1>1. CASE Idle
  <2>1. reorgLog' = reorgLog /\ boot' = boot /\ metrics' = metrics /\ pc' = pc /\ unsure' = unsure
    BY <1>1, Zenon DEF Idle, eventVars, dbVars
  <2>. QED  BY <2>1, LogSame, Zenon DEF Sure
<1>2. CASE Control
  <2>1. /\ reorgLog' = reorgLog /\ boot' = boot /\ metrics' = metrics /\ unsure' = unsure
        /\ pc # "down" /\ pc # "announce_reorg" /\ pc' # "announce_reorg"
    BY <1>2, Zenon DEF Control, eventVars, dbVars
  <2>. QED  BY <2>1, LogSame, Zenon DEF Sure
<1>3. CASE IndexBlock /\ UNCHANGED eventVars
  <2>1. /\ reorgLog' = reorgLog /\ boot' = boot /\ metrics' = metrics /\ unsure' = unsure
        /\ pc = "insert" /\ pc' = "announce"
    BY <1>3, Zenon DEF IndexBlock, CommitBlock, eventVars
  <2>. QED  BY <2>1, LogSame, Zenon DEF Sure
<1>4. CASE Rollback /\ UNCHANGED eventVars
  <2>1. /\ boot' = boot /\ metrics' = metrics /\ unsure' = unsure
        /\ pc = "rollback" /\ pc' = "announce_reorg" /\ CommitRollback(height, nextBlock - 1)
    BY <1>4, Zenon DEF Rollback, eventVars
  <2>2. PICK row \in LogRow : reorgLog' = Append(reorgLog, row) /\ LastDepth' = row.depth
    BY <2>1, RollbackLogs
  <2>3. Len(reorgLog') = Len(reorgLog) + 1
    BY <1>0, <2>2
  <2>4. Cardinality(OversizedRows')
          = Cardinality(OversizedRows) + (IF LastDepth' > ReorgMaxDepth THEN 1 ELSE 0)
    BY <2>1, <2>2, Zenon DEF Counted
  <2>. SUFFICES ASSUME Sure'
                PROVE  /\ metrics.reorgs + 1 = Len(reorgLog') - boot.log
                       /\ metrics.oversized + (IF LastDepth' > ReorgMaxDepth THEN 1 ELSE 0)
                            = Cardinality(OversizedRows')
    BY <2>1, Zenon DEF LogInv
  <2>5. metrics.reorgs = Len(reorgLog) - boot.log /\ metrics.oversized = Cardinality(OversizedRows)
    BY <1>0, <2>1 DEF LogInv, Sure
  <2>6. Len(reorgLog) \in Nat
    BY <1>0
  <2>. QED  BY <1>0, <2>3, <2>4, <2>5, <2>6
<1>5. CASE AnnounceBlockEvent
  <2>1. /\ reorgLog' = reorgLog /\ boot' = boot /\ unsure' = unsure
        /\ metrics'.reorgs = metrics.reorgs /\ metrics'.oversized = metrics.oversized
        /\ pc = "announce" /\ pc' = "loop"
    BY <1>5, BlockObserved, Zenon DEF dbVars
  <2>. QED  BY <2>1, LogSame DEF Sure
<1>6. CASE AnnounceReorgEvent
  <2>1. pc = "announce_reorg" /\ LastDepth \in Nat
    BY <1>6, LastDepthType, Zenon DEF AnnounceReorgEvent, AnnounceReorg
  <2>2. /\ reorgLog' = reorgLog /\ boot' = boot /\ unsure' = unsure /\ pc' = "loop"
        /\ metrics'.reorgs = metrics.reorgs + 1
        /\ metrics'.oversized = metrics.oversized + (IF LastDepth > ReorgMaxDepth THEN 1 ELSE 0)
    BY <1>6, <2>1, ReorgObserved, Zenon DEF dbVars
  <2>3. OversizedRows' = OversizedRows
    BY <2>2, Zenon DEF OversizedRows
  <2>. SUFFICES ASSUME Sure'
                PROVE  /\ metrics'.reorgs + 0 = Len(reorgLog) - boot.log
                       /\ metrics'.oversized + 0 = Cardinality(OversizedRows)
    BY <2>2, <2>3, Zenon DEF LogInv
  <2>4. /\ metrics.reorgs + 1 = Len(reorgLog) - boot.log
        /\ metrics.oversized + (IF LastDepth > ReorgMaxDepth THEN 1 ELSE 0)
              = Cardinality(OversizedRows)
    BY <2>1, <2>2 DEF LogInv, Sure
  <2>. QED  BY <1>0, <2>2, <2>4
<1>7. CASE DieUnannounced \/ CommitUnannounced
  <2>1. ~Sure'
    BY <1>7, Zenon DEF DieUnannounced, Crash, Halt, CommitUnannounced, Sure
  <2>. QED  BY <2>1, Zenon DEF LogInv
<1>8. CASE RestartProcess
  <2>1. /\ reorgLog' = reorgLog /\ boot'.log = Len(reorgLog) /\ pc' = "boot"
        /\ metrics'.reorgs = 0 /\ metrics'.oversized = 0
    BY <1>8, Zenon DEF RestartProcess, Restart, Stored, NewMetrics, dbVars
  <2>2. Cardinality(OversizedRows') = 0
    BY <2>1, Zenon DEF Counted
  <2>3. Len(reorgLog) \in Nat
    BY <1>0
  <2>. QED  BY <2>1, <2>2, <2>3 DEF LogInv
<1>. QED  BY <1>1, <1>2, <1>3, <1>4, <1>5, <1>6, <1>7, <1>8, EventKinds, Zenon

(* The block counter and the depths add up again after every announcement. *)
LEMMA BalanceStep ==
  ASSUME DurableInv, AnnouncedInv, RegistryOK, BalanceInv, Counted,
         [EventsNext]_<<vars, eventVars>>
  PROVE  BalanceInv'
<1>. DEFINE rows == Cardinality(DOMAIN blocks)
<1>0. /\ metrics.indexed \in Nat /\ metrics.depths \in Nat /\ boot.blocks \in Nat /\ rows \in Nat
      /\ [Next]_vars
  BY EventsAreSteps, Zenon DEF RegistryOK, Counted
<1>1. ASSUME UNCHANGED dbVars \/ IndexBlock \/ Rollback, Sure, boot.whole
      PROVE  WholeInv /\ ResumeInv' /\ NoGaps'
  <2>1. WholeInv
    BY <1>1, Zenon DEF BalanceInv, WholeInv
  <2>. QED  BY <1>0, <1>1, <2>1, WholeStep, Zenon DEF WholeInv
<1>2. CASE Idle
  <2>1. /\ UNCHANGED dbVars /\ boot' = boot /\ metrics' = metrics /\ pc' = pc /\ unsure' = unsure
        /\ reorgLog' = reorgLog /\ blocks' = blocks
    BY <1>2, Zenon DEF Idle, eventVars, dbVars
  <2>. QED  BY <1>1, <2>1, Zenon DEF BalanceInv, Sure, LastDepth
<1>3. CASE Control
  <2>1. /\ UNCHANGED dbVars /\ boot' = boot /\ metrics' = metrics /\ unsure' = unsure
        /\ blocks' = blocks /\ pc # "down"
        /\ pc \notin {"announce", "announce_reorg"} /\ pc' \notin {"announce", "announce_reorg"}
    BY <1>3, Zenon DEF Control, eventVars, dbVars
  <2>. QED  BY <1>1, <2>1, Zenon DEF BalanceInv, Sure
<1>4. CASE IndexBlock /\ UNCHANGED eventVars
  <2>1. /\ boot' = boot /\ metrics' = metrics /\ unsure' = unsure
        /\ pc = "insert" /\ pc' = "announce" /\ CommitBlock(fetched)
    BY <1>4, Zenon DEF IndexBlock, eventVars
  <2>2. rows' = rows + 1
    BY <2>1, Zenon DEF Counted
  <2>. SUFFICES ASSUME Sure', boot.whole
                PROVE  ResumeInv' /\ NoGaps'
                       /\ metrics.indexed + 1 + boot.blocks = metrics.depths + 0 + rows'
    BY <2>1, Zenon DEF BalanceInv
  <2>3. Sure
    BY <2>1, Zenon DEF Sure
  <2>4. metrics.indexed + 0 + boot.blocks = metrics.depths + 0 + rows
    BY <2>1, <2>3, Zenon DEF BalanceInv
  <2>5. metrics.indexed + 1 + boot.blocks = metrics.depths + 0 + rows'
    BY <1>0, <2>2, <2>4
  <2>. QED  BY <1>1, <1>4, <2>3, <2>5, Zenon
<1>5. CASE Rollback /\ UNCHANGED eventVars
  <2>1. /\ boot' = boot /\ metrics' = metrics /\ unsure' = unsure
        /\ pc = "rollback" /\ pc' = "announce_reorg" /\ CommitRollback(height, nextBlock - 1)
    BY <1>5, Zenon DEF Rollback, eventVars
  <2>. SUFFICES ASSUME Sure', boot.whole
                PROVE  ResumeInv' /\ NoGaps'
                       /\ metrics.indexed + 0 + boot.blocks = metrics.depths + LastDepth' + rows'
    BY <2>1, Zenon DEF BalanceInv
  <2>2. Sure
    BY <2>1, Zenon DEF Sure
  <2>3. WholeInv /\ ResumeInv' /\ NoGaps'
    BY <1>1, <1>5, <2>2, Zenon
  <2>4. rows = rows' + LastDepth'
    BY <2>1, <2>3, Zenon DEF Counted
  <2>5. LastDepth' \in Nat /\ rows' \in Nat
    <3>1. LastDepth' \in Nat
      BY <2>1, RollbackLogs, Zenon DEF LogRow
    <3>. QED  BY <3>1, Zenon DEF Counted
  <2>6. metrics.indexed + 0 + boot.blocks = metrics.depths + 0 + rows
    BY <2>1, <2>2 DEF BalanceInv
  <2>7. metrics.indexed + 0 + boot.blocks = metrics.depths + LastDepth' + rows'
    BY <1>0, <2>4, <2>5, <2>6
  <2>. QED  BY <2>3, <2>7, Zenon
<1>6. CASE AnnounceBlockEvent
  <2>1. /\ UNCHANGED dbVars /\ blocks' = blocks /\ boot' = boot /\ unsure' = unsure
        /\ metrics'.indexed = metrics.indexed + 1 /\ metrics'.depths = metrics.depths
        /\ pc = "announce" /\ pc' = "loop"
    BY <1>6, BlockObserved, Zenon DEF dbVars
  <2>. SUFFICES ASSUME Sure', boot.whole
                PROVE  ResumeInv' /\ NoGaps'
                       /\ metrics'.indexed + 0 + boot.blocks = metrics'.depths + 0 + rows
    BY <2>1, Zenon DEF BalanceInv
  <2>2. Sure
    BY <2>1, Zenon DEF Sure
  <2>3. metrics.indexed + 1 + boot.blocks = metrics.depths + 0 + rows
    BY <2>1, <2>2 DEF BalanceInv
  <2>4. metrics'.indexed + 0 + boot.blocks = metrics'.depths + 0 + rows
    BY <1>0, <2>1, <2>3
  <2>. QED  BY <1>1, <2>1, <2>2, <2>4, Zenon
<1>7. CASE AnnounceReorgEvent
  <2>1. pc = "announce_reorg" /\ LastDepth \in Nat
    BY <1>7, LastDepthType, Zenon DEF AnnounceReorgEvent, AnnounceReorg
  <2>2. /\ UNCHANGED dbVars /\ blocks' = blocks /\ boot' = boot /\ unsure' = unsure
        /\ metrics'.indexed = metrics.indexed /\ metrics'.depths = metrics.depths + LastDepth
        /\ pc' = "loop"
    BY <1>7, <2>1, ReorgObserved, Zenon DEF dbVars
  <2>. SUFFICES ASSUME Sure', boot.whole
                PROVE  ResumeInv' /\ NoGaps'
                       /\ metrics'.indexed + 0 + boot.blocks = metrics'.depths + 0 + rows
    BY <2>2, Zenon DEF BalanceInv
  <2>3. Sure
    BY <2>1, <2>2, Zenon DEF Sure
  <2>4. metrics.indexed + 0 + boot.blocks = metrics.depths + LastDepth + rows
    BY <2>1, <2>3 DEF BalanceInv
  <2>5. metrics'.indexed + 0 + boot.blocks = metrics'.depths + 0 + rows
    BY <1>0, <2>1, <2>2, <2>4
  <2>. QED  BY <1>1, <2>2, <2>3, <2>5, Zenon
<1>8. CASE DieUnannounced \/ CommitUnannounced
  <2>1. ~Sure'
    BY <1>8, Zenon DEF DieUnannounced, Crash, Halt, CommitUnannounced, Sure
  <2>. QED  BY <2>1, Zenon DEF BalanceInv
<1>9. CASE RestartProcess
  <2>1. /\ blocks' = blocks /\ checkpoint' = checkpoint /\ pc' = "boot"
        /\ metrics' = NewMetrics /\ boot' = Stored
    BY <1>9, Zenon DEF RestartProcess, Restart, dbVars
  <2>2. /\ boot'.whole = NoGaps /\ boot'.blocks = rows
        /\ metrics'.indexed = 0 /\ metrics'.depths = 0
    BY <2>1, Zenon DEF Stored, NewMetrics
  <2>3. NoGaps' = NoGaps
    BY <2>1, Zenon DEF NoGaps
  <2>4. ResumeInv'
    BY <2>1 DEF ResumeInv
  <2>5. rows' = rows
    BY <2>1, Zenon
  <2>. HIDE DEF rows
  <2>. QED  BY <2>1, <2>2, <2>3, <2>4, <2>5 DEF BalanceInv, rows
<1>. QED  BY <1>2, <1>3, <1>4, <1>5, <1>6, <1>7, <1>8, <1>9, EventKinds, Zenon

(* Every step counts as Counted says.                                      *)
LEMMA RowsAreCounted ==
  ASSUME DurableInv, RegistryOK, [EventsNext]_<<vars, eventVars>>
  PROVE  Counted
<1>1. /\ reorgLog \in Seq(LogRow) /\ ReorgMaxDepth \in Nat
      /\ boot.log \in 0..Len(reorgLog) /\ TablesTypeOK
  BY EventConstants DEF DurableInv, TypeOK, TablesTypeOK, RegistryOK
<1>2. DurableInv'
  BY EventsAreSteps, DurableStep, Zenon
<1>3. TablesTypeOK' /\ reorgLog' \in Seq(LogRow)
  BY <1>2, Zenon DEF DurableInv, TypeOK, TablesTypeOK
<1>4. Cardinality(DOMAIN blocks) \in Nat
  BY <1>1, StoredFinite, Zenon
<1>5. Cardinality(DOMAIN blocks') \in Nat
  <2>1. (TablesTypeOK => Cardinality(DOMAIN blocks) \in Nat)'
    BY StoredFinite, PTL
  <2>. QED  BY <1>3, <2>1
<1>6. WholeInv /\ pc = "rollback" /\ CommitRollback(height, nextBlock - 1) =>
        Cardinality(DOMAIN blocks) = Cardinality(DOMAIN blocks') + LastDepth'
  BY RollbackCounts, Zenon DEF LastDepth
<1>7. ASSUME NEW row \in LogRow, reorgLog' = Append(reorgLog, row), boot' = boot
      PROVE  Cardinality(OversizedRows')
               = Cardinality(OversizedRows) + (IF row.depth > ReorgMaxDepth THEN 1 ELSE 0)
  <2>1. OversizedRows = DeepRows(reorgLog, boot.log, ReorgMaxDepth)
    BY Zenon DEF DeepRows, OversizedRows
  <2>2. OversizedRows' = DeepRows(Append(reorgLog, row), boot.log, ReorgMaxDepth)
    BY <1>7, Zenon DEF DeepRows, OversizedRows
  <2>. QED  BY <1>1, <2>1, <2>2, DeepRowsAppend, Zenon
<1>8. boot'.log = Len(reorgLog') => Cardinality(OversizedRows') = 0
  BY <1>3, DeepRowsNone, Zenon DEF DeepRows, OversizedRows
<1>9. pc = "insert" /\ CommitBlock(fetched) =>
        Cardinality(DOMAIN blocks') = Cardinality(DOMAIN blocks) + 1
  BY CommitCounts, Zenon
<1>. QED  BY <1>4, <1>5, <1>6, <1>7, <1>8, <1>9, Zenon DEF Counted

(* EventsInv is inductive.                                                 *)
LEMMA EventsStep ==
  ASSUME EventsInv, [EventsNext]_<<vars, eventVars>>
  PROVE  EventsInv'
<1>0. Counted
  BY RowsAreCounted, Zenon DEF EventsInv, MetricsInv
<1>1. DurableInv'
  BY EventsAreSteps, DurableStep, Zenon DEF EventsInv
<1>2. ReplicaInv'
  BY ReplicaStep, Zenon DEF EventsInv
<1>3. MetricsInv'
  BY <1>0, RegistryStep, GaugeStep, LogStep, BalanceStep, Zenon DEF EventsInv, MetricsInv, ReplicaInv
<1>. QED  BY <1>1, <1>2, <1>3, Zenon DEF EventsInv

(* The registry of a process that has announced nothing.                   *)
LEMMA MetricsInit ==
  ASSUME EventsInit
  PROVE  MetricsInv
<1>1. /\ pc = "boot" /\ reorgLog = <<>> /\ blocks = NoRows /\ checkpoint = NULL
      /\ metrics = NewMetrics /\ boot = Stored
  BY Zenon DEF EventsInit, Init
<1>2. DOMAIN blocks = {} /\ Len(reorgLog) = 0 /\ reorgLog \in Seq(LogRow)
  BY <1>1 DEF NoRows
<1>3. NoGaps /\ ResumeInv
  BY <1>1 DEF NoGaps, ResumeInv
<1>4. Cardinality(DOMAIN blocks) = 0
  BY <1>2, EmptyCount
<1>5. /\ boot.blocks = 0 /\ boot.log = 0 /\ boot \in [blocks : Nat, log : Nat, whole : BOOLEAN]
      /\ metrics.indexed = 0 /\ metrics.reorgs = 0 /\ metrics.oversized = 0 /\ metrics.depths = 0
  BY <1>1, <1>2, <1>3, <1>4 DEF Stored, NewMetrics
<1>6. Cardinality(OversizedRows) = 0
  BY <1>2, <1>5, DeepRowsNone, Zenon DEF DeepRows, OversizedRows
<1>7. RegistryOK /\ GaugeIsCheckpoint
  BY <1>1, <1>2, <1>5 DEF RegistryOK, GaugeIsCheckpoint, NewMetrics
<1>8. LogInv
  BY <1>1, <1>2, <1>5, <1>6 DEF LogInv
<1>9. BalanceInv
  BY <1>1, <1>3, <1>4, <1>5 DEF BalanceInv
<1>. QED  BY <1>7, <1>8, <1>9, Zenon DEF MetricsInv

(* Whatever fails, dies or is lost, the Prometheus metrics of a process    *)
(* that took no commit for a failure agree with the database: the gauge is *)
(* the checkpoint, blocks indexed minus the summed depths is the growth of *)
(* the blocks table, and the reorg counters are the rows of reorg_log.     *)
THEOREM MetricsFollow == EventsSpec => []MetricsAgree
<1>1. EventsInit => EventsInv
  <2>. SUFFICES ASSUME EventsInit PROVE EventsInv
    OBVIOUS
  <2>1. DurableInv /\ ReplicaInv
    BY EventsStart
  <2>. QED  BY <2>1, MetricsInit, Zenon DEF EventsInv
<1>2. EventsInv /\ [EventsNext]_<<vars, eventVars>> => EventsInv'
  BY EventsStep, Zenon
<1>3. EventsInv => MetricsAgree
  <2>. SUFFICES ASSUME EventsInv PROVE MetricsAgree
    OBVIOUS
  <2>0. /\ metrics.indexed \in Nat /\ metrics.reorgs \in Nat /\ metrics.oversized \in Nat
        /\ metrics.depths \in Nat /\ boot.blocks \in Nat
        /\ Cardinality(DOMAIN blocks) \in Nat
    BY StoredFinite, Zenon DEF EventsInv, DurableInv, TypeOK, MetricsInv, RegistryOK
  <2>1. CountersBalance
    BY <2>0 DEF EventsInv, MetricsInv, BalanceInv, CountersBalance, Settled, Sure
  <2>2. ReorgsMatchLog
    BY <2>0 DEF EventsInv, MetricsInv, LogInv, ReorgsMatchLog, Settled, Sure, OversizedRows
  <2>. QED  BY <2>1, <2>2 DEF EventsInv, MetricsInv, MetricsAgree
<1>. QED  BY <1>1, <1>2, <1>3, PTL DEF EventsSpec
=============================================================================
