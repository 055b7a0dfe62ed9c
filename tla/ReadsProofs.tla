----------------------------- MODULE ReadsProofs -----------------------------
(***************************************************************************)
(* What the API says of its sources is true.  For every threshold, refresh *)
(* interval and length of the two awaits, an answer not marked stale names *)
(* tips the two sources had that recently; for every probe timeout, the  *)
(* readiness verdict is in time and about what was there; for every chain  *)
(* and number of requests, a proof's envelope fits together.               *)
(***************************************************************************)
EXTENDS Reads, TLAPS

-----------------------------------------------------------------------------
(* The tip cache                                                           *)

\* The clock and the history agree: each source has its present value now, and
\* no value was seen in the future.
SeenInv ==
  /\ dbSeen[checkpoint] = now
  /\ nodeSeen[nodeTip] = now
  /\ \A v \in Tips : dbSeen[v] <= now
  /\ \A v \in Heights : nodeSeen[v] <= now

\* What the refresh task holds between its two reads: the checkpoint it read was
\* there since its query was sent, and neither await is overdue.
TaskInv ==
  /\ snapshot.observed <= since
  /\ since <= now
  /\ pc = "read_db" => now <= since + QueryTime
  /\ pc = "read_node" =>
       /\ now <= since + RpcTimeout
       /\ indexerOk => dbSeen[indexerTip] >= since - QueryTime
       /\ ~indexerOk => indexerTip = snapshot.indexer_tip

\* A stamped snapshot holds values at least as recent as its stamp allows.
SnapshotInv ==
  \/ snapshot.observed = LongAgo
  \/ /\ snapshot.observed >= 0
     /\ dbSeen[snapshot.indexer_tip] >= snapshot.observed - RpcTimeout - QueryTime
     /\ snapshot.node_tip \in Heights
     /\ nodeSeen[snapshot.node_tip] >= snapshot.observed - RpcTimeout

\* The inductive invariant.
TipInv == TypeOK /\ SeenInv /\ TaskInv /\ SnapshotInv

\* The facts about the constants that the other proofs use.
LEMMA TipFacts ==
  /\ StaleAfter \in Nat /\ StaleAfter > 0 /\ RpcTimeout \in Nat /\ QueryTime \in Nat
  /\ LongAgo \in Int /\ LongAgo < 0 - StaleAfter
  /\ Heights \subseteq Nat /\ NULL \notin Heights
  /\ Tips = Heights \cup {NULL}
BY TipConstants DEF LongAgo, Heights, Tips

\* The empty snapshot and the idle sources satisfy the invariant.
LEMMA TipInvInit == Init => TipInv
<1> SUFFICES ASSUME Init PROVE TipInv
  OBVIOUS
<1> USE TipFacts DEF Init, Snapshot, EmptySnapshot
<1>1. TypeOK
  <2>1. dbSeen \in [Tips -> Int]
    OBVIOUS
  <2>2. nodeSeen \in [Heights -> Int]
    OBVIOUS
  <2>3. snapshot \in [indexer_tip : Tips, node_tip : Tips, observed : Int]
    OBVIOUS
  <2> QED
    BY <2>1, <2>2, <2>3, Zenon DEF TypeOK
<1>2. SeenInv
  BY DEF SeenInv
<1>3. TaskInv
  BY DEF TaskInv
<1>4. SnapshotInv
  BY DEF SnapshotInv
<1> QED
  BY <1>1, <1>2, <1>3, <1>4 DEF TipInv

\* Every action of the sources, of the clock and of the refresh task keeps the
\* types.
LEMMA TypeStep == TypeOK /\ [Next]_vars => TypeOK'
<1> SUFFICES ASSUME TypeOK, [Next]_vars PROVE TypeOK'
  OBVIOUS
<1> USE TipFacts DEF TypeOK, sourceVars, seenVars, localVars
<1>1. CASE Tick
  BY <1>1 DEF Tick
<1>2. CASE CheckpointMoves
  BY <1>2 DEF CheckpointMoves
<1>3. CASE NodeMoves
  BY <1>3 DEF NodeMoves
<1>4. CASE Cancel
  BY <1>4 DEF Cancel
<1>5. CASE ReadIndexerTip
  BY <1>5, Zenon DEF ReadIndexerTip, CheckpointAnswers
<1>6. CASE ReadNodeTip
  <2>1. PICK ok \in BOOLEAN, tip \in NodeAnswers : Publish(ok, tip)
    BY <1>6, Zenon DEF ReadNodeTip
  <2>2. snapshot' \in [indexer_tip : Tips, node_tip : Tips, observed : Int]
    BY <2>1 DEF Publish, Snapshot, NodeAnswers
  <2> QED
    BY <1>6, <2>2, Zenon DEF ReadNodeTip, RefreshEnds
<1>7. CASE WakeUp
  BY <1>7 DEF WakeUp
<1>8. CASE StopRefresh
  BY <1>8 DEF StopRefresh
<1>9. CASE UNCHANGED vars
  BY <1>9 DEF vars
<1> QED
  BY <1>1, <1>2, <1>3, <1>4, <1>5, <1>6, <1>7, <1>8, <1>9 DEF Next, Refresh

\* The step at the heart of the argument: publishing. With both reads good the
\* stamp is the present moment, the node had its tip during its await and the
\* database the checkpoint during the query before it; with either read failed the old stamp stays
\* and the value that was read anew is younger than it.
LEMMA PublishStep ==
  ASSUME TipInv, NEW ok \in BOOLEAN, NEW tip \in NodeAnswers, Publish(ok, tip),
         pc = "read_node", now' = now, dbSeen' = dbSeen, nodeSeen' = nodeSeen
  PROVE  snapshot'.observed <= now /\ SnapshotInv'
<1> USE TipFacts DEF TipInv, TypeOK, SeenInv, TaskInv, SnapshotInv, Publish, Snapshot, NodeAnswers
<1>1. CASE indexerOk /\ ok
  BY <1>1
<1>2. CASE ~indexerOk /\ ok
  BY <1>2
<1>3. CASE indexerOk /\ ~ok
  BY <1>3
<1>4. CASE ~indexerOk /\ ~ok
  BY <1>4
<1> QED
  BY <1>1, <1>2, <1>3, <1>4

\* Every step keeps the invariant.
LEMMA TipInvStep == TipInv /\ [Next]_vars => TipInv'
<1> SUFFICES ASSUME TipInv, [Next]_vars PROVE TipInv'
  OBVIOUS
<1>0. TypeOK'
  BY TypeStep DEF TipInv
<1> USE TipFacts DEF TypeOK, sourceVars, seenVars, localVars
<1>1. CASE Tick
  <2>1. SeenInv'
    BY <1>1 DEF TipInv, Tick, SeenInv
  <2>2. \A v \in Tips : dbSeen'[v] >= dbSeen[v]
    BY <1>1 DEF TipInv, Tick, SeenInv
  <2>3. \A v \in Heights : nodeSeen'[v] >= nodeSeen[v]
    BY <1>1 DEF TipInv, Tick, SeenInv
  <2>4. TaskInv'
    BY <1>1, <2>2 DEF TipInv, Tick, TaskInv
  <2>5. SnapshotInv'
    BY <1>0, <1>1, <2>2, <2>3 DEF TipInv, Tick, SnapshotInv
  <2> QED
    BY <1>0, <2>1, <2>4, <2>5 DEF TipInv
<1>2. CASE CheckpointMoves
  <2>1. SeenInv'
    BY <1>2 DEF TipInv, CheckpointMoves, SeenInv
  <2>2. \A v \in Tips : dbSeen'[v] >= dbSeen[v]
    BY <1>2 DEF TipInv, CheckpointMoves, SeenInv
  <2>4. TaskInv'
    BY <1>2, <2>2 DEF TipInv, CheckpointMoves, TaskInv
  <2>5. SnapshotInv'
    BY <1>0, <1>2, <2>2 DEF TipInv, CheckpointMoves, SnapshotInv
  <2> QED
    BY <1>0, <2>1, <2>4, <2>5 DEF TipInv
<1>3. CASE NodeMoves
  <2>1. SeenInv'
    BY <1>3 DEF TipInv, NodeMoves, SeenInv
  <2>3. \A v \in Heights : nodeSeen'[v] >= nodeSeen[v]
    BY <1>3 DEF TipInv, NodeMoves, SeenInv
  <2>4. TaskInv'
    BY <1>3 DEF TipInv, NodeMoves, TaskInv
  <2>5. SnapshotInv'
    BY <1>0, <1>3, <2>3 DEF TipInv, NodeMoves, SnapshotInv
  <2> QED
    BY <1>0, <2>1, <2>4, <2>5 DEF TipInv
<1>4. CASE Cancel
  BY <1>0, <1>4 DEF TipInv, Cancel, SeenInv, TaskInv, SnapshotInv
<1>5. CASE ReadIndexerTip
  <2>1. SeenInv' /\ SnapshotInv'
    BY <1>5 DEF TipInv, ReadIndexerTip, SeenInv, SnapshotInv
  <2>2. TaskInv'
    BY <1>5 DEF TipInv, ReadIndexerTip, CheckpointAnswers, SeenInv, TaskInv
  <2> QED
    BY <1>0, <2>1, <2>2 DEF TipInv
<1>6. CASE ReadNodeTip
  <2>0. /\ pc = "read_node" /\ pc' = "sleep" /\ since' = now
        /\ UNCHANGED <<now, checkpoint, nodeTip, dbSeen, nodeSeen>>
    BY <1>6 DEF ReadNodeTip, RefreshEnds
  <2>1. PICK ok \in BOOLEAN, tip \in NodeAnswers : Publish(ok, tip)
    BY <1>6, Zenon DEF ReadNodeTip
  <2>2. snapshot'.observed <= now /\ SnapshotInv'
    BY <2>0, <2>1, PublishStep, Zenon
  <2>3. SeenInv'
    BY <2>0 DEF TipInv, SeenInv
  <2>4. TaskInv'
    BY <1>0, <2>0, <2>2 DEF TipInv, TaskInv
  <2> QED
    BY <1>0, <2>2, <2>3, <2>4 DEF TipInv
<1>7. CASE WakeUp
  BY <1>0, <1>7 DEF TipInv, WakeUp, SeenInv, TaskInv, SnapshotInv
<1>8. CASE StopRefresh
  BY <1>0, <1>8 DEF TipInv, StopRefresh, SeenInv, TaskInv, SnapshotInv
<1>9. CASE UNCHANGED vars
  BY <1>0, <1>9 DEF TipInv, vars, SeenInv, TaskInv, SnapshotInv
<1> QED
  BY <1>1, <1>2, <1>3, <1>4, <1>5, <1>6, <1>7, <1>8, <1>9 DEF Next, Refresh

\* The invariant bounds the age of what a fresh answer names.
LEMMA TipInvFresh == TipInv => FreshMeansRecent
<1> SUFFICES ASSUME TipInv PROVE FreshMeansRecent
  OBVIOUS
<1> USE TipFacts DEF TipInv, TypeOK
<1>1. ~IsStale => DbHadRecently(snapshot.indexer_tip) /\ NodeHadRecently(snapshot.node_tip)
  <2> SUFFICES ASSUME ~IsStale
               PROVE  DbHadRecently(snapshot.indexer_tip) /\ NodeHadRecently(snapshot.node_tip)
    OBVIOUS
  <2>1. snapshot.observed \in Int /\ snapshot.observed >= now - StaleAfter
    BY DEF IsStale, Elapsed
  <2>2. /\ dbSeen[snapshot.indexer_tip] >= snapshot.observed - RpcTimeout - QueryTime
        /\ snapshot.node_tip \in Heights
        /\ nodeSeen[snapshot.node_tip] >= snapshot.observed - RpcTimeout
    BY <2>1 DEF SnapshotInv
  <2>3. dbSeen[snapshot.indexer_tip] \in Int /\ nodeSeen[snapshot.node_tip] \in Int
    BY <2>2, Zenon
  <2> QED
    BY <2>1, <2>2, <2>3 DEF DbHadRecently, NodeHadRecently
<1>2. NodeHadRecently(snapshot.node_tip) => snapshot.node_tip # NULL
  BY DEF NodeHadRecently
<1> QED
  BY <1>1, <1>2, Zenon DEF FreshMeansRecent, TipHeaders, Stats, Status

\* tip.rs: whatever either source does, however long its answers travel and
\* however often it fails, an answer the API does not mark stale shows a node tip
\* no older than the threshold plus one RPC timeout, and an indexer tip older by no
\* more than the checkpoint's query.
THEOREM FreshAnswers == Spec => []FreshMeansRecent
<1>1. Spec => []TipInv
  BY TipInvInit, TipInvStep, PTL DEF Spec
<1> QED
  BY <1>1, TipInvFresh, PTL

-----------------------------------------------------------------------------
(* The readiness probe                                                     *)

\* Every probe starts with the request, and has seen its dependency.
LEMMA ProbeStart == Ready!Init => ProbeInv
<1>. SUFFICES ASSUME Ready!Init PROVE ProbeInv
  OBVIOUS
<1>1. /\ elapsed = 0 /\ verdict = NULL /\ ProbeTimeout \in Nat /\ attached \subseteq Ready!Deps
      /\ DOMAIN probe = Ready!Deps /\ DOMAIN health = Ready!Deps /\ DOMAIN seen = Ready!Deps
  BY ReadsConstants, Zenon DEF Ready!Init, Ready!Deps
<1>2. ASSUME NEW d \in Ready!Deps
      PROVE  /\ d \in attached => probe[d].result = NULL /\ probe[d].deadline = ProbeTimeout
             /\ d \notin attached => probe[d].result = "skipped"
             /\ seen[d] = {health[d]}
  <2>1. probe[d] = Ready!Started(d, 0) /\ seen[d] = {health[d]}
    BY DEF Ready!Init
  <2>. QED  BY <2>1, <1>1 DEF Ready!Started, Ready!Probe, Ready!Deadline
<1>. QED  BY <1>1, <1>2, ReadsConstants DEF ProbeInv

\* The result of a probe is set once, to what the dependency was just then or,
\* at the deadline, to an error.
LEMMA ProbeFinishes ==
  ASSUME ProbeInv, NEW d \in Ready!Deps, NEW result \in {"ok", "error"},
         Ready!Running(d), Ready!Finish(d, result),
         result = "ok" => health[d] = "up",
         result = "error" => health[d] = "down" \/ elapsed = probe[d].deadline
  PROVE  ProbeInv'
<1>1. probe[d].result = NULL /\ d \in attached
  BY ReadsConstants DEF Ready!Running, ProbeInv
<1>2. /\ UNCHANGED <<attached, health, elapsed, verdict, seen>>
      /\ probe' = [probe EXCEPT ![d].result = result]
  BY DEF Ready!Finish
<1>3. ASSUME NEW c \in Ready!Deps
      PROVE  /\ probe'[c].result \in IF c \in attached THEN {NULL, "ok", "error"} ELSE {"skipped"}
             /\ c \in attached => probe'[c].deadline = ProbeTimeout
             /\ probe'[c].result = "ok" => "up" \in seen[c]
             /\ probe'[c].result = "error" =>
                  elapsed = ProbeTimeout \/ \E h \in seen[c] : h # "up"
  <2>1. CASE c = d
    BY <1>1, <1>2, <2>1 DEF ProbeInv
  <2>2. CASE c # d
    <3>1. probe'[c] = probe[c]
      BY <1>2, <2>2
    <3>. QED  BY <3>1 DEF ProbeInv
  <2>. QED  BY <2>1, <2>2
<1>4. verdict = NULL
  BY <1>1 DEF ProbeInv
<1>. QED  BY <1>2, <1>3, <1>4 DEF ProbeInv

\* Every step of the probe keeps its invariant.
LEMMA ProbeStep == ProbeInv /\ [Ready!Next]_readyVars => ProbeInv'
<1>. SUFFICES ASSUME ProbeInv, [Ready!Next]_readyVars PROVE ProbeInv'
  OBVIOUS
<1>1. CASE UNCHANGED readyVars
  BY <1>1 DEF readyVars, ProbeInv
<1>2. CASE Ready!Flip
  <2>1. UNCHANGED <<attached, probe, elapsed, verdict>>
    BY <1>2 DEF Ready!Flip
  <2>2. PICK d \in Ready!Deps, h \in {"up", "down", "hung"} :
          /\ health' = [health EXCEPT ![d] = h]
          /\ seen' = [seen EXCEPT ![d] = @ \union {h}]
    BY <1>2, Zenon DEF Ready!Flip
  <2>3. \A c \in Ready!Deps : seen[c] \subseteq seen'[c] /\ health'[c] \in seen'[c]
    BY <2>2 DEF ProbeInv
  <2>4. DOMAIN health' = Ready!Deps /\ DOMAIN seen' = Ready!Deps
    BY <2>2 DEF ProbeInv
  <2>. QED  BY <2>1, <2>3, <2>4 DEF ProbeInv
<1>3. CASE Ready!Tick
  <2>1. /\ UNCHANGED <<attached, health, probe, verdict, seen>>
        /\ elapsed' = elapsed + 1 /\ verdict = NULL
    BY <1>3 DEF Ready!Tick
  <2>2. PICK d \in Ready!Deps : probe[d].result = NULL /\ elapsed < probe[d].deadline
    BY <1>3 DEF Ready!Tick, Ready!Running
  <2>3. elapsed < ProbeTimeout
    BY <2>2, ReadsConstants DEF ProbeInv
  <2>. QED  BY <2>1, <2>3, ReadsConstants DEF ProbeInv
<1>4. CASE Ready!Respond
  <2>1. /\ UNCHANGED <<attached, health, probe, elapsed, seen>>
        /\ \A d \in Ready!Deps : probe[d].result # NULL
    BY <1>4 DEF Ready!Respond, Ready!Running
  <2>. QED  BY <2>1 DEF ProbeInv
<1>5. ASSUME NEW d \in Ready!Deps, Ready!CallAnswered(d) PROVE ProbeInv'
  <2>1. CASE probe[d].calls > 1
    <3>1. /\ probe' = [probe EXCEPT ![d].calls = @ - 1]
          /\ UNCHANGED <<attached, health, elapsed, verdict, seen>>
      BY <1>5, <2>1 DEF Ready!CallAnswered
    <3>2. \A c \in Ready!Deps : /\ probe'[c].result = probe[c].result
                                /\ probe'[c].deadline = probe[c].deadline
      BY <3>1
    <3>. QED  BY <3>1, <3>2 DEF ProbeInv
  <2>2. CASE ~(probe[d].calls > 1)
    BY <1>5, <2>2, ProbeFinishes DEF Ready!CallAnswered
  <2>. QED  BY <2>1, <2>2
<1>6. ASSUME NEW d \in Ready!Deps, Ready!CallFails(d) PROVE ProbeInv'
  BY <1>6, ProbeFinishes DEF Ready!CallFails
<1>7. ASSUME NEW d \in Ready!Deps, Ready!TimesOut(d) PROVE ProbeInv'
  BY <1>7, ProbeFinishes DEF Ready!TimesOut, Ready!Deadlined
<1>. QED  BY <1>1, <1>2, <1>3, <1>4, <1>5, <1>6, <1>7 DEF Ready!Next

\* The verdict, when it is given, is about what was there; nothing it is about
\* changes afterwards.
LEMMA VerdictStep ==
  ASSUME ProbeInv, Ready!VerdictIsObserved, [Ready!Next]_readyVars
  PROVE  Ready!VerdictIsObserved'
<1>1. CASE Ready!Respond
  <2>1. /\ UNCHANGED <<attached, probe, elapsed, seen>>
        /\ \A d \in Ready!Deps : probe[d].result # NULL
        /\ verdict'.status = IF Ready!AnyError THEN 503 ELSE 200
    BY <1>1 DEF Ready!Respond, Ready!Running
  <2>2. \A d \in Ready!Deps : d \notin attached => probe[d].result = "skipped"
    BY DEF ProbeInv
  <2>3. CASE Ready!AnyError
    <3>1. PICK d \in Ready!Deps : probe[d].result = "error"
      BY <2>3 DEF Ready!AnyError
    <3>2. d \in attached /\ (elapsed = ProbeTimeout \/ \E h \in seen[d] : h # "up")
      BY <3>1, <2>2 DEF ProbeInv
    <3>3. verdict'.status = 503
      BY <2>1, <2>3
    <3>. QED  BY <2>1, <3>2, <3>3 DEF Ready!VerdictIsObserved
  <2>4. CASE ~Ready!AnyError
    <3>1. \A d \in Ready!Deps : d \in attached => probe[d].result = "ok"
      BY <2>1, <2>4 DEF ProbeInv, Ready!AnyError
    <3>2. attached \subseteq Ready!Deps
      BY DEF ProbeInv
    <3>. QED  BY <2>1, <2>4, <3>1, <3>2 DEF ProbeInv, Ready!VerdictIsObserved
  <2>. QED  BY <2>3, <2>4
<1>2. CASE verdict = NULL /\ ~Ready!Respond
  <2>1. verdict' = verdict
    BY <1>2 DEF Ready!Next, readyVars, Ready!Flip, Ready!Tick, Ready!CallAnswered,
                Ready!CallFails, Ready!TimesOut, Ready!Finish
  <2>. QED  BY <1>2, <2>1 DEF Ready!VerdictIsObserved
<1>3. CASE verdict # NULL
  <2>1. UNCHANGED <<attached, elapsed, seen, verdict>>
    BY <1>3 DEF ProbeInv, Ready!Next, readyVars, Ready!Flip, Ready!Tick, Ready!Respond,
                Ready!CallAnswered, Ready!CallFails, Ready!TimesOut, Ready!Finish
  <2>. QED  BY <2>1 DEF Ready!VerdictIsObserved
<1>. QED  BY <1>1, <1>2, <1>3

\* The readiness handler answers within one probe timeout, and its verdict is about
\* what was there while it probed (readiness in routes/health.rs).
THEOREM ProbesAreRight == ReadsSpec => []ProbeIsRight
<1>. DEFINE Inv == ProbeInv /\ Ready!VerdictIsObserved
<1>1. ReadsInit => Inv
  <2>1. Ready!Init => Ready!VerdictIsObserved
    BY DEF Ready!Init, Ready!VerdictIsObserved
  <2>. QED  BY <2>1, ProbeStart DEF ReadsInit
<1>2. Inv /\ [ReadsNext]_<<subject, vars, readyVars, proofVars>> => Inv'
  <2>. SUFFICES ASSUME Inv, [ReadsNext]_<<subject, vars, readyVars, proofVars>> PROVE Inv'
    OBVIOUS
  <2>1. [Ready!Next]_readyVars
    BY Zenon DEF ReadsNext
  <2>. QED  BY <2>1, ProbeStep, VerdictStep
<1>3. Inv => ProbeIsRight
  BY ReadsConstants DEF ProbeIsRight, ProbeInv, Ready!AnswersInOneTimeout
<1>. QED  BY <1>1, <1>2, <1>3, PTL DEF ReadsSpec

-----------------------------------------------------------------------------
(* The proof requests                                                      *)

\* No request is in flight.
LEMMA EnvelopeStart == Proofs!Init => EnvelopeInv
BY DEF Proofs!Init, EnvelopeInv, SlotOK

\* An answer that is an error, or the end of a request, is no matter.
LEMMA AnswerStep ==
  ASSUME EnvelopeInv, NEW r \in Slots, NEW reply, Proofs!Answer(r, reply),
         reply.status = 200 =>
           /\ reply.block_header = reply.block_hash
           /\ reply.tx_hash \in Txs[reply.block_hash]
           /\ \E branch \in window[r] : reply.block_hash \in Proofs!OnBranch(branch)
  PROVE  EnvelopeInv'
<1>1. /\ answer' = [answer EXCEPT ![r] = reply] /\ request' = [request EXCEPT ![r] = NULL]
      /\ UNCHANGED <<node, window>>
  BY DEF Proofs!Answer
<1>2. ASSUME NEW q \in Slots PROVE SlotOK(q)'
  <2>1. CASE q = r
    <3>1. answer'[q] = reply /\ request'[q] = NULL
      BY <1>1, <2>1 DEF EnvelopeInv
    <3>. QED  BY <1>1, <2>1, <3>1 DEF SlotOK
  <2>2. CASE q # r
    <3>1. answer'[q] = answer[q] /\ request'[q] = request[q] /\ SlotOK(q)
      BY <1>1, <2>2 DEF EnvelopeInv
    <3>. QED  BY <1>1, <3>1, Zenon DEF SlotOK
  <2>. QED  BY <2>1, <2>2
<1>3. DOMAIN request' = Slots /\ DOMAIN answer' = Slots /\ DOMAIN window' = Slots
  BY <1>1 DEF EnvelopeInv
<1>. QED  BY <1>2, <1>3 DEF EnvelopeInv

\* Every step of the node and of a request keeps every slot right.
LEMMA EnvelopeStep == EnvelopeInv /\ [Proofs!Next]_proofVars => EnvelopeInv'
<1>. SUFFICES ASSUME EnvelopeInv, [Proofs!Next]_proofVars PROVE EnvelopeInv'
  OBVIOUS
<1>1. CASE UNCHANGED proofVars
  BY <1>1, Zenon DEF proofVars, EnvelopeInv, SlotOK
<1>2. CASE Proofs!NodeMove
  <2>1. UNCHANGED <<request, answer>>
    BY <1>2 DEF Proofs!NodeMove
  <2>2. /\ DOMAIN window' = Slots
        /\ \A r \in Slots : window'[r] = IF request[r] = NULL THEN window[r]
                                         ELSE window[r] \union {node'}
    BY <1>2 DEF Proofs!NodeMove
  <2>3. ASSUME NEW r \in Slots PROVE SlotOK(r)'
    <3>1. window[r] \subseteq window'[r] /\ (request[r] # NULL => node' \in window'[r])
      BY <2>2
    <3>2. SlotOK(r)
      BY DEF EnvelopeInv
    <3>. QED  BY <2>1, <3>1, <3>2 DEF SlotOK
  <2>. QED  BY <2>1, <2>2, <2>3 DEF EnvelopeInv
<1>3. ASSUME NEW r \in Slots, NEW raw \in Tx \union {Malformed}, Proofs!Passthrough(r, raw)
      PROVE  EnvelopeInv'
  <2>. DEFINE refusal == Proofs!Refusal(raw)
  <2>1. /\ window' = [window EXCEPT ![r] = {node}] /\ node' = node
        /\ answer' = [answer EXCEPT ![r] = IF refusal # NULL THEN Proofs!Error(refusal) ELSE NULL]
        /\ request' = [request EXCEPT ![r] = IF refusal # NULL THEN NULL
                                             ELSE [tx |-> raw, block |-> NULL]]
    BY <1>3 DEF Proofs!Passthrough
  <2>2. refusal # NULL => refusal # 200
    BY DEF Proofs!Refusal
  <2>. HIDE DEF refusal
  <2>3. ASSUME NEW q \in Slots PROVE SlotOK(q)'
    <3>1. CASE q = r
      <4>1. window'[q] = {node}
        BY <2>1, <3>1 DEF EnvelopeInv
      <4>2. answer'[q] # NULL => answer'[q].status # 200
        BY <2>1, <2>2, <3>1 DEF EnvelopeInv, Proofs!Error
      <4>3. request'[q] # NULL => /\ DOMAIN request'[q] = {"tx", "block"}
                                  /\ request'[q].block = NULL
        BY <2>1, <3>1 DEF EnvelopeInv
      <4>. QED  BY <2>1, <4>1, <4>2, <4>3 DEF SlotOK
    <3>2. CASE q # r
      <4>1. answer'[q] = answer[q] /\ request'[q] = request[q] /\ window'[q] = window[q] /\ SlotOK(q)
        BY <2>1, <3>2 DEF EnvelopeInv
      <4>. QED  BY <2>1, <4>1, Zenon DEF SlotOK
    <3>. QED  BY <3>1, <3>2
  <2>4. DOMAIN request' = Slots /\ DOMAIN answer' = Slots /\ DOMAIN window' = Slots
    BY <2>1 DEF EnvelopeInv
  <2>. QED  BY <2>3, <2>4 DEF EnvelopeInv
<1>4. ASSUME NEW r \in Slots, Proofs!GetTransactionProof(r) PROVE EnvelopeInv'
  <2>. DEFINE found == Proofs!ProofBlocks(request[r].tx)
  <2>1. CASE found = {}
    <3>1. Proofs!Answer(r, Proofs!Error(404))
      BY <1>4, <2>1 DEF Proofs!GetTransactionProof
    <3>2. Proofs!Error(404).status # 200
      BY DEF Proofs!Error
    <3>. QED  BY <3>1, <3>2, AnswerStep
  <2>2. CASE found # {}
    <3>1. PICK b \in found : request' = [request EXCEPT ![r].block = b]
      BY <1>4, <2>2 DEF Proofs!GetTransactionProof
    <3>2. UNCHANGED <<node, answer, window>> /\ request[r] # NULL
      BY <1>4, <2>2 DEF Proofs!GetTransactionProof
    <3>3. b \in Proofs!OnBranch(node) /\ request[r].tx \in Txs[b]
      BY DEF Proofs!ProofBlocks
    <3>4. ASSUME NEW q \in Slots PROVE SlotOK(q)'
      <4>1. CASE q = r
        <5>1. request'[q] = [request[r] EXCEPT !.block = b] /\ node \in window[r]
          BY <3>1, <3>2, <4>1 DEF EnvelopeInv, SlotOK
        <5>2. DOMAIN request[r] = {"tx", "block"}
          BY <3>2 DEF EnvelopeInv, SlotOK
        <5>3. /\ request'[q].tx = request[r].tx /\ request'[q].block = b
              /\ DOMAIN request'[q] = {"tx", "block"}
          BY <5>1, <5>2
        <5>. QED  BY <3>2, <3>3, <4>1, <5>1, <5>3 DEF SlotOK, EnvelopeInv
      <4>2. CASE q # r
        <5>1. request'[q] = request[q] /\ SlotOK(q)
          BY <3>1, <4>2 DEF EnvelopeInv
        <5>. QED  BY <3>2, <5>1, Zenon DEF SlotOK
      <4>. QED  BY <4>1, <4>2
    <3>5. DOMAIN request' = Slots
      BY <3>1 DEF EnvelopeInv
    <3>. QED  BY <3>2, <3>4, <3>5 DEF EnvelopeInv
  <2>. QED  BY <2>1, <2>2
<1>5. ASSUME NEW r \in Slots, Proofs!GetHeader(r) PROVE EnvelopeInv'
  <2>1. PICK header \in Proofs!HeaderOf(request[r].block) :
          IF header = NULL THEN Proofs!Answer(r, Proofs!Error(503))
          ELSE Proofs!Answer(r, [status |-> 200, tx_hash |-> request[r].tx,
                                 block_hash |-> request[r].block, block_header |-> header])
    BY <1>5 DEF Proofs!GetHeader
  <2>2. CASE header = NULL
    <3>1. Proofs!Error(503).status # 200
      BY DEF Proofs!Error
    <3>. QED  BY <2>1, <2>2, <3>1, AnswerStep
  <2>3. CASE header # NULL
    <3>1. header = request[r].block
      BY <2>3 DEF Proofs!HeaderOf
    <3>2. SlotOK(r) /\ request[r] # NULL /\ request[r].block # NULL
      BY <1>5 DEF EnvelopeInv, Proofs!GetHeader
    <3>. QED  BY <2>1, <2>3, <3>1, <3>2, AnswerStep DEF SlotOK
  <2>. QED  BY <2>2, <2>3
<1>6. ASSUME NEW r \in Slots, Proofs!CallFails(r) PROVE EnvelopeInv'
  <2>1. PICK status \in {503, 500} : Proofs!Answer(r, Proofs!Error(status))
    BY <1>6 DEF Proofs!CallFails
  <2>2. Proofs!Error(status).status # 200
    BY <2>1 DEF Proofs!Error
  <2>. QED  BY <2>1, <2>2, AnswerStep
<1>. QED  BY <1>1, <1>2, <1>3, <1>4, <1>5, <1>6 DEF Proofs!Next

\* The envelope of a proof fits together whatever the node does between the two
\* calls, and is never older than its request (passthrough in routes/proofs.rs).
THEOREM ProofsAreRight == ReadsSpec => []ProofIsRight
<1>1. ReadsInit => EnvelopeInv
  BY EnvelopeStart DEF ReadsInit
<1>2. EnvelopeInv /\ [ReadsNext]_<<subject, vars, readyVars, proofVars>> => EnvelopeInv'
  <2>. SUFFICES ASSUME EnvelopeInv, [ReadsNext]_<<subject, vars, readyVars, proofVars>>
                PROVE  EnvelopeInv'
    OBVIOUS
  <2>1. [Proofs!Next]_proofVars
    BY Zenon DEF ReadsNext
  <2>. QED  BY <2>1, EnvelopeStep
<1>3. EnvelopeInv => ProofIsRight
  <2>1. EnvelopeInv => Proofs!EnvelopeIsConsistent
    BY DEF EnvelopeInv, SlotOK, Proofs!EnvelopeIsConsistent
  <2>2. EnvelopeInv => Proofs!ProofIsOfTheRequest
    BY DEF EnvelopeInv, SlotOK, Proofs!ProofIsOfTheRequest
  <2>. QED  BY <2>1, <2>2, Zenon DEF ProofIsRight
<1>. QED  BY <1>1, <1>2, <1>3, PTL DEF ReadsSpec

=============================================================================
