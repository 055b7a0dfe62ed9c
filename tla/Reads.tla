-------------------------------- MODULE Reads --------------------------------
(***************************************************************************)
(* What the API reads from its sources while it answers: the tip cache     *)
(* (TipTracker), the readiness probe (Readiness) and the proof requests    *)
(* (NodeProofs).  The three share no state, so a behaviour is one of one   *)
(* of them, with the others at rest.                                       *)
(***************************************************************************)
EXTENDS TipTracker

CONSTANTS ProbeTimeout, MaxFlips,                           \* Readiness
          Slots, HasCkb, Malformed, MaxMoves, MaxRequests,  \* NodeProofs
          Block, Tx, Number, ParentHash, Txs, Chains,       \* the node's branches
          ChainHeight

ASSUME ReadsConstants ==
  /\ ProbeTimeout \in Nat
  /\ NULL \notin {"ok", "error", "skipped"}

VARIABLES subject,                                          \* who is running
          attached, health, flips, synced, probe, elapsed,  \* Readiness
          verdict, seen,
          node, moves, request, answer, window, made        \* NodeProofs

readyVars == <<attached, health, flips, synced, probe, elapsed, verdict, seen>>
proofVars == <<node, moves, request, answer, window, made>>

Ready == INSTANCE Readiness WITH answer <- verdict

\* A proof is about transactions and blocks; their cells do not matter.
Proofs == INSTANCE NodeProofs
            WITH OutPoint <- {}, Outputs <- [t \in Tx |-> {}],
                 Inputs <- [t \in Tx |-> {}], MaxHeight <- ChainHeight

ReadsInit == /\ subject \in {"tip", "ready", "proofs"}
             /\ Init /\ Ready!Init /\ Proofs!Init
             /\ subject # "tip" => checkpoint = NULL /\ nodeTip = 0
             /\ subject # "ready" => attached = {"db"} /\ synced
                                     /\ health = [d \in Ready!Deps |-> "up"]
             /\ subject # "proofs" => node = CHOOSE branch \in Chains : TRUE

ReadsNext ==
  /\ \/ /\ subject = "tip" /\ Next
        /\ UNCHANGED <<readyVars, proofVars>>
     \/ /\ subject = "ready" /\ Ready!Next
        /\ UNCHANGED <<vars, proofVars>>
     \/ /\ subject = "proofs" /\ Proofs!Next
        /\ UNCHANGED <<vars, readyVars>>
  /\ UNCHANGED subject

\* Each with its own fairness.
ReadsSpec ==
  /\ ReadsInit /\ [][ReadsNext]_<<subject, vars, readyVars, proofVars>>
  /\ WF_vars(subject = "tip" /\ Refresh) /\ SF_vars(subject = "tip" /\ StopRefresh)
  /\ WF_readyVars(subject = "ready" /\ Ready!Progress)

-----------------------------------------------------------------------------

\* /v1/health/ready answers within one probe timeout, whichever of its checks
\* hang, and its verdict is about what was there: 200 says that every attached
\* dependency was up at some moment of the probe, 503 that one was not or that
\* the timeout was used up (readiness in routes/health.rs).
ProbeIsRight == Ready!AnswersInOneTimeout /\ Ready!VerdictIsObserved

\* However the node's chain moves between the calls, the header of a proof's
\* envelope is that of the block the proof is in, and that block was on a branch
\* the node served while the request was in flight (routes/proofs.rs).
ProofIsRight == Proofs!EnvelopeIsConsistent /\ Proofs!ProofIsOfTheRequest

\* The refresh task stops once cancelled (run_refresh_task), and every probe is
\* answered.
ReadsEnd == RefreshStops /\ (subject = "ready" => Ready!ProbeEnds)

-----------------------------------------------------------------------------
(* Inductive invariants.                                                   *)

\* A dependency that is not attached is skipped; an attached one is probed until
\* the deadline at most, and its result is about a moment of the probe.
ProbeInv ==
  /\ DOMAIN probe = Ready!Deps /\ DOMAIN health = Ready!Deps /\ DOMAIN seen = Ready!Deps
  /\ attached \subseteq Ready!Deps
  /\ elapsed \in 0 .. ProbeTimeout
  /\ \A d \in Ready!Deps :
       /\ probe[d].result \in IF d \in attached THEN {NULL, "ok", "error"} ELSE {"skipped"}
       /\ d \in attached => probe[d].deadline = ProbeTimeout
       /\ health[d] \in seen[d]
       /\ probe[d].result = "ok" => "up" \in seen[d]
       /\ probe[d].result = "error" =>
            elapsed = ProbeTimeout \/ \E h \in seen[d] : h # "up"
  /\ verdict # NULL => \A d \in Ready!Deps : probe[d].result # NULL

\* While a request is in flight the present branch is in its window, and the
\* block it already has holds the transaction and was on a branch of the window;
\* an envelope that was answered is as ProofIsRight says.
SlotOK(r) ==
  /\ request[r] # NULL =>
       /\ DOMAIN request[r] = {"tx", "block"} /\ node \in window[r]
       /\ request[r].block # NULL =>
            /\ request[r].tx \in Txs[request[r].block]
            /\ \E branch \in window[r] : request[r].block \in Proofs!OnBranch(branch)
  /\ answer[r] # NULL /\ answer[r].status = 200 =>
       /\ answer[r].block_header = answer[r].block_hash
       /\ answer[r].tx_hash \in Txs[answer[r].block_hash]
       /\ \E branch \in window[r] : answer[r].block_hash \in Proofs!OnBranch(branch)

EnvelopeInv ==
  /\ DOMAIN request = Slots /\ DOMAIN answer = Slots /\ DOMAIN window = Slots
  /\ \A r \in Slots : SlotOK(r)
=============================================================================
