----------------------------- MODULE NodeProofs ------------------------------
(***************************************************************************)
(* GET /v1/proofs/:tx_hash (api/src/routes/proofs.rs): two calls to a node *)
(* that may switch branches between them, get_transaction_proof and then   *)
(* get_header for the block the proof names.  Nothing is read from the     *)
(* index, and nothing is kept between requests.                            *)
(***************************************************************************)
EXTENDS CkbChain

CONSTANTS Slots,       \* requests in flight at once
          HasCkb,      \* was a CKB client attached to the state
          Malformed,   \* a path segment that is not a 0x-prefixed 32-byte hash
          MaxMoves,    \* bound: how often the node changes its branch
          MaxRequests  \* bound: how many requests are made

VARIABLES node,      \* the branch the node serves
          moves,     \* how often it changed
          request,   \* per slot: the request in flight, or NULL
          answer,    \* per slot: the last answer
          window,    \* history: the branches served during a slot's request
          made       \* requests made

vars == <<node, moves, request, answer, window, made>>

Init == /\ node \in Chains /\ moves = 0
        /\ request = [r \in Slots |-> NULL]
        /\ answer = [r \in Slots |-> NULL]
        /\ window = [r \in Slots |-> {}]
        /\ made = 0

OnBranch(branch) == {branch[h] : h \in DOMAIN branch}

NodeMove == /\ moves < MaxMoves
            /\ node' \in Chains \ {node}
            /\ moves' = moves + 1
            /\ window' = [r \in Slots |-> IF request[r] = NULL THEN window[r]
                                          ELSE window[r] \union {node'}]
            /\ UNCHANGED <<request, answer, made>>

-----------------------------------------------------------------------------

Error(status) == [status |-> status]

Answer(r, reply) == /\ answer' = [answer EXCEPT ![r] = reply]
                    /\ request' = [request EXCEPT ![r] = NULL]
                    /\ UNCHANGED <<node, moves, window, made>>

\* parse_tx_hash, then the check for a client
Refusal(raw) == CASE raw = Malformed -> 400 [] ~HasCkb -> 503 [] OTHER -> NULL

\* The request is refused, or a call to the node follows.
Passthrough(r, raw) ==
  /\ request[r] = NULL /\ made < MaxRequests
  /\ made' = made + 1
  /\ window' = [window EXCEPT ![r] = {node}]
  /\ answer' = [answer EXCEPT ![r] =
                  IF Refusal(raw) # NULL THEN Error(Refusal(raw)) ELSE NULL]
  /\ request' = [request EXCEPT ![r] =
                   IF Refusal(raw) # NULL THEN NULL
                   ELSE [tx |-> raw, block |-> NULL]]
  /\ UNCHANGED <<node, moves>>

\* What get_transaction_proof finds: the node proves a transaction in the
\* block of its branch that holds it, and has no proof for any other.
ProofBlocks(tx) == {b \in OnBranch(node) : tx \in Txs[b]}

\* get_transaction_proof answers; a null is a 404
GetTransactionProof(r) ==
  /\ request[r] # NULL /\ request[r].block = NULL
  /\ LET found == ProofBlocks(request[r].tx) IN
     IF found = {} THEN Answer(r, Error(404))
     ELSE /\ \E b \in found : request' = [request EXCEPT ![r].block = b]
          /\ UNCHANGED <<node, moves, answer, window, made>>

\* mutant: the header asked for by the height of the proof's block
HeaderOf_ByNumber(b) ==
  IF Number[b] \in DOMAIN node THEN {node[Number[b]]} ELSE {NULL}

\* What get_header returns for a hash: the node heads a block of its branch,
\* and may or may not still know one that it left.
HeaderOf(b) == IF b \in OnBranch(node) THEN {b} ELSE {b, NULL}

\* get_header, by the hash the proof names; a null is a 503
GetHeader(r) ==
  /\ request[r] # NULL /\ request[r].block # NULL
  /\ \E header \in HeaderOf(request[r].block) :
       IF header = NULL THEN Answer(r, Error(503))
       ELSE Answer(r, [status |-> 200, tx_hash |-> request[r].tx,
                       block_hash |-> request[r].block,
                       block_header |-> header])

\* either call fails: 503; or its body names no usable block: 500
CallFails(r) == /\ request[r] # NULL
                /\ \E status \in {503, 500} : Answer(r, Error(status))

Next == \/ NodeMove
        \/ \E r \in Slots :
             \/ \E raw \in Tx \union {Malformed} : Passthrough(r, raw)
             \/ GetTransactionProof(r) \/ GetHeader(r) \/ CallFails(r)

Spec == Init /\ [][Next]_vars

-----------------------------------------------------------------------------

\* Type invariant: a request in flight is for a well-formed hash and a node
\* that is configured, and an answer is an error or a complete envelope.
TypeOK ==
  /\ node \in Chains
  /\ \A r \in Slots : request[r] # NULL
       => HasCkb /\ request[r] \in [tx : Tx, block : Block \union {NULL}]
  /\ \A r \in Slots : answer[r] # NULL
       => \/ answer[r] \in [status : {400, 404, 500, 503}]
          \/ answer[r] \in [status : {200}, tx_hash : Tx, block_hash : Block,
                            block_header : Block]

\* Whatever the node does between the two calls, the envelope fits together:
\* the header is the one of the block the proof names, and that block holds
\* the transaction (proofs.rs passthrough).
EnvelopeIsConsistent ==
  \A r \in Slots : answer[r] # NULL /\ answer[r].status = 200
    => /\ answer[r].block_header = answer[r].block_hash
       /\ answer[r].tx_hash \in Txs[answer[r].block_hash]

\* A proof is never older than its request: the block was on a branch the
\* node served while the request was in flight.
ProofIsOfTheRequest ==
  \A r \in Slots : answer[r] # NULL /\ answer[r].status = 200
    => \E branch \in window[r] : answer[r].block_hash \in OnBranch(branch)

=============================================================================
