------------------------------ MODULE CellPages ------------------------------
(***************************************************************************)
(* Readers of the index: a client walks the pages of GET /v1/cells         *)
(* (crates/api/src/routes/cells.rs) and of the GraphQL query cells         *)
(* (crates/api/src/graphql.rs), which share the queries of                 *)
(* crates/db/src/cells.rs and the cursor of crates/api/src/pagination.rs,  *)
(* while the ledger that the indexer implements (ChainLedger) grows and is *)
(* rolled back underneath.  Also the two block endpoints.                  *)
(*                                                                         *)
(* A page is one SELECT, so it sees one state of the tables.  Rank orders  *)
(* the out points as (tx_hash, output_index) does.  Scripts, capacity,     *)
(* data and the tip metadata of a page are left out.                       *)
(***************************************************************************)
EXTENDS Tables, Sequences, FiniteSets

CONSTANTS LockHash, TypeHash,     \* of an out point; TypeHash may be NULL
          Rank,                   \* out point -> position of (tx_hash, output_index)
          DefaultPageSize, MaxPageSize,
          StartBlock,
          Malformed,              \* a hash or a cursor that does not parse
          MaxI64,                 \* 2^63 - 1, above every height
          MaxMoves                \* bound on the steps of the ledger

ASSUME PageConstants ==
  /\ DefaultPageSize \in Nat /\ MaxPageSize \in Nat
  /\ MaxI64 \in Nat /\ MaxHeight < MaxI64 /\ StartBlock \in Height
  /\ Rank \in [OutPoint -> Nat] /\ \A o, p \in OutPoint : Rank[o] = Rank[p] => o = p
  /\ \A b \in Block : IsFiniteSet(BlockOutputs(b))

VARIABLES blocks, cells, moves, walk

vars == <<blocks, cells, moves, walk>>

Hashes == {LockHash[o] : o \in OutPoint} \cup ({TypeHash[o] : o \in OutPoint} \ {NULL})

-----------------------------------------------------------------------------
(* crates/db/src/cells.rs.                                                 *)

\* A row of the cells table joined with its block, as the queries select it.
Row(o) == [out_point |-> o, block_number |-> cells[o].block_number,
           block_hash |-> blocks[cells[o].block_number],
           consumed_by |-> cells[o].consumed_by, consumed_at |-> cells[o].consumed_at]

KeyOf(row) == <<row.block_number, Rank[row.out_point]>>
Before(k, m) == k[1] < m[1] \/ (k[1] = m[1] /\ k[2] < m[2])

\* $3 IS NULL OR (block_number, tx_hash, output_index) < ($3, $4, $5).
After(row, cursor) == cursor = NULL \/ Before(KeyOf(row), cursor)

\* $2 IS NULL OR (consumed_by_tx_hash IS NULL) = $2.
LivenessHolds(row, is_live) == is_live = NULL \/ (row.consumed_by = NULL) = is_live

FirstOf(n, s) == SubSeq(s, 1, IF n < Len(s) THEN n ELSE Len(s))

Ahead(row, rows) == {q \in rows : Before(KeyOf(row), KeyOf(q))}

\* ORDER BY block_number DESC, tx_hash DESC, output_index DESC: the i-th row has
\* i - 1 rows ahead of it.
InOrder(rows) ==
  [i \in 1 .. Cardinality(rows) |-> CHOOSE r \in rows : Cardinality(Ahead(r, rows)) = i - 1]

\* INNER JOIN blocks, WHERE.
Matching(outPoints, is_live, cursor) ==
  LET joined == {Row(o) : o \in {p \in outPoints : cells[p].block_number \in DOMAIN blocks}}
  IN {r \in joined : LivenessHolds(r, is_live) /\ After(r, cursor)}

\* The whole statement, with its LIMIT.
Select(outPoints, is_live, cursor, limit) ==
  FirstOf(limit, InOrder(Matching(outPoints, is_live, cursor)))

QueryByLockHash(hash, is_live, cursor, limit) ==
  Select({o \in DOMAIN cells : LockHash[o] = hash}, is_live, cursor, limit)

QueryByTypeHash(hash, is_live, cursor, limit) ==
  Select({o \in DOMAIN cells : TypeHash[o] # NULL /\ TypeHash[o] = hash}, is_live, cursor, limit)

-----------------------------------------------------------------------------
(* crates/api/src/pagination.rs: the position of a row as the JSON wire    *)
(* form, with the transaction hash in 0x notation, and back.  The rank     *)
(* stands for the pair (tx_hash, output_index), in the wire form for tx    *)
(* and oi; the base64 around the JSON is left out.                         *)

EncodeCellsCursor(key) == [bn |-> key[1], tx |-> <<"0x", key[2]>>]

WireCursor == [bn : Nat, tx : {"0x"} \X Nat]

ASSUME NullIsNoCursor == NULL \notin WireCursor /\ NULL \notin Nat \X Nat

WellFormedCursor(wire) == wire # Malformed /\ wire.tx[1] = "0x"
DecodeCellsCursor(wire) == <<wire.bn, wire.tx[2]>>

Error(status) == [status |-> status, data |-> <<>>, next |-> NULL]

-----------------------------------------------------------------------------
(* crates/api/src/routes/cells.rs.  A request is a record of its query     *)
(* parameters, NULL where one is absent.                                   *)

ParseFilter(p) ==
  CASE p.lock # NULL /\ p.type # NULL -> NULL
    [] p.lock = NULL /\ p.type = NULL -> NULL
    [] p.lock # NULL /\ p.type = NULL -> IF p.lock \in Hashes THEN <<"lock", p.lock>> ELSE NULL
    [] p.lock = NULL /\ p.type # NULL -> IF p.type \in Hashes THEN <<"type", p.type>> ELSE NULL

ParseLimit(raw) ==
  IF raw = NULL THEN DefaultPageSize
  ELSE IF raw = 0 \/ raw > MaxPageSize THEN NULL ELSE raw

\* consumed_by stands for the transaction hash and the input index, which one
\* statement writes.  The failures of a row with a hash of another width or an
\* unknown hash type are left out: the indexer writes no such row.
RenderCell(row) ==
  [out_point |-> row.out_point, block_number |-> row.block_number, block_hash |-> row.block_hash,
   is_live |-> ~(row.consumed_by # NULL /\ row.consumed_at # NULL)]

\* The cursor names the first row that did not fit.
BuildPage_CursorOfNext(rows, limit) ==
  LET page == FirstOf(limit, rows) IN
  [status |-> 200,
   data |-> [i \in 1 .. Len(page) |-> RenderCell(page[i])],
   next |-> IF Len(rows) > limit THEN EncodeCellsCursor(KeyOf(rows[limit + 1])) ELSE NULL]

\* One row more than the page was fetched; it tells whether there is a next.
BuildPage(rows, limit) ==
  LET page == FirstOf(limit, rows) IN
  [status |-> 200,
   data |-> [i \in 1 .. Len(page) |-> RenderCell(page[i])],
   next |-> IF Len(rows) > limit /\ page # <<>>
            THEN EncodeCellsCursor(KeyOf(page[Len(page)])) ELSE NULL]

\* GET /v1/cells.
List(p) ==
  LET filter == ParseFilter(p)
      limit == ParseLimit(p.limit)
      cursor == IF p.cursor = NULL THEN NULL ELSE DecodeCellsCursor(p.cursor)
  IN IF \/ filter = NULL \/ limit = NULL
        \/ p.cursor # NULL /\ ~WellFormedCursor(p.cursor)
     THEN Error(400)
     ELSE BuildPage(IF filter[1] = "lock"
                    THEN QueryByLockHash(filter[2], p.is_live, cursor, limit + 1)
                    ELSE QueryByTypeHash(filter[2], p.is_live, cursor, limit + 1), limit)

-----------------------------------------------------------------------------
(* crates/api/src/graphql.rs has its own copy of each step.                *)

GraphqlParseFilter(p) ==
  CASE p.lock # NULL /\ p.type = NULL /\ p.lock \in Hashes -> <<"lock", p.lock>>
    [] p.lock = NULL /\ p.type # NULL /\ p.type \in Hashes -> <<"type", p.type>>
    [] OTHER -> NULL

GraphqlParseLimit(raw) ==
  IF raw = NULL THEN DefaultPageSize
  ELSE IF raw < 1 \/ raw > MaxPageSize THEN NULL ELSE raw

GraphqlRenderCell(row) ==
  [out_point |-> row.out_point, block_number |-> row.block_number, block_hash |-> row.block_hash,
   is_live |-> row.consumed_by = NULL \/ row.consumed_at = NULL]

\* Any full page is taken to have a next one.
GraphqlBuildPage_FullPage(rows, limit) ==
  LET page == FirstOf(limit, rows) IN
  [status |-> 200,
   data |-> [i \in 1 .. Len(page) |-> GraphqlRenderCell(page[i])],
   next |-> IF Len(page) = limit /\ page # <<>>
            THEN EncodeCellsCursor(KeyOf(page[Len(page)])) ELSE NULL]

GraphqlBuildPage(rows, limit) ==
  LET page == FirstOf(limit, rows) IN
  [status |-> 200,
   data |-> [i \in 1 .. Len(page) |-> GraphqlRenderCell(page[i])],
   next |-> IF Len(rows) > limit /\ page # <<>>
            THEN EncodeCellsCursor(KeyOf(page[Len(page)])) ELSE NULL]

\* The resolver cells; an error of the resolver stands for REST's 400.
GraphqlCells(p) ==
  LET filter == GraphqlParseFilter(p)
      limit == GraphqlParseLimit(p.limit)
      cursor == IF p.cursor = NULL THEN NULL ELSE DecodeCellsCursor(p.cursor)
  IN IF filter = NULL \/ limit = NULL \/ (p.cursor # NULL /\ ~WellFormedCursor(p.cursor))
     THEN Error(400)
     ELSE CASE filter[1] = "lock" ->
                 GraphqlBuildPage(QueryByLockHash(filter[2], p.is_live, cursor, limit + 1), limit)
            [] filter[1] = "type" ->
                 GraphqlBuildPage(QueryByTypeHash(filter[2], p.is_live, cursor, limit + 1), limit)

-----------------------------------------------------------------------------
(* crates/api/src/routes/blocks.rs and its GraphQL counterparts: the hash  *)
(* of a block, NULL where REST says 404 and GraphQL null.                  *)

GetByNumber(n) == IF n \in DOMAIN blocks THEN blocks[n] ELSE NULL
LatestBlock == IF DOMAIN blocks = {} THEN NULL
               ELSE blocks[CHOOSE n \in DOMAIN blocks : \A k \in DOMAIN blocks : k <= n]

\* The segment is parsed as u64 and must fit i64.
ParseBlockNumber(n) == IF n < 0 \/ n > MaxI64 THEN NULL ELSE n
BlockByNumber(n) == IF ParseBlockNumber(n) = NULL THEN 400 ELSE GetByNumber(n)

\* number is an i64 by the schema.
GraphqlBlock(n) == IF n < 0 THEN 400 ELSE GetByNumber(n)

-----------------------------------------------------------------------------
(* The ledger's steps, each one transaction of the indexer, and the walk.  *)

ScriptHash(kind, o) == IF kind = "lock" THEN LockHash[o] ELSE TypeHash[o]

\* The rows of the cells table that a walk asks for.
Wanted(f, is_live, cs) ==
  LET match == {o \in DOMAIN cs : /\ ScriptHash(f[1], o) = f[2]
                                  /\ is_live = NULL \/ (cs[o].consumed_by = NULL) = is_live}
  IN {<<o, cs[o].block_number>> : o \in match}

NoWalk == [at |-> "none", filter |-> NULL, is_live |-> NULL, next |-> NULL, got |-> <<>>,
           steady |-> {}]

Init ==
  /\ blocks = NoRows /\ cells = NoRows /\ moves = 0
  /\ walk = NoWalk

\* steady: the rows that the walk has asked for ever since it began.
StillWanted ==
  IF walk.at = "none" THEN walk
  ELSE [walk EXCEPT !.steady = @ \cap Wanted(walk.filter, walk.is_live, cells')]

IndexBlock(b) ==
  LET n == Number[b] IN
  /\ moves < MaxMoves /\ moves' = moves + 1
  /\ n >= StartBlock /\ DOMAIN blocks = StartBlock .. n - 1
  /\ n > StartBlock => ParentHash[b] = blocks[n - 1]
  /\ blocks' = InsertBlock(blocks, n, b)
  /\ cells' = MarkConsumed(InsertCells(cells, n, b), n, b)
  /\ walk' = StillWanted

RollbackAbove(h) ==
  /\ moves < MaxMoves /\ moves' = moves + 1
  /\ h \in DOMAIN blocks /\ h + 1 \in DOMAIN blocks
  /\ blocks' = DeleteAbove(blocks, h)
  /\ cells' = CascadeCells(RestoreConsumedAbove(cells, h), h)
  /\ walk' = StillWanted

BeginWalk(f, is_live) ==
  /\ walk.at \in {"none", "done"}
  /\ walk' = [NoWalk EXCEPT !.at = "paging", !.filter = f, !.is_live = is_live,
                            !.steady = Wanted(f, is_live, cells)]
  /\ UNCHANGED <<blocks, cells, moves>>

Params(limit) == [lock |-> IF walk.filter[1] = "lock" THEN walk.filter[2] ELSE NULL,
                  type |-> IF walk.filter[1] = "type" THEN walk.filter[2] ELSE NULL,
                  is_live |-> walk.is_live, limit |-> limit, cursor |-> walk.next]

\* The client asks for the next page; a refused request is made again.
FetchPage(answer) ==
  /\ answer.status = 200
  /\ walk' = [walk EXCEPT !.got = @ \o answer.data, !.next = answer.next,
                          !.at = IF answer.next = NULL THEN "done" ELSE "paging"]
  /\ UNCHANGED <<blocks, cells, moves>>

FetchRest(limit) == walk.at = "paging" /\ FetchPage(List(Params(limit)))
FetchGraphql(limit) == walk.at = "paging" /\ FetchPage(GraphqlCells(Params(limit)))

Filters == {<<"lock", LockHash[o]>> : o \in OutPoint}
           \cup {<<"type", TypeHash[o]>> : o \in {p \in OutPoint : TypeHash[p] # NULL}}
Limits == {NULL} \cup 0 .. MaxPageSize + 1

Next ==
  \/ \E b \in Block : IndexBlock(b)
  \/ \E h \in Height : RollbackAbove(h)
  \/ \E f \in Filters, is_live \in {TRUE, FALSE, NULL} : BeginWalk(f, is_live)
  \/ \E limit \in Limits : FetchRest(limit) \/ FetchGraphql(limit)

Spec == Init /\ [][Next]_vars

-----------------------------------------------------------------------------
(* Properties.                                                             *)

CellAnswer == [out_point : OutPoint, block_number : Height, block_hash : Block,
               is_live : BOOLEAN]

WalkRecord == [at : {"none", "paging", "done"}, filter : Filters \cup {NULL},
               is_live : {TRUE, FALSE, NULL}, next : WireCursor \cup {NULL},
               got : Seq(CellAnswer), steady : SUBSET (OutPoint \X Height)]

TablesTypeOK ==
  /\ \E tip \in StartBlock - 1 .. MaxHeight : blocks \in [StartBlock .. tip -> Block]
  /\ cells \in [DOMAIN cells -> CellRow] /\ DOMAIN cells \subseteq OutPoint
  /\ IsFiniteSet(DOMAIN cells)

PagesTypeOK == TablesTypeOK /\ walk \in WalkRecord

\* Type invariant: the stored heights form an interval, and a client only ever
\* holds a cursor that the API wrote.
TypeOK == PagesTypeOK /\ moves \in 0 .. MaxMoves

Got == {<<walk.got[i].out_point, walk.got[i].block_number>> : i \in 1 .. Len(walk.got)}
Passed(row) == walk.at = "done" \/ (walk.next # NULL /\ ~Before(<<row[2], Rank[row[1]]>>,
                                                              DecodeCellsCursor(walk.next)))

\* A walk goes down the order strictly, so it returns no row twice; and it
\* returns every row that matched the whole time, however much the indexer
\* added, spent or rolled back between two pages and whichever surface and
\* limit served each page.  The block hash on a returned cell is that of a block
\* that creates the cell: the join never pairs it with another branch's block.
PagesExact ==
  /\ \A i, j \in 1 .. Len(walk.got) : i < j => Before(KeyOf(walk.got[j]), KeyOf(walk.got[i]))
  /\ \A row \in walk.steady : Passed(row) => row \in Got
  /\ \A i \in 1 .. Len(walk.got) :
       walk.got[i].out_point \in BlockOutputs(walk.got[i].block_hash)

\* "Mirrors the REST /v1/cells endpoint exactly": for any parameters, valid or
\* not, the two copies of the handler give the same page, cursor or refusal.
\* So do the block endpoints, and latest is the last block found by number.
SurfacesAgree ==
  /\ \A lock, type \in Hashes \cup {NULL, Malformed}, is_live \in {TRUE, FALSE, NULL},
        limit \in Limits, cursor \in {NULL, Malformed, walk.next} :
       LET p == [lock |-> lock, type |-> type, is_live |-> is_live, limit |-> limit,
                 cursor |-> cursor]
       IN List(p) = GraphqlCells(p)
  /\ \A n \in -1 .. MaxHeight + 1 : BlockByNumber(n) = GraphqlBlock(n)
  /\ LatestBlock # NULL => LET tip == Number[LatestBlock] IN
       BlockByNumber(tip) = LatestBlock /\ BlockByNumber(tip + 1) = NULL

-----------------------------------------------------------------------------
(* Inductive invariants.                                                   *)

Spent(o) == \E k \in DOMAIN blocks : o \in BlockInputs(blocks[k])

\* The cells table is a replay of a linked chain: a row for each output, joined
\* to the block that creates it and marked with the block that spends it.
TablesInv ==
  /\ Linked(blocks)
  /\ DOMAIN cells = UNION {BlockOutputs(blocks[k]) : k \in DOMAIN blocks}
  /\ \A o \in DOMAIN cells :
       /\ cells[o].block_number \in DOMAIN blocks
       /\ o \in BlockOutputs(blocks[cells[o].block_number])
       /\ cells[o].consumed_by = NULL <=> cells[o].consumed_at = NULL
       /\ cells[o].consumed_at = NULL => ~Spent(o)
       /\ cells[o].consumed_at # NULL =>
            /\ cells[o].consumed_at \in DOMAIN blocks
            /\ o \in BlockInputs(blocks[cells[o].consumed_at])

\* The cursor is the last row the walk got, and without one a walk that is not
\* done has got nothing; what is steady is still in the table.
CursorInv ==
  /\ walk.at = "none" => walk.next = NULL /\ walk.steady = {}
  /\ walk.at # "none" =>
       walk.filter \in Filters /\ walk.steady \subseteq Wanted(walk.filter, walk.is_live, cells)
  /\ walk.at # "done" /\ walk.next = NULL => walk.got = <<>>
  /\ walk.next # NULL =>
       walk.got # <<>> /\ DecodeCellsCursor(walk.next) = KeyOf(walk.got[Len(walk.got)])

PagesInv == PagesTypeOK /\ TablesInv /\ CursorInv /\ PagesExact
=============================================================================
