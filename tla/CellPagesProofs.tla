-------------------------- MODULE CellPagesProofs ---------------------------
(***************************************************************************)
(* What a client may rely on when it pages through the cells, for every    *)
(* chain, filter, limit and interleaving with the indexer: the walk misses *)
(* and repeats nothing, the two surfaces give the same answers, and the    *)
(* tables they read replay the chain.                                      *)
(***************************************************************************)
EXTENDS CellPages, FiniteSetTheorems, TLAPS

-----------------------------------------------------------------------------
(* The order of the rows.                                                 *)

\* The key of the rows is a strict total order.
LEMMA KeysOrdered ==
  ASSUME NEW a \in Nat \X Nat, NEW b \in Nat \X Nat, NEW c \in Nat \X Nat
  PROVE  /\ ~Before(a, a)
         /\ Before(a, b) /\ Before(b, c) => Before(a, c)
         /\ a # b => Before(a, b) \/ Before(b, a)
         /\ ~(Before(a, b) /\ Before(b, a))
<1>1. a = <<a[1], a[2]>> /\ b = <<b[1], b[2]>>
  OBVIOUS
<1>. QED  BY <1>1 DEF Before

\* Rows with keys of their own.
Keyed(rows) ==
  /\ IsFiniteSet(rows)
  /\ \A r \in rows : KeyOf(r) \in Nat \X Nat
  /\ \A r, q \in rows : KeyOf(r) = KeyOf(q) => r = q

\* The rows ahead of a row are fewer than all, and fewer than those ahead of a
\* row behind it.
LEMMA AheadCounts ==
  ASSUME NEW rows, Keyed(rows), NEW r \in rows
  PROVE  /\ Cardinality(rows) \in Nat
         /\ Cardinality(Ahead(r, rows)) \in 0 .. Cardinality(rows) - 1
         /\ \A q \in rows : Before(KeyOf(r), KeyOf(q)) =>
              Cardinality(Ahead(q, rows)) < Cardinality(Ahead(r, rows))
<1>0. IsFiniteSet(rows) /\ Cardinality(rows) \in Nat
  BY FS_CardinalityType DEF Keyed
<1>1. Ahead(r, rows) \in SUBSET rows /\ r \notin Ahead(r, rows)
  BY KeysOrdered DEF Ahead, Keyed
<1>2. /\ IsFiniteSet(Ahead(r, rows)) /\ Cardinality(Ahead(r, rows)) \in Nat
      /\ Cardinality(Ahead(r, rows)) < Cardinality(rows)
  <2>1. /\ IsFiniteSet(Ahead(r, rows))
        /\ Cardinality(Ahead(r, rows)) <= Cardinality(rows)
        /\ Cardinality(rows) = Cardinality(Ahead(r, rows)) => rows = Ahead(r, rows)
    BY <1>0, <1>1, FS_Subset, Zenon
  <2>2. Cardinality(Ahead(r, rows)) \in Nat
    BY <2>1, FS_CardinalityType, Zenon
  <2>3. rows # Ahead(r, rows)
    BY <1>1
  <2>. QED  BY <1>0, <2>1, <2>2, <2>3
<1>3. ASSUME NEW q \in rows, Before(KeyOf(r), KeyOf(q))
      PROVE  Cardinality(Ahead(q, rows)) < Cardinality(Ahead(r, rows))
  <2>1. Ahead(q, rows) \in SUBSET Ahead(r, rows)
    <3>. SUFFICES ASSUME NEW t \in rows, Before(KeyOf(q), KeyOf(t))
                  PROVE  Before(KeyOf(r), KeyOf(t))
      BY DEF Ahead
    <3>1. KeyOf(r) \in Nat \X Nat /\ KeyOf(q) \in Nat \X Nat /\ KeyOf(t) \in Nat \X Nat
      BY DEF Keyed
    <3>. QED  BY <1>3, <3>1, KeysOrdered, Zenon
  <2>2. q \in Ahead(r, rows) /\ q \notin Ahead(q, rows)
    BY <1>3, KeysOrdered DEF Ahead, Keyed
  <2>3. /\ IsFiniteSet(Ahead(q, rows))
        /\ Cardinality(Ahead(q, rows)) <= Cardinality(Ahead(r, rows))
        /\ Cardinality(Ahead(r, rows)) = Cardinality(Ahead(q, rows)) => Ahead(r, rows) = Ahead(q, rows)
    BY <1>2, <2>1, FS_Subset
  <2>4. Cardinality(Ahead(q, rows)) \in Nat
    BY <2>3, FS_CardinalityType, Zenon
  <2>5. Ahead(r, rows) # Ahead(q, rows)
    BY <2>2
  <2>. QED  BY <1>2, <2>3, <2>4, <2>5
<1>. QED  BY <1>0, <1>2, <1>3

\* ORDER BY gives every row once, from the greatest key down.
LEMMA InOrderFacts ==
  ASSUME NEW rows, Keyed(rows)
  PROVE  /\ Cardinality(rows) \in Nat
         /\ InOrder(rows) \in [1 .. Cardinality(rows) -> rows]
         /\ \A r \in rows : \E i \in 1 .. Cardinality(rows) : InOrder(rows)[i] = r
         /\ \A i, j \in 1 .. Cardinality(rows) :
              i < j => Before(KeyOf(InOrder(rows)[j]), KeyOf(InOrder(rows)[i]))
<1>. DEFINE N == Cardinality(rows)
            count(r) == Cardinality(Ahead(r, rows))
            f == [r \in rows |-> count(r)]
<1>0. N \in Nat /\ IsFiniteSet(rows)
  BY FS_CardinalityType, Zenon DEF Keyed
<1>1. ASSUME NEW r \in rows, NEW q \in rows
      PROVE  /\ count(r) \in 0 .. N - 1
             /\ Before(KeyOf(r), KeyOf(q)) => count(q) < count(r)
             /\ r # q => Before(KeyOf(r), KeyOf(q)) \/ Before(KeyOf(q), KeyOf(r))
  <2>1. r # q => Before(KeyOf(r), KeyOf(q)) \/ Before(KeyOf(q), KeyOf(r))
    BY KeysOrdered DEF Keyed
  <2>. QED  BY <2>1, AheadCounts
<1>2. \A r, q \in rows : count(r) = count(q) => r = q
  <2>. SUFFICES ASSUME NEW r \in rows, NEW q \in rows, r # q PROVE count(r) # count(q)
    OBVIOUS
  <2>1. count(r) \in Int /\ count(q) \in Int
    BY <1>0, <1>1
  <2>2. Before(KeyOf(r), KeyOf(q)) => count(q) < count(r)
    BY <1>1
  <2>3. Before(KeyOf(q), KeyOf(r)) => count(r) < count(q)
    BY <1>1
  <2>4. Before(KeyOf(r), KeyOf(q)) \/ Before(KeyOf(q), KeyOf(r))
    BY <1>1
  <2>. HIDE DEF count
  <2>. QED  BY <2>1, <2>2, <2>3, <2>4
<1>3. f \in Surjection(rows, 0 .. N - 1)
  <2>1. f \in Injection(rows, 0 .. N - 1)
    <3>1. f \in [rows -> 0 .. N - 1]
      BY <1>1, Zenon
    <3>2. \A r, q \in rows : f[r] = f[q] => r = q
      BY <1>2
    <3>. HIDE DEF f
    <3>. QED  BY <3>1, <3>2, Zenon DEF Injection, IsInjective
  <2>2. IsFiniteSet(0 .. N - 1) /\ Cardinality(0 .. N - 1) = N
    BY <1>0, FS_Interval
  <2>. HIDE DEF f
  <2>. QED  BY <2>1, <2>2, FS_Injection
<1>4. \A i \in 1 .. N : \E r \in rows : count(r) = i - 1
  <2>. SUFFICES ASSUME NEW i \in 1 .. N PROVE \E r \in rows : count(r) = i - 1
    OBVIOUS
  <2>1. i - 1 \in 0 .. N - 1
    BY <1>0
  <2>2. \E r \in rows : f[r] = i - 1
    <3>. HIDE DEF f, N
    <3>. QED  BY <1>3, <2>1, Zenon DEF Surjection
  <2>. QED  BY <2>2, Zenon
<1>5. ASSUME NEW i \in 1 .. N
      PROVE  InOrder(rows)[i] \in rows /\ count(InOrder(rows)[i]) = i - 1
  <2>1. InOrder(rows)[i] = CHOOSE r \in rows : count(r) = i - 1
    BY Zenon DEF InOrder
  <2>. HIDE DEF count
  <2>. QED  BY <1>4, <2>1, Zenon
<1>6. InOrder(rows) \in [1 .. N -> rows]
  <2>. DEFINE pick(i) == CHOOSE r \in rows : count(r) = i - 1
  <2>1. InOrder(rows) = [i \in 1 .. N |-> pick(i)]
    BY Zenon DEF InOrder
  <2>2. \A i \in 1 .. N : pick(i) \in rows
    <3>. HIDE DEF count
    <3>. QED  BY <1>4, Zenon
  <2>. HIDE DEF pick
  <2>. QED  BY <2>1, <2>2, Zenon
<1>7. ASSUME NEW r \in rows PROVE \E i \in 1 .. N : InOrder(rows)[i] = r
  <2>1. count(r) + 1 \in 1 .. N /\ count(r) \in Int /\ (count(r) + 1) - 1 = count(r)
    BY <1>0, <1>1
  <2>2. count(InOrder(rows)[count(r) + 1]) = count(r) /\ InOrder(rows)[count(r) + 1] \in rows
    <3>. HIDE DEF count, N
    <3>. QED  BY <1>5, <2>1
  <2>. HIDE DEF count, N
  <2>. QED  BY <1>2, <2>1, <2>2, Zenon
<1>8. ASSUME NEW i \in 1 .. N, NEW j \in 1 .. N, i < j
      PROVE  Before(KeyOf(InOrder(rows)[j]), KeyOf(InOrder(rows)[i]))
  <2>. DEFINE r == InOrder(rows)[i]  q == InOrder(rows)[j]
  <2>1. r \in rows /\ q \in rows /\ count(r) = i - 1 /\ count(q) = j - 1
    BY <1>5
  <2>2. count(r) < count(q)
    BY <1>8, <2>1
  <2>. HIDE DEF r, q
  <2>3. Before(KeyOf(r), KeyOf(q)) => count(q) < count(r)
    BY <1>1, <2>1
  <2>4. Before(KeyOf(r), KeyOf(q)) \/ Before(KeyOf(q), KeyOf(r)) \/ r = q
    BY <1>1, <2>1
  <2>5. ~(count(q) < count(r)) /\ r # q
    <3>1. count(r) \in Int /\ count(q) \in Int
      BY <2>1
    <3>. HIDE DEF count
    <3>. QED  BY <2>2, <3>1
  <2>. HIDE DEF count
  <2>6. Before(KeyOf(q), KeyOf(r))
    BY <2>3, <2>4, <2>5, Zenon
  <2>. QED  BY <2>6 DEF r, q
<1>. QED  BY <1>0, <1>6, <1>7, <1>8, Zenon

\* LIMIT and truncate keep the first rows.
LEMMA FirstOfFacts ==
  ASSUME NEW S, NEW s \in Seq(S), NEW n \in Nat
  PROVE  /\ FirstOf(n, s) \in Seq(S)
         /\ Len(FirstOf(n, s)) = IF n < Len(s) THEN n ELSE Len(s)
         /\ \A i \in 1 .. Len(FirstOf(n, s)) : FirstOf(n, s)[i] = s[i]
<1>. DEFINE m == IF n < Len(s) THEN n ELSE Len(s)
<1>1. m \in Nat /\ m <= Len(s) /\ Len(s) \in Nat
  OBVIOUS
<1>2. FirstOf(n, s) = SubSeq(s, 1, m)
  BY DEF FirstOf
<1>3. \A i \in 1 .. m : s[i] \in S
  BY <1>1
<1>. HIDE DEF m
<1>4. /\ SubSeq(s, 1, m) \in Seq(S)
      /\ Len(SubSeq(s, 1, m)) = IF 1 <= m THEN m - 1 + 1 ELSE 0
      /\ \A i \in 1 .. m - 1 + 1 : SubSeq(s, 1, m)[i] = s[1 + i - 1]
  BY <1>1, <1>3
<1>5. Len(SubSeq(s, 1, m)) = m
  BY <1>1, <1>4
<1>6. \A i \in 1 .. m : SubSeq(s, 1, m)[i] = s[i]
  BY <1>1, <1>4
<1>. QED  BY <1>2, <1>4, <1>5, <1>6, Zenon DEF m

\* A page of the rows in order, of which one more than the page was fetched:
\* with a next page, what is not in it comes after its last row; without one,
\* it has every row.
LEMMA PageOfRows ==
  ASSUME NEW rows, Keyed(rows), NEW limit \in Nat, limit > 0
  PROVE  LET fetched == FirstOf(limit + 1, InOrder(rows))
             page == FirstOf(limit, fetched)
         IN /\ fetched \in Seq(rows) /\ page \in Seq(rows)
            /\ \A i, j \in 1 .. Len(page) : i < j => Before(KeyOf(page[j]), KeyOf(page[i]))
            /\ Len(fetched) > limit =>
                 /\ Len(page) = limit
                 /\ \A r \in rows : \/ Before(KeyOf(r), KeyOf(page[limit]))
                                     \/ \E i \in 1 .. Len(page) : page[i] = r
            /\ ~(Len(fetched) > limit) =>
                 \A r \in rows : \E i \in 1 .. Len(page) : page[i] = r
<1>. DEFINE all == InOrder(rows)
            fetched == FirstOf(limit + 1, all)
            page == FirstOf(limit, fetched)
            N == Cardinality(rows)
<1>1. /\ N \in Nat /\ all \in [1 .. N -> rows]
      /\ \A r \in rows : \E i \in 1 .. N : all[i] = r
      /\ \A i, j \in 1 .. N : i < j => Before(KeyOf(all[j]), KeyOf(all[i]))
  BY InOrderFacts, Zenon
<1>. HIDE DEF all, N
<1>2. all \in Seq(rows) /\ Len(all) = N
  BY <1>1
<1>3. /\ fetched \in Seq(rows)
      /\ Len(fetched) = IF limit + 1 < N THEN limit + 1 ELSE N
      /\ \A i \in 1 .. Len(fetched) : fetched[i] = all[i]
  <2>1. limit + 1 \in Nat
    OBVIOUS
  <2>. QED  BY <1>2, <2>1, FirstOfFacts
<1>. HIDE DEF fetched
<1>4. /\ page \in Seq(rows)
      /\ Len(page) = IF limit < Len(fetched) THEN limit ELSE Len(fetched)
      /\ \A i \in 1 .. Len(page) : page[i] = fetched[i]
  BY <1>3, FirstOfFacts
<1>. HIDE DEF page
<1>5. Len(page) = (IF limit < N THEN limit ELSE N) /\ (Len(fetched) > limit <=> limit < N)
  BY <1>1, <1>3, <1>4
<1>6. \A i \in 1 .. Len(page) : i \in 1 .. N /\ page[i] = all[i]
  BY <1>1, <1>3, <1>4, <1>5
<1>7. ASSUME NEW i \in 1 .. Len(page), NEW j \in 1 .. Len(page), i < j
      PROVE  Before(KeyOf(page[j]), KeyOf(page[i]))
  <2>1. i \in 1 .. N /\ page[i] = all[i] /\ j \in 1 .. N /\ page[j] = all[j]
    BY <1>6, Zenon
  <2>. QED  BY <1>1, <1>7, <2>1, Zenon
<1>8. ASSUME Len(fetched) > limit, NEW r \in rows
      PROVE  \/ Before(KeyOf(r), KeyOf(page[limit]))
             \/ \E i \in 1 .. Len(page) : page[i] = r
  <2>1. Len(page) = limit /\ limit \in 1 .. Len(page)
    BY <1>5, <1>8
  <2>2. PICK i \in 1 .. N : all[i] = r
    BY <1>1, Zenon
  <2>3. CASE i <= limit
    <3>1. i \in 1 .. Len(page)
      BY <1>1, <2>1, <2>3
    <3>. QED  BY <1>6, <2>2, <3>1, Zenon
  <2>4. CASE limit < i
    <3>1. page[limit] = all[limit] /\ limit \in 1 .. N
      BY <1>6, <2>1, Zenon
    <3>. QED  BY <1>1, <2>2, <2>4, <3>1, Zenon
  <2>. QED  BY <1>1, <2>3, <2>4
<1>9. ASSUME ~(Len(fetched) > limit), NEW r \in rows
      PROVE  \E i \in 1 .. Len(page) : page[i] = r
  <2>1. Len(page) = N
    BY <1>1, <1>5, <1>9
  <2>. QED  BY <1>1, <1>6, <2>1, Zenon
<1>10. Len(fetched) > limit => Len(page) = limit
  BY <1>5, Zenon
<1>11. fetched \in Seq(rows) /\ page \in Seq(rows)
  BY <1>3, <1>4, Zenon
<1>12. /\ fetched \in Seq(rows) /\ page \in Seq(rows)
       /\ \A i, j \in 1 .. Len(page) : i < j => Before(KeyOf(page[j]), KeyOf(page[i]))
       /\ Len(fetched) > limit =>
            /\ Len(page) = limit
            /\ \A r \in rows : \/ Before(KeyOf(r), KeyOf(page[limit]))
                                \/ \E i \in 1 .. Len(page) : page[i] = r
       /\ ~(Len(fetched) > limit) =>
            \A r \in rows : \E i \in 1 .. Len(page) : page[i] = r
  BY <1>7, <1>8, <1>9, <1>10, <1>11, Zenon
<1>. QED  BY <1>12, Zenon DEF page, fetched, all

-----------------------------------------------------------------------------
(* The two surfaces                                                        *)

\* Both read the same filter, ...
LEMMA SameFilter == \A p : ParseFilter(p) = GraphqlParseFilter(p)
BY Zenon DEF ParseFilter, GraphqlParseFilter

\* ... the same limit ...
LEMMA SameLimit == \A raw \in Limits : ParseLimit(raw) = GraphqlParseLimit(raw)
<1>. SUFFICES ASSUME NEW raw \in Limits PROVE ParseLimit(raw) = GraphqlParseLimit(raw)
  OBVIOUS
<1>1. raw = NULL \/ raw \in Nat
  BY PageConstants DEF Limits
<1>2. raw \in Nat => (raw = 0 <=> raw < 1)
  OBVIOUS
<1>. QED  BY <1>1, <1>2, Zenon DEF ParseLimit, GraphqlParseLimit

\* ... and make the same page of the same rows.
LEMMA SamePage ==
  \A rows, limit : BuildPage(rows, limit) = GraphqlBuildPage(rows, limit)
<1>1. \A row : RenderCell(row) = GraphqlRenderCell(row)
  <2>. SUFFICES ASSUME NEW row PROVE RenderCell(row) = GraphqlRenderCell(row)
    OBVIOUS
  <2>1. (~(row.consumed_by # NULL /\ row.consumed_at # NULL))
          = (row.consumed_by = NULL \/ row.consumed_at = NULL)
    OBVIOUS
  <2>. QED  BY <2>1, Zenon DEF RenderCell, GraphqlRenderCell
<1>. SUFFICES ASSUME NEW rows, NEW limit PROVE BuildPage(rows, limit) = GraphqlBuildPage(rows, limit)
  OBVIOUS
<1>. DEFINE page == FirstOf(limit, rows)
<1>2. [i \in 1 .. Len(page) |-> RenderCell(page[i])]
        = [i \in 1 .. Len(page) |-> GraphqlRenderCell(page[i])]
  BY <1>1
<1>. QED  BY <1>2, Zenon DEF BuildPage, GraphqlBuildPage

\* So the two handlers give one answer.
LEMMA SameAnswer ==
  ASSUME NEW p, p.limit \in Limits
  PROVE  List(p) = GraphqlCells(p)
<1>1. ParseFilter(p) = GraphqlParseFilter(p) /\ ParseLimit(p.limit) = GraphqlParseLimit(p.limit)
  BY SameFilter, SameLimit, Zenon
<1>2. \/ ParseFilter(p) = NULL
      \/ ParseFilter(p) # NULL /\ ParseFilter(p)[1] = "lock"
      \/ ParseFilter(p) # NULL /\ ParseFilter(p)[1] = "type"
  BY Zenon DEF ParseFilter
<1>3. CASE ParseFilter(p) = NULL
  BY <1>1, <1>3, Zenon DEF List, GraphqlCells
<1>4. CASE ParseFilter(p) # NULL /\ ParseFilter(p)[1] = "lock"
  BY <1>1, <1>4, SamePage DEF List, GraphqlCells
<1>5. CASE ParseFilter(p) # NULL /\ ParseFilter(p)[1] = "type"
  BY <1>1, <1>5, SamePage DEF List, GraphqlCells
<1>. QED  BY <1>2, <1>3, <1>4, <1>5, Zenon

-----------------------------------------------------------------------------
(* The tables the pages are read from                                      *)

\* What a block is made of.
LEMMA BlockFacts ==
  ASSUME NEW b \in Block
  PROVE  /\ Number[b] \in Height /\ BlockOutputs(b) \subseteq OutPoint
         /\ \A o \in BlockInputs(b) : Spender(b, o) \in Tx
<1>1. ASSUME NEW o \in BlockInputs(b) PROVE Spender(b, o) \in Tx
  <2>1. \E t \in Txs[b] : o \in Inputs[t]
    BY DEF BlockInputs
  <2>2. Spender(b, o) \in Txs[b]
    BY <2>1 DEF Spender
  <2>. QED  BY <2>2, ChainTypes, Zenon
<1>2. BlockOutputs(b) \subseteq OutPoint
  BY ChainTypes DEF BlockOutputs
<1>. QED  BY <1>1, <1>2, ChainTypes, Zenon

\* The heights of the constants.
LEMMA HeightFacts ==
  /\ StartBlock \in Nat /\ StartBlock <= MaxHeight /\ MaxHeight \in Nat
  /\ \A k \in Height : k \in Nat /\ k <= MaxHeight
  /\ NULL \notin Height
BY PageConstants, ChainTypes, NullIsNoValue DEF Height

\* A linked piece of a chain obeys the consensus rules.
LEMMA PieceIsValid ==
  ASSUME NEW c, NEW tip \in StartBlock - 1 .. MaxHeight, c \in [StartBlock .. tip -> Block],
         Linked(c)
  PROVE  ConsensusValid(c)
<1>1. CASE tip = StartBlock - 1
  <2>1. DOMAIN c = {}
    BY <1>1, HeightFacts
  <2>. QED  BY <2>1, Zenon DEF ConsensusValid
<1>2. CASE tip # StartBlock - 1
  <2>1. tip \in Height
    BY <1>2, HeightFacts DEF Height
  <2>. QED  BY <2>1, ConsensusRules, PageConstants, Zenon
<1>. QED  BY <1>1, <1>2, Zenon

\* Every row of blocks is a block at a height.
LEMMA StoredBlocks ==
  ASSUME TablesTypeOK
  PROVE  \A k \in DOMAIN blocks : k \in Height /\ blocks[k] \in Block
<1>1. PICK tip \in StartBlock - 1 .. MaxHeight : blocks \in [StartBlock .. tip -> Block]
  BY Zenon DEF TablesTypeOK
<1>. QED  BY <1>1, HeightFacts DEF Height

\* What a commit of b does to the tables.
LEMMA IndexEffect ==
  ASSUME TablesTypeOK, NEW b \in Block, IndexBlock(b)
  PROVE  /\ Number[b] \in Height /\ Number[b] >= StartBlock
         /\ DOMAIN blocks = StartBlock .. Number[b] - 1
         /\ blocks' \in [StartBlock .. Number[b] -> Block]
         /\ blocks'[Number[b]] = b
         /\ \A k \in DOMAIN blocks : k < Number[b] /\ blocks'[k] = blocks[k]
         /\ DOMAIN blocks' = DOMAIN blocks \cup {Number[b]}
<1>. DEFINE n == Number[b]
<1>1. /\ n \in Height /\ n >= StartBlock /\ DOMAIN blocks = StartBlock .. n - 1
      /\ blocks' = [k \in DOMAIN blocks \cup {n} |-> IF k = n THEN b ELSE blocks[k]]
  BY BlockFacts, Zenon DEF IndexBlock, InsertBlock
<1>2. PICK tip \in StartBlock - 1 .. MaxHeight : blocks \in [StartBlock .. tip -> Block]
  BY Zenon DEF TablesTypeOK
<1>. HIDE DEF n
<1>3. n \in Nat /\ StartBlock \in Nat
  BY <1>1, HeightFacts, Zenon
<1>4. DOMAIN blocks \cup {n} = StartBlock .. n /\ \A k \in DOMAIN blocks : k < n /\ k # n
  BY <1>1, <1>3
<1>5. blocks' \in [StartBlock .. n -> Block]
  BY <1>1, <1>2, <1>4, Zenon
<1>. QED  BY <1>1, <1>4, <1>5 DEF n

\* ... and to the rows of the cells.
LEMMA IndexCells ==
  ASSUME NEW b \in Block, IndexBlock(b)
  PROVE  /\ DOMAIN cells' = DOMAIN cells \cup BlockOutputs(b)
         /\ cells' = [o \in DOMAIN cells' |-> cells'[o]]
         /\ \A o \in DOMAIN cells' :
              cells'[o] =
                LET old == IF o \in BlockOutputs(b) THEN LiveCell(Number[b]) ELSE cells[o]
                IN IF o \in BlockInputs(b) THEN Cell(old.block_number, Spender(b, o), Number[b])
                   ELSE old
<1>. DEFINE mid == InsertCells(cells, Number[b], b)
<1>1. cells' = [o \in DOMAIN mid |->
                  IF o \in BlockInputs(b)
                  THEN Cell(mid[o].block_number, Spender(b, o), Number[b])
                  ELSE mid[o]]
  BY Zenon DEF IndexBlock, MarkConsumed
<1>2. /\ DOMAIN mid = DOMAIN cells \cup BlockOutputs(b)
      /\ \A o \in DOMAIN mid :
           mid[o] = IF o \in BlockOutputs(b) THEN LiveCell(Number[b]) ELSE cells[o]
  BY Zenon DEF InsertCells
<1>. HIDE DEF mid
<1>. QED  BY <1>1, <1>2, Zenon

\* A commit keeps the tables a replay: the consensus rules give every output of
\* the new block a new row that no earlier block spends.
LEMMA IndexStep ==
  ASSUME TablesTypeOK, TablesInv, NEW b \in Block, IndexBlock(b)
  PROVE  TablesTypeOK' /\ TablesInv'
<1>. DEFINE n == Number[b]
<1>1. /\ n \in Height /\ n >= StartBlock
      /\ DOMAIN blocks = StartBlock .. n - 1
      /\ blocks' \in [StartBlock .. n -> Block]
      /\ blocks'[n] = b
      /\ \A k \in DOMAIN blocks : k < n /\ blocks'[k] = blocks[k]
      /\ DOMAIN blocks' = DOMAIN blocks \cup {n}
  BY IndexEffect, Zenon
<1>2. /\ DOMAIN cells' = DOMAIN cells \cup BlockOutputs(b)
      /\ cells' = [o \in DOMAIN cells' |-> cells'[o]]
      /\ \A o \in DOMAIN cells' :
           /\ o \in BlockOutputs(b) => cells'[o].block_number = n
           /\ o \notin BlockOutputs(b) => cells'[o].block_number = cells[o].block_number
           /\ o \in BlockInputs(b) => /\ cells'[o].consumed_by = Spender(b, o)
                                      /\ cells'[o].consumed_at = n
           /\ o \notin BlockInputs(b) /\ o \in BlockOutputs(b) => cells'[o] = LiveCell(n)
           /\ o \notin BlockInputs(b) /\ o \notin BlockOutputs(b) => cells'[o] = cells[o]
  BY IndexCells DEF LiveCell, Cell
<1>3. n \in StartBlock - 1 .. MaxHeight /\ n # NULL
  BY <1>1, HeightFacts DEF Height
<1>4. cells' \in [DOMAIN cells' -> CellRow]
  <2>1. ASSUME NEW o \in DOMAIN cells' PROVE cells'[o] \in CellRow
    <3>. DEFINE old == IF o \in BlockOutputs(b) THEN LiveCell(n) ELSE cells[o]
    <3>1. old \in CellRow
      BY <1>1, <1>2, Zenon DEF LiveCell, Cell, CellRow, TablesTypeOK
    <3>2. o \in BlockInputs(b) => Spender(b, o) \in Tx
      BY BlockFacts, Zenon
    <3>3. cells'[o] = IF o \in BlockInputs(b) THEN Cell(old.block_number, Spender(b, o), n) ELSE old
      BY IndexCells, Zenon
    <3>. HIDE DEF old
    <3>. QED  BY <1>1, <3>1, <3>2, <3>3 DEF Cell, CellRow
  <2>. QED  BY <1>2, <2>1, Zenon
<1>5. DOMAIN cells' \subseteq OutPoint /\ IsFiniteSet(DOMAIN cells')
  <2>1. IsFiniteSet(DOMAIN cells) /\ IsFiniteSet(BlockOutputs(b))
    BY PageConstants, Zenon DEF TablesTypeOK
  <2>2. IsFiniteSet(DOMAIN cells \cup BlockOutputs(b))
    BY <2>1, FS_Union, Zenon
  <2>3. DOMAIN cells \subseteq OutPoint /\ BlockOutputs(b) \subseteq OutPoint
    BY BlockFacts, Zenon DEF TablesTypeOK
  <2>. QED  BY <1>2, <2>2, <2>3, Zenon
<1>6. TablesTypeOK'
  BY <1>1, <1>3, <1>4, <1>5, Zenon DEF TablesTypeOK
<1>7. Linked(blocks')
  <2>1. n > StartBlock => ParentHash[b] = blocks[n - 1]
    BY Zenon DEF IndexBlock
  <2>2. Linked(blocks)
    BY Zenon DEF TablesInv
  <2>. SUFFICES ASSUME NEW k \in DOMAIN blocks'
                PROVE  /\ Number[blocks'[k]] = k
                       /\ (k - 1) \in DOMAIN blocks' => ParentHash[blocks'[k]] = blocks'[k - 1]
    BY Zenon DEF Linked
  <2>3. StartBlock \in Nat /\ n \in Nat
    BY <1>1, HeightFacts
  <2>4. CASE k = n
    <3>1. (k - 1) \in DOMAIN blocks' => n > StartBlock /\ (k - 1) \in DOMAIN blocks
      BY <1>1, <2>3, <2>4
    <3>. QED  BY <1>1, <2>1, <2>4, <3>1, Zenon
  <2>5. CASE k # n
    <3>1. k \in DOMAIN blocks /\ ((k - 1) \in DOMAIN blocks' => (k - 1) \in DOMAIN blocks)
      BY <1>1, <2>3, <2>5
    <3>. QED  BY <1>1, <2>2, <3>1 DEF Linked
  <2>. QED  BY <2>4, <2>5, Zenon
<1>8. ConsensusValid(blocks')
  BY <1>1, <1>3, <1>7, PieceIsValid
<1>9. DOMAIN cells' = UNION {BlockOutputs(blocks'[k]) : k \in DOMAIN blocks'}
  <2>1. DOMAIN cells = UNION {BlockOutputs(blocks[k]) : k \in DOMAIN blocks}
    BY Zenon DEF TablesInv
  <2>. QED  BY <1>1, <1>2, <2>1
<1>10. ASSUME NEW o \in DOMAIN cells'
       PROVE  /\ cells'[o].block_number \in DOMAIN blocks'
              /\ o \in BlockOutputs(blocks'[cells'[o].block_number])
              /\ cells'[o].consumed_by = NULL <=> cells'[o].consumed_at = NULL
              /\ cells'[o].consumed_at = NULL => ~Spent(o)'
              /\ cells'[o].consumed_at # NULL =>
                   /\ cells'[o].consumed_at \in DOMAIN blocks'
                   /\ o \in BlockInputs(blocks'[cells'[o].consumed_at])
  <2>1. o \notin BlockOutputs(b) =>
          /\ o \in DOMAIN cells
          /\ cells[o].block_number \in DOMAIN blocks
          /\ o \in BlockOutputs(blocks[cells[o].block_number])
          /\ cells[o].consumed_by = NULL <=> cells[o].consumed_at = NULL
          /\ cells[o].consumed_at = NULL => ~Spent(o)
          /\ cells[o].consumed_at # NULL =>
               /\ cells[o].consumed_at \in DOMAIN blocks
               /\ o \in BlockInputs(blocks[cells[o].consumed_at])
    BY <1>2, Zenon DEF TablesInv
  <2>2. /\ cells'[o].block_number \in DOMAIN blocks'
        /\ o \in BlockOutputs(blocks'[cells'[o].block_number])
    <3>1. CASE o \in BlockOutputs(b)
      BY <1>1, <1>2, <3>1, Zenon
    <3>2. CASE o \notin BlockOutputs(b)
      BY <1>1, <1>2, <2>1, <3>2, Zenon
    <3>. QED  BY <3>1, <3>2, Zenon
  <2>3. CASE o \in BlockInputs(b)
    <3>0. Spender(b, o) # NULL
      <4>1. Spender(b, o) \in Tx
        BY <2>3, BlockFacts, Zenon
      <4>. QED  BY <4>1, NullIsNoValue, Zenon
    <3>1. cells'[o].consumed_by # NULL
      BY <1>2, <2>3, <3>0, Zenon
    <3>2. cells'[o].consumed_at = n /\ n \in DOMAIN blocks' /\ o \in BlockInputs(blocks'[n])
      BY <1>1, <1>2, <2>3, Zenon
    <3>. QED  BY <1>3, <2>2, <3>1, <3>2, Zenon
  <2>4. CASE o \notin BlockInputs(b) /\ o \in BlockOutputs(b)
    <3>1. cells'[o].consumed_by = NULL /\ cells'[o].consumed_at = NULL
      BY <1>2, <2>4 DEF LiveCell, Cell
    <3>2. ASSUME NEW k \in DOMAIN blocks PROVE o \notin BlockInputs(blocks'[k])
      BY <1>1, <1>8, <2>4, Zenon DEF ConsensusValid
    <3>3. ~Spent(o)'
      BY <1>1, <2>4, <3>2, Zenon DEF Spent
    <3>. QED  BY <2>2, <3>1, <3>3, Zenon
  <2>5. CASE o \notin BlockInputs(b) /\ o \notin BlockOutputs(b)
    <3>1. cells'[o] = cells[o]
      BY <1>2, <2>5, Zenon
    <3>2. ~Spent(o) => ~Spent(o)'
      BY <1>1, <2>5, Zenon DEF Spent
    <3>. QED  BY <1>1, <2>1, <2>2, <2>5, <3>1, <3>2, Zenon
  <2>. QED  BY <2>3, <2>4, <2>5, Zenon
<1>. QED  BY <1>6, <1>7, <1>9, <1>10 DEF TablesInv

\* What a rollback to h does to the tables.
LEMMA RollbackEffect ==
  ASSUME TablesTypeOK, NEW h \in Height, RollbackAbove(h)
  PROVE  /\ h \in StartBlock - 1 .. MaxHeight /\ h + 1 \in DOMAIN blocks
         /\ blocks' = [k \in StartBlock .. h |-> blocks[k]]
         /\ blocks' \in [StartBlock .. h -> Block]
         /\ DOMAIN blocks' = {k \in DOMAIN blocks : k <= h}
         /\ \A k \in DOMAIN blocks' : blocks'[k] = blocks[k]
<1>1. PICK tip \in StartBlock - 1 .. MaxHeight : blocks \in [StartBlock .. tip -> Block]
  BY Zenon DEF TablesTypeOK
<1>2. /\ h \in DOMAIN blocks /\ h + 1 \in DOMAIN blocks
      /\ blocks' = [k \in {k \in DOMAIN blocks : k <= h} |-> blocks[k]]
  BY Zenon DEF RollbackAbove, DeleteAbove, Restrict
<1>3. h \in StartBlock - 1 .. MaxHeight /\ h <= tip /\ StartBlock <= h
  BY <1>1, <1>2, HeightFacts
<1>4. {k \in DOMAIN blocks : k <= h} = StartBlock .. h
  BY <1>1, <1>3, HeightFacts
<1>5. \A k \in StartBlock .. h : blocks[k] \in Block
  BY <1>1, <1>3, HeightFacts
<1>. QED  BY <1>2, <1>3, <1>4, <1>5, Zenon

\* ... and to the rows of the cells.
LEMMA RollbackCells ==
  ASSUME NEW h \in Height, RollbackAbove(h)
  PROVE  /\ DOMAIN cells' = {o \in DOMAIN cells : cells[o].block_number <= h}
         /\ cells' = [o \in DOMAIN cells' |-> cells'[o]]
         /\ \A o \in DOMAIN cells' :
              cells'[o] = IF cells[o].consumed_at # NULL /\ cells[o].consumed_at > h
                          THEN LiveCell(cells[o].block_number) ELSE cells[o]
<1>. DEFINE mid == RestoreConsumedAbove(cells, h)
<1>1. /\ DOMAIN mid = DOMAIN cells
      /\ \A o \in DOMAIN cells :
           mid[o] = IF cells[o].consumed_at # NULL /\ cells[o].consumed_at > h
                    THEN LiveCell(cells[o].block_number) ELSE cells[o]
  BY Zenon DEF RestoreConsumedAbove
<1>2. cells' = [o \in {o \in DOMAIN mid : mid[o].block_number <= h} |-> mid[o]]
  BY Zenon DEF RollbackAbove, CascadeCells, Restrict
<1>. HIDE DEF mid
<1>3. \A o \in DOMAIN cells : mid[o].block_number = cells[o].block_number
  BY <1>1 DEF LiveCell, Cell
<1>4. {o \in DOMAIN mid : mid[o].block_number <= h} = {o \in DOMAIN cells : cells[o].block_number <= h}
  BY <1>1, <1>3, Zenon
<1>. QED  BY <1>1, <1>2, <1>4, Zenon

\* A rollback keeps the tables a replay: a cell has one creator and one spender
\* on a chain, so one that is gone leaves no other.
LEMMA RollbackStep ==
  ASSUME TablesTypeOK, TablesInv, NEW h \in Height, RollbackAbove(h)
  PROVE  TablesTypeOK' /\ TablesInv'
<1>1. /\ h \in StartBlock - 1 .. MaxHeight /\ blocks' \in [StartBlock .. h -> Block]
      /\ DOMAIN blocks' = {k \in DOMAIN blocks : k <= h}
      /\ \A k \in DOMAIN blocks' : blocks'[k] = blocks[k]
  BY RollbackEffect, Zenon
<1>2. /\ DOMAIN cells' = {o \in DOMAIN cells : cells[o].block_number <= h}
      /\ cells' = [o \in DOMAIN cells' |-> cells'[o]]
      /\ \A o \in DOMAIN cells' :
           cells'[o] = IF cells[o].consumed_at # NULL /\ cells[o].consumed_at > h
                       THEN LiveCell(cells[o].block_number) ELSE cells[o]
  BY RollbackCells, Zenon
<1>3. \A k \in DOMAIN blocks : k \in Height /\ blocks[k] \in Block
  BY StoredBlocks, Zenon
<1>4. \A o \in DOMAIN cells : cells[o] \in CellRow
  BY Zenon DEF TablesTypeOK
<1>5. TablesTypeOK'
  <2>1. \A o \in DOMAIN cells' : cells'[o] \in CellRow
    <3>. SUFFICES ASSUME NEW o \in DOMAIN cells' PROVE cells'[o] \in CellRow
      OBVIOUS
    <3>1. cells[o] \in CellRow
      BY <1>2, <1>4, Zenon
    <3>2. LiveCell(cells[o].block_number) \in CellRow
      BY <3>1, Zenon DEF LiveCell, Cell, CellRow
    <3>. QED  BY <1>2, <3>1, <3>2, Zenon
  <2>2. IsFiniteSet(DOMAIN cells) /\ DOMAIN cells \subseteq OutPoint
    BY Zenon DEF TablesTypeOK
  <2>3. DOMAIN cells' \in SUBSET DOMAIN cells
    BY <1>2, Zenon
  <2>4. IsFiniteSet(DOMAIN cells')
    BY <2>2, <2>3, FS_Subset, Zenon
  <2>5. DOMAIN cells' \subseteq OutPoint
    BY <2>2, <2>3
  <2>6. cells' \in [DOMAIN cells' -> CellRow]
    BY <1>2, <2>1, Zenon
  <2>. QED  BY <1>1, <2>4, <2>5, <2>6, Zenon DEF TablesTypeOK
<1>6. Linked(blocks) /\ ConsensusValid(blocks)
  <2>1. PICK tip \in StartBlock - 1 .. MaxHeight : blocks \in [StartBlock .. tip -> Block]
    BY Zenon DEF TablesTypeOK
  <2>2. Linked(blocks)
    BY Zenon DEF TablesInv
  <2>. QED  BY <2>1, <2>2, PieceIsValid, Zenon
<1>7. Linked(blocks')
  BY <1>1, <1>6, Zenon DEF Linked
<1>8. DOMAIN cells' = UNION {BlockOutputs(blocks'[k]) : k \in DOMAIN blocks'}
  <2>1. \A o : o \in DOMAIN cells <=> \E k \in DOMAIN blocks : o \in BlockOutputs(blocks[k])
    BY Zenon DEF TablesInv
  <2>2. ASSUME NEW o \in DOMAIN cells, NEW k \in DOMAIN blocks, o \in BlockOutputs(blocks[k])
        PROVE  cells[o].block_number = k
    BY <1>6, <2>2, Zenon DEF TablesInv, ConsensusValid
  <2>3. \A o \in DOMAIN cells : /\ cells[o].block_number \in DOMAIN blocks
                                /\ o \in BlockOutputs(blocks[cells[o].block_number])
    BY Zenon DEF TablesInv
  <2>4. ASSUME NEW o
        PROVE  o \in DOMAIN cells' <=> \E k \in DOMAIN blocks' : o \in BlockOutputs(blocks'[k])
    <3>1. ASSUME o \in DOMAIN cells' PROVE \E k \in DOMAIN blocks' : o \in BlockOutputs(blocks'[k])
      <4>1. o \in DOMAIN cells /\ cells[o].block_number <= h
        BY <1>2, <3>1, Zenon
      <4>2. cells[o].block_number \in DOMAIN blocks'
        BY <1>1, <2>3, <4>1, Zenon
      <4>. QED  BY <1>1, <2>3, <4>1, <4>2, Zenon
    <3>2. ASSUME NEW k \in DOMAIN blocks', o \in BlockOutputs(blocks'[k]) PROVE o \in DOMAIN cells'
      <4>1. k \in DOMAIN blocks /\ k <= h /\ o \in BlockOutputs(blocks[k])
        BY <1>1, <3>2, Zenon
      <4>2. o \in DOMAIN cells
        BY <2>1, <4>1, Zenon
      <4>. QED  BY <1>2, <2>2, <4>1, <4>2, Zenon
    <3>. QED  BY <3>1, <3>2, Zenon
  <2>. QED  BY <2>4, Zenon
<1>9. ASSUME NEW o \in DOMAIN cells'
      PROVE  /\ cells'[o].block_number \in DOMAIN blocks'
             /\ o \in BlockOutputs(blocks'[cells'[o].block_number])
             /\ cells'[o].consumed_by = NULL <=> cells'[o].consumed_at = NULL
             /\ cells'[o].consumed_at = NULL => ~Spent(o)'
             /\ cells'[o].consumed_at # NULL =>
                  /\ cells'[o].consumed_at \in DOMAIN blocks'
                  /\ o \in BlockInputs(blocks'[cells'[o].consumed_at])
  <2>1. /\ o \in DOMAIN cells /\ cells[o].block_number <= h
        /\ cells[o].block_number \in DOMAIN blocks
        /\ o \in BlockOutputs(blocks[cells[o].block_number])
        /\ cells[o].consumed_by = NULL <=> cells[o].consumed_at = NULL
        /\ cells[o].consumed_at = NULL => ~Spent(o)
        /\ cells[o].consumed_at # NULL =>
             /\ cells[o].consumed_at \in DOMAIN blocks
             /\ o \in BlockInputs(blocks[cells[o].consumed_at])
    BY <1>2, Zenon DEF TablesInv
  <2>2. ~Spent(o) => ~Spent(o)'
    BY <1>1, Zenon DEF Spent
  <2>3. CASE cells[o].consumed_at # NULL /\ cells[o].consumed_at > h
    <3>. DEFINE at == cells[o].consumed_at
    <3>1. cells'[o] = LiveCell(cells[o].block_number)
      BY <1>2, <2>3, Zenon
    <3>2. /\ cells'[o].block_number = cells[o].block_number
          /\ cells'[o].consumed_by = NULL /\ cells'[o].consumed_at = NULL
      BY <3>1 DEF LiveCell, Cell
    <3>3. at \in DOMAIN blocks /\ at \in Int /\ h \in Int /\ o \in BlockInputs(blocks[at])
      BY <1>3, <2>1, <2>3, HeightFacts
    <3>4. ASSUME NEW k \in DOMAIN blocks' PROVE o \notin BlockInputs(blocks'[k])
      <4>1. k \in DOMAIN blocks /\ k <= h /\ blocks'[k] = blocks[k]
        BY <1>1, Zenon
      <4>2. k \in Int
        BY <1>3, <4>1, HeightFacts
      <4>3. k # at
        BY <2>3, <3>3, <4>1, <4>2
      <4>. HIDE DEF at
      <4>. QED  BY <1>6, <3>3, <4>1, <4>3, Zenon DEF ConsensusValid
    <3>5. ~Spent(o)'
      BY <3>4, Zenon DEF Spent
    <3>6. cells[o].block_number \in DOMAIN blocks'
      BY <1>1, <2>1, Zenon
    <3>7. blocks'[cells[o].block_number] = blocks[cells[o].block_number]
      BY <1>1, <3>6, Zenon
    <3>. QED  BY <2>1, <3>2, <3>5, <3>6, <3>7, Zenon
  <2>4. CASE ~(cells[o].consumed_at # NULL /\ cells[o].consumed_at > h)
    <3>1. cells'[o] = cells[o]
      BY <1>2, <2>4, Zenon
    <3>2. cells[o].block_number \in DOMAIN blocks'
      BY <1>1, <2>1, Zenon
    <3>3. ASSUME cells[o].consumed_at # NULL PROVE cells[o].consumed_at \in DOMAIN blocks'
      <4>1. cells[o].consumed_at \in DOMAIN blocks /\ cells[o].consumed_at \in Int /\ h \in Int
        BY <1>3, <2>1, <3>3, HeightFacts
      <4>2. cells[o].consumed_at <= h
        BY <2>4, <3>3, <4>1
      <4>. QED  BY <1>1, <4>1, <4>2, Zenon
    <3>. QED  BY <1>1, <2>1, <2>2, <3>1, <3>2, <3>3, Zenon
  <2>. QED  BY <2>3, <2>4, Zenon
<1>. QED  BY <1>5, <1>7, <1>8, <1>9, Zenon DEF TablesInv

\* Empty tables are a replay of no block.
LEMMA TablesStart == Init => TablesTypeOK /\ TablesInv
<1>. SUFFICES ASSUME Init PROVE TablesTypeOK /\ TablesInv
  OBVIOUS
<1>1. DOMAIN blocks = {} /\ DOMAIN cells = {}
  BY DEF Init, NoRows
<1>2. blocks = [k \in {} |-> NULL] /\ cells = [k \in {} |-> NULL]
  BY DEF Init, NoRows
<1>3. TablesTypeOK
  <2>1. StartBlock - 1 \in StartBlock - 1 .. MaxHeight /\ StartBlock .. StartBlock - 1 = {}
    BY HeightFacts
  <2>2. blocks \in [StartBlock .. StartBlock - 1 -> Block]
    BY <1>2, <2>1, Zenon
  <2>3. cells \in [DOMAIN cells -> CellRow]
    BY <1>2, Zenon
  <2>. QED  BY <1>1, <2>1, <2>2, <2>3, FS_EmptySet, Zenon DEF TablesTypeOK
<1>. QED  BY <1>1, <1>3, Zenon DEF TablesInv, Linked

\* Every step keeps the tables a replay; only commits and rollbacks change them.
LEMMA TablesStep ==
  TablesTypeOK /\ TablesInv /\ [Next]_vars => TablesTypeOK' /\ TablesInv'
<1>. SUFFICES ASSUME TablesTypeOK, TablesInv, [Next]_vars
              PROVE  TablesTypeOK' /\ TablesInv'
  OBVIOUS
<1>1. CASE UNCHANGED <<blocks, cells>>
  BY <1>1, Zenon DEF TablesTypeOK, TablesInv, Spent
<1>2. \/ UNCHANGED <<blocks, cells>> \/ \E b \in Block : IndexBlock(b)
      \/ \E h \in Height : RollbackAbove(h)
  BY Zenon DEF Next, vars, BeginWalk, FetchRest, FetchGraphql, FetchPage
<1>. QED  BY <1>1, <1>2, IndexStep, RollbackStep, Zenon

-----------------------------------------------------------------------------
(* REST and GraphQL                                                        *)

\* The block endpoints parse and find alike.
LEMMA SameBlocks == \A n \in -1 .. MaxHeight + 1 : BlockByNumber(n) = GraphqlBlock(n)
<1>. SUFFICES ASSUME NEW n \in -1 .. MaxHeight + 1 PROVE BlockByNumber(n) = GraphqlBlock(n)
  OBVIOUS
<1>1. n \in Int /\ n <= MaxI64 /\ n # NULL
  BY HeightFacts, PageConstants, NullIsNoValue
<1>. QED  BY <1>1, PageConstants DEF BlockByNumber, GraphqlBlock, ParseBlockNumber

\* The latest block is the last one that is found by number.
LEMMA LatestIsLast ==
  ASSUME TablesTypeOK, TablesInv, LatestBlock # NULL
  PROVE  LET tip == Number[LatestBlock] IN
         BlockByNumber(tip) = LatestBlock /\ BlockByNumber(tip + 1) = NULL
<1>1. PICK top \in StartBlock - 1 .. MaxHeight : blocks \in [StartBlock .. top -> Block]
  BY Zenon DEF TablesTypeOK
<1>2. DOMAIN blocks # {} /\ DOMAIN blocks = StartBlock .. top
  BY <1>1, Zenon DEF LatestBlock
<1>3. top \in DOMAIN blocks /\ top \in Nat /\ top <= MaxHeight
  BY <1>1, <1>2, HeightFacts
<1>4. \A n \in DOMAIN blocks : (\A k \in DOMAIN blocks : k <= n) <=> n = top
  BY <1>2, <1>3, HeightFacts
<1>5. (CHOOSE n \in DOMAIN blocks : \A k \in DOMAIN blocks : k <= n) = top
  BY <1>3, <1>4, Zenon
<1>6. LatestBlock = blocks[top]
  BY <1>2, <1>5, Zenon DEF LatestBlock
<1>7. Number[LatestBlock] = top
  BY <1>3, <1>6, Zenon DEF TablesInv, Linked
<1>8. /\ top >= 0 /\ top <= MaxI64 /\ top + 1 >= 0 /\ top + 1 <= MaxI64
      /\ top # NULL /\ top + 1 # NULL /\ top + 1 \notin DOMAIN blocks
  BY <1>2, <1>3, HeightFacts, PageConstants, NullIsNoValue
<1>9. ~(top < 0 \/ top > MaxI64) /\ ~(top + 1 < 0 \/ top + 1 > MaxI64)
  BY <1>3, <1>8, PageConstants
<1>10. BlockByNumber(top) = blocks[top]
  BY <1>3, <1>8, <1>9, Zenon DEF BlockByNumber, ParseBlockNumber, GetByNumber
<1>11. BlockByNumber(top + 1) = NULL
  BY <1>8, <1>9, Zenon DEF BlockByNumber, ParseBlockNumber, GetByNumber
<1>. QED  BY <1>6, <1>7, <1>10, <1>11, Zenon

\* The GraphQL schema mirrors REST: for any page sizes, chain and parameters the
\* two copies of the handlers agree (graphql.rs, routes/cells.rs, blocks.rs).
THEOREM SurfacesAlwaysAgree == Spec => []SurfacesAgree
<1>1. TablesTypeOK /\ TablesInv => SurfacesAgree
  <2>. SUFFICES ASSUME TablesTypeOK, TablesInv PROVE SurfacesAgree
    OBVIOUS
  <2>1. ASSUME NEW lock \in Hashes \cup {NULL, Malformed}, NEW type \in Hashes \cup {NULL, Malformed},
               NEW is_live \in {TRUE, FALSE, NULL}, NEW limit \in Limits,
               NEW cursor \in {NULL, Malformed, walk.next}
        PROVE  LET p == [lock |-> lock, type |-> type, is_live |-> is_live, limit |-> limit,
                         cursor |-> cursor]
               IN List(p) = GraphqlCells(p)
    <3>. DEFINE p == [lock |-> lock, type |-> type, is_live |-> is_live, limit |-> limit,
                      cursor |-> cursor]
    <3>1. p.limit \in Limits
      OBVIOUS
    <3>. HIDE DEF p
    <3>2. List(p) = GraphqlCells(p)
      BY <3>1, SameAnswer, Zenon
    <3>. QED  BY <3>2, Zenon DEF p
  <2>. QED  BY <2>1, SameBlocks, LatestIsLast, Zenon DEF SurfacesAgree
<1>. QED  BY <1>1, TablesStart, TablesStep, PTL DEF Spec

-----------------------------------------------------------------------------
(* A walk over the pages                                                   *)

\* The out points a walk asks for, and where it is.
Asked == {o \in DOMAIN cells : ScriptHash(walk.filter[1], o) = walk.filter[2]}
Position == IF walk.next = NULL THEN NULL ELSE DecodeCellsCursor(walk.next)

\* A row has the key of its out point.
LEMMA RowFacts ==
  ASSUME TablesTypeOK, NEW o \in DOMAIN cells, cells[o].block_number \in DOMAIN blocks
  PROVE  /\ KeyOf(Row(o)) = <<cells[o].block_number, Rank[o]>>
         /\ KeyOf(Row(o)) \in Nat \X Nat
         /\ KeyOf(RenderCell(Row(o))) = KeyOf(Row(o))
         /\ RenderCell(Row(o)) \in CellAnswer
         /\ RenderCell(Row(o)).out_point = o
         /\ RenderCell(Row(o)).block_number = cells[o].block_number
         /\ RenderCell(Row(o)).block_hash = blocks[cells[o].block_number]
<1>. DEFINE n == cells[o].block_number
<1>1. o \in OutPoint /\ Rank[o] \in Nat
  BY PageConstants, Zenon DEF TablesTypeOK
<1>2. n \in Height /\ n \in Nat /\ blocks[n] \in Block
  BY StoredBlocks, HeightFacts, Zenon
<1>3. /\ Row(o).out_point = o /\ Row(o).block_number = n /\ Row(o).block_hash = blocks[n]
  BY Zenon DEF Row
<1>. HIDE DEF n
<1>4. /\ RenderCell(Row(o)).out_point = o /\ RenderCell(Row(o)).block_number = n
      /\ RenderCell(Row(o)).block_hash = blocks[n]
  BY <1>3, Zenon DEF RenderCell
<1>5. RenderCell(Row(o)) \in CellAnswer
  BY <1>1, <1>2, <1>3, Zenon DEF RenderCell, CellAnswer
<1>6. KeyOf(Row(o)) = <<n, Rank[o]>> /\ KeyOf(RenderCell(Row(o))) = <<n, Rank[o]>>
  BY <1>3, <1>4, Zenon DEF KeyOf
<1>. QED  BY <1>1, <1>2, <1>4, <1>5, <1>6 DEF n

\* The rows of a query are finitely many and have keys of their own.
LEMMA MatchingKeyed ==
  ASSUME TablesTypeOK, NEW P \in SUBSET DOMAIN cells, NEW is_live, NEW cursor
  PROVE  Keyed(Matching(P, is_live, cursor))
<1>. DEFINE Q == {p \in P : cells[p].block_number \in DOMAIN blocks}
            joined == {Row(o) : o \in Q}
            rows == Matching(P, is_live, cursor)
            f == [o \in Q |-> Row(o)]
<1>1. IsFiniteSet(Q)
  <2>1. IsFiniteSet(DOMAIN cells) /\ Q \in SUBSET DOMAIN cells
    BY Zenon DEF TablesTypeOK
  <2>. QED  BY <2>1, FS_Subset, Zenon
<1>2. f \in Surjection(Q, joined)
  BY DEF Surjection
<1>3. IsFiniteSet(joined)
  <2>. HIDE DEF f, Q, joined
  <2>. QED  BY <1>1, <1>2, FS_Surjection
<1>4. rows \in SUBSET joined
  BY Zenon DEF Matching
<1>5. IsFiniteSet(rows)
  <2>. HIDE DEF rows, joined
  <2>. QED  BY <1>3, <1>4, FS_Subset, Zenon
<1>6. \A r \in rows : \E o \in Q : r = Row(o)
  BY <1>4, Zenon
<1>. HIDE DEF rows
<1>7. ASSUME NEW r \in rows PROVE KeyOf(r) \in Nat \X Nat
  BY <1>6, RowFacts
<1>8. ASSUME NEW r \in rows, NEW q \in rows, KeyOf(r) = KeyOf(q) PROVE r = q
  <2>1. PICK o \in Q : r = Row(o)
    BY <1>6, Zenon
  <2>2. PICK p \in Q : q = Row(p)
    BY <1>6, Zenon
  <2>3. KeyOf(r) = <<cells[o].block_number, Rank[o]>> /\ KeyOf(q) = <<cells[p].block_number, Rank[p]>>
    BY <2>1, <2>2, RowFacts, Zenon
  <2>4. Rank[o] = Rank[p]
    <3>1. KeyOf(r)[2] = Rank[o] /\ KeyOf(q)[2] = Rank[p]
      BY <2>3
    <3>. QED  BY <1>8, <3>1, Zenon
  <2>5. o \in OutPoint /\ p \in OutPoint
    BY Zenon DEF TablesTypeOK
  <2>. QED  BY <2>1, <2>2, <2>4, <2>5, PageConstants, Zenon
<1>. QED  BY <1>5, <1>7, <1>8, Zenon DEF Keyed, rows

\* The request of a walk is answered with a page of what it asks for.
LEMMA WalkAnswer ==
  ASSUME walk.filter \in Filters, NEW limit \in Limits, DefaultPageSize > 0,
         List(Params(limit)).status = 200
  PROVE  \E size \in Nat :
           /\ size > 0
           /\ List(Params(limit))
                = BuildPage(Select(Asked, walk.is_live, Position, size + 1), size)
<1>. DEFINE p == Params(limit)
            f == walk.filter
            filter == ParseFilter(p)
            size == ParseLimit(p.limit)
<1>1. /\ p.lock = (IF f[1] = "lock" THEN f[2] ELSE NULL)
      /\ p.type = (IF f[1] = "type" THEN f[2] ELSE NULL)
      /\ p.is_live = walk.is_live /\ p.limit = limit /\ p.cursor = walk.next
  BY Zenon DEF Params
<1>. HIDE DEF p
<1>2. /\ filter # NULL /\ size # NULL
      /\ List(p) = BuildPage(IF filter[1] = "lock"
                             THEN QueryByLockHash(filter[2], p.is_live, Position, size + 1)
                             ELSE QueryByTypeHash(filter[2], p.is_live, Position, size + 1), size)
  <2>. DEFINE refused == \/ filter = NULL \/ size = NULL
                         \/ p.cursor # NULL /\ ~WellFormedCursor(p.cursor)
  <2>1. ~refused
    <3>1. refused => List(p) = Error(400)
      BY Zenon DEF List
    <3>2. Error(400).status # 200
      BY DEF Error
    <3>3. List(p).status = 200
      BY DEF p
    <3>. QED  BY <3>1, <3>2, <3>3, Zenon
  <2>2. Position = IF p.cursor = NULL THEN NULL ELSE DecodeCellsCursor(p.cursor)
    BY <1>1, Zenon DEF Position
  <2>3. List(p) = BuildPage(IF filter[1] = "lock"
                            THEN QueryByLockHash(filter[2], p.is_live, Position, size + 1)
                            ELSE QueryByTypeHash(filter[2], p.is_live, Position, size + 1), size)
    BY <2>1, <2>2, Zenon DEF List
  <2>. QED  BY <2>1, <2>3, Zenon
<1>3. size \in Nat /\ size > 0
  <2>1. limit = NULL \/ limit \in Nat
    BY PageConstants DEF Limits
  <2>. QED  BY <1>1, <1>2, <2>1, PageConstants DEF ParseLimit
<1>4. f[1] = "lock" \/ (f[1] = "type" /\ f[2] # NULL)
  <2>1. \/ \E o \in OutPoint : f = <<"lock", LockHash[o]>>
        \/ \E o \in OutPoint : f = <<"type", TypeHash[o]>> /\ TypeHash[o] # NULL
    BY DEF Filters
  <2>. HIDE DEF f
  <2>. QED  BY <2>1
<1>. HIDE DEF size, filter
<1>5. CASE f[1] = "lock"
  <2>1. p.lock = f[2] /\ p.type = NULL
    BY <1>1, <1>5, Zenon
  <2>2. filter = <<"lock", f[2]>>
    BY <1>2, <2>1, Zenon DEF ParseFilter, filter
  <2>3. filter[1] = "lock" /\ filter[2] = f[2]
    BY <2>2, Zenon
  <2>4. Asked = {o \in DOMAIN cells : LockHash[o] = f[2]}
    BY <1>5, Zenon DEF Asked, ScriptHash
  <2>5. QueryByLockHash(f[2], walk.is_live, Position, size + 1)
          = Select(Asked, walk.is_live, Position, size + 1)
    BY <2>4, Zenon DEF QueryByLockHash
  <2>6. List(p) = BuildPage(Select(Asked, walk.is_live, Position, size + 1), size)
    BY <1>1, <1>2, <2>3, <2>5
  <2>. QED  BY <1>3, <2>6, Zenon DEF p
<1>6. CASE f[1] = "type" /\ f[2] # NULL
  <2>1. p.lock = NULL /\ p.type = f[2] /\ "lock" # "type"
    BY <1>1, <1>6, Zenon
  <2>2. filter = <<"type", f[2]>>
    BY <1>2, <1>6, <2>1, Zenon DEF ParseFilter, filter
  <2>3. filter[1] # "lock" /\ filter[2] = f[2]
    BY <2>2, Zenon
  <2>4. Asked = {o \in DOMAIN cells : TypeHash[o] # NULL /\ TypeHash[o] = f[2]}
    BY <1>6, <2>1 DEF Asked, ScriptHash
  <2>5. QueryByTypeHash(f[2], walk.is_live, Position, size + 1)
          = Select(Asked, walk.is_live, Position, size + 1)
    BY <2>4, Zenon DEF QueryByTypeHash
  <2>6. List(p) = BuildPage(Select(Asked, walk.is_live, Position, size + 1), size)
    BY <1>1, <1>2, <2>3, <2>5
  <2>. QED  BY <1>3, <2>6, Zenon DEF p
<1>. QED  BY <1>4, <1>5, <1>6, Zenon

\* What a page holds of the rows that match, and where its cursor points.
LEMMA PageFacts ==
  ASSUME TablesTypeOK, NEW P \in SUBSET DOMAIN cells, NEW is_live, NEW cursor,
         NEW size \in Nat, size > 0
  PROVE  LET rows == Matching(P, is_live, cursor)
             answer == BuildPage(Select(P, is_live, cursor, size + 1), size)
             data == answer.data
         IN /\ data \in Seq(CellAnswer)
            /\ \A i \in 1 .. Len(data) : \E r \in rows : data[i] = RenderCell(r)
            /\ \A i, j \in 1 .. Len(data) : i < j => Before(KeyOf(data[j]), KeyOf(data[i]))
            /\ answer.next = NULL =>
                 \A r \in rows : \E i \in 1 .. Len(data) : data[i] = RenderCell(r)
            /\ answer.next # NULL =>
                 /\ answer.next \in WireCursor /\ data # <<>>
                 /\ DecodeCellsCursor(answer.next) = KeyOf(data[Len(data)])
                 /\ \A r \in rows : \/ Before(KeyOf(r), KeyOf(data[Len(data)]))
                                     \/ \E i \in 1 .. Len(data) : data[i] = RenderCell(r)
<1>. DEFINE rows == Matching(P, is_live, cursor)
            fetched == FirstOf(size + 1, InOrder(rows))
            page == FirstOf(size, fetched)
            answer == BuildPage(Select(P, is_live, cursor, size + 1), size)
            data == answer.data
            more == Len(fetched) > size
<1>1. Keyed(rows)
  BY MatchingKeyed, Zenon
<1>2. \A r \in rows : /\ KeyOf(r) \in Nat \X Nat /\ KeyOf(RenderCell(r)) = KeyOf(r)
                      /\ RenderCell(r) \in CellAnswer
  <2>1. \A r \in rows : \E o \in DOMAIN cells : cells[o].block_number \in DOMAIN blocks /\ r = Row(o)
    BY Zenon DEF Matching
  <2>. HIDE DEF rows
  <2>. QED  BY <2>1, RowFacts
<1>3. /\ fetched \in Seq(rows) /\ page \in Seq(rows)
      /\ \A i, j \in 1 .. Len(page) : i < j => Before(KeyOf(page[j]), KeyOf(page[i]))
      /\ more => /\ Len(page) = size
                 /\ \A r \in rows : \/ Before(KeyOf(r), KeyOf(page[size]))
                                     \/ \E i \in 1 .. Len(page) : page[i] = r
      /\ ~more => \A r \in rows : \E i \in 1 .. Len(page) : page[i] = r
  BY <1>1, PageOfRows, Zenon
<1>4. answer = [status |-> 200, data |-> [i \in 1 .. Len(page) |-> RenderCell(page[i])],
                next |-> IF more /\ page # <<>>
                         THEN EncodeCellsCursor(KeyOf(page[Len(page)])) ELSE NULL]
  BY Zenon DEF BuildPage, Select
<1>. HIDE DEF rows, fetched, page, answer
<1>5. /\ data = [i \in 1 .. Len(page) |-> RenderCell(page[i])]
      /\ answer.next = IF more /\ page # <<>>
                       THEN EncodeCellsCursor(KeyOf(page[Len(page)])) ELSE NULL
  BY <1>4, Zenon
<1>6. Len(page) \in Nat /\ \A i \in 1 .. Len(page) : page[i] \in rows
  BY <1>3
<1>7. /\ data \in Seq(CellAnswer) /\ Len(data) = Len(page)
      /\ \A i \in 1 .. Len(page) : data[i] = RenderCell(page[i])
  BY <1>2, <1>5, <1>6
<1>. HIDE DEF data, more
<1>8. \A i \in 1 .. Len(page) : KeyOf(data[i]) = KeyOf(page[i])
  BY <1>2, <1>6, <1>7, Zenon
<1>9. \A i \in 1 .. Len(data) : \E r \in rows : data[i] = RenderCell(r)
  BY <1>6, <1>7, Zenon
<1>10. \A i, j \in 1 .. Len(data) : i < j => Before(KeyOf(data[j]), KeyOf(data[i]))
  BY <1>3, <1>7, <1>8, Zenon
<1>11. ASSUME more
       PROVE  /\ answer.next \in WireCursor /\ data # <<>>
              /\ DecodeCellsCursor(answer.next) = KeyOf(data[Len(data)])
              /\ \A r \in rows : \/ Before(KeyOf(r), KeyOf(data[Len(data)]))
                                  \/ \E i \in 1 .. Len(data) : data[i] = RenderCell(r)
  <2>1. Len(page) = size /\ size \in 1 .. Len(page) /\ page # <<>> /\ data # <<>>
    BY <1>3, <1>7, <1>11
  <2>2. answer.next = EncodeCellsCursor(KeyOf(page[size]))
    BY <1>5, <1>11, <2>1, Zenon
  <2>3. KeyOf(page[size]) \in Nat \X Nat
    BY <1>2, <1>6, <2>1, Zenon
  <2>4. answer.next \in WireCursor /\ DecodeCellsCursor(answer.next) = KeyOf(page[size])
    BY <2>2, <2>3 DEF WireCursor, EncodeCellsCursor, DecodeCellsCursor
  <2>5. KeyOf(data[Len(data)]) = KeyOf(page[size])
    BY <1>7, <1>8, <2>1, Zenon
  <2>6. ASSUME NEW r \in rows
        PROVE  \/ Before(KeyOf(r), KeyOf(data[Len(data)]))
               \/ \E i \in 1 .. Len(data) : data[i] = RenderCell(r)
    BY <1>3, <1>7, <1>11, <2>5, Zenon
  <2>. QED  BY <2>1, <2>4, <2>5, <2>6, Zenon
<1>12. ASSUME ~more
       PROVE  /\ answer.next = NULL
              /\ \A r \in rows : \E i \in 1 .. Len(data) : data[i] = RenderCell(r)
  BY <1>3, <1>5, <1>7, <1>12, Zenon
<1>13. more => answer.next # NULL
  BY <1>11, NullIsNoCursor, Zenon
<1>14. /\ data \in Seq(CellAnswer)
       /\ \A i \in 1 .. Len(data) : \E r \in rows : data[i] = RenderCell(r)
       /\ \A i, j \in 1 .. Len(data) : i < j => Before(KeyOf(data[j]), KeyOf(data[i]))
       /\ answer.next = NULL =>
            \A r \in rows : \E i \in 1 .. Len(data) : data[i] = RenderCell(r)
       /\ answer.next # NULL =>
            /\ answer.next \in WireCursor /\ data # <<>>
            /\ DecodeCellsCursor(answer.next) = KeyOf(data[Len(data)])
            /\ \A r \in rows : \/ Before(KeyOf(r), KeyOf(data[Len(data)]))
                                \/ \E i \in 1 .. Len(data) : data[i] = RenderCell(r)
  BY <1>7, <1>9, <1>10, <1>11, <1>12, <1>13, Zenon
<1>. QED  BY <1>14, Zenon DEF rows, answer, data

\* Where a walk is: below what it got, and nowhere as long as it got nothing.
LEMMA PositionFacts ==
  ASSUME PagesTypeOK, CursorInv
  PROVE  /\ walk.next # NULL =>
              /\ Position # NULL /\ Position = DecodeCellsCursor(walk.next)
              /\ walk.got # <<>> /\ Position = KeyOf(walk.got[Len(walk.got)])
         /\ walk.next = NULL => Position = NULL
<1>1. walk.next # NULL => DecodeCellsCursor(walk.next) \in Nat \X Nat
  <2>1. walk.next \in WireCursor \cup {NULL}
    BY Zenon DEF PagesTypeOK, WalkRecord
  <2>. QED  BY <2>1, Zenon DEF WireCursor, DecodeCellsCursor
<1>2. walk.next # NULL => DecodeCellsCursor(walk.next) # NULL
  BY <1>1, NullIsNoCursor, Zenon
<1>. QED  BY <1>2, Zenon DEF Position, CursorInv

\* The keys of what a walk got.
LEMMA GotKeys ==
  ASSUME PagesTypeOK
  PROVE  /\ walk.got \in Seq(CellAnswer) /\ Len(walk.got) \in Nat
         /\ \A i \in 1 .. Len(walk.got) : KeyOf(walk.got[i]) \in Nat \X Nat
<1>1. walk.got \in Seq(CellAnswer)
  BY Zenon DEF PagesTypeOK, WalkRecord
<1>2. ASSUME NEW c \in CellAnswer PROVE KeyOf(c) \in Nat \X Nat
  <2>1. c.out_point \in OutPoint /\ c.block_number \in Nat
    BY HeightFacts, Zenon DEF CellAnswer
  <2>2. Rank[c.out_point] \in Nat
    BY <2>1, PageConstants, Zenon
  <2>. QED  BY <2>1, <2>2 DEF KeyOf
<1>. QED  BY <1>1, <1>2

\* What a sequence holds, and where, when s and then t make it up.
Joined(both, s, t) ==
  /\ Len(both) = Len(s) + Len(t) /\ Len(s) \in Nat /\ Len(t) \in Nat
  /\ \A i \in 1 .. Len(s) : i \in 1 .. Len(both) /\ both[i] = s[i]
  /\ \A i \in 1 .. Len(t) : Len(s) + i \in 1 .. Len(both) /\ both[Len(s) + i] = t[i]
  /\ \A i \in 1 .. Len(both) :
       \/ i \in 1 .. Len(s) /\ both[i] = s[i]
       \/ i > Len(s) /\ i - Len(s) \in 1 .. Len(t) /\ both[i] = t[i - Len(s)]

\* Concatenation does.
LEMMA Appended ==
  ASSUME NEW S, NEW s \in Seq(S), NEW t \in Seq(S)
  PROVE  s \o t \in Seq(S) /\ Joined(s \o t, s, t)
<1>1. /\ s \o t \in Seq(S) /\ Len(s \o t) = Len(s) + Len(t)
      /\ Len(s) \in Nat /\ Len(t) \in Nat
  OBVIOUS
<1>2. \A i \in 1 .. Len(s) + Len(t) : (s \o t)[i] = IF i <= Len(s) THEN s[i] ELSE t[i - Len(s)]
  OBVIOUS
<1>3. ASSUME NEW i \in 1 .. Len(s)
      PROVE  i \in 1 .. Len(s \o t) /\ (s \o t)[i] = s[i]
  BY <1>1, <1>2
<1>4. ASSUME NEW i \in 1 .. Len(t)
      PROVE  Len(s) + i \in 1 .. Len(s \o t) /\ (s \o t)[Len(s) + i] = t[i]
  <2>1. PICK m \in 1 .. Len(s) + Len(t) : m = Len(s) + i /\ ~(m <= Len(s)) /\ m - Len(s) = i
    BY <1>1
  <2>2. (s \o t)[m] = t[m - Len(s)]
    BY <1>2, <2>1, Zenon
  <2>. QED  BY <1>1, <2>1, <2>2, Zenon
<1>5. ASSUME NEW i \in 1 .. Len(s \o t)
      PROVE  \/ i \in 1 .. Len(s) /\ (s \o t)[i] = s[i]
             \/ i > Len(s) /\ i - Len(s) \in 1 .. Len(t) /\ (s \o t)[i] = t[i - Len(s)]
  <2>1. i \in 1 .. Len(s) \/ (i > Len(s) /\ ~(i <= Len(s)) /\ i - Len(s) \in 1 .. Len(t))
    BY <1>1
  <2>2. i \in 1 .. Len(s) + Len(t)
    BY <1>1, Zenon
  <2>. QED  BY <1>2, <1>3, <2>1, <2>2, Zenon
<1>. QED  BY <1>1, <1>3, <1>4, <1>5, Zenon DEF Joined

\* A page that is fetched continues the walk: it goes on below the cursor, and
\* what it passes of the rows that match it has got.
LEMMA FetchStep ==
  ASSUME PagesInv, walk.at = "paging", NEW limit \in Limits, DefaultPageSize > 0,
         FetchPage(List(Params(limit)))
  PROVE  PagesTypeOK' /\ CursorInv' /\ PagesExact'
<1>. DEFINE answer == List(Params(limit))
            data == answer.data
            rows == Matching(Asked, walk.is_live, Position)
            G == Len(walk.got)
            D == Len(data)
<1>1. /\ PagesTypeOK /\ TablesTypeOK /\ TablesInv /\ CursorInv /\ PagesExact
      /\ walk \in WalkRecord /\ walk.filter \in Filters
      /\ walk.steady \subseteq Wanted(walk.filter, walk.is_live, cells)
  BY Zenon DEF PagesInv, PagesTypeOK, CursorInv
<1>2. PICK size \in Nat :
        size > 0 /\ answer = BuildPage(Select(Asked, walk.is_live, Position, size + 1), size)
  <2>1. answer.status = 200
    BY Zenon DEF FetchPage
  <2>. QED  BY <1>1, <2>1, WalkAnswer, Zenon
<1>3. Asked \in SUBSET DOMAIN cells
  BY Zenon DEF Asked
<1>. HIDE DEF answer
<1>4. /\ data \in Seq(CellAnswer)
      /\ \A i \in 1 .. D : \E r \in rows : data[i] = RenderCell(r)
      /\ \A i, j \in 1 .. D : i < j => Before(KeyOf(data[j]), KeyOf(data[i]))
      /\ answer.next = NULL =>
           \A r \in rows : \E i \in 1 .. D : data[i] = RenderCell(r)
      /\ answer.next # NULL =>
           /\ answer.next \in WireCursor /\ data # <<>>
           /\ DecodeCellsCursor(answer.next) = KeyOf(data[D])
           /\ \A r \in rows : \/ Before(KeyOf(r), KeyOf(data[D]))
                               \/ \E i \in 1 .. D : data[i] = RenderCell(r)
  <2>. DEFINE built == BuildPage(Select(Asked, walk.is_live, Position, size + 1), size)
  <2>1. /\ built.data \in Seq(CellAnswer)
        /\ \A i \in 1 .. Len(built.data) : \E r \in rows : built.data[i] = RenderCell(r)
        /\ \A i, j \in 1 .. Len(built.data) :
             i < j => Before(KeyOf(built.data[j]), KeyOf(built.data[i]))
        /\ built.next = NULL =>
             \A r \in rows : \E i \in 1 .. Len(built.data) : built.data[i] = RenderCell(r)
        /\ built.next # NULL =>
             /\ built.next \in WireCursor /\ built.data # <<>>
             /\ DecodeCellsCursor(built.next) = KeyOf(built.data[Len(built.data)])
             /\ \A r \in rows : \/ Before(KeyOf(r), KeyOf(built.data[Len(built.data)]))
                                 \/ \E i \in 1 .. Len(built.data) : built.data[i] = RenderCell(r)
    BY <1>1, <1>2, <1>3, PageFacts, Zenon
  <2>2. answer = built
    BY <1>2, Zenon
  <2>. HIDE DEF built
  <2>. QED  BY <2>1, <2>2, Zenon
<1>5. /\ walk' = [walk EXCEPT !.got = @ \o data, !.next = answer.next,
                              !.at = IF answer.next = NULL THEN "done" ELSE "paging"]
      /\ UNCHANGED <<blocks, cells>>
  BY Zenon DEF FetchPage, answer
<1>6. \A r \in rows : \E o \in Asked : /\ cells[o].block_number \in DOMAIN blocks /\ r = Row(o)
                                       /\ After(r, Position)
  BY Zenon DEF Matching
<1>7. \A o \in Asked : /\ cells[o].block_number \in DOMAIN blocks
                       /\ LivenessHolds(Row(o), walk.is_live) /\ After(Row(o), Position)
                       => Row(o) \in rows
  BY Zenon DEF Matching
<1>. HIDE DEF data, rows
<1>8. /\ walk'.at = (IF answer.next = NULL THEN "done" ELSE "paging")
      /\ walk'.filter = walk.filter /\ walk'.is_live = walk.is_live /\ walk'.steady = walk.steady
      /\ walk'.got = walk.got \o data /\ walk'.next = answer.next
  BY <1>1, <1>5 DEF WalkRecord
<1>9. /\ walk'.got \in Seq(CellAnswer) /\ Len(walk'.got) = G + D
      /\ G \in Nat /\ D \in Nat
      /\ \A i \in 1 .. G : i \in 1 .. Len(walk'.got) /\ walk'.got[i] = walk.got[i]
      /\ \A i \in 1 .. D : G + i \in 1 .. Len(walk'.got) /\ walk'.got[G + i] = data[i]
      /\ \A i \in 1 .. Len(walk'.got) :
           \/ i \in 1 .. G /\ walk'.got[i] = walk.got[i]
           \/ i > G /\ i - G \in 1 .. D /\ walk'.got[i] = data[i - G]
  <2>1. walk.got \in Seq(CellAnswer) /\ data \in Seq(CellAnswer)
    BY <1>1, <1>4, GotKeys, Zenon
  <2>2. walk'.got \in Seq(CellAnswer) /\ Joined(walk'.got, walk.got, data)
    BY <1>8, <2>1, Appended, Zenon
  <2>. QED  BY <2>2, Zenon DEF Joined
<1>10. PagesTypeOK'
  <2>1. walk' \in WalkRecord
    <3>1. answer.next \in WireCursor \cup {NULL}
      BY <1>4, Zenon
    <3>. QED  BY <1>1, <1>5, <1>8, <1>9, <3>1, Zenon DEF WalkRecord
  <2>2. TablesTypeOK'
    BY <1>1, <1>5, Zenon DEF TablesTypeOK
  <2>. QED  BY <2>1, <2>2, Zenon DEF PagesTypeOK
<1>11. CursorInv'
  <2>1. walk'.at # "none" /\ (walk'.at # "done" => walk'.next # NULL)
    BY <1>8, Zenon
  <2>2. ASSUME walk'.next # NULL
        PROVE  walk'.got # <<>> /\ DecodeCellsCursor(walk'.next) = KeyOf(walk'.got[Len(walk'.got)])
    <3>1. data # <<>> /\ DecodeCellsCursor(answer.next) = KeyOf(data[D])
      BY <1>4, <1>8, <2>2, Zenon
    <3>2. D \in 1 .. D
      <4>1. \A q \in Seq(CellAnswer) : q # <<>> => Len(q) \in 1 .. Len(q)
        OBVIOUS
      <4>. QED  BY <1>4, <3>1, <4>1, Zenon
    <3>3. G + D \in 1 .. Len(walk'.got) /\ walk'.got[G + D] = data[D]
      BY <1>9, <3>2, Zenon
    <3>4. walk'.got # <<>>
      <4>1. 1 .. Len(<<>>) = {}
        OBVIOUS
      <4>. QED  BY <3>3, <4>1, Zenon
    <3>. QED  BY <1>8, <1>9, <3>1, <3>3, <3>4, Zenon
  <2>3. walk'.filter \in Filters /\ walk'.steady \subseteq Wanted(walk'.filter, walk'.is_live, cells')
    BY <1>1, <1>5, <1>8, Zenon
  <2>. QED  BY <2>1, <2>2, <2>3, Zenon DEF CursorInv
<1>12. \A i \in 1 .. G : KeyOf(walk.got[i]) \in Nat \X Nat
  BY <1>1, GotKeys, Zenon
<1>13. ASSUME NEW i \in 1 .. Len(walk'.got), NEW j \in 1 .. Len(walk'.got), i < j
       PROVE  Before(KeyOf(walk'.got[j]), KeyOf(walk'.got[i]))
  <2>0. /\ \/ i \in 1 .. G /\ walk'.got[i] = walk.got[i]
           \/ i > G /\ i - G \in 1 .. D /\ walk'.got[i] = data[i - G]
        /\ \/ j \in 1 .. G /\ walk'.got[j] = walk.got[j]
           \/ j > G /\ j - G \in 1 .. D /\ walk'.got[j] = data[j - G]
    BY <1>9, Zenon
  <2>1. CASE i \in 1 .. G /\ walk'.got[i] = walk.got[i] /\ j \in 1 .. G /\ walk'.got[j] = walk.got[j]
    BY <1>1, <1>13, <2>1, Zenon DEF PagesExact
  <2>2. CASE i > G /\ i - G \in 1 .. D /\ walk'.got[i] = data[i - G]
    <3>1. j > G /\ i - G < j - G
      <4>1. G \in Nat /\ i \in Int /\ j \in Int
        BY <1>9
      <4>. QED  BY <1>13, <2>2, <4>1
    <3>2. j - G \in 1 .. D /\ walk'.got[j] = data[j - G]
      <4>1. ~(j \in 1 .. G)
        BY <3>1, <1>9
      <4>. QED  BY <2>0, <4>1, Zenon
    <3>. QED  BY <1>4, <2>2, <3>1, <3>2, Zenon
  <2>3. CASE /\ i \in 1 .. G /\ walk'.got[i] = walk.got[i]
             /\ j > G /\ j - G \in 1 .. D /\ walk'.got[j] = data[j - G]
    <3>1. /\ i \in 1 .. G /\ G \in 1 .. G /\ j - G \in 1 .. D
          /\ walk'.got[i] = walk.got[i] /\ walk'.got[j] = data[j - G]
      <4>1. \A g \in Nat : i \in 1 .. g => g \in 1 .. g
        OBVIOUS
      <4>. QED  BY <1>9, <2>3, <4>1, Zenon
    <3>2. walk.got # <<>>
      BY <3>1
    <3>3. walk.next # NULL
      <4>1. walk.at # "done"
        OBVIOUS
      <4>. QED  BY <1>1, <3>2, <4>1, Zenon DEF CursorInv
    <3>4. Position # NULL /\ Position = KeyOf(walk.got[G])
      BY <1>1, <3>3, PositionFacts, Zenon
    <3>5. PICK r \in rows : data[j - G] = RenderCell(r)
      BY <1>4, <3>1, Zenon
    <3>6. PICK o \in Asked : /\ cells[o].block_number \in DOMAIN blocks /\ r = Row(o)
                             /\ After(r, Position)
      BY <1>6, Zenon
    <3>7. KeyOf(data[j - G]) = KeyOf(r) /\ KeyOf(r) \in Nat \X Nat
      BY <1>1, <1>3, <3>5, <3>6, RowFacts
    <3>8. Before(KeyOf(data[j - G]), KeyOf(walk.got[G]))
      BY <3>4, <3>6, <3>7, Zenon DEF After
    <3>9. CASE i = G
      BY <3>1, <3>8, <3>9, Zenon
    <3>10. CASE i # G
      <4>1. i < G
        <5>1. G \in Nat /\ i \in 1 .. G
          BY <1>9, <3>1, Zenon
        <5>. QED  BY <3>10, <5>1
      <4>2. Before(KeyOf(walk.got[G]), KeyOf(walk.got[i]))
        BY <1>1, <3>1, <4>1, Zenon DEF PagesExact
      <4>3. KeyOf(walk.got[G]) \in Nat \X Nat /\ KeyOf(walk.got[i]) \in Nat \X Nat
        BY <1>12, <3>1, Zenon
      <4>4. Before(KeyOf(data[j - G]), KeyOf(walk.got[i]))
        <5>1. \A a, b, c \in Nat \X Nat : Before(a, b) /\ Before(b, c) => Before(a, c)
          BY KeysOrdered, Zenon
        <5>. QED  BY <3>7, <3>8, <4>2, <4>3, <5>1, Zenon
      <4>. QED  BY <3>1, <4>4, Zenon
    <3>. QED  BY <3>9, <3>10, Zenon
  <2>. QED  BY <2>0, <2>1, <2>2, <2>3, Zenon
<1>14. ASSUME NEW i \in 1 .. Len(walk'.got)
       PROVE  walk'.got[i].out_point \in BlockOutputs(walk'.got[i].block_hash)
  <2>1. CASE i \in 1 .. G /\ walk'.got[i] = walk.got[i]
    BY <1>1, <2>1, Zenon DEF PagesExact
  <2>2. CASE i - G \in 1 .. D /\ walk'.got[i] = data[i - G]
    <3>1. i - G \in 1 .. D /\ walk'.got[i] = data[i - G]
      BY <2>2
    <3>2. PICK r \in rows : data[i - G] = RenderCell(r)
      BY <1>4, <3>1, Zenon
    <3>3. PICK o \in Asked : cells[o].block_number \in DOMAIN blocks /\ r = Row(o)
      BY <1>6, Zenon
    <3>4. /\ data[i - G].out_point = o /\ data[i - G].block_hash = blocks[cells[o].block_number]
      BY <1>1, <1>3, <3>2, <3>3, RowFacts
    <3>5. o \in BlockOutputs(blocks[cells[o].block_number])
      BY <1>1, <1>3, Zenon DEF TablesInv
    <3>. QED  BY <3>1, <3>4, <3>5, Zenon
  <2>. QED  BY <1>9, <2>1, <2>2, Zenon
<1>15. ASSUME NEW row \in walk'.steady, Passed(row)' PROVE row \in Got'
  <2>1. PICK o \in DOMAIN cells :
          /\ row = <<o, cells[o].block_number>>
          /\ ScriptHash(walk.filter[1], o) = walk.filter[2]
          /\ walk.is_live = NULL \/ (cells[o].consumed_by = NULL) = walk.is_live
    <3>1. row \in Wanted(walk.filter, walk.is_live, cells)
      BY <1>1, <1>8, Zenon
    <3>. QED  BY <3>1, Zenon DEF Wanted
  <2>2. o \in Asked /\ row[1] = o /\ row[2] = cells[o].block_number
    BY <2>1, Zenon DEF Asked
  <2>3. cells[o].block_number \in DOMAIN blocks
    BY <1>1, Zenon DEF TablesInv
  <2>4. /\ KeyOf(Row(o)) = <<row[2], Rank[row[1]]>> /\ KeyOf(Row(o)) \in Nat \X Nat
        /\ RenderCell(Row(o)).out_point = o /\ RenderCell(Row(o)).block_number = row[2]
    BY <1>1, <2>2, <2>3, RowFacts, Zenon
  <2>5. LivenessHolds(Row(o), walk.is_live)
    <3>1. Row(o).consumed_by = cells[o].consumed_by
      BY Zenon DEF Row
    <3>. QED  BY <2>1, <3>1, Zenon DEF LivenessHolds
  <2>6. ASSUME NEW i \in 1 .. D, data[i] = RenderCell(Row(o)) PROVE row \in Got'
    <3>1. G + i \in 1 .. Len(walk'.got) /\ walk'.got[G + i] = data[i]
      BY <1>9, Zenon
    <3>2. row = <<walk'.got[G + i].out_point, walk'.got[G + i].block_number>>
      BY <2>1, <2>2, <2>4, <2>6, <3>1, Zenon
    <3>. QED  BY <3>1, <3>2, Zenon DEF Got
  <2>7. CASE After(Row(o), Position)
    <3>1. Row(o) \in rows
      BY <1>7, <2>2, <2>3, <2>5, <2>7, Zenon
    <3>2. CASE answer.next = NULL
      BY <1>4, <2>6, <3>1, <3>2, Zenon
    <3>3. CASE answer.next # NULL
      <4>1. walk'.at # "done" /\ DecodeCellsCursor(walk'.next) = KeyOf(data[D])
        BY <1>4, <1>8, <3>3
      <4>2. ~Before(KeyOf(Row(o)), KeyOf(data[D]))
        BY <1>15, <2>4, <4>1, Zenon DEF Passed
      <4>. QED  BY <1>4, <2>6, <3>1, <3>3, <4>2, Zenon
    <3>. QED  BY <3>2, <3>3, Zenon
  <2>8. CASE ~After(Row(o), Position)
    <3>1. Position # NULL /\ ~Before(KeyOf(Row(o)), Position)
      BY <2>8, Zenon DEF After
    <3>2. walk.next # NULL /\ Position = DecodeCellsCursor(walk.next)
      BY <1>1, <3>1, PositionFacts, Zenon
    <3>3. Passed(row)
      BY <2>4, <3>1, <3>2, Zenon DEF Passed
    <3>4. row \in Got
      BY <1>1, <1>8, <3>3, Zenon DEF PagesExact
    <3>5. PICK i \in 1 .. G : row = <<walk.got[i].out_point, walk.got[i].block_number>>
      BY <3>4, Zenon DEF Got
    <3>6. i \in 1 .. Len(walk'.got) /\ walk'.got[i] = walk.got[i]
      BY <1>9, Zenon
    <3>. QED  BY <3>5, <3>6, Zenon DEF Got
  <2>. QED  BY <2>7, <2>8, Zenon
<1>16. PagesExact'
  BY <1>13, <1>14, <1>15, Zenon DEF PagesExact
<1>. QED  BY <1>10, <1>11, <1>16

\* Index and rollback leave what a walk got and where it is, and only take rows
\* from what was steady.
LEMMA WalkKept ==
  ASSUME PagesInv, TablesTypeOK', walk' = StillWanted
  PROVE  PagesTypeOK' /\ CursorInv' /\ PagesExact'
<1>1. walk \in WalkRecord /\ CursorInv /\ PagesExact
  BY Zenon DEF PagesInv, PagesTypeOK
<1>2. /\ walk'.at = walk.at /\ walk'.filter = walk.filter /\ walk'.is_live = walk.is_live
      /\ walk'.next = walk.next /\ walk'.got = walk.got
      /\ walk'.steady \subseteq walk.steady
      /\ walk.at # "none" =>
           walk'.steady \subseteq Wanted(walk.filter, walk.is_live, cells')
      /\ walk' \in WalkRecord
  <2>1. CASE walk.at = "none"
    BY <1>1, <2>1, Zenon DEF StillWanted
  <2>2. CASE walk.at # "none"
    <3>. DEFINE W == Wanted(walk.filter, walk.is_live, cells')
    <3>1. walk' = [walk EXCEPT !.steady = @ \cap W]
      BY <2>2, Zenon DEF StillWanted
    <3>. HIDE DEF W
    <3>2. /\ walk'.at = walk.at /\ walk'.filter = walk.filter /\ walk'.is_live = walk.is_live
          /\ walk'.next = walk.next /\ walk'.got = walk.got
          /\ walk'.steady = walk.steady \cap W /\ walk' \in WalkRecord
      BY <1>1, <3>1, Zenon DEF WalkRecord
    <3>. QED  BY <3>2, Zenon DEF W
  <2>. QED  BY <2>1, <2>2, Zenon
<1>3. PagesTypeOK'
  BY <1>2, Zenon DEF PagesTypeOK
<1>4. CursorInv'
  BY <1>1, <1>2, Zenon DEF CursorInv
<1>5. PagesExact'
  <2>1. \A row : Passed(row)' <=> Passed(row)
    BY <1>2, Zenon DEF Passed
  <2>2. Got' = Got
    BY <1>2, Zenon DEF Got
  <2>. QED  BY <1>1, <1>2, <2>1, <2>2, Zenon DEF PagesExact
<1>. QED  BY <1>3, <1>4, <1>5, Zenon

\* A new walk has got nothing, and every row that matches is steady.
LEMMA WalkBegun ==
  ASSUME PagesInv, NEW f \in Filters, NEW is_live \in {TRUE, FALSE, NULL},
         BeginWalk(f, is_live)
  PROVE  PagesTypeOK' /\ CursorInv' /\ PagesExact'
<1>. DEFINE W == Wanted(f, is_live, cells)
<1>1. TablesTypeOK /\ blocks' = blocks /\ cells' = cells
  BY Zenon DEF PagesInv, PagesTypeOK, BeginWalk
<1>2. W \subseteq OutPoint \X Height
  <2>1. \A o \in DOMAIN cells : o \in OutPoint /\ cells[o] \in CellRow
    BY <1>1, Zenon DEF TablesTypeOK
  <2>2. \A r \in CellRow : r.block_number \in Height
    BY Zenon DEF CellRow
  <2>. QED  BY <2>1, <2>2 DEF Wanted
<1>3. walk' = [NoWalk EXCEPT !.at = "paging", !.filter = f, !.is_live = is_live, !.steady = W]
  BY Zenon DEF BeginWalk
<1>. HIDE DEF W
<1>4. /\ walk'.at = "paging" /\ walk'.filter = f /\ walk'.is_live = is_live
      /\ walk'.next = NULL /\ walk'.got = <<>> /\ walk'.steady = W /\ walk' \in WalkRecord
  <2>1. walk' = [at |-> "paging", filter |-> f, is_live |-> is_live, next |-> NULL,
                 got |-> <<>>, steady |-> W]
    BY <1>3, Zenon DEF NoWalk
  <2>2. <<>> \in Seq(CellAnswer)
    OBVIOUS
  <2>. QED  BY <1>2, <2>1, <2>2, Zenon DEF WalkRecord
<1>5. PagesTypeOK'
  BY <1>1, <1>4, Zenon DEF PagesTypeOK, TablesTypeOK
<1>6. CursorInv'
  <2>1. walk'.steady \subseteq Wanted(walk'.filter, walk'.is_live, cells')
    BY <1>1, <1>4, Zenon DEF W
  <2>. QED  BY <1>4, <2>1, Zenon DEF CursorInv
<1>7. PagesExact'
  <2>1. 1 .. Len(walk'.got) = {}
    BY <1>4
  <2>2. \A row : ~Passed(row)'
    BY <1>4, Zenon DEF Passed
  <2>. QED  BY <2>1, <2>2, Zenon DEF PagesExact
<1>. QED  BY <1>5, <1>6, <1>7, Zenon

\* The invariant of the whole component.
LEMMA PagesInvStart == Init => PagesInv
<1>. SUFFICES ASSUME Init PROVE PagesInv
  OBVIOUS
<1>1. TablesTypeOK /\ TablesInv
  BY TablesStart
<1>2. /\ walk.at = "none" /\ walk.next = NULL /\ walk.steady = {} /\ walk.got = <<>>
      /\ walk \in WalkRecord
  BY DEF Init, NoWalk, WalkRecord
<1>3. PagesExact
  <2>1. 1 .. Len(walk.got) = {}
    BY <1>2
  <2>. QED  BY <1>2, <2>1, Zenon DEF PagesExact
<1>. QED  BY <1>1, <1>2, <1>3, Zenon DEF PagesInv, PagesTypeOK, CursorInv

LEMMA PagesInvStep ==
  ASSUME DefaultPageSize > 0
  PROVE  PagesInv /\ [Next]_vars => PagesInv'
<1>. SUFFICES ASSUME PagesInv, [Next]_vars PROVE PagesInv'
  OBVIOUS
<1>1. TablesTypeOK' /\ TablesInv'
  <2>1. TablesTypeOK /\ TablesInv
    BY Zenon DEF PagesInv, PagesTypeOK
  <2>. QED  BY <2>1, TablesStep, Zenon
<1>. SUFFICES PagesTypeOK' /\ CursorInv' /\ PagesExact'
  BY <1>1, Zenon DEF PagesInv
<1>2. ASSUME NEW b \in Block, IndexBlock(b) PROVE PagesTypeOK' /\ CursorInv' /\ PagesExact'
  <2>1. walk' = StillWanted
    BY <1>2, Zenon DEF IndexBlock
  <2>. QED  BY <1>1, <2>1, WalkKept, Zenon
<1>3. ASSUME NEW h \in Height, RollbackAbove(h) PROVE PagesTypeOK' /\ CursorInv' /\ PagesExact'
  <2>1. walk' = StillWanted
    BY <1>3, Zenon DEF RollbackAbove
  <2>. QED  BY <1>1, <2>1, WalkKept, Zenon
<1>4. ASSUME NEW f \in Filters, NEW is_live \in {TRUE, FALSE, NULL}, BeginWalk(f, is_live)
      PROVE  PagesTypeOK' /\ CursorInv' /\ PagesExact'
  BY <1>4, WalkBegun, Zenon
<1>5. ASSUME NEW limit \in Limits, FetchRest(limit)
      PROVE  PagesTypeOK' /\ CursorInv' /\ PagesExact'
  BY <1>5, FetchStep, Zenon DEF FetchRest
<1>6. ASSUME NEW limit \in Limits, FetchGraphql(limit)
      PROVE  PagesTypeOK' /\ CursorInv' /\ PagesExact'
  <2>1. GraphqlCells(Params(limit)) = List(Params(limit))
    <3>1. Params(limit).limit = limit
      BY DEF Params
    <3>. QED  BY <3>1, SameAnswer, Zenon
  <2>2. FetchRest(limit)
    BY <1>6, <2>1, Zenon DEF FetchRest, FetchGraphql
  <2>. QED  BY <1>5, <2>2, Zenon
<1>7. ASSUME UNCHANGED vars PROVE PagesTypeOK' /\ CursorInv' /\ PagesExact'
  <2>1. blocks' = blocks /\ cells' = cells /\ walk' = walk
    BY <1>7, Zenon DEF vars
  <2>2. PagesTypeOK /\ CursorInv /\ PagesExact
    BY Zenon DEF PagesInv
  <2>3. PagesTypeOK' /\ CursorInv'
    BY <2>1, <2>2, Zenon DEF PagesTypeOK, TablesTypeOK, CursorInv
  <2>4. PagesExact'
    BY <2>1, <2>2, Zenon DEF PagesExact, Passed, Got
  <2>. QED  BY <2>3, <2>4, Zenon
<1>. QED  BY <1>2, <1>3, <1>4, <1>5, <1>6, <1>7, Zenon DEF Next

\* PagesExact, for every chain, filter, liveness, limit and interleaving of the
\* indexer's commits with the pages of a walk.  Nothing in the configuration
\* keeps the default page size from being 0; a request without a limit then gets
\* an empty page and no cursor, so the theorem needs a positive default.
THEOREM PagesAreExact ==
  ASSUME DefaultPageSize > 0
  PROVE  Spec => []PagesExact
<1>1. PagesInv => PagesExact
  BY Zenon DEF PagesInv
<1>2. PagesInv /\ [Next]_vars => PagesInv'
  BY PagesInvStep, Zenon
<1>. QED  BY <1>1, <1>2, PagesInvStart, PTL DEF Spec
=============================================================================
