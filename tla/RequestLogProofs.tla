--------------------------- MODULE RequestLogProofs --------------------------
(***************************************************************************)
(* What the request log holds, for any number of processes, entries and    *)
(* failures: every logged request is in one place and in order, the list   *)
(* stays bounded, and the dashboard counts the requests that were served.  *)
(***************************************************************************)
EXTENDS RequestLog, FiniteSetTheorems, TLAPS

TaskStates == {"none", "push", "trim", "untrimmed", "end"}

-----------------------------------------------------------------------------
(* What the commands do to the list.                                       *)

\* What RPOP leaves is a list and no longer than before.
LEMMA UnpoppedShorter ==
  ASSUME NEW l \in Seq(Entries)
  PROVE  Unpopped(l) \in Seq(Entries) /\ Len(Unpopped(l)) <= Len(l)
<1>1. PopCount(l) \in 0 .. Len(l)
  BY LogConstants DEF PopCount
<1>2. Len(l) - PopCount(l) \in 0 .. Len(l)
  BY <1>1
<1> QED BY <1>2 DEF Unpopped

\* What LTRIM leaves is a list of at most MAX_BUFFERED_LOGS entries.
LEMMA KeptShort ==
  ASSUME NEW l \in Seq(Entries)
  PROVE  Kept(l) \in Seq(Entries) /\ Len(Kept(l)) <= MaxBuffered
<1> DEFINE n == IF Len(l) > MaxBuffered THEN MaxBuffered ELSE Len(l)
<1>1. n \in 0 .. Len(l) /\ n <= MaxBuffered
  BY LogConstants
<1> HIDE DEF n
<1>2. SubSeq(l, 1, n) \in Seq(Entries) /\ Len(SubSeq(l, 1, n)) = n
  BY <1>1
<1> QED BY <1>1, <1>2 DEF Kept, n

\* The elements of a sequence.
LEMMA RangeIs ==
  ASSUME NEW f, NEW S, \A i \in DOMAIN f : f[i] \in S,
         \A x \in S : \E i \in DOMAIN f : f[i] = x
  PROVE  Range(f) = S
BY Zenon DEF Range

\* There is nothing in an empty list, and nothing to pop.
LEMMA NothingToPop == Range(<<>>) = {} /\ Unpopped(<<>>) = <<>>
BY LogConstants DEF Range, Unpopped, PopCount

\* What LTRIM keeps is a prefix.
LEMMA KeptIsPrefix ==
  ASSUME NEW l \in Seq(Entries)
  PROVE  Len(Kept(l)) \in 0 .. Len(l) /\ Kept(l) = SubSeq(l, 1, Len(Kept(l)))
BY LogConstants DEF Kept

\* A prefix of a list.
LEMMA Prefix ==
  ASSUME NEW l \in Seq(Entries), NEW n \in 0 .. Len(l)
  PROVE  LET s == SubSeq(l, 1, n)
         IN  /\ s \in Seq(Entries) /\ Len(s) = n /\ DOMAIN s = 1 .. n
             /\ \A i \in 1 .. n : s[i] = l[i]
             /\ Range(s) = {l[i] : i \in 1 .. n}
<1>. DEFINE s == SubSeq(l, 1, n)
<1>1. s \in Seq(Entries) /\ Len(s) = n /\ DOMAIN s = 1 .. n /\ \A i \in 1 .. n : s[i] = l[i]
  OBVIOUS
<1>2. Range(s) = {l[i] : i \in 1 .. n}
  BY <1>1, Zenon DEF Range
<1>. QED  BY <1>1, <1>2, Zenon

\* LPUSH puts the entry at the head.
LEMMA Pushed ==
  ASSUME NEW l \in Seq(Entries), NEW e \in Entries
  PROVE  LET s == <<e>> \o l
         IN  /\ s \in Seq(Entries) /\ Len(s) = Len(l) + 1 /\ DOMAIN s = 1 .. Len(l) + 1
             /\ s[1] = e /\ \A i \in 1 .. Len(l) : s[i + 1] = l[i]
             /\ Range(s) = Range(l) \cup {e}
<1>. DEFINE s == <<e>> \o l
<1>1. /\ s \in Seq(Entries) /\ Len(s) = Len(l) + 1 /\ DOMAIN s = 1 .. Len(l) + 1
      /\ s[1] = e /\ \A i \in 1 .. Len(l) : s[i + 1] = l[i]
  OBVIOUS
<1>2. \A i \in 2 .. Len(l) + 1 : i - 1 \in 1 .. Len(l) /\ s[i] = l[i - 1]
  BY <1>1
<1>3. 1 .. Len(l) + 1 = {1} \cup 2 .. Len(l) + 1 /\ DOMAIN l = 1 .. Len(l)
  OBVIOUS
<1>. HIDE DEF s
<1>4. \A i \in DOMAIN s : s[i] = e \/ \E k \in DOMAIN l : s[i] = l[k]
  BY <1>1, <1>2, <1>3, Zenon
<1>5. \A i \in 1 .. Len(l) : i + 1 \in DOMAIN s
  BY <1>1
<1>6. 1 \in DOMAIN s
  BY <1>1
<1>7. Range(l) \cup {e} \subseteq Range(s)
  BY <1>1, <1>3, <1>5, <1>6, Zenon DEF Range
<1>8. Range(s) \subseteq Range(l) \cup {e}
  BY <1>4, Zenon DEF Range
<1>. QED  BY <1>1, <1>7, <1>8, Zenon DEF s

\* A row or a push at the end.
LEMMA Appended ==
  ASSUME NEW S, NEW l \in Seq(S), NEW e \in S
  PROVE  LET s == Append(l, e)
         IN  /\ s \in Seq(S) /\ Len(s) = Len(l) + 1 /\ DOMAIN s = 1 .. Len(l) + 1
             /\ s[Len(l) + 1] = e /\ \A i \in 1 .. Len(l) : s[i] = l[i]
             /\ 1 .. Len(l) + 1 = (1 .. Len(l)) \cup {Len(l) + 1}
             /\ Range(s) = Range(l) \cup {e}
<1>. DEFINE s == Append(l, e)
<1>1. /\ s \in Seq(S) /\ Len(s) = Len(l) + 1 /\ DOMAIN s = 1 .. Len(l) + 1
      /\ s[Len(l) + 1] = e /\ \A i \in 1 .. Len(l) : s[i] = l[i]
  OBVIOUS
<1>2. 1 .. Len(l) + 1 = (1 .. Len(l)) \cup {Len(l) + 1} /\ DOMAIN l = 1 .. Len(l)
  OBVIOUS
<1>. HIDE DEF s
<1>3. Range(s) = Range(l) \cup {e}
  BY <1>1, <1>2 DEF Range
<1>. QED  BY <1>1, <1>2, <1>3, Zenon DEF s

\* RPOP takes the tail of the list, the last one first.
LEMMA PopTakesTheTail ==
  ASSUME NEW l \in Seq(Entries)
  PROVE  LET n == Len(l) - PopCount(l)
             s == Popped(l)
         IN  /\ n \in 0 .. Len(l) /\ Unpopped(l) = SubSeq(l, 1, n)
             /\ PopCount(l) \in Nat /\ PopCount(l) <= BatchSize
             /\ s \in Seq(Entries) /\ Len(s) = PopCount(l) /\ DOMAIN s = 1 .. PopCount(l)
             /\ \A k \in 1 .. PopCount(l) : Len(l) - k + 1 \in (n + 1) .. Len(l)
                                            /\ s[k] = l[Len(l) - k + 1]
             /\ Range(s) = {l[i] : i \in (n + 1) .. Len(l)}
             /\ l # <<>> => s # <<>>
<1>. DEFINE n == Len(l) - PopCount(l)
            s == Popped(l)
<1>1. PopCount(l) \in 0 .. Len(l) /\ PopCount(l) <= BatchSize /\ (l # <<>> => PopCount(l) > 0)
  BY LogConstants DEF PopCount
<1>2. n \in 0 .. Len(l) /\ Unpopped(l) = SubSeq(l, 1, n)
  BY <1>1 DEF Unpopped
<1>3. \A k \in 1 .. PopCount(l) : Len(l) - k + 1 \in (n + 1) .. Len(l) /\ Len(l) - k + 1 \in DOMAIN l
  BY <1>1
<1>4. s = [k \in 1 .. PopCount(l) |-> l[Len(l) - k + 1]]
  BY DEF Popped
<1>5. \A k \in 1 .. PopCount(l) : l[Len(l) - k + 1] \in Entries
  BY <1>3
<1>6. s \in Seq(Entries) /\ Len(s) = PopCount(l) /\ DOMAIN s = 1 .. PopCount(l)
  BY <1>1, <1>4, <1>5
<1>7. \A k \in 1 .. PopCount(l) : s[k] = l[Len(l) - k + 1]
  BY <1>4
<1>8. \A i \in (n + 1) .. Len(l) : /\ Len(l) - i + 1 \in 1 .. PopCount(l)
                                   /\ i = Len(l) - (Len(l) - i + 1) + 1
  BY <1>1
<1>. HIDE DEF s, n
<1>9. \A i \in (n + 1) .. Len(l) : s[Len(l) - i + 1] = l[i]
  BY <1>7, <1>8
<1>10. Range(s) = {l[i] : i \in (n + 1) .. Len(l)}
  <2>1. \A k \in DOMAIN s : s[k] \in {l[i] : i \in (n + 1) .. Len(l)}
    BY <1>3, <1>6, <1>7, Zenon
  <2>2. \A i \in (n + 1) .. Len(l) : \E k \in DOMAIN s : s[k] = l[i]
    BY <1>6, <1>8, <1>9
  <2>3. \A x \in {l[i] : i \in (n + 1) .. Len(l)} : \E k \in DOMAIN s : s[k] = x
    BY <2>2, Zenon
  <2>. QED  BY <2>1, <2>3, RangeIs, Zenon
<1>11. l # <<>> => s # <<>>
  BY <1>1, <1>6
<1>. QED  BY <1>1, <1>2, <1>3, <1>6, <1>7, <1>10, <1>11 DEF s, n

\* The rest of a batch after its head.
LEMMA Rest ==
  ASSUME NEW l \in Seq(Entries), l # <<>>
  PROVE  LET s == Tail(l)
         IN  /\ s \in Seq(Entries) /\ Len(s) = Len(l) - 1 /\ DOMAIN s = 1 .. Len(l) - 1
             /\ Head(l) = l[1] /\ 1 \in DOMAIN l /\ Head(l) \in Entries
             /\ \A i \in 1 .. Len(l) - 1 : i + 1 \in DOMAIN l /\ s[i] = l[i + 1]
             /\ Range(l) = Range(s) \cup {Head(l)}
<1>. DEFINE s == Tail(l)
<1>1. /\ s \in Seq(Entries) /\ Len(s) = Len(l) - 1 /\ DOMAIN s = 1 .. Len(l) - 1
      /\ Head(l) = l[1] /\ 1 \in DOMAIN l /\ Head(l) \in Entries
      /\ \A i \in 1 .. Len(l) - 1 : i + 1 \in DOMAIN l /\ s[i] = l[i + 1]
  OBVIOUS
<1>2. \A i \in DOMAIN l : i = 1 \/ (i - 1 \in 1 .. Len(l) - 1 /\ l[i] = s[i - 1])
  BY <1>1
<1>. HIDE DEF s
<1>3. Range(l) = Range(s) \cup {Head(l)}
  <2>1. \A i \in DOMAIN l : l[i] = Head(l) \/ \E k \in DOMAIN s : l[i] = s[k]
    BY <1>1, <1>2, Zenon
  <2>2. \A k \in DOMAIN s : \E i \in DOMAIN l : l[i] = s[k]
    BY <1>1
  <2>3. \E i \in DOMAIN l : l[i] = Head(l)
    BY <1>1, Zenon
  <2>4. \A x \in Range(s) \cup {Head(l)} : \E i \in DOMAIN l : l[i] = x
    BY <2>2, <2>3, Zenon DEF Range
  <2>5. \A i \in DOMAIN l : l[i] \in Range(s) \cup {Head(l)}
    BY <2>1, Zenon DEF Range
  <2>. QED  BY <2>4, <2>5, RangeIs, Zenon
<1>. QED  BY <1>1, <1>3, Zenon DEF s

-----------------------------------------------------------------------------
(* The workers and the types.                                              *)

WorkerStates == [at : {"select", "pop", "insert", "stopped", "down"},
                 hand : Seq(Entries), left : 0 .. MaxBatches, full : BOOLEAN]

GoodWorkers == {w \in WorkerStates : WorkerOK(w)}

\* A process that is down inserts nothing.
LEMMA DownIsIdle == Down.at # "insert"
BY Zenon DEF Down, Worker

\* A worker with nothing in hand.
LEMMA EmptyHanded ==
  /\ Asleep \in GoodWorkers /\ Stopped \in GoodWorkers /\ Down \in GoodWorkers
  /\ Asleep.hand = <<>> /\ Stopped.hand = <<>> /\ Down.hand = <<>>
  /\ \A n \in 1 .. MaxBatches : /\ Worker("pop", <<>>, n) \in GoodWorkers
                                /\ Worker("pop", <<>>, n).hand = <<>>
<1>1. <<>> \in Seq(Entries) /\ Len(<<>>) = 0 /\ 0 \in 0 .. MaxBatches
  BY LogConstants
<1>2. ASSUME NEW at \in {"select", "stopped", "down"}
      PROVE  Worker(at, <<>>, 0) \in GoodWorkers /\ Worker(at, <<>>, 0).hand = <<>>
  <2>1. Worker(at, <<>>, 0) \in WorkerStates
    BY <1>1 DEF Worker, WorkerStates
  <2>. QED  BY <1>1, <2>1, LogConstants DEF Worker, GoodWorkers, WorkerOK
<1>3. ASSUME NEW n \in 1 .. MaxBatches
      PROVE  Worker("pop", <<>>, n) \in GoodWorkers /\ Worker("pop", <<>>, n).hand = <<>>
  <2>1. n \in 0 .. MaxBatches /\ n > 0
    OBVIOUS
  <2>2. Worker("pop", <<>>, n) \in WorkerStates
    BY <1>1, <2>1 DEF Worker, WorkerStates
  <2>. QED  BY <1>1, <2>1, <2>2, LogConstants DEF Worker, GoodWorkers, WorkerOK
<1>. QED  BY <1>2, <1>3, Zenon DEF Asleep, Stopped, Down

\* After a row the worker holds the rest of its batch.
LEMMA HandAfterRow ==
  ASSUME NEW w \in GoodWorkers, w.at = "insert"
  PROVE  /\ w.hand \in Seq(Entries) /\ w.hand # <<>>
         /\ AfterRow(w) \in GoodWorkers /\ AfterRow(w).hand = Tail(w.hand)
<1>1. w \in WorkerStates /\ w.hand \in Seq(Entries) /\ w.hand # <<>> /\ Len(w.hand) <= BatchSize
  BY Zenon DEF GoodWorkers, WorkerStates, WorkerOK
<1>2. /\ Tail(w.hand) \in Seq(Entries) /\ Len(Tail(w.hand)) = Len(w.hand) - 1
      /\ Len(w.hand) \in Nat \ {0}
  BY <1>1
<1>3. CASE Len(w.hand) > 1
  <2>1. w = [at |-> w.at, hand |-> w.hand, left |-> w.left, full |-> w.full]
    BY <1>1, Zenon DEF WorkerStates
  <2>2. AfterRow(w) = [w EXCEPT !.hand = Tail(@)]
    BY <1>3, Zenon DEF AfterRow
  <2>3. AfterRow(w) = [at |-> "insert", hand |-> Tail(w.hand), left |-> w.left, full |-> w.full]
    BY <2>1, <2>2, Zenon
  <2>4. w.left \in 0 .. MaxBatches /\ w.full \in BOOLEAN
    BY <1>1, Zenon DEF WorkerStates
  <2>5. AfterRow(w) \in WorkerStates
    BY <1>2, <2>3, <2>4 DEF WorkerStates
  <2>6. AfterRow(w).hand = Tail(w.hand) /\ AfterRow(w).at = "insert"
    BY <2>3
  <2>. DEFINE rest == Tail(w.hand)
  <2>7. Len(rest) > 0 /\ Len(rest) <= BatchSize
    BY <1>1, <1>2, <1>3, LogConstants
  <2>. HIDE DEF rest
  <2>8. rest # <<>>
    BY <2>7
  <2>. QED  BY <1>1, <2>5, <2>6, <2>7, <2>8, Zenon DEF GoodWorkers, WorkerOK, rest
<1>4. CASE ~(Len(w.hand) > 1)
  <2>1. Tail(w.hand) = <<>>
    BY <1>1, <1>2, <1>4
  <2>2. w.left \in 0 .. MaxBatches
    BY <1>1 DEF WorkerStates
  <2>3. CASE w.full /\ w.left > 0
    <3>1. AfterRow(w) = Worker("pop", <<>>, w.left) /\ w.left \in 1 .. MaxBatches
      BY <1>4, <2>2, <2>3 DEF AfterRow
    <3>. QED  BY <1>1, <2>1, <3>1, EmptyHanded, Zenon
  <2>4. CASE ~(w.full /\ w.left > 0)
    <3>1. AfterRow(w) = Asleep
      BY <1>4, <2>4, Zenon DEF AfterRow
    <3>. QED  BY <1>1, <2>1, <3>1, EmptyHanded, Zenon
  <2>. QED  BY <2>3, <2>4, Zenon
<1>. QED  BY <1>3, <1>4, Zenon

\* After RPOP it holds what was popped.
LEMMA HandAfterPop ==
  ASSUME NEW w \in GoodWorkers, w.at = "pop", NEW l \in Seq(Entries), l # <<>>
  PROVE  LET v == [at |-> "insert", hand |-> Popped(l), left |-> w.left - 1,
                   full |-> PopCount(l) = BatchSize]
         IN  v \in GoodWorkers /\ v.hand = Popped(l)
<1>. DEFINE v == [at |-> "insert", hand |-> Popped(l), left |-> w.left - 1,
                  full |-> PopCount(l) = BatchSize]
<1>1. w.left - 1 \in 0 .. MaxBatches
  BY LogConstants DEF GoodWorkers, WorkerStates, WorkerOK
<1>2. Popped(l) \in Seq(Entries) /\ Popped(l) # <<>> /\ Len(Popped(l)) <= BatchSize
  BY PopTakesTheTail
<1>3. v \in WorkerStates
  BY <1>1, <1>2 DEF WorkerStates
<1>. QED  BY <1>2, <1>3, Zenon DEF GoodWorkers, WorkerOK

\* One worker changes, the others keep what they hold.
LEMMA OneWorker ==
  ASSUME worker \in [Procs -> GoodWorkers], NEW p \in Procs, NEW w \in GoodWorkers,
         worker' = [worker EXCEPT ![p] = w]
  PROVE  /\ worker' \in [Procs -> GoodWorkers] /\ worker'[p] = w
         /\ InHand(p)' = Range(w.hand)
         /\ \A q \in Procs : q # p => worker'[q] = worker[q] /\ InHand(q)' = InHand(q)
<1>1. /\ worker' \in [Procs -> GoodWorkers] /\ worker'[p] = w
      /\ \A q \in Procs : q # p => worker'[q] = worker[q]
  OBVIOUS
<1>. QED  BY <1>1, Zenon DEF InHand

\* The types, with the workers as they really are.
LogTypes ==
  /\ TypeOK
  /\ worker \in [Procs -> GoodWorkers]

\* The two ways to say it.
LEMMA LogTypesAre == LogTypes <=> TypeOK /\ \A p \in Procs : WorkerOK(worker[p])
BY DEF LogTypes, TypeOK, GoodWorkers, WorkerStates

\* Every step keeps the types.
LEMMA LogTypeStep == LogTypes /\ [Next]_vars => LogTypes'
<1>. SUFFICES ASSUME LogTypes, [Next]_vars PROVE LogTypes'
  OBVIOUS
<1>0. TypeOK /\ worker \in [Procs -> GoodWorkers]
  BY DEF LogTypes
<1>w. ASSUME NEW w \in [Procs -> GoodWorkers]
      PROVE  w \in [Procs -> WorkerStates]
  BY DEF GoodWorkers
<1>. DEFINE Others == /\ now \in 0 .. MaxTime /\ served \in 0 .. Last /\ faults \in 0 .. MaxFaults
                      /\ task \in [Entries -> TaskStates] /\ by \in [Entries -> Procs \cup {NULL}]
                      /\ list \in Seq(Entries) /\ rows \in Seq([entry : Entries, time : 0 .. MaxTime])
                      /\ cancelled \in [Procs -> BOOLEAN]
                      /\ lost \subseteq Entries /\ pushes \in Seq(Entries)
<1>r. Others
  BY <1>0 DEF TypeOK, TaskStates
<1>q. ASSUME Others', worker' \in [Procs -> GoodWorkers] PROVE LogTypes'
  <2>1. worker' \in [Procs -> WorkerStates]
    BY <1>q, <1>w, Zenon
  <2>. QED  BY <1>q, <2>1, Zenon DEF LogTypes, TypeOK, TaskStates, WorkerStates
<1>1. CASE UNCHANGED vars
  BY <1>0, <1>r, <1>1, <1>q, Zenon DEF vars
<1>2. CASE Tick
  <2>1. now' \in 0 .. MaxTime
    BY <1>r, <1>2, LogConstants DEF Tick
  <2>. QED  BY <1>0, <1>r, <1>2, <1>q, <2>1, Zenon DEF Tick
<1>f. ASSUME Fault PROVE faults' \in 0 .. MaxFaults
  BY <1>r, <1>f, LogConstants DEF Fault
<1>3. ASSUME NEW e \in Entries, Push(e) PROVE LogTypes'
  <2>1. list' \in Seq(Entries) /\ pushes' \in Seq(Entries)
    BY <1>r, <1>3 DEF Push
  <2>2. task' \in [Entries -> TaskStates]
    BY <1>r, <1>3, Zenon DEF Push, TaskStates
  <2>. QED  BY <1>0, <1>r, <1>3, <1>q, <2>1, <2>2, Zenon DEF Push
<1>4. ASSUME NEW e \in Entries, PushFails(e) PROVE LogTypes'
  <2>1. task' \in [Entries -> TaskStates] /\ lost' \subseteq Entries
    BY <1>r, <1>4, Zenon DEF PushFails, TaskStates
  <2>. QED  BY <1>0, <1>r, <1>4, <1>f, <1>q, <2>1, Zenon DEF PushFails
<1>5. ASSUME NEW e \in Entries, Trim(e) PROVE LogTypes'
  <2>1. list' \in Seq(Entries)
    BY <1>r, <1>5, KeptShort, Zenon DEF Trim
  <2>2. task' \in [Entries -> TaskStates] /\ by' \in [Entries -> Procs \cup {NULL}]
    BY <1>r, <1>5, Zenon DEF Trim, TaskStates
  <2>3. Len(Kept(list)) \in Nat
    BY <1>r, KeptShort
  <2>4. \A i \in Len(Kept(list)) + 1 .. Len(list) : list[i] \in Entries
    BY <1>r, <2>3
  <2>5. lost' \subseteq Entries
    BY <1>r, <1>5, <2>4, Zenon DEF Trim
  <2>. QED  BY <1>0, <1>r, <1>5, <1>q, <2>1, <2>2, <2>5, Zenon DEF Trim
<1>6. ASSUME NEW e \in Entries, TrimFails(e) PROVE LogTypes'
  <2>1. task' \in [Entries -> TaskStates] /\ by' \in [Entries -> Procs \cup {NULL}]
    BY <1>r, <1>6, Zenon DEF TrimFails, TaskStates
  <2>. QED  BY <1>0, <1>r, <1>6, <1>f, <1>q, <2>1, Zenon DEF TrimFails
<1>7. ASSUME NEW p \in Procs, Serve(p) PROVE LogTypes'
  <2>1. served' \in 0 .. Last /\ served + 1 \in Entries
    BY <1>r, <1>7, LogConstants DEF Serve, Entries
  <2>2. task' \in [Entries -> TaskStates] /\ by' \in [Entries -> Procs \cup {NULL}]
    BY <1>r, <1>7, <2>1, Zenon DEF Serve, TaskStates
  <2>. QED  BY <1>0, <1>r, <1>7, <1>q, <2>1, <2>2, Zenon DEF Serve
<1>8. ASSUME NEW p \in Procs, WakeUp(p) \/ StopWorker(p) \/ Restart(p) PROVE LogTypes'
  <2>1. MaxBatches \in 1 .. MaxBatches
    BY LogConstants
  <2>2. PICK w \in GoodWorkers : worker' = [worker EXCEPT ![p] = w]
    BY <1>8, <2>1, EmptyHanded, Zenon DEF WakeUp, StopWorker, Restart
  <2>3. worker' \in [Procs -> GoodWorkers]
    BY <1>0, <2>2, OneWorker, Zenon
  <2>. QED  BY <1>r, <1>8, <1>q, <2>3, Zenon DEF WakeUp, StopWorker, Restart
<1>9. ASSUME NEW p \in Procs, Pop(p) PROVE LogTypes'
  <2>1. list' \in Seq(Entries)
    BY <1>r, <1>9, UnpoppedShorter, Zenon DEF Pop
  <2>2. PICK w \in GoodWorkers : worker' = [worker EXCEPT ![p] = w]
    BY <1>0, <1>r, <1>9, EmptyHanded, HandAfterPop, Zenon DEF Pop
  <2>3. worker' \in [Procs -> GoodWorkers]
    BY <1>0, <2>2, OneWorker
  <2>. QED  BY <1>r, <1>9, <1>q, <2>1, <2>3, Zenon DEF Pop
<1>10. ASSUME NEW p \in Procs, PopFails(p) PROVE LogTypes'
  <2>1. list' \in Seq(Entries)
    BY <1>r, <1>10, UnpoppedShorter, Zenon DEF PopFails
  <2>. DEFINE popped == Popped(list)
  <2>2. popped \in Seq(Entries) /\ DOMAIN popped = 1 .. PopCount(list)
    BY <1>r, PopTakesTheTail, Zenon
  <2>. HIDE DEF popped
  <2>6. popped \in Seq(Entries) => \A i \in DOMAIN popped : popped[i] \in Entries
    OBVIOUS
  <2>5. {popped[i] : i \in 1 .. PopCount(list)} \subseteq Entries
    BY <2>2, <2>6, Zenon
  <2>3. lost' \subseteq Entries
    BY <1>r, <1>10, <2>5, Zenon DEF PopFails, popped
  <2>4. worker' \in [Procs -> GoodWorkers]
    BY <1>0, <1>10, OneWorker, EmptyHanded, Zenon DEF PopFails
  <2>. QED  BY <1>r, <1>10, <1>f, <1>q, <2>1, <2>3, <2>4, Zenon DEF PopFails
<1>11. ASSUME NEW p \in Procs, Insert(p) \/ InsertFails(p) PROVE LogTypes'
  <2>. DEFINE w == worker[p]
              row == [entry |-> Head(w.hand), time |-> now]
  <2>1. w \in GoodWorkers /\ w.at = "insert" /\ worker' = [worker EXCEPT ![p] = AfterRow(w)]
    BY <1>0, <1>11, Zenon DEF Insert, InsertFails
  <2>2. w.hand \in Seq(Entries) /\ w.hand # <<>> /\ AfterRow(w) \in GoodWorkers
    BY <2>1, HandAfterRow, Zenon
  <2>3. worker' \in [Procs -> GoodWorkers]
    BY <1>0, <2>1, <2>2, OneWorker, Zenon
  <2>4. Head(w.hand) \in Entries
    BY <2>2, Rest, Zenon
  <2>5. row \in [entry : Entries, time : 0 .. MaxTime]
    BY <1>r, <2>4, Zenon
  <2>. HIDE DEF row
  <2>6. Append(rows, row) \in Seq([entry : Entries, time : 0 .. MaxTime])
    BY <1>r, <2>5
  <2>7. CASE Insert(p)
    BY <1>r, <1>q, <2>3, <2>6, <2>7, Zenon DEF Insert, row
  <2>8. CASE InsertFails(p)
    <3>1. lost' \subseteq Entries /\ rows' \in Seq([entry : Entries, time : 0 .. MaxTime])
      BY <1>r, <2>4, <2>6, <2>8, Zenon DEF InsertFails, row
    <3>. QED  BY <1>r, <1>f, <1>q, <2>3, <2>8, <3>1, Zenon DEF InsertFails
  <2>. QED  BY <1>11, <2>7, <2>8, Zenon
<1>12. ASSUME NEW p \in Procs, Cancel(p) PROVE LogTypes'
  <2>1. cancelled' \in [Procs -> BOOLEAN]
    BY <1>r, <1>12, Zenon DEF Cancel
  <2>. QED  BY <1>0, <1>r, <1>12, <1>q, <2>1, Zenon DEF Cancel
<1>13. ASSUME NEW p \in Procs, Exit(p) \/ Crash(p) PROVE LogTypes'
  <2>1. worker' \in [Procs -> GoodWorkers]
    BY <1>0, <1>13, OneWorker, EmptyHanded, Zenon DEF Exit, Crash
  <2>2. task' \in [Entries -> TaskStates] /\ by' \in [Entries -> Procs \cup {NULL}]
    BY <1>r, <1>13 DEF Exit, Crash, DropTasks, TaskStates
  <2>3. worker[p].hand \in Seq(Entries)
    BY <1>0 DEF GoodWorkers, WorkerStates
  <2>4. {worker[p].hand[i] : i \in DOMAIN worker[p].hand} \subseteq Entries
    BY <2>3
  <2>5. lost' \subseteq Entries
    BY <1>r, <1>13, <2>4, Zenon DEF Exit, Crash, Unpushed
  <2>6. cancelled' \in [Procs -> BOOLEAN]
    BY <1>r, <1>13, Zenon DEF Exit, Crash
  <2>. QED  BY <1>r, <1>13, <1>f, <1>q, <2>1, <2>2, <2>5, <2>6, Zenon DEF Exit, Crash
<1>. QED  BY <1>1, <1>2, <1>3, <1>4, <1>5, <1>6, <1>7, <1>8, <1>9, <1>10, <1>11, <1>12, <1>13, Zenon
          DEF Next

-----------------------------------------------------------------------------
(* Where the entries are.                                                  *)

\* PlacesInv but for the workers' own consistency.
Places ==
  /\ Range(list) \cup Logged \subseteq Range(pushes)
  /\ \A e \in Range(pushes) \cup lost : Done(e)
  /\ Range(list) \cap Logged = {}
  /\ lost \cap (Range(list) \cup Logged) = {}
  /\ \A p \in Procs :
       /\ InHand(p) \subseteq Range(pushes)
       /\ InHand(p) \cap (Range(list) \cup Logged \cup lost) = {}
       /\ \A q \in Procs : p # q => InHand(p) \cap InHand(q) = {}
  /\ \A e \in 1 .. served : \/ e \in Range(list) \cup Logged \cup lost
                            \/ \E p \in Procs : e \in InHand(p)
                            \/ task[e] = "push"
  /\ \A e \in Entries : e > served => task[e] = "none"

\* Nothing is pushed before itself.
LEMMA NotBeforeItself ==
  ASSUME LogTypes, OrderInv, NEW e PROVE ~PushedBefore(e, e)
<1>1. DOMAIN pushes \subseteq Int
  BY DEF LogTypes, TypeOK
<1>. QED  BY <1>1 DEF OrderInv, IsInjective, PushedBefore, Before

\* So the list holds nothing twice, and neither does a hand.
LEMMA NoneTwice ==
  ASSUME LogTypes, OrderInv
  PROVE  /\ \A i, j \in 1 .. Len(list) : list[i] = list[j] => i = j
         /\ \A p \in Procs : \A k, l \in 1 .. Len(worker[p].hand) :
              worker[p].hand[k] = worker[p].hand[l] => k = l
<1>1. ASSUME NEW i \in 1 .. Len(list), NEW j \in 1 .. Len(list), list[i] = list[j], i < j
      PROVE  FALSE
  <2>1. i \in DOMAIN list /\ j \in DOMAIN list
    BY DEF LogTypes, TypeOK
  <2>2. PushedBefore(list[j], list[i])
    BY <1>1, <2>1, Zenon DEF OrderInv
  <2>. QED  BY <1>1, <2>2, NotBeforeItself
<1>2. ASSUME NEW p \in Procs, NEW k \in 1 .. Len(worker[p].hand), NEW l \in 1 .. Len(worker[p].hand),
             worker[p].hand[k] = worker[p].hand[l], k < l
      PROVE  FALSE
  <2>1. worker[p].hand \in Seq(Entries)
    BY Zenon DEF LogTypes, GoodWorkers, WorkerStates
  <2>2. k \in DOMAIN worker[p].hand /\ l \in DOMAIN worker[p].hand
    BY <2>1
  <2>3. PushedBefore(worker[p].hand[k], worker[p].hand[l])
    BY <1>2, <2>2, Zenon DEF OrderInv
  <2>. QED  BY <1>2, <2>3, NotBeforeItself, Zenon
<1>3. \A i, j \in 1 .. Len(list) : list[i] = list[j] => ~(i < j) /\ ~(j < i)
  BY <1>1, Zenon
<1>4. \A p \in Procs : \A k, l \in 1 .. Len(worker[p].hand) :
        worker[p].hand[k] = worker[p].hand[l] => ~(k < l) /\ ~(l < k)
  BY <1>2, Zenon
<1>. QED  BY <1>3, <1>4

\* The row that is inserted leaves the hand.
LEMMA InsertEffect ==
  ASSUME LogTypes, OrderInv, NEW p \in Procs, worker[p].at = "insert",
         worker' = [worker EXCEPT ![p] = AfterRow(@)]
  PROVE  LET x == Head(worker[p].hand)
         IN  /\ x \in Entries /\ x \in InHand(p) /\ InHand(p)' = InHand(p) \ {x}
             /\ worker'[p].hand = Tail(worker[p].hand)
             /\ \A q \in Procs : q # p => worker'[q].hand = worker[q].hand /\ InHand(q)' = InHand(q)
<1>. DEFINE w == worker[p]
            hand == worker[p].hand
            x == Head(hand)
<1>1. w \in GoodWorkers /\ worker \in [Procs -> GoodWorkers] /\ worker' = [worker EXCEPT ![p] = AfterRow(w)]
  BY Zenon DEF LogTypes
<1>2. hand \in Seq(Entries) /\ hand # <<>> /\ AfterRow(w) \in GoodWorkers /\ AfterRow(w).hand = Tail(hand)
  BY <1>1, HandAfterRow, Zenon
<1>3. /\ worker'[p] = AfterRow(w) /\ InHand(p)' = Range(Tail(hand))
      /\ \A q \in Procs : q # p => worker'[q] = worker[q] /\ InHand(q)' = InHand(q)
  <2>1. PICK v \in GoodWorkers : v = AfterRow(w) /\ worker' = [worker EXCEPT ![p] = v]
    BY <1>1, <1>2, Zenon
  <2>2. /\ worker'[p] = v /\ InHand(p)' = Range(v.hand)
        /\ \A q \in Procs : q # p => worker'[q] = worker[q] /\ InHand(q)' = InHand(q)
    BY <1>1, <2>1, OneWorker, Zenon
  <2>. QED  BY <1>2, <2>1, <2>2, Zenon
<1>4. \A k, l \in 1 .. Len(hand) : hand[k] = hand[l] => k = l
  BY NoneTwice, Zenon
<1>. HIDE DEF hand, w
<1>5. /\ x = hand[1] /\ 1 \in DOMAIN hand /\ x \in Entries /\ DOMAIN Tail(hand) = 1 .. Len(hand) - 1
      /\ \A i \in 1 .. Len(hand) - 1 : i + 1 \in DOMAIN hand /\ Tail(hand)[i] = hand[i + 1]
      /\ Range(hand) = Range(Tail(hand)) \cup {x} /\ DOMAIN hand = 1 .. Len(hand) /\ Len(hand) \in Nat
  BY <1>2, Rest
<1>6. \A i \in DOMAIN Tail(hand) : Tail(hand)[i] # x
  BY <1>4, <1>5
<1>7. x \notin Range(Tail(hand))
  BY <1>6, Zenon DEF Range
<1>8. InHand(p) = Range(hand)
  BY Zenon DEF InHand, hand
<1>9. InHand(p)' = InHand(p) \ {x} /\ x \in InHand(p)
  <2>1. InHand(p)' = Range(Tail(hand)) /\ Range(hand) = Range(Tail(hand)) \cup {x}
    BY <1>3, <1>5, Zenon
  <2>. QED  BY <1>7, <1>8, <2>1, Zenon
<1>. QED  BY <1>2, <1>3, <1>5, <1>9, Zenon DEF hand, w

\* A committed row is logged.
LEMMA RowLogged ==
  ASSUME LogTypes, NEW x \in Entries, rows' = Append(rows, [entry |-> x, time |-> now])
  PROVE  /\ Logged' = Logged \cup {x}
         /\ DOMAIN rows = 1 .. Len(rows) /\ DOMAIN rows' = 1 .. Len(rows) + 1 /\ Len(rows) \in Nat
         /\ rows'[Len(rows) + 1].entry = x /\ \A i \in DOMAIN rows : rows'[i] = rows[i]
<1>. DEFINE row == [entry |-> x, time |-> now]
            S == [entry : Entries, time : 0 .. MaxTime]
<1>1. rows \in Seq(S) /\ row \in S /\ row.entry = x
  BY Zenon DEF LogTypes, TypeOK
<1>. HIDE DEF row, S
<1>2. /\ DOMAIN rows' = 1 .. Len(rows) + 1 /\ rows'[Len(rows) + 1] = row
      /\ \A i \in 1 .. Len(rows) : rows'[i] = rows[i]
      /\ 1 .. Len(rows) + 1 = (1 .. Len(rows)) \cup {Len(rows) + 1}
  BY <1>1, Appended DEF row
<1>3. DOMAIN rows = 1 .. Len(rows) /\ Len(rows) \in Nat
  BY <1>1
<1>4. \A i \in DOMAIN rows' : (i \in DOMAIN rows /\ rows'[i] = rows[i]) \/ rows'[i].entry = x
  BY <1>1, <1>2, <1>3, Zenon
<1>5. Len(rows) + 1 \in DOMAIN rows' /\ \A i \in DOMAIN rows : i \in DOMAIN rows'
  BY <1>2, <1>3, Zenon
<1>6. rows'[Len(rows) + 1].entry = x /\ \A i \in DOMAIN rows : rows'[i] = rows[i]
  BY <1>1, <1>2, <1>3, Zenon
<1>7. Logged' = Logged \cup {x}
  BY <1>4, <1>5, <1>6 DEF Logged
<1>. QED  BY <1>2, <1>3, <1>6, <1>7, Zenon

\* A committed row moves the entry from the hand to the table.
LEMMA InsertPlaces ==
  ASSUME LogTypes, OrderInv, Places, NEW p \in Procs, worker[p].at = "insert",
         worker' = [worker EXCEPT ![p] = AfterRow(@)],
         rows' = Append(rows, [entry |-> Head(worker[p].hand), time |-> now]),
         UNCHANGED <<served, task, list, lost, pushes>>
  PROVE  Places'
<1>. DEFINE x == Head(worker[p].hand)
<1>1. /\ x \in Entries /\ x \in InHand(p) /\ InHand(p)' = InHand(p) \ {x}
      /\ \A q \in Procs : q # p => InHand(q)' = InHand(q)
  BY InsertEffect, Zenon
<1>2. Logged' = Logged \cup {x}
  BY <1>1, RowLogged, Zenon
<1>. HIDE DEF x
<1>3. \A e : Done(e)' <=> Done(e)
  BY Zenon DEF Done
<1>4. Range(list') = Range(list) /\ Range(pushes') = Range(pushes)
  OBVIOUS
<1>. QED  BY <1>1, <1>2, <1>3, <1>4 DEF Places

\* A failed insert moves it from the hand to the lost.
LEMMA InsertFailsPlaces ==
  ASSUME LogTypes, OrderInv, Places, NEW p \in Procs, worker[p].at = "insert",
         worker' = [worker EXCEPT ![p] = AfterRow(@)],
         lost' = lost \cup {Head(worker[p].hand)},
         UNCHANGED <<served, task, list, rows, pushes>>
  PROVE  Places'
<1>. DEFINE x == Head(worker[p].hand)
<1>1. /\ x \in Entries /\ x \in InHand(p) /\ InHand(p)' = InHand(p) \ {x}
      /\ \A q \in Procs : q # p => InHand(q)' = InHand(q)
  BY InsertEffect, Zenon
<1>. HIDE DEF x
<1>2. Logged' = Logged /\ lost' = lost \cup {x}
  BY Zenon DEF Logged, x
<1>3. \A e : Done(e)' <=> Done(e)
  BY Zenon DEF Done
<1>4. Range(list') = Range(list) /\ Range(pushes') = Range(pushes)
  OBVIOUS
<1>. QED  BY <1>1, <1>2, <1>3, <1>4 DEF Places

\* A step that moves no entry and whose tasks are no nearer to a push.
SameTasks == \A e \in Entries : /\ task'[e] = "push" <=> task[e] = "push"
                                /\ task'[e] = "none" <=> task[e] = "none"

\* The list loses its tail.
LEMMA CutEffect ==
  ASSUME LogTypes, OrderInv, NEW n \in 0 .. Len(list), list' = SubSeq(list, 1, n)
  PROVE  LET cut == {list[i] : i \in n + 1 .. Len(list)}
         IN  /\ Range(list) = Range(list') \cup cut /\ Range(list') \cap cut = {}
             /\ DOMAIN list = 1 .. Len(list) /\ DOMAIN list' = 1 .. n
             /\ \A i \in 1 .. n : i \in DOMAIN list /\ list'[i] = list[i]
<1>. DEFINE cut == {list[i] : i \in n + 1 .. Len(list)}
<1>1. list \in Seq(Entries) /\ DOMAIN list = 1 .. Len(list) /\ Len(list) \in Nat
  BY DEF LogTypes, TypeOK
<1>2. /\ DOMAIN list' = 1 .. n /\ Range(list') = {list[i] : i \in 1 .. n}
      /\ \A i \in 1 .. n : list'[i] = list[i]
  BY <1>1, Prefix, Zenon
<1>3. /\ 1 .. Len(list) = (1 .. n) \cup (n + 1 .. Len(list))
      /\ \A i \in 1 .. n, j \in n + 1 .. Len(list) : i \in DOMAIN list /\ j \in DOMAIN list /\ i # j
  BY <1>1
<1>4. \A i, j \in DOMAIN list : list[i] = list[j] => i = j
  BY <1>1, NoneTwice, Zenon
<1>5. Range(list) = {list[i] : i \in 1 .. Len(list)}
  BY <1>1, Zenon DEF Range
<1>6. Range(list) = Range(list') \cup cut
  BY <1>2, <1>3, <1>5, Zenon
<1>7. Range(list') \cap cut = {}
  BY <1>2, <1>3, <1>4
<1>. QED  BY <1>1, <1>2, <1>3, <1>6, <1>7, Zenon

\* What the places hold are entries.
LEMMA PlacesAreEntries ==
  ASSUME LogTypes
  PROVE  Range(pushes) \cup lost \subseteq Entries /\ 1 .. served \subseteq Entries
<1>1. lost \subseteq Entries /\ pushes \in Seq(Entries) /\ served \in 0 .. Last
  BY Zenon DEF LogTypes, TypeOK
<1>2. Range(pushes) \subseteq Entries
  <2>1. \A i \in DOMAIN pushes : pushes[i] \in Entries
    BY <1>1
  <2>. QED  BY <2>1, Zenon DEF Range
<1>3. 1 .. served \subseteq Entries
  BY <1>1, LogConstants DEF Entries
<1>. QED  BY <1>1, <1>2, <1>3, Zenon

\* What the tail held is lost (LTRIM, or an RPOP whose answer is).
LEMMA CutPlaces ==
  ASSUME LogTypes, OrderInv, Places, NEW n \in 0 .. Len(list), list' = SubSeq(list, 1, n),
         lost' = lost \cup {list[i] : i \in n + 1 .. Len(list)},
         UNCHANGED <<served, rows, pushes>>, SameTasks, \A p \in Procs : InHand(p)' = InHand(p)
  PROVE  Places'
<1>. DEFINE cut == {list[i] : i \in n + 1 .. Len(list)}
<1>1. Range(list) = Range(list') \cup cut /\ Range(list') \cap cut = {} /\ lost' = lost \cup cut
  BY CutEffect, Zenon
<1>. HIDE DEF cut
<1>2. Logged' = Logged /\ Range(pushes') = Range(pushes) /\ served' = served
  BY Zenon DEF Logged
<1>3. /\ lost \cup Range(pushes) \subseteq Entries
      /\ \A e \in Entries : Done(e)' <=> Done(e)
      /\ 1 .. served \subseteq Entries
  BY PlacesAreEntries, Zenon DEF Done, SameTasks
<1>4. \A e \in Range(pushes') \cup lost' : Done(e)'
  BY <1>1, <1>2, <1>3, Zenon DEF Places
<1>5. \A e \in 1 .. served' : \/ e \in Range(list') \cup Logged' \cup lost'
                              \/ \E p \in Procs : e \in InHand(p)'
                              \/ task'[e] = "push"
  BY <1>1, <1>2, <1>3 DEF Places, SameTasks
<1>6. \A e \in Entries : e > served' => task'[e] = "none"
  BY <1>2, Zenon DEF Places, SameTasks
<1>. QED  BY <1>1, <1>2, <1>4, <1>5, <1>6 DEF Places

\* What the tail held is in hand (RPOP).
LEMMA PopPlaces ==
  ASSUME LogTypes, OrderInv, Places, NEW p \in Procs, InHand(p) = {},
         NEW n \in 0 .. Len(list), list' = SubSeq(list, 1, n),
         InHand(p)' = {list[i] : i \in n + 1 .. Len(list)},
         \A q \in Procs : q # p => InHand(q)' = InHand(q),
         UNCHANGED <<served, task, rows, lost, pushes>>
  PROVE  Places'
<1>. DEFINE cut == {list[i] : i \in n + 1 .. Len(list)}
<1>1. Range(list) = Range(list') \cup cut /\ Range(list') \cap cut = {} /\ InHand(p)' = cut
  BY CutEffect, Zenon
<1>. HIDE DEF cut
<1>2. Logged' = Logged /\ Range(pushes') = Range(pushes) /\ \A e : Done(e)' <=> Done(e)
  BY Zenon DEF Logged, Done
<1>. QED  BY <1>1, <1>2 DEF Places

\* A step that moves nothing.
LEMMA StillPlaces ==
  ASSUME LogTypes, Places, UNCHANGED <<served, list, rows, lost, pushes>>, SameTasks,
         \A p \in Procs : InHand(p)' = InHand(p)
  PROVE  Places'
<1>1. /\ Logged' = Logged /\ Range(pushes') = Range(pushes) /\ Range(list') = Range(list)
      /\ \A e \in Entries : Done(e)' <=> Done(e)
  BY Zenon DEF Logged, Done, SameTasks
<1>2. \A e \in Range(pushes') \cup lost' : Done(e)'
  BY <1>1, PlacesAreEntries, Zenon DEF Places
<1>3. \A e \in 1 .. served' : \/ e \in Range(list') \cup Logged' \cup lost'
                              \/ \E p \in Procs : e \in InHand(p)'
                              \/ task'[e] = "push"
  BY <1>1, PlacesAreEntries DEF Places, SameTasks
<1>4. \A e \in Entries : e > served' => task'[e] = "none"
  BY Zenon DEF Places, SameTasks
<1>. QED  BY <1>1, <1>2, <1>3, <1>4, Zenon DEF Places

\* A request is answered: its task is to push it.
LEMMA ServePlaces ==
  ASSUME LogTypes, Places, served < Last, served' = served + 1,
         task' = [task EXCEPT ![served + 1] = "push"],
         UNCHANGED <<list, rows, lost, pushes, worker>>
  PROVE  Places'
<1>0. served \in 0 .. Last /\ task \in [Entries -> TaskStates]
  BY Zenon DEF LogTypes, TypeOK, TaskStates
<1>1. /\ served \in Nat /\ served + 1 \in Entries
      /\ 1 .. served' = (1 .. served) \cup {served + 1}
  BY <1>0, LogConstants DEF Entries
<1>2. /\ task'[served + 1] = "push" /\ task[served + 1] = "none"
      /\ \A e \in Entries : e # served + 1 => task'[e] = task[e]
  BY <1>0, <1>1 DEF Places
<1>3. /\ Logged' = Logged /\ Range(pushes') = Range(pushes) /\ Range(list') = Range(list)
      /\ \A p \in Procs : InHand(p)' = InHand(p)
  BY Zenon DEF Logged, InHand
<1>4. \A e \in Range(pushes') \cup lost' : Done(e)'
  BY <1>2, <1>3, PlacesAreEntries, Zenon DEF Places, Done
<1>5. \A e \in 1 .. served' : \/ e \in Range(list') \cup Logged' \cup lost'
                              \/ \E p \in Procs : e \in InHand(p)'
                              \/ task'[e] = "push"
  BY <1>1, <1>2, <1>3, PlacesAreEntries DEF Places
<1>6. \A e \in Entries : e > served' => task'[e] = "none"
  BY <1>1, <1>2 DEF Places, Entries
<1>. QED  BY <1>3, <1>4, <1>5, <1>6, Zenon DEF Places

\* LPUSH puts the entry in the list.
LEMMA PushPlaces ==
  ASSUME LogTypes, Places, NEW e \in Entries, Push(e)
  PROVE  Places' /\ e \notin Range(pushes)
<1>1. /\ task[e] = "push" /\ task' = [task EXCEPT ![e] = "trim"]
      /\ list' = <<e>> \o list /\ pushes' = Append(pushes, e)
      /\ UNCHANGED <<served, worker, rows, lost>>
  BY Zenon DEF Push
<1>2. /\ list \in Seq(Entries) /\ pushes \in Seq(Entries)
      /\ task \in [Entries -> TaskStates]
  BY DEF LogTypes, TypeOK, TaskStates
<1>3. Range(list') = Range(list) \cup {e} /\ Range(pushes') = Range(pushes) \cup {e}
  BY <1>1, <1>2, Pushed, Appended
<1>4. task'[e] = "trim" /\ \A d \in Entries : d # e => task'[d] = task[d]
  BY <1>1, <1>2, Zenon
<1>5. e \notin Range(pushes) \cup lost
  BY <1>1, Zenon DEF Places, Done
<1>6. Logged' = Logged /\ \A p \in Procs : InHand(p)' = InHand(p)
  BY <1>1, Zenon DEF Logged, InHand
<1>7. \A d \in Range(pushes') \cup lost' : Done(d)'
  BY <1>1, <1>3, <1>4, PlacesAreEntries, Zenon DEF Places, Done
<1>8. \A d \in 1 .. served' : \/ d \in Range(list') \cup Logged' \cup lost'
                              \/ \E p \in Procs : d \in InHand(p)'
                              \/ task'[d] = "push"
  BY <1>1, <1>3, <1>4, <1>6, PlacesAreEntries DEF Places
<1>9. \A d \in Entries : d > served' => task'[d] = "none"
  BY <1>1, <1>4, Zenon DEF Places
<1>. QED  BY <1>1, <1>3, <1>5, <1>6, <1>7, <1>8, <1>9 DEF Places

\* An LPUSH that failed, or a task that ended with its process, and a hand whose
\* worker died: what they had is lost.
LEMMA DropPlaces ==
  ASSUME LogTypes, Places, NEW gone \in SUBSET Entries, NEW p,
         \A e \in gone : task[e] = "push",
         \A e \in Entries : /\ task'[e] = "push" <=> task[e] = "push" /\ e \notin gone
                            /\ task'[e] = "none" <=> task[e] = "none",
         \/ lost' = lost \cup gone /\ \A q \in Procs : InHand(q)' = InHand(q)
         \/ p \in Procs /\ lost' = lost \cup gone \cup InHand(p) /\ InHand(p)' = {},
         \A q \in Procs : q # p => InHand(q)' = InHand(q),
         UNCHANGED <<served, list, rows, pushes>>
  PROVE  Places'
<1>1. /\ Logged' = Logged /\ Range(pushes') = Range(pushes) /\ Range(list') = Range(list)
      /\ \A e \in Entries : Done(e)' <=> Done(e) \/ e \in gone
  BY Zenon DEF Logged, Done
<1>2. gone \cap (Range(pushes) \cup lost) = {}
  BY Zenon DEF Places, Done
<1>3. p \in Procs => InHand(p) \subseteq Range(pushes)
  BY Zenon DEF Places
<1>4. \A e \in Range(pushes') \cup lost' : Done(e)'
  BY <1>1, <1>3, PlacesAreEntries, Zenon DEF Places
<1>5. \A e \in 1 .. served' : \/ e \in Range(list') \cup Logged' \cup lost'
                              \/ \E q \in Procs : e \in InHand(q)'
                              \/ task'[e] = "push"
  <2>. SUFFICES ASSUME NEW e \in 1 .. served,
                       e \notin Range(list') \cup Logged' \cup lost', task'[e] # "push"
                PROVE  \E q \in Procs : e \in InHand(q)'
    OBVIOUS
  <2>1. PICK q \in Procs : e \in InHand(q)
    BY <1>1, PlacesAreEntries, Zenon DEF Places
  <2>. QED  BY <2>1, Zenon
<1>6. \A e \in Entries : e > served' => task'[e] = "none"
  BY Zenon DEF Places
<1>7. \A q \in Procs :
        /\ InHand(q)' \subseteq InHand(q)
        /\ InHand(q)' \cap lost' = {}
  BY <1>2, <1>3 DEF Places
<1>8. lost' \cap (Range(list') \cup Logged') = {}
  BY <1>1, <1>2, Zenon DEF Places
<1>9. \A q, r \in Procs : q # r => InHand(q)' \cap InHand(r)' = {}
  BY <1>7, Zenon DEF Places
<1>. QED  BY <1>1, <1>4, <1>5, <1>6, <1>7, <1>8, <1>9, Zenon DEF Places

-----------------------------------------------------------------------------
(* In which order they are.                                                *)

\* What a worker holds in order it still holds in order when it has dropped the
\* first of it, or all.
LEMMA HandShrinks ==
  ASSUME NEW s \in Seq(Entries), NEW t,
         t = s \/ t = <<>> \/ (s # <<>> /\ t = Tail(s)),
         \A k, l \in DOMAIN s : k < l => PushedBefore(s[k], s[l])
  PROVE  /\ Range(t) \subseteq Range(s)
         /\ \A k, l \in DOMAIN t : k < l => PushedBefore(t[k], t[l])
<1>1. CASE t = s
  BY <1>1, Zenon
<1>2. CASE t = <<>>
  <2>1. DOMAIN t = {}
    BY <1>2
  <2>. QED  BY <2>1, Zenon DEF Range
<1>3. CASE s # <<>> /\ t = Tail(s)
  <2>1. /\ DOMAIN t = 1 .. Len(s) - 1 /\ Range(s) = Range(t) \cup {Head(s)}
        /\ \A i \in 1 .. Len(s) - 1 : i + 1 \in DOMAIN s /\ t[i] = s[i + 1]
    BY <1>3, Rest, Zenon
  <2>2. ASSUME NEW k \in DOMAIN t, NEW l \in DOMAIN t, k < l PROVE PushedBefore(t[k], t[l])
    <3>1. k + 1 \in DOMAIN s /\ l + 1 \in DOMAIN s /\ k + 1 < l + 1 /\ t[k] = s[k + 1] /\ t[l] = s[l + 1]
      BY <2>1, <2>2
    <3>. QED  BY <3>1, Zenon
  <2>. QED  BY <2>1, <2>2, Zenon
<1>. QED  BY <1>1, <1>2, <1>3, Zenon

\* A step that pushes and inserts nothing, and moves nothing into a hand.
LEMMA OrderShrinks ==
  ASSUME LogTypes, OrderInv, UNCHANGED <<rows, pushes>>,
         DOMAIN list' \subseteq DOMAIN list, \A i \in DOMAIN list' : list'[i] = list[i],
         \A p \in Procs : \/ worker'[p].hand = worker[p].hand
                          \/ worker'[p].hand = <<>>
                          \/ worker[p].hand # <<>> /\ worker'[p].hand = Tail(worker[p].hand)
  PROVE  OrderInv'
<1>1. \A d, e : PushedBefore(d, e)' <=> PushedBefore(d, e)
  BY Zenon DEF PushedBefore, Before
<1>2. Logged' = Logged
  BY Zenon DEF Logged
<1>3. Range(list') \subseteq Range(list)
  BY Zenon DEF Range
<1>4. ASSUME NEW p \in Procs
      PROVE  /\ InHand(p)' \subseteq InHand(p)
             /\ \A k, l \in DOMAIN worker'[p].hand :
                  k < l => PushedBefore(worker'[p].hand[k], worker'[p].hand[l])
  <2>. DEFINE s == worker[p].hand
              t == worker'[p].hand
  <2>1. s \in Seq(Entries)
    BY Zenon DEF LogTypes, GoodWorkers, WorkerStates
  <2>2. \A k, l \in DOMAIN s : k < l => PushedBefore(s[k], s[l])
    BY Zenon DEF OrderInv
  <2>3. InHand(p)' = Range(t) /\ InHand(p) = Range(s)
    BY Zenon DEF InHand
  <2>4. t = s \/ t = <<>> \/ (s # <<>> /\ t = Tail(s))
    OBVIOUS
  <2>. HIDE DEF s, t
  <2>5. PICK u : u = t
    OBVIOUS
  <2>6. PICK v \in Seq(Entries) : v = s
    BY <2>1, Zenon
  <2>7. /\ Range(u) \subseteq Range(v)
        /\ \A k, l \in DOMAIN u : k < l => PushedBefore(u[k], u[l])
    BY <2>2, <2>4, <2>5, <2>6, HandShrinks, Zenon
  <2>. QED  BY <2>3, <2>5, <2>6, <2>7, Zenon DEF s, t
<1>5. \A i, j \in DOMAIN list' : i < j => PushedBefore(list'[j], list'[i])
  BY Zenon DEF OrderInv
<1>6. \A i, j \in DOMAIN rows' : rows'[i].entry = rows'[j].entry => i = j
  BY Zenon DEF OrderInv
<1>7. IsInjective(pushes')
  BY Zenon DEF OrderInv
<1>8. \A d \in Logged', e \in Range(list') : PushedBefore(d, e)
  BY <1>2, <1>3, Zenon DEF OrderInv
<1>9. \A p \in Procs : \A d \in InHand(p)', e \in Range(list') : PushedBefore(d, e)
  BY <1>3, <1>4, Zenon DEF OrderInv
<1>. QED  BY <1>1, <1>4, <1>5, <1>6, <1>7, <1>8, <1>9, Zenon DEF OrderInv

\* What the table and the hands hold was pushed before what is in the list.
LEMMA OlderThanTheList ==
  ASSUME OrderInv
  PROVE  /\ \A d \in Logged, e \in Range(list) : Before(pushes, d, e)
         /\ \A p \in Procs : \A d \in InHand(p), e \in Range(list) : Before(pushes, d, e)
BY Zenon DEF OrderInv, PushedBefore

\* The new entry was pushed after all the others.
LEMMA OrderPush ==
  ASSUME LogTypes, OrderInv, Places, NEW e \in Entries, e \notin Range(pushes), Push(e)
  PROVE  OrderInv'
<1>1. /\ list' = <<e>> \o list /\ pushes' = Append(pushes, e)
      /\ UNCHANGED <<worker, rows>> /\ list \in Seq(Entries) /\ pushes \in Seq(Entries)
  BY Zenon DEF Push, LogTypes, TypeOK
<1>2. /\ DOMAIN list' = 1 .. Len(list) + 1 /\ list'[1] = e
      /\ \A i \in 1 .. Len(list) : list'[i + 1] = list[i]
      /\ Range(list') = Range(list) \cup {e}
      /\ DOMAIN list = 1 .. Len(list) /\ Len(list) \in Nat
  BY <1>1, Pushed
<1>. DEFINE n == Len(pushes)
<1>3. /\ n \in Nat /\ DOMAIN pushes = 1 .. n /\ DOMAIN pushes' = 1 .. n + 1 /\ pushes'[n + 1] = e
      /\ \A i \in 1 .. n : pushes'[i] = pushes[i]
  BY <1>1, Appended
<1>. HIDE DEF n
<1>4. \A c, d : Before(pushes, c, d) => Before(pushes', c, d)
  BY <1>3 DEF Before
<1>5. \A d \in Range(pushes) : Before(pushes', d, e)
  BY <1>3 DEF Before, Range
<1>6. IsInjective(pushes')
  <2>1. \A i \in 1 .. n : pushes[i] # e
    BY <1>3, Zenon DEF Range
  <2>2. \A i, j \in 1 .. n : pushes[i] = pushes[j] => i = j
    BY <1>3, Zenon DEF OrderInv, IsInjective
  <2>. QED  BY <1>3, <2>1, <2>2 DEF IsInjective
<1>7. Logged' = Logged /\ \A p \in Procs : InHand(p)' = InHand(p)
  BY <1>1, Zenon DEF Logged, InHand
<1>8. Range(list) \cup Logged \subseteq Range(pushes) /\ \A p \in Procs : InHand(p) \subseteq Range(pushes)
  BY Zenon DEF Places
<1>9. ASSUME NEW i \in DOMAIN list', NEW j \in DOMAIN list', i < j
      PROVE  Before(pushes', list'[j], list'[i])
  <2>1. j - 1 \in DOMAIN list /\ list'[j] = list[j - 1] /\ list[j - 1] \in Range(list)
    <3>1. j - 1 \in 1 .. Len(list) /\ j = (j - 1) + 1
      BY <1>2, <1>9
    <3>. QED  BY <1>2, <3>1, Zenon DEF Range
  <2>2. CASE i = 1
    BY <1>2, <1>5, <1>8, <2>1, <2>2, Zenon
  <2>3. CASE i # 1
    <3>1. i - 1 \in DOMAIN list /\ list'[i] = list[i - 1] /\ i - 1 < j - 1
      <4>1. i - 1 \in 1 .. Len(list) /\ i = (i - 1) + 1 /\ i - 1 < j - 1
        BY <1>2, <1>9, <2>3
      <4>. QED  BY <1>2, <4>1, Zenon
    <3>2. Before(pushes, list[j - 1], list[i - 1])
      BY <2>1, <3>1, Zenon DEF OrderInv, PushedBefore
    <3>. QED  BY <1>4, <2>1, <3>1, <3>2, Zenon
  <2>. QED  BY <2>2, <2>3
<1>b. \A c \in Range(list') : c \in Range(list) \/ c = e
  BY <1>2, Zenon
<1>10. \A d \in Logged', c \in Range(list') : Before(pushes', d, c)
  BY <1>4, <1>5, <1>7, <1>8, <1>b, OlderThanTheList, Zenon
<1>11. \A p \in Procs : \A d \in InHand(p)', c \in Range(list') : Before(pushes', d, c)
  BY <1>4, <1>5, <1>7, <1>8, <1>b, OlderThanTheList, Zenon
<1>12. \A p \in Procs : \A k, l \in DOMAIN worker'[p].hand :
         k < l => Before(pushes', worker'[p].hand[k], worker'[p].hand[l])
  BY <1>1, <1>4, Zenon DEF OrderInv, PushedBefore
<1>13. \A i, j \in DOMAIN rows' : rows'[i].entry = rows'[j].entry => i = j
  BY <1>1, Zenon DEF OrderInv
<1>. QED  BY <1>6, <1>9, <1>10, <1>11, <1>12, <1>13, Zenon DEF OrderInv, PushedBefore

\* The row that is inserted was pushed before all that is in the list, and is new.
LEMMA OrderInsert ==
  ASSUME LogTypes, OrderInv, Places, NEW p \in Procs, worker[p].at = "insert",
         worker' = [worker EXCEPT ![p] = AfterRow(@)],
         rows' = Append(rows, [entry |-> Head(worker[p].hand), time |-> now]),
         UNCHANGED <<list, pushes>>
  PROVE  OrderInv'
<1>. DEFINE x == Head(worker[p].hand)
<1>1. /\ x \in Entries /\ x \in InHand(p) /\ InHand(p)' = InHand(p) \ {x}
      /\ worker'[p].hand = Tail(worker[p].hand)
      /\ \A q \in Procs : q # p => worker'[q].hand = worker[q].hand /\ InHand(q)' = InHand(q)
  BY InsertEffect, Zenon
<1>2. /\ Logged' = Logged \cup {x}
      /\ DOMAIN rows = 1 .. Len(rows) /\ DOMAIN rows' = 1 .. Len(rows) + 1 /\ Len(rows) \in Nat
      /\ rows'[Len(rows) + 1].entry = x /\ \A i \in DOMAIN rows : rows'[i] = rows[i]
  BY <1>1, RowLogged, Zenon
<1>. HIDE DEF x
<1>3. \A i \in DOMAIN rows : rows[i].entry # x
  BY <1>1 DEF Places, Logged
<1>4. \A i, j \in DOMAIN rows' : rows'[i].entry = rows'[j].entry => i = j
  <2>1. \A i \in DOMAIN rows' : i \in DOMAIN rows \/ i = Len(rows) + 1
    BY <1>2
  <2>2. \A i, j \in DOMAIN rows : rows[i].entry = rows[j].entry => i = j
    BY Zenon DEF OrderInv
  <2>3. rows'[Len(rows) + 1].entry = x /\ \A i \in DOMAIN rows : rows'[i] = rows[i]
    BY <1>2, Zenon
  <2>. QED  BY <1>3, <2>1, <2>2, <2>3
<1>5. \A d \in Logged', e \in Range(list') : Before(pushes', d, e)
  BY <1>1, <1>2, OlderThanTheList, Zenon
<1>6. \A q \in Procs : \A d \in InHand(q)', e \in Range(list') : Before(pushes', d, e)
  BY <1>1, Zenon DEF OrderInv, PushedBefore
<1>7. ASSUME NEW q \in Procs
      PROVE  \A k, l \in DOMAIN worker'[q].hand :
               k < l => Before(pushes', worker'[q].hand[k], worker'[q].hand[l])
  <2>1. PICK s \in Seq(Entries) : s = worker[q].hand
    BY Zenon DEF LogTypes, GoodWorkers, WorkerStates
  <2>2. PICK t : t = worker'[q].hand
    OBVIOUS
  <2>3. \A k, l \in DOMAIN s : k < l => PushedBefore(s[k], s[l])
    BY <2>1, Zenon DEF OrderInv
  <2>4. worker[p].hand # <<>>
    BY HandAfterRow, Zenon DEF LogTypes
  <2>5. t = s \/ t = <<>> \/ (s # <<>> /\ t = Tail(s))
    BY <1>1, <2>1, <2>2, <2>4, Zenon
  <2>6. \A k, l \in DOMAIN t : k < l => PushedBefore(t[k], t[l])
    BY <2>3, <2>5, HandShrinks, Zenon
  <2>7. \A k, l \in DOMAIN t : k < l => Before(pushes', t[k], t[l])
    BY <2>6, Zenon DEF PushedBefore
  <2>. QED  BY <2>2, <2>7, Zenon
<1>8. IsInjective(pushes') /\ \A i, j \in DOMAIN list' : i < j => Before(pushes', list'[j], list'[i])
  BY Zenon DEF OrderInv, PushedBefore
<1>. QED  BY <1>4, <1>5, <1>6, <1>7, <1>8, Zenon DEF OrderInv, PushedBefore

\* What RPOP takes was pushed before all it leaves, and comes in order.
LEMMA OrderPop ==
  ASSUME LogTypes, OrderInv, NEW p \in Procs, list' = Unpopped(list),
         worker'[p].hand = Popped(list), \A q \in Procs : q # p => worker'[q] = worker[q],
         UNCHANGED <<rows, pushes>>
  PROVE  OrderInv'
<1>. DEFINE m == Len(list)
            n == m - PopCount(list)
            s == Popped(list)
<1>1. list \in Seq(Entries)
  BY Zenon DEF LogTypes, TypeOK
<1>2. /\ n \in 0 .. m /\ list' = SubSeq(list, 1, n) /\ DOMAIN s = 1 .. PopCount(list)
      /\ PopCount(list) \in Nat
      /\ \A k \in 1 .. PopCount(list) : m - k + 1 \in (n + 1) .. m /\ s[k] = list[m - k + 1]
      /\ Range(s) = {list[i] : i \in (n + 1) .. m}
  BY <1>1, PopTakesTheTail, Zenon
<1>3. /\ DOMAIN list' = 1 .. n /\ \A i \in 1 .. n : list'[i] = list[i]
      /\ Range(list') = {list[i] : i \in 1 .. n} /\ DOMAIN list = 1 .. m /\ m \in Nat
  BY <1>1, <1>2, Prefix
<1>4. \A i, j \in 1 .. m : i < j => Before(pushes, list[j], list[i])
  BY <1>3, Zenon DEF OrderInv, PushedBefore
<1>. HIDE DEF m, n, s
<1>5. \A i, j \in DOMAIN list' : i < j => Before(pushes', list'[j], list'[i])
  BY <1>2, <1>3, <1>4
<1>6. \A d \in Range(s), e \in Range(list') : Before(pushes, d, e)
  <2>1. \A j \in (n + 1) .. m, i \in 1 .. n : i \in 1 .. m /\ j \in 1 .. m /\ i < j
    BY <1>2, <1>3
  <2>. QED  BY <1>2, <1>3, <1>4, <2>1, Zenon
<1>7. \A k, l \in DOMAIN s : k < l => Before(pushes, s[k], s[l])
  <2>. SUFFICES ASSUME NEW k \in 1 .. PopCount(list), NEW l \in 1 .. PopCount(list), k < l
                PROVE  Before(pushes, s[k], s[l])
    BY <1>2, Zenon
  <2>1. m - k + 1 \in 1 .. m /\ m - l + 1 \in 1 .. m /\ m - l + 1 < m - k + 1
    BY <1>2, <1>3
  <2>2. s[k] = list[m - k + 1] /\ s[l] = list[m - l + 1]
    BY <1>2, Zenon
  <2>. QED  BY <1>4, <2>1, <2>2, Zenon
<1>8. InHand(p)' = Range(s) /\ worker'[p].hand = s /\ \A q \in Procs : q # p => InHand(q)' = InHand(q)
  BY Zenon DEF InHand, s
<1>9. Logged' = Logged /\ IsInjective(pushes')
  BY Zenon DEF Logged, OrderInv
<1>10. Range(list') \subseteq Range(list)
  <2>1. 1 .. n \subseteq 1 .. m
    BY <1>2, <1>3
  <2>. QED  BY <1>3, <2>1, Zenon DEF Range
<1>11. \A d \in Logged', e \in Range(list') : Before(pushes', d, e)
  BY <1>9, <1>10, Zenon DEF OrderInv, PushedBefore
<1>12. \A q \in Procs : \A d \in InHand(q)', e \in Range(list') : Before(pushes', d, e)
  BY <1>6, <1>8, <1>10, Zenon DEF OrderInv, PushedBefore
<1>13. \A q \in Procs : \A k, l \in DOMAIN worker'[q].hand :
         k < l => Before(pushes', worker'[q].hand[k], worker'[q].hand[l])
  BY <1>7, <1>8, Zenon DEF OrderInv, PushedBefore
<1>14. \A i, j \in DOMAIN rows' : rows'[i].entry = rows'[j].entry => i = j
  BY Zenon DEF OrderInv
<1>. QED  BY <1>5, <1>9, <1>11, <1>12, <1>13, <1>14, Zenon DEF OrderInv, PushedBefore

-----------------------------------------------------------------------------
(* The log is faithful.                                                    *)

Faith == LogTypes /\ Places /\ OrderInv

\* A step of a worker or a task that moves no entry.
LEMMA StillFaith ==
  ASSUME Faith, UNCHANGED <<served, list, rows, lost, pushes>>, SameTasks,
         \A p \in Procs : worker'[p].hand = worker[p].hand
  PROVE  Places' /\ OrderInv'
<1>1. \A p \in Procs : InHand(p)' = InHand(p)
  BY Zenon DEF InHand
<1>2. Places'
  BY <1>1, StillPlaces, Zenon DEF Faith
<1>3. DOMAIN list' \subseteq DOMAIN list /\ \A i \in DOMAIN list' : list'[i] = list[i]
  BY Zenon
<1>4. OrderInv'
  BY <1>3, OrderShrinks, Zenon DEF Faith
<1>. QED  BY <1>2, <1>4, Zenon

\* A worker with nothing in hand goes elsewhere with nothing in hand.
LEMMA WorkerMoves ==
  ASSUME Faith, NEW p \in Procs, NEW w \in GoodWorkers, worker' = [worker EXCEPT ![p] = w],
         w.hand = <<>>, worker[p].at # "insert"
  PROVE  /\ worker[p].hand = <<>> /\ InHand(p) = {} /\ InHand(p)' = {}
         /\ \A q \in Procs : worker'[q].hand = worker[q].hand /\ InHand(q)' = InHand(q)
<1>1. worker \in [Procs -> GoodWorkers]
  BY Zenon DEF Faith, LogTypes
<1>2. worker[p].hand = <<>>
  BY <1>1, Zenon DEF GoodWorkers, WorkerOK
<1>3. worker'[p] = w /\ \A q \in Procs : q # p => worker'[q] = worker[q]
  BY <1>1, OneWorker, Zenon
<1>4. \A q \in Procs : worker'[q].hand = worker[q].hand
  BY <1>2, <1>3, Zenon
<1>5. Range(<<>>) = {}
  BY NothingToPop, Zenon
<1>. QED  BY <1>2, <1>4, <1>5, Zenon DEF InHand

\* The tasks: LPUSH, LTRIM and their failures.
LEMMA TaskFaith ==
  ASSUME Faith, NEW e \in Entries, Push(e) \/ PushFails(e) \/ Trim(e) \/ TrimFails(e)
  PROVE  Places' /\ OrderInv'
<1>0. /\ LogTypes /\ Places /\ OrderInv /\ list \in Seq(Entries)
      /\ task \in [Entries -> TaskStates]
  BY Zenon DEF Faith, LogTypes, TypeOK, TaskStates
<1>1. CASE Push(e)
  BY <1>0, <1>1, PushPlaces, OrderPush, Zenon
<1>2. CASE PushFails(e)
  <2>1. /\ task[e] = "push" /\ task' = [task EXCEPT ![e] = "trim"] /\ lost' = lost \cup {e}
        /\ UNCHANGED <<served, list, rows, pushes, worker>>
    BY <1>2, Zenon DEF PushFails
  <2>2. \A d \in Entries : /\ task'[d] = "push" <=> task[d] = "push" /\ d \notin {e}
                           /\ task'[d] = "none" <=> task[d] = "none"
    BY <1>0, <2>1, Zenon
  <2>3. \A p \in Procs : InHand(p)' = InHand(p) /\ worker'[p].hand = worker[p].hand
    BY <2>1, Zenon DEF InHand
  <2>4. DOMAIN list' \subseteq DOMAIN list /\ \A i \in DOMAIN list' : list'[i] = list[i]
    BY <2>1, Zenon
  <2>5. OrderInv'
    BY <1>0, <2>1, <2>3, <2>4, OrderShrinks, Zenon
  <2>. QED  BY <1>0, <2>1, <2>2, <2>3, <2>5, DropPlaces, Zenon
<1>3. CASE Trim(e)
  <2>1. /\ task[e] = "trim" /\ list' = Kept(list)
        /\ lost' = lost \cup {list[i] : i \in Len(Kept(list)) + 1 .. Len(list)}
        /\ task' = [d \in Entries |-> IF d = e \/ task[d] = "untrimmed" THEN "end" ELSE task[d]]
        /\ UNCHANGED <<served, worker, rows, pushes>>
    BY <1>3, Zenon DEF Trim
  <2>2. PICK k \in 0 .. Len(list) : k = Len(Kept(list)) /\ Kept(list) = SubSeq(list, 1, k)
    BY <1>0, KeptIsPrefix, Zenon
  <2>4. SameTasks
    BY <1>0, <2>1, Zenon DEF SameTasks
  <2>5. \A p \in Procs : InHand(p)' = InHand(p) /\ worker'[p].hand = worker[p].hand
    BY <2>1, Zenon DEF InHand
  <2>6. lost' = lost \cup {list[i] : i \in k + 1 .. Len(list)} /\ list' = SubSeq(list, 1, k)
    BY <2>1, <2>2, Zenon
  <2>7. Places'
    BY <1>0, <2>1, <2>4, <2>5, <2>6, CutPlaces, Zenon
  <2>8. DOMAIN list' \subseteq DOMAIN list /\ \A i \in DOMAIN list' : list'[i] = list[i]
    <3>1. /\ DOMAIN list' = 1 .. k
          /\ \A i \in 1 .. k : i \in DOMAIN list /\ list'[i] = list[i]
      BY <1>0, <2>6, CutEffect, Zenon
    <3>. QED  BY <3>1, Zenon
  <2>9. OrderInv'
    BY <1>0, <2>1, <2>5, <2>8, OrderShrinks, Zenon
  <2>. QED  BY <2>7, <2>9, Zenon
<1>4. CASE TrimFails(e)
  <2>1. /\ task[e] = "trim" /\ task' = [task EXCEPT ![e] = "untrimmed"]
        /\ UNCHANGED <<served, list, rows, lost, pushes, worker>>
    BY <1>4, Zenon DEF TrimFails
  <2>2. SameTasks
    BY <1>0, <2>1, Zenon DEF SameTasks
  <2>. QED  BY <2>1, <2>2, StillFaith, Zenon
<1>. QED  BY <1>1, <1>2, <1>3, <1>4, Zenon

\* The worker: RPOP, the INSERTs and their failures.
LEMMA WorkerFaith ==
  ASSUME Faith, NEW p \in Procs, Pop(p) \/ PopFails(p) \/ Insert(p) \/ InsertFails(p)
  PROVE  Places' /\ OrderInv'
<1>0. /\ LogTypes /\ Places /\ OrderInv /\ list \in Seq(Entries)
      /\ worker \in [Procs -> GoodWorkers] /\ worker[p] \in GoodWorkers
  BY Zenon DEF Faith, LogTypes, TypeOK
<1>1. CASE Insert(p)
  <2>1. /\ worker[p].at = "insert" /\ worker' = [worker EXCEPT ![p] = AfterRow(@)]
        /\ rows' = Append(rows, [entry |-> Head(worker[p].hand), time |-> now])
        /\ UNCHANGED <<served, task, list, lost, pushes>>
    BY <1>1, Zenon DEF Insert
  <2>. QED  BY <1>0, <2>1, InsertPlaces, OrderInsert, Zenon
<1>2. CASE InsertFails(p)
  <2>1. /\ worker[p].at = "insert" /\ worker' = [worker EXCEPT ![p] = AfterRow(@)]
        /\ UNCHANGED <<served, task, list, pushes>>
    BY <1>2, Zenon DEF InsertFails
  <2>2. CASE UNCHANGED rows /\ lost' = lost \cup {Head(worker[p].hand)}
    <3>1. Places'
      BY <1>0, <2>1, <2>2, InsertFailsPlaces, Zenon
    <3>2. /\ worker'[p].hand = Tail(worker[p].hand)
          /\ \A q \in Procs : q # p => worker'[q].hand = worker[q].hand
      BY <1>0, <2>1, InsertEffect, Zenon
    <3>3. worker[p].hand # <<>>
      BY <1>0, <2>1, HandAfterRow, Zenon
    <3>4. \A q \in Procs : \/ worker'[q].hand = worker[q].hand
                           \/ worker'[q].hand = <<>>
                           \/ worker[q].hand # <<>> /\ worker'[q].hand = Tail(worker[q].hand)
      BY <3>2, <3>3, Zenon
    <3>5. DOMAIN list' \subseteq DOMAIN list /\ \A i \in DOMAIN list' : list'[i] = list[i]
      BY <2>1, Zenon
    <3>6. OrderInv'
      BY <1>0, <2>1, <2>2, <3>4, <3>5, OrderShrinks, Zenon
    <3>. QED  BY <3>1, <3>6, Zenon
  <2>3. CASE /\ rows' = Append(rows, [entry |-> Head(worker[p].hand), time |-> now])
             /\ UNCHANGED lost
    BY <1>0, <2>1, <2>3, InsertPlaces, OrderInsert, Zenon
  <2>. QED  BY <1>2, <2>2, <2>3, Zenon DEF InsertFails
<1>. DEFINE n == Len(list) - PopCount(list)
<1>3. /\ n \in 0 .. Len(list) /\ Unpopped(list) = SubSeq(list, 1, n)
      /\ Popped(list) \in Seq(Entries) /\ DOMAIN Popped(list) = 1 .. PopCount(list)
      /\ Range(Popped(list)) = {list[i] : i \in n + 1 .. Len(list)}
  BY <1>0, PopTakesTheTail, Zenon
<1>. HIDE DEF n
<1>4. CASE Pop(p)
  <2>1. /\ worker[p].at = "pop" /\ list' = Unpopped(list)
        /\ UNCHANGED <<served, task, rows, lost, pushes>>
        /\ worker' = [worker EXCEPT ![p] =
             IF list = <<>> THEN Asleep
             ELSE [at |-> "insert", hand |-> Popped(list), left |-> @.left - 1,
                   full |-> PopCount(list) = BatchSize]]
    BY <1>4, Zenon DEF Pop
  <2>2. CASE list = <<>>
    <3>1. worker' = [worker EXCEPT ![p] = Asleep] /\ list' = list
      BY <2>1, <2>2, NothingToPop, Zenon
    <3>2. \A q \in Procs : worker'[q].hand = worker[q].hand
      BY <2>1, <3>1, EmptyHanded, WorkerMoves, Zenon
    <3>3. SameTasks
      BY <2>1, Zenon DEF SameTasks
    <3>. QED  BY <2>1, <3>1, <3>2, <3>3, StillFaith, Zenon
  <2>3. CASE list # <<>>
    <3>1. PICK v \in GoodWorkers : worker' = [worker EXCEPT ![p] = v] /\ v.hand = Popped(list)
      <4>. DEFINE w == [at |-> "insert", hand |-> Popped(list), left |-> worker[p].left - 1,
                        full |-> PopCount(list) = BatchSize]
      <4>1. w \in GoodWorkers /\ w.hand = Popped(list)
        BY <1>0, <2>1, <2>3, HandAfterPop
      <4>2. worker' = [worker EXCEPT ![p] = w]
        BY <2>1, <2>3, Zenon
      <4>. HIDE DEF w
      <4>. QED  BY <4>1, <4>2, Zenon
    <3>2. /\ worker'[p].hand = Popped(list) /\ InHand(p)' = Range(Popped(list))
          /\ \A q \in Procs : q # p => worker'[q] = worker[q] /\ InHand(q)' = InHand(q)
      BY <1>0, <3>1, OneWorker, Zenon
    <3>3. InHand(p) = {}
      <4>1. worker[p].hand = <<>>
        BY <1>0, <2>1, Zenon DEF GoodWorkers, WorkerOK
      <4>. QED  BY <4>1, NothingToPop, Zenon DEF InHand
    <3>4. Places'
      <4>1. InHand(p)' = {list[i] : i \in n + 1 .. Len(list)} /\ list' = SubSeq(list, 1, n)
        BY <1>3, <2>1, <3>2, Zenon
      <4>. QED  BY <1>0, <1>3, <2>1, <3>2, <3>3, <4>1, PopPlaces, Zenon
    <3>5. OrderInv'
      BY <1>0, <2>1, <3>2, OrderPop, Zenon
    <3>. QED  BY <3>4, <3>5, Zenon
  <2>. QED  BY <2>2, <2>3, Zenon
<1>5. CASE PopFails(p)
  <2>1. /\ worker[p].at = "pop" /\ worker' = [worker EXCEPT ![p] = Asleep]
        /\ UNCHANGED <<served, task, rows, pushes>>
    BY <1>5, Zenon DEF PopFails
  <2>2. \A q \in Procs : worker'[q].hand = worker[q].hand /\ InHand(q)' = InHand(q)
    BY <2>1, EmptyHanded, WorkerMoves, Zenon
  <2>3. SameTasks
    BY <2>1, Zenon DEF SameTasks
  <2>4. CASE UNCHANGED <<list, lost>>
    BY <2>1, <2>2, <2>3, <2>4, StillFaith, Zenon
  <2>5. CASE /\ list' = Unpopped(list)
             /\ lost' = lost \cup {Popped(list)[i] : i \in 1 .. PopCount(list)}
    <3>1. lost' = lost \cup {list[i] : i \in n + 1 .. Len(list)} /\ list' = SubSeq(list, 1, n)
      BY <1>3, <2>5, Zenon DEF Range
    <3>2. Places'
      BY <1>0, <1>3, <2>1, <2>2, <2>3, <3>1, CutPlaces
    <3>3. /\ DOMAIN list' = 1 .. n
          /\ \A i \in 1 .. n : i \in DOMAIN list /\ list'[i] = list[i]
      BY <1>0, <1>3, <3>1, CutEffect, Zenon
    <3>4. OrderInv'
      BY <1>0, <2>1, <2>2, <3>3, OrderShrinks, Zenon
    <3>. QED  BY <3>2, <3>4
  <2>. QED  BY <1>5, <2>4, <2>5, Zenon DEF PopFails
<1>. QED  BY <1>1, <1>2, <1>4, <1>5, Zenon

\* The end of a process.
LEMMA EndFaith ==
  ASSUME Faith, NEW p \in Procs, Exit(p) \/ Crash(p)
  PROVE  Places' /\ OrderInv'
<1>0. /\ LogTypes /\ Places /\ OrderInv /\ worker \in [Procs -> GoodWorkers]
      /\ task \in [Entries -> TaskStates]
  BY Zenon DEF Faith, LogTypes, TypeOK, TaskStates
<1>1. /\ worker' = [worker EXCEPT ![p] = Down] /\ DropTasks(p)
      /\ UNCHANGED <<served, list, rows, pushes>>
  BY Zenon DEF Exit, Crash
<1>2. \A e \in Entries : /\ task'[e] = "push" <=> task[e] = "push" /\ e \notin Unpushed(p)
                         /\ task'[e] = "none" <=> task[e] = "none"
  BY <1>0, <1>1, Zenon DEF DropTasks, Unpushed
<1>3. Unpushed(p) \in SUBSET Entries /\ \A e \in Unpushed(p) : task[e] = "push"
  BY Zenon DEF Unpushed
<1>4. /\ worker'[p].hand = <<>> /\ InHand(p)' = Range(<<>>)
      /\ \A q \in Procs : q # p => worker'[q] = worker[q] /\ InHand(q)' = InHand(q)
  <2>1. PICK w \in GoodWorkers : w = Down /\ w.hand = <<>>
    BY EmptyHanded, Zenon
  <2>2. worker \in [Procs -> GoodWorkers] /\ worker' = [worker EXCEPT ![p] = w]
    BY <1>0, <1>1, <2>1, Zenon
  <2>. QED  BY <2>1, <2>2, OneWorker, Zenon
<1>5. Range(<<>>) = {}
  BY NothingToPop, Zenon
<1>6. OrderInv'
  <2>1. DOMAIN list' \subseteq DOMAIN list /\ \A i \in DOMAIN list' : list'[i] = list[i]
    BY <1>1, Zenon
  <2>2. \A q \in Procs : worker'[q].hand = worker[q].hand \/ worker'[q].hand = <<>>
    BY <1>4, Zenon
  <2>. QED  BY <1>0, <1>1, <2>1, <2>2, OrderShrinks, Zenon
<1>7. \/ lost' = lost \cup Unpushed(p) /\ \A q \in Procs : InHand(q)' = InHand(q)
      \/ lost' = lost \cup Unpushed(p) \cup InHand(p) /\ InHand(p)' = {}
  <2>1. CASE Exit(p)
    <3>1. worker[p].hand = <<>>
      BY <2>1, EmptyHanded, Zenon DEF Exit
    <3>2. lost' = lost \cup Unpushed(p)
      BY <2>1, Zenon DEF Exit
    <3>. QED  BY <1>4, <1>5, <3>1, <3>2, Zenon DEF InHand
  <2>2. CASE Crash(p)
    BY <1>4, <1>5, <2>2, Zenon DEF Crash, InHand, Range
  <2>. QED  BY <2>1, <2>2, Zenon
<1>8. PICK gone \in SUBSET Entries : gone = Unpushed(p)
  BY <1>3, Zenon
<1>9. Places'
  BY <1>0, <1>1, <1>2, <1>3, <1>4, <1>7, <1>8, DropPlaces, Zenon
<1>. QED  BY <1>6, <1>9, Zenon

\* Every step keeps each entry in one place and in order.
LEMMA FaithStep == Faith /\ [Next]_vars => Faith'
<1>. SUFFICES ASSUME Faith, [Next]_vars PROVE Faith'
  OBVIOUS
<1>0. /\ LogTypes /\ LogTypes' /\ Places /\ worker \in [Procs -> GoodWorkers]
  BY LogTypeStep, Zenon DEF Faith, LogTypes
<1>. SUFFICES Places' /\ OrderInv'
  BY <1>0, Zenon DEF Faith
<1>1. ASSUME UNCHANGED <<served, task, list, worker, rows, lost, pushes>>
      PROVE  Places' /\ OrderInv'
  <2>1. SameTasks /\ \A p \in Procs : worker'[p].hand = worker[p].hand
    BY <1>1, Zenon DEF SameTasks
  <2>. QED  BY <1>1, <2>1, StillFaith, Zenon
<1>2. CASE Tick \/ UNCHANGED vars \/ \E p \in Procs : Cancel(p)
  <2>1. UNCHANGED <<served, task, list, worker, rows, lost, pushes>>
    BY <1>2, Zenon DEF Tick, vars, Cancel
  <2>. QED  BY <1>1, <2>1, Zenon
<1>3. ASSUME NEW e \in Entries, Push(e) \/ PushFails(e) \/ Trim(e) \/ TrimFails(e)
      PROVE  Places' /\ OrderInv'
  BY <1>3, TaskFaith, Zenon
<1>4. ASSUME NEW p \in Procs, Pop(p) \/ PopFails(p) \/ Insert(p) \/ InsertFails(p)
      PROVE  Places' /\ OrderInv'
  BY <1>4, WorkerFaith, Zenon
<1>5. ASSUME NEW p \in Procs, Exit(p) \/ Crash(p)
      PROVE  Places' /\ OrderInv'
  BY <1>5, EndFaith, Zenon
<1>6. ASSUME NEW p \in Procs, Serve(p)
      PROVE  Places' /\ OrderInv'
  <2>1. /\ served < Last /\ served' = served + 1
        /\ task' = [task EXCEPT ![served + 1] = "push"]
        /\ UNCHANGED <<list, rows, lost, pushes, worker>>
    BY <1>6, Zenon DEF Serve
  <2>2. Places'
    BY <1>0, <2>1, ServePlaces, Zenon
  <2>3. /\ DOMAIN list' \subseteq DOMAIN list /\ \A i \in DOMAIN list' : list'[i] = list[i]
        /\ \A q \in Procs : worker'[q].hand = worker[q].hand
    BY <2>1, Zenon
  <2>4. OrderInv'
    BY <1>0, <2>1, <2>3, OrderShrinks, Zenon DEF Faith
  <2>. QED  BY <2>2, <2>4, Zenon
<1>7. ASSUME NEW p \in Procs, WakeUp(p) \/ StopWorker(p) \/ Restart(p)
      PROVE  Places' /\ OrderInv'
  <2>1. UNCHANGED <<served, task, list, rows, lost, pushes>>
    BY <1>7, Zenon DEF WakeUp, StopWorker, Restart
  <2>2. MaxBatches \in 1 .. MaxBatches
    BY LogConstants
  <2>3. worker[p].at # "insert"
    BY <1>7, DownIsIdle, Zenon DEF WakeUp, StopWorker, Restart
  <2>4. PICK w \in GoodWorkers : worker' = [worker EXCEPT ![p] = w] /\ w.hand = <<>>
    BY <1>7, <2>2, EmptyHanded, Zenon DEF WakeUp, StopWorker, Restart
  <2>5. \A q \in Procs : worker'[q].hand = worker[q].hand
    BY <2>3, <2>4, WorkerMoves, Zenon
  <2>6. SameTasks
    BY <2>1, Zenon DEF SameTasks
  <2>. QED  BY <2>1, <2>5, <2>6, StillFaith, Zenon
<1>. QED  BY <1>2, <1>3, <1>4, <1>5, <1>6, <1>7, Zenon DEF Next

\* Nothing is anywhere at first.
LEMMA FaithInit == Init => Faith
<1>. SUFFICES ASSUME Init PROVE Faith
  OBVIOUS
<1>1. /\ list = <<>> /\ rows = <<>> /\ pushes = <<>> /\ lost = {} /\ served = 0 /\ now = 0
      /\ faults = 0
      /\ \A p \in Procs : worker[p] = Asleep /\ worker[p].hand = <<>>
      /\ \A e \in Entries : task[e] = "none"
  BY EmptyHanded, Zenon DEF Init
<1>2. worker \in [Procs -> GoodWorkers]
  BY EmptyHanded, Zenon DEF Init
<1>3. worker \in [Procs -> WorkerStates]
  BY <1>2, Zenon DEF GoodWorkers
<1>4. TypeOK
  <2>1. now \in 0 .. MaxTime /\ served \in 0 .. Last /\ faults \in 0 .. MaxFaults
    BY <1>1, LogConstants
  <2>2. list \in Seq(Entries) /\ pushes \in Seq(Entries) /\ lost \subseteq Entries
        /\ rows \in Seq([entry : Entries, time : 0 .. MaxTime])
    BY <1>1
  <2>3. /\ task \in [Entries -> {"none", "push", "trim", "untrimmed", "end"}]
        /\ by \in [Entries -> Procs \cup {NULL}] /\ cancelled \in [Procs -> BOOLEAN]
    BY Zenon DEF Init
  <2>. QED  BY <1>3, <2>1, <2>2, <2>3, Zenon DEF TypeOK, WorkerStates
<1>5. DOMAIN <<>> = {} /\ Range(<<>>) = {}
  BY DEF Range
<1>6. /\ Range(list) = {} /\ Range(pushes) = {} /\ Logged = {}
      /\ \A p \in Procs : InHand(p) = {}
  BY <1>1, <1>5, Zenon DEF Logged, InHand
<1>7. Places
  <2>1. 1 .. served = {}
    BY <1>1
  <2>. QED  BY <1>1, <1>6, <2>1, Zenon DEF Places
<1>8. OrderInv
  BY <1>1, <1>5, <1>6, Zenon DEF OrderInv, IsInjective
<1>. QED  BY <1>2, <1>4, <1>7, <1>8, Zenon DEF Faith, LogTypes

\* The invariant holds in every reachable state.
LEMMA FaithAlways == Spec => []Faith
BY FaithInit, FaithStep, PTL DEF Spec

\* TypeOK: the worker's batch budget never underflows, and what it holds in hand
\* came from the list.
THEOREM LogTypeCorrect == Spec => []TypeOK
<1>1. Faith => TypeOK
  BY Zenon DEF Faith, LogTypes
<1>. QED  BY <1>1, FaithAlways, PTL

-----------------------------------------------------------------------------
(* The list in Redis stays bounded.                                        *)

\* The bound, and what it rests on: an entry not yet served has no task.
ListInv ==
  /\ served \in Nat
  /\ task \in [Entries -> TaskStates]
  /\ list \in Seq(Entries)
  /\ \A e \in Entries : e > served => task[e] = "none"
  /\ ListBounded

\* The pushes without a trim are finitely many.
LEMMA UntrimmedFinite ==
  IsFiniteSet(Untrimmed) /\ Cardinality(Untrimmed) \in Nat
<1>1. IsFiniteSet(Entries)
  BY LogConstants, FS_Interval DEF Entries
<1>2. Untrimmed \subseteq Entries
  BY Zenon DEF Untrimmed
<1> QED BY <1>1, <1>2, FS_Subset, FS_CardinalityType, Zenon

\* The same after a step.
LEMMA UntrimmedFiniteNext ==
  IsFiniteSet(Untrimmed') /\ Cardinality(Untrimmed') \in Nat
<1>1. IsFiniteSet(Entries)
  BY LogConstants, FS_Interval DEF Entries
<1>2. Untrimmed' \subseteq Entries
  BY Zenon DEF Untrimmed
<1> QED BY <1>1, <1>2, FS_Subset, FS_CardinalityType, Zenon

\* One more push without a trim.
LEMMA OneMoreUntrimmed ==
  ASSUME ListInv, NEW e \in Entries, task[e] = "push",
         task' = [task EXCEPT ![e] = "trim"]
  PROVE  Cardinality(Untrimmed') = Cardinality(Untrimmed) + 1
<1>1. Untrimmed' = Untrimmed \cup {e} /\ e \notin Untrimmed
  BY Zenon DEF Untrimmed, ListInv
<1> QED BY <1>1, UntrimmedFinite, FS_AddElement, Zenon

\* A step that keeps the tasks and does not lengthen the list keeps the bound.
LEMMA ShorterKeepsInv ==
  ASSUME ListInv, UNCHANGED <<served, task>>, list' \in Seq(Entries), Len(list') <= Len(list)
  PROVE  ListInv'
<1>1. Untrimmed' = Untrimmed
  BY Zenon DEF Untrimmed
<1>2. Len(list) \in Nat /\ Len(list') \in Nat
  BY DEF ListInv
<1>3. MaxBuffered \in Nat /\ Cardinality(Untrimmed) \in Nat
  BY UntrimmedFinite, LogConstants, Zenon
<1>4. Len(list) <= MaxBuffered + Cardinality(Untrimmed)
  BY Zenon DEF ListInv, ListBounded
<1>5. Len(list') <= MaxBuffered + Cardinality(Untrimmed)
  BY <1>2, <1>3, <1>4
<1> QED BY <1>1, <1>5, Zenon DEF ListInv, ListBounded

\* The end of a process turns trims to come into trims missed.
LEMMA DropKeepsInv ==
  ASSUME ListInv, NEW p \in Procs, DropTasks(p), UNCHANGED <<served, list>>
  PROVE  ListInv'
<1>1. task' \in [Entries -> TaskStates]
  BY Zenon DEF ListInv, DropTasks, TaskStates
<1>2. \A e \in Entries : task'[e] \in {"trim", "untrimmed"} <=> task[e] \in {"trim", "untrimmed"}
  BY Zenon DEF ListInv, DropTasks, TaskStates
<1>3. Untrimmed' = Untrimmed
  BY <1>2, Zenon DEF Untrimmed
<1>4. \A e \in Entries : e > served => task'[e] = "none"
  BY Zenon DEF ListInv, DropTasks
<1> QED BY <1>1, <1>3, <1>4, Zenon DEF ListInv, ListBounded

\* The bound is inductive.
LEMMA ListInvStep == ListInv /\ [Next]_vars => ListInv'
<1> SUFFICES ASSUME ListInv, [Next]_vars PROVE ListInv'
  OBVIOUS
<1> USE DEF TaskStates
<1>0. /\ Len(list) \in Nat /\ served \in Nat /\ MaxBuffered \in Nat
      /\ Len(list) <= MaxBuffered + Cardinality(Untrimmed)
      /\ Cardinality(Untrimmed) \in Nat /\ Cardinality(Untrimmed') \in Nat
  BY UntrimmedFinite, UntrimmedFiniteNext, LogConstants DEF ListInv, ListBounded
<1>1. CASE UNCHANGED <<served, task, list>>
  BY <1>1, ShorterKeepsInv, <1>0 DEF ListInv
<1>2. CASE \E p \in Procs : Serve(p)
  <2>1. /\ served' = served + 1 /\ list' = list
        /\ task' = [task EXCEPT ![served + 1] = "push"] /\ served < Last
    BY <1>2, Zenon DEF Serve
  <2>2. served + 1 \in Entries /\ task[served + 1] = "none"
    BY <1>0, <2>1, LogConstants DEF Entries, ListInv
  <2>3. Untrimmed' = Untrimmed
    BY <2>1, <2>2, Zenon DEF Untrimmed, ListInv
  <2>4. task' \in [Entries -> TaskStates]
    BY <2>1, Zenon DEF ListInv
  <2>5. \A e \in Entries : e > served' => task'[e] = "none"
    BY <1>0, <2>1 DEF ListInv, Entries
  <2> QED BY <1>0, <2>1, <2>3, <2>4, <2>5 DEF ListInv, ListBounded
<1>3. CASE \E e \in Entries : Push(e)
  <2>1. PICK e \in Entries : Push(e)
    BY <1>3, Zenon
  <2>2. list' \in Seq(Entries) /\ Len(list') = Len(list) + 1
    BY <2>1 DEF Push, ListInv
  <2>3. Cardinality(Untrimmed') = Cardinality(Untrimmed) + 1
    BY <2>1, OneMoreUntrimmed, Zenon DEF Push
  <2>4. task' \in [Entries -> TaskStates] /\ \A d \in Entries : d > served' => task'[d] = "none"
    BY <2>1, Zenon DEF Push, ListInv
  <2>5. ListBounded'
    BY <1>0, <2>2, <2>3 DEF ListBounded
  <2> QED BY <2>1, <2>2, <2>4, <2>5 DEF Push, ListInv
<1>4. CASE \E e \in Entries : PushFails(e)
  <2>1. PICK e \in Entries : PushFails(e)
    BY <1>4
  <2>2. Cardinality(Untrimmed') = Cardinality(Untrimmed) + 1
    BY <2>1, OneMoreUntrimmed, Zenon DEF PushFails
  <2>3. task' \in [Entries -> TaskStates] /\ \A d \in Entries : d > served' => task'[d] = "none"
    BY <2>1, Zenon DEF PushFails, ListInv
  <2>4. ListBounded'
    BY <1>0, <2>1, <2>2 DEF ListBounded, PushFails
  <2> QED BY <2>1, <2>3, <2>4, Zenon DEF PushFails, ListInv
<1>5. CASE \E e \in Entries : Trim(e)
  <2>1. PICK e \in Entries : Trim(e)
    BY <1>5
  <2>2. list' \in Seq(Entries) /\ Len(list') <= MaxBuffered
    BY <2>1, KeptShort, Zenon DEF Trim, ListInv
  <2>3. ListBounded'
    BY <1>0, <2>2 DEF ListBounded
  <2>4. task' \in [Entries -> TaskStates] /\ \A d \in Entries : d > served' => task'[d] = "none"
    BY <2>1, Zenon DEF Trim, ListInv
  <2> QED BY <2>1, <2>2, <2>3, <2>4, Zenon DEF Trim, ListInv
<1>6. CASE \E e \in Entries : TrimFails(e)
  <2>1. PICK e \in Entries : TrimFails(e)
    BY <1>6
  <2>2. Untrimmed' = Untrimmed
    BY <2>1, Zenon DEF TrimFails, Untrimmed, ListInv
  <2>3. task' \in [Entries -> TaskStates] /\ \A d \in Entries : d > served' => task'[d] = "none"
    BY <2>1, Zenon DEF TrimFails, ListInv
  <2> QED BY <2>1, <2>2, <2>3, Zenon DEF TrimFails, ListInv, ListBounded
<1>7. CASE \E p \in Procs : Pop(p)
  <2>1. list' = Unpopped(list) /\ UNCHANGED <<served, task>>
    BY <1>7, Zenon DEF Pop
  <2> QED BY <2>1, UnpoppedShorter, ShorterKeepsInv, Zenon DEF ListInv
<1>8. CASE \E p \in Procs : PopFails(p)
  <2>1. (list' = Unpopped(list) \/ list' = list) /\ UNCHANGED <<served, task>>
    BY <1>8, Zenon DEF PopFails
  <2> QED BY <1>0, <2>1, UnpoppedShorter, ShorterKeepsInv DEF ListInv
<1>9. CASE \E p \in Procs : Exit(p) \/ Crash(p)
  BY <1>9, DropKeepsInv, Zenon DEF Exit, Crash
<1> QED BY <1>1, <1>2, <1>3, <1>4, <1>5, <1>6, <1>7, <1>8, <1>9, Zenon
        DEF Next, vars, Tick, WakeUp, Insert, InsertFails, StopWorker, Cancel, Restart

\* The Redis list never exceeds MAX_BUFFERED_LOGS by more than the pushes that no
\* trim has followed yet.
THEOREM LogBounded == Spec => []ListBounded
<1>1. Init => ListInv
  <2> SUFFICES ASSUME Init PROVE ListInv
    OBVIOUS
  <2>1. Len(list) = 0 /\ list \in Seq(Entries)
    BY DEF Init
  <2>2. ListBounded
    BY <2>1, UntrimmedFinite, LogConstants DEF ListBounded
  <2> QED BY <2>1, <2>2, Zenon DEF Init, ListInv, TaskStates
<1>2. ListInv => ListBounded
  BY Zenon DEF ListInv
<1> QED BY <1>1, <1>2, ListInvStep, PTL DEF Spec

-----------------------------------------------------------------------------
(* Nothing is logged twice or vanishes.                                    *)

\* A set of at most one element.
LEMMA OneAtMost ==
  ASSUME NEW S, \A x, y \in S : x = y
  PROVE  IsFiniteSet(S) /\ Cardinality(S) = IF S = {} THEN 0 ELSE 1
<1>1. CASE S = {}
  BY <1>1, FS_EmptySet, Zenon
<1>2. ASSUME NEW x \in S PROVE IsFiniteSet(S) /\ Cardinality(S) = 1
  <2>1. S = {x}
    BY <1>2, Zenon
  <2>. QED  BY <2>1, FS_Singleton, Zenon
<1>. QED  BY <1>1, <1>2, Zenon

\* An entry has a copy for each place that it is in, which is one at most.
LEMMA OneCopy ==
  ASSUME Faith, NEW e \in Entries
  PROVE  /\ Copies(e) = (IF e \in Range(list) THEN 1 ELSE 0) + (IF e \in Logged THEN 1 ELSE 0)
                        + (IF \E p \in Procs : e \in InHand(p) THEN 1 ELSE 0)
         /\ Copies(e) \in {0, 1}
         /\ Copies(e) = 1 <=> e \in Range(list) \cup Logged \cup UNION {InHand(p) : p \in Procs}
<1>. DEFINE A == {i \in DOMAIN list : list[i] = e}
            B == {i \in DOMAIN rows : rows[i].entry = e}
            C == {h \in Procs \X (1 .. BatchSize) :
                    h[2] \in DOMAIN worker[h[1]].hand /\ worker[h[1]].hand[h[2]] = e}
<1>0. LogTypes /\ Places /\ OrderInv
  BY Zenon DEF Faith
<1>1. Cardinality(A) = IF e \in Range(list) THEN 1 ELSE 0
  <2>1. \A i, j \in DOMAIN list : list[i] = list[j] => i = j
    <3>1. DOMAIN list = 1 .. Len(list)
      BY <1>0 DEF LogTypes, TypeOK
    <3>. QED  BY <1>0, <3>1, NoneTwice, Zenon
  <2>2. \A i, j \in A : i = j
    BY <2>1, Zenon
  <2>3. A = {} <=> e \notin Range(list)
    BY Zenon DEF Range
  <2>. HIDE DEF A
  <2>. QED  BY <2>2, <2>3, OneAtMost, Zenon
<1>2. Cardinality(B) = IF e \in Logged THEN 1 ELSE 0
  <2>2. \A i, j \in B : i = j
    BY <1>0, Zenon DEF OrderInv
  <2>3. B = {} <=> e \notin Logged
    BY Zenon DEF Logged
  <2>. HIDE DEF B
  <2>. QED  BY <2>2, <2>3, OneAtMost, Zenon
<1>3. Cardinality(C) = IF \E p \in Procs : e \in InHand(p) THEN 1 ELSE 0
  <2>1. \A p \in Procs : DOMAIN worker[p].hand = 1 .. Len(worker[p].hand)
                         /\ DOMAIN worker[p].hand \subseteq 1 .. BatchSize
    <3>1. \A p \in Procs : worker[p] \in WorkerStates /\ WorkerOK(worker[p])
      BY <1>0, Zenon DEF LogTypes, GoodWorkers
    <3>2. \A p \in Procs : worker[p].hand \in Seq(Entries) /\ Len(worker[p].hand) <= BatchSize
      BY <3>1, Zenon DEF WorkerStates, WorkerOK
    <3>3. \A h \in Seq(Entries) :
            Len(h) <= BatchSize => DOMAIN h = 1 .. Len(h) /\ DOMAIN h \subseteq 1 .. BatchSize
      BY LogConstants
    <3>. QED  BY <3>2, <3>3, Zenon
  <2>2. \A p \in Procs : \A k, l \in DOMAIN worker[p].hand :
          worker[p].hand[k] = worker[p].hand[l] => k = l
    <3>1. \A p \in Procs : \A k, l \in 1 .. Len(worker[p].hand) :
            worker[p].hand[k] = worker[p].hand[l] => k = l
      BY <1>0, NoneTwice, Zenon
    <3>. QED  BY <2>1, <3>1
  <2>3. \A g, h \in C : g = h
    <3>. SUFFICES ASSUME NEW g \in C, NEW h \in C PROVE g = h
      OBVIOUS
    <3>1. /\ g \in Procs \X (1 .. BatchSize) /\ h \in Procs \X (1 .. BatchSize)
          /\ g[2] \in DOMAIN worker[g[1]].hand /\ worker[g[1]].hand[g[2]] = e
          /\ h[2] \in DOMAIN worker[h[1]].hand /\ worker[h[1]].hand[h[2]] = e
      OBVIOUS
    <3>2. /\ g[1] \in Procs /\ h[1] \in Procs /\ g = <<g[1], g[2]>> /\ h = <<h[1], h[2]>>
      BY <3>1
    <3>3. e \in InHand(g[1]) /\ e \in InHand(h[1])
      BY <3>1, Zenon DEF InHand, Range
    <3>4. g[1] = h[1]
      BY <1>0, <3>2, <3>3, Zenon DEF Places
    <3>5. g[2] = h[2]
      BY <2>2, <3>1, <3>2, <3>4, Zenon
    <3>. QED  BY <3>2, <3>4, <3>5, Zenon
  <2>4. ASSUME NEW p \in Procs, e \in InHand(p) PROVE C # {}
    <3>1. PICK k \in DOMAIN worker[p].hand : worker[p].hand[k] = e
      BY <2>4, Zenon DEF InHand, Range
    <3>2. <<p, k>> \in C
      BY <2>1, <3>1, Zenon
    <3>. QED  BY <3>2, Zenon
  <2>5. ASSUME NEW h \in C PROVE h[1] \in Procs /\ e \in InHand(h[1])
    BY <2>5, Zenon DEF InHand, Range
  <2>6. C = {} <=> ~\E p \in Procs : e \in InHand(p)
    BY <2>4, <2>5, Zenon
  <2>. HIDE DEF C
  <2>. QED  BY <2>3, <2>6, OneAtMost, Zenon
<1>4. Copies(e) = Cardinality(A) + Cardinality(B) + Cardinality(C)
  BY Zenon DEF Copies
<1>5. /\ ~(e \in Range(list) /\ e \in Logged)
      /\ ~(e \in Range(list) \cup Logged /\ \E p \in Procs : e \in InHand(p))
  BY <1>0, Zenon DEF Places
<1>6. (\E p \in Procs : e \in InHand(p)) <=> e \in UNION {InHand(p) : p \in Procs}
  BY Zenon
<1>. HIDE DEF A, B, C
<1>. QED  BY <1>1, <1>2, <1>3, <1>4, <1>5, <1>6

\* LogIsFaithful: with failed commands, lost answers, several workers, crashes and
\* restarts, record_request_metrics and the worker log no request twice, let none
\* vanish unseen, and drain them in the order in which they were pushed.
THEOREM LogFaithful == Spec => []LogIsFaithful
<1>1. Faith => LoggedOnce
  <2>. SUFFICES ASSUME Faith, NEW e \in Entries
                PROVE  /\ Copies(e) <= 1
                       /\ e <= served /\ e \notin lost => Copies(e) = 1 \/ task[e] = "push"
                       /\ e \in lost => Copies(e) = 0
    BY Zenon DEF LoggedOnce
  <2>1. /\ Copies(e) \in {0, 1}
        /\ Copies(e) = 1 <=> e \in Range(list) \cup Logged \cup UNION {InHand(p) : p \in Procs}
    BY OneCopy, Zenon
  <2>2. Places
    BY Zenon DEF Faith
  <2>3. e <= served /\ e \notin lost => Copies(e) = 1 \/ task[e] = "push"
    <3>1. e <= served => e \in 1 .. served
      BY LogConstants DEF Entries, Faith, LogTypes, TypeOK
    <3>. QED  BY <2>1, <2>2, <3>1, Zenon DEF Places
  <2>4. e \in lost => Copies(e) # 1
    BY <2>1, <2>2, Zenon DEF Places
  <2>. QED  BY <2>1, <2>3, <2>4
<1>2. Faith => Fifo
  <2>. SUFFICES ASSUME Faith PROVE Fifo
    OBVIOUS
  <2>1. OrderInv
    BY Zenon DEF Faith
  <2>2. \A i \in DOMAIN list : list[i] \in Range(list)
    BY Zenon DEF Range
  <2>3. \A r \in DOMAIN rows : rows[r].entry \in Logged
    BY Zenon DEF Logged
  <2>4. \A p \in Procs : \A k \in DOMAIN worker[p].hand : worker[p].hand[k] \in InHand(p)
    BY Zenon DEF InHand, Range
  <2>. QED  BY <2>1, <2>2, <2>3, <2>4, Zenon DEF Fifo, Hands, OrderInv
<1>. QED  BY <1>1, <1>2, FaithAlways, PTL DEF LogIsFaithful

-----------------------------------------------------------------------------
(* The dashboard accounts for the requests.                                *)

\* The rows are of requests that were served, none of them lost.
LEMMA RowsServed ==
  ASSUME Faith
  PROVE  /\ \A i \in DOMAIN rows : /\ rows[i].entry \in 1 .. served /\ rows[i].entry \notin lost
                                   /\ rows[i].entry \in Entries /\ rows[i].time \in Nat
         /\ IsFiniteSet(DOMAIN rows)
<1>1. LogTypes /\ Places /\ served \in 0 .. Last /\ rows \in Seq([entry : Entries, time : 0 .. MaxTime])
  BY Zenon DEF Faith, LogTypes, TypeOK
<1>2. /\ DOMAIN rows = 1 .. Len(rows) /\ Len(rows) \in Int
      /\ \A i \in DOMAIN rows : rows[i].entry \in Entries /\ rows[i].time \in Nat
  <2>. DEFINE R == [entry : Entries, time : 0 .. MaxTime]
  <2>1. \A r \in R : r.entry \in Entries /\ r.time \in Nat
    BY LogConstants
  <2>. HIDE DEF R
  <2>2. rows \in Seq(R)
    BY <1>1, Zenon DEF R
  <2>. QED  BY <2>1, <2>2
<1>3. \A i \in DOMAIN rows : rows[i].entry \in Logged
  BY Zenon DEF Logged
<1>4. \A e \in Logged : e \notin lost /\ Done(e)
  BY <1>1, Zenon DEF Places
<1>5. \A e \in Entries : Done(e) => e \in 1 .. served
  <2>1. \A e \in Entries : Done(e) => ~(e > served)
    BY <1>1, Zenon DEF Places, Done
  <2>2. served \in Nat /\ \A e \in Entries : e \in Nat /\ e >= 1
    BY <1>1, LogConstants DEF Entries
  <2>. QED  BY <2>1, <2>2
<1>6. IsFiniteSet(DOMAIN rows)
  BY <1>2, FS_Interval
<1>. QED  BY <1>2, <1>3, <1>4, <1>5, <1>6, Zenon

\* Counting rows is counting the requests they are of.
LEMMA RowsAreRequests ==
  ASSUME Faith, NEW S, S \subseteq DOMAIN rows
  PROVE  /\ IsFiniteSet(S) /\ Cardinality(S) \in Nat
         /\ Cardinality(S) = Cardinality({rows[i].entry : i \in S})
<1>. DEFINE T == {rows[i].entry : i \in S}
            f == [i \in S |-> rows[i].entry]
<1>1. IsFiniteSet(S)
  BY RowsServed, FS_Subset, Zenon
<1>2. \A i, j \in S : rows[i].entry = rows[j].entry => i = j
  BY Zenon DEF Faith, OrderInv
<1>3. f \in Bijection(S, T)
  BY <1>2, Zenon DEF Bijection, Injection, Surjection, IsInjective
<1>4. ExistsBijection(S, T)
  BY <1>3, Zenon DEF ExistsBijection
<1>5. Cardinality(T) = Cardinality(S)
  BY <1>1, <1>4, FS_Bijection, Zenon
<1>. QED  BY <1>1, <1>5, FS_CardinalityType, Zenon

\* Two kinds of rows that have none in common.
LEMMA RowsAdd ==
  ASSUME Faith, NEW S, NEW T, S \subseteq DOMAIN rows, T \subseteq DOMAIN rows, S \cap T = {}
  PROVE  Cardinality(S \cup T) = Cardinality(S) + Cardinality(T)
<1>1. IsFiniteSet(S) /\ IsFiniteSet(T) /\ Cardinality(S) \in Nat /\ Cardinality(T) \in Nat
  BY RowsAreRequests, Zenon
<1>2. Cardinality(S \cup T) = Cardinality(S) + Cardinality(T) - Cardinality(S \cap T)
  BY <1>1, FS_Union, Zenon
<1>3. Cardinality(S \cap T) = 0
  BY FS_EmptySet, Zenon
<1>. QED  BY <1>1, <1>2, <1>3

\* A user's rows are of requests served to them, and of all that were not lost
\* once the log has drained.
LEMMA RowsOfUser ==
  ASSUME Faith, NEW u \in Users
  PROVE  /\ RowsOf(u) \subseteq DOMAIN rows
         /\ \A i \in RowsOf(u) : rows[i].entry \in ServedTo(u) \ lost
         /\ IsFiniteSet(ServedTo(u))
         /\ Settled(u) => \A e \in ServedTo(u) \ lost : \E i \in RowsOf(u) : rows[i].entry = e
<1>1. /\ RowsOf(u) \subseteq DOMAIN rows
      /\ \A i \in RowsOf(u) : rows[i].entry \in ServedTo(u) \ lost
  BY RowsServed, Zenon DEF RowsOf, RowKey, ServedTo
<1>2. IsFiniteSet(ServedTo(u))
  <2>1. served \in Int /\ 1 \in Int
    BY DEF Faith, LogTypes, TypeOK
  <2>2. IsFiniteSet(1 .. served) /\ ServedTo(u) \in SUBSET (1 .. served)
    BY <2>1, FS_Interval, Zenon DEF ServedTo
  <2>. QED  BY <2>2, FS_Subset, Zenon
<1>3. Settled(u) => \A e \in ServedTo(u) \ lost : \E i \in RowsOf(u) : rows[i].entry = e
  BY Zenon DEF Settled, RowsOf, RowKey, ServedTo
<1>. QED  BY <1>1, <1>2, <1>3, Zenon

\* While the window covers it all, the counts of a drained log are those of the
\* requests, for any part of a user's requests.
LEMMA CountsAreRight ==
  ASSUME Faith, NEW u \in Users, Settled(u), now <= Day, NEW S
  PROVE  Cardinality({i \in Recent(u) : rows[i].entry \in S})
         = Cardinality({e \in ServedTo(u) \ lost : e \in S})
<1>. DEFINE R == {i \in Recent(u) : rows[i].entry \in S}
            D == {e \in ServedTo(u) \ lost : e \in S}
<1>1. \A i \in RowsOf(u) : i \in Recent(u)
  <2>1. \A i \in RowsOf(u) : rows[i].time \in Nat
    BY RowsServed, RowsOfUser, Zenon
  <2>2. now \in Nat /\ Day \in Nat
    BY LogConstants DEF Faith, LogTypes, TypeOK
  <2>. QED  BY <2>1, <2>2 DEF Recent
<1>2. R \subseteq DOMAIN rows /\ \A i \in R : i \in RowsOf(u)
  BY RowsOfUser, Zenon DEF Recent
<1>3. {rows[i].entry : i \in R} = D
  <2>1. \A i \in R : rows[i].entry \in D
    BY <1>2, RowsOfUser, Zenon
  <2>2. \A e \in D : \E i \in R : rows[i].entry = e
    BY <1>1, RowsOfUser, Zenon
  <2>. QED  BY <2>1, <2>2, Zenon
<1>. QED  BY <1>2, <1>3, RowsAreRequests, Zenon

\* The pages never show more than was served, and agree on the last day.
LEMMA PagesAgree ==
  ASSUME Faith, NEW u \in Users
  PROVE  /\ Activity(u) \cup RateLimits(u) \subseteq ServedTo(u)
         /\ Summary(u).recent + Summary(u).old <= Cardinality(ServedTo(u))
         /\ Usage(u).rest + Usage(u).graphql = Summary(u).recent
         /\ \A row \in Endpoints(u) :
              row.requests <= IF row.endpoint \in GraphqlPaths THEN Usage(u).graphql ELSE Usage(u).rest
<1>. DEFINE R == Recent(u)
            Old == {i \in RowsOf(u) : rows[i].time >= now - 2 * Day /\ rows[i].time < now - Day}
            Gql == {i \in R : RowPath(rows[i]) \in GraphqlPaths}
            Others == {i \in R : RowPath(rows[i]) \notin GraphqlPaths}
<1>0. /\ RowsOf(u) \subseteq DOMAIN rows
      /\ \A i \in RowsOf(u) : rows[i].entry \in ServedTo(u) /\ rows[i].entry \in Entries
      /\ R \subseteq RowsOf(u) /\ Old \subseteq RowsOf(u)
  BY RowsOfUser, RowsServed, Zenon DEF Recent
<1>1. /\ Summary(u).recent = Cardinality(R) /\ Summary(u).old = Cardinality(Old)
      /\ Usage(u).rest = Cardinality(Others) /\ Usage(u).graphql = Cardinality(Gql)
  BY Zenon DEF Summary, Usage
<1>2. Activity(u) \cup RateLimits(u) \subseteq ServedTo(u)
  BY <1>0, Zenon DEF Activity, RateLimits, Latest
<1>3. R \cap Old = {}
  <2>1. now \in Int /\ Day \in Int /\ \A i \in RowsOf(u) : rows[i].time \in Int
    <3>1. now \in 0 .. MaxTime /\ \A i \in RowsOf(u) : rows[i].time \in Nat
      BY <1>0, RowsServed, Zenon DEF Faith, LogTypes, TypeOK
    <3>. QED  BY <3>1, LogConstants
  <2>. QED  BY <2>1 DEF Recent
<1>4. R = Gql \cup Others /\ Gql \cap Others = {}
  BY Zenon
<1>5. IsFiniteSet(Gql) /\ IsFiniteSet(Others)
  <2>1. Gql \subseteq DOMAIN rows /\ Others \subseteq DOMAIN rows
    BY <1>0, Zenon
  <2>. QED  BY <2>1, RowsAreRequests, Zenon
<1>6. \A row \in Endpoints(u) :
        row.requests <= IF row.endpoint \in GraphqlPaths THEN Usage(u).graphql ELSE Usage(u).rest
  <2>. SUFFICES ASSUME NEW row \in Endpoints(u)
                PROVE  row.requests <= IF row.endpoint \in GraphqlPaths
                                       THEN Cardinality(Gql) ELSE Cardinality(Others)
    BY <1>1, Zenon
  <2>1. PICK p \in {RowPath(rows[i]) : i \in R} :
          row = [endpoint |-> p, requests |-> Cardinality({i \in R : RowPath(rows[i]) = p})]
    BY Zenon DEF Endpoints, PathCounts
  <2>. DEFINE Of == {i \in R : RowPath(rows[i]) = p}
  <2>2. row.requests = Cardinality(Of) /\ row.endpoint = p
    BY <2>1, Zenon
  <2>3. p \in GraphqlPaths => Of \in SUBSET Gql
    BY Zenon
  <2>4. p \notin GraphqlPaths => Of \in SUBSET Others
    BY Zenon
  <2>. HIDE DEF Of, Gql, Others
  <2>5. p \in GraphqlPaths => Cardinality(Of) <= Cardinality(Gql)
    BY <1>5, <2>3, FS_Subset, Zenon
  <2>6. p \notin GraphqlPaths => Cardinality(Of) <= Cardinality(Others)
    BY <1>5, <2>4, FS_Subset, Zenon
  <2>. QED  BY <2>2, <2>5, <2>6, Zenon
<1>. HIDE DEF R, Old, Gql, Others
<1>7. Cardinality(R) = Cardinality(Gql) + Cardinality(Others)
  BY <1>0, <1>4, RowsAdd, Zenon
<1>8. Cardinality(Gql) \in Nat /\ Cardinality(Others) \in Nat
  BY <1>0, <1>4, RowsAreRequests, Zenon
<1>9. Cardinality(R) + Cardinality(Old) <= Cardinality(ServedTo(u))
  <2>. DEFINE T == {rows[i].entry : i \in R \cup Old}
  <2>1. Cardinality(R \cup Old) = Cardinality(R) + Cardinality(Old)
    BY <1>0, <1>3, RowsAdd, Zenon
  <2>2. Cardinality(R \cup Old) = Cardinality(T)
    BY <1>0, RowsAreRequests, Zenon
  <2>3. T \in SUBSET ServedTo(u) /\ IsFiniteSet(ServedTo(u))
    BY <1>0, RowsOfUser, Zenon
  <2>4. Cardinality(T) <= Cardinality(ServedTo(u))
    BY <2>3, FS_Subset, Zenon
  <2>. QED  BY <2>1, <2>2, <2>4, Zenon
<1>10. Usage(u).rest + Usage(u).graphql = Summary(u).recent
  BY <1>1, <1>7, <1>8
<1>. QED  BY <1>1, <1>2, <1>6, <1>9, <1>10, Zenon

\* DashboardAccounts: the queries of admin_metrics.rs show a user their own requests
\* and never more of them than were served; once the log has drained, and while the
\* window covers it all, they show all that were not lost, and the pages agree.
THEOREM DashboardIsRight == Spec => []DashboardAccounts
<1>1. ASSUME Faith, NEW u \in Users, Settled(u), now <= Day
      PROVE  /\ Summary(u).recent = Cardinality(ServedTo(u) \ lost)
             /\ Summary(u).limited = Cardinality({e \in ServedTo(u) \ lost : Attr[e].status = "limited"})
             /\ Summary(u).errors = Cardinality({e \in ServedTo(u) \ lost : Attr[e].status = "error"})
  <2>. DEFINE D == ServedTo(u) \ lost
  <2>1. /\ Recent(u) \subseteq DOMAIN rows
        /\ \A i \in Recent(u) : rows[i].entry \in Entries
    BY <1>1, RowsOfUser, RowsServed, Zenon DEF Recent
  <2>2. Cardinality({i \in Recent(u) : rows[i].entry \in Entries}) = Cardinality({e \in D : e \in Entries})
    BY <1>1, CountsAreRight, Zenon
  <2>3. \A e \in D : e \in Entries
    <3>1. 1 .. served \subseteq Entries
      BY <1>1, PlacesAreEntries, Zenon DEF Faith
    <3>. QED  BY <3>1, Zenon DEF ServedTo
  <2>4. {i \in Recent(u) : rows[i].entry \in Entries} = Recent(u) /\ {e \in D : e \in Entries} = D
    BY <2>1, <2>3, Zenon
  <2>5. ASSUME NEW s
        PROVE  Cardinality({i \in Recent(u) : RowStatus(rows[i]) = s})
               = Cardinality({e \in D : Attr[e].status = s})
    <3>. DEFINE S == {e \in Entries : Attr[e].status = s}
    <3>1. {i \in Recent(u) : rows[i].entry \in S} = {i \in Recent(u) : RowStatus(rows[i]) = s}
      BY <2>1, Zenon DEF RowStatus
    <3>2. {e \in D : e \in S} = {e \in D : Attr[e].status = s}
      BY <2>3, Zenon
    <3>3. Cardinality({i \in Recent(u) : rows[i].entry \in S}) = Cardinality({e \in D : e \in S})
      <4>. HIDE DEF S
      <4>. QED  BY <1>1, CountsAreRight, Zenon
    <3>. HIDE DEF S, D
    <3>. QED  BY <3>1, <3>2, <3>3, Zenon
  <2>6. /\ Summary(u).recent = Cardinality(Recent(u))
        /\ Summary(u).limited = Cardinality({i \in Recent(u) : RowStatus(rows[i]) = "limited"})
        /\ Summary(u).errors = Cardinality({i \in Recent(u) : RowStatus(rows[i]) = "error"})
    BY Zenon DEF Summary
  <2>. QED  BY <2>2, <2>4, <2>5, <2>6, Zenon
<1>2. Faith => DashboardAccounts
  BY <1>1, PagesAgree, Zenon DEF DashboardAccounts
<1>. QED  BY <1>2, FaithAlways, PTL
=============================================================================
