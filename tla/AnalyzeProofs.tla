--------------------------- MODULE AnalyzeProofs ----------------------------
(***************************************************************************)
(* The pipeline of `analyze`, for any number of workers, capacity, input,  *)
(* findings and --fail-on options.                                         *)
(***************************************************************************)
EXTENDS Analyze, FiniteSetTheorems, SequenceTheorems, TLAPS

(* What TypeOK leaves out: the domains. *)
Labels == {"getline", "push", "close", "end", "join", "pool", "gate",
           "pop", "check", "parse", "load", "store"}
Shapes ==
  /\ pc \in [Threads -> Labels]
  /\ cur \in [Workers -> Lines \cup {"none"}]
  /\ found \in [Workers -> Seq(Types)]
  /\ loaded \in [Workers -> Nat]
  /\ log \in Seq(Lines)

(* The order in which the reader, the queue, the workers and main end. *)
Order ==
  /\ closed_ <=> pc["reader"] = "end"
  /\ pc["reader"] \in {"close", "end"} => done /\ at = Len(log)
  /\ pc["reader"] = "push" => at > 0
  /\ \A w \in Workers : pc[w] \in {"check", "end"} => closed_ /\ q_ = <<>>
  /\ pc["main"] # "join" => pc["reader"] = "end"
  /\ pc["main"] \in {"gate", "end"} => \A w \in Workers : pc[w] = "end"

(* Every line read is a header, popped, buffered, or about to be pushed. *)
Kept(n) == {k \in 1 .. n : ~IsHeader(k)}
InHand == IF pc["reader"] = "push" THEN 1 ELSE 0
Accounted == lines + Len(q_) + InHand = Cardinality(Kept(at))

(* No increment of counters is made twice; without a race none is lost. *)
Stores(w) == pc[w] = "store"
Tallies ==
  /\ \A t \in MeteredTypes : typed[t] = written[t]
  /\ \A t \in Types : counters[t] <= written[t]
  /\ \A w \in Workers : Stores(w) => loaded[w] <= written[Head(found[w])]
Unraced ==
  ~raced => /\ counters = written
            /\ \A w \in Workers : Stores(w) => loaded[w] = counters[Head(found[w])]
            /\ \A v, w \in Workers : Stores(v) /\ Stores(w)
                                       /\ Head(found[v]) = Head(found[w]) => v = w

(* The exit code is what the counters said, and say. *)
Decided ==
  exit # Running =>
    /\ pc["main"] = "end"
    /\ exit = 3 <=> \E t \in DOMAIN FailOn : CountOf(t) >= FailOn[t]

IInv == TypeOK /\ Shapes /\ Order /\ Accounted /\ Tallies /\ Unraced /\ Decided

-----------------------------------------------------------------------------
LEMMA ThreadsDistinct ==
  /\ "reader" \in Threads /\ "main" \in Threads /\ Workers \subseteq Threads
  /\ \A w \in Workers : w \in Threads /\ w # "reader" /\ w # "main"
BY AnalyzeAssumption DEF Threads

(* What a change of pc does. *)
LEMMA PcStep ==
  ASSUME pc \in [Threads -> Labels], NEW t \in Threads, NEW label \in Labels,
         Goto(t, label)
  PROVE  /\ pc' \in [Threads -> Labels]
         /\ pc'[t] = label
         /\ \A u \in Threads : u # t => pc'[u] = pc[u]
BY DEF Goto

(* One more line adds one to Kept unless it is the header. *)
LEMMA KeptGrows ==
  ASSUME NEW n \in Nat
  PROVE  /\ Cardinality(Kept(n)) \in Nat
         /\ Cardinality(Kept(n + 1)) =
              IF IsHeader(n + 1) THEN Cardinality(Kept(n)) ELSE Cardinality(Kept(n)) + 1
<1>1. IsFiniteSet(Kept(n))
  <2>1. IsFiniteSet(1 .. n)
    BY FS_Interval
  <2>2. Kept(n) \in SUBSET (1 .. n)
    BY DEF Kept
  <2> QED
    BY <2>1, <2>2, FS_Subset
<1>2. Cardinality(Kept(n)) \in Nat
  BY <1>1, FS_CardinalityType
<1>3. CASE IsHeader(n + 1)
  <2>1. Kept(n + 1) = Kept(n)
    BY <1>3 DEF Kept
  <2> QED
    BY <1>2, <1>3, <2>1
<1>4. CASE ~IsHeader(n + 1)
  <2>1. Kept(n + 1) = Kept(n) \cup {n + 1}
    BY <1>4 DEF Kept
  <2>2. n + 1 \notin Kept(n)
    BY DEF Kept
  <2>3. Cardinality(Kept(n) \cup {n + 1}) = Cardinality(Kept(n)) + 1
    BY <1>1, <2>2, FS_AddElement
  <2> QED
    BY <1>2, <1>4, <2>1, <2>3
<1> QED
  BY <1>3, <1>4

(* Which lines are kept depends on the input only. *)
LEMMA KeptStays == ASSUME UNCHANGED inputVars, NEW n PROVE Kept(n)' = Kept(n)
BY DEF Kept, IsHeader, inputVars

LEMMA InitIInv == Init => IInv
<1> SUFFICES ASSUME Init PROVE IInv
  OBVIOUS
<1>1. /\ pc["reader"] = "getline"
      /\ pc["main"] = "join"
      /\ \A w \in Workers : pc[w] = "pop"
  BY ThreadsDistinct DEF Init
<1>2. pc \in [Threads -> Labels]
  BY DEF Init, Labels
<1>3. log \in Seq(Lines)
  <2>1. PICK n \in 0 .. MaxLines : log \in [1 .. n -> Lines]
    BY DEF Init
  <2>2. n \in Nat
    BY <2>1, AnalyzeAssumption
  <2> QED
    BY <2>1, <2>2
<1>4. found \in [Workers -> Seq(Types)]
  BY EmptySeq DEF Init
<1>5. Shapes
  BY <1>2, <1>3, <1>4 DEF Init, Shapes
<1>6. q_ = <<>> /\ q_ \in Seq(Lines) /\ Len(q_) = 0 /\ at = 0 /\ lines = 0
  BY EmptySeq DEF Init, QueueInit
<1>7. QueueOK
  <2>1. Len(log) \in Nat
    BY <1>3, LenProperties
  <2>2. at \in 0 .. Len(log)
    BY <1>6, <2>1
  <2>3. closed_ = FALSE /\ done = FALSE /\ waiting = {}
    BY DEF Init, QueueInit
  <2> QED
    BY <1>1, <1>6, <2>2, <2>3 DEF QueueOK
<1>8. TallyOK
  BY DEF Init, TallyOK
<1>9. ASSUME NEW w \in Workers PROVE WorkerOK(w)
  BY <1>1, <1>4 DEF Init, WorkerOK
<1>10. TypeOK
  BY <1>1, <1>7, <1>8, <1>9 DEF Init, TypeOK
<1>11. Order
  BY <1>1 DEF Init, QueueInit, Order
<1>12. Accounted
  <2>1. Kept(at) = {}
    BY <1>6 DEF Kept
  <2>2. Cardinality(Kept(at)) = 0
    BY <2>1, FS_EmptySet
  <2>3. InHand = 0
    BY <1>1 DEF InHand
  <2> QED
    BY <1>6, <2>2, <2>3 DEF Accounted
<1>13. Tallies /\ Unraced
  <2>1. \A w \in Workers : ~Stores(w)
    BY <1>1 DEF Stores
  <2>2. /\ counters = written
        /\ \A t \in MeteredTypes : typed[t] = 0 /\ written[t] = 0
        /\ \A t \in Types : counters[t] = 0 /\ written[t] = 0
    BY AnalyzeAssumption DEF Init
  <2>3. Tallies
    BY <2>1, <2>2 DEF Tallies
  <2>4. Unraced
    BY <2>1, <2>2 DEF Unraced
  <2> QED
    BY <2>3, <2>4
<1>14. Decided
  BY DEF Init, Decided
<1> QED
  BY <1>5, <1>10, <1>11, <1>12, <1>13, <1>14 DEF IInv

-----------------------------------------------------------------------------
(* What the workers' part of the invariant asks of a step of another thread. *)
LEMMA WorkersUndisturbed ==
  ASSUME IInv, UNCHANGED <<workerVars, tallyVars>>,
         \A w \in Workers : pc'[w] = pc[w]
  PROVE  /\ \A w \in Workers : WorkerOK(w)'
         /\ TallyOK' /\ Tallies' /\ Unraced'
<1>1. ASSUME NEW w \in Workers PROVE WorkerOK(w)'
  <2>1. WorkerOK(w)
    BY DEF IInv, TypeOK
  <2> QED
    BY <2>1 DEF WorkerOK, workerVars
<1>2. TallyOK'
  BY DEF IInv, TypeOK, TallyOK, tallyVars
<1>3. \A w \in Workers : Stores(w)' <=> Stores(w)
  BY DEF Stores
<1>4. Tallies'
  BY <1>3 DEF IInv, Tallies, tallyVars, workerVars
<1>5. Unraced'
  BY <1>3 DEF IInv, Unraced, tallyVars, workerVars
<1> QED
  BY <1>1, <1>2, <1>4, <1>5

(* The same of main's part. *)
LEMMA VerdictUndisturbed ==
  ASSUME IInv, exit' = exit, counters' = counters, pc'["main"] = pc["main"]
  PROVE  /\ Decided' /\ exit' \in {Running, 0, 3}
         /\ pc'["main"] \in {"join", "pool", "gate", "end"}
<1>1. \A t : CountOf(t)' = CountOf(t)
  BY DEF CountOf
<1>2. Decided'
  BY <1>1 DEF IInv, Decided
<1> QED
  BY <1>2 DEF IInv, TypeOK

(* The facts that the reader's steps use. *)
LEMMA ReaderFacts ==
  ASSUME IInv
  PROVE  /\ q_ \in Seq(Lines) /\ Len(q_) \in Nat
         /\ log \in Seq(Lines) /\ Len(log) \in Nat
         /\ at \in 0 .. Len(log) /\ at \in Nat /\ lines \in Nat
         /\ closed_ \in BOOLEAN /\ done \in BOOLEAN
         /\ waiting \subseteq Workers \cup {"reader"}
         /\ pc \in [Threads -> Labels]
         /\ pc["reader"] \in {"getline", "push", "close", "end"}
         /\ pc["main"] \in {"join", "pool", "gate", "end"}
         /\ Order /\ Accounted
<1>1. /\ q_ \in Seq(Lines) /\ log \in Seq(Lines)
      /\ at \in 0 .. Len(log) /\ lines \in Nat
      /\ closed_ \in BOOLEAN /\ done \in BOOLEAN
      /\ waiting \subseteq Workers \cup {"reader"}
      /\ pc \in [Threads -> Labels]
      /\ pc["reader"] \in {"getline", "push", "close", "end"}
      /\ pc["main"] \in {"join", "pool", "gate", "end"}
      /\ Order /\ Accounted
  BY DEF IInv, TypeOK, QueueOK, TallyOK, Shapes
<1>2. Len(q_) \in Nat /\ Len(log) \in Nat
  BY <1>1, LenProperties
<1>3. at \in Nat
  BY <1>1, <1>2
<1> QED
  BY <1>1, <1>2, <1>3

LEMMA GetLineIInv == ASSUME IInv, GetLine PROVE IInv'
<1>0. /\ pc["reader"] = "getline" /\ at < Len(log) /\ at' = at + 1
      /\ UNCHANGED <<queueVars, inputVars, done, workerVars, tallyVars, exit>>
  BY DEF GetLine, At
<1> DEFINE label == IF IsHeader(at + 1) THEN "getline" ELSE "push"
<1>1. /\ pc' \in [Threads -> Labels] /\ pc'["reader"] = label
      /\ \A u \in Threads : u # "reader" => pc'[u] = pc[u]
  <2>1. label \in Labels /\ Goto("reader", label)
    BY DEF GetLine, Labels
  <2> HIDE DEF label
  <2> QED
    BY <2>1, ReaderFacts, ThreadsDistinct, PcStep
<1>2. pc'["main"] = pc["main"] /\ \A w \in Workers : pc'[w] = pc[w]
  BY <1>1, ThreadsDistinct
<1>3. /\ \A w \in Workers : WorkerOK(w)'
      /\ TallyOK' /\ Tallies' /\ Unraced'
  BY <1>0, <1>2, WorkersUndisturbed
<1>4. /\ Decided' /\ exit' \in {Running, 0, 3}
      /\ pc'["main"] \in {"join", "pool", "gate", "end"}
  BY <1>0, <1>2, VerdictUndisturbed DEF tallyVars
<1>5. QueueOK'
  BY <1>0, <1>1, ReaderFacts DEF QueueOK, queueVars, inputVars
<1>6. Shapes'
  BY <1>0, <1>1 DEF IInv, Shapes, workerVars, inputVars
<1>7. Order'
  BY <1>0, <1>1, <1>2, ReaderFacts DEF Order, queueVars, inputVars
<1>8. Accounted'
  <2>1. Kept(at)' = Kept(at + 1)
    BY <1>0 DEF Kept, IsHeader, inputVars
  <2>2. InHand = 0 /\ InHand' = IF IsHeader(at + 1) THEN 0 ELSE 1
    BY <1>0, <1>1 DEF InHand
  <2>3. lines' = lines /\ q_' = q_
    BY <1>0 DEF tallyVars, queueVars
  <2>4. lines + Len(q_) = Cardinality(Kept(at))
    BY <2>2, ReaderFacts DEF Accounted
  <2>5. Cardinality(Kept(at + 1)) = IF IsHeader(at + 1) THEN lines + Len(q_)
                                                       ELSE lines + Len(q_) + 1
    BY <2>4, ReaderFacts, KeptGrows
  <2> QED
    BY <2>1, <2>2, <2>3, <2>5, ReaderFacts DEF Accounted
<1> QED
  BY <1>3, <1>4, <1>5, <1>6, <1>7, <1>8 DEF IInv, TypeOK

LEMMA ReaderPushIInv == ASSUME IInv, ReaderPush PROVE IInv'
<1>0. /\ pc["reader"] = "push"
      /\ UNCHANGED <<inputVars, at, done, workerVars, tallyVars, exit>>
  BY DEF ReaderPush, At
<1>a. ~closed_ /\ log[at] \in Lines
  BY <1>0, ReaderFacts, ElementOfSeq DEF Order
<1>b. closed_' = closed_ /\ waiting' \subseteq Workers \cup {"reader"}
  BY ReaderFacts DEF ReaderPush, PushBlock, PushStore, PushRefuse, Block, NotifyAll, queueVars
<1>c. \/ q_' = q_ /\ UNCHANGED pc
      \/ q_' = Append(q_, log[at]) /\ Goto("reader", "getline")
  BY <1>a DEF ReaderPush, PushBlock, PushStore, PushRefuse, Block
<1>1. /\ pc' \in [Threads -> Labels] /\ pc'["reader"] \in {"push", "getline"}
      /\ \A u \in Threads : u # "reader" => pc'[u] = pc[u]
  BY <1>0, <1>c, ReaderFacts, ThreadsDistinct, PcStep DEF Labels
<1>2. pc'["main"] = pc["main"] /\ \A w \in Workers : pc'[w] = pc[w]
  BY <1>1, ThreadsDistinct
<1>3. /\ \A w \in Workers : WorkerOK(w)'
      /\ TallyOK' /\ Tallies' /\ Unraced'
  BY <1>0, <1>2, WorkersUndisturbed
<1>4. /\ Decided' /\ exit' \in {Running, 0, 3}
      /\ pc'["main"] \in {"join", "pool", "gate", "end"}
  BY <1>0, <1>2, VerdictUndisturbed DEF tallyVars
<1>d. q_' \in Seq(Lines) /\ Len(q_') + InHand' = Len(q_) + InHand
  <2>1. CASE q_' = q_ /\ UNCHANGED pc
    BY <2>1, ReaderFacts DEF InHand
  <2>2. CASE q_' = Append(q_, log[at]) /\ Goto("reader", "getline")
    <3>1. pc'["reader"] = "getline"
      BY <2>2, ReaderFacts, ThreadsDistinct, PcStep DEF Labels
    <3>2. q_' \in Seq(Lines) /\ Len(q_') = Len(q_) + 1
      BY <1>a, <2>2, ReaderFacts, AppendProperties
    <3> QED
      BY <1>0, <3>1, <3>2, ReaderFacts DEF InHand
  <2> QED
    BY <1>c, <2>1, <2>2
<1>5. QueueOK'
  BY <1>0, <1>1, <1>b, <1>d, ReaderFacts DEF QueueOK, inputVars
<1>6. Shapes'
  BY <1>0, <1>1 DEF IInv, Shapes, workerVars, inputVars
<1>7. Order'
  BY <1>0, <1>1, <1>2, <1>a, <1>b, ReaderFacts DEF Order, inputVars
<1>8. Accounted'
  <2>1. Kept(at)' = Kept(at) /\ lines' = lines
    BY <1>0 DEF Kept, IsHeader, inputVars, tallyVars
  <2>2. Len(q_') \in Nat /\ InHand \in Nat /\ InHand' \in Nat
    BY <1>d, LenProperties DEF InHand
  <2>3. lines + (Len(q_') + InHand') = Cardinality(Kept(at))
    BY <1>d, ReaderFacts, <2>2 DEF Accounted
  <2> QED
    BY <2>1, <2>2, <2>3, ReaderFacts DEF Accounted
<1> QED
  BY <1>3, <1>4, <1>5, <1>6, <1>7, <1>8 DEF IInv, TypeOK

LEMMA EndOfInputIInv == ASSUME IInv, EndOfInput PROVE IInv'
<1>0. /\ pc["reader"] \in {"getline", "close"}
      /\ UNCHANGED <<q_, inputVars, at, workerVars, tallyVars, exit>>
      /\ waiting' \subseteq waiting
  BY DEF EndOfInput, At, Close, NotifyAll, queueVars
<1>a. \/ /\ at = Len(log) /\ done' = TRUE /\ closed_' = closed_
         /\ pc["reader"] = "getline" /\ Goto("reader", "close")
      \/ /\ done' = done /\ closed_' = TRUE
         /\ pc["reader"] = "close" /\ Goto("reader", "end")
  BY DEF EndOfInput, At, Close, queueVars
<1>1. /\ pc' \in [Threads -> Labels]
      /\ \A u \in Threads : u # "reader" => pc'[u] = pc[u]
      /\ pc["reader"] = "getline" => pc'["reader"] = "close"
      /\ pc["reader"] = "close" => pc'["reader"] = "end"
  BY <1>a, ReaderFacts, ThreadsDistinct, PcStep DEF Labels
<1>2. pc'["main"] = pc["main"] /\ \A w \in Workers : pc'[w] = pc[w]
  BY <1>1, ThreadsDistinct
<1>3. /\ \A w \in Workers : WorkerOK(w)'
      /\ TallyOK' /\ Tallies' /\ Unraced'
  BY <1>0, <1>2, WorkersUndisturbed
<1>4. /\ Decided' /\ exit' \in {Running, 0, 3}
      /\ pc'["main"] \in {"join", "pool", "gate", "end"}
  BY <1>0, <1>2, VerdictUndisturbed DEF tallyVars
<1>5. QueueOK'
  BY <1>0, <1>1, <1>a, ReaderFacts DEF QueueOK, inputVars
<1>6. Shapes'
  BY <1>0, <1>1 DEF IInv, Shapes, workerVars, inputVars
<1>7. Order'
  BY <1>0, <1>1, <1>2, <1>a, ReaderFacts DEF Order, inputVars
<1>8. Accounted'
  <2>1. Kept(at)' = Kept(at) /\ lines' = lines
    BY <1>0 DEF Kept, IsHeader, inputVars, tallyVars
  <2>2. InHand' = InHand
    BY <1>0, <1>1 DEF InHand
  <2> QED
    BY <1>0, <2>1, <2>2, ReaderFacts DEF Accounted
<1> QED
  BY <1>3, <1>4, <1>5, <1>6, <1>7, <1>8 DEF IInv, TypeOK

-----------------------------------------------------------------------------
(* What every step of a worker leaves of main's part: main is not past the   *)
(* join of the pool, because a worker that steps has not ended.              *)
LEMMA WorkerFacts ==
  ASSUME IInv, NEW w \in Workers
  PROVE  /\ WorkerOK(w) /\ found[w] \in Seq(Types) /\ Len(found[w]) \in Nat
         /\ pc[w] # "end" => pc["main"] \in {"join", "pool"} /\ exit = Running
         /\ cur \in [Workers -> Lines \cup {"none"}]
         /\ found \in [Workers -> Seq(Types)]
         /\ loaded \in [Workers -> Nat]
<1>1. /\ WorkerOK(w) /\ found[w] \in Seq(Types)
      /\ cur \in [Workers -> Lines \cup {"none"}]
      /\ found \in [Workers -> Seq(Types)]
      /\ loaded \in [Workers -> Nat]
  BY DEF IInv, TypeOK, Shapes
<1>2. Len(found[w]) \in Nat
  BY <1>1, LenProperties
<1>3. pc["main"] \in {"gate", "end"} => pc[w] = "end"
  BY DEF IInv, Order
<1>4. exit # Running => pc["main"] = "end"
  BY DEF IInv, Decided
<1>5. pc["main"] \in {"join", "pool", "gate", "end"}
  BY DEF IInv, TypeOK
<1> QED
  BY <1>1, <1>2, <1>3, <1>4, <1>5

(* Main's part after a step of a worker. *)
LEMMA WorkerLeavesMain ==
  ASSUME IInv, NEW w \in Workers, pc[w] # "end", exit' = exit,
         pc'["main"] = pc["main"]
  PROVE  /\ Decided' /\ exit' \in {Running, 0, 3}
         /\ pc'["main"] \in {"join", "pool", "gate", "end"}
<1>1. exit' = Running /\ pc'["main"] \in {"join", "pool"}
  BY WorkerFacts
<1>2. Decided'
  BY <1>1 DEF Decided
<1> QED
  BY <1>1, <1>2

(* The other workers' part, when only w has changed. *)
LEMMA OthersUndisturbed ==
  ASSUME IInv, NEW w \in Workers, NEW v \in Workers, v # w,
         pc'[v] = pc[v], cur'[v] = cur[v], found'[v] = found[v], loaded'[v] = loaded[v]
  PROVE  WorkerOK(v)'
<1>1. WorkerOK(v)
  BY DEF IInv, TypeOK
<1> QED
  BY <1>1 DEF WorkerOK

(* A step of w that leaves the reader, the queue and its count alone. *)
LEMMA QueueUndisturbed ==
  ASSUME IInv, NEW w \in Workers, pc[w] # "end",
         UNCHANGED <<queueVars, inputVars, at, done, lines>>,
         \A u \in Threads : u # w => pc'[u] = pc[u],
         pc'[w] \in {"check", "end"} => closed_ /\ q_ = <<>>
  PROVE  QueueOK' /\ Order' /\ Accounted'
<1>1. pc'["reader"] = pc["reader"] /\ pc'["main"] = pc["main"]
  BY ThreadsDistinct
<1>2. QueueOK'
  BY <1>1, ReaderFacts DEF QueueOK, queueVars, inputVars
<1>3. Order'
  <2>1. pc["main"] \in {"join", "pool"}
    BY WorkerFacts
  <2>2. \A v \in Workers : pc'[v] \in {"check", "end"} => closed_ /\ q_ = <<>>
    BY ReaderFacts, ThreadsDistinct DEF Order
  <2> QED
    BY <1>1, <2>1, <2>2, ReaderFacts DEF Order, queueVars, inputVars
<1>4. Accounted'
  <2>1. Kept(at)' = Kept(at) /\ InHand' = InHand
    BY <1>1 DEF Kept, IsHeader, inputVars, InHand
  <2> QED
    BY <2>1, ReaderFacts DEF Accounted, queueVars
<1> QED
  BY <1>2, <1>3, <1>4

(* A step of w that leaves the counts alone and has no increment under way. *)
LEMMA TalliesUndisturbed ==
  ASSUME IInv, NEW w \in Workers, UNCHANGED <<findings, typed, counters, written, raced>>,
         lines' \in Nat, pc'[w] # "store",
         \A v \in Workers : v # w => /\ pc'[v] = pc[v] /\ found'[v] = found[v]
                                     /\ loaded'[v] = loaded[v]
  PROVE  TallyOK' /\ Tallies' /\ Unraced'
<1>1. \A v \in Workers : Stores(v)' => /\ v # w /\ Stores(v)
                                       /\ found'[v] = found[v] /\ loaded'[v] = loaded[v]
  BY DEF Stores
<1>2. TallyOK'
  BY DEF IInv, TypeOK, TallyOK
<1>3. Tallies'
  BY <1>1 DEF IInv, Tallies
<1>4. Unraced'
  BY <1>1 DEF IInv, Unraced
<1> QED
  BY <1>2, <1>3, <1>4

LEMMA PopIInv == ASSUME IInv, NEW w \in Workers, Pop(w) PROVE IInv'
<1>0. /\ pc[w] = "pop"
      /\ UNCHANGED <<inputVars, at, done, found, loaded, findings, typed, counters,
                     written, raced, exit>>
  BY DEF Pop, At
<1>a. CASE PopBlock(w) /\ UNCHANGED <<pc, cur, lines>>
  <2>1. UNCHANGED <<q_, closed_>> /\ waiting' = waiting \cup {w}
    BY <1>a DEF PopBlock, Block
  <2>2. /\ \A v \in Workers : WorkerOK(v)'
        /\ TallyOK' /\ Tallies' /\ Unraced'
    BY <1>0, <1>a, WorkersUndisturbed DEF workerVars, tallyVars
  <2>3. /\ Decided' /\ exit' \in {Running, 0, 3}
        /\ pc'["main"] \in {"join", "pool", "gate", "end"}
    BY <1>0, <1>a, VerdictUndisturbed
  <2>4. QueueOK'
    BY <1>0, <1>a, <2>1, ReaderFacts DEF QueueOK, inputVars
  <2>5. Shapes'
    BY <1>0, <1>a DEF IInv, Shapes, inputVars
  <2>6. Order'
    BY <1>0, <1>a, <2>1, ReaderFacts DEF Order, inputVars
  <2>7. Accounted'
    <3>1. Kept(at)' = Kept(at) /\ InHand' = InHand
      BY <1>0, <1>a DEF Kept, IsHeader, inputVars, InHand
    <3> QED
      BY <1>a, <2>1, <3>1, ReaderFacts DEF Accounted
  <2> QED
    BY <2>2, <2>3, <2>4, <2>5, <2>6, <2>7 DEF IInv, TypeOK
<1>b. CASE /\ PopTake
           /\ cur' = [cur EXCEPT ![w] = Head(q_)]
           /\ lines' = lines + 1
           /\ Goto(w, "parse")
  <2>1. /\ q_ # <<>> /\ q_' = Tail(q_) /\ waiting' = {} /\ closed_' = closed_
    BY <1>b DEF PopTake, NotifyAll
  <2>2. Head(q_) \in Lines /\ q_' \in Seq(Lines) /\ Len(q_') = Len(q_) - 1
    BY <2>1, ReaderFacts, HeadTailProperties
  <2>3. /\ pc' \in [Threads -> Labels] /\ pc'[w] = "parse"
        /\ \A u \in Threads : u # w => pc'[u] = pc[u]
    BY <1>b, ReaderFacts, ThreadsDistinct, PcStep DEF Labels
  <2>4. /\ pc'["main"] = pc["main"] /\ pc'["reader"] = pc["reader"]
        /\ \A v \in Workers : v # w => pc'[v] = pc[v]
    BY <2>3, ThreadsDistinct
  <2>5. /\ cur' \in [Workers -> Lines \cup {"none"}] /\ cur'[w] \in Lines
        /\ \A v \in Workers : v # w => cur'[v] = cur[v]
    BY <1>b, <2>2, WorkerFacts
  <2>6. WorkerOK(w)'
    BY <1>0, <2>3, <2>5, WorkerFacts DEF WorkerOK
  <2>7. ASSUME NEW v \in Workers PROVE WorkerOK(v)'
    BY <1>0, <2>4, <2>5, <2>6, OthersUndisturbed
  <2>8. TallyOK' /\ Tallies' /\ Unraced'
    BY <1>0, <1>b, <2>3, <2>4, ReaderFacts, TalliesUndisturbed
  <2>9. /\ Decided' /\ exit' \in {Running, 0, 3}
        /\ pc'["main"] \in {"join", "pool", "gate", "end"}
    BY <1>0, <2>4, WorkerLeavesMain
  <2>10. QueueOK'
    BY <1>0, <2>1, <2>2, <2>4, ReaderFacts DEF QueueOK, inputVars
  <2>11. Shapes'
    BY <1>0, <2>3, <2>5 DEF IInv, Shapes, inputVars
  <2>12. Order'
    <3>1. pc["main"] \in {"join", "pool"}
      BY <1>0, WorkerFacts
    <3>2. \A v \in Workers : pc'[v] \notin {"check", "end"}
      BY <2>1, <2>3, <2>4, ReaderFacts DEF Order
    <3> QED
      BY <1>0, <2>1, <2>4, <3>1, <3>2, ReaderFacts DEF Order, inputVars
  <2>13. Accounted'
    <3>1. Kept(at)' = Kept(at) /\ InHand' = InHand /\ InHand \in Nat
      BY <1>0, <2>4 DEF Kept, IsHeader, inputVars, InHand
    <3> QED
      BY <1>b, <2>2, <3>1, ReaderFacts DEF Accounted
  <2> QED
    BY <2>7, <2>8, <2>9, <2>10, <2>11, <2>12, <2>13 DEF IInv, TypeOK
<1>c. CASE PopNone /\ Goto(w, "check") /\ UNCHANGED <<cur, lines>>
  <2>1. closed_ /\ q_ = <<>> /\ UNCHANGED queueVars
    BY <1>c DEF PopNone, PopReady
  <2>2. /\ pc' \in [Threads -> Labels] /\ pc'[w] = "check"
        /\ \A u \in Threads : u # w => pc'[u] = pc[u]
    BY <1>c, ReaderFacts, ThreadsDistinct, PcStep DEF Labels
  <2>3. pc'["main"] = pc["main"] /\ \A v \in Workers : v # w => pc'[v] = pc[v]
    BY <2>2, ThreadsDistinct
  <2>4. WorkerOK(w)'
    BY <1>0, <1>c, <2>2, WorkerFacts DEF WorkerOK
  <2>5. ASSUME NEW v \in Workers PROVE WorkerOK(v)'
    BY <1>0, <1>c, <2>3, <2>4, OthersUndisturbed
  <2>6. TallyOK' /\ Tallies' /\ Unraced'
    BY <1>0, <1>c, <2>2, <2>3, ReaderFacts, TalliesUndisturbed
  <2>7. QueueOK' /\ Order' /\ Accounted'
    BY <1>0, <1>c, <2>1, <2>2, QueueUndisturbed
  <2>8. /\ Decided' /\ exit' \in {Running, 0, 3}
        /\ pc'["main"] \in {"join", "pool", "gate", "end"}
    BY <1>0, <2>3, WorkerLeavesMain
  <2>9. Shapes'
    BY <1>0, <1>c, <2>2 DEF IInv, Shapes, inputVars
  <2> QED
    BY <2>5, <2>6, <2>7, <2>8, <2>9 DEF IInv, TypeOK
<1> QED
  BY <1>a, <1>b, <1>c DEF Pop

LEMMA CheckIInv == ASSUME IInv, NEW w \in Workers, Check(w) PROVE IInv'
<1>0. /\ pc[w] = "check" /\ Goto(w, IF done THEN "end" ELSE "pop")
      /\ UNCHANGED <<queueVars, inputVars, at, done, workerVars, tallyVars, exit>>
  BY DEF Check, At
<1>1. closed_ /\ q_ = <<>>
  BY <1>0, ReaderFacts DEF Order
<1>2. /\ pc' \in [Threads -> Labels] /\ pc'[w] \in {"end", "pop"}
      /\ \A u \in Threads : u # w => pc'[u] = pc[u]
  BY <1>0, ReaderFacts, ThreadsDistinct, PcStep DEF Labels
<1>3. pc'["main"] = pc["main"] /\ \A v \in Workers : v # w => pc'[v] = pc[v]
  BY <1>2, ThreadsDistinct
<1>4. WorkerOK(w)'
  BY <1>0, <1>2, WorkerFacts DEF WorkerOK, workerVars
<1>5. ASSUME NEW v \in Workers PROVE WorkerOK(v)'
  BY <1>0, <1>3, <1>4, OthersUndisturbed DEF workerVars
<1>6. TallyOK' /\ Tallies' /\ Unraced'
  BY <1>0, <1>2, <1>3, ReaderFacts, TalliesUndisturbed DEF workerVars, tallyVars
<1>7. QueueOK' /\ Order' /\ Accounted'
  BY <1>0, <1>1, <1>2, QueueUndisturbed DEF tallyVars
<1>8. /\ Decided' /\ exit' \in {Running, 0, 3}
      /\ pc'["main"] \in {"join", "pool", "gate", "end"}
  BY <1>0, <1>3, WorkerLeavesMain
<1>9. Shapes'
  BY <1>0, <1>2 DEF IInv, Shapes, inputVars, workerVars
<1> QED
  BY <1>5, <1>6, <1>7, <1>8, <1>9 DEF IInv, TypeOK

LEMMA JudgeIInv == ASSUME IInv, NEW w \in Workers, Judge(w) PROVE IInv'
<1>0. /\ pc[w] = "parse" /\ cur' = [cur EXCEPT ![w] = "none"]
      /\ UNCHANGED <<queueVars, inputVars, at, done, loaded, tallyVars, exit>>
  BY DEF Judge, At
<1>a. PICK v \in Seq(Types) : /\ found' = [found EXCEPT ![w] = v]
                              /\ Goto(w, IF v = <<>> THEN "pop" ELSE "load")
  BY AnalyzeAssumption, EmptySeq DEF Judge
<1>2. /\ pc' \in [Threads -> Labels] /\ pc'[w] = IF v = <<>> THEN "pop" ELSE "load"
      /\ \A u \in Threads : u # w => pc'[u] = pc[u]
  BY <1>a, ReaderFacts, ThreadsDistinct, PcStep DEF Labels
<1>3. pc'["main"] = pc["main"] /\ \A u \in Workers : u # w => pc'[u] = pc[u]
  BY <1>2, ThreadsDistinct
<1>b. /\ found' \in [Workers -> Seq(Types)] /\ found'[w] = v
      /\ cur' \in [Workers -> Lines \cup {"none"}] /\ cur'[w] = "none"
      /\ \A u \in Workers : u # w => found'[u] = found[u] /\ cur'[u] = cur[u]
  BY <1>0, <1>a, WorkerFacts
<1>4. WorkerOK(w)'
  BY <1>0, <1>2, <1>b, WorkerFacts DEF WorkerOK
<1>5. ASSUME NEW u \in Workers PROVE WorkerOK(u)'
  BY <1>0, <1>3, <1>4, <1>b, OthersUndisturbed
<1>6. TallyOK' /\ Tallies' /\ Unraced'
  <2>1. /\ UNCHANGED <<findings, typed, counters, written, raced, lines, loaded>>
        /\ lines \in Nat
    BY <1>0, ReaderFacts DEF tallyVars
  <2>2. pc'[w] # "store"
    BY <1>2
  <2> QED
    BY <2>1, <2>2, <1>3, <1>b, TalliesUndisturbed
<1>7. QueueOK' /\ Order' /\ Accounted'
  BY <1>0, <1>2, QueueUndisturbed DEF tallyVars
<1>8. /\ Decided' /\ exit' \in {Running, 0, 3}
      /\ pc'["main"] \in {"join", "pool", "gate", "end"}
  BY <1>0, <1>3, WorkerLeavesMain
<1>9. Shapes'
  BY <1>0, <1>2, <1>b DEF IInv, Shapes, inputVars
<1> QED
  BY <1>5, <1>6, <1>7, <1>8, <1>9 DEF IInv, TypeOK

(* What the tallies say, at a glance. *)
LEMMA TallyFacts ==
  ASSUME IInv
  PROVE  /\ lines \in Nat /\ findings \in Nat
         /\ typed \in [MeteredTypes -> Nat]
         /\ counters \in [Types -> Nat] /\ written \in [Types -> Nat]
         /\ raced \in BOOLEAN /\ Tallies /\ Unraced
BY DEF IInv, TypeOK, TallyOK

LEMMA LoadCounterIInv == ASSUME IInv, NEW w \in Workers, LoadCounter(w) PROVE IInv'
<1> DEFINE t == Head(found[w])
<1>0. /\ pc[w] = "load" /\ findings' = findings + 1 /\ Goto(w, "store")
      /\ loaded' = [loaded EXCEPT ![w] = counters[t]]
      /\ raced' = (raced \/ \E v \in Workers : Storing(v, t))
      /\ UNCHANGED <<queueVars, inputVars, at, done, cur, found, lines, typed,
                     counters, written, exit>>
  BY DEF LoadCounter, At
<1>1. t \in Types /\ counters[t] \in Nat
  <2>1. found[w] # <<>>
    BY <1>0, WorkerFacts DEF WorkerOK
  <2>2. t \in Types
    BY <2>1, WorkerFacts, HeadTailProperties
  <2> QED
    BY <2>2, TallyFacts
<1>2. /\ pc' \in [Threads -> Labels] /\ pc'[w] = "store"
      /\ \A u \in Threads : u # w => pc'[u] = pc[u]
  BY <1>0, ReaderFacts, ThreadsDistinct, PcStep DEF Labels
<1>3. pc'["main"] = pc["main"] /\ \A u \in Workers : u # w => pc'[u] = pc[u]
  BY <1>2, ThreadsDistinct
<1>b. /\ loaded' \in [Workers -> Nat] /\ loaded'[w] = counters[t]
      /\ \A u \in Workers : u # w => loaded'[u] = loaded[u]
  BY <1>0, <1>1, WorkerFacts
<1>4. WorkerOK(w)'
  BY <1>0, <1>1, <1>2, <1>b, WorkerFacts DEF WorkerOK
<1>5. ASSUME NEW u \in Workers PROVE WorkerOK(u)'
  BY <1>0, <1>3, <1>4, <1>b, OthersUndisturbed
<1>6. TallyOK'
  <2>1. raced' \in BOOLEAN
    BY <1>0
  <2> QED
    BY <1>0, <2>1, TallyFacts DEF TallyOK
<1>c. /\ found' = found
      /\ \A u \in Workers : u # w => (Stores(u)' <=> Stores(u))
  BY <1>0, <1>3 DEF Stores
<1> HIDE DEF t
<1>7. Tallies'
  <2>1. counters[t] <= written[t]
    BY <1>1, TallyFacts DEF Tallies
  <2>2. ASSUME NEW u \in Workers, Stores(u)' PROVE loaded'[u] <= written'[Head(found'[u])]
    <3>1. CASE u = w
      BY <1>0, <1>b, <1>c, <2>1, <3>1 DEF t
    <3>2. CASE u # w
      BY <1>0, <1>b, <1>c, <2>2, <3>2, TallyFacts DEF Tallies
    <3> QED
      BY <3>1, <3>2
  <2> QED
    BY <1>0, <2>2, TallyFacts DEF Tallies
<1>8. Unraced'
  <2> SUFFICES ASSUME ~raced' PROVE Unraced'
    BY DEF Unraced
  <2>1. ~raced /\ \A v \in Workers : ~Storing(v, t)
    BY <1>0
  <2>2. counters = written /\ counters' = written'
    BY <1>0, <2>1, TallyFacts DEF Unraced
  <2>3. \A v \in Workers : Stores(v) => Head(found[v]) # t
    BY <2>1 DEF Storing, Stores
  <2>4. ASSUME NEW u \in Workers, Stores(u)' PROVE loaded'[u] = counters'[Head(found'[u])]
    <3>1. CASE u = w
      BY <1>0, <1>b, <1>c, <3>1 DEF t
    <3>2. CASE u # w
      BY <1>0, <1>b, <1>c, <2>1, <2>4, <3>2, TallyFacts DEF Unraced
    <3> QED
      BY <3>1, <3>2
  <2>5. ASSUME NEW u \in Workers, NEW v \in Workers, Stores(u)', Stores(v)',
               Head(found'[u]) = Head(found'[v])
        PROVE  u = v
    <3>1. CASE u = w
      BY <1>c, <2>3, <2>5, <3>1 DEF t
    <3>2. CASE v = w
      BY <1>c, <2>3, <2>5, <3>2 DEF t
    <3>3. CASE u # w /\ v # w
      BY <1>c, <2>1, <2>5, <3>3, TallyFacts DEF Unraced
    <3> QED
      BY <3>1, <3>2, <3>3
  <2> QED
    BY <2>2, <2>4, <2>5 DEF Unraced
<1>9. QueueOK' /\ Order' /\ Accounted'
  BY <1>0, <1>2, QueueUndisturbed
<1>10. /\ Decided' /\ exit' \in {Running, 0, 3}
       /\ pc'["main"] \in {"join", "pool", "gate", "end"}
  BY <1>0, <1>3, WorkerLeavesMain
<1>11. Shapes'
  BY <1>0, <1>2, <1>b DEF IInv, Shapes, inputVars
<1> QED
  BY <1>5, <1>6, <1>7, <1>8, <1>9, <1>10, <1>11 DEF IInv, TypeOK

LEMMA StoreCounterIInv == ASSUME IInv, NEW w \in Workers, StoreCounter(w) PROVE IInv'
<1> DEFINE t == Head(found[w])
<1>0. /\ pc[w] = "store"
      /\ counters' = [counters EXCEPT ![t] = loaded[w] + 1]
      /\ typed' = IF t \in MeteredTypes THEN [typed EXCEPT ![t] = @ + 1] ELSE typed
      /\ written' = [written EXCEPT ![t] = @ + 1]
      /\ found' = [found EXCEPT ![w] = Tail(@)]
      /\ Goto(w, IF Len(found[w]) = 1 THEN "pop" ELSE "load")
      /\ UNCHANGED <<queueVars, inputVars, at, done, cur, loaded, lines, findings,
                     raced, exit>>
  BY DEF StoreCounter, At
<1>a. found[w] # <<>> /\ loaded[w] \in Nat /\ Stores(w)
  BY <1>0, WorkerFacts DEF WorkerOK, Stores
<1>1. /\ t \in Types /\ Tail(found[w]) \in Seq(Types)
      /\ Len(Tail(found[w])) = Len(found[w]) - 1
  BY <1>a, WorkerFacts, HeadTailProperties
<1>2. /\ pc' \in [Threads -> Labels]
      /\ pc'[w] = IF Len(found[w]) = 1 THEN "pop" ELSE "load"
      /\ \A u \in Threads : u # w => pc'[u] = pc[u]
  BY <1>0, ReaderFacts, ThreadsDistinct, PcStep DEF Labels
<1>3. pc'["main"] = pc["main"] /\ \A u \in Workers : u # w => pc'[u] = pc[u]
  BY <1>2, ThreadsDistinct
<1>b. /\ found' \in [Workers -> Seq(Types)] /\ found'[w] = Tail(found[w])
      /\ \A u \in Workers : u # w => found'[u] = found[u]
  BY <1>0, <1>1, WorkerFacts
<1>c. found'[w] # <<>> <=> Len(found[w]) # 1
  <2> DEFINE rest == Tail(found[w])
  <2>1. rest \in Seq(Types) /\ Len(rest) = Len(found[w]) - 1 /\ found'[w] = rest
    BY <1>1, <1>b
  <2> HIDE DEF rest
  <2>2. rest # <<>> => Len(rest) \in Nat \ {0}
    BY <2>1, EmptySeq
  <2>3. rest = <<>> => Len(rest) = 0
    BY EmptySeq
  <2> QED
    BY <2>1, <2>2, <2>3, WorkerFacts
<1>4. WorkerOK(w)'
  BY <1>0, <1>2, <1>b, <1>c, WorkerFacts DEF WorkerOK
<1>5. ASSUME NEW u \in Workers PROVE WorkerOK(u)'
  BY <1>0, <1>3, <1>4, <1>b, OthersUndisturbed
<1>d. /\ counters' \in [Types -> Nat] /\ counters'[t] = loaded[w] + 1
      /\ \A s \in Types : s # t => counters'[s] = counters[s]
      /\ written' \in [Types -> Nat] /\ written'[t] = written[t] + 1
      /\ \A s \in Types : s # t => written'[s] = written[s]
  <2>1. /\ counters' = [counters EXCEPT ![t] = loaded[w] + 1]
        /\ written' = [written EXCEPT ![t] = @ + 1]
        /\ t \in Types /\ loaded[w] \in Nat
        /\ counters \in [Types -> Nat] /\ written \in [Types -> Nat]
    BY <1>0, <1>1, <1>a, TallyFacts
  <2> HIDE DEF t
  <2>2. written[t] \in Nat
    BY <2>1
  <2>3. /\ counters' \in [Types -> Nat] /\ counters'[t] = loaded[w] + 1
        /\ \A s \in Types : s # t => counters'[s] = counters[s]
    BY <2>1
  <2>4. /\ written' \in [Types -> Nat] /\ written'[t] = written[t] + 1
        /\ \A s \in Types : s # t => written'[s] = written[s]
    BY <2>1, <2>2
  <2> QED
    BY <2>3, <2>4
<1>e. /\ typed' \in [MeteredTypes -> Nat]
      /\ \A s \in MeteredTypes : typed'[s] = IF s = t THEN typed[s] + 1 ELSE typed[s]
  BY <1>0, TallyFacts
<1>6. TallyOK'
  BY <1>0, <1>d, <1>e, TallyFacts DEF TallyOK
<1>f. ASSUME NEW u \in Workers, Stores(u)'
      PROVE  /\ u # w /\ Stores(u) /\ found'[u] = found[u] /\ loaded'[u] = loaded[u]
             /\ Head(found[u]) \in Types /\ loaded[u] \in Nat
  <2>1. u # w /\ Stores(u)
    BY <1>2, <1>3, <1>f DEF Stores
  <2>2. WorkerOK(u) /\ found[u] \in Seq(Types)
    BY WorkerFacts
  <2>3. found[u] # <<>> /\ loaded[u] \in Nat
    BY <2>1, <2>2 DEF Stores, WorkerOK
  <2>4. Head(found[u]) \in Types
    BY <2>2, <2>3, HeadTailProperties
  <2> QED
    BY <1>0, <1>b, <2>1, <2>3, <2>4
<1>g. loaded[w] <= written[t]
  BY <1>a, TallyFacts DEF Tallies
<1> HIDE DEF t
<1>7. Tallies'
  <2>1. \A s \in MeteredTypes : typed'[s] = written'[s]
    BY <1>d, <1>e, TallyFacts, AnalyzeAssumption DEF Tallies
  <2>2. ASSUME NEW s \in Types PROVE counters'[s] <= written'[s]
    <3>1. CASE s = t
      BY <1>a, <1>d, <1>g, <3>1, TallyFacts
    <3>2. CASE s # t
      BY <1>d, <3>2, TallyFacts DEF Tallies
    <3> QED
      BY <3>1, <3>2
  <2>3. ASSUME NEW u \in Workers, Stores(u)' PROVE loaded'[u] <= written'[Head(found'[u])]
    <3> DEFINE h == Head(found[u])
    <3>1. /\ loaded'[u] = loaded[u] /\ Head(found'[u]) = h /\ loaded[u] \in Nat
          /\ h \in Types /\ Stores(u)
      BY <1>f, <2>3
    <3>2. loaded[u] <= written[h] /\ written[h] \in Nat
      BY <3>1, TallyFacts DEF Tallies
    <3> HIDE DEF h
    <3>3. written'[h] = written[h] \/ written'[h] = written[h] + 1
      BY <1>d, <3>1
    <3> QED
      BY <3>1, <3>2, <3>3
  <2> QED
    BY <2>1, <2>2, <2>3 DEF Tallies
<1>8. Unraced'
  <2> SUFFICES ASSUME ~raced' PROVE Unraced'
    BY DEF Unraced
  <2>1. /\ ~raced /\ counters = written
        /\ \A v \in Workers : Stores(v) => loaded[v] = counters[Head(found[v])]
        /\ \A u, v \in Workers : Stores(u) /\ Stores(v)
                                   /\ Head(found[u]) = Head(found[v]) => u = v
    BY <1>0, TallyFacts DEF Unraced
  <2>2. loaded[w] = counters[t]
    BY <1>a, <2>1 DEF t
  <2>3. \A s \in Types : counters'[s] = written'[s]
    BY <1>d, <2>1, <2>2
  <2>4. counters' = written'
    BY <1>d, <2>3
  <2>5. ASSUME NEW u \in Workers, Stores(u)' PROVE loaded'[u] = counters'[Head(found'[u])]
    <3>1. Head(found[u]) # t
      BY <1>a, <1>f, <2>1, <2>5 DEF t
    <3> QED
      BY <1>d, <1>f, <2>1, <2>5, <3>1
  <2>6. ASSUME NEW u \in Workers, NEW v \in Workers, Stores(u)', Stores(v)',
               Head(found'[u]) = Head(found'[v])
        PROVE  u = v
    BY <1>f, <2>1, <2>6
  <2> QED
    BY <2>4, <2>5, <2>6 DEF Unraced
<1>9. QueueOK' /\ Order' /\ Accounted'
  BY <1>0, <1>2, QueueUndisturbed
<1>10. /\ Decided' /\ exit' \in {Running, 0, 3}
       /\ pc'["main"] \in {"join", "pool", "gate", "end"}
  BY <1>0, <1>3, WorkerLeavesMain
<1>11. Shapes'
  BY <1>0, <1>2, <1>b DEF IInv, Shapes, inputVars
<1> QED
  BY <1>5, <1>6, <1>7, <1>8, <1>9, <1>10, <1>11 DEF IInv, TypeOK

-----------------------------------------------------------------------------
(* What the rest of the invariant asks of a step of main. *)
LEMMA MainLeavesQueue ==
  ASSUME IInv, UNCHANGED <<queueVars, inputVars, at, done, workerVars, tallyVars>>,
         pc' \in [Threads -> Labels],
         \A u \in Threads : u # "main" => pc'[u] = pc[u]
  PROVE  /\ \A w \in Workers : WorkerOK(w)'
         /\ QueueOK' /\ TallyOK' /\ Tallies' /\ Unraced' /\ Accounted' /\ Shapes'
<1>1. pc'["reader"] = pc["reader"] /\ \A w \in Workers : pc'[w] = pc[w]
  BY ThreadsDistinct
<1>2. /\ \A w \in Workers : WorkerOK(w)'
      /\ TallyOK' /\ Tallies' /\ Unraced'
  BY <1>1, WorkersUndisturbed
<1>3. QueueOK'
  BY <1>1, ReaderFacts DEF QueueOK, queueVars, inputVars
<1>4. Shapes'
  BY DEF IInv, Shapes, inputVars, workerVars
<1>5. Accounted'
  <2>1. Kept(at)' = Kept(at) /\ InHand' = InHand
    BY <1>1 DEF Kept, IsHeader, inputVars, InHand
  <2> QED
    BY <2>1, ReaderFacts DEF Accounted, queueVars, tallyVars
<1> QED
  BY <1>2, <1>3, <1>4, <1>5

LEMMA JoinIInv == ASSUME IInv, JoinReader \/ JoinPool PROVE IInv'
<1>0. /\ UNCHANGED <<queueVars, inputVars, at, done, workerVars, tallyVars, exit>>
      /\ \/ pc["main"] = "join" /\ pc["reader"] = "end" /\ Goto("main", "pool")
         \/ /\ pc["main"] = "pool" /\ Goto("main", "gate")
            /\ \A w \in Workers : pc[w] = "end"
  BY DEF JoinReader, JoinPool, At
<1>1. /\ pc' \in [Threads -> Labels]
      /\ \A u \in Threads : u # "main" => pc'[u] = pc[u]
      /\ \/ pc["main"] = "join" /\ pc["reader"] = "end" /\ pc'["main"] = "pool"
         \/ /\ pc["main"] = "pool" /\ pc'["main"] = "gate"
            /\ \A w \in Workers : pc[w] = "end"
  BY <1>0, ReaderFacts, ThreadsDistinct, PcStep DEF Labels
<1>2. pc'["reader"] = pc["reader"] /\ \A w \in Workers : pc'[w] = pc[w]
  BY <1>1, ThreadsDistinct
<1>3. /\ \A w \in Workers : WorkerOK(w)'
      /\ QueueOK' /\ TallyOK' /\ Tallies' /\ Unraced' /\ Accounted' /\ Shapes'
  BY <1>0, <1>1, MainLeavesQueue
<1>4. Order'
  BY <1>0, <1>1, <1>2, ReaderFacts DEF Order, queueVars, inputVars
<1>5. exit = Running
  BY <1>1 DEF IInv, Decided
<1>6. Decided'
  BY <1>0, <1>5 DEF Decided
<1>7. exit' \in {Running, 0, 3} /\ pc'["main"] \in {"join", "pool", "gate", "end"}
  BY <1>0, <1>1, <1>5
<1> QED
  BY <1>3, <1>4, <1>6, <1>7 DEF IInv, TypeOK

LEMMA GateIInv == ASSUME IInv, Gate PROVE IInv'
<1>0. /\ pc["main"] = "gate" /\ Goto("main", "end")
      /\ exit' = IF \E t \in DOMAIN FailOn : CountOf(t) >= FailOn[t] THEN 3 ELSE 0
      /\ UNCHANGED <<queueVars, inputVars, at, done, workerVars, tallyVars>>
  BY DEF Gate, At
<1>1. /\ pc' \in [Threads -> Labels] /\ pc'["main"] = "end"
      /\ \A u \in Threads : u # "main" => pc'[u] = pc[u]
  BY <1>0, ReaderFacts, ThreadsDistinct, PcStep DEF Labels
<1>2. pc'["reader"] = pc["reader"] /\ \A w \in Workers : pc'[w] = pc[w]
  BY <1>1, ThreadsDistinct
<1>3. /\ \A w \in Workers : WorkerOK(w)'
      /\ QueueOK' /\ TallyOK' /\ Tallies' /\ Unraced' /\ Accounted' /\ Shapes'
  BY <1>0, <1>1, MainLeavesQueue
<1>4. Order'
  BY <1>0, <1>1, <1>2, ReaderFacts DEF Order, queueVars, inputVars
<1>5. \A t : CountOf(t)' = CountOf(t)
  BY <1>0 DEF CountOf, tallyVars
<1> DEFINE fires == \E t \in DOMAIN FailOn : CountOf(t) >= FailOn[t]
<1>6. fires' <=> fires
  BY <1>5
<1>7. exit' = IF fires THEN 3 ELSE 0
  BY <1>0
<1> HIDE DEF fires
<1>8. exit' = 3 <=> fires'
  BY <1>6, <1>7
<1>9. exit' \in {Running, 0, 3}
  BY <1>7
<1>10. Decided'
  BY <1>1, <1>8 DEF Decided, fires
<1>11. pc'["main"] \in {"join", "pool", "gate", "end"}
  BY <1>1
<1> QED
  BY <1>3, <1>4, <1>9, <1>10, <1>11 DEF IInv, TypeOK

(* A spurious wakeup changes the wait set only; after the exit nothing changes. *)
LEMMA IdleIInv ==
  ASSUME IInv, waiting' \subseteq waiting,
         UNCHANGED <<q_, closed_, pc, inputVars, at, done, workerVars, tallyVars, exit>>
  PROVE  IInv'
<1>1. /\ \A w \in Workers : WorkerOK(w)'
      /\ TallyOK' /\ Tallies' /\ Unraced'
  BY WorkersUndisturbed
<1>2. /\ Decided' /\ exit' \in {Running, 0, 3}
      /\ pc'["main"] \in {"join", "pool", "gate", "end"}
  BY VerdictUndisturbed DEF tallyVars
<1>3. QueueOK' /\ Shapes'
  BY ReaderFacts DEF QueueOK, inputVars, IInv, Shapes, workerVars
<1>4. Order'
  BY ReaderFacts DEF Order, inputVars
<1>5. Accounted'
  <2>1. Kept(at)' = Kept(at) /\ InHand' = InHand
    BY DEF Kept, IsHeader, inputVars, InHand
  <2> QED
    BY <2>1, ReaderFacts DEF Accounted, tallyVars
<1> QED
  BY <1>1, <1>2, <1>3, <1>4, <1>5 DEF IInv, TypeOK

LEMMA NextIInv == IInv /\ [Next]_vars => IInv'
<1> SUFFICES ASSUME IInv, [Next]_vars PROVE IInv'
  OBVIOUS
<1>1. CASE Reader
  BY <1>1, GetLineIInv, ReaderPushIInv, EndOfInputIInv DEF Reader
<1>2. ASSUME NEW w \in Workers, Worker(w) PROVE IInv'
  BY <1>2, PopIInv, CheckIInv, JudgeIInv, LoadCounterIInv, StoreCounterIInv DEF Worker
<1>3. CASE Main
  BY <1>3, JoinIInv, GateIInv DEF Main
<1>4. ASSUME NEW t \in Threads, Wake(t) PROVE IInv'
  <2>1. /\ waiting' \subseteq waiting
        /\ UNCHANGED <<q_, closed_, pc, inputVars, at, done, workerVars, tallyVars, exit>>
    BY <1>4 DEF Wake, SpuriousWake
  <2> QED
    BY <2>1, IdleIInv
<1>5. CASE UNCHANGED vars
  <2>1. /\ waiting' \subseteq waiting
        /\ UNCHANGED <<q_, closed_, pc, inputVars, at, done, workerVars, tallyVars, exit>>
    BY <1>5 DEF vars, queueVars
  <2> QED
    BY <2>1, IdleIInv
<1> QED
  BY <1>1, <1>2, <1>3, <1>4, <1>5 DEF Next, Exited

(* The inductive invariant holds in every state. *)
THEOREM Invariant == Spec => []IInv
BY InitIInv, NextIInv, PTL DEF Spec

-----------------------------------------------------------------------------
(* The types of the pipeline's state, and what each worker has in hand at    *)
(* each point of its loop.                                                   *)
THEOREM TypeCorrect == Spec => []TypeOK
<1>1. IInv => TypeOK
  BY DEF IInv
<1> QED
  BY <1>1, Invariant, PTL

(* pop gives nullopt only when the reader has closed the queue, which it does *)
(* after it has set the flag: no worker goes round its loop for nothing.      *)
THEOREM NulloptFinal == Spec => []NulloptMeansDone
<1>1. IInv => NulloptMeansDone
  BY DEF IInv, Order, NulloptMeansDone
<1> QED
  BY <1>1, Invariant, PTL

(* A pool of one worker or more leaves no line unread, unparsed or uncounted. *)
THEOREM NothingLost ==
  ASSUME Workers # {}
  PROVE  Spec => []NothingLeftBehind
<1>1. IInv => NothingLeftBehind
  <2> SUFFICES ASSUME IInv, pc["main"] \in {"gate", "end"}
               PROVE  /\ q_ = <<>> /\ at = Len(log)
                      /\ lines = Cardinality({n \in DOMAIN log : ~IsHeader(n)})
                      /\ \A t \in MeteredTypes : typed[t] = written[t]
    BY DEF NothingLeftBehind
  <2>1. pc["reader"] = "end" /\ \A w \in Workers : pc[w] = "end"
    BY ReaderFacts DEF Order
  <2>2. q_ = <<>> /\ at = Len(log)
    BY <2>1, ReaderFacts DEF Order
  <2>3. Len(q_) = 0 /\ InHand = 0
    BY <2>1, <2>2, EmptySeq DEF InHand
  <2>4. lines = Cardinality(Kept(at))
    BY <2>3, ReaderFacts DEF Accounted
  <2>5. Kept(at) = {n \in DOMAIN log : ~IsHeader(n)}
    BY <2>2, ReaderFacts, LenProperties DEF Kept
  <2> QED
    BY <2>2, <2>4, <2>5, TallyFacts DEF Tallies
<1> QED
  BY <1>1, Invariant, PTL

(* The gate's counts, and those of the findings, are numbers to compare. *)
LEMMA GateCounts ==
  ASSUME IInv, exit # Running, NEW t \in DOMAIN FailOn
  PROVE  /\ FailOn[t] \in Int /\ CountOf(t) \in Nat
         /\ CountOf(t) <= IF t \in Types THEN written[t] ELSE 0
         /\ ~raced => CountOf(t) = IF t \in Types THEN written[t] ELSE 0
<1>1. FailOn[t] \in Int
  BY AnalyzeAssumption
<1>2. CASE t \in Types
  BY <1>1, <1>2, TallyFacts DEF CountOf, Tallies, Unraced
<1>3. CASE t \notin Types
  BY <1>1, <1>3 DEF CountOf
<1> QED
  BY <1>2, <1>3

(* However the workers' increments of `counters` overlap, the gate fires only *)
(* if as many findings of a type were written as its threshold asks for.      *)
THEOREM NeverSpurious == Spec => []GateNeverSpurious
<1>1. IInv => GateNeverSpurious
  <2> SUFFICES ASSUME IInv, exit = 3 PROVE Reached
    BY DEF GateNeverSpurious
  <2>1. PICK t \in DOMAIN FailOn : CountOf(t) >= FailOn[t]
    BY DEF IInv, Decided, Running
  <2>2. TallyOK
    BY DEF IInv, TypeOK
  <2>3. (IF t \in Types THEN written[t] ELSE 0) \in Nat
    BY <2>2 DEF TallyOK
  <2>4. /\ FailOn[t] \in Int /\ CountOf(t) \in Nat
        /\ CountOf(t) <= IF t \in Types THEN written[t] ELSE 0
    BY GateCounts DEF Running
  <2> QED
    BY <2>1, <2>3, <2>4 DEF Reached
<1> QED
  BY <1>1, Invariant, PTL

(* If no two increments of one counter overlap, it fires exactly then. *)
THEOREM ExactUnlessRaced == Spec => []GateExactUnlessRaced
<1>1. IInv => GateExactUnlessRaced
  <2> SUFFICES ASSUME IInv, ~raced, exit # Running PROVE exit = 3 <=> Reached
    BY DEF GateExactUnlessRaced, GateExact
  <2>1. exit = 3 <=> \E t \in DOMAIN FailOn : CountOf(t) >= FailOn[t]
    BY DEF IInv, Decided
  <2>2. \A t \in DOMAIN FailOn : CountOf(t) = IF t \in Types THEN written[t] ELSE 0
    BY GateCounts
  <2> QED
    BY <2>1, <2>2 DEF Reached
<1> QED
  BY <1>1, Invariant, PTL
=============================================================================
