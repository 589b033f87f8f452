-------------------------- MODULE DetectionProofs ---------------------------
(***************************************************************************)
(* Theorems about the sliding window and the workers that use it: the      *)
(* types for any number of workers, and the content of the deque for one   *)
(* worker, any span, any disorder of the log and any traffic; that its     *)
(* maps, counted up on add() and down on prune(), equal a recount of the   *)
(* deque; and that the whole implements IdealDetector.                     *)
(***************************************************************************)
EXTENDS Detection, SequenceTheorems, FiniteSetTheorems, FunctionTheorems, TLAPS

-----------------------------------------------------------------------------
(* Type correctness. *)

(* Incrementing and decrementing the maps keeps every entry positive. *)
LEMMA BagStaysBag ==
  ASSUME NEW B, IsABag(B), NEW S
  PROVE  /\ IsABag(B (+) SetToBag(S))
         /\ IsABag(B (-) SetToBag(S))
<1>1. \A e \in DOMAIN B : B[e] \in Nat /\ B[e] > 0
  BY DEF IsABag
<1>2. IsABag(B (+) SetToBag(S))
  <2> DEFINE C == B (+) SetToBag(S)
  <2>1. C = [e \in DOMAIN B \cup S |->
               (IF e \in DOMAIN B THEN B[e] ELSE 0) + (IF e \in S THEN 1 ELSE 0)]
    BY DEF (+), SetToBag
  <2>2. \A e \in DOMAIN B \cup S :
          (IF e \in DOMAIN B THEN B[e] ELSE 0) + (IF e \in S THEN 1 ELSE 0)
            \in {n \in Nat : n > 0}
    BY <1>1
  <2> HIDE DEF C
  <2>3. DOMAIN C = DOMAIN B \cup S /\ C \in [DOMAIN B \cup S -> {n \in Nat : n > 0}]
    BY <2>1, <2>2
  <2> QED
    BY <2>3 DEF IsABag, C
<1>3. IsABag(B (-) SetToBag(S))
  <2> DEFINE D == [e \in DOMAIN B |-> IF e \in S THEN B[e] - 1 ELSE B[e]]
             C == B (-) SetToBag(S)
             T == {d \in DOMAIN B : D[d] > 0}
  <2>1. C = [e \in T |-> D[e]]
    BY DEF (-), SetToBag
  <2>2. \A e \in T : D[e] \in {n \in Nat : n > 0}
    BY <1>1
  <2> HIDE DEF C, D, T
  <2>3. DOMAIN C = T /\ C \in [T -> {n \in Nat : n > 0}]
    BY <2>1, <2>2
  <2> QED
    BY <2>3 DEF IsABag, C
<1> QED
  BY <1>2, <1>3

LEMMA RecordTime == \A r \in Records : r.ts \in 0..MaxTime
  BY DEF Records, At

LEMMA EmptyIsBag == IsABag(EmptyBag)
  BY DEF IsABag, EmptyBag, SetToBag

(* Every variable keeps its type: for any set of workers that share the     *)
(* window, any span and any disorder, the maps hold positive counts only.   *)
THEOREM TypeCorrect == Spec => []TypeOK
<1> USE DetectionAssumption
<1>1. Init => TypeOK
  <2> SUFFICES ASSUME Init PROVE TypeOK
    OBVIOUS
  <2>1. <<>> \in Seq(Records)
    BY EmptySeq
  <2> QED
    BY <2>1, EmptyIsBag DEF Init, WindowInit, TypeOK
<1>2. TypeOK /\ [Next]_vars => TypeOK'
  <2> SUFFICES ASSUME TypeOK, [Next]_vars PROVE TypeOK'
    OBVIOUS
  <2>1. ASSUME NEW w \in Workers, Add(w) PROVE TypeOK'
    <3>1. PICK r \in Records :
            /\ PushBack(r)
            /\ cur' = [cur EXCEPT ![w] = r]
            /\ clock' = IF r.ts > clock THEN r.ts ELSE clock
            /\ pc' = [pc EXCEPT ![w] = "prune"]
            /\ UNCHANGED <<out, seen>>
      BY <2>1 DEF Add
    <3>2. clock' \in 0..MaxTime
      BY <3>1, RecordTime DEF TypeOK
    <3>3. q_' \in Seq(Records) /\ index' = index
      BY <3>1, AppendProperties DEF TypeOK, PushBack
    <3> QED
      BY <3>1, <3>2, <3>3 DEF TypeOK
  <2>2. ASSUME NEW w \in Workers, Prune(w) PROVE TypeOK'
    <3>1. q_' \in Seq(Records)
      BY <2>2, HeadTailProperties DEF TypeOK, Prune, PruneFront, FrontStale
    <3>2. IsABag(index')
      BY <2>2, BagStaysBag DEF TypeOK, Prune, PruneFront
    <3> QED
      BY <2>2, <3>1, <3>2 DEF TypeOK, Prune
  <2>3. ASSUME NEW w \in Workers, Increment(w) PROVE TypeOK'
    <3>1. IsABag(index')
      BY <2>3, BagStaysBag DEF TypeOK, Increment, Count
    <3> QED
      BY <2>3, <3>1 DEF TypeOK, Increment, Count
  <2>4. ASSUME NEW w \in Workers, Detect(w) PROVE TypeOK'
    <3>1. cur[w] \in Records
      BY <2>4 DEF TypeOK, Detect
    <3>2. seen' \in Seq(Records)
      BY <2>4, <3>1, AppendProperties DEF TypeOK, Detect
    <3> QED
      BY <2>4, <3>2 DEF TypeOK, Detect, windowVars
  <2>5. CASE UNCHANGED vars
    BY <2>5 DEF TypeOK, vars, windowVars
  <2> QED
    BY <2>1, <2>2, <2>3, <2>4, <2>5 DEF Next
<1> QED
  BY <1>1, <1>2, PTL DEF Spec

-----------------------------------------------------------------------------
(* One worker: what the deque holds, for any traffic, span and disorder.    *)

(* The records that have arrived, in the order of arrival. *)
Log(w) == IF pc[w] = "idle" THEN seen ELSE Append(seen, cur[w])

(* How many of them have left the deque. *)
Dropped(w) == Len(Log(w)) - Len(q_)

(* The deque is a suffix of the log. *)
Suffix(w) ==
  /\ Len(q_) <= Len(Log(w))
  /\ \A i \in 1 .. Len(q_) : q_[i] = Log(w)[Dropped(w) + i]

(* No record is later than the clock, and none is older than one that came  *)
(* before it by more than Skew.                                             *)
Disorder(w) ==
  /\ \A i \in 1 .. Len(Log(w)) : Log(w)[i].ts <= clock
  /\ \A i, j \in 1 .. Len(Log(w)) :
       i <= j => Log(w)[i].ts <= Log(w)[j].ts + Skew

(* What has left the deque is stale. *)
DroppedStale(w) ==
  \A i \in 1 .. Dropped(w) : Log(w)[i].ts < clock - Span

(* Once pruned, the front is fresh for the last record of the log. *)
FreshFront(w) ==
  pc[w] # "prune" /\ q_ # <<>> => q_[1].ts >= Log(w)[Len(Log(w))].ts - Span

WindowInv(w) ==
  /\ TypeOK
  /\ Suffix(w)
  /\ Disorder(w)
  /\ DroppedStale(w)
  /\ FreshFront(w)

LEMMA LogIsSeq ==
  ASSUME TypeOK, NEW w \in Workers
  PROVE  Log(w) \in Seq(Records)
<1>1. CASE pc[w] = "idle"
  BY <1>1 DEF TypeOK, Log
<1>2. CASE pc[w] # "idle"
  BY <1>2, AppendProperties DEF TypeOK, Log
<1> QED
  BY <1>1, <1>2

LEMMA TimeOf ==
  ASSUME NEW s \in Seq(Records), NEW i \in 1 .. Len(s)
  PROVE  s[i] \in Records /\ s[i].ts \in Nat
<1>1. s[i] \in Records
  BY ElementOfSeq
<1>2. MaxTime \in Nat
  BY DetectionAssumption
<1> QED
  BY <1>1, <1>2, RecordTime

(* A lone worker's Add extends the log and the deque by the same record. *)
LEMMA AddKeepsWindow ==
  ASSUME NEW w, Workers = {w}, WindowInv(w), TypeOK', Add(w)
  PROVE  WindowInv(w)'
<1> DEFINE L == Log(w)
<1>1. PICK r \in Records :
        /\ pc[w] = "idle"
        /\ r.ts >= clock - Skew
        /\ q_' = Append(q_, r)
        /\ cur' = [cur EXCEPT ![w] = r]
        /\ clock' = IF r.ts > clock THEN r.ts ELSE clock
        /\ pc' = [pc EXCEPT ![w] = "prune"]
        /\ seen' = seen
  BY DEF Add, PushBack
<1>2. L \in Seq(Records) /\ q_ \in Seq(Records) /\ L = seen
  BY <1>1, LogIsSeq DEF WindowInv, TypeOK, Log
<1>3. pc'[w] = "prune" /\ cur'[w] = r
  BY <1>1 DEF WindowInv, TypeOK
<1>4. Log(w)' = Append(L, r)
  BY <1>1, <1>2, <1>3 DEF Log
<1>5. /\ Len(Append(L, r)) = Len(L) + 1
      /\ Append(L, r)[Len(L) + 1] = r
      /\ \A i \in 1 .. Len(L) : Append(L, r)[i] = L[i]
  BY <1>2, AppendProperties
<1>6. /\ Len(Append(q_, r)) = Len(q_) + 1
      /\ Append(q_, r)[Len(q_) + 1] = r
      /\ \A i \in 1 .. Len(q_) : Append(q_, r)[i] = q_[i]
  BY <1>2, AppendProperties
<1>7. Len(L) \in Nat /\ Len(q_) \in Nat
  BY <1>2, LenProperties
<1>8. /\ \A i \in 1 .. Len(L) : L[i].ts \in Nat
      /\ r.ts \in Nat /\ clock \in Nat /\ clock' \in Nat
      /\ clock' >= clock /\ clock' >= r.ts
  <2>1. \A i \in 1 .. Len(L) : L[i].ts \in Nat
    BY <1>2, TimeOf
  <2>2. r.ts \in Nat /\ clock \in Nat
    BY <1>1, RecordTime, DetectionAssumption DEF WindowInv, TypeOK
  <2> QED
    BY <1>1, <2>1, <2>2
<1>9. Skew \in Nat /\ Span \in Int
  BY DetectionAssumption, SpanAssumption
<1>10. /\ Len(q_) <= Len(L)
       /\ \A i \in 1 .. Len(q_) : q_[i] = L[Len(L) - Len(q_) + i]
       /\ \A i \in 1 .. Len(L) : L[i].ts <= clock
       /\ \A i, j \in 1 .. Len(L) : i <= j => L[i].ts <= L[j].ts + Skew
       /\ \A i \in 1 .. Len(L) - Len(q_) : L[i].ts < clock - Span
  BY DEF WindowInv, Suffix, Dropped, Disorder, DroppedStale
<1> HIDE DEF L
<1>11. Suffix(w)'
  <2>1. ASSUME NEW i \in 1 .. Len(q_) + 1
        PROVE  Append(q_, r)[i] = Append(L, r)[Len(L) - Len(q_) + i]
    <3>1. CASE i = Len(q_) + 1
      <4>1. Len(L) - Len(q_) + i = Len(L) + 1
        BY <3>1, <1>7
      <4> QED
        BY <3>1, <4>1, <1>5, <1>6
    <3>2. CASE i \in 1 .. Len(q_)
      <4>1. Len(L) - Len(q_) + i \in 1 .. Len(L)
        BY <3>2, <1>7, <1>10
      <4> QED
        BY <3>2, <4>1, <1>5, <1>6, <1>10
    <3>3. i = Len(q_) + 1 \/ i \in 1 .. Len(q_)
      BY <1>7
    <3> QED
      BY <3>1, <3>2, <3>3
  <2>2. /\ Len(Append(q_, r)) = Len(q_) + 1
        /\ Len(Append(L, r)) - Len(Append(q_, r)) = Len(L) - Len(q_)
        /\ Len(Append(q_, r)) <= Len(Append(L, r))
    BY <1>5, <1>6, <1>7, <1>10
  <2> QED
    BY <2>1, <2>2, <1>1, <1>4 DEF Suffix, Dropped
<1>12. Disorder(w)'
  <2>1. \A i \in 1 .. Len(L) + 1 : Append(L, r)[i].ts <= clock'
    BY <1>5, <1>7, <1>8, <1>10
  <2>2. ASSUME NEW i \in 1 .. Len(L) + 1, NEW j \in 1 .. Len(L) + 1, i <= j
        PROVE  Append(L, r)[i].ts <= Append(L, r)[j].ts + Skew
    <3>1. CASE j <= Len(L)
      BY <2>2, <3>1, <1>5, <1>7, <1>10
    <3>2. CASE j = Len(L) + 1 /\ i <= Len(L)
      BY <2>2, <3>2, <1>1, <1>5, <1>7, <1>8, <1>9, <1>10, SMTT(30)
    <3>3. CASE j = Len(L) + 1 /\ i = Len(L) + 1
      BY <3>3, <1>5, <1>8, <1>9
    <3> QED
      BY <3>1, <3>2, <3>3, <1>7
  <2> QED
    BY <2>1, <2>2, <1>4, <1>5 DEF Disorder
<1>13. DroppedStale(w)'
  <2>1. \A i \in 1 .. Len(L) - Len(q_) : Append(L, r)[i].ts < clock' - Span
    BY <1>5, <1>7, <1>8, <1>9, <1>10
  <2> QED
    BY <2>1, <1>1, <1>4, <1>5, <1>6, <1>7 DEF DroppedStale, Dropped
<1>14. FreshFront(w)'
  BY <1>3 DEF FreshFront
<1> QED
  BY <1>11, <1>12, <1>13, <1>14 DEF WindowInv

(* A round of its pruning drops the front, which is stale. *)
LEMMA PruneKeepsWindow ==
  ASSUME NEW w, Workers = {w}, WindowInv(w), TypeOK', Prune(w)
  PROVE  WindowInv(w)'
<1> DEFINE L == Log(w)
           d == Len(L) - Len(q_)
<1>1. /\ pc[w] = "prune"
      /\ q_ # <<>> /\ Head(q_).ts < cur[w].ts - Span
      /\ q_' = Tail(q_)
      /\ UNCHANGED <<pc, cur, clock, seen>>
  BY DEF Prune, FrontStale, PruneFront
<1>2. L \in Seq(Records) /\ q_ \in Seq(Records) /\ seen \in Seq(Records)
  BY LogIsSeq DEF WindowInv, TypeOK
<1>3. Log(w)' = L
  BY <1>1 DEF Log
<1>4. cur[w] = L[Len(L)] /\ Len(L) \in Nat /\ Len(L) > 0
  <2>1. L = Append(seen, cur[w])
    BY <1>1 DEF Log
  <2>2. cur[w] \in Records
    BY <1>1 DEF WindowInv, TypeOK
  <2> HIDE DEF L
  <2> QED
    BY <2>1, <2>2, <1>2, AppendProperties, LenProperties
<1>5. /\ Len(Tail(q_)) = Len(q_) - 1
      /\ \A i \in 1 .. Len(q_) - 1 : Tail(q_)[i] = q_[i + 1]
      /\ Head(q_) = q_[1]
      /\ Len(q_) \in Nat /\ Len(q_) > 0
  BY <1>1, <1>2, HeadTailProperties, LenProperties, EmptySeq
<1>6. /\ Len(q_) <= Len(L)
      /\ \A i \in 1 .. Len(q_) : q_[i] = L[d + i]
      /\ \A i \in 1 .. Len(L) : L[i].ts <= clock
      /\ \A i \in 1 .. d : L[i].ts < clock - Span
  BY DEF WindowInv, Suffix, Dropped, Disorder, DroppedStale
<1>7. /\ \A i \in 1 .. Len(L) : L[i].ts \in Nat
      /\ clock \in Nat /\ Span \in Int
  <2>1. \A i \in 1 .. Len(L) : L[i].ts \in Nat
    BY <1>2, TimeOf
  <2> QED
    BY <2>1, SpanAssumption, DetectionAssumption DEF WindowInv, TypeOK
<1> HIDE DEF L
<1>8. Suffix(w)'
  <2>1. ASSUME NEW i \in 1 .. Len(q_) - 1
        PROVE  Tail(q_)[i] = L[Len(L) - (Len(q_) - 1) + i]
    <3>1. i + 1 \in 1 .. Len(q_) /\ d + (i + 1) = Len(L) - (Len(q_) - 1) + i
      BY <1>4, <1>5
    <3>2. Tail(q_)[i] = L[d + (i + 1)]
      BY <3>1, <1>5, <1>6
    <3> QED
      BY <3>1, <3>2
  <2>2. Len(Tail(q_)) <= Len(L)
    BY <1>4, <1>5, <1>6
  <2> QED
    BY <2>1, <2>2, <1>1, <1>3, <1>5 DEF Suffix, Dropped
<1>9. Disorder(w)'
  BY <1>1, <1>3 DEF WindowInv, Disorder, L
<1>10. DroppedStale(w)'
  <2>1. ASSUME NEW i \in 1 .. Len(L) - (Len(q_) - 1)
        PROVE  L[i].ts < clock - Span
    <3>1. CASE i \in 1 .. d
      BY <3>1, <1>6
    <3>2. CASE i = d + 1
      <4>1. L[i] = Head(q_)
        BY <3>2, <1>4, <1>5, <1>6
      <4>2. L[i].ts < L[Len(L)].ts - Span
        BY <4>1, <1>1, <1>4
      <4>3. i \in 1 .. Len(L)
        BY <3>2, <1>4, <1>5, <1>6
      <4> QED
        BY <4>2, <4>3, <1>4, <1>6, <1>7
    <3> QED
      BY <3>1, <3>2, <1>4, <1>5, <1>6
  <2> QED
    BY <2>1, <1>1, <1>3, <1>5 DEF DroppedStale, Dropped
<1>11. FreshFront(w)'
  BY <1>1 DEF FreshFront
<1> QED
  BY <1>8, <1>9, <1>10, <1>11 DEF WindowInv

(* Its Increment ends the loop: the front, if any, is fresh. *)
LEMMA IncrementKeepsWindow ==
  ASSUME NEW w, Workers = {w}, WindowInv(w), TypeOK', Increment(w)
  PROVE  WindowInv(w)'
<1>1. /\ pc[w] = "prune"
      /\ ~(q_ # <<>> /\ Head(q_).ts < cur[w].ts - Span)
      /\ q_' = q_
      /\ pc' = [pc EXCEPT ![w] = "detect"]
      /\ UNCHANGED <<cur, clock, seen>>
  BY DEF Increment, FrontStale, Count
<1>2. Log(w) = Append(seen, cur[w]) /\ Log(w)' = Log(w)
  BY <1>1 DEF Log, WindowInv, TypeOK
<1>3. Suffix(w)' /\ Disorder(w)' /\ DroppedStale(w)'
  BY <1>1, <1>2 DEF WindowInv, Suffix, Disorder, DroppedStale, Dropped
<1>4. FreshFront(w)'
  <2> SUFFICES ASSUME q_ # <<>>
               PROVE  q_[1].ts >= Log(w)[Len(Log(w))].ts - Span
    BY <1>1, <1>2 DEF FreshFront
  <2>1. cur[w] \in Records /\ seen \in Seq(Records) /\ q_ \in Seq(Records)
    BY <1>1 DEF WindowInv, TypeOK
  <2>2. Log(w)[Len(Log(w))] = cur[w]
    BY <2>1, <1>2, AppendProperties, LenProperties
  <2>3. q_[1] = Head(q_) /\ q_[1] \in Records
    BY <2>1, HeadTailProperties
  <2>4. cur[w].ts \in Int /\ q_[1].ts \in Int /\ Span \in Int
    BY <2>1, <2>3, RecordTime, SpanAssumption, DetectionAssumption
  <2> QED
    BY <2>2, <2>3, <2>4, <1>1
<1> QED
  BY <1>3, <1>4 DEF WindowInv

(* Detect touches neither the deque nor, but for its name, the log. *)
LEMMA DetectKeepsWindow ==
  ASSUME NEW w, Workers = {w}, WindowInv(w), TypeOK', Detect(w)
  PROVE  WindowInv(w)'
<1>1. /\ pc[w] = "detect"
      /\ UNCHANGED <<q_, clock>>
      /\ seen' = Append(seen, cur[w])
      /\ pc' = [pc EXCEPT ![w] = "idle"]
  BY DEF Detect, windowVars
<1>2. Log(w)' = Log(w)
  BY <1>1 DEF Log, WindowInv, TypeOK
<1> QED
  BY <1>1, <1>2
  DEF WindowInv, Suffix, Disorder, DroppedStale, FreshFront, Dropped

LEMMA WindowInvariant ==
  ASSUME NEW CONSTANT w, Workers = {w}
  PROVE  Spec => []WindowInv(w)
<1>1. Init => WindowInv(w)
  <2> SUFFICES ASSUME Init PROVE WindowInv(w)
    OBVIOUS
  <2>1. TypeOK
    BY DetectionAssumption, EmptySeq, EmptyIsBag DEF Init, WindowInit, TypeOK
  <2>2. Log(w) = <<>> /\ q_ = <<>>
    BY DEF Init, WindowInit, Log
  <2> QED
    BY <2>1, <2>2, EmptySeq
    DEF WindowInv, Suffix, Disorder, DroppedStale, FreshFront, Dropped
<1>2. TypeOK' /\ WindowInv(w) /\ [Next]_vars => WindowInv(w)'
  <2> SUFFICES ASSUME TypeOK', WindowInv(w), [Next]_vars
               PROVE  WindowInv(w)'
    OBVIOUS
  <2>1. CASE Add(w)
    BY <2>1, AddKeepsWindow
  <2>2. CASE Prune(w)
    BY <2>2, PruneKeepsWindow
  <2>3. CASE Increment(w)
    BY <2>3, IncrementKeepsWindow
  <2>4. CASE Detect(w)
    BY <2>4, DetectKeepsWindow
  <2>5. CASE UNCHANGED vars
    BY <2>5 DEF vars, windowVars, WindowInv, Log, Dropped, Suffix, Disorder,
                DroppedStale, FreshFront
  <2> QED
    BY <2>1, <2>2, <2>3, <2>4, <2>5 DEF Next
<1> QED
  BY <1>1, <1>2, TypeCorrect, PTL DEF Spec

(* One worker: a record that prune() could not reach behind a late one      *)
(* outstays its Span by Skew seconds at most.                               *)
THEOREM LoneWorkerStaleBounded ==
  ASSUME NEW CONSTANT w, Workers = {w}
  PROVE  Spec => []StaleBounded
<1>1. WindowInv(w) => StaleBounded
  <2> SUFFICES ASSUME WindowInv(w), Idle, NEW i \in DOMAIN q_
               PROVE  q_[i].ts >= seen[Len(seen)].ts - Span - Skew
    BY DEF StaleBounded
  <2>1. pc[w] = "idle" /\ Log(w) = seen
    BY DEF Idle, Log
  <2>2. q_ \in Seq(Records) /\ seen \in Seq(Records)
    BY DEF WindowInv, TypeOK
  <2>3. Len(q_) \in Nat /\ Len(seen) \in Nat /\ i \in 1 .. Len(q_)
    BY <2>2, LenProperties
  <2>4. /\ Len(q_) <= Len(seen)
        /\ q_[1] = seen[Len(seen) - Len(q_) + 1]
        /\ q_[i] = seen[Len(seen) - Len(q_) + i]
    BY <2>1, <2>3 DEF WindowInv, Suffix, Dropped
  <2>5. q_[1].ts <= q_[i].ts + Skew
    <3>1. /\ Len(seen) - Len(q_) + 1 \in 1 .. Len(seen)
          /\ Len(seen) - Len(q_) + i \in 1 .. Len(seen)
          /\ Len(seen) - Len(q_) + 1 <= Len(seen) - Len(q_) + i
      BY <2>3, <2>4
    <3>2. \A j, k \in 1 .. Len(seen) :
            j <= k => seen[j].ts <= seen[k].ts + Skew
      BY <2>1 DEF WindowInv, Disorder
    <3>3. seen[Len(seen) - Len(q_) + 1].ts
            <= seen[Len(seen) - Len(q_) + i].ts + Skew
      BY <3>1, <3>2
    <3> QED
      BY <3>3, <2>4
  <2>6. q_[1].ts >= seen[Len(seen)].ts - Span
    BY <2>1, <2>3, EmptySeq DEF WindowInv, FreshFront
  <2>7. q_[1].ts \in Int /\ q_[i].ts \in Int /\ seen[Len(seen)].ts \in Int
    BY <2>2, <2>3, <2>4, TimeOf
  <2> QED
    BY <2>5, <2>6, <2>7, SpanAssumption, DetectionAssumption
<1> QED
  BY <1>1, WindowInvariant, PTL

(* One worker: whatever the disorder of the log, only records older than    *)
(* the newest timestamp by more than Span have left the deque.              *)
THEOREM LoneWorkerFreshKept ==
  ASSUME NEW CONSTANT w, Workers = {w}
  PROVE  Spec => []FreshKept
<1>1. WindowInv(w) => FreshKept
  BY DEF WindowInv, DroppedStale, Dropped, FreshKept, Idle, Log
<1> QED
  BY <1>1, WindowInvariant, PTL

-----------------------------------------------------------------------------
(* Recounting a sequence of records. *)

Positions(k, s) == {i \in DOMAIN s : k \in Keys(s[i])}
Bit(p) == IF p THEN 1 ELSE 0

LEMMA PositionsFinite ==
  ASSUME NEW k, NEW s \in Seq(Records)
  PROVE  /\ IsFiniteSet(Positions(k, s))
         /\ Occurrences(k, s) = Cardinality(Positions(k, s))
         /\ Occurrences(k, s) \in Nat
<1>1. DOMAIN s = 1 .. Len(s) /\ Len(s) \in Nat
  BY LenProperties
<1>2. IsFiniteSet(1 .. Len(s))
  BY <1>1, FS_Interval
<1>3. IsFiniteSet(Positions(k, s))
  BY <1>1, <1>2, FS_Subset DEF Positions
<1>4. Occurrences(k, s) = Cardinality(Positions(k, s))
  BY DEF Occurrences, Positions
<1> QED
  BY <1>3, <1>4, FS_CardinalityType

(* A record counts once for each of its keys. *)
LEMMA OccurrencesPositive ==
  ASSUME NEW k, NEW s \in Seq(Records), NEW i \in 1 .. Len(s), k \in Keys(s[i])
  PROVE  Occurrences(k, s) > 0
<1>1. i \in Positions(k, s)
  BY LenProperties DEF Positions
<1>2. Cardinality(Positions(k, s)) # 0
  BY <1>1, PositionsFinite, FS_EmptySet
<1> QED
  BY <1>2, PositionsFinite

LEMMA OccurrencesAppend ==
  ASSUME NEW k, NEW s \in Seq(Records), NEW r \in Records
  PROVE  Occurrences(k, Append(s, r)) = Occurrences(k, s) + Bit(k \in Keys(r))
<1> DEFINE n == Len(s)
           t == Append(s, r)
<1>1. /\ t \in Seq(Records) /\ DOMAIN t = 1 .. n + 1
      /\ t[n + 1] = r /\ \A i \in 1 .. n : t[i] = s[i]
      /\ n \in Nat /\ DOMAIN s = 1 .. n
  BY AppendProperties, LenProperties
<1> HIDE DEF n, t
<1>2. n + 1 \notin Positions(k, s)
  BY <1>1 DEF Positions
<1>3. CASE k \in Keys(r)
  <2>1. Positions(k, t) = Positions(k, s) \cup {n + 1}
    BY <1>1, <1>3 DEF Positions
  <2>2. Cardinality(Positions(k, t)) = Cardinality(Positions(k, s)) + 1
    BY <2>1, <1>2, PositionsFinite, FS_AddElement
  <2> QED
    BY <2>2, <1>1, <1>3, PositionsFinite DEF Bit, t
<1>4. CASE k \notin Keys(r)
  <2>1. Positions(k, t) = Positions(k, s)
    BY <1>1, <1>4 DEF Positions
  <2>2. Occurrences(k, t) = Occurrences(k, s) /\ Occurrences(k, s) \in Nat
    BY <2>1, <1>1, PositionsFinite
  <2> QED
    BY <2>2, <1>4 DEF Bit, t
<1> QED
  BY <1>3, <1>4

LEMMA OccurrencesTail ==
  ASSUME NEW k, NEW s \in Seq(Records), s # <<>>
  PROVE  Occurrences(k, s) = Occurrences(k, Tail(s)) + Bit(k \in Keys(Head(s)))
<1> DEFINE n == Len(s)
           t == Tail(s)
           P == Positions(k, s) \ {1}
           shift == [i \in Positions(k, t) |-> i + 1]
<1>1. /\ t \in Seq(Records) /\ DOMAIN t = 1 .. n - 1
      /\ Head(s) = s[1] /\ \A i \in 1 .. n - 1 : t[i] = s[i + 1]
      /\ n \in Nat /\ n > 0 /\ DOMAIN s = 1 .. n
  BY HeadTailProperties, LenProperties, EmptySeq
<1>2. IsFiniteSet(Positions(k, t)) /\ IsFiniteSet(Positions(k, s))
  BY <1>1, PositionsFinite
<1> HIDE DEF n, t
<1>3. Cardinality(P) = Cardinality(Positions(k, t))
  <2>1. shift \in [Positions(k, t) -> P]
    BY <1>1 DEF Positions
  <2>2. \A i, j \in Positions(k, t) : shift[i] = shift[j] => i = j
    BY <1>1 DEF Positions
  <2>3. \A j \in P : \E i \in Positions(k, t) : shift[i] = j
    <3> SUFFICES ASSUME NEW j \in P
                 PROVE  j - 1 \in Positions(k, t) /\ shift[j - 1] = j
      OBVIOUS
    <3>1. j \in 2 .. n /\ k \in Keys(s[j])
      BY <1>1 DEF Positions
    <3>2. j - 1 \in 1 .. n - 1 /\ (j - 1) + 1 = j
      BY <3>1, <1>1
    <3>3. t[j - 1] = s[j]
      BY <3>2, <1>1
    <3> QED
      BY <3>1, <3>2, <3>3, <1>1 DEF Positions
  <2>4. shift \in Bijection(Positions(k, t), P)
    BY <2>1, <2>2, <2>3, Fun_IsBij
  <2>5. ExistsBijection(Positions(k, t), P)
    BY <2>4 DEF ExistsBijection
  <2> QED
    BY <2>5, <1>2, FS_Bijection
<1>4. Cardinality(P) = IF 1 \in Positions(k, s)
                         THEN Cardinality(Positions(k, s)) - 1
                         ELSE Cardinality(Positions(k, s))
  BY <1>2, FS_RemoveElement
<1>5. 1 \in Positions(k, s) <=> k \in Keys(Head(s))
  BY <1>1 DEF Positions
<1>6. /\ Occurrences(k, s) = Cardinality(Positions(k, s))
      /\ Occurrences(k, t) = Cardinality(Positions(k, t))
      /\ Occurrences(k, s) \in Nat /\ Occurrences(k, t) \in Nat
  BY <1>1, PositionsFinite
<1>7. CASE k \in Keys(Head(s))
  BY <1>3, <1>4, <1>5, <1>6, <1>7 DEF Bit, t
<1>8. CASE k \notin Keys(Head(s))
  BY <1>3, <1>4, <1>5, <1>6, <1>8 DEF Bit, t
<1> QED
  BY <1>7, <1>8

-----------------------------------------------------------------------------
(* Counting the maps up and down. *)

LEMMA EntryType ==
  ASSUME IsABag(index)
  PROVE  \A k : Entry(k) \in Nat /\ (k \in DOMAIN index <=> Entry(k) > 0)
BY DEF IsABag, Entry, BagIn, BagToSet

LEMMA EntryUp ==
  ASSUME IsABag(index), NEW S, index' = index (+) SetToBag(S), NEW k
  PROVE  Entry(k)' = Entry(k) + Bit(k \in S)
<1>1. \A e \in DOMAIN index : index[e] \in Nat
  BY DEF IsABag
<1>2. index' = [e \in DOMAIN index \cup S |->
                  (IF e \in DOMAIN index THEN index[e] ELSE 0)
                  + (IF e \in S THEN 1 ELSE 0)]
  BY DEF (+), SetToBag
<1> QED
  BY <1>1, <1>2 DEF Entry, BagIn, BagToSet, Bit

LEMMA EntryDown ==
  ASSUME IsABag(index), NEW S, index' = index (-) SetToBag(S), NEW k
  PROVE  Entry(k)' = IF k \in S /\ Entry(k) > 0 THEN Entry(k) - 1 ELSE Entry(k)
<1> DEFINE B == [e \in DOMAIN index |-> IF e \in S THEN index[e] - 1
                                                   ELSE index[e]]
<1>1. \A e \in DOMAIN index : index[e] \in Nat /\ index[e] > 0
  BY DEF IsABag
<1>2. index' = [e \in {d \in DOMAIN B : B[d] > 0} |-> B[e]]
  BY DEF (-), SetToBag
<1>3. k \in DOMAIN index' <=> k \in DOMAIN index /\ (k \in S => index[k] > 1)
  BY <1>1, <1>2
<1>4. k \in DOMAIN index' => index'[k] = IF k \in S THEN index[k] - 1 ELSE index[k]
  BY <1>1, <1>2
<1> HIDE DEF B
<1> QED
  BY <1>1, <1>3, <1>4 DEF Entry, BagIn, BagToSet

-----------------------------------------------------------------------------
(* One worker: the maps against the deque. *)

(* The record it has pushed and not yet counted. *)
Pending(k, w) == Bit(pc[w] = "prune" /\ k \in Keys(cur[w]))

(* A recount of the deque is ahead of the maps by that record. *)
Counted(w) == \A k : Occurrences(k, q_) = Entry(k) + Pending(k, w)

IndexInv(w) == WindowInv(w) /\ Counted(w)

(* Add pushes the record and leaves the maps alone. *)
LEMMA AddKeepsCounted ==
  ASSUME NEW w, Workers = {w}, IndexInv(w), Add(w)
  PROVE  Counted(w)'
<1>1. PICK r \in Records :
        /\ pc[w] = "idle"
        /\ q_' = Append(q_, r) /\ index' = index
        /\ cur' = [cur EXCEPT ![w] = r]
        /\ pc' = [pc EXCEPT ![w] = "prune"]
  BY DEF Add, PushBack
<1>2. pc'[w] = "prune" /\ cur'[w] = r
  BY <1>1 DEF IndexInv, WindowInv, TypeOK
<1>3. q_ \in Seq(Records) /\ IsABag(index)
  BY DEF IndexInv, WindowInv, TypeOK
<1> SUFFICES ASSUME NEW k
             PROVE  Occurrences(k, q_') = Entry(k)' + Pending(k, w)'
  BY DEF Counted
<1>4. Occurrences(k, q_) = Entry(k) + 0
  BY <1>1 DEF IndexInv, Counted, Pending, Bit
<1>5. Occurrences(k, q_') = Occurrences(k, q_) + Bit(k \in Keys(r))
  BY <1>1, <1>3, OccurrencesAppend
<1>6. Pending(k, w)' = Bit(k \in Keys(r)) /\ Entry(k)' = Entry(k)
  BY <1>1, <1>2 DEF Pending, Entry, BagIn, BagToSet
<1>7. Entry(k) \in Nat
  BY <1>3, EntryType
<1> QED
  BY <1>4, <1>5, <1>6, <1>7

(* A round of the loop forgets the front record in the deque and the maps.  *)
(* It is not the pending one, as long as the span is not negative.          *)
LEMMA PruneKeepsCounted ==
  ASSUME NEW w, Workers = {w}, Span \in Nat, IndexInv(w), Prune(w)
  PROVE  Counted(w)'
<1> DEFINE S == Keys(Head(q_))
           t == Tail(q_)
<1>1. /\ pc[w] = "prune"
      /\ q_ # <<>> /\ Head(q_).ts < cur[w].ts - Span
      /\ q_' = t /\ index' = index (-) SetToBag(S)
      /\ UNCHANGED <<pc, cur>>
  BY DEF Prune, FrontStale, PruneFront
<1>2. /\ q_ \in Seq(Records) /\ seen \in Seq(Records) /\ cur[w] \in Records
      /\ IsABag(index)
  BY <1>1 DEF IndexInv, WindowInv, TypeOK
<1>3. /\ t \in Seq(Records) /\ Len(t) = Len(q_) - 1
      /\ \A i \in 1 .. Len(q_) - 1 : t[i] = q_[i + 1]
      /\ Head(q_) = q_[1]
      /\ Len(q_) \in Nat /\ Len(q_) > 0
  BY <1>1, <1>2, HeadTailProperties, LenProperties, EmptySeq
<1>4. q_[Len(q_)] = cur[w]
  <2>1. Log(w) = Append(seen, cur[w])
    BY <1>1 DEF Log
  <2>2. Len(Log(w)) \in Nat /\ Log(w)[Len(Log(w))] = cur[w]
    BY <2>1, <1>2, AppendProperties, LenProperties
  <2>3. /\ Len(q_) <= Len(Log(w))
        /\ \A i \in 1 .. Len(q_) : q_[i] = Log(w)[(Len(Log(w)) - Len(q_)) + i]
    BY DEF IndexInv, WindowInv, Suffix, Dropped
  <2>4. (Len(Log(w)) - Len(q_)) + Len(q_) = Len(Log(w)) /\ Len(q_) \in 1 .. Len(q_)
    BY <1>3, <2>2
  <2> QED
    BY <2>2, <2>3, <2>4
<1>5. Len(q_) > 1 /\ t[Len(t)] = cur[w]
  <2>1. Len(q_) # 1
    <3>1. cur[w].ts \in Int
      BY <1>2, RecordTime, DetectionAssumption
    <3> QED
      BY <3>1, <1>1, <1>3, <1>4
  <2> QED
    BY <2>1, <1>3, <1>4
<1> SUFFICES ASSUME NEW k
             PROVE  Occurrences(k, q_') = Entry(k)' + Pending(k, w)'
  BY DEF Counted
<1>6. Occurrences(k, q_) = Entry(k) + Pending(k, w)
  BY DEF IndexInv, Counted
<1>7. Occurrences(k, q_) = Occurrences(k, t) + Bit(k \in S)
  BY <1>1, <1>2, OccurrencesTail
<1>8. Pending(k, w) = Bit(k \in Keys(cur[w])) /\ Pending(k, w)' = Pending(k, w)
  BY <1>1 DEF Pending
<1>9. k \in Keys(cur[w]) => Occurrences(k, t) > 0
  <2>1. Len(t) \in 1 .. Len(t)
    BY <1>3, <1>5
  <2> QED
    BY <2>1, <1>3, <1>5, OccurrencesPositive
<1>10. Occurrences(k, t) \in Nat /\ Entry(k) \in Nat
  BY <1>2, <1>3, PositionsFinite, EntryType
<1>11. Entry(k)' = IF k \in S /\ Entry(k) > 0 THEN Entry(k) - 1 ELSE Entry(k)
  BY <1>1, <1>2, EntryDown
<1> HIDE DEF S, t
<1>12. Occurrences(k, t) = Entry(k)' + Pending(k, w)
  <2>1. CASE k \in S
    BY <2>1, <1>6, <1>7, <1>8, <1>9, <1>10, <1>11 DEF Bit
  <2>2. CASE k \notin S
    BY <2>2, <1>6, <1>7, <1>10, <1>11 DEF Bit
  <2> QED
    BY <2>1, <2>2
<1> QED
  BY <1>1, <1>8, <1>12

(* Increment counts the pending record. *)
LEMMA IncrementKeepsCounted ==
  ASSUME NEW w, Workers = {w}, IndexInv(w), Increment(w)
  PROVE  Counted(w)'
<1>1. /\ pc[w] = "prune" /\ q_' = q_
      /\ index' = index (+) SetToBag(Keys(cur[w]))
      /\ pc' = [pc EXCEPT ![w] = "detect"]
  BY DEF Increment, Count
<1>2. pc'[w] = "detect" /\ IsABag(index)
  BY <1>1 DEF IndexInv, WindowInv, TypeOK
<1> SUFFICES ASSUME NEW k
             PROVE  Occurrences(k, q_') = Entry(k)' + Pending(k, w)'
  BY DEF Counted
<1>3. Occurrences(k, q_) = Entry(k) + Bit(k \in Keys(cur[w]))
  BY <1>1 DEF IndexInv, Counted, Pending
<1>4. Entry(k)' = Entry(k) + Bit(k \in Keys(cur[w]))
  BY <1>1, <1>2, EntryUp
<1>5. Pending(k, w)' = 0
  BY <1>2 DEF Pending, Bit
<1>6. Entry(k) \in Nat /\ Bit(k \in Keys(cur[w])) \in Nat
  BY <1>2, EntryType DEF Bit
<1> QED
  BY <1>1, <1>3, <1>4, <1>5, <1>6

LEMMA IndexInvariant ==
  ASSUME NEW CONSTANT w, Workers = {w}, Span \in Nat
  PROVE  Spec => []IndexInv(w)
<1>1. Init => Counted(w)
  <2> SUFFICES ASSUME Init, NEW k
               PROVE  Occurrences(k, q_) = Entry(k) + Pending(k, w)
    BY DEF Counted
  <2>1. q_ = <<>> /\ index = EmptyBag /\ pc[w] = "idle"
    BY DEF Init, WindowInit
  <2>2. Positions(k, q_) = {} /\ q_ \in Seq(Records)
    BY <2>1, EmptySeq DEF Positions
  <2>3. Occurrences(k, q_) = 0
    BY <2>2, PositionsFinite, FS_EmptySet
  <2>4. Entry(k) = 0 /\ Pending(k, w) = 0
    BY <2>1 DEF Entry, BagIn, BagToSet, EmptyBag, SetToBag, Pending, Bit
  <2> QED
    BY <2>3, <2>4
<1>2. IndexInv(w) /\ [Next]_vars => Counted(w)'
  <2> SUFFICES ASSUME IndexInv(w), [Next]_vars PROVE Counted(w)'
    OBVIOUS
  <2>1. CASE Add(w)
    BY <2>1, AddKeepsCounted
  <2>2. CASE Prune(w)
    BY <2>2, PruneKeepsCounted
  <2>3. CASE Increment(w)
    BY <2>3, IncrementKeepsCounted
  <2>4. CASE Detect(w)
    <3>1. /\ pc[w] = "detect" /\ pc'[w] = "idle"
          /\ UNCHANGED <<q_, index>>
      BY <2>4 DEF Detect, windowVars, IndexInv, WindowInv, TypeOK
    <3>2. \A k : Pending(k, w) = 0 /\ Pending(k, w)' = 0
      BY <3>1 DEF Pending, Bit
    <3>3. \A k : Entry(k)' = Entry(k)
      BY <3>1 DEF Entry, BagIn, BagToSet
    <3> QED
      BY <3>1, <3>2, <3>3 DEF IndexInv, Counted
  <2>5. CASE UNCHANGED vars
    <3>1. UNCHANGED <<q_, index, pc, cur>>
      BY <2>5 DEF vars, windowVars
    <3>2. \A k : Entry(k)' = Entry(k) /\ Pending(k, w)' = Pending(k, w)
      BY <3>1 DEF Entry, BagIn, BagToSet, Pending
    <3> QED
      BY <3>1, <3>2 DEF IndexInv, Counted
  <2> QED
    BY <2>1, <2>2, <2>3, <2>4, <2>5 DEF Next
<1> QED
  BY <1>1, <1>2, WindowInvariant, PTL DEF Spec, IndexInv

(* One worker and a span of 0 or more: between two records the maps hold    *)
(* exactly what a recount of the deque would give.                          *)
THEOREM LoneWorkerIndexExact ==
  ASSUME NEW CONSTANT w, Workers = {w}, Span \in Nat
  PROVE  Spec => []IndexExact
<1>1. IndexInv(w) => IndexExact
  <2> SUFFICES ASSUME IndexInv(w), Idle
               PROVE  /\ \A k \in DOMAIN index : index[k] = Occurrences(k, q_)
                      /\ \A i \in DOMAIN q_ : Keys(q_[i]) \subseteq DOMAIN index
    BY DEF IndexExact
  <2>1. pc[w] = "idle" /\ q_ \in Seq(Records) /\ IsABag(index)
    BY DEF Idle, IndexInv, WindowInv, TypeOK
  <2>2. \A k : Occurrences(k, q_) = Entry(k)
    <3>1. \A k : Pending(k, w) = 0
      BY <2>1 DEF Pending, Bit
    <3> QED
      BY <3>1, <2>1, EntryType DEF IndexInv, Counted
  <2>3. \A k \in DOMAIN index : index[k] = Occurrences(k, q_)
    BY <2>2 DEF Entry, BagIn, BagToSet
  <2>4. ASSUME NEW i \in DOMAIN q_, NEW k \in Keys(q_[i])
        PROVE  k \in DOMAIN index
    <3>1. i \in 1 .. Len(q_)
      BY <2>1, LenProperties
    <3>2. Occurrences(k, q_) > 0
      BY <3>1, <2>1, <2>4, OccurrencesPositive
    <3> QED
      BY <3>2, <2>1, <2>2, EntryType
  <2> QED
    BY <2>3, <2>4
<1> QED
  BY <1>1, IndexInvariant, PTL

-----------------------------------------------------------------------------
(* One worker, a log in time order: what the maps answer is what a recount  *)
(* of the whole log says.                                                   *)

(* The clock has the time of some record that has arrived. *)
ClockShown(w) == clock = 0 \/ \E i \in 1 .. Len(Log(w)) : Log(w)[i].ts = clock

LEMMA ClockInvariant ==
  ASSUME NEW CONSTANT w, Workers = {w}
  PROVE  Spec => []ClockShown(w)
<1>1. Init => ClockShown(w)
  BY DEF Init, ClockShown
<1>2. TypeOK /\ TypeOK' /\ ClockShown(w) /\ [Next]_vars => ClockShown(w)'
  <2> SUFFICES ASSUME TypeOK, TypeOK', ClockShown(w), [Next]_vars PROVE ClockShown(w)'
    OBVIOUS
  <2> DEFINE L == Log(w)
  <2>s. L \in Seq(Records)
    BY LogIsSeq
  <2>1. CASE Add(w)
    <3>1. PICK r \in Records :
            /\ pc[w] = "idle"
            /\ cur' = [cur EXCEPT ![w] = r]
            /\ clock' = IF r.ts > clock THEN r.ts ELSE clock
            /\ pc' = [pc EXCEPT ![w] = "prune"]
            /\ seen' = seen
      BY <2>1 DEF Add
    <3>2. Log(w)' = Append(L, r)
      BY <3>1 DEF Log, TypeOK
    <3>3. /\ Len(Append(L, r)) = Len(L) + 1 /\ Len(L) \in Nat
          /\ Append(L, r)[Len(L) + 1] = r
          /\ \A i \in 1 .. Len(L) : Append(L, r)[i] = L[i]
      BY <2>s, AppendProperties, LenProperties
    <3>4. clock = 0 \/ \E i \in 1 .. Len(L) : L[i].ts = clock
      BY DEF ClockShown
    <3> HIDE DEF L
    <3>5. clock' = 0 \/ \E i \in 1 .. Len(L) + 1 : Append(L, r)[i].ts = clock'
      <4>1. CASE clock' = r.ts
        BY <4>1, <3>3
      <4>2. CASE clock' = clock
        BY <4>2, <3>3, <3>4
      <4> QED
        BY <4>1, <4>2, <3>1
    <3> QED
      BY <3>2, <3>3, <3>5 DEF ClockShown
  <2>2. CASE Prune(w) \/ Increment(w) \/ UNCHANGED vars
    <3>1. Log(w)' = Log(w) /\ clock' = clock
      BY <2>2 DEF Prune, Increment, vars, Log, TypeOK
    <3> QED
      BY <3>1 DEF ClockShown
  <2>3. CASE Detect(w)
    <3>1. Log(w)' = Log(w) /\ clock' = clock
      BY <2>3 DEF Detect, Log, TypeOK
    <3> QED
      BY <3>1 DEF ClockShown
  <2> QED
    BY <2>1, <2>2, <2>3 DEF Next
<1> QED
  BY <1>1, <1>2, TypeCorrect, PTL DEF Spec

(* The keys tell the maps apart. *)
LEMMA KeyOf ==
  ASSUME NEW x
  PROVE  /\ \A s, d, p : <<"counts_dst_", s, d, p>> \in Keys(x)
                          <=> x.src_ip = s /\ x.dst_ip = d /\ x.dst_port = p
         /\ \A u : <<"auth_failures_", u>> \in Keys(x) <=> x.fail /\ x.username = u
         /\ \A s, d : <<"uniq_dst_", s, d>> \in Keys(x) <=> x.src_ip = s /\ x.dst_ip = d
         /\ \A k \in Keys(x) : k[1] = "uniq_dst_" => k = <<"uniq_dst_", x.src_ip, x.dst_ip>>
BY DEF Keys, TrafficKeys, AuthKeys

(* The last records of a sequence, counted where they are and on their own. *)
After(k, s, d) == {i \in d + 1 .. Len(s) : k \in Keys(s[i])}

LEMMA CountInSuffix ==
  ASSUME NEW k, NEW s \in Seq(Records), NEW t \in Seq(Records), NEW d \in Nat,
         Len(s) = d + Len(t), \A i \in 1 .. Len(t) : t[i] = s[d + i]
  PROVE  Cardinality(After(k, s, d)) = Occurrences(k, t)
<1> DEFINE P == Positions(k, t)
           Q == After(k, s, d)
           shift == [i \in P |-> d + i]
<1>1. Len(t) \in Nat /\ DOMAIN t = 1 .. Len(t) /\ Len(s) \in Nat
  BY LenProperties
<1>2. shift \in [P -> Q]
  BY <1>1 DEF Positions, After
<1>3. \A i, j \in P : shift[i] = shift[j] => i = j
  BY <1>1 DEF Positions
<1>4. \A j \in Q : \E i \in P : shift[i] = j
  <2> SUFFICES ASSUME NEW j \in Q PROVE j - d \in P /\ shift[j - d] = j
    OBVIOUS
  <2>1. j \in d + 1 .. Len(s) /\ j - d \in 1 .. Len(t) /\ d + (j - d) = j
    BY <1>1 DEF After
  <2>2. t[j - d] = s[j]
    BY <2>1
  <2> QED
    BY <2>1, <2>2, <1>1 DEF Positions, After
<1>5. ExistsBijection(P, Q)
  BY <1>2, <1>3, <1>4, Fun_IsBij DEF ExistsBijection
<1> QED
  BY <1>5, PositionsFinite, FS_Bijection

LEMMA AtLeast ==
  ASSUME NEW x \in Nat, NEW y \in Nat, NEW z \in Int, x <= y, x >= z
  PROVE  y >= z
OBVIOUS

(* What the worker knows when it runs the detectors: the log with the       *)
(* record in hand, of which the deque is the window.                        *)
LEMMA DetectSees ==
  ASSUME NEW w, Workers = {w}, Span \in Nat,
         IndexInv(w), ClockShown(w), pc[w] = "detect",
         NEW L, L = Append(seen, cur[w]), Ideal!InOrder(L)
  PROVE  /\ L \in Seq(Records) /\ cur[w] \in Records /\ Len(L) \in Nat
         /\ seen \in Seq(Records) /\ q_ \in Seq(Records) /\ Len(q_) \in Nat
         /\ Len(L) - Len(q_) \in Nat
         /\ \A i \in 1 .. Len(q_) : q_[i] = L[(Len(L) - Len(q_)) + i]
         /\ Ideal!Window(L, cur[w]) = (Len(L) - Len(q_)) + 1 .. Len(L)
<1> DEFINE r == cur[w]
           d == Len(L) - Len(q_)
<1>1. L = Log(w)
  BY DEF Log
<1>2. /\ L \in Seq(Records) /\ r \in Records
      /\ seen \in Seq(Records) /\ q_ \in Seq(Records)
  BY <1>1, LogIsSeq DEF IndexInv, WindowInv, TypeOK
<1>3. /\ Len(L) \in Nat /\ Len(q_) \in Nat /\ Len(L) = Len(seen) + 1 /\ Len(seen) \in Nat
      /\ L[Len(L)] = r /\ \A i \in 1 .. Len(seen) : L[i] = seen[i]
      /\ DOMAIN L = 1 .. Len(L) /\ DOMAIN seen = 1 .. Len(seen)
  BY <1>2, AppendProperties, LenProperties
<1>4. /\ Len(q_) <= Len(L)
      /\ \A i \in 1 .. Len(q_) : q_[i] = L[d + i]
      /\ \A i \in 1 .. Len(L) : L[i].ts <= clock
      /\ \A i, j \in 1 .. Len(L) : i <= j => L[i].ts <= L[j].ts
      /\ \A i \in 1 .. d : L[i].ts < clock - Span
      /\ q_ # <<>> => q_[1].ts >= L[Len(L)].ts - Span
  BY <1>1, <1>3 DEF IndexInv, WindowInv, Suffix, Dropped, Disorder, DroppedStale, FreshFront,
                    Ideal!InOrder
<1>5. /\ \A i \in 1 .. Len(L) : L[i].ts \in Nat
      /\ r.ts \in Nat /\ clock \in Nat
  <2>1. \A i \in 1 .. Len(L) : L[i].ts \in Nat
    BY <1>2, TimeOf
  <2> QED
    BY <2>1, <1>2, RecordTime, DetectionAssumption DEF IndexInv, WindowInv, TypeOK
<1>6. r.ts = clock
  <2>1. r.ts <= clock
    BY <1>3, <1>4
  <2>2. r.ts >= clock
    <3>1. clock = 0 \/ \E i \in 1 .. Len(L) : L[i].ts = clock
      BY <1>1 DEF ClockShown
    <3>2. \A i \in 1 .. Len(L) : L[i].ts <= r.ts
      BY <1>3, <1>4
    <3> QED
      BY <3>1, <3>2, <1>5
  <2> QED
    BY <2>1, <2>2, <1>5
<1>d. d = Len(L) - Len(q_) /\ d \in Nat /\ d + Len(q_) = Len(L)
  BY <1>3, <1>4
<1> HIDE DEF r, d
<1>8. \A i \in 1 .. Len(L) : L[i].ts >= r.ts - Span <=> i \in d + 1 .. Len(L)
  <2> SUFFICES ASSUME NEW i \in 1 .. Len(L)
               PROVE  L[i].ts >= r.ts - Span <=> i \in d + 1 .. Len(L)
    OBVIOUS
  <2>1. CASE i \in 1 .. d
    BY <2>1, <1>d, <1>4, <1>5, <1>6
  <2>2. CASE i \in d + 1 .. Len(L)
    <3>1. 1 \in 1 .. Len(q_) /\ q_ # <<>> /\ d + 1 \in 1 .. Len(L) /\ d + 1 <= i
      BY <2>2, <1>2, <1>3, <1>d, EmptySeq
    <3>2. q_[1] = L[d + 1] /\ q_[1].ts >= r.ts - Span
      BY <3>1, <1>3, <1>4
    <3>3. L[d + 1].ts <= L[i].ts
      BY <3>1, <1>4
    <3>4. L[d + 1].ts \in Nat /\ L[i].ts \in Nat
      BY <3>1, <1>5
    <3>5. L[d + 1].ts >= r.ts - Span
      BY ONLY <3>2
    <3>7. r.ts - Span \in Int
      BY <1>5
    <3>6. L[i].ts >= r.ts - Span
      BY <3>3, <3>4, <3>5, <3>7, AtLeast
    <3> QED
      BY <2>2, <3>6
  <2> QED
    BY <2>1, <2>2, <1>3, <1>d
<1>9. Ideal!Window(L, r) = d + 1 .. Len(L)
  <2>1. Ideal!Window(L, r) = {i \in 1 .. Len(L) : L[i].ts >= r.ts - Span}
    BY <1>3 DEF Ideal!Window
  <2>2. d + 1 .. Len(L) \subseteq 1 .. Len(L)
    BY <1>3, <1>d
  <2> QED
    BY <2>1, <2>2, <1>8
<1> QED
  BY <1>2, <1>3, <1>4, <1>9, <1>d DEF r

(* Once the record in hand is counted, a query finds a recount of the deque. *)
LEMMA DetectCounts ==
  ASSUME NEW w, IndexInv(w), pc[w] = "detect"
  PROVE  /\ \A k : Entry(k) = Occurrences(k, q_)
         /\ \A k : k \in DOMAIN index <=> Occurrences(k, q_) > 0
<1>1. IsABag(index)
  BY DEF IndexInv, WindowInv, TypeOK
<1>2. \A k : Pending(k, w) = 0
  BY DEF Pending, Bit
<1> QED
  BY <1>1, <1>2, EntryType DEF IndexInv, Counted

(* Both modules count with the library's Cardinality. *)
LEMMA SameCardinality == \A S : Ideal!Cardinality(S) = Cardinality(S)
BY Zenon DEF Ideal!Cardinality, Cardinality

(* The records of the window that share a key, recounted and looked up. *)
Sharing(k, s, r) == {i \in Ideal!Window(s, r) : k \in Keys(s[i])}

LEMMA SharingKey ==
  ASSUME NEW w, Workers = {w}, Span \in Nat,
         IndexInv(w), ClockShown(w), pc[w] = "detect",
         NEW L, L = Append(seen, cur[w]), Ideal!InOrder(L), NEW k
  PROVE  Cardinality(Sharing(k, L, cur[w])) = Entry(k)
<1> DEFINE d == Len(L) - Len(q_)
<1>1. /\ L \in Seq(Records) /\ q_ \in Seq(Records) /\ d \in Nat
      /\ \A i \in 1 .. Len(q_) : q_[i] = L[d + i]
      /\ Ideal!Window(L, cur[w]) = d + 1 .. Len(L)
  BY DetectSees
<1>2. Len(L) = d + Len(q_)
  BY DetectSees
<1> HIDE DEF d
<1>3. Sharing(k, L, cur[w]) = After(k, L, d)
  BY <1>1, Zenon DEF Sharing, After
<1>4. Cardinality(After(k, L, d)) = Occurrences(k, q_)
  BY <1>1, <1>2, CountInSuffix
<1> QED
  BY <1>3, <1>4, DetectCounts

LEMMA WindowFinite ==
  ASSUME NEW w, Workers = {w}, Span \in Nat,
         IndexInv(w), ClockShown(w), pc[w] = "detect",
         NEW L, L = Append(seen, cur[w]), Ideal!InOrder(L),
         NEW D \in SUBSET Ideal!Window(L, cur[w])
  PROVE  IsFiniteSet(D) /\ Cardinality(D) \in Nat /\ Cardinality(D) <= Len(L)
<1>1. /\ Len(L) \in Nat /\ Len(L) - Len(q_) \in Nat
      /\ Ideal!Window(L, cur[w]) = (Len(L) - Len(q_)) + 1 .. Len(L)
  BY DetectSees
<1>2. D \in SUBSET (1 .. Len(L))
  BY <1>1
<1>3. IsFiniteSet(1 .. Len(L)) /\ Cardinality(1 .. Len(L)) = Len(L)
  <2>1. ASSUME NEW n \in Nat PROVE IsFiniteSet(1 .. n) /\ Cardinality(1 .. n) = n
    BY FS_Interval
  <2> QED
    BY <1>1, <2>1
<1>4. IsFiniteSet(D) /\ Cardinality(D) <= Cardinality(1 .. Len(L))
  BY <1>2, <1>3, FS_Subset
<1> QED
  BY <1>3, <1>4, FS_CardinalityType

LEMMA AttemptsAgree ==
  ASSUME NEW w, Workers = {w}, Span \in Nat,
         IndexInv(w), ClockShown(w), pc[w] = "detect",
         NEW L, L = Append(seen, cur[w]), Ideal!InOrder(L)
  PROVE  /\ Ideal!Attempts(L, cur[w]) = port_attempts(cur[w].src_ip, cur[w].dst_ip, cur[w].dst_port)
         /\ Ideal!Attempts(L, cur[w]) \in 0 .. Len(L)
<1> DEFINE r == cur[w]
           W == Ideal!Window(L, r)
           k == <<"counts_dst_", r.src_ip, r.dst_ip, r.dst_port>>
           P == Sharing(k, L, r)
<1>1. {i \in W : L[i].src_ip = r.src_ip /\ L[i].dst_ip = r.dst_ip /\ L[i].dst_port = r.dst_port} = P
  <2>1. \A x : k \in Keys(x) <=> x.src_ip = r.src_ip /\ x.dst_ip = r.dst_ip /\ x.dst_port = r.dst_port
    BY KeyOf
  <2> HIDE DEF k, r
  <2> QED
    BY <2>1, Zenon DEF Sharing
<1>2. Ideal!Attempts(L, r) = Cardinality(P)
  BY <1>1, SameCardinality, Zenon DEF Ideal!Attempts
<1>3. Cardinality(P) = Entry(k)
  <2> HIDE DEF k
  <2> QED
    BY SharingKey
<1>5. Cardinality(P) \in 0 .. Len(L)
  <2>1. P \in SUBSET W
    BY DEF Sharing
  <2>2. Len(L) \in Nat
    BY DetectSees
  <2> HIDE DEF P
  <2>3. Cardinality(P) \in Nat /\ Cardinality(P) <= Len(L)
    BY <2>1, WindowFinite
  <2> QED
    BY <2>2, <2>3
<1>4. port_attempts(cur[w].src_ip, cur[w].dst_ip, cur[w].dst_port) = Entry(k)
  BY DEF port_attempts
<1> HIDE DEF P, k
<1> QED
  BY <1>2, <1>3, <1>4, <1>5 DEF r

LEMMA FailuresAgree ==
  ASSUME NEW w, Workers = {w}, Span \in Nat,
         IndexInv(w), ClockShown(w), pc[w] = "detect",
         NEW L, L = Append(seen, cur[w]), Ideal!InOrder(L)
  PROVE  /\ Ideal!Failures(L, cur[w]) = auth_failures(cur[w].username)
         /\ Ideal!Failures(L, cur[w]) \in 0 .. Len(L)
<1> DEFINE r == cur[w]
           W == Ideal!Window(L, r)
           k == <<"auth_failures_", r.username>>
           P == Sharing(k, L, r)
<1>1. {i \in W : L[i].fail /\ L[i].username = r.username} = P
  <2>1. \A x : k \in Keys(x) <=> x.fail /\ x.username = r.username
    BY KeyOf
  <2> HIDE DEF k, r
  <2> QED
    BY <2>1, Zenon DEF Sharing
<1>2. Ideal!Failures(L, r) = Cardinality(P)
  BY <1>1, SameCardinality, Zenon DEF Ideal!Failures
<1>3. Cardinality(P) = Entry(k)
  <2> HIDE DEF k
  <2> QED
    BY SharingKey
<1>5. Cardinality(P) \in 0 .. Len(L)
  <2>1. P \in SUBSET W
    BY DEF Sharing
  <2>2. Len(L) \in Nat
    BY DetectSees
  <2> HIDE DEF P
  <2>3. Cardinality(P) \in Nat /\ Cardinality(P) <= Len(L)
    BY <2>1, WindowFinite
  <2> QED
    BY <2>2, <2>3
<1>4. auth_failures(cur[w].username) = Entry(k)
  BY DEF auth_failures
<1> HIDE DEF P, k
<1> QED
  BY <1>2, <1>3, <1>4, <1>5 DEF r

(* A key is in the maps just when a record of the window has it. *)
LEMMA KeysOfWindow ==
  ASSUME NEW w, Workers = {w}, Span \in Nat,
         IndexInv(w), ClockShown(w), pc[w] = "detect",
         NEW L, L = Append(seen, cur[w]), Ideal!InOrder(L), NEW k
  PROVE  k \in BagToSet(index) <=> \E i \in Ideal!Window(L, cur[w]) : k \in Keys(L[i])
<1> DEFINE P == Sharing(k, L, cur[w])
<1>1. k \in BagToSet(index) <=> Occurrences(k, q_) > 0
  BY DetectCounts DEF BagToSet
<1>2. Cardinality(P) = Occurrences(k, q_)
  BY SharingKey, DetectCounts, Zenon
<1>3. IsFiniteSet(P) /\ Cardinality(P) \in Nat
  <2>1. P \in SUBSET Ideal!Window(L, cur[w])
    BY DEF Sharing
  <2> QED
    BY <2>1, WindowFinite
<1>4. Cardinality(P) = 0 <=> P = {}
  BY <1>3, FS_EmptySet
<1>5. P # {} <=> \E i \in Ideal!Window(L, cur[w]) : k \in Keys(L[i])
  BY DEF Sharing
<1> HIDE DEF P
<1>6. Occurrences(k, q_) > 0 <=> P # {}
  BY <1>2, <1>3, <1>4
<1> QED
  BY <1>1, <1>5, <1>6, Zenon

LEMMA AttackersAgree ==
  ASSUME NEW w, Workers = {w}, Span \in Nat,
         IndexInv(w), ClockShown(w), pc[w] = "detect",
         NEW L, L = Append(seen, cur[w]), Ideal!InOrder(L)
  PROVE  /\ Ideal!Attackers(L, cur[w]) = uniq_attackers(cur[w].dst_ip)
         /\ Ideal!Attackers(L, cur[w]) \in 0 .. Len(L)
<1> DEFINE r == cur[w]
           W == Ideal!Window(L, r)
           D == {j \in W : L[j].dst_ip = r.dst_ip}
           U == {L[i].src_ip : i \in D}
           K == {k \in BagToSet(index) : k[1] = "uniq_dst_" /\ k[3] = r.dst_ip}
           f == [i \in D |-> L[i].src_ip]
           g == [a \in U |-> <<"uniq_dst_", a, r.dst_ip>>]
<1>1. D \in SUBSET W
  OBVIOUS
<1>4. IsFiniteSet(D) /\ Cardinality(D) <= Len(L) /\ Cardinality(D) \in Nat /\ Len(L) \in Nat
  BY <1>1, WindowFinite, DetectSees
<1>5. IsFiniteSet(U) /\ Cardinality(U) <= Cardinality(D) /\ Cardinality(U) \in Nat
  <2>1. f \in [D -> U] /\ \A a \in U : \E i \in D : f[i] = a
    OBVIOUS
  <2> HIDE DEF U, D, f
  <2>2. f \in Surjection(D, U)
    BY <2>1, Fun_IsSurj
  <2> QED
    BY <2>2, <1>4, FS_Surjection, FS_CardinalityType
<1>6. g \in [U -> K]
  <2> SUFFICES ASSUME NEW a \in U PROVE <<"uniq_dst_", a, r.dst_ip>> \in K
    OBVIOUS
  <2>1. PICK i \in W : L[i].dst_ip = r.dst_ip /\ L[i].src_ip = a
    OBVIOUS
  <2>2. <<"uniq_dst_", L[i].src_ip, L[i].dst_ip>> \in Keys(L[i])
    BY DEF Keys, TrafficKeys
  <2>3. <<"uniq_dst_", a, r.dst_ip>> \in BagToSet(index)
    BY <2>1, <2>2, KeysOfWindow
  <2> QED
    BY <2>3
<1>7. \A a, b \in U : g[a] = g[b] => a = b
  OBVIOUS
<1>8. \A k \in K : \E a \in U : g[a] = k
  <2> SUFFICES ASSUME NEW k \in K PROVE \E a \in U : g[a] = k
    OBVIOUS
  <2>1. PICK i \in W : k \in Keys(L[i])
    BY KeysOfWindow
  <2>2. k = <<"uniq_dst_", L[i].src_ip, L[i].dst_ip>>
    BY <2>1, KeyOf
  <2>3. L[i].dst_ip = r.dst_ip
    BY <2>2
  <2>4. L[i].src_ip \in U /\ g[L[i].src_ip] = k
    BY <2>2, <2>3
  <2> QED
    BY <2>4
<1>9. ExistsBijection(U, K)
  <2> HIDE DEF U, K, g
  <2>1. g \in Bijection(U, K)
    BY <1>6, <1>7, <1>8, Fun_IsBij
  <2> QED
    BY <2>1 DEF ExistsBijection
<1>10. Cardinality(K) = Cardinality(U)
  <2> HIDE DEF U, K
  <2> QED
    BY <1>5, <1>9, FS_Bijection
<1>11. uniq_attackers(r.dst_ip) = Cardinality(K)
  BY DEF uniq_attackers
<1>12. Ideal!Attackers(L, r) = Cardinality(U)
  BY SameCardinality, Zenon DEF Ideal!Attackers
<1> HIDE DEF U, K, D, W
<1> QED
  BY <1>4, <1>5, <1>10, <1>11, <1>12

(* The findings of the detectors are the findings of the recount. *)
LEMMA DetectJudges ==
  ASSUME NEW w, Workers = {w}, Span \in Nat,
         IndexInv(w), ClockShown(w), Detect(w)
  PROVE  Ideal!Judge(cur[w])
<1> DEFINE r == cur[w]
           L == Append(seen, r)
           a == Ideal!Attempts(L, r)
           u == Ideal!Attackers(L, r)
           f == Ideal!Failures(L, r)
           F == detect_portscan(r) \cup detect_ddos(r) \cup detect_bruteforce(r)
<1>1. /\ pc[w] = "detect" /\ out' = F /\ seen' = L
  BY DEF Detect
<1> SUFFICES ASSUME Ideal!InOrder(L) PROVE F = Ideal!Findings(L, r)
  BY <1>1 DEF Ideal!Judge
<1>3. /\ a = port_attempts(r.src_ip, r.dst_ip, r.dst_port) /\ a \in 0 .. Len(L)
      /\ u = uniq_attackers(r.dst_ip) /\ u \in 0 .. Len(L)
      /\ f = auth_failures(r.username) /\ f \in 0 .. Len(L)
  BY <1>1, AttemptsAgree, AttackersAgree, FailuresAgree
<1> HIDE DEF a, u, f, L, r
<1>4. F = Ideal!Findings(L, r)
  <2>1. ASSUME NEW x
        PROVE  x \in F
                 <=> \/ x = Report("portscan", a) /\ a >= PortscanAttempts
                     \/ x = Report("ddos", u) /\ u >= DdosUnique
                     \/ x = Report("bruteforce", f) /\ r.username # NoUser
                                                    /\ f >= BruteforceFailures
    BY <1>3 DEF detect_portscan, detect_ddos, detect_bruteforce
  <2>2. ASSUME NEW x
        PROVE  x \in Ideal!Findings(L, r)
                 <=> \/ x = Report("portscan", a) /\ a >= PortscanAttempts
                     \/ x = Report("ddos", u) /\ u >= DdosUnique
                     \/ x = Report("bruteforce", f) /\ r.username # NoUser
                                                    /\ f >= BruteforceFailures
    BY <1>3 DEF Ideal!Findings, Report, a, u, f
  <2> HIDE DEF F
  <2>3. \A x : x \in F <=> x \in Ideal!Findings(L, r)
    BY <2>1, <2>2
  <2> QED
    BY <2>3
<1> QED
  BY <1>4

(* One worker judges every record as a recount of the whole log would, as   *)
(* long as the log is in time order: the window, the five maps and the      *)
(* pruning implement the detector that has none of them.                    *)
THEOREM LoneWorkerImplementsIdeal ==
  ASSUME NEW CONSTANT w, Workers = {w}, Span \in Nat
  PROVE  Spec => ImplementsIdeal
<1>1. Init => Ideal!Init
  BY DEF Init, Ideal!Init
<1>2. IndexInv(w) /\ ClockShown(w) /\ [Next]_vars => [Ideal!Next]_(Ideal!idealVars)
  <2> SUFFICES ASSUME IndexInv(w), ClockShown(w), [Next]_vars
               PROVE  [Ideal!Next]_(Ideal!idealVars)
    OBVIOUS
  <2>1. CASE Add(w) \/ Prune(w) \/ Increment(w) \/ UNCHANGED vars
    BY <2>1 DEF Add, Prune, Increment, vars, Ideal!idealVars
  <2>2. CASE Detect(w)
    <3>1. Ideal!Judge(cur[w]) /\ cur[w] \in Records
      BY <2>2, DetectJudges DEF Detect, IndexInv, WindowInv, TypeOK
    <3> QED
      BY <3>1 DEF Ideal!Next
  <2> QED
    BY <2>1, <2>2 DEF Next
<1> QED
  BY <1>1, <1>2, IndexInvariant, ClockInvariant, PTL
     DEF Spec, ImplementsIdeal, Ideal!Spec
=============================================================================
