------------------------- MODULE QueueClientsProofs -------------------------
(***************************************************************************)
(* Theorems about BoundedQueue and its callers, for any sets of producers  *)
(* and consumers, any capacity and any number of items.                    *)
(***************************************************************************)
EXTENDS QueueClients, SequenceTheorems, TLAPS

(* Concatenation is associative (the library's theorem, quantified). *)
LEMMA ConcatAssoc ==
  \A S : \A s, t, u \in Seq(S) : (s \o t) \o u = s \o (t \o u)
  BY ConcatAssociative

LEMMA AppendInSeq ==
  \A S : \A s \in Seq(S) : \A e \in S : Append(s, e) \in Seq(S)
  BY AppendProperties

(* A nonempty sequence is its head followed by its tail. *)
LEMMA HeadThenTail ==
  ASSUME NEW S, NEW s \in Seq(S), s # <<>>
  PROVE  s = <<Head(s)>> \o Tail(s)
<1>1. Head(s) \in S /\ Tail(s) \in Seq(S) /\ Len(Tail(s)) = Len(s) - 1
  BY HeadTailProperties
<1>2. \A i \in 1..Len(Tail(s)) : Tail(s)[i] = s[i + 1]
  BY HeadTailProperties
<1>3. <<Head(s)>> \in Seq(S) /\ Len(<<Head(s)>>) = 1 /\ <<Head(s)>>[1] = s[1]
  BY <1>1
<1> DEFINE t == <<Head(s)>> \o Tail(s)
<1>4. /\ t \in Seq(S)
      /\ Len(t) = Len(s)
      /\ \A i \in 1..Len(s) : t[i] = IF i <= 1 THEN s[1] ELSE Tail(s)[i - 1]
  BY <1>1, <1>3, ConcatProperties
<1>5. \A i \in 1..Len(s) : s[i] = t[i]
  BY <1>1, <1>2, <1>4
<1> QED
  BY <1>4, <1>5, SeqEqual

(* The items of a producer that is inside push are items of the channel. *)
LEMMA ItemInPush ==
  ASSUME TypeOK, NEW p \in Producers, pc[p] = "push"
  PROVE  <<p, begun[p]>> \in Items
  BY ClientAssumption DEF TypeOK, Items

LEMMA InitTypeOK == Init => TypeOK
<1> SUFFICES ASSUME Init PROVE TypeOK
  OBVIOUS
<1>1. <<>> \in Seq(Items)
  BY EmptySeq
<1>2. pc \in [Threads -> {"idle", "push", "pop"}] /\ \A t \in Threads : pc[t] = "idle"
  BY DEF Init
<1>3. begun \in [Producers -> 0..MaxItems]
  BY ClientAssumption DEF Init
<1> QED
  BY <1>1, <1>2, <1>3 DEF Init, QueueInit, TypeOK, Threads

(* Type correctness of the queue and of its callers. *)
THEOREM TypeCorrect == Spec => []TypeOK
<1>1. Init => TypeOK
  BY InitTypeOK
<1>2. TypeOK /\ [Next]_vars => TypeOK'
  <2> SUFFICES ASSUME TypeOK, [Next]_vars PROVE TypeOK'
    OBVIOUS
  <2> USE ClientAssumption
  <2>1. ASSUME NEW p \in Producers, BeginPush(p) PROVE TypeOK'
    BY <2>1 DEF TypeOK, BeginPush, Running, queueVars, Threads
  <2>2. ASSUME NEW p \in Producers, Push(p) PROVE TypeOK'
    <3>1. pc[p] = "push" /\ p \in Threads
      BY <2>2 DEF Push, Running, Threads
    <3>2. <<p, begun[p]>> \in Items
      BY <3>1, ItemInPush
    <3>3. pc' \in [Threads -> {"idle", "push", "pop"}]
      BY <2>2 DEF TypeOK, Push, Return
    <3>4. \A c \in Consumers : pc'[c] # "push"
      BY <2>2 DEF TypeOK, Push, Return, Threads
    <3>5. \A r \in Producers : pc'[r] # "pop" /\ (pc'[r] = "push" => pc[r] = "push")
      BY <2>2 DEF TypeOK, Push, Return, Threads
    <3>6. q_' \in Seq(Items) /\ accepted' \in Seq(Items)
      <4>1. \/ q_' = q_ /\ accepted' = accepted
            \/ /\ q_' = Append(q_, <<p, begun[p]>>)
               /\ accepted' = Append(accepted, <<p, begun[p]>>)
        BY <2>2 DEF Push, PushBlock, PushStore, PushRefuse, Block, queueVars
      <4> DEFINE v == <<p, begun[p]>>
      <4>2. q_ \in Seq(Items) /\ accepted \in Seq(Items) /\ v \in Items
        BY <3>2 DEF TypeOK
      <4>3. Append(q_, v) \in Seq(Items) /\ Append(accepted, v) \in Seq(Items)
        <5> HIDE DEF v
        <5> QED
          BY <4>2, AppendInSeq
      <4> QED
        BY <4>1, <4>2, <4>3
    <3>7. waiting' \subseteq Threads /\ closed_' \in BOOLEAN
      BY <2>2, <3>1 DEF TypeOK, Push, PushBlock, PushStore, PushRefuse, Block,
                        NotifyAll, queueVars
    <3> QED
      BY <2>2, <3>3, <3>4, <3>5, <3>6, <3>7 DEF TypeOK, Push
  <2>3. ASSUME NEW p \in Producers, CallClose(p) PROVE TypeOK'
    BY <2>3 DEF TypeOK, CallClose, Close, NotifyAll
  <2>4. ASSUME NEW c \in Consumers, BeginPop(c) PROVE TypeOK'
    BY <2>4 DEF TypeOK, BeginPop, Running, queueVars, Threads
  <2>5. ASSUME NEW c \in Consumers, Pop(c) PROVE TypeOK'
    <3>1. CASE PopBlock(c) /\ UNCHANGED <<pc, received, ended>>
      BY <2>5, <3>1 DEF TypeOK, Pop, PopBlock, Block, Threads
    <3>2. CASE /\ PopTake
               /\ received' = Append(received, Head(q_))
               /\ Return(c)
               /\ UNCHANGED ended
      <4>1. Head(q_) \in Items /\ Tail(q_) \in Seq(Items)
        BY <3>2, HeadTailProperties DEF TypeOK, PopTake
      <4>2. pc' \in [Threads -> {"idle", "push", "pop"}]
        BY <3>2 DEF TypeOK, Return
      <4>3. \A t \in Threads : pc'[t] = pc[t] \/ pc'[t] = "idle"
        BY <3>2 DEF TypeOK, Return
      <4> QED
        BY <2>5, <3>2, <4>1, <4>2, <4>3 DEF TypeOK, Pop, PopTake, NotifyAll, Threads
    <3>3. CASE PopNone /\ ended' = ended \cup {c} /\ Return(c) /\ UNCHANGED received
      BY <2>5, <3>3 DEF TypeOK, Pop, PopNone, Return, queueVars, Threads
    <3> QED
      BY <2>5, <3>1, <3>2, <3>3 DEF Pop
  <2>6. ASSUME NEW t \in Threads, Wake(t) PROVE TypeOK'
    BY <2>6 DEF TypeOK, Wake, SpuriousWake
  <2>7. CASE UNCHANGED vars
    BY <2>7 DEF TypeOK, vars, queueVars
  <2> QED
    BY <2>1, <2>2, <2>3, <2>4, <2>5, <2>6, <2>7 DEF Next
<1> QED
  BY <1>1, <1>2, PTL DEF Spec

-----------------------------------------------------------------------------
(* Once a consumer has been given nullopt, the queue is closed and empty. *)
Drained == ended # {} => closed_ /\ q_ = <<>>

(* The inductive invariant.  The four parts need each other only through   *)
(* TypeOK and Drained: Fifo turns Drained into EndOfStream.                *)
IInv ==
  /\ TypeOK
  /\ FifoBounded
  /\ NoLostWakeup
  /\ Drained

LEMMA InitIInv == Init => IInv
<1> SUFFICES ASSUME Init PROVE IInv
  OBVIOUS
<1>1. TypeOK
  BY InitTypeOK
<1>2. FifoBounded
  BY CapAssumption, EmptySeq, ConcatEmptySeq DEF Init, QueueInit, FifoBounded
<1> QED
  BY <1>1, <1>2 DEF Init, QueueInit, IInv, NoLostWakeup, Drained

(* One call of push preserves every part. *)
LEMMA PushStep ==
  ASSUME IInv, TypeOK', NEW p \in Producers, Push(p)
  PROVE  IInv'
<1> DEFINE v == <<p, begun[p]>>
<1>1. pc[p] = "push" /\ p \notin waiting /\ p \in Threads
  BY DEF Push, Running, Threads
<1>2. CASE PushBlock(p) /\ UNCHANGED <<pc, accepted>>
  <2>1. FifoBounded' /\ Drained'
    BY <1>2 DEF Push, PushBlock, Block, IInv, FifoBounded, Drained
  <2>2. NoLostWakeup'
    BY <1>1, <1>2 DEF Push, PushBlock, Block, IInv, NoLostWakeup, PushReady, PopReady
  <2> QED
    BY <2>1, <2>2 DEF IInv
<1>3. CASE PushStore(v) /\ accepted' = Append(accepted, v) /\ Return(p)
  <2>1. v \in Items
    BY <1>1, ItemInPush DEF IInv
  <2>2. Len(q_) < Cap /\ ~closed_ /\ q_' = Append(q_, v) /\ waiting' = {}
    BY <1>3 DEF PushStore, PushReady, NotifyAll
  <2>3. accepted' = received' \o q_'
    <3>1. q_' = q_ \o <<v>> /\ accepted' = accepted \o <<v>>
      BY <1>3, <2>1, <2>2, AppendIsConcat DEF IInv, TypeOK
    <3>2. (received \o q_) \o <<v>> = received \o (q_ \o <<v>>)
      <4>1. <<v>> \in Seq(Items) /\ received \in Seq(Items) /\ q_ \in Seq(Items)
        BY <2>1 DEF IInv, TypeOK
      <4> QED
        BY <4>1, ConcatAssoc
    <3> QED
      BY <3>1, <3>2 DEF Push, IInv, FifoBounded
  <2>4. Len(q_') <= Cap
    BY <2>1, <2>2, CapAssumption DEF IInv, TypeOK
  <2>5. NoLostWakeup'
    BY <2>2 DEF NoLostWakeup
  <2>6. Drained'
    BY <2>2 DEF Push, IInv, Drained
  <2> QED
    BY <2>3, <2>4, <2>5, <2>6 DEF IInv, FifoBounded
<1>4. CASE PushRefuse /\ Return(p) /\ UNCHANGED accepted
  <2>1. FifoBounded' /\ Drained'
    BY <1>4 DEF Push, PushRefuse, queueVars, IInv, FifoBounded, Drained
  <2>2. \A t \in waiting : pc'[t] = pc[t]
    BY <1>1, <1>4 DEF Return, IInv, TypeOK
  <2>3. NoLostWakeup'
    BY <1>4, <2>2 DEF PushRefuse, queueVars, IInv, NoLostWakeup, PushReady, PopReady
  <2> QED
    BY <2>1, <2>3 DEF IInv
<1> QED
  BY <1>2, <1>3, <1>4 DEF Push

(* One call of pop preserves every part. *)
LEMMA PopStep ==
  ASSUME IInv, TypeOK', NEW c \in Consumers, Pop(c)
  PROVE  IInv'
<1>1. pc[c] = "pop" /\ c \notin waiting /\ c \in Threads
  BY DEF Pop, Running, Threads
<1>2. CASE PopBlock(c) /\ UNCHANGED <<pc, received, ended>>
  <2>1. FifoBounded' /\ Drained'
    BY <1>2 DEF Pop, PopBlock, Block, IInv, FifoBounded, Drained
  <2>2. NoLostWakeup'
    BY <1>1, <1>2 DEF Pop, PopBlock, Block, IInv, NoLostWakeup, PushReady, PopReady
  <2> QED
    BY <2>1, <2>2 DEF IInv
<1>3. CASE /\ PopTake
           /\ received' = Append(received, Head(q_))
           /\ Return(c)
           /\ UNCHANGED ended
  <2>1. q_ # <<>> /\ q_' = Tail(q_) /\ waiting' = {} /\ closed_' = closed_
    BY <1>3 DEF PopTake, NotifyAll
  <2>2. /\ Head(q_) \in Items
        /\ Tail(q_) \in Seq(Items)
        /\ q_ = <<Head(q_)>> \o Tail(q_)
        /\ Len(Tail(q_)) = Len(q_) - 1
    BY <2>1, HeadTailProperties, HeadThenTail DEF IInv, TypeOK
  <2>3. accepted' = received' \o q_'
    <3>1. received' = received \o <<Head(q_)>>
      BY <1>3, <2>2, AppendIsConcat DEF IInv, TypeOK
    <3>2. (received \o <<Head(q_)>>) \o Tail(q_) = received \o (<<Head(q_)>> \o Tail(q_))
      <4>1. <<Head(q_)>> \in Seq(Items) /\ received \in Seq(Items) /\ Tail(q_) \in Seq(Items)
        BY <2>2 DEF IInv, TypeOK
      <4> QED
        BY <4>1, ConcatAssoc
    <3> QED
      BY <2>1, <2>2, <3>1, <3>2 DEF Pop, IInv, FifoBounded
  <2>4. Len(q_') <= Cap
    BY <2>1, <2>2, CapAssumption DEF IInv, TypeOK, FifoBounded
  <2>5. NoLostWakeup'
    BY <2>1 DEF NoLostWakeup
  <2>6. Drained'
    BY <1>3, <2>1 DEF IInv, Drained
  <2> QED
    BY <2>3, <2>4, <2>5, <2>6 DEF IInv, FifoBounded
<1>4. CASE PopNone /\ ended' = ended \cup {c} /\ Return(c) /\ UNCHANGED received
  <2>1. FifoBounded'
    BY <1>4 DEF Pop, PopNone, queueVars, IInv, FifoBounded
  <2>2. Drained'
    BY <1>4 DEF PopNone, PopReady, queueVars, IInv, Drained
  <2>3. \A t \in waiting : pc'[t] = pc[t]
    BY <1>1, <1>4 DEF Return, IInv, TypeOK
  <2>4. NoLostWakeup'
    BY <1>4, <2>3 DEF PopNone, queueVars, IInv, NoLostWakeup, PushReady, PopReady
  <2> QED
    BY <2>1, <2>2, <2>4 DEF IInv
<1> QED
  BY <1>2, <1>3, <1>4 DEF Pop

LEMMA NextIInv == IInv /\ TypeOK' /\ [Next]_vars => IInv'
<1> SUFFICES ASSUME IInv, TypeOK', [Next]_vars PROVE IInv'
  OBVIOUS
<1>1. ASSUME NEW p \in Producers, BeginPush(p) PROVE IInv'
  <2>1. \A t \in waiting : pc'[t] = pc[t]
    BY <1>1 DEF BeginPush, Running, IInv, TypeOK
  <2> QED
    BY <1>1, <2>1 DEF BeginPush, queueVars, IInv, FifoBounded, NoLostWakeup, Drained,
                      PushReady, PopReady
<1>2. ASSUME NEW p \in Producers, Push(p) PROVE IInv'
  BY <1>2, PushStep
<1>3. ASSUME NEW p \in Producers, CallClose(p) PROVE IInv'
  BY <1>3 DEF CallClose, Close, NotifyAll, IInv, FifoBounded, NoLostWakeup, Drained
<1>4. ASSUME NEW c \in Consumers, BeginPop(c) PROVE IInv'
  <2>1. \A t \in waiting : pc'[t] = pc[t]
    BY <1>4 DEF BeginPop, Running, IInv, TypeOK
  <2> QED
    BY <1>4, <2>1 DEF BeginPop, queueVars, IInv, FifoBounded, NoLostWakeup, Drained,
                      PushReady, PopReady
<1>5. ASSUME NEW c \in Consumers, Pop(c) PROVE IInv'
  BY <1>5, PopStep
<1>6. ASSUME NEW t \in Threads, Wake(t) PROVE IInv'
  BY <1>6 DEF Wake, SpuriousWake, IInv, FifoBounded, NoLostWakeup, Drained,
              PushReady, PopReady
<1>7. CASE UNCHANGED vars
  BY <1>7 DEF vars, queueVars, IInv, FifoBounded, NoLostWakeup, Drained,
              PushReady, PopReady
<1> QED
  BY <1>1, <1>2, <1>3, <1>4, <1>5, <1>6, <1>7 DEF Next

LEMMA Inductive == Spec => []IInv
<1> QED
  BY InitIInv, NextIInv, TypeCorrect, PTL DEF Spec

-----------------------------------------------------------------------------
(* push and pop lose, duplicate and reorder nothing and respect the capacity. *)
THEOREM FifoBoundedAlways == Spec => []FifoBounded
<1>1. IInv => FifoBounded
  BY DEF IInv
<1> QED
  BY <1>1, Inductive, PTL

(* No thread stays blocked with its predicate true. *)
THEOREM NoLostWakeupAlways == Spec => []NoLostWakeup
<1>1. IInv => NoLostWakeup
  BY DEF IInv
<1> QED
  BY <1>1, Inductive, PTL

(* nullopt is given only when the stream has ended for everybody. *)
THEOREM EndOfStreamAlways == Spec => []EndOfStream
<1>1. IInv => EndOfStream
  BY ConcatEmptySeq DEF IInv, TypeOK, FifoBounded, Drained, EndOfStream
<1> QED
  BY <1>1, Inductive, PTL

(* With room in the buffer, producers and consumers are never blocked at    *)
(* the same time: the single condition variable cannot deadlock them.       *)
THEOREM RolesNeverBothBlocked ==
  ASSUME Cap > 0
  PROVE  Spec => [](waiting \cap Producers = {} \/ waiting \cap Consumers = {})
<1>1. IInv => waiting \cap Producers = {} \/ waiting \cap Consumers = {}
  <2> SUFFICES ASSUME IInv, NEW p \in waiting \cap Producers,
                      NEW c \in waiting \cap Consumers
               PROVE  FALSE
    OBVIOUS
  <2>1. ~PushReady
    BY DEF IInv, NoLostWakeup, TypeOK
  <2>2. q_ = <<>>
    BY DEF IInv, NoLostWakeup, TypeOK, PopReady
  <2> QED
    BY <2>1, <2>2 DEF PushReady
<1> QED
  BY <1>1, Inductive, PTL

-----------------------------------------------------------------------------
(* A step of the queue and its callers is a step of the channel or leaves it *)
(* as it was.                                                                *)
LEMMA StepRefines ==
  ASSUME IInv, [Next]_vars
  PROVE  [Chan!Next]_(Chan!chanVars)
<1> USE DEF Chan!Next, Chan!chanVars
<1> DEFINE Same == UNCHANGED <<accepted, received, closed_>>
<1>1. ASSUME NEW p \in Producers, BeginPush(p) PROVE Same
  BY <1>1 DEF BeginPush, queueVars
<1>2. ASSUME NEW p \in Producers, Push(p) PROVE Same \/ \E x \in Items : Chan!Send(x)
  <2> DEFINE v == <<p, begun[p]>>
  <2>1. v \in Items
    BY <1>2, ItemInPush DEF Push, Running, IInv
  <2>2. CASE PushStore(v) /\ accepted' = Append(accepted, v)
    <3>1. Len(q_) < Cap /\ ~closed_ /\ closed_' = closed_ /\ received' = received
      BY <1>2, <2>2 DEF Push, PushStore, PushReady
    <3>2. Len(accepted) - Len(received) = Len(q_)
      BY ConcatProperties, LenProperties DEF IInv, TypeOK, FifoBounded
    <3>3. Chan!Send(v)
      BY <2>2, <3>1, <3>2 DEF Chan!Send
    <3> QED
      BY <2>1, <3>3
  <2>3. CASE ~(PushStore(v) /\ accepted' = Append(accepted, v))
    BY <1>2, <2>3 DEF Push, PushBlock, PushRefuse, Block, queueVars
  <2> QED
    BY <2>2, <2>3
<1>3. ASSUME NEW p \in Producers, CallClose(p) PROVE Chan!Shut
  BY <1>3 DEF CallClose, Close, Chan!Shut
<1>4. ASSUME NEW c \in Consumers, BeginPop(c) PROVE Same
  BY <1>4 DEF BeginPop, queueVars
<1>5. ASSUME NEW c \in Consumers, Pop(c) PROVE Same \/ Chan!Recv
  <2>1. CASE PopTake /\ received' = Append(received, Head(q_))
    <3>1. q_ # <<>> /\ closed_' = closed_ /\ accepted' = accepted
      BY <1>5, <2>1 DEF Pop, PopTake
    <3>2. /\ Len(received) \in Nat
          /\ Len(q_) \in Nat \ {0}
          /\ Len(accepted) = Len(received) + Len(q_)
      BY <3>1, ConcatProperties, LenProperties, EmptySeq DEF IInv, TypeOK, FifoBounded
    <3>3. accepted[Len(received) + 1] = q_[Len(received) + 1 - Len(received)]
      BY <3>2, ConcatProperties DEF IInv, TypeOK, FifoBounded
    <3>4. q_[Len(received) + 1 - Len(received)] = Head(q_)
      BY <3>2
    <3> QED
      BY <2>1, <3>1, <3>2, <3>3, <3>4 DEF Chan!Recv
  <2>2. CASE ~(PopTake /\ received' = Append(received, Head(q_)))
    BY <1>5, <2>2 DEF Pop, PopBlock, PopNone, Block, queueVars
  <2> QED
    BY <2>1, <2>2
<1>6. ASSUME NEW t \in Threads, Wake(t) PROVE Same
  BY <1>6 DEF Wake, SpuriousWake
<1>7. CASE UNCHANGED vars
  BY <1>7 DEF vars, queueVars
<1> QED
  BY <1>1, <1>2, <1>3, <1>4, <1>5, <1>6, <1>7 DEF Next

(* The queue, with its mutex discipline and wait set, implements the safety  *)
(* part of the channel.                                                      *)
THEOREM QueueImplementsChannel == Spec => Chan!SafeSpec
<1>1. Init => Chan!Init
  BY DEF Init, QueueInit, Chan!Init
<1>2. IInv /\ [Next]_vars => [Chan!Next]_(Chan!chanVars)
  BY StepRefines
<1> QED
  BY <1>1, <1>2, Inductive, PTL DEF Spec, Chan!SafeSpec
=============================================================================
