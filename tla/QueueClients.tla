---------------------------- MODULE QueueClients ----------------------------
(***************************************************************************)
(* Threads that share one BoundedQueue.  Producers call push and close,    *)
(* consumers call pop in a loop, in any order and at any time: more than   *)
(* the one reader of src/main.cpp does, so what holds here is a property   *)
(* of the class.                                                           *)
(*                                                                         *)
(* accepted and received are history variables: the items whose push       *)
(* returned true and the items pop returned, in the order of the critical  *)
(* sections.  An item is <<p, n>>, the n-th value producer p pushes.       *)
(***************************************************************************)
EXTENDS BoundedQueue

CONSTANTS
  Producers, Consumers,
  MaxItems          \* bound: pushes one producer begins

ASSUME ClientAssumption ==
  /\ Producers \cap Consumers = {}
  /\ MaxItems \in Nat

VARIABLES
  pc,               \* the call each thread is in: "idle", "push" or "pop"
  begun,            \* how many pushes each producer has begun
  accepted, received,
  ended             \* the consumers that have been given nullopt

vars == <<queueVars, pc, begun, accepted, received, ended>>

Threads == Producers \cup Consumers
Items   == Producers \X (1..MaxItems)

Init ==
  /\ QueueInit
  /\ pc = [t \in Threads |-> "idle"]
  /\ begun = [p \in Producers |-> 0]
  /\ accepted = <<>>
  /\ received = <<>>
  /\ ended = {}

Running(t, call) == pc[t] = call /\ t \notin waiting
Return(t) == pc' = [pc EXCEPT ![t] = "idle"]

BeginPush(p) ==
  /\ Running(p, "idle")
  /\ begun[p] < MaxItems
  /\ begun' = [begun EXCEPT ![p] = @ + 1]
  /\ pc' = [pc EXCEPT ![p] = "push"]
  /\ UNCHANGED <<queueVars, accepted, received, ended>>

Push(p) ==
  LET v == <<p, begun[p]>>
  IN  /\ Running(p, "push")
      /\ \/ /\ PushBlock(p)
            /\ UNCHANGED <<pc, accepted>>
         \/ /\ PushStore(v)
            /\ accepted' = Append(accepted, v)
            /\ Return(p)
         \/ /\ PushRefuse
            /\ Return(p)
            /\ UNCHANGED accepted
      /\ UNCHANGED <<begun, received, ended>>

CallClose(p) ==
  /\ Running(p, "idle")
  /\ Close
  /\ UNCHANGED <<pc, begun, accepted, received, ended>>

BeginPop(c) ==
  /\ Running(c, "idle")
  /\ pc' = [pc EXCEPT ![c] = "pop"]
  /\ UNCHANGED <<queueVars, begun, accepted, received, ended>>

Pop(c) ==
  /\ Running(c, "pop")
  /\ \/ /\ PopBlock(c)
        /\ UNCHANGED <<pc, received, ended>>
     \/ /\ PopTake
        /\ received' = Append(received, Head(q_))
        /\ Return(c)
        /\ UNCHANGED ended
     \/ /\ PopNone
        /\ ended' = ended \cup {c}
        /\ Return(c)
        /\ UNCHANGED received
  /\ UNCHANGED <<begun, accepted>>

Wake(t) ==
  /\ SpuriousWake(t)
  /\ UNCHANGED <<pc, begun, accepted, received, ended>>

Next ==
  \/ \E p \in Producers : BeginPush(p) \/ Push(p) \/ CallClose(p)
  \/ \E c \in Consumers : BeginPop(c) \/ Pop(c)
  \/ \E t \in Threads : Wake(t)

(* A thread inside push or pop is scheduled again; consumers, like the      *)
(* workers' `while (true)`, always call pop again.  Nobody has to push, to  *)
(* close, or to be woken without a notification.                            *)
Fairness ==
  /\ \A p \in Producers : WF_vars(Push(p))
  /\ \A c \in Consumers : WF_vars(BeginPop(c)) /\ WF_vars(Pop(c))

Spec == Init /\ [][Next]_vars
FairSpec == Spec /\ Fairness

-----------------------------------------------------------------------------
(* Type invariant. *)
TypeOK ==
  /\ q_ \in Seq(Items)
  /\ closed_ \in BOOLEAN
  /\ waiting \subseteq Threads
  /\ pc \in [Threads -> {"idle", "push", "pop"}]
  /\ \A p \in Producers : pc[p] # "pop"
  /\ \A c \in Consumers : pc[c] # "push"
  /\ begun \in [Producers -> 0..MaxItems]
  /\ \A p \in Producers : pc[p] = "push" => begun[p] > 0
  /\ accepted \in Seq(Items)
  /\ received \in Seq(Items)
  /\ ended \subseteq Consumers

(* Nothing is lost, duplicated or overtaken inside the queue, and it never  *)
(* holds more than Cap items: what push accepted is what pop returned       *)
(* followed by the content of q_.                                           *)
FifoBounded ==
  /\ accepted = received \o q_
  /\ Len(q_) <= Cap

(* A blocked thread's predicate is false: no notification its wait needed   *)
(* was missed, although producers and consumers share one condition         *)
(* variable.  It implies that the two roles are never blocked at once       *)
(* (unless Cap is 0), so the queue cannot deadlock its callers.             *)
NoLostWakeup ==
  \A t \in waiting :
    \/ pc[t] = "push" /\ ~PushReady
    \/ pc[t] = "pop" /\ ~PopReady

(* nullopt means the end of the stream: once one consumer has been given    *)
(* it, every accepted item has been received and none is accepted later.    *)
EndOfStream ==
  ended # {} => closed_ /\ received = accepted

(* Threads that share the queue see a channel. *)
Chan == INSTANCE Channel
          WITH sent <- accepted, rcvd <- received, open <- ~closed_
ImplementsChannel == Chan!Spec

(* close() unblocks everybody: a call still in progress when the queue is   *)
(* closed returns.                                                          *)
CloseReleases ==
  \A t \in Threads : (closed_ /\ pc[t] # "idle") ~> pc[t] = "idle"
=============================================================================
