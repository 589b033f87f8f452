---------------------------- MODULE BoundedQueue ----------------------------
(***************************************************************************)
(* neonsec::BoundedQueue<T> (include/neonsec/bounded_queue.hpp): a FIFO    *)
(* buffer of at most Cap items shared by threads, with one mutex and one   *)
(* condition variable.                                                     *)
(*                                                                         *)
(* Every member function holds mu_ from its first statement to its return  *)
(* or to the wait inside it, and nothing outside touches the members, so a *)
(* stretch of code between two lock acquisitions is one atomic action.  A  *)
(* thread blocked in cv_.wait is in the wait set `waiting`; when it leaves *)
(* that set it takes the mutex again and re-evaluates its predicate.       *)
(*                                                                         *)
(* The module has the operations of the class as actions over its members. *)
(* The threads that call them are in the modules that extend this one.     *)
(***************************************************************************)
EXTENDS Naturals, Sequences

CONSTANT Cap        \* the constructor's argument; 10000 in src/main.cpp

ASSUME CapAssumption == Cap \in Nat

VARIABLES
  q_,               \* the buffered items, oldest first
  closed_,          \* set by close(), never reset
  waiting           \* the threads blocked in cv_.wait

queueVars == <<q_, closed_, waiting>>

QueueInit ==
  /\ q_ = <<>>
  /\ closed_ = FALSE
  /\ waiting = {}

-----------------------------------------------------------------------------
(* The predicates given to cv_.wait by push and by pop. *)
PushReady == closed_ \/ Len(q_) < Cap
PopReady  == closed_ \/ q_ # <<>>

(* Mutant: notify_one; it releases some blocked thread, whichever role it has. *)
NotifyOne ==
  IF waiting = {} THEN waiting' = {}
                  ELSE \E t \in waiting : waiting' = waiting \ {t}

(* cv_.notify_all: every blocked thread becomes runnable. *)
NotifyAll == waiting' = {}

(* The false branch of cv_.wait: release the mutex and block. *)
Block(t) ==
  /\ waiting' = waiting \cup {t}
  /\ UNCHANGED <<q_, closed_>>

(* The standard lets cv_.wait return with no notification. *)
SpuriousWake(t) ==
  /\ t \in waiting
  /\ waiting' = waiting \ {t}
  /\ UNCHANGED <<q_, closed_>>

-----------------------------------------------------------------------------
(* push(v): blocks, stores v and returns true, or returns false. *)
PushBlock(t) ==
  /\ ~PushReady
  /\ Block(t)

(* Mutants of the store: it overtakes; it ignores `if (closed_) return false`; *)
(* it buffers a v that was already moved from.                               *)
PushStoreFront(v) ==
  /\ PushReady
  /\ ~closed_
  /\ q_' = <<v>> \o q_
  /\ NotifyAll
  /\ UNCHANGED closed_

PushStoreClosed(v) ==
  /\ PushReady
  /\ q_' = Append(q_, v)
  /\ NotifyAll
  /\ UNCHANGED closed_

PushStoreMoved(v) ==
  /\ PushReady
  /\ ~closed_
  /\ q_' = Append(q_, <<>>)
  /\ NotifyAll
  /\ UNCHANGED closed_

PushStore(v) ==
  /\ PushReady
  /\ ~closed_
  /\ q_' = Append(q_, v)
  /\ NotifyAll
  /\ UNCHANGED closed_

PushRefuse ==
  /\ PushReady
  /\ closed_
  /\ UNCHANGED queueVars

-----------------------------------------------------------------------------
(* pop(): blocks, takes the front item, or returns nullopt when the queue is *)
(* empty after the wait.                                                     *)
PopBlock(t) ==
  /\ ~PopReady
  /\ Block(t)

(* Mutant: the item is copied out but q_.pop() is forgotten. *)
PopKeep ==
  /\ PopReady
  /\ q_ # <<>>
  /\ NotifyAll
  /\ UNCHANGED <<q_, closed_>>

PopTake ==
  /\ PopReady
  /\ q_ # <<>>
  /\ q_' = Tail(q_)
  /\ NotifyAll
  /\ UNCHANGED closed_

(* Mutant: nullopt as soon as the queue is closed. *)
PopNoneClosed ==
  /\ closed_
  /\ UNCHANGED queueVars

PopNone ==
  /\ PopReady
  /\ q_ = <<>>
  /\ UNCHANGED queueVars

-----------------------------------------------------------------------------
(* Mutant: close() without its notification. *)
CloseSilently ==
  /\ closed_' = TRUE
  /\ UNCHANGED <<q_, waiting>>

(* close(): lets every later pop drain the buffer, every later push fail. *)
Close ==
  /\ closed_' = TRUE
  /\ NotifyAll
  /\ UNCHANGED q_
=============================================================================
