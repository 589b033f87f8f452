---------------------------- MODULE SlidingWindow ---------------------------
(***************************************************************************)
(* neonsec::SlidingWindow (include/neonsec/window.hpp): the records of the *)
(* last Span seconds and an index of them, kept by incrementing on add()   *)
(* and decrementing on prune() so that a query need not rescan the deque.  *)
(*                                                                         *)
(* The five unordered_maps of the index are one bag, whose elements are a  *)
(* map's name followed by the key in that map.  A bag has no zero entry,   *)
(* like the maps, which erase a key when its count drops to 0 and ignore a *)
(* decrement of an absent key: that is bag difference.                     *)
(*                                                                         *)
(* The class has no mutex.  Its operations are cut into actions where a    *)
(* second thread can observe the difference: the push_back, every round of *)
(* the pruning loop, and the increments.                                   *)
(***************************************************************************)
EXTENDS Integers, Sequences, FiniteSets, Bags

CONSTANT Span       \* the constructor's argument, --window, in seconds

ASSUME SpanAssumption == Span \in Int

VARIABLES
  q_,               \* the deque of records, front first
  index             \* the five maps

windowVars == <<q_, index>>

WindowInit ==
  /\ q_ = <<>>
  /\ index = EmptyBag

(* The map entries one record contributes to.  r.fail stands for            *)
(* action=="login" && (status is "failed", "fail" or "error").              *)
TrafficKeys(r) ==
  {<<"counts_dst_", r.src_ip, r.dst_ip, r.dst_port>>,
   <<"uniq_dst_", r.src_ip, r.dst_ip>>,
   <<"per_dst_total_", r.dst_ip>>,
   <<"per_src_total_", r.src_ip>>}
AuthKeys(r) == IF r.fail THEN {<<"auth_failures_", r.username>>} ELSE {}
Keys(r) == TrafficKeys(r) \cup AuthKeys(r)

-----------------------------------------------------------------------------
(* add(r), up to the call of prune. *)
PushBack(r) ==
  /\ q_' = Append(q_, r)
  /\ UNCHANGED index

(* Mutant: the comparison is off by one second. *)
FrontStaleEarly(now) == q_ # <<>> /\ Head(q_).ts <= now - Span

(* The condition of the loop in prune(now). *)
FrontStale(now) == q_ # <<>> /\ Head(q_).ts < now - Span

(* Mutants of a round: the failed login of the record stays counted; a key  *)
(* that reaches 0 keeps its entry.                                          *)
PruneKeepAuth ==
  /\ index' = index (-) SetToBag(TrafficKeys(Head(q_)))
  /\ q_' = Tail(q_)

PruneKeepZero ==
  /\ index' = [k \in DOMAIN index |->
                 IF k \in Keys(Head(q_)) THEN index[k] - 1 ELSE index[k]]
  /\ q_' = Tail(q_)

(* One round of that loop: the front record leaves the maps and the deque. *)
PruneFront ==
  /\ index' = index (-) SetToBag(Keys(Head(q_)))
  /\ q_' = Tail(q_)

(* add(r), after the call of prune. *)
Count(r) ==
  /\ index' = index (+) SetToBag(Keys(r))
  /\ UNCHANGED q_

-----------------------------------------------------------------------------
(* The lookup of the queries: find(), and 0 at end(). *)
Entry(k) == IF BagIn(k, index) THEN index[k] ELSE 0

port_attempts(src, dst, port) == Entry(<<"counts_dst_", src, dst, port>>)

uniq_attackers(dst) ==
  Cardinality({k \in BagToSet(index) : k[1] = "uniq_dst_" /\ k[3] = dst})

auth_failures(user) == Entry(<<"auth_failures_", user>>)
=============================================================================
