----------------------------- MODULE Detection ------------------------------
(***************************************************************************)
(* The workers of src/main.cpp around the shared SlidingWindow: each takes *)
(* a parsed record, calls win.add and then the three detectors             *)
(* (include/neonsec/detectors.hpp), whose findings it appends to `out`.    *)
(*                                                                         *)
(* Nothing orders the workers but the absence of a second one: `win` is    *)
(* captured by reference by every worker and no mutex is taken.  A single  *)
(* worker is `--threads 1`, `selfcheck`, and the detector tests.           *)
(***************************************************************************)
EXTENDS SlidingWindow

CONSTANTS
  Workers,
  Traffic,          \* the records of the instance, without their timestamps
  NoUser,           \* the empty username, which detect_bruteforce skips
  PortscanAttempts, DdosUnique, BruteforceFailures,
  Skew,             \* how far behind the newest record one may arrive
  MaxTime,          \* bound: the largest timestamp
  MaxRecords        \* bound: the length of the log

ASSUME DetectionAssumption ==
  /\ Skew \in Nat
  /\ MaxTime \in Nat
  /\ MaxRecords \in Nat

VARIABLES
  pc,               \* where each worker is: "idle", "prune", "detect"
  cur,              \* the record each worker is busy with
  out,              \* the findings about the record judged last
  clock,            \* history: the newest timestamp that has arrived
  seen              \* history: the records judged, in order

vars == <<windowVars, pc, cur, out, clock, seen>>

(* What the parsers make of a line with content k and timestamp t. *)
At(k, t) ==
  [ts |-> t, src_ip |-> k.src_ip, dst_ip |-> k.dst_ip,
   dst_port |-> k.dst_port, fail |-> k.fail, username |-> k.username]

Records == {At(k, t) : k \in Traffic, t \in 0..MaxTime}
Nothing == [ts |-> -1]

Idle == \A w \in Workers : pc[w] = "idle"
Arrived == Len(seen) + Cardinality({w \in Workers : pc[w] # "idle"})

Init ==
  /\ WindowInit
  /\ pc = [w \in Workers |-> "idle"]
  /\ cur = [w \in Workers |-> Nothing]
  /\ out = {}
  /\ clock = 0
  /\ seen = <<>>

Add(w) ==
  \E r \in Records :
    /\ pc[w] = "idle"
    /\ Arrived < MaxRecords
    /\ r.ts >= clock - Skew
    /\ PushBack(r)
    /\ cur' = [cur EXCEPT ![w] = r]
    /\ clock' = IF r.ts > clock THEN r.ts ELSE clock
    /\ pc' = [pc EXCEPT ![w] = "prune"]
    /\ UNCHANGED <<out, seen>>

(* Mutant: `if` where prune has `while`. *)
PruneOnce(w) ==
  /\ pc[w] = "prune"
  /\ FrontStale(cur[w].ts)
  /\ q_' = Tail(q_)
  /\ index' = (index (-) SetToBag(Keys(Head(q_)))) (+) SetToBag(Keys(cur[w]))
  /\ pc' = [pc EXCEPT ![w] = "detect"]
  /\ UNCHANGED <<cur, out, clock, seen>>

Prune(w) ==
  /\ pc[w] = "prune"
  /\ FrontStale(cur[w].ts)
  /\ PruneFront
  /\ UNCHANGED <<pc, cur, out, clock, seen>>

Increment(w) ==
  /\ pc[w] = "prune"
  /\ ~FrontStale(cur[w].ts)
  /\ Count(cur[w])
  /\ pc' = [pc EXCEPT ![w] = "detect"]
  /\ UNCHANGED <<cur, out, clock, seen>>

-----------------------------------------------------------------------------
(* A Finding, without its timestamp and its key, which are the record's. *)
Report(type, n) == [type |-> type, count |-> n]

detect_portscan(r) ==
  LET attempts == port_attempts(r.src_ip, r.dst_ip, r.dst_port)
  IN  {f \in {Report("portscan", attempts)} : attempts >= PortscanAttempts}

(* Mutant: the comparison is strict. *)
detect_ddos_strict(r) ==
  LET uniq == uniq_attackers(r.dst_ip)
  IN  {f \in {Report("ddos", uniq)} : uniq > DdosUnique}

detect_ddos(r) ==
  LET uniq == uniq_attackers(r.dst_ip)
  IN  {f \in {Report("ddos", uniq)} : uniq >= DdosUnique}

detect_bruteforce(r) ==
  LET fails == auth_failures(r.username)
  IN  {f \in {Report("bruteforce", fails)} :
         r.username # NoUser /\ fails >= BruteforceFailures}

Detect(w) ==
  /\ pc[w] = "detect"
  /\ out' = detect_portscan(cur[w]) \cup detect_ddos(cur[w])
                                    \cup detect_bruteforce(cur[w])
  /\ seen' = Append(seen, cur[w])
  /\ cur' = [cur EXCEPT ![w] = Nothing]
  /\ pc' = [pc EXCEPT ![w] = "idle"]
  /\ UNCHANGED <<windowVars, clock>>

Next == \E w \in Workers : Add(w) \/ Prune(w) \/ Increment(w) \/ Detect(w)

Spec == Init /\ [][Next]_vars

-----------------------------------------------------------------------------
(* Type invariant.  The index is a bag: no entry stays at 0, which would    *)
(* count as an attacker in uniq_attackers.                                  *)
TypeOK ==
  /\ q_ \in Seq(Records)
  /\ IsABag(index)
  /\ pc \in [Workers -> {"idle", "prune", "detect"}]
  /\ cur \in [Workers -> Records \cup {Nothing}]
  /\ \A w \in Workers : pc[w] # "idle" => cur[w] \in Records
  /\ clock \in 0..MaxTime
  /\ seen \in Seq(Records)

(* How many records of s contribute to the map entry k. *)
Occurrences(k, s) == Cardinality({i \in DOMAIN s : k \in Keys(s[i])})

(* The maps hold what a recount of the deque would give, whatever has been  *)
(* pruned: no count outlives its record and none is dropped early.          *)
IndexExact ==
  Idle => /\ \A k \in DOMAIN index : index[k] = Occurrences(k, q_)
          /\ \A i \in DOMAIN q_ : Keys(q_[i]) \subseteq DOMAIN index

(* prune() looks at the front only, so a record that arrives out of order   *)
(* hides the older ones behind it; but it never outstays its Span by more   *)
(* than the log's disorder.                                                 *)
StaleBounded ==
  Idle => \A i \in DOMAIN q_ : q_[i].ts >= seen[Len(seen)].ts - Span - Skew

(* A late record does not push a fresh one out: what has left the deque is  *)
(* older than the newest timestamp by more than Span.                       *)
FreshKept ==
  Idle => \A i \in 1 .. Len(seen) - Len(q_) : seen[i].ts < clock - Span

(* As long as the log is in time order, one worker reports for every record *)
(* exactly what a recount of the whole log would.                           *)
Ideal == INSTANCE IdealDetector
ImplementsIdeal == Ideal!Spec

-----------------------------------------------------------------------------
(* What a test says detect_portscan sees, of the last record.               *)
InWindow(r) == {i \in DOMAIN seen : seen[i].ts >= r.ts - Span}
Reported(type) == \E f \in out : f.type = type

(* tests/test_detectors.cpp: attempts from one source on different ports of *)
(* one destination are a port scan.                                         *)
ScanAcrossPorts ==
  Idle /\ seen # <<>> =>
    LET r == seen[Len(seen)]
        ports == {seen[i].dst_port : i \in {j \in InWindow(r) :
                    seen[j].src_ip = r.src_ip /\ seen[j].dst_ip = r.dst_ip}}
    IN  Cardinality(ports) >= PortscanAttempts => Reported("portscan")
=============================================================================
