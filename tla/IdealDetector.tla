--------------------------- MODULE IdealDetector ----------------------------
(***************************************************************************)
(* What the sliding window and the three detectors promise, with no window, *)
(* index or pruning: as long as the log is in time order, each record is    *)
(* judged by recounting the records no more than Span seconds older than    *)
(* itself.  Once a record has come late, nothing is promised.               *)
(***************************************************************************)
EXTENDS Integers, Sequences, FiniteSets

CONSTANTS
  Records, Span,
  PortscanAttempts, DdosUnique, BruteforceFailures,
  NoUser            \* the empty username

VARIABLES
  seen,             \* the records judged so far, in order
  out               \* the findings about the last of them

idealVars == <<seen, out>>

(* The records of log s that are in the window of its last record, r. *)
Window(s, r) == {i \in DOMAIN s : s[i].ts >= r.ts - Span}

Attempts(s, r) ==
  Cardinality({i \in Window(s, r) : /\ s[i].src_ip = r.src_ip
                                    /\ s[i].dst_ip = r.dst_ip
                                    /\ s[i].dst_port = r.dst_port})

Attackers(s, r) ==
  Cardinality({s[i].src_ip : i \in {j \in Window(s, r) : s[j].dst_ip = r.dst_ip}})

Failures(s, r) ==
  Cardinality({i \in Window(s, r) : s[i].fail /\ s[i].username = r.username})

Findings(s, r) ==
  {f \in [type : {"portscan", "ddos", "bruteforce"}, count : 0..Len(s)] :
     \/ f.type = "portscan" /\ f.count = Attempts(s, r)
                            /\ f.count >= PortscanAttempts
     \/ f.type = "ddos" /\ f.count = Attackers(s, r)
                        /\ f.count >= DdosUnique
     \/ f.type = "bruteforce" /\ f.count = Failures(s, r)
                              /\ f.count >= BruteforceFailures
                              /\ r.username # NoUser}

Init ==
  /\ seen = <<>>
  /\ out = {}

InOrder(s) == \A i, j \in DOMAIN s : i <= j => s[i].ts <= s[j].ts

Judge(r) ==
  /\ seen' = Append(seen, r)
  /\ InOrder(seen') => out' = Findings(seen', r)

Next == \E r \in Records : Judge(r)

Spec == Init /\ [][Next]_idealVars
=============================================================================
