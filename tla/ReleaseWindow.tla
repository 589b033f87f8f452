--------------------------- MODULE ReleaseWindow ----------------------------
(***************************************************************************)
(* SlidingWindow and the detectors of every release, one call at a time    *)
(* (module SlidingWindow has those of 5.0.0 as several threads see them).  *)
(*                                                                         *)
(* A window is its deque and its maps; the maps are one function, from a   *)
(* map's name and a key to the count.  Up to 4.0.0 a count that falls to 0 *)
(* keeps its entry; 5.0.0 erases it.                                       *)
(***************************************************************************)
EXTENDS Integers, Sequences, FiniteSets, SequencesExt, StrictFold

Empty == [q |-> <<>>, index |-> <<>>]

CountsKey(r) == <<"counts_dst_", r.src_ip, r.dst_ip, r.dst_port>>
UniqKey(r)   == <<"uniq_dst_", r.dst_ip, r.src_ip>>
TotalKeys(r) == {<<"per_dst_total_", r.dst_ip>>, <<"per_src_total_", r.src_ip>>}
AuthKey(r)   == <<"auth_failures_", r.username>>
AnyKeys(r)   == {CountsKey(r), UniqKey(r)} \cup TotalKeys(r)

(* The logins that count as failed, where there is a map for them. *)
ApexFailed(r)    == r.status \in {"failed", "deny"}
CurrentFailed(r) == r.action = "login" /\ r.status \in {"failed", "fail", "error"}

(* The map entries of a record. *)
FinalKeys(r)   == AnyKeys(r)
MaxKeys(r)     == AnyKeys(r)
UltraKeys(r)   == AnyKeys(r)
ApexKeys(r)    == AnyKeys(r) \cup (IF ApexFailed(r) THEN {AuthKey(r)} ELSE {})
CurrentKeys(r) == AnyKeys(r) \cup (IF CurrentFailed(r) THEN {AuthKey(r)} ELSE {})
Keys(rel, r) ==
  CASE rel = "final" -> FinalKeys(r) [] rel = "max" -> MaxKeys(r)
    [] rel = "ultra" -> UltraKeys(r) [] rel = "apex" -> ApexKeys(r)
    [] rel = "current" -> CurrentKeys(r)

Count(win, k) == IF k \in DOMAIN win.index THEN win.index[k] ELSE 0

-----------------------------------------------------------------------------
(* One round of prune: every count of the front record that is positive     *)
(* falls by one.                                                            *)
Decremented(win, ks) ==
  [k \in DOMAIN win.index |->
     IF k \in ks /\ win.index[k] > 0 THEN win.index[k] - 1 ELSE win.index[k]]

(* Mutant: 4.0.0 with the slip of 3.0.0. *)
ApexPruneSlip(win) ==
  LET r == Head(win.q)
      ks == IF Count(win, CountsKey(r)) > 1 THEN ApexKeys(r) ELSE ApexKeys(r) \ {UniqKey(r)}
  IN  [q |-> Tail(win.q), index |-> Decremented(win, ks)]

ApexPrune(win) ==
  [q |-> Tail(win.q), index |-> Decremented(win, ApexKeys(Head(win.q)))]
FinalPrune(win) ==
  [q |-> Tail(win.q), index |-> Decremented(win, FinalKeys(Head(win.q)))]
MaxPrune(win) == FinalPrune(win)

(* 3.0.0 tests `it`, the iterator of the count just decremented, where it   *)
(* means `it2`: an attacker's last record leaves the attacker counted.      *)
UltraPrune(win) ==
  LET r == Head(win.q)
      ks == IF Count(win, CountsKey(r)) > 1 THEN UltraKeys(r) ELSE UltraKeys(r) \ {UniqKey(r)}
  IN  [q |-> Tail(win.q), index |-> Decremented(win, ks)]

(* 5.0.0 erases what falls to 0. *)
CurrentPrune(win) ==
  LET left == Decremented(win, CurrentKeys(Head(win.q)))
  IN  [q |-> Tail(win.q),
       index |-> [k \in {i \in DOMAIN left : left[i] > 0} |-> left[k]]]

Prune(rel, win) ==
  CASE rel = "final" -> FinalPrune(win) [] rel = "max" -> MaxPrune(win)
    [] rel = "ultra" -> UltraPrune(win) [] rel = "apex" -> ApexPrune(win)
    [] rel = "current" -> CurrentPrune(win)

(* add(r): push_back, prune while the front is older than the span, count.  *)
Counted(win, ks) ==
  [win EXCEPT !.index = [k \in DOMAIN @ \cup ks |->
                           Count(win, k) + IF k \in ks THEN 1 ELSE 0]]
Add(rel, win, r, span) ==
  LET q == Append(win.q, r)
      round(w, n) == IF n > Len(q) THEN Counted(w, Keys(rel, r))
                     ELSE IF r.ts - Head(w.q).ts > span THEN Prune(rel, w) ELSE w
  IN  FoldStrictly(round, [win EXCEPT !.q = q], [n \in 1 .. Len(q) + 1 |-> n])

-----------------------------------------------------------------------------
(* The queries.  port_attempts adds up the ports of a pair, until 5.0.0     *)
(* asks for one of them; uniq_attackers counts the positive entries.        *)
Ports(win, r) == {k \in DOMAIN win.index :
                    k[1] = "counts_dst_" /\ k[2] = r.src_ip /\ k[3] = r.dst_ip}
Attackers(win, r) == {k \in DOMAIN win.index :
                        k[1] = "uniq_dst_" /\ k[2] = r.dst_ip /\ win.index[k] > 0}

SumOver(win, S) == Cardinality(UNION {{k} \X (1 .. win.index[k]) : k \in S})
port_attempts(rel, win, r) ==
  IF rel = "current" THEN Count(win, CountsKey(r)) ELSE SumOver(win, Ports(win, r))
uniq_attackers(win, r) == Cardinality(Attackers(win, r))
auth_failures(win, r)  == Count(win, AuthKey(r))

(* The detectors a record goes through, with their thresholds: the types of *)
(* its findings in order.                                                   *)

(* Mutant: the comparisons are strict. *)
FinalDetectStrict(win, r, th) ==
  (IF SumOver(win, Ports(win, r)) > th.portscan_attempts THEN <<"portscan">> ELSE <<>>)
  \o (IF uniq_attackers(win, r) > th.ddos_unique THEN <<"ddos">> ELSE <<>>)

FinalDetect(win, r, th) ==
  (IF SumOver(win, Ports(win, r)) >= th.portscan_attempts THEN <<"portscan">> ELSE <<>>)
  \o (IF uniq_attackers(win, r) >= th.ddos_unique THEN <<"ddos">> ELSE <<>>)
MaxDetect(win, r, th)   == FinalDetect(win, r, th)
UltraDetect(win, r, th) == FinalDetect(win, r, th)
Bruteforce(win, r, th) ==
  IF r.username # "" /\ auth_failures(win, r) >= th.bruteforce_failures
  THEN <<"bruteforce">> ELSE <<>>
ApexDetect(win, r, th) == FinalDetect(win, r, th) \o Bruteforce(win, r, th)
CurrentDetect(win, r, th) ==
  (IF Count(win, CountsKey(r)) >= th.portscan_attempts THEN <<"portscan">> ELSE <<>>)
  \o (IF uniq_attackers(win, r) >= th.ddos_unique THEN <<"ddos">> ELSE <<>>)
  \o Bruteforce(win, r, th)
Detect(rel, win, r, th) ==
  CASE rel = "final" -> FinalDetect(win, r, th) [] rel = "max" -> MaxDetect(win, r, th)
    [] rel = "ultra" -> UltraDetect(win, r, th) [] rel = "apex" -> ApexDetect(win, r, th)
    [] rel = "current" -> CurrentDetect(win, r, th)
=============================================================================
