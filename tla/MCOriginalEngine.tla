-------------------------- MODULE MCOriginalEngine --------------------------
(* Five kinds of records at three times; thresholds of 2, a span of 1.      *)
EXTENDS OriginalEngine, TLC

Kind(src, port, action, status, bytes) ==
  [src_ip |-> src, dst_ip |-> "d", dst_port |-> port, action |-> action,
   status |-> status, bytes |-> bytes, username |-> "u", protocol |-> "tcp"]
MCKinds ==
  {Kind("a", 1, "connect", "ok", 1), Kind("a", 2, "connect", "ok", 2),
   Kind("a", 1, "auth", "fail", 1), Kind("a", 1, "auth", "ok", 1),
   Kind("b", 1, "connect", "ok", 1)}
MCRecords == {("ts" :> t) @@ k : t \in 0..2, k \in MCKinds}

MCcfg ==
  [span_sec |-> 1, max_records_per_key |-> 3, portscan_unique_ports |-> 2,
   bruteforce_failures |-> 2, ddos_events |-> 3, ddos_unique_sources |-> 2]

Condition(f, o, v) == [field |-> f, op |-> o, value |-> v]
Connects == {Condition("action", "eq", "connect")}
AtLeast(v) == [op |-> ">=", value |-> v]
Scan(sec) == [name |-> "scan", when |-> Connects, group_by |-> "src_ip",
              within_sec |-> sec, count |-> AtLeast(2), emit |-> "scan"]
MCRuleFiles ==
  {<<>>,
   <<Scan(1),
     [name |-> "bulk", when |-> Connects \cup {Condition("dst_port", "<", 2)},
      group_by |-> "dst_ip", within_sec |-> 1, sum_bytes |-> AtLeast(3), emit |-> "bulk"],
     [name |-> "any", when |-> {Condition("status", "ne", "ok")}, within_sec |-> 1,
      count |-> [op |-> ">", value |-> 1], emit |-> "any"]>>,
   <<[name |-> "twin", when |-> Connects, group_by |-> "src_ip", within_sec |-> 1,
      count |-> AtLeast(2), emit |-> "one"],
     [name |-> "twin", when |-> Connects, group_by |-> "src_ip", within_sec |-> 1,
      count |-> AtLeast(3), emit |-> "two"]>>}

(* A rule with a window of its own. *)
LongRuleFiles == {<<Scan(9)>>}

CONSTANTS s1, s2
MCSlots == {s1, s2}
Symmetry == Permutations(MCSlots)

MCMaxFed == [main |-> 4, api |-> 3]
=============================================================================
