---------------------------- MODULE MCDetection -----------------------------
(* Instances of Detection for TLC.  Users are "ann" and the empty name ""; *)
(* the network and the login traffic are varied apart from each other,     *)
(* since they share no map entry but the per-host totals.                  *)
EXTENDS Detection, TLC

CONSTANTS src1, src2, dst1, dst2

Kind(src, dst, port, fail, user) ==
  [src_ip |-> src, dst_ip |-> dst, dst_port |-> port, fail |-> fail, username |-> user]

MCTraffic ==
  {Kind(src, dst1, port, FALSE, "") : src \in {src1, src2}, port \in {80, 443}}
  \cup {Kind(src1, dst1, 80, fail, user) : fail \in BOOLEAN, user \in {"ann", ""}}
  \cup {Kind(src1, dst2, 80, FALSE, "")}
=============================================================================
