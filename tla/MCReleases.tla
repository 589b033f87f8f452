----------------------------- MODULE MCReleases -----------------------------
(* Instances of Releases for TLC: command lines over a fixed input, files   *)
(* under a fixed command line, and lines one at a time.  An int has 4 bits, *)
(* a long long 6.                                                           *)
EXTENDS Releases

MCValue == ("0" :> 0) @@ ("1" :> 1) @@ ("2" :> 2) @@ ("-1" :> -1) @@ ("big" :> 9)
MCIntRange == -8..7
MCPortPart == ("h:2" :> "2") @@ (":x" :> "x")
MCFailOnPart == ("ddos=0" :> <<"ddos", "0">>) @@ ("ddos=2" :> <<"ddos", "2">>)
                @@ ("policy=1" :> <<"policy", "1">>) @@ ("policy=2" :> <<"policy", "2">>)
                @@ ("ddos=x" :> <<"ddos", "x">>)
MCWords == {"", "ts"}

File(lines) == [exists |-> TRUE, lines |-> lines]
NoFile == [exists |-> FALSE, lines |-> <<>>]

CsvRecord(ts, src, port, status) ==
  <<Num(ts), Str(src), Str("d"), Num(1), Num(port), Str("login"), Str(status), Num(0), Str("u")>>
Sample == <<<<Str("ts")>>, CsvRecord(0, "a", 5, "ok"), <<Str("x"), Str("y")>>,
            CsvRecord(1, "b", 5, "failed")>>
NoRules == File(<<>>)
Env(rules, input, logs) ==
  [rules |-> rules, input |-> input, logs |-> logs, net |-> "polled",
   plugin |-> ("p" :> "policy") @@ ("q" :> "refuses")]

(* The options that make a run of its release. *)
Base(r, fmt) == <<"analyze", "--input", "f">>
                  \o IF r = "final" THEN <<>> ELSE <<"--format", fmt>>

Arguments == {"--input", "--format", "--window", "--rules", "--metrics", "--tls-key", "--threads",
              "--plugin", "--outfmt", "--out-file", "--summary", "--fail-on", "--iterations", "-h",
              "--bogus", "json", "2", "0", "big", "h:2", ":x", "ddos=0", "p", "-"}
Words2 == {<<>>} \cup {<<t>> : t \in Arguments} \cup (Arguments \X Arguments)
Pairs == ({"--window", "--metrics", "--threads"} \X {"-1", "big", "h:2"})
         \cup ({"--plugin"} \X {"p", "q", "x"})
         \cup ({"--fail-on"} \X {"p", "ddos=0", "ddos=2", "ddos=x", "policy=1", "policy=2"})

CommandLines(r) ==
  {Base(r, "csv") \o w : w \in Words2 \cup {p \o q : p \in Pairs, q \in Pairs}}
  \cup {<<c>> \o w : c \in {"bench", "version", "selfcheck", "-h"}, w \in {<<>>, <<"-h">>}}
  \cup {<<"bench", "--input", "f", "--format", f>> \o w :
          f \in {"csv", "ndjson", "xml"},
          w \in {<<>>, <<"--bogus">>, <<"--iterations", "0">>, <<"--iterations">>}}
  \cup {<<>>}

CommandJobs ==
  {[rel |-> r, argv |-> a, env |-> Env(NoRules, File(Sample), "ok")] :
     r \in Releases, a \in CommandLines("final")}
  \cup {[rel |-> r, argv |-> a, env |-> Env(NoRules, File(Sample), "ok")] :
          r \in Releases \ {"final"}, a \in CommandLines("max")}

(* What is there, and what is not. *)
AbsentJobs ==
  {[rel |-> r, argv |-> a, env |-> Env(rules, input, logs)] :
     r \in Releases,
     a \in UNION {{Base(x, "csv") \o w : w \in {<<>>, <<"--rules", "r">>, <<"--plugin", "p">>,
                     <<"--plugin", "q", "--plugin", "p", "--plugin", "p">>,
                     <<"--fail-on", "policy=1">>}} : x \in Releases}
           \cup {<<"selfcheck">>},
     rules \in {NoRules, NoFile}, input \in {File(Sample), File(<<>>), NoFile},
     logs \in {"ok", "nodir", "nofile"}}

(* The metrics port: what clients do, or that it is taken. *)
ServerJobs ==
  {[rel |-> r, argv |-> Base(r, "csv") \o <<"--metrics", "h:2">> \o w,
    env |-> [Env(NoRules, input, logs) EXCEPT !.net = net]] :
     r \in Releases, net \in Nets, logs \in {"ok", "nodir"},
     input \in {File(Sample), NoFile},
     w \in {<<>>, <<"--plugin", "p">>, <<"--threads", "0">>, <<"--fail-on", "ddos=0">>,
            <<"--fail-on", "ddos=2">>, <<"--plugin", "p", "--fail-on", "policy=1">>}}

Value_(v) == IF v = "u" THEN Str("u") ELSE Num(v)
Object(fields) ==
  FlattenSeq([i \in DOMAIN fields |->
    (IF i = 1 THEN <<>> ELSE <<Comma>>) \o <<Str(fields[i][1]), Colon, fields[i][2]>>])

(* Rules files: one or two keys; then texts that are no such object. *)
Keys4 == DOMAIN CurrentThresholds \cup {"window"}
RuleValues == {Num(v) : v \in {-1, 0, 1, 2, 9, 33}}
RuleFiles ==
  {Object(<<<<k, v>>>>) : k \in Keys4, v \in RuleValues}
  \cup {Object(<<<<k, v>>, <<l, w>>>>) : k \in Keys4, l \in {"ddos_unique", "portscan_attempts"},
                                         v \in RuleValues, w \in {Num(2), Num(9)}}
  \cup {<<Str("ddos_unique")>>, <<Str("ddos_unique"), Comma, Str("ddos_events"), Colon, Num(1)>>,
        <<Str("ddos_unique"), Colon, Str("1")>>, <<Str("ddos_unique"), Colon, Tab, Num(1)>>,
        <<Str("x"), Colon, Str("ddos_unique"), Comma, Str("y"), Colon, Num(1)>>}
RuleLogs == {<<CsvRecord(0, "a", 1, "ok"), CsvRecord(0, "b", 1, "failed"),
               CsvRecord(1, "a", 1, "failed"), CsvRecord(2, "a", 2, "ok")>>}
RuleJobs ==
  {[rel |-> r, argv |-> Base(r, "csv") \o <<"--rules", "r", "--window", w>>,
    env |-> Env(File(f), File(l), "ok")] :
     r \in Releases, w \in {"1", "0"}, f \in RuleFiles, l \in RuleLogs}

(* Logs in time order, judged with low thresholds. *)
Kinds == {"a", "b"} \X {1, 2}
LogJobs ==
  {[rel |-> r, argv |-> Base(r, "csv") \o <<"--rules", "r", "--window", "1">>,
    env |-> Env(File(Object(<<<<"ddos_unique", Num(2)>>, <<"portscan_attempts", Num(2)>>>>)),
                File([i \in 1..3 |-> CsvRecord(t[i], k[i][1], k[i][2], "failed")]), "ok")] :
     r \in Releases, k \in [1..3 -> Kinds],
     t \in {u \in [1..3 -> 0..3] : u[1] = 0 /\ u[1] <= u[2] /\ u[2] <= u[3]}}

(* One NDJSON line: an object with at most two things amiss. *)
Fields == <<<<"ts", Num(1)>>, <<"src_ip", Str("a")>>, <<"dst_ip", Str("d")>>,
            <<"src_port", Num(1)>>, <<"dst_port", Num(2)>>, <<"action", Str("login")>>,
            <<"status", Str("failed")>>, <<"bytes", Num(3)>>, <<"username", Str("u")>>>>
Changed(f) ==
  {[f EXCEPT ![i] = <<@[1], v>>] : i \in DOMAIN f,
      v \in {Num(0), Num(9), Num(40), Str("x"), Str("ts"), Str("src_ip"), Tab}}
Dropped1(f) == {RemoveAt(f, i) : i \in DOMAIN f}
Moved(f) == {Append(RemoveAt(f, i), f[i]) : i \in DOMAIN f}
Objects == {Fields} \cup Changed(Fields) \cup Dropped1(Fields)
           \cup UNION {Moved(f) : f \in Dropped1(Fields)}
           \cup UNION {Moved(f) : f \in Changed(Fields)}
NdjsonJobs ==
  {[rel |-> r, argv |-> Base(r, "ndjson"),
    env |-> Env(NoRules, File(<<Object(f)>>), "ok")] :
     r \in Releases \ {"final"}, f \in Objects}
  \cup {[rel |-> r, argv |-> <<"bench", "--input", "f", "--format", "ndjson">>,
         env |-> Env(NoRules, File(<<Object(Fields)>>), "ok")] : r \in {"apex", "current"}}

(* One CSV line: a record with a field changed, its end cut or extended. *)
Ends(l) == {l, Front(l), Append(l, Str("")), Append(l, Str("x"))}
CsvLines ==
  UNION {Ends([CsvRecord(1, "a", 2, "ok") EXCEPT ![i] = v]) :
           i \in {1, 4, 5, 8}, v \in {Num(0), Num(9), Num(40), Str("x"), Str("")}}
  \cup UNION {Ends([CsvRecord(1, "a", 2, "ok") EXCEPT ![i] = Str("")]) : i \in {2, 9}}
  \cup {<<Str("")>>, <<Str(""), Str("")>>}
CsvJobs ==
  {[rel |-> r, argv |-> Base(r, "csv"),
    env |-> Env(NoRules, File(<<CsvRecord(0, "a", 1, "ok"), l>>), "ok")] :
     r \in Releases, l \in CsvLines}

MCJobs == CommandJobs \cup AbsentJobs \cup ServerJobs \cup RuleJobs \cup LogJobs \cup NdjsonJobs \cup CsvJobs
=============================================================================
