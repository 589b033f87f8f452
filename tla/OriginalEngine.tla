--------------------------- MODULE OriginalEngine ---------------------------
(***************************************************************************)
(* The detection engine of the original project (1.3.0), from which the    *)
(* later releases were rewritten: windows that keep the records of every   *)
(* key, the four detectors, the rules engine, and the C interface          *)
(* (c_api.h) through which another program owns several engines.           *)
(*                                                                         *)
(* A finding is its type and its key.  bytes are small integers; the mean  *)
(* of Welford's recurrence is an exact fraction instead of a double, and   *)
(* of the variance only whether it is positive is kept.                    *)
(***************************************************************************)
EXTENDS Integers, Sequences, FiniteSets, SequencesExt, StrictFold

CONSTANTS
  Records,          \* the records that are fed
  RuleFiles,        \* rules files: sequences of JSON objects
  cfg,              \* struct WindowConfig and struct DetectorConfig, in one
  Slots,            \* the engines a user of the C interface holds
  MaxOut,           \* the findings the user has room for
  History,          \* the records a source needs before its z-score, 5
  MaxFed            \* bound: records fed, by program

(* A JSON configuration is read without a check of its numbers; a program   *)
(* that has no room for findings gets none and feeds nothing.               *)
ASSUME EngineAssumption ==
  /\ cfg.span_sec \in Int /\ cfg.max_records_per_key \in Int
  /\ \A r \in Records : r.ts \in Int /\ r.bytes \in Int
  /\ \A f \in RuleFiles : f \in Seq(Range(f))
  /\ MaxOut \in Nat \ {0}
  /\ MaxFed \in [{"main", "api"} -> Nat]

VARIABLES
  program,          \* "main", or "api": a user of the C interface
  engines,          \* the live engines by slot
  count,            \* `static` in Detectors::feed: one for all engines
  detected, fired,  \* findings of the last feed, by detectors and by rules
  out,              \* those of them that are copied to the caller
  last,             \* the slot of the last feed, or None
  fed,              \* history: what each live engine was fed, in order
  feeds             \* for the bound: how often feed was called

vars == <<program, engines, count, detected, fired, out, last, fed, feeds>>

None == "none"
At(f, k, default) == IF k \in DOMAIN f THEN f[k] ELSE default
With(f, k, v) == [x \in DOMAIN f \cup {k} |-> IF x = k THEN v ELSE f[x]]

-----------------------------------------------------------------------------
(* SlidingWindow: a function from keys to deques. *)
get(win, key) == At(win, key, <<>>)

(* Mutant: max_records_per_key is not enforced. *)
AddUncapped(win, r, key) == With(win, key, Append(get(win, key), r))

Add(win, r, key) ==
  LET dq == Append(get(win, key), r)
  IN  With(win, key, IF Len(dq) > cfg.max_records_per_key THEN Tail(dq) ELSE dq)

(* From every deque, the front ones older than the span. *)
Fresh(dq, now, span) ==
  LET kept == {i \in DOMAIN dq : now - dq[i].ts <= span}
  IN  IF kept = {} THEN <<>> ELSE SubSeq(dq, Min(kept), Len(dq))

(* Mutant: a record as old as the span is gone. *)
EvictEarly(win, now) == [k \in DOMAIN win |-> Fresh(win[k], now, cfg.span_sec - 1)]

Evict(win, now) == [k \in DOMAIN win |-> Fresh(win[k], now, cfg.span_sec)]

-----------------------------------------------------------------------------
(* Detectors::feed on the deque of the record's source, or destination. *)
Found(type, key, holds) == IF holds THEN <<[type |-> type, key |-> key]>> ELSE <<>>

UniquePorts(dq) == {x.dst_port : x \in {y \in Range(dq) : y.action = "connect"}}

(* Mutant: a success in between does not end the failures. *)
FailsTotal(dq) == Cardinality({i \in DOMAIN dq : dq[i].action = "auth" /\ dq[i].status = "fail"})

(* The failed logins since the last that did not fail. *)
ConsecutiveFails(dq) ==
  LET Auth(i) == dq[i].action = "auth"
  IN  Cardinality({i \in DOMAIN dq :
        Auth(i) /\ \A j \in i .. Len(dq) : Auth(j) => dq[j].status = "fail"})

PortScan(dq, r) ==
  Found("port_scan", r.src_ip, Cardinality(UniquePorts(dq)) >= cfg.portscan_unique_ports)
BruteForce(dq, r) ==
  Found("brute_force", r.src_ip, ConsecutiveFails(dq) >= cfg.bruteforce_failures)
Ddos(dq, r) ==
  Found("ddos_volumetric", r.dst_ip,
        /\ Len(dq) >= cfg.ddos_events
        /\ Cardinality({x.src_ip : x \in Range(dq)}) >= cfg.ddos_unique_sources)

(* Welford's recurrence with x, the n-th value: d is x - mean, and var      *)
(* grows by d times what is left of d.                                      *)
NoStats == [num |-> 0, den |-> 1, spread |-> FALSE]

(* Mutant: var grows by d * d. *)
WelfordSquare(st, n, x) ==
  [num |-> st.num * (n - 1) + x * st.den, den |-> st.den * n,
   spread |-> st.spread \/ st.num # x * st.den]

Welford(st, n, x) ==
  [num |-> st.num * (n - 1) + x * st.den, den |-> st.den * n,
   spread |-> st.spread \/ (st.num # x * st.den /\ n > 1)]

-----------------------------------------------------------------------------
(* The rules: of the objects of a file, what the loader keeps.  An operator *)
(* that it does not know is eq; a count or a sum with another operator than *)
(* >= is no condition.                                                      *)
Least(o, k) == IF k \in DOMAIN o /\ o[k].op = ">=" THEN o[k].value ELSE 0
Rule(o) ==
  [name |-> At(o, "name", ""), group_by |-> At(o, "group_by", ""),
   within_sec |-> At(o, "within_sec", 60), when |-> At(o, "when", {}),
   count_ge |-> Least(o, "count"), sum_bytes_ge |-> Least(o, "sum_bytes"),
   emit_type |-> At(o, "emit", "")]

(* cmp_value, on values of one kind; regex is not modelled. *)
Holds(op, a, b) ==
  CASE op = "ne" -> a # b   [] op = ">=" -> a >= b [] op = ">" -> a > b
    [] op = "<=" -> a <= b  [] op = "<" -> a < b   [] OTHER -> a = b
Matches(rule, r) == \A c \in rule.when : Holds(c.op, At(r, c.field, ""), c.value)

Groups == {"src_ip", "dst_ip", "username", "protocol", "dst_port"}
KeyFor(rule, r) == IF rule.group_by \in Groups THEN r[rule.group_by] ELSE ""

SumBytes(dq) == FoldSeq(LAMBDA x, sum : sum + x.bytes, 0, dq)
Fires(rule, dq) ==
  /\ rule.count_ge > 0 => Len(dq) >= rule.count_ge
  /\ rule.sum_bytes_ge > 0 => SumBytes(dq) >= rule.sum_bytes_ge

(* Mutant: no eviction. *)
FeedRuleKeeping(st, rule, r) ==
  LET key == <<rule.name, KeyFor(rule, r)>>
      win == Add(st.win, r, key)
  IN  [win |-> win,
       out |-> st.out \o Found(rule.emit_type, KeyFor(rule, r), Fires(rule, get(win, key)))]

(* One round of RulesEngine::feed, for a rule that matches. *)
FeedRule(st, rule, r) ==
  LET key == <<rule.name, KeyFor(rule, r)>>
      win == Evict(Add(st.win, r, key), r.ts)
  IN  [win |-> win,
       out |-> st.out \o Found(rule.emit_type, KeyFor(rule, r), Fires(rule, get(win, key)))]

FeedRules(win, rules, r) ==
  FoldStrictly(LAMBDA st, rule : IF Matches(rule, r) THEN FeedRule(st, rule, r) ELSE st,
               [win |-> win, out |-> <<>>], rules)

-----------------------------------------------------------------------------
NewEngine(rules) ==
  [rules |-> rules, by_src_ |-> <<>>, by_dst_ |-> <<>>, win_ |-> <<>>, stats |-> <<>>]

(* main has one engine, with the rules of a file; a program that uses the C *)
(* interface has none at first, and cannot give its engines any rules.      *)
Init ==
  /\ \/ program = "main"
        /\ \E f \in RuleFiles : \E s \in Slots :
             /\ engines = [t \in {s} |-> NewEngine([i \in DOMAIN f |-> Rule(f[i])])]
             /\ fed = [t \in {s} |-> <<>>]
     \/ program = "api" /\ engines = <<>> /\ fed = <<>>
  /\ count = [src \in {r.src_ip : r \in Records} |-> 0]
  /\ detected = <<>> /\ fired = <<>> /\ out = <<>> /\ last = None /\ feeds = 0

Quiet == detected' = <<>> /\ fired' = <<>> /\ out' = <<>> /\ last' = None

New(s) ==
  /\ program = "api" /\ s \notin DOMAIN engines
  /\ engines' = With(engines, s, NewEngine(<<>>))
  /\ fed' = With(fed, s, <<>>)
  /\ Quiet /\ UNCHANGED <<program, count, feeds>>

(* The engine e after record r, the n-th of its source by the static count. *)
FeedEngine(e, r, n) ==
  [e EXCEPT !.by_src_ = Evict(Add(e.by_src_, r, r.src_ip), r.ts),
            !.by_dst_ = Evict(Add(e.by_dst_, r, r.dst_ip), r.ts),
            !.stats = With(e.stats, r.src_ip,
                           Welford(At(e.stats, r.src_ip, NoStats), n, r.bytes)),
            !.win_ = FeedRules(e.win_, e.rules, r).win]

(* Detectors::feed, RulesEngine::feed; the z-score may be past anomaly_z,   *)
(* or not, when there is one.                                               *)
Feed(s, r) ==
  /\ s \in DOMAIN engines
  /\ feeds < MaxFed[program]
  /\ LET n   == count[r.src_ip] + 1
         e   == FeedEngine(engines[s], r, n)
         src == get(e.by_src_, r.src_ip)
         dst == get(e.by_dst_, r.dst_ip)
     IN  /\ engines' = [engines EXCEPT ![s] = e]
         /\ count' = [count EXCEPT ![r.src_ip] = n]
         /\ \E past \in BOOLEAN :
              /\ past => n > History /\ e.stats[r.src_ip].spread
              /\ detected' = PortScan(src, r) \o BruteForce(src, r) \o Ddos(dst, r)
                             \o Found("bytes_anomaly", r.src_ip, past)
  /\ fired' = FeedRules(engines[s].win_, engines[s].rules, r).out
  /\ out' = LET v1 == detected' \o fired'
            IN  IF program = "main" THEN v1 ELSE SubSeq(v1, 1, Min({MaxOut, Len(v1)}))
  /\ fed' = [fed EXCEPT ![s] = Append(@, r)]
  /\ last' = s /\ feeds' = feeds + 1
  /\ UNCHANGED program

Free(s) ==
  /\ program = "api" /\ s \in DOMAIN engines
  /\ engines' = [t \in DOMAIN engines \ {s} |-> engines[t]]
  /\ fed' = [t \in DOMAIN fed \ {s} |-> fed[t]]
  /\ Quiet /\ UNCHANGED <<program, count, feeds>>

Next == \E s \in Slots : New(s) \/ (\E r \in Records : Feed(s, r)) \/ Free(s)

Spec == Init /\ [][Next]_vars

-----------------------------------------------------------------------------
(* Type invariant.  A deque is never longer than max_records_per_key, and   *)
(* the caller gets the first of the findings.                               *)
Windows(e) == {e.by_src_, e.by_dst_, e.win_}
TypeOK ==
  /\ program \in {"main", "api"}
  /\ DOMAIN engines \subseteq Slots /\ DOMAIN fed = DOMAIN engines
  /\ last \in DOMAIN engines \cup {None}
  /\ feeds \in 0 .. MaxFed[program]
  /\ count \in [{r.src_ip : r \in Records} -> Nat]
  /\ IsPrefix(out, detected \o fired)
  /\ \A s \in DOMAIN engines : \A win \in Windows(engines[s]) : \A k \in DOMAIN win :
       /\ win[k] \in Seq(Records)
       /\ win[k] # <<>> => Len(win[k]) <= cfg.max_records_per_key

(* The records of a log that came after the i-th from the same address. *)
Ips == {"src_ip", "dst_ip"}
WindowBy(e, ip) == IF ip = "src_ip" THEN e.by_src_ ELSE e.by_dst_
Later(log, i, ip) == {j \in i + 1 .. Len(log) : log[j][ip] = log[i][ip]}

(* The i-th record is no older than the span, seen from any other, and      *)
(* fewer than max_records_per_key of its address came after it.             *)
Due(log, i, ip) ==
  /\ Cardinality(Later(log, i, ip)) < cfg.max_records_per_key
  /\ \A n \in DOMAIN log : log[n].ts - log[i].ts <= cfg.span_sec

(* The i-th record is in the deque with as many behind it as came later. *)
InPlace(dq, log, i, ip) ==
  LET behind == Cardinality(Later(log, i, ip))
  IN  behind < Len(dq) /\ dq[Len(dq) - behind] = log[i]

(* In whatever order records come, one is forgotten only when it is older   *)
(* than the span or max_records_per_key later ones of its key came, and     *)
(* those after it are not forgotten before it.                              *)
KeepsRecent ==
  \A s \in DOMAIN fed : \A ip \in Ips : \A i \in DOMAIN fed[s] :
    Due(fed[s], i, ip) =>
      LET dq == get(WindowBy(engines[s], ip), fed[s][i][ip])
      IN  \A j \in Later(fed[s], i, ip) \cup {i} : InPlace(dq, fed[s], j, ip)

InOrder(log) == \A i, j \in DOMAIN log : i <= j => log[i].ts <= log[j].ts
Says(type) == \E i \in DOMAIN detected : detected[i].type = type

(* On a log in time order the detectors report what a recount of the log    *)
(* reports, over the records that are due.                                  *)
DetectorsRecount ==
  last # None /\ InOrder(fed[last]) =>
    LET log == fed[last]
        r == Last(log)
        Recent(ip) == {i \in DOMAIN log : log[i][ip] = r[ip] /\ Due(log, i, ip)}
        Connects == {i \in Recent("src_ip") : log[i].action = "connect"}
        Auths == {i \in Recent("src_ip") : log[i].action = "auth"}
    IN  /\ Says("port_scan") <=>
             Cardinality({log[i].dst_port : i \in Connects}) >= cfg.portscan_unique_ports
        /\ Says("brute_force") <=>
             Cardinality({i \in Auths :
               \A j \in Auths : j >= i => log[j].status = "fail"}) >= cfg.bruteforce_failures
        /\ Says("ddos_volumetric") <=>
             /\ Cardinality(Recent("dst_ip")) >= cfg.ddos_events
             /\ Cardinality({log[i].src_ip : i \in Recent("dst_ip")}) >= cfg.ddos_unique_sources

(* The last n elements of a sequence. *)
LastOf(seq, n) == SubSeq(seq, Max({1, Len(seq) - n + 1}), Len(seq))

(* In a log in time order the window of a key is what one finds in the log: *)
(* of the key's last max_records_per_key records those within sec seconds.  *)
Within(log, now, sec) ==
  LET few == LastOf(log, cfg.max_records_per_key)
  IN  FlattenSeq([i \in DOMAIN few |->
        IF now - few[i].ts <= sec THEN <<few[i]>> ELSE <<>>])

(* What the first m rules put into the window of a key for a record, and    *)
(* what a log does whose last record has come to the m-th rule.             *)
Share(rule, key, r) ==
  IF Matches(rule, r) /\ key = <<rule.name, KeyFor(rule, r)>> THEN <<r>> ELSE <<>>
Put(rules, key, r, m) == FlattenSeq([i \in 1 .. m |-> Share(rules[i], key, r)])
Shares(rules, key, log, m) ==
  FlattenSeq([n \in DOMAIN log |->
    Put(rules, key, log[n], IF n < Len(log) THEN Len(rules) ELSE m)])

(* ">=10 failed auth in 2m" for a within_sec of 120, rules/example.json, and *)
(* required of every rule, schemas/rules.schema.json: over its within_sec a *)
(* rule counts the records that matched it or any rule of its name, once    *)
(* for each.                                                                *)
RuleWindows ==
  last # None /\ InOrder(fed[last]) =>
    LET r == Last(fed[last])
        rules == engines[last].rules
        Counts(k) ==
          Within(Shares(rules, <<rules[k].name, KeyFor(rules[k], r)>>, fed[last], k),
                 r.ts, rules[k].within_sec)
        Reached(k) ==
          /\ Matches(rules[k], r)
          /\ rules[k].count_ge > 0 => Len(Counts(k)) >= rules[k].count_ge
          /\ rules[k].sum_bytes_ge > 0 => SumBytes(Counts(k)) >= rules[k].sum_bytes_ge
    IN  \A type \in {rules[k].emit_type : k \in DOMAIN rules} :
          (\E i \in DOMAIN fired : fired[i].type = type)
            <=> \E k \in DOMAIN rules : rules[k].emit_type = type /\ Reached(k)

(* They do if every rule of the engine asks for the span of the engine.     *)
RulesRecount ==
  last # None =>
    LET rules == engines[last].rules
    IN  (\A k \in DOMAIN rules : rules[k].within_sec = cfg.span_sec) => RuleWindows

(* A source of which an engine has seen one size only is no anomaly to it,  *)
(* unless the static count has numbered records of another engine, one that *)
(* was freed included.                                                      *)
AnomalyFromOwnHistory ==
  last # None /\ Says("bytes_anomaly") =>
    LET log == fed[last]
        own == {i \in DOMAIN log : log[i].src_ip = Last(log).src_ip}
    IN  \/ \E i \in own : log[i].bytes # Last(log).bytes
        \/ count[Last(log).src_ip] > Cardinality(own)
=============================================================================
