------------------------------ MODULE Analyze -------------------------------
(***************************************************************************)
(* `neonsec analyze` (src/main.cpp) from the start of the reader thread to *)
(* the exit code: the reader pushes the lines of the input on the queue,   *)
(* the workers pop them and account for their findings, main joins both    *)
(* and compares the counters with the --fail-on thresholds.                *)
(*                                                                         *)
(* A line is "record" if it parses, "junk" if it does not, and "wordy" if  *)
(* moreover it has no digit, comma or hyphen: the only first line of a CSV *)
(* file that the reader takes for a header.  Which findings a record gives *)
(* is left open (module Detection says which).                             *)
(*                                                                         *)
(* metrics are atomic and each fetch_add is one step.  `counters` is a     *)
(* std::map that every worker updates with no lock: its ++ is a load and a *)
(* store, between which other workers may run.                             *)
(***************************************************************************)
EXTENDS BoundedQueue, Integers, FiniteSets

CONSTANTS
  Workers,          \* the pool; --threads of them
  Types,            \* the types findings may have, plugins' included
  MeteredTypes,     \* those with a metric: portscan, ddos, bruteforce
  Verdicts,         \* the sequences of findings a record may give, by type
  FailOn,           \* the --fail-on options: a function from types to counts
  MaxLines          \* bound: lines of the input

ASSUME AnalyzeAssumption ==
  /\ Workers \cap {"reader", "main"} = {}
  /\ MeteredTypes \subseteq Types
  /\ Verdicts \subseteq Seq(Types)
  /\ FailOn \in [DOMAIN FailOn -> Int]
  /\ MaxLines \in Nat

VARIABLES
  pc,               \* where each thread is
  log, csv,         \* the input's lines, and whether --format is csv
  at,               \* the number of lines getline has returned
  done,             \* the atomic flag
  cur,              \* the line each worker has popped
  found,            \* the findings it has not accounted for yet
  loaded,           \* the counter it has loaded and not stored back
  lines, findings, typed,   \* the metrics
  counters,         \* the map of main; 0 is an absent key
  written,          \* history: the findings written out, by type
  raced,            \* history: two workers have been inside one counter's ++
  exit              \* the exit code, Running until main returns

inputVars  == <<log, csv>>
workerVars == <<cur, found, loaded>>
tallyVars  == <<lines, findings, typed, counters, written, raced>>
vars == <<queueVars, pc, inputVars, at, done, workerVars, tallyVars, exit>>

Threads == Workers \cup {"reader", "main"}
Lines   == {"record", "junk", "wordy"}
Running == -1

Goto(t, label) == pc' = [pc EXCEPT ![t] = label]
At(t, label)   == pc[t] = label /\ t \notin waiting

Init ==
  /\ QueueInit
  /\ pc = [t \in Threads |-> CASE t = "reader" -> "getline"
                               [] t = "main"   -> "join"
                               [] OTHER        -> "pop"]
  /\ log \in UNION {[1..n -> Lines] : n \in 0..MaxLines}
  /\ csv \in BOOLEAN
  /\ at = 0
  /\ done = FALSE
  /\ cur = [w \in Workers |-> "none"]
  /\ found = [w \in Workers |-> <<>>]
  /\ loaded = [w \in Workers |-> 0]
  /\ lines = 0
  /\ findings = 0
  /\ typed = [t \in MeteredTypes |-> 0]
  /\ counters = [t \in Types |-> 0]
  /\ written = [t \in Types |-> 0]
  /\ raced = FALSE
  /\ exit = Running

-----------------------------------------------------------------------------
(* The reader. *)

IsHeader(n) == csv /\ n = 1 /\ log[n] = "wordy"

GetLine ==
  /\ At("reader", "getline")
  /\ at < Len(log)
  /\ at' = at + 1
  /\ Goto("reader", IF IsHeader(at + 1) THEN "getline" ELSE "push")
  /\ UNCHANGED <<queueVars, inputVars, done, workerVars, tallyVars, exit>>

ReaderPush ==
  /\ At("reader", "push")
  /\ \/ PushBlock("reader") /\ UNCHANGED pc
     \/ PushStore(log[at]) /\ Goto("reader", "getline")
     \/ PushRefuse /\ Goto("reader", "getline")
  /\ UNCHANGED <<inputVars, at, done, workerVars, tallyVars, exit>>

(* Mutants: the two statements that end the reader are exchanged; the end   *)
(* of the input is not announced by q.close().                              *)
EndSwapped ==
  \/ /\ At("reader", "getline")
     /\ at = Len(log)
     /\ Close
     /\ Goto("reader", "close")
     /\ UNCHANGED <<inputVars, at, done, workerVars, tallyVars, exit>>
  \/ /\ At("reader", "close")
     /\ done' = TRUE
     /\ Goto("reader", "end")
     /\ UNCHANGED <<queueVars, inputVars, at, workerVars, tallyVars, exit>>

EndUnclosed ==
  /\ At("reader", "getline")
  /\ at = Len(log)
  /\ done' = TRUE
  /\ Goto("reader", "end")
  /\ UNCHANGED <<queueVars, inputVars, at, workerVars, tallyVars, exit>>

(* After the last line: done.store(true), then q.close(). *)
EndOfInput ==
  \/ /\ At("reader", "getline")
     /\ at = Len(log)
     /\ done' = TRUE
     /\ Goto("reader", "close")
     /\ UNCHANGED <<queueVars, inputVars, at, workerVars, tallyVars, exit>>
  \/ /\ At("reader", "close")
     /\ Close
     /\ Goto("reader", "end")
     /\ UNCHANGED <<inputVars, at, done, workerVars, tallyVars, exit>>

-----------------------------------------------------------------------------
(* A worker. *)

(* Mutant: the result of pop is used without a test for nullopt. *)
PopUntested(w) ==
  /\ At(w, "pop")
  /\ \/ /\ PopBlock(w)
        /\ UNCHANGED <<pc, cur, lines>>
     \/ /\ PopTake
        /\ cur' = [cur EXCEPT ![w] = Head(q_)]
        /\ lines' = lines + 1
        /\ Goto(w, "parse")
     \/ /\ PopNone
        /\ Goto(w, "parse")
        /\ UNCHANGED <<cur, lines>>
  /\ UNCHANGED <<inputVars, at, done, found, loaded, findings, typed, counters,
                 written, raced, exit>>

(* `lines` is incremented as soon as there is an item. *)
Pop(w) ==
  /\ At(w, "pop")
  /\ \/ /\ PopBlock(w)
        /\ UNCHANGED <<pc, cur, lines>>
     \/ /\ PopTake
        /\ cur' = [cur EXCEPT ![w] = Head(q_)]
        /\ lines' = lines + 1
        /\ Goto(w, "parse")
     \/ /\ PopNone
        /\ Goto(w, "check")
        /\ UNCHANGED <<cur, lines>>
  /\ UNCHANGED <<inputVars, at, done, found, loaded, findings, typed, counters,
                 written, raced, exit>>

(* nullopt: `if (done.load()) break; else continue;` *)
Check(w) ==
  /\ At(w, "check")
  /\ Goto(w, IF done THEN "end" ELSE "pop")
  /\ UNCHANGED <<queueVars, inputVars, at, done, workerVars, tallyVars, exit>>

(* The parser, then win.add, the detectors and the plugins' hooks. *)
Judge(w) ==
  /\ At(w, "parse")
  /\ \E v \in IF cur[w] = "record" THEN Verdicts ELSE {<<>>} :
       /\ found' = [found EXCEPT ![w] = v]
       /\ Goto(w, IF v = <<>> THEN "pop" ELSE "load")
  /\ cur' = [cur EXCEPT ![w] = "none"]
  /\ UNCHANGED <<queueVars, inputVars, at, done, loaded, tallyVars, exit>>

Storing(w, t) == pc[w] = "store" /\ Head(found[w]) = t

(* metrics().findings.fetch_add(1), and the load of counters[fnd.type]++. *)
LoadCounter(w) ==
  /\ At(w, "load")
  /\ findings' = findings + 1
  /\ loaded' = [loaded EXCEPT ![w] = counters[Head(found[w])]]
  /\ raced' = (raced \/ \E v \in Workers : Storing(v, Head(found[w])))
  /\ Goto(w, "store")
  /\ UNCHANGED <<queueVars, inputVars, at, done, cur, found, lines, typed,
                 counters, written, exit>>

(* Mutant: the metric is set from the counter. *)
StoreCounterAndMetric(w) ==
  LET t == Head(found[w])
  IN  /\ At(w, "store")
      /\ counters' = [counters EXCEPT ![t] = loaded[w] + 1]
      /\ typed' = IF t \in MeteredTypes THEN [typed EXCEPT ![t] = loaded[w] + 1] ELSE typed
      /\ written' = [written EXCEPT ![t] = @ + 1]
      /\ found' = [found EXCEPT ![w] = Tail(@)]
      /\ Goto(w, IF Len(found[w]) = 1 THEN "pop" ELSE "load")
      /\ UNCHANGED <<queueVars, inputVars, at, done, cur, loaded, lines, findings,
                     raced, exit>>

(* The store of that increment, the metric of the type, write_finding. *)
StoreCounter(w) ==
  LET t == Head(found[w])
  IN  /\ At(w, "store")
      /\ counters' = [counters EXCEPT ![t] = loaded[w] + 1]
      /\ typed' = IF t \in MeteredTypes THEN [typed EXCEPT ![t] = @ + 1] ELSE typed
      /\ written' = [written EXCEPT ![t] = @ + 1]
      /\ found' = [found EXCEPT ![w] = Tail(@)]
      /\ Goto(w, IF Len(found[w]) = 1 THEN "pop" ELSE "load")
      /\ UNCHANGED <<queueVars, inputVars, at, done, cur, loaded, lines, findings,
                     raced, exit>>

-----------------------------------------------------------------------------
(* main. *)

JoinReader ==
  /\ At("main", "join")
  /\ pc["reader"] = "end"
  /\ Goto("main", "pool")
  /\ UNCHANGED <<queueVars, inputVars, at, done, workerVars, tallyVars, exit>>

JoinPool ==
  /\ At("main", "pool")
  /\ \A w \in Workers : pc[w] = "end"
  /\ Goto("main", "gate")
  /\ UNCHANGED <<queueVars, inputVars, at, done, workerVars, tallyVars, exit>>

(* counters.find(type), or 0. *)
CountOf(t) == IF t \in Types THEN counters[t] ELSE 0

(* Mutants: the gate compares the total of findings; it is strict. *)
GateOnTotal ==
  /\ At("main", "gate")
  /\ exit' = IF \E t \in DOMAIN FailOn : findings >= FailOn[t] THEN 3 ELSE 0
  /\ Goto("main", "end")
  /\ UNCHANGED <<queueVars, inputVars, at, done, workerVars, tallyVars>>

GateStrict ==
  /\ At("main", "gate")
  /\ exit' = IF \E t \in DOMAIN FailOn : CountOf(t) > FailOn[t] THEN 3 ELSE 0
  /\ Goto("main", "end")
  /\ UNCHANGED <<queueVars, inputVars, at, done, workerVars, tallyVars>>

Gate ==
  /\ At("main", "gate")
  /\ exit' = IF \E t \in DOMAIN FailOn : CountOf(t) >= FailOn[t] THEN 3 ELSE 0
  /\ Goto("main", "end")
  /\ UNCHANGED <<queueVars, inputVars, at, done, workerVars, tallyVars>>

-----------------------------------------------------------------------------
(* cv_.wait may return with no notification. *)
Wake(t) ==
  /\ SpuriousWake(t)
  /\ UNCHANGED <<pc, inputVars, at, done, workerVars, tallyVars, exit>>

Reader == GetLine \/ ReaderPush \/ EndOfInput
Worker(w) == Pop(w) \/ Check(w) \/ Judge(w) \/ LoadCounter(w) \/ StoreCounter(w)
Main == JoinReader \/ JoinPool \/ Gate

(* The process is gone. *)
Exited == exit # Running /\ UNCHANGED vars

Next ==
  \/ Reader
  \/ \E w \in Workers : Worker(w)
  \/ Main
  \/ \E t \in Threads : Wake(t)
  \/ Exited

(* Every thread that can run is scheduled; the mutex is granted in the end.  *)
Fairness ==
  /\ WF_vars(Reader)
  /\ \A w \in Workers : WF_vars(Worker(w))
  /\ WF_vars(Main)

Spec == Init /\ [][Next]_vars
FairSpec == Spec /\ Fairness

-----------------------------------------------------------------------------
(* Type invariant. *)
QueueOK ==
  /\ q_ \in Seq(Lines) /\ closed_ \in BOOLEAN
  /\ waiting \subseteq Workers \cup {"reader"}
  /\ at \in 0..Len(log) /\ done \in BOOLEAN
  /\ pc["reader"] \in {"getline", "push", "close", "end"}

WorkerOK(w) ==
  /\ pc[w] \in {"pop", "check", "parse", "load", "store", "end"}
  /\ cur[w] \in IF pc[w] = "parse" THEN Lines ELSE {"none"}
  /\ found[w] \in Seq(Types)
  /\ pc[w] \in {"load", "store"} <=> found[w] # <<>>
  /\ loaded[w] \in Nat

TallyOK ==
  /\ lines \in Nat /\ findings \in Nat
  /\ typed \in [MeteredTypes -> Nat]
  /\ counters \in [Types -> Nat]
  /\ written \in [Types -> Nat]
  /\ raced \in BOOLEAN

TypeOK ==
  /\ QueueOK /\ TallyOK
  /\ \A w \in Workers : WorkerOK(w)
  /\ pc["main"] \in {"join", "pool", "gate", "end"}
  /\ exit \in {Running, 0, 3}

(* A worker is given nullopt only once the flag it then tests is set: the   *)
(* `continue` after pop is dead, and no worker spins on a closed queue.     *)
NulloptMeansDone ==
  \A w \in Workers : pc[w] = "check" => done

(* When main has joined the pool, every line but a header has been popped   *)
(* and judged, and the metrics agree with the findings that were written.   *)
NothingLeftBehind ==
  pc["main"] \in {"gate", "end"} =>
    /\ q_ = <<>> /\ at = Len(log)
    /\ lines = Cardinality({n \in DOMAIN log : ~IsHeader(n)})
    /\ \A t \in MeteredTypes : typed[t] = written[t]

Reached == \E t \in DOMAIN FailOn :
             (IF t \in Types THEN written[t] ELSE 0) >= FailOn[t]

(* --fail-on: the exit code is 3 exactly when as many findings of a type    *)
(* were written as its threshold asks for.                                  *)
GateExact == exit # Running => (exit = 3 <=> Reached)

(* Overlapping increments of one counter are all that can spoil it: without *)
(* them, as with --threads 1, the gate is exact.                            *)
GateExactUnlessRaced == ~raced => GateExact

(* Even then the gate does not fire without cause: an increment of counters *)
(* may be lost, none is made twice.                                         *)
GateNeverSpurious == exit = 3 => Reached

(* The run ends, with neither a deadlock on the queue nor a lost worker. *)
Terminates == <>(exit # Running)
=============================================================================
