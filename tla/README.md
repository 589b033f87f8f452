# NeonGuard in TLA+

Models, model-checking runs and proofs for the C++ program in `src/` (`neonsec`), a
command that reads network log lines, keeps a sliding window over them and reports port
scans, floods of attackers and repeated login failures.

The repository holds six generations of the program: the current one, 5.0.0, in
`src/src/` and `src/include/neonsec/`, and under `src/legacy/`, each nested in the
next, 4.0.0 (apex), 3.0.0 (ultra), 2.0.0 (max), 1.0.0 (final) and the original project,
1.3.0, from which they were rewritten. The concurrency of 5.0.0 is modelled in detail;
one run of `main`, from argv to the exit code, is modelled for 1.0.0 to 5.0.0 side by
side, since what an upgrade changes is what no test of one release sees; of the original
project the detection engine is modelled.

Some sources do not compile as they stand: in 5.0.0 the string literals of `rules.hpp`
and `reporters.hpp` are damaged, and its `CMakeLists.txt` builds only a stub
(`ci_core.cpp`); 3.0.0 swaps the arguments of `localtime_r` (`log.hpp:69`); in the
original project `main.cpp`, the readers, `rules.cpp` and the reporters break off inside
literals. The models follow the intended reading; no modelled definition depends on the
text of a literal.

## Inventory

| Component | State | Operations | Used by | What makes it correct |
|---|---|---|---|---|
| Bounded queue (`bounded_queue.hpp`) | buffer, closed flag, one mutex, one condition variable | `push`, `pop`, `close` | reader pushes and closes, workers pop | FIFO, bounded, no lost wakeup, drained before `nullopt`, `close` releases everybody |
| Sliding window (`window.hpp`) | deque of records, five hash maps of counts | `add`, `prune`, three queries | every worker, by reference, without a lock | maps equal a recount of the deque; nothing fresh dropped; staleness bounded |
| Detectors (`detectors.hpp`) | none | `detect_portscan`, `detect_ddos`, `detect_bruteforce` | worker, after `add` | verdicts equal a recount of the log |
| Pipeline (`main.cpp`, `analyze`) | queue, `done`, `counters`, metrics, thread handles | reader loop, worker loop, joins, `--fail-on` gate | - | every line judged, gate exact, the run ends |
| Metrics server (`metrics_server.*`) | `running_`, `th_`, five atomics, listening socket | `start`, accept loop, `stop`, destructor | main starts and stops it, workers increment, scrapers read | its thread ends before it is destroyed, scrapes are monotone, `stop` returns |
| Command line (`main.cpp`) | option variables | parsing, `bench`, `selfcheck`, `version` | - | an exit code says what was done; an upgrade keeps the meaning of a command line |
| Rules (`rules.hpp`) | none | load | main | the thresholds in force are those of the file |
| CSV / NDJSON readers | none | parse a line | worker | a well-formed line gives its record, any other is refused |
| Logger (`log.hpp`) | file, mutex | constructor, `log` | main | a run is not lost to its log |
| Plugins (`plugin_loader.*`) | handles, hooks | load, call, unload | main, workers | every handle is closed, whatever failed to load |
| Reporters (`reporters.hpp`) | output file | `write_finding` | worker | a finding is one line |
| Earlier releases (`src/legacy/`) | those of the components above | those of the components above | - | what they have in common stays the same |
| Original engine (1.3.0) | deques per key, statistics, a `static` count | `feed` of detectors and rules, `c_api.h` | its `main`, or another program | detectors agree with a recount, rules with one of their own window; engines do not disturb each other |
| CI stub, fuzz, tools, deployment | - | - | - | not modelled, see below |

Threads and what they share: *reader* (queue, `done`), *workers* (queue, `done`, window,
`counters`, metrics, output file, hooks), *metrics thread* (metrics, `running_`), *main*
(everything, before the threads start and after the joins). Hard behaviours: the two
roles on one condition variable, the end of the stream, updates of shared state without
a lock, pruning by decrements, records out of order, the shutdown of a thread that is
blocked in `accept`, a `start` that fails after it has returned, clients that are gone when the reply is sent, exceptions that nothing
catches, conversions that narrow, readers that search a text instead of parsing it, a
log file that is opened at different moments in different releases. `PROJECT.json` lists
them as hazards at their lines, with the properties that cover them.

## Modules

| Module | What it is |
|---|---|
| `BoundedQueue` | the class: each operation as actions over `q_`, `closed_` and the wait set `waiting` |
| `QueueClients` | producers and consumers that call it in any order; properties of the class |
| `Channel` | abstract: what the callers may assume |
| `QueueClientsProofs` | theorems |
| `SlidingWindow` | the class: steps of `add` and `prune` over `q_` and the maps (`index`), and the queries |
| `Detection` | workers that call `add` and the detectors; properties of window and detectors |
| `IdealDetector` | abstract: every record judged by recounting the log |
| `DetectionProofs` | theorems |
| `Analyze` | the whole of `analyze` from the reader's start to the exit code, on `BoundedQueue` |
| `AnalyzeProofs` | theorems |
| `MetricsServer` | the server of 2.0.0 to 5.0.0, main's life around it, the workers' increments and the scrapers |
| `MetricsProofs` | theorems |
| `CommandLine` | argv of every release: settings, or an exit code |
| `LineReaders` | the CSV, NDJSON and rules readers of every release, on fields and tokens |
| `ReleaseWindow` | window and detectors of every release, one call at a time |
| `Releases` | one run of every release, from argv to the exit code, on the three modules before it |
| `ReleasesProofs` | theorems about main's stages |
| `ReleaseDataProofs` | theorems about what main computes: settings, thresholds, records, windows |
| `OriginalEngine` | windows, detectors, rules engine and C interface of the original project |
| `OriginalEngineProofs` | theorems |
| `StrictFold` | a fold that TLC evaluates in linear time |
| `NaturalInduction` | lemmas: induction over a set of naturals |
| `MCDetection`, `MCAnalyze`, `MCReleases`, `MCOriginalEngine` | instances for TLC |

`Analyze` and `QueueClients` extend `BoundedQueue`; `Detection` extends `SlidingWindow`;
`Releases` extends `CommandLine`, `LineReaders` and `ReleaseWindow`. `Analyze` leaves the
verdict on a record open (any member of `Verdicts`), so what it shows holds for the
built-in detectors and for plugins; `Detection` and `Releases` say which verdict it is.
Mutated forms of definitions, each a plausible mistake in the code, stand before the
definition they change and are marked `Mutant`; no specification uses them.

### How state and actions correspond to the code

*Atomicity.* A member function of the queue holds `mu_` from its first statement to its
return or its wait, so the stretch between two acquisitions of the mutex is one action.
`waiting` is the set of threads inside `cv_.wait`; a thread that leaves it (notified, or
woken spuriously: `SpuriousWake`) evaluates its predicate again, which is the same action
as on entry (`PushBlock`/`PushStore`/`PushRefuse`, `PopBlock`/`PopTake`/`PopNone`).
Atomic metrics are one step per `fetch_add`; steps that touch only a thread's own data
are merged with their neighbours.

*Data races.* `counters[type]++` is a load and a store. The window is cut at `push_back`,
at each round of the pruning loop and at the group of increments. Both are coarser than
the machine, where the race is undefined behaviour: the violations found are real
already at this grain, and properties that hold for several workers (`GateNeverSpurious`)
hold of every build in which the loads and stores of a counter are single accesses.

*Window.* The five `unordered_map`s are one bag `index`, whose elements are a map's name
and a key. Decrement-and-erase, with absent keys ignored, is bag difference. A record
keeps `ts`, `src_ip`, `dst_ip`, `dst_port`, `username` and `fail` (the test on action and
status that `add` and `prune` share). In `ReleaseWindow` the maps are a function, because
up to 4.0.0 a count that falls to 0 keeps its entry.

*Lines in `Analyze`.* `"record"` parses, `"junk"` does not, `"wordy"` does not and has no
digit, comma or hyphen: the reader drops a first CSV line only in that case.

*Lines in `Releases`.* A CSV line is the sequence of its fields, JSON text a sequence of
tokens: strings, numbers, colons, commas and a white space (`Tab`) that some getters skip
and others do not. The readers look for a quoted key anywhere and then for the next colon
and the next string or number, and so do `KeyAt`, `After`, `GetString` and `NumberAt`.
Conversions are what they do: `stoi` and `stoll` refuse what does not fit, the casts of
5.0.0 wrap. The ends of `int` and `long long` are the constants `IntEnd` and `LongEnd`.

*Releases.* What differs between releases is a definition per release (`FinalCli`,
`MaxCli`, `UltraCli`, `ApexCli`, `CurrentCli`), mapped to the lines of that release; what
they share is one definition. `main` is the sequence `Stages[rel]`: logger, rules,
server, input, plugins, work, unloading, stop, gate, last message, return, each of which
may end the process. From 2.0.0 on a `MetricsServer` is in scope from the opening of the
input, so every return from there, `return 1` for a missing input included, goes through
its destructor (`Leave`, then `Destroy`); a return before it does not (`End`). An exception that nothing catches ends it with 134. `Log(Then)` is a
message: it opens the file if it is not open, may throw in 5.0.0, and is followed by
`Then`. A plugin is what its path meets (no file, no symbol, a registration that refuses,
an idle hook, the hook that reports port 50); `open` counts the handles that `dlopen` gave
and `dlclose` has not taken. The records are judged one after the other: what workers do
to each other is in `Analyze` and `Detection`.

Of the server's thread `Releases` has what main can wait for or die of: `running_`, the
`std::thread` (`th_`) and where the thread is (`srv`: setup, test of the flag, `accept`,
end). `env.net` is what it meets: an address that is `refused`, a port where nobody
connects (`silent`), clients that poll for ever (`polled`), and clients that may be gone
when the reply is sent (`reset`), which ends the process with SIGPIPE, 141. `Stop` is used
for `ms.stop()` and for the destructor, after which a thread that was not joined
terminates the process, 134. The thread runs between any two steps of main until the
process is gone. What it replies is in `MetricsServer`.

*Metrics server.* `release` says whose server it is: which steps of the setup may fail,
and which metrics a reply loads. Each failure closes the socket, lowers `running_` and
ends the thread. A reply is one load per metric and a send. `pending` counts, per type,
the workers between `findings.fetch_add` and the `fetch_add` of the type; a finding whose
type has no metric, which a plugin may report, owes none. `Stop` is used for `ms.stop()`
and for the destructor's call. `SendFails` is a client that gets no reply: its TLS
handshake is refused, or it has gone, and then the process may be killed by SIGPIPE.

*Original engine.* A call of `neonsec_engine_new`, `_feed` or `_free` is an action; main
uses one engine with rules. The mean of Welford's recurrence is an exact fraction where
the code has a double, and of the variance only whether it is positive is kept, so that
the z-score of a record may or may not pass the threshold when there is one. `count` is
the function's `static` map: one for all engines, living on when an engine is freed.

## Runs

| Run | Bounds | Shows |
|---|---|---|
| `queue` | 2 producers, 3 consumers, 2 items each, Cap 2 | type, FIFO and bound, no lost wakeup, `nullopt` only at the end; the queue implements `Channel`, delivery included; `close` releases all |
| `detection_skewed` | 1 worker, 4 records of 8 kinds, times 0..3, Span 1, Skew 1 | maps exact, staleness bounded by the skew, nothing fresh dropped; implements `IdealDetector` |
| `detection_shared` | 2 workers | **violated**: the maps keep counts of pruned records |
| `detection_ports` | 1 worker, 3 records | **violated**: a scan over ports is not reported |
| `analyze_pool` | 2 workers, up to 3 lines, Cap 1 | nothing left behind, `nullopt` only after `done`, the gate is exact unless two increments overlapped and never spurious, the run ends |
| `analyze_race` | 2 workers, up to 2 lines | **violated**: a lost update hides a triggered gate |
| `metrics_polled` | backlog 2, 2 lines, 2 findings, every failure, clients that are gone included, 4 releases | no thread outlives the server, scrapes are monotone; with a scraper that polls, the process ends |
| `metrics_unpolled` | 1 line, 1 finding, nothing fails | **violated**: `stop` hangs in `join` |
| `metrics_busy_port` | `bind` may fail | **violated**: the process aborts |
| `releases` | about 17600 jobs of 5 releases; int of 4 bits, long long of 6, Cap 2 | exit codes, aborts, gate, plugins, options, thresholds, readers and windows are what the properties say; main ends unless it is starved or joins a server to which nobody connects |
| `original_engine` | 15 records (5 kinds at 3 times), span 1, 3 records per key, thresholds 2, 4 records fed to main or 3 to two engines | detectors agree with a recount, rules too if they ask for the engine's span, nothing recent is forgotten, anomalies come from an engine's own history or from the shared count |
| `original_rule_windows` | the same records, a rule with a `within_sec` of 9 | **violated**: a rule's window is the engine's span |

Bounds. A queue of two places with five threads is the smallest in which items can
overtake each other and in which waking a single thread can strand a role. Four records
over four instants with Span 1 allow a record to expire, the same key to be counted again
and expire again, and several to expire in one `prune`; thresholds of 2 make every
detector both silent and triggered. Two sources, two ports, two destinations and two
users (one of them empty) distinguish every key from its neighbours. In `Analyze`, three
lines on one place with two workers block the reader, hold both workers inside the
counter's load and store, and leave lines buffered at `close`.

The jobs of `releases` are families, each varying one thing over a fixed rest:
`CommandJobs` all pairs of tokens after the required options, and all pairs of options
with the values that make each succeed or throw; `AbsentJobs` rules, input, log directory
and log file there or not, with plugins; `ServerJobs` a
metrics port in each of the four states, with the log directory, the input, `--fail-on`
and `--threads` varied; `RuleJobs` rules
files of one or two keys with values that are negative, zero, beyond an int and beyond a
long long, and texts that are no plain object; `LogJobs` every log of three records in
time order over two sources and two ports; `NdjsonJobs` an object with one field changed,
dropped or moved, or two of these; `CsvJobs` a record with one field changed and its end
cut or extended. With an int of 4 bits and a long long of 6, values up to 40 pass both
widths. In `original_engine` the span, the cap on records per key and the thresholds are
such that four records can reach each threshold, lose a record to the span, and lose one
to the cap; two slots are enough for one engine to number records of another.

The runs that may stop because the log has ended (`Detection`) or the feeding has reached
its bound (`OriginalEngine`) switch the deadlock check off; `Analyze`, `MetricsServer` and
`Releases` stutter explicitly once the process has exited (or waits for ever, with no
worker and a full queue or for a thread in `accept`) and are checked for deadlock before it.

Fairness. Every thread inside a call is scheduled again (`WF` on its next step), which
the operating system gives; nobody has to push, to close, to connect or to be woken
without a notification. `metrics_polled` adds that a client keeps connecting, as the
scrape job of `src/README.md` (lines 128-130) does; `metrics_unpolled` shows that
this cannot be dropped. `Terminates` needs a worker: with `--threads 0` and more lines
than the capacity the reader blocks for ever. That, and a join of a server's thread to
which nobody connects, are the only exceptions in `EndsUnlessWaiting` of `Releases`. Its
fairness is that of a process whose two threads run (`WF` on `Main` and on `Server`),
where clients of a `polled` port connect again.

### What the violated runs say

Each contradicts a line of the documentation or a test; `findings` in `PROJECT.json`
quotes it. Two come from the pool sharing `win` and `counters` without a lock (with
`--threads 1` both properties hold: `detection_skewed` has one worker, and one worker
never races, so `GateExactUnlessRaced` gives the exact gate), two from
`MetricsServer::stop`, and one from a detector that counts attempts per port where its
test counts ports. In the original project the example rules, their wording and the schema
give every rule a window of its own, `within_sec`, which the rules engine never reads
(`RuleWindows`); it agrees with a recount if all rules ask for the engine's span
(`RulesRecount`).

### What `releases` says of the upgrades

Properties of `Releases` carry their exceptions in their statements, and these are what a
user of an older release should know. What 3.0.0 accepts is accepted by 4.0.0 and 5.0.0
with the same settings (`UpgradeKeepsSettings`), but not what 2.0.0 accepts: a `--metrics`
argument with no colon was a port, and is ignored since. A threshold that is not negative
and fits an int is in force as written; 5.0.0 alone goes on with others
(`ThresholdsAsWritten`). A log directory that cannot be
made ended 1.0.0 to 4.0.0 before any work; 5.0.0 does the work and then aborts at its last
message. From 2.0.0 on the analysis is also lost, after its findings are out, if the
metrics server could not be set up; there is no third way (`LateAbortExplained`). An abort
at the last message means that the gate had not triggered; one after a refused server says
nothing of the gate (`GateDecides`). In
3.0.0 attackers are never uncounted (`WindowRecount`): its pruning tests one iterator for
another. Port attempts were summed over ports until 5.0.0.

## Proofs

`QueueClientsProofs`, for any disjoint sets of producers and consumers, any capacity and
any number of items: `TypeCorrect`, `FifoBoundedAlways`, `NoLostWakeupAlways`,
`EndOfStreamAlways`, `RolesNeverBothBlocked` (for `Cap > 0`) and `QueueImplementsChannel`
(the safety part of `ImplementsChannel`). `FifoBounded` and `NoLostWakeup` are inductive
with the types; `EndOfStream` is not: a consumer that received `nullopt` says nothing
about `q_`, so the invariant `IInv` adds that the queue is then closed and empty
(`Drained`).

`DetectionProofs`: `TypeCorrect` for any set of workers that share the window, any span
(an integer, also a negative one) and any disorder: the maps hold positive counts only. The
others are for one worker, `Workers = {w}`, whose `seen` is the order of arrival; with
several, `FreshKept` fails (it is judged by position in `seen`). The log is
`seen` plus the record in hand, and `WindowInv` says that the deque is a suffix of it
(`Suffix`), that a record is older than an earlier one by `Skew` at most (`Disorder`), that
what left the deque is stale (`DroppedStale`) and that outside the pruning loop the front is
fresh for the last record (`FreshFront`). `LoneWorkerStaleBounded` needs `FreshFront`, which
says something of the front only, together with `Disorder`, which carries it to the rest
of the deque; `LoneWorkerFreshKept` is `DroppedStale` when the worker is idle.
`LoneWorkerIndexExact`, for `Span \in Nat`, adds `Counted`: for every key a recount of the
deque is what the maps hold plus the record pushed and not yet counted. A decrement in
`PruneFront` keeps it only if the record that leaves has been counted, which is where
`Suffix` (the last of the deque is the record in hand) and the sign of `Span` are used: with
a negative span the loop removes the record it has just pushed.
`LoneWorkerImplementsIdeal` is the refinement: `Detect` is a step of `IdealDetector`, every
other action leaves the abstract state alone. Once a record has come late the abstract
detector may report anything; before that, with `InOrder(seen)`, From `Counted` and
`FreshFront` follows that a count in the maps, and a number of distinct keys, is the
cardinality of a set of places in the log, which is what the abstract detector counts;
`ClockInvariant` says that the clock shows the time of a record that has arrived.

`AnalyzeProofs`, for any set of workers, capacity, input, findings per record and
`--fail-on` options. The invariant has five parts. `Order` is the end of the stream: the
queue is closed only after `done`, `done` is set only at the end of the input, and a
worker leaves only a closed and empty queue; `NulloptFinal` follows. `Accounted` counts
lines: those popped, buffered and in the reader's hand are the ones read and not dropped,
so that with a worker at least (`NothingLost` assumes `Workers # {}`: with `--threads 0`
nothing is ever popped) main finds all of them popped. `Tallies` bounds every counter,
and the value a worker has loaded of it, by the findings written: whatever is lost to
overlapping increments, nothing is invented, which gives `NeverSpurious`. `Unraced` says
that without an overlap the counters are exact up to the one store that is due;
`Decided` ties the exit code to the counters that main compared. Together they give
`ExactUnlessRaced`.

`MetricsProofs`, for every release of the server, any backlog, failures and number of
lines and findings. `ThreadStates` ties the `std::thread` to the thread it stands for and
gives `ServerEndsFirst`. `Monotone` needs `RepliesLag` (what was sent is at most what is
loaded for the next reply, which is at most the metric now), `BodyLength` (a reply is
sent only when every metric is loaded) and, for the types' bounds, `TypesWithinFindings`
(what workers owe to a metric was counted as a finding before).

`ReleasesProofs`, for every release, any jobs and any bounds: `ErrorsLeaveNothing`,
`SuccessIsComplete` and `LateAbort`. The invariant follows main through its
stages (`StageOrder` says how they follow each other): `Untouched` and `Passed` say what
has not and what has been done at each, `Handles` that the open handles are those of the
plugins main keeps until it unloads them, `NoMessageYet` that without a log directory
5.0.0 has sent no message, hence has no plugin, when it gets to its last one. Two parts
are about the server: `Served` says that the thread is still to be joined, and the flag
down, only if the thread itself lowered the flag or main is about to join it; `Leaving`
that main returns 1 only before the work. `LateAbort` needs both: the destructor aborts only
what `stop()` did not join. Of a command line these proofs use only
that the command it names is one the release has.

`ReleaseDataProofs` proves the other seven invariants of `Releases`, again for every
release, any jobs, and data of any length: argv, rules files, lines and logs. The loops over
them are folds in the model; each is shown to be a function over 0 .. n that makes one step
per element (`ScansExist` and its like), and what holds after n steps follows by
`InductionOnNat` of `NaturalInduction`. That lemma is about a set of naturals instead of a
predicate, which is how induction over data stays within the provers' reach.

- `UpgradeIsSafe`: one pass over argv by the parsers of 3.0.0, 4.0.0 and 5.0.0 in step. As
  long as 3.0.0 has refused nothing the three have the same settings and are waiting for
  the value of the same option.
- `GateIsRight`: `Sensible` relates the list of thresholds to the part of argv read, the last
  `--fail-on` for a type winning; `SettingsKnown` carries that through the run to the gate,
  and `GateHeld` from the gate, with the value main returns in `code`, through the
  destructor to the exit.
- `TypeCorrect`: `Exited`, `LogFile` and `Tallied`, with the stages of `ReleasesProofs`.
- `RulesAsWritten`: `RulesInForce` says that the thresholds are what the loader makes of the
  file; `InForceAsWritten` gives the value for each release from the width of its conversion; that the search for a quoted key finds the one entry of that key in a plain file,
  and the number behind it, is a fact about texts of any length and for any widths.
- `ReadersAreExact`: `LastRead` says that the record judged is what the reader makes of the
  line; for a plain object the search for a key gives the field's value wherever it stands,
  since no string is a field's name and each name occurs once.
- `LowThresholdsReport`: `Reporting` counts findings by type against records judged; every
  record is counted by the window it was added to (`WindowIs`), so that a threshold of 1 is
  always reached.
- `WindowIsRecount`: `Recounted` says that the deque is what is left of the log after its
  first b records, that the maps are a recount of it (`Holds`), and that those b are stale
  and the next one is not (`Latest`). Within `add` the same holds round by round of the
  pruning loop. In 3.0.0 (`Slipped`) the counts of attackers are at least the recount.

Assumed are `JobsAssumption` (known releases, libraries of the four kinds, texts of tokens,
a metrics port of the four kinds), `TokensAssumption` (what the conversions give is an integer, and a token
with a `=` is no option) and `WidthAssumption` (an int is not wider than a long long).

`OriginalEngineProofs`, for any records, rules files, configuration (also negative spans and
caps), number of engines and order of calls. A deque is read from its back, which neither
eviction nor the cap disturbs. `Follows` says of each deque that it is the end of what its
key was fed, that a record that is due (`Due`) is in it, and that its front is fresh for the
last record. `RecentKept` needs no order of time; `DetectorsAgree`, with `Reported` (what was
detected is the verdict on these deques), needs one, since only then is everything behind a
fresh front fresh. `MeansInv` gives `AnomalyIsOwn`: as long as the static count is the number
of an engine's own records, its mean is theirs, and it has no variance if they are equal.
`RulesAgree`: the window of a key, which several rules may share, follows the stream of what
they put into it (`Tracks`), rule by rule within a feed (`OneRound`) and feed by feed
(`StreamsInv`), although a window is evicted only when some rule matches; that the rules ask
for the engine's span is the premise of `RulesRecount` itself. `TypeCorrect` adds
the caps of the rules' windows and what the caller gets. `EngineAssumption` says that times,
bytes and limits are integers, and that the caller has room for a finding.

With these, every safety invariant that a passing run checks is a theorem, and so are the
action property `ScrapesMonotone`, the refinement `ImplementsIdeal` and the safety part of
`ImplementsChannel`. Only model-checked: liveness (`CloseReleases`, `Terminates`, `Ends`,
`EndsUnlessWaiting` and the delivery in `Channel`), which is beyond the prover, and the
properties of the runs that are violated.

## Plan

Done: queue, window and detectors, pipeline, metrics server; `main`, readers, rules,
logger, plugins and windows of the releases; the engine of the original project; the
theorems above, the window's refinement of `IdealDetector` among them. Left, in this order:

1. A specification of the job (each line judged once, a tally, an exit code) that both
   `Analyze` with one worker and `Releases` from its stage "work" implement, composed with
   `MetricsServer` so that scrapes are related to the tally.
2. The appends of several workers to one output file, each through a buffer of its own.

## Not modelled

- `main.cpp` of the original project: it does not compile (a comment in the middle of an
  expression, literals broken over lines, code after the end of `main`, variables that
  are not declared), so which program it means is a guess; with it its options and
  configuration files, alert suppression, readers, reporters, HMAC and metrics server.
  Plugins of an engine: the C interface has no call that loads one.
- The worker threads of 2.0.0 to 4.0.0: their queue and loops are those of 5.0.0 without
  the counters.
- `validate_thresholds_json`, which no program calls, and `set_level`. In 5.0.0
  `rules.hpp` (line 49) calls thresholds of 0 or below invalid and `src/README.md` (line 68)
  has an exit code for invalid rules, but `analyze` takes them: `ThresholdsAsWritten` and
  `LowThresholdReportsAll` say what is then in force and reported, not that it should be.
- The date in the name of the log file. Comments in `log.hpp` of 1.0.0 (line 75) and 2.0.0
  (line 76) promise a rotation by day; in every release the file that is open stays open.
- Texts: help, summary, findings, log lines, HTTP and TLS. Texts whose strings hold colons
  or quotes.
- The appends of several workers to one file (`reporters.hpp`); memory exhaustion; the
  corruption of a hash map by concurrent insertion.
- `ci_core` (adds two integers), fuzz and bench drivers, the release tools and the
  deployment files: no state shared with the program.
