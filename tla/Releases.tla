------------------------------ MODULE Releases ------------------------------
(***************************************************************************)
(* One run of `neonsec`, from argv to the exit code, in each release that  *)
(* is kept in the repository: 1.0.0 (final), 2.0.0 (max), 3.0.0 (ultra),   *)
(* 4.0.0 (apex) and 5.0.0 (current).                                       *)
(*                                                                         *)
(* The lines are judged one after the other, as in 1.0.0 and as with one   *)
(* worker in the others: what several workers do to each other is in the   *)
(* modules Analyze and Detection.  Of the metrics server, here is what     *)
(* main waits for; its replies are in MetricsServer.                       *)
(***************************************************************************)
EXTENDS CommandLine, LineReaders, ReleaseWindow

CONSTANTS
  Jobs,             \* [rel, argv, env]: the runs of the instance
  Words,            \* lines with no digit, comma or hyphen, among them ""
  PolicyPort,       \* the port example_port50_block reports, 50
  Cap               \* the capacity of the queue, 10000

(* The environment of a run:                                                *)
(*   rules, input   a file: [exists, lines]; of rules, all its tokens       *)
(*   logs           "ok"; "nodir": the directory cannot be created;         *)
(*                  "nofile": it is there, the log file cannot be opened    *)
(*   plugin         the libraries: "nosymbol", "refuses", "idle"            *)
(*                  (pcap_ingest) or "policy"                               *)
(*   net            the metrics port: "refused", the server cannot be set   *)
(*                  up; "silent", nobody connects; "polled", clients do, for *)
(*                  ever; "reset", they may be gone when the reply is sent  *)
Hooks == {"idle", "policy"}
Libraries == {"nosymbol", "refuses"} \cup Hooks
Nets == {"refused", "silent", "polled", "reset"}
ASSUME JobsAssumption ==
  \A j \in Jobs :
    /\ j.rel \in Releases
    /\ j.argv \in Seq(STRING)
    /\ j.env.rules.lines \in Seq(Tokens)
    /\ j.env.input.lines \in Seq(Seq(Tokens))
    /\ j.env.net \in Nets
    /\ \A path \in DOMAIN j.env.plugin : j.env.plugin[path] \in Libraries

VARIABLES
  job, pc,
  s,                \* the settings
  th,               \* the thresholds
  running_,         \* the server's flag
  th_,              \* its std::thread: "none", "joinable" or "joined"
  srv,              \* where that thread is
  out_,             \* whether the log file is open
  loads,            \* what became of each --plugin so far
  open,             \* handles that dlopen gave and dlclose has not taken
  at,               \* lines read
  last,             \* what the reader made of the last one
  judged,           \* history: the records that went through the detectors
  win, written,     \* the window; the types of the findings written
  code,             \* the value main is about to return
  exit

serverVars == <<running_, th_, srv>>
plugVars == <<loads, open>>
workVars == <<at, last, judged, win, written>>
vars == <<job, pc, s, th, serverVars, out_, plugVars, workVars, code, exit>>

Running == -1
Killed == 141       \* SIGPIPE
rel == job.rel
env == job.env
Csv == rel = "final" \/ s.text["--format"] = "csv"
Input == env.input.lines
RulesGiven == s.text["--rules"] # ""

Init ==
  /\ job \in Jobs
  /\ pc = "argv" /\ s = Defaults /\ th = <<>>
  /\ running_ = FALSE /\ th_ = "none" /\ srv = "none"
  /\ out_ = FALSE /\ loads = <<>> /\ open = 0
  /\ at = 0 /\ last = {} /\ judged = <<>> /\ win = Empty /\ written = <<>>
  /\ code = 0 /\ exit = Running

(* main from the settings on, as the order of its stages. *)
FinalStages == <<"logger", "rules", "open", "work", "finish", "return">>
MaxStages   == <<"logger", "rules", "server", "open", "plugins", "work", "unload",
                 "stop", "finish", "return">>
UltraStages == MaxStages
ApexStages  == MaxStages
CurrentStages == <<"logger", "rules", "server", "open", "plugins", "work", "unload",
                   "stop", "gate", "finish", "return">>
Stages == [final |-> FinalStages, max |-> MaxStages, ultra |-> UltraStages,
           apex |-> ApexStages, current |-> CurrentStages]

Stay == UNCHANGED <<pc, code, exit>>
Goto(stage) == pc' = stage /\ UNCHANGED <<code, exit>>
GoOnFrom(stage) ==
  \E i \in DOMAIN Stages[rel] : Stages[rel][i] = stage /\ Goto(Stages[rel][i + 1])
GoOn == GoOnFrom(pc)
End(status) == pc' = "end" /\ exit' = status /\ UNCHANGED code

(* A return from main with the server in scope; 1.0.0 has none. *)
Leave(status) ==
  IF rel = "final" THEN End(status)
  ELSE pc' = "destroy" /\ code' = status /\ UNCHANGED exit

-----------------------------------------------------------------------------
(* The logger.  Up to 4.0.0 the constructor creates the directory and opens *)
(* the file; 5.0.0 does both at the first message.  A file that is not open *)
(* is opened at the next message, one that is open stays the same.          *)
FinalLogger == [eager |-> TRUE]
MaxLogger   == FinalLogger
UltraLogger == FinalLogger
ApexLogger  == FinalLogger
CurrentLogger == [eager |-> FALSE]
Logger == [final |-> FinalLogger, max |-> MaxLogger, ultra |-> UltraLogger,
           apex |-> ApexLogger, current |-> CurrentLogger]

DirectoryThrows == env.logs = "nodir"
Opened == env.logs = "ok"

(* log(), and then what follows; or an exception that nothing catches. *)
Log(Then) ==
  IF ~Logger[rel].eager /\ ~out_ /\ DirectoryThrows
  THEN End(Aborted) /\ UNCHANGED out_
  ELSE out_' = (out_ \/ Opened) /\ Then

-----------------------------------------------------------------------------
Parse ==
  /\ pc = "argv"
  /\ LET p == Parsed(rel, job.argv)
     IN  IF Refused(p) THEN End(p.exit) /\ UNCHANGED s
         ELSE s' = p /\ Goto(IF job.argv[1] = "analyze" THEN "logger" ELSE job.argv[1])
  /\ UNCHANGED <<job, th, serverVars, out_, plugVars, workVars>>

MakeLogger ==
  /\ pc = "logger"
  /\ IF Logger[rel].eager /\ DirectoryThrows
     THEN End(Aborted) /\ UNCHANGED out_
     ELSE out_' = (Logger[rel].eager /\ Opened) /\ GoOn
  /\ UNCHANGED <<job, s, th, serverVars, plugVars, workVars>>

Thresholds(file) ==
  CASE rel = "final" -> FinalRules(file) [] rel = "max" -> MaxRules(file)
    [] rel = "ultra" -> UltraRules(file) [] rel = "apex" -> ApexRules(file)
    [] rel = "current" -> CurrentRules(file)

LoadRules ==
  /\ pc = "rules"
  /\ IF ~RulesGiven THEN th' \in Thresholds(<<>>) /\ GoOn
     ELSE IF ~env.rules.exists THEN End(2) /\ UNCHANGED th
     ELSE LET t == Thresholds(env.rules.lines)
          IN  IF t = {} THEN End(Aborted) /\ UNCHANGED th
              ELSE th' \in t /\ GoOn
  /\ UNCHANGED <<job, s, serverVars, out_, plugVars, workVars>>

(* start() returns before the thread has done anything. *)
StartServer ==
  /\ pc = "server"
  /\ IF s.port > 0 THEN running_' = TRUE /\ th_' = "joinable" /\ srv' = "setup"
     ELSE UNCHANGED serverVars
  /\ GoOn
  /\ UNCHANGED <<job, s, th, out_, plugVars, workVars>>

OpenInput ==
  /\ pc = "open"
  /\ IF s.text["--input"] = "-" \/ env.input.exists THEN GoOn ELSE Leave(1)
  /\ UNCHANGED <<job, s, th, serverVars, out_, plugVars, workVars>>

(* load_plugin on what a path meets: whether it succeeds, and the handles   *)
(* it leaves open, dlopen's less dlclose's.                                 *)
Met(path) == IF path \in DOMAIN env.plugin THEN env.plugin[path] ELSE "nofile"
MaxLoad(met) ==
  CASE met = "nofile"                  -> [ok |-> FALSE, open |-> 0]
    [] met \in {"nosymbol", "refuses"} -> [ok |-> FALSE, open |-> 1 - 1]
    [] met \in Hooks                   -> [ok |-> TRUE, open |-> 1]
UltraLoad(met)   == MaxLoad(met)
ApexLoad(met)    == MaxLoad(met)

(* Mutant: a library that does not register a hook is not closed again. *)
CurrentLoadLeaky(met) ==
  IF met = "nofile" THEN [ok |-> FALSE, open |-> 0] ELSE [ok |-> met \in Hooks, open |-> 1]

CurrentLoad(met) == MaxLoad(met)
load_plugin(met) ==
  CASE rel = "max" -> MaxLoad(met) [] rel = "ultra" -> UltraLoad(met)
    [] rel = "apex" -> ApexLoad(met) [] rel = "current" -> CurrentLoad(met)

(* The plugins that main keeps. *)
Kept == {i \in DOMAIN loads : load_plugin(loads[i]).ok}

(* load_plugin, and the message about it. *)
LoadPlugin ==
  /\ pc = "plugins"
  /\ Len(loads) < Len(s.plugins)
  /\ LET met == Met(s.plugins[Len(loads) + 1])
     IN  /\ loads' = Append(loads, met)
         /\ open' = open + load_plugin(met).open
  /\ Log(Stay)
  /\ UNCHANGED <<job, s, th, serverVars, workVars>>

StartWork ==
  /\ pc = "plugins"
  /\ Len(loads) = Len(s.plugins)
  /\ GoOn
  /\ UNCHANGED <<job, s, th, serverVars, out_, plugVars, workVars>>

-----------------------------------------------------------------------------
IsHeader(line) == Len(line) = 1 /\ line[1][1] = "str" /\ line[1][2] \in Words
Dropped(n) == Csv /\ n = 1 /\ IsHeader(Input[1])

CsvLine(line) ==
  CASE rel = "final" -> FinalCsv(line) [] rel = "max" -> MaxCsv(line)
    [] rel = "ultra" -> UltraCsv(line) [] rel = "apex" -> ApexCsv(line)
    [] rel = "current" -> CurrentCsv(line)
NdjsonLine(line) ==
  CASE rel = "max" -> MaxNdjson(line) [] rel = "ultra" -> UltraNdjson(line)
    [] rel = "apex" -> ApexNdjson(line) [] rel = "current" -> CurrentNdjson(line)

(* The plugins' hooks, after the detectors. *)
Policy(r) == IF r.dst_port = PolicyPort THEN <<"policy">> ELSE <<>>
Hooked(r) ==
  FoldStrictly(LAMBDA out, met : IF met = "policy" THEN out \o Policy(r) ELSE out, <<>>, loads)

(* What becomes of a record that was added to the window w: the types of    *)
(* the findings, in order.                                                  *)
FinalFindings(w, r)   == FinalDetect(w, r, th)
MaxFindings(w, r)     == MaxDetect(w, r, th) \o Hooked(r)
UltraFindings(w, r)   == UltraDetect(w, r, th) \o Hooked(r)
ApexFindings(w, r)    == ApexDetect(w, r, th) \o Hooked(r)
CurrentFindings(w, r) == CurrentDetect(w, r, th) \o Hooked(r)
Findings(w, r) ==
  CASE rel = "final" -> FinalFindings(w, r) [] rel = "max" -> MaxFindings(w, r)
    [] rel = "ultra" -> UltraFindings(w, r) [] rel = "apex" -> ApexFindings(w, r)
    [] rel = "current" -> CurrentFindings(w, r)

Judge(opt) ==
  /\ last' = opt
  /\ IF opt = {} THEN UNCHANGED <<judged, win, written>>
     ELSE \E r \in opt :
            /\ judged' = Append(judged, r)
            /\ win' = Add(rel, win, r, s.window)
            /\ written' = written \o Findings(win', r)

Work ==
  /\ pc = "work"
  /\ s.threads > 0
  /\ at < Len(Input)
  /\ at' = at + 1
  /\ IF Dropped(at') THEN UNCHANGED <<last, judged, win, written>>
     ELSE Judge(IF Csv THEN CsvLine(Input[at']) ELSE NdjsonLine(Input[at']))
  /\ UNCHANGED <<job, pc, s, th, serverVars, out_, plugVars, code, exit>>

(* With no worker the reader stores what the queue takes, or blocks. *)
Starved == s.threads <= 0 /\ Cardinality({n \in DOMAIN Input : ~Dropped(n)}) > Cap

EndOfInput ==
  /\ pc = "work"
  /\ IF s.threads > 0 THEN at = Len(Input) ELSE ~Starved
  /\ GoOn
  /\ UNCHANGED <<job, s, th, serverVars, out_, plugVars, workVars>>

(* Mutant: the plugins loaded after the first stay open. *)
UnloadFirst ==
  /\ pc = "unload"
  /\ open' = IF open = 0 THEN 0 ELSE open - 1
  /\ GoOn
  /\ UNCHANGED <<job, s, th, serverVars, out_, loads, workVars>>

(* unload_plugin on every plugin in the vector. *)
Unload ==
  /\ pc = "unload"
  /\ open' = open - Cardinality(Kept)
  /\ GoOn
  /\ UNCHANGED <<job, s, th, serverVars, out_, loads, workVars>>

(* Mutants of stop(): the thread is not joined; the flag is left set. *)
StopUnjoined(from, join, Then) ==
  /\ pc = from
  /\ running_' = FALSE /\ UNCHANGED <<th_, srv>>
  /\ Then

StopUnflagged(from, join, Then) ==
  \/ /\ pc = from
     /\ UNCHANGED serverVars
     /\ IF running_ THEN Goto(join) ELSE Then
  \/ /\ pc = join /\ srv = "end"
     /\ th_' = "joined" /\ UNCHANGED <<running_, srv>>
     /\ Then

(* stop(), called at stage from: it returns at once if the flag is down,    *)
(* otherwise it lowers it and joins the thread.                             *)
Stop(from, join, Then) ==
  \/ /\ pc = from
     /\ running_' = FALSE /\ UNCHANGED <<th_, srv>>
     /\ IF running_ THEN Goto(join) ELSE Then
  \/ /\ pc = join /\ srv = "end"
     /\ th_' = "joined" /\ UNCHANGED <<running_, srv>>
     /\ Then

StopServer ==
  /\ Stop("stop", "join", GoOnFrom("stop"))
  /\ UNCHANGED <<job, s, th, out_, plugVars, workVars>>

CountOf(t) == Cardinality({i \in DOMAIN written : written[i] = t})
Reached == \E t \in DOMAIN s.fail_on : CountOf(t) >= s.fail_on[t]

(* Mutant: a reached threshold is a usage error. *)
GateUsage ==
  /\ pc = "gate"
  /\ IF Reached THEN Leave(1) ELSE GoOn
  /\ UNCHANGED <<job, s, th, serverVars, out_, plugVars, workVars>>

(* Only 5.0.0 has the option: fail_on is empty elsewhere. *)
Gate ==
  /\ pc = "gate"
  /\ IF Reached THEN Leave(3) ELSE GoOn
  /\ UNCHANGED <<job, s, th, serverVars, out_, plugVars, workVars>>

(* "Analysis complete." *)
Finish ==
  /\ pc = "finish"
  /\ Log(GoOn)
  /\ UNCHANGED <<job, s, th, serverVars, plugVars, workVars>>

Return ==
  /\ pc = "return"
  /\ Leave(0)
  /\ UNCHANGED <<job, s, th, serverVars, out_, plugVars, workVars>>

(* ~MetricsServer calls stop(), then ~thread terminates the process if the  *)
(* thread was not joined.                                                   *)
Destroy ==
  /\ Stop("destroy", "destroyJoin", End(IF th_' = "joinable" THEN Aborted ELSE code))
  /\ UNCHANGED <<job, s, th, out_, plugVars, workVars>>

-----------------------------------------------------------------------------
(* The server's thread, as long as there is a process. *)
MainIdle == UNCHANGED <<job, s, th, th_, out_, plugVars, workVars>>

Setup ==
  /\ pc # "end" /\ srv = "setup"
  /\ IF env.net = "refused" THEN srv' = "end" /\ running_' = FALSE
     ELSE srv' = "test" /\ UNCHANGED running_
  /\ Stay /\ MainIdle

TestRunning ==
  /\ pc # "end" /\ srv = "test"
  /\ srv' = IF running_ THEN "accept" ELSE "end"
  /\ Stay /\ UNCHANGED running_ /\ MainIdle

(* accept blocks until a client connects, whatever becomes of the flag.     *)
Serve ==
  /\ pc # "end" /\ srv = "accept"
  /\ env.net \in {"polled", "reset"}
  /\ \/ srv' = "test" /\ Stay
     \/ env.net = "reset" /\ End(Killed) /\ UNCHANGED srv
  /\ UNCHANGED running_ /\ MainIdle

Server == Setup \/ TestRunning \/ Serve

-----------------------------------------------------------------------------
(* The other commands.  at is then the lines of one iteration of bench.     *)
Timed(counted) ==
  /\ IF s.iterations > 0 /\ ~env.input.exists THEN End(1) /\ UNCHANGED at
     ELSE End(0) /\ at' = IF s.iterations > 0 THEN counted ELSE 0
  /\ UNCHANGED <<job, s, th, serverVars, out_, plugVars, last, judged, win, written>>

ApexBench ==
  /\ pc = "bench" /\ rel = "apex"
  /\ Timed(Cardinality({n \in DOMAIN Input : ~Dropped(n)}))

(* 5.0.0 takes the first line of a CSV file for a header, whatever it is.   *)
CurrentBench ==
  /\ pc = "bench" /\ rel = "current"
  /\ Timed(IF Csv /\ Input # <<>> THEN Len(Input) - 1 ELSE Len(Input))

Selfcheck ==
  /\ pc = "selfcheck"
  /\ Log(Goto("sample"))
  /\ UNCHANGED <<job, s, th, serverVars, plugVars, workVars>>

(* The sample, less its first line, goes through a window of 10 seconds. *)
SelfcheckSample ==
  /\ pc = "sample"
  /\ LET read(w, line) ==
           IF CurrentCsv(line) = {} THEN w
           ELSE Add(rel, w, CHOOSE r \in CurrentCsv(line) : TRUE, 10)
     IN  win' = IF env.input.exists /\ Input # <<>>
                THEN FoldStrictly(read, win, Tail(Input)) ELSE win
  /\ Log(Goto("passed"))
  /\ UNCHANGED <<job, s, th, serverVars, plugVars, at, last, judged, written>>

SelfcheckPassed ==
  /\ pc = "passed"
  /\ Log(End(0))
  /\ UNCHANGED <<job, s, th, serverVars, plugVars, workVars>>

-----------------------------------------------------------------------------
(* main joins a thread that accept keeps for ever. *)
Unpolled == pc \in {"join", "destroyJoin"} /\ srv = "accept" /\ env.net = "silent"

(* The process is gone, or waits for ever. *)
Still == (pc = "end" \/ (pc = "work" /\ Starved) \/ Unpolled) /\ UNCHANGED vars

Main ==
  \/ Parse \/ MakeLogger \/ LoadRules \/ StartServer \/ OpenInput
  \/ LoadPlugin \/ StartWork \/ Work \/ EndOfInput \/ Unload
  \/ StopServer \/ Gate \/ Finish \/ Return \/ Destroy
  \/ ApexBench \/ CurrentBench \/ Selfcheck \/ SelfcheckSample \/ SelfcheckPassed

Next == Main \/ Server \/ Still

Spec == Init /\ [][Next]_vars

(* The two threads are scheduled, and clients that poll go on polling. *)
FairSpec == Spec /\ WF_vars(Main) /\ WF_vars(Server)

-----------------------------------------------------------------------------
(* Type invariant. *)
TypeOK ==
  /\ rel \in DOMAIN Cli
  /\ pc \in {"argv", "logger", "rules", "server", "open", "plugins", "work", "unload",
             "stop", "join", "gate", "finish", "return", "destroy", "destroyJoin",
             "bench", "selfcheck", "sample", "passed", "end"}
  /\ pc = "end" <=> exit # Running
  /\ exit \in {Running, Aborted, Killed} \cup 0..3
  /\ exit = 2 => RulesGiven /\ th = <<>>
  /\ running_ \in BOOLEAN /\ th_ \in {"none", "joinable", "joined"}
  /\ srv \in {"none", "setup", "test", "accept", "end"}
  /\ th_ = "none" <=> srv = "none"
  /\ code \in {0, 1, 3}
  /\ out_ \in BOOLEAN /\ (out_ => env.logs = "ok")
  /\ open \in 0 .. Cardinality(Kept)
  /\ at \in 0..Len(Input)
  /\ Len(judged) <= at

(* The exit codes of README.md: 1 and 2 say that nothing was analysed, so   *)
(* no finding has been written and no plugin is loaded.                     *)
ErrorsWriteNothing ==
  exit \in {1, 2} => written = <<>> /\ loads = <<>> /\ judged = <<>>

(* 0 and 3 say that the analysis is complete: every line has been read and  *)
(* judged, with the rules that were asked for, and every plugin is closed.  *)
(* (--threads 0 is the exception: nothing is read, and the exit code is 0.) *)
SuccessMeansAnalysed ==
  exit \in {0, 3} /\ th # <<>> =>
    /\ s.threads > 0 => at = Len(Input)
    /\ open = 0
    /\ RulesGiven => env.rules.exists

(* Findings are followed by an abort for two reasons only.  The logger of   *)
(* 5.0.0 opens its file at the first message, which is the last one if no   *)
(* plugin was named; and a server that could not be set up has lowered the  *)
(* flag itself, so that nothing joins its thread.                           *)
AbortsAtLastMessage == rel = "current" /\ env.logs = "nodir" /\ Len(s.plugins) = 0
ServerRefused == rel # "final" /\ s.port > 0 /\ env.net = "refused"
LateAbortExplained ==
  exit = Aborted /\ judged # <<>> => AbortsAtLastMessage \/ ServerRefused

(* The last N given for a type. *)
AskedFor(t) ==
  LET a == job.argv
      specs == {i \in 2 .. Len(a) : /\ a[i - 1] = "--fail-on" /\ a[i] \in DOMAIN FailOnPart
                                    /\ FailOnPart[a[i]][1] = t}
  IN  {Value[FailOnPart[a[i]][2]] : i \in {i \in specs : \A k \in specs : k <= i}}

(* --fail-on decides the exit code: 3 exactly if N findings of the type, N  *)
(* being the last asked for, were written; a type nothing reports has 0,    *)
(* which is what N = 0 asks for.  A run that aborts at its last message had *)
(* passed the gate; when the server was refused, either answer may be lost  *)
(* to an abort.                                                             *)
GateDecides ==
  rel = "current" /\ th # <<>>
    /\ (exit \in {0, 3} \/ (exit = Aborted /\ s.plugins = <<>> /\ ~ServerRefused)) =>
    (exit = 3 <=> \E f \in DOMAIN FailOnPart : \E n \in AskedFor(FailOnPart[f][1]) :
                     CountOf(FailOnPart[f][1]) >= n)

(* An upgrade keeps the meaning of a command line: what 3.0.0 accepts, the  *)
(* later releases accept with the same settings.                            *)
UpgradeKeepsSettings ==
  LET p == Parsed("ultra", job.argv)
  IN  ~Refused(p) => Parsed("apex", job.argv) = p /\ Parsed("current", job.argv) = p

(* A rules file that is an object of keys and numbers, each key once.       *)
Rules == env.rules.lines
Entries == {i \in DOMAIN Rules : i % 4 = 1}
PlainRules ==
  /\ Rules # <<>> /\ Len(Rules) % 4 = 3
  /\ \A i \in DOMAIN Rules : CASE i % 4 = 1 -> IsStr(Rules[i])
                               [] i % 4 = 2 -> Rules[i] = Colon
                               [] i % 4 = 3 -> IsNum(Rules[i])
                               [] OTHER -> Rules[i] = Comma
  /\ \A i, j \in Entries : Rules[i] = Rules[j] => i = j

(* A threshold in force is the one in the file, if that is an int and not  *)
(* negative.  With others releases before 5.0.0 take the default, for a     *)
(* negative one, or do not survive.                                         *)
ThresholdsAsWritten ==
  th # <<>> /\ RulesGiven /\ PlainRules =>
    \A i \in Entries : Rules[i][2] \in DOMAIN th =>
      LET v == Rules[i + 2][2]
          t == th[Rules[i][2]]
      IN  /\ v >= 0 /\ v < IntEnd => t = v
          /\ v >= IntEnd => rel = "current"
          /\ v < 0 /\ rel # "current" => \A default \in Thresholds(<<>>) :
                                            t = default[Rules[i][2]]

(* No threshold is too low to be obeyed: at 1 or less, negative ones        *)
(* included, every record is reported.                                      *)
LowThresholdReportsAll ==
  th # <<>> =>
    /\ th.portscan_attempts <= 1 => CountOf("portscan") = Len(judged)
    /\ th.ddos_unique <= 1 => CountOf("ddos") = Len(judged)

(* An NDJSON line that is an object with each field once, strings and       *)
(* numbers where they belong and no string that is a field's name.          *)
Strings == {"src_ip", "dst_ip", "action", "status", "username"}
Numbers == {"ts", "src_port", "dst_port", "bytes"}
PlainObject(line) ==
  /\ Len(line) % 4 = 3
  /\ \A i \in DOMAIN line :
       CASE i % 4 = 1 -> IsStr(line[i]) /\ line[i][2] \in Strings \cup Numbers
         [] i % 4 = 2 -> line[i] = Colon
         [] i % 4 = 3 -> IF line[i - 2][2] \in Numbers THEN IsNum(line[i])
                         ELSE IsStr(line[i]) /\ line[i][2] \notin Strings \cup Numbers
         [] OTHER -> line[i] = Comma
  /\ \A i, j \in {k \in DOMAIN line : k % 4 = 1} : line[i] = line[j] => i = j

(* A CSV record has the numbers of its line.  For NDJSON, the reader by      *)
(* search makes of a plain object what a parser of JSON would: every field   *)
(* that is there has its value (ports are cut to int), and the line is      *)
(* refused exactly if a required field is missing.  Numbers are taken to    *)
(* fit 64 bits.                                                             *)
CsvExact ==
  at > 0 /\ Csv =>
    \A r \in last :
      /\ r.ts = Input[at][1][2] /\ r.bytes = Input[at][8][2]
      /\ r.src_port = Input[at][4][2] /\ r.dst_port = Input[at][5][2]

NdjsonExact ==
  at > 0 /\ th # <<>> /\ ~Csv /\ PlainObject(Input[at]) =>
    LET line == Input[at]
        here == {i \in DOMAIN line : i % 4 = 1}
        inRange(i) == line[i][2] \in Numbers => Fits(line[i + 2][2], LongEnd)
        is(i) == IF line[i][2] \in {"src_port", "dst_port"}
                 THEN Wrap(line[i + 2][2], IntEnd) ELSE line[i + 2][2]
    IN  (\A i \in here : inRange(i)) =>
          /\ last = {} <=> \E k \in {"ts", "src_ip", "dst_ip", "src_port", "dst_port"} :
                               ~\E i \in here : line[i][2] = k
          /\ \A r \in last, i \in here : r[line[i][2]] = is(i)

ReadersExact == CsvExact /\ NdjsonExact

(* What the window says of the last record is what a recount of the records *)
(* within the span says, on a log in time order; but in 3.0.0 the attackers *)
(* only ever add up.                                                        *)
InOrder == \A i \in 2 .. Len(judged) : judged[i - 1].ts <= judged[i].ts
WindowRecount ==
  judged # <<>> /\ InOrder /\ s.window >= 0 =>
    LET r == Last(judged)
        near == {i \in DOMAIN judged : r.ts - judged[i].ts <= s.window}
        sources == {judged[i].src_ip : i \in {j \in near : judged[j].dst_ip = r.dst_ip}}
        attempts == {i \in near : /\ judged[i].src_ip = r.src_ip
                                  /\ judged[i].dst_ip = r.dst_ip
                                  /\ rel = "current" => judged[i].dst_port = r.dst_port}
    IN  /\ port_attempts(rel, win, r) = Cardinality(attempts)
        /\ IF rel = "ultra" THEN uniq_attackers(win, r) >= Cardinality(sources)
           ELSE uniq_attackers(win, r) = Cardinality(sources)

(* main comes to an end, unless it has no worker and a full queue, or is    *)
(* joining the server's thread and nobody connects.                         *)
EndsUnlessWaiting == <>(pc = "end" \/ (pc = "work" /\ Starved) \/ Unpolled)
=============================================================================
