--------------------------- MODULE ReleasesProofs ---------------------------
(***************************************************************************)
(* What an exit code says of the work done, what becomes of the plugins,   *)
(* and what may abort an analysis: for every release, any command lines,   *)
(* environments, inputs, rules and bounds.                                 *)
(***************************************************************************)
EXTENDS Releases, FiniteSetTheorems, TLAPS

(* The places of main before the rules are loaded, and before plugins are. *)
Others  == {"bench", "selfcheck", "sample", "passed"}
Unruled == {"argv", "logger", "rules"} \cup Others
Early   == Unruled \cup {"server", "open"}
Closed  == {"stop", "join", "gate", "finish", "return"}
Working == {"plugins", "work", "unload"} \cup Closed
Exiting == {"destroy", "destroyJoin"}

Places ==
  /\ job \in Jobs
  /\ loads \in Seq({"nofile"} \cup Libraries)
  /\ pc \in Early \cup Working \cup Exiting \cup {"end"}
  /\ pc # "end" => exit = Running
  /\ rel = "final" =>
       pc \notin {"server", "plugins", "unload", "stop", "join", "gate"} \cup Exiting

(* Nothing is written or loaded before the rules are there. *)
Untouched ==
  /\ pc \in Unruled => th = <<>>
  /\ pc \in Early => loads = <<>>
  /\ pc \in Early \cup {"plugins"} => judged = <<>> /\ written = <<>>
  /\ rel = "final" => loads = <<>>

(* A run of analyze that got past a stage did what the stage is for. *)
Passed ==
  /\ pc \in {"server", "open"} \cup Working /\ th # <<>> /\ RulesGiven =>
       env.rules.exists
  /\ pc \in {"unload"} \cup Closed /\ th # <<>> /\ s.threads > 0 =>
       at = Len(Input)

(* The handles are those of the plugins that were kept, until they go. *)
Handles ==
  /\ pc \in Early \cup {"plugins", "work", "unload"} /\ rel # "final" =>
       open = Cardinality(Kept)
  /\ pc \in Closed \cup Exiting \/ rel = "final" => open = 0

(* Without a directory 5.0.0 does not survive a message. *)
NoMessageYet ==
  rel = "current" /\ env.logs = "nodir" =>
    /\ ~out_
    /\ pc # "end" => loads = <<>>
    /\ pc \in {"work", "unload", "stop", "join", "gate", "finish"} => Len(s.plugins) = 0

(* The server's thread has a std::thread, which nobody joins if the flag    *)
(* went down before main lowered it.                                        *)
Served ==
  /\ running_ \in BOOLEAN /\ th_ \in {"none", "joinable", "joined"}
  /\ srv \in {"none", "setup", "test", "accept", "end"}
  /\ th_ = "none" <=> srv = "none"
  /\ pc \in Unruled \cup {"server"} => th_ = "none"
  /\ th_ = "none" => ~running_
  /\ th_ # "none" => rel # "final" /\ s.port > 0
  /\ th_ = "joinable" /\ ~running_ =>
       env.net = "refused" \/ pc \in {"join", "destroyJoin", "end"}

(* The value that main is about to return says what the exit code will.     *)
Leaving ==
  pc \in Exiting =>
    /\ code \in {0, 1, 3}
    /\ code = 1 => loads = <<>> /\ judged = <<>> /\ written = <<>>
    /\ code # 1 /\ th # <<>> /\ s.threads > 0 => at = Len(Input)
    /\ th # <<>> /\ RulesGiven => code = 1 \/ env.rules.exists

IInv ==
  /\ Places /\ Untouched /\ Passed /\ Handles /\ NoMessageYet /\ Served /\ Leaving
  /\ ErrorsWriteNothing /\ SuccessMeansAnalysed /\ LateAbortExplained

-----------------------------------------------------------------------------
LEMMA ReleasesAre == Releases = {"final", "max", "ultra", "apex", "current"}
BY DEF Releases, Cli

(* The stages of main follow each other. *)
LEMMA StageOrder ==
  ASSUME rel \in Releases, GoOn, pc # "return"
  PROVE  /\ exit' = exit /\ code' = code
         /\ pc \in {"logger", "rules", "server", "open", "plugins", "work", "unload",
                    "stop", "gate", "finish"}
         /\ pc = "logger" => pc' = "rules"
         /\ pc = "rules" => pc' = IF rel = "final" THEN "open" ELSE "server"
         /\ pc = "server" => pc' = "open"
         /\ pc = "open" => pc' = IF rel = "final" THEN "work" ELSE "plugins"
         /\ pc = "plugins" => pc' = "work"
         /\ pc = "work" => pc' = IF rel = "final" THEN "finish" ELSE "unload"
         /\ pc = "unload" => pc' = "stop"
         /\ pc = "stop" => pc' = IF rel = "current" THEN "gate" ELSE "finish"
         /\ pc = "gate" => pc' = "finish"
         /\ pc = "finish" => pc' = "return"
<1>1. CASE rel = "final"
  <2>1. Stages[rel] = FinalStages
    BY <1>1 DEF Stages
  <2> QED
    BY <1>1, <2>1 DEF GoOn, GoOnFrom, Goto, FinalStages
<1>2. CASE rel \in {"max", "ultra", "apex"}
  <2>1. Stages[rel] = MaxStages
    BY <1>2 DEF Stages, UltraStages, ApexStages
  <2> QED
    BY <1>2, <2>1 DEF GoOn, GoOnFrom, Goto, MaxStages
<1>3. CASE rel = "current"
  <2>1. Stages[rel] = CurrentStages
    BY <1>3 DEF Stages
  <2> QED
    BY <1>3, <2>1 DEF GoOn, GoOnFrom, Goto, CurrentStages
<1> QED
  BY <1>1, <1>2, <1>3, ReleasesAre

LEMMA StopOrder ==
  ASSUME rel \in Releases, GoOnFrom("stop")
  PROVE  exit' = exit /\ code' = code /\ pc' = IF rel = "current" THEN "gate" ELSE "finish"
<1>1. CASE rel = "final"
  <2>1. Stages[rel] = FinalStages
    BY <1>1 DEF Stages
  <2> QED
    BY <1>1, <2>1 DEF GoOnFrom, FinalStages
<1>2. CASE rel \in {"max", "ultra", "apex"}
  <2>1. Stages[rel] = MaxStages
    BY <1>2 DEF Stages, UltraStages, ApexStages
  <2> QED
    BY <1>2, <2>1 DEF GoOnFrom, Goto, MaxStages
<1>3. CASE rel = "current"
  <2>1. Stages[rel] = CurrentStages
    BY <1>3 DEF Stages
  <2> QED
    BY <1>3, <2>1 DEF GoOnFrom, Goto, CurrentStages
<1> QED
  BY <1>1, <1>2, <1>3, ReleasesAre

(* A command line that is not refused names a command of the release. *)
LEMMA CommandsAre ==
  ASSUME rel \in Releases, ~Refused(Parsed(rel, job.argv)), job.argv[1] # "analyze"
  PROVE  job.argv[1] \in {"bench", "selfcheck"} /\ rel # "final"
<1>1. \A n : Refused(Exit(n))
  BY DEF Refused, Exit
<1>2. job.argv # <<>> /\ ~Asks(job.argv[1]) /\ job.argv[1] \in Commands[rel]
  BY <1>1 DEF Parsed
<1>3. job.argv[1] \in {"version", "selfcheck", "bench"} /\ rel # "final"
  BY <1>2, ReleasesAre DEF Commands
<1>4. job.argv[1] # "version"
  BY <1>1, <1>2 DEF Parsed
<1> QED
  BY <1>3, <1>4

(* What a loaded library leaves open. *)
LEMMA LoadLeaves ==
  ASSUME rel \in Releases, rel # "final", NEW met \in {"nofile"} \cup Libraries
  PROVE  load_plugin(met).open = IF load_plugin(met).ok THEN 1 ELSE 0
BY ReleasesAre DEF load_plugin, MaxLoad, UltraLoad, ApexLoad, CurrentLoad, Libraries, Hooks

LEMMA JobFacts ==
  ASSUME Places
  PROVE  /\ rel \in Releases
         /\ \A path : Met(path) \in {"nofile"} \cup Libraries
BY JobsAssumption DEF Places, rel, env, Met

-----------------------------------------------------------------------------
LEMMA InitInv == Init => IInv
<1> SUFFICES ASSUME Init PROVE IInv
  OBVIOUS
<1>1. Places /\ Untouched /\ Passed
  BY JobsAssumption DEF Init, Places, Untouched, Passed, Early, Unruled, Others, Working,
     Closed, Exiting
<1>5. Served /\ Leaving
  BY DEF Init, Served, Leaving, Exiting
<1>2. Kept = {} /\ Cardinality({}) = 0
  BY FS_EmptySet DEF Init, Kept
<1>3. Handles /\ NoMessageYet
  BY <1>2 DEF Init, Handles, NoMessageYet, Early, Unruled, Others, Working, Closed, Exiting
<1>4. ErrorsWriteNothing /\ SuccessMeansAnalysed /\ LateAbortExplained
  BY DEF Init, ErrorsWriteNothing, SuccessMeansAnalysed, LateAbortExplained, Running,
     Aborted
<1> QED
  BY <1>1, <1>3, <1>4, <1>5 DEF IInv

(* What stays with the job. *)
LEMMA Steady ==
  ASSUME job' = job
  PROVE  /\ rel' = rel /\ env' = env /\ Input' = Input
         /\ loads' = loads => Kept' = Kept
         /\ s' = s => RulesGiven' = RulesGiven
BY DEF RulesGiven, rel, env, Input, Kept, load_plugin

(* The plugins main keeps are finitely many. *)
LEMMA KeptFinite ==
  ASSUME Places
  PROVE  /\ IsFiniteSet(Kept) /\ Cardinality(Kept) \in Nat
         /\ loads = <<>> => Cardinality(Kept) = 0
<1>1. Kept \subseteq 1 .. Len(loads) /\ Len(loads) \in Nat
  BY DEF Kept, Places
<1>2. IsFiniteSet(Kept)
  <2>1. IsFiniteSet(1 .. Len(loads))
    BY <1>1, FS_Interval
  <2> QED
    BY <1>1, <2>1, FS_Subset
<1>3. loads = <<>> => Kept = {}
  BY DEF Kept
<1> QED
  BY <1>2, <1>3, FS_CardinalityType, FS_EmptySet

(* Only the logger of 5.0.0 waits for the first message. *)
LEMMA LoggerIs ==
  ASSUME rel \in Releases
  PROVE  Logger[rel].eager <=> rel # "current"
BY ReleasesAre DEF Logger, FinalLogger, MaxLogger, UltraLogger, ApexLogger,
   CurrentLogger

(* A message is written, or the process is gone: Log, without what follows. *)
Message ==
  \/ /\ rel = "current" /\ env.logs = "nodir" /\ ~out_
     /\ End(Aborted) /\ UNCHANGED out_
  \/ /\ ~(rel = "current" /\ env.logs = "nodir" /\ ~out_)
     /\ out_' = (out_ \/ Opened)

-----------------------------------------------------------------------------
(* The steps of main: what each leaves alone (a), where it is and where it  *)
(* goes (b), and then the parts of the invariant.                           *)

LEMMA ParseIInv == ASSUME IInv, Parse PROVE IInv'
<1> USE JobFacts DEF IInv, Early, Unruled, Others, Working, Closed, Exiting
<1>a. UNCHANGED <<running_, th_, srv, job, th, out_, loads, open, at, judged, written>>
  BY DEF Parse, serverVars, plugVars, workVars
<1>b. /\ pc = "argv"
      /\ \/ pc' = "end"
         \/ pc' = "logger" /\ exit' = exit
         \/ pc' \in {"bench", "selfcheck"} /\ rel # "final" /\ exit' = exit
  BY CommandsAre DEF Parse, Goto, End
<1>s. rel' = rel /\ env' = env /\ Input' = Input /\ Kept' = Kept
  BY <1>a, Steady
<1>1. Places'
  BY <1>s, <1>a, <1>b DEF Places, Running
<1>2. Untouched'
  BY <1>s, <1>a, <1>b DEF Untouched
<1>3. Passed'
  BY <1>s, <1>a, <1>b DEF Passed
<1>4. Handles'
  BY <1>s, <1>a, <1>b DEF Handles
<1>5. NoMessageYet'
  BY <1>s, <1>a, <1>b DEF NoMessageYet
<1>6. Served'
  BY <1>s, <1>a, <1>b DEF Served
<1>l. Leaving'
  BY <1>s, <1>a, <1>b DEF Leaving
<1>7. ErrorsWriteNothing'
  BY <1>s, <1>a, <1>b, <1>1 DEF ErrorsWriteNothing, Untouched, Running, Aborted, Places
<1>8. SuccessMeansAnalysed'
  BY <1>s, <1>a, <1>b, <1>1 DEF SuccessMeansAnalysed, Untouched, Passed, Handles,
     Running, Aborted, Places
<1>9. LateAbortExplained'
  BY <1>s, <1>a, <1>b, <1>1 DEF LateAbortExplained, AbortsAtLastMessage, ServerRefused,
     Untouched, NoMessageYet, Running, Aborted, Places
<1> QED
  BY <1>1, <1>2, <1>3, <1>4, <1>5, <1>6, <1>l, <1>7, <1>8, <1>9 DEF IInv

LEMMA MakeLoggerIInv == ASSUME IInv, MakeLogger PROVE IInv'
<1> USE JobFacts DEF IInv, Early, Unruled, Others, Working, Closed, Exiting
<1>a. UNCHANGED <<running_, th_, srv, job, s, th, loads, open, at, judged, written>>
  BY DEF MakeLogger, serverVars, plugVars, workVars
<1>b. /\ pc = "logger"
      /\ \/ pc' = "end" /\ exit' = Aborted /\ out_' = out_
         \/ pc' = "rules" /\ exit' = exit /\ (rel = "current" => ~out_')
  BY StageOrder, LoggerIs DEF MakeLogger, End
<1>s. rel' = rel /\ env' = env /\ Input' = Input /\ Kept' = Kept /\ RulesGiven' = RulesGiven
  BY <1>a, Steady
<1>1. Places'
  BY <1>s, <1>a, <1>b DEF Places, Running
<1>2. Untouched'
  BY <1>s, <1>a, <1>b DEF Untouched
<1>3. Passed'
  BY <1>s, <1>a, <1>b DEF Passed
<1>4. Handles'
  BY <1>s, <1>a, <1>b DEF Handles
<1>5. NoMessageYet'
  BY <1>s, <1>a, <1>b DEF NoMessageYet
<1>6. Served'
  BY <1>s, <1>a, <1>b DEF Served
<1>l. Leaving'
  BY <1>s, <1>a, <1>b DEF Leaving
<1>7. ErrorsWriteNothing'
  BY <1>s, <1>a, <1>b, <1>1 DEF ErrorsWriteNothing, Untouched, Running, Aborted, Places
<1>8. SuccessMeansAnalysed'
  BY <1>s, <1>a, <1>b, <1>1 DEF SuccessMeansAnalysed, Untouched, Passed, Handles,
     Running, Aborted, Places
<1>9. LateAbortExplained'
  BY <1>s, <1>a, <1>b, <1>1 DEF LateAbortExplained, AbortsAtLastMessage, ServerRefused,
     Untouched, NoMessageYet, Running, Aborted, Places
<1> QED
  BY <1>1, <1>2, <1>3, <1>4, <1>5, <1>6, <1>l, <1>7, <1>8, <1>9 DEF IInv

LEMMA LoadRulesIInv == ASSUME IInv, LoadRules PROVE IInv'
<1> USE JobFacts DEF IInv, Early, Unruled, Others, Working, Closed, Exiting
<1>a. UNCHANGED <<running_, th_, srv, job, s, out_, loads, open, at, judged, written>>
  BY DEF LoadRules, serverVars, plugVars, workVars
<1>b. /\ pc = "rules"
      /\ \/ pc' = "end" /\ exit' \in {2, Aborted} /\ th' = th
         \/ /\ pc' = IF rel = "final" THEN "open" ELSE "server"
            /\ exit' = exit
            /\ RulesGiven => env.rules.exists
  BY StageOrder DEF LoadRules, End
<1>s. rel' = rel /\ env' = env /\ Input' = Input /\ Kept' = Kept /\ RulesGiven' = RulesGiven
  BY <1>a, Steady
<1>1. Places'
  BY <1>s, <1>a, <1>b DEF Places, Running
<1>2. Untouched'
  BY <1>s, <1>a, <1>b DEF Untouched
<1>3. Passed'
  BY <1>s, <1>a, <1>b DEF Passed
<1>4. Handles'
  BY <1>s, <1>a, <1>b DEF Handles
<1>5. NoMessageYet'
  BY <1>s, <1>a, <1>b DEF NoMessageYet
<1>6. Served'
  BY <1>s, <1>a, <1>b DEF Served
<1>l. Leaving'
  BY <1>s, <1>a, <1>b DEF Leaving
<1>7. ErrorsWriteNothing'
  BY <1>s, <1>a, <1>b, <1>1 DEF ErrorsWriteNothing, Untouched, Running, Aborted, Places
<1>8. SuccessMeansAnalysed'
  <2>1. exit' \in {2, Aborted, Running}
    BY <1>b DEF Places
  <2>2. exit' \notin {0, 3}
    BY <2>1 DEF Running, Aborted
  <2> QED
    BY <2>2 DEF SuccessMeansAnalysed
<1>9. LateAbortExplained'
  BY <1>s, <1>a, <1>b, <1>1 DEF LateAbortExplained, AbortsAtLastMessage, ServerRefused,
     Untouched, NoMessageYet, Running, Aborted, Places
<1> QED
  BY <1>1, <1>2, <1>3, <1>4, <1>5, <1>6, <1>l, <1>7, <1>8, <1>9 DEF IInv

LEMMA StartServerIInv == ASSUME IInv, StartServer PROVE IInv'
<1> USE JobFacts DEF IInv, Early, Unruled, Others, Working, Closed, Exiting
<1>a. UNCHANGED <<job, s, th, out_, loads, open, at, judged, written>>
  BY DEF StartServer, serverVars, plugVars, workVars
<1>b. pc = "server" /\ pc' = "open" /\ exit' = exit /\ code' = code
  BY StageOrder DEF StartServer
<1>c. \/ UNCHANGED <<running_, th_, srv>>
      \/ s.port > 0 /\ running_' = TRUE /\ th_' = "joinable" /\ srv' = "setup"
  BY DEF StartServer, serverVars
<1>s. rel' = rel /\ env' = env /\ Input' = Input /\ Kept' = Kept /\ RulesGiven' = RulesGiven
  BY <1>a, Steady
<1>1. Places'
  BY <1>s, <1>a, <1>b DEF Places, Running
<1>2. Untouched'
  BY <1>s, <1>a, <1>b DEF Untouched
<1>3. Passed'
  BY <1>s, <1>a, <1>b DEF Passed
<1>4. Handles'
  BY <1>s, <1>a, <1>b DEF Handles
<1>5. NoMessageYet'
  BY <1>s, <1>a, <1>b DEF NoMessageYet
<1>6. Served'
  <2>1. rel' # "final" /\ th_ = "none" /\ srv = "none" /\ ~running_ /\ running_ \in BOOLEAN
    BY <1>s, <1>b DEF Served, Places
  <2>2. CASE UNCHANGED <<running_, th_, srv>>
    BY <1>b, <2>1, <2>2 DEF Served
  <2>3. CASE s.port > 0 /\ running_' = TRUE /\ th_' = "joinable" /\ srv' = "setup"
    BY <1>a, <1>b, <2>1, <2>3 DEF Served
  <2> QED
    BY <1>c, <2>2, <2>3
<1>l. Leaving'
  BY <1>s, <1>a, <1>b DEF Leaving
<1>7. ErrorsWriteNothing'
  BY <1>s, <1>a, <1>b, <1>1 DEF ErrorsWriteNothing, Untouched, Running, Aborted, Places
<1>8. SuccessMeansAnalysed'
  BY <1>s, <1>a, <1>b, <1>1 DEF SuccessMeansAnalysed, Untouched, Passed, Handles,
     Running, Aborted, Places
<1>9. LateAbortExplained'
  BY <1>s, <1>a, <1>b, <1>1 DEF LateAbortExplained, AbortsAtLastMessage, ServerRefused,
     Untouched, NoMessageYet, Running, Aborted, Places
<1> QED
  BY <1>1, <1>2, <1>3, <1>4, <1>5, <1>6, <1>l, <1>7, <1>8, <1>9 DEF IInv

LEMMA OpenInputIInv == ASSUME IInv, OpenInput PROVE IInv'
<1> USE JobFacts DEF IInv, Early, Unruled, Others, Working, Closed, Exiting
<1>a. UNCHANGED <<running_, th_, srv, job, s, th, out_, loads, open, at, judged, written>>
  BY DEF OpenInput, serverVars, plugVars, workVars
<1>b. /\ pc = "open"
      /\ \/ rel = "final" /\ pc' = "end" /\ exit' = 1
         \/ rel # "final" /\ pc' = "destroy" /\ code' = 1 /\ exit' = exit
         \/ pc' = (IF rel = "final" THEN "work" ELSE "plugins") /\ exit' = exit
  BY StageOrder DEF OpenInput, Leave, End
<1>s. rel' = rel /\ env' = env /\ Input' = Input /\ Kept' = Kept /\ RulesGiven' = RulesGiven
  BY <1>a, Steady
<1>1. Places'
  BY <1>s, <1>a, <1>b DEF Places, Running
<1>2. Untouched'
  BY <1>s, <1>a, <1>b DEF Untouched
<1>3. Passed'
  BY <1>s, <1>a, <1>b DEF Passed
<1>4. Handles'
  BY <1>s, <1>a, <1>b, KeptFinite DEF Handles, Untouched
<1>5. NoMessageYet'
  BY <1>s, <1>a, <1>b DEF NoMessageYet
<1>6. Served'
  BY <1>s, <1>a, <1>b DEF Served
<1>l. Leaving'
  BY <1>s, <1>a, <1>b DEF Leaving, Untouched
<1>7. ErrorsWriteNothing'
  BY <1>s, <1>a, <1>b, <1>1 DEF ErrorsWriteNothing, Untouched, Running, Aborted, Places
<1>8. SuccessMeansAnalysed'
  <2>1. exit' \notin {0, 3} \/ th' = <<>>
    BY <1>s, <1>a, <1>b, <1>1 DEF Places, Untouched, Running, Aborted
  <2> QED
    BY <2>1 DEF SuccessMeansAnalysed
<1>9. LateAbortExplained'
  BY <1>s, <1>a, <1>b, <1>1 DEF LateAbortExplained, AbortsAtLastMessage, ServerRefused,
     Untouched, NoMessageYet, Running, Aborted, Places
<1> QED
  BY <1>1, <1>2, <1>3, <1>4, <1>5, <1>6, <1>l, <1>7, <1>8, <1>9 DEF IInv

LEMMA StartWorkIInv == ASSUME IInv, StartWork PROVE IInv'
<1> USE JobFacts DEF IInv, Early, Unruled, Others, Working, Closed, Exiting
<1>a. UNCHANGED <<running_, th_, srv, job, s, th, out_, loads, open, at, judged, written>>
  BY DEF StartWork, serverVars, plugVars, workVars
<1>b. pc = "plugins" /\ pc' = "work" /\ exit' = exit /\ Len(loads) = Len(s.plugins)
  BY StageOrder DEF StartWork
<1>s. rel' = rel /\ env' = env /\ Input' = Input /\ Kept' = Kept /\ RulesGiven' = RulesGiven
  BY <1>a, Steady
<1>1. Places'
  BY <1>s, <1>a, <1>b DEF Places, Running
<1>2. Untouched'
  BY <1>s, <1>a, <1>b DEF Untouched
<1>3. Passed'
  BY <1>s, <1>a, <1>b DEF Passed
<1>4. Handles'
  BY <1>s, <1>a, <1>b DEF Handles
<1>5. NoMessageYet'
  BY <1>s, <1>a, <1>b DEF NoMessageYet
<1>6. Served'
  BY <1>s, <1>a, <1>b DEF Served
<1>l. Leaving'
  BY <1>s, <1>a, <1>b DEF Leaving
<1>7. ErrorsWriteNothing'
  BY <1>s, <1>a, <1>b, <1>1 DEF ErrorsWriteNothing, Untouched, Running, Aborted, Places
<1>8. SuccessMeansAnalysed'
  BY <1>s, <1>a, <1>b, <1>1 DEF SuccessMeansAnalysed, Untouched, Passed, Handles,
     Running, Aborted, Places
<1>9. LateAbortExplained'
  BY <1>s, <1>a, <1>b, <1>1 DEF LateAbortExplained, AbortsAtLastMessage, ServerRefused,
     Untouched, NoMessageYet, Running, Aborted, Places
<1> QED
  BY <1>1, <1>2, <1>3, <1>4, <1>5, <1>6, <1>l, <1>7, <1>8, <1>9 DEF IInv

LEMMA WorkIInv == ASSUME IInv, Work PROVE IInv'
<1> USE JobFacts DEF IInv, Early, Unruled, Others, Working, Closed, Exiting
<1>a. UNCHANGED <<running_, th_, srv, job, s, th, out_, loads, open>>
  BY DEF Work, serverVars, plugVars
<1>b. pc = "work" /\ pc' = "work" /\ exit' = exit
  BY DEF Work
<1>s. rel' = rel /\ env' = env /\ Input' = Input /\ Kept' = Kept /\ RulesGiven' = RulesGiven
  BY <1>a, Steady
<1>1. Places'
  BY <1>s, <1>a, <1>b DEF Places, Running
<1>2. Untouched'
  BY <1>s, <1>a, <1>b DEF Untouched
<1>3. Passed'
  BY <1>s, <1>a, <1>b DEF Passed
<1>4. Handles'
  BY <1>s, <1>a, <1>b DEF Handles
<1>5. NoMessageYet'
  BY <1>s, <1>a, <1>b DEF NoMessageYet
<1>6. Served'
  BY <1>s, <1>a, <1>b DEF Served
<1>l. Leaving'
  BY <1>s, <1>a, <1>b DEF Leaving
<1>7. ErrorsWriteNothing'
  BY <1>s, <1>a, <1>b, <1>1 DEF ErrorsWriteNothing, Untouched, Running, Aborted, Places
<1>8. SuccessMeansAnalysed'
  <2>1. exit' \notin {0, 3} \/ th' = <<>>
    BY <1>s, <1>a, <1>b, <1>1 DEF Places, Untouched, Running, Aborted
  <2> QED
    BY <2>1 DEF SuccessMeansAnalysed
<1>9. LateAbortExplained'
  BY <1>s, <1>a, <1>b, <1>1 DEF LateAbortExplained, AbortsAtLastMessage, ServerRefused,
     Untouched, NoMessageYet, Running, Aborted, Places
<1> QED
  BY <1>1, <1>2, <1>3, <1>4, <1>5, <1>6, <1>l, <1>7, <1>8, <1>9 DEF IInv

LEMMA EndOfInputIInv == ASSUME IInv, EndOfInput PROVE IInv'
<1> USE JobFacts DEF IInv, Early, Unruled, Others, Working, Closed, Exiting
<1>a. UNCHANGED <<running_, th_, srv, job, s, th, out_, loads, open, at, judged, written>>
  BY DEF EndOfInput, serverVars, plugVars, workVars
<1>b. /\ pc = "work" /\ exit' = exit
      /\ pc' = IF rel = "final" THEN "finish" ELSE "unload"
      /\ s.threads > 0 => at = Len(Input)
  BY StageOrder DEF EndOfInput
<1>s. rel' = rel /\ env' = env /\ Input' = Input /\ Kept' = Kept /\ RulesGiven' = RulesGiven
  BY <1>a, Steady
<1>1. Places'
  BY <1>s, <1>a, <1>b DEF Places, Running
<1>2. Untouched'
  BY <1>s, <1>a, <1>b DEF Untouched
<1>3. Passed'
  BY <1>s, <1>a, <1>b DEF Passed
<1>4. Handles'
  BY <1>s, <1>a, <1>b DEF Handles
<1>5. NoMessageYet'
  BY <1>s, <1>a, <1>b DEF NoMessageYet
<1>6. Served'
  BY <1>s, <1>a, <1>b DEF Served
<1>l. Leaving'
  BY <1>s, <1>a, <1>b DEF Leaving
<1>7. ErrorsWriteNothing'
  BY <1>s, <1>a, <1>b, <1>1 DEF ErrorsWriteNothing, Untouched, Running, Aborted, Places
<1>8. SuccessMeansAnalysed'
  BY <1>s, <1>a, <1>b, <1>1 DEF SuccessMeansAnalysed, Untouched, Passed, Handles,
     Running, Aborted, Places
<1>9. LateAbortExplained'
  BY <1>s, <1>a, <1>b, <1>1 DEF LateAbortExplained, AbortsAtLastMessage, ServerRefused,
     Untouched, NoMessageYet, Running, Aborted, Places
<1> QED
  BY <1>1, <1>2, <1>3, <1>4, <1>5, <1>6, <1>l, <1>7, <1>8, <1>9 DEF IInv

LEMMA UnloadIInv == ASSUME IInv, Unload PROVE IInv'
<1> USE JobFacts DEF IInv, Early, Unruled, Others, Working, Closed, Exiting
<1>a. UNCHANGED <<running_, th_, srv, job, s, th, out_, loads, at, judged, written>>
  BY DEF Unload, serverVars, workVars
<1>b. /\ pc = "unload" /\ exit' = exit /\ open' = open - Cardinality(Kept)
      /\ pc' = "stop"
  BY StageOrder DEF Unload
<1>s. rel' = rel /\ env' = env /\ Input' = Input /\ Kept' = Kept /\ RulesGiven' = RulesGiven
  BY <1>a, Steady
<1>1. Places'
  BY <1>s, <1>a, <1>b DEF Places, Running
<1>2. Untouched'
  BY <1>s, <1>a, <1>b DEF Untouched
<1>3. Passed'
  BY <1>s, <1>a, <1>b DEF Passed
<1>4. Handles'
  <2>1. rel # "final" /\ open = Cardinality(Kept)
    BY <1>b DEF Places, Handles
  <2>2. open' = 0
    BY <1>b, <2>1, KeptFinite
  <2> QED
    BY <1>s, <1>b, <2>1, <2>2 DEF Handles
<1>5. NoMessageYet'
  BY <1>s, <1>a, <1>b DEF NoMessageYet
<1>6. Served'
  BY <1>s, <1>a, <1>b DEF Served
<1>l. Leaving'
  BY <1>s, <1>a, <1>b DEF Leaving
<1>7. ErrorsWriteNothing'
  BY <1>s, <1>a, <1>b, <1>1 DEF ErrorsWriteNothing, Untouched, Running, Aborted, Places
<1>8. SuccessMeansAnalysed'
  <2>1. exit' \notin {0, 3} \/ th' = <<>>
    BY <1>s, <1>a, <1>b, <1>1 DEF Places, Untouched, Running, Aborted
  <2> QED
    BY <2>1 DEF SuccessMeansAnalysed
<1>9. LateAbortExplained'
  BY <1>s, <1>a, <1>b, <1>1 DEF LateAbortExplained, AbortsAtLastMessage, ServerRefused,
     Untouched, NoMessageYet, Running, Aborted, Places
<1> QED
  BY <1>1, <1>2, <1>3, <1>4, <1>5, <1>6, <1>l, <1>7, <1>8, <1>9 DEF IInv

LEMMA StopServerIInv == ASSUME IInv, StopServer PROVE IInv'
<1> USE JobFacts DEF IInv, Early, Unruled, Others, Working, Closed, Exiting
<1>a. UNCHANGED <<job, s, th, out_, loads, open, at, judged, written>>
  BY DEF StopServer, plugVars, workVars
<1>b. /\ pc \in {"stop", "join"} /\ exit' = exit
      /\ pc' \in {"join", IF rel = "current" THEN "gate" ELSE "finish"}
  BY StopOrder DEF StopServer, Stop, Goto
<1>c. \/ /\ pc = "stop" /\ running_' = FALSE /\ UNCHANGED <<th_, srv>>
         /\ running_ => pc' = "join"
      \/ th_' = "joined" /\ srv = "end" /\ UNCHANGED <<running_, srv>>
  BY DEF StopServer, Stop, Goto
<1>s. rel' = rel /\ env' = env /\ Input' = Input /\ Kept' = Kept /\ RulesGiven' = RulesGiven
  BY <1>a, Steady
<1>1. Places'
  BY <1>s, <1>a, <1>b DEF Places, Running
<1>2. Untouched'
  BY <1>s, <1>a, <1>b DEF Untouched
<1>3. Passed'
  BY <1>s, <1>a, <1>b DEF Passed
<1>4. Handles'
  BY <1>s, <1>a, <1>b DEF Handles
<1>5. NoMessageYet'
  BY <1>s, <1>a, <1>b DEF NoMessageYet
<1>6. Served'
  BY <1>s, <1>a, <1>b, <1>c DEF Served
<1>l. Leaving'
  BY <1>s, <1>a, <1>b DEF Leaving, Passed
<1>7. ErrorsWriteNothing'
  BY <1>s, <1>a, <1>b, <1>1 DEF ErrorsWriteNothing, Untouched, Running, Aborted, Places
<1>8. SuccessMeansAnalysed'
  BY <1>s, <1>a, <1>b, <1>1 DEF SuccessMeansAnalysed, Untouched, Passed, Handles,
     Running, Aborted, Places
<1>9. LateAbortExplained'
  BY <1>s, <1>a, <1>b, <1>1 DEF LateAbortExplained, AbortsAtLastMessage, ServerRefused,
     Untouched, NoMessageYet, Running, Aborted, Places
<1> QED
  BY <1>1, <1>2, <1>3, <1>4, <1>5, <1>6, <1>l, <1>7, <1>8, <1>9 DEF IInv

LEMMA GateIInv == ASSUME IInv, Gate PROVE IInv'
<1> USE JobFacts DEF IInv, Early, Unruled, Others, Working, Closed, Exiting
<1>a. UNCHANGED <<running_, th_, srv, job, s, th, out_, loads, open, at, judged, written>>
  BY DEF Gate, serverVars, plugVars, workVars
<1>b. /\ pc = "gate"
      /\ \/ pc' = "destroy" /\ code' = 3 /\ exit' = exit
         \/ pc' = "finish" /\ exit' = exit
  BY StageOrder DEF Gate, Leave, Places
<1>s. rel' = rel /\ env' = env /\ Input' = Input /\ Kept' = Kept /\ RulesGiven' = RulesGiven
  BY <1>a, Steady
<1>1. Places'
  BY <1>s, <1>a, <1>b DEF Places, Running
<1>2. Untouched'
  BY <1>s, <1>a, <1>b DEF Untouched
<1>3. Passed'
  BY <1>s, <1>a, <1>b DEF Passed
<1>4. Handles'
  BY <1>s, <1>a, <1>b DEF Handles
<1>5. NoMessageYet'
  BY <1>s, <1>a, <1>b DEF NoMessageYet
<1>6. Served'
  BY <1>s, <1>a, <1>b DEF Served
<1>l. Leaving'
  BY <1>s, <1>a, <1>b DEF Leaving, Passed
<1>7. ErrorsWriteNothing'
  BY <1>s, <1>a, <1>b, <1>1 DEF ErrorsWriteNothing, Untouched, Running, Aborted, Places
<1>8. SuccessMeansAnalysed'
  BY <1>s, <1>a, <1>b, <1>1 DEF SuccessMeansAnalysed, Untouched, Passed, Handles,
     Running, Aborted, Places
<1>9. LateAbortExplained'
  BY <1>s, <1>a, <1>b, <1>1 DEF LateAbortExplained, AbortsAtLastMessage, ServerRefused,
     Untouched, NoMessageYet, Running, Aborted, Places
<1> QED
  BY <1>1, <1>2, <1>3, <1>4, <1>5, <1>6, <1>l, <1>7, <1>8, <1>9 DEF IInv

LEMMA FinishIInv == ASSUME IInv, Finish PROVE IInv'
<1> USE JobFacts DEF IInv, Early, Unruled, Others, Working, Closed, Exiting
<1>a. UNCHANGED <<running_, th_, srv, job, s, th, loads, open, at, judged, written>>
  BY DEF Finish, serverVars, plugVars, workVars
<1>b. /\ pc = "finish" /\ Message
      /\ \/ pc' = "end" /\ exit' = Aborted /\ rel = "current" /\ env.logs = "nodir"
         \/ pc' = "return" /\ exit' = exit
            /\ ~(rel = "current" /\ env.logs = "nodir" /\ ~out_)
  BY StageOrder, LoggerIs DEF Finish, Log, End, Message, DirectoryThrows
<1>s. rel' = rel /\ env' = env /\ Input' = Input /\ Kept' = Kept /\ RulesGiven' = RulesGiven
  BY <1>a, Steady
<1>1. Places'
  BY <1>s, <1>a, <1>b DEF Places, Running
<1>2. Untouched'
  BY <1>s, <1>a, <1>b DEF Untouched
<1>3. Passed'
  BY <1>s, <1>a, <1>b DEF Passed
<1>4. Handles'
  BY <1>s, <1>a, <1>b DEF Handles
<1>5. NoMessageYet'
  BY <1>s, <1>a, <1>b DEF NoMessageYet, Message
<1>6. Served'
  BY <1>s, <1>a, <1>b DEF Served
<1>l. Leaving'
  BY <1>s, <1>a, <1>b DEF Leaving
<1>7. ErrorsWriteNothing'
  BY <1>s, <1>a, <1>b, <1>1 DEF ErrorsWriteNothing, Untouched, Running, Aborted, Places
<1>8. SuccessMeansAnalysed'
  BY <1>s, <1>a, <1>b, <1>1 DEF SuccessMeansAnalysed, Untouched, Passed, Handles,
     Running, Aborted, Places
<1>9. LateAbortExplained'
  BY <1>s, <1>a, <1>b, <1>1 DEF LateAbortExplained, AbortsAtLastMessage, ServerRefused,
     Untouched, NoMessageYet, Running, Aborted, Places
<1> QED
  BY <1>1, <1>2, <1>3, <1>4, <1>5, <1>6, <1>l, <1>7, <1>8, <1>9 DEF IInv

LEMMA ReturnIInv == ASSUME IInv, Return PROVE IInv'
<1> USE JobFacts DEF IInv, Early, Unruled, Others, Working, Closed, Exiting
<1>a. UNCHANGED <<running_, th_, srv, job, s, th, out_, loads, open, at, judged, written>>
  BY DEF Return, serverVars, plugVars, workVars
<1>b. /\ pc = "return"
      /\ \/ pc' = "end" /\ exit' = 0
         \/ rel # "final" /\ pc' = "destroy" /\ code' = 0 /\ exit' = exit
  BY DEF Return, Leave, End
<1>s. rel' = rel /\ env' = env /\ Input' = Input /\ Kept' = Kept /\ RulesGiven' = RulesGiven
  BY <1>a, Steady
<1>1. Places'
  BY <1>s, <1>a, <1>b DEF Places, Running
<1>2. Untouched'
  BY <1>s, <1>a, <1>b DEF Untouched
<1>3. Passed'
  BY <1>s, <1>a, <1>b DEF Passed
<1>4. Handles'
  BY <1>s, <1>a, <1>b DEF Handles
<1>5. NoMessageYet'
  BY <1>s, <1>a, <1>b DEF NoMessageYet
<1>6. Served'
  BY <1>s, <1>a, <1>b DEF Served
<1>l. Leaving'
  BY <1>s, <1>a, <1>b DEF Leaving, Passed
<1>7. ErrorsWriteNothing'
  BY <1>s, <1>a, <1>b, <1>1 DEF ErrorsWriteNothing, Untouched, Running, Aborted, Places
<1>8. SuccessMeansAnalysed'
  BY <1>s, <1>a, <1>b, <1>1 DEF SuccessMeansAnalysed, Untouched, Passed, Handles,
     Running, Aborted, Places
<1>9. LateAbortExplained'
  BY <1>s, <1>a, <1>b, <1>1 DEF LateAbortExplained, AbortsAtLastMessage, ServerRefused,
     Untouched, NoMessageYet, Running, Aborted, Places
<1> QED
  BY <1>1, <1>2, <1>3, <1>4, <1>5, <1>6, <1>l, <1>7, <1>8, <1>9 DEF IInv

LEMMA DestroyIInv == ASSUME IInv, Destroy PROVE IInv'
<1> USE JobFacts DEF IInv, Early, Unruled, Others, Working, Closed, Exiting
<1>a. UNCHANGED <<job, s, th, out_, loads, open, at, judged, written, code>>
  BY DEF Destroy, Stop, Goto, End, plugVars, workVars
<1>b. /\ pc \in Exiting
      /\ \/ pc' = "destroyJoin" /\ exit' = exit
         \/ pc' = "end" /\ exit' \in {Aborted, code}
  BY DEF Destroy, Stop, Goto, End
<1>c. \/ /\ pc = "destroy" /\ running_' = FALSE /\ UNCHANGED <<th_, srv>>
         /\ running_ => pc' = "destroyJoin"
      \/ th_' = "joined" /\ srv = "end" /\ UNCHANGED <<running_, srv>>
  BY DEF Destroy, Stop, Goto
<1>d. exit' = Aborted => ServerRefused
  <2>1. exit = Running /\ code \in {0, 1, 3}
    BY <1>b DEF Places, Leaving
  <2>2. exit' = Aborted => pc = "destroy" /\ ~running_ /\ th_ = "joinable"
    BY <2>1 DEF Destroy, Stop, Goto, End, Aborted, Running
  <2> QED
    BY <2>2 DEF Served, ServerRefused
<1>s. rel' = rel /\ env' = env /\ Input' = Input /\ Kept' = Kept /\ RulesGiven' = RulesGiven
  BY <1>a, Steady
<1>1. Places'
  BY <1>s, <1>a, <1>b DEF Places, Running
<1>2. Untouched'
  BY <1>s, <1>a, <1>b DEF Untouched
<1>3. Passed'
  BY <1>s, <1>a, <1>b DEF Passed
<1>4. Handles'
  BY <1>s, <1>a, <1>b DEF Handles
<1>5. NoMessageYet'
  BY <1>s, <1>a, <1>b DEF NoMessageYet
<1>6. Served'
  BY <1>s, <1>a, <1>b, <1>c DEF Served
<1>l. Leaving'
  BY <1>s, <1>a, <1>b DEF Leaving
<1>7. ErrorsWriteNothing'
  BY <1>s, <1>a, <1>b, <1>1 DEF Leaving, ErrorsWriteNothing, Untouched, Running, Aborted, Places
<1>8. SuccessMeansAnalysed'
  BY <1>s, <1>a, <1>b, <1>1 DEF Leaving, SuccessMeansAnalysed, Untouched, Passed, Handles,
     Running, Aborted, Places
<1>9. LateAbortExplained'
  BY <1>s, <1>a, <1>b, <1>d, <1>1 DEF LateAbortExplained, ServerRefused
<1> QED
  BY <1>1, <1>2, <1>3, <1>4, <1>5, <1>6, <1>l, <1>7, <1>8, <1>9 DEF IInv

LEMMA ApexBenchIInv == ASSUME IInv, ApexBench PROVE IInv'
<1> USE JobFacts DEF IInv, Early, Unruled, Others, Working, Closed, Exiting
<1>a. UNCHANGED <<running_, th_, srv, job, s, th, out_, loads, open, judged, written>>
  BY DEF ApexBench, Timed, serverVars, plugVars
<1>b. pc = "bench" /\ pc' = "end"
  BY DEF ApexBench, Timed, End
<1>s. rel' = rel /\ env' = env /\ Input' = Input /\ Kept' = Kept /\ RulesGiven' = RulesGiven
  BY <1>a, Steady
<1>1. Places'
  BY <1>s, <1>a, <1>b DEF Places, Running
<1>2. Untouched'
  BY <1>s, <1>a, <1>b DEF Untouched
<1>3. Passed'
  BY <1>s, <1>a, <1>b DEF Passed
<1>4. Handles'
  BY <1>s, <1>a, <1>b DEF Handles
<1>5. NoMessageYet'
  BY <1>s, <1>a, <1>b DEF NoMessageYet
<1>6. Served'
  BY <1>s, <1>a, <1>b DEF Served
<1>l. Leaving'
  BY <1>s, <1>a, <1>b DEF Leaving
<1>7. ErrorsWriteNothing'
  BY <1>s, <1>a, <1>b, <1>1 DEF ErrorsWriteNothing, Untouched, Running, Aborted, Places
<1>8. SuccessMeansAnalysed'
  BY <1>s, <1>a, <1>b, <1>1 DEF SuccessMeansAnalysed, Untouched, Passed, Handles,
     Running, Aborted, Places
<1>9. LateAbortExplained'
  BY <1>s, <1>a, <1>b, <1>1 DEF LateAbortExplained, AbortsAtLastMessage, ServerRefused,
     Untouched, NoMessageYet, Running, Aborted, Places
<1> QED
  BY <1>1, <1>2, <1>3, <1>4, <1>5, <1>6, <1>l, <1>7, <1>8, <1>9 DEF IInv

LEMMA CurrentBenchIInv == ASSUME IInv, CurrentBench PROVE IInv'
<1> USE JobFacts DEF IInv, Early, Unruled, Others, Working, Closed, Exiting
<1>a. UNCHANGED <<running_, th_, srv, job, s, th, out_, loads, open, judged, written>>
  BY DEF CurrentBench, Timed, serverVars, plugVars
<1>b. pc = "bench" /\ pc' = "end"
  BY DEF CurrentBench, Timed, End
<1>s. rel' = rel /\ env' = env /\ Input' = Input /\ Kept' = Kept /\ RulesGiven' = RulesGiven
  BY <1>a, Steady
<1>1. Places'
  BY <1>s, <1>a, <1>b DEF Places, Running
<1>2. Untouched'
  BY <1>s, <1>a, <1>b DEF Untouched
<1>3. Passed'
  BY <1>s, <1>a, <1>b DEF Passed
<1>4. Handles'
  BY <1>s, <1>a, <1>b DEF Handles
<1>5. NoMessageYet'
  BY <1>s, <1>a, <1>b DEF NoMessageYet
<1>6. Served'
  BY <1>s, <1>a, <1>b DEF Served
<1>l. Leaving'
  BY <1>s, <1>a, <1>b DEF Leaving
<1>7. ErrorsWriteNothing'
  BY <1>s, <1>a, <1>b, <1>1 DEF ErrorsWriteNothing, Untouched, Running, Aborted, Places
<1>8. SuccessMeansAnalysed'
  BY <1>s, <1>a, <1>b, <1>1 DEF SuccessMeansAnalysed, Untouched, Passed, Handles,
     Running, Aborted, Places
<1>9. LateAbortExplained'
  BY <1>s, <1>a, <1>b, <1>1 DEF LateAbortExplained, AbortsAtLastMessage, ServerRefused,
     Untouched, NoMessageYet, Running, Aborted, Places
<1> QED
  BY <1>1, <1>2, <1>3, <1>4, <1>5, <1>6, <1>l, <1>7, <1>8, <1>9 DEF IInv

LEMMA SelfcheckIInv == ASSUME IInv, Selfcheck PROVE IInv'
<1> USE JobFacts DEF IInv, Early, Unruled, Others, Working, Closed, Exiting
<1>a. UNCHANGED <<running_, th_, srv, job, s, th, loads, open, at, judged, written>>
  BY DEF Selfcheck, serverVars, plugVars, workVars
<1>b. /\ pc = "selfcheck" /\ Message
      /\ \/ pc' = "end" /\ exit' = Aborted
         \/ pc' = "sample" /\ exit' = exit
            /\ ~(rel = "current" /\ env.logs = "nodir" /\ ~out_)
  BY LoggerIs DEF Selfcheck, Log, Goto, End, Message, DirectoryThrows
<1>s. rel' = rel /\ env' = env /\ Input' = Input /\ Kept' = Kept /\ RulesGiven' = RulesGiven
  BY <1>a, Steady
<1>1. Places'
  BY <1>s, <1>a, <1>b DEF Places, Running
<1>2. Untouched'
  BY <1>s, <1>a, <1>b DEF Untouched
<1>3. Passed'
  BY <1>s, <1>a, <1>b DEF Passed
<1>4. Handles'
  BY <1>s, <1>a, <1>b DEF Handles
<1>5. NoMessageYet'
  BY <1>s, <1>a, <1>b DEF NoMessageYet, Message
<1>6. Served'
  BY <1>s, <1>a, <1>b DEF Served
<1>l. Leaving'
  BY <1>s, <1>a, <1>b DEF Leaving
<1>7. ErrorsWriteNothing'
  BY <1>s, <1>a, <1>b, <1>1 DEF ErrorsWriteNothing, Untouched, Running, Aborted, Places
<1>8. SuccessMeansAnalysed'
  BY <1>s, <1>a, <1>b, <1>1 DEF SuccessMeansAnalysed, Untouched, Passed, Handles,
     Running, Aborted, Places
<1>9. LateAbortExplained'
  BY <1>s, <1>a, <1>b, <1>1 DEF LateAbortExplained, AbortsAtLastMessage, ServerRefused,
     Untouched, NoMessageYet, Running, Aborted, Places
<1> QED
  BY <1>1, <1>2, <1>3, <1>4, <1>5, <1>6, <1>l, <1>7, <1>8, <1>9 DEF IInv

LEMMA SelfcheckSampleIInv == ASSUME IInv, SelfcheckSample PROVE IInv'
<1> USE JobFacts DEF IInv, Early, Unruled, Others, Working, Closed, Exiting
<1>a. UNCHANGED <<running_, th_, srv, job, s, th, loads, open, at, judged, written>>
  BY DEF SelfcheckSample, serverVars, plugVars
<1>b. /\ pc = "sample" /\ Message
      /\ \/ pc' = "end" /\ exit' = Aborted
         \/ pc' = "passed" /\ exit' = exit
            /\ ~(rel = "current" /\ env.logs = "nodir" /\ ~out_)
  BY LoggerIs DEF SelfcheckSample, Log, Goto, End, Message, DirectoryThrows
<1>s. rel' = rel /\ env' = env /\ Input' = Input /\ Kept' = Kept /\ RulesGiven' = RulesGiven
  BY <1>a, Steady
<1>1. Places'
  BY <1>s, <1>a, <1>b DEF Places, Running
<1>2. Untouched'
  BY <1>s, <1>a, <1>b DEF Untouched
<1>3. Passed'
  <2>1. th' = <<>>
    BY <1>s, <1>a, <1>b DEF Untouched
  <2> QED
    BY <2>1 DEF Passed
<1>4. Handles'
  <2>1. pc \in Early /\ loads = <<>> /\ Cardinality(Kept) = 0
    BY <1>b, KeptFinite DEF Untouched
  <2>2. open' = 0
    BY <1>a, <2>1 DEF Handles
  <2> QED
    BY <1>s, <2>1, <2>2 DEF Handles
<1>5. NoMessageYet'
  BY <1>s, <1>a, <1>b DEF NoMessageYet, Message
<1>6. Served'
  BY <1>s, <1>a, <1>b DEF Served
<1>l. Leaving'
  BY <1>s, <1>a, <1>b DEF Leaving
<1>7. ErrorsWriteNothing'
  BY <1>s, <1>a, <1>b, <1>1 DEF ErrorsWriteNothing, Untouched, Running, Aborted, Places
<1>8. SuccessMeansAnalysed'
  BY <1>s, <1>a, <1>b, <1>1 DEF SuccessMeansAnalysed, Untouched, Passed, Handles,
     Running, Aborted, Places
<1>9. LateAbortExplained'
  BY <1>s, <1>a, <1>b, <1>1 DEF LateAbortExplained, AbortsAtLastMessage, ServerRefused,
     Untouched, NoMessageYet, Running, Aborted, Places
<1> QED
  BY <1>1, <1>2, <1>3, <1>4, <1>5, <1>6, <1>l, <1>7, <1>8, <1>9 DEF IInv

LEMMA SelfcheckPassedIInv == ASSUME IInv, SelfcheckPassed PROVE IInv'
<1> USE JobFacts DEF IInv, Early, Unruled, Others, Working, Closed, Exiting
<1>a. UNCHANGED <<running_, th_, srv, job, s, th, loads, open, at, judged, written>>
  BY DEF SelfcheckPassed, serverVars, plugVars, workVars
<1>b. /\ pc = "passed" /\ Message
      /\ \/ pc' = "end" /\ exit' = Aborted
         \/ pc' = "end" /\ exit' = 0
  BY LoggerIs DEF SelfcheckPassed, Log, End, Message, DirectoryThrows
<1>s. rel' = rel /\ env' = env /\ Input' = Input /\ Kept' = Kept /\ RulesGiven' = RulesGiven
  BY <1>a, Steady
<1>1. Places'
  BY <1>s, <1>a, <1>b DEF Places, Running
<1>2. Untouched'
  BY <1>s, <1>a, <1>b DEF Untouched
<1>3. Passed'
  <2>1. th' = <<>>
    BY <1>s, <1>a, <1>b DEF Untouched
  <2> QED
    BY <2>1 DEF Passed
<1>4. Handles'
  <2>1. pc \in Early /\ loads = <<>> /\ Cardinality(Kept) = 0
    BY <1>b, KeptFinite DEF Untouched
  <2>2. open' = 0
    BY <1>a, <2>1 DEF Handles
  <2> QED
    BY <1>s, <2>1, <2>2 DEF Handles
<1>5. NoMessageYet'
  BY <1>s, <1>a, <1>b DEF NoMessageYet, Message
<1>6. Served'
  BY <1>s, <1>a, <1>b DEF Served
<1>l. Leaving'
  BY <1>s, <1>a, <1>b DEF Leaving
<1>7. ErrorsWriteNothing'
  BY <1>s, <1>a, <1>b, <1>1 DEF ErrorsWriteNothing, Untouched, Running, Aborted, Places
<1>8. SuccessMeansAnalysed'
  BY <1>s, <1>a, <1>b, <1>1 DEF SuccessMeansAnalysed, Untouched, Passed, Handles,
     Running, Aborted, Places
<1>9. LateAbortExplained'
  BY <1>s, <1>a, <1>b, <1>1 DEF LateAbortExplained, AbortsAtLastMessage, ServerRefused,
     Untouched, NoMessageYet, Running, Aborted, Places
<1> QED
  BY <1>1, <1>2, <1>3, <1>4, <1>5, <1>6, <1>l, <1>7, <1>8, <1>9 DEF IInv

LEMMA ServerIInv == ASSUME IInv, Server PROVE IInv'
<1> USE JobFacts DEF IInv, Early, Unruled, Others, Working, Closed, Exiting
<1>a. UNCHANGED <<job, s, th, th_, out_, loads, open, at, judged, written, code>>
  BY DEF Server, Setup, TestRunning, Serve, MainIdle, Stay, End,
     plugVars, workVars
<1>b. UNCHANGED <<pc, exit>> \/ (pc' = "end" /\ exit' = Killed)
  BY DEF Server, Setup, TestRunning, Serve, Stay, End
<1>c. /\ pc # "end" /\ srv # "none" /\ srv' \in {"test", "accept", "end", srv}
      /\ running_' = running_ \/ (running_' = FALSE /\ env.net = "refused")
  BY DEF Server, Setup, TestRunning, Serve
<1>s. rel' = rel /\ env' = env /\ Input' = Input /\ Kept' = Kept /\ RulesGiven' = RulesGiven
  BY <1>a, Steady
<1>1. Places'
  BY <1>s, <1>a, <1>b, <1>c DEF Places, Running, Killed
<1>2. Untouched'
  BY <1>s, <1>a, <1>b, <1>c DEF Untouched
<1>3. Passed'
  BY <1>s, <1>a, <1>b, <1>c DEF Passed
<1>4. Handles'
  BY <1>s, <1>a, <1>b, <1>c DEF Handles
<1>5. NoMessageYet'
  BY <1>s, <1>a, <1>b, <1>c DEF NoMessageYet
<1>6. Served'
  <2>1. running_' \in BOOLEAN
    <3>1. CASE running_' = running_
      BY <3>1 DEF Served
    <3>2. CASE running_' = FALSE
      BY <3>2
    <3> QED
      BY <1>c, <3>1, <3>2
  <2>2. th_' = th_ /\ th_ # "none" /\ srv' # "none"
    BY <1>a, <1>c DEF Served
  <2>3. srv' \in {"setup", "test", "accept", "end"} /\ pc \notin Unruled \cup {"server"}
    BY <1>c, <2>2 DEF Served
  <2>4. th_ = "joinable" /\ ~running_' =>
          env.net = "refused" \/ pc' \in {"join", "destroyJoin", "end"}
    BY <1>b, <1>c DEF Served
  <2> QED
    BY <1>s, <1>a, <1>b, <2>1, <2>2, <2>3, <2>4 DEF Served
<1>l. Leaving'
  BY <1>s, <1>a, <1>b, <1>c DEF Leaving
<1>7. ErrorsWriteNothing'
  BY <1>s, <1>a, <1>b, <1>c, <1>1 DEF ErrorsWriteNothing, Untouched, Running,
     Killed, Aborted, Places
<1>8. SuccessMeansAnalysed'
  BY <1>s, <1>a, <1>b, <1>c, <1>1 DEF SuccessMeansAnalysed, Untouched, Passed, Handles,
     Running, Killed, Aborted, Places
<1>9. LateAbortExplained'
  BY <1>s, <1>a, <1>b, <1>c, <1>1 DEF LateAbortExplained, AbortsAtLastMessage, ServerRefused,
     Untouched, NoMessageYet, Running, Killed, Aborted, Places
<1> QED
  BY <1>1, <1>2, <1>3, <1>4, <1>5, <1>6, <1>l, <1>7, <1>8, <1>9 DEF IInv

(* One more handle is open exactly if one more plugin is kept. *)
LEMMA KeptGrows ==
  ASSUME Places, Handles, LoadPlugin
  PROVE  rel # "final" /\ open' = Cardinality(Kept')
<1> DEFINE met == Met(s.plugins[Len(loads) + 1])
<1>a. /\ pc = "plugins" /\ rel # "final" /\ job' = job
      /\ loads' = Append(loads, met) /\ open' = open + load_plugin(met).open
      /\ met \in {"nofile"} \cup Libraries /\ loads \in Seq({"nofile"} \cup Libraries)
  BY JobFacts DEF LoadPlugin, Places
<1> HIDE DEF met
<1>1. /\ Len(loads) \in Nat /\ DOMAIN loads' = 1 .. Len(loads) + 1
      /\ loads'[Len(loads) + 1] = met /\ \A i \in 1 .. Len(loads) : loads'[i] = loads[i]
      /\ DOMAIN loads = 1 .. Len(loads)
  BY <1>a
<1>2. Kept' = {i \in DOMAIN loads' : load_plugin(loads'[i]).ok}
  BY <1>a, Steady DEF Kept, load_plugin
<1>3. Kept' = IF load_plugin(met).ok THEN Kept \cup {Len(loads) + 1} ELSE Kept
  BY <1>1, <1>2 DEF Kept
<1>4. IsFiniteSet(Kept) /\ Cardinality(Kept) \in Nat /\ Len(loads) + 1 \notin Kept
  BY <1>1, KeptFinite DEF Kept
<1>5. Cardinality(Kept') = Cardinality(Kept) + load_plugin(met).open
  <2>1. load_plugin(met).open = IF load_plugin(met).ok THEN 1 ELSE 0
    BY <1>a, LoadLeaves, JobFacts
  <2>2. Cardinality(Kept \cup {Len(loads) + 1}) = Cardinality(Kept) + 1
    BY <1>4, FS_AddElement
  <2> QED
    BY <1>3, <1>4, <2>1, <2>2
<1>6. open = Cardinality(Kept)
  BY <1>a DEF Handles
<1> QED
  BY <1>a, <1>5, <1>6

(* load_plugin, with the message about it. *)
LEMMA LoadPluginIInv == ASSUME IInv, LoadPlugin PROVE IInv'
<1> USE JobFacts DEF IInv, Early, Unruled, Others, Working, Closed, Exiting
<1> DEFINE met == Met(s.plugins[Len(loads) + 1])
<1>a. UNCHANGED <<running_, th_, srv, job, s, th, at, judged, written>>
  BY DEF LoadPlugin, serverVars, workVars
<1>b. /\ pc = "plugins" /\ Message
      /\ loads' = Append(loads, met) /\ open' = open + load_plugin(met).open
      /\ \/ pc' = "end" /\ exit' = Aborted
         \/ pc' = pc /\ exit' = exit /\ ~(rel = "current" /\ env.logs = "nodir" /\ ~out_)
  BY LoggerIs DEF LoadPlugin, Log, Stay, End, Message, DirectoryThrows
<1>c. /\ rel # "final" /\ met \in {"nofile"} \cup Libraries
      /\ loads \in Seq({"nofile"} \cup Libraries)
  BY <1>b DEF Places
<1>s. rel' = rel /\ env' = env /\ Input' = Input /\ RulesGiven' = RulesGiven
  BY <1>a, Steady
<1> HIDE DEF met
<1>1. Places'
  BY <1>s, <1>a, <1>b, <1>c DEF Places, Running
<1>2. Untouched'
  BY <1>s, <1>a, <1>b, <1>c DEF Untouched
<1>3. Passed'
  BY <1>s, <1>a, <1>b DEF Passed
<1>4. Handles'
  BY <1>s, <1>b, <1>c, KeptGrows DEF Handles
<1>5. NoMessageYet'
  BY <1>s, <1>a, <1>b DEF NoMessageYet, Message
<1>6. Served'
  BY <1>s, <1>a, <1>b DEF Served
<1>l. Leaving'
  BY <1>s, <1>a, <1>b DEF Leaving
<1>7. ErrorsWriteNothing' /\ SuccessMeansAnalysed' /\ LateAbortExplained'
  <2>1. exit' \in {Running, Aborted} /\ judged' = <<>>
    BY <1>a, <1>b DEF Places, Untouched
  <2>2. exit' \notin {0, 1, 2, 3}
    BY <2>1 DEF Running, Aborted
  <2> QED
    BY <2>1, <2>2 DEF ErrorsWriteNothing, SuccessMeansAnalysed, LateAbortExplained
<1> QED
  BY <1>1, <1>2, <1>3, <1>4, <1>5, <1>6, <1>l, <1>7 DEF IInv

LEMMA NextIInv == ASSUME IInv, [Next]_vars PROVE IInv'
<1>1. CASE UNCHANGED vars
  <2>1. rel' = rel /\ env' = env /\ Input' = Input /\ Kept' = Kept /\ RulesGiven' = RulesGiven
    BY <1>1, Steady DEF vars, plugVars
  <2>p. /\ UNCHANGED <<job, pc, s, th, out_, loads, open, at, judged, written, code, exit>>
        /\ UNCHANGED <<running_, th_, srv>>
    BY <1>1 DEF vars, serverVars, plugVars, workVars
  <2>2. Places' /\ Untouched' /\ Passed'
    BY <2>p, <2>1 DEF IInv, Places, Untouched, Passed
  <2>4. Handles' /\ NoMessageYet' /\ Served' /\ Leaving'
    BY <2>p, <2>1 DEF IInv, Handles, NoMessageYet, Served, Leaving
  <2>3. (ErrorsWriteNothing /\ SuccessMeansAnalysed /\ LateAbortExplained)'
    BY <2>p, <2>1 DEF IInv, ErrorsWriteNothing, SuccessMeansAnalysed, LateAbortExplained,
       AbortsAtLastMessage, ServerRefused
  <2> QED
    BY <2>2, <2>3, <2>4 DEF IInv
<1>2. CASE Main
  BY <1>2, ParseIInv, MakeLoggerIInv, LoadRulesIInv, StartServerIInv, OpenInputIInv,
     LoadPluginIInv, StartWorkIInv, WorkIInv, EndOfInputIInv, UnloadIInv, StopServerIInv,
     GateIInv, FinishIInv, ReturnIInv, DestroyIInv, ApexBenchIInv, CurrentBenchIInv,
     SelfcheckIInv, SelfcheckSampleIInv, SelfcheckPassedIInv DEF Main
<1>3. CASE Server
  BY <1>3, ServerIInv
<1> QED
  BY <1>1, <1>2, <1>3 DEF Next, Still

(* The invariant all the others follow from. *)
THEOREM Invariant == Spec => []IInv
BY InitInv, NextIInv, PTL DEF Spec

-----------------------------------------------------------------------------
(* Exit codes 1 and 2 say that nothing was analysed, or loaded.             *)
THEOREM ErrorsLeaveNothing == Spec => []ErrorsWriteNothing
BY Invariant, PTL DEF IInv

(* Exit codes 0 and 3 say that every line was judged under the rules asked  *)
(* for, and that every plugin is closed again.                              *)
THEOREM SuccessIsComplete == Spec => []SuccessMeansAnalysed
BY Invariant, PTL DEF IInv

(* An analysis that was begun is lost to an abort for two reasons only: the *)
(* last message of 5.0.0, or a metrics server that could not be set up.     *)
THEOREM LateAbort == Spec => []LateAbortExplained
BY Invariant, PTL DEF IInv
=============================================================================
