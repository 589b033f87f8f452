------------------------- MODULE ReleaseDataProofs --------------------------
(***************************************************************************)
(* What main computes on the way from argv to the findings, for every      *)
(* release and data of any length: the settings it takes from a command    *)
(* line, the thresholds and records it reads, the windows it counts in.    *)
(***************************************************************************)
EXTENDS ReleasesProofs, NaturalInduction, SequenceTheorems, FunctionTheorems

-----------------------------------------------------------------------------
(* The loop over argv, token by token. *)

Shaped(st) == DOMAIN st = {"s", "option"}
Start == [s |-> Defaults, option |-> ""]
Scans(f, v, command, args) ==
  /\ f[0] = Start
  /\ \A n \in 1 .. Len(args) : f[n] = Step(v, command, f[n - 1], args[n])
  /\ LET end == f[Len(args)]
     IN  Scan(v, command, args) = IF end.option = "" \/ Refused(end.s) THEN end.s
                                  ELSE Other(v, command, end.s, end.option)

LEMMA ScansExist ==
  ASSUME NEW v, NEW command, NEW args, Len(args) \in Nat
  PROVE  \E f : Scans(f, v, command, args)
<1> DEFINE Next1(x, e) == CHOOSE y \in {Step(v, command, z, e) : z \in {x}} : TRUE
           F(f, m) == f = [n \in 0 .. m |-> IF n = 0 THEN Start ELSE Next1(f[n - 1], args[n])]
           P == {m \in Nat : \E f : F(f, m)}
           u == CHOOSE f : F(f, Len(args))
<1>1. \A x, e : Next1(x, e) = Step(v, command, x, e)
  OBVIOUS
<1>2. LET end == u[Len(args)]
      IN  Scan(v, command, args) = IF end.option = "" \/ Refused(end.s) THEN end.s
                                   ELSE Other(v, command, end.s, end.option)
  BY DEF Scan, FoldStrictly, Start
<1> HIDE DEF Next1
<1>3. 0 \in P
  <2>1. F([n \in 0 .. 0 |-> Start], 0)
    OBVIOUS
  <2> QED
    BY <2>1
<1>4. ASSUME NEW m \in Nat, m \in P PROVE m + 1 \in P
  <2>1. PICK f : F(f, m)
    BY <1>4
  <2> DEFINE g == [n \in 0 .. m + 1 |-> IF n = 0 THEN Start ELSE Next1(f[n - 1], args[n])]
  <2>2. \A n \in 0 .. m : g[n] = f[n]
    BY <2>1
  <2>3. \A n \in 0 .. m + 1 : g[n] = IF n = 0 THEN Start ELSE Next1(g[n - 1], args[n])
    <3> SUFFICES ASSUME NEW n \in 0 .. m + 1, n # 0 PROVE f[n - 1] = g[n - 1]
      OBVIOUS
    <3>1. n - 1 \in 0 .. m
      OBVIOUS
    <3> QED
      BY <2>2, <3>1
  <2>4. F(g, m + 1)
    BY <2>3
  <2>5. \E h : F(h, m + 1)
    BY <2>4
  <2> HIDE DEF F
  <2> QED
    BY <2>5
<1>5. \A m \in Nat : m \in P
  <2> HIDE DEF P
  <2> QED
    BY <1>3, <1>4, InductionOnNat
<1>6. \E f : F(f, Len(args))
  BY <1>5
<1>7. F(u, Len(args))
  BY <1>6
<1> HIDE DEF u
<1>8. u[0] = Start /\ \A n \in 1 .. Len(args) : u[n] = Next1(u[n - 1], args[n])
  BY <1>7
<1> QED
  BY <1>1, <1>2, <1>8 DEF Scans

-----------------------------------------------------------------------------
(* 3.0.0 against the later releases. *)

LEMMA ExitRefused == \A n : Refused(Exit(n))
BY DEF Refused, Exit

(* A token that 3.0.0 takes does the same in the later releases. *)
LEMMA SameStep ==
  ASSUME NEW v \in {"apex", "current"}, NEW st, NEW t,
         Shaped(st), ~Refused(Step("ultra", "analyze", st, t).s)
  PROVE  Step(v, "analyze", st, t) = Step("ultra", "analyze", st, t)
<1>1. /\ Cli["ultra"] = UltraCli
      /\ Cli[v] = IF v = "apex" THEN ApexCli ELSE CurrentCli
  BY DEF Cli
<1>2. CASE Refused(st.s) \/ st.option # ""
  <2>1. \A s0, option : Set(v, s0, option, t) = Set("ultra", s0, option, t)
    BY DEF Set, Port
  <2> QED
    BY <1>2, <2>1 DEF Step
<1>3. CASE ~Refused(st.s) /\ st.option = ""
  <2>1. CASE t \in Valued("ultra", "analyze")
    <3>1. t \in Valued(v, "analyze")
      BY <1>1, <2>1 DEF Valued, UltraCli, ApexCli, CurrentCli
    <3> QED
      BY <1>3, <2>1, <3>1 DEF Step
  <2>2. CASE t \notin Valued("ultra", "analyze")
    <3>1. PICK n : AnalyzeOther("ultra", st.s, t) = Exit(n)
      BY <1>1 DEF AnalyzeOther, UltraCli
    <3>2. Step("ultra", "analyze", st, t) = [st EXCEPT !.s = Exit(n)]
      BY <1>3, <2>2, <3>1 DEF Step, Other
    <3> QED
      BY <3>2, ExitRefused DEF Shaped
  <2> QED
    BY <2>1, <2>2
<1> QED
  BY <1>2, <1>3

LEMMA StepKeepsShape ==
  ASSUME NEW v, NEW command, NEW st, NEW t, Shaped(st)
  PROVE  Shaped(Step(v, command, st, t))
BY DEF Step, Shaped

(* Along a command line: as long as 3.0.0 does not refuse it, the later     *)
(* releases are where 3.0.0 is.                                             *)
LEMMA SameScan ==
  ASSUME NEW v \in {"apex", "current"}, NEW args, Len(args) \in Nat,
         ~Refused(Scan("ultra", "analyze", args))
  PROVE  Scan(v, "analyze", args) = Scan("ultra", "analyze", args)
<1>1. PICK f : Scans(f, "ultra", "analyze", args)
  BY ScansExist
<1>2. PICK g : Scans(g, v, "analyze", args)
  BY ScansExist
<1> DEFINE Same(n) == /\ Shaped(f[n])
                      /\ ~Refused(f[n].s) => g[n] = f[n]
           P == {n \in Nat : n <= Len(args) => Same(n)}
<1>3. 0 \in P
  BY <1>1, <1>2 DEF Scans, Start, Shaped
<1>4. ASSUME NEW n \in Nat, n \in P PROVE n + 1 \in P
  <2> SUFFICES ASSUME n + 1 <= Len(args) PROVE Same(n + 1)
    OBVIOUS
  <2>1. Same(n)
    BY <1>4
  <2>2. n + 1 \in 1 .. Len(args) /\ (n + 1) - 1 = n
    OBVIOUS
  <2>3. /\ f[n + 1] = Step("ultra", "analyze", f[n], args[n + 1])
        /\ g[n + 1] = Step(v, "analyze", g[n], args[n + 1])
    BY <1>1, <1>2, <2>2 DEF Scans
  <2>4. Shaped(f[n + 1])
    BY <2>1, <2>3, StepKeepsShape
  <2>5. ASSUME ~Refused(f[n + 1].s) PROVE g[n + 1] = f[n + 1]
    <3>1. ~Refused(f[n].s)
      BY <2>3, <2>5 DEF Step
    <3>2. g[n] = f[n]
      BY <2>1, <3>1
    <3>3. Step(v, "analyze", f[n], args[n + 1]) = Step("ultra", "analyze", f[n], args[n + 1])
      <4>1. ~Refused(Step("ultra", "analyze", f[n], args[n + 1]).s)
        BY <2>3, <2>5, Zenon
      <4> QED
        BY <2>1, <4>1, SameStep
    <3> QED
      BY <2>3, <3>2, <3>3, Zenon
  <2> QED
    BY <2>4, <2>5
<1>5. \A n \in Nat : n \in P
  <2> HIDE DEF P
  <2> QED
    BY <1>3, <1>4, InductionOnNat
<1>6. Same(Len(args))
  BY <1>5
<1> DEFINE e == f[Len(args)]
<1>7. e.option = "" /\ ~Refused(e.s)
  <2>1. \A t : Refused(Other("ultra", "analyze", e.s, t))
    BY ExitRefused DEF Other, AnalyzeOther, Cli, UltraCli
  <2> QED
    BY <1>1, <2>1 DEF Scans
<1> QED
  BY <1>1, <1>2, <1>6, <1>7 DEF Scans

(* An upgrade from 3.0.0 keeps the meaning of every command line.           *)
LEMMA SameSettings ==
  ASSUME NEW v \in {"apex", "current"}, NEW argv \in Seq(STRING),
         ~Refused(Parsed("ultra", argv))
  PROVE  Parsed(v, argv) = Parsed("ultra", argv)
<1>1. argv # <<>> /\ ~Asks(argv[1]) /\ argv[1] = "analyze"
  BY ExitRefused DEF Parsed, Commands
<1>2. /\ Parsed("ultra", argv) = Settings("ultra", Tail(argv))
      /\ Parsed(v, argv) = Settings(v, Tail(argv))
  BY <1>1 DEF Parsed, Commands
<1>3. Len(Tail(argv)) \in Nat
  BY <1>1, HeadTailProperties
<1>4. ~Refused(Scan("ultra", "analyze", Tail(argv)))
  BY <1>2 DEF Settings
<1>5. Scan(v, "analyze", Tail(argv)) = Scan("ultra", "analyze", Tail(argv))
  BY <1>3, <1>4, SameScan
<1>6. ASSUME NEW r \in {"ultra", "apex", "current"}
      PROVE  Cli[r].formats = TRUE /\ Cli[r].outfmts = TRUE
  <2>1. Cli[r] = CASE r = "ultra" -> UltraCli [] r = "apex" -> ApexCli
                   [] r = "current" -> CurrentCli
    BY DEF Cli
  <2> QED
    BY <2>1 DEF UltraCli, ApexCli, CurrentCli
<1> DEFINE Tested(s0) == IF Refused(s0) THEN s0
                         ELSE IF \/ s0.text["--input"] = ""
                                 \/ s0.text["--format"] \notin {"csv", "ndjson"}
                                 \/ s0.text["--outfmt"] \notin {"text", "json"}
                              THEN Exit(1) ELSE s0
<1>7. ASSUME NEW r \in {"ultra", "apex", "current"}
      PROVE  Settings(r, Tail(argv)) = Tested(Scan(r, "analyze", Tail(argv)))
  BY <1>6 DEF Settings
<1> HIDE DEF Tested
<1>8. Settings(v, Tail(argv)) = Settings("ultra", Tail(argv))
  BY <1>5, <1>7
<1> QED
  BY <1>2, <1>8

(* What 3.0.0 accepts the later releases accept, with the same settings:    *)
(* main copied from release to release has lost no option.                  *)
THEOREM UpgradeIsSafe == Spec => []UpgradeKeepsSettings
<1>1. Places => UpgradeKeepsSettings
  BY SameSettings, JobsAssumption DEF Places, UpgradeKeepsSettings
<1> QED
  BY <1>1, Invariant, PTL DEF IInv

-----------------------------------------------------------------------------
(* The settings of analyze, token by token. *)

SettingNames == {"text", "window", "threads", "port", "plugins", "summary", "fail_on", "iterations"}
Settled(s0) == DOMAIN s0 = SettingNames /\ s0.window \in Int
               /\ DOMAIN s0.text = {"--input", "--format", "--rules", "--outfmt"}

LEMMA DefaultsSettled == Settled(Defaults) /\ Defaults.fail_on = <<>>
BY DEF Settled, Defaults, SettingNames

LEMMA SettledNotRefused == ASSUME NEW s0, Settled(s0) PROVE ~Refused(s0)
BY DEF Settled, Refused, SettingNames

(* What --fail-on does to the map of thresholds. *)
Asked(fo, t) ==
  [type \in DOMAIN fo \cup {FailOnPart[t][1]} |->
     IF type = FailOnPart[t][1] THEN Value[FailOnPart[t][2]] ELSE fo[type]]

AfterSet(s0, new, option, t) ==
  /\ Settled(new)
  /\ IF option = "--fail-on"
     THEN t \in DOMAIN FailOnPart /\ new.fail_on = Asked(s0.fail_on, t)
     ELSE new.fail_on = s0.fail_on

LEMMA SetDoes ==
  ASSUME NEW v, NEW s0, Settled(s0), NEW option, NEW t, ~Refused(Set(v, s0, option, t))
  PROVE  AfterSet(s0, Set(v, s0, option, t), option, t)
<1> USE TokensAssumption DEF AfterSet, Settled, SettingNames
<1>1. CASE option \in DOMAIN s0.text
  <2>1. Set(v, s0, option, t) = [s0 EXCEPT !.text[option] = t]
    BY <1>1 DEF Set
  <2> QED
    BY <1>1, <2>1
<1>2. CASE option = "--window"
  <2>1. Stoll(t) /\ Set(v, s0, option, t) = [s0 EXCEPT !.window = Value[t]]
    BY <1>2, ExitRefused DEF Set
  <2> QED
    BY <1>2, <2>1 DEF Stoll
<1>3. CASE option \in {"--threads", "--iterations", "--metrics", "--plugin"}
  <2>1. \/ \E x : Set(v, s0, option, t) = [s0 EXCEPT !.threads = x]
        \/ \E x : Set(v, s0, option, t) = [s0 EXCEPT !.iterations = x]
        \/ \E x : Set(v, s0, option, t) = [s0 EXCEPT !.port = x]
        \/ \E x : Set(v, s0, option, t) = [s0 EXCEPT !.plugins = x]
        \/ Set(v, s0, option, t) = s0
    BY <1>3, ExitRefused DEF Set
  <2> QED
    BY <1>3, <2>1
<1>4. CASE option = "--fail-on"
  <2>1. Set(v, s0, option, t) = SetFailOn(s0, t)
    BY <1>4 DEF Set
  <2>2. /\ t \in DOMAIN FailOnPart
        /\ Set(v, s0, option, t) = [s0 EXCEPT !.fail_on = Asked(s0.fail_on, t)]
    BY <2>1, ExitRefused DEF SetFailOn, Asked
  <2> QED
    BY <1>4, <2>2
<1>5. CASE option \notin DOMAIN s0.text \cup {"--window", "--threads", "--iterations",
                                              "--metrics", "--plugin", "--fail-on"}
  <2>1. Set(v, s0, option, t) = s0
    BY <1>5 DEF Set
  <2> QED
    BY <1>5, <2>1
<1> QED
  BY <1>1, <1>2, <1>3, <1>4, <1>5

(* The places where --fail-on stands before a type and a number, among the  *)
(* first n tokens; the last of them with a type; the map they make.         *)
SpecsIn(args, n) ==
  {i \in 2 .. n : args[i - 1] = "--fail-on" /\ args[i] \in DOMAIN FailOnPart}
TypeAt(args, i) == FailOnPart[args[i]][1]
LeastAt(args, i) == Value[FailOnPart[args[i]][2]]
LastWith(args, n, type) ==
  {i \in SpecsIn(args, n) : /\ TypeAt(args, i) = type
                            /\ \A k \in SpecsIn(args, n) : TypeAt(args, k) = type => k <= i}
FailOnIs(fo, args, n) ==
  /\ DOMAIN fo = {TypeAt(args, i) : i \in SpecsIn(args, n)}
  /\ \A type \in DOMAIN fo : \E i \in LastWith(args, n, type) : fo[type] = LeastAt(args, i)

LEMMA NothingAsked == ASSUME NEW args PROVE FailOnIs(<<>>, args, 0)
BY DEF FailOnIs, SpecsIn

LEMMA NotAsked ==
  ASSUME NEW fo, NEW args, NEW n \in Nat, FailOnIs(fo, args, n),
         ~(n >= 1 /\ args[n] = "--fail-on" /\ args[n + 1] \in DOMAIN FailOnPart)
  PROVE  FailOnIs(fo, args, n + 1)
<1>1. SpecsIn(args, n + 1) = SpecsIn(args, n)
  <2>1. n + 1 \notin SpecsIn(args, n + 1)
    BY DEF SpecsIn
  <2>2. \A i : i \in 2 .. n + 1 /\ i # n + 1 <=> i \in 2 .. n
    OBVIOUS
  <2> QED
    BY <2>1, <2>2 DEF SpecsIn
<1> QED
  BY <1>1 DEF FailOnIs, LastWith

LEMMA AskedLast ==
  ASSUME NEW fo, NEW args, NEW n \in Nat, FailOnIs(fo, args, n),
         n >= 1, args[n] = "--fail-on", args[n + 1] \in DOMAIN FailOnPart
  PROVE  FailOnIs(Asked(fo, args[n + 1]), args, n + 1)
<1> DEFINE fo2 == Asked(fo, args[n + 1])
           S == SpecsIn(args, n)
           new == TypeAt(args, n + 1)
<1>1. SpecsIn(args, n + 1) = S \cup {n + 1} /\ \A i \in S : i \in Nat /\ i <= n
  <2>1. n + 1 \in 2 .. n + 1 /\ (n + 1) - 1 = n
    OBVIOUS
  <2>2. \A i : i \in 2 .. n + 1 /\ i # n + 1 <=> i \in 2 .. n
    OBVIOUS
  <2> QED
    BY <2>1, <2>2 DEF SpecsIn
<1>2. DOMAIN fo2 = DOMAIN fo \cup {new} /\ fo2[new] = LeastAt(args, n + 1)
      /\ \A type \in DOMAIN fo : type # new => fo2[type] = fo[type]
  BY DEF Asked, TypeAt, LeastAt
<1>3. DOMAIN fo2 = {TypeAt(args, i) : i \in SpecsIn(args, n + 1)}
  BY <1>1, <1>2 DEF FailOnIs
<1>4. n + 1 \in LastWith(args, n + 1, new)
  BY <1>1 DEF LastWith
<1>5. ASSUME NEW type \in DOMAIN fo, type # new
      PROVE  LastWith(args, n + 1, type) = LastWith(args, n, type)
  BY <1>1, <1>5 DEF LastWith
<1>6. \A type \in DOMAIN fo2 :
        \E i \in LastWith(args, n + 1, type) : fo2[type] = LeastAt(args, i)
  <2> TAKE type \in DOMAIN fo2
  <2>1. CASE type = new
    BY <1>2, <1>4, <2>1
  <2>2. CASE type # new
    <3>1. type \in DOMAIN fo /\ fo2[type] = fo[type]
      BY <1>2, <2>2
    <3>2. PICK i \in LastWith(args, n, type) : fo[type] = LeastAt(args, i)
      BY <3>1 DEF FailOnIs
    <3>3. i \in LastWith(args, n + 1, type) /\ fo2[type] = LeastAt(args, i)
      BY <1>5, <2>2, <3>1, <3>2
    <3> QED
      BY <3>3
  <2> QED
    BY <2>1, <2>2
<1> QED
  BY <1>3, <1>6 DEF FailOnIs

(* The settings after n tokens, and the option that waits for its value.    *)
Sensible(st, args, n) ==
  ~Refused(st.s) =>
    /\ Settled(st.s) /\ FailOnIs(st.s.fail_on, args, n)
    /\ st.option # "" => n >= 1 /\ st.option = args[n]

LEMMA SensibleStep ==
  ASSUME NEW v \in Releases, NEW args, NEW n \in Nat, NEW st, Shaped(st), Sensible(st, args, n)
  PROVE  Sensible(Step(v, "analyze", st, args[n + 1]), args, n + 1)
<1> DEFINE t == args[n + 1]
           next == Step(v, "analyze", st, t)
<1>n. n + 1 >= 1
  OBVIOUS
<1> SUFFICES ASSUME ~Refused(next.s)
             PROVE  /\ Settled(next.s)
                    /\ FailOnIs(next.s.fail_on, args, n + 1)
                    /\ next.option # "" => next.option = t
  BY <1>n, Zenon DEF Sensible
<1>1. /\ ~Refused(st.s) /\ Settled(st.s)
      /\ FailOnIs(st.s.fail_on, args, n)
      /\ st.option # "" => n >= 1 /\ st.option = args[n]
  BY DEF Step, Sensible
<1>x. next = Step(v, "analyze", st, t) /\ ~Refused(next.s)
  OBVIOUS
<1> HIDE DEF next
<1>2. CASE st.option # ""
  <2>1. next = [s |-> Set(v, st.s, st.option, t), option |-> ""]
    BY <1>1, <1>2, <1>x DEF Step
  <2>2. ~Refused(Set(v, st.s, st.option, t))
    <3>1. next.s = Set(v, st.s, st.option, t)
      BY <2>1
    <3> QED
      BY <1>x, <3>1, Zenon
  <2>3. AfterSet(st.s, Set(v, st.s, st.option, t), st.option, t)
    BY <1>1, <2>2, SetDoes, Zenon
  <2>4. CASE st.option = "--fail-on"
    BY <1>1, <1>2, <2>1, <2>3, <2>4, AskedLast DEF AfterSet
  <2>5. CASE st.option # "--fail-on"
    <3>1. args[n] # "--fail-on"
      BY <1>1, <1>2, <2>5
    <3>2. FailOnIs(st.s.fail_on, args, n + 1)
      BY <1>1, <3>1, NotAsked
    <3> QED
      BY <2>1, <2>3, <2>5, <3>2 DEF AfterSet
  <2> QED
    BY <2>4, <2>5
<1>3. CASE st.option = ""
  <2>1. CASE t \in Valued(v, "analyze")
    <3>1. next = [st EXCEPT !.option = t]
      BY <1>1, <1>3, <1>x, <2>1 DEF Step
    <3>2. t \notin DOMAIN FailOnPart
      <4>1. Cli[v].valued \subseteq CurrentCli.valued
        BY ReleasesAre DEF Cli, FinalCli, MaxCli, UltraCli, ApexCli, CurrentCli
      <4> QED
        BY <2>1, <4>1, TokensAssumption DEF Valued, CurrentCli
    <3>3. FailOnIs(st.s.fail_on, args, n + 1)
      BY <1>1, <3>2, NotAsked
    <3> QED
      BY <1>1, <3>1, <3>3 DEF Shaped
  <2>2. CASE t \notin Valued(v, "analyze")
    <3>1. next = [st EXCEPT !.s = AnalyzeOther(v, st.s, t)]
      BY <1>1, <1>3, <1>x, <2>2 DEF Step, Other
    <3>2. t \in Cli[v].flags /\ AnalyzeOther(v, st.s, t) = [st.s EXCEPT !.summary = TRUE]
      BY <1>x, <3>1, ExitRefused DEF AnalyzeOther, Shaped
    <3>3. t \notin DOMAIN FailOnPart
      <4>1. Cli[v].flags \subseteq {"--summary"}
        BY ReleasesAre DEF Cli, FinalCli, MaxCli, UltraCli, ApexCli, CurrentCli
      <4> QED
        BY <3>2, <4>1, TokensAssumption
    <3>4. FailOnIs(st.s.fail_on, args, n + 1)
      BY <1>1, <3>3, NotAsked
    <3> QED
      BY <1>1, <1>3, <3>1, <3>2, <3>4 DEF Shaped, Settled, SettingNames
  <2> QED
    BY <2>1, <2>2
<1> QED
  BY <1>2, <1>3

LEMMA SensibleScan ==
  ASSUME NEW v \in Releases, NEW args, Len(args) \in Nat, ~Refused(Scan(v, "analyze", args))
  PROVE  /\ Settled(Scan(v, "analyze", args))
         /\ FailOnIs(Scan(v, "analyze", args).fail_on, args, Len(args))
<1>1. PICK f : Scans(f, v, "analyze", args)
  BY ScansExist
<1> DEFINE Good(n) == Shaped(f[n]) /\ Sensible(f[n], args, n)
           P == {n \in Nat : n <= Len(args) => Good(n)}
<1>2. 0 \in P
  <2>1. f[0] = Start
    BY <1>1 DEF Scans
  <2>2. Shaped(f[0])
    BY <2>1 DEF Start, Shaped
  <2>3. Sensible(f[0], args, 0)
    <3>s. Start.s = Defaults /\ Start.option = ""
      BY DEF Start
    <3>1. f[0].s = Defaults /\ f[0].option = ""
      BY <2>1, <3>s, Zenon
    <3>2. Settled(f[0].s) /\ FailOnIs(f[0].s.fail_on, args, 0)
      BY <3>1, DefaultsSettled, NothingAsked
    <3> QED
      BY <3>1, <3>2 DEF Sensible
  <2> QED
    BY <2>2, <2>3
<1>3. ASSUME NEW n \in Nat, n \in P PROVE n + 1 \in P
  <2> SUFFICES ASSUME n + 1 <= Len(args) PROVE Good(n + 1)
    OBVIOUS
  <2>1. Good(n)
    BY <1>3
  <2>2. n + 1 \in 1 .. Len(args) /\ (n + 1) - 1 = n
    OBVIOUS
  <2>3. f[n + 1] = Step(v, "analyze", f[n], args[n + 1])
    BY <1>1, <2>2 DEF Scans
  <2>4. Shaped(f[n + 1])
    BY <2>1, <2>3, StepKeepsShape
  <2>5. Sensible(f[n + 1], args, n + 1)
    BY <2>1, <2>3, SensibleStep
  <2> QED
    BY <2>4, <2>5
<1>4. \A n \in Nat : n \in P
  <2> HIDE DEF P
  <2> QED
    BY <1>2, <1>3, InductionOnNat
<1>5. Good(Len(args))
  BY <1>4
<1> DEFINE e == f[Len(args)]
           all == Scan(v, "analyze", args)
<1>6. all = IF e.option = "" \/ Refused(e.s) THEN e.s
            ELSE Other(v, "analyze", e.s, e.option)
  BY <1>1 DEF Scans
<1>7. Sensible(e, args, Len(args)) /\ ~Refused(all)
  BY <1>5
<1> HIDE DEF e, all
<1>8. CASE e.option = "" \/ Refused(e.s)
  BY <1>6, <1>7, <1>8 DEF Sensible, all
<1>9. CASE ~(e.option = "" \/ Refused(e.s))
  <2>1. all = AnalyzeOther(v, e.s, e.option)
    BY <1>6, <1>9 DEF Other
  <2>2. all = [e.s EXCEPT !.summary = TRUE]
    BY <1>7, <2>1, ExitRefused DEF AnalyzeOther
  <2>3. Settled(e.s) /\ FailOnIs(e.s.fail_on, args, Len(args))
    BY <1>7, <1>9 DEF Sensible
  <2> QED
    BY <2>2, <2>3 DEF Settled, SettingNames, all
<1> QED
  BY <1>8, <1>9

LEMMA AnalyzeSettings ==
  ASSUME NEW v \in Releases, NEW argv \in Seq(STRING), argv # <<>>, argv[1] = "analyze",
         ~Refused(Parsed(v, argv))
  PROVE  /\ Settled(Parsed(v, argv))
         /\ FailOnIs(Parsed(v, argv).fail_on, Tail(argv), Len(Tail(argv)))
<1>1. Parsed(v, argv) = Settings(v, Tail(argv))
  <2>1. "analyze" \notin Commands[v] /\ ~Asks("analyze")
    BY ReleasesAre DEF Commands, Asks
  <2> QED
    BY <2>1 DEF Parsed
<1>2. Settings(v, Tail(argv)) = Scan(v, "analyze", Tail(argv))
  <2>1. ~Refused(Settings(v, Tail(argv)))
    BY <1>1
  <2> QED
    BY <2>1, ExitRefused DEF Settings
<1>3. Len(Tail(argv)) \in Nat
  BY HeadTailProperties
<1> QED
  BY <1>1, <1>2, <1>3, SensibleScan

-----------------------------------------------------------------------------
(* The command line of a run: from the logger on, and wherever there are    *)
(* rules, the settings are those of an analyze that was not refused.        *)
SettingsKnown ==
  pc \in {"logger", "rules"} \/ th # <<>> =>
    /\ job.argv # <<>> /\ job.argv[1] = "analyze"
    /\ s = Parsed(rel, job.argv) /\ ~Refused(s)

(* Where main goes, and which of its steps take settings and rules. *)
Moved ==
  /\ job' = job /\ rel' = rel /\ env' = env
  /\ pc' = "logger" => pc = "logger"
  /\ pc' = "rules" => pc \in {"rules", "logger"}
  /\ s' = s
(* The steps of the server, and those of main that wait for it or end. *)
ExitStep == StopServer \/ Destroy \/ SelfcheckPassed \/ Server
LEMMA ExitSteps ==
  ASSUME IInv, ExitStep
  PROVE  /\ UNCHANGED <<job, s, th, loads, open, at, last, judged, written, win>>
         /\ \/ UNCHANGED <<pc, exit, code>>
            \/ /\ pc \in {"stop", "join"} /\ pc' \in {"join", "gate", "finish"}
               /\ pc' = "finish" => rel # "current"
               /\ UNCHANGED <<exit, code>>
            \/ pc = "destroy" /\ pc' = "destroyJoin" /\ UNCHANGED <<exit, code>>
            \/ pc \in Exiting /\ pc' = "end" /\ exit' = code /\ code' = code
            \/ pc = "destroy" /\ pc' = "end" /\ exit' = Aborted /\ ServerRefused /\ code' = code
            \/ pc = "passed" /\ pc' = "end" /\ exit' \in {0, Aborted} /\ code' = code
            \/ pc # "end" /\ pc' = "end" /\ exit' = Killed /\ code' = code
<1>1. rel \in Releases /\ Served
  BY JobFacts DEF IInv
<1>2. CASE StopServer
  <2>1. UNCHANGED <<job, s, th, loads, open, at, last, judged, written, win>>
    BY <1>2 DEF StopServer, plugVars, workVars
  <2>2. CASE pc = "stop" /\ running_ /\ Goto("join")
    BY <2>1, <2>2 DEF Goto
  <2>3. CASE pc \in {"stop", "join"} /\ GoOnFrom("stop")
    BY <1>1, <2>1, <2>3, StopOrder
  <2> QED
    BY <1>2, <2>2, <2>3 DEF StopServer, Stop
<1>3. CASE Destroy
  <2>1. UNCHANGED <<job, s, th, loads, open, at, last, judged, written, win>>
    BY <1>3 DEF Destroy, plugVars, workVars
  <2>2. CASE pc = "destroy" /\ running_
    BY <1>3, <2>1, <2>2 DEF Destroy, Stop, Goto
  <2>3. CASE pc = "destroy" /\ ~running_
    <3>1. th_' = th_ /\ End(IF th_' = "joinable" THEN Aborted ELSE code)
      BY <1>3, <2>3 DEF Destroy, Stop
    <3>2. th_ = "joinable" => ServerRefused
      BY <1>1, <2>3 DEF Served, ServerRefused
    <3> QED
      BY <2>1, <2>3, <3>1, <3>2 DEF End, Exiting
  <2>4. CASE pc # "destroy"
    BY <1>3, <2>1, <2>4 DEF Destroy, Stop, End, Exiting
  <2> QED
    BY <2>2, <2>3, <2>4
<1>4. CASE SelfcheckPassed
  BY <1>4 DEF SelfcheckPassed, Log, End, plugVars, workVars
<1>5. CASE Server
  BY <1>5 DEF Server, Setup, TestRunning, Serve, MainIdle, Stay, End, plugVars, workVars
<1> QED
  BY <1>2, <1>3, <1>4, <1>5 DEF ExitStep

LEMMA Moves ==
  ASSUME IInv, [Next]_vars, ~Parse
  PROVE  Moved /\ (~LoadRules => th' = th)
<1> USE DEF Moved, rel, env
<1>1. rel \in Releases /\ Places /\ Untouched
  BY JobFacts DEF IInv
<1>2. CASE LoadRules
  BY <1>1, <1>2, StageOrder DEF LoadRules, End
<1>3. CASE MakeLogger \/ StartServer \/ OpenInput \/ StartWork \/ EndOfInput \/ Unload
           \/ Gate
  BY <1>1, <1>3, StageOrder
     DEF MakeLogger, StartServer, OpenInput, StartWork, EndOfInput, Unload, Gate, End, Leave
<1>4. CASE LoadPlugin \/ Finish \/ Selfcheck \/ SelfcheckSample
  BY <1>1, <1>4, StageOrder
     DEF LoadPlugin, Finish, Selfcheck, SelfcheckSample, Log, End, Stay, Goto
<1>5. CASE Work \/ Return \/ ApexBench \/ CurrentBench \/ UNCHANGED vars
  BY <1>1, <1>5 DEF Work, Return, ApexBench, CurrentBench, Timed, vars, End, Leave
<1>6. CASE ExitStep
  BY <1>6, ExitSteps DEF LoadRules
<1> QED
  BY <1>2, <1>3, <1>4, <1>5, <1>6 DEF Next, Main, Still, ExitStep

LEMMA SettingsInvariant == Spec => []SettingsKnown
<1>1. Init => SettingsKnown
  BY DEF Init, SettingsKnown
<1>2. IInv /\ SettingsKnown /\ [Next]_vars => SettingsKnown'
  <2> SUFFICES ASSUME IInv, SettingsKnown, [Next]_vars PROVE SettingsKnown'
    OBVIOUS
  <2>1. CASE Parse
    <3>1. pc = "argv" /\ th' = <<>> /\ rel' = rel /\ job' = job /\ rel \in Releases
      BY <2>1, JobFacts DEF Parse, rel, IInv, Untouched, Unruled
    <3>2. CASE Refused(Parsed(rel, job.argv))
      BY <2>1, <3>1, <3>2 DEF Parse, End, SettingsKnown
    <3>3. CASE ~Refused(Parsed(rel, job.argv))
      <4>1. s' = Parsed(rel, job.argv) /\ job.argv # <<>>
        BY <2>1, <3>3, ExitRefused DEF Parse, Parsed
      <4>2. job.argv[1] = "analyze" \/ pc' \in {"bench", "selfcheck"}
        BY <2>1, <3>1, <3>3, CommandsAre DEF Parse, Goto
      <4> QED
        BY <3>1, <3>3, <4>1, <4>2 DEF SettingsKnown
    <3> QED
      BY <3>2, <3>3
  <2>2. CASE ~Parse /\ LoadRules
    BY <2>2, Moves DEF SettingsKnown, Moved, LoadRules
  <2>3. CASE ~Parse /\ ~LoadRules
    BY <2>3, Moves DEF SettingsKnown, Moved
  <2> QED
    BY <2>1, <2>2, <2>3
<1> QED
  BY <1>1, <1>2, Invariant, PTL DEF Spec

-----------------------------------------------------------------------------
(* --fail-on. *)

LEMMA AskedForIs ==
  ASSUME NEW argv \in Seq(STRING), argv # <<>>, argv[1] = "analyze", job.argv = argv, NEW type
  PROVE  AskedFor(type) = {LeastAt(Tail(argv), i) :
                             i \in LastWith(Tail(argv), Len(Tail(argv)), type)}
<1> DEFINE args == Tail(argv)
           N == Len(args)
           specs == {i \in 2 .. Len(argv) : /\ argv[i - 1] = "--fail-on"
                                            /\ argv[i] \in DOMAIN FailOnPart
                                            /\ FailOnPart[argv[i]][1] = type}
           mine == {i \in SpecsIn(args, N) : TypeAt(args, i) = type}
<1>1. N \in Nat /\ Len(argv) = N + 1 /\ \A i \in 1 .. N : args[i] = argv[i + 1]
  BY HeadTailProperties, LenProperties
<1> HIDE DEF args, N
<1>2. \A i \in mine : i + 1 \in specs /\ argv[i + 1] = args[i] /\ i \in 1 .. N
  <2> TAKE i \in mine
  <2>1. i \in 2 .. N /\ args[i - 1] = "--fail-on" /\ args[i] \in DOMAIN FailOnPart
        /\ FailOnPart[args[i]][1] = type
    BY DEF SpecsIn, TypeAt
  <2>2. i \in 1 .. N /\ i - 1 \in 1 .. N /\ (i - 1) + 1 = i /\ (i + 1) - 1 = i
        /\ i + 1 \in 2 .. N + 1
    BY <1>1, <2>1
  <2>3. argv[i + 1] = args[i] /\ argv[(i + 1) - 1] = args[i - 1]
    BY <1>1, <2>2
  <2> QED
    BY <1>1, <2>1, <2>2, <2>3
<1>3. \A i \in specs : i - 1 \in mine /\ argv[i] = args[i - 1] /\ i \in 2 .. N + 1
  <2> TAKE i \in specs
  <2>1. i \in 2 .. N + 1 /\ i # 2
    BY <1>1
  <2>2. i - 1 \in 2 .. N /\ i - 1 \in 1 .. N /\ (i - 1) - 1 \in 1 .. N
        /\ (i - 1) + 1 = i /\ ((i - 1) - 1) + 1 = i - 1
    BY <1>1, <2>1
  <2>3. args[i - 1] = argv[i] /\ args[(i - 1) - 1] = argv[i - 1]
    BY <1>1, <2>2
  <2> QED
    BY <2>1, <2>2, <2>3 DEF SpecsIn, TypeAt
<1>4. AskedFor(type) = {Value[FailOnPart[argv[i]][2]] :
                          i \in {i \in specs : \A k \in specs : k <= i}}
  BY DEF AskedFor
<1>5. LastWith(args, N, type) = {i \in mine : \A k \in mine : k <= i}
  BY DEF LastWith
<1> HIDE DEF specs, mine
<1>6. ASSUME NEW i \in specs, \A k \in specs : k <= i
      PROVE  i - 1 \in LastWith(args, N, type)
             /\ LeastAt(args, i - 1) = Value[FailOnPart[argv[i]][2]]
  <2>1. \A k \in mine : k <= i - 1
    <3> TAKE k \in mine
    <3>1. k + 1 <= i /\ k \in 1 .. N /\ i \in 2 .. N + 1
      BY <1>2, <1>3, <1>6
    <3> QED
      BY <1>1, <3>1
  <2> QED
    BY <1>3, <1>5, <2>1 DEF LeastAt
<1>7. ASSUME NEW i \in LastWith(args, N, type)
      PROVE  i + 1 \in specs /\ (\A k \in specs : k <= i + 1)
             /\ LeastAt(args, i) = Value[FailOnPart[argv[i + 1]][2]]
  <2>1. i \in mine /\ \A k \in mine : k <= i
    BY <1>5
  <2>2. \A k \in specs : k <= i + 1
    <3> TAKE k \in specs
    <3>1. k - 1 <= i /\ k \in 2 .. N + 1 /\ i \in 1 .. N
      BY <1>2, <1>3, <2>1
    <3> QED
      BY <1>1, <3>1
  <2> QED
    BY <1>2, <2>1, <2>2 DEF LeastAt
<1>8. {Value[FailOnPart[argv[i]][2]] : i \in {i \in specs : \A k \in specs : k <= i}}
        = {LeastAt(args, i) : i \in LastWith(args, N, type)}
  BY <1>6, <1>7
<1> QED
  BY <1>4, <1>8 DEF args, N

(* What the gate compares is what the command line asks for. *)
LEMMA ReachedIs ==
  ASSUME NEW argv \in Seq(STRING), argv # <<>>, argv[1] = "analyze", job.argv = argv,
         FailOnIs(s.fail_on, Tail(argv), Len(Tail(argv)))
  PROVE  Reached <=> \E f \in DOMAIN FailOnPart : \E n \in AskedFor(FailOnPart[f][1]) :
                        CountOf(FailOnPart[f][1]) >= n
<1> DEFINE args == Tail(argv)
           N == Len(args)
           fo == s.fail_on
<1>1. \A type : AskedFor(type) = {LeastAt(args, i) : i \in LastWith(args, N, type)}
  BY AskedForIs
<1>2. \A type \in DOMAIN fo : \A i \in LastWith(args, N, type) : fo[type] = LeastAt(args, i)
  <2> TAKE type \in DOMAIN fo
  <2>1. PICK k \in LastWith(args, N, type) : fo[type] = LeastAt(args, k)
    BY DEF FailOnIs
  <2>2. \A i \in LastWith(args, N, type) : i = k
    <3> HIDE DEF args, N
    <3> TAKE i \in LastWith(args, N, type)
    <3>1. i \in 2 .. N /\ k \in 2 .. N /\ k <= i /\ i <= k
      BY <2>1, SMT DEF LastWith, SpecsIn
    <3> QED
      BY <3>1, SMT
  <2> QED
    BY <2>1, <2>2
<1>3. FailOnIs(fo, args, N)
  OBVIOUS
<1> HIDE DEF args, N
<1>4. ASSUME Reached
      PROVE  \E f \in DOMAIN FailOnPart : \E n \in AskedFor(FailOnPart[f][1]) :
               CountOf(FailOnPart[f][1]) >= n
  <2>1. PICK type \in DOMAIN fo : CountOf(type) >= fo[type]
    BY <1>4 DEF Reached
  <2>2. PICK i \in LastWith(args, N, type) : fo[type] = LeastAt(args, i)
    BY <1>3 DEF FailOnIs
  <2>3. args[i] \in DOMAIN FailOnPart /\ FailOnPart[args[i]][1] = type
    BY DEF LastWith, SpecsIn, TypeAt
  <2>4. fo[type] \in AskedFor(type)
    BY <1>1, <2>2
  <2> QED
    BY <2>1, <2>3, <2>4
<1>5. ASSUME NEW f \in DOMAIN FailOnPart, NEW n \in AskedFor(FailOnPart[f][1]),
             CountOf(FailOnPart[f][1]) >= n
      PROVE  Reached
  <2> DEFINE type == FailOnPart[f][1]
  <2>1. PICK i \in LastWith(args, N, type) : n = LeastAt(args, i)
    BY <1>1
  <2>2. type \in DOMAIN fo
    <3>1. i \in SpecsIn(args, N) /\ TypeAt(args, i) = type
      BY DEF LastWith
    <3> QED
      BY <1>3, <3>1, Zenon DEF FailOnIs
  <2>3. fo[type] = n
    BY <1>2, <2>1, <2>2
  <2> QED
    BY <1>5, <2>2, <2>3 DEF Reached
<1> QED
  BY <1>4, <1>5

(* From the gate on, the decision stands. *)
GateHeld ==
  rel = "current" /\ th # <<>> =>
    /\ pc \in {"finish", "return"} => ~Reached
    /\ pc \in Exiting => code = 1 \/ (code = 3 <=> Reached)
    /\ exit = 0 => ~Reached
    /\ exit = 3 => Reached
    /\ exit = Aborted /\ s.plugins = <<>> /\ ~ServerRefused => ~Reached

LEMMA GateHeldNext == ASSUME IInv, GateHeld, [Next]_vars PROVE GateHeld'
<1> SUFFICES ASSUME rel' = "current", th' # <<>>
             PROVE  /\ pc' \in {"finish", "return"} => ~Reached'
                    /\ pc' \in Exiting => code' = 1 \/ (code' = 3 <=> Reached')
                    /\ exit' = 0 => ~Reached'
                    /\ exit' = 3 => Reached'
                    /\ exit' = Aborted /\ s'.plugins = <<>> /\ ~ServerRefused' => ~Reached'
  BY DEF GateHeld
<1>1. /\ job' = job /\ rel' = rel /\ env' = env /\ rel \in Releases
      /\ loads \in Seq({"nofile"} \cup Libraries)
      /\ pc # "end" => exit = Running
      /\ pc \in Unruled => th = <<>>
      /\ pc \in Exiting => code \in {0, 1, 3}
  <2>1. job' = job
    BY Moves DEF Moved, Parse
  <2> QED
    BY <2>1, JobFacts DEF rel, env, IInv, Places, Untouched, Leaving
<1>2. UNCHANGED <<s, written>> =>
        (Reached' <=> Reached) /\ (ServerRefused' <=> ServerRefused)
  BY <1>1 DEF Reached, CountOf, ServerRefused
<1> USE DEF GateHeld, Running, Aborted, Killed, Exiting
<1>3. CASE Parse \/ MakeLogger \/ Selfcheck \/ SelfcheckSample \/ ApexBench \/ CurrentBench
  <2>1. pc \in Unruled /\ th' = th
    BY <1>3 DEF Parse, MakeLogger, Selfcheck, SelfcheckSample, ApexBench, CurrentBench,
                Timed, Unruled, Others
  <2> QED
    BY <1>1, <2>1
<1>4. CASE LoadRules
  <2>1. /\ pc = "rules" /\ th = <<>>
        /\ pc' \in {"end", "server"} /\ (pc' = "end" => th' = th)
        /\ (pc' # "end" => exit' = exit)
    BY <1>1, <1>4, StageOrder DEF LoadRules, End, Unruled
  <2> QED
    BY <1>1, <2>1
<1>5. CASE StartServer \/ OpenInput \/ StartWork \/ EndOfInput \/ Unload
  <2>1. /\ \/ pc' \in {"open", "plugins", "work", "unload", "stop"}
           \/ pc' = "destroy" /\ code' = 1
        /\ exit' = Running
    BY <1>1, <1>5, StageOrder
       DEF StartServer, OpenInput, StartWork, EndOfInput, Unload, Leave
  <2> QED
    BY <2>1
<1>6. CASE LoadPlugin
  <2>1. /\ pc' \in {"plugins", "end"} /\ exit' \in {Running, Aborted}
        /\ s' = s /\ 0 < Len(s.plugins)
    BY <1>1, <1>6 DEF LoadPlugin, Log, Stay, End
  <2> QED
    BY <2>1
<1>7. CASE Work
  BY <1>1, <1>7 DEF Work
<1>8. CASE Gate
  <2>1. /\ UNCHANGED <<s, written, th>> /\ exit' = Running
        /\ IF Reached THEN pc' = "destroy" /\ code' = 3 ELSE pc' = "finish"
    BY <1>1, <1>8, StageOrder DEF Gate, Leave, workVars
  <2> QED
    BY <1>2, <2>1
<1>9. CASE Finish
  <2>1. /\ UNCHANGED <<s, written, th>> /\ pc = "finish"
        /\ \/ pc' = "return" /\ exit' = Running
           \/ pc' = "end" /\ exit' = Aborted
    BY <1>1, <1>9, StageOrder DEF Finish, Log, End, workVars
  <2> QED
    BY <1>1, <1>2, <2>1
<1>10. CASE Return
  <2>1. /\ UNCHANGED <<s, written, th>> /\ pc = "return"
        /\ pc' = "destroy" /\ code' = 0 /\ exit' = Running
    BY <1>1, <1>10 DEF Return, Leave, workVars
  <2> QED
    BY <1>1, <1>2, <2>1
<1>11. CASE ExitStep
  <2>1. UNCHANGED <<s, written, th>>
    BY <1>11, ExitSteps
  <2>2. pc = "passed" => FALSE
    BY <1>1, <2>1 DEF Unruled, Others
  <2> QED
    BY <1>1, <1>2, <1>11, <2>1, <2>2, ExitSteps
<1>12. CASE UNCHANGED vars
  <2>1. UNCHANGED <<s, written, th, pc, code, exit>>
    BY <1>12 DEF vars, workVars
  <2> QED
    BY <1>1, <1>2, <2>1
<1> QED
  BY <1>3, <1>4, <1>5, <1>6, <1>7, <1>8, <1>9, <1>10, <1>11, <1>12
     DEF Next, Main, Still, ExitStep

LEMMA GateHeldInvariant == Spec => []GateHeld
<1>1. Init => GateHeld
  BY DEF Init, GateHeld
<1> QED
  BY <1>1, GateHeldNext, Invariant, PTL DEF Spec

(* 3 is the exit code exactly if N findings of a type that --fail-on names  *)
(* were written, N being the last asked for: for command lines of any       *)
(* length, with any options before, between and after, with a server that   *)
(* is up or without one; a run that aborts at its last message had passed.  *)
THEOREM GateIsRight == Spec => []GateDecides
<1>1. IInv /\ SettingsKnown /\ GateHeld => GateDecides
  <2> SUFFICES ASSUME IInv, SettingsKnown, GateHeld, rel = "current", th # <<>>,
                      exit \in {0, 3}
                        \/ (exit = Aborted /\ s.plugins = <<>> /\ ~ServerRefused)
               PROVE  exit = 3 <=>
                        \E f \in DOMAIN FailOnPart : \E n \in AskedFor(FailOnPart[f][1]) :
                          CountOf(FailOnPart[f][1]) >= n
    BY DEF GateDecides
  <2>1. job.argv \in Seq(STRING) /\ rel \in Releases
    BY JobsAssumption, JobFacts DEF IInv, Places
  <2>2. /\ job.argv # <<>> /\ job.argv[1] = "analyze"
        /\ s = Parsed(rel, job.argv) /\ ~Refused(Parsed(rel, job.argv))
    BY DEF SettingsKnown
  <2>3. FailOnIs(s.fail_on, Tail(job.argv), Len(Tail(job.argv)))
    BY <2>1, <2>2, AnalyzeSettings
  <2>4. exit = 3 <=> Reached
    BY DEF GateHeld, Aborted
  <2> QED
    BY <2>1, <2>2, <2>3, <2>4, ReachedIs
<1> QED
  BY <1>1, Invariant, SettingsInvariant, GateHeldInvariant, PTL

-----------------------------------------------------------------------------
(* A command line that is refused ends with 0, 1 or an abort. *)

Exits == {Exit(0), Exit(1), Exit(Aborted)}
Ends(s0) == Settled(s0) \/ s0 \in Exits

LEMMA SetEnds == ASSUME NEW v, NEW s0, Settled(s0), NEW option, NEW t PROVE Ends(Set(v, s0, option, t))
<1>1. CASE ~Refused(Set(v, s0, option, t))
  BY <1>1, SetDoes DEF AfterSet, Ends
<1>2. CASE Refused(Set(v, s0, option, t))
  <2>1. ASSUME NEW new, DOMAIN new = DOMAIN s0 PROVE ~Refused(new)
    BY <2>1 DEF Settled, SettingNames, Refused
  <2>2. CASE option = "--fail-on"
    <3>1. Set(v, s0, option, t) = SetFailOn(s0, t)
      BY <2>2 DEF Set, Settled
    <3>2. SetFailOn(s0, t) \in Exits \/ DOMAIN SetFailOn(s0, t) = DOMAIN s0
      BY DEF SetFailOn, Exits
    <3> QED
      BY <1>2, <2>1, <3>1, <3>2 DEF Ends
  <2>3. CASE option # "--fail-on"
    <3>1. Set(v, s0, option, t) \in Exits \/ DOMAIN Set(v, s0, option, t) = DOMAIN s0
      <4>1. CASE option \in DOMAIN s0.text
        BY <4>1 DEF Set, Settled
      <4>2. CASE option \in {"--window", "--threads", "--iterations", "--metrics", "--plugin"}
        BY <4>2 DEF Set, Settled, Exits
      <4>3. CASE option \notin DOMAIN s0.text \cup {"--window", "--threads", "--iterations",
                                                    "--metrics", "--plugin", "--fail-on"}
        BY <4>3 DEF Set, Settled
      <4> QED
        BY <2>3, <4>1, <4>2, <4>3
    <3> QED
      BY <1>2, <2>1, <3>1 DEF Ends
  <2> QED
    BY <2>2, <2>3
<1> QED
  BY <1>1, <1>2

LEMMA OtherEnds ==
  ASSUME NEW v, NEW command, NEW s0, Ends(s0), NEW t, ~Refused(s0)
  PROVE  Ends(Other(v, command, s0, t))
<1>1. Settled(s0)
  BY ExitRefused DEF Ends, Exits
<1> QED
  BY <1>1 DEF Other, BenchOther, AnalyzeOther, Ends, Exits, Settled, SettingNames

LEMMA StepEnds ==
  ASSUME NEW v, NEW command, NEW st, Shaped(st), Ends(st.s), NEW t
  PROVE  Ends(Step(v, command, st, t).s)
<1>1. CASE Refused(st.s)
  BY <1>1 DEF Step
<1>2. CASE ~Refused(st.s) /\ st.option # ""
  <2>1. Settled(st.s)
    BY <1>2, ExitRefused DEF Ends, Exits
  <2>2. Ends(Set(v, st.s, st.option, t))
    BY <2>1, SetEnds, Zenon
  <2>3. Step(v, command, st, t) = [s |-> Set(v, st.s, st.option, t), option |-> ""]
    BY <1>2 DEF Step
  <2>4. Step(v, command, st, t).s = Set(v, st.s, st.option, t)
    <3>1. \A x : [s |-> x, option |-> ""].s = x
      OBVIOUS
    <3> QED
      BY <2>3, <3>1, Zenon
  <2> QED
    BY <2>2, <2>4, Zenon
<1>3. CASE ~Refused(st.s) /\ st.option = ""
  <2>1. Ends(Other(v, command, st.s, t))
    BY <1>3, OtherEnds
  <2>2. \/ Step(v, command, st, t) = [st EXCEPT !.option = t]
        \/ Step(v, command, st, t) = [st EXCEPT !.s = Other(v, command, st.s, t)]
    BY <1>3 DEF Step
  <2> QED
    BY <2>1, <2>2 DEF Shaped
<1> QED
  BY <1>1, <1>2, <1>3

LEMMA ScanEnds ==
  ASSUME NEW v, NEW command, NEW args, Len(args) \in Nat
  PROVE  Ends(Scan(v, command, args))
<1>1. PICK f : Scans(f, v, command, args)
  BY ScansExist
<1> DEFINE Good(n) == Shaped(f[n]) /\ Ends(f[n].s)
           P == {n \in Nat : n <= Len(args) => Good(n)}
<1>2. 0 \in P
  <2>1. Start.s = Defaults /\ Shaped(Start) /\ f[0] = Start
    BY <1>1 DEF Scans, Start, Shaped
  <2>2. Good(0)
    BY <2>1, DefaultsSettled, Zenon DEF Ends
  <2> QED
    BY <2>2
<1>3. ASSUME NEW n \in Nat, n \in P PROVE n + 1 \in P
  <2> SUFFICES ASSUME n + 1 <= Len(args) PROVE Good(n + 1)
    OBVIOUS
  <2>1. Good(n)
    BY <1>3
  <2>2. n + 1 \in 1 .. Len(args) /\ (n + 1) - 1 = n
    OBVIOUS
  <2>3. f[n + 1] = Step(v, command, f[n], args[n + 1])
    BY <1>1, <2>2 DEF Scans
  <2> QED
    BY <2>1, <2>3, StepEnds, StepKeepsShape, Zenon
<1>4. \A n \in Nat : n \in P
  <2> HIDE DEF P
  <2> QED
    BY <1>2, <1>3, InductionOnNat
<1>5. Good(Len(args))
  BY <1>4
<1> DEFINE e == f[Len(args)]
<1>6. Scan(v, command, args) = IF e.option = "" \/ Refused(e.s) THEN e.s
                               ELSE Other(v, command, e.s, e.option)
  BY <1>1 DEF Scans
<1>7. Ends(e.s)
  BY <1>5
<1> HIDE DEF e
<1> QED
  BY <1>6, <1>7, OtherEnds

LEMMA ParsedEnds ==
  ASSUME NEW v \in Releases, NEW argv \in Seq(STRING), Refused(Parsed(v, argv))
  PROVE  Parsed(v, argv).exit \in {0, 1, Aborted}
<1>1. ASSUME NEW s0, Ends(s0), Refused(s0) PROVE s0.exit \in {0, 1, Aborted}
  <2>1. s0 \in Exits
    BY <1>1, SettledNotRefused DEF Ends
  <2> QED
    BY <2>1 DEF Exits, Exit
<1>2. \A n \in {0, 1, Aborted} : Ends(Exit(n))
  BY DEF Ends, Exits
<1>3. ASSUME argv # <<>>, NEW command PROVE Ends(Scan(v, command, Tail(argv)))
  <2>1. Len(Tail(argv)) \in Nat
    BY <1>3, HeadTailProperties
  <2> QED
    BY <2>1, ScanEnds
<1>4. argv # <<>> => Ends(Settings(v, Tail(argv))) /\ Ends(BenchSettings(v, Tail(argv)))
  BY <1>2, <1>3 DEF Settings, BenchSettings
<1>5. Ends(Parsed(v, argv))
  <2>1. Ends(Defaults)
    BY DefaultsSettled DEF Ends
  <2>2. CASE argv = <<>> \/ Asks(argv[1])
    BY <1>2, <2>2 DEF Parsed
  <2>3. CASE argv # <<>> /\ ~Asks(argv[1]) /\ argv[1] \in Commands[v]
    <3>1. argv[1] \in {"version", "selfcheck", "bench"}
      BY <2>3, ReleasesAre DEF Commands
    <3> QED
      BY <1>2, <1>4, <2>1, <2>3, <3>1 DEF Parsed
  <2>4. CASE argv # <<>> /\ ~Asks(argv[1]) /\ argv[1] \notin Commands[v]
    BY <1>2, <1>4, <2>4 DEF Parsed
  <2> QED
    BY <2>2, <2>3, <2>4
<1> QED
  BY <1>1, <1>5

-----------------------------------------------------------------------------
(* Type correctness. *)

LEMMA JobTypes ==
  ASSUME job \in Jobs
  PROVE  /\ rel \in Releases /\ job.argv \in Seq(STRING)
         /\ env.rules.lines \in Seq(Tokens)
         /\ Input \in Seq(Seq(Tokens)) /\ Len(Input) \in Nat /\ DOMAIN Input = 1 .. Len(Input)
BY JobsAssumption DEF rel, env, Input

(* TypeOK, less what IInv says of the places of main. *)
Exited ==
  /\ pc = "end" => exit \in {Aborted, Killed} \cup 0 .. 3
  /\ exit = 2 => RulesGiven /\ th = <<>>
  /\ code \in {0, 1, 3}
LogFile == out_ \in BOOLEAN /\ (out_ => env.logs = "ok")
IsList(q) == \E S : q \in Seq(S)
Tallied ==
  /\ open \in 0 .. Cardinality(Kept)
  /\ at \in 0 .. Len(Input) /\ IsList(judged) /\ Len(judged) \in 0 .. at

(* A list stays one, and is one longer. *)
LEMMA Appended ==
  ASSUME NEW q, NEW e, IsList(q)
  PROVE  IsList(Append(q, e)) /\ Len(Append(q, e)) = Len(q) + 1 /\ Len(q) \in Nat
<1>1. PICK S : q \in Seq(S)
  BY DEF IsList
<1>2. q \in Seq(S \cup {e}) /\ e \in S \cup {e}
  BY <1>1
<1>3. Append(q, e) \in Seq(S \cup {e}) /\ Len(Append(q, e)) = Len(q) + 1
  BY <1>2
<1> QED
  BY <1>1, <1>3 DEF IsList

LEMMA TypeParts == ASSUME Places, Served, Exited, LogFile, Tallied PROVE TypeOK
<1>1. rel \in DOMAIN Cli /\ Len(Input) \in Nat
  BY JobTypes DEF Places, Releases
<1>2. pc = "end" => exit \in {134, 141} \cup 0 .. 3
  BY DEF Exited, Aborted, Killed
<1>3. pc # "end" => exit = Running
  BY DEF Places
<1>4. pc = "end" <=> exit # Running
  BY <1>2, <1>3 DEF Running
<1>5. exit \in {Running, Aborted, Killed} \cup 0 .. 3
  BY <1>2, <1>3 DEF Running, Aborted, Killed
<1>6. Len(judged) <= at
  BY <1>1 DEF Tallied
<1>7. pc \in {"argv", "logger", "rules", "server", "open", "plugins", "work", "unload",
              "stop", "join", "gate", "finish", "return", "destroy", "destroyJoin",
              "bench", "selfcheck", "sample", "passed", "end"}
  BY DEF Places, Early, Unruled, Others, Working, Closed, Exiting
<1>8. /\ running_ \in BOOLEAN /\ th_ \in {"none", "joinable", "joined"}
      /\ srv \in {"none", "setup", "test", "accept", "end"}
      /\ th_ = "none" <=> srv = "none"
  BY DEF Served
<1> QED
  BY <1>1, <1>4, <1>5, <1>6, <1>7, <1>8 DEF TypeOK, Exited, LogFile, Tallied

LEMMA TypeInit == Init => Exited /\ LogFile /\ Tallied
<1> SUFFICES ASSUME Init PROVE Exited /\ LogFile /\ Tallied
  OBVIOUS
<1>1. Len(Input) \in Nat
  BY JobTypes DEF Init
<1>2. Cardinality(Kept) \in Nat
  BY InitInv, KeptFinite DEF IInv
<1>3. Exited
  BY DEF Init, Exited, Running
<1>4. LogFile
  BY DEF Init, LogFile
<1>5. Tallied
  <2>1. open = 0 /\ at = 0 /\ judged = <<>>
    BY DEF Init
  <2>2. <<>> \in Seq({}) /\ Len(<<>>) = 0
    OBVIOUS
  <2>3. IsList(judged) /\ Len(judged) = 0
    BY <2>1, <2>2, Zenon DEF IsList
  <2> QED
    BY <1>1, <1>2, <2>1, <2>3 DEF Tallied
<1> QED
  BY <1>3, <1>4, <1>5

(* What no step can put wrong. *)
TypeFact ==
  /\ job' = job /\ rel' = rel /\ env' = env /\ Input' = Input /\ rel \in Releases
  /\ job.argv \in Seq(STRING)
  /\ Len(Input) \in Nat /\ DOMAIN Input = 1 .. Len(Input)
  /\ Cardinality(Kept) \in Nat /\ Cardinality(Kept') \in Nat
  /\ loads' = loads => Kept' = Kept
  /\ pc # "end" => exit = Running

LEMMA KeptCounted == Places => Cardinality(Kept) \in Nat
BY KeptFinite

LEMMA TypeFacts == ASSUME IInv, [Next]_vars PROVE TypeFact
<1>1. job' = job
  BY Moves DEF Moved, Parse
<1>2. Places' /\ Places
  BY NextIInv DEF IInv
<1>3. Cardinality(Kept) \in Nat /\ Cardinality(Kept') \in Nat
  <2>1. (Places => Cardinality(Kept) \in Nat)'
    BY KeptCounted, PTL
  <2> QED
    BY <1>2, <2>1, KeptCounted
<1>4. job \in Jobs /\ (pc # "end" => exit = Running)
  BY <1>2 DEF Places
<1> QED
  BY <1>1, <1>3, <1>4, Steady, JobTypes DEF TypeFact

(* Only LoadRules gives exit code 2, and no return does. *)
EndsElsewhere ==
  /\ code' \in {0, 1, 3}
  /\ \/ exit' = exit /\ UNCHANGED <<s, th, pc>>
     \/ exit' = exit /\ pc # "end" /\ pc' # "end"
     \/ pc' = "end" /\ exit' \in {0, 1, 3, 134, 141}
     \/ pc' = "end" /\ exit' = 2 /\ RulesGiven /\ UNCHANGED <<s, th>> /\ pc = "rules"
LEMMA OnlyRulesEndIn2 == ASSUME IInv, Exited, [Next]_vars PROVE EndsElsewhere
<1> USE DEF EndsElsewhere
<1>1. TypeFact
  BY TypeFacts
<1>r. rel \in Releases /\ code \in {0, 1, 3}
  BY <1>1 DEF TypeFact, Exited
<1>2. CASE Parse
  <2>1. CASE Refused(Parsed(rel, job.argv))
    BY <1>2, <1>1, <1>r, <2>1, ParsedEnds DEF Parse, End, TypeFact, Aborted
  <2>2. CASE ~Refused(Parsed(rel, job.argv))
    <3>1. exit' = exit /\ pc = "argv" /\ code' = code
          /\ pc' = IF job.argv[1] = "analyze" THEN "logger" ELSE job.argv[1]
      BY <1>2, <2>2 DEF Parse, Goto
    <3>2. job.argv[1] # "analyze" => job.argv[1] \in {"bench", "selfcheck"}
      BY <1>r, <2>2, CommandsAre
    <3> QED
      BY <1>r, <3>1, <3>2
  <2> QED
    BY <2>1, <2>2
<1>3. CASE LoadRules
  BY <1>3, <1>r, StageOrder DEF LoadRules, End, Aborted
<1>4. CASE MakeLogger \/ OpenInput
  BY <1>4, <1>r, StageOrder DEF MakeLogger, OpenInput, Leave, End, Aborted
<1>s. CASE StartServer \/ StartWork
  BY <1>s, <1>r, StageOrder DEF StartServer, StartWork
<1>5. CASE EndOfInput \/ Unload \/ Gate
  BY <1>5, <1>r, StageOrder DEF EndOfInput, Unload, Gate, Leave, End
<1>6. CASE LoadPlugin \/ Selfcheck \/ SelfcheckSample
  BY <1>6, <1>r DEF LoadPlugin, Selfcheck, SelfcheckSample, Log, End, Stay, Goto, Aborted
<1>7. CASE Finish
  BY <1>7, <1>r, StageOrder DEF Finish, Log, End, Aborted
<1>8. CASE Work \/ Return \/ ApexBench \/ CurrentBench
  BY <1>8, <1>r DEF Work, Return, ApexBench, CurrentBench, Timed, Leave, End
<1>9. CASE UNCHANGED vars
  BY <1>9, <1>r DEF vars
<1>10. CASE ExitStep
  BY <1>10, <1>r, ExitSteps DEF Aborted, Killed, Exiting
<1> QED
  BY <1>2, <1>3, <1>4, <1>s, <1>5, <1>6, <1>7, <1>8, <1>9, <1>10
     DEF Next, Main, Still, ExitStep

LEMMA ExitedNext == ASSUME IInv, Exited, [Next]_vars PROVE Exited'
<1>1. /\ pc # "end" => exit = Running
      /\ pc = "rules" => th = <<>>
  BY DEF IInv, Places, Untouched, Unruled
<1>j. s' = s => RulesGiven' = RulesGiven
  BY TypeFacts, Steady DEF TypeFact
<1>c. EndsElsewhere /\ code' \in {0, 1, 3}
  BY OnlyRulesEndIn2 DEF EndsElsewhere
<1>2. CASE exit' = exit /\ UNCHANGED <<s, th, pc>>
  <2>1. exit' = exit /\ th' = th /\ pc' = pc /\ RulesGiven' = RulesGiven
    BY <1>2, <1>j
  <2> QED
    BY <1>c, <2>1 DEF Exited
<1>3. CASE exit' = exit /\ pc # "end" /\ pc' # "end"
  BY <1>1, <1>c, <1>3 DEF Exited, Running
<1>4. CASE pc' = "end" /\ exit' \in {0, 1, 3, 134, 141}
  <2>1. exit' \in {134, 141} \cup 0 .. 3 /\ exit' # 2
    BY <1>4
  <2> QED
    BY <1>c, <2>1 DEF Exited, Aborted, Killed
<1>5. CASE pc' = "end" /\ exit' = 2 /\ RulesGiven /\ UNCHANGED <<s, th>> /\ pc = "rules"
  <2>0. exit' = 2
    BY <1>5, Zenon
  <2>1. exit' = 2 /\ 2 \in 0 .. 3
    BY <2>0
  <2>2. RulesGiven' /\ th' = <<>>
    BY <1>1, <1>j, <1>5
  <2> QED
    BY <1>c, <2>1, <2>2 DEF Exited
<1> QED
  BY <1>2, <1>3, <1>4, <1>5, <1>c DEF EndsElsewhere

LEMMA LogFileNext == ASSUME IInv, LogFile, [Next]_vars PROVE LogFile'
<1>1. env' = env
  BY TypeFacts DEF TypeFact
<1>2. out_' \in BOOLEAN /\ (out_' => out_ \/ Opened)
  <2>1. CASE Parse \/ LoadRules \/ OpenInput \/ StartWork \/ EndOfInput \/ Unload \/ Gate
             \/ Work \/ Return \/ StartServer \/ StopServer \/ Destroy \/ Server
             \/ ApexBench \/ CurrentBench \/ UNCHANGED vars
    <3>1. out_' = out_
      BY <2>1 DEF Parse, LoadRules, OpenInput, StartWork, EndOfInput, Unload, Gate, Work,
                  Return, StartServer, StopServer, Destroy, Server, Setup, TestRunning, Serve,
                  MainIdle, ApexBench, CurrentBench, Timed, vars
    <3> QED
      BY <3>1, Zenon DEF LogFile
  <2>2. CASE MakeLogger
    <3>1. CASE Logger[rel].eager /\ DirectoryThrows
      <4>1. out_' = out_
        BY <2>2, <3>1, Zenon DEF MakeLogger
      <4> QED
        BY <4>1, Zenon DEF LogFile
    <3>2. CASE ~(Logger[rel].eager /\ DirectoryThrows)
      <4>1. out_' = (Logger[rel].eager /\ Opened)
        BY <2>2, <3>2, Zenon DEF MakeLogger
      <4>2. out_' \in BOOLEAN
        BY <4>1, Zenon
      <4>3. out_' => Opened
        BY <4>1, Zenon
      <4> QED
        BY <4>2, <4>3, Zenon
    <3> QED
      BY <3>1, <3>2, Zenon
  <2>3. CASE LoadPlugin \/ Finish \/ Selfcheck \/ SelfcheckSample \/ SelfcheckPassed
    <3>1. out_' = out_ \/ out_' = (out_ \/ Opened)
      BY <2>3, Zenon DEF LoadPlugin, Finish, Selfcheck, SelfcheckSample, SelfcheckPassed, Log
    <3>2. CASE out_' = out_
      BY <3>2, Zenon DEF LogFile
    <3>3. CASE out_' = (out_ \/ Opened)
      <4>1. out_' \in BOOLEAN
        BY <3>3, Zenon
      <4>2. out_' => out_ \/ Opened
        BY <3>3, Zenon
      <4> QED
        BY <4>1, <4>2, Zenon
    <3> QED
      BY <3>1, <3>2, <3>3, Zenon
  <2> QED
    BY <2>1, <2>2, <2>3 DEF Next, Main, Still
<1> QED
  BY <1>1, <1>2, Zenon DEF LogFile, Opened

(* The lines of one iteration of bench are lines of the input. *)
LEMMA LinesCounted ==
  ASSUME Len(Input) \in Nat, DOMAIN Input = 1 .. Len(Input)
  PROVE  Cardinality({n \in DOMAIN Input : ~Dropped(n)}) \in 0 .. Len(Input)
<1> DEFINE lines == {n \in DOMAIN Input : ~Dropped(n)}
<1>1. IsFiniteSet(1 .. Len(Input)) /\ Cardinality(1 .. Len(Input)) = Len(Input)
  <2>1. ASSUME NEW n \in Nat PROVE IsFiniteSet(1 .. n) /\ Cardinality(1 .. n) = n
    <3>1. 1 \in Int /\ n \in Int
      OBVIOUS
    <3>2. IsFiniteSet(1 .. n) /\ Cardinality(1 .. n) = IF 1 > n THEN 0 ELSE n - 1 + 1
      BY <3>1, FS_Interval, Zenon
    <3> QED
      BY <3>2
  <2> QED
    BY <2>1
<1>2. lines \subseteq 1 .. Len(Input)
  OBVIOUS
<1>3. Cardinality(lines) <= Cardinality(1 .. Len(Input)) /\ IsFiniteSet(lines)
  BY <1>1, <1>2, FS_Subset
<1>4. Cardinality(lines) \in Nat
  BY <1>3, FS_CardinalityType
<1> QED
  BY <1>1, <1>3, <1>4

LEMMA TalliedNext == ASSUME IInv, Tallied, [Next]_vars PROVE Tallied'
<1>1. TypeFact /\ Places /\ Handles /\ Untouched
  BY TypeFacts DEF IInv
<1>f. /\ Input' = Input /\ Len(Input) \in Nat /\ DOMAIN Input = 1 .. Len(Input)
      /\ Cardinality(Kept) \in Nat /\ Cardinality(Kept') \in Nat
      /\ loads' = loads => Kept' = Kept
  BY <1>1 DEF TypeFact
<1>t. /\ open \in 0 .. Cardinality(Kept) /\ at \in 0 .. Len(Input) /\ at \in Nat
      /\ IsList(judged) /\ Len(judged) \in 0 .. at
  BY <1>f DEF Tallied
<1>2. ASSUME loads' = loads, open' = open, at' = at, judged' = judged PROVE Tallied'
  BY <1>2, <1>f, <1>t DEF Tallied, IsList
<1>3. CASE Parse \/ MakeLogger \/ LoadRules \/ StartServer \/ OpenInput \/ StartWork
           \/ EndOfInput \/ Gate \/ Finish \/ Return \/ Selfcheck \/ SelfcheckSample
           \/ UNCHANGED vars
  <2>1. loads' = loads /\ open' = open /\ at' = at /\ judged' = judged
    BY <1>3 DEF Parse, MakeLogger, LoadRules, StartServer, OpenInput, StartWork, EndOfInput,
                Gate, Finish, Return, Selfcheck, SelfcheckSample, vars, plugVars,
                workVars
  <2> QED
    BY <1>2, <2>1
<1>4. CASE LoadPlugin
  <2>1. open' = Cardinality(Kept') /\ at' = at /\ judged' = judged
    BY <1>1, <1>4, KeptGrows DEF LoadPlugin, workVars
  <2> QED
    BY <1>f, <1>t, <2>1 DEF Tallied, IsList
<1>5. CASE Unload
  <2>1. open = Cardinality(Kept)
    BY <1>1, <1>5 DEF Unload, Handles, Places
  <2>2. open' = open - Cardinality(Kept) /\ loads' = loads /\ at' = at /\ judged' = judged
    BY <1>5 DEF Unload, workVars
  <2>3. open' = 0
    BY <1>f, <2>1, <2>2
  <2> QED
    BY <1>f, <1>t, <2>2, <2>3 DEF Tallied, IsList
<1>6. CASE Work
  <2>1. /\ at' = at + 1 /\ at < Len(Input) /\ loads' = loads /\ open' = open
        /\ (judged' = judged \/ \E r : judged' = Append(judged, r))
    BY <1>6 DEF Work, Judge, plugVars
  <2>2. IsList(judged') /\ Len(judged') \in Nat /\ Len(judged') <= Len(judged) + 1
    <3>1. CASE judged' = judged
      BY <1>t, <3>1
    <3>2. ASSUME NEW r, judged' = Append(judged, r)
          PROVE  IsList(judged') /\ Len(judged') \in Nat /\ Len(judged') <= Len(judged) + 1
      <4>1. IsList(Append(judged, r)) /\ Len(Append(judged, r)) = Len(judged) + 1
            /\ Len(judged) \in Nat
        BY <1>t, Appended
      <4>2. IsList(judged') /\ Len(judged') = Len(judged) + 1
        BY <3>2, <4>1, Zenon
      <4> QED
        BY <4>1, <4>2
    <3> QED
      BY <2>1, <3>1, <3>2
  <2>3. at' \in 0 .. Len(Input) /\ Len(judged') \in 0 .. at'
    BY <1>f, <1>t, <2>1, <2>2
  <2> QED
    BY <1>f, <1>t, <2>1, <2>2, <2>3 DEF Tallied
<1>7. CASE ApexBench \/ CurrentBench
  <2>1. /\ pc = "bench" /\ loads' = loads /\ open' = open /\ judged' = judged
        /\ \/ at' \in {at, 0, Cardinality({n \in DOMAIN Input : ~Dropped(n)}), Len(Input)}
           \/ Input # <<>> /\ at' = Len(Input) - 1
    BY <1>7 DEF ApexBench, CurrentBench, Timed, plugVars
  <2>2. Input # <<>> => Len(Input) # 0
    <3>1. Input \in Seq(Seq(Tokens))
      BY <1>1, JobTypes DEF Places
    <3> QED
      BY <3>1
  <2>3. at' \in 0 .. Len(Input)
    BY <1>f, <1>t, <2>1, <2>2, LinesCounted
  <2>4. judged' = <<>>
    BY <1>1, <2>1 DEF Untouched, Early, Unruled, Others
  <2>5. Len(judged') = 0 /\ IsList(judged')
    BY <1>t, <2>1, <2>4
  <2>6. open' \in 0 .. Cardinality(Kept')
    BY <1>f, <1>t, <2>1
  <2>7. Input' = Input /\ Len(judged') \in 0 .. at'
    BY <1>f, <2>3, <2>5
  <2> QED
    BY <1>f, <2>3, <2>5, <2>6, <2>7 DEF Tallied
<1>8. CASE ExitStep
  BY <1>2, <1>8, ExitSteps
<1> QED
  BY <1>3, <1>4, <1>5, <1>6, <1>7, <1>8 DEF Next, Main, Still, ExitStep

(* Every state of a run is well formed: the exit code is there exactly when *)
(* the process is gone, it is one of those README.md lists, an abort or a   *)
(* SIGPIPE, no more handles are open than plugins are kept, no more records *)
(* judged than lines read.                                                  *)
THEOREM TypeCorrect == Spec => []TypeOK
<1>1. Init => Exited /\ LogFile /\ Tallied
  BY TypeInit
<1>2. IInv /\ (Exited /\ LogFile /\ Tallied) /\ [Next]_vars => (Exited /\ LogFile /\ Tallied)'
  BY ExitedNext, LogFileNext, TalliedNext
<1>3. IInv /\ (Exited /\ LogFile /\ Tallied) => TypeOK
  BY TypeParts DEF IInv
<1> QED
  BY <1>1, <1>2, <1>3, Invariant, PTL DEF Spec
-----------------------------------------------------------------------------
(* The readers of JSON, on texts that are plain objects. *)

LEMMA OrElseIs ==
  /\ \A x, default : OrElse({x}, default) = x
  /\ \A default : OrElse({}, default) = default
BY DEF OrElse

First(hits, i, j) ==
  /\ hits \subseteq Nat /\ i \in Nat /\ j \in hits /\ i <= j
  /\ \A k \in hits : i <= k => j <= k
LEMMA FindFirst ==
  ASSUME NEW hits, NEW i, NEW j, First(hits, i, j)
  PROVE  Find(hits, i) = {j}
<1>1. j \in Nat /\ j \in hits /\ i \in Nat /\ \A m \in hits : m \in Nat
  BY DEF First
<1>2. j >= i /\ \A k \in hits : k >= i => j <= k
  BY <1>1 DEF First
<1>3. ASSUME NEW m \in hits, m >= i, \A k \in hits : k >= i => m <= k PROVE m = j
  BY <1>1, <1>2, <1>3
<1> QED
  BY <1>1, <1>2, <1>3 DEF Find

(* A key that is not there has no value. *)
LEMMA AbsentKey ==
  ASSUME NEW text, NEW key, Where(text, {Str(key)}) = {}
  PROVE  GetString(text, key) = {} /\ \A skipped : NumberAt(text, key, skipped) = {}
<1>1. KeyAt(text, key) = {}
  BY DEF KeyAt, Find
<1>2. After(text, key) = {}
  BY <1>1 DEF After
<1> QED
  BY <1>2 DEF GetString, NumberAt

(* The value of a key that is there once, with colon and value right after  *)
(* it, is that value.                                                       *)
LEMMA PresentKey ==
  ASSUME NEW text \in Seq(Tokens), NEW key, NEW i \in DOMAIN text, i + 2 \in DOMAIN text,
         Where(text, {Str(key)}) = {i},
         text[i + 1] = Colon, IsStr(text[i]), IsStr(text[i + 2]) \/ IsNum(text[i + 2])
  PROVE  /\ \A skipped \in {{}, {Tab}} :
              NumberAt(text, key, skipped) = IF IsNum(text[i + 2]) THEN {text[i + 2][2]} ELSE {}
         /\ IsStr(text[i + 2]) => GetString(text, key) = {text[i + 2][2]}
<1>1. /\ DOMAIN text \subseteq Nat /\ i \in Nat /\ 1 <= i
      /\ i + 1 \in DOMAIN text /\ i + 1 \in Nat /\ i + 2 \in Nat
  <2>1. DOMAIN text = 1 .. Len(text) /\ Len(text) \in Nat
    OBVIOUS
  <2> QED
    BY <2>1
<1>2. KeyAt(text, key) = {i}
  <2>1. First({i}, 1, i)
    BY <1>1 DEF First
  <2> QED
    BY <2>1, FindFirst DEF KeyAt
<1>3. Colon[1] = "colon" /\ Tab[1] = "tab"
  BY DEF Colon, Tab
<1>4. After(text, key) = {i + 1}
  <2>1. Where(text, {Colon}) \subseteq Nat /\ i + 1 \in Where(text, {Colon})
        /\ i \notin Where(text, {Colon})
    BY <1>1, <1>3 DEF Where, IsStr
  <2>2. \A k \in Where(text, {Colon}) : i <= k => i + 1 <= k
    BY <1>1, <2>1
  <2>3. First(Where(text, {Colon}), i, i + 1)
    <3>1. i <= i + 1
      BY <1>1
    <3> QED
      BY <1>1, <2>1, <2>2, <3>1, Zenon DEF First
  <2> QED
    BY <1>2, <2>3, FindFirst DEF After
<1>5. ASSUME NEW skipped \in {{}, {Tab}}
      PROVE  NumberAt(text, key, skipped) = IF IsNum(text[i + 2]) THEN {text[i + 2][2]} ELSE {}
  <2> DEFINE hits == DOMAIN text \ Where(text, skipped)
  <2>1. text[i + 2] # Tab
    BY <1>3 DEF IsStr, IsNum
  <2>2. hits \subseteq Nat /\ i + 2 \in hits
    BY <1>1, <2>1 DEF Where
  <2>3. \A k \in hits : (i + 1) + 1 <= k => i + 2 <= k
    BY <1>1, <2>2
  <2> HIDE DEF hits
  <2>4. First(hits, (i + 1) + 1, i + 2)
    BY <1>1, <2>2, <2>3 DEF First
  <2>5. UNION {Find(hits, c + 1) : c \in {i + 1}} = {i + 2}
    BY <2>4, FindFirst
  <2>6. NumberAt(text, key, skipped) = {text[v][2] : v \in {n \in {i + 2} : IsNum(text[n])}}
    BY <1>4, <2>5 DEF NumberAt, hits
  <2> QED
    BY <2>6
<1>6. ASSUME IsStr(text[i + 2]) PROVE GetString(text, key) = {text[i + 2][2]}
  <2>1. StringsOf(text) \subseteq Nat /\ i + 2 \in StringsOf(text)
        /\ i + 1 \notin StringsOf(text)
    BY <1>1, <1>3, <1>6 DEF StringsOf, IsStr
  <2>2. \A k \in StringsOf(text) : i + 1 <= k => i + 2 <= k
    <3> TAKE k \in StringsOf(text)
    <3>1. k \in Nat /\ k # i + 1 /\ i \in Nat
      BY <1>1, <2>1
    <3> QED
      BY <3>1
  <2>3. First(StringsOf(text), i + 1, i + 2)
    BY <1>1, <2>1, <2>2 DEF First
  <2> QED
    BY <1>4, <2>3, FindFirst DEF GetString
<1> QED
  BY <1>5, <1>6
LEMMA TokensAre ==
  ASSUME NEW t \in Tokens
  PROVE  /\ IsStr(t) => t = Str(t[2]) /\ t[2] \in STRING
         /\ IsNum(t) => t[2] \in Int
         /\ IsStr(t) => ~IsNum(t)
         /\ t \in {Colon, Comma} => ~IsStr(t) /\ ~IsNum(t)
<1>1. ~IsStr(Colon) /\ ~IsStr(Comma) /\ ~IsStr(Tab) /\ ~IsNum(Colon) /\ ~IsNum(Comma)
      /\ ~IsNum(Tab)
  BY DEF IsStr, IsNum, Colon, Comma, Tab
<1>2. ASSUME t \in {"str"} \X STRING PROVE t = Str(t[2]) /\ t[2] \in STRING /\ ~IsNum(t)
  BY <1>2 DEF Str, IsNum
<1>3. ASSUME t \in {"num"} \X Int PROVE t[2] \in Int /\ ~IsStr(t)
  BY <1>3 DEF IsStr
<1> QED
  BY <1>1, <1>2, <1>3 DEF Tokens

(* Reading a number into 64 or 32 bits. *)
LEMMA WrapIs ==
  ASSUME NEW v \in Int, NEW end \in Nat, end # 0
  PROVE  Wrap(v, end) \in Int /\ (Fits(v, end) => Wrap(v, end) = v)
<1>1. ASSUME NEW a \in Int, NEW n \in Nat, n # 0
      PROVE  a % n \in Int /\ (0 <= a /\ a < n => a % n = a)
  BY <1>1
<1>2. 2 * end \in Nat /\ 2 * end # 0 /\ v + end \in Int
  OBVIOUS
<1>3. (v + end) % (2 * end) \in Int
      /\ (0 <= v + end /\ v + end < 2 * end => (v + end) % (2 * end) = v + end)
  BY <1>1, <1>2
<1>4. Fits(v, end) => 0 <= v + end /\ v + end < 2 * end
  BY DEF Fits
<1> QED
  BY <1>3, <1>4 DEF Wrap

(* An entry of a plain rules file. *)
LEMMA EntryIs ==
  ASSUME PlainRules, Rules \in Seq(Tokens), NEW i \in Entries
  PROVE  /\ i \in DOMAIN Rules /\ i + 2 \in DOMAIN Rules
         /\ Where(Rules, {Str(Rules[i][2])}) = {i}
         /\ Rules[i + 1] = Colon /\ IsStr(Rules[i]) /\ IsNum(Rules[i + 2])
         /\ Rules[i][2] \in STRING /\ Rules[i + 2][2] \in Int
<1>1. DOMAIN Rules = 1 .. Len(Rules) /\ Len(Rules) \in Nat /\ Len(Rules) % 4 = 3
  BY DEF PlainRules
<1>2. i \in 1 .. Len(Rules) /\ i % 4 = 1
  BY <1>1 DEF Entries
<1>3. i + 1 \in 1 .. Len(Rules) /\ i + 2 \in 1 .. Len(Rules)
      /\ (i + 1) % 4 = 2 /\ (i + 2) % 4 = 3
  BY <1>1, <1>2
<1>4. \A n \in DOMAIN Rules : CASE n % 4 = 1 -> IsStr(Rules[n])
                                [] n % 4 = 2 -> Rules[n] = Colon
                                [] n % 4 = 3 -> IsNum(Rules[n])
                                [] OTHER -> Rules[n] = Comma
  BY DEF PlainRules
<1>5. IsStr(Rules[i]) /\ Rules[i + 1] = Colon /\ IsNum(Rules[i + 2])
  <2>1. IsStr(Rules[i])
    BY <1>1, <1>2, <1>4
  <2>2. Rules[i + 1] = Colon
    BY <1>1, <1>3, <1>4
  <2>3. IsNum(Rules[i + 2])
    BY <1>1, <1>3, <1>4
  <2> QED
    BY <2>1, <2>2, <2>3
<1>6. \A n \in DOMAIN Rules : Rules[n] \in Tokens
  BY <1>1
<1>7. Rules[i] = Str(Rules[i][2]) /\ Rules[i][2] \in STRING /\ Rules[i + 2][2] \in Int
  BY <1>1, <1>2, <1>3, <1>5, <1>6, TokensAre
<1>8. ASSUME NEW n \in DOMAIN Rules, Rules[n] = Rules[i] PROVE n = i
  <2>1. IsStr(Rules[n]) /\ ~IsNum(Rules[n]) /\ Rules[n] # Colon /\ Rules[n] # Comma
    BY <1>5, <1>6, <1>8, TokensAre
  <2>2. n % 4 = 1
    BY <1>4, <2>1
  <2> QED
    BY <1>8, <2>2 DEF PlainRules, Entries
<1>9. Where(Rules, {Str(Rules[i][2])}) = {n \in DOMAIN Rules : Rules[n] = Rules[i]}
  BY <1>7 DEF Where
<1> QED
  BY <1>1, <1>2, <1>3, <1>5, <1>7, <1>8, <1>9
(* The thresholds of a release. *)
EarlierDefaults == IF rel = "apex" THEN ApexThresholds ELSE FinalThresholds
LEMMA ThresholdsAre ==
  ASSUME rel \in Releases, NEW file
  PROVE  Thresholds(file) = IF rel = "current" THEN CurrentRules(file)
                            ELSE EarlierRules(file, EarlierDefaults)
BY ReleasesAre DEF Thresholds, EarlierDefaults, FinalRules, MaxRules, UltraRules, ApexRules,
   MaxThresholds, UltraThresholds

LEMMA LoadedIs ==
  ASSUME NEW defaults, NEW int
  PROVE  /\ DOMAIN Loaded(defaults, int) = DOMAIN defaults
         /\ \A k \in DOMAIN defaults : Loaded(defaults, int)[k] = OrElse(int[k], defaults[k])
BY DEF Loaded

(* What the current loader makes of an entry. *)
LEMMA CurrentAsWritten ==
  ASSUME PlainRules, Rules \in Seq(Tokens), NEW i \in Entries, NEW t \in CurrentRules(Rules),
         Rules[i][2] \in DOMAIN t
  PROVE  t[Rules[i][2]] = Wrap(Wrap(Rules[i + 2][2], LongEnd), IntEnd)
<1> DEFINE key == Rules[i][2]
           v == Rules[i + 2][2]
           int == [k \in DOMAIN CurrentThresholds |-> CurrentFindInt(Rules, k)]
<1>1. t = Loaded(CurrentThresholds, int)
  BY DEF CurrentRules
<1>2. key \in DOMAIN CurrentThresholds /\ t[key] = OrElse(int[key], CurrentThresholds[key])
  BY <1>1, LoadedIs
<1>3. NumberAt(Rules, key, {Tab}) = {v}
  BY EntryIs, PresentKey
<1>4. CurrentGetInt(Rules, key) = {Wrap(v, LongEnd)}
  BY <1>3 DEF CurrentGetInt
<1>5. CurrentFindInt(Rules, key) = {Wrap(Wrap(v, LongEnd), IntEnd)}
  BY <1>4 DEF CurrentFindInt
<1>6. int[key] = {Wrap(Wrap(v, LongEnd), IntEnd)}
  BY <1>2, <1>5
<1> HIDE DEF int
<1> QED
  BY <1>2, <1>6, OrElseIs

(* What the loaders before it make of one. *)
LEMMA EarlierAsWritten ==
  ASSUME PlainRules, Rules \in Seq(Tokens), NEW i \in Entries,
         NEW defaults, NEW t \in EarlierRules(Rules, defaults), Rules[i][2] \in DOMAIN t
  PROVE  LET v == Rules[i + 2][2]
         IN  IF v >= 0 THEN Fits(v, IntEnd) /\ t[Rules[i][2]] = v
             ELSE t[Rules[i][2]] = defaults[Rules[i][2]]
<1> DEFINE key == Rules[i][2]
           v == Rules[i + 2][2]
           int == [k \in DOMAIN defaults |-> EarlierFindInt(Rules, k)]
<1>1. /\ t = Loaded(defaults, int)
      /\ ~ \E k \in DOMAIN int : \E n \in int[k] : ~Fits(n, IntEnd)
  BY DEF EarlierRules
<1>2. key \in DOMAIN defaults /\ t[key] = OrElse(int[key], defaults[key])
  BY <1>1, LoadedIs
<1>3. NumberAt(Rules, key, {Tab}) = {v}
  BY EntryIs, PresentKey
<1>4. int[key] = {n \in {v} : n >= 0}
  BY <1>2, <1>3 DEF EarlierFindInt
<1>5. key \in DOMAIN int
  BY <1>2
<1> HIDE DEF int, v, key
<1>6. CASE v >= 0
  <2>1. int[key] = {v}
    BY <1>4, <1>6
  <2>2. Fits(v, IntEnd) /\ t[key] = v
    BY <1>1, <1>2, <1>5, <2>1, OrElseIs
  <2> QED
    BY <1>6, <2>2 DEF v, key
<1>7. CASE ~(v >= 0)
  <2>1. int[key] = {}
    BY <1>4, <1>7
  <2>2. t[key] = defaults[key]
    BY <1>2, <2>1, OrElseIs
  <2> QED
    BY <1>7, <2>2 DEF v, key
<1> QED
  BY <1>6, <1>7

(* With no rules file the defaults are in force. *)
LEMMA NoRules ==
  ASSUME NEW defaults, NEW t \in EarlierRules(<<>>, defaults), NEW k \in DOMAIN defaults
  PROVE  t[k] = defaults[k]
<1> DEFINE int == [j \in DOMAIN defaults |-> EarlierFindInt(<<>>, j)]
<1>1. t = Loaded(defaults, int)
  BY DEF EarlierRules
<1>2. Where(<<>>, {Str(k)}) = {}
  BY DEF Where
<1>3. int[k] = {}
  BY <1>2, AbsentKey DEF EarlierFindInt
<1> HIDE DEF int
<1>4. t[k] = OrElse(int[k], defaults[k])
  BY <1>1, LoadedIs, Zenon
<1>5. OrElse(int[k], defaults[k]) = defaults[k]
  BY <1>3, OrElseIs, Zenon
<1> QED
  BY <1>4, <1>5

(* The rules in force are what the loader makes of the file. *)
RulesRead == IF RulesGiven THEN env.rules.lines ELSE <<>>
RulesInForce ==
  /\ pc \in {"server", "open", "plugins", "work"} => th # <<>>
  /\ th # <<>> => th \in Thresholds(RulesRead)

LEMMA InForceAsWritten ==
  ASSUME Places, RulesInForce
  PROVE  ThresholdsAsWritten
<1> SUFFICES ASSUME th # <<>>, RulesGiven, PlainRules,
                    NEW i \in Entries, Rules[i][2] \in DOMAIN th
             PROVE  LET v == Rules[i + 2][2]
                        t == th[Rules[i][2]]
                    IN  /\ v >= 0 /\ v < IntEnd => t = v
                        /\ v >= IntEnd => rel = "current"
                        /\ v < 0 /\ rel # "current" => \A default \in Thresholds(<<>>) :
                                                          t = default[Rules[i][2]]
  BY DEF ThresholdsAsWritten
<1>1. rel \in Releases /\ Rules \in Seq(Tokens) /\ th \in Thresholds(Rules)
  BY JobTypes DEF Places, RulesInForce, RulesRead, Rules
<1>2. CASE rel = "current"
  <2>1. th[Rules[i][2]] = Wrap(Wrap(Rules[i + 2][2], LongEnd), IntEnd)
    BY <1>1, <1>2, ThresholdsAre, CurrentAsWritten
  <2>2. ASSUME NEW v \in Int, v >= 0, v < IntEnd PROVE Wrap(Wrap(v, LongEnd), IntEnd) = v
    <3>1. Fits(v, LongEnd) /\ Fits(v, IntEnd)
      BY <2>2, WidthAssumption DEF Fits
    <3>2. IntEnd \in Nat /\ IntEnd # 0 /\ LongEnd \in Nat /\ LongEnd # 0
      BY WidthAssumption
    <3>3. Wrap(v, LongEnd) = v
      BY <3>1, <3>2, WrapIs
    <3>4. Wrap(v, IntEnd) = v
      BY <3>1, <3>2, WrapIs
    <3> QED
      BY <3>3, <3>4
  <2>3. Rules[i + 2][2] \in Int
    BY <1>1, EntryIs
  <2> QED
    BY <1>2, <2>1, <2>2, <2>3
<1>3. CASE rel # "current"
  <2>1. th \in EarlierRules(Rules, EarlierDefaults)
    BY <1>1, <1>3, ThresholdsAre
  <2>2. DOMAIN th = DOMAIN EarlierDefaults
    BY <2>1, LoadedIs DEF EarlierRules
  <2>3. ASSUME NEW default \in Thresholds(<<>>)
        PROVE  default[Rules[i][2]] = EarlierDefaults[Rules[i][2]]
    <3>1. default \in EarlierRules(<<>>, EarlierDefaults)
      BY <1>1, <1>3, ThresholdsAre
    <3>2. Rules[i][2] \in DOMAIN EarlierDefaults
      BY <2>2
    <3> QED
      BY <3>1, <3>2, NoRules, Zenon
  <2>4. LET v == Rules[i + 2][2]
        IN  IF v >= 0 THEN Fits(v, IntEnd) /\ th[Rules[i][2]] = v
            ELSE th[Rules[i][2]] = EarlierDefaults[Rules[i][2]]
    BY <1>1, <2>1, EarlierAsWritten
  <2>5. Rules[i + 2][2] \in Int /\ IntEnd \in Nat
    BY <1>1, EntryIs, WidthAssumption
  <2> QED
    BY <2>3, <2>4, <2>5 DEF Fits
<1> QED
  BY <1>2, <1>3
LEMMA NumbersAre ==
  ASSUME NEW file \in Seq(Tokens), NEW key, NEW skipped
  PROVE  NumberAt(file, key, skipped) \subseteq Int
<1>1. ASSUME NEW n, n \in UNION {Find(DOMAIN file \ Where(file, skipped), c + 1) :
                                   c \in After(file, key)}
      PROVE  n \in DOMAIN file
  BY <1>1 DEF Find
<1>2. \A n \in DOMAIN file : IsNum(file[n]) => file[n][2] \in Int
  BY TokensAre
<1> QED
  BY <1>1, <1>2 DEF NumberAt

LEMMA ThresholdTypes ==
  ASSUME rel \in Releases, NEW file \in Seq(Tokens), NEW t \in Thresholds(file)
  PROVE  /\ t # <<>> /\ t.portscan_attempts \in Int /\ t.ddos_unique \in Int
<1>1. \A key, skipped : NumberAt(file, key, skipped) \subseteq Int
  BY NumbersAre
<1>2. \A key : CurrentFindInt(file, key) \subseteq Int /\ EarlierFindInt(file, key) \subseteq Int
  <2> TAKE key
  <2>1. IntEnd \in Nat /\ IntEnd # 0 /\ LongEnd \in Nat /\ LongEnd # 0
    BY WidthAssumption
  <2>2. CurrentGetInt(file, key) \subseteq Int
    BY <1>1, <2>1, WrapIs DEF CurrentGetInt
  <2>3. CurrentFindInt(file, key) \subseteq Int
    BY <2>1, <2>2, WrapIs DEF CurrentFindInt
  <2>4. EarlierFindInt(file, key) \subseteq Int
    BY <1>1 DEF EarlierFindInt
  <2> QED
    BY <2>3, <2>4
<1>3. ASSUME NEW S, S \subseteq Int, NEW default \in Int PROVE OrElse(S, default) \in Int
  BY <1>3 DEF OrElse
<1>4. ASSUME NEW defaults, NEW int, t = Loaded(defaults, int),
             {"portscan_attempts", "ddos_unique"} \subseteq DOMAIN defaults,
             \A k \in DOMAIN defaults : int[k] \subseteq Int /\ defaults[k] \in Int
      PROVE  t # <<>> /\ t.portscan_attempts \in Int /\ t.ddos_unique \in Int
  <2>1. \A k \in {"portscan_attempts", "ddos_unique"} : t[k] \in Int
    BY <1>3, <1>4, LoadedIs
  <2>2. "ddos_unique" \in DOMAIN t
    BY <1>4, LoadedIs
  <2> QED
    BY <2>1, <2>2
<1>5. CASE rel = "current"
  <2>1. t = Loaded(CurrentThresholds,
                   [k \in DOMAIN CurrentThresholds |-> CurrentFindInt(file, k)])
    BY <1>5, ThresholdsAre DEF CurrentRules
  <2>2. /\ {"portscan_attempts", "ddos_unique"} \subseteq DOMAIN CurrentThresholds
        /\ \A k \in DOMAIN CurrentThresholds : CurrentThresholds[k] \in Int
    BY DEF CurrentThresholds
  <2> QED
    BY <1>2, <1>4, <2>1, <2>2
<1>6. CASE rel # "current"
  <2>1. t = Loaded(EarlierDefaults, [k \in DOMAIN EarlierDefaults |-> EarlierFindInt(file, k)])
    BY <1>6, ThresholdsAre DEF EarlierRules
  <2>2. /\ {"portscan_attempts", "ddos_unique"} \subseteq DOMAIN EarlierDefaults
        /\ \A k \in DOMAIN EarlierDefaults : EarlierDefaults[k] \in Int
    BY DEF EarlierDefaults, ApexThresholds, FinalThresholds
  <2> QED
    BY <1>2, <1>4, <2>1, <2>2
<1> QED
  BY <1>5, <1>6
(* Between rules and the end of the work there is no other way in. *)
LEMMA OnlyAfterRules ==
  ASSUME IInv, [Next]_vars, pc' \in {"server", "open", "plugins", "work"}
  PROVE  LoadRules \/ pc \in {"server", "open", "plugins", "work"}
<1>1. rel \in Releases /\ Places
  BY JobFacts DEF IInv
<1>2. CASE Parse
  <2>1. pc' = "end" \/ pc' = "logger" \/ pc' \in {"bench", "selfcheck"}
    BY <1>1, <1>2, CommandsAre DEF Parse, Goto, End
  <2> QED
    BY <2>1
<1>3. CASE MakeLogger \/ StartServer \/ OpenInput \/ StartWork
  BY <1>1, <1>3, StageOrder DEF MakeLogger, StartServer, OpenInput, StartWork, End, Leave
<1>4. CASE EndOfInput \/ Unload \/ Gate \/ Finish
  BY <1>1, <1>4, StageOrder DEF EndOfInput, Unload, Gate, Finish, Log, End, Leave
<1>5. CASE LoadPlugin \/ Selfcheck \/ SelfcheckSample
  BY <1>5 DEF LoadPlugin, Selfcheck, SelfcheckSample, Log, End, Stay, Goto
<1>6. CASE Work \/ Return \/ ApexBench \/ CurrentBench \/ UNCHANGED vars
  BY <1>6 DEF Work, Return, ApexBench, CurrentBench, Timed, vars, End, Leave
<1>7. CASE ExitStep
  BY <1>7, ExitSteps
<1> QED
  BY <1>2, <1>3, <1>4, <1>5, <1>6, <1>7 DEF Next, Main, Still, ExitStep

LEMMA RulesInForceInvariant == Spec => []RulesInForce
<1>1. Init => RulesInForce
  BY DEF Init, RulesInForce
<1>2. IInv /\ RulesInForce /\ [Next]_vars => RulesInForce'
  <2> SUFFICES ASSUME IInv, RulesInForce, [Next]_vars PROVE RulesInForce'
    OBVIOUS
  <2>1. /\ rel \in Releases /\ (pc \in Unruled => th = <<>>)
        /\ Rules \in Seq(Tokens)
    BY JobFacts, JobTypes DEF IInv, Untouched, Places, Rules
  <2>2. CASE Parse
    <3>1. pc = "argv" /\ th' = th /\ th = <<>>
      BY <2>1, <2>2 DEF Parse, Unruled
    <3>2. pc' \notin {"server", "open", "plugins", "work"}
      BY <3>1, OnlyAfterRules, <2>2 DEF LoadRules
    <3> QED
      BY <3>1, <3>2 DEF RulesInForce
  <2>3. ASSUME ~Parse
        PROVE  /\ rel' = rel /\ env' = env /\ s' = s
               /\ RulesRead' = RulesRead /\ Thresholds(RulesRead)' = Thresholds(RulesRead)
    <3>1. rel' = rel /\ env' = env /\ s' = s
      BY <2>3, Moves DEF Moved
    <3>2. RulesRead' = RulesRead
      BY <3>1 DEF RulesRead, RulesGiven
    <3> QED
      BY <3>1, <3>2 DEF Thresholds
  <2>4. CASE ~Parse /\ LoadRules
    <3>1. /\ th = <<>>
          /\ \/ th' = th /\ pc' = "end"
             \/ th' \in Thresholds(RulesRead)
      BY <2>1, <2>4 DEF LoadRules, End, Unruled, RulesRead, Rules
    <3>2. RulesRead \in Seq(Tokens)
      <4>1. <<>> \in Seq(Tokens)
        OBVIOUS
      <4> QED
        BY <2>1, <4>1, Zenon DEF RulesRead, Rules
    <3>3. th' \in Thresholds(RulesRead) => th' # <<>>
      BY <2>1, <3>2, ThresholdTypes
    <3> QED
      BY <2>3, <2>4, <3>1, <3>3 DEF RulesInForce
  <2>5. CASE ~Parse /\ ~LoadRules
    <3>1. th' = th
      BY <2>5, Moves
    <3> QED
      BY <2>3, <2>5, <3>1, OnlyAfterRules DEF RulesInForce
  <2> QED
    BY <2>2, <2>4, <2>5
<1> QED
  BY <1>1, <1>2, Invariant, PTL DEF Spec

(* A threshold in force is the number in the rules file if that is an int   *)
(* and not negative; with a larger one only 5.0.0 goes on, and a negative   *)
(* one leaves the default of the others: for plain rules files of any       *)
(* length and integers of any width.                                        *)
THEOREM RulesAsWritten == Spec => []ThresholdsAsWritten
<1>1. IInv /\ RulesInForce => ThresholdsAsWritten
  BY InForceAsWritten DEF IInv
<1> QED
  BY <1>1, Invariant, RulesInForceInvariant, PTL
-----------------------------------------------------------------------------
(* The readers of lines. *)

Here(line) == {i \in DOMAIN line : i % 4 = 1}
Field(line, key) == {line[i + 2][2] : i \in {i \in Here(line) : line[i][2] = key}}
InRange(line) ==
  \A i \in Here(line) : line[i][2] \in Numbers => Fits(line[i + 2][2], LongEnd)

(* A member of a plain object. *)
LEMMA MemberIs ==
  ASSUME NEW line \in Seq(Tokens), PlainObject(line), NEW i \in Here(line)
  PROVE  /\ i \in DOMAIN line /\ i + 2 \in DOMAIN line
         /\ line[i][2] \in Strings \cup Numbers
         /\ Where(line, {Str(line[i][2])}) = {i}
         /\ line[i + 1] = Colon /\ IsStr(line[i])
         /\ IF line[i][2] \in Numbers THEN IsNum(line[i + 2]) /\ line[i + 2][2] \in Int
            ELSE IsStr(line[i + 2])
<1>1. DOMAIN line = 1 .. Len(line) /\ Len(line) \in Nat /\ Len(line) % 4 = 3
  BY DEF PlainObject
<1>2. i \in 1 .. Len(line) /\ i % 4 = 1
  BY <1>1 DEF Here
<1>3. i + 1 \in 1 .. Len(line) /\ i + 2 \in 1 .. Len(line)
      /\ (i + 1) % 4 = 2 /\ (i + 2) % 4 = 3 /\ (i + 2) - 2 = i
  BY <1>1, <1>2
<1>4. \A n \in DOMAIN line :
        /\ n % 4 = 1 => IsStr(line[n]) /\ line[n][2] \in Strings \cup Numbers
        /\ n % 4 = 2 => line[n] = Colon
        /\ n % 4 = 3 => IF line[n - 2][2] \in Numbers THEN IsNum(line[n])
                        ELSE IsStr(line[n]) /\ line[n][2] \notin Strings \cup Numbers
        /\ n % 4 \notin {1, 2, 3} => line[n] = Comma
  BY DEF PlainObject
<1>5. /\ IsStr(line[i]) /\ line[i][2] \in Strings \cup Numbers /\ line[i + 1] = Colon
      /\ IF line[i][2] \in Numbers THEN IsNum(line[i + 2]) ELSE IsStr(line[i + 2])
  BY <1>1, <1>2, <1>3, <1>4
<1>6. \A n \in DOMAIN line : line[n] \in Tokens
  BY <1>1
<1>7. line[i] = Str(line[i][2]) /\ (IsNum(line[i + 2]) => line[i + 2][2] \in Int)
  BY <1>1, <1>2, <1>3, <1>5, <1>6, TokensAre
<1>8. ASSUME NEW n \in DOMAIN line, line[n] = line[i] PROVE n = i
  <2>1. IsStr(line[n]) /\ ~IsNum(line[n]) /\ line[n] # Colon /\ line[n] # Comma
        /\ line[n][2] \in Strings \cup Numbers
    BY <1>5, <1>6, <1>8, TokensAre
  <2>2. n % 4 = 1
    BY <1>4, <2>1
  <2>3. \A a, b \in {k \in DOMAIN line : k % 4 = 1} : line[a] = line[b] => a = b
    BY DEF PlainObject
  <2> QED
    BY <1>1, <1>2, <1>8, <2>2, <2>3
<1>9. Where(line, {Str(line[i][2])}) = {n \in DOMAIN line : line[n] = line[i]}
  BY <1>7 DEF Where
<1> QED
  BY <1>1, <1>2, <1>3, <1>5, <1>7, <1>8, <1>9

(* A field that a plain object has not is nowhere in its text. *)
LEMMA NoMember ==
  ASSUME NEW line \in Seq(Tokens), PlainObject(line), NEW key \in Strings \cup Numbers,
         ~ \E i \in Here(line) : line[i][2] = key
  PROVE  Where(line, {Str(key)}) = {}
<1>1. SUFFICES ASSUME NEW n \in DOMAIN line, line[n] = Str(key) PROVE FALSE
  BY DEF Where
<1>2. IsStr(line[n]) /\ line[n][2] = key /\ line[n] \in Tokens
  BY <1>1 DEF IsStr, Str
<1>3. ~IsNum(line[n]) /\ line[n] # Colon /\ line[n] # Comma
  BY <1>2, TokensAre
<1>4. n % 4 = 1
  BY <1>2, <1>3 DEF PlainObject
<1> QED
  BY <1>2, <1>4 DEF Here

(* What the getters find in a plain object is what is there. *)
LEMMA StringsFound ==
  ASSUME NEW line \in Seq(Tokens), PlainObject(line), NEW key \in Strings
  PROVE  GetString(line, key) = Field(line, key)
<1>1. CASE \E i \in Here(line) : line[i][2] = key
  <2>1. PICK i \in Here(line) : line[i][2] = key
    BY <1>1
  <2>2. /\ i \in DOMAIN line /\ i + 2 \in DOMAIN line /\ Where(line, {Str(key)}) = {i}
        /\ line[i + 1] = Colon /\ IsStr(line[i]) /\ IsStr(line[i + 2])
    BY <2>1, MemberIs DEF Strings, Numbers
  <2>3. GetString(line, key) = {line[i + 2][2]}
    BY <2>2, PresentKey
  <2>4. ASSUME NEW k \in Here(line), line[k][2] = key PROVE k = i
    <3>1. Where(line, {Str(line[k][2])}) = {k}
      BY MemberIs
    <3> QED
      BY <2>2, <2>4, <3>1
  <2> QED
    BY <2>1, <2>3, <2>4 DEF Field
<1>2. CASE ~ \E i \in Here(line) : line[i][2] = key
  BY <1>2, NoMember, AbsentKey DEF Field
<1> QED
  BY <1>1, <1>2

LEMMA NumbersFound ==
  ASSUME NEW line \in Seq(Tokens), PlainObject(line), NEW key \in Numbers, InRange(line)
  PROVE  CurrentGetInt(line, key) = Field(line, key) /\ EarlierGetInt(line, key) = Field(line, key)
<1>1. CASE \E i \in Here(line) : line[i][2] = key
  <2>1. PICK i \in Here(line) : line[i][2] = key
    BY <1>1
  <2> DEFINE v == line[i + 2][2]
  <2>2. /\ i \in DOMAIN line /\ i + 2 \in DOMAIN line /\ Where(line, {Str(key)}) = {i}
        /\ line[i + 1] = Colon /\ IsStr(line[i]) /\ IsNum(line[i + 2]) /\ v \in Int
    BY <2>1, MemberIs
  <2>3. \A skipped \in {{}, {Tab}} : NumberAt(line, key, skipped) = {v}
    BY <2>2, PresentKey
  <2>4. ASSUME NEW k \in Here(line), line[k][2] = key PROVE k = i
    <3>1. Where(line, {Str(line[k][2])}) = {k}
      BY MemberIs
    <3> QED
      BY <2>2, <2>4, <3>1
  <2>5. Field(line, key) = {v}
    BY <2>1, <2>4 DEF Field
  <2>6. Fits(v, LongEnd)
    BY <2>1 DEF InRange
  <2>7. Wrap(v, LongEnd) = v
    <3>1. LongEnd \in Nat /\ LongEnd # 0
      BY WidthAssumption
    <3> QED
      BY <2>2, <2>6, <3>1, WrapIs
  <2> HIDE DEF v
  <2> QED
    BY <2>3, <2>5, <2>6, <2>7 DEF CurrentGetInt, EarlierGetInt
<1>2. CASE ~ \E i \in Here(line) : line[i][2] = key
  <2>1. Field(line, key) = {} /\ \A skipped : NumberAt(line, key, skipped) = {}
    BY <1>2, NoMember, AbsentKey DEF Field
  <2> QED
    BY <2>1 DEF CurrentGetInt, EarlierGetInt
<1> QED
  BY <1>1, <1>2

(* The records of parse_ndjson_line, by what each field may be. *)
RecordsOf(ts, src, dst, sport, dport, action, status, bytes, user) ==
  {[ts |-> t, src_ip |-> a, dst_ip |-> b,
    src_port |-> Wrap(p, IntEnd), dst_port |-> Wrap(q, IntEnd),
    action |-> OrElse(action, "connect"), status |-> OrElse(status, "ok"),
    bytes |-> OrElse(bytes, 0), username |-> OrElse(user, "-")] :
      t \in ts, a \in src, b \in dst, p \in sport, q \in dport}

LEMMA RecordsAre ==
  ASSUME NEW ts, NEW src, NEW dst, NEW sport, NEW dport, NEW action, NEW status, NEW bytes,
         NEW user, NEW R, R = RecordsOf(ts, src, dst, sport, dport, action, status, bytes, user)
  PROVE  /\ R = {} <=> {} \in {ts, src, dst, sport, dport}
         /\ \A r \in R :
              /\ r["ts"] \in ts /\ r["src_ip"] \in src /\ r["dst_ip"] \in dst
              /\ \E p \in sport : r["src_port"] = Wrap(p, IntEnd)
              /\ \E q \in dport : r["dst_port"] = Wrap(q, IntEnd)
              /\ r["action"] = OrElse(action, "connect") /\ r["status"] = OrElse(status, "ok")
              /\ r["bytes"] = OrElse(bytes, 0) /\ r["username"] = OrElse(user, "-")
<1>1. ASSUME NEW r \in R
      PROVE  \E t \in ts, a \in src, b \in dst, p \in sport, q \in dport :
               r = [ts |-> t, src_ip |-> a, dst_ip |-> b,
                    src_port |-> Wrap(p, IntEnd), dst_port |-> Wrap(q, IntEnd),
                    action |-> OrElse(action, "connect"), status |-> OrElse(status, "ok"),
                    bytes |-> OrElse(bytes, 0), username |-> OrElse(user, "-")]
  BY DEF RecordsOf
<1>2. ASSUME NEW t \in ts, NEW a \in src, NEW b \in dst, NEW p \in sport, NEW q \in dport
      PROVE  R # {}
  <2> DEFINE rec(t1, a1, b1, p1, q1) ==
        [ts |-> t1, src_ip |-> a1, dst_ip |-> b1,
         src_port |-> Wrap(p1, IntEnd), dst_port |-> Wrap(q1, IntEnd),
         action |-> OrElse(action, "connect"), status |-> OrElse(status, "ok"),
         bytes |-> OrElse(bytes, 0), username |-> OrElse(user, "-")]
  <2>1. R = {rec(t1, a1, b1, p1, q1) :
               t1 \in ts, a1 \in src, b1 \in dst, p1 \in sport, q1 \in dport}
    BY DEF RecordsOf
  <2> HIDE DEF rec
  <2>2. rec(t, a, b, p, q) \in R
    BY <2>1
  <2> QED
    BY <2>2
<1>3. ASSUME NEW r \in R
      PROVE  /\ r["ts"] \in ts /\ r["src_ip"] \in src /\ r["dst_ip"] \in dst
             /\ \E p \in sport : r["src_port"] = Wrap(p, IntEnd)
             /\ \E q \in dport : r["dst_port"] = Wrap(q, IntEnd)
             /\ r["action"] = OrElse(action, "connect") /\ r["status"] = OrElse(status, "ok")
             /\ r["bytes"] = OrElse(bytes, 0) /\ r["username"] = OrElse(user, "-")
  <2>1. PICK t \in ts, a \in src, b \in dst, p \in sport, q \in dport :
               r = [ts |-> t, src_ip |-> a, dst_ip |-> b,
                    src_port |-> Wrap(p, IntEnd), dst_port |-> Wrap(q, IntEnd),
                    action |-> OrElse(action, "connect"), status |-> OrElse(status, "ok"),
                    bytes |-> OrElse(bytes, 0), username |-> OrElse(user, "-")]
    BY <1>1
  <2>2. /\ r["ts"] = t /\ r["src_ip"] = a /\ r["dst_ip"] = b
        /\ r["src_port"] = Wrap(p, IntEnd) /\ r["dst_port"] = Wrap(q, IntEnd)
        /\ r["action"] = OrElse(action, "connect") /\ r["status"] = OrElse(status, "ok")
        /\ r["bytes"] = OrElse(bytes, 0) /\ r["username"] = OrElse(user, "-")
    BY <2>1
  <2> QED
    BY <2>2
<1>4. R = {} => ts = {} \/ src = {} \/ dst = {} \/ sport = {} \/ dport = {}
  BY <1>2
<1>5. ts = {} \/ src = {} \/ dst = {} \/ sport = {} \/ dport = {} => R = {}
  BY <1>3
<1> QED
  BY <1>3, <1>4, <1>5

(* The record of a plain object, and when there is none. *)
LEMMA GettersFind ==
  ASSUME NEW line \in Seq(Tokens), PlainObject(line), NEW int,
         int \in {[k \in IntFields |-> CurrentGetInt(line, k)],
                  [k \in IntFields |-> EarlierGetInt(line, k)]},
         InRange(line)
  PROVE  FromGetters(line, int) =
           RecordsOf(Field(line, "ts"), Field(line, "src_ip"), Field(line, "dst_ip"),
                     Field(line, "src_port"), Field(line, "dst_port"), Field(line, "action"),
                     Field(line, "status"), Field(line, "bytes"), Field(line, "username"))
<1>1. \A k \in Numbers : int[k] = Field(line, k)
  BY NumbersFound DEF IntFields, Numbers
<1>2. /\ int["ts"] = Field(line, "ts") /\ int["src_port"] = Field(line, "src_port")
      /\ int["dst_port"] = Field(line, "dst_port") /\ int["bytes"] = Field(line, "bytes")
  BY <1>1 DEF Numbers
<1>3. \A k \in Strings : GetString(line, k) = Field(line, k)
  BY StringsFound
<1>4. /\ GetString(line, "src_ip") = Field(line, "src_ip")
      /\ GetString(line, "dst_ip") = Field(line, "dst_ip")
      /\ GetString(line, "action") = Field(line, "action")
      /\ GetString(line, "status") = Field(line, "status")
      /\ GetString(line, "username") = Field(line, "username")
  BY <1>3 DEF Strings
<1>5. FromGetters(line, int) =
           RecordsOf(int["ts"], GetString(line, "src_ip"), GetString(line, "dst_ip"),
                     int["src_port"], int["dst_port"], GetString(line, "action"),
                     GetString(line, "status"), int["bytes"], GetString(line, "username"))
  BY DEF FromGetters, RecordsOf
<1> QED
  BY <1>2, <1>4, <1>5, Zenon

Required == {"ts", "src_ip", "dst_ip", "src_port", "dst_port"}
IsPort(key) == key \in {"src_port", "dst_port"}

LEMMA PlainIsExact ==
  ASSUME NEW line \in Seq(Tokens), PlainObject(line), NEW int,
         int \in {[k \in IntFields |-> CurrentGetInt(line, k)],
                  [k \in IntFields |-> EarlierGetInt(line, k)]},
         InRange(line)
  PROVE  /\ FromGetters(line, int) = {} <=> \E k \in Required : ~ \E i \in Here(line) : line[i][2] = k
         /\ \A r \in FromGetters(line, int), i \in Here(line) :
              r[line[i][2]] = IF IsPort(line[i][2])
                              THEN Wrap(line[i + 2][2], IntEnd) ELSE line[i + 2][2]
<1> DEFINE F(k) == Field(line, k)
           R == FromGetters(line, int)
<1>1. ASSUME NEW k PROVE F(k) = {} <=> ~ \E i \in Here(line) : line[i][2] = k
  <2>1. {i \in Here(line) : line[i][2] = k} = {} <=> ~ \E i \in Here(line) : line[i][2] = k
    OBVIOUS
  <2> QED
    BY <2>1 DEF Field
<1>2. ASSUME NEW i \in Here(line) PROVE F(line[i][2]) = {line[i + 2][2]}
  <2>1. \A k \in Here(line) : line[k][2] = line[i][2] => k = i
    BY MemberIs
  <2> QED
    BY <2>1 DEF Field
<1>3. R = RecordsOf(F("ts"), F("src_ip"), F("dst_ip"), F("src_port"), F("dst_port"),
                    F("action"), F("status"), F("bytes"), F("username"))
  BY GettersFind
<1> HIDE DEF F, R
<1>4. R = {} <=> {} \in {F("ts"), F("src_ip"), F("dst_ip"), F("src_port"), F("dst_port")}
  BY <1>3, RecordsAre
<1>5. R = {} <=> \E k \in Required : F(k) = {}
  BY <1>4 DEF Required
<1>6. R = {} <=> \E k \in Required : ~ \E i \in Here(line) : line[i][2] = k
  BY <1>1, <1>5
<1>7. ASSUME NEW r \in R, NEW key \in Strings \cup Numbers, NEW v, F(key) = {v}
      PROVE  r[key] = IF IsPort(key) THEN Wrap(v, IntEnd) ELSE v
  <2>1. /\ r["ts"] \in F("ts") /\ r["src_ip"] \in F("src_ip") /\ r["dst_ip"] \in F("dst_ip")
        /\ \E p \in F("src_port") : r["src_port"] = Wrap(p, IntEnd)
        /\ \E q \in F("dst_port") : r["dst_port"] = Wrap(q, IntEnd)
        /\ r["action"] = OrElse(F("action"), "connect")
        /\ r["status"] = OrElse(F("status"), "ok")
        /\ r["bytes"] = OrElse(F("bytes"), 0) /\ r["username"] = OrElse(F("username"), "-")
    BY <1>3, RecordsAre
  <2>2. CASE key = "ts" \/ key = "src_ip" \/ key = "dst_ip"
    <3>1. ~IsPort(key) /\ r[key] \in F(key)
      BY <2>1, <2>2 DEF IsPort
    <3> QED
      BY <1>7, <3>1
  <2>3. CASE key = "src_port" \/ key = "dst_port"
    <3>1. IsPort(key) /\ \E p \in F(key) : r[key] = Wrap(p, IntEnd)
      BY <2>1, <2>3 DEF IsPort
    <3> QED
      BY <1>7, <3>1
  <2>4. CASE key \in {"action", "status", "bytes", "username"}
    <3>1. ~IsPort(key) /\ \E default : r[key] = OrElse(F(key), default)
      BY <2>1, <2>4 DEF IsPort
    <3> QED
      BY <1>7, <3>1, OrElseIs
  <2> QED
    BY <2>2, <2>3, <2>4 DEF Strings, Numbers
<1>8. \A r \in R, i \in Here(line) :
        r[line[i][2]] = IF IsPort(line[i][2]) THEN Wrap(line[i + 2][2], IntEnd)
                        ELSE line[i + 2][2]
  <2> TAKE r \in R, i \in Here(line)
  <2>1. line[i][2] \in Strings \cup Numbers
    BY MemberIs
  <2> DEFINE key == line[i][2]
             v == line[i + 2][2]
  <2>2. key \in Strings \cup Numbers /\ F(key) = {v}
    BY <1>2, <2>1
  <2> HIDE DEF key, v
  <2>3. r[key] = IF IsPort(key) THEN Wrap(v, IntEnd) ELSE v
    BY <1>7, <2>2
  <2> QED
    BY <2>3 DEF key, v
<1> QED
  BY <1>6, <1>8 DEF R
Csvs(line) == {FromColumns(Columns(line)), {}}
LEMMA CsvIs ==
  ASSUME rel \in Releases, NEW line
  PROVE  CsvLine(line) \in Csvs(line)
BY ReleasesAre DEF CsvLine, FinalCsv, MaxCsv, UltraCsv, ApexCsv, CurrentCsv, Csvs

LEMMA CsvIsExact ==
  ASSUME NEW line \in Seq(Tokens), NEW r \in FromColumns(Columns(line))
  PROVE  /\ r.ts = line[1][2] /\ r.bytes = line[8][2]
         /\ r.src_port = line[4][2] /\ r.dst_port = line[5][2]
         /\ r.ts \in Int
<1> DEFINE c == Columns(line)
<1>1. c = line \/ c = SubSeq(line, 1, Len(line) - 1)
  BY DEF Columns, Front
<1>2. /\ Len(c) = 9 /\ Converts(c[1], LongEnd)
      /\ r = [ts |-> c[1][2], src_ip |-> c[2][2], dst_ip |-> c[3][2],
              src_port |-> c[4][2], dst_port |-> c[5][2],
              action |-> c[6][2], status |-> c[7][2], bytes |-> c[8][2],
              username |-> c[9][2]]
  BY DEF FromColumns
<1> HIDE DEF c
<1>3. Len(line) \in Nat /\ DOMAIN line = 1 .. Len(line)
  OBVIOUS
<1>4. \A k \in 1 .. 9 : c[k] = line[k] /\ k \in DOMAIN line
  <2>1. CASE c = line
    BY <1>2, <1>3, <2>1
  <2>2. CASE c = SubSeq(line, 1, Len(line) - 1)
    <3>1. CASE Len(line) = 0
      <4>1. Len(SubSeq(line, 1, Len(line) - 1)) = 0
        BY <3>1
      <4> QED
        BY <1>2, <2>2, <4>1
    <3>2. CASE Len(line) # 0
      <4> DEFINE n == Len(line) - 1
      <4>0. n \in 0 .. Len(line) /\ n + 1 = Len(line)
        BY <1>3, <3>2
      <4>s. \A m \in 0 .. Len(line) : Len(SubSeq(line, 1, m)) = m
        BY <1>3
      <4>n. c = SubSeq(line, 1, n)
        BY <2>2
      <4> HIDE DEF n
      <4>9. n = 9
        BY <1>2, <4>0, <4>s, <4>n
      <4>1. Len(line) - 1 = 9
        BY <4>9 DEF n
      <4>2. Len(line) = 10
        BY <4>0, <4>9
      <4>3. \A k \in 1 .. 9 : SubSeq(line, 1, 9)[k] = line[k]
        BY <1>3, <4>2
      <4> QED
        BY <1>3, <2>2, <4>1, <4>2, <4>3
    <3> QED
      BY <3>1, <3>2
  <2> QED
    BY <1>1, <2>1, <2>2
<1>5. line[1][2] \in Int
  <2>1. IsNum(line[1]) /\ line[1] \in Tokens
    BY <1>2, <1>4 DEF Converts
  <2> QED
    BY <2>1, TokensAre
<1>6. c[1] = line[1] /\ c[8] = line[8] /\ c[4] = line[4] /\ c[5] = line[5]
  BY <1>4
<1>7. r.ts = c[1][2] /\ r.bytes = c[8][2] /\ r.src_port = c[4][2] /\ r.dst_port = c[5][2]
  BY <1>2
<1> QED
  BY <1>5, <1>6, <1>7

Getters(line) == {[k \in IntFields |-> CurrentGetInt(line, k)],
                  [k \in IntFields |-> EarlierGetInt(line, k)]}
LEMMA NdjsonIs ==
  ASSUME rel \in Releases, rel # "final", NEW line
  PROVE  \E int \in Getters(line) : NdjsonLine(line) = FromGetters(line, int)
<1>1. NdjsonLine(line) = IF rel = "current" THEN CurrentNdjson(line) ELSE ApexNdjson(line)
  BY ReleasesAre DEF NdjsonLine, UltraNdjson, MaxNdjson
<1>2. [k \in IntFields |-> CurrentGetInt(line, k)] \in Getters(line)
  BY DEF Getters
<1>3. [k \in IntFields |-> EarlierGetInt(line, k)] \in Getters(line)
  BY DEF Getters
<1> QED
  BY <1>1, <1>2, <1>3, Zenon DEF CurrentNdjson, ApexNdjson

(* The last line read is the last the reader was given. *)
Read(line) == IF Csv THEN CsvLine(line) ELSE NdjsonLine(line)
LastRead ==
  /\ pc \in Early \cup {"plugins"} => at = 0
  /\ at = 0 \/ th = <<>> => last = {}
  /\ at > 0 /\ th # <<>> => last = {} \/ last = Read(Input[at])
  /\ at > 0 /\ th # <<>> /\ ~Csv => last = Read(Input[at])

LEMMA LastReadExact ==
  ASSUME Places, Tallied, LastRead
  PROVE  ReadersExact
<1>1. /\ rel \in Releases /\ DOMAIN Input = 1 .. Len(Input) /\ Len(Input) \in Nat
      /\ \A i \in 1 .. Len(Input) : Input[i] \in Seq(Tokens)
  BY JobTypes DEF Places
<1>2. at \in Nat /\ (at > 0 => at \in 1 .. Len(Input))
  BY <1>1 DEF Tallied
<1>3. CsvExact
  <2> SUFFICES ASSUME at > 0, Csv, NEW r \in last
               PROVE  /\ r.ts = Input[at][1][2] /\ r.bytes = Input[at][8][2]
                      /\ r.src_port = Input[at][4][2] /\ r.dst_port = Input[at][5][2]
    BY DEF CsvExact
  <2>1. last = CsvLine(Input[at])
    BY <1>2 DEF LastRead, Read
  <2>2. r \in FromColumns(Columns(Input[at]))
    BY <1>1, <2>1, CsvIs DEF Csvs
  <2> QED
    BY <1>1, <1>2, <2>2, CsvIsExact
<1>4. NdjsonExact
  <2> DEFINE line == Input[at]
  <2> SUFFICES ASSUME at > 0, th # <<>>, ~Csv, PlainObject(line), InRange(line)
               PROVE  /\ last = {} <=> \E k \in Required : ~ \E i \in Here(line) : line[i][2] = k
                      /\ \A r \in last, i \in Here(line) :
                           r[line[i][2]] = IF IsPort(line[i][2])
                                           THEN Wrap(line[i + 2][2], IntEnd) ELSE line[i + 2][2]
    BY DEF NdjsonExact, InRange, Here, Required, IsPort
  <2>1. rel # "final" /\ last = NdjsonLine(line)
    BY DEF LastRead, Read, Csv
  <2>2. PICK int \in Getters(line) : NdjsonLine(line) = FromGetters(line, int)
    BY <1>1, <2>1, NdjsonIs
  <2>3. line \in Seq(Tokens) /\ last = FromGetters(line, int)
    BY <1>1, <1>2, <2>1, <2>2
  <2> HIDE DEF line
  <2> QED
    BY <2>3, PlainIsExact DEF Getters
<1> QED
  BY <1>3, <1>4 DEF ReadersExact
(* Main does not come back to what is before the work. *)
LEMMA EarlyBefore ==
  ASSUME IInv, [Next]_vars, pc' \in Early \cup {"plugins"}
  PROVE  pc \in Early \cup {"plugins"}
<1>1. rel \in Releases /\ Places
  BY JobFacts DEF IInv
<1> USE DEF Early, Unruled, Others
<1>2. CASE Parse
  BY <1>2 DEF Parse
<1>3. CASE MakeLogger \/ StartServer \/ OpenInput \/ StartWork
  BY <1>3 DEF MakeLogger, StartServer, OpenInput, StartWork
<1>4. CASE EndOfInput
  BY <1>1, <1>4, StageOrder DEF EndOfInput
<1>5. CASE Unload
  BY <1>1, <1>5, StageOrder DEF Unload
<1>6. CASE Gate
  BY <1>1, <1>6, StageOrder DEF Gate, Leave, End
<1>7. CASE Finish
  BY <1>1, <1>7, StageOrder DEF Finish, Log, End
<1>8. CASE LoadPlugin \/ Selfcheck \/ SelfcheckSample \/ LoadRules \/ ApexBench \/ CurrentBench
  BY <1>8 DEF LoadPlugin, Selfcheck, SelfcheckSample, LoadRules, ApexBench, CurrentBench
<1>9. CASE Work \/ Return \/ UNCHANGED vars
  BY <1>1, <1>9 DEF Work, Return, vars, End, Leave
<1>10. CASE ExitStep
  BY <1>10, ExitSteps
<1> QED
  BY <1>2, <1>3, <1>4, <1>5, <1>6, <1>7, <1>8, <1>9, <1>10 DEF Next, Main, Still, ExitStep

(* Only Work and bench read lines, and only Work judges them. *)
LEMMA OnlyWorkReads ==
  ASSUME IInv, [Next]_vars, ~Work
  PROVE  /\ last' = last /\ judged' = judged /\ written' = written
         /\ pc # "bench" => at' = at
         /\ win' = win \/ pc = "sample"
<1>1. CASE Parse \/ MakeLogger \/ LoadRules \/ StartServer \/ OpenInput \/ LoadPlugin \/ StartWork
  BY <1>1 DEF Parse, MakeLogger, LoadRules, StartServer, OpenInput, LoadPlugin, StartWork,
              workVars
<1>2. CASE EndOfInput \/ Unload \/ Gate \/ Finish \/ Return \/ Selfcheck
  BY <1>2 DEF EndOfInput, Unload, Gate, Finish, Return, Selfcheck, workVars
<1>3. CASE SelfcheckSample \/ ApexBench \/ CurrentBench \/ UNCHANGED vars
  BY <1>3 DEF SelfcheckSample, ApexBench, CurrentBench, Timed, vars, workVars
<1>4. CASE ExitStep
  BY <1>4, ExitSteps
<1> QED
  BY <1>1, <1>2, <1>3, <1>4 DEF Next, Main, Still, ExitStep

LEMMA LastReadNext ==
  ASSUME IInv, Tallied, RulesInForce, LastRead, [Next]_vars
  PROVE  LastRead'
<1>1. /\ rel \in Releases /\ (pc \in Unruled => th = <<>>) /\ at \in Nat
      /\ (Parse \/ pc = "bench" => th = <<>> /\ th' = <<>>)
  <2>1. rel \in Releases /\ (pc \in Unruled => th = <<>>) /\ at \in Nat
    BY JobFacts DEF IInv, Untouched, Tallied
  <2>2. Parse => th = <<>> /\ th' = <<>>
    BY <2>1 DEF Parse, Unruled
  <2>3. pc = "bench" => th = <<>> /\ th' = <<>>
    BY <2>1, <2>2, Moves DEF Unruled, Others, LoadRules
  <2> QED
    BY <2>1, <2>2, <2>3
<1>2. ASSUME ~Parse
      PROVE  /\ rel' = rel /\ s' = s /\ Input' = Input /\ (Csv' <=> Csv)
             /\ (Read(Input[at]))' = IF Csv THEN CsvLine(Input[at']) ELSE NdjsonLine(Input[at'])
  <2>1. rel' = rel /\ s' = s /\ Input' = Input
    BY <1>2, Moves DEF Moved, Input
  <2>2. Csv' <=> Csv
    BY <2>1 DEF Csv
  <2>3. (CsvLine(Input[at]))' = CsvLine(Input[at'])
    BY <2>1 DEF CsvLine
  <2>4. (NdjsonLine(Input[at]))' = NdjsonLine(Input[at'])
    BY <2>1 DEF NdjsonLine
  <2>5. (Read(Input[at]))'
          = IF Csv' THEN (CsvLine(Input[at]))' ELSE (NdjsonLine(Input[at]))'
    BY DEF Read
  <2> QED
    BY <2>1, <2>2, <2>3, <2>4, <2>5
<1>3. CASE Work
  <2>1. /\ pc = "work" /\ pc' = pc /\ th # <<>> /\ th' = th /\ ~Parse
        /\ at' = at + 1 /\ at' > 0
    BY <1>1, <1>3 DEF Work, RulesInForce, Parse
  <2>2. CASE Dropped(at')
    <3>1. last' = last /\ Csv /\ at = 0
      BY <1>1, <1>3, <2>1, <2>2 DEF Work, Dropped
    <3>2. last' = {} /\ Csv'
      BY <1>2, <2>1, <3>1 DEF LastRead
    <3> QED
      BY <1>1, <2>1, <3>2 DEF LastRead, Early, Unruled, Others
  <2>3. CASE ~Dropped(at')
    <3>1. last' = IF Csv THEN CsvLine(Input[at']) ELSE NdjsonLine(Input[at'])
      BY <1>3, <2>3 DEF Work, Judge
    <3>2. last' = (Read(Input[at]))'
      BY <1>2, <2>1, <3>1
    <3> QED
      BY <1>1, <2>1, <3>2 DEF LastRead, Early, Unruled, Others
  <2> QED
    BY <2>2, <2>3
<1>4. CASE ~Work /\ ~Parse /\ ~LoadRules /\ pc # "bench"
  <2>1. last' = last /\ at' = at /\ th' = th
    BY <1>4, OnlyWorkReads, Moves
  <2>2. (Read(Input[at]))' = Read(Input[at]) /\ (Csv' <=> Csv)
    BY <1>2, <1>4, <2>1 DEF Read
  <2> QED
    BY <2>1, <2>2, EarlyBefore DEF LastRead
<1>5. CASE LoadRules
  <2>1. pc = "rules" /\ at = 0 /\ at' = at /\ last' = last
    BY <1>5 DEF LoadRules, workVars, LastRead, Early, Unruled
  <2> QED
    BY <2>1 DEF LastRead
<1>6. CASE Parse \/ pc = "bench"
  <2>1. last' = {} /\ th' = <<>>
    BY <1>1, <1>6, OnlyWorkReads DEF LastRead, Work, Parse
  <2>2. pc' \in Early \cup {"plugins"} => at' = 0
    <3>1. CASE Parse
      BY <3>1 DEF Parse, workVars, LastRead, Early, Unruled
    <3>2. CASE pc = "bench" /\ pc' = pc
      <4>1. UNCHANGED vars \/ ExitStep
        BY <1>1, <3>2 DEF Next, Main, Still, ExitStep, Parse, MakeLogger, LoadRules, StartServer,
           OpenInput, LoadPlugin, StartWork, Work, EndOfInput, Unload, Gate, Finish, Return,
           ApexBench, CurrentBench, Timed, End, Selfcheck, SelfcheckSample
      <4>2. at' = at
        BY <4>1, ExitSteps DEF vars, workVars
      <4> QED
        BY <3>2, <4>2 DEF LastRead, Early, Unruled, Others
    <3>3. CASE pc = "bench" /\ pc' # pc
      <4>1. ApexBench \/ CurrentBench \/ ExitStep
        BY <3>3 DEF Next, Main, Still, ExitStep, Parse, MakeLogger, LoadRules, StartServer,
           OpenInput, LoadPlugin, StartWork, Work, EndOfInput, Unload, Gate, Finish, Return,
           Selfcheck, SelfcheckSample, vars
      <4>2. CASE ExitStep
        BY <3>3, <4>2, ExitSteps DEF Early, Unruled, Others, Exiting
      <4> QED
        BY <4>1, <4>2 DEF ApexBench, CurrentBench, Timed, End, Early, Unruled, Others
    <3> QED
      BY <1>6, <3>1, <3>2, <3>3
  <2> QED
    BY <2>1, <2>2 DEF LastRead
<1> QED
  BY <1>3, <1>4, <1>5, <1>6

(* A CSV record has the numbers of its line; the record of a plain JSON     *)
(* object has the value of every field of it, and is missing exactly if a   *)
(* required field is: for lines of any length and integers of any width.    *)
THEOREM ReadersAreExact == Spec => []ReadersExact
<1>1. Init => LastRead
  BY DEF Init, LastRead
<1>2. IInv /\ Tallied /\ RulesInForce /\ LastRead /\ [Next]_vars => LastRead'
  BY LastReadNext
<1>3. IInv /\ Tallied /\ LastRead => ReadersExact
  BY LastReadExact DEF IInv
<1>4. Init => Tallied
  BY TypeInit
<1>5. IInv /\ Tallied /\ [Next]_vars => Tallied'
  BY TalliedNext
<1> QED
  BY <1>1, <1>2, <1>3, <1>4, <1>5, Invariant, RulesInForceInvariant, PTL DEF Spec
-----------------------------------------------------------------------------
(* The window: add, round by round. *)

Pushed(w, r) == [w EXCEPT !.q = Append(w.q, r)]
Round(v, r, span, len, x, n) ==
  IF n > len THEN Counted(x, Keys(v, r))
  ELSE IF r.ts - Head(x.q).ts > span THEN Prune(v, x) ELSE x
Adds(f, v, w, r, span) ==
  LET len == Len(Append(w.q, r))
  IN  /\ f[0] = Pushed(w, r)
      /\ \A n \in 1 .. len + 1 : f[n] = Round(v, r, span, len, f[n - 1], n)
      /\ Add(v, w, r, span) = f[len + 1]

LEMMA AddsExist ==
  ASSUME NEW v, NEW w, NEW r, NEW span, Len(Append(w.q, r)) \in Nat
  PROVE  \E f : Adds(f, v, w, r, span)
<1> DEFINE len == Len(Append(w.q, r))
           ns == [n \in 1 .. len + 1 |-> n]
           Next1(x, n) == CHOOSE y \in {Round(v, r, span, len, z, n) : z \in {x}} : TRUE
           F(f, m) == f = [n \in 0 .. m |-> IF n = 0 THEN Pushed(w, r) ELSE Next1(f[n - 1], ns[n])]
           P == {m \in Nat : \E f : F(f, m)}
           u == CHOOSE f : F(f, Len(ns))
<1>1. \A x, n : Next1(x, n) = Round(v, r, span, len, x, n)
  OBVIOUS
<1>2. Add(v, w, r, span) = u[Len(ns)]
  BY DEF Add, FoldStrictly, Pushed, Round
<1>l. ns \in Seq(Nat) /\ Len(ns) = len + 1 /\ len + 1 \in Nat
      /\ \A n \in 1 .. len + 1 : ns[n] = n
  OBVIOUS
<1> HIDE DEF Next1, ns
<1>3. 0 \in P
  <2>1. F([n \in 0 .. 0 |-> Pushed(w, r)], 0)
    OBVIOUS
  <2> QED
    BY <2>1
<1>4. ASSUME NEW m \in Nat, m \in P PROVE m + 1 \in P
  <2>1. PICK f : F(f, m)
    BY <1>4
  <2> DEFINE g == [n \in 0 .. m + 1 |-> IF n = 0 THEN Pushed(w, r) ELSE Next1(f[n - 1], ns[n])]
  <2>2. \A n \in 0 .. m : g[n] = f[n]
    BY <2>1
  <2>3. \A n \in 0 .. m + 1 : g[n] = IF n = 0 THEN Pushed(w, r) ELSE Next1(g[n - 1], ns[n])
    <3> SUFFICES ASSUME NEW n \in 0 .. m + 1, n # 0 PROVE f[n - 1] = g[n - 1]
      OBVIOUS
    <3>1. n - 1 \in 0 .. m
      OBVIOUS
    <3> QED
      BY <2>2, <3>1
  <2>4. F(g, m + 1)
    BY <2>3
  <2>5. \E h : F(h, m + 1)
    BY <2>4
  <2> HIDE DEF F
  <2> QED
    BY <2>5
<1>5. \A m \in Nat : m \in P
  <2> HIDE DEF P
  <2> QED
    BY <1>3, <1>4, InductionOnNat
<1>6. \E f : F(f, Len(ns))
  BY <1>5, <1>l
<1>7. F(u, Len(ns))
  BY <1>6
<1> HIDE DEF u, len
<1>8. u[0] = Pushed(w, r) /\ \A n \in 1 .. len + 1 : u[n] = Next1(u[n - 1], n)
  <2>1. u = [n \in 0 .. len + 1 |-> IF n = 0 THEN Pushed(w, r) ELSE Next1(u[n - 1], ns[n])]
    BY <1>7, <1>l
  <2>2. ASSUME NEW n \in 1 .. len + 1 PROVE u[n] = Next1(u[n - 1], n)
    <3>1. n \in 0 .. len + 1 /\ n # 0 /\ ns[n] = n
      BY <1>l
    <3> QED
      BY <2>1, <3>1
  <2>3. 0 \in 0 .. len + 1
    BY <1>l
  <2> QED
    BY <2>1, <2>2, <2>3
<1>9. \A n \in 1 .. len + 1 : u[n] = Round(v, r, span, len, u[n - 1], n)
  BY <1>1, <1>8
<1>10. Adds(u, v, w, r, span)
  BY <1>2, <1>l, <1>8, <1>9 DEF Adds, len
<1> QED
  BY <1>10
(* A window with finitely many entries, none above M. *)
IsWindow(w, M) ==
  /\ DOMAIN w = {"q", "index"}
  /\ IsFiniteSet(DOMAIN w.index)
  /\ \A k \in DOMAIN w.index : w.index[k] \in 0 .. M

LEMMA CountType ==
  ASSUME NEW M \in Nat, NEW w, IsWindow(w, M), NEW k
  PROVE  Count(w, k) \in 0 .. M
BY DEF IsWindow, Count

(* What one round of prune counts down. *)
PrunedKeys(v, w) ==
  LET r == Head(w.q)
  IN  IF v = "ultra" /\ ~(Count(w, CountsKey(r)) > 1) THEN Keys(v, r) \ {UniqKey(r)}
      ELSE Keys(v, r)
Down(c) == IF c > 0 THEN c - 1 ELSE c

LEMMA DecrementedIs ==
  ASSUME NEW M \in Nat, NEW w, IsWindow(w, M), NEW ks, NEW q, NEW x,
         x = [q |-> q, index |-> Decremented(w, ks)]
  PROVE  /\ IsWindow(x, M) /\ x.q = q /\ x.index = Decremented(w, ks)
         /\ \A k : Count(x, k) = IF k \in ks THEN Down(Count(w, k)) ELSE Count(w, k)
<1>1. /\ DOMAIN x = {"q", "index"} /\ x.q = q /\ x.index = Decremented(w, ks)
      /\ DOMAIN x.index = DOMAIN w.index
  BY DEF Decremented
<1>2. ASSUME NEW k \in DOMAIN w.index
      PROVE  /\ x.index[k] = IF k \in ks THEN Down(w.index[k]) ELSE w.index[k]
             /\ x.index[k] \in 0 .. M
  <2>1. w.index[k] \in 0 .. M
    BY DEF IsWindow
  <2>2. x.index[k] = IF k \in ks /\ w.index[k] > 0 THEN w.index[k] - 1 ELSE w.index[k]
    BY <1>1 DEF Decremented
  <2> QED
    BY <2>1, <2>2 DEF Down
<1>3. IsWindow(x, M)
  BY <1>1, <1>2 DEF IsWindow
<1>4. ASSUME NEW k PROVE Count(x, k) = IF k \in ks THEN Down(Count(w, k)) ELSE Count(w, k)
  <2>1. CASE k \in DOMAIN w.index
    BY <1>1, <1>2, <2>1 DEF Count
  <2>2. CASE k \notin DOMAIN w.index
    BY <1>1, <2>2 DEF Count, Down
  <2> QED
    BY <2>1, <2>2
<1> QED
  BY <1>1, <1>3, <1>4

LEMMA PruneIs ==
  ASSUME NEW v \in Releases, NEW M \in Nat, NEW w, IsWindow(w, M)
  PROVE  /\ IsWindow(Prune(v, w), M) /\ Prune(v, w).q = Tail(w.q)
         /\ \A k : Count(Prune(v, w), k)
                     = IF k \in PrunedKeys(v, w) THEN Down(Count(w, k)) ELSE Count(w, k)
<1> DEFINE x(ks) == [q |-> Tail(w.q), index |-> Decremented(w, ks)]
<1>1. \A ks : /\ IsWindow(x(ks), M) /\ x(ks).q = Tail(w.q) /\ x(ks).index = Decremented(w, ks)
              /\ \A k : Count(x(ks), k) = IF k \in ks THEN Down(Count(w, k)) ELSE Count(w, k)
  BY DecrementedIs
<1>2. CASE v \in {"final", "max", "apex", "ultra"}
  <2>1. Prune(v, w) = x(PrunedKeys(v, w))
    BY <1>2 DEF Prune, FinalPrune, MaxPrune, ApexPrune, UltraPrune, PrunedKeys, Keys, MaxKeys,
                FinalKeys, UltraKeys
  <2> HIDE DEF x
  <2> QED
    BY <1>1, <2>1
<1>3. CASE v = "current"
  <2> DEFINE ks == CurrentKeys(Head(w.q))
             left == Decremented(w, ks)
             y == Prune(v, w)
  <2>1. y = [q |-> Tail(w.q), index |-> [k \in {i \in DOMAIN left : left[i] > 0} |-> left[k]]]
    BY <1>3 DEF Prune, CurrentPrune
  <2>2. PrunedKeys(v, w) = ks
    BY <1>3 DEF PrunedKeys, Keys
  <2>3. x(ks).index = left /\ IsWindow(x(ks), M)
    BY <1>1
  <2>4. IsFiniteSet(DOMAIN left) /\ \A k \in DOMAIN left : left[k] \in 0 .. M
    BY <2>3 DEF IsWindow
  <2> HIDE DEF left, x, y
  <2>5. /\ DOMAIN y = {"q", "index"} /\ y.q = Tail(w.q)
        /\ DOMAIN y.index = {i \in DOMAIN left : left[i] > 0}
        /\ \A k \in DOMAIN y.index : y.index[k] = left[k]
    BY <2>1
  <2>6. IsFiniteSet(DOMAIN y.index)
    BY <2>4, <2>5, FS_Subset
  <2>7. IsWindow(y, M)
    BY <2>4, <2>5, <2>6 DEF IsWindow
  <2>8. ASSUME NEW k PROVE Count(y, k) = Count(x(ks), k)
    BY <2>3, <2>4, <2>5 DEF Count
  <2> QED
    BY <1>1, <2>2, <2>5, <2>7, <2>8 DEF y
<1> QED
  BY <1>2, <1>3, ReleasesAre

LEMMA CountedIs ==
  ASSUME NEW M \in Nat, NEW w, IsWindow(w, M), NEW ks, IsFiniteSet(ks)
  PROVE  /\ IsWindow(Counted(w, ks), M + 1) /\ Counted(w, ks).q = w.q
         /\ \A k : Count(Counted(w, ks), k) = Count(w, k) + IF k \in ks THEN 1 ELSE 0
         /\ ks \subseteq DOMAIN Counted(w, ks).index
<1> DEFINE x == Counted(w, ks)
<1>1. /\ DOMAIN x = {"q", "index"} /\ x.q = w.q
      /\ x.index = [k \in (DOMAIN w.index) \cup ks |-> Count(w, k) + IF k \in ks THEN 1 ELSE 0]
  BY DEF Counted, IsWindow
<1>2. \A k : Count(w, k) \in 0 .. M
  BY CountType
<1> HIDE DEF x
<1>3. IsFiniteSet(DOMAIN x.index)
  <2>1. IsFiniteSet(DOMAIN w.index)
    BY DEF IsWindow
  <2>2. IsFiniteSet((DOMAIN w.index) \cup ks)
    BY <2>1, FS_Union
  <2>3. DOMAIN x.index = (DOMAIN w.index) \cup ks
    BY <1>1
  <2> QED
    BY <2>2, <2>3
<1>4. \A k \in DOMAIN x.index : x.index[k] = Count(w, k) + IF k \in ks THEN 1 ELSE 0
  BY <1>1
<1>5. IsWindow(x, M + 1)
  <2>1. \A c \in 0 .. M : c + 1 \in 0 .. M + 1 /\ c + 0 \in 0 .. M + 1
    OBVIOUS
  <2> QED
    BY <1>1, <1>2, <1>3, <1>4, <2>1 DEF IsWindow
<1>6. ASSUME NEW k PROVE Count(x, k) = Count(w, k) + IF k \in ks THEN 1 ELSE 0
  <2>1. CASE k \in DOMAIN x.index
    BY <1>4, <2>1 DEF Count
  <2>2. CASE k \notin DOMAIN x.index
    <3>1. k \notin ks /\ k \notin DOMAIN w.index
      BY <1>1, <2>2
    <3> QED
      BY <2>2, <3>1 DEF Count
  <2> QED
    BY <2>1, <2>2
<1> QED
  BY <1>1, <1>5, <1>6 DEF x

LEMMA KeysFinite ==
  ASSUME NEW v \in Releases, NEW r
  PROVE  /\ IsFiniteSet(Keys(v, r)) /\ CountsKey(r) \in Keys(v, r) /\ UniqKey(r) \in Keys(v, r)
         /\ \A k \in Keys(v, r) : /\ k[1] = "counts_dst_" => k = CountsKey(r)
                                  /\ k[1] = "uniq_dst_" => k = UniqKey(r)
<1> DEFINE five == {CountsKey(r), UniqKey(r), <<"per_dst_total_", r.dst_ip>>,
                    <<"per_src_total_", r.src_ip>>, AuthKey(r)}
<1>1. IsFiniteSet(five)
  <2>1. ASSUME NEW a, NEW b, NEW c, NEW d, NEW e PROVE IsFiniteSet({a, b, c, d, e})
    <3>1. IsFiniteSet({a})
      BY FS_Singleton
    <3>2. IsFiniteSet({a} \cup {b})
      BY <3>1, FS_AddElement
    <3>3. IsFiniteSet(({a} \cup {b}) \cup {c})
      BY <3>2, FS_AddElement
    <3>4. IsFiniteSet((({a} \cup {b}) \cup {c}) \cup {d})
      BY <3>3, FS_AddElement
    <3>5. IsFiniteSet(((({a} \cup {b}) \cup {c}) \cup {d}) \cup {e})
      BY <3>4, FS_AddElement
    <3>6. ((({a} \cup {b}) \cup {c}) \cup {d}) \cup {e} = {a, b, c, d, e}
      OBVIOUS
    <3> QED
      BY <3>5, <3>6
  <2> QED
    BY <2>1
<1>2. Keys(v, r) \subseteq five /\ CountsKey(r) \in Keys(v, r) /\ UniqKey(r) \in Keys(v, r)
  BY ReleasesAre DEF Keys, FinalKeys, MaxKeys, UltraKeys, ApexKeys, CurrentKeys, AnyKeys, TotalKeys
<1>3. IsFiniteSet(Keys(v, r))
  BY <1>1, <1>2, FS_Subset
<1>4. \A k \in five : /\ k[1] = "counts_dst_" => k = CountsKey(r)
                      /\ k[1] = "uniq_dst_" => k = UniqKey(r)
  BY DEF CountsKey, UniqKey, AuthKey
<1> QED
  BY <1>2, <1>3, <1>4
LEMMA TailIs ==
  ASSUME NEW q, IsList(q), Len(q) > 0
  PROVE  /\ IsList(Tail(q)) /\ Len(q) \in Nat /\ Len(Tail(q)) = Len(q) - 1
         /\ \A i \in 1 .. Len(q) - 1 : Tail(q)[i] = q[i + 1]
         /\ Head(q) = q[1]
<1>1. PICK S : q \in Seq(S)
  BY DEF IsList
<1>2. Tail(q) \in Seq(S)
  BY <1>1
<1>3. Len(q) \in Nat /\ Len(Tail(q)) = Len(q) - 1
      /\ \A i \in 1 .. Len(q) - 1 : Tail(q)[i] = q[i + 1]
  BY <1>1
<1> QED
  BY <1>2, <1>3 DEF IsList

LEMMA AppendIs ==
  ASSUME NEW q, IsList(q), NEW e
  PROVE  /\ IsList(Append(q, e)) /\ Len(q) \in Nat /\ Len(Append(q, e)) = Len(q) + 1
         /\ \A i \in 1 .. Len(q) : Append(q, e)[i] = q[i]
         /\ Append(q, e)[Len(q) + 1] = e
<1>1. PICK S : q \in Seq(S)
  BY DEF IsList
<1>2. q \in Seq(S \cup {e}) /\ e \in S \cup {e}
  BY <1>1
<1>3. /\ Append(q, e)[Len(q) + 1] = e
      /\ \A i \in 1 .. Len(q) : Append(q, e)[i] = q[i]
  BY <1>2
<1> QED
  BY <1>3, Appended

(* add leaves a window, in which what it counted is there. *)
LEMMA AddKeepsWindow ==
  ASSUME NEW v \in Releases, NEW M \in Nat, NEW w, IsWindow(w, M), IsList(w.q),
         NEW r, NEW span
  PROVE  LET x == Add(v, w, r, span)
         IN  /\ IsWindow(x, M + 1) /\ IsList(x.q)
             /\ \A k \in Keys(v, r) : k \in DOMAIN x.index /\ x.index[k] >= 1
<1> DEFINE len == Len(Append(w.q, r))
<1>1. IsList(Append(w.q, r)) /\ len \in Nat
  <2>1. IsList(Append(w.q, r)) /\ Len(w.q) \in Nat /\ len = Len(w.q) + 1
    BY AppendIs
  <2> QED
    BY <2>1
<1>2. PICK f : Adds(f, v, w, r, span)
  BY <1>1, AddsExist
<1>3. /\ f[0] = Pushed(w, r)
      /\ \A n \in 1 .. len + 1 : f[n] = Round(v, r, span, len, f[n - 1], n)
      /\ Add(v, w, r, span) = f[len + 1]
  BY <1>2 DEF Adds
<1> DEFINE Fine(n) == IsWindow(f[n], M) /\ IsList(f[n].q) /\ Len(f[n].q) >= len - n
                      /\ Len(f[n].q) \in Nat
           P == {n \in Nat : n <= len => Fine(n)}
<1>4. 0 \in P
  <2>1. f[0].q = Append(w.q, r) /\ f[0].index = w.index /\ DOMAIN f[0] = {"q", "index"}
    BY <1>3 DEF Pushed, IsWindow
  <2>2. IsWindow(f[0], M)
    BY <2>1 DEF IsWindow
  <2>3. IsList(f[0].q) /\ Len(f[0].q) = len
    BY <1>1, <2>1
  <2>4. Len(f[0].q) >= len - 0 /\ Len(f[0].q) \in Nat
    BY <1>1, <2>3
  <2> QED
    BY <2>2, <2>3, <2>4
<1> HIDE DEF len
<1>5. ASSUME NEW n \in Nat, n \in P PROVE n + 1 \in P
  <2> SUFFICES ASSUME n + 1 <= len PROVE Fine(n + 1)
    OBVIOUS
  <2>1. Fine(n)
    BY <1>1, <1>5
  <2>2. f[n + 1] = IF r.ts - Head(f[n].q).ts > span THEN Prune(v, f[n]) ELSE f[n]
    <3>1. n + 1 \in 1 .. len + 1 /\ ~(n + 1 > len) /\ (n + 1) - 1 = n
      BY <1>1
    <3> QED
      BY <1>3, <3>1 DEF Round
  <2>3. CASE f[n + 1] = f[n]
    BY <1>1, <2>1, <2>3
  <2>4. CASE f[n + 1] = Prune(v, f[n])
    <3>1. IsWindow(f[n + 1], M) /\ f[n + 1].q = Tail(f[n].q)
      BY <2>1, <2>4, PruneIs
    <3>2. Len(f[n].q) > 0
      BY <1>1, <2>1
    <3>3. IsList(Tail(f[n].q)) /\ Len(Tail(f[n].q)) = Len(f[n].q) - 1
      BY <2>1, <3>2, TailIs
    <3>4. Len(Tail(f[n].q)) \in Nat /\ Len(Tail(f[n].q)) >= len - (n + 1)
      BY <1>1, <2>1, <3>2, <3>3
    <3> QED
      BY <3>1, <3>3, <3>4
  <2> QED
    BY <2>2, <2>3, <2>4
<1>6. Fine(len)
  <2>1. \A n \in Nat : n \in P
    <3> HIDE DEF P
    <3> QED
      BY <1>4, <1>5, InductionOnNat
  <2> QED
    BY <1>1, <2>1
<1>7. Add(v, w, r, span) = Counted(f[len], Keys(v, r))
  <2>1. len + 1 \in 1 .. len + 1 /\ len + 1 > len /\ (len + 1) - 1 = len
    BY <1>1
  <2> QED
    BY <1>3, <2>1 DEF Round
<1> DEFINE x == Counted(f[len], Keys(v, r))
<1>8. /\ IsWindow(x, M + 1) /\ x.q = f[len].q
      /\ \A k : Count(x, k) = Count(f[len], k) + IF k \in Keys(v, r) THEN 1 ELSE 0
      /\ Keys(v, r) \subseteq DOMAIN x.index
  BY <1>6, CountedIs, KeysFinite
<1>9. ASSUME NEW k \in Keys(v, r) PROVE k \in DOMAIN x.index /\ x.index[k] >= 1
  <2>1. Count(f[len], k) \in Nat
    BY <1>6, CountType
  <2>2. k \in DOMAIN x.index /\ Count(x, k) = Count(f[len], k) + 1
    BY <1>8
  <2>3. Count(x, k) = x.index[k]
    BY <2>2 DEF Count
  <2> HIDE DEF x
  <2> QED
    BY <2>1, <2>2, <2>3
<1> HIDE DEF x
<1> QED
  BY <1>6, <1>7, <1>8, <1>9 DEF x
-----------------------------------------------------------------------------
(* What is found. *)

LEMMA SameSize ==
  ASSUME NEW S, NEW T, IsFiniteSet(S), NEW g \in [S -> T],
         \A a, b \in S : g[a] = g[b] => a = b, \A t \in T : \E a \in S : g[a] = t
  PROVE  IsFiniteSet(T) /\ Cardinality(T) = Cardinality(S)
<1>1. g \in Bijection(S, T)
  BY Fun_IsBij
<1>2. ExistsBijection(S, T)
  BY <1>1 DEF ExistsBijection
<1> QED
  BY <1>2, FS_Bijection

Tally(q, t) == Cardinality({i \in DOMAIN q : q[i] = t})

LEMMA TallyFinite ==
  ASSUME NEW q, IsList(q), NEW t
  PROVE  IsFiniteSet({i \in DOMAIN q : q[i] = t}) /\ Tally(q, t) \in Nat
<1>1. DOMAIN q = 1 .. Len(q) /\ Len(q) \in Nat
  BY DEF IsList
<1>2. IsFiniteSet(1 .. Len(q))
  BY <1>1, FS_Interval
<1>3. {i \in DOMAIN q : q[i] = t} \subseteq 1 .. Len(q)
  BY <1>1
<1>4. IsFiniteSet({i \in DOMAIN q : q[i] = t})
  BY <1>2, <1>3, FS_Subset
<1> QED
  BY <1>4, FS_CardinalityType DEF Tally

LEMMA ConcatIs ==
  ASSUME NEW a, NEW b, IsList(a), IsList(b)
  PROVE  /\ IsList(a \o b) /\ Len(a) \in Nat /\ Len(b) \in Nat
         /\ Len(a \o b) = Len(a) + Len(b)
         /\ \A i \in 1 .. Len(a) + Len(b) :
              (a \o b)[i] = IF i <= Len(a) THEN a[i] ELSE b[i - Len(a)]
<1>1. PICK S : a \in Seq(S)
  BY DEF IsList
<1>2. PICK T : b \in Seq(T)
  BY DEF IsList
<1>3. a \in Seq(S \cup T) /\ b \in Seq(S \cup T)
  BY <1>1, <1>2
<1>4. a \o b \in Seq(S \cup T) /\ Len(a \o b) = Len(a) + Len(b)
      /\ Len(a) \in Nat /\ Len(b) \in Nat
  BY <1>3
<1>5. \A i \in 1 .. Len(a) + Len(b) :
              (a \o b)[i] = IF i <= Len(a) THEN a[i] ELSE b[i - Len(a)]
  BY <1>3
<1> QED
  BY <1>4, <1>5 DEF IsList

LEMMA TallyConcat ==
  ASSUME NEW a, NEW b, IsList(a), IsList(b), NEW t
  PROVE  Tally(a \o b, t) = Tally(a, t) + Tally(b, t)
<1> DEFINE A == {i \in DOMAIN a : a[i] = t}
           B == {i \in DOMAIN b : b[i] = t}
           n == Len(a)
           C == {n + i : i \in B}
           g == [i \in B |-> n + i]
<1>1. /\ DOMAIN a = 1 .. n /\ DOMAIN b = 1 .. Len(b) /\ n \in Nat /\ Len(b) \in Nat
      /\ DOMAIN (a \o b) = 1 .. n + Len(b)
      /\ \A i \in 1 .. n + Len(b) : (a \o b)[i] = IF i <= n THEN a[i] ELSE b[i - n]
  <2>1. IsList(a \o b)
    BY ConcatIs
  <2>2. DOMAIN a = 1 .. n /\ DOMAIN b = 1 .. Len(b) /\ DOMAIN (a \o b) = 1 .. Len(a \o b)
    BY <2>1 DEF IsList
  <2> QED
    BY <2>2, ConcatIs
<1>2. IsFiniteSet(A) /\ IsFiniteSet(B)
  BY TallyFinite
<1> HIDE DEF n
<1>3. A \subseteq 1 .. n /\ B \subseteq 1 .. Len(b) /\ B \subseteq Nat
  BY <1>1
<1>4. A \cap C = {}
  BY <1>1, <1>3
<1>5. {i \in DOMAIN (a \o b) : (a \o b)[i] = t} = A \cup C
  <2>1. ASSUME NEW i \in 1 .. n + Len(b), (a \o b)[i] = t PROVE i \in A \cup C
    <3>1. CASE i <= n
      BY <1>1, <2>1, <3>1
    <3>2. CASE ~(i <= n)
      <4>1. i - n \in 1 .. Len(b) /\ b[i - n] = t /\ n + (i - n) = i
        BY <1>1, <2>1, <3>2
      <4> QED
        BY <1>1, <4>1
    <3> QED
      BY <3>1, <3>2
  <2>2. ASSUME NEW i \in A PROVE i \in 1 .. n + Len(b) /\ (a \o b)[i] = t
    <3>1. i \in 1 .. n /\ a[i] = t
      BY <1>1
    <3>2. i \in 1 .. n + Len(b) /\ i <= n
      BY <1>1, <3>1
    <3> QED
      BY <1>1, <3>1, <3>2
  <2>3. ASSUME NEW i \in B PROVE n + i \in 1 .. n + Len(b) /\ (a \o b)[n + i] = t
    <3>1. i \in 1 .. Len(b) /\ b[i] = t
      BY <1>1
    <3>2. n + i \in 1 .. n + Len(b) /\ ~(n + i <= n) /\ (n + i) - n = i
      BY <1>1, <3>1
    <3> QED
      BY <1>1, <3>1, <3>2
  <2> QED
    BY <1>1, <2>1, <2>2, <2>3
<1>6. IsFiniteSet(C) /\ Cardinality(C) = Cardinality(B)
  <2>1. g \in [B -> C] /\ (\A i, j \in B : g[i] = g[j] => i = j)
        /\ \A c \in C : \E i \in B : g[i] = c
    BY <1>1, <1>3
  <2> HIDE DEF g, B, C
  <2> QED
    BY <1>2, <2>1, SameSize
<1>7. Cardinality(A \cup C) = Cardinality(A) + Cardinality(C) - Cardinality(A \cap C)
  BY <1>2, <1>6, FS_Union
<1>8. Cardinality(A \cap C) = 0 /\ Cardinality(A) \in Nat /\ Cardinality(C) \in Nat
  BY <1>2, <1>4, <1>6, FS_EmptySet, FS_CardinalityType
<1>9. Cardinality(A \cup C) = Cardinality(A) + Cardinality(B)
  BY <1>6, <1>7, <1>8
<1> QED
  BY <1>5, <1>9 DEF Tally

(* A type that is written at most once, under a condition. *)
LEMMA TallyOne ==
  ASSUME NEW t, NEW c \in BOOLEAN, NEW u
  PROVE  /\ IsList(IF c THEN <<u>> ELSE <<>>)
         /\ Tally(IF c THEN <<u>> ELSE <<>>, t) = IF c /\ u = t THEN 1 ELSE 0
<1>1. <<>> \in Seq({u}) /\ <<u>> \in Seq({u})
  OBVIOUS
<1>2. IsList(<<>>) /\ IsList(<<u>>)
  BY <1>1 DEF IsList
<1>3. Tally(<<>>, t) = 0
  <2>1. {i \in DOMAIN <<>> : <<>>[i] = t} = {}
    OBVIOUS
  <2> QED
    BY <2>1, FS_EmptySet DEF Tally
<1>4. Tally(<<u>>, t) = IF u = t THEN 1 ELSE 0
  <2>1. {i \in DOMAIN <<u>> : <<u>>[i] = t} = IF u = t THEN {1} ELSE {}
    OBVIOUS
  <2> QED
    BY <2>1, FS_EmptySet, FS_Singleton DEF Tally
<1> QED
  BY <1>2, <1>3, <1>4
(* The hooks of the plugins, one by one. *)
HookStep(r, out, met) == IF met = "policy" THEN out \o Policy(r) ELSE out
HooksRun(f, r) ==
  /\ f[0] = <<>>
  /\ \A n \in 1 .. Len(loads) : f[n] = HookStep(r, f[n - 1], loads[n])
  /\ Hooked(r) = f[Len(loads)]

LEMMA HooksExist ==
  ASSUME NEW r, Len(loads) \in Nat
  PROVE  \E f : HooksRun(f, r)
<1> DEFINE Next1(x, e) == CHOOSE y \in {HookStep(r, z, e) : z \in {x}} : TRUE
           F(f, m) == f = [n \in 0 .. m |-> IF n = 0 THEN <<>> ELSE Next1(f[n - 1], loads[n])]
           P == {m \in Nat : \E f : F(f, m)}
           u == CHOOSE f : F(f, Len(loads))
<1>1. \A x, e : Next1(x, e) = HookStep(r, x, e)
  OBVIOUS
<1>2. Hooked(r) = u[Len(loads)]
  BY DEF Hooked, FoldStrictly, HookStep
<1> HIDE DEF Next1
<1>3. 0 \in P
  <2>1. F([n \in 0 .. 0 |-> <<>>], 0)
    OBVIOUS
  <2> QED
    BY <2>1
<1>4. ASSUME NEW m \in Nat, m \in P PROVE m + 1 \in P
  <2>1. PICK f : F(f, m)
    BY <1>4
  <2> DEFINE g == [n \in 0 .. m + 1 |-> IF n = 0 THEN <<>> ELSE Next1(f[n - 1], loads[n])]
  <2>2. \A n \in 0 .. m : g[n] = f[n]
    BY <2>1
  <2>3. \A n \in 0 .. m + 1 : g[n] = IF n = 0 THEN <<>> ELSE Next1(g[n - 1], loads[n])
    <3> SUFFICES ASSUME NEW n \in 0 .. m + 1, n # 0 PROVE f[n - 1] = g[n - 1]
      OBVIOUS
    <3>1. n - 1 \in 0 .. m
      OBVIOUS
    <3> QED
      BY <2>2, <3>1
  <2>4. F(g, m + 1)
    BY <2>3
  <2>5. \E h : F(h, m + 1)
    BY <2>4
  <2> HIDE DEF F
  <2> QED
    BY <2>5
<1>5. \A m \in Nat : m \in P
  <2> HIDE DEF P
  <2> QED
    BY <1>3, <1>4, InductionOnNat
<1>6. \E f : F(f, Len(loads))
  BY <1>5
<1>7. F(u, Len(loads))
  BY <1>6
<1> HIDE DEF u
<1>8. u[0] = <<>> /\ \A n \in 1 .. Len(loads) : u[n] = Next1(u[n - 1], loads[n])
  BY <1>7
<1> QED
  BY <1>1, <1>2, <1>8 DEF HooksRun

(* Plugins report nothing but their own type. *)
LEMMA HookedOthers ==
  ASSUME Places, NEW r, NEW t, t # "policy"
  PROVE  IsList(Hooked(r)) /\ Tally(Hooked(r), t) = 0
<1>1. Len(loads) \in Nat
  BY DEF Places
<1>2. PICK f : HooksRun(f, r)
  BY <1>1, HooksExist
<1> DEFINE P == {n \in Nat : n <= Len(loads) => IsList(f[n]) /\ Tally(f[n], t) = 0}
<1>3. IsList(<<>>) /\ Tally(<<>>, t) = 0
  BY TallyOne
<1>4. IsList(Policy(r)) /\ Tally(Policy(r), t) = 0
  BY TallyOne DEF Policy
<1>5. 0 \in P
  BY <1>2, <1>3 DEF HooksRun
<1>6. ASSUME NEW n \in Nat, n \in P PROVE n + 1 \in P
  <2> SUFFICES ASSUME n + 1 <= Len(loads) PROVE IsList(f[n + 1]) /\ Tally(f[n + 1], t) = 0
    OBVIOUS
  <2>1. IsList(f[n]) /\ Tally(f[n], t) = 0
    BY <1>1, <1>6
  <2>2. n + 1 \in 1 .. Len(loads) /\ (n + 1) - 1 = n
    BY <1>1
  <2>3. f[n + 1] = f[n] \o Policy(r) \/ f[n + 1] = f[n]
    BY <1>2, <2>2 DEF HooksRun, HookStep
  <2>4. IsList(f[n] \o Policy(r)) /\ Tally(f[n] \o Policy(r), t) = 0
    BY <1>4, <2>1, ConcatIs, TallyConcat
  <2> QED
    BY <2>1, <2>3, <2>4
<1>7. \A n \in Nat : n \in P
  <2> HIDE DEF P
  <2> QED
    BY <1>5, <1>6, InductionOnNat
<1> QED
  BY <1>1, <1>2, <1>7 DEF HooksRun

(* A record that was just counted is seen by both queries. *)
Seen(w, r) ==
  /\ SumOver(w, Ports(w, r)) \in Nat \ {0} /\ uniq_attackers(w, r) \in Nat \ {0}
  /\ Count(w, CountsKey(r)) \in Nat \ {0}

LEMMA QueriesSee ==
  ASSUME NEW M \in Nat, NEW w, IsWindow(w, M), NEW r,
         \A k \in {CountsKey(r), UniqKey(r)} : k \in DOMAIN w.index /\ w.index[k] >= 1
  PROVE  Seen(w, r)
<1> DEFINE D == DOMAIN w.index
           A == CountsKey(r)
           U == UniqKey(r)
           S == UNION {{k} \X (1 .. w.index[k]) : k \in Ports(w, r)}
<1>1. /\ IsFiniteSet(D) /\ \A k \in D : w.index[k] \in 0 .. M
      /\ A \in D /\ U \in D /\ w.index[A] >= 1 /\ w.index[U] >= 1
  BY DEF IsWindow
<1>2. A \in Ports(w, r) /\ U \in Attackers(w, r)
  BY <1>1 DEF Ports, Attackers, CountsKey, UniqKey
<1>3. Ports(w, r) \subseteq D /\ Attackers(w, r) \subseteq D
  BY DEF Ports, Attackers
<1>4. Count(w, A) \in Nat \ {0}
  BY <1>1 DEF Count
<1> HIDE DEF A, U, D
<1>5. uniq_attackers(w, r) \in Nat \ {0}
  <2>1. IsFiniteSet(Attackers(w, r))
    BY <1>1, <1>3, FS_Subset
  <2>2. Cardinality(Attackers(w, r)) \in Nat /\ Cardinality(Attackers(w, r)) # 0
    BY <1>2, <2>1, FS_CardinalityType, FS_EmptySet
  <2> QED
    BY <2>2 DEF uniq_attackers
<1>6. SumOver(w, Ports(w, r)) \in Nat \ {0}
  <2>1. IsFiniteSet(1 .. M)
    BY FS_Interval
  <2>2. IsFiniteSet(D \X (1 .. M))
    BY <1>1, <2>1, FS_Product
  <2>3. \A k \in D : 1 .. w.index[k] \subseteq 1 .. M
    BY <1>1
  <2>4. S \subseteq D \X (1 .. M)
    BY <1>3, <2>3
  <2>5. IsFiniteSet(S)
    BY <2>2, <2>4, FS_Subset
  <2>6. S # {}
    <3>1. 1 \in 1 .. w.index[A]
      BY <1>1
    <3>2. <<A, 1>> \in {A} \X (1 .. w.index[A])
      BY <3>1
    <3> QED
      BY <1>2, <3>2
  <2> HIDE DEF S
  <2>7. Cardinality(S) \in Nat /\ Cardinality(S) # 0
    BY <2>5, <2>6, FS_CardinalityType, FS_EmptySet
  <2> QED
    BY <2>7 DEF SumOver, S
<1> QED
  BY <1>4, <1>5, <1>6 DEF Seen, A

(* A threshold that everything reaches. *)
LEMMA AllReach == \A n \in Nat \ {0}, t \in Int : t <= 1 => n >= t
OBVIOUS

(* With a low threshold the record is reported, and once. *)
LEMMA FindingsCount ==
  ASSUME Places, NEW w, NEW r, Seen(w, r),
         th.portscan_attempts \in Int, th.ddos_unique \in Int
  PROVE  /\ IsList(Findings(w, r))
         /\ th.portscan_attempts <= 1 => Tally(Findings(w, r), "portscan") = 1
         /\ th.ddos_unique <= 1 => Tally(Findings(w, r), "ddos") = 1
<1> DEFINE a == \/ rel = "current" /\ Count(w, CountsKey(r)) >= th.portscan_attempts
                \/ rel # "current" /\ SumOver(w, Ports(w, r)) >= th.portscan_attempts
           b == uniq_attackers(w, r) >= th.ddos_unique
           c == r.username # "" /\ auth_failures(w, r) >= th.bruteforce_failures
           A == IF a THEN <<"portscan">> ELSE <<>>
           B == IF b THEN <<"ddos">> ELSE <<>>
           C == Bruteforce(w, r, th)
           H == Hooked(r)
<1>1. /\ th.portscan_attempts <= 1 => a
      /\ th.ddos_unique <= 1 => b
  BY AllReach DEF Seen
<1>2. a \in BOOLEAN /\ b \in BOOLEAN /\ c \in BOOLEAN
  <2>1. b \in BOOLEAN
    BY DEF Seen
  <2> QED
    BY <2>1
<1>3. rel \in Releases
  BY JobTypes DEF Places
<1>4. \/ Findings(w, r) = A \o B
      \/ Findings(w, r) = (A \o B) \o H
      \/ Findings(w, r) = ((A \o B) \o C) \o H
  BY <1>3, ReleasesAre
     DEF Findings, FinalFindings, MaxFindings, UltraFindings, ApexFindings, CurrentFindings,
         FinalDetect, MaxDetect, UltraDetect, ApexDetect, CurrentDetect
<1>5. /\ IsList(A) /\ IsList(B) /\ IsList(C)
      /\ Tally(A, "portscan") = IF a THEN 1 ELSE 0
      /\ Tally(B, "portscan") = 0 /\ Tally(C, "portscan") = 0
      /\ Tally(A, "ddos") = 0 /\ Tally(C, "ddos") = 0
      /\ Tally(B, "ddos") = IF b THEN 1 ELSE 0
  <2>1. IsList(C) /\ Tally(C, "portscan") = 0 /\ Tally(C, "ddos") = 0
    BY <1>2, TallyOne DEF Bruteforce
  <2> HIDE DEF a, b, C
  <2> QED
    BY <1>2, <2>1, TallyOne
<1>6. IsList(H) /\ Tally(H, "portscan") = 0 /\ Tally(H, "ddos") = 0
  BY HookedOthers
<1> HIDE DEF A, B, C, H
<1>7. /\ IsList(A \o B) /\ Tally(A \o B, "portscan") = Tally(A, "portscan") + 0
      /\ Tally(A \o B, "ddos") = 0 + Tally(B, "ddos")
  BY <1>5, ConcatIs, TallyConcat
<1>8. IsList((A \o B) \o C)
      /\ Tally((A \o B) \o C, "portscan") = Tally(A \o B, "portscan") + 0
      /\ Tally((A \o B) \o C, "ddos") = Tally(A \o B, "ddos") + 0
  BY <1>5, <1>7, ConcatIs, TallyConcat
<1>9. \A q : IsList(q) => /\ IsList(q \o H)
                          /\ Tally(q \o H, "portscan") = Tally(q, "portscan") + 0
                          /\ Tally(q \o H, "ddos") = Tally(q, "ddos") + 0
  BY <1>6, ConcatIs, TallyConcat
<1>10. ASSUME NEW q, IsList(q),
              th.portscan_attempts <= 1 => Tally(q, "portscan") = 1,
              th.ddos_unique <= 1 => Tally(q, "ddos") = 1
       PROVE  /\ IsList(q \o H)
              /\ th.portscan_attempts <= 1 => Tally(q \o H, "portscan") = 1
              /\ th.ddos_unique <= 1 => Tally(q \o H, "ddos") = 1
  BY <1>9, <1>10
<1>11. /\ th.portscan_attempts <= 1 => Tally(A \o B, "portscan") = 1
       /\ th.ddos_unique <= 1 => Tally(A \o B, "ddos") = 1
  BY <1>1, <1>5, <1>7
<1>12. /\ th.portscan_attempts <= 1 => Tally((A \o B) \o C, "portscan") = 1
       /\ th.ddos_unique <= 1 => Tally((A \o B) \o C, "ddos") = 1
  BY <1>8, <1>11
<1> QED
  BY <1>4, <1>7, <1>8, <1>10, <1>11, <1>12

(* Up to the rules nothing has touched the window. *)
LEMMA WinUntouched ==
  ASSUME IInv, [Next]_vars, pc' \in {"argv", "logger", "rules"}
  PROVE  pc \in {"argv", "logger", "rules"} /\ win' = win
<1>1. rel \in Releases /\ Places
  BY JobFacts DEF IInv
<1>2. pc \in {"argv", "logger", "rules"}
  <2>1. CASE Parse
    BY <2>1 DEF Parse
  <2>2. CASE ~Parse /\ pc' # "argv"
    BY <2>2, Moves DEF Moved
  <2>3. CASE pc' = "argv" /\ (MakeLogger \/ StartServer \/ OpenInput \/ StartWork)
    BY <1>1, <2>3, StageOrder DEF MakeLogger, StartServer, OpenInput, StartWork, End, Leave
  <2>4. CASE pc' = "argv" /\ (EndOfInput \/ Unload \/ Gate \/ Finish)
    BY <1>1, <2>4, StageOrder DEF EndOfInput, Unload, Gate, Finish, Log, End, Leave
  <2>5. CASE LoadRules \/ Return \/ UNCHANGED vars \/ ApexBench \/ CurrentBench
    BY <1>1, <2>5 DEF LoadRules, Return, vars, ApexBench, CurrentBench, Timed, End, Leave
  <2>6. CASE LoadPlugin \/ Selfcheck \/ SelfcheckSample \/ Work
    BY <2>6 DEF LoadPlugin, Selfcheck, SelfcheckSample, Work, Log, End, Stay, Goto
  <2>7. CASE ExitStep
    BY <2>7, ExitSteps
  <2> QED
    BY <2>1, <2>2, <2>3, <2>4, <2>5, <2>6, <2>7 DEF Next, Main, Still, ExitStep
<1> QED
  BY <1>2, OnlyWorkReads DEF Work

(* The window is one, and under a low threshold there are as many findings  *)
(* as records.                                                              *)
Reports ==
  /\ IsList(judged) /\ IsList(written)
  /\ th.portscan_attempts <= 1 => Tally(written, "portscan") = Len(judged)
  /\ th.ddos_unique <= 1 => Tally(written, "ddos") = Len(judged)
WindowIs == \E M \in Nat : IsWindow(win, M) /\ IsList(win.q)
Reporting ==
  /\ pc \in {"argv", "logger", "rules"} => win = Empty
  /\ th # <<>> => WindowIs /\ Reports

LEMMA WorkWindow ==
  ASSUME rel \in Releases, WindowIs, NEW r, win' = Add(rel, win, r, s.window)
  PROVE  WindowIs' /\ Seen(win', r)
<1>1. PICK M \in Nat : IsWindow(win, M) /\ IsList(win.q)
  BY DEF WindowIs
<1> DEFINE x == Add(rel, win, r, s.window)
<1>2. /\ IsWindow(x, M + 1) /\ IsList(x.q)
      /\ \A k \in Keys(rel, r) : k \in DOMAIN x.index /\ x.index[k] >= 1
  BY <1>1, AddKeepsWindow
<1> HIDE DEF x
<1>3. M + 1 \in Nat /\ CountsKey(r) \in Keys(rel, r) /\ UniqKey(r) \in Keys(rel, r)
  BY KeysFinite
<1>4. Seen(x, r)
  BY <1>2, <1>3, QueriesSee
<1>5. win' = x
  BY DEF x
<1> QED
  BY <1>2, <1>3, <1>4, <1>5 DEF WindowIs

LEMMA WorkReports ==
  ASSUME IInv, RulesInForce, th # <<>>, WindowIs, Reports, Work
  PROVE  WindowIs' /\ Reports'
<1>1. rel \in Releases /\ Places /\ th' = th
  BY JobFacts DEF IInv, Work
<1>2. CASE UNCHANGED <<judged, win, written>>
  BY <1>1, <1>2 DEF WindowIs, Reports
<1>3. ASSUME NEW r, judged' = Append(judged, r), win' = Add(rel, win, r, s.window),
             written' = written \o Findings(win', r)
      PROVE  WindowIs' /\ Reports'
  <2>1. WindowIs' /\ Seen(win', r)
    BY <1>1, <1>3, WorkWindow
  <2>2. th.portscan_attempts \in Int /\ th.ddos_unique \in Int
    <3>1. Rules \in Seq(Tokens) /\ <<>> \in Seq(Tokens)
      BY <1>1, JobTypes DEF Places, Rules
    <3>2. RulesRead \in Seq(Tokens)
      BY <3>1, Zenon DEF RulesRead, Rules
    <3> QED
      BY <1>1, <3>2, ThresholdTypes DEF RulesInForce
  <2> DEFINE F == Findings(win', r)
  <2>3. /\ IsList(F)
        /\ th.portscan_attempts <= 1 => Tally(F, "portscan") = 1
        /\ th.ddos_unique <= 1 => Tally(F, "ddos") = 1
    BY <1>1, <2>1, <2>2, FindingsCount
  <2> HIDE DEF F
  <2>4. /\ IsList(written') /\ Tally(written', "portscan") = Tally(written, "portscan") + Tally(F, "portscan")
        /\ Tally(written', "ddos") = Tally(written, "ddos") + Tally(F, "ddos")
    BY <1>3, <2>3, ConcatIs, TallyConcat DEF Reports, F
  <2>5. IsList(judged') /\ Len(judged') = Len(judged) + 1
    BY <1>3, Appended DEF Reports
  <2>6. /\ th'.portscan_attempts <= 1 => Tally(written', "portscan") = Len(judged')
        /\ th'.ddos_unique <= 1 => Tally(written', "ddos") = Len(judged')
    BY <1>1, <2>3, <2>4, <2>5 DEF Reports
  <2> QED
    BY <2>1, <2>4, <2>5, <2>6 DEF Reports
<1> QED
  BY <1>2, <1>3 DEF Work, Judge

LEMMA ReportingNext ==
  ASSUME IInv, RulesInForce, Reporting, [Next]_vars
  PROVE  Reporting'
<1>1. pc' \in {"argv", "logger", "rules"} => win' = Empty
  BY WinUntouched DEF Reporting
<1>2. pc \in Unruled => th = <<>>
  BY DEF IInv, Untouched
<1>3. CASE Work
  <2>1. pc = "work" /\ th' = th /\ th # <<>>
    BY <1>3 DEF Work, RulesInForce
  <2> QED
    BY <1>1, <1>3, <2>1, WorkReports DEF Reporting
<1>4. CASE LoadRules
  <2>1. pc = "rules" /\ win' = win /\ judged' = judged /\ written' = written
    BY <1>4 DEF LoadRules, workVars
  <2>2. win' = Empty /\ judged' = <<>> /\ written' = <<>>
    BY <2>1 DEF Reporting, IInv, Untouched, Early, Unruled
  <2>3. IsWindow(Empty, 0) /\ IsList(Empty.q)
    <3>1. DOMAIN Empty.index = {} /\ DOMAIN Empty = {"q", "index"} /\ Empty.q = <<>>
      BY DEF Empty
    <3>2. IsFiniteSet(DOMAIN Empty.index)
      BY <3>1, FS_EmptySet
    <3>3. IsList(<<>>)
      BY TallyOne
    <3> QED
      BY <3>1, <3>2, <3>3 DEF IsWindow
  <2>4. WindowIs'
    BY <2>2, <2>3 DEF WindowIs
  <2>5. IsList(<<>>) /\ Len(<<>>) = 0 /\ \A t : Tally(<<>>, t) = 0
    BY TallyOne
  <2>6. Reports'
    BY <2>2, <2>5 DEF Reports
  <2> QED
    BY <1>1, <2>4, <2>6 DEF Reporting
<1>5. CASE ~Work /\ ~LoadRules
  <2>1. th' = th
    <3>1. CASE Parse
      BY <3>1 DEF Parse
    <3> QED
      BY <1>5, <3>1, Moves
  <2>2. judged' = judged /\ written' = written /\ (win' = win \/ pc = "sample")
    BY <1>5, OnlyWorkReads
  <2>3. CASE th = <<>>
    BY <1>1, <2>1, <2>3 DEF Reporting
  <2>4. CASE th # <<>>
    <3>1. win' = win
      BY <1>2, <2>2, <2>4 DEF Unruled, Others
    <3> QED
      BY <1>1, <2>1, <2>2, <3>1 DEF Reporting, WindowIs, Reports
  <2> QED
    BY <2>3, <2>4
<1> QED
  BY <1>3, <1>4, <1>5

(* No threshold is too low to be obeyed: at 1 or less every record is       *)
(* reported, and once, for logs of any length, windows of any span and any  *)
(* plugins.                                                                 *)
THEOREM LowThresholdsReport == Spec => []LowThresholdReportsAll
<1>1. Init => Reporting
  BY DEF Init, Reporting
<1>2. IInv /\ RulesInForce /\ Reporting /\ [Next]_vars => Reporting'
  BY ReportingNext
<1>3. Reporting => LowThresholdReportsAll
  BY DEF Reporting, Reports, LowThresholdReportsAll, CountOf, Tally
<1> QED
  BY <1>1, <1>2, <1>3, Invariant, RulesInForceInvariant, PTL DEF Spec
-----------------------------------------------------------------------------
(* The window against a recount.  j are the records that were judged, b of  *)
(* them have left the window and m are counted; a key occurs at the records *)
(* between that have it.                                                    *)
Occ(v, j, b, m, k) == {i \in b + 1 .. m : k \in Keys(v, j[i])}
Slipped(v, k) == v = "ultra" /\ k[1] = "uniq_dst_"
Counts(v, w, j, b, m) ==
  \A k : IF Slipped(v, k) THEN Count(w, k) >= Cardinality(Occ(v, j, b, m, k))
         ELSE Count(w, k) = Cardinality(Occ(v, j, b, m, k))
Holds(v, w, j, b, m) ==
  /\ b \in 0 .. m /\ m <= Len(j)
  /\ IsList(w.q) /\ Len(w.q) = Len(j) - b
  /\ \A n \in 1 .. Len(w.q) : w.q[n] = j[b + n]
  /\ Counts(v, w, j, b, m)

LEMMA OccFinite ==
  ASSUME NEW b \in Nat, NEW m \in Nat, NEW v, NEW j, NEW k
  PROVE  IsFiniteSet(Occ(v, j, b, m, k)) /\ Cardinality(Occ(v, j, b, m, k)) \in Nat
<1>1. IsFiniteSet(b + 1 .. m)
  BY FS_Interval
<1>2. Occ(v, j, b, m, k) \subseteq b + 1 .. m
  BY DEF Occ
<1> QED
  BY <1>1, <1>2, FS_Subset, FS_CardinalityType

LEMMA OccDrops ==
  ASSUME NEW b \in Nat, NEW m \in Nat, b < m, NEW v, NEW j, NEW k
  PROVE  Cardinality(Occ(v, j, b + 1, m, k))
           = IF k \in Keys(v, j[b + 1]) THEN Cardinality(Occ(v, j, b, m, k)) - 1
             ELSE Cardinality(Occ(v, j, b, m, k))
<1> DEFINE S == Occ(v, j, b, m, k)
<1>1. Occ(v, j, b + 1, m, k) = S \ {b + 1}
  BY DEF Occ
<1>2. b + 1 \in S <=> k \in Keys(v, j[b + 1])
  BY DEF Occ
<1>3. IsFiniteSet(S)
  BY OccFinite
<1> HIDE DEF S
<1>4. Cardinality(S \ {b + 1}) = IF b + 1 \in S THEN Cardinality(S) - 1 ELSE Cardinality(S)
  BY <1>3, FS_RemoveElement
<1> QED
  BY <1>1, <1>2, <1>4 DEF S

LEMMA OccGrows ==
  ASSUME NEW b \in Nat, NEW m \in Nat, b <= m, NEW v, NEW j, NEW k
  PROVE  Cardinality(Occ(v, j, b, m + 1, k))
           = Cardinality(Occ(v, j, b, m, k)) + IF k \in Keys(v, j[m + 1]) THEN 1 ELSE 0
<1> DEFINE S == Occ(v, j, b, m, k)
           T == Occ(v, j, b, m + 1, k)
<1>1. m + 1 \notin S /\ T = IF k \in Keys(v, j[m + 1]) THEN S \cup {m + 1} ELSE S
  BY DEF Occ
<1>2. IsFiniteSet(S) /\ Cardinality(S) \in Nat
  BY OccFinite
<1> HIDE DEF S, T
<1>3. Cardinality(S \cup {m + 1}) = Cardinality(S) + 1
  BY <1>1, <1>2, FS_AddElement
<1> QED
  BY <1>1, <1>2, <1>3 DEF S, T

(* One round of prune that finds its record too old. *)
LEMMA PruneHolds ==
  ASSUME NEW v \in Releases, NEW M \in Nat, NEW w, IsWindow(w, M), NEW j, Len(j) \in Nat,
         NEW b \in Nat, NEW m \in Nat, Holds(v, w, j, b, m), b < m
  PROVE  Holds(v, Prune(v, w), j, b + 1, m)
<1> DEFINE x == Prune(v, w)
<1>1. /\ IsWindow(x, M) /\ x.q = Tail(w.q)
      /\ \A k : Count(x, k) = IF k \in PrunedKeys(v, w) THEN Down(Count(w, k)) ELSE Count(w, k)
  BY PruneIs
<1>2. IsList(w.q) /\ Len(w.q) = Len(j) - b /\ m <= Len(j) /\ Counts(v, w, j, b, m)
      /\ \A n \in 1 .. Len(w.q) : w.q[n] = j[b + n]
  BY DEF Holds
<1>3. Len(w.q) > 0
  BY <1>2
<1>4. /\ IsList(Tail(w.q)) /\ Len(Tail(w.q)) = Len(w.q) - 1
      /\ \A i \in 1 .. Len(w.q) - 1 : Tail(w.q)[i] = w.q[i + 1]
      /\ Head(w.q) = w.q[1]
  BY <1>2, <1>3, TailIs
<1> HIDE DEF x
<1>5. IsList(x.q) /\ Len(x.q) = Len(j) - (b + 1)
      /\ \A n \in 1 .. Len(x.q) : x.q[n] = j[(b + 1) + n]
  <2>1. IsList(x.q) /\ Len(x.q) = Len(j) - (b + 1)
    BY <1>1, <1>2, <1>4
  <2>2. ASSUME NEW n \in 1 .. Len(x.q) PROVE x.q[n] = j[(b + 1) + n]
    <3>1. /\ n \in 1 .. Len(w.q) - 1 /\ n + 1 \in 1 .. Len(w.q)
          /\ b + (n + 1) = (b + 1) + n
      <4>1. Len(w.q) = Len(j) - b /\ Len(x.q) = Len(j) - (b + 1)
        BY <1>2, <2>1
      <4> QED
        BY <4>1
    <3>2. x.q[n] = w.q[n + 1] /\ w.q[n + 1] = j[b + (n + 1)]
      BY <1>1, <1>2, <1>4, <3>1
    <3> QED
      BY <3>1, <3>2
  <2> QED
    BY <2>1, <2>2
<1>6. Head(w.q) = j[b + 1]
  <2>1. 1 \in 1 .. Len(w.q)
    BY <1>2, <1>3
  <2> QED
    BY <1>2, <1>4, <2>1
<1>7. ASSUME NEW k
      PROVE  IF Slipped(v, k) THEN Count(x, k) >= Cardinality(Occ(v, j, b + 1, m, k))
             ELSE Count(x, k) = Cardinality(Occ(v, j, b + 1, m, k))
  <2> DEFINE c == Count(w, k)
             n == Cardinality(Occ(v, j, b, m, k))
             y == Cardinality(Occ(v, j, b + 1, m, k))
             there == k \in Keys(v, j[b + 1])
  <2>1. c \in Nat /\ n \in Nat /\ y \in Nat
    BY OccFinite, CountType
  <2>2. IF Slipped(v, k) THEN c >= n ELSE c = n
    BY <1>2 DEF Counts
  <2>3. y = IF there THEN n - 1 ELSE n
    BY OccDrops
  <2>4. /\ Count(x, k) \in {c, Down(c)}
        /\ ~there => Count(x, k) = c
        /\ there /\ ~Slipped(v, k) => Count(x, k) = Down(c)
    <3>1. Count(x, k) = IF k \in PrunedKeys(v, w) THEN Down(c) ELSE c
      BY <1>1
    <3>2. PrunedKeys(v, w) \subseteq Keys(v, j[b + 1])
      BY <1>6 DEF PrunedKeys
    <3>3. ~Slipped(v, k) => (there => k \in PrunedKeys(v, w))
      <4>1. UniqKey(j[b + 1])[1] = "uniq_dst_"
        BY DEF UniqKey
      <4> QED
        BY <1>6, <4>1 DEF PrunedKeys, Slipped
    <3> QED
      BY <3>1, <3>2, <3>3
  <2>5. Down(c) = IF c > 0 THEN c - 1 ELSE c
    BY DEF Down
  <2> HIDE DEF c, n, y, there
  <2>6. IF Slipped(v, k) THEN Count(x, k) >= y ELSE Count(x, k) = y
    <3>1. CASE there /\ Slipped(v, k)
      <4>1. c >= n /\ y = n - 1 /\ (Count(x, k) = c \/ Count(x, k) = Down(c))
        BY <2>2, <2>3, <2>4, <3>1
      <4> QED
        BY <2>1, <2>5, <3>1, <4>1
    <3>2. CASE there /\ ~Slipped(v, k)
      <4>1. c = n /\ y = n - 1 /\ Count(x, k) = Down(c)
        BY <2>2, <2>3, <2>4, <3>2
      <4> QED
        BY <2>1, <2>5, <3>2, <4>1
    <3>3. CASE ~there
      BY <2>2, <2>3, <2>4, <3>3
    <3> QED
      BY <3>1, <3>2, <3>3
  <2> QED
    BY <2>6 DEF y
<1>8. Counts(v, x, j, b + 1, m)
  BY <1>7 DEF Counts
<1>9. b + 1 \in 0 .. m
  OBVIOUS
<1> QED
  BY <1>2, <1>5, <1>8, <1>9 DEF Holds, x

(* The record that was pushed is counted. *)
LEMMA CountHolds ==
  ASSUME NEW v \in Releases, NEW M \in Nat, NEW w, IsWindow(w, M), NEW j, Len(j) \in Nat,
         NEW b \in Nat, NEW m \in Nat, Holds(v, w, j, b, m), Len(j) = m + 1
  PROVE  Holds(v, Counted(w, Keys(v, j[m + 1])), j, b, m + 1)
<1> DEFINE x == Counted(w, Keys(v, j[m + 1]))
<1>1. /\ x.q = w.q
      /\ \A k : Count(x, k) = Count(w, k) + IF k \in Keys(v, j[m + 1]) THEN 1 ELSE 0
  BY CountedIs, KeysFinite
<1> HIDE DEF x
<1>2. /\ b \in 0 .. m /\ IsList(w.q) /\ Len(w.q) = Len(j) - b /\ Counts(v, w, j, b, m)
      /\ \A n \in 1 .. Len(w.q) : w.q[n] = j[b + n]
  BY DEF Holds
<1>b. b <= m
  BY <1>2
<1>3. ASSUME NEW k
      PROVE  IF Slipped(v, k) THEN Count(x, k) >= Cardinality(Occ(v, j, b, m + 1, k))
             ELSE Count(x, k) = Cardinality(Occ(v, j, b, m + 1, k))
  <2> DEFINE n == Cardinality(Occ(v, j, b, m, k))
  <2>1. Count(w, k) \in Nat /\ n \in Nat
    BY OccFinite, CountType
  <2>2. IF Slipped(v, k) THEN Count(w, k) >= n ELSE Count(w, k) = n
    BY <1>2 DEF Counts
  <2>3. Cardinality(Occ(v, j, b, m + 1, k)) = n + IF k \in Keys(v, j[m + 1]) THEN 1 ELSE 0
    BY <1>b, OccGrows
  <2>4. Count(x, k) = Count(w, k) + IF k \in Keys(v, j[m + 1]) THEN 1 ELSE 0
    BY <1>1
  <2> HIDE DEF n
  <2> QED
    BY <2>1, <2>2, <2>3, <2>4
<1>4. Counts(v, x, j, b, m + 1)
  BY <1>3 DEF Counts
<1>5. b \in 0 .. m + 1 /\ m + 1 <= Len(j)
  BY <1>b
<1> QED
  BY <1>1, <1>2, <1>4, <1>5 DEF Holds, x

(* A record is pushed, and not yet counted. *)
LEMMA PushHolds ==
  ASSUME NEW v, NEW M, NEW w, IsWindow(w, M), NEW j, IsList(j),
         NEW b \in Nat, Holds(v, w, j, b, Len(j)), NEW r
  PROVE  /\ Holds(v, Pushed(w, r), Append(j, r), b, Len(j)) /\ IsWindow(Pushed(w, r), M)
<1> DEFINE x == Pushed(w, r)
           J == Append(j, r)
           m == Len(j)
<1>1. /\ IsList(J) /\ m \in Nat /\ Len(J) = m + 1 /\ J[m + 1] = r
      /\ \A i \in 1 .. m : J[i] = j[i]
  BY AppendIs
<1>2. x.q = Append(w.q, r) /\ x.index = w.index /\ DOMAIN x = {"q", "index"}
  BY DEF Pushed, IsWindow
<1>3. /\ b <= m /\ IsList(w.q) /\ Len(w.q) = m - b /\ Counts(v, w, j, b, m)
      /\ \A n \in 1 .. Len(w.q) : w.q[n] = j[b + n]
  BY DEF Holds
<1>4. /\ IsList(x.q) /\ Len(x.q) = Len(w.q) + 1 /\ x.q[Len(w.q) + 1] = r
      /\ \A i \in 1 .. Len(w.q) : x.q[i] = w.q[i]
  BY <1>2, <1>3, AppendIs
<1> HIDE DEF x, J, m
<1>5. IsWindow(x, M)
  BY <1>2 DEF IsWindow
<1>6. Len(x.q) = Len(J) - b
  BY <1>1, <1>3, <1>4
<1>7. ASSUME NEW n \in 1 .. Len(x.q) PROVE x.q[n] = J[b + n]
  <2>1. CASE n <= Len(w.q)
    <3>1. n \in 1 .. Len(w.q) /\ b + n \in 1 .. m
      BY <1>1, <1>3, <2>1
    <3> QED
      BY <1>1, <1>3, <1>4, <3>1
  <2>2. CASE ~(n <= Len(w.q))
    <3>1. n = Len(w.q) + 1 /\ b + n = m + 1
      BY <1>1, <1>3, <1>4, <2>2
    <3> QED
      BY <1>1, <1>4, <3>1
  <2> QED
    BY <2>1, <2>2
<1>8. \A k : Count(x, k) = Count(w, k)
  BY <1>2 DEF Count
<1>9. \A k : Occ(v, J, b, m, k) = Occ(v, j, b, m, k)
  <2>1. \A i \in b + 1 .. m : J[i] = j[i]
    BY <1>1
  <2> QED
    BY <2>1 DEF Occ
<1>10. Counts(v, x, J, b, m)
  BY <1>3, <1>8, <1>9 DEF Counts
<1>11. b \in 0 .. m /\ m <= Len(J)
  BY <1>1, <1>3
<1>12. Holds(v, x, J, b, m)
  BY <1>4, <1>6, <1>7, <1>10, <1>11 DEF Holds
<1> QED
  BY <1>5, <1>12 DEF x, J, m

(* Records in time order, and those within a span of the last.              *)
Stamped(j) == \A i \in 1 .. Len(j) : j[i].ts \in Int
Ordered(j) == \A i, k \in 1 .. Len(j) : i <= k => j[i].ts <= j[k].ts
Latest(j, b, span) ==
  \A i \in 1 .. Len(j) : j[Len(j)].ts - j[i].ts <= span <=> i > b

LEMMA AdjacentOrder ==
  ASSUME NEW j, Len(j) \in Nat, Stamped(j), \A i \in 2 .. Len(j) : j[i - 1].ts <= j[i].ts
  PROVE  Ordered(j)
<1> DEFINE P == {n \in Nat : \A i \in 1 .. Len(j) : i + n <= Len(j) => j[i].ts <= j[i + n].ts}
<1>1. 0 \in P
  BY DEF Stamped
<1>2. ASSUME NEW n \in Nat, n \in P PROVE n + 1 \in P
  <2> SUFFICES ASSUME NEW i \in 1 .. Len(j), i + (n + 1) <= Len(j)
               PROVE  j[i].ts <= j[i + (n + 1)].ts
    OBVIOUS
  <2>1. i + n <= Len(j) /\ i + (n + 1) \in 2 .. Len(j) /\ i + n \in 1 .. Len(j)
        /\ (i + (n + 1)) - 1 = i + n /\ i + (n + 1) \in 1 .. Len(j)
    OBVIOUS
  <2>2. j[i].ts <= j[i + n].ts /\ j[i + n].ts <= j[i + (n + 1)].ts
    BY <1>2, <2>1
  <2>3. j[i].ts \in Int /\ j[i + n].ts \in Int /\ j[i + (n + 1)].ts \in Int
    BY <2>1 DEF Stamped
  <2>4. \A x, y, z \in Int : x <= y /\ y <= z => x <= z
    OBVIOUS
  <2> QED
    BY <2>2, <2>3, <2>4
<1>3. \A n \in Nat : n \in P
  <2> HIDE DEF P
  <2> QED
    BY <1>1, <1>2, InductionOnNat
<1> SUFFICES ASSUME NEW i \in 1 .. Len(j), NEW k \in 1 .. Len(j), i <= k
             PROVE  j[i].ts <= j[k].ts
  BY DEF Ordered
<1>4. k - i \in Nat /\ i + (k - i) = k
  OBVIOUS
<1>5. k - i \in P
  BY <1>3, <1>4
<1>6. j[i].ts <= j[i + (k - i)].ts
  BY <1>4, <1>5
<1> QED
  BY <1>4, <1>6

(* What every round of prune leaves: records that are too old have left, as *)
(* many as there were rounds, or the next is not too old.                   *)
Beyond(j, b, r, span) == \A i \in 1 .. b : r.ts - j[i].ts > span
RoundLeaves(v, x, M, j, b, m, r, span, least) ==
  /\ IsWindow(x, M) /\ Holds(v, x, j, b, m) /\ Beyond(j, b, r, span)
  /\ b >= least \/ r.ts - j[b + 1].ts <= span

LEMMA WithinOrBeyond == \A x, y \in Int, z \in Nat : x - y > z <=> ~(x - y <= z)
OBVIOUS

(* add on a window that holds the records before: the records that leave    *)
(* are those beyond the span.                                               *)
LEMMA AddHolds ==
  ASSUME NEW v \in Releases, NEW M \in Nat, NEW w, IsWindow(w, M), NEW j, IsList(j),
         NEW b0 \in Nat, Holds(v, w, j, b0, Len(j)), NEW r, NEW span \in Nat,
         NEW J, J = Append(j, r), Stamped(J), Ordered(J),
         Beyond(J, b0, r, span)
  PROVE  \E b \in Nat : Holds(v, Add(v, w, r, span), J, b, Len(J)) /\ Latest(J, b, span)
<1> DEFINE len == Len(Append(w.q, r))
           m == Len(j)
<1>1. /\ m \in Nat /\ Len(J) = m + 1 /\ J[m + 1] = r /\ b0 <= m
      /\ len = m - b0 + 1 /\ len \in Nat
  <2>1. m \in Nat /\ Len(J) = m + 1 /\ J[m + 1] = r
    BY AppendIs
  <2>2. IsList(w.q) /\ Len(w.q) = m - b0 /\ b0 \in 0 .. m
    BY DEF Holds
  <2>3. len = Len(w.q) + 1 /\ Len(w.q) \in Nat
    BY <2>2, AppendIs
  <2> QED
    BY <2>1, <2>2, <2>3
<1>2. PICK f : Adds(f, v, w, r, span)
  BY <1>1, AddsExist
<1>3. /\ f[0] = Pushed(w, r)
      /\ \A n \in 1 .. len + 1 : f[n] = Round(v, r, span, len, f[n - 1], n)
      /\ Add(v, w, r, span) = f[len + 1]
  BY <1>2 DEF Adds
<1> DEFINE At(n, b) == RoundLeaves(v, f[n], M, J, b, m, r, span, b0 + n)
           P == {n \in Nat : n <= len => \E b \in Nat : At(n, b)}
<1>4. 0 \in P
  <2>1. Holds(v, f[0], J, b0, m) /\ IsWindow(f[0], M)
    BY <1>3, PushHolds
  <2>2. b0 >= b0 + 0
    OBVIOUS
  <2>3. At(0, b0)
    BY <2>1, <2>2 DEF RoundLeaves
  <2> QED
    BY <2>3
<1> HIDE DEF len, m
<1>t. r.ts \in Int /\ r.ts - r.ts <= span /\ \A i \in 1 .. m + 1 : J[i].ts \in Int
  <2>1. \A i \in 1 .. m + 1 : J[i].ts \in Int
    BY <1>1 DEF Stamped
  <2>2. m + 1 \in 1 .. m + 1
    BY <1>1
  <2>3. r.ts \in Int
    BY <1>1, <2>1, <2>2
  <2>4. r.ts - r.ts <= span
    BY <2>3
  <2> QED
    BY <2>1, <2>3, <2>4
<1>5. ASSUME NEW n \in Nat, n \in P PROVE n + 1 \in P
  <2> SUFFICES ASSUME n + 1 <= len PROVE \E b \in Nat : At(n + 1, b)
    OBVIOUS
  <2>1. PICK b \in Nat : At(n, b)
    <3>1. n <= len
      BY <1>1
    <3> QED
      BY <1>5, <3>1
  <2>a. /\ IsWindow(f[n], M) /\ Holds(v, f[n], J, b, m) /\ Beyond(J, b, r, span)
        /\ b >= b0 + n \/ r.ts - J[b + 1].ts <= span
    BY <2>1 DEF RoundLeaves
  <2>2. b \in 0 .. m /\ IsList(f[n].q) /\ Len(f[n].q) = Len(J) - b
        /\ \A i \in 1 .. Len(f[n].q) : f[n].q[i] = J[b + i]
    BY <2>a DEF Holds
  <2>b. b <= m /\ b + 1 \in 1 .. m + 1 /\ Len(f[n].q) > 0 /\ 1 \in 1 .. Len(f[n].q)
    <3>1. Len(f[n].q) = (m + 1) - b
      BY <1>1, <2>2
    <3>2. \A x \in Nat : \A y \in 0 .. x :
            y <= x /\ y + 1 \in 1 .. x + 1 /\ (x + 1) - y > 0 /\ 1 \in 1 .. (x + 1) - y
      OBVIOUS
    <3>3. m \in Nat /\ b \in 0 .. m
      BY <1>1, <2>2
    <3>4. b <= m /\ b + 1 \in 1 .. m + 1 /\ (m + 1) - b > 0 /\ 1 \in 1 .. (m + 1) - b
      BY <3>2, <3>3
    <3> QED
      BY <3>1, <3>4
  <2>3. Head(f[n].q) = J[b + 1]
    BY <2>2, <2>b, TailIs
  <2>4. f[n + 1] = IF r.ts - J[b + 1].ts > span THEN Prune(v, f[n]) ELSE f[n]
    <3>1. n + 1 \in 1 .. len + 1 /\ ~(n + 1 > len) /\ (n + 1) - 1 = n
      <4>1. len \in Nat
        BY <1>1
      <4> QED
        BY <4>1
    <3>2. f[n + 1] = Round(v, r, span, len, f[n], n + 1)
      BY <1>3, <3>1
    <3> QED
      BY <2>3, <3>1, <3>2 DEF Round
  <2>5. CASE r.ts - J[b + 1].ts > span
    <3>0. J[b + 1].ts \in Int
      BY <1>t, <2>b
    <3>1. b # m
      BY <1>1, <1>t, <2>5
    <3>2. b < m
      BY <1>1, <2>b, <3>1
    <3>3. m \in Nat /\ Len(J) \in Nat
      BY <1>1
    <3>4. Holds(v, Prune(v, f[n]), J, b + 1, m) /\ IsWindow(Prune(v, f[n]), M)
      BY <2>a, <3>2, <3>3, PruneHolds, PruneIs
    <3>5. Beyond(J, b + 1, r, span)
      <4>1. \A i \in 1 .. b + 1 : i \in 1 .. b \/ i = b + 1
        OBVIOUS
      <4> QED
        BY <2>a, <2>5, <4>1 DEF Beyond
    <3>6. ~(r.ts - J[b + 1].ts <= span)
      <4>1. r.ts \in Int
        BY <1>t
      <4> QED
        BY <2>5, <3>0, <4>1, WithinOrBeyond, Zenon
    <3>7. b >= b0 + n
      BY <2>a, <3>6
    <3>8. b + 1 >= b0 + (n + 1)
      BY <3>7
    <3>9. At(n + 1, b + 1)
      BY <2>4, <2>5, <3>4, <3>5, <3>8 DEF RoundLeaves
    <3>10. b + 1 \in Nat
      OBVIOUS
    <3> HIDE DEF At
    <3> QED
      BY <3>9, <3>10
  <2>6. CASE ~(r.ts - J[b + 1].ts > span)
    <3>1. r.ts - J[b + 1].ts <= span
      <4>1. r.ts \in Int /\ J[b + 1].ts \in Int
        BY <1>t, <2>b
      <4> QED
        BY <2>6, <4>1, WithinOrBeyond, Zenon
    <3>2. At(n + 1, b)
      BY <2>a, <2>4, <2>6, <3>1 DEF RoundLeaves
    <3> HIDE DEF At
    <3> QED
      BY <3>2
  <2> QED
    BY <2>5, <2>6
<1>6. PICK b \in Nat : At(len, b)
  <2>1. \A n \in Nat : n \in P
    <3> HIDE DEF P
    <3> QED
      BY <1>4, <1>5, InductionOnNat
  <2>2. len \in Nat /\ len <= len
    BY <1>1
  <2> QED
    BY <2>1, <2>2
<1>a. /\ IsWindow(f[len], M) /\ Holds(v, f[len], J, b, m) /\ Beyond(J, b, r, span)
      /\ b >= b0 + len \/ r.ts - J[b + 1].ts <= span
  BY <1>6 DEF RoundLeaves
<1> HIDE DEF At
<1>7. Add(v, w, r, span) = Counted(f[len], Keys(v, r))
  <2>1. len + 1 \in 1 .. len + 1 /\ len + 1 > len /\ (len + 1) - 1 = len
    BY <1>1
  <2> QED
    BY <1>3, <2>1 DEF Round
<1>8. Holds(v, Add(v, w, r, span), J, b, Len(J))
  <2>1. Holds(v, Counted(f[len], Keys(v, J[m + 1])), J, b, m + 1)
    <3>1. m \in Nat /\ Len(J) = m + 1 /\ Len(J) \in Nat
      BY <1>1
    <3> QED
      BY <1>a, <3>1, CountHolds
  <2> QED
    BY <1>1, <1>7, <2>1
<1>9. b <= m /\ r.ts - J[b + 1].ts <= span
  <2>1. b \in 0 .. m
    BY <1>a DEF Holds
  <2>2. b <= m /\ ~(b >= b0 + len)
    BY <1>1, <2>1
  <2> QED
    BY <1>a, <2>2
<1>10. ASSUME NEW i \in 1 .. m + 1 PROVE r.ts - J[i].ts <= span <=> i > b
  <2>a. b + 1 \in 1 .. m + 1
    <3>1. b <= m /\ m \in Nat
      BY <1>1, <1>9
    <3> QED
      BY <3>1
  <2>0. J[i].ts \in Int /\ b + 1 \in 1 .. m + 1 /\ J[b + 1].ts \in Int
    BY <1>t, <2>a
  <2>1. CASE i > b
    <3>1. b + 1 <= i /\ i \in 1 .. Len(J) /\ b + 1 \in 1 .. Len(J)
      BY <1>1, <2>0, <2>1
    <3>2. J[b + 1].ts <= J[i].ts
      BY <3>1 DEF Ordered
    <3>3. \A x, y, z \in Int : x - y <= span /\ y <= z => x - z <= span
      OBVIOUS
    <3> QED
      BY <1>9, <1>t, <2>0, <2>1, <3>2, <3>3
  <2>2. CASE ~(i > b)
    <3>1. i \in 1 .. b
      BY <2>2
    <3>2. r.ts - J[i].ts > span
      BY <1>a, <3>1 DEF Beyond
    <3>3. \A x, z \in Int : x - z > span => ~(x - z <= span)
      OBVIOUS
    <3> QED
      BY <1>t, <2>0, <2>2, <3>2, <3>3
  <2> QED
    BY <2>1, <2>2
<1>11. Latest(J, b, span)
  BY <1>1, <1>10 DEF Latest
<1> QED
  BY <1>8, <1>11

(* The records that have a key of a pair, or of an attacker. *)
LEMMA WhoseKey ==
  ASSUME NEW v \in Releases, NEW x, NEW k
  PROVE  /\ CountsKey(x) \in Keys(v, x) /\ UniqKey(x) \in Keys(v, x)
         /\ k[1] = "counts_dst_" => (k \in Keys(v, x) <=> k = CountsKey(x))
         /\ k[1] = "uniq_dst_" => (k \in Keys(v, x) <=> k = UniqKey(x))
BY KeysFinite

(* The records of a pair, and those of one of its ports. *)
OfPair(j, b, m, r) ==
  {i \in b + 1 .. m : j[i].src_ip = r.src_ip /\ j[i].dst_ip = r.dst_ip}
OfPort(j, b, m, r) ==
  {i \in b + 1 .. m : /\ j[i].src_ip = r.src_ip /\ j[i].dst_ip = r.dst_ip
                      /\ j[i].dst_port = r.dst_port}

(* The number that is asked for one port. *)
LEMMA OnePort ==
  ASSUME NEW v \in Releases, NEW w, NEW j, NEW b \in Nat, Len(j) \in Nat,
         Counts(v, w, j, b, Len(j)), NEW r
  PROVE  Count(w, CountsKey(r)) = Cardinality(OfPort(j, b, Len(j), r))
<1> DEFINE k == CountsKey(r)
<1>1. k[1] = "counts_dst_" /\ ~Slipped(v, k)
  BY DEF CountsKey, Slipped
<1>2. Count(w, k) = Cardinality(Occ(v, j, b, Len(j), k))
  BY <1>1 DEF Counts
<1>3. \A i : k \in Keys(v, j[i]) <=> /\ j[i].src_ip = r.src_ip /\ j[i].dst_ip = r.dst_ip
                                     /\ j[i].dst_port = r.dst_port
  <2> TAKE i
  <2>1. k \in Keys(v, j[i]) <=> k = CountsKey(j[i])
    BY <1>1, WhoseKey
  <2> QED
    BY <2>1 DEF CountsKey
<1>4. Occ(v, j, b, Len(j), k) = OfPort(j, b, Len(j), r)
  <2> HIDE DEF k
  <2> QED
    BY <1>3 DEF Occ, OfPort
<1> QED
  BY <1>2, <1>4

(* The sum over the ports of a pair: the entries of the map share out the   *)
(* records of the pair.                                                     *)
PortEntries(w, r) == UNION {{k} \X (1 .. w.index[k]) : k \in Ports(w, r)}

LEMMA EntriesFinite ==
  ASSUME NEW M \in Nat, NEW w, IsWindow(w, M), NEW r
  PROVE  IsFiniteSet(PortEntries(w, r))
<1>1. IsFiniteSet(DOMAIN w.index) /\ \A k \in DOMAIN w.index : w.index[k] \in 0 .. M
  BY DEF IsWindow
<1>2. IsFiniteSet(1 .. M)
  BY FS_Interval
<1>3. IsFiniteSet((DOMAIN w.index) \X (1 .. M))
  BY <1>1, <1>2, FS_Product
<1>4. \A k \in DOMAIN w.index : 1 .. w.index[k] \subseteq 1 .. M
  BY <1>1
<1>5. PortEntries(w, r) \subseteq (DOMAIN w.index) \X (1 .. M)
  BY <1>4 DEF PortEntries, Ports
<1> QED
  BY <1>3, <1>5, FS_Subset

OneToOne(f, S) == \A x, y \in S : f[x] = f[y] => x = y
LEMMA BijectionIs == ASSUME NEW S, NEW T, NEW f \in Bijection(S, T) PROVE OneToOne(f, S)
BY DEF Bijection, Injection, IsInjective, OneToOne

LEMMA AllPorts ==
  ASSUME NEW v \in Releases, NEW M \in Nat, NEW w, IsWindow(w, M), NEW j, NEW b \in Nat,
         Len(j) \in Nat, Counts(v, w, j, b, Len(j)), NEW r
  PROVE  SumOver(w, Ports(w, r)) = Cardinality(OfPair(j, b, Len(j), r))
<1> DEFINE S == PortEntries(w, r)
           A == OfPair(j, b, Len(j), r)
           occ(k) == Occ(v, j, b, Len(j), k)
           h(k) == CHOOSE f : f \in Bijection(1 .. w.index[k], occ(k))
           G == [p \in S |-> h(p[1])[p[2]]]
<1>1. IsFiniteSet(S)
  BY EntriesFinite
<1>2. \A p : p \in S <=> \E k \in Ports(w, r) : \E n \in 1 .. w.index[k] : p = <<k, n>>
  BY DEF PortEntries
<1>3. ASSUME NEW k \in Ports(w, r)
      PROVE  /\ k[1] = "counts_dst_" /\ k[2] = r.src_ip /\ k[3] = r.dst_ip
             /\ h(k) \in Bijection(1 .. w.index[k], occ(k))
  <2>1. k \in DOMAIN w.index /\ k[1] = "counts_dst_" /\ k[2] = r.src_ip /\ k[3] = r.dst_ip
    BY DEF Ports
  <2>2. w.index[k] = Cardinality(occ(k))
    <3>1. Count(w, k) = Cardinality(occ(k))
      BY <2>1 DEF Counts, Slipped
    <3> QED
      BY <2>1, <3>1 DEF Count
  <2>3. ExistsBijection(1 .. Cardinality(occ(k)), occ(k))
    BY OccFinite, FS_CardinalityType
  <2>4. \E f : f \in Bijection(1 .. w.index[k], occ(k))
    BY <2>2, <2>3 DEF ExistsBijection
  <2> HIDE DEF occ
  <2> QED
    BY <2>1, <2>4
<1>4. ASSUME NEW k \in Ports(w, r), NEW n \in 1 .. w.index[k]
      PROVE  /\ <<k, n>> \in S /\ G[<<k, n>>] = h(k)[n] /\ h(k)[n] \in occ(k)
  <2>1. <<k, n>> \in S /\ <<k, n>>[1] = k /\ <<k, n>>[2] = n
    BY <1>2
  <2>2. G[<<k, n>>] = h(<<k, n>>[1])[<<k, n>>[2]]
    BY <2>1
  <2> HIDE DEF h, occ, G, S
  <2>3. h(k)[n] \in occ(k)
    BY <1>3 DEF Bijection, Injection, Surjection
  <2> QED
    BY <2>1, <2>2, <2>3
<1>5. ASSUME NEW k \in Ports(w, r), NEW i \in occ(k)
      PROVE  i \in A /\ k = CountsKey(j[i])
  <2>1. k \in Keys(v, j[i]) /\ i \in b + 1 .. Len(j)
    BY DEF Occ
  <2>2. k = CountsKey(j[i])
    BY <1>3, <2>1, WhoseKey
  <2>3. k[2] = j[i].src_ip /\ k[3] = j[i].dst_ip
    BY <2>2 DEF CountsKey
  <2> QED
    BY <1>3, <2>1, <2>2, <2>3 DEF OfPair
<1>6. ASSUME NEW i \in A
      PROVE  LET k == CountsKey(j[i]) IN k \in Ports(w, r) /\ i \in occ(k)
  <2> DEFINE k == CountsKey(j[i])
  <2>1. k[1] = "counts_dst_" /\ k[2] = r.src_ip /\ k[3] = r.dst_ip
    BY DEF CountsKey, OfPair
  <2>2. i \in occ(k)
    BY WhoseKey DEF Occ, OfPair
  <2>3. Cardinality(occ(k)) # 0 /\ Count(w, k) = Cardinality(occ(k))
    <3>1. Cardinality(occ(k)) # 0
      BY <2>2, OccFinite, FS_EmptySet
    <3>2. Count(w, k) = Cardinality(occ(k))
      BY <2>1 DEF Counts, Slipped
    <3> QED
      BY <3>1, <3>2
  <2>4. k \in DOMAIN w.index
    BY <2>3 DEF Count
  <2> QED
    BY <2>1, <2>2, <2>4 DEF Ports
<1> HIDE DEF S, A, occ, h, G
<1>7. G \in [S -> A]
  <2>1. DOMAIN G = S /\ G = [p \in S |-> G[p]]
    BY DEF G
  <2>2. \A p \in S : G[p] \in A
    BY <1>2, <1>4, <1>5
  <2> QED
    BY <2>1, <2>2
<1>8. ASSUME NEW p \in S, NEW q \in S, G[p] = G[q] PROVE p = q
  <2>a. PICK k \in Ports(w, r) : \E n \in 1 .. w.index[k] : p = <<k, n>>
    BY <1>2
  <2>1. PICK n \in 1 .. w.index[k] : p = <<k, n>>
    BY <2>a
  <2>b. PICK l \in Ports(w, r) : \E m \in 1 .. w.index[l] : q = <<l, m>>
    BY <1>2
  <2>2. PICK m \in 1 .. w.index[l] : q = <<l, m>>
    BY <2>b
  <2>3. G[p] = h(k)[n] /\ G[p] \in occ(k) /\ G[q] = h(l)[m] /\ G[q] \in occ(l)
    BY <1>4, <2>1, <2>2
  <2>4. k = l
    BY <1>5, <1>8, <2>3
  <2>5. n = m
    <3>1. h(k) \in Bijection(1 .. w.index[k], occ(k))
      BY <1>3
    <3>2. OneToOne(h(k), 1 .. w.index[k])
      BY <3>1, BijectionIs
    <3> QED
      BY <1>8, <2>3, <2>4, <3>2 DEF OneToOne
  <2> QED
    BY <2>1, <2>2, <2>4, <2>5
<1>9. ASSUME NEW i \in A PROVE \E p \in S : G[p] = i
  <2> DEFINE k == CountsKey(j[i])
  <2>1. k \in Ports(w, r) /\ i \in occ(k)
    BY <1>6
  <2> HIDE DEF k
  <2>2. PICK n \in 1 .. w.index[k] : h(k)[n] = i
    BY <1>3, <2>1 DEF Bijection, Surjection
  <2> QED
    BY <1>4, <2>1, <2>2
<1>10. Cardinality(A) = Cardinality(S)
  BY <1>1, <1>7, <1>8, <1>9, SameSize
<1> QED
  BY <1>10 DEF SumOver, PortEntries, S, A

LEMMA CountedIsThere == ASSUME NEW S, Cardinality(S) > 0 PROVE S # {}
<1>1. Cardinality({}) = 0
  BY FS_EmptySet
<1>2. ~ (0 > 0)
  OBVIOUS
<1>3. ASSUME S = {} PROVE FALSE
  <2>1. Cardinality(S) = 0
    BY <1>1, <1>3
  <2> QED
    BY <1>2, <2>1
<1> QED
  BY <1>3

(* The attackers that are counted; 3.0.0 may count some that have left.     *)
LEMMA Sources ==
  ASSUME NEW v \in Releases, NEW M \in Nat, NEW w, IsWindow(w, M), NEW j, NEW b \in Nat,
         Len(j) \in Nat, Counts(v, w, j, b, Len(j)), NEW r, NEW sources,
         sources = {j[i].src_ip : i \in {x \in b + 1 .. Len(j) : j[x].dst_ip = r.dst_ip}}
  PROVE  /\ IF v = "ultra" THEN uniq_attackers(w, r) >= Cardinality(sources)
            ELSE uniq_attackers(w, r) = Cardinality(sources)
<1> DEFINE key(a) == <<"uniq_dst_", r.dst_ip, a>>
           T == {key(a) : a \in sources}
           g == [t \in T |-> t[3]]
           occ(k) == Occ(v, j, b, Len(j), k)
<1>1. ASSUME NEW a \in sources PROVE key(a) \in Attackers(w, r)
  <2> DEFINE k == key(a)
  <2>1. PICK i \in b + 1 .. Len(j) : j[i].dst_ip = r.dst_ip /\ a = j[i].src_ip
    OBVIOUS
  <2>2. k = UniqKey(j[i]) /\ k[1] = "uniq_dst_" /\ k[2] = r.dst_ip
    BY <2>1 DEF UniqKey
  <2>3. i \in occ(k)
    BY <2>2, WhoseKey DEF Occ
  <2>4. Cardinality(occ(k)) \in Nat /\ Cardinality(occ(k)) # 0
    BY <2>3, OccFinite, FS_EmptySet
  <2>5. Count(w, k) \in Nat /\ Count(w, k) >= Cardinality(occ(k))
    <3>1. Count(w, k) \in 0 .. M
      BY CountType
    <3>2. Count(w, k) = Cardinality(occ(k)) \/ Count(w, k) >= Cardinality(occ(k))
      BY DEF Counts
    <3> HIDE DEF occ, k
    <3> QED
      BY <2>4, <3>1, <3>2
  <2> HIDE DEF k, occ
  <2>6. k \in DOMAIN w.index /\ w.index[k] > 0
    BY <2>4, <2>5 DEF Count
  <2>7. k \in Attackers(w, r)
    BY <2>2, <2>6 DEF Attackers
  <2> QED
    BY <2>7 DEF k
<1>2. IsFiniteSet(Attackers(w, r))
  <2>1. IsFiniteSet(DOMAIN w.index)
    BY DEF IsWindow
  <2>2. Attackers(w, r) \subseteq DOMAIN w.index
    BY DEF Attackers
  <2> QED
    BY <2>1, <2>2, FS_Subset
<1>3. T \subseteq Attackers(w, r)
  BY <1>1
<1>4. IsFiniteSet(T) /\ Cardinality(T) <= Cardinality(Attackers(w, r))
  <2> HIDE DEF T
  <2> QED
    BY <1>2, <1>3, FS_Subset
<1>5. Cardinality(sources) = Cardinality(T)
  <2>1. /\ \A a \in sources : key(a) \in T /\ key(a)[3] = a
        /\ \A t \in T : \E a \in sources : t = key(a)
    OBVIOUS
  <2> HIDE DEF key, T
  <2>2. g \in [T -> sources] /\ (\A t, u \in T : g[t] = g[u] => t = u)
        /\ \A a \in sources : \E t \in T : g[t] = a
    <3>1. \A t \in T : g[t] = t[3] /\ t[3] \in sources /\ t = key(t[3])
      BY <2>1
    <3> QED
      BY <2>1, <3>1
  <2>3. IsFiniteSet(T)
    BY <1>4
  <2> DEFINE C == sources
  <2>4. g \in [T -> C] /\ \A t, u \in T : g[t] = g[u] => t = u
    BY <2>2
  <2>5. \A a \in C : \E t \in T : g[t] = a
    BY <2>2
  <2> HIDE DEF g, T, C
  <2>6. Cardinality(C) = Cardinality(T)
    BY <2>3, <2>4, <2>5, SameSize
  <2> QED
    BY <2>6 DEF C
<1>6. ASSUME v # "ultra", NEW k \in Attackers(w, r) PROVE k \in T
  <2>1. k \in DOMAIN w.index /\ k[1] = "uniq_dst_" /\ k[2] = r.dst_ip /\ w.index[k] > 0
    BY DEF Attackers
  <2>2. Count(w, k) = Cardinality(occ(k)) /\ Count(w, k) = w.index[k]
    BY <1>6, <2>1 DEF Counts, Slipped, Count
  <2>3. occ(k) # {}
    <3> HIDE DEF occ
    <3>1. Cardinality(occ(k)) > 0
      BY <2>1, <2>2
    <3> QED
      BY <3>1, CountedIsThere
  <2>4. PICK i : i \in b + 1 .. Len(j) /\ k \in Keys(v, j[i])
    BY <2>3 DEF Occ
  <2>5. k = UniqKey(j[i])
    BY <2>1, <2>4, WhoseKey
  <2>6. k = <<"uniq_dst_", j[i].dst_ip, j[i].src_ip>> /\ j[i].dst_ip = r.dst_ip
    BY <2>1, <2>5 DEF UniqKey
  <2>7. j[i].src_ip \in sources
    BY <2>4, <2>6
  <2> QED
    BY <2>6, <2>7
<1>7. CASE v = "ultra"
  BY <1>4, <1>5, <1>7 DEF uniq_attackers
<1>8. CASE v # "ultra"
  <2>1. T = Attackers(w, r)
    BY <1>3, <1>6, <1>8
  <2> QED
    BY <1>5, <1>8, <2>1 DEF uniq_attackers
<1> QED
  BY <1>7, <1>8

(* The time of a record is a number. *)
LEMMA ReadTimes ==
  ASSUME rel \in Releases, NEW line \in Seq(Tokens),
         NEW r \in IF Csv THEN CsvLine(line) ELSE NdjsonLine(line)
  PROVE  r.ts \in Int
<1>1. CASE Csv
  <2>1. r \in FromColumns(Columns(line))
    BY <1>1, CsvIs DEF Csvs
  <2> QED
    BY <2>1, CsvIsExact
<1>2. CASE ~Csv
  <2>1. rel # "final" /\ r \in NdjsonLine(line)
    BY <1>2 DEF Csv
  <2>2. PICK int \in Getters(line) : NdjsonLine(line) = FromGetters(line, int)
    BY <2>1, NdjsonIs
  <2>3. NdjsonLine(line)
          = RecordsOf(int["ts"], GetString(line, "src_ip"), GetString(line, "dst_ip"),
                      int["src_port"], int["dst_port"], GetString(line, "action"),
                      GetString(line, "status"), int["bytes"], GetString(line, "username"))
    BY <2>2 DEF FromGetters, RecordsOf
  <2>4. r["ts"] \in int["ts"]
    BY <2>1, <2>3, RecordsAre
  <2>5. int["ts"] \in {CurrentGetInt(line, "ts"), EarlierGetInt(line, "ts")}
    BY <2>2 DEF Getters, IntFields
  <2>6. CurrentGetInt(line, "ts") \subseteq Int /\ EarlierGetInt(line, "ts") \subseteq Int
    <3>1. LongEnd \in Nat /\ LongEnd # 0
      BY WidthAssumption
    <3>2. NumberAt(line, "ts", {Tab}) \subseteq Int /\ NumberAt(line, "ts", {}) \subseteq Int
      BY NumbersAre
    <3>3. \A n \in Int : Wrap(n, LongEnd) \in Int
      BY <3>1, WrapIs
    <3> QED
      BY <3>2, <3>3 DEF CurrentGetInt, EarlierGetInt
  <2> QED
    BY <2>4, <2>5, <2>6
<1> QED
  BY <1>1, <1>2

(* The window holds the records within the span of the last one. *)
Recounted ==
  /\ th = <<>> => judged = <<>>
  /\ IsList(judged) /\ Stamped(judged)
  /\ th # <<>> /\ InOrder /\ s.window >= 0 =>
       \E b \in Nat : Holds(rel, win, judged, b, Len(judged)) /\ Latest(judged, b, s.window)

LEMMA NothingListed == IsList(<<>>) /\ Stamped(<<>>)
<1>1. <<>> \in Seq({})
  OBVIOUS
<1>2. Len(<<>>) = 0 /\ 1 .. 0 = {}
  OBVIOUS
<1> QED
  BY <1>1, <1>2 DEF IsList, Stamped

LEMMA NothingHeld ==
  ASSUME NEW v, NEW span
  PROVE  Holds(v, Empty, <<>>, 0, Len(<<>>)) /\ Latest(<<>>, 0, span)
<1>1. Empty.q = <<>> /\ Empty.index = <<>> /\ DOMAIN Empty.index = {} /\ Len(<<>>) = 0
  BY DEF Empty
<1>2. IsList(<<>>)
  BY TallyOne
<1>3. \A k : Count(Empty, k) = 0
  BY <1>1 DEF Count
<1>4. \A k : Occ(v, <<>>, 0, 0, k) = {}
  BY DEF Occ
<1>5. Cardinality({}) = 0
  BY FS_EmptySet
<1>6. Counts(v, Empty, <<>>, 0, 0)
  <2> SUFFICES ASSUME NEW k
               PROVE  IF Slipped(v, k) THEN Count(Empty, k) >= Cardinality(Occ(v, <<>>, 0, 0, k))
                      ELSE Count(Empty, k) = Cardinality(Occ(v, <<>>, 0, 0, k))
    BY DEF Counts
  <2>1. Count(Empty, k) = 0
    BY <1>3
  <2>2. Occ(v, <<>>, 0, 0, k) = {}
    BY <1>4
  <2>3. Cardinality(Occ(v, <<>>, 0, 0, k)) = 0
    BY <1>5, <2>2, Zenon
  <2> QED
    BY <2>1, <2>3
<1>7. Holds(v, Empty, <<>>, 0, 0)
  BY <1>1, <1>2, <1>6 DEF Holds
<1> QED
  BY <1>1, <1>7 DEF Latest

(* One more record in order. *)
LEMMA JudgedHolds ==
  ASSUME NEW v \in Releases, NEW M \in Nat, NEW w, IsWindow(w, M), NEW j, IsList(j),
         NEW b0 \in Nat, NEW r, NEW span \in Nat, Holds(v, w, j, b0, Len(j)),
         Latest(j, b0, span), Stamped(Append(j, r)), Ordered(Append(j, r))
  PROVE  \E b \in Nat : /\ Holds(v, Add(v, w, r, span), Append(j, r), b, Len(Append(j, r)))
                        /\ Latest(Append(j, r), b, span)
<1> DEFINE J == Append(j, r)
           m == Len(j)
<1>1. /\ m \in Nat /\ Len(J) = m + 1 /\ J[m + 1] = r
      /\ \A i \in 1 .. m : J[i] = j[i]
  BY AppendIs
<1>2. b0 \in 0 .. m
  BY DEF Holds
<1> HIDE DEF J, m
<1>3. Beyond(J, b0, r, span)
  <2> SUFFICES ASSUME NEW i \in 1 .. b0 PROVE r.ts - J[i].ts > span
    BY DEF Beyond
  <2>1. /\ i \in 1 .. m /\ m \in 1 .. m /\ i \in 1 .. m + 1 /\ m \in 1 .. m + 1
        /\ m + 1 \in 1 .. m + 1 /\ m <= m + 1 /\ ~(i > b0)
    BY <1>1, <1>2
  <2>2. J[i] = j[i] /\ J[m] = j[m]
    BY <1>1, <2>1
  <2>3. ~(j[m].ts - j[i].ts <= span)
    BY <2>1 DEF Latest, m
  <2>4. J[i].ts \in Int /\ J[m].ts \in Int /\ r.ts \in Int
    <3>1. \A n \in 1 .. m + 1 : J[n].ts \in Int
      BY <1>1 DEF Stamped, J
    <3> QED
      BY <1>1, <2>1, <3>1
  <2>5. J[m].ts <= r.ts
    <3>1. \A n, k \in 1 .. m + 1 : n <= k => J[n].ts <= J[k].ts
      BY <1>1 DEF Ordered, J
    <3> QED
      BY <1>1, <2>1, <3>1
  <2>6. \A x, y, z \in Int : ~(x - z <= span) /\ x <= y => y - z > span
    OBVIOUS
  <2> QED
    BY <2>2, <2>3, <2>4, <2>5, <2>6
<1> QED
  BY <1>3, AddHolds DEF J

LEMMA OrderedIs ==
  ASSUME IsList(judged), Stamped(judged)
  PROVE  InOrder => Ordered(judged)
<1>1. Len(judged) \in Nat
  BY DEF IsList
<1> QED
  BY <1>1, AdjacentOrder DEF InOrder

LEMMA WorkRecounts ==
  ASSUME IInv, Tallied, SettingsKnown, Reporting, Recounted, th # <<>>, Work
  PROVE  Recounted'
<1>1. /\ rel \in Releases /\ job' = job /\ s' = s /\ th' = th /\ rel' = rel
      /\ at' \in 1 .. Len(Input) /\ Input[at'] \in Seq(Tokens)
  <2>1. rel \in Releases /\ Input \in Seq(Seq(Tokens)) /\ Len(Input) \in Nat
        /\ DOMAIN Input = 1 .. Len(Input)
    BY JobTypes DEF IInv, Places
  <2>2. at \in Nat /\ at' = at + 1 /\ at < Len(Input)
    BY <2>1 DEF Tallied, Work
  <2>3. at' \in 1 .. Len(Input)
    BY <2>1, <2>2
  <2> QED
    BY <2>1, <2>3 DEF Work, rel
<1>2. s.window \in Int
  <2>1. job.argv \in Seq(STRING)
    BY JobTypes DEF IInv, Places
  <2> QED
    BY <1>1, <2>1, AnalyzeSettings DEF SettingsKnown, Settled
<1>3. IsList(judged) /\ Stamped(judged)
  BY DEF Recounted
<1>4. CASE UNCHANGED <<judged, win>>
  BY <1>1, <1>4 DEF Recounted, InOrder
<1>5. ASSUME NEW r \in IF Csv THEN CsvLine(Input[at']) ELSE NdjsonLine(Input[at']),
             judged' = Append(judged, r), win' = Add(rel, win, r, s.window)
      PROVE  Recounted'
  <2> DEFINE J == Append(judged, r)
             m == Len(judged)
  <2>1. /\ IsList(J) /\ m \in Nat /\ Len(J) = m + 1 /\ J[m + 1] = r
        /\ \A i \in 1 .. m : J[i] = judged[i]
    BY <1>3, AppendIs
  <2>2. Stamped(J)
    <3>1. r.ts \in Int
      BY <1>1, ReadTimes
    <3>2. \A i \in 1 .. m + 1 : i \in 1 .. m \/ i = m + 1
      BY <2>1
    <3>3. \A i \in 1 .. m : judged[i].ts \in Int
      BY <1>3 DEF Stamped
    <3> HIDE DEF J, m
    <3> QED
      BY <2>1, <3>1, <3>2, <3>3 DEF Stamped
  <2>3. (th # <<>> /\ InOrder /\ s.window >= 0)'
          => \E b \in Nat : Holds(rel, win', J, b, Len(J)) /\ Latest(J, b, s.window)
    <3> SUFFICES ASSUME InOrder', s.window >= 0
                 PROVE  \E b \in Nat : Holds(rel, win', J, b, Len(J)) /\ Latest(J, b, s.window)
      BY <1>1
    <3>1. Ordered(J)
      <4>1. \A i \in 2 .. Len(J) : J[i - 1].ts <= J[i].ts
        BY <1>5 DEF InOrder
      <4> HIDE DEF J
      <4>2. Len(J) \in Nat
        BY <2>1
      <4> QED
        BY <2>2, <4>1, <4>2, AdjacentOrder
    <3>2. InOrder
      <4> SUFFICES ASSUME NEW i \in 2 .. m PROVE judged[i - 1].ts <= judged[i].ts
        BY DEF InOrder
      <4> HIDE DEF J, m
      <4>1. i \in 1 .. m /\ i - 1 \in 1 .. m /\ i \in 1 .. Len(J) /\ i - 1 \in 1 .. Len(J)
            /\ i - 1 <= i
        BY <2>1
      <4>2. J[i - 1].ts <= J[i].ts
        BY <3>1, <4>1 DEF Ordered
      <4> QED
        BY <2>1, <4>1, <4>2
    <3>3. PICK b0 \in Nat : Holds(rel, win, judged, b0, Len(judged))
                            /\ Latest(judged, b0, s.window)
      BY <3>2 DEF Recounted
    <3>4. PICK M \in Nat : IsWindow(win, M)
      BY DEF Reporting, WindowIs
    <3>5. s.window \in Nat
      BY <1>2
    <3>6. \E b \in Nat : Holds(rel, Add(rel, win, r, s.window), J, b, Len(J))
                         /\ Latest(J, b, s.window)
      BY <1>1, <1>3, <2>2, <3>1, <3>3, <3>4, <3>5, JudgedHolds
    <3> HIDE DEF J
    <3> QED
      BY <1>5, <3>6
  <2> HIDE DEF J, m
  <2>4. judged' = J
    BY <1>5 DEF J
  <2> QED
    BY <1>1, <2>1, <2>2, <2>3, <2>4 DEF Recounted
<1> QED
  BY <1>4, <1>5 DEF Work, Judge

LEMMA RecountedNext ==
  ASSUME IInv, Tallied, SettingsKnown, RulesInForce, Reporting, Recounted, [Next]_vars
  PROVE  Recounted'
<1>1. pc \in Unruled => th = <<>>
  BY DEF IInv, Untouched
<1>2. CASE Work
  <2>1. pc = "work" /\ th # <<>>
    BY <1>2 DEF Work, RulesInForce
  <2> QED
    BY <1>2, <2>1, WorkRecounts
<1>3. CASE LoadRules
  <2>1. pc = "rules" /\ win' = win /\ judged' = judged
    BY <1>3 DEF LoadRules, workVars
  <2>2. win' = Empty /\ judged' = <<>>
    BY <2>1 DEF Reporting, IInv, Untouched, Early, Unruled
  <2>3. IsList(<<>>) /\ Stamped(<<>>)
    BY NothingListed
  <2>4. Holds(rel', Empty, <<>>, 0, Len(<<>>)) /\ Latest(<<>>, 0, s'.window)
    BY NothingHeld
  <2>5. 0 \in Nat
    OBVIOUS
  <2> QED
    BY <2>2, <2>3, <2>4, <2>5 DEF Recounted
<1>4. CASE Parse
  <2>1. pc = "argv" /\ judged' = judged /\ th' = th
    BY <1>4 DEF Parse, workVars
  <2>2. th' = <<>>
    BY <1>1, <2>1 DEF Unruled
  <2> QED
    BY <1>1, <2>1, <2>2 DEF Recounted, Unruled
<1>5. CASE ~Work /\ ~LoadRules /\ ~Parse
  <2>1. th' = th /\ rel' = rel /\ s' = s
    BY <1>5, Moves DEF Moved
  <2>2. judged' = judged /\ (win' = win \/ pc = "sample")
    BY <1>5, OnlyWorkReads
  <2>3. CASE th = <<>>
    BY <2>1, <2>2, <2>3 DEF Recounted
  <2>4. CASE th # <<>>
    <3>1. win' = win
      BY <1>1, <2>2, <2>4 DEF Unruled, Others
    <3> QED
      BY <2>1, <2>2, <3>1 DEF Recounted, InOrder
  <2> QED
    BY <2>3, <2>4
<1> QED
  BY <1>2, <1>3, <1>4, <1>5

(* What follows for the queries. *)
LEMMA RecountIs ==
  ASSUME rel \in Releases, SettingsKnown, Reporting, Recounted
  PROVE  WindowRecount
<1> DEFINE r == Last(judged)
           m == Len(judged)
           near == {i \in DOMAIN judged : r.ts - judged[i].ts <= s.window}
           sources == {judged[i].src_ip : i \in {k \in near : judged[k].dst_ip = r.dst_ip}}
           attempts == {i \in near : /\ judged[i].src_ip = r.src_ip
                                     /\ judged[i].dst_ip = r.dst_ip
                                     /\ rel = "current" => judged[i].dst_port = r.dst_port}
<1> SUFFICES ASSUME judged # <<>>, InOrder, s.window >= 0
             PROVE  /\ port_attempts(rel, win, r) = Cardinality(attempts)
                    /\ IF rel = "ultra" THEN uniq_attackers(win, r) >= Cardinality(sources)
                       ELSE uniq_attackers(win, r) = Cardinality(sources)
  BY DEF WindowRecount
<1>1. th # <<>> /\ IsList(judged)
  BY DEF Recounted
<1>2. DOMAIN judged = 1 .. m /\ m \in Nat /\ r = judged[m]
  BY <1>1 DEF IsList, Last
<1>3. PICK b \in Nat : Holds(rel, win, judged, b, m) /\ Latest(judged, b, s.window)
  BY <1>1 DEF Recounted
<1>4. PICK M \in Nat : IsWindow(win, M)
  BY <1>1 DEF Reporting, WindowIs
<1>5. Counts(rel, win, judged, b, m)
  BY <1>3 DEF Holds
<1> HIDE DEF r, m
<1>6. near = b + 1 .. m
  <2>1. \A i \in 1 .. m : r.ts - judged[i].ts <= s.window <=> i > b
    BY <1>2, <1>3 DEF Latest, m
  <2>2. near = {i \in 1 .. m : i > b}
    BY <1>2, <2>1
  <2>3. {i \in 1 .. m : i > b} = b + 1 .. m
    BY <1>2
  <2> QED
    BY <2>2, <2>3
<1> HIDE DEF near
<1>7. port_attempts(rel, win, r) = Cardinality(attempts)
  <2>1. Len(judged) \in Nat /\ m = Len(judged) /\ Counts(rel, win, judged, b, Len(judged))
    BY <1>2, <1>5 DEF m
  <2>2. CASE rel = "current"
    <3>1. attempts = OfPort(judged, b, m, r)
      BY <1>6, <2>2 DEF OfPort
    <3>2. Count(win, CountsKey(r)) = Cardinality(OfPort(judged, b, m, r))
      BY <2>1, OnePort
    <3> QED
      BY <2>2, <3>1, <3>2 DEF port_attempts
  <2>3. CASE rel # "current"
    <3>1. attempts = OfPair(judged, b, m, r)
      BY <1>6, <2>3 DEF OfPair
    <3>2. SumOver(win, Ports(win, r)) = Cardinality(OfPair(judged, b, m, r))
      BY <1>4, <2>1, AllPorts
    <3> QED
      BY <2>3, <3>1, <3>2 DEF port_attempts
  <2> QED
    BY <2>2, <2>3
<1>8. IF rel = "ultra" THEN uniq_attackers(win, r) >= Cardinality(sources)
      ELSE uniq_attackers(win, r) = Cardinality(sources)
  <2>1. sources = {judged[i].src_ip : i \in {x \in b + 1 .. m : judged[x].dst_ip = r.dst_ip}}
    BY <1>6
  <2> HIDE DEF sources
  <2> QED
    BY <1>2, <1>4, <1>5, <2>1, Sources DEF m
<1> QED
  BY <1>7, <1>8

(* What the detectors are told of the last record is what a recount of the  *)
(* log says, in every release but 3.0.0, which may count attackers that     *)
(* have left: for logs of any length in time order and windows of any span. *)
THEOREM WindowIsRecount == Spec => []WindowRecount
<1>1. Init => Recounted /\ Reporting
  BY NothingListed DEF Init, Recounted, Reporting
<1>2. IInv /\ Tallied /\ SettingsKnown /\ RulesInForce /\ Reporting /\ Recounted /\ [Next]_vars
        => Recounted'
  BY RecountedNext
<1>3. IInv /\ RulesInForce /\ Reporting /\ [Next]_vars => Reporting'
  BY ReportingNext
<1>4. Init => Tallied
  BY TypeInit
<1>5. IInv /\ Tallied /\ [Next]_vars => Tallied'
  BY TalliedNext
<1>6. IInv /\ SettingsKnown /\ Reporting /\ Recounted => WindowRecount
  BY RecountIs, JobFacts DEF IInv
<1> QED
  BY <1>1, <1>2, <1>3, <1>4, <1>5, <1>6, Invariant, SettingsInvariant, RulesInForceInvariant,
     PTL DEF Spec
=============================================================================
