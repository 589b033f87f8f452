---------------------------- MODULE CommandLine -----------------------------
(***************************************************************************)
(* The command lines of the releases: main() from argv to the settings of  *)
(* the command, or to the exit code of a command line that is refused.     *)
(*                                                                         *)
(* Tokens are strings that are compared only; what the conversions and the *)
(* splits of the code make of the instance's tokens is given as constants. *)
(* The code reads from left to right, converts a value as soon as it has   *)
(* it, and catches no exception.                                           *)
(***************************************************************************)
EXTENDS Integers, Sequences, TLC, StrictFold

CONSTANTS
  Value,            \* the number a token stands for, if it starts with one
  IntRange,         \* the numbers of an int; those of a long long are larger
  PortPart,         \* of a token with a colon: what follows the last one
  FailOnPart,       \* of a token with a '=': what stands before and after
  HardwareThreads   \* std::max(2, hardware_concurrency())

(* Tokens with a '=' are no options. *)
ASSUME TokensAssumption ==
  /\ Value \in [DOMAIN Value -> Int]
  /\ FailOnPart \in [DOMAIN FailOnPart -> STRING \X STRING]
  /\ DOMAIN FailOnPart \cap {"--input", "--format", "--window", "--rules", "--metrics",
                             "--tls-cert", "--tls-key", "--threads", "--plugin", "--outfmt",
                             "--out-file", "--fail-on", "--summary"} = {}

Exit(n) == [exit |-> n]
Aborted == 134      \* std::terminate: SIGABRT

(* What a release's analyze accepts. *)
FinalCli ==
  [valued |-> {"--input", "--window", "--rules"}, flags |-> {},
   formats |-> FALSE, outfmts |-> FALSE]
MaxCli ==
  [valued |-> {"--input", "--format", "--window", "--rules", "--metrics",
               "--threads", "--plugin"},
   flags |-> {}, formats |-> TRUE, outfmts |-> FALSE]
UltraCli ==
  [valued |-> {"--input", "--format", "--window", "--rules", "--metrics",
               "--threads", "--plugin", "--outfmt"},
   flags |-> {}, formats |-> TRUE, outfmts |-> TRUE]

(* Mutant: an option of the release before is not taken over. *)
ApexCliForgetful ==
  [valued |-> {"--input", "--format", "--window", "--rules", "--metrics",
               "--tls-cert", "--tls-key", "--threads", "--outfmt"},
   flags |-> {}, formats |-> TRUE, outfmts |-> TRUE]

ApexCli ==
  [valued |-> {"--input", "--format", "--window", "--rules", "--metrics",
               "--tls-cert", "--tls-key", "--threads", "--plugin", "--outfmt"},
   flags |-> {}, formats |-> TRUE, outfmts |-> TRUE]
CurrentCli ==
  [valued |-> {"--input", "--format", "--window", "--rules", "--metrics",
               "--tls-cert", "--tls-key", "--threads", "--plugin", "--outfmt",
               "--out-file", "--fail-on"},
   flags |-> {"--summary"}, formats |-> TRUE, outfmts |-> TRUE]

Cli == [final |-> FinalCli, max |-> MaxCli, ultra |-> UltraCli,
        apex |-> ApexCli, current |-> CurrentCli]
Releases == DOMAIN Cli

(* The commands beside analyze, and the options of bench. *)
Commands == [final |-> {}, max |-> {}, ultra |-> {}, apex |-> {"version", "bench"},
             current |-> {"version", "selfcheck", "bench"}]
BenchOptions == {"--input", "--format", "--iterations"}

(* The variables of main that the options set.  `text` holds the values     *)
(* that are kept as they are, "" before the option is met.                  *)
Defaults ==
  [text |-> [o \in {"--input", "--format", "--rules", "--outfmt"} |->
               IF o = "--outfmt" THEN "text" ELSE ""],
   window |-> 60, threads |-> HardwareThreads, port |-> 0, plugins |-> <<>>,
   summary |-> FALSE, fail_on |-> <<>>, iterations |-> 3]

-----------------------------------------------------------------------------
(* std::stoi and std::stoll; LongRange is taken to hold every Value. *)
Stoi(t)  == t \in DOMAIN Value /\ Value[t] \in IntRange
Stoll(t) == t \in DOMAIN Value

(* The argument of --metrics: 2.0.0 takes what follows the last colon, or   *)
(* all of it; later releases ignore an argument with no colon.              *)
MaxPort(t) == IF t \in DOMAIN PortPart THEN {PortPart[t]} ELSE {t}
LaterPort(t) == IF t \in DOMAIN PortPart THEN {PortPart[t]} ELSE {}
Port(rel, t) == IF rel = "max" THEN MaxPort(t) ELSE LaterPort(t)

(* Mutant: the first --fail-on of a type is kept. *)
SetFailOnFirst(s, t) ==
  IF t \notin DOMAIN FailOnPart THEN Exit(1)
  ELSE IF ~Stoll(FailOnPart[t][2]) THEN Exit(Aborted)
  ELSE [s EXCEPT !.fail_on = @ @@ (FailOnPart[t][1] :> Value[FailOnPart[t][2]])]

(* --fail-on type=N: a later one of the same type replaces the earlier. *)
SetFailOn(s, t) ==
  IF t \notin DOMAIN FailOnPart THEN Exit(1)
  ELSE IF ~Stoll(FailOnPart[t][2]) THEN Exit(Aborted)
  ELSE [s EXCEPT !.fail_on =
          [type \in DOMAIN @ \cup {FailOnPart[t][1]} |->
             IF type = FailOnPart[t][1] THEN Value[FailOnPart[t][2]] ELSE @[type]]]

(* One option with its value: the settings after it, or how it ends. *)
Set(rel, s, option, t) ==
  CASE option \in DOMAIN s.text -> [s EXCEPT !.text[option] = t]
    [] option = "--window" ->
         IF Stoll(t) THEN [s EXCEPT !.window = Value[t]] ELSE Exit(Aborted)
    [] option = "--threads" ->
         IF Stoi(t) THEN [s EXCEPT !.threads = Value[t]] ELSE Exit(Aborted)
    [] option = "--iterations" ->
         IF Stoi(t) THEN [s EXCEPT !.iterations = Value[t]] ELSE Exit(Aborted)
    [] option = "--metrics" ->
         IF Port(rel, t) = {} THEN s
         ELSE LET p == CHOOSE p \in Port(rel, t) : TRUE
              IN  IF Stoi(p) THEN [s EXCEPT !.port = Value[p]] ELSE Exit(Aborted)
    [] option = "--plugin" -> [s EXCEPT !.plugins = Append(@, t)]
    [] option = "--fail-on" -> SetFailOn(s, t)
    [] OTHER -> s                       \* --tls-cert, --tls-key, --out-file

Refused(s) == DOMAIN s = {"exit"}

Asks(t) == t \in {"-h", "--help"}

(* What is no option of analyze with a value; bench skips it. *)
AnalyzeOther(rel, s, t) ==
  IF t \in Cli[rel].flags THEN [s EXCEPT !.summary = TRUE]
  ELSE Exit(IF Asks(t) THEN 0 ELSE 1)
BenchOther(s, t) == IF Asks(t) THEN Exit(0) ELSE s

(* The loop over argv: an option takes the next token, whatever it is; an   *)
(* option with no token left is an argument like any other.                 *)
Valued(rel, command) == IF command = "bench" THEN BenchOptions ELSE Cli[rel].valued
Other(rel, command, s, t) ==
  IF command = "bench" THEN BenchOther(s, t) ELSE AnalyzeOther(rel, s, t)
Step(rel, command, st, t) ==
  IF Refused(st.s) THEN st
  ELSE IF st.option # "" THEN [s |-> Set(rel, st.s, st.option, t), option |-> ""]
  ELSE IF t \in Valued(rel, command) THEN [st EXCEPT !.option = t]
  ELSE [st EXCEPT !.s = Other(rel, command, @, t)]
Scan(rel, command, args) ==
  LET end == FoldStrictly(LAMBDA st, t : Step(rel, command, st, t),
                          [s |-> Defaults, option |-> ""], args)
  IN  IF end.option = "" \/ Refused(end.s) THEN end.s
      ELSE Other(rel, command, end.s, end.option)

(* The loop, and the tests after it. *)
Settings(rel, args) ==
  LET cli == Cli[rel]
      s == Scan(rel, "analyze", args)
  IN  IF Refused(s) THEN s
      ELSE IF \/ s.text["--input"] = ""
              \/ cli.formats /\ s.text["--format"] \notin {"csv", "ndjson"}
              \/ cli.outfmts /\ s.text["--outfmt"] \notin {"text", "json"}
           THEN Exit(1) ELSE s

BenchSettings(rel, args) ==
  LET s == Scan(rel, "bench", args)
  IN  IF Refused(s) THEN s
      ELSE IF s.text["--input"] = "" \/ s.text["--format"] \notin {"csv", "ndjson"}
           THEN Exit(1) ELSE s

(* main: the settings, or an exit; the command is argv's first. *)
Parsed(rel, argv) ==
  IF argv = <<>> THEN Exit(1)
  ELSE IF Asks(argv[1]) THEN Exit(0)
  ELSE IF argv[1] \in Commands[rel] THEN
    CASE argv[1] = "version"   -> Exit(0)
      [] argv[1] = "selfcheck" -> Defaults
      [] argv[1] = "bench"     -> BenchSettings(rel, Tail(argv))
  ELSE IF argv[1] = "analyze" THEN Settings(rel, Tail(argv))
  ELSE Exit(1)
=============================================================================
