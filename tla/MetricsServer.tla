--------------------------- MODULE MetricsServer ----------------------------
(***************************************************************************)
(* neonsec::MetricsServer (src/metrics_server.cpp) in the life of `neonsec *)
(* analyze`, in 5.0.0 and the releases it comes from: main starts it       *)
(* before it opens the input and stops it when the workers are done; its   *)
(* thread answers every connection with the metrics the workers increment  *)
(* meanwhile; a return from main destroys it.                              *)
(*                                                                         *)
(* The listening socket is the number of connections waiting in its        *)
(* backlog.  The request is not read by the code, nor modelled; a TLS      *)
(* handshake is assumed to end, well or not.                               *)
(***************************************************************************)
EXTENDS Integers, Sequences

CONSTANTS
  Failures,         \* what the environment may refuse
  MaxBacklog,       \* listen's argument, 8 in the code
  MaxCount          \* bound: lines, and findings, the workers account for

ASSUME MetricsAssumption ==
  /\ Failures \subseteq {"socket", "bind", "tls", "accept", "client", "input"}
  /\ MaxBacklog \in Nat \ {0}
  /\ MaxCount \in Nat

(* start() of the releases: what may fail before the thread listens, and    *)
(* the metrics in the order a reply loads them.                             *)
MaxStart ==
  [setup |-> {"socket", "bind"}, names |-> <<"lines", "findings", "portscan", "ddos">>]
UltraStart == MaxStart
ApexStart ==
  [setup |-> {"socket", "bind", "tls"},
   names |-> <<"lines", "findings", "portscan", "ddos", "bruteforce">>]
CurrentStart == ApexStart
Starts == [max |-> MaxStart, ultra |-> UltraStart, apex |-> ApexStart,
           current |-> CurrentStart]

VARIABLES
  release,          \* which release runs
  main,             \* where main is
  code,             \* the value main is about to return
  exit,             \* the exit code of the process, Running until it has one
  running_,         \* the atomic flag
  th_,              \* the std::thread: "none", "joinable" or "joined"
  srv,              \* where the server's thread is
  backlog,          \* connections not yet accepted
  m_,               \* the metrics
  pending,          \* per type, the workers between the metric of a finding
                    \* and the metric of its type
  body,             \* the values loaded for the reply in progress
  reply             \* history: the last values sent

serverVars == <<running_, th_, srv, backlog, body, reply>>
workVars   == <<m_, pending>>
mainVars   == <<release, main, code, exit>>
vars == <<mainVars, serverVars, workVars>>

Running == -1
Aborted == 134      \* std::terminate: SIGABRT
Killed == 141       \* SIGPIPE

Names == Starts[release].names
MetricNames == {Names[i] : i \in DOMAIN Names}
Metered == MetricNames \ {"lines", "findings"}

Listening == srv \in {"test", "accept", "load", "send"}

Init ==
  /\ release \in DOMAIN Starts
  /\ main = "begin" /\ code = 0 /\ exit = Running
  /\ running_ = FALSE /\ th_ = "none" /\ srv = "none" /\ backlog = 0
  /\ m_ = [n \in MetricNames |-> 0]
  /\ pending = [t \in Metered |-> 0]
  /\ body = <<>>
  /\ reply = [n \in MetricNames |-> 0]

-----------------------------------------------------------------------------
(* main *)

(* Without --metrics the server is constructed but not started. *)
NoServer ==
  /\ main = "begin"
  /\ main' = "open"
  /\ UNCHANGED <<release, code, exit, serverVars, workVars>>

(* ms.start: it returns before the thread has done anything. *)
Start ==
  /\ main = "begin"
  /\ running_' = TRUE
  /\ th_' = "joinable"
  /\ srv' = "setup"
  /\ main' = "open"
  /\ UNCHANGED <<release, code, exit, backlog, body, reply, workVars>>

OpenInput ==
  /\ main = "open"
  /\ \/ main' = "run" /\ UNCHANGED code
     \/ "input" \in Failures /\ main' = "destroy" /\ code' = 1
  /\ UNCHANGED <<release, exit, serverVars, workVars>>

(* The reader and the pool are joined. *)
WorkDone ==
  /\ main = "run"
  /\ \A t \in Metered : pending[t] = 0
  /\ main' = "stop"
  /\ UNCHANGED <<release, code, exit, serverVars, workVars>>

(* Mutants of stop(): the thread is detached; the flag is left set. *)
StopDetach(from, join, next) ==
  /\ main = from
  /\ running_' = FALSE
  /\ th_' = IF th_ = "joinable" THEN "joined" ELSE th_
  /\ main' = next
  /\ UNCHANGED <<srv, backlog, body, reply>>

StopUnflagged(from, join, next) ==
  \/ /\ main = from
     /\ main' = IF running_ THEN join ELSE next
     /\ UNCHANGED <<running_, th_, srv, backlog, body, reply>>
  \/ /\ main = join
     /\ srv = "end"
     /\ th_' = "joined"
     /\ main' = next
     /\ UNCHANGED <<running_, srv, backlog, body, reply>>

(* stop(), called at label from: it returns at once if the flag is down,    *)
(* otherwise it lowers it and joins the thread.                             *)
Stop(from, join, next) ==
  \/ /\ main = from
     /\ running_' = FALSE
     /\ main' = IF running_ THEN join ELSE next
     /\ UNCHANGED <<th_, srv, backlog, body, reply>>
  \/ /\ main = join
     /\ srv = "end"
     /\ th_' = "joined"
     /\ main' = next
     /\ UNCHANGED <<running_, srv, backlog, body, reply>>

StopServer ==
  /\ Stop("stop", "join", "gate")
  /\ UNCHANGED <<release, code, exit, workVars>>

(* return 0, or 3 if a --fail-on gate triggers. *)
Return ==
  /\ main = "gate"
  /\ code' \in {0, 3}
  /\ main' = "destroy"
  /\ UNCHANGED <<release, exit, serverVars, workVars>>

(* ~MetricsServer calls stop(), then ~thread terminates the process if the  *)
(* thread was not joined.                                                   *)
Destroy ==
  \/ /\ Stop("destroy", "destroyJoin", "destroyThread")
     /\ UNCHANGED <<release, code, exit, workVars>>
  \/ /\ main = "destroyThread"
     /\ exit' = IF th_ = "joinable" THEN Aborted ELSE code
     /\ main' = "end"
     /\ UNCHANGED <<release, code, serverVars, workVars>>

Main == NoServer \/ Start \/ OpenInput \/ WorkDone \/ StopServer \/ Return \/ Destroy

-----------------------------------------------------------------------------
(* The workers: lines, or findings and then the metric of the type, if it   *)
(* has one: a plugin's findings may be of any type.                         *)

CountLine ==
  /\ main = "run"
  /\ m_["lines"] < MaxCount
  /\ m_' = [m_ EXCEPT !["lines"] = @ + 1]
  /\ UNCHANGED <<pending, mainVars, serverVars>>

CountFinding ==
  /\ main = "run"
  /\ m_["findings"] < MaxCount
  /\ m_' = [m_ EXCEPT !["findings"] = @ + 1]
  /\ \/ UNCHANGED pending
     \/ \E t \in Metered : pending' = [pending EXCEPT ![t] = @ + 1]
  /\ UNCHANGED <<mainVars, serverVars>>

CountType ==
  /\ main = "run"
  /\ \E t \in Metered :
       /\ pending[t] > 0
       /\ m_' = [m_ EXCEPT ![t] = @ + 1]
       /\ pending' = [pending EXCEPT ![t] = @ - 1]
  /\ UNCHANGED <<mainVars, serverVars>>

-----------------------------------------------------------------------------
(* The server's thread. *)

(* socket, bind, listen and the TLS context, or the first that fails. *)
Setup ==
  /\ srv = "setup"
  /\ \/ srv' = "test" /\ UNCHANGED running_
     \/ Starts[release].setup \cap Failures # {} /\ srv' = "end" /\ running_' = FALSE
  /\ UNCHANGED <<th_, backlog, body, reply, mainVars, workVars>>

(* while (running_.load()), or close_sock(srv) after it. *)
TestRunning ==
  /\ srv = "test"
  /\ IF running_ THEN srv' = "accept" /\ UNCHANGED backlog
                 ELSE srv' = "end" /\ backlog' = 0
  /\ UNCHANGED <<running_, th_, body, reply, mainVars, workVars>>

(* Mutant: accept on a socket that does not block. *)
AcceptNonblocking ==
  /\ srv = "accept"
  /\ backlog' = backlog - 1
  /\ srv' = "load"
  /\ body' = <<>>
  /\ UNCHANGED <<running_, th_, reply, mainVars, workVars>>

(* accept blocks until there is a connection, whatever becomes of running_. *)
Accept ==
  /\ srv = "accept"
  /\ \/ /\ backlog > 0
        /\ backlog' = backlog - 1
        /\ srv' = "load"
        /\ body' = <<>>
     \/ /\ "accept" \in Failures
        /\ srv' = "test"
        /\ UNCHANGED <<backlog, body>>
  /\ UNCHANGED <<running_, th_, reply, mainVars, workVars>>

(* Mutant: the metric is exchanged with 0 instead of loaded. *)
LoadAndReset ==
  /\ srv = "load"
  /\ LET n == Names[Len(body) + 1]
     IN  /\ body' = Append(body, m_[n])
         /\ m_' = [m_ EXCEPT ![n] = 0]
  /\ srv' = IF Len(body') = Len(Names) THEN "send" ELSE "load"
  /\ UNCHANGED <<running_, th_, backlog, reply, mainVars, pending>>

(* The body of the reply: one load after the other, no snapshot. *)
Load ==
  /\ srv = "load"
  /\ body' = Append(body, m_[Names[Len(body) + 1]])
  /\ srv' = IF Len(body') = Len(Names) THEN "send" ELSE "load"
  /\ UNCHANGED <<running_, th_, backlog, reply, mainVars, workVars>>

Send ==
  /\ srv = "send"
  /\ reply' = [n \in MetricNames |-> body[CHOOSE i \in DOMAIN Names : Names[i] = n]]
  /\ body' = <<>>
  /\ srv' = "test"
  /\ UNCHANGED <<running_, th_, backlog, mainVars, workVars>>

(* The TLS handshake fails, or the client is gone: it gets no reply, and a  *)
(* send to a connection that was reset is a SIGPIPE, which nothing handles. *)
SendFails ==
  /\ srv = "send" /\ "client" \in Failures
  /\ body' = <<>>
  /\ \/ srv' = "test" /\ UNCHANGED <<main, exit>>
     \/ srv' = "end" /\ main' = "end" /\ exit' = Killed
  /\ UNCHANGED <<release, code, running_, th_, backlog, reply, workVars>>

Server == Setup \/ TestRunning \/ Accept \/ Load \/ Send \/ SendFails

(* A client, such as a Prometheus scraper. *)
Connect ==
  /\ Listening
  /\ backlog < MaxBacklog
  /\ backlog' = backlog + 1
  /\ UNCHANGED <<running_, th_, srv, body, reply, mainVars, workVars>>

-----------------------------------------------------------------------------
(* The process is gone; no thread of it is left (NoThreadOutlivesServer). *)
Exited == exit # Running /\ UNCHANGED vars

Next ==
  \/ Main
  \/ CountLine \/ CountFinding \/ CountType
  \/ Server
  \/ Connect
  \/ Exited

(* The threads of the process are scheduled. *)
Fairness == WF_vars(Main) /\ WF_vars(CountType) /\ WF_vars(Server)

Spec == Init /\ [][Next]_vars
FairSpec == Spec /\ Fairness

(* The scrape job that README.md configures polls for ever. *)
PolledSpec == FairSpec /\ WF_vars(Connect)

-----------------------------------------------------------------------------
(* Type invariant. *)
TypeOK ==
  /\ release \in DOMAIN Starts
  /\ main \in {"begin", "open", "run", "stop", "join", "gate", "destroy",
               "destroyJoin", "destroyThread", "end"}
  /\ code \in {0, 1, 3}
  /\ exit \in {Running, Aborted, Killed} \cup {0, 1, 3}
  /\ running_ \in BOOLEAN
  /\ th_ \in {"none", "joinable", "joined"}
  /\ srv \in {"none", "setup", "test", "accept", "load", "send", "end"}
  /\ backlog \in 0..MaxBacklog
  /\ m_ \in [MetricNames -> 0..MaxCount]
  /\ pending \in [Metered -> 0..MaxCount]
  /\ body \in Seq(Nat) /\ Len(body) <= Len(Names)
  /\ reply \in [MetricNames -> 0..MaxCount]

(* The server's thread uses m_ and running_ by reference: it has ended      *)
(* before they are destroyed, unless the process is aborted or killed.      *)
NoThreadOutlivesServer ==
  main \in {"destroyThread", "end"} /\ exit # Aborted /\ th_ # "joinable"
    => srv \in {"none", "end"}

(* "# TYPE neonsec_lines_total counter": what a scraper reads of a metric   *)
(* never decreases, although a reply is not a snapshot of the five.         *)
ScrapesMonotone == [][\A n \in MetricNames : reply'[n] >= reply[n]]_vars

(* main does not wait for ever, whatever fails.                             *)
Ends == <>(exit # Running)

(* The exit codes of README.md. *)
DocumentedExit == exit \in {Running, 0, 1, 2, 3}
=============================================================================
