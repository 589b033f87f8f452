--------------------------- MODULE MetricsProofs ----------------------------
(***************************************************************************)
(* The metrics server, whatever fails, for any backlog and any number of   *)
(* lines and findings: the thread ends before what it refers to, and a     *)
(* scraper never sees a metric decrease.                                   *)
(***************************************************************************)
EXTENDS MetricsServer, SequenceTheorems, TLAPS

(* A worker increments "findings" before the metric of the type: what is   *)
(* owed to a metric was counted as a finding.                              *)
TypesWithinFindings == \A t \in Metered : m_[t] + pending[t] <= m_["findings"]

(* What was sent, what is loaded for the next reply, and the metrics. *)
RepliesLag ==
  /\ \A n \in MetricNames : reply[n] <= m_[n]
  /\ \A i \in 1 .. Len(body) : reply[Names[i]] <= body[i] /\ body[i] <= m_[Names[i]]

BodyLength ==
  /\ srv = "load" => Len(body) < Len(Names)
  /\ srv = "send" => Len(body) = Len(Names)

(* The std::thread and the thread it stands for. *)
ThreadStates ==
  /\ th_ = "none" => srv = "none"
  /\ th_ = "joined" => srv = "end"

IInv == TypeOK /\ TypesWithinFindings /\ RepliesLag /\ BodyLength /\ ThreadStates

-----------------------------------------------------------------------------
LEMMA NamesFacts ==
  ASSUME release \in DOMAIN Starts
  PROVE  /\ Len(Names) \in Nat /\ Len(Names) > 0 /\ DOMAIN Names = 1 .. Len(Names)
         /\ \A i \in 1 .. Len(Names) : Names[i] \in MetricNames
         /\ \A n \in MetricNames : \E i \in 1 .. Len(Names) : Names[i] = n
         /\ "lines" \in MetricNames /\ "findings" \in MetricNames
         /\ Metered \subseteq MetricNames
<1>1. Names \in {<<"lines", "findings", "portscan", "ddos">>,
                 <<"lines", "findings", "portscan", "ddos", "bruteforce">>}
  BY DEF Names, Starts, MaxStart, UltraStart, ApexStart, CurrentStart
<1>2. /\ Len(Names) \in Nat /\ Len(Names) > 0 /\ DOMAIN Names = 1 .. Len(Names)
      /\ Names[1] = "lines" /\ Names[2] = "findings" /\ Len(Names) >= 2
  <2>1. CASE Names = <<"lines", "findings", "portscan", "ddos">>
    BY <2>1
  <2>2. CASE Names = <<"lines", "findings", "portscan", "ddos", "bruteforce">>
    BY <2>2
  <2> QED
    BY <1>1, <2>1, <2>2
<1>3. Names[1] = "lines" /\ 1 \in DOMAIN Names /\ Names[2] = "findings" /\ 2 \in DOMAIN Names
  BY <1>2
<1>4. /\ "lines" \in MetricNames /\ "findings" \in MetricNames
      /\ Metered \subseteq MetricNames
  BY <1>3 DEF MetricNames, Metered
<1>5. \A n \in MetricNames : \E i \in 1 .. Len(Names) : Names[i] = n
  BY <1>2 DEF MetricNames
<1>7. \A i \in 1 .. Len(Names) : Names[i] \in MetricNames
  BY <1>2 DEF MetricNames
<1> QED
  BY <1>2, <1>4, <1>5, <1>7

(* Which metrics there are depends on the release only. *)
LEMMA NamesKept ==
  ASSUME release' = release
  PROVE  Names' = Names /\ MetricNames' = MetricNames /\ Metered' = Metered
BY DEF Names, MetricNames, Metered

(* What the invariant says of the replies, at a glance. *)
LEMMA ReplyFacts ==
  ASSUME IInv
  PROVE  /\ Len(Names) \in Nat /\ Len(Names) > 0 /\ DOMAIN Names = 1 .. Len(Names)
         /\ \A i \in 1 .. Len(Names) : Names[i] \in MetricNames
         /\ \A n \in MetricNames : \E i \in 1 .. Len(Names) : Names[i] = n
         /\ body \in Seq(Nat) /\ Len(body) \in Nat /\ Len(body) <= Len(Names)
         /\ \A i \in 1 .. Len(body) : body[i] \in Nat
         /\ m_ \in [MetricNames -> 0 .. MaxCount] /\ reply \in [MetricNames -> 0 .. MaxCount]
         /\ \A n \in MetricNames : m_[n] \in Nat /\ reply[n] \in Nat /\ m_[n] <= MaxCount
         /\ RepliesLag /\ BodyLength
<1>1. /\ release \in DOMAIN Starts /\ body \in Seq(Nat) /\ Len(body) <= Len(Names)
      /\ m_ \in [MetricNames -> 0 .. MaxCount] /\ reply \in [MetricNames -> 0 .. MaxCount]
      /\ RepliesLag /\ BodyLength
  BY DEF IInv, TypeOK
<1>2. Len(body) \in Nat /\ \A i \in 1 .. Len(body) : body[i] \in Nat
  BY <1>1, LenProperties
<1>3. \A n \in MetricNames : m_[n] \in Nat /\ reply[n] \in Nat /\ m_[n] <= MaxCount
  BY <1>1, MetricsAssumption
<1> QED
  BY <1>1, <1>2, <1>3, NamesFacts

LEMMA InitIInv == Init => IInv
<1> SUFFICES ASSUME Init PROVE IInv
  OBVIOUS
<1> USE MetricsAssumption
<1>1. release \in DOMAIN Starts
  BY DEF Init
<1>b. body = <<>> /\ body \in Seq(Nat) /\ Len(body) = 0
  BY DEF Init
<1>c. m_ \in [MetricNames -> 0 .. MaxCount] /\ reply \in [MetricNames -> 0 .. MaxCount]
  BY DEF Init
<1>d. Len(body) <= Len(Names)
  BY <1>1, <1>b, NamesFacts
<1>e. exit \in {Running, Aborted, Killed} \cup {0, 1, 3} /\ backlog \in 0 .. MaxBacklog
  BY DEF Init
<1>f. pending \in [Metered -> 0 .. MaxCount]
  BY DEF Init
<1>2. TypeOK
  BY <1>1, <1>b, <1>c, <1>d, <1>e, <1>f DEF Init, TypeOK
<1>3. TypesWithinFindings
  <2>1. /\ \A t \in Metered : m_[t] = 0 /\ pending[t] = 0
        /\ m_["findings"] = 0
    BY <1>1, NamesFacts DEF Init, Metered
  <2> QED
    BY <2>1 DEF TypesWithinFindings
<1>4. RepliesLag /\ BodyLength /\ ThreadStates
  BY <1>b DEF Init, RepliesLag, BodyLength, ThreadStates
<1> QED
  BY <1>2, <1>3, <1>4 DEF IInv

-----------------------------------------------------------------------------
(* The steps of main. *)
LEMMA MainIInv == ASSUME IInv, Main PROVE IInv'
<1> USE DEF IInv
<1>1. /\ UNCHANGED <<release, m_, pending, body, reply>>
      /\ backlog' = backlog
  BY DEF Main, NoServer, Start, OpenInput, WorkDone, StopServer, Stop, Return, Destroy,
         serverVars, workVars
<1>2. Names' = Names /\ MetricNames' = MetricNames /\ Metered' = Metered
  BY <1>1, NamesKept
<1>a. main' \in {"begin", "open", "run", "stop", "join", "gate", "destroy",
                 "destroyJoin", "destroyThread", "end"}
  BY DEF Main, NoServer, Start, OpenInput, WorkDone, StopServer, Stop, Return, Destroy, TypeOK
<1>b. code' \in {0, 1, 3} /\ exit' \in {Running, Aborted, Killed} \cup {0, 1, 3}
  BY DEF Main, NoServer, Start, OpenInput, WorkDone, StopServer, Stop, Return, Destroy, TypeOK
<1>c. running_' \in BOOLEAN /\ th_' \in {"none", "joinable", "joined"}
  BY DEF Main, NoServer, Start, OpenInput, WorkDone, StopServer, Stop, Return, Destroy,
         serverVars, TypeOK
<1>d. srv' \in {"none", "setup", "test", "accept", "load", "send", "end"}
  BY DEF Main, NoServer, Start, OpenInput, WorkDone, StopServer, Stop, Return, Destroy,
         serverVars, TypeOK
<1>4. TypeOK'
  BY <1>1, <1>2, <1>a, <1>b, <1>c, <1>d DEF TypeOK
<1>5. TypesWithinFindings' /\ RepliesLag'
  BY <1>1, <1>2 DEF TypesWithinFindings, RepliesLag
<1>6. BodyLength'
  BY <1>1, <1>2 DEF BodyLength, Main, NoServer, Start, OpenInput, WorkDone, StopServer,
                    Stop, Return, Destroy, serverVars
<1>7. ThreadStates'
  BY DEF ThreadStates, TypeOK, Main, NoServer, Start, OpenInput, WorkDone, StopServer,
         Stop, Return, Destroy, serverVars
<1> QED
  BY <1>4, <1>5, <1>6, <1>7

(* The steps of the workers. *)
LEMMA WorkersIInv == ASSUME IInv, CountLine \/ CountFinding \/ CountType PROVE IInv'
<1> USE MetricsAssumption DEF IInv
<1>1. UNCHANGED <<mainVars, serverVars>>
  BY DEF CountLine, CountFinding, CountType
<1>2. /\ Names' = Names /\ MetricNames' = MetricNames /\ Metered' = Metered
  BY <1>1, NamesKept DEF mainVars
<1>3. /\ "lines" \in MetricNames /\ "findings" \in MetricNames
      /\ "lines" \notin Metered /\ "findings" \notin Metered
      /\ Metered \subseteq MetricNames
      /\ \A i \in 1 .. Len(Names) : Names[i] \in MetricNames
      /\ Len(Names) \in Nat
  BY NamesFacts DEF TypeOK, Metered
<1>4. /\ m_ \in [MetricNames -> 0 .. MaxCount] /\ reply \in [MetricNames -> 0 .. MaxCount]
      /\ body \in Seq(Nat) /\ Len(body) \in Nat /\ Len(body) <= Len(Names)
      /\ \A i \in 1 .. Len(body) : body[i] \in Nat
  BY DEF TypeOK
<1>4a. \A n \in MetricNames : m_[n] \in 0 .. MaxCount /\ m_[n] \in Nat
  BY <1>4
<1>4b. /\ pending \in [Metered -> 0 .. MaxCount]
       /\ \A t \in Metered : pending[t] \in Nat /\ m_[t] + pending[t] <= m_["findings"]
  BY DEF TypeOK, TypesWithinFindings
<1>5. /\ m_' \in [MetricNames -> 0 .. MaxCount] /\ pending' \in [Metered -> 0 .. MaxCount]
      /\ \A n \in MetricNames : m_[n] <= m_'[n]
      /\ \A t \in Metered : m_'[t] + pending'[t] <= m_'["findings"]
  <2>1. CASE CountLine
    <3>1. /\ m_' = [m_ EXCEPT !["lines"] = @ + 1] /\ pending' = pending
          /\ m_["lines"] < MaxCount
      BY <2>1 DEF CountLine
    <3>2. m_["lines"] + 1 \in 0 .. MaxCount /\ m_["lines"] <= m_["lines"] + 1
      BY <3>1, <1>3, <1>4a
    <3>3. \A t \in Metered : m_'[t] = m_[t]
      BY <3>1, <1>3, <1>4
    <3>4. m_'["findings"] = m_["findings"]
      BY <3>1, <1>3, <1>4
    <3>5. m_' \in [MetricNames -> 0 .. MaxCount]
      BY <3>1, <3>2, <1>3, <1>4
    <3>6. \A n \in MetricNames : m_[n] <= m_'[n]
      BY <3>1, <3>2, <1>4, <1>4a
    <3> QED
      BY <3>1, <3>3, <3>4, <3>5, <3>6, <1>4b
  <2>2. CASE CountFinding
    <3>1. m_' = [m_ EXCEPT !["findings"] = @ + 1] /\ m_["findings"] < MaxCount
      BY <2>2 DEF CountFinding
    <3>2. m_["findings"] + 1 \in 0 .. MaxCount /\ m_["findings"] <= m_["findings"] + 1
      BY <3>1, <1>3, <1>4a
    <3>3. \A t \in Metered : m_'[t] = m_[t] /\ m_[t] \in Nat
      BY <3>1, <1>3, <1>4, <1>4a
    <3>4. m_'["findings"] = m_["findings"] + 1 /\ m_["findings"] \in Nat
      BY <3>1, <1>3, <1>4, <1>4a
    <3>5. m_' \in [MetricNames -> 0 .. MaxCount]
      BY <3>1, <3>2, <1>3, <1>4
    <3>6. \A n \in MetricNames : m_[n] <= m_'[n]
      BY <3>1, <3>2, <1>4, <1>4a
    <3>7. \A t \in Metered : pending'[t] \in {pending[t], pending[t] + 1}
      <4>1. CASE pending' = pending
        BY <4>1
      <4>2. CASE \E t \in Metered : pending' = [pending EXCEPT ![t] = @ + 1]
        BY <4>2, <1>4b
      <4> QED
        BY <2>2, <4>1, <4>2 DEF CountFinding
    <3>8. \A t \in Metered : pending'[t] \in Nat /\ m_'[t] + pending'[t] <= m_'["findings"]
      <4> SUFFICES ASSUME NEW t \in Metered
                   PROVE  pending'[t] \in Nat /\ m_'[t] + pending'[t] <= m_'["findings"]
        OBVIOUS
      <4>1. pending[t] \in Nat /\ m_[t] + pending[t] <= m_["findings"]
        BY <1>4b
      <4>2. pending'[t] \in Nat /\ pending'[t] <= pending[t] + 1
        BY <4>1, <3>7
      <4> QED
        BY <4>1, <4>2, <3>3, <3>4
    <3>9. \A t \in Metered : pending'[t] \in 0 .. MaxCount
      BY <3>1, <3>2, <3>3, <3>4, <3>8
    <3>10. pending' \in [Metered -> 0 .. MaxCount]
      <4>1. CASE pending' = pending
        BY <4>1, <1>4b
      <4>2. CASE \E t \in Metered : pending' = [pending EXCEPT ![t] = @ + 1]
        BY <4>2, <3>9, <1>4b
      <4> QED
        BY <2>2, <4>1, <4>2 DEF CountFinding
    <3> QED
      BY <3>5, <3>6, <3>8, <3>10
  <2>3. CASE CountType
    <3> PICK u \in Metered : /\ pending[u] > 0
                             /\ m_' = [m_ EXCEPT ![u] = @ + 1]
                             /\ pending' = [pending EXCEPT ![u] = @ - 1]
      BY <2>3 DEF CountType
    <3>1. /\ u \in MetricNames /\ u # "findings" /\ pending[u] \in 1 .. MaxCount
          /\ m_[u] \in Nat /\ m_["findings"] \in 0 .. MaxCount
      BY <1>3, <1>4a, <1>4b
    <3>2. m_[u] + 1 <= m_["findings"]
      BY <3>1, <1>4b
    <3>3. m_[u] + 1 \in 0 .. MaxCount /\ m_[u] <= m_[u] + 1 /\ pending[u] - 1 \in 0 .. MaxCount
      BY <3>1, <3>2
    <3>4. m_' \in [MetricNames -> 0 .. MaxCount] /\ pending' \in [Metered -> 0 .. MaxCount]
      BY <3>1, <3>3, <1>4, <1>4b
    <3>5. ASSUME NEW n \in MetricNames PROVE m_[n] <= m_'[n]
      <4>1. CASE n = u
        BY <4>1, <3>1, <3>3, <1>4
      <4>2. CASE n # u
        <5>1. m_'[n] = m_[n]
          BY <4>2, <1>4
        <5> QED
          BY <5>1, <1>4a
      <4> QED
        BY <4>1, <4>2
    <3>6. m_'["findings"] = m_["findings"]
      BY <3>1, <1>3, <1>4
    <3>7. ASSUME NEW t \in Metered PROVE m_'[t] + pending'[t] <= m_'["findings"]
      <4>1. t \in MetricNames /\ m_[t] \in Nat /\ pending[t] \in Nat
            /\ m_[t] + pending[t] <= m_["findings"]
        BY <1>3, <1>4a, <1>4b
      <4>2. CASE t = u
        <5>1. m_'[t] = m_[t] + 1 /\ pending'[t] = pending[t] - 1
          BY <4>1, <4>2, <1>4, <1>4b
        <5> QED
          BY <4>1, <5>1, <3>6
      <4>3. CASE t # u
        <5>1. m_'[t] = m_[t] /\ pending'[t] = pending[t]
          BY <4>1, <4>3, <1>4, <1>4b
        <5> QED
          BY <4>1, <5>1, <3>6
      <4> QED
        BY <4>2, <4>3
    <3> QED
      BY <3>4, <3>5, <3>6, <3>7
  <2> QED
    BY <2>1, <2>2, <2>3
<1>5a. TypesWithinFindings'
  BY <1>2, <1>5 DEF TypesWithinFindings
<1>6. TypeOK'
  BY <1>1, <1>2, <1>5 DEF TypeOK, mainVars, serverVars
<1>7. RepliesLag'
  <2>1. \A n \in MetricNames : m_'[n] \in Nat
    BY <1>5
  <2>2. reply' = reply /\ body' = body
    BY <1>1 DEF serverVars
  <2>3. \A n \in MetricNames : reply[n] <= m_'[n]
    BY <2>1, <1>5, ReplyFacts DEF RepliesLag
  <2>4. ASSUME NEW i \in 1 .. Len(body)
        PROVE  reply[Names[i]] <= body[i] /\ body[i] <= m_'[Names[i]]
    <3>1. Names[i] \in MetricNames /\ body[i] \in Nat
      BY ReplyFacts
    <3>2. reply[Names[i]] <= body[i] /\ body[i] <= m_[Names[i]]
      BY DEF RepliesLag
    <3>3. m_[Names[i]] \in Nat /\ m_'[Names[i]] \in Nat /\ m_[Names[i]] <= m_'[Names[i]]
      BY <3>1, <2>1, <1>4a, <1>5
    <3> QED
      BY <3>1, <3>2, <3>3
  <2> QED
    BY <2>2, <2>3, <2>4, <1>2 DEF RepliesLag
<1>8. BodyLength' /\ ThreadStates'
  BY <1>1, <1>2 DEF BodyLength, ThreadStates, serverVars
<1> QED
  BY <1>5a, <1>6, <1>7, <1>8

(* Appending the next metric to the body, and sending the full one. *)
LEMMA LoadReplies ==
  ASSUME IInv, Load
  PROVE  /\ body' \in Seq(Nat) /\ Len(body') = Len(body) + 1 /\ Len(body') <= Len(Names)
         /\ RepliesLag' /\ BodyLength'
<1> DEFINE n == Len(body) + 1
<1>1. UNCHANGED <<release, m_, reply>>
  BY DEF Load, mainVars, workVars
<1>2. Names' = Names /\ MetricNames' = MetricNames
  BY <1>1, NamesKept
<1>3. /\ body \in Seq(Nat) /\ Len(body) \in Nat /\ n \in 1 .. Len(Names)
      /\ Names[n] \in MetricNames /\ m_[Names[n]] \in Nat
  <2>1. Len(body) < Len(Names)
    BY ReplyFacts DEF BodyLength, Load
  <2> QED
    BY <2>1, ReplyFacts
<1>4. /\ body' \in Seq(Nat) /\ Len(body') = n
      /\ body'[n] = m_[Names[n]]
      /\ \A i \in 1 .. Len(body) : body'[i] = body[i]
  BY <1>3, AppendProperties DEF Load
<1>5. RepliesLag'
  <2>1. reply[Names[n]] <= m_[Names[n]]
    BY <1>3, ReplyFacts DEF RepliesLag
  <2>2. m_[Names[n]] <= m_[Names[n]]
    BY <1>3
  <2>3. \A i \in 1 .. n : reply[Names[i]] <= body'[i] /\ body'[i] <= m_[Names[i]]
    <3> SUFFICES ASSUME NEW i \in 1 .. n
                 PROVE  reply[Names[i]] <= body'[i] /\ body'[i] <= m_[Names[i]]
      OBVIOUS
    <3>1. CASE i = n
      BY <3>1, <2>1, <2>2, <1>4
    <3>2. CASE i \in 1 .. Len(body)
      BY <3>2, <1>4, ReplyFacts DEF RepliesLag
    <3> QED
      BY <3>1, <3>2, <1>3
  <2> QED
    BY <2>3, <1>1, <1>2, <1>4, ReplyFacts DEF RepliesLag
<1>6. BodyLength'
  <2>1. Len(body') \in Nat /\ Len(body') <= Len(Names) /\ Len(Names) \in Nat
    BY <1>3, <1>4, ReplyFacts
  <2>2. srv' = IF Len(body') = Len(Names) THEN "send" ELSE "load"
    BY DEF Load
  <2> QED
    BY <2>1, <2>2, <1>2 DEF BodyLength
<1> QED
  BY <1>3, <1>4, <1>5, <1>6

LEMMA SendReplies ==
  ASSUME IInv, Send
  PROVE  /\ reply' \in [MetricNames -> 0 .. MaxCount]
         /\ \A n \in MetricNames : reply[n] <= reply'[n] /\ reply'[n] <= m_[n]
<1> SUFFICES ASSUME NEW n \in MetricNames
             PROVE  /\ reply'[n] \in 0 .. MaxCount
                    /\ reply[n] <= reply'[n] /\ reply'[n] <= m_[n]
  BY DEF Send
<1> DEFINE i == CHOOSE i \in DOMAIN Names : Names[i] = n
<1>1. i \in DOMAIN Names /\ Names[i] = n
  BY ReplyFacts
<1>4. reply'[n] = body[i]
  BY DEF Send
<1> HIDE DEF i
<1>2. i \in 1 .. Len(body) /\ body[i] \in Nat
  BY <1>1, ReplyFacts DEF BodyLength, Send
<1>3. reply[n] <= body[i] /\ body[i] <= m_[n]
  BY <1>1, <1>2, ReplyFacts DEF RepliesLag
<1> QED
  BY <1>2, <1>3, <1>4, ReplyFacts, MetricsAssumption

(* The steps of the server's thread, and of its clients. *)
LEMMA ServerIInv == ASSUME IInv, Server \/ Connect PROVE IInv'
<1> USE MetricsAssumption DEF IInv
<1>1. /\ UNCHANGED <<release, code, workVars, th_>>
      /\ UNCHANGED <<main, exit>> \/ (main' = "end" /\ exit' = Killed)
  BY DEF Server, Setup, TestRunning, Accept, Load, Send, SendFails, Connect, mainVars
<1>2. Names' = Names /\ MetricNames' = MetricNames /\ Metered' = Metered
  BY <1>1, NamesKept
<1>3. TypesWithinFindings'
  BY <1>1, <1>2 DEF TypesWithinFindings, workVars
<1>4. ThreadStates'
  BY <1>1 DEF ThreadStates, TypeOK, Server, Setup, TestRunning, Accept, Load, Send,
              SendFails, Connect
<1>a. backlog \in 0 .. MaxBacklog /\ running_ \in BOOLEAN
  BY DEF TypeOK
<1>b. backlog' \in 0 .. MaxBacklog
  BY <1>a DEF Server, Setup, TestRunning, Accept, Load, Send, SendFails, Connect
<1>c. running_' \in BOOLEAN
  BY <1>a DEF Server, Setup, TestRunning, Accept, Load, Send, SendFails, Connect
<1>d. srv' \in {"none", "setup", "test", "accept", "load", "send", "end"}
  BY DEF TypeOK, Server, Setup, TestRunning, Accept, Load, Send, SendFails, Connect
<1>e. main' \in {"begin", "open", "run", "stop", "join", "gate", "destroy",
                 "destroyJoin", "destroyThread", "end"}
      /\ exit' \in {Running, Aborted, Killed} \cup {0, 1, 3}
  BY <1>1 DEF TypeOK
<1>5. UNCHANGED <<m_, release>>
  BY <1>1 DEF workVars
<1>6. /\ body' \in Seq(Nat) /\ Len(body') <= Len(Names)
      /\ reply' \in [MetricNames -> 0 .. MaxCount]
      /\ RepliesLag' /\ BodyLength'
  <2>0. <<>> \in Seq(Nat) /\ Len(<<>>) = 0
    OBVIOUS
  <2>1. CASE Setup \/ TestRunning \/ Connect
    <3>1. UNCHANGED <<body, reply>>
      BY <2>1 DEF Setup, TestRunning, Connect
    <3>2. RepliesLag'
      BY <3>1, <1>2, <1>5, ReplyFacts DEF RepliesLag
    <3>3. BodyLength'
      BY <2>1, <3>1, <1>2, ReplyFacts DEF BodyLength, Setup, TestRunning, Connect
    <3> QED
      BY <3>1, <3>2, <3>3, ReplyFacts
  <2>2. CASE Accept
    <3>1. reply' = reply /\ (body' = <<>> \/ body' = body)
      BY <2>2 DEF Accept
    <3>2. RepliesLag'
      BY <3>1, <2>0, <1>2, <1>5, ReplyFacts DEF RepliesLag
    <3>3. BodyLength'
      BY <2>2, <2>0, <1>2, ReplyFacts DEF BodyLength, Accept
    <3>4. body' \in Seq(Nat) /\ Len(body') <= Len(Names)
      <4>1. CASE body' = body
        BY <4>1, ReplyFacts
      <4>2. CASE body' = <<>>
        <5>1. body' \in Seq(Nat) /\ Len(body') = 0
          BY <4>2
        <5> QED
          BY <5>1, ReplyFacts
      <4> QED
        BY <3>1, <4>1, <4>2
    <3>5. reply' \in [MetricNames -> 0 .. MaxCount]
      BY <3>1, ReplyFacts
    <3> QED
      BY <3>2, <3>3, <3>4, <3>5
  <2>3. CASE Load
    <3>1. reply' = reply
      BY <2>3 DEF Load
    <3> QED
      BY <2>3, <3>1, LoadReplies, ReplyFacts
  <2>4. CASE Send
    <3>1. body' = <<>> /\ srv' = "test"
      BY <2>4 DEF Send
    <3>2. RepliesLag'
      BY <2>4, <3>1, <2>0, <1>2, <1>5, SendReplies DEF RepliesLag
    <3> QED
      BY <2>4, <3>1, <3>2, <2>0, SendReplies, ReplyFacts DEF BodyLength
  <2>5. CASE SendFails
    <3>1. body' = <<>> /\ reply' = reply /\ srv' \in {"test", "end"}
      BY <2>5 DEF SendFails
    <3>2. RepliesLag'
      BY <3>1, <2>0, <1>2, <1>5, ReplyFacts DEF RepliesLag
    <3> QED
      BY <3>1, <3>2, <2>0, ReplyFacts DEF BodyLength
  <2> QED
    BY <2>1, <2>2, <2>3, <2>4, <2>5 DEF Server
<1>7. TypeOK'
  BY <1>1, <1>2, <1>b, <1>c, <1>d, <1>e, <1>6 DEF TypeOK, workVars
<1> QED
  BY <1>3, <1>4, <1>6, <1>7

LEMMA NextIInv == ASSUME IInv, [Next]_vars PROVE IInv'
<1>1. CASE UNCHANGED vars
  <2>1. Names' = Names /\ MetricNames' = MetricNames /\ Metered' = Metered
    BY <1>1, NamesKept DEF vars, mainVars
  <2> QED
    BY <1>1, <2>1 DEF IInv, TypeOK, TypesWithinFindings, RepliesLag, BodyLength,
                      ThreadStates, vars, mainVars, serverVars, workVars
<1> QED
  BY <1>1, MainIInv, WorkersIInv, ServerIInv DEF Next, Exited

THEOREM Invariant == Spec => []IInv
BY InitIInv, NextIInv, PTL DEF Spec

-----------------------------------------------------------------------------
(* Every variable keeps its type: no metric passes what was counted.        *)
THEOREM TypeCorrect == Spec => []TypeOK
BY Invariant, PTL DEF IInv

(* Whatever fails, when main has destroyed the server its thread has ended, *)
(* or the process is aborted or killed.                                     *)
THEOREM ServerEndsFirst == Spec => []NoThreadOutlivesServer
<1>1. IInv => NoThreadOutlivesServer
  BY DEF IInv, TypeOK, ThreadStates, NoThreadOutlivesServer
<1> QED
  BY <1>1, Invariant, PTL

(* Successive replies never decrease, though none is a snapshot.            *)
THEOREM Monotone == Spec => ScrapesMonotone
<1>1. ASSUME IInv, [Next]_vars
      PROVE  [\A n \in MetricNames : reply'[n] >= reply[n]]_vars
  <2> SUFFICES ASSUME NEW n \in MetricNames PROVE reply'[n] >= reply[n]
    OBVIOUS
  <2>1. reply[n] \in 0 .. MaxCount
    BY <1>1 DEF IInv, TypeOK
  <2>2. CASE Send
    <3>1. reply'[n] \in 0 .. MaxCount /\ reply[n] <= reply'[n]
      BY <2>2, <1>1, SendReplies
    <3> QED
      BY <3>1, <2>1, MetricsAssumption
  <2>3. CASE ~Send
    <3>1. reply' = reply
      BY <2>3, <1>1 DEF Next, Main, NoServer, Start, OpenInput, WorkDone, StopServer, Stop,
                        Return, Destroy, CountLine, CountFinding, CountType, Server, Setup,
                        TestRunning, Accept, Load, SendFails, Connect, Exited, vars,
                        serverVars
    <3> QED
      BY <3>1, <2>1, MetricsAssumption
  <2> QED
    BY <2>2, <2>3
<1> QED
  BY <1>1, Invariant, PTL DEF Spec, ScrapesMonotone
=============================================================================
