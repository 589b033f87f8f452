------------------------ MODULE OriginalEngineProofs ------------------------
(***************************************************************************)
(* The windows, detectors and rules of the original engine against its     *)
(* log: proved for any records, configuration and number of engines; what  *)
(* is kept, in any order of time, what is reported, in time order.         *)
(*                                                                         *)
(* A deque is read from the back: Back(dq, 0) is the newest record.  The   *)
(* record that the log has with b later ones of its address is the b-th    *)
(* from the back of that address's deque, as long as the deque is longer   *)
(* than b.                                                                 *)
(***************************************************************************)
EXTENDS OriginalEngine, SequenceTheorems, FunctionTheorems,
        FiniteSetTheorems, NaturalInduction

Back(dq, b) == dq[Len(dq) - b]
Span == cfg.span_sec
Cap == cfg.max_records_per_key

(* add() on the deque of the record's key. *)
Pushed(dq, r) == IF Len(Append(dq, r)) > Cap THEN Tail(Append(dq, r)) ELSE Append(dq, r)

Capped(dq) == dq # <<>> => Len(dq) <= Cap
WindowOK(win) == \A k \in DOMAIN win : win[k] \in Seq(Records) /\ Capped(win[k])

-----------------------------------------------------------------------------
(* What the operations do to one deque. *)

LEMMA GetOfAdd ==
  ASSUME NEW win, NEW r, NEW key, NEW k
  PROVE  get(Add(win, r, key), k)
           = IF k = key THEN Pushed(get(win, key), r) ELSE get(win, k)
BY DEF Add, With, get, At, Pushed, Cap

LEMMA FreshOfEmpty ==
  ASSUME NEW now, NEW span
  PROVE  Fresh(<<>>, now, span) = <<>>
<1>1. {i \in DOMAIN <<>> : now - <<>>[i].ts <= span} = {}
  OBVIOUS
<1> QED
  BY <1>1 DEF Fresh

LEMMA GetOfEvict ==
  ASSUME NEW win, NEW now
  PROVE  \A k : get(Evict(win, now), k) = Fresh(get(win, k), now, Span)
BY FreshOfEmpty DEF Evict, get, At, Span

LEMMA PushedBack ==
  ASSUME NEW dq \in Seq(Records), NEW r \in Records, Capped(dq)
  PROVE  /\ Pushed(dq, r) \in Seq(Records) /\ Capped(Pushed(dq, r))
         /\ Len(Pushed(dq, r)) \in Nat /\ Len(Pushed(dq, r)) <= Len(dq) + 1
         /\ \A b \in Nat : b < Len(Pushed(dq, r)) =>
              Back(Pushed(dq, r), b) = IF b = 0 THEN r ELSE Back(dq, b - 1)
         /\ \A b \in Nat : b < Len(dq) + 1 /\ b < Cap => b < Len(Pushed(dq, r))
<1> DEFINE a == Append(dq, r)
           p == Pushed(dq, r)
           n == Len(dq)
<1>1. n \in Nat /\ Cap \in Int
  BY LenProperties, EngineAssumption DEF Cap
<1>2. /\ a \in Seq(Records) /\ a # <<>> /\ Len(a) = n + 1
      /\ \A i \in 1 .. n : a[i] = dq[i]
      /\ a[n + 1] = r
  BY AppendProperties
<1>3. dq = <<>> <=> n = 0
  BY EmptySeq
<1>4. CASE n + 1 > Cap
  <2>1. p = Tail(a)
    BY <1>2, <1>4 DEF Pushed
  <2> HIDE DEF a, p
  <2>2. /\ p \in Seq(Records) /\ Len(p) = n
        /\ \A i \in 1 .. n : p[i] = a[i + 1]
    BY <1>1, <1>2, <2>1, HeadTailProperties
  <2>3. p = <<>> <=> n = 0
    BY <2>2, EmptySeq
  <2>4. ASSUME NEW b \in Nat, b < n
        PROVE  Back(p, b) = IF b = 0 THEN r ELSE Back(dq, b - 1)
    <3>1. n - b \in 1 .. n /\ Back(p, b) = a[(n - b) + 1]
      BY <1>1, <2>2, <2>4 DEF Back
    <3>2. CASE b = 0
      BY <3>1, <3>2, <1>1, <1>2
    <3>3. CASE b # 0
      <4>1. (n - b) + 1 \in 1 .. n /\ (n - b) + 1 = n - (b - 1)
        BY <3>3, <3>1, <1>1
      <4> QED
        BY <4>1, <3>1, <3>3, <1>2 DEF Back
    <3> QED
      BY <3>2, <3>3
  <2> QED
    BY <1>1, <1>3, <1>4, <2>2, <2>3, <2>4 DEF Capped, p
<1>5. CASE ~ (n + 1 > Cap)
  <2>1. p = a
    BY <1>2, <1>5 DEF Pushed
  <2> HIDE DEF a, p
  <2>2. ASSUME NEW b \in Nat, b < n + 1
        PROVE  Back(p, b) = IF b = 0 THEN r ELSE Back(dq, b - 1)
    <3>1. Back(p, b) = a[(n + 1) - b]
      BY <1>2, <2>1 DEF Back
    <3>2. CASE b = 0
      BY <3>1, <3>2, <1>1, <1>2
    <3>3. CASE b # 0
      <4>1. (n + 1) - b \in 1 .. n /\ (n + 1) - b = n - (b - 1)
        BY <3>3, <2>2, <1>1
      <4> QED
        BY <4>1, <3>1, <3>3, <1>2 DEF Back
    <3> QED
      BY <3>2, <3>3
  <2> QED
    BY <1>1, <1>2, <1>5, <2>1, <2>2 DEF Capped, p
<1> QED
  BY <1>4, <1>5

LEMMA FreshBack ==
  ASSUME NEW dq \in Seq(Records), NEW now \in Int, Capped(dq)
  PROVE  LET f == Fresh(dq, now, Span)
         IN  /\ f \in Seq(Records) /\ Capped(f)
             /\ Len(f) \in Nat /\ Len(f) <= Len(dq)
             /\ \A b \in Nat : b < Len(f) => Back(f, b) = Back(dq, b)
             /\ \A b \in Nat : b < Len(dq) /\ now - Back(dq, b).ts <= Span => b < Len(f)
             /\ f # <<>> => now - f[1].ts <= Span
<1> DEFINE f == Fresh(dq, now, Span)
           n == Len(dq)
           kept == {i \in DOMAIN dq : now - dq[i].ts <= Span}
<1>1. n \in Nat /\ DOMAIN dq = 1 .. n /\ Cap \in Int
  BY LenProperties, EngineAssumption DEF Cap
<1>2. ASSUME NEW b \in Nat, b < n, now - Back(dq, b).ts <= Span
      PROVE  n - b \in kept
  BY <1>1, <1>2 DEF Back
<1>3. CASE kept = {}
  <2>1. f = <<>>
    BY <1>3 DEF Fresh
  <2> HIDE DEF f, kept
  <2>2. Len(f) = 0 /\ f \in Seq(Records)
    BY <2>1
  <2> QED
    BY <1>1, <1>2, <1>3, <2>1, <2>2 DEF Capped, f
<1>4. CASE kept # {}
  <2> DEFINE m == Min(kept)
  <2>1. m \in kept /\ \A i \in kept : m <= i
    <3>1. kept \subseteq Nat
      BY <1>1
    <3>2. \E x \in kept : \A y \in kept : x <= y
      BY <3>1, <1>4, LeastNatural
    <3> QED
      BY <3>2 DEF Min
  <2>2. f = SubSeq(dq, m, n)
    BY <1>4 DEF Fresh
  <2>3. m \in 1 .. n /\ now - dq[m].ts <= Span
    BY <2>1, <1>1
  <2> HIDE DEF f, kept, m
  <2>4. /\ f \in Seq(Records) /\ Len(f) = n - m + 1
        /\ \A i \in 1 .. n - m + 1 : f[i] = dq[m + i - 1]
    <3>1. \A i \in m .. n : dq[i] \in Records
      BY <1>1, <2>3, ElementOfSeq
    <3> QED
      BY <3>1, <2>2, <2>3, <1>1, SubSeqProperties
  <2>5. ASSUME NEW b \in Nat, b < Len(f) PROVE Back(f, b) = Back(dq, b)
    <3>1. (n - m + 1) - b \in 1 .. n - m + 1 /\ m + ((n - m + 1) - b) - 1 = n - b
      BY <1>1, <2>3, <2>4, <2>5
    <3>2. Back(f, b) = f[(n - m + 1) - b]
      BY <2>4 DEF Back
    <3> QED
      BY <3>1, <3>2, <2>4 DEF Back
  <2>6. ASSUME NEW b \in Nat, b < n, now - Back(dq, b).ts <= Span PROVE b < Len(f)
    <3>1. m <= n - b
      BY <1>2, <2>1, <2>6
    <3> QED
      BY <3>1, <2>3, <2>4, <1>1
  <2>7. f[1] = dq[m]
    BY <2>3, <2>4, <1>1
  <2>8. dq # <<>>
    BY <1>1, <2>3, EmptySeq
  <2>9. Len(f) \in Nat /\ Len(f) <= n
    BY <1>1, <2>3, <2>4
  <2>10. Capped(f)
    BY <1>1, <2>8, <2>9 DEF Capped
  <2> QED
    BY <2>3, <2>4, <2>5, <2>6, <2>7, <2>9, <2>10 DEF f
<1> QED
  BY <1>3, <1>4

-----------------------------------------------------------------------------
(* What one more record does to the places in the log. *)

Behind(log, i, ip) == Cardinality(Later(log, i, ip))

LEMMA LaterFinite ==
  ASSUME NEW log \in Seq(Records), NEW i \in DOMAIN log, NEW ip
  PROVE  /\ IsFiniteSet(Later(log, i, ip)) /\ Behind(log, i, ip) \in Nat
         /\ Later(log, i, ip) \subseteq DOMAIN log
<1>1. Len(log) \in Nat /\ DOMAIN log = 1 .. Len(log) /\ i \in Nat
  BY LenProperties
<1>2. IsFiniteSet(i + 1 .. Len(log))
  BY <1>1, FS_Interval
<1>3. Later(log, i, ip) \in SUBSET (i + 1 .. Len(log))
  BY DEF Later
<1>4. IsFiniteSet(Later(log, i, ip))
  BY <1>2, <1>3, FS_Subset
<1> QED
  BY <1>1, <1>3, <1>4, FS_CardinalityType DEF Behind

Grown(L, log, r, ip) ==
  LET n == Len(log)
  IN  /\ L \in Seq(Records) /\ DOMAIN L = 1 .. n + 1 /\ Len(L) = n + 1
      /\ n \in Nat /\ DOMAIN log = 1 .. n /\ L[n + 1] = r
      /\ \A i \in 1 .. n : /\ L[i] = log[i]
                           /\ Behind(L, i, ip) = Behind(log, i, ip)
                                + (IF log[i][ip] = r[ip] THEN 1 ELSE 0)
      /\ Behind(L, n + 1, ip) = 0

LEMMA LaterOfAppend ==
  ASSUME NEW log \in Seq(Records), NEW r \in Records, NEW ip
  PROVE  Grown(Append(log, r), log, r, ip)
<1> DEFINE L == Append(log, r)
           n == Len(log)
<1>1. /\ L \in Seq(Records) /\ DOMAIN L = 1 .. n + 1 /\ Len(L) = n + 1
      /\ n \in Nat /\ DOMAIN log = 1 .. n /\ L[n + 1] = r
      /\ \A i \in 1 .. n : L[i] = log[i]
  BY AppendProperties, LenProperties
<1> HIDE DEF L, n
<1>2. ASSUME NEW i \in 1 .. n
      PROVE  Behind(L, i, ip) = Behind(log, i, ip) + (IF log[i][ip] = r[ip] THEN 1 ELSE 0)
  <2>1. IsFiniteSet(Later(log, i, ip)) /\ Behind(log, i, ip) \in Nat
    BY <1>1, LaterFinite
  <2>2. n + 1 \notin Later(log, i, ip)
    BY <1>1 DEF Later
  <2>3. CASE log[i][ip] = r[ip]
    <3>1. Later(L, i, ip) = Later(log, i, ip) \cup {n + 1}
      <4>1. i + 1 .. n + 1 = (i + 1 .. n) \cup {n + 1}
        BY <1>1
      <4>2. L[i] = log[i] /\ \A j \in i + 1 .. n : L[j] = log[j]
        BY <1>1
      <4>3. L[n + 1][ip] = L[i][ip]
        BY <1>1, <2>3, <4>2
      <4>4. Later(L, i, ip) = {j \in (i + 1 .. n) \cup {n + 1} : L[j][ip] = L[i][ip]}
        BY <1>1, <4>1 DEF Later
      <4>5. Later(log, i, ip) = {j \in i + 1 .. n : L[j][ip] = L[i][ip]}
        BY <1>1, <4>2 DEF Later
      <4> QED
        BY <4>3, <4>4, <4>5
    <3>2. Cardinality(Later(log, i, ip) \cup {n + 1}) = Cardinality(Later(log, i, ip)) + 1
      BY <2>1, <2>2, FS_AddElement
    <3> QED
      BY <2>3, <3>1, <3>2 DEF Behind
  <2>4. CASE log[i][ip] # r[ip]
    <3>1. Later(L, i, ip) = Later(log, i, ip)
      BY <1>1, <2>4 DEF Later
    <3> QED
      BY <2>1, <2>4, <3>1 DEF Behind
  <2> QED
    BY <2>3, <2>4
<1>3. Behind(L, n + 1, ip) = 0
  <2>1. Later(L, n + 1, ip) = {}
    BY <1>1 DEF Later
  <2> QED
    BY <2>1, FS_EmptySet DEF Behind
<1> QED
  BY <1>1, <1>2, <1>3 DEF Grown, L, n

(* Of two records of an address the earlier has more behind it. *)
LEMMA EarlierHasMore ==
  ASSUME NEW log \in Seq(Records), NEW ip,
         NEW i \in DOMAIN log, NEW j \in Later(log, i, ip)
  PROVE  j \in DOMAIN log /\ Behind(log, j, ip) < Behind(log, i, ip)
<1>1. /\ Len(log) \in Nat /\ DOMAIN log = 1 .. Len(log)
      /\ i \in Nat /\ j \in i + 1 .. Len(log) /\ log[j][ip] = log[i][ip]
  BY LenProperties DEF Later
<1>2. j \in DOMAIN log
  BY <1>1
<1>3. Later(log, j, ip) \in SUBSET Later(log, i, ip) /\ j \notin Later(log, j, ip)
  BY <1>1 DEF Later
<1>4. IsFiniteSet(Later(log, i, ip)) /\ Behind(log, i, ip) \in Nat /\ Behind(log, j, ip) \in Nat
  BY <1>2, LaterFinite
<1>5. Behind(log, j, ip) <= Behind(log, i, ip)
  BY <1>3, <1>4, FS_Subset DEF Behind
<1>6. Behind(log, j, ip) # Behind(log, i, ip)
  BY <1>3, <1>4, FS_Subset DEF Behind
<1> QED
  BY <1>2, <1>4, <1>5, <1>6

-----------------------------------------------------------------------------
(* A window against the log that was fed to it. *)

(* What the log has is in the deque, at its place, if the deque is so long. *)
Placed(win, log, ip) ==
  \A i \in DOMAIN log :
    Behind(log, i, ip) < Len(get(win, log[i][ip])) =>
      Back(get(win, log[i][ip]), Behind(log, i, ip)) = log[i]
(* What a deque has is from the log. *)
FromLog(win, log, ip) ==
  \A k \in {r[ip] : r \in Records} : \A b \in 0 .. Len(get(win, k)) - 1 :
    \E i \in DOMAIN log : log[i][ip] = k /\ Behind(log, i, ip) = b
(* What is due is in the deque, and its oldest record is within the span. *)
DueKept(win, log, ip) ==
  \A i \in DOMAIN log : Due(log, i, ip) => Behind(log, i, ip) < Len(get(win, log[i][ip]))
FrontFresh(win, log, ip) ==
  \A k \in {r[ip] : r \in Records} :
    get(win, k) # <<>> => log[Len(log)].ts - get(win, k)[1].ts <= Span

Follows(win, log, ip) ==
  /\ WindowOK(win)
  /\ Placed(win, log, ip) /\ FromLog(win, log, ip)
  /\ DueKept(win, log, ip) /\ FrontFresh(win, log, ip)

LEMMA GetOK ==
  ASSUME NEW win, WindowOK(win), NEW k
  PROVE  get(win, k) \in Seq(Records) /\ Capped(get(win, k)) /\ Len(get(win, k)) \in Nat
<1>1. get(win, k) \in Seq(Records) /\ Capped(get(win, k))
  BY DEF WindowOK, get, At, Capped
<1> QED
  BY <1>1, LenProperties

(* add() and evict(), of one record, on the deque of any key: mid is the    *)
(* deque between them.                                                      *)
Turned(dq, mid, r) ==
  /\ mid \in Seq(Records) /\ Capped(mid) /\ Len(mid) \in Nat
  /\ dq \in Seq(Records) /\ Capped(dq)
  /\ Len(dq) \in Nat /\ Len(dq) <= Len(mid)
  /\ \A b \in Nat : b < Len(dq) => Back(dq, b) = Back(mid, b)
  /\ \A b \in Nat : b < Len(mid) /\ r.ts - Back(mid, b).ts <= Span => b < Len(dq)
  /\ dq # <<>> => r.ts - dq[1].ts <= Span

LEMMA OneMore ==
  ASSUME NEW win, WindowOK(win), NEW r \in Records, NEW key, NEW k
  PROVE  Turned(get(Evict(Add(win, r, key), r.ts), k),
                IF k = key THEN Pushed(get(win, key), r) ELSE get(win, k), r)
<1> DEFINE mid == IF k = key THEN Pushed(get(win, key), r) ELSE get(win, k)
           dq == get(Evict(Add(win, r, key), r.ts), k)
<1>1. get(win, k) \in Seq(Records) /\ Capped(get(win, k)) /\ Len(get(win, k)) \in Nat
  BY GetOK
<1>2. mid \in Seq(Records) /\ Capped(mid) /\ Len(mid) \in Nat
  BY <1>1, PushedBack
<1>3. dq = Fresh(mid, r.ts, Span)
  <2>1. get(Add(win, r, key), k) = mid
    BY GetOfAdd
  <2> QED
    BY <2>1, GetOfEvict
<1>4. r.ts \in Int
  BY EngineAssumption
<1> HIDE DEF mid, dq
<1>5. Turned(dq, mid, r)
  BY <1>2, <1>3, <1>4, FreshBack DEF Turned
<1> QED
  BY <1>5 DEF dq, mid

LEMMA AddEvictOK ==
  ASSUME NEW win, WindowOK(win), NEW r \in Records, NEW key
  PROVE  WindowOK(Evict(Add(win, r, key), r.ts))
<1> DEFINE new == Evict(Add(win, r, key), r.ts)
<1> SUFFICES ASSUME NEW k \in DOMAIN new
             PROVE  new[k] \in Seq(Records) /\ Capped(new[k])
  BY DEF WindowOK
<1>1. new[k] = get(new, k)
  BY DEF get, At
<1>2. get(new, k) \in Seq(Records) /\ Capped(get(new, k))
  BY OneMore DEF Turned
<1> QED
  BY <1>1, <1>2

LEMMA StepFollows ==
  ASSUME NEW win, NEW log \in Seq(Records), NEW ip, Follows(win, log, ip),
         NEW r \in Records
  PROVE  Follows(Evict(Add(win, r, r[ip]), r.ts), Append(log, r), ip)
<1> DEFINE L == Append(log, r)
           n == Len(log)
           new == Evict(Add(win, r, r[ip]), r.ts)
           mid(k) == IF k = r[ip] THEN Pushed(get(win, k), r) ELSE get(win, k)
<1>l. L = Append(log, r) /\ n = Len(log)
  OBVIOUS
<1> HIDE DEF L, n
<1>1. /\ L \in Seq(Records) /\ DOMAIN L = 1 .. n + 1 /\ Len(L) = n + 1
      /\ n \in Nat /\ DOMAIN log = 1 .. n /\ L[n + 1] = r
      /\ \A i \in 1 .. n : /\ L[i] = log[i]
                           /\ Behind(L, i, ip) = Behind(log, i, ip)
                                + (IF log[i][ip] = r[ip] THEN 1 ELSE 0)
      /\ Behind(L, n + 1, ip) = 0
  <2>1. Grown(L, log, r, ip)
    BY <1>l, LaterOfAppend
  <2> QED
    BY <2>1, <1>l DEF Grown
<1>2. \A i \in 1 .. n : Behind(log, i, ip) \in Nat /\ Behind(L, i, ip) \in Nat
  <2> TAKE i \in 1 .. n
  <2>1. i \in DOMAIN log /\ i \in DOMAIN L
    BY <1>1
  <2> QED
    BY <2>1, <1>1, LaterFinite
<1>3. \A k : /\ get(win, k) \in Seq(Records) /\ Capped(get(win, k)) /\ Len(get(win, k)) \in Nat
  BY GetOK DEF Follows
<1>4. ASSUME NEW k
      PROVE  /\ Len(mid(k)) \in Nat
             /\ Len(get(new, k)) \in Nat /\ Len(get(new, k)) <= Len(mid(k))
             /\ \A b \in Nat : b < Len(get(new, k)) => Back(get(new, k), b) = Back(mid(k), b)
             /\ \A b \in Nat : b < Len(mid(k)) /\ r.ts - Back(mid(k), b).ts <= Span
                                 => b < Len(get(new, k))
             /\ get(new, k) # <<>> => r.ts - get(new, k)[1].ts <= Span
  <2>1. WindowOK(win)
    BY DEF Follows
  <2>2. Turned(get(new, k), mid(k), r)
    <3>1. CASE k = r[ip]
      BY <2>1, <3>1, OneMore
    <3>2. CASE k # r[ip]
      BY <2>1, <3>2, OneMore
    <3> QED
      BY <3>1, <3>2
  <2> HIDE DEF mid, new
  <2> QED
    BY <2>2 DEF Turned
<1>5. LET k == r[ip]
      IN  /\ Len(mid(k)) <= Len(get(win, k)) + 1
          /\ \A b \in Nat : b < Len(mid(k)) =>
               Back(mid(k), b) = IF b = 0 THEN r ELSE Back(get(win, k), b - 1)
          /\ \A b \in Nat : b < Len(get(win, k)) + 1 /\ b < Cap => b < Len(mid(k))
  BY <1>3, PushedBack
<1>6. \A k : k # r[ip] => mid(k) = get(win, k)
  OBVIOUS
<1> HIDE DEF new, mid
(* The i-th record before and after, in the deque of its own address. *)
<1>7. ASSUME NEW i \in 1 .. n,
             Behind(L, i, ip) < Len(mid(log[i][ip]))
      PROVE  /\ Behind(log, i, ip) < Len(get(win, log[i][ip]))
             /\ Back(mid(log[i][ip]), Behind(L, i, ip)) = log[i]
  <2> DEFINE c == Behind(log, i, ip)
             k == log[i][ip]
  <2>1. c < Len(get(win, k)) => Back(get(win, k), c) = log[i]
    BY <1>1 DEF Follows, Placed
  <2>2. CASE k = r[ip]
    <3>1. Behind(L, i, ip) = c + 1 /\ c \in Nat
      BY <1>1, <1>2, <2>2
    <3>2. c < Len(get(win, k))
      BY <3>1, <1>3, <1>4, <1>5, <1>7, <2>2
    <3>3. Back(mid(k), c + 1) = Back(get(win, k), c)
      BY <3>1, <1>5, <1>7, <2>2
    <3> QED
      BY <2>1, <3>1, <3>2, <3>3
  <2>3. CASE k # r[ip]
    BY <2>1, <2>3, <1>1, <1>2, <1>6, <1>7
  <2> QED
    BY <2>2, <2>3
<1>8. Placed(new, L, ip)
  <2> SUFFICES ASSUME NEW i \in 1 .. n + 1, Behind(L, i, ip) < Len(get(new, L[i][ip]))
               PROVE  Back(get(new, L[i][ip]), Behind(L, i, ip)) = L[i]
    BY <1>1 DEF Placed
  <2>1. CASE i \in 1 .. n
    <3>1. L[i] = log[i] /\ Behind(L, i, ip) \in Nat
      BY <2>1, <1>1, <1>2
    <3>2. Behind(L, i, ip) < Len(mid(log[i][ip]))
      BY <3>1, <1>4
    <3> QED
      BY <3>1, <3>2, <2>1, <1>4, <1>7
  <2>2. CASE i = n + 1
    <3>1. L[i] = r /\ Behind(L, i, ip) = 0 /\ 0 < Len(get(new, r[ip]))
      BY <2>2, <1>1
    <3>2. 0 < Len(mid(r[ip]))
      BY <3>1, <1>4
    <3>3. Back(mid(r[ip]), 0) = r
      BY <3>2, <1>5
    <3> QED
      BY <3>1, <3>3, <1>4
  <2> QED
    BY <2>1, <2>2, <1>1
<1>9. FromLog(new, L, ip)
  <2> SUFFICES ASSUME NEW k \in {x[ip] : x \in Records}, NEW b \in 0 .. Len(get(new, k)) - 1
               PROVE  \E i \in DOMAIN L : L[i][ip] = k /\ Behind(L, i, ip) = b
    BY Zenon DEF FromLog
  <2>1. b \in Nat /\ b < Len(mid(k))
    BY <1>4
  <2>2. \A c \in 0 .. Len(get(win, k)) - 1 :
          \E i \in 1 .. n : log[i][ip] = k /\ Behind(log, i, ip) = c
    BY <1>1 DEF Follows, FromLog
  <2>3. CASE k = r[ip] /\ b = 0
    BY <2>3, <1>1
  <2>4. CASE k = r[ip] /\ b # 0
    <3>1. b - 1 \in 0 .. Len(get(win, k)) - 1
      BY <2>1, <2>4, <1>3, <1>4, <1>5
    <3>2. PICK i \in 1 .. n : log[i][ip] = k /\ Behind(log, i, ip) = b - 1
      BY <2>2, <3>1
    <3>3. L[i][ip] = k /\ Behind(L, i, ip) = b
      BY <3>2, <2>1, <2>4, <1>1
    <3> QED
      BY <3>3, <1>1
  <2>5. CASE k # r[ip]
    <3>1. b \in 0 .. Len(get(win, k)) - 1
      BY <2>1, <2>5, <1>3, <1>6
    <3>2. PICK i \in 1 .. n : log[i][ip] = k /\ Behind(log, i, ip) = b
      BY <2>2, <3>1
    <3>3. L[i][ip] = k /\ Behind(L, i, ip) = b
      BY <3>2, <2>1, <2>5, <1>1
    <3> QED
      BY <3>3, <1>1
  <2> QED
    BY <2>3, <2>4, <2>5
<1>10. DueKept(new, L, ip)
  <2> SUFFICES ASSUME NEW i \in 1 .. n + 1, Due(L, i, ip)
               PROVE  Behind(L, i, ip) < Len(get(new, L[i][ip]))
    BY <1>1 DEF DueKept
  <2>1. Behind(L, i, ip) < Cap /\ \A m \in 1 .. n + 1 : L[m].ts - L[i].ts <= Span
    BY <1>1 DEF Due, Behind, Cap, Span
  <2>2. r.ts - L[i].ts <= Span
    BY <2>1, <1>1
  <2>3. CASE i \in 1 .. n
    <3> DEFINE k == log[i][ip]
               c == Behind(log, i, ip)
    <3>1. L[i] = log[i] /\ c \in Nat /\ Behind(L, i, ip) \in Nat
      BY <2>3, <1>1, <1>2
    <3>2. Due(log, i, ip)
      <4>1. c <= Behind(L, i, ip)
        BY <2>3, <1>1, <3>1
      <4>2. c < Cap
        BY <4>1, <2>1, <3>1, EngineAssumption DEF Cap
      <4>3. \A m \in 1 .. n : log[m].ts - log[i].ts <= Span
        BY <2>1, <3>1, <1>1
      <4> QED
        BY <4>2, <4>3, <1>1 DEF Due, Behind, Cap, Span
    <3>3. c < Len(get(win, k))
      BY <3>2, <2>3, <1>1 DEF Follows, DueKept
    <3>4. Behind(L, i, ip) < Len(mid(k))
      <4>1. CASE k = r[ip]
        <5>1. Behind(L, i, ip) = c + 1
          BY <4>1, <2>3, <1>1
        <5> QED
          BY <4>1, <5>1, <3>1, <3>3, <2>1, <1>3, <1>5
      <4>2. CASE k # r[ip]
        <5>1. Behind(L, i, ip) = c
          BY <4>2, <2>3, <1>1, <3>1
        <5> QED
          BY <4>2, <5>1, <3>3, <1>6
      <4> QED
        BY <4>1, <4>2
    <3>5. Back(mid(k), Behind(L, i, ip)) = log[i]
      BY <3>4, <2>3, <1>7
    <3> QED
      BY <3>1, <3>4, <3>5, <2>2, <1>4
  <2>4. CASE i = n + 1
    <3>1. L[i] = r /\ Behind(L, i, ip) = 0
      BY <2>4, <1>1
    <3>2. 0 < Len(mid(r[ip]))
      BY <3>1, <2>1, <1>3, <1>5
    <3>3. Back(mid(r[ip]), 0) = r
      BY <3>2, <1>5
    <3> QED
      BY <3>1, <3>2, <3>3, <2>2, <1>4
  <2> QED
    BY <2>3, <2>4, <1>1
<1>11. FrontFresh(new, L, ip)
  BY <1>1, <1>4 DEF FrontFresh
<1>12. WindowOK(new)
  BY AddEvictOK DEF Follows, new
<1> QED
  BY <1>8, <1>9, <1>10, <1>11, <1>12 DEF Follows, new, L

-----------------------------------------------------------------------------
(* The windows of every live engine follow what it was fed. *)

Fields == {"rules", "by_src_", "by_dst_", "win_", "stats"}

WindowsInv ==
  /\ DOMAIN engines \subseteq Slots /\ DOMAIN fed = DOMAIN engines
  /\ last \in DOMAIN engines \cup {None}
  /\ \A s \in DOMAIN engines :
       /\ DOMAIN engines[s] = Fields /\ fed[s] \in Seq(Records)
       /\ \A ip \in Ips : Follows(WindowBy(engines[s], ip), fed[s], ip)

LEMMA NothingFollows ==
  ASSUME NEW ip PROVE Follows(<<>>, <<>>, ip)
<1>1. \A k : get(<<>>, k) = <<>>
  BY DEF get, At
<1>2. Len(<<>>) = 0 /\ DOMAIN <<>> = {}
  OBVIOUS
<1>3. WindowOK(<<>>) /\ Placed(<<>>, <<>>, ip) /\ DueKept(<<>>, <<>>, ip)
  BY <1>2 DEF WindowOK, Placed, DueKept
<1>4. FromLog(<<>>, <<>>, ip) /\ FrontFresh(<<>>, <<>>, ip)
  <2>1. \A k : 0 .. Len(get(<<>>, k)) - 1 = {}
    BY <1>1, <1>2
  <2> QED
    BY <1>1, <2>1 DEF FromLog, FrontFresh
<1> QED
  BY <1>3, <1>4 DEF Follows

LEMMA NewEngineFields ==
  ASSUME NEW rules
  PROVE  LET e == NewEngine(rules)
         IN  /\ DOMAIN e = Fields /\ e.rules = rules /\ e.win_ = <<>> /\ e.stats = <<>>
             /\ \A ip : WindowBy(e, ip) = <<>>
BY DEF NewEngine, Fields, WindowBy

LEMMA FeedEngineFields ==
  ASSUME NEW e, DOMAIN e = Fields, NEW r, NEW n
  PROVE  LET f == FeedEngine(e, r, n)
         IN  /\ DOMAIN f = Fields /\ f.rules = e.rules
             /\ f.win_ = FeedRules(e.win_, e.rules, r).win
             /\ f.stats = With(e.stats, r.src_ip,
                               Welford(At(e.stats, r.src_ip, NoStats), n, r.bytes))
             /\ \A ip \in Ips : WindowBy(f, ip) = Evict(Add(WindowBy(e, ip), r, r[ip]), r.ts)
BY DEF FeedEngine, Fields, WindowBy, Ips

(* What each action does to the engines and to their logs. *)
LEMMA FeedEffect ==
  ASSUME WindowsInv, NEW s, NEW r, Feed(s, r)
  PROVE  /\ s \in DOMAIN engines /\ DOMAIN engines' = DOMAIN engines
         /\ engines'[s] = FeedEngine(engines[s], r, count[r.src_ip] + 1)
         /\ fed'[s] = Append(fed[s], r) /\ DOMAIN fed' = DOMAIN fed
         /\ \A t \in DOMAIN engines : t # s => engines'[t] = engines[t] /\ fed'[t] = fed[t]
         /\ last' = s
BY DEF Feed, WindowsInv

LEMMA NewEffect ==
  ASSUME WindowsInv, NEW s, New(s)
  PROVE  /\ DOMAIN engines' = DOMAIN engines \cup {s} /\ DOMAIN fed' = DOMAIN fed \cup {s}
         /\ engines'[s] = NewEngine(<<>>) /\ fed'[s] = <<>> /\ s \notin DOMAIN engines
         /\ \A t \in DOMAIN engines : engines'[t] = engines[t] /\ fed'[t] = fed[t]
         /\ last' = None
BY DEF New, With, Quiet, WindowsInv

LEMMA FreeEffect ==
  ASSUME WindowsInv, NEW s, Free(s)
  PROVE  /\ DOMAIN engines' = DOMAIN engines \ {s} /\ DOMAIN fed' = DOMAIN fed \ {s}
         /\ \A t \in DOMAIN engines \ {s} : engines'[t] = engines[t] /\ fed'[t] = fed[t]
         /\ last' = None
BY DEF Free, Quiet, WindowsInv

LEMMA InitEffect ==
  ASSUME Init
  PROVE  /\ DOMAIN engines \subseteq Slots /\ DOMAIN fed = DOMAIN engines /\ last = None
         /\ \A s \in DOMAIN engines : /\ fed[s] = <<>>
                                      /\ \E rules : engines[s] = NewEngine(rules)
<1>1. CASE engines = <<>> /\ fed = <<>>
  BY <1>1 DEF Init
<1>2. ASSUME NEW f \in RuleFiles, NEW s \in Slots,
             engines = [t \in {s} |-> NewEngine([i \in DOMAIN f |-> Rule(f[i])])],
             fed = [t \in {s} |-> <<>>]
      PROVE  /\ DOMAIN engines = {s} /\ DOMAIN fed = {s} /\ fed[s] = <<>>
             /\ \E rules : engines[s] = NewEngine(rules)
  <2> DEFINE rules == [i \in DOMAIN f |-> Rule(f[i])]
  <2> HIDE DEF rules
  <2>1. engines[s] = NewEngine(rules)
    BY <1>2 DEF rules
  <2> QED
    BY <1>2, <2>1
<1>3. last = None
  BY DEF Init
<1>4. \/ engines = <<>> /\ fed = <<>>
      \/ \E f \in RuleFiles : \E s \in Slots :
           /\ engines = [t \in {s} |-> NewEngine([i \in DOMAIN f |-> Rule(f[i])])]
           /\ fed = [t \in {s} |-> <<>>]
  BY DEF Init
<1> QED
  BY <1>1, <1>2, <1>3, <1>4

LEMMA WindowsInvariant == Spec => []WindowsInv
<1>1. Init => WindowsInv
  <2> SUFFICES ASSUME Init PROVE WindowsInv
    OBVIOUS
  <2>1. ASSUME NEW s \in DOMAIN engines
        PROVE  /\ DOMAIN engines[s] = Fields /\ fed[s] \in Seq(Records)
               /\ \A ip \in Ips : Follows(WindowBy(engines[s], ip), fed[s], ip)
    <3>1. fed[s] = <<>>
      BY InitEffect
    <3>2. PICK rules : engines[s] = NewEngine(rules)
      BY InitEffect
    <3> QED
      BY <3>1, <3>2, NewEngineFields, NothingFollows
  <2>2. /\ DOMAIN engines \subseteq Slots /\ DOMAIN fed = DOMAIN engines
        /\ last = None
    BY InitEffect
  <2> QED
    BY <2>1, <2>2 DEF WindowsInv
<1>2. WindowsInv /\ [Next]_vars => WindowsInv'
  <2> SUFFICES ASSUME WindowsInv, [Next]_vars PROVE WindowsInv'
    OBVIOUS
  <2>1. ASSUME NEW s \in Slots, New(s) PROVE WindowsInv'
    <3>1. engines'[s] = NewEngine(<<>>) /\ fed'[s] = <<>>
      BY <2>1, NewEffect
    <3>2. DOMAIN engines'[s] = Fields /\ fed'[s] \in Seq(Records)
      BY <3>1, NewEngineFields
    <3>3. ASSUME NEW ip PROVE Follows(WindowBy(engines'[s], ip), fed'[s], ip)
      <4>1. WindowBy(engines'[s], ip) = <<>>
        BY <3>1, NewEngineFields
      <4> QED
        BY <3>1, <4>1, NothingFollows
    <3>4. /\ DOMAIN engines' = DOMAIN engines \cup {s} /\ DOMAIN fed' = DOMAIN fed \cup {s}
          /\ \A t \in DOMAIN engines : engines'[t] = engines[t] /\ fed'[t] = fed[t]
          /\ last' = None
      BY <2>1, NewEffect, Zenon
    <3>5. ASSUME NEW t \in DOMAIN engines'
          PROVE  /\ DOMAIN engines'[t] = Fields /\ fed'[t] \in Seq(Records)
                 /\ \A ip \in Ips : Follows(WindowBy(engines'[t], ip), fed'[t], ip)
      BY <3>2, <3>3, <3>4 DEF WindowsInv
    <3> QED
      BY <3>4, <3>5 DEF WindowsInv
  <2>2. ASSUME NEW s \in Slots, NEW r \in Records, Feed(s, r) PROVE WindowsInv'
    <3>1. /\ DOMAIN engines'[s] = Fields
          /\ \A ip \in Ips : WindowBy(engines'[s], ip)
                               = Evict(Add(WindowBy(engines[s], ip), r, r[ip]), r.ts)
      BY <2>2, FeedEffect, FeedEngineFields DEF WindowsInv
    <3>f. s \in DOMAIN engines /\ fed'[s] = Append(fed[s], r)
      BY <2>2, FeedEffect
    <3>w. fed[s] \in Seq(Records) /\ \A ip \in Ips : Follows(WindowBy(engines[s], ip), fed[s], ip)
      BY <3>f DEF WindowsInv
    <3>2. \A ip \in Ips : Follows(WindowBy(engines'[s], ip), fed'[s], ip)
      BY <3>1, <3>f, <3>w, StepFollows
    <3>3. fed'[s] \in Seq(Records)
      BY <3>f, <3>w, AppendProperties
    <3> QED
      BY <2>2, <3>1, <3>2, <3>3, FeedEffect DEF WindowsInv
  <2>3. ASSUME NEW s \in Slots, Free(s) PROVE WindowsInv'
    BY <2>3, FreeEffect DEF WindowsInv
  <2>4. CASE UNCHANGED vars
    BY <2>4 DEF vars, WindowsInv
  <2> QED
    BY <2>1, <2>2, <2>3, <2>4 DEF Next
<1> QED
  BY <1>1, <1>2, PTL DEF Spec

(* In whatever order records come and however engines share the process, a  *)
(* record that is due is in its deque, with those after it.                 *)
THEOREM RecentKept == Spec => []KeepsRecent
<1>1. WindowsInv => KeepsRecent
  <2> SUFFICES ASSUME WindowsInv, NEW s \in DOMAIN fed, NEW ip \in Ips,
                      NEW i \in DOMAIN fed[s], Due(fed[s], i, ip),
                      NEW j \in Later(fed[s], i, ip) \cup {i}
               PROVE  InPlace(get(WindowBy(engines[s], ip), fed[s][i][ip]), fed[s], j, ip)
    BY DEF KeepsRecent
  <2> DEFINE log == fed[s]
             win == WindowBy(engines[s], ip)
  <2>1. log \in Seq(Records) /\ Follows(win, log, ip)
    BY DEF WindowsInv
  <2> HIDE DEF log, win
  <2>2. i \in DOMAIN log /\ j \in DOMAIN log /\ log[j][ip] = log[i][ip]
    BY <2>1, EarlierHasMore DEF Later, log
  <2>3. Behind(log, j, ip) <= Behind(log, i, ip) /\ Behind(log, j, ip) \in Nat
        /\ Behind(log, i, ip) \in Nat
    <3>1. CASE j = i
      BY <3>1, <2>1, <2>2, LaterFinite
    <3>2. CASE j \in Later(log, i, ip)
      BY <3>2, <2>1, <2>2, LaterFinite, EarlierHasMore
    <3> QED
      BY <3>1, <3>2 DEF log
  <2>4. Behind(log, i, ip) < Len(get(win, log[i][ip])) /\ Len(get(win, log[i][ip])) \in Nat
    BY <2>1, <2>2, GetOK DEF Follows, DueKept, log
  <2>5. Behind(log, j, ip) < Len(get(win, log[i][ip]))
    BY <2>3, <2>4
  <2>6. Back(get(win, log[i][ip]), Behind(log, j, ip)) = log[j]
    BY <2>1, <2>2, <2>5 DEF Follows, Placed
  <2> QED
    BY <2>5, <2>6 DEF InPlace, Back, Behind, log, win
<1> QED
  BY <1>1, WindowsInvariant, PTL

-----------------------------------------------------------------------------
(* After a feed, on a log in time order, the deque of the record's address  *)
(* is the records that are due, in the order of the log.                    *)

RecentOf(log, ip) == {i \in DOMAIN log : log[i][ip] = Last(log)[ip] /\ Due(log, i, ip)}
Place(win, log, ip) ==
  [i \in RecentOf(log, ip) |-> Len(get(win, Last(log)[ip])) - Behind(log, i, ip)]

LEMMA LastOfLog ==
  ASSUME NEW log \in Seq(Records), log # <<>>
  PROVE  /\ Len(log) \in Nat /\ Len(log) > 0 /\ DOMAIN log = 1 .. Len(log)
         /\ Len(log) \in DOMAIN log
         /\ Last(log) = log[Len(log)] /\ Last(log) \in Records
BY LenProperties, EmptySeq, ElementOfSeq DEF Last

LEMMA DueExactly ==
  ASSUME NEW win, NEW log \in Seq(Records), log # <<>>, InOrder(log),
         NEW ip, Follows(win, log, ip),
         NEW i \in DOMAIN log, log[i][ip] = Last(log)[ip],
         Behind(log, i, ip) < Len(get(win, Last(log)[ip]))
  PROVE  Due(log, i, ip)
<1> DEFINE r == Last(log)
           dq == get(win, r[ip])
           c == Behind(log, i, ip)
<1>1. /\ Len(log) \in Nat /\ Len(log) > 0 /\ DOMAIN log = 1 .. Len(log)
      /\ r = log[Len(log)] /\ r \in Records
  BY LastOfLog
<1>2. dq \in Seq(Records) /\ Capped(dq) /\ Len(dq) \in Nat
  BY GetOK DEF Follows
<1>3. c \in Nat /\ c < Len(dq)
  BY LaterFinite
<1>4. dq # <<>>
  BY <1>2, <1>3, EmptySeq
<1>5. c < Cap /\ r.ts - dq[1].ts <= Span
  <2>1. Len(dq) <= Cap
    BY <1>2, <1>4 DEF Capped
  <2>2. c < Cap
    BY <2>1, <1>2, <1>3, EngineAssumption DEF Cap
  <2>3. log[Len(log)].ts - dq[1].ts <= Span
    BY <1>1, <1>4 DEF Follows, FrontFresh
  <2> QED
    BY <2>2, <2>3, <1>1
<1> HIDE DEF r, dq, c
<1>6. PICK j \in DOMAIN log : log[j][ip] = r[ip] /\ Behind(log, j, ip) = Len(dq) - 1
  <2>1. Len(dq) - 1 \in 0 .. Len(dq) - 1 /\ r[ip] \in {x[ip] : x \in Records}
    BY <1>1, <1>2, <1>3
  <2> QED
    BY <2>1 DEF Follows, FromLog, dq
<1>7. log[j] = dq[1]
  <2>1. Len(dq) - 1 < Len(dq) /\ Len(dq) - (Len(dq) - 1) = 1
    BY <1>2
  <2> QED
    BY <2>1, <1>6 DEF Follows, Placed, Back, dq
<1>8. j <= i
  <2> SUFFICES ASSUME i < j PROVE FALSE
    BY <1>1
  <2>1. j \in Later(log, i, ip)
    BY <1>1, <1>6 DEF Later, r
  <2>2. Len(dq) - 1 < c
    BY <2>1, <1>6, EarlierHasMore DEF c
  <2> QED
    BY <2>2, <1>2, <1>3
<1>9. \A m \in DOMAIN log : log[m].ts - log[i].ts <= Span
  <2> TAKE m \in DOMAIN log
  <2>1. log[m].ts \in Int /\ log[i].ts \in Int /\ log[j].ts \in Int /\ r.ts \in Int
    BY <1>1, ElementOfSeq, EngineAssumption
  <2>2. log[m].ts <= r.ts
    BY <1>1 DEF InOrder
  <2>3. log[j].ts <= log[i].ts
    BY <1>8 DEF InOrder
  <2>4. r.ts - log[j].ts <= Span
    BY <1>5, <1>7
  <2>5. Span \in Int
    BY EngineAssumption DEF Span
  <2>6. \A a, b, d, e, f \in Int : a <= d /\ e <= b /\ d - e <= f => a - b <= f
    OBVIOUS
  <2> QED
    BY <2>1, <2>2, <2>3, <2>4, <2>5, <2>6, Zenon
<1> QED
  BY <1>5, <1>9 DEF Due, c, Behind, Cap, Span

(* g puts the indices R of the log in the places of the deque, in order. *)
Arranged(g, R, log, dq) ==
  /\ Len(log) \in Nat /\ R \subseteq 1 .. Len(log)
  /\ Len(dq) \in Nat /\ DOMAIN dq = 1 .. Len(dq)
  /\ g \in [R -> 1 .. Len(dq)]
  /\ \A i, j \in R : g[i] = g[j] => i = j
  /\ \A p \in 1 .. Len(dq) : \E i \in R : g[i] = p
  /\ \A i \in R : dq[g[i]] = log[i]
  /\ \A i, j \in R : i < j => g[i] < g[j]

LEMMA DequeIsRecent ==
  ASSUME NEW win, NEW log \in Seq(Records), log # <<>>, InOrder(log),
         NEW ip, Follows(win, log, ip)
  PROVE  Arranged(Place(win, log, ip), RecentOf(log, ip), log, get(win, Last(log)[ip]))
<1> DEFINE R == RecentOf(log, ip)
           k == Last(log)[ip]
           dq == get(win, k)
           g == Place(win, log, ip)
<1>1. /\ Len(log) \in Nat /\ Len(log) > 0 /\ DOMAIN log = 1 .. Len(log)
      /\ Last(log) = log[Len(log)] /\ Last(log) \in Records
  BY LastOfLog
<1>2. dq \in Seq(Records) /\ Len(dq) \in Nat
  BY GetOK DEF Follows
<1>3. \A i \in R : i \in DOMAIN log /\ log[i][ip] = k
  BY DEF RecentOf
<1>4. \A i \in R : Behind(log, i, ip) \in Nat
  BY <1>3, LaterFinite
<1>5. \A i \in R : Behind(log, i, ip) < Len(dq)
  BY <1>3 DEF RecentOf, Follows, DueKept
<1>6. \A i \in R : g[i] = Len(dq) - Behind(log, i, ip)
  BY DEF Place
<1>7. \A i, j \in R : i < j => g[i] < g[j]
  <2> SUFFICES ASSUME NEW i \in R, NEW j \in R, i < j PROVE g[i] < g[j]
    OBVIOUS
  <2>1. j \in Later(log, i, ip)
    BY <1>1, <1>3 DEF Later
  <2>2. Behind(log, j, ip) < Behind(log, i, ip)
    BY <2>1, <1>3, EarlierHasMore
  <2> HIDE DEF R, dq, g
  <2> QED
    BY <2>2, <1>2, <1>4, <1>6
<1>8. \A i \in R : dq[g[i]] = log[i]
  BY <1>3, <1>5, <1>6 DEF Follows, Placed, Back
<1>9. \A p \in 1 .. Len(dq) : \E i \in R : g[i] = p
  <2> SUFFICES ASSUME NEW p \in 1 .. Len(dq) PROVE \E i \in R : g[i] = p
    OBVIOUS
  <2>1. Len(dq) - p \in 0 .. Len(dq) - 1 /\ k \in {x[ip] : x \in Records}
    BY <1>1, <1>2
  <2>2. PICK i \in DOMAIN log : log[i][ip] = k /\ Behind(log, i, ip) = Len(dq) - p
    BY <2>1 DEF Follows, FromLog
  <2>3. Behind(log, i, ip) < Len(dq)
    BY <2>2, <1>2
  <2>4. i \in R
    BY <2>2, <2>3, DueExactly DEF RecentOf
  <2>5. g[i] = Len(dq) - (Len(dq) - p)
    BY <2>2, <2>4, <1>6
  <2> HIDE DEF R, g, dq
  <2>6. g[i] = p
    BY <2>5, <1>2
  <2> QED
    BY <2>4, <2>6
<1>10. g \in [R -> 1 .. Len(dq)]
  <2>1. \A i \in R : Len(dq) - Behind(log, i, ip) \in 1 .. Len(dq)
    BY <1>2, <1>4, <1>5
  <2> HIDE DEF dq
  <2> QED
    BY <2>1 DEF Place, dq
<1>11. \A i, j \in R : g[i] = g[j] => i = j
  <2> SUFFICES ASSUME NEW i \in R, NEW j \in R, i # j PROVE g[i] # g[j]
    OBVIOUS
  <2>1. i \in Nat /\ j \in Nat
    BY <1>1, <1>3
  <2>2. g[i] \in 1 .. Len(dq) /\ g[j] \in 1 .. Len(dq)
    BY <1>10
  <2> HIDE DEF g, R
  <2>3. CASE i < j
    BY <2>3, <2>2, <1>7
  <2>4. CASE j < i
    BY <2>4, <2>2, <1>7
  <2> QED
    BY <2>1, <2>3, <2>4
<1>12. R \subseteq 1 .. Len(log) /\ DOMAIN dq = 1 .. Len(dq)
  BY <1>1, <1>2, LenProperties DEF RecentOf
<1> HIDE DEF R, g, dq
<1>13. Arranged(g, R, log, dq)
  BY <1>1, <1>2, <1>7, <1>8, <1>9, <1>10, <1>11, <1>12 DEF Arranged
<1> QED
  BY <1>13 DEF R, g, dq

-----------------------------------------------------------------------------
(* What the detectors say of a deque is what a recount of the log says.     *)

LEMMA RecountPorts ==
  ASSUME NEW g, NEW R, NEW log, NEW dq, Arranged(g, R, log, dq)
  PROVE  /\ {log[i].src_ip : i \in R} = {x.src_ip : x \in Range(dq)}
         /\ {log[i].dst_port : i \in {j \in R : log[j].action = "connect"}} = UniquePorts(dq)
<1>1. Range(dq) = {dq[p] : p \in 1 .. Len(dq)}
  BY DEF Range, Arranged
<1>2. Range(dq) = {log[i] : i \in R}
  BY <1>1 DEF Arranged
<1> QED
  BY <1>2 DEF UniquePorts

LEMMA RecountLength ==
  ASSUME NEW g, NEW R, NEW log, NEW dq, Arranged(g, R, log, dq)
  PROVE  IsFiniteSet(R) /\ Cardinality(R) = Len(dq)
<1>1. /\ Len(log) \in Nat /\ R \in SUBSET (1 .. Len(log)) /\ Len(dq) \in Nat
      /\ g \in [R -> 1 .. Len(dq)]
      /\ \A i, j \in R : g[i] = g[j] => i = j
      /\ \A p \in 1 .. Len(dq) : \E i \in R : g[i] = p
  BY DEF Arranged
<1>2. IsFiniteSet(R)
  <2>1. IsFiniteSet(1 .. Len(log))
    BY <1>1, FS_Interval
  <2> QED
    BY <2>1, <1>1, FS_Subset
<1>3. g \in Bijection(R, 1 .. Len(dq))
  BY <1>1, Fun_IsBij
<1>4. Cardinality(1 .. Len(dq)) = Cardinality(R)
  BY <1>2, <1>3, Fun_ExistsBij, FS_Bijection
<1>5. Cardinality(1 .. Len(dq)) = Len(dq)
  <2>1. \A n \in Nat : Cardinality(1 .. n) = IF 1 > n THEN 0 ELSE n - 1 + 1
    BY FS_Interval
  <2>2. \A n \in Nat : (IF 1 > n THEN 0 ELSE n - 1 + 1) = n
    OBVIOUS
  <2> QED
    BY <2>1, <2>2, <1>1
<1> QED
  BY <1>2, <1>4, <1>5

LEMMA RecountFails ==
  ASSUME NEW g, NEW R, NEW log, NEW dq, Arranged(g, R, log, dq)
  PROVE  LET Auths == {i \in R : log[i].action = "auth"}
         IN  Cardinality({i \in Auths : \A j \in Auths : j >= i => log[j].status = "fail"})
               = ConsecutiveFails(dq)
<1> DEFINE Auths == {i \in R : log[i].action = "auth"}
           S == {i \in Auths : \A j \in Auths : j >= i => log[j].status = "fail"}
           Auth(p) == dq[p].action = "auth"
           T == {p \in DOMAIN dq : Auth(p) /\ \A q \in p .. Len(dq) :
                                                Auth(q) => dq[q].status = "fail"}
           h == [i \in S |-> g[i]]
<1>1. /\ Len(log) \in Nat /\ R \subseteq 1 .. Len(log)
      /\ Len(dq) \in Nat /\ DOMAIN dq = 1 .. Len(dq)
      /\ \A i \in R : g[i] \in 1 .. Len(dq)
      /\ \A i, j \in R : g[i] = g[j] => i = j
      /\ \A p \in 1 .. Len(dq) : \E i \in R : g[i] = p
      /\ \A i \in R : dq[g[i]] = log[i]
      /\ \A i, j \in R : i < j => g[i] < g[j]
  BY DEF Arranged
<1>2. \A i, j \in R : j >= i <=> g[j] >= g[i]
  <2> SUFFICES ASSUME NEW i \in R, NEW j \in R PROVE j >= i <=> g[j] >= g[i]
    OBVIOUS
  <2>0. i \in 1 .. Len(log) /\ j \in 1 .. Len(log) /\ g[i] \in 1 .. Len(dq) /\ g[j] \in 1 .. Len(dq)
    BY <1>1
  <2>1. i \in Int /\ j \in Int /\ g[i] \in Int /\ g[j] \in Int
    BY <2>0
  <2>2. (i < j => g[i] < g[j]) /\ (j < i => g[j] < g[i]) /\ (i = j => g[i] = g[j])
    BY <1>1
  <2> HIDE DEF Auths, S, T, h
  <2> QED
    BY <2>1, <2>2
<1>3. \A i \in R : i \in S <=> g[i] \in T
  <2> SUFFICES ASSUME NEW i \in R PROVE i \in S <=> g[i] \in T
    OBVIOUS
  <2>1. ASSUME i \in S PROVE g[i] \in T
    <3>1. Auth(g[i]) /\ g[i] \in DOMAIN dq
      BY <1>1, <2>1
    <3>2. ASSUME NEW q \in g[i] .. Len(dq), Auth(q) PROVE dq[q].status = "fail"
      <4>1. q \in 1 .. Len(dq) /\ q >= g[i]
        BY <1>1
      <4>2. PICK j \in R : g[j] = q
        BY <4>1, <1>1
      <4>3. j \in Auths /\ j >= i
        BY <4>1, <4>2, <3>2, <1>1, <1>2
      <4>4. log[j].status = "fail"
        BY <4>3, <2>1
      <4> QED
        BY <4>2, <4>4, <1>1
    <3> QED
      BY <3>1, <3>2
  <2>2. ASSUME g[i] \in T PROVE i \in S
    <3>1. i \in Auths
      BY <2>2, <1>1
    <3>2. ASSUME NEW j \in Auths, j >= i PROVE log[j].status = "fail"
      <4>1. j \in R /\ g[j] >= g[i] /\ Auth(g[j])
        BY <3>2, <1>1, <1>2
      <4>2. g[j] \in g[i] .. Len(dq)
        BY <4>1, <1>1
      <4> QED
        BY <4>1, <4>2, <2>2, <1>1
    <3> QED
      BY <3>1, <3>2
  <2> QED
    BY <2>1, <2>2
<1>4. S \subseteq R /\ T \subseteq 1 .. Len(dq)
  BY <1>1
<1>5. IsFiniteSet(S)
  <2>1. S \in SUBSET R
    OBVIOUS
  <2> QED
    BY <2>1, RecountLength, FS_Subset
<1>6. Cardinality(T) = ConsecutiveFails(dq)
  BY DEF ConsecutiveFails
<1> HIDE DEF S, T
<1>7. h \in Bijection(S, T)
  <2>1. h \in [S -> T]
    BY <1>3, <1>4
  <2>2. \A a, b \in S : h[a] = h[b] => a = b
    BY <1>1, <1>4
  <2>3. \A t \in T : \E a \in S : h[a] = t
    <3> SUFFICES ASSUME NEW t \in T PROVE \E a \in S : h[a] = t
      OBVIOUS
    <3>1. PICK a \in R : g[a] = t
      BY <1>1, <1>4
    <3> QED
      BY <3>1, <1>3
  <2> HIDE DEF h
  <2> QED
    BY <2>1, <2>2, <2>3, Fun_IsBij
<1>8. Cardinality(T) = Cardinality(S)
  BY <1>5, <1>7, Fun_ExistsBij, FS_Bijection
<1> QED
  BY <1>6, <1>8 DEF S

-----------------------------------------------------------------------------
(* The types that a sequence of findings has. *)

Has(seq, type) == \E i \in DOMAIN seq : seq[i].type = type

LEMMA HasFound ==
  ASSUME NEW type, NEW key, NEW holds \in BOOLEAN,
         NEW S, [type |-> type, key |-> key] \in S
  PROVE  /\ Found(type, key, holds) \in Seq(S)
         /\ \A t : Has(Found(type, key, holds), t) <=> holds /\ t = type
<1>1. CASE holds
  <2> DEFINE x == [type |-> type, key |-> key]
  <2>1. Found(type, key, holds) = <<x>>
    BY <1>1 DEF Found
  <2>2. x.type = type /\ x \in S
    OBVIOUS
  <2> HIDE DEF x
  <2>3. DOMAIN <<x>> = {1} /\ <<x>>[1] = x /\ <<x>> \in Seq(S)
    BY <2>2
  <2>4. \A t : Has(<<x>>, t) <=> t = type
    BY <2>2, <2>3 DEF Has
  <2> QED
    BY <1>1, <2>1, <2>3, <2>4
<1>2. CASE ~ holds
  <2>1. Found(type, key, holds) = <<>>
    BY <1>2 DEF Found
  <2>2. DOMAIN <<>> = {} /\ <<>> \in Seq(S)
    OBVIOUS
  <2> QED
    BY <1>2, <2>1, <2>2 DEF Has
<1> QED
  BY <1>1, <1>2

LEMMA HasConcat ==
  ASSUME NEW S, NEW s \in Seq(S), NEW t \in Seq(S)
  PROVE  /\ s \o t \in Seq(S)
         /\ \A type : Has(s \o t, type) <=> Has(s, type) \/ Has(t, type)
<1> DEFINE c == s \o t
           m == Len(s)
           n == Len(t)
<1>1. /\ c \in Seq(S) /\ DOMAIN c = 1 .. m + n
      /\ m \in Nat /\ DOMAIN s = 1 .. m /\ n \in Nat /\ DOMAIN t = 1 .. n
      /\ \A i \in 1 .. m + n : c[i] = IF i <= m THEN s[i] ELSE t[i - m]
  BY ConcatProperties, LenProperties
<1> HIDE DEF c, m, n
<1>2. ASSUME NEW type, Has(c, type) PROVE Has(s, type) \/ Has(t, type)
  <2>1. PICK i \in 1 .. m + n : c[i].type = type
    BY <1>1, <1>2 DEF Has
  <2>2. CASE i <= m
    <3>1. i \in 1 .. m /\ c[i] = s[i]
      BY <2>2, <1>1
    <3> QED
      BY <2>1, <3>1, <1>1 DEF Has
  <2>3. CASE ~ (i <= m)
    <3>1. i - m \in 1 .. n /\ c[i] = t[i - m]
      BY <2>3, <1>1
    <3> QED
      BY <2>1, <3>1, <1>1 DEF Has
  <2> QED
    BY <2>2, <2>3
<1>3. ASSUME NEW type, Has(s, type) PROVE Has(c, type)
  <2>1. PICK i \in 1 .. m : s[i].type = type
    BY <1>1, <1>3 DEF Has
  <2>2. i \in 1 .. m + n /\ c[i] = s[i]
    BY <1>1
  <2> QED
    BY <2>1, <2>2, <1>1 DEF Has
<1>4. ASSUME NEW type, Has(t, type) PROVE Has(c, type)
  <2>1. PICK i \in 1 .. n : t[i].type = type
    BY <1>1, <1>4 DEF Has
  <2>2. i + m \in 1 .. m + n /\ ~ (i + m <= m) /\ (i + m) - m = i
    BY <1>1
  <2>3. c[i + m] = t[i]
    BY <2>2, <1>1
  <2> QED
    BY <2>1, <2>2, <2>3, <1>1 DEF Has
<1> QED
  BY <1>1, <1>2, <1>3, <1>4 DEF c

(* What the detectors return of the deques of a record. *)
Report(src, dst, r, past) ==
  PortScan(src, r) \o BruteForce(src, r) \o Ddos(dst, r) \o Found("bytes_anomaly", r.src_ip, past)

LEMMA ReportSays ==
  ASSUME NEW src, NEW dst, NEW r \in Records, NEW past \in BOOLEAN
  PROVE  LET d == Report(src, dst, r, past)
         IN  /\ \E S : d \in Seq(S)
             /\ Has(d, "port_scan") <=> Cardinality(UniquePorts(src)) >= cfg.portscan_unique_ports
             /\ Has(d, "brute_force") <=> ConsecutiveFails(src) >= cfg.bruteforce_failures
             /\ Has(d, "ddos_volumetric") <=>
                  /\ Len(dst) >= cfg.ddos_events
                  /\ Cardinality({x.src_ip : x \in Range(dst)}) >= cfg.ddos_unique_sources
             /\ Has(d, "bytes_anomaly") <=> past
<1> DEFINE h1 == Cardinality(UniquePorts(src)) >= cfg.portscan_unique_ports
           h2 == ConsecutiveFails(src) >= cfg.bruteforce_failures
           h3 == /\ Len(dst) >= cfg.ddos_events
                 /\ Cardinality({x.src_ip : x \in Range(dst)}) >= cfg.ddos_unique_sources
           f1 == Found("port_scan", r.src_ip, h1)
           f2 == Found("brute_force", r.src_ip, h2)
           f3 == Found("ddos_volumetric", r.dst_ip, h3)
           f4 == Found("bytes_anomaly", r.src_ip, past)
<1>1. Report(src, dst, r, past) = f1 \o f2 \o f3 \o f4
  BY DEF Report, PortScan, BruteForce, Ddos
<1>2. h1 \in BOOLEAN /\ h2 \in BOOLEAN /\ h3 \in BOOLEAN
  OBVIOUS
<1> DEFINE S == {[type |-> "port_scan", key |-> r.src_ip],
                 [type |-> "brute_force", key |-> r.src_ip],
                 [type |-> "ddos_volumetric", key |-> r.dst_ip],
                 [type |-> "bytes_anomaly", key |-> r.src_ip]}
<1>3. /\ [type |-> "port_scan", key |-> r.src_ip] \in S
      /\ [type |-> "brute_force", key |-> r.src_ip] \in S
      /\ [type |-> "ddos_volumetric", key |-> r.dst_ip] \in S
      /\ [type |-> "bytes_anomaly", key |-> r.src_ip] \in S
  OBVIOUS
<1> HIDE DEF h1, h2, h3, S
<1>4. /\ f1 \in Seq(S) /\ f2 \in Seq(S) /\ f3 \in Seq(S) /\ f4 \in Seq(S)
  BY <1>2, <1>3, HasFound
<1>5. /\ \A t : Has(f1, t) <=> h1 /\ t = "port_scan"
      /\ \A t : Has(f2, t) <=> h2 /\ t = "brute_force"
      /\ \A t : Has(f3, t) <=> h3 /\ t = "ddos_volumetric"
      /\ \A t : Has(f4, t) <=> past /\ t = "bytes_anomaly"
  BY <1>2, <1>3, HasFound
<1> HIDE DEF f1, f2, f3, f4
<1> DEFINE c2 == f1 \o f2
           c3 == c2 \o f3
           d == Report(src, dst, r, past)
<1>6. c2 \in Seq(S) /\ \A t : Has(c2, t) <=> Has(f1, t) \/ Has(f2, t)
  BY <1>4, HasConcat
<1> HIDE DEF c2
<1>7. c3 \in Seq(S) /\ \A t : Has(c3, t) <=> Has(c2, t) \/ Has(f3, t)
  BY <1>4, <1>6, HasConcat
<1> HIDE DEF c3
<1>8. c3 \o f4 \in Seq(S) /\ \A t : Has(c3 \o f4, t) <=> Has(c3, t) \/ Has(f4, t)
  BY <1>4, <1>7, HasConcat
<1>9. \A t : Has(d, t) <=> \/ (h1 /\ t = "port_scan")
                           \/ (h2 /\ t = "brute_force")
                           \/ (h3 /\ t = "ddos_volumetric")
                           \/ (past /\ t = "bytes_anomaly")
  <2>1. d = c3 \o f4
    BY <1>1 DEF c2, c3
  <2> HIDE DEF d
  <2> QED
    BY <2>1, <1>5, <1>6, <1>7, <1>8
<1>10. d \in Seq(S)
  BY <1>1, <1>8 DEF c2, c3
<1> HIDE DEF d
<1>11. /\ Has(d, "port_scan") <=> h1
       /\ Has(d, "brute_force") <=> h2
       /\ Has(d, "ddos_volumetric") <=> h3
       /\ Has(d, "bytes_anomaly") <=> past
  BY <1>9
<1> QED
  BY <1>10, <1>11 DEF d, h1, h2, h3

(* What was detected is the report on the deques of the last record. *)
Reported ==
  last # None =>
    LET log == fed[last]
        e == engines[last]
        r == Last(log)
    IN  /\ log # <<>>
        /\ \E past \in BOOLEAN :
             /\ detected = Report(get(e.by_src_, r.src_ip), get(e.by_dst_, r.dst_ip), r, past)
             /\ past => count[r.src_ip] > History /\ e.stats[r.src_ip].spread

(* The static count is there for the source of any record. *)
CountOK == count \in [{r.src_ip : r \in Records} -> Nat]

LEMMA CountInvariant == Spec => []CountOK
<1>1. Init => CountOK
  BY DEF Init, CountOK
<1>2. CountOK /\ [Next]_vars => CountOK'
  <2> SUFFICES ASSUME CountOK, [Next]_vars PROVE CountOK'
    OBVIOUS
  <2>1. ASSUME NEW s \in Slots, NEW r \in Records, Feed(s, r) PROVE CountOK'
    <3>1. count' = [count EXCEPT ![r.src_ip] = count[r.src_ip] + 1]
      BY <2>1 DEF Feed
    <3>2. count[r.src_ip] + 1 \in Nat
      BY DEF CountOK
    <3> QED
      BY <3>1, <3>2 DEF CountOK
  <2>2. ASSUME NEW s \in Slots, New(s) \/ Free(s) PROVE CountOK'
    BY <2>2 DEF New, Free, CountOK
  <2>3. CASE UNCHANGED vars
    BY <2>3 DEF vars, CountOK
  <2> QED
    BY <2>1, <2>2, <2>3 DEF Next
<1> QED
  BY <1>1, <1>2, PTL DEF Spec

LEMMA ReportedInvariant == Spec => []Reported
<1>1. Init => Reported
  BY InitEffect DEF Reported
<1>2. WindowsInv /\ CountOK /\ Reported /\ [Next]_vars => Reported'
  <2> SUFFICES ASSUME WindowsInv, CountOK, Reported, [Next]_vars PROVE Reported'
    OBVIOUS
  <2>1. ASSUME NEW s \in Slots, New(s) PROVE Reported'
    BY <2>1, NewEffect DEF Reported
  <2>2. ASSUME NEW s \in Slots, NEW r \in Records, Feed(s, r) PROVE Reported'
    <3>1. /\ s \in DOMAIN engines /\ last' = s
          /\ engines'[s] = FeedEngine(engines[s], r, count[r.src_ip] + 1)
          /\ fed'[s] = Append(fed[s], r)
      BY <2>2, FeedEffect
    <3>2. fed[s] \in Seq(Records)
      BY <3>1 DEF WindowsInv
    <3>3. fed'[s] # <<>> /\ Last(fed'[s]) = r
      BY <3>1, <3>2, AppendProperties DEF Last
    <3>4. \E past \in BOOLEAN :
            /\ past => /\ count[r.src_ip] + 1 > History
                       /\ engines'[s].stats[r.src_ip].spread
            /\ detected' = Report(get(engines'[s].by_src_, r.src_ip),
                                  get(engines'[s].by_dst_, r.dst_ip), r, past)
      BY <2>2, <3>1 DEF Feed, Report
    <3>5. count'[r.src_ip] = count[r.src_ip] + 1
      BY <2>2 DEF Feed, CountOK
    <3> QED
      BY <3>1, <3>3, <3>4, <3>5 DEF Reported
  <2>3. ASSUME NEW s \in Slots, Free(s) PROVE Reported'
    BY <2>3, FreeEffect DEF Reported
  <2>4. CASE UNCHANGED vars
    BY <2>4 DEF vars, Reported
  <2> QED
    BY <2>1, <2>2, <2>3, <2>4 DEF Next
<1> QED
  BY <1>1, <1>2, WindowsInvariant, CountInvariant, PTL DEF Spec

(* A recount of the records that are due, over a log in time order, agrees  *)
(* with the detectors, however many engines the process has.                *)
THEOREM DetectorsAgree == Spec => []DetectorsRecount
<1>1. WindowsInv /\ Reported => DetectorsRecount
  <2> SUFFICES ASSUME WindowsInv, Reported, last # None, InOrder(fed[last])
               PROVE  DetectorsRecount
    BY DEF DetectorsRecount
  <2> DEFINE log == fed[last]
             e == engines[last]
             r == Last(log)
             src == get(e.by_src_, r.src_ip)
             dst == get(e.by_dst_, r.dst_ip)
             Auths == {i \in RecentOf(log, "src_ip") : log[i].action = "auth"}
             Connects == {i \in RecentOf(log, "src_ip") : log[i].action = "connect"}
  <2>1. last \in DOMAIN engines /\ log \in Seq(Records) /\ log # <<>>
    BY DEF WindowsInv, Reported
  <2>2. r \in Records
    BY <2>1, LastOfLog
  <2>3. PICK past \in BOOLEAN : detected = Report(src, dst, r, past)
    BY DEF Reported
  <2>4. Follows(e.by_src_, log, "src_ip") /\ Follows(e.by_dst_, log, "dst_ip")
    BY <2>1 DEF WindowsInv, Ips, WindowBy
  <2>5. /\ Arranged(Place(e.by_src_, log, "src_ip"), RecentOf(log, "src_ip"), log, src)
        /\ Arranged(Place(e.by_dst_, log, "dst_ip"), RecentOf(log, "dst_ip"), log, dst)
    BY <2>1, <2>4, DequeIsRecent
  <2>6. /\ Has(detected, "port_scan") <=> Cardinality(UniquePorts(src)) >= cfg.portscan_unique_ports
        /\ Has(detected, "brute_force") <=> ConsecutiveFails(src) >= cfg.bruteforce_failures
        /\ Has(detected, "ddos_volumetric") <=>
             /\ Len(dst) >= cfg.ddos_events
             /\ Cardinality({x.src_ip : x \in Range(dst)}) >= cfg.ddos_unique_sources
    BY <2>2, <2>3, ReportSays
  <2> HIDE DEF log, e, r, src, dst
  <2>7. {log[i].dst_port : i \in Connects} = UniquePorts(src)
    BY <2>5, RecountPorts
  <2>8. Cardinality({i \in Auths : \A j \in Auths : j >= i => log[j].status = "fail"})
          = ConsecutiveFails(src)
    BY <2>5, RecountFails
  <2>9. /\ Cardinality(RecentOf(log, "dst_ip")) = Len(dst)
        /\ {log[i].src_ip : i \in RecentOf(log, "dst_ip")} = {x.src_ip : x \in Range(dst)}
    BY <2>5, RecountLength, RecountPorts
  <2>10. /\ Says("port_scan") <=>
              Cardinality({log[i].dst_port : i \in Connects}) >= cfg.portscan_unique_ports
         /\ Says("brute_force") <=>
              Cardinality({i \in Auths :
                \A j \in Auths : j >= i => log[j].status = "fail"}) >= cfg.bruteforce_failures
         /\ Says("ddos_volumetric") <=>
              /\ Cardinality(RecentOf(log, "dst_ip")) >= cfg.ddos_events
              /\ Cardinality({log[i].src_ip : i \in RecentOf(log, "dst_ip")})
                   >= cfg.ddos_unique_sources
    <3>1. \A type : Says(type) <=> Has(detected, type)
      BY DEF Says, Has
    <3> QED
      BY <3>1, <2>6, <2>7, <2>8, <2>9
  <2> QED
    BY <2>10 DEF DetectorsRecount, RecentOf, log, r
<1> QED
  BY <1>1, WindowsInvariant, ReportedInvariant, PTL

-----------------------------------------------------------------------------
(* The mean of a source is its own as long as the static count is the       *)
(* number of its records that this engine was fed.                          *)

Sources == {r.src_ip : r \in Records}
Own(log, src) == {i \in DOMAIN log : log[i].src_ip = src}

LEMMA OwnFinite ==
  ASSUME NEW log \in Seq(Records), NEW src
  PROVE  IsFiniteSet(Own(log, src)) /\ Cardinality(Own(log, src)) \in Nat
<1>1. Len(log) \in Nat /\ DOMAIN log = 1 .. Len(log)
  BY LenProperties
<1>2. IsFiniteSet(1 .. Len(log))
  BY <1>1, FS_Interval
<1>3. Own(log, src) \in SUBSET (1 .. Len(log))
  BY <1>1 DEF Own
<1>4. IsFiniteSet(Own(log, src))
  BY <1>2, <1>3, FS_Subset
<1> QED
  BY <1>4, FS_CardinalityType

LEMMA OwnOfAppend ==
  ASSUME NEW log \in Seq(Records), NEW r \in Records, NEW src
  PROVE  /\ IsFiniteSet(Own(log, src)) /\ Cardinality(Own(log, src)) \in Nat
         /\ \A i \in DOMAIN log : Append(log, r)[i] = log[i]
         /\ Append(log, r)[Len(log) + 1] = r
         /\ src # r.src_ip => Own(Append(log, r), src) = Own(log, src)
         /\ src = r.src_ip => /\ Own(Append(log, r), src) = Own(log, src) \cup {Len(log) + 1}
                              /\ Cardinality(Own(Append(log, r), src))
                                   = Cardinality(Own(log, src)) + 1
<1> DEFINE L == Append(log, r)
           n == Len(log)
<1>1. /\ DOMAIN L = 1 .. n + 1 /\ n \in Nat /\ DOMAIN log = 1 .. n /\ L[n + 1] = r
      /\ \A i \in 1 .. n : L[i] = log[i]
  BY AppendProperties, LenProperties
<1> HIDE DEF L, n
<1>2. IsFiniteSet(Own(log, src)) /\ Cardinality(Own(log, src)) \in Nat
  BY OwnFinite
<1>3. 1 .. n + 1 = (1 .. n) \cup {n + 1} /\ n + 1 \notin 1 .. n
  BY <1>1
<1>4. Own(L, src) = {i \in (1 .. n) \cup {n + 1} : L[i].src_ip = src}
  BY <1>1, <1>3 DEF Own
<1>5. Own(log, src) = {i \in 1 .. n : L[i].src_ip = src}
  BY <1>1 DEF Own
<1>6. src # r.src_ip => Own(L, src) = Own(log, src)
  BY <1>1, <1>4, <1>5
<1>7. src = r.src_ip => Own(L, src) = Own(log, src) \cup {n + 1}
  BY <1>1, <1>4, <1>5
<1>8. n + 1 \notin Own(log, src)
  BY <1>3, <1>5
<1>9. Cardinality(Own(log, src) \cup {n + 1}) = Cardinality(Own(log, src)) + 1
  BY <1>2, <1>8, FS_AddElement
<1> QED
  BY <1>1, <1>2, <1>6, <1>7, <1>9 DEF L, n

(* stats holds the mean b, and nothing but b was seen. *)
Steady(st, b) == st.num = b * st.den /\ ~ st.spread

LEMMA SteadyKept ==
  ASSUME NEW st, st.den \in Int, NEW b \in Int, NEW n \in Nat, Steady(st, b)
  PROVE  Steady(Welford(st, n, b), b)
<1>1. /\ Welford(st, n, b).num = st.num * (n - 1) + b * st.den
      /\ Welford(st, n, b).den = st.den * n
      /\ Welford(st, n, b).spread = (st.spread \/ (st.num # b * st.den /\ n > 1))
  BY DEF Welford
<1>2. \A d \in Int : (b * d) * (n - 1) + b * d = b * (d * n)
  OBVIOUS
<1> QED
  BY <1>1, <1>2 DEF Steady

LEMMA SteadyFirst ==
  ASSUME NEW b \in Int PROVE Steady(Welford(NoStats, 1, b), b)
<1>1. /\ Welford(NoStats, 1, b).num = 0 * (1 - 1) + b * 1
      /\ Welford(NoStats, 1, b).den = 1 * 1
      /\ Welford(NoStats, 1, b).spread = (FALSE \/ (0 # b * 1 /\ 1 > 1))
  BY DEF Welford, NoStats
<1>2. 0 * (1 - 1) + b * 1 = b * (1 * 1) /\ ~ (1 > 1)
  OBVIOUS
<1> QED
  BY <1>1, <1>2 DEF Steady

LEMMA WelfordInts ==
  ASSUME NEW st, st.num \in Int, st.den \in Int, NEW b \in Int, NEW n \in Nat
  PROVE  Welford(st, n, b).num \in Int /\ Welford(st, n, b).den \in Int
BY DEF Welford

(* One source of one engine: own of its n records are in the log. *)
OwnMean(stats, log, src, n) ==
  LET own == Own(log, src)
  IN  /\ n >= Cardinality(own)
      /\ own = {} => src \notin DOMAIN stats
      /\ src \in DOMAIN stats => stats[src].num \in Int /\ stats[src].den \in Int
      /\ \A b \in Int :
           n = Cardinality(own) /\ own # {} /\ (\A i \in own : log[i].bytes = b)
             => src \in DOMAIN stats /\ Steady(stats[src], b)

MeansInv == \A s \in DOMAIN engines : \A src \in Sources :
              OwnMean(engines[s].stats, fed[s], src, count[src])

(* A record of another engine advances the count alone. *)
LEMMA OwnMeanElsewhere ==
  ASSUME NEW stats, NEW log \in Seq(Records), NEW src, NEW n \in Nat,
         OwnMean(stats, log, src, n)
  PROVE  OwnMean(stats, log, src, n + 1)
<1>1. Cardinality(Own(log, src)) \in Nat
  BY OwnFinite
<1>2. n + 1 # Cardinality(Own(log, src)) /\ n + 1 >= Cardinality(Own(log, src))
  BY <1>1 DEF OwnMean
<1> QED
  BY <1>2 DEF OwnMean

LEMMA OwnMeanHere ==
  ASSUME NEW stats, NEW log \in Seq(Records), NEW r \in Records, NEW n \in Nat,
         OwnMean(stats, log, r.src_ip, n)
  PROVE  OwnMean(With(stats, r.src_ip,
                      Welford(At(stats, r.src_ip, NoStats), n + 1, r.bytes)),
                 Append(log, r), r.src_ip, n + 1)
<1> DEFINE src == r.src_ip
           st == At(stats, src, NoStats)
           new == Welford(st, n + 1, r.bytes)
           stats2 == With(stats, src, new)
           L == Append(log, r)
           own == Own(log, src)
           own2 == Own(L, src)
<1>1. /\ IsFiniteSet(own) /\ Cardinality(own) \in Nat
      /\ \A i \in DOMAIN log : L[i] = log[i]
      /\ own2 = own \cup {Len(log) + 1} /\ L[Len(log) + 1] = r
      /\ Cardinality(own2) = Cardinality(own) + 1
  BY OwnOfAppend
<1>2. r.bytes \in Int /\ n + 1 \in Nat
  BY EngineAssumption
<1>3. st.num \in Int /\ st.den \in Int
  BY DEF OwnMean, At, NoStats
<1>4. src \in DOMAIN stats2 /\ stats2[src] = new
  BY DEF With
<1>5. own \subseteq DOMAIN log
  BY DEF Own
<1>6. /\ n >= Cardinality(own)
      /\ own = {} => st = NoStats
      /\ \A b \in Int :
           n = Cardinality(own) /\ own # {} /\ (\A i \in own : log[i].bytes = b)
             => Steady(st, b)
  BY DEF OwnMean, At
<1>7. new.num \in Int /\ new.den \in Int
  BY <1>2, <1>3, WelfordInts
<1>8. own = {} => Cardinality(own) = 0
  BY FS_EmptySet
<1> HIDE DEF src, st, stats2, L, own, own2
<1>9. ASSUME NEW b \in Int, n + 1 = Cardinality(own2), \A i \in own2 : L[i].bytes = b
      PROVE  Steady(new, b)
  <2>1. r.bytes = b /\ n = Cardinality(own)
    BY <1>1, <1>9
  <2>2. CASE own = {}
    <3>1. st = NoStats /\ n + 1 = 1
      BY <1>6, <1>8, <2>1, <2>2
    <3>2. new = Welford(NoStats, 1, b)
      BY <2>1, <3>1
    <3> HIDE DEF new
    <3> QED
      BY <3>2, SteadyFirst
  <2>3. CASE own # {}
    <3>1. \A i \in own : log[i].bytes = b
      BY <1>1, <1>5, <1>9
    <3>2. Steady(st, b)
      BY <1>6, <2>1, <2>3, <3>1
    <3>3. new = Welford(st, n + 1, b)
      BY <2>1
    <3> HIDE DEF new
    <3> QED
      BY <1>2, <1>3, <3>2, <3>3, SteadyKept
  <2> QED
    BY <2>2, <2>3
<1>10. own2 # {} /\ n + 1 >= Cardinality(own2)
  BY <1>1, <1>6
<1> HIDE DEF new
<1>11. OwnMean(stats2, L, src, n + 1)
  BY <1>4, <1>7, <1>9, <1>10 DEF OwnMean, own2
<1> QED
  BY <1>11 DEF src, st, new, stats2, L

(* Another source: neither its records nor its statistics change. *)
LEMMA OwnMeanOther ==
  ASSUME NEW stats, NEW log \in Seq(Records), NEW r \in Records, NEW src, NEW n,
         OwnMean(stats, log, src, n), src # r.src_ip, NEW new
  PROVE  OwnMean(With(stats, r.src_ip, new), Append(log, r), src, n)
<1> DEFINE stats2 == With(stats, r.src_ip, new)
           L == Append(log, r)
<1>1. Own(L, src) = Own(log, src) /\ \A i \in DOMAIN log : L[i] = log[i]
  BY OwnOfAppend
<1>2. \A i \in Own(log, src) : L[i] = log[i]
  BY <1>1 DEF Own
<1>3. (src \in DOMAIN stats2 <=> src \in DOMAIN stats)
      /\ (src \in DOMAIN stats => stats2[src] = stats[src])
  BY DEF With
<1> HIDE DEF stats2, L
<1>4. OwnMean(stats2, L, src, n)
  BY <1>1, <1>2, <1>3 DEF OwnMean
<1> QED
  BY <1>4 DEF stats2, L

LEMMA NothingMeant ==
  ASSUME NEW src, NEW n \in Nat PROVE OwnMean(<<>>, <<>>, src, n)
<1>1. Own(<<>>, src) = {} /\ DOMAIN <<>> = {}
  BY DEF Own
<1> QED
  BY <1>1, FS_EmptySet DEF OwnMean

LEMMA MeansInvariant == Spec => []MeansInv
<1>1. Init => MeansInv
  <2> SUFFICES ASSUME Init, NEW s \in DOMAIN engines, NEW src \in Sources
               PROVE  OwnMean(engines[s].stats, fed[s], src, count[src])
    BY DEF MeansInv
  <2>1. fed[s] = <<>> /\ engines[s].stats = <<>>
    BY InitEffect, NewEngineFields
  <2>2. count[src] = 0
    BY DEF Init, Sources
  <2> QED
    BY <2>1, <2>2, NothingMeant
<1>2. WindowsInv /\ CountOK /\ MeansInv /\ [Next]_vars => MeansInv'
  <2> SUFFICES ASSUME WindowsInv, CountOK, MeansInv, [Next]_vars PROVE MeansInv'
    OBVIOUS
  <2>0. \A src \in Sources : count[src] \in Nat
    BY DEF CountOK, Sources
  <2>1. ASSUME NEW s \in Slots, New(s) PROVE MeansInv'
    <3>1. engines'[s].stats = <<>> /\ fed'[s] = <<>>
      BY <2>1, NewEffect, NewEngineFields
    <3>2. \A src \in Sources : OwnMean(engines'[s].stats, fed'[s], src, count[src])
      BY <3>1, <2>0, NothingMeant
    <3>3. count' = count
      BY <2>1 DEF New
    <3>4. /\ DOMAIN engines' = DOMAIN engines \cup {s}
          /\ \A t \in DOMAIN engines : engines'[t] = engines[t] /\ fed'[t] = fed[t]
      BY <2>1, NewEffect, Zenon
    <3> QED
      BY <3>2, <3>3, <3>4 DEF MeansInv
  <2>2. ASSUME NEW s \in Slots, NEW r \in Records, Feed(s, r) PROVE MeansInv'
    <3>1. /\ s \in DOMAIN engines /\ DOMAIN engines' = DOMAIN engines
          /\ engines'[s] = FeedEngine(engines[s], r, count[r.src_ip] + 1)
          /\ fed'[s] = Append(fed[s], r)
          /\ \A t \in DOMAIN engines : t # s => engines'[t] = engines[t] /\ fed'[t] = fed[t]
      BY <2>2, FeedEffect
    <3>2. engines'[s].stats
            = With(engines[s].stats, r.src_ip,
                   Welford(At(engines[s].stats, r.src_ip, NoStats), count[r.src_ip] + 1, r.bytes))
      BY <3>1, FeedEngineFields DEF WindowsInv
    <3>3. /\ \A src \in Sources : src # r.src_ip => count'[src] = count[src]
          /\ count'[r.src_ip] = count[r.src_ip] + 1
      BY <2>2 DEF Feed, CountOK, Sources
    <3>4. \A t \in DOMAIN engines : fed[t] \in Seq(Records)
      BY DEF WindowsInv
    <3>5. r.src_ip \in Sources
      BY DEF Sources
    <3>6. ASSUME NEW t \in DOMAIN engines, NEW src \in Sources
          PROVE  OwnMean(engines'[t].stats, fed'[t], src, count'[src])
      <4>1. OwnMean(engines[t].stats, fed[t], src, count[src])
        BY DEF MeansInv
      <4>2. CASE t = s /\ src = r.src_ip
        <5>1. OwnMean(engines[s].stats, fed[s], r.src_ip, count[r.src_ip])
          BY <4>1, <4>2
        <5>2. OwnMean(With(engines[s].stats, r.src_ip,
                           Welford(At(engines[s].stats, r.src_ip, NoStats),
                                   count[r.src_ip] + 1, r.bytes)),
                      Append(fed[s], r), r.src_ip, count[r.src_ip] + 1)
          BY <5>1, <2>0, <3>1, <3>4, <3>5, OwnMeanHere
        <5> QED
          BY <5>2, <4>2, <3>1, <3>2, <3>3
      <4>3. CASE t = s /\ src # r.src_ip
        <5>1. fed[s] \in Seq(Records) /\ OwnMean(engines[s].stats, fed[s], src, count[src])
          BY <4>1, <4>3, <3>4
        <5>2. \A new : OwnMean(With(engines[s].stats, r.src_ip, new),
                               Append(fed[s], r), src, count[src])
          BY <5>1, <4>3, OwnMeanOther
        <5> QED
          BY <5>2, <4>3, <3>1, <3>2, <3>3
      <4>4. CASE t # s /\ src = r.src_ip
        BY <4>1, <4>4, <2>0, <3>1, <3>3, <3>4, OwnMeanElsewhere
      <4>5. CASE t # s /\ src # r.src_ip
        BY <4>1, <4>5, <3>1, <3>3
      <4> QED
        BY <4>2, <4>3, <4>4, <4>5
    <3> QED
      BY <3>1, <3>6 DEF MeansInv
  <2>3. ASSUME NEW s \in Slots, Free(s) PROVE MeansInv'
    <3>1. count' = count
      BY <2>3 DEF Free
    <3> QED
      BY <2>3, <3>1, FreeEffect DEF MeansInv
  <2>4. CASE UNCHANGED vars
    BY <2>4 DEF vars, MeansInv
  <2> QED
    BY <2>1, <2>2, <2>3, <2>4 DEF Next
<1> QED
  BY <1>1, <1>2, WindowsInvariant, CountInvariant, PTL DEF Spec

(* A source that has had one size only, and whose records the static count  *)
(* has numbered for this engine alone, is never reported as an anomaly.     *)
THEOREM AnomalyIsOwn == Spec => []AnomalyFromOwnHistory
<1>1. WindowsInv /\ CountOK /\ Reported /\ MeansInv => AnomalyFromOwnHistory
  <2> SUFFICES ASSUME WindowsInv, CountOK, Reported, MeansInv,
                      last # None, Says("bytes_anomaly"),
                      \A i \in Own(fed[last], Last(fed[last]).src_ip) :
                        fed[last][i].bytes = Last(fed[last]).bytes
               PROVE  count[Last(fed[last]).src_ip]
                        > Cardinality(Own(fed[last], Last(fed[last]).src_ip))
    BY DEF AnomalyFromOwnHistory, Own
  <2> DEFINE log == fed[last]
             e == engines[last]
             r == Last(log)
  <2>1. last \in DOMAIN engines /\ log \in Seq(Records) /\ log # <<>>
    BY DEF WindowsInv, Reported
  <2>2. r \in Records /\ Len(log) \in DOMAIN log /\ r = log[Len(log)]
    BY <2>1, LastOfLog
  <2>3. PICK past \in BOOLEAN :
          /\ detected = Report(get(e.by_src_, r.src_ip), get(e.by_dst_, r.dst_ip), r, past)
          /\ past => e.stats[r.src_ip].spread
    BY DEF Reported
  <2>4. past
    <3>1. Has(detected, "bytes_anomaly")
      BY DEF Says, Has
    <3> HIDE DEF e, r
    <3>2. Has(Report(get(e.by_src_, r.src_ip), get(e.by_dst_, r.dst_ip), r, past),
              "bytes_anomaly") <=> past
      BY <2>2, ReportSays
    <3> QED
      BY <3>1, <3>2, <2>3
  <2>5. OwnMean(e.stats, log, r.src_ip, count[r.src_ip])
    BY <2>1, <2>2 DEF MeansInv, Sources
  <2>6. Len(log) \in Own(log, r.src_ip)
    BY <2>2 DEF Own
  <2>7. r.bytes \in Int
    BY <2>2, EngineAssumption
  <2>8. ~ Steady(e.stats[r.src_ip], r.bytes)
    BY <2>3, <2>4 DEF Steady
  <2>9. /\ count[r.src_ip] >= Cardinality(Own(log, r.src_ip))
        /\ count[r.src_ip] # Cardinality(Own(log, r.src_ip))
    BY <2>5, <2>6, <2>7, <2>8 DEF OwnMean
  <2>10. Cardinality(Own(log, r.src_ip)) \in Nat /\ count[r.src_ip] \in Nat
    BY <2>1, <2>2, OwnFinite DEF CountOK
  <2> QED
    BY <2>9, <2>10 DEF log, r
<1> QED
  BY <1>1, WindowsInvariant, CountInvariant, ReportedInvariant, MeansInvariant, PTL

-----------------------------------------------------------------------------
(* The rules engine: one record through every rule. *)

FeedOne(st, rule, r) == IF Matches(rule, r) THEN FeedRule(st, rule, r) ELSE st

(* The fold over the rules, rule by rule. *)
Rounds(f, win, rules, r) ==
  /\ f[0] = [win |-> win, out |-> <<>>]
  /\ \A n \in 1 .. Len(rules) : f[n] = FeedOne(f[n - 1], rules[n], r)
  /\ FeedRules(win, rules, r) = f[Len(rules)]

LEMMA RoundsExist ==
  ASSUME NEW win, NEW rules, Len(rules) \in Nat, NEW r
  PROVE  \E f : Rounds(f, win, rules, r)
<1> DEFINE base == [win |-> win, out |-> <<>>]
           Next1(x, e) == CHOOSE y \in {IF Matches(e, r) THEN FeedRule(z, e, r) ELSE z :
                                          z \in {x}} : TRUE
           F(f, m) == f = [n \in 0 .. m |-> IF n = 0 THEN base ELSE Next1(f[n - 1], rules[n])]
           P == {m \in Nat : \E f : F(f, m)}
<1>1. \A x, e : Next1(x, e) = FeedOne(x, e, r)
  BY DEF FeedOne
<1>2. FeedRules(win, rules, r) = (CHOOSE f : F(f, Len(rules)))[Len(rules)]
  BY DEF FeedRules, FoldStrictly
<1> HIDE DEF Next1, base
<1>3. 0 \in P
  <2>1. F([n \in 0 .. 0 |-> base], 0)
    OBVIOUS
  <2> QED
    BY <2>1
<1>4. ASSUME NEW m \in Nat, m \in P PROVE m + 1 \in P
  <2>1. PICK f : F(f, m)
    BY <1>4
  <2> DEFINE g == [n \in 0 .. m + 1 |-> IF n = 0 THEN base ELSE Next1(f[n - 1], rules[n])]
  <2>2. \A n \in 0 .. m : g[n] = f[n]
    BY <2>1
  <2>3. \A n \in 0 .. m + 1 : g[n] = IF n = 0 THEN base ELSE Next1(g[n - 1], rules[n])
    <3> SUFFICES ASSUME NEW n \in 0 .. m + 1, n # 0 PROVE f[n - 1] = g[n - 1]
      OBVIOUS
    <3>1. n - 1 \in 0 .. m
      OBVIOUS
    <3> QED
      BY <2>2, <3>1
  <2>4. F(g, m + 1)
    BY <2>3
  <2>5. \E h : F(h, m + 1)
    BY <2>4
  <2> HIDE DEF F
  <2> QED
    BY <2>5
<1>5. \A m \in Nat : m \in P
  <2> HIDE DEF P
  <2> QED
    BY <1>3, <1>4, InductionOnNat
<1>6. \E f : F(f, Len(rules))
  BY <1>5
<1> DEFINE u == CHOOSE f : F(f, Len(rules))
<1>7. F(u, Len(rules))
  BY <1>6
<1>8. FeedRules(win, rules, r) = u[Len(rules)]
  BY <1>2
<1> HIDE DEF u
<1>9. u[0] = base /\ \A n \in 1 .. Len(rules) : u[n] = Next1(u[n - 1], rules[n])
  BY <1>7
<1> QED
  BY <1>1, <1>8, <1>9 DEF Rounds, base

LEMMA SeqWider ==
  ASSUME NEW S, NEW T, NEW s \in Seq(S), S \subseteq T
  PROVE  s \in Seq(T)
OBVIOUS

LEMMA FeedRulesOK ==
  ASSUME NEW win, WindowOK(win), NEW S, NEW rules \in Seq(S), NEW r \in Records
  PROVE  /\ WindowOK(FeedRules(win, rules, r).win)
         /\ \E T : FeedRules(win, rules, r).out \in Seq(T)
<1> DEFINE T == {[type |-> x.emit_type, key |-> KeyFor(x, r)] : x \in S}
<1>1. Len(rules) \in Nat /\ \A n \in 1 .. Len(rules) : rules[n] \in S
  BY LenProperties, ElementOfSeq
<1>2. PICK f : Rounds(f, win, rules, r)
  BY <1>1, RoundsExist
<1> DEFINE OK(st) == WindowOK(st.win) /\ st.out \in Seq(T)
           P == {n \in Nat : n <= Len(rules) => OK(f[n])}
<1>3. OK(f[0])
  BY <1>2 DEF Rounds
<1>4. ASSUME NEW st, OK(st), NEW x \in S PROVE OK(FeedOne(st, x, r))
  <2> DEFINE key == <<x.name, KeyFor(x, r)>>
             w == Evict(Add(st.win, r, key), r.ts)
             new == Found(x.emit_type, KeyFor(x, r), Fires(x, get(w, key)))
  <2>1. WindowOK(w)
    BY <1>4, AddEvictOK
  <2>2. new \in Seq(T)
    <3>1. Fires(x, get(w, key)) \in BOOLEAN
      BY DEF Fires
    <3>2. [type |-> x.emit_type, key |-> KeyFor(x, r)] \in T
      OBVIOUS
    <3> HIDE DEF T, w
    <3> QED
      BY <3>1, <3>2, HasFound
  <2>3. FeedRule(st, x, r).win = w /\ FeedRule(st, x, r).out = st.out \o new
    BY DEF FeedRule
  <2> HIDE DEF w, new, T
  <2>4. st.out \o new \in Seq(T)
    BY <1>4, <2>2, ConcatProperties
  <2> QED
    BY <1>4, <2>1, <2>3, <2>4 DEF FeedOne
<1> HIDE DEF OK
<1>5. 0 \in P
  BY <1>3
<1>6. ASSUME NEW n \in Nat, n \in P PROVE n + 1 \in P
  <2> SUFFICES ASSUME n + 1 <= Len(rules) PROVE OK(f[n + 1])
    OBVIOUS
  <2>1. OK(f[n])
    BY <1>1, <1>6
  <2>2. n + 1 \in 1 .. Len(rules) /\ (n + 1) - 1 = n
    BY <1>1
  <2>3. f[n + 1] = FeedOne(f[n], rules[n + 1], r)
    BY <1>2, <2>2 DEF Rounds
  <2> QED
    BY <1>1, <1>4, <2>1, <2>2, <2>3
<1>7. \A n \in Nat : n \in P
  <2> HIDE DEF P
  <2> QED
    BY <1>5, <1>6, InductionOnNat
<1>8. OK(f[Len(rules)])
  BY <1>1, <1>7
<1> QED
  BY <1>2, <1>8 DEF Rounds, OK

-----------------------------------------------------------------------------
(* The type invariant. *)

RulesOf(f) == [i \in DOMAIN f |-> Rule(f[i])]
RulesInv == \A s \in DOMAIN engines :
              WindowOK(engines[s].win_) /\ \E S : engines[s].rules \in Seq(S)
OutInv ==
  /\ program \in {"main", "api"}
  /\ feeds \in 0 .. MaxFed[program]
  /\ IsPrefix(out, detected \o fired)

LEMMA PrefixItself ==
  ASSUME NEW S, NEW d \in Seq(S), NEW m \in 0 .. Len(d)
  PROVE  IsPrefix(SubSeq(d, 1, m), d)
<1>1. Len(d) \in Nat /\ m \in Nat /\ m <= Len(d) /\ DOMAIN d = 1 .. Len(d)
  BY LenProperties
<1> DEFINE p == SubSeq(d, 1, m)
<1>2. /\ p \in Seq(S) /\ Len(p) = m
      /\ \A i \in 1 .. m : p[i] = d[i]
  <2>1. \A i \in 1 .. m : d[i] \in S
    BY <1>1, ElementOfSeq
  <2>2. 1 + m - 1 = m /\ (1 <= m + 1) /\ \A i \in 1 .. m : 1 + i - 1 = i
    BY <1>1
  <2> QED
    BY <1>1, <2>1, <2>2, SubSeqProperties
<1>3. SubSeq(p, 1, m) = SubSeq(d, 1, m)
  <2> HIDE DEF p
  <2> QED
    BY <1>1, <1>2
<1> HIDE DEF p
<1> QED
  BY <1>1, <1>2, <1>3 DEF IsPrefix, p

LEMMA RulesInvariant == Spec => []RulesInv
<1>1. Init => RulesInv
  <2> SUFFICES ASSUME Init, NEW s \in DOMAIN engines
               PROVE  WindowOK(engines[s].win_) /\ \E S : engines[s].rules \in Seq(S)
    BY DEF RulesInv
  <2>1. PICK f \in RuleFiles : engines[s] = NewEngine(RulesOf(f))
    <3>1. engines # <<>>
      OBVIOUS
    <3>2. PICK f \in RuleFiles, t \in Slots : engines = [u \in {t} |-> NewEngine(RulesOf(f))]
      BY <3>1, Zenon DEF Init, RulesOf
    <3> QED
      BY <3>2
  <2>2. PICK S : RulesOf(f) \in Seq(S)
    <3> DEFINE S == {Rule(o) : o \in Range(f)}
    <3>1. f \in Seq(Range(f))
      BY EngineAssumption
    <3>2. Len(f) \in Nat /\ DOMAIN f = 1 .. Len(f) /\ \A i \in 1 .. Len(f) : f[i] \in Range(f)
      BY <3>1, LenProperties, ElementOfSeq
    <3>3. \A i \in 1 .. Len(f) : Rule(f[i]) \in S
      BY <3>2
    <3> HIDE DEF S
    <3>4. RulesOf(f) \in Seq(S)
      BY <3>2, <3>3 DEF RulesOf
    <3> QED
      BY <3>4
  <2>3. engines[s].rules = RulesOf(f) /\ engines[s].win_ = <<>>
    BY <2>1, NewEngineFields
  <2>4. WindowOK(<<>>)
    BY DEF WindowOK
  <2> QED
    BY <2>2, <2>3, <2>4
<1>2. WindowsInv /\ RulesInv /\ [Next]_vars => RulesInv'
  <2> SUFFICES ASSUME WindowsInv, RulesInv, [Next]_vars PROVE RulesInv'
    OBVIOUS
  <2>1. ASSUME NEW s \in Slots, New(s) PROVE RulesInv'
    <3>1. engines'[s].win_ = <<>> /\ engines'[s].rules = <<>>
      BY <2>1, NewEffect, NewEngineFields
    <3>2. WindowOK(engines'[s].win_) /\ \E S : engines'[s].rules \in Seq(S)
      <4>1. WindowOK(<<>>) /\ <<>> \in Seq({})
        BY DEF WindowOK
      <4> QED
        BY <3>1, <4>1
    <3>3. /\ DOMAIN engines' = DOMAIN engines \cup {s}
          /\ \A t \in DOMAIN engines : engines'[t] = engines[t]
      BY <2>1, NewEffect, Zenon
    <3> QED
      BY <3>2, <3>3 DEF RulesInv
  <2>2. ASSUME NEW s \in Slots, NEW r \in Records, Feed(s, r) PROVE RulesInv'
    <3>1. /\ s \in DOMAIN engines /\ DOMAIN engines' = DOMAIN engines
          /\ engines'[s] = FeedEngine(engines[s], r, count[r.src_ip] + 1)
          /\ \A t \in DOMAIN engines : t # s => engines'[t] = engines[t]
      BY <2>2, FeedEffect
    <3>2. /\ engines'[s].rules = engines[s].rules
          /\ engines'[s].win_ = FeedRules(engines[s].win_, engines[s].rules, r).win
      BY <3>1, FeedEngineFields DEF WindowsInv
    <3>3. WindowOK(engines'[s].win_)
      BY <3>1, <3>2, FeedRulesOK DEF RulesInv
    <3> QED
      BY <3>1, <3>2, <3>3 DEF RulesInv
  <2>3. ASSUME NEW s \in Slots, Free(s) PROVE RulesInv'
    BY <2>3, FreeEffect DEF RulesInv
  <2>4. CASE UNCHANGED vars
    BY <2>4 DEF vars, RulesInv
  <2> QED
    BY <2>1, <2>2, <2>3, <2>4 DEF Next
<1> QED
  BY <1>1, <1>2, WindowsInvariant, PTL DEF Spec

LEMMA OutInvariant == Spec => []OutInv
<1>0. IsPrefix(<<>>, <<>> \o <<>>)
  <2>1. <<>> \o <<>> = <<>> /\ <<>> \in Seq({}) /\ SubSeq(<<>>, 1, 0) = <<>> /\ Len(<<>>) = 0
    OBVIOUS
  <2> QED
    BY <2>1 DEF IsPrefix
<1>1. Init => OutInv
  <2> SUFFICES ASSUME Init PROVE OutInv
    OBVIOUS
  <2>1. /\ program \in {"main", "api"} /\ feeds = 0
        /\ detected = <<>> /\ fired = <<>> /\ out = <<>>
    BY DEF Init
  <2>2. MaxFed[program] \in Nat
    BY <2>1, EngineAssumption
  <2> QED
    BY <1>0, <2>1, <2>2 DEF OutInv
<1>2. WindowsInv /\ RulesInv /\ OutInv /\ [Next]_vars => OutInv'
  <2> SUFFICES ASSUME WindowsInv, RulesInv, OutInv, [Next]_vars PROVE OutInv'
    OBVIOUS
  <2>1. ASSUME NEW s \in Slots, New(s) \/ Free(s) PROVE OutInv'
    <3>1. /\ program' = program /\ feeds' = feeds
          /\ detected' = <<>> /\ fired' = <<>> /\ out' = <<>>
      BY <2>1 DEF New, Free, Quiet
    <3> QED
      BY <1>0, <3>1 DEF OutInv
  <2>2. ASSUME NEW s \in Slots, NEW r \in Records, Feed(s, r) PROVE OutInv'
    <3>1. program' = program /\ feeds' = feeds + 1 /\ feeds < MaxFed[program]
      BY <2>2 DEF Feed
    <3>2. program' \in {"main", "api"} /\ feeds' \in 0 .. MaxFed[program']
      <4>1. MaxFed[program] \in Nat
        BY EngineAssumption DEF OutInv
      <4> QED
        BY <3>1, <4>1 DEF OutInv
    <3>3. \E S : detected' \in Seq(S)
      <4>1. \E past \in BOOLEAN : \E src, dst : detected' = Report(src, dst, r, past)
        BY <2>2 DEF Feed, Report
      <4> QED
        BY <4>1, ReportSays
    <3>4. \E T : fired' \in Seq(T)
      <4>1. s \in DOMAIN engines /\ fired' = FeedRules(engines[s].win_, engines[s].rules, r).out
        BY <2>2 DEF Feed
      <4> QED
        BY <4>1, FeedRulesOK DEF RulesInv
    <3> DEFINE d == detected' \o fired'
    <3>5. PICK U : d \in Seq(U)
      <4>1. PICK S : detected' \in Seq(S)
        BY <3>3
      <4>2. PICK T : fired' \in Seq(T)
        BY <3>4
      <4>3. detected' \in Seq(S \cup T) /\ fired' \in Seq(S \cup T)
        BY <4>1, <4>2, SeqWider
      <4>4. d \in Seq(S \cup T)
        BY <4>3, ConcatProperties
      <4> QED
        BY <4>4
    <3>6. Len(d) \in Nat
      BY <3>5, LenProperties
    <3>7. out' = d \/ out' = SubSeq(d, 1, Min({MaxOut, Len(d)}))
      BY <2>2 DEF Feed
    <3> HIDE DEF d
    <3>8. IsPrefix(out', d)
      <4>1. d = SubSeq(d, 1, Len(d))
        BY <3>5, <3>6
      <4>2. IsPrefix(d, d)
        BY <3>5, <3>6, <4>1 DEF IsPrefix
      <4>3. Min({MaxOut, Len(d)}) \in 0 .. Len(d)
        <5>1. \E x \in {MaxOut, Len(d)} : \A y \in {MaxOut, Len(d)} : x <= y
          BY <3>6, EngineAssumption
        <5>2. /\ Min({MaxOut, Len(d)}) \in {MaxOut, Len(d)}
              /\ \A y \in {MaxOut, Len(d)} : Min({MaxOut, Len(d)}) <= y
          BY <5>1 DEF Min
        <5> QED
          BY <5>2, <3>6, EngineAssumption
      <4> QED
        BY <3>5, <3>7, <4>2, <4>3, PrefixItself
    <3> QED
      BY <3>2, <3>8 DEF OutInv, d
  <2>3. CASE UNCHANGED vars
    BY <2>3 DEF vars, OutInv
  <2> QED
    BY <2>1, <2>2, <2>3 DEF Next
<1> QED
  BY <1>1, <1>2, WindowsInvariant, RulesInvariant, PTL DEF Spec

(* The windows, those of the rules included, hold records and no more than  *)
(* their bound, and the caller gets the first of the findings.              *)
THEOREM TypeCorrect == Spec => []TypeOK
<1>1. WindowsInv /\ CountOK /\ RulesInv /\ OutInv => TypeOK
  <2> SUFFICES ASSUME WindowsInv, CountOK, RulesInv, OutInv PROVE TypeOK
    OBVIOUS
  <2>1. ASSUME NEW s \in DOMAIN engines, NEW win \in Windows(engines[s]), NEW k \in DOMAIN win
        PROVE  /\ win[k] \in Seq(Records)
               /\ win[k] # <<>> => Len(win[k]) <= cfg.max_records_per_key
    <3>1. WindowOK(engines[s].by_src_) /\ WindowOK(engines[s].by_dst_)
      BY DEF WindowsInv, Ips, WindowBy, Follows
    <3>2. WindowOK(win)
      BY <3>1 DEF Windows, RulesInv
    <3> QED
      BY <3>2 DEF WindowOK, Capped, Cap
  <2> QED
    BY <2>1 DEF TypeOK, WindowsInv, CountOK, OutInv
<1> QED
  BY <1>1, WindowsInvariant, CountInvariant, RulesInvariant, OutInvariant, PTL

-----------------------------------------------------------------------------
(* Sequences that are flattened, element by element. *)

FlatSteps(f, ss, m) == f = [i \in 1 .. m |-> IF i = 1 THEN ss[i] ELSE f[i - 1] \o ss[i]]
FlatUpTo(F, m) == FlattenSeq([i \in 1 .. m |-> F[i]])

LEMMA FlatStepsExist ==
  ASSUME NEW ss, NEW k \in Nat
  PROVE  \E f : FlatSteps(f, ss, k)
<1> DEFINE P == {m \in Nat : \E f : FlatSteps(f, ss, m)}
<1>1. 0 \in P
  <2>1. FlatSteps([i \in 1 .. 0 |-> i], ss, 0)
    BY DEF FlatSteps
  <2> QED
    BY <2>1
<1>2. ASSUME NEW m \in Nat, m \in P PROVE m + 1 \in P
  <2>1. PICK f : FlatSteps(f, ss, m)
    BY <1>2
  <2> DEFINE g == [i \in 1 .. m + 1 |-> IF i = 1 THEN ss[i] ELSE f[i - 1] \o ss[i]]
  <2>2. \A i \in 1 .. m : g[i] = f[i]
    <3>1. \A i \in 1 .. m : f[i] = IF i = 1 THEN ss[i] ELSE f[i - 1] \o ss[i]
      BY <2>1 DEF FlatSteps
    <3>2. \A i \in 1 .. m : i \in 1 .. m + 1
      OBVIOUS
    <3> QED
      BY <3>1, <3>2
  <2>3. \A i \in 1 .. m + 1 : g[i] = IF i = 1 THEN ss[i] ELSE g[i - 1] \o ss[i]
    <3> SUFFICES ASSUME NEW i \in 1 .. m + 1, i # 1 PROVE f[i - 1] = g[i - 1]
      OBVIOUS
    <3>1. i - 1 \in 1 .. m
      OBVIOUS
    <3> QED
      BY <2>2, <3>1
  <2>4. FlatSteps(g, ss, m + 1)
    BY <2>3 DEF FlatSteps
  <2> HIDE DEF g
  <2> QED
    BY <2>4
<1>3. \A m \in Nat : m \in P
  <2> HIDE DEF P
  <2> QED
    BY <1>1, <1>2, InductionOnNat
<1> QED
  BY <1>3

LEMMA FlatStepsAgree ==
  ASSUME NEW ss, NEW tt, NEW f, NEW g, NEW k \in Nat, NEW l \in Nat, k <= l,
         FlatSteps(f, ss, k), FlatSteps(g, tt, l), \A i \in 1 .. k : ss[i] = tt[i]
  PROVE  \A i \in 1 .. k : f[i] = g[i]
<1>1. /\ \A i \in 1 .. k : f[i] = IF i = 1 THEN ss[i] ELSE f[i - 1] \o ss[i]
      /\ \A i \in 1 .. l : g[i] = IF i = 1 THEN tt[i] ELSE g[i - 1] \o tt[i]
  BY DEF FlatSteps
<1> DEFINE P == {m \in Nat : m \in 1 .. k => f[m] = g[m]}
<1>2. 0 \in P
  OBVIOUS
<1>3. ASSUME NEW m \in Nat, m \in P PROVE m + 1 \in P
  <2> SUFFICES ASSUME m + 1 \in 1 .. k PROVE f[m + 1] = g[m + 1]
    OBVIOUS
  <2>1. CASE m = 0
    <3>1. 1 \in 1 .. k /\ 1 \in 1 .. l
      BY <2>1
    <3> QED
      BY <1>1, <2>1, <3>1
  <2>2. CASE m # 0
    <3>1. m \in 1 .. k /\ m + 1 \in 1 .. l /\ m + 1 # 1 /\ (m + 1) - 1 = m
      BY <2>2
    <3>2. f[m] = g[m]
      BY <1>3, <3>1
    <3>3. f[m + 1] = f[m] \o ss[m + 1] /\ g[m + 1] = g[m] \o tt[m + 1]
      BY <1>1, <3>1
    <3> QED
      BY <3>2, <3>3
  <2> QED
    BY <2>1, <2>2
<1>4. \A m \in Nat : m \in P
  <2> HIDE DEF P
  <2> QED
    BY <1>2, <1>3, InductionOnNat
<1> QED
  BY <1>4

LEMMA FlatIs ==
  ASSUME NEW ss, Len(ss) \in Nat
  PROVE  /\ Len(ss) = 0 => FlattenSeq(ss) = ss
         /\ Len(ss) # 0 => \E f : FlatSteps(f, ss, Len(ss)) /\ FlattenSeq(ss) = f[Len(ss)]
<1>1. Len(ss) # 0 => FlattenSeq(ss) = (CHOOSE f : FlatSteps(f, ss, Len(ss)))[Len(ss)]
  BY DEF FlattenSeq, FlatSteps
<1>2. FlatSteps(CHOOSE f : FlatSteps(f, ss, Len(ss)), ss, Len(ss))
  BY FlatStepsExist
<1>3. Len(ss) = 0 => FlattenSeq(ss) = ss
  BY DEF FlattenSeq
<1> QED
  BY <1>1, <1>2, <1>3

LEMMA FlatNothing == ASSUME NEW F PROVE FlatUpTo(F, 0) = <<>>
<1> DEFINE ss == [i \in 1 .. 0 |-> F[i]]
<1>1. Len(ss) = 0 /\ ss = <<>>
  OBVIOUS
<1> HIDE DEF ss
<1>2. FlattenSeq(ss) = <<>>
  BY <1>1, FlatIs
<1> QED
  BY <1>2 DEF FlatUpTo, ss

LEMMA FlatOneMore ==
  ASSUME NEW T, NEW F, NEW m \in Nat, F[m + 1] \in Seq(T)
  PROVE  FlatUpTo(F, m + 1) = FlatUpTo(F, m) \o F[m + 1]
<1> DEFINE ss == [i \in 1 .. m + 1 |-> F[i]]
           tt == [i \in 1 .. m |-> F[i]]
<1>1. Len(ss) = m + 1 /\ Len(tt) = m
  OBVIOUS
<1>2. \A i \in 1 .. m : tt[i] = ss[i]
  OBVIOUS
<1>3. ss[m + 1] = F[m + 1] /\ ss[1] = F[1]
  OBVIOUS
<1>4. FlattenSeq(tt) = FlatUpTo(F, m) /\ FlattenSeq(ss) = FlatUpTo(F, m + 1)
  BY DEF FlatUpTo
<1> HIDE DEF ss, tt
<1>5. PICK f : FlatSteps(f, ss, m + 1) /\ FlattenSeq(ss) = f[m + 1]
  BY <1>1, FlatIs
<1>6. \A i \in 1 .. m + 1 : f[i] = IF i = 1 THEN ss[i] ELSE f[i - 1] \o ss[i]
  BY <1>5 DEF FlatSteps
<1>7. CASE m = 0
  <2>1. FlattenSeq(ss) = F[1]
    BY <1>3, <1>5, <1>6, <1>7
  <2>2. FlatUpTo(F, m) = <<>>
    BY <1>7, FlatNothing
  <2>3. <<>> \o F[1] = F[1]
    BY <1>7, ConcatEmptySeq
  <2> QED
    BY <1>4, <1>7, <2>1, <2>2, <2>3
<1>8. CASE m # 0
  <2>1. PICK g : FlatSteps(g, tt, m) /\ FlattenSeq(tt) = g[m]
    BY <1>1, <1>8, FlatIs
  <2>2. m \in 1 .. m /\ m <= m + 1 /\ m + 1 \in Nat
    BY <1>8
  <2>3. g[m] = f[m]
    BY <1>2, <1>5, <2>1, <2>2, FlatStepsAgree
  <2>4. m + 1 \in 1 .. m + 1 /\ m + 1 # 1 /\ (m + 1) - 1 = m
    BY <1>8
  <2>5. f[m + 1] = f[m] \o ss[m + 1]
    BY <1>6, <2>4
  <2> QED
    BY <1>3, <1>4, <1>5, <2>1, <2>3, <2>5
<1> QED
  BY <1>7, <1>8

LEMMA FlatInSeq ==
  ASSUME NEW T, NEW F, NEW k \in Nat, \A i \in 1 .. k : F[i] \in Seq(T)
  PROVE  FlatUpTo(F, k) \in Seq(T)
<1> DEFINE P == {m \in Nat : m <= k => FlatUpTo(F, m) \in Seq(T)}
<1>1. 0 \in P
  <2>1. <<>> \in Seq(T)
    OBVIOUS
  <2> QED
    BY <2>1, FlatNothing
<1>2. ASSUME NEW m \in Nat, m \in P PROVE m + 1 \in P
  <2> SUFFICES ASSUME m + 1 <= k PROVE FlatUpTo(F, m + 1) \in Seq(T)
    OBVIOUS
  <2>1. F[m + 1] \in Seq(T) /\ FlatUpTo(F, m) \in Seq(T)
    BY <1>2
  <2>2. FlatUpTo(F, m) \o F[m + 1] \in Seq(T)
    BY <2>1, ConcatProperties
  <2> QED
    BY <2>1, <2>2, FlatOneMore
<1>3. \A m \in Nat : m \in P
  <2> HIDE DEF P
  <2> QED
    BY <1>1, <1>2, InductionOnNat
<1> QED
  BY <1>3

-----------------------------------------------------------------------------
(* What rules put into the window of a key, rule by rule and record by      *)
(* record.                                                                  *)

LEMMA ShareOK ==
  ASSUME NEW rule, NEW key, NEW r \in Records
  PROVE  Share(rule, key, r) \in Seq(Records)
BY DEF Share

LEMMA PutSteps ==
  ASSUME NEW rules, NEW key, NEW r \in Records
  PROVE  /\ Put(rules, key, r, 0) = <<>>
         /\ \A m \in Nat : /\ Put(rules, key, r, m) \in Seq(Records)
                           /\ Put(rules, key, r, m + 1)
                                = Put(rules, key, r, m) \o Share(rules[m + 1], key, r)
<1> DEFINE F == [i \in Nat |-> Share(rules[i], key, r)]
<1>1. \A i \in Nat : F[i] = Share(rules[i], key, r) /\ F[i] \in Seq(Records)
  BY ShareOK
<1>2. \A m \in Nat : Put(rules, key, r, m) = FlatUpTo(F, m)
  <2> TAKE m \in Nat
  <2>1. [i \in 1 .. m |-> F[i]] = [i \in 1 .. m |-> Share(rules[i], key, r)]
    OBVIOUS
  <2> HIDE DEF F
  <2> QED
    BY <2>1 DEF Put, FlatUpTo
<1> HIDE DEF F
<1>3. ASSUME NEW m \in Nat
      PROVE  /\ FlatUpTo(F, m) \in Seq(Records)
             /\ FlatUpTo(F, m + 1) = FlatUpTo(F, m) \o F[m + 1]
  <2>1. F[m + 1] \in Seq(Records) /\ \A i \in 1 .. m : F[i] \in Seq(Records)
    BY <1>1
  <2> QED
    BY <2>1, FlatOneMore, FlatInSeq
<1>4. \A m \in Nat : m + 1 \in Nat
  OBVIOUS
<1> QED
  BY <1>1, <1>2, <1>3, <1>4, FlatNothing

(* All that a log has put into a window. *)
Streamed(rules, key, log) == Shares(rules, key, log, Len(rules))

LEMMA SharesSteps ==
  ASSUME NEW rules, Len(rules) \in Nat, NEW key
  PROVE  /\ Streamed(rules, key, <<>>) = <<>>
         /\ \A log \in Seq(Records) : Streamed(rules, key, log) \in Seq(Records)
         /\ \A log \in Seq(Records), r \in Records, m \in Nat :
              Shares(rules, key, Append(log, r), m)
                = Streamed(rules, key, log) \o Put(rules, key, r, m)
<1>1. Streamed(rules, key, <<>>) = <<>>
  <2> DEFINE ss == [n \in DOMAIN <<>> |->
                      Put(rules, key, <<>>[n],
                          IF n < Len(<<>>) THEN Len(rules) ELSE Len(rules))]
  <2>1. ss = <<>>
    OBVIOUS
  <2>2. Streamed(rules, key, <<>>) = FlattenSeq(ss)
    BY DEF Streamed, Shares
  <2> HIDE DEF ss
  <2>3. Len(ss) = 0
    BY <2>1
  <2> QED
    BY <2>1, <2>2, <2>3, FlatIs
<1>2. ASSUME NEW log \in Seq(Records), NEW r \in Records, NEW m \in Nat
      PROVE  /\ Streamed(rules, key, log) \in Seq(Records)
             /\ Shares(rules, key, Append(log, r), m)
                  = Streamed(rules, key, log) \o Put(rules, key, r, m)
  <2> DEFINE l == Len(log)
             a == Append(log, r)
             F == [n \in Nat |-> IF n < l + 1 THEN Put(rules, key, log[n], Len(rules))
                                 ELSE Put(rules, key, r, m)]
  <2>1. l \in Nat /\ DOMAIN log = 1 .. l /\ \A n \in 1 .. l : log[n] \in Records
    BY LenProperties, ElementOfSeq
  <2>2. /\ Len(a) = l + 1 /\ DOMAIN a = 1 .. l + 1 /\ a[l + 1] = r
        /\ \A n \in 1 .. l : a[n] = log[n]
    <3>1. a \in Seq(Records) /\ Len(a) = l + 1 /\ a[l + 1] = r /\ \A n \in 1 .. l : a[n] = log[n]
      BY AppendProperties
    <3> QED
      BY <3>1, LenProperties
  <2>3. /\ \A n \in 1 .. l : F[n] = Put(rules, key, log[n], Len(rules))
        /\ F[l + 1] = Put(rules, key, r, m)
    BY <2>1
  <2> HIDE DEF F, a, l
  <2>4. \A n \in 1 .. l + 1 : F[n] \in Seq(Records)
    <3>1. ASSUME NEW n \in 1 .. l PROVE F[n] \in Seq(Records)
      <4>1. log[n] \in Records /\ Len(rules) \in Nat
        BY <2>1
      <4>2. Put(rules, key, log[n], Len(rules)) \in Seq(Records)
        BY <4>1, PutSteps
      <4> QED
        BY <2>3, <4>2
    <3>2. F[l + 1] \in Seq(Records)
      BY <2>3, PutSteps
    <3> QED
      BY <2>1, <3>1, <3>2
  <2>5. Streamed(rules, key, log) = FlatUpTo(F, l)
    <3>1. \A n \in 1 .. l :
            Put(rules, key, log[n], IF n < l THEN Len(rules) ELSE Len(rules)) = F[n]
      BY <2>3
    <3>2. [n \in DOMAIN log |->
             Put(rules, key, log[n], IF n < Len(log) THEN Len(rules) ELSE Len(rules))]
            = [n \in 1 .. l |-> F[n]]
      BY <2>1, <3>1 DEF l
    <3> QED
      BY <3>2 DEF Streamed, Shares, FlatUpTo
  <2>6. Shares(rules, key, a, m) = FlatUpTo(F, l + 1)
    <3>1. \A n \in 1 .. l + 1 :
            Put(rules, key, a[n], IF n < l + 1 THEN Len(rules) ELSE m) = F[n]
      <4>1. ASSUME NEW n \in 1 .. l + 1, n < l + 1
            PROVE  Put(rules, key, a[n], Len(rules)) = F[n]
        <5>1. n \in 1 .. l
          BY <2>1, <4>1
        <5> QED
          BY <5>1, <2>2, <2>3
      <4>2. ASSUME NEW n \in 1 .. l + 1, ~ (n < l + 1)
            PROVE  Put(rules, key, a[n], m) = F[n]
        <5>1. n = l + 1
          BY <2>1, <4>2
        <5> QED
          BY <5>1, <2>2, <2>3
      <4> QED
        BY <4>1, <4>2
    <3>2. [n \in DOMAIN a |->
             Put(rules, key, a[n], IF n < Len(a) THEN Len(rules) ELSE m)]
            = [n \in 1 .. l + 1 |-> F[n]]
      BY <2>2, <3>1
    <3> QED
      BY <3>2 DEF Shares, FlatUpTo
  <2>7. FlatUpTo(F, l + 1) = FlatUpTo(F, l) \o F[l + 1]
    <3>1. F[l + 1] \in Seq(Records)
      BY <2>1, <2>4
    <3> QED
      BY <2>1, <3>1, FlatOneMore
  <2>8. FlatUpTo(F, l) \in Seq(Records)
    <3>1. \A n \in 1 .. l : F[n] \in Seq(Records)
      BY <2>1, <2>4
    <3> QED
      BY <2>1, <3>1, FlatInSeq
  <2> QED
    BY <2>3, <2>5, <2>6, <2>7, <2>8 DEF a
<1>3. ASSUME NEW log \in Seq(Records) PROVE Streamed(rules, key, log) \in Seq(Records)
  <2>1. CASE Records = {}
    <3>1. log = <<>>
      BY <2>1, LenProperties, ElementOfSeq, EmptySeq
    <3> QED
      BY <3>1, <1>1
  <2>2. CASE Records # {}
    BY <2>2, <1>2
  <2> QED
    BY <2>1, <2>2
<1> QED
  BY <1>1, <1>2, <1>3

-----------------------------------------------------------------------------
(* The window of a key follows the stream of what was put into it: it holds *)
(* the last records of the stream, and of those that max_records_per_key    *)
(* has room for it lacks only stale ones.                                   *)

Tracks(dq, S, now) ==
  /\ dq \in Seq(Records) /\ Capped(dq) /\ S \in Seq(Records)
  /\ InOrder(S) /\ \A i \in DOMAIN S : S[i].ts <= now
  /\ Len(dq) <= Len(S)
  /\ \A b \in Nat : b < Len(dq) => Back(dq, b) = Back(S, b)
  /\ \A b \in Nat : Len(dq) <= b /\ b < Len(S) /\ b < Cap => now - Back(S, b).ts > Span

LEMMA NothingTracks ==
  ASSUME NEW now
  PROVE  Tracks(<<>>, <<>>, now)
<1>1. Len(<<>>) = 0 /\ DOMAIN <<>> = {} /\ <<>> \in Seq(Records)
  OBVIOUS
<1>2. \A b \in Nat : ~ (b < 0)
  OBVIOUS
<1> QED
  BY <1>1, <1>2 DEF Tracks, Capped, InOrder

LEMMA SeqBack ==
  ASSUME NEW S \in Seq(Records)
  PROVE  /\ Len(S) \in Nat /\ DOMAIN S = 1 .. Len(S)
         /\ \A b \in Nat : b < Len(S) =>
              /\ Len(S) - b \in DOMAIN S /\ Back(S, b) = S[Len(S) - b]
              /\ Back(S, b) \in Records /\ Back(S, b).ts \in Int
<1>1. Len(S) \in Nat /\ DOMAIN S = 1 .. Len(S) /\ \A i \in 1 .. Len(S) : S[i] \in Records
  BY LenProperties, ElementOfSeq
<1>2. ASSUME NEW b \in Nat, b < Len(S) PROVE Len(S) - b \in 1 .. Len(S)
  BY <1>1, <1>2
<1> QED
  BY <1>1, <1>2, EngineAssumption DEF Back

LEMMA TracksPushed ==
  ASSUME NEW dq, NEW S, NEW r \in Records, Tracks(dq, S, r.ts)
  PROVE  Tracks(Pushed(dq, r), Append(S, r), r.ts)
<1> DEFINE p == Pushed(dq, r)
           A == Append(S, r)
           l == Len(S)
<1>1. dq \in Seq(Records) /\ Capped(dq) /\ S \in Seq(Records) /\ r.ts \in Int
  BY EngineAssumption DEF Tracks
<1>2. /\ l \in Nat /\ DOMAIN S = 1 .. l
      /\ A \in Seq(Records) /\ Len(A) = l + 1 /\ DOMAIN A = 1 .. l + 1
      /\ A[l + 1] = r /\ \A i \in 1 .. l : A[i] = S[i]
  <2>1. /\ A \in Seq(Records) /\ Len(A) = l + 1 /\ A[l + 1] = r
        /\ \A i \in 1 .. l : A[i] = S[i]
    BY <1>1, AppendProperties
  <2> QED
    BY <1>1, <2>1, LenProperties
<1>3. /\ p \in Seq(Records) /\ Capped(p) /\ Len(p) \in Nat /\ Len(p) <= Len(dq) + 1
      /\ \A b \in Nat : b < Len(p) => Back(p, b) = IF b = 0 THEN r ELSE Back(dq, b - 1)
      /\ \A b \in Nat : b < Len(dq) + 1 /\ b < Cap => b < Len(p)
  BY <1>1, PushedBack
<1>4. Len(dq) \in Nat /\ Len(dq) <= l
  BY <1>1, LenProperties DEF Tracks
<1> HIDE DEF p, A, l
<1>5. \A i \in DOMAIN A : A[i].ts <= r.ts
  <2>1. \A i \in 1 .. l : A[i].ts <= r.ts
    BY <1>2 DEF Tracks
  <2> QED
    BY <1>1, <1>2, <2>1
<1>6. InOrder(A)
  <2> SUFFICES ASSUME NEW i \in DOMAIN A, NEW j \in DOMAIN A, i <= j PROVE A[i].ts <= A[j].ts
    BY DEF InOrder
  <2>1. CASE j = l + 1
    BY <2>1, <1>2, <1>5
  <2>2. CASE j # l + 1
    <3>1. i \in 1 .. l /\ j \in 1 .. l
      BY <1>2, <2>2
    <3> QED
      BY <3>1, <1>2 DEF Tracks, InOrder
  <2> QED
    BY <2>1, <2>2
<1>7. \A b \in Nat : b < l + 1 => Back(A, b) = IF b = 0 THEN r ELSE Back(S, b - 1)
  <2> SUFFICES ASSUME NEW b \in Nat, b < l + 1, b # 0 PROVE A[(l + 1) - b] = S[l - (b - 1)]
    BY <1>2 DEF Back, l
  <2>1. (l + 1) - b \in 1 .. l /\ (l + 1) - b = l - (b - 1)
    BY <1>2
  <2> QED
    BY <1>2, <2>1
<1>8. ASSUME NEW b \in Nat, b < Len(p) PROVE Back(p, b) = Back(A, b)
  <2>1. b < l + 1
    BY <1>2, <1>3, <1>4, <1>8
  <2>2. CASE b = 0
    BY <1>3, <1>7, <1>8, <2>1, <2>2
  <2>3. CASE b # 0
    <3>1. b - 1 \in Nat /\ b - 1 < Len(dq)
      BY <1>3, <1>4, <1>8, <2>3
    <3>2. Back(dq, b - 1) = Back(S, b - 1)
      BY <3>1 DEF Tracks
    <3> QED
      BY <1>3, <1>7, <1>8, <2>1, <2>3, <3>2
  <2> QED
    BY <2>2, <2>3
<1>9. ASSUME NEW b \in Nat, Len(p) <= b, b < l + 1, b < Cap PROVE r.ts - Back(A, b).ts > Span
  <2>1. ~ (b < Len(p))
    BY <1>3, <1>9
  <2>2. ~ (b < Len(dq) + 1)
    BY <1>3, <1>9, <2>1
  <2>3. Cap \in Int
    BY EngineAssumption DEF Cap
  <2>4. b # 0 /\ b - 1 \in Nat /\ Len(dq) <= b - 1 /\ b - 1 < l /\ b - 1 < Cap
    BY <1>2, <1>4, <1>9, <2>2, <2>3
  <2>5. r.ts - Back(S, b - 1).ts > Span
    BY <2>4 DEF Tracks, l
  <2> QED
    BY <1>7, <1>9, <2>4, <2>5
<1>10. Len(p) <= l + 1
  BY <1>2, <1>3, <1>4
<1>11. Tracks(p, A, r.ts)
  BY <1>2, <1>3, <1>5, <1>6, <1>8, <1>9, <1>10 DEF Tracks
<1> QED
  BY <1>11 DEF p, A

LEMMA TracksFresh ==
  ASSUME NEW dq, NEW S, NEW now \in Int, Tracks(dq, S, now)
  PROVE  LET f == Fresh(dq, now, Span)
         IN  Tracks(f, S, now) /\ (f # <<>> => now - f[1].ts <= Span)
<1> DEFINE f == Fresh(dq, now, Span)
<1>1. dq \in Seq(Records) /\ Capped(dq) /\ S \in Seq(Records)
  BY DEF Tracks
<1>2. Len(dq) \in Nat /\ Len(S) \in Nat /\ Len(dq) <= Len(S)
  BY <1>1, LenProperties DEF Tracks
<1>3. /\ f \in Seq(Records) /\ Capped(f) /\ Len(f) \in Nat /\ Len(f) <= Len(dq)
      /\ \A b \in Nat : b < Len(f) => Back(f, b) = Back(dq, b)
      /\ \A b \in Nat : b < Len(dq) /\ now - Back(dq, b).ts <= Span => b < Len(f)
      /\ f # <<>> => now - f[1].ts <= Span
  BY <1>1, FreshBack
<1> HIDE DEF f
<1>4. \A b \in Nat : b < Len(f) => Back(f, b) = Back(S, b)
  <2> TAKE b \in Nat
  <2> HAVE b < Len(f)
  <2>1. b < Len(dq)
    BY <1>2, <1>3
  <2> QED
    BY <1>3, <2>1 DEF Tracks
<1>5. ASSUME NEW b \in Nat, Len(f) <= b, b < Len(S), b < Cap PROVE now - Back(S, b).ts > Span
  <2>1. CASE Len(dq) <= b
    BY <1>5, <2>1 DEF Tracks
  <2>2. CASE ~ (Len(dq) <= b)
    <3>1. b < Len(dq) /\ ~ (b < Len(f))
      BY <1>2, <1>3, <1>5, <2>2
    <3>2. ~ (now - Back(dq, b).ts <= Span)
      BY <1>3, <3>1
    <3>3. Back(dq, b) = Back(S, b) /\ Back(S, b).ts \in Int
      BY <1>1, <1>5, <3>1, SeqBack DEF Tracks
    <3>4. Span \in Int
      BY EngineAssumption DEF Span
    <3> QED
      BY <3>2, <3>3, <3>4
  <2> QED
    BY <2>1, <2>2
<1>6. Len(f) <= Len(S)
  BY <1>2, <1>3
<1>7. Tracks(f, S, now)
  BY <1>1, <1>3, <1>4, <1>5, <1>6 DEF Tracks
<1> QED
  BY <1>3, <1>7 DEF f

LEMMA TracksLater ==
  ASSUME NEW dq, NEW S, NEW now \in Int, NEW then \in Int, now <= then, Tracks(dq, S, now)
  PROVE  Tracks(dq, S, then)
<1>1. S \in Seq(Records)
  BY DEF Tracks
<1>2. Span \in Int
  BY EngineAssumption DEF Span
<1>3. ASSUME NEW i \in DOMAIN S PROVE S[i].ts <= then
  <2>1. S[i] \in Records
    BY <1>1, <1>3, LenProperties, ElementOfSeq
  <2>2. S[i].ts \in Int /\ S[i].ts <= now
    BY <2>1, EngineAssumption DEF Tracks
  <2> QED
    BY <2>2
<1>4. ASSUME NEW b \in Nat, Len(dq) <= b, b < Len(S), b < Cap
      PROVE  then - Back(S, b).ts > Span
  <2>1. Back(S, b).ts \in Int /\ now - Back(S, b).ts > Span
    BY <1>1, <1>4, SeqBack DEF Tracks
  <2> QED
    BY <2>1, <1>2
<1> QED
  BY <1>3, <1>4 DEF Tracks

(* What is flattened is nothing, and then one by one the elements of f. *)
LEMMA FlatTail ==
  ASSUME NEW c \in Nat, NEW f \in Seq(Records), NEW n \in Nat, n = Len(f), n <= c, NEW F,
         \A i \in 1 .. c : F[i] = IF i <= c - n THEN <<>> ELSE <<f[i - (c - n)]>>
  PROVE  FlatUpTo(F, c) = f
<1> DEFINE d == c - n
<1>1. d \in Nat /\ d <= c /\ DOMAIN f = 1 .. n /\ \A i \in 1 .. n : f[i] \in Records
  BY LenProperties, ElementOfSeq
<1>2. \A i \in 1 .. c : F[i] = IF i <= d THEN <<>> ELSE <<f[i - d]>>
  OBVIOUS
<1>3. d + n = c
  OBVIOUS
<1> HIDE DEF d
<1> DEFINE Part(m) == IF m <= d THEN <<>> ELSE SubSeq(f, 1, m - d)
           P == {m \in Nat : m <= c => FlatUpTo(F, m) = Part(m)}
<1>4. 0 \in P
  <2>1. Part(0) = <<>>
    BY <1>1
  <2> QED
    BY <2>1, FlatNothing
<1>5. ASSUME NEW j \in 0 .. n PROVE SubSeq(f, 1, j) \in Seq(Records)
                                   /\ Len(SubSeq(f, 1, j)) = j
                                   /\ \A i \in 1 .. j : SubSeq(f, 1, j)[i] = f[i]
  <2>1. \A i \in 1 .. j : f[i] \in Records /\ 1 + i - 1 = i
    BY <1>1
  <2>2. (IF 1 <= j THEN j - 1 + 1 ELSE 0) = j /\ j - 1 + 1 = j /\ j \in Int
    OBVIOUS
  <2> QED
    BY <2>1, <2>2, SubSeqProperties
<1>6. ASSUME NEW m \in Nat, m \in P PROVE m + 1 \in P
  <2> HIDE DEF Part
  <2> SUFFICES ASSUME m + 1 <= c PROVE FlatUpTo(F, m + 1) = Part(m + 1)
    OBVIOUS
  <2>1. FlatUpTo(F, m) = Part(m) /\ m + 1 \in 1 .. c
    BY <1>6
  <2> USE DEF Part
  <2>2. CASE m + 1 <= d
    <3>0. F[m + 1] = <<>>
      BY <1>2, <2>1, <2>2
    <3>1. F[m + 1] \in Seq(Records) /\ <<>> \o F[m + 1] = <<>>
      <4>1. <<>> \in Seq(Records) /\ <<>> \o <<>> = <<>>
        OBVIOUS
      <4> QED
        BY <3>0, <4>1
    <3>2. Part(m) = <<>> /\ Part(m + 1) = <<>>
      BY <1>1, <2>2
    <3> HIDE DEF Part
    <3> QED
      BY <2>1, <3>1, <3>2, FlatOneMore
  <2>3. CASE ~ (m + 1 <= d)
    <3> DEFINE j == m - d
               s == SubSeq(f, 1, j)
               t == SubSeq(f, 1, j + 1)
    <3>1. j \in 0 .. n /\ j + 1 \in 1 .. n /\ j + 1 \in 0 .. n /\ (m + 1) - d = j + 1
      BY <1>1, <1>3, <2>1, <2>3
    <3>2. F[m + 1] = <<f[j + 1]>>
      BY <1>2, <2>1, <2>3, <3>1
    <3>3. f[j + 1] \in Records
      BY <1>1, <3>1
    <3>4. F[m + 1] \in Seq(Records)
      BY <3>2, <3>3
    <3>5. Part(m) = s
      <4>1. CASE m <= d
        <5>1. j = 0 /\ Part(m) = <<>>
          BY <3>1, <4>1, <1>1
        <5>2. s = <<>>
          BY <5>1, SubSeqEmpty
        <5> QED
          BY <5>1, <5>2
      <4>2. CASE ~ (m <= d)
        BY <4>2
      <4> QED
        BY <4>1, <4>2
    <3>6. Part(m + 1) = t
      BY <2>3, <3>1
    <3>7. t = s \o <<f[j + 1]>>
      <4>1. s \in Seq(Records) /\ Len(s) = j /\ \A i \in 1 .. j : s[i] = f[i]
        BY <1>5, <3>1
      <4>2. t \in Seq(Records) /\ Len(t) = j + 1 /\ \A i \in 1 .. j + 1 : t[i] = f[i]
        BY <1>5, <3>1
      <4> DEFINE x == <<f[j + 1]>>
      <4>3. x \in Seq(Records) /\ Len(x) = 1 /\ x[1] = f[j + 1]
        BY <3>3
      <4> HIDE DEF s, t, x, j
      <4>4. /\ s \o x \in Seq(Records) /\ Len(s \o x) = j + 1
            /\ \A i \in 1 .. j + 1 : (s \o x)[i] = IF i <= j THEN s[i] ELSE x[i - j]
        <5>1. s \o x \in Seq(Records) /\ Len(s \o x) = Len(s) + Len(x)
              /\ \A i \in 1 .. Len(s) + Len(x) :
                   (s \o x)[i] = IF i <= Len(s) THEN s[i] ELSE x[i - Len(s)]
          BY <4>1, <4>3, ConcatProperties
        <5> QED
          BY <4>1, <4>3, <5>1
      <4>5. \A i \in 1 .. j + 1 : t[i] = (s \o x)[i]
        <5> TAKE i \in 1 .. j + 1
        <5>1. CASE i <= j
          <6>1. i \in 1 .. j
            BY <5>1
          <6> QED
            BY <6>1, <5>1, <4>1, <4>2, <4>4
        <5>2. CASE ~ (i <= j)
          <6>1. i = j + 1 /\ i - j = 1
            BY <3>1, <5>2
          <6> QED
            BY <6>1, <5>2, <4>2, <4>3, <4>4
        <5> QED
          BY <5>1, <5>2
      <4>6. t = s \o x
        BY <4>2, <4>4, <4>5, SeqEqual
      <4> QED
        BY <4>6 DEF x
    <3> HIDE DEF Part, s, t, j
    <3> QED
      BY <2>1, <3>2, <3>4, <3>5, <3>6, <3>7, FlatOneMore
  <2> QED
    BY <2>2, <2>3
<1>7. \A m \in Nat : m \in P
  <2> HIDE DEF P
  <2> QED
    BY <1>4, <1>6, InductionOnNat
<1>8. FlatUpTo(F, c) = Part(c)
  BY <1>7
<1>9. Part(c) = f
  <2>1. CASE n = 0
    <3>1. c <= d /\ f = <<>>
      BY <1>1, <1>3, <2>1, EmptySeq
    <3> QED
      BY <3>1
  <2>2. CASE n # 0
    <3>1. ~ (c <= d) /\ c - d = n
      BY <1>1, <1>3, <2>2
    <3>2. SubSeq(f, 1, n) = f
      <4>1. /\ SubSeq(f, 1, n) \in Seq(Records) /\ Len(SubSeq(f, 1, n)) = n
            /\ \A i \in 1 .. n : SubSeq(f, 1, n)[i] = f[i]
        BY <1>5
      <4> DEFINE g == SubSeq(f, 1, n)
      <4> HIDE DEF g
      <4>2. g = f
        BY <4>1, SeqEqual DEF g
      <4> QED
        BY <4>2 DEF g
    <3> QED
      BY <3>1, <3>2
  <2> QED
    BY <2>1, <2>2
<1> QED
  BY <1>8, <1>9

LEMMA FewOf ==
  ASSUME NEW S \in Seq(Records)
  PROVE  LET few == LastOf(S, Cap)
         IN  /\ few \in Seq(Records) /\ Len(few) \in Nat /\ Len(few) <= Len(S)
             /\ \A n \in Nat : n <= Len(S) /\ n <= Cap => n <= Len(few)
             /\ Len(few) # 0 => Len(few) <= Cap
             /\ \A i \in 1 .. Len(few) : few[i] = Back(S, Len(few) - i)
<1> DEFINE few == LastOf(S, Cap)
           l == Len(S)
           q == Max({1, l - Cap + 1})
<1>1. l \in Nat /\ Cap \in Int /\ \A i \in 1 .. l : S[i] \in Records
  BY LenProperties, ElementOfSeq, EngineAssumption DEF Cap
<1>2. q \in Int /\ q >= 1 /\ q >= l - Cap + 1 /\ (q = 1 \/ q = l - Cap + 1)
  <2> DEFINE T == {1, l - Cap + 1}
  <2>1. \E x \in T : \A y \in T : x >= y
    BY <1>1
  <2>2. Max(T) \in T /\ \A y \in T : Max(T) >= y
    <3> HIDE DEF T
    <3> QED
      BY <2>1 DEF Max
  <2> QED
    BY <1>1, <2>2
<1>3. few = SubSeq(S, q, l)
  BY DEF LastOf
<1>4. \A i \in q .. l : S[i] \in Records
  BY <1>1, <1>2
<1> HIDE DEF q, few, l
<1>5. /\ few \in Seq(Records) /\ Len(few) = IF q <= l THEN l - q + 1 ELSE 0
      /\ \A i \in 1 .. l - q + 1 : few[i] = S[q + i - 1]
  BY <1>1, <1>2, <1>3, <1>4, SubSeqProperties
<1>6. Len(few) \in Nat /\ Len(few) <= l /\ (Len(few) # 0 => Len(few) <= Cap)
  BY <1>1, <1>2, <1>5
<1>7. \A n \in Nat : n <= l /\ n <= Cap => n <= Len(few)
  BY <1>1, <1>2, <1>5
<1>8. \A i \in 1 .. Len(few) : few[i] = Back(S, Len(few) - i)
  <2> TAKE i \in 1 .. Len(few)
  <2>1. q <= l /\ i \in 1 .. l - q + 1 /\ l - (Len(few) - i) = q + i - 1
    BY <1>1, <1>2, <1>5
  <2> QED
    BY <2>1, <1>5 DEF Back, l
<1> QED
  BY <1>5, <1>6, <1>7, <1>8 DEF few, l

(* The records of a key's window, over the span of the engine. *)
Recent(log, now) == Within(log, now, cfg.span_sec)

LEMMA FreshIsRecent ==
  ASSUME NEW f, NEW S, NEW now \in Int, Tracks(f, S, now), f # <<>> => now - f[1].ts <= Span
  PROVE  f = Recent(S, now)
<1> DEFINE few == LastOf(S, Cap)
           c == Len(few)
           n == Len(f)
           d == c - n
           F == [i \in DOMAIN few |-> IF now - few[i].ts <= Span THEN <<few[i]>> ELSE <<>>]
<1>1. /\ f \in Seq(Records) /\ S \in Seq(Records) /\ n \in Nat /\ DOMAIN f = 1 .. n
      /\ n <= Len(S) /\ (f # <<>> => n <= Cap)
  BY LenProperties DEF Tracks, Capped
<1>2. /\ few \in Seq(Records) /\ c \in Nat /\ c <= Len(S)
      /\ n <= Len(S) /\ n <= Cap => n <= c
      /\ c # 0 => c <= Cap
      /\ \A i \in 1 .. c : few[i] = Back(S, c - i)
  BY <1>1, FewOf
<1>3. n <= c /\ DOMAIN few = 1 .. c
  <2>1. f = <<>> <=> n = 0
    BY <1>1, EmptySeq
  <2> QED
    BY <1>1, <1>2, <2>1, LenProperties
<1>4. Len(S) \in Nat /\ Cap \in Int /\ Span \in Int
  BY <1>1, LenProperties, EngineAssumption DEF Cap, Span
<1>5. Recent(S, now) = FlattenSeq(F)
  BY DEF Recent, Within, Cap, Span
<1> HIDE DEF few, c, n
<1>6. \A i \in 1 .. c : F[i] = IF now - few[i].ts <= Span THEN <<few[i]>> ELSE <<>>
  BY <1>3
<1>7. FlattenSeq(F) = FlatUpTo(F, c)
  <2>1. F = [i \in 1 .. c |-> F[i]]
    BY <1>3
  <2> HIDE DEF F
  <2> QED
    BY <2>1 DEF FlatUpTo
<1> HIDE DEF F
<1>8. ASSUME NEW i \in 1 .. c PROVE F[i] = IF i <= c - n THEN <<>> ELSE <<f[i - (c - n)]>>
  <2> DEFINE b == c - i
  <2>1. b \in Nat /\ b < Len(S) /\ b < Cap /\ few[i] = Back(S, b)
    BY <1>2, <1>4
  <2>2. Back(S, b).ts \in Int
    BY <1>1, <2>1, SeqBack
  <2>3. CASE i <= c - n
    <3>1. n <= b
      BY <1>1, <1>2, <2>3
    <3>2. now - Back(S, b).ts > Span
      BY <2>1, <3>1 DEF Tracks, n
    <3>3. ~ (now - few[i].ts <= Span)
      BY <2>1, <2>2, <3>2, <1>4
    <3> QED
      BY <1>6, <2>3, <3>3
  <2>4. CASE ~ (i <= c - n)
    <3>1. b < n /\ n - b = i - (c - n) /\ n - 1 < n /\ n - 1 \in Nat /\ n - (n - 1) = 1 /\ b <= n - 1
      BY <1>1, <1>2, <2>1, <2>4
    <3>2. Back(S, b) = f[i - (c - n)] /\ Back(S, n - 1) = f[1]
      BY <3>1, <2>1 DEF Tracks, Back, n
    <3>3. n - 1 < Len(S) /\ Len(S) - (n - 1) <= Len(S) - b
      BY <1>1, <1>4, <2>1, <3>1
    <3>4. /\ Len(S) - b \in DOMAIN S /\ Back(S, b) = S[Len(S) - b]
          /\ Len(S) - (n - 1) \in DOMAIN S /\ Back(S, n - 1) = S[Len(S) - (n - 1)]
          /\ Back(S, n - 1).ts \in Int
      BY <1>1, <2>1, <3>1, <3>3, SeqBack
    <3>5. f[1].ts <= few[i].ts
      BY <2>1, <3>2, <3>3, <3>4 DEF Tracks, InOrder
    <3>6. f # <<>>
      BY <1>1, <3>1, EmptySeq DEF n
    <3>7. now - few[i].ts <= Span
      <4>1. now - f[1].ts <= Span
        BY <3>6
      <4>2. f[1].ts \in Int /\ few[i].ts \in Int
        BY <2>1, <2>2, <3>2, <3>4
      <4> QED
        <5>1. \A x, y, g \in Int : x <= y /\ now - x <= g => now - y <= g
          OBVIOUS
        <5> QED
          BY <1>4, <3>5, <4>1, <4>2, <5>1
    <3> QED
      BY <1>6, <2>1, <2>4, <3>2, <3>7
  <2> QED
    BY <2>3, <2>4
<1>9. FlatUpTo(F, c) = f
  BY <1>1, <1>2, <1>3, <1>8, FlatTail DEF n
<1> QED
  BY <1>5, <1>7, <1>9

-----------------------------------------------------------------------------
(* One record through the rules: every window follows its stream, and a     *)
(* rule that matches finds in its window what a recount finds.              *)

Key(rule, r) == <<rule.name, KeyFor(rule, r)>>

AllTrack(win, rules, log, r, m) ==
  \A key : Tracks(get(win, key), Shares(rules, key, Append(log, r), m), r.ts)

LEMMA ConcatRegroups ==
  \A p, q, s \in Seq(Records) : p \o (q \o s) = (p \o q) \o s
  BY ConcatAssociative

LEMMA SharesOneMore ==
  ASSUME NEW rules, Len(rules) \in Nat, NEW log \in Seq(Records), NEW r \in Records,
         NEW m \in Nat, NEW key
  PROVE  LET S(k) == Shares(rules, key, Append(log, r), k)
         IN  /\ S(m) \in Seq(Records)
             /\ S(m + 1) = IF Matches(rules[m + 1], r) /\ key = Key(rules[m + 1], r)
                           THEN Append(S(m), r) ELSE S(m)
<1> DEFINE S(k) == Shares(rules, key, Append(log, r), k)
           B == Streamed(rules, key, log)
           x == Share(rules[m + 1], key, r)
<1>1. B \in Seq(Records) /\ \A k \in Nat : S(k) = B \o Put(rules, key, r, k)
  BY SharesSteps
<1>2. /\ Put(rules, key, r, m) \in Seq(Records)
      /\ Put(rules, key, r, m + 1) = Put(rules, key, r, m) \o x
  BY PutSteps
<1>3. x \in Seq(Records)
  BY ShareOK
<1>4. m + 1 \in Nat
  OBVIOUS
<1>5. x = IF Matches(rules[m + 1], r) /\ key = Key(rules[m + 1], r) THEN <<r>> ELSE <<>>
  BY DEF Share, Key
<1> HIDE DEF S, B, x
<1>6. S(m) \in Seq(Records)
  BY <1>1, <1>2, ConcatProperties
<1>7. S(m + 1) = S(m) \o x
  <2>1. B \o (Put(rules, key, r, m) \o x) = (B \o Put(rules, key, r, m)) \o x
    BY <1>1, <1>2, <1>3, ConcatRegroups
  <2> QED
    BY <1>1, <1>2, <1>4, <2>1
<1>8. S(m) \o <<>> = S(m) /\ Append(S(m), r) = S(m) \o <<r>>
  BY <1>6, ConcatEmptySeq, AppendIsConcat
<1> QED
  BY <1>5, <1>6, <1>7, <1>8 DEF S

LEMMA OneRound ==
  ASSUME NEW rules, Len(rules) \in Nat, NEW log \in Seq(Records), NEW r \in Records,
         NEW st, NEW m \in Nat, AllTrack(st.win, rules, log, r, m)
  PROVE  LET new == FeedOne(st, rules[m + 1], r).win
             mine == Key(rules[m + 1], r)
         IN  /\ AllTrack(new, rules, log, r, m + 1)
             /\ Matches(rules[m + 1], r) =>
                  get(new, mine) = Recent(Shares(rules, mine, Append(log, r), m + 1), r.ts)
<1> DEFINE rule == rules[m + 1]
           new == FeedOne(st, rule, r).win
           mine == Key(rule, r)
           S(key, k) == Shares(rules, key, Append(log, r), k)
<1>1. r.ts \in Int
  BY EngineAssumption
<1>2. \A key : Tracks(get(st.win, key), S(key, m), r.ts)
  BY DEF AllTrack
<1>3. \A key : S(key, m + 1) = IF Matches(rule, r) /\ key = mine THEN Append(S(key, m), r)
                               ELSE S(key, m)
  BY SharesOneMore
<1>4. ~ Matches(rule, r) => new = st.win
  BY DEF FeedOne
<1>5. Matches(rule, r) => new = Evict(Add(st.win, r, mine), r.ts)
  BY DEF FeedOne, FeedRule, Key
<1> HIDE DEF S, mine, new, rule
<1>6. CASE ~ Matches(rule, r)
  <2>1. \A key : Tracks(get(new, key), S(key, m + 1), r.ts)
    BY <1>2, <1>3, <1>4, <1>6
  <2> QED
    BY <1>6, <2>1 DEF AllTrack, S, new, rule
<1>7. CASE Matches(rule, r)
  <2>1. ASSUME NEW key
        PROVE  \E dq : /\ get(new, key) = Fresh(dq, r.ts, Span)
                       /\ Tracks(dq, S(key, m + 1), r.ts)
    <3>1. get(new, key) = Fresh(get(Add(st.win, r, mine), key), r.ts, Span)
      BY <1>5, <1>7, GetOfEvict
    <3>2. get(Add(st.win, r, mine), key)
            = IF key = mine THEN Pushed(get(st.win, key), r) ELSE get(st.win, key)
      BY GetOfAdd
    <3>3. CASE key = mine
      <4>1. Tracks(Pushed(get(st.win, key), r), Append(S(key, m), r), r.ts)
        BY <1>2, TracksPushed
      <4> QED
        BY <1>3, <1>7, <3>1, <3>2, <3>3, <4>1
    <3>4. CASE key # mine
      BY <1>2, <1>3, <1>7, <3>1, <3>2, <3>4
    <3> QED
      BY <3>3, <3>4
  <2>2. ASSUME NEW key
        PROVE  Tracks(get(new, key), S(key, m + 1), r.ts)
               /\ get(new, key) = Recent(S(key, m + 1), r.ts)
    <3>1. PICK dq : /\ get(new, key) = Fresh(dq, r.ts, Span)
                    /\ Tracks(dq, S(key, m + 1), r.ts)
      BY <2>1
    <3> DEFINE f == Fresh(dq, r.ts, Span)
    <3>2. Tracks(f, S(key, m + 1), r.ts) /\ (f # <<>> => r.ts - f[1].ts <= Span)
      BY <1>1, <3>1, TracksFresh
    <3> HIDE DEF f
    <3>3. f = Recent(S(key, m + 1), r.ts)
      BY <1>1, <3>2, FreshIsRecent
    <3> QED
      BY <3>1, <3>2, <3>3 DEF f
  <2> QED
    BY <2>2 DEF AllTrack, S, mine, new, rule
<1> QED
  BY <1>6, <1>7

RoundsFind(f, rules, log, r) ==
  \A n \in 1 .. Len(rules) : Matches(rules[n], r) =>
    get(f[n].win, Key(rules[n], r))
      = Recent(Shares(rules, Key(rules[n], r), Append(log, r), n), r.ts)

LEMMA RoundsTrack ==
  ASSUME NEW win, NEW rules, Len(rules) \in Nat, NEW log \in Seq(Records),
         NEW r \in Records, NEW f, Rounds(f, win, rules, r),
         \A key : Tracks(get(win, key), Streamed(rules, key, log), r.ts)
  PROVE  /\ \A n \in 0 .. Len(rules) : AllTrack(f[n].win, rules, log, r, n)
         /\ RoundsFind(f, rules, log, r)
<1> DEFINE P == {n \in Nat : n <= Len(rules) => AllTrack(f[n].win, rules, log, r, n)}
<1>1. 0 \in P
  <2>1. f[0].win = win
    BY DEF Rounds
  <2>2. ASSUME NEW key PROVE Shares(rules, key, Append(log, r), 0) = Streamed(rules, key, log)
    <3>1. Shares(rules, key, Append(log, r), 0) = Streamed(rules, key, log) \o <<>>
      <4>1. Put(rules, key, r, 0) = <<>>
        BY PutSteps
      <4>2. 0 \in Nat
        OBVIOUS
      <4>3. Shares(rules, key, Append(log, r), 0)
              = Streamed(rules, key, log) \o Put(rules, key, r, 0)
        BY <4>2, SharesSteps
      <4> QED
        BY <4>1, <4>3
    <3>2. Streamed(rules, key, log) \in Seq(Records)
      BY SharesSteps
    <3> QED
      BY <3>1, <3>2, ConcatEmptySeq
  <2>3. AllTrack(f[0].win, rules, log, r, 0)
    BY <2>1, <2>2 DEF AllTrack
  <2> QED
    BY <2>3
<1>2. ASSUME NEW n \in Nat, n + 1 <= Len(rules) PROVE f[n + 1] = FeedOne(f[n], rules[n + 1], r)
  <2>1. n + 1 \in 1 .. Len(rules) /\ (n + 1) - 1 = n
    BY <1>2
  <2> QED
    BY <2>1 DEF Rounds
<1>3. ASSUME NEW n \in Nat, n \in P PROVE n + 1 \in P
  <2> SUFFICES ASSUME n + 1 <= Len(rules) PROVE AllTrack(f[n + 1].win, rules, log, r, n + 1)
    OBVIOUS
  <2>1. AllTrack(f[n].win, rules, log, r, n)
    BY <1>3
  <2> QED
    BY <1>2, <2>1, OneRound
<1>4. \A n \in Nat : n \in P
  <2> HIDE DEF P
  <2> QED
    BY <1>1, <1>3, InductionOnNat
<1>5. \A n \in 0 .. Len(rules) : AllTrack(f[n].win, rules, log, r, n)
  BY <1>4
<1>6. ASSUME NEW n \in 1 .. Len(rules), Matches(rules[n], r)
      PROVE  get(f[n].win, Key(rules[n], r))
               = Recent(Shares(rules, Key(rules[n], r), Append(log, r), n), r.ts)
  <2>1. n - 1 \in Nat /\ (n - 1) + 1 = n /\ n - 1 \in 0 .. Len(rules)
    OBVIOUS
  <2> DEFINE m == n - 1
  <2>2. m \in Nat /\ m + 1 = n /\ AllTrack(f[m].win, rules, log, r, m)
    BY <1>5, <2>1
  <2>3. f[m + 1] = FeedOne(f[m], rules[m + 1], r)
    BY <1>2, <2>2
  <2> HIDE DEF m
  <2> QED
    BY <1>6, <2>2, <2>3, OneRound
<1> QED
  BY <1>5, <1>6 DEF RoundsFind

(* The findings of a feed: those of the rules whose windows reach.          *)
Fired(f, rules, r, k) ==
  Matches(rules[k], r) /\ Fires(rules[k], get(f[k].win, Key(rules[k], r)))

LEMMA RoundsFire ==
  ASSUME NEW win, NEW T, NEW rules \in Seq(T), NEW r, NEW f, Rounds(f, win, rules, r)
  PROVE  \A type : Has(f[Len(rules)].out, type)
           <=> \E k \in 1 .. Len(rules) : rules[k].emit_type = type /\ Fired(f, rules, r, k)
<1> DEFINE Out == {[type |-> x.emit_type, key |-> KeyFor(x, r)] : x \in T}
           By(n, type) == \E k \in 1 .. n : rules[k].emit_type = type /\ Fired(f, rules, r, k)
           OK(n) == f[n].out \in Seq(Out) /\ \A type : Has(f[n].out, type) <=> By(n, type)
           P == {n \in Nat : n <= Len(rules) => OK(n)}
<1>1. Len(rules) \in Nat /\ \A n \in 1 .. Len(rules) : rules[n] \in T
  BY LenProperties, ElementOfSeq
<1>2. 0 \in P
  <2>1. f[0].out = <<>>
    BY DEF Rounds
  <2>2. <<>> \in Seq(Out) /\ DOMAIN <<>> = {} /\ 1 .. 0 = {}
    OBVIOUS
  <2>3. \A type : ~ Has(<<>>, type) /\ ~ By(0, type)
    BY <2>2 DEF Has
  <2> HIDE DEF Out, By
  <2> QED
    BY <2>1, <2>2, <2>3
<1>3. ASSUME NEW n \in Nat, OK(n), n + 1 <= Len(rules) PROVE OK(n + 1)
  <2> DEFINE rule == rules[n + 1]
             key == Key(rule, r)
             holds == Fires(rule, get(f[n + 1].win, key))
             new == Found(rule.emit_type, KeyFor(rule, r), holds)
  <2>1. n + 1 \in 1 .. Len(rules) /\ (n + 1) - 1 = n
    BY <1>1, <1>3
  <2>2. f[n + 1] = FeedOne(f[n], rule, r)
    BY <2>1 DEF Rounds
  <2>3. \A type : By(n + 1, type) <=>
                    (By(n, type) \/ (rule.emit_type = type /\ Fired(f, rules, r, n + 1)))
    <3>1. \A k : k \in 1 .. n + 1 <=> k \in 1 .. n \/ k = n + 1
      OBVIOUS
    <3> QED
      BY <3>1, Zenon
  <2>4. f[n].out \in Seq(Out) /\ \A type : Has(f[n].out, type) <=> By(n, type)
    BY <1>3
  <2>5. [type |-> rule.emit_type, key |-> KeyFor(rule, r)] \in Out
    BY <1>1, <2>1
  <2>6. Fired(f, rules, r, n + 1) <=> Matches(rule, r) /\ holds
    BY DEF Fired
  <2>7. holds \in BOOLEAN
    BY DEF Fires
  <2>8. CASE ~ Matches(rule, r)
    <3>1. f[n + 1].out = f[n].out
      BY <2>2, <2>8 DEF FeedOne
    <3> HIDE DEF Out, By, rule
    <3> QED
      BY <3>1, <2>3, <2>4, <2>6, <2>8
  <2>9. CASE Matches(rule, r)
    <3>1. f[n + 1].out = f[n].out \o new
      <4> DEFINE w == Evict(Add(f[n].win, r, key), r.ts)
      <4>1. FeedOne(f[n], rule, r) = FeedRule(f[n], rule, r)
        BY <2>9 DEF FeedOne
      <4>2. /\ FeedRule(f[n], rule, r).win = w
            /\ FeedRule(f[n], rule, r).out
                 = f[n].out \o Found(rule.emit_type, KeyFor(rule, r), Fires(rule, get(w, key)))
        BY DEF FeedRule, Key
      <4>3. f[n + 1].win = w
        BY <2>2, <4>1, <4>2
      <4> HIDE DEF w, key, rule
      <4> QED
        BY <2>2, <4>1, <4>2, <4>3
    <3> HIDE DEF Out, By, rule, holds
    <3>2. new \in Seq(Out) /\ \A t : Has(new, t) <=> holds /\ t = rule.emit_type
      BY <2>5, <2>7, HasFound
    <3> HIDE DEF new
    <3>3. /\ f[n].out \o new \in Seq(Out)
          /\ \A t : Has(f[n].out \o new, t) <=> Has(f[n].out, t) \/ Has(new, t)
      BY <2>4, <3>2, HasConcat
    <3>4. \A t : Has(f[n + 1].out, t) <=> By(n + 1, t)
      BY <2>3, <2>4, <2>6, <2>9, <3>1, <3>2, <3>3
    <3> QED
      BY <3>1, <3>3, <3>4
  <2> QED
    BY <2>8, <2>9
<1>4. ASSUME NEW n \in Nat, n \in P PROVE n + 1 \in P
  <2> HIDE DEF OK
  <2> SUFFICES ASSUME n + 1 <= Len(rules) PROVE OK(n + 1)
    OBVIOUS
  <2>1. OK(n)
    BY <1>1, <1>4
  <2> QED
    BY <1>3, <2>1
<1>5. \A n \in Nat : n \in P
  <2> HIDE DEF P
  <2> QED
    BY <1>2, <1>4, InductionOnNat
<1>6. OK(Len(rules))
  <2> HIDE DEF OK
  <2> QED
    BY <1>1, <1>5
<1> QED
  BY <1>6

-----------------------------------------------------------------------------
(* On a log in time order the windows of the rules follow their streams,    *)
(* whatever the time, as long as no record of the log is later.             *)

UpTo(log, now) == \A i \in DOMAIN log : log[i].ts <= now
StreamsKept(win, rules, log) ==
  InOrder(log) => \A now \in Int : UpTo(log, now) =>
    \A key : Tracks(get(win, key), Streamed(rules, key, log), now)
StreamsInv == \A s \in DOMAIN engines : StreamsKept(engines[s].win_, engines[s].rules, fed[s])

LEMMA OrderOfAppend ==
  ASSUME NEW log \in Seq(Records), NEW r \in Records, InOrder(Append(log, r))
  PROVE  /\ InOrder(log) /\ UpTo(log, r.ts)
         /\ \A now : UpTo(Append(log, r), now) => r.ts <= now
<1> DEFINE a == Append(log, r)
           l == Len(log)
<1>1. l \in Nat /\ DOMAIN log = 1 .. l
  BY LenProperties
<1>2. a \in Seq(Records) /\ Len(a) = l + 1 /\ a[l + 1] = r /\ \A i \in 1 .. l : a[i] = log[i]
  BY AppendProperties
<1>3. DOMAIN a = 1 .. l + 1
  BY <1>2, LenProperties
<1>4. InOrder(a)
  OBVIOUS
<1> HIDE DEF a, l
<1>5. \A i, j \in 1 .. l : i <= j => log[i].ts <= log[j].ts
  <2>1. \A i \in 1 .. l : i \in 1 .. l + 1
    BY <1>1
  <2> QED
    BY <2>1, <1>2, <1>3, <1>4 DEF InOrder
<1>6. \A i \in 1 .. l : log[i].ts <= r.ts
  <2>1. \A i \in 1 .. l : i \in 1 .. l + 1 /\ l + 1 \in 1 .. l + 1 /\ i <= l + 1
    BY <1>1
  <2> QED
    BY <2>1, <1>2, <1>3, <1>4 DEF InOrder
<1>7. l + 1 \in 1 .. l + 1
  BY <1>1
<1>8. \A now : UpTo(a, now) => r.ts <= now
  BY <1>2, <1>3, <1>7 DEF UpTo
<1> QED
  BY <1>1, <1>5, <1>6, <1>8 DEF InOrder, UpTo, a

LEMMA FeedKeepsStreams ==
  ASSUME NEW win, NEW T, NEW rules \in Seq(T), NEW log \in Seq(Records), NEW r \in Records,
         StreamsKept(win, rules, log)
  PROVE  StreamsKept(FeedRules(win, rules, r).win, rules, Append(log, r))
<1> SUFFICES ASSUME InOrder(Append(log, r)), NEW now \in Int, UpTo(Append(log, r), now), NEW key
             PROVE  Tracks(get(FeedRules(win, rules, r).win, key),
                           Streamed(rules, key, Append(log, r)), now)
  BY DEF StreamsKept
<1>1. Len(rules) \in Nat /\ Len(rules) \in 0 .. Len(rules)
  BY LenProperties
<1>2. r.ts \in Int /\ r.ts <= now /\ InOrder(log) /\ UpTo(log, r.ts)
  BY OrderOfAppend, EngineAssumption
<1>3. \A k : Tracks(get(win, k), Streamed(rules, k, log), r.ts)
  BY <1>2 DEF StreamsKept
<1>4. PICK f : Rounds(f, win, rules, r)
  BY <1>1, RoundsExist
<1>5. AllTrack(f[Len(rules)].win, rules, log, r, Len(rules))
  BY <1>1, <1>3, <1>4, RoundsTrack
<1>6. FeedRules(win, rules, r) = f[Len(rules)]
  BY <1>4 DEF Rounds
<1>7. Tracks(get(FeedRules(win, rules, r).win, key),
             Streamed(rules, key, Append(log, r)), r.ts)
  BY <1>5, <1>6 DEF AllTrack, Streamed
<1> QED
  BY <1>2, <1>7, TracksLater

LEMMA StreamsInvariant == Spec => []StreamsInv
<1>0. ASSUME NEW rules, Len(rules) \in Nat PROVE StreamsKept(<<>>, rules, <<>>)
  <2>1. \A key : get(<<>>, key) = <<>> /\ Streamed(rules, key, <<>>) = <<>>
    BY <1>0, SharesSteps DEF get, At
  <2> QED
    BY <2>1, NothingTracks DEF StreamsKept
<1>1. Init /\ RulesInv => StreamsInv
  <2> SUFFICES ASSUME Init, RulesInv, NEW s \in DOMAIN engines
               PROVE  StreamsKept(engines[s].win_, engines[s].rules, fed[s])
    BY DEF StreamsInv
  <2>1. fed[s] = <<>> /\ engines[s].win_ = <<>>
    BY InitEffect, NewEngineFields
  <2>2. Len(engines[s].rules) \in Nat
    BY LenProperties DEF RulesInv
  <2> QED
    BY <1>0, <2>1, <2>2
<1>2. WindowsInv /\ RulesInv /\ StreamsInv /\ [Next]_vars => StreamsInv'
  <2> SUFFICES ASSUME WindowsInv, RulesInv, StreamsInv, [Next]_vars PROVE StreamsInv'
    OBVIOUS
  <2>1. ASSUME NEW s \in Slots, New(s) PROVE StreamsInv'
    <3>1. engines'[s].win_ = <<>> /\ engines'[s].rules = <<>> /\ fed'[s] = <<>>
      BY <2>1, NewEffect, NewEngineFields
    <3>2. StreamsKept(<<>>, <<>>, <<>>)
      <4>1. Len(<<>>) \in Nat
        OBVIOUS
      <4> QED
        BY <1>0, <4>1
    <3>3. /\ DOMAIN engines' = DOMAIN engines \cup {s}
          /\ \A t \in DOMAIN engines : engines'[t] = engines[t] /\ fed'[t] = fed[t]
      BY <2>1, NewEffect, Zenon
    <3> QED
      BY <3>1, <3>2, <3>3 DEF StreamsInv
  <2>2. ASSUME NEW s \in Slots, NEW r \in Records, Feed(s, r) PROVE StreamsInv'
    <3>1. /\ s \in DOMAIN engines /\ DOMAIN engines' = DOMAIN engines
          /\ engines'[s] = FeedEngine(engines[s], r, count[r.src_ip] + 1)
          /\ fed'[s] = Append(fed[s], r)
          /\ \A t \in DOMAIN engines : t # s => engines'[t] = engines[t] /\ fed'[t] = fed[t]
      BY <2>2, FeedEffect
    <3>2. /\ engines'[s].rules = engines[s].rules
          /\ engines'[s].win_ = FeedRules(engines[s].win_, engines[s].rules, r).win
      BY <3>1, FeedEngineFields DEF WindowsInv
    <3>3. fed[s] \in Seq(Records) /\ \E T : engines[s].rules \in Seq(T)
      BY <3>1 DEF WindowsInv, RulesInv
    <3>4. StreamsKept(engines[s].win_, engines[s].rules, fed[s])
      BY <3>1 DEF StreamsInv
    <3>5. StreamsKept(engines'[s].win_, engines'[s].rules, fed'[s])
      BY <3>1, <3>2, <3>3, <3>4, FeedKeepsStreams
    <3> QED
      BY <3>1, <3>5 DEF StreamsInv
  <2>3. ASSUME NEW s \in Slots, Free(s) PROVE StreamsInv'
    BY <2>3, FreeEffect DEF StreamsInv
  <2>4. CASE UNCHANGED vars
    BY <2>4 DEF vars, StreamsInv
  <2> QED
    BY <2>1, <2>2, <2>3, <2>4 DEF Next
<1> QED
  BY <1>1, <1>2, WindowsInvariant, RulesInvariant, PTL DEF Spec

(* What rules report for the last record of a log, by a recount.            *)
Counted(rules, log, k) ==
  Recent(Shares(rules, Key(rules[k], Last(log)), log, k), Last(log).ts)
Reached(rules, log, k) ==
  /\ Matches(rules[k], Last(log))
  /\ rules[k].count_ge > 0 => Len(Counted(rules, log, k)) >= rules[k].count_ge
  /\ rules[k].sum_bytes_ge > 0 => SumBytes(Counted(rules, log, k)) >= rules[k].sum_bytes_ge

AsRecounted(found, rules, log) ==
  \A type : Has(found, type)
    <=> \E k \in 1 .. Len(rules) : rules[k].emit_type = type /\ Reached(rules, log, k)

LEMMA FeedRecounts ==
  ASSUME NEW win, NEW T, NEW rules \in Seq(T), NEW log \in Seq(Records), NEW r \in Records,
         StreamsKept(win, rules, log), InOrder(Append(log, r))
  PROVE  AsRecounted(FeedRules(win, rules, r).out, rules, Append(log, r))
<1> DEFINE a == Append(log, r)
<1>1. Len(rules) \in Nat
  BY LenProperties
<1>2. r.ts \in Int /\ InOrder(log) /\ UpTo(log, r.ts)
  BY OrderOfAppend, EngineAssumption
<1>3. \A k : Tracks(get(win, k), Streamed(rules, k, log), r.ts)
  BY <1>2 DEF StreamsKept
<1>4. PICK f : Rounds(f, win, rules, r)
  BY <1>1, RoundsExist
<1>5. \A n \in 1 .. Len(rules) : Matches(rules[n], r) =>
        get(f[n].win, Key(rules[n], r)) = Recent(Shares(rules, Key(rules[n], r), a, n), r.ts)
  <2>1. RoundsFind(f, rules, log, r)
    BY <1>1, <1>3, <1>4, RoundsTrack
  <2> QED
    BY <2>1 DEF RoundsFind
<1>6. Last(a) = r
  BY AppendProperties DEF Last
<1>7. FeedRules(win, rules, r) = f[Len(rules)]
  BY <1>4 DEF Rounds
<1> HIDE DEF a
<1>8. ASSUME NEW k \in 1 .. Len(rules) PROVE Fired(f, rules, r, k) <=> Reached(rules, a, k)
  <2>1. CASE ~ Matches(rules[k], r)
    BY <2>1, <1>6 DEF Fired, Reached
  <2>2. CASE Matches(rules[k], r)
    <3>1. get(f[k].win, Key(rules[k], r)) = Counted(rules, a, k)
      BY <1>5, <1>6, <2>2 DEF Counted
    <3> QED
      BY <2>2, <3>1, <1>6 DEF Fired, Fires, Reached
  <2> QED
    BY <2>1, <2>2
<1>9. \A type : Has(f[Len(rules)].out, type)
        <=> \E k \in 1 .. Len(rules) : rules[k].emit_type = type /\ Fired(f, rules, r, k)
  BY <1>4, RoundsFire
<1> QED
  BY <1>7, <1>8, <1>9 DEF a, AsRecounted

Recounted ==
  last # None /\ InOrder(fed[last]) => AsRecounted(fired, engines[last].rules, fed[last])

LEMMA RecountedInvariant == Spec => []Recounted
<1>1. Init => Recounted
  BY InitEffect DEF Recounted
<1>2. WindowsInv /\ RulesInv /\ StreamsInv /\ Recounted /\ [Next]_vars => Recounted'
  <2> SUFFICES ASSUME WindowsInv, RulesInv, StreamsInv, Recounted, [Next]_vars
               PROVE  Recounted'
    OBVIOUS
  <2>1. ASSUME NEW s \in Slots, New(s) PROVE Recounted'
    BY <2>1, NewEffect DEF Recounted
  <2>2. ASSUME NEW s \in Slots, NEW r \in Records, Feed(s, r) PROVE Recounted'
    <3>1. /\ s \in DOMAIN engines /\ last' = s
          /\ engines'[s] = FeedEngine(engines[s], r, count[r.src_ip] + 1)
          /\ fed'[s] = Append(fed[s], r)
      BY <2>2, FeedEffect
    <3>2. engines'[s].rules = engines[s].rules
      BY <3>1, FeedEngineFields DEF WindowsInv
    <3>3. fed[s] \in Seq(Records) /\ \E T : engines[s].rules \in Seq(T)
      BY <3>1 DEF WindowsInv, RulesInv
    <3>4. StreamsKept(engines[s].win_, engines[s].rules, fed[s])
      BY <3>1 DEF StreamsInv
    <3>5. fired' = FeedRules(engines[s].win_, engines[s].rules, r).out
      BY <2>2 DEF Feed
    <3> DEFINE win == engines[s].win_
               rules == engines[s].rules
               log == fed[s]
    <3>7. PICK T : rules \in Seq(T)
      BY <3>3
    <3>8. log \in Seq(Records) /\ StreamsKept(win, rules, log)
      BY <3>3, <3>4
    <3> HIDE DEF win, rules, log
    <3>6. ASSUME InOrder(Append(log, r))
          PROVE  AsRecounted(FeedRules(win, rules, r).out, rules, Append(log, r))
      BY <3>6, <3>7, <3>8, FeedRecounts
    <3> QED
      BY <3>1, <3>2, <3>5, <3>6 DEF Recounted, win, rules, log
  <2>3. ASSUME NEW s \in Slots, Free(s) PROVE Recounted'
    BY <2>3, FreeEffect DEF Recounted
  <2>4. CASE UNCHANGED vars
    BY <2>4 DEF vars, Recounted
  <2> QED
    BY <2>1, <2>2, <2>3, <2>4 DEF Next
<1> QED
  BY <1>1, <1>2, WindowsInvariant, RulesInvariant, StreamsInvariant, PTL DEF Spec

(* On a log in time order the rules report what a recount of the records    *)
(* that matched reports, over the within_sec of each, for every rule of its *)
(* name and no more than max_records_per_key of them: for any rules, as     *)
(* long as they all ask for the span of the engine.                         *)
THEOREM RulesAgree == Spec => []RulesRecount
<1>1. WindowsInv /\ RulesInv /\ Recounted => RulesRecount
  <2> SUFFICES ASSUME WindowsInv, RulesInv, Recounted, last # None, InOrder(fed[last]),
                      \A k \in DOMAIN engines[last].rules :
                        engines[last].rules[k].within_sec = cfg.span_sec
               PROVE  RuleWindows
    BY DEF RulesRecount, RuleWindows
  <2> DEFINE rules == engines[last].rules
             log == fed[last]
             Counts(k) ==
               Within(Shares(rules, <<rules[k].name, KeyFor(rules[k], Last(log))>>, log, k),
                      Last(log).ts, rules[k].within_sec)
             Here(k) ==
               /\ Matches(rules[k], Last(log))
               /\ rules[k].count_ge > 0 => Len(Counts(k)) >= rules[k].count_ge
               /\ rules[k].sum_bytes_ge > 0 => SumBytes(Counts(k)) >= rules[k].sum_bytes_ge
  <2>1. DOMAIN rules = 1 .. Len(rules)
    BY LenProperties DEF RulesInv, WindowsInv
  <2>2. \A type : Has(fired, type)
          <=> \E k \in 1 .. Len(rules) : rules[k].emit_type = type /\ Reached(rules, log, k)
    BY DEF Recounted, AsRecounted
  <2>3. \A k \in DOMAIN rules : Here(k) <=> Reached(rules, log, k)
    <3> TAKE k \in DOMAIN rules
    <3>1. Counts(k) = Counted(rules, log, k)
      BY DEF Counted, Key, Recent
    <3> QED
      BY <3>1 DEF Reached
  <2>4. \A type : (\E i \in DOMAIN fired : fired[i].type = type) <=> Has(fired, type)
    BY DEF Has
  <2>5. \A type : (\E i \in DOMAIN fired : fired[i].type = type)
          <=> \E k \in DOMAIN rules : rules[k].emit_type = type /\ Here(k)
    <3> HIDE DEF rules, log, Here
    <3> QED
      BY <2>1, <2>2, <2>3, <2>4
  <2> QED
    BY <2>5 DEF RuleWindows
<1> QED
  BY <1>1, WindowsInvariant, RulesInvariant, RecountedInvariant, PTL
=============================================================================
