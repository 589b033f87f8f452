---------------------------- MODULE LineReaders -----------------------------
(***************************************************************************)
(* The three text formats `neonsec` reads, in every release that is kept   *)
(* in the repository: CSV lines, NDJSON lines and the rules file.          *)
(*                                                                         *)
(* A CSV line is the sequence of its fields, what stands between commas; a *)
(* JSON text is a sequence of tokens.  A number is its value, whatever its *)
(* width in the text: the conversions to int and long long are what the    *)
(* readers do.  The readers of JSON search the text for a quoted key and   *)
(* then for the next colon; texts whose strings hold colons or quotes are  *)
(* not modelled.                                                           *)
(***************************************************************************)
EXTENDS Integers, Sequences, SequencesExt

CONSTANTS
  IntEnd, LongEnd   \* the first number past an int, 2^31, and past a long
                    \* long, 2^63; their negatives are the last there are

ASSUME WidthAssumption ==
  /\ IntEnd \in Nat \ {0}
  /\ LongEnd \in Nat
  /\ IntEnd <= LongEnd

(* Fields and tokens. *)
Str(s) == <<"str", s>>
Num(v) == <<"num", v>>
Colon  == <<"colon">>
Comma  == <<"comma">>
Tab    == <<"tab">>
IsStr(t) == t[1] = "str"
IsNum(t) == t[1] = "num"
Tokens == {Colon, Comma, Tab} \cup ({"str"} \X STRING) \cup ({"num"} \X Int)

Fits(v, end) == -end <= v /\ v < end
Wrap(v, end) == ((v + end) % (2 * end)) - end

(* A std::optional is the set of its value; so is the result of what may    *)
(* throw, {} being an exception that nothing catches.                       *)
OrElse(opt, default) == IF opt = {} THEN default ELSE CHOOSE v \in opt : TRUE

-----------------------------------------------------------------------------
(* CSV.  getline gives no last column when the line ends with a comma, and  *)
(* none at all for the empty line.                                          *)
Columns(line) == IF Last(line) = Str("") THEN Front(line) ELSE line

(* std::stoi and std::stoll: numbers in range, or an exception. *)
Converts(field, end) == IsNum(field) /\ Fits(field[2], end)

(* parse_csv_line from the column count on: any exception refuses the line. *)
FromColumns(c) ==
  IF \/ Len(c) # 9
     \/ ~(Converts(c[1], LongEnd) /\ Converts(c[8], LongEnd))
     \/ ~(Converts(c[4], IntEnd) /\ Converts(c[5], IntEnd))
  THEN {}
  ELSE {[ts |-> c[1][2], src_ip |-> c[2][2], dst_ip |-> c[3][2],
         src_port |-> c[4][2], dst_port |-> c[5][2],
         action |-> c[6][2], status |-> c[7][2], bytes |-> c[8][2],
         username |-> c[9][2]]}

(* 5.0.0, and 1.0.0 to 4.0.0, which test for the empty line first. *)
CurrentCsv(line) == FromColumns(Columns(line))
ApexCsv(line)  == IF line = <<Str("")>> THEN {} ELSE FromColumns(Columns(line))
UltraCsv(line) == ApexCsv(line)
MaxCsv(line)   == ApexCsv(line)
FinalCsv(line) == ApexCsv(line)

-----------------------------------------------------------------------------
(* s.find(..., i): the first of the positions `hits` from i on, if any. *)
Find(hits, i) == {j \in hits : j >= i /\ \A k \in hits : k >= i => j <= k}
Where(s, tokens) == {n \in DOMAIN s : s[n] \in tokens}
StringsOf(s) == {n \in DOMAIN s : IsStr(s[n])}

(* The first occurrence of the key, wherever that is; the colon after it. *)
KeyAt(s, key) == Find(Where(s, {Str(key)}), 1)

(* Mutant: the first colon of the text. *)
AfterFirst(s, key) == UNION {Find(Where(s, {Colon}), 1) : k \in KeyAt(s, key)}

After(s, key) == UNION {Find(Where(s, {Colon}), k) : k \in KeyAt(s, key)}

(* Mutant: the value is looked for from the key on, not from the colon. *)
GetStringFromKey(s, key) == {s[k][2] : k \in KeyAt(s, key)}

(* The next quoted string after that colon, whatever stands before it. *)
GetString(s, key) ==
  {s[v][2] : v \in UNION {Find(StringsOf(s), c) : c \in After(s, key)}}

(* The number right after that colon and the white space the getter skips,  *)
(* if it is one.                                                            *)
NumberAt(s, key, skipped) ==
  LET next == UNION {Find(DOMAIN s \ Where(s, skipped), c + 1) : c \in After(s, key)}
  IN  {s[v][2] : v \in {n \in next : IsNum(s[n])}}

(* 5.0.0: isspace is skipped and the digits are accumulated in 64 bits with *)
(* no test for overflow (undefined; it wraps in the builds at hand).        *)
CurrentGetInt(s, key) ==
  {Wrap(n, LongEnd) : n \in NumberAt(s, key, {Tab})}

(* 2.0.0 to 4.0.0: only blanks are skipped, and stoll's exception is none.  *)
EarlierGetInt(s, key) ==
  {n \in NumberAt(s, key, {}) : Fits(n, LongEnd)}

(* parse_ndjson_line, with what the getter makes of the numbers: five       *)
(* fields are required, four have a default.                                *)
IntFields == {"ts", "src_port", "dst_port", "bytes"}
FromGetters(s, int) ==
  {[ts |-> ts, src_ip |-> src, dst_ip |-> dst,
    src_port |-> Wrap(sport, IntEnd), dst_port |-> Wrap(dport, IntEnd),
    action |-> OrElse(GetString(s, "action"), "connect"),
    status |-> OrElse(GetString(s, "status"), "ok"),
    bytes |-> OrElse(int["bytes"], 0),
    username |-> OrElse(GetString(s, "username"), "-")] :
      ts \in int["ts"],
      src \in GetString(s, "src_ip"), dst \in GetString(s, "dst_ip"),
      sport \in int["src_port"], dport \in int["dst_port"]}

CurrentNdjson(s) == FromGetters(s, [k \in IntFields |-> CurrentGetInt(s, k)])
ApexNdjson(s)    == FromGetters(s, [k \in IntFields |-> EarlierGetInt(s, k)])
UltraNdjson(s)   == ApexNdjson(s)
MaxNdjson(s)     == ApexNdjson(s)

-----------------------------------------------------------------------------
(* The rules file.  struct Thresholds is a function from the keys that a    *)
(* release knows to its defaults.                                           *)
FinalThresholds ==
  [portscan_attempts |-> 20, ddos_events |-> 200, ddos_unique |-> 50]
MaxThresholds   == FinalThresholds
UltraThresholds == FinalThresholds
ApexThresholds  ==
  [portscan_attempts |-> 20, ddos_events |-> 200, ddos_unique |-> 50,
   bruteforce_failures |-> 10]
CurrentThresholds ==
  [portscan_attempts |-> 20, ddos_events |-> 100, ddos_unique |-> 20,
   bruteforce_failures |-> 10]

(* 5.0.0: signs are read, and the value is cast to int. *)
CurrentFindInt(s, key) == {Wrap(n, IntEnd) : n \in CurrentGetInt(s, key)}

(* 1.0.0 to 4.0.0: digits only, and nothing catches stoi's exception. *)
EarlierFindInt(s, key) == {n \in NumberAt(s, key, {Tab}) : n >= 0}

(* load_thresholds_json on a file that can be opened. *)
Loaded(defaults, int) == [k \in DOMAIN defaults |-> OrElse(int[k], defaults[k])]
EarlierRules(s, defaults) ==
  LET int == [k \in DOMAIN defaults |-> EarlierFindInt(s, k)]
  IN  IF \E k \in DOMAIN int : \E n \in int[k] : ~Fits(n, IntEnd) THEN {}
      ELSE {Loaded(defaults, int)}

CurrentRules(s) ==
  {Loaded(CurrentThresholds, [k \in DOMAIN CurrentThresholds |-> CurrentFindInt(s, k)])}
ApexRules(s)    == EarlierRules(s, ApexThresholds)
UltraRules(s)   == EarlierRules(s, UltraThresholds)
MaxRules(s)     == EarlierRules(s, MaxThresholds)
FinalRules(s)   == EarlierRules(s, FinalThresholds)
=============================================================================
