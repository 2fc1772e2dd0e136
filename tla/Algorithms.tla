----------------------------- MODULE Algorithms -----------------------------
(***************************************************************************)
(* Functions of the daemon that only compute: how the migration is cut     *)
(* into statements, a request body read, a preview cut out of a DNG and a  *)
(* duration counted.  Each is compared with what it is meant to compute,   *)
(* on inputs that grow by one part at a step: a statement, a field, a      *)
(* byte, a duration.                                                       *)
(***************************************************************************)
EXTENDS Naturals, Sequences, FiniteSets, SequencesExt

CONSTANT MaxParts    \* bound: parts of an input, for each kind of input

VARIABLES
  kind,    \* which algorithm the input is for
  input    \* its parts so far

-----------------------------------------------------------------------------
(* split_sql, which Store::Migrate runs a migration through.               *)

Semi == ";"
Escape == "\\"
Blank == " "
Unquoted == "none"
QuoteMarks == {"'", "\"", "back"}

trim(s) == LET solid == {i \in DOMAIN s : s[i] # Blank}
           IN IF solid = {} THEN << >> ELSE SubSeq(s, Min(solid), Max(solid))

Flushed(st) == IF trim(st.cur) = << >> THEN st.out ELSE Append(st.out, trim(st.cur))

AnyMark(c, quote)    == c \in QuoteMarks                          \* a mutant's
ClosingMark(c, quote) == c = quote

Scanned(st, c) ==
  LET kept == [st EXCEPT !.cur = Append(@, c)] IN
    IF st.escaped THEN [kept EXCEPT !.escaped = FALSE]
    ELSE IF c = Escape THEN [kept EXCEPT !.escaped = TRUE]
    ELSE IF st.quote # Unquoted
      THEN [kept EXCEPT !.quote = IF ClosingMark(c, @) THEN Unquoted ELSE @]
    ELSE IF c \in QuoteMarks THEN [kept EXCEPT !.quote = c]
    ELSE IF c = Semi THEN [st EXCEPT !.out = Flushed(st), !.cur = << >>]
    ELSE kept

split_sql(text) ==
  Flushed(FoldLeft(Scanned,
            [out |-> << >>, cur |-> << >>, quote |-> Unquoted, escaped |-> FALSE], text))

(* Statements are made of words and of strings, which may hold semicolons, *)
(* other quotes, doubled or escaped ones.                                  *)
SqlTokens == {<<"a">>, <<"'", ";", "'">>, <<"'", "\\", "'", ";", "'">>,
              <<"\"", "'", ";", "\"">>, <<"back", ";", "\"", "back">>,
              <<"'", "'", "'", ";", "'">>}
Statements == SqlTokens \cup {t \o <<Blank>> \o u : t, u \in SqlTokens}

(* A migration is cut exactly between its statements, whatever their       *)
(* strings hold (util.cpp:130-173, db.cpp:219-228).                        *)
Script(parts) == FlattenSeq([i \in DOMAIN parts |-> parts[i] \o <<Semi, Blank>>])

SplitBetweenStatements == kind = "sql" => split_sql(Script(input)) = input

-----------------------------------------------------------------------------
(* json_get, which the API reads the plugin's callbacks with.              *)

Quote   == "\""
Comma   == ","
Opening == "{"
Closing == "}"

Matches(body, pat) == {i \in 1..(Len(body) - Len(pat) + 1) :
                         SubSeq(body, i, i + Len(pat) - 1) = pat}

(* The text from a position to the first of the given marks, or to the     *)
(* end of the body if that is allowed.                                     *)
UpTo(body, from, marks, toEnd) ==
  LET ends == {i \in from..Len(body) : body[i] \in marks}
              \cup (IF toEnd THEN {Len(body) + 1} ELSE {})
  IN IF ends = {} THEN << >> ELSE SubSeq(body, from, Min(ends) - 1)

BareEnds   == {Comma, Closing, Blank}
AnyEnds    == {Quote, Comma, Closing}                             \* a mutant's
QuotedEnds == {Quote}

json_get(body, key) ==
  LET pat == <<Quote, key, Quote, ":">>
      at  == Matches(body, pat)
      solid == {i \in (Min(at) + Len(pat))..Len(body) : body[i] # Blank}
  IN IF at = {} THEN << >> ELSE IF solid = {} THEN << >>
     ELSE IF body[Min(solid)] = Quote
            THEN UpTo(body, Min(solid) + 1, QuotedEnds, FALSE)
            ELSE UpTo(body, Min(solid), BareEnds, TRUE)

Numbers  == {<<"1">>, <<"1", "2">>}
Strings  == SeqOf({"k", "v", ":", Comma, Closing, Blank}, 2)
Encoded(v) == IF v \in Numbers THEN v ELSE <<Quote>> \o v \o <<Quote>>
Keys     == <<"k", "v", "w">>
Field(i, v) == (IF i = 1 THEN << >> ELSE <<Comma>>)
               \o <<Quote, Keys[i], Quote, ":", Blank>> \o Encoded(v)
Body(parts) == <<Opening>> \o FlattenSeq([i \in DOMAIN parts |-> Field(i, parts[i])]) \o <<Closing>>

(* Every field is read back as it was sent, if no string holds a quote or  *)
(* a backslash (api.cpp:126-141, betterembeds.lua:436-439).                *)
FieldsAreRead ==
  kind = "json" =>
    \A i \in DOMAIN Keys : json_get(Body(input), Keys[i]) =
                              IF i <= Len(input) THEN input[i] ELSE << >>

-----------------------------------------------------------------------------
(* extract_thumbnail.                                                      *)

SOI(s, i) == s[i] = "FF" /\ s[i + 1] = "D8"
EOI(s, i) == s[i] = "FF" /\ s[i + 1] = "D9"
EndsAfter(s, i) == {j \in (i + 2)..(Len(s) - 1) : EOI(s, j)}
Segment(s, i) == SubSeq(s, i, Min(EndsAfter(s, i)) + 1)

LastOne(seg, rest) == IF rest = << >> THEN seg ELSE rest          \* a mutant's
Larger(seg, rest)  == IF Len(seg) >= Len(rest) THEN seg ELSE rest

(* The best segment from a position on; after one the search goes on       *)
(* behind it.                                                              *)
BestAt(s, best, i) ==
  IF i >= Len(s) THEN << >>
  ELSE IF ~SOI(s, i) \/ EndsAfter(s, i) = {} THEN best[i + 1]
  ELSE Larger(Segment(s, i), best[Min(EndsAfter(s, i)) + 2])

BestFrom(s) == LET best[i \in 1..(Len(s) + 1)] == BestAt(s, best, i) IN best

extract_thumbnail(s, least) ==
  IF Len(BestFrom(s)[1]) < least THEN << >> ELSE BestFrom(s)[1]

(* "Find largest JPEG segment" (pipeline.cpp:139): among all that start    *)
(* with a marker anywhere and go to the next end marker.                   *)
Starts(s)   == {i \in 1..(Len(s) - 1) : SOI(s, i) /\ EndsAfter(s, i) # {}}
Segments(s) == {Segment(s, i) : i \in Starts(s)}

IsLargest(got, s, least) ==
  IF \E seg \in Segments(s) : Len(seg) >= least
    THEN got \in Segments(s) /\ \A seg \in Segments(s) : Len(seg) <= Len(got)
    ELSE got = << >>

ThumbnailIsLargest == kind = "dng" => IsLargest(extract_thumbnail(input, 5), input, 5)

-----------------------------------------------------------------------------
(* Metrics: the histogram of conversion durations.                         *)

Edges  == <<1, 2, 5, 10, 20, 30, 60, 120, 300>>
Labels == <<1, 2, 5, 10, 20, 30, 60, 120, 300>>      \* and "+Inf"

Below(seconds, edge)   == seconds < edge                          \* a mutant's
Reaches(seconds, edge) == seconds <= edge

Bucket(seconds) == Min({b \in 1..10 : b = 10 \/ Reaches(seconds, Edges[b])})

observe(buckets, seconds) == [buckets EXCEPT ![Bucket(seconds)] = @ + 1]

Render(buckets) ==
  LET cum[i \in 0..10] == IF i = 0 THEN 0 ELSE cum[i - 1] + buckets[i]
  IN [i \in 1..10 |-> cum[i]]

Histogram(durations) == FoldLeft(observe, [b \in 1..10 |-> 0], durations)

(* A bucket counts the conversions that took no longer than its label      *)
(* says, and the last one all of them (metrics.cpp:25-33, 118-126).        *)
CountsAsLabelled(shown, durations) ==
  /\ shown[10] = Len(durations)
  /\ \A b \in 1..9 :
       shown[b] = Cardinality({i \in DOMAIN durations : durations[i] <= Labels[b]})

BucketsCount == kind = "durations" => CountsAsLabelled(Render(Histogram(input)), input)

-----------------------------------------------------------------------------
(* The inputs.                                                             *)

Parts == [sql |-> Statements, json |-> Numbers \cup Strings,
          dng |-> {"FF", "D8", "D9", "00"},
          durations |-> {0, 1, 2, 3, 60, 299, 300, 301}]

ASSUME PartsAssumption == MaxParts \in [DOMAIN Parts -> Nat] /\ MaxParts["json"] <= Len(Keys)

Init == kind \in DOMAIN Parts /\ input = << >>

Grow(part) ==
  /\ Len(input) < MaxParts[kind]
  /\ input' = Append(input, part) /\ UNCHANGED kind

Next == \E part \in Parts[kind] : Grow(part)

Spec == Init /\ [][Next]_<<kind, input>>

=============================================================================
