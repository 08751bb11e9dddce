------------------------- MODULE FyParserScan_proofs -------------------------
(***************************************************************************)
(* Proofs about the scanner within FyParser, for every text: the type of   *)
(* the whole state, and that no text makes the scanner report an internal  *)
(* error.  FyScanner_proofs has what each operation of the scanner keeps;  *)
(* here is what holds between its steps, and between it, the parser and the *)
(* lexemes that are next.                                                  *)
(***************************************************************************)
EXTENDS FyParser_proofs

(***************************************************************************)
(* The lexemes that are ahead, and the given ones that are left after them. *)
(***************************************************************************)
Lookahead(lexemes) ==
  \/ lexemes = <<>>
  \/ \E x \in Lexemes : lexemes = <<x>>
  \/ \E x, y \in Lexemes : lexemes = <<x, y>> /\ Before(x, y)

GivenAt(n) == profile.text[Len(profile.text) - n + 1]
Leads(x, n) ==
  /\ n \in Nat
  /\ profile.text # <<>> => n <= Len(profile.text) /\ (n > 0 => Before(x, GivenAt(n)))
LeavesText(lexemes, n) ==
  /\ Lookahead(lexemes) /\ n \in Nat
  /\ IF lexemes # <<>> THEN Leads(Last(lexemes), n) ELSE profile.text # <<>> => n <= Len(profile.text)

TextShape == profile \in Profiles /\ LeavesText(ahead, left)

(***************************************************************************)
(* The scanner.  Before the stream is started it may hold what a reset left *)
(* there: tokens, and then the token of the stream once it is alone; or    *)
(* simple keys, and then it never gives a token again.  Once it is started *)
(* its keys are sound; and when it ended it has none.                      *)
(***************************************************************************)
Waiting(s) ==
  /\ ~s.ended /\ s.text = <<>> /\ s.line = 0
  /\ \/ s.queue \in Seq(LaterTokens)
     \/ event \in {"none", "reset"} /\ (s.keys # <<>> \/ (s.queue = <<"STREAM-START">> /\ ahead # <<>>))

ScanShape ==
  /\ Typed(scan) /\ scan.error # "internal"
  /\ scan.error # "none" => Failed
  /\ state = "NONE" <=> ~scan.started
  /\ ~scan.started => Waiting(scan)
  /\ scan.started => Sound(scan)
  /\ state = "END" \/ (scan.ended /\ ~Failed) => scan.keys = <<>> /\ scan.text = <<>>
  /\ scan.started /\ ~Failed => ahead # <<>>
  /\ ahead # <<>> => scan.line <= Head(ahead).line

ValueType ==
  /\ taken \in {"none", "BLOCK-ENTRY", "FLOW-ENTRY", "KEY", "VALUE"}
  /\ event \in Events!Events \union {"none", "error", "reset"}

Scanned == TextShape /\ ScanShape /\ ValueType

-----------------------------------------------------------------------------
(* The lexemes *)

LEMMA LookaheadFacts ==
  ASSUME NEW lexemes, Lookahead(lexemes), lexemes # <<>>
  PROVE  /\ Len(lexemes) \in {1, 2} /\ Head(lexemes) \in Lexemes /\ Last(lexemes) \in Lexemes
         /\ Len(lexemes) = 1 => lexemes = <<Head(lexemes)>> /\ Last(lexemes) = Head(lexemes) /\ Tail(lexemes) = <<>>
         /\ Len(lexemes) = 2 => /\ lexemes = <<Head(lexemes), lexemes[2]>> /\ Last(lexemes) = lexemes[2]
                                /\ Before(Head(lexemes), lexemes[2]) /\ Tail(lexemes) = <<lexemes[2]>>
<1>1. CASE \E x \in Lexemes : lexemes = <<x>>
  BY <1>1 DEF Last
<1>2. CASE \E x, y \in Lexemes : lexemes = <<x, y>> /\ Before(x, y)
  BY <1>2 DEF Last
<1> QED BY <1>1, <1>2 DEF Lookahead

LEMMA OneAhead ==
  ASSUME NEW x \in Lexemes, NEW n, Leads(x, n)
  PROVE  LeavesText(<<x>>, n) /\ <<x>> # <<>> /\ Head(<<x>>) = x
BY DEF LeavesText, Lookahead, Leads, Last

LEMMA TwoAhead ==
  ASSUME NEW x \in Lexemes, NEW y \in Lexemes, Before(x, y), NEW n, Leads(y, n)
  PROVE  LeavesText(<<x, y>>, n) /\ <<x, y>> # <<>> /\ Head(<<x, y>>) = x
<1>1. Last(<<x, y>>) = y /\ <<x, y>> # <<>> /\ Head(<<x, y>>) = x
  BY DEF Last
<1> QED BY <1>1 DEF LeavesText, Lookahead, Leads

LEMMA LexemeType ==
  ASSUME NEW is \in Kinds, NEW line \in Int, NEW col \in Nat, NEW rows \in Nat, NEW tab \in BOOLEAN
  PROVE  /\ Lexeme(is, line, col, rows, tab) \in Lexemes
         /\ Lexeme(is, line, col, rows, tab).line = line
BY DEF Lexeme, Lexemes

LEMMA PossibleFacts ==
  ASSUME profile \in Profiles, NEW x, x.line \in Int, x.rows \in Nat, x.col \in Nat, Leads(x, left),
         NEW n \in Possible(x)
  PROVE  n \in Lexemes /\ Before(x, n) /\ Leads(n, Left(n))
<1>1. left \in Nat
  BY DEF Leads
<1>2. CASE n = End(x) /\ (left = 0 \/ profile.text = <<>>)
  <2>1. "end" \in Kinds /\ x.line + x.rows + 1 \in Int
    BY DEF Kinds
  <2>2. n \in Lexemes /\ n.line = x.line + x.rows + 1 /\ n.is = "end"
    BY <1>2, <2>1, LexemeType DEF End, Lexeme
  <2>3. Left(n) = 0
    BY <2>2 DEF Left
  <2> QED BY <1>1, <2>2, <2>3, <1>2 DEF Before, Leads
<1>3. CASE profile.text = <<>> /\ left > 0 /\ n \in NextLexemes(x)
  <2>1. /\ profile.kinds \subseteq Kinds \ {"end"} /\ profile.columns \subseteq Nat
        /\ profile.rows \in Nat /\ profile.tabs \in BOOLEAN
    BY ProfilesAssumption
  <2>2. PICK is \in profile.kinds, line \in {x.line + x.rows, x.line + x.rows + 1},
             col \in profile.columns \union {x.col + 2}, rows \in 0..profile.rows, tab \in BOOLEAN :
          n = Lexeme(is, line, col, rows, tab)
    <3> DEFINE tabs == IF profile.tabs THEN {FALSE, TRUE} ELSE {FALSE}
               sameLine == {Lexeme(is, x.line + x.rows, x.col + 2, rows, tab) :
                              is \in profile.kinds \ (Markers \union Directives), rows \in 0..profile.rows, tab \in tabs}
               nextLine == {Lexeme(is, x.line + x.rows + 1, col, rows, tab) :
                              is \in profile.kinds, col \in profile.columns, rows \in 0..profile.rows, tab \in tabs}
               may(y) == /\ y.is # "quoted" => y.rows = 0
                         /\ y.is \in Markers \union Directives => y.col = 0
                         /\ y.tab => y.col > 0
                         /\ ~(x.is = "plain" /\ y.is \in {"plain", "quoted"} /\ y.line = x.line)
    <3>0. NextLexemes(x) = {y \in nextLine \union (IF x.is \in EndsLine \union {"start"} THEN {} ELSE sameLine) : may(y)}
      BY DEF NextLexemes
    <3>1. n \in nextLine \union sameLine
      <4> HIDE DEF nextLine, sameLine, may
      <4> QED BY <1>3, <3>0
    <3>2. tabs \subseteq BOOLEAN
      OBVIOUS
    <3> HIDE DEF tabs
    <3>3. CASE n \in nextLine
      BY <3>2, <3>3
    <3>4. CASE n \in sameLine
      <4>1. PICK is \in profile.kinds, rows \in 0..profile.rows, tab \in tabs :
              n = Lexeme(is, x.line + x.rows, x.col + 2, rows, tab)
        BY <3>4
      <4>2. x.line + x.rows \in {x.line + x.rows, x.line + x.rows + 1} /\ tab \in BOOLEAN
            /\ x.col + 2 \in profile.columns \union {x.col + 2}
        BY <3>2
      <4> QED BY <4>1, <4>2
    <3> QED BY <3>1, <3>3, <3>4
  <2>3. is \in Kinds \ {"end"} /\ line \in Int /\ col \in Nat /\ rows \in Nat
    BY <2>1
  <2>4. n \in Lexemes /\ n.line = line /\ n.is = is
    BY <2>2, <2>3, LexemeType DEF Lexeme
  <2>5. Before(x, n)
    BY <2>4 DEF Before
  <2> QED BY <1>1, <1>3, <2>3, <2>4, <2>5 DEF Leads, Left
<1>4. CASE profile.text # <<>> /\ left > 0 /\ n = GivenAt(left)
  <2> DEFINE text == profile.text
             i == Len(text) - left + 1
  <2>1. /\ text \in Seq(Lexemes) /\ \A j \in 1..Len(text) - 1 : Before(text[j], text[j + 1])
    BY <1>4, ProfilesAssumption
  <2>2. left <= Len(text) /\ Before(x, n) /\ n = text[i]
    BY <1>4 DEF Leads, GivenAt
  <2>3. Len(text) \in Nat /\ i \in 1..Len(text) /\ (left > 1 => i \in 1..Len(text) - 1 /\ i + 1 = Len(text) - (left - 1) + 1)
    <3>1. Len(text) \in Nat
      BY <2>1, LenProperties
    <3> HIDE DEF text
    <3> QED BY <3>1, <1>1, <1>4, <2>2
  <2>4. n \in Lexemes
    BY <2>1, <2>2, <2>3, ElementOfSeq
  <2>5. left > 1 => Before(n, GivenAt(left - 1))
    BY <2>1, <2>2, <2>3 DEF GivenAt
  <2> HIDE DEF i
  <2>6. Left(n) \in {0, left - 1} /\ Left(n) \in Nat
    BY <1>1, <1>4 DEF Left
  <2> QED BY <1>1, <1>4, <2>2, <2>4, <2>5, <2>6 DEF Leads
<1> QED BY <1>1, <1>2, <1>3, <1>4 DEF Possible, GivenAt

LEMMA FirstLine ==
  ASSUME profile \in Profiles, left \in Nat, profile.text # <<>> => left <= Len(profile.text),
         NEW n \in Possible(BeforeText)
  PROVE  n.line >= 0
<1> DEFINE x == BeforeText
<1>1. x.line = -1 /\ x.rows = 0 /\ x.is = "start"
  BY DEF BeforeText, Lexeme
<1> HIDE DEF x
<1>2. ASSUME n = End(x) PROVE n.line >= 0
  <2>1. n.line = x.line + x.rows + 1
    BY <1>2 DEF End, Lexeme
  <2> QED BY <1>1, <2>1
<1>3. ASSUME n \in NextLexemes(x) PROVE n.line >= 0
  <2> DEFINE tabs == IF profile.tabs THEN {FALSE, TRUE} ELSE {FALSE}
             nextLine == {Lexeme(is, x.line + x.rows + 1, col, rows, tab) :
                            is \in profile.kinds, col \in profile.columns, rows \in 0..profile.rows, tab \in tabs}
             sameLine == {Lexeme(is, x.line + x.rows, x.col + 2, rows, tab) :
                            is \in profile.kinds \ (Markers \union Directives), rows \in 0..profile.rows, tab \in tabs}
             may(y) == /\ y.is # "quoted" => y.rows = 0
                       /\ y.is \in Markers \union Directives => y.col = 0
                       /\ y.tab => y.col > 0
                       /\ ~(x.is = "plain" /\ y.is \in {"plain", "quoted"} /\ y.line = x.line)
  <2>0. NextLexemes(x) = {y \in nextLine \union (IF x.is \in EndsLine \union {"start"} THEN {} ELSE sameLine) : may(y)}
    BY DEF NextLexemes
  <2>1. n \in nextLine
    <3> HIDE DEF nextLine, sameLine, may
    <3> QED BY <1>1, <1>3, <2>0
  <2>2. n.line = x.line + x.rows + 1
    <3> HIDE DEF tabs
    <3> QED BY <2>1 DEF Lexeme
  <2> QED BY <1>1, <2>2
<1>4. ASSUME profile.text # <<>>, left > 0, n = GivenAt(left) PROVE n.line >= 0
  <2>1. /\ profile.text \in Seq(Lexemes) /\ \A i \in 1..Len(profile.text) : profile.text[i].line >= 0
    BY <1>4, ProfilesAssumption
  <2>2. Len(profile.text) - left + 1 \in 1..Len(profile.text)
    BY <1>4, <2>1, LenProperties
  <2> QED BY <1>4, <2>1, <2>2 DEF GivenAt
<1>5. n \in Possible(x)
  BY DEF x
<1> QED BY <1>2, <1>3, <1>4, <1>5 DEF Possible, GivenAt

LEMMA Joined ==
  ASSUME NEW m, NEW y
  PROVE  <<m>> \o <<>> = <<m>> /\ <<m>> \o <<y>> = <<m, y>>
<1>1. <<m>> \in Seq({m, y}) /\ <<m>> \o <<>> = <<m>>
  BY ConcatEmptySeq
<1>2. <<m>> \o <<y>> = Append(<<m>>, y)
  BY <1>1, AppendIsConcat
<1>3. Append(<<m>>, y) = <<m, y>>
  <2> DEFINE S   == {m, y}
             one == <<m>>
             two == <<m, y>>
             a   == Append(one, y)
  <2>1. one \in Seq(S) /\ Len(one) = 1 /\ one[1] = m /\ y \in S
    BY <1>1
  <2>2. two \in Seq(S) /\ Len(two) = 2 /\ two[1] = m /\ two[2] = y
    OBVIOUS
  <2> HIDE DEF one, two, S
  <2>3. /\ a \in Seq(S) /\ Len(a) = Len(one) + 1
        /\ \A i \in 1..Len(one) : a[i] = one[i]
        /\ a[Len(one) + 1] = y
    <3>1. one \in Seq(S) /\ y \in S
      BY <2>1
    <3> QED BY ONLY <3>1, AppendProperties
  <2> HIDE DEF a
  <2>4. Len(a) = 2 /\ a[1] = m /\ a[2] = y
    BY <2>1, <2>3
  <2>5. a = two
    <3>1. \A i \in 1..2 : a[i] = two[i]
      BY <2>2, <2>4
    <3> QED BY <2>2, <2>3, <2>4, <3>1, SeqEqual
  <2> QED BY <2>5 DEF a, one, two
<1> QED BY <1>1, <1>2, <1>3

LEMMA FollowingFacts ==
  ASSUME TextShape, ahead # <<>>, NEW n \in Following
  PROVE  /\ X \in Lexemes /\ n \in Lexemes /\ Leads(n, MoreAt(n))
         /\ X.is # "end" => Before(X, n)
         /\ X.is = "end" => LeavesText(ahead, MoreAt(n))
<1>1. /\ Lookahead(ahead) /\ Leads(Last(ahead), left) /\ profile \in Profiles
      /\ X = Head(ahead)
  BY DEF TextShape, LeavesText, X
<1>2. CASE Len(ahead) = 2
  <2>1. n = ahead[2] /\ MoreAt(n) = left
    BY <1>2 DEF Following, MoreAt
  <2> QED BY <1>1, <1>2, <2>1, LookaheadFacts DEF LeavesText, Leads, TextShape
<1>3. CASE Len(ahead) = 1 /\ X.is = "end"
  <2>1. n = X /\ MoreAt(n) = 0
    BY <1>3 DEF Following, MoreAt, Left
  <2>2. X \in Lexemes /\ ahead = <<X>>
    BY <1>1, <1>3, LookaheadFacts
  <2>3. Leads(X, 0)
    <3>1. profile.text # <<>> => 0 <= Len(profile.text)
      BY <1>1, ProfilesAssumption, LenProperties
    <3> QED BY <3>1 DEF Leads
  <2> QED BY <1>3, <2>1, <2>2, <2>3, OneAhead
<1>4. CASE Len(ahead) = 1 /\ X.is # "end"
  <2>1. n \in Possible(X) /\ MoreAt(n) = Left(n)
    BY <1>4 DEF Following, MoreAt
  <2>2. X \in Lexemes /\ Leads(X, left)
    BY <1>1, <1>4, LookaheadFacts
  <2>3. X.line \in Int /\ X.rows \in Nat /\ X.col \in Nat
    BY <2>2 DEF Lexemes
  <2> HIDE DEF X
  <2> QED BY <1>1, <1>4, <2>1, <2>2, <2>3, PossibleFacts
<1> QED BY <1>1, <1>2, <1>3, <1>4, LookaheadFacts

-----------------------------------------------------------------------------
(* fy_fetch_tokens *)

(***************************************************************************)
(* Whatever fetches: the scanner did not end, and has no error.            *)
(***************************************************************************)
LEMMA FetchingFacts ==
  ASSUME Shape, Scanned, Fetching
  PROVE  /\ ~Failed /\ scan.error = "none" /\ ~scan.ended /\ state # "END"
         /\ scan.started => Sound(scan) /\ ahead # <<>> /\ scan.line <= X.line
         /\ ~scan.started => event \in {"none", "reset"} /\ (scan.queue = <<>> \/ scan.keys # <<>>)
<1>1. ~Failed /\ state # "END" /\ ~Ready /\ scan.error = "none"
  BY DEF Fetching, Scanned, ScanShape
<1>2. scan.ended => scan.keys = <<>> /\ scan.text = <<>>
  BY <1>1 DEF Scanned, ScanShape
<1>3. scan.text = <<>> => IF scan.queue = <<>> THEN ~scan.ended ELSE scan.keys # <<>>
  BY <1>1 DEF Ready
<1>4. ~scan.started => event \in {"none", "reset"}
  BY <1>1 DEF Shape, EventShape, Scanned, ScanShape, Failed
<1>5. ~scan.started => scan.text = <<>>
  BY DEF Scanned, ScanShape, Waiting
<1>6. scan.started => Sound(scan) /\ ahead # <<>> /\ scan.line <= X.line
  BY <1>1 DEF Scanned, ScanShape, X
<1> QED BY <1>1, <1>2, <1>3, <1>4, <1>5, <1>6

LEMMA FetchedKeeps ==
  ASSUME Shape, Scanned, CanFetch, NEW result, NEW lexemes, NEW more, Fetched(result, lexemes, more),
         Typed(result), result.started = scan.started, Sound(scan) => Sound(result),
         result.error = "none" => /\ result.ended => result.keys = <<>> /\ result.text = <<>>
                                  /\ LeavesText(lexemes, more) /\ lexemes # <<>>
                                  /\ result.line <= Head(lexemes).line
  PROVE  Scanned'
<1>1. ~Failed /\ state # "END" /\ scan.started /\ Sound(scan) /\ event # "error"
  BY FetchingFacts DEF CanFetch, Failed
<1>2. scan' = result /\ profile' = profile /\ state' = state /\ taken' = taken
  BY DEF Fetched, parser
<1>3. IF result.error = "none" THEN event' = event /\ ahead' = lexemes /\ left' = more
                               ELSE event' = "error" /\ ahead' = <<>> /\ left' = 0
  BY DEF Fetched
<1>4. Typed(result) /\ Sound(result) /\ result.error # "internal" /\ result.started
  BY <1>1 DEF Sound
<1>5. state # "NONE"
  BY <1>1 DEF Scanned, ScanShape
<1>6. CASE result.error = "none"
  <2>1. LeavesText(ahead, left)'
    BY <1>2, <1>3, <1>6 DEF LeavesText, Lookahead, Leads, GivenAt
  <2>2. TextShape' /\ ValueType'
    BY <1>2, <1>3, <1>6, <2>1 DEF TextShape, ValueType, Scanned
  <2>3. ScanShape'
    BY <1>1, <1>2, <1>3, <1>4, <1>5, <1>6 DEF ScanShape, Failed
  <2> QED BY <2>2, <2>3 DEF Scanned
<1>7. CASE result.error # "none"
  <2>1. ahead' = <<>> /\ left' = 0 /\ event' = "error"
    BY <1>3, <1>7
  <2>2. profile.text # <<>> => 0 <= Len(profile.text)
    BY ProfilesAssumption, LenProperties DEF Scanned, TextShape
  <2>3. TextShape'
    BY <1>2, <2>1, <2>2 DEF TextShape, LeavesText, Lookahead, Scanned
  <2>4. ValueType'
    BY <1>2, <2>1 DEF ValueType, Scanned
  <2>5. ScanShape'
    BY <1>1, <1>2, <1>4, <1>5, <2>1 DEF ScanShape, Failed
  <2> QED BY <2>3, <2>4, <2>5 DEF Scanned
<1> QED BY <1>6, <1>7

LEMMA StreamStartKeeps ==
  ASSUME NEW s, Typed(s), s.error = "none", ~s.started
  PROVE  LET t == StreamStart(s)
         IN  /\ Typed(t) /\ t.error = "none" /\ t.started = s.started /\ t.ended = s.ended
             /\ t.text = s.text /\ t.keys = s.keys /\ t.line = s.line
             /\ t.queue = Append(s.queue, "STREAM-START")
<1> DEFINE u == AllowKey(s, TRUE)
           t == StreamStart(s)
<1>1. /\ u \in Scans /\ u.error = "none" /\ u.started = s.started /\ u.ended = s.ended /\ u.text = s.text
      /\ u.keys = s.keys /\ u.line = s.line /\ u.queue = s.queue /\ u.flows = s.flows /\ u.indents = s.indents
  BY DEF AllowKey, Typed, Scans
<1>2. Typed(u)
  <2> HIDE DEF u
  <2> QED BY <1>1 DEF Typed
<1>3. t = Queue(u, "STREAM-START")
  BY DEF StreamStart
<1> HIDE DEF u, t
<1>4. Append(u.queue, "STREAM-START") \in Seq(AllTokens) /\ Len(Append(u.queue, "STREAM-START")) = Len(u.queue) + 1
      /\ Len(u.queue) \in Nat
  <2>1. u.queue \in Seq(AllTokens) /\ "STREAM-START" \in AllTokens
    BY <1>1 DEF Scans, AllTokens
  <2> QED BY <2>1, AppendFacts, LenProperties
<1>5. t = [u EXCEPT !.queue = Append(u.queue, "STREAM-START"), !.first = u.first]
  BY <1>1, <1>3 DEF Queue, Do, Content
<1>6. /\ t \in Scans /\ t.error = "none" /\ t.started = u.started /\ t.ended = u.ended /\ t.text = u.text
      /\ t.keys = u.keys /\ t.line = u.line /\ t.queue = Append(u.queue, "STREAM-START")
      /\ t.flows = u.flows /\ t.indents = u.indents
  BY <1>1, <1>4, <1>5 DEF Scans
<1>7. TokensFit(t.keys, t.queue)
  <2> DEFINE q == u.queue
             r == t.queue
  <2>1. u.keys \in Seq(SimpleKeys) /\ TokensFit(u.keys, q) /\ t.keys = u.keys
    BY <1>1, <1>2, <1>6 DEF Typed, Scans
  <2>2. Len(q) \in Nat /\ Len(r) \in Nat /\ Len(q) <= Len(r)
    BY <1>4, <1>6
  <2> HIDE DEF q, r
  <2>3. TokensFit(u.keys, r)
    BY <2>1, <2>2, TokensFitMore
  <2> QED BY <2>1, <2>3 DEF r
<1>8. Typed(t)
  BY <1>1, <1>2, <1>6, <1>7 DEF Typed
<1> QED BY <1>1, <1>6, <1>8 DEF t

LEMMA StreamStartScanned ==
  ASSUME Shape, Scanned, FetchStreamStart
  PROVE  Scanned'
<1>1. ~Failed /\ ~scan.started /\ scan.error = "none" /\ state # "END" /\ event \in {"none", "reset"}
      /\ (scan.queue = <<>> \/ scan.keys # <<>>)
  BY FetchingFacts DEF FetchStreamStart
<1>2. PICK x \in Possible(BeforeText) : Fetched(StreamStart(scan), <<x>>, Left(x))
  BY DEF FetchStreamStart
<1> DEFINE s == StreamStart(scan)
<1>3. /\ Typed(s) /\ s.error = "none" /\ ~s.started /\ ~s.ended /\ s.text = <<>> /\ s.line = 0 /\ s.keys = scan.keys
      /\ s.queue = Append(scan.queue, "STREAM-START")
  <2>1. Typed(scan) /\ ~scan.ended /\ scan.text = <<>> /\ scan.line = 0
    BY <1>1 DEF Scanned, ScanShape, Waiting
  <2> QED BY <1>1, <2>1, StreamStartKeeps
<1> HIDE DEF s
<1>4. x \in Lexemes /\ Before(BeforeText, x) /\ Leads(x, Left(x))
  <2>1. BeforeText.line = -1 /\ BeforeText.rows = 0 /\ BeforeText.col = 0
    BY DEF BeforeText, Lexeme
  <2>2. profile \in Profiles /\ left \in Nat /\ (profile.text # <<>> => left <= Len(profile.text))
    BY DEF Scanned, TextShape, LeavesText, Leads
  <2>3. ASSUME profile.text # <<>>, left > 0 PROVE Before(BeforeText, GivenAt(left))
    <3>1. /\ profile.text \in Seq(Lexemes) /\ \A i \in 1..Len(profile.text) : profile.text[i].line >= 0
      BY <2>2, <2>3, ProfilesAssumption
    <3>2. Len(profile.text) - left + 1 \in 1..Len(profile.text)
      BY <2>2, <2>3, <3>1, LenProperties
    <3>3. GivenAt(left).line >= 0 /\ GivenAt(left) \in Lexemes
      BY <3>1, <3>2, ElementOfSeq DEF GivenAt
    <3> QED BY <2>1, <3>3 DEF Before, Lexemes
  <2>4. Leads(BeforeText, left)
    BY <2>2, <2>3 DEF Leads
  <2> QED BY <2>1, <2>2, <2>4, PossibleFacts
<1>5. x.line >= 0
  BY FirstLine DEF Scanned, TextShape, LeavesText, Leads
<1>6. scan' = s /\ profile' = profile /\ state' = state /\ taken' = taken /\ event' = event
      /\ ahead' = <<x>> /\ left' = Left(x)
  BY <1>2, <1>3 DEF Fetched, parser, s
<1>7. LeavesText(<<x>>, Left(x)) /\ <<x>> # <<>> /\ Head(<<x>>) = x
  BY <1>4, OneAhead
<1>8. TextShape'
  <2>1. LeavesText(ahead, left)'
    BY <1>6, <1>7 DEF LeavesText, Lookahead, Leads, GivenAt
  <2> QED BY <1>6, <2>1 DEF TextShape, Scanned
<1>9. Waiting(scan)'
  <2>1. s.keys # <<>> \/ s.queue = <<"STREAM-START">>
    <3>1. Append(<<>>, "STREAM-START") = <<"STREAM-START">>
      OBVIOUS
    <3> QED BY <1>1, <1>3, <3>1
  <2> QED BY <1>1, <1>3, <1>6, <2>1 DEF Waiting
<1>10. ScanShape'
  <2>1. state = "NONE"
    BY <1>1 DEF Scanned, ScanShape
  <2>2. s.line <= x.line
    BY <1>3, <1>5
  <2> QED BY <1>1, <1>3, <1>6, <1>7, <1>9, <2>1, <2>2 DEF ScanShape, Failed
<1>11. ValueType'
  BY <1>6 DEF ValueType, Scanned
<1> QED BY <1>8, <1>10, <1>11 DEF Scanned

LEMMA FetchScanned ==
  ASSUME Shape, Scanned, SkipComment \/ FetchToken \/ GrowText \/ EndText
  PROVE  Scanned'
<1>1. CanFetch
  BY DEF SkipComment, FetchToken, GrowText, EndText
<1>2. /\ ~Failed /\ scan.error = "none" /\ ~scan.ended /\ scan.started /\ Sound(scan)
      /\ ahead # <<>> /\ scan.line <= X.line /\ Typed(scan) /\ TextShape
  BY <1>1, FetchingFacts DEF CanFetch, Scanned, ScanShape
<1>3. X \in Lexemes /\ X = Head(ahead)
  BY <1>2, LookaheadFacts DEF TextShape, LeavesText, X
<1> DEFINE x == X
<1> HIDE DEF x
<1>4. x = X /\ x \in Lexemes /\ scan.line <= x.line /\ x.line \in Int /\ x.rows \in Nat /\ scan.line \in Int
  BY <1>2, <1>3 DEF x, Lexemes, Typed, Scans
<1>5. \A n \in Lexemes : n.line \in Int
  BY DEF Lexemes
<1>6. CASE SkipComment
  <2>1. PICK n \in Following : Fetched(ScanTo(scan, X), <<n>>, MoreAt(n))
    BY <1>6 DEF SkipComment
  <2>2. scan.text = <<>> /\ X.is = "#"
    BY <1>6 DEF SkipComment
  <2>3. n \in Lexemes /\ Leads(n, MoreAt(n)) /\ Before(X, n)
    BY <1>2, <2>2, FollowingFacts
  <2> DEFINE s == ScanTo(scan, x)
  <2>4. /\ Typed(s) /\ (Sound(scan) => Sound(s)) /\ s.started = scan.started /\ s.ended = scan.ended
        /\ s.error = "none" => s.line = x.line
    BY <1>2, <1>4, <2>2, ScanToKeeps
  <2>5. LeavesText(<<n>>, MoreAt(n)) /\ <<n>> # <<>> /\ Head(<<n>>) = n
    BY <2>3, OneAhead
  <2>6. x.line <= n.line
    BY <1>4, <1>5, <2>3 DEF Before
  <2>7. Fetched(s, <<n>>, MoreAt(n))
    BY <1>4, <2>1
  <2> HIDE DEF s
  <2>8. s.error = "none" => s.line <= Head(<<n>>).line
    BY <2>4, <2>5, <2>6
  <2> QED BY <1>1, <1>2, <2>4, <2>5, <2>7, <2>8, FetchedKeeps
<1>7. CASE FetchToken
  <2> DEFINE lexemes(n) == IF X.is = "end" THEN ahead
                           ELSE IF Stays(scan, X) THEN <<X, n>>
                           ELSE <<IF Eats(scan, X) THEN Untabbed(X, n) ELSE n>>
  <2>1. PICK n \in Following : Fetched(Fetch(scan, X, n), lexemes(n), MoreAt(n))
    BY <1>7 DEF FetchToken
  <2>2. scan.text = <<>>
    BY <1>7 DEF FetchToken
  <2>3. /\ n \in Lexemes /\ Leads(n, MoreAt(n)) /\ (X.is # "end" => Before(X, n))
        /\ X.is = "end" => LeavesText(ahead, MoreAt(n))
    BY <1>2, FollowingFacts
  <2> DEFINE s == Fetch(scan, x, n)
             l == lexemes(n)
  <2>4. FetchedAt(scan, s, x)
    BY <1>2, <1>4, <2>2, <2>3, FetchKeeps
  <2>5. Fetched(s, l, MoreAt(n))
    BY <1>4, <2>1
  <2> HIDE DEF s
  <2>6. LeavesText(l, MoreAt(n)) /\ l # <<>> /\ (s.error = "none" => s.line <= Head(l).line)
    <3>1. CASE X.is = "end"
      <4>1. l = ahead /\ s.error = "none" => s.line = x.line
        BY <1>4, <2>4, <3>1 DEF FetchedAt
      <4> QED BY <1>2, <1>3, <1>4, <2>3, <3>1, <2>4 DEF FetchedAt
    <3>2. CASE X.is # "end" /\ Stays(scan, X)
      <4>1. l = <<X, n>>
        BY <3>2
      <4>2. s.error = "none" => s.line = x.line
        BY <1>4, <2>4, <3>2 DEF FetchedAt, Stays
      <4> HIDE DEF l
      <4> QED BY <1>3, <1>4, <2>3, <3>2, <4>1, <4>2, TwoAhead
    <3>3. CASE X.is # "end" /\ ~Stays(scan, X)
      <4> DEFINE m == IF Eats(scan, X) THEN Untabbed(X, n) ELSE n
      <4>1. l = <<m>>
        BY <3>3
      <4>2. m \in Lexemes /\ m.line = n.line /\ m.rows = n.rows
        BY <2>3 DEF Untabbed, Lexemes
      <4> HIDE DEF m, l
      <4>3. Leads(m, MoreAt(n))
        BY <2>3, <4>2 DEF Leads, Before
      <4>4. x.line + x.rows <= n.line
        BY <1>4, <2>3, <3>3 DEF Before
      <4>5. s.error = "none" => s.line <= n.line
        BY <1>4, <1>5, <2>3, <2>4, <4>4 DEF FetchedAt
      <4> QED BY <4>1, <4>2, <4>3, <4>5, OneAhead
    <3> QED BY <3>1, <3>2, <3>3
  <2> HIDE DEF l
  <2> QED BY <1>1, <1>2, <2>4, <2>5, <2>6, FetchedKeeps DEF FetchedAt
<1>8. CASE GrowText
  <2>1. PICK n \in Following : Fetched(AddText(scan, X), <<n>>, MoreAt(n))
    BY <1>8 DEF GrowText
  <2>2. scan.text # <<>> /\ X.is # "end"
    BY <1>8 DEF GrowText, InText
  <2>3. n \in Lexemes /\ Leads(n, MoreAt(n)) /\ Before(X, n)
    BY <1>2, <2>2, FollowingFacts
  <2> DEFINE s == AddText(scan, x)
  <2>4. /\ Typed(s) /\ (Sound(scan) => Sound(s)) /\ s.started = scan.started /\ s.ended = scan.ended
        /\ s.line = x.line + x.rows
    BY <1>2, <1>4, <2>2, AddTextKeeps
  <2>5. LeavesText(<<n>>, MoreAt(n)) /\ <<n>> # <<>> /\ Head(<<n>>) = n
    BY <2>3, OneAhead
  <2>6. x.line + x.rows <= n.line
    BY <1>4, <2>3 DEF Before
  <2>7. Fetched(s, <<n>>, MoreAt(n))
    BY <1>4, <2>1
  <2> HIDE DEF s
  <2>8. s.line <= Head(<<n>>).line
    BY <2>4, <2>5, <2>6
  <2> QED BY <1>1, <1>2, <2>4, <2>5, <2>7, <2>8, FetchedKeeps
<1>9. CASE EndText /\ scan.text.is = "plain"
  <2> DEFINE s == PlainEnd(scan, x)
             m == [X EXCEPT !.tab = FALSE]
             l == <<m>> \o Tail(ahead)
  <2>1. scan.text # <<>> /\ Fetched(s, l, left)
    BY <1>4, <1>9 DEF EndText
  <2>2. /\ Typed(s) /\ (Sound(scan) => Sound(s)) /\ s.started = scan.started
        /\ s.error = "none" => s.line = x.line /\ ~s.ended
    BY <1>2, <1>4, <2>1, PlainEndKeeps
  <2>3. m \in Lexemes /\ m.line = x.line /\ m.rows = x.rows
    BY <1>3, <1>4 DEF Lexemes
  <2>4. LeavesText(l, left) /\ l # <<>> /\ Head(l) = m
    <3>1. Lookahead(ahead) /\ Leads(Last(ahead), left)
      BY <1>2 DEF TextShape, LeavesText
    <3> HIDE DEF m
    <3>2. CASE Len(ahead) = 1
      <4>1. Tail(ahead) = <<>> /\ Last(ahead) = X
        BY <1>2, <1>3, <3>1, <3>2, LookaheadFacts
      <4>2. l = <<m>>
        BY <4>1, Joined
      <4>3. Leads(m, left)
        BY <1>4, <2>3, <3>1, <4>1 DEF Leads, Before
      <4> QED BY <2>3, <4>2, <4>3, OneAhead
    <3>3. CASE Len(ahead) = 2
      <4> DEFINE y == ahead[2]
      <4>1. Tail(ahead) = <<y>> /\ Last(ahead) = y /\ y \in Lexemes /\ Before(X, y)
        BY <1>2, <1>3, <3>1, <3>3, LookaheadFacts
      <4> HIDE DEF y
      <4>2. l = <<m, y>>
        BY <4>1, Joined
      <4>3. Before(m, y)
        BY <1>4, <2>3, <4>1 DEF Before
      <4> HIDE DEF l
      <4> QED BY <2>3, <3>1, <4>1, <4>2, <4>3, TwoAhead
    <3> QED BY <1>2, <3>1, <3>2, <3>3, LookaheadFacts
  <2> HIDE DEF s, l, m
  <2>5. s.error = "none" => s.line <= Head(l).line
    BY <1>4, <2>2, <2>3, <2>4
  <2> QED BY <1>1, <1>2, <2>1, <2>2, <2>4, <2>5, FetchedKeeps
<1>10. CASE EndText /\ scan.text.is # "plain"
  <2> DEFINE s == BlockScalarEnd(scan, x)
  <2>1. scan.text # <<>> /\ Fetched(s, ahead, left)
    BY <1>4, <1>10 DEF EndText
  <2>2. scan.text.is = "block"
    BY <1>2, <1>10, <2>1 DEF Typed, Scans, Scalars
  <2>3. /\ Typed(s) /\ (Sound(scan) => Sound(s)) /\ s.started = scan.started
        /\ s.error = "none" => s.line = x.line /\ ~s.ended
    BY <1>2, <1>4, <2>1, <2>2, BlockScalarEndKeeps
  <2>4. LeavesText(ahead, left)
    BY <1>2 DEF TextShape
  <2> HIDE DEF s
  <2>5. s.error = "none" => s.line <= Head(ahead).line
    BY <1>3, <1>4, <2>3
  <2> QED BY <1>1, <1>2, <2>1, <2>3, <2>4, <2>5, FetchedKeeps
<1> QED BY <1>6, <1>7, <1>8, <1>9, <1>10


-----------------------------------------------------------------------------
(* fy_parse_internal *)

(***************************************************************************)
(* What the parser does to the scanner when it has peeked at a token: it   *)
(* removes that, sets a mark of a document, or forgets the flow.           *)
(***************************************************************************)
Handed(s) ==
  /\ s \in Scans /\ FlowsFit(s.flows) /\ s.queue \in Seq(LaterTokens)
  /\ s.indents = scan.indents /\ s.keys = scan.keys /\ s.text = scan.text /\ s.line = scan.line
  /\ s.error = scan.error /\ s.started = scan.started /\ s.ended = scan.ended

LEMMA PeekedFacts ==
  ASSUME Scanned, Ready
  PROVE  /\ Typed(scan) /\ scan.error = "none" /\ scan.keys = <<>> /\ scan.text = <<>> /\ ~Failed /\ state # "END"
         /\ scan.flows \in Seq(Flows) /\ scan.flows # <<>> /\ scan.queue \in Seq(AllTokens)
         /\ state # "NONE" => scan.started /\ scan.queue \in Seq(LaterTokens) /\ ahead # <<>>
<1>1. Typed(scan) /\ scan.error = "none" /\ scan.text = <<>> /\ ~Failed /\ state # "END"
  BY DEF Ready, Scanned, ScanShape
<1>2. scan.keys = <<>>
  BY <1>1 DEF Ready, Scanned, ScanShape
<1>3. state # "NONE" => scan.started /\ ahead # <<>>
  BY <1>1 DEF Scanned, ScanShape
<1>4. scan.flows \in Seq(Flows) /\ scan.flows # <<>> /\ scan.queue \in Seq(AllTokens)
  BY <1>1 DEF Typed, Scans, FlowsFit
<1> QED BY <1>1, <1>2, <1>3, <1>4 DEF Typed

LEMMA ScanHanded ==
  ASSUME Scanned, Ready, state # "NONE"
  PROVE  Handed(scan) /\ Handed(Rest)
<1>1. /\ Typed(scan) /\ scan.queue \in Seq(LaterTokens)
  BY PeekedFacts
<1>2. Handed(scan)
  BY <1>1 DEF Handed, Typed
<1>3. LaterTokens \subseteq AllTokens
  BY DEF AllTokens
<1> DEFINE queue == IF scan.queue = <<>> THEN scan.queue ELSE Tail(scan.queue)
<1>4. queue \in Seq(LaterTokens) /\ queue \in Seq(AllTokens)
  <2>1. queue \in Seq(LaterTokens)
    BY <1>1, HeadTailProperties
  <2> HIDE DEF queue
  <2> QED BY <1>3, <2>1, SeqMonotonic
<1>5. Rest = [scan EXCEPT !.queue = queue]
  BY DEF Rest
<1> HIDE DEF queue
<1>6. Handed(Rest)
  BY <1>1, <1>4, <1>5 DEF Handed, Typed, Scans
<1> QED BY <1>2, <1>6

LEMMA MarkHanded ==
  ASSUME NEW s, Handed(s), NEW t, t \in {[s EXCEPT !.first = TRUE], [s EXCEPT !.first = FALSE],
                                         [s EXCEPT !.handle = TRUE], [s EXCEPT !.handle = FALSE]}
  PROVE  Handed(t)
<1>1. s \in Scans
  BY DEF Handed
<1>2. /\ t \in Scans /\ t.flows = s.flows /\ t.queue = s.queue /\ t.indents = s.indents /\ t.keys = s.keys
      /\ t.text = s.text /\ t.line = s.line /\ t.error = s.error /\ t.started = s.started /\ t.ended = s.ended
  BY <1>1 DEF Scans
<1> QED BY <1>2 DEF Handed

LEMMA NoFlowsFacts ==
  ASSUME NEW s \in Scans, s.flows # <<>>
  PROVE  LET t == NoFlows(s)
         IN  /\ t \in Scans /\ FlowsFit(t.flows)
             /\ t.queue = s.queue /\ t.indents = s.indents /\ t.keys = s.keys /\ t.text = s.text
             /\ t.line = s.line /\ t.error = s.error /\ t.started = s.started /\ t.ended = s.ended
<1> DEFINE pending == Last(s.flows).pending
           flows   == <<Flow("none", pending)>>
           t       == NoFlows(s)
<1>1. s.flows \in Seq(Flows)
  BY DEF Scans
<1>2. Last(s.flows) \in Flows
  BY <1>1, FrontLast
<1>3. pending \in {NoKey} \union Marks
  BY <1>2 DEF Flows
<1> HIDE DEF pending
<1>4. Flow("none", pending) \in Flows /\ Flow("none", pending).is = "none"
  BY <1>3 DEF Flow, Flows
<1>5. flows \in Seq(Flows) /\ FlowsFit(flows)
  BY <1>4 DEF FlowsFit
<1>6. t = [s EXCEPT !.flows = flows, !.handle = FALSE]
  BY DEF NoFlows, pending
<1> HIDE DEF flows, t
<1>7. t \in Scans /\ t.flows = flows
      /\ t.queue = s.queue /\ t.indents = s.indents /\ t.keys = s.keys /\ t.text = s.text
      /\ t.line = s.line /\ t.error = s.error /\ t.started = s.started /\ t.ended = s.ended
  BY <1>5, <1>6 DEF Scans
<1> QED BY <1>5, <1>7 DEF t

(***************************************************************************)
(* A step of the parser within the stream gives an event or goes on in the *)
(* same state, and takes what is handed to it.                             *)
(***************************************************************************)
Proceeds ==
  /\ TextKept /\ Handed(scan')
  /\ taken' \in {"none", "BLOCK-ENTRY", "FLOW-ENTRY", "KEY", "VALUE"}
  /\ (event' = event /\ state' = state) \/ event' \in Events!Events

LEMMA ProceedsKeeps ==
  ASSUME Shape', Scanned, Ready, state # "NONE", Proceeds
  PROVE  Scanned'
<1>1. /\ Typed(scan) /\ scan.error = "none" /\ scan.keys = <<>> /\ scan.text = <<>> /\ ~Failed
      /\ scan.started /\ ahead # <<>>
  BY PeekedFacts
<1>2. profile' = profile /\ ahead' = ahead /\ left' = left
  BY DEF Proceeds, TextKept
<1> DEFINE s == scan'
<1>3. /\ s \in Scans /\ FlowsFit(s.flows) /\ s.queue \in Seq(LaterTokens)
      /\ s.indents = scan.indents /\ s.keys = <<>> /\ s.text = <<>> /\ s.line = scan.line
      /\ s.error = "none" /\ s.started /\ s.ended = scan.ended
  BY <1>1 DEF Proceeds, Handed
<1>4. event' \in Events!Events \/ (event' = event /\ state' = state)
  BY DEF Proceeds
<1>5. ~Failed' /\ event' \in Events!Events \union {"none", "error", "reset"} /\ state' # "NONE"
  <2>1. "error" \notin Events!Events /\ "none" \notin Events!Events /\ "reset" \notin Events!Events
    BY DEF Events!Events
  <2> QED BY <1>1, <1>4, <2>1 DEF Failed, Scanned, ValueType, Shape, EventShape
<1> HIDE DEF s
<1>6. Typed(s)
  BY <1>1, <1>3 DEF Typed, TokensFit, TextIndented
<1>7. Sound(s)
  BY <1>3 DEF Sound, KeysOrdered, KeysPast, KeysUpTo, TextFits
<1>8. scan.line <= Head(ahead).line
  BY <1>1 DEF Scanned, ScanShape
<1>9. ScanShape'
  BY <1>1, <1>2, <1>3, <1>5, <1>6, <1>7, <1>8 DEF ScanShape, s
<1>10. TextShape'
  BY <1>2 DEF Scanned, TextShape, LeavesText, Lookahead, Leads, GivenAt
<1>11. ValueType'
  BY <1>5 DEF ValueType, Proceeds
<1> QED BY <1>9, <1>10, <1>11 DEF Scanned

LEMMA RefuseKeeps ==
  ASSUME Scanned, Ready, Refuse, state = "NONE" => Token # "STREAM-START"
  PROVE  Scanned'
<1>1. /\ Typed(scan) /\ scan.error = "none" /\ scan.keys = <<>> /\ scan.text = <<>> /\ ~Failed
  BY PeekedFacts
<1>2. /\ event' = "error" /\ ahead' = <<>> /\ left' = 0 /\ scan' = scan
      /\ profile' = profile /\ state' = state /\ taken' = taken
  BY DEF Refuse, Keep, parser
<1>3. profile.text # <<>> => 0 <= Len(profile.text)
  BY ProfilesAssumption, LenProperties DEF Scanned, TextShape
<1>4. TextShape'
  BY <1>2, <1>3 DEF TextShape, LeavesText, Lookahead, Scanned
<1>5. ValueType'
  BY <1>2 DEF ValueType, Scanned
<1>6. ScanShape'
  <2>1. CASE scan.started
    BY <1>1, <1>2, <2>1 DEF ScanShape, Scanned, Failed
  <2>2. CASE ~scan.started
    <3>1. state = "NONE" /\ Waiting(scan)
      BY <2>2 DEF ScanShape, Scanned
    <3>2. scan.queue # <<"STREAM-START">>
      <4>1. state = "NONE" /\ Token # "STREAM-START"
        BY <3>1
      <4> QED BY <4>1 DEF Token
    <3>3. scan.queue \in Seq(LaterTokens)
      BY <1>1, <3>1, <3>2 DEF Waiting
    <3> QED BY <3>3, <1>1, <1>2, <2>2, <3>1 DEF ScanShape, Scanned, Failed, Waiting
  <2> QED BY <2>1, <2>2
<1> QED BY <1>4, <1>5, <1>6 DEF Scanned

(***************************************************************************)
(* What the steps are made of.                                             *)
(***************************************************************************)
LEMMA GiveProceeds ==
  ASSUME Scanned, Ready, state # "NONE", NEW e \in Events!Events, Emit(e), TextKept, Consume \/ Keep
  PROVE  Proceeds
BY ScanHanded DEF Proceeds, Emit, Consume, Keep

LEMMA TakeProceeds ==
  ASSUME Scanned, Ready, state # "NONE", NEW token \in {"BLOCK-ENTRY", "FLOW-ENTRY", "KEY", "VALUE"}, Take(token)
  PROVE  Proceeds
BY ScanHanded DEF Proceeds, Take, Consume, Quiet

LEMMA NodeProceeds ==
  ASSUME Scanned, Ready, state # "NONE", NEW in, NEW then, Node(in, then)
  PROVE  Proceeds
BY ScanHanded DEF Proceeds, Node, Keep, Quiet, Scanned, ValueType

LEMMA EmptyProceeds ==
  ASSUME Scanned, Ready, state # "NONE", NEW next, EmptyScalar(next)
  PROVE  Proceeds
<1>1. "SCALAR" \in Events!Events /\ Emit("SCALAR") /\ TextKept /\ Keep
  BY DEF EmptyScalar, Give, Events!Events
<1> QED BY <1>1, GiveProceeds

LEMMA GivenProceeds ==
  ASSUME Scanned, Ready, state # "NONE", Consume \/ Keep,
         NEW e \in {"SCALAR", "ALIAS", "SEQUENCE-START", "SEQUENCE-END", "MAPPING-START", "MAPPING-END", "STREAM-END"},
         Give(e)
  PROVE  Proceeds
<1>1. e \in Events!Events
  BY DEF Events!Events
<1> QED BY <1>1, GiveProceeds DEF Give

(***************************************************************************)
(* The steps.                                                              *)
(***************************************************************************)
Handles == Ready /\ state # "NONE" /\ (Refuse \/ Proceeds)

LEMMA BlockHandles ==
  ASSUME Scanned, BlockSequence \/ BlockMappingKey \/ BlockMappingValue
  PROVE  Handles
<1>1. Ready /\ state # "NONE"
  BY DEF BlockSequence, BlockMappingKey, BlockMappingValue, At
<1>2. CASE BlockSequence
  <2>1. \/ EmptyScalar("BLOCK_SEQUENCE_ENTRY") \/ Node("block", <<state>>)
        \/ Take("BLOCK-ENTRY") \/ Refuse
        \/ Give("SEQUENCE-END") /\ (Consume \/ Keep)
    BY <1>2 DEF BlockSequence
  <2> QED BY <1>1, <2>1, EmptyProceeds, NodeProceeds, TakeProceeds, GivenProceeds DEF Handles
<1>3. CASE BlockMappingKey
  <2>1. \/ EmptyScalar("BLOCK_MAPPING_VALUE") \/ Node("block", <<"BLOCK_MAPPING_VALUE">>)
        \/ Take("KEY") \/ Refuse
        \/ Give("MAPPING-END") /\ Consume
    BY <1>3 DEF BlockMappingKey
  <2> QED BY <1>1, <2>1, EmptyProceeds, NodeProceeds, TakeProceeds, GivenProceeds DEF Handles
<1>4. CASE BlockMappingValue
  <2>1. EmptyScalar("BLOCK_MAPPING_KEY") \/ Node("block", <<"BLOCK_MAPPING_KEY">>) \/ Take("VALUE")
    BY <1>4 DEF BlockMappingValue
  <2> QED BY <1>1, <2>1, EmptyProceeds, NodeProceeds, TakeProceeds DEF Handles
<1> QED BY <1>2, <1>3, <1>4

LEMMA FlowSequenceHandles ==
  ASSUME Scanned, FlowSequence \/ FlowSequenceKey \/ FlowSequenceValue \/ FlowSequencePairEnd
  PROVE  Handles
<1>1. Ready /\ state # "NONE"
  BY DEF FlowSequence, FlowSequenceKey, FlowSequenceValue, FlowSequencePairEnd, At
<1>2. CASE FlowSequence
  <2>1. \/ Give("MAPPING-START") /\ Consume
        \/ Node("flow", <<"FLOW_SEQUENCE_ENTRY">>)
        \/ Take("FLOW-ENTRY") \/ Refuse
        \/ Give("SEQUENCE-END") /\ Consume
    BY <1>2 DEF FlowSequence
  <2> QED BY <1>1, <2>1, NodeProceeds, TakeProceeds, GivenProceeds DEF Handles
<1>3. CASE FlowSequenceKey
  <2>1. \/ EmptyScalar("FLOW_SEQUENCE_ENTRY_MAPPING_VALUE")
        \/ Node("flow", <<"FLOW_SEQUENCE_ENTRY_MAPPING_VALUE">>)
    BY <1>3 DEF FlowSequenceKey
  <2> QED BY <1>1, <2>1, EmptyProceeds, NodeProceeds DEF Handles
<1>4. CASE FlowSequenceValue
  <2>1. \/ EmptyScalar("FLOW_SEQUENCE_ENTRY_MAPPING_END") \/ Take("VALUE")
        \/ Node("flow", <<"FLOW_SEQUENCE_ENTRY_MAPPING_END">>)
    BY <1>4 DEF FlowSequenceValue
  <2> QED BY <1>1, <2>1, EmptyProceeds, NodeProceeds, TakeProceeds DEF Handles
<1>5. CASE FlowSequencePairEnd
  BY <1>1, <1>5, GivenProceeds DEF FlowSequencePairEnd, Handles
<1> QED BY <1>2, <1>3, <1>4, <1>5

LEMMA FlowMappingHandles ==
  ASSUME Scanned, FlowMappingKey \/ FlowMappingValue \/ FlowMappingEmptyValue
  PROVE  Handles
<1>1. Ready /\ state # "NONE"
  BY DEF FlowMappingKey, FlowMappingValue, FlowMappingEmptyValue, At
<1>2. CASE FlowMappingKey
  <2>1. \/ EmptyScalar("FLOW_MAPPING_VALUE") \/ Node("flow", <<"FLOW_MAPPING_VALUE">>)
        \/ Node("flow", <<"FLOW_MAPPING_EMPTY_VALUE">>)
        \/ Take("KEY") \/ Take("FLOW-ENTRY") \/ Refuse
        \/ Give("MAPPING-END") /\ Consume
    BY <1>2 DEF FlowMappingKey
  <2> QED BY <1>1, <2>1, EmptyProceeds, NodeProceeds, TakeProceeds, GivenProceeds DEF Handles
<1>3. CASE FlowMappingValue
  <2>1. EmptyScalar("FLOW_MAPPING_KEY") \/ Node("flow", <<"FLOW_MAPPING_KEY">>) \/ Take("VALUE")
    BY <1>3 DEF FlowMappingValue
  <2> QED BY <1>1, <2>1, EmptyProceeds, NodeProceeds, TakeProceeds DEF Handles
<1>4. CASE FlowMappingEmptyValue
  BY <1>1, <1>4, EmptyProceeds DEF FlowMappingEmptyValue, Handles
<1> QED BY <1>2, <1>3, <1>4

LEMMA NodeHandles ==
  ASSUME Shape, Scanned, NodeAlias \/ NodeProperty \/ NodeContent \/ BlockNode
  PROVE  Handles
<1>1. Ready /\ state # "NONE"
  <2>1. Ready /\ (InNode \/ state = "BLOCK_NODE")
    BY DEF NodeAlias, NodeProperty, NodeContent, NodeAt, BlockNode, At
  <2> QED BY <2>1 DEF Shape, NodeShape, Idle
<1>2. CASE NodeAlias
  <2>1. Refuse \/ (Give("ALIAS") /\ Consume)
    BY <1>2 DEF NodeAlias
  <2> QED BY <1>1, <2>1, GivenProceeds DEF Handles
<1>3. CASE NodeProperty
  <2>1. TextKept /\ scan' = Rest /\ taken' = taken /\ event' = event /\ state' = state
    BY <1>3 DEF NodeProperty, Consume, Quiet
  <2> QED BY <1>1, <2>1, ScanHanded DEF Handles, Proceeds, Scanned, ValueType
<1>4. CASE NodeContent
  <2>1. \/ Refuse
        \/ Give("SCALAR") /\ (Consume \/ Keep)
        \/ Give("SEQUENCE-START") /\ (Consume \/ Keep)
        \/ Give("MAPPING-START") /\ Consume
    BY <1>4 DEF NodeContent
  <2> QED BY <1>1, <2>1, GivenProceeds DEF Handles
<1>5. CASE BlockNode
  <2>1. Node("block", <<>>)
    BY <1>5 DEF BlockNode
  <2> QED BY <1>1, <2>1, NodeProceeds DEF Handles
<1> QED BY <1>2, <1>3, <1>4, <1>5

LEMMA DocumentHandles ==
  ASSUME Scanned, ExtraDocumentEnd \/ DirectiveToken \/ StreamEndEvent \/ DocumentStart \/ DocumentEnd \/ DocumentContent
  PROVE  Handles
<1>1. Ready /\ state # "NONE"
  BY DEF ExtraDocumentEnd, DirectiveToken, StreamEndEvent, DocumentStart, DocumentEnd, DocumentContent,
         BetweenDocuments, At
<1>2. Handed(scan) /\ Handed(Rest) /\ scan \in Scans /\ Rest \in Scans
  BY <1>1, ScanHanded DEF Handed
<1>3. taken \in {"none", "BLOCK-ENTRY", "FLOW-ENTRY", "KEY", "VALUE"}
  BY DEF Scanned, ValueType
<1>4. {"DOCUMENT-START", "DOCUMENT-END", "SCALAR"} \subseteq Events!Events
  BY DEF Events!Events
<1>5. CASE Refuse
  BY <1>1, <1>5 DEF Handles
<1>6. CASE ExtraDocumentEnd
  <2>1. TextKept /\ taken' = taken /\ event' = event /\ state' = state /\ scan' = [Rest EXCEPT !.first = TRUE]
    BY <1>6 DEF ExtraDocumentEnd, Quiet
  <2>2. Handed(scan')
    BY <1>2, <2>1, MarkHanded
  <2> QED BY <1>1, <1>3, <2>1, <2>2 DEF Handles, Proceeds
<1>7. CASE ~Refuse /\ DirectiveToken
  <2>1. /\ TextKept /\ taken' = taken /\ event' = event /\ state' = state
        /\ scan' = [Rest EXCEPT !.handle = @ \/ Token = "TAG-DIRECTIVE"]
    BY <1>7 DEF DirectiveToken, Quiet
  <2>2. scan' \in {[Rest EXCEPT !.handle = TRUE], [Rest EXCEPT !.handle = FALSE]}
    <3> DEFINE handle == Rest.handle \/ Token = "TAG-DIRECTIVE"
    <3>1. handle \in BOOLEAN /\ scan' = [Rest EXCEPT !.handle = handle]
      BY <2>1
    <3> HIDE DEF handle
    <3> QED BY <3>1
  <2>3. Handed(scan')
    BY <1>2, <2>2, MarkHanded
  <2> QED BY <1>1, <1>3, <2>1, <2>3 DEF Handles, Proceeds
<1>8. CASE ~Refuse /\ StreamEndEvent
  BY <1>1, <1>8, GivenProceeds DEF StreamEndEvent, Handles
<1>9. CASE ~Refuse /\ DocumentStart
  <2>1. TextKept /\ Emit("DOCUMENT-START") /\ (Consume \/ Keep)
    BY <1>9 DEF DocumentStart
  <2> QED BY <1>1, <1>4, <2>1, GiveProceeds DEF Handles
<1>10. CASE ~Refuse /\ DocumentEnd
  <2> DEFINE s == NoFlows(scan)
  <2>1. /\ TextKept /\ Emit("DOCUMENT-END")
        /\ scan' = [NoFlows(scan) EXCEPT !.first = @ \/ Token = "DOCUMENT-END"]
    BY <1>10 DEF DocumentEnd
  <2>2. scan.flows # <<>> /\ scan.queue \in Seq(LaterTokens)
    BY <1>1, PeekedFacts
  <2>3. Handed(s)
    BY <1>2, <2>2, NoFlowsFacts DEF Handed
  <2>4. scan' \in {[s EXCEPT !.first = TRUE], [s EXCEPT !.first = FALSE]}
    <3> DEFINE first == s.first \/ Token = "DOCUMENT-END"
    <3>1. first \in BOOLEAN /\ scan' = [s EXCEPT !.first = first]
      BY <2>1
    <3> HIDE DEF first, s
    <3> QED BY <3>1
  <2> HIDE DEF s
  <2>5. Handed(scan')
    BY <2>3, <2>4, MarkHanded
  <2> QED BY <1>1, <1>4, <2>1, <2>5 DEF Handles, Proceeds, Emit
<1>11. CASE ~Refuse /\ DocumentContent
  <2>1. \/ /\ TextKept /\ Emit("SCALAR")
           /\ scan' = [scan EXCEPT !.first = @ \/ Token \in {"DOCUMENT-START", "DOCUMENT-END"}]
        \/ TextKept /\ scan' = scan /\ taken' = taken /\ event' = event /\ state' = state
    BY <1>11 DEF DocumentContent, Keep, Quiet
  <2>2. Handed(scan')
    <3>1. CASE scan' = [scan EXCEPT !.first = @ \/ Token \in {"DOCUMENT-START", "DOCUMENT-END"}]
      <4>1. scan' \in {[scan EXCEPT !.first = TRUE], [scan EXCEPT !.first = FALSE]}
        <5> DEFINE first == scan.first \/ Token \in {"DOCUMENT-START", "DOCUMENT-END"}
        <5>1. first \in BOOLEAN /\ scan' = [scan EXCEPT !.first = first]
          BY <3>1
        <5> HIDE DEF first
        <5> QED BY <5>1
      <4> QED BY <1>2, <4>1, MarkHanded
    <3> QED BY <1>2, <2>1, <3>1
  <2> QED BY <1>1, <1>3, <1>4, <2>1, <2>2 DEF Handles, Proceeds, Emit
<1> QED BY <1>5, <1>6, <1>7, <1>8, <1>9, <1>10, <1>11

(***************************************************************************)
(* The start of the stream: what was queued before it is gone.             *)
(***************************************************************************)
LEMMA StreamStartEventScanned ==
  ASSUME Shape, Shape', Scanned, StreamStartEvent
  PROVE  Scanned'
<1>1. state = "NONE" /\ Ready
  BY DEF StreamStartEvent, At
<1>2. /\ Typed(scan) /\ scan.error = "none" /\ scan.keys = <<>> /\ scan.text = <<>> /\ ~Failed
      /\ scan.queue \in Seq(AllTokens)
  BY <1>1, PeekedFacts
<1>3. Waiting(scan) /\ ~scan.started /\ ~scan.ended /\ scan.line = 0
  BY <1>1 DEF Scanned, ScanShape, Waiting
<1>4. scan.queue # <<>>
  BY <1>1, <1>3 DEF Ready
<1>5. CASE Token # "STREAM-START"
  BY <1>1, <1>5, RefuseKeeps DEF StreamStartEvent
<1>6. CASE Token = "STREAM-START"
  <2>1. "STREAM-START" \notin LaterTokens
    BY DEF LaterTokens, Content
  <2>2. scan.queue = <<"STREAM-START">>
    <3>1. Head(scan.queue) = "STREAM-START"
      BY <1>4, <1>6 DEF Token
    <3>2. scan.queue \notin Seq(LaterTokens)
      BY <1>4, <2>1, <3>1, HeadTailProperties
    <3> QED BY <1>2, <1>3, <3>2 DEF Waiting
  <2> DEFINE s == [Rest EXCEPT !.started = TRUE, !.indents = Base.indents, !.keys = Base.keys,
                               !.flows = Base.flows]
  <2>3. /\ scan' = s /\ event' = "STREAM-START" /\ taken' = "none"
        /\ profile' = profile /\ ahead' = ahead /\ left' = left /\ state' # "NONE" /\ state' # "END"
    BY <1>6 DEF StreamStartEvent, Give, Emit, TextKept
  <2>4. Rest = [scan EXCEPT !.queue = <<>>]
    <3>1. Tail(scan.queue) = <<>> /\ scan.queue # <<>>
      BY <2>2
    <3> QED BY <3>1 DEF Rest
  <2>5. /\ Base.indents \in Seq(Frames) /\ IndentsFit(Base.indents)
        /\ Base.flows \in Seq(Flows) /\ FlowsFit(Base.flows) /\ Base.keys = <<>>
    BY DEF Base, Frame, Frames, Flow, Flows, IndentsFit, FlowsFit
  <2>6. /\ s \in Scans /\ s.indents = Base.indents /\ s.flows = Base.flows /\ s.keys = <<>>
        /\ s.queue = <<>> /\ s.started /\ s.error = "none" /\ ~s.ended /\ s.text = <<>> /\ s.line = 0
    <3> DEFINE r == Rest
               indents == Base.indents
               flows == Base.flows
    <3>1. /\ r \in Scans /\ r.queue = <<>> /\ r.error = "none" /\ r.ended = FALSE /\ r.text = <<>> /\ r.line = 0
      <4>1. r = [scan EXCEPT !.queue = <<>>] /\ <<>> \in Seq(AllTokens)
        BY <2>4
      <4>2. scan \in Scans
        BY <1>2 DEF Typed
      <4> HIDE DEF r
      <4>3. r \in Scans /\ r.queue = <<>> /\ r.error = scan.error /\ r.ended = scan.ended /\ r.text = scan.text
            /\ r.line = scan.line
        BY <4>1, <4>2 DEF Scans
      <4>4. r.ended = FALSE
        BY <1>3, <4>2, <4>3 DEF Scans
      <4> QED BY <1>2, <1>3, <4>3, <4>4
    <3>2. s = [r EXCEPT !.started = TRUE, !.indents = indents, !.keys = <<>>, !.flows = flows]
          /\ indents \in Seq(Frames) /\ flows \in Seq(Flows) /\ <<>> \in Seq(SimpleKeys)
      BY <2>5
    <3> HIDE DEF r, s, indents, flows
    <3>3. /\ s \in Scans /\ s.indents = indents /\ s.flows = flows /\ s.keys = <<>>
          /\ s.queue = <<>> /\ s.started /\ s.error = "none" /\ ~s.ended /\ s.text = <<>> /\ s.line = 0
      BY <3>1, <3>2 DEF Scans
    <3> QED BY <3>3 DEF indents, flows
  <2> HIDE DEF s
  <2>7. Typed(s)
    <3>1. <<>> \in Seq(LaterTokens)
      OBVIOUS
    <3> QED BY <2>5, <2>6, <3>1 DEF Typed, TokensFit, TextIndented
  <2>8. Sound(s)
    BY <2>6 DEF Sound, KeysOrdered, KeysPast, KeysUpTo, TextFits
  <2>9. ahead # <<>> /\ scan.line <= Head(ahead).line
    <3>1. ahead # <<>>
      BY <1>2, <1>3, <2>1, <2>2, ElementOfSeq DEF Waiting
    <3> QED BY <3>1 DEF Scanned, ScanShape
  <2>10. ScanShape'
    BY <1>3, <2>3, <2>6, <2>7, <2>8, <2>9 DEF ScanShape, Failed
  <2>11. TextShape'
    BY <2>3 DEF Scanned, TextShape, LeavesText, Lookahead, Leads, GivenAt
  <2>12. ValueType'
    BY <2>3 DEF ValueType, Events!Events
  <2> QED BY <2>10, <2>11, <2>12 DEF Scanned
<1> QED BY <1>5, <1>6

LEMMA ResetScanned ==
  ASSUME Shape, Scanned, Reset
  PROVE  Scanned'
<1>1. Typed(scan) /\ scan \in Scans /\ scan.flows # <<>>
  BY DEF Scanned, ScanShape, Typed, FlowsFit
<1> DEFINE r == NoFlows(scan)
           s == [r EXCEPT !.started = FALSE, !.ended = FALSE, !.first = FALSE,
                          !.flows = Base.flows, !.line = 0, !.text = <<>>, !.error = "none"]
<1>2. /\ r \in Scans /\ r.queue = scan.queue /\ r.indents = scan.indents /\ r.keys = scan.keys
  BY <1>1, NoFlowsFacts
<1>3. Base.flows \in Seq(Flows) /\ FlowsFit(Base.flows)
  BY DEF Base, Flow, Flows, FlowsFit
<1>4. /\ s \in Scans /\ s.queue = scan.queue /\ s.indents = scan.indents /\ s.keys = scan.keys
      /\ s.flows = Base.flows /\ s.text = <<>> /\ s.line = 0 /\ s.error = "none" /\ ~s.started /\ ~s.ended
  <2> DEFINE flows == Base.flows
  <2>1. s = [r EXCEPT !.started = FALSE, !.ended = FALSE, !.first = FALSE,
                      !.flows = flows, !.line = 0, !.text = <<>>, !.error = "none"]
        /\ flows \in Seq(Flows)
    BY <1>3
  <2> HIDE DEF r, s, flows
  <2>2. /\ s.queue = r.queue /\ s.indents = r.indents /\ s.keys = r.keys
        /\ s.flows = flows /\ s.text = <<>> /\ s.line = 0 /\ s.error = "none" /\ ~s.started /\ ~s.ended
    BY <1>2, <2>1 DEF Scans
  <2>3. 0 \in Int /\ "none" \in Errors /\ <<>> \in {<<>>} \union Scalars /\ FALSE \in BOOLEAN
    BY DEF Errors
  <2>4. s \in Scans
    BY <1>2, <2>1, <2>3 DEF Scans
  <2> QED BY <1>2, <2>2, <2>4 DEF flows
<1>5. /\ scan' = s /\ profile' = profile /\ ahead' = <<>> /\ left' = 1 /\ state' = "NONE" /\ taken' = "none"
      /\ event' = "reset"
  BY DEF Reset
<1> HIDE DEF r, s
<1>6. Typed(s)
  BY <1>1, <1>3, <1>4 DEF Typed, TextIndented
<1>7. Waiting(scan)'
  <2>1. CASE scan.started
    BY <1>1, <1>4, <1>5, <2>1 DEF Waiting, Typed
  <2>2. CASE ~scan.started
    <3>1. Waiting(scan) /\ state = "NONE"
      BY <2>2 DEF Scanned, ScanShape
    <3>2. event \notin {"none", "reset"}
      BY <3>1 DEF Reset
    <3> QED BY <1>4, <1>5, <3>1, <3>2 DEF Waiting
  <2> QED BY <2>1, <2>2
<1>8. ScanShape'
  BY <1>4, <1>5, <1>6, <1>7 DEF ScanShape, Failed
<1>9. TextShape'
  <2>1. profile.text # <<>> => 1 <= Len(profile.text)
    <3>1. ASSUME profile.text # <<>> PROVE profile.text \in Seq(Lexemes)
      BY <3>1, ProfilesAssumption DEF Scanned, TextShape
    <3> QED BY <3>1, EmptySeq, LenProperties
  <2> QED BY <1>5, <2>1 DEF Scanned, TextShape, LeavesText, Lookahead
<1>10. ValueType'
  BY <1>5 DEF ValueType
<1> QED BY <1>8, <1>9, <1>10 DEF Scanned

(***************************************************************************)
(* The invariant holds at first, and every step keeps it.                  *)
(***************************************************************************)
LEMMA ScannedInit == Init => Scanned
<1> SUFFICES ASSUME Init
             PROVE  Scanned
  OBVIOUS
<1>1. /\ profile \in Profiles /\ ahead = <<>> /\ left = profile.length /\ scan = Created
      /\ state = "NONE" /\ taken = "none" /\ event = "none"
  BY DEF Init
<1>2. TextShape
  <2>1. left \in Nat /\ (profile.text # <<>> => left <= Len(profile.text))
    BY <1>1, ProfilesAssumption
  <2> QED BY <1>1, <2>1 DEF TextShape, LeavesText, Lookahead
<1>3. /\ Base.indents \in Seq(Frames) /\ IndentsFit(Base.indents)
      /\ Base.flows \in Seq(Flows) /\ FlowsFit(Base.flows)
  BY DEF Base, Frame, Frames, Flow, Flows, IndentsFit, FlowsFit
<1>4. /\ scan.indents = Base.indents /\ scan.flows = Base.flows /\ scan.keys = <<>> /\ scan.queue = <<>>
      /\ ~scan.started /\ ~scan.ended /\ scan.text = <<>> /\ scan.line = 0 /\ scan.error = "none"
  BY <1>1 DEF Created
<1>5. scan \in Scans
  <2> DEFINE indents == Base.indents
             flows == Base.flows
  <2>1. scan = [indents |-> indents, flows |-> flows, keys |-> <<>>, queue |-> <<>>,
                handle |-> FALSE, keyAllowed |-> FALSE, colonTwice |-> FALSE, tabUsed |-> FALSE, first |-> FALSE,
                started |-> FALSE, ended |-> FALSE, text |-> <<>>, line |-> 0, error |-> "none"]
    BY <1>1 DEF Created
  <2>2. indents \in Seq(Frames) /\ flows \in Seq(Flows)
    BY <1>3
  <2> HIDE DEF indents, flows
  <2>3. <<>> \in Seq(SimpleKeys) /\ <<>> \in Seq(AllTokens) /\ "none" \in Errors
    BY DEF Errors
  <2> QED BY <2>1, <2>2, <2>3 DEF Scans
<1>6. Typed(scan) /\ <<>> \in Seq(LaterTokens)
  BY <1>3, <1>4, <1>5 DEF Typed, TokensFit, TextIndented
<1>7. ScanShape
  BY <1>1, <1>4, <1>6 DEF ScanShape, Waiting
<1> QED BY <1>1, <1>2, <1>7 DEF Scanned, ValueType

LEMMA ScannedNext == Shape /\ Shape' /\ Scanned /\ [Next]_vars => Scanned'
<1> SUFFICES ASSUME Shape, Shape', Scanned, [Next]_vars
             PROVE  Scanned'
  OBVIOUS
<1>1. CASE Handles
  BY <1>1, ProceedsKeeps, RefuseKeeps DEF Handles
<1>2. CASE FetchStep
  BY <1>2, StreamStartScanned, FetchScanned DEF FetchStep
<1>3. CASE StreamStartEvent
  BY <1>3, StreamStartEventScanned
<1>4. CASE ExtraDocumentEnd \/ DirectiveToken \/ StreamEndEvent \/ DocumentStart \/ DocumentEnd \/ DocumentContent
  BY <1>1, <1>4, DocumentHandles
<1>5. CASE BlockSequence \/ BlockMappingKey \/ BlockMappingValue
  BY <1>1, <1>5, BlockHandles
<1>6. CASE FlowSequence \/ FlowSequenceKey \/ FlowSequenceValue \/ FlowSequencePairEnd
  BY <1>1, <1>6, FlowSequenceHandles
<1>7. CASE FlowMappingKey \/ FlowMappingValue \/ FlowMappingEmptyValue
  BY <1>1, <1>7, FlowMappingHandles
<1>8. CASE NodeAlias \/ NodeProperty \/ NodeContent \/ BlockNode
  BY <1>1, <1>8, NodeHandles
<1>9. CASE Reset
  BY <1>9, ResetScanned
<1>10. CASE Stop \/ UNCHANGED vars
  <2>1. UNCHANGED vars
    BY <1>10 DEF Stop
  <2>2. /\ profile' = profile /\ ahead' = ahead /\ left' = left /\ scan' = scan /\ state' = state
        /\ taken' = taken /\ event' = event
    BY <2>1 DEF vars
  <2>3. TextShape' /\ ScanShape' /\ ValueType'
    BY <2>2 DEF Scanned, TextShape, LeavesText, Lookahead, Leads, GivenAt, ScanShape, Waiting, Failed, ValueType
  <2> QED BY <2>3 DEF Scanned
<1> QED BY <1>2, <1>3, <1>4, <1>5, <1>6, <1>7, <1>8, <1>9, <1>10 DEF Next, Step, ParseStep

-----------------------------------------------------------------------------
(* The theorems *)

(***************************************************************************)
(* Between the steps of the parser the scanner is sound, whatever the text *)
(* and wherever the parser is reset.                                       *)
(***************************************************************************)
THEOREM ScannerSound == Spec => [](Shape /\ Scanned)
<1>1. Init => Shape /\ Scanned
  BY ShapeInit, ScannedInit
<1>2. Shape /\ Scanned /\ [Next]_vars => Shape' /\ Scanned'
  BY ShapeNext, ScannedNext
<1> QED BY <1>1, <1>2, PTL DEF Spec

(***************************************************************************)
(* The types of the state: what is queued is a token, the bottoms of the   *)
(* stacks of indents and of flow collections stay, and indents grow.       *)
(***************************************************************************)
LEMMA ShapedType == Shape /\ Scanned => TypeOK
<1> SUFFICES ASSUME Shape, Scanned
             PROVE  TypeOK
  OBVIOUS
<1>1. state \in States /\ node.in \in {"none", "block", "flow"} /\ node.tag \in {"none", "TAG", "TAG-HANDLE"}
  BY DEF Shape, StackShape, NodeShape, Nodes
<1>2. \A i \in DOMAIN stack : stack[i] \in States \ {"NONE", "END"}
  <2>1. stack \in Seq(Collections \union {"DOCUMENT_END"})
    BY DEF Shape, StackShape
  <2>2. Collections \union {"DOCUMENT_END"} \subseteq States \ {"NONE", "END"}
    BY DEF Collections, Idle, States
  <2> QED BY <2>1, <2>2, LenProperties, ElementOfSeq
<1>3. /\ taken \in {"none", "BLOCK-ENTRY", "FLOW-ENTRY", "KEY", "VALUE"}
      /\ event \in Events!Events \union {"none", "error", "reset"}
  BY DEF Scanned, ValueType
<1>4. Typed(scan) /\ scan \in Scans
  BY DEF Scanned, ScanShape, Typed
<1>5. scan.error \in {"none", "syntax", "internal"}
  BY <1>4 DEF Scans, Errors
<1>6. \A i \in DOMAIN scan.queue : scan.queue[i] \in Tokens
  <2>1. scan.queue \in Seq(AllTokens)
    BY <1>4 DEF Scans
  <2>2. AllTokens = Tokens
    BY DEF AllTokens, LaterTokens, Tokens
  <2> QED BY <2>1, <2>2, LenProperties, ElementOfSeq
<1>7. /\ scan.flows # <<>> /\ scan.flows[1].is = "none"
      /\ scan.indents # <<>> /\ scan.indents[1].at = -2
      /\ \A i \in 2..Len(scan.indents) : scan.indents[i].at >= scan.indents[i - 1].at
  BY <1>4 DEF Typed, FlowsFit, IndentsFit
<1> QED BY <1>1, <1>2, <1>3, <1>5, <1>6, <1>7 DEF TypeOK

THEOREM ParserTypeOK == Spec => []TypeOK
BY ScannerSound, ShapedType, PTL

(***************************************************************************)
(* No text, and no reset, makes the scanner lose a simple key that is      *)
(* required, pop what was never pushed, or otherwise report an internal    *)
(* error: a text can only be refused for its syntax.                       *)
(***************************************************************************)
THEOREM ParserNoInternalError == Spec => []NoInternalError
<1>1. Shape /\ Scanned => NoInternalError
  BY DEF Shape, EventShape, Scanned, ScanShape, NoInternalError
<1> QED BY <1>1, ScannerSound, PTL
===============================================================================
