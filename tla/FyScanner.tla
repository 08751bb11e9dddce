------------------------------ MODULE FyScanner ------------------------------
(***************************************************************************)
(* The scanner of libfyaml (Cfyaml/src/lib/fy-parse.c, fy_fetch_tokens and *)
(* what it calls): from a text to tokens, with the stack of indentations,  *)
(* the stack of flow collections, the simple keys that may still turn out  *)
(* to be keys, and the queue of tokens, into which a key is inserted before *)
(* what was already scanned.                                                *)
(*                                                                         *)
(* The text is a sequence of lexemes that are separated by white space: an *)
(* indicator, a word of plain text, a quoted scalar, a comment.  Of a      *)
(* lexeme the scanner sees what it is, its line and column, the further    *)
(* lines it extends over and whether a tab precedes it.                    *)
(***************************************************************************)
EXTENDS Integers, SequencesExt, FiniteSetsExt

Indicators == {"-", "?", ":", "[", "]", "{", "}", ",", "&", "*", "!", "|"}
Markers    == {"---", "..."}
Directives == {"%YAML", "%TAG", "%"}
Kinds == Indicators \union Markers \union Directives
           \union {"plain", "quoted", "!h", "#", "end"}

Lexeme(is, line, col, rows, tab) ==
  [is |-> is, line |-> line, col |-> col, rows |-> rows, tab |-> tab]
Lexemes == [is : Kinds, line : Int, col : Nat, rows : Nat, tab : BOOLEAN]

OnNewLine(x, n) == n.line > x.line + x.rows
(* What follows x on its line.                                              *)
NextOnLine(x, n) == IF OnNewLine(x, n) THEN "newline" ELSE n.is
(* White space is eaten up to n, a tab with it.                             *)
Untabbed(x, n) == IF OnNewLine(x, n) THEN n ELSE [n EXCEPT !.tab = FALSE]

MarkerAt(x) == x.col = 0 /\ x.is \in Markers

(***************************************************************************)
(* The state: the fields of struct fy_parser the scanner works on.  The    *)
(* last element of a stack is the current one: indents holds the saved     *)
(* indents with indent, generated_block_map and indent_line, flows holds    *)
(* flow and the pending complex key, keys holds simple_keys (its last       *)
(* element is the head of the list), and line is the line of the reader.    *)
(* text is the plain or block scalar that is being read; handle, whether    *)
(* the tags of the current document have a handle of their own.             *)
(***************************************************************************)
NoKey == <<>>
Frame(at, map, line) == [at |-> at, map |-> map, line |-> line]
Flow(is, pending)    == [is |-> is, pending |-> pending]

Base == [indents |-> <<Frame(-2, FALSE, -1)>>, flows |-> <<Flow("none", NoKey)>>, keys |-> <<>>]

Created ==
  [indents |-> Base.indents, flows |-> Base.flows, keys |-> <<>>, queue |-> <<>>,
   handle |-> FALSE, keyAllowed |-> FALSE, colonTwice |-> FALSE, tabUsed |-> FALSE, first |-> FALSE,
   started |-> FALSE, ended |-> FALSE, text |-> <<>>, line |-> 0, error |-> "none"]

Level(s)   == Len(s.flows) - 1
Block(s)   == Level(s) = 0
Indent(s)  == Last(s.indents).at
Pending(s) == Last(s.flows).pending
Complex(s) == Pending(s) # NoKey

(* An operation on a state that failed does nothing.                         *)
Do(s, t)     == IF s.error = "none" THEN t ELSE s
Check(s, ok) == IF ok THEN s ELSE Do(s, [s EXCEPT !.error = "syntax"])
Ensure(s, ok) == IF ok THEN s ELSE Do(s, [s EXCEPT !.error = "internal"])

SetPending(s, mark) == [s EXCEPT !.flows = Front(@) \o <<Flow(Last(@).is, mark)>>]
AllowKey(s, allowed) == [s EXCEPT !.keyAllowed = allowed, !.tabUsed = FALSE]

(* fy_token_queue_simple and fy_token_queue                                  *)
Content == {"ALIAS", "ANCHOR", "TAG", "TAG-HANDLE", "SCALAR", "FLOW-SEQUENCE-START", "FLOW-SEQUENCE-END",
            "FLOW-MAPPING-START", "FLOW-MAPPING-END", "BLOCK-ENTRY", "FLOW-ENTRY", "KEY", "VALUE",
            "BLOCK-SEQUENCE-START", "BLOCK-MAPPING-START", "BLOCK-END"}
Queue(s, token) ==
  Do(s, [s EXCEPT !.queue = Append(@, token),
                  !.first = IF token = "DOCUMENT-START" THEN TRUE
                            ELSE IF token \in Content THEN FALSE ELSE @])
(* fy_token_queue_simple_internal does not look at what the token is.        *)
QueueOnly(s, token) == Do(s, [s EXCEPT !.queue = Append(@, token)])

-----------------------------------------------------------------------------
(* Simple keys.  A key is purged when its line is left (in block context,   *)
(* and for a flow collection that is not in a complex key) or its flow      *)
(* collection is; a required key must not be.                               *)

(* Mutant: a key stays one line longer.                                      *)
StaleLate(s, key) ==
  IF Block(s) THEN s.line > key.line + 1
              ELSE Level(s) < key.level \/ (key.complex /\ s.line > key.line)

Stale(s, key) ==
  IF Block(s) THEN s.line > key.line
              ELSE Level(s) < key.level \/ (key.complex /\ s.line > key.line)

(* The keys that are gone are removed, from the head of the list on.         *)
Without(s, gone) ==
  LET n    == Max({i \in 0..Len(s.keys) : Len(s.keys) - i + 1..Len(s.keys) \subseteq gone})
      keep == Len(s.keys) - n
  IN Do(s, [s EXCEPT !.keys = SubSeq(@, 1, keep),
                     !.error = IF \E j \in keep + 1..Len(s.keys) : s.keys[j].required
                                 THEN "syntax" ELSE @])

PurgeStale(s)    == Without(s, {i \in DOMAIN s.keys : Stale(s, s.keys[i])})
RemoveKey(s)     == Without(s, {i \in DOMAIN s.keys : s.keys[i].level >= Level(s)})
RemoveAllKeys(s) == AllowKey([s EXCEPT !.keys = <<>>], TRUE)

Required(s, x) == Block(s) /\ Indent(s) = x.col

(* fy_save_simple_key: the last token of the queue, which starts at mark,    *)
(* may be a key, instead of what the head of the list was.                   *)
SaveKey(s, mark, required, endLine) ==
  LET purged == PurgeStale(s)
      old    == Pending(purged)
      forgot == Block(purged) /\ old # NoKey /\ mark.line > old.line /\ mark.col <= old.col
      kept   == IF forgot THEN SetPending(purged, NoKey) ELSE purged
      key    == [line |-> mark.line, col |-> mark.col, end |-> endLine, required |-> required,
                 token |-> Len(kept.queue), level |-> Level(kept),
                 complex |-> ~Complex(kept)
                               /\ Last(kept.queue) \in {"FLOW-MAPPING-START", "FLOW-SEQUENCE-START"}]
      isNew  == kept.keys = <<>> \/ Last(kept.keys).level < Level(kept)
      freed  == Ensure(kept, isNew \/ ~Last(kept.keys).required)
  IN IF ~purged.keyAllowed THEN purged
     ELSE Do(freed, [freed EXCEPT !.keys = (IF isNew THEN @ ELSE Front(@)) \o <<key>>])

-----------------------------------------------------------------------------
(* Indentation                                                              *)

PushIndent(s, col, map, line) == Do(s, [s EXCEPT !.indents = Append(@, Frame(col, map, line))])
AtLine(s, line) == [s EXCEPT !.indents = Front(@) \o <<[Last(@) EXCEPT !.line = line]>>]
(* Mutant: the indentation stays.                                            *)
PopNothing(s) == AtLine(s, s.line)
PopIndent(s) == AtLine([s EXCEPT !.indents = Front(@)], s.line)

(* fy_parse_unroll_indent: a BLOCK-END for each deeper indentation.          *)
Unroll(s, col) ==
  LET deeper == Cardinality({i \in DOMAIN s.indents : s.indents[i].at > col})
      popped == [s EXCEPT !.indents = SubSeq(@, 1, Len(@) - deeper),
                          !.queue = @ \o [i \in 1..deeper |-> "BLOCK-END"],
                          !.first = @ /\ deeper = 0]
  IN IF ~Block(s) \/ deeper = 0 THEN s ELSE Do(s, AtLine(popped, s.line))

FlowIndentOk(s, col) == Block(s) \/ col > Indent(s)

(* fy_scan_to_next_token: white space and the line breaks before x; a tab    *)
(* may not indent, and where a key may start it is left for the plain        *)
(* scalar to stumble over, unless a flow collection follows.                 *)
Column(s, x) ==
  LET tabs == ~Block(s) \/ (x.line = s.line /\ ~s.keyAllowed)
  IN IF x.tab /\ ~tabs /\ x.is \notin {"[", "{", "#"} THEN x.col - 1 ELSE x.col
AtTab(s, x) == Column(s, x) # x.col

ScanTo(s, x) ==
  LET checked == Check(s, x.tab => x.is = "#" \/ x.col - 1 > Indent(s))
      arrived == [checked EXCEPT !.line = x.line]
  IN Do(checked, IF x.line > s.line /\ Block(s) /\ ~s.keyAllowed
                   THEN AllowKey(arrived, TRUE) ELSE arrived)

(* fy_ws_indentation_check: after an indicator of a block collection a tab   *)
(* is eaten, but nothing that indents may follow it.                         *)
TabAfter(s, x, n) == Block(s) /\ ~OnNewLine(x, n) /\ n.tab
TabOk(s, x, n)    == TabAfter(s, x, n) => n.is \notin {"?", ":", "|", "-"}

-----------------------------------------------------------------------------
(* The tokens.  s is the state at the lexeme x, n is the lexeme after it.   *)

StreamStart(s) == Queue(AllowKey(s, TRUE), "STREAM-START")

UnrollAll(s) == LET s1 == RemoveAllKeys(s) IN IF Block(s) THEN Unroll(s1, -1) ELSE s1

StreamEnd(s) == Queue(UnrollAll([s EXCEPT !.ended = TRUE]), "STREAM-END")

Directive(s, x) ==
  CASE x.is = "%YAML" -> Queue(UnrollAll(s), "VERSION-DIRECTIVE")
    [] x.is = "%TAG"  -> Queue(UnrollAll(s), "TAG-DIRECTIVE")
    [] OTHER          -> UnrollAll(s)

Marker(s, x, n) ==
  LET s1 == AllowKey(UnrollAll(s), FALSE)
      s2 == Queue(s1, IF x.is = "---" THEN "DOCUMENT-START" ELSE "DOCUMENT-END")
  IN Check(AtLine(s2, x.line), x.is = "---" \/ NextOnLine(x, n) \in {"newline", "#", "end"})

FlowStart(s, x) ==
  LET s1 == Check(s, FlowIndentOk(s, x.col))
      s2 == Queue(s1, IF x.is = "[" THEN "FLOW-SEQUENCE-START" ELSE "FLOW-MAPPING-START")
      s3 == SaveKey(s2, x, Required(s, x), x.line)
      s4 == [s3 EXCEPT !.flows = Append(@, Flow(IF x.is = "[" THEN "sequence" ELSE "map", NoKey))]
  IN IF s1.error # "none" THEN s1 ELSE Do(s3, AllowKey(s4, TRUE))

(* Mutant: the bottom of the stack is looked at like a collection.           *)
OpenedBelow(s, x) == Block(s) \/ Last(s.flows).is = IF x.is = "]" THEN "sequence" ELSE "map"

Opened(s, x) == ~Block(s) /\ Last(s.flows).is = IF x.is = "]" THEN "sequence" ELSE "map"

(* With a ':' behind it the collection must still be a key.                  *)
FlowEnd(s, x, n) ==
  LET s1 == RemoveKey(Check(s, FlowIndentOk(s, x.col)))
      s2 == Check(s1, Opened(s1, x))
      s3 == AllowKey([s2 EXCEPT !.flows = Front(@)], FALSE)
      s4 == Queue(s3, IF x.is = "]" THEN "FLOW-SEQUENCE-END" ELSE "FLOW-MAPPING-END")
      s5 == PurgeStale(s4)
  IN IF s2.error # "none" THEN s2
     ELSE IF NextOnLine(x, n) = ":" THEN Check(s5, s5.keys = s4.keys \/ s5.keys # <<>>)
     ELSE s4

FlowEntry(s, x) ==
  LET s1 == Check(s, FlowIndentOk(s, x.col))
      s2 == IF Complex(s1) THEN Queue(SetPending(s1, NoKey), "VALUE") ELSE s1
      s3 == AllowKey(RemoveKey(Do(s1, s2)), TRUE)
  IN Queue(s3, "FLOW-ENTRY")

Roll(s, x, map, token) ==
  IF Block(s) /\ Indent(s) < x.col THEN QueueOnly(PushIndent(s, x.col, map, x.line), token) ELSE s

BlockEntry(s, x, n) ==
  LET s1 == Check(s, Block(s) \/ x.col + 2 > Indent(s))
      s2 == Roll(Check(s1, ~Block(s) \/ s.keyAllowed), x, FALSE, "BLOCK-SEQUENCE-START")
      s3 == AllowKey(RemoveKey(s2), TRUE)
  IN Check(Queue(s3, "BLOCK-ENTRY"), TabOk(s, x, n))

(* The mark of the key stays pending until its value comes.                  *)
Key(s, x, n) ==
  LET s1 == Check(s, FlowIndentOk(s, x.col) /\ (~Block(s) \/ s.keyAllowed))
      s2 == RemoveKey(Roll(s1, x, TRUE, "BLOCK-MAPPING-START"))
      s3 == SetPending(s2, [line |-> x.line, col |-> x.col])
      s4 == Queue(Do(s2, s3), "KEY")
      s5 == [s4 EXCEPT !.keyAllowed = Block(s)]
  IN Do(s4, [Check(s5, TabOk(s, x, n)) EXCEPT !.tabUsed = Block(s) /\ TabAfter(s, x, n)])

(* fy_fetch_value: the simple key, if there is one, becomes a key after all: *)
(* the start of a mapping and KEY are inserted before its token.             *)
Value(s, x, n) ==
  LET s1 == Check([s EXCEPT !.colonTwice = ~Block(s) /\ n.is = ":" /\ FlowIndentOk(s, n.col)],
                  FlowIndentOk(s, x.col))
      s2 == PurgeStale(s1)
      found   == s2.keys # <<>> /\ Last(s2.keys).level = Level(s2)
      key     == IF found THEN Last(s2.keys)
                          ELSE [line |-> x.line, col |-> x.col, end |-> x.line, token |-> Len(s2.queue) + 1]
      final   == Complex(s2) /\ (~Block(s2) \/ x.col <= Pending(s2).col)
      starts  == Block(s2) /\ key.col > Indent(s2)
      keyOnly == IF Complex(s2) THEN ~final ELSE ~Block(s2) \/ Last(s2.indents).map
      s3 == Check(s2, Complex(s2) \/ key.end >= s2.line \/ Last(s2.flows).is = "map")
      s4 == Check(s3, ~s3.tabUsed)
      s5 == IF starts THEN PushIndent(s4, key.col, TRUE, key.line) ELSE s4
      inserted == (IF starts THEN <<"BLOCK-MAPPING-START">> ELSE <<>>)
                    \o (IF starts \/ keyOnly THEN <<"KEY">> ELSE <<>>)
      s6 == [s5 EXCEPT !.queue = SubSeq(@, 1, key.token - 1) \o inserted
                                   \o SubSeq(@, key.token, Len(@)),
                       !.keys = IF found THEN Front(@) ELSE @]
      s7 == [Queue(s6, "VALUE") EXCEPT !.keyAllowed = ~found /\ Block(s)]
      s8 == IF Complex(s2) THEN Check(s7, TabOk(s, x, n)) ELSE s7
      s9 == [s8 EXCEPT !.tabUsed = Complex(s2) /\ s7.keyAllowed /\ TabAfter(s, x, n)]
  IN IF s4.error # "none" THEN s4
     ELSE Do(s8, IF final THEN SetPending(s9, NoKey) ELSE s9)

(* An anchor or a tag before the "-" of a sequence on its line is refused;   *)
(* so is the tag whose handle no %TAG of the document has.                   *)
Property(s, x, n, token) ==
  LET s1 == Queue(Check(s, FlowIndentOk(s, x.col) /\ (x.is = "!h" => s.handle)), token)
      s2 == Check(s1, token = "ALIAS" \/ ~Block(s) \/ NextOnLine(x, n) # "-")
      s3 == SaveKey(s2, x, Required(s, x), x.line)
  IN IF s2.error # "none" THEN s2 ELSE Do(s3, AllowKey(s3, FALSE))

Quoted(s, x, n) ==
  LET s1 == Check(s, FlowIndentOk(s, x.col))
      s2 == Queue([s1 EXCEPT !.line = x.line + x.rows], "SCALAR")
      after == NextOnLine(x, n)
      s3 == Check(s2, Block(s) => /\ ~(x.rows > 0 /\ ~Complex(s) /\ after = ":")
                                  /\ after \in {":", "#", "newline", "end"})
      s4 == SaveKey(s3, x, Required(s, x), x.line + x.rows)
  IN IF s1.error # "none" THEN s1 ELSE IF s3.error # "none" THEN s3
     ELSE Do(s4, [s4 EXCEPT !.keyAllowed = FALSE])

-----------------------------------------------------------------------------
(* Scalars that go on until something else starts: plain and block scalars. *)

Text(s, x, is, indent) ==
  [is |-> is, mark |-> [line |-> x.line, col |-> x.col], end |-> x.line, broken |-> FALSE, empty |-> TRUE,
   required |-> Required(s, x), tab |-> AtTab(s, x), indent |-> indent]

(* What a plain scalar can start with: an indicator cannot if a blank        *)
(* follows, and gets here only after a tab; a marker is text within a line.  *)
StartsPlain(x, n) ==
  \/ x.is = "plain" \/ (x.is \in Markers /\ x.col > 0)
  \/ x.is \in {"-", "?", ":"} /\ OnNewLine(x, n)

PlainStart(s, x, n) ==
  LET s1 == Check(s, FlowIndentOk(s, x.col) /\ StartsPlain(x, n))
  IN Do(s1, [s1 EXCEPT !.text = Text(s, x, "plain", Indent(s))])

(* A ':' after a ':' in a flow collection is an empty plain scalar first.    *)
PlainEmpty(s, x) ==
  LET s1 == Queue(Check(s, FlowIndentOk(s, x.col)), "SCALAR")
      s2 == SaveKey(s1, x, Required(s, x), x.line)
  IN IF s1.error # "none" THEN s1 ELSE Do(s2, [s2 EXCEPT !.keyAllowed = FALSE])

(* A tab is content of a block scalar, and may not be in its indentation.    *)
BlockColumn(n) == IF n.tab THEN n.col - 1 ELSE n.col
BlockLineOk(s, n) == n.tab /\ n.line > s.line => BlockColumn(n) > Indent(s)

(* The lexeme n, on a line of its own or not, belongs to the scalar.         *)
InText(s, n) ==
  /\ n.is # "end" /\ ~MarkerAt(n)
  /\ IF s.text.is = "plain"
       THEN /\ n.is \notin {":", "#"}
            /\ ~Block(s) => n.is \notin {",", "[", "]", "{", "}"}
            /\ Block(s) /\ n.line > s.line /\ Indent(s) >= 0 => n.col > Indent(s)
       ELSE n.line > s.line => BlockColumn(n) >= s.text.indent

(* A tab may not indent a further line of a plain scalar either.             *)
Broken(s, n)      == s.text.broken \/ n.line > s.line
PlainLineOk(s, n) == (n.tab /\ Broken(s, n) /\ Indent(s) >= 0) => n.col > Indent(s)

(* A block scalar that is not indented gets its indentation from the line    *)
(* that follows, again and again.                                            *)
AddText(s, n) ==
  LET ok     == IF s.text.is = "block" THEN BlockLineOk(s, n) ELSE PlainLineOk(s, n)
      indent == IF s.text.indent = 0 /\ n.line > s.line THEN BlockColumn(n) ELSE s.text.indent
      text   == [s.text EXCEPT !.broken = Broken(s, n) \/ n.rows > 0, !.empty = FALSE,
                               !.end = n.line + n.rows, !.indent = indent]
  IN [Check(s, ok) EXCEPT !.line = n.line + n.rows, !.text = text]

(* White space and line breaks behind the scalar are read with it.           *)
PlainEnd(s, n) ==
  LET text == s.text
      s1 == Check([s EXCEPT !.text = <<>>, !.line = n.line], PlainLineOk(s, n))
      s2 == Queue(s1, "SCALAR")
      s3 == Check(s2, (Block(s) /\ ~Complex(s) /\ (text.end > text.mark.line \/ text.tab)) => n.is # ":")
      s4 == SaveKey(s3, text.mark, text.required, text.end)
  IN IF s3.error # "none" THEN s3 ELSE Do(s4, [s4 EXCEPT !.keyAllowed = Broken(s, n)])

(* The indicator of a block scalar that is not on the line of its            *)
(* indentation makes one.                                                    *)
BlockScalarStart(s, x, n) ==
  LET s1 == Check(s, x.col > Indent(s))
      s2 == AllowKey(RemoveKey(s1), TRUE)
      s3 == Check(s2, NextOnLine(x, n) \in {"newline", "#", "end"})
      made == x.line # Last(s.indents).line
      s4 == IF made THEN PushIndent(s3, x.col, FALSE, x.line) ELSE s3
      content == Max({IF n.is = "end" THEN 0 ELSE BlockColumn(n), Indent(s4), IF s.first THEN 0 ELSE 1})
      s5 == [s4 EXCEPT !.text = [Text(s, x, "block", content) EXCEPT !.tab = made]]
  IN IF s1.error # "none" THEN s1 ELSE Do(s3, IF OnNewLine(x, n) THEN Check(s5, BlockLineOk(s4, n)) ELSE s5)

(* Without any line of its own it must not be followed by a line that is     *)
(* indented, but not enough.                                                 *)
BlockScalarEnd(s, n) ==
  LET marker == MarkerAt(n) /\ s.text.indent = 0
      s1 == Check([s EXCEPT !.text = <<>>, !.line = n.line],
                  /\ s.text.empty /\ n.is # "end" /\ ~marker => BlockColumn(n) <= Indent(s)
                  /\ BlockLineOk(s, n))
      s2 == Queue(s1, "SCALAR")
  IN IF s.text.tab THEN Do(s2, PopIndent(s2)) ELSE s2

-----------------------------------------------------------------------------
(* fy_fetch_tokens: what the lexeme x makes of the state s.                 *)

Arrived(s, x) == LET s1 == ScanTo(s, x) IN Do(s1, Unroll(s1, Column(s, x)))

(* A ':' that is a value: not the second of two in a flow collection.        *)
IsValue(s, x) == x.is = ":" /\ ~(s.colonTwice /\ ~Block(s))

(* Whether the lexeme stays, for the next call: an empty plain scalar.       *)
Stays(s, x) == x.is = ":" /\ (AtTab(s, x) \/ ~IsValue(s, x))

Fetch(s, x, n) ==
  LET a == [Arrived(s, x) EXCEPT !.colonTwice = IF x.is = ":" THEN FALSE ELSE @]
      p == AtLine(a, x.line)
  IN IF a.error # "none" THEN a
     ELSE IF x.is = "end" THEN StreamEnd(a)
     ELSE IF AtTab(s, x)  THEN PlainStart(a, x, n)
     ELSE CASE x.col = 0 /\ x.is \in Directives -> Directive(a, x)
            [] MarkerAt(x)                      -> Marker(a, x, n)
            [] x.is \in {"[", "{"}              -> FlowStart(p, x)
            [] x.is \in {"]", "}"}              -> FlowEnd(p, x, n)
            [] x.is = ","                       -> FlowEntry(p, x)
            [] x.is = "-"                       -> BlockEntry(p, x, n)
            [] x.is = "?"                       -> Key(p, x, n)
            [] x.is = ":" /\ IsValue(s, x)      -> Value(p, x, n)
            [] x.is = ":" /\ ~IsValue(s, x)     -> PlainEmpty(a, x)
            [] x.is = "&"                       -> Property(a, x, n, "ANCHOR")
            [] x.is = "*"                       -> Property(a, x, n, "ALIAS")
            [] x.is = "!"                       -> Property(a, x, n, "TAG")
            [] x.is = "!h"                      -> Property(a, x, n, "TAG-HANDLE")
            [] x.is = "|" /\ Block(a)           -> BlockScalarStart(a, x, n)
            [] x.is = "quoted"                  -> Quoted(a, x, n)
            [] OTHER                            -> PlainStart(a, x, n)

===============================================================================
