----------------------------- MODULE MCFyScalars -----------------------------
(***************************************************************************)
(* The scalars that TLC reads, compares and writes: every one of a few     *)
(* pieces, in each style, chosen so that text, blanks, breaks, quotes and   *)
(* escapes meet in every order; and what their texts must be.              *)
(***************************************************************************)
EXTENDS FyScalarWriter

Words(pieces, n) == {Fold(LAMBDA word, piece : word \o piece, <<>>, ps) : ps \in SeqOf(pieces, n)}

Source(style, chars, indent, flow, chomp, increment) ==
  [style |-> style, chars |-> chars, indent |-> indent, col |-> 4, flow |-> flow, root |-> FALSE,
   chomp |-> chomp, increment |-> increment]
Quoted(style, quote, pieces) ==
  {Source(style, word \o <<quote, LF>>, 0, FALSE, "clip", 0) : word \in Words(pieces, 4)}
Block(chomps, increments, n) ==
  {Source(style, <<LF, SP, SP>> \o word, 0, FALSE, chomp, increment) : style \in {"literal", "folded"},
     word \in Words({<<"a">>, <<LF>>, <<LF, SP, SP, "a">>, <<LF, SP>>, <<SP, SP>>, <<LF, SP, SP, SP, "a">>, <<LF, TAB>>}, n),
     chomp \in chomps, increment \in increments}

MCSources ==
  {Quoted("double", "\"", {<<"a">>, <<SP>>, <<LF>>, <<CR, LF, SP>>, <<"\\", "n">>, <<"\\", SP>>, <<"\\", LF>>, <<"\\", "\\">>,
                           <<"\\", "h", "\\", "l">>}),
   Quoted("single", "'", {<<"a">>, <<SP>>, <<LF, SP>>, <<LF>>, <<CR, LF>>, <<"'", "'">>, <<TAB>>}),
   {Source("plain", <<c>> \o word \o <<LF>>, IF flow THEN -1 ELSE 0, flow, "clip", 0) : c \in {"a", "-"}, flow \in BOOLEAN,
      word \in Words({<<"a">>, <<SP>>, <<LF, SP>>, <<LF>>, <<":">>, <<"#">>, <<",">>, <<TAB>>}, 3)},
   Block({"clip", "strip", "keep"}, {0, 1}, 3)}

(* What they are compared with: texts that begin each other, with and       *)
(* without an atom that is its own text.                                    *)
MCOthers ==
  {Source("plain", <<"a", LF>>, 0, FALSE, "clip", 0), Source("double", <<"\"", LF>>, 0, FALSE, "clip", 0),
   Source("double", <<"\\", SP, "a", "\"", LF>>, 0, FALSE, "clip", 0),
   Source("literal", <<LF, SP, "a", LF>>, 0, FALSE, "strip", 0)}

(* The requests: in the modes of YAMLWriter, as the value of a key, as the  *)
(* root, and, where it writes them, in flow collections.                    *)
Ask(style, word, mode, place) == [style |-> style, text |-> word, mode |-> mode] @@ place
Value == [at |-> 2, col |-> 3, indent |-> 0, flow |-> FALSE, root |-> FALSE]
Root  == [at |-> 0, col |-> 0, indent |-> -1, flow |-> FALSE, root |-> TRUE]
Flow  == [at |-> 4, col |-> 2, indent |-> -1, flow |-> TRUE, root |-> FALSE]
Spoken == Words({<<"a">>, <<SP>>, <<LF>>, <<":">>, <<"'">>, <<TAB>>}, 4)

MCRequests ==
  {{Ask(style, word, mode, place) : style \in {"any", "double", "single", "literal", "folded"}, word \in Spoken,
                                    mode \in {"ORIGINAL", "PRETTY"}, place \in {Value, Root}},
   {Ask(style, word, mode, Flow) : style \in {"any", "double", "literal"}, word \in Spoken, mode \in {"ORIGINAL", "JSON"}}}

(* A text is read that was there, or one that is written first.             *)
NoRequest == [text |-> <<>>, style |-> "none"]
MCInit == (Init /\ asked = NoRequest) \/ WriterInit
MCSpec == MCInit /\ [][WriterNext]_<<vars, asked>>

(***************************************************************************)
(* What a scalar of a source means by the rules of YAML: the text of quoted*)
(* and plain scalars with its breaks folded, and that of block scalars by  *)
(* their lines.  Nothing is taken over from the iterator of libfyaml.      *)
(***************************************************************************)
Times(n, c) == [k \in 1..n |-> c]

(* A break is read as one character however it is written.                  *)
Unbroken(cs) ==
  FoldAt(LAMBDA out, k : IF cs[k] = LF /\ k > 1 /\ cs[k - 1] = CR THEN out
                                 ELSE Append(out, IF cs[k] = CR THEN LF ELSE cs[k]), <<>>, cs)

(***************************************************************************)
(* Flow scalars are units: a character that stands for itself, white space,*)
(* a break, and a break that is escaped.                                   *)
(***************************************************************************)
Unit(kind, value) == [kind |-> kind, value |-> value]
RawUnit(c) == Unit(IF Ws(c) THEN "blank" ELSE IF c = LF THEN "break" ELSE "char", c)

Units(style, cs) ==
  LET Add(done, k) ==
        IF k < done.next THEN done
        ELSE IF style = "double" /\ cs[k] = "\\" /\ CharAt(cs, k + 1) = LF
             THEN [units |-> Append(done.units, Unit("join", LF)), next |-> k + 2]
        ELSE IF style = "double" /\ cs[k] = "\\"
             THEN [units |-> Append(done.units, Unit("char", Escape(cs, k).value)), next |-> k + Escape(cs, k).size]
        ELSE IF style = "single" /\ cs[k] = "'"
             THEN [units |-> Append(done.units, Unit("char", "'")), next |-> k + 2]
        ELSE [units |-> Append(done.units, RawUnit(cs[k])), next |-> k + 1]
  IN FoldAt(Add, [units |-> <<>>, next |-> 1], cs).units

(* White space around breaks is dropped; one break is a space, and of more  *)
(* the first is dropped, unless it is escaped.                              *)
Flushed(t) ==
  [t EXCEPT !.text = @ \o (IF t.breaks = 0 THEN t.blanks
                           ELSE IF t.breaks = 1 /\ ~t.joined THEN <<SP>>
                           ELSE Times(IF t.joined THEN t.breaks ELSE t.breaks - 1, LF)),
            !.blanks = <<>>, !.breaks = 0, !.joined = FALSE]

FlowMeaning(style, cs) ==
  LET Add(t, unit) ==
        CASE unit.kind = "char"  -> [Flushed(t) EXCEPT !.text = Append(@, unit.value)]
          [] unit.kind = "blank" -> IF t.breaks > 0 \/ t.joined THEN t ELSE [t EXCEPT !.blanks = Append(@, unit.value)]
          [] unit.kind = "break" -> [t EXCEPT !.breaks = @ + 1]
          [] OTHER               -> [Flushed(t) EXCEPT !.joined = TRUE]
      start == [text |-> <<>>, blanks |-> <<>>, breaks |-> 0, joined |-> FALSE]
  IN Flushed(Fold(Add, start, Units(style, Unbroken(cs)))).text

(***************************************************************************)
(* Block scalars are lines without the n columns of their indentation.     *)
(***************************************************************************)
LeadingSpaces(line) == OrElse({k \in DOMAIN line : line[k] # SP}, Len(line) + 1) - 1

Spaces(line) == LeadingSpaces(line) = Len(line)

(* The lines; the last one needs no break, but without one must have text.  *)
Lines(cs) ==
  LET split == Fold(LAMBDA ls, c : IF c = LF THEN Append(ls, <<>>) ELSE [ls EXCEPT ![Len(ls)] = Append(@, c)],
                        <<<<>>>>, cs)
  IN IF Spaces(Last(split)) THEN Front(split) ELSE split

(* The content of the lines, up to the first that is not indented enough.   *)
Content(lines, n) ==
  LET past == {k \in DOMAIN lines : ~Spaces(lines[k]) /\ LeadingSpaces(lines[k]) < n}
      own  == SubSeq(lines, 1, OrElse(past, Len(lines) + 1) - 1)
  IN [k \in DOMAIN own |-> SubSeq(own[k], n + 1, Len(own[k]))]

Indented(line) == line # <<>> /\ Ws(line[1])

(* Lines joined: literal text keeps every break; folded text folds those    *)
(* between lines that are not indented further.                             *)
Joined(style, content) ==
  LET Add(t, line) ==
        IF line = <<>> THEN [t EXCEPT !.empty = @ + 1]
        ELSE LET apart == style = "literal" \/ t.indented \/ Indented(line)
                 breaks == IF t.text = <<>> /\ ~t.begun THEN Times(t.empty, LF)
                           ELSE IF apart THEN Times(t.empty + 1, LF)
                           ELSE IF t.empty = 0 THEN <<SP>> ELSE Times(t.empty, LF)
             IN [text |-> t.text \o breaks \o line, empty |-> 0, begun |-> TRUE, indented |-> Indented(line)]
  IN Fold(Add, [text |-> <<>>, empty |-> 0, begun |-> FALSE, indented |-> FALSE], content)

BlockMeaning(style, chomp, n, cs) ==
  LET joined == Joined(style, Content(Lines(Unbroken(cs)), n))
  IN joined.text \o
       CASE chomp = "strip" -> <<>>
         [] chomp = "clip"  -> IF joined.begun THEN <<LF>> ELSE <<>>
         [] OTHER           -> Times(joined.empty + (IF joined.begun THEN 1 ELSE 0), LF)

(***************************************************************************)
(* What a scalar means, and the scalars that libfyaml reads otherwise.     *)
(***************************************************************************)
Data == atom.data
BlockLines(src) == Lines(Unbroken(Tail(src.chars)))
Solid(src) == {k \in DOMAIN BlockLines(src) : ~Spaces(BlockLines(src)[k])}
ContentIndent(src) ==
  CASE src.increment > 0 -> Max({src.indent, 0}) + src.increment
    [] Solid(src) = {}   -> Len(src.chars)
    [] OTHER -> Max({src.indent + 1, LeadingSpaces(BlockLines(src)[Min(Solid(src))])})

Meaning ==
  CASE ~IsBlock(source.style) -> FlowMeaning(source.style, Data)
    [] source.chars = <<>> -> <<>>
    [] OTHER -> BlockMeaning(source.style, source.chomp, ContentIndent(source), Tail(source.chars))

(* Single quoted text with quotes next to each other, or of nothing else.   *)
QuotesTogether ==
  /\ source.style = "single"
  /\ \/ \E k \in DOMAIN Data : \A j \in 0..3 : CharAt(Data, k + j) = "'"
     \/ atom.empty /\ "'" \in Range(Data)
(* Quoted text whose last line ends with CR LF.                             *)
CrLfEnd ==
  /\ source.style \in {"single", "double"}
  /\ \E k \in DOMAIN Data : Data[k] = CR /\ \A j \in k..Len(Data) : Blank(Data[j])
(* White space that is escaped ends a line; two breaks follow one that is   *)
(* escaped; or it follows a backslash that is escaped.                      *)
EscapeEnds ==
  source.style = "double" /\ \E us \in {Units("double", Unbroken(Data))} : \E k \in DOMAIN us :
    LET solid == SelectSeq(SubSeq(us, k + 1, Len(us)), LAMBDA unit : unit.kind # "blank")
        Breaks(n) == Len(solid) >= n /\ \A j \in 1..n : solid[j].kind = "break"
    IN \/ us[k].kind = "char" /\ Ws(us[k].value) /\ Breaks(1)
       \/ us[k].kind = "join" /\ Breaks(2)
       \/ us[k] = Unit("char", "\\") /\ k < Len(us) /\ us[k + 1].kind = "join"
(* Block scalars of blanks alone, that end in spaces or without a break.    *)
NoText ==
  /\ IsBlock(source.style)
  /\ \/ \A k \in DOMAIN Data : Blank(Data[k])
     \/ Last(Data) = SP
     \/ source.chomp = "keep" /\ atom.endsEof
(* A folded line that is indented by one column, after an empty line.       *)
OneDeeper ==
  source.style = "folded" /\ \E lines \in {Content(BlockLines(source), ContentIndent(source))} :
    \E k \in DOMAIN lines : k > 1 /\ lines[k - 1] = <<>> /\ Indented(lines[k]) /\ (Len(lines[k]) = 1 \/ ~Ws(lines[k][2]))

ReadOtherwise == QuotesTogether \/ CrLfEnd \/ EscapeEnds \/ NoText \/ OneDeeper

(* The text that a token gives (fy_token_get_text) is what the source means *)
(* by the rules of YAML: the scanner counted the octets that the iterator,  *)
(* another piece of code, later writes, and a text that is longer or shorter *)
(* is cut or ends in octets nobody set.                                     *)
ReadsMeaning == stage = "done" => token = Meaning \/ ReadOtherwise

(* Two scalars compare as equal exactly when their texts are, however each  *)
(* is written, so that the keys "a" and a are found to be duplicates; and   *)
(* the sign is that of the texts.  Of an atom that is its own text and one  *)
(* that is not, the sign is wrong when one text begins the other.           *)
ComparesTexts ==
  stage = "done" /\ order # <<>> /\ ~NoText =>
    \A s \in {Codes(text)}, t \in {Codes(Text(order[1], LF))} :
      LET mixed == atom.direct # order[1].direct
      IN /\ (order[2] = 0) = (s = t) \/ (mixed /\ s = <<>>)
         /\ order[2] = Order(s, t) \/ (mixed /\ (IsPrefix(s, t) \/ IsPrefix(t, s)))

(***************************************************************************)
(* The texts that are lost when they are written.                          *)
(***************************************************************************)
Asked == asked.text
(* A line is left at blanks, and those that begin the next are dropped.     *)
LeftAtBlanks ==
  \/ source.style = "double" /\ \E k \in 1..(Len(Data) - 1) : Data[k] = "\\" /\ Data[k + 1] = LF
  \/ source.style = "single" /\ LF \in Range(Data) /\ \E k \in 1..(Len(Asked) - 1) : Ws(Asked[k]) /\ Ws(Asked[k + 1])
(* Blanks beside a break, in text that is not escaped.                      *)
BlanksAtBreaks ==
  source.style \in {"plain", "single"} /\ \E k \in 1..(Len(Asked) - 1) :
    Blank(Asked[k]) /\ Blank(Asked[k + 1]) /\ Lb(Asked[k]) # Lb(Asked[k + 1])
(* Text with a character to escape that a flow collection gets unquoted.    *)
FlowUnquoted == asked.flow /\ source.style = "plain" /\ NonPrint(Asked)
(* Block scalars of blanks alone; folded ones with lines that start with    *)
(* blanks, or with blanks that something other than text follows.           *)
BlockBlanks ==
  \/ IsBlock(source.style) /\ Asked # <<>> /\ \A k \in DOMAIN Asked : Blank(Asked[k])
  \/ source.style = "folded" /\ \E k \in DOMAIN Asked : Ws(Asked[k]) /\ (LineStart(Asked, k) \/ Blankz(CharAt(Asked, k + 1)))

WrittenOtherwise == LeftAtBlanks \/ BlanksAtBreaks \/ FlowUnquoted \/ BlockBlanks \/ QuotesTogether

(* What YAMLWriter is asked to write is read again as the same text: the    *)
(* style that the emitter takes from what it finds in the text, the lines   *)
(* it breaks it into, the escapes, hints and indentation it writes, and the *)
(* scanner and the iterator that take them away again, agree.               *)
WrittenReadsBack ==
  asked # NoRequest /\ stage \in {"done", "refused"} => (stage = "done" /\ token = Asked) \/ WrittenOtherwise
==============================================================================
