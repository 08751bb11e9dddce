------------------------------ MODULE FyScalars ------------------------------
(***************************************************************************)
(* The scalars of a source (Cfyaml/src/lib/fy-parse.c): the three scanners *)
(* that cut an atom out of it and count how much room its text takes, and  *)
(* the reading of the text, line by line, with the iterator of FyAtoms.    *)
(*                                                                         *)
(* A scanner goes over the source with a record of what it has seen: its   *)
(* place, line and column, the length of the text so far, and the breaks   *)
(* or blanks that count only once something follows them.                  *)
(***************************************************************************)
EXTENDS FyAtoms

(* A source: its characters from the one after the opening quote, the first *)
(* of a plain scalar, or the one after the header of a block scalar; the    *)
(* style, the indent of the parser, the column of the first character, and  *)
(* for plain scalars whether it is in a flow collection.  Others are the    *)
(* sources of the scalars one is compared with.  Sources holds the sources, *)
(* in sets of a kind.                                                       *)
CONSTANTS Sources, Others

VARIABLES source,  \* what is read
          stage,   \* how far it is
          atom,    \* the atom of the scalar
          at,      \* where the line to read next starts
          text,    \* what was read of it
          token,   \* the text the token gives
          order    \* what a comparison with another scalar said

vars == <<source, stage, atom, at, text, token, order>>

MarkerAt(cs, i) ==
  /\ CharAt(cs, i) \in {"-", "."}
  /\ \A k \in 1..2 : CharAt(cs, i + k) = CharAt(cs, i)
  /\ Blankz(CharAt(cs, i + 3))

Start(src) ==
  [i |-> 1, line |-> 0, col |-> src.col, mode |-> "top", error |-> FALSE, length |-> 0, breaks |-> 0,
   blanks |-> 0, run |-> 0, escLb |-> FALSE, blankOnly |-> TRUE, hasWs |-> FALSE, hasLb |-> FALSE,
   escaped |-> FALSE, json |-> FALSE, startsWs |-> FALSE, startsLb |-> FALSE, seen |-> -1,
   first |-> TRUE, leading |-> FALSE, end |-> [i |-> 1, line |-> 0, col |-> src.col]]

Fail(s) == [s EXCEPT !.mode = "done", !.error = TRUE]
Stop(s) == [s EXCEPT !.mode = "done"]

(* fy_reader_advance                                                        *)
Advance(cs, s) ==
  IF Lb(cs[s.i]) THEN [s EXCEPT !.i = After(cs, s.i), !.line = @ + 1, !.col = 0]
  ELSE [s EXCEPT !.i = s.i + 1, !.col = @ + 1]
AdvanceBy(cs, s, n) == Fold(LAMBDA t, k : Advance(cs, t), s, [k \in 1..n |-> k])

(* Breaks between text fold into one space, or into the breaks but one.     *)
Counted(s) ==
  IF s.breaks > 0 THEN [s EXCEPT !.length = @ + (IF s.breaks > 1 THEN s.breaks - 1 ELSE 1),
                                 !.breaks = 0, !.blanks = 0]
  ELSE [s EXCEPT !.length = @ + s.blanks, !.blanks = 0]

BlankStep(cs, s) ==
  LET t == Advance(cs, s)
  IN IF Lb(cs[s.i]) THEN [t EXCEPT !.breaks = @ + 1, !.blanks = 0, !.hasLb = TRUE, !.escLb = FALSE]
     ELSE [t EXCEPT !.blanks = IF s.escLb THEN @ ELSE @ + 1, !.hasWs = TRUE]

Run(Step(_), s, cs) ==
  LET f[k \in Nat] == IF k = 0 THEN s ELSE LET t == f[k - 1] IN IF t.mode = "done" THEN t ELSE Step(t)
  IN f[3 * Len(cs) + 3]

(***************************************************************************)
(* fy_reader_fetch_flow_scalar_handle                                      *)
(***************************************************************************)
FlowTop(cs, s) ==
  LET c == CharAt(cs, s.i)
  IN IF (s.col = 0 /\ MarkerAt(cs, s.i)) \/ c = EOF THEN Fail(s)
     ELSE [s EXCEPT !.mode = "unit", !.startsWs = @ \/ (s.first /\ Ws(c)), !.startsLb = @ \/ (s.first /\ Lb(c))]

(* A character that is no blank: the first of a line is looked at for its   *)
(* indentation.                                                             *)
FlowEscape(cs, s) ==
  LET escape == Escape(cs, s.i)
      t == AdvanceBy(cs, s, escape.size)
  IN IF escape.value = "none" THEN Fail(s)
     ELSE [t EXCEPT !.length = @ + Width(escape.value), !.escaped = TRUE,
                    !.run = IF escape.value = LF THEN @ + 1 ELSE @]

FlowChar(src, cs, s) ==
  LET single == src.style = "single"
      c == cs[s.i]
      next == CharAt(cs, s.i + 1)
  IN CASE single /\ c = "'" /\ next = "'" -> [AdvanceBy(cs, s, 2) EXCEPT !.length = @ + 1, !.run = 0]
       [] c = (IF single THEN "'" ELSE "\"") /\ ~(single /\ next = "'") -> Stop(s)
       [] ~single /\ c = "\\" /\ Lb(next) ->
            LET t == [AdvanceBy(cs, s, 2) EXCEPT !.escLb = TRUE, !.escaped = TRUE, !.run = 0,
                                                 !.breaks = 0, !.blanks = 0]
            IN IF CharAt(cs, t.i) = "\"" THEN Stop(t) ELSE [t EXCEPT !.mode = "blank"]
       [] ~single /\ c = "\\" /\ ~Lb(next) -> FlowEscape(cs, s)
       [] OTHER -> [Advance(cs, s) EXCEPT !.length = @ + Width(c), !.run = 0]

FlowUnit(src, cs, s) ==
  LET quote == IF src.style = "single" THEN "'" ELSE "\""
      t == [s EXCEPT !.blankOnly = @ /\ cs[s.i] = quote, !.escLb = FALSE, !.seen = s.line]
  IN IF s.seen # s.line /\ src.indent >= 0 /\ s.col <= src.indent THEN Fail(s)
     ELSE FlowChar(src, cs, Counted(t))

FlowStep(src, cs, s) ==
  LET c == CharAt(cs, s.i)
  IN CASE s.mode = "top" -> FlowTop(cs, s)
       [] s.mode = "unit" /\ Blankz(c) -> [s EXCEPT !.mode = "blank", !.breaks = 0, !.blanks = 0]
       [] s.mode = "unit" /\ ~Blankz(c) -> FlowUnit(src, cs, s)
       [] s.mode = "blank" /\ Blank(c) ->
            IF c = TAB /\ s.col <= src.indent THEN Fail(s)
            ELSE [BlankStep(cs, s) EXCEPT !.run = 0, !.json = @ \/ c # SP]
       [] OTHER -> [s EXCEPT !.mode = "top", !.first = FALSE]

FlowAtom(src, s) ==
  LET data == SubSeq(src.chars, 1, s.i - 1)
  IN IF s.error THEN Atom("error", <<>>)
     ELSE [Atom(src.style, data) EXCEPT
             !.chomp = "strip", !.direct = s.line = 0 /\ ~s.escaped /\ ~s.json /\ Octets(data) = s.length,
             !.empty = s.blankOnly, !.hasLb = s.hasLb, !.hasWs = s.hasWs,
             !.startsWs = s.startsWs, !.startsLb = s.startsLb,
             !.endsLb = s.run > 0, !.trailingLb = s.run > 1, !.oneLine = s.line = 0,
             !.atColumn0 = s.col = 0, !.hint = s.length]
FlowScalar(src) == FlowAtom(src, Run(LAMBDA t : FlowStep(src, src.chars, t), Start(src), src.chars))

(***************************************************************************)
(* fy_reader_fetch_plain_scalar_handle                                     *)
(***************************************************************************)
FlowIndicators == {",", "[", "]", "{", "}"}
NoPlainStart == FlowIndicators \union {"#", "&", "*", "!", "|", ">", "'", "\"", "%", "@"}

PlainStarts(src) ==
  LET c == CharAt(src.chars, 1)
      next == CharAt(src.chars, 2)
  IN /\ ~Blankz(c) /\ c \notin NoPlainStart
     /\ ~(c = "-" /\ (Blank(next) \/ (src.flow /\ next \in FlowIndicators)))
     /\ ~(~src.flow /\ c \in {"?", ":"} /\ Blank(next))

PlainEnds(src, s) ==
  LET c == CharAt(src.chars, s.i)
      next == CharAt(src.chars, s.i + 1)
  IN \/ c = EOF
     \/ c = ":" /\ (Blankz(next) \/ (src.flow /\ next \in FlowIndicators))
     \/ src.flow /\ c \in FlowIndicators

PlainUnit(cs, s) ==
  LET t == Advance(cs, Counted(s))
  IN [t EXCEPT !.length = @ + Width(cs[s.i]), !.json = @ \/ cs[s.i] \in {"\"", "\\"},
               !.end = [i |-> t.i, line |-> t.line, col |-> t.col]]

PlainBlank(src, s) ==
  LET t == BlankStep(src.chars, s)
      c == src.chars[s.i]
  IN IF c = TAB /\ s.leading /\ src.indent >= 0 /\ t.col <= src.indent THEN Fail(s)
     ELSE [t EXCEPT !.leading = @ \/ Lb(c)]

PlainStep(src, s) ==
  LET cs == src.chars
      c  == CharAt(cs, s.i)
  IN CASE s.mode = "top" -> IF (s.col = 0 /\ MarkerAt(cs, s.i)) \/ c = "#" THEN Stop(s) ELSE [s EXCEPT !.mode = "unit"]
       [] s.mode = "unit" /\ Blank(c) -> [s EXCEPT !.mode = "blank", !.breaks = 0, !.blanks = 0, !.json = TRUE]
       [] s.mode = "unit" /\ ~Blank(c) -> IF PlainEnds(src, s) THEN Stop(s) ELSE PlainUnit(cs, s)
       [] s.mode = "blank" /\ Blank(c) -> PlainBlank(src, s)
       [] OTHER -> IF ~src.flow /\ src.indent >= 0 /\ s.col <= src.indent THEN Stop(s) ELSE [s EXCEPT !.mode = "top"]

PlainAtom(src, s) ==
  LET data == SubSeq(src.chars, 1, s.end.i - 1)
  IN IF ~PlainStarts(src) \/ s.error THEN Atom("error", <<>>)
     ELSE [Atom("plain", data) EXCEPT
             !.direct = s.end.line = 0 /\ ~s.json /\ Octets(data) = s.length, !.hasLb = s.hasLb, !.hasWs = s.hasWs,
             !.endsEof = CharAt(src.chars, s.i) = EOF, !.oneLine = s.end.line = 0,
             !.atColumn0 = s.end.col = 0, !.hint = s.length]
PlainScalar(src) == PlainAtom(src, Run(LAMBDA t : PlainStep(src, t), Start(src), src.chars))

(***************************************************************************)
(* fy_scan_block_scalar_indent: white space and breaks up to the next line *)
(* with text; the indentation, when it is not known, is the widest of them.*)
(***************************************************************************)
IndentStep(src, b) ==
  LET c == CharAt(src.chars, b.i)
      widest == Max({b.widest, b.col})
      least  == Max({widest, src.indent, IF src.root THEN 0 ELSE 1})
  IN CASE b.col <= src.indent /\ c = TAB -> Fail(b)
       [] (b.col <= src.indent /\ c = SP) \/ (c = SP /\ (b.indent = 0 \/ b.col < b.indent)) -> Advance(src.chars, b)
       [] Lb(c) /\ ~(b.col <= src.indent /\ c = TAB) -> [Advance(src.chars, b) EXCEPT !.breaks = @ + 1, !.widest = widest]
       [] OTHER -> [b EXCEPT !.mode = "line", !.indent = IF @ = 0 THEN least ELSE @]

(* fy_fetch_block_scalar: a line, up to its break.                          *)
BlockLine(src, b) ==
  LET cs == src.chars
      end == OrElse({k \in b.i..Len(cs) : Lb(cs[k])}, Len(cs) + 1)
      line == SubSeq(cs, b.i, end - 1)
      solid == {k \in DOMAIN line : line[k] # SP}
      t == [AdvanceBy(cs, b, Len(line)) EXCEPT
              !.startsWs = @ \/ (b.first /\ Ws(CharAt(cs, b.i))), !.startsLb = @ \/ (b.first /\ Lb(CharAt(cs, b.i))),
              !.empty = @ /\ solid = {}, !.hasWs = @ \/ SP \in Range(line), !.lineLength = Octets(line),
              !.lineEmpty = solid = {}, !.indented = Ws(CharAt(cs, b.i)),
              !.chompAt = IF @ = -1 /\ solid # {} THEN b.col + Min(solid) - 1 ELSE @]
  IN IF b.col = 0 /\ MarkerAt(cs, b.i) THEN [b EXCEPT !.mode = "done", !.marker = TRUE]
     ELSE IF end > Len(cs) THEN [t EXCEPT !.hasLb = FALSE, !.breaks = 0, !.actual = 0, !.mode = "tally"]
     ELSE [Advance(cs, t) EXCEPT !.hasLb = TRUE, !.breaks = 0, !.widest = 0, !.actual = 1, !.mode = "after"]

(* The room of a line of literal, and of folded text: what is known of it   *)
(* only when the next line is there is pending.                             *)
LiteralTally(b) ==
  LET prefix == (IF b.pending THEN b.pendingLength ELSE 0) + b.trailing
      pending == ~b.lineEmpty \/ b.indented
  IN [b EXCEPT !.length = @ + prefix + b.lineLength, !.trailing = b.breaks, !.pending = pending,
               !.pendingLength = IF pending THEN 1 ELSE 0]

FoldedTally(b) ==
  LET apart == b.wasIndented \/ (b.wasEmpty /\ ~b.first) \/ b.indented
      joined == ~b.wasEmpty /\ ~b.wasIndented /\ ~b.indented /\ ~b.lineEmpty
      prefix == IF b.trailing = 0 THEN IF (apart \/ joined) /\ b.pending THEN 1 ELSE 0
                ELSE b.trailing + (IF b.wasIndented \/ b.indented THEN 1 ELSE 0)
  IN [b EXCEPT !.length = @ + prefix + b.lineLength, !.trailing = b.breaks, !.pending = TRUE,
               !.pendingLength = b.actual]

BlockTally(src, b) ==
  [(IF src.style = "literal" THEN LiteralTally(b) ELSE FoldedTally(b)) EXCEPT
     !.wasEmpty = b.lineEmpty, !.wasIndented = b.indented, !.first = FALSE, !.mode = "line"]

BlockStep(src, b) ==
  CASE b.mode \in {"before", "after"} ->
         LET t == IndentStep(src, b)
         IN IF t.mode # "line" THEN t ELSE IF b.mode = "after" THEN [t EXCEPT !.mode = "tally"]
            ELSE [t EXCEPT !.length = t.breaks]
    [] b.mode = "tally" -> BlockTally(src, b)
    [] OTHER -> IF CharAt(src.chars, b.i) # EOF /\ b.col >= b.indent THEN BlockLine(src, b) ELSE Stop(b)

(* The start is the break that ends the header, when there is one.          *)
BlockStart(src) ==
  LET current == Max({src.indent, 0})
      s == Start(src) @@
             [indent |-> IF src.increment > 0 THEN current + src.increment ELSE 0, widest |-> 0,
              empty |-> TRUE, lineLength |-> 0, lineEmpty |-> TRUE, indented |-> FALSE, marker |-> FALSE,
              chompAt |-> IF src.increment > 0 THEN current + src.increment ELSE -1, actual |-> 1,
              wasEmpty |-> TRUE, wasIndented |-> FALSE, pending |-> FALSE, pendingLength |-> 0, trailing |-> 0]
  IN [(IF src.chars = <<>> THEN s ELSE Advance(src.chars, s)) EXCEPT !.mode = "before"]

BlockAtom(src, b) ==
  LET c == CharAt(src.chars, b.i)
      data == SubSeq(src.chars, 2, b.i - 1)
      headOnly == src.chars = <<>>
      endsEof == headOnly \/ (c = EOF /\ b.breaks = 0)
      trailing == IF b.empty THEN b.breaks ELSE b.trailing
      length == IF b.empty THEN 0 ELSE b.length
      ended == b.pending \/ (~headOnly /\ endsEof)
      room == CASE src.chomp = "clip" -> IF ended THEN 1 ELSE 0
                [] src.chomp = "keep" -> (IF ended THEN b.actual ELSE 0) + b.breaks
                [] OTHER -> 0
      wrong == \/ c # EOF /\ b.empty /\ b.col > src.indent /\ c # "#" /\ ~b.marker
               \/ b.empty /\ c = "#" /\ b.col > src.indent
  IN IF b.error \/ wrong THEN Atom("error", <<>>)
     ELSE [Atom(src.style, data) EXCEPT
             !.chomp = src.chomp, !.increment = IF b.chompAt = -1 THEN Max({src.indent, 0}) ELSE b.chompAt,
             !.empty = b.empty, !.hasLb = b.hasLb, !.hasWs = b.hasWs, !.startsWs = b.startsWs, !.startsLb = b.startsLb,
             !.endsLb = src.chomp # "strip" /\ (ended \/ trailing > 0), !.trailingLb = src.chomp = "keep" /\ trailing > 0,
             !.endsEof = endsEof, !.oneLine = b.line = 1, !.atColumn0 = b.col = 0, !.hint = length + room]
BlockScalar(src) == BlockAtom(src, Run(LAMBDA t : BlockStep(src, t), BlockStart(src), src.chars))

Scalar(src) ==
  CASE src.style \in {"single", "double"} -> FlowScalar(src)
    [] src.style = "plain" -> PlainScalar(src)
    [] OTHER -> BlockScalar(src)

(***************************************************************************)
(* A scalar is scanned; its text is then read, a line at a time.           *)
(***************************************************************************)
ReadInit == stage = "scan" /\ atom = Atom("plain", <<>>) /\ at = 1 /\ text = <<>> /\ token = <<>> /\ order = <<>>
Init == (\E set \in Sources : source \in set) /\ ReadInit

Scan ==
  /\ stage = "scan"
  /\ atom' = Scalar(source)
  /\ stage' = IF atom'.style = "error" THEN "refused" ELSE "read"
  /\ UNCHANGED <<source, at, text, token, order>>

(* fy_atom_iter_chunk_next, until it gives no more.                         *)
ReadLine ==
  /\ stage = "read" /\ HasLine(atom, at)
  /\ \E unset \in {LF, "other"} :
       \E line \in {Format(atom, at, unset)} :
          /\ text' = IF line.ok THEN text \o line.text ELSE text
          /\ at' = line.next
          /\ stage' = IF line.ok THEN "read" ELSE "end"
  /\ UNCHANGED <<source, atom, token, order>>

(* fy_token_get_text: the source itself when it is the text; otherwise there *)
(* is room for as many octets as the scanner counted.  What does not fit is  *)
(* not copied, and what is not copied is not set.                           *)
Padded(cs, octets) == cs \o [k \in 1..(octets - Octets(cs)) |-> "unset"]
TokenTexts ==
  LET fits == {SubSeq(text, 1, k) : k \in {n \in 0..Len(text) : Octets(SubSeq(text, 1, n)) <= atom.hint}}
  IN IF atom.direct THEN {atom.data}
     ELSE {Padded(cs, atom.hint) : cs \in IF text \in fits THEN {text} ELSE fits}

ReadEnd ==
  /\ stage = "end" \/ (stage = "read" /\ ~HasLine(atom, at))
  /\ stage' = "done" /\ token' \in TokenTexts
  /\ UNCHANGED <<source, atom, at, text, order>>

(* fy_token_cmp, with another scalar.                                       *)
Compare ==
  /\ stage = "done" /\ order = <<>>
  /\ \E src \in Others, unset \in {LF, "other"} :
       \E other \in {Scalar(src)} : order' = <<other, AtomCmp(atom, other, unset)>>
  /\ UNCHANGED <<source, stage, atom, at, text, token>>

Next == Scan \/ ReadLine \/ ReadEnd \/ Compare

Spec == Init /\ [][Next]_vars

=============================================================================
