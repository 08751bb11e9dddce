--------------------------- MODULE FyScalarWriter ---------------------------
(***************************************************************************)
(* A text that is written and read again.  YAMLWriter gives the emitter    *)
(* (Cfyaml/src/lib/fy-emit.c) the text of a scalar and a style; the emitter *)
(* looks at the text (fy-token.c) and writes it in the style it can have,  *)
(* over several lines where it wants to.  What it wrote is a source, which *)
(* FyScalars reads.                                                        *)
(***************************************************************************)
EXTENDS FyScalars

(* A request: the text, the style asked, the mode of the emitter, and where  *)
(* the scalar stands: the column it starts at (col), the indentation of its *)
(* further lines (at), the indent of the parser there, whether it is in a   *)
(* flow collection, and whether it is the root.  LineWidth is the column    *)
(* after which lines are folded in the mode that has one.  Requests holds   *)
(* the requests, in sets of a kind.                                         *)
CONSTANTS Requests, LineWidth

VARIABLES asked

Json(request)   == request.mode = "JSON"
Pretty(request) == request.mode = "PRETTY"

(***************************************************************************)
(* fy_token_text_analyze: what the text has, and the styles that suit it.  *)
(***************************************************************************)
StartIndicators == NoPlainStart
Printable(c) == c \notin {TAB, "nel", "bel", "astral"}

Marks(cs, i) == \E c \in {"-", "."} : \A k \in 0..2 : CharAt(cs, i + k) = c
LineStart(cs, i) == i = 1 \/ Lb(cs[i - 1])

PlainAt(cs, i) ==
  LET next == CharAt(cs, i + 1)
  IN /\ Printable(cs[i])
     /\ ~(cs[i] = ":" /\ Blankz(next)) /\ ~(Blank(cs[i]) /\ next = "#")

PlainText(cs) ==
  /\ cs # <<>>
  /\ cs[1] \notin StartIndicators /\ ~Blank(cs[1]) /\ ~(cs[1] \in {"-", ":", "?"} /\ Blankz(CharAt(cs, 2)))
  /\ ~Blank(Last(cs)) /\ \A i \in DOMAIN cs : PlainAt(cs, i)

PlainFlowText(cs) == PlainText(cs) /\ \A i \in DOMAIN cs : cs[i] \notin FlowIndicators

HasLb(cs)      == \E i \in DOMAIN cs : Lb(cs[i])
HasAnyLb(cs)   == HasLb(cs) \/ \E i \in DOMAIN cs : cs[i] = "nel"
QuoteAt0(cs)   == \E i \in DOMAIN cs : LineStart(cs, i) /\ Marks(cs, i)
NonPrint(cs)   == \E i \in DOMAIN cs : ~Printable(cs[i])

(***************************************************************************)
(* fy_emit_token_scalar_style: the style that is written for the one asked.*)
(***************************************************************************)
FlowStyle(style, cs) ==
  CASE style \notin {"any", "literal", "folded"} -> style
    [] HasAnyLb(cs)   -> "double"
    [] ~NonPrint(cs)  -> "single"
    [] OTHER          -> "plain"

BlockStyle(style, pretty, cs) ==
  IF pretty /\ style \in {"any", "single", "double"} /\ PlainText(cs)
  THEN IF HasLb(cs) THEN "literal" ELSE IF style = "any" THEN "plain" ELSE style
  ELSE style

WrittenStyle(request) ==
  LET cs == request.text
      wished == IF request.flow THEN FlowStyle(request.style, cs) ELSE BlockStyle(request.style, Pretty(request), cs)
      style == IF wished = "any" THEN IF PlainText(cs) THEN "plain" ELSE "double" ELSE wished
      unfit == (request.flow /\ ~PlainFlowText(cs) /\ HasLb(cs)) \/ (QuoteAt0(cs) /\ request.at = 0)
  IN IF Json(request) \/ (style = "plain" /\ unfit) THEN "double" ELSE style

(***************************************************************************)
(* The emitter: what it wrote and the column, the run it holds back with   *)
(* its column, and whether white space, and only indentation, precedes.    *)
(***************************************************************************)
Emitter(col) == [out |-> <<>>, col |-> col, run |-> <<>>, runCol |-> col, ws |-> FALSE, indentation |-> FALSE,
                 spaces |-> FALSE, breaks |-> FALSE, leading |-> TRUE, next |-> 1]

(* fy_emit_accum_utf8_put; U stands with its eight digits.                  *)
PutChar(e, c) ==
  [e EXCEPT !.run = Append(@, IF Lb(c) THEN LF ELSE c), !.runCol = IF c = "U" THEN @ + 9 ELSE NextColumn(@, c)]
PutAll(e, cs) == Fold(PutChar, e, cs)

(* fy_emit_output_accum                                                     *)
Output(e) == [e EXCEPT !.out = @ \o e.run, !.run = <<>>, !.runCol = 0,
                       !.col = IF \E k \in DOMAIN e.run : Lb(e.run[k]) THEN 0 ELSE @ + Len(e.run)]

(* fy_emit_write_indent                                                     *)
Indent(e, indent) ==
  LET fresh == ~e.indentation \/ e.col > indent \/ (e.col = indent /\ ~e.ws)
      col   == IF fresh THEN 0 ELSE e.col
      pad   == [k \in 1..(indent - col) |-> SP]
  IN [e EXCEPT !.out = (IF fresh THEN Append(@, LF) ELSE @) \o pad, !.col = Max({col, indent}),
               !.ws = TRUE, !.indentation = TRUE]
NewIndent(e, indent) == Indent([e EXCEPT !.indentation = FALSE], indent)

(* A break: what is held back is written first, and the line is left.       *)
Broken(e, indent) ==
  LET written == IF e.breaks THEN e ELSE Indent(Output(e), indent)
  IN [NewIndent(written, indent) EXCEPT !.breaks = TRUE]

(* fy_emit_token_write_plain                                                *)
PlainPut(e, cs, i, indent, width) ==
  LET fold == ~e.spaces /\ e.runCol > width /\ ~Ws(CharAt(cs, i + 1))
  IN IF Ws(cs[i])
     THEN [(IF fold THEN NewIndent(Output(e), indent) ELSE PutChar(e, cs[i])) EXCEPT !.spaces = TRUE]
     ELSE IF Lb(cs[i]) THEN Broken(e, indent)
     ELSE [PutChar(IF e.breaks THEN Indent(e, indent) ELSE e, cs[i]) EXCEPT
             !.indentation = FALSE, !.spaces = FALSE, !.breaks = FALSE]

(* fy_emit_token_write_quoted                                               *)
SinglePut(e, cs, i, indent, width) ==
  LET fold == ~e.spaces /\ e.runCol > width /\ Ws(CharAt(cs, i + 1))
      line == IF e.breaks THEN Indent(Output(e), indent) ELSE e
  IN IF Ws(cs[i])
     THEN [(IF fold THEN NewIndent(Output(e), indent) ELSE PutChar(e, cs[i])) EXCEPT !.spaces = TRUE, !.breaks = FALSE]
     ELSE IF Lb(cs[i]) THEN Broken(e, indent)
     ELSE [PutAll(line, IF cs[i] = "'" THEN <<"'", "'">> ELSE <<cs[i]>>) EXCEPT
             !.indentation = FALSE, !.spaces = FALSE, !.breaks = FALSE]

Escaped(c, json) ==
  CASE c = LF  -> <<"\\", "n">>
    [] c = CR  -> <<"\\", "r">>
    [] c = TAB -> <<"\\", "t">>
    [] c \in {"\"", "\\"} -> <<"\\", c>>
    [] c = "bel"    -> <<"\\", IF json THEN "ubel" ELSE "a">>
    [] c = "nel"    -> <<"\\", IF json THEN "unel" ELSE "N">>
    [] c = "nbsp"   -> <<"\\", IF json THEN "unbsp" ELSE "_">>
    [] c = "astral" -> IF json THEN <<"\\", "h", "\\", "l">> ELSE <<"\\", "U">>
    [] OTHER -> <<c>>

DoublePut(e, cs, i, indent, width, json) ==
  LET fold == ~json /\ ~e.spaces /\ e.runCol > width
      left == Output(e)
      joined == IF Ws(CharAt(cs, i + 1)) THEN [left EXCEPT !.out = Append(@, "\\"), !.col = @ + 1] ELSE left
  IN IF cs[i] = SP
     THEN [(IF fold THEN NewIndent(joined, indent) ELSE PutChar(e, SP)) EXCEPT !.spaces = TRUE]
     ELSE [PutAll(e, Escaped(cs[i], json)) EXCEPT !.indentation = FALSE, !.spaces = FALSE]

(* fy_emit_token_write_literal                                              *)
LiteralPut(e, cs, i, indent) ==
  LET line == IF e.breaks THEN [Indent(e, indent) EXCEPT !.breaks = FALSE] ELSE e
  IN IF Lb(cs[i]) THEN [Output(line) EXCEPT !.indentation = FALSE, !.breaks = TRUE] ELSE PutChar(line, cs[i])

(* fy_emit_token_write_folded: a run of breaks is written at once.          *)
FoldedPut(e, cs, i, indent, width) ==
  LET after == OrElse({k \in i..Len(cs) : ~Lb(cs[k])}, Len(cs) + 1)
      next  == CharAt(cs, after)
      extra == Max({0, (after - i) - (IF next = EOF THEN 2 ELSE IF Ws(next) THEN 1 ELSE 0)})
      left  == IF e.run = <<>> THEN e
               ELSE IF i < Len(cs) /\ ~e.leading THEN Indent(Output(e), indent) ELSE Output(e)
      line  == IF e.breaks THEN [Indent(e, indent) EXCEPT !.leading = Ws(cs[i])] ELSE e
      fold  == ~e.breaks /\ cs[i] = SP /\ CharAt(cs, i + 1) # SP /\ e.runCol > width
  IN IF i < e.next THEN e
     ELSE IF Lb(cs[i])
     THEN [Fold(LAMBDA f, k : NewIndent(f, indent), left, [k \in 1..extra |-> k]) EXCEPT !.breaks = TRUE, !.next = after]
     ELSE [(IF fold THEN NewIndent(Output(line), indent) ELSE PutChar(line, cs[i])) EXCEPT !.breaks = FALSE]

(***************************************************************************)
(* What is written of a text in a style, after its opening quote or its    *)
(* header.                                                                 *)
(***************************************************************************)
Written(style, request) ==
  LET cs == request.text
      width  == IF Pretty(request) THEN LineWidth ELSE 1000
      indent == request.at + (IF request.root THEN 2 ELSE 0)
      begun  == IF style = "plain" THEN [Emitter(request.col) EXCEPT !.ws = TRUE, !.indentation = request.root]
                ELSE Emitter(request.col + 1)
      block  == [out |-> <<LF>>, col |-> 0, runCol |-> 0, ws |-> TRUE, indentation |-> TRUE, breaks |-> TRUE] @@ begun
      Put(e, i) == CASE style = "plain"   -> PlainPut(e, cs, i, request.at, width)
                     [] style = "single"  -> SinglePut(e, cs, i, request.at, width)
                     [] style = "double"  -> DoublePut(e, cs, i, request.at, width, Json(request))
                     [] style = "literal" -> LiteralPut(e, cs, i, indent)
                     [] style = "folded"  -> FoldedPut(e, cs, i, indent, width)
  IN Output(FoldAt(Put, IF IsBlock(style) THEN block ELSE begun, cs))

(* fy_emit_token_write_block_hints                                          *)
(* Mutant: of several breaks at the end one is kept.                        *)
ChompAll(cs) == IF cs = <<>> \/ ~Lb(Last(cs)) THEN "strip" ELSE "clip"
Chomp(cs) ==
  IF cs = <<>> \/ ~Lb(Last(cs)) THEN "strip"
  ELSE IF Len(cs) > 1 /\ Lb(cs[Len(cs) - 1]) THEN "keep" ELSE "clip"
Hint(cs) == IF cs # <<>> /\ Blank(cs[1]) THEN 2 ELSE 0

(* The document, or the collection, that ends after the scalar.             *)
Closed(style, e, request) ==
  LET quote == CASE style = "single" -> <<"'">> [] style = "double" -> <<"\"">> [] OTHER -> <<>>
      line  == IF e.col = 0 /\ quote = <<>> THEN <<>> ELSE <<LF>>
      shut  == IF request.flow THEN <<"]">> ELSE IF request.root /\ Pretty(request) THEN <<".", ".", ".", LF>> ELSE <<>>
  IN e.out \o quote \o line \o shut

SourceIn(request, style, out) ==
  LET cs == request.text
      blank == IF style = "plain" THEN OrElse({k \in DOMAIN out : ~Blank(out[k])}, Len(out) + 1) - 1 ELSE 0
  IN [style |-> style, chars |-> SubSeq(out, blank + 1, Len(out)), indent |-> request.indent,
      col |-> request.col + (IF style = "plain" THEN blank ELSE 1), flow |-> request.flow, root |-> request.root,
      chomp |-> IF IsBlock(style) THEN Chomp(cs) ELSE "clip", increment |-> IF IsBlock(style) THEN Hint(cs) ELSE 0]

SourceAs(request, style) == SourceIn(request, style, Closed(style, Written(style, request), request))
SourceOf(request) == SourceAs(request, WrittenStyle(request))

WriterInit ==
  /\ stage = "write" /\ \E set \in Requests : asked \in set
  /\ source = [chars |-> <<>>] /\ atom = Atom("plain", <<>>) /\ at = 1 /\ text = <<>> /\ token = <<>> /\ order = <<>>

Write ==
  /\ stage = "write"
  /\ source' = SourceOf(asked)
  /\ stage' = "scan"
  /\ UNCHANGED <<asked, atom, at, text, token, order>>

WriterNext == Write \/ (Next /\ UNCHANGED asked)
=============================================================================
