----------------------------- MODULE FyPathExpr -----------------------------
(* The expressions of ypath (fy-walk.c): how a text is cut into tokens and    *)
(* the tokens made into a tree, by an operator precedence parser that has two *)
(* modes.  In path mode "/" goes down a level and a name is a key, in scalar  *)
(* mode "/" divides and a name is a string; parentheses, comparisons and the  *)
(* characters themselves switch between the two.                              *)
(* A text is a sequence of glyphs: a punctuation character, a word, a number, *)
(* a quoted string or a key written as a flow collection.  Words are numbers  *)
(* in the order of their bytes, and a number is its digits.                   *)
EXTENDS Integers, Sequences, SequencesExt, FiniteSets, Bitwise

CONSTANTS MethodOf    \* the methods' words: a function to their names

ASSUME MethodOfAssumption ==
  Range(MethodOf) \subseteq {"test", "sum", "this", "parent", "root", "any", "all", "select", "key", "value", "index", "null"}

Glyph(c, v) == [c |-> c, v |-> v]
End == Glyph("end", 0)
At(text, i) == IF i \in DOMAIN text THEN text[i] ELSE End

(***************************************************************************)
(* Tokens                                                                  *)
(***************************************************************************)
Token(type, at, v) == [type |-> type, at |-> at, v |-> v]

Common == (<<",">> :> "comma") @@ (<<"|", "|">> :> "or") @@ (<<"&", "&">> :> "and") @@ (<<"(">> :> "lparen")
       @@ (<<")">> :> "rparen") @@ (<<"=", "=">> :> "eq") @@ (<<"!", "=">> :> "neq") @@ (<<">">> :> "gt")
       @@ (<<">", "=">> :> "gte") @@ (<<"<">> :> "lt") @@ (<<"<", "=">> :> "lte")
PathSigns == (<<"/">> :> "chain") @@ (<<"^">> :> "root") @@ (<<":">> :> "sibling") @@ (<<"$">> :> "filter_scalar")
          @@ (<<"%">> :> "filter_collection") @@ (<<"[", "]">> :> "filter_sequence") @@ (<<"{", "}">> :> "filter_mapping")
          @@ (<<".">> :> "this") @@ (<<".", ".">> :> "parent") @@ (<<".", "name">> :> "method")
          @@ (<<"*">> :> "every_child") @@ (<<"*", "*">> :> "every_child_r") @@ (<<"*", "name">> :> "alias")
          @@ (<<"!">> :> "filter_unique")
ScalarSigns == (<<"+">> :> "plus") @@ (<<"-">> :> "minus") @@ (<<"*">> :> "mult") @@ (<<"/">> :> "div")
ModeSigns(mode) == IF mode = "path" THEN PathSigns ELSE ScalarSigns

(* The longest sign that is at a place of the text. *)
SignsAt(table, text, i) == {s \in DOMAIN table : \A k \in DOMAIN s : At(text, i + k - 1).c = s[k]}
Longest(S) == CHOOSE s \in S : \A r \in S : Len(r) <= Len(s)

Comparisons == {"eq", "neq", "lt", "gt", "lte", "gte"}
Arithmetic == {"plus", "minus", "mult", "div"}
CanBePathExpr(type) == type \in {"lparen", "rparen", "method"} \cup Comparisons
CanBeBeforeNegative(type) == type \in {"lparen", "rparen", "se_method"} \cup Comparisons \cup Arithmetic

(* The digits as an index: the code puts them together with "or". *)
IndexOf(digits) == FoldLeft(LAMBDA n, d : (n * 10) | d, 0, digits)
NumberOf(digits) == FoldLeft(LAMBDA n, d : n * 10 + d, 0, digits)
(* A number at a place of the text, with or without a minus. *)
NumberAt(text, i) == At(text, i).c = "digits" \/ (At(text, i).c = "-" /\ At(text, i + 1).c = "digits")
SignedAt(text, i, value(_)) ==
    IF At(text, i).c = "-" THEN [v |-> -value(text[i + 1].v), next |-> i + 2] ELSE [v |-> value(text[i].v), next |-> i + 1]
BadNumber(text, i) ==
    LET digits == IF At(text, i).c = "-" THEN text[i + 1].v ELSE text[i].v
    IN  IndexOf(digits) = 0 /\ Len(digits) # 1

(* A parser between two tokens; of a token that could not be read "err" tells. *)
NewPathParser(mode, text) ==
    [text |-> text, pos |-> 1, mode |-> mode, last |-> "start", queue |-> <<>>,
     operators |-> <<>>, operands |-> <<>>, paren |-> 0, err |-> ""]
PathFails(p) == [p EXCEPT !.err = "error"]
(* An operator that was looked at is freed by the evaluation that fails, and *)
(* once more by the one around it; a look at an operator that is not there.   *)
PathCrashes(p) == [p EXCEPT !.err = "crash"]
Queued(p, type, v, next) ==
    [p EXCEPT !.queue = Append(@, Token(type, p.pos, v)), !.last = type, !.pos = next]

FetchIndexOrSlice(p) ==
    LET first == SignedAt(p.text, p.pos, IndexOf)
        another(i) == At(p.text, i).c = ":" /\ NumberAt(p.text, i + 1)
        second == SignedAt(p.text, first.next + 1, IndexOf)
    IN  IF BadNumber(p.text, p.pos) \/ (another(first.next) /\ BadNumber(p.text, first.next + 1)) THEN PathFails(p)
        ELSE IF another(first.next)
        THEN Queued(p, "seq_slice", <<first.v, second.v>>, IF another(second.next) THEN second.next + 1 ELSE second.next)
        ELSE Queued(p, "seq_index", first.v, first.next)
(* A name ahead of "(" is a method; in path mode it is a key else, and a     *)
(* string in scalar mode.                                                     *)
FetchWord(p) ==
    LET g == p.text[p.pos]
    IN  IF g.c = "name" /\ At(p.text, p.pos + 1).c = "("
        THEN [Queued(p, "method", g.v, p.pos + 1) EXCEPT !.last = IF p.mode = "path" THEN "method" ELSE "se_method"]
        ELSE IF p.mode = "path" THEN Queued(p, "map_key", <<g.c, g.v>>, p.pos + 1)
        ELSE Queued(p, "scalar", <<g.c, g.v>>, p.pos + 1)
FetchNumber(p) ==
    LET n == SignedAt(p.text, p.pos, NumberOf) IN Queued(p, "scalar", <<"number", n.v>>, n.next)
(* A sign is the token of its own place, but a method behind a dot that of   *)
(* its name, and a sign of two glyphs ends in the word it is about.           *)
FetchSign(p, table) ==
    LET s == Longest(SignsAt(table, p.text, p.pos))
        to == p.pos + Len(s)
        q == Queued(p, table[s], IF Last(s) = "name" THEN p.text[to - 1].v ELSE 0, to)
    IN  IF table[s] = "method" THEN [q EXCEPT !.queue[Len(q.queue)].at = to - 1] ELSE q

(* In scalar mode a few beginnings are those of a path. *)
BeginsPath(p) ==
    /\ p.mode = "scalar" /\ CanBePathExpr(p.last)
    /\ \/ At(p.text, p.pos).c = "/"
       \/ At(p.text, p.pos).c = "." /\ At(p.text, p.pos + 1).c \in {"/", ")", ">", "<", "!", "="}
FetchTokens(p) ==
    LET c == At(p.text, p.pos).c
        q == IF BeginsPath(p) THEN [p EXCEPT !.mode = "path"] ELSE p
        negative == c = "-" /\ NumberAt(p.text, p.pos)
    IN  IF c = "end" THEN Queued(p, "end", 0, p.pos)
        ELSE IF SignsAt(Common, p.text, p.pos) # {} THEN FetchSign(p, Common)
        ELSE IF /\ SignsAt(ModeSigns(q.mode), q.text, q.pos) # {}
                /\ ~(q.mode = "scalar" /\ negative /\ CanBeBeforeNegative(q.last))
        THEN FetchSign(q, ModeSigns(q.mode))
        ELSE IF c \in {"name", "quote"} \/ (c = "flow" /\ q.mode = "path") THEN FetchWord(q)
        ELSE IF c = "digits" \/ negative THEN IF q.mode = "path" THEN FetchIndexOrSlice(q) ELSE FetchNumber(q)
        ELSE PathFails(q)
Peeked(p) == IF p.queue = <<>> /\ p.err = "" THEN FetchTokens(p) ELSE p

(***************************************************************************)
(* Expressions                                                             *)
(***************************************************************************)
Expr(type, at, v, kids) == [type |-> type, at |-> at, v |-> v, kids |-> kids]
Filters == {"filter_collection", "filter_scalar", "filter_sequence", "filter_mapping", "filter_unique"}
Operands == {"root", "this", "parent", "map_key", "seq_index", "seq_slice", "every_child", "every_child_r", "alias", "scalar"}
Mergeable == {"multi", "chain", "or", "and"}
(* A comma is another path in path mode and another argument in scalar mode; *)
(* ":" is of the type of ".." although it is no operand.                      *)
TypeOf(token, mode) == CASE token.type = "comma" -> IF mode = "path" THEN "multi" ELSE "arg_separator"
                         [] token.type = "sibling" -> "parent"
                         [] OTHER -> token.type
Precedence(type) == CASE type \in Filters -> 5
                      [] type \in {"or", "and"} -> 4
                      [] type = "multi" -> 11
                      [] type \in Comparisons -> 7
                      [] type \in {"mult", "div"} -> 9
                      [] type \in {"plus", "minus"} -> 8
                      [] type = "chain" -> 10
                      [] type \in {"lparen", "rparen", "method"} -> 1000
                      [] type = "arg_separator" -> 1
                      [] OTHER -> -1
ArgumentsOf(method) == CASE method = "sum" -> 2
                         [] method \in {"this", "parent", "root", "null"} -> 0
                         [] OTHER -> 1

PushOperand(p, e) == [p EXCEPT !.operands = Append(@, e)]
PushOperator(p, e) == [p EXCEPT !.operators = Append(@, e)]
Kin(type, e) == IF e.type = type /\ type \in Mergeable THEN e.kids ELSE <<e>>
PushPair(p, type, l, r) == PushOperand(p, Expr(type, l.at, 0, Kin(type, l) \o Kin(type, r)))
(* The operands from a place on are the last ones: how many stay before it. *)
Behind(p, place) ==
    CHOOSE i \in 0 .. Len(p.operands) : /\ \A j \in i + 1 .. Len(p.operands) : p.operands[j].at >= place
                                        /\ i = 0 \/ p.operands[i].at < place

(* "/" with one operand only is at the end of a path; with one behind it, it *)
(* begins a path if there is none before it, or one of an operator before it. *)
\* Mutant: an operand that is there is the one to go down from.
EvaluateChainNoRoot(p, slash) ==
    LET r == Last(p.operands)
        rest == [p EXCEPT !.operands = Front(@)]
    IN  IF p.operands = <<>> THEN PushOperand(p, [slash EXCEPT !.type = "root"])
        ELSE IF rest.operands = <<>> THEN PushPair(rest, "chain", Expr("root", slash.at, 0, <<>>), r)
        ELSE PushPair([rest EXCEPT !.operands = Front(@)], "chain", Last(rest.operands), r)
EvaluateChain(p, slash) ==
    LET r == Last(p.operands)
        rest == [p EXCEPT !.operands = Front(@)]
        starts == /\ slash.at < r.at
                  /\ \/ rest.operands = <<>>
                     \/ p.operators # <<>> /\ Last(rest.operands).at <= Last(p.operators).at
    IN  IF p.operands = <<>> THEN PushOperand(p, [slash EXCEPT !.type = "root"])
        ELSE IF starts THEN PushPair(rest, "chain", Expr("root", slash.at, 0, <<>>), r)
        ELSE IF rest.operands = <<>> THEN PushPair(rest, "chain", r, Expr("filter_collection", slash.at, 0, <<>>))
        ELSE PushPair([rest EXCEPT !.operands = Front(@)], "chain", Last(rest.operands), r)
EvaluateBinary(p, e) ==
    LET n == Len(p.operands)
    IN  IF n < 2 THEN PathFails(p)
        ELSE PushPair([p EXCEPT !.operands = SubSeq(@, 1, n - 2)], e.type, p.operands[n - 1], p.operands[n])
EvaluateFilter(p, e) ==
    IF p.operands = <<>> THEN PathFails(p)
    ELSE PushPair([p EXCEPT !.operands = Front(@)], "chain", Last(p.operands), e)
EvaluateMethod(p, m) ==
    LET keep == Behind(p, m.at + 1)
        args == SubSeq(p.operands, keep + 1, Len(p.operands))
    IN  IF m.v \notin DOMAIN MethodOf \/ Len(args) # ArgumentsOf(MethodOf[m.v]) THEN PathFails(p)
        ELSE PushOperand([p EXCEPT !.operands = SubSeq(@, 1, keep)], [m EXCEPT !.kids = args])

(* The pair of parentheses is done.  An operand that is one already is       *)
(* taken for it, of a method it has the arguments, and else it becomes an    *)
(* expression of its own and the mode is again the one before it.             *)
CloseParens(p) ==
    LET l == Last(p.operators)
        q == [p EXCEPT !.operators = Front(@)]
        type == IF l.v = "scalar" THEN "scalar_expr" ELSE "path_expr"
        keep == Behind([q EXCEPT !.operands = Front(@)], l.at)
    IN  IF p.operands # <<>> /\ Last(p.operands).type = type THEN [q EXCEPT !.operands[Len(q.operands)].at = l.at]
        ELSE IF q.operators # <<>> /\ Last(q.operators).type = "method"
        THEN EvaluateMethod([q EXCEPT !.operators = Front(@)], Last(q.operators))
        ELSE IF p.operands = <<>> THEN PathFails(q)
        ELSE PushOperand([q EXCEPT !.operands = SubSeq(@, 1, keep), !.mode = l.v],
                         Expr(type, l.at, 0, <<Last(p.operands)>>))

Within1(p) == IF p.err # "" THEN PathCrashes(p) ELSE p
CloseWithin(p) ==
    IF p.err # "" THEN PathCrashes(p) ELSE IF p.operators = <<>> THEN PathFails(p) ELSE CloseParens(p)

AtParen(p) == p.operators # <<>> /\ Last(p.operators).type = "lparen"
RECURSIVE EvaluateNew(_), EvaluateDown(_, _)
(* The operators on top that bind at least as much, down to a parenthesis. *)
EvaluateDown(p, least) ==
    IF p.err = "" /\ p.operators # <<>> /\ ~AtParen(p) /\ least <= Precedence(Last(p.operators).type)
    THEN EvaluateDown(EvaluateNew(p), least) ELSE p
EvaluateNew(p) ==
    LET e == Last(p.operators)
        q == [p EXCEPT !.operators = Front(@)]
    IN  IF p.operators = <<>> THEN PathFails(p)
        ELSE CASE e.type = "chain" -> EvaluateChain(q, e)
               [] e.type \in {"multi", "or", "and"} \cup Comparisons \cup Arithmetic -> EvaluateBinary(q, e)
               [] e.type \in Filters -> EvaluateFilter(q, e)
               [] e.type = "arg_separator" ->
                    IF q.operators = <<>> THEN PathCrashes(q) ELSE IF AtParen(q) THEN q ELSE Within1(EvaluateNew(q))
               [] e.type = "rparen" -> CloseWithin(EvaluateDown(q, -1))
               [] e.type = "method" -> EvaluateMethod(q, e)
               [] OTHER -> PathFails(q)

(* An operator ends those before it that bind as much as it does.  In path   *)
(* mode a comparison switches to scalar mode; in scalar mode "/" outside of  *)
(* parentheses is that of a path.                                             *)
Pushed(p, e) == IF p.err # "" THEN p ELSE PushOperator(p, e)
TakeOperator(p, e) ==
    LET compares == p.mode = "path" /\ e.type \in Comparisons
        goesDown == p.mode = "scalar" /\ e.type = "div" /\ p.paren = 0
        f == IF goesDown THEN [e EXCEPT !.type = "chain"] ELSE e
        q == IF compares THEN [p EXCEPT !.mode = "scalar"]
             ELSE IF goesDown THEN EvaluateNew([p EXCEPT !.mode = "path"]) ELSE p
    IN  Pushed(EvaluateDown(q, Precedence(f.type)), f)
(* What "/" is depends on what is behind it. *)
TakeSlash(ahead, e) ==
    LET ends == Head(ahead.queue).type \in {"end", "rparen"}
    IN  IF ahead.err # "" THEN ahead
        ELSE IF ends /\ ahead.operands = <<>> THEN PushOperand(ahead, [e EXCEPT !.type = "root"])
        ELSE TakeOperator(ahead, IF ends THEN [e EXCEPT !.type = "filter_collection"] ELSE e)
TakeToken(p) ==
    LET token == Head(p.queue)
        q == [p EXCEPT !.queue = Tail(@)]
        e == Expr(TypeOf(token, p.mode), token.at, token.v, <<>>)
    IN  IF token.type \in Operands THEN PushOperand(q, e)
        ELSE IF token.type = "chain" THEN TakeSlash(Peeked(q), e)
        ELSE IF token.type = "rparen"
        THEN IF q.paren = 0 THEN PathFails(q) ELSE EvaluateNew(PushOperator([q EXCEPT !.paren = @ - 1], e))
        ELSE IF token.type = "lparen"
        THEN PushOperator([q EXCEPT !.mode = "scalar", !.paren = @ + 1], [e EXCEPT !.v = q.mode])
        ELSE TakeOperator(q, e)
RECURSIVE TakeTokens(_)
TakeTokens(p) ==
    IF p.err # "" \/ Head(p.queue).type = "end" THEN p ELSE TakeTokens(Peeked(TakeToken(p)))

(* Only the first of a path's steps is an alias. *)
RECURSIVE AliasesFirst(_)
AliasesFirst(e) == \A i \in DOMAIN e.kids : AliasesFirst(e.kids[i]) /\ (i > 1 => e.kids[i].type # "alias")

(* fy_path_parse_expression: how it ended, the expression, and the mode the  *)
(* parser is in then, which a reset leaves as it is.  The message that no     *)
(* operand is left asks for the place in a text that is closed already.       *)
Parsed(p) ==
    LET good == p.err = "" /\ Len(p.operands) = 1 /\ AliasesFirst(p.operands[1])
        bad == IF p.err # "" THEN p.err ELSE IF p.operands = <<>> THEN "crash" ELSE "error"
    IN  [end |-> IF good THEN "ok" ELSE bad,
         e |-> IF good THEN p.operands[1] ELSE Expr("none", 0, 0, <<>>), mode |-> p.mode]
ParseExpression(mode, text) == Parsed(EvaluateDown(TakeTokens(Peeked(NewPathParser(mode, text))), -1))
=============================================================================
