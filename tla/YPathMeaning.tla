---------------------------- MODULE YPathMeaning ----------------------------
(* What an expression of ypath finds in a document, and how it is spelled.   *)
(* An expression is a tuple of its kind and its parts; its meaning is the    *)
(* sequence of the nodes it finds from a node.                               *)
EXTENDS FyNodes

LOCAL Glyph(c, v) == [c |-> c, v |-> v]
CONSTANTS NumberText, SelectWord   \* the methods' words

(***************************************************************************)
(* Spelling                                                                *)
(***************************************************************************)
Sign(chars) == [i \in DOMAIN chars |-> Glyph(chars[i], 0)]
SignOf == [eq |-> <<"=", "=">>, neq |-> <<"!", "=">>, lt |-> <<"<">>, gt |-> <<">">>, lte |-> <<"<", "=">>, gte |-> <<">", "=">>,
           plus |-> <<"+">>, minus |-> <<"-">>, mult |-> <<"*">>, or |-> <<"|", "|">>, and |-> <<"&", "&">>]
FilterSign == [scalar |-> <<"$">>, collection |-> <<"%">>, sequence |-> <<"[", "]">>, mapping |-> <<"{", "}">>]
Joined(parts, sign) == FoldLeft(LAMBDA text, part : IF text = <<>> THEN part ELSE text \o sign \o part, <<>>, parts)

RECURSIVE Spelled(_)
Spelled(e) ==
    LET inParens(f) == Sign(<<"(">>) \o Spelled(f) \o Sign(<<")">>)
        side(f) == IF f[1] \in {"path", "from root"} THEN Spelled(f) ELSE inParens(f)
        all(es) == [i \in DOMAIN es |-> Spelled(es[i])]
        product(f) == IF f[1] \in {"plus", "minus"} THEN inParens(f) ELSE Spelled(f)
    IN  CASE e[1] \in {"key", "text"} -> <<Glyph("name", e[2])>>
          [] e[1] = "quoted" -> <<Glyph("quote", e[2])>>
          [] e[1] \in {"index", "number"} -> <<Glyph("digits", <<e[2]>>)>>
          [] e[1] = "slice" -> <<Glyph("digits", <<e[2]>>), Glyph(":", 0), Glyph("digits", <<e[3]>>)>>
          [] e[1] = "children" -> Sign(<<"*">>)
          [] e[1] = "below" -> Sign(<<"*", "*">>)
          [] e[1] = "this" -> Sign(<<".">>)
          [] e[1] = "up" -> Sign(<<".", ".">>)
          [] e[1] = "either" -> Joined(all(e[2]), Sign(<<",">>))
          [] e[1] = "only" -> Spelled(e[2]) \o Sign(FilterSign[e[3]])
          [] e[1] = "select" -> <<Glyph("name", SelectWord)>> \o inParens(e[2])
          [] e[1] = "where" -> inParens(e[2])
          [] e[1] = "path" -> Joined(all(e[2]), Sign(<<"/">>))
          [] e[1] = "from root" -> Sign(<<"/">>) \o Joined(all(e[2]), Sign(<<"/">>))
          [] e[1] = "compare" -> Spelled(e[3]) \o Sign(SignOf[e[2]]) \o Spelled(e[4])
          [] e[1] \in {"plus", "minus"} -> Spelled(e[2]) \o Sign(SignOf[e[1]]) \o
                                           (IF e[3][1] \in {"plus", "minus"} THEN inParens(e[3]) ELSE Spelled(e[3]))
          [] e[1] = "mult" -> product(e[2]) \o Sign(SignOf[e[1]]) \o product(e[3])
          [] e[1] \in {"or", "and"} -> side(e[2]) \o Sign(SignOf[e[1]]) \o side(e[3])

(***************************************************************************)
(* Meaning                                                                 *)
(***************************************************************************)
LOCAL Sees(d, n) == IF IsAlias(d, n) THEN FollowAlias(d, n) ELSE n
LOCAL Only(ns, test(_)) == SelectSeq(ns, LAMBDA n : n # None /\ test(n))
LOCAL ValuesOf(d, n) == d.node[n].items \o [i \in DOMAIN d.node[n].pairs |-> d.pair[d.node[n].pairs[i]].value]
RECURSIVE Descendants(_, _)
Descendants(d, n) == <<n>> \o FlattenSeq([i \in DOMAIN ValuesOf(d, n) |-> Descendants(d, ValuesOf(d, n)[i])])
LOCAL Part(ns, from, to) == LET last == IF Len(ns) < to THEN Len(ns) ELSE to IN IF from > last THEN <<>> ELSE SubSeq(ns, from, last)
LOCAL Keyed(d, n, text) ==
    LET pairs == SelectSeq(d.node[n].pairs, LAMBDA p : LET k == d.node[d.pair[p].key]
                                                       IN  k.type = "scalar" /\ k.style # "alias" /\ k.text = text)
    IN  [i \in DOMAIN pairs |-> d.pair[pairs[i]].value]

RECURSIVE Amount(_)
Amount(s) == CASE s[1] = "number" -> s[2]
               [] s[1] = "plus" -> Amount(s[2]) + Amount(s[3])
               [] s[1] = "minus" -> Amount(s[2]) - Amount(s[3])
               [] s[1] = "mult" -> Amount(s[2]) * Amount(s[3])
LOCAL Orders(op, a, b) == CASE op = "eq" -> a = b [] op = "neq" -> a # b [] op = "lt" -> a < b [] op = "gt" -> a > b
                            [] op = "lte" -> a <= b [] op = "gte" -> a >= b
(* A text is compared with a scalar's text, and a number with that of a      *)
(* plain scalar; what cannot be compared is not equal.                       *)
Holds(d, n, op, s) ==
    LET node == d.node[n]
    IN  CASE s[1] \in {"text", "quoted"} /\ node.type = "scalar" -> Orders(op, node.text, s[2])
          [] s[1] \notin {"text", "quoted"} /\ node.style = "plain" /\ node.text \in DOMAIN NumberText ->
               Orders(op, NumberText[node.text], Amount(s))
          [] OTHER -> op = "neq"

RECURSIVE Meant(_, _, _)
Meant(d, e, n) ==
    LET at == Sees(d, n)
        is(type) == at # None /\ d.node[at].type = type
        steps(ns, es) == FoldLeft(LAMBDA ms, f : FlattenSeq([i \in DOMAIN ms |-> Meant(d, f, ms[i])]), ns, es)
        kinds == [scalar |-> {"scalar"}, sequence |-> {"sequence"}, mapping |-> {"mapping"}, collection |-> {"sequence", "mapping"}]
        parent == IF d.node[n].keyRoot THEN None ELSE d.node[n].parent
    IN  CASE e[1] \in {"key", "quoted"} -> IF is("mapping") THEN Part(Keyed(d, at, e[2]), 1, 1) ELSE <<>>
          [] e[1] = "index" -> IF is("sequence") THEN Part(d.node[at].items, e[2] + 1, e[2] + 1) ELSE <<>>
          [] e[1] = "slice" -> Part(d.node[n].items, e[2] + 1, e[3])
          [] e[1] = "children" -> IF d.node[n].type = "scalar" THEN <<n>> ELSE ValuesOf(d, n)
          [] e[1] = "below" -> Descendants(d, n)
          [] e[1] = "this" -> Only(<<at>>, LAMBDA m : TRUE)
          [] e[1] = "up" -> Only(<<parent>>, LAMBDA m : TRUE)
          [] e[1] = "either" -> FlattenSeq([i \in DOMAIN e[2] |-> Meant(d, e[2][i], n)])
          [] e[1] = "only" ->
               LET found == Meant(d, e[2], n)
                   seen == IF e[3] = "scalar" THEN found ELSE [i \in DOMAIN found |-> Sees(d, found[i])]
               IN  Only(seen, LAMBDA m : d.node[m].type \in kinds[e[3]])
          [] e[1] = "select" -> IF Meant(d, e[2], n) = <<>> THEN <<>> ELSE <<n>>
          [] e[1] = "where" -> Meant(d, e[2], n)
          [] e[1] = "path" -> steps(<<n>>, e[2])
          [] e[1] = "from root" -> steps(<<d.root>>, e[2])
          [] e[1] = "compare" -> Only(Meant(d, e[3], n), LAMBDA m : Holds(d, m, e[2], e[4]))
          [] e[1] = "or" -> IF Meant(d, e[2], n) # <<>> THEN Meant(d, e[2], n) ELSE Meant(d, e[3], n)
          [] e[1] = "and" -> IF Meant(d, e[2], n) = <<>> \/ Meant(d, e[3], n) = <<>> THEN Meant(d, e[2], n) ELSE Meant(d, e[3], n)
=============================================================================
