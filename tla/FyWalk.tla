------------------------------- MODULE FyWalk -------------------------------
(* How an expression of ypath is executed on a document (fy-walk.c).  A result *)
(* is nothing, a node, a number, a string, or a list of results.              *)
EXTENDS FyLoaders, FyPathExpr

CONSTANTS NumberText,      \* the texts that are numbers: a function to them
          Concat(_, _)     \* the text that two texts are together

ASSUME NumberTextAssumption == Range(NumberText) \subseteq Int

Result(t, v, refs) == [t |-> t, v |-> v, refs |-> refs]
Nothing == Result("nothing", 0, <<>>)
NodeResult(n) == IF n = None THEN Nothing ELSE Result("node", n, <<>>)
Number(n) == Result("number", n, <<>>)
String(text) == Result("string", text, <<>>)
Refs(rs) == Result("refs", 0, rs)
Is(r, t) == r.t = t
Found(rs) == SelectSeq(rs, LAMBDA r : ~Is(r, "nothing"))
NodeResults(ns) == Refs([i \in DOMAIN ns |-> NodeResult(ns[i])])
Infinity == 1000000        \* above every number

(* A list of one is that one, and an empty list is nothing. *)
Simplify(r) == IF ~Is(r, "refs") \/ Len(r.refs) > 1 THEN r ELSE IF r.refs = <<>> THEN Nothing ELSE r.refs[1]
RECURSIVE Leaves(_)
Leaves(r) == IF Is(r, "refs") THEN FlattenSeq([i \in DOMAIN r.refs |-> Leaves(r.refs[i])]) ELSE <<r>>
(* What is no list becomes an empty one. *)
Flatten(r) == IF Is(r, "refs") THEN Refs(Leaves(r)) ELSE Refs(<<>>)
Each(r) == IF Is(r, "refs") THEN r.refs ELSE IF Is(r, "nothing") THEN <<>> ELSE <<r>>

(***************************************************************************)
(* Looking into a node                                                     *)
(***************************************************************************)
IsOf(d, n, type) == n # None /\ d.node[n].type = type
Resolved(d, n) == IF IsAlias(d, n) THEN FollowAlias(d, n) ELSE n
ParentOf(d, n) == IF n = None \/ d.node[n].keyRoot THEN None ELSE d.node[n].parent
ItemAt(d, s, i) ==
    LET items == d.node[s].items
        at == IF i >= 0 THEN i + 1 ELSE Len(items) + i + 1
    IN  IF at \in DOMAIN items THEN items[at] ELSE None
Values(d, n) == d.node[n].items \o [i \in DOMAIN d.node[n].pairs |-> d.pair[d.node[n].pairs[i]].value]
Keys(d, m) == {d.pair[d.node[m].pairs[i]].key : i \in DOMAIN d.node[m].pairs}
FirstPair(d, m, keys) ==
    LET found == {i \in DOMAIN d.node[m].pairs : d.pair[d.node[m].pairs[i]].key \in keys}
    IN  IF found = {} THEN None ELSE d.node[m].pairs[CHOOSE i \in found : \A j \in found : i <= j]
PairOfText(d, m, text) ==
    FirstPair(d, m, {k \in Keys(d, m) : IsOf(d, k, "scalar") /\ ~IsAlias(d, k) /\ d.node[k].text = text})
NullKeyPair(d, m) == FirstPair(d, m, {k \in Keys(d, m) : IsNull(d, k)})
KeyOf(d, p) == IF p = None THEN None ELSE d.pair[p].key
ValueAt(d, p) == IF p = None THEN None ELSE d.pair[p].value

(* A key that is written as a flow collection is a document of its own. *)
RECURSIVE Tour(_)
Tour(t) ==
    LET start(type) == <<Event(type, t.anchor, t.style, t.text, 0)>>
        end(type) == <<Event(type, None, "any", NoText, 0)>>
        all(es, u) == es \o Tour(u)
    IN  CASE t.kind = "scalar" -> start("SCALAR")
          [] t.kind = "alias" -> start("ALIAS")
          [] t.kind = "sequence" -> FoldLeft(all, start("SEQUENCE-START"), t.kids) \o end("SEQUENCE-END")
          [] t.kind = "mapping" -> FoldLeft(LAMBDA es, kv : es \o Tour(kv[1]) \o Tour(kv[2]),
                                            start("MAPPING-START"), t.kids) \o end("MAPPING-END")
PairOfBuilt(b, m) == LookupPair(b.d, m, b.d.root)
PairOfTree(d, m, t) == PairOfBuilt(FoldLeft(ProcessEvent, [SetInDocument(TRUE) EXCEPT !.d = d], Tour(t)), m)
PairOf(d, m, key) == IF key[1] = "flow" THEN PairOfTree(d, m, key[2]) ELSE PairOfText(d, m, key[2])

RECURSIVE AllBelow(_, _)
AllBelow(d, n) ==
    IF n = None THEN <<>>
    ELSE <<n>> \o (IF d.node[n].type = "scalar" THEN <<>>
                   ELSE FlattenSeq([i \in DOMAIN Values(d, n) |-> AllBelow(d, Values(d, n)[i])]))

(* The expressions that take a node to a node. *)
SingleResults == {"root", "this", "parent", "map_key", "seq_index", "alias"} \cup (Filters \ {"filter_unique"})
SingleResult(d, e, n) ==
    LET at == Resolved(d, n)
    IN  CASE e.type = "root" -> d.root
          [] e.type = "this" -> at
          [] e.type = "parent" -> ParentOf(d, n)
          [] e.type = "alias" -> LookupLast(d, e.v, 0)
          [] e.type = "seq_index" -> IF IsOf(d, at, "sequence") THEN ItemAt(d, at, e.v) ELSE None
          [] e.type = "map_key" -> IF IsOf(d, at, "mapping") THEN ValueAt(d, PairOf(d, at, e.v)) ELSE None
          [] e.type = "filter_scalar" -> IF IsOf(d, n, "scalar") THEN n ELSE None
          [] e.type = "filter_collection" -> IF IsOf(d, at, "sequence") \/ IsOf(d, at, "mapping") THEN at ELSE None
          [] e.type = "filter_sequence" -> IF IsOf(d, at, "sequence") THEN at ELSE None
          [] e.type = "filter_mapping" -> IF IsOf(d, at, "mapping") THEN at ELSE None

(***************************************************************************)
(* Comparisons and arithmetic                                              *)
(***************************************************************************)
Compares(type, l, r) == CASE type = "eq" -> l = r
                          [] type = "neq" -> l # r
                          [] type = "lt" -> l < r
                          [] type = "gt" -> l > r
                          [] type = "lte" -> l <= r
                          [] type = "gte" -> l >= r
(* How a comparison is turned round when only the right side is a node: it  *)
(* is negated, too.                                                           *)
Swapped(type) == CASE type = "lt" -> "gte" [] type = "gt" -> "lte" [] type = "lte" -> "gt" [] type = "gte" -> "lt"
                   [] OTHER -> type
IsPlainNumber(d, n) == d.node[n].style = "plain" /\ d.node[n].text \in DOMAIN NumberText
CompareNode(d, type, n, r) ==
    IF ~IsOf(d, n, "scalar") THEN type = "neq"
    ELSE IF Is(r, "string") THEN Compares(type, d.node[n].text, r.v)
    ELSE IF IsPlainNumber(d, n) THEN Compares(type, NumberText[d.node[n].text], r.v) ELSE type = "neq"
CompareSimple(d, type, l, r) ==
    CASE Is(l, "nothing") /\ Is(r, "nothing") -> type = "eq"
      [] Is(l, "nothing") # Is(r, "nothing") -> type = "neq"
      [] Is(l, "node") /\ Is(r, "node") ->
           (type = "eq" /\ Compare(d, l.v, r.v)) \/ (type = "neq" /\ (l.v # r.v \/ ~Compare(d, l.v, r.v)))
      [] l.t = r.t /\ l.t \in {"number", "string"} -> Compares(type, l.v, r.v)
      [] Is(l, "node") /\ r.t \in {"number", "string"} -> CompareNode(d, type, l.v, r)
      [] Is(r, "node") /\ l.t \in {"number", "string"} -> CompareNode(d, Swapped(type), r.v, l)
      [] OTHER -> FALSE

(* A quotient is taken where it is a whole number. *)
Quotient(l, r) == IF r = 0 THEN Infinity ELSE IF (l < 0) = (r < 0) THEN (IF l < 0 THEN (-l) \div (-r) ELSE l \div r)
                  ELSE -((IF l < 0 THEN -l ELSE l) \div (IF r < 0 THEN -r ELSE r))
ArithmeticSimple(type, l, r) ==
    CASE Is(l, "string") /\ Is(r, "string") /\ type = "plus" -> String(Concat(l.v, r.v))
      [] Is(l, "number") /\ Is(r, "number") ->
           Number(CASE type = "plus" -> l.v + r.v [] type = "minus" -> l.v - r.v
                    [] type = "mult" -> l.v * r.v [] type = "div" -> Quotient(l.v, r.v))
      [] OTHER -> Nothing
Simple(d, type, l, r) ==
    IF type \in Arithmetic THEN ArithmeticSimple(type, l, r)
    ELSE IF CompareSimple(d, type, l, r) THEN l ELSE Nothing
(* Every result of the left side with every one of the right side. *)
RECURSIVE BothSides(_, _, _, _)
BothSides(d, type, l, r) ==
    LET with(a) == IF Is(a, "refs") THEN <<BothSides(d, type, a, r)>>
                   ELSE [j \in DOMAIN Each(r) |-> IF Is(Each(r)[j], "refs") THEN BothSides(d, type, a, Each(r)[j])
                                                  ELSE Simple(d, type, a, Each(r)[j])]
    IN  IF Is(l, "nothing") \/ Is(r, "nothing") THEN IF type = "neq" THEN Simplify(l) ELSE Nothing
        ELSE Simplify(Refs(Found(FlattenSeq([i \in DOMAIN Each(l) |-> with(Each(l)[i])]))))

(***************************************************************************)
(* Methods.  The arguments were executed on the whole input.                 *)
(***************************************************************************)
RefMethod(d, method, n, args) ==
    LET at == IF method \in {"root", "parent"} THEN n ELSE Resolved(d, n)
    IN  CASE method = "root" -> d.root
          [] method = "parent" -> ParentOf(d, at)
          [] method = "this" -> at
          [] method = "key" -> IF IsOf(d, at, "mapping") THEN KeyOf(d, PairOfText(d, at, args[1].v)) ELSE None
          [] method = "value" -> IF IsOf(d, at, "mapping") THEN ValueAt(d, PairOfText(d, at, args[1].v)) ELSE None
          [] method = "index" -> IF IsOf(d, at, "sequence") THEN ItemAt(d, at, args[1].v) ELSE None
          [] method = "null" -> IF IsOf(d, at, "mapping") THEN ValueAt(d, NullKeyPair(d, at)) ELSE None
BuiltinRef(d, method, input, args) ==
    LET nodes == SelectSeq(Each(input), LAMBDA r : Is(r, "node"))
        wanted == CASE method \in {"key", "value"} -> "string" [] method = "index" -> "number" [] OTHER -> "any"
    IN  IF wanted # "any" /\ ~Is(args[1], wanted) THEN Nothing
        ELSE Simplify(Refs(Found([i \in DOMAIN nodes |-> NodeResult(RefMethod(d, method, nodes[i].v, args))])))
(* "any" has its input as its result whatever it finds. *)
BuiltinCollection(method, input, args, matching) ==
    IF Is(args[1], "nothing") \/ input.t \notin {"node", "refs"} THEN Nothing
    ELSE CASE method = "select" -> Simplify(Refs(Found([i \in DOMAIN Each(input) |->
                  IF i \in matching /\ Is(Each(input)[i], "node") THEN Each(input)[i] ELSE Nothing])))
           [] method = "all" -> IF DOMAIN Each(input) \subseteq matching THEN Simplify(input) ELSE Nothing
           [] method = "any" -> Simplify(input)
BuiltinNumber(method, args) ==
    IF \E i \in DOMAIN args : ~Is(args[i], "number") THEN Nothing
    ELSE Number(IF method = "test" THEN args[1].v + 1 ELSE args[1].v + args[2].v)

(***************************************************************************)
(* Execution.  parent: the type of the expression that this one is below.    *)
(***************************************************************************)
(* What a scalar expression comes to, as the step of a path or as a scalar.  *)
AsExpr(r, parent) ==
    LET steps == parent \in {"chain", "multi"}
    IN  IF Is(r, "string") THEN Expr(IF steps THEN "map_key" ELSE "scalar", 0, <<"name", r.v>>, <<>>)
        ELSE Expr(IF steps THEN "seq_index" ELSE "scalar", 0, IF steps THEN r.v ELSE <<"number", r.v>>, <<>>)
(* A word that is a number is one unless it is quoted. *)
ScalarResult(v) == IF v[1] = "number" THEN Number(v[2])
                   ELSE IF v[1] = "name" /\ v[2] \in DOMAIN NumberText THEN Number(NumberText[v[2]]) ELSE String(v[2])
Slice(d, n, from, to) ==
    IF ~IsOf(d, n, "sequence") \/ from < 0 \/ to < 1 \/ from >= to THEN <<>>
    ELSE SubSeq(d.node[n].items, from + 1, IF Len(d.node[n].items) < to THEN Len(d.node[n].items) ELSE to)
Distinct(d, rs) ==
    FoldLeft(LAMBDA kept, r : IF \E i \in DOMAIN kept : CompareSimple(d, "eq", kept[i], r) THEN kept ELSE Append(kept, r),
             <<>>, rs)

EveryChild(d, input) ==
    IF ~Is(input, "node") THEN Nothing
    ELSE IF IsOf(d, input.v, "scalar") THEN input ELSE NodeResults(Values(d, input.v))
EveryChildBelow(d, input) == IF Is(input, "node") THEN NodeResults(AllBelow(d, input.v)) ELSE Nothing
(* "||" is the first alternative that finds something; "&&" the last one, but *)
(* goes no further than to the first that finds nothing.                      *)
FirstFinding(runs) ==
    LET finding == {i \in DOMAIN runs : ~Is(runs[i], "nothing")}
    IN  IF finding = {} THEN Nothing ELSE runs[CHOOSE i \in finding : \A j \in finding : i <= j]
LastFinding(runs) ==
    LET row == {i \in DOMAIN runs : \A j \in 1 .. i : ~Is(runs[j], "nothing")}
    IN  IF row = {} THEN Nothing ELSE runs[Last1(row)]
RECURSIVE Execute(_, _, _, _)
Multi(d, e, input) == Refs(Found([i \in DOMAIN e.kids |-> Execute(d, e.kids[i], input, e.type)]))
Chain(d, e, input) ==
    FoldLeft(LAMBDA r, k : IF Is(r, "nothing") THEN r ELSE Execute(d, k, r, e.type), input, e.kids)
Method(d, e, input, args) ==
    LET method == MethodOf[e.v]
        matching == {i \in DOMAIN Each(input) : ~Is(Execute(d, e.kids[1], Each(input)[i], e.type), "nothing")}
    IN  IF method \in {"test", "sum"} THEN BuiltinNumber(method, args)
        ELSE IF Is(input, "nothing") THEN Nothing
        ELSE IF method \in {"any", "all", "select"}
        THEN BuiltinCollection(method, input, args, matching)
        ELSE BuiltinRef(d, method, input, args)

(* An expression in parentheses is executed on nothing; what it comes to is  *)
(* executed as an expression.                                                 *)
ExecuteScalar(d, e, input, parent) ==
    LET value == Execute(d, e.kids[1], Nothing, parent)
    IN  IF value.t \in {"string", "number"} THEN Execute(d, AsExpr(value, parent), input, parent) ELSE Nothing
Execute(d, e, input, parent) ==
    LET runs == [i \in DOMAIN e.kids |-> Execute(d, e.kids[i], input, e.type)]
        each == [i \in DOMAIN input.refs |-> Execute(d, e, input.refs[i], parent)]
    IN  IF Is(input, "refs") /\ e.type \notin {"filter_unique", "method"} THEN Simplify(Refs(Found(each)))
        ELSE Simplify(
          CASE e.type \in SingleResults -> IF Is(input, "node") THEN NodeResult(SingleResult(d, e, input.v)) ELSE Nothing
            [] e.type = "chain" -> Chain(d, e, input)
            [] e.type = "multi" -> IF Is(input, "nothing") THEN Nothing ELSE Multi(d, e, input)
            [] e.type = "every_child" -> EveryChild(d, input)
            [] e.type = "every_child_r" -> EveryChildBelow(d, input)
            [] e.type = "seq_slice" -> IF Is(input, "node") THEN NodeResults(Slice(d, input.v, e.v[1], e.v[2])) ELSE Nothing
            [] e.type \in Comparisons \cup Arithmetic -> BothSides(d, e.type, runs[1], runs[2])
            [] e.type = "scalar" -> ScalarResult(e.v)
            [] e.type = "or" -> FirstFinding(runs)
            [] e.type = "and" -> LastFinding(runs)
            [] e.type = "filter_unique" -> Refs(Distinct(d, Flatten(input).refs))
            [] e.type = "scalar_expr" -> ExecuteScalar(d, e, input, parent)
            [] e.type = "path_expr" -> Execute(d, e.kids[1], input, parent)
            [] e.type = "method" -> Method(d, e, input, runs))

(* The nodes of what was found, in its order. *)
\* Mutant: numbers and strings are taken for nodes.
ResultsOfAll(d, e, n) ==
    LET found == Leaves(Execute(d, e, NodeResult(n), "none")) IN [i \in DOMAIN found |-> found[i].v]
Results(d, e, n) ==
    LET found == SelectSeq(Leaves(Execute(d, e, NodeResult(n), "none")), LAMBDA r : Is(r, "node"))
    IN  [i \in DOMAIN found |-> found[i].v]
=============================================================================
