------------------------------ MODULE FyPaths ------------------------------
(* Paths into a document (fy-doc.c): the path of a node, absolute, relative  *)
(* to another one or as a reference to an anchor, and the look-up by a path, *)
(* by a JSON pointer or by an expression of ypath.  A document has one       *)
(* parser of expressions for all its look-ups.                               *)
EXTENDS FyWalk

CONSTANTS Names,         \* the anchors' names
          KeyWord, SelectWord,   \* the words "key" and "select"
          Documents,     \* the documents, trees as of YamlMeaning
          Expressions,   \* those of YPathMeaning that are asked
          Routes         \* the steps that are followed through aliases

ASSUME NamesAssumption == Names \subseteq Nat \ {0}

VARIABLES written,    \* the document as it is written
          document,
          mode,       \* of the document's parser of expressions
          question,   \* the last look-up: what was asked, of which node, in which mode of the parser
          answer      \* the nodes it found
vars == <<written, document, mode, question, answer>>

Yaml == INSTANCE YamlMeaning
YPath == INSTANCE YPathMeaning
Load(t) == FoldLeft(ProcessEvent, SetInDocument(TRUE),
                    [i \in DOMAIN Tour(t) |-> [Tour(t)[i] EXCEPT !.at = i]]).d

(***************************************************************************)
(* The path of a node.  A step is a word, a number, a quoted text or a flow  *)
(* collection; the step to the key of a pair says so.                        *)
(***************************************************************************)
RECURSIVE TreeOf(_, _)
TreeOf(d, n) ==
    LET node == d.node[n]
        tree(kids) == [kind |-> IF IsAlias(d, n) THEN "alias" ELSE node.type, anchor |-> None, style |-> node.style,
                       text |-> node.text, kids |-> kids]
    IN  IF node.type = "mapping"
        THEN tree([i \in DOMAIN node.pairs |-> <<TreeOf(d, d.pair[node.pairs[i]].key), TreeOf(d, d.pair[node.pairs[i]].value)>>])
        ELSE tree([i \in DOMAIN node.items |-> TreeOf(d, node.items[i])])
(* A text that would be read as a number is written in quotes. *)
KeyStep(d, k) ==
    IF d.node[k].type = "scalar" /\ ~IsAlias(d, k)
    THEN <<IF d.node[k].text \in DOMAIN NumberText THEN "quote" ELSE "name", d.node[k].text>>
    ELSE <<"flow", TreeOf(d, k)>>
\* Mutant: nothing says that the path goes to the key.
AddressOfValue(d, n) ==
    LET parent == d.node[n].parent
        item == {i \in DOMAIN d.node[parent].items : d.node[parent].items[i] = n}
        pair == {p \in Range(d.node[parent].pairs) : n \in {d.pair[p].key, d.pair[p].value}}
    IN  IF d.node[parent].type = "sequence" THEN <<"digits", <<(CHOOSE i \in item : TRUE) - 1>>>>
        ELSE KeyStep(d, d.pair[CHOOSE p \in pair : TRUE].key)
AddressIn(d, n) ==
    LET parent == d.node[n].parent
        item == {i \in DOMAIN d.node[parent].items : d.node[parent].items[i] = n}
        pair == {p \in Range(d.node[parent].pairs) : n = IF d.node[n].keyRoot THEN d.pair[p].key ELSE d.pair[p].value}
        key == KeyStep(d, d.pair[CHOOSE p \in pair : TRUE].key)
    IN  IF d.node[parent].type = "sequence" THEN <<"digits", <<(CHOOSE i \in item : TRUE) - 1>>>>
        ELSE IF d.node[n].keyRoot THEN <<"key", key>> ELSE key
RECURSIVE PathSteps(_, _), StepsFrom(_, _, _)
PathSteps(d, n) == IF d.node[n].parent = None THEN <<>> ELSE Append(PathSteps(d, d.node[n].parent), AddressIn(d, n))
(* From a node that n is below, but not within a key of; else nothing. *)
StepsFrom(d, base, n) ==
    IF ParentOf(d, n) = None THEN <<>>
    ELSE IF ParentOf(d, n) = base THEN <<AddressIn(d, n)>>
    ELSE IF StepsFrom(d, base, ParentOf(d, n)) = <<>> THEN <<>>
    ELSE Append(StepsFrom(d, base, ParentOf(d, n)), AddressIn(d, n))

Path(slash, name, steps, trail) == [slash |-> slash, name |-> name, steps |-> steps, trail |-> trail]
GetPath(d, n) == Path(TRUE, None, PathSteps(d, n), FALSE)
NameOf(d, n) == LET mine == AnchorOf(d, n) IN IF mine = {} THEN None ELSE d.anchors[CHOOSE i \in mine : \A j \in mine : i <= j].name
(* A reference is the anchor, or a path from the root or the base's anchor. *)
Reference(d, base, n) ==
    LET name == NameOf(d, IF base = None THEN n ELSE base)
        rest == StepsFrom(d, base, n)
    IN  IF name = None THEN Path(TRUE, None, PathSteps(d, n), FALSE)
        ELSE IF base \in {None, n} THEN Path(FALSE, name, <<>>, FALSE)
        ELSE IF rest # <<>> THEN Path(FALSE, name, rest, FALSE) ELSE Path(TRUE, None, PathSteps(d, n), FALSE)
RECURSIVE NearestAnchored(_, _)
NearestAnchored(d, n) == IF n = None \/ NameOf(d, n) # None THEN n ELSE NearestAnchored(d, ParentOf(d, n))
ShortPath(d, n) == IF NearestAnchored(d, n) = None THEN GetPath(d, n) ELSE Reference(d, NearestAnchored(d, n), n)

(***************************************************************************)
(* The look-ups                                                            *)
(***************************************************************************)
TextOfNumber(digits) == CHOOSE t \in DOMAIN NumberText : NumberText[t] = NumberOf(digits)
Stated(digits) == \E t \in DOMAIN NumberText : NumberText[t] = NumberOf(digits)
ValueOfStep(d, m, step) ==
    CASE m = None \/ ~IsOf(d, m, "mapping") -> None
      [] step[1] = "digits" -> IF Stated(step[2]) THEN ValueAt(d, PairOfText(d, m, TextOfNumber(step[2]))) ELSE None
      [] step[1] \in {"name", "quote", "flow"} -> ValueAt(d, PairOf(d, m, step))
      [] OTHER -> None
FirstFound(d, aliases, step) ==
    LET values == [i \in DOMAIN aliases |-> ValueOfStep(d, FollowAlias(d, aliases[i]), step)]
        found == SelectSeq(values, LAMBDA n : n # None)
    IN  IF found = <<>> THEN None ELSE Head(found)
(* A key that is not there may be in a mapping that is merged; a sequence of *)
(* no alias at all is found in its place.                                    *)
\* Mutant: the last of the mappings that have the key.
ThroughMergeLast(d, m, step) == LET merged == ValueAt(d, PairOfText(d, m, MergeText)) IN
    IF IsOf(d, merged, "sequence")
    THEN FirstFound(d, Reverse(SelectSeq(d.node[merged].items, LAMBDA n : IsAlias(d, n))), step)
    ELSE IF IsAlias(d, merged) THEN ValueOfStep(d, FollowAlias(d, merged), step) ELSE None
FromMerged(d, merged, step) ==
    LET aliases == SelectSeq(d.node[merged].items, LAMBDA n : IsAlias(d, n))
    IN  CASE IsAlias(d, merged) -> ValueOfStep(d, FollowAlias(d, merged), step)
          [] IsOf(d, merged, "sequence") -> IF aliases = <<>> THEN merged ELSE FirstFound(d, aliases, step)
          [] OTHER -> None
ThroughMerge(d, m, step) == FromMerged(d, ValueAt(d, PairOfText(d, m, MergeText)), step)
(* An index may be in brackets, where it is not the key that it looks like. *)
IndexOfStep(step) ==
    IF step[1] = "digits" THEN NumberOf(step[2])
    ELSE IF /\ step[1] = "flow" /\ step[2].kind = "sequence" /\ Len(step[2].kids) = 1
            /\ step[2].kids[1].kind = "scalar" /\ step[2].kids[1].style = "plain" /\ step[2].kids[1].text \in DOMAIN NumberText
         THEN NumberText[step[2].kids[1].text] ELSE Infinity
OrMerged(value, d, m, step, follow) == IF value = None /\ follow THEN ThroughMerge(d, m, step) ELSE value
YamlStep(d, at, step, follow) ==
    CASE IsOf(d, at, "sequence") -> ItemAt(d, at, IndexOfStep(step))
      [] IsOf(d, at, "mapping") -> OrMerged(ValueOfStep(d, at, step), d, at, step, follow)
      [] OTHER -> None
RECURSIVE StepsDown(_, _, _, _)
StepsDown(d, n, steps, follow) ==
    IF steps = <<>> \/ n = None THEN n
    ELSE StepsDown(d, YamlStep(d, IF follow THEN Resolved(d, n) ELSE n, Head(steps), follow), Tail(steps), follow)
Landed(d, n, path, follow) == IF path.trail /\ path.steps # <<>> /\ follow THEN Resolved(d, n) ELSE n
YamlPath(d, n, path, follow) == Landed(d, StepsDown(d, n, path.steps, follow), path, follow)
(* A JSON pointer goes through mappings only: an index takes the "/" behind  *)
(* it along, and the rest does not begin with one then.                      *)
JsonStep(d, n, step) ==
    CASE IsOf(d, n, "sequence") -> IF step[1] = "digits" THEN ItemAt(d, n, NumberOf(step[2])) ELSE None
      [] IsOf(d, n, "mapping") -> IF step[1] \in {"name", "digits"} THEN ValueOfStep(d, n, step) ELSE None
      [] OTHER -> None
JsonPath(d, n, steps) ==
    FoldLeft(LAMBDA r, step : IF r.n = None \/ r.index THEN [r EXCEPT !.n = None]
                              ELSE [n |-> JsonStep(d, r.n, step), index |-> IsOf(d, r.n, "sequence")],
             [n |-> n, index |-> FALSE], steps).n
RECURSIVE Upwards(_, _, _)
Upwards(d, n, up) == IF up = 0 THEN n ELSE Upwards(d, ParentOf(d, n), up - 1)

(* fy_node_by_path: an anchor at the beginning is what the path starts from. *)
ByPath(d, n, path, follow) ==
    LET start == IF follow /\ path.name # None THEN LookupLast(d, path.name, 0) ELSE n
    IN  IF start = None THEN None ELSE YamlPath(d, start, path, follow)

(* fy_node_by_ypath: with the parser's mode; what is an anchor's name only   *)
(* is that anchor.                                                           *)
Executed(d, n, r) == [found |-> IF r.end = "ok" THEN Results(d, r.e, n) ELSE <<>>, mode |-> r.mode]
ByYPath(d, n, text, m) ==
    LET named == IF Len(text) = 1 /\ text[1].c = "name" THEN LookupLast(d, text[1].v, 0) ELSE None
    IN  IF named # None THEN [found |-> <<named>>, mode |-> m] ELSE Executed(d, n, ParseExpression(m, text))
StepText(step) ==
    LET glyph(s) == Glyph(s[1], s[2])
    IN  IF step[1] = "key" THEN <<Glyph(".", 0), Glyph("name", KeyWord), Glyph("(", 0), glyph(step[2]), Glyph(")", 0)>>
        ELSE <<glyph(step)>>
PathText(steps) == IF steps = <<>> THEN <<Glyph("/", 0)>>
                   ELSE FlattenSeq([i \in DOMAIN steps |-> <<Glyph("/", 0)>> \o StepText(steps[i])])

(***************************************************************************)
(* The document and the look-ups in it                                       *)
(***************************************************************************)
Question(kind, of, m) == [kind |-> kind, of |-> of, mode |-> m]
NoQuestion == Question("none", None, "path")
Init == /\ written \in Documents /\ document = Load(written)
        /\ mode = "path" /\ question = NoQuestion /\ answer = <<>>

Found1(n) == IF n = None THEN <<>> ELSE <<n>>
Answer(kind, of, nodes, m) ==
    /\ question = NoQuestion
    /\ question' = Question(kind, of, mode) /\ answer' = nodes /\ mode' = m
    /\ UNCHANGED <<written, document>>
AnswerWith(kind, of, r) == Answer(kind, of, r.found, r.mode)
Ask(e) == AnswerWith("ask", e, ByYPath(document, document.root, YPath!Spelled(e), mode))
FindByYPath(n) ==
    AnswerWith("ypath", n, ByYPath(document, document.root, PathText(PathSteps(document, n)), mode))
FindByPath(n, follow) ==
    Answer("path", n, Found1(ByPath(document, document.root, GetPath(document, n), follow)), mode)
FindRelative(base, n) ==
    LET steps == StepsFrom(document, base, n)
    IN  steps # <<>> /\ Answer("relative", n, Found1(ByPath(document, base, Path(FALSE, None, steps, FALSE), FALSE)), mode)
FindReference(base, n) == Answer("reference", n, Found1(ByPath(document, document.root, Reference(document, base, n), TRUE)), mode)
FindShort(n) == Answer("short", n, Found1(ByPath(document, document.root, ShortPath(document, n), TRUE)), mode)
(* In a JSON pointer a key is the text that it is. *)
JsonSteps(steps) ==
    [i \in DOMAIN steps |-> IF steps[i][1] = "quote" THEN <<"digits", <<NumberText[steps[i][2]]>>>> ELSE steps[i]]
FindJson(n, up) ==
    LET steps == JsonSteps(StepsFrom(document, Upwards(document, n, up), n))
    IN  steps # <<>> /\ Answer("json", n, Found1(JsonPath(document, Upwards(document, n, up), steps)), mode)
Follow(route, trail) ==
    Answer("follow", route, Found1(ByPath(document, document.root, Path(TRUE, None, route, trail), TRUE)), mode)

(* The caller takes the answer, and may ask again. *)
Take == /\ question # NoQuestion /\ question' = NoQuestion /\ answer' = <<>>
        /\ UNCHANGED <<written, document, mode>>

Nodes == Below(document, document.root)
Next == \/ Take
        \/ \E e \in Expressions : Ask(e)
        \/ \E n \in Nodes : \/ FindByYPath(n) \/ FindShort(n)
                            \/ \E follow \in BOOLEAN : FindByPath(n, follow)
                            \/ \E base \in Nodes : FindRelative(base, n) \/ FindReference(base, n)
                            \/ FindReference(None, n)
                            \/ \E up \in 1 .. 3 : FindJson(n, up)
        \/ \E route \in Routes, trail \in BOOLEAN : Follow(route, trail)
Spec == Init /\ [][Next]_vars

(***************************************************************************)
(* Properties                                                              *)
(***************************************************************************)
TypeOK == /\ mode \in {"path", "scalar"} /\ question.mode \in {"path", "scalar"}
          /\ Range(answer) \subseteq DOMAIN document.node /\ (question.kind # "ask" => Len(answer) <= 1)

(* An expression finds what it means: the operators bind as they should, the *)
(* two modes of the parser follow each other as the parentheses and the      *)
(* comparisons have it, and the steps are taken in order.                    *)
ExpressionsMeanIt ==
    question.kind = "ask" /\ question.mode = "path" => answer = YPath!Meant(document, question.of, document.root)

(* A path that was made from a node finds that node again, through every     *)
(* key that is a collection and whichever way it is looked up.  No path leads *)
(* into keys, a JSON pointer ends at the first sequence, and an anchor's name *)
(* leads to the last node it is on.                                           *)
IntoKeys(steps) == \E i \in DOMAIN steps : steps[i][1] = "key"
Plain(steps) == \A i \in DOMAIN steps : steps[i][1] # "flow" /\ (i < Len(steps) => steps[i][1] = "name")
Shadowed(n) == n # None /\ NameOf(document, n) # None /\ LookupLast(document, NameOf(document, n), 0) # n
PathsLeadBack ==
    LET steps == PathSteps(document, question.of)
    IN  CASE question.kind = "path" -> IntoKeys(steps) \/ answer = <<question.of>>
          [] question.kind = "ypath" -> IntoKeys(steps) \/ question.mode = "scalar" \/ answer = <<question.of>>
          [] question.kind = "relative" -> answer = <<question.of>>
          [] question.kind = "reference" -> IntoKeys(steps) \/ (\E n \in Nodes : Shadowed(n)) \/ answer = <<question.of>>
          [] question.kind = "short" -> IntoKeys(steps) \/ Shadowed(NearestAnchored(document, question.of))
                                        \/ answer = <<question.of>>
          [] question.kind = "json" -> Plain(steps) => answer = <<question.of>>
          [] OTHER -> TRUE

(* What a path finds that is followed through aliases and merges means what  *)
(* the value at that place of the document means.  The mappings that are     *)
(* merged are named by aliases, and merge nothing themselves.                *)
RECURSIVE MeaningOfNode(_, _)
MeaningOfNode(d, n) ==
    LET node == d.node[n]
        pairs == Range(node.pairs)
        merges == {p \in pairs : IsOf(d, d.pair[p].key, "scalar") /\ d.node[d.pair[p].key].text = MergeText}
        value == d.pair[CHOOSE p \in merges : TRUE].value
        sources == IF merges = {} THEN <<>> ELSE IF IsAlias(d, value) THEN <<value>> ELSE d.node[value].items
    IN  IF IsAlias(d, n) THEN MeaningOfNode(d, FollowAlias(d, n))
        ELSE CASE node.type = "scalar" -> <<"scalar", node.text>>
               [] node.type = "sequence" -> <<"sequence", [i \in DOMAIN node.items |-> MeaningOfNode(d, node.items[i])]>>
               [] node.type = "mapping" ->
                    <<"mapping", Yaml!Merged({<<MeaningOfNode(d, d.pair[p].key), MeaningOfNode(d, d.pair[p].value)>> : p \in pairs \ merges},
                                             [i \in DOMAIN sources |-> MeaningOfNode(d, sources[i])])>>
Nowhere == <<"nowhere">>
StepInto(v, step) ==
    LET text == IF step[1] = "digits" THEN TextOfNumber(step[2]) ELSE step[2]
        found == {p \in v[2] : p[1] = <<"scalar", text>>}
    IN  CASE v[1] = "sequence" -> IF step[1] = "digits" /\ NumberOf(step[2]) < Len(v[2]) THEN v[2][NumberOf(step[2]) + 1] ELSE Nowhere
          [] v[1] = "mapping" -> IF found = {} THEN Nowhere ELSE (CHOOSE p \in found : TRUE)[2]
          [] OTHER -> Nowhere
PathsSeeMeaning ==
    question.kind = "follow" =>
      LET v == FoldLeft(StepInto, Yaml!MeaningOf(written).v, question.of)
      IN  IF v = Nowhere THEN answer = <<>> ELSE answer # <<>> /\ MeaningOfNode(document, answer[1]) = v
==============================================================================
