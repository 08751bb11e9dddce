----------------------------- MODULE FyDocument -----------------------------
(* A document of libfyaml from the events of a parser to its resolution.    *)
(* The builder is given one event at a time, and a composer the same events; *)
(* when the document is complete its owner takes it, and resolves it, clones *)
(* it or edits it.  The recursive loader is run on the same events.          *)
EXTENDS FyEditing, FyComposer, FyStreaming

CONSTANTS Names,      \* the anchors' names
          Documents,  \* the documents that are written: trees as of YamlMeaning
          Edits,      \* those of them that are edited
          MaxEdits    \* how many operations edit one document

ASSUME NamesAssumption == Names \subseteq Nat \ {0}
ASSUME EditsAssumption == Edits \subseteq Documents /\ MaxEdits \in Nat

VARIABLES written,    \* the document that is being read
          fed,        \* how many of its events the builder was given
          builder,
          composer,
          streams,    \* the same events with their aliases resolved as they pass, in YAML 1.2 and in 1.1
          document,   \* the document, once its owner has taken it
          copy,       \* its clone
          left,       \* the aliases the last pass of resolve left
          own,        \* the nodes that are no part of it and that its owner holds
          edits,
          phase
vars == <<written, fed, builder, composer, streams, document, copy, left, own, edits, phase>>
reading == <<written, fed, builder, composer, streams>>
editing == <<own, edits>>

Yaml == INSTANCE YamlMeaning
Unmerged == INSTANCE YamlMeaning WITH MergeText <- -1   \* no text is a merge key's

RECURSIVE Tour(_)
Tour(t) ==
    LET start(type) == <<Event(type, t.anchor, t.style, t.text, 0)>>
        end(type) == <<Event(type, None, "any", NoText, 0)>>
        all(es, u) == es \o Tour(u)
    IN  CASE t.kind = "scalar" -> start("SCALAR")
          [] t.kind = "alias" -> start("ALIAS")
          [] t.kind = "sequence" -> FoldLeft(all, start("SEQUENCE-START"), t.kids) \o end("SEQUENCE-END")
          [] t.kind = "mapping" -> FoldLeft(LAMBDA es, kv : es \o Tour(kv[1]) \o Tour(kv[2]),
                                            start("MAPPING-START"), t.kids) \o end("MAPPING-END")
Stream(t) ==
    LET plain(type) == <<Event(type, None, "any", NoText, 0)>>
        placed(es) == [i \in DOMAIN es |-> [es[i] EXCEPT !.at = i]]
    IN  placed(plain("STREAM-START") \o plain("DOCUMENT-START") \o Tour(t) \o plain("DOCUMENT-END") \o plain("STREAM-END"))

Init == /\ written \in Documents
        /\ fed = 0 /\ builder = NewBuilder /\ composer = NewComposer /\ streams = [v \in BOOLEAN |-> NewStream(v)]
        /\ document = EmptyDocument /\ copy = EmptyDocument
        /\ left = -1 /\ own = {} /\ edits = 0 /\ phase = "reading"

Give(e) ==
    /\ builder' = ProcessEvent(builder, e)
    /\ composer' = IF composer.rc < 0 THEN composer ELSE Compose(composer, e)
    /\ streams' = [v \in BOOLEAN |-> StreamEvent(streams[v], e)]
Feed == /\ phase = "reading" /\ ~builder.docDone /\ fed < Len(Stream(written))
        /\ fed' = fed + 1
        /\ Give(Stream(written)[fed + 1])
        /\ phase' = IF builder'.rc < 0 THEN "refused" ELSE "reading"
        /\ UNCHANGED <<written, document, copy, left, editing>>

TakeDocument ==
    /\ phase = "reading" /\ builder.docDone /\ builder.has
    /\ document' = builder.d /\ phase' = "loaded"
    /\ builder' = [builder EXCEPT !.has = FALSE, !.docDone = FALSE, !.d = EmptyDocument]
    /\ UNCHANGED <<written, fed, composer, streams, copy, left, editing>>

(* The owner of a builder gives up on it, after an error or before the end.  *)
Reset == /\ phase \in {"reading", "refused"} /\ fed > 0
         /\ builder' = ResetBuilder(builder) /\ phase' = "reset"
         /\ UNCHANGED <<written, fed, composer, streams, document, copy, left, editing>>

Settle(r) ==
    /\ document' = r.d /\ left' = r.left
    /\ phase' = CASE r.end = "ok" -> "resolved" [] r.end = "again" -> "resolving" [] OTHER -> "failed"
Resolve == /\ phase \in {"loaded", "resolving", "cloned"}
           /\ Settle(ResolvePass(document, left))
           /\ UNCHANGED <<reading, copy, editing>>

CloneDocument ==
    /\ phase = "loaded" /\ copy = EmptyDocument
    /\ LET c == Clone(document) IN document' = c.source /\ copy' = c.clone
    /\ phase' = "cloned"
    /\ UNCHANGED <<reading, left, editing>>

(* The owner makes a few nodes of its own, and edits the document: only a    *)
(* node it holds goes into a tree, and never into a tree below itself.       *)
BeginEditing ==
    /\ phase = "loaded" /\ written \in Edits
    /\ LET new == <<NewNode("scalar", "plain", 1, 0), NewNode("scalar", "plain", 5, 0),
                    NewNode("sequence", "any", NoText, 0), NewNode("mapping", "any", NoText, 0)>>
       IN  /\ document' = FoldLeft(Alloc, document, new)
           /\ own' = Len(document.node) + 1 .. Len(document.node) + 4
    /\ phase' = "editing"
    /\ UNCHANGED <<reading, copy, left, edits>>

Within == UNION {Below(document, n) : n \in own \cup {document.root}}
Apart(n, m) == n \in own /\ m \notin Below(document, n)
Edit(r, mine) ==
    /\ phase = "editing" /\ edits < MaxEdits
    /\ document' = r.d /\ edits' = IF r.end = "refused" THEN edits ELSE edits + 1
    /\ own' = IF r.end = "refused" THEN own ELSE mine
    /\ phase' = IF r.end = "abort" THEN "aborted" ELSE phase
    /\ UNCHANGED <<reading, copy, left>>

Append1(s, n) == Apart(n, s) /\ Edit(SequenceAppend(document, s, n), own \ {n})
Prepend1(s, n) == Apart(n, s) /\ Edit(SequencePrepend(document, s, n), own \ {n})
InsertBefore(s, mark, n) == Apart(n, s) /\ Edit(SequenceInsertBefore(document, s, mark, n), own \ {n})
InsertAfter(s, mark, n) == Apart(n, s) /\ Edit(SequenceInsertAfter(document, s, mark, n), own \ {n})
RemoveItem(s, n) == Edit(SequenceRemove(document, s, n), own \cup {n})
AppendPair(m, k, v) == k # v /\ Apart(k, m) /\ Apart(v, m) /\ Edit(MappingAppend(document, m, k, v), own \ {k, v})
PrependPair(m, k, v) == k # v /\ Apart(k, m) /\ Apart(v, m) /\ Edit(MappingPrepend(document, m, k, v), own \ {k, v})
RemovePair(m, p) ==
    Edit(MappingRemove(document, m, p), (own \cup {document.pair[p].key, document.pair[p].value}) \ {None})
RemoveByKey(m, k) ==
    LET value(p) == IF p = None THEN None ELSE document.pair[p].value
    IN  /\ Apart(k, m) \/ \E q \in Range(document.node[m].pairs) : document.pair[q].key = k
        /\ Edit(MappingRemoveByKey(document, m, k), ((own \ {k}) \cup {value(LookupPair(document, m, k))}) \ {None})
SetKey(m, p, k) == Apart(k, m) /\ Edit(PairSetKey(document, p, k), own \ {k})
SetValue(m, p, v) == Apart(v, m) /\ Edit(PairSetValue(document, p, v), own \ {v})
SetDocumentRoot(n) == n \in own /\ Edit(SetRoot(document, n), own \ {n})
(* The place is found by a path, which does not lead into keys. *)
InsertAtPath(n, from) == from \in own /\ Edit(InsertNodeAt(document, n, from), own \ {from})
DeleteAtPath(n) == Edit(InsertNodeAt(document, n, None), own)
Sort1(n) == Edit(SortNode(document, n), own)
Free1(n) == n \in own /\ Edit(NodeFree(document, n), own \ {n})
SetAnchor1(n, name) == Edit(NodeSetAnchor(document, n, name), own)

RECURSIVE OnPaths(_, _)
OnPaths(d, n) ==
    IF n = None THEN {} ELSE
    {n} \cup UNION {OnPaths(d, m) : m \in Range(d.node[n].items) \cup {d.pair[p].value : p \in Range(d.node[n].pairs)}}
EditSequence ==
    \E s \in {n \in Within : IsSequence(document, n)} :
      \/ \E n \in own : Append1(s, n) \/ Prepend1(s, n)
      \/ \E mark \in Range(document.node[s].items) :
           RemoveItem(s, mark) \/ \E n \in own : InsertBefore(s, mark, n) \/ InsertAfter(s, mark, n)
EditMapping ==
    \E m \in {n \in Within : IsMapping(document, n)} :
      \/ \E k, v \in own : AppendPair(m, k, v) \/ PrependPair(m, k, v)
      \/ \E k \in own \cup {document.pair[p].key : p \in Range(document.node[m].pairs)} : RemoveByKey(m, k)
      \/ \E p \in Range(document.node[m].pairs) :
           RemovePair(m, p) \/ \E n \in own : SetKey(m, p, n) \/ SetValue(m, p, n)
EditDocument ==
    \/ \E n \in own : SetDocumentRoot(n) \/ Free1(n)
    \/ \E n \in OnPaths(document, document.root) : DeleteAtPath(n) \/ \E from \in own : InsertAtPath(n, from)
    \/ Sort1(document.root)
    \/ \E n \in Within, name \in Names : SetAnchor1(n, name)

Finished == phase \in {"reset", "resolved", "failed", "aborted"} /\ UNCHANGED vars
Rested == phase = "editing" /\ edits = MaxEdits /\ UNCHANGED vars

Next == Feed \/ TakeDocument \/ Reset \/ Resolve \/ CloneDocument \/ BeginEditing
        \/ EditSequence \/ EditMapping \/ EditDocument \/ Finished \/ Rested
Spec == Init /\ [][Next]_vars

(***************************************************************************)
(* Properties                                                              *)
(***************************************************************************)
RECURSIVE Written(_)
Written(t) ==
    CASE t.kind = "scalar" -> <<t.style, t.text>>
      [] t.kind = "alias" -> <<"alias", t.text>>
      [] t.kind = "sequence" -> <<"sequence", [i \in DOMAIN t.kids |-> Written(t.kids[i])]>>
      [] t.kind = "mapping" -> <<"mapping", [i \in DOMAIN t.kids |-> <<Written(t.kids[i][1]), Written(t.kids[i][2])>>]>>
RECURSIVE ValueOf(_, _)
ValueOf(d, n) ==
    LET node == d.node[n]
    IN  CASE node.type = "scalar" -> <<"scalar", node.text>>
          [] node.type = "sequence" -> <<"sequence", [i \in DOMAIN node.items |-> ValueOf(d, node.items[i])]>>
          [] node.type = "mapping" -> <<"mapping", {<<ValueOf(d, d.pair[p].key), ValueOf(d, d.pair[p].value)>> :
                                                      p \in Range(node.pairs)}>>

TypeOK ==
    /\ phase \in {"reading", "refused", "reset", "loaded", "cloned", "resolving", "resolved", "failed",
                 "editing", "aborted"}
    /\ own \subseteq DOMAIN document.node /\ edits \in 0 .. MaxEdits
    /\ fed \in 0 .. Len(Stream(written)) /\ left \in Nat \cup {-1}
    /\ \A d \in {builder.d, document, copy} :
         /\ d.root \in 0 .. Len(d.node)
         /\ \A n \in Range(d.node) : Range(n.items) \subseteq DOMAIN d.node /\ Range(n.pairs) \subseteq DOMAIN d.pair
         /\ \A p \in Range(d.pair) : {p.key, p.value} \subseteq 0 .. Len(d.node)
         /\ \A a \in Range(d.anchors) : a.node \in DOMAIN d.node /\ a.name \in Names

(* A tree, whose nodes are alive, each at one place, with the node it is in  *)
(* as its parent; and anchors on nodes that are alive.                       *)
IsTree(d) ==
    LET nodes == Below(d, d.root)
    IN  /\ \A n \in nodes : d.node[n].live
        /\ d.node[d.root].parent = None
        /\ \A n \in nodes : \A m \in Children(d, n) : d.node[m].parent = n
        /\ \A i \in DOMAIN d.anchors : d.node[d.anchors[i].node].live

AnchorsWritten ==
    LET es == Stream(written)
    IN  SelectSeq([i \in DOMAIN es |-> <<es[i].anchor, i>>], LAMBDA a : a[1] # None)
(* A key with a mapping in it, or that is one, two of whose own keys are     *)
(* sequences, or mappings.                                                   *)
RECURSIVE Nodes(_)
Nodes(t) ==
    {t} \cup UNION {Nodes(u) : u \in IF t.kind = "mapping" THEN UNION {{kv[1], kv[2]} : kv \in Range(t.kids)} ELSE Range(t.kids)}
HasLikeKeys(m) ==
    m.kind = "mapping" /\ \E i, j \in DOMAIN m.kids :
        i # j /\ m.kids[i][1].kind = m.kids[j][1].kind /\ m.kids[i][1].kind \in {"sequence", "mapping"}
KeyHasLikeKeys(t) ==
    \E m \in Nodes(t) : m.kind = "mapping" /\ \E kv \in Range(m.kids) : \E u \in Nodes(kv[1]) : HasLikeKeys(u)
(* What was refused is the beginning of an empty collection, and as many     *)
(* collections as may be are open with it.                                   *)
EmptyAtLimit ==
    LET es == Stream(written)
        among(types, n) == {i \in 1 .. n : es[i].type \in types}
        begins == {"SEQUENCE-START", "MAPPING-START"}
        ends == {"SEQUENCE-END", "MAPPING-END"}
    IN  /\ fed \in among(begins, fed) /\ fed + 1 \in among(ends, fed + 1)
        /\ Cardinality(among(begins, fed)) - Cardinality(among(ends, fed)) = DepthLimit
AgreesWith(r) ==
    LET alike == r.end = "ok" /\ Shape(r.d, r.d.root) = Written(written)
    IN  /\ phase = "loaded" => IF KeyHasLikeKeys(written) THEN r.end = "abort"
                                ELSE alike /\ r.d.anchors = document.anchors
        /\ phase = "refused" => r.end # "ok" \/ (EmptyAtLimit /\ alike)
LoadersAgree == AgreesWith(LoadRecursive(Stream(written)))
(* Every node that lives is in one of the trees the builder holds, and in    *)
(* one only: a reset frees each of them once.                                *)
BuilderOwnsAll ==
    LET held == Held(builder)
        alive == {n \in DOMAIN builder.d.node : builder.d.node[n].live}
    IN  /\ alive = UNION {Below(builder.d, n) : n \in Range(held)}
        /\ \A i, j \in DOMAIN held : i # j => Below(builder.d, held[i]) \cap Below(builder.d, held[j]) = {}

(* What the builder makes is what was written, with the anchors in order, and *)
(* what the recursive loader makes; what one refuses, the other does.  There  *)
(* are two exceptions: the builder alone refuses a collection at the depth    *)
(* limit that is empty (fy-docbuilder.c:411-413, fy-doc.c:1749-1754); and a   *)
(* key with two like keys in it, which the recursive loader sorts before its  *)
(* pairs name their mapping, ends the program there (fy-doc.c:5826, 1364).    *)
(* An iterator gives the events it was made of once more.  At any time, when  *)
(* it refuses an event half way too, the builder owns every node.             *)
PlacesAside(es) == [i \in DOMAIN es |-> [es[i] EXCEPT !.at = 0]]
LoadedAsWritten ==
    /\ phase = "loaded" =>
         /\ IsTree(document) /\ Shape(document, document.root) = Written(written)
         /\ [i \in DOMAIN document.anchors |-> <<document.anchors[i].name, document.anchors[i].at>>] = AnchorsWritten
         /\ PlacesAside(Iterate(<<document>>)) = PlacesAside(Stream(written))
    /\ LoadersAgree /\ BuilderOwnsAll

(* The path a callback is given is the place of the node the event is about, *)
(* within keys that are collections too, whether the events are those of the *)
(* parser or those of the resolved document; none is refused but in a        *)
(* document that could not be loaded either.                                 *)
RECURSIVE Places(_, _, _)
Places(t, path, where) ==
    LET all == Append(path, <<"collection">>)
        item(i) == Places(t.kids[i], Append(path, <<"item", i - 1>>), "item")
        pair(i) == LET k == t.kids[i][1]
                       leaf == k.kind \in {"scalar", "alias"}
                   IN  Places(k, Append(path, IF leaf THEN <<"key", Written(k)>> ELSE <<"key">>), "key")
                       \o Places(t.kids[i][2], Append(path, <<"value", Written(k)>>), "value")
    IN  CASE t.kind \in {"scalar", "alias"} -> << <<path, where>> >>
          [] t.kind = "sequence" -> << <<all, where>> >> \o FlattenSeq([i \in DOMAIN t.kids |-> item(i)]) \o << <<all, where>> >>
          [] t.kind = "mapping" -> << <<all, where>> >> \o FlattenSeq([i \in DOMAIN t.kids |-> pair(i)]) \o << <<all, where>> >>
RECURSIVE TreeOf(_, _)
TreeOf(d, n) ==
    LET node == d.node[n]
        both(p) == <<TreeOf(d, d.pair[p].key), TreeOf(d, d.pair[p].value)>>
    IN  [kind |-> IF IsAlias(d, n) THEN "alias" ELSE node.type, style |-> node.style, text |-> node.text,
         kids |-> IF node.type = "mapping" THEN [i \in DOMAIN node.pairs |-> both(node.pairs[i])]
                  ELSE [i \in DOMAIN node.items |-> TreeOf(d, node.items[i])]]
AllPlaces(t) ==
    LET root == <<<<>>, "root">>
    IN  <<root, root>> \o Places(t, <<>>, "root") \o <<root, root>>
(* A builder given events until it refuses one. *)
Built(es) == FoldLeft(LAMBDA b, e : IF b.rc < 0 THEN b ELSE ProcessEvent(b, e), NewBuilder, es)
AtPlaces(cs, all) ==
    /\ \A i \in DOMAIN cs : cs[i].rc = 0 => <<cs[i].seen, cs[i].where>> = all[i]
    /\ Len(cs) # Len(all) \/ Last(cs).rc < 0 => Built(Iterate(<<document>>)).rc < 0
PathIsPlace ==
    /\ composer.rc < 0 => phase \in {"refused", "reset"}
    /\ fed > 0 /\ composer.rc = 0 => <<composer.seen, composer.where>> = AllPlaces(written)[fed]
    /\ phase = "resolved" => AtPlaces(ComposeLoaded(<<document>>), AllPlaces(TreeOf(document, document.root)))

(* A clone means what its source means and an iterator gives the events of   *)
(* one after the other alike, if no anchor is put on two nodes.              *)
RECURSIVE ResolveAll(_)
ResolveAll(r) == IF r.end = "again" THEN ResolveAll(ResolvePass(r.d, r.left)) ELSE r
Alike(a, b) == a.end = b.end /\ (a.end = "ok" => ValueOf(a.d, a.d.root) = ValueOf(b.d, b.d.root))
CloneResolvesAlike ==
    LET names == [i \in DOMAIN AnchorsWritten |-> AnchorsWritten[i][1]]
        events == PlacesAside(Stream(written))
        body == SubSeq(events, 2, Len(events) - 1)
    IN  phase = "cloned" /\ IsInjective(names) =>
          /\ Alike(ResolveAll(Passed(document, -1, "again")), ResolveAll(Passed(copy, -1, "again")))
          /\ PlacesAside(Iterate(<<document, copy>>)) = <<Head(events)>> \o body \o body \o <<Last(events)>>

(* Whatever its owner does, the document and the nodes that are not in it    *)
(* are trees apart from each other, of nodes that live, and no other node    *)
(* does; and an iterator gives each node of the document once.               *)
OnceEach(ns, S) == IsInjective(ns) /\ Range(ns) = S
EditsKeepTrees ==
    LET roots == (own \cup {document.root}) \ {None}
        alive == {n \in DOMAIN document.node : document.node[n].live}
        placed == FlattenSeq([n \in DOMAIN document.node |-> IF n \notin alive THEN <<>> ELSE document.node[n].items \o
                    FlattenSeq([i \in DOMAIN document.node[n].pairs |->
                      LET p == document.pair[document.node[n].pairs[i]] IN <<p.key, p.value>>])])
    IN  phase = "editing" =>
          /\ alive = UNION {Below(document, n) : n \in roots}
          /\ \A n \in alive : Len(SelectSeq(placed, LAMBDA m : m = n)) = IF n \in roots THEN 0 ELSE 1
          /\ \A i \in DOMAIN document.anchors : document.anchors[i].node \in alive
          /\ OnceEach(NodesOf(document, document.root), Below(document, document.root))

(* To insert a node at a path changes what is there as the manual has it:    *)
(* the node overwrites it, or is appended to it; and nothing else.           *)
RECURSIVE Overlaid(_, _), ShapeWith(_, _, _, _)
Overlaid(to, from) ==
    IF to[1] # from[1] \/ to[1] \notin {"sequence", "mapping"} THEN from
    ELSE IF to[1] = "sequence" THEN <<"sequence", to[2] \o from[2]>>
    ELSE LET keys(ps) == {kv[1] : kv \in Range(ps)}
             value(ps, k) == (CHOOSE kv \in Range(ps) : kv[1] = k)[2]
         IN  <<"mapping", [i \in DOMAIN to[2] |-> IF to[2][i][1] \in keys(from[2])
                             THEN <<to[2][i][1], Overlaid(to[2][i][2], value(from[2], to[2][i][1]))>> ELSE to[2][i]]
                          \o SelectSeq(from[2], LAMBDA kv : kv[1] \notin keys(to[2]))>>
ShapeWith(d, n, at, new) ==
    IF n = at THEN new ELSE IF n = None \/ d.node[n].type = "scalar" THEN Shape(d, n)
    ELSE IF d.node[n].type = "sequence"
    THEN <<"sequence", [i \in DOMAIN d.node[n].items |-> ShapeWith(d, d.node[n].items[i], at, new)]>>
    ELSE <<"mapping", [i \in DOMAIN d.node[n].pairs |->
                         LET p == d.pair[d.node[n].pairs[i]] IN <<Shape(d, p.key), ShapeWith(d, p.value, at, new)>>]>>
InsertsOnlyThere ==
    [][\A n \in OnPaths(document, document.root), from \in own :
         InsertAtPath(n, from) /\ phase' = "editing" =>
           Shape(document', document'.root) =
             ShapeWith(document, document.root, n, Overlaid(Shape(document, n), Shape(document, from)))]_vars
NoFunkinessOnRoot == phase # "aborted"

ForwardAlias(t) ==
    LET es == Stream(t)
    IN  \E i \in DOMAIN es : es[i].type = "ALIAS" /\ \A j \in 1 .. i - 1 : es[j].anchor # es[i].text
(* A merge key whose value has an anchor, or a mapping written in its place, *)
(* or that is in a mapping with a key that is an alias or has one in it.     *)
OddMerge(t) ==
    \E m \in Nodes(t) : m.kind = "mapping" /\ \E kv \in Range(m.kids) :
        /\ Yaml!IsMerge(kv[1])
        /\ \/ kv[2].anchor # None
           \/ kv[2].kind = "mapping" \/ \E u \in Range(kv[2].kids) : kv[2].kind = "sequence" /\ u.kind # "alias"
           \/ \E other \in Range(m.kids) : \E u \in Nodes(other[1]) : u.kind = "alias"
ResolvesToMeaning ==
    LET m == Yaml!MeaningOf(written)
    IN  /\ phase = "failed" => ~m.ok \/ OddMerge(written)
        /\ phase = "resolved" => \/ (m.ok /\ ValueOf(document, document.root) = m.v /\ IsTree(document))
                                  \/ ForwardAlias(written)

(* The events with the aliases resolved make the document that is meant, and *)
(* none when that is too deep, but for an anchor put again inside an         *)
(* anchored node, and for what merges do differently: a key of the mapping   *)
(* itself does not hide a merged one, and a mapping has one merge key at     *)
(* most, which adds something.                                               *)
PutAgain ==
    LET names == [i \in DOMAIN AnchorsWritten |-> AnchorsWritten[i][1]]
        twice(name) == Len(SelectSeq(names, LAMBDA n : n = name)) > 1
    IN  \E u \in Nodes(written) : u.anchor # None /\ \E w \in Nodes(u) \ {u} : w.anchor # None /\ twice(w.anchor)
MergesOddly ==
    \E m \in Nodes(written) : m.kind = "mapping" /\ \E i \in DOMAIN m.kids :
      /\ Yaml!IsMerge(m.kids[i][1])
      /\ \/ m.kids[i][2].kids = <<>> /\ m.kids[i][2].kind # "alias"
         \/ \E kv \in Range(m.kids) \ {m.kids[i]} :
              \/ kv[1].kind = "alias"
              \/ \E u \in Nodes(written) \ {m} : u.kind = "mapping" /\ \E p \in Range(u.kids) : p[1] = kv[1]
(* As high as the builder's stack: with room for an item, if there is none. *)
RECURSIVE Height(_)
Height(v) ==
    LET below == CASE v[1] = "scalar" -> {} [] v[1] = "sequence" -> Range(v[2]) [] v[1] = "mapping" -> UNION {Range(p) : p \in v[2]}
    IN  1 + Max({IF v[1] = "scalar" THEN 0 ELSE 1} \cup {Height(u) : u \in below})
StreamsMeaning ==
    phase = "loaded" =>
      \A v \in BOOLEAN :
        LET m == IF v THEN Yaml!MeaningOf(written) ELSE Unmerged!MeaningOf(written)
            b == Built(streams[v].out)
            loads == streams[v].end = "ok" /\ b.rc >= 0
        IN  \/ loads = (m.ok /\ Height(m.v) <= DepthLimit) /\ (loads => ValueOf(b.d, b.d.root) = m.v)
            \/ PutAgain \/ (v /\ MergesOddly)
=============================================================================
