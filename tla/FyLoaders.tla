----------------------------- MODULE FyLoaders -----------------------------
(* How libfyaml makes a document of a parser's events, and resolves it:     *)
(* fy_document_builder, which is given one event at a time; the recursive   *)
(* loader of FYPCF_PREFER_RECURSIVE, which takes them; and                  *)
(* fy_document_resolve, which replaces aliases and merge keys.              *)
EXTENDS FyNodes

CONSTANTS DepthLimit,   \* fy_depth_limit(), 0 for FYPCF_DISABLE_DEPTH_LIMIT
          WalkDepth     \* nodes one walk from an alias may mark

ASSUME DepthLimitAssumption == DepthLimit \in Nat
ASSUME WalkDepthAssumption == WalkDepth \in Nat \ {0}

(* An event carries the anchor (None: none), the style and the text of a     *)
(* scalar, or the name of an alias as its text; at is its place in the text. *)
Event(type, anchor, style, text, at) ==
    [type |-> type, anchor |-> anchor, style |-> style, text |-> text, at |-> at]

NodeOfEvent(d, e) ==
    LET leaf == e.type \in {"SCALAR", "ALIAS"}
        type == IF leaf THEN "scalar" ELSE IF e.type = "SEQUENCE-START" THEN "sequence" ELSE "mapping"
        made == Alloc(d, NewNode(type, IF e.type = "ALIAS" THEN "alias" ELSE e.style, e.text, e.at))
    IN  RegisterAnchor(made, Newest(made), e.anchor, e.at)

(***************************************************************************)
(* fy_document_builder                                                     *)
(***************************************************************************)
Context(s) == [s |-> s, fyn |-> None, fynp |-> None]
NewBuilder == [stack |-> <<>>, inStream |-> FALSE, docDone |-> FALSE, single |-> FALSE,
               has |-> FALSE, d |-> EmptyDocument, rc |-> 0]
SetInDocument(single) ==
    [NewBuilder EXCEPT !.stack = <<Context("node")>>, !.inStream = TRUE, !.single = single, !.has = TRUE]

Top(b) == b.stack[Len(b.stack)]
Enclosing(b) == b.stack[Len(b.stack) - 1]
SetTop(b, s, fyn, fynp) == [b EXCEPT !.stack[Len(b.stack)] = [s |-> s, fyn |-> fyn, fynp |-> fynp]]
Refuse(b) == [b EXCEPT !.rc = -1]
Push(b) ==
    IF DepthLimit # 0 /\ Len(b.stack) >= DepthLimit THEN Refuse(b)
    ELSE [b EXCEPT !.stack = Append(@, Context("node")), !.rc = 0]

\* Mutant: a key that is refused is forgotten.
CompleteKeyForgets(b, n) ==
    LET d == AllocPair(b.d, [key |-> n, value |-> None, parent |-> None])
    IN  IF KeyRefused(d, Top(b).fyn, n) THEN Refuse([b EXCEPT !.d = d])
        ELSE Push(SetTop([b EXCEPT !.d = d], "value", Top(b).fyn, NewestPair(d)))
CompleteKey(b, n) ==
    LET d == AllocPair(b.d, [key |-> n, value |-> None, parent |-> None])
        held == SetTop([b EXCEPT !.d = d], "key", Top(b).fyn, NewestPair(d))
    IN  IF KeyRefused(d, Top(b).fyn, n) THEN Refuse(held)
        ELSE Push(SetTop(held, "value", Top(b).fyn, NewestPair(d)))
\* Mutant: the value is not told its mapping.
CompleteValueOrphan(b, n) ==
    LET m == Top(b).fyn
        p == Top(b).fynp
        key == b.d.pair[p].key
        filled == [b.d EXCEPT !.pair[p].value = n, !.pair[p].parent = m]
    IN  Push(SetTop([b EXCEPT !.d = AddPair(SetKeyRoot(SetParent(filled, key, m), key), m, p)], "key", m, None))
CompleteValue(b, n) ==
    LET m == Top(b).fyn
        p == Top(b).fynp
        key == b.d.pair[p].key
        filled == [b.d EXCEPT !.pair[p].value = n, !.pair[p].parent = m]
        linked == SetParent(SetKeyRoot(SetParent(filled, key, m), key), n, m)
    IN  Push(SetTop([b EXCEPT !.d = AddPair(linked, m, p)], "key", m, None))
CompleteItem(b, n) == Push([b EXCEPT !.d = AddItem(SetParent(b.d, n, Top(b).fyn), Top(b).fyn, n)])

(* A node is whole: it becomes the root, a key, a value or an item. *)
Complete(b, n) ==
    LET popped == [b EXCEPT !.stack = Front(b.stack)]
    IN  IF popped.stack = <<>>
        THEN [popped EXCEPT !.d.root = n, !.docDone = b.single \/ @, !.rc = 1]
        ELSE CASE Top(popped).s = "key" -> CompleteKey(popped, n)
               [] Top(popped).s = "value" -> CompleteValue(popped, n)
               [] Top(popped).s = "sequence" -> CompleteItem(popped, n)

EndCollection(b, s) ==
    IF Len(b.stack) > 1 /\ Enclosing(b).s = s
    THEN Complete([b EXCEPT !.stack = Front(b.stack)], Enclosing(b).fyn)
    ELSE Refuse(b)

OutsideDocument(b, e) ==
    CASE e.type = "STREAM-START" /\ ~b.inStream -> [b EXCEPT !.inStream = TRUE, !.rc = 0]
      [] e.type = "STREAM-END" /\ b.inStream -> [b EXCEPT !.inStream = FALSE, !.rc = 1]
      [] e.type = "DOCUMENT-START" /\ b.inStream ->
           Push([b EXCEPT !.has = TRUE, !.d = EmptyDocument, !.docDone = FALSE])
      [] e.type = "DOCUMENT-END" /\ b.inStream /\ b.has -> [b EXCEPT !.docDone = TRUE, !.rc = 0]
      [] OTHER -> Refuse(b)
InsideDocument(b, e) ==
    LET d == NodeOfEvent(b.d, e)
        made == [b EXCEPT !.d = d]
    IN  CASE e.type \in {"SCALAR", "ALIAS"} -> Complete(made, Newest(d))
          [] e.type = "MAPPING-START" -> Push(SetTop(made, "key", Newest(d), None))
          [] e.type = "SEQUENCE-START" -> Push(SetTop(made, "sequence", Newest(d), None))
          [] e.type = "MAPPING-END" -> EndCollection(b, "key")
          [] e.type = "SEQUENCE-END" -> EndCollection(b, "sequence")
          [] OTHER -> Refuse(b)
ProcessEvent(b, e) == IF b.stack = <<>> THEN OutsideDocument(b, e) ELSE InsideDocument(b, e)

(* What the builder holds, each the root of a tree of its own; a reset frees *)
(* every one of them.                                                        *)
Held(b) ==
    (IF b.has /\ b.d.root # None THEN <<b.d.root>> ELSE <<>>) \o
    FoldLeft(LAMBDA hs, c : hs \o SelectSeq(<<c.fyn>> \o (IF c.fynp = None THEN <<>>
                                              ELSE <<b.d.pair[c.fynp].key, b.d.pair[c.fynp].value>>),
                                            LAMBDA n : n # None), <<>>, b.stack)
ResetBuilder(b) == [NewBuilder EXCEPT !.d = FoldLeft(FreeTree, b.d, Held(b))]

(***************************************************************************)
(* The recursive loader.  A result is the document, the event that comes   *)
(* next, the node, and whether it is "ok", an "error", or the end of the     *)
(* program ("abort").                                                        *)
(***************************************************************************)
Loaded(d, i, n) == [d |-> d, i |-> i, n |-> n, end |-> "ok"]
Failed(d, end) == [d |-> d, i |-> 0, n |-> None, end |-> end]

(* The keys of a mapping are hashed, which sorts the pairs of the mappings   *)
(* below a key; the order of two collections is that of the mapping their    *)
(* pairs name, and while they are loaded they name none.                     *)
Sortable(d, n) ==
    \A m \in Below(d, n) :
        ~ \E i, j \in DOMAIN d.node[m].pairs :
            LET p == d.pair[d.node[m].pairs[i]]
                q == d.pair[d.node[m].pairs[j]]
            IN  i # j /\ p.parent = None /\ SortClass(d, p.key) \in {0, 1} /\ SortClass(d, p.key) = SortClass(d, q.key)

RECURSIVE LoadNode(_, _, _, _), LoadItems(_, _, _, _, _), LoadPairs(_, _, _, _, _)
LoadNode(d, es, i, depth) ==
    IF i > Len(es) \/ (DepthLimit # 0 /\ depth > DepthLimit)
         \/ es[i].type \notin {"SCALAR", "ALIAS", "SEQUENCE-START", "MAPPING-START"}
    THEN Failed(d, "error")
    ELSE LET made == NodeOfEvent(d, es[i])
         IN  CASE es[i].type \in {"SCALAR", "ALIAS"} -> Loaded(made, i + 1, Newest(made))
               [] es[i].type = "SEQUENCE-START" -> LoadItems(made, es, i + 1, depth, Newest(made))
               [] es[i].type = "MAPPING-START" -> LoadPairs(made, es, i + 1, depth, Newest(made))
LoadItems(d, es, i, depth, s) ==
    IF i > Len(es) THEN Failed(FreeTree(d, s), "error")
    ELSE IF es[i].type = "SEQUENCE-END" THEN Loaded(d, i + 1, s)
    ELSE LET item == LoadNode(d, es, i, depth + 1)
         IN  IF item.end # "ok" THEN Failed(FreeTree(item.d, s), item.end)
             ELSE LoadItems(AddItem(item.d, s, item.n), es, item.i, depth, s)
LoadPairs(d, es, i, depth, m) ==
    IF i > Len(es) THEN Failed(FreeTree(d, m), "error")
    ELSE IF es[i].type = "MAPPING-END" THEN Loaded(d, i + 1, m)
    ELSE LET key == LoadNode(d, es, i, depth + 1)
             value == LoadNode(key.d, es, key.i, depth + 1)
             filled == AllocPair(value.d, [key |-> key.n, value |-> value.n, parent |-> None])
         IN  IF key.end # "ok" THEN Failed(key.d, "abort")
             ELSE IF ~Sortable(key.d, key.n) THEN Failed(key.d, "abort")
             ELSE IF KeyRefused(key.d, m, key.n) THEN Failed(FreeTree(FreeTree(key.d, key.n), m), "error")
             ELSE IF value.end # "ok" THEN Failed(FreeTree(FreeTree(value.d, key.n), m), value.end)
             ELSE LoadPairs(AddPair(filled, m, NewestPair(filled)), es, value.i, depth, m)

LoadedRoot(es, root) ==
    IF root.end # "ok" THEN root
    ELSE IF root.i > Len(es) \/ es[root.i].type # "DOCUMENT-END" THEN Failed(FreeTree(root.d, root.n), "error")
    ELSE [root EXCEPT !.d = ResolveParents([@ EXCEPT !.root = root.n], root.n, None)]
LoadRecursive(es) == LoadedRoot(es, LoadNode(EmptyDocument, es, 3, 1))
=============================================================================
