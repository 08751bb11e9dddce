------------------------------ MODULE FyNodes ------------------------------
(* The document tree of libfyaml (fy-doc.c): nodes, pairs and anchors, and   *)
(* the helpers on them that the loaders and the editing operations share.    *)
(* A document is a record of a heap of nodes, a heap of pairs, the list of   *)
(* anchors and the root.  A cell of the heap is never reused: a node that is *)
(* freed stays in it with live = FALSE, so that a pointer to it can be told. *)
(* The texts of scalars are numbers in the order of their bytes, 0 being the *)
(* empty text.  Tags, styles that are only shown, comments and the hash      *)
(* tables (which only a document of the recursive loader has) are left out.  *)
EXTENDS Integers, Sequences, SequencesExt, FiniteSets

CONSTANTS MergeText,        \* the text "<<"
          AllowDuplicates   \* FYPCF_ALLOW_DUPLICATE_KEYS

ASSUME MergeTextAssumption == MergeText \in Nat \ {0}
ASSUME AllowDuplicatesAssumption == AllowDuplicates \in BOOLEAN

None == 0          \* the null pointer
NoText == 0        \* a scalar without characters

NewNode(type, style, text, at) ==
    [type |-> type, style |-> style, text |-> text, at |-> at, items |-> <<>>, pairs |-> <<>>,
     parent |-> None, attached |-> FALSE, keyRoot |-> FALSE, live |-> TRUE]
EmptyDocument == [node |-> <<>>, pair |-> <<>>, anchors |-> <<>>, root |-> None]

Alloc(d, n) == [d EXCEPT !.node = Append(@, n)]
AllocPair(d, p) == [d EXCEPT !.pair = Append(@, p)]
Newest(d) == Len(d.node)
NewestPair(d) == Len(d.pair)

IsAlias(d, n) == n # None /\ d.node[n].type = "scalar" /\ d.node[n].style = "alias"
IsNull(d, n) == n = None \/ (d.node[n].type = "scalar" /\ d.node[n].text = NoText)

Children(d, n) ==
    (Range(d.node[n].items) \cup {d.pair[p].key : p \in Range(d.node[n].pairs)}
                            \cup {d.pair[p].value : p \in Range(d.node[n].pairs)}) \ {None}
RECURSIVE Below(_, _)
Below(d, n) == IF n = None THEN {} ELSE {n} \cup UNION {Below(d, m) : m \in Children(d, n)}

SetParent(d, n, p) == IF n = None THEN d ELSE [d EXCEPT !.node[n].parent = p]
SetAttached(d, n, b) == IF n = None THEN d ELSE [d EXCEPT !.node[n].attached = b]
SetKeyRoot(d, n) == IF n = None THEN d ELSE [d EXCEPT !.node[n].keyRoot = TRUE]

(* Free a node with everything below it and the anchors that are on them. *)
FreeTree(d, n) ==
    LET dead == Below(d, n)
    IN  [d EXCEPT !.node = [i \in DOMAIN @ |-> IF i \in dead THEN [@[i] EXCEPT !.live = FALSE, !.attached = FALSE]
                                                              ELSE @[i]],
                  !.anchors = SelectSeq(@, LAMBDA a : a.node \notin dead)]
(* The public operation refuses a node that is part of a tree. *)
FreeNode(d, n) == IF n = None \/ d.node[n].attached THEN d ELSE FreeTree(d, n)
FreePair(d, p) == FreeTree(FreeTree(d, d.pair[p].key), d.pair[p].value)

(***************************************************************************)
(* Anchors                                                                 *)
(***************************************************************************)
\* Mutant: a node without an anchor is put in the list too.
RegisterAlways(d, n, name, at) == [d EXCEPT !.anchors = Append(@, [name |-> name, at |-> at, node |-> n])]
RegisterAnchor(d, n, name, at) ==
    IF name = None THEN d ELSE [d EXCEPT !.anchors = Append(@, [name |-> name, at |-> at, node |-> n])]
AnchorsNamed(d, name) == {i \in DOMAIN d.anchors : d.anchors[i].name = name}
Last1(S) == CHOOSE i \in S : \A j \in S : j <= i
\* Mutant: the last anchor of the name, wherever the alias is.
LookupLast(d, name, at) ==
    IF AnchorsNamed(d, name) = {} THEN None ELSE d.anchors[Last1(AnchorsNamed(d, name))].node
(* The anchor an alias at a place of the text means: the last one ahead of   *)
(* it, and without one the last of all.                                      *)
LookupByToken(d, name, at) ==
    LET all == AnchorsNamed(d, name)
        before == {i \in all : d.anchors[i].at < at}
    IN  IF all = {} THEN None
        ELSE d.anchors[IF Cardinality(all) > 1 /\ before # {} THEN Last1(before) ELSE Last1(all)].node
AnchorOf(d, n) == {i \in DOMAIN d.anchors : d.anchors[i].node = n}
(* A client's anchor goes to the head of the list, and a node has one only.  *)
SetAnchor(d, n, name, at) ==
    IF AnchorOf(d, n) # {} THEN d
    ELSE [d EXCEPT !.anchors = <<[name |-> name, at |-> at, node |-> n]>> \o @]

FollowAlias(d, n) == IF IsAlias(d, n) THEN LookupByToken(d, d.node[n].text, d.node[n].at) ELSE None

(***************************************************************************)
(* Comparison.  Two mappings are compared pair by pair in sorted order:      *)
(* mappings ahead of sequences ahead of aliases ahead of scalars, scalars by *)
(* their text and the others in the order they have in their own mapping.    *)
(***************************************************************************)
SortClass(d, k) ==
    IF k # None /\ d.node[k].type = "mapping" THEN 0
    ELSE IF k # None /\ d.node[k].type = "sequence" THEN 1
    ELSE IF IsAlias(d, k) THEN 2 ELSE IF k # None THEN 3 ELSE 4
SortText(d, k) == IF SortClass(d, k) \in {2, 3} THEN d.node[k].text ELSE 0
(* a is ahead of b: in its class, in its text, or by its place.              *)
Ahead(a, b) ==
    a[1] < b[1] \/ (a[1] = b[1] /\ (a[2] < b[2] \/ (a[2] = b[2] /\ a[3] < b[3])))
SortsBefore(d, m, i, j) ==
    LET rank(x) == LET k == d.pair[d.node[m].pairs[x]].key IN <<SortClass(d, k), SortText(d, k), x>>
    IN  Ahead(rank(i), rank(j))
SortedIndex(d, m, i) == Cardinality({j \in DOMAIN d.node[m].pairs : SortsBefore(d, m, j, i)})

RECURSIVE Compare(_, _, _)
Compare(d, a, b) ==
    \/ a = b
    \/ IsNull(d, a) /\ IsNull(d, b)
    \/ /\ ~IsNull(d, a) /\ ~IsNull(d, b)
       /\ d.node[a].type = d.node[b].type
       /\ CASE d.node[a].type = "scalar" ->
                 IsAlias(d, a) = IsAlias(d, b) /\ d.node[a].text = d.node[b].text
            [] d.node[a].type = "sequence" ->
                 /\ Len(d.node[a].items) = Len(d.node[b].items)
                 /\ \A i \in DOMAIN d.node[a].items : Compare(d, d.node[a].items[i], d.node[b].items[i])
            [] d.node[a].type = "mapping" ->
                 /\ Len(d.node[a].pairs) = Len(d.node[b].pairs)
                 /\ \A i, j \in DOMAIN d.node[a].pairs :
                      SortedIndex(d, a, i) = SortedIndex(d, b, j) =>
                        LET p == d.pair[d.node[a].pairs[i]]
                            q == d.pair[d.node[b].pairs[j]]
                        IN  Compare(d, p.key, q.key) /\ Compare(d, p.value, q.value)

(* The pair of a mapping with a key, the first that compares equal. *)
EarliestPair(d, m, found) ==
    IF found = {} THEN None ELSE d.node[m].pairs[CHOOSE i \in found : \A j \in found : i <= j]
LookupPair(d, m, key) ==
    EarliestPair(d, m, {i \in DOMAIN d.node[m].pairs : Compare(d, d.pair[d.node[m].pairs[i]].key, key)})
KeyIsDuplicate(d, m, key) == LookupPair(d, m, key) # None
KeyRefused(d, m, key) == ~AllowDuplicates /\ KeyIsDuplicate(d, m, key)

(***************************************************************************)
(* Links                                                                   *)
(***************************************************************************)
AddItem(d, s, n) == SetAttached([d EXCEPT !.node[s].items = Append(@, n)], n, TRUE)
AddPair(d, m, p) ==
    SetAttached(SetAttached([d EXCEPT !.node[m].pairs = Append(@, p)], d.pair[p].key, TRUE), d.pair[p].value, TRUE)

(* A deep copy.  Its pairs do not name the mapping they are in, those of the *)
(* source come to name the copy, and an anchor is taken along (of the list   *)
(* of the source's document) only if the document has none of that name.     *)
RECURSIVE CopyBetween(_, _, _, _)
CopyBetween(anchors, d, from, parent) ==
    IF from = None THEN [d |-> d, n |-> None] ELSE
    LET n == d.node[from]
        new == Newest(d) + 1
        bare == Alloc(d, [n EXCEPT !.items = <<>>, !.pairs = <<>>, !.parent = parent,
                                   !.attached = FALSE, !.keyRoot = FALSE])
        item(e, i) == LET c == CopyBetween(anchors, e, i, new) IN AddItem(c.d, new, c.n)
        pair(e, p) == LET k == CopyBetween(anchors, e, e.pair[p].key, new)
                          v == CopyBetween(anchors, k.d, e.pair[p].value, new)
                          f == AllocPair([v.d EXCEPT !.pair[p].parent = new],
                                         [key |-> k.n, value |-> v.n, parent |-> None])
                      IN  SetKeyRoot(AddPair(f, new, NewestPair(f)), k.n)
        full == FoldLeft(pair, FoldLeft(item, bare, n.items), n.pairs)
        mine == {i \in DOMAIN anchors : anchors[i].node = from}
        a == anchors[CHOOSE i \in mine : \A j \in mine : i <= j]
    IN  [n |-> new,
         d |-> IF mine # {} /\ AnchorsNamed(full, a.name) = {}
               THEN RegisterAnchor(full, new, a.name, a.at) ELSE full]
CopyNode(d, from, parent) == CopyBetween(d.anchors, d, from, parent)
(* A new pair of a copy of a key, then of its value; it is in no mapping yet. *)
CopiedPair(k, v) == AllocPair(v.d, [key |-> k.n, value |-> v.n, parent |-> None])
PairFor(k, value) == CopiedPair(k, CopyNode(k.d, value, None))
CopyPair(d, p) == PairFor(CopyNode(d, d.pair[p].key, None), d.pair[p].value)
\* Mutant: the anchors are left behind.
CloneWithoutAnchors(d) ==
    LET c == CopyBetween(<<>>, [d EXCEPT !.anchors = <<>>], d.root, None)
    IN  [clone |-> [c.d EXCEPT !.root = c.n], source |-> [c.d EXCEPT !.root = d.root, !.anchors = d.anchors]]
(* The clone of a document, and the document once it is cloned, which share  *)
(* no node.                                                                  *)
ClonedTo(d, c) ==
    [clone |-> [c.d EXCEPT !.root = c.n], source |-> [c.d EXCEPT !.root = d.root, !.anchors = d.anchors]]
Clone(d) == ClonedTo(d, CopyBetween(d.anchors, [d EXCEPT !.anchors = <<>>], d.root, None))

(* Every node below n gets its place as its parent. *)
RECURSIVE ResolveParents(_, _, _)
ResolveParents(d, n, parent) ==
    IF n = None THEN d ELSE
    LET item(e, i) == ResolveParents(e, i, n)
        pair(e, p) == [ResolveParents(ResolveParents(e, e.pair[p].key, n), e.pair[p].value, n)
                         EXCEPT !.pair[p].parent = n]
    IN  FoldLeft(pair, FoldLeft(item, SetParent(d, n, parent), d.node[n].items), d.node[n].pairs)

(* What a tree says, without the cells that hold it. *)
RECURSIVE Shape(_, _)
Shape(d, n) ==
    IF n = None THEN <<"none">> ELSE
    CASE d.node[n].type = "scalar" -> <<d.node[n].style, d.node[n].text>>
      [] d.node[n].type = "sequence" -> <<"sequence", [i \in DOMAIN d.node[n].items |-> Shape(d, d.node[n].items[i])]>>
      [] d.node[n].type = "mapping" ->
           <<"mapping", [i \in DOMAIN d.node[n].pairs |-> LET p == d.pair[d.node[n].pairs[i]]
                                                           IN  <<Shape(d, p.key), Shape(d, p.value)>>]>>
=============================================================================
