----------------------------- MODULE FyResolve -----------------------------
(* fy_document_resolve: every alias becomes a copy of what it stands for,   *)
(* and the pairs of what a merge key ("<<") names go into the mapping it is *)
(* in.  A pass over the tree may leave aliases to the next one.             *)
EXTENDS FyLoaders

(***************************************************************************)
(* fy_check_ref_loop.  A walk that starts at an alias marks every node it    *)
(* comes to; to come to a marked one, or to have too many of them, is a      *)
(* loop.  A node that is done is not looked at again.                        *)
(***************************************************************************)
Walk(visited, ref, loop) == [visited |-> visited, ref |-> ref, loop |-> loop]
RECURSIVE CheckRefLoop(_, _, _, _)
CheckRefLoop(d, n, w, inRef) ==
    IF w.loop \/ n = None \/ n \in w.visited THEN w
    ELSE IF inRef /\ (n \in w.ref \/ Cardinality(w.ref) >= WalkDepth) THEN [w EXCEPT !.loop = TRUE]
    ELSE LET node == d.node[n]
             here == IF inRef THEN [w EXCEPT !.ref = @ \cup {n}] ELSE w
             there == CheckRefLoop(d, FollowAlias(d, n), [here EXCEPT !.ref = @ \cup {n}], TRUE)
             item(v, i) == CheckRefLoop(d, i, v, inRef)
             pair(v, p) == item(item(v, d.pair[p].key), d.pair[p].value)
             after == IF IsAlias(d, n) THEN [there EXCEPT !.ref = IF inRef THEN @ ELSE {}]
                      ELSE FoldLeft(pair, FoldLeft(item, here, node.items), node.pairs)
         IN  [after EXCEPT !.visited = @ \cup {n}]
HasRefLoop(d) == CheckRefLoop(d, d.root, Walk({}, {}, FALSE), FALSE).loop

(***************************************************************************)
(* Replacing.  A result is the document and whether all went well.           *)
(***************************************************************************)
Done(d, ok) == [d |-> d, ok |-> ok]

(* The node takes over what is in a copy, which is freed. *)
TakeOver(c, to) ==
    LET t == c.d.node[c.n]
        moved == [c.d EXCEPT !.node[to] = [@ EXCEPT !.type = t.type, !.style = t.style, !.text = t.text,
                                                    !.at = t.at, !.items = t.items, !.pairs = t.pairs],
                             !.node[c.n].items = <<>>, !.node[c.n].pairs = <<>>]
    IN  FreeNode(moved, c.n)
CopyToScalar(d, to, from) == TakeOver(CopyNode(d, from, None), to)
ResolveAlias(d, n) ==
    LET target == FollowAlias(d, n)
    IN  IF target = None THEN Done(d, FALSE) ELSE Done(CopyToScalar(d, n, target), TRUE)

IsMergeKey(d, p) ==
    LET k == d.pair[p].key
    IN  k # None /\ d.node[k].type = "scalar" /\ d.node[k].style = "plain" /\ d.node[k].text = MergeText
MergeMapping(d, n) ==
    LET target == IF n = None THEN None ELSE FollowAlias(d, n)
    IN  IF target # None /\ d.node[target].type = "mapping" THEN target ELSE None
IsValidMerge(d, v) ==
    /\ v # None
    /\ \/ MergeMapping(d, v) # None
       \/ d.node[v].type = "sequence" /\ \A i \in Range(d.node[v].items) : MergeMapping(d, i) # None

(* The pairs of a mapping go in behind the merge key, each ahead of those    *)
(* before it, unless their key is there already.                             *)
Populate(d, m, p, source) ==
    LET place(d1) == CHOOSE i \in DOMAIN d1.node[m].pairs : d1.node[m].pairs[i] = p
        link(f) == [f EXCEPT !.node[m].pairs = InsertAt(@, place(f) + 1, NewestPair(f))]
        insert(e, q) == IF KeyRefused(e, m, e.pair[q].key) THEN e ELSE link(CopyPair(e, q))
    IN  FoldLeft(insert, d, d.node[source].pairs)

MergePair(d, m, p) ==
    LET v == d.pair[p].value
        sources == IF MergeMapping(d, v) # None THEN <<MergeMapping(d, v)>>
                   ELSE [i \in DOMAIN d.node[v].items |-> MergeMapping(d, d.node[v].items[i])]
        filled == FoldLeft(LAMBDA e, s : Populate(e, m, p, s), d, sources)
    IN  IF ~IsValidMerge(d, v) THEN Done(d, FALSE)
        ELSE Done(FreePair([filled EXCEPT !.node[m].pairs = SelectSeq(@, LAMBDA q : q # p)], p), TRUE)

OtherHasKey(d, m, p) ==
    \E q \in Range(d.node[m].pairs) \ {p} : Compare(d, d.pair[q].key, d.pair[p].key)

Then(r, q) == Done(q.d, r.ok /\ q.ok)
RECURSIVE ResolveNode(_, _), ResolvePairs(_, _, _, _), ResolveValue(_, _, _, _, _)
ResolveNode(d, n) ==
    IF n = None THEN Done(d, TRUE)
    ELSE IF IsAlias(d, n) THEN ResolveAlias(d, n)
    ELSE LET item(r, i) == Then(r, ResolveNode(r.d, i))
         IN  ResolvePairs(FoldLeft(item, Done(d, TRUE), d.node[n].items), n, d.node[n].pairs, 1)
(* The pairs that were there when the pass came to the mapping.  A key that  *)
(* is in the mapping twice once it is resolved ends the pass through it.     *)
ResolvePairs(r, m, ps, i) ==
    IF i > Len(ps) THEN r
    ELSE IF IsMergeKey(r.d, ps[i]) THEN ResolvePairs(Then(r, MergePair(r.d, m, ps[i])), m, ps, i + 1)
    ELSE ResolveValue(r, ResolveNode(r.d, r.d.pair[ps[i]].key), m, ps, i)
ResolveValue(r, key, m, ps, i) ==
    IF key.ok /\ OtherHasKey(key.d, m, ps[i]) THEN Done(key.d, FALSE)
    ELSE ResolvePairs(Then(Then(r, key), ResolveNode(key.d, key.d.pair[ps[i]].value)), m, ps, i + 1)

CountAliases(d) == Cardinality({n \in Below(d, d.root) : d.node[n].style = "alias"})
PurgeAnchors(d) == [d EXCEPT !.anchors = <<>>]

(* One turn of the loop, after a turn that left aliases: "again" if some are *)
(* left, but not as many.                                                    *)
Passed(d, left, end) == [d |-> d, left |-> left, end |-> end]
Counted(e, left, now) ==
    IF now = 0 THEN Passed(PurgeAnchors(e), 0, "ok")
    ELSE Passed(e, now, IF now = left THEN "error" ELSE "again")
Relinked(e, left) == Counted(e, left, CountAliases(e))
Resolved(r, left) ==
    IF r.ok THEN Relinked(ResolveParents(r.d, r.d.root, None), left) ELSE Passed(r.d, left, "error")
ResolvePass(d, left) ==
    IF HasRefLoop(d) THEN Passed(d, left, "error") ELSE Resolved(ResolveNode(d, d.root), left)
=============================================================================
