----------------------------- MODULE FyEditing -----------------------------
(* The operations with which a client of libfyaml edits a document.  A       *)
(* result is the document and whether the operation was done ("ok"), was     *)
(* refused ("refused": nothing is changed), failed half way ("failed"), or   *)
(* ended the program in an assertion or a wild pointer ("abort").            *)
EXTENDS FyResolve

Edited(d) == [d |-> d, end |-> "ok"]
Ended(d, end) == [d |-> d, end |-> end]

IsMapping(d, n) == n # None /\ d.node[n].type = "mapping"
IsSequence(d, n) == n # None /\ d.node[n].type = "sequence"
Attached(d, n) == n # None /\ d.node[n].attached
Place(seq, x) == CHOOSE i \in DOMAIN seq : seq[i] = x

(***************************************************************************)
(* Sequences                                                               *)
(***************************************************************************)
Insertable(d, s, n) == IsSequence(d, s) /\ n # None /\ ~Attached(d, n)
Inserted(d, s, n, at) ==
    SetAttached([SetParent(d, n, s) EXCEPT !.node[s].items = InsertAt(@, at, n)], n, TRUE)

SequenceAppend(d, s, n) ==
    IF Insertable(d, s, n) THEN Edited(Inserted(d, s, n, Len(d.node[s].items) + 1)) ELSE Ended(d, "refused")
SequencePrepend(d, s, n) ==
    IF Insertable(d, s, n) THEN Edited(Inserted(d, s, n, 1)) ELSE Ended(d, "refused")
HasItem(d, s, mark) == IsSequence(d, s) /\ mark \in Range(d.node[s].items)
SequenceInsertBefore(d, s, mark, n) ==
    IF HasItem(d, s, mark) /\ Insertable(d, s, n) THEN Edited(Inserted(d, s, n, Place(d.node[s].items, mark)))
    ELSE Ended(d, "refused")
SequenceInsertAfter(d, s, mark, n) ==
    IF HasItem(d, s, mark) /\ Insertable(d, s, n) THEN Edited(Inserted(d, s, n, Place(d.node[s].items, mark) + 1))
    ELSE Ended(d, "refused")
SequenceRemove(d, s, n) ==
    IF ~HasItem(d, s, n) THEN Ended(d, "refused")
    ELSE Edited(SetAttached(SetParent([d EXCEPT !.node[s].items = SelectSeq(@, LAMBDA i : i # n)], n, None), n, FALSE))

(***************************************************************************)
(* Mappings                                                                *)
(***************************************************************************)
PairInsertable(d, m, k, v) ==
    IsMapping(d, m) /\ ~Attached(d, k) /\ ~Attached(d, v) /\ ~KeyRefused(d, m, k)
PairPrepared(d, m, k, v) ==
    LET in == SetParent(SetKeyRoot(SetParent(d, k, m), k), v, m)
    IN  AllocPair(in, [key |-> k, value |-> v, parent |-> m])
MappingAppend(d, m, k, v) ==
    LET e == PairPrepared(d, m, k, v)
    IN  IF PairInsertable(d, m, k, v) THEN Edited(AddPair(e, m, NewestPair(e))) ELSE Ended(d, "refused")
MappingPrepend(d, m, k, v) ==
    LET e == PairPrepared(d, m, k, v)
        p == NewestPair(e)
        in == SetAttached(SetAttached(e, k, TRUE), v, TRUE)
    IN  IF PairInsertable(d, m, k, v) THEN Edited([in EXCEPT !.node[m].pairs = <<p>> \o @]) ELSE Ended(d, "refused")

Unplaced(d, n) == SetAttached(SetParent(d, n, None), n, FALSE)
WithoutPair(d, m, p) == [d EXCEPT !.node[m].pairs = SelectSeq(@, LAMBDA q : q # p)]
(* The pair is the client's from now on, and so are its key and its value. *)
MappingRemove(d, m, p) ==
    IF ~IsMapping(d, m) \/ p \notin Range(d.node[m].pairs) THEN Ended(d, "refused")
    ELSE LET e == Unplaced(Unplaced(WithoutPair(d, m, p), d.pair[p].key), d.pair[p].value)
         IN  Edited([e EXCEPT !.pair[p].parent = None])
\* Mutant: the value goes with the pair.
RemoveByKeyFreesValue(d, m, k) ==
    LET p == LookupPair(d, m, k)
        e == Unplaced(d, d.pair[p].value)
        f == IF k = d.pair[p].key THEN e ELSE FreeTree(e, k)
    IN  IF ~IsMapping(d, m) \/ p = None THEN Ended(d, "refused") ELSE Edited(FreePair(WithoutPair(f, m, p), p))
(* The key the client asks with is freed, wherever it is, unless it is the   *)
(* key of the pair; the value is the client's.                               *)
FoundRemoved(d, m, k, p) ==
    LET e == Unplaced(d, d.pair[p].value)
        f == IF k = d.pair[p].key THEN e ELSE FreeTree(e, k)
    IN  IF ~IsMapping(d, m) \/ p = None THEN Ended(d, "refused")
        ELSE Edited(FreePair(WithoutPair([f EXCEPT !.pair[p].value = None], m, p), p))
MappingRemoveByKey(d, m, k) == FoundRemoved(d, m, k, LookupPair(d, m, k))

(* A new key or value of a pair does not get the mapping as its parent. *)
PairSetKey(d, p, k) ==
    LET m == d.pair[p].parent
        others == IF m = None THEN {} ELSE Range(d.node[m].pairs) \ {p}
        e == SetAttached([FreeTree(d, d.pair[p].key) EXCEPT !.pair[p].key = k], k, TRUE)
    IN  IF Attached(d, k) \/ \E q \in others : Compare(d, d.pair[q].key, k) THEN Ended(d, "refused") ELSE Edited(e)
PairSetValue(d, p, v) ==
    IF Attached(d, v) THEN Ended(d, "refused")
    ELSE Edited(SetAttached([FreeTree(d, d.pair[p].value) EXCEPT !.pair[p].value = v], v, TRUE))

(***************************************************************************)
(* The document                                                            *)
(***************************************************************************)
SetRoot(d, n) ==
    IF Attached(d, n) THEN Ended(d, "refused")
    ELSE Edited(SetAttached(SetParent([FreeTree(d, d.root) EXCEPT !.root = n], n, None), n, TRUE))

(* The pair of a mapping whose value is n. *)
PairOfValue(d, m, n) ==
    LET ps == {p \in Range(d.node[m].pairs) : d.pair[p].value = n}
    IN  IF ps = {} THEN None ELSE CHOOSE p \in ps : TRUE

(* What is in the place of a node becomes a copy, which is told neither its  *)
(* parent nor that it is attached.                                           *)
ReplaceBy(d, to, c) ==
    LET p == d.node[to].parent
        freed == FreeTree(c.d, to)
        q == PairOfValue(d, p, to)
    IN  IF p = None THEN Edited([freed EXCEPT !.root = c.n])
        ELSE IF IsSequence(d, p)
        THEN Edited([freed EXCEPT !.node[p].items = [@ EXCEPT ![Place(@, to)] = c.n]])
        ELSE IF q = None THEN Ended(c.d, "failed")
        ELSE Edited([freed EXCEPT !.pair[q].value = c.n])
Replace(d, to, from) == ReplaceBy(d, to, CopyNode(d, from, None))

\* Mutant: the copies go to the head of the sequence.
PrependCopies(d, s, from) ==
    LET copy(e, i) == LET c == CopyNode(e, i, None)
                      IN  SetAttached([c.d EXCEPT !.node[s].items = <<c.n>> \o @], c.n, TRUE)
    IN  FoldLeft(copy, d, d.node[from].items)
AppendCopies(d, s, from) ==
    LET add(c) == AddItem(c.d, s, c.n)
        copy(e, i) == add(CopyNode(e, i, None))
    IN  FoldLeft(copy, d, d.node[from].items)
Adopt(d, n) ==
    LET item(e, i) == SetParent(e, i, n)
        pair(e, p) == [SetKeyRoot(SetParent(SetParent(e, e.pair[p].key, n), e.pair[p].value, n), e.pair[p].key)
                         EXCEPT !.pair[p].parent = n]
    IN  FoldLeft(pair, FoldLeft(item, d, d.node[n].items), d.node[n].pairs)

Adopted(r, n) == IF r.end = "ok" THEN Edited(Adopt(r.d, n)) ELSE r

RECURSIVE NodeInsert(_, _, _), MergePairs(_, _, _)
NodeInsert(d, to, from) ==
    IF to = None THEN Ended(d, "failed")
    ELSE IF d.node[to].parent # None /\ from = None THEN Ended(d, "refused")
    ELSE IF d.node[to].parent = None /\ to # d.root THEN Ended(d, "abort")
    ELSE IF from = None THEN Edited([FreeTree(d, to) EXCEPT !.root = None])
    ELSE IF d.node[from].type # d.node[to].type \/ d.node[from].type = "scalar" THEN Replace(d, to, from)
    ELSE IF IsSequence(d, to) THEN Edited(Adopt(AppendCopies(d, to, from), to))
    ELSE Adopted(MergePairs(Edited(d), to, d.node[from].pairs), to)
MergePairs(r, m, ps) ==
    IF r.end # "ok" \/ ps = <<>> THEN r
    ELSE LET q == r.d.pair[Head(ps)]
             there == LookupPair(r.d, m, q.key)
             add(e) == Edited(AddPair(e, m, NewestPair(e)))
         IN  MergePairs(IF there = None THEN add(CopyPair(r.d, Head(ps)))
                        ELSE NodeInsert(r.d, r.d.pair[there].value, q.value), m, Tail(ps))
(* fy_document_insert_at; the node that is given is freed, come what may. *)
WithFreed(r, n) == Ended(FreeNode(r.d, n), r.end)
InsertNodeAt(d, to, from) == WithFreed(NodeInsert(d, to, from), from)

(* Pairs whose mapping is not known cannot be brought in order if two of     *)
(* their keys are collections of one kind.                                   *)
RECURSIVE SortNode(_, _)
SortNode(d, n) ==
    IF n = None THEN Edited(d) ELSE
    LET ps == d.node[n].pairs
        sorted == [i \in DOMAIN ps |-> ps[CHOOSE j \in DOMAIN ps : SortedIndex(d, n, j) = i - 1]]
        below(r, m) == IF r.end = "ok" THEN SortNode(r.d, m) ELSE r
        pair(r, p) == LET s == below(below(r, d.pair[p].key), d.pair[p].value)
                      IN  [s EXCEPT !.d.pair[p].parent = n]
    IN  IF ~Sortable(d, n) THEN Ended(d, "abort")
        ELSE FoldLeft(pair, FoldLeft(below, Edited([d EXCEPT !.node[n].pairs = sorted]), d.node[n].items), sorted)

NodeFree(d, n) == IF Attached(d, n) THEN Ended(d, "refused") ELSE Edited(FreeTree(d, n))
NodeSetAnchor(d, n, name) == IF AnchorOf(d, n) # {} THEN Ended(d, "refused") ELSE Edited(SetAnchor(d, n, name, 0))
=============================================================================
