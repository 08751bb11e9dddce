----------------------------- MODULE FyIterator -----------------------------
(* fy_document_iterator: the events of documents, made without recursion    *)
(* from a stack of the collections that are open.  fy_parse_compose takes    *)
(* the events of resolved documents from it, and the merge keys of the       *)
(* stream of events those of their values.                                   *)
EXTENDS FyLoaders

(* state: where the iteration is; root: the node it starts from; open: *)
(* the collections around, each with the place of what comes next in it and, *)
(* in a mapping, whether the key of that pair has been given.                *)
NewIterator == [state |-> "stream start", root |-> None, open |-> <<>>]
Opened(n) == [node |-> n, next |-> 1, keyGiven |-> FALSE]

(* A call gives an event, or none; in a state it is not for it is an error,  *)
(* which stays.                                                              *)
Gives(it, e) == [it |-> it, given |-> <<e>>]
GivesNone(it) == [it |-> it, given |-> <<>>]
Misused(it) == GivesNone([it EXCEPT !.state = "error"])
Boundary(type) == Event(type, None, "any", NoText, 0)

StreamStart(it) ==
    IF it.state \notin {"stream start", "stream end or document start"} THEN Misused(it)
    ELSE Gives([it EXCEPT !.state = "document start"], Boundary("STREAM-START"))
StreamEnd(it) ==
    IF it.state \notin {"document start", "stream end or document start"} THEN Misused(it)
    ELSE Gives([it EXCEPT !.state = "stream start"], Boundary("STREAM-END"))
DocumentStart(it, d) ==
    IF it.state \notin {"document start", "stream end or document start"} THEN Misused(it)
    ELSE Gives([it EXCEPT !.state = "body start", !.root = d.root], Boundary("DOCUMENT-START"))
DocumentEnd(it) ==
    IF it.state # "document end" THEN Misused(it)
    ELSE Gives([it EXCEPT !.state = "stream end or document start", !.root = None], Boundary("DOCUMENT-END"))
NodeStart(it, n) == IF it.state = "error" THEN it ELSE [it EXCEPT !.state = "body start", !.root = n]

(***************************************************************************)
(* The body                                                                *)
(***************************************************************************)
(* An event has the anchor of its node, the first that is on it.             *)
FirstAnchor(d, n) ==
    LET on == AnchorOf(d, n)
    IN  IF on = {} THEN None ELSE d.anchors[CHOOSE i \in on : \A j \in on : i <= j].name
StartType(d, n) ==
    IF IsAlias(d, n) THEN "ALIAS"
    ELSE CASE d.node[n].type = "scalar" -> "SCALAR" [] d.node[n].type = "sequence" -> "SEQUENCE-START"
           [] d.node[n].type = "mapping" -> "MAPPING-START"
StartEvent(d, n) ==
    Event(StartType(d, n), IF IsAlias(d, n) THEN None ELSE FirstAnchor(d, n), d.node[n].style, d.node[n].text, d.node[n].at)
EndEvent(d, n) ==
    Event(IF d.node[n].type = "sequence" THEN "SEQUENCE-END" ELSE "MAPPING-END", None, "any", NoText, d.node[n].at)

(* What comes next in a collection, None at its end, and the place behind it. *)
NextIn(d, f) ==
    LET node == d.node[f.node]
    IN  CASE node.type = "sequence" -> IF f.next > Len(node.items) THEN None ELSE node.items[f.next]
          [] node.type = "mapping" -> IF f.next > Len(node.pairs) THEN None
                                      ELSE IF f.keyGiven THEN d.pair[node.pairs[f.next]].value
                                      ELSE d.pair[node.pairs[f.next]].key
\* Mutant: the pair is left when its key has been given.
BehindKey(d, f) == [f EXCEPT !.next = @ + 1]
Behind(d, f) ==
    IF d.node[f.node].type = "mapping" /\ ~f.keyGiven THEN [f EXCEPT !.keyGiven = TRUE]
    ELSE [f EXCEPT !.next = @ + 1, !.keyGiven = FALSE]

(* The body is given as nodes, collections once more at their end.           *)
Visit(d, it, n) ==
    Gives(IF d.node[n].type = "scalar" THEN it ELSE [it EXCEPT !.open = Append(@, Opened(n))], [node |-> n, end |-> FALSE])
InCollection(d, it, n) ==
    IF n # None THEN Visit(d, [it EXCEPT !.open[Len(it.open)] = Behind(d, @)], n)
    ELSE Gives([it EXCEPT !.open = Front(@)], [node |-> Last(it.open).node, end |-> TRUE])
BodyNext(d, it) ==
    CASE it.state \notin {"body start", "body"} -> Misused(it)
      [] it.state \in {"body start", "body"} /\ it.open = <<>> ->
           IF it.root = None \/ it.state = "body" THEN GivesNone([it EXCEPT !.state = "document end"])
           ELSE Visit(d, [it EXCEPT !.state = "body"], it.root)
      [] it.state \in {"body start", "body"} /\ it.open # <<>> -> InCollection(d, it, NextIn(d, Last(it.open)))
(* ... called until it gives none.                                           *)
FollowedBy(r, s) == [it |-> s.it, given |-> r.given \o s.given]
RECURSIVE Body(_, _), BodyBehind(_, _, _)
BodyBehind(d, r, next) == IF next.given = <<>> THEN FollowedBy(r, next) ELSE Body(d, FollowedBy(r, next))
Body(d, r) == BodyBehind(d, r, BodyNext(d, r.it))
BodyOf(d, it) == Body(d, GivesNone(it))
BodyEvents(d, r) ==
    [r EXCEPT !.given = [i \in DOMAIN @ |-> IF @[i].end THEN EndEvent(d, @[i].node) ELSE StartEvent(d, @[i].node)]]

(* The events of a node and all below it, and the nodes in that order.       *)
EventsOf(d, n) == BodyEvents(d, BodyOf(d, NodeStart(NewIterator, n))).given
NodesOf(d, n) ==
    LET nodes(starts) == [i \in DOMAIN starts |-> starts[i].node]
    IN  nodes(SelectSeq(BodyOf(d, NodeStart(NewIterator, n)).given, LAMBDA v : ~v.end))

(* The calls fy_parse_compose makes for the documents it has loaded.         *)
WithBody(r, d) == FollowedBy(r, BodyEvents(d, BodyOf(d, r.it)))
WithDocumentEnd(r) == FollowedBy(r, DocumentEnd(r.it))
IterateDocument(r, d) == WithDocumentEnd(WithBody(FollowedBy(r, DocumentStart(r.it, d)), d))
WithStreamEnd(r) == FollowedBy(r, StreamEnd(r.it))
Iterate(documents) == WithStreamEnd(FoldLeft(IterateDocument, StreamStart(NewIterator), documents)).given
=============================================================================
