---------------------------- MODULE FyComposer ----------------------------
(* fy_composer: it is given the events of a parser and calls back with each *)
(* of them and the path of the node it is about.  A key that is a collection *)
(* is built into a document of its own meanwhile, and the nodes in it have   *)
(* the places of a path of their own behind that of the mapping.             *)
EXTENDS FyIterator

MappingComponent == [type |-> "map", root |-> TRUE, awaitKey |-> TRUE, hasKey |-> FALSE,
                     accumulating |-> FALSE, key |-> <<>>]
SequenceComponent == [type |-> "seq", idx |-> -1]
Path == [components |-> <<>>, fydb |-> NewBuilder]
NewComposer == [paths |-> <<Path>>, seen |-> <<>>, where |-> "root", rc |-> 0]

IsMap(c) == c.type = "map"
IsCollectionRoot(c) == IF IsMap(c) THEN c.root ELSE c.idx < 0
ClearState(c) == IF IsMap(c) THEN MappingComponent ELSE SequenceComponent

(* The component a path ends in, <<>> if it has none. *)
Tail1(p) == IF p.components = <<>> THEN <<>> ELSE <<p.components[Len(p.components)]>>
LastIsMap(p) == Tail1(p) # <<>> /\ IsMap(Tail1(p)[1])
LastIsSeq(p) == Tail1(p) # <<>> /\ ~IsMap(Tail1(p)[1])
Accumulates(p) == LastIsMap(p) /\ Tail1(p)[1].accumulating
AwaitsKey(p) == LastIsMap(p) /\ Tail1(p)[1].awaitKey
SetTail(ps, i, c) == [ps EXCEPT ![i].components[Len(ps[i].components)] = c]

(***************************************************************************)
(* What a callback can ask of a path                                       *)
(***************************************************************************)
ComponentView(c) ==
    CASE ~IsMap(c) /\ c.idx < 0 -> <<"collection">>
      [] ~IsMap(c) /\ c.idx >= 0 -> <<"item", c.idx>>
      [] IsMap(c) /\ (~c.hasKey \/ c.root) -> IF c.accumulating THEN <<"key">> ELSE <<"collection">>
      [] IsMap(c) /\ c.hasKey /\ ~c.root -> <<IF c.awaitKey THEN "key" ELSE "value", c.key>>
PathView(ps) == [i \in DOMAIN FlattenSeq([j \in DOMAIN ps |-> ps[j].components]) |->
                   ComponentView(FlattenSeq([j \in DOMAIN ps |-> ps[j].components])[i])]

(* fy_path_last_not_collection_root_component *)
LastNotRoot(ps) ==
    LET own == ps[Len(ps)].components
        n == Len(own)
        parent == IF Len(ps) > 1 THEN Tail1(ps[Len(ps) - 1]) ELSE <<>>
    IN  CASE n = 0 -> <<>>
          [] n > 0 /\ ~IsCollectionRoot(own[n]) -> <<own[n]>>
          [] n > 1 /\ IsCollectionRoot(own[n]) -> <<own[n - 1]>>
          [] n = 1 /\ IsCollectionRoot(own[n]) -> parent
(* Which of fy_path_in_root, _sequence, _mapping_key, _mapping_value holds. *)
Where(ps) ==
    LET c == LastNotRoot(ps)
    IN  IF c = <<>> THEN "root" ELSE IF ~IsMap(c[1]) THEN "item" ELSE IF c[1].awaitKey THEN "key" ELSE "value"

(***************************************************************************)
(* fy_composer_process_event_private.  A result is the paths, what the     *)
(* callback saw, and whether there was an error.                            *)
(***************************************************************************)
Composed(ps, seen, where, rc) == [paths |-> ps, seen |-> seen, where |-> where, rc |-> rc]
Failure(ps) == Composed(ps, <<>>, "root", -1)

IsStart(e) == e.type \in {"MAPPING-START", "SEQUENCE-START", "SCALAR", "ALIAS"}
IsEnd(e) == e.type \in {"MAPPING-END", "SEQUENCE-END", "SCALAR", "ALIAS"}
IsCollection(e) == e.type \notin {"SCALAR", "ALIAS"}

(* The component of the path is brought to the node the event is about. *)
Arrive(ps, i, e) ==
    LET c == Tail1(ps[i])[1]
        next == IF IsStart(e) /\ LastIsSeq(ps[i]) THEN SetTail(ps, i, [c EXCEPT !.idx = IF @ < 0 THEN 0 ELSE @ + 1]) ELSE ps
        new == IF e.type = "MAPPING-START" THEN MappingComponent ELSE SequenceComponent
    IN  CASE IsCollection(e) /\ IsStart(e) -> [next EXCEPT ![i].components = Append(@, new)]
          [] IsCollection(e) /\ IsEnd(e) -> SetTail(ps, i, ClearState(c))
          [] ~IsCollection(e) -> IF AwaitsKey(ps[i])
                                 THEN SetTail(ps, i, [c EXCEPT !.key = <<IF e.type = "ALIAS" THEN "alias" ELSE e.style, e.text>>,
                                                               !.hasKey = TRUE, !.root = FALSE])
                                 ELSE next
\* Mutant: the key stays after its value.
LeaveKeepsKey(ps, i, e) ==
    LET popped == IF IsCollection(e) /\ IsEnd(e) THEN [ps EXCEPT ![i].components = Front(@)] ELSE ps
        c == Tail1(popped[i])[1]
    IN  IF ~(IsEnd(e) /\ LastIsMap(popped[i])) THEN popped ELSE SetTail(popped, i, [c EXCEPT !.awaitKey = ~@])
(* ... and away from it. *)
Leave(ps, i, e) ==
    LET popped == IF IsCollection(e) /\ IsEnd(e) THEN [ps EXCEPT ![i].components = Front(@)] ELSE ps
        c == Tail1(popped[i])[1]
    IN  IF ~(IsEnd(e) /\ LastIsMap(popped[i])) THEN popped
        ELSE SetTail(popped, i, IF c.awaitKey THEN [c EXCEPT !.awaitKey = FALSE] ELSE ClearState(c))

KeyTaken(c, b) == [c EXCEPT !.accumulating = FALSE, !.key = Shape(b.d, b.d.root), !.hasKey = TRUE,
                            !.awaitKey = FALSE, !.root = FALSE]

(* Inside a key an event goes to the path of the key, then to its builder.   *)
Accumulated(inner, i, c, fydb) ==
    LET built == [inner.paths EXCEPT ![i].fydb = fydb]
        taken == [built EXCEPT ![i].fydb = [NewBuilder EXCEPT !.inStream = TRUE, !.single = TRUE]]
    IN  IF inner.rc < 0 THEN inner
        ELSE IF fydb.rc < 0 THEN [inner EXCEPT !.paths = built, !.rc = -1]
        ELSE IF fydb.rc = 0 THEN [inner EXCEPT !.paths = built]
        ELSE [inner EXCEPT !.paths = SetTail(Front(taken), i, KeyTaken(c, fydb))]

(* A key that is a collection is built by a builder of its own, which is in  *)
(* the document of the parser from the start.                                *)
KeyBuilder == SetInDocument(TRUE)
KeyOpened(ps, i, c, opened) ==
    Append([SetTail(ps, i, [c EXCEPT !.accumulating = TRUE]) EXCEPT ![i].fydb = opened], Path)
CalledBack(here, i, e) == Composed(Leave(here, i, e), PathView(here), Where(here), 0)
RECURSIVE ProcessAt(_, _, _), ProcessWithin(_, _, _, _)
ProcessWithin(ps, opened, i, e) ==
    IF opened[i].fydb.rc # 0 THEN Failure(ps) ELSE ProcessAt(opened, i + 1, e)
ProcessAt(ps, i, e) ==
    LET c == Tail1(ps[i])[1]
    IN  IF e.type \in {"STREAM-START", "STREAM-END", "DOCUMENT-START", "DOCUMENT-END"}
        THEN Composed(ps, PathView(ps), Where(ps), 0)
        ELSE IF Accumulates(ps[i])
        THEN Accumulated(ProcessAt(ps, i + 1, e), i, c, ProcessEvent(ps[i].fydb, e))
        ELSE IF IsStart(e) /\ IsCollection(e) /\ AwaitsKey(ps[i])
        THEN ProcessWithin(ps, KeyOpened(ps, i, c, ProcessEvent(KeyBuilder, e)), i, e)
        ELSE CalledBack(Arrive(ps, i, e), i, e)

(* On an error the components of the outermost path are taken down, each     *)
(* with an event of no type.                                                 *)
Halted(r) == IF r.rc < 0 THEN [r EXCEPT !.paths[1].components = <<>>] ELSE r
Compose(c, e) == Halted(ProcessAt(c.paths, 1, e))

(* fy_parse_compose with FYPCF_RESOLVE_DOCUMENT: the events of the documents *)
(* that were loaded, until one is refused; the composer behind each of them. *)
ComposeLoaded(documents) ==
    LET events == Iterate(documents)
        step(cs, e) == IF cs # <<>> /\ Last(cs).rc < 0 THEN cs
                       ELSE Append(cs, Compose(IF cs = <<>> THEN NewComposer ELSE Last(cs), e))
    IN  FoldLeft(step, <<>>, events)
=============================================================================
