---------------------------- MODULE FyStreaming ----------------------------
(* The resolution of aliases in the stream of events (FYPCF_RESOLVE_DOCUMENT *)
(* given to fy_parser_parse): the events of an anchor's node are collected    *)
(* as they pass, and replayed where an alias names it; in a YAML 1.1          *)
(* document the value of a merge key is loaded as a document of its own, and  *)
(* its pairs are replayed in the place of the merge key.                      *)
EXTENDS FyIterator

(* An alias of the list, the latest being the last; the alias that holds the *)
(* pairs of a merge has no anchor.                                           *)
Alias(anchor, events, collecting) ==
    [anchor |-> anchor, events |-> events, collecting |-> collecting, nest |-> 0]

(* streaming_aliases, the stack of those that are replayed (sas), the stack  *)
(* of what the collections that pass expect (cts), the builder of a merge    *)
(* key's value, what was returned, and whether the parser is "ok", refused   *)
(* ("error") or followed the null pointer ("crash").  merges: the document   *)
(* is YAML 1.1.                                                              *)
NewStream(merges) ==
    [merges |-> merges, aliases |-> <<>>, replayed |-> <<>>, expects |-> <<>>, merging |-> FALSE,
     argument |-> NewBuilder, out |-> <<>>, end |-> "ok"]

Broken(s) == [s EXCEPT !.end = "error"]
Bare(e) == [e EXCEPT !.anchor = None]

\* Mutant: the list of the anchors is searched from its other end.
EarliestIn(s, name, all) ==
    LET named == {i \in all : s.aliases[i].anchor = name}
    IN  IF named = {} THEN None ELSE CHOOSE i \in named : \A j \in named : i <= j
LatestIn(s, name, all) ==
    LET named == {i \in all : s.aliases[i].anchor = name}
    IN  IF named = {} THEN None ELSE CHOOSE i \in named : \A j \in named : j <= i
LookupAlias(s, name) == LatestIn(s, name, DOMAIN s.aliases)
(* What is nearest ahead of the pivot, or else nearest behind it.            *)
LookupFrom(s, pivot, name) ==
    LET behind == {i \in DOMAIN s.aliases : i > pivot /\ s.aliases[i].anchor = name}
        ahead == LatestIn(s, name, 1 .. pivot - 1)
    IN  IF ahead # None THEN ahead
        ELSE IF behind = {} THEN None ELSE CHOOSE i \in behind : \A j \in behind : i <= j

(***************************************************************************)
(* Replaying                                                               *)
(***************************************************************************)
Playing(s) == Last(s.replayed)
Replay(s, i) == [s EXCEPT !.replayed = Append(@, [alias |-> i, next |-> 1])]
(* The next event; the replays that are at their end are left.               *)
Advanced(s) ==
    LET r == [s.replayed EXCEPT ![Len(s.replayed)].next = @ + 1]
        more == {i \in DOMAIN r : r[i].next <= Len(s.aliases[r[i].alias].events)}
    IN  [s EXCEPT !.replayed = IF more = {} THEN <<>> ELSE SubSeq(r, 1, CHOOSE i \in more : \A j \in more : j <= i)]

(* Every anchor whose node is not at its end collects the event.             *)
Nesting(e) == IF e.type \in {"MAPPING-START", "SEQUENCE-START"} THEN 1
              ELSE IF e.type \in {"MAPPING-END", "SEQUENCE-END"} THEN -1 ELSE 0
Collected(a, e) ==
    IF ~a.collecting THEN a
    ELSE [a EXCEPT !.events = Append(@, Bare(e)), !.nest = @ + Nesting(e), !.collecting = a.nest + Nesting(e) # 0]
Collect(s, e) == [s EXCEPT !.aliases = [i \in DOMAIN @ |-> Collected(@[i], e)]]

Return(s, e) == [s EXCEPT !.out = Append(@, Bare(e))]

(* fy_parser_parse_resolve_prolog: an alias among the events is replayed in  *)
(* turn.                                                                     *)
RECURSIVE Played(_)
Played(s) ==
    LET top == Playing(s)
        e == s.aliases[top.alias].events[top.next]
        passed == Advanced(s)
        inner == LookupFrom(s, top.alias, e.text)
        returned == Return(passed, e)
    IN  IF e.type = "ALIAS" THEN IF inner = None THEN Broken(s) ELSE Played(Replay(passed, inner))
        ELSE IF s.aliases[top.alias].anchor = None THEN Collect(returned, e) ELSE returned
RECURSIVE PlayedOut(_)
PlayedOut(s) == IF s.end # "ok" \/ s.replayed = <<>> THEN s ELSE PlayedOut(Played(s))

(***************************************************************************)
(* fy_parser_event_resolve_hook: what is done with an event of the parser  *)
(***************************************************************************)
AnchorStart(s, e) ==
    IF e.anchor = None THEN s ELSE [s EXCEPT !.aliases = Append(@, Alias(e.anchor, <<>>, TRUE))]
ResolveAliasEvent(s, e) ==
    LET i == LookupAlias(s, e.text)
    IN  IF e.type # "ALIAS" THEN Return(s, e)
        ELSE IF i = None THEN Broken(s)
        ELSE IF s.aliases[i].collecting THEN Broken(s)
        ELSE Advanced(Replay(Return(s, Head(s.aliases[i].events)), i))
Hook(s, e) == ResolveAliasEvent(Collect(AnchorStart(s, e), e), e)

(* What the collection around expects is turned over by every event.         *)
Turned(s) == [s EXCEPT !.expects = IF @ = <<>> \/ Last(@) = "item" THEN @
                                   ELSE Front(@) \o <<IF Last(@) = "key" THEN "value" ELSE "key">>]
Tracked(s, e) ==
    CASE e.type = "MAPPING-START" -> [s EXCEPT !.expects = Append(@, "value")]
      [] e.type = "SEQUENCE-START" -> [s EXCEPT !.expects = Append(@, "item")]
      [] e.type \in {"MAPPING-END", "SEQUENCE-END"} -> [s EXCEPT !.expects = IF @ = <<>> THEN @ ELSE Front(@)]
      [] OTHER -> s
IsMergeEvent(s, e) ==
    /\ e.type = "SCALAR" /\ e.style = "plain" /\ e.text = MergeText
    /\ s.expects # <<>> /\ Last(s.expects) = "key"

(***************************************************************************)
(* Merge keys                                                              *)
(***************************************************************************)
(* The mapping an argument of a merge key stands for: itself, or what the    *)
(* events of an alias build (fy_document_builder_event_document), all in one *)
(* heap; ok unless one of them is no mapping.                                *)
Build(d, events) ==
    FoldLeft(LAMBDA b, e : IF b.docDone \/ b.rc < 0 THEN b ELSE ProcessEvent(b, e),
             [SetInDocument(TRUE) EXCEPT !.d = [d EXCEPT !.root = None, !.anchors = <<>>]], events)
Sources(s, d, arguments) ==
    LET isMapping(e, n) == e.node[n].type = "mapping"
        built(r, b) == IF b.rc < 0 THEN [r EXCEPT !.ok = FALSE]
                       ELSE [d |-> b.d, roots |-> Append(r.roots, b.d.root), ok |-> isMapping(b.d, b.d.root)]
        source(r, n) ==
          LET i == LookupAlias(s, r.d.node[n].text)
          IN  IF ~r.ok THEN r
              ELSE IF ~IsAlias(r.d, n) THEN [r EXCEPT !.roots = Append(@, n), !.ok = isMapping(r.d, n)]
              ELSE IF i = None \/ s.aliases[i].collecting THEN [r EXCEPT !.ok = FALSE]
              ELSE built(r, Build(r.d, s.aliases[i].events))
    IN  FoldLeft(source, [d |-> d, roots |-> <<>>, ok |-> TRUE], arguments)

(* The pairs that are merged: of two with one key, the earlier.               *)
MergedPairs(r) ==
    LET add(kept, p) == IF \E q \in Range(kept) : Compare(r.d, r.d.pair[q].key, r.d.pair[p].key)
                        THEN kept ELSE Append(kept, p)
    IN  FoldLeft(add, <<>>, FlattenSeq([i \in DOMAIN r.roots |-> r.d.node[r.roots[i]].pairs]))

PairEvents(d, p) == EventsOf(d, d.pair[p].key) \o EventsOf(d, d.pair[p].value)

(* The first of the merged events is treated like one of the parser.         *)
MergeEvents(s, events) ==
    LET held == [s EXCEPT !.aliases = Append(@, Alias(None, events, FALSE)), !.merging = FALSE, !.argument = NewBuilder]
    IN  IF events = <<>> THEN [held EXCEPT !.end = "crash"]
        ELSE Hook(Advanced(Replay(held, Len(held.aliases))), Bare(Head(events)))
MergeSources(s, r) ==
    LET events(pairs) == FlattenSeq([i \in DOMAIN pairs |-> PairEvents(r.d, pairs[i])])
    IN  IF r.ok THEN MergeEvents(s, events(MergedPairs(r))) ELSE Broken(s)
Merge(s, d) ==
    MergeSources(s, Sources(s, d, IF d.node[d.root].type = "sequence" THEN d.node[d.root].items ELSE <<d.root>>))

(* The value of the merge key is taken from the parser, past all hooks.      *)
ArgumentTaken(s, b) ==
    IF b.rc < 0 THEN Broken(s)
    ELSE IF b.docDone THEN Merge(s, b.d) ELSE [s EXCEPT !.argument = b]
TakeArgument(s, e) == ArgumentTaken(s, ProcessEvent(s.argument, e))

(* What fy_parser_parse makes of an event of the parser, and of all the      *)
(* calls until it needs the next one.                                        *)
Handled(s, e) ==
    LET turned == Turned(s)
    IN  CASE s.merging -> TakeArgument(s, e)
          [] ~s.merging /\ s.merges /\ IsMergeEvent(turned, e) ->
               [turned EXCEPT !.merging = TRUE, !.argument = SetInDocument(TRUE)]
          [] OTHER -> Hook(IF s.merges THEN Tracked(turned, e) ELSE s, e)
StreamEvent(s, e) == IF s.end # "ok" THEN s ELSE PlayedOut(Handled(s, e))
===============================================================================
