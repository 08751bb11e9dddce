---------------------------- MODULE ValueDecoder ----------------------------
(***************************************************************************)
(* The decoder behind every codec of the package                           *)
(* (Sources/PotentCodables/ValueDecoder.swift).  One session decodes one   *)
(* document, a tree of values, into a Decodable.  The running calls of     *)
(* init(from:) form the stack `calls'.  A decoder keeps a stack of values  *)
(* (`storage', the top one is being decoded) and a coding path; a nested   *)
(* container or a super decoder has a decoder of its own.                  *)
(*                                                                         *)
(* The type being decoded is arbitrary: it opens containers, decodes their *)
(* entries in any order and as any type, opens nested containers and super *)
(* decoders, throws, and swallows errors with try?.                        *)
(***************************************************************************)
EXTENDS Integers, SequencesExt

CONSTANTS
  Keys,           \* keys of documents
  Documents,      \* the documents to decode
  Converts,       \* the key strategy is convertFromSnakeCase or custom
  Convert,        \* what it makes of a key
  MaxDecoders,    \* bound: decoders alive
  MaxHandles,     \* bound: containers held
  MaxCalls        \* bound: nesting of init(from:)

ASSUME ConvertAssumption == Converts \in BOOLEAN /\ Convert \in [Keys -> Keys]
ASSUME BoundsAssumption ==
  /\ MaxDecoders \in Nat \ {0}
  /\ MaxHandles \in Nat
  /\ MaxCalls \in Nat \ {0}

(***************************************************************************)
(* A document maps its nodes 1..n to [kind, entries]; an entry is a step   *)
(* and the node it leads to.  Steps are coding keys: of a keyed container, *)
(* of a [String: T] dictionary, whose keys are exempt from the strategy,   *)
(* and the indices of an unkeyed container.                                *)
(***************************************************************************)
Root == 1
Nil  == 0      \* Transform.nilValue, the value of a super key that is absent
NoKey == "index"

\* valueToKeyedValues gives a dictionary: the keys of one node are different.
Entries == [key : Keys \union {NoKey}, node : Nat]
DistinctKeys(entries) ==
  \A i, j \in DOMAIN entries : entries[i].key \in Keys /\ (i # j => entries[i].key # entries[j].key)
ASSUME DocumentsAssumption ==
  \A d \in Documents :
    /\ d \in Seq([kind : {"keyed", "unkeyed", "null", "leaf"}, entries : Seq(Entries)])
    /\ Root \in DOMAIN d
    /\ \A n \in DOMAIN d :
         /\ \A i \in DOMAIN d[n].entries : d[n].entries[i].node \in DOMAIN d
         /\ d[n].kind = "keyed" => DistinctKeys(d[n].entries)

KeyStep(k)   == [by |-> "key", key |-> k, index |-> 0]
RawStep(k)   == [by |-> "raw", key |-> k, index |-> 0]
IndexStep(i) == [by |-> "index", key |-> NoKey, index |-> i]

VARIABLES
  doc,        \* the document
  decoders,   \* storage and coding path of each decoder
  handles,    \* the containers held, in order of creation
  calls,      \* the activations, outermost first
  error,      \* the error propagating through the current one, or "none"
  outcome     \* what decodeTree did

vars == <<doc, decoders, handles, calls, error, outcome>>

-----------------------------------------------------------------------------
(* The end of an activation, for its decoder: subDecode pops the value it   *)
(* pushed and its caller the key, each in a defer.                          *)

\* Mistakes the properties must notice
LeaveOnSuccess(d, c) ==
  IF error # "none" THEN d
  ELSE [d EXCEPT !.storage = IF c.loop THEN @ ELSE Front(@),
                 !.path    = IF c.step = <<>> THEN @ ELSE Front(@)]

Leave(d, c) ==
  [d EXCEPT !.storage = IF c.loop THEN @ ELSE Front(@),
            !.path    = IF c.step = <<>> THEN @ ELSE Front(@)]

-----------------------------------------------------------------------------
(* Documents *)

KindOf(n) == IF n = Nil THEN "null" ELSE doc[n].kind
EntriesIn(d, n) == IF n = Nil THEN <<>> ELSE d[n].entries
EntriesOf(n) == EntriesIn(doc, n)

\* The key of an entry as a keyed container shows it.
Shown(k) == IF Converts THEN Convert[k] ELSE k

\* Two keys that the strategy makes equal.
Clashes(n) ==
  \E i, j \in DOMAIN EntriesOf(n) :
    i # j /\ Shown(EntriesOf(n)[i].key) = Shown(EntriesOf(n)[j].key)

\* The nodes a step leads to.
Matches(k, step) == IF step.by = "key" THEN Shown(k) = step.key ELSE k = step.key
TargetsIn(d, n, step) ==
  LET entries == EntriesIn(d, n)
      at == IF step.by = "index" THEN {step.index + 1} \intersect DOMAIN entries
            ELSE {i \in DOMAIN entries : Matches(entries[i].key, step)}
  IN {entries[i].node : i \in at}
Targets(n, step) == TargetsIn(doc, n, step)

-----------------------------------------------------------------------------
(* Reading the state *)

Running == outcome = "running"
Current == Last(calls)
Ready   == Running /\ error = "none"
Client  == Ready /\ ~Current.loop

\* What the current activation may use: the decoder it was handed, the super
\* decoders it asked for and the containers it opened.
Usable ==
  {Current.decoder} \union
  {d \in (Current.decoders + 1)..Len(decoders) : decoders[d].direct}
Held == (Current.handles + 1)..Len(handles)

TopContainer(d) == Last(decoders[d].storage)

Steps(h) ==
  IF handles[h].kind = "keyed" THEN {KeyStep(k) : k \in {Shown(l) : l \in Keys}}
  ELSE {IndexStep(handles[h].cursor)}

Fail(e) ==
  /\ error' = e
  /\ UNCHANGED <<doc, decoders, calls, outcome>>

Advance(h) == [h EXCEPT !.cursor = @ + 1]
AdvanceIn(hs, i) ==
  IF hs[i].kind = "unkeyed" THEN [hs EXCEPT ![i] = Advance(@)] ELSE hs

\* A mistake: the index starts before the first element.
HandleBeforeFirst(d, k, n) == [decoder |-> d, kind |-> k, node |-> n, cursor |-> -1]

Handle(d, k, n) == [decoder |-> d, kind |-> k, node |-> n, cursor |-> 0]

-----------------------------------------------------------------------------
(* The operations of a Decoder *)

\* container(keyedBy:): the key strategy refuses keys that become equal.
OpenKeyed(d) ==
  LET n == TopContainer(d)
  IN /\ Client /\ d \in Usable
     /\ \/ /\ KindOf(n) # "keyed"
           /\ Fail("null") /\ UNCHANGED handles
        \/ /\ KindOf(n) = "keyed" /\ Clashes(n)
           /\ Fail("duplicate") /\ UNCHANGED handles
        \/ /\ KindOf(n) = "keyed" /\ ~Clashes(n)
           /\ Len(handles) < MaxHandles
           /\ handles' = Append(handles, Handle(d, "keyed", n))
           /\ UNCHANGED <<doc, decoders, calls, error, outcome>>

\* unkeyedContainer()
OpenUnkeyed(d) ==
  LET n == TopContainer(d)
  IN /\ Client /\ d \in Usable
     /\ \/ /\ KindOf(n) # "unkeyed"
           /\ Fail(IF KindOf(n) = "null" THEN "null" ELSE "mismatch")
           /\ UNCHANGED handles
        \/ /\ KindOf(n) = "unkeyed"
           /\ Len(handles) < MaxHandles
           /\ handles' = Append(handles, Handle(d, "unkeyed", n))
           /\ UNCHANGED <<doc, decoders, calls, error, outcome>>

\* Enter runs init(from:) on decoder d for node n: the step that leads there
\* (none for a single value) goes onto the coding path, the value onto the
\* storage.
Enter(d, step, n, h) ==
  /\ Len(calls) < MaxCalls
  /\ decoders' = [decoders EXCEPT ![d].storage = Append(@, n), ![d].path = @ \o step]
  /\ calls' = Append(calls,
       [decoder |-> d, step |-> step, handle |-> h, loop |-> FALSE, node |-> n,
        next |-> 0, decoders |-> Len(decoders), handles |-> Len(handles)])
  /\ UNCHANGED <<doc, handles, error, outcome>>

\* EnterLoop runs the library's loop over the entries of a [String: T].
EnterLoop(d, step, n, h) ==
  /\ \/ /\ KindOf(n) # "keyed"
        /\ Fail(IF KindOf(n) = "null" THEN "null" ELSE "mismatch")
     \/ /\ KindOf(n) = "keyed" /\ Len(calls) < MaxCalls
        /\ decoders' = [decoders EXCEPT ![d].path = @ \o step]
        /\ calls' = Append(calls,
             [decoder |-> d, step |-> step, handle |-> h, loop |-> TRUE, node |-> n,
              next |-> 1, decoders |-> Len(decoders), handles |-> Len(handles)])
        /\ UNCHANGED <<doc, error, outcome>>
  /\ UNCHANGED handles

\* The single value container: expectNonNull, then unbox.
DecodeSingle(d) ==
  /\ Client /\ d \in Usable
  /\ \/ /\ KindOf(TopContainer(d)) = "null" /\ Fail("null")
     \/ /\ KindOf(TopContainer(d)) # "null" /\ Fail("mismatch")
  /\ UNCHANGED handles

SubDecodeSingle(d) ==
  /\ Client /\ d \in Usable
  /\ KindOf(TopContainer(d)) # "null"
  /\ \/ Enter(d, <<>>, TopContainer(d), 0)
     \/ EnterLoop(d, <<>>, TopContainer(d), 0)

-----------------------------------------------------------------------------
(* The operations of a container: an entry by key, or the next element *)

\* Nothing there: keyNotFound, or the container is at its end.
NotFound(h, step) ==
  /\ Client /\ h \in Held /\ step \in Steps(h)
  /\ Targets(handles[h].node, step) = {}
  /\ Fail("missing") /\ UNCHANGED handles

\* decodeNil passes over a null; a primitive, an intercepted type or a Value
\* is unboxed at once.  The index moves on success only.
DecodeElement(h, step) ==
  /\ Client /\ h \in Held /\ step \in Steps(h)
  /\ \E n \in Targets(handles[h].node, step) :
       \/ /\ handles' = AdvanceIn(handles, h)
          /\ UNCHANGED <<doc, decoders, calls, error, outcome>>
       \/ /\ Fail(IF KindOf(n) = "null" THEN "null" ELSE "mismatch")
          /\ UNCHANGED handles

\* decode<T>: subDecode hands the decoder of the container to T.
SubDecode(h, step) ==
  /\ Client /\ h \in Held /\ step \in Steps(h)
  /\ \E n \in Targets(handles[h].node, step) :
       Enter(handles[h].decoder, <<step>>, n, h)

\* decode<[String: T]>
DecodeDictionary(h, step) ==
  /\ Client /\ h \in Held /\ step \in Steps(h)
  /\ \E n \in Targets(handles[h].node, step) :
       EnterLoop(handles[h].decoder, <<step>>, n, h)

\* The decoder of a nested container copies its parent's storage.
NestedDecoder(d, step) ==
  [storage |-> d.storage, path |-> Append(d.path, step), direct |-> FALSE]

\* nestedContainer(keyedBy:) of an unkeyed container moves its index before
\* the key strategy may refuse the keys.
NestedKeyed(h, step) ==
  LET e == handles[h].decoder
  IN /\ Client /\ h \in Held /\ step \in Steps(h)
     /\ \E n \in Targets(handles[h].node, step) :
          \/ /\ KindOf(n) # "keyed"
             /\ Fail("null") /\ UNCHANGED handles
          \/ /\ KindOf(n) = "keyed" /\ Clashes(n)
             /\ handles' = AdvanceIn(handles, h)
             /\ Fail("duplicate")
          \/ /\ KindOf(n) = "keyed" /\ ~Clashes(n)
             /\ Len(handles) < MaxHandles /\ Len(decoders) < MaxDecoders
             /\ decoders' = Append(decoders, NestedDecoder(decoders[e], step))
             /\ handles' = Append(AdvanceIn(handles, h), Handle(Len(decoders) + 1, "keyed", n))
             /\ UNCHANGED <<doc, calls, error, outcome>>

NestedUnkeyed(h, step) ==
  LET e == handles[h].decoder
  IN /\ Client /\ h \in Held /\ step \in Steps(h)
     /\ \E n \in Targets(handles[h].node, step) :
          \/ /\ KindOf(n) # "unkeyed"
             /\ Fail(IF KindOf(n) = "null" THEN "null" ELSE "mismatch")
             /\ UNCHANGED handles
          \/ /\ KindOf(n) = "unkeyed"
             /\ Len(handles) < MaxHandles /\ Len(decoders) < MaxDecoders
             /\ decoders' = Append(decoders, NestedDecoder(decoders[e], step))
             /\ handles' = Append(AdvanceIn(handles, h), Handle(Len(decoders) + 1, "unkeyed", n))
             /\ UNCHANGED <<doc, calls, error, outcome>>

\* A super decoder starts from its value; a keyed container without the key
\* gives it the nil value.
SuperOf(d, step, n) ==
  [storage |-> <<n>>, path |-> Append(d.path, step), direct |-> TRUE]

SuperDecoder(h, step) ==
  LET e == handles[h].decoder
      found == Targets(handles[h].node, step)
  IN /\ Client /\ h \in Held /\ step \in Steps(h)
     /\ Len(decoders) < MaxDecoders
     /\ \E n \in IF found = {} /\ handles[h].kind = "keyed" THEN {Nil} ELSE found :
          decoders' = Append(decoders, SuperOf(decoders[e], step, n))
     /\ handles' = AdvanceIn(handles, h)
     /\ UNCHANGED <<doc, calls, error, outcome>>

-----------------------------------------------------------------------------
(* The library's loop over a [String: T] *)

LoopReady == Ready /\ Current.loop /\ Current.next <= Len(EntriesOf(Current.node))
Entry     == EntriesOf(Current.node)[Current.next]
NextEntry(cs) == [cs EXCEPT ![Len(cs)].next = @ + 1]

\* An entry of an intercepted type or a Value (which may be null).  The null
\* of an intercepted type, or of another dictionary, unboxes to nil, and
\* assigning nil to result[key] adds nothing.
LoopElement ==
  /\ LoopReady
  /\ \/ /\ calls' = NextEntry(calls)
        /\ UNCHANGED <<doc, decoders, handles, error, outcome>>
     \/ /\ KindOf(Entry.node) # "null"
        /\ Fail("mismatch") /\ UNCHANGED handles

\* An entry of any other type, primitives and Optional included: its init(from:) runs, or,
\* for a dictionary of dictionaries, another loop.
LoopSubDecode ==
  /\ LoopReady
  /\ \/ Enter(Current.decoder, <<RawStep(Entry.key)>>, Entry.node, 0)
     \/ /\ KindOf(Entry.node) # "null"
        /\ EnterLoop(Current.decoder, <<RawStep(Entry.key)>>, Entry.node, 0)

-----------------------------------------------------------------------------
(* The end of an activation *)

\* The decoders and containers the activation created die with it.
Restore ==
  LET left == SubSeq(decoders, 1, Current.decoders)
  IN [left EXCEPT ![Current.decoder] = Leave(@, Current)]
Remaining == SubSeq(handles, 1, Current.handles)

\* init(from:), or the loop, succeeds: the caller's index moves on.
Return ==
  /\ Ready
  /\ Current.loop => Current.next > Len(EntriesOf(Current.node))
  /\ decoders' = Restore
  /\ handles' = IF Current.handle = 0 THEN Remaining
                ELSE AdvanceIn(Remaining, Current.handle)
  /\ IF Len(calls) = 1
     THEN calls' = <<>> /\ outcome' = "ok"
     ELSE LET below == Front(calls)
          IN /\ calls' = IF Last(below).loop THEN NextEntry(below) ELSE below
             /\ UNCHANGED outcome
  /\ UNCHANGED <<doc, error>>

Throw ==
  /\ Client
  /\ Fail("client") /\ UNCHANGED handles

\* try? in init(from:)
Swallow ==
  /\ Running /\ error # "none" /\ ~Current.loop
  /\ error' = "none"
  /\ UNCHANGED <<doc, decoders, handles, calls, outcome>>

\* A mistake: the index moves in a defer.
UnwindMovesOn ==
  /\ Running /\ error # "none"
  /\ decoders' = Restore
  /\ handles' = IF Current.handle = 0 THEN Remaining
                ELSE AdvanceIn(Remaining, Current.handle)
  /\ calls' = Front(calls)
  /\ IF Len(calls) = 1 THEN outcome' = "error" ELSE UNCHANGED outcome
  /\ UNCHANGED <<doc, error>>

Unwind ==
  /\ Running /\ error # "none"
  /\ decoders' = Restore
  /\ handles' = Remaining
  /\ calls' = Front(calls)
  /\ IF Len(calls) = 1 THEN outcome' = "error" ELSE UNCHANGED outcome
  /\ UNCHANGED <<doc, error>>

-----------------------------------------------------------------------------
(* decodeTree refuses a null document; then it unboxes the document, which  *)
(* pushes it once more unless the type is a [String: T].                    *)
Init ==
  /\ doc \in Documents
  /\ KindOf(Root) # "null"
  /\ handles = <<>>
  /\ \E loop \in BOOLEAN :
       /\ loop => KindOf(Root) = "keyed"
       /\ decoders = << [storage |-> IF loop THEN <<Root>> ELSE <<Root, Root>>,
                         path |-> <<>>, direct |-> TRUE] >>
       /\ calls = << [decoder |-> 1, step |-> <<>>, handle |-> 0, loop |-> loop,
                      node |-> Root, next |-> IF loop THEN 1 ELSE 0,
                      decoders |-> 1, handles |-> 0] >>
  /\ error = "none"
  /\ outcome = "running"

DecoderStep ==
  \E d \in 1..MaxDecoders :
    \/ OpenKeyed(d) \/ OpenUnkeyed(d)
    \/ DecodeSingle(d) \/ SubDecodeSingle(d)

ContainerStep ==
  \E h \in 1..MaxHandles :
    /\ Running /\ h \in Held
    /\ \E step \in Steps(h) :
         \/ NotFound(h, step)
         \/ DecodeElement(h, step)
         \/ SubDecode(h, step)
         \/ DecodeDictionary(h, step)
         \/ NestedKeyed(h, step)
         \/ NestedUnkeyed(h, step)
         \/ SuperDecoder(h, step)

Next ==
  \/ DecoderStep
  \/ ContainerStep
  \/ LoopElement \/ LoopSubDecode
  \/ Return \/ Throw \/ Swallow \/ Unwind

Spec == Init /\ [][Next]_vars

-----------------------------------------------------------------------------
(* Properties *)

Step ==
  [by : {"key", "raw"}, key : Keys, index : {0}]
    \union [by : {"index"}, key : {NoKey}, index : Nat]
Node == {Nil} \union DOMAIN doc

\* Every variable has its type (ValueDecoder.swift:576-614, 661-693, 911-930).
TypeOK ==
  /\ doc \in Documents
  /\ decoders \in Seq([storage : Seq(Node), path : Seq(Step), direct : BOOLEAN])
  /\ handles \in Seq([decoder : DOMAIN decoders, kind : {"keyed", "unkeyed"},
                      node : DOMAIN doc, cursor : Nat])
  /\ calls \in Seq([decoder : DOMAIN decoders, step : Seq(Step), handle : {0} \union DOMAIN handles,
                    loop : BOOLEAN, node : Node, next : Nat,
                    decoders : 1..Len(decoders), handles : 0..Len(handles)])
  /\ error \in {"none", "null", "mismatch", "missing", "duplicate", "client"}
  /\ outcome \in {"running", "ok", "error"}

\* The node a coding path leads to from the root of document d.
Follow(d, n, step) ==
  IF TargetsIn(d, n, step) = {} THEN Nil ELSE CHOOSE m \in TargetsIn(d, n, step) : TRUE
At(d, path) ==
  LET at[k \in 0..Len(path)] == IF k = 0 THEN Root ELSE Follow(d, at[k - 1], path[k])
  IN at[Len(path)]

(***************************************************************************)
(* A Decodable is always looking at the value its codingPath names: the    *)
(* storage and the coding path of a decoder, pushed and popped by different*)
(* functions (ValueDecoder.swift:652-656, 810-823), stay in step through   *)
(* nested decoding, super decoders and swallowed errors.                   *)
(***************************************************************************)
TopAtPath ==
  Client => \A d \in Usable : TopContainer(d) = At(doc, decoders[d].path)

(***************************************************************************)
(* A container keeps reading the value its decoder's coding path names,    *)
(* although that decoder is lent to the entries decoded through it and     *)
(* shared by all containers of one init(from:).                            *)
(***************************************************************************)
HandleAtPath ==
  Client => \A h \in Held : handles[h].node = At(doc, decoders[handles[h].decoder].path)

(***************************************************************************)
(* currentIndex (ValueDecoder.swift:929) never passes the end of the array *)
(* it subscripts without a check (container[currentIndex]).                *)
(***************************************************************************)
CursorInBounds ==
  \A h \in DOMAIN handles :
    handles[h].kind = "unkeyed" => handles[h].cursor <= Len(EntriesOf(handles[h].node))

(* What is decoded is where the coding path says, and in its bounds.        *)
ValuesFollowed == TopAtPath /\ HandleAtPath /\ CursorInBounds

(***************************************************************************)
(* An element that could not be decoded is still the next one, so that a   *)
(* caller may try another type; except that nestedContainer has moved on   *)
(* when the key strategy refuses the keys (ValueDecoder.swift:1446).       *)
(***************************************************************************)
FailureKeepsElement ==
  [][\A h \in DOMAIN handles \intersect DOMAIN handles' :
       error' \notin {"none", "duplicate"} => handles'[h].cursor = handles[h].cursor]_vars

=============================================================================
