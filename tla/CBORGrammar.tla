---------------------------- MODULE CBORGrammar ----------------------------
(***************************************************************************)
(* The grammar the comments of CBORReader describe                         *)
(* (CBORReader.swift:57-142, CBORSerialization.swift:26-37): the streams   *)
(* of up to MaxStream symbols that are one item, and that item.            *)
(***************************************************************************)
EXTENDS CBOR

Document(s, it) == [stream |-> s, item |-> it]

\* The map of a list of keys and values: the first place, the last value.
MapOf(its) ==
  LET places == SelectSeq([i \in Pairs(its) |-> i],
                          LAMBDA i : \A j \in 1..i - 1 : Key(its, j) # Key(its, i))
      LastOf(key) == CHOOSE i \in Pairs(its) :
                       Key(its, i) = key /\ \A j \in i + 1..Len(its) \div 2 : Key(its, j) # key
  IN FlattenSeq([i \in DOMAIN places |->
       <<Key(its, places[i]), Value(its, LastOf(Key(its, places[i])))>>])

\* Strings that say how long they are, and scalars.
LeavesOf(n) ==
  {Document(<<s>>, Item(IF s.kind = "simple8" THEN "simple" ELSE s.kind, s.arg, <<>>)) :
     s \in {h \in Heads : n = 1 /\ h.kind \in Scalars \union {"simple8"}}}
  \union
  {Document(<<Symbol(kind, n - 1)>> \o b, Item(kind, 0, b)) :
     kind \in {k \in Strings : Symbol(k, n - 1) \in Heads}, b \in [1..n - 1 -> Bytes]}

\* The documents that begin with head s and hold the list l.
Holding(s, l) ==
  LET n == Len(l.items)
      whole == <<s>> \o l.stream \o IF s.arg = Indefinite THEN <<Break>> ELSE <<>>
  IN CASE s.kind = "tag" /\ n = 1 -> {Document(whole, Item("tag", s.arg, l.items))}
       [] s.kind = "array" /\ s.arg \in {n, Indefinite} -> {Document(whole, Item("array", 0, l.items))}
       [] s.kind = "map" /\ n % 2 = 0 /\ s.arg \in {n \div 2, Indefinite} ->
            {Document(whole, Item("map", 0, MapOf(l.items)))}
       [] s.kind \in Strings /\ s.arg = Indefinite /\ (\A i \in 1..n : l.items[i].kind = s.kind) ->
            {Document(whole, Item(s.kind, 0, FlattenSeq([i \in 1..n |-> l.items[i].items])))}
       [] OTHER -> {}

\* The lists of documents with n symbols in all; docs[m] are those of m.
Lists(docs, n) ==
  Last(FoldLeft(LAMBDA lists, m :
         Append(lists, UNION {{[stream |-> l.stream \o d.stream, items |-> Append(l.items, d.item)] :
                                 l \in lists[m - k + 1], d \in docs[k]} : k \in 1..m}),
         <<{[stream |-> <<>>, items |-> <<>>]}>>, [m \in 1..n |-> m]))

WellFormed ==
  LET AtLength(docs, n) ==
        {d \in LeavesOf(n) : d.item.kind = "text" => ~Contains(d.stream, Bad)} \union
        UNION {Holding(s, l) : s \in {h \in Heads : h.kind \in {"array", "map", "tag"} /\ h.arg # Indefinite},
                               l \in Lists(docs, n - 1)} \union
        (IF n = 1 THEN {}
         ELSE UNION {Holding(s, l) : s \in {h \in Heads : h.arg = Indefinite}, l \in Lists(docs, n - 2)})
  IN UNION ToSet(FoldLeft(LAMBDA docs, n : Append(docs, AtLength(docs, n)),
                          <<>>, [n \in 1..MaxStream |-> n]))
Beginnings == UNION {{SubSeq(d.stream, 1, n) : n \in 0..Len(d.stream) - 1} : d \in WellFormed}
=============================================================================
