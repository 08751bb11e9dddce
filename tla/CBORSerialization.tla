-------------------------- MODULE CBORSerialization --------------------------
(***************************************************************************)
(* Any stream is read and the item it holds, if it does hold one, written  *)
(* and read back (Sources/PotentCBOR/CBORSerialization.swift, with the     *)
(* writer of Sources/PotentCBOR/CBORWriter.swift).                         *)
(***************************************************************************)
EXTENDS CBORReader, CBORGrammar

(***************************************************************************)
(* The symbols CBORWriter writes for an item                               *)
(***************************************************************************)
\* A deterministic writer takes the shortest float: numbers from 3 on need a
\* double, 2 is a float, 1 is a half.
Narrowest(number) == CASE number < 2 -> "half" [] number = 2 -> "float" [] OTHER -> "double"

\* Symbols in the order of their initial bytes.
Order == <<"byte", "unsigned", "negative", "bytes", "text", "array", "map", "tag",
           "simple", "constant", "simple8", "half", "float", "double">>
Rank(s) == <<CHOOSE i \in DOMAIN Order : Order[i] = s.kind, s.arg>>
SymbolLess(s, t) ==
  Rank(s)[1] < Rank(t)[1] \/ (Rank(s)[1] = Rank(t)[1] /\ Rank(s)[2] < Rank(t)[2])

\* lexicographicallyPrecedes
Precedes(a, b) ==
  \E i \in DOMAIN b :
    /\ SubSeq(a, 1, i - 1) = SubSeq(b, 1, i - 1)
    /\ i \in DOMAIN a => SymbolLess(a[i], b[i])

\* encodeSimpleValue: up to 23 the value is a part of the initial byte.
Simple(n) ==
  Symbol(CASE n < 20 -> "simple" [] n \in 20..23 -> "constant" [] OTHER -> "simple8", n)

\* The pairs of a map, in the order in which they are written.
\* A mistake: they are not sorted.
AsTheyCome(keys, deterministic) == [i \in DOMAIN keys |-> i]
PairOrder(keys, deterministic) ==
  IF deterministic
  THEN SetToSortSeq(DOMAIN keys, LAMBDA i, j : Precedes(keys[i], keys[j]) \/ (keys[i] = keys[j] /\ i < j))
  ELSE [i \in DOMAIN keys |-> i]

\* encode
RECURSIVE Write(_, _)
Write(item, deterministic) ==
  LET written == [i \in DOMAIN item.items |-> Write(item.items[i], deterministic)]
      number == Symbol(IF deterministic THEN Narrowest(item.arg) ELSE item.kind, item.arg)
  IN CASE item.kind \in Strings -> <<Symbol(item.kind, Len(item.items))>> \o item.items
       [] item.kind = "simple" -> <<Simple(item.arg)>>
       [] item.kind \in Floats -> <<number>>
       [] item.kind = "array" -> <<Symbol("array", Len(item.items))>> \o FlattenSeq(written)
       [] item.kind = "tag" -> <<Symbol("tag", item.arg)>> \o written[1]
       [] item.kind = "map" ->
            LET order == PairOrder([i \in Pairs(written) |-> Key(written, i)], deterministic)
            IN <<Symbol("map", Len(order))>> \o
               FlattenSeq([i \in DOMAIN order |-> Key(written, order[i]) \o Value(written, order[i])])
       [] OTHER -> <<Symbol(item.kind, item.arg)>>

\* encodeStream: the chunks of an array, a map or a string and the end marker.
\* A mistake: no end marker.
EndlessStream(item, chunks) == <<Symbol(item.kind, Indefinite)>> \o FlattenSeq(chunks)
WriteStream(item, chunks) == <<Symbol(item.kind, Indefinite)>> \o FlattenSeq(chunks) \o <<Break>>

RECURSIVE Parts(_)
Parts(it) ==
  {it} \union (IF it.kind \in Strings THEN {} ELSE UNION {Parts(it.items[i]) : i \in DOMAIN it.items})

\* encodeNegativeInt: the number as an Int64 is negative; below its least
\* one it is not.
AssertionHolds(it) == \A p \in Parts(it) : p.kind = "negative" => p.arg <= IntMax

VARIABLES
  deterministic,   \* the option of that name, once something is written
  item             \* what was read first, or NoItem

vars == <<readerVars, deterministic, item>>

(***************************************************************************)
(* Writing what was read, and reading it again                             *)
(***************************************************************************)
Unwritten == result # NoItem /\ item = NoItem

Reread(option, s) ==
  /\ Unwritten /\ AssertionHolds(result)
  /\ item' = result
  /\ stream' = s
  /\ offset' = 0
  /\ growing' = FALSE
  /\ result' = NoItem
  /\ deterministic' = option
  /\ UNCHANGED <<frames, error>>

\* The writer's assertion fails: the program stops, with nothing to read.
Asserted(option) ==
  /\ Unwritten /\ ~AssertionHolds(result)
  /\ item' = result
  /\ error' = "assertion"
  /\ growing' = FALSE
  /\ result' = NoItem
  /\ deterministic' = option
  /\ UNCHANGED <<stream, offset, frames>>

\* data(from:options:) and cbor(from:)
Rewrite(option) == Reread(option, Write(result, option))

\* The same through encodeStream, each entry or byte a chunk of its own.
Chunks(option) ==
  CASE result.kind \in Strings ->
         [i \in DOMAIN result.items |-> <<Symbol(result.kind, 1), result.items[i]>>]
    [] OTHER -> [i \in DOMAIN result.items |-> Write(result.items[i], option)]
Stream(option) ==
  /\ result.kind \in Strings \union {"array", "map"}
  /\ Reread(option, WriteStream(result, Chunks(option)))

Init == ReaderInit /\ deterministic = FALSE /\ item = NoItem
Next ==
  \/ ReaderNext /\ UNCHANGED <<deterministic, item>>
  \/ \E option \in BOOLEAN : Rewrite(option) \/ Stream(option) \/ Asserted(option)

Spec == Init /\ [][Next]_vars

-----------------------------------------------------------------------------
(* Properties *)

TypeOK ==
  /\ offset \in 0..Len(stream)
  /\ growing => offset = Len(stream)
  /\ \A i \in DOMAIN frames :
       /\ frames[i].kind \in Strings \union {"array", "map", "tag"}
       /\ frames[i].left \in Nat \union {Indefinite}
       /\ i < Len(frames) => frames[i].left # 0 /\ (frames[i].kind \in Strings => frames[i].left = Indefinite)
  /\ error \in {"none", "invalidItemType", "invalidIndefiniteElement", "invalidBreak",
                "sequenceTooLong", "invalidUTF8String", "unexpectedEndOfStream", "overflow", "assertion"}
  /\ deterministic \in BOOLEAN

(***************************************************************************)
(* What is read from a stream is the item the grammar says it holds: a     *)
(* break ends the innermost loop without a count, never stands for an      *)
(* item, a key or a value (CBORReader.swift:60-130), and the chunks of a   *)
(* string are of its own kind (CBORSerialization.swift:31-33).             *)
(***************************************************************************)
ReadsGrammar(documents) ==
  growing /\ result # NoItem => Document(stream, result) \in documents

(***************************************************************************)
(* No stream that holds an item is refused, and none is refused before it  *)
(* is certain that it holds none, but for its end                          *)
(* (CBORReader.swift:144-220).                                             *)
(***************************************************************************)
RefusesOnlyOthers(wholes, beginnings) ==
  growing /\ error \notin {"none", "overflow"} =>
    /\ stream \notin wholes
    /\ error = "unexpectedEndOfStream" \/ stream \notin beginnings

(* A stream is read exactly when the grammar says it holds an item, as that  *)
(* item (CBORReader.swift:60-243).                                           *)
FollowsGrammar(documents, wholes, beginnings) ==
  ReadsGrammar(documents) /\ RefusesOnlyOthers(wholes, beginnings)

\* What an item says, whatever a writer may change: the order of maps, the
\* width of floats when deterministic, and the simple values that are
\* constants.  Of keys that become the same the last one stays.
RECURSIVE Meaning(_)
Meaning(it) ==
  LET kind == CASE it.kind \in Floats /\ deterministic -> "float"
                [] it.kind = "simple" /\ it.arg \in 20..23 -> "constant"
                [] OTHER -> it.kind
      parts == [i \in DOMAIN it.items |->
                  IF it.kind \in Strings THEN it.items[i] ELSE Meaning(it.items[i])]
      last == {i \in Pairs(parts) : \A j \in Pairs(parts) : Key(parts, j) = Key(parts, i) => j <= i}
  IN IF kind = "map"
     THEN Item(kind, 0, {[at |-> Key(parts, i), value |-> Value(parts, i)] : i \in last})
     ELSE Item(kind, it.arg, {[at |-> Item("index", i, {}), value |-> parts[i]] : i \in DOMAIN parts})

(***************************************************************************)
(* What was read and is written, at once or as a stream, is read back as   *)
(* an item that says the same, to the last symbol (CBORWriter.swift:37-54, *)
(* 175-191, 326-330), however items are nested.  Two items are no such:    *)
(* one with a negative number below the least Int64, in any place, is not  *)
(* written but stops the program (112-114); and of keys that differ only   *)
(* in what the writer does not keep, the width of a float or the form of a *)
(* simple value, only the last is read back.                               *)
(***************************************************************************)
RoundTrip ==
  item # NoItem =>
    IF AssertionHolds(item)
    THEN /\ error = "none"
         /\ result # NoItem => Meaning(result) = Meaning(item) /\ offset = Len(stream)
    ELSE error = "assertion"

(***************************************************************************)
(* The keys of every map a deterministic writer has written ascend in the  *)
(* order of their own bytes (CBORWriter.swift:177-184), but for the chunks *)
(* of a stream, which it takes as they come.                               *)
(***************************************************************************)
OrderedKeys ==
  deterministic /\ item # NoItem /\ result # NoItem =>
    \A map \in Parts(result) \ (IF stream[1].arg = Indefinite THEN {result} ELSE {}) :
      map.kind = "map" =>
        \A i \in 1..Len(map.items) \div 2 - 1 :
          Precedes(Write(Key(map.items, i), TRUE), Write(Key(map.items, i + 1), TRUE))

=============================================================================
