----------------------------- MODULE CBORReader -----------------------------
(***************************************************************************)
(* Reading one item from a stream (Sources/PotentCBOR/CBORReader.swift).   *)
(* A step is a call of decodeItem, which takes a head from the stream, the *)
(* bytes of a string, or the return of a call.  The loops that are running *)
(* (decodeItems and its like) are the frames.  The stream is given, or     *)
(* (growing) made up as it is read: all streams over Heads are read, cut   *)
(* off anywhere.                                                           *)
(***************************************************************************)
EXTENDS CBOR

VARIABLES
  stream,      \* CBORDataStream.data
  offset,      \* CBORDataStream.offset
  growing,     \* there may be more of the stream than was read
  frames,      \* the arrays, maps, tags and strings being read, outermost first
  result,      \* what decodeRequiredItem returned, or NoItem
  error        \* "none", what was thrown, or "overflow" when Int overflowed

readerVars == <<stream, offset, growing, frames, result, error>>

\* left: the items, or the bytes, still to come
Frame(kind, arg, left) == [kind |-> kind, arg |-> arg, left |-> left, items |-> <<>>]
Top == Last(frames)

Reading      == result = NoItem /\ error = "none"
ReadingBytes == Reading /\ frames # <<>> /\ Top.kind \in Strings /\ Top.left # Indefinite
Returning    == Reading /\ frames # <<>> /\ Top.kind \notin Strings /\ Top.left = 0
Calling      == Reading /\ ~ReadingBytes /\ ~Returning

-----------------------------------------------------------------------------
(* CBORDataStream *)

\* What the next n symbols of the stream may be.
Following(n, symbols) ==
  IF growing THEN IF offset + n <= MaxStream THEN [1..n -> symbols] ELSE {}
  ELSE IF offset + n <= Len(stream) THEN {SubSeq(stream, offset + 1, offset + n)} ELSE {}
NextHeads == {s[1] : s \in Following(1, Heads)}

Take(s) ==
  /\ stream' = IF growing THEN stream \o s ELSE stream
  /\ offset' = offset + Len(s)
  /\ UNCHANGED growing

Fail(e) == error' = e /\ UNCHANGED <<frames, result>>

-----------------------------------------------------------------------------
(* What is made of the items read *)

\* result[key] = val: a key keeps its place and takes the last value.
SetPair(map, key, val) ==
  IF \E i \in Pairs(map) : Key(map, i) = key
  THEN [j \in DOMAIN map |-> IF j % 2 = 0 /\ map[j - 1] = key THEN val ELSE map[j]]
  ELSE map \o <<key, val>>

Built(f) ==
  CASE f.kind = "map" ->
         Item("map", 0, FoldLeft(LAMBDA map, i : SetPair(map, Key(f.items, i), Value(f.items, i)),
                                 <<>>, [i \in Pairs(f.items) |-> i]))
    [] f.kind \in Strings -> Item(f.kind, 0, FlattenSeq([i \in DOMAIN f.items |-> f.items[i].items]))
    [] OTHER -> Item(f.kind, IF f.kind = "tag" THEN f.arg ELSE 0, f.items)

\* The item goes to the loop that called, the last of fs.
Deliver(fs, item) ==
  /\ UNCHANGED error
  /\ IF fs = <<>>
     THEN result' = item /\ frames' = fs
     ELSE /\ frames' = [fs EXCEPT ![Len(fs)].items = Append(@, item),
                                  ![Len(fs)].left = IF @ = Indefinite THEN @ ELSE @ - 1]
          /\ UNCHANGED result

-----------------------------------------------------------------------------
(* decodeItem *)

ReadScalar ==
  /\ Calling
  /\ \E s \in NextHeads :
       /\ s.kind \in Scalars \union {"simple8"}
       /\ Take(<<s>>)
       /\ Deliver(frames, Item(IF s.kind = "simple8" THEN "simple" ELSE s.kind, s.arg, <<>>))

\* readLength
TooLong(s) == s.kind \in Strings \union {"array", "map"} /\ s.arg > IntMax

Open ==
  /\ Calling
  /\ \E s \in NextHeads :
       /\ s.kind \in Strings \union {"array", "map", "tag"} /\ ~TooLong(s)
       /\ Take(<<s>>)
       /\ frames' = Append(frames, Frame(s.kind, s.arg,
                      CASE s.kind = "tag" -> 1
                        [] s.kind = "map" /\ s.arg # Indefinite -> 2 * s.arg
                        [] OTHER -> s.arg))
  /\ UNCHANGED <<result, error>>

\* readBytes(count:) and, of text, String(data:encoding:)
ReadBytes ==
  /\ ReadingBytes
  /\ offset + Top.left <= IntMax
  /\ \E bytes \in Following(Top.left, Bytes) :
       /\ Take(bytes)
       /\ IF Top.kind = "text" /\ Contains(bytes, Bad)
          THEN Fail("invalidUTF8String")
          ELSE Deliver(Front(frames), Item(Top.kind, 0, bytes))

\* A break ends a loop that has no count, but not between key and value.
\* A mistake: no loop ends after an odd number of items.
BreakEndsEven(f) == f.left = Indefinite /\ Len(f.items) % 2 = 0
BreakEnds(f) == f.left = Indefinite /\ (f.kind = "map" => Len(f.items) % 2 = 0)
ElementsMatch(f) == f.kind \in Strings => \A i \in DOMAIN f.items : f.items[i].kind = f.kind

ReadBreak ==
  /\ Calling
  /\ Break \in NextHeads
  /\ Take(<<Break>>)
  /\ IF frames = <<>> \/ ~BreakEnds(Top) THEN Fail("invalidBreak")
     ELSE IF ~ElementsMatch(Top) THEN Fail("invalidIndefiniteElement")
     ELSE Deliver(Front(frames), Built(Top))

\* decodeItems, decodeItemPairs and the item of a tag are complete.
Return ==
  /\ Returning
  /\ Deliver(Front(frames), Built(Top))
  /\ UNCHANGED <<stream, offset, growing>>

RefuseHead ==
  /\ Calling
  /\ \E s \in NextHeads :
       /\ Take(<<s>>)
       /\ \/ s = Reserved /\ Fail("invalidItemType")
          \/ TooLong(s) /\ Fail("sequenceTooLong")

\* checkAvailable adds before it compares.
EndOfStream ==
  /\ IF ReadingBytes THEN Top.left > 0 /\ offset + Top.left \in Len(stream) + 1..IntMax
     ELSE Calling /\ offset = Len(stream)
  /\ Fail("unexpectedEndOfStream")
  /\ UNCHANGED <<stream, offset, growing>>

Overflow ==
  /\ ReadingBytes /\ offset + Top.left > IntMax
  /\ Fail("overflow")
  /\ UNCHANGED <<stream, offset, growing>>

ReaderInit ==
  /\ stream = <<>>
  /\ offset = 0
  /\ growing = TRUE
  /\ frames = <<>>
  /\ result = NoItem
  /\ error = "none"

ReaderNext ==
  \/ ReadScalar \/ Open \/ ReadBytes \/ ReadBreak \/ Return
  \/ RefuseHead \/ EndOfStream \/ Overflow

=============================================================================
