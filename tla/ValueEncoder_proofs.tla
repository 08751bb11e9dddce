------------------------ MODULE ValueEncoder_proofs ------------------------
(***************************************************************************)
(* Proofs about ValueEncoder for every value of its constants.             *)
(***************************************************************************)
EXTENDS ValueEncoder, SequenceTheorems, TLAPS

(***************************************************************************)
(* The inductive invariant.  The insertion of a nested value only yields a *)
(* sequence if its index is in bounds, and the index stays in bounds only  *)
(* if a container that a referencing encoder holds is never freed.  An     *)
(* error that was delayed is thrown again because its finalizer stays.     *)
(***************************************************************************)
ErrorsKept ==
  \A e \in delayed : finalizers[e] > 0 /\ (e = Main => outcome # "ok")
IInv ==
  /\ TypeOK
  /\ CallsOK
  /\ ReferencesOK
  /\ InsertInBounds
  /\ ErrorsKept

-----------------------------------------------------------------------------
(* Facts about sequences and containers *)

LEMMA MainType == Main \in Encoders
BY BoundsAssumption DEF Main, Encoders

LEMMA FrontProperties ==
  ASSUME NEW S, NEW s \in Seq(S), Len(s) >= 1
  PROVE  /\ Front(s) \in Seq(S)
         /\ Len(Front(s)) = Len(s) - 1
         /\ \A i \in 1..(Len(s) - 1) : Front(s)[i] = s[i]
         /\ Last(s) \in S
<1>1. Len(s) \in Nat /\ \A i \in 1..Len(s) : s[i] \in S
  BY ElementOfSeq
<1>2. \A i \in 1..(Len(s) - 1) : s[i] \in S
  BY <1>1
<1>3. /\ SubSeq(s, 1, Len(s) - 1) \in Seq(S)
      /\ Len(SubSeq(s, 1, Len(s) - 1)) = Len(s) - 1
      /\ \A i \in 1..(Len(s) - 1) : SubSeq(s, 1, Len(s) - 1)[i] = s[i]
  <2> DEFINE n == Len(s) - 1
  <2>1. n \in Nat /\ \A i \in 1..n : s[i] \in S
    BY <1>1
  <2>2. /\ SubSeq(s, 1, n) \in Seq(S)
        /\ Len(SubSeq(s, 1, n)) = IF 1 <= n THEN n - 1 + 1 ELSE 0
        /\ \A i \in 1..(n - 1 + 1) : SubSeq(s, 1, n)[i] = s[1 + i - 1]
    <3> HIDE DEF n
    <3> QED BY <2>1, SubSeqProperties
  <2>3. n - 1 + 1 = n /\ \A i \in 1..n : 1 + i - 1 = i
    BY <2>1
  <2>4. \A i \in 1..n : SubSeq(s, 1, n)[i] = s[i]
    <3> HIDE DEF n
    <3> QED BY <2>1, <2>2, <2>3
  <2>5. Len(SubSeq(s, 1, n)) = n
    <3> HIDE DEF n
    <3> QED BY <2>1, <2>2
  <2> QED BY <2>2, <2>4, <2>5
<1>4. s[Len(s)] \in S
  BY <1>1
<1> QED BY <1>3, <1>4 DEF Front, Last

(***************************************************************************)
(* Putting an item never moves or drops an existing key.                   *)
(***************************************************************************)
LEMMA PutProperties ==
  ASSUME NEW s \in Seq(Item), NEW key \in Keys \union {NoKey},
         NEW v \in Values \union {Placeholder}
  PROVE  /\ Put(s, key, v) \in Seq(Item)
         /\ Len(Put(s, key, v)) >= Len(s)
         /\ \A i \in 1..Len(s) : Put(s, key, v)[i].key = s[i].key
<1> DEFINE new == [key |-> key, val |-> v]
<1>1. new \in Item
  BY DEF Item
<1>2. CASE HasKey(s, key)
  <2> DEFINE e(i) == IF s[i].key = key THEN [s[i] EXCEPT !.val = v] ELSE s[i]
  <2>1. \A i \in 1..Len(s) : e(i) \in Item /\ e(i).key = s[i].key
    <3> TAKE i \in 1..Len(s)
    <3>1. s[i] \in Item
      BY ElementOfSeq
    <3> QED BY <3>1 DEF Item
  <2>2. Put(s, key, v) = [i \in 1..Len(s) |-> e(i)]
    BY <1>2 DEF Put
  <2>3. [i \in 1..Len(s) |-> e(i)] \in Seq(Item)
    <3>1. Len(s) \in Nat
      OBVIOUS
    <3> HIDE DEF e
    <3> QED BY <2>1, <3>1
  <2> QED BY <2>1, <2>2, <2>3
<1>3. CASE ~HasKey(s, key)
  <2>1. Put(s, key, v) = Append(s, new)
    BY <1>3 DEF Put
  <2> QED BY <1>1, <2>1, AppendProperties
<1> QED BY <1>2, <1>3

LEMMA InsertProperties ==
  ASSUME NEW S, NEW s \in Seq(S), NEW n \in 0..Len(s), NEW x \in S
  PROVE  /\ InsertAt(s, n + 1, x) \in Seq(S)
         /\ Len(InsertAt(s, n + 1, x)) = Len(s) + 1
<1>0. Len(s) \in Nat /\ \A i \in 1..Len(s) : s[i] \in S
  BY ElementOfSeq
<1>1. SubSeq(s, 1, n) \in Seq(S) /\ Len(SubSeq(s, 1, n)) = n
  <2>1. \A i \in 1..n : s[i] \in S
    BY <1>0
  <2> QED BY <2>1, <1>0, SubSeqProperties
<1>2. SubSeq(s, n + 1, Len(s)) \in Seq(S) /\ Len(SubSeq(s, n + 1, Len(s))) = Len(s) - n
  <2>1. \A i \in (n + 1)..Len(s) : s[i] \in S
    BY <1>0
  <2> QED BY <2>1, <1>0, SubSeqProperties
<1>3. <<x>> \in Seq(S) /\ Len(<<x>>) = 1
  OBVIOUS
<1>4. /\ SubSeq(s, 1, n) \o <<x>> \in Seq(S)
      /\ Len(SubSeq(s, 1, n) \o <<x>>) = n + 1
  BY <1>1, <1>3, ConcatProperties
<1>5. InsertAt(s, n + 1, x) = (SubSeq(s, 1, n) \o <<x>>) \o SubSeq(s, n + 1, Len(s))
  <2>1. (n + 1) - 1 = n
    OBVIOUS
  <2> QED BY <2>1 DEF InsertAt
<1> DEFINE left  == SubSeq(s, 1, n) \o <<x>>
           right == SubSeq(s, n + 1, Len(s))
<1>6. left \o right \in Seq(S) /\ Len(left \o right) = Len(left) + Len(right)
  <2>1. left \in Seq(S) /\ right \in Seq(S)
    BY <1>2, <1>4
  <2> HIDE DEF left, right
  <2> QED BY <2>1, ConcatProperties
<1>7. Len(left) = n + 1 /\ Len(right) = Len(s) - n
  BY <1>2, <1>4
<1>8. Len(left) + Len(right) = Len(s) + 1
  <2>1. n \in Int /\ Len(s) \in Int
    BY <1>0
  <2> HIDE DEF left, right
  <2> QED BY <2>1, <1>7
<1> QED BY <1>5, <1>6, <1>8

-----------------------------------------------------------------------------
(* Facts about the state *)

(***************************************************************************)
(* How the items of a keyed container may change: one Put at most.         *)
(***************************************************************************)
KeyedByPut ==
  \A c \in Containers :
    kind[c] = "keyed" /\ kind'[c] = "keyed" =>
      \/ items'[c] = items[c]
      \/ \E key \in Keys \union {NoKey}, v \in Values \union {Placeholder} :
           items'[c] = Put(items[c], key, v)

\* A container that a referencing encoder holds stays, and does not shrink.
HeldKept ==
  \A c \in Containers :
    kind[c] # "none" /\ LiveOn(c) # {} =>
      kind'[c] = kind[c] /\ Len(items'[c]) >= Len(items[c])

LEMMA IntFacts ==
  /\ Main \in Encoders
  /\ Encoders \subseteq Nat \ {0} /\ Containers \subseteq Nat \ {0}
  /\ Primitive \in Values /\ Containers \subseteq Values
  /\ Values \subseteq Values \union {Placeholder}
  /\ Containers \subseteq Seats /\ Unused \in Seats /\ Used \in Seats
  /\ Single \notin Containers /\ Primitive \notin Containers
BY BoundsAssumption DEF Main, Encoders, Containers, Values, Primitive, Seats,
   Unused, Used, Single

LEMMA SlotFacts ==
  /\ \A c \in Containers : Object(c) \in Slot
  /\ \A v \in Values : Boxed(v) \in Slot
BY IntFacts DEF Slot, Object, Boxed

(***************************************************************************)
(* The referencing encoders stay linked as long as the containers they     *)
(* hold do.                                                                *)
(***************************************************************************)
LEMMA LinksKept ==
  ASSUME TypeOK, ReferencesOK, InsertInBounds, HeldKept,
         items' \in [Containers -> Seq(Item)],
         alive' \subseteq alive,
         \A r \in alive' \ {Main} : reference'[r] = reference[r]
  PROVE  ReferencesOK' /\ InsertInBounds'
<1> SUFFICES ASSUME NEW r \in alive' \ {Main}
             PROVE  /\ reference'[r] # NoReference
                    /\ kind'[reference'[r].container] =
                         IF reference'[r].key = NoKey THEN "unkeyed" ELSE "keyed"
                    /\ reference'[r].key = NoKey =>
                         reference'[r].index <= Len(items'[reference'[r].container])
  BY DEF ReferencesOK, InsertInBounds
<1> DEFINE c == reference[r].container
<1>1. r \in alive \ {Main} /\ r \in Encoders /\ reference'[r] = reference[r]
  BY DEF TypeOK
<1>2. reference[r] \in Reference /\ reference[r] # NoReference
  BY <1>1 DEF TypeOK, ReferencesOK
<1>3. c \in Containers /\ reference[r].index \in Nat
  BY <1>2 DEF Reference
<1>4. kind[c] = IF reference[r].key = NoKey THEN "unkeyed" ELSE "keyed"
  BY <1>1 DEF ReferencesOK
<1>5. r \in LiveOn(c)
  BY <1>1 DEF LiveOn
<1>6. kind'[c] = kind[c] /\ Len(items'[c]) >= Len(items[c])
  BY <1>3, <1>4, <1>5 DEF HeldKept
<1>7. Len(items[c]) \in Nat /\ Len(items'[c]) \in Nat
  BY <1>3 DEF TypeOK
<1>8. reference[r].key = NoKey => reference[r].index <= Len(items[c])
  BY <1>1 DEF InsertInBounds
<1> QED BY <1>1, <1>2, <1>3, <1>4, <1>6, <1>7, <1>8

LEMMA CurrentProperties ==
  ASSUME TypeOK, CallsOK, Running
  PROVE  /\ Len(calls) \in Nat \ {0}
         /\ Current = calls[Len(calls)] /\ Current \in Call
         /\ Current.encoder \in Encoders
         /\ Current.depth \in Nat
         /\ Current.seat \in Seats
         /\ Current.into \in Containers \union {Single}
         /\ Current.key \in Keys \union {NoKey}
         /\ Len(calls) = 1 => Current.encoder = Main
<1>1. calls \in Seq(Call) /\ Len(calls) \in Nat \ {0} /\ calls[1].encoder = Main
  BY DEF TypeOK, CallsOK
<1>2. Current = calls[Len(calls)] /\ Current \in Call
  BY <1>1, ElementOfSeq DEF Current, Last
<1> QED BY <1>1, <1>2 DEF Call

LEMMA HandleTypes ==
  ASSUME TypeOK, CallsOK, Running, NEW e, NEW c, <<e, c>> \in Handles
  PROVE  e \in Encoders /\ c \in Containers
<1>1. Current.encoder \in Encoders
  BY CurrentProperties
<1> QED BY <1>1 DEF Handles, Reachable, Owned, TypeOK

LEMMA ReachableTypes ==
  ASSUME TypeOK, CallsOK, Running, NEW e \in Reachable
  PROVE  e \in Encoders /\ SeatOf(e) \in Seats
<1>1. Current.encoder \in Encoders /\ Current.seat \in Seats
  BY CurrentProperties
<1> QED BY <1>1 DEF Reachable, Owned, SeatOf, TypeOK

LEMMA FreeProperties ==
  ASSUME TypeOK, NEW slot \in Slot, Free(slot)
  PROVE  /\ kind' \in [Containers -> Kinds \union {"none"}]
         /\ items' \in [Containers -> Seq(Item)]
         /\ HeldKept
         /\ KeyedByPut
<1>1. CASE UNCHANGED heap
  BY <1>1 DEF TypeOK, heap, HeldKept, KeyedByPut
<1>2. CASE /\ LiveOn(slot.id) = {}
           /\ kind' = [kind EXCEPT ![slot.id] = "none"]
           /\ items' = [items EXCEPT ![slot.id] = <<>>]
  <2>1. \A c \in Containers : c # slot.id => kind'[c] = kind[c] /\ items'[c] = items[c]
    BY <1>2 DEF TypeOK
  <2>2. <<>> \in Seq(Item)
    OBVIOUS
  <2>3. items' \in [Containers -> Seq(Item)]
    BY <1>2, <2>2 DEF TypeOK
  <2>4. kind' \in [Containers -> Kinds \union {"none"}]
    BY <1>2 DEF TypeOK
  <2>5. HeldKept
    <3>1. \A c \in Containers : Len(items[c]) \in Nat
      BY DEF TypeOK
    <3> QED BY <1>2, <2>1, <3>1 DEF HeldKept
  <2>6. KeyedByPut
    <3>1. slot.id \in Containers => kind'[slot.id] = "none"
      BY <1>2 DEF TypeOK
    <3> QED BY <2>1, <3>1 DEF KeyedByPut
  <2> QED BY <2>3, <2>4, <2>5, <2>6
<1> QED BY <1>1, <1>2 DEF Free

\* Putting an item into one container and allocating another.
LEMMA PutKeeps ==
  ASSUME TypeOK, NEW c \in Containers, NEW key \in Keys \union {NoKey},
         NEW v \in Values \union {Placeholder},
         items' = [items EXCEPT ![c] = Put(@, key, v)],
         \/ kind' = kind
         \/ \E d \in Containers, k \in Kinds :
              FreshContainer(d) /\ kind' = [kind EXCEPT ![d] = k]
  PROVE  /\ kind' \in [Containers -> Kinds \union {"none"}]
         /\ items' \in [Containers -> Seq(Item)]
         /\ HeldKept
         /\ KeyedByPut
<1>1. items[c] \in Seq(Item)
  BY DEF TypeOK
<1>2. Put(items[c], key, v) \in Seq(Item) /\ Len(Put(items[c], key, v)) >= Len(items[c])
  BY <1>1, PutProperties
<1>3. items' \in [Containers -> Seq(Item)]
  BY <1>2 DEF TypeOK
<1>4. \A d \in Containers : d # c => items'[d] = items[d]
  BY DEF TypeOK
<1>5. items'[c] = Put(items[c], key, v)
  BY DEF TypeOK
<1>6. kind' \in [Containers -> Kinds \union {"none"}]
  BY DEF TypeOK
<1>7. \A d \in Containers : kind[d] # "none" => kind'[d] = kind[d]
  BY DEF TypeOK, FreshContainer
<1>8. \A d \in Containers : Len(items'[d]) >= Len(items[d])
  <2>1. \A d \in Containers : Len(items[d]) \in Nat
    BY DEF TypeOK
  <2> QED BY <1>2, <1>4, <1>5, <2>1
<1>9. HeldKept
  BY <1>7, <1>8 DEF HeldKept
<1>10. KeyedByPut
  BY <1>4, <1>5 DEF KeyedByPut
<1> QED BY <1>3, <1>6, <1>9, <1>10

\* Allocating a container.
LEMMA FreshKeeps ==
  ASSUME TypeOK, NEW d \in Containers, NEW k \in Kinds, FreshContainer(d),
         kind' = [kind EXCEPT ![d] = k], items' = items
  PROVE  /\ kind' \in [Containers -> Kinds \union {"none"}]
         /\ HeldKept
         /\ KeyedByPut
<1>1. \A c \in Containers : Len(items[c]) \in Nat
  BY DEF TypeOK
<1> QED BY <1>1 DEF TypeOK, FreshContainer, HeldKept, KeyedByPut
\* A step that leaves the heap and the references alone.
LEMMA HeapUntouched ==
  ASSUME IInv, UNCHANGED <<kind, items, reference, alive>>
  PROVE  HeldKept /\ KeyedByPut /\ ReferencesOK' /\ InsertInBounds'
<1>1. \A c \in Containers : Len(items[c]) \in Nat
  BY DEF IInv, TypeOK
<1>2. HeldKept /\ KeyedByPut
  BY <1>1 DEF HeldKept, KeyedByPut
<1> QED BY <1>2, LinksKept DEF IInv, TypeOK

\* Writing down the use of an encoder disturbs nothing else.
LEMMA SetSeatProperties ==
  ASSUME TypeOK, CallsOK, Running, NEW e \in Encoders, NEW x \in Seats,
         SetSeat(e, x)
  PROVE  /\ handle' \in [Encoders -> Seats]
         /\ calls' \in Seq(Call)
         /\ Len(calls') >= 1 /\ calls'[1].encoder = Main
<1>1. /\ Len(calls) \in Nat \ {0} /\ calls \in Seq(Call)
      /\ calls[Len(calls)] \in Call /\ calls[1].encoder = Main
      /\ calls[1] \in Call
  BY CurrentProperties, ElementOfSeq DEF TypeOK, CallsOK
<1>2. CASE e = Current.encoder
  <2>1. calls' = [calls EXCEPT ![Len(calls)].seat = x] /\ handle' = handle
    BY <1>2 DEF SetSeat
  <2>2. [calls[Len(calls)] EXCEPT !.seat = x] \in Call
    BY <1>1 DEF Call
  <2>3. calls' \in Seq(Call) /\ Len(calls') = Len(calls)
    BY <1>1, <2>1, <2>2, ExceptSeq
  <2>4. calls'[1].encoder = Main
    BY <1>1, <2>1 DEF Call
  <2> QED BY <1>1, <2>1, <2>3, <2>4 DEF TypeOK
<1>3. CASE e # Current.encoder
  <2>1. calls' = calls /\ handle' = [handle EXCEPT ![e] = x]
    BY <1>3 DEF SetSeat
  <2> QED BY <1>1, <2>1 DEF TypeOK
<1> QED BY <1>2, <1>3

-----------------------------------------------------------------------------
(* The operations of an encoder *)

LEMMA PushContainerStep ==
  ASSUME IInv, NEW e \in Encoders, NEW k \in Kinds, PushContainer(e, k)
  PROVE  IInv' /\ KeyedByPut
<1>1. PICK c \in Containers :
        /\ FreshContainer(c)
        /\ kind' = [kind EXCEPT ![c] = k]
        /\ storage' = [storage EXCEPT ![e] = Append(@, Object(c))]
        /\ SetSeat(e, c)
  BY DEF PushContainer
<1>2. /\ Running /\ UNCHANGED <<items, path, finalizers, reference, created,
                                alive, owner, unwinding, outcome, delayed>>
  BY DEF PushContainer, Client, Ready, links
<1>3. TypeOK /\ CallsOK /\ ReferencesOK /\ InsertInBounds /\ ErrorsKept
  BY DEF IInv
<1>4. /\ kind' \in [Containers -> Kinds \union {"none"}]
      /\ HeldKept /\ KeyedByPut
  BY <1>1, <1>2, <1>3, FreshKeeps
<1>5. /\ handle' \in [Encoders -> Seats] /\ calls' \in Seq(Call)
      /\ Len(calls') >= 1 /\ calls'[1].encoder = Main
  BY <1>1, <1>2, <1>3, SetSeatProperties, IntFacts
<1>6. storage' \in [Encoders -> Seq(Slot)]
  <2>1. storage[e] \in Seq(Slot) /\ Object(c) \in Slot
    BY <1>3, SlotFacts DEF TypeOK
  <2>2. Append(storage[e], Object(c)) \in Seq(Slot)
    BY <2>1
  <2> QED BY <1>1, <1>3, <2>2 DEF TypeOK
<1>7. TypeOK'
  BY <1>2, <1>3, <1>4, <1>5, <1>6 DEF TypeOK
<1>8. ReferencesOK' /\ InsertInBounds'
  BY <1>2, <1>3, <1>4, LinksKept DEF TypeOK
<1>9. CallsOK' /\ ErrorsKept'
  BY <1>2, <1>3, <1>5 DEF CallsOK, ErrorsKept
<1> QED BY <1>4, <1>7, <1>8, <1>9 DEF IInv

LEMMA FindContainerStep ==
  ASSUME IInv, NEW e \in Encoders, NEW k \in Kinds, FindContainer(e, k)
  PROVE  IInv' /\ KeyedByPut
<1>1. /\ Running /\ UNCHANGED <<kind, items, storage, path, finalizers, reference,
                   created, alive, owner, unwinding, delayed>>
  BY DEF FindContainer, Client, Ready, heap, encoding, links
<1>2. KeyedByPut /\ ReferencesOK' /\ InsertInBounds'
  BY <1>1, HeapUntouched
<1>3. TypeOK /\ CallsOK /\ ErrorsKept
  BY DEF IInv
<1>4. CASE /\ storage[e] # <<>> /\ IsObject(Last(storage[e]), k)
           /\ SetSeat(e, Last(storage[e]).id) /\ UNCHANGED outcome
  <2>1. Last(storage[e]).id \in Seats
    <3>1. storage[e] \in Seq(Slot) /\ Len(storage[e]) >= 1
      BY <1>3, <1>4, EmptySeq DEF TypeOK
    <3>2. Last(storage[e]) \in Slot
      BY <3>1, FrontProperties
    <3>3. Last(storage[e]).id \in Values
      BY <3>2 DEF Slot
    <3> QED BY <3>3 DEF Values, Seats, Primitive, Unused
  <2>2. /\ handle' \in [Encoders -> Seats] /\ calls' \in Seq(Call)
        /\ Len(calls') >= 1 /\ calls'[1].encoder = Main
    BY <1>1, <1>3, <1>4, <2>1, SetSeatProperties
  <2>3. TypeOK' /\ CallsOK' /\ ErrorsKept'
    BY <1>1, <1>3, <1>4, <2>2 DEF TypeOK, CallsOK, ErrorsKept
  <2> QED BY <1>2, <2>3 DEF IInv
<1>5. CASE Trap /\ UNCHANGED <<calls, handle>>
  <2>1. TypeOK' /\ CallsOK' /\ ErrorsKept'
    BY <1>1, <1>3, <1>5 DEF TypeOK, CallsOK, ErrorsKept, Trap, Running
  <2> QED BY <1>2, <2>1 DEF IInv
<1> QED BY <1>4, <1>5 DEF FindContainer

LEMMA EncodeSingleStep ==
  ASSUME IInv, NEW e \in Encoders, EncodeSingle(e)
  PROVE  IInv' /\ KeyedByPut
<1>1. /\ Running /\ UNCHANGED <<kind, items, path, finalizers, reference,
                   created, alive, owner, unwinding, delayed>>
  BY DEF EncodeSingle, Client, Ready, heap, links
<1>2. KeyedByPut /\ ReferencesOK' /\ InsertInBounds'
  BY <1>1, HeapUntouched
<1>3. TypeOK /\ CallsOK /\ ErrorsKept
  BY DEF IInv
<1>4. CASE /\ storage' = [storage EXCEPT ![e] = Append(@, Boxed(Primitive))]
           /\ SetSeat(e, Used) /\ UNCHANGED outcome
  <2>1. storage' \in [Encoders -> Seq(Slot)]
    <3>1. storage[e] \in Seq(Slot) /\ Boxed(Primitive) \in Slot
      BY <1>3, SlotFacts, IntFacts DEF TypeOK
    <3>2. Append(storage[e], Boxed(Primitive)) \in Seq(Slot)
      BY <3>1
    <3> QED BY <1>3, <1>4, <3>2 DEF TypeOK
  <2>2. /\ handle' \in [Encoders -> Seats] /\ calls' \in Seq(Call)
        /\ Len(calls') >= 1 /\ calls'[1].encoder = Main
    BY <1>1, <1>3, <1>4, SetSeatProperties, IntFacts
  <2>3. TypeOK' /\ CallsOK' /\ ErrorsKept'
    BY <1>1, <1>3, <1>4, <2>1, <2>2 DEF TypeOK, CallsOK, ErrorsKept
  <2> QED BY <1>2, <2>3 DEF IInv
<1>5. CASE Trap /\ UNCHANGED <<storage, calls, handle>>
  <2>1. TypeOK' /\ CallsOK' /\ ErrorsKept'
    BY <1>1, <1>3, <1>5 DEF TypeOK, CallsOK, ErrorsKept, Trap, Running
  <2> QED BY <1>2, <2>1 DEF IInv
<1> QED BY <1>4, <1>5 DEF EncodeSingle
\* A new activation on top of the others.
LEMMA PushCall ==
  ASSUME TypeOK, CallsOK, Running, NEW a \in Call, calls' = Append(calls, a)
  PROVE  /\ calls' \in Seq(Call)
         /\ Len(calls') >= 1 /\ calls'[1].encoder = Main
<1>1. calls \in Seq(Call) /\ Len(calls) \in Nat \ {0} /\ calls[1].encoder = Main
  BY CurrentProperties DEF TypeOK, CallsOK
<1>2. calls' \in Seq(Call) /\ Len(calls') = Len(calls) + 1 /\ calls'[1] = calls[1]
  BY <1>1, AppendProperties
<1> QED BY <1>1, <1>2

LEMMA SubEncodeSingleStep ==
  ASSUME IInv, NEW e \in Encoders, SubEncodeSingle(e)
  PROVE  IInv' /\ KeyedByPut
<1>1. /\ Running /\ UNCHANGED <<kind, items, storage, path, finalizers, reference,
                   created, alive, owner, handle, unwinding, delayed>>
  BY DEF SubEncodeSingle, Client, Ready, heap, encoding, links
<1>2. KeyedByPut /\ ReferencesOK' /\ InsertInBounds'
  BY <1>1, HeapUntouched
<1>3. TypeOK /\ CallsOK /\ ErrorsKept
  BY DEF IInv
<1> DEFINE a == [encoder |-> e, depth |-> Len(storage[e]), seat |-> Unused,
                 loop |-> FALSE, into |-> Single, key |-> NoKey]
<1>4. CASE calls' = Append(calls, a) /\ UNCHANGED outcome
  <2>1. a \in Call
    <3>1. Len(storage[e]) \in Nat
      BY <1>3 DEF TypeOK
    <3> QED BY <3>1, IntFacts DEF Call
  <2>2. calls' \in Seq(Call) /\ Len(calls') >= 1 /\ calls'[1].encoder = Main
    <3> HIDE DEF a
    <3> QED BY <1>1, <1>3, <1>4, <2>1, PushCall
  <2>3. TypeOK' /\ CallsOK' /\ ErrorsKept'
    BY <1>1, <1>3, <1>4, <2>2 DEF TypeOK, CallsOK, ErrorsKept
  <2> QED BY <1>2, <2>3 DEF IInv
<1>5. CASE Trap /\ UNCHANGED calls
  <2>1. TypeOK' /\ CallsOK' /\ ErrorsKept'
    BY <1>1, <1>3, <1>5 DEF TypeOK, CallsOK, ErrorsKept, Trap, Running
  <2> QED BY <1>2, <2>1 DEF IInv
<1> QED BY <1>4, <1>5 DEF SubEncodeSingle

-----------------------------------------------------------------------------
(* The operations of a container *)

LEMMA EncodeIntoContainer ==
  ASSUME IInv, NEW e, NEW c, NEW key \in Keys \union {NoKey},
         Ready, <<e, c>> \in Handles,
         items' = [items EXCEPT ![c] = Put(@, key, Primitive)],
         UNCHANGED <<kind, storage, path, finalizers, reference, created, alive,
                     owner, handle, calls, unwinding, outcome, delayed>>
  PROVE  IInv' /\ KeyedByPut
<1>1. TypeOK /\ CallsOK /\ ReferencesOK /\ InsertInBounds /\ ErrorsKept
  BY DEF IInv
<1>2. c \in Containers
  BY <1>1, HandleTypes DEF Ready
<1>3. items' \in [Containers -> Seq(Item)] /\ HeldKept /\ KeyedByPut
  BY <1>1, <1>2, PutKeeps, IntFacts
<1>4. TypeOK' /\ CallsOK' /\ ErrorsKept'
  BY <1>1, <1>3 DEF TypeOK, CallsOK, ErrorsKept, Running
<1>5. ReferencesOK' /\ InsertInBounds'
  BY <1>1, <1>3, LinksKept
<1> QED BY <1>3, <1>4, <1>5 DEF IInv

LEMMA EncodePrimitiveStep ==
  ASSUME IInv, NEW e, NEW c, NEW key \in Keys \union {NoKey},
         EncodePrimitive(e, c, key)
  PROVE  IInv' /\ KeyedByPut
BY EncodeIntoContainer DEF EncodePrimitive, encoding, links

LEMMA AppendPrimitiveStep ==
  ASSUME IInv, NEW e, NEW c, AppendPrimitive(e, c)
  PROVE  IInv' /\ KeyedByPut
BY EncodeIntoContainer DEF AppendPrimitive, encoding, links

LEMMA SubEncodeStep ==
  ASSUME IInv, NEW e, NEW c, NEW key \in Keys \union {NoKey}, SubEncode(e, c, key)
  PROVE  IInv' /\ KeyedByPut
<1> DEFINE a == [encoder |-> e, depth |-> Len(storage[e]), seat |-> Unused,
                 loop |-> FALSE, into |-> c, key |-> key]
<1>1. /\ Running /\ <<e, c>> \in Handles
      /\ path' = [path EXCEPT ![e] = @ + 1] /\ calls' = Append(calls, a)
      /\ UNCHANGED <<kind, items, storage, finalizers, reference, created,
                     alive, owner, handle, unwinding, outcome, delayed>>
  BY DEF SubEncode, Ready, heap, links
<1>2. TypeOK /\ CallsOK /\ ErrorsKept
  BY DEF IInv
<1>3. e \in Encoders /\ c \in Containers
  BY <1>1, <1>2, HandleTypes
<1>4. KeyedByPut /\ ReferencesOK' /\ InsertInBounds'
  BY <1>1, HeapUntouched
<1>5. a \in Call
  <2>1. Len(storage[e]) \in Nat
    BY <1>2, <1>3 DEF TypeOK
  <2> QED BY <1>3, <2>1, IntFacts DEF Call
<1>6. calls' \in Seq(Call) /\ Len(calls') >= 1 /\ calls'[1].encoder = Main
  <2> HIDE DEF a
  <2> QED BY <1>1, <1>2, <1>5, PushCall
<1>7. path' \in [Encoders -> Int]
  BY <1>1, <1>2, <1>3 DEF TypeOK
<1>8. TypeOK' /\ CallsOK' /\ ErrorsKept'
  BY <1>1, <1>2, <1>6, <1>7 DEF TypeOK, CallsOK, ErrorsKept
<1> QED BY <1>4, <1>8 DEF IInv

LEMMA SubEncodeCollectionStep ==
  ASSUME IInv, NEW e, NEW c, NEW key \in Keys \union {NoKey}, NEW k \in Kinds,
         SubEncodeCollection(e, c, key, k)
  PROVE  IInv' /\ KeyedByPut
<1>1. /\ Running /\ <<e, c>> \in Handles
      /\ path' = [path EXCEPT ![e] = @ + 1]
      /\ UNCHANGED <<items, finalizers, reference, created, alive, owner,
                     handle, unwinding, outcome, delayed>>
  BY DEF SubEncodeCollection, Ready, links
<1> DEFINE a(d) == [encoder |-> e, depth |-> Len(storage[e]), seat |-> d,
                    loop |-> TRUE, into |-> c, key |-> key]
<1>2. PICK d \in Containers :
        /\ FreshContainer(d) /\ kind' = [kind EXCEPT ![d] = k]
        /\ storage' = [storage EXCEPT ![e] = Append(@, Object(d))]
        /\ calls' = Append(calls, a(d))
  BY DEF SubEncodeCollection
<1>3. TypeOK /\ CallsOK /\ ReferencesOK /\ InsertInBounds /\ ErrorsKept
  BY DEF IInv
<1>4. e \in Encoders /\ c \in Containers
  BY <1>1, <1>3, HandleTypes
<1>5. /\ kind' \in [Containers -> Kinds \union {"none"}]
      /\ HeldKept /\ KeyedByPut
  BY <1>1, <1>2, <1>3, FreshKeeps
<1>6. storage' \in [Encoders -> Seq(Slot)]
  <2>1. storage[e] \in Seq(Slot) /\ Object(d) \in Slot
    BY <1>3, <1>4, SlotFacts DEF TypeOK
  <2>2. Append(storage[e], Object(d)) \in Seq(Slot)
    BY <2>1
  <2> QED BY <1>2, <1>3, <2>2 DEF TypeOK
<1>7. a(d) \in Call
  <2>1. Len(storage[e]) \in Nat
    BY <1>3, <1>4 DEF TypeOK
  <2> QED BY <1>4, <2>1, IntFacts DEF Call
<1>8. calls' \in Seq(Call) /\ Len(calls') >= 1 /\ calls'[1].encoder = Main
  <2> HIDE DEF a
  <2> QED BY <1>1, <1>2, <1>3, <1>7, PushCall
<1>9. path' \in [Encoders -> Int]
  BY <1>1, <1>3, <1>4 DEF TypeOK
<1>10. TypeOK' /\ CallsOK' /\ ErrorsKept'
  BY <1>1, <1>3, <1>5, <1>6, <1>8, <1>9 DEF TypeOK, CallsOK, ErrorsKept
<1>11. ReferencesOK' /\ InsertInBounds'
  BY <1>1, <1>3, <1>5, LinksKept DEF TypeOK
<1> QED BY <1>5, <1>10, <1>11 DEF IInv

(***************************************************************************)
(* A new referencing encoder: its reference is right, the others are kept. *)
(***************************************************************************)
LEMMA ReferProperties ==
  ASSUME IInv, Running, NEW r \in Encoders, NEW e, NEW c,
         NEW key \in Keys \union {NoKey},
         <<e, c>> \in Handles, key \in KeysOf(c), r = created + 1,
         Refer(r, e, c, key),
         \/ kind' = kind
         \/ \E d \in Containers, k \in Kinds :
              FreshContainer(d) /\ kind' = [kind EXCEPT ![d] = k]
  PROVE  /\ kind' \in [Containers -> Kinds \union {"none"}]
         /\ items' \in [Containers -> Seq(Item)]
         /\ reference' \in [Encoders -> Reference]
         /\ created' \in Encoders /\ alive' \subseteq Encoders
         /\ owner' \in [Encoders -> Nat] /\ path' \in [Encoders -> Int]
         /\ ReferencesOK' /\ InsertInBounds' /\ KeyedByPut
<1>1. TypeOK /\ CallsOK /\ ReferencesOK /\ InsertInBounds
  BY DEF IInv
<1>2. e \in Encoders /\ c \in Containers
  BY <1>1, HandleTypes
<1> DEFINE ref == [encoder |-> e, container |-> c, key |-> key,
                   index |-> IF key = NoKey THEN Len(items[c]) ELSE 0]
<1>3. /\ items' = [items EXCEPT ![c] = Reserve(@, key)]
      /\ reference' = [reference EXCEPT ![r] = ref]
      /\ created' = r /\ alive' = alive \union {r}
      /\ owner' = [owner EXCEPT ![r] = Len(calls)]
      /\ path' = [path EXCEPT ![r] = path[e] + 1]
  BY DEF Refer, IndexOf
<1>4. /\ kind' \in [Containers -> Kinds \union {"none"}]
      /\ items' \in [Containers -> Seq(Item)]
      /\ HeldKept /\ KeyedByPut
  <2>1. CASE key = NoKey
    <3>1. items' = items
      BY <1>1, <1>2, <1>3, <2>1 DEF Reserve, TypeOK
    <3>2. CASE kind' = kind
      <4>1. \A d \in Containers : Len(items[d]) \in Nat
        BY <1>1 DEF TypeOK
      <4> QED BY <1>1, <3>1, <3>2, <4>1 DEF TypeOK, HeldKept, KeyedByPut
    <3>3. CASE \E d \in Containers, k \in Kinds :
                 FreshContainer(d) /\ kind' = [kind EXCEPT ![d] = k]
      BY <1>1, <3>1, <3>3, FreshKeeps DEF TypeOK
    <3> QED BY <3>2, <3>3
  <2>2. CASE key # NoKey
    <3>1. items' = [items EXCEPT ![c] = Put(@, key, Placeholder)]
      BY <1>3, <2>2 DEF Reserve
    <3> QED BY <1>1, <1>2, <3>1, PutKeeps
  <2> QED BY <2>1, <2>2
<1>5. ref \in Reference /\ ref # NoReference
  <2>1. Len(items[c]) \in Nat
    BY <1>1, <1>2 DEF TypeOK
  <2>2. ref \in [encoder : Encoders, container : Containers,
                 key : Keys \union {NoKey}, index : Nat]
    BY <1>2, <2>1
  <2>3. ref # NoReference
    BY <1>2, IntFacts DEF NoReference
  <2> QED BY <2>2, <2>3 DEF Reference
<1>6. reference' \in [Encoders -> Reference]
  BY <1>1, <1>3, <1>5 DEF TypeOK
<1>7. created' \in Encoders /\ alive' \subseteq Encoders
  BY <1>1, <1>3 DEF TypeOK
<1>8. owner' \in [Encoders -> Nat]
  BY <1>1, <1>3, CurrentProperties DEF TypeOK
<1>9. path' \in [Encoders -> Int]
  <2>1. path \in [Encoders -> Int] /\ path[e] + 1 \in Int
    BY <1>1, <1>2 DEF TypeOK
  <2> HIDE DEF ref
  <2> QED BY <1>3, <2>1
<1>10. kind[c] = IF key = NoKey THEN "unkeyed" ELSE "keyed"
  BY <1>2, KeysAssumption DEF KeysOf
<1>11. kind'[c] = kind[c] /\ Len(items'[c]) >= Len(items[c])
  <2>1. kind'[c] = kind[c]
    BY <1>1, <1>2, <1>10 DEF TypeOK, FreshContainer
  <2>2. Len(items'[c]) >= Len(items[c])
    <3>1. items[c] \in Seq(Item)
      BY <1>1, <1>2 DEF TypeOK
    <3>2. items'[c] = Reserve(items[c], key)
      BY <1>1, <1>2, <1>3 DEF TypeOK
    <3>3. Len(Put(items[c], key, Placeholder)) >= Len(items[c])
      BY <3>1, PutProperties
    <3> QED BY <3>1, <3>2, <3>3 DEF Reserve
  <2> QED BY <2>1, <2>2
<1>12. \A s \in alive' \ {Main, r} :
         /\ reference'[s] # NoReference
         /\ kind'[reference'[s].container] =
              IF reference'[s].key = NoKey THEN "unkeyed" ELSE "keyed"
         /\ reference'[s].key = NoKey =>
              reference'[s].index <= Len(items'[reference'[s].container])
  <2> TAKE s \in alive' \ {Main, r}
  <2> DEFINE d == reference[s].container
  <2>1. s \in alive \ {Main} /\ s \in Encoders /\ reference'[s] = reference[s]
    BY <1>1, <1>3 DEF TypeOK
  <2>2. reference[s] \in Reference /\ reference[s] # NoReference
    BY <1>1, <2>1 DEF TypeOK, ReferencesOK
  <2>3. d \in Containers /\ reference[s].index \in Nat
    BY <2>2 DEF Reference
  <2>4. kind[d] = IF reference[s].key = NoKey THEN "unkeyed" ELSE "keyed"
    BY <1>1, <2>1 DEF ReferencesOK
  <2>5. s \in LiveOn(d)
    BY <2>1 DEF LiveOn
  <2>6. kind'[d] = kind[d] /\ Len(items'[d]) >= Len(items[d])
    BY <1>4, <2>3, <2>4, <2>5 DEF HeldKept
  <2>7. Len(items[d]) \in Nat /\ Len(items'[d]) \in Nat
    <3>1. items[d] \in Seq(Item) /\ items'[d] \in Seq(Item)
      <4> HIDE DEF d
      <4> QED BY <1>1, <1>4, <2>3 DEF TypeOK
    <3> HIDE DEF d
    <3> QED BY <3>1
  <2>8. reference[s].key = NoKey => reference[s].index <= Len(items[d])
    BY <1>1, <2>1 DEF InsertInBounds
  <2> QED BY <2>1, <2>2, <2>4, <2>6, <2>3, <2>7, <2>8
<1>13. /\ reference'[r] = ref /\ ref.container = c /\ ref.key = key
       /\ key = NoKey => ref.index = Len(items[c])
  BY <1>1, <1>3 DEF TypeOK
<1>14. Len(items[c]) \in Nat /\ Len(items'[c]) \in Nat
  <2>1. items[c] \in Seq(Item)
    BY <1>1, <1>2 DEF TypeOK
  <2>2. items'[c] \in Seq(Item)
    BY <1>2, <1>4
  <2> QED BY <2>1, <2>2
<1>15. ReferencesOK'
  <2> HIDE DEF ref
  <2> QED BY <1>5, <1>10, <1>11, <1>12, <1>13 DEF ReferencesOK
<1>16. InsertInBounds'
  <2> HIDE DEF ref
  <2> QED BY <1>11, <1>12, <1>13, <1>14 DEF InsertInBounds
<1> QED BY <1>4, <1>6, <1>7, <1>8, <1>9, <1>15, <1>16
LEMMA NestedContainerStep ==
  ASSUME IInv, NEW e, NEW c, NEW key \in Keys \union {NoKey}, NEW k \in Kinds,
         NestedContainer(e, c, key, k)
  PROVE  IInv' /\ KeyedByPut
<1>1. /\ Running /\ <<e, c>> \in Handles /\ key \in KeysOf(c)
      /\ UNCHANGED <<finalizers, calls, unwinding, outcome, delayed>>
  BY DEF NestedContainer, Client, Ready
<1>2. PICK r \in Encoders, d \in Containers :
        /\ r = created + 1 /\ FreshContainer(d)
        /\ Refer(r, e, c, key)
        /\ kind' = [kind EXCEPT ![d] = k]
        /\ storage' = [storage EXCEPT ![r] = <<Object(d)>>]
        /\ handle' = [handle EXCEPT ![r] = d]
  BY DEF NestedContainer
<1>3. /\ kind' \in [Containers -> Kinds \union {"none"}]
      /\ items' \in [Containers -> Seq(Item)]
      /\ reference' \in [Encoders -> Reference]
      /\ created' \in Encoders /\ alive' \subseteq Encoders
      /\ owner' \in [Encoders -> Nat] /\ path' \in [Encoders -> Int]
      /\ ReferencesOK' /\ InsertInBounds' /\ KeyedByPut
  BY <1>1, <1>2, ReferProperties
<1>4. TypeOK /\ CallsOK /\ ErrorsKept
  BY DEF IInv
<1>5. storage' \in [Encoders -> Seq(Slot)]
  <2>1. <<Object(d)>> \in Seq(Slot)
    BY SlotFacts
  <2> QED BY <1>2, <1>4, <2>1 DEF TypeOK
<1>6. handle' \in [Encoders -> Seats]
  BY <1>2, <1>4, IntFacts DEF TypeOK
<1>7. TypeOK' /\ CallsOK' /\ ErrorsKept'
  BY <1>1, <1>3, <1>4, <1>5, <1>6 DEF TypeOK, CallsOK, ErrorsKept
<1> QED BY <1>3, <1>7 DEF IInv

LEMMA SuperEncoderStep ==
  ASSUME IInv, NEW e, NEW c, NEW key \in Keys \union {NoKey},
         SuperEncoder(e, c, key)
  PROVE  IInv' /\ KeyedByPut
<1>1. /\ Running /\ <<e, c>> \in Handles /\ key \in KeysOf(c)
      /\ UNCHANGED <<kind, storage, finalizers, handle, calls, unwinding,
                     outcome, delayed>>
  BY DEF SuperEncoder, Client, Ready
<1>2. PICK r \in Encoders : r = created + 1 /\ Refer(r, e, c, key)
  BY DEF SuperEncoder
<1>3. /\ items' \in [Containers -> Seq(Item)]
      /\ reference' \in [Encoders -> Reference]
      /\ created' \in Encoders /\ alive' \subseteq Encoders
      /\ owner' \in [Encoders -> Nat] /\ path' \in [Encoders -> Int]
      /\ ReferencesOK' /\ InsertInBounds' /\ KeyedByPut
  BY <1>1, <1>2, ReferProperties
<1>4. TypeOK /\ CallsOK /\ ErrorsKept
  BY DEF IInv
<1>5. TypeOK' /\ CallsOK' /\ ErrorsKept'
  BY <1>1, <1>3, <1>4 DEF TypeOK, CallsOK, ErrorsKept
<1> QED BY <1>3, <1>5 DEF IInv

-----------------------------------------------------------------------------
(* deinit *)

LEMMA RollUpFacts ==
  ASSUME TypeOK, NEW e \in Encoders, storage[e] # <<>>
  PROVE  /\ storage[e] \in Seq(Slot) /\ Len(storage[e]) >= 1
         /\ storage[e][1] \in Slot /\ storage[e][1].id \in Values
<1>1. storage[e] \in Seq(Slot)
  BY DEF TypeOK
<1>2. Len(storage[e]) >= 1
  BY <1>1, EmptySeq
<1>3. storage[e][1] \in Slot
  BY <1>1, <1>2, ElementOfSeq
<1> QED BY <1>1, <1>2, <1>3 DEF Slot

\* The write-back of a live referencing encoder.
LEMMA WriteBackKeeps ==
  ASSUME TypeOK, ReferencesOK, InsertInBounds, NEW r \in alive \ {Main},
         NEW v \in Values,
         items' = [items EXCEPT ![reference[r].container] =
                     WriteBack(@, reference[r], v)],
         kind' = kind
  PROVE  /\ items' \in [Containers -> Seq(Item)]
         /\ HeldKept /\ KeyedByPut
<1> DEFINE c == reference[r].container
           key == reference[r].key
<1>1. reference[r] \in Reference /\ reference[r] # NoReference
  BY DEF TypeOK, ReferencesOK
<1>2. c \in Containers /\ key \in Keys \union {NoKey} /\ reference[r].index \in Nat
  BY <1>1 DEF Reference
<1>3. CASE key # NoKey
  <2>1. items' = [items EXCEPT ![c] = Put(@, key, v)]
    BY <1>3 DEF WriteBack
  <2> HIDE DEF c, key
  <2> QED BY <1>2, <2>1, PutKeeps
<1>4. CASE key = NoKey
  <2>1. kind[c] = "unkeyed"
    BY <1>4 DEF ReferencesOK
  <2>2. items[c] \in Seq(Item) /\ Len(items[c]) \in Nat
    BY <1>2 DEF TypeOK
  <2> DEFINE new == [key |-> NoKey, val |-> v]
             n == reference[r].index
  <2>3. n \in 0..Len(items[c]) /\ new \in Item
    BY <1>2, <1>4, <2>2 DEF InsertInBounds, Item
  <2>4. items' = [items EXCEPT ![c] = InsertAt(@, n + 1, new)]
    BY <1>4 DEF WriteBack
  <2> HIDE DEF c, key, new, n
  <2>5. /\ InsertAt(items[c], n + 1, new) \in Seq(Item)
        /\ Len(InsertAt(items[c], n + 1, new)) = Len(items[c]) + 1
    BY <2>2, <2>3, InsertProperties
  <2>6. /\ items' \in [Containers -> Seq(Item)]
        /\ items'[c] = InsertAt(items[c], n + 1, new)
        /\ \A d \in Containers \ {c} : items'[d] = items[d]
    BY <1>2, <2>4, <2>5 DEF TypeOK
  <2>7. HeldKept
    <3>1. \A d \in Containers : Len(items[d]) \in Nat
      BY DEF TypeOK
    <3> QED BY <2>2, <2>5, <2>6, <3>1 DEF HeldKept
  <2>8. KeyedByPut
    BY <2>1, <2>6 DEF KeyedByPut
  <2> QED BY <2>6, <2>7, <2>8
<1> QED BY <1>3, <1>4

LEMMA ReleaseStepKeeps ==
  ASSUME IInv, NEW r \in Encoders, Release(r)
  PROVE  IInv' /\ KeyedByPut
<1> DEFINE ref == reference[r]
           c   == ref.container
           results == IF storage[r] = <<>> THEN {"value"} ELSE RollUp(storage[r][1])
           v   == IF storage[r] = <<>> THEN Primitive ELSE storage[r][1].id
<1>1. /\ Running /\ r \in alive \ {Main}
      /\ alive' = alive \ {r}
      /\ storage' = [storage EXCEPT ![r] = <<>>]
      /\ handle' = [handle EXCEPT ![r] = Unused]
      /\ reference' = [reference EXCEPT ![r] = NoReference]
      /\ path' = [path EXCEPT ![r] = 0]
      /\ owner' = [owner EXCEPT ![r] = 0]
      /\ UNCHANGED <<created, calls, unwinding>>
  BY DEF Release, MayRelease, Owned
<1>2. TypeOK /\ CallsOK /\ ReferencesOK /\ InsertInBounds /\ ErrorsKept
  BY DEF IInv
<1>3. /\ alive' \subseteq Encoders /\ storage' \in [Encoders -> Seq(Slot)]
      /\ handle' \in [Encoders -> Seats] /\ reference' \in [Encoders -> Reference]
      /\ path' \in [Encoders -> Int] /\ owner' \in [Encoders -> Nat]
  <2> HIDE DEF ref, c, results, v
  <2>1. <<>> \in Seq(Slot) /\ NoReference \in Reference /\ Unused \in Seats
    BY IntFacts DEF Reference
  <2>2. storage' \in [Encoders -> Seq(Slot)] /\ handle' \in [Encoders -> Seats]
    BY <1>1, <1>2, <2>1 DEF TypeOK
  <2>3. reference' \in [Encoders -> Reference]
    BY <1>1, <1>2, <2>1 DEF TypeOK
  <2>4. path' \in [Encoders -> Int] /\ owner' \in [Encoders -> Nat]
    BY <1>1, <1>2 DEF TypeOK
  <2>5. alive' \subseteq Encoders
    BY <1>1, <1>2 DEF TypeOK
  <2> QED BY <2>2, <2>3, <2>4, <2>5
<1>4. v \in Values
  BY <1>2, RollUpFacts, IntFacts
<1>5. /\ kind' \in [Containers -> Kinds \union {"none"}]
      /\ items' \in [Containers -> Seq(Item)]
      /\ HeldKept /\ KeyedByPut
      /\ finalizers' \in [Encoders -> Nat]
      /\ outcome' \in {"running", "undefined"} /\ delayed' \subseteq Encoders
      /\ ErrorsKept'
  <2>1. CASE /\ items' = [items EXCEPT ![c] = WriteBack(@, ref, v)]
             /\ UNCHANGED <<kind, finalizers, outcome, delayed>>
    <3>1. /\ items' \in [Containers -> Seq(Item)]
          /\ HeldKept /\ KeyedByPut
      <4> HIDE DEF v
      <4> QED BY <1>1, <1>2, <1>4, <2>1, WriteBackKeeps
    <3> HIDE DEF v, ref, c
    <3> QED BY <1>1, <1>2, <2>1, <3>1 DEF TypeOK, Running, ErrorsKept
  <2>2. CASE /\ "throw" \in results
             /\ finalizers' = Schedule(ref.encoder)
             /\ delayed' = delayed \union {ref.encoder}
             /\ Free(storage[r][1])
             /\ UNCHANGED outcome
    <3>1. storage[r] # <<>>
      BY <2>2
    <3>2. storage[r][1] \in Slot
      BY <1>2, <3>1, RollUpFacts
    <3>3. /\ kind' \in [Containers -> Kinds \union {"none"}]
          /\ items' \in [Containers -> Seq(Item)]
          /\ HeldKept /\ KeyedByPut
      BY <1>2, <2>2, <3>2, FreeProperties
    <3>4. /\ finalizers' \in [Encoders -> Nat] /\ delayed' \subseteq Encoders
          /\ \A d \in delayed' : finalizers'[d] > 0
      <4>1. reference[r] \in Reference /\ reference[r] # NoReference
        BY <1>1, <1>2 DEF TypeOK, ReferencesOK
      <4>2. ref.encoder \in Encoders
        BY <4>1 DEF Reference
      <4> HIDE DEF ref, c, results, v
      <4>3. finalizers' = [finalizers EXCEPT ![ref.encoder] = @ + 1]
        BY <2>2 DEF Schedule
      <4>4. finalizers \in [Encoders -> Nat] /\ delayed \subseteq Encoders
        BY <1>2 DEF TypeOK
      <4>5. finalizers' \in [Encoders -> Nat]
        BY <4>2, <4>3, <4>4
      <4>6. ASSUME NEW d \in Encoders, d = ref.encoder \/ finalizers[d] > 0
            PROVE  finalizers'[d] > 0
        BY <4>2, <4>3, <4>4, <4>6
      <4> QED BY <1>2, <2>2, <4>2, <4>4, <4>5, <4>6 DEF ErrorsKept
    <3> QED BY <1>1, <2>2, <3>3, <3>4 DEF Running, ErrorsKept
  <2>3. CASE /\ outcome' = "undefined"
             /\ UNCHANGED <<heap, finalizers, delayed>>
    <3>1. \A d \in Containers : Len(items[d]) \in Nat
      BY <1>2 DEF TypeOK
    <3>2. HeldKept /\ KeyedByPut
      BY <2>3, <3>1 DEF HeldKept, KeyedByPut, heap
    <3> QED BY <1>2, <2>3, <3>2 DEF TypeOK, heap, ErrorsKept
  <2> QED BY <2>1, <2>2, <2>3 DEF Release
<1>6. ReferencesOK' /\ InsertInBounds'
  <2>1. \A s \in alive' \ {Main} : reference'[s] = reference[s]
    BY <1>1, <1>2 DEF TypeOK
  <2> QED BY <1>1, <1>2, <1>5, <2>1, LinksKept
<1>7. TypeOK' /\ CallsOK' /\ ErrorsKept'
  BY <1>1, <1>2, <1>3, <1>5 DEF TypeOK, CallsOK, ErrorsKept, Running
<1> QED BY <1>5, <1>6, <1>7 DEF IInv

\* Steps that only end the session, start an error or swallow one.
LEMMA ControlStep ==
  ASSUME IInv,
         UNCHANGED <<heap, encoding, links, handle, calls, delayed>>,
         outcome' \in {outcome, "trap", "undefined"}, unwinding' \in BOOLEAN
  PROVE  IInv' /\ KeyedByPut
<1>1. TypeOK /\ CallsOK /\ ErrorsKept
  BY DEF IInv
<1>2. KeyedByPut /\ ReferencesOK' /\ InsertInBounds'
  BY HeapUntouched DEF heap, links
<1>3. TypeOK' /\ CallsOK' /\ ErrorsKept'
  BY <1>1 DEF TypeOK, CallsOK, ErrorsKept, Running, heap, encoding, links
<1> QED BY <1>2, <1>3 DEF IInv
-----------------------------------------------------------------------------
(* The end of an activation *)

\* The activations below the current one.
LEMMA PopCall ==
  ASSUME TypeOK, CallsOK, Running
  PROVE  /\ Front(calls) \in Seq(Call)
         /\ Len(Front(calls)) = Len(calls) - 1
         /\ Len(calls) > 1 => /\ Len(Front(calls)) >= 1
                              /\ Front(calls)[1].encoder = Main
<1>1. /\ calls \in Seq(Call) /\ Len(calls) \in Nat \ {0} /\ Len(calls) >= 1
      /\ calls[1].encoder = Main
  BY CurrentProperties DEF TypeOK, CallsOK
<1>2. /\ Front(calls) \in Seq(Call) /\ Len(Front(calls)) = Len(calls) - 1
      /\ \A i \in 1..(Len(calls) - 1) : Front(calls)[i] = calls[i]
  BY <1>1, FrontProperties
<1> QED BY <1>1, <1>2

LEMMA PopKeyType ==
  ASSUME TypeOK, CallsOK, Running
  PROVE  PopKey(path) \in [Encoders -> Int]
<1>1. path \in [Encoders -> Int] /\ Current.encoder \in Encoders
  BY CurrentProperties DEF TypeOK
<1>2. path[Current.encoder] - 1 \in Int
  BY <1>1
<1> QED BY <1>1, <1>2 DEF PopKey

LEMMA PropagateKeeps ==
  ASSUME IInv, Running, NEW left \in Seq(Slot),
         left # storage[Current.encoder] => storage[Current.encoder] # <<>>,
         finalizers' = finalizers,
         Propagate(left)
  PROVE  IInv' /\ KeyedByPut
<1> DEFINE e == Current.encoder
<1>1. TypeOK /\ CallsOK /\ ReferencesOK /\ InsertInBounds /\ ErrorsKept
  BY DEF IInv
<1>2. e \in Encoders /\ Len(calls) \in Nat \ {0}
  BY <1>1, CurrentProperties
<1>3. /\ path' = PopKey(path) /\ calls' = Front(calls)
      /\ storage' = [storage EXCEPT ![e] = left]
      /\ \/ Len(calls) > 1 /\ unwinding' = TRUE /\ outcome' = outcome
         \/ Len(calls) = 1 /\ unwinding' = FALSE /\ outcome' = "error"
      /\ UNCHANGED <<reference, created, alive, owner, handle, delayed>>
  <2>1. Len(calls) > 1 \/ (Len(calls) = 1 /\ ~(Len(calls) > 1))
    <3> DEFINE m == Len(calls)
    <3>1. m \in Nat \ {0}
      BY <1>2
    <3> HIDE DEF m
    <3>2. m > 1 \/ (m = 1 /\ ~(m > 1))
      BY <3>1
    <3> QED BY <3>2 DEF m
  <2>2. CASE Len(calls) > 1
    BY <2>2 DEF Propagate, links
  <2>3. CASE Len(calls) = 1 /\ ~(Len(calls) > 1)
    BY <2>3 DEF Propagate, links
  <2> QED BY <2>1, <2>2, <2>3
<1>4. /\ kind' \in [Containers -> Kinds \union {"none"}]
      /\ items' \in [Containers -> Seq(Item)]
      /\ HeldKept /\ KeyedByPut
  <2>1. CASE left = storage[e]
    <3>1. kind' = kind /\ items' = items
      BY <2>1 DEF Propagate, heap
    <3>2. \A c \in Containers : Len(items[c]) \in Nat
      BY <1>1 DEF TypeOK
    <3> QED BY <1>1, <3>1, <3>2 DEF TypeOK, HeldKept, KeyedByPut
  <2>2. CASE left # storage[e]
    <3>1. Free(Last(storage[e]))
      BY <2>2 DEF Propagate
    <3>2. storage[e] \in Seq(Slot) /\ Len(storage[e]) >= 1
      BY <1>1, <1>2, <2>2, RollUpFacts
    <3>3. Last(storage[e]) \in Slot
      BY <3>2, FrontProperties
    <3> QED BY <1>1, <3>1, <3>3, FreeProperties
  <2> QED BY <2>1, <2>2
<1>5. TypeOK'
  <2>1. path' \in [Encoders -> Int] /\ calls' \in Seq(Call)
    BY <1>1, <1>3, PopKeyType, PopCall
  <2>2. storage' \in [Encoders -> Seq(Slot)]
    <3> HIDE DEF e
    <3> QED BY <1>1, <1>3 DEF TypeOK
  <2> QED BY <1>1, <1>3, <1>4, <2>1, <2>2 DEF TypeOK
<1>6. ReferencesOK' /\ InsertInBounds'
  BY <1>1, <1>3, <1>4, LinksKept
<1>7. CallsOK'
  BY <1>1, <1>3, PopCall DEF CallsOK, Running
<1>8. ErrorsKept'
  BY <1>1, <1>3 DEF ErrorsKept, Running
<1> QED BY <1>4, <1>5, <1>6, <1>7, <1>8 DEF IInv

LEMMA DeliverKeeps ==
  ASSUME IInv, Running, NEW left \in Seq(Slot), NEW v \in Values,
         finalizers[Current.encoder] = 0,
         Deliver(v, left)
  PROVE  IInv' /\ KeyedByPut
<1> DEFINE e == Current.encoder
           n == Len(calls) - 1
<1>1. TypeOK /\ CallsOK /\ ReferencesOK /\ InsertInBounds /\ ErrorsKept
  BY DEF IInv
<1>2. /\ e \in Encoders /\ Len(calls) \in Nat \ {0}
      /\ Current.into \in Containers \union {Single}
      /\ Current.key \in Keys \union {NoKey}
      /\ Len(calls) = 1 => e = Main
  BY <1>1, CurrentProperties
<1>3. /\ path' = PopKey(path)
      /\ UNCHANGED <<kind, finalizers, reference, created, alive, owner,
                     unwinding, delayed>>
  BY DEF Deliver, links
<1>4. path' \in [Encoders -> Int]
  BY <1>1, <1>3, PopKeyType
<1>5. CASE /\ Len(calls) = 1
           /\ outcome' = "ok"
           /\ storage' = [storage EXCEPT ![e] = left]
           /\ calls' = Front(calls)
           /\ UNCHANGED <<items, handle>>
  <2>1. storage' \in [Encoders -> Seq(Slot)]
    <3> HIDE DEF e
    <3> QED BY <1>1, <1>5 DEF TypeOK
  <2>2. calls' \in Seq(Call)
    BY <1>1, <1>5, PopCall
  <2>3. TypeOK'
    BY <1>1, <1>3, <1>4, <1>5, <2>1, <2>2 DEF TypeOK
  <2>4. CallsOK' /\ ErrorsKept'
    <3>1. Main \notin delayed
      BY <1>1, <1>2, <1>5 DEF ErrorsKept
    <3> QED BY <1>1, <1>3, <1>5, <3>1 DEF CallsOK, ErrorsKept, Running
  <2> QED BY <1>3, <1>5, <2>3, <2>4, HeapUntouched DEF IInv
<1>6. CASE /\ Len(calls) # 1 /\ Current.into # Single
           /\ items' = [items EXCEPT ![Current.into] = Put(@, Current.key, v)]
           /\ storage' = [storage EXCEPT ![e] = left]
           /\ calls' = Front(calls)
           /\ UNCHANGED <<handle, outcome>>
  <2>1. storage' \in [Encoders -> Seq(Slot)]
    <3> HIDE DEF e
    <3> QED BY <1>1, <1>6 DEF TypeOK
  <2>2. /\ items' \in [Containers -> Seq(Item)] /\ HeldKept /\ KeyedByPut
    <3>1. Current.into \in Containers
      BY <1>2, <1>6
    <3> QED BY <1>1, <1>2, <1>3, <1>6, <3>1, PutKeeps
  <2>3. /\ calls' \in Seq(Call)
        /\ Len(calls') >= 1 /\ calls'[1].encoder = Main
    BY <1>1, <1>2, <1>6, PopCall
  <2>4. TypeOK' /\ CallsOK' /\ ErrorsKept'
    BY <1>1, <1>3, <1>4, <1>6, <2>1, <2>2, <2>3
       DEF TypeOK, CallsOK, ErrorsKept
  <2>5. ReferencesOK' /\ InsertInBounds'
    BY <1>1, <1>3, <2>2, LinksKept
  <2> QED BY <2>2, <2>4, <2>5 DEF IInv
<1>7. CASE /\ Len(calls) # 1 /\ Current.into = Single
           /\ storage' = [storage EXCEPT ![e] = Append(left, Boxed(v))]
           /\ \/ /\ calls' = [Front(calls) EXCEPT ![Len(calls) - 1].seat = Used]
                 /\ UNCHANGED handle
              \/ /\ calls' = Front(calls)
                 /\ handle' = [handle EXCEPT ![e] = Used]
           /\ UNCHANGED <<items, outcome>>
  <2>1. storage' \in [Encoders -> Seq(Slot)]
    <3>1. Append(left, Boxed(v)) \in Seq(Slot)
      BY SlotFacts
    <3> HIDE DEF e
    <3> QED BY <1>1, <1>7, <3>1 DEF TypeOK
  <2>2. handle' \in [Encoders -> Seats]
    <3>1. handle' = handle \/ handle' = [handle EXCEPT ![e] = Used]
      BY <1>7
    <3>2. handle \in [Encoders -> Seats] /\ Used \in Seats
      BY <1>1, IntFacts DEF TypeOK
    <3> HIDE DEF e
    <3> QED BY <3>1, <3>2
  <2>3. /\ Front(calls) \in Seq(Call) /\ Len(Front(calls)) = n
        /\ n \in Nat \ {0} /\ Front(calls)[1].encoder = Main
    BY <1>1, <1>2, <1>7, PopCall
  <2>4. /\ calls' \in Seq(Call)
        /\ Len(calls') >= 1 /\ calls'[1].encoder = Main
    <3>1. CASE calls' = Front(calls)
      BY <2>3, <3>1
    <3>2. CASE calls' = [Front(calls) EXCEPT ![n].seat = Used]
      <4> DEFINE below == Front(calls)
      <4>1. below \in Seq(Call) /\ Len(below) = n /\ below[1].encoder = Main
        BY <2>3
      <4>2. n \in 1..Len(below) /\ below[n] \in Call /\ below[1] \in Call
        BY <2>3, <4>1, ElementOfSeq
      <4>3. calls' = [below EXCEPT ![n].seat = Used]
        BY <3>2
      <4> HIDE DEF below, n
      <4>4. [below[n] EXCEPT !.seat = Used] \in Call
        BY <4>2, IntFacts DEF Call
      <4>5. calls' \in Seq(Call) /\ Len(calls') = Len(below)
        BY <4>1, <4>2, <4>3, <4>4, ExceptSeq
      <4>6. calls'[1].encoder = Main
        BY <4>1, <4>2, <4>3 DEF Call
      <4> QED BY <2>3, <4>1, <4>5, <4>6
    <3> QED BY <1>7, <3>1, <3>2
  <2>5. TypeOK' /\ CallsOK' /\ ErrorsKept'
    BY <1>1, <1>3, <1>4, <1>7, <2>1, <2>2, <2>4
       DEF TypeOK, CallsOK, ErrorsKept
  <2> QED BY <1>3, <1>7, <2>5, HeapUntouched DEF IInv
<1> QED BY <1>5, <1>6, <1>7 DEF Deliver
LEMMA FinalizerThrowsStep ==
  ASSUME IInv, FinalizerThrows
  PROVE  IInv' /\ KeyedByPut
<1> DEFINE e == Current.encoder
<1>1. /\ Running /\ finalizers' = [finalizers EXCEPT ![e] = KeepFinalizers(@)]
      /\ Propagate(storage[e])
  BY DEF FinalizerThrows, Returns, Ready
<1>2. TypeOK /\ CallsOK
  BY DEF IInv
<1>3. e \in Encoders
  BY <1>1, <1>2, CurrentProperties
<1>4. finalizers' = finalizers
  BY <1>1, <1>2 DEF KeepFinalizers, TypeOK
<1>5. storage[e] \in Seq(Slot)
  BY <1>2, <1>3 DEF TypeOK
<1> QED BY <1>1, <1>4, <1>5, PropagateKeeps

LEMMA FrontOfStorage ==
  ASSUME TypeOK, CallsOK, Running,
         Len(storage[Current.encoder]) > Current.depth
  PROVE  /\ Front(storage[Current.encoder]) \in Seq(Slot)
         /\ Last(storage[Current.encoder]).id \in Values
         /\ storage[Current.encoder] # <<>>
<1> DEFINE s == storage[Current.encoder]
<1>1. s \in Seq(Slot) /\ Len(s) \in Nat /\ Current.depth \in Nat
  BY CurrentProperties DEF TypeOK
<1>2. Len(s) >= 1
  BY <1>1
<1>3. Front(s) \in Seq(Slot) /\ Last(s) \in Slot
  <2> HIDE DEF s
  <2> QED BY <1>1, <1>2, FrontProperties
<1>4. s # <<>>
  BY <1>2
<1> QED BY <1>3, <1>4 DEF Slot

LEMMA ReturnNothingStep ==
  ASSUME IInv, ReturnNothing
  PROVE  IInv' /\ KeyedByPut
<1> DEFINE e == Current.encoder
<1>1. Running /\ finalizers[e] = 0
  BY DEF ReturnNothing, Returns, Ready
<1>2. TypeOK /\ CallsOK
  BY DEF IInv
<1>3. storage[e] \in Seq(Slot)
  BY <1>1, <1>2, CurrentProperties DEF TypeOK
<1>4. CASE Propagate(storage[e]) /\ UNCHANGED finalizers
  BY <1>1, <1>3, <1>4, PropagateKeeps
<1>5. CASE Deliver(Primitive, storage[e])
  BY <1>1, <1>3, <1>5, DeliverKeeps, IntFacts
<1> QED BY <1>4, <1>5 DEF ReturnNothing

LEMMA ReturnValueStep ==
  ASSUME IInv, ReturnValue
  PROVE  IInv' /\ KeyedByPut
<1> DEFINE e == Current.encoder
<1>1. /\ Running /\ finalizers[e] = 0 /\ Len(storage[e]) > Current.depth
      /\ Deliver(Last(storage[e]).id, Front(storage[e]))
  BY DEF ReturnValue, Returns, Ready
<1>2. Front(storage[e]) \in Seq(Slot) /\ Last(storage[e]).id \in Values
  BY <1>1, FrontOfStorage DEF IInv
<1> QED BY <1>1, <1>2, DeliverKeeps

LEMMA RollUpFailsStep ==
  ASSUME IInv, RollUpFails
  PROVE  IInv' /\ KeyedByPut
<1> DEFINE e == Current.encoder
<1>1. /\ Running /\ Len(storage[e]) > Current.depth
      /\ Propagate(Front(storage[e])) /\ finalizers' = finalizers
  BY DEF RollUpFails, Returns, Ready
<1>2. Front(storage[e]) \in Seq(Slot) /\ storage[e] # <<>>
  BY <1>1, FrontOfStorage DEF IInv
<1> QED BY <1>1, <1>2, PropagateKeeps

LEMMA UnwindStep ==
  ASSUME IInv, Unwind
  PROVE  IInv' /\ KeyedByPut
<1> DEFINE e == Current.encoder
           left == RestoreStorage(storage[e], Current.depth)
<1>1. Running /\ Propagate(left) /\ finalizers' = finalizers
  BY DEF Unwind
<1>2. TypeOK /\ CallsOK
  BY DEF IInv
<1>3. left \in Seq(Slot) /\ (left # storage[e] => storage[e] # <<>>)
  <2>1. CASE Len(storage[e]) > Current.depth
    BY <1>1, <1>2, <2>1, FrontOfStorage DEF RestoreStorage
  <2>2. CASE ~(Len(storage[e]) > Current.depth)
    BY <1>1, <1>2, <2>2, CurrentProperties DEF RestoreStorage, TypeOK
  <2> QED BY <2>1, <2>2
<1> HIDE DEF left
<1> QED BY <1>1, <1>3, PropagateKeeps

-----------------------------------------------------------------------------
(* The theorems *)

LEMMA InitInvariant == Init => IInv
<1> SUFFICES ASSUME Init PROVE IInv
  OBVIOUS
<1> DEFINE a == [encoder |-> Main, depth |-> 0, seat |-> Unused, loop |-> FALSE,
                 into |-> Single, key |-> NoKey]
<1>1. a \in Call
  BY IntFacts DEF Call
<1>2. calls = <<a>>
  BY DEF Init
<1>3. calls \in Seq(Call) /\ Len(calls) = 1 /\ calls[1].encoder = Main
  BY <1>1, <1>2
<1>4. /\ <<>> \in Seq(Item) /\ <<>> \in Seq(Slot) /\ NoReference \in Reference
  BY DEF Reference
<1>5. TypeOK
  <2>1. /\ kind \in [Containers -> Kinds \union {"none"}]
        /\ items \in [Containers -> Seq(Item)]
        /\ storage \in [Encoders -> Seq(Slot)]
    BY <1>4 DEF Init
  <2>2. /\ path \in [Encoders -> Int] /\ finalizers \in [Encoders -> Nat]
        /\ reference \in [Encoders -> Reference] /\ owner \in [Encoders -> Nat]
    BY <1>4 DEF Init
  <2>3. /\ created \in Encoders /\ alive \subseteq Encoders
        /\ handle \in [Encoders -> Seats]
    BY IntFacts DEF Init
  <2>4. /\ unwinding \in BOOLEAN /\ delayed \subseteq Encoders
        /\ outcome \in {"running", "ok", "error", "trap", "undefined"}
    BY DEF Init
  <2> QED BY <1>3, <2>1, <2>2, <2>3, <2>4 DEF TypeOK
<1>6. CallsOK /\ ReferencesOK /\ InsertInBounds
  BY <1>3 DEF Init, CallsOK, ReferencesOK, InsertInBounds
<1>7. ErrorsKept
  BY IntFacts DEF Init, ErrorsKept
<1> QED BY <1>5, <1>6, <1>7 DEF IInv

LEMMA NextInvariant ==
  ASSUME IInv, [Next]_vars
  PROVE  IInv' /\ KeyedByPut
<1>1. ASSUME NEW e \in Encoders, NEW k \in Kinds,
             PushContainer(e, k) \/ FindContainer(e, k)
      PROVE  IInv' /\ KeyedByPut
  BY <1>1, PushContainerStep, FindContainerStep
<1>2. ASSUME NEW e \in Encoders, EncodeSingle(e) \/ SubEncodeSingle(e)
      PROVE  IInv' /\ KeyedByPut
  BY <1>2, EncodeSingleStep, SubEncodeSingleStep
<1>3. ASSUME NEW e \in Encoders, NEW c \in Containers, AppendPrimitive(e, c)
      PROVE  IInv' /\ KeyedByPut
  BY <1>3, AppendPrimitiveStep
<1>4. ASSUME NEW e \in Encoders, NEW c \in Containers,
             NEW key \in Keys \union {NoKey},
             \/ EncodePrimitive(e, c, key)
             \/ SubEncode(e, c, key)
             \/ SuperEncoder(e, c, key)
             \/ \E k \in Kinds : SubEncodeCollection(e, c, key, k)
             \/ \E k \in Kinds : NestedContainer(e, c, key, k)
      PROVE  IInv' /\ KeyedByPut
  BY <1>4, EncodePrimitiveStep, SubEncodeStep, SuperEncoderStep,
     SubEncodeCollectionStep, NestedContainerStep
<1>5. CASE Raise \/ Swallow
  BY <1>5, ControlStep DEF Raise, Swallow
<1>6. ASSUME NEW r \in Encoders, Release(r) PROVE IInv' /\ KeyedByPut
  BY <1>6, ReleaseStepKeeps
<1>7. ASSUME NEW r \in Encoders, ReleaseTraps(r) PROVE IInv' /\ KeyedByPut
  <2>1. unwinding \in BOOLEAN
    BY DEF IInv, TypeOK
  <2> QED BY <1>7, <2>1, ControlStep DEF ReleaseTraps, Trap
<1>8. CASE FinalizerThrows \/ ReturnNothing \/ ReturnValue \/ RollUpFails \/ Unwind
  BY <1>8, FinalizerThrowsStep, ReturnNothingStep, ReturnValueStep,
     RollUpFailsStep, UnwindStep
<1>9. CASE UNCHANGED vars
  <2>1. unwinding \in BOOLEAN
    BY DEF IInv, TypeOK
  <2> QED BY <1>9, <2>1, ControlStep DEF vars, heap, encoding, links
<1> QED
  BY <1>1, <1>2, <1>3, <1>4, <1>5, <1>6, <1>7, <1>8, <1>9
     DEF Next, ClientStep, ReleaseStep, ReturnStep

LEMMA Invariant == Spec => []IInv
<1>1. IInv /\ [Next]_vars => IInv'
  BY NextInvariant
<1> QED BY <1>1, InitInvariant, PTL DEF Spec

(***************************************************************************)
(* Every variable keeps its type, whatever the value being encoded does.   *)
(***************************************************************************)
THEOREM TypeCorrect == Spec => []TypeOK
<1>1. IInv => TypeOK
  BY DEF IInv
<1> QED BY <1>1, Invariant, PTL

(***************************************************************************)
(* The index captured by a nested container of an unkeyed container is     *)
(* never past the end of the array deinit inserts into                     *)
(* (ValueEncoder.swift:1128), in whatever order the nested containers die. *)
(***************************************************************************)
THEOREM InsertionInBounds == Spec => []InsertInBounds
<1>1. IInv => InsertInBounds
  BY DEF IInv
<1> QED BY <1>1, Invariant, PTL

\* Marking the seat of an activation leaves their number alone.
LEMMA SeatLength ==
  ASSUME NEW x, calls \in Seq(Call), calls' = [calls EXCEPT ![Len(calls)].seat = x]
  PROVE  Len(calls') = Len(calls)
<1>1. DOMAIN calls' = DOMAIN calls
  OBVIOUS
<1> QED BY <1>1

\* No activation of an encoder with a delayed error ends with a value.
LEMMA NextRethrows ==
  ASSUME IInv, [Next]_vars, NEW e \in delayed, Ends(e)
  PROVE  unwinding' \/ outcome' = "error"
<1>1. /\ calls \in Seq(Call) /\ Len(calls) \in Nat
      /\ Current.encoder = e /\ finalizers[e] > 0 /\ finalizers[e] # 0
      /\ Len(calls') < Len(calls)
  <2>1. e \in Encoders /\ finalizers[e] \in Nat /\ finalizers[e] > 0
    BY DEF IInv, TypeOK, ErrorsKept
  <2> QED BY <2>1 DEF IInv, TypeOK, Ends
<1>2. CASE UNCHANGED calls
  BY <1>1, <1>2
<1>3. ASSUME NEW a, calls' = Append(calls, a) PROVE FALSE
  <2>1. Len(calls') = Len(calls) + 1
    BY <1>1, <1>3
  <2> QED BY <1>1, <2>1
<1>4. ASSUME NEW d, NEW x, SetSeat(d, x) PROVE FALSE
  <2>1. CASE calls' = [calls EXCEPT ![Len(calls)].seat = x]
    BY <1>1, <2>1, SeatLength
  <2> QED BY <1>1, <1>4, <2>1 DEF SetSeat
<1>5. ASSUME NEW left, Propagate(left) PROVE unwinding' \/ outcome' = "error"
  BY <1>5 DEF Propagate
<1>6. ASSUME NEW d \in Encoders, NEW k \in Kinds,
             PushContainer(d, k) \/ FindContainer(d, k)
      PROVE  unwinding' \/ outcome' = "error"
  BY <1>2, <1>4, <1>6 DEF PushContainer, FindContainer
<1>7. ASSUME NEW d \in Encoders, EncodeSingle(d) \/ SubEncodeSingle(d)
      PROVE  unwinding' \/ outcome' = "error"
  BY <1>2, <1>3, <1>4, <1>7 DEF EncodeSingle, SubEncodeSingle
<1>8. ASSUME NEW d \in Encoders, NEW c \in Containers,
             NEW key \in Keys \union {NoKey}, NEW k \in Kinds,
             \/ AppendPrimitive(d, c)
             \/ EncodePrimitive(d, c, key)
             \/ SubEncode(d, c, key)
             \/ SuperEncoder(d, c, key)
             \/ SubEncodeCollection(d, c, key, k)
             \/ NestedContainer(d, c, key, k)
      PROVE  unwinding' \/ outcome' = "error"
  BY <1>2, <1>3, <1>8
     DEF AppendPrimitive, EncodePrimitive, SubEncode, SuperEncoder,
         SubEncodeCollection, NestedContainer
<1>9. CASE Raise \/ Swallow \/ ReleaseStep
  BY <1>2, <1>9 DEF Raise, Swallow, ReleaseStep, Release, ReleaseTraps
<1>10. CASE FinalizerThrows \/ RollUpFails \/ Unwind
  BY <1>5, <1>10 DEF FinalizerThrows, RollUpFails, Unwind
<1>11. CASE ReturnNothing \/ ReturnValue
  BY <1>1, <1>11 DEF ReturnNothing, ReturnValue
<1>12. Kinds # {}
  BY DEF Kinds
<1> QED
  BY <1>2, <1>6, <1>7, <1>8, <1>9, <1>10, <1>11, <1>12
     DEF Next, ClientStep, ReturnStep, vars

(***************************************************************************)
(* Once deinit delayed an error on an encoder, main or referencing, no     *)
(* activation of subEncode on that encoder returns a value any more        *)
(* (ValueEncoder.swift:427, 475-480): it stays in the list however often   *)
(* it was thrown and swallowed.                                            *)
(***************************************************************************)
THEOREM DelayedErrorsRethrown == Spec => DelayedErrorRethrown
<1>1. IInv /\ [Next]_vars => \A e \in delayed : Ends(e) => unwinding' \/ outcome' = "error"
  BY NextRethrows
<1>2. Spec => [][\A e \in delayed : Ends(e) => unwinding' \/ outcome' = "error"]_vars
  BY <1>1, Invariant, PTL DEF Spec
<1> QED BY <1>2 DEF DelayedErrorRethrown

(***************************************************************************)
(* An error that deinit ever delayed on the main encoder fails the session *)
(* (ValueEncoder.swift:119): encodeTree does not return a value, whatever  *)
(* the value being encoded swallows.                                       *)
(***************************************************************************)
THEOREM MainErrorsReported == Spec => []MainErrorReported
<1>1. IInv => MainErrorReported
  BY DEF IInv, ErrorsKept, MainErrorReported
<1> QED BY <1>1, Invariant, PTL

LEMMA SameStart ==
  ASSUME NEW S, NEW s \in Seq(S), NEW t \in Seq(S), Len(s) <= Len(t),
         \A i \in 1..Len(s) : t[i] = s[i]
  PROVE  IsPrefix(s, t)
<1> DEFINE n == Len(s)
           a == SubSeq(s, 1, n)
           b == SubSeq(t, 1, n)
<1>1. n \in Nat /\ Len(t) \in Nat
  OBVIOUS
<1>2. /\ \A i \in 1..n : s[i] \in S
      /\ \A i \in 1..n : t[i] \in S
  BY <1>1, ElementOfSeq
<1>3. /\ a \in Seq(S) /\ Len(a) = n /\ \A i \in 1..n : a[i] = s[i]
  <2>1. /\ a \in Seq(S)
        /\ Len(a) = IF 1 <= n THEN n - 1 + 1 ELSE 0
        /\ \A i \in 1..(n - 1 + 1) : a[i] = s[1 + i - 1]
    BY <1>1, <1>2, SubSeqProperties
  <2>2. n - 1 + 1 = n /\ \A i \in 1..n : 1 + i - 1 = i
    BY <1>1
  <2> HIDE DEF a, n
  <2> QED BY <1>1, <2>1, <2>2
<1>4. /\ b \in Seq(S) /\ Len(b) = n /\ \A i \in 1..n : b[i] = t[i]
  <2>1. /\ b \in Seq(S)
        /\ Len(b) = IF 1 <= n THEN n - 1 + 1 ELSE 0
        /\ \A i \in 1..(n - 1 + 1) : b[i] = t[1 + i - 1]
    BY <1>1, <1>2, SubSeqProperties
  <2>2. n - 1 + 1 = n /\ \A i \in 1..n : 1 + i - 1 = i
    BY <1>1
  <2> HIDE DEF b, n
  <2> QED BY <1>1, <2>1, <2>2
<1>5. a = b
  <2>1. \A i \in 1..n : a[i] = b[i]
    BY <1>3, <1>4
  <2> HIDE DEF a, b, n
  <2> QED BY <1>3, <1>4, <2>1, SeqEqual
<1> QED BY <1>5 DEF IsPrefix

LEMMA PutKeepsKeys ==
  ASSUME NEW s \in Seq(Item), NEW t \in Seq(Item), Len(s) <= Len(t),
         \A i \in 1..Len(s) : t[i].key = s[i].key
  PROVE  IsPrefix(KeysOfItems(s), KeysOfItems(t))
<1> DEFINE K == Keys \union {NoKey}
<1>1. ASSUME NEW u \in Seq(Item)
      PROVE  /\ KeysOfItems(u) \in Seq(K) /\ Len(KeysOfItems(u)) = Len(u)
             /\ \A i \in 1..Len(u) : KeysOfItems(u)[i] = u[i].key
  <2>1. \A i \in 1..Len(u) : u[i].key \in K
    <3> TAKE i \in 1..Len(u)
    <3>1. u[i] \in Item
      BY ElementOfSeq
    <3> QED BY <3>1 DEF Item
  <2>2. KeysOfItems(u) = [i \in 1..Len(u) |-> u[i].key] /\ Len(u) \in Nat
    BY DEF KeysOfItems
  <2> HIDE DEF K
  <2> QED BY <2>1, <2>2
<1> DEFINE a == KeysOfItems(s)
           b == KeysOfItems(t)
<1>2. /\ a \in Seq(K) /\ b \in Seq(K) /\ Len(a) = Len(s) /\ Len(b) = Len(t)
      /\ \A i \in 1..Len(s) : a[i] = s[i].key
      /\ \A i \in 1..Len(t) : b[i] = t[i].key
  BY <1>1
<1>3. Len(s) \in Nat /\ Len(t) \in Nat
  OBVIOUS
<1> HIDE DEF a, b, K
<1>4. \A i \in 1..Len(a) : b[i] = a[i]
  BY <1>2, <1>3
<1>5. IsPrefix(a, b)
  BY <1>2, <1>4, SameStart
<1> QED BY <1>5 DEF a, b

(***************************************************************************)
(* A keyed container keeps its keys in the order they were first used: the *)
(* placeholder of a nested container (ValueEncoder.swift:1066) and the     *)
(* write-back of deinit (1124-1134) move no key and drop none.             *)
(***************************************************************************)
THEOREM KeyOrderStable == Spec => KeyOrderKept
<1> DEFINE Kept ==
      \A c \in Containers :
        kind[c] = "keyed" /\ kind'[c] = "keyed" =>
          IsPrefix(KeysOfItems(items[c]), KeysOfItems(items'[c]))
<1>1. ASSUME IInv, [Next]_vars PROVE Kept
  <2> TAKE c \in Containers
  <2> HAVE kind[c] = "keyed" /\ kind'[c] = "keyed"
  <2>1. KeyedByPut
    BY <1>1, NextInvariant
  <2>2. items[c] \in Seq(Item)
    BY <1>1 DEF IInv, TypeOK
  <2>3. CASE items'[c] = items[c]
    <3>1. Len(items[c]) \in Nat
      BY <2>2
    <3> QED BY <2>2, <2>3, <3>1, PutKeepsKeys
  <2>4. CASE \E key \in Keys \union {NoKey}, v \in Values \union {Placeholder} :
               items'[c] = Put(items[c], key, v)
    <3>1. PICK key \in Keys \union {NoKey}, v \in Values \union {Placeholder} :
            items'[c] = Put(items[c], key, v)
      BY <2>4
    <3>2. /\ Put(items[c], key, v) \in Seq(Item)
          /\ Len(Put(items[c], key, v)) >= Len(items[c])
          /\ \A i \in 1..Len(items[c]) : Put(items[c], key, v)[i].key = items[c][i].key
      BY <2>2, PutProperties
    <3>3. Len(items[c]) <= Len(items'[c])
      BY <2>2, <3>1, <3>2
    <3> QED BY <2>2, <3>1, <3>2, <3>3, PutKeepsKeys
  <2> QED BY <2>1, <2>3, <2>4 DEF KeyedByPut
<1>2. IInv /\ [Next]_vars => [Kept]_vars
  BY <1>1
<1>3. Spec => [][Kept]_vars
  BY <1>2, Invariant, PTL DEF Spec
<1> QED BY <1>3 DEF KeyOrderKept
=============================================================================
