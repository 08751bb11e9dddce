---------------------------- MODULE ValueEncoder ----------------------------
(***************************************************************************)
(* The encoder behind every codec of the package                           *)
(* (Sources/PotentCodables/ValueEncoder.swift).  One session encodes one   *)
(* top-level value.  The running calls of encode(to:) form the stack       *)
(* `calls', one entry per activation of InternalValueEncoder.subEncode.    *)
(* Each encoder keeps a stack of containers (`storage'), the length of its *)
(* coding path and the finalizers scheduled on it; the main encoder is     *)
(* Main, all others are ValueReferencingEncoders, created by               *)
(* nestedContainer, nestedUnkeyedContainer and superEncoder and written    *)
(* back into their parent container by deinit.                             *)
(*                                                                         *)
(* The code being encoded is arbitrary: it may request a container, put a  *)
(* primitive or another value into it, open nested containers and super    *)
(* encoders, drop them at any moment after their last use, throw, and      *)
(* (ClientSwallows) swallow an error with try?.                            *)
(***************************************************************************)
EXTENDS Integers, SequencesExt

CONSTANTS
  Keys,             \* converted coding keys
  MaxEncoders,      \* bound: encoders created in a session
  MaxContainers,    \* bound: containers created in a session
  MaxCalls,         \* bound: nesting of encode(to:)
  MaxItems,         \* bound: elements of an unkeyed container
  NestInNested,     \* a nested container or super encoder may open others
  RollUpThrows,     \* the Transform may refuse a container (ASN.1 only)
  ClientSwallows,   \* encode(to:) may use try?
  LexicalRelease    \* nested containers die in reverse order of creation

\* The key field of an element of an unkeyed container.
NoKey == "index"

ASSUME BoundsAssumption ==
  /\ MaxEncoders \in Nat \ {0}
  /\ MaxContainers \in Nat \ {0}
  /\ MaxCalls \in Nat \ {0}
  /\ MaxItems \in Nat
ASSUME KeysAssumption == NoKey \notin Keys
ASSUME SwitchAssumption ==
  /\ NestInNested \in BOOLEAN
  /\ RollUpThrows \in BOOLEAN
  /\ ClientSwallows \in BOOLEAN
  /\ LexicalRelease \in BOOLEAN

Encoders   == 1..MaxEncoders
Main       == 1
Containers == 1..MaxContainers
Kinds      == {"keyed", "unkeyed"}

(***************************************************************************)
(* A boxed Value is Primitive (anything without items: a primitive, null   *)
(* or the empty container) or the container it was rolled up from.         *)
(* Placeholder is the nil that reserves the position of a key.             *)
(***************************************************************************)
Primitive   == 0
Placeholder == -1
Values      == Containers \union {Primitive}

Item  == [key : Keys \union {NoKey}, val : Values \union {Placeholder}]

\* An element of an encoder's storage: a container object or a boxed Value.
Slot     == [boxed : BOOLEAN, id : Values]
Object(c) == [boxed |-> FALSE, id |-> c]
Boxed(v)  == [boxed |-> TRUE, id |-> v]

\* What encode(to:) did with the encoder it was handed: nothing yet, asked
\* for a container, or encoded through the single value container.
Unused == 0
Used   == -1
Seats  == Containers \union {Unused, Used}

\* Where the result of an activation goes: a container, or (Single) the
\* storage of the encoder itself; the outermost activation ignores it.
Single == 0
\* An activation that loops over a collection (loop) runs library code only.
Call == [encoder : Encoders, depth : Nat, seat : Seats, loop : BOOLEAN,
         into : Containers \union {Single}, key : Keys \union {NoKey}]

NoReference == [encoder |-> 0, container |-> 0, key |-> NoKey, index |-> 0]
Reference ==
  [encoder : Encoders, container : Containers, key : Keys \union {NoKey},
   index : Nat] \union {NoReference}

VARIABLES
  kind,        \* kind of each allocated container, "none" when not allocated
  items,       \* backing of each container
  storage,     \* container stack of each encoder
  path,        \* codingPath.count of each encoder
  finalizers,  \* number of throwing finalizers scheduled on each encoder
  reference,   \* what a referencing encoder writes back to
  created,     \* encoders created so far, numbered in order of creation
  alive,       \* the encoders not deallocated
  owner,       \* activation whose scope holds a referencing encoder
  handle,      \* use made of a referencing encoder by that scope
  calls,       \* the activations of subEncode, outermost first
  unwinding,   \* an error is propagating through the current activation
  outcome,     \* what encodeTree did
  delayed      \* history: the encoders a deinit delayed an error on

heap     == <<kind, items>>
encoding == <<storage, path, finalizers>>
links    == <<reference, created, alive, owner>>
vars == <<kind, items, storage, path, finalizers, reference, created, alive,
          owner, handle, calls, unwinding, outcome, delayed>>

-----------------------------------------------------------------------------
(* Mistakes the properties must notice, each a wrong version of the         *)
(* definition it is named after.                                            *)

PutMovesKey(s, key, v) ==
  Append(SelectSeq(s, LAMBDA it : key = NoKey \/ it.key # key),
         [key |-> key, val |-> v])
WriteBackAppends(s, ref, v) == Append(s, [key |-> ref.key, val |-> v])
IndexOfNext(c) == Len(items[c]) + 1
IndexOfLast(c) == Len(items[c]) - 1
RestoreNothing(s, depth) == s
ScheduleNothing(e) == finalizers
ConsumeFinalizer(n) == n - 1

-----------------------------------------------------------------------------
(* Reading the state *)

Running == outcome = "running"
Current == Last(calls)

\* The value being encoded has control; library loops only box elements.
Ready  == Running /\ ~unwinding
Client == Ready /\ ~Current.loop

\* The referencing encoders held by the scope of the current activation.
Owned == {r \in alive : r # Main /\ owner[r] = Len(calls)}

\* The encoders the current activation may address, and its use of each.
Reachable == Owned \union {Current.encoder}
SeatOf(e) == IF e = Current.encoder THEN Current.seat ELSE handle[e]

Children(e) == {r \in alive : reference[r].encoder = e}
LiveOn(c)   == {r \in alive : reference[r].container = c}

\* The containers the current activation writes to, with their encoders.
Handles == {h \in Reachable \X Containers : SeatOf(h[1]) = h[2]}

FreshContainer(c) == kind[c] = "none" /\ \A d \in 1..(c - 1) : kind[d] # "none"

\* InternalValueEncoder.canEncodeNewValue and its override: a referencing
\* encoder starts with the coding path of its parent and its own key.
CanEncodeNewValue(e) ==
  Len(storage[e]) = IF e = Main THEN path[e]
                    ELSE path[e] - path[reference[e].encoder] - 1

-----------------------------------------------------------------------------
(* Containers *)

HasKey(s, key) == key # NoKey /\ \E i \in DOMAIN s : s[i].key = key

\* A keyed container is an ordered dictionary: an existing key keeps its
\* position.  An unkeyed container appends.
Put(s, key, v) ==
  IF HasKey(s, key)
  THEN [i \in DOMAIN s |-> IF s[i].key = key THEN [s[i] EXCEPT !.val = v] ELSE s[i]]
  ELSE Append(s, [key |-> key, val |-> v])

\* Creating a referencing encoder: a keyed container gets a placeholder, an
\* unkeyed one does not grow.
Reserve(s, key) == IF key = NoKey THEN s ELSE Put(s, key, Placeholder)

\* The deinit of a referencing encoder writes its value back.
WriteBack(s, ref, v) ==
  IF ref.key = NoKey
  THEN InsertAt(s, ref.index + 1, [key |-> NoKey, val |-> v])
  ELSE Put(s, ref.key, v)

HasHole(c) == \E i \in DOMAIN items[c] : items[c][i].val = Placeholder

\* The keys a client may use with container c; a key whose nested container
\* is still being written is not used again.
KeysOf(c) ==
  IF kind[c] = "keyed"
  THEN Keys \ {reference[r].key : r \in LiveOn(c)}
  ELSE IF kind[c] = "unkeyed" /\ Len(items[c]) + Cardinality(LiveOn(c)) < MaxItems
  THEN {NoKey} ELSE {}

-----------------------------------------------------------------------------
(* Rolling up the top of a storage: what popRolledUpContainer makes of it. *)

IsObject(slot, k) == ~slot.boxed /\ kind[slot.id] = k

\* A Value rolls up to itself, a container to a Value the Transform may
\* refuse; unwrapping a placeholder as a Value is undefined behaviour.
RollUp(slot) ==
  IF slot.boxed THEN {"value"}
  ELSE IF HasHole(slot.id) THEN {"undefined"}
  ELSE {"value"} \union (IF RollUpThrows THEN {"throw"} ELSE {})

\* The defer of the container method that started the current activation.
PopKey(p) ==
  IF Len(calls) > 1 /\ Current.into # Single
  THEN [p EXCEPT ![Current.encoder] = @ - 1] ELSE p

\* subEncode's catch: "pop it back off to restore state".
RestoreStorage(s, depth) == IF Len(s) > depth THEN Front(s) ELSE s

\* A container object popped off a storage and not rolled up dies, unless a
\* referencing encoder still holds it.
Free(slot) ==
  IF slot.boxed \/ LiveOn(slot.id) # {} THEN UNCHANGED heap
  ELSE /\ kind' = [kind EXCEPT ![slot.id] = "none"]
       /\ items' = [items EXCEPT ![slot.id] = <<>>]

SetSeat(e, x) ==
  IF e = Current.encoder
  THEN /\ calls' = [calls EXCEPT ![Len(calls)].seat = x]
       /\ UNCHANGED handle
  ELSE /\ handle' = [handle EXCEPT ![e] = x]
       /\ UNCHANGED calls

Trap == outcome' = "trap"

-----------------------------------------------------------------------------
(* The operations of an Encoder, called by the value being encoded *)

\* container(keyedBy:) and unkeyedContainer(): the container of this path is
\* pushed, or found on top of the storage.
PushContainer(e, k) ==
  /\ Client /\ e \in Reachable
  /\ SeatOf(e) = Unused \/ (SeatOf(e) \in Containers /\ kind[SeatOf(e)] = k)
  /\ CanEncodeNewValue(e)
  /\ \E c \in Containers :
       /\ FreshContainer(c)
       /\ kind' = [kind EXCEPT ![c] = k]
       /\ storage' = [storage EXCEPT ![e] = Append(@, Object(c))]
       /\ SetSeat(e, c)
  /\ UNCHANGED <<items, path, finalizers, links, unwinding, outcome, delayed>>

FindContainer(e, k) ==
  /\ Client /\ e \in Reachable
  /\ SeatOf(e) = Unused \/ (SeatOf(e) \in Containers /\ kind[SeatOf(e)] = k)
  /\ ~CanEncodeNewValue(e)
  /\ IF storage[e] # <<>> /\ IsObject(Last(storage[e]), k)
     THEN SetSeat(e, Last(storage[e]).id) /\ UNCHANGED outcome
     ELSE Trap /\ UNCHANGED <<calls, handle>>
  /\ UNCHANGED <<heap, encoding, links, unwinding, delayed>>

\* The single value container: the precondition, then storage.push(box(_)).
EncodeSingle(e) ==
  /\ Client /\ e \in Reachable /\ SeatOf(e) = Unused
  /\ IF CanEncodeNewValue(e)
     THEN /\ storage' = [storage EXCEPT ![e] = Append(@, Boxed(Primitive))]
          /\ SetSeat(e, Used)
          /\ UNCHANGED outcome
     ELSE Trap /\ UNCHANGED <<storage, calls, handle>>
  /\ UNCHANGED <<heap, path, finalizers, links, unwinding, delayed>>

SubEncodeSingle(e) ==
  /\ Client /\ e \in Reachable /\ SeatOf(e) = Unused
  /\ Len(calls) < MaxCalls
  /\ IF CanEncodeNewValue(e)
     THEN /\ calls' = Append(calls,
               [encoder |-> e, depth |-> Len(storage[e]), seat |-> Unused, loop |-> FALSE,
                into |-> Single, key |-> NoKey])
          /\ UNCHANGED outcome
     ELSE Trap /\ UNCHANGED calls
  /\ UNCHANGED <<heap, encoding, links, handle, unwinding, delayed>>

-----------------------------------------------------------------------------
(* The operations of a container handed out by an encoder *)

\* encode(_:forKey:) of a primitive, and encodeNil(forKey:)
EncodePrimitive(e, c, key) ==
  /\ Ready /\ <<e, c>> \in Handles /\ key \in KeysOf(c) \ {NoKey}
  /\ items' = [items EXCEPT ![c] = Put(@, key, Primitive)]
  /\ UNCHANGED <<kind, encoding, links, handle, calls, unwinding, outcome,
                 delayed>>

\* encode(_:) of a primitive, and encodeNil()
AppendPrimitive(e, c) ==
  /\ Ready /\ <<e, c>> \in Handles /\ NoKey \in KeysOf(c)
  /\ items' = [items EXCEPT ![c] = Put(@, NoKey, Primitive)]
  /\ UNCHANGED <<kind, encoding, links, handle, calls, unwinding, outcome,
                 delayed>>

\* encode<T>(_:forKey:) and encode<T>(_:): the key goes onto the coding path
\* and subEncode hands the encoder to the value.
SubEncode(e, c, key) ==
  /\ Ready /\ <<e, c>> \in Handles /\ key \in KeysOf(c)
  /\ Len(calls) < MaxCalls
  /\ path' = [path EXCEPT ![e] = @ + 1]
  /\ calls' = Append(calls,
       [encoder |-> e, depth |-> Len(storage[e]), seat |-> Unused, loop |-> FALSE,
        into |-> c, key |-> key])
  /\ UNCHANGED <<heap, storage, finalizers, links, handle, unwinding, outcome,
                 delayed>>

\* The same for a [String: Encodable] and for ASN.1's AnyValue collections:
\* box pushes the container without asking canEncodeNewValue and boxes the
\* elements itself.
SubEncodeCollection(e, c, key, k) ==
  /\ Ready /\ <<e, c>> \in Handles /\ key \in KeysOf(c)
  /\ Len(calls) < MaxCalls
  /\ path' = [path EXCEPT ![e] = @ + 1]
  /\ \E d \in Containers :
       /\ FreshContainer(d)
       /\ kind' = [kind EXCEPT ![d] = k]
       /\ storage' = [storage EXCEPT ![e] = Append(@, Object(d))]
       /\ calls' = Append(calls,
            [encoder |-> e, depth |-> Len(storage[e]), seat |-> d, loop |-> TRUE,
             into |-> c, key |-> key])
  /\ UNCHANGED <<items, finalizers, links, handle, unwinding, outcome, delayed>>

\* ValueReferencingEncoder.init
IndexOf(c) == Len(items[c])

Refer(r, e, c, key) ==
  /\ NestInNested \/ e = Main
  /\ items' = [items EXCEPT ![c] = Reserve(@, key)]
  /\ reference' = [reference EXCEPT ![r] =
       [encoder |-> e, container |-> c, key |-> key,
        index |-> IF key = NoKey THEN IndexOf(c) ELSE 0]]
  /\ created' = r
  /\ alive' = alive \union {r}
  /\ owner' = [owner EXCEPT ![r] = Len(calls)]
  /\ path' = [path EXCEPT ![r] = path[e] + 1]

\* nestedContainer(keyedBy:forKey:), nestedUnkeyedContainer(forKey:) and the
\* same two of an unkeyed container.
NestedContainer(e, c, key, k) ==
  /\ Client /\ <<e, c>> \in Handles /\ key \in KeysOf(c)
  /\ \E r \in Encoders, d \in Containers :
       /\ r = created + 1 /\ FreshContainer(d)
       /\ Refer(r, e, c, key)
       /\ kind' = [kind EXCEPT ![d] = k]
       /\ storage' = [storage EXCEPT ![r] = <<Object(d)>>]
       /\ handle' = [handle EXCEPT ![r] = d]
  /\ UNCHANGED <<finalizers, calls, unwinding, outcome, delayed>>

\* superEncoder() and superEncoder(forKey:)
SuperEncoder(e, c, key) ==
  /\ Client /\ <<e, c>> \in Handles /\ key \in KeysOf(c)
  /\ \E r \in Encoders :
       /\ r = created + 1
       /\ Refer(r, e, c, key)
  /\ UNCHANGED <<kind, storage, finalizers, handle, calls, unwinding, outcome,
                 delayed>>

-----------------------------------------------------------------------------
(* ValueReferencingEncoder.deinit *)

Schedule(e) == [finalizers EXCEPT ![e] = @ + 1]

\* The last handle on r is dropped; encoders nested in r keep r alive.
MayRelease(r) ==
  /\ Running /\ r \in Owned /\ Children(r) = {}
  /\ LexicalRelease /\ reference[r].key = NoKey =>
       \A s \in LiveOn(reference[r].container) : s <= r

Release(r) ==
  /\ MayRelease(r)
  /\ Len(storage[r]) <= 1
  /\ LET ref == reference[r]
         c   == ref.container
         results == IF storage[r] = <<>> THEN {"value"} ELSE RollUp(storage[r][1])
         v   == IF storage[r] = <<>> THEN Primitive ELSE storage[r][1].id
     IN \/ /\ "value" \in results
           /\ items' = [items EXCEPT ![c] = WriteBack(@, ref, v)]
           /\ UNCHANGED <<kind, finalizers, outcome, delayed>>
        \/ /\ "throw" \in results
           /\ finalizers' = Schedule(ref.encoder)
           /\ delayed' = delayed \union {ref.encoder}
           /\ Free(storage[r][1])
           /\ UNCHANGED outcome
        \/ /\ "undefined" \in results
           /\ outcome' = "undefined"
           /\ UNCHANGED <<heap, finalizers, delayed>>
  /\ alive' = alive \ {r}
  /\ storage' = [storage EXCEPT ![r] = <<>>]
  /\ handle' = [handle EXCEPT ![r] = Unused]
  /\ reference' = [reference EXCEPT ![r] = NoReference]
  /\ path' = [path EXCEPT ![r] = 0]
  /\ owner' = [owner EXCEPT ![r] = 0]
  /\ UNCHANGED <<created, calls, unwinding>>

\* "Referencing encoder deallocated with multiple containers on stack."
ReleaseTraps(r) ==
  /\ MayRelease(r)
  /\ Len(storage[r]) > 1
  /\ Trap
  /\ UNCHANGED <<heap, encoding, links, handle, calls, unwinding, delayed>>

-----------------------------------------------------------------------------
(* The end of an activation of subEncode *)

\* The error leaves the activation: its caller, or encodeTree, gets it.
Propagate(left) ==
  /\ path' = PopKey(path)
  /\ calls' = Front(calls)
  /\ storage' = [storage EXCEPT ![Current.encoder] = left]
  /\ IF Len(calls) > 1
     THEN unwinding' = TRUE /\ UNCHANGED outcome
     ELSE unwinding' = FALSE /\ outcome' = "error"
  /\ IF left = storage[Current.encoder] THEN UNCHANGED heap
     ELSE Free(Last(storage[Current.encoder]))
  /\ UNCHANGED <<links, handle, delayed>>

\* The value goes where the caller asked for it.
Deliver(v, left) ==
  LET e == Current.encoder
      caller == calls[Len(calls) - 1]
  IN /\ path' = PopKey(path)
     /\ IF Len(calls) = 1
        THEN /\ outcome' = "ok"
             /\ storage' = [storage EXCEPT ![e] = left]
             /\ calls' = Front(calls)
             /\ UNCHANGED <<items, handle>>
        ELSE IF Current.into # Single
        THEN /\ items' = [items EXCEPT ![Current.into] = Put(@, Current.key, v)]
             /\ storage' = [storage EXCEPT ![e] = left]
             /\ calls' = Front(calls)
             /\ UNCHANGED <<handle, outcome>>
        ELSE /\ storage' = [storage EXCEPT ![e] = Append(left, Boxed(v))]
             /\ IF caller.encoder = e
                THEN /\ calls' = [Front(calls) EXCEPT ![Len(calls) - 1].seat = Used]
                     /\ UNCHANGED handle
                ELSE /\ calls' = Front(calls)
                     /\ handle' = [handle EXCEPT ![e] = Used]
             /\ UNCHANGED <<items, outcome>>
     /\ UNCHANGED <<kind, finalizers, links, unwinding, delayed>>

\* encode(to:) returns once its scope holds no referencing encoder.
Returns == Ready /\ Owned = {}

\* finalize(): a finalizer that throws leaves all of them scheduled.
KeepFinalizers(n) == n

\* The throw of finalize() is outside the catch of subEncode: the container
\* of the activation stays on the storage.
FinalizerThrows ==
  LET e == Current.encoder
  IN /\ Returns /\ finalizers[e] > 0
     /\ finalizers' = [finalizers EXCEPT ![e] = KeepFinalizers(@)]
     /\ Propagate(storage[e])

\* No container was requested: box falls back to boxNil, while encodeTree
\* reports "did not encode any values".
ReturnNothing ==
  LET e == Current.encoder
  IN /\ Returns /\ finalizers[e] = 0
     /\ Len(storage[e]) <= Current.depth
     /\ IF Len(calls) = 1
        THEN Propagate(storage[e]) /\ UNCHANGED finalizers
        ELSE Deliver(Primitive, storage[e])

\* popRolledUpContainer.  A placeholder is not there any more: the error
\* that left it is scheduled on this encoder (NoPlaceholderRolledUp).
ReturnValue ==
  LET e == Current.encoder
      top == Last(storage[e])
  IN /\ Returns /\ finalizers[e] = 0
     /\ Len(storage[e]) > Current.depth
     /\ "value" \in RollUp(top)
     /\ Deliver(top.id, Front(storage[e]))

RollUpFails ==
  LET e == Current.encoder
  IN /\ Returns /\ finalizers[e] = 0
     /\ Len(storage[e]) > Current.depth
     /\ "throw" \in RollUp(Last(storage[e]))
     /\ Propagate(Front(storage[e]))
     /\ UNCHANGED finalizers

\* encode(to:) throws an error of its own, or a primitive is refused.
Raise ==
  /\ Ready
  /\ unwinding' = TRUE
  /\ UNCHANGED <<heap, encoding, links, handle, calls, outcome, delayed>>

\* try? in encode(to:)
Swallow ==
  /\ Running /\ unwinding /\ ~Current.loop /\ ClientSwallows
  /\ unwinding' = FALSE
  /\ UNCHANGED <<heap, encoding, links, handle, calls, outcome, delayed>>

Unwind ==
  LET e == Current.encoder
  IN /\ Running /\ unwinding /\ Owned = {}
     /\ Propagate(RestoreStorage(storage[e], Current.depth))
     /\ UNCHANGED finalizers

-----------------------------------------------------------------------------
(* encodeTree creates the main encoder and boxes the top-level value *)
Init ==
  /\ kind = [c \in Containers |-> "none"]
  /\ items = [c \in Containers |-> <<>>]
  /\ storage = [e \in Encoders |-> <<>>]
  /\ path = [e \in Encoders |-> 0]
  /\ finalizers = [e \in Encoders |-> 0]
  /\ reference = [e \in Encoders |-> NoReference]
  /\ created = Main
  /\ alive = {Main}
  /\ owner = [e \in Encoders |-> 0]
  /\ handle = [e \in Encoders |-> Unused]
  /\ calls = << [encoder |-> Main, depth |-> 0, seat |-> Unused, loop |-> FALSE,
                 into |-> Single, key |-> NoKey] >>
  /\ unwinding = FALSE
  /\ outcome = "running"
  /\ delayed = {}

ClientStep ==
  \/ \E e \in Encoders :
       \/ \E k \in Kinds : PushContainer(e, k) \/ FindContainer(e, k)
       \/ EncodeSingle(e)
       \/ SubEncodeSingle(e)
       \/ \E c \in Containers :
            \/ AppendPrimitive(e, c)
            \/ \E key \in Keys \union {NoKey} :
                 \/ EncodePrimitive(e, c, key)
                 \/ SubEncode(e, c, key)
                 \/ \E k \in Kinds : SubEncodeCollection(e, c, key, k)
                 \/ \E k \in Kinds : NestedContainer(e, c, key, k)
                 \/ SuperEncoder(e, c, key)
  \/ Raise
  \/ Swallow

ReleaseStep == \E r \in Encoders : Release(r) \/ ReleaseTraps(r)

ReturnStep ==
  \/ FinalizerThrows
  \/ ReturnNothing
  \/ ReturnValue
  \/ RollUpFails
  \/ Unwind

Next == ClientStep \/ ReleaseStep \/ ReturnStep

Spec == Init /\ [][Next]_vars

-----------------------------------------------------------------------------
(* Properties *)

(***************************************************************************)
(* Every variable has the type the code gives it.                          *)
(***************************************************************************)
TypeOK ==
  /\ kind \in [Containers -> Kinds \union {"none"}]
  /\ items \in [Containers -> Seq(Item)]
  /\ storage \in [Encoders -> Seq(Slot)]
  /\ path \in [Encoders -> Int]
  /\ finalizers \in [Encoders -> Nat]
  /\ reference \in [Encoders -> Reference]
  /\ created \in Encoders
  /\ alive \subseteq Encoders
  /\ owner \in [Encoders -> Nat]
  /\ handle \in [Encoders -> Seats]
  /\ calls \in Seq(Call)
  /\ unwinding \in BOOLEAN
  /\ outcome \in {"running", "ok", "error", "trap", "undefined"}
  /\ delayed \subseteq Encoders

(***************************************************************************)
(* unkeyed.insert(value, at: index) in deinit (ValueEncoder.swift:1128)    *)
(* uses an index captured when the nested container was created; whatever  *)
(* was released or appended since, it is never past the end of the array.  *)
(***************************************************************************)
InsertInBounds ==
  \A r \in alive \ {Main} :
    reference[r].key = NoKey =>
      reference[r].index <= Len(items[reference[r].container])

(***************************************************************************)
(* No precondition failure or fatalError is reached by a value that uses   *)
(* each encoder once, whatever it throws and swallows: encodeTree reports  *)
(* a failure by throwing (ValueEncoder.swift:119), and subEncode restores  *)
(* the storage after an error (ValueEncoder.swift:420).                    *)
(***************************************************************************)
NoTrap == outcome # "trap"

(***************************************************************************)
(* The placeholder that reserves a key's position (ValueEncoder.swift:1065)*)
(* is always replaced before its container is rolled up, where it would be *)
(* unwrapped unsafely as a Value (ValueEncoder.swift:451).                 *)
(***************************************************************************)
NoPlaceholderRolledUp ==
  /\ outcome # "undefined"
  /\ Returns /\ finalizers[Current.encoder] = 0 /\ Len(storage[Current.encoder]) > Current.depth =>
       "undefined" \notin RollUp(Last(storage[Current.encoder]))

(***************************************************************************)
(* canEncodeNewValue tells exactly whether encode(to:) already used the    *)
(* encoder it was handed: the coding path and the storage stay in step.    *)
(***************************************************************************)
CanEncodeIffUnused ==
  Ready =>
    \A e \in Reachable : CanEncodeNewValue(e) <=> SeatOf(e) = Unused

(***************************************************************************)
(* encodeTree "throws: An error if any value throws an error during        *)
(* encoding" (ValueEncoder.swift:119): an error a deinit had to delay is   *)
(* never followed by a normal result.                                      *)
(***************************************************************************)
DelayedErrorReported == delayed # {} => outcome # "ok"

(***************************************************************************)
(* What holds for every client and every Transform: once an error was      *)
(* delayed on an encoder, no activation of it returns a value any more,    *)
(* however often the error is thrown and swallowed in between              *)
(* (ValueEncoder.swift:427, 475-480).                                      *)
(***************************************************************************)
Ends(e) == calls # <<>> /\ Current.encoder = e /\ Len(calls') < Len(calls)
DelayedErrorRethrown ==
  [][\A e \in delayed : Ends(e) => unwinding' \/ outcome' = "error"]_vars

(***************************************************************************)
(* So an error that was ever delayed on the main encoder fails the session *)
(* (ValueEncoder.swift:119).                                               *)
(***************************************************************************)
MainErrorReported == Main \in delayed => outcome # "ok"

(***************************************************************************)
(* A keyed container keeps its keys in the order they were first used,     *)
(* nested containers included: no step moves or drops a key.               *)
(***************************************************************************)
KeysOfItems(s) == [i \in DOMAIN s |-> s[i].key]
KeyOrderKept ==
  [][\A c \in Containers :
       kind[c] = "keyed" /\ kind'[c] = "keyed" =>
         IsPrefix(KeysOfItems(items[c]), KeysOfItems(items'[c]))]_vars

(***************************************************************************)
(* A session in progress has an outermost activation, and it runs on the   *)
(* main encoder.                                                           *)
(***************************************************************************)
CallsOK == Running => Len(calls) >= 1 /\ calls[1].encoder = Main

(***************************************************************************)
(* A live referencing encoder writes back to a container that exists and   *)
(* has the kind its reference says.                                        *)
(***************************************************************************)
ReferencesOK ==
  \A r \in alive \ {Main} :
    /\ reference[r] # NoReference
    /\ kind[reference[r].container] =
         IF reference[r].key = NoKey THEN "unkeyed" ELSE "keyed"

-----------------------------------------------------------------------------
(***************************************************************************)
(* The session as an OrderedTree: a live referencing encoder is the ticket *)
(* of the slot that waits for it, which is the placeholder of its key or   *)
(* the index it will insert at.                                            *)
(***************************************************************************)
SlotOf(r) ==
  LET c == reference[r].container
  IN reference[r].index + 1 + Cardinality({s \in LiveOn(c) : s < r})

KeyedSlots(c) ==
  [i \in DOMAIN items[c] |->
    [items[c][i] EXCEPT !.val =
      IF @ # Placeholder THEN @
      ELSE LET live == {r \in LiveOn(c) : reference[r].key = items[c][i].key}
           IN IF live = {} THEN Placeholder ELSE -(CHOOSE r \in live : TRUE)]]

UnkeyedSlots(c) ==
  LET taken == {SlotOf(r) : r \in LiveOn(c)}
  IN [i \in 1..(Len(items[c]) + Cardinality(taken)) |->
       IF i \in taken
       THEN [key |-> NoKey, val |-> -(CHOOSE r \in LiveOn(c) : SlotOf(r) = i)]
       ELSE items[c][i - Cardinality({p \in taken : p < i})]]

Tree == INSTANCE OrderedTree WITH
  Nodes  <- Containers,
  Tickets <- Encoders \ {Main},
  tree   <- [c \in Containers |->
              IF kind[c] = "keyed" THEN KeyedSlots(c) ELSE UnkeyedSlots(c)],
  failed <- delayed # {},
  result <- outcome

=============================================================================
