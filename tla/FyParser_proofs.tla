--------------------------- MODULE FyParser_proofs ---------------------------
(***************************************************************************)
(* Proofs about FyParser for every text, that is for every profile.        *)
(***************************************************************************)
EXTENDS FyParser, FyScanner_proofs

(***************************************************************************)
(* The inductive invariant.  The parser returns to a state of a collection *)
(* or, at the bottom of its stack only, to the end of the document; and the *)
(* state it returns to after a node is the one that has the node behind it. *)
(***************************************************************************)
BeforeNode  == {"DOCUMENT_CONTENT", "BLOCK_NODE"}
Between     == {"IMPLICIT_DOCUMENT_START", "DOCUMENT_START"}
Idle        == Between \union {"NONE", "DOCUMENT_END", "END"}
Collections == States \ (Idle \union BeforeNode)
Nodes       == [in : {"none", "block", "flow"}, anchor : BOOLEAN, tag : {"none", "TAG", "TAG-HANDLE"}]

StackShape ==
  /\ state \in States
  /\ stack \in Seq(Collections \union {"DOCUMENT_END"})
  /\ \A i \in 1..Len(stack) : stack[i] = "DOCUMENT_END" <=> i = 1
  /\ state \in Idle <=> stack = <<>>
  /\ state \in BeforeNode => Len(stack) = 1

NodeShape ==
  /\ node \in Nodes
  /\ InNode => state \notin Idle
  /\ Awaited => /\ Context(state) # "pair end"
                /\ Context(Last(stack)) = Events!Next(Context(state))

EventShape == state = "NONE" => event \in {"none", "reset", "error"}

Shape == StackShape /\ NodeShape /\ EventShape

-----------------------------------------------------------------------------
(* Facts about outlines *)

(***************************************************************************)
(* One more state to return to is one more thing that is open.             *)
(***************************************************************************)
OpenContexts == {"stream", "document", "root", "sequence", "key", "value",
                 "pair key", "pair value", "pair end"}

LEMMA ContextType == \A at : Context(at) \in OpenContexts
BY DEF Context, OpenContexts

LEMMA OutlineType ==
  ASSUME NEW S, NEW s \in Seq(S)
  PROVE  /\ Outline(s) \in Seq(OpenContexts) /\ Outline(s) # <<>>
         /\ Len(Outline(s)) = Len(s) + 1
         /\ Outline(s)[1] = "stream"
         /\ \A i \in 1..Len(s) : Outline(s)[i + 1] = Context(s[i])
<1> DEFINE c == [i \in DOMAIN s |-> Context(s[i])]
<1>1. Len(s) \in Nat /\ DOMAIN s = 1..Len(s)
  BY LenProperties
<1>2. c \in Seq(OpenContexts) /\ Len(c) = Len(s) /\ \A i \in 1..Len(s) : c[i] = Context(s[i])
  BY <1>1, ContextType
<1>3. <<"stream">> \in Seq(OpenContexts) /\ Len(<<"stream">>) = 1 /\ <<"stream">>[1] = "stream"
  BY DEF OpenContexts
<1>4. Outline(s) = <<"stream">> \o c
  BY DEF Outline
<1> HIDE DEF c
<1>5. /\ <<"stream">> \o c \in Seq(OpenContexts)
      /\ Len(<<"stream">> \o c) = 1 + Len(s)
      /\ \A i \in 1..(1 + Len(s)) : (<<"stream">> \o c)[i] = IF i <= 1 THEN <<"stream">>[i] ELSE c[i - 1]
  BY <1>2, <1>3, ConcatProperties
<1>6. \A i \in 1..Len(s) : Outline(s)[i + 1] = Context(s[i])
  <2> TAKE i \in 1..Len(s)
  <2>1. i + 1 \in 1..(1 + Len(s)) /\ ~(i + 1 <= 1) /\ (i + 1) - 1 = i
    BY <1>1
  <2> QED BY <2>1, <1>2, <1>4, <1>5
<1>7. Outline(s)[1] = "stream" /\ Len(Outline(s)) = Len(s) + 1
  BY <1>1, <1>3, <1>4, <1>5
<1>8. Outline(s) # <<>>
  BY <1>1, <1>7, EmptySeq
<1> QED BY <1>4, <1>5, <1>6, <1>7, <1>8

LEMMA OutlineAppend ==
  ASSUME NEW S, NEW s \in Seq(S), NEW x \in S
  PROVE  Outline(Append(s, x)) = Append(Outline(s), Context(x))
<1> DEFINE l == Outline(Append(s, x))
           r == Append(Outline(s), Context(x))
<1>1. /\ Append(s, x) \in Seq(S) /\ Len(Append(s, x)) = Len(s) + 1 /\ Len(s) \in Nat
      /\ \A i \in 1..Len(s) : Append(s, x)[i] = s[i]
      /\ Append(s, x)[Len(s) + 1] = x
  BY AppendProperties, LenProperties
<1>2. /\ l \in Seq(OpenContexts) /\ Len(l) = Len(s) + 2 /\ l[1] = "stream"
      /\ \A i \in 1..(Len(s) + 1) : l[i + 1] = Context(Append(s, x)[i])
  <2> DEFINE t == Append(s, x)
  <2>1. t \in Seq(S) /\ Len(t) = Len(s) + 1
    BY <1>1
  <2> HIDE DEF t
  <2>2. /\ Outline(t) \in Seq(OpenContexts) /\ Len(Outline(t)) = Len(t) + 1 /\ Outline(t)[1] = "stream"
        /\ \A i \in 1..Len(t) : Outline(t)[i + 1] = Context(t[i])
    BY <2>1, OutlineType
  <2> QED BY <2>1, <2>2, <1>1 DEF t
<1>3. /\ Outline(s) \in Seq(OpenContexts) /\ Len(Outline(s)) = Len(s) + 1 /\ Outline(s)[1] = "stream"
      /\ \A i \in 1..Len(s) : Outline(s)[i + 1] = Context(s[i])
  BY OutlineType
<1>4. /\ r \in Seq(OpenContexts) /\ Len(r) = Len(s) + 2
      /\ \A i \in 1..(Len(s) + 1) : r[i] = Outline(s)[i]
      /\ r[Len(s) + 2] = Context(x)
  <2>1. Context(x) \in OpenContexts
    BY ContextType
  <2> QED BY <2>1, <1>3, <1>1, AppendProperties
<1>5. \A j \in 1..Len(l) : l[j] = r[j]
  <2> TAKE j \in 1..Len(l)
  <2>1. CASE j = 1
    BY <2>1, <1>1, <1>2, <1>3, <1>4
  <2>2. CASE j # 1
    <3> DEFINE i == j - 1
    <3>1. i \in 1..(Len(s) + 1) /\ j = i + 1
      BY <2>2, <1>1, <1>2
    <3>2. l[j] = Context(Append(s, x)[i])
      BY <3>1, <1>2
    <3>3. CASE i = Len(s) + 1
      BY <3>1, <3>2, <3>3, <1>1, <1>4
    <3>4. CASE i # Len(s) + 1
      <4>1. i \in 1..Len(s) /\ j \in 1..(Len(s) + 1)
        BY <3>1, <3>4, <1>1
      <4>2. Append(s, x)[i] = s[i] /\ Outline(s)[j] = Context(s[i]) /\ r[j] = Outline(s)[j]
        BY <3>1, <4>1, <1>1, <1>3, <1>4
      <4> QED BY <3>2, <4>2
    <3> QED BY <3>3, <3>4
  <2> QED BY <2>1, <2>2
<1> HIDE DEF l, r
<1>6. l = r
  BY <1>1, <1>2, <1>4, <1>5, SeqEqual
<1> QED BY <1>6 DEF l, r

-----------------------------------------------------------------------------
(* What is open before and after a step, and the step of FyEvents it makes *)

Places      == Collections \union {"DOCUMENT_END"}
TakingNodes == {"document", "sequence", "key", "value", "pair key", "pair value"}

LEMMA OutlineFacts ==
  ASSUME NEW S, NEW s \in Seq(S), NEW x \in S
  PROVE  /\ Outline(Append(s, x)) # <<>>
         /\ Last(Outline(Append(s, x))) = Context(x)
         /\ Front(Outline(Append(s, x))) = Outline(s)
         /\ Outline(s) \o <<Context(x)>> = Outline(Append(s, x))
         /\ \A y \in S : Append(Outline(Append(s, x)), Context(y)) = Outline(Append(Append(s, x), y))
<1>1. Outline(s) \in Seq(OpenContexts) /\ Context(x) \in OpenContexts
  BY OutlineType, ContextType
<1>2. Outline(Append(s, x)) = Append(Outline(s), Context(x))
  BY OutlineAppend
<1>3. Append(s, x) \in Seq(S)
  BY AppendProperties
<1>4. ASSUME NEW y \in S
      PROVE  Outline(Append(Append(s, x), y)) = Append(Outline(Append(s, x)), Context(y))
  <2> DEFINE t == Append(s, x)
  <2>1. t \in Seq(S)
    BY <1>3
  <2>2. Outline(Append(t, y)) = Append(Outline(t), Context(y))
    <3> HIDE DEF t
    <3> QED BY <2>1, OutlineAppend
  <2> QED BY <2>2
<1>5. /\ Append(Outline(s), Context(x)) # <<>>
      /\ Last(Append(Outline(s), Context(x))) = Context(x)
      /\ Front(Append(Outline(s), Context(x))) = Outline(s)
      /\ Outline(s) \o <<Context(x)>> = Append(Outline(s), Context(x))
  BY <1>1, AppendFacts
<1> QED BY <1>2, <1>4, <1>5

LEMMA SameOperators == \A s : Events!Last(s) = Last(s) /\ Events!Front(s) = Front(s)
BY DEF Events!Last, Events!Front, Last, Front

LEMMA LeafStep ==
  ASSUME NEW S, NEW s \in Seq(S), NEW x \in S, NEW y \in S,
         Open = Outline(Append(s, x)), Open' = Outline(Append(s, y)),
         Context(x) \in TakingNodes, Context(y) = Events!Next(Context(x)),
         event' \in {"SCALAR", "ALIAS"}
  PROVE  Events!Leaf
<1>1. Open # <<>> /\ Last(Open) = Context(x) /\ Front(Open) = Outline(s)
  <2>1. /\ Outline(Append(s, x)) # <<>> /\ Last(Outline(Append(s, x))) = Context(x)
        /\ Front(Outline(Append(s, x))) = Outline(s)
    BY OutlineFacts
  <2> QED BY <2>1
<1>3. Events!Last(Open) = Context(x) /\ Events!Front(Open) = Outline(s)
  BY <1>1, SameOperators
<1>2. Open' = Outline(s) \o <<Events!Next(Context(x))>>
  BY OutlineFacts
<1> QED BY <1>1, <1>2, <1>3 DEF Events!Leaf, Events!TakesNode, Events!Emit, Events!Filled, TakingNodes

LEMMA StartStep ==
  ASSUME NEW S, NEW s \in Seq(S), NEW x \in S, NEW y \in S, NEW z \in S,
         Open = Outline(Append(s, x)), Open' = Outline(Append(Append(s, y), z)),
         Context(x) \in TakingNodes, Context(y) = Events!Next(Context(x)),
         \/ event' = "SEQUENCE-START" /\ Context(z) = "sequence"
         \/ event' = "MAPPING-START" /\ Context(z) = "key"
  PROVE  Events!SequenceStart \/ Events!MappingStart
<1>1. Open # <<>> /\ Last(Open) = Context(x) /\ Front(Open) = Outline(s)
  <2>1. /\ Outline(Append(s, x)) # <<>> /\ Last(Outline(Append(s, x))) = Context(x)
        /\ Front(Outline(Append(s, x))) = Outline(s)
    BY OutlineFacts
  <2> QED BY <2>1
<1>3. Events!Last(Open) = Context(x) /\ Events!Front(Open) = Outline(s)
  BY <1>1, SameOperators
<1>2. /\ Outline(Append(s, y)) = Outline(s) \o <<Events!Next(Context(x))>>
      /\ Open' = Append(Outline(Append(s, y)), Context(z))
  BY OutlineFacts
<1> QED BY <1>1, <1>2, <1>3 DEF Events!SequenceStart, Events!MappingStart, Events!TakesNode, Events!Emit,
                          Events!Filled, TakingNodes

LEMMA EndStep ==
  ASSUME NEW S, NEW s \in Seq(S), NEW x \in S,
         Open = Outline(Append(s, x)), Open' = Outline(s),
         \/ event' = "SEQUENCE-END" /\ Context(x) = "sequence"
         \/ event' = "MAPPING-END" /\ Context(x) = "key"
  PROVE  Events!SequenceEnd \/ Events!MappingEnd
BY OutlineFacts, SameOperators DEF Events!SequenceEnd, Events!MappingEnd, Events!Close, Events!Emit

(***************************************************************************)
(* The stack under a collection, and what is open by it.                   *)
(***************************************************************************)
LEMMA Standing ==
  ASSUME Shape, state \notin Between, state \notin {"NONE", "END"}
  PROVE  /\ stack \in Seq(Places)
         /\ Awaited => /\ stack # <<>> /\ Front(stack) \in Seq(Places) /\ Last(stack) \in Places
                       /\ stack = Append(Front(stack), Last(stack))
                       /\ Open = Outline(Append(Front(stack), state))
         /\ ~Awaited => Open = Outline(Append(stack, state))
<1>1. stack \in Seq(Places)
  BY DEF Shape, StackShape, Places
<1>2. Awaited => state \notin Idle
  BY DEF Shape, StackShape, NodeShape, Awaited, BeforeNode, Idle, Between
<1>3. Awaited => stack # <<>>
  BY <1>2 DEF Shape, StackShape
<1>4. Open = Outline(ReturnsTo)
  BY DEF Open, Between
<1> QED BY <1>1, <1>3, <1>4, FrontLast DEF ReturnsTo

(***************************************************************************)
(* What the parser has open nests.                                         *)
(***************************************************************************)
LEMMA OutlineNests ==
  ASSUME NEW b \in Seq(Places), NEW x \in States,
         \A i \in 1..Len(b) : b[i] = "DOCUMENT_END" <=> i = 1,
         Context(x) \in {"document", "root"} <=> b = <<>>,
         Open = Outline(Append(b, x))
  PROVE  Events!Nested
<1> DEFINE s == Append(b, x)
<1>1. b \in Seq(States)
  <2>1. \A i \in 1..Len(b) : b[i] \in States
    BY ElementOfSeq DEF Places, Collections, States
  <2> QED BY <2>1, SeqDef, LenProperties
<1>2. /\ s \in Seq(States) /\ Len(s) = Len(b) + 1 /\ Len(b) \in Nat
      /\ \A i \in 1..Len(b) : s[i] = b[i]
      /\ s[Len(b) + 1] = x
  BY <1>1, AppendProperties, LenProperties
<1>3. ASSUME NEW i \in 1..(Len(b) + 1)
      PROVE  Context(s[i]) \in {"document", "root"} <=> i = 1
  <2>1. CASE i \in 1..Len(b)
    <3>1. b[i] \in Places /\ s[i] = b[i] /\ (b[i] = "DOCUMENT_END" <=> i = 1)
      BY <2>1, <1>2, ElementOfSeq
    <3>2. Context(b[i]) \in {"document", "root"} <=> b[i] = "DOCUMENT_END"
      BY <3>1 DEF Places, Collections, States, Context, BeforeNode
    <3> QED BY <3>1, <3>2
  <2>2. CASE i \notin 1..Len(b)
    <3>1. i = Len(b) + 1 /\ s[i] = x /\ (b = <<>> <=> Len(b) = 0)
      BY <2>2, <1>2, EmptySeq
    <3> QED BY <3>1, <1>2
  <2> QED BY <2>1, <2>2
<1>4. /\ Outline(s) \in Seq(OpenContexts) /\ Len(Outline(s)) = Len(s) + 1 /\ Outline(s)[1] = "stream"
      /\ \A i \in 1..Len(s) : Outline(s)[i + 1] = Context(s[i])
  <2> HIDE DEF s
  <2> QED BY <1>2, OutlineType
<1>5. OpenContexts = Events!Contexts
  BY DEF OpenContexts, Events!Contexts, Events!Pairs
<1>6. ASSUME NEW i \in 1..Len(Outline(s))
      PROVE  (Outline(s)[i] = "stream" <=> i = 1) /\ (Outline(s)[i] \in {"document", "root"} <=> i = 2)
  <2>1. CASE i = 1
    BY <2>1, <1>4
  <2>2. CASE i # 1
    <3> DEFINE j == i - 1
    <3>1. j \in 1..Len(s) /\ j + 1 = i
      BY <2>2, <1>2, <1>4
    <3>2. Outline(s)[i] = Context(s[j])
      BY <1>4, <3>1
    <3>3. Context(s[j]) \in {"document", "root"} <=> j = 1
      BY <1>2, <1>3, <3>1
    <3>4. Context(s[j]) # "stream"
      BY DEF Context
    <3> QED BY <2>2, <3>1, <3>2, <3>3, <3>4
  <2> QED BY <2>1, <2>2
<1>7. DOMAIN Outline(s) = 1..Len(Outline(s))
  BY <1>4, LenProperties
<1> QED BY <1>4, <1>5, <1>6, <1>7 DEF Events!Nested

LEMMA ShapeNests == Shape => Events!Nested
<1> SUFFICES ASSUME Shape
             PROVE  Events!Nested
  OBVIOUS
<1>1. CASE Open \in {<<>>, <<"stream">>}
  <2>1. CASE Open = <<>>
    <3>1. <<>> \in Seq(Events!Contexts) /\ DOMAIN <<>> = {}
      BY EmptySeq
    <3> QED BY <2>1, <3>1 DEF Events!Nested
  <2>2. CASE Open = <<"stream">>
    <3> DEFINE one == <<"stream">>
    <3>1. one \in Seq(Events!Contexts)
      BY DEF Events!Contexts
    <3>2. DOMAIN one = {1} /\ one[1] = "stream"
      OBVIOUS
    <3> HIDE DEF one
    <3>3. Open = one
      BY <2>2 DEF one
    <3> QED BY <3>1, <3>2, <3>3 DEF Events!Nested
  <2> QED BY <1>1, <2>1, <2>2
<1>2. CASE state \notin Between /\ state \notin {"NONE", "END"}
  <2>1. /\ stack \in Seq(Places)
        /\ state \in States
        /\ \A i \in 1..Len(stack) : stack[i] = "DOCUMENT_END" <=> i = 1
        /\ state = "DOCUMENT_END" <=> stack = <<>>
    BY <1>2, Standing DEF Shape, StackShape, Idle
  <2>2. CASE ~Awaited
    <3>1. Context(state) \in {"document", "root"} <=> stack = <<>>
      BY <2>1, <2>2, <1>2 DEF Awaited, Context, States, BeforeNode, Between
    <3> QED BY <1>2, <2>1, <2>2, <3>1, Standing, OutlineNests
  <2>3. CASE Awaited
    <3> DEFINE b == Front(stack)
    <3>1. /\ stack # <<>> /\ b \in Seq(Places) /\ Last(stack) \in Places
          /\ Open = Outline(Append(b, state))
      BY <1>2, <2>3, Standing
    <3>2. /\ Len(stack) \in Nat \ {0} /\ Len(b) = Len(stack) - 1
          /\ \A i \in 1..Len(b) : b[i] = stack[i]
      BY <2>1, <3>1, FrontLast
    <3>3. \A i \in 1..Len(b) : b[i] = "DOCUMENT_END" <=> i = 1
      BY <2>1, <3>2
    <3>4. Context(Last(stack)) = Events!Next(Context(state)) /\ Last(stack) = stack[Len(stack)]
      BY <2>3 DEF Shape, NodeShape, Last
    <3>5. b = <<>> <=> Last(stack) = "DOCUMENT_END"
      <4>1. b = <<>> <=> Len(b) = 0
        BY <3>1, EmptySeq
      <4> QED BY <2>1, <3>2, <3>4, <4>1
    <3>6. Context(state) \in {"document", "root"} <=> Last(stack) = "DOCUMENT_END"
      <4>1. Last(stack) = "DOCUMENT_END" <=> Context(Last(stack)) = "root"
        BY <3>1 DEF Context, Places, Collections, States, Idle, BeforeNode
      <4>2. Context(state) # "root"
        BY <2>1, <2>3, <3>1 DEF Context
      <4> QED BY <3>4, <4>1, <4>2, ContextType DEF Events!Next, OpenContexts
    <3> HIDE DEF b
    <3> QED BY <2>1, <3>1, <3>3, <3>5, <3>6, OutlineNests
  <2> QED BY <2>2, <2>3
<1> QED BY <1>1, <1>2 DEF Open, Between

(***************************************************************************)
(* A node that is complete: the parser goes where it was to go after it.   *)
(***************************************************************************)
LEMMA NodeDone ==
  ASSUME Shape, Awaited, Return, node' = NoNode, event' \in {"SCALAR", "ALIAS"}
  PROVE  Shape' /\ Events!Leaf
<1>1. state \notin Idle
  BY DEF Shape, StackShape, NodeShape, Awaited, BeforeNode, Idle, Between
<1>2. /\ stack \in Seq(Places) /\ stack # <<>>
      /\ Front(stack) \in Seq(Places) /\ Last(stack) \in Places
      /\ stack = Append(Front(stack), Last(stack))
      /\ Open = Outline(Append(Front(stack), state))
  BY <1>1, Standing DEF Idle
<1>3. state' = Last(stack) /\ stack' = Front(stack)
  BY <1>2 DEF Return
<1>4. /\ Len(stack) \in Nat \ {0} /\ Len(Front(stack)) = Len(stack) - 1
      /\ \A i \in 1..Len(Front(stack)) : Front(stack)[i] = stack[i]
  BY <1>2, FrontLast
<1>5. ~InNode'
  BY DEF InNode, NoNode
<1>6. state' \notin BeforeNode /\ ~Awaited'
  BY <1>2, <1>3, <1>5 DEF Awaited, Places, Collections, BeforeNode, Idle, Between
<1>7. Open' = Outline(Append(Front(stack), Last(stack)))
  <2>1. ReturnsTo' = Append(stack', state')
    BY <1>6 DEF ReturnsTo
  <2>2. state' \notin Between \union {"NONE", "END"}
    BY <1>2, <1>3 DEF Places, Collections, Idle, Between
  <2> QED BY <2>1, <2>2, <1>3 DEF Open, Between
<1>8. StackShape'
  <2>1. state' = "DOCUMENT_END" <=> Len(stack) = 1
    BY <1>3, <1>4 DEF Shape, StackShape, Last
  <2>2. state' \in Idle <=> stack' = <<>>
    <3>1. Front(stack) = <<>> <=> Len(stack) = 1
      BY <1>2, <1>4, EmptySeq
    <3> QED BY <3>1, <2>1, <1>2, <1>3 DEF Places, Collections, Idle, Between
  <2>3. state' \in States
    BY <1>2, <1>3 DEF Places, Collections, States
  <2>4. \A i \in 1..Len(stack') : stack'[i] = "DOCUMENT_END" <=> i = 1
    BY <1>3, <1>4 DEF Shape, StackShape
  <2> QED BY <1>2, <1>3, <1>6, <2>2, <2>3, <2>4 DEF StackShape, Places
<1>9. NodeShape'
  BY <1>5, <1>6 DEF NodeShape, NoNode, Nodes
<1>10. EventShape'
  BY <1>2, <1>3 DEF EventShape, Places, Collections, Idle
<1>11. Events!Leaf
  <2>1. Context(state) \in TakingNodes /\ Context(Last(stack)) = Events!Next(Context(state))
    <3>1. Context(state) # "pair end" /\ Context(Last(stack)) = Events!Next(Context(state))
      BY DEF Shape, NodeShape
    <3>2. Context(state) # "root"
      BY <1>1 DEF Context, Idle
    <3>3. Context(state) # "stream"
      BY DEF Context
    <3> QED BY <3>1, <3>2, <3>3, ContextType DEF TakingNodes, OpenContexts
  <2>2. state \in States /\ Places \subseteq States
    BY DEF Shape, StackShape, Places, Collections, States
  <2>3. Front(stack) \in Seq(States) /\ Last(stack) \in States
    BY <1>2, <2>2, SeqMonotonic
  <2> QED BY <1>2, <1>7, <2>1, <2>2, <2>3, LeafStep
<1> QED BY <1>8, <1>9, <1>10, <1>11 DEF Shape

(***************************************************************************)
(* A collection that is complete: the parser goes where it was to go after *)
(* it, which is no place that waits for a node.                            *)
(***************************************************************************)
LEMMA CollectionDone ==
  ASSUME Shape, state \in Collections, ~InNode, Return, node' = NoNode,
         \/ event' = "SEQUENCE-END" /\ Context(state) = "sequence"
         \/ event' = "MAPPING-END" /\ Context(state) = "key"
  PROVE  Shape' /\ (Events!SequenceEnd \/ Events!MappingEnd)
<1>1. state \notin Idle /\ ~Awaited
  BY DEF Collections, Awaited, BeforeNode
<1>2. stack # <<>> /\ stack \in Seq(Places) /\ Open = Outline(Append(stack, state))
  <2>1. stack # <<>>
    BY <1>1 DEF Shape, StackShape
  <2> QED BY <1>1, <2>1, Standing DEF Idle
<1>3. /\ Front(stack) \in Seq(Places) /\ Last(stack) \in Places
      /\ stack = Append(Front(stack), Last(stack))
      /\ Len(stack) \in Nat \ {0} /\ Len(Front(stack)) = Len(stack) - 1
      /\ \A i \in 1..Len(Front(stack)) : Front(stack)[i] = stack[i]
  BY <1>2, FrontLast
<1>4. state' = Last(stack) /\ stack' = Front(stack)
  BY <1>2 DEF Return
<1>5. ~InNode'
  BY DEF InNode, NoNode
<1>6. state' \notin BeforeNode /\ ~Awaited'
  BY <1>3, <1>4, <1>5 DEF Awaited, Places, Collections, BeforeNode, Idle, Between
<1>7. Open' = Outline(stack)
  <2>1. ReturnsTo' = Append(stack', state')
    BY <1>6 DEF ReturnsTo
  <2>2. state' \notin Between \union {"NONE", "END"}
    BY <1>3, <1>4 DEF Places, Collections, Idle, Between
  <2> QED BY <2>1, <2>2, <1>3, <1>4 DEF Open, Between
<1>8. StackShape'
  <2>1. state' = "DOCUMENT_END" <=> Len(stack) = 1
    BY <1>3, <1>4 DEF Shape, StackShape, Last
  <2>2. state' \in Idle <=> stack' = <<>>
    <3>1. Front(stack) = <<>> <=> Len(stack) = 1
      BY <1>3, EmptySeq
    <3> QED BY <3>1, <2>1, <1>3, <1>4 DEF Places, Collections, Idle, Between
  <2>3. state' \in States
    BY <1>3, <1>4 DEF Places, Collections, States
  <2>4. \A i \in 1..Len(stack') : stack'[i] = "DOCUMENT_END" <=> i = 1
    BY <1>3, <1>4 DEF Shape, StackShape
  <2> QED BY <1>3, <1>4, <1>6, <2>2, <2>3, <2>4 DEF StackShape, Places
<1>9. NodeShape' /\ EventShape'
  BY <1>3, <1>4, <1>5, <1>6 DEF NodeShape, NoNode, Nodes, EventShape, Places, Collections, Idle
<1>10. Events!SequenceEnd \/ Events!MappingEnd
  <2>1. state \in States /\ Places \subseteq States
    BY DEF Places, Collections, States
  <2>2. stack \in Seq(States)
    BY <1>2, <2>1, SeqMonotonic
  <2> QED BY <1>2, <1>7, <2>1, <2>2, EndStep
<1> QED BY <1>8, <1>9, <1>10 DEF Shape

(***************************************************************************)
(* A node that is left out is an empty scalar.                             *)
(***************************************************************************)
LEMMA EmptyDone ==
  ASSUME Shape, state \in Collections, ~InNode, NEW next \in Collections, Goto(next),
         node' = NoNode, event' = "SCALAR",
         Context(state) # "pair end", Context(next) = Events!Next(Context(state))
  PROVE  Shape' /\ Events!Leaf
<1>1. state \notin Idle /\ ~Awaited /\ ~InNode' /\ ~Awaited' /\ state' = next /\ stack' = stack
  BY DEF Goto, Collections, Awaited, BeforeNode, InNode, NoNode
<1>2. stack \in Seq(Places) /\ Open = Outline(Append(stack, state))
  BY <1>1, Standing DEF Idle
<1>3. Open' = Outline(Append(stack, next))
  <2>1. ReturnsTo' = Append(stack, next)
    BY <1>1 DEF ReturnsTo
  <2> QED BY <2>1, <1>1 DEF Open, Collections, Idle, Between
<1>4. Shape'
  BY <1>1 DEF Shape, StackShape, NodeShape, EventShape, Nodes, NoNode, Collections, Idle, BeforeNode
<1>5. Context(state) \in TakingNodes
  BY ContextType, <1>1 DEF TakingNodes, OpenContexts, Context, Idle
<1>6. stack \in Seq(States) /\ state \in States /\ next \in States
  <2>1. Places \subseteq States
    BY DEF Places, Collections, States
  <2> QED BY <1>2, <2>1, SeqMonotonic DEF Collections
<1> QED BY <1>2, <1>3, <1>4, <1>5, <1>6, LeafStep

(***************************************************************************)
(* Only the bottom of the stack is the end of the document.                *)
(***************************************************************************)
LEMMA BottomStays ==
  ASSUME NEW s \in Seq(Places), s # <<>>, NEW x \in Collections,
         \A i \in 1..Len(s) : s[i] = "DOCUMENT_END" <=> i = 1
  PROVE  \A i \in 1..Len(Append(s, x)) : Append(s, x)[i] = "DOCUMENT_END" <=> i = 1
<1>1. x \in Places /\ x # "DOCUMENT_END"
  BY DEF Places, Collections, Idle
<1>2. Len(s) \in Nat \ {0}
  BY EmptySeq
<1>3. /\ Len(Append(s, x)) = Len(s) + 1
      /\ \A i \in 1..Len(s) : Append(s, x)[i] = s[i]
      /\ Append(s, x)[Len(s) + 1] = x
  BY <1>1, AppendProperties
<1> TAKE i \in 1..Len(Append(s, x))
<1>4. CASE i \in 1..Len(s)
  BY <1>3, <1>4
<1>5. CASE i \notin 1..Len(s)
  <2>1. i = Len(s) + 1 /\ i # 1
    BY <1>2, <1>3, <1>5
  <2> QED BY <1>1, <1>3, <2>1
<1> QED BY <1>4, <1>5

(***************************************************************************)
(* A node is to be read in a collection.                                   *)
(***************************************************************************)
LEMMA NodeCalled ==
  ASSUME Shape, state \in Collections, ~InNode, NEW in \in {"block", "flow"}, NEW then \in Collections,
         Node(in, <<then>>),
         Context(state) # "pair end", Context(then) = Events!Next(Context(state))
  PROVE  Shape' /\ UNCHANGED Events!evars
<1>1. /\ state \notin Idle /\ state \notin BeforeNode /\ ~Awaited /\ state' = state /\ event' = event
      /\ node' = [NoNode EXCEPT !.in = in] /\ stack' = stack \o <<then>>
  BY DEF Node, Quiet, Collections, Awaited, BeforeNode
<1>2. stack \in Seq(Places) /\ Open = Outline(Append(stack, state))
  BY <1>1, Standing DEF Idle
<1>3. /\ stack' = Append(stack, then) /\ stack' \in Seq(Places) /\ stack' # <<>>
      /\ Len(stack') = Len(stack) + 1 /\ Len(stack) \in Nat
      /\ Last(stack') = then /\ Front(stack') = stack
  <2>1. then \in Places
    BY DEF Places
  <2>2. /\ Append(stack, then) \in Seq(Places) /\ Append(stack, then) # <<>>
        /\ Len(Append(stack, then)) = Len(stack) + 1
        /\ Last(Append(stack, then)) = then /\ Front(Append(stack, then)) = stack
        /\ stack \o <<then>> = Append(stack, then)
    BY <1>2, <2>1, AppendFacts
  <2>3. Len(stack) \in Nat
    BY <1>2, LenProperties
  <2> QED BY <1>1, <2>2, <2>3
<1>4. InNode' /\ Awaited' /\ node' \in Nodes
  BY <1>1 DEF InNode, Awaited, NoNode, Nodes
<1>6. Open' = Open
  <2>1. ReturnsTo' = Append(stack, state)
    BY <1>1, <1>3, <1>4 DEF ReturnsTo
  <2> QED BY <2>1, <1>1, <1>2 DEF Open, Idle, Between
<1>7. StackShape'
  <2>1. stack # <<>>
    BY <1>1 DEF Shape, StackShape
  <2>2. \A i \in 1..Len(stack) : stack[i] = "DOCUMENT_END" <=> i = 1
    BY DEF Shape, StackShape
  <2>3. \A i \in 1..Len(Append(stack, then)) : Append(stack, then)[i] = "DOCUMENT_END" <=> i = 1
    BY <1>2, <2>1, <2>2, BottomStays
  <2> QED BY <1>1, <1>3, <2>1, <2>3 DEF Shape, StackShape, Places
<1>8. NodeShape' /\ EventShape'
  BY <1>1, <1>3, <1>4 DEF NodeShape, EventShape, Shape, Idle
<1> QED BY <1>1, <1>6, <1>7, <1>8 DEF Shape, Events!evars

(***************************************************************************)
(* The node that is read is a collection: its first state takes over, and  *)
(* the state to go to after the node stays on the stack.                   *)
(***************************************************************************)
LEMMA CollectionStarts ==
  ASSUME Shape, Awaited, NEW first \in Collections, Goto(first), node' = NoNode,
         \/ event' = "SEQUENCE-START" /\ Context(first) = "sequence"
         \/ event' = "MAPPING-START" /\ Context(first) = "key"
  PROVE  Shape' /\ (Events!SequenceStart \/ Events!MappingStart)
<1>1. state \notin Idle
  BY DEF Shape, StackShape, NodeShape, Awaited, BeforeNode, Idle, Between
<1>2. /\ stack \in Seq(Places) /\ stack # <<>>
      /\ Front(stack) \in Seq(Places) /\ Last(stack) \in Places
      /\ stack = Append(Front(stack), Last(stack))
      /\ Open = Outline(Append(Front(stack), state))
  BY <1>1, Standing DEF Idle
<1>3. state' = first /\ stack' = stack /\ ~InNode' /\ ~Awaited'
  BY DEF Goto, InNode, NoNode, Awaited, Collections, BeforeNode
<1>4. Open' = Outline(Append(Append(Front(stack), Last(stack)), first))
  <2>1. ReturnsTo' = Append(stack, first)
    BY <1>3 DEF ReturnsTo
  <2>2. Open' = Outline(Append(stack, first))
    BY <2>1, <1>3 DEF Open, Collections, Idle, Between
  <2> QED BY <2>2, <1>2
<1>5. Shape'
  BY <1>1, <1>2, <1>3 DEF Shape, StackShape, NodeShape, EventShape, Nodes, NoNode, Collections, Idle, BeforeNode
<1>6. Context(state) \in TakingNodes /\ Context(Last(stack)) = Events!Next(Context(state))
  <2>1. Context(state) # "pair end" /\ Context(Last(stack)) = Events!Next(Context(state))
    BY DEF Shape, NodeShape
  <2>2. Context(state) # "root" /\ Context(state) # "stream"
    BY <1>1 DEF Context, Idle
  <2> QED BY <2>1, <2>2, ContextType DEF TakingNodes, OpenContexts
<1>7. Front(stack) \in Seq(States) /\ Last(stack) \in States /\ state \in States /\ first \in States
  <2>1. Places \subseteq States
    BY DEF Places, Collections, States
  <2> QED BY <1>2, <2>1, SeqMonotonic DEF Shape, StackShape, Collections
<1> QED BY <1>2, <1>4, <1>5, <1>6, <1>7, StartStep

(***************************************************************************)
(* Nothing is given: a token is fetched or taken, or the text is refused.  *)
(***************************************************************************)
LEMMA NothingGiven ==
  ASSUME Shape, state' = state, stack' = stack, node' \in Nodes, node'.in = node.in,
         event' = event \/ event' = "error"
  PROVE  Shape' /\ [Events!Step]_Events!evars
<1>1. InNode' = InNode /\ Awaited' = Awaited
  BY DEF InNode, Awaited
<1>2. Open' = Open
  BY <1>1 DEF Open, ReturnsTo
<1>3. Shape'
  BY <1>1 DEF Shape, StackShape, NodeShape, EventShape
<1> QED BY <1>2, <1>3 DEF Events!evars, Events!Step, Events!Fail

LEMMA RefusedIsFail ==
  ASSUME Shape, Refuse
  PROVE  Shape' /\ [Events!Step]_Events!evars
BY NothingGiven DEF Refuse, parser, Shape, NodeShape

LEMMA TakeGivesNothing ==
  ASSUME Shape, NEW token, Take(token)
  PROVE  Shape' /\ [Events!Step]_Events!evars
BY NothingGiven DEF Take, Quiet, Shape, NodeShape

LEMMA FetchGivesNothing ==
  ASSUME Shape, FetchStep
  PROVE  Shape' /\ [Events!Step]_Events!evars
<1>1. ASSUME NEW result, NEW lexemes, NEW more, Fetched(result, lexemes, more)
      PROVE  UNCHANGED parser /\ (event' = event \/ event' = "error")
  BY <1>1 DEF Fetched
<1>2. UNCHANGED parser /\ (event' = event \/ event' = "error")
  BY <1>1 DEF FetchStep, FetchStreamStart, SkipComment, FetchToken, GrowText, EndText
<1> QED BY <1>2, NothingGiven DEF parser, Shape, NodeShape

(***************************************************************************)
(* The steps of a collection, and those of a node.                         *)
(***************************************************************************)
InShape == Shape' /\ [Events!Step]_Events!evars

LEMMA TourStep ==
  /\ Events!Leaf => [Events!Step]_Events!evars
  /\ (Events!SequenceStart \/ Events!MappingStart) => [Events!Step]_Events!evars
  /\ (Events!SequenceEnd \/ Events!MappingEnd) => [Events!Step]_Events!evars
BY DEF Events!Step, Events!Tour

LEMMA ReturnAfterNode ==
  ASSUME Shape, Awaited, Return, Emit("SCALAR") \/ Emit("ALIAS")
  PROVE  InShape
BY NodeDone, TourStep DEF Emit, InShape

LEMMA EndGiven ==
  ASSUME Shape, state \in Collections, ~InNode, Return,
         \/ Emit("SEQUENCE-END") /\ Context(state) = "sequence"
         \/ Emit("MAPPING-END") /\ Context(state) = "key"
  PROVE  InShape
BY CollectionDone, TourStep DEF Emit, InShape

LEMMA EmptyGiven ==
  ASSUME Shape, state \in Collections, ~InNode, NEW next \in Collections, EmptyScalar(next),
         Context(state) # "pair end", Context(next) = Events!Next(Context(state))
  PROVE  InShape
BY EmptyDone, TourStep DEF EmptyScalar, Give, Emit, InShape

LEMMA NodeAsked ==
  ASSUME Shape, state \in Collections, ~InNode, NEW in \in {"block", "flow"}, NEW then \in Collections,
         Node(in, <<then>>),
         Context(state) # "pair end", Context(then) = Events!Next(Context(state))
  PROVE  InShape
BY NodeCalled DEF InShape

LEMMA BlockSequenceStep ==
  ASSUME Shape, BlockSequence
  PROVE  InShape
<1>1. /\ ~InNode
      /\ state \in {"BLOCK_SEQUENCE_FIRST_ENTRY", "BLOCK_SEQUENCE_ENTRY", "INDENTLESS_SEQUENCE_ENTRY"}
  BY DEF BlockSequence, At
<1>2. /\ state \in Collections /\ "BLOCK_SEQUENCE_ENTRY" \in Collections
      /\ Context(state) = "sequence" /\ Context("BLOCK_SEQUENCE_ENTRY") = "sequence"
      /\ Events!Next("sequence") = "sequence"
  BY <1>1 DEF Collections, States, Idle, Between, BeforeNode, Context, Events!Next
<1>3. \/ EmptyScalar("BLOCK_SEQUENCE_ENTRY") \/ Node("block", <<state>>)
      \/ Take(Token) \/ Refuse
      \/ Return /\ Give("SEQUENCE-END")
  BY DEF BlockSequence
<1>4. CASE EmptyScalar("BLOCK_SEQUENCE_ENTRY")
  BY <1>1, <1>2, <1>4, EmptyGiven
<1>5. CASE Node("block", <<state>>)
  BY <1>1, <1>2, <1>5, NodeAsked
<1>6. CASE Take(Token) \/ Refuse
  BY <1>6, TakeGivesNothing, RefusedIsFail DEF InShape
<1>7. CASE Return /\ Give("SEQUENCE-END")
  BY <1>1, <1>2, <1>7, EndGiven DEF Give
<1> QED BY <1>3, <1>4, <1>5, <1>6, <1>7

LEMMA BlockMappingKeyStep ==
  ASSUME Shape, BlockMappingKey
  PROVE  InShape
<1>1. ~InNode /\ state \in {"BLOCK_MAPPING_FIRST_KEY", "BLOCK_MAPPING_KEY"}
  BY DEF BlockMappingKey, At
<1>2. /\ state \in Collections /\ "BLOCK_MAPPING_VALUE" \in Collections
      /\ Context(state) = "key" /\ Context("BLOCK_MAPPING_VALUE") = "value"
      /\ Events!Next("key") = "value"
  BY <1>1 DEF Collections, States, Idle, Between, BeforeNode, Context, Events!Next
<1>3. \/ EmptyScalar("BLOCK_MAPPING_VALUE") \/ Node("block", <<"BLOCK_MAPPING_VALUE">>)
      \/ Take(Token) \/ Refuse
      \/ Return /\ Give("MAPPING-END")
  BY DEF BlockMappingKey
<1>4. CASE EmptyScalar("BLOCK_MAPPING_VALUE")
  BY <1>1, <1>2, <1>4, EmptyGiven
<1>5. CASE Node("block", <<"BLOCK_MAPPING_VALUE">>)
  BY <1>1, <1>2, <1>5, NodeAsked
<1>6. CASE Take(Token) \/ Refuse
  BY <1>6, TakeGivesNothing, RefusedIsFail DEF InShape
<1>7. CASE Return /\ Give("MAPPING-END")
  BY <1>1, <1>2, <1>7, EndGiven DEF Give
<1> QED BY <1>3, <1>4, <1>5, <1>6, <1>7

LEMMA BlockMappingValueStep ==
  ASSUME Shape, BlockMappingValue
  PROVE  InShape
<1>1. ~InNode /\ state = "BLOCK_MAPPING_VALUE"
  BY DEF BlockMappingValue, At
<1>2. /\ state \in Collections /\ "BLOCK_MAPPING_KEY" \in Collections
      /\ Context(state) = "value" /\ Context("BLOCK_MAPPING_KEY") = "key"
      /\ Events!Next("value") = "key"
  BY <1>1 DEF Collections, States, Idle, Between, BeforeNode, Context, Events!Next
<1>3. \/ EmptyScalar("BLOCK_MAPPING_KEY") \/ Node("block", <<"BLOCK_MAPPING_KEY">>)
      \/ Take(Token)
  BY DEF BlockMappingValue
<1>4. CASE EmptyScalar("BLOCK_MAPPING_KEY")
  BY <1>1, <1>2, <1>4, EmptyGiven
<1>5. CASE Node("block", <<"BLOCK_MAPPING_KEY">>)
  BY <1>1, <1>2, <1>5, NodeAsked
<1>6. CASE Take(Token)
  BY <1>6, TakeGivesNothing DEF InShape
<1> QED BY <1>3, <1>4, <1>5, <1>6

(***************************************************************************)
(* A KEY in a flow sequence starts a mapping that takes the place of the   *)
(* sequence until its pair is complete.                                    *)
(***************************************************************************)
LEMMA PairStep ==
  ASSUME Shape, ~InNode, NEW next \in Collections, Goto(next),
         \/ /\ state \in {"FLOW_SEQUENCE_FIRST_ENTRY", "FLOW_SEQUENCE_ENTRY"}
            /\ next = "FLOW_SEQUENCE_ENTRY_MAPPING_KEY" /\ Give("MAPPING-START")
         \/ /\ state = "FLOW_SEQUENCE_ENTRY_MAPPING_END"
            /\ next = "FLOW_SEQUENCE_ENTRY" /\ Give("MAPPING-END")
  PROVE  InShape
<1>1. /\ ~Awaited /\ ~InNode' /\ ~Awaited' /\ state' = next /\ stack' = stack /\ node' = NoNode
      /\ state \in Collections
  BY DEF Goto, Give, Emit, Collections, States, Idle, Between, BeforeNode, Awaited, InNode, NoNode
<1>2. stack \in Seq(States) /\ state \in States /\ next \in States /\ Open = Outline(Append(stack, state))
  <2>1. Places \subseteq States
    BY DEF Places, Collections, States
  <2>2. stack \in Seq(Places) /\ Open = Outline(Append(stack, state))
    BY <1>1, Standing DEF Collections, Idle, Between
  <2> QED BY <1>1, <2>1, <2>2, SeqMonotonic DEF Collections
<1>3. Open' = Outline(Append(stack, next))
  <2>1. ReturnsTo' = Append(stack, next)
    BY <1>1 DEF ReturnsTo
  <2> QED BY <2>1, <1>1 DEF Open, Collections, Idle, Between
<1>4. Shape'
  BY <1>1 DEF Shape, StackShape, NodeShape, EventShape, Nodes, NoNode, Collections, Idle, BeforeNode
<1>5. /\ Outline(Append(stack, state)) # <<>>
      /\ Last(Outline(Append(stack, state))) = Context(state)
      /\ Front(Outline(Append(stack, state))) = Outline(stack)
      /\ Outline(stack) \o <<Context(next)>> = Outline(Append(stack, next))
  <2>1. /\ Outline(Append(stack, state)) # <<>>
        /\ Last(Outline(Append(stack, state))) = Context(state)
        /\ Front(Outline(Append(stack, state))) = Outline(stack)
    BY <1>2, OutlineFacts
  <2>2. Outline(stack) \o <<Context(next)>> = Outline(Append(stack, next))
    BY <1>2, OutlineFacts
  <2> QED BY <2>1, <2>2
<1>6. /\ Open # <<>> /\ Events!Last(Open) = Context(state)
      /\ Open' = Events!Front(Open) \o <<Context(next)>>
  BY <1>2, <1>3, <1>5, SameOperators
<1>7. Events!PairStart \/ Events!PairEnd
  BY <1>6 DEF Events!PairStart, Events!PairEnd, Events!Emit, Context, Give, Emit
<1> QED BY <1>4, <1>7 DEF InShape, Events!Step

LEMMA FlowSequenceStep ==
  ASSUME Shape, FlowSequence
  PROVE  InShape
<1>1. ~InNode /\ state \in {"FLOW_SEQUENCE_FIRST_ENTRY", "FLOW_SEQUENCE_ENTRY"}
  BY DEF FlowSequence, At
<1>2. /\ state \in Collections /\ "FLOW_SEQUENCE_ENTRY" \in Collections
      /\ "FLOW_SEQUENCE_ENTRY_MAPPING_KEY" \in Collections
      /\ Context(state) = "sequence" /\ Context("FLOW_SEQUENCE_ENTRY") = "sequence"
      /\ Events!Next("sequence") = "sequence"
  BY <1>1 DEF Collections, States, Idle, Between, BeforeNode, Context, Events!Next
<1>3. \/ Goto("FLOW_SEQUENCE_ENTRY_MAPPING_KEY") /\ Give("MAPPING-START")
      \/ Node("flow", <<"FLOW_SEQUENCE_ENTRY">>)
      \/ Take(Token) \/ Refuse
      \/ Return /\ Give("SEQUENCE-END")
  BY DEF FlowSequence
<1>4. CASE Goto("FLOW_SEQUENCE_ENTRY_MAPPING_KEY") /\ Give("MAPPING-START")
  BY <1>1, <1>2, <1>4, PairStep
<1>5. CASE Node("flow", <<"FLOW_SEQUENCE_ENTRY">>)
  BY <1>1, <1>2, <1>5, NodeAsked
<1>6. CASE Take(Token) \/ Refuse
  BY <1>6, TakeGivesNothing, RefusedIsFail DEF InShape
<1>7. CASE Return /\ Give("SEQUENCE-END")
  BY <1>1, <1>2, <1>7, EndGiven DEF Give
<1> QED BY <1>3, <1>4, <1>5, <1>6, <1>7

LEMMA FlowSequencePairStep ==
  ASSUME Shape, FlowSequenceKey \/ FlowSequenceValue \/ FlowSequencePairEnd
  PROVE  InShape
<1>1. /\ {"FLOW_SEQUENCE_ENTRY", "FLOW_SEQUENCE_ENTRY_MAPPING_KEY", "FLOW_SEQUENCE_ENTRY_MAPPING_VALUE",
          "FLOW_SEQUENCE_ENTRY_MAPPING_END"} \subseteq Collections
      /\ Context("FLOW_SEQUENCE_ENTRY_MAPPING_KEY") = "pair key"
      /\ Context("FLOW_SEQUENCE_ENTRY_MAPPING_VALUE") = "pair value"
      /\ Context("FLOW_SEQUENCE_ENTRY_MAPPING_END") = "pair end"
      /\ Events!Next("pair key") = "pair value" /\ Events!Next("pair value") = "pair end"
  BY DEF Collections, States, Idle, Between, BeforeNode, Context, Events!Next
<1>2. CASE FlowSequenceKey
  <2> DEFINE next == "FLOW_SEQUENCE_ENTRY_MAPPING_VALUE"
  <2>1. ~InNode /\ state = "FLOW_SEQUENCE_ENTRY_MAPPING_KEY" /\ (EmptyScalar(next) \/ Node("flow", <<next>>))
    BY <1>2 DEF FlowSequenceKey, At
  <2>2. CASE EmptyScalar(next)
    BY <1>1, <2>1, <2>2, EmptyGiven
  <2>3. CASE Node("flow", <<next>>)
    BY <1>1, <2>1, <2>3, NodeAsked
  <2> QED BY <2>1, <2>2, <2>3
<1>3. CASE FlowSequenceValue
  <2> DEFINE next == "FLOW_SEQUENCE_ENTRY_MAPPING_END"
  <2>1. /\ ~InNode /\ state = "FLOW_SEQUENCE_ENTRY_MAPPING_VALUE"
        /\ Take(Token) \/ EmptyScalar(next) \/ Node("flow", <<next>>)
    BY <1>3 DEF FlowSequenceValue, At
  <2>2. CASE EmptyScalar(next)
    BY <1>1, <2>1, <2>2, EmptyGiven
  <2>3. CASE Node("flow", <<next>>)
    BY <1>1, <2>1, <2>3, NodeAsked
  <2>4. CASE Take(Token)
    BY <2>4, TakeGivesNothing DEF InShape
  <2> QED BY <2>1, <2>2, <2>3, <2>4
<1>4. CASE FlowSequencePairEnd
  BY <1>1, <1>4, PairStep DEF FlowSequencePairEnd, At
<1> QED BY <1>2, <1>3, <1>4

LEMMA FlowMappingStep ==
  ASSUME Shape, FlowMappingKey \/ FlowMappingValue \/ FlowMappingEmptyValue
  PROVE  InShape
<1>1. /\ {"FLOW_MAPPING_FIRST_KEY", "FLOW_MAPPING_KEY", "FLOW_MAPPING_VALUE",
          "FLOW_MAPPING_EMPTY_VALUE"} \subseteq Collections
      /\ Context("FLOW_MAPPING_FIRST_KEY") = "key" /\ Context("FLOW_MAPPING_KEY") = "key"
      /\ Context("FLOW_MAPPING_VALUE") = "value" /\ Context("FLOW_MAPPING_EMPTY_VALUE") = "value"
      /\ Events!Next("key") = "value" /\ Events!Next("value") = "key"
  BY DEF Collections, States, Idle, Between, BeforeNode, Context, Events!Next
<1>2. CASE FlowMappingKey
  <2>1. /\ ~InNode /\ state \in {"FLOW_MAPPING_FIRST_KEY", "FLOW_MAPPING_KEY"}
        /\ \/ EmptyScalar("FLOW_MAPPING_VALUE") \/ Node("flow", <<"FLOW_MAPPING_VALUE">>)
           \/ Node("flow", <<"FLOW_MAPPING_EMPTY_VALUE">>)
           \/ Take(Token) \/ Refuse
           \/ Return /\ Give("MAPPING-END")
    BY <1>2 DEF FlowMappingKey, At
  <2>2. CASE EmptyScalar("FLOW_MAPPING_VALUE")
    BY <1>1, <2>1, <2>2, EmptyGiven
  <2>3. CASE Node("flow", <<"FLOW_MAPPING_VALUE">>)
    BY <1>1, <2>1, <2>3, NodeAsked
  <2>4. CASE Node("flow", <<"FLOW_MAPPING_EMPTY_VALUE">>)
    BY <1>1, <2>1, <2>4, NodeAsked
  <2>5. CASE Take(Token) \/ Refuse
    BY <2>5, TakeGivesNothing, RefusedIsFail DEF InShape
  <2>6. CASE Return /\ Give("MAPPING-END")
    BY <1>1, <2>1, <2>6, EndGiven DEF Give
  <2> QED BY <2>1, <2>2, <2>3, <2>4, <2>5, <2>6
<1>3. CASE FlowMappingValue
  <2>1. /\ ~InNode /\ state = "FLOW_MAPPING_VALUE"
        /\ Take(Token) \/ EmptyScalar("FLOW_MAPPING_KEY") \/ Node("flow", <<"FLOW_MAPPING_KEY">>)
    BY <1>3 DEF FlowMappingValue, At
  <2>2. CASE EmptyScalar("FLOW_MAPPING_KEY")
    BY <1>1, <2>1, <2>2, EmptyGiven
  <2>3. CASE Node("flow", <<"FLOW_MAPPING_KEY">>)
    BY <1>1, <2>1, <2>3, NodeAsked
  <2>4. CASE Take(Token)
    BY <2>4, TakeGivesNothing DEF InShape
  <2> QED BY <2>1, <2>2, <2>3, <2>4
<1>4. CASE FlowMappingEmptyValue
  BY <1>1, <1>4, EmptyGiven DEF FlowMappingEmptyValue, At
<1> QED BY <1>2, <1>3, <1>4

(***************************************************************************)
(* fy_parse_node                                                           *)
(***************************************************************************)
LEMMA NodeContentStep ==
  ASSUME Shape, NodeContent
  PROVE  InShape
<1>1. Awaited
  BY DEF NodeContent, Awaited
<1>2. \/ Refuse
      \/ Return /\ Give("SCALAR")
      \/ Goto("INDENTLESS_SEQUENCE_ENTRY") /\ Give("SEQUENCE-START")
      \/ \E start \in {"FLOW-SEQUENCE-START", "FLOW-MAPPING-START", "BLOCK-SEQUENCE-START", "BLOCK-MAPPING-START"} :
           /\ Goto(First(start))
           /\ Give(IF start \in {"FLOW-SEQUENCE-START", "BLOCK-SEQUENCE-START"}
                     THEN "SEQUENCE-START" ELSE "MAPPING-START")
  BY DEF NodeContent
<1>3. CASE Refuse
  BY <1>3, RefusedIsFail DEF InShape
<1>4. CASE Return /\ Give("SCALAR")
  BY <1>1, <1>4, ReturnAfterNode DEF Give
<1>5. CASE Goto("INDENTLESS_SEQUENCE_ENTRY") /\ Give("SEQUENCE-START")
  <2>1. /\ "INDENTLESS_SEQUENCE_ENTRY" \in Collections
        /\ Context("INDENTLESS_SEQUENCE_ENTRY") = "sequence"
    BY DEF Collections, States, Idle, Between, BeforeNode, Context
  <2> QED BY <1>1, <1>5, <2>1, CollectionStarts, TourStep DEF Give, Emit, InShape
<1>6. ASSUME NEW start \in {"FLOW-SEQUENCE-START", "FLOW-MAPPING-START",
                            "BLOCK-SEQUENCE-START", "BLOCK-MAPPING-START"},
             Goto(First(start)),
             Give(IF start \in {"FLOW-SEQUENCE-START", "BLOCK-SEQUENCE-START"}
                    THEN "SEQUENCE-START" ELSE "MAPPING-START")
      PROVE  InShape
  <2>1. /\ First(start) \in Collections
        /\ Context(First(start)) = IF start \in {"FLOW-SEQUENCE-START", "BLOCK-SEQUENCE-START"}
                                     THEN "sequence" ELSE "key"
    BY DEF First, Collections, States, Idle, Between, BeforeNode, Context
  <2>2. \/ event' = "SEQUENCE-START" /\ Context(First(start)) = "sequence"
        \/ event' = "MAPPING-START" /\ Context(First(start)) = "key"
    BY <1>6, <2>1 DEF Give, Emit
  <2>3. node' = NoNode
    BY <1>6 DEF Give, Emit
  <2> QED BY <1>1, <1>6, <2>1, <2>2, <2>3, CollectionStarts, TourStep DEF InShape
<1> QED BY <1>2, <1>3, <1>4, <1>5, <1>6

LEMMA NodeStep ==
  ASSUME Shape, NodeAlias \/ NodeProperty \/ NodeContent
  PROVE  InShape
<1>1. CASE NodeAlias
  <2>1. Awaited
    BY <1>1 DEF NodeAlias, NodeAt, Awaited
  <2>2. Refuse \/ (Return /\ Give("ALIAS"))
    BY <1>1 DEF NodeAlias
  <2>3. CASE Refuse
    BY <2>3, RefusedIsFail DEF InShape
  <2>4. CASE Return /\ Give("ALIAS")
    BY <2>1, <2>4, ReturnAfterNode DEF Give
  <2> QED BY <2>2, <2>3, <2>4
<1>2. CASE NodeProperty
  <2>1. /\ state' = state /\ stack' = stack /\ event' = event
        /\ \/ node' = [node EXCEPT !.anchor = TRUE]
           \/ Token \in {"TAG", "TAG-HANDLE"} /\ node' = [node EXCEPT !.tag = Token]
    BY <1>2 DEF NodeProperty, Quiet, NodeAt
  <2>2. node' \in Nodes /\ node'.in = node.in
    BY <2>1 DEF Shape, NodeShape, Nodes
  <2> QED BY <2>1, <2>2, NothingGiven DEF InShape
<1> QED BY <1>1, <1>2, NodeContentStep

(***************************************************************************)
(* The stream, and the start and the end of a document.                    *)
(***************************************************************************)
LEMMA IdleFacts ==
  ASSUME Shape, ~InNode, state \in Idle
  PROVE  stack = <<>> /\ ~Awaited
BY DEF Shape, StackShape, Awaited, Idle, Between, BeforeNode

LEMMA IdleShape ==
  ASSUME state' \in Idle, stack' = <<>>, node' = NoNode,
         state' = "NONE" => event' \in {"none", "reset", "error"}
  PROVE  Shape' /\ ~Awaited'
<1>1. ~InNode' /\ ~Awaited' /\ node' \in Nodes
  BY DEF InNode, NoNode, Nodes, Awaited, Idle, Between
<1>2. /\ state' \in States /\ state' \notin BeforeNode
      /\ stack' \in Seq(Collections \union {"DOCUMENT_END"}) /\ Len(stack') = 0
  BY DEF States, Idle, Between, BeforeNode
<1>3. StackShape'
  BY <1>2 DEF StackShape
<1> QED BY <1>1, <1>3 DEF Shape, NodeShape, EventShape

LEMMA StreamStep ==
  ASSUME Shape, StreamStartEvent \/ ExtraDocumentEnd \/ DirectiveToken \/ StreamEndEvent
  PROVE  InShape
<1>1. ~InNode /\ state \in Between \union {"NONE"} /\ stack = <<>>
  <2>1. ~InNode /\ state \in Between \union {"NONE"}
    BY DEF StreamStartEvent, ExtraDocumentEnd, DirectiveToken, StreamEndEvent, BetweenDocuments, At, Between
  <2> QED BY <2>1, IdleFacts DEF Idle
<1>2. CASE Refuse
  BY <1>2, RefusedIsFail DEF InShape
<1>3. CASE ~Refuse /\ StreamStartEvent
  <2>1. /\ state = "NONE" /\ state' = "IMPLICIT_DOCUMENT_START" /\ stack' = <<>>
        /\ node' = NoNode /\ event' = "STREAM-START"
    BY <1>3 DEF StreamStartEvent, At, Give, Emit
  <2>2. Open = <<>> /\ Open' = <<"stream">>
    BY <2>1 DEF Open
  <2>3. Shape'
    BY <2>1, IdleShape DEF Idle, Between
  <2> QED BY <2>1, <2>2, <2>3 DEF InShape, Events!Step, Events!Tour, Events!StreamStart, Events!Emit
<1>4. CASE ExtraDocumentEnd \/ (~Refuse /\ DirectiveToken)
  <2>1. state' = state /\ stack' = stack /\ node' = node /\ event' = event
    BY <1>4 DEF ExtraDocumentEnd, DirectiveToken, Quiet
  <2> QED BY <2>1, NothingGiven DEF InShape, Shape, NodeShape
<1>5. CASE ~Refuse /\ StreamEndEvent
  <2>1. /\ state \in Between /\ state' = "END" /\ stack' = <<>>
        /\ node' = NoNode /\ event' = "STREAM-END"
    BY <1>1, <1>5 DEF StreamEndEvent, BetweenDocuments, At, Between, Goto, Give, Emit
  <2>2. Open = <<"stream">> /\ Open' = <<>>
    BY <2>1 DEF Open, Between
  <2>3. Shape'
    BY <2>1, IdleShape DEF Idle, Between
  <2>4. Open # <<>> /\ Events!Last(Open) = "stream" /\ Open' = Events!Front(Open)
    <3>1. <<"stream">> = Append(<<>>, "stream") /\ <<>> \in Seq({"stream"})
      OBVIOUS
    <3>2. Append(<<>>, "stream") # <<>>
      BY <3>1, AppendFacts
    <3>3. Last(Append(<<>>, "stream")) = "stream" /\ Front(Append(<<>>, "stream")) = <<>>
      BY <3>1, AppendFacts
    <3> QED BY <2>2, <3>1, <3>2, <3>3, SameOperators
  <2>5. Events!StreamEnd
    BY <2>1, <2>4 DEF Events!StreamEnd, Events!Close, Events!Emit
  <2> QED BY <2>3, <2>5 DEF InShape, Events!Step, Events!Tour
<1> QED BY <1>2, <1>3, <1>4, <1>5

LEMMA DocumentStartStep ==
  ASSUME Shape, DocumentStart
  PROVE  InShape
<1>1. ~InNode /\ state \in Between /\ stack = <<>>
  <2>1. ~InNode /\ state \in Between
    BY DEF DocumentStart, BetweenDocuments, At, Between
  <2> QED BY <2>1, IdleFacts DEF Idle
<1>2. CASE Refuse
  BY <1>2, RefusedIsFail DEF InShape
<1>3. CASE ~Refuse
  <2>1. /\ state' \in BeforeNode /\ stack' = Append(<<>>, "DOCUMENT_END")
        /\ node' = NoNode /\ event' = "DOCUMENT-START"
    BY <1>1, <1>3 DEF DocumentStart, Emit, BeforeNode
  <2>2. <<>> \in Seq(Places) /\ "DOCUMENT_END" \in Places /\ Places \subseteq States /\ state' \in States
    BY <2>1 DEF Places, Collections, States, BeforeNode
  <2>3. /\ stack' \in Seq(Places) /\ stack' # <<>> /\ Len(stack') = 1
        /\ Last(stack') = "DOCUMENT_END" /\ Front(stack') = <<>>
        /\ stack'[1] = "DOCUMENT_END"
    <3>1. /\ Append(<<>>, "DOCUMENT_END") \in Seq(Places) /\ Append(<<>>, "DOCUMENT_END") # <<>>
          /\ Len(Append(<<>>, "DOCUMENT_END")) = Len(<<>>) + 1
          /\ Last(Append(<<>>, "DOCUMENT_END")) = "DOCUMENT_END"
          /\ Front(Append(<<>>, "DOCUMENT_END")) = <<>>
      BY <2>2, AppendFacts
    <3>2. Len(<<>>) = 0
      OBVIOUS
    <3> QED BY <2>1, <3>1, <3>2 DEF Last
  <2>4. ~InNode' /\ Awaited' /\ node' \in Nodes
    BY <2>1 DEF InNode, NoNode, Awaited, BeforeNode, Nodes
  <2>5. Context(state') = "document" /\ Context("DOCUMENT_END") = "root" /\ Events!Next("document") = "root"
    BY <2>1 DEF BeforeNode, Context, Events!Next
  <2>6. Shape'
    <3>1. StackShape'
      <4>1. \A i \in 1..Len(stack') : stack'[i] = "DOCUMENT_END" <=> i = 1
        BY <2>3
      <4>2. state' \notin Idle
        BY <2>1 DEF BeforeNode, Idle, Between
      <4> QED BY <2>2, <2>3, <4>1, <4>2 DEF StackShape, Places
    <3>2. state' \notin Idle
      BY <2>1 DEF BeforeNode, Idle, Between
    <3> QED BY <2>3, <2>4, <2>5, <3>1, <3>2 DEF Shape, NodeShape, EventShape, Idle
  <2>7. Open = <<"stream">> /\ Open' = Outline(Append(<<>>, state'))
    <3>1. ReturnsTo' = Append(<<>>, state')
      BY <2>3, <2>4 DEF ReturnsTo
    <3> QED BY <1>1, <2>1, <3>1 DEF Open, Between, BeforeNode
  <2>8. Outline(<<>>) = <<"stream">>
    <3>1. [i \in DOMAIN <<>> |-> Context(<<>>[i])] = <<>>
      OBVIOUS
    <3> QED BY <3>1 DEF Outline
  <2>9. Open' = Append(Open, "document")
    <3>1. Outline(Append(<<>>, state')) = Append(Outline(<<>>), Context(state'))
      <4> DEFINE x == state'
      <4>1. x \in States /\ <<>> \in Seq(States)
        BY <2>2
      <4> HIDE DEF x
      <4>2. Outline(Append(<<>>, x)) = Append(Outline(<<>>), Context(x))
        BY <4>1, OutlineAppend
      <4> QED BY <4>2 DEF x
    <3> QED BY <2>5, <2>7, <2>8, <3>1
  <2> QED BY <2>1, <2>6, <2>7, <2>9 DEF InShape, Events!Step, Events!Tour, Events!DocumentStart, Events!Emit
<1> QED BY <1>2, <1>3

LEMMA DocumentEndStep ==
  ASSUME Shape, DocumentEnd
  PROVE  InShape
<1>1. ~InNode /\ state = "DOCUMENT_END" /\ stack = <<>> /\ ~Awaited
  <2>1. ~InNode /\ state = "DOCUMENT_END"
    BY DEF DocumentEnd, At
  <2> QED BY <2>1, IdleFacts DEF Idle
<1>2. CASE Refuse
  BY <1>2, RefusedIsFail DEF InShape
<1>3. CASE ~Refuse
  <2>1. /\ state' = "DOCUMENT_START" /\ stack' = <<>>
        /\ node' = NoNode /\ event' = "DOCUMENT-END"
    BY <1>1, <1>3 DEF DocumentEnd, Goto, Emit
  <2>2. Shape'
    BY <2>1, IdleShape DEF Idle, Between
  <2>3. Open = Outline(Append(<<>>, "DOCUMENT_END")) /\ Open' = <<"stream">>
    BY <1>1, <2>1 DEF Open, ReturnsTo
  <2>4. Outline(<<>>) = <<"stream">>
    <3>1. [i \in DOMAIN <<>> |-> Context(<<>>[i])] = <<>>
      OBVIOUS
    <3> QED BY <3>1 DEF Outline
  <2>5. /\ Outline(Append(<<>>, "DOCUMENT_END")) # <<>>
        /\ Last(Outline(Append(<<>>, "DOCUMENT_END"))) = Context("DOCUMENT_END")
        /\ Front(Outline(Append(<<>>, "DOCUMENT_END"))) = Outline(<<>>)
    <3>1. <<>> \in Seq(States) /\ "DOCUMENT_END" \in States
      BY DEF States
    <3> QED BY <3>1, OutlineFacts
  <2>6. Context("DOCUMENT_END") = "root"
    BY DEF Context
  <2>7. Events!DocumentEnd
    BY <2>1, <2>3, <2>4, <2>5, <2>6, SameOperators DEF Events!DocumentEnd, Events!Close, Events!Emit
  <2> QED BY <2>2, <2>7 DEF InShape, Events!Step, Events!Tour
<1> QED BY <1>2, <1>3

LEMMA BeforeNodeStep ==
  ASSUME Shape, DocumentContent \/ BlockNode
  PROVE  InShape
<1>1. ~InNode /\ state \in BeforeNode /\ Awaited
  BY DEF DocumentContent, BlockNode, At, Awaited, BeforeNode
<1>2. stack \in Seq(Places) /\ stack # <<>>
  BY <1>1, Standing DEF BeforeNode, Between
<1>3. ASSUME node' \in Nodes, node'.in # "none", state' = state, stack' = stack, event' = event
      PROVE  InShape
  <2>1. InNode' /\ Awaited' /\ state' \notin Idle
    BY <1>1, <1>3 DEF InNode, Awaited, BeforeNode, Idle, Between
  <2>2. Open' = Open
    BY <1>1, <1>3, <2>1 DEF Open, ReturnsTo
  <2>3. Shape'
    BY <1>1, <1>3, <2>1 DEF Shape, StackShape, NodeShape, EventShape
  <2> QED BY <1>3, <2>2, <2>3 DEF InShape, Events!evars
<1>4. CASE DocumentContent
  <2>1. CASE Return /\ Emit("SCALAR")
    BY <1>1, <2>1, ReturnAfterNode
  <2>2. CASE /\ node' = [NoNode EXCEPT !.in = "block"] /\ Quiet
             /\ UNCHANGED <<state, stack>>
    BY <1>3, <2>2 DEF Quiet, NoNode, Nodes
  <2> QED BY <1>4, <2>1, <2>2 DEF DocumentContent
<1>5. CASE BlockNode
  <2>1. node' = [NoNode EXCEPT !.in = "block"] /\ event' = event /\ state' = state /\ stack' = stack \o <<>>
    BY <1>5 DEF BlockNode, Node, Quiet
  <2>2. stack \o <<>> = stack
    BY <1>2, ConcatEmptySeq
  <2> QED BY <1>3, <2>1, <2>2 DEF NoNode, Nodes
<1> QED BY <1>4, <1>5

LEMMA ResetStep ==
  ASSUME Reset
  PROVE  InShape
<1>1. state' = "NONE" /\ stack' = <<>> /\ node' = NoNode /\ event' = "reset"
  BY DEF Reset
<1>2. Shape'
  BY <1>1, IdleShape DEF Idle
<1>3. Open' = <<>>
  BY <1>1 DEF Open
<1> QED BY <1>1, <1>2, <1>3 DEF InShape, Events!Step, Events!Reset, Events!Emit

-----------------------------------------------------------------------------
(* The theorems *)

LEMMA ShapeInit == Init => Shape /\ Events!Init
<1> SUFFICES ASSUME Init
             PROVE  Shape /\ Events!Init
  OBVIOUS
<1>1. state = "NONE" /\ stack = <<>> /\ node = NoNode /\ event = "none"
  BY DEF Init
<1>2. ~InNode /\ ~Awaited /\ node \in Nodes
  BY <1>1 DEF InNode, NoNode, Nodes, Awaited
<1>3. StackShape
  BY <1>1 DEF StackShape, States, Idle, Between, BeforeNode
<1>4. Open = <<>>
  BY <1>1 DEF Open
<1> QED BY <1>1, <1>2, <1>3, <1>4 DEF Shape, NodeShape, EventShape, Events!Init

LEMMA ShapeNext == Shape /\ [Next]_vars => Shape' /\ [Events!Step]_Events!evars
<1> SUFFICES ASSUME Shape, [Next]_vars
             PROVE  InShape
  BY DEF InShape
<1>1. CASE FetchStep
  BY <1>1, FetchGivesNothing DEF InShape
<1>2. CASE StreamStartEvent \/ ExtraDocumentEnd \/ DirectiveToken \/ StreamEndEvent
  BY <1>2, StreamStep
<1>3. CASE DocumentStart
  BY <1>3, DocumentStartStep
<1>4. CASE DocumentEnd
  BY <1>4, DocumentEndStep
<1>5. CASE DocumentContent \/ BlockNode
  BY <1>5, BeforeNodeStep
<1>6. CASE BlockSequence
  BY <1>6, BlockSequenceStep
<1>7. CASE BlockMappingKey
  BY <1>7, BlockMappingKeyStep
<1>8. CASE BlockMappingValue
  BY <1>8, BlockMappingValueStep
<1>9. CASE FlowSequence
  BY <1>9, FlowSequenceStep
<1>10. CASE FlowSequenceKey \/ FlowSequenceValue \/ FlowSequencePairEnd
  BY <1>10, FlowSequencePairStep
<1>11. CASE FlowMappingKey \/ FlowMappingValue \/ FlowMappingEmptyValue
  BY <1>11, FlowMappingStep
<1>12. CASE NodeAlias \/ NodeProperty \/ NodeContent
  BY <1>12, NodeStep
<1>13. CASE Reset
  BY <1>13, ResetStep
<1>14. CASE Stop \/ UNCHANGED vars
  <2>1. UNCHANGED vars
    BY <1>14 DEF Stop
  <2> QED BY <2>1, NothingGiven DEF vars, InShape, Shape, NodeShape
<1> QED BY <1>1, <1>2, <1>3, <1>4, <1>5, <1>6, <1>7, <1>8, <1>9, <1>10, <1>11, <1>12, <1>13, <1>14
        DEF Next, Step, ParseStep

(***************************************************************************)
(* The stack of the parser always fits its state.                          *)
(***************************************************************************)
THEOREM StackFitsState == Spec => []Shape
<1>1. Init => Shape
  BY ShapeInit
<1>2. Shape /\ [Next]_vars => Shape'
  BY ShapeNext
<1> QED BY <1>1, <1>2, PTL DEF Spec

(***************************************************************************)
(* What is open always nests: the stream at the bottom, a document or its  *)
(* root node in it, and only collections in that.                          *)
(***************************************************************************)
THEOREM OpenNests == Spec => []Events!Nested
BY StackFitsState, ShapeNests, PTL

(***************************************************************************)
(* EventsAreATour for every text: what fy_parser_parse gives is the tour   *)
(* of well-formed documents, whatever tokens the scanner makes of the text *)
(* and wherever it gives up or is reset.                                   *)
(***************************************************************************)
THEOREM ParserRefinesEvents == Spec => EventsAreATour
<1>1. Init => Shape /\ Events!Init
  BY ShapeInit
<1>2. Shape /\ [Next]_vars => Shape' /\ [Events!Step]_Events!evars
  BY ShapeNext
<1> QED BY <1>1, <1>2, PTL DEF Spec, EventsAreATour, Events!Spec

==============================================================================
