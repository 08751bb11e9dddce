--------------------------- MODULE FyScanner_proofs ---------------------------
(***************************************************************************)
(* What the operators of the scanner keep, whatever the text: the type of  *)
(* its state, and that a required key is never replaced.                   *)
(***************************************************************************)
EXTENDS FyScanner, SequenceTheorems, FiniteSetTheorems, WellFoundedInduction, TLAPS

(***************************************************************************)
(* The type of the state of the scanner.                                   *)
(***************************************************************************)
LaterTokens == Content \union {"STREAM-END", "VERSION-DIRECTIVE", "TAG-DIRECTIVE",
                               "DOCUMENT-START", "DOCUMENT-END"}
AllTokens   == LaterTokens \union {"STREAM-START"}

Marks      == [line : Int, col : Int]
Frames     == [at : Int, map : BOOLEAN, line : Int]
Flows      == [is : {"none", "sequence", "map"}, pending : {NoKey} \union Marks]
SimpleKeys == [line : Int, col : Int, end : Int, required : BOOLEAN, token : Nat \ {0},
               level : Nat, complex : BOOLEAN]
Scalars    == [is : {"plain", "block"}, mark : Marks, end : Int, broken : BOOLEAN, empty : BOOLEAN,
               required : BOOLEAN, tab : BOOLEAN, indent : Int]
Errors     == {"none", "syntax", "internal"}

Scans == [indents : Seq(Frames), flows : Seq(Flows), keys : Seq(SimpleKeys), queue : Seq(AllTokens),
          handle : BOOLEAN, keyAllowed : BOOLEAN, colonTwice : BOOLEAN, tabUsed : BOOLEAN,
          first : BOOLEAN, started : BOOLEAN, ended : BOOLEAN, text : {<<>>} \union Scalars,
          line : Int, error : Errors]

(***************************************************************************)
(* The bottoms of the stacks stay, indents do not shrink upwards, and a    *)
(* simple key names a token that is queued.                                *)
(***************************************************************************)
FlowsFit(flows) == flows # <<>> /\ flows[1].is = "none"
IndentsFit(indents) ==
  /\ indents # <<>> /\ indents[1].at = -2
  /\ \A i \in 2..Len(indents) : indents[i].at >= indents[i - 1].at
TokensFit(keys, queue) == \A i \in 1..Len(keys) : keys[i].token <= Len(queue)
TextIndented(text, indents) == text # <<>> /\ text.is = "block" /\ text.tab => Len(indents) >= 2

Typed(s) ==
  /\ s \in Scans
  /\ FlowsFit(s.flows) /\ IndentsFit(s.indents)
  /\ TokensFit(s.keys, s.queue) /\ TextIndented(s.text, s.indents)
  /\ s.started => s.queue \in Seq(LaterTokens)

(***************************************************************************)
(* What keeps a required key from being replaced: the levels of the keys   *)
(* grow and none is above the current one; a required key is one of block  *)
(* context; and where a key may start in block context, every key that is  *)
(* left is on an earlier line.                                             *)
(***************************************************************************)
KeysOrdered(keys, line, level) ==
  /\ \A i \in 1..Len(keys) : /\ keys[i].level <= level /\ keys[i].line <= line
                             /\ keys[i].required => keys[i].level = 0
  /\ \A i, j \in 1..Len(keys) : i < j => keys[i].level < keys[j].level
KeysUpTo(keys, line) == \A i \in 1..Len(keys) : keys[i].line <= line
KeysPast(s) == Block(s) /\ s.keyAllowed => KeysUpTo(s.keys, s.line - 1)
TextFits(s) ==
  s.text # <<>> => /\ s.text.mark.line <= s.line /\ (s.text.broken => s.text.mark.line < s.line)
                   /\ s.text.required => Block(s)
                   /\ KeysUpTo(s.keys, s.text.mark.line)

Sound(s) ==
  /\ s.error # "internal"
  /\ s.error = "none" => KeysOrdered(s.keys, s.line, Level(s)) /\ KeysPast(s) /\ TextFits(s)

-----------------------------------------------------------------------------
(* Facts about sequences *)

LEMMA AppendFacts ==
  ASSUME NEW S, NEW s \in Seq(S), NEW x \in S
  PROVE  /\ Append(s, x) \in Seq(S) /\ Append(s, x) # <<>>
         /\ Len(Append(s, x)) = Len(s) + 1
         /\ Last(Append(s, x)) = x
         /\ Front(Append(s, x)) = s
         /\ s \o <<x>> = Append(s, x)
<1> DEFINE a == Append(s, x)
<1>1. /\ a \in Seq(S) /\ a # <<>> /\ Len(a) = Len(s) + 1
      /\ \A i \in 1..Len(s) : a[i] = s[i]
      /\ a[Len(s) + 1] = x
  BY AppendProperties
<1>2. Len(s) \in Nat /\ \A i \in 1..Len(s) : s[i] \in S
  BY ElementOfSeq
<1>3. Front(a) = s
  <2> DEFINE f == SubSeq(a, 1, Len(s))
  <2>1. \A i \in 1..Len(s) : a[i] \in S
    BY <1>1, <1>2
  <2>2. f \in Seq(S) /\ Len(f) = Len(s) /\ \A i \in 1..Len(s) : f[i] = a[i]
    <3>1. /\ f \in Seq(S)
          /\ Len(f) = IF 1 <= Len(s) THEN Len(s) - 1 + 1 ELSE 0
          /\ \A i \in 1..(Len(s) - 1 + 1) : f[i] = a[1 + i - 1]
      <4> HIDE DEF a
      <4> QED BY <2>1, <1>2, SubSeqProperties
    <3> HIDE DEF f, a
    <3> QED BY <3>1, <1>2
  <2>3. f = s
    <3> HIDE DEF f, a
    <3> QED BY <2>2, <1>1, SeqEqual
  <2>4. Len(a) - 1 = Len(s)
    BY <1>1, <1>2
  <2> QED BY <2>3, <2>4 DEF Front
<1>4. s \o <<x>> = a
  BY AppendIsConcat
<1> QED BY <1>1, <1>3, <1>4 DEF Last

LEMMA FrontLast ==
  ASSUME NEW S, NEW s \in Seq(S), s # <<>>
  PROVE  /\ Front(s) \in Seq(S) /\ Last(s) \in S
         /\ s = Append(Front(s), Last(s))
         /\ Len(s) \in Nat \ {0} /\ Len(Front(s)) = Len(s) - 1
         /\ \A i \in 1..Len(Front(s)) : Front(s)[i] = s[i]
<1>1. PICK f \in Seq(S), x \in S : s = Append(f, x)
  BY SequenceEmptyOrAppend
<1>2. Front(s) = f /\ Last(s) = x /\ Len(s) = Len(f) + 1
  BY <1>1, AppendFacts
<1>3. Len(f) \in Nat /\ \A i \in 1..Len(f) : s[i] = f[i]
  BY <1>1, AppendProperties
<1> QED BY <1>1, <1>2, <1>3

LEMMA Prefix ==
  ASSUME NEW S, NEW s \in Seq(S), NEW n \in 0..Len(s)
  PROVE  /\ SubSeq(s, 1, n) \in Seq(S) /\ Len(SubSeq(s, 1, n)) = n
         /\ \A i \in 1..n : SubSeq(s, 1, n)[i] = s[i]
<1>1. Len(s) \in Nat /\ \A i \in 1..Len(s) : s[i] \in S
  BY ElementOfSeq, LenProperties
<1>2. n \in Nat /\ \A i \in 1..n : s[i] \in S
  BY <1>1
<1>3. /\ SubSeq(s, 1, n) \in Seq(S)
      /\ Len(SubSeq(s, 1, n)) = IF 1 <= n THEN n - 1 + 1 ELSE 0
      /\ \A i \in 1..(n - 1 + 1) : SubSeq(s, 1, n)[i] = s[1 + i - 1]
  BY <1>2, SubSeqProperties
<1> QED BY <1>2, <1>3

(* The last element of a sequence is put another in its place.             *)
LEMMA ReplaceLast ==
  ASSUME NEW S, NEW s \in Seq(S), s # <<>>, NEW x \in S
  PROVE  /\ Front(s) \o <<x>> \in Seq(S) /\ Front(s) \o <<x>> # <<>>
         /\ Len(Front(s) \o <<x>>) = Len(s)
         /\ \A i \in 1..Len(s) : (Front(s) \o <<x>>)[i] = IF i = Len(s) THEN x ELSE s[i]
<1> DEFINE f == Front(s)
<1>1. /\ f \in Seq(S) /\ Len(s) \in Nat \ {0} /\ Len(f) = Len(s) - 1
      /\ \A i \in 1..Len(f) : f[i] = s[i]
  BY FrontLast
<1> HIDE DEF f
<1>2. /\ f \o <<x>> = Append(f, x)
      /\ Append(f, x) \in Seq(S) /\ Append(f, x) # <<>> /\ Len(Append(f, x)) = Len(f) + 1
      /\ \A i \in 1..Len(f) : Append(f, x)[i] = f[i]
      /\ Append(f, x)[Len(f) + 1] = x
  BY <1>1, AppendFacts, AppendProperties
<1>3. ASSUME NEW i \in 1..Len(s)
      PROVE  Append(f, x)[i] = IF i = Len(s) THEN x ELSE s[i]
  <2>1. CASE i = Len(s)
    BY <1>1, <1>2, <2>1
  <2>2. CASE i # Len(s)
    <3>1. i \in 1..Len(f)
      BY <1>1, <2>2
    <3> QED BY <1>1, <1>2, <2>2, <3>1
  <2> QED BY <2>1, <2>2
<1>4. Len(Append(f, x)) = Len(s)
  BY <1>1, <1>2
<1> QED BY <1>2, <1>3, <1>4 DEF f

(* A set of numbers that are not above n has a greatest one.               *)
LEMMA MaxFacts ==
  ASSUME NEW n \in Nat, NEW T \in SUBSET (0..n), T # {}
  PROVE  Max(T) \in T /\ \A y \in T : Max(T) >= y
<1> DEFINE R == OpToRel(<, Nat)
           U == {n - y : y \in T}
<1>1. U \subseteq Nat /\ U # {}
  <2>1. PICK z \in T : TRUE
    OBVIOUS
  <2>2. n - z \in U
    BY <2>1
  <2>3. \A y \in T : n - y \in Nat
    OBVIOUS
  <2> QED BY <2>2, <2>3
<1>2. PICK u \in U : \A y \in U : <<y, u>> \notin R
  <2>1. IsWellFoundedOn(R, Nat)
    BY NatLessThanWellFounded
  <2> HIDE DEF R, U
  <2> QED BY <1>1, <2>1, WFMin
<1>3. PICK x \in T : u = n - x
  BY <1>2
<1>4. \A y \in T : x >= y
  <2> SUFFICES ASSUME NEW y \in T, ~(x >= y)
               PROVE  FALSE
    OBVIOUS
  <2>1. n - y \in Nat /\ u \in Nat /\ n - y < u
    BY <1>3
  <2>2. <<n - y, u>> \in R
    BY <2>1 DEF OpToRel
  <2> QED BY <1>2, <2>2
<1> QED BY <1>4 DEF Max

-----------------------------------------------------------------------------
(* Changes that keep the scanner sound *)

LEMMA TypedParts ==
  ASSUME NEW s, Typed(s)
  PROVE  /\ s.indents \in Seq(Frames) /\ s.indents # <<>> /\ Len(s.indents) \in Nat \ {0}
         /\ s.flows \in Seq(Flows) /\ s.flows # <<>> /\ Len(s.flows) \in Nat \ {0}
         /\ s.keys \in Seq(SimpleKeys) /\ Len(s.keys) \in Nat
         /\ s.queue \in Seq(AllTokens) /\ Len(s.queue) \in Nat
         /\ s.line \in Int /\ Level(s) \in Nat
         /\ s.error \in Errors
         /\ \A i \in 1..Len(s.keys) : s.keys[i] \in SimpleKeys
         /\ \A i \in 1..Len(s.indents) : s.indents[i] \in Frames
         /\ \A i \in 1..Len(s.flows) : s.flows[i] \in Flows
<1>1. /\ s.indents \in Seq(Frames) /\ s.indents # <<>>
      /\ s.flows \in Seq(Flows) /\ s.flows # <<>>
      /\ s.keys \in Seq(SimpleKeys) /\ s.queue \in Seq(AllTokens)
      /\ s.line \in Int /\ s.error \in Errors
  BY DEF Typed, Scans, FlowsFit, IndentsFit
<1>2. Len(s.indents) \in Nat \ {0} /\ Len(s.flows) \in Nat \ {0}
  BY <1>1, EmptySeq
<1>3. Len(s.keys) \in Nat /\ Len(s.queue) \in Nat
  BY <1>1, LenProperties
<1>4. \A S : \A q \in Seq(S) : \A i \in 1..Len(q) : q[i] \in S
  BY ElementOfSeq
<1> QED BY <1>1, <1>2, <1>3, <1>4 DEF Level

(* t is s with fewer keys and more tokens, perhaps refused.                *)
Near(s, t) ==
  /\ Typed(t)
  /\ t.error \in {s.error, "syntax"}
  /\ Len(t.flows) = Len(s.flows)
  /\ Len(t.keys) <= Len(s.keys) /\ \A i \in 1..Len(t.keys) : t.keys[i] = s.keys[i]
  /\ Len(t.queue) >= Len(s.queue)
  /\ t.text = s.text /\ t.line = s.line /\ t.started = s.started /\ t.ended = s.ended

Alike(s, t) == Near(s, t) /\ (t.keyAllowed => s.keyAllowed)

LEMMA FewerKeys ==
  ASSUME NEW keys, NEW fewer, Len(keys) \in Nat, Len(fewer) \in Nat, Len(fewer) <= Len(keys),
         \A i \in 1..Len(fewer) : fewer[i] = keys[i],
         NEW line, NEW level, KeysOrdered(keys, line, level)
  PROVE  KeysOrdered(fewer, line, level)
<1>1. \A i \in 1..Len(fewer) : i \in 1..Len(keys)
  OBVIOUS
<1> QED BY <1>1 DEF KeysOrdered

LEMMA NearSound ==
  ASSUME NEW s, NEW t, Typed(s), Near(s, t), Sound(s),
         t.error = "none" /\ Block(t) /\ t.keyAllowed => KeysUpTo(t.keys, t.line - 1)
  PROVE  Sound(t)
<1>1. Len(s.keys) \in Nat /\ Len(t.keys) \in Nat /\ Level(t) = Level(s)
  BY TypedParts DEF Near, Level
<1>2. CASE t.error # "none"
  BY <1>2 DEF Sound, Near
<1>3. CASE t.error = "none"
  <2>1. s.error = "none"
    BY <1>3 DEF Near
  <2>2. KeysOrdered(t.keys, t.line, Level(t))
    BY <1>1, <2>1, FewerKeys DEF Near, Sound
  <2>3. TextFits(t)
    BY <1>1, <2>1 DEF Near, Sound, TextFits, KeysUpTo, Block
  <2> QED BY <1>3, <2>2, <2>3 DEF Sound, KeysPast
<1> QED BY <1>2, <1>3

LEMMA AlikeSound ==
  ASSUME NEW s, NEW t, Typed(s), Alike(s, t), Sound(s)
  PROVE  Sound(t)
<1>1. Len(s.keys) \in Nat /\ Len(t.keys) \in Nat /\ Level(t) = Level(s)
  BY TypedParts DEF Alike, Near, Level
<1>2. t.error = "none" /\ Block(t) /\ t.keyAllowed => KeysUpTo(t.keys, t.line - 1)
  BY <1>1 DEF Alike, Near, Sound, KeysPast, Block, KeysUpTo
<1> QED BY <1>2, NearSound DEF Alike

LEMMA NearTrans ==
  ASSUME NEW s, NEW t, NEW u, Typed(s), Near(s, t), Near(t, u)
  PROVE  Near(s, u)
<1>1. /\ Len(s.keys) \in Nat /\ Len(t.keys) \in Nat /\ Len(u.keys) \in Nat
      /\ Len(s.queue) \in Nat /\ Len(t.queue) \in Nat /\ Len(u.queue) \in Nat
  BY TypedParts DEF Near
<1> QED BY <1>1 DEF Near

LEMMA AlikeTrans ==
  ASSUME NEW s, NEW t, NEW u, Typed(s), Alike(s, t), Alike(t, u)
  PROVE  Alike(s, u)
BY NearTrans DEF Alike

LEMMA NearSelf ==
  ASSUME NEW s, Typed(s)
  PROVE  Alike(s, s)
BY TypedParts DEF Alike, Near

(***************************************************************************)
(* The changes of one field.                                               *)
(***************************************************************************)
LEMMA ErrorSet ==
  ASSUME NEW s, Typed(s), NEW e \in Errors, NEW t, t = [s EXCEPT !.error = e]
  PROVE  /\ Typed(t) /\ t.error = e
         /\ t.keys = s.keys /\ t.keyAllowed = s.keyAllowed
         /\ e \in {s.error, "syntax"} => Alike(s, t)
<1>1. /\ t \in Scans /\ t.error = e
      /\ t.flows = s.flows /\ t.indents = s.indents /\ t.keys = s.keys /\ t.queue = s.queue
      /\ t.text = s.text /\ t.line = s.line /\ t.started = s.started /\ t.ended = s.ended
      /\ t.keyAllowed = s.keyAllowed
  BY DEF Scans, Typed
<1>2. Typed(t)
  BY <1>1 DEF Typed
<1> QED BY <1>1, <1>2, TypedParts DEF Alike, Near

LEMMA DoIs ==
  ASSUME NEW s, NEW t
  PROVE  Do(s, t) = IF s.error = "none" THEN t ELSE s
BY ZenonT(60) DEF Do

LEMMA CheckIs ==
  ASSUME NEW s, NEW ok \in BOOLEAN
  PROVE  Check(s, ok) = IF ok THEN s ELSE Do(s, [s EXCEPT !.error = "syntax"])
BY ZenonT(60) DEF Check

LEMMA CheckKeeps ==
  ASSUME NEW s, Typed(s), NEW ok \in BOOLEAN
  PROVE  /\ Alike(s, Check(s, ok))
         /\ Check(s, ok).error = "none" => ok /\ Check(s, ok) = s
         /\ Check(s, ok).keys = s.keys
<1> DEFINE t == Check(s, ok)
<1>1. CASE ok \/ s.error # "none"
  <2>1. t = s
    BY Zenon, <1>1, DoIs, CheckIs
  <2> HIDE DEF t
  <2>2. Alike(s, t) /\ t.keys = s.keys /\ (t.error = "none" => ok /\ t = s)
    BY <1>1, <2>1, NearSelf
  <2> QED BY <2>2 DEF t
<1>2. CASE ~ok /\ s.error = "none"
  <2>1. t = [s EXCEPT !.error = "syntax"]
    BY Zenon, <1>2, DoIs, CheckIs
  <2> HIDE DEF t
  <2>2. "syntax" \in Errors
    BY DEF Errors
  <2>3. Alike(s, t) /\ t.error = "syntax" /\ t.keys = s.keys
    BY <2>1, <2>2, ErrorSet
  <2> QED BY <2>3 DEF t
<1> QED BY <1>1, <1>2

LEMMA TokensFitMore ==
  ASSUME NEW keys \in Seq(SimpleKeys), NEW q, NEW r, TokensFit(keys, q),
         Len(q) \in Nat, Len(r) \in Nat, Len(q) <= Len(r)
  PROVE  TokensFit(keys, r)
<1>1. \A i \in 1..Len(keys) : keys[i] \in SimpleKeys
  BY ElementOfSeq
<1>2. \A i \in 1..Len(keys) : keys[i].token \in Nat
  BY <1>1 DEF SimpleKeys
<1> QED BY <1>2 DEF TokensFit

Unmoved(s, t) ==
  /\ t \in Scans /\ t.error = s.error
  /\ t.flows = s.flows /\ t.indents = s.indents /\ t.keys = s.keys
  /\ t.text = s.text /\ t.line = s.line /\ t.started = s.started /\ t.ended = s.ended

LEMMA QueueSet ==
  ASSUME NEW s, Typed(s), NEW t, Unmoved(s, t), t.keyAllowed => s.keyAllowed,
         Len(t.queue) >= Len(s.queue), s.started => t.queue \in Seq(LaterTokens)
  PROVE  Alike(s, t)
<1>1. TokensFit(t.keys, t.queue)
  <2>1. t.queue \in Seq(AllTokens)
    BY DEF Scans, Unmoved
  <2>2. Len(t.queue) \in Nat
    BY <2>1, LenProperties
  <2> QED BY <2>2, TypedParts, TokensFitMore DEF Typed, Unmoved
<1>2. Typed(t)
  BY <1>1 DEF Typed, Unmoved
<1> QED BY <1>2, TypedParts DEF Alike, Near, Unmoved

LEMMA QueueAppend ==
  ASSUME NEW s, Typed(s), NEW token \in LaterTokens
  PROVE  /\ Append(s.queue, token) \in Seq(AllTokens)
         /\ Append(s.queue, token) # <<>>
         /\ Len(Append(s.queue, token)) >= Len(s.queue)
         /\ s.started => Append(s.queue, token) \in Seq(LaterTokens)
<1>1. s.queue \in Seq(AllTokens) /\ token \in AllTokens /\ Len(s.queue) \in Nat
  BY TypedParts DEF AllTokens
<1> QED BY <1>1, AppendProperties DEF Typed

LEMMA QueueKeeps ==
  ASSUME NEW s, Typed(s), NEW token \in LaterTokens
  PROVE  /\ Alike(s, Queue(s, token))
         /\ Queue(s, token).error = s.error
         /\ Queue(s, token).keys = s.keys /\ Queue(s, token).keyAllowed = s.keyAllowed
         /\ Queue(s, token).indents = s.indents
         /\ s.error = "none" => Queue(s, token).queue # <<>>
<1> DEFINE q == Append(s.queue, token)
           t == Queue(s, token)
<1>1. CASE s.error # "none"
  <2>1. t = s
    BY SMTT(60), <1>1 DEF Queue, Do
  <2> QED BY <1>1, <2>1, NearSelf
<1>2. CASE s.error = "none"
  <2>1. /\ q \in Seq(AllTokens) /\ q # <<>> /\ Len(q) >= Len(s.queue)
        /\ s.started => q \in Seq(LaterTokens)
    BY QueueAppend
  <2>2. Unmoved(s, t) /\ t.queue = q /\ t.keyAllowed = s.keyAllowed
    <3> HIDE DEF q
    <3> QED BY ZenonT(60), <1>2, <2>1 DEF Queue, Do, Unmoved, Typed, Scans, q
  <2> HIDE DEF t, q
  <2>3. Alike(s, t)
    BY <2>1, <2>2, QueueSet
  <2> QED BY <2>1, <2>2, <2>3 DEF Unmoved, t
<1> QED BY <1>1, <1>2

LEMMA QueueOnlyKeeps ==
  ASSUME NEW s, Typed(s), NEW token \in LaterTokens
  PROVE  /\ Alike(s, QueueOnly(s, token))
         /\ QueueOnly(s, token).error = s.error
         /\ QueueOnly(s, token).keyAllowed = s.keyAllowed
<1> DEFINE q == Append(s.queue, token)
           t == QueueOnly(s, token)
<1>1. CASE s.error # "none"
  <2>1. t = s
    BY <1>1 DEF QueueOnly, Do
  <2> QED BY <1>1, <2>1, NearSelf
<1>2. CASE s.error = "none"
  <2>1. /\ q \in Seq(AllTokens) /\ Len(q) >= Len(s.queue)
        /\ s.started => q \in Seq(LaterTokens)
    BY QueueAppend
  <2>2. Unmoved(s, t) /\ t.queue = q /\ t.keyAllowed = s.keyAllowed
    <3> HIDE DEF q
    <3> QED BY <1>2, <2>1 DEF QueueOnly, Do, Unmoved, Typed, Scans, q
  <2> HIDE DEF t, q
  <2>3. Alike(s, t)
    BY <2>1, <2>2, QueueSet
  <2> QED BY <2>2, <2>3 DEF Unmoved, t
<1> QED BY <1>1, <1>2

LEMMA ForbidKey ==
  ASSUME NEW s, Typed(s)
  PROVE  /\ Alike(s, AllowKey(s, FALSE))
         /\ AllowKey(s, FALSE).error = s.error /\ AllowKey(s, FALSE).keys = s.keys
<1> DEFINE t == AllowKey(s, FALSE)
<1>1. Unmoved(s, t) /\ t.queue = s.queue /\ t.keyAllowed = FALSE
  BY DEF AllowKey, Unmoved, Typed, Scans
<1>2. Alike(s, t)
  <2> HIDE DEF t
  <2> QED BY <1>1, TypedParts, QueueSet DEF Typed
<1> QED BY <1>1, <1>2 DEF Unmoved

(* A key is allowed where, in block context, no key of the line is left.   *)
LEMMA PermitKey ==
  ASSUME NEW s, Typed(s),
         s.error = "none" /\ Block(s) => KeysUpTo(s.keys, s.line - 1)
  PROVE  /\ Near(s, AllowKey(s, TRUE))
         /\ AllowKey(s, TRUE).error = s.error /\ AllowKey(s, TRUE).keys = s.keys
         /\ Sound(s) => Sound(AllowKey(s, TRUE))
<1> DEFINE t == AllowKey(s, TRUE)
<1>1. Unmoved(s, t) /\ t.queue = s.queue
  BY DEF AllowKey, Unmoved, Typed, Scans
<1> HIDE DEF t
<1>2. Typed(t)
  BY <1>1 DEF Unmoved, Typed
<1>3. Near(s, t)
  BY <1>1, <1>2, TypedParts DEF Near, Unmoved
<1>4. Sound(s) => Sound(t)
  BY <1>1, <1>3, NearSound DEF Unmoved, Block, Level
<1> QED BY <1>1, <1>3, <1>4 DEF Unmoved, t

LEMMA PendingKeeps ==
  ASSUME NEW s, Typed(s), NEW mark \in {NoKey} \union Marks
  PROVE  /\ Alike(s, SetPending(s, mark))
         /\ SetPending(s, mark).error = s.error /\ SetPending(s, mark).keys = s.keys
         /\ SetPending(s, mark).keyAllowed = s.keyAllowed
         /\ SetPending(s, mark).queue = s.queue
<1> DEFINE flow == Flow(Last(s.flows).is, mark)
           f == Front(s.flows) \o <<flow>>
           t == SetPending(s, mark)
<1>1. s.flows \in Seq(Flows) /\ s.flows # <<>> /\ s.flows[1].is = "none" /\ Len(s.flows) \in Nat \ {0}
  BY TypedParts DEF Typed, FlowsFit
<1>2. Last(s.flows) \in Flows /\ Last(s.flows) = s.flows[Len(s.flows)]
  BY <1>1, FrontLast DEF Last
<1>3. flow \in Flows /\ flow.is = Last(s.flows).is
  BY <1>2 DEF Flow, Flows
<1> HIDE DEF flow
<1>4. /\ f \in Seq(Flows) /\ f # <<>> /\ Len(f) = Len(s.flows)
      /\ \A i \in 1..Len(s.flows) : f[i] = IF i = Len(s.flows) THEN flow ELSE s.flows[i]
  BY <1>1, <1>3, ReplaceLast
<1>5. f[1].is = "none"
  BY <1>1, <1>2, <1>3, <1>4
<1>6. t = [s EXCEPT !.flows = f]
  BY DEF SetPending, flow
<1> HIDE DEF f, t
<1>7. /\ t \in Scans /\ t.flows = f /\ t.error = s.error /\ t.indents = s.indents
      /\ t.keys = s.keys /\ t.queue = s.queue /\ t.text = s.text /\ t.line = s.line
      /\ t.started = s.started /\ t.ended = s.ended /\ t.keyAllowed = s.keyAllowed
  BY <1>4, <1>6 DEF Typed, Scans
<1>8. Typed(t)
  BY <1>4, <1>5, <1>7 DEF Typed, FlowsFit
<1> QED BY <1>4, <1>7, <1>8, TypedParts DEF Alike, Near, t

(***************************************************************************)
(* The stack of indents.                                                   *)
(***************************************************************************)
LEMMA IndentsSet ==
  ASSUME NEW s, Typed(s), NEW t, t \in Scans, IndentsFit(t.indents), TextIndented(s.text, t.indents),
         t.flows = s.flows, t.error = s.error,
         t.keys = s.keys, Len(t.queue) >= Len(s.queue), t.text = s.text, t.line = s.line,
         t.started = s.started, t.ended = s.ended, t.keyAllowed => s.keyAllowed,
         s.started => t.queue \in Seq(LaterTokens)
  PROVE  Alike(s, t)
<1>1. TokensFit(t.keys, t.queue)
  <2>1. t.queue \in Seq(AllTokens)
    BY DEF Scans
  <2>2. Len(t.queue) \in Nat
    BY <2>1, LenProperties
  <2> QED BY <2>2, TypedParts, TokensFitMore DEF Typed
<1>2. Typed(t)
  BY <1>1 DEF Typed
<1> QED BY <1>2, TypedParts DEF Alike, Near

LEMMA IndentsAppend ==
  ASSUME NEW d \in Seq(Frames), IndentsFit(d), NEW frame \in Frames, Last(d).at <= frame.at
  PROVE  /\ Append(d, frame) \in Seq(Frames) /\ IndentsFit(Append(d, frame))
         /\ Len(Append(d, frame)) = Len(d) + 1 /\ Len(d) \in Nat \ {0}
<1> DEFINE e == Append(d, frame)
<1>1. /\ e \in Seq(Frames) /\ e # <<>> /\ Len(e) = Len(d) + 1
      /\ \A i \in 1..Len(d) : e[i] = d[i]
      /\ e[Len(d) + 1] = frame
  BY AppendProperties
<1>2. Len(d) \in Nat \ {0} /\ d # <<>> /\ d[1].at = -2 /\ \A i \in 2..Len(d) : d[i].at >= d[i - 1].at
  BY EmptySeq DEF IndentsFit
<1>3. d[Len(d)].at <= frame.at /\ d[Len(d)].at \in Int /\ frame.at \in Int
  <2>1. d[Len(d)] \in Frames
    BY <1>2, ElementOfSeq
  <2> QED BY <2>1 DEF Last, Frames
<1> HIDE DEF e
<1>4. ASSUME NEW i \in 2..Len(e)
      PROVE  e[i].at >= e[i - 1].at
  <2>1. CASE i \in 2..Len(d)
    <3>1. e[i] = d[i] /\ e[i - 1] = d[i - 1]
      BY <1>1, <1>2, <2>1
    <3> QED BY <1>2, <2>1, <3>1
  <2>2. CASE i \notin 2..Len(d)
    <3>1. i = Len(d) + 1 /\ i - 1 = Len(d) /\ Len(d) \in 1..Len(d)
      BY <1>1, <1>2, <2>2
    <3>2. e[i] = frame /\ e[i - 1] = d[Len(d)]
      BY <1>1, <3>1
    <3> QED BY <1>3, <3>2
  <2> QED BY <2>1, <2>2
<1>5. e[1].at = -2
  BY <1>1, <1>2
<1> QED BY <1>1, <1>2, <1>4, <1>5 DEF IndentsFit, e

LEMMA PushKeeps ==
  ASSUME NEW s, Typed(s), NEW col \in Int, NEW map \in BOOLEAN, NEW line \in Int,
         s.error = "none" => Indent(s) <= col
  PROVE  /\ Alike(s, PushIndent(s, col, map, line))
         /\ PushIndent(s, col, map, line).error = s.error
         /\ PushIndent(s, col, map, line).queue = s.queue
         /\ PushIndent(s, col, map, line).keyAllowed = s.keyAllowed
         /\ PushIndent(s, col, map, line).keys = s.keys
         /\ PushIndent(s, col, map, line).flows = s.flows
         /\ s.error = "none" => Len(PushIndent(s, col, map, line).indents) >= 2
<1> DEFINE frame == Frame(col, map, line)
           d == Append(s.indents, frame)
           t == PushIndent(s, col, map, line)
<1>1. CASE s.error # "none"
  <2>1. t = s
    BY <1>1 DEF PushIndent, Do
  <2> QED BY <1>1, <2>1, NearSelf
<1>2. CASE s.error = "none"
  <2>1. frame \in Frames /\ frame.at = col
    BY DEF Frame, Frames
  <2>2. s.indents \in Seq(Frames) /\ IndentsFit(s.indents) /\ Last(s.indents).at <= frame.at
    BY <1>2, <2>1, TypedParts DEF Typed, Indent
  <2>3. d \in Seq(Frames) /\ IndentsFit(d) /\ Len(d) >= 2 /\ Len(d) >= Len(s.indents)
    <3> HIDE DEF frame
    <3> QED BY <2>1, <2>2, IndentsAppend
  <2>4. TextIndented(s.text, d)
    BY <2>3 DEF Typed, TextIndented
  <2>5. t = [s EXCEPT !.indents = d]
    BY <1>2 DEF PushIndent, Do
  <2> HIDE DEF d, t, frame
  <2>6. /\ t \in Scans /\ t.flows = s.flows /\ t.error = s.error /\ t.indents = d
        /\ t.keys = s.keys /\ t.queue = s.queue /\ t.text = s.text /\ t.line = s.line
        /\ t.started = s.started /\ t.ended = s.ended /\ t.keyAllowed = s.keyAllowed
    BY <2>3, <2>5 DEF Typed, Scans
  <2>7. Alike(s, t)
    <3>1. IndentsFit(t.indents) /\ TextIndented(s.text, t.indents)
      BY <2>3, <2>4, <2>6
    <3>2. Len(t.queue) >= Len(s.queue)
      BY <2>6, TypedParts
    <3>3. s.started => t.queue \in Seq(LaterTokens)
      BY <2>6 DEF Typed
    <3> QED BY <2>6, <3>1, <3>2, <3>3, IndentsSet
  <2> QED BY <2>3, <2>6, <2>7 DEF t
<1> QED BY <1>1, <1>2

LEMMA IndentsAtLine ==
  ASSUME NEW d \in Seq(Frames), IndentsFit(d), NEW line \in Int
  PROVE  LET e == Front(d) \o <<[Last(d) EXCEPT !.line = line]>>
         IN  e \in Seq(Frames) /\ IndentsFit(e) /\ Len(e) = Len(d) /\ Last(e).at = Last(d).at
             /\ Last(e).map = Last(d).map
<1> DEFINE frame == [Last(d) EXCEPT !.line = line]
           e == Front(d) \o <<frame>>
<1>1. d # <<>> /\ Len(d) \in Nat \ {0}
  BY EmptySeq DEF IndentsFit
<1>2. Last(d) \in Frames /\ Last(d) = d[Len(d)]
  BY <1>1, FrontLast DEF Last
<1>3. frame \in Frames /\ frame.at = Last(d).at /\ frame.map = Last(d).map
  BY <1>2 DEF Frames
<1> HIDE DEF frame
<1>4. /\ e \in Seq(Frames) /\ e # <<>> /\ Len(e) = Len(d)
      /\ \A i \in 1..Len(d) : e[i] = IF i = Len(d) THEN frame ELSE d[i]
  BY <1>1, <1>3, ReplaceLast
<1> HIDE DEF e
<1>5. \A i \in 1..Len(d) : e[i].at = d[i].at
  BY <1>2, <1>3, <1>4
<1>6. IndentsFit(e)
  <2>1. \A i \in 2..Len(e) : i \in 1..Len(d) /\ i - 1 \in 1..Len(d)
    BY <1>1, <1>4
  <2>2. e[1].at = -2
    BY <1>1, <1>5 DEF IndentsFit
  <2> QED BY <2>1, <2>2, <1>4, <1>5 DEF IndentsFit
<1>7. Last(e) = frame
  BY <1>1, <1>4 DEF Last
<1> QED BY <1>3, <1>4, <1>6, <1>7 DEF e, frame

LEMMA AtLineKeeps ==
  ASSUME NEW s, Typed(s), NEW line \in Int
  PROVE  /\ Alike(s, AtLine(s, line))
         /\ AtLine(s, line).error = s.error /\ AtLine(s, line).keyAllowed = s.keyAllowed
         /\ AtLine(s, line).queue = s.queue /\ AtLine(s, line).keys = s.keys
         /\ AtLine(s, line).flows = s.flows
         /\ Indent(AtLine(s, line)) = Indent(s)
<1> DEFINE d == Front(s.indents) \o <<[Last(s.indents) EXCEPT !.line = line]>>
           t == AtLine(s, line)
<1>1. s.indents \in Seq(Frames) /\ IndentsFit(s.indents)
  BY TypedParts DEF Typed
<1>2. d \in Seq(Frames) /\ IndentsFit(d) /\ Len(d) = Len(s.indents) /\ Last(d).at = Last(s.indents).at
  BY <1>1, IndentsAtLine
<1>3. TextIndented(s.text, d)
  BY <1>2 DEF Typed, TextIndented
<1>4. t = [s EXCEPT !.indents = d]
  BY DEF AtLine
<1> HIDE DEF d, t
<1>5. /\ t \in Scans /\ t.flows = s.flows /\ t.error = s.error /\ t.indents = d
      /\ t.keys = s.keys /\ t.queue = s.queue /\ t.text = s.text /\ t.line = s.line
      /\ t.started = s.started /\ t.ended = s.ended /\ t.keyAllowed = s.keyAllowed
  BY <1>2, <1>4 DEF Typed, Scans
<1>6. Alike(s, t)
  BY SMTT(60), <1>2, <1>3, <1>5, IndentsSet, TypedParts DEF Typed
<1> QED BY <1>2, <1>5, <1>6 DEF t, Indent

LEMMA IndentsPrefix ==
  ASSUME NEW d \in Seq(Frames), IndentsFit(d), NEW n \in 1..Len(d)
  PROVE  SubSeq(d, 1, n) \in Seq(Frames) /\ IndentsFit(SubSeq(d, 1, n)) /\ Len(SubSeq(d, 1, n)) = n
<1>1. Len(d) \in Nat \ {0} /\ n \in 0..Len(d)
  BY EmptySeq DEF IndentsFit
<1> DEFINE e == SubSeq(d, 1, n)
<1>2. e \in Seq(Frames) /\ Len(e) = n /\ \A i \in 1..n : e[i] = d[i]
  BY <1>1, Prefix
<1> HIDE DEF e
<1>3. e # <<>>
  BY <1>1, <1>2, EmptySeq
<1>4. \A i \in 2..n : i \in 1..n /\ i - 1 \in 1..n /\ i \in 2..Len(d)
  BY <1>1
<1>5. IndentsFit(e)
  BY <1>1, <1>2, <1>3, <1>4 DEF IndentsFit
<1> QED BY <1>2, <1>5 DEF e

(* How many indents are deeper: never the bottom of the stack.             *)
LEMMA DeeperFacts ==
  ASSUME NEW d \in Seq(Frames), IndentsFit(d), NEW col \in Int, col >= -2
  PROVE  LET deeper == Cardinality({i \in DOMAIN d : d[i].at > col})
         IN  deeper \in Nat /\ Len(d) - deeper \in 1..Len(d)
<1> DEFINE D == {i \in DOMAIN d : d[i].at > col}
<1>1. Len(d) \in Nat \ {0} /\ DOMAIN d = 1..Len(d) /\ d[1].at = -2
  BY EmptySeq, LenProperties DEF IndentsFit
<1>2. D \in SUBSET (2..Len(d))
  BY <1>1
<1>3. IsFiniteSet(2..Len(d)) /\ Cardinality(2..Len(d)) = Len(d) - 1
  <2>1. /\ IsFiniteSet(2..Len(d))
        /\ Cardinality(2..Len(d)) = IF 2 > Len(d) THEN 0 ELSE Len(d) - 2 + 1
    BY <1>1, FS_Interval
  <2> QED BY <1>1, <2>1
<1> HIDE DEF D
<1>4. IsFiniteSet(D) /\ Cardinality(D) <= Len(d) - 1
  BY ZenonT(60), <1>2, <1>3, FS_Subset
<1>5. Cardinality(D) \in Nat
  BY <1>4, FS_CardinalityType
<1> QED BY <1>1, <1>4, <1>5 DEF D

LEMMA QueueMany ==
  ASSUME NEW s, Typed(s), NEW n \in Nat
  PROVE  LET q == s.queue \o [i \in 1..n |-> "BLOCK-END"]
         IN  /\ q \in Seq(AllTokens) /\ Len(q) >= Len(s.queue)
             /\ s.started => q \in Seq(LaterTokens)
<1> DEFINE ends == [i \in 1..n |-> "BLOCK-END"]
<1>1. ends \in Seq(LaterTokens) /\ ends \in Seq(AllTokens) /\ Len(ends) = n
  BY DEF LaterTokens, AllTokens, Content
<1> HIDE DEF ends
<1>2. s.queue \in Seq(AllTokens) /\ Len(s.queue) \in Nat
  BY TypedParts
<1>3. s.queue \o ends \in Seq(AllTokens) /\ Len(s.queue \o ends) = Len(s.queue) + Len(ends)
  BY <1>1, <1>2, ConcatProperties
<1>4. s.started => s.queue \o ends \in Seq(LaterTokens)
  BY <1>1, ConcatProperties DEF Typed
<1> QED BY <1>1, <1>2, <1>3, <1>4 DEF ends

LEMMA UnrollKeeps ==
  ASSUME NEW s, Typed(s), s.text = <<>>, NEW col \in Int, col >= -2
  PROVE  /\ Alike(s, Unroll(s, col))
         /\ Unroll(s, col).error = s.error /\ Unroll(s, col).keyAllowed = s.keyAllowed
         /\ Unroll(s, col).keys = s.keys
<1> DEFINE deeper == Cardinality({i \in DOMAIN s.indents : s.indents[i].at > col})
           d == SubSeq(s.indents, 1, Len(s.indents) - deeper)
           q == s.queue \o [i \in 1..deeper |-> "BLOCK-END"]
           popped == [s EXCEPT !.indents = d, !.queue = q, !.first = @ /\ deeper = 0]
           t == Unroll(s, col)
<1>1. CASE ~Block(s) \/ deeper = 0 \/ s.error # "none"
  <2>1. t = s
    BY <1>1 DEF Unroll, Do
  <2> QED BY <2>1, NearSelf
<1>2. CASE ~(~Block(s) \/ deeper = 0 \/ s.error # "none")
  <2>1. t = AtLine(popped, s.line)
    BY <1>2 DEF Unroll, Do
  <2>2. s.indents \in Seq(Frames) /\ IndentsFit(s.indents) /\ s.line \in Int
    BY TypedParts DEF Typed
  <2>3. deeper \in Nat /\ Len(s.indents) - deeper \in 1..Len(s.indents)
    BY <2>2, DeeperFacts
  <2> HIDE DEF deeper
  <2>4. d \in Seq(Frames) /\ IndentsFit(d)
    <3> DEFINE n == Len(s.indents) - deeper
    <3>1. n \in 1..Len(s.indents)
      BY <2>3
    <3> HIDE DEF n
    <3>2. SubSeq(s.indents, 1, n) \in Seq(Frames) /\ IndentsFit(SubSeq(s.indents, 1, n))
      BY <2>2, <3>1, IndentsPrefix
    <3> QED BY <3>2 DEF n
  <2>5. q \in Seq(AllTokens) /\ Len(q) >= Len(s.queue) /\ (s.started => q \in Seq(LaterTokens))
    BY <2>3, QueueMany
  <2> HIDE DEF d, q
  <2>6. /\ popped \in Scans /\ popped.flows = s.flows /\ popped.error = s.error /\ popped.indents = d
        /\ popped.keys = s.keys /\ popped.queue = q /\ popped.text = s.text /\ popped.line = s.line
        /\ popped.started = s.started /\ popped.ended = s.ended /\ popped.keyAllowed = s.keyAllowed
    BY <2>4, <2>5 DEF Typed, Scans
  <2> HIDE DEF popped, t
  <2>7. Alike(s, popped)
    BY <2>4, <2>5, <2>6, IndentsSet DEF TextIndented
  <2>8. /\ Alike(popped, t) /\ t.error = popped.error /\ t.keyAllowed = popped.keyAllowed
        /\ t.keys = popped.keys
    BY <2>1, <2>2, <2>7, AtLineKeeps DEF Alike, Near
  <2>9. Alike(s, t)
    BY <2>7, <2>8, AlikeTrans
  <2> QED BY <2>6, <2>8, <2>9 DEF t
<1> QED BY <1>1, <1>2

-----------------------------------------------------------------------------
(* The simple keys *)

LEMMA KeysSet ==
  ASSUME NEW s, Typed(s), NEW t, t \in Scans, t.flows = s.flows, t.indents = s.indents,
         t.error \in {s.error, "syntax"}, t.queue = s.queue, t.text = s.text, t.line = s.line,
         t.started = s.started, t.ended = s.ended, t.keyAllowed => s.keyAllowed,
         Len(t.keys) <= Len(s.keys), \A i \in 1..Len(t.keys) : t.keys[i] = s.keys[i]
  PROVE  Alike(s, t)
<1>1. Len(t.keys) \in Nat
  <2>1. t.keys \in Seq(SimpleKeys)
    BY DEF Scans
  <2> QED BY <2>1, LenProperties
<1>2. Len(s.keys) \in Nat
  BY TypedParts
<1>3. \A i \in 1..Len(t.keys) : i \in 1..Len(s.keys)
  BY <1>1, <1>2
<1>4. TokensFit(t.keys, t.queue)
  BY <1>3 DEF Typed, TokensFit
<1>5. Typed(t)
  BY <1>4 DEF Typed
<1> QED BY <1>5, TypedParts DEF Alike, Near

LEMMA WithoutKeeps ==
  ASSUME NEW s, Typed(s), NEW gone
  PROVE  /\ Alike(s, Without(s, gone))
         /\ Without(s, gone).keyAllowed = s.keyAllowed
         /\ Without(s, gone).queue = s.queue
         /\ Without(s, gone).flows = s.flows /\ Without(s, gone).indents = s.indents
         /\ s.error = "none" => Len(Without(s, gone).keys) = 0 \/ Len(Without(s, gone).keys) \notin gone
<1> DEFINE l == Len(s.keys)
           N == {i \in 0..l : l - i + 1..l \subseteq gone}
           n == Max(N)
           keep == l - n
           lost == \E j \in keep + 1..l : s.keys[j].required
           t == Without(s, gone)
<1>1. CASE s.error # "none"
  <2>1. t = s
    BY <1>1 DEF Without, Do
  <2> QED BY <1>1, <2>1, NearSelf
<1>2. CASE s.error = "none"
  <2>1. l \in Nat /\ s.keys \in Seq(SimpleKeys)
    BY TypedParts
  <2> HIDE DEF l
  <2>2. 0 \in N
    <3>1. l - 0 + 1..l = {}
      BY <2>1
    <3> QED BY <2>1, <3>1
  <2>3. n \in N /\ \A m \in N : n >= m
    <3>1. N \in SUBSET (0..l) /\ N # {}
      BY <2>2
    <3> HIDE DEF N
    <3> QED BY <2>1, <3>1, MaxFacts
  <2>4. n \in 0..l /\ l - n + 1..l \subseteq gone
    BY <2>3
  <2>5. keep = 0 \/ keep \notin gone
    <3> SUFFICES ASSUME keep # 0, keep \in gone
                 PROVE  FALSE
      OBVIOUS
    <3> HIDE DEF n
    <3>1. n + 1 \in 0..l
      BY <2>1, <2>4
    <3>2. l - (n + 1) + 1..l \subseteq gone
      BY <2>1, <2>4
    <3>3. n + 1 \in N
      BY <3>1, <3>2
    <3> QED BY <2>3, <2>4, <3>3
  <2>6. keep \in 0..l
    BY <2>1, <2>4
  <2>7. t = [s EXCEPT !.keys = SubSeq(s.keys, 1, keep), !.error = IF lost THEN "syntax" ELSE s.error]
    BY <1>2 DEF Without, Do, l
  <2> HIDE DEF keep, lost, t, n, N
  <2> DEFINE k == SubSeq(s.keys, 1, keep)
  <2>8. k \in Seq(SimpleKeys) /\ Len(k) = keep /\ \A i \in 1..keep : k[i] = s.keys[i]
    BY <2>1, <2>6, Prefix DEF l
  <2> DEFINE error == IF lost THEN "syntax" ELSE s.error
  <2>9. error \in {s.error, "syntax"} /\ error \in Errors
    BY <1>2 DEF Errors
  <2>10. t = [s EXCEPT !.keys = k, !.error = error]
    BY <2>7
  <2> HIDE DEF k, error
  <2>11. /\ t \in Scans /\ t.flows = s.flows /\ t.indents = s.indents /\ t.error = error
         /\ t.queue = s.queue /\ t.text = s.text /\ t.line = s.line /\ t.keys = k
         /\ t.started = s.started /\ t.ended = s.ended /\ t.keyAllowed = s.keyAllowed
    BY <2>8, <2>9, <2>10 DEF Typed, Scans
  <2>12. Len(t.keys) <= Len(s.keys) /\ \A i \in 1..Len(t.keys) : t.keys[i] = s.keys[i]
    BY <2>1, <2>6, <2>8, <2>11 DEF l
  <2>13. Alike(s, t)
    BY <2>9, <2>11, <2>12, KeysSet
  <2> QED BY <2>5, <2>8, <2>11, <2>13 DEF t, k
<1> QED BY <1>1, <1>2

LEMMA PurgeKeeps ==
  ASSUME NEW s, Typed(s)
  PROVE  /\ Alike(s, PurgeStale(s))
         /\ PurgeStale(s).keyAllowed = s.keyAllowed /\ PurgeStale(s).queue = s.queue
         /\ PurgeStale(s).flows = s.flows /\ PurgeStale(s).indents = s.indents
         /\ s.error = "none" /\ Block(s) /\ KeysUpTo(s.keys, s.line - 1) => PurgeStale(s).keys = <<>>
<1> DEFINE gone == {i \in DOMAIN s.keys : Stale(s, s.keys[i])}
           t == PurgeStale(s)
<1>1. t = Without(s, gone)
  BY DEF PurgeStale
<1>2. /\ s.keys \in Seq(SimpleKeys) /\ DOMAIN s.keys = 1..Len(s.keys) /\ Len(s.keys) \in Nat /\ s.line \in Int
      /\ \A i \in 1..Len(s.keys) : s.keys[i].line \in Int
  <2>1. \A i \in 1..Len(s.keys) : s.keys[i].line \in Int
    BY TypedParts DEF SimpleKeys
  <2> QED BY <2>1, TypedParts, LenProperties
<1> HIDE DEF t
<1>3. s.error = "none" /\ Block(s) /\ KeysUpTo(s.keys, s.line - 1) => gone = 1..Len(s.keys)
  BY <1>2 DEF Stale, KeysUpTo
<1> HIDE DEF gone
<1>4. /\ Alike(s, t) /\ t.keyAllowed = s.keyAllowed /\ t.queue = s.queue /\ t.flows = s.flows
      /\ t.indents = s.indents
      /\ s.error = "none" => Len(t.keys) = 0 \/ Len(t.keys) \notin gone
  BY <1>1, WithoutKeeps
<1>5. t.keys \in Seq(SimpleKeys) /\ Len(t.keys) \in Nat /\ Len(t.keys) <= Len(s.keys)
  BY <1>4, TypedParts DEF Alike, Near
<1>6. Len(t.keys) = 0 => t.keys = <<>>
  BY <1>5, EmptySeq
<1> QED BY <1>2, <1>3, <1>4, <1>5, <1>6 DEF t

LEMMA RemoveKeeps ==
  ASSUME NEW s, Typed(s)
  PROVE  /\ Alike(s, RemoveKey(s))
         /\ RemoveKey(s).keyAllowed = s.keyAllowed /\ RemoveKey(s).queue = s.queue
         /\ RemoveKey(s).flows = s.flows /\ RemoveKey(s).indents = s.indents
         /\ s.error = "none" /\ Sound(s) =>
              \A i \in 1..Len(RemoveKey(s).keys) : RemoveKey(s).keys[i].level < Level(s)
         /\ s.error = "none" /\ Block(s) => RemoveKey(s).keys = <<>>
<1> DEFINE gone == {i \in DOMAIN s.keys : s.keys[i].level >= Level(s)}
           t == RemoveKey(s)
<1>1. t = Without(s, gone)
  BY DEF RemoveKey
<1>2. /\ DOMAIN s.keys = 1..Len(s.keys) /\ Len(s.keys) \in Nat
      /\ \A i \in 1..Len(s.keys) : s.keys[i].level \in Nat
  <2>1. s.keys \in Seq(SimpleKeys) /\ \A i \in 1..Len(s.keys) : s.keys[i] \in SimpleKeys
    BY TypedParts
  <2> QED BY <2>1, LenProperties DEF SimpleKeys
<1> HIDE DEF t
<1>3. /\ Alike(s, t) /\ t.keyAllowed = s.keyAllowed /\ t.queue = s.queue /\ t.flows = s.flows
      /\ t.indents = s.indents
      /\ s.error = "none" => Len(t.keys) = 0 \/ Len(t.keys) \notin gone
  <2> HIDE DEF gone
  <2> QED BY <1>1, WithoutKeeps
<1>4. /\ t.keys \in Seq(SimpleKeys) /\ Len(t.keys) \in Nat /\ Len(t.keys) <= Len(s.keys)
      /\ \A i \in 1..Len(t.keys) : t.keys[i] = s.keys[i]
  BY <1>3, TypedParts DEF Alike, Near
<1>5. Len(t.keys) = 0 => t.keys = <<>>
  BY <1>4, EmptySeq
<1>6. s.error = "none" /\ Len(t.keys) # 0 => s.keys[Len(t.keys)].level < Level(s)
  <2>1. Len(t.keys) # 0 => Len(t.keys) \in 1..Len(s.keys)
    BY <1>2, <1>4
  <2> QED BY <1>2, <1>3, <2>1, TypedParts
<1>7. ASSUME s.error = "none", Sound(s), NEW i \in 1..Len(t.keys)
      PROVE  t.keys[i].level < Level(s)
  <2>1. i \in 1..Len(s.keys) /\ Len(t.keys) \in 1..Len(s.keys) /\ Len(t.keys) # 0 /\ i <= Len(t.keys)
    BY <1>2, <1>4
  <2>2. i < Len(t.keys) => s.keys[i].level < s.keys[Len(t.keys)].level
    BY <1>7, <2>1 DEF Sound, KeysOrdered
  <2>3. s.keys[i].level \in Nat /\ s.keys[Len(t.keys)].level \in Nat /\ Level(s) \in Nat
    BY <1>2, <2>1, TypedParts
  <2>4. s.keys[i].level < Level(s)
    BY <1>6, <1>7, <2>1, <2>2, <2>3
  <2> QED BY <1>4, <2>4
<1>8. s.error = "none" /\ Block(s) => t.keys = <<>>
  <2>1. Len(t.keys) # 0 => Len(t.keys) \in 1..Len(s.keys)
    BY <1>2, <1>4
  <2> QED BY <1>2, <1>5, <1>6, <2>1 DEF Block
<1> QED BY <1>3, <1>7, <1>8 DEF t

LEMMA RemoveAllKeeps ==
  ASSUME NEW s, Typed(s)
  PROVE  /\ Near(s, RemoveAllKeys(s)) /\ (Sound(s) => Sound(RemoveAllKeys(s)))
         /\ RemoveAllKeys(s).keys = <<>> /\ RemoveAllKeys(s).error = s.error
<1> DEFINE t == [s EXCEPT !.keys = <<>>]
<1>1. /\ t \in Scans /\ t.flows = s.flows /\ t.indents = s.indents /\ t.error = s.error
      /\ t.queue = s.queue /\ t.text = s.text /\ t.line = s.line /\ t.keys = <<>>
      /\ t.started = s.started /\ t.ended = s.ended /\ t.keyAllowed = s.keyAllowed
  BY EmptySeq DEF Typed, Scans
<1>2. RemoveAllKeys(s) = AllowKey(t, TRUE)
  BY DEF RemoveAllKeys
<1> HIDE DEF t
<1>3. Len(t.keys) = 0
  BY <1>1
<1>4. Alike(s, t)
  BY <1>1, <1>3, TypedParts, KeysSet
<1>5. KeysUpTo(t.keys, t.line - 1)
  BY <1>3 DEF KeysUpTo
<1>6. /\ Near(t, AllowKey(t, TRUE)) /\ AllowKey(t, TRUE).error = t.error
      /\ AllowKey(t, TRUE).keys = t.keys /\ (Sound(t) => Sound(AllowKey(t, TRUE)))
  BY <1>4, <1>5, PermitKey DEF Alike, Near
<1>7. Near(s, AllowKey(t, TRUE))
  BY <1>4, <1>6, NearTrans DEF Alike
<1> QED BY <1>1, <1>2, <1>4, <1>6, <1>7, AlikeSound

LEMMA KeysReplace ==
  ASSUME NEW keys \in Seq(SimpleKeys), NEW key \in SimpleKeys,
         NEW line \in Int, NEW level \in Nat, KeysOrdered(keys, line, level),
         key.level = level, key.line <= line, key.required => level = 0,
         NEW isNew \in BOOLEAN, isNew <=> keys = <<>> \/ Last(keys).level < level,
         NEW k, k = (IF isNew THEN keys ELSE Front(keys)) \o <<key>>
  PROVE  /\ k \in Seq(SimpleKeys) /\ KeysOrdered(k, line, level)
         /\ \A i \in 1..Len(k) : k[i] = key \/ \E j \in 1..Len(keys) : k[i] = keys[j]
<1> DEFINE old == IF isNew THEN keys ELSE Front(keys)
<1>1. Len(keys) \in Nat /\ \A i \in 1..Len(keys) : keys[i] \in SimpleKeys /\ keys[i].level \in Nat
  <2>1. \A i \in 1..Len(keys) : keys[i] \in SimpleKeys
    BY ElementOfSeq
  <2> QED BY <2>1, LenProperties DEF SimpleKeys
<1>2. /\ old \in Seq(SimpleKeys) /\ Len(old) \in Nat /\ Len(old) <= Len(keys)
      /\ \A i \in 1..Len(old) : old[i] = keys[i]
      /\ \A i \in 1..Len(old) : i <= Len(keys) /\ keys[i].level < level
  <2>1. CASE isNew
    <3>1. ASSUME NEW i \in 1..Len(keys)
          PROVE  keys[i].level < level
      <4>1. keys # <<>>
        BY <1>1, EmptySeq
      <4>2. Last(keys).level < level /\ Last(keys) = keys[Len(keys)] /\ Len(keys) \in 1..Len(keys)
        BY <1>1, <2>1, <4>1 DEF Last
      <4>3. i < Len(keys) => keys[i].level < keys[Len(keys)].level
        BY <4>2 DEF KeysOrdered
      <4> QED BY <1>1, <4>2, <4>3
    <3> QED BY <1>1, <2>1, <3>1
  <2>2. CASE ~isNew
    <3>1. keys # <<>>
      BY <2>2
    <3>2. /\ Front(keys) \in Seq(SimpleKeys) /\ Len(keys) \in Nat \ {0}
          /\ Len(Front(keys)) = Len(keys) - 1
          /\ \A i \in 1..Len(Front(keys)) : Front(keys)[i] = keys[i]
      BY <3>1, FrontLast
    <3>3. ASSUME NEW i \in 1..(Len(keys) - 1)
          PROVE  keys[i].level < level
      <4>1. i \in 1..Len(keys) /\ Len(keys) \in 1..Len(keys) /\ i < Len(keys)
        BY <3>2
      <4>2. keys[i].level < keys[Len(keys)].level /\ keys[Len(keys)].level <= level
        BY <4>1 DEF KeysOrdered
      <4> QED BY <1>1, <4>1, <4>2
    <3> QED BY <2>2, <3>2, <3>3
  <2> QED BY <2>1, <2>2
<1>3. k = old \o <<key>>
  OBVIOUS
<1> HIDE DEF old
<1>4. /\ k \in Seq(SimpleKeys) /\ Len(k) = Len(old) + 1
      /\ \A i \in 1..Len(old) : k[i] = old[i]
      /\ k[Len(old) + 1] = key
  <2>1. old \o <<key>> = Append(old, key)
    BY <1>2, AppendFacts
  <2>2. /\ Append(old, key) \in Seq(SimpleKeys) /\ Len(Append(old, key)) = Len(old) + 1
        /\ \A i \in 1..Len(old) : Append(old, key)[i] = old[i]
        /\ Append(old, key)[Len(old) + 1] = key
    BY <1>2, AppendProperties
  <2>3. k = Append(old, key)
    BY <1>3, <2>1
  <2> QED BY <2>2, <2>3
<1>5. \A i \in 1..Len(k) : i \in 1..Len(old) \/ i = Len(old) + 1
  BY <1>2, <1>4
<1>6. \A i \in 1..Len(old) : i \in 1..Len(keys)
  BY <1>1, <1>2
<1>7. ASSUME NEW i \in 1..Len(k)
      PROVE  k[i].level <= level /\ k[i].line <= line /\ (k[i].required => k[i].level = 0)
  <2>1. CASE i \in 1..Len(old)
    BY <1>2, <1>4, <1>6, <2>1 DEF KeysOrdered
  <2>2. CASE i = Len(old) + 1
    <3>1. k[i] = key
      BY <1>4, <2>2
    <3>2. k[i].level = level /\ k[i].line <= line /\ (k[i].required => level = 0)
      BY <3>1
    <3> QED BY <3>2
  <2> QED BY <1>5, <2>1, <2>2
<1>8. ASSUME NEW i \in 1..Len(k), NEW j \in 1..Len(k), i < j
      PROVE  k[i].level < k[j].level
  <2>1. i \in 1..Len(old)
    BY <1>2, <1>4, <1>8
  <2>2. CASE j \in 1..Len(old)
    BY <1>2, <1>4, <1>6, <1>8, <2>1, <2>2 DEF KeysOrdered
  <2>3. CASE j = Len(old) + 1
    BY <1>2, <1>4, <2>1, <2>3
  <2> QED BY <1>5, <2>2, <2>3
<1>9. ASSUME NEW i \in 1..Len(k)
      PROVE  k[i] = key \/ \E j \in 1..Len(keys) : k[i] = keys[j]
  BY <1>2, <1>4, <1>5, <1>6
<1> QED BY <1>4, <1>7, <1>8, <1>9 DEF KeysOrdered

LEMMA KeysReplaceType ==
  ASSUME NEW keys \in Seq(SimpleKeys), NEW key \in SimpleKeys,
         NEW old, old = keys \/ (keys # <<>> /\ old = Front(keys))
  PROVE  /\ old \o <<key>> \in Seq(SimpleKeys)
         /\ \A i \in 1..Len(old \o <<key>>) :
              (old \o <<key>>)[i] = key \/ \E j \in 1..Len(keys) : (old \o <<key>>)[i] = keys[j]
<1>1. Len(keys) \in Nat
  BY LenProperties
<1>2. /\ old \in Seq(SimpleKeys) /\ Len(old) \in Nat /\ Len(old) <= Len(keys)
      /\ \A i \in 1..Len(old) : old[i] = keys[i]
  <2>1. CASE old = keys
    BY <1>1, <2>1
  <2>2. CASE keys # <<>> /\ old = Front(keys)
    <3>1. /\ Front(keys) \in Seq(SimpleKeys) /\ Len(keys) \in Nat \ {0}
          /\ Len(Front(keys)) = Len(keys) - 1
          /\ \A i \in 1..Len(Front(keys)) : Front(keys)[i] = keys[i]
      BY <2>2, FrontLast
    <3> QED BY <2>2, <3>1
  <2> QED BY <2>1, <2>2
<1> DEFINE k == old \o <<key>>
<1>4. /\ k \in Seq(SimpleKeys) /\ Len(k) = Len(old) + 1
      /\ \A i \in 1..Len(old) : k[i] = old[i]
      /\ k[Len(old) + 1] = key
  <2>1. old \o <<key>> = Append(old, key)
    BY <1>2, AppendFacts
  <2>2. /\ Append(old, key) \in Seq(SimpleKeys) /\ Len(Append(old, key)) = Len(old) + 1
        /\ \A i \in 1..Len(old) : Append(old, key)[i] = old[i]
        /\ Append(old, key)[Len(old) + 1] = key
    BY <1>2, AppendProperties
  <2> QED BY <2>1, <2>2
<1> HIDE DEF k
<1>5. ASSUME NEW i \in 1..Len(k)
      PROVE  k[i] = key \/ \E j \in 1..Len(keys) : k[i] = keys[j]
  <2>1. i \in 1..Len(old) \/ i = Len(old) + 1
    BY <1>2, <1>4
  <2> QED BY <1>1, <1>2, <1>4, <2>1
<1> QED BY <1>4, <1>5 DEF k

(* What a fetch leaves alone when it saves a key.                          *)
Beside(s, t) ==
  /\ Typed(t)
  /\ Len(t.flows) = Len(s.flows)
  /\ t.text = s.text /\ t.line = s.line /\ t.started = s.started /\ t.ended = s.ended

(***************************************************************************)
(* A key that is saved never takes the place of a required one.            *)
(***************************************************************************)
LEMMA SaveKeeps ==
  ASSUME NEW s, Typed(s), s.error = "none", s.queue # <<>>,
         NEW mark, mark.line \in Int, mark.col \in Int,
         NEW required \in BOOLEAN, NEW endLine \in Int
  PROVE  /\ Beside(s, SaveKey(s, mark, required, endLine))
         /\ SaveKey(s, mark, required, endLine).keyAllowed = s.keyAllowed
         /\ Sound(s) => SaveKey(s, mark, required, endLine).error # "internal"
         /\ Sound(s) /\ SaveKey(s, mark, required, endLine).error = "none" =>
              /\ mark.line <= s.line /\ (required => Block(s)) =>
                   KeysOrdered(SaveKey(s, mark, required, endLine).keys, s.line, Level(s))
              /\ \A line \in Int : KeysUpTo(s.keys, line) /\ mark.line <= line =>
                   KeysUpTo(SaveKey(s, mark, required, endLine).keys, line)
<1> DEFINE purged == PurgeStale(s)
           old    == Pending(purged)
           forgot == Block(purged) /\ old # NoKey /\ mark.line > old.line /\ mark.col <= old.col
           kept   == IF forgot THEN SetPending(purged, NoKey) ELSE purged
           complex == ~Complex(kept) /\ Last(kept.queue) \in {"FLOW-MAPPING-START", "FLOW-SEQUENCE-START"}
           key    == [line |-> mark.line, col |-> mark.col, end |-> endLine, required |-> required,
                      token |-> Len(kept.queue), level |-> Level(kept), complex |-> complex]
           isNew  == kept.keys = <<>> \/ Last(kept.keys).level < Level(kept)
           free   == isNew \/ ~Last(kept.keys).required
           freed  == Ensure(kept, free)
           k      == (IF isNew THEN kept.keys ELSE Front(kept.keys)) \o <<key>>
           t      == SaveKey(s, mark, required, endLine)
           inPlace == [freed EXCEPT !.keys = (IF isNew THEN @ ELSE Front(@)) \o <<key>>]
<1>1. t = IF ~purged.keyAllowed THEN purged ELSE Do(freed, inPlace)
  BY DEF SaveKey
<1>2. /\ Alike(s, purged) /\ purged.keyAllowed = s.keyAllowed /\ purged.queue = s.queue
      /\ purged.flows = s.flows
      /\ s.error = "none" /\ Block(s) /\ KeysUpTo(s.keys, s.line - 1) => purged.keys = <<>>
  BY PurgeKeeps
<1> HIDE DEF purged
<1>3. /\ Alike(s, kept) /\ kept.keys = purged.keys /\ kept.keyAllowed = s.keyAllowed
      /\ kept.error = purged.error /\ kept.queue = s.queue
  <2>1. CASE ~forgot
    BY <1>2, <2>1
  <2>2. CASE forgot
    <3>1. /\ Alike(purged, kept) /\ kept.keys = purged.keys /\ kept.keyAllowed = purged.keyAllowed
          /\ kept.error = purged.error /\ kept.queue = purged.queue
      BY <1>2, <2>2, PendingKeeps DEF Alike, Near
    <3>2. Alike(s, kept)
      BY <1>2, <3>1, AlikeTrans
    <3> QED BY <1>2, <3>1, <3>2
  <2> HIDE DEF forgot
  <2> QED BY <2>1, <2>2
<1> HIDE DEF kept, forgot, old
<1>4. /\ Typed(kept) /\ Level(kept) = Level(s) /\ kept.line = s.line /\ kept.text = s.text
      /\ Len(kept.flows) = Len(s.flows) /\ kept.started = s.started /\ kept.ended = s.ended
      /\ kept.error \in {"none", "syntax"}
      /\ Len(kept.keys) \in Nat /\ Len(s.keys) \in Nat /\ Len(kept.keys) <= Len(s.keys)
      /\ \A i \in 1..Len(kept.keys) : kept.keys[i] = s.keys[i]
  BY <1>3, TypedParts DEF Alike, Near, Level
<1>5. Sound(s) => Sound(kept)
  BY <1>3, AlikeSound
<1>6. complex \in BOOLEAN
  OBVIOUS
<1> HIDE DEF complex
<1>7. Len(kept.queue) \in Nat \ {0} /\ Level(kept) \in Nat
  BY <1>3, <1>4, TypedParts, EmptySeq
<1>8. /\ key \in SimpleKeys /\ key.level = Level(kept) /\ key.line = mark.line
      /\ key.required = required /\ key.token = Len(kept.queue)
  BY <1>6, <1>7 DEF SimpleKeys
<1> HIDE DEF key
<1>9. CASE ~purged.keyAllowed
  <2>1. t = purged
    BY <1>1, <1>9
  <2>2. Beside(s, purged) /\ (Sound(s) => Sound(purged))
    BY <1>2, AlikeSound DEF Alike, Near, Beside
  <2>3. \A line \in Int : KeysUpTo(s.keys, line) => KeysUpTo(purged.keys, line)
    BY <1>3, <1>4 DEF KeysUpTo
  <2>4. Level(purged) = Level(s) /\ purged.line = s.line
    BY <1>2 DEF Level, Alike, Near
  <2> HIDE DEF t
  <2>5. /\ Beside(s, t) /\ t.keyAllowed = s.keyAllowed /\ (Sound(s) => t.error # "internal")
        /\ Sound(s) /\ t.error = "none" =>
             /\ mark.line <= s.line /\ (required => Block(s)) => KeysOrdered(t.keys, s.line, Level(s))
             /\ \A line \in Int : KeysUpTo(s.keys, line) /\ mark.line <= line => KeysUpTo(t.keys, line)
    BY <1>2, <2>1, <2>2, <2>3, <2>4 DEF Sound
  <2> QED BY <2>5 DEF t
<1>10. CASE purged.keyAllowed /\ kept.error # "none"
  <2>1. t = kept
    BY <1>1, <1>10 DEF Do, Ensure
  <2>2. /\ Beside(s, kept) /\ kept.keyAllowed = s.keyAllowed /\ (Sound(s) => kept.error # "internal")
    BY <1>3, <1>4 DEF Beside
  <2> HIDE DEF t
  <2>3. /\ Beside(s, t) /\ t.keyAllowed = s.keyAllowed /\ (Sound(s) => t.error # "internal")
        /\ t.error # "none"
    BY <1>10, <2>1, <2>2
  <2> QED BY <2>3 DEF t
<1>11. CASE purged.keyAllowed /\ kept.error = "none" /\ ~free
  <2>1. t = freed /\ freed = [kept EXCEPT !.error = "internal"]
    <3>1. freed = [kept EXCEPT !.error = "internal"]
      BY <1>11 DEF Do, Ensure
    <3>2. freed.error = "internal"
      BY <1>4, <3>1, ErrorSet DEF Errors
    <3> HIDE DEF freed, inPlace
    <3> QED BY <1>1, <1>11, <3>1, <3>2 DEF Do
  <2> HIDE DEF t, freed
  <2>2. /\ t \in Scans /\ t.flows = kept.flows /\ t.indents = kept.indents /\ t.keys = kept.keys
        /\ t.queue = kept.queue /\ t.text = kept.text /\ t.line = kept.line
        /\ t.started = kept.started /\ t.ended = kept.ended /\ t.keyAllowed = kept.keyAllowed
        /\ t.error = "internal"
    BY <1>4, <2>1 DEF Typed, Scans, Errors
  <2>3. Beside(s, t)
    BY <1>4, <2>2 DEF Beside, Typed
  <2>4. ~Sound(s)
    <3> SUFFICES ASSUME Sound(s)
                 PROVE  FALSE
      OBVIOUS
    <3>1. KeysOrdered(kept.keys, kept.line, Level(kept))
      BY <1>5, <1>11 DEF Sound
    <3>2. kept.keys # <<>> /\ ~(Last(kept.keys).level < Level(kept)) /\ Last(kept.keys).required
      BY <1>11
    <3>3. Len(kept.keys) \in 1..Len(kept.keys) /\ Last(kept.keys) = kept.keys[Len(kept.keys)]
      BY <1>4, <3>2, TypedParts, EmptySeq DEF Last
    <3>4. Last(kept.keys).level = 0 /\ Last(kept.keys).level <= Level(kept)
      BY <3>1, <3>2, <3>3 DEF KeysOrdered
    <3>5. Level(s) = 0
      BY <1>4, <1>7, <3>2, <3>4
    <3>6. Block(s) /\ s.keyAllowed
      BY <1>2, <1>11, <3>5 DEF Block
    <3>7. purged.keys = <<>>
      BY <1>2, <3>6 DEF Sound, KeysPast
    <3> QED BY <1>3, <3>2, <3>7
  <2>5. Beside(s, t) /\ t.keyAllowed = s.keyAllowed /\ t.error = "internal"
    BY <1>3, <2>2, <2>3
  <2> QED BY <2>4, <2>5 DEF t
<1>12. CASE purged.keyAllowed /\ kept.error = "none" /\ free
  <2>1. t = [kept EXCEPT !.keys = k]
    <3>1. freed = kept
      BY <1>12 DEF Ensure
    <3> HIDE DEF freed
    <3>2. inPlace = [kept EXCEPT !.keys = k]
      BY <3>1
    <3> HIDE DEF inPlace, k
    <3> QED BY <1>1, <1>12, <3>1, <3>2 DEF Do
  <2>2. isNew \in BOOLEAN /\ (~isNew => kept.keys # <<>>) /\ kept.keys \in Seq(SimpleKeys)
    BY <1>4, TypedParts
  <2>3. /\ k \in Seq(SimpleKeys)
        /\ \A i \in 1..Len(k) : k[i] = key \/ \E j \in 1..Len(kept.keys) : k[i] = kept.keys[j]
    <3> DEFINE keys == kept.keys
               was  == IF isNew THEN keys ELSE Front(keys)
    <3>1. was = keys \/ (keys # <<>> /\ was = Front(keys))
      <4>1. CASE isNew
        BY <4>1
      <4>2. CASE ~isNew
        BY <2>2, <4>2
      <4> QED BY <4>1, <4>2
    <3>2. keys \in Seq(SimpleKeys) /\ key \in SimpleKeys /\ k = was \o <<key>>
      BY <1>8, <2>2
    <3> HIDE DEF k, keys, was
    <3>3. /\ k \in Seq(SimpleKeys)
          /\ \A i \in 1..Len(k) : k[i] = key \/ \E j \in 1..Len(keys) : k[i] = keys[j]
      BY <3>1, <3>2, KeysReplaceType
    <3> QED BY <3>3 DEF keys
  <2>4. Sound(s) /\ mark.line <= s.line /\ (required => Block(s)) => KeysOrdered(k, s.line, Level(s))
    <3> SUFFICES ASSUME Sound(s), mark.line <= s.line, required => Block(s)
                 PROVE  KeysOrdered(k, kept.line, Level(kept))
      BY <1>4
    <3>1. KeysOrdered(kept.keys, kept.line, Level(kept))
      BY <1>5, <1>12 DEF Sound
    <3>2. key.line <= kept.line /\ (key.required => Level(kept) = 0) /\ kept.line \in Int
      BY <1>4, <1>8, TypedParts DEF Block
    <3>3. k = (IF isNew THEN kept.keys ELSE Front(kept.keys)) \o <<key>>
      OBVIOUS
    <3>4. isNew <=> kept.keys = <<>> \/ Last(kept.keys).level < Level(kept)
      OBVIOUS
    <3> HIDE DEF isNew, k
    <3> QED BY <1>7, <1>8, <2>2, <3>1, <3>2, <3>3, <3>4, KeysReplace
  <2> HIDE DEF k, t, isNew
  <2>5. /\ t \in Scans /\ t.flows = kept.flows /\ t.indents = kept.indents /\ t.keys = k
        /\ t.queue = kept.queue /\ t.text = kept.text /\ t.line = kept.line
        /\ t.started = kept.started /\ t.ended = kept.ended /\ t.keyAllowed = kept.keyAllowed
        /\ t.error = "none"
    BY <1>4, <1>12, <2>1, <2>3 DEF Typed, Scans
  <2>6. TokensFit(k, kept.queue)
    BY SMTT(60), <1>4, <1>7, <1>8, <2>3 DEF TokensFit, Typed
  <2>7. Beside(s, t)
    BY <1>4, <2>5, <2>6 DEF Beside, Typed
  <2>8. ASSUME NEW line \in Int, KeysUpTo(s.keys, line), mark.line <= line, NEW i \in 1..Len(k)
        PROVE  k[i].line <= line
    <3>1. CASE k[i] = key
      BY <1>8, <2>8, <3>1
    <3>2. CASE \E j \in 1..Len(kept.keys) : k[i] = kept.keys[j]
      <4>1. PICK j \in 1..Len(kept.keys) : k[i] = kept.keys[j]
        BY <3>2
      <4>2. j \in 1..Len(s.keys) /\ k[i] = s.keys[j]
        BY <1>4, <4>1
      <4> QED BY <2>8, <4>2 DEF KeysUpTo
    <3> QED BY <2>3, <3>1, <3>2
  <2>9. /\ Beside(s, t) /\ t.keyAllowed = s.keyAllowed /\ t.error = "none"
        /\ Sound(s) /\ mark.line <= s.line /\ (required => Block(s)) => KeysOrdered(t.keys, s.line, Level(s))
        /\ \A line \in Int : KeysUpTo(s.keys, line) /\ mark.line <= line => KeysUpTo(t.keys, line)
    BY <1>3, <2>4, <2>5, <2>7, <2>8 DEF KeysUpTo
  <2> QED BY <2>9 DEF t
<1> QED BY <1>4, <1>9, <1>10, <1>11, <1>12

-----------------------------------------------------------------------------
(* The changes of a flag, and of the line                                  *)

(* t is near to s, and sound when s is.                                    *)
Good(s, t) == Near(s, t) /\ (Sound(s) => Sound(t))

LEMMA GoodAlike ==
  ASSUME NEW s, NEW t, Typed(s), Alike(s, t)
  PROVE  Good(s, t)
BY AlikeSound DEF Good, Alike

LEMMA GoodTrans ==
  ASSUME NEW s, NEW t, NEW u, Typed(s), Good(s, t), Good(t, u)
  PROVE  Good(s, u)
BY NearTrans DEF Good

LEMMA GoodSelf ==
  ASSUME NEW s, Typed(s)
  PROVE  Good(s, s)
BY NearSelf, GoodAlike

LEMMA KeyAllowedSet ==
  ASSUME NEW s, Typed(s), NEW b \in BOOLEAN
  PROVE  LET t == [s EXCEPT !.keyAllowed = b]
         IN  /\ Near(s, t) /\ Unmoved(s, t) /\ t.queue = s.queue /\ t.keyAllowed = b
             /\ Sound(s) /\ (s.error = "none" /\ Block(s) /\ b => KeysUpTo(s.keys, s.line - 1)) => Sound(t)
<1> DEFINE t == [s EXCEPT !.keyAllowed = b]
<1>1. Unmoved(s, t) /\ t.queue = s.queue /\ t.keyAllowed = b
  BY DEF Unmoved, Typed, Scans
<1> HIDE DEF t
<1>2. Typed(t)
  BY <1>1 DEF Unmoved, Typed
<1>3. Near(s, t)
  BY <1>1, <1>2, TypedParts DEF Near, Unmoved
<1>4. Sound(s) /\ (s.error = "none" /\ Block(s) /\ b => KeysUpTo(s.keys, s.line - 1)) => Sound(t)
  BY <1>1, <1>3, NearSound DEF Unmoved, Block, Level
<1> QED BY <1>1, <1>3, <1>4 DEF t

LEMMA TabUsedSet ==
  ASSUME NEW s, Typed(s), NEW b \in BOOLEAN
  PROVE  LET t == [s EXCEPT !.tabUsed = b]
         IN  Alike(s, t) /\ Unmoved(s, t) /\ t.queue = s.queue /\ t.keyAllowed = s.keyAllowed
<1> DEFINE t == [s EXCEPT !.tabUsed = b]
<1>1. Unmoved(s, t) /\ t.queue = s.queue /\ t.keyAllowed = s.keyAllowed
  BY DEF Unmoved, Typed, Scans
<1> HIDE DEF t
<1>2. Alike(s, t)
  BY <1>1, TypedParts, QueueSet DEF Typed
<1> QED BY <1>1, <1>2 DEF t

LEMMA ColonSet ==
  ASSUME NEW s, Typed(s), NEW b \in BOOLEAN
  PROVE  LET t == [s EXCEPT !.colonTwice = b]
         IN  Alike(s, t) /\ Unmoved(s, t) /\ t.queue = s.queue /\ t.keyAllowed = s.keyAllowed
<1> DEFINE t == [s EXCEPT !.colonTwice = b]
<1>1. Unmoved(s, t) /\ t.queue = s.queue /\ t.keyAllowed = s.keyAllowed
  BY DEF Unmoved, Typed, Scans
<1> HIDE DEF t
<1>2. Alike(s, t)
  BY <1>1, TypedParts, QueueSet DEF Typed
<1> QED BY <1>1, <1>2 DEF t

LEMMA RemoveAllow ==
  ASSUME NEW s, Typed(s)
  PROVE  /\ Good(s, AllowKey(RemoveKey(s), TRUE))
         /\ AllowKey(RemoveKey(s), TRUE).error = "none" => s.error = "none"
         /\ AllowKey(RemoveKey(s), TRUE).indents = s.indents
<1> DEFINE r == RemoveKey(s)
           t == AllowKey(r, TRUE)
<1>1. /\ Alike(s, r) /\ r.indents = s.indents /\ (s.error = "none" /\ Block(s) => r.keys = <<>>)
  BY RemoveKeeps
<1>2. t.indents = r.indents
  <2> HIDE DEF r
  <2> QED BY <1>1 DEF AllowKey, Alike, Near, Typed, Scans
<1> HIDE DEF r
<1>3. r.error = "none" /\ Block(r) => KeysUpTo(r.keys, r.line - 1)
  BY <1>1, EmptySeq DEF Alike, Near, Block, Level, KeysUpTo
<1>4. Near(r, t) /\ t.error = r.error /\ (Sound(r) => Sound(t))
  BY <1>1, <1>3, PermitKey DEF Alike, Near
<1> HIDE DEF t
<1>5. Good(s, t)
  BY <1>1, <1>4, GoodAlike, GoodTrans DEF Good
<1> QED BY <1>1, <1>2, <1>4, <1>5 DEF t, r, Alike, Near

(* The reader goes on to a later line.                                     *)
LEMMA LineSet ==
  ASSUME NEW s, Typed(s), s.error = "none", s.text = <<>>, NEW line \in Int, s.line <= line
  PROVE  LET t == [s EXCEPT !.line = line]
         IN  /\ Typed(t) /\ t.line = line /\ t.error = "none" /\ t.text = <<>>
             /\ t.flows = s.flows /\ t.keys = s.keys /\ t.keyAllowed = s.keyAllowed
             /\ t.indents = s.indents
             /\ t.queue = s.queue /\ t.started = s.started /\ t.ended = s.ended
             /\ Sound(s) => Sound(t)
<1> DEFINE t == [s EXCEPT !.line = line]
<1>1. /\ t \in Scans /\ t.line = line /\ t.error = "none" /\ t.text = <<>>
      /\ t.flows = s.flows /\ t.keys = s.keys /\ t.keyAllowed = s.keyAllowed /\ t.indents = s.indents
      /\ t.queue = s.queue /\ t.started = s.started /\ t.ended = s.ended
  BY DEF Typed, Scans
<1> HIDE DEF t
<1>2. Typed(t)
  BY <1>1 DEF Typed
<1>3. s.line \in Int /\ \A i \in 1..Len(s.keys) : s.keys[i].line \in Int
  BY TypedParts DEF SimpleKeys
<1>4. Sound(s) => Sound(t)
  BY <1>1, <1>3 DEF Sound, KeysOrdered, KeysPast, KeysUpTo, TextFits, Level, Block
<1> QED BY <1>1, <1>2, <1>4 DEF t

LEMMA ColumnType ==
  ASSUME NEW s, NEW x \in Lexemes
  PROVE  Column(s, x) \in Int /\ Column(s, x) >= -1
<1>1. x.col \in Nat
  BY DEF Lexemes
<1>2. Column(s, x) \in {x.col, x.col - 1}
  BY DEF Column
<1> QED BY <1>1, <1>2

LEMMA ScanToKeeps ==
  ASSUME NEW s, Typed(s), s.error = "none", s.text = <<>>, NEW x \in Lexemes, s.line <= x.line
  PROVE  /\ Typed(ScanTo(s, x)) /\ (Sound(s) => Sound(ScanTo(s, x)))
         /\ ScanTo(s, x).text = <<>> /\ ScanTo(s, x).started = s.started
         /\ ScanTo(s, x).ended = s.ended /\ ScanTo(s, x).keys = s.keys
         /\ ScanTo(s, x).error = "none" => ScanTo(s, x).line = x.line
<1> DEFINE ok == x.tab => x.is = "#" \/ x.col - 1 > Indent(s)
           checked == Check(s, ok)
           arrived == [checked EXCEPT !.line = x.line]
           t == ScanTo(s, x)
           later == x.line > s.line /\ Block(s) /\ ~s.keyAllowed
<1>1. t = Do(checked, IF later THEN AllowKey(arrived, TRUE) ELSE arrived)
  BY DEF ScanTo
<1>2. ok \in BOOLEAN /\ x.line \in Int
  BY DEF Lexemes
<1>3. /\ Alike(s, checked)
      /\ checked.error = "none" => ok /\ checked = s
      /\ checked.keys = s.keys
  <2> HIDE DEF ok
  <2> QED BY <1>2, CheckKeeps
<1> HIDE DEF checked, later
<1>4. CASE checked.error # "none"
  <2>1. t = checked
    BY <1>1, <1>4 DEF Do
  <2> HIDE DEF t
  <2>2. /\ Typed(t) /\ (Sound(s) => Sound(t)) /\ t.text = <<>> /\ t.started = s.started
        /\ t.ended = s.ended /\ t.error # "none" /\ t.keys = s.keys
    BY <1>3, <1>4, <2>1, AlikeSound DEF Alike, Near
  <2> QED BY <2>2 DEF t
<1>5. CASE checked.error = "none"
  <2>1. arrived = [s EXCEPT !.line = x.line] /\ checked = s
    BY <1>3, <1>5
  <2> HIDE DEF arrived
  <2>2. /\ Typed(arrived) /\ arrived.line = x.line /\ arrived.error = "none" /\ arrived.text = <<>>
        /\ arrived.flows = s.flows /\ arrived.keys = s.keys
        /\ arrived.started = s.started /\ arrived.ended = s.ended
        /\ Sound(s) => Sound(arrived)
    BY <1>2, <2>1, LineSet
  <2>3. CASE ~later
    <3>1. t = arrived
      BY <1>1, <1>5, <2>3 DEF Do
    <3> HIDE DEF t
    <3> QED BY <2>2, <3>1 DEF t
  <2>4. CASE later
    <3> DEFINE allowed == [arrived EXCEPT !.keyAllowed = TRUE]
               quiet   == [allowed EXCEPT !.tabUsed = FALSE]
    <3>1. t = quiet
      BY <1>1, <1>5, <2>4 DEF Do, AllowKey
    <3>2. /\ Near(arrived, allowed) /\ Unmoved(arrived, allowed)
          /\ Sound(arrived) /\ KeysUpTo(arrived.keys, arrived.line - 1) => Sound(allowed)
      <4> HIDE DEF allowed
      <4> QED BY <2>2, KeyAllowedSet DEF allowed
    <3>3. Sound(s) => KeysUpTo(arrived.keys, arrived.line - 1)
      <4>1. s.line \in Int /\ \A i \in 1..Len(s.keys) : s.keys[i].line \in Int
        BY TypedParts DEF SimpleKeys
      <4> QED BY <1>2, <2>2, <2>4, <4>1 DEF later, Sound, KeysOrdered, KeysUpTo
    <3> HIDE DEF allowed
    <3>4. Alike(allowed, quiet) /\ Unmoved(allowed, quiet)
      BY <3>2, TabUsedSet DEF Near
    <3> HIDE DEF quiet, t
    <3>5. /\ Typed(t) /\ (Sound(s) => Sound(t)) /\ t.text = <<>> /\ t.started = s.started
          /\ t.ended = s.ended /\ t.line = x.line /\ t.keys = s.keys
      BY <2>2, <3>1, <3>2, <3>3, <3>4, AlikeSound DEF Alike, Near, Unmoved
    <3> QED BY <3>5 DEF t
  <2> QED BY <2>3, <2>4
<1> QED BY <1>4, <1>5

-----------------------------------------------------------------------------
(* The tokens *)

(* The state a token is fetched in, and what the fetch makes of it.        *)
Fresh(s, line) == Typed(s) /\ s.error = "none" /\ s.text = <<>> /\ ~s.ended /\ s.line = line
Result(s, t, line) ==
  /\ Typed(t) /\ t.started = s.started /\ (Sound(s) => Sound(t))
  /\ t.error = "none" => t.line = line /\ (t.ended => t.keys = <<>> /\ t.text = <<>>)

LEMMA GoodResult ==
  ASSUME NEW s, NEW t, NEW line, Fresh(s, line), Good(s, t)
  PROVE  Result(s, t, line)
BY DEF Fresh, Good, Near, Result

LEMMA ArrivedKeeps ==
  ASSUME NEW s, Typed(s), s.error = "none", s.text = <<>>, ~s.ended,
         NEW x \in Lexemes, s.line <= x.line, NEW b \in BOOLEAN
  PROVE  LET a == [Arrived(s, x) EXCEPT !.colonTwice = b]
             p == AtLine(a, x.line)
         IN  /\ Typed(Arrived(s, x))
             /\ Typed(a) /\ a.started = s.started /\ (Sound(s) => Sound(a))
             /\ a.error = "none" => Fresh(a, x.line)
             /\ Typed(p) /\ p.started = s.started /\ (Sound(s) => Sound(p))
             /\ a.error = "none" => Fresh(p, x.line)
<1> DEFINE t == ScanTo(s, x)
           u == Unroll(t, Column(s, x))
           v == Do(t, u)
           a == [v EXCEPT !.colonTwice = b]
           p == AtLine(a, x.line)
<1>1. /\ Typed(t) /\ (Sound(s) => Sound(t)) /\ t.text = <<>> /\ t.started = s.started
      /\ t.ended = s.ended /\ (t.error = "none" => t.line = x.line)
  BY ScanToKeeps
<1>2. x.line \in Int /\ Column(s, x) \in Int /\ Column(s, x) >= -2
  <2>1. Column(s, x) \in Int /\ Column(s, x) >= -1
    BY ColumnType
  <2> QED BY <2>1 DEF Lexemes
<1>3. v = Arrived(s, x)
  BY DEF Arrived
<1> HIDE DEF t
<1>4. Alike(t, u)
  BY <1>1, <1>2, UnrollKeeps
<1> HIDE DEF u
<1>5. Alike(t, v)
  BY <1>1, <1>4, NearSelf DEF Do
<1> HIDE DEF v
<1>6. Alike(v, a) /\ Unmoved(v, a)
  BY <1>5, ColonSet DEF Alike, Near
<1> HIDE DEF a
<1>7. Alike(t, a)
  BY <1>1, <1>5, <1>6, AlikeTrans
<1>8. /\ Typed(a) /\ a.started = s.started /\ (Sound(s) => Sound(a))
      /\ a.error = "none" => Fresh(a, x.line)
  BY <1>1, <1>7, AlikeSound DEF Alike, Near, Fresh
<1>9. Alike(a, p) /\ p.error = a.error
  BY <1>2, <1>8, AtLineKeeps
<1> HIDE DEF p
<1>10. /\ Typed(p) /\ p.started = s.started /\ (Sound(s) => Sound(p))
       /\ a.error = "none" => Fresh(p, x.line)
  BY <1>8, <1>9, AlikeSound DEF Alike, Near, Fresh
<1>11. Typed(v)
  BY <1>5 DEF Alike, Near
<1> QED BY <1>3, <1>8, <1>10, <1>11 DEF p, a

LEMMA UnrollAllKeeps ==
  ASSUME NEW s, Typed(s), s.text = <<>>
  PROVE  /\ Good(s, UnrollAll(s))
         /\ UnrollAll(s).keys = <<>> /\ UnrollAll(s).error = s.error
<1> DEFINE r == RemoveAllKeys(s)
           t == Unroll(r, -1)
<1>1. /\ Good(s, r) /\ r.keys = <<>> /\ r.error = s.error
  BY RemoveAllKeeps DEF Good
<1>2. UnrollAll(s) = IF Block(s) THEN t ELSE r
  BY DEF UnrollAll
<1> HIDE DEF r
<1>3. Alike(r, t) /\ t.keys = <<>> /\ t.error = s.error
  BY <1>1, UnrollKeeps DEF Good, Near
<1> HIDE DEF t
<1>4. Good(s, t)
  BY <1>1, <1>3, GoodAlike, GoodTrans DEF Good, Near
<1> QED BY <1>1, <1>2, <1>3, <1>4

LEMMA StreamEndKeeps ==
  ASSUME NEW s, NEW line, Fresh(s, line)
  PROVE  Result(s, StreamEnd(s), line)
<1> DEFINE e == [s EXCEPT !.ended = TRUE]
           u == UnrollAll(e)
           t == Queue(u, "STREAM-END")
<1>1. /\ e \in Scans /\ e.flows = s.flows /\ e.indents = s.indents /\ e.keys = s.keys
      /\ e.queue = s.queue /\ e.text = s.text /\ e.line = s.line /\ e.error = s.error
      /\ e.started = s.started /\ e.keyAllowed = s.keyAllowed
  BY DEF Fresh, Typed, Scans
<1> HIDE DEF e
<1>2. Typed(e) /\ e.text = <<>> /\ e.line = line /\ (Sound(s) => Sound(e))
  BY <1>1 DEF Fresh, Typed, Sound, KeysPast, TextFits, Level, Block
<1>3. Good(e, u) /\ u.keys = <<>>
  BY <1>2, UnrollAllKeeps
<1> HIDE DEF u
<1>4. Alike(u, t) /\ t.keys = <<>>
  BY <1>3, QueueKeeps DEF Good, Near, LaterTokens
<1> HIDE DEF t
<1>5. Good(e, t)
  BY <1>2, <1>3, <1>4, GoodAlike, GoodTrans DEF Good, Near
<1>6. Result(s, t, line)
  BY <1>1, <1>2, <1>4, <1>5 DEF Good, Near, Result
<1> QED BY <1>6 DEF StreamEnd, t, u, e

LEMMA DirectiveKeeps ==
  ASSUME NEW s, NEW line, Fresh(s, line), NEW x
  PROVE  Result(s, Directive(s, x), line)
<1> DEFINE u == UnrollAll(s)
<1>1. Good(s, u)
  BY UnrollAllKeeps DEF Fresh
<1>2. /\ Directive(s, x) \in {u, Queue(u, "VERSION-DIRECTIVE"), Queue(u, "TAG-DIRECTIVE")}
  BY DEF Directive
<1> HIDE DEF u
<1>3. \A token \in {"VERSION-DIRECTIVE", "TAG-DIRECTIVE"} : Good(s, Queue(u, token))
  <2> TAKE token \in {"VERSION-DIRECTIVE", "TAG-DIRECTIVE"}
  <2>1. Alike(u, Queue(u, token))
    BY <1>1, QueueKeeps DEF Good, Near, LaterTokens
  <2> QED BY <1>1, <2>1, GoodAlike, GoodTrans DEF Good, Near, Fresh
<1>4. Good(s, Directive(s, x))
  BY <1>1, <1>2, <1>3
<1> QED BY <1>4, GoodResult

LEMMA MarkerKeeps ==
  ASSUME NEW s, NEW line, Fresh(s, line), NEW x \in Lexemes, NEW n
  PROVE  Result(s, Marker(s, x, n), line)
<1> DEFINE u  == UnrollAll(s)
           s1 == AllowKey(u, FALSE)
           token == IF x.is = "---" THEN "DOCUMENT-START" ELSE "DOCUMENT-END"
           s2 == Queue(s1, token)
           s3 == AtLine(s2, x.line)
           ok == x.is = "---" \/ NextOnLine(x, n) \in {"newline", "#", "end"}
           t  == Check(s3, ok)
<1>1. Typed(s) /\ Good(s, u) /\ x.line \in Int /\ token \in LaterTokens /\ ok \in BOOLEAN
  BY UnrollAllKeeps DEF Fresh, Lexemes, LaterTokens
<1> HIDE DEF u, token, ok
<1>2. Alike(u, s1)
  BY <1>1, ForbidKey DEF Good, Near
<1> HIDE DEF s1
<1>3. Alike(s1, s2)
  BY <1>1, <1>2, QueueKeeps DEF Alike, Near
<1> HIDE DEF s2
<1>4. Alike(s2, s3)
  BY <1>1, <1>3, AtLineKeeps DEF Alike, Near
<1> HIDE DEF s3
<1>5. Alike(s3, t)
  BY <1>1, <1>4, CheckKeeps DEF Alike, Near
<1> HIDE DEF t
<1>6. Good(u, s1) /\ Good(s1, s2) /\ Good(s2, s3) /\ Good(s3, t)
  BY <1>1, <1>2, <1>3, <1>4, <1>5, GoodAlike DEF Good, Near
<1>7. Good(s, t)
  BY <1>1, <1>6, GoodTrans
<1>8. t = Marker(s, x, n)
  BY DEF Marker, t, s3, s2, s1, u, token, ok
<1> QED BY <1>7, <1>8, GoodResult

LEMMA FlowEntryKeeps ==
  ASSUME NEW s, NEW line, Fresh(s, line), NEW x
  PROVE  Result(s, FlowEntry(s, x), line)
<1> DEFINE s1 == Check(s, FlowIndentOk(s, x.col))
           s0 == SetPending(s1, NoKey)
           s2 == IF Complex(s1) THEN Queue(s0, "VALUE") ELSE s1
           d  == Do(s1, s2)
           s3 == AllowKey(RemoveKey(d), TRUE)
           t  == Queue(s3, "FLOW-ENTRY")
<1>1. Typed(s) /\ FlowIndentOk(s, x.col) \in BOOLEAN
  BY DEF Fresh, FlowIndentOk
<1>2. Alike(s, s1)
  BY <1>1, CheckKeeps
<1> HIDE DEF s1
<1>3. Alike(s1, s0)
  BY <1>2, PendingKeeps DEF Alike, Near
<1> HIDE DEF s0
<1>4. Alike(s0, Queue(s0, "VALUE"))
  BY <1>3, QueueKeeps DEF Alike, Near, LaterTokens, Content
<1>5. Alike(s1, d)
  BY <1>2, <1>3, <1>4, AlikeTrans, NearSelf DEF Do, Alike, Near
<1> HIDE DEF s2, d
<1>6. Good(d, s3)
  BY <1>5, RemoveAllow DEF Alike, Near
<1> HIDE DEF s3
<1>7. Alike(s3, t)
  BY <1>6, QueueKeeps DEF Good, Near, LaterTokens, Content
<1> HIDE DEF t
<1>8. Good(s, s1) /\ Good(s1, d) /\ Good(s3, t)
  BY <1>1, <1>2, <1>5, <1>6, <1>7, GoodAlike DEF Good, Near
<1>9. Good(s, t)
  BY <1>1, <1>6, <1>8, GoodTrans
<1>10. t = FlowEntry(s, x)
  BY DEF FlowEntry, t, s3, d, s2, s0, s1
<1> QED BY <1>9, <1>10, GoodResult

LEMMA RollKeeps ==
  ASSUME NEW s, Typed(s), NEW x \in Lexemes, NEW map \in BOOLEAN, NEW token \in LaterTokens
  PROVE  Good(s, Roll(s, x, map, token))
<1> DEFINE u == PushIndent(s, x.col, map, x.line)
           t == QueueOnly(u, token)
<1>1. Roll(s, x, map, token) = IF Block(s) /\ Indent(s) < x.col THEN t ELSE s
  BY DEF Roll
<1>2. x.col \in Int /\ x.line \in Int /\ Indent(s) \in Int
  <2>1. Last(s.indents) \in Frames
    BY TypedParts, FrontLast
  <2> QED BY <2>1 DEF Indent, Frames, Lexemes
<1>3. CASE Indent(s) < x.col
  <2>1. Alike(s, u)
    BY <1>2, <1>3, PushKeeps
  <2> HIDE DEF u
  <2>2. Alike(u, t)
    BY <2>1, QueueOnlyKeeps DEF Alike, Near
  <2> HIDE DEF t
  <2>3. Alike(s, t)
    BY <2>1, <2>2, AlikeTrans
  <2> QED BY <1>1, <2>3, GoodAlike, GoodSelf
<1>4. CASE ~(Indent(s) < x.col)
  BY <1>1, <1>4, GoodSelf
<1> QED BY <1>3, <1>4

LEMMA BlockEntryKeeps ==
  ASSUME NEW s, NEW line, Fresh(s, line), NEW x \in Lexemes, NEW n
  PROVE  Result(s, BlockEntry(s, x, n), line)
<1> DEFINE ok1 == Block(s) \/ x.col + 2 > Indent(s)
           s1 == Check(s, ok1)
           ok2 == ~Block(s) \/ s.keyAllowed
           s0 == Check(s1, ok2)
           s2 == Roll(s0, x, FALSE, "BLOCK-SEQUENCE-START")
           s3 == AllowKey(RemoveKey(s2), TRUE)
           s4 == Queue(s3, "BLOCK-ENTRY")
           t  == Check(s4, TabOk(s, x, n))
<1>1. Typed(s) /\ ok1 \in BOOLEAN /\ ok2 \in BOOLEAN /\ TabOk(s, x, n) \in BOOLEAN
  BY DEF Fresh, Typed, Scans, TabOk
<1>2. Alike(s, s1)
  <2> HIDE DEF ok1
  <2> QED BY <1>1, CheckKeeps
<1> HIDE DEF s1
<1>3. Alike(s1, s0)
  <2> HIDE DEF ok2
  <2> QED BY <1>1, <1>2, CheckKeeps DEF Alike, Near
<1> HIDE DEF s0
<1>4. Good(s0, s2)
  BY <1>3, RollKeeps DEF Alike, Near, LaterTokens, Content
<1> HIDE DEF s2
<1>5. Good(s2, s3)
  BY <1>4, RemoveAllow DEF Good, Near
<1> HIDE DEF s3
<1>6. Alike(s3, s4)
  BY <1>5, QueueKeeps DEF Good, Near, LaterTokens, Content
<1> HIDE DEF s4
<1>7. Alike(s4, t)
  BY <1>1, <1>6, CheckKeeps DEF Alike, Near
<1> HIDE DEF t
<1>8. Good(s, s1) /\ Good(s1, s0) /\ Good(s3, s4) /\ Good(s4, t)
  BY <1>1, <1>2, <1>3, <1>5, <1>6, <1>7, GoodAlike DEF Alike, Good, Near
<1>9. Good(s, t)
  BY <1>1, <1>4, <1>5, <1>8, GoodTrans
<1>10. t = BlockEntry(s, x, n)
  BY DEF BlockEntry, t, s4, s3, s2, s0, s1
<1> QED BY <1>9, <1>10, GoodResult

LEMMA KeyKeeps ==
  ASSUME NEW s, NEW line, Fresh(s, line), NEW x \in Lexemes, NEW n
  PROVE  Result(s, Key(s, x, n), line)
<1> DEFINE ok == FlowIndentOk(s, x.col) /\ (~Block(s) \/ s.keyAllowed)
           s1 == Check(s, ok)
           s0 == Roll(s1, x, TRUE, "BLOCK-MAPPING-START")
           s2 == RemoveKey(s0)
           mark == [line |-> x.line, col |-> x.col]
           s3 == SetPending(s2, mark)
           d  == Do(s2, s3)
           s4 == Queue(d, "KEY")
           s5 == [s4 EXCEPT !.keyAllowed = Block(s)]
           s6 == Check(s5, TabOk(s, x, n))
           used == Block(s) /\ TabAfter(s, x, n)
           s7 == [s6 EXCEPT !.tabUsed = used]
           t  == Do(s4, s7)
<1>1. /\ Typed(s) /\ ok \in BOOLEAN /\ TabOk(s, x, n) \in BOOLEAN /\ used \in BOOLEAN
      /\ Block(s) \in BOOLEAN /\ mark \in Marks
  BY DEF Fresh, TabOk, Block, Lexemes, Marks
<1> HIDE DEF ok, used, mark
<1>2. Alike(s, s1)
  BY <1>1, CheckKeeps
<1> HIDE DEF s1
<1>3. Good(s1, s0)
  BY <1>2, RollKeeps DEF Alike, Near, LaterTokens, Content
<1> HIDE DEF s0
<1>4. Alike(s0, s2) /\ (s0.error = "none" /\ Block(s0) => s2.keys = <<>>)
  BY <1>3, RemoveKeeps DEF Good, Near
<1> HIDE DEF s2
<1>5. Alike(s2, s3) /\ s3.keys = s2.keys /\ s3.error = s2.error
  BY <1>1, <1>4, PendingKeeps DEF Alike, Near
<1> HIDE DEF s3
<1>6. Alike(s2, d) /\ d.keys = s2.keys
  BY <1>4, <1>5, NearSelf DEF Do, Alike, Near
<1> HIDE DEF d
<1>7. Alike(d, s4) /\ s4.keys = s2.keys
  BY <1>6, QueueKeeps DEF Alike, Near, LaterTokens, Content
<1> HIDE DEF s4
<1>8. Good(s, s1) /\ Good(s0, s2) /\ Good(s2, d) /\ Good(d, s4)
  BY <1>1, <1>2, <1>3, <1>4, <1>6, <1>7, GoodAlike DEF Alike, Good, Near
<1>9. Good(s, s2) /\ Good(s, s4) /\ Good(s2, s4)
  <2>1. Good(s, s0)
    BY <1>1, <1>3, <1>8, GoodTrans
  <2>2. Good(s, s2)
    BY <1>1, <1>8, <2>1, GoodTrans
  <2>3. Good(s2, s4)
    BY <1>8, GoodTrans DEF Good, Near
  <2> QED BY <1>1, <2>2, <2>3, GoodTrans
<1>10. s4.error = "none" /\ Block(s) => KeysUpTo(s4.keys, s4.line - 1)
  <2>1. s4.error = "none" => s0.error = "none"
    BY <1>4, <1>9 DEF Good, Alike, Near
  <2>2. Block(s) => Block(s0)
    BY <1>2, <1>3 DEF Good, Alike, Near, Block, Level
  <2> QED BY <1>4, <1>7, <2>1, <2>2, EmptySeq DEF KeysUpTo
<1>11. Near(s4, s5) /\ (Sound(s4) => Sound(s5))
  BY <1>1, <1>9, <1>10, KeyAllowedSet DEF Good, Near
<1> HIDE DEF s5
<1>12. Alike(s5, s6)
  BY <1>1, <1>11, CheckKeeps DEF Near
<1> HIDE DEF s6
<1>13. Alike(s6, s7)
  BY <1>1, <1>12, TabUsedSet DEF Alike, Near
<1> HIDE DEF s7
<1>14. Good(s4, s5) /\ Good(s5, s6) /\ Good(s6, s7)
  BY <1>11, <1>12, <1>13, GoodAlike DEF Good, Alike, Near
<1>15. Good(s4, s7)
  <2>1. Good(s4, s6)
    BY <1>9, <1>14, GoodTrans DEF Good, Near
  <2> QED BY <1>9, <1>14, <2>1, GoodTrans DEF Good, Near
<1>16. Good(s, t)
  <2>1. Good(s4, t)
    BY <1>9, <1>15, GoodSelf DEF Do, Good, Near
  <2> HIDE DEF t
  <2> QED BY <1>1, <1>9, <2>1, GoodTrans
<1>17. t = Key(s, x, n)
  BY DEF Key, t, s7, s6, s5, s4, d, s3, s2, s0, s1, ok, used, mark
<1> QED BY <1>16, <1>17, GoodResult

(* A simple key is saved, and none may start after it.                     *)
LEMMA SaveResult ==
  ASSUME NEW s, NEW line, Fresh(s, line), s.queue # <<>>,
         NEW x, x.line \in Int, x.col \in Int, x.line <= line, NEW required \in BOOLEAN,
         required => Block(s), NEW endLine \in Int,
         NEW u, u = SaveKey(s, x, required, endLine),
         NEW t, t = Do(u, [u EXCEPT !.keyAllowed = FALSE]) \/ t = Do(u, AllowKey(u, FALSE))
  PROVE  Result(s, t, line)
<1> DEFINE w == [u EXCEPT !.keyAllowed = FALSE]
           v == IF t = Do(u, w) THEN w ELSE AllowKey(u, FALSE)
<1>1. /\ Beside(s, u) /\ u.keyAllowed = s.keyAllowed
      /\ Sound(s) => u.error # "internal"
      /\ Sound(s) /\ u.error = "none" => KeysOrdered(u.keys, s.line, Level(s))
  BY SaveKeeps DEF Fresh
<1>2. t = Do(u, v)
  OBVIOUS
<1>3. Unmoved(u, v) /\ Near(u, v) /\ v.keyAllowed = FALSE
  <2> DEFINE a == [w EXCEPT !.tabUsed = FALSE]
  <2>1. AllowKey(u, FALSE) = a
    BY DEF AllowKey
  <2>2. v \in {w, a}
    BY <2>1
  <2>3. Unmoved(u, w) /\ Near(u, w) /\ w.keyAllowed = FALSE
    BY <1>1, KeyAllowedSet DEF Beside
  <2> HIDE DEF w, v
  <2>4. Alike(w, a) /\ Unmoved(w, a) /\ a.keyAllowed = FALSE
    BY <2>3, TabUsedSet DEF Near
  <2> HIDE DEF a
  <2>5. Near(u, a)
    BY <1>1, <2>3, <2>4, NearTrans DEF Alike, Beside
  <2> QED BY <2>2, <2>3, <2>4, <2>5 DEF Unmoved
<1> HIDE DEF v
<1>4. CASE u.error # "none"
  <2>1. t = u
    BY <1>2, <1>4 DEF Do
  <2> QED BY <1>1, <1>4, <2>1 DEF Beside, Result, Sound
<1>5. CASE u.error = "none"
  <2>1. t = v
    BY <1>2, <1>5 DEF Do
  <2>2. Typed(t) /\ t.keys = u.keys /\ t.line = line /\ t.text = <<>> /\ t.started = s.started /\ ~t.ended
        /\ t.error = "none" /\ Level(t) = Level(s) /\ ~t.keyAllowed
    BY <1>1, <1>3, <1>5, <2>1 DEF Near, Unmoved, Fresh, Beside, Level
  <2>3. Sound(s) => Sound(t)
    BY <1>1, <1>5, <2>2 DEF Sound, KeysPast, TextFits, Fresh
  <2> QED BY <2>2, <2>3 DEF Result
<1> QED BY <1>4, <1>5

LEMMA RequiredType ==
  ASSUME NEW s, NEW x
  PROVE  Required(s, x) \in BOOLEAN /\ (Required(s, x) => Block(s))
BY DEF Required, Block

LEMMA PropertyKeeps ==
  ASSUME NEW s, NEW line, Fresh(s, line), NEW x \in Lexemes, x.line = line, NEW n,
         NEW token \in {"ALIAS", "ANCHOR", "TAG", "TAG-HANDLE"}
  PROVE  Result(s, Property(s, x, n, token), line)
<1> DEFINE ok1 == FlowIndentOk(s, x.col) /\ (x.is = "!h" => s.handle)
           s0 == Check(s, ok1)
           s1 == Queue(s0, token)
           ok2 == token = "ALIAS" \/ ~Block(s) \/ NextOnLine(x, n) # "-"
           s2 == Check(s1, ok2)
           required == Required(s, x)
           s3 == SaveKey(s2, x, required, x.line)
           t  == Do(s3, AllowKey(s3, FALSE))
<1>1. Typed(s) /\ ok1 \in BOOLEAN /\ ok2 \in BOOLEAN /\ token \in LaterTokens
  BY DEF Fresh, Typed, Scans, LaterTokens, Content
<1>2. x.line \in Int /\ x.col \in Int
  BY DEF Lexemes
<1> HIDE DEF ok1, ok2
<1>3. Alike(s, s0)
  BY <1>1, CheckKeeps
<1> HIDE DEF s0
<1>4. Alike(s0, s1) /\ s1.error = s0.error /\ (s0.error = "none" => s1.queue # <<>>)
  BY <1>1, <1>3, QueueKeeps DEF Alike, Near
<1> HIDE DEF s1
<1>5. Alike(s1, s2) /\ (s2.error = "none" => s2 = s1)
  BY <1>1, <1>4, CheckKeeps DEF Alike, Near
<1> HIDE DEF s2
<1>6. Good(s, s2)
  <2>1. Alike(s, s1)
    BY <1>1, <1>3, <1>4, AlikeTrans
  <2>2. Alike(s, s2)
    BY <1>1, <1>5, <2>1, AlikeTrans
  <2> QED BY <1>1, <2>2, GoodAlike
<1>7. CASE s2.error # "none"
  <2>1. Property(s, x, n, token) = s2
    BY <1>7 DEF Property, s2, s1, s0, ok1, ok2
  <2> QED BY <1>6, <2>1, GoodResult
<1>8. CASE s2.error = "none"
  <2>1. Property(s, x, n, token) = t
    BY <1>8 DEF Property, s2, s1, s0, ok1, ok2
  <2>2. Fresh(s2, line) /\ s2.queue # <<>> /\ (Block(s) => Block(s2))
    BY <1>4, <1>5, <1>6, <1>8 DEF Fresh, Good, Near, Block, Level
  <2>3. required \in BOOLEAN /\ (required => Block(s2))
    BY <2>2, RequiredType
  <2> HIDE DEF required, t
  <2>4. Result(s2, t, line)
    <3>1. t = Do(s3, AllowKey(s3, FALSE)) /\ s3 = SaveKey(s2, x, required, x.line)
      BY DEF t
    <3>2. t = Do(s3, [s3 EXCEPT !.keyAllowed = FALSE]) \/ t = Do(s3, AllowKey(s3, FALSE))
      BY <3>1
    <3>3. x.line <= line
      BY <1>2
    <3> HIDE DEF s3
    <3> QED BY <1>2, <2>2, <2>3, <3>1, <3>2, <3>3, SaveResult
  <2>5. Result(s, t, line)
    BY <1>6, <2>4 DEF Result, Good, Near
  <2> QED BY <2>1, <2>5
<1> QED BY <1>7, <1>8

LEMMA PlainEmptyKeeps ==
  ASSUME NEW s, NEW line, Fresh(s, line), NEW x \in Lexemes, x.line = line
  PROVE  Result(s, PlainEmpty(s, x), line)
<1> DEFINE ok == FlowIndentOk(s, x.col)
           s0 == Check(s, ok)
           s1 == Queue(s0, "SCALAR")
           required == Required(s, x)
           s2 == SaveKey(s1, x, required, x.line)
           t  == Do(s2, [s2 EXCEPT !.keyAllowed = FALSE])
<1>1. Typed(s) /\ ok \in BOOLEAN /\ "SCALAR" \in LaterTokens
  BY DEF Fresh, LaterTokens, Content, FlowIndentOk
<1>2. x.line \in Int /\ x.col \in Int /\ x.line <= line
  BY DEF Lexemes
<1> HIDE DEF ok
<1>3. Alike(s, s0)
  BY <1>1, CheckKeeps
<1> HIDE DEF s0
<1>4. Alike(s0, s1) /\ s1.error = s0.error /\ (s0.error = "none" => s1.queue # <<>>)
  BY <1>1, <1>3, QueueKeeps DEF Alike, Near
<1> HIDE DEF s1
<1>5. Good(s, s1)
  <2>1. Alike(s, s1)
    BY <1>1, <1>3, <1>4, AlikeTrans
  <2> QED BY <1>1, <2>1, GoodAlike
<1>6. CASE s1.error # "none"
  <2>1. PlainEmpty(s, x) = s1
    BY <1>6 DEF PlainEmpty, s1, s0, ok
  <2> QED BY <1>5, <2>1, GoodResult
<1>7. CASE s1.error = "none"
  <2>1. PlainEmpty(s, x) = t
    BY <1>7 DEF PlainEmpty, s1, s0, ok
  <2>2. Fresh(s1, line) /\ s1.queue # <<>> /\ (Block(s) => Block(s1))
    BY <1>4, <1>5, <1>7 DEF Fresh, Good, Near, Block, Level
  <2>3. required \in BOOLEAN /\ (required => Block(s1))
    BY <2>2, RequiredType
  <2>4. t = Do(s2, [s2 EXCEPT !.keyAllowed = FALSE]) \/ t = Do(s2, AllowKey(s2, FALSE))
    OBVIOUS
  <2>5. s2 = SaveKey(s1, x, required, x.line)
    OBVIOUS
  <2> HIDE DEF required, t, s2
  <2>6. Result(s1, t, line)
    BY <1>2, <2>2, <2>3, <2>4, <2>5, SaveResult
  <2>7. Result(s, t, line)
    BY <1>5, <2>6 DEF Result, Good, Near
  <2> QED BY <2>1, <2>7
<1> QED BY <1>6, <1>7

LEMMA QuotedKeeps ==
  ASSUME NEW s, NEW line, Fresh(s, line), NEW x \in Lexemes, x.line = line, NEW n
  PROVE  /\ Typed(Quoted(s, x, n)) /\ Quoted(s, x, n).started = s.started
         /\ Sound(s) => Sound(Quoted(s, x, n))
         /\ Quoted(s, x, n).error = "none" =>
              /\ Quoted(s, x, n).line = x.line + x.rows
              /\ Quoted(s, x, n).ended => Quoted(s, x, n).keys = <<>> /\ Quoted(s, x, n).text = <<>>
<1> DEFINE ok1 == FlowIndentOk(s, x.col)
           s1 == Check(s, ok1)
           end == x.line + x.rows
           s0 == [s1 EXCEPT !.line = end]
           s2 == Queue(s0, "SCALAR")
           after == NextOnLine(x, n)
           ok2 == Block(s) => /\ ~(x.rows > 0 /\ ~Complex(s) /\ after = ":")
                              /\ after \in {":", "#", "newline", "end"}
           s3 == Check(s2, ok2)
           required == Required(s, x)
           s4 == SaveKey(s3, x, required, end)
           t  == Do(s4, [s4 EXCEPT !.keyAllowed = FALSE])
           q  == Quoted(s, x, n)
<1>1. Typed(s) /\ ok1 \in BOOLEAN /\ ok2 \in BOOLEAN /\ "SCALAR" \in LaterTokens
  BY DEF Fresh, LaterTokens, Content, FlowIndentOk
<1>2. x.line \in Int /\ x.col \in Int /\ end \in Int /\ x.line <= end
  BY DEF Lexemes
<1>3. Alike(s, s1) /\ (s1.error = "none" => s1 = s)
  <2> HIDE DEF ok1
  <2> QED BY <1>1, CheckKeeps
<1>4. q = IF s1.error # "none" THEN s1 ELSE IF s3.error # "none" THEN s3 ELSE t
  BY DEF Quoted
<1> HIDE DEF q, t, s4, required, s3, ok2, s2, s0, s1, ok1
<1>5. CASE s1.error # "none"
  <2>1. q = s1
    BY <1>4, <1>5
  <2>2. /\ Typed(q) /\ q.started = s.started /\ (Sound(s) => Sound(q)) /\ q.error # "none"
    BY <1>1, <1>3, <1>5, <2>1, AlikeSound DEF Alike, Near
  <2> QED BY <2>2 DEF q
<1>6. CASE s1.error = "none"
  <2>1. s0 = [s EXCEPT !.line = end]
    BY <1>3, <1>6 DEF s0
  <2>2. /\ Fresh(s0, end) /\ s0.started = s.started /\ Len(s0.flows) = Len(s.flows)
        /\ Sound(s) => Sound(s0)
    <3> HIDE DEF end
    <3> QED BY <1>2, <2>1, LineSet DEF Fresh
  <2>3. Alike(s0, s2) /\ s2.error = s0.error /\ (s0.error = "none" => s2.queue # <<>>)
    BY <1>1, <2>2, QueueKeeps DEF s2, Fresh
  <2>4. Alike(s2, s3) /\ (s3.error = "none" => s3 = s2)
    BY <1>1, <2>3, CheckKeeps DEF Alike, Near, s3
  <2>5. Good(s0, s3)
    BY <2>2, <2>3, <2>4, AlikeTrans, GoodAlike DEF Fresh
  <2>6. CASE s3.error # "none"
    <3>1. q = s3
      BY <1>4, <1>6, <2>6
    <3>2. /\ Typed(q) /\ q.started = s.started /\ (Sound(s) => Sound(q)) /\ q.error # "none"
      BY <2>2, <2>5, <2>6, <3>1 DEF Good, Near
    <3> QED BY <3>2 DEF q
  <2>7. CASE s3.error = "none"
    <3>1. q = t
      BY <1>4, <1>6, <2>7
    <3>2. Fresh(s3, end) /\ s3.queue # <<>> /\ (Block(s) => Block(s3))
      BY <2>2, <2>3, <2>4, <2>5, <2>7 DEF Fresh, Good, Near, Block, Level
    <3>3. required \in BOOLEAN /\ (required => Block(s3))
      BY <3>2, RequiredType DEF required
    <3>4. t = Do(s4, [s4 EXCEPT !.keyAllowed = FALSE]) \/ t = Do(s4, AllowKey(s4, FALSE))
      BY DEF t
    <3>5. s4 = SaveKey(s3, x, required, end)
      BY DEF s4
    <3>6. Result(s3, t, end)
      <4> HIDE DEF end
      <4> QED BY <1>2, <3>2, <3>3, <3>4, <3>5, SaveResult
    <3>7. /\ Typed(q) /\ q.started = s.started /\ (Sound(s) => Sound(q))
          /\ q.error = "none" => q.line = end /\ (q.ended => q.keys = <<>> /\ q.text = <<>>)
      BY <2>2, <2>5, <3>1, <3>6 DEF Result, Good, Near
    <3> QED BY <3>7 DEF q
  <2> QED BY <2>6, <2>7
<1> QED BY <1>5, <1>6

(* A text is begun.                                                        *)
LEMMA TextSet ==
  ASSUME NEW s, NEW line, Fresh(s, line), NEW text \in Scalars,
         text.mark.line = line, ~text.broken, text.required => Block(s),
         text.is = "block" /\ text.tab => Len(s.indents) >= 2
  PROVE  Result(s, [s EXCEPT !.text = text], line)
<1> DEFINE t == [s EXCEPT !.text = text]
<1>1. /\ t \in Scans /\ t.line = s.line /\ t.error = s.error /\ t.text = text
      /\ t.flows = s.flows /\ t.keys = s.keys /\ t.keyAllowed = s.keyAllowed /\ t.indents = s.indents
      /\ t.queue = s.queue /\ t.started = s.started /\ t.ended = s.ended
  BY DEF Fresh, Typed, Scans
<1> HIDE DEF t
<1>2. Typed(t)
  BY <1>1 DEF Fresh, Typed, TextIndented
<1>3. line \in Int
  BY TypedParts DEF Fresh
<1>4. Sound(s) => Sound(t)
  BY <1>1, <1>3 DEF Fresh, Sound, KeysOrdered, KeysPast, KeysUpTo, TextFits, Level, Block
<1>5. Result(s, t, line)
  BY <1>1, <1>2, <1>4 DEF Result, Fresh
<1> QED BY <1>5 DEF t

LEMMA TextType ==
  ASSUME NEW s, NEW x \in Lexemes, NEW is \in {"plain", "block"}, NEW indent \in Int
  PROVE  /\ Text(s, x, is, indent) \in Scalars
         /\ Text(s, x, is, indent).mark.line = x.line /\ ~Text(s, x, is, indent).broken
         /\ Text(s, x, is, indent).required => Block(s)
         /\ Text(s, x, is, indent).is = is
<1>1. [line |-> x.line, col |-> x.col] \in Marks /\ x.line \in Int
  BY DEF Marks, Lexemes
<1>2. Required(s, x) \in BOOLEAN /\ (Required(s, x) => Block(s)) /\ AtTab(s, x) \in BOOLEAN
  BY RequiredType DEF AtTab
<1> QED BY <1>1, <1>2 DEF Text, Scalars

LEMMA IndentType ==
  ASSUME NEW s, Typed(s)
  PROVE  Indent(s) \in Int
<1>1. Last(s.indents) \in Frames
  BY TypedParts, FrontLast
<1> QED BY <1>1 DEF Indent, Frames

LEMMA PlainStartKeeps ==
  ASSUME NEW s, NEW line, Fresh(s, line), NEW x \in Lexemes, x.line = line, NEW n
  PROVE  Result(s, PlainStart(s, x, n), line)
<1> DEFINE ok == FlowIndentOk(s, x.col) /\ StartsPlain(x, n)
           s1 == Check(s, ok)
           text == Text(s, x, "plain", Indent(s))
           t == [s1 EXCEPT !.text = text]
<1>1. Typed(s) /\ ok \in BOOLEAN
  BY DEF Fresh
<1> HIDE DEF ok
<1>2. Alike(s, s1) /\ (s1.error = "none" => s1 = s)
  BY <1>1, CheckKeeps
<1>3. PlainStart(s, x, n) = Do(s1, t)
  BY DEF PlainStart, ok
<1> HIDE DEF s1
<1>4. /\ text \in Scalars /\ text.mark.line = x.line /\ ~text.broken
      /\ text.required => Block(s)
      /\ text.is = "plain"
  <2> DEFINE indent == Indent(s)
  <2>1. indent \in Int
    BY <1>1, IndentType
  <2> HIDE DEF indent
  <2>2. /\ Text(s, x, "plain", indent) \in Scalars
        /\ Text(s, x, "plain", indent).mark.line = x.line /\ ~Text(s, x, "plain", indent).broken
        /\ Text(s, x, "plain", indent).required => Block(s)
        /\ Text(s, x, "plain", indent).is = "plain"
    BY <2>1, TextType
  <2> QED BY <2>2 DEF indent
<1> HIDE DEF text
<1>5. CASE s1.error # "none"
  BY <1>1, <1>2, <1>3, <1>5, GoodAlike, GoodResult DEF Do
<1>6. CASE s1.error = "none"
  <2>1. Result(s, [s EXCEPT !.text = text], line)
    BY <1>4, TextSet
  <2> QED BY <1>2, <1>3, <1>6, <2>1 DEF Do
<1> QED BY <1>5, <1>6

LEMMA FlowStartKeeps ==
  ASSUME NEW s, NEW line, Fresh(s, line), NEW x \in Lexemes, x.line = line
  PROVE  Result(s, FlowStart(s, x), line)
<1> DEFINE ok == FlowIndentOk(s, x.col)
           s1 == Check(s, ok)
           token == IF x.is = "[" THEN "FLOW-SEQUENCE-START" ELSE "FLOW-MAPPING-START"
           s2 == Queue(s1, token)
           required == Required(s, x)
           s3 == SaveKey(s2, x, required, x.line)
           flow == Flow(IF x.is = "[" THEN "sequence" ELSE "map", NoKey)
           s4 == [s3 EXCEPT !.flows = Append(@, flow)]
           s5 == AllowKey(s4, TRUE)
           t  == Do(s3, s5)
           q  == FlowStart(s, x)
<1>1. Typed(s) /\ ok \in BOOLEAN /\ token \in LaterTokens /\ flow \in Flows
  BY DEF Fresh, LaterTokens, Content, FlowIndentOk, Flow, Flows
<1>2. x.line \in Int /\ x.col \in Int /\ x.line <= line
  BY DEF Lexemes
<1>3. q = IF s1.error # "none" THEN s1 ELSE t
  BY DEF FlowStart
<1> HIDE DEF q, flow, token, ok
<1>4. Alike(s, s1) /\ (s1.error = "none" => s1 = s)
  BY <1>1, CheckKeeps
<1> HIDE DEF s1
<1>5. CASE s1.error # "none"
  BY <1>1, <1>3, <1>4, <1>5, GoodAlike, GoodResult DEF q
<1>6. CASE s1.error = "none"
  <2>1. Alike(s, s2) /\ s2.error = "none" /\ s2.queue # <<>>
    BY <1>1, <1>4, <1>6, QueueKeeps
  <2>2. Fresh(s2, line) /\ (Sound(s) => Sound(s2)) /\ (Block(s) => Block(s2)) /\ s2.started = s.started
        /\ Len(s2.flows) = Len(s.flows)
    BY <1>1, <2>1, AlikeSound DEF Fresh, Alike, Near, Block, Level
  <2> HIDE DEF s2
  <2>3. required \in BOOLEAN /\ (required => Block(s2))
    BY <2>2, RequiredType
  <2> HIDE DEF required
  <2>4. /\ Beside(s2, s3)
        /\ Sound(s2) => s3.error # "internal"
        /\ Sound(s2) /\ s3.error = "none" => KeysOrdered(s3.keys, s2.line, Level(s2))
    BY <1>2, <2>1, <2>2, <2>3, SaveKeeps DEF Fresh
  <2> HIDE DEF s3
  <2>5. CASE s3.error # "none"
    <3>1. q = s3
      BY <1>3, <1>6, <2>5 DEF Do
    <3>2. Result(s, q, line)
      BY <2>2, <2>4, <2>5, <3>1 DEF Beside, Result, Sound
    <3> QED BY <3>2 DEF q
  <2>6. CASE s3.error = "none"
    <3> DEFINE f == Append(s3.flows, flow)
    <3>1. f \in Seq(Flows) /\ f # <<>> /\ Len(f) = Len(s3.flows) + 1 /\ f[1].is = "none"
          /\ Len(s3.flows) \in Nat \ {0}
      <4>1. s3.flows \in Seq(Flows) /\ s3.flows # <<>> /\ s3.flows[1].is = "none" /\ Len(s3.flows) \in Nat \ {0}
        BY <2>4, TypedParts DEF Beside, Typed, FlowsFit
      <4>2. /\ Append(s3.flows, flow) \in Seq(Flows) /\ Append(s3.flows, flow) # <<>>
            /\ Len(Append(s3.flows, flow)) = Len(s3.flows) + 1
            /\ Append(s3.flows, flow)[1] = s3.flows[1]
        BY <1>1, <4>1, AppendFacts, AppendProperties
      <4> QED BY <4>1, <4>2
    <3>2. s4 = [s3 EXCEPT !.flows = f]
      OBVIOUS
    <3> HIDE DEF f, s4
    <3>3. /\ s4 \in Scans /\ s4.flows = f /\ s4.error = "none" /\ s4.indents = s3.indents
          /\ s4.keys = s3.keys /\ s4.queue = s3.queue /\ s4.text = s3.text /\ s4.line = s3.line
          /\ s4.started = s3.started /\ s4.ended = s3.ended
      BY <2>4, <2>6, <3>1, <3>2 DEF Beside, Typed, Scans
    <3>4. Typed(s4)
      BY <2>4, <3>1, <3>3 DEF Beside, Typed, FlowsFit
    <3>5. Level(s4) = Level(s2) + 1 /\ Level(s2) \in Nat /\ ~Block(s4)
      <4>1. Level(s2) \in Nat
        BY <2>2, TypedParts DEF Fresh
      <4>2. Len(s4.flows) = Len(s2.flows) + 1 /\ Len(s2.flows) \in Nat \ {0}
        BY <2>4, <3>1, <3>3 DEF Beside
      <4>3. Len(s4.flows) - 1 = Len(s2.flows) - 1 + 1 /\ Len(s4.flows) - 1 # 0
        BY <4>2
      <4> QED BY <4>1, <4>3 DEF Level, Block
    <3>6. Sound(s) => Sound(s4)
      <4> SUFFICES ASSUME Sound(s)
                   PROVE  Sound(s4)
        OBVIOUS
      <4>1. KeysOrdered(s3.keys, s2.line, Level(s2))
        BY <2>2, <2>4, <2>6
      <4>2. \A i \in 1..Len(s3.keys) : s3.keys[i] \in SimpleKeys
        BY <2>4, TypedParts DEF Beside
      <4>3. \A i \in 1..Len(s3.keys) : s3.keys[i].level \in Nat
        BY <4>2 DEF SimpleKeys
      <4>4. KeysOrdered(s4.keys, s4.line, Level(s4))
        BY <2>4, <3>3, <3>5, <4>1, <4>3 DEF KeysOrdered, Beside
      <4> QED BY <2>2, <2>4, <3>3, <3>5, <4>4 DEF Sound, KeysPast, TextFits, Beside, Fresh
    <3>7. Near(s4, s5) /\ (Sound(s4) => Sound(s5))
      BY <3>4, <3>5, PermitKey
    <3>8. q = s5
      BY <1>3, <1>6, <2>6 DEF Do
    <3> HIDE DEF s5
    <3>9. Result(s, q, line)
      BY <2>2, <2>4, <3>3, <3>6, <3>7, <3>8 DEF Near, Result, Fresh, Beside
    <3> QED BY <3>9 DEF q
  <2> QED BY <2>5, <2>6
<1> QED BY <1>5, <1>6

LEMMA FlowEndKeeps ==
  ASSUME NEW s, NEW line, Fresh(s, line), NEW x, NEW n
  PROVE  Result(s, FlowEnd(s, x, n), line)
<1> DEFINE ok == FlowIndentOk(s, x.col)
           s0 == Check(s, ok)
           s1 == RemoveKey(s0)
           s2 == Check(s1, Opened(s1, x))
           v  == [s2 EXCEPT !.flows = Front(@)]
           s3 == AllowKey(v, FALSE)
           token == IF x.is = "]" THEN "FLOW-SEQUENCE-END" ELSE "FLOW-MAPPING-END"
           s4 == Queue(s3, token)
           s5 == PurgeStale(s4)
           kept == s5.keys = s4.keys \/ s5.keys # <<>>
           s6 == Check(s5, kept)
           q  == FlowEnd(s, x, n)
<1>1. Typed(s) /\ ok \in BOOLEAN /\ token \in LaterTokens /\ kept \in BOOLEAN
      /\ Opened(s1, x) \in BOOLEAN
  BY DEF Fresh, LaterTokens, Content, FlowIndentOk, Opened, Block
<1>2. q = IF s2.error # "none" THEN s2 ELSE IF NextOnLine(x, n) = ":" THEN s6 ELSE s4
  BY DEF FlowEnd
<1> HIDE DEF q, kept, token, ok
<1>3. Alike(s, s0) /\ (s0.error = "none" => s0 = s)
  BY <1>1, CheckKeeps
<1> HIDE DEF s0
<1>4. /\ Alike(s0, s1)
      /\ s0.error = "none" /\ Sound(s0) => \A i \in 1..Len(s1.keys) : s1.keys[i].level < Level(s0)
  BY <1>3, RemoveKeeps DEF Alike, Near
<1> HIDE DEF s1
<1>5. Alike(s1, s2) /\ (s2.error = "none" => s2 = s1 /\ Opened(s1, x))
  <2> DEFINE opened == Opened(s1, x)
  <2>1. opened \in BOOLEAN
    BY <1>1
  <2>2. s2 = Check(s1, opened)
    OBVIOUS
  <2> HIDE DEF opened
  <2>3. Alike(s1, s2) /\ (s2.error = "none" => opened /\ s2 = s1)
    BY <1>4, <2>1, <2>2, CheckKeeps DEF Alike, Near
  <2> QED BY <2>3 DEF opened
<1> HIDE DEF s2
<1>6. Good(s, s2)
  <2>1. Alike(s, s1)
    BY <1>1, <1>3, <1>4, AlikeTrans
  <2>2. Alike(s, s2)
    BY <1>1, <1>5, <2>1, AlikeTrans
  <2> QED BY <1>1, <2>2, GoodAlike
<1>7. CASE s2.error # "none"
  BY <1>2, <1>6, <1>7, GoodResult DEF q
<1>8. CASE s2.error = "none"
  <2>1. s0.error = "none" /\ s0 = s /\ s2 = s1 /\ ~Block(s2) /\ Len(s2.flows) = Len(s.flows)
    BY <1>3, <1>4, <1>5, <1>6, <1>8 DEF Alike, Near, Opened, Good
  <2>2. Typed(s2)
    BY <1>6 DEF Good, Near
  <2>3. Len(s2.flows) \in Nat /\ Len(s2.flows) >= 2 /\ s2.flows \in Seq(Flows) /\ s2.flows # <<>>
        /\ s2.flows[1].is = "none"
    <3>1. Len(s2.flows) \in Nat \ {0} /\ s2.flows \in Seq(Flows) /\ s2.flows # <<>>
      BY <2>2, TypedParts
    <3>2. s2.flows[1].is = "none"
      BY <2>2 DEF Typed, FlowsFit
    <3>3. Len(s2.flows) - 1 # 0
      BY <2>1 DEF Block, Level
    <3>4. Len(s2.flows) \in Nat /\ Len(s2.flows) >= 2
      <4> DEFINE l == Len(s2.flows)
      <4>1. l \in Nat \ {0} /\ l - 1 # 0
        BY <3>1, <3>3
      <4> HIDE DEF l
      <4>2. l \in Nat /\ l >= 2
        BY <4>1
      <4> QED BY <4>2 DEF l
    <3> QED BY <3>1, <3>2, <3>4
  <2> DEFINE f == Front(s2.flows)
  <2>4. /\ f \in Seq(Flows) /\ Len(f) = Len(s2.flows) - 1
        /\ \A i \in 1..Len(f) : f[i] = s2.flows[i]
    BY <2>3, FrontLast
  <2>5. f # <<>> /\ f[1].is = "none"
    <3>1. Len(f) >= 1
      BY <2>3, <2>4
    <3> HIDE DEF f
    <3> QED BY <2>3, <2>4, <3>1, EmptySeq
  <2>6. v = [s2 EXCEPT !.flows = f]
    OBVIOUS
  <2> HIDE DEF f, v
  <2>7. /\ v \in Scans /\ v.flows = f /\ v.error = "none" /\ v.indents = s2.indents
        /\ v.keys = s2.keys /\ v.queue = s2.queue /\ v.text = s2.text /\ v.line = s2.line
        /\ v.started = s2.started /\ v.ended = s2.ended
    BY <1>8, <2>2, <2>4, <2>6 DEF Typed, Scans
  <2>8. Typed(v)
    BY <2>2, <2>4, <2>5, <2>7 DEF Typed, FlowsFit
  <2>9. Sound(s) => KeysOrdered(v.keys, v.line, Level(v))
    <3> SUFFICES ASSUME Sound(s)
                 PROVE  KeysOrdered(v.keys, v.line, Level(v))
      OBVIOUS
    <3>1. KeysOrdered(s2.keys, s2.line, Level(s2))
      BY <1>6, <1>8 DEF Good, Sound
    <3>2. \A i \in 1..Len(s2.keys) : s2.keys[i].level < Level(s2)
      BY <1>4, <2>1 DEF Level
    <3>3. \A i \in 1..Len(s2.keys) : s2.keys[i] \in SimpleKeys
      BY <2>2, TypedParts
    <3>4. \A i \in 1..Len(s2.keys) : s2.keys[i].level \in Nat
      BY <3>3 DEF SimpleKeys
    <3>5. Level(v) = Level(s2) - 1 /\ Level(s2) \in Nat
      BY <2>2, <2>4, <2>7, TypedParts DEF Level
    <3> QED BY <2>7, <3>1, <3>2, <3>4, <3>5 DEF KeysOrdered
  <2>10. /\ Alike(v, s3) /\ s3.error = v.error /\ s3.keys = v.keys /\ s3.keyAllowed = FALSE
    <3>1. Alike(v, s3) /\ s3.error = v.error /\ s3.keys = v.keys
      BY <2>8, ForbidKey
    <3>2. s3.keyAllowed = FALSE
      BY <2>7 DEF AllowKey, Scans
    <3> QED BY <3>1, <3>2
  <2> HIDE DEF s3
  <2>11. Sound(s) => Sound(s3)
    BY <1>6, <2>1, <2>7, <2>9, <2>10 DEF Sound, KeysPast, TextFits, Alike, Near, Level, Fresh, Good
  <2>12. Alike(s3, s4)
    BY <1>1, <2>10, QueueKeeps DEF Alike, Near
  <2> HIDE DEF s4
  <2>13. Alike(s4, s5)
    BY <2>12, PurgeKeeps DEF Alike, Near
  <2> HIDE DEF s5
  <2>14. Alike(s5, s6)
    BY SMTT(60), <1>1, <2>13, CheckKeeps DEF Alike, Near
  <2> HIDE DEF s6
  <2>15. Alike(s3, s6)
    <3>1. Alike(s3, s5)
      BY <2>10, <2>12, <2>13, AlikeTrans DEF Alike, Near
    <3> QED BY <2>10, <2>14, <3>1, AlikeTrans DEF Alike, Near
  <2>16. q \in {s4, s6}
    BY <1>2, <1>8
  <2>17. Alike(s3, q)
    BY <2>12, <2>15, <2>16
  <2>18. Typed(s3) /\ s3.started = s.started /\ ~s3.ended /\ s3.line = line
    BY <1>6, <2>7, <2>10 DEF Alike, Near, Good, Fresh
  <2>19. Sound(s) => Sound(q)
    BY <2>11, <2>17, <2>18, AlikeSound
  <2>20. Result(s, q, line)
    BY <2>17, <2>18, <2>19 DEF Alike, Near, Result
  <2> QED BY <2>20 DEF q
<1> QED BY <1>7, <1>8

LEMMA InsertTokens ==
  ASSUME NEW S, NEW q \in Seq(S), NEW inserted \in Seq(S), NEW n \in 1..Len(q) + 1
  PROVE  LET r == SubSeq(q, 1, n - 1) \o inserted \o SubSeq(q, n, Len(q))
         IN  r \in Seq(S) /\ Len(r) >= Len(q)
<1>1. Len(q) \in Nat /\ \A i \in 1..Len(q) : q[i] \in S
  BY LenProperties, ElementOfSeq
<1> DEFINE a == SubSeq(q, 1, n - 1)
           b == SubSeq(q, n, Len(q))
<1>2. a \in Seq(S) /\ Len(a) = n - 1
  <2>1. n - 1 \in 0..Len(q)
    BY <1>1
  <2> QED BY <2>1, Prefix
<1>3. b \in Seq(S) /\ Len(b) = Len(q) - n + 1
  <2>1. /\ b \in Seq(S)
        /\ Len(b) = IF n <= Len(q) THEN Len(q) - n + 1 ELSE 0
    <3>1. \A i \in n..Len(q) : q[i] \in S
      BY <1>1
    <3>2. n \in Nat
      BY <1>1
    <3> QED BY <1>1, <3>1, <3>2, SubSeqProperties
  <2> HIDE DEF b
  <2> QED BY <1>1, <2>1
<1> HIDE DEF a, b
<1>4. a \o inserted \in Seq(S) /\ Len(a \o inserted) = Len(a) + Len(inserted)
  BY <1>2, ConcatProperties
<1>5. (a \o inserted) \o b \in Seq(S) /\ Len((a \o inserted) \o b) = Len(a \o inserted) + Len(b)
  BY <1>3, <1>4, ConcatProperties
<1>6. Len(inserted) \in Nat
  BY LenProperties
<1>7. (a \o inserted) \o b \in Seq(S) /\ Len((a \o inserted) \o b) >= Len(q)
  <2>1. Len((a \o inserted) \o b) = n - 1 + Len(inserted) + (Len(q) - n + 1)
    BY <1>2, <1>3, <1>4, <1>5
  <2>2. n \in Nat
    BY <1>1
  <2> QED BY <1>1, <1>5, <1>6, <2>1, <2>2
<1> QED BY <1>7 DEF a, b

LEMMA QueueAndKeysSet ==
  ASSUME NEW s, Typed(s), NEW t, t \in Scans, t.flows = s.flows, t.indents = s.indents,
         t.error = s.error, t.text = s.text, t.line = s.line,
         t.started = s.started, t.ended = s.ended, t.keyAllowed = s.keyAllowed,
         Len(t.queue) >= Len(s.queue), s.started => t.queue \in Seq(LaterTokens),
         Len(t.keys) \in Nat, Len(t.keys) <= Len(s.keys),
         \A i \in 1..Len(t.keys) : t.keys[i] = s.keys[i]
  PROVE  Alike(s, t)
<1>1. Len(s.keys) \in Nat /\ Len(s.queue) \in Nat /\ Len(t.queue) \in Nat
  <2>1. t.queue \in Seq(AllTokens)
    BY DEF Scans
  <2> QED BY <2>1, TypedParts, LenProperties
<1>2. \A i \in 1..Len(t.keys) : i \in 1..Len(s.keys) /\ t.keys[i] = s.keys[i]
  BY <1>1
<1>3. \A i \in 1..Len(s.keys) : s.keys[i] \in SimpleKeys
  BY TypedParts
<1>4. \A i \in 1..Len(s.keys) : s.keys[i].token \in Nat
  BY <1>3 DEF SimpleKeys
<1>5. TokensFit(t.keys, t.queue)
  <2>1. \A i \in 1..Len(s.keys) : s.keys[i].token <= Len(s.queue)
    BY DEF Typed, TokensFit
  <2>2. ASSUME NEW i \in 1..Len(t.keys)
        PROVE  t.keys[i].token <= Len(t.queue)
    <3>1. i \in 1..Len(s.keys) /\ t.keys[i].token = s.keys[i].token
      BY <1>2
    <3>2. s.keys[i].token \in Nat /\ s.keys[i].token <= Len(s.queue)
      BY <1>4, <2>1, <3>1
    <3> QED BY <1>1, <3>1, <3>2
  <2> QED BY <2>2 DEF TokensFit
<1>6. Typed(t)
  BY <1>5 DEF Typed
<1> QED BY <1>6 DEF Alike, Near

LEMMA ValueKeeps ==
  ASSUME NEW s, NEW line, Fresh(s, line), NEW x \in Lexemes, NEW n
  PROVE  Result(s, Value(s, x, n), line)
<1> DEFINE twice == ~Block(s) /\ n.is = ":" /\ FlowIndentOk(s, n.col)
           ok1 == FlowIndentOk(s, x.col)
           s0 == [s EXCEPT !.colonTwice = twice]
           s1 == Check(s0, ok1)
           s2 == PurgeStale(s1)
           found   == s2.keys # <<>> /\ Last(s2.keys).level = Level(s2)
           key     == IF found THEN Last(s2.keys)
                      ELSE [line |-> x.line, col |-> x.col, end |-> x.line, token |-> Len(s2.queue) + 1]
           final   == Complex(s2) /\ (~Block(s2) \/ x.col <= Pending(s2).col)
           starts  == Block(s2) /\ key.col > Indent(s2)
           keyOnly == IF Complex(s2) THEN ~final ELSE ~Block(s2) \/ Last(s2.indents).map
           ok3 == Complex(s2) \/ key.end >= s2.line \/ Last(s2.flows).is = "map"
           s3 == Check(s2, ok3)
           ok4 == ~s3.tabUsed
           s4 == Check(s3, ok4)
           u5 == PushIndent(s4, key.col, TRUE, key.line)
           s5 == IF starts THEN u5 ELSE s4
           inserted == (IF starts THEN <<"BLOCK-MAPPING-START">> ELSE <<>>)
                         \o (IF starts \/ keyOnly THEN <<"KEY">> ELSE <<>>)
           s6 == [s5 EXCEPT !.queue = SubSeq(@, 1, key.token - 1) \o inserted
                                        \o SubSeq(@, key.token, Len(@)),
                            !.keys = IF found THEN Front(@) ELSE @]
           q7 == Queue(s6, "VALUE")
           allowed == ~found /\ Block(s)
           s7 == [q7 EXCEPT !.keyAllowed = allowed]
           s8 == IF Complex(s2) THEN Check(s7, TabOk(s, x, n)) ELSE s7
           used == Complex(s2) /\ s7.keyAllowed /\ TabAfter(s, x, n)
           s9 == [s8 EXCEPT !.tabUsed = used]
           s10 == IF final THEN SetPending(s9, NoKey) ELSE s9
           t  == Do(s8, s10)
           v  == Value(s, x, n)
<1>1. Typed(s) /\ twice \in BOOLEAN /\ ok1 \in BOOLEAN /\ allowed \in BOOLEAN
  BY DEF Fresh, FlowIndentOk, Block
<1>2. v = IF s4.error # "none" THEN s4 ELSE t
  BY ZenonT(60) DEF Value
<1>3. Alike(s, s0)
  <2> HIDE DEF twice
  <2> QED BY <1>1, ColonSet
<1> HIDE DEF s0, ok1, v
<1>4. Alike(s0, s1)
  BY <1>1, <1>3, CheckKeeps DEF Alike, Near
<1> HIDE DEF s1
<1>5. Alike(s1, s2)
  BY <1>4, PurgeKeeps DEF Alike, Near
<1> HIDE DEF s2
<1>6. Alike(s, s2)
  <2>1. Alike(s, s1)
    BY <1>1, <1>3, <1>4, AlikeTrans
  <2> QED BY <1>1, <1>5, <2>1, AlikeTrans
<1>7. Typed(s2) /\ found \in BOOLEAN
  BY <1>6 DEF Alike, Near
<1>8. /\ key.line \in Int /\ key.col \in Int /\ key.end \in Int
      /\ key.token \in 1..Len(s2.queue) + 1
  <2>1. Len(s2.queue) \in Nat /\ Len(s2.keys) \in Nat
    BY <1>7, TypedParts
  <2>2. CASE found
    <3>1. Len(s2.keys) \in 1..Len(s2.keys) /\ Last(s2.keys) = s2.keys[Len(s2.keys)]
      BY <1>7, <2>1, <2>2, TypedParts, EmptySeq DEF Last
    <3>2. Last(s2.keys) \in SimpleKeys /\ Last(s2.keys).token <= Len(s2.queue)
      BY <1>7, <3>1, TypedParts DEF Typed, TokensFit
    <3>3. key = Last(s2.keys)
      BY <2>2
    <3> HIDE DEF key
    <3> QED BY <2>1, <3>2, <3>3 DEF SimpleKeys
  <2>3. CASE ~found
    <3>1. x.line \in Int /\ x.col \in Int
      BY DEF Lexemes
    <3>2. key = [line |-> x.line, col |-> x.col, end |-> x.line, token |-> Len(s2.queue) + 1]
      BY <2>3
    <3> HIDE DEF key
    <3> QED BY <2>1, <3>1, <3>2
  <2> QED BY <2>2, <2>3
<1>9. Sound(s) /\ s2.error = "none" => (allowed => KeysUpTo(s2.keys, line - 1))
  <2> SUFFICES ASSUME Sound(s), s2.error = "none", allowed
               PROVE  s2.keys = <<>>
    BY EmptySeq DEF KeysUpTo
  <2>1. KeysOrdered(s2.keys, s2.line, Level(s2))
    BY <1>1, <1>6, AlikeSound DEF Sound
  <2>2. Level(s2) = 0
    BY <1>6 DEF Alike, Near, Level, Block
  <2> SUFFICES ASSUME s2.keys # <<>>
               PROVE  FALSE
    OBVIOUS
  <2>3. Len(s2.keys) \in 1..Len(s2.keys) /\ Last(s2.keys) = s2.keys[Len(s2.keys)]
    BY <1>7, TypedParts, EmptySeq DEF Last
  <2>4. Last(s2.keys) \in SimpleKeys
    BY <1>7, <2>3, TypedParts
  <2>5. Last(s2.keys).level \in Nat /\ Last(s2.keys).level <= 0
    BY <2>1, <2>2, <2>3, <2>4 DEF KeysOrdered, SimpleKeys
  <2>6. Last(s2.keys).level = Level(s2)
    BY <2>2, <2>5
  <2> QED BY <2>6
<1>10. ok3 \in BOOLEAN /\ starts \in BOOLEAN /\ (starts => Indent(s2) <= key.col)
  <2>1. Indent(s2) \in Int
    BY <1>7, IndentType
  <2> HIDE DEF key
  <2> QED BY <1>8, <2>1 DEF Complex
<1> HIDE DEF key, found, ok3
<1>11. Alike(s2, s3) /\ (s3.error = "none" => s3 = s2)
  BY <1>7, <1>10, CheckKeeps
<1> HIDE DEF s3
<1>12. Alike(s3, s4) /\ (s4.error = "none" => s4 = s3)
  <2>1. ok4 \in BOOLEAN
    OBVIOUS
  <2> HIDE DEF ok4
  <2> QED BY <1>11, <2>1, CheckKeeps DEF Alike, Near
<1> HIDE DEF s4
<1>13. Good(s, s4)
  <2>1. Alike(s, s3)
    BY <1>1, <1>6, <1>11, AlikeTrans
  <2>2. Alike(s, s4)
    BY <1>1, <1>12, <2>1, AlikeTrans
  <2> QED BY <1>1, <2>2, GoodAlike
<1>14. CASE s4.error # "none"
  BY <1>2, <1>13, <1>14, GoodResult DEF v
<1>15. CASE s4.error = "none"
  <2>1. s4 = s2 /\ s2.error = "none"
    BY <1>11, <1>12, <1>15
  <2>2. /\ Alike(s2, s5) /\ s5.queue = s2.queue /\ s5.keys = s2.keys
    <3>1. starts => Alike(s2, u5) /\ u5.queue = s2.queue /\ u5.keys = s2.keys
      <4> HIDE DEF starts
      <4> QED BY ZenonT(60), <1>7, <1>8, <1>10, <2>1, PushKeeps
    <3> HIDE DEF starts, u5
    <3> QED BY <1>7, <2>1, <3>1, NearSelf
  <2> HIDE DEF s5
  <2>3. inserted \in Seq(LaterTokens) /\ inserted \in Seq(AllTokens)
    <3> DEFINE i1 == IF starts THEN <<"BLOCK-MAPPING-START">> ELSE <<>>
               i2 == IF starts \/ keyOnly THEN <<"KEY">> ELSE <<>>
    <3>1. \A S : "BLOCK-MAPPING-START" \in S /\ "KEY" \in S => i1 \in Seq(S) /\ i2 \in Seq(S)
      OBVIOUS
    <3>2. "BLOCK-MAPPING-START" \in LaterTokens /\ "KEY" \in LaterTokens
      BY DEF LaterTokens, Content
    <3>3. "BLOCK-MAPPING-START" \in AllTokens /\ "KEY" \in AllTokens
      BY <3>2 DEF AllTokens
    <3> HIDE DEF i1, i2
    <3>4. /\ i1 \in Seq(LaterTokens) /\ i2 \in Seq(LaterTokens)
          /\ i1 \in Seq(AllTokens) /\ i2 \in Seq(AllTokens)
      BY <3>1, <3>2, <3>3
    <3>5. i1 \o i2 \in Seq(LaterTokens) /\ i1 \o i2 \in Seq(AllTokens)
      BY <3>4, ConcatProperties
    <3> QED BY <3>5 DEF i1, i2
  <2> HIDE DEF inserted, starts
  <2>4. Alike(s5, s6) /\ (~found => s6.keys = s5.keys)
    <3> DEFINE m == key.token
    <3>1. m \in 1..Len(s5.queue) + 1 /\ (found => s5.keys # <<>>) /\ Typed(s5)
      BY <1>8, <2>2 DEF found, Alike, Near
    <3> DEFINE r == SubSeq(s5.queue, 1, m - 1) \o inserted \o SubSeq(s5.queue, m, Len(s5.queue))
               k == IF found THEN Front(s5.keys) ELSE s5.keys
    <3>2. s6 = [s5 EXCEPT !.queue = r, !.keys = k]
      OBVIOUS
    <3>4. k = s5.keys \/ (s5.keys # <<>> /\ k = Front(s5.keys))
      <4>1. CASE found
        BY <3>1, <4>1
      <4>2. CASE ~found
        BY <4>2
      <4> QED BY <4>1, <4>2
    <3>5. ~found => k = s5.keys
      OBVIOUS
    <3> HIDE DEF m, k
    <3>6. r \in Seq(AllTokens) /\ Len(r) >= Len(s5.queue) /\ (s5.started => r \in Seq(LaterTokens))
      <4>1. s5.queue \in Seq(AllTokens)
        BY <3>1, TypedParts
      <4>2. s5.started => s5.queue \in Seq(LaterTokens)
        BY <3>1 DEF Typed
      <4>3. r \in Seq(AllTokens) /\ Len(r) >= Len(s5.queue)
        BY <2>3, <3>1, <4>1, InsertTokens
      <4>4. s5.started => r \in Seq(LaterTokens)
        BY <2>3, <3>1, <4>2, InsertTokens
      <4> QED BY <4>3, <4>4
    <3> HIDE DEF r, s6
    <3>7. /\ k \in Seq(SimpleKeys) /\ Len(k) \in Nat /\ Len(k) <= Len(s5.keys)
          /\ \A i \in 1..Len(k) : k[i] = s5.keys[i]
      <4>1. s5.keys \in Seq(SimpleKeys) /\ Len(s5.keys) \in Nat
        BY <3>1, TypedParts
      <4>2. CASE k = s5.keys
        BY <4>1, <4>2
      <4>3. CASE s5.keys # <<>> /\ k = Front(s5.keys)
        BY <4>1, <4>3, FrontLast
      <4> QED BY <3>4, <4>2, <4>3
    <3>8. /\ s6 \in Scans /\ s6.flows = s5.flows /\ s6.indents = s5.indents /\ s6.error = s5.error
          /\ s6.queue = r /\ s6.text = s5.text /\ s6.line = s5.line /\ s6.keys = k
          /\ s6.started = s5.started /\ s6.ended = s5.ended /\ s6.keyAllowed = s5.keyAllowed
      BY <3>1, <3>2, <3>6, <3>7 DEF Typed, Scans
    <3>9. Alike(s5, s6)
      BY <3>1, <3>6, <3>7, <3>8, QueueAndKeysSet
    <3> QED BY <3>5, <3>8, <3>9
  <2> HIDE DEF s6
  <2>5. Alike(s6, q7) /\ q7.keys = s6.keys
    BY <2>4, QueueKeeps DEF Alike, Near, LaterTokens, Content
  <2> HIDE DEF q7
  <2>6. Alike(s, q7)
    <3>1. Alike(s, s5)
      BY <1>1, <1>6, <2>2, AlikeTrans
    <3>2. Alike(s, s6)
      BY <1>1, <2>4, <3>1, AlikeTrans
    <3> QED BY <1>1, <2>5, <3>2, AlikeTrans
  <2>7. Near(q7, s7) /\ (Sound(q7) /\ (Block(q7) /\ allowed => KeysUpTo(q7.keys, q7.line - 1)) => Sound(s7))
    <3>1. Typed(q7)
      BY <2>6 DEF Alike, Near
    <3> HIDE DEF allowed
    <3> QED BY <1>1, <3>1, KeyAllowedSet
  <2>8. Sound(s) => Sound(s7)
    <3> SUFFICES ASSUME Sound(s)
                 PROVE  Sound(s7)
      OBVIOUS
    <3>1. allowed => KeysUpTo(q7.keys, q7.line - 1)
      <4>1. q7.line = line
        BY <2>6 DEF Alike, Near, Fresh
      <4>2. allowed => q7.keys = s2.keys
        BY <2>2, <2>4, <2>5
      <4> HIDE DEF allowed
      <4> QED BY <1>9, <2>1, <4>1, <4>2
    <3>2. Sound(q7)
      BY <1>1, <2>6, AlikeSound
    <3> QED BY <2>7, <3>1, <3>2
  <2> HIDE DEF s7
  <2>9. Good(s, s7)
    <3>1. Near(s, s7)
      BY <1>1, <2>6, <2>7, NearTrans DEF Alike
    <3> QED BY <2>8, <3>1 DEF Good
  <2>10. Alike(s7, s8)
    <3>1. TabOk(s, x, n) \in BOOLEAN
      BY DEF TabOk
    <3> QED BY <2>9, <3>1, CheckKeeps, NearSelf DEF Good, Near
  <2> HIDE DEF s8
  <2>11. Alike(s8, s9)
    <3>1. used \in BOOLEAN
      BY DEF Complex
    <3> HIDE DEF used
    <3> QED BY <2>10, <3>1, TabUsedSet DEF Alike, Near
  <2> HIDE DEF s9
  <2>12. Alike(s9, s10)
    BY <2>11, PendingKeeps, NearSelf DEF Alike, Near
  <2> HIDE DEF s10
  <2>13. Alike(s7, t)
    <3>1. Alike(s7, s9)
      BY <2>9, <2>10, <2>11, AlikeTrans DEF Good, Near
    <3>2. Alike(s7, s10)
      BY <2>9, <2>12, <3>1, AlikeTrans DEF Good, Near
    <3> QED BY <2>10, <3>2 DEF Do
  <2> HIDE DEF t
  <2>14. Good(s, t)
    BY <1>1, <2>9, <2>13, GoodAlike, GoodTrans DEF Good, Near
  <2>15. v = t
    BY <1>2, <1>15
  <2> QED BY <2>14, <2>15, GoodResult DEF v
<1> QED BY <1>14, <1>15

-----------------------------------------------------------------------------
(* Scalars *)

(* A lexeme is added to the text.                                          *)
LEMMA AddTextKeeps ==
  ASSUME NEW s, Typed(s), s.error = "none", s.text # <<>>, NEW n \in Lexemes, s.line <= n.line
  PROVE  LET t == AddText(s, n)
         IN  /\ Typed(t) /\ t.started = s.started /\ t.ended = s.ended
             /\ Sound(s) => Sound(t)
             /\ t.line = n.line + n.rows
<1> DEFINE ok == IF s.text.is = "block" THEN BlockLineOk(s, n) ELSE PlainLineOk(s, n)
           c == Check(s, ok)
           end == n.line + n.rows
           broken == Broken(s, n) \/ n.rows > 0
           indent == IF s.text.indent = 0 /\ n.line > s.line THEN BlockColumn(n) ELSE s.text.indent
           text == [s.text EXCEPT !.broken = broken, !.empty = FALSE, !.end = end, !.indent = indent]
           t == [c EXCEPT !.line = end, !.text = text]
<1>1. s.text \in Scalars
  BY DEF Typed, Scans
<1>2. Alike(s, c)
  <2>1. ok \in BOOLEAN
    BY DEF BlockLineOk, PlainLineOk
  <2> HIDE DEF ok
  <2> QED BY <2>1, CheckKeeps
<1>3. /\ n.line \in Int /\ n.rows \in Nat /\ end \in Int /\ s.line <= end /\ n.line <= end
      /\ s.line \in Int
  BY TypedParts DEF Lexemes
<1>4. indent \in Int
  BY <1>1 DEF Lexemes, BlockColumn, Scalars
<1>5. broken \in BOOLEAN /\ (broken => s.text.mark.line < end \/ ~(s.text.mark.line <= s.line)
                                      \/ (s.text.broken /\ ~(s.text.mark.line < s.line)))
  <2>1. s.text.mark.line \in Int /\ s.text.broken \in BOOLEAN
    BY <1>1 DEF Scalars, Marks
  <2> QED BY <1>3, <2>1 DEF Broken
<1>6. AddText(s, n) = t
  BY DEF AddText
<1> HIDE DEF c, end, broken, indent
<1>7. /\ text \in Scalars /\ text.mark = s.text.mark /\ text.broken = broken
      /\ text.required = s.text.required /\ text.is = s.text.is /\ text.tab = s.text.tab
  BY <1>1, <1>3, <1>4, <1>5 DEF Scalars
<1> HIDE DEF text
<1>8. /\ t \in Scans /\ t.line = end /\ t.error = c.error /\ t.text = text
      /\ t.flows = c.flows /\ t.keys = c.keys /\ t.keyAllowed = c.keyAllowed /\ t.indents = c.indents
      /\ t.queue = c.queue /\ t.started = c.started /\ t.ended = c.ended
  BY <1>2, <1>3, <1>7 DEF Alike, Near, Typed, Scans
<1> HIDE DEF t
<1>9. Typed(c) /\ c.text = s.text /\ c.line = s.line /\ c.text # <<>>
  BY <1>2 DEF Alike, Near
<1>10. TextIndented(text, c.indents)
  BY <1>7, <1>9 DEF TextIndented, Typed
<1>11. Typed(t)
  BY <1>8, <1>9, <1>10 DEF Typed
<1>12. Sound(s) => Sound(t)
  <2> SUFFICES ASSUME Sound(s)
               PROVE  Sound(t)
    OBVIOUS
  <2>1. Sound(c)
    BY <1>2, AlikeSound
  <2>2. CASE t.error # "none"
    BY <1>8, <2>1, <2>2 DEF Sound
  <2>3. CASE t.error = "none"
    <3>1. KeysOrdered(c.keys, c.line, Level(c)) /\ KeysPast(c) /\ TextFits(c)
      BY <1>8, <2>1, <2>3 DEF Sound
    <3>2. \A i \in 1..Len(c.keys) : c.keys[i] \in SimpleKeys
      BY <1>9, TypedParts
    <3>3. \A i \in 1..Len(c.keys) : c.keys[i].line \in Int
      BY <3>2 DEF SimpleKeys
    <3>4. KeysOrdered(t.keys, t.line, Level(t))
      BY <1>3, <1>8, <1>9, <3>1, <3>3 DEF KeysOrdered, Level
    <3>5. KeysPast(t)
      BY <1>3, <1>8, <1>9, <3>1, <3>3 DEF KeysPast, KeysUpTo, Block, Level
    <3>6. TextFits(t)
      <4>1. /\ s.text.mark.line <= s.line /\ (s.text.broken => s.text.mark.line < s.line)
            /\ s.text.required => Block(c)
            /\ KeysUpTo(c.keys, s.text.mark.line)
        BY <1>9, <3>1 DEF TextFits
      <4>2. s.text.mark.line \in Int
        BY <1>1 DEF Scalars, Marks
      <4>3. text.mark.line <= end /\ (text.broken => text.mark.line < end)
        BY <1>3, <1>5, <1>7, <4>1, <4>2
      <4> QED BY <1>7, <1>8, <4>1, <4>3 DEF TextFits, Block, Level
    <3> QED BY <1>8, <2>1, <3>4, <3>5, <3>6 DEF Sound
  <2> QED BY <2>2, <2>3
<1>13. t.started = s.started /\ t.ended = s.ended
  BY <1>2, <1>8 DEF Alike, Near
<1> QED BY <1>6, <1>8, <1>11, <1>12, <1>13 DEF end

(* The text is taken away, and the reader goes on to the line behind it.   *)
LEMMA TextDone ==
  ASSUME NEW s, Typed(s), s.error = "none", NEW line \in Int, s.line <= line
  PROVE  LET t == [s EXCEPT !.text = <<>>, !.line = line]
         IN  /\ Typed(t) /\ t.line = line /\ t.error = "none" /\ t.text = <<>>
             /\ t.flows = s.flows /\ t.keys = s.keys /\ t.keyAllowed = s.keyAllowed
             /\ t.indents = s.indents
             /\ t.queue = s.queue /\ t.started = s.started /\ t.ended = s.ended
             /\ Sound(s) => Sound(t)
<1> DEFINE t == [s EXCEPT !.text = <<>>, !.line = line]
<1>1. /\ t \in Scans /\ t.line = line /\ t.error = "none" /\ t.text = <<>>
      /\ t.flows = s.flows /\ t.keys = s.keys /\ t.keyAllowed = s.keyAllowed /\ t.indents = s.indents
      /\ t.queue = s.queue /\ t.started = s.started /\ t.ended = s.ended
  BY DEF Typed, Scans
<1> HIDE DEF t
<1>2. Typed(t)
  BY <1>1 DEF Typed, TextIndented
<1>3. s.line \in Int /\ \A i \in 1..Len(s.keys) : s.keys[i].line \in Int
  BY TypedParts DEF SimpleKeys
<1>4. Sound(s) => Sound(t)
  BY <1>1, <1>3 DEF Sound, KeysOrdered, KeysPast, KeysUpTo, TextFits, Level, Block
<1> QED BY <1>1, <1>2, <1>4 DEF t

LEMMA PlainEndKeeps ==
  ASSUME NEW s, Typed(s), s.error = "none", s.text # <<>>, ~s.ended, NEW n \in Lexemes, s.line <= n.line
  PROVE  /\ Typed(PlainEnd(s, n)) /\ PlainEnd(s, n).started = s.started
         /\ Sound(s) => Sound(PlainEnd(s, n))
         /\ PlainEnd(s, n).error = "none" => PlainEnd(s, n).line = n.line /\ ~PlainEnd(s, n).ended
<1> DEFINE text == s.text
           s0 == [s EXCEPT !.text = <<>>, !.line = n.line]
           ok1 == PlainLineOk(s, n)
           s1 == Check(s0, ok1)
           s2 == Queue(s1, "SCALAR")
           ok2 == (Block(s) /\ ~Complex(s) /\ (text.end > text.mark.line \/ text.tab)) => n.is # ":"
           s3 == Check(s2, ok2)
           s4 == SaveKey(s3, text.mark, text.required, text.end)
           broken == Broken(s, n)
           s5 == [s4 EXCEPT !.keyAllowed = broken]
           t  == Do(s4, s5)
           v  == PlainEnd(s, n)
<1>1. /\ ok1 \in BOOLEAN /\ ok2 \in BOOLEAN /\ "SCALAR" \in LaterTokens /\ n.line \in Int
  BY DEF PlainLineOk, LaterTokens, Content, Lexemes
<1>2. /\ text \in Scalars /\ text.mark.line \in Int /\ text.mark.col \in Int
      /\ text.required \in BOOLEAN /\ text.end \in Int /\ broken \in BOOLEAN
  <2>1. text \in Scalars
    BY DEF Typed, Scans
  <2>2. s.line \in Int
    BY TypedParts
  <2> QED BY <1>1, <2>1, <2>2 DEF Scalars, Marks, Broken
<1>3. v = IF s3.error # "none" THEN s3 ELSE t
  BY DEF PlainEnd
<1>4. /\ Typed(s0) /\ s0.line = n.line /\ s0.error = "none" /\ s0.text = <<>>
      /\ s0.flows = s.flows /\ s0.keys = s.keys /\ s0.started = s.started /\ s0.ended = s.ended
      /\ Sound(s) => Sound(s0)
  BY ZenonT(60), <1>1, TextDone
<1> HIDE DEF s0, v, ok1, ok2
<1>5. Alike(s0, s1) /\ s1.keys = s0.keys
  BY <1>1, <1>4, CheckKeeps
<1> HIDE DEF s1
<1>6. Alike(s1, s2) /\ (s2.error = "none" => s2.queue # <<>>) /\ s2.keys = s1.keys
  BY <1>1, <1>5, QueueKeeps DEF Alike, Near
<1> HIDE DEF s2
<1>7. Alike(s2, s3) /\ (s3.error = "none" => s3 = s2) /\ s3.keys = s2.keys
  BY <1>1, <1>6, CheckKeeps DEF Alike, Near
<1> HIDE DEF s3
<1>8. Alike(s0, s3)
  <2>1. Alike(s0, s2)
    BY <1>4, <1>5, <1>6, AlikeTrans
  <2> QED BY <1>4, <1>7, <2>1, AlikeTrans
<1>9. /\ Typed(s3) /\ s3.line = n.line /\ s3.text = <<>> /\ s3.started = s.started /\ ~s3.ended
      /\ Len(s3.flows) = Len(s.flows) /\ s3.keys = s.keys /\ (Sound(s) => Sound(s3))
  BY <1>4, <1>5, <1>6, <1>7, <1>8, AlikeSound DEF Alike, Near
<1>10. CASE s3.error # "none"
  <2>1. v = s3
    BY <1>3, <1>10
  <2> QED BY <1>9, <1>10, <2>1 DEF v
<1>11. CASE s3.error = "none"
  <2>1. v = t
    BY <1>3, <1>11
  <2> DEFINE mark == text.mark
             required == text.required
             end == text.end
             atMark == /\ mark.line <= s.line /\ (text.broken => mark.line < s.line)
                       /\ required => Block(s)
                       /\ KeysUpTo(s.keys, mark.line)
  <2>2. s4 = SaveKey(s3, mark, required, end)
    OBVIOUS
  <2>3. /\ mark.line \in Int /\ mark.col \in Int /\ required \in BOOLEAN /\ end \in Int
    BY <1>2
  <2>4. Sound(s) => atMark
    BY DEF Sound, TextFits
  <2>5. atMark => mark.line <= s3.line /\ (required => Block(s3))
    <3>1. s.line \in Int /\ n.line \in Int
      BY <1>1, TypedParts
    <3> QED BY <1>9, <2>3, <3>1 DEF Block, Level
  <2>6. /\ Beside(s3, s4) /\ (Sound(s3) => s4.error # "internal")
        /\ Sound(s3) /\ s4.error = "none" =>
             /\ mark.line <= s3.line /\ (required => Block(s3)) => KeysOrdered(s4.keys, s3.line, Level(s3))
             /\ \A l \in Int : KeysUpTo(s3.keys, l) /\ mark.line <= l => KeysUpTo(s4.keys, l)
    <3>1. s3.queue # <<>>
      BY <1>6, <1>7, <1>11
    <3> HIDE DEF mark, required, end, s4
    <3> QED BY <1>9, <1>11, <2>2, <2>3, <3>1, SaveKeeps
  <2> HIDE DEF s4
  <2>7. Typed(s4)
    BY <2>6 DEF Beside
  <2>8. Unmoved(s4, s5) /\ Near(s4, s5) /\ s5.keyAllowed = broken
    <3> HIDE DEF broken
    <3> QED BY <1>2, <2>7, KeyAllowedSet
  <2>9. broken <=> text.broken \/ n.line > s.line
    BY DEF Broken
  <2> HIDE DEF s5, broken
  <2>10. CASE s4.error # "none"
    <3>1. v = s4
      BY <2>1, <2>10 DEF Do
    <3> QED BY <1>9, <2>6, <2>10, <3>1 DEF Beside, Sound, v
  <2>11. CASE s4.error = "none"
    <3>1. v = s5
      BY <2>1, <2>11 DEF Do
    <3>2. /\ Typed(v) /\ v.started = s.started /\ v.error = "none" /\ v.line = n.line /\ ~v.ended
          /\ v.keys = s4.keys /\ v.text = <<>> /\ Level(v) = Level(s3) /\ v.keyAllowed = broken
      BY <1>9, <2>6, <2>8, <2>11, <3>1 DEF Beside, Near, Unmoved, Level
    <3>3. Sound(s) => Sound(v)
      <4> SUFFICES ASSUME Sound(s)
                   PROVE  Sound(v)
        OBVIOUS
      <4>1. atMark
        BY <2>4
      <4>2. KeysOrdered(v.keys, v.line, Level(v))
        <5> HIDE DEF atMark, mark, required
        <5> QED BY <1>9, <2>5, <2>6, <2>11, <3>2, <4>1
      <4>3. broken => KeysUpTo(v.keys, v.line - 1)
        <5> SUFFICES ASSUME broken
                     PROVE  KeysUpTo(v.keys, n.line - 1)
          BY <3>2
        <5>1. s.line \in Int /\ n.line \in Int /\ mark.line \in Int
          BY <1>1, <2>3, TypedParts
        <5>2. mark.line <= n.line - 1
          BY <2>9, <4>1, <5>1
        <5>3. \A i \in 1..Len(s.keys) : s.keys[i] \in SimpleKeys
          BY TypedParts
        <5>4. \A i \in 1..Len(s.keys) : s.keys[i].line \in Int /\ s.keys[i].line <= mark.line
          BY <4>1, <5>3 DEF SimpleKeys, KeysUpTo
        <5>5. KeysUpTo(s3.keys, n.line - 1)
          BY <1>9, <5>1, <5>2, <5>4 DEF KeysUpTo
        <5> HIDE DEF mark, required, atMark
        <5> QED BY <1>9, <2>6, <2>11, <3>2, <5>1, <5>2, <5>5
      <4> QED BY <3>2, <4>2, <4>3 DEF Sound, KeysPast, TextFits
    <3> QED BY <3>2, <3>3 DEF v
  <2> QED BY <2>10, <2>11
<1> QED BY <1>10, <1>11

LEMMA BlockScalarEndKeeps ==
  ASSUME NEW s, Typed(s), s.error = "none", s.text # <<>>, s.text.is = "block", ~s.ended,
         NEW n \in Lexemes, s.line <= n.line
  PROVE  /\ Typed(BlockScalarEnd(s, n)) /\ BlockScalarEnd(s, n).started = s.started
         /\ Sound(s) => Sound(BlockScalarEnd(s, n))
         /\ BlockScalarEnd(s, n).error = "none" =>
              BlockScalarEnd(s, n).line = n.line /\ ~BlockScalarEnd(s, n).ended
<1> DEFINE marker == MarkerAt(n) /\ s.text.indent = 0
           ok == /\ s.text.empty /\ n.is # "end" /\ ~marker => BlockColumn(n) <= Indent(s)
                 /\ BlockLineOk(s, n)
           s0 == [s EXCEPT !.text = <<>>, !.line = n.line]
           s1 == Check(s0, ok)
           s2 == Queue(s1, "SCALAR")
           popped == [s2 EXCEPT !.indents = Front(@)]
           t  == Do(s2, AtLine(popped, s2.line))
           v  == BlockScalarEnd(s, n)
<1>1. ok \in BOOLEAN /\ "SCALAR" \in LaterTokens /\ n.line \in Int
  BY DEF LaterTokens, Content, Lexemes, BlockLineOk
<1>2. v = IF s.text.tab THEN t ELSE s2
  BY DEF BlockScalarEnd, PopIndent
<1>3. /\ Typed(s0) /\ s0.line = n.line /\ s0.error = "none" /\ s0.indents = s.indents
      /\ s0.started = s.started /\ s0.ended = s.ended
      /\ Sound(s) => Sound(s0)
  BY ZenonT(60), <1>1, TextDone
<1> HIDE DEF v, s0, ok
<1>4. Alike(s0, s1) /\ (s1.error = "none" => s1 = s0)
  BY <1>1, <1>3, CheckKeeps
<1> HIDE DEF s1
<1>5. Alike(s1, s2) /\ s2.indents = s1.indents /\ s2.error = s1.error
  BY <1>1, <1>4, QueueKeeps DEF Alike, Near
<1> HIDE DEF s2
<1>6. Alike(s0, s2)
  BY <1>3, <1>4, <1>5, AlikeTrans
<1>7. CASE v = s2
  BY <1>3, <1>6, <1>7, AlikeSound DEF v, Alike, Near
<1>8. CASE v # s2
  <2>1. v = AtLine(popped, s2.line) /\ s2.error = "none" /\ s.text.tab
    BY <1>2, <1>8 DEF Do
  <2>2. s2.indents = s.indents /\ Len(s.indents) >= 2 /\ Typed(s2)
    BY <1>3, <1>4, <1>5, <2>1 DEF Typed, TextIndented, Alike, Near
  <2> DEFINE d == s2.indents
             f == Front(d)
  <2>3. /\ d \in Seq(Frames) /\ d # <<>> /\ IndentsFit(d) /\ Len(d) \in Nat /\ Len(d) >= 2
    BY <2>2, TypedParts DEF Typed
  <2> HIDE DEF d
  <2>4. f \in Seq(Frames) /\ Len(f) = Len(d) - 1 /\ \A i \in 1..Len(f) : f[i] = d[i]
    BY <2>3, FrontLast
  <2> HIDE DEF f
  <2>5. f # <<>>
    BY <2>3, <2>4, EmptySeq
  <2>6. IndentsFit(f)
    <3>1. f[1].at = -2
      BY <2>3, <2>4 DEF IndentsFit
    <3>2. ASSUME NEW i \in 2..Len(f)
          PROVE  f[i].at >= f[i - 1].at
      <4>1. i \in 2..Len(d) /\ i \in 1..Len(f) /\ i - 1 \in 1..Len(f)
        BY <2>3, <2>4
      <4> QED BY <2>3, <2>4, <4>1 DEF IndentsFit
    <3> QED BY <2>5, <3>1, <3>2 DEF IndentsFit
  <2>7. popped = [s2 EXCEPT !.indents = f]
    BY DEF f, d
  <2> HIDE DEF popped
  <2>8. /\ popped \in Scans /\ popped.flows = s2.flows /\ popped.error = s2.error /\ popped.indents = f
        /\ popped.keys = s2.keys /\ popped.queue = s2.queue /\ popped.text = s2.text
        /\ popped.line = s2.line /\ popped.started = s2.started /\ popped.ended = s2.ended
        /\ popped.keyAllowed = s2.keyAllowed
    BY <2>2, <2>4, <2>7 DEF Typed, Scans
  <2>9. s2.text = <<>>
    <3>1. s0.text = <<>>
      BY DEF s0, Typed, Scans
    <3> QED BY <1>6, <3>1 DEF Alike, Near
  <2>10. Alike(s2, popped)
    <3>1. TextIndented(s2.text, popped.indents)
      BY <2>9 DEF TextIndented
    <3>2. Len(popped.queue) >= Len(s2.queue)
      BY <2>2, <2>8, TypedParts
    <3>3. s2.started => popped.queue \in Seq(LaterTokens)
      BY <2>2, <2>8 DEF Typed
    <3> QED BY <2>2, <2>6, <2>8, <3>1, <3>2, <3>3, IndentsSet
  <2>11. Alike(popped, v)
    <3> DEFINE line == s2.line
    <3>1. line \in Int /\ Typed(popped) /\ v = AtLine(popped, line)
      BY <2>1, <2>2, <2>10, TypedParts DEF Alike, Near
    <3> HIDE DEF line
    <3> QED BY <3>1, AtLineKeeps
  <2>12. Alike(s0, v)
    <3>1. Alike(s0, popped)
      BY <1>3, <1>6, <2>10, AlikeTrans
    <3> QED BY <1>3, <2>11, <3>1, AlikeTrans
  <2> QED BY <1>3, <2>12, AlikeSound DEF v, Alike, Near
<1> QED BY <1>7, <1>8

LEMMA BlockScalarStartKeeps ==
  ASSUME NEW s, NEW line, Fresh(s, line), NEW x \in Lexemes, x.line = line, NEW n \in Lexemes
  PROVE  Result(s, BlockScalarStart(s, x, n), line)
<1> DEFINE ok1 == x.col > Indent(s)
           s1 == Check(s, ok1)
           s2 == AllowKey(RemoveKey(s1), TRUE)
           ok2 == NextOnLine(x, n) \in {"newline", "#", "end"}
           s3 == Check(s2, ok2)
           made == x.line # Last(s.indents).line
           u4 == PushIndent(s3, x.col, FALSE, x.line)
           s4 == IF made THEN u4 ELSE s3
           column == IF n.is = "end" THEN 0 ELSE BlockColumn(n)
           least == IF s.first THEN 0 ELSE 1
           content == Max({column, Indent(s4), least})
           text0 == Text(s, x, "block", content)
           text == [text0 EXCEPT !.tab = made]
           s5 == [s4 EXCEPT !.text = text]
           ok5 == BlockLineOk(s4, n)
           s6 == Check(s5, ok5)
           s7 == IF OnNewLine(x, n) THEN s6 ELSE s5
           v  == BlockScalarStart(s, x, n)
<1>1. /\ Typed(s) /\ ok1 \in BOOLEAN /\ ok2 \in BOOLEAN /\ ok5 \in BOOLEAN /\ made \in BOOLEAN
      /\ x.col \in Int /\ x.line \in Int /\ column \in Int /\ least \in Int
  BY DEF Fresh, BlockLineOk, Lexemes, BlockColumn
<1>2. v = IF s1.error # "none" THEN s1 ELSE Do(s3, s7)
  BY DEF BlockScalarStart
<1> HIDE DEF v, ok2, ok5, made, column, least
<1>3. Alike(s, s1) /\ (s1.error = "none" => s1 = s /\ Indent(s) <= x.col)
  <2>1. Indent(s) \in Int
    BY <1>1, IndentType
  <2> HIDE DEF s1, ok1
  <2>2. Alike(s, s1) /\ (s1.error = "none" => ok1 /\ s1 = s)
    BY <1>1, CheckKeeps DEF s1
  <2> QED BY <1>1, <2>1, <2>2 DEF ok1
<1> HIDE DEF s1
<1>4. CASE s1.error # "none"
  BY <1>1, <1>2, <1>3, <1>4, GoodAlike, GoodResult DEF v
<1>5. CASE s1.error = "none"
  <2>1. Good(s, s2) /\ s2.indents = s.indents
    BY <1>1, <1>3, <1>5, RemoveAllow
  <2> HIDE DEF s2
  <2>2. Alike(s2, s3) /\ (s3.error = "none" => s3 = s2)
    BY <1>1, <2>1, CheckKeeps DEF Good, Near
  <2> HIDE DEF s3
  <2>3. Good(s, s3)
    BY <1>1, <2>1, <2>2, GoodAlike, GoodTrans DEF Good, Near
  <2>4. CASE s3.error # "none"
    <3>1. v = s3
      BY <1>2, <1>5, <2>4 DEF Do
    <3> QED BY <2>3, <3>1, GoodResult DEF v
  <2>5. CASE s3.error = "none"
    <3>1. Fresh(s3, line) /\ Indent(s3) <= x.col
      BY <1>3, <1>5, <2>1, <2>2, <2>3, <2>5 DEF Fresh, Good, Near, Indent
    <3>2. Alike(s3, s4) /\ s4.error = "none" /\ (made => Len(s4.indents) >= 2)
      <4>1. made => Alike(s3, u4) /\ u4.error = "none" /\ Len(u4.indents) >= 2
        BY ZenonT(60), <1>1, <2>5, <3>1, PushKeeps DEF Fresh
      <4> HIDE DEF u4
      <4> QED BY <2>5, <3>1, <4>1, NearSelf DEF Fresh
    <3> HIDE DEF s4
    <3>3. Fresh(s4, line) /\ (Sound(s3) => Sound(s4)) /\ s4.started = s3.started
          /\ Len(s4.flows) = Len(s.flows)
      <4>1. Sound(s3) => Sound(s4)
        BY <3>1, <3>2, AlikeSound DEF Fresh
      <4> QED BY <2>3, <3>1, <3>2, <4>1 DEF Fresh, Alike, Good, Near
    <3>4. content \in Int
      <4> DEFINE indent == Indent(s4)
                 T == {column, indent, least}
      <4>1. indent \in Int
        BY <3>3, IndentType DEF Fresh
      <4> HIDE DEF indent
      <4>2. \E a \in T : \A b \in T : a >= b
        BY <1>1, <4>1
      <4>3. Max(T) \in T
        <5> HIDE DEF T
        <5> QED BY <4>2 DEF Max
      <4> QED BY <1>1, <4>1, <4>3 DEF indent
    <3> HIDE DEF content
    <3>5. text0 \in Scalars /\ text0.mark.line = x.line /\ ~text0.broken
          /\ (text0.required => Block(s)) /\ text0.is = "block"
      <4>1. /\ Text(s, x, "block", content) \in Scalars
            /\ Text(s, x, "block", content).mark.line = x.line /\ ~Text(s, x, "block", content).broken
            /\ Text(s, x, "block", content).required => Block(s)
            /\ Text(s, x, "block", content).is = "block"
        BY <3>4, TextType
      <4> HIDE DEF text0
      <4> QED BY <4>1 DEF text0
    <3> HIDE DEF text0
    <3>6. /\ text \in Scalars /\ text.mark.line = line /\ ~text.broken
          /\ text.required => Block(s4)
          /\ text.is = "block" /\ text.tab = made
      <4>1. Block(s) => Block(s4)
        BY <3>3 DEF Block, Level
      <4>2. text \in Scalars /\ text.mark = text0.mark /\ text.broken = text0.broken
            /\ text.required = text0.required /\ text.is = text0.is /\ text.tab = made
        BY <1>1, <3>5 DEF Scalars
      <4> QED BY <3>5, <4>1, <4>2
    <3> HIDE DEF text
    <3>7. Result(s4, s5, line)
      BY <3>2, <3>3, <3>6, TextSet
    <3>7a. ~s5.ended /\ s5.started = s4.started
      BY <3>3 DEF Fresh, Typed, Scans
    <3> HIDE DEF s5
    <3>8. Alike(s5, s6)
      BY <1>1, <3>7, CheckKeeps DEF Result
    <3> HIDE DEF s6
    <3>9. Alike(s5, s7)
      BY <3>7, <3>8, NearSelf DEF Result
    <3> HIDE DEF s7
    <3>10. v = s7
      BY <1>2, <1>5, <2>5 DEF Do
    <3>11. Typed(s5) /\ (Sound(s4) => Sound(s5)) /\ (s5.error = "none" => s5.line = line)
      BY <3>7 DEF Result
    <3>12. s5.line = line
      <4>1. s5.line = s4.line
        BY <3>3 DEF Fresh, Typed, Scans, s5
      <4> QED BY <3>3, <4>1 DEF Fresh
    <3>13. Result(s, v, line)
      BY <2>3, <3>3, <3>7a, <3>9, <3>10, <3>11, <3>12, AlikeSound DEF Alike, Good, Near, Result
    <3> QED BY <3>13 DEF v
  <2> QED BY <2>4, <2>5
<1> QED BY <1>4, <1>5

-----------------------------------------------------------------------------
(* fy_fetch_tokens *)

(***************************************************************************)
(* What a fetch at the lexeme x leaves of the state s.                     *)
(***************************************************************************)
FetchedAt(s, t, x) ==
  /\ Typed(t) /\ t.started = s.started /\ (Sound(s) => Sound(t))
  /\ t.error = "none" => /\ t.line = x.line \/ (x.is = "quoted" /\ t.line = x.line + x.rows)
                         /\ t.ended => t.keys = <<>> /\ t.text = <<>>

LEMMA ResultFetched ==
  ASSUME NEW s, NEW a, NEW t, NEW x, NEW line, line = x.line,
         a.started = s.started, Sound(s) => Sound(a), Result(a, t, line)
  PROVE  FetchedAt(s, t, x)
BY DEF Result, FetchedAt

LEMMA FetchCases ==
  ASSUME NEW s, NEW x, NEW n, NEW a, NEW p,
         a = [Arrived(s, x) EXCEPT !.colonTwice = IF x.is = ":" THEN FALSE ELSE @],
         p = AtLine(a, x.line)
  PROVE  \/ a.error # "none" /\ Fetch(s, x, n) = a
         \/ a.error = "none" /\ x.is = "quoted" /\ Fetch(s, x, n) = Quoted(a, x, n)
         \/ a.error = "none" /\ Fetch(s, x, n) \in
              {StreamEnd(a), PlainStart(a, x, n), Directive(a, x), Marker(a, x, n), FlowStart(p, x),
               FlowEnd(p, x, n), FlowEntry(p, x), BlockEntry(p, x, n), Key(p, x, n), Value(p, x, n),
               PlainEmpty(a, x), BlockScalarStart(a, x, n),
               Property(a, x, n, "ANCHOR"), Property(a, x, n, "ALIAS"),
               Property(a, x, n, "TAG"), Property(a, x, n, "TAG-HANDLE")}
<1> DEFINE f == Fetch(s, x, n)
           tokens == {StreamEnd(a), PlainStart(a, x, n), Directive(a, x), Marker(a, x, n), FlowStart(p, x),
                      FlowEnd(p, x, n), FlowEntry(p, x), BlockEntry(p, x, n), Key(p, x, n), Value(p, x, n),
                      PlainEmpty(a, x), BlockScalarStart(a, x, n),
                      Property(a, x, n, "ANCHOR"), Property(a, x, n, "ALIAS"),
                      Property(a, x, n, "TAG"), Property(a, x, n, "TAG-HANDLE")}
<1>1. a.error # "none" => f = a
  BY DEF Fetch
<1>2. a.error = "none" /\ x.is # "quoted" => f \in tokens
  BY DEF Fetch
<1>3. a.error = "none" /\ x.is = "quoted" => f \in {PlainStart(a, x, n), Quoted(a, x, n)}
  BY DEF Fetch
<1> QED BY <1>1, <1>2, <1>3

(***************************************************************************)
(* A fetch keeps the scanner typed and sound, whatever lexeme is next: its *)
(* stacks keep their bottoms, every simple key names a queued token, and   *)
(* no required key is ever replaced.                                       *)
(***************************************************************************)
THEOREM FetchKeeps ==
  ASSUME NEW s, Typed(s), s.error = "none", s.text = <<>>, ~s.ended,
         NEW x \in Lexemes, s.line <= x.line, NEW n \in Lexemes
  PROVE  FetchedAt(s, Fetch(s, x, n), x)
<1> DEFINE b == IF x.is = ":" THEN FALSE ELSE Arrived(s, x).colonTwice
           a == [Arrived(s, x) EXCEPT !.colonTwice = b]
           p == AtLine(a, x.line)
           f == Fetch(s, x, n)
<1>1. \/ a.error # "none" /\ f = a
      \/ a.error = "none" /\ x.is = "quoted" /\ f = Quoted(a, x, n)
      \/ a.error = "none" /\ f \in
           {StreamEnd(a), PlainStart(a, x, n), Directive(a, x), Marker(a, x, n), FlowStart(p, x),
            FlowEnd(p, x, n), FlowEntry(p, x), BlockEntry(p, x, n), Key(p, x, n), Value(p, x, n),
            PlainEmpty(a, x), BlockScalarStart(a, x, n),
            Property(a, x, n, "ANCHOR"), Property(a, x, n, "ALIAS"),
            Property(a, x, n, "TAG"), Property(a, x, n, "TAG-HANDLE")}
  <2>1. \A first, second :
          first = [Arrived(s, x) EXCEPT !.colonTwice = IF x.is = ":" THEN FALSE ELSE @]
          /\ second = AtLine(first, x.line) =>
            \/ first.error # "none" /\ f = first
            \/ first.error = "none" /\ x.is = "quoted" /\ f = Quoted(first, x, n)
            \/ first.error = "none" /\ f \in
                 {StreamEnd(first), PlainStart(first, x, n), Directive(first, x), Marker(first, x, n),
                  FlowStart(second, x), FlowEnd(second, x, n), FlowEntry(second, x), BlockEntry(second, x, n),
                  Key(second, x, n), Value(second, x, n), PlainEmpty(first, x), BlockScalarStart(first, x, n),
                  Property(first, x, n, "ANCHOR"), Property(first, x, n, "ALIAS"),
                  Property(first, x, n, "TAG"), Property(first, x, n, "TAG-HANDLE")}
    BY FetchCases
  <2> HIDE DEF f
  <2> QED BY ZenonT(60), <2>1
<1>2. b \in BOOLEAN
  <2>1. Typed(Arrived(s, x))
    BY ArrivedKeeps
  <2> QED BY <2>1 DEF Typed, Scans
<1> DEFINE line == x.line
<1>0. x.line = line
  OBVIOUS
<1> HIDE DEF b, f
<1>3. /\ Typed(a) /\ a.started = s.started /\ (Sound(s) => Sound(a))
      /\ a.error = "none" => Fresh(a, line)
      /\ Typed(p) /\ p.started = s.started /\ (Sound(s) => Sound(p))
      /\ a.error = "none" => Fresh(p, line)
  BY <1>2, ArrivedKeeps
<1> HIDE DEF a, p, line
<1>4. ASSUME a.error # "none", f = a PROVE FetchedAt(s, f, x)
  BY <1>3, <1>4 DEF FetchedAt
<1>5. \A t : Result(a, t, line) => FetchedAt(s, t, x)
  BY <1>0, <1>3, ResultFetched
<1>6. \A t : Result(p, t, line) => FetchedAt(s, t, x)
  BY <1>0, <1>3, ResultFetched
<1>7. ASSUME a.error = "none" PROVE FetchedAt(s, f, x)
  <2>1. Fresh(a, line) /\ Fresh(p, line)
    BY <1>3, <1>7
  <2>2. Result(a, StreamEnd(a), line) /\ Result(a, Directive(a, x), line) /\ Result(a, Marker(a, x, n), line)
    BY <2>1, StreamEndKeeps, DirectiveKeeps, MarkerKeeps
  <2>3. Result(a, PlainStart(a, x, n), line) /\ Result(a, PlainEmpty(a, x), line)
    BY <2>1, <1>0, PlainStartKeeps, PlainEmptyKeeps
  <2>4. Result(a, BlockScalarStart(a, x, n), line)
    BY <2>1, <1>0, BlockScalarStartKeeps
  <2>5. /\ Result(a, Property(a, x, n, "ANCHOR"), line) /\ Result(a, Property(a, x, n, "ALIAS"), line)
        /\ Result(a, Property(a, x, n, "TAG"), line) /\ Result(a, Property(a, x, n, "TAG-HANDLE"), line)
    BY <2>1, <1>0, PropertyKeeps
  <2>6. Result(p, FlowStart(p, x), line) /\ Result(p, FlowEnd(p, x, n), line) /\ Result(p, FlowEntry(p, x), line)
    BY <2>1, <1>0, FlowStartKeeps, FlowEndKeeps, FlowEntryKeeps
  <2>7. Result(p, BlockEntry(p, x, n), line) /\ Result(p, Key(p, x, n), line) /\ Result(p, Value(p, x, n), line)
    BY <2>1, BlockEntryKeeps, KeyKeeps, ValueKeeps
  <2>8. x.is = "quoted" => FetchedAt(s, Quoted(a, x, n), x)
    <3>1. /\ Typed(Quoted(a, x, n)) /\ Quoted(a, x, n).started = a.started
          /\ Sound(a) => Sound(Quoted(a, x, n))
          /\ Quoted(a, x, n).error = "none" =>
               /\ Quoted(a, x, n).line = x.line + x.rows
               /\ Quoted(a, x, n).ended => Quoted(a, x, n).keys = <<>> /\ Quoted(a, x, n).text = <<>>
      BY <2>1, <1>0, QuotedKeeps
    <3> QED BY <3>1, <1>3 DEF FetchedAt
  <2> QED BY <1>1, <1>5, <1>6, <1>7, <2>2, <2>3, <2>4, <2>5, <2>6, <2>7, <2>8
<1> QED BY <1>1, <1>4, <1>7 DEF f
===============================================================================
