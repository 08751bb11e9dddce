------------------------ MODULE ValueDecoder_proofs ------------------------
(***************************************************************************)
(* Proofs about ValueDecoder for every document and every client.          *)
(***************************************************************************)
EXTENDS ValueDecoder, SequenceTheorems, WellFoundedInduction, TLAPS

-----------------------------------------------------------------------------
(* Induction.  A set of naturals has a least member: every statement about  *)
(* naturals that has a set of counterexamples can be proved with it.        *)

Before == {ss \in Nat \X Nat : ss[1] < ss[2]}

(***************************************************************************)
(* The order of the naturals is well-founded.                              *)
(***************************************************************************)
LEMMA BeforeWellFounded == IsWellFoundedOn(Before, Nat)
BY NatLessThanWellFounded DEF OpToRel, Before

(***************************************************************************)
(* A set of naturals that is not empty has a least member.                 *)
(***************************************************************************)
LEMMA LeastMember ==
  ASSUME NEW T, T \subseteq Nat, T # {}
  PROVE  \E x \in T : \A y \in T : x <= y
<1>1. PICK x \in T : \A y \in T : ~ (<<y, x>> \in Before)
  BY BeforeWellFounded, WFMin
<1>2. ASSUME NEW y \in T PROVE x <= y
  <2>1. x \in Nat /\ y \in Nat
    OBVIOUS
  <2>2. ~ (<<y, x>> \in Before)
    BY <1>1
  <2> QED BY <2>1, <2>2 DEF Before
<1> QED BY <1>2

-----------------------------------------------------------------------------
(* The node a path leads to: At is defined by recursion on the path, and    *)
(* these lemmas are its two equations.                                      *)

(* g has the nodes on the way along the first n steps of a path.            *)
Way(d, path, n, g) ==
  g = [k \in 0..n |-> IF k = 0 THEN Root ELSE Follow(d, g[k - 1], path[k])]

(***************************************************************************)
(* There is a way along any path.                                          *)
(***************************************************************************)
LEMMA WayExists == ASSUME NEW d, NEW path PROVE \A n \in Nat : \E g : Way(d, path, n, g)
<1> DEFINE T == {n \in Nat : ~ \E g : Way(d, path, n, g)}
<1> SUFFICES ASSUME T # {} PROVE FALSE
  OBVIOUS
<1>1. PICK n \in T : \A m \in T : n <= m
  <2>1. T \subseteq Nat
    OBVIOUS
  <2> HIDE DEF T
  <2> QED BY <2>1, LeastMember
<1>2. CASE n = 0
  <2> DEFINE g == [k \in 0..0 |-> Root]
  <2>1. Way(d, path, 0, g)
    BY DEF Way
  <2> QED BY <1>2, <2>1
<1>3. CASE n # 0
  <2>1. n \in Nat /\ n - 1 \in Nat /\ n - 1 \notin T
    BY <1>1, <1>3
  <2>2. PICK g : Way(d, path, n - 1, g)
    BY <2>1
  <2> DEFINE h == [k \in 0..n |-> IF k = n THEN Follow(d, g[n - 1], path[n]) ELSE g[k]]
  <2>3. \A k \in 0..n - 1 : g[k] = IF k = 0 THEN Root ELSE Follow(d, g[k - 1], path[k])
    BY <2>2 DEF Way
  <2>4. ASSUME NEW k \in 0..n
        PROVE  h[k] = IF k = 0 THEN Root ELSE Follow(d, h[k - 1], path[k])
    <3>1. CASE k = n
      <4>1. h[n - 1] = g[n - 1] /\ h[n] = Follow(d, g[n - 1], path[n])
        BY <2>1, <1>3
      <4> QED BY <4>1, <3>1, <1>3
    <3>2. CASE k = 0
      BY <3>2, <2>1, <2>3, <1>3
    <3>3. CASE k # n /\ k # 0
      <4>1. h[k] = g[k] /\ h[k - 1] = g[k - 1] /\ k \in 0..n - 1
        BY <3>3, <2>1
      <4> QED BY <4>1, <3>3, <2>3
    <3> QED BY <3>1, <3>2, <3>3
  <2>5. h = [k \in 0..n |-> h[k]]
    OBVIOUS
  <2>6. Way(d, path, n, h)
    <3> HIDE DEF h
    <3> QED BY <2>4, <2>5 DEF Way
  <2> QED BY <2>6, <1>1
<1> QED BY <1>2, <1>3

(***************************************************************************)
(* Two ways are the same as far as their paths are.                        *)
(***************************************************************************)
LEMMA WaysAgree ==
  ASSUME NEW d, NEW p, NEW q, NEW m \in Nat, NEW n \in Nat, m <= n,
         \A k \in 1..m : p[k] = q[k],
         NEW g, Way(d, p, m, g), NEW h, Way(d, q, n, h)
  PROVE  g[m] = h[m]
<1> DEFINE T == {k \in 0..m : g[k] # h[k]}
<1> SUFFICES ASSUME T # {} PROVE FALSE
  OBVIOUS
<1>1. PICK k \in T : \A j \in T : k <= j
  <2>1. T \subseteq Nat
    OBVIOUS
  <2> HIDE DEF T
  <2> QED BY <2>1, LeastMember
<1>2. /\ \A j \in 0..m : g[j] = IF j = 0 THEN Root ELSE Follow(d, g[j - 1], p[j])
      /\ \A j \in 0..n : h[j] = IF j = 0 THEN Root ELSE Follow(d, h[j - 1], q[j])
  BY DEF Way
<1>3. k \in 0..m /\ k \in 0..n /\ g[k] # h[k]
  OBVIOUS
<1>4. k # 0
  BY <1>2, <1>3
<1>5. k - 1 \in 0..m /\ k - 1 \notin T /\ p[k] = q[k]
  BY <1>1, <1>3, <1>4
<1>6. g[k - 1] = h[k - 1]
  BY <1>5
<1> QED BY <1>2, <1>3, <1>4, <1>5, <1>6

(***************************************************************************)
(* At is the end of the way along its path.                                *)
(***************************************************************************)
LEMMA AtIsWay ==
  ASSUME NEW d, NEW path, Len(path) \in Nat
  PROVE  \E g : Way(d, path, Len(path), g) /\ At(d, path) = g[Len(path)]
<1> DEFINE at == CHOOSE g : Way(d, path, Len(path), g)
<1>1. Way(d, path, Len(path), at)
  BY WayExists
<1>2. At(d, path) = at[Len(path)]
  BY DEF At, Way
<1> QED BY <1>1, <1>2

(***************************************************************************)
(* The empty path leads to the root.                                       *)
(***************************************************************************)
LEMMA AtEmpty == ASSUME NEW d PROVE At(d, <<>>) = Root
<1>1. Len(<<>>) = 0
  OBVIOUS
<1>2. PICK g : Way(d, <<>>, 0, g) /\ At(d, <<>>) = g[0]
  BY <1>1, AtIsWay
<1> QED BY <1>2 DEF Way

(***************************************************************************)
(* One more step leads to what that step leads to from there.              *)
(***************************************************************************)
LEMMA AtAppend ==
  ASSUME NEW d, NEW S, NEW p \in Seq(S), NEW step \in S
  PROVE  At(d, Append(p, step)) = Follow(d, At(d, p), step)
<1> DEFINE q == Append(p, step)
           n == Len(p)
<1>1. n \in Nat /\ Len(q) = n + 1 /\ q[n + 1] = step /\ \A k \in 1..n : p[k] = q[k]
  BY AppendProperties
<1>2. PICK g : Way(d, p, n, g) /\ At(d, p) = g[n]
  BY <1>1, AtIsWay
<1>3. PICK h : Way(d, q, n + 1, h) /\ At(d, q) = h[n + 1]
  <2> HIDE DEF q
  <2> QED BY <1>1, AtIsWay
<1> HIDE DEF q, n
<1>4. g[n] = h[n]
  BY <1>1, <1>2, <1>3, WaysAgree
<1>5. h[n + 1] = Follow(d, h[n], q[n + 1])
  <2> DEFINE k == n + 1
  <2>1. k \in 0..k /\ k # 0 /\ k - 1 = n
    BY <1>1
  <2>2. h = [j \in 0..k |-> IF j = 0 THEN Root ELSE Follow(d, h[j - 1], q[j])]
    BY <1>3 DEF Way
  <2> HIDE DEF k
  <2>3. h[k] = Follow(d, h[k - 1], q[k])
    BY <2>1, <2>2
  <2> QED BY <2>1, <2>3 DEF k
<1> QED BY <1>1, <1>2, <1>3, <1>4, <1>5 DEF q

-----------------------------------------------------------------------------
(* Types.  Those of TypeOK that depend on the state are stated one by one.  *)

NodeIn(d)    == {Nil} \union DOMAIN d
DecoderIn(d) == [storage : Seq(NodeIn(d)), path : Seq(Step), direct : BOOLEAN]
Containers   == [decoder : Nat, kind : {"keyed", "unkeyed"}, node : Nat, cursor : Nat]
Activations  == [decoder : Nat, step : Seq(Step), handle : Nat, loop : BOOLEAN, node : Nat,
                 next : Nat, decoders : Nat, handles : Nat]

ContainerTyped(d, ds, h)     == h.decoder \in 1..Len(ds) /\ h.node \in DOMAIN d
ActivationTyped(d, ds, hs, c) ==
  /\ c.decoder \in 1..Len(ds) /\ c.handle \in 0..Len(hs) /\ c.node \in NodeIn(d)
  /\ c.decoders \in 1..Len(ds) /\ c.handles \in 0..Len(hs)

Typed ==
  /\ doc \in Documents
  /\ decoders \in Seq(DecoderIn(doc))
  /\ handles \in Seq(Containers)
  /\ \A h \in 1..Len(handles) : ContainerTyped(doc, decoders, handles[h])
  /\ calls \in Seq(Activations)
  /\ \A i \in 1..Len(calls) : ActivationTyped(doc, decoders, handles, calls[i])
  /\ error \in {"none", "null", "mismatch", "missing", "duplicate", "client"}
  /\ outcome \in {"running", "ok", "error"}

-----------------------------------------------------------------------------
(* The inductive invariant.  Each activation finds its decoders as it left  *)
(* them when those it called have returned.  views[i] is what activation i   *)
(* sees: the last is the decoders as they are, and what one sees when the    *)
(* next has left is what the one below saw.                                 *)

UsableIn(v, c) == {c.decoder} \union {d \in (c.decoders + 1)..Len(v) : v[d].direct}

(* In a view, a decoder that may be used looks at the value its path names,  *)
(* and a loop is at its dictionary.                                         *)
LooksAt(d, decoder) ==
  decoder.storage # <<>> /\ decoder.storage[Len(decoder.storage)] = At(d, decoder.path)
Sees(d, v, c) ==
  /\ ~c.loop => \A e \in UsableIn(v, c) : LooksAt(d, v[e])
  /\ c.loop => At(d, v[c.decoder].path) = c.node

(* w is what is left of v when activation c ends.                           *)
LeavesBehind(v, c, w) ==
  /\ Len(w) = c.decoders
  /\ \A e \in 1..c.decoders : w[e] = IF e = c.decoder THEN Leave(v[e], c) ELSE v[e]

(* The containers of activation i are those up to the ones of the next.     *)
Opened(cs, hs, i) == (cs[i].handles + 1)..(IF i = Len(cs) THEN Len(hs) ELSE cs[i + 1].handles)

ViewOK(d, cs, hs, v, i) ==
  /\ cs[i].decoders <= Len(v)
  /\ Sees(d, v, cs[i])
  /\ \A h \in Opened(cs, hs, i) : hs[h].decoder <= Len(v) /\ hs[h].node = At(d, v[hs[h].decoder].path)

Views(d, cs, hs, ds, views) ==
  /\ views \in Seq(Seq(DecoderIn(d))) /\ Len(views) = Len(cs)
  /\ \A i \in 1..Len(cs) : ViewOK(d, cs, hs, views[i], i)
  /\ \A i \in 1..Len(cs) - 1 : LeavesBehind(views[i + 1], cs[i + 1], views[i])
  /\ cs # <<>> => views[Len(cs)] = ds

(* A keyed container has no two keys that are equal, an unkeyed one an index *)
(* in its array.                                                            *)
ClashesIn(d, n) ==
  \E i, j \in DOMAIN EntriesIn(d, n) :
    i # j /\ Shown(EntriesIn(d, n)[i].key) = Shown(EntriesIn(d, n)[j].key)
ContainerOK(d, h) ==
  /\ h.kind = "keyed" => d[h.node].kind = "keyed" /\ ~ClashesIn(d, h.node)
  /\ h.kind = "unkeyed" => h.cursor <= Len(EntriesIn(d, h.node))

(* What an activation is decoding is an element that its caller's container  *)
(* has, and the decoders and containers of activations are nested.           *)
ActivationOK(d, cs, hs, i) ==
  /\ cs[i].loop => cs[i].node # Nil /\ d[cs[i].node].kind = "keyed" /\ cs[i].next > 0
  /\ cs[i].decoder <= cs[i].decoders
  /\ i = 1 => cs[i].handle = 0
  /\ cs[i].handle # 0 =>
       /\ cs[i - 1].handles < cs[i].handle /\ cs[i].handle <= cs[i].handles
       /\ hs[cs[i].handle].kind = "unkeyed" =>
            hs[cs[i].handle].cursor < Len(EntriesIn(d, hs[cs[i].handle].node))
  /\ \A h \in 1..cs[i].handles : hs[h].decoder <= cs[i].decoders
  /\ \A j \in 1..i : cs[j].decoders <= cs[i].decoders /\ cs[j].handles <= cs[i].handles

Consistent(d, cs, hs) ==
  /\ \A h \in 1..Len(hs) : ContainerOK(d, hs[h])
  /\ \A i \in 1..Len(cs) : ActivationOK(d, cs, hs, i)

Viewed == \E views : Views(doc, calls, handles, decoders, views)

IInv ==
  /\ Typed
  /\ Running <=> calls # <<>>
  /\ Consistent(doc, calls, handles)
  /\ Viewed

-----------------------------------------------------------------------------
(* Facts about sequences *)

(***************************************************************************)
(* The first n elements of a sequence.                                     *)
(***************************************************************************)
LEMMA FirstElements ==
  ASSUME NEW S, NEW q \in Seq(S), NEW n \in 0..Len(q)
  PROVE  /\ SubSeq(q, 1, n) \in Seq(S) /\ Len(SubSeq(q, 1, n)) = n
         /\ \A i \in 1..n : SubSeq(q, 1, n)[i] = q[i]
<1>1. Len(q) \in Nat /\ n \in Nat /\ \A i \in 1..n : q[i] \in S
  BY ElementOfSeq
<1>2. /\ SubSeq(q, 1, n) \in Seq(S)
      /\ Len(SubSeq(q, 1, n)) = IF 1 <= n THEN n - 1 + 1 ELSE 0
      /\ \A i \in 1..(n - 1 + 1) : SubSeq(q, 1, n)[i] = q[1 + i - 1]
  BY <1>1, SubSeqProperties
<1>3. n - 1 + 1 = n /\ \A i \in 1..n : 1 + i - 1 = i
  BY <1>1
<1>4. Len(SubSeq(q, 1, n)) = n
  BY <1>1, <1>2
<1>5. \A i \in 1..n : SubSeq(q, 1, n)[i] = q[i]
  BY <1>2, <1>3
<1> QED BY <1>2, <1>4, <1>5

(***************************************************************************)
(* A sequence without its last element; of the empty one it is itself.     *)
(***************************************************************************)
LEMMA FrontFacts ==
  ASSUME NEW S, NEW q \in Seq(S)
  PROVE  /\ Front(q) \in Seq(S)
         /\ q # <<>> => /\ Len(q) \in Nat \ {0} /\ Len(Front(q)) = Len(q) - 1
                        /\ \A i \in 1..Len(q) - 1 : Front(q)[i] = q[i]
<1>1. CASE q = <<>>
  <2>1. Front(q) = SubSeq(<<>>, 1, 0 - 1)
    BY <1>1 DEF Front
  <2>2. SubSeq(<<>>, 1, 0 - 1) \in Seq(S)
    <3>1. \A i \in 1..(0 - 1) : (<<>>)[i] \in S
      OBVIOUS
    <3> QED BY <3>1, SubSeqProperties
  <2> QED BY <1>1, <2>1, <2>2
<1>2. CASE q # <<>>
  <2>1. Len(q) \in Nat /\ Len(q) # 0
    BY <1>2, EmptySeq, LenProperties
  <2> DEFINE n == Len(q) - 1
  <2>2. n \in 0..Len(q)
    BY <2>1
  <2>3. /\ SubSeq(q, 1, n) \in Seq(S) /\ Len(SubSeq(q, 1, n)) = n
        /\ \A i \in 1..n : SubSeq(q, 1, n)[i] = q[i]
    <3> HIDE DEF n
    <3> QED BY <2>2, FirstElements
  <2> QED BY <2>1, <2>3 DEF Front
<1> QED BY <1>1, <1>2

(***************************************************************************)
(* What was appended last is taken away first.                             *)
(***************************************************************************)
LEMMA FrontOfAppend ==
  ASSUME NEW S, NEW q \in Seq(S), NEW x \in S
  PROVE  Front(Append(q, x)) = q
<1> DEFINE r == Append(q, x)
<1>1. r \in Seq(S) /\ Len(r) = Len(q) + 1 /\ Len(q) \in Nat /\ \A i \in 1..Len(q) : r[i] = q[i]
  BY AppendProperties
<1>2. r # <<>>
  BY <1>1, EmptySeq
<1> HIDE DEF r
<1>3. Front(r) \in Seq(S) /\ Len(Front(r)) = Len(q) /\ \A i \in 1..Len(q) : Front(r)[i] = q[i]
  <2>1. /\ Front(r) \in Seq(S) /\ Len(Front(r)) = Len(r) - 1
        /\ \A i \in 1..Len(r) - 1 : Front(r)[i] = r[i]
    BY <1>1, <1>2, FrontFacts
  <2>2. Len(r) - 1 = Len(q)
    BY <1>1
  <2> QED BY <1>1, <2>1, <2>2
<1>4. Front(r) = q
  BY <1>3, SeqEqual
<1> QED BY <1>4 DEF r

(***************************************************************************)
(* A path and at most one step: the path is there again without it.        *)
(***************************************************************************)
LEMMA OneStep ==
  ASSUME NEW S, NEW p \in Seq(S), NEW s \in S
  PROVE  /\ p \o <<>> = p
         /\ p \o <<s>> = Append(p, s)
         /\ <<s>> # <<>>
<1>1. p \o <<>> = p
  BY ConcatEmptySeq
<1>2. p \o <<s>> = Append(p, s)
  BY AppendIsConcat
<1> QED BY <1>1, <1>2

-----------------------------------------------------------------------------
(* Facts about documents *)

(***************************************************************************)
(* The entries of a node lead to nodes.                                    *)
(***************************************************************************)
LEMMA DocumentFacts ==
  ASSUME NEW d \in Documents
  PROVE  /\ Root \in DOMAIN d /\ DOMAIN d \subseteq Nat \ {0} /\ NodeIn(d) \subseteq Nat
         /\ \A n \in NodeIn(d) :
              /\ EntriesIn(d, n) \in Seq(Entries)
              /\ \A i \in 1..Len(EntriesIn(d, n)) : EntriesIn(d, n)[i] \in Entries /\ EntriesIn(d, n)[i].node \in DOMAIN d
              /\ n # Nil => n \in DOMAIN d
         /\ \A n \in DOMAIN d : d[n].kind = "keyed" => DistinctKeys(EntriesIn(d, n))
<1>1. /\ d \in Seq([kind : {"keyed", "unkeyed", "null", "leaf"}, entries : Seq(Entries)])
      /\ Root \in DOMAIN d
      /\ \A n \in DOMAIN d : /\ \A i \in DOMAIN d[n].entries : d[n].entries[i].node \in DOMAIN d
                             /\ d[n].kind = "keyed" => DistinctKeys(d[n].entries)
  BY DocumentsAssumption
<1>2. Len(d) \in Nat /\ DOMAIN d = 1..Len(d)
  BY <1>1, LenProperties
<1>3. DOMAIN d \subseteq Nat \ {0} /\ NodeIn(d) \subseteq Nat
  BY <1>2 DEF NodeIn, Nil
<1>4. ASSUME NEW n \in DOMAIN d
      PROVE  n # Nil /\ d[n].entries \in Seq(Entries) /\ EntriesIn(d, n) = d[n].entries
  <2>1. n # Nil
    BY <1>3 DEF Nil
  <2>2. d[n] \in [kind : {"keyed", "unkeyed", "null", "leaf"}, entries : Seq(Entries)]
    BY <1>1, <1>2, ElementOfSeq
  <2> QED BY <2>1, <2>2 DEF EntriesIn
<1>5. ASSUME NEW n \in NodeIn(d)
      PROVE  /\ EntriesIn(d, n) \in Seq(Entries)
             /\ \A i \in 1..Len(EntriesIn(d, n)) : EntriesIn(d, n)[i] \in Entries /\ EntriesIn(d, n)[i].node \in DOMAIN d
             /\ n # Nil => n \in DOMAIN d
  <2>1. CASE n = Nil
    <3>1. EntriesIn(d, n) = <<>>
      BY <2>1 DEF EntriesIn
    <3>2. Len(<<>>) = 0 /\ <<>> \in Seq(Entries)
      OBVIOUS
    <3> QED BY <2>1, <3>1, <3>2
  <2>2. CASE n # Nil
    <3>1. n \in DOMAIN d
      BY <2>2 DEF NodeIn
    <3>2. EntriesIn(d, n) \in Seq(Entries) /\ EntriesIn(d, n) = d[n].entries
      BY <3>1, <1>4
    <3>3. DOMAIN EntriesIn(d, n) = 1..Len(EntriesIn(d, n))
      BY <3>2, LenProperties
    <3>4. \A i \in 1..Len(EntriesIn(d, n)) : EntriesIn(d, n)[i] \in Entries
      BY <3>2, ElementOfSeq
    <3> QED BY <1>1, <3>1, <3>2, <3>3, <3>4
  <2> QED BY <2>1, <2>2
<1> QED BY <1>1, <1>3, <1>4, <1>5

(***************************************************************************)
(* A step leads to nodes of the document, and the index of an element that  *)
(* is there is below their number.                                         *)
(***************************************************************************)
LEMMA TargetFacts ==
  ASSUME NEW d \in Documents, NEW n \in NodeIn(d), NEW step \in Step, NEW m \in TargetsIn(d, n, step)
  PROVE  /\ n \in DOMAIN d /\ m \in DOMAIN d /\ m \in NodeIn(d)
         /\ step.by = "index" => step.index < Len(EntriesIn(d, n))
<1> DEFINE e == EntriesIn(d, n)
<1>1. e \in Seq(Entries) /\ Len(e) \in Nat /\ DOMAIN e = 1..Len(e)
  BY DocumentFacts, LenProperties
<1>2. PICK i \in DOMAIN e : m = e[i].node /\ (step.by = "index" => i = step.index + 1)
  BY DEF TargetsIn
<1>3. n # Nil
  <2>1. SUFFICES ASSUME n = Nil PROVE FALSE
    OBVIOUS
  <2>2. e = <<>>
    BY <2>1 DEF EntriesIn
  <2>3. Len(e) = 0
    BY <2>2
  <2> QED BY <1>1, <1>2, <2>3
<1>4. step.by = "index" => step.index \in Nat
  BY DEF Step
<1>5. n \in DOMAIN d
  BY <1>3 DEF NodeIn
<1>6. m \in DOMAIN d /\ m \in NodeIn(d)
  <2>1. \A j \in 1..Len(e) : e[j].node \in DOMAIN d
    BY DocumentFacts
  <2> QED BY <1>1, <1>2, <2>1 DEF NodeIn
<1>7. step.by = "index" => step.index < Len(e)
  BY <1>1, <1>2, <1>4
<1> QED BY <1>5, <1>6, <1>7

(***************************************************************************)
(* A step leads to one node: an index, a key of a container without clashes *)
(* and a key of a dictionary are that of one entry.                         *)
(***************************************************************************)
LEMMA OneTarget ==
  ASSUME NEW d \in Documents, NEW n \in NodeIn(d), NEW step \in Step, NEW m \in TargetsIn(d, n, step),
         \/ step.by = "index"
         \/ step.by = "key" /\ ~ClashesIn(d, n)
         \/ step.by = "raw" /\ DistinctKeys(EntriesIn(d, n))
  PROVE  Follow(d, n, step) = m
<1> DEFINE e == EntriesIn(d, n)
<1>1. \A i, j \in DOMAIN e :
        (IF step.by = "index" THEN i = step.index + 1 ELSE Matches(e[i].key, step)) /\
        (IF step.by = "index" THEN j = step.index + 1 ELSE Matches(e[j].key, step)) => i = j
  BY DEF Matches, ClashesIn, DistinctKeys
<1>2. PICK i \in DOMAIN e :
        m = e[i].node /\ (IF step.by = "index" THEN i = step.index + 1 ELSE Matches(e[i].key, step))
  BY DEF TargetsIn
<1>3. \A k \in TargetsIn(d, n, step) : k = m
  BY <1>1, <1>2 DEF TargetsIn
<1> QED BY <1>3 DEF Follow

-----------------------------------------------------------------------------
(* The three things a step may do: it changes what the current activation   *)
(* has, begins another one, or ends it.                                     *)

Errors == {"none", "null", "mismatch", "missing", "duplicate", "client"}

(* h2 is the container h, whose index may have moved; c2 the activation c,  *)
(* whose loop may have moved on.                                            *)
SameContainer(h, h2) == h2.decoder = h.decoder /\ h2.kind = h.kind /\ h2.node = h.node
SameActivation(c, c2) ==
  /\ c2.decoder = c.decoder /\ c2.step = c.step /\ c2.handle = c.handle /\ c2.loop = c.loop
  /\ c2.node = c.node /\ c2.decoders = c.decoders /\ c2.handles = c.handles /\ c2.next >= c.next

(***************************************************************************)
(* While a session runs there is a current activation.                     *)
(***************************************************************************)
LEMMA CurrentFacts ==
  ASSUME IInv, Running
  PROVE  /\ Len(calls) \in Nat \ {0} /\ Current = calls[Len(calls)] /\ Len(calls) \in 1..Len(calls)
         /\ Current \in Activations
         /\ ActivationTyped(doc, decoders, handles, Current)
         /\ ActivationOK(doc, calls, handles, Len(calls))
         /\ Len(decoders) \in Nat /\ Len(handles) \in Nat
<1>1. calls \in Seq(Activations) /\ calls # <<>>
  BY DEF IInv, Typed
<1>2. Len(calls) \in Nat \ {0}
  BY <1>1, EmptySeq, LenProperties
<1>3. Len(calls) \in 1..Len(calls) /\ Current = calls[Len(calls)]
  BY <1>2 DEF Current, Last
<1>4. Current \in Activations
  BY <1>1, <1>3, ElementOfSeq
<1>5. ActivationTyped(doc, decoders, handles, Current) /\ ActivationOK(doc, calls, handles, Len(calls))
  BY <1>3 DEF IInv, Typed, Consistent
<1>6. Len(decoders) \in Nat /\ Len(handles) \in Nat
  BY LenProperties DEF IInv, Typed
<1> QED BY <1>2, <1>3, <1>4, <1>5, <1>6

(***************************************************************************)
(* What an activation leaves behind depends on the decoders it was given.  *)
(***************************************************************************)
LEMMA LeavesSame ==
  ASSUME NEW v, NEW v2, NEW c, NEW c2, NEW w, LeavesBehind(v, c, w), SameActivation(c, c2),
         \A e \in 1..c.decoders : v2[e] = v[e]
  PROVE  LeavesBehind(v2, c2, w)
<1>1. c2.decoders = c.decoders /\ c2.decoder = c.decoder
  BY DEF SameActivation
<1>2. \A r : Leave(r, c2) = Leave(r, c)
  BY DEF SameActivation, Leave
<1>3. Len(w) = c.decoders /\ \A e \in 1..c.decoders : w[e] = IF e = c.decoder THEN Leave(v[e], c) ELSE v[e]
  BY DEF LeavesBehind
<1>4. \A e \in 1..c.decoders : w[e] = IF e = c2.decoder THEN Leave(v2[e], c2) ELSE v2[e]
  BY <1>1, <1>2, <1>3
<1> QED BY <1>1, <1>3, <1>4 DEF LeavesBehind

(***************************************************************************)
(* An activation stays consistent while the containers below it do.        *)
(***************************************************************************)
LEMMA ActivationStays ==
  ASSUME NEW d, NEW cs, NEW cs2, NEW hs, NEW hs2, NEW i \in Nat \ {0}, ActivationOK(d, cs, hs, i),
         \A j \in 1..i : SameActivation(cs[j], cs2[j]) /\ cs[j].handle \in Nat /\ cs[j].handles \in Nat /\ cs[j].next \in Nat /\ cs2[j].next \in Nat,
         \A h \in 1..cs[i].handles : SameContainer(hs[h], hs2[h]),
         cs[i].handle # 0 => hs2[cs[i].handle].cursor = hs[cs[i].handle].cursor
  PROVE  ActivationOK(d, cs2, hs2, i)
<1>1. i \in 1..i /\ (i # 1 => i - 1 \in 1..i)
  OBVIOUS
<1>2. SameActivation(cs[i], cs2[i])
  BY <1>1
<1>3. cs2[i].handle # 0 =>
       /\ cs2[i - 1].handles < cs2[i].handle /\ cs2[i].handle <= cs2[i].handles
       /\ hs2[cs2[i].handle].kind = "unkeyed" =>
            hs2[cs2[i].handle].cursor < Len(EntriesIn(d, hs2[cs2[i].handle].node))
  <2> SUFFICES ASSUME cs2[i].handle # 0
               PROVE  /\ cs2[i - 1].handles < cs2[i].handle /\ cs2[i].handle <= cs2[i].handles
                      /\ hs2[cs2[i].handle].kind = "unkeyed" =>
                           hs2[cs2[i].handle].cursor < Len(EntriesIn(d, hs2[cs2[i].handle].node))
    OBVIOUS
  <2>1. cs[i].handle # 0 /\ cs2[i].handle = cs[i].handle /\ cs2[i].handles = cs[i].handles
    BY <1>2 DEF SameActivation
  <2>2. /\ i # 1 /\ cs[i - 1].handles < cs[i].handle /\ cs[i].handle <= cs[i].handles
        /\ hs[cs[i].handle].kind = "unkeyed" =>
             hs[cs[i].handle].cursor < Len(EntriesIn(d, hs[cs[i].handle].node))
    BY <2>1 DEF ActivationOK
  <2>3. cs2[i - 1].handles = cs[i - 1].handles
    BY <1>1, <2>2 DEF SameActivation
  <2>4. cs[i].handle \in 1..cs[i].handles
    BY <1>1, <2>1, <2>2
  <2>5. SameContainer(hs[cs[i].handle], hs2[cs[i].handle])
    BY <2>4
  <2> QED BY <2>1, <2>2, <2>3, <2>5 DEF SameContainer
<1>4. cs2[i].loop => cs2[i].node # Nil /\ d[cs2[i].node].kind = "keyed" /\ cs2[i].next > 0
  BY <1>1, <1>2 DEF ActivationOK, SameActivation
<1>5. cs2[i].decoder <= cs2[i].decoders /\ (i = 1 => cs2[i].handle = 0)
  BY <1>2 DEF ActivationOK, SameActivation
<1>6. \A h \in 1..cs2[i].handles : hs2[h].decoder <= cs2[i].decoders
  BY <1>2 DEF ActivationOK, SameActivation, SameContainer
<1>7. \A j \in 1..i : cs2[j].decoders <= cs2[i].decoders /\ cs2[j].handles <= cs2[i].handles
  BY <1>2 DEF ActivationOK, SameActivation
<1> QED BY <1>3, <1>4, <1>5, <1>6, <1>7 DEF ActivationOK

(***************************************************************************)
(* A view stays one while the containers of its activation do.             *)
(***************************************************************************)
LEMMA ViewStays ==
  ASSUME NEW d, NEW cs, NEW cs2, NEW hs, NEW hs2, NEW v, NEW i, ViewOK(d, cs, hs, v, i),
         SameActivation(cs[i], cs2[i]), Opened(cs2, hs2, i) = Opened(cs, hs, i),
         \A h \in Opened(cs, hs, i) : SameContainer(hs[h], hs2[h])
  PROVE  ViewOK(d, cs2, hs2, v, i)
<1>1. Sees(d, v, cs2[i])
  <2>1. UsableIn(v, cs2[i]) = UsableIn(v, cs[i])
    BY DEF SameActivation, UsableIn
  <2> QED BY <2>1 DEF Sees, ViewOK, SameActivation
<1>2. cs2[i].decoders <= Len(v)
  BY DEF ViewOK, SameActivation
<1>3. \A h \in Opened(cs2, hs2, i) : hs2[h].decoder <= Len(v) /\ hs2[h].node = At(d, v[hs2[h].decoder].path)
  BY DEF ViewOK, SameContainer
<1> QED BY <1>1, <1>2, <1>3 DEF ViewOK

(***************************************************************************)
(* The current activation uses what it has: it may get further decoders and *)
(* containers, and its containers and its loop move on.                     *)
(***************************************************************************)
LEMMA GrowsKeeps ==
  ASSUME IInv, Running, doc' = doc, outcome' = outcome, error' \in Errors,
         decoders' \in Seq(DecoderIn(doc)), Len(decoders) <= Len(decoders'),
         \A e \in 1..Len(decoders) : decoders'[e] = decoders[e],
         \A e \in (Len(decoders) + 1)..Len(decoders') : decoders'[e].direct => LooksAt(doc, decoders'[e]),
         handles' \in Seq(Containers), Len(handles) <= Len(handles'),
         \A h \in 1..Len(handles) : SameContainer(handles[h], handles'[h]) /\ (h <= Current.handles => handles'[h] = handles[h]),
         \A h \in 1..Len(handles') : ContainerOK(doc, handles'[h]),
         \A h \in (Len(handles) + 1)..Len(handles') :
           /\ ContainerTyped(doc, decoders', handles'[h])
           /\ handles'[h].node = At(doc, decoders'[handles'[h].decoder].path),
         calls' \in Seq(Activations), Len(calls') = Len(calls),
         \A i \in 1..Len(calls) : SameActivation(calls[i], calls'[i])
  PROVE  IInv'
<1> DEFINE C == Len(calls)
<1>1. /\ C \in Nat \ {0} /\ Current = calls[C] /\ C \in 1..C
      /\ ActivationTyped(doc, decoders, handles, Current)
      /\ Len(decoders) \in Nat /\ Len(handles) \in Nat /\ Len(decoders') \in Nat /\ Len(handles') \in Nat
  BY CurrentFacts, LenProperties
<1>2. /\ doc \in Documents
      /\ \A h \in 1..Len(handles) : ContainerTyped(doc, decoders, handles[h])
      /\ \A i \in 1..C : ActivationTyped(doc, decoders, handles, calls[i])
      /\ outcome \in {"running", "ok", "error"}
      /\ \A i \in 1..C : ActivationOK(doc, calls, handles, i)
  BY DEF IInv, Typed, Consistent
<1>3. /\ \A i \in 1..C : calls[i] \in Activations /\ calls'[i] \in Activations
      /\ \A h \in 1..Len(handles) : handles[h] \in Containers
  BY ElementOfSeq DEF IInv, Typed
<1>4. \A h \in 1..Len(handles') : ContainerTyped(doc, decoders', handles'[h])
  <2> SUFFICES ASSUME NEW h \in 1..Len(handles') PROVE ContainerTyped(doc, decoders', handles'[h])
    OBVIOUS
  <2>1. CASE h \in 1..Len(handles)
    <3>1. ContainerTyped(doc, decoders, handles[h]) /\ SameContainer(handles[h], handles'[h])
      BY <2>1, <1>2
    <3> QED BY <3>1, <1>1 DEF ContainerTyped, SameContainer
  <2>2. CASE h \notin 1..Len(handles)
    <3>1. h \in (Len(handles) + 1)..Len(handles')
      BY <2>2, <1>1
    <3> QED BY <3>1
  <2> QED BY <2>1, <2>2
<1>5. \A i \in 1..C : ActivationTyped(doc, decoders', handles', calls'[i])
  <2> SUFFICES ASSUME NEW i \in 1..C PROVE ActivationTyped(doc, decoders', handles', calls'[i])
    OBVIOUS
  <2>1. ActivationTyped(doc, decoders, handles, calls[i]) /\ SameActivation(calls[i], calls'[i])
    BY <1>2
  <2>2. /\ calls[i].decoder \in 1..Len(decoders) /\ calls[i].handle \in 0..Len(handles) /\ calls[i].node \in NodeIn(doc)
        /\ calls[i].decoders \in 1..Len(decoders) /\ calls[i].handles \in 0..Len(handles)
    BY <2>1 DEF ActivationTyped
  <2>3. /\ calls'[i].decoder = calls[i].decoder /\ calls'[i].handle = calls[i].handle /\ calls'[i].node = calls[i].node
        /\ calls'[i].decoders = calls[i].decoders /\ calls'[i].handles = calls[i].handles
    BY <2>1 DEF SameActivation
  <2>4. 1..Len(decoders) \subseteq 1..Len(decoders') /\ 0..Len(handles) \subseteq 0..Len(handles')
    BY <1>1
  <2> QED BY <2>2, <2>3, <2>4 DEF ActivationTyped
<1>6. \A i \in 1..C : ActivationOK(doc, calls', handles', i)
  <2> SUFFICES ASSUME NEW i \in 1..C PROVE ActivationOK(doc, calls', handles', i)
    OBVIOUS
  <2>1. ActivationOK(doc, calls, handles, i) /\ i \in Nat \ {0}
    BY <1>1, <1>2
  <2>2. \A j \in 1..i : /\ SameActivation(calls[j], calls'[j]) /\ calls[j].handle \in Nat /\ calls[j].handles \in Nat
                        /\ calls[j].next \in Nat /\ calls'[j].next \in Nat
    <3>1. \A j \in 1..i : j \in 1..C
      BY <1>1
    <3> QED BY <3>1, <1>3 DEF Activations
  <2>3. calls[i].handles <= Current.handles /\ calls[i].handles <= Len(handles) /\ calls[i].handles \in Nat
    <3>1. ActivationOK(doc, calls, handles, C)
      BY <1>1, <1>2
    <3> QED BY <3>1, <1>1, <1>2 DEF ActivationOK, ActivationTyped
  <2>4. \A h \in 1..calls[i].handles : SameContainer(handles[h], handles'[h]) /\ handles'[h] = handles[h]
    <3>1. Current.handles \in Nat
      BY <1>1, <1>3 DEF Activations
    <3> QED BY <2>3, <3>1, <1>1
  <2>5. calls[i].handle # 0 => calls[i].handle \in 1..calls[i].handles
    <3>1. calls[i].handle \in Nat
      BY <1>3 DEF Activations
    <3> QED BY <3>1, <2>1, <2>3 DEF ActivationOK
  <2> QED BY <2>1, <2>2, <2>4, <2>5, ActivationStays
<1>7. PICK views : Views(doc, calls, handles, decoders, views)
  BY DEF IInv, Viewed
<1>8. /\ views \in Seq(Seq(DecoderIn(doc))) /\ Len(views) = C
      /\ \A i \in 1..C : ViewOK(doc, calls, handles, views[i], i)
      /\ \A i \in 1..C - 1 : LeavesBehind(views[i + 1], calls[i + 1], views[i])
      /\ views[C] = decoders
  <2>1. calls # <<>>
    BY DEF IInv
  <2> QED BY <2>1, <1>7 DEF Views
<1> DEFINE seen == [views EXCEPT ![C] = decoders']
<1>9. /\ seen \in Seq(Seq(DecoderIn(doc))) /\ Len(seen) = C /\ seen[C] = decoders'
      /\ \A i \in 1..C - 1 : seen[i] = views[i]
  <2>1. views \in Seq(Seq(DecoderIn(doc))) /\ C \in 1..Len(views) /\ decoders' \in Seq(DecoderIn(doc))
    BY <1>1, <1>8
  <2>2. /\ seen \in Seq(Seq(DecoderIn(doc))) /\ Len(seen) = Len(views) /\ seen[C] = decoders'
        /\ \A i \in 1..Len(views) : i # C => seen[i] = views[i]
    BY <2>1, ExceptSeq
  <2> QED BY <2>2, <1>1, <1>8
<1>10. \A i \in 1..C - 1 : LeavesBehind(seen[i + 1], calls'[i + 1], seen[i])
  <2> SUFFICES ASSUME NEW i \in 1..C - 1 PROVE LeavesBehind(seen[i + 1], calls'[i + 1], seen[i])
    OBVIOUS
  <2>1. i + 1 \in 1..C /\ LeavesBehind(views[i + 1], calls[i + 1], views[i]) /\ seen[i] = views[i]
    BY <1>1, <1>8, <1>9
  <2>2. \A e \in 1..calls[i + 1].decoders : seen[i + 1][e] = views[i + 1][e]
    <3>1. CASE i + 1 = C
      <4>1. calls[C].decoders \in 1..Len(decoders)
        BY <1>1, <1>2 DEF ActivationTyped
      <4>2. seen[i + 1] = decoders' /\ views[i + 1] = decoders
        BY <3>1, <1>8, <1>9
      <4> QED BY <3>1, <4>1, <4>2, <1>1
    <3>2. CASE i + 1 # C
      <4>1. i + 1 \in 1..C - 1
        BY <3>2, <1>1
      <4> QED BY <4>1, <1>9
    <3> QED BY <3>1, <3>2
  <2>3. SameActivation(calls[i + 1], calls'[i + 1])
    BY <2>1
  <2> QED BY <2>1, <2>2, <2>3, LeavesSame
<1>11. \A i \in 1..C - 1 : ViewOK(doc, calls', handles', seen[i], i)
  <2> SUFFICES ASSUME NEW i \in 1..C - 1 PROVE ViewOK(doc, calls', handles', seen[i], i)
    OBVIOUS
  <2>0. i \in 1..C /\ i + 1 \in 1..C /\ i # C
    BY <1>1
  <2>1. i \in 1..C /\ i + 1 \in 1..C /\ i # C /\ seen[i] = views[i] /\ ViewOK(doc, calls, handles, views[i], i)
    <3> HIDE DEF seen
    <3> QED BY <2>0, <1>8, <1>9
  <2>2. SameActivation(calls[i], calls'[i]) /\ SameActivation(calls[i + 1], calls'[i + 1])
    BY <2>1
  <2>3. Opened(calls', handles', i) = Opened(calls, handles, i)
    BY <2>1, <2>2 DEF Opened, SameActivation
  <2>4. \A h \in Opened(calls, handles, i) : h \in 1..Len(handles)
    <3>1. calls[i].handles \in 0..Len(handles) /\ calls[i + 1].handles \in 0..Len(handles)
      BY <1>2, <2>1 DEF ActivationTyped
    <3> QED BY <3>1, <2>1, <1>1 DEF Opened
  <2>5. \A h \in Opened(calls, handles, i) : SameContainer(handles[h], handles'[h])
    BY <2>4
  <2> QED BY <2>1, <2>2, <2>3, <2>5, ViewStays
<1>12. ViewOK(doc, calls', handles', seen[C], C)
  <2>1. /\ SameActivation(calls[C], calls'[C]) /\ ViewOK(doc, calls, handles, decoders, C)
        /\ calls[C].decoder \in 1..Len(decoders) /\ calls[C].decoders \in 1..Len(decoders)
        /\ calls[C].handles \in 0..Len(handles)
    BY <1>1, <1>2, <1>8 DEF ActivationTyped
  <2>2. Sees(doc, decoders', calls'[C])
    <3>1. ASSUME ~calls[C].loop, NEW e \in UsableIn(decoders', calls'[C]) PROVE LooksAt(doc, decoders'[e])
      <4>1. CASE e \in 1..Len(decoders)
        <5>1. decoders'[e] = decoders[e]
          BY <4>1
        <5>2. e \in UsableIn(decoders, calls[C])
          BY <4>1, <5>1, <2>1 DEF UsableIn, SameActivation
        <5>3. LooksAt(doc, decoders[e])
          BY <3>1, <5>2, <2>1 DEF ViewOK, Sees
        <5> QED BY <5>1, <5>3
      <4>2. CASE e \notin 1..Len(decoders)
        <5>1. e \in (Len(decoders) + 1)..Len(decoders') /\ decoders'[e].direct
          BY <4>2, <2>1, <1>1 DEF UsableIn, SameActivation
        <5> QED BY <5>1
      <4> QED BY <4>1, <4>2
    <3>2. calls[C].loop => At(doc, decoders'[calls[C].decoder].path) = calls[C].node
      BY <2>1 DEF ViewOK, Sees
    <3>3. calls'[C].loop = calls[C].loop /\ calls'[C].decoder = calls[C].decoder /\ calls'[C].node = calls[C].node
      BY <2>1 DEF SameActivation
    <3> QED BY <3>1, <3>2, <3>3 DEF Sees
  <2>3. calls'[C].decoders <= Len(decoders')
    BY <2>1, <1>1 DEF SameActivation
  <2>4. ASSUME NEW h \in Opened(calls', handles', C)
        PROVE  handles'[h].decoder <= Len(decoders') /\ handles'[h].node = At(doc, decoders'[handles'[h].decoder].path)
    <3>1. Opened(calls', handles', C) = (calls[C].handles + 1)..Len(handles')
      BY <2>1 DEF Opened, SameActivation
    <3>2. CASE h \in 1..Len(handles)
      <4>0. Opened(calls, handles, C) = (calls[C].handles + 1)..Len(handles)
        BY DEF Opened
      <4>1. h \in Opened(calls, handles, C)
        BY <4>0, <3>1, <3>2, <2>1, <1>1
      <4>2. handles[h].decoder <= Len(decoders) /\ handles[h].node = At(doc, decoders[handles[h].decoder].path)
        BY <4>1, <2>1 DEF ViewOK
      <4>3. SameContainer(handles[h], handles'[h]) /\ handles[h].decoder \in 1..Len(decoders)
        BY <3>2, <1>2 DEF ContainerTyped
      <4> QED BY <4>2, <4>3, <1>1 DEF SameContainer
    <3>3. CASE h \notin 1..Len(handles)
      <4>1. h \in (Len(handles) + 1)..Len(handles')
        BY <3>1, <3>3, <2>1, <1>1
      <4> QED BY <4>1 DEF ContainerTyped
    <3> QED BY <3>2, <3>3
  <2> QED BY <1>9, <2>2, <2>3, <2>4 DEF ViewOK
<1>13. Views(doc, calls', handles', decoders', seen)
  <2>1. \A i \in 1..C : i = C \/ i \in 1..C - 1
    BY <1>1
  <2> HIDE DEF seen
  <2> QED BY <1>9, <1>10, <1>11, <1>12, <2>1 DEF Views
<1>14. Viewed'
  BY <1>13 DEF Viewed
<1>15. calls' # <<>> /\ Running'
  <2>1. Len(calls') # 0
    BY <1>1
  <2>2. calls' # <<>>
    BY <2>1
  <2> QED BY <2>2 DEF Running
<1>16. Consistent(doc, calls', handles')
  BY <1>6 DEF Consistent
<1>17. Typed'
  BY <1>2, <1>4, <1>5 DEF Typed, Errors
<1> QED BY <1>14, <1>15, <1>16, <1>17 DEF IInv

(***************************************************************************)
(* An activation begins: it sees what its decoder was left with.           *)
(***************************************************************************)
LEMMA EntersKeeps ==
  ASSUME IInv, Running, doc' = doc, outcome' = outcome, error' = error, handles' = handles,
         NEW c \in Activations, calls' = Append(calls, c),
         c.decoders = Len(decoders), c.handles = Len(handles),
         c.decoder \in 1..Len(decoders), c.node \in NodeIn(doc),
         c.loop => c.node # Nil /\ doc[c.node].kind = "keyed" /\ c.next > 0,
         c.handle # 0 => /\ Current.handles < c.handle /\ c.handle <= Len(handles)
                         /\ handles[c.handle].kind = "unkeyed" =>
                              handles[c.handle].cursor < Len(EntriesIn(doc, handles[c.handle].node)),
         decoders' \in Seq(DecoderIn(doc)), Len(decoders') = Len(decoders),
         \A e \in 1..Len(decoders) : e # c.decoder => decoders'[e] = decoders[e],
         Leave(decoders'[c.decoder], c) = decoders[c.decoder],
         Sees(doc, decoders', c)
  PROVE  IInv'
<1> DEFINE C == Len(calls)
<1>1. /\ C \in Nat \ {0} /\ Current = calls[C] /\ C \in 1..C
      /\ Len(decoders) \in Nat /\ Len(handles) \in Nat
  BY CurrentFacts
<1>2. /\ doc \in Documents /\ handles \in Seq(Containers) /\ calls \in Seq(Activations)
      /\ \A h \in 1..Len(handles) : ContainerTyped(doc, decoders, handles[h])
      /\ \A i \in 1..C : ActivationTyped(doc, decoders, handles, calls[i])
      /\ outcome \in {"running", "ok", "error"} /\ error \in Errors
      /\ \A h \in 1..Len(handles) : ContainerOK(doc, handles[h])
      /\ \A i \in 1..C : ActivationOK(doc, calls, handles, i)
  BY DEF IInv, Typed, Consistent, Errors
<1>3. /\ calls' \in Seq(Activations) /\ Len(calls') = C + 1 /\ calls'[C + 1] = c
      /\ \A i \in 1..C : calls'[i] = calls[i]
  BY <1>2, AppendProperties
<1>4. \A i \in 1..C + 1 : i = C + 1 \/ i \in 1..C
  BY <1>1
<1>5. c.handle \in Nat /\ \A i \in 1..C : calls[i] \in Activations
  BY <1>2, ElementOfSeq DEF Activations
<1>6. \A h \in 1..Len(handles) : ContainerTyped(doc, decoders', handles[h])
  BY <1>2 DEF ContainerTyped
<1>7. \A i \in 1..C + 1 : ActivationTyped(doc, decoders', handles, calls'[i])
  <2>1. \A i \in 1..C : ActivationTyped(doc, decoders', handles, calls'[i])
    BY <1>2, <1>3 DEF ActivationTyped
  <2>2. ActivationTyped(doc, decoders', handles, c)
    <3>1. c.handle \in 0..Len(handles)
      BY <1>1, <1>5
    <3>2. c.decoders \in 1..Len(decoders') /\ c.handles \in 0..Len(handles)
      BY <1>1
    <3> QED BY <3>1, <3>2 DEF ActivationTyped
  <2> QED BY <1>3, <1>4, <2>1, <2>2
<1>8. \A i \in 1..C : ActivationOK(doc, calls', handles, i)
  <2> SUFFICES ASSUME NEW i \in 1..C PROVE ActivationOK(doc, calls', handles, i)
    OBVIOUS
  <2>1. i \in Nat \ {0} /\ (i # 1 => i - 1 \in 1..C) /\ \A j \in 1..i : j \in 1..C
    BY <1>1
  <2>2. ActivationOK(doc, calls, handles, i) /\ calls'[i] = calls[i] /\ (i # 1 => calls'[i - 1] = calls[i - 1])
    BY <1>2, <1>3, <2>1
  <2>3. \A j \in 1..i : calls'[j] = calls[j]
    BY <1>3, <2>1
  <2> QED BY <2>1, <2>2, <2>3 DEF ActivationOK
<1>9. ActivationOK(doc, calls', handles, C + 1)
  <2> DEFINE k == C + 1
  <2>1. k # 1 /\ k - 1 = C /\ k \in Nat /\ calls'[k] = c /\ calls'[C] = Current /\ c.decoder <= c.decoders
    BY <1>1, <1>3
  <2>2. \A h \in 1..c.handles : handles[h].decoder <= c.decoders
    BY <1>2 DEF ContainerTyped
  <2>3. ASSUME NEW j \in 1..k PROVE calls'[j].decoders <= c.decoders /\ calls'[j].handles <= c.handles
    <3>1. CASE j = k
      BY <3>1, <2>1, <1>1
    <3>2. CASE j # k
      <4>1. j \in 1..C /\ calls'[j] = calls[j]
        BY <3>2, <1>3, <1>4
      <4> QED BY <4>1, <1>1, <1>2 DEF ActivationTyped
    <3> QED BY <3>1, <3>2
  <2> HIDE DEF k, C
  <2>4. calls'[k].handle # 0 =>
          /\ calls'[k - 1].handles < calls'[k].handle /\ calls'[k].handle <= calls'[k].handles
          /\ handles[calls'[k].handle].kind = "unkeyed" =>
               handles[calls'[k].handle].cursor < Len(EntriesIn(doc, handles[calls'[k].handle].node))
    BY <2>1
  <2>5. calls'[k].loop => calls'[k].node # Nil /\ doc[calls'[k].node].kind = "keyed" /\ calls'[k].next > 0
    BY <2>1
  <2>6. ActivationOK(doc, calls', handles, k)
    BY <2>1, <2>2, <2>3, <2>4, <2>5 DEF ActivationOK
  <2> QED BY <2>6 DEF k
<1>10. PICK views : Views(doc, calls, handles, decoders, views)
  BY DEF IInv, Viewed
<1>11. /\ views \in Seq(Seq(DecoderIn(doc))) /\ Len(views) = C
       /\ \A i \in 1..C : ViewOK(doc, calls, handles, views[i], i)
       /\ \A i \in 1..C - 1 : LeavesBehind(views[i + 1], calls[i + 1], views[i])
       /\ views[C] = decoders
  <2>1. calls # <<>>
    BY DEF IInv
  <2> QED BY <2>1, <1>10 DEF Views
<1> DEFINE seen == Append(views, decoders')
<1>12. /\ seen \in Seq(Seq(DecoderIn(doc))) /\ Len(seen) = C + 1 /\ seen[C + 1] = decoders'
       /\ \A i \in 1..C : seen[i] = views[i]
  BY <1>11, AppendProperties
<1>13. \A i \in 1..C : LeavesBehind(seen[i + 1], calls'[i + 1], seen[i])
  <2> SUFFICES ASSUME NEW i \in 1..C PROVE LeavesBehind(seen[i + 1], calls'[i + 1], seen[i])
    OBVIOUS
  <2>1. CASE i = C
    <3>1. LeavesBehind(decoders', c, decoders)
      BY <1>1 DEF LeavesBehind
    <3>2. seen[i + 1] = decoders' /\ calls'[i + 1] = c /\ seen[i] = decoders
      <4> HIDE DEF seen
      <4> QED BY <2>1, <1>1, <1>3, <1>11, <1>12
    <3> QED BY <3>1, <3>2
  <2>2. CASE i # C
    <3>1. i \in 1..C - 1 /\ i + 1 \in 1..C
      BY <2>2, <1>1
    <3>2. LeavesBehind(views[i + 1], calls[i + 1], views[i])
      BY <3>1, <1>11
    <3>3. seen[i + 1] = views[i + 1] /\ calls'[i + 1] = calls[i + 1] /\ seen[i] = views[i]
      <4> HIDE DEF seen
      <4> QED BY <3>1, <1>3, <1>12
    <3> QED BY <3>2, <3>3
  <2> QED BY <2>1, <2>2
<1>14. \A i \in 1..C : ViewOK(doc, calls', handles, seen[i], i)
  <2> SUFFICES ASSUME NEW i \in 1..C PROVE ViewOK(doc, calls', handles, seen[i], i)
    OBVIOUS
  <2>1. ViewOK(doc, calls, handles, views[i], i) /\ seen[i] = views[i] /\ SameActivation(calls[i], calls'[i])
    <3>1. calls[i].next \in Nat /\ calls'[i] = calls[i]
      BY <1>3, <1>5 DEF Activations
    <3>2. SameActivation(calls[i], calls'[i])
      BY <3>1 DEF SameActivation
    <3>3. ViewOK(doc, calls, handles, views[i], i)
      BY <1>11
    <3>4. seen[i] = views[i]
      <4> HIDE DEF seen
      <4> QED BY <1>12
    <3> QED BY <3>2, <3>3, <3>4
  <2>2. Opened(calls', handles, i) = Opened(calls, handles, i)
    <3>1. i # C + 1 /\ calls'[i] = calls[i]
      BY <1>1, <1>3
    <3>2. CASE i = C
      BY <3>1, <3>2, <1>1, <1>3 DEF Opened
    <3>3. CASE i # C
      <4>1. i + 1 \in 1..C
        BY <3>3, <1>1
      <4>2. calls'[i + 1] = calls[i + 1]
        BY <4>1, <1>3
      <4> QED BY <3>1, <3>3, <4>2, <1>3 DEF Opened
    <3> QED BY <3>2, <3>3
  <2>3. \A h \in Opened(calls, handles, i) : SameContainer(handles[h], handles[h])
    BY DEF SameContainer
  <2> QED BY <2>1, <2>2, <2>3, ViewStays
<1>15. ViewOK(doc, calls', handles, seen[C + 1], C + 1)
  <2>1. Opened(calls', handles, C + 1) = {}
    BY <1>1, <1>3 DEF Opened
  <2>2. c.decoders <= Len(decoders')
    BY <1>1
  <2> HIDE DEF seen
  <2> QED BY <2>1, <2>2, <1>3, <1>12 DEF ViewOK
<1>16. Views(doc, calls', handles, decoders', seen)
  <2>1. C + 1 - 1 = C
    BY <1>1
  <2> HIDE DEF seen, C
  <2>2. \A i \in 1..Len(calls') : ViewOK(doc, calls', handles, seen[i], i)
    BY <1>3, <1>4, <1>14, <1>15
  <2>3. \A i \in 1..Len(calls') - 1 : LeavesBehind(seen[i + 1], calls'[i + 1], seen[i])
    <3>1. Len(calls') - 1 = C
      BY <1>1, <1>3
    <3> QED BY <3>1, <1>13
  <2> QED BY <2>2, <2>3, <1>3, <1>12 DEF Views
<1>17. Viewed'
  BY <1>16 DEF Viewed
<1>18. calls' # <<>> /\ Running'
  <2>1. Len(calls') # 0
    BY <1>1, <1>3
  <2>2. calls' # <<>>
    BY <2>1
  <2> QED BY <2>2 DEF Running
<1>19. Consistent(doc, calls', handles')
  BY <1>2, <1>3, <1>4, <1>8, <1>9 DEF Consistent
<1>20. Typed'
  BY <1>2, <1>3, <1>6, <1>7 DEF Typed, Errors
<1> QED BY <1>17, <1>18, <1>19, <1>20 DEF IInv

(***************************************************************************)
(* An activation ends, and the one below finds what it had left.           *)
(***************************************************************************)
LEMMA LeavesKeeps ==
  ASSUME IInv, Running, doc' = doc, error' \in Errors, decoders' = Restore,
         handles' \in Seq(Containers), Len(handles') = Current.handles,
         \A h \in 1..Current.handles :
           /\ SameContainer(handles[h], handles'[h]) /\ (h # Current.handle => handles'[h] = handles[h])
           /\ ContainerOK(doc, handles'[h]),
         calls' \in Seq(Activations), Len(calls') = Len(calls) - 1,
         \A i \in 1..Len(calls) - 1 : SameActivation(calls[i], calls'[i]),
         outcome' \in {"running", "ok", "error"}, outcome' = "running" <=> Len(calls) # 1
  PROVE  IInv'
<1> DEFINE C == Len(calls)
           c == Current
           B == C - 1
<1>1. /\ C \in Nat \ {0} /\ c = calls[C] /\ C \in 1..C /\ c \in Activations
      /\ ActivationTyped(doc, decoders, handles, c)
      /\ ActivationOK(doc, calls, handles, C)
      /\ Len(decoders) \in Nat /\ Len(handles) \in Nat
  BY CurrentFacts
<1>2. /\ doc \in Documents /\ decoders \in Seq(DecoderIn(doc)) /\ handles \in Seq(Containers) /\ calls \in Seq(Activations)
      /\ \A h \in 1..Len(handles) : ContainerTyped(doc, decoders, handles[h])
      /\ \A i \in 1..C : ActivationTyped(doc, decoders, handles, calls[i])
      /\ \A i \in 1..C : ActivationOK(doc, calls, handles, i)
  BY DEF IInv, Typed, Consistent
<1>3. /\ c.decoder \in 1..c.decoders /\ c.decoders \in 1..Len(decoders) /\ c.handles \in 0..Len(handles)
      /\ c.decoders \in Nat /\ c.handles \in Nat /\ c.handle \in Nat
  BY <1>1 DEF ActivationTyped, ActivationOK, Activations
<1>4. /\ decoders' \in Seq(DecoderIn(doc)) /\ Len(decoders') = c.decoders
      /\ \A e \in 1..c.decoders : decoders'[e] = IF e = c.decoder THEN Leave(decoders[e], c) ELSE decoders[e]
  <2> DEFINE left == SubSeq(decoders, 1, c.decoders)
  <2>1. left \in Seq(DecoderIn(doc)) /\ Len(left) = c.decoders /\ \A e \in 1..c.decoders : left[e] = decoders[e]
    <3>1. c.decoders \in 0..Len(decoders)
      BY <1>1, <1>3
    <3> QED BY <3>1, <1>2, FirstElements
  <2>2. Leave(decoders[c.decoder], c) \in DecoderIn(doc)
    <3>1. decoders[c.decoder] \in DecoderIn(doc)
      BY <1>1, <1>2, <1>3, ElementOfSeq
    <3>2. /\ Front(decoders[c.decoder].storage) \in Seq(NodeIn(doc))
          /\ Front(decoders[c.decoder].path) \in Seq(Step)
      BY <3>1, FrontFacts DEF DecoderIn
    <3> QED BY <3>1, <3>2 DEF Leave, DecoderIn
  <2>3. decoders' = [left EXCEPT ![c.decoder] = Leave(left[c.decoder], c)]
    BY DEF Restore
  <2>4. left[c.decoder] = decoders[c.decoder]
    BY <1>3, <2>1
  <2> HIDE DEF left, c
  <2> QED BY <1>3, <2>1, <2>2, <2>3, <2>4, ExceptSeq
<1>5. \A i \in 1..B : i \in 1..C /\ i # C /\ i + 1 \in 1..C /\ calls[i] \in Activations /\ calls'[i] \in Activations
  <2>1. \A i \in 1..B : i \in 1..C /\ i # C /\ i + 1 \in 1..C
    BY <1>1
  <2>2. \A i \in 1..C : calls[i] \in Activations
    BY <1>2, ElementOfSeq
  <2>3. \A i \in 1..B : calls'[i] \in Activations
    BY ElementOfSeq
  <2> QED BY <2>1, <2>2, <2>3
<1>6. \A i \in 1..B : /\ calls[i].decoders \in 1..c.decoders /\ calls[i].handles \in 0..c.handles
                      /\ calls[i].handles \in Nat /\ calls[i].handle \in Nat
  <2>1. \A i \in 1..B : calls[i].decoders <= c.decoders /\ calls[i].handles <= c.handles
    BY <1>1, <1>5 DEF ActivationOK
  <2> SUFFICES ASSUME NEW i \in 1..B
               PROVE  /\ calls[i].decoders \in 1..c.decoders /\ calls[i].handles \in 0..c.handles
                      /\ calls[i].handles \in Nat /\ calls[i].handle \in Nat
    OBVIOUS
  <2>2. i \in 1..C /\ calls[i] \in Activations /\ ActivationTyped(doc, decoders, handles, calls[i])
    BY <1>2, <1>5
  <2>3. calls[i].decoders \in 1..Len(decoders) /\ calls[i].handles \in Nat /\ calls[i].handle \in Nat
    BY <2>2 DEF ActivationTyped, Activations
  <2>4. calls[i].decoders <= c.decoders /\ calls[i].handles <= c.handles
    BY <2>1
  <2> HIDE DEF c
  <2> QED BY <2>3, <2>4, <1>1, <1>3
<1>7. \A h \in 1..Len(handles') : ContainerTyped(doc, decoders', handles'[h])
  <2> SUFFICES ASSUME NEW h \in 1..c.handles PROVE ContainerTyped(doc, decoders', handles'[h])
    OBVIOUS
  <2>1. h \in 1..Len(handles) /\ SameContainer(handles[h], handles'[h])
    BY <1>1, <1>3
  <2>2. ContainerTyped(doc, decoders, handles[h]) /\ handles[h].decoder <= c.decoders
    BY <2>1, <1>1, <1>2 DEF ActivationOK
  <2> QED BY <2>1, <2>2, <1>4 DEF ContainerTyped, SameContainer
<1>8. \A i \in 1..B : ActivationTyped(doc, decoders', handles', calls'[i])
  <2> SUFFICES ASSUME NEW i \in 1..B PROVE ActivationTyped(doc, decoders', handles', calls'[i])
    OBVIOUS
  <2>1. ActivationTyped(doc, decoders, handles, calls[i]) /\ ActivationOK(doc, calls, handles, i) /\ SameActivation(calls[i], calls'[i])
    BY <1>2, <1>5
  <2>2. calls[i].handle \in 0..c.handles
    <3>1. calls[i].handles \in Nat /\ calls[i].handles <= c.handles /\ calls[i].handle \in Nat
      BY <1>3, <1>6
    <3>2. calls[i].handle = 0 \/ calls[i].handle <= calls[i].handles
      BY <2>1 DEF ActivationOK
    <3> HIDE DEF c
    <3> QED BY <3>1, <3>2, <1>3
  <2>3. calls[i].decoder \in 1..c.decoders
    <3> DEFINE x == calls[i].decoder
               y == calls[i].decoders
               z == c.decoders
    <3>1. x \in 1..Len(decoders) /\ y \in 1..Len(decoders)
      BY <2>1 DEF ActivationTyped
    <3>2. x <= y
      BY <2>1 DEF ActivationOK
    <3>3. y \in 1..z /\ z \in Nat /\ Len(decoders) \in Nat
      BY <1>1, <1>3, <1>6
    <3> HIDE DEF x, y, z
    <3>4. x \in 1..z
      BY <3>1, <3>2, <3>3
    <3> QED BY <3>4 DEF x, z
  <2>4. /\ calls'[i].decoder = calls[i].decoder /\ calls'[i].handle = calls[i].handle /\ calls'[i].node = calls[i].node
        /\ calls'[i].decoders = calls[i].decoders /\ calls'[i].handles = calls[i].handles
    BY <2>1 DEF SameActivation
  <2>5. calls[i].node \in NodeIn(doc)
    BY <2>1 DEF ActivationTyped
  <2>6. Len(decoders') = c.decoders /\ Len(handles') = c.handles
    BY <1>4
  <2>7. calls[i].decoders \in 1..c.decoders /\ calls[i].handles \in 0..c.handles
    BY <1>6
  <2> HIDE DEF c
  <2> QED BY <2>2, <2>3, <2>4, <2>5, <2>6, <2>7 DEF ActivationTyped
<1>9. \A i \in 1..B : ActivationOK(doc, calls', handles', i)
  <2> SUFFICES ASSUME NEW i \in 1..B PROVE ActivationOK(doc, calls', handles', i)
    OBVIOUS
  <2>1. ActivationOK(doc, calls, handles, i) /\ i \in Nat \ {0}
    BY <1>1, <1>2, <1>5
  <2>2. \A j \in 1..i : /\ SameActivation(calls[j], calls'[j]) /\ calls[j].handle \in Nat /\ calls[j].handles \in Nat
                        /\ calls[j].next \in Nat /\ calls'[j].next \in Nat
    <3>1. \A j \in 1..i : j \in 1..B
      BY <1>1
    <3> QED BY <3>1, <1>5 DEF Activations
  <2>3. \A h \in 1..calls[i].handles : SameContainer(handles[h], handles'[h])
    BY <1>3, <1>6
  <2>4. calls[i].handle # 0 => handles'[calls[i].handle].cursor = handles[calls[i].handle].cursor
    <3> SUFFICES ASSUME calls[i].handle # 0 PROVE handles'[calls[i].handle] = handles[calls[i].handle]
      OBVIOUS
    <3>1. calls[i].handle \in 1..c.handles
      <4>1. calls[i].handles \in Nat /\ calls[i].handles <= c.handles /\ calls[i].handle \in Nat
        BY <1>3, <1>6
      <4>2. calls[i].handle <= calls[i].handles /\ calls[i].handle # 0
        BY <2>1 DEF ActivationOK
      <4> DEFINE x == calls[i].handle
                 y == calls[i].handles
                 z == c.handles
      <4>3. x \in Nat /\ y \in Nat /\ z \in Nat /\ y <= z /\ x <= y /\ x # 0
        BY <4>1, <4>2, <1>3
      <4> HIDE DEF x, y, z
      <4>4. x \in 1..z
        BY <4>3
      <4> QED BY <4>4 DEF x, z
    <3>2. calls[i].handle # c.handle
      <4>1. calls[i].handle <= calls[i].handles
        BY <2>1 DEF ActivationOK
      <4>2. B \in 1..C /\ C # 1 /\ C - 1 = B /\ i \in 1..B
        BY <1>1
      <4>3. calls[i].handles <= calls[B].handles
        BY <4>2, <1>2 DEF ActivationOK
      <4>4. c.handle # 0 => calls[B].handles < c.handle
        BY <4>2, <1>1 DEF ActivationOK
      <4>5. calls[B].handles \in Nat
        BY <4>2, <1>6
      <4> DEFINE x == calls[i].handle
                 y == calls[i].handles
                 z == calls[B].handles
                 t == c.handle
      <4>6. x \in Nat /\ y \in Nat /\ z \in Nat /\ t \in Nat /\ x <= y /\ y <= z /\ (t # 0 => z < t) /\ x # 0
        BY <4>1, <4>3, <4>4, <4>5, <1>3, <1>6
      <4> HIDE DEF x, y, z, t
      <4>7. x # t
        BY <4>6
      <4> QED BY <4>7 DEF x, t
    <3> QED BY <3>1, <3>2
  <2> QED BY <2>1, <2>2, <2>3, <2>4, ActivationStays
<1>10. PICK views : Views(doc, calls, handles, decoders, views)
  BY DEF IInv, Viewed
<1>11. /\ views \in Seq(Seq(DecoderIn(doc))) /\ Len(views) = C
       /\ \A i \in 1..C : ViewOK(doc, calls, handles, views[i], i)
       /\ \A i \in 1..B : LeavesBehind(views[i + 1], calls[i + 1], views[i])
       /\ views[C] = decoders
  <2>1. calls # <<>>
    BY DEF IInv
  <2> QED BY <2>1, <1>10 DEF Views
<1> DEFINE seen == SubSeq(views, 1, B)
<1>12. seen \in Seq(Seq(DecoderIn(doc))) /\ Len(seen) = B /\ \A i \in 1..B : seen[i] = views[i]
  <2>1. B \in 0..Len(views)
    BY <1>1, <1>11
  <2> HIDE DEF B
  <2> QED BY <2>1, <1>11, FirstElements
<1>13. \A i \in 1..B - 1 : LeavesBehind(seen[i + 1], calls'[i + 1], seen[i])
  <2> SUFFICES ASSUME NEW i \in 1..B - 1 PROVE LeavesBehind(seen[i + 1], calls'[i + 1], seen[i])
    OBVIOUS
  <2>1. i \in 1..B /\ i + 1 \in 1..B
    BY <1>1
  <2>2. LeavesBehind(views[i + 1], calls[i + 1], views[i]) /\ SameActivation(calls[i + 1], calls'[i + 1])
    BY <2>1, <1>11
  <2>3. seen[i + 1] = views[i + 1] /\ seen[i] = views[i]
    <3> HIDE DEF seen
    <3> QED BY <2>1, <1>12
  <2> QED BY <2>2, <2>3, LeavesSame
<1>14. \A i \in 1..B : ViewOK(doc, calls', handles', seen[i], i)
  <2> SUFFICES ASSUME NEW i \in 1..B PROVE ViewOK(doc, calls', handles', seen[i], i)
    OBVIOUS
  <2>1. ViewOK(doc, calls, handles, views[i], i) /\ seen[i] = views[i] /\ SameActivation(calls[i], calls'[i])
    <3> HIDE DEF seen
    <3> QED BY <1>5, <1>11, <1>12
  <2>2. Opened(calls', handles', i) = Opened(calls, handles, i)
    <3>1. CASE i = B
      <4>1. Opened(calls', handles', i) = (calls'[i].handles + 1)..c.handles
        BY <3>1 DEF Opened
      <4>2. Opened(calls, handles, i) = (calls[i].handles + 1)..c.handles
        <5>1. i # Len(calls) /\ i + 1 = C
          BY <3>1, <1>1
        <5> QED BY <5>1, <1>1 DEF Opened
      <4> QED BY <4>1, <4>2, <2>1 DEF SameActivation
    <3>2. CASE i # B
      <4>1. i + 1 \in 1..B /\ i # Len(calls) /\ i # Len(calls')
        BY <3>2, <1>1
      <4>2. SameActivation(calls[i + 1], calls'[i + 1])
        BY <4>1
      <4> QED BY <4>1, <4>2, <2>1 DEF Opened, SameActivation
    <3> QED BY <3>1, <3>2
  <2>3. \A h \in Opened(calls, handles, i) : h \in 1..c.handles
    <3>1. calls[i].handles \in Nat /\ i + 1 \in 1..C /\ i # Len(calls)
      BY <1>5, <1>6
    <3>2. calls[i + 1].handles \in Nat /\ calls[i + 1].handles <= c.handles
      <4>1. CASE i + 1 = C
        BY <4>1, <1>1, <1>3
      <4>2. CASE i + 1 # C
        <5>1. i + 1 \in 1..B
          BY <4>2, <3>1, <1>1
        <5>2. calls[i + 1].handles \in 0..c.handles /\ calls[i + 1].handles \in Nat
          BY <5>1, <1>6
        <5> HIDE DEF c
        <5> QED BY <5>2, <1>3
      <4> QED BY <4>1, <4>2
    <3> DEFINE x == calls[i].handles
               y == calls[i + 1].handles
               z == c.handles
    <3>3. Opened(calls, handles, i) = (x + 1)..y
      BY <3>1 DEF Opened
    <3>4. x \in Nat /\ y \in Nat /\ z \in Nat /\ y <= z
      BY <3>1, <3>2, <1>3
    <3> HIDE DEF x, y, z
    <3>5. \A h \in (x + 1)..y : h \in 1..z
      BY <3>4
    <3> QED BY <3>3, <3>5 DEF z
  <2>4. \A h \in Opened(calls, handles, i) : SameContainer(handles[h], handles'[h])
    BY <2>3
  <2> QED BY <2>1, <2>2, <2>4, ViewStays
<1>15. B # 0 => seen[B] = decoders'
  <2> SUFFICES ASSUME B # 0 PROVE views[B] = decoders'
    <3>1. B # 0 => B \in 1..B
      BY <1>1
    <3> HIDE DEF seen
    <3> QED BY <3>1, <1>12
  <2>1. B \in 1..B /\ B + 1 = C
    BY <1>1
  <2>2. LeavesBehind(decoders, c, views[B])
    BY <2>1, <1>1, <1>11
  <2>3. views[B] \in Seq(DecoderIn(doc))
    BY <2>1, <1>5, <1>11, ElementOfSeq
  <2>4. Len(views[B]) = c.decoders /\ \A e \in 1..c.decoders : views[B][e] = decoders'[e]
    BY <2>2, <1>4 DEF LeavesBehind
  <2>5. decoders' \in Seq(DecoderIn(doc)) /\ Len(decoders') = c.decoders
    BY <1>4
  <2> DEFINE v == views[B]
             w == decoders'
             k == c.decoders
  <2>6. v \in Seq(DecoderIn(doc)) /\ w \in Seq(DecoderIn(doc)) /\ Len(v) = k /\ Len(w) = k /\ \A e \in 1..k : v[e] = w[e]
    BY <2>3, <2>4, <2>5
  <2> HIDE DEF v, w, k
  <2>7. v = w
    BY <2>6, SeqEqual
  <2> QED BY <2>7 DEF v, w
<1>16. Views(doc, calls', handles', decoders', seen)
  <2>1. calls' # <<>> => B # 0
    BY EmptySeq
  <2> HIDE DEF seen
  <2> QED BY <2>1, <1>12, <1>13, <1>14, <1>15 DEF Views
<1>17. Viewed'
  BY <1>16 DEF Viewed
<1>18. (Running <=> calls # <<>>)'
  <2>1. calls' # <<>> <=> Len(calls') # 0
    BY EmptySeq
  <2>2. Len(calls') # 0 <=> Len(calls) # 1
    BY <1>1
  <2> QED BY <2>1, <2>2 DEF Running
<1>19. Consistent(doc, calls', handles')
  BY <1>9 DEF Consistent
<1>20. Typed'
  BY <1>2, <1>4, <1>7, <1>8 DEF Typed, Errors
<1> QED BY <1>17, <1>18, <1>19, <1>20 DEF IInv

-----------------------------------------------------------------------------
(* The actions *)

(***************************************************************************)
(* What the current activation may use, in its own view: its decoders look *)
(* at the values of their paths, and so do its containers.                 *)
(***************************************************************************)
LEMMA InView ==
  ASSUME IInv, Running
  PROVE  /\ ~Current.loop => \A e \in Usable : e \in 1..Len(decoders) /\ LooksAt(doc, decoders[e])
         /\ Current.loop => At(doc, decoders[Current.decoder].path) = Current.node
         /\ Usable = UsableIn(decoders, Current)
         /\ \A h \in Held :
              /\ h \in 1..Len(handles) /\ Current.handles < h
              /\ handles[h] \in Containers /\ ContainerTyped(doc, decoders, handles[h]) /\ ContainerOK(doc, handles[h])
              /\ handles[h].node = At(doc, decoders[handles[h].decoder].path)
<1> DEFINE C == Len(calls)
<1>1. /\ C \in Nat \ {0} /\ C \in 1..C /\ Current = calls[C] /\ calls # <<>>
      /\ Current \in Activations /\ ActivationTyped(doc, decoders, handles, Current)
      /\ Len(decoders) \in Nat /\ Len(handles) \in Nat
  BY CurrentFacts DEF IInv
<1>2. PICK views : Views(doc, calls, handles, decoders, views)
  BY DEF IInv, Viewed
<1>3. ViewOK(doc, calls, handles, decoders, C)
  BY <1>1, <1>2 DEF Views
<1>4. Usable = UsableIn(decoders, Current)
  BY DEF Usable, UsableIn
<1>5. Sees(doc, decoders, Current)
  BY <1>1, <1>3 DEF ViewOK
<1>6. Held = Opened(calls, handles, C)
  BY <1>1 DEF Held, Opened
<1>7. \A e \in Usable : e \in 1..Len(decoders)
  BY <1>1 DEF Usable, ActivationTyped, Activations
<1>8. \A h \in Held : h \in 1..Len(handles) /\ Current.handles < h
  BY <1>1 DEF Held, Activations
<1>9. \A h \in 1..Len(handles) :
        handles[h] \in Containers /\ ContainerTyped(doc, decoders, handles[h]) /\ ContainerOK(doc, handles[h])
  BY ElementOfSeq DEF IInv, Typed, Consistent
<1>10. \A h \in Held : handles[h].node = At(doc, decoders[handles[h].decoder].path)
  BY <1>3, <1>6 DEF ViewOK
<1> QED BY <1>4, <1>5, <1>7, <1>8, <1>9, <1>10 DEF Sees

(***************************************************************************)
(* A decoder that may be used has the value of its path on its storage.    *)
(***************************************************************************)
LEMMA TopFacts ==
  ASSUME IInv, Client, NEW e \in Usable
  PROVE  /\ e \in 1..Len(decoders) /\ decoders[e] \in DecoderIn(doc)
         /\ TopContainer(e) = At(doc, decoders[e].path) /\ TopContainer(e) \in NodeIn(doc)
<1>1. e \in 1..Len(decoders) /\ LooksAt(doc, decoders[e])
  BY InView DEF Client, Ready
<1>2. decoders[e] \in DecoderIn(doc)
  BY <1>1, ElementOfSeq DEF IInv, Typed
<1>3. decoders[e].storage \in Seq(NodeIn(doc)) /\ decoders[e].storage # <<>>
  BY <1>1, <1>2 DEF DecoderIn, LooksAt
<1>4. Len(decoders[e].storage) \in 1..Len(decoders[e].storage)
  BY <1>3, EmptySeq, LenProperties
<1>5. TopContainer(e) = decoders[e].storage[Len(decoders[e].storage)]
  BY DEF TopContainer, Last
<1> QED BY <1>1, <1>2, <1>3, <1>4, <1>5, ElementOfSeq DEF LooksAt

(***************************************************************************)
(* A step of a container leads to one node, which is where the path of its *)
(* decoder leads with that step.                                           *)
(***************************************************************************)
LEMMA StepFacts ==
  ASSUME IInv, Running, NEW h \in Held, NEW step \in Steps(h)
  PROVE  /\ step \in Step
         /\ handles[h].decoder \in 1..Len(decoders) /\ decoders[handles[h].decoder] \in DecoderIn(doc)
         /\ \A n \in Targets(handles[h].node, step) :
              /\ n \in DOMAIN doc /\ n \in NodeIn(doc)
              /\ handles[h].kind = "unkeyed" => handles[h].cursor < Len(EntriesIn(doc, handles[h].node))
              /\ At(doc, Append(decoders[handles[h].decoder].path, step)) = n
         /\ Targets(handles[h].node, step) = {} => At(doc, Append(decoders[handles[h].decoder].path, step)) = Nil
<1> DEFINE m == handles[h].node
           p == decoders[handles[h].decoder].path
<1>1. /\ h \in 1..Len(handles) /\ handles[h] \in Containers /\ ContainerTyped(doc, decoders, handles[h])
      /\ ContainerOK(doc, handles[h]) /\ m = At(doc, p)
  BY InView
<1>2. step \in Step /\ (handles[h].kind = "keyed" => step.by = "key")
                    /\ (handles[h].kind = "unkeyed" => step.by = "index" /\ step.index = handles[h].cursor)
  BY <1>1, ConvertAssumption DEF Steps, Step, KeyStep, IndexStep, Shown, Containers, NoKey
<1>3. doc \in Documents /\ decoders[handles[h].decoder] \in DecoderIn(doc) /\ handles[h].decoder \in 1..Len(decoders)
      /\ m \in NodeIn(doc)
  BY <1>1, ElementOfSeq DEF IInv, Typed, ContainerTyped, NodeIn
<1>4. At(doc, Append(p, step)) = Follow(doc, m, step)
  <2>1. p \in Seq(Step)
    BY <1>3 DEF DecoderIn
  <2> QED BY <2>1, <1>1, <1>2, AtAppend
<1>5. ASSUME NEW n \in Targets(m, step)
      PROVE  /\ n \in DOMAIN doc /\ n \in NodeIn(doc)
             /\ handles[h].kind = "unkeyed" => handles[h].cursor < Len(EntriesIn(doc, m))
             /\ Follow(doc, m, step) = n
  <2>1. n \in TargetsIn(doc, m, step)
    BY DEF Targets
  <2>2. n \in DOMAIN doc /\ n \in NodeIn(doc) /\ (step.by = "index" => step.index < Len(EntriesIn(doc, m)))
    BY <2>1, <1>2, <1>3, TargetFacts
  <2>3. handles[h].kind \in {"keyed", "unkeyed"}
    BY <1>1 DEF Containers
  <2>4. step.by = "index" \/ (step.by = "key" /\ ~ClashesIn(doc, m))
    BY <2>3, <1>1, <1>2 DEF ContainerOK
  <2>5. Follow(doc, m, step) = n
    BY <2>1, <2>4, <1>2, <1>3, OneTarget
  <2> QED BY <2>2, <2>5, <1>2
<1>6. Targets(m, step) = {} => Follow(doc, m, step) = Nil
  BY DEF Targets, Follow
<1> HIDE DEF m, p
<1> QED BY <1>2, <1>3, <1>4, <1>5, <1>6 DEF m, p

(***************************************************************************)
(* A step that changes no more than the error.                             *)
(***************************************************************************)
LEMMA NothingChanges ==
  ASSUME IInv, doc' = doc, decoders' = decoders, handles' = handles, calls' = calls, outcome' = outcome, error' \in Errors
  PROVE  IInv'
<1>1. Typed'
  BY DEF IInv, Typed, Errors
<1>2. Consistent(doc, calls, handles)' /\ Viewed' /\ (Running <=> calls # <<>>)'
  BY DEF IInv, Viewed, Running
<1> QED BY <1>1, <1>2 DEF IInv

(***************************************************************************)
(* Calls that are left alone are the same.                                 *)
(***************************************************************************)
LEMMA CallsStay ==
  ASSUME IInv, calls' = calls
  PROVE  calls' \in Seq(Activations) /\ Len(calls') = Len(calls)
         /\ \A i \in 1..Len(calls) : SameActivation(calls[i], calls'[i])
<1>1. calls \in Seq(Activations)
  BY DEF IInv, Typed
<1>2. \A i \in 1..Len(calls) : calls[i] \in Activations
  BY <1>1, ElementOfSeq
<1>3. \A c \in Activations : SameActivation(c, c)
  BY DEF Activations, SameActivation
<1> QED BY <1>1, <1>2, <1>3

(***************************************************************************)
(* The loop of an activation moves on.                                     *)
(***************************************************************************)
LEMMA LoopMoves ==
  ASSUME NEW cs \in Seq(Activations), cs # <<>>
  PROVE  NextEntry(cs) \in Seq(Activations) /\ Len(NextEntry(cs)) = Len(cs)
         /\ \A i \in 1..Len(cs) : SameActivation(cs[i], NextEntry(cs)[i])
<1> DEFINE n == Len(cs)
           c == [cs[n] EXCEPT !.next = cs[n].next + 1]
<1>1. n \in Nat \ {0} /\ n \in 1..n /\ \A i \in 1..n : cs[i] \in Activations
  BY EmptySeq, LenProperties, ElementOfSeq
<1>2. c \in Activations /\ SameActivation(cs[n], c)
  <2>1. \A a \in Activations : a.next \in Nat /\ [a EXCEPT !.next = a.next + 1] \in Activations
    <3>1. \A a \in Activations, k \in Nat : [a EXCEPT !.next = k] \in Activations
      BY DEF Activations
    <3>2. ASSUME NEW a \in Activations PROVE a.next \in Nat /\ a.next + 1 \in Nat
      <4>1. a.next \in Nat
        BY DEF Activations
      <4> QED BY <4>1
    <3> QED BY <3>1, <3>2
  <2>2. \A a \in Activations : SameActivation(a, [a EXCEPT !.next = a.next + 1])
    BY <2>1 DEF Activations, SameActivation
  <2> QED BY <1>1, <2>1, <2>2
<1>3. NextEntry(cs) = [cs EXCEPT ![n] = c]
  BY DEF NextEntry
<1>4. \A i \in 1..n : SameActivation(cs[i], cs[i])
  <2>1. \A a \in Activations : SameActivation(a, a)
    BY DEF Activations, SameActivation
  <2> QED BY <1>1, <2>1
<1> HIDE DEF c
<1>5. NextEntry(cs) \in Seq(Activations) /\ Len(NextEntry(cs)) = n /\ NextEntry(cs)[n] = c
      /\ \A i \in 1..n : i # n => NextEntry(cs)[i] = cs[i]
  BY <1>1, <1>2, <1>3, ExceptSeq
<1> QED BY <1>2, <1>4, <1>5

(***************************************************************************)
(* Moving the index of one container.                                      *)
(***************************************************************************)
LEMMA AdvanceFacts ==
  ASSUME NEW d \in Documents, NEW hs \in Seq(Containers), NEW h \in 1..Len(hs),
         \A i \in 1..Len(hs) : ContainerTyped(d, decoders, hs[i]) /\ ContainerOK(d, hs[i]),
         hs[h].kind = "unkeyed" => hs[h].cursor < Len(EntriesIn(d, hs[h].node))
  PROVE  /\ AdvanceIn(hs, h) \in Seq(Containers) /\ Len(AdvanceIn(hs, h)) = Len(hs)
         /\ \A i \in 1..Len(hs) :
              /\ SameContainer(hs[i], AdvanceIn(hs, h)[i]) /\ (i # h => AdvanceIn(hs, h)[i] = hs[i])
              /\ ContainerOK(d, AdvanceIn(hs, h)[i])
<1>1. hs[h] \in Containers /\ ContainerOK(d, hs[h]) /\ ContainerTyped(d, decoders, hs[h])
  BY ElementOfSeq
<1>2. CASE hs[h].kind # "unkeyed"
  <2>1. AdvanceIn(hs, h) = hs
    BY <1>2 DEF AdvanceIn
  <2> QED BY <2>1 DEF SameContainer
<1>3. CASE hs[h].kind = "unkeyed"
  <2> DEFINE c == [hs[h] EXCEPT !.cursor = hs[h].cursor + 1]
  <2>1. Len(EntriesIn(d, hs[h].node)) \in Nat
    <3>1. hs[h].node \in NodeIn(d)
      BY <1>1 DEF ContainerTyped, NodeIn
    <3> QED BY <3>1, DocumentFacts, LenProperties
  <2>2. c \in Containers /\ SameContainer(hs[h], c) /\ c.cursor = hs[h].cursor + 1 /\ hs[h].cursor \in Nat
    <3>1. hs[h].cursor \in Nat
      BY <1>1 DEF Containers
    <3>2. \A b \in Containers, k \in Nat : [b EXCEPT !.cursor = k] \in Containers
      BY DEF Containers
    <3>3. \A b \in Containers, k \in Nat :
            SameContainer(b, [b EXCEPT !.cursor = k]) /\ [b EXCEPT !.cursor = k].cursor = k
      BY DEF Containers, SameContainer
    <3>4. hs[h] \in Containers /\ hs[h].cursor + 1 \in Nat
      BY <1>1, <3>1
    <3> QED BY <3>1, <3>2, <3>3, <3>4
  <2>3. ContainerOK(d, c)
    <3> HIDE DEF c
    <3> QED BY <1>1, <1>3, <2>1, <2>2 DEF ContainerOK, SameContainer
  <2>4. AdvanceIn(hs, h) = [hs EXCEPT ![h] = c]
    BY <1>3 DEF AdvanceIn, Advance
  <2> HIDE DEF c
  <2>5. AdvanceIn(hs, h) \in Seq(Containers) /\ Len(AdvanceIn(hs, h)) = Len(hs) /\ AdvanceIn(hs, h)[h] = c
        /\ \A i \in 1..Len(hs) : i # h => AdvanceIn(hs, h)[i] = hs[i]
    BY <2>2, <2>4, ExceptSeq
  <2>6. \A i \in 1..Len(hs) : SameContainer(hs[i], hs[i])
    BY DEF SameContainer
  <2> QED BY <2>2, <2>3, <2>5, <2>6
<1> QED BY <1>2, <1>3

(* The containers hs are those held, some of whose indices moved on.        *)
Moved(hs) ==
  /\ hs \in Seq(Containers) /\ Len(hs) = Len(handles)
  /\ \A i \in 1..Len(handles) :
       /\ SameContainer(handles[i], hs[i]) /\ (i <= Current.handles => hs[i] = handles[i])
       /\ ContainerOK(doc, hs[i])

(***************************************************************************)
(* A container of the current activation that has an element moves on, or  *)
(* none does.                                                              *)
(***************************************************************************)
LEMMA MovedFacts ==
  ASSUME IInv, Running
  PROVE  /\ Moved(handles)
         /\ \A h \in Held :
              (handles[h].kind = "unkeyed" => handles[h].cursor < Len(EntriesIn(doc, handles[h].node)))
                => Moved(AdvanceIn(handles, h))
<1>1. doc \in Documents /\ handles \in Seq(Containers)
      /\ \A i \in 1..Len(handles) : ContainerTyped(doc, decoders, handles[i]) /\ ContainerOK(doc, handles[i])
  BY DEF IInv, Typed, Consistent
<1>2. Moved(handles)
  BY <1>1 DEF Moved, SameContainer
<1>3. ASSUME NEW h \in Held, handles[h].kind = "unkeyed" => handles[h].cursor < Len(EntriesIn(doc, handles[h].node))
      PROVE  Moved(AdvanceIn(handles, h))
  <2>1. h \in 1..Len(handles) /\ Current.handles < h /\ Current.handles \in Nat
    BY InView, CurrentFacts DEF Activations
  <2>2. /\ AdvanceIn(handles, h) \in Seq(Containers) /\ Len(AdvanceIn(handles, h)) = Len(handles)
        /\ \A i \in 1..Len(handles) :
             /\ SameContainer(handles[i], AdvanceIn(handles, h)[i]) /\ (i # h => AdvanceIn(handles, h)[i] = handles[i])
             /\ ContainerOK(doc, AdvanceIn(handles, h)[i])
    BY <1>1, <1>3, <2>1, AdvanceFacts
  <2>3. \A i \in 1..Len(handles) : i <= Current.handles => i # h
    BY <2>1
  <2> QED BY <2>2, <2>3 DEF Moved
<1> QED BY <1>2, <1>3

(***************************************************************************)
(* The current activation moves on in its containers, opens another one at *)
(* the value of a path, or gets further decoders.                          *)
(***************************************************************************)
LEMMA MovesKeeps ==
  ASSUME IInv, Running, doc' = doc, outcome' = outcome, error' \in Errors, calls' = calls, Moved(handles'),
         decoders' \in Seq(DecoderIn(doc)), Len(decoders) <= Len(decoders'),
         \A e \in 1..Len(decoders) : decoders'[e] = decoders[e],
         \A e \in (Len(decoders) + 1)..Len(decoders') : decoders'[e].direct => LooksAt(doc, decoders'[e])
  PROVE  IInv'
<1>1. Len(handles) \in Nat
  BY LenProperties DEF IInv, Typed
<1>2. (Len(handles) + 1)..Len(handles') = {}
  BY <1>1 DEF Moved
<1>3. /\ handles' \in Seq(Containers) /\ Len(handles) <= Len(handles')
      /\ \A h \in 1..Len(handles) :
           SameContainer(handles[h], handles'[h]) /\ (h <= Current.handles => handles'[h] = handles[h])
      /\ \A h \in 1..Len(handles') : ContainerOK(doc, handles'[h])
  BY <1>1 DEF Moved
<1>4. /\ calls' \in Seq(Activations) /\ Len(calls') = Len(calls)
      /\ \A i \in 1..Len(calls) : SameActivation(calls[i], calls'[i])
  BY CallsStay
<1>5. \A h \in (Len(handles) + 1)..Len(handles') :
        ContainerTyped(doc, decoders', handles'[h]) /\ handles'[h].node = At(doc, decoders'[handles'[h].decoder].path)
  BY <1>2
<1> QED BY <1>3, <1>4, <1>5, GrowsKeeps

(***************************************************************************)
(* A container is opened at the value of its decoder's path.               *)
(***************************************************************************)
LEMMA OpensKeeps ==
  ASSUME IInv, Running, doc' = doc, outcome' = outcome, error' = error, calls' = calls,
         decoders' \in Seq(DecoderIn(doc)), Len(decoders) <= Len(decoders'),
         \A e \in 1..Len(decoders) : decoders'[e] = decoders[e],
         \A e \in (Len(decoders) + 1)..Len(decoders') : decoders'[e].direct => LooksAt(doc, decoders'[e]),
         NEW hs, Moved(hs), NEW e \in 1..Len(decoders'), NEW kind \in {"keyed", "unkeyed"}, NEW n \in NodeIn(doc),
         KindOf(n) = kind, kind = "keyed" => ~Clashes(n), n = At(doc, decoders'[e].path),
         handles' = Append(hs, Handle(e, kind, n))
  PROVE  IInv'
<1> DEFINE c == Handle(e, kind, n)
<1>1. n \in DOMAIN doc /\ doc[n].kind = kind /\ n \in Nat
  <2>1. n # Nil
    BY DEF KindOf
  <2> QED BY <2>1, DocumentFacts DEF KindOf, NodeIn, IInv, Typed
<1>2. hs \in Seq(Containers) /\ Len(hs) = Len(handles) /\ Len(handles) \in Nat /\ Len(decoders') \in Nat
  BY LenProperties DEF Moved, IInv, Typed
<1>3. Len(EntriesIn(doc, n)) \in Nat
  BY DocumentFacts, LenProperties DEF IInv, Typed
<1>4. c \in Containers /\ ContainerTyped(doc, decoders', c)
  <2>1. e \in Nat
    BY <1>2
  <2> QED BY <2>1, <1>1 DEF Handle, Containers, ContainerTyped
<1>5. ContainerOK(doc, c)
  <2>1. Clashes(n) <=> ClashesIn(doc, n)
    BY DEF Clashes, ClashesIn, EntriesOf
  <2> QED BY <1>1, <1>3, <2>1 DEF Handle, ContainerOK
<1>6. c.node = At(doc, decoders'[c.decoder].path)
  BY DEF Handle
<1> HIDE DEF c
<1>7. /\ handles' \in Seq(Containers) /\ Len(handles') = Len(handles) + 1 /\ handles'[Len(handles) + 1] = c
      /\ \A i \in 1..Len(handles) : handles'[i] = hs[i]
  <2>1. handles' = Append(hs, c)
    BY DEF c
  <2> QED BY <2>1, <1>2, <1>4, AppendProperties
<1>8. \A i \in 1..Len(handles') : i = Len(handles) + 1 \/ i \in 1..Len(handles)
  BY <1>2, <1>7
<1>9. \A i \in (Len(handles) + 1)..Len(handles') : i = Len(handles) + 1
  BY <1>2, <1>7
<1>10. \A i \in 1..Len(handles') : ContainerOK(doc, handles'[i])
  BY <1>5, <1>7, <1>8 DEF Moved
<1>11. \A i \in (Len(handles) + 1)..Len(handles') :
         ContainerTyped(doc, decoders', handles'[i]) /\ handles'[i].node = At(doc, decoders'[handles'[i].decoder].path)
  BY <1>4, <1>6, <1>7, <1>9
<1>12. error' \in Errors
  BY DEF IInv, Typed, Errors
<1>13. \A i \in 1..Len(handles) : SameContainer(handles[i], handles'[i]) /\ (i <= Current.handles => handles'[i] = handles[i])
  BY <1>7 DEF Moved
<1>14. Len(handles) <= Len(handles')
  BY <1>2, <1>7
<1> QED BY <1>7, <1>10, <1>11, <1>12, <1>13, <1>14, CallsStay, GrowsKeeps

(***************************************************************************)
(* A value that has a kind other than null is a node of the document.      *)
(***************************************************************************)
LEMMA KindFacts ==
  ASSUME NEW n \in NodeIn(doc), KindOf(n) # "null"
  PROVE  n # Nil /\ n \in DOMAIN doc /\ doc[n].kind = KindOf(n)
BY DEF KindOf, NodeIn

(***************************************************************************)
(* A path and the step of a call, which has none for a single value.       *)
(***************************************************************************)
StepTo(step) == step = <<>> \/ \E s \in Step : step = <<s>>

(***************************************************************************)
(* A step that is taken leaves the path when it is taken back.             *)
(***************************************************************************)
LEMMA StepTaken ==
  ASSUME NEW path \in Seq(Step), NEW step, StepTo(step)
  PROVE  /\ step \in Seq(Step) /\ path \o step \in Seq(Step)
         /\ (IF step = <<>> THEN path \o step ELSE Front(path \o step)) = path
<1>1. CASE step = <<>>
  BY <1>1, OneStep
<1>2. CASE step # <<>>
  <2>1. PICK s \in Step : step = <<s>>
    BY <1>2 DEF StepTo
  <2>2. path \o step = Append(path, s) /\ path \o step \in Seq(Step)
    BY <2>1, OneStep, AppendProperties
  <2>3. Front(path \o step) = path
    BY <2>2, FrontOfAppend
  <2>4. step \in Seq(Step)
    BY <2>1
  <2> QED BY <1>2, <2>2, <2>3, <2>4
<1> QED BY <1>1, <1>2

(* What a call may be made for: the node its step leads to, from the decoder *)
(* it is handed; it is an element of the container h, or of none.           *)
CallFor(e, step, n, h) ==
  /\ e \in 1..Len(decoders) /\ StepTo(step) /\ n \in NodeIn(doc) /\ h \in Nat
  /\ n = At(doc, decoders[e].path \o step)
  /\ h # 0 => /\ Current.handles < h /\ h <= Len(handles)
              /\ handles[h].kind = "unkeyed" =>
                   handles[h].cursor < Len(EntriesIn(doc, handles[h].node))

(* A decoder with another storage and path.                                  *)
With(r, s, p) == [r EXCEPT !.storage = s, !.path = p]
WithPath(r, p) == [r EXCEPT !.path = p]

(***************************************************************************)
(* A decoder is its storage, its path and its origin.                      *)
(***************************************************************************)
LEMMA DecoderIs ==
  ASSUME NEW d, NEW r \in DecoderIn(d), NEW s \in Seq(NodeIn(d)), NEW p
  PROVE  /\ r = [storage |-> r.storage, path |-> r.path, direct |-> r.direct]
         /\ With(r, s, p) = [storage |-> s, path |-> p, direct |-> r.direct]
         /\ WithPath(r, p) = [storage |-> r.storage, path |-> p, direct |-> r.direct]
<1>1. r = [storage |-> r.storage, path |-> r.path, direct |-> r.direct]
  BY DEF DecoderIn
<1>2. \A q \in DecoderIn(d) : [q EXCEPT !.path = p] = [storage |-> q.storage, path |-> p, direct |-> q.direct]
  BY DEF DecoderIn
<1> DEFINE q == [r EXCEPT !.storage = s]
<1>3. q \in DecoderIn(d) /\ q.storage = s /\ q.direct = r.direct
  BY DEF DecoderIn
<1>4. [r EXCEPT !.storage = s, !.path = p] = [q EXCEPT !.path = p]
  BY DEF DecoderIn
<1> HIDE DEF q
<1>5. [q EXCEPT !.path = p] = [storage |-> s, path |-> p, direct |-> r.direct]
  BY <1>2, <1>3
<1>6. WithPath(r, p) = [storage |-> r.storage, path |-> p, direct |-> r.direct]
  BY <1>2 DEF WithPath
<1>7. With(r, s, p) = [storage |-> s, path |-> p, direct |-> r.direct]
  BY <1>4, <1>5 DEF With
<1> QED BY <1>1, <1>6, <1>7

(***************************************************************************)
(* init(from:) is run on a decoder.                                        *)
(***************************************************************************)
LEMMA EnterKeeps ==
  ASSUME IInv, Running, NEW e, NEW step, NEW n, NEW h, CallFor(e, step, n, h), Enter(e, step, n, h)
  PROVE  IInv'
<1> DEFINE c == [decoder |-> e, step |-> step, handle |-> h, loop |-> FALSE, node |-> n,
                 next |-> 0, decoders |-> Len(decoders), handles |-> Len(handles)]
           x == [storage |-> Append(decoders[e].storage, n), path |-> decoders[e].path \o step,
                 direct |-> decoders[e].direct]
<1>1. /\ decoders \in Seq(DecoderIn(doc)) /\ Len(decoders) \in Nat /\ Len(handles) \in Nat
      /\ e \in 1..Len(decoders) /\ decoders[e] \in DecoderIn(doc) /\ n \in NodeIn(doc) /\ n \in Nat
  BY ElementOfSeq, LenProperties, DocumentFacts DEF IInv, Typed, CallFor
<1>2. decoders[e].storage \in Seq(NodeIn(doc)) /\ decoders[e].path \in Seq(Step) /\ decoders[e].direct \in BOOLEAN
  BY <1>1 DEF DecoderIn
<1>3. /\ step \in Seq(Step) /\ decoders[e].path \o step \in Seq(Step)
      /\ (IF step = <<>> THEN decoders[e].path \o step ELSE Front(decoders[e].path \o step)) = decoders[e].path
  BY <1>2, StepTaken DEF CallFor
<1>4. /\ x.storage \in Seq(NodeIn(doc)) /\ x.storage # <<>> /\ x.storage[Len(x.storage)] = n
      /\ Front(x.storage) = decoders[e].storage
  <2>1. /\ x.storage \in Seq(NodeIn(doc)) /\ Len(x.storage) = Len(decoders[e].storage) + 1
        /\ x.storage[Len(decoders[e].storage) + 1] = n /\ Len(decoders[e].storage) \in Nat
    BY <1>1, <1>2, AppendProperties
  <2>2. x.storage # <<>>
    BY <2>1, EmptySeq
  <2>3. Front(x.storage) = decoders[e].storage
    BY <1>1, <1>2, FrontOfAppend
  <2> QED BY <2>1, <2>2, <2>3
<1>5. x \in DecoderIn(doc) /\ LooksAt(doc, x)
  BY <1>2, <1>3, <1>4 DEF DecoderIn, LooksAt, CallFor
<1>6. Leave(x, c) = decoders[e]
  <2>1. With(x, decoders[e].storage, decoders[e].path) = decoders[e]
    <3>1. With(x, decoders[e].storage, decoders[e].path)
            = [storage |-> decoders[e].storage, path |-> decoders[e].path, direct |-> decoders[e].direct]
      <4>1. x.direct = decoders[e].direct
        OBVIOUS
      <4> HIDE DEF x
      <4> QED BY <4>1, <1>2, <1>5, DecoderIs
    <3>2. decoders[e] = [storage |-> decoders[e].storage, path |-> decoders[e].path, direct |-> decoders[e].direct]
      BY <1>1, <1>2, DecoderIs
    <3> QED BY <3>1, <3>2
  <2>2. Leave(x, c) = With(x, Front(x.storage), IF step = <<>> THEN x.path ELSE Front(x.path))
    BY DEF Leave, With
  <2> QED BY <1>3, <1>4, <2>1, <2>2
<1>7. decoders' = [decoders EXCEPT ![e] = x]
  <2>1. x = With(decoders[e], Append(decoders[e].storage, n), decoders[e].path \o step)
    <3>1. Append(decoders[e].storage, n) \in Seq(NodeIn(doc))
      BY <1>4
    <3>2. \A st \in Seq(NodeIn(doc)), p \in Seq(Step) :
            With(decoders[e], st, p) = [storage |-> st, path |-> p, direct |-> decoders[e].direct]
      BY <1>1, DecoderIs
    <3> QED BY <3>1, <3>2, <1>3
  <2>2. DOMAIN decoders = 1..Len(decoders) /\ e \in DOMAIN decoders
    BY <1>1, LenProperties
  <2>3. decoders' = [decoders EXCEPT ![e] = With(decoders[e], Append(decoders[e].storage, n),
                                                    decoders[e].path \o step)]
    BY <2>2 DEF Enter, With
  <2> QED BY <2>1, <2>3
<1>8. c \in Activations
  BY <1>1, <1>3 DEF Activations, CallFor
<1>9. /\ c.decoder = e /\ c.decoders = Len(decoders) /\ c.handles = Len(handles) /\ c.node = n /\ c.handle = h /\ ~c.loop
  OBVIOUS
<1>10. calls' = Append(calls, c) /\ doc' = doc /\ outcome' = outcome /\ error' = error /\ handles' = handles
  BY DEF Enter
<1> HIDE DEF c, x
<1>11. /\ decoders' \in Seq(DecoderIn(doc)) /\ Len(decoders') = Len(decoders) /\ decoders'[e] = x
       /\ \A i \in 1..Len(decoders) : i # e => decoders'[i] = decoders[i]
  BY <1>1, <1>5, <1>7, ExceptSeq
<1>12. Sees(doc, decoders', c)
  <2>1. UsableIn(decoders', c) = {e}
    BY <1>1, <1>9, <1>11 DEF UsableIn
  <2> QED BY <2>1, <1>5, <1>9, <1>11 DEF Sees
<1>13. c.handle # 0 => /\ Current.handles < c.handle /\ c.handle <= Len(handles)
                       /\ handles[c.handle].kind = "unkeyed" =>
                            handles[c.handle].cursor < Len(EntriesIn(doc, handles[c.handle].node))
  BY <1>9 DEF CallFor
<1> QED BY <1>1, <1>6, <1>8, <1>9, <1>10, <1>11, <1>12, <1>13, EntersKeeps

(***************************************************************************)
(* The library loops over a dictionary.                                    *)
(***************************************************************************)
LEMMA EnterLoopKeeps ==
  ASSUME IInv, Running, NEW e, NEW step, NEW n, NEW h, CallFor(e, step, n, h), EnterLoop(e, step, n, h)
  PROVE  IInv'
<1>1. CASE KindOf(n) # "keyed" /\ Fail(IF KindOf(n) = "null" THEN "null" ELSE "mismatch") /\ UNCHANGED handles
  BY <1>1, NothingChanges DEF Fail, Errors
<1>2. CASE /\ KindOf(n) = "keyed" /\ Len(calls) < MaxCalls
           /\ decoders' = [decoders EXCEPT ![e].path = @ \o step]
           /\ calls' = Append(calls,
                [decoder |-> e, step |-> step, handle |-> h, loop |-> TRUE, node |-> n,
                 next |-> 1, decoders |-> Len(decoders), handles |-> Len(handles)])
           /\ UNCHANGED <<doc, error, outcome, handles>>
  <2> DEFINE c == [decoder |-> e, step |-> step, handle |-> h, loop |-> TRUE, node |-> n,
                   next |-> 1, decoders |-> Len(decoders), handles |-> Len(handles)]
             x == [storage |-> decoders[e].storage, path |-> decoders[e].path \o step,
                   direct |-> decoders[e].direct]
  <2>1. /\ decoders \in Seq(DecoderIn(doc)) /\ Len(decoders) \in Nat /\ Len(handles) \in Nat
        /\ e \in 1..Len(decoders) /\ decoders[e] \in DecoderIn(doc) /\ n \in NodeIn(doc) /\ n \in Nat
    BY ElementOfSeq, LenProperties, DocumentFacts DEF IInv, Typed, CallFor
  <2>2. decoders[e].storage \in Seq(NodeIn(doc)) /\ decoders[e].path \in Seq(Step) /\ decoders[e].direct \in BOOLEAN
    BY <2>1 DEF DecoderIn
  <2>3. /\ step \in Seq(Step) /\ decoders[e].path \o step \in Seq(Step)
        /\ (IF step = <<>> THEN decoders[e].path \o step ELSE Front(decoders[e].path \o step)) = decoders[e].path
    BY <2>2, StepTaken DEF CallFor
  <2>4. x \in DecoderIn(doc) /\ At(doc, x.path) = n
    BY <2>2, <2>3 DEF DecoderIn, CallFor
  <2>5. Leave(x, c) = decoders[e]
    <3>1. With(x, x.storage, decoders[e].path) = decoders[e]
      <4>1. With(x, x.storage, decoders[e].path)
              = [storage |-> decoders[e].storage, path |-> decoders[e].path, direct |-> decoders[e].direct]
        <5>1. x.direct = decoders[e].direct /\ x.storage = decoders[e].storage
          OBVIOUS
        <5> HIDE DEF x
        <5> QED BY <5>1, <2>2, <2>4, DecoderIs
      <4>2. decoders[e] = [storage |-> decoders[e].storage, path |-> decoders[e].path, direct |-> decoders[e].direct]
        BY <2>1, <2>2, DecoderIs
      <4> QED BY <4>1, <4>2
    <3>2. Leave(x, c) = With(x, x.storage, IF step = <<>> THEN x.path ELSE Front(x.path))
      BY DEF Leave, With
    <3> QED BY <2>3, <3>1, <3>2
  <2>6. decoders' = [decoders EXCEPT ![e] = x]
    <3>1. x = WithPath(decoders[e], decoders[e].path \o step)
      BY <2>1, <2>2, DecoderIs
    <3>2. decoders' = [decoders EXCEPT ![e] = WithPath(decoders[e], decoders[e].path \o step)]
      BY <1>2 DEF WithPath
    <3> QED BY <3>1, <3>2
  <2>7. c \in Activations
    BY <2>1, <2>3 DEF Activations, CallFor
  <2>8. /\ c.decoder = e /\ c.decoders = Len(decoders) /\ c.handles = Len(handles) /\ c.node = n /\ c.handle = h
        /\ c.loop /\ c.next = 1
    OBVIOUS
  <2>9. calls' = Append(calls, c) /\ doc' = doc /\ outcome' = outcome /\ error' = error /\ handles' = handles
    BY <1>2
  <2>10. n # Nil /\ doc[n].kind = "keyed"
    BY <1>2, <2>1, KindFacts
  <2> HIDE DEF c, x
  <2>11. /\ decoders' \in Seq(DecoderIn(doc)) /\ Len(decoders') = Len(decoders) /\ decoders'[e] = x
         /\ \A i \in 1..Len(decoders) : i # e => decoders'[i] = decoders[i]
    BY <2>1, <2>4, <2>6, ExceptSeq
  <2>12. Sees(doc, decoders', c)
    BY <2>4, <2>8, <2>11 DEF Sees
  <2>13. c.handle # 0 => /\ Current.handles < c.handle /\ c.handle <= Len(handles)
                         /\ handles[c.handle].kind = "unkeyed" =>
                              handles[c.handle].cursor < Len(EntriesIn(doc, handles[c.handle].node))
    BY <2>8 DEF CallFor
  <2>14. c.loop => c.node # Nil /\ doc[c.node].kind = "keyed" /\ c.next > 0
    BY <2>8, <2>10
  <2> QED BY <2>1, <2>5, <2>7, <2>8, <2>9, <2>11, <2>12, <2>13, <2>14, EntersKeeps
<1> QED BY <1>1, <1>2 DEF EnterLoop

(***************************************************************************)
(* The value on top of a decoder that may be used is a call for no step.   *)
(***************************************************************************)
LEMMA CallForTop ==
  ASSUME IInv, Client, NEW e \in Usable
  PROVE  CallFor(e, <<>>, TopContainer(e), 0)
<1>1. /\ e \in 1..Len(decoders) /\ decoders[e] \in DecoderIn(doc)
      /\ TopContainer(e) = At(doc, decoders[e].path) /\ TopContainer(e) \in NodeIn(doc)
  BY TopFacts
<1>2. decoders[e].path \o <<>> = decoders[e].path
  <2>1. decoders[e].path \in Seq(Step)
    BY <1>1 DEF DecoderIn
  <2> QED BY <2>1, ConcatEmptySeq
<1> QED BY <1>1, <1>2 DEF CallFor, StepTo

(***************************************************************************)
(* The node that a step of a container leads to is a call for that step.   *)
(***************************************************************************)
LEMMA CallForStep ==
  ASSUME IInv, Client, NEW h \in Held, NEW step \in Steps(h), NEW n \in Targets(handles[h].node, step)
  PROVE  CallFor(handles[h].decoder, <<step>>, n, h)
<1> DEFINE e == handles[h].decoder
<1>1. /\ step \in Step /\ e \in 1..Len(decoders) /\ decoders[e] \in DecoderIn(doc) /\ n \in NodeIn(doc)
      /\ handles[h].kind = "unkeyed" => handles[h].cursor < Len(EntriesIn(doc, handles[h].node))
      /\ At(doc, Append(decoders[e].path, step)) = n
  BY StepFacts DEF Client, Ready
<1>2. decoders[e].path \o <<step>> = Append(decoders[e].path, step)
  <2>1. decoders[e].path \in Seq(Step)
    BY <1>1 DEF DecoderIn
  <2> QED BY <2>1, <1>1, OneStep
<1>3. h \in 1..Len(handles) /\ Current.handles < h /\ Len(handles) \in Nat
  BY InView, CurrentFacts DEF Client, Ready
<1>4. h \in Nat /\ h <= Len(handles)
  BY <1>3
<1> HIDE DEF e
<1> QED BY <1>1, <1>2, <1>3, <1>4 DEF CallFor, StepTo, e

(***************************************************************************)
(* So is the value of an entry for the loop over its dictionary.           *)
(***************************************************************************)
LEMMA CallForEntry ==
  ASSUME IInv, LoopReady
  PROVE  CallFor(Current.decoder, <<RawStep(Entry.key)>>, Entry.node, 0)
<1> DEFINE e == Current.decoder
           m == Current.node
           step == RawStep(Entry.key)
           entries == EntriesIn(doc, m)
<1>1. /\ Running /\ Current.loop /\ Current \in Activations /\ Current.next <= Len(entries) /\ Entry = entries[Current.next]
      /\ ActivationTyped(doc, decoders, handles, Current) /\ Len(calls) \in Nat \ {0} /\ Current = calls[Len(calls)]
      /\ ActivationOK(doc, calls, handles, Len(calls))
  BY CurrentFacts DEF LoopReady, Ready, Entry, EntriesOf
<1>2. m \in NodeIn(doc) /\ m # Nil /\ doc[m].kind = "keyed" /\ Current.next \in Nat /\ Current.next > 0
      /\ e \in 1..Len(decoders)
  BY <1>1 DEF ActivationTyped, ActivationOK, Activations
<1>3. /\ doc \in Documents /\ entries \in Seq(Entries) /\ Len(entries) \in Nat /\ DOMAIN entries = 1..Len(entries)
      /\ DistinctKeys(entries) /\ \A i \in 1..Len(entries) : entries[i].node \in DOMAIN doc
  <2>1. doc \in Documents /\ m \in DOMAIN doc
    BY <1>2 DEF IInv, Typed, NodeIn
  <2> QED BY <2>1, <1>2, DocumentFacts, LenProperties
<1>4. Current.next \in DOMAIN entries
  BY <1>1, <1>2, <1>3
<1>5. Entry.key \in Keys /\ Entry.node \in DOMAIN doc /\ Entry.node \in NodeIn(doc)
  BY <1>1, <1>3, <1>4 DEF DistinctKeys, NodeIn
<1>6. step \in Step /\ step.by = "raw" /\ step.key = Entry.key
  BY <1>5 DEF RawStep, Step
<1>7. Entry.node \in TargetsIn(doc, m, step)
  <2>1. Matches(entries[Current.next].key, step)
    BY <1>1, <1>6 DEF Matches
  <2> HIDE DEF step
  <2> QED BY <2>1, <1>1, <1>4, <1>6 DEF TargetsIn
<1>8. Follow(doc, m, step) = Entry.node
  <2> HIDE DEF step
  <2> QED BY <1>2, <1>3, <1>6, <1>7, OneTarget
<1>9. At(doc, decoders[e].path) = m
  BY <1>1, InView
<1>10. decoders[e] \in DecoderIn(doc) /\ decoders[e].path \in Seq(Step)
  <2>1. decoders[e] \in DecoderIn(doc)
    BY <1>2, ElementOfSeq DEF IInv, Typed
  <2> QED BY <2>1 DEF DecoderIn
<1> HIDE DEF e, m, step
<1>11. At(doc, decoders[e].path \o <<step>>) = Entry.node
  <2>1. At(doc, Append(decoders[e].path, step)) = Follow(doc, m, step)
    BY <1>6, <1>9, <1>10, AtAppend
  <2>2. decoders[e].path \o <<step>> = Append(decoders[e].path, step)
    BY <1>6, <1>10, OneStep
  <2> QED BY <1>8, <2>1, <2>2
<1> QED BY <1>2, <1>5, <1>6, <1>11 DEF CallFor, StepTo, e, step

-----------------------------------------------------------------------------

(***************************************************************************)
(* A failure, or an error that is swallowed, changes nothing but the error.*)
(***************************************************************************)
LEMMA FailKeeps ==
  ASSUME IInv, NEW e \in Errors, Fail(e), UNCHANGED handles
  PROVE  IInv'
BY NothingChanges DEF Fail

(***************************************************************************)
(* Opening the keyed container of a decoder.                               *)
(***************************************************************************)
LEMMA OpenKeyedKeeps == ASSUME IInv, NEW d, OpenKeyed(d) PROVE IInv'
<1> DEFINE n == TopContainer(d)
<1>1. Client /\ d \in Usable /\ Running
  BY DEF OpenKeyed, Client, Ready
<1>2. /\ d \in 1..Len(decoders) /\ decoders \in Seq(DecoderIn(doc)) /\ n = At(doc, decoders[d].path) /\ n \in NodeIn(doc)
      /\ Len(decoders) \in Nat
  BY <1>1, TopFacts, LenProperties DEF IInv, Typed
<1>3. CASE Fail("null") /\ UNCHANGED handles
  BY <1>3, FailKeeps DEF Errors
<1>4. CASE Fail("duplicate") /\ UNCHANGED handles
  BY <1>4, FailKeeps DEF Errors
<1>5. CASE /\ KindOf(n) = "keyed" /\ ~Clashes(n)
           /\ handles' = Append(handles, Handle(d, "keyed", n))
           /\ UNCHANGED <<doc, decoders, calls, error, outcome>>
  <2> HIDE DEF n
  <2>1. Moved(handles)
    BY <1>1, MovedFacts
  <2> QED BY <1>1, <1>2, <1>5, <2>1, OpensKeeps
<1> QED BY <1>3, <1>4, <1>5 DEF OpenKeyed

(***************************************************************************)
(* Opening the unkeyed container of a decoder.                             *)
(***************************************************************************)
LEMMA OpenUnkeyedKeeps == ASSUME IInv, NEW d, OpenUnkeyed(d) PROVE IInv'
<1> DEFINE n == TopContainer(d)
<1>1. Client /\ d \in Usable /\ Running
  BY DEF OpenUnkeyed, Client, Ready
<1>2. /\ d \in 1..Len(decoders) /\ decoders \in Seq(DecoderIn(doc)) /\ n = At(doc, decoders[d].path) /\ n \in NodeIn(doc)
      /\ Len(decoders) \in Nat
  BY <1>1, TopFacts, LenProperties DEF IInv, Typed
<1>3. CASE Fail(IF KindOf(n) = "null" THEN "null" ELSE "mismatch") /\ UNCHANGED handles
  BY <1>3, FailKeeps DEF Errors
<1>4. CASE /\ KindOf(n) = "unkeyed"
           /\ handles' = Append(handles, Handle(d, "unkeyed", n))
           /\ UNCHANGED <<doc, decoders, calls, error, outcome>>
  <2> HIDE DEF n
  <2>1. Moved(handles)
    BY <1>1, MovedFacts
  <2> QED BY <1>1, <1>2, <1>4, <2>1, OpensKeeps
<1> QED BY <1>3, <1>4 DEF OpenUnkeyed

(***************************************************************************)
(* Decoding a single value, at once or through a call.                     *)
(***************************************************************************)
LEMMA SingleKeeps == ASSUME IInv, NEW d, DecodeSingle(d) \/ SubDecodeSingle(d) PROVE IInv'
<1>1. CASE DecodeSingle(d)
  BY <1>1, FailKeeps DEF DecodeSingle, Errors
<1>2. CASE SubDecodeSingle(d)
  <2>1. Client /\ d \in Usable /\ Running
    BY <1>2 DEF SubDecodeSingle, Client, Ready
  <2>2. CallFor(d, <<>>, TopContainer(d), 0)
    BY <2>1, CallForTop
  <2>3. Enter(d, <<>>, TopContainer(d), 0) \/ EnterLoop(d, <<>>, TopContainer(d), 0)
    BY <1>2 DEF SubDecodeSingle
  <2> QED BY <2>1, <2>2, <2>3, EnterKeeps, EnterLoopKeeps
<1> QED BY <1>1, <1>2

(***************************************************************************)
(* An entry that is not there.                                             *)
(***************************************************************************)
LEMMA NotFoundKeeps == ASSUME IInv, NEW h, NEW step, NotFound(h, step) PROVE IInv'
BY FailKeeps DEF NotFound, Errors

(***************************************************************************)
(* An entry that is decoded at once.                                       *)
(***************************************************************************)
LEMMA ElementKeeps == ASSUME IInv, NEW h, NEW step, DecodeElement(h, step) PROVE IInv'
<1>1. Client /\ Running /\ h \in Held /\ step \in Steps(h)
  BY DEF DecodeElement, Client, Ready
<1>2. PICK n \in Targets(handles[h].node, step) :
        \/ handles' = AdvanceIn(handles, h) /\ UNCHANGED <<doc, decoders, calls, error, outcome>>
        \/ Fail(IF KindOf(n) = "null" THEN "null" ELSE "mismatch") /\ UNCHANGED handles
  BY DEF DecodeElement
<1>3. CASE Fail(IF KindOf(n) = "null" THEN "null" ELSE "mismatch") /\ UNCHANGED handles
  BY <1>3, FailKeeps DEF Errors
<1>4. CASE handles' = AdvanceIn(handles, h) /\ UNCHANGED <<doc, decoders, calls, error, outcome>>
  <2>1. handles[h].kind = "unkeyed" => handles[h].cursor < Len(EntriesIn(doc, handles[h].node))
    BY <1>1, StepFacts
  <2>2. Moved(handles')
    BY <1>1, <1>4, <2>1, MovedFacts
  <2>3. decoders \in Seq(DecoderIn(doc)) /\ Len(decoders) \in Nat /\ error \in Errors
    BY LenProperties DEF IInv, Typed, Errors
  <2> QED BY <1>1, <1>4, <2>2, <2>3, MovesKeeps
<1> QED BY <1>2, <1>3, <1>4

(***************************************************************************)
(* An entry that is decoded through a call.                                *)
(***************************************************************************)
LEMMA SubDecodeKeeps ==
  ASSUME IInv, NEW h, NEW step, SubDecode(h, step) \/ DecodeDictionary(h, step) PROVE IInv'
<1>1. Client /\ Running /\ h \in Held /\ step \in Steps(h)
  BY DEF SubDecode, DecodeDictionary, Client, Ready
<1>2. PICK n \in Targets(handles[h].node, step) :
        Enter(handles[h].decoder, <<step>>, n, h) \/ EnterLoop(handles[h].decoder, <<step>>, n, h)
  BY DEF SubDecode, DecodeDictionary
<1>3. CallFor(handles[h].decoder, <<step>>, n, h)
  BY <1>1, CallForStep
<1> QED BY <1>1, <1>2, <1>3, EnterKeeps, EnterLoopKeeps

(***************************************************************************)
(* One more decoder is appended to those there are.                        *)
(***************************************************************************)
LEMMA MoreDecoders ==
  ASSUME NEW d, NEW ds \in Seq(DecoderIn(d)), NEW x \in DecoderIn(d)
  PROVE  /\ Append(ds, x) \in Seq(DecoderIn(d)) /\ Len(Append(ds, x)) = Len(ds) + 1 /\ Len(ds) \in Nat
         /\ Len(ds) <= Len(Append(ds, x)) /\ Len(ds) + 1 \in 1..Len(Append(ds, x))
         /\ Append(ds, x)[Len(ds) + 1] = x
         /\ \A e \in 1..Len(ds) : Append(ds, x)[e] = ds[e]
         /\ \A e \in (Len(ds) + 1)..Len(Append(ds, x)) : e = Len(ds) + 1
<1>1. /\ Append(ds, x) \in Seq(DecoderIn(d)) /\ Len(Append(ds, x)) = Len(ds) + 1
      /\ Append(ds, x)[Len(ds) + 1] = x /\ \A e \in 1..Len(ds) : Append(ds, x)[e] = ds[e]
  BY AppendProperties
<1>2. Len(ds) \in Nat
  BY LenProperties
<1> DEFINE m == Len(Append(ds, x))
<1>3. m = Len(ds) + 1
  BY <1>1
<1> HIDE DEF m
<1>4. Len(ds) <= m /\ Len(ds) + 1 \in 1..m /\ \A e \in (Len(ds) + 1)..m : e = Len(ds) + 1
  BY <1>2, <1>3
<1> QED BY <1>1, <1>2, <1>4 DEF m

(***************************************************************************)
(* The nested container of an entry, with a decoder of its own.            *)
(***************************************************************************)
LEMMA NestedKeeps ==
  ASSUME IInv, Client, NEW h \in Held, NEW step \in Steps(h), NEW n \in Targets(handles[h].node, step),
         NEW kind \in {"keyed", "unkeyed"}, KindOf(n) = kind, kind = "keyed" => ~Clashes(n),
         decoders' = Append(decoders, NestedDecoder(decoders[handles[h].decoder], step)),
         handles' = Append(AdvanceIn(handles, h), Handle(Len(decoders) + 1, kind, n)),
         UNCHANGED <<doc, calls, error, outcome>>
  PROVE  IInv'
<1> DEFINE e == handles[h].decoder
           x == NestedDecoder(decoders[e], step)
<1>1. Running
  BY DEF Client, Ready
<1>2. /\ step \in Step /\ e \in 1..Len(decoders) /\ decoders[e] \in DecoderIn(doc) /\ n \in NodeIn(doc)
      /\ handles[h].kind = "unkeyed" => handles[h].cursor < Len(EntriesIn(doc, handles[h].node))
      /\ At(doc, Append(decoders[e].path, step)) = n
  BY <1>1, StepFacts
<1>3. Moved(AdvanceIn(handles, h))
  BY <1>1, <1>2, MovedFacts
<1>4. Append(decoders[e].path, step) \in Seq(Step)
  BY <1>2, AppendProperties DEF DecoderIn
<1>5. x \in DecoderIn(doc) /\ ~x.direct /\ At(doc, x.path) = n
  BY <1>2, <1>4 DEF DecoderIn, NestedDecoder
<1> HIDE DEF x
<1>6. /\ decoders' \in Seq(DecoderIn(doc)) /\ Len(decoders) <= Len(decoders') /\ Len(decoders) + 1 \in 1..Len(decoders')
      /\ decoders'[Len(decoders) + 1] = x
      /\ \A i \in 1..Len(decoders) : decoders'[i] = decoders[i]
      /\ \A i \in (Len(decoders) + 1)..Len(decoders') : i = Len(decoders) + 1
  <2>1. decoders \in Seq(DecoderIn(doc)) /\ decoders' = Append(decoders, x)
    BY DEF IInv, Typed, x
  <2> QED BY <2>1, <1>5, MoreDecoders
<1>7. \A i \in (Len(decoders) + 1)..Len(decoders') : decoders'[i].direct => LooksAt(doc, decoders'[i])
  BY <1>5, <1>6
<1>8. n = At(doc, decoders'[Len(decoders) + 1].path)
  BY <1>5, <1>6
<1> DEFINE k == Len(decoders) + 1
<1>9. k \in 1..Len(decoders') /\ n = At(doc, decoders'[k].path) /\ handles' = Append(AdvanceIn(handles, h), Handle(k, kind, n))
  BY <1>6, <1>8
<1>10. doc' = doc /\ outcome' = outcome /\ error' = error /\ calls' = calls
  OBVIOUS
<1>11. n \in NodeIn(doc)
  BY <1>2
<1>12. /\ decoders' \in Seq(DecoderIn(doc)) /\ Len(decoders) <= Len(decoders')
       /\ \A i \in 1..Len(decoders) : decoders'[i] = decoders[i]
  BY <1>6
<1> HIDE DEF k, e
<1> QED BY <1>1, <1>3, <1>7, <1>9, <1>10, <1>11, <1>12, OpensKeeps

(***************************************************************************)
(* nestedContainer(keyedBy:).                                              *)
(***************************************************************************)
LEMMA NestedKeyedKeeps == ASSUME IInv, NEW h, NEW step, NestedKeyed(h, step) PROVE IInv'
<1>1. Client /\ Running /\ h \in Held /\ step \in Steps(h)
  BY DEF NestedKeyed, Client, Ready
<1>2. PICK n \in Targets(handles[h].node, step) :
        \/ Fail("null") /\ UNCHANGED handles
        \/ handles' = AdvanceIn(handles, h) /\ Fail("duplicate")
        \/ /\ KindOf(n) = "keyed" /\ ~Clashes(n)
           /\ decoders' = Append(decoders, NestedDecoder(decoders[handles[h].decoder], step))
           /\ handles' = Append(AdvanceIn(handles, h), Handle(Len(decoders) + 1, "keyed", n))
           /\ UNCHANGED <<doc, calls, error, outcome>>
  BY DEF NestedKeyed
<1>3. CASE Fail("null") /\ UNCHANGED handles
  BY <1>3, FailKeeps DEF Errors
<1>4. CASE handles' = AdvanceIn(handles, h) /\ Fail("duplicate")
  <2>1. handles[h].kind = "unkeyed" => handles[h].cursor < Len(EntriesIn(doc, handles[h].node))
    BY <1>1, StepFacts
  <2>2. Moved(handles')
    BY <1>1, <1>4, <2>1, MovedFacts
  <2>3. decoders \in Seq(DecoderIn(doc)) /\ Len(decoders) \in Nat
    BY LenProperties DEF IInv, Typed
  <2>4. doc' = doc /\ outcome' = outcome /\ calls' = calls /\ decoders' = decoders /\ error' \in Errors
    BY <1>4 DEF Fail, Errors
  <2> QED BY <1>1, <2>2, <2>3, <2>4, MovesKeeps
<1>5. CASE /\ KindOf(n) = "keyed" /\ ~Clashes(n)
           /\ decoders' = Append(decoders, NestedDecoder(decoders[handles[h].decoder], step))
           /\ handles' = Append(AdvanceIn(handles, h), Handle(Len(decoders) + 1, "keyed", n))
           /\ UNCHANGED <<doc, calls, error, outcome>>
  BY <1>1, <1>5, NestedKeeps
<1> QED BY <1>2, <1>3, <1>4, <1>5

(***************************************************************************)
(* nestedUnkeyedContainer.                                                 *)
(***************************************************************************)
LEMMA NestedUnkeyedKeeps == ASSUME IInv, NEW h, NEW step, NestedUnkeyed(h, step) PROVE IInv'
<1>1. Client /\ Running /\ h \in Held /\ step \in Steps(h)
  BY DEF NestedUnkeyed, Client, Ready
<1>2. PICK n \in Targets(handles[h].node, step) :
        \/ Fail(IF KindOf(n) = "null" THEN "null" ELSE "mismatch") /\ UNCHANGED handles
        \/ /\ KindOf(n) = "unkeyed"
           /\ decoders' = Append(decoders, NestedDecoder(decoders[handles[h].decoder], step))
           /\ handles' = Append(AdvanceIn(handles, h), Handle(Len(decoders) + 1, "unkeyed", n))
           /\ UNCHANGED <<doc, calls, error, outcome>>
  BY DEF NestedUnkeyed
<1>3. CASE Fail(IF KindOf(n) = "null" THEN "null" ELSE "mismatch") /\ UNCHANGED handles
  BY <1>3, FailKeeps DEF Errors
<1>4. CASE /\ KindOf(n) = "unkeyed"
           /\ decoders' = Append(decoders, NestedDecoder(decoders[handles[h].decoder], step))
           /\ handles' = Append(AdvanceIn(handles, h), Handle(Len(decoders) + 1, "unkeyed", n))
           /\ UNCHANGED <<doc, calls, error, outcome>>
  BY <1>1, <1>4, NestedKeeps
<1> QED BY <1>2, <1>3, <1>4

(***************************************************************************)
(* superDecoder, which has nil for a key that is absent.                   *)
(***************************************************************************)
LEMMA SuperKeeps == ASSUME IInv, NEW h, NEW step, SuperDecoder(h, step) PROVE IInv'
<1> DEFINE e == handles[h].decoder
           found == Targets(handles[h].node, step)
<1>1. Client /\ Running /\ h \in Held /\ step \in Steps(h) /\ handles' = AdvanceIn(handles, h)
      /\ doc' = doc /\ calls' = calls /\ error' = error /\ outcome' = outcome
  BY DEF SuperDecoder, Client, Ready
<1>2. PICK n \in IF found = {} /\ handles[h].kind = "keyed" THEN {Nil} ELSE found :
        decoders' = Append(decoders, SuperOf(decoders[e], step, n))
  BY DEF SuperDecoder
<1>3. /\ step \in Step /\ e \in 1..Len(decoders) /\ decoders[e] \in DecoderIn(doc)
      /\ \A m \in found : /\ m \in NodeIn(doc) /\ At(doc, Append(decoders[e].path, step)) = m
                          /\ handles[h].kind = "unkeyed" => handles[h].cursor < Len(EntriesIn(doc, handles[h].node))
      /\ found = {} => At(doc, Append(decoders[e].path, step)) = Nil
  BY <1>1, StepFacts
<1> DEFINE x == SuperOf(decoders[e], step, n)
<1> HIDE DEF found
<1>4. /\ n \in NodeIn(doc) /\ At(doc, Append(decoders[e].path, step)) = n
      /\ handles[h].kind = "unkeyed" => handles[h].cursor < Len(EntriesIn(doc, handles[h].node))
  <2>1. CASE found = {} /\ handles[h].kind = "keyed"
    BY <1>2, <1>3, <2>1 DEF NodeIn
  <2>2. CASE ~ (found = {} /\ handles[h].kind = "keyed")
    BY <1>2, <1>3, <2>2
  <2> QED BY <2>1, <2>2
<1>5. Moved(handles')
  BY <1>1, <1>4, MovedFacts
<1>6. Append(decoders[e].path, step) \in Seq(Step)
  BY <1>3, AppendProperties DEF DecoderIn
<1>7. x \in DecoderIn(doc) /\ LooksAt(doc, x)
  <2>1. <<n>> \in Seq(NodeIn(doc)) /\ <<n>> # <<>> /\ Len(<<n>>) = 1 /\ <<n>>[1] = n
    BY <1>4
  <2>2. x.storage = <<n>> /\ x.path = Append(decoders[e].path, step)
    BY DEF SuperOf
  <2>3. x \in DecoderIn(doc)
    BY <1>6, <2>1 DEF SuperOf, DecoderIn
  <2>4. LooksAt(doc, x)
    <3> HIDE DEF x
    <3> QED BY <1>4, <2>1, <2>2 DEF LooksAt
  <2> QED BY <2>3, <2>4
<1> HIDE DEF x
<1>8. /\ decoders' \in Seq(DecoderIn(doc)) /\ Len(decoders) <= Len(decoders')
      /\ decoders'[Len(decoders) + 1] = x
      /\ \A i \in 1..Len(decoders) : decoders'[i] = decoders[i]
      /\ \A i \in (Len(decoders) + 1)..Len(decoders') : i = Len(decoders) + 1
  <2>1. decoders \in Seq(DecoderIn(doc)) /\ decoders' = Append(decoders, x)
    BY <1>2 DEF IInv, Typed, x
  <2> QED BY <2>1, <1>7, MoreDecoders
<1>9. \A i \in (Len(decoders) + 1)..Len(decoders') : decoders'[i].direct => LooksAt(doc, decoders'[i])
  BY <1>7, <1>8
<1>10. error' \in Errors
  BY <1>1 DEF IInv, Typed, Errors
<1> QED BY <1>1, <1>5, <1>8, <1>9, <1>10, MovesKeeps

(***************************************************************************)
(* The loop over a dictionary: an entry at once, or through a call.        *)
(***************************************************************************)
LEMMA LoopKeeps == ASSUME IInv, LoopElement \/ LoopSubDecode PROVE IInv'
<1>1. LoopReady /\ Running
  BY DEF LoopElement, LoopSubDecode, LoopReady, Ready
<1>2. CASE calls' = NextEntry(calls) /\ UNCHANGED <<doc, decoders, handles, error, outcome>>
  <2>1. /\ calls' \in Seq(Activations) /\ Len(calls') = Len(calls)
        /\ \A i \in 1..Len(calls) : SameActivation(calls[i], calls'[i])
    BY <1>1, <1>2, LoopMoves DEF IInv, Typed
  <2>2. /\ decoders \in Seq(DecoderIn(doc)) /\ Len(decoders) \in Nat /\ Len(handles) \in Nat /\ error \in Errors
    BY LenProperties DEF IInv, Typed, Errors
  <2>3. Moved(handles)
    BY <1>1, MovedFacts
  <2>4. (Len(decoders) + 1)..Len(decoders) = {} /\ (Len(handles) + 1)..Len(handles) = {}
    BY <2>2
  <2>5. doc' = doc /\ decoders' = decoders /\ handles' = handles /\ error' = error /\ outcome' = outcome
    BY <1>2
  <2>6. handles' \in Seq(Containers) /\ \A i \in 1..Len(handles) : SameContainer(handles[i], handles'[i]) /\ ContainerOK(doc, handles'[i])
    BY <2>3, <2>5 DEF Moved
  <2> QED BY <1>1, <2>1, <2>2, <2>4, <2>5, <2>6, GrowsKeeps
<1>3. CASE Fail("mismatch") /\ UNCHANGED handles
  BY <1>3, FailKeeps DEF Errors
<1>4. CASE \/ Enter(Current.decoder, <<RawStep(Entry.key)>>, Entry.node, 0)
           \/ EnterLoop(Current.decoder, <<RawStep(Entry.key)>>, Entry.node, 0)
  BY <1>1, <1>4, CallForEntry, EnterKeeps, EnterLoopKeeps
<1> QED BY <1>2, <1>3, <1>4 DEF LoopElement, LoopSubDecode

(***************************************************************************)
(* The containers an activation was given, when it ends.                   *)
(***************************************************************************)
LEMMA RemainingFacts ==
  ASSUME IInv, Running
  PROVE  /\ Remaining \in Seq(Containers) /\ Len(Remaining) = Current.handles /\ Current.handles \in 0..Len(handles)
         /\ \A h \in 1..Current.handles :
              h \in 1..Len(handles) /\ Remaining[h] = handles[h] /\ SameContainer(handles[h], Remaining[h])
                /\ ContainerTyped(doc, decoders, Remaining[h]) /\ ContainerOK(doc, Remaining[h])
<1>1. handles \in Seq(Containers) /\ Len(handles) \in Nat /\ Current.handles \in 0..Len(handles)
  BY CurrentFacts DEF IInv, Typed, ActivationTyped
<1>2. /\ Remaining \in Seq(Containers) /\ Len(Remaining) = Current.handles
      /\ \A h \in 1..Current.handles : Remaining[h] = handles[h]
  BY <1>1, FirstElements DEF Remaining
<1>3. \A h \in 1..Current.handles : h \in 1..Len(handles)
  BY <1>1
<1>4. \A h \in 1..Len(handles) : ContainerTyped(doc, decoders, handles[h]) /\ ContainerOK(doc, handles[h])
  BY DEF IInv, Typed, Consistent
<1>5. \A h \in 1..Current.handles : SameContainer(handles[h], Remaining[h])
  BY <1>2 DEF SameContainer
<1> QED BY <1>1, <1>2, <1>3, <1>4, <1>5

(***************************************************************************)
(* The activations below the current one.                                  *)
(***************************************************************************)
LEMMA BelowFacts ==
  ASSUME IInv, Running
  PROVE  /\ Front(calls) \in Seq(Activations) /\ Len(Front(calls)) = Len(calls) - 1
         /\ \A i \in 1..Len(calls) - 1 : SameActivation(calls[i], Front(calls)[i])
<1>1. calls \in Seq(Activations) /\ calls # <<>> /\ Len(calls) \in Nat \ {0}
  BY CurrentFacts DEF IInv, Typed
<1>2. /\ Front(calls) \in Seq(Activations) /\ Len(Front(calls)) = Len(calls) - 1
      /\ \A i \in 1..Len(calls) - 1 : Front(calls)[i] = calls[i]
  BY <1>1, FrontFacts
<1>3. \A i \in 1..Len(calls) - 1 : calls[i] \in Activations
  <2>1. \A i \in 1..Len(calls) - 1 : i \in 1..Len(calls)
    BY <1>1
  <2> QED BY <1>1, <2>1, ElementOfSeq
<1>4. \A c \in Activations : SameActivation(c, c)
  BY DEF Activations, SameActivation
<1> QED BY <1>2, <1>3, <1>4

(***************************************************************************)
(* init(from:) or a loop fails.                                            *)
(***************************************************************************)
LEMMA UnwindKeeps == ASSUME IInv, Unwind PROVE IInv'
<1>1. /\ Running /\ decoders' = Restore /\ handles' = Remaining /\ calls' = Front(calls)
      /\ IF Len(calls) = 1 THEN outcome' = "error" ELSE outcome' = outcome
      /\ doc' = doc /\ error' = error
  BY DEF Unwind
<1>2. outcome' \in {"running", "ok", "error"} /\ (outcome' = "running" <=> Len(calls) # 1) /\ error' \in Errors
  BY <1>1 DEF IInv, Typed, Running, Errors
<1>3. /\ handles' \in Seq(Containers) /\ Len(handles') = Current.handles
      /\ \A h \in 1..Current.handles :
           /\ SameContainer(handles[h], handles'[h]) /\ (h # Current.handle => handles'[h] = handles[h])
           /\ ContainerOK(doc, handles'[h])
  BY <1>1, RemainingFacts
<1>4. /\ calls' \in Seq(Activations) /\ Len(calls') = Len(calls) - 1
      /\ \A i \in 1..Len(calls) - 1 : SameActivation(calls[i], calls'[i])
  BY <1>1, BelowFacts
<1> QED BY <1>1, <1>2, <1>3, <1>4, LeavesKeeps

(***************************************************************************)
(* init(from:) or a loop succeeds, and its caller's container moves on.    *)
(***************************************************************************)
LEMMA ReturnKeeps == ASSUME IInv, Return PROVE IInv'
<1>1. /\ Running /\ decoders' = Restore /\ doc' = doc /\ error' = error
      /\ handles' = (IF Current.handle = 0 THEN Remaining ELSE AdvanceIn(Remaining, Current.handle))
      /\ IF Len(calls) = 1
         THEN calls' = <<>> /\ outcome' = "ok"
         ELSE calls' = (IF Last(Front(calls)).loop THEN NextEntry(Front(calls)) ELSE Front(calls)) /\ outcome' = outcome
  BY DEF Return, Ready
<1>2. outcome' \in {"running", "ok", "error"} /\ (outcome' = "running" <=> Len(calls) # 1) /\ error' \in Errors
  BY <1>1 DEF IInv, Typed, Running, Errors
<1>3. /\ handles' \in Seq(Containers) /\ Len(handles') = Current.handles
      /\ \A h \in 1..Current.handles :
           /\ SameContainer(handles[h], handles'[h]) /\ (h # Current.handle => handles'[h] = handles[h])
           /\ ContainerOK(doc, handles'[h])
  <2>1. /\ Remaining \in Seq(Containers) /\ Len(Remaining) = Current.handles /\ Current.handles \in 0..Len(handles)
        /\ \A h \in 1..Current.handles :
             h \in 1..Len(handles) /\ Remaining[h] = handles[h] /\ SameContainer(handles[h], Remaining[h])
               /\ ContainerTyped(doc, decoders, Remaining[h]) /\ ContainerOK(doc, Remaining[h])
    BY <1>1, RemainingFacts
  <2>2. CASE Current.handle = 0
    BY <1>1, <2>1, <2>2
  <2>3. CASE Current.handle # 0
    <3>1. /\ Len(calls) \in Nat \ {0} /\ Current = calls[Len(calls)] /\ Current \in Activations
          /\ ActivationOK(doc, calls, handles, Len(calls))
      BY <1>1, CurrentFacts
    <3>2. Current.handle \in Nat \ {0} /\ Current.handle <= Current.handles /\ Current.handles \in Nat
          /\ (handles[Current.handle].kind = "unkeyed" =>
                handles[Current.handle].cursor < Len(EntriesIn(doc, handles[Current.handle].node)))
      BY <2>3, <3>1 DEF ActivationOK, Activations
    <3>3. Current.handle \in 1..Current.handles
      BY <3>2
    <3> DEFINE k == Current.handle
    <3>4. Remaining[k] = handles[k]
      BY <2>1, <3>3
    <3>5. k \in 1..Len(Remaining)
          /\ (Remaining[k].kind = "unkeyed" => Remaining[k].cursor < Len(EntriesIn(doc, Remaining[k].node)))
      BY <2>1, <3>2, <3>3, <3>4
    <3>6. doc \in Documents
      BY DEF IInv, Typed
    <3> HIDE DEF k
    <3>7. /\ AdvanceIn(Remaining, k) \in Seq(Containers) /\ Len(AdvanceIn(Remaining, k)) = Len(Remaining)
          /\ \A i \in 1..Len(Remaining) :
               /\ SameContainer(Remaining[i], AdvanceIn(Remaining, k)[i])
               /\ (i # k => AdvanceIn(Remaining, k)[i] = Remaining[i])
               /\ ContainerOK(doc, AdvanceIn(Remaining, k)[i])
      BY <2>1, <3>5, <3>6, AdvanceFacts
    <3>8. handles' = AdvanceIn(Remaining, k)
      BY <1>1, <2>3 DEF k
    <3> QED BY <2>1, <3>7, <3>8 DEF k
  <2> QED BY <2>2, <2>3
<1>4. /\ calls' \in Seq(Activations) /\ Len(calls') = Len(calls) - 1
      /\ \A i \in 1..Len(calls) - 1 : SameActivation(calls[i], calls'[i])
  <2>1. Len(calls) \in Nat \ {0}
    BY <1>1, CurrentFacts
  <2>2. CASE Len(calls) = 1
    <3>1. calls' = <<>> /\ Len(<<>>) = 0 /\ <<>> \in Seq(Activations)
      BY <1>1, <2>2
    <3>2. 1..Len(calls) - 1 = {} /\ Len(calls) - 1 = 0
      BY <2>2
    <3> QED BY <3>1, <3>2
  <2>3. CASE Len(calls) # 1
    <3> DEFINE below == Front(calls)
    <3>1. /\ below \in Seq(Activations) /\ Len(below) = Len(calls) - 1
          /\ \A i \in 1..Len(calls) - 1 : SameActivation(calls[i], below[i])
      BY <1>1, BelowFacts
    <3> HIDE DEF below
    <3>2. below # <<>>
      <4>1. Len(below) # 0
        BY <2>1, <2>3, <3>1
      <4> QED BY <4>1
    <3>3. /\ NextEntry(below) \in Seq(Activations) /\ Len(NextEntry(below)) = Len(below)
          /\ \A i \in 1..Len(below) : SameActivation(below[i], NextEntry(below)[i])
      BY <3>1, <3>2, LoopMoves
    <3>4. calls' = NextEntry(below) \/ calls' = below
      BY <1>1, <2>3 DEF below
    <3>5. CASE calls' = below
      BY <3>1, <3>5
    <3>6. CASE calls' = NextEntry(below)
      <4>1. \A i \in 1..Len(calls) - 1 : SameActivation(calls[i], calls'[i])
        <5> SUFFICES ASSUME NEW i \in 1..Len(calls) - 1 PROVE SameActivation(calls[i], calls'[i])
          OBVIOUS
        <5>1. SameActivation(calls[i], below[i]) /\ SameActivation(below[i], calls'[i])
          BY <3>1, <3>3, <3>6
        <5>2. calls[i].next \in Nat /\ below[i].next \in Nat /\ calls'[i].next \in Nat
          <6>1. i \in 1..Len(calls) /\ i \in 1..Len(below) /\ i \in 1..Len(calls') /\ calls \in Seq(Activations)
            BY <2>1, <3>1, <3>3, <3>6 DEF IInv, Typed
          <6>2. calls[i] \in Activations /\ below[i] \in Activations /\ calls'[i] \in Activations
            BY <6>1, <3>1, <3>3, <3>6, ElementOfSeq
          <6> QED BY <6>2 DEF Activations
        <5> QED BY <5>1, <5>2 DEF SameActivation
      <4> QED BY <3>1, <3>3, <3>6, <4>1
    <3> QED BY <3>4, <3>5, <3>6
  <2> QED BY <2>2, <2>3
<1> QED BY <1>1, <1>2, <1>3, <1>4, LeavesKeeps

-----------------------------------------------------------------------------
(* The specification *)

(***************************************************************************)
(* The invariant holds when decodeTree starts.                             *)
(***************************************************************************)
LEMMA InitIInv == ASSUME Init PROVE IInv
<1>1. PICK loop \in BOOLEAN :
        /\ loop => KindOf(Root) = "keyed"
        /\ decoders = << [storage |-> IF loop THEN <<Root>> ELSE <<Root, Root>>,
                          path |-> <<>>, direct |-> TRUE] >>
        /\ calls = << [decoder |-> 1, step |-> <<>>, handle |-> 0, loop |-> loop,
                       node |-> Root, next |-> IF loop THEN 1 ELSE 0,
                       decoders |-> 1, handles |-> 0] >>
  BY DEF Init
<1> DEFINE r == [storage |-> IF loop THEN <<Root>> ELSE <<Root, Root>>, path |-> <<>>, direct |-> TRUE]
           c == [decoder |-> 1, step |-> <<>>, handle |-> 0, loop |-> loop,
                 node |-> Root, next |-> IF loop THEN 1 ELSE 0, decoders |-> 1, handles |-> 0]
<1>2. doc \in Documents /\ handles = <<>> /\ error = "none" /\ outcome = "running"
  BY DEF Init
<1>3. Root \in DOMAIN doc /\ Root \in NodeIn(doc) /\ Root # Nil /\ Root \in Nat
  BY <1>2, DocumentFacts DEF NodeIn, Root, Nil
<1>4. r.storage \in Seq(NodeIn(doc)) /\ r.storage # <<>> /\ r.storage[Len(r.storage)] = Root
  BY <1>3
<1>5. r \in DecoderIn(doc) /\ LooksAt(doc, r) /\ At(doc, r.path) = Root
  <2>1. At(doc, <<>>) = Root
    BY AtEmpty
  <2>2. <<>> \in Seq(Step)
    OBVIOUS
  <2> QED BY <1>4, <2>1, <2>2 DEF DecoderIn, LooksAt
<1>6. /\ c \in Activations /\ c.decoder = 1 /\ c.handle = 0 /\ c.loop = loop /\ c.node = Root /\ c.decoders = 1 /\ c.handles = 0
      /\ (loop => c.next = 1)
  <2>1. <<>> \in Seq(Step)
    OBVIOUS
  <2> QED BY <1>3, <2>1 DEF Activations
<1>7. loop => doc[Root].kind = "keyed"
  BY <1>1, <1>3 DEF KindOf
<1>8. decoders = <<r>> /\ calls = <<c>>
  BY <1>1
<1> HIDE DEF r, c
<1>9. Len(decoders) = 1 /\ decoders[1] = r /\ Len(calls) = 1 /\ calls[1] = c /\ Len(handles) = 0 /\ calls # <<>>
      /\ decoders \in Seq(DecoderIn(doc)) /\ calls \in Seq(Activations) /\ handles \in Seq(Containers)
  BY <1>2, <1>5, <1>6, <1>8
<1>10. ActivationTyped(doc, decoders, handles, calls[1])
  BY <1>3, <1>6, <1>9 DEF ActivationTyped
<1>11. ActivationOK(doc, calls, handles, 1)
  BY <1>3, <1>6, <1>7, <1>9 DEF ActivationOK
<1>12. Typed
  BY <1>2, <1>9, <1>10 DEF Typed
<1>13. Consistent(doc, calls, handles)
  BY <1>9, <1>11 DEF Consistent
<1>14. ViewOK(doc, calls, handles, decoders, 1)
  <2>1. UsableIn(decoders, c) = {1}
    BY <1>6, <1>9 DEF UsableIn
  <2>2. Sees(doc, decoders, c)
    BY <1>5, <1>6, <1>9, <2>1 DEF Sees
  <2>3. Opened(calls, handles, 1) = {}
    BY <1>6, <1>9 DEF Opened
  <2> QED BY <1>6, <1>9, <2>2, <2>3 DEF ViewOK
<1>15. Views(doc, calls, handles, decoders, <<decoders>>)
  <2>1. /\ <<decoders>> \in Seq(Seq(DecoderIn(doc))) /\ Len(<<decoders>>) = 1 /\ <<decoders>>[1] = decoders
    BY <1>9
  <2> QED BY <1>9, <1>14, <2>1 DEF Views
<1> QED BY <1>2, <1>9, <1>12, <1>13, <1>15 DEF IInv, Viewed, Running

(***************************************************************************)
(* Every step keeps it.                                                    *)
(***************************************************************************)
LEMMA NextIInv == ASSUME IInv, [Next]_vars PROVE IInv'
<1>1. CASE DecoderStep
  BY <1>1, OpenKeyedKeeps, OpenUnkeyedKeeps, SingleKeeps DEF DecoderStep
<1>2. CASE ContainerStep
  BY <1>2, NotFoundKeeps, ElementKeeps, SubDecodeKeeps, NestedKeyedKeeps, NestedUnkeyedKeeps, SuperKeeps DEF ContainerStep
<1>3. CASE LoopElement \/ LoopSubDecode
  BY <1>3, LoopKeeps
<1>4. CASE Return
  BY <1>4, ReturnKeeps
<1>5. CASE Throw
  BY <1>5, FailKeeps DEF Throw, Errors
<1>6. CASE Swallow
  BY <1>6, NothingChanges DEF Swallow, Errors
<1>7. CASE Unwind
  BY <1>7, UnwindKeeps
<1>8. CASE UNCHANGED vars
  <2>1. error \in Errors
    BY DEF IInv, Typed, Errors
  <2> QED BY <1>8, <2>1, NothingChanges DEF vars
<1> QED BY <1>1, <1>2, <1>3, <1>4, <1>5, <1>6, <1>7, <1>8 DEF Next

(***************************************************************************)
(* The invariant holds for every document and every client.                *)
(***************************************************************************)
THEOREM Invariant == Spec => []IInv
BY InitIInv, NextIInv, PTL DEF Spec

(***************************************************************************)
(* Every variable has its type.                                            *)
(***************************************************************************)
LEMMA TypedTypes == ASSUME IInv PROVE TypeOK
<1>1. /\ doc \in Documents /\ decoders \in Seq(DecoderIn(doc)) /\ handles \in Seq(Containers) /\ calls \in Seq(Activations)
      /\ \A h \in 1..Len(handles) : ContainerTyped(doc, decoders, handles[h])
      /\ \A i \in 1..Len(calls) : ActivationTyped(doc, decoders, handles, calls[i])
      /\ error \in {"none", "null", "mismatch", "missing", "duplicate", "client"}
      /\ outcome \in {"running", "ok", "error"}
  BY DEF IInv, Typed
<1>2. /\ DOMAIN decoders = 1..Len(decoders) /\ DOMAIN handles = 1..Len(handles) /\ Len(decoders) \in Nat /\ Len(handles) \in Nat
      /\ Len(calls) \in Nat
  BY <1>1, LenProperties
<1>3. decoders \in Seq([storage : Seq(Node), path : Seq(Step), direct : BOOLEAN])
  BY <1>1 DEF DecoderIn, NodeIn, Node
<1> DEFINE H == [decoder : DOMAIN decoders, kind : {"keyed", "unkeyed"}, node : DOMAIN doc, cursor : Nat]
           A == [decoder : DOMAIN decoders, step : Seq(Step), handle : {0} \union DOMAIN handles,
                 loop : BOOLEAN, node : Node, next : Nat,
                 decoders : 1..Len(decoders), handles : 0..Len(handles)]
<1>4. handles \in Seq(H)
  <2>1. ASSUME NEW h \in 1..Len(handles) PROVE handles[h] \in H
    <3>1. handles[h] \in Containers /\ ContainerTyped(doc, decoders, handles[h])
      BY <1>1, ElementOfSeq
    <3> QED BY <3>1, <1>2 DEF Containers, ContainerTyped
  <2> HIDE DEF H
  <2> QED BY <1>1, <2>1, SeqDef
<1>5. calls \in Seq(A)
  <2>1. ASSUME NEW i \in 1..Len(calls) PROVE calls[i] \in A
    <3>1. calls[i] \in Activations /\ ActivationTyped(doc, decoders, handles, calls[i])
      BY <1>1, ElementOfSeq
    <3>2. calls[i].handle \in {0} \union DOMAIN handles
      BY <3>1, <1>2 DEF ActivationTyped
    <3> QED BY <3>1, <3>2, <1>2 DEF Activations, ActivationTyped, NodeIn, Node
  <2> HIDE DEF A
  <2> QED BY <1>1, <2>1, SeqDef
<1> QED BY <1>1, <1>3, <1>4, <1>5 DEF TypeOK

(***************************************************************************)
(* What is decoded is where the coding path says.                          *)
(***************************************************************************)
LEMMA IInvFollowed == ASSUME IInv PROVE ValuesFollowed
<1>1. TopAtPath
  BY TopFacts DEF TopAtPath
<1>2. HandleAtPath
  BY InView DEF HandleAtPath, Client, Ready
<1>3. CursorInBounds
  <2>1. handles \in Seq(Containers) /\ \A h \in 1..Len(handles) : ContainerOK(doc, handles[h])
    BY DEF IInv, Typed, Consistent
  <2>2. DOMAIN handles = 1..Len(handles)
    BY <2>1, LenProperties
  <2> QED BY <2>1, <2>2 DEF CursorInBounds, ContainerOK, EntriesOf
<1> QED BY <1>1, <1>2, <1>3 DEF ValuesFollowed

(***************************************************************************)
(* A step that fails with anything but keys that clash moves no index.     *)
(***************************************************************************)
LEMMA StepKeepsElement ==
  ASSUME IInv, [Next]_vars
  PROVE  \A h \in DOMAIN handles \intersect DOMAIN handles' :
           error' \notin {"none", "duplicate"} => handles'[h].cursor = handles[h].cursor
<1>1. CASE handles' = handles \/ error' \in {"none", "duplicate"}
  BY <1>1
<1>2. CASE Unwind
  <2>1. Running /\ handles' = Remaining
    BY <1>2 DEF Unwind
  <2>2. Remaining \in Seq(Containers) /\ \A h \in 1..Len(Remaining) : Remaining[h] = handles[h]
    BY <2>1, RemainingFacts
  <2>3. DOMAIN handles' = 1..Len(Remaining)
    BY <2>1, <2>2, LenProperties
  <2> QED BY <2>1, <2>2, <2>3
<1>3. CASE DecoderStep
  <2>1. handles' = handles \/ (error' = error /\ error = "none")
    BY <1>3 DEF DecoderStep, OpenKeyed, OpenUnkeyed, DecodeSingle, SubDecodeSingle, Enter, EnterLoop, Client, Ready
  <2> QED BY <2>1, <1>1
<1>4. CASE ContainerStep
  <2>1. PICK h, step :
          \/ NotFound(h, step) \/ DecodeElement(h, step) \/ SubDecode(h, step) \/ DecodeDictionary(h, step)
          \/ NestedKeyed(h, step) \/ NestedUnkeyed(h, step) \/ SuperDecoder(h, step)
    BY <1>4 DEF ContainerStep
  <2>2. CASE NotFound(h, step) \/ DecodeElement(h, step)
    <3>1. handles' = handles \/ (error' = error /\ error = "none")
      BY <2>2 DEF NotFound, DecodeElement, Client, Ready
    <3> QED BY <3>1, <1>1
  <2>3. CASE SubDecode(h, step) \/ DecodeDictionary(h, step)
    <3>1. handles' = handles
      BY <2>3 DEF SubDecode, DecodeDictionary, Enter, EnterLoop
    <3> QED BY <3>1, <1>1
  <2>4. CASE NestedKeyed(h, step)
    <3>1. handles' = handles \/ error' = "duplicate" \/ (error' = error /\ error = "none")
      BY <2>4 DEF NestedKeyed, Client, Ready, Fail
    <3> QED BY <3>1, <1>1
  <2>5. CASE NestedUnkeyed(h, step) \/ SuperDecoder(h, step)
    <3>1. handles' = handles \/ (error' = error /\ error = "none")
      BY <2>5 DEF NestedUnkeyed, SuperDecoder, Client, Ready
    <3> QED BY <3>1, <1>1
  <2> QED BY <2>1, <2>2, <2>3, <2>4, <2>5
<1>5. CASE LoopElement \/ LoopSubDecode \/ Throw \/ Swallow \/ UNCHANGED vars
  BY <1>1, <1>5 DEF LoopElement, LoopSubDecode, Enter, EnterLoop, Throw, Swallow, vars
<1>6. CASE Return
  BY <1>1, <1>6 DEF Return, Ready
<1> QED BY <1>2, <1>3, <1>4, <1>5, <1>6 DEF Next

-----------------------------------------------------------------------------

(***************************************************************************)
(* Every variable of the decoder has its type                              *)
(* (ValueDecoder.swift:576-614, 661-693, 911-930).                         *)
(***************************************************************************)
THEOREM TypeCorrect == Spec => []TypeOK
BY Invariant, TypedTypes, PTL

(***************************************************************************)
(* For every document and every client: a decoder looks at the value its   *)
(* coding path names, a container reads the value its decoder's path names, *)
(* and its index stays in the array (ValueDecoder.swift:652-656, 810-823,  *)
(* 929).                                                                   *)
(***************************************************************************)
THEOREM ValuesFollowedAlways == Spec => []ValuesFollowed
BY Invariant, IInvFollowed, PTL

(***************************************************************************)
(* For every document and every client: an element that could not be       *)
(* decoded is still the next one, unless the key strategy refused the keys *)
(* of a nested container (ValueDecoder.swift:1446).                        *)
(***************************************************************************)
THEOREM ElementKept == Spec => FailureKeepsElement
<1>1. IInv /\ [Next]_vars =>
        [\A h \in DOMAIN handles \intersect DOMAIN handles' :
           error' \notin {"none", "duplicate"} => handles'[h].cursor = handles[h].cursor]_vars
  BY StepKeepsElement
<1> QED BY <1>1, Invariant, PTL DEF Spec, FailureKeepsElement
============================================================================
