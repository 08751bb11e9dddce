-------------------------- MODULE FyThreadPool_proofs --------------------------
(***************************************************************************)
(* The thread pool executes no work twice, whatever the number of threads  *)
(* and the tree of works: the proof follows each work from the array it is *)
(* in to the one place where it can be executed next.                      *)
(***************************************************************************)
EXTENDS FyThreadPool, SequenceTheorems, WellFoundedInduction, TLAPS

(***************************************************************************)
(* The places, by what runs there.                                         *)
(***************************************************************************)
WordPlaces     == {"post", "wake", "fwait", "sleep"}
BusyPlaces     == {"execute", "signal", "steal", "grab", "took", "unreserve", "clear"}
ClientPlaces   == {"run", "stop", "join"}
StandardPlaces == {"single", "assign", "submit", "directly", "await", "reset", "release"}
LoopPlaces     == {"loop", "reserve", "hand", "offer", "hang", "direct", "count", "reclaim", "retake"}
PairPlaces     == {"pair", "pair hand", "pair hang", "first", "first done", "pair retake",
                   "second", "second done"}
JoinPlaces     == StandardPlaces \union LoopPlaces \union PairPlaces \union {"drain", "joined"}

AnyJobs  == Works \union {Null}
Assigns  == Seq(Threads \X AnyJobs)
AnyWords == Words \union {<<>>}
Frames ==
  [at : Places, job : AnyJobs, next : Nat \ {0}, dw : AnyJobs, tw : Threads, wp : BOOLEAN,
   loot : BOOLEAN, word : AnyWords, one : Int, threaded : Assigns, direct : Seq(Works)]

(***************************************************************************)
(* The works that a frame still has to execute or to hand over.            *)
(***************************************************************************)
Rest(f, k)         == {Children[f.job][i] : i \in k..Len(Children[f.job])}
ThreadedFrom(f, k) == {f.threaded[i][2] : i \in k..Len(f.threaded)}
DirectFrom(f, k)   == {f.direct[i] : i \in k..Len(f.direct)}
Kept(f)            == IF f.loot THEN f.next + 1 ELSE f.next

Holds(f) ==
  CASE f.at \in {"run", "execute"}                      -> {f.dw}
    [] f.at = "took"                                    -> {f.job}
    [] f.at \in {"single", "pair", "pair hand"}         -> Rest(f, 1)
    [] f.at = "assign"    -> Rest(f, f.next) \union ThreadedFrom(f, 1) \union DirectFrom(f, 1)
    [] f.at = "submit"    -> ThreadedFrom(f, f.next) \union DirectFrom(f, 1)
    [] f.at = "directly"  -> DirectFrom(f, f.next)
    [] f.at = "loop"                                    -> Rest(f, f.next)
    [] f.at \in {"reserve", "hand", "offer"}            -> {f.dw} \union Rest(f, f.next)
    [] f.at = "hang"                                    -> {f.dw} \union Rest(f, f.next + 1)
    [] f.at = "direct"                                  -> {f.dw} \union Rest(f, Kept(f))
    [] f.at \in {"count", "reclaim", "retake"}          -> Rest(f, Kept(f))
    [] f.at = "pair hang"                               -> {Children[f.job][1]}
    [] f.at = "first" -> IF f.loot \/ f.tw # Main THEN {Children[f.job][1]} ELSE Rest(f, 1)
    [] f.at = "first done" /\ ~f.loot /\ f.tw = Main    -> {Children[f.job][2]}
    [] f.at = "second"                                  -> {Children[f.job][2]}
    [] OTHER                                            -> {}

(***************************************************************************)
(* What holds of a frame of a client whose works are T, in the mode m of   *)
(* the pool, with the works m.pooled that the pool of a join counts: the   *)
(* arrays of a standard join share no work and none with what is left of   *)
(* the works, and what a loop of the stealing join set aside is behind it. *)
(***************************************************************************)
ArraysApart(f) ==
  /\ \A i, j \in DOMAIN f.direct : f.direct[i] = f.direct[j] => i = j
  /\ \A i, j \in DOMAIN f.threaded :
       f.threaded[i][2] = f.threaded[j][2] /\ f.threaded[i][2] # Null => i = j
  /\ \A i \in DOMAIN f.direct, j \in DOMAIN f.threaded : f.direct[i] # f.threaded[j][2]
Assigned(f, k) == \A i \in k..Len(f.threaded) : f.threaded[i] \in Workers \X Works

Good(T, m, f) ==
  /\ f.at \in JoinPlaces => f.job \in T
  /\ f.at \in StandardPlaces => m.steal # TRUE
  /\ f.at \in LoopPlaces \union PairPlaces \union {"drain"} => m.steal = TRUE
  /\ f.at \in {"signal", "steal", "grab", "took", "unreserve"} => m.steal = TRUE
  /\ f.at \in BusyPlaces \union {"run"} => f.dw \in Works
  /\ f.at = "took" => f.job \in Works
  /\ f.at = "join" => f.next \in Workers
  /\ f.at = "single" => Len(Children[f.job]) = 1
  /\ f.at = "assign" => /\ Len(Children[f.job]) > 1
                        /\ f.next > 1 => f.threaded # <<>> \/ f.direct # <<>>
                        /\ ArraysApart(f) /\ Assigned(f, 1)
                        /\ Rest(f, f.next) \intersect
                             (ThreadedFrom(f, 1) \union DirectFrom(f, 1)) = {}
  /\ f.at = "submit" => ArraysApart(f) /\ Assigned(f, f.next) /\ f.direct # <<>>
  /\ f.at = "directly" => ArraysApart(f)
  /\ f.at \in {"loop", "count", "reclaim", "retake"} => f.dw = Null
  /\ f.at \in {"reserve", "hand", "offer", "hang", "direct"} =>
       \E k \in 1..Len(Children[f.job]) : k < f.next /\ f.dw = Children[f.job][k]
  /\ f.at \in {"hand", "offer", "hang"} => More(f)
  /\ f.at \in {"loop", "reserve", "hand", "offer", "hang", "pair", "pair hand"} => ~f.loot
  /\ f.at \in {"direct", "count"} /\ f.loot => More(f)
  /\ f.at \in {"reclaim", "retake"} => f.loot /\ More(f)
  /\ f.at \in {"hand", "pair hand", "grab", "reset", "release"} => f.tw \in Workers
  /\ f.at \in PairPlaces => Len(Children[f.job]) = 2
  /\ f.at \in WordPlaces => f.word \in Words
  /\ f.at \in BusyPlaces /\ m.steal = TRUE => f.dw \in m.pooled
  /\ f.at = "took" => f.job \in m.pooled
  /\ f.at = "hand" => Next1(f) \in m.pooled
  /\ f.at = "pair hand" => Second(f) \in m.pooled

(* What the steps that touch nothing shared add to that.                     *)
Rested(f) ==
  /\ f.at # "loop"
  /\ f.at = "reserve" => More(f)
  /\ f.at \in {"submit", "await"} => f.next <= Len(f.threaded)
  /\ f.at = "directly" => f.next <= Len(f.direct)

(* A frame whose next work is offered or is about to be.                     *)
Offering(f) ==
  \/ f.at \in {"hang", "pair hang", "reclaim", "retake", "pair retake"}
  \/ f.at \in {"direct", "count", "first", "first done"} /\ f.loot = TRUE

(* Where a frame of a thread can be: the first one of a thread is what the   *)
(* thread was started with, above it are joins and waits; only a worker      *)
(* offers works.                                                             *)
PlaceOK(t, i, f) ==
  /\ i = 1 /\ t = Main => f.at \in ClientPlaces
  /\ i = 1 /\ t # Main => f.at \in BusyPlaces \union {"wait"}
  /\ i > 1 => f.at \in JoinPlaces \union WordPlaces
  /\ t = Main => ~Offering(f)

StacksOK(T, m, s) ==
  /\ s \in [Threads -> Seq(Frames)]
  /\ \A t \in Threads : \A i \in 1..Len(s[t]) :
       Good(T, m, s[t][i]) /\ Rested(s[t][i]) /\ PlaceOK(t, i, s[t][i])

(***************************************************************************)
(* Where a work can be that is still to be executed: in a frame of the     *)
(* thread t, submitted to it while it waits (0), or offered by it (-1).    *)
(***************************************************************************)
Has(s, wk, nw, t, i, w) ==
  \/ i \in 1..Len(s[t]) /\ w \in Holds(s[t][i])
  \/ i = 0 /\ t \in Workers /\ s[t] # <<>> /\ s[t][1].at = "wait" /\ wk[t] = w
  \/ i = -1 /\ t \in Workers /\ nw[t] = w

HeldIn(s, wk, nw) ==
  {x \in Threads \X Int \X Works : Has(s, wk, nw, x[1], x[2], x[3])}

(* A work is at one place, where it is not started yet; only the works of a  *)
(* work that was started are anywhere; and none was started twice.           *)
Tokens(T, H, S) ==
  /\ \A x, y \in H : x[3] = y[3] => x = y
  /\ \A x \in H : x[3] \in T /\ S[x[3]] = 0
  /\ \A p \in T : S[p] = 0 => \A i \in 1..Len(Children[p]) :
                                S[Children[p][i]] = 0 /\ \A x \in H : x[3] # Children[p][i]
  /\ \A w \in Works : S[w] <= 1

(* A thread that does not wait has the work that it executes.                *)
Busy(s, wk) ==
  \A t \in Workers : s[t] # <<>> /\ s[t][1].at # "wait" => wk[t] \in {s[t][1].dw, Shutdown}

Types ==
  /\ steal \in BOOLEAN
  /\ work \in [Workers -> Works \union {Null, Shutdown}]
  /\ nextWork \in [Workers -> Works \union {Null}]
  /\ free \subseteq Workers /\ loot \subseteq Workers
  /\ word \in [Words -> {0, 1}]
  /\ asleep \in [Threads -> Words \union {<<>>}]
  /\ left \in [Works -> Int]
  /\ pool \in [Works -> Works \union {Null}]
  /\ started \in [Works -> Nat]
  /\ finished \subseteq Works

(* The mode of the pool; the works that are handed over or offered in the    *)
(* stealing mode are counted.                                                *)
Mode == [steal |-> steal, pooled |-> {w \in Works : pool[w] \in Works}]
Pooled ==
  steal => \A v \in Workers : /\ work[v] \in Works => work[v] \in Mode.pooled
                              /\ nextWork[v] \in Works => nextWork[v] \in Mode.pooled

CoreOf(T, m, s, wk, nw, S) ==
  StacksOK(T, m, s) /\ Busy(s, wk) /\ Tokens(T, HeldIn(s, wk, nw), S)

Inv(T) == Types /\ Pooled /\ CoreOf(T, Mode, stack, work, nextWork, started)

IsForest(T) == T \in SUBSET Works /\ \E client \in Clients : IsTree(T, client[2])
Placed == \E T \in SUBSET Works : IsForest(T) /\ Inv(T)

-----------------------------------------------------------------------------
(* Sequences and sets *)

(* The beginning of a sequence.                                              *)
LEMMA Prefix ==
  ASSUME NEW S, NEW q \in Seq(S), q # <<>>
  PROVE  /\ Len(q) \in Nat \ {0} /\ Len(q) - 1 \in Nat
         /\ Front(q) \in Seq(S) /\ Len(Front(q)) = Len(q) - 1
         /\ \A i \in 1..Len(q) - 1 : Front(q)[i] = q[i]
<1>1. Len(q) \in Nat \ {0} /\ Len(q) - 1 \in Nat
  BY EmptySeq
<1>2. \A i \in 1..Len(q) - 1 : q[i] \in S
  BY <1>1
<1>3. Front(q) = SubSeq(q, 1, Len(q) - 1)
  BY DEF Front
<1> DEFINE n == Len(q) - 1
<1>4. /\ SubSeq(q, 1, n) \in Seq(S)
      /\ Len(SubSeq(q, 1, n)) = IF 1 <= n THEN n - 1 + 1 ELSE 0
      /\ \A i \in 1..(n - 1 + 1) : SubSeq(q, 1, n)[i] = q[1 + i - 1]
  BY <1>1, <1>2, SubSeqProperties
<1>5. n \in Nat
  BY <1>1
<1> DEFINE f == SubSeq(q, 1, n)
<1>6. f \in Seq(S) /\ Len(f) = n /\ \A i \in 1..n : f[i] = q[i]
  <2> HIDE DEF n
  <2> QED BY <1>4, <1>5
<1>7. Front(q) = f
  BY <1>3
<1> HIDE DEF f
<1> QED BY <1>1, <1>6, <1>7

(* The last element of a sequence is replaced.                               *)
LEMMA Replaced ==
  ASSUME NEW S, NEW q \in Seq(S), q # <<>>, NEW x \in S
  PROVE  /\ Front(q) \o <<x>> \in Seq(S)
         /\ Len(Front(q) \o <<x>>) = Len(q) /\ Len(q) \in Nat \ {0}
         /\ \A i \in 1..Len(q) : (Front(q) \o <<x>>)[i] = IF i = Len(q) THEN x ELSE q[i]
<1> DEFINE f == Front(q)
<1>1. Len(q) \in Nat \ {0} /\ Len(q) - 1 \in Nat
  BY Prefix
<1>2. f \in Seq(S) /\ Len(f) = Len(q) - 1 /\ \A i \in 1..Len(q) - 1 : f[i] = q[i]
  BY Prefix
<1> HIDE DEF f
<1>4. f \o <<x>> \in Seq(S) /\ Len(f \o <<x>>) = Len(q)
  BY <1>1, <1>2
<1>5. \A i \in 1..Len(q) : (f \o <<x>>)[i] = IF i = Len(q) THEN x ELSE q[i]
  BY <1>1, <1>2
<1> QED BY <1>1, <1>4, <1>5 DEF f

(* The last element is replaced and another one put on top.                  *)
LEMMA Pushed ==
  ASSUME NEW S, NEW q \in Seq(S), q # <<>>, NEW x \in S, NEW y \in S
  PROVE  /\ Front(q) \o <<x, y>> \in Seq(S)
         /\ Len(Front(q) \o <<x, y>>) = Len(q) + 1 /\ Len(q) \in Nat \ {0}
         /\ \A i \in 1..Len(q) + 1 : (Front(q) \o <<x, y>>)[i] =
              IF i = Len(q) + 1 THEN y ELSE IF i = Len(q) THEN x ELSE q[i]
<1> DEFINE f == Front(q)
<1>1. Len(q) \in Nat \ {0} /\ Len(q) - 1 \in Nat
  BY Prefix
<1>2. f \in Seq(S) /\ Len(f) = Len(q) - 1 /\ \A i \in 1..Len(q) - 1 : f[i] = q[i]
  BY Prefix
<1> HIDE DEF f
<1>4. f \o <<x, y>> \in Seq(S) /\ Len(f \o <<x, y>>) = Len(q) + 1
  BY <1>1, <1>2
<1>5. \A i \in 1..Len(q) + 1 : (f \o <<x, y>>)[i] =
        IF i = Len(q) + 1 THEN y ELSE IF i = Len(q) THEN x ELSE q[i]
  BY <1>1, <1>2
<1> QED BY <1>1, <1>4, <1>5 DEF f

(* The last element of a sequence that has one.                              *)
LEMMA TopFacts ==
  ASSUME NEW S, NEW q \in Seq(S), q # <<>>
  PROVE  Last(q) = q[Len(q)] /\ Len(q) \in Nat \ {0} /\ Last(q) \in S
<1>1. Len(q) \in Nat \ {0}
  BY EmptySeq
<1> QED BY <1>1 DEF Last

(* What one more element adds to a sequence.                                 *)
LEMMA Appended ==
  ASSUME NEW S, NEW q \in Seq(S), NEW x \in S
  PROVE  /\ Append(q, x) \in Seq(S) /\ Len(Append(q, x)) = Len(q) + 1 /\ Len(q) \in Nat
         /\ \A i \in 1..Len(q) + 1 : Append(q, x)[i] = IF i = Len(q) + 1 THEN x ELSE q[i]
OBVIOUS

(* A set of threads has a first one.                                         *)
LEMMA MinFacts ==
  ASSUME NEW U \in SUBSET Nat, U # {}
  PROVE  Min(U) \in U
<1> DEFINE R == OpToRel(<, Nat)
<1>1. PICK u \in U : \A y \in U : <<y, u>> \notin R
  <2>1. IsWellFoundedOn(R, Nat)
    BY NatLessThanWellFounded
  <2> HIDE DEF R
  <2> QED BY <2>1, WFMin
<1>2. \A y \in U : u <= y
  <2> SUFFICES ASSUME NEW y \in U, ~(u <= y)
               PROVE  FALSE
    OBVIOUS
  <2>1. <<y, u>> \in R
    BY DEF OpToRel
  <2> QED BY <1>1, <2>1
<1> QED BY <1>2 DEF Min

(* The words that stand for no work are none.                                *)
LEMMA Words0 == Null \notin Works /\ Shutdown \notin Works /\ Null # Shutdown
BY WorksAssumption DEF Null, Shutdown

(* The client's thread is none of the workers.                               *)
LEMMA Threads0 == Workers \subseteq Nat \ {0} /\ Main \notin Workers /\ Main \in Threads
                  /\ Workers \subseteq Threads /\ Threads \subseteq Nat
BY ThreadsAssumption DEF Workers, Main, Threads

-----------------------------------------------------------------------------
(* Frames *)

(* The fields of a frame.                                                    *)
LEMMA FrameParts ==
  ASSUME NEW f \in Frames
  PROVE  /\ f.at \in Places /\ f.job \in Works \union {Null} /\ f.next \in Nat \ {0}
         /\ f.dw \in Works \union {Null} /\ f.tw \in Threads /\ f.wp \in BOOLEAN
         /\ f.loot \in BOOLEAN /\ f.word \in AnyWords /\ f.one \in Int
         /\ f.threaded \in Seq(Threads \X AnyJobs) /\ f.direct \in Seq(Works)
BY DEF Frames, AnyJobs, Assigns

(* The frame g differs from f in its place, next and dw only.                *)
Alike(f, g) ==
  /\ g.job = f.job /\ g.tw = f.tw /\ g.wp = f.wp /\ g.loot = f.loot /\ g.word = f.word
  /\ g.one = f.one /\ g.threaded = f.threaded /\ g.direct = f.direct

(* The works a work joins.                                                   *)
LEMMA ChildFacts ==
  ASSUME NEW w \in Works
  PROVE  /\ Children[w] \in Seq(Works) /\ Len(Children[w]) \in Nat
         /\ DOMAIN Children[w] = 1..Len(Children[w])
         /\ \A i \in 1..Len(Children[w]) : Children[w][i] \in Works
<1>1. Children[w] \in Seq(Works)
  BY WorksAssumption
<1> QED BY <1>1

(* The head of the loop of the stealing join.                                *)
LEMMA LoopHeadFacts ==
  ASSUME NEW f \in Frames, f.job \in Works, f.dw = Null, NEW g \in LoopHead(f)
  PROVE  /\ g \in Frames /\ Alike(f, g)
         /\ \/ ~More(f) /\ g.at = "drain" /\ g.next = f.next /\ g.dw = Null
            \/ /\ More(f) /\ g.next = f.next + 1 /\ g.dw = Next1(f)
               /\ g.at \in {"reserve", "direct"} /\ (g.at = "reserve" => More(g))
<1>1. CASE ~More(f)
  <2>1. g = [f EXCEPT !.at = "drain"]
    BY <1>1 DEF LoopHead
  <2>2. g \in Frames
    BY ZenonT(60), <2>1 DEF Frames, Places
  <2>3. Alike(f, g) /\ g.at = "drain" /\ g.next = f.next /\ g.dw = Null
    BY <2>1 DEF Frames, Alike
  <2> QED BY <1>1, <2>2, <2>3
<1>2. CASE More(f)
  <2> DEFINE set == [f EXCEPT !.dw = Next1(f), !.next = f.next + 1]
  <2>1. Next1(f) \in Works /\ Next1(f) # Null
    BY <1>2, ChildFacts, FrameParts, Words0 DEF More, Next1
  <2>2. set \in Frames
    <3>1. Next1(f) \in AnyJobs /\ f.next + 1 \in Nat \ {0}
      BY <2>1, FrameParts DEF AnyJobs
    <3> QED BY <3>1 DEF Frames
  <2>3. Alike(f, set) /\ set.next = f.next + 1 /\ set.dw = Next1(f)
    BY DEF Frames, Alike
  <2>4. g \in {[set EXCEPT !.at = "direct"]} \union
               (IF More(set) THEN {[set EXCEPT !.at = "reserve"]} ELSE {})
    BY <1>2, <2>1, <2>3 DEF LoopHead
  <2> HIDE DEF set
  <2>5. g \in Frames
    <3>1. PICK p \in {"direct", "reserve"} : g = [set EXCEPT !.at = p]
      BY <2>4
    <3>2. p \in Places
      BY DEF Places
    <3> QED BY <2>2, <3>1, <3>2 DEF Frames
  <2>6. Alike(set, g) /\ g.next = set.next /\ g.dw = set.dw /\ g.at \in {"reserve", "direct"}
    BY <2>2, <2>4 DEF Frames, Alike
  <2>7. g.at = "reserve" => More(g)
    <3>1. g.at = "reserve" => More(set)
      BY <2>2, <2>4 DEF Frames
    <3> QED BY <2>6, <3>1 DEF More, Alike
  <2>8. Alike(f, g)
    BY <2>3, <2>6 DEF Alike
  <2> QED BY <1>2, <2>3, <2>5, <2>6, <2>7, <2>8
<1> QED BY <1>1, <1>2

(* The frame f goes on at a place, or with the next work as direct one.      *)
GoesTo(f, g, at, next) == Alike(f, g) /\ g.at = at /\ g.next = next /\ g.dw = f.dw
LoopsTo(f, g) ==
  \/ ~More(f) /\ \E at \in {"drain", "joined"} : GoesTo(f, g, at, f.next)
  \/ /\ More(f) /\ Alike(f, g) /\ g.next = f.next + 1 /\ g.dw = Next1(f)
     /\ g.at \in {"reserve", "direct"} /\ (g.at = "reserve" => More(g))

(* A frame that goes to another place is a frame, with the rest kept.        *)
LEMMA AtFrames ==
  ASSUME NEW f \in Frames, NEW at \in Places
  PROVE  [f EXCEPT !.at = at] \in Frames /\ GoesTo(f, [f EXCEPT !.at = at], at, f.next)
<1>1. [f EXCEPT !.at = at] \in Frames
  BY DEF Frames
<1>2. GoesTo(f, [f EXCEPT !.at = at], at, f.next)
  BY DEF Frames, GoesTo, Alike
<1> QED BY <1>1, <1>2

(* A frame that goes to another place with the first index.                  *)
LEMMA FirstFrames ==
  ASSUME NEW f \in Frames, NEW at \in Places
  PROVE  [f EXCEPT !.at = at, !.next = 1] \in Frames
         /\ GoesTo(f, [f EXCEPT !.at = at, !.next = 1], at, 1)
<1>1. [f EXCEPT !.at = at, !.next = 1] \in Frames
  <2>1. 1 \in Nat \ {0}
    OBVIOUS
  <2> QED BY <2>1 DEF Frames
<1>2. GoesTo(f, [f EXCEPT !.at = at, !.next = 1], at, 1)
  BY DEF Frames, GoesTo, Alike
<1> QED BY <1>1, <1>2

(* Where the steps that touch nothing shared lead.                           *)
SettlesTo(f, g) ==
  \/ f.at \notin {"count", "loop", "submit", "directly", "await", "reserve", "drain", "second done"}
     /\ g = f
  \/ f.at \in {"count", "drain", "second done"} /\ f.wp /\ g = f
  \/ f.at = "count" /\ ~f.wp /\ f.loot /\ GoesTo(f, g, "reclaim", f.next)
  \/ f.at = "count" /\ ~f.wp /\ ~f.loot /\ LoopsTo(f, g)
  \/ f.at = "loop" /\ LoopsTo(f, g)
  \/ f.at = "submit" /\ f.next <= Len(f.threaded) /\ g = f
  \/ f.at = "submit" /\ f.next > Len(f.threaded) /\ GoesTo(f, g, "directly", 1)
  \/ f.at = "directly" /\ f.next <= Len(f.direct) /\ g = f
  \/ f.at = "directly" /\ f.next > Len(f.direct) /\ f.threaded = <<>> /\ GoesTo(f, g, "joined", 1)
  \/ f.at = "directly" /\ f.next > Len(f.direct) /\ f.threaded # <<>> /\ GoesTo(f, g, "await", 1)
  \/ f.at = "await" /\ f.next <= Len(f.threaded) /\ g = f
  \/ f.at = "await" /\ f.next > Len(f.threaded) /\ GoesTo(f, g, "joined", f.next)
  \/ f.at = "reserve" /\ More(f) /\ g = f
  \/ f.at = "reserve" /\ ~More(f) /\ GoesTo(f, g, "direct", f.next)
  \/ f.at \in {"drain", "second done"} /\ ~f.wp /\ GoesTo(f, g, "joined", f.next)

(* Where the steps that touch nothing shared can take a frame.               *)
LEMMA SettledCases ==
  ASSUME NEW f \in Frames, NEW g \in Settled(f),
         f.at \in {"loop", "count"} => f.job \in Works /\ f.dw = Null
  PROVE  g \in Frames /\ SettlesTo(f, g)
<1> USE FrameParts
<1> DEFINE counted == IF f.at = "count" /\ ~f.wp
                        THEN [f EXCEPT !.at = IF f.loot THEN "reclaim" ELSE "loop"]
                        ELSE LoopEnd(f)
           places  == IF counted.at = "loop" THEN LoopHead(counted) ELSE {counted}
           Pass(x) == IF x.at \in {"drain", "second done"} /\ ~x.wp THEN [x EXCEPT !.at = "joined"]
                      ELSE IF x.at = "reserve" /\ ~More(x) THEN [x EXCEPT !.at = "direct"]
                      ELSE x
<1>1. PICK x \in places : g = Pass(x)
  BY DEF Settled
<1>2. \A at \in {"reclaim", "loop", "joined", "direct", "directly", "await", "drain"} : at \in Places
  BY DEF Places
<1>3. ASSUME NEW y \in Frames, NEW h \in LoopHead(y), y.job \in Works, y.dw = Null
      PROVE  Pass(h) \in Frames /\ LoopsTo(y, Pass(h))
  <2>1. /\ h \in Frames /\ Alike(y, h)
        /\ \/ ~More(y) /\ h.at = "drain" /\ h.next = y.next /\ h.dw = Null
           \/ /\ More(y) /\ h.next = y.next + 1 /\ h.dw = Next1(y)
              /\ h.at \in {"reserve", "direct"} /\ (h.at = "reserve" => More(h))
    BY <1>3, LoopHeadFacts
  <2>2. CASE h.at = "drain" /\ ~h.wp
    <3>1. Pass(h) = [h EXCEPT !.at = "joined"]
      BY <2>2
    <3> HIDE DEF Pass
    <3>2. Pass(h) \in Frames /\ GoesTo(h, Pass(h), "joined", h.next)
      BY <1>2, <2>1, <3>1, AtFrames
    <3> QED BY <1>3, <2>1, <2>2, <3>2 DEF LoopsTo, GoesTo, Alike
  <2>3. CASE ~(h.at = "drain" /\ ~h.wp)
    <3>1. Pass(h) = h
      BY <2>1, <2>3
    <3> QED BY <1>3, <2>1, <2>3, <3>1 DEF LoopsTo, GoesTo, Alike
  <2> QED BY <2>2, <2>3
<1>4. CASE f.at = "count" /\ ~f.wp /\ ~f.loot
  <2>1. counted = [f EXCEPT !.at = "loop"]
    BY <1>4
  <2>2. counted \in Frames /\ GoesTo(f, counted, "loop", f.next)
    BY <1>2, <2>1, AtFrames
  <2> HIDE DEF counted
  <2>3. x \in LoopHead(counted) /\ counted.job \in Works /\ counted.dw = Null
    BY <1>1, <1>4, <2>2 DEF GoesTo, Alike
  <2> HIDE DEF Pass, places
  <2>4. g \in Frames /\ LoopsTo(counted, g)
    BY <1>1, <1>3, <2>2, <2>3
  <2>5. LoopsTo(f, g)
    BY <2>2, <2>4 DEF LoopsTo, GoesTo, Alike, More, Next1
  <2> QED BY <1>4, <2>4, <2>5 DEF SettlesTo
<1>5. CASE f.at = "loop"
  <2>1. counted = f
    BY <1>5 DEF LoopEnd
  <2>2. x \in LoopHead(f)
    BY <1>1, <1>5, <2>1
  <2> HIDE DEF Pass, places, counted
  <2>3. g \in Frames /\ LoopsTo(f, g)
    BY <1>1, <1>3, <1>5, <2>2
  <2> QED BY <1>5, <2>3 DEF SettlesTo
<1>6. CASE f.at \notin {"loop", "count"} \/ (f.at = "count" /\ (f.wp \/ f.loot))
  <2> DEFINE y == counted
  <2>1. y \in Frames /\ y.at # "loop" /\
        \/ /\ f.at \notin {"count", "loop", "submit", "directly", "await"} \/ (f.at = "count" /\ f.wp)
           /\ y = f
        \/ f.at = "count" /\ ~f.wp /\ f.loot /\ GoesTo(f, y, "reclaim", f.next)
        \/ f.at = "submit" /\ f.next <= Len(f.threaded) /\ y = f
        \/ f.at = "submit" /\ f.next > Len(f.threaded) /\ GoesTo(f, y, "directly", 1)
        \/ f.at = "directly" /\ f.next <= Len(f.direct) /\ y = f
        \/ f.at = "directly" /\ f.next > Len(f.direct) /\ f.threaded = <<>> /\ GoesTo(f, y, "joined", 1)
        \/ f.at = "directly" /\ f.next > Len(f.direct) /\ f.threaded # <<>> /\ GoesTo(f, y, "await", 1)
        \/ f.at = "await" /\ f.next <= Len(f.threaded) /\ y = f
        \/ f.at = "await" /\ f.next > Len(f.threaded) /\ GoesTo(f, y, "joined", f.next)
    <3>1. CASE f.at = "count" /\ ~f.wp /\ f.loot
      <4>1. y = [f EXCEPT !.at = "reclaim"]
        BY <3>1
      <4> HIDE DEF counted
      <4>2. y \in Frames /\ GoesTo(f, y, "reclaim", f.next)
        BY <1>2, <4>1, AtFrames
      <4> QED BY <3>1, <4>2 DEF GoesTo
    <3>2. CASE f.at \notin {"count", "loop", "submit", "directly", "await"} \/ (f.at = "count" /\ f.wp)
      <4>1. y = f
        BY <3>2 DEF LoopEnd
      <4> HIDE DEF counted
      <4> QED BY <3>2, <4>1
    <3>3. CASE f.at = "submit"
      <4>1. y = IF f.next > Len(f.threaded) THEN [f EXCEPT !.at = "directly", !.next = 1] ELSE f
        BY <3>3 DEF LoopEnd
      <4> HIDE DEF counted
      <4>2. f.next > Len(f.threaded) => y \in Frames /\ GoesTo(f, y, "directly", 1)
        BY <1>2, <4>1, FirstFrames
      <4> QED BY <3>3, <4>1, <4>2 DEF GoesTo
    <3>4. CASE f.at = "directly"
      <4>1. y = IF f.next > Len(f.direct)
                  THEN [f EXCEPT !.at = IF f.threaded = <<>> THEN "joined" ELSE "await", !.next = 1]
                  ELSE f
        BY <3>4 DEF LoopEnd
      <4> HIDE DEF counted
      <4>2. f.next > Len(f.direct) /\ f.threaded = <<>> => y \in Frames /\ GoesTo(f, y, "joined", 1)
        BY <1>2, <4>1, FirstFrames
      <4>3. f.next > Len(f.direct) /\ f.threaded # <<>> => y \in Frames /\ GoesTo(f, y, "await", 1)
        BY <1>2, <4>1, FirstFrames
      <4> QED BY <3>4, <4>1, <4>2, <4>3 DEF GoesTo
    <3>5. CASE f.at = "await"
      <4>1. y = IF f.next > Len(f.threaded) THEN [f EXCEPT !.at = "joined"] ELSE f
        BY <3>5 DEF LoopEnd
      <4> HIDE DEF counted
      <4>2. f.next > Len(f.threaded) => y \in Frames /\ GoesTo(f, y, "joined", f.next)
        BY <1>2, <4>1, AtFrames
      <4> QED BY <3>5, <4>1, <4>2 DEF GoesTo
    <3> HIDE DEF counted
    <3> QED BY <1>6, <3>1, <3>2, <3>3, <3>4, <3>5
  <2>2. x = y
    BY <1>1, <2>1
  <2> HIDE DEF counted
  <2>3. CASE y.at \in {"drain", "second done"} /\ ~y.wp
    <3>1. g = [y EXCEPT !.at = "joined"]
      BY <1>1, <2>2, <2>3
    <3> HIDE DEF Pass, places
    <3>2. g \in Frames /\ GoesTo(y, g, "joined", y.next)
      BY <1>2, <2>1, <3>1, AtFrames
    <3>3. y = f
      BY <2>1, <2>3 DEF GoesTo
    <3> QED BY <2>3, <3>2, <3>3 DEF SettlesTo
  <2>4. CASE y.at = "reserve" /\ ~More(y)
    <3>1. g = [y EXCEPT !.at = "direct"]
      BY <1>1, <2>2, <2>4
    <3> HIDE DEF Pass, places
    <3>2. g \in Frames /\ GoesTo(y, g, "direct", y.next)
      BY <1>2, <2>1, <3>1, AtFrames
    <3>3. y = f
      BY <2>1, <2>4 DEF GoesTo
    <3> QED BY <2>4, <3>2, <3>3 DEF SettlesTo
  <2>5. CASE ~(y.at \in {"drain", "second done"} /\ ~y.wp) /\ ~(y.at = "reserve" /\ ~More(y))
    <3>1. g = y
      BY <1>1, <2>2, <2>5
    <3> HIDE DEF Pass, places
    <3>2. y.wp \in BOOLEAN
      BY <2>1
    <3> QED BY <2>1, <2>5, <3>1, <3>2 DEF SettlesTo
  <2> QED BY <2>3, <2>4, <2>5
<1> QED BY <1>4, <1>5, <1>6

(* They keep what holds of a frame and add no work to it.                    *)
LEMMA SettledKeeps ==
  ASSUME NEW T \in SUBSET Works, NEW m, NEW f \in Frames, Good(T, m, f),
         NEW g \in Settled(f)
  PROVE  /\ g \in Frames /\ Good(T, m, g) /\ Rested(g) /\ Holds(g) \subseteq Holds(f)
         /\ g = f \/ (f.at \in JoinPlaces /\ g.at \in JoinPlaces)
<1> USE FrameParts
<1> USE DEF JoinPlaces, StandardPlaces, LoopPlaces, PairPlaces, BusyPlaces, WordPlaces
<1>1. f.at \in {"loop", "count"} => f.job \in Works /\ f.dw = Null
  BY DEF Good
<1>2. g \in Frames /\ SettlesTo(f, g)
  BY <1>1, SettledCases
<1>3. CASE g = f
  <2>1. Rested(f)
    BY <1>2, <1>3 DEF SettlesTo, GoesTo, LoopsTo, Rested
  <2> QED BY <1>2, <1>3, <2>1
<1>4. CASE GoesTo(f, g, "reclaim", f.next) /\ f.at = "count" /\ f.loot
  <2>1. Good(T, m, g)
    BY <1>4 DEF Good, GoesTo, Alike, More
  <2>2. Holds(g) = Rest(g, Kept(g)) /\ Holds(f) = Rest(f, Kept(f))
    BY <1>4 DEF GoesTo, Holds
  <2>3. Holds(g) = Holds(f)
    BY <1>4, <2>2 DEF GoesTo, Alike, Rest, Kept
  <2> QED BY <1>2, <1>4, <2>1, <2>3 DEF GoesTo, Rested
<1>5. CASE LoopsTo(f, g) /\ f.at \in {"count", "loop"} /\ ~f.loot
  <2>1. f.job \in T /\ m.steal = TRUE /\ f.dw = Null /\ f.job \in Works
    BY <1>5 DEF Good
  <2>2. Holds(f) = Rest(f, f.next)
    BY <1>5 DEF Holds, Kept
  <2>3. CASE ~More(f)
    <3>1. g.at \in {"drain", "joined"} /\ g.job \in T
      BY <1>5, <2>1, <2>3 DEF LoopsTo, GoesTo, Alike
    <3>2. Good(T, m, g)
      BY <2>1, <3>1 DEF Good
    <3>3. Holds(g) = {}
      BY <3>1 DEF Holds
    <3> QED BY <1>2, <1>5, <3>1, <3>2, <3>3 DEF Rested
  <2>4. CASE More(f)
    <3>1. /\ Alike(f, g) /\ g.next = f.next + 1 /\ g.dw = Next1(f)
          /\ g.at \in {"reserve", "direct"} /\ (g.at = "reserve" => More(g))
      BY <1>5, <2>4 DEF LoopsTo
    <3>2. g.job = f.job /\ ~g.loot
      BY <1>5, <3>1 DEF Alike
    <3>3. f.next \in 1..Len(Children[g.job]) /\ f.next < g.next /\ g.dw = Children[g.job][f.next]
      BY <2>1, <2>4, <3>1, <3>2, ChildFacts DEF More, Next1
    <3>4. Good(T, m, g)
      BY <2>1, <3>1, <3>2, <3>3 DEF Good
    <3>5. Holds(g) = {g.dw} \union Rest(g, g.next)
      BY <3>1, <3>2 DEF Holds, Kept
    <3>6. Holds(g) \subseteq Holds(f)
      BY <2>2, <3>1, <3>2, <3>3, <3>5 DEF Rest
    <3> QED BY <1>2, <1>5, <3>1, <3>4, <3>6 DEF Rested
  <2> QED BY <2>3, <2>4
<1>6. CASE GoesTo(f, g, "directly", 1) /\ f.at = "submit"
  <2>1. Good(T, m, g)
    <3>1. ArraysApart(g)
      BY <1>6 DEF Good, GoesTo, Alike, ArraysApart
    <3>2. g.at = "directly" /\ g.job \in T /\ m.steal # TRUE
      BY <1>6 DEF Good, GoesTo, Alike
    <3> QED BY <3>1, <3>2 DEF Good
  <2>2. Holds(g) = DirectFrom(g, 1) /\ DirectFrom(f, 1) \subseteq Holds(f)
    BY <1>6 DEF GoesTo, Holds
  <2>3. Holds(g) \subseteq Holds(f)
    BY <1>6, <2>2 DEF GoesTo, Alike, DirectFrom
  <2>4. g.next <= Len(g.direct)
    <3>1. g.direct # <<>> /\ g.next = 1
      BY <1>6 DEF Good, GoesTo, Alike
    <3> QED BY <1>2, <3>1, EmptySeq
  <2> QED BY <1>2, <1>6, <2>1, <2>3, <2>4 DEF GoesTo, Rested
<1>7. CASE (GoesTo(f, g, "joined", 1) \/ GoesTo(f, g, "joined", f.next)) /\ f.at \in JoinPlaces
  <2>1. g.at = "joined" /\ g.job \in T
    BY <1>7 DEF GoesTo, Alike, Good
  <2>2. Good(T, m, g)
    BY <2>1 DEF Good
  <2>3. Holds(g) = {}
    BY <2>1 DEF Holds
  <2> QED BY <1>2, <1>7, <2>1, <2>2, <2>3 DEF Rested
<1>8. CASE GoesTo(f, g, "await", 1) /\ f.at = "directly" /\ f.threaded # <<>>
  <2>1. g.at = "await" /\ g.job \in T /\ m.steal # TRUE
    BY <1>8 DEF GoesTo, Alike, Good
  <2>2. Good(T, m, g)
    BY <2>1 DEF Good
  <2>3. Holds(g) = {}
    BY <2>1 DEF Holds
  <2>4. g.next <= Len(g.threaded)
    <3>1. g.threaded # <<>> /\ g.next = 1
      BY <1>8 DEF GoesTo, Alike
    <3> QED BY <1>2, <3>1, EmptySeq
  <2> QED BY <1>2, <1>8, <2>1, <2>2, <2>3, <2>4 DEF Rested
<1>9. CASE GoesTo(f, g, "direct", f.next) /\ f.at = "reserve"
  <2>1. Good(T, m, g)
    BY <1>9 DEF Good, GoesTo, Alike
  <2>2. ~g.loot /\ ~f.loot
    BY <1>9 DEF Good, GoesTo, Alike
  <2>3. Holds(g) = {g.dw} \union Rest(g, g.next) /\ Holds(f) = {f.dw} \union Rest(f, f.next)
    BY <1>9, <2>2 DEF GoesTo, Holds, Kept
  <2>4. Holds(g) = Holds(f)
    BY <1>9, <2>3 DEF GoesTo, Alike, Rest
  <2> QED BY <1>2, <1>9, <2>1, <2>4 DEF GoesTo, Rested
<1>10. f.at = "loop" => ~f.loot
  BY DEF Good
<1> QED BY <1>2, <1>3, <1>4, <1>5, <1>6, <1>7, <1>8, <1>9, <1>10 DEF SettlesTo

-----------------------------------------------------------------------------
(* Stacks *)

(***************************************************************************)
(* The stacks s2 come after s by a step of t: its last frame became frame, *)
(* with a new one on top that holds works of X, or it is gone.             *)
(***************************************************************************)
After(t, frame, X, s, s2) ==
  \A u \in Threads : \A i \in 1..Len(s2[u]) :
    \/ (u # t \/ i < Len(s[t])) /\ i \in 1..Len(s[u]) /\ s2[u][i] = s[u][i]
    \/ /\ u = t /\ i = Len(s[t]) /\ Holds(s2[u][i]) \subseteq Holds(frame)
       /\ i = 1 => s2[u][i] = frame
    \/ u = t /\ i = Len(s[t]) + 1 /\ Holds(s2[u][i]) \subseteq X

(* The first frame of a thread is where it was put.                          *)
LEMMA FirstKept ==
  ASSUME NEW T \in SUBSET Works, NEW m, NEW t \in Threads,
         NEW f \in Frames, Good(T, m, f), PlaceOK(t, 1, f), NEW g \in Settled(f)
  PROVE  g = f
<1>1. f.at \notin JoinPlaces
  BY DEF PlaceOK, JoinPlaces, ClientPlaces, BusyPlaces, WordPlaces, StandardPlaces, LoopPlaces, PairPlaces
<1> QED BY <1>1, SettledKeeps

(* They do not offer a work either.                                          *)
LEMMA SettledOffers ==
  ASSUME NEW T \in SUBSET Works, NEW m, NEW f \in Frames, Good(T, m, f), NEW g \in Settled(f),
         ~Offering(f)
  PROVE  ~Offering(g)
<1>1. f.at \in {"loop", "count"} => f.job \in Works /\ f.dw = Null
  BY DEF Good, JoinPlaces, LoopPlaces
<1>2. SettlesTo(f, g)
  BY <1>1, SettledCases
<1>3. f.at \in {"loop", "reserve"} => ~f.loot
  BY DEF Good
<1>4. CASE g = f
  BY <1>4
<1>5. CASE LoopsTo(f, g) /\ ~f.loot
  BY <1>5 DEF LoopsTo, GoesTo, Alike, Offering
<1>6. CASE \E next : GoesTo(f, g, "directly", next) \/ GoesTo(f, g, "joined", next) \/ GoesTo(f, g, "await", next)
  BY <1>6 DEF GoesTo, Offering
<1>7. CASE f.at = "reserve" /\ GoesTo(f, g, "direct", f.next)
  BY <1>3, <1>7 DEF GoesTo, Alike, Offering
<1>8. CASE f.at = "count" /\ f.loot
  BY <1>8, FrameParts DEF Offering
<1> QED BY <1>2, <1>3, <1>4, <1>5, <1>6, <1>7, <1>8 DEF SettlesTo

(* A frame that settles is good again, and holds no more than before.        *)
LEMMA AtPlace ==
  ASSUME NEW T \in SUBSET Works, NEW m, NEW t \in Threads, NEW i \in Nat \ {0},
         NEW f \in Frames, Good(T, m, f), PlaceOK(t, i, f), NEW g \in Settled(f)
  PROVE  /\ g \in Frames /\ Good(T, m, g) /\ Rested(g) /\ Holds(g) \subseteq Holds(f)
         /\ PlaceOK(t, i, g)
<1>1. /\ g \in Frames /\ Good(T, m, g) /\ Rested(g) /\ Holds(g) \subseteq Holds(f)
      /\ g = f \/ (f.at \in JoinPlaces /\ g.at \in JoinPlaces)
  BY SettledKeeps
<1>2. CASE i = 1
  <2>1. PlaceOK(t, 1, f)
    BY <1>2
  <2>2. g = f
    BY <2>1, FirstKept
  <2> QED BY <1>1, <2>2
<1>3. CASE i # 1
  <2>1. t = Main => ~Offering(g)
    BY SettledOffers DEF PlaceOK
  <2> QED BY <1>1, <1>3, <2>1 DEF PlaceOK
<1> QED BY <1>2, <1>3

(* The stacks after the top frame changed.                                   *)
LEMMA BecomesAfter ==
  ASSUME NEW T \in SUBSET Works, NEW m, NEW s, StacksOK(T, m, s), NEW t \in Threads,
         s[t] # <<>>, NEW frame \in Frames, Good(T, m, frame),
         PlaceOK(t, Len(s[t]), frame), NEW f \in Settled(frame),
         NEW s2, s2 = [s EXCEPT ![t] = Front(@) \o <<f>>]
  PROVE  StacksOK(T, m, s2) /\ After(t, frame, {}, s, s2)
<1> DEFINE q == s[t]
           r == Front(q) \o <<f>>
           n == Len(q)
<1>1. q \in Seq(Frames) /\ q # <<>> /\ s \in [Threads -> Seq(Frames)]
  BY DEF StacksOK
<1>2. n \in Nat \ {0}
  BY <1>1, TopFacts
<1>3. /\ f \in Frames /\ Good(T, m, f) /\ Rested(f) /\ Holds(f) \subseteq Holds(frame)
      /\ PlaceOK(t, n, f) /\ (n = 1 => f = frame)
  <2>1. PlaceOK(t, n, frame)
    OBVIOUS
  <2> HIDE DEF n, q, r
  <2>2. /\ f \in Frames /\ Good(T, m, f) /\ Rested(f) /\ Holds(f) \subseteq Holds(frame)
        /\ PlaceOK(t, n, f)
    BY <1>2, <2>1, AtPlace
  <2>3. ASSUME n = 1
        PROVE  f = frame
    <3>1. PlaceOK(t, 1, frame)
      BY <2>1, <2>3
    <3> QED BY <3>1, FirstKept
  <2> QED BY <2>2, <2>3
<1>4. /\ r \in Seq(Frames) /\ Len(r) = n
      /\ \A i \in 1..n : r[i] = IF i = n THEN f ELSE q[i]
  BY <1>1, <1>3, Replaced
<1>5. s2 = [s EXCEPT ![t] = r]
  OBVIOUS
<1> HIDE DEF r
<1>6. s2 \in [Threads -> Seq(Frames)] /\ s2[t] = r /\ \A u \in Threads : u # t => s2[u] = s[u]
  BY <1>1, <1>4, <1>5
<1>7. \A i \in 1..n : Good(T, m, r[i]) /\ Rested(r[i]) /\ PlaceOK(t, i, r[i])
  BY <1>3, <1>4 DEF StacksOK
<1>8. StacksOK(T, m, s2)
  BY <1>4, <1>6, <1>7 DEF StacksOK
<1>9. After(t, frame, {}, s, s2)
  BY <1>2, <1>3, <1>4, <1>6 DEF After
<1> QED BY <1>8, <1>9

(* A frame that a join or a wait starts with.                                *)
Callable(c) == c.at \in JoinPlaces \union WordPlaces /\ ~Offering(c)

(* The stacks after a call.                                                  *)
LEMMA CallsAfter ==
  ASSUME NEW T \in SUBSET Works, NEW m, NEW s, StacksOK(T, m, s), NEW t \in Threads,
         s[t] # <<>>, NEW frame \in Frames, Good(T, m, frame),
         PlaceOK(t, Len(s[t]), frame), NEW f \in Settled(frame),
         NEW called \in Frames, Good(T, m, called),
         Callable(called), NEW c \in Settled(called),
         NEW s2, s2 = [s EXCEPT ![t] = Front(@) \o <<f, c>>]
  PROVE  StacksOK(T, m, s2) /\ After(t, frame, Holds(called), s, s2)
<1> DEFINE q == s[t]
           r == Front(q) \o <<f, c>>
           n == Len(q)
<1>1. q \in Seq(Frames) /\ q # <<>> /\ s \in [Threads -> Seq(Frames)]
  BY DEF StacksOK
<1>2. n \in Nat \ {0}
  BY <1>1, TopFacts
<1>3. /\ f \in Frames /\ Good(T, m, f) /\ Rested(f) /\ Holds(f) \subseteq Holds(frame)
      /\ PlaceOK(t, n, f) /\ (n = 1 => f = frame)
  <2>1. PlaceOK(t, n, frame)
    OBVIOUS
  <2> HIDE DEF n, q, r
  <2>2. /\ f \in Frames /\ Good(T, m, f) /\ Rested(f) /\ Holds(f) \subseteq Holds(frame)
        /\ PlaceOK(t, n, f)
    BY <1>2, <2>1, AtPlace
  <2>3. ASSUME n = 1
        PROVE  f = frame
    <3>1. PlaceOK(t, 1, frame)
      BY <2>1, <2>3
    <3> QED BY <3>1, FirstKept
  <2> QED BY <2>2, <2>3
<1>4. n + 1 \in Nat \ {0} /\ PlaceOK(t, n + 1, called)
  BY <1>2 DEF PlaceOK, Callable
<1>5. /\ c \in Frames /\ Good(T, m, c) /\ Rested(c) /\ Holds(c) \subseteq Holds(called)
      /\ PlaceOK(t, n + 1, c)
  <2> DEFINE k == n + 1
  <2>1. k \in Nat \ {0} /\ PlaceOK(t, k, called)
    BY <1>4
  <2> HIDE DEF k
  <2>2. /\ c \in Frames /\ Good(T, m, c) /\ Rested(c) /\ Holds(c) \subseteq Holds(called)
        /\ PlaceOK(t, k, c)
    BY <2>1, AtPlace
  <2> QED BY <2>2 DEF k
<1>6. /\ r \in Seq(Frames) /\ Len(r) = n + 1
      /\ \A i \in 1..n + 1 : r[i] = IF i = n + 1 THEN c ELSE IF i = n THEN f ELSE q[i]
  BY <1>1, <1>3, <1>5, Pushed
<1>7. s2 = [s EXCEPT ![t] = r]
  OBVIOUS
<1> HIDE DEF r
<1>8. s2 \in [Threads -> Seq(Frames)] /\ s2[t] = r /\ \A u \in Threads : u # t => s2[u] = s[u]
  BY <1>1, <1>6, <1>7
<1>9. \A i \in 1..n + 1 : Good(T, m, r[i]) /\ Rested(r[i]) /\ PlaceOK(t, i, r[i])
  <2>1. \A i \in 1..n : Good(T, m, q[i]) /\ Rested(q[i]) /\ PlaceOK(t, i, q[i])
    BY DEF StacksOK
  <2> HIDE DEF q, n
  <2> QED BY <1>2, <1>3, <1>5, <1>6, <2>1
<1>10. StacksOK(T, m, s2)
  BY <1>6, <1>8, <1>9 DEF StacksOK
<1>11. After(t, frame, Holds(called), s, s2)
  <2>1. n = Len(s[t]) /\ \A i \in 1..n : q[i] = s[t][i]
    OBVIOUS
  <2> SUFFICES ASSUME NEW u \in Threads, NEW i \in 1..Len(s2[u])
               PROVE  \/ (u # t \/ i < n) /\ i \in 1..Len(s[u]) /\ s2[u][i] = s[u][i]
                      \/ /\ u = t /\ i = n /\ Holds(s2[u][i]) \subseteq Holds(frame)
                         /\ i = 1 => s2[u][i] = frame
                      \/ u = t /\ i = n + 1 /\ Holds(s2[u][i]) \subseteq Holds(called)
    BY <2>1 DEF After
  <2> HIDE DEF q, n
  <2>2. CASE u # t
    BY <1>8, <2>2
  <2>3. CASE u = t
    <3>1. i \in 1..n + 1 /\ s2[u][i] = IF i = n + 1 THEN c ELSE IF i = n THEN f ELSE q[i]
      BY <1>6, <1>8, <2>3
    <3>2. i < n => i \in 1..Len(s[u]) /\ s2[u][i] = s[u][i]
      BY <1>2, <2>1, <2>3, <3>1
    <3> QED BY SMTT(60), <1>2, <1>3, <1>5, <2>3, <3>1, <3>2
  <2> QED BY <2>2, <2>3
<1> QED BY <1>10, <1>11

(* The stacks after a return.                                                *)
LEMMA ReturnsAfter ==
  ASSUME NEW T \in SUBSET Works, NEW m, NEW s, StacksOK(T, m, s), NEW t \in Threads,
         s[t] # <<>>, NEW s2, s2 = [s EXCEPT ![t] = Front(@)], NEW frame
  PROVE  StacksOK(T, m, s2) /\ After(t, frame, {}, s, s2)
<1> DEFINE q == s[t]
           r == Front(q)
           n == Len(q)
<1>1. q \in Seq(Frames) /\ q # <<>> /\ s \in [Threads -> Seq(Frames)]
  BY DEF StacksOK
<1>2. /\ n \in Nat \ {0} /\ r \in Seq(Frames) /\ Len(r) = n - 1
      /\ \A i \in 1..n - 1 : r[i] = q[i]
  BY <1>1, Prefix
<1>3. s2 = [s EXCEPT ![t] = r]
  OBVIOUS
<1> HIDE DEF r
<1>4. s2 \in [Threads -> Seq(Frames)] /\ s2[t] = r /\ \A u \in Threads : u # t => s2[u] = s[u]
  BY <1>1, <1>2, <1>3
<1>5. StacksOK(T, m, s2)
  BY SMTT(60), <1>2, <1>4 DEF StacksOK
<1>6. After(t, frame, {}, s, s2)
  BY <1>2, <1>4 DEF After
<1> QED BY <1>5, <1>6

(* Where a work can be after that.                                           *)
LEMMA AfterHas ==
  ASSUME NEW T \in SUBSET Works, NEW m, NEW s, StacksOK(T, m, s),
         NEW s2, StacksOK(T, m, s2), NEW t \in Threads, s[t] # <<>>,
         NEW frame, NEW X, After(t, frame, X, s, s2), NEW wk, NEW nw,
         frame.at = "wait" => wk[t] \notin Works,
         NEW u \in Threads, NEW i \in Int, NEW w \in Works, Has(s2, wk, nw, u, i, w)
  PROVE  \/ /\ Has(s, wk, nw, u, i, w)
            /\ ~(u = t /\ (i = Len(s[t]) \/ (i = 0 /\ Len(s[t]) = 1)))
         \/ u = t /\ i = Len(s[t]) /\ w \in Holds(frame)
         \/ u = t /\ i = Len(s[t]) + 1 /\ w \in X
<1>1. Len(s[t]) \in Nat \ {0} /\ Len(s[u]) \in Nat /\ Len(s2[u]) \in Nat
  BY TopFacts DEF StacksOK
<1>2. CASE i \in 1..Len(s2[u]) /\ w \in Holds(s2[u][i])
  BY <1>1, <1>2 DEF After, Has
<1>3. CASE i = 0 /\ u \in Workers /\ s2[u] # <<>> /\ s2[u][1].at = "wait" /\ wk[u] = w
  <2>1. 1 \in 1..Len(s2[u])
    BY <1>1, <1>3, EmptySeq DEF StacksOK
  <2>2. CASE (u # t \/ 1 < Len(s[t])) /\ 1 \in 1..Len(s[u]) /\ s2[u][1] = s[u][1]
    <3>1. s[u] # <<>> /\ s[u][1].at = "wait"
      BY <1>3, <2>2, EmptySeq DEF StacksOK
    <3>2. ~(u = t /\ (i = Len(s[t]) \/ (i = 0 /\ Len(s[t]) = 1)))
      <4> DEFINE n == Len(s[t])
      <4>1. n \in Nat \ {0} /\ i = 0 /\ (u # t \/ 1 < n)
        BY <1>1, <1>3, <2>2
      <4> HIDE DEF n
      <4>2. ~(u = t /\ (i = n \/ (i = 0 /\ n = 1)))
        BY <4>1
      <4> QED BY <4>2 DEF n
    <3>3. Has(s, wk, nw, u, i, w)
      BY <1>3, <3>1 DEF Has
    <3> QED BY <3>2, <3>3
  <2>3. CASE u = t /\ 1 = Len(s[t]) /\ s2[u][1] = frame
    BY <1>3, <2>3
  <2>4. \/ (u # t \/ 1 < Len(s[t])) /\ 1 \in 1..Len(s[u]) /\ s2[u][1] = s[u][1]
        \/ u = t /\ 1 = Len(s[t]) /\ s2[u][1] = frame
        \/ u = t /\ 1 = Len(s[t]) + 1
    BY <2>1 DEF After
  <2> QED BY <1>1, <2>2, <2>3, <2>4
<1>4. CASE i = -1 /\ u \in Workers /\ nw[u] = w
  BY <1>1, <1>4 DEF Has
<1> QED BY <1>2, <1>3, <1>4 DEF Has

(* The first frame of a thread after that.                                   *)
FirstAfter(t, frame, s, s2, u) ==
  /\ s[u] # <<>>
  /\ u = t /\ Len(s[t]) = 1 => s2[u][1] = frame
  /\ ~(u = t /\ Len(s[t]) = 1) => s2[u][1] = s[u][1]

(* The first frame of a thread after a step.                                 *)
LEMMA AfterFirst ==
  ASSUME NEW T \in SUBSET Works, NEW m, NEW s, StacksOK(T, m, s),
         NEW s2, StacksOK(T, m, s2), NEW t \in Threads, s[t] # <<>>,
         NEW frame, NEW X, After(t, frame, X, s, s2),
         NEW u \in Threads, s2[u] # <<>>
  PROVE  FirstAfter(t, frame, s, s2, u)
<1>1. Len(s[t]) \in Nat \ {0} /\ Len(s[u]) \in Nat /\ 1 \in 1..Len(s2[u])
  BY TopFacts, EmptySeq DEF StacksOK
<1>2. Len(s[u]) # 0 => s[u] # <<>>
  BY EmptySeq DEF StacksOK
<1>3. \/ (u # t \/ 1 < Len(s[t])) /\ 1 \in 1..Len(s[u]) /\ s2[u][1] = s[u][1]
      \/ u = t /\ 1 = Len(s[t]) /\ s2[u][1] = frame
      \/ u = t /\ 1 = Len(s[t]) + 1
  BY <1>1 DEF After
<1>4. CASE u = t /\ 1 = Len(s[t]) /\ s2[u][1] = frame
  BY <1>4 DEF FirstAfter
<1>5. CASE (u # t \/ 1 < Len(s[t])) /\ 1 \in 1..Len(s[u]) /\ s2[u][1] = s[u][1]
  <2> DEFINE n == Len(s[t])
             k == Len(s[u])
  <2>1. n \in Nat /\ k \in Nat /\ 1 \in 1..k /\ (u # t \/ 1 < n)
    BY <1>1, <1>5
  <2> HIDE DEF n, k
  <2>2. k # 0 /\ ~(u = t /\ n = 1)
    BY <2>1
  <2> QED BY <1>2, <1>5, <2>2 DEF n, k, FirstAfter
<1> QED BY <1>1, <1>3, <1>4, <1>5


-----------------------------------------------------------------------------
(* Works and the places where they are *)

(* A work is held where a place has it.                                      *)
LEMMA HeldFacts ==
  ASSUME NEW s, NEW wk, NEW nw, NEW u \in Threads, NEW i \in Int, NEW w \in Works
  PROVE  <<u, i, w>> \in HeldIn(s, wk, nw) <=> Has(s, wk, nw, u, i, w)
BY DEF HeldIn

(* The parts of a place where a work is held.                                *)
LEMMA HeldParts ==
  ASSUME NEW s, NEW wk, NEW nw, NEW x \in HeldIn(s, wk, nw)
  PROVE  /\ x[1] \in Threads /\ x[2] \in Int /\ x[3] \in Works
         /\ Has(s, wk, nw, x[1], x[2], x[3]) /\ x = <<x[1], x[2], x[3]>>
BY DEF HeldIn

(* A set of places, and the counts of the works.                             *)
Triples == Threads \X Int \X Works

(* The works that w joins; one more work is started.                         *)
WorksOf(w) == {Children[w][i] : i \in 1..Len(Children[w])}
Started1(S, S2, w) == S2 = [S EXCEPT ![w] = @ + 1]

(* Works that are at fewer places still are at one place each.               *)
LEMMA TokensKept ==
  ASSUME NEW T \in SUBSET Works, NEW H, NEW S, Tokens(T, H, S), NEW H2, H2 \subseteq H
  PROVE  Tokens(T, H2, S)
BY DEF Tokens

(* A work goes from the place a to the place b.                              *)
LEMMA TokensMoved ==
  ASSUME NEW T \in SUBSET Works, NEW H, NEW S, Tokens(T, H, S), NEW a \in H,
         NEW b, b[3] = a[3], NEW H2, \A x \in H2 : (x \in H /\ x # a) \/ x = b
  PROVE  Tokens(T, H2, S)
<1>1. \A x, y \in H2 : x[3] = y[3] => x = y
  BY DEF Tokens
<1>2. \A x \in H2 : x[3] \in T /\ S[x[3]] = 0
  BY DEF Tokens
<1>3. ASSUME NEW p \in T, S[p] = 0, NEW i \in 1..Len(Children[p])
      PROVE  S[Children[p][i]] = 0 /\ \A x \in H2 : x[3] # Children[p][i]
  BY <1>3 DEF Tokens
<1> QED BY <1>1, <1>2, <1>3 DEF Tokens

(* The work at the place a is executed, and its works are at one new place.  *)
LEMMA TokensExecuted ==
  ASSUME NEW T \in SUBSET Works, NEW root, IsTree(T, root),
         NEW H \in SUBSET Triples, NEW S \in [Works -> Nat], Tokens(T, H, S),
         NEW a \in H, NEW w \in Works, w = a[3], NEW u, NEW k,
         NEW H2 \in SUBSET Triples,
         \A x \in H2 : \/ x \in H /\ x # a
                       \/ /\ x[1] = u /\ x[2] = k
                          /\ x[3] \in WorksOf(w),
         NEW S2, Started1(S, S2, w)
  PROVE  Tokens(T, H2, S2)
<1>1. w \in T /\ S[w] = 0 /\ \A x \in H : x[3] = w => x = a
  BY DEF Tokens
<1>2. S2[w] = 1 /\ \A v \in Works : v # w => S2[v] = S[v]
  BY <1>1 DEF Started1
<1>3. ASSUME NEW i \in 1..Len(Children[w])
      PROVE  /\ S[Children[w][i]] = 0 /\ Children[w][i] \in T /\ Children[w][i] # w
             /\ \A x \in H : x[3] # Children[w][i]
  <2>1. S[Children[w][i]] = 0 /\ \A x \in H : x[3] # Children[w][i]
    BY <1>1 DEF Tokens
  <2>2. Children[w][i] \in T
    BY <1>1, ChildFacts DEF IsTree
  <2> QED BY <2>1, <2>2
<1>4. ASSUME NEW x \in H2
      PROVE  \/ x \in H /\ x[3] # w
             \/ /\ x = <<u, k, x[3]>>
                /\ \E i \in 1..Len(Children[w]) : x[3] = Children[w][i]
  <2>1. x = <<x[1], x[2], x[3]>>
    BY DEF Triples
  <2> QED BY <1>1, <2>1 DEF WorksOf
<1>5. \A x, y \in H2 : x[3] = y[3] => x = y
  BY <1>3, <1>4 DEF Tokens
<1>6. \A x \in H2 : x[3] \in T /\ S2[x[3]] = 0
  <2> TAKE x \in H2
  <2>1. x[3] \in Works /\ x[3] \in T /\ x[3] # w /\ S[x[3]] = 0
    BY <1>3, <1>4 DEF Tokens
  <2> QED BY <1>2, <2>1
<1>7. ASSUME NEW p \in T, S2[p] = 0, NEW i \in 1..Len(Children[p])
      PROVE  S2[Children[p][i]] = 0 /\ \A x \in H2 : x[3] # Children[p][i]
  <2>1. p # w /\ S[p] = 0
    BY <1>2, <1>7
  <2>2. S[Children[p][i]] = 0 /\ \A x \in H : x[3] # Children[p][i]
    BY <2>1 DEF Tokens
  <2>3. Children[p][i] # w /\ Children[p][i] \in Works
    BY <2>2, ChildFacts
  <2>4. \A j \in 1..Len(Children[w]) : Children[w][j] # Children[p][i]
    <3>1. DOMAIN Children[p] = 1..Len(Children[p]) /\ DOMAIN Children[w] = 1..Len(Children[w])
      BY ChildFacts
    <3> QED BY <1>1, <2>1, <3>1 DEF IsTree
  <2> QED BY <1>2, <1>4, <2>2, <2>3, <2>4
<1>8. \A v \in Works : S2[v] <= 1
  BY <1>2 DEF Tokens
<1> QED BY <1>5, <1>6, <1>7, <1>8 DEF Tokens


-----------------------------------------------------------------------------
(* The frames that are called *)

(* A new frame.                                                              *)
LEMMA BaseFrames ==
  ASSUME NEW at \in Places, NEW job \in AnyJobs
  PROVE  Frame(at, job) \in Frames
<1>1. /\ <<>> \in AnyWords /\ <<>> \in Assigns /\ <<>> \in Seq(Works) /\ Null \in AnyJobs
      /\ Main \in Threads
  BY Threads0 DEF AnyWords, Assigns, AnyJobs
<1> QED BY <1>1 DEF Frame, Frames

(* A call of fpost or fwait holds no work and offers none.                   *)
LEMMA WordFrames ==
  ASSUME NEW T, NEW m, NEW at \in {"post", "fwait"}, NEW f \in Words
  PROVE  /\ WordFrame(at, f) \in Frames /\ Good(T, m, WordFrame(at, f))
         /\ Callable(WordFrame(at, f))
         /\ Holds(WordFrame(at, f)) = {}
<1> DEFINE b == Frame(at, Null)
           g == [b EXCEPT !.word = f]
<1>1. b \in Frames /\ b.at = at
  <2>1. at \in Places /\ Null \in AnyJobs
    BY DEF Places, AnyJobs
  <2>2. b \in Frames
    BY <2>1, BaseFrames
  <2> QED BY <2>2 DEF Frame
<1>2. WordFrame(at, f) = g
  BY DEF WordFrame
<1> HIDE DEF b
<1>3. g \in Frames /\ g.at = at /\ g.word = f
  BY <1>1 DEF Frames, AnyWords
<1> HIDE DEF g
<1>4. Good(T, m, g)
  BY <1>3 DEF Good, JoinPlaces, BusyPlaces, WordPlaces, StandardPlaces, LoopPlaces, PairPlaces
<1>5. Holds(g) = {}
  BY <1>3 DEF Holds
<1>6. Callable(g)
  BY <1>3 DEF Callable, Offering, WordPlaces
<1> QED BY <1>2, <1>3, <1>4, <1>5, <1>6

(* The function of a work has all of its works to join.                      *)
LEMMA JoinFrames ==
  ASSUME NEW T \in SUBSET Works, NEW w \in T, steal \in BOOLEAN, NEW m, m.steal = steal
  PROVE  /\ Frame(JoinPlace(w), w) \in Frames /\ Good(T, m, Frame(JoinPlace(w), w))
         /\ Callable(Frame(JoinPlace(w), w))
         /\ Holds(Frame(JoinPlace(w), w)) \subseteq WorksOf(w)
<1> DEFINE p == JoinPlace(w)
           f == Frame(p, w)
<1>1. Children[w] \in Seq(Works) /\ Len(Children[w]) \in Nat /\ (Children[w] = <<>> <=> Len(Children[w]) = 0)
  BY ChildFacts, EmptySeq
<1>2. \/ p = "joined"
      \/ p = "single" /\ ~steal /\ Len(Children[w]) = 1
      \/ p = "assign" /\ ~steal /\ Len(Children[w]) > 1
      \/ p = "pair" /\ steal /\ Len(Children[w]) = 2
      \/ p = "loop" /\ steal
  <2>1. CASE Children[w] = <<>>
    BY <2>1 DEF JoinPlace
  <2>2. CASE Children[w] # <<>> /\ steal
    <3>1. CASE Len(Children[w]) = 2
      BY <2>2, <3>1 DEF JoinPlace
    <3>2. CASE Len(Children[w]) # 2
      BY <2>2, <3>2 DEF JoinPlace
    <3> QED BY <3>1, <3>2
  <2>3. CASE Children[w] # <<>> /\ ~steal
    <3>1. Len(Children[w]) = 1 \/ Len(Children[w]) > 1
      <4>1. Len(Children[w]) # 0
        BY <1>1, <2>3
      <4> DEFINE k == Len(Children[w])
      <4>2. k \in Nat /\ k # 0
        BY <1>1, <4>1
      <4> HIDE DEF k
      <4>3. k = 1 \/ k > 1
        BY <4>2
      <4> QED BY <4>3 DEF k
    <3>2. CASE Len(Children[w]) = 1
      BY <2>3, <3>2 DEF JoinPlace
    <3>3. CASE Len(Children[w]) > 1
      BY <1>1, <2>3, <3>3 DEF JoinPlace
    <3> QED BY <3>1, <3>2, <3>3
  <2> QED BY <2>1, <2>2, <2>3
<1> HIDE DEF p
<1>3. p \in Places /\ w \in AnyJobs /\ p \in JoinPlaces
  BY <1>2 DEF Places, AnyJobs, JoinPlaces, StandardPlaces, LoopPlaces, PairPlaces
<1>4. /\ f \in Frames /\ f.at = p /\ f.job = w /\ f.next = 1 /\ f.dw = Null /\ f.tw = Main /\ ~f.loot
      /\ f.threaded = <<>> /\ f.direct = <<>>
  <2>1. f \in Frames
    BY <1>3, BaseFrames
  <2> QED BY <2>1 DEF Frame
<1> HIDE DEF f
<1>5. ThreadedFrom(f, 1) = {} /\ DirectFrom(f, 1) = {} /\ ArraysApart(f) /\ Assigned(f, 1)
  BY <1>4 DEF ThreadedFrom, DirectFrom, ArraysApart, Assigned
<1>6. Good(T, m, f)
  <2>2. Rest(f, f.next) \intersect (ThreadedFrom(f, 1) \union DirectFrom(f, 1)) = {}
    BY <1>5
  <2>3. p = "joined" => Good(T, m, f)
    BY <1>4 DEF Good, JoinPlaces, BusyPlaces, WordPlaces, StandardPlaces, LoopPlaces, PairPlaces
  <2>4. p = "single" /\ ~steal /\ Len(Children[w]) = 1 => Good(T, m, f)
    BY <1>4 DEF Good, JoinPlaces, BusyPlaces, WordPlaces, StandardPlaces, LoopPlaces, PairPlaces
  <2>5. p = "assign" /\ ~steal /\ Len(Children[w]) > 1 => Good(T, m, f)
    <3> SUFFICES ASSUME p = "assign", ~steal, Len(Children[w]) > 1
                 PROVE  Good(T, m, f)
      OBVIOUS
    <3>1. f.at = "assign" /\ f.job \in T /\ ~(f.next > 1) /\ Len(Children[f.job]) > 1
      BY <1>4
    <3> QED BY <1>5, <2>2, <3>1 DEF Good, JoinPlaces, BusyPlaces, WordPlaces, StandardPlaces, LoopPlaces, PairPlaces
  <2>6. p = "pair" /\ steal /\ Len(Children[w]) = 2 => Good(T, m, f)
    BY <1>4 DEF Good, JoinPlaces, BusyPlaces, WordPlaces, StandardPlaces, LoopPlaces, PairPlaces
  <2>7. p = "loop" /\ steal => Good(T, m, f)
    BY <1>4 DEF Good, JoinPlaces, BusyPlaces, WordPlaces, StandardPlaces, LoopPlaces, PairPlaces
  <2> QED BY <1>2, <2>3, <2>4, <2>5, <2>6, <2>7
<1>7. Rest(f, 1) = WorksOf(w)
  BY <1>4 DEF Rest, WorksOf
<1>8. Holds(f) \subseteq Rest(f, 1)
  <2>1. p = "joined" => Holds(f) = {}
    BY <1>4 DEF Holds
  <2>2. p \in {"single", "pair"} => Holds(f) = Rest(f, 1)
    BY <1>4 DEF Holds
  <2>3. p = "assign" => Holds(f) = Rest(f, 1)
    BY <1>4, <1>5 DEF Holds
  <2>4. p = "loop" => Holds(f) = Rest(f, 1)
    BY <1>4 DEF Holds
  <2> QED BY <1>2, <2>1, <2>2, <2>3, <2>4
<1>9. f = Frame(JoinPlace(w), w)
  BY DEF f, p
<1>10. Callable(f)
  BY <1>2, <1>3, <1>4 DEF Callable, Offering
<1> QED BY <1>3, <1>4, <1>6, <1>7, <1>8, <1>9, <1>10

-----------------------------------------------------------------------------
(* Steps on the stacks *)

(* The top frame of a thread that runs, and what its place tells of it.      *)
LEMMA Running0 ==
  ASSUME NEW T \in SUBSET Works, NEW m, StacksOK(T, m, stack), NEW t \in Threads, Running(t)
  PROVE  /\ stack[t] \in Seq(Frames) /\ stack[t] # <<>>
         /\ Len(stack[t]) \in Nat \ {0} /\ Top(t) = stack[t][Len(stack[t])] /\ Top(t) \in Frames
         /\ Good(T, m, Top(t)) /\ Rested(Top(t)) /\ PlaceOK(t, Len(stack[t]), Top(t))
<1>1. stack[t] \in Seq(Frames) /\ stack[t] # <<>>
  BY DEF StacksOK, Running
<1>2. Len(stack[t]) \in Nat \ {0} /\ Last(stack[t]) = stack[t][Len(stack[t])] /\ Last(stack[t]) \in Frames
  BY <1>1, TopFacts
<1>3. Len(stack[t]) \in 1..Len(stack[t])
  BY <1>2
<1> QED BY <1>1, <1>2, <1>3 DEF StacksOK, Top

(* The place of a frame tells its level in the stack, and the kind of        *)
(* thread.                                                                   *)
LEMMA Levels ==
  ASSUME NEW t \in Threads, NEW n \in Nat \ {0}, NEW f, PlaceOK(t, n, f)
  PROVE  /\ f.at \in BusyPlaces \union {"wait"} => n = 1 /\ t \in Workers
         /\ f.at \in ClientPlaces => n = 1 /\ t = Main
         /\ f.at \in JoinPlaces \union WordPlaces => n > 1
         /\ t = Main => ~Offering(f)
<1> DEFINE B == BusyPlaces \union {"wait"}
           C == ClientPlaces
           J == JoinPlaces \union WordPlaces
<1>0. (f.at \notin B \/ f.at \notin C) /\ (f.at \notin B \/ f.at \notin J) /\ (f.at \notin C \/ f.at \notin J)
  BY DEF JoinPlaces, StandardPlaces, LoopPlaces, PairPlaces, BusyPlaces, ClientPlaces, WordPlaces
<1>5. /\ n = 1 /\ t = Main => f.at \in C
      /\ n = 1 /\ t # Main => f.at \in B
      /\ n > 1 => f.at \in J
  BY DEF PlaceOK
<1> HIDE DEF B, C, J
<1>1. f.at \in B => n = 1 /\ t # Main
  BY <1>0, <1>5
<1>2. f.at \in C => n = 1 /\ t = Main
  BY <1>0, <1>5
<1>3. f.at \in J => n > 1
  BY <1>0, <1>5
<1>4. t # Main => t \in Workers
  BY DEF Threads
<1>6. t = Main => ~Offering(f)
  BY DEF PlaceOK
<1> QED BY <1>1, <1>2, <1>3, <1>4, <1>6 DEF B, C, J

(* The same of the action Becomes.                                           *)
LEMMA BecomesStep ==
  ASSUME NEW T \in SUBSET Works, NEW m, StacksOK(T, m, stack), NEW t \in Threads, stack[t] # <<>>,
         NEW frame \in Frames, Good(T, m, frame), PlaceOK(t, Len(stack[t]), frame),
         Becomes(t, frame)
  PROVE  StacksOK(T, m, stack') /\ After(t, frame, {}, stack, stack')
<1>1. PICK f \in Settled(frame) : stack' = [stack EXCEPT ![t] = Front(@) \o <<f>>]
  BY DEF Becomes
<1> QED BY <1>1, BecomesAfter

(* The same of the action Calls.                                             *)
LEMMA CallsStep ==
  ASSUME NEW T \in SUBSET Works, NEW m, StacksOK(T, m, stack), NEW t \in Threads, stack[t] # <<>>,
         NEW frame \in Frames, Good(T, m, frame), PlaceOK(t, Len(stack[t]), frame),
         NEW called \in Frames, Good(T, m, called),
         Callable(called), Calls(t, frame, called)
  PROVE  StacksOK(T, m, stack') /\ After(t, frame, Holds(called), stack, stack')
<1>1. PICK f \in Settled(frame) : \E c \in Settled(called) :
             stack' = [stack EXCEPT ![t] = Front(@) \o <<f, c>>]
  BY DEF Calls
<1>2. PICK c \in Settled(called) : stack' = [stack EXCEPT ![t] = Front(@) \o <<f, c>>]
  BY <1>1
<1> QED BY <1>2, CallsAfter

(* The same of the action Returns.                                           *)
LEMMA ReturnsStep ==
  ASSUME NEW T \in SUBSET Works, NEW m, StacksOK(T, m, stack), NEW t \in Threads, stack[t] # <<>>,
         NEW frame, Returns(t)
  PROVE  StacksOK(T, m, stack') /\ After(t, frame, {}, stack, stack')
BY ReturnsAfter DEF Returns


-----------------------------------------------------------------------------
(* Steps on the works *)

(* The thread t that took a step, and has one frame only, has its work still. *)
WorkKept(t, frame, s, wk2) ==
  t \in Workers /\ Len(s[t]) = 1 => frame.at = "wait" \/ wk2[t] \in {frame.dw, Shutdown}

(* The works that the other threads have stay, unless they wait or ended.     *)
WorksStay(t, s, wk, wk2) ==
  \A u \in Workers : \/ wk2[u] \in {wk[u], Shutdown}
                     \/ s[u] = <<>> \/ s[u][1].at = "wait"
                     \/ u = t /\ Len(s[t]) = 1

(* The workers that do not wait still have the works they execute.           *)
LEMMA BusyKept ==
  ASSUME NEW T \in SUBSET Works, NEW m, NEW s, StacksOK(T, m, s),
         NEW s2, StacksOK(T, m, s2), NEW t \in Threads, s[t] # <<>>,
         NEW frame, NEW X, After(t, frame, X, s, s2),
         NEW wk, Busy(s, wk), NEW wk2, WorkKept(t, frame, s, wk2),
         WorksStay(t, s, wk, wk2)
  PROVE  Busy(s2, wk2)
<1> SUFFICES ASSUME NEW u \in Workers, s2[u] # <<>>, s2[u][1].at # "wait"
             PROVE  wk2[u] \in {s2[u][1].dw, Shutdown}
  BY DEF Busy
<1>1. u \in Threads
  BY Threads0
<1>2. FirstAfter(t, frame, s, s2, u)
  BY <1>1, AfterFirst
<1>3. CASE u = t /\ Len(s[t]) = 1
  BY <1>2, <1>3 DEF WorkKept, FirstAfter
<1>4. CASE ~(u = t /\ Len(s[t]) = 1)
  BY <1>2, <1>4 DEF Busy, WorksStay, FirstAfter
<1> QED BY <1>3, <1>4

(* A thread that has no work yet waits.                                      *)
LEMMA WaitsIfNull ==
  ASSUME NEW T \in SUBSET Works, NEW m, NEW s, StacksOK(T, m, s), NEW wk, Busy(s, wk),
         NEW v \in Workers, wk[v] = Null
  PROVE  s[v] = <<>> \/ s[v][1].at = "wait"
<1> SUFFICES ASSUME s[v] # <<>>, s[v][1].at # "wait"
             PROVE  FALSE
  OBVIOUS
<1>1. v \in Threads /\ v # Main
  BY Threads0
<1>2. s[v] \in Seq(Frames) /\ Len(s[v]) \in Nat \ {0}
  BY <1>1, TopFacts DEF StacksOK
<1>3. 1 \in 1..Len(s[v])
  BY <1>2
<1>4. Good(T, m, s[v][1]) /\ PlaceOK(v, 1, s[v][1])
  BY <1>1, <1>3 DEF StacksOK
<1>5. s[v][1].at \in BusyPlaces
  BY <1>1, <1>4 DEF PlaceOK
<1>6. s[v][1].dw \in Works
  BY <1>4, <1>5 DEF Good
<1>7. wk[v] \in {s[v][1].dw, Shutdown}
  BY DEF Busy
<1> QED BY <1>6, <1>7, Words0

(* Where the works are after a step of t.                                    *)
PlacesAfter(t, frame, X, s, H, x) ==
  \/ x \in H /\ ~(x[1] = t /\ (x[2] = Len(s[t]) \/ (x[2] = 0 /\ Len(s[t]) = 1)))
  \/ x = <<t, Len(s[t]), x[3]>> /\ x[3] \in Holds(frame)
  \/ x = <<t, Len(s[t]) + 1, x[3]>> /\ x[3] \in X

(* Where a work is held after a step, in terms of where it was before.       *)
LEMMA HeldAfter ==
  ASSUME NEW T \in SUBSET Works, NEW m, NEW s, StacksOK(T, m, s),
         NEW s2, StacksOK(T, m, s2), NEW t \in Threads, s[t] # <<>>,
         NEW frame, NEW X, After(t, frame, X, s, s2), NEW wk, NEW nw,
         frame.at = "wait" => wk[t] \notin Works, NEW x \in HeldIn(s2, wk, nw)
  PROVE  PlacesAfter(t, frame, X, s, HeldIn(s, wk, nw), x)
<1> DEFINE u == x[1]
           i == x[2]
           w == x[3]
           n == Len(s[t])
<1>1. u \in Threads /\ i \in Int /\ w \in Works /\ Has(s2, wk, nw, u, i, w) /\ x = <<u, i, w>>
  BY HeldParts
<1> HIDE DEF u, i, w
<1>2. \/ /\ Has(s, wk, nw, u, i, w)
         /\ ~(u = t /\ (i = Len(s[t]) \/ (i = 0 /\ Len(s[t]) = 1)))
      \/ u = t /\ i = Len(s[t]) /\ w \in Holds(frame)
      \/ u = t /\ i = Len(s[t]) + 1 /\ w \in X
  BY <1>1, AfterHas
<1>3. Has(s, wk, nw, u, i, w) => x \in HeldIn(s, wk, nw)
  BY <1>1, HeldFacts
<1>5. \/ Has(s, wk, nw, u, i, w) /\ ~(u = t /\ (i = n \/ (i = 0 /\ n = 1)))
      \/ u = t /\ i = n /\ w \in Holds(frame)
      \/ u = t /\ i = n + 1 /\ w \in X
  BY <1>2
<1> HIDE DEF n
<1>4. \/ x \in HeldIn(s, wk, nw) /\ ~(u = t /\ (i = n \/ (i = 0 /\ n = 1)))
      \/ x = <<t, n, w>> /\ w \in Holds(frame)
      \/ x = <<t, n + 1, w>> /\ w \in X
  BY <1>1, <1>3, <1>5
<1> QED BY <1>4 DEF u, i, w, n, PlacesAfter

(* The works of a frame are where it is.                                     *)
LEMMA HeldByFrame ==
  ASSUME NEW T \in SUBSET Works, NEW m, NEW s, StacksOK(T, m, s),
         NEW t \in Threads, s[t] # <<>>, NEW wk, NEW nw,
         NEW w \in Works, w \in Holds(s[t][Len(s[t])])
  PROVE  <<t, Len(s[t]), w>> \in HeldIn(s, wk, nw)
<1>1. Len(s[t]) \in Nat \ {0}
  BY TopFacts DEF StacksOK
<1>2. Len(s[t]) \in Int /\ Len(s[t]) \in 1..Len(s[t])
  BY <1>1
<1> QED BY <1>2 DEF HeldIn, Has


(* A step that adds no work to any place.                                    *)
WorksGo(t, s, wk, wk2) ==
  \A u \in Workers : \/ wk2[u] \in {wk[u], Shutdown}
                     \/ wk2[u] = Null /\ s[u] = <<>>
                     \/ u = t /\ Len(s[t]) = 1

(* A step that hands no work over and takes none keeps the works at their    *)
(* places.                                                                   *)
LEMMA KeepCore ==
  ASSUME NEW T \in SUBSET Works, NEW m, NEW s, NEW wk, NEW nw, NEW S, CoreOf(T, m, s, wk, nw, S),
         NEW s2, StacksOK(T, m, s2), NEW t \in Threads, s[t] # <<>>,
         NEW frame, After(t, frame, {}, s, s2),
         Holds(frame) \subseteq Holds(s[t][Len(s[t])]),
         NEW wk2, WorkKept(t, frame, s, wk2), frame.at = "wait" => wk2[t] \notin Works,
         WorksGo(t, s, wk, wk2)
  PROVE  CoreOf(T, m, s2, wk2, nw, S)
<1>1. StacksOK(T, m, s) /\ Busy(s, wk) /\ Tokens(T, HeldIn(s, wk, nw), S)
  BY DEF CoreOf
<1>2. Busy(s2, wk2)
  <2>1. WorksStay(t, s, wk, wk2)
    BY DEF WorksStay, WorksGo
  <2> QED BY <1>1, <2>1, BusyKept
<1>3. ASSUME NEW x \in HeldIn(s2, wk2, nw)
      PROVE  x \in HeldIn(s, wk, nw)
  <2>1. /\ x[1] \in Threads /\ x[2] \in Int /\ x[3] \in Works /\ x = <<x[1], x[2], x[3]>>
    BY HeldParts
  <2>2. CASE /\ x \in HeldIn(s, wk2, nw)
             /\ ~(x[1] = t /\ (x[2] = Len(s[t]) \/ (x[2] = 0 /\ Len(s[t]) = 1)))
    <3>1. Has(s, wk2, nw, x[1], x[2], x[3])
      BY <2>2, HeldParts
    <3>2. Has(s, wk, nw, x[1], x[2], x[3])
      <4>1. CASE x[2] = 0 /\ x[1] \in Workers /\ s[x[1]] # <<>> /\ s[x[1]][1].at = "wait" /\ wk2[x[1]] = x[3]
        <5>1. ~(x[1] = t /\ Len(s[t]) = 1)
          BY <2>2, <4>1
        <5>2. wk[x[1]] = x[3]
          BY <2>1, <4>1, <5>1, Words0 DEF WorksGo
        <5> QED BY <4>1, <5>2 DEF Has
      <4> QED BY <3>1, <4>1 DEF Has
    <3> QED BY <2>1, <3>2 DEF HeldIn
  <2>3. CASE x = <<t, Len(s[t]), x[3]>> /\ x[3] \in Holds(frame)
    <3>1. x[3] \in Holds(s[t][Len(s[t])])
      BY <2>3
    <3>2. <<t, Len(s[t]), x[3]>> \in HeldIn(s, wk, nw)
      BY <1>1, <2>1, <3>1, HeldByFrame
    <3> QED BY <2>3, <3>2
  <2>4. PlacesAfter(t, frame, {}, s, HeldIn(s, wk2, nw), x)
    BY <1>1, HeldAfter
  <2> QED BY <2>2, <2>3, <2>4 DEF PlacesAfter
<1>4. Tokens(T, HeldIn(s2, wk2, nw), S)
  BY <1>1, <1>3, TokensKept
<1> QED BY <1>2, <1>4 DEF CoreOf

(* The top frame of t hands the work w over to the thread v.                 *)
LEMMA HandCore ==
  ASSUME NEW T \in SUBSET Works, NEW m, NEW s, NEW wk \in [Workers -> Works \union {Null, Shutdown}],
         NEW nw, NEW S, CoreOf(T, m, s, wk, nw, S),
         NEW s2, StacksOK(T, m, s2), NEW t \in Threads, s[t] # <<>>, Len(s[t]) # 1,
         NEW frame, After(t, frame, {}, s, s2), frame.at # "wait",
         NEW w \in Works, w \in Holds(s[t][Len(s[t])]),
         Holds(frame) \subseteq Holds(s[t][Len(s[t])]) \ {w},
         NEW v \in Workers, wk[v] = Null, NEW wk2, wk2 = [wk EXCEPT ![v] = w]
  PROVE  CoreOf(T, m, s2, wk2, nw, S)
<1>1. StacksOK(T, m, s) /\ Busy(s, wk) /\ Tokens(T, HeldIn(s, wk, nw), S)
  BY DEF CoreOf
<1>2. Busy(s2, wk2)
  <2>1. WorkKept(t, frame, s, wk2)
    BY DEF WorkKept
  <2>2. s[v] = <<>> \/ s[v][1].at = "wait"
    BY <1>1, WaitsIfNull
  <2>3. WorksStay(t, s, wk, wk2)
    BY <2>2 DEF WorksStay
  <2> QED BY <1>1, <2>1, <2>3, BusyKept
<1> DEFINE a == <<t, Len(s[t]), w>>
           b == <<v, 0, w>>
<1>3. a \in HeldIn(s, wk, nw)
  BY <1>1, HeldByFrame
<1>4. ASSUME NEW x \in HeldIn(s2, wk2, nw)
      PROVE  (x \in HeldIn(s, wk, nw) /\ x # a) \/ x = b
  <2>1. /\ x[1] \in Threads /\ x[2] \in Int /\ x[3] \in Works /\ x = <<x[1], x[2], x[3]>>
    BY HeldParts
  <2>2. CASE /\ x \in HeldIn(s, wk2, nw)
             /\ ~(x[1] = t /\ (x[2] = Len(s[t]) \/ (x[2] = 0 /\ Len(s[t]) = 1)))
    <3>1. Has(s, wk2, nw, x[1], x[2], x[3])
      BY <2>2, HeldParts
    <3>2. Has(s, wk, nw, x[1], x[2], x[3]) \/ (x[2] = 0 /\ x[1] = v /\ x[3] = w)
      <4>1. CASE x[2] = 0 /\ x[1] \in Workers /\ s[x[1]] # <<>> /\ s[x[1]][1].at = "wait" /\ wk2[x[1]] = x[3]
        <5>1. x[1] # v => wk[x[1]] = x[3]
          BY <4>1
        <5>2. x[1] = v => x[3] = w
          BY <4>1
        <5> QED BY <4>1, <5>1, <5>2 DEF Has
      <4> QED BY <3>1, <4>1 DEF Has
    <3>3. x # a
      BY <2>2
    <3> QED BY <2>1, <3>2, <3>3 DEF HeldIn
  <2>3. CASE x = <<t, Len(s[t]), x[3]>> /\ x[3] \in Holds(frame)
    <3>1. x[3] # w /\ x[3] \in Holds(s[t][Len(s[t])])
      BY <2>3
    <3>2. <<t, Len(s[t]), x[3]>> \in HeldIn(s, wk, nw)
      BY <1>1, <2>1, <3>1, HeldByFrame
    <3> QED BY <2>3, <3>1, <3>2
  <2>4. PlacesAfter(t, frame, {}, s, HeldIn(s, wk2, nw), x)
    BY <1>1, HeldAfter
  <2> QED BY <2>2, <2>3, <2>4 DEF PlacesAfter
<1>5. b[3] = a[3]
  OBVIOUS
<1> HIDE DEF a, b
<1>6. Tokens(T, HeldIn(s2, wk2, nw), S)
  BY <1>1, <1>3, <1>4, <1>5, TokensMoved
<1> QED BY <1>2, <1>6 DEF CoreOf


(* The top frame of the worker t offers the work w.                          *)
LEMMA OfferCore ==
  ASSUME NEW T \in SUBSET Works, NEW m, NEW s, NEW wk,
         NEW nw \in [Workers -> Works \union {Null}], NEW S, CoreOf(T, m, s, wk, nw, S),
         NEW s2, StacksOK(T, m, s2), NEW t \in Threads, s[t] # <<>>, Len(s[t]) # 1,
         NEW frame, After(t, frame, {}, s, s2), frame.at # "wait",
         NEW w \in Works, w \in Holds(s[t][Len(s[t])]),
         Holds(frame) \subseteq Holds(s[t][Len(s[t])]) \ {w},
         t \in Workers, NEW nw2, nw2 = [nw EXCEPT ![t] = w]
  PROVE  CoreOf(T, m, s2, wk, nw2, S)
<1>1. StacksOK(T, m, s) /\ Busy(s, wk) /\ Tokens(T, HeldIn(s, wk, nw), S)
  BY DEF CoreOf
<1>2. Busy(s2, wk)
  <2>1. WorkKept(t, frame, s, wk)
    BY DEF WorkKept
  <2>2. WorksStay(t, s, wk, wk)
    BY DEF WorksStay
  <2> QED BY <1>1, <2>1, <2>2, BusyKept
<1> DEFINE a == <<t, Len(s[t]), w>>
           b == <<t, -1, w>>
<1>3. a \in HeldIn(s, wk, nw)
  BY <1>1, HeldByFrame
<1>4. ASSUME NEW x \in HeldIn(s2, wk, nw2)
      PROVE  (x \in HeldIn(s, wk, nw) /\ x # a) \/ x = b
  <2>1. /\ x[1] \in Threads /\ x[2] \in Int /\ x[3] \in Works /\ x = <<x[1], x[2], x[3]>>
    BY HeldParts
  <2>2. CASE /\ x \in HeldIn(s, wk, nw2)
             /\ ~(x[1] = t /\ (x[2] = Len(s[t]) \/ (x[2] = 0 /\ Len(s[t]) = 1)))
    <3>1. Has(s, wk, nw2, x[1], x[2], x[3])
      BY <2>2, HeldParts
    <3>2. Has(s, wk, nw, x[1], x[2], x[3]) \/ (x[2] = -1 /\ x[1] = t /\ x[3] = w)
      <4>1. CASE x[2] = -1 /\ x[1] \in Workers /\ nw2[x[1]] = x[3]
        <5>1. x[1] # t => nw[x[1]] = x[3]
          BY <4>1
        <5>2. x[1] = t => x[3] = w
          BY <4>1
        <5> QED BY <4>1, <5>1, <5>2 DEF Has
      <4> QED BY <3>1, <4>1 DEF Has
    <3>3. x # a
      BY <2>2
    <3> QED BY <2>1, <3>2, <3>3 DEF HeldIn
  <2>3. CASE x = <<t, Len(s[t]), x[3]>> /\ x[3] \in Holds(frame)
    <3>1. x[3] # w /\ x[3] \in Holds(s[t][Len(s[t])])
      BY <2>3
    <3>2. <<t, Len(s[t]), x[3]>> \in HeldIn(s, wk, nw)
      BY <1>1, <2>1, <3>1, HeldByFrame
    <3> QED BY <2>3, <3>1, <3>2
  <2>4. PlacesAfter(t, frame, {}, s, HeldIn(s, wk, nw2), x)
    BY <1>1, HeldAfter
  <2> QED BY <2>2, <2>3, <2>4 DEF PlacesAfter
<1>5. b[3] = a[3]
  OBVIOUS
<1>6. Tokens(T, HeldIn(s2, wk, nw2), S)
  <2> DEFINE H  == HeldIn(s, wk, nw)
             H2 == HeldIn(s2, wk, nw2)
  <2>1. Tokens(T, H, S) /\ a \in H /\ b[3] = a[3] /\ \A x \in H2 : (x \in H /\ x # a) \/ x = b
    BY <1>1, <1>3, <1>4, <1>5
  <2> HIDE DEF a, b, H, H2
  <2>2. Tokens(T, H2, S)
    BY <2>1, TokensMoved
  <2> QED BY <2>2 DEF H2
<1> QED BY <1>2, <1>6 DEF CoreOf

(* The thread t takes the work w that the worker v offered.                  *)
LEMMA TakeCore ==
  ASSUME NEW T \in SUBSET Works, NEW m, NEW s, NEW wk,
         NEW nw \in [Workers -> Works \union {Null}], NEW S, CoreOf(T, m, s, wk, nw, S),
         NEW s2, StacksOK(T, m, s2), NEW t \in Threads, s[t] # <<>>,
         NEW frame, After(t, frame, {}, s, s2), frame.at # "wait", WorkKept(t, frame, s, wk),
         NEW v \in Workers, NEW w \in Works, nw[v] = w,
         Holds(frame) \subseteq Holds(s[t][Len(s[t])]) \union {w},
         NEW nw2, nw2 = [nw EXCEPT ![v] = Null]
  PROVE  CoreOf(T, m, s2, wk, nw2, S)
<1>1. StacksOK(T, m, s) /\ Busy(s, wk) /\ Tokens(T, HeldIn(s, wk, nw), S)
  BY DEF CoreOf
<1>2. Busy(s2, wk)
  <2>2. WorksStay(t, s, wk, wk)
    BY DEF WorksStay
  <2> QED BY <1>1, <2>2, BusyKept
<1> DEFINE a == <<v, -1, w>>
           b == <<t, Len(s[t]), w>>
<1>3. a \in HeldIn(s, wk, nw)
  BY Threads0 DEF HeldIn, Has
<1>n. Len(s[t]) \in Nat \ {0}
  BY <1>1, TopFacts DEF StacksOK
<1>4. ASSUME NEW x \in HeldIn(s2, wk, nw2)
      PROVE  (x \in HeldIn(s, wk, nw) /\ x # a) \/ x = b
  <2>1. /\ x[1] \in Threads /\ x[2] \in Int /\ x[3] \in Works /\ x = <<x[1], x[2], x[3]>>
    BY HeldParts
  <2>2. CASE /\ x \in HeldIn(s, wk, nw2)
             /\ ~(x[1] = t /\ (x[2] = Len(s[t]) \/ (x[2] = 0 /\ Len(s[t]) = 1)))
    <3>1. Has(s, wk, nw2, x[1], x[2], x[3])
      BY <2>2, HeldParts
    <3>2. Has(s, wk, nw, x[1], x[2], x[3]) /\ ~(x[2] = -1 /\ x[1] = v)
      <4>1. CASE x[2] = -1 /\ x[1] \in Workers /\ nw2[x[1]] = x[3]
        <5>1. x[1] # v
          BY <2>1, <4>1, Words0
        <5>2. nw[x[1]] = x[3]
          BY <4>1, <5>1
        <5> QED BY <4>1, <5>1, <5>2 DEF Has
      <4>2. CASE x[2] \in 1..Len(s[x[1]]) /\ x[3] \in Holds(s[x[1]][x[2]])
        <5>1. x[2] # -1
          BY <4>2
        <5> QED BY <4>2, <5>1 DEF Has
      <4>3. CASE x[2] = 0 /\ x[1] \in Workers /\ s[x[1]] # <<>> /\ s[x[1]][1].at = "wait" /\ wk[x[1]] = x[3]
        BY <4>3 DEF Has
      <4> QED BY <3>1, <4>1, <4>2, <4>3 DEF Has
    <3>3. x # a
      BY <3>2
    <3> QED BY <2>1, <3>2, <3>3 DEF HeldIn
  <2>3. CASE x = <<t, Len(s[t]), x[3]>> /\ x[3] \in Holds(frame)
    <3>1. CASE x[3] = w
      BY <2>3, <3>1
    <3>2. CASE x[3] # w
      <4>1. x[3] \in Holds(s[t][Len(s[t])])
        BY <2>3, <3>2
      <4>2. <<t, Len(s[t]), x[3]>> \in HeldIn(s, wk, nw)
        BY <1>1, <2>1, <4>1, HeldByFrame
      <4> QED BY <2>3, <3>2, <4>2
    <3> QED BY <3>1, <3>2
  <2>4. PlacesAfter(t, frame, {}, s, HeldIn(s, wk, nw2), x)
    BY <1>1, HeldAfter
  <2> QED BY <2>2, <2>3, <2>4 DEF PlacesAfter
<1>5. b[3] = a[3]
  OBVIOUS
<1>6. Tokens(T, HeldIn(s2, wk, nw2), S)
  <2> DEFINE H  == HeldIn(s, wk, nw)
             H2 == HeldIn(s2, wk, nw2)
  <2>1. Tokens(T, H, S) /\ a \in H /\ b[3] = a[3] /\ \A x \in H2 : (x \in H /\ x # a) \/ x = b
    BY <1>1, <1>3, <1>4, <1>5
  <2> HIDE DEF a, b, H, H2
  <2>2. Tokens(T, H2, S)
    BY <2>1, TokensMoved
  <2> QED BY <2>2 DEF H2
<1> QED BY <1>2, <1>6 DEF CoreOf


(* The top frame of t executes the work w, whose own works are in X.         *)
LEMMA ExecCore ==
  ASSUME NEW T \in SUBSET Works, NEW root, IsTree(T, root), NEW m, NEW s, NEW wk, NEW nw,
         NEW S \in [Works -> Nat], CoreOf(T, m, s, wk, nw, S),
         NEW s2, StacksOK(T, m, s2), NEW t \in Threads, s[t] # <<>>,
         NEW frame, NEW X, After(t, frame, X, s, s2), frame.at # "wait", WorkKept(t, frame, s, wk),
         NEW w \in Works, w \in Holds(s[t][Len(s[t])]),
         Holds(frame) \subseteq Holds(s[t][Len(s[t])]) \ {w},
         X \subseteq WorksOf(w),
         NEW S2, Started1(S, S2, w)
  PROVE  CoreOf(T, m, s2, wk, nw, S2)
<1>1. StacksOK(T, m, s) /\ Busy(s, wk) /\ Tokens(T, HeldIn(s, wk, nw), S)
  BY DEF CoreOf
<1>2. Busy(s2, wk)
  <2>2. WorksStay(t, s, wk, wk)
    BY DEF WorksStay
  <2> QED BY <1>1, <2>2, BusyKept
<1> DEFINE a  == <<t, Len(s[t]), w>>
           k  == Len(s[t]) + 1
           H  == HeldIn(s, wk, nw)
           H2 == HeldIn(s2, wk, nw)
<1>3. a \in H /\ w = a[3]
  BY <1>1, HeldByFrame
<1>4. ASSUME NEW x \in H2
      PROVE  \/ x \in H /\ x # a
             \/ x[1] = t /\ x[2] = k /\ x[3] \in WorksOf(w)
  <2>1. /\ x[1] \in Threads /\ x[2] \in Int /\ x[3] \in Works /\ x = <<x[1], x[2], x[3]>>
    BY HeldParts
  <2>2. CASE x \in H /\ ~(x[1] = t /\ (x[2] = Len(s[t]) \/ (x[2] = 0 /\ Len(s[t]) = 1)))
    <3>1. x # a
      BY <2>2
    <3> QED BY <2>2, <3>1
  <2>3. CASE x = <<t, Len(s[t]), x[3]>> /\ x[3] \in Holds(frame)
    <3>1. x[3] # w /\ x[3] \in Holds(s[t][Len(s[t])])
      BY <2>3
    <3>2. <<t, Len(s[t]), x[3]>> \in HeldIn(s, wk, nw)
      BY <1>1, <2>1, <3>1, HeldByFrame
    <3> QED BY <2>3, <3>1, <3>2
  <2>4. CASE x = <<t, Len(s[t]) + 1, x[3]>> /\ x[3] \in X
    <3>1. x[1] = t /\ x[2] = k
      BY <2>4
    <3> QED BY <2>4, <3>1
  <2>5. PlacesAfter(t, frame, X, s, H, x)
    BY <1>1, HeldAfter
  <2> QED BY <2>2, <2>3, <2>4, <2>5 DEF PlacesAfter
<1>5. H \in SUBSET Triples /\ H2 \in SUBSET Triples /\ Tokens(T, H, S)
  BY <1>1 DEF Triples, HeldIn
<1> HIDE DEF a, k, H, H2
<1>6. Tokens(T, H2, S2)
  BY <1>3, <1>4, <1>5, TokensExecuted
<1> QED BY <1>2, <1>6 DEF CoreOf, H2

(* A worker that waited finds the work w.                                    *)
LEMMA StartCore ==
  ASSUME NEW T \in SUBSET Works, NEW m, NEW s, NEW wk, NEW nw, NEW S, CoreOf(T, m, s, wk, nw, S),
         NEW s2, StacksOK(T, m, s2), NEW t \in Threads, t \in Workers, s[t] # <<>>,
         Len(s[t]) = 1, s[t][1].at = "wait", NEW w \in Works, wk[t] = w,
         NEW frame, NEW X, X = {}, After(t, frame, X, s, s2), frame.at # "wait", frame.dw = w,
         Holds(frame) \subseteq {w}
  PROVE  CoreOf(T, m, s2, wk, nw, S)
<1>1. StacksOK(T, m, s) /\ Busy(s, wk) /\ Tokens(T, HeldIn(s, wk, nw), S)
  BY DEF CoreOf
<1>2. Busy(s2, wk)
  <2>1. WorkKept(t, frame, s, wk)
    BY DEF WorkKept
  <2>2. WorksStay(t, s, wk, wk)
    BY DEF WorksStay
  <2> QED BY <1>1, <2>1, <2>2, BusyKept
<1> DEFINE a  == <<t, 0, w>>
           b  == <<t, 1, w>>
           H  == HeldIn(s, wk, nw)
           H2 == HeldIn(s2, wk, nw)
<1>3. a \in H /\ b[3] = a[3]
  BY <1>1 DEF HeldIn, Has
<1>4. ASSUME NEW x \in H2
      PROVE  (x \in H /\ x # a) \/ x = b
  <2>1. /\ x[1] \in Threads /\ x[2] \in Int /\ x[3] \in Works /\ x = <<x[1], x[2], x[3]>>
    BY HeldParts
  <2>2. CASE x \in H /\ ~(x[1] = t /\ (x[2] = Len(s[t]) \/ (x[2] = 0 /\ Len(s[t]) = 1)))
    <3>1. x # a
      BY <2>2
    <3> QED BY <2>2, <3>1
  <2>3. CASE x = <<t, Len(s[t]), x[3]>> /\ x[3] \in Holds(frame)
    BY <2>3
  <2>5. PlacesAfter(t, frame, X, s, H, x)
    BY <1>1, HeldAfter
  <2> QED BY <2>2, <2>3, <2>5 DEF PlacesAfter
<1>5. Tokens(T, H, S)
  BY <1>1
<1> HIDE DEF a, b, H, H2
<1>6. Tokens(T, H2, S)
  BY <1>3, <1>4, <1>5, TokensMoved
<1> QED BY <1>2, <1>6 DEF CoreOf, H2


-----------------------------------------------------------------------------
(* Steps of a thread *)

(* The top frame of t becomes frame, calls fpost or fwait, or returns.       *)
Moves(t, frame) ==
  \/ Becomes(t, frame)
  \/ \E at \in {"post", "fwait"}, f \in Words : Calls(t, frame, WordFrame(at, f))
  \/ Returns(t)

(* A mode in which at least as many works are counted.                       *)
Wider(m, m2) == m2.steal = m.steal /\ m.pooled \subseteq m2.pooled

(* Counting more works spoils nothing.                                       *)
LEMMA WiderCore ==
  ASSUME NEW T \in SUBSET Works, NEW m, NEW m2, Wider(m, m2), NEW s, NEW wk, NEW nw, NEW S,
         CoreOf(T, m, s, wk, nw, S)
  PROVE  CoreOf(T, m2, s, wk, nw, S)
<1>1. ASSUME NEW f, Good(T, m, f)
      PROVE  Good(T, m2, f)
  BY <1>1 DEF Good, Wider
<1>2. StacksOK(T, m, s) => StacksOK(T, m2, s)
  BY <1>1 DEF StacksOK
<1> QED BY <1>2 DEF CoreOf

(* The stacks after a step of the kind Moves.                                *)
LEMMA MovesAfter ==
  ASSUME NEW T \in SUBSET Works, NEW m, StacksOK(T, m, stack), NEW t \in Threads, stack[t] # <<>>,
         NEW frame \in Frames, Good(T, m, frame), PlaceOK(t, Len(stack[t]), frame),
         Moves(t, frame)
  PROVE  StacksOK(T, m, stack') /\ After(t, frame, {}, stack, stack')
<1>1. CASE Becomes(t, frame)
  BY <1>1, BecomesStep
<1>2. CASE \E at \in {"post", "fwait"}, f \in Words : Calls(t, frame, WordFrame(at, f))
  <2>1. PICK at \in {"post", "fwait"}, f \in Words : Calls(t, frame, WordFrame(at, f))
    BY <1>2
  <2> DEFINE c == WordFrame(at, f)
  <2>2. c \in Frames /\ Good(T, m, c) /\ Callable(c) /\ Holds(c) = {}
    BY WordFrames
  <2>3. Calls(t, frame, c)
    BY <2>1
  <2> HIDE DEF c
  <2>4. StacksOK(T, m, stack') /\ After(t, frame, Holds(c), stack, stack')
    BY <2>2, <2>3, CallsStep
  <2> QED BY <2>2, <2>4
<1>3. CASE Returns(t)
  BY <1>3, ReturnsStep
<1> QED BY <1>1, <1>2, <1>3 DEF Moves

(* The same of a step of t in which no work changes its place.               *)
LEMMA KeepStep ==
  ASSUME NEW T \in SUBSET Works, Inv(T), NEW m, Wider(Mode, m),
         NEW t \in Threads, Running(t),
         NEW frame \in Frames, Good(T, m, frame), PlaceOK(t, Len(stack[t]), frame),
         Moves(t, frame), Holds(frame) \subseteq Holds(Top(t)),
         WorkKept(t, frame, stack, work'), frame.at = "wait" => work'[t] \notin Works,
         WorksGo(t, stack, work, work'),
         nextWork' = nextWork, started' = started
  PROVE  CoreOf(T, m, stack', work', nextWork', started')
<1>1. CoreOf(T, m, stack, work, nextWork, started) /\ StacksOK(T, m, stack)
  BY WiderCore DEF Inv, CoreOf
<1>2. stack[t] # <<>> /\ Top(t) = stack[t][Len(stack[t])]
  BY <1>1, Running0
<1>3. StacksOK(T, m, stack') /\ After(t, frame, {}, stack, stack')
  BY <1>1, <1>2, MovesAfter
<1>4. Holds(frame) \subseteq Holds(stack[t][Len(stack[t])])
  BY <1>2
<1>5. CoreOf(T, m, stack', work', nextWork, started)
  BY <1>1, <1>2, <1>3, <1>4, KeepCore
<1> QED BY <1>5

(* The same of a step of t that hands the work w to the waiting worker v.    *)
LEMMA HandStep ==
  ASSUME NEW T \in SUBSET Works, Inv(T), NEW m, Wider(Mode, m),
         NEW t \in Threads, Running(t), Len(stack[t]) # 1,
         NEW frame \in Frames, Good(T, m, frame), PlaceOK(t, Len(stack[t]), frame),
         Moves(t, frame), frame.at # "wait", NEW w \in Works, w \in Holds(Top(t)),
         Holds(frame) \subseteq Holds(Top(t)) \ {w},
         NEW v \in Workers, work[v] = Null, work' = [work EXCEPT ![v] = w],
         nextWork' = nextWork, started' = started
  PROVE  CoreOf(T, m, stack', work', nextWork', started')
<1>1. /\ CoreOf(T, m, stack, work, nextWork, started) /\ StacksOK(T, m, stack)
      /\ work \in [Workers -> Works \union {Null, Shutdown}]
  BY WiderCore DEF Inv, CoreOf, Types
<1>2. stack[t] # <<>> /\ Top(t) = stack[t][Len(stack[t])]
  BY <1>1, Running0
<1>3. StacksOK(T, m, stack') /\ After(t, frame, {}, stack, stack')
  BY <1>1, <1>2, MovesAfter
<1>4. /\ w \in Holds(stack[t][Len(stack[t])])
      /\ Holds(frame) \subseteq Holds(stack[t][Len(stack[t])]) \ {w}
  BY <1>2
<1>5. CoreOf(T, m, stack', work', nextWork, started)
  BY <1>1, <1>2, <1>3, <1>4, HandCore
<1> QED BY <1>5

(* The same of a step of t that offers its work w.                           *)
LEMMA OfferStep ==
  ASSUME NEW T \in SUBSET Works, Inv(T), NEW m, Wider(Mode, m),
         NEW t \in Threads, Running(t), Len(stack[t]) # 1,
         NEW frame \in Frames, Good(T, m, frame), PlaceOK(t, Len(stack[t]), frame),
         Moves(t, frame), frame.at # "wait", NEW w \in Works, w \in Holds(Top(t)),
         Holds(frame) \subseteq Holds(Top(t)) \ {w},
         t \in Workers, nextWork' = [nextWork EXCEPT ![t] = w],
         work' = work, started' = started
  PROVE  CoreOf(T, m, stack', work', nextWork', started')
<1>1. /\ CoreOf(T, m, stack, work, nextWork, started) /\ StacksOK(T, m, stack)
      /\ nextWork \in [Workers -> Works \union {Null}]
  BY WiderCore DEF Inv, CoreOf, Types
<1>2. stack[t] # <<>> /\ Top(t) = stack[t][Len(stack[t])]
  BY <1>1, Running0
<1>3. StacksOK(T, m, stack') /\ After(t, frame, {}, stack, stack')
  BY <1>1, <1>2, MovesAfter
<1>4. /\ w \in Holds(stack[t][Len(stack[t])])
      /\ Holds(frame) \subseteq Holds(stack[t][Len(stack[t])]) \ {w}
  BY <1>2
<1>5. CoreOf(T, m, stack', work, nextWork', started)
  BY <1>1, <1>2, <1>3, <1>4, OfferCore
<1> QED BY <1>5

(* The same of a step of t that takes the work w off the offer of v.         *)
LEMMA TakeStep ==
  ASSUME NEW T \in SUBSET Works, Inv(T), NEW m, Wider(Mode, m),
         NEW t \in Threads, Running(t),
         NEW frame \in Frames, Good(T, m, frame), PlaceOK(t, Len(stack[t]), frame),
         Moves(t, frame), frame.at # "wait", WorkKept(t, frame, stack, work),
         NEW v \in Workers, NEW w \in Works, nextWork[v] = w,
         Holds(frame) \subseteq Holds(Top(t)) \union {w},
         nextWork' = [nextWork EXCEPT ![v] = Null],
         work' = work, started' = started
  PROVE  CoreOf(T, m, stack', work', nextWork', started')
<1>1. /\ CoreOf(T, m, stack, work, nextWork, started) /\ StacksOK(T, m, stack)
      /\ nextWork \in [Workers -> Works \union {Null}]
  BY WiderCore DEF Inv, CoreOf, Types
<1>2. stack[t] # <<>> /\ Top(t) = stack[t][Len(stack[t])]
  BY <1>1, Running0
<1>3. StacksOK(T, m, stack') /\ After(t, frame, {}, stack, stack')
  BY <1>1, <1>2, MovesAfter
<1>4. Holds(frame) \subseteq Holds(stack[t][Len(stack[t])]) \union {w}
  BY <1>2
<1>5. CoreOf(T, m, stack', work, nextWork', started)
  BY <1>1, <1>2, <1>3, <1>4, TakeCore
<1> QED BY <1>5

(* The same of a step of t that calls the function of its work w.            *)
LEMMA ExecStep ==
  ASSUME NEW T \in SUBSET Works, NEW root, IsTree(T, root), Inv(T), NEW m, Wider(Mode, m),
         NEW t \in Threads, Running(t),
         NEW frame \in Frames, Good(T, m, frame), PlaceOK(t, Len(stack[t]), frame),
         frame.at # "wait", WorkKept(t, frame, stack, work),
         NEW w \in Works, w \in Holds(Top(t)), Holds(frame) \subseteq Holds(Top(t)) \ {w},
         Executes(t, frame, w)
  PROVE  CoreOf(T, m, stack', work', nextWork', started') /\ started' \in [Works -> Nat]
<1>1. /\ CoreOf(T, m, stack, work, nextWork, started) /\ StacksOK(T, m, stack)
      /\ started \in [Works -> Nat] /\ steal \in BOOLEAN
      /\ Tokens(T, HeldIn(stack, work, nextWork), started)
  BY WiderCore DEF Inv, CoreOf, Types
<1>2. stack[t] # <<>> /\ Top(t) = stack[t][Len(stack[t])]
  BY <1>1, Running0
<1>3. /\ w \in Holds(stack[t][Len(stack[t])])
      /\ Holds(frame) \subseteq Holds(stack[t][Len(stack[t])]) \ {w}
  BY <1>2
<1>4. w \in T
  <2> DEFINE x == <<t, Len(stack[t]), w>>
  <2>1. x \in HeldIn(stack, work, nextWork) /\ x[3] = w
    BY <1>1, <1>2, <1>3, HeldByFrame
  <2> HIDE DEF x
  <2> QED BY <1>1, <2>1 DEF Tokens
<1> DEFINE c == Frame(JoinPlace(w), w)
<1>5. c \in Frames /\ Good(T, m, c) /\ Callable(c) /\ Holds(c) \subseteq WorksOf(w)
  <2>1. m.steal = steal
    BY DEF Wider, Mode
  <2> QED BY <1>1, <1>4, <2>1, JoinFrames
<1>6. /\ Calls(t, frame, c) /\ started' = [started EXCEPT ![w] = @ + 1]
      /\ work' = work /\ nextWork' = nextWork
  BY DEF Executes, poolVars
<1> HIDE DEF c
<1>7. StacksOK(T, m, stack') /\ After(t, frame, Holds(c), stack, stack')
  BY <1>1, <1>2, <1>5, <1>6, CallsStep
<1>8. Started1(started, started', w)
  BY <1>6 DEF Started1
<1>9. CoreOf(T, m, stack', work, nextWork, started')
  BY <1>1, <1>2, <1>3, <1>5, <1>7, <1>8, ExecCore
<1> QED BY <1>1, <1>6, <1>9

(* The same of a worker that finds the work w it was given.                  *)
LEMMA StartStep ==
  ASSUME NEW T \in SUBSET Works, Inv(T), NEW m, Wider(Mode, m),
         NEW t \in Threads, Running(t), t \in Workers,
         Len(stack[t]) = 1, Top(t).at = "wait", NEW w \in Works, work[t] = w,
         NEW frame \in Frames, Good(T, m, frame), PlaceOK(t, Len(stack[t]), frame),
         Moves(t, frame), frame.at # "wait", frame.dw = w, Holds(frame) \subseteq {w},
         work' = work, nextWork' = nextWork, started' = started
  PROVE  CoreOf(T, m, stack', work', nextWork', started')
<1>1. CoreOf(T, m, stack, work, nextWork, started) /\ StacksOK(T, m, stack)
  BY WiderCore DEF Inv, CoreOf
<1>2. stack[t] # <<>> /\ Top(t) = stack[t][Len(stack[t])]
  BY <1>1, Running0
<1>3. stack[t][1].at = "wait"
  BY <1>2
<1> DEFINE X == {}
<1>4. StacksOK(T, m, stack') /\ After(t, frame, X, stack, stack')
  BY <1>1, <1>2, MovesAfter
<1>5. X = {}
  OBVIOUS
<1> HIDE DEF X
<1>6. CoreOf(T, m, stack', work, nextWork, started)
  BY <1>1, <1>2, <1>3, <1>4, <1>5, StartCore
<1> QED BY <1>6


(* What the place of the top frame says of a step to another place.          *)
LEMMA UpPlace ==
  ASSUME NEW T \in SUBSET Works, Inv(T), NEW t \in Threads, Running(t),
         Top(t).at \in JoinPlaces \union WordPlaces,
         NEW frame, frame.at \in JoinPlaces \union WordPlaces, t = Main => ~Offering(frame), NEW wk2
  PROVE  /\ PlaceOK(t, Len(stack[t]), frame) /\ WorkKept(t, frame, stack, wk2)
         /\ frame.at # "wait" /\ Len(stack[t]) # 1
<1> DEFINE n == Len(stack[t])
<1>1. n \in Nat \ {0} /\ PlaceOK(t, n, Top(t))
  BY Running0 DEF Inv, CoreOf
<1> HIDE DEF n
<1>2. n > 1
  BY <1>1, Levels
<1>3. PlaceOK(t, n, frame)
  BY <1>1, <1>2 DEF PlaceOK
<1>4. frame.at # "wait"
  BY DEF JoinPlaces, WordPlaces, StandardPlaces, LoopPlaces, PairPlaces
<1>5. n # 1
  BY <1>1, <1>2
<1> QED BY <1>3, <1>4, <1>5 DEF n, WorkKept

(* What the place of a busy worker says of a step to another such place.     *)
LEMMA LowPlace ==
  ASSUME NEW T \in SUBSET Works, Inv(T), NEW t \in Threads, Running(t),
         Top(t).at \in BusyPlaces, NEW frame, frame.at \in BusyPlaces, frame.dw = Top(t).dw
  PROVE  /\ PlaceOK(t, Len(stack[t]), frame) /\ WorkKept(t, frame, stack, work)
         /\ frame.at # "wait" /\ Len(stack[t]) = 1 /\ t \in Workers
<1> DEFINE n == Len(stack[t])
<1>1. n \in Nat \ {0} /\ PlaceOK(t, n, Top(t)) /\ stack[t] # <<>> /\ Top(t) = stack[t][n]
  BY Running0 DEF Inv, CoreOf
<1> HIDE DEF n
<1>2. n = 1 /\ t \in Workers
  BY <1>1, Levels
<1>6. ~Offering(frame)
  BY DEF BusyPlaces, Offering
<1>3. PlaceOK(t, n, frame)
  BY <1>2, <1>6, Threads0 DEF PlaceOK
<1>4. frame.at # "wait" /\ Top(t).at # "wait"
  BY DEF BusyPlaces
<1>5. work[t] \in {Top(t).dw, Shutdown}
  BY <1>1, <1>2, <1>4 DEF Inv, CoreOf, Busy
<1> QED BY <1>2, <1>3, <1>4, <1>5 DEF n, WorkKept

(* A mode counts the works it counts.                                        *)
LEMMA WiderSame == \A m : Wider(m, m)
BY DEF Wider

(* The mode when the pools are as they were.                                 *)
LEMMA ModeSame ==
  ASSUME steal' = steal, pool' = pool
  PROVE  Mode' = Mode
BY DEF Mode

(* No work goes anywhere when the words of the workers stay.                 *)
LEMMA WorksGoSame ==
  ASSUME NEW t, NEW s, NEW wk
  PROVE  WorksGo(t, s, wk, wk)
BY DEF WorksGo

(* A step in a join, in fpost or in fwait that hands no work over.           *)
LEMMA UpKeep ==
  ASSUME NEW T \in SUBSET Works, Inv(T), NEW m, Wider(Mode, m), NEW t \in Threads, Running(t),
         Top(t).at \in JoinPlaces \union WordPlaces,
         NEW frame \in Frames, frame.at \in JoinPlaces \union WordPlaces,
         t = Main => ~Offering(frame),
         Good(T, m, frame), Moves(t, frame), Holds(frame) \subseteq Holds(Top(t)),
         work' = work, nextWork' = nextWork, started' = started
  PROVE  CoreOf(T, m, stack', work', nextWork', started')
<1>1. PlaceOK(t, Len(stack[t]), frame) /\ WorkKept(t, frame, stack, work) /\ frame.at # "wait"
  BY UpPlace
<1>2. WorkKept(t, frame, stack, work') /\ WorksGo(t, stack, work, work')
  BY <1>1, WorksGoSame
<1> QED BY <1>1, <1>2, KeepStep

(* A step of a worker between the works that it executes.                    *)
LEMMA LowKeep ==
  ASSUME NEW T \in SUBSET Works, Inv(T), NEW t \in Threads, Running(t),
         Top(t).at \in BusyPlaces,
         NEW frame \in Frames, frame.at \in BusyPlaces, frame.dw = Top(t).dw,
         Good(T, Mode, frame), Moves(t, frame), Holds(frame) \subseteq Holds(Top(t)),
         work' = work, nextWork' = nextWork, started' = started
  PROVE  CoreOf(T, Mode, stack', work', nextWork', started')
<1>1. PlaceOK(t, Len(stack[t]), frame) /\ WorkKept(t, frame, stack, work) /\ frame.at # "wait"
  BY LowPlace
<1>2. WorkKept(t, frame, stack, work') /\ WorksGo(t, stack, work, work')
  BY <1>1, WorksGoSame
<1> DEFINE m == Mode
<1>3. Wider(Mode, m)
  BY WiderSame
<1>4. Good(T, m, frame)
  OBVIOUS
<1> HIDE DEF m
<1>5. CoreOf(T, m, stack', work', nextWork', started')
  BY <1>1, <1>2, <1>3, <1>4, KeepStep
<1> QED BY <1>5 DEF m

-----------------------------------------------------------------------------
(* fpost and fwait *)

(* The top frame of a thread that runs, without its level.                   *)
LEMMA TopParts ==
  ASSUME NEW T \in SUBSET Works, Inv(T), NEW t \in Threads, Running(t)
  PROVE  Top(t) \in Frames /\ Good(T, Mode, Top(t)) /\ Rested(Top(t))
BY Running0 DEF Inv, CoreOf

(* A frame in fpost or fwait that stays there.                               *)
LEMMA WordGoes ==
  ASSUME NEW T, NEW m, NEW f \in Frames, Good(T, m, f), f.at \in WordPlaces,
         NEW at \in WordPlaces, NEW g, g = [f EXCEPT !.at = at]
  PROVE  /\ g \in Frames /\ Good(T, m, g) /\ g.at \in JoinPlaces \union WordPlaces
         /\ Holds(g) \subseteq Holds(f) /\ g.word \in Words /\ ~Offering(g)
<1>1. g \in Frames /\ g.at = at /\ g.word = f.word
  BY ZenonT(60) DEF Frames, Places, WordPlaces
<1>2. f.word \in Words
  BY DEF Good
<1>3. Good(T, m, g)
  BY <1>1, <1>2 DEF Good, JoinPlaces, BusyPlaces, WordPlaces, StandardPlaces, LoopPlaces, PairPlaces
<1>4. Holds(g) = {} /\ ~Offering(g)
  BY <1>1 DEF Holds, Offering, WordPlaces
<1> QED BY <1>1, <1>2, <1>3, <1>4

(* The rest of the invariant, if the works and the pools are as they were.   *)
LEMMA InvAgain ==
  ASSUME NEW T \in SUBSET Works, Inv(T), CoreOf(T, Mode, stack', work', nextWork', started'),
         steal' = steal, pool' = pool, work' = work, nextWork' = nextWork, Types'
  PROVE  Inv(T)'
<1>1. Mode' = Mode
  BY ModeSame
<1>2. Pooled'
  BY <1>1 DEF Inv, Pooled
<1> QED BY <1>1, <1>2 DEF Inv

(* fpost: the compare-and-exchange of the word.                              *)
LEMMA PostCasKeeps ==
  ASSUME NEW T \in SUBSET Works, Inv(T), NEW t \in Threads, PostCas(t)
  PROVE  Inv(T)'
<1> DEFINE f == Top(t)
           g == [f EXCEPT !.at = "wake"]
<1>1. /\ Running(t) /\ f.at \in WordPlaces /\ "wake" \in WordPlaces
      /\ steal' = steal /\ work' = work /\ nextWork' = nextWork /\ free' = free /\ loot' = loot
      /\ asleep' = asleep /\ left' = left /\ pool' = pool /\ started' = started /\ finished' = finished
  BY DEF PostCas, At, WordPlaces
<1>2. f \in Frames /\ Good(T, Mode, f)
  BY <1>1, TopParts
<1>3. (Moves(t, g) /\ word' \in {word, [word EXCEPT ![f.word] = 1]})
  BY DEF PostCas, Goes, Moves
<1>4. /\ g \in Frames /\ Good(T, Mode, g) /\ g.at \in JoinPlaces \union WordPlaces
      /\ Holds(g) \subseteq Holds(f) /\ g.word \in Words /\ ~Offering(g)
  <2> HIDE DEF f
  <2>1. g = [f EXCEPT !.at = "wake"]
    OBVIOUS
  <2> HIDE DEF g
  <2> QED BY <1>1, <1>2, <2>1, WordGoes
<1>5. Types'
  BY <1>1, <1>3 DEF Inv, Types
<1> HIDE DEF g
<1>6. CoreOf(T, Mode, stack', work', nextWork', started')
  BY <1>1, <1>3, <1>4, WiderSame, UpKeep
<1> QED BY <1>1, <1>5, <1>6, InvAgain

(* fpost: the wakeup.                                                        *)
LEMMA PostWakeKeeps ==
  ASSUME NEW T \in SUBSET Works, Inv(T), NEW t \in Threads, PostWake(t)
  PROVE  Inv(T)'
<1> DEFINE f == Top(t)
<1>1. /\ Running(t) /\ f.at \in JoinPlaces \union WordPlaces
      /\ steal' = steal /\ work' = work /\ nextWork' = nextWork /\ free' = free /\ loot' = loot
      /\ word' = word /\ left' = left /\ pool' = pool /\ started' = started /\ finished' = finished
  BY DEF PostWake, At, WordPlaces
<1>2. f \in Frames /\ Good(T, Mode, f)
  BY <1>1, TopParts
<1>3. Moves(t, f) /\ asleep' \in [Threads -> Words \union {<<>>}]
  BY DEF PostWake, Moves, Inv, Types
<1>4. Types'
  BY <1>1, <1>3 DEF Inv, Types
<1>5. Holds(f) \subseteq Holds(Top(t)) /\ Top(t).at \in JoinPlaces \union WordPlaces
      /\ ~Offering(f)
  BY <1>1 DEF PostWake, At, Offering
<1> HIDE DEF f
<1>6. CoreOf(T, Mode, stack', work', nextWork', started')
  BY <1>1, <1>2, <1>3, <1>5, WiderSame, UpKeep
<1> QED BY <1>1, <1>4, <1>6, InvAgain

(* fwait: the compare-and-exchange of the word.                              *)
LEMMA WaitCasKeeps ==
  ASSUME NEW T \in SUBSET Works, Inv(T), NEW t \in Threads, WaitCas(t)
  PROVE  Inv(T)'
<1> DEFINE f == Top(t)
           h == [f EXCEPT !.one = word[f.word]]
           g == [h EXCEPT !.at = "sleep"]
<1>1. /\ Running(t) /\ f.at \in WordPlaces /\ "sleep" \in WordPlaces
      /\ steal' = steal /\ work' = work /\ nextWork' = nextWork /\ free' = free /\ loot' = loot
      /\ asleep' = asleep /\ left' = left /\ pool' = pool /\ started' = started /\ finished' = finished
  BY DEF WaitCas, At, WordPlaces
<1>2. f \in Frames /\ Good(T, Mode, f)
  BY <1>1, TopParts
<1>3. f.word \in Words
  BY <1>1, <1>2 DEF Good
<1>4. Moves(t, g) /\ word' \in {word, [word EXCEPT ![f.word] = 0]}
  <2>1. [f EXCEPT !.at = "sleep", !.one = word[f.word]] = g
    BY <1>2 DEF Frames
  <2> QED BY <2>1 DEF WaitCas, Moves
<1>5. Types'
  BY <1>1, <1>3, <1>4 DEF Inv, Types
<1>6. h \in Frames /\ h.at = f.at /\ h.word = f.word
  <2>1. word[f.word] \in Int
    BY <1>3 DEF Inv, Types
  <2> QED BY <1>2, <2>1 DEF Frames
<1>7. Good(T, Mode, h) /\ Holds(h) = {}
  BY <1>1, <1>3, <1>6
  DEF Good, Holds, JoinPlaces, BusyPlaces, WordPlaces, StandardPlaces, LoopPlaces, PairPlaces
<1>8. /\ g \in Frames /\ Good(T, Mode, g) /\ g.at \in JoinPlaces \union WordPlaces
      /\ Holds(g) \subseteq Holds(h) /\ ~Offering(g)
  <2> HIDE DEF f, h
  <2>1. g = [h EXCEPT !.at = "sleep"] /\ h.at \in WordPlaces
    BY <1>1, <1>6
  <2> HIDE DEF g
  <2> QED BY <1>1, <1>6, <1>7, <2>1, WordGoes
<1> HIDE DEF g, h
<1>9. Holds(g) \subseteq Holds(Top(t)) /\ Top(t).at \in JoinPlaces \union WordPlaces
  BY <1>1, <1>7, <1>8
<1>10. CoreOf(T, Mode, stack', work', nextWork', started')
  BY <1>1, <1>4, <1>8, <1>9, WiderSame, UpKeep
<1> QED BY <1>1, <1>5, <1>10, InvAgain

(* fwait: FUTEX_WAIT.                                                        *)
LEMMA WaitSleepKeeps ==
  ASSUME NEW T \in SUBSET Works, Inv(T), NEW t \in Threads, WaitSleep(t)
  PROVE  Inv(T)'
<1> DEFINE f == Top(t)
           g == [f EXCEPT !.at = "fwait"]
<1>1. /\ Running(t) /\ f.at \in WordPlaces /\ "fwait" \in WordPlaces
      /\ steal' = steal /\ work' = work /\ nextWork' = nextWork /\ free' = free /\ loot' = loot
      /\ word' = word /\ left' = left /\ pool' = pool /\ started' = started /\ finished' = finished
  BY DEF WaitSleep, At, WordPlaces
<1>2. f \in Frames /\ Good(T, Mode, f)
  BY <1>1, TopParts
<1>3. Moves(t, g) /\ asleep' \in {asleep, [asleep EXCEPT ![t] = f.word]}
  BY DEF WaitSleep, Goes, Moves
<1>4. /\ g \in Frames /\ Good(T, Mode, g) /\ g.at \in JoinPlaces \union WordPlaces
      /\ Holds(g) \subseteq Holds(f) /\ g.word \in Words /\ ~Offering(g)
  <2> HIDE DEF f
  <2>1. g = [f EXCEPT !.at = "fwait"]
    OBVIOUS
  <2> HIDE DEF g
  <2> QED BY <1>1, <1>2, <2>1, WordGoes
<1>5. Types'
  <2>1. f.word \in Words
    BY <1>1, <1>2 DEF Good
  <2> QED BY <1>1, <1>3, <2>1 DEF Inv, Types
<1> HIDE DEF g
<1>6. CoreOf(T, Mode, stack', work', nextWork', started')
  BY <1>1, <1>3, <1>4, WiderSame, UpKeep
<1> QED BY <1>1, <1>5, <1>6, InvAgain

-----------------------------------------------------------------------------
(* The workers *)

(* A program that stopped at an assertion has its works where they were.     *)
LEMMA FailsKeeps ==
  ASSUME NEW T \in SUBSET Works, Inv(T), NEW why, Fails(why)
  PROVE  Inv(T)'
<1>1. /\ steal' = steal /\ work' = work /\ nextWork' = nextWork /\ free' = free /\ loot' = loot
      /\ word' = word /\ asleep' = asleep /\ left' = left /\ pool' = pool /\ stack' = stack
      /\ started' = started /\ finished' = finished
  BY DEF Fails, poolVars
<1>2. Types'
  BY <1>1 DEF Inv, Types
<1>3. Mode' = Mode
  BY <1>1, ModeSame
<1>4. Pooled'
  BY <1>1, <1>3 DEF Inv, Pooled
<1>5. CoreOf(T, Mode, stack', work', nextWork', started')
  BY <1>1 DEF Inv
<1> QED BY <1>2, <1>3, <1>4, <1>5 DEF Inv

(* A step of a join, of fpost or of fwait, of which no work is the wiser.    *)
LEMMA UpInv ==
  ASSUME NEW T \in SUBSET Works, Inv(T), NEW t \in Threads, Running(t),
         Top(t).at \in JoinPlaces \union WordPlaces,
         NEW g \in Frames, g.at \in JoinPlaces \union WordPlaces,
         t = Main => ~Offering(g),
         Good(T, Mode, g), Moves(t, g), Holds(g) \subseteq Holds(Top(t)),
         steal' = steal, pool' = pool, work' = work, nextWork' = nextWork, started' = started, Types'
  PROVE  Inv(T)'
<1>1. CoreOf(T, Mode, stack', work', nextWork', started')
  BY WiderSame, UpKeep
<1> QED BY <1>1, InvAgain

(* The same of a step of a worker between the works that it executes.        *)
LEMMA LowInv ==
  ASSUME NEW T \in SUBSET Works, Inv(T), NEW t \in Threads, Running(t),
         Top(t).at \in BusyPlaces, NEW g \in Frames, g.at \in BusyPlaces, g.dw = Top(t).dw,
         Good(T, Mode, g), Moves(t, g), Holds(g) \subseteq Holds(Top(t)),
         steal' = steal, pool' = pool, work' = work, nextWork' = nextWork, started' = started, Types'
  PROVE  Inv(T)'
<1>1. CoreOf(T, Mode, stack', work', nextWork', started')
  BY LowKeep
<1> QED BY <1>1, InvAgain

(* A frame of a worker that has executed its work and has no other yet.      *)
LEMMA BusyGood ==
  ASSUME NEW T, NEW m, NEW f \in Frames, Good(T, m, f), f.at \in BusyPlaces,
         NEW g \in Frames, g.at \in {"signal", "steal", "grab", "unreserve", "clear"}, g.dw = f.dw, m.steal = TRUE,
         g.at = "grab" => g.tw \in Workers
  PROVE  /\ Good(T, m, g) /\ g.at \in BusyPlaces
         /\ Holds(g) = {} /\ Holds(g) \subseteq Holds(f)
<1>1. f.dw \in Works /\ (m.steal = TRUE => f.dw \in m.pooled)
  BY DEF Good
<1>2. Good(T, m, g)
  BY <1>1 DEF Good, JoinPlaces, BusyPlaces, WordPlaces, StandardPlaces, LoopPlaces, PairPlaces
<1>3. Holds(g) = {}
  BY DEF Holds
<1> QED BY <1>2, <1>3 DEF BusyPlaces

(* The frame of a worker in the stealing mode.                               *)
LEMMA StealsAt ==
  ASSUME NEW T \in SUBSET Works, Inv(T), NEW t \in Threads, Running(t),
         Top(t).at \in {"signal", "steal", "grab", "took", "unreserve"}
  PROVE  steal = TRUE /\ Mode.steal = TRUE /\ Top(t).dw \in Works /\ pool[Top(t).dw] \in Works
<1>1. Good(T, Mode, Top(t))
  BY TopParts
<1>2. Mode.steal = TRUE /\ Top(t).dw \in Works /\ Top(t).dw \in Mode.pooled
  BY <1>1 DEF Good, BusyPlaces
<1> QED BY <1>2 DEF Mode

(* A worker of the stealing mode counts the work it executed.                *)
LEMMA StealExecutedKeeps ==
  ASSUME NEW T \in SUBSET Works, Inv(T), NEW t \in Threads, StealExecuted(t)
  PROVE  Inv(T)'
<1> DEFINE f == Top(t)
           job == pool[f.dw]
           g == [f EXCEPT !.at = "steal"]
<1>1. Running(t) /\ f.at = "signal" /\ Signals(t, job, g)
  BY DEF StealExecuted, At
<1>2. f \in Frames /\ Good(T, Mode, f)
  BY <1>1, TopParts
<1>3. Mode.steal = TRUE /\ job \in Works
  BY <1>1, StealsAt
<1>4. /\ steal' = steal /\ work' = work /\ nextWork' = nextWork /\ free' = free /\ loot' = loot
      /\ word' = word /\ asleep' = asleep /\ pool' = pool /\ started' = started /\ finished' = finished
      /\ left' = [left EXCEPT ![job] = @ - 1]
  BY <1>1 DEF Signals
<1>5. Moves(t, g)
  <2>1. PoolOf(job) \in Words
    BY <1>3 DEF Words
  <2> QED BY <1>1, <2>1 DEF Signals, Moves
<1>6. Types'
  BY <1>3, <1>4 DEF Inv, Types
<1>7. g \in Frames /\ g.at = "steal" /\ g.dw = f.dw
  BY <1>2 DEF Frames, Places
<1> HIDE DEF g
<1>8. Good(T, Mode, g) /\ g.at \in BusyPlaces /\ Holds(g) \subseteq Holds(Top(t)) /\ Top(t).at \in BusyPlaces
  <2>1. f.at \in BusyPlaces
    BY <1>1 DEF BusyPlaces
  <2> HIDE DEF f
  <2>2. Good(T, Mode, g) /\ g.at \in BusyPlaces /\ Holds(g) \subseteq Holds(f)
    BY <1>2, <1>3, <1>7, <2>1, BusyGood
  <2> QED BY <2>1, <2>2 DEF f
<1> QED BY <1>1, <1>4, <1>5, <1>6, <1>7, <1>8, LowInv

(* It looks for a thread with loot.                                          *)
LEMMA StealFromKeeps ==
  ASSUME NEW T \in SUBSET Works, Inv(T), NEW t \in Threads, StealFrom(t)
  PROVE  Inv(T)'
<1> DEFINE f == Top(t)
           n == [f EXCEPT !.at = "unreserve"]
           g == [f EXCEPT !.at = "grab", !.tw = Min(loot)]
<1>1. /\ Running(t) /\ f.at = "steal"
      /\ steal' = steal /\ work' = work /\ nextWork' = nextWork /\ free' = free
      /\ word' = word /\ asleep' = asleep /\ left' = left /\ pool' = pool
      /\ started' = started /\ finished' = finished
  BY DEF StealFrom, At
<1>2. f \in Frames /\ Good(T, Mode, f) /\ Mode.steal = TRUE
  BY <1>1, TopParts, StealsAt
<1>3. f.at \in BusyPlaces
  BY <1>1 DEF BusyPlaces
<1>4. CASE loot = {} /\ Moves(t, n) /\ loot' = loot
  <2>1. n \in Frames /\ n.at = "unreserve" /\ n.dw = f.dw
    BY <1>2 DEF Frames, Places
  <2>2. Types'
    BY <1>1, <1>4 DEF Inv, Types
  <2>0. Moves(t, n)
    BY <1>4
  <2> HIDE DEF n
  <2>3. Good(T, Mode, n) /\ n.at \in BusyPlaces /\ Holds(n) \subseteq Holds(Top(t))
    <3> HIDE DEF f
    <3>0. n.at \in {"signal", "steal", "grab", "unreserve", "clear"}
      BY <2>1
    <3>1. Good(T, Mode, n) /\ n.at \in BusyPlaces /\ Holds(n) \subseteq Holds(f)
      BY <1>2, <1>3, <2>1, <3>0, BusyGood
    <3> QED BY <3>1 DEF f
  <2> QED BY <1>1, <1>3, <2>0, <2>1, <2>2, <2>3, LowInv
<1>5. CASE loot # {} /\ Moves(t, g) /\ loot' = loot \ {Min(loot)}
  <2>0. Min(loot) \in loot /\ loot \subseteq Workers
    <3>1. loot \in SUBSET Nat /\ loot \subseteq Workers
      BY Threads0 DEF Inv, Types
    <3> QED BY <1>5, <3>1, MinFacts
  <2>1. g \in Frames /\ g.at = "grab" /\ g.dw = f.dw /\ g.tw \in Workers
    <3>1. Min(loot) \in Threads
      BY <2>0 DEF Threads
    <3> QED BY <1>2, <2>0, <3>1 DEF Frames, Places
  <2>2. Types'
    BY <1>1, <1>5 DEF Inv, Types
  <2>3. Moves(t, g)
    BY <1>5
  <2> HIDE DEF g
  <2>4. Good(T, Mode, g) /\ g.at \in BusyPlaces /\ Holds(g) \subseteq Holds(Top(t))
    <3> HIDE DEF f
    <3>1. Good(T, Mode, g) /\ g.at \in BusyPlaces /\ Holds(g) \subseteq Holds(f)
      BY <1>2, <1>3, <2>1, BusyGood
    <3> QED BY <3>1 DEF f
  <2> QED BY <1>1, <1>3, <2>1, <2>2, <2>3, <2>4, LowInv
<1> QED BY <1>4, <1>5 DEF StealFrom, Goes, Moves

(* It finds none, and may be reserved again.                                 *)
LEMMA UnreserveKeeps ==
  ASSUME NEW T \in SUBSET Works, Inv(T), NEW t \in Threads, Unreserve(t)
  PROVE  Inv(T)'
<1> DEFINE f == Top(t)
           g == [f EXCEPT !.at = "clear"]
<1>1. /\ Running(t) /\ f.at = "unreserve"
      /\ steal' = steal /\ work' = work /\ nextWork' = nextWork /\ free' = free \union {t}
      /\ loot' = loot /\ word' = word /\ asleep' = asleep /\ left' = left /\ pool' = pool
      /\ started' = started /\ finished' = finished /\ Moves(t, g)
  BY DEF Unreserve, At, Goes, Moves
<1>2. f \in Frames /\ Good(T, Mode, f) /\ Mode.steal = TRUE
  BY <1>1, TopParts, StealsAt
<1>3. f.at \in BusyPlaces
  BY <1>1 DEF BusyPlaces
<1>4. g \in Frames /\ g.at = "clear" /\ g.dw = f.dw
  BY <1>2 DEF Frames, Places
<1>5. Moves(t, g)
  BY <1>1
<1> HIDE DEF g
<1>6. Good(T, Mode, g) /\ g.at \in BusyPlaces /\ Holds(g) \subseteq Holds(Top(t))
  <2> HIDE DEF f
  <2>1. Good(T, Mode, g) /\ g.at \in BusyPlaces /\ Holds(g) \subseteq Holds(f)
    BY <1>2, <1>3, <1>4, BusyGood
  <2> QED BY <2>1 DEF f
<1>7. Types'
  <2>1. t \in Workers
    BY <1>1, <1>3, <1>4, <1>6, LowPlace
  <2> QED BY <1>1, <2>1 DEF Inv, Types
<1> QED BY <1>1, <1>3, <1>4, <1>5, <1>6, <1>7, LowInv

(* The rest of the invariant, if the pools are as they were.                 *)
LEMMA InvNext ==
  ASSUME NEW T \in SUBSET Works, CoreOf(T, Mode, stack', work', nextWork', started'),
         steal' = steal, pool' = pool, Types',
         \A v \in Workers : steal => /\ work'[v] \in Works => work'[v] \in Mode.pooled
                                     /\ nextWork'[v] \in Works => nextWork'[v] \in Mode.pooled
  PROVE  Inv(T)'
<1>1. Mode' = Mode
  BY ModeSame
<1>2. Pooled'
  BY <1>1 DEF Pooled
<1> QED BY <1>1, <1>2 DEF Inv

(* What a worker that has work is: a thread with one frame.                  *)
LEMMA LowFacts ==
  ASSUME NEW T \in SUBSET Works, Inv(T), NEW t \in Threads, Running(t),
         Top(t).at \in BusyPlaces \union {"wait"}
  PROVE  t \in Workers /\ Len(stack[t]) = 1 /\ t # Main
<1> DEFINE n == Len(stack[t])
<1>1. n \in Nat \ {0} /\ PlaceOK(t, n, Top(t))
  BY Running0 DEF Inv, CoreOf
<1> HIDE DEF n
<1>2. n = 1 /\ t \in Workers
  BY <1>1, Levels
<1> QED BY <1>2, Threads0 DEF n

(* A worker executes the work it was given or stole.                         *)
LEMMA ExecuteKeeps ==
  ASSUME NEW T \in SUBSET Works, NEW root, IsTree(T, root), Inv(T), NEW t \in Threads, Execute(t)
  PROVE  Inv(T)'
<1> DEFINE f == Top(t)
           place == IF steal THEN "signal" ELSE "clear"
           g == [f EXCEPT !.at = place]
           w == f.dw
<1>1. Running(t) /\ f.at = "execute" /\ Executes(t, g, w)
  BY DEF Execute, At
<1>2. f \in Frames /\ Good(T, Mode, f)
  BY <1>1, TopParts
<1>3. f.at \in BusyPlaces /\ place \in BusyPlaces /\ place \in Places /\ place \in {"signal", "clear"}
      /\ (place = "signal" => Mode.steal = TRUE)
  <2>1. steal \in BOOLEAN
    BY DEF Inv, Types
  <2> QED BY <1>1, <2>1 DEF BusyPlaces, Places, Mode
<1> HIDE DEF place
<1>4. g \in Frames /\ g.at = place /\ g.dw = f.dw
  BY <1>2, <1>3 DEF Frames
<1> HIDE DEF g
<1>5. f.dw \in Works /\ (Mode.steal = TRUE => f.dw \in Mode.pooled)
  BY <1>2, <1>3 DEF Good
<1>6. Good(T, Mode, g)
  BY <1>3, <1>4, <1>5 DEF Good, JoinPlaces, BusyPlaces, WordPlaces, StandardPlaces, LoopPlaces, PairPlaces
<1>7. Holds(g) = {} /\ Holds(f) = {w}
  BY <1>1, <1>3, <1>4 DEF Holds
<1>8. /\ PlaceOK(t, Len(stack[t]), g) /\ WorkKept(t, g, stack, work) /\ g.at # "wait"
  BY <1>1, <1>3, <1>4, LowPlace
<1>9. w \in Works /\ w \in Holds(Top(t)) /\ Holds(g) \subseteq Holds(Top(t)) \ {w}
  BY <1>5, <1>7
<1> HIDE DEF w, f
<1>10. CoreOf(T, Mode, stack', work', nextWork', started') /\ started' \in [Works -> Nat]
  BY <1>1, <1>4, <1>6, <1>8, <1>9, WiderSame, ExecStep
<1>11. /\ steal' = steal /\ work' = work /\ nextWork' = nextWork /\ free' = free /\ loot' = loot
       /\ word' = word /\ asleep' = asleep /\ left' = left /\ pool' = pool /\ finished' = finished
  BY <1>1 DEF Executes, poolVars
<1>12. Types'
  BY <1>10, <1>11 DEF Inv, Types
<1> QED BY <1>10, <1>11, <1>12, InvAgain

(* A worker that is done waits again, without work.                          *)
LEMMA ClearKeeps ==
  ASSUME NEW T \in SUBSET Works, Inv(T), NEW t \in Threads, Running(t), Top(t).at = "clear",
         Moves(t, [Top(t) EXCEPT !.at = "wait", !.dw = Null]),
         work' = [work EXCEPT ![t] = Null],
         steal' = steal, nextWork' = nextWork, pool' = pool, started' = started, Types'
  PROVE  Inv(T)'
<1> DEFINE f == Top(t)
           g == [f EXCEPT !.at = "wait", !.dw = Null]
<1>1. t \in Workers /\ Len(stack[t]) = 1 /\ t # Main
  BY LowFacts DEF BusyPlaces
<1>2. f \in Frames
  BY TopParts
<1>3. g \in Frames /\ g.at = "wait"
  BY <1>2 DEF Frames, Places, AnyJobs
<1>4. Moves(t, g)
  OBVIOUS
<1> HIDE DEF f, g
<1>5. Good(T, Mode, g) /\ Holds(g) = {}
  BY <1>3 DEF Good, Holds, JoinPlaces, BusyPlaces, WordPlaces, StandardPlaces, LoopPlaces, PairPlaces
<1>6. PlaceOK(t, Len(stack[t]), g) /\ WorkKept(t, g, stack, work')
  BY <1>1, <1>3 DEF PlaceOK, WorkKept
<1>7. work \in [Workers -> Works \union {Null, Shutdown}]
  BY DEF Inv, Types
<1>8. work'[t] \notin Works /\ \A u \in Workers : u # t => work'[u] = work[u]
  BY <1>1, <1>7, Words0
<1>9. WorksGo(t, stack, work, work')
  BY <1>1, <1>8 DEF WorksGo
<1> DEFINE m == Mode
<1>10. Wider(Mode, m) /\ Good(T, m, g)
  BY <1>5, WiderSame
<1> HIDE DEF m
<1>11. CoreOf(T, m, stack', work', nextWork', started')
  BY <1>3, <1>4, <1>5, <1>6, <1>8, <1>9, <1>10, KeepStep
<1>12. CoreOf(T, Mode, stack', work', nextWork', started')
  BY <1>11 DEF m
<1>13. \A v \in Workers : steal => /\ work'[v] \in Works => work'[v] \in Mode.pooled
                                   /\ nextWork'[v] \in Works => nextWork'[v] \in Mode.pooled
  BY <1>8 DEF Inv, Pooled
<1> QED BY <1>12, <1>13, InvNext

(* In the standard mode it clears the work and waits again.                  *)
LEMMA SignalWorkDoneKeeps ==
  ASSUME NEW T \in SUBSET Works, Inv(T), NEW t \in Threads, SignalWorkDone(t)
  PROVE  Inv(T)'
<1>1. Running(t) /\ Top(t).at = "clear"
  BY DEF SignalWorkDone, At
<1>2. CASE work[t] = Top(t).dw
  <2>1. /\ steal' = steal /\ nextWork' = nextWork /\ free' = free /\ loot' = loot
        /\ word' = word /\ asleep' = asleep /\ left' = left /\ pool' = pool
        /\ started' = started /\ finished' = finished /\ work' = [work EXCEPT ![t] = Null]
        /\ Calls(t, [Top(t) EXCEPT !.at = "wait", !.dw = Null], WordFrame("post", DoneOf(t)))
    BY <1>2 DEF SignalWorkDone
  <2>2. DoneOf(t) \in Words
    <3>1. t \in Workers
      BY <1>1, LowFacts DEF BusyPlaces
    <3> QED BY <3>1 DEF Words
  <2>3. Moves(t, [Top(t) EXCEPT !.at = "wait", !.dw = Null])
    BY <2>1, <2>2 DEF Moves
  <2>4. Types'
    BY <2>1 DEF Inv, Types
  <2> QED BY <1>1, <2>1, <2>3, <2>4, ClearKeeps
<1>3. CASE work[t] # Top(t).dw
  BY <1>3, FailsKeeps DEF SignalWorkDone
<1> QED BY <1>2, <1>3

(* So it does in the stealing mode, when nothing was left to steal.          *)
LEMMA StealClearKeeps ==
  ASSUME NEW T \in SUBSET Works, Inv(T), NEW t \in Threads, StealClear(t)
  PROVE  Inv(T)'
<1>1. Running(t) /\ Top(t).at = "clear"
  BY DEF StealClear, At
<1>2. CASE work[t] = Top(t).dw
  <2>1. /\ steal' = steal /\ nextWork' = nextWork /\ free' = free /\ loot' = loot
        /\ word' = word /\ asleep' = asleep /\ left' = left /\ pool' = pool
        /\ started' = started /\ finished' = finished /\ work' = [work EXCEPT ![t] = Null]
        /\ Becomes(t, [Top(t) EXCEPT !.at = "wait", !.dw = Null])
    BY <1>2 DEF StealClear
  <2>2. Moves(t, [Top(t) EXCEPT !.at = "wait", !.dw = Null])
    BY <2>1 DEF Moves
  <2>3. Types'
    BY <2>1 DEF Inv, Types
  <2> QED BY <1>1, <2>1, <2>2, <2>3, ClearKeeps
<1>3. CASE work[t] # Top(t).dw
  BY <1>3, FailsKeeps DEF StealClear
<1> QED BY <1>2, <1>3

(* A worker that waits finds a work, the shutdown, or nothing.               *)
LEMMA WaitForWorkKeeps ==
  ASSUME NEW T \in SUBSET Works, Inv(T), NEW t \in Threads, WaitForWork(t)
  PROVE  Inv(T)'
<1> DEFINE f == Top(t)
           g == [f EXCEPT !.at = "execute", !.dw = work[t]]
<1>1. /\ Running(t) /\ f.at = "wait" /\ steal' = steal /\ work' = work /\ nextWork' = nextWork
      /\ free' = free /\ loot' = loot /\ word' = word /\ asleep' = asleep /\ left' = left
      /\ pool' = pool /\ started' = started /\ finished' = finished
  BY DEF WaitForWork, At, poolVars
<1>2. t \in Workers /\ Len(stack[t]) = 1 /\ t # Main
  BY <1>1, LowFacts
<1>3. f \in Frames /\ Good(T, Mode, f)
  BY <1>1, TopParts
<1>4. Types'
  BY <1>1 DEF Inv, Types
<1>5. work[t] \in Works \union {Null, Shutdown}
  BY <1>2 DEF Inv, Types
<1>6. CASE work[t] \in Works
  <2>1. g \in Frames /\ g.at = "execute" /\ g.dw = work[t]
    BY <1>3, <1>6 DEF Frames, Places, AnyJobs
  <2>2. Moves(t, g)
    BY <1>6, Words0 DEF WaitForWork, Moves
  <2> DEFINE w == work[t]
  <2>3. w \in Works /\ g.dw = w /\ work[t] = w /\ (steal => w \in Mode.pooled)
    BY <1>2, <1>6, <2>1 DEF Inv, Pooled
  <2> HIDE DEF g, w
  <2>4. Good(T, Mode, g)
    <3>1. Mode.steal = TRUE => g.dw \in Mode.pooled
      BY <2>3 DEF Mode
    <3> QED BY <2>1, <2>3, <3>1
        DEF Good, JoinPlaces, BusyPlaces, WordPlaces, StandardPlaces, LoopPlaces, PairPlaces
  <2>5. Holds(g) \subseteq {w} /\ g.at # "wait"
    BY <2>1, <2>3 DEF Holds
  <2>6. PlaceOK(t, Len(stack[t]), g)
    BY <1>2, <2>1 DEF PlaceOK, BusyPlaces
  <2> DEFINE m == Mode
  <2>7. Wider(Mode, m) /\ Good(T, m, g) /\ Top(t).at = "wait"
    BY <1>1, <2>4, WiderSame
  <2> HIDE DEF m, f
  <2>8. CoreOf(T, m, stack', work', nextWork', started')
    BY <1>1, <1>2, <2>1, <2>2, <2>3, <2>5, <2>6, <2>7, StartStep
  <2>9. CoreOf(T, Mode, stack', work', nextWork', started')
    BY <2>8 DEF m
  <2> QED BY <1>1, <1>4, <2>9, InvAgain
<1>7. CASE work[t] \in {Null, Shutdown}
  <2>1. Moves(t, f)
    <3>1. CASE work[t] = Null
      <4>1. SubmitOf(t) \in Words
        BY <1>2 DEF Words
      <4> QED BY <3>1, <4>1 DEF WaitForWork, Moves
    <3>2. CASE work[t] = Shutdown
      BY <3>2, Words0 DEF WaitForWork, Moves
    <3> QED BY <1>7, <3>1, <3>2
  <2>2. Holds(f) = {}
    BY <1>1 DEF Holds
  <2>3. PlaceOK(t, Len(stack[t]), f) /\ WorkKept(t, f, stack, work')
    BY <1>1, <1>2 DEF PlaceOK, WorkKept
  <2>4. work'[t] \notin Works /\ WorksGo(t, stack, work, work')
    BY <1>1, <1>7, Words0, WorksGoSame
  <2>5. Holds(f) \subseteq Holds(Top(t))
    OBVIOUS
  <2> DEFINE m == Mode
  <2>6. Wider(Mode, m) /\ Good(T, m, f)
    BY <1>3, WiderSame
  <2> HIDE DEF m, f
  <2>7. CoreOf(T, m, stack', work', nextWork', started')
    BY <1>1, <1>3, <2>1, <2>3, <2>4, <2>5, <2>6, KeepStep
  <2>8. CoreOf(T, Mode, stack', work', nextWork', started')
    BY <2>7 DEF m
  <2> QED BY <1>1, <1>4, <2>8, InvAgain
<1> QED BY <1>5, <1>6, <1>7

(* A thief takes the work on offer, if it is still there.                    *)
LEMMA GrabKeeps ==
  ASSUME NEW T \in SUBSET Works, Inv(T), NEW t \in Threads, Grab(t)
  PROVE  Inv(T)'
<1> DEFINE f == Top(t)
           v == f.tw
           w == nextWork[v]
           n == [f EXCEPT !.at = "steal"]
           g == [f EXCEPT !.at = "took", !.job = w]
<1>1. /\ Running(t) /\ f.at = "grab" /\ steal' = steal /\ work' = work
      /\ nextWork' = [nextWork EXCEPT ![v] = Null]
      /\ free' = free /\ loot' = loot /\ word' = word /\ asleep' = asleep /\ left' = left
      /\ pool' = pool /\ started' = started /\ finished' = finished
  BY DEF Grab, At
<1>2. f \in Frames /\ Good(T, Mode, f) /\ Mode.steal = TRUE /\ steal = TRUE
  BY <1>1, TopParts, StealsAt
<1>3. f.at \in BusyPlaces
  BY <1>1 DEF BusyPlaces
<1>4. Types'
  BY <1>1 DEF Inv, Types
<1>5. nextWork \in [Workers -> Works \union {Null}]
  BY DEF Inv, Types
<1>6. CASE w = Null
  <2>1. Moves(t, n)
    BY <1>6 DEF Grab, Goes, Moves
  <2>2. nextWork' = nextWork
    BY <1>1, <1>5, <1>6
  <2>3. n \in Frames /\ n.at = "steal" /\ n.dw = f.dw
    BY <1>2 DEF Frames, Places
  <2> HIDE DEF n
  <2>4. Good(T, Mode, n) /\ n.at \in BusyPlaces /\ Holds(n) \subseteq Holds(Top(t))
    <3> HIDE DEF f
    <3>1. Good(T, Mode, n) /\ n.at \in BusyPlaces /\ Holds(n) \subseteq Holds(f)
      BY <1>2, <1>3, <2>3, BusyGood
    <3> QED BY <3>1 DEF f
  <2> QED BY <1>1, <1>3, <1>4, <2>1, <2>2, <2>3, <2>4, LowInv
<1>7. CASE w # Null
  <2>1. Moves(t, g)
    BY <1>7 DEF Grab, Moves
  <2>2. v \in Workers /\ w \in Works /\ w \in Mode.pooled
    <3>1. v \in Workers
      BY <1>1, <1>2 DEF Good
    <3> QED BY <1>2, <1>5, <1>7, <3>1 DEF Inv, Pooled
  <2>3. g \in Frames /\ g.at = "took" /\ g.job = w /\ g.dw = f.dw
    BY <1>2, <2>2 DEF Frames, Places, AnyJobs
  <2>4. nextWork[v] = w
    OBVIOUS
  <2>5. f.dw \in Works /\ f.dw \in Mode.pooled
    BY <1>2, <1>3 DEF Good
  <2> HIDE DEF g, w, v
  <2>6. Good(T, Mode, g)
    BY <1>2, <2>2, <2>3, <2>5
    DEF Good, JoinPlaces, BusyPlaces, WordPlaces, StandardPlaces, LoopPlaces, PairPlaces
  <2>7. Holds(g) = {w}
    BY <2>3 DEF Holds
  <2>8. g.at \in BusyPlaces
    BY <2>3 DEF BusyPlaces
  <2>9. PlaceOK(t, Len(stack[t]), g) /\ WorkKept(t, g, stack, work) /\ g.at # "wait"
    BY <1>1, <1>3, <2>3, <2>8, LowPlace
  <2>10. Holds(g) \subseteq Holds(Top(t)) \union {w}
    BY <2>7
  <2> DEFINE m == Mode
  <2>11. Wider(Mode, m) /\ Good(T, m, g)
    BY <2>6, WiderSame
  <2> HIDE DEF m, f
  <2>12. CoreOf(T, m, stack', work', nextWork', started')
    BY <1>1, <2>1, <2>2, <2>3, <2>4, <2>9, <2>10, <2>11, TakeStep
  <2>13. CoreOf(T, Mode, stack', work', nextWork', started')
    BY <2>12 DEF m
  <2>14. \A u \in Workers : steal => /\ work'[u] \in Works => work'[u] \in Mode.pooled
                                     /\ nextWork'[u] \in Works => nextWork'[u] \in Mode.pooled
    BY <1>1, <1>5, <2>2, Words0 DEF Inv, Pooled
  <2> QED BY <1>1, <1>4, <2>13, <2>14, InvNext
<1> QED BY <1>6, <1>7

(* The stolen work takes the place of the executed one.                      *)
LEMMA TookKeeps ==
  ASSUME NEW T \in SUBSET Works, Inv(T), NEW t \in Threads, Took(t)
  PROVE  Inv(T)'
<1> DEFINE f == Top(t)
           w == f.job
           g == [f EXCEPT !.at = "execute", !.dw = w]
<1>1. Running(t) /\ f.at = "took"
  BY DEF Took, At
<1>2. f \in Frames /\ Good(T, Mode, f) /\ Mode.steal = TRUE
  BY <1>1, TopParts, StealsAt
<1>3. f.at \in BusyPlaces
  BY <1>1 DEF BusyPlaces
<1>4. CASE work[t] = f.dw
  <2>1. /\ steal' = steal /\ work' = [work EXCEPT ![t] = w]
        /\ nextWork' = nextWork /\ free' = free /\ loot' = loot /\ word' = word /\ asleep' = asleep
        /\ left' = left /\ pool' = pool /\ started' = started /\ finished' = finished
        /\ Moves(t, g)
    BY <1>4 DEF Took, Moves
  <2>2. t \in Workers /\ Len(stack[t]) = 1 /\ t # Main
    BY <1>1, <1>3, LowFacts
  <2>3. w \in Works /\ w \in Mode.pooled
    BY <1>1, <1>2 DEF Good
  <2>4. Types'
    BY <2>1, <2>3 DEF Inv, Types
  <2>5. g \in Frames /\ g.at = "execute" /\ g.dw = w
    BY <1>2, <2>3 DEF Frames, Places, AnyJobs
  <2>6. Moves(t, g)
    BY <2>1
  <2> HIDE DEF g
  <2>7. Good(T, Mode, g)
    BY <1>2, <2>3, <2>5
    DEF Good, JoinPlaces, BusyPlaces, WordPlaces, StandardPlaces, LoopPlaces, PairPlaces
  <2>8. Holds(g) = {w} /\ Holds(f) = {w}
    BY <1>1, <2>5 DEF Holds
  <2>9. PlaceOK(t, Len(stack[t]), g) /\ g.at # "wait"
    BY <2>2, <2>5 DEF PlaceOK, BusyPlaces
  <2>10. work \in [Workers -> Works \union {Null, Shutdown}]
    BY DEF Inv, Types
  <2>11. work'[t] = g.dw /\ \A u \in Workers : u # t => work'[u] = work[u]
    BY <2>1, <2>2, <2>5, <2>10
  <2>12. WorkKept(t, g, stack, work') /\ WorksGo(t, stack, work, work')
    BY <2>2, <2>11 DEF WorkKept, WorksGo
  <2>13. Holds(g) \subseteq Holds(Top(t))
    BY <2>8
  <2> DEFINE m == Mode
  <2>14. Wider(Mode, m) /\ Good(T, m, g)
    BY <2>7, WiderSame
  <2> HIDE DEF m, f
  <2>15. CoreOf(T, m, stack', work', nextWork', started')
    BY <1>1, <2>1, <2>5, <2>6, <2>9, <2>12, <2>13, <2>14, KeepStep
  <2>16. CoreOf(T, Mode, stack', work', nextWork', started')
    BY <2>15 DEF m
  <2>17. \A u \in Workers : steal => /\ work'[u] \in Works => work'[u] \in Mode.pooled
                                     /\ nextWork'[u] \in Works => nextWork'[u] \in Mode.pooled
    BY <2>1, <2>3, <2>5, <2>11 DEF Inv, Pooled
  <2> QED BY <2>1, <2>4, <2>16, <2>17, InvNext
<1>5. CASE work[t] # f.dw
  BY <1>5, FailsKeeps DEF Took
<1> QED BY <1>4, <1>5

-----------------------------------------------------------------------------
(* The joins of the standard mode *)

(* A work of a join is executed by the thread that joins it.                 *)
LEMMA UpExec ==
  ASSUME NEW T \in SUBSET Works, NEW root, IsTree(T, root), Inv(T), NEW t \in Threads, Running(t),
         Top(t).at \in JoinPlaces \union WordPlaces,
         NEW g \in Frames, g.at \in JoinPlaces \union WordPlaces,
         t = Main => ~Offering(g),
         Good(T, Mode, g), NEW w \in Works, w \in Holds(Top(t)),
         Holds(g) \subseteq Holds(Top(t)) \ {w}, Executes(t, g, w)
  PROVE  Inv(T)'
<1>1. PlaceOK(t, Len(stack[t]), g) /\ WorkKept(t, g, stack, work) /\ g.at # "wait"
  BY UpPlace
<1> DEFINE m == Mode
<1>2. Wider(Mode, m) /\ Good(T, m, g)
  BY WiderSame
<1> HIDE DEF m
<1>3. CoreOf(T, m, stack', work', nextWork', started') /\ started' \in [Works -> Nat]
  BY <1>1, <1>2, ExecStep
<1>4. CoreOf(T, Mode, stack', work', nextWork', started')
  BY <1>3 DEF m
<1>5. /\ steal' = steal /\ work' = work /\ nextWork' = nextWork /\ free' = free /\ loot' = loot
      /\ word' = word /\ asleep' = asleep /\ left' = left /\ pool' = pool /\ finished' = finished
  BY DEF Executes, poolVars
<1>6. Types'
  BY <1>3, <1>5 DEF Inv, Types
<1> QED BY <1>4, <1>5, <1>6, InvAgain

(* A work of a join is given to a thread that waits for work.                *)
LEMMA UpHand ==
  ASSUME NEW T \in SUBSET Works, Inv(T), NEW t \in Threads, Running(t),
         Top(t).at \in JoinPlaces \union WordPlaces,
         NEW g \in Frames, g.at \in JoinPlaces \union WordPlaces,
         t = Main => ~Offering(g),
         Good(T, Mode, g), Moves(t, g), NEW w \in Works, w \in Holds(Top(t)),
         Holds(g) \subseteq Holds(Top(t)) \ {w},
         NEW v \in Workers, work[v] = Null, work' = [work EXCEPT ![v] = w],
         steal => w \in Mode.pooled,
         steal' = steal, pool' = pool, nextWork' = nextWork, started' = started, Types'
  PROVE  Inv(T)'
<1>1. PlaceOK(t, Len(stack[t]), g) /\ g.at # "wait" /\ Len(stack[t]) # 1
  BY UpPlace
<1> DEFINE m == Mode
<1>2. Wider(Mode, m) /\ Good(T, m, g)
  BY WiderSame
<1> HIDE DEF m
<1>3. CoreOf(T, m, stack', work', nextWork', started')
  BY <1>1, <1>2, HandStep
<1>4. CoreOf(T, Mode, stack', work', nextWork', started')
  BY <1>3 DEF m
<1>5. work \in [Workers -> Works \union {Null, Shutdown}]
  BY DEF Inv, Types
<1>6. work'[v] = w /\ \A u \in Workers : u # v => work'[u] = work[u]
  BY <1>5
<1>7. \A u \in Workers : steal => /\ work'[u] \in Works => work'[u] \in Mode.pooled
                                  /\ nextWork'[u] \in Works => nextWork'[u] \in Mode.pooled
  BY <1>6 DEF Inv, Pooled
<1> QED BY <1>4, <1>7, InvNext

(* The works of a work differ.                                               *)
LEMMA ChildrenApart ==
  ASSUME NEW T \in SUBSET Works, NEW root, IsTree(T, root), NEW p \in T,
         NEW i \in 1..Len(Children[p]), NEW j \in 1..Len(Children[p]), Children[p][i] = Children[p][j]
  PROVE  i = j
BY ChildFacts DEF IsTree

(* The standard join executes a single work.                                 *)
LEMMA SingleKeeps ==
  ASSUME NEW T \in SUBSET Works, NEW root, IsTree(T, root), Inv(T), NEW t \in Threads, Single(t)
  PROVE  Inv(T)'
<1> DEFINE f == Top(t)
           w == Children[f.job][1]
           g == [f EXCEPT !.at = "joined"]
<1>1. Running(t) /\ f.at = "single" /\ Executes(t, g, w) /\ f.at \in JoinPlaces
  BY DEF Single, At, JoinPlaces, StandardPlaces
<1>2. f \in Frames /\ Good(T, Mode, f)
  BY <1>1, TopParts
<1>3. f.job \in T /\ Len(Children[f.job]) = 1
  BY <1>1, <1>2 DEF Good
<1>4. w \in Works /\ Holds(f) = Rest(f, 1) /\ w \in Rest(f, 1)
  <2>1. 1 \in 1..Len(Children[f.job])
    BY <1>3
  <2>2. w \in Works
    BY <1>3, <2>1, ChildFacts
  <2>3. w \in Rest(f, 1)
    BY <2>1 DEF Rest
  <2>4. Holds(f) = Rest(f, 1)
    BY <1>1 DEF Holds
  <2> QED BY <2>2, <2>3, <2>4
<1>5. g \in Frames /\ g.at = "joined" /\ g.job = f.job
  BY <1>2 DEF Frames, Places
<1> HIDE DEF f, g, w
<1>6. Good(T, Mode, g) /\ Holds(g) = {} /\ g.at \in JoinPlaces /\ ~Offering(g)
  BY <1>3, <1>5 DEF Good, Holds, Offering, JoinPlaces, BusyPlaces, WordPlaces, StandardPlaces, LoopPlaces, PairPlaces
<1>7. w \in Holds(Top(t)) /\ Holds(g) \subseteq Holds(Top(t)) \ {w}
  BY <1>4, <1>6 DEF f
<1> QED BY <1>1, <1>4, <1>5, <1>6, <1>7, UpExec DEF f

(* It executes a direct work.                                                *)
LEMMA ExecuteDirectKeeps ==
  ASSUME NEW T \in SUBSET Works, NEW root, IsTree(T, root), Inv(T), NEW t \in Threads, ExecuteDirect(t)
  PROVE  Inv(T)'
<1> DEFINE f == Top(t)
           n == f.next
           w == f.direct[n]
           g == [f EXCEPT !.next = n + 1]
<1>1. Running(t) /\ f.at = "directly" /\ Executes(t, g, w) /\ f.at \in JoinPlaces
  <2>1. [f EXCEPT !.next = @ + 1] = g
    OBVIOUS
  <2> QED BY <2>1 DEF ExecuteDirect, At, JoinPlaces, StandardPlaces
<1>2. f \in Frames /\ Good(T, Mode, f) /\ Rested(f)
  BY <1>1, TopParts
<1>3. f.job \in T /\ ArraysApart(f) /\ n <= Len(f.direct) /\ n \in Nat \ {0} /\ f.direct \in Seq(Works)
      /\ Mode.steal # TRUE
  BY <1>1, <1>2 DEF Good, Rested, Frames, StandardPlaces
<1>4. n \in 1..Len(f.direct) /\ Len(f.direct) \in Nat
  BY <1>3
<1>5. g \in Frames /\ g.at = "directly" /\ g.next = n + 1 /\ g.job = f.job /\ g.direct = f.direct
      /\ g.threaded = f.threaded
  BY <1>1, <1>2, <1>3 DEF Frames
<1>6. w \in Works /\ w \in DirectFrom(f, n)
  BY <1>3, <1>4 DEF DirectFrom
<1> HIDE DEF g
<1>7. Holds(g) = DirectFrom(g, n + 1) /\ Holds(f) = DirectFrom(f, n)
  BY <1>1, <1>5 DEF Holds
<1>8. DirectFrom(g, n + 1) \subseteq DirectFrom(f, n) \ {w}
  <2> SUFFICES ASSUME NEW i \in (n + 1)..Len(f.direct)
               PROVE  f.direct[i] \in DirectFrom(f, n) \ {w}
    BY <1>5 DEF DirectFrom
  <2>1. i \in n..Len(f.direct) /\ i \in 1..Len(f.direct) /\ i # n
    BY <1>3, <1>4
  <2>2. f.direct[i] # w
    BY <1>3, <1>4, <2>1 DEF ArraysApart
  <2> QED BY <2>1, <2>2 DEF DirectFrom
<1>9. ArraysApart(g)
  BY <1>3, <1>5 DEF ArraysApart
<1>10. Good(T, Mode, g) /\ g.at \in JoinPlaces /\ ~Offering(g)
  BY <1>3, <1>5, <1>9 DEF Good, Offering, JoinPlaces, BusyPlaces, WordPlaces, StandardPlaces, LoopPlaces, PairPlaces
<1>11. w \in Holds(Top(t)) /\ Holds(g) \subseteq Holds(Top(t)) \ {w} /\ Top(t).at \in JoinPlaces
  BY <1>1, <1>6, <1>7, <1>8
<1> HIDE DEF w, f
<1> QED BY <1>1, <1>5, <1>6, <1>10, <1>11, UpExec

(* It waits for a thread it gave a work to.                                  *)
LEMMA AwaitKeeps ==
  ASSUME NEW T \in SUBSET Works, Inv(T), NEW t \in Threads, Await(t)
  PROVE  Inv(T)'
<1> DEFINE f == Top(t)
           tw == f.threaded[f.next][1]
           g == [f EXCEPT !.at = "reset", !.tw = tw]
<1>1. Running(t) /\ f.at = "await" /\ f.at \in JoinPlaces
  BY DEF Await, At, JoinPlaces, StandardPlaces
<1>2. f \in Frames /\ Good(T, Mode, f) /\ Rested(f)
  BY <1>1, TopParts
<1>3. CASE tw = Main
  BY <1>3, FailsKeeps DEF Await
<1>4. CASE tw # Main
  <2>1. /\ steal' = steal /\ work' = work /\ nextWork' = nextWork /\ free' = free /\ loot' = loot
        /\ word' = word /\ asleep' = asleep /\ left' = left /\ pool' = pool
        /\ started' = started /\ finished' = finished
    BY <1>4 DEF Await, poolVars
  <2>2. Types'
    BY <2>1 DEF Inv, Types
  <2>3. tw \in Workers
    <3>1. f.threaded \in Seq(Threads \X AnyJobs) /\ f.next \in 1..Len(f.threaded)
      BY <1>1, <1>2, FrameParts DEF Rested
    <3>2. f.threaded[f.next] \in Threads \X AnyJobs
      BY <3>1
    <3> QED BY <1>4, <3>2 DEF Threads
  <2>4. f.job \in T /\ Mode.steal # TRUE
    BY <1>1, <1>2 DEF Good, StandardPlaces
  <2>5. CASE work[tw] = Null
    <3>1. Moves(t, g)
      BY <1>4, <2>5 DEF Await, Moves
    <3>2. g \in Frames /\ g.at = "reset" /\ g.job = f.job /\ g.tw = tw
      BY <1>2, <2>3 DEF Frames, Places, Threads
    <3> HIDE DEF g, f
    <3>3. Good(T, Mode, g) /\ Holds(g) = {} /\ g.at \in JoinPlaces /\ ~Offering(g)
      BY <2>3, <2>4, <3>2
      DEF Good, Holds, Offering, JoinPlaces, BusyPlaces, WordPlaces, StandardPlaces, LoopPlaces, PairPlaces
    <3>4. Holds(g) \subseteq Holds(Top(t)) /\ Top(t).at \in JoinPlaces
      BY <1>1, <3>3 DEF f
    <3> QED BY <1>1, <2>1, <2>2, <3>1, <3>2, <3>3, <3>4, UpInv
  <2>6. CASE work[tw] # Null
    <3>1. DoneOf(tw) \in Words
      BY <2>3 DEF Words
    <3>2. Moves(t, f)
      BY <1>4, <2>6, <3>1 DEF Await, Moves
    <3>3. Holds(f) \subseteq Holds(Top(t)) /\ Top(t).at \in JoinPlaces /\ ~Offering(f)
      BY <1>1 DEF Offering
    <3> HIDE DEF f
    <3> QED BY <1>1, <1>2, <2>1, <2>2, <3>2, <3>3, UpInv
  <2> QED BY <2>5, <2>6
<1> QED BY <1>3, <1>4

(* It resets the word of that thread.                                        *)
LEMMA ResetKeeps ==
  ASSUME NEW T \in SUBSET Works, Inv(T), NEW t \in Threads, Reset(t)
  PROVE  Inv(T)'
<1> DEFINE f == Top(t)
           g == [f EXCEPT !.at = "release"]
<1>1. /\ Running(t) /\ f.at = "reset" /\ f.at \in JoinPlaces
      /\ steal' = steal /\ work' = work /\ nextWork' = nextWork /\ free' = free /\ loot' = loot
      /\ word' = [word EXCEPT ![DoneOf(f.tw)] = 0] /\ asleep' = asleep /\ left' = left /\ pool' = pool
      /\ started' = started /\ finished' = finished /\ Moves(t, g)
  BY DEF Reset, At, JoinPlaces, StandardPlaces, Goes, Moves
<1>2. f \in Frames /\ Good(T, Mode, f)
  BY <1>1, TopParts
<1>3. Types'
  BY <1>1 DEF Inv, Types
<1>4. f.job \in T /\ Mode.steal # TRUE /\ f.tw \in Workers
  BY <1>1, <1>2 DEF Good, StandardPlaces
<1>5. g \in Frames /\ g.at = "release" /\ g.job = f.job /\ g.tw = f.tw
  BY <1>2 DEF Frames, Places
<1>6. Moves(t, g)
  BY <1>1
<1> HIDE DEF g, f
<1>7. Good(T, Mode, g) /\ Holds(g) = {} /\ g.at \in JoinPlaces /\ ~Offering(g)
  BY <1>4, <1>5 DEF Good, Holds, Offering, JoinPlaces, BusyPlaces, WordPlaces, StandardPlaces, LoopPlaces, PairPlaces
<1>8. Holds(g) \subseteq Holds(Top(t)) /\ Top(t).at \in JoinPlaces
  BY <1>1, <1>7 DEF f
<1> QED BY <1>1, <1>3, <1>5, <1>6, <1>7, <1>8, UpInv

(* It gives the thread back.                                                 *)
LEMMA ReleaseKeeps ==
  ASSUME NEW T \in SUBSET Works, Inv(T), NEW t \in Threads, Release(t)
  PROVE  Inv(T)'
<1> DEFINE f == Top(t)
           n == f.next + 1
           g == [f EXCEPT !.at = "await", !.next = n, !.tw = Main]
<1>1. /\ Running(t) /\ f.at = "release" /\ f.at \in JoinPlaces
      /\ steal' = steal /\ work' = work /\ nextWork' = nextWork /\ free' = free \union {f.tw}
      /\ loot' = loot /\ word' = word /\ asleep' = asleep /\ left' = left /\ pool' = pool
      /\ started' = started /\ finished' = finished
  BY DEF Release, At, JoinPlaces, StandardPlaces
<1>2. f \in Frames /\ Good(T, Mode, f)
  BY <1>1, TopParts
<1>3. Moves(t, g)
  <2>1. [f EXCEPT !.at = "await", !.next = @ + 1, !.tw = Main] = g
    OBVIOUS
  <2>2. Becomes(t, [f EXCEPT !.at = "await", !.next = @ + 1, !.tw = Main])
    BY DEF Release
  <2>3. Becomes(t, g)
    BY <2>1, <2>2
  <2> QED BY <2>3 DEF Moves
<1>4. f.job \in T /\ Mode.steal # TRUE /\ f.tw \in Workers /\ n \in Nat \ {0}
  <2>1. f.next \in Nat \ {0}
    BY <1>2, FrameParts
  <2>2. f.job \in T /\ Mode.steal # TRUE /\ f.tw \in Workers
    BY <1>1, <1>2 DEF Good, StandardPlaces
  <2>3. \A k \in Nat \ {0} : k + 1 \in Nat \ {0}
    OBVIOUS
  <2>4. n \in Nat \ {0}
    BY <2>1, <2>3
  <2> QED BY <2>2, <2>4
<1>5. Types'
  BY <1>1, <1>4 DEF Inv, Types
<1> HIDE DEF n
<1>6. g \in Frames /\ g.at = "await" /\ g.job = f.job
  BY <1>2, <1>4, Threads0 DEF Frames, Places
<1> HIDE DEF g, f
<1>7. Good(T, Mode, g) /\ Holds(g) = {} /\ g.at \in JoinPlaces /\ ~Offering(g)
  BY <1>4, <1>6 DEF Good, Holds, Offering, JoinPlaces, BusyPlaces, WordPlaces, StandardPlaces, LoopPlaces, PairPlaces
<1>8. Holds(g) \subseteq Holds(Top(t)) /\ Top(t).at \in JoinPlaces
  BY <1>1, <1>7 DEF f
<1> QED BY <1>1, <1>3, <1>5, <1>6, <1>7, <1>8, UpInv

(* One more work has a thread.                                               *)
LEMMA MoreThreaded ==
  ASSUME NEW f \in Frames, ArraysApart(f), Assigned(f, 1), NEW r \in Workers, NEW w \in Works,
         w \notin ThreadedFrom(f, 1), w \notin DirectFrom(f, 1),
         NEW g \in Frames, g.threaded = Append(f.threaded, <<r, w>>), g.direct = f.direct
  PROVE  /\ ArraysApart(g) /\ Assigned(g, 1) /\ g.threaded # <<>>
         /\ ThreadedFrom(g, 1) = ThreadedFrom(f, 1) \union {w} /\ DirectFrom(g, 1) = DirectFrom(f, 1)
<1> DEFINE q == f.threaded
           n == Len(q)
           e == <<r, w>>
           p == g.threaded
           d == f.direct
<1>1. q \in Seq(Threads \X AnyJobs) /\ e \in Threads \X AnyJobs /\ d \in Seq(Works)
  BY FrameParts DEF Threads, AnyJobs
<1>2. e[1] = r /\ e[2] = w /\ e \in Workers \X Works
  OBVIOUS
<1> DEFINE S == Threads \X AnyJobs
<1>3. q \in Seq(S) /\ e \in S
  BY <1>1
<1>4. p = Append(q, e) /\ g.direct = d
  OBVIOUS
<1> HIDE DEF S, e, q, p
<1>5. /\ Len(p) = n + 1 /\ n \in Nat /\ p # <<>>
      /\ \A i \in 1..n + 1 : p[i] = IF i = n + 1 THEN e ELSE q[i]
  <2>1. Len(p) = n + 1 /\ n \in Nat /\ \A i \in 1..n + 1 : p[i] = IF i = n + 1 THEN e ELSE q[i]
    BY <1>3, <1>4, Appended
  <2> QED BY <2>1
<1>6. DOMAIN q = 1..n /\ DOMAIN p = 1..n + 1
  BY <1>3, <1>4, <1>5
<1> HIDE DEF n, d
<1>7. \A i \in 1..n : q[i] \in Workers \X Works /\ q[i][2] # w
  BY DEF Assigned, ThreadedFrom, q, n
<1>8. \A i \in 1..n + 1 : p[i] \in Workers \X Works
  BY <1>2, <1>5, <1>7
<1>9. \A i, j \in 1..n + 1 : p[i][2] = p[j][2] /\ p[i][2] # Null => i = j
  <2>1. \A i, j \in 1..n : q[i][2] = q[j][2] /\ q[i][2] # Null => i = j
    BY <1>6 DEF ArraysApart, q
  <2> QED BY <1>2, <1>5, <1>7, <2>1
<1>10. \A i \in DOMAIN d, j \in 1..n + 1 : d[i] # p[j][2]
  <2>1. \A i \in DOMAIN d, j \in 1..n : d[i] # q[j][2]
    BY <1>6 DEF ArraysApart, q, d
  <2>2. \A i \in DOMAIN d : d[i] # w
    BY <1>1 DEF DirectFrom, d
  <2> QED BY <1>2, <1>5, <2>1, <2>2
<1>11. ArraysApart(g)
  <2>1. \A i, j \in DOMAIN g.direct : g.direct[i] = g.direct[j] => i = j
    BY DEF ArraysApart
  <2> QED BY ZenonT(60), <1>4, <1>6, <1>9, <1>10, <2>1 DEF ArraysApart, p, d
<1>12. Assigned(g, 1)
  BY <1>5, <1>8 DEF Assigned, p
<1>13. ThreadedFrom(g, 1) = {p[i][2] : i \in 1..n + 1} /\ ThreadedFrom(f, 1) = {q[i][2] : i \in 1..n}
  BY <1>5 DEF ThreadedFrom, p, q, n
<1>14. {p[i][2] : i \in 1..n + 1} = {q[i][2] : i \in 1..n} \union {w}
  <2>1. n + 1 \in 1..n + 1 /\ \A i \in 1..n + 1 : i # n + 1 => i \in 1..n
    BY <1>5
  <2>2. \A i \in 1..n : i \in 1..n + 1 /\ i # n + 1
    BY <1>5
  <2>3. \A i \in 1..n : p[i][2] = q[i][2]
    BY <1>5, <2>2
  <2>4. p[n + 1][2] = w
    BY <1>2, <1>5, <2>1
  <2> QED BY <2>1, <2>2, <2>3, <2>4
<1>15. DirectFrom(g, 1) = DirectFrom(f, 1)
  BY DEF DirectFrom
<1> QED BY <1>5, <1>11, <1>12, <1>13, <1>14, <1>15 DEF p

(* One more work is a direct one; the array of threads has it no longer.     *)
LEMMA MoreDirect ==
  ASSUME NEW f \in Frames, ArraysApart(f), NEW w \in Works, w \notin DirectFrom(f, 1),
         NEW g \in Frames, g.direct = Append(f.direct, w),
         Len(g.threaded) = Len(f.threaded),
         \A i \in 1..Len(f.threaded) : /\ g.threaded[i][2] # w
                                       /\ g.threaded[i][2] \in {f.threaded[i][2], Null}
  PROVE  /\ ArraysApart(g) /\ g.direct # <<>> /\ DirectFrom(g, 1) = DirectFrom(f, 1) \union {w}
         /\ Len(g.direct) = Len(f.direct) + 1
<1> DEFINE q == f.direct
           n == Len(q)
           p == g.direct
           a == f.threaded
           b == g.threaded
           N == 1..Len(a)
<1>1. /\ q \in Seq(Works) /\ a \in Seq(Threads \X AnyJobs) /\ b \in Seq(Threads \X AnyJobs)
      /\ DOMAIN a = N /\ DOMAIN b = N
  BY FrameParts
<1>2. p = Append(q, w)
  OBVIOUS
<1> HIDE DEF q, p
<1>3. Len(p) = n + 1 /\ n \in Nat /\ \A i \in 1..n + 1 : p[i] = IF i = n + 1 THEN w ELSE q[i]
  BY <1>1, <1>2, Appended
<1>4. DOMAIN q = 1..n /\ DOMAIN p = 1..n + 1 /\ p # <<>>
  BY <1>1, <1>2, <1>3
<1> HIDE DEF n, a, b, N
<1>5. \A i \in 1..n : q[i] # w /\ q[i] \in Works
  BY <1>1, <1>4 DEF DirectFrom, q, n
<1>6. \A i, j \in 1..n + 1 : p[i] = p[j] => i = j
  <2>1. \A i, j \in 1..n : q[i] = q[j] => i = j
    BY <1>4 DEF ArraysApart, q
  <2> QED BY <1>3, <1>5, <2>1
<1>7. \A i \in N : b[i][2] # w /\ b[i][2] \in {a[i][2], Null}
  BY DEF a, b, N
<1>8. \A i, j \in N : b[i][2] = b[j][2] /\ b[i][2] # Null => i = j
  <2>1. \A i, j \in N : a[i][2] = a[j][2] /\ a[i][2] # Null => i = j
    BY <1>1 DEF ArraysApart, a
  <2> QED BY <1>7, <2>1
<1>9. \A i \in 1..n + 1, j \in N : p[i] # b[j][2]
  <2>1. \A i \in 1..n, j \in N : q[i] # a[j][2]
    BY <1>1, <1>4 DEF ArraysApart, a, q
  <2>2. \A i \in 1..n + 1 : p[i] \in Works
    BY <1>3, <1>5
  <2>3. ASSUME NEW i \in 1..n + 1, NEW j \in N
        PROVE  p[i] # b[j][2]
    <3>1. CASE i = n + 1
      BY <1>3, <1>7, <3>1
    <3>2. CASE i # n + 1
      <4>1. i \in 1..n /\ p[i] = q[i]
        BY <1>3, <3>2
      <4> QED BY <1>7, <2>1, <2>2, <4>1, Words0
    <3> QED BY <3>1, <3>2
  <2> QED BY <2>3
<1>10. ArraysApart(g)
  BY <1>1, <1>4, <1>6, <1>8, <1>9 DEF ArraysApart, p, b
<1>11. DirectFrom(g, 1) = {p[i] : i \in 1..n + 1} /\ DirectFrom(f, 1) = {q[i] : i \in 1..n}
  BY <1>3 DEF DirectFrom, p, q, n
<1>12. {p[i] : i \in 1..n + 1} = {q[i] : i \in 1..n} \union {w}
  <2>1. n + 1 \in 1..n + 1 /\ \A i \in 1..n + 1 : i # n + 1 => i \in 1..n
    BY <1>3
  <2>2. \A i \in 1..n : i \in 1..n + 1 /\ i # n + 1
    BY <1>3
  <2>3. \A i \in 1..n : p[i] = q[i]
    BY <1>3, <2>2
  <2>4. p[n + 1] = w
    BY <1>3, <2>1
  <2> QED BY SMTT(60), <2>1, <2>2, <2>3, <2>4
<1> QED BY <1>3, <1>4, <1>10, <1>11, <1>12 DEF p, n, q

(* The last work that has a thread becomes the direct one.                   *)
LEMMA LastDirect ==
  ASSUME NEW f \in Frames, ArraysApart(f), Assigned(f, 1), f.threaded # <<>>,
         NEW g \in Frames, g.threaded = Front(f.threaded), g.direct = <<Last(f.threaded)[2]>>
  PROVE  /\ ArraysApart(g) /\ Assigned(g, 1) /\ g.direct # <<>> /\ Last(f.threaded)[1] \in Workers
         /\ ThreadedFrom(g, 1) \subseteq ThreadedFrom(f, 1)
         /\ DirectFrom(g, 1) \subseteq ThreadedFrom(f, 1)
<1> DEFINE q == f.threaded
           n == Len(q)
           p == g.threaded
           d == g.direct
           w == q[n][2]
           S == Threads \X AnyJobs
<1>1. q \in Seq(S) /\ q # <<>>
  BY FrameParts
<1> HIDE DEF S
<1>2. n \in Nat \ {0} /\ Last(q) = q[n]
  BY <1>1, TopFacts
<1>3. p = Front(q) /\ d = <<w>>
  BY <1>2
<1> HIDE DEF q, p, d
<1>4. Len(p) = n - 1 /\ p \in Seq(S) /\ \A i \in 1..n - 1 : p[i] = q[i]
  BY <1>1, <1>3, Prefix
<1>5. DOMAIN q = 1..n /\ DOMAIN p = 1..n - 1 /\ DOMAIN d = {1} /\ d[1] = w /\ Len(d) = 1 /\ d # <<>>
  BY <1>1, <1>2, <1>3, <1>4
<1> HIDE DEF n
<1>6. \A i \in 1..n : q[i] \in Workers \X Works
  BY DEF Assigned, q, n
<1>7. \A i \in 1..n - 1 : i \in 1..n /\ i # n
  BY <1>2
<1>8. n \in 1..n /\ q[n][1] \in Workers /\ w \in Works
  BY <1>2, <1>6
<1>9. \A i, j \in 1..n : q[i][2] = q[j][2] /\ q[i][2] # Null => i = j
  BY <1>5 DEF ArraysApart, q
<1>10. \A i, j \in 1..n - 1 : p[i][2] = p[j][2] /\ p[i][2] # Null => i = j
  BY <1>4, <1>7, <1>9
<1>11. \A j \in 1..n - 1 : w # p[j][2]
  BY <1>4, <1>7, <1>8, <1>9, Words0
<1>12. ArraysApart(g)
  BY <1>5, <1>10, <1>11 DEF ArraysApart, p, d
<1>13. Assigned(g, 1)
  BY <1>4, <1>6, <1>7 DEF Assigned, p
<1>14. ThreadedFrom(g, 1) \subseteq ThreadedFrom(f, 1)
  <2>1. ThreadedFrom(g, 1) = {p[i][2] : i \in 1..n - 1} /\ ThreadedFrom(f, 1) = {q[i][2] : i \in 1..n}
    BY <1>4 DEF ThreadedFrom, p, q, n
  <2> QED BY <1>4, <1>7, <2>1
<1>15. DirectFrom(g, 1) \subseteq ThreadedFrom(f, 1)
  <2>1. DirectFrom(g, 1) = {d[i] : i \in 1..1} /\ ThreadedFrom(f, 1) = {q[i][2] : i \in 1..n}
    BY <1>5 DEF DirectFrom, ThreadedFrom, d, q, n
  <2>2. \A i \in 1..1 : d[i] = q[n][2]
    BY <1>5
  <2> QED BY <1>8, <2>1, <2>2
<1> QED BY <1>2, <1>5, <1>8, <1>12, <1>13, <1>14, <1>15 DEF q, d

(* The works that are left from the next one on.                             *)
LEMMA RestParts ==
  ASSUME NEW T \in SUBSET Works, NEW root, IsTree(T, root), NEW f \in Frames, f.job \in T, More(f)
  PROVE  /\ Next1(f) \in T /\ Next1(f) \in Works /\ Next1(f) \in Rest(f, f.next)
         /\ Rest(f, f.next + 1) \subseteq Rest(f, f.next) \ {Next1(f)}
         /\ f.next \in 1..Len(Children[f.job])
<1> DEFINE C == Children[f.job]
           n == f.next
           N == Len(C)
<1>1. N \in Nat /\ n \in Nat \ {0} /\ n <= N /\ \A i \in 1..N : C[i] \in Works
  <2>1. n \in Nat \ {0} /\ n <= N
    BY FrameParts DEF More
  <2> QED BY <2>1, ChildFacts
<1>2. \A i, j \in 1..N : C[i] = C[j] => i = j
  BY ChildrenApart
<1>3. \A i \in 1..N : C[i] \in T
  BY ChildFacts DEF IsTree
<1>4. Rest(f, n) = {C[i] : i \in n..N} /\ Rest(f, n + 1) = {C[i] : i \in (n + 1)..N} /\ Next1(f) = C[n]
  BY DEF Rest, Next1
<1> HIDE DEF C, N, n
<1>5. n \in 1..N /\ n \in n..N /\ \A i \in (n + 1)..N : i \in n..N /\ i \in 1..N /\ i # n
  BY <1>1
<1>6. {C[i] : i \in (n + 1)..N} \subseteq {C[i] : i \in n..N} \ {C[n]}
  BY <1>2, <1>5
<1>7. C[n] \in {C[i] : i \in n..N} /\ C[n] \in Works /\ C[n] \in T
  BY <1>1, <1>3, <1>5
<1> QED BY <1>4, <1>5, <1>6, <1>7 DEF C, N, n

(* It assigns the next work to a thread, or to itself.                       *)
LEMMA AssignKeeps ==
  ASSUME NEW T \in SUBSET Works, NEW root, IsTree(T, root), Inv(T), NEW t \in Threads, Assign(t)
  PROVE  Inv(T)'
<1> DEFINE f == Top(t)
           n == f.next
           w == Next1(f)
           r == Reserved
           g == [f EXCEPT !.next = n + 1, !.threaded = Append(f.threaded, <<r, w>>)]
           h == [f EXCEPT !.next = n + 1, !.direct = Append(f.direct, w)]
<1>1. /\ Running(t) /\ f.at = "assign" /\ f.at \in JoinPlaces /\ More(f)
      /\ steal' = steal /\ work' = work /\ nextWork' = nextWork /\ loot' = loot
      /\ word' = word /\ asleep' = asleep /\ left' = left /\ pool' = pool
      /\ started' = started /\ finished' = finished
  BY DEF Assign, At, JoinPlaces, StandardPlaces
<1>2. f \in Frames /\ Good(T, Mode, f)
  BY <1>1, TopParts
<1>3. /\ f.job \in T /\ Mode.steal # TRUE /\ Len(Children[f.job]) > 1 /\ ArraysApart(f) /\ Assigned(f, 1)
      /\ Rest(f, n) \intersect (ThreadedFrom(f, 1) \union DirectFrom(f, 1)) = {}
  BY <1>1, <1>2 DEF Good, StandardPlaces
<1>4. n \in Nat \ {0} /\ f.threaded \in Seq(Threads \X AnyJobs) /\ f.direct \in Seq(Works)
  BY <1>2, FrameParts
<1>5. w \in Works /\ w \in Rest(f, n) /\ Rest(f, n + 1) \subseteq Rest(f, n) \ {w}
  BY <1>1, <1>2, <1>3, RestParts
<1>6. w \notin ThreadedFrom(f, 1) /\ w \notin DirectFrom(f, 1)
  BY <1>3, <1>5
<1>7. Holds(f) = Rest(f, n) \union ThreadedFrom(f, 1) \union DirectFrom(f, 1)
  BY <1>1 DEF Holds
<1>8. \/ free # {} /\ free' = free \ {r} /\ Moves(t, g)
      \/ free' = free /\ Moves(t, h)
  <2>1. /\ [f EXCEPT !.next = @ + 1, !.threaded = Append(@, <<r, w>>)] = g
        /\ [f EXCEPT !.next = @ + 1, !.direct = Append(@, w)] = h
    OBVIOUS
  <2>2. \/ free # {} /\ free' = free \ {r} /\ Becomes(t, [f EXCEPT !.next = @ + 1, !.threaded = Append(@, <<r, w>>)])
        \/ free' = free /\ Becomes(t, [f EXCEPT !.next = @ + 1, !.direct = Append(@, w)])
    BY DEF Assign
  <2>3. \/ free # {} /\ free' = free \ {r} /\ Becomes(t, g)
        \/ free' = free /\ Becomes(t, h)
    BY <2>1, <2>2
  <2> QED BY <2>3 DEF Moves
<1>9. Types'
  BY <1>1, <1>8 DEF Inv, Types
<1>10. ASSUME NEW x \in Frames, x.at = "assign", x.job = f.job, x.next = n + 1,
              ArraysApart(x), Assigned(x, 1), x.threaded # <<>> \/ x.direct # <<>>,
              ThreadedFrom(x, 1) \union DirectFrom(x, 1) =
                ThreadedFrom(f, 1) \union DirectFrom(f, 1) \union {w},
              Moves(t, x)
       PROVE  Inv(T)'
  <2>1. Rest(x, n + 1) = Rest(f, n + 1)
    BY <1>10 DEF Rest
  <2>2. Rest(x, x.next) \intersect (ThreadedFrom(x, 1) \union DirectFrom(x, 1)) = {}
    BY <1>3, <1>5, <1>10, <2>1
  <2>3. Holds(x) = Rest(f, n + 1) \union ThreadedFrom(x, 1) \union DirectFrom(x, 1)
    BY <1>10, <2>1 DEF Holds
  <2>4. Holds(x) \subseteq Holds(f)
    BY <1>5, <1>7, <1>10, <2>3
  <2>5. x.at \in JoinPlaces /\ Holds(x) \subseteq Holds(Top(t)) /\ Top(t).at \in JoinPlaces
        /\ ~Offering(x)
    BY <1>1, <1>10, <2>4 DEF Offering
  <2> HIDE DEF f, n, w
  <2>6. Good(T, Mode, x)
    BY <1>3, <1>10, <2>2
    DEF Good, JoinPlaces, BusyPlaces, WordPlaces, StandardPlaces, LoopPlaces, PairPlaces
  <2> QED BY <1>1, <1>9, <1>10, <2>5, <2>6, UpInv
<1>11. CASE free # {} /\ free' = free \ {r} /\ Moves(t, g)
  <2>1. r \in Workers
    <3>1. free \in SUBSET Nat /\ free \subseteq Workers
      BY Threads0 DEF Inv, Types
    <3> QED BY <1>11, <3>1, MinFacts DEF Reserved
  <2> DEFINE q == Append(f.threaded, <<r, w>>)
  <2>2. q \in Seq(Threads \X AnyJobs)
    <3>1. <<r, w>> \in Threads \X AnyJobs
      BY <1>5, <2>1 DEF Threads, AnyJobs
    <3> QED BY <1>4, <3>1, Appended
  <2>3. n + 1 \in Nat \ {0}
    BY <1>4
  <2>4. g = [f EXCEPT !.next = n + 1, !.threaded = q] /\ q = Append(f.threaded, <<r, w>>)
    OBVIOUS
  <2> HIDE DEF q, r
  <2>5. /\ g \in Frames /\ g.at = "assign" /\ g.job = f.job /\ g.next = n + 1
        /\ g.threaded = q /\ g.direct = f.direct
    <3>1. q \in Assigns
      BY <2>2 DEF Assigns
    <3> DEFINE k == n + 1
    <3>2. k \in Nat \ {0} /\ g = [f EXCEPT !.next = k, !.threaded = q]
      BY <2>3, <2>4
    <3> HIDE DEF k, f, g
    <3>3. g \in Frames
      BY <1>2, <3>1, <3>2 DEF Frames
    <3>4. g.at = f.at /\ g.job = f.job /\ g.next = k /\ g.threaded = q /\ g.direct = f.direct
      BY <1>2, <3>2 DEF Frames
    <3> QED BY <1>1, <3>3, <3>4 DEF k
  <2>6. Moves(t, g)
    BY <1>11
  <2> HIDE DEF g
  <2>7. /\ ArraysApart(g) /\ Assigned(g, 1) /\ g.threaded # <<>>
        /\ ThreadedFrom(g, 1) = ThreadedFrom(f, 1) \union {w} /\ DirectFrom(g, 1) = DirectFrom(f, 1)
    <3>1. g.threaded = Append(f.threaded, <<r, w>>) /\ g.direct = f.direct
      BY <2>4, <2>5
    <3> HIDE DEF f, w
    <3> QED BY <1>2, <1>3, <1>5, <1>6, <2>1, <2>5, <3>1, MoreThreaded
  <2> QED BY <1>10, <2>5, <2>6, <2>7
<1>12. CASE free' = free /\ Moves(t, h)
  <2> DEFINE q == Append(f.direct, w)
  <2>2. q \in Seq(Works)
    BY <1>4, <1>5, Appended
  <2>3. n + 1 \in Nat \ {0}
    BY <1>4
  <2>4. h = [f EXCEPT !.next = n + 1, !.direct = q] /\ q = Append(f.direct, w)
    OBVIOUS
  <2> HIDE DEF q
  <2>5. /\ h \in Frames /\ h.at = "assign" /\ h.job = f.job /\ h.next = n + 1
        /\ h.threaded = f.threaded /\ h.direct = q
    <3> DEFINE k == n + 1
    <3>2. k \in Nat \ {0} /\ h = [f EXCEPT !.next = k, !.direct = q]
      BY <2>3, <2>4
    <3> HIDE DEF k, f, h
    <3>3. h \in Frames
      BY <1>2, <2>2, <3>2 DEF Frames
    <3>4. h.at = f.at /\ h.job = f.job /\ h.next = k /\ h.threaded = f.threaded /\ h.direct = q
      BY <1>2, <3>2 DEF Frames
    <3> QED BY <1>1, <3>3, <3>4 DEF k
  <2>6. Moves(t, h)
    BY <1>12
  <2> HIDE DEF h
  <2>7. ArraysApart(h) /\ h.direct # <<>> /\ DirectFrom(h, 1) = DirectFrom(f, 1) \union {w}
    <3>1. h.direct = Append(f.direct, w) /\ Len(h.threaded) = Len(f.threaded)
      BY <2>4, <2>5
    <3>2. \A i \in 1..Len(f.threaded) : /\ h.threaded[i][2] # w
                                        /\ h.threaded[i][2] \in {f.threaded[i][2], Null}
      BY <1>6, <2>5 DEF ThreadedFrom
    <3> HIDE DEF f, w
    <3> QED BY SMTT(60), <1>2, <1>3, <1>5, <1>6, <2>5, <3>1, <3>2, MoreDirect
  <2>8. ThreadedFrom(h, 1) = ThreadedFrom(f, 1) /\ Assigned(h, 1)
    BY <1>3, <2>5 DEF ThreadedFrom, Assigned
  <2> QED BY <1>10, <2>5, <2>6, <2>7, <2>8
<1> QED BY <1>8, <1>11, <1>12

(* It takes a work from the last thread if it has none itself.               *)
LEMMA BalanceHolds ==
  ASSUME NEW T \in SUBSET Works, Inv(T), NEW t \in Threads, Balance(t)
  PROVE  Inv(T)'
<1> DEFINE f == Top(t)
           g == [f EXCEPT !.at = "submit", !.next = 1]
           d == <<Last(f.threaded)[2]>>
           q == Front(f.threaded)
           h == [f EXCEPT !.at = "submit", !.next = 1, !.direct = d, !.threaded = q]
<1>1. /\ Running(t) /\ f.at = "assign" /\ f.at \in JoinPlaces /\ ~More(f)
      /\ steal' = steal /\ work' = work /\ nextWork' = nextWork /\ loot' = loot
      /\ word' = word /\ asleep' = asleep /\ left' = left /\ pool' = pool
      /\ started' = started /\ finished' = finished
  BY DEF Balance, At, JoinPlaces, StandardPlaces
<1>2. f \in Frames /\ Good(T, Mode, f)
  BY <1>1, TopParts
<1>3. /\ f.job \in T /\ Mode.steal # TRUE /\ Len(Children[f.job]) > 1 /\ ArraysApart(f) /\ Assigned(f, 1)
      /\ f.next > 1 => f.threaded # <<>> \/ f.direct # <<>>
  BY <1>1, <1>2 DEF Good, StandardPlaces
<1>4. f.next > 1
  <2>1. f.next \in Nat /\ Len(Children[f.job]) \in Nat
    BY <1>2, <1>3, FrameParts, ChildFacts
  <2> DEFINE k == f.next
             N == Len(Children[f.job])
  <2>2. k \in Nat /\ N \in Nat /\ N > 1 /\ ~(k <= N)
    BY <1>1, <1>3, <2>1 DEF More
  <2> HIDE DEF k, N
  <2>3. k > 1
    BY <2>2
  <2> QED BY <2>3 DEF k
<1>5. ThreadedFrom(f, 1) \union DirectFrom(f, 1) \subseteq Holds(f)
  BY <1>1 DEF Holds
<1>6. ASSUME NEW x \in Frames, x.at = "submit", x.job = f.job, x.next = 1,
             ArraysApart(x), Assigned(x, 1), x.direct # <<>>,
             ThreadedFrom(x, 1) \union DirectFrom(x, 1) \subseteq
               ThreadedFrom(f, 1) \union DirectFrom(f, 1),
             Moves(t, x), Types'
      PROVE  Inv(T)'
  <2>1. Holds(x) = ThreadedFrom(x, 1) \union DirectFrom(x, 1)
    BY <1>6 DEF Holds
  <2>2. x.at \in JoinPlaces /\ Holds(x) \subseteq Holds(Top(t)) /\ Top(t).at \in JoinPlaces
        /\ ~Offering(x)
    BY <1>1, <1>5, <1>6, <2>1 DEF JoinPlaces, StandardPlaces, Offering
  <2> HIDE DEF f
  <2>3. Good(T, Mode, x)
    BY <1>3, <1>6
    DEF Good, JoinPlaces, BusyPlaces, WordPlaces, StandardPlaces, LoopPlaces, PairPlaces
  <2> QED BY <1>1, <1>6, <2>2, <2>3, UpInv
<1>7. CASE f.direct # <<>>
  <2>1. free' = free /\ Moves(t, g)
    BY <1>7 DEF Balance, Moves
  <2>2. Types'
    BY <1>1, <2>1 DEF Inv, Types
  <2>3. /\ g \in Frames /\ g.at = "submit" /\ g.job = f.job /\ g.next = 1
        /\ g.threaded = f.threaded /\ g.direct = f.direct
    <3> DEFINE at == "submit"
               k == 1
    <3>1. g = [f EXCEPT !.at = at, !.next = k] /\ at \in Places /\ k \in Nat \ {0}
      BY DEF Places
    <3> HIDE DEF f, g, at, k
    <3>2. g \in Frames
      BY <1>2, <3>1 DEF Frames
    <3>3. /\ g.at = "submit" /\ g.job = f.job /\ g.next = 1
          /\ g.threaded = f.threaded /\ g.direct = f.direct
      BY <1>2, <3>1 DEF Frames, at, k
    <3> QED BY <3>2, <3>3
  <2>4. Moves(t, g)
    BY <2>1
  <2> HIDE DEF g
  <2>5. ArraysApart(g) /\ Assigned(g, 1) /\ ThreadedFrom(g, 1) = ThreadedFrom(f, 1)
        /\ DirectFrom(g, 1) = DirectFrom(f, 1)
    BY <1>3, <2>3 DEF ArraysApart, Assigned, ThreadedFrom, DirectFrom
  <2> QED BY <1>6, <1>7, <2>2, <2>3, <2>4, <2>5
<1>8. CASE f.direct = <<>>
  <2>1. f.threaded # <<>> /\ f.threaded \in Seq(Threads \X AnyJobs)
    BY <1>2, <1>3, <1>4, <1>8, FrameParts
  <2>2. Last(f.threaded) \in Workers \X Works
    <3>1. Last(f.threaded) = f.threaded[Len(f.threaded)] /\ Len(f.threaded) \in Nat \ {0}
      BY <2>1, TopFacts
    <3> QED BY <1>3, <3>1 DEF Assigned
  <2>3. free' = free \union {Last(f.threaded)[1]} /\ Moves(t, h)
    <3>1. [f EXCEPT !.at = "submit", !.next = 1, !.direct = <<Last(f.threaded)[2]>>,
                    !.threaded = Front(@)] = h
      OBVIOUS
    <3>2. free' = free \union {Last(f.threaded)[1]}
          /\ Becomes(t, [f EXCEPT !.at = "submit", !.next = 1, !.direct = <<Last(f.threaded)[2]>>,
                    !.threaded = Front(@)])
      BY <1>8 DEF Balance
    <3>3. Becomes(t, h)
      BY <3>1, <3>2
    <3> QED BY <3>2, <3>3 DEF Moves
  <2>4. Types'
    BY <1>1, <2>2, <2>3 DEF Inv, Types
  <2>5. d \in Seq(Works) /\ q \in Seq(Threads \X AnyJobs)
    BY <2>1, <2>2, Prefix
  <2>6. h = [f EXCEPT !.at = "submit", !.next = 1, !.direct = d, !.threaded = q]
    OBVIOUS
  <2>7. q = Front(f.threaded) /\ d = <<Last(f.threaded)[2]>>
    OBVIOUS
  <2> HIDE DEF d, q
  <2>8. /\ h \in Frames /\ h.at = "submit" /\ h.job = f.job /\ h.next = 1
        /\ h.threaded = q /\ h.direct = d
    <3> DEFINE at == "submit"
               k == 1
    <3>1. q \in Assigns /\ at \in Places /\ k \in Nat \ {0}
      BY <2>5 DEF Assigns, Places
    <3>4. h = [f EXCEPT !.at = at, !.next = k, !.direct = d, !.threaded = q]
      BY <2>6
    <3> HIDE DEF f, h, at, k
    <3>2. h \in Frames
      BY <1>2, <2>5, <3>1, <3>4 DEF Frames
    <3>3. h.at = "submit" /\ h.job = f.job /\ h.next = 1 /\ h.threaded = q /\ h.direct = d
      BY <1>2, <2>6 DEF Frames
    <3> QED BY <3>2, <3>3
  <2>9. Moves(t, h)
    BY <2>3
  <2> HIDE DEF h
  <2>10. /\ ArraysApart(h) /\ Assigned(h, 1) /\ h.direct # <<>>
         /\ ThreadedFrom(h, 1) \subseteq ThreadedFrom(f, 1)
         /\ DirectFrom(h, 1) \subseteq ThreadedFrom(f, 1)
    <3>1. h.threaded = Front(f.threaded) /\ h.direct = <<Last(f.threaded)[2]>>
      BY <2>7, <2>8
    <3> HIDE DEF f
    <3> QED BY <1>2, <1>3, <2>1, <2>8, <3>1, LastDirect
  <2> QED BY <1>6, <2>4, <2>8, <2>9, <2>10
<1> QED BY <1>7, <1>8

(* The work that is submitted next, and the ones after it.                   *)
LEMMA SubmitParts ==
  ASSUME NEW f \in Frames, ArraysApart(f), Assigned(f, f.next), f.next <= Len(f.threaded)
  PROVE  /\ f.next \in 1..Len(f.threaded) /\ f.threaded[f.next] \in Workers \X Works
         /\ f.threaded[f.next][2] \in ThreadedFrom(f, f.next)
         /\ ThreadedFrom(f, f.next + 1) \subseteq ThreadedFrom(f, f.next) \ {f.threaded[f.next][2]}
         /\ f.threaded[f.next][2] \notin DirectFrom(f, 1)
         /\ \A i \in 1..Len(f.threaded) : i # f.next => f.threaded[i][2] # f.threaded[f.next][2]
<1> DEFINE q == f.threaded
           d == f.direct
           n == f.next
           N == Len(q)
           w == q[n][2]
<1>1. /\ n \in Nat \ {0} /\ N \in Nat /\ n <= N /\ DOMAIN q = 1..N /\ d \in Seq(Works)
  BY FrameParts
<1>2. n \in 1..N /\ n \in n..N
  BY <1>1
<1>3. q[n] \in Workers \X Works
  BY <1>2 DEF Assigned
<1>4. w \in Works
  BY <1>3
<1>5. \A i \in 1..N : i # n => q[i][2] # w
  BY <1>1, <1>2, <1>4, Words0 DEF ArraysApart
<1>6. \A i \in DOMAIN d : d[i] # w
  BY <1>1, <1>2 DEF ArraysApart
<1>7. ThreadedFrom(f, n + 1) = {q[i][2] : i \in (n + 1)..N} /\ ThreadedFrom(f, n) = {q[i][2] : i \in n..N}
  BY DEF ThreadedFrom
<1>8. w \notin DirectFrom(f, 1)
  BY <1>1, <1>6 DEF DirectFrom
<1> HIDE DEF q, d, n, N, w
<1>9. \A i \in (n + 1)..N : i \in n..N /\ i \in 1..N /\ i # n
  BY <1>1
<1>10. {q[i][2] : i \in (n + 1)..N} \subseteq {q[i][2] : i \in n..N} \ {w}
  BY <1>5, <1>9
<1>11. w \in {q[i][2] : i \in n..N}
  BY <1>2 DEF w
<1> QED BY <1>2, <1>3, <1>5, <1>7, <1>8, <1>10, <1>11 DEF q, n, N, w

(* It submits a work to its thread, or executes it after all.                *)
LEMMA SubmitThreadedKeeps ==
  ASSUME NEW T \in SUBSET Works, Inv(T), NEW t \in Threads, SubmitThreaded(t)
  PROVE  Inv(T)'
<1> DEFINE f == Top(t)
           n == f.next
           tw == f.threaded[n][1]
           w == f.threaded[n][2]
           g == [f EXCEPT !.next = n + 1]
           d == Append(f.direct, w)
           q == [f.threaded EXCEPT ![n] = <<Main, Null>>]
           h == [f EXCEPT !.next = n + 1, !.direct = d, !.threaded = q]
<1>1. /\ Running(t) /\ f.at = "submit" /\ f.at \in JoinPlaces
      /\ steal' = steal /\ nextWork' = nextWork /\ loot' = loot
      /\ word' = word /\ asleep' = asleep /\ left' = left /\ pool' = pool
      /\ started' = started /\ finished' = finished
  BY DEF SubmitThreaded, At, JoinPlaces, StandardPlaces
<1>2. f \in Frames /\ Good(T, Mode, f) /\ Rested(f)
  BY <1>1, TopParts
<1>3. /\ f.job \in T /\ Mode.steal # TRUE /\ ArraysApart(f) /\ Assigned(f, n) /\ f.direct # <<>>
      /\ n <= Len(f.threaded)
  BY <1>1, <1>2 DEF Good, Rested, StandardPlaces
<1>4. n \in Nat \ {0} /\ f.threaded \in Seq(Threads \X AnyJobs) /\ f.direct \in Seq(Works)
  BY <1>2, FrameParts
<1>5. /\ n \in 1..Len(f.threaded) /\ f.threaded[n] \in Workers \X Works
      /\ w \in ThreadedFrom(f, n)
      /\ ThreadedFrom(f, n + 1) \subseteq ThreadedFrom(f, n) \ {w}
      /\ w \notin DirectFrom(f, 1)
      /\ \A i \in 1..Len(f.threaded) : i # n => f.threaded[i][2] # w
  <2> HIDE DEF f
  <2> QED BY <1>2, <1>3, SubmitParts
<1>6. tw \in Workers /\ w \in Works
  BY <1>5
<1>7. Holds(f) = ThreadedFrom(f, n) \union DirectFrom(f, 1)
  BY <1>1 DEF Holds
<1>8. n + 1 \in Nat \ {0}
  BY <1>4
<1>9. steal # TRUE /\ (steal => w \in Mode.pooled)
  BY <1>3 DEF Mode, Inv, Types
<1>10. CASE work[tw] = Null
  <2>1. /\ work' = [work EXCEPT ![tw] = w] /\ free' = free
        /\ Calls(t, [f EXCEPT !.next = @ + 1], WordFrame("post", SubmitOf(tw)))
    BY <1>10 DEF SubmitThreaded
  <2>2. [f EXCEPT !.next = @ + 1] = g
    OBVIOUS
  <2>3. SubmitOf(tw) \in Words
    BY <1>6 DEF Words
  <2>4. Calls(t, g, WordFrame("post", SubmitOf(tw)))
    BY <2>1, <2>2
  <2>5. Moves(t, g)
    BY <2>3, <2>4 DEF Moves
  <2>6. Types'
    BY <1>1, <1>6, <2>1 DEF Inv, Types
  <2>7. /\ g \in Frames /\ g.at = "submit" /\ g.job = f.job /\ g.next = n + 1
        /\ g.threaded = f.threaded /\ g.direct = f.direct
    <3> DEFINE k == n + 1
    <3>1. k \in Nat \ {0} /\ g = [f EXCEPT !.next = k]
      BY <1>8
    <3> HIDE DEF k, f, g
    <3>2. g \in Frames
      BY <1>2, <3>1 DEF Frames
    <3>3. /\ g.at = f.at /\ g.job = f.job /\ g.next = k
          /\ g.threaded = f.threaded /\ g.direct = f.direct
      BY <1>2, <3>1 DEF Frames
    <3> QED BY <1>1, <3>2, <3>3 DEF k
  <2> HIDE DEF g
  <2>8. ArraysApart(g) /\ ThreadedFrom(g, n + 1) = ThreadedFrom(f, n + 1) /\ DirectFrom(g, 1) = DirectFrom(f, 1)
    BY <1>3, <2>7 DEF ArraysApart, ThreadedFrom, DirectFrom
  <2>9. Assigned(g, n + 1)
    <3> SUFFICES ASSUME NEW i \in (n + 1)..Len(f.threaded)
                 PROVE  f.threaded[i] \in Workers \X Works
      BY <2>7 DEF Assigned
    <3>1. i \in n..Len(f.threaded)
      BY <1>4
    <3> QED BY <1>3, <3>1 DEF Assigned
  <2>10. Holds(g) = ThreadedFrom(f, n + 1) \union DirectFrom(f, 1)
    BY <2>7, <2>8 DEF Holds
  <2>11. w \in Holds(f) /\ Holds(g) \subseteq Holds(f) \ {w}
    BY <1>5, <1>7, <2>10
  <2>12. w \in Holds(Top(t)) /\ Holds(g) \subseteq Holds(Top(t)) \ {w} /\ Top(t).at \in JoinPlaces
         /\ g.at \in JoinPlaces /\ ~Offering(g)
    BY <1>1, <2>7, <2>11 DEF Offering
  <2> HIDE DEF f, n, w, tw
  <2>13. Good(T, Mode, g)
    BY <1>3, <2>7, <2>8, <2>9
    DEF Good, JoinPlaces, BusyPlaces, WordPlaces, StandardPlaces, LoopPlaces, PairPlaces
  <2> QED BY <1>1, <1>6, <1>9, <1>10, <2>1, <2>5, <2>6, <2>7, <2>12, <2>13, UpHand
<1>11. CASE work[tw] # Null
  <2>1. /\ work' = work /\ free' = free \union {tw}
        /\ Becomes(t, [f EXCEPT !.next = @ + 1, !.direct = Append(@, w), !.threaded[n] = <<Main, Null>>])
    BY <1>11 DEF SubmitThreaded
  <2>2. [f EXCEPT !.next = @ + 1, !.direct = Append(@, w), !.threaded[n] = <<Main, Null>>] = h
    OBVIOUS
  <2>3. Becomes(t, h)
    BY <2>1, <2>2
  <2>4. Moves(t, h)
    BY <2>3 DEF Moves
  <2>5. Types'
    BY <1>1, <1>6, <2>1 DEF Inv, Types
  <2>6. d \in Seq(Works) /\ q \in Seq(Threads \X AnyJobs) /\ Len(q) = Len(f.threaded)
    <3> DEFINE e == <<Main, Null>>
               S == Threads \X AnyJobs
               p == f.threaded
               r == [p EXCEPT ![n] = e]
    <3>1. e \in S /\ p \in Seq(S)
      BY <1>4, Threads0 DEF AnyJobs
    <3>2. d \in Seq(Works)
      BY <1>4, <1>6, Appended
    <3>3. q = r
      OBVIOUS
    <3> HIDE DEF e, S, p
    <3>5. n \in 1..Len(p)
      BY <1>5 DEF p
    <3> HIDE DEF n
    <3>4. r \in Seq(S) /\ Len(r) = Len(p)
      BY <3>1, <3>5, ExceptSeq
    <3> QED BY <3>2, <3>3, <3>4 DEF S, p
  <2>7. \A i \in 1..Len(f.threaded) : IF i = n THEN q[i] = <<Main, Null>> ELSE q[i] = f.threaded[i]
    BY <1>4
  <2>8. d = Append(f.direct, w)
    OBVIOUS
  <2> HIDE DEF d, q
  <2>9. /\ h \in Frames /\ h.at = "submit" /\ h.job = f.job /\ h.next = n + 1
        /\ h.threaded = q /\ h.direct = d
    <3> DEFINE k == n + 1
    <3>1. k \in Nat \ {0} /\ q \in Assigns /\ h = [f EXCEPT !.next = k, !.direct = d, !.threaded = q]
      BY <1>8, <2>6 DEF Assigns
    <3> HIDE DEF k, f, h
    <3>2. h \in Frames
      BY <1>2, <2>6, <3>1 DEF Frames
    <3>3. h.at = f.at /\ h.job = f.job /\ h.next = k /\ h.threaded = q /\ h.direct = d
      BY <1>2, <3>1 DEF Frames
    <3> QED BY <1>1, <3>2, <3>3 DEF k
  <2> HIDE DEF h
  <2>10. \A i \in 1..Len(f.threaded) : /\ h.threaded[i][2] # w
                                       /\ h.threaded[i][2] \in {f.threaded[i][2], Null}
    BY <1>5, <1>6, <2>7, <2>9, Words0
  <2>11. ArraysApart(h) /\ h.direct # <<>> /\ DirectFrom(h, 1) = DirectFrom(f, 1) \union {w}
    <3>1. h.direct = Append(f.direct, w) /\ Len(h.threaded) = Len(f.threaded)
      BY <2>6, <2>8, <2>9
    <3>2. w \notin DirectFrom(f, 1) /\ w \in Works /\ h \in Frames
      BY <1>5, <1>6, <2>9
    <3> HIDE DEF f, w, n
    <3>3. ArraysApart(h) /\ h.direct # <<>> /\ DirectFrom(h, 1) = DirectFrom(f, 1) \union {w}
      BY <1>2, <1>3, <2>10, <3>1, <3>2, MoreDirect
    <3> QED BY <3>3
  <2>12. \A i \in (n + 1)..Len(f.threaded) : h.threaded[i] = f.threaded[i] /\ i \in n..Len(f.threaded)
    BY <1>4, <2>7, <2>9
  <2>13. Assigned(h, n + 1) /\ ThreadedFrom(h, n + 1) = ThreadedFrom(f, n + 1)
    BY <1>3, <2>6, <2>9, <2>12 DEF Assigned, ThreadedFrom
  <2>14. Holds(h) = ThreadedFrom(h, n + 1) \union DirectFrom(h, 1)
    BY <2>9 DEF Holds
  <2>15. Holds(h) \subseteq Holds(f)
    BY <1>5, <1>7, <2>11, <2>13, <2>14
  <2>16. Holds(h) \subseteq Holds(Top(t)) /\ Top(t).at \in JoinPlaces /\ h.at \in JoinPlaces
         /\ ~Offering(h)
    BY <1>1, <2>9, <2>15 DEF Offering
  <2> HIDE DEF f, n, w, tw
  <2>17. Good(T, Mode, h)
    BY <1>3, <2>9, <2>11, <2>13
    DEF Good, JoinPlaces, BusyPlaces, WordPlaces, StandardPlaces, LoopPlaces, PairPlaces
  <2> QED BY <1>1, <2>1, <2>4, <2>5, <2>9, <2>16, <2>17, UpInv
<1> QED BY <1>10, <1>11

-----------------------------------------------------------------------------
(* The joins of the stealing mode *)

(* A work is counted by the pool of its join before it is given away.        *)
LEMMA PoolCounts ==
  ASSUME NEW T \in SUBSET Works, Inv(T), NEW w \in Works, NEW job \in Works,
         pool' = [pool EXCEPT ![w] = job], steal' = steal
  PROVE  /\ Wider(Mode, Mode') /\ w \in Mode'.pooled /\ Mode'.steal = Mode.steal
         /\ pool' \in [Works -> Works \union {Null}]
<1>1. pool \in [Works -> Works \union {Null}]
  BY DEF Inv, Types
<1>2. pool' \in [Works -> Works \union {Null}] /\ pool'[w] = job /\ \A x \in Works : x # w => pool'[x] = pool[x]
  BY <1>1
<1>3. /\ Mode'.steal = steal /\ Mode'.pooled = {x \in Works : pool'[x] \in Works}
      /\ Mode.steal = steal /\ Mode.pooled = {x \in Works : pool[x] \in Works}
  BY DEF Mode
<1>4. Mode.pooled \subseteq Mode'.pooled
  BY <1>2, <1>3
<1> QED BY <1>2, <1>3, <1>4 DEF Wider

(* The rest of the invariant, if more works are counted.                     *)
LEMMA InvWider ==
  ASSUME NEW T \in SUBSET Works, CoreOf(T, Mode', stack', work', nextWork', started'),
         Wider(Mode, Mode'), steal' = steal, Types',
         \A v \in Workers : steal => /\ work'[v] \in Works => work'[v] \in Mode'.pooled
                                     /\ nextWork'[v] \in Works => nextWork'[v] \in Mode'.pooled
  PROVE  Inv(T)'
<1>1. Pooled'
  BY DEF Pooled
<1> QED BY <1>1 DEF Inv

(* A step of a join that counts a work which is given away next.             *)
LEMMA UpCount ==
  ASSUME NEW T \in SUBSET Works, Inv(T), NEW t \in Threads, Running(t),
         Top(t).at \in JoinPlaces \union WordPlaces,
         NEW g \in Frames, g.at \in JoinPlaces \union WordPlaces,
         t = Main => ~Offering(g),
         NEW w \in Works, NEW job \in Works, pool' = [pool EXCEPT ![w] = job], steal' = steal,
         Good(T, Mode', g), Moves(t, g), Holds(g) \subseteq Holds(Top(t)),
         work' = work, nextWork' = nextWork, started' = started, Types'
  PROVE  Inv(T)'
<1> DEFINE m == Mode'
<1>1. Wider(Mode, m)
  BY PoolCounts
<1>2. Good(T, m, g)
  OBVIOUS
<1> HIDE DEF m
<1>3. CoreOf(T, m, stack', work', nextWork', started')
  BY <1>1, <1>2, UpKeep
<1>4. CoreOf(T, Mode', stack', work', nextWork', started') /\ Wider(Mode, Mode')
  BY <1>1, <1>3 DEF m
<1>5. \A v \in Workers : steal => /\ work'[v] \in Works => work'[v] \in Mode'.pooled
                                  /\ nextWork'[v] \in Works => nextWork'[v] \in Mode'.pooled
  BY <1>4 DEF Inv, Pooled, Wider
<1> QED BY <1>4, <1>5, InvWider

(* A step of a join that counts a work and offers it to thieves.             *)
LEMMA UpOffer ==
  ASSUME NEW T \in SUBSET Works, Inv(T), NEW t \in Threads, Running(t),
         Top(t).at \in JoinPlaces \union WordPlaces,
         NEW g \in Frames, g.at \in JoinPlaces \union WordPlaces,
         t \in Workers, t # Main,
         NEW w \in Works, NEW job \in Works, pool' = [pool EXCEPT ![w] = job], steal' = steal,
         Good(T, Mode', g), Moves(t, g), w \in Holds(Top(t)), Holds(g) \subseteq Holds(Top(t)) \ {w},
         work' = work, nextWork' = [nextWork EXCEPT ![t] = w], started' = started, Types'
  PROVE  Inv(T)'
<1> DEFINE m == Mode'
<1>1. Wider(Mode, m) /\ w \in m.pooled
  BY PoolCounts
<1>2. Good(T, m, g)
  OBVIOUS
<1> HIDE DEF m
<1>3. PlaceOK(t, Len(stack[t]), g) /\ g.at # "wait" /\ Len(stack[t]) # 1
  BY UpPlace
<1>4. CoreOf(T, m, stack', work', nextWork', started')
  BY <1>1, <1>2, <1>3, OfferStep
<1>5. CoreOf(T, Mode', stack', work', nextWork', started') /\ Wider(Mode, Mode') /\ w \in Mode'.pooled
  BY <1>1, <1>4 DEF m
<1>6. nextWork'[t] = w /\ \A v \in Workers : v # t => nextWork'[v] = nextWork[v]
  BY DEF Inv, Types
<1>7. \A v \in Workers : steal => /\ work'[v] \in Works => work'[v] \in Mode'.pooled
                                  /\ nextWork'[v] \in Works => nextWork'[v] \in Mode'.pooled
  BY <1>5, <1>6 DEF Inv, Pooled, Wider
<1> QED BY <1>5, <1>7, InvWider

(* A step of a join that takes back the work it had offered.                 *)
LEMMA UpTake ==
  ASSUME NEW T \in SUBSET Works, Inv(T), NEW t \in Threads, Running(t),
         Top(t).at \in JoinPlaces \union WordPlaces,
         NEW g \in Frames, g.at \in JoinPlaces \union WordPlaces, t \in Workers, t # Main,
         Good(T, Mode, g), Moves(t, g), NEW w \in Works, nextWork[t] = w,
         Holds(g) \subseteq Holds(Top(t)) \union {w},
         steal' = steal, pool' = pool, work' = work, nextWork' = [nextWork EXCEPT ![t] = Null],
         started' = started, Types'
  PROVE  Inv(T)'
<1> DEFINE m == Mode
<1>1. Wider(Mode, m) /\ Good(T, m, g)
  BY WiderSame
<1> HIDE DEF m
<1>2. PlaceOK(t, Len(stack[t]), g) /\ WorkKept(t, g, stack, work) /\ g.at # "wait"
  BY UpPlace
<1>3. CoreOf(T, m, stack', work', nextWork', started')
  BY <1>1, <1>2, TakeStep
<1>4. CoreOf(T, Mode, stack', work', nextWork', started')
  BY <1>3 DEF m
<1>5. nextWork'[t] = Null /\ \A v \in Workers : v # t => nextWork'[v] = nextWork[v]
  BY DEF Inv, Types
<1>6. \A v \in Workers : steal => /\ work'[v] \in Works => work'[v] \in Mode.pooled
                                  /\ nextWork'[v] \in Works => nextWork'[v] \in Mode.pooled
  BY <1>5, Words0 DEF Inv, Pooled
<1> QED BY <1>4, <1>6, InvNext

(* What is known of the frame of a join of the stealing mode.                *)
LEMMA JoinParts ==
  ASSUME NEW T \in SUBSET Works, Inv(T), NEW t \in Threads, Running(t), Top(t).at \in JoinPlaces
  PROVE  /\ Top(t) \in Frames /\ Good(T, Mode, Top(t)) /\ Rested(Top(t))
         /\ Top(t).job \in T /\ Top(t).job \in Works /\ Top(t).next \in Nat \ {0}
         /\ Len(Children[Top(t).job]) \in Nat
         /\ t = Main => ~Offering(Top(t))
         /\ Offering(Top(t)) => t \in Workers /\ t # Main
<1>1. Top(t) \in Frames /\ Good(T, Mode, Top(t)) /\ Rested(Top(t)) /\ PlaceOK(t, Len(stack[t]), Top(t))
  BY Running0 DEF Inv, CoreOf
<1>2. Top(t).job \in T /\ Top(t).job \in Works
  BY <1>1 DEF Good
<1>3. Top(t).next \in Nat \ {0}
  BY <1>1, FrameParts
<1>4. Len(Children[Top(t).job]) \in Nat
  BY <1>2, ChildFacts
<1>5. (t = Main => ~Offering(Top(t))) /\ (Offering(Top(t)) => t \in Workers /\ t # Main)
  BY <1>1 DEF PlaceOK, Threads
<1> QED BY <1>1, <1>2, <1>3, <1>4, <1>5

(* A loop of the stealing join that set a work aside.                        *)
LEMMA LoopParts ==
  ASSUME NEW T \in SUBSET Works, NEW m, NEW f \in Frames, Good(T, m, f),
         f.at \in {"reserve", "hand", "offer", "hang", "direct"}
  PROVE  /\ f.job \in T /\ f.job \in Works /\ m.steal = TRUE /\ f.dw \in Works
         /\ \E k \in 1..Len(Children[f.job]) : k < f.next /\ f.dw = Children[f.job][k]
<1>1. /\ f.job \in T /\ m.steal = TRUE
      /\ \E k \in 1..Len(Children[f.job]) : k < f.next /\ f.dw = Children[f.job][k]
  BY DEF Good, JoinPlaces, LoopPlaces
<1>2. f.dw \in Works
  BY <1>1, ChildFacts
<1> QED BY <1>1, <1>2

(* The work set aside is none of those after it.                             *)
LEMMA AsideApart ==
  ASSUME NEW T \in SUBSET Works, NEW root, IsTree(T, root), NEW f \in Frames, f.job \in T,
         NEW k \in 1..Len(Children[f.job]), NEW n \in Nat \ {0}, k < n
  PROVE  Children[f.job][k] \notin Rest(f, n)
<1> DEFINE N == Len(Children[f.job])
<1>1. N \in Nat
  BY ChildFacts
<1> SUFFICES ASSUME NEW i \in n..N, Children[f.job][k] = Children[f.job][i]
             PROVE  FALSE
  BY DEF Rest
<1> HIDE DEF N
<1>2. i \in 1..N /\ i # k
  BY <1>1
<1>3. i \in 1..Len(Children[f.job])
  BY <1>2 DEF N
<1> QED BY <1>2, <1>3, ChildrenApart

(* The stealing join reserves a thread for the next work, if one is free.    *)
LEMMA ReserveKeeps ==
  ASSUME NEW T \in SUBSET Works, NEW root, IsTree(T, root), Inv(T), NEW t \in Threads, Reserve(t)
  PROVE  Inv(T)'
<1> DEFINE f == Top(t)
           w == Next1(f)
           r == Reserved
           n == [f EXCEPT !.at = "offer"]
           g == [f EXCEPT !.at = "hand", !.tw = r, !.wp = TRUE]
<1>1. /\ Running(t) /\ f.at = "reserve" /\ f.at \in JoinPlaces
      /\ steal' = steal /\ work' = work /\ nextWork' = nextWork /\ loot' = loot
      /\ word' = word /\ asleep' = asleep /\ started' = started /\ finished' = finished
  BY DEF Reserve, At, JoinPlaces, LoopPlaces
<1>2. /\ f \in Frames /\ Good(T, Mode, f) /\ More(f) /\ f.next \in Nat \ {0}
      /\ Len(Children[f.job]) \in Nat
  BY <1>1, JoinParts DEF Rested
<1>3. /\ f.job \in T /\ f.job \in Works /\ Mode.steal = TRUE /\ f.dw \in Works /\ ~f.loot
      /\ \E k \in 1..Len(Children[f.job]) : k < f.next /\ f.dw = Children[f.job][k]
  <2>1. ~f.loot
    BY <1>1, <1>2 DEF Good
  <2> QED BY <1>1, <1>2, <2>1, LoopParts
<1>4. w \in Works /\ w \in T
  BY <1>2, <1>3, RestParts
<1>5. Holds(f) = {f.dw} \union Rest(f, f.next)
  BY <1>1 DEF Holds
<1>6. ASSUME NEW x \in Frames, x.at \in {"offer", "hand"}, x.job = f.job, x.next = f.next, x.dw = f.dw,
             x.loot = f.loot
      PROVE  Holds(x) \subseteq Holds(Top(t)) /\ x.at \in JoinPlaces /\ ~Offering(x) /\ More(x) /\ Next1(x) = w
  <2>1. Holds(x) = {x.dw} \union Rest(x, x.next)
    BY <1>6 DEF Holds
  <2> QED BY <1>2, <1>5, <1>6, <2>1 DEF Rest, JoinPlaces, LoopPlaces, Offering, More, Next1
<1>7. CASE free = {}
  <2>1. left' = left /\ pool' = pool /\ free' = free /\ Moves(t, n)
    BY <1>7 DEF Reserve, Goes, Moves
  <2>2. Types'
    BY <1>1, <2>1 DEF Inv, Types
  <2>3. n \in Frames /\ n.at = "offer" /\ n.job = f.job /\ n.next = f.next /\ n.dw = f.dw /\ n.loot = f.loot
    BY <1>2 DEF Frames, Places
  <2>4. Moves(t, n)
    BY <2>1
  <2> HIDE DEF n
  <2>5. Holds(n) \subseteq Holds(Top(t)) /\ n.at \in JoinPlaces /\ ~Offering(n) /\ More(n)
    BY <1>6, <2>3
  <2>6. Top(t).at \in JoinPlaces
    BY <1>1
  <2> HIDE DEF f, w, r
  <2>7. Good(T, Mode, n)
    BY <1>3, <2>3, <2>5
    DEF Good, JoinPlaces, BusyPlaces, WordPlaces, StandardPlaces, LoopPlaces, PairPlaces
  <2> QED BY <1>1, <2>1, <2>2, <2>3, <2>4, <2>5, <2>6, <2>7, UpInv
<1>8. CASE free # {}
  <2>0. /\ free' = free \ {r} /\ left' = PoolInit(f, Len(Children[f.job]) - f.next + 2)
        /\ pool' = [pool EXCEPT ![w] = f.job] /\ Moves(t, g)
    BY <1>8 DEF Reserve, Moves
  <2>1. r \in Workers
    <3>1. free \in SUBSET Nat /\ free \subseteq Workers
      BY Threads0 DEF Inv, Types
    <3> QED BY <1>8, <3>1, MinFacts DEF Reserved
  <2>2. Wider(Mode, Mode') /\ w \in Mode'.pooled /\ Mode'.steal = Mode.steal
        /\ pool' \in [Works -> Works \union {Null}]
    <3> DEFINE job == f.job
    <3>1. pool' = [pool EXCEPT ![w] = job] /\ job \in Works
      BY <1>3, <2>0
    <3> HIDE DEF f, w, job
    <3> QED BY <1>1, <1>4, <3>1, PoolCounts
  <2>3. Len(Children[f.job]) - f.next + 2 \in Int
    BY <1>2
  <2>4. Types'
    <3>1. left' \in [Works -> Int]
      BY <2>0, <2>3 DEF PoolInit, Inv, Types
    <3> QED BY <1>1, <2>0, <2>2, <3>1 DEF Inv, Types
  <2>5. /\ g \in Frames /\ g.at = "hand" /\ g.job = f.job /\ g.next = f.next /\ g.dw = f.dw
        /\ g.loot = f.loot /\ g.tw = r
    <3>1. "hand" \in Places /\ r \in Threads /\ g = [f EXCEPT !.at = "hand", !.tw = r, !.wp = TRUE]
      BY <2>1 DEF Places, Threads
    <3> HIDE DEF f, g, r
    <3>2. g \in Frames
      BY <1>2, <3>1 DEF Frames
    <3>3. g.at = "hand" /\ g.job = f.job /\ g.next = f.next /\ g.dw = f.dw /\ g.loot = f.loot /\ g.tw = r
      BY <1>2, <3>1 DEF Frames
    <3> QED BY <3>2, <3>3
  <2>6. Moves(t, g)
    BY <2>0
  <2> HIDE DEF g
  <2>7. Holds(g) \subseteq Holds(Top(t)) /\ g.at \in JoinPlaces /\ ~Offering(g) /\ More(g) /\ Next1(g) = w
    BY <1>6, <2>5
  <2>8. Top(t).at \in JoinPlaces /\ pool' = [pool EXCEPT ![w] = g.job] /\ g.job \in Works
    BY <1>1, <1>3, <2>0, <2>5
  <2>9. ~g.loot /\ \E k \in 1..Len(Children[g.job]) : k < g.next /\ g.dw = Children[g.job][k]
    BY <1>3, <2>5
  <2>10. g.job \in T /\ g.tw \in Workers /\ Mode'.steal = TRUE
    BY <1>3, <2>1, <2>2, <2>5
  <2> HIDE DEF f, w, r
  <2>11. Good(T, Mode', g)
    BY <2>2, <2>5, <2>7, <2>9, <2>10
    DEF Good, JoinPlaces, BusyPlaces, WordPlaces, StandardPlaces, LoopPlaces, PairPlaces
  <2> DEFINE job == g.job
  <2>12. pool' = [pool EXCEPT ![w] = job] /\ job \in Works
    BY <2>8
  <2> HIDE DEF job
  <2> QED BY <1>1, <1>4, <2>4, <2>5, <2>6, <2>7, <2>8, <2>11, <2>12, UpCount
<1> QED BY <1>7, <1>8

(* It hands the work to that thread.                                         *)
LEMMA HandKeeps ==
  ASSUME NEW T \in SUBSET Works, NEW root, IsTree(T, root), Inv(T), NEW t \in Threads, Hand(t)
  PROVE  Inv(T)'
<1> DEFINE f == Top(t)
           w == Next1(f)
           v == f.tw
           k1 == f.next + 1
           g == [f EXCEPT !.at = "reserve", !.next = k1, !.tw = Main]
<1>1. Running(t) /\ f.at = "hand" /\ f.at \in JoinPlaces
  BY DEF Hand, At, JoinPlaces, LoopPlaces
<1>2. /\ f \in Frames /\ Good(T, Mode, f) /\ f.next \in Nat \ {0}
      /\ Len(Children[f.job]) \in Nat
  BY <1>1, JoinParts
<1>3. /\ f.job \in T /\ f.job \in Works /\ Mode.steal = TRUE /\ f.dw \in Works /\ ~f.loot /\ More(f)
      /\ v \in Workers /\ w \in Mode.pooled
      /\ \E k \in 1..Len(Children[f.job]) : k < f.next /\ f.dw = Children[f.job][k]
  <2>1. ~f.loot /\ More(f) /\ v \in Workers /\ w \in Mode.pooled
    BY <1>1, <1>2 DEF Good
  <2> QED BY <1>1, <1>2, <2>1, LoopParts
<1>4. w \in Works /\ w \in Rest(f, f.next) /\ Rest(f, k1) \subseteq Rest(f, f.next) \ {w}
  BY <1>2, <1>3, RestParts
<1>5. Holds(f) = {f.dw} \union Rest(f, f.next)
  BY <1>1 DEF Holds
<1>6. CASE work[v] = Null
  <2>1. /\ steal' = steal /\ nextWork' = nextWork /\ free' = free /\ loot' = loot /\ word' = word
        /\ asleep' = asleep /\ left' = left /\ pool' = pool /\ started' = started /\ finished' = finished
        /\ work' = [work EXCEPT ![v] = w]
        /\ Calls(t, [f EXCEPT !.at = "reserve", !.next = @ + 1, !.tw = Main], WordFrame("post", SubmitOf(v)))
    BY <1>6 DEF Hand
  <2>2. [f EXCEPT !.at = "reserve", !.next = @ + 1, !.tw = Main] = g
    OBVIOUS
  <2>3. Calls(t, g, WordFrame("post", SubmitOf(v)))
    BY <2>1, <2>2
  <2>4. SubmitOf(v) \in Words
    BY <1>3 DEF Words
  <2>5. Moves(t, g)
    BY <2>3, <2>4 DEF Moves
  <2>6. Types'
    BY <1>3, <1>4, <2>1 DEF Inv, Types
  <2>7. k1 \in Nat \ {0} /\ \A k \in 1..Len(Children[f.job]) : k < f.next => k < k1 /\ k # f.next
    BY <1>2
  <2>8. /\ g \in Frames /\ g.at = "reserve" /\ g.job = f.job /\ g.next = k1 /\ g.dw = f.dw /\ g.loot = f.loot
    <3> DEFINE at == "reserve"
    <3>1. at \in Places /\ Main \in Threads /\ k1 \in Nat \ {0} /\ g = [f EXCEPT !.at = at, !.next = k1, !.tw = Main]
      BY <2>7, Threads0 DEF Places
    <3> HIDE DEF f, g, k1, at
    <3>2. g \in Frames
      BY <1>2, <3>1 DEF Frames
    <3>3. g.at = at /\ g.job = f.job /\ g.next = k1 /\ g.dw = f.dw /\ g.loot = f.loot
      BY <1>2, <3>1 DEF Frames
    <3> QED BY <3>2, <3>3 DEF at
  <2> HIDE DEF g
  <2>9. Holds(g) = {f.dw} \union Rest(f, k1)
    BY <2>8 DEF Holds, Rest
  <2>10. f.dw # w
    <3>1. PICK k \in 1..Len(Children[f.job]) : k < f.next /\ f.dw = Children[f.job][k]
      BY <1>3
    <3>2. Children[f.job][k] \notin Rest(f, f.next)
      BY <1>2, <1>3, <3>1, AsideApart
    <3> QED BY <1>4, <3>1, <3>2
  <2>11. /\ w \in Holds(Top(t)) /\ Holds(g) \subseteq Holds(Top(t)) \ {w} /\ Top(t).at \in JoinPlaces
         /\ g.at \in JoinPlaces /\ ~Offering(g)
    BY <1>1, <1>4, <1>5, <2>8, <2>9, <2>10 DEF JoinPlaces, LoopPlaces, Offering
  <2>12. g.job \in T /\ ~g.loot /\ \E k \in 1..Len(Children[g.job]) : k < g.next /\ g.dw = Children[g.job][k]
    BY <1>3, <2>7, <2>8
  <2> HIDE DEF f, w, v, k1
  <2>13. Good(T, Mode, g)
    BY <1>3, <2>8, <2>12
    DEF Good, JoinPlaces, BusyPlaces, WordPlaces, StandardPlaces, LoopPlaces, PairPlaces
  <2> QED BY <1>1, <1>3, <1>4, <1>6, <2>1, <2>5, <2>6, <2>8, <2>11, <2>13, UpHand
<1>7. CASE work[v] # Null
  BY <1>7, FailsKeeps DEF Hand
<1> QED BY <1>6, <1>7

(* It offers the next work to thieves.                                       *)
LEMMA OfferKeeps ==
  ASSUME NEW T \in SUBSET Works, NEW root, IsTree(T, root), Inv(T), NEW t \in Threads, Offer(t)
  PROVE  Inv(T)'
<1> DEFINE f == Top(t)
           w == Next1(f)
           n == [f EXCEPT !.at = "direct"]
           g == [f EXCEPT !.at = "hang", !.wp = TRUE]
<1>1. /\ Running(t) /\ f.at = "offer" /\ f.at \in JoinPlaces
      /\ steal' = steal /\ work' = work /\ free' = free /\ loot' = loot
      /\ word' = word /\ asleep' = asleep /\ started' = started /\ finished' = finished
  BY DEF Offer, At, JoinPlaces, LoopPlaces
<1>2. /\ f \in Frames /\ Good(T, Mode, f) /\ f.next \in Nat \ {0}
      /\ Len(Children[f.job]) \in Nat
  BY <1>1, JoinParts
<1>3. /\ f.job \in T /\ f.job \in Works /\ Mode.steal = TRUE /\ f.dw \in Works /\ ~f.loot /\ More(f)
      /\ \E k \in 1..Len(Children[f.job]) : k < f.next /\ f.dw = Children[f.job][k]
  <2>1. ~f.loot /\ More(f)
    BY <1>1, <1>2 DEF Good
  <2> QED BY <1>1, <1>2, <2>1, LoopParts
<1>4. /\ w \in Works /\ w \in T /\ w \in Rest(f, f.next)
      /\ Rest(f, f.next + 1) \subseteq Rest(f, f.next) \ {w}
  BY <1>2, <1>3, RestParts
<1>5. Holds(f) = {f.dw} \union Rest(f, f.next)
  BY <1>1 DEF Holds
<1>6. f.dw # w
  <2>1. PICK k \in 1..Len(Children[f.job]) : k < f.next /\ f.dw = Children[f.job][k]
    BY <1>3
  <2>2. Children[f.job][k] \notin Rest(f, f.next)
    BY <1>2, <1>3, <2>1, AsideApart
  <2> QED BY <1>4, <2>1, <2>2
<1>7. CASE ~MayOffer(t)
  <2>1. left' = left /\ pool' = pool /\ nextWork' = nextWork /\ Moves(t, n)
    BY <1>7 DEF Offer, Goes, Moves
  <2>2. Types'
    BY <1>1, <2>1 DEF Inv, Types
  <2>3. n \in Frames /\ n.at = "direct" /\ n.job = f.job /\ n.next = f.next /\ n.dw = f.dw /\ n.loot = f.loot
    BY <1>2 DEF Frames, Places
  <2>4. Moves(t, n)
    BY <2>1
  <2> HIDE DEF n
  <2>5. Holds(n) = {n.dw} \union Rest(n, n.next)
    BY <1>3, <2>3 DEF Holds, Kept
  <2>6. Holds(n) \subseteq Holds(Top(t)) /\ n.at \in JoinPlaces /\ ~Offering(n) /\ Top(t).at \in JoinPlaces
    BY <1>1, <1>3, <1>5, <2>3, <2>5 DEF Rest, JoinPlaces, LoopPlaces, Offering
  <2>7. n.job \in T /\ ~n.loot /\ \E k \in 1..Len(Children[n.job]) : k < n.next /\ n.dw = Children[n.job][k]
    BY <1>3, <2>3
  <2> HIDE DEF f, w
  <2>8. Good(T, Mode, n)
    BY <1>3, <2>3, <2>7
    DEF Good, JoinPlaces, BusyPlaces, WordPlaces, StandardPlaces, LoopPlaces, PairPlaces
  <2> QED BY <1>1, <2>1, <2>2, <2>3, <2>4, <2>6, <2>8, UpInv
<1>8. CASE MayOffer(t)
  <2>0. /\ left' = PoolInit(f, Len(Children[f.job]) - f.next + 2) /\ t # Main
        /\ pool' = [pool EXCEPT ![w] = f.job] /\ nextWork' = [nextWork EXCEPT ![t] = w] /\ Moves(t, g)
    BY <1>8 DEF Offer, Moves, MayOffer
  <2>1. t \in Workers
    BY <2>0 DEF Threads
  <2>2. Wider(Mode, Mode') /\ w \in Mode'.pooled /\ Mode'.steal = Mode.steal
        /\ pool' \in [Works -> Works \union {Null}]
    <3> DEFINE job == f.job
    <3>1. pool' = [pool EXCEPT ![w] = job] /\ job \in Works
      BY <1>3, <2>0
    <3> HIDE DEF f, w, job
    <3> QED BY <1>1, <1>4, <3>1, PoolCounts
  <2>3. Len(Children[f.job]) - f.next + 2 \in Int
    BY <1>2
  <2>4. Types'
    <3>1. left' \in [Works -> Int]
      BY <2>0, <2>3 DEF PoolInit, Inv, Types
    <3>2. nextWork' \in [Workers -> Works \union {Null}]
      BY <1>4, <2>0 DEF Inv, Types
    <3> QED BY <1>1, <2>2, <3>1, <3>2 DEF Inv, Types
  <2>5. /\ g \in Frames /\ g.at = "hang" /\ g.job = f.job /\ g.next = f.next /\ g.dw = f.dw
        /\ g.loot = f.loot
    BY <1>2 DEF Frames, Places
  <2>6. Moves(t, g)
    BY <2>0
  <2> HIDE DEF g
  <2>7. Holds(g) = {f.dw} \union Rest(f, f.next + 1) /\ More(g)
    BY <1>3, <2>5 DEF Holds, Rest, More
  <2>8. /\ Top(t).at \in JoinPlaces /\ pool' = [pool EXCEPT ![w] = g.job] /\ g.job \in Works /\ g.at \in JoinPlaces
        /\ w \in Holds(Top(t)) /\ Holds(g) \subseteq Holds(Top(t)) \ {w}
    BY <1>1, <1>3, <1>4, <1>5, <1>6, <2>0, <2>5, <2>7 DEF JoinPlaces, LoopPlaces
  <2>9. /\ ~g.loot /\ g.job \in T /\ Mode'.steal = TRUE
        /\ \E k \in 1..Len(Children[g.job]) : k < g.next /\ g.dw = Children[g.job][k]
    BY <1>3, <2>2, <2>5
  <2>10. nextWork' = [nextWork EXCEPT ![t] = w]
    BY <2>0
  <2> HIDE DEF f, w
  <2>11. Good(T, Mode', g)
    BY <2>2, <2>5, <2>7, <2>9
    DEF Good, JoinPlaces, BusyPlaces, WordPlaces, StandardPlaces, LoopPlaces, PairPlaces
  <2> DEFINE job == g.job
  <2>12. pool' = [pool EXCEPT ![w] = job] /\ job \in Works
    BY <2>8
  <2> HIDE DEF job
  <2> QED BY <1>1, <1>4, <2>0, <2>1, <2>4, <2>5, <2>6, <2>8, <2>10, <2>11, <2>12, UpOffer
<1> QED BY <1>7, <1>8

(* It hangs the sign out that there is loot.                                 *)
LEMMA HangKeeps ==
  ASSUME NEW T \in SUBSET Works, Inv(T), NEW t \in Threads, Hang(t)
  PROVE  Inv(T)'
<1> DEFINE f == Top(t)
           g == [f EXCEPT !.at = "direct", !.loot = TRUE]
<1>1. /\ Running(t) /\ f.at = "hang" /\ f.at \in JoinPlaces /\ Moves(t, g) /\ Offering(f)
      /\ steal' = steal /\ work' = work /\ nextWork' = nextWork /\ free' = free /\ left' = left /\ pool' = pool
      /\ word' = word /\ asleep' = asleep /\ started' = started /\ finished' = finished
      /\ loot' = loot \union {t}
  BY DEF Hang, At, JoinPlaces, LoopPlaces, Moves, Offering
<1>2. /\ f \in Frames /\ Good(T, Mode, f) /\ f.next \in Nat \ {0} /\ t \in Workers /\ t # Main
      /\ Len(Children[f.job]) \in Nat
  BY <1>1, JoinParts
<1>3. /\ f.job \in T /\ f.job \in Works /\ Mode.steal = TRUE /\ f.dw \in Works /\ More(f)
      /\ \E k \in 1..Len(Children[f.job]) : k < f.next /\ f.dw = Children[f.job][k]
  <2>1. More(f)
    BY <1>1, <1>2 DEF Good
  <2> QED BY <1>1, <1>2, <2>1, LoopParts
<1>4. Types'
  BY <1>1, <1>2 DEF Inv, Types
<1>5. Holds(f) = {f.dw} \union Rest(f, f.next + 1)
  BY <1>1 DEF Holds
<1>6. /\ g \in Frames /\ g.at = "direct" /\ g.job = f.job /\ g.next = f.next /\ g.dw = f.dw
      /\ g.loot = TRUE
  BY <1>2 DEF Frames, Places
<1> HIDE DEF g
<1>7. Holds(g) = {f.dw} \union Rest(f, f.next + 1) /\ More(g)
  BY <1>3, <1>6 DEF Holds, Rest, More, Kept
<1>8. /\ Top(t).at \in JoinPlaces /\ g.at \in JoinPlaces /\ Holds(g) \subseteq Holds(Top(t)) /\ g.job \in T
      /\ \E k \in 1..Len(Children[g.job]) : k < g.next /\ g.dw = Children[g.job][k]
  BY <1>1, <1>3, <1>5, <1>6, <1>7 DEF JoinPlaces, LoopPlaces
<1> HIDE DEF f
<1>9. Good(T, Mode, g)
  BY <1>3, <1>6, <1>7, <1>8
  DEF Good, JoinPlaces, BusyPlaces, WordPlaces, StandardPlaces, LoopPlaces, PairPlaces
<1> QED BY <1>1, <1>2, <1>4, <1>6, <1>8, <1>9, UpInv

(* It executes the work it set aside.                                        *)
LEMMA DirectKeeps ==
  ASSUME NEW T \in SUBSET Works, NEW root, IsTree(T, root), Inv(T), NEW t \in Threads, Direct(t)
  PROVE  Inv(T)'
<1> DEFINE f == Top(t)
           w == f.dw
           g == [f EXCEPT !.at = "count", !.dw = Null]
<1>1. Running(t) /\ f.at = "direct" /\ f.at \in JoinPlaces /\ Executes(t, g, w)
  BY DEF Direct, At, JoinPlaces, LoopPlaces
<1>2. /\ f \in Frames /\ Good(T, Mode, f) /\ f.next \in Nat \ {0} /\ (t = Main => ~Offering(f))
      /\ Len(Children[f.job]) \in Nat /\ f.loot \in BOOLEAN
  BY <1>1, JoinParts, FrameParts
<1>3. /\ f.job \in T /\ f.job \in Works /\ Mode.steal = TRUE /\ w \in Works /\ (f.loot => More(f))
      /\ \E k \in 1..Len(Children[f.job]) : k < f.next /\ f.dw = Children[f.job][k]
  <2>1. f.loot => More(f)
    BY <1>1, <1>2 DEF Good
  <2> QED BY <1>1, <1>2, <2>1, LoopParts
<1>4. Holds(f) = {f.dw} \union Rest(f, Kept(f))
  BY <1>1 DEF Holds
<1>5. w \notin Rest(f, Kept(f))
  <2>1. PICK k \in 1..Len(Children[f.job]) : k < f.next /\ f.dw = Children[f.job][k]
    BY <1>3
  <2> DEFINE n == Kept(f)
  <2>2. n \in Nat \ {0} /\ k < n
    BY <1>2, <2>1 DEF Kept
  <2> HIDE DEF n
  <2>3. Children[f.job][k] \notin Rest(f, n)
    BY <1>2, <1>3, <2>2, AsideApart
  <2> QED BY <2>1, <2>3 DEF n
<1>6. g \in Frames /\ g.at = "count" /\ g.job = f.job /\ g.next = f.next /\ g.dw = Null /\ g.loot = f.loot
  BY <1>2 DEF Frames, Places, AnyJobs
<1> HIDE DEF g
<1>7. Holds(g) = Rest(f, Kept(f)) /\ (g.loot => More(g))
  BY <1>3, <1>6 DEF Holds, Rest, Kept, More
<1>8. /\ w \in Holds(Top(t)) /\ Holds(g) \subseteq Holds(Top(t)) \ {w} /\ Top(t).at \in JoinPlaces
      /\ g.at \in JoinPlaces /\ (Offering(g) => Offering(f)) /\ g.job \in T
  BY <1>1, <1>2, <1>3, <1>4, <1>5, <1>6, <1>7 DEF JoinPlaces, LoopPlaces, Offering
<1>9. t = Main => ~Offering(g)
  BY <1>2, <1>8
<1> HIDE DEF f, w
<1>10. Good(T, Mode, g)
  BY <1>3, <1>6, <1>7, <1>8
  DEF Good, JoinPlaces, BusyPlaces, WordPlaces, StandardPlaces, LoopPlaces, PairPlaces
<1> QED BY <1>1, <1>3, <1>6, <1>8, <1>9, <1>10, UpExec

(* It counts that work.                                                      *)
LEMMA CountKeeps ==
  ASSUME NEW T \in SUBSET Works, Inv(T), NEW t \in Threads, Count(t)
  PROVE  Inv(T)'
<1> DEFINE f == Top(t)
           job == f.job
           at == IF f.loot THEN "reclaim" ELSE "loop"
           g == [f EXCEPT !.at = at]
<1>1. /\ Running(t) /\ f.at = "count" /\ f.at \in JoinPlaces /\ Signals(t, job, g)
  BY DEF Count, At, JoinPlaces, LoopPlaces
<1>2. /\ f \in Frames /\ Good(T, Mode, f) /\ f.next \in Nat \ {0} /\ (t = Main => ~Offering(f))
      /\ job \in Works /\ job \in T /\ f.loot \in BOOLEAN
  BY <1>1, JoinParts, FrameParts
<1>3. Mode.steal = TRUE /\ f.dw = Null /\ (f.loot => More(f))
  BY <1>1, <1>2 DEF Good, LoopPlaces
<1>4. /\ steal' = steal /\ work' = work /\ nextWork' = nextWork /\ free' = free /\ loot' = loot
      /\ word' = word /\ asleep' = asleep /\ pool' = pool /\ started' = started /\ finished' = finished
      /\ left' = [left EXCEPT ![job] = @ - 1]
  BY <1>1 DEF Signals
<1>5. Moves(t, g)
  <2>1. PoolOf(job) \in Words
    BY <1>2 DEF Words
  <2> QED BY <1>1, <2>1 DEF Signals, Moves
<1>6. Types'
  <2>1. left' \in [Works -> Int]
    <3> HIDE DEF job
    <3> QED BY <1>2, <1>4 DEF Inv, Types
  <2> QED BY <1>4, <2>1 DEF Inv, Types
<1>7. at \in Places /\ at \in {"reclaim", "loop"} /\ (at = "reclaim" <=> f.loot = TRUE)
  BY <1>2 DEF Places
<1> HIDE DEF at
<1>8. g \in Frames /\ g.at = at /\ g.job = f.job /\ g.next = f.next /\ g.dw = f.dw /\ g.loot = f.loot
  BY <1>2, <1>7 DEF Frames
<1> HIDE DEF g
<1>9. Holds(f) = Rest(f, Kept(f)) /\ Holds(g) = Rest(f, Kept(f))
  <2>1. Holds(f) = Rest(f, Kept(f))
    BY <1>1 DEF Holds
  <2>2. Holds(g) = Rest(g, Kept(g))
    BY <1>2, <1>7, <1>8 DEF Holds, Kept
  <2> QED BY <1>8, <2>1, <2>2 DEF Rest, Kept
<1>10. /\ Holds(g) \subseteq Holds(Top(t)) /\ Top(t).at \in JoinPlaces
       /\ g.at \in JoinPlaces /\ (Offering(g) => Offering(f)) /\ g.job \in T /\ (g.loot => More(g))
  BY <1>1, <1>2, <1>3, <1>7, <1>8, <1>9 DEF JoinPlaces, LoopPlaces, Offering, More
<1>11. t = Main => ~Offering(g)
  BY <1>2, <1>10
<1>12. Good(T, Mode, g)
  BY <1>2, <1>3, <1>7, <1>8, <1>10
  DEF Good, JoinPlaces, BusyPlaces, WordPlaces, StandardPlaces, LoopPlaces, PairPlaces
<1> HIDE DEF f, job
<1> QED BY <1>1, <1>4, <1>5, <1>6, <1>8, <1>10, <1>11, <1>12, UpInv

(* It takes the sign in.                                                     *)
LEMMA ReclaimKeeps ==
  ASSUME NEW T \in SUBSET Works, Inv(T), NEW t \in Threads, Reclaim(t)
  PROVE  Inv(T)'
<1> DEFINE f == Top(t)
           g == [f EXCEPT !.at = "retake"]
<1>1. /\ Running(t) /\ f.at = "reclaim" /\ f.at \in JoinPlaces /\ Moves(t, g) /\ Offering(f)
      /\ steal' = steal /\ work' = work /\ nextWork' = nextWork /\ free' = free /\ left' = left /\ pool' = pool
      /\ word' = word /\ asleep' = asleep /\ started' = started /\ finished' = finished
      /\ loot' = loot \ {t}
  BY DEF Reclaim, Goes, At, JoinPlaces, LoopPlaces, Moves, Offering
<1>2. f \in Frames /\ Good(T, Mode, f) /\ t # Main /\ f.job \in T
  BY <1>1, JoinParts
<1>3. Mode.steal = TRUE /\ f.dw = Null /\ f.loot /\ More(f)
  BY <1>1, <1>2 DEF Good, LoopPlaces
<1>4. Types'
  BY <1>1 DEF Inv, Types
<1>5. /\ g \in Frames /\ g.at = "retake" /\ g.job = f.job /\ g.next = f.next /\ g.dw = f.dw
      /\ g.loot = f.loot
  BY <1>2 DEF Frames, Places
<1> HIDE DEF g
<1>6. Holds(g) = Rest(f, Kept(f)) /\ Holds(f) = Rest(f, Kept(f)) /\ More(g)
  BY <1>1, <1>3, <1>5 DEF Holds, Rest, More, Kept
<1>7. Top(t).at \in JoinPlaces /\ g.at \in JoinPlaces /\ Holds(g) \subseteq Holds(Top(t)) /\ g.job \in T
  BY <1>1, <1>2, <1>5, <1>6 DEF JoinPlaces, LoopPlaces
<1> HIDE DEF f
<1>8. Good(T, Mode, g)
  BY <1>3, <1>5, <1>6, <1>7
  DEF Good, JoinPlaces, BusyPlaces, WordPlaces, StandardPlaces, LoopPlaces, PairPlaces
<1> QED BY <1>1, <1>2, <1>4, <1>5, <1>7, <1>8, UpInv

(* The works that are left are the next one and those after it.              *)
LEMMA RestSplit ==
  ASSUME NEW f \in Frames, f.job \in Works
  PROVE  Rest(f, f.next) \subseteq Rest(f, f.next + 1) \union {Next1(f)}
<1> DEFINE C == Children[f.job]
           n == f.next
           N == Len(C)
<1>1. N \in Nat /\ n \in Nat
  BY ChildFacts, FrameParts
<1>2. Rest(f, n) = {C[i] : i \in n..N} /\ Rest(f, n + 1) = {C[i] : i \in (n + 1)..N} /\ Next1(f) = C[n]
  BY DEF Rest, Next1
<1> HIDE DEF C, N, n
<1>3. \A i \in n..N : i = n \/ i \in (n + 1)..N
  BY <1>1
<1>4. {C[i] : i \in n..N} \subseteq {C[i] : i \in (n + 1)..N} \union {C[n]}
  BY <1>3
<1> QED BY <1>2, <1>4 DEF n

(* It takes the offered work back, or goes on behind the stolen one.         *)
LEMMA RetakeKeeps ==
  ASSUME NEW T \in SUBSET Works, NEW root, IsTree(T, root), Inv(T), NEW t \in Threads, Retake(t)
  PROVE  Inv(T)'
<1> DEFINE f == Top(t)
           w == Next1(f)
           k1 == f.next + 1
           g == [f EXCEPT !.at = "loop", !.loot = FALSE]
           n == [f EXCEPT !.at = "loop", !.loot = FALSE, !.next = k1]
<1>1. /\ Running(t) /\ f.at = "retake" /\ f.at \in JoinPlaces /\ Offering(f)
      /\ steal' = steal /\ work' = work /\ free' = free /\ left' = left /\ pool' = pool
      /\ word' = word /\ asleep' = asleep /\ started' = started /\ finished' = finished
      /\ loot' = loot
  BY DEF Retake, At, JoinPlaces, LoopPlaces, Offering
<1>2. /\ f \in Frames /\ Good(T, Mode, f) /\ t # Main /\ t \in Workers /\ f.job \in T /\ f.job \in Works
      /\ f.next \in Nat \ {0}
  BY <1>1, JoinParts
<1>3. Mode.steal = TRUE /\ f.dw = Null /\ f.loot /\ More(f)
  BY <1>1, <1>2 DEF Good, LoopPlaces
<1>4. w \in Works /\ Rest(f, f.next) \subseteq Rest(f, k1) \union {w}
  BY <1>2, <1>3, RestParts, RestSplit
<1>5. Holds(f) = Rest(f, k1)
  BY <1>1, <1>3 DEF Holds, Kept
<1>6. /\ Next1(g) = w
      /\ IF nextWork[t] = w THEN nextWork' = [nextWork EXCEPT ![t] = Null] /\ Becomes(t, g)
                            ELSE Becomes(t, n) /\ nextWork' = nextWork
  <2>1. g.job = f.job /\ g.next = f.next /\ [g EXCEPT !.next = @ + 1] = n
    BY <1>2 DEF Frames
  <2>2. Next1(g) = w
    BY <2>1 DEF Next1
  <2> QED BY <2>1, <2>2 DEF Retake
<1>7. ASSUME NEW x \in Frames, x.at = "loop", x.job = f.job, x.dw = f.dw, x.loot = FALSE
      PROVE  Good(T, Mode, x) /\ Holds(x) = Rest(f, x.next) /\ x.at \in JoinPlaces /\ ~Offering(x)
  <2>1. Holds(x) = Rest(f, x.next)
    BY <1>7 DEF Holds, Rest
  <2>2. x.at \in JoinPlaces /\ ~Offering(x) /\ x.job \in T /\ x.dw = Null
    BY <1>2, <1>3, <1>7 DEF JoinPlaces, LoopPlaces, Offering
  <2> HIDE DEF f
  <2>3. Good(T, Mode, x)
    BY <1>3, <1>7, <2>2
    DEF Good, JoinPlaces, BusyPlaces, WordPlaces, StandardPlaces, LoopPlaces, PairPlaces
  <2> QED BY <2>1, <2>2, <2>3
<1>8. Top(t).at \in JoinPlaces
  BY <1>1
<1>9. CASE nextWork[t] = w
  <2>1. nextWork' = [nextWork EXCEPT ![t] = Null] /\ Becomes(t, g)
    BY <1>6, <1>9
  <2>2. Moves(t, g)
    BY <2>1 DEF Moves
  <2>3. Types'
    BY <1>1, <2>1 DEF Inv, Types
  <2>4. g \in Frames /\ g.at = "loop" /\ g.job = f.job /\ g.dw = f.dw /\ g.loot = FALSE /\ g.next = f.next
    BY <1>2 DEF Frames, Places
  <2> HIDE DEF g
  <2>5. Good(T, Mode, g) /\ Holds(g) = Rest(f, f.next) /\ g.at \in JoinPlaces /\ ~Offering(g)
    BY <1>7, <2>4
  <2>6. Holds(g) \subseteq Holds(Top(t)) \union {w}
    BY <1>4, <1>5, <2>5
  <2> HIDE DEF f, w
  <2> QED BY <1>1, <1>2, <1>4, <1>8, <1>9, <2>1, <2>2, <2>3, <2>4, <2>5, <2>6, UpTake
<1>10. CASE nextWork[t] # w
  <2>1. nextWork' = nextWork /\ Becomes(t, n)
    BY <1>6, <1>10
  <2>2. Moves(t, n)
    BY <2>1 DEF Moves
  <2>3. Types'
    BY <1>1, <2>1 DEF Inv, Types
  <2>4. k1 \in Nat \ {0}
    BY <1>2
  <2>5. n \in Frames /\ n.at = "loop" /\ n.job = f.job /\ n.dw = f.dw /\ n.loot = FALSE /\ n.next = k1
    <3> DEFINE at == "loop"
               no == FALSE
    <3>1. at \in Places /\ no \in BOOLEAN /\ n = [f EXCEPT !.at = at, !.loot = no, !.next = k1]
      BY DEF Places
    <3> HIDE DEF f, n, k1, at, no
    <3>2. n \in Frames
      BY <1>2, <2>4, <3>1 DEF Frames
    <3>3. n.at = at /\ n.job = f.job /\ n.dw = f.dw /\ n.loot = no /\ n.next = k1
      BY <1>2, <3>1 DEF Frames
    <3> QED BY <3>2, <3>3 DEF at, no
  <2> HIDE DEF n
  <2>6. Good(T, Mode, n) /\ Holds(n) = Rest(f, k1) /\ n.at \in JoinPlaces /\ ~Offering(n)
    BY <1>7, <2>5
  <2>7. Holds(n) \subseteq Holds(Top(t))
    BY <1>5, <2>6
  <2> HIDE DEF f, w
  <2> QED BY <1>1, <1>2, <1>8, <2>1, <2>2, <2>3, <2>5, <2>6, <2>7, UpInv
<1> QED BY <1>9, <1>10

(* It waits for the works it gave away.                                      *)
LEMMA DrainKeeps ==
  ASSUME NEW T \in SUBSET Works, Inv(T), NEW t \in Threads, Drain(t)
  PROVE  Inv(T)'
<1> DEFINE f == Top(t)
           g == [f EXCEPT !.at = "joined"]
<1>1. /\ Running(t) /\ f.at = "drain" /\ f.at \in JoinPlaces /\ ~Offering(f)
      /\ steal' = steal /\ work' = work /\ nextWork' = nextWork /\ free' = free /\ loot' = loot
      /\ left' = left /\ pool' = pool
      /\ word' = word /\ asleep' = asleep /\ started' = started /\ finished' = finished
  BY DEF Drain, At, JoinPlaces, Offering, poolVars
<1>2. f \in Frames /\ Good(T, Mode, f) /\ f.job \in T /\ f.job \in Works
  BY <1>1, JoinParts
<1>3. Types'
  BY <1>1 DEF Inv, Types
<1>4. Moves(t, f) \/ Moves(t, g)
  <2>1. PoolOf(f.job) \in Words
    BY <1>2 DEF Words
  <2> QED BY <2>1 DEF Drain, Goes, Moves
<1>5. g \in Frames /\ g.at = "joined" /\ g.job = f.job
  BY <1>2 DEF Frames, Places
<1>6. Holds(f) \subseteq Holds(Top(t)) /\ Top(t).at \in JoinPlaces
  BY <1>1
<1> HIDE DEF g
<1>7. Holds(g) = {} /\ g.at \in JoinPlaces /\ ~Offering(g) /\ g.job \in T
  BY <1>2, <1>5 DEF Holds, JoinPlaces, Offering
<1> HIDE DEF f
<1>8. Good(T, Mode, g)
  BY <1>5, <1>7
  DEF Good, JoinPlaces, BusyPlaces, WordPlaces, StandardPlaces, LoopPlaces, PairPlaces
<1>9. CASE Moves(t, f)
  BY <1>1, <1>2, <1>3, <1>6, <1>9, UpInv
<1>10. CASE Moves(t, g)
  BY <1>1, <1>3, <1>5, <1>6, <1>7, <1>8, <1>10, UpInv
<1> QED BY <1>4, <1>9, <1>10

(* The two works of a join that gives its second one away.                   *)
LEMMA PairParts ==
  ASSUME NEW T \in SUBSET Works, NEW root, IsTree(T, root), Inv(T), NEW t \in Threads, Running(t),
         Top(t).at \in PairPlaces
  PROVE  /\ Mode.steal = TRUE /\ Top(t).at \in JoinPlaces
         /\ Len(Children[Top(t).job]) = 2
         /\ Children[Top(t).job][1] \in Works /\ Second(Top(t)) \in Works
         /\ Children[Top(t).job][1] # Second(Top(t))
         /\ Rest(Top(t), 1) = {Children[Top(t).job][1], Second(Top(t))}
<1> DEFINE f == Top(t)
           C == Children[f.job]
<1>1. Top(t).at \in JoinPlaces
  BY DEF JoinPlaces
<1>2. f \in Frames /\ Good(T, Mode, f) /\ f.job \in T /\ f.job \in Works
  BY <1>1, JoinParts
<1>3. Mode.steal = TRUE /\ Len(C) = 2
  BY <1>2 DEF Good
<1>4. 1 \in 1..Len(C) /\ 2 \in 1..Len(C)
  BY <1>3
<1>5. C[1] \in Works /\ C[2] \in Works
  BY <1>2, <1>4, ChildFacts
<1>6. C[1] # C[2]
  <2>1. \A i, j \in 1..Len(C) : C[i] = C[j] => i = j
    BY <1>2, ChildrenApart
  <2> QED BY <1>4, <2>1
<1>7. Rest(f, 1) = {C[1], C[2]}
  <2>1. 1..Len(C) = {1, 2}
    BY <1>3
  <2>2. Rest(f, 1) = {C[i] : i \in 1..Len(C)}
    BY DEF Rest
  <2> HIDE DEF C
  <2> QED BY <2>1, <2>2
<1> QED BY <1>1, <1>3, <1>5, <1>6, <1>7 DEF Second

(* The frame of such a join at one of its places.                            *)
LEMMA PairGood ==
  ASSUME NEW T, NEW m, NEW g, g.at \in PairPlaces \union {"drain", "joined"}, g.job \in T,
         m.steal = TRUE, Len(Children[g.job]) = 2,
         g.at = "pair hand" => g.tw \in Workers /\ Second(g) \in m.pooled /\ ~g.loot,
         g.at # "pair"
  PROVE  Good(T, m, g) /\ g.at \in JoinPlaces
<1>1. g.at \in JoinPlaces
  BY DEF JoinPlaces
<1>2. Good(T, m, g)
  BY DEF Good, JoinPlaces, BusyPlaces, WordPlaces, StandardPlaces, LoopPlaces, PairPlaces
<1> QED BY <1>1, <1>2

(* The join of two works gives the second away, offers it, or keeps it.      *)
LEMMA PairKeeps ==
  ASSUME NEW T \in SUBSET Works, NEW root, IsTree(T, root), Inv(T), NEW t \in Threads, Pair(t)
  PROVE  Inv(T)'
<1> DEFINE f == Top(t)
           a == Children[f.job][1]
           b == Second(f)
           r == Reserved
           n == [f EXCEPT !.at = "first"]
           g == [f EXCEPT !.at = "pair hand", !.tw = r, !.wp = TRUE]
           h == [f EXCEPT !.at = "pair hang", !.wp = TRUE]
<1>1. /\ Running(t) /\ f.at = "pair" /\ f.at \in PairPlaces
      /\ steal' = steal /\ work' = work /\ loot' = loot
      /\ word' = word /\ asleep' = asleep /\ started' = started /\ finished' = finished
  BY DEF Pair, At, PairPlaces
<1>2. /\ Mode.steal = TRUE /\ f.at \in JoinPlaces /\ Len(Children[f.job]) = 2
      /\ a \in Works /\ b \in Works /\ a # b /\ Rest(f, 1) = {a, b}
  BY <1>1, PairParts
<1>3. f \in Frames /\ Good(T, Mode, f) /\ f.job \in T /\ f.job \in Works /\ f.loot = FALSE
  <2>1. f \in Frames /\ Good(T, Mode, f) /\ f.job \in T /\ f.job \in Works
    BY <1>1, <1>2, JoinParts
  <2>2. f.loot \in BOOLEAN
    BY <2>1, FrameParts
  <2> QED BY <1>1, <2>1, <2>2 DEF Good
<1>4. Holds(f) = {a, b}
  BY <1>1, <1>2 DEF Holds
<1>5. ASSUME NEW x \in Frames, x.at \in {"first", "pair hand", "pair hang"}, x.job = f.job, x.loot = FALSE
      PROVE  /\ Holds(x) \subseteq Holds(Top(t)) /\ (x.at = "pair hang" => Holds(x) \subseteq Holds(Top(t)) \ {b})
             /\ x.at # "pair hang" => ~Offering(x)
             /\ x.at \in PairPlaces /\ x.job \in T /\ Second(x) = b /\ Len(Children[x.job]) = 2
  <2>1. x.at = "first" => Holds(x) \subseteq {a, b}
    <3>1. x.at = "first" => Holds(x) \in {{a}, {a, b}}
      BY <1>2, <1>5 DEF Holds, Rest
    <3> QED BY <3>1
  <2>2. x.at = "pair hand" => Holds(x) = {a, b}
    BY ZenonT(60), <1>2, <1>5 DEF Holds, Rest
  <2>3. x.at = "pair hang" => Holds(x) = {a}
    BY <1>2, <1>5 DEF Holds
  <2>4. Second(x) = b /\ Len(Children[x.job]) = 2 /\ x.job \in T
    BY <1>2, <1>3, <1>5 DEF Second
  <2>5. x.at # "pair hang" => ~Offering(x)
    BY <1>5 DEF Offering
  <2>6. x.at \in PairPlaces
    BY <1>5 DEF PairPlaces
  <2> QED BY <1>2, <1>4, <1>5, <2>1, <2>2, <2>3, <2>4, <2>5, <2>6
<1>6. \/ Goes(t, "first") /\ UNCHANGED <<free, left, pool, nextWork>>
      \/ /\ free # {} /\ free' = free \ {r} /\ left' = PoolInit(f, 1) /\ pool' = [pool EXCEPT ![b] = f.job]
         /\ Becomes(t, g) /\ nextWork' = nextWork
      \/ /\ MayOffer(t) /\ left' = PoolInit(f, 1) /\ pool' = [pool EXCEPT ![b] = f.job]
         /\ nextWork' = [nextWork EXCEPT ![t] = b] /\ Becomes(t, h) /\ free' = free
  BY DEF Pair
<1>7. CASE Goes(t, "first") /\ UNCHANGED <<free, left, pool, nextWork>>
  <2>1. left' = left /\ pool' = pool /\ free' = free /\ nextWork' = nextWork /\ Moves(t, n)
    BY <1>7 DEF Goes, Moves
  <2>2. Types'
    BY <1>1, <2>1 DEF Inv, Types
  <2>3. n \in Frames /\ n.at = "first" /\ n.job = f.job /\ n.loot = FALSE
    BY <1>3 DEF Frames, Places
  <2>4. Moves(t, n)
    BY <2>1
  <2> HIDE DEF n
  <2>5. /\ Holds(n) \subseteq Holds(Top(t)) /\ ~Offering(n) /\ n.at \in PairPlaces
        /\ n.job \in T /\ Len(Children[n.job]) = 2
    BY <1>5, <2>3
  <2>6. Top(t).at \in JoinPlaces
    BY <1>2
  <2> HIDE DEF f, a, b, r
  <2>7. Good(T, Mode, n) /\ n.at \in JoinPlaces
    BY <1>2, <2>3, <2>5, PairGood
  <2> QED BY <1>1, <2>1, <2>2, <2>3, <2>4, <2>5, <2>6, <2>7, UpInv
<1>8. ASSUME pool' = [pool EXCEPT ![b] = f.job], left' = PoolInit(f, 1)
      PROVE  /\ Wider(Mode, Mode') /\ b \in Mode'.pooled /\ Mode'.steal = TRUE
             /\ pool' \in [Works -> Works \union {Null}] /\ left' \in [Works -> Int]
  <2> DEFINE job == f.job
             q == b
  <2>1. pool' = [pool EXCEPT ![q] = job] /\ job \in Works /\ q \in Works
    BY <1>2, <1>3, <1>8
  <2>2. left' \in [Works -> Int]
    <3>1. left \in [Works -> Int]
      BY DEF Inv, Types
    <3>2. left' \in {left, [left EXCEPT ![f.job] = 1]}
      BY <1>8 DEF PoolInit
    <3> QED BY <3>1, <3>2
  <2> HIDE DEF f, b, job, q
  <2>3. /\ Wider(Mode, Mode') /\ q \in Mode'.pooled /\ Mode'.steal = Mode.steal
        /\ pool' \in [Works -> Works \union {Null}]
    BY <1>1, <2>1, PoolCounts
  <2> QED BY <1>2, <2>2, <2>3 DEF q
<1>9. CASE /\ free # {} /\ free' = free \ {r} /\ left' = PoolInit(f, 1) /\ pool' = [pool EXCEPT ![b] = f.job]
           /\ Becomes(t, g) /\ nextWork' = nextWork
  <2>1. r \in Workers
    <3>1. free \in SUBSET Nat /\ free \subseteq Workers
      BY Threads0 DEF Inv, Types
    <3> QED BY <1>9, <3>1, MinFacts DEF Reserved
  <2>2. /\ Wider(Mode, Mode') /\ b \in Mode'.pooled /\ Mode'.steal = TRUE
        /\ pool' \in [Works -> Works \union {Null}] /\ left' \in [Works -> Int]
    BY <1>8, <1>9
  <2>3. Types'
    BY <1>1, <1>9, <2>2 DEF Inv, Types
  <2>4. g \in Frames /\ g.at = "pair hand" /\ g.job = f.job /\ g.loot = FALSE /\ g.tw = r
    <3>1. "pair hand" \in Places /\ r \in Threads /\ g = [f EXCEPT !.at = "pair hand", !.tw = r, !.wp = TRUE]
      BY <2>1 DEF Places, Threads
    <3> HIDE DEF f, g, r
    <3>2. g \in Frames
      BY <1>3, <3>1 DEF Frames
    <3>3. g.at = "pair hand" /\ g.job = f.job /\ g.loot = FALSE /\ g.tw = r
      BY <1>3, <3>1 DEF Frames
    <3> QED BY <3>2, <3>3
  <2>5. Moves(t, g)
    BY <1>9 DEF Moves
  <2> HIDE DEF g
  <2>6. /\ Holds(g) \subseteq Holds(Top(t)) /\ ~Offering(g) /\ g.at \in PairPlaces
        /\ g.job \in T /\ Second(g) = b /\ Len(Children[g.job]) = 2
    BY <1>5, <2>4
  <2>7. Top(t).at \in JoinPlaces /\ pool' = [pool EXCEPT ![b] = g.job] /\ g.job \in Works
    BY <1>2, <1>3, <1>9, <2>4
  <2> DEFINE m == Mode'
             job == g.job
  <2>8. m.steal = TRUE /\ Second(g) \in m.pooled /\ g.tw \in Workers /\ pool' = [pool EXCEPT ![b] = job] /\ job \in Works
    BY <2>1, <2>2, <2>4, <2>6, <2>7
  <2>9. nextWork' = nextWork
    BY <1>9
  <2> HIDE DEF f, a, b, r, m, job
  <2>10. Good(T, m, g) /\ g.at \in JoinPlaces
    BY <2>4, <2>6, <2>8, PairGood
  <2>11. Good(T, Mode', g)
    BY <2>10 DEF m
  <2> QED BY ZenonT(60), <1>1, <1>2, <2>3, <2>4, <2>5, <2>6, <2>7, <2>8, <2>9, <2>10, <2>11, UpCount
<1>10. CASE /\ MayOffer(t) /\ left' = PoolInit(f, 1) /\ pool' = [pool EXCEPT ![b] = f.job]
            /\ nextWork' = [nextWork EXCEPT ![t] = b] /\ Becomes(t, h) /\ free' = free
  <2>1. t # Main /\ t \in Workers
    BY <1>10 DEF MayOffer, Threads
  <2>2. /\ Wider(Mode, Mode') /\ b \in Mode'.pooled /\ Mode'.steal = TRUE
        /\ pool' \in [Works -> Works \union {Null}] /\ left' \in [Works -> Int]
    BY <1>8, <1>10
  <2>3. Types'
    <3>1. nextWork' \in [Workers -> Works \union {Null}]
      BY <1>2, <1>10 DEF Inv, Types
    <3> QED BY <1>1, <1>10, <2>2, <3>1 DEF Inv, Types
  <2>4. h \in Frames /\ h.at = "pair hang" /\ h.job = f.job /\ h.loot = FALSE
    BY <1>3 DEF Frames, Places
  <2>5. Moves(t, h)
    BY <1>10 DEF Moves
  <2> HIDE DEF h
  <2>6. /\ Holds(h) \subseteq Holds(Top(t)) \ {b} /\ h.at \in PairPlaces
        /\ h.job \in T /\ Len(Children[h.job]) = 2
    BY <1>5, <2>4
  <2>7. /\ Top(t).at \in JoinPlaces /\ pool' = [pool EXCEPT ![b] = h.job] /\ h.job \in Works
        /\ b \in Holds(Top(t)) /\ nextWork' = [nextWork EXCEPT ![t] = b]
    BY <1>2, <1>3, <1>4, <1>10, <2>4
  <2> DEFINE m == Mode'
             job == h.job
  <2>8. m.steal = TRUE /\ pool' = [pool EXCEPT ![b] = job] /\ job \in Works
    BY <2>2, <2>7
  <2> HIDE DEF f, a, b, r, m, job
  <2>10. Good(T, m, h) /\ h.at \in JoinPlaces
    BY <2>4, <2>6, <2>8, PairGood
  <2>11. Good(T, Mode', h)
    BY <2>10 DEF m
  <2> QED BY <1>1, <1>2, <2>1, <2>3, <2>4, <2>5, <2>6, <2>7, <2>8, <2>10, <2>11, UpOffer
<1> QED BY <1>6, <1>7, <1>9, <1>10

(* It hands the second work to the reserved thread.                          *)
LEMMA PairHandKeeps ==
  ASSUME NEW T \in SUBSET Works, NEW root, IsTree(T, root), Inv(T), NEW t \in Threads, PairHand(t)
  PROVE  Inv(T)'
<1> DEFINE f == Top(t)
           a == Children[f.job][1]
           b == Second(f)
           v == f.tw
           g == [f EXCEPT !.at = "first"]
<1>1. Running(t) /\ f.at = "pair hand" /\ f.at \in PairPlaces
  BY DEF PairHand, At, PairPlaces
<1>2. /\ Mode.steal = TRUE /\ f.at \in JoinPlaces /\ Len(Children[f.job]) = 2
      /\ a \in Works /\ b \in Works /\ a # b /\ Rest(f, 1) = {a, b}
  BY <1>1, PairParts
<1>3. /\ f \in Frames /\ Good(T, Mode, f) /\ f.job \in T /\ f.loot = FALSE /\ v \in Workers
      /\ b \in Mode.pooled
  <2>1. f \in Frames /\ Good(T, Mode, f) /\ f.job \in T
    BY <1>1, <1>2, JoinParts
  <2>2. f.loot \in BOOLEAN
    BY <2>1, FrameParts
  <2> QED BY <1>1, <2>1, <2>2 DEF Good
<1>4. Holds(f) = {a, b}
  BY <1>1, <1>2 DEF Holds
<1>5. CASE work[v] = Null
  <2>1. /\ steal' = steal /\ nextWork' = nextWork /\ free' = free /\ loot' = loot /\ word' = word
        /\ asleep' = asleep /\ left' = left /\ pool' = pool /\ started' = started /\ finished' = finished
        /\ work' = [work EXCEPT ![v] = b]
        /\ Calls(t, g, WordFrame("post", SubmitOf(v)))
    BY <1>5 DEF PairHand
  <2>2. SubmitOf(v) \in Words
    BY <1>3 DEF Words
  <2>3. Moves(t, g)
    BY <2>1, <2>2 DEF Moves
  <2>4. Types'
    BY <1>2, <1>3, <2>1 DEF Inv, Types
  <2>5. g \in Frames /\ g.at = "first" /\ g.job = f.job /\ g.loot = FALSE /\ g.tw = v
    BY <1>3 DEF Frames, Places
  <2> HIDE DEF g
  <2>6. Holds(g) = {a}
    <3>1. v # Main
      BY <1>3, Threads0
    <3> QED BY <2>5, <3>1 DEF Holds
  <2>7. /\ b \in Holds(Top(t)) /\ Holds(g) \subseteq Holds(Top(t)) \ {b} /\ Top(t).at \in JoinPlaces
        /\ g.at \in PairPlaces /\ ~Offering(g) /\ g.job \in T /\ Len(Children[g.job]) = 2
    BY <1>2, <1>3, <1>4, <2>5, <2>6 DEF PairPlaces, Offering
  <2> HIDE DEF f, a, b, v
  <2>8. Good(T, Mode, g) /\ g.at \in JoinPlaces
    BY <1>2, <2>5, <2>7, PairGood
  <2> QED BY <1>1, <1>2, <1>3, <1>5, <2>1, <2>3, <2>4, <2>5, <2>7, <2>8, UpHand
<1>6. CASE work[v] # Null
  BY <1>6, FailsKeeps DEF PairHand
<1> QED BY <1>5, <1>6

(* It hangs the sign out that there is loot.                                 *)
LEMMA PairHangKeeps ==
  ASSUME NEW T \in SUBSET Works, NEW root, IsTree(T, root), Inv(T), NEW t \in Threads, PairHang(t)
  PROVE  Inv(T)'
<1> DEFINE f == Top(t)
           a == Children[f.job][1]
           g == [f EXCEPT !.at = "first", !.loot = TRUE]
<1>1. /\ Running(t) /\ f.at = "pair hang" /\ f.at \in PairPlaces /\ Offering(f) /\ Moves(t, g)
      /\ steal' = steal /\ work' = work /\ nextWork' = nextWork /\ free' = free /\ left' = left /\ pool' = pool
      /\ word' = word /\ asleep' = asleep /\ started' = started /\ finished' = finished
      /\ loot' = loot \union {t}
  BY DEF PairHang, At, PairPlaces, Offering, Moves
<1>2. Mode.steal = TRUE /\ f.at \in JoinPlaces /\ Len(Children[f.job]) = 2
  BY <1>1, PairParts
<1>3. f \in Frames /\ f.job \in T /\ t \in Workers /\ t # Main
  BY <1>1, <1>2, JoinParts
<1>4. Types'
  BY <1>1, <1>3 DEF Inv, Types
<1>5. g \in Frames /\ g.at = "first" /\ g.job = f.job /\ g.loot = TRUE
  BY <1>3 DEF Frames, Places
<1> HIDE DEF g
<1>6. Holds(g) = {a} /\ Holds(f) = {a}
  BY <1>1, <1>5 DEF Holds
<1>7. /\ Holds(g) \subseteq Holds(Top(t)) /\ Top(t).at \in JoinPlaces
      /\ g.at \in PairPlaces /\ g.job \in T /\ Len(Children[g.job]) = 2
  BY <1>2, <1>3, <1>5, <1>6 DEF PairPlaces
<1> HIDE DEF f, a
<1>8. Good(T, Mode, g) /\ g.at \in JoinPlaces
  BY <1>2, <1>5, <1>7, PairGood
<1> QED BY <1>1, <1>3, <1>4, <1>5, <1>7, <1>8, UpInv

(* It executes the first work.                                               *)
LEMMA FirstKeeps ==
  ASSUME NEW T \in SUBSET Works, NEW root, IsTree(T, root), Inv(T), NEW t \in Threads, First(t)
  PROVE  Inv(T)'
<1> DEFINE f == Top(t)
           a == Children[f.job][1]
           b == Second(f)
           g == [f EXCEPT !.at = "first done"]
<1>1. Running(t) /\ f.at = "first" /\ f.at \in PairPlaces /\ Executes(t, g, a)
  BY DEF First, At, PairPlaces
<1>2. /\ Mode.steal = TRUE /\ f.at \in JoinPlaces /\ Len(Children[f.job]) = 2
      /\ a \in Works /\ b \in Works /\ a # b /\ Rest(f, 1) = {a, b}
  BY <1>1, PairParts
<1>3. f \in Frames /\ f.job \in T /\ (t = Main => ~Offering(f)) /\ f.loot \in BOOLEAN
  BY <1>1, <1>2, JoinParts, FrameParts
<1>5. g \in Frames /\ g.at = "first done" /\ g.job = f.job /\ g.loot = f.loot /\ g.tw = f.tw
  BY <1>3 DEF Frames, Places
<1> HIDE DEF g
<1>6. Holds(g) = IF f.loot \/ f.tw # Main THEN {} ELSE {b}
  BY <1>3, <1>5 DEF Holds, Second
<1>7. Holds(f) = IF f.loot \/ f.tw # Main THEN {a} ELSE {a, b}
  BY <1>1, <1>2, <1>3 DEF Holds
<1>8. /\ a \in Holds(Top(t)) /\ Holds(g) \subseteq Holds(Top(t)) \ {a} /\ Top(t).at \in JoinPlaces
      /\ g.at \in PairPlaces /\ g.job \in T /\ Len(Children[g.job]) = 2
  <2>1. a \in Holds(f) /\ Holds(g) \subseteq Holds(f) \ {a}
    BY <1>2, <1>6, <1>7
  <2> QED BY <1>2, <1>3, <1>5, <2>1 DEF PairPlaces
<1>9. t = Main => ~Offering(g)
  BY <1>1, <1>3, <1>5 DEF Offering
<1> HIDE DEF f, a, b
<1>10. Good(T, Mode, g) /\ g.at \in JoinPlaces
  BY <1>2, <1>5, <1>8, PairGood
<1> QED BY <1>1, <1>2, <1>5, <1>8, <1>9, <1>10, UpExec

(* It looks what became of the second one.                                   *)
LEMMA FirstDoneKeeps ==
  ASSUME NEW T \in SUBSET Works, NEW root, IsTree(T, root), Inv(T), NEW t \in Threads, FirstDone(t)
  PROVE  Inv(T)'
<1> DEFINE f == Top(t)
           b == Second(f)
           at == IF f.loot THEN "pair retake" ELSE IF f.tw = Main THEN "second" ELSE "drain"
           g == [f EXCEPT !.at = at]
<1>1. /\ Running(t) /\ f.at = "first done" /\ f.at \in PairPlaces
      /\ steal' = steal /\ work' = work /\ nextWork' = nextWork /\ free' = free /\ left' = left /\ pool' = pool
      /\ word' = word /\ asleep' = asleep /\ started' = started /\ finished' = finished
      /\ loot' \in {loot, loot \ {t}}
  BY DEF FirstDone, At, PairPlaces
<1>2. Mode.steal = TRUE /\ f.at \in JoinPlaces /\ Len(Children[f.job]) = 2
  BY <1>1, PairParts
<1>3. f \in Frames /\ f.job \in T /\ (t = Main => ~Offering(f)) /\ f.loot \in BOOLEAN
  BY <1>1, <1>2, JoinParts, FrameParts
<1>4. Types'
  BY <1>1 DEF Inv, Types
<1>5. Moves(t, g)
  <2>1. Goes(t, at)
    BY DEF FirstDone
  <2> QED BY <2>1 DEF Goes, Moves
<1>6. /\ at \in Places /\ at \in {"pair retake", "second", "drain"}
      /\ (at = "pair retake" => f.loot = TRUE) /\ (at = "second" => f.loot = FALSE /\ f.tw = Main)
  BY <1>3 DEF Places
<1> HIDE DEF at
<1>7. g \in Frames /\ g.at = at /\ g.job = f.job
  BY <1>3, <1>6 DEF Frames
<1> HIDE DEF g
<1>8. Holds(g) \subseteq Holds(Top(t)) /\ (Offering(g) => Offering(f))
  <2>1. CASE at = "second"
    <3>1. Holds(f) = {b}
      BY <1>1, <1>6, <2>1 DEF Holds, Second
    <3>2. Holds(g) = {b}
      BY <1>7, <2>1 DEF Holds, Second
    <3> QED BY <1>7, <2>1, <3>1, <3>2 DEF Offering
  <2>2. CASE at \in {"pair retake", "drain"}
    <3>1. Holds(g) = {}
      BY <1>7, <2>2 DEF Holds
    <3> QED BY <1>1, <1>6, <1>7, <2>2, <3>1 DEF Offering
  <2> QED BY <1>6, <2>1, <2>2
<1>9. /\ Top(t).at \in JoinPlaces /\ g.at \in PairPlaces \union {"drain", "joined"} /\ g.job \in T
      /\ Len(Children[g.job]) = 2 /\ (t = Main => ~Offering(g)) /\ g.at # "pair" /\ g.at # "pair hand"
  BY <1>2, <1>3, <1>6, <1>7, <1>8 DEF PairPlaces
<1> HIDE DEF f, b
<1>10. Good(T, Mode, g) /\ g.at \in JoinPlaces
  BY <1>2, <1>9, PairGood
<1> QED BY <1>1, <1>4, <1>5, <1>7, <1>8, <1>9, <1>10, UpInv

(* It takes the second work back, or finds it stolen.                        *)
LEMMA PairRetakeKeeps ==
  ASSUME NEW T \in SUBSET Works, NEW root, IsTree(T, root), Inv(T), NEW t \in Threads, PairRetake(t)
  PROVE  Inv(T)'
<1> DEFINE f == Top(t)
           b == Second(f)
           g == [f EXCEPT !.at = "second"]
           n == [f EXCEPT !.at = "drain"]
<1>1. /\ Running(t) /\ f.at = "pair retake" /\ f.at \in PairPlaces /\ Offering(f)
      /\ steal' = steal /\ work' = work /\ free' = free /\ left' = left /\ pool' = pool
      /\ word' = word /\ asleep' = asleep /\ started' = started /\ finished' = finished
      /\ loot' = loot
  BY DEF PairRetake, At, PairPlaces, Offering
<1>2. Mode.steal = TRUE /\ f.at \in JoinPlaces /\ Len(Children[f.job]) = 2 /\ b \in Works
  BY <1>1, PairParts
<1>3. f \in Frames /\ f.job \in T /\ t # Main /\ t \in Workers
  BY <1>1, <1>2, JoinParts
<1>4. g \in Frames /\ g.at = "second" /\ g.job = f.job
  BY <1>3 DEF Frames, Places
<1>5. n \in Frames /\ n.at = "drain" /\ n.job = f.job
  BY <1>3 DEF Frames, Places
<1>6. IF nextWork[t] = b THEN nextWork' = [nextWork EXCEPT ![t] = Null] /\ Becomes(t, g)
                         ELSE Becomes(t, n) /\ nextWork' = nextWork
  BY DEF PairRetake, Goes
<1> HIDE DEF g, n
<1>7. Holds(g) = {b} /\ Holds(n) = {}
  BY <1>4, <1>5 DEF Holds, Second
<1>8. /\ Top(t).at \in JoinPlaces /\ ~Offering(g) /\ ~Offering(n) /\ g.at \in PairPlaces /\ g.job \in T /\ n.job \in T
      /\ Len(Children[g.job]) = 2 /\ Len(Children[n.job]) = 2
  BY <1>2, <1>3, <1>4, <1>5 DEF Offering, PairPlaces
<1>9. Good(T, Mode, g) /\ g.at \in JoinPlaces /\ Good(T, Mode, n) /\ n.at \in JoinPlaces
  <2> HIDE DEF f, b
  <2>1. Good(T, Mode, g) /\ g.at \in JoinPlaces
    BY <1>2, <1>4, <1>8, PairGood
  <2>2. n.at \in PairPlaces \union {"drain", "joined"} /\ n.at # "pair" /\ n.at # "pair hand"
    BY <1>5
  <2>3. Good(T, Mode, n) /\ n.at \in JoinPlaces
    BY <1>2, <1>8, <2>2, PairGood
  <2> QED BY <2>1, <2>3
<1>10. CASE nextWork[t] = b
  <2>1. nextWork' = [nextWork EXCEPT ![t] = Null] /\ Moves(t, g)
    BY <1>6, <1>10 DEF Moves
  <2>2. Types'
    BY <1>1, <2>1 DEF Inv, Types
  <2>3. Holds(g) \subseteq Holds(Top(t)) \union {b}
    BY <1>7
  <2> HIDE DEF f, b
  <2> QED BY <1>1, <1>2, <1>3, <1>4, <1>8, <1>9, <1>10, <2>1, <2>2, <2>3, UpTake
<1>11. CASE nextWork[t] # b
  <2>1. nextWork' = nextWork /\ Moves(t, n)
    BY <1>6, <1>11 DEF Moves
  <2>2. Types'
    BY <1>1, <2>1 DEF Inv, Types
  <2>3. Holds(n) \subseteq Holds(Top(t))
    BY <1>7
  <2> HIDE DEF f, b
  <2> QED BY <1>1, <1>2, <1>3, <1>5, <1>8, <1>9, <2>1, <2>2, <2>3, UpInv
<1> QED BY <1>10, <1>11

(* It executes the second work itself.                                       *)
LEMMA ExecuteSecondKeeps ==
  ASSUME NEW T \in SUBSET Works, NEW root, IsTree(T, root), Inv(T), NEW t \in Threads, ExecuteSecond(t)
  PROVE  Inv(T)'
<1> DEFINE f == Top(t)
           b == Second(f)
           g == [f EXCEPT !.at = "second done"]
<1>1. Running(t) /\ f.at = "second" /\ f.at \in PairPlaces /\ Executes(t, g, b)
  BY DEF ExecuteSecond, At, PairPlaces
<1>2. Mode.steal = TRUE /\ f.at \in JoinPlaces /\ Len(Children[f.job]) = 2 /\ b \in Works
  BY <1>1, PairParts
<1>3. f \in Frames /\ f.job \in T
  BY <1>1, <1>2, JoinParts
<1>4. g \in Frames /\ g.at = "second done" /\ g.job = f.job
  BY <1>3 DEF Frames, Places
<1> HIDE DEF g
<1>5. Holds(g) = {} /\ Holds(f) = {b}
  BY <1>1, <1>4 DEF Holds, Second
<1>6. /\ b \in Holds(Top(t)) /\ Holds(g) \subseteq Holds(Top(t)) \ {b} /\ Top(t).at \in JoinPlaces
      /\ g.at \in PairPlaces /\ g.job \in T /\ Len(Children[g.job]) = 2 /\ ~Offering(g)
  BY <1>2, <1>3, <1>4, <1>5 DEF PairPlaces, Offering
<1> HIDE DEF f, b
<1>7. Good(T, Mode, g) /\ g.at \in JoinPlaces
  BY <1>2, <1>4, <1>6, PairGood
<1> QED BY <1>1, <1>2, <1>4, <1>6, <1>7, UpExec

(* It counts that work.                                                      *)
LEMMA SecondDoneKeeps ==
  ASSUME NEW T \in SUBSET Works, NEW root, IsTree(T, root), Inv(T), NEW t \in Threads, SecondDone(t)
  PROVE  Inv(T)'
<1> DEFINE f == Top(t)
           job == f.job
           g == [f EXCEPT !.at = "drain"]
<1>1. Running(t) /\ f.at = "second done" /\ f.at \in PairPlaces /\ Signals(t, job, g)
  BY DEF SecondDone, At, PairPlaces
<1>2. Mode.steal = TRUE /\ f.at \in JoinPlaces /\ Len(Children[f.job]) = 2
  BY <1>1, PairParts
<1>3. f \in Frames /\ f.job \in T /\ job \in Works
  BY <1>1, <1>2, JoinParts
<1>4. /\ steal' = steal /\ work' = work /\ nextWork' = nextWork /\ free' = free /\ loot' = loot
      /\ word' = word /\ asleep' = asleep /\ pool' = pool /\ started' = started /\ finished' = finished
      /\ left' = [left EXCEPT ![job] = @ - 1]
  BY <1>1 DEF Signals
<1>5. Moves(t, g)
  <2>1. PoolOf(job) \in Words
    BY <1>3 DEF Words
  <2> QED BY <1>1, <2>1 DEF Signals, Moves
<1>6. Types'
  <2>1. left' \in [Works -> Int]
    <3> HIDE DEF job
    <3> QED BY <1>3, <1>4 DEF Inv, Types
  <2> QED BY <1>4, <2>1 DEF Inv, Types
<1>7. g \in Frames /\ g.at = "drain" /\ g.job = f.job
  BY <1>3 DEF Frames, Places
<1> HIDE DEF g
<1>8. /\ Holds(g) \subseteq Holds(Top(t)) /\ Top(t).at \in JoinPlaces /\ ~Offering(g) /\ g.job \in T
      /\ Len(Children[g.job]) = 2 /\ g.at \in PairPlaces \union {"drain", "joined"}
  BY <1>2, <1>3, <1>7 DEF Holds, Offering
<1> HIDE DEF f, job
<1>9. Good(T, Mode, g) /\ g.at \in JoinPlaces
  BY <1>2, <1>7, <1>8, PairGood
<1> QED BY <1>1, <1>4, <1>5, <1>6, <1>7, <1>8, <1>9, UpInv

(* The function of a work returns.                                           *)
LEMMA ReturnKeeps ==
  ASSUME NEW T \in SUBSET Works, Inv(T), NEW t \in Threads, Return(t)
  PROVE  Inv(T)'
<1> DEFINE f == Top(t)
<1>1. /\ Running(t) /\ f.at = "joined" /\ f.at \in JoinPlaces /\ Moves(t, f) /\ ~Offering(f)
      /\ steal' = steal /\ work' = work /\ nextWork' = nextWork /\ free' = free /\ loot' = loot
      /\ word' = word /\ asleep' = asleep /\ left' = left /\ pool' = pool /\ started' = started
      /\ finished' = finished \union {f.job}
  BY DEF Return, At, Moves, JoinPlaces, Offering, poolVars
<1>2. f \in Frames /\ Good(T, Mode, f) /\ f.job \in Works
  BY <1>1, JoinParts
<1>3. Types'
  BY <1>1, <1>2 DEF Inv, Types
<1>4. Holds(f) \subseteq Holds(Top(t)) /\ Top(t).at \in JoinPlaces
  BY <1>1
<1> HIDE DEF f
<1> QED BY <1>1, <1>2, <1>3, <1>4, UpInv

-----------------------------------------------------------------------------
(* The client *)

(* The client's own frame is the only one of its thread.                     *)
LEMMA ClientPlace ==
  ASSUME NEW T \in SUBSET Works, Inv(T), NEW t \in Threads, Running(t),
         Top(t).at \in ClientPlaces, NEW g, g.at \in ClientPlaces, NEW wk2
  PROVE  /\ PlaceOK(t, Len(stack[t]), g) /\ WorkKept(t, g, stack, wk2) /\ g.at # "wait"
         /\ Top(t) \in Frames /\ Good(T, Mode, Top(t)) /\ t \notin Workers
<1> DEFINE n == Len(stack[t])
<1>1. /\ n \in Nat \ {0} /\ PlaceOK(t, n, Top(t)) /\ Top(t) \in Frames /\ Good(T, Mode, Top(t))
  BY Running0 DEF Inv, CoreOf
<1> HIDE DEF n
<1>2. n = 1 /\ t = Main
  BY <1>1, Levels
<1>3. ~Offering(g) /\ g.at # "wait"
  BY DEF ClientPlaces, Offering
<1>4. PlaceOK(t, n, g)
  BY <1>2, <1>3 DEF PlaceOK
<1>5. t \notin Workers
  BY <1>2, Threads0
<1> QED BY <1>1, <1>3, <1>4, <1>5 DEF n, WorkKept

(* The client executes its work.                                             *)
LEMMA RunKeeps ==
  ASSUME NEW T \in SUBSET Works, NEW root, IsTree(T, root), Inv(T), NEW t \in Threads, Run(t)
  PROVE  Inv(T)'
<1> DEFINE f == Top(t)
           g == [f EXCEPT !.at = "stop"]
           w == f.dw
<1>1. Running(t) /\ f.at = "run" /\ f.at \in ClientPlaces /\ Executes(t, g, w)
  BY DEF Run, At, ClientPlaces
<1>2. f \in Frames /\ Good(T, Mode, f)
  BY <1>1, TopParts
<1>3. g \in Frames /\ g.at = "stop" /\ g.at \in ClientPlaces
  BY <1>2 DEF Frames, Places, ClientPlaces
<1> HIDE DEF g
<1>4. PlaceOK(t, Len(stack[t]), g) /\ WorkKept(t, g, stack, work) /\ g.at # "wait"
  BY <1>1, <1>3, ClientPlace
<1>5. w \in Works
  BY <1>1, <1>2 DEF Good
<1>6. Good(T, Mode, g)
  BY <1>3 DEF Good, JoinPlaces, BusyPlaces, WordPlaces, StandardPlaces, LoopPlaces, PairPlaces
<1>7. Holds(g) = {} /\ Holds(f) = {w}
  BY <1>1, <1>3 DEF Holds
<1>8. w \in Holds(Top(t)) /\ Holds(g) \subseteq Holds(Top(t)) \ {w}
  BY <1>7
<1> HIDE DEF w, f
<1>9. CoreOf(T, Mode, stack', work', nextWork', started') /\ started' \in [Works -> Nat]
  BY <1>1, <1>3, <1>4, <1>5, <1>6, <1>8, WiderSame, ExecStep
<1>10. /\ steal' = steal /\ work' = work /\ nextWork' = nextWork /\ free' = free /\ loot' = loot
       /\ word' = word /\ asleep' = asleep /\ left' = left /\ pool' = pool /\ finished' = finished
  BY <1>1 DEF Executes, poolVars
<1>11. Types'
  BY <1>9, <1>10 DEF Inv, Types
<1> QED BY <1>9, <1>10, <1>11, InvAgain

(* A step of the client after its work, which may tell a worker to end.      *)
LEMMA ClientInv ==
  ASSUME NEW T \in SUBSET Works, Inv(T), NEW t \in Threads, Running(t), Top(t).at \in ClientPlaces,
         NEW g \in Frames, g.at \in ClientPlaces, Good(T, Mode, g), Moves(t, g),
         Holds(g) \subseteq Holds(Top(t)), WorksGo(t, stack, work, work'),
         \A u \in Workers : work'[u] \in {work[u], Null, Shutdown},
         steal' = steal, pool' = pool, nextWork' = nextWork, started' = started, Types'
  PROVE  Inv(T)'
<1> DEFINE m == Mode
<1>1. Wider(Mode, m) /\ Good(T, m, g)
  BY WiderSame
<1> HIDE DEF m
<1>2. PlaceOK(t, Len(stack[t]), g) /\ WorkKept(t, g, stack, work') /\ g.at # "wait"
  BY ClientPlace
<1>3. CoreOf(T, m, stack', work', nextWork', started')
  BY <1>1, <1>2, KeepStep
<1>4. CoreOf(T, Mode, stack', work', nextWork', started')
  BY <1>3 DEF m
<1>5. \A u \in Workers : steal => /\ work'[u] \in Works => work'[u] \in Mode.pooled
                                  /\ nextWork'[u] \in Works => nextWork'[u] \in Mode.pooled
  BY Words0 DEF Inv, Pooled
<1> QED BY <1>4, <1>5, InvNext

(* The client tells a worker to end.                                         *)
LEMMA StopKeeps ==
  ASSUME NEW T \in SUBSET Works, Inv(T), NEW t \in Threads, Stop(t)
  PROVE  Inv(T)'
<1> DEFINE f == Top(t)
           v == f.next
           g == [f EXCEPT !.at = "join"]
<1>1. /\ Running(t) /\ f.at = "stop" /\ f.at \in ClientPlaces /\ v <= NumThreads
      /\ steal' = steal /\ nextWork' = nextWork /\ free' = free /\ loot' = loot
      /\ word' = word /\ asleep' = asleep /\ left' = left /\ pool' = pool /\ started' = started
      /\ finished' = finished /\ work' = [work EXCEPT ![v] = Shutdown]
      /\ Calls(t, g, WordFrame("post", SubmitOf(v)))
  BY DEF Stop, At, ClientPlaces
<1>2. f \in Frames
  BY <1>1, TopParts
<1>3. v \in Workers
  <2>1. v \in Nat \ {0}
    BY <1>2, FrameParts
  <2> QED BY <1>1, <2>1, ThreadsAssumption DEF Workers
<1>4. Moves(t, g)
  <2>1. SubmitOf(v) \in Words
    BY <1>3 DEF Words
  <2> QED BY <1>1, <2>1 DEF Moves
<1>5. work \in [Workers -> Works \union {Null, Shutdown}]
  BY DEF Inv, Types
<1>6. g \in Frames /\ g.at = "join" /\ g.next = v /\ g.at \in ClientPlaces
  BY <1>2 DEF Frames, Places, ClientPlaces
<1> HIDE DEF g, v
<1>7. Types'
  BY <1>1, <1>3, <1>5 DEF Inv, Types
<1>8. \A u \in Workers : work'[u] \in {work[u], Shutdown}
  BY <1>1, <1>5
<1>9. WorksGo(t, stack, work, work')
  BY <1>8 DEF WorksGo
<1>10. Good(T, Mode, g)
  BY <1>3, <1>6 DEF Good, JoinPlaces, BusyPlaces, WordPlaces, StandardPlaces, LoopPlaces, PairPlaces
<1>11. Holds(g) \subseteq Holds(Top(t)) /\ Top(t).at \in ClientPlaces
  BY <1>1, <1>6 DEF Holds
<1>12. \A u \in Workers : work'[u] \in {work[u], Null, Shutdown}
  BY <1>8
<1> HIDE DEF f
<1> QED BY <1>1, <1>4, <1>6, <1>7, <1>9, <1>10, <1>11, <1>12, ClientInv

(* The client joins a worker that ended.                                     *)
LEMMA JoinKeeps ==
  ASSUME NEW T \in SUBSET Works, Inv(T), NEW t \in Threads, Join(t)
  PROVE  Inv(T)'
<1> DEFINE f == Top(t)
           v == f.next
           k1 == v + 1
           g == [f EXCEPT !.at = "stop", !.next = k1]
<1>1. /\ Running(t) /\ f.at = "join" /\ f.at \in ClientPlaces /\ stack[v] = <<>>
      /\ steal' = steal /\ nextWork' = nextWork /\ free' = free /\ loot' = loot
      /\ word' = word /\ asleep' = asleep /\ left' = left /\ pool' = pool /\ started' = started
      /\ finished' = finished /\ work' \in {work, [work EXCEPT ![v] = Null]}
  BY DEF Join, At, ClientPlaces
<1>2. f \in Frames /\ Good(T, Mode, f)
  BY <1>1, TopParts
<1>3. v \in Workers
  BY <1>1, <1>2 DEF Good
<1>4. Moves(t, g)
  <2>1. [f EXCEPT !.at = "stop", !.next = @ + 1] = g
    OBVIOUS
  <2>2. Becomes(t, [f EXCEPT !.at = "stop", !.next = @ + 1])
    BY DEF Join
  <2> QED BY <2>1, <2>2 DEF Moves
<1>5. work \in [Workers -> Works \union {Null, Shutdown}]
  BY DEF Inv, Types
<1>6. g \in Frames /\ g.at = "stop" /\ g.at \in ClientPlaces
  <2> DEFINE at == "stop"
  <2>0. v \in Nat \ {0}
    BY <1>3, Threads0
  <2>1. at \in Places /\ k1 \in Nat \ {0} /\ g = [f EXCEPT !.at = at, !.next = k1]
    BY <2>0 DEF Places
  <2> HIDE DEF f, g, k1, at
  <2>2. g \in Frames
    BY <1>2, <2>1 DEF Frames
  <2>3. g.at = at
    BY <1>2, <2>1 DEF Frames
  <2> QED BY <2>2, <2>3 DEF at, ClientPlaces
<1> HIDE DEF g, k1, v
<1>7. Types'
  BY <1>1, <1>3, <1>5 DEF Inv, Types
<1>8. \A u \in Workers : work'[u] = work[u] \/ (work'[u] = Null /\ stack[u] = <<>>)
  BY <1>1, <1>5
<1>9. WorksGo(t, stack, work, work')
  BY <1>8 DEF WorksGo
<1>10. Good(T, Mode, g)
  BY <1>6 DEF Good, JoinPlaces, BusyPlaces, WordPlaces, StandardPlaces, LoopPlaces, PairPlaces
<1>11. Holds(g) \subseteq Holds(Top(t)) /\ Top(t).at \in ClientPlaces
  BY <1>1, <1>6 DEF Holds
<1>12. \A u \in Workers : work'[u] \in {work[u], Null, Shutdown}
  BY <1>8
<1> HIDE DEF f
<1> QED BY <1>1, <1>4, <1>6, <1>7, <1>9, <1>10, <1>11, <1>12, ClientInv

(* The pool is destroyed.                                                    *)
LEMMA DestroyedKeeps ==
  ASSUME NEW T \in SUBSET Works, Inv(T), NEW t \in Threads, Destroyed(t)
  PROVE  Inv(T)'
<1> DEFINE f == Top(t)
<1>1. /\ Running(t) /\ f.at = "stop" /\ f.at \in ClientPlaces /\ Moves(t, f)
      /\ steal' = steal /\ work' = work /\ nextWork' = nextWork /\ free' = free /\ loot' = loot
      /\ word' = word /\ asleep' = asleep /\ left' = left /\ pool' = pool /\ started' = started
      /\ finished' = finished
  BY DEF Destroyed, At, Moves, ClientPlaces, poolVars
<1>2. f \in Frames /\ Good(T, Mode, f)
  BY <1>1, TopParts
<1>3. Types'
  BY <1>1 DEF Inv, Types
<1>4. Holds(f) \subseteq Holds(Top(t)) /\ Top(t).at \in ClientPlaces
  BY <1>1
<1>5. WorksGo(t, stack, work, work') /\ \A u \in Workers : work'[u] \in {work[u], Null, Shutdown}
  BY <1>1 DEF WorksGo
<1> HIDE DEF f
<1> QED BY <1>1, <1>2, <1>3, <1>4, <1>5, ClientInv

-----------------------------------------------------------------------------
(* The behaviour *)

(* Every step of every thread keeps the works at their places.               *)
LEMMA StepKeeps ==
  ASSUME NEW T \in SUBSET Works, NEW root, IsTree(T, root), Inv(T), NEW t \in Threads, Step(t)
  PROVE  Inv(T)'
<1>1. CASE WordStep(t)
  BY <1>1, PostCasKeeps, PostWakeKeeps, WaitCasKeeps, WaitSleepKeeps DEF WordStep
<1>2. CASE WorkerStep(t)
  BY <1>2, WaitForWorkKeeps, ExecuteKeeps, SignalWorkDoneKeeps, StealExecutedKeeps, StealFromKeeps,
     GrabKeeps, TookKeeps, UnreserveKeeps, StealClearKeeps DEF WorkerStep
<1>3. CASE StandardStep(t)
  BY <1>3, SingleKeeps, AssignKeeps, BalanceHolds, SubmitThreadedKeeps, ExecuteDirectKeeps,
     AwaitKeeps, ResetKeeps, ReleaseKeeps DEF StandardStep
<1>4. CASE Reserve(t) \/ Hand(t) \/ Offer(t) \/ Hang(t) \/ Direct(t) \/ Count(t) \/ Reclaim(t)
             \/ Retake(t) \/ Drain(t)
  BY <1>4, ReserveKeeps, HandKeeps, OfferKeeps, HangKeeps, DirectKeeps, CountKeeps, ReclaimKeeps,
     RetakeKeeps, DrainKeeps
<1>5. CASE Pair(t) \/ PairHand(t) \/ PairHang(t) \/ First(t) \/ FirstDone(t) \/ PairRetake(t)
             \/ ExecuteSecond(t) \/ SecondDone(t)
  BY <1>5, PairKeeps, PairHandKeeps, PairHangKeeps, FirstKeeps, FirstDoneKeeps, PairRetakeKeeps,
     ExecuteSecondKeeps, SecondDoneKeeps
<1>6. CASE ClientStep(t) \/ Return(t)
  BY <1>6, RunKeeps, StopKeeps, JoinKeeps, DestroyedKeeps, ReturnKeeps DEF ClientStep
<1> QED BY <1>1, <1>2, <1>3, <1>4, <1>5, <1>6 DEF Step, StealStep

Begins(root, t) ==
  IF t = Main THEN [Frame("run", Null) EXCEPT !.dw = root] ELSE Frame("wait", Null)

(* At the start every thread has one frame, and the client's holds its work.  *)
LEMMA InitFrames ==
  ASSUME NEW T \in SUBSET Works, NEW m, NEW root \in Works, NEW t \in Threads, NEW f,
         f = Begins(root, t)
  PROVE  /\ f \in Frames /\ Good(T, m, f) /\ Rested(f) /\ PlaceOK(t, 1, f)
         /\ (t # Main => f.at = "wait") /\ Holds(f) = IF t = Main THEN {root} ELSE {}
<1>1. CASE t = Main
  <2> DEFINE b == Frame("run", Null)
  <2>1. b \in Frames /\ b.at = "run"
    <3>1. "run" \in Places /\ Null \in AnyJobs
      BY DEF Places, AnyJobs
    <3>2. b \in Frames
      BY <3>1, BaseFrames
    <3> QED BY <3>2 DEF Frame
  <2>2. f = [b EXCEPT !.dw = root]
    BY <1>1 DEF Begins
  <2> HIDE DEF b
  <2>3. f \in Frames /\ f.at = "run" /\ f.dw = root
    BY <2>1, <2>2 DEF Frames, AnyJobs
  <2>4. Good(T, m, f)
    BY <2>3 DEF Good, JoinPlaces, BusyPlaces, WordPlaces, StandardPlaces, LoopPlaces, PairPlaces
  <2>7. Rested(f)
    BY <2>3 DEF Rested
  <2>8. ~Offering(f) /\ f.at \in ClientPlaces
    BY <2>3 DEF ClientPlaces, Offering
  <2>5. Rested(f) /\ PlaceOK(t, 1, f)
    BY <1>1, <2>7, <2>8 DEF PlaceOK
  <2>6. Holds(f) = {root}
    BY <2>3 DEF Holds
  <2> QED BY <1>1, <2>3, <2>4, <2>5, <2>6
<1>2. CASE t # Main
  <2>1. f = Frame("wait", Null)
    BY <1>2 DEF Begins
  <2>2. f \in Frames /\ f.at = "wait"
    <3>1. "wait" \in Places /\ Null \in AnyJobs
      BY DEF Places, AnyJobs
    <3>2. f \in Frames
      BY <2>1, <3>1, BaseFrames
    <3> QED BY <2>1, <3>2 DEF Frame
  <2>4. Good(T, m, f)
    BY <2>2 DEF Good, JoinPlaces, BusyPlaces, WordPlaces, StandardPlaces, LoopPlaces, PairPlaces
  <2>5. Rested(f) /\ PlaceOK(t, 1, f)
    BY <1>2, <2>2 DEF Rested, PlaceOK
  <2>6. Holds(f) = {}
    BY <2>2 DEF Holds
  <2> QED BY <1>2, <2>2, <2>4, <2>5, <2>6
<1> QED BY <1>1, <1>2

(* The initial states have the client's work at the one place it is at.      *)
LEMMA InitPlaced ==
  ASSUME Init
  PROVE  Placed
<1>1. PICK client \in Clients :
        /\ steal = client[1]
        /\ stack = [t \in Threads |->
                     <<IF t = Main THEN [Frame("run", Null) EXCEPT !.dw = client[2]]
                                   ELSE Frame("wait", Null)>>]
  BY DEF Init
<1> DEFINE root == client[2]
<1>2. client[1] \in BOOLEAN /\ root \in Works
  BY WorksAssumption
<1>3. PICK T \in SUBSET Works : IsTree(T, root)
  BY TreesAssumption
<1> HIDE DEF root
<1>4. /\ stack \in [Threads -> Seq(Frames)]
      /\ \A t \in Threads : Len(stack[t]) = 1 /\ stack[t][1] = Begins(root, t)
  <2>1. ASSUME NEW t \in Threads
        PROVE  Begins(root, t) \in Frames
    <3> DEFINE f == Begins(root, t)
               m == Mode
    <3>1. f = Begins(root, t)
      OBVIOUS
    <3> HIDE DEF f, m
    <3>2. f \in Frames /\ Good(T, m, f)
      BY <1>2, <3>1, InitFrames
    <3> QED BY <3>1, <3>2
  <2>2. stack = [t \in Threads |-> <<Begins(root, t)>>]
    BY <1>1 DEF Begins, root
  <2> QED BY <2>1, <2>2
<1>5. /\ work = [t \in Workers |-> Null] /\ nextWork = [t \in Workers |-> Null]
      /\ free = Workers /\ loot = {} /\ word = [f \in Words |-> 0]
      /\ asleep = [t \in Threads |-> <<>>] /\ left = [w \in Works |-> 0]
      /\ pool = [w \in Works |-> Null] /\ started = [w \in Works |-> 0] /\ finished = {}
  BY DEF Init
<1>6. Types
  <2>1. steal \in BOOLEAN
    BY <1>1, <1>2
  <2> QED BY <1>5, <2>1 DEF Types
<1>7. Pooled
  BY <1>5, Words0 DEF Pooled
<1>8. StacksOK(T, Mode, stack)
  <2> DEFINE m == Mode
  <2> HIDE DEF m
  <2> SUFFICES ASSUME NEW t \in Threads, NEW i \in 1..Len(stack[t])
               PROVE  Good(T, m, stack[t][i]) /\ Rested(stack[t][i]) /\ PlaceOK(t, i, stack[t][i])
    BY <1>4 DEF StacksOK, m
  <2> DEFINE f == Begins(root, t)
  <2>3. f = Begins(root, t)
    OBVIOUS
  <2> HIDE DEF f
  <2>1. Good(T, m, f) /\ Rested(f) /\ PlaceOK(t, 1, f)
    BY <1>2, <2>3, InitFrames
  <2>2. i = 1 /\ stack[t][i] = f
    <3>1. Len(stack[t]) = 1 /\ stack[t][1] = f
      BY <1>4, <2>3
    <3> QED BY <3>1
  <2> QED BY <2>1, <2>2
<1>9. Busy(stack, work)
  <2> SUFFICES ASSUME NEW t \in Workers
               PROVE  stack[t][1].at = "wait"
    BY DEF Busy
  <2>1. t \in Threads /\ t # Main
    BY Threads0 DEF Threads
  <2> DEFINE f == Begins(root, t)
  <2>2. f = Begins(root, t)
    OBVIOUS
  <2> HIDE DEF f
  <2>3. f.at = "wait"
    BY <1>2, <2>1, <2>2, InitFrames
  <2> QED BY <1>4, <2>1, <2>2, <2>3
<1>10. ASSUME NEW x \in HeldIn(stack, work, nextWork)
       PROVE  x = <<Main, 1, root>>
  <2> DEFINE u == x[1]
             i == x[2]
             w == x[3]
  <2>1. /\ u \in Threads /\ i \in Int /\ w \in Works /\ Has(stack, work, nextWork, u, i, w)
        /\ x = <<u, i, w>>
    BY HeldParts
  <2> HIDE DEF u, i, w
  <2>2. i \in 1..Len(stack[u]) /\ w \in Holds(stack[u][i])
    BY <1>5, <2>1, Words0 DEF Has
  <2>3. i = 1 /\ w \in Holds(Begins(root, u))
    BY <1>4, <2>1, <2>2
  <2> DEFINE f == Begins(root, u)
  <2>6. f = Begins(root, u)
    OBVIOUS
  <2> HIDE DEF f
  <2>4. Holds(f) = IF u = Main THEN {root} ELSE {}
    BY <1>2, <2>1, <2>6, InitFrames
  <2>5. u = Main /\ w = root
    BY <2>3, <2>4, <2>6
  <2> QED BY <2>1, <2>3, <2>5
<1>11. Tokens(T, HeldIn(stack, work, nextWork), started)
  <2> DEFINE H == HeldIn(stack, work, nextWork)
  <2>1. \A x \in H : x = <<Main, 1, root>>
    BY <1>10
  <2> HIDE DEF H
  <2>2. \A x \in H : x[3] = root
    BY <2>1
  <2>3. root \in T /\ \A p \in T : \A i \in DOMAIN Children[p] : Children[p][i] \in T \ {root}
    BY <1>3 DEF IsTree
  <2>4. \A w \in Works : started[w] = 0
    BY <1>5
  <2>5. \A p \in T : DOMAIN Children[p] = 1..Len(Children[p])
    BY ChildFacts
  <2>6. \A x, y \in H : x[3] = y[3] => x = y
    BY <2>1
  <2>7. \A x \in H : x[3] \in T /\ started[x[3]] = 0
    BY <2>2, <2>3, <2>4
  <2>8. \A p \in T : \A i \in 1..Len(Children[p]) :
          Children[p][i] \in Works /\ \A x \in H : x[3] # Children[p][i]
    BY <2>2, <2>3, <2>5
  <2>9. \A p \in T : started[p] = 0 => \A i \in 1..Len(Children[p]) :
          started[Children[p][i]] = 0 /\ \A x \in H : x[3] # Children[p][i]
    BY <2>4, <2>8
  <2>10. \A w \in Works : started[w] <= 1
    BY <2>4
  <2> QED BY <2>6, <2>7, <2>9, <2>10 DEF Tokens, H
<1>12. Inv(T)
  BY <1>6, <1>7, <1>8, <1>9, <1>11 DEF Inv, CoreOf
<1>13. IsForest(T)
  BY <1>3 DEF IsForest, root
<1> QED BY <1>12, <1>13 DEF Placed

(* Every step of the pool keeps them.                                        *)
LEMMA NextPlaced ==
  ASSUME Placed, [Next]_vars
  PROVE  Placed'
<1>1. PICK T \in SUBSET Works : IsForest(T) /\ Inv(T)
  BY DEF Placed
<1>2. PICK client \in Clients : IsTree(T, client[2])
  BY <1>1 DEF IsForest
<1> DEFINE root == client[2]
<1>3. IsTree(T, root)
  BY <1>2
<1> HIDE DEF root
<1>4. Inv(T)'
  <2>1. CASE Next
    <3>1. PICK t \in Threads : Step(t)
      BY <2>1 DEF Next
    <3> QED BY <1>1, <1>3, <3>1, StepKeeps
  <2>2. CASE UNCHANGED vars
    BY <1>1, <2>2 DEF vars, poolVars, Inv, Types, Pooled, CoreOf, Mode
  <2> QED BY <2>1, <2>2
<1>5. IsForest(T)'
  BY <1>1 DEF IsForest
<1> QED BY <1>4, <1>5 DEF Placed

(* In every state each work that may still be executed is at one place: in   *)
(* the frame of one thread, in the word of one worker that waits, or on      *)
(* offer by one.                                                             *)
THEOREM PlacedAlways == Spec => []Placed
<1>1. Init => Placed
  BY InitPlaced
<1>2. Placed /\ [Next]_vars => Placed'
  BY NextPlaced
<1> QED BY <1>1, <1>2, PTL DEF Spec

(* No work is executed a second time, whoever reserved, stole or took it     *)
(* back: for every number of threads, every tree of works, both modes.       *)
THEOREM ExecutedOnceAlways == Spec => []ExecutedOnce
<1>1. Placed => ExecutedOnce
  BY DEF Placed, Inv, CoreOf, Tokens, ExecutedOnce
<1> QED BY <1>1, PlacedAlways, PTL
===============================================================================
