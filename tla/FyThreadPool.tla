----------------------------- MODULE FyThreadPool -----------------------------
(***************************************************************************)
(* The thread pool of libfyaml (Cfyaml/src/thread/fy-thread.c, the futex   *)
(* build): workers that wait for work, the functions that hand it to them  *)
(* and wait for it, in the standard and in the stealing mode, and the      *)
(* shutdown.  A step is one access to what the threads share: a            *)
(* compare-and-exchange, a load, a futex call.  What runs on a thread is a *)
(* stack of frames, since a work may join further works.                   *)
(***************************************************************************)
EXTENDS Integers, SequencesExt, FiniteSetsExt

CONSTANTS
  NumThreads,  \* tp->num_threads
  Works,       \* the works
  Children,    \* the works that a work joins, a function on Works
  Clients      \* the flag FYTPCF_STEAL_MODE and the work of the pool's client

ASSUME ThreadsAssumption == NumThreads \in Nat \ {0}
ASSUME WorksAssumption ==
  /\ Children \in [Works -> Seq(Works)]
  /\ Clients \subseteq BOOLEAN \X Works
  /\ Works \intersect {"NULL", "SHUTDOWN"} = {}

(***************************************************************************)
(* The works of a client are a tree: an entry of an array of works belongs *)
(* to one join, and the client's own work to none.                         *)
(***************************************************************************)
IsTree(T, root) ==
  /\ root \in T
  /\ \A p \in T : \A i \in DOMAIN Children[p] : Children[p][i] \in T \ {root}
  /\ \A p, q \in T : \A i \in DOMAIN Children[p], j \in DOMAIN Children[q] :
       Children[p][i] = Children[q][j] => p = q /\ i = j

ASSUME TreesAssumption == \A client \in Clients : \E T \in SUBSET Works : IsTree(T, client[2])

Workers == 1..NumThreads
Main    == 0
Threads == Workers \union {Main}

Null     == "NULL"
Shutdown == "SHUTDOWN"

(***************************************************************************)
(* The words of struct fy_thread and of struct fy_work_pool that are       *)
(* waited on: submit and done of a worker, done of the work pool of a      *)
(* join.  A join is named by the work that called it.                      *)
(***************************************************************************)
SubmitOf(t) == <<"submit", t>>
DoneOf(t)   == <<"done", t>>
PoolOf(w)   == <<"pool", w>>
Words == {SubmitOf(t) : t \in Workers} \union {DoneOf(t) : t \in Workers}
           \union {PoolOf(w) : w \in Works}

(***************************************************************************)
(* A frame: where its function is (at), the work whose works it joins or   *)
(* executes (job), and its local variables.  next is the index of `works', *)
(* dw the direct work, tw the reserved thread, wp whether the pool is set  *)
(* up, loot is has_loot, word and one belong to fpost and fwait, and       *)
(* threaded and direct are the arrays of the standard join.                *)
(***************************************************************************)
Frame(at, job) ==
  [at |-> at, job |-> job, next |-> 1, dw |-> Null, tw |-> Main, wp |-> FALSE,
   loot |-> FALSE, word |-> <<>>, one |-> 1, threaded |-> <<>>, direct |-> <<>>]
WordFrame(at, word) == [Frame(at, Null) EXCEPT !.word = word]

Places ==
  {"wait", "execute", "signal", "steal", "grab", "took", "unreserve", "clear",
   "run", "stop", "join", "joined", "post", "wake", "fwait", "sleep",
   "single", "assign", "submit", "directly", "await", "reset", "release",
   "loop", "reserve", "hand", "offer", "hang", "direct", "count", "reclaim", "retake",
   "pair", "pair hand", "pair hang", "first", "first done", "pair retake", "second",
   "second done", "drain"}

VARIABLES
  steal,     \* the flag FYTPCF_STEAL_MODE of the pool
  work,      \* fy_thread.work
  nextWork,  \* fy_thread.next_work
  free,      \* tp->freep, as the set of threads whose bit is set
  loot,      \* tp->lootp
  word,      \* the futex words
  asleep,    \* the word each thread sleeps on in FUTEX_WAIT, <<>> if none
  left,      \* fy_work_pool.work_left of each join
  pool,      \* fy_thread_work.wp, the join whose pool it is
  stack,     \* what runs on each thread
  started,   \* the works whose function was called
  finished,  \* those whose function returned
  failed     \* the assertion or abort() that stopped the program

poolVars == <<steal, work, nextWork, free, loot, word, asleep, left, pool>>
vars == <<poolVars, stack, started, finished, failed>>

Running(t) == failed = "no" /\ asleep[t] = <<>> /\ stack[t] # <<>>
Top(t) == Last(stack[t])
At(t, place) == Running(t) /\ Top(t).at = place

(* The work `works' points to.                                               *)
Next1(frame) == Children[frame.job][frame.next]
More(frame)  == frame.next <= Len(Children[frame.job])

(* The head of the loop of the stealing join: a work is set aside to be      *)
(* executed directly; of the others the next one may be given away, if       *)
(* check_fn says so.                                                         *)
LoopHead(frame) ==
  LET set == IF frame.dw = Null /\ More(frame)
               THEN [frame EXCEPT !.dw = Next1(frame), !.next = @ + 1] ELSE frame
  IN CASE set.dw = Null -> {[set EXCEPT !.at = "drain"]}
       [] set.dw # Null /\ ~More(set) -> {[set EXCEPT !.at = "direct"]}
       [] OTHER -> {[set EXCEPT !.at = place] : place \in {"reserve", "direct"}}

(* The loops of the standard join: all works submitted, all direct works     *)
(* executed, all threads released.                                           *)
LoopEnd(frame) ==
  CASE frame.at = "submit" /\ frame.next > Len(frame.threaded) ->
         [frame EXCEPT !.at = "directly", !.next = 1]
    [] frame.at = "directly" /\ frame.next > Len(frame.direct) ->
         [frame EXCEPT !.at = IF frame.threaded = <<>> THEN "joined" ELSE "await", !.next = 1]
    [] frame.at = "await" /\ frame.next > Len(frame.threaded) ->
         [frame EXCEPT !.at = "joined"]
    [] OTHER -> frame

(* Where a frame can be after the steps that touch nothing shared.           *)
Settled(frame) ==
  LET counted == IF frame.at = "count" /\ ~frame.wp
                   THEN [frame EXCEPT !.at = IF frame.loot THEN "reclaim" ELSE "loop"]
                   ELSE LoopEnd(frame)
      places  == IF counted.at = "loop" THEN LoopHead(counted) ELSE {counted}
      Pass(f) == IF f.at \in {"drain", "second done"} /\ ~f.wp THEN [f EXCEPT !.at = "joined"]
                 ELSE IF f.at = "reserve" /\ ~More(f) THEN [f EXCEPT !.at = "direct"]
                 ELSE f
  IN {Pass(f) : f \in places}

(* What a frame becomes, a frame called on top of it, and the return of it.  *)
Becomes(t, frame) ==
  \E f \in Settled(frame) : stack' = [stack EXCEPT ![t] = Front(@) \o <<f>>]
Calls(t, frame, called) ==
  \E f \in Settled(frame) : \E c \in Settled(called) :
     stack' = [stack EXCEPT ![t] = Front(@) \o <<f, c>>]
Returns(t)     == stack' = [stack EXCEPT ![t] = Front(@)]
Goes(t, place) == Becomes(t, [Top(t) EXCEPT !.at = place])

Fails(why) ==
  failed' = why /\ UNCHANGED <<poolVars, stack, started, finished>>

-----------------------------------------------------------------------------
(* fpost and fwait                                                          *)

PostCas(t) ==
  /\ At(t, "post")
  /\ LET f == Top(t).word IN
       IF word[f] = 0 THEN word' = [word EXCEPT ![f] = 1] /\ Goes(t, "wake")
                      ELSE UNCHANGED word /\ Returns(t)
  /\ UNCHANGED <<steal, work, nextWork, free, loot, asleep, left, pool, started, finished, failed>>

PostWake(t) ==
  /\ At(t, "wake")
  /\ LET waiting == {u \in Threads : asleep[u] = Top(t).word} IN
       IF waiting = {} THEN UNCHANGED asleep
                       ELSE \E u \in waiting : asleep' = [asleep EXCEPT ![u] = <<>>]
  /\ Returns(t)
  /\ UNCHANGED <<steal, work, nextWork, free, loot, word, left, pool, started, finished, failed>>

(* The compare-and-exchange that fails leaves the value it saw in `one', and *)
(* the next one compares with that.                                          *)
WaitCas(t) ==
  /\ At(t, "fwait")
  /\ LET f == Top(t).word IN
       IF word[f] = Top(t).one
         THEN word' = [word EXCEPT ![f] = 0] /\ Returns(t)
         ELSE UNCHANGED word /\ Becomes(t, [Top(t) EXCEPT !.at = "sleep", !.one = word[f]])
  /\ UNCHANGED <<steal, work, nextWork, free, loot, asleep, left, pool, started, finished, failed>>

(* Mutant: FUTEX_WAIT without the value that is expected.                    *)
WaitSleepUnchecked(t) ==
  /\ At(t, "sleep")
  /\ asleep' = [asleep EXCEPT ![t] = Top(t).word]
  /\ Goes(t, "fwait")
  /\ UNCHANGED <<steal, work, nextWork, free, loot, word, left, pool, started, finished, failed>>

WaitSleep(t) ==
  /\ At(t, "sleep")
  /\ asleep' = IF word[Top(t).word] = 0 THEN [asleep EXCEPT ![t] = Top(t).word] ELSE asleep
  /\ Goes(t, "fwait")
  /\ UNCHANGED <<steal, work, nextWork, free, loot, word, left, pool, started, finished, failed>>

-----------------------------------------------------------------------------
(* Reserving a thread and handing work to it.  FY_BIT64_LOWEST takes the    *)
(* first free one; the compare-and-exchange is repeated until no other      *)
(* thread came in between.                                                  *)

Reserved == Min(free)

(* The function of a work joins its children, in the mode of the pool.       *)
JoinPlace(w) ==
  CASE Children[w] = <<>>            -> "joined"
    [] ~steal /\ Len(Children[w]) = 1 -> "single"
    [] ~steal /\ Len(Children[w]) > 1 -> "assign"
    [] steal /\ Len(Children[w]) = 2  -> "pair"
    [] OTHER                          -> "loop"

(* w->fn(w->arg), after which the caller goes on as frame says.              *)
Executes(t, frame, w) ==
  /\ Calls(t, frame, Frame(JoinPlace(w), w))
  /\ started' = [started EXCEPT ![w] = @ + 1]
  /\ UNCHANGED <<poolVars, finished, failed>>

Return(t) ==
  /\ At(t, "joined")
  /\ finished' = finished \union {Top(t).job}
  /\ Returns(t)
  /\ UNCHANGED <<poolVars, started, failed>>

(* Mutant: the direct work is not counted.                                   *)
PoolInitDirectless(frame, count) ==
  IF frame.wp THEN left ELSE [left EXCEPT ![frame.job] = count - 1]

(* fy_work_pool_init, by the first work that is given away.                  *)
PoolInit(frame, count) ==
  IF frame.wp THEN left ELSE [left EXCEPT ![frame.job] = count]

(* fy_work_pool_signal: the count goes down, and who takes it to zero posts  *)
(* the word of the pool.                                                     *)
Signals(t, job, frame) ==
  /\ left' = [left EXCEPT ![job] = @ - 1]
  /\ IF left[job] = 1 THEN Calls(t, frame, WordFrame("post", PoolOf(job)))
                      ELSE Becomes(t, frame)
  /\ UNCHANGED <<steal, work, nextWork, free, loot, word, asleep, pool, started, finished, failed>>

-----------------------------------------------------------------------------
(* The workers                                                              *)

(* fy_worker_wait_for_work: the work it finds, a shutdown, or a wait.        *)
WaitForWork(t) ==
  /\ At(t, "wait")
  /\ CASE work[t] = Null     -> Calls(t, Top(t), WordFrame("fwait", SubmitOf(t)))
       [] work[t] = Shutdown -> Returns(t)
       [] OTHER              -> Becomes(t, [Top(t) EXCEPT !.at = "execute", !.dw = work[t]])
  /\ UNCHANGED <<poolVars, started, finished, failed>>

Execute(t) ==
  /\ At(t, "execute")
  /\ Executes(t, [Top(t) EXCEPT !.at = IF steal THEN "signal" ELSE "clear"], Top(t).dw)

(* fy_worker_signal_work_done: the work is cleared before the word is posted. *)
SignalWorkDone(t) ==
  /\ At(t, "clear") /\ ~steal
  /\ IF work[t] = Top(t).dw
       THEN /\ work' = [work EXCEPT ![t] = Null]
            /\ Calls(t, [Top(t) EXCEPT !.at = "wait", !.dw = Null], WordFrame("post", DoneOf(t)))
            /\ UNCHANGED <<steal, nextWork, free, loot, word, asleep, left, pool, started, finished, failed>>
       ELSE Fails("work cleared")

StealExecuted(t) ==
  /\ At(t, "signal")
  /\ Signals(t, pool[Top(t).dw], [Top(t) EXCEPT !.at = "steal"])

(* fy_worker_thread_steal_work: the first thread with loot, whose work may   *)
(* be gone by the time it is looked at.                                      *)
StealFrom(t) ==
  /\ At(t, "steal")
  /\ \/ /\ loot = {}
        /\ Goes(t, "unreserve") /\ UNCHANGED loot
     \/ /\ loot # {}
        /\ loot' = loot \ {Min(loot)}
        /\ Becomes(t, [Top(t) EXCEPT !.at = "grab", !.tw = Min(loot)])
  /\ UNCHANGED <<steal, work, nextWork, free, word, asleep, left, pool, started, finished, failed>>

Grab(t) ==
  /\ At(t, "grab")
  /\ LET victim == Top(t).tw
         w      == nextWork[victim]
     IN /\ nextWork' = [nextWork EXCEPT ![victim] = Null]
        /\ IF w = Null THEN Goes(t, "steal")
                       ELSE Becomes(t, [Top(t) EXCEPT !.at = "took", !.job = w])
  /\ UNCHANGED <<steal, work, free, loot, word, asleep, left, pool, started, finished, failed>>

Took(t) ==
  /\ At(t, "took")
  /\ IF work[t] = Top(t).dw
       THEN /\ work' = [work EXCEPT ![t] = Top(t).job]
            /\ Becomes(t, [Top(t) EXCEPT !.at = "execute", !.dw = Top(t).job])
            /\ UNCHANGED <<steal, nextWork, free, loot, word, asleep, left, pool, started, finished, failed>>
       ELSE Fails("work replaced")

(* The thread is unreserved first, and only then is its work cleared.        *)
Unreserve(t) ==
  /\ At(t, "unreserve")
  /\ free' = free \union {t}
  /\ Goes(t, "clear")
  /\ UNCHANGED <<steal, work, nextWork, loot, word, asleep, left, pool, started, finished, failed>>

StealClear(t) ==
  /\ At(t, "clear") /\ steal
  /\ IF work[t] = Top(t).dw
       THEN /\ work' = [work EXCEPT ![t] = Null]
            /\ Becomes(t, [Top(t) EXCEPT !.at = "wait", !.dw = Null])
            /\ UNCHANGED <<steal, nextWork, free, loot, word, asleep, left, pool, started, finished, failed>>
       ELSE Fails("shut down at work")

-----------------------------------------------------------------------------
(* fy_thread_work_join_standard                                             *)

Single(t) ==
  /\ At(t, "single")
  /\ Executes(t, [Top(t) EXCEPT !.at = "joined"], Children[Top(t).job][1])

(* Each work is given to a thread that is reserved for it, if check_fn says  *)
(* so and one is free, or executed directly.                                 *)
Assign(t) ==
  /\ At(t, "assign") /\ More(Top(t))
  /\ \/ /\ free # {}
        /\ free' = free \ {Reserved}
        /\ Becomes(t, [Top(t) EXCEPT !.next = @ + 1,
                                     !.threaded = Append(@, <<Reserved, Next1(Top(t))>>)])
     \/ /\ Becomes(t, [Top(t) EXCEPT !.next = @ + 1, !.direct = Append(@, Next1(Top(t)))])
        /\ UNCHANGED free
  /\ UNCHANGED <<steal, work, nextWork, loot, word, asleep, left, pool, started, finished, failed>>

(* Mutant: the thread of the work that becomes direct stays reserved.        *)
BalanceKeeps(t) ==
  /\ At(t, "assign") /\ ~More(Top(t))
  /\ IF Top(t).direct # <<>>
       THEN Becomes(t, [Top(t) EXCEPT !.at = "submit", !.next = 1])
       ELSE Becomes(t, [Top(t) EXCEPT !.at = "submit", !.next = 1,
                                      !.direct = <<Last(Top(t).threaded)[2]>>,
                                      !.threaded = Front(@)])
  /\ UNCHANGED <<poolVars, started, finished, failed>>

(* At least one work is direct: the last one that has a thread, if need be.  *)
Balance(t) ==
  /\ At(t, "assign") /\ ~More(Top(t))
  /\ IF Top(t).direct # <<>>
       THEN /\ Becomes(t, [Top(t) EXCEPT !.at = "submit", !.next = 1])
            /\ UNCHANGED free
       ELSE /\ free' = free \union {Last(Top(t).threaded)[1]}
            /\ Becomes(t, [Top(t) EXCEPT !.at = "submit", !.next = 1,
                                         !.direct = <<Last(Top(t).threaded)[2]>>,
                                         !.threaded = Front(@)])
  /\ UNCHANGED <<steal, work, nextWork, loot, word, asleep, left, pool, started, finished, failed>>

(* A work that cannot be submitted becomes a direct one; its place in the    *)
(* array of threads is cleared.                                              *)
SubmitThreaded(t) ==
  /\ At(t, "submit")
  /\ LET frame == Top(t)
         tw    == frame.threaded[frame.next][1]
         w     == frame.threaded[frame.next][2]
     IN IF work[tw] = Null
          THEN /\ work' = [work EXCEPT ![tw] = w]
               /\ Calls(t, [frame EXCEPT !.next = @ + 1], WordFrame("post", SubmitOf(tw)))
               /\ UNCHANGED free
          ELSE /\ free' = free \union {tw}
               /\ Becomes(t, [frame EXCEPT !.next = @ + 1, !.direct = Append(@, w),
                                           !.threaded[frame.next] = <<Main, Null>>])
               /\ UNCHANGED work
  /\ UNCHANGED <<steal, nextWork, loot, word, asleep, left, pool, started, finished, failed>>

ExecuteDirect(t) ==
  /\ At(t, "directly")
  /\ Executes(t, [Top(t) EXCEPT !.next = @ + 1], Top(t).direct[Top(t).next])

(* fy_thread_wait_work_internal: until the work of the thread is cleared.    *)
Await(t) ==
  /\ At(t, "await")
  /\ LET tw == Top(t).threaded[Top(t).next][1] IN
       IF tw = Main THEN Fails("no thread")
       ELSE /\ IF work[tw] = Null
                 THEN Becomes(t, [Top(t) EXCEPT !.at = "reset", !.tw = tw])
                 ELSE Calls(t, Top(t), WordFrame("fwait", DoneOf(tw)))
            /\ UNCHANGED <<poolVars, started, finished, failed>>

Reset(t) ==
  /\ At(t, "reset")
  /\ word' = [word EXCEPT ![DoneOf(Top(t).tw)] = 0]
  /\ Goes(t, "release")
  /\ UNCHANGED <<steal, work, nextWork, free, loot, asleep, left, pool, started, finished, failed>>

Release(t) ==
  /\ At(t, "release")
  /\ free' = free \union {Top(t).tw}
  /\ Becomes(t, [Top(t) EXCEPT !.at = "await", !.next = @ + 1, !.tw = Main])
  /\ UNCHANGED <<steal, work, nextWork, loot, word, asleep, left, pool, started, finished, failed>>

-----------------------------------------------------------------------------
(* fy_thread_work_join_steal                                                *)

(* A pool counts the works that are left, the direct one with them.          *)
Reserve(t) ==
  /\ At(t, "reserve")
  /\ LET frame == Top(t) IN
       \/ /\ free = {}
          /\ Goes(t, "offer")
          /\ UNCHANGED <<free, left, pool>>
       \/ /\ free # {}
          /\ free' = free \ {Reserved}
          /\ left' = PoolInit(frame, Len(Children[frame.job]) - frame.next + 2)
          /\ pool' = [pool EXCEPT ![Next1(frame)] = frame.job]
          /\ Becomes(t, [frame EXCEPT !.at = "hand", !.tw = Reserved, !.wp = TRUE])
  /\ UNCHANGED <<steal, work, nextWork, loot, word, asleep, started, finished, failed>>

Hand(t) ==
  /\ At(t, "hand")
  /\ LET frame == Top(t) IN
       \/ /\ work[frame.tw] = Null
          /\ work' = [work EXCEPT ![frame.tw] = Next1(frame)]
          /\ Calls(t, [frame EXCEPT !.at = "reserve", !.next = @ + 1, !.tw = Main],
                   WordFrame("post", SubmitOf(frame.tw)))
          /\ UNCHANGED <<steal, nextWork, free, loot, word, asleep, left, pool, started, finished, failed>>
       \/ work[frame.tw] # Null /\ Fails("not submitted")

(* t = pthread_getspecific(tp->key): only a worker has a next_work.          *)
MayOffer(t) == t # Main /\ nextWork[t] = Null

(* With no thread free, a worker offers the next work to thieves.            *)
Offer(t) ==
  /\ At(t, "offer")
  /\ LET frame == Top(t) IN
       IF MayOffer(t)
         THEN /\ left' = PoolInit(frame, Len(Children[frame.job]) - frame.next + 2)
              /\ pool' = [pool EXCEPT ![Next1(frame)] = frame.job]
              /\ nextWork' = [nextWork EXCEPT ![t] = Next1(frame)]
              /\ Becomes(t, [frame EXCEPT !.at = "hang", !.wp = TRUE])
         ELSE Goes(t, "direct") /\ UNCHANGED <<left, pool, nextWork>>
  /\ UNCHANGED <<steal, work, free, loot, word, asleep, started, finished, failed>>

Hang(t) ==
  /\ At(t, "hang")
  /\ loot' = loot \union {t}
  /\ Becomes(t, [Top(t) EXCEPT !.at = "direct", !.loot = TRUE])
  /\ UNCHANGED <<steal, work, nextWork, free, word, asleep, left, pool, started, finished, failed>>

Direct(t) ==
  /\ At(t, "direct")
  /\ Executes(t, [Top(t) EXCEPT !.at = "count", !.dw = Null], Top(t).dw)

(* The direct work is done: if there is a pool it counted there.             *)
Count(t) ==
  /\ At(t, "count")
  /\ Signals(t, Top(t).job, [Top(t) EXCEPT !.at = IF Top(t).loot THEN "reclaim" ELSE "loop"])

Reclaim(t) ==
  /\ At(t, "reclaim")
  /\ loot' = loot \ {t}
  /\ Goes(t, "retake")
  /\ UNCHANGED <<steal, work, nextWork, free, word, asleep, left, pool, started, finished, failed>>

(* Mutant: the work that was offered is executed although it was stolen.     *)
RetakeStolen(t) ==
  /\ At(t, "retake")
  /\ LET frame == [Top(t) EXCEPT !.at = "loop", !.loot = FALSE] IN
       nextWork' = [nextWork EXCEPT ![t] = Null] /\ Becomes(t, frame)
  /\ UNCHANGED <<steal, work, free, loot, word, asleep, left, pool, started, finished, failed>>

(* The work that was offered: stolen, or still there and the next one.       *)
Retake(t) ==
  /\ At(t, "retake")
  /\ LET frame == [Top(t) EXCEPT !.at = "loop", !.loot = FALSE] IN
       IF nextWork[t] = Next1(frame)
         THEN nextWork' = [nextWork EXCEPT ![t] = Null] /\ Becomes(t, frame)
         ELSE Becomes(t, [frame EXCEPT !.next = @ + 1]) /\ UNCHANGED nextWork
  /\ UNCHANGED <<steal, work, free, loot, word, asleep, left, pool, started, finished, failed>>

(* Mutant: the pool is not waited for.                                       *)
DrainNothing(t) ==
  /\ At(t, "drain")
  /\ Goes(t, "joined")
  /\ UNCHANGED <<poolVars, started, finished, failed>>

(* fy_work_pool_wait                                                        *)
Drain(t) ==
  /\ At(t, "drain")
  /\ IF left[Top(t).job] > 0
       THEN Calls(t, Top(t), WordFrame("fwait", PoolOf(Top(t).job)))
       ELSE Goes(t, "joined")
  /\ UNCHANGED <<poolVars, started, finished, failed>>

-----------------------------------------------------------------------------
(* fy_thread_work_join_steal_2: the second of two works is given away, and  *)
(* the first is executed; the pool counts the second only.                  *)

Second(frame) == Children[frame.job][2]

Pair(t) ==
  /\ At(t, "pair")
  /\ LET frame == Top(t) IN
       \/ /\ Goes(t, "first")
          /\ UNCHANGED <<free, left, pool, nextWork>>
       \/ /\ free # {}
          /\ free' = free \ {Reserved}
          /\ left' = PoolInit(frame, 1)
          /\ pool' = [pool EXCEPT ![Second(frame)] = frame.job]
          /\ Becomes(t, [frame EXCEPT !.at = "pair hand", !.tw = Reserved, !.wp = TRUE])
          /\ UNCHANGED nextWork
       \/ /\ free = {} /\ MayOffer(t)
          /\ left' = PoolInit(frame, 1)
          /\ pool' = [pool EXCEPT ![Second(frame)] = frame.job]
          /\ nextWork' = [nextWork EXCEPT ![t] = Second(frame)]
          /\ Becomes(t, [frame EXCEPT !.at = "pair hang", !.wp = TRUE])
          /\ UNCHANGED free
  /\ UNCHANGED <<steal, work, loot, word, asleep, started, finished, failed>>

PairHand(t) ==
  /\ At(t, "pair hand")
  /\ LET frame == Top(t) IN
       \/ /\ work[frame.tw] = Null
          /\ work' = [work EXCEPT ![frame.tw] = Second(frame)]
          /\ Calls(t, [frame EXCEPT !.at = "first"], WordFrame("post", SubmitOf(frame.tw)))
          /\ UNCHANGED <<steal, nextWork, free, loot, word, asleep, left, pool, started, finished, failed>>
       \/ work[frame.tw] # Null /\ Fails("not submitted")

PairHang(t) ==
  /\ At(t, "pair hang")
  /\ loot' = loot \union {t}
  /\ Becomes(t, [Top(t) EXCEPT !.at = "first", !.loot = TRUE])
  /\ UNCHANGED <<steal, work, nextWork, free, word, asleep, left, pool, started, finished, failed>>

First(t) ==
  /\ At(t, "first")
  /\ Executes(t, [Top(t) EXCEPT !.at = "first done"], Children[Top(t).job][1])

(* pushed is that a thread was reserved.                                     *)
FirstDone(t) ==
  /\ At(t, "first done")
  /\ IF Top(t).loot THEN loot' = loot \ {t} /\ Goes(t, "pair retake")
     ELSE /\ Goes(t, IF Top(t).tw = Main THEN "second" ELSE "drain")
          /\ UNCHANGED loot
  /\ UNCHANGED <<steal, work, nextWork, free, word, asleep, left, pool, started, finished, failed>>

PairRetake(t) ==
  /\ At(t, "pair retake")
  /\ IF nextWork[t] = Second(Top(t))
       THEN nextWork' = [nextWork EXCEPT ![t] = Null] /\ Goes(t, "second")
       ELSE Goes(t, "drain") /\ UNCHANGED nextWork
  /\ UNCHANGED <<steal, work, free, loot, word, asleep, left, pool, started, finished, failed>>

ExecuteSecond(t) ==
  /\ At(t, "second")
  /\ Executes(t, [Top(t) EXCEPT !.at = "second done"], Second(Top(t)))

SecondDone(t) ==
  /\ At(t, "second done")
  /\ Signals(t, Top(t).job, [Top(t) EXCEPT !.at = "drain"])

-----------------------------------------------------------------------------
(* The client: a work of its own, then fy_thread_pool_destroy               *)

Run(t) ==
  /\ At(t, "run")
  /\ Executes(t, [Top(t) EXCEPT !.at = "stop"], Top(t).dw)

(* fy_worker_thread_shutdown of one worker after the other.                  *)
Stop(t) ==
  /\ At(t, "stop") /\ Top(t).next <= NumThreads
  /\ work' = [work EXCEPT ![Top(t).next] = Shutdown]
  /\ Calls(t, [Top(t) EXCEPT !.at = "join"], WordFrame("post", SubmitOf(Top(t).next)))
  /\ UNCHANGED <<steal, nextWork, free, loot, word, asleep, left, pool, started, finished, failed>>

Join(t) ==
  /\ At(t, "join") /\ stack[Top(t).next] = <<>>
  /\ work' = IF steal THEN work ELSE [work EXCEPT ![Top(t).next] = Null]
  /\ Becomes(t, [Top(t) EXCEPT !.at = "stop", !.next = @ + 1])
  /\ UNCHANGED <<steal, nextWork, free, loot, word, asleep, left, pool, started, finished, failed>>

Destroyed(t) ==
  /\ At(t, "stop") /\ Top(t).next > NumThreads
  /\ Returns(t)
  /\ UNCHANGED <<poolVars, started, finished, failed>>

-----------------------------------------------------------------------------

Init ==
  /\ work     = [t \in Workers |-> Null]
  /\ nextWork = [t \in Workers |-> Null]
  /\ free = Workers
  /\ loot = {}
  /\ word   = [f \in Words |-> 0]
  /\ asleep = [t \in Threads |-> <<>>]
  /\ left   = [w \in Works |-> 0]
  /\ pool   = [w \in Works |-> Null]
  /\ \E client \in Clients :
       /\ steal = client[1]
       /\ stack = [t \in Threads |->
                     <<IF t = Main THEN [Frame("run", Null) EXCEPT !.dw = client[2]]
                                   ELSE Frame("wait", Null)>>]
  /\ started  = [w \in Works |-> 0]
  /\ finished = {}
  /\ failed = "no"

WordStep(t) == PostCas(t) \/ PostWake(t) \/ WaitCas(t) \/ WaitSleep(t)

WorkerStep(t) ==
  \/ WaitForWork(t) \/ Execute(t) \/ SignalWorkDone(t) \/ StealExecuted(t) \/ StealFrom(t)
  \/ Grab(t) \/ Took(t) \/ Unreserve(t) \/ StealClear(t)

StandardStep(t) ==
  \/ Single(t) \/ Assign(t) \/ Balance(t) \/ SubmitThreaded(t) \/ ExecuteDirect(t)
  \/ Await(t) \/ Reset(t) \/ Release(t)

StealStep(t) ==
  \/ Reserve(t) \/ Hand(t) \/ Offer(t) \/ Hang(t) \/ Direct(t) \/ Count(t)
  \/ Reclaim(t) \/ Retake(t) \/ Drain(t)
  \/ Pair(t) \/ PairHand(t) \/ PairHang(t) \/ First(t) \/ FirstDone(t) \/ PairRetake(t)
  \/ ExecuteSecond(t) \/ SecondDone(t)

ClientStep(t) == Run(t) \/ Stop(t) \/ Join(t) \/ Destroyed(t)

Step(t) ==
  WordStep(t) \/ WorkerStep(t) \/ StandardStep(t) \/ StealStep(t) \/ ClientStep(t) \/ Return(t)

Next == \E t \in Threads : Step(t)

(* Some thread that can run does run: the scheduler of the operating system  *)
(* promises more, fairness among the threads, which is not needed.           *)
Spec == Init /\ [][Next]_vars /\ WF_vars(Next)

-----------------------------------------------------------------------------

TypeOK ==
  /\ steal \in BOOLEAN
  /\ work \in [Workers -> Works \union {Null, Shutdown}]
  /\ nextWork \in [Workers -> Works \union {Null}]
  /\ free \subseteq Workers /\ loot \subseteq Workers
  /\ word \in [Words -> {0, 1}]
  /\ asleep \in [Threads -> Words \union {<<>>}]
  /\ left \in [Works -> Nat]
  /\ pool \in [Works -> Works \union {Null}]
  /\ \A t \in Threads : \A i \in DOMAIN stack[t] : stack[t][i].at \in Places
  /\ started \in [Works -> Nat]
  /\ finished \subseteq Works

(* No work is executed a second time, whoever reserved, stole or took it     *)
(* back (Grab, Retake and PairRetake compete for the same work).             *)
ExecutedOnce == \A w \in Works : started[w] <= 1

(* fy_thread_work_join and the tree of works implement ForkJoin: a join      *)
(* returns when its works are finished, in both modes.                       *)
FJ == INSTANCE ForkJoin WITH started <- {w \in Works : started[w] > 0}
JoinsAll == FJ!Spec

(* In the standard mode a thread that is free has no work, no assertion of   *)
(* the pool can fail, and all threads are free when the joins are over.      *)
StandardAsserts ==
  ~steal => /\ failed = "no" /\ \A t \in free : work[t] \in {Null, Shutdown}
            /\ At(Main, "stop") => free = Workers

(* No wakeup is lost between the words and the sleepers: the client gets     *)
(* through its joins and the shutdown, unless an assertion stops it.         *)
Terminates == <>(failed # "no" \/ stack[Main] = <<>>)

(* assert(!rc): the submission to a thread that was just reserved is         *)
(* accepted (fy-thread.c:958, 1083).                                         *)
SubmissionAccepted == failed # "not submitted"

===============================================================================
