------------------------------- MODULE ForkJoin -------------------------------
(***************************************************************************)
(* What fy_thread_work_join promises (Cfyaml/include/libfyaml.h): the      *)
(* works it is given are executed, each one once, and it returns when all  *)
(* of them are finished.  A work may itself join further works.  Threads,  *)
(* reservations and stealing do not show.                                  *)
(***************************************************************************)
EXTENDS Naturals, Sequences

CONSTANTS
  Works,     \* the works
  Children   \* the works that a work joins, a function on Works

VARIABLES
  started,   \* the works that were started
  finished   \* those that came to their end

joinVars == <<started, finished>>

Parts(w) == {Children[w][i] : i \in DOMAIN Children[w]}

Start(w) ==
  /\ w \notin started
  /\ started = {} \/ \E p \in started \ finished : w \in Parts(p)
  /\ started' = started \union {w}
  /\ UNCHANGED finished

Finish(w) ==
  /\ w \in started \ finished
  /\ Parts(w) \subseteq finished
  /\ finished' = finished \union {w}
  /\ UNCHANGED started

Init == started = {} /\ finished = {}

Next == \E w \in Works : Start(w) \/ Finish(w)

Spec == Init /\ [][Next]_joinVars

===============================================================================
