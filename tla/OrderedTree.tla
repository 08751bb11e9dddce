---------------------------- MODULE OrderedTree ----------------------------
(***************************************************************************)
(* What an encoding session promises to the value it encodes, without      *)
(* storages, coding paths or referencing encoders.  A container is a list  *)
(* of slots in the order the value asked for them; asking for a nested     *)
(* container or a super encoder takes a slot at once, and what is written  *)
(* to it fills that slot later.  A container handed over as a value is     *)
(* complete and never changes again, and a session in which some slot      *)
(* could not be filled ends in an error.                                   *)
(***************************************************************************)
EXTENDS Integers, Sequences, Functions

CONSTANTS Nodes, Keys, NoKey, Tickets

VARIABLES
  tree,     \* the slots of each container
  failed,   \* some slot could not be filled
  result    \* "running", then "ok" or "error"

treeVars == <<tree, failed, result>>

\* A slot that waits for its value names the ticket that will fill it.
Primitive  == 0
Lost       == -1
Pending(t) == -t

IsValue(v)  == v \in Nodes \union {Primitive}
Building    == result = "running"
IsPending(v) == \E t \in Tickets : v = Pending(t)
Occurs(v)    == \E m \in Nodes : \E s \in Range(tree[m]) : s.val = v
Sealed(n)    == Occurs(n)
Complete(n)  == \A s \in Range(tree[n]) : IsValue(s.val)

\* A value is a primitive or a complete container that has no place yet.
Ready(v, n) == v = Primitive \/ (v \in Nodes \ {n} /\ Complete(v) /\ ~Sealed(v))
MayHold(v, n) ==
  Ready(v, n) \/ \E t \in Tickets : v = Pending(t) /\ ~Occurs(Pending(t))

Init ==
  /\ tree = [n \in Nodes |-> <<>>]
  /\ failed = FALSE
  /\ result = "running"

\* A new slot at the end, holding a value or waiting for one.
Add(n, key, v) ==
  /\ Building /\ ~Sealed(n)
  /\ MayHold(v, n)
  /\ key = NoKey \/ \A s \in Range(tree[n]) : s.key # key
  /\ tree' = [tree EXCEPT ![n] = Append(@, [key |-> key, val |-> v])]
  /\ UNCHANGED <<failed, result>>

\* A keyed slot asked for again keeps its position.
Renew(n, i, v) ==
  /\ Building /\ ~Sealed(n)
  /\ MayHold(v, n)
  /\ tree[n][i].key # NoKey /\ ~IsPending(tree[n][i].val)
  /\ tree' = [tree EXCEPT ![n][i].val = v]
  /\ UNCHANGED <<failed, result>>

Fulfil(n, i, v) ==
  /\ Building
  /\ IsPending(tree[n][i].val) /\ Ready(v, n)
  /\ tree' = [tree EXCEPT ![n][i].val = v]
  /\ UNCHANGED <<failed, result>>

\* The container meant for the slot is refused and dropped.
Abandon(n, i, dropped) ==
  /\ Building
  /\ IsPending(tree[n][i].val) /\ ~Sealed(dropped)
  /\ tree' = [tree EXCEPT
       ![n] = IF tree[n][i].key = NoKey
              THEN SubSeq(@, 1, i - 1) \o SubSeq(@, i + 1, Len(@))
              ELSE [@ EXCEPT ![i].val = Lost],
       ![dropped] = <<>>]
  /\ failed' = TRUE
  /\ UNCHANGED result

\* An error drops the container being written; the outermost one ends it all.
Discard(n) ==
  /\ Building /\ ~Sealed(n)
  /\ tree' = [tree EXCEPT ![n] = <<>>]
  /\ result' \in {"running", "error"}
  /\ UNCHANGED failed

Fail ==
  /\ Building
  /\ result' = "error"
  /\ UNCHANGED <<tree, failed>>

\* The value of the session is complete and nothing was lost on the way.
Finish(v) ==
  /\ Building /\ ~failed
  /\ v = Primitive \/ (Complete(v) /\ ~Sealed(v))
  /\ result' = "ok"
  /\ UNCHANGED <<tree, failed>>

Entries == Nodes \union {Primitive} \union {Pending(t) : t \in Tickets}

Next ==
  \/ \E n \in Nodes :
       \/ \E key \in Keys \union {NoKey}, v \in Entries : Add(n, key, v)
       \/ \E i \in DOMAIN tree[n] :
            \/ \E v \in Entries : Renew(n, i, v)
            \/ \E v \in Nodes \union {Primitive} : Fulfil(n, i, v)
            \/ \E dropped \in Nodes : Abandon(n, i, dropped)
       \/ Discard(n)
       \/ Finish(n)
  \/ Finish(Primitive)
  \/ Fail

Spec == Init /\ [][Next]_treeVars
=============================================================================
