---------------------------- MODULE YamlMeaning ----------------------------
(* What a YAML document means: the value that is left when every alias      *)
(* stands for the node its anchor was put on before, and every merge key    *)
(* for the pairs of the mappings it names, those of the mapping itself and  *)
(* of the earlier names being the ones that count.                          *)
(* A document is a tree of records of a kind, an anchor (None: none), a     *)
(* style, a text (of an alias: the name) and the nodes below it, the pairs  *)
(* of a mapping being tuples of a key and a value.                          *)
EXTENDS Integers, Sequences, SequencesExt, FiniteSets

LOCAL None == 0
CONSTANTS MergeText, Names   \* the text "<<"; the names of anchors

Unknown == <<"unknown">>     \* an anchor that was not seen
Open == <<"open">>           \* the anchor of a node that is not at its end
NoAnchors == [n \in Names |-> Unknown]

(* The value of a node, what the anchors mean after it, and whether it is a  *)
(* document that means something.                                            *)
Meant(v, env, ok) == [v |-> v, env |-> env, ok |-> ok]
Anchored(t, v, r) == Meant(v, IF t.anchor = None THEN r.env ELSE [r.env EXCEPT ![t.anchor] = v], r.ok)
IsMerge(t) == t.kind = "scalar" /\ t.style = "plain" /\ t.text = MergeText

(* The mappings a merge key's value names. *)
Sources(v, value) == IF value.kind = "sequence" THEN v[2] ELSE <<v>>
NamesMappings(v, value) == \A i \in DOMAIN Sources(v, value) : Sources(v, value)[i][1] = "mapping"
Merged(pairs, sources) ==
    FoldLeft(LAMBDA ps, s : ps \cup {p \in s[2] : \A q \in ps : q[1] # p[1]}, pairs, sources)

RECURSIVE Meaning(_, _)
Meaning(t, env) ==
    LET below == IF t.anchor = None THEN env ELSE [env EXCEPT ![t.anchor] = Open]
        item(r, u) == LET m == Meaning(u, r.env) IN Meant(Append(r.v, m.v), m.env, r.ok /\ m.ok)
        (* r.v: the pairs of the mapping itself and the sources of its merges *)
        pair(r, kv) ==
          LET k == Meaning(kv[1], r.env)
              v == Meaning(kv[2], k.env)
          IN  IF IsMerge(kv[1])
              THEN Meant([r.v EXCEPT !.sources = IF v.ok /\ NamesMappings(v.v, kv[2]) THEN @ \o Sources(v.v, kv[2]) ELSE @],
                         v.env, r.ok /\ v.ok /\ NamesMappings(v.v, kv[2]))
              ELSE Meant([r.v EXCEPT !.pairs = @ \cup {<<k.v, v.v>>}], v.env,
                         r.ok /\ k.ok /\ v.ok /\ \A q \in r.v.pairs : q[1] # k.v)
        m == FoldLeft(pair, Meant([pairs |-> {}, sources |-> <<>>], below, TRUE), t.kids)
    IN  CASE t.kind = "scalar" -> Anchored(t, <<"scalar", t.text>>, Meant(<<>>, env, TRUE))
          [] t.kind = "alias" -> Meant(env[t.text], env, env[t.text] \notin {Unknown, Open})
          [] t.kind = "sequence" -> LET r == FoldLeft(item, Meant(<<>>, below, TRUE), t.kids)
                                    IN  Anchored(t, <<"sequence", r.v>>, r)
          [] t.kind = "mapping" -> Anchored(t, <<"mapping", Merged(m.v.pairs, m.v.sources)>>, m)
MeaningOf(t) == Meaning(t, NoAnchors)
=============================================================================
