----------------------------- MODULE SchemaState -----------------------------
(***************************************************************************)
(* The state that leads an ASN.1 session through its schema                *)
(* (Sources/PotentASN1/SchemaState.swift).  The transform of the encoder   *)
(* and that of the decoder call it with the coding path of every value:    *)
(* the state drops the keys that are no longer on the path, steps into the *)
(* new ones, and the value is matched with the schemas possible there.     *)
(* The calls come in any order, since several containers may be in use.    *)
(***************************************************************************)
EXTENDS Integers, SequencesExt

CONSTANTS
  Schemas   \* the nodes of the schema; the first one is the schema itself

Root == 1
NoNode == 0

(***************************************************************************)
(* A node is [kind, fields, sub, range, cases, default]: the fields of a   *)
(* SEQUENCE, the schemas it is made of, the versions a field is present    *)
(* in, the mappings of a dynamic type (the first of sub, if any, is then   *)
(* the schema of unknown types) and the default, a set of at most one      *)
(* value.  A value is [tag, val, items]; the kind of a leaf is its tag.    *)
(***************************************************************************)
Node == DOMAIN Schemas

Null == [tag |-> "null", val |-> 0, items |-> <<>>]
Nil  == [tag |-> "nil", val |-> 0, items |-> <<>>]

VARIABLES
  keyStack,    \* SchemaState.keyStack
  stateStack,  \* SchemaState.stateStack
  scopes,      \* SchemaState.scopes, a function on coding paths
  containers,  \* the entries of the containers, a function on coding paths
  path,        \* the coding path of the call in progress
  todo,        \* the keys of it still to step into
  phase,       \* "idle", "stepping" or "matching"
  error,       \* what the last call threw, or "none"
  outcome      \* "running", "ended", or the trap that stopped the program

schemaVars ==
  <<keyStack, stateStack, scopes, containers, path, todo, phase, error, outcome>>

Field(name) == [name |-> name, index |-> -1]
Index(i)    == [name |-> "", index |-> i]

State(n)       == [is |-> "schema", node |-> n]
Disallowed(n)  == [is |-> "disallowed", node |-> n]
Nothing        == [is |-> "nothing", node |-> NoNode]

-----------------------------------------------------------------------------
(* Scopes: the values of the enclosing SEQUENCE, and which of its fields    *)
(* were seen to be its version and its type.                                *)

NoName == ""
NoScope == [there |-> FALSE, at |-> <<>>, version |-> NoName, type |-> NoName]
NewScope(at) == [there |-> TRUE, at |-> at, version |-> NoName, type |-> NoName]

Enclosing(scps, keys) == {p \in DOMAIN scps : IsStrictPrefix(p, keys)}

\* A mistake: the search starts at the root.
OutermostPath(scps, keys) ==
  CHOOSE p \in Enclosing(scps, keys) : \A q \in Enclosing(scps, keys) : Len(p) <= Len(q)
NearestPath(scps, keys) ==
  CHOOSE p \in Enclosing(scps, keys) : \A q \in Enclosing(scps, keys) : Len(p) >= Len(q)
NearestScope(scps, keys) ==
  IF Enclosing(scps, keys) = {} THEN NoScope ELSE scps[NearestPath(scps, keys)]

\* save(scope:forCodingPath:) keeps the scope that is there.
SaveScope(scps, at) ==
  IF at \in DOMAIN scps THEN scps
  ELSE [p \in DOMAIN scps \union {at} |-> IF p = at THEN NewScope(at) ELSE scps[p]]
RemoveScope(scps, at) == [p \in DOMAIN scps \ {at} |-> scps[p]]
UpdateScope(scps, keys, scope) ==
  IF Enclosing(scps, keys) = {} THEN scps
  ELSE [scps EXCEPT ![NearestPath(scps, keys)] = scope]

-----------------------------------------------------------------------------
(* expand(schema:) resolves choices, options, types and versions.  A result *)
(* is the states, the scope as expansion left it, and what was thrown.      *)

Result(states, scope) == [states |-> states, scope |-> scope, threw |-> "none"]
Threw(e, scope)       == [states |-> <<>>, scope |-> scope, threw |-> e]

\* Folds an operation over a sequence, threading the scope, up to a throw.
Collect(Op(_, _), s, scope) ==
  FoldLeft(LAMBDA r, x :
             IF r.threw # "none" THEN r
             ELSE LET next == Op(x, r.scope)
                  IN [next EXCEPT !.states = r.states \o @],
           Result(<<>>, scope), s)

CaseOf(n, v) ==
  LET found == {i \in DOMAIN Schemas[n].cases : Schemas[n].cases[i].val = v}
  IN IF found # {} THEN Schemas[n].cases[CHOOSE i \in found : TRUE].node
     ELSE IF Schemas[n].sub # <<>> THEN Schemas[n].sub[1] ELSE NoNode

\* A mistake: the version is not looked at.
InRangeAlways(n, v) == TRUE
InRange(n, v) == v \in Schemas[n].range

Expand(keys, start, scope0) ==
  LET key == Last(keys).name
      f[n \in Node, scope \in {scope0} \union
          {[scope0 EXCEPT !.type = t, !.version = v] : t, v \in {scope0.type, scope0.version, key}}] ==
        LET kind == Schemas[n].kind
            sub == Schemas[n].sub
        IN
        CASE kind = "nothing" -> Result(<<>>, scope)
          [] kind = "choiceOf" -> Collect(LAMBDA o, s : f[o, s], sub, scope)
          [] kind = "optional" ->
               LET r == f[sub[1], scope]
               IN IF r.threw # "none" THEN r ELSE [r EXCEPT !.states = Append(@, Nothing)]
          [] kind \in {"type", "version", "versioned", "dynamic"} /\ ~scope.there ->
               Threw("noScopeAvailable", scope)
          [] kind = "type" /\ scope.there -> f[sub[1], [scope EXCEPT !.type = key]]
          [] kind = "version" /\ scope.there -> f[sub[1], [scope EXCEPT !.version = key]]
          [] kind = "dynamic" /\ scope.there ->
               IF scope.type = NoName THEN Threw("noDynamicTypeDefined", scope)
               ELSE IF Field(scope.type) \notin DOMAIN containers[scope.at]
               THEN Threw("noDynamicType", scope)
               ELSE LET c == CaseOf(n, containers[scope.at][Field(scope.type)].val)
                    IN IF c = NoNode THEN Threw("unknownDynamicValue", scope)
                       ELSE f[c, scope]
          [] kind = "versioned" /\ scope.there ->
               IF scope.version = NoName THEN Threw("noVersionDefined", scope)
               ELSE IF Field(scope.version) \notin DOMAIN containers[scope.at]
               THEN Threw("noVersion", scope)
               ELSE IF InRange(n, containers[scope.at][Field(scope.version)].val)
               THEN f[sub[1], scope]
               ELSE Result(<<Disallowed(n), Nothing>>, scope)
          [] OTHER -> Result(<<State(n)>>, scope)
  IN f[start, scope0]

-----------------------------------------------------------------------------
(* What a schema says of values (Schema.swift), and how the decoder       *)
(* assigns the values of a SEQUENCE to its fields                          *)
(* (ASN1Decoder.swift:691-752)                                             *)

\* possibleTags, where AnyTag stands for nil
AnyTag == "any tag"
Tags(n) ==
  LET f[m \in Node] ==
        CASE Schemas[m].kind \in {"optional", "type", "version", "versioned"} -> f[Schemas[m].sub[1]]
          [] Schemas[m].kind = "choiceOf" ->
               UNION {f[Schemas[m].sub[i]] : i \in DOMAIN Schemas[m].sub} \ {AnyTag}
          [] Schemas[m].kind \in {"dynamic", "any", "nothing"} -> {AnyTag}
          [] Schemas[m].kind \in {"sequence", "sequenceOf"} -> {"sequence"}
          [] Schemas[m].kind = "setOf" -> {"set"}
          [] OTHER -> {Schemas[m].kind}
  IN f[n]
Fits(n, v) == Tags(n) \intersect {AnyTag, v.tag} # {}

\* defaultValue: at most one
Default(n) ==
  LET f[m \in Node] ==
        IF Schemas[m].kind \in {"optional", "type", "version", "versioned"}
        THEN f[Schemas[m].sub[1]] ELSE Schemas[m].default
  IN f[n]

\* The fields of a SEQUENCE take, in order, the values whose tag they may
\* have; the others take their default, if there is one.
Assigned(n, items) ==
  LET Assign(entries, name, vs) ==
        [k \in DOMAIN entries \union (IF vs = {} THEN {} ELSE {Field(name)}) |->
           IF k = Field(name) THEN CHOOSE v \in vs : TRUE ELSE entries[k]]
      last == FoldLeft(LAMBDA r, field :
                IF r.next <= Len(items) /\ Fits(field.node, items[r.next])
                THEN [next |-> r.next + 1,
                      entries |-> Assign(r.entries, field.name, {items[r.next]})]
                ELSE [r EXCEPT !.entries = Assign(@, field.name, Default(field.node))],
              [next |-> 1, entries |-> <<>>], Schemas[n].fields)
  IN last.entries
Elements(items) == [k \in {Index(i - 1) : i \in DOMAIN items} |-> items[k.index + 1]]

-----------------------------------------------------------------------------
(* step(into:key:) *)

FieldNode(n, name) ==
  LET found == {i \in DOMAIN Schemas[n].fields : Schemas[n].fields[i].name = name}
  IN IF found = {} THEN NoNode ELSE Schemas[n].fields[CHOOSE i \in found : TRUE].node

\* step(into schema:) for one possible schema
StepSchema(keys, n, scope) ==
  LET key == Last(keys)
      kind == Schemas[n].kind
  IN CASE kind = "sequence" ->
            IF key.index # -1 THEN Threw("notCollection", scope)
            ELSE IF FieldNode(n, key.name) = NoNode THEN Threw("undefinedField", scope)
            ELSE Expand(keys, FieldNode(n, key.name), scope)
       [] kind \in {"sequenceOf", "setOf"} ->
            IF key.index = -1 THEN Threw("structureMismatch", scope)
            ELSE Expand(keys, Schemas[n].sub[1], scope)
       [] OTHER -> Result(<<>>, scope)

\* A possibility that is no schema is handed on.
StepState(keys, s, scope) ==
  IF s.is = "schema" THEN StepSchema(keys, s.node, scope) ELSE Result(<<s>>, scope)

\* The key is pushed before the schemas, which may throw, are stepped into,
\* and the states after them.
\* A mistake: the states of an inner SEQUENCE overwrite those around it.
PushReplacing(stack, states) == <<states>>
Push(stack, states) == Append(stack, states)

StepInto(key, inKeyed) ==
  LET keys == Append(keyStack, key)
      saved == IF inKeyed THEN SaveScope(scopes, keyStack) ELSE scopes
      r == Collect(LAMBDA s, scope : StepState(keys, s, scope),
                   Last(stateStack), NearestScope(saved, keys))
  IN IF stateStack = <<>>
     THEN UNCHANGED <<keyStack, stateStack, scopes, phase, error>>
     ELSE /\ keyStack' = keys
          /\ scopes' = UpdateScope(saved, keys, r.scope)
          /\ IF r.threw = "none"
             THEN /\ stateStack' = Push(stateStack, r.states)
                  /\ UNCHANGED <<phase, error>>
             ELSE /\ error' = r.threw
                  /\ phase' = "idle"
                  /\ UNCHANGED stateStack

-----------------------------------------------------------------------------
(* The head of ASN1EncoderTransform.encode and ASN1DecoderTransform.decode: *)
(* what the state shares with the coding path is kept.                      *)

\* A mistake: any common length is kept.
KeepLength(a, b) == IF Len(a) < Len(b) THEN Len(a) ELSE Len(b)
Keep(a, b) == Len(LongestCommonPrefix({a, b}))

Resync(p) ==
  LET keep == Keep(keyStack, p)
      drop == Len(keyStack) - keep
  IN /\ phase = "idle" /\ outcome = "running"
     /\ path' = p
     /\ error' = "none"
     /\ IF drop > Len(stateStack)
        THEN outcome' = "stack underflow" /\ UNCHANGED <<keyStack, stateStack, todo, phase>>
        ELSE /\ stateStack' = SubSeq(stateStack, 1, Len(stateStack) - drop)
             /\ keyStack' = SubSeq(keyStack, 1, keep)
             /\ todo' = SubSeq(p, keep + 1, Len(p))
             /\ phase' = "stepping"
             /\ UNCHANGED outcome
     /\ UNCHANGED <<scopes, containers>>

\* The next key of the coding path.
Step ==
  /\ phase = "stepping" /\ todo # <<>> /\ outcome = "running"
  /\ IF keyStack \in DOMAIN containers
     THEN StepInto(Head(todo), Head(todo).index = -1) /\ UNCHANGED outcome
     ELSE outcome' = "uncached" /\ UNCHANGED <<keyStack, stateStack, scopes, phase, error>>
  /\ todo' = Tail(todo)
  /\ UNCHANGED <<path, containers>>

Stepped ==
  /\ phase = "stepping" /\ todo = <<>> /\ outcome = "running"
  /\ IF stateStack = <<>>
     THEN outcome' = "no states" /\ UNCHANGED phase
     ELSE phase' = "matching" /\ UNCHANGED outcome
  /\ UNCHANGED <<keyStack, stateStack, scopes, containers, path, todo, error>>

SchemaInit ==
  /\ keyStack = <<>>
  /\ LET r == Expand(<<Field(NoName)>>, Root, NoScope)
     IN r.threw = "none" /\ stateStack = <<r.states>>
  /\ scopes = <<>>
  /\ path = <<>>
  /\ todo = <<>>
  /\ phase = "idle"
  /\ error = "none"
  /\ outcome = "running"

-----------------------------------------------------------------------------
(* Properties of the state, for both sessions *)

Traps == {"stack underflow", "no states", "uncached", "no such container"}

\* The nodes the expansion of n may lead to, whatever the version or type.
Leads(n) ==
  LET f[m \in Node] ==
        CASE Schemas[m].kind \in {"choiceOf", "optional", "type", "version", "versioned"} ->
               UNION {f[Schemas[m].sub[i]] : i \in DOMAIN Schemas[m].sub}
          [] Schemas[m].kind = "dynamic" ->
               UNION ({f[Schemas[m].sub[i]] : i \in DOMAIN Schemas[m].sub} \union
                      {f[Schemas[m].cases[i].node] : i \in DOMAIN Schemas[m].cases})
          [] OTHER -> {m}
  IN f[n]

\* The nodes a coding path may lead to.
Below(n, key) ==
  IF Schemas[n].kind = "sequence"
  THEN IF FieldNode(n, key.name) = NoNode THEN {} ELSE Leads(FieldNode(n, key.name))
  ELSE IF Schemas[n].kind \in {"sequenceOf", "setOf"} THEN Leads(Schemas[n].sub[1])
  ELSE {}
Reach(p) ==
  FoldLeft(LAMBDA nodes, key : UNION {Below(n, key) : n \in nodes}, Leads(Root), p)

(***************************************************************************)
(* A value is matched with the schemas of its own coding path, whatever    *)
(* was encoded or decoded before (SchemaState.swift:80-83, 114-136): the   *)
(* two stacks, popped by count, have not drifted apart.                    *)
(***************************************************************************)
MatchesOwnSchema ==
  phase = "matching" =>
    \A i \in DOMAIN Last(stateStack) :
      Last(stateStack)[i].is = "schema" => Last(stateStack)[i].node \in Reach(path)

(***************************************************************************)
(* The program does not stop: `stateStack.last!' (SchemaState.swift:78)    *)
(* finds states, removeLast (80-83) enough of them, and a container is     *)
(* there for every key of the path.                                        *)
(***************************************************************************)
NoTrap == outcome \notin Traps

=============================================================================
