----------------------------- MODULE ASN1Decoder -----------------------------
(***************************************************************************)
(* A session of the ASN.1 decoder (Sources/PotentASN1/ASN1Decoder.swift)   *)
(* over one value and one schema.  The type being decoded has containers   *)
(* open and decodes the entries of any of them, in any order, as a value   *)
(* or as a container; when a call throws it gives up or, with try?, goes   *)
(* on.  SchemaState leads the session through the schema.                  *)
(***************************************************************************)
EXTENDS SchemaState

CONSTANTS
  Values,      \* the ASN.1 values to decode: [tag, val, items]
  Bases,       \* coding paths the session starts at: <<>>, or that of a super decoder
  Swallows,    \* errors may be swallowed
  MaxCalls     \* bound: calls of the transform

VARIABLES
  value,       \* the value decoded
  base,        \* the coding path the decoder was created with
  calls,       \* number of calls so far
  decoded      \* history: the last value decoded, and at which path

sessionVars == <<value, base, calls, decoded>>
vars == <<schemaVars, sessionVars>>

NothingDecoded == [path |-> <<>>, value |-> Nil]

-----------------------------------------------------------------------------
(* SchemaState.decode *)

\* Whether a possible state accepts the value; SEQUENCE OF asks for any
\* collection.
Accepts(s, v) ==
  IF s.is # "schema" THEN s.is = "nothing" /\ v = Null
  ELSE LET kind == Schemas[s.node].kind
       IN CASE kind = "sequence" -> v.tag = "sequence"
            [] kind = "sequenceOf" -> v.tag \in {"sequence", "set"}
            [] kind = "setOf" -> v.tag = "set"
            [] kind = "any" -> TRUE
            [] OTHER -> v.tag = kind

\* The first of the possible states that does; 0 stands for none.
First(v)     == SelectInSeq(Last(stateStack), LAMBDA s : Accepts(s, v))
Chosen(v)    == Last(stateStack)[First(v)]
Structure(s) == IF s.is = "schema" THEN Schemas[s.node].kind ELSE "nothing"
IsContainer(s, v) ==
  Structure(s) # "nothing" /\ v.tag \in {"sequence", "set"}

-----------------------------------------------------------------------------
(* The calls of the transform *)

ValueAt(p) == IF p = base THEN value ELSE containers[Front(p)][Last(p)]

\* The paths whose values the client can get at.
Reachable ==
  {base} \union
  UNION {{Append(p, k) : k \in DOMAIN containers[p]} : p \in DOMAIN containers}

\* unbox, valueToKeyedValues or valueToUnkeyedValues of a value
Call(p) ==
  /\ calls < MaxCalls /\ p \in Reachable
  /\ Resync(p)
  /\ calls' = calls + 1
  /\ UNCHANGED <<value, base, decoded>>

NoMatch ==
  /\ phase = "matching" /\ First(ValueAt(path)) = 0
  /\ error' = "badValue" /\ phase' = "idle"
  /\ UNCHANGED <<keyStack, stateStack, scopes, containers, path, todo, outcome, sessionVars>>

\* A value of its own: the caller unboxes it.
DecodeValue ==
  LET v == ValueAt(path)
  IN /\ phase = "matching" /\ First(v) # 0
     /\ Structure(Chosen(v)) \notin {"sequence", "sequenceOf", "setOf"}
     /\ decoded' = [path |-> path, value |-> IF Structure(Chosen(v)) \in {"nothing", "null"} THEN Nil ELSE v]
     /\ phase' = "idle"
     /\ UNCHANGED <<keyStack, stateStack, scopes, containers, path, todo, error, outcome,
                    value, base, calls>>

\* A SEQUENCE resets its scope; a container is kept at the coding path when
\* the caller asked for one, not when it takes the whole value (AnyValue).
DecodeContainer ==
  LET v == ValueAt(path)
      entries == IF Structure(Chosen(v)) = "sequence"
                 THEN Assigned(Chosen(v).node, v.items) ELSE Elements(v.items)
  IN /\ phase = "matching" /\ First(v) # 0
     /\ IsContainer(Chosen(v), v)
     /\ scopes' = IF Structure(Chosen(v)) = "sequence" THEN RemoveScope(scopes, keyStack) ELSE scopes
     /\ \/ containers' = [p \in DOMAIN containers \union {path} |->
                            IF p = path THEN entries ELSE containers[p]]
        \/ UNCHANGED containers
     /\ phase' = "idle"
     /\ UNCHANGED <<keyStack, stateStack, path, todo, error, outcome, value, base, calls, decoded>>

\* The error leaves the session, unless it is swallowed.
GiveUp ==
  /\ phase = "idle" /\ outcome = "running" /\ error # "none"
  /\ outcome' = "ended"
  /\ UNCHANGED <<keyStack, stateStack, scopes, containers, path, todo, phase, error, sessionVars>>

Finish ==
  /\ phase = "idle" /\ outcome = "running" /\ error = "none"
  /\ outcome' = "ended"
  /\ UNCHANGED <<keyStack, stateStack, scopes, containers, path, todo, phase, error, sessionVars>>

Init ==
  /\ SchemaInit
  /\ value \in Values
  /\ base \in Bases
  /\ containers = <<>>
  /\ calls = 0
  /\ decoded = NothingDecoded

Next ==
  \/ (error = "none" \/ Swallows) /\ \E p \in Reachable : Call(p)
  \/ (Step \/ Stepped) /\ UNCHANGED sessionVars
  \/ NoMatch \/ DecodeValue \/ DecodeContainer
  \/ GiveUp \/ Finish

Spec == Init /\ [][Next]_vars

-----------------------------------------------------------------------------
(* Properties *)

\* The fields a coding path may stand for.
FieldNodes(p) ==
  IF p = <<>> THEN {}
  ELSE {FieldNode(n, Last(p).name) : n \in {m \in Reach(Front(p)) : Schemas[m].kind = "sequence"}} \ {NoNode}
VersionFields(p) ==
  {f.name : f \in UNION {ToSet(Schemas[n].fields) : n \in {m \in Reach(p) : Schemas[m].kind = "sequence"}}}
Marked(p, kind) ==
  {name \in VersionFields(p) : \E n \in Reach(p) :
     FieldNode(n, name) # NoNode /\ Schemas[FieldNode(n, name)].kind = kind}

TypeOK ==
  /\ keyStack \in Seq([name : STRING, index : Int])
  /\ stateStack \in Seq(Seq([is : {"schema", "disallowed", "nothing"}, node : Node \union {NoNode}]))
  /\ \A p \in DOMAIN scopes : scopes[p].there
  /\ path \in Seq([name : STRING, index : Int])
  /\ IsPrefix(keyStack, path) \/ phase = "idle"
  /\ phase \in {"idle", "stepping", "matching"}
  /\ outcome \in {"running", "ended"} \union Traps
  /\ calls \in 0..MaxCalls

(***************************************************************************)
(* A field that is present in some versions only is decoded only from a    *)
(* SEQUENCE whose own version field is one of them                         *)
(* (SchemaState.swift:230-262), however SEQUENCEs are nested and in        *)
(* whatever order their fields are decoded.                                *)
(***************************************************************************)
VersionRespected ==
  decoded.value # Nil =>
    \A n \in FieldNodes(decoded.path) :
      Schemas[n].kind = "versioned" =>
        \E name \in Marked(Front(decoded.path), "version") :
          /\ Field(name) \in DOMAIN containers[Front(decoded.path)]
          /\ containers[Front(decoded.path)][Field(name)].val \in Schemas[n].range

(***************************************************************************)
(* A field of a dynamic type is decoded as the schema that the type field  *)
(* of its own SEQUENCE selects (SchemaState.swift:204-219).                *)
(***************************************************************************)
TypeRespected ==
  phase = "matching" =>
    \A n \in FieldNodes(path) :
      Schemas[n].kind = "dynamic" =>
        \A i \in DOMAIN Last(stateStack) :
          Last(stateStack)[i].is = "schema" =>
            \E name \in Marked(Front(path), "type") :
              \E c \in ToSet(Schemas[n].cases) :
                /\ c.val = containers[Front(path)][Field(name)].val
                /\ Last(stateStack)[i].node \in Leads(c.node)

=============================================================================
