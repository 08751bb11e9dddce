----------------------------- MODULE ASN1Encoder -----------------------------
(***************************************************************************)
(* A session of the ASN.1 encoder (Sources/PotentASN1/ASN1Encoder.swift):  *)
(* the value encodes primitives into the innermost container, opens        *)
(* containers under its keys, and leaves them; a container that is left is *)
(* rolled up, which means matched with the schema itself, and put into the *)
(* one around it.  SchemaState leads the session through the schema.  The  *)
(* session ends with its first error.  (What the storage of the encoder    *)
(* does when containers are nested or errors swallowed is in ValueEncoder.)*)
(***************************************************************************)
EXTENDS SchemaState

CONSTANTS
  Keys,        \* keys of keyed containers
  Primitives,  \* the primitive values encoded, Nil among them
  MaxEntries   \* bound: containers open at one time, and their entries

VARIABLES
  open,        \* the containers open, outermost first: coding path and kind
  subject,     \* what the call in progress encodes
  field,       \* SEQUENCE being rolled up: the number of its next field
  items,       \* and the values of the fields before it
  result       \* the value of the session, once it has ended

sessionVars == <<open, subject, field, items, result>>
vars == <<schemaVars, sessionVars>>

\* The containers of a session, as the transform tells them apart.
KeyedValues   == [tag |-> "keyed", val |-> 0, items |-> <<>>]
UnkeyedValues == [tag |-> "unkeyed", val |-> 0, items |-> <<>>]

Collection(tag, s) == [tag |-> tag, val |-> 0, items |-> s]

\* ASN1.default, which DER leaves out
Defaulted(v) == [tag |-> "default", val |-> v.val, items |-> <<v>>]
Unwrapped(v) == IF v.tag = "default" THEN v.items[1] ELSE v
Written(s)   == SelectSeq(s, LAMBDA v : v.tag # "default")

Current == Last(open)
Entries == containers[Current.path]
Count   == Len(open) + MapThenSumSet(LAMBDA i : Cardinality(DOMAIN containers[open[i].path]), DOMAIN open)

-----------------------------------------------------------------------------
(* SchemaState.tryEncode *)

\* Whether a possible state answers, or the next one is tried.
Answers(s, v) ==
  IF s.is # "schema" THEN s.is = "nothing" /\ v = Nil
  ELSE LET kind == Schemas[s.node].kind
           fallback == Schemas[s.node].default # {}
       IN CASE kind = "sequence" -> v = KeyedValues
            [] kind \in {"sequenceOf", "setOf"} -> v = UnkeyedValues
            [] kind = "null" -> v = Nil
            [] kind = "any" -> TRUE
            [] kind = "integer" -> v.tag = kind \/ fallback
            [] OTHER -> v.tag = kind \/ (v = Nil /\ fallback)

\* A mistake: every value is taken for the default.
MarkAlways(n, v) == IF Schemas[n].default # {} THEN Defaulted(v) ELSE v
Mark(n, v) == IF v \in Schemas[n].default THEN Defaulted(v) ELSE v

\* What it answers, but for containers: at most one value.
Answer(s, v) ==
  IF s.is # "schema" THEN {}
  ELSE LET n == s.node
       IN CASE v.tag = Schemas[n].kind -> {Mark(n, v)}
            [] Schemas[n].kind \in {"null", "any"} -> IF v = Nil THEN {Null} ELSE {}
            [] OTHER -> {Defaulted(d) : d \in Schemas[n].default}

First(states, v) == SelectInSeq(states, LAMBDA s : Answers(s, v))
\* The state that answers; that of nothing has no value for it.
Possible == Last(stateStack)
Chosen == IF First(Possible, subject) = 0 THEN Nothing ELSE Possible[First(Possible, subject)]
Kind   == IF Chosen.is = "schema" THEN Schemas[Chosen.node].kind ELSE "nothing"

\* What becomes of nil, for a field that is absent.
Absent(states) ==
  IF First(states, Nil) = 0 THEN {} ELSE Answer(states[First(states, Nil)], Nil)

-----------------------------------------------------------------------------
(* The encode functions of containers *)

With(entries, k, v) == [j \in DOMAIN entries \union {k} |-> IF j = k THEN v ELSE entries[j]]

MayCall == phase = "idle" /\ outcome = "running" /\ error = "none" /\ result = Nil

\* The keys the innermost container takes: any not yet used, or the next index.
FreeKeys ==
  IF Count = MaxEntries THEN {}
  ELSE IF Current.keyed THEN {Field(name) : name \in Keys} \ DOMAIN Entries
  ELSE {Index(Cardinality(DOMAIN Entries))}

\* encode(_:forKey:) and encode(_:) of primitives, encodeNil
Encode(k, v) ==
  /\ MayCall
  /\ Resync(Append(Current.path, k))
  /\ subject' = v
  /\ UNCHANGED <<open, field, items, result>>

\* encode(_:forKey:) of a value that asks for a container
OpenContainer(k, keyed) ==
  LET at == Append(Current.path, k)
  IN /\ MayCall
     /\ open' = Append(open, [path |-> at, keyed |-> keyed])
     /\ containers' = With(containers, at, <<>>)
     /\ UNCHANGED <<keyStack, stateStack, scopes, path, todo, phase, error, outcome,
                    subject, field, items, result>>

\* popRolledUpContainer, which calls keyedValuesToValue or unkeyedValuesToValue
RollUp ==
  /\ MayCall
  /\ Resync(Current.path)
  /\ subject' = IF Current.keyed THEN KeyedValues ELSE UnkeyedValues
  /\ UNCHANGED <<open, field, items, result>>

-----------------------------------------------------------------------------
(* encode(_:), once the state is at the coding path *)

\* encode(_:) throws when there is no value, tryEncode for values of ANY.
BadValue ==
  /\ phase = "matching"
  /\ Kind \notin {"sequence", "sequenceOf", "setOf"}
  /\ Answer(Chosen, subject) = {}
  /\ error' = "badValue" /\ phase' = "idle"
  /\ UNCHANGED <<keyStack, stateStack, scopes, containers, path, todo, outcome, sessionVars>>

\* The value goes into the container around it, or is the result.
Deliver(v) ==
  LET rolledUp == subject \in {KeyedValues, UnkeyedValues}
      kept == [p \in DOMAIN containers \ (IF rolledUp THEN {path} ELSE {}) |-> containers[p]]
  IN /\ phase' = "idle"
     /\ open' = IF rolledUp THEN Front(open) ELSE open
     /\ IF path = <<>>
        THEN result' = v /\ containers' = kept
        ELSE /\ containers' = [kept EXCEPT ![Front(path)] = With(@, Last(path), v)]
             /\ UNCHANGED result

EncodeLeaf ==
  /\ phase = "matching"
  /\ Kind \notin {"nothing", "sequence", "sequenceOf", "setOf"}
  /\ \E v \in Answer(Chosen, subject) : Deliver(v)
  /\ UNCHANGED <<keyStack, stateStack, scopes, path, todo, error, outcome, subject, field, items>>

EncodeCollection ==
  /\ phase = "matching" /\ Kind \in {"sequenceOf", "setOf"}
  /\ Deliver(Collection(IF Kind = "setOf" THEN "set" ELSE "sequence",
               [i \in 1..Cardinality(DOMAIN Entries) |-> Entries[Index(i - 1)]]))
  /\ UNCHANGED <<keyStack, stateStack, scopes, path, todo, error, outcome, subject, field, items>>

EncodeSequence ==
  /\ phase = "matching" /\ Kind = "sequence"
  /\ phase' = "fields"
  /\ field' = 1 /\ items' = <<>>
  /\ UNCHANGED <<keyStack, stateStack, scopes, containers, path, todo, error, outcome,
                 open, subject, result>>

\* The fields, in the order of the schema
Fields == Schemas[Chosen.node].fields
Key    == Field(Fields[field].name)

FieldPresent ==
  /\ phase = "fields" /\ field <= Len(Fields) /\ Key \in DOMAIN Entries
  /\ items' = Append(items, Entries[Key])
  /\ field' = field + 1
  /\ UNCHANGED <<schemaVars, open, subject, result>>

\* step(into: nil), which saves no scope, tryEncode(nil) and removeLast; when
\* the step throws, the key it has pushed stays.
FieldAbsent ==
  LET keys == Append(keyStack, Key)
      r == Collect(LAMBDA s, scope : StepState(keys, s, scope),
                   Last(stateStack), NearestScope(scopes, keys))
  IN /\ phase = "fields" /\ field <= Len(Fields) /\ Key \notin DOMAIN Entries
     /\ scopes' = UpdateScope(scopes, keys, r.scope)
     /\ IF r.threw = "none"
        THEN /\ field' = field + 1
             /\ items' = items \o SetToSeq(Absent(r.states))
             /\ UNCHANGED <<keyStack, error, phase>>
        ELSE /\ error' = r.threw /\ phase' = "idle"
             /\ keyStack' = keys
             /\ UNCHANGED <<field, items>>
     /\ UNCHANGED <<stateStack, containers, path, todo, outcome, open, subject, result>>

FieldsDone ==
  /\ phase = "fields" /\ field > Len(Fields)
  /\ scopes' = RemoveScope(scopes, keyStack)
  /\ Deliver(Collection("sequence", items))
  /\ UNCHANGED <<keyStack, stateStack, path, todo, error, outcome, subject, field, items>>

\* The session returns its value or throws.
Finish ==
  /\ phase = "idle" /\ outcome = "running"
  /\ result # Nil \/ error # "none"
  /\ outcome' = "ended"
  /\ UNCHANGED <<keyStack, stateStack, scopes, containers, path, todo, phase, error, sessionVars>>

-----------------------------------------------------------------------------

Init ==
  /\ SchemaInit
  /\ containers = [p \in {<<>>} |-> <<>>]
  /\ open \in {<<[path |-> <<>>, keyed |-> keyed]>> : keyed \in BOOLEAN}
  /\ subject = Nil
  /\ field = 1
  /\ items = <<>>
  /\ result = Nil

Next ==
  \/ \E k \in IF open = <<>> THEN {} ELSE FreeKeys :
       \/ \E v \in Primitives : Encode(k, v)
       \/ \E keyed \in BOOLEAN : OpenContainer(k, keyed)
  \/ RollUp
  \/ (Step \/ Stepped) /\ UNCHANGED sessionVars
  \/ BadValue \/ EncodeLeaf \/ EncodeCollection
  \/ EncodeSequence \/ FieldPresent \/ FieldAbsent \/ FieldsDone
  \/ Finish

Spec == Init /\ [][Next]_vars

-----------------------------------------------------------------------------
(* Properties *)

TypeOK ==
  /\ keyStack \in Seq([name : STRING, index : Int])
  /\ stateStack \in Seq(Seq([is : {"schema", "disallowed", "nothing"}, node : Node \union {NoNode}]))
  /\ error = "none" => Len(stateStack) = Len(keyStack) + 1 \/ phase = "stepping"
  /\ \A i \in DOMAIN open : Len(open[i].path) = i - 1 /\ open[i].path \in DOMAIN containers
  /\ phase \in {"idle", "stepping", "matching", "fields"}
  /\ field \in Nat \ {0}
  /\ outcome \in {"running", "ended"} \union Traps

\* A field that must be there in every version.
Required(n) == Schemas[n].kind \notin {"optional", "versioned", "dynamic"} /\ Default(n) = {}
RequiredIn(n) == {f \in ToSet(Schemas[n].fields) : Required(f.node)}

RolledUp == phase = "fields" /\ field > Len(Fields)
Given(f) == Field(f.name) \in DOMAIN Entries

(***************************************************************************)
(* A SEQUENCE all of whose required fields were encoded is read back       *)
(* field by field (ASN1Encoder.swift:264-298 against                       *)
(* ASN1Decoder.swift:691-724): the values that DER leaves out and the      *)
(* fields that are absent do not shift the others.                         *)
(***************************************************************************)
RoundTrip ==
  RolledUp /\ (\A f \in RequiredIn(Chosen.node) : Given(f)) =>
    LET read == Assigned(Chosen.node, Written(items))
    IN \A f \in ToSet(Fields) :
         /\ Given(f) => Field(f.name) \in DOMAIN read /\ read[Field(f.name)] = Unwrapped(Entries[Field(f.name)])
         /\ ~Given(f) => Field(f.name) \notin DOMAIN read \/ read[Field(f.name)] \in Default(f.node)

(***************************************************************************)
(* A field that is present in some versions only is in a SEQUENCE only if  *)
(* the version beside it is one of them (SchemaState.swift:230-262),       *)
(* however SEQUENCEs are nested.                                           *)
(***************************************************************************)
VersionEncoded ==
  RolledUp =>
    \A f \in ToSet(Fields) :
      Given(f) /\ Schemas[f.node].kind = "versioned" =>
        \E g \in ToSet(Fields) :
          /\ Schemas[g.node].kind = "version" /\ Given(g)
          /\ Entries[Field(g.name)].val \in Schemas[f.node].range

=============================================================================
