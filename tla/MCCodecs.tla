------------------------------- MODULE MCCodecs -------------------------------
(***************************************************************************)
(* What decodes, encodes and reads, one session at a time: a session of     *)
(* ValueDecoder on a document of up to seven nodes; one of ASN1Decoder on a *)
(* versioned SEQUENCE with a list of typed values; one of ASN1Encoder on a *)
(* versioned SEQUENCE with an optional list of choices and an inner         *)
(* SEQUENCE that has a version of its own; or one of CBORSerialization on a *)
(* stream of up to five symbols, Int of a sign and three bits.             *)
(***************************************************************************)
EXTENDS ValueDecoder, CBORGrammar

VARIABLES
  side,                                           \* which of the four this session is
  keyStack, stateStack, scopes, containers, path, \* those of SchemaState
  todo, phase, fault, end,
  value, bases, used, decoded,                    \* those of ASN1Decoder
  open, subject, field, made, result,             \* those of ASN1Encoder
  stream, offset, growing, frames,                \* those of CBORSerialization
  deterministic, item

Leaf     == [kind |-> "leaf", entries |-> <<>>]
Null     == [kind |-> "null", entries |-> <<>>]
Keyed(s) == [kind |-> "keyed", entries |-> s]
Array(s) ==
  [kind |-> "unkeyed", entries |-> [i \in DOMAIN s |-> [key |-> NoKey, node |-> s[i]]]]
E(k, n)  == [key |-> k, node |-> n]

\* {"x_a": [null, {"b": 1}], "b": {"x_a": 1}}
Mixed ==
  << Keyed(<<E("x_a", 2), E("b", 3)>>), Array(<<4, 5>>), Keyed(<<E("x_a", 6)>>),
     Null, Keyed(<<E("b", 7)>>), Leaf, Leaf >>

\* [1, {"xA": 1, "x_a": null}, [null]]
Clashing ==
  << Array(<<2, 3, 4>>), Leaf, Keyed(<<E("xA", 5), E("x_a", 6)>>), Array(<<7>>),
     Leaf, Null, Null >>

\* {"b": {"b": null}}
Deep == << Keyed(<<E("b", 2)>>), Keyed(<<E("b", 3)>>), Null >>

MCDocuments == {Mixed, Clashing, Deep}
MCKeys      == {"x_a", "xA", "b"}
MCConvert   == [k \in MCKeys |-> IF k = "x_a" THEN "xA" ELSE k]

N(kind, fields, sub) ==
  [kind |-> kind, fields |-> fields, sub |-> sub, range |-> {}, cases |-> <<>>, default |-> {}]
F(name, node) == [name |-> name, node |-> node]

Int0(v)  == [tag |-> "integer", val |-> v, items |-> <<>>]
Str(v)   == [tag |-> "string", val |-> v, items |-> <<>>]
List(vs) == [tag |-> "sequence", val |-> 0, items |-> vs]

(* Certificate ::= SEQUENCE { version INTEGER DEFAULT 0, ext STRING (v1) ,  *)
(*   list SEQUENCE OF SEQUENCE { type STRING, value ANY DEFINED BY type },  *)
(*   inner SEQUENCE { version INTEGER DEFAULT 0, ext STRING (v1) } }        *)
DecoderSchemas ==
  << N("sequence", <<F("version", 2), F("ext", 4), F("list", 6), F("inner", 12)>>, <<>>),
     N("version", <<>>, <<3>>),
     [N("integer", <<>>, <<>>) EXCEPT !.default = {Int0(0)}],
     [N("versioned", <<>>, <<5>>) EXCEPT !.range = {1}],
     N("string", <<>>, <<>>),
     N("sequenceOf", <<>>, <<7>>),
     N("sequence", <<F("type", 8), F("value", 10)>>, <<>>),
     N("type", <<>>, <<9>>),
     N("string", <<>>, <<>>),
     [N("dynamic", <<>>, <<>>) EXCEPT !.cases = <<[val |-> 0, node |-> 11], [val |-> 1, node |-> 12], [val |-> 3, node |-> 13]>>],
     N("optional", <<>>, <<3>>),
     N("sequence", <<F("version", 2), F("ext", 4)>>, <<>>),
     N("sequenceOf", <<>>, <<3>>) >>

Version0 == List(<<Int0(0), Str(7), List(<<List(<<Str(0), Int0(5)>>)>>)>>)
Nested   == List(<<Int0(1), Str(7), List(<<List(<<Str(1), List(<<Int0(0), Str(7)>>)>>)>>)>>)
Unknown  == List(<<Int0(1), Str(7), List(<<List(<<Str(2), Int0(5)>>), List(<<Str(0), Int0(5)>>)>>)>>)
Defaults == List(<<List(<<List(<<Str(1), List(<<Int0(1), Str(7)>>)>>)>>)>>)
AsSet    == List(<<List(<<List(<<Str(3), [List(<<Int0(5)>>) EXCEPT !.tag = "set"]>>)>>)>>)
Inner    == List(<<Int0(1), List(<<>>), List(<<Int0(0), Str(7)>>)>>)

DecoderValues == {Version0, Nested, Inner, Unknown, Defaults, AsSet}

(* Certificate ::= SEQUENCE { v INTEGER DEFAULT 0,                          *)
(*   list SET OF CHOICE { STRING, NULL } OPTIONAL,                          *)
(*   inner SEQUENCE { version INTEGER DEFAULT 0, ext STRING (v1) },         *)
(*   ext STRING (v1) }                                                      *)
EncoderSchemas ==
  << N("sequence", <<F("v", 2), F("list", 4), F("inner", 9), F("ext", 10)>>, <<>>),
     N("version", <<>>, <<3>>),
     [N("integer", <<>>, <<>>) EXCEPT !.default = {Int0(0)}],
     N("optional", <<>>, <<5>>),
     N("setOf", <<>>, <<6>>),
     N("choiceOf", <<>>, <<7, 8>>),
     N("string", <<>>, <<>>),
     N("null", <<>>, <<>>),
     N("sequence", <<F("version", 2), F("ext", 10)>>, <<>>),
     [N("versioned", <<>>, <<7>>) EXCEPT !.range = {1}] >>

EncoderKeys == {"v", "version", "list", "inner", "ext"}
EncoderPrimitives == {Int0(0), Int0(1), Str(7), [tag |-> "nil", val |-> 0, items |-> <<>>]}

Decoder == INSTANCE ASN1Decoder WITH
  Schemas <- DecoderSchemas, Values <- DecoderValues, Bases <- {<<>>}, Swallows <- FALSE, MaxCalls <- 8,
  base <- bases, calls <- used, error <- fault, outcome <- end
Encoder == INSTANCE ASN1Encoder WITH
  Schemas <- EncoderSchemas, Keys <- EncoderKeys, Primitives <- EncoderPrimitives, MaxEntries <- 5,
  items <- made, error <- fault, outcome <- end
(* A client of the decoder that swallows errors and goes on.                *)
Swallowing == INSTANCE ASN1Decoder WITH
  Schemas <- DecoderSchemas, Values <- DecoderValues, Bases <- {<<>>}, Swallows <- TRUE, MaxCalls <- 8,
  base <- bases, calls <- used, error <- fault, outcome <- end

MCHeads ==
  {Symbol("unsigned", 0), Symbol("negative", IntMax), Symbol("negative", UIntMax),
   Symbol("simple8", 20), Symbol("constant", 20), Symbol("half", 1), Symbol("double", 1),
   Symbol("bytes", 1), Symbol("bytes", IntMax), Symbol("bytes", Indefinite),
   Symbol("text", 1), Symbol("text", Indefinite),
   Symbol("array", 2), Symbol("array", UIntMax), Symbol("array", Indefinite),
   Symbol("map", 2), Symbol("map", Indefinite),
   Symbol("tag", UIntMax), Break, Reserved}
CBORStream == INSTANCE CBORSerialization WITH error <- fault
Documented == WellFormed
Streams    == {d.stream : d \in Documented}
CutStreams == Beginnings

schema  == <<keyStack, stateStack, scopes, containers, path, todo, phase, fault, end>>
decoder == <<value, bases, used, decoded>>
encoder == <<open, subject, field, made>>
cbor    == <<stream, offset, growing, frames, deterministic, item>>
all     == <<side, vars, schema, decoder, encoder, result, cbor>>

NoDecoder == value = "none" /\ bases = <<>> /\ used = 0 /\ decoded = "none"
NoEncoder == open = <<>> /\ subject = "none" /\ field = 1 /\ made = <<>>
NoSchema  == /\ keyStack = <<>> /\ stateStack = <<>> /\ scopes = <<>> /\ containers = <<>> /\ path = <<>>
             /\ todo = <<>> /\ phase = "none" /\ end = "none"
NoStream  == /\ stream = <<>> /\ offset = 0 /\ growing = FALSE /\ frames = <<>>
             /\ deterministic = FALSE /\ item = "none"
NoResult  == result = "none"
NoFault   == fault = "none"
NoValue   == /\ doc = <<>> /\ decoders = <<>> /\ handles = <<>> /\ calls = <<>>
             /\ error = "none" /\ outcome = "none"

ValueStep == side = "value" /\ Next /\ UNCHANGED <<side, schema, decoder, encoder, result, cbor>>
ReadStep  == side = "decoder" /\ Decoder!Next /\ UNCHANGED <<side, vars, encoder, result, cbor>>
WriteStep == side = "encoder" /\ Encoder!Next /\ UNCHANGED <<side, vars, decoder, cbor>>
ItemStep  == /\ side = "item" /\ CBORStream!Next
             /\ UNCHANGED <<side, vars, keyStack, stateStack, scopes, containers, path, todo, phase, end>>
             /\ UNCHANGED <<decoder, encoder>>

MCInit ==
  \/ side = "value" /\ Init /\ NoSchema /\ NoDecoder /\ NoEncoder /\ NoStream /\ NoResult /\ NoFault
  \/ side = "decoder" /\ Decoder!Init /\ NoValue /\ NoEncoder /\ NoStream /\ NoResult
  \/ side = "encoder" /\ Encoder!Init /\ NoValue /\ NoDecoder /\ NoStream
  \/ side = "item" /\ CBORStream!Init /\ NoValue /\ NoSchema /\ NoDecoder /\ NoEncoder
MCSpec == MCInit /\ [][ValueStep \/ ReadStep \/ WriteStep \/ ItemStep]_all

SwallowStep == Swallowing!Next /\ UNCHANGED <<side, vars, encoder, result, cbor>>
SwallowSpec == /\ side = "decoder" /\ Swallowing!Init /\ NoValue /\ NoEncoder /\ NoStream /\ NoResult
               /\ [][SwallowStep]_all

(***************************************************************************)
(* The properties of ValueDecoder, ASN1Decoder, ASN1Encoder and            *)
(* CBORSerialization, each in its own sessions.                            *)
(***************************************************************************)
(* In every session the variables are of their types.                       *)
SessionTypeOK ==
  /\ side = "value" => TypeOK
  /\ side = "decoder" => Decoder!TypeOK
  /\ side = "encoder" => Encoder!TypeOK
  /\ side = "item" => CBORStream!TypeOK
(* A value is decoded and encoded with a schema of its own path, the one its *)
(* version and its type field select, whatever was decoded before it.       *)
OwnSchemaMatched ==
  /\ side = "decoder" => Decoder!MatchesOwnSchema /\ Decoder!VersionRespected /\ Decoder!TypeRespected
  /\ side = "encoder" => Encoder!MatchesOwnSchema
(* Neither transform takes the last of an empty stack.                      *)
NoSchemaTrap ==
  /\ side = "decoder" => Decoder!NoTrap
  /\ side = "encoder" => Encoder!NoTrap
(* What the ASN.1 encoder makes holds the values it was given, in the fields *)
(* of the version they are for; a CBOR item that was read is read again from *)
(* what was written of it, with its keys in order where that was asked for.  *)
RoundTrips ==
  /\ side = "encoder" => Encoder!RoundTrip /\ Encoder!VersionEncoded
  /\ side = "item" => CBORStream!RoundTrip /\ CBORStream!OrderedKeys
(* A stream is read to an item when it holds one by the grammar of CBOR, and *)
(* refused when it does not begin one.                                      *)
GrammarFollowed == side = "item" => CBORStream!FollowsGrammar(Documented, Streams, CutStreams)
=============================================================================
