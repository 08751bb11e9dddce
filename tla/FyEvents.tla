------------------------------ MODULE FyEvents ------------------------------
(***************************************************************************)
(* What a parser promises to who reads its events: they are the tour of a  *)
(* stream of documents, each one node, that is a scalar, an alias, a        *)
(* sequence of nodes or a mapping of pairs of nodes.  YAMLReader of         *)
(* PotentYAML and fy_composer of libfyaml are written on that promise.      *)
(*                                                                         *)
(* open is what is open, innermost last: the stream, a document before      *)
(* ("document") and after ("root") its node, a sequence, a mapping that     *)
(* expects a key ("key") or the value of one ("value").  A mapping of one   *)
(* pair may stand in a sequence as it is, [a: b]: until it ends it holds the *)
(* place of the sequence too ("pair key", "pair value", "pair end").        *)
(***************************************************************************)
EXTENDS Sequences, SequencesExt

VARIABLES open, event

evars == <<open, event>>

Pairs    == {"pair key", "pair value", "pair end"}
Contexts == {"stream", "document", "root", "sequence", "key", "value"} \union Pairs
Events   == {"STREAM-START", "STREAM-END", "DOCUMENT-START", "DOCUMENT-END", "SCALAR", "ALIAS",
             "SEQUENCE-START", "SEQUENCE-END", "MAPPING-START", "MAPPING-END"}

(* A node may come where a document, a sequence or a mapping is open, and    *)
(* is the next thing in it.                                                  *)
TakesNode == open # <<>> /\ Last(open) \in {"document", "sequence", "key", "value", "pair key", "pair value"}
Next(context) ==
  CASE context = "document"   -> "root"
    [] context = "key"        -> "value"
    [] context = "value"      -> "key"
    [] context = "pair key"   -> "pair value"
    [] context = "pair value" -> "pair end"
    [] OTHER                  -> context
Filled == Front(open) \o <<Next(Last(open))>>

Emit(e, o)   == event' = e /\ open' = o
Close(e, in) == open # <<>> /\ Last(open) = in /\ Emit(e, Front(open))

Init == open = <<>> /\ event = "none"

StreamStart   == open = <<>> /\ Emit("STREAM-START", <<"stream">>)
StreamEnd     == Close("STREAM-END", "stream")
DocumentStart == open = <<"stream">> /\ Emit("DOCUMENT-START", Append(open, "document"))
DocumentEnd   == Close("DOCUMENT-END", "root")
Leaf          == TakesNode /\ \E e \in {"SCALAR", "ALIAS"} : Emit(e, Filled)
SequenceStart == TakesNode /\ Emit("SEQUENCE-START", Append(Filled, "sequence"))
SequenceEnd   == Close("SEQUENCE-END", "sequence")
MappingStart  == TakesNode /\ Emit("MAPPING-START", Append(Filled, "key"))
MappingEnd    == Close("MAPPING-END", "key")

PairStart == /\ open # <<>> /\ Last(open) = "sequence"
             /\ Emit("MAPPING-START", Front(open) \o <<"pair key">>)
PairEnd   == /\ open # <<>> /\ Last(open) = "pair end"
             /\ Emit("MAPPING-END", Front(open) \o <<"sequence">>)

(* The parser may give up at any point, and be used again for another text.  *)
Fail  == event' = "error" /\ UNCHANGED open
Reset == Emit("reset", <<>>)

Tour == \/ StreamStart \/ StreamEnd \/ DocumentStart \/ DocumentEnd \/ Leaf
        \/ SequenceStart \/ SequenceEnd \/ MappingStart \/ MappingEnd

Step == Tour \/ PairStart \/ PairEnd \/ Fail \/ Reset

Spec == Init /\ [][Step]_evars

(* What is open nests: the stream holds a document, and that holds its node.  *)
Nested == /\ open \in Seq(Contexts)
          /\ \A i \in DOMAIN open : (open[i] = "stream" <=> i = 1) /\ (open[i] \in {"document", "root"} <=> i = 2)
===============================================================================
