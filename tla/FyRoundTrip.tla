---------------------------- MODULE FyRoundTrip ----------------------------
(***************************************************************************)
(* What is written can be read: a writer gives the emitter (FyEmitter) the  *)
(* events of well-formed documents, and the parser (FyParser) reads the      *)
(* text the emitter has written of them.                                     *)
(*                                                                         *)
(* The writer is YAMLWriter of PotentYAML.  Its events are the tour of       *)
(* FyEvents, which is also what the parser promises.                        *)
(***************************************************************************)
EXTENDS FyParser

CONSTANTS Writers  \* what writers there are: the mode of the emitter, and the nodes they write

VARIABLES writer,  \* the one of this behaviour, or none: then the text is any text
          opened,  \* what it has open
          last,    \* the type of its last event
          given,   \* the events it gave the emitter
          read,    \* how many of them the parser has returned
          queued, emitter

writing == <<writer, opened, last, given, queued, emitter>>
all     == <<vars, writing, read>>

NoWriter == [mode |-> "none"]

Tour    == INSTANCE FyEvents WITH open <- opened, event <- last
Emitter == INSTANCE FyEmitter WITH mode <- writer.mode

RoundTripInit ==
  /\ Init /\ read = 0 /\ given = <<>>
  /\ writer \in Writers \union {NoWriter} /\ (writer # NoWriter => profile.length = 0)
  /\ Tour!Init /\ Emitter!Init

-----------------------------------------------------------------------------
(* The writer                                                               *)

Writes  == writer # NoWriter /\ profile.text = <<>>
Collections == {"SEQUENCE-START", "MAPPING-START"}
Nodes   == {"SCALAR", "ALIAS"} \union Collections
GivenOf(types) == Count([i \in DOMAIN given |-> given[i].type], types)

(* The nodes that are due leave room for the node that is begun.  Documents   *)
(* are explicit if there are several; JSON has scalars for keys.             *)
MayGive(type) ==
  /\ writer.nodes >= GivenOf(Nodes) + Count(<<type>>, Nodes) + Count(opened', {"value", "document"})
  /\ type = "DOCUMENT-START" => GivenOf({type}) < (IF writer.implicit THEN 1 ELSE writer.documents)
  /\ type = "STREAM-END" => GivenOf({"DOCUMENT-START"}) > 0
  /\ type \in Collections => GivenOf(Collections) < writer.collections
  /\ type = "ALIAS" => writer.aliases
  /\ writer.json /\ opened # <<>> /\ Last(opened) = "key" => type \in {"SCALAR", "MAPPING-END"}

EventsOf(type) ==
  LET bare == [Emitter!Event(type) EXCEPT !.implicit = writer.implicit]
      styles == IF type = "SCALAR" THEN writer.scalars ELSE {<<style, 1>> : style \in writer.styles}
  IN IF type \notin Nodes \ {"ALIAS"} THEN {bare}
     ELSE {[bare EXCEPT !.style = style[1], !.lines = style[2], !.anchor = has[1], !.tag = has[2]] :
             style \in styles, has \in writer.properties}

GiveEvent ==
  /\ Writes /\ emitter.state # "END" /\ Tour!Tour /\ MayGive(last')
  /\ \E e \in EventsOf(last') : given' = Append(given, e) /\ Emitter!Take(e)
  /\ UNCHANGED <<vars, writer, read>>

Emits == Writes /\ Emitter!Step /\ UNCHANGED <<vars, writer, opened, last, given, read>>

(* The text is written: the parser is created on it.                         *)
HandOver ==
  /\ Writes /\ emitter.state = "END"
  /\ profile' = [profile EXCEPT !.text = emitter.text] /\ left' = Len(emitter.text)
  /\ UNCHANGED <<ahead, scan, parser, event, writing, read>>

-----------------------------------------------------------------------------
(* The parser returns an event.                                             *)
Returns ==
  /\ <<state, stack, taken, node>>' # <<state, stack, taken, node>> /\ taken' = "none" /\ node' = NoNode
  /\ event' \notin {"error", "reset"}

Reads == /\ ~Writes /\ Step /\ UNCHANGED writing
         /\ read' = IF writer # NoWriter /\ Returns THEN read + 1 ELSE read

Again == /\ ~Writes /\ writer = NoWriter /\ Reset /\ UNCHANGED <<writing, read>>
Over  == /\ Failed \/ (writer # NoWriter /\ state = "END")
         /\ UNCHANGED all

RoundTripStep == GiveEvent \/ Emits \/ HandOver \/ Reads
RoundTripNext == RoundTripStep \/ Again \/ Over

(* The loop goes on while the parser is busy: weak fairness of its steps,   *)
(* written without ENABLED, and complete because no busy state is a deadlock.*)
RoundTripSpec ==
  /\ RoundTripInit /\ [][RoundTripNext]_all
  /\ []<>~Busy \/ []<><<RoundTripStep>>_all

-----------------------------------------------------------------------------
(* Properties                                                               *)

(* What the parser returns of a text that was written are the events it was  *)
(* written of, and all of them, with the properties of their nodes (that     *)
(* JSON does not have).  It refuses only the sequence that is a key of a      *)
(* block mapping, but not of its first pair: it is not indented below the    *)
(* '?', and the parser takes such a sequence for the first key alone.        *)
IsEvent(e) ==
  /\ event' = e.type
  /\ e.type \in Nodes => node.anchor = (e.anchor /\ ~writer.json) /\ (node.tag # "none") = (e.tag /\ ~writer.json)

ReadsBack ==
  [][writer # NoWriter /\ ~Writes =>
       /\ read' # read => read < Len(given) /\ IsEvent(given[read + 1])
       /\ event' = "STREAM-END" => read' = Len(given)
       /\ event' = "error" /\ event # "error" => state = "BLOCK_MAPPING_KEY" /\ Token = "BLOCK-ENTRY"]_all
===============================================================================
