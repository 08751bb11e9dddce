------------------------------ MODULE FyEmitter ------------------------------
(***************************************************************************)
(* The emitter of libfyaml (Cfyaml/src/lib/fy-emit.c) as YAMLWriter of     *)
(* PotentYAML drives it: it is given one event after the other, and writes  *)
(* text.  An event waits in a queue while the one after it has to be known  *)
(* (whether a collection is empty); a state machine with a stack of states, *)
(* and a stack of what was saved of the collections around, handles it.     *)
(*                                                                         *)
(* What is written are lexemes (FyScanner) at the line and the column the   *)
(* emitter has reached.  The names, tags and texts are all of one length.   *)
(***************************************************************************)
EXTENDS FyScanner

VARIABLES mode,     \* FYECF_MODE_*: how YAMLWriter creates the emitter
          queued,   \* queued_events
          emitter   \* struct fy_emitter

Json    == mode \in {"JSON", "JSON_ONELINE"}
Oneline == mode = "JSON_ONELINE"
Pretty  == mode = "PRETTY"

(* An event: its type, the style of a scalar or a collection, the lines a    *)
(* scalar has, the properties of a node, and whether the start or the end of *)
(* a document is implicit.                                                   *)
Event(type) == [type |-> type, style |-> "any", lines |-> 1, anchor |-> FALSE, tag |-> FALSE, implicit |-> TRUE]
Starts == {"SEQUENCE-START", "MAPPING-START"}

(* struct fy_emit_save_ctx: what is kept of the collection that is written.  *)
NoContext == [flags |-> {}, indent |-> 0, old |-> 0, empty |-> FALSE, flow |-> FALSE, key |-> "none",
              outerFlags |-> {}, outerIndent |-> 0]

(* fy_emit_reset, and what it keeps: the text.                               *)
Fresh(text) ==
  [text |-> text, line |-> 0, column |-> 0, level |-> 0, whitespace |-> TRUE, indentation |-> TRUE,
   had |-> {"document end"}, state |-> "NONE", states |-> <<>>, context |-> NoContext, contexts |-> <<>>,
   indent |-> -1, flags |-> {"root"}, explicit |-> FALSE]

Init == queued = <<>> /\ emitter = Fresh(<<>>)

-----------------------------------------------------------------------------
(* What is written: fy_emit_write counts lines and columns.                 *)

NewLine(e) == [e EXCEPT !.line = @ + 1, !.column = 0]
(* Where a new line is started outside of everything.                        *)
LeaveLine(e) == IF e.column = 0 THEN e
                ELSE [NewLine(e) EXCEPT !.whitespace = TRUE, !.indentation = TRUE, !.had = {}]
Space(e)  == [e EXCEPT !.column = @ + 1, !.whitespace = TRUE]
Spaced(e) == IF e.whitespace THEN e ELSE Space(e)

(* A ':' right behind the name of an alias is a part of the name.            *)
InName(e, is) ==
  is = ":" /\ e.text # <<>> /\ Last(e.text).is = "*" /\ e.column = Last(e.text).col + 2

Write(e, is, rows, width) ==
  [e EXCEPT !.text = IF InName(e, is) THEN @ ELSE Append(@, Lexeme(is, e.line, e.column, rows, FALSE)),
            !.column = @ + width, !.whitespace = FALSE]
Inside(e) == [e EXCEPT !.indentation = FALSE]

(* Mutant: the line is used up to the column, white space or not.            *)
IndentedAnywhere(e, indent) ==
  LET at == Max({indent, 0})
      line == IF e.indentation /\ e.column <= at + 2 THEN e ELSE NewLine(e)
  IN [line EXCEPT !.column = Max({@, at}), !.whitespace = TRUE, !.indentation = TRUE]

(* fy_emit_write_indent: the line that is indented already is used.          *)
Indented(e, indent) ==
  LET at == Max({indent, 0})
      used == e.indentation /\ (e.column < at \/ (e.column = at /\ e.whitespace))
      line == IF used THEN e ELSE NewLine(e)
  IN [line EXCEPT !.column = Max({@, at}), !.whitespace = TRUE, !.indentation = TRUE]

(* fy_emit_increase_indent                                                   *)
Deeper(flags, indent) == IF indent >= 0 THEN indent + 2 ELSE IF "flow" \in flags THEN 2 ELSE 0

(* fy_emit_write_indicator                                                   *)
Mark(e, is)  == Write(Spaced(e), is, 0, 1)
Open(e, is)  == [Inside(Mark(e, is)) EXCEPT !.level = @ + 1, !.whitespace = TRUE]
Shut(e, is)  == [Inside(Write(e, is, 0, 1)) EXCEPT !.level = @ - 1]
Comma(e)     == Inside(Write(e, ",", 0, 1))
Colon(e, flags, indent) ==
  LET placed == IF e.level = 0 /\ ~Oneline THEN Indented(e, indent) ELSE e
  IN Write(IF "simple" \in flags THEN e ELSE Spaced(placed), ":", 0, 1)

-----------------------------------------------------------------------------
(* Nodes                                                                    *)

(* fy_emit_common_node_preamble                                              *)
Preamble(e, event, flags) ==
  LET anchored == IF event.anchor /\ ~Json THEN Inside(Write(Spaced(e), "&", 0, 2)) ELSE e
      tagged   == IF event.tag /\ ~Json THEN Inside(Write(Spaced(anchored), "!", 0, 5)) ELSE anchored
  IN IF "root" \in flags THEN LeaveLine(tagged) ELSE tagged

(* fy_emit_token_scalar_style: in a flow collection there are no block       *)
(* scalars, and JSON has only its own literals and double quotes.            *)
ScalarStyle(event, flags) ==
  LET flow == "flow" \in flags
      free == event.style \in {"any", "literal"}
  IN CASE Json -> IF event.style = "plain" THEN "plain" ELSE "double"
       [] ~Json /\ flow /\ free -> IF event.lines > 1 THEN "double" ELSE "single"
       [] ~Json /\ ~flow /\ Pretty /\ event.style # "plain" /\ event.lines > 1 -> "literal"
       [] ~Json /\ ~flow /\ event.style = "any" -> "plain"
       [] OTHER -> event.style

(* The further lines of a scalar, each on a line of its own: of a single     *)
(* quoted scalar they are a part of it, after an empty line; a block scalar   *)
(* is not left again.                                                        *)
Quote(e, rows, indent) ==
  LET quoted == Inside(Write(e, "quoted", rows, 3))
  IN IF rows = 0 THEN quoted ELSE [quoted EXCEPT !.line = @ + rows, !.column = indent + 2]

Lines(e, n, indent) ==
  LET written == Indented(e, indent)
      lines == [i \in 1..n |-> Lexeme("plain", written.line + i - 1, written.column, 0, FALSE)]
  IN Inside([written EXCEPT !.text = @ \o lines, !.line = @ + n - 1, !.column = @ + 1])

Literal(e, event, flags, indent) ==
  LET marked == NewLine(Inside(Write(e, "|", 0, 2)))
      at == IF "root" \in flags THEN indent + 2 ELSE indent
  IN Lines([marked EXCEPT !.whitespace = TRUE, !.indentation = TRUE], event.lines, at)

(* fy_emit_token_scalar                                                      *)
Scalar(e, event, flags) ==
  LET style  == ScalarStyle(event, flags)
      indent == Deeper(flags, e.indent)
      spaced == Spaced(e)
  IN CASE style = "plain"   -> Inside(Write(spaced, "plain", 0, 1))
       [] style = "double"  -> Quote(spaced, 0, indent)
       [] style = "single"  -> Quote(spaced, 2 * (event.lines - 1), indent)
       [] style = "literal" -> Literal(spaced, event, flags, indent)

(* fy_emit_sequence_prolog and fy_emit_mapping_prolog: whether a collection  *)
(* is written in flow style, and how far its content is indented; a sequence *)
(* in a mapping is not.                                                      *)
Prolog(e, sequence, flowToken) ==
  LET c == e.context
      wasFlow == c.flow
      flow == IF Json THEN c.flow ELSE IF Pretty THEN c.empty ELSE e.level > 0 \/ flowToken \/ c.empty
      shown == flow \/ Json
      base == IF ~Json /\ flow /\ e.level = 0 THEN Deeper(c.flags, c.indent) ELSE c.indent
      flags == IF shown THEN c.flags \union {"flow"} ELSE c.flags \ {"flow"}
      further == ~Oneline /\ IF sequence THEN wasFlow \/ flags \intersect {"root", "seq"} # {} ELSE ~c.empty
      opened == IF ~shown THEN e ELSE Open(e, IF sequence THEN "[" ELSE "{")
  IN [opened EXCEPT !.context = [c EXCEPT !.flow = flow, !.old = base,
                                   !.indent = IF further THEN Deeper(flags, base) ELSE base,
                                   !.flags = (flags \ {"root", "seq", "map"})
                                               \union {IF sequence THEN "seq" ELSE "map"}]]

Shown(e) == e.context.flow \/ Json
Spread(e) == ~Oneline /\ ~e.context.empty
(* What ends an item, and the collection after the last one.                  *)
Separated(e) == IF Shown(e) THEN Comma(e) ELSE e
Epilog(e, is) == LET line == IF Spread(e) THEN Indented(e, e.context.old) ELSE e
                 IN IF Shown(e) THEN Shut(line, is) ELSE e

Goto(e, state)   == [e EXCEPT !.state = state]
Push(e, state)   == [e EXCEPT !.states = Append(@, state)]
Pop(e)           == [e EXCEPT !.state = Last(e.states), !.states = Front(@)]

(* fy_emit_streaming_node; next is the event that is queued behind.           *)
Collection(e, event, next, flags) ==
  LET sequence == event.type = "SEQUENCE-START"
      saved == [Preamble(e, event, flags) EXCEPT
                  !.contexts = Append(@, e.context),
                  !.context = [NoContext EXCEPT !.flags = flags \intersect {"root", "seq", "map"},
                                 !.indent = e.indent, !.flow = "flow" \in flags,
                                 !.empty = next.type = IF sequence THEN "SEQUENCE-END" ELSE "MAPPING-END",
                                 !.outerFlags = flags, !.outerIndent = e.indent]]
      begun == Prolog(saved, sequence, event.style = "flow")
  IN Goto([begun EXCEPT !.flags = begun.context.flags, !.indent = begun.context.indent],
          IF sequence THEN "SEQUENCE_FIRST_ITEM" ELSE "MAPPING_FIRST_KEY")

StartIndicator(e) ==
  IF "document start" \in e.had \/ Json THEN e
  ELSE LET line == IF e.column = 0 THEN e ELSE NewLine(e)
       IN [Write(line, "---", 0, 3) EXCEPT !.had = @ \union {"document start"}]

Node(e, event, next, flags) ==
  LET alone == event.type = "SCALAR" /\ "root" \in flags /\ Pretty /\ e.column = 0
      shown == IF alone THEN [StartIndicator(e) EXCEPT !.explicit = TRUE] ELSE e
      line  == IF event.type \in Starts /\ "root" \in e.flags THEN LeaveLine(e) ELSE e
  IN CASE event.type = "ALIAS"  -> Pop([Inside(Write(Spaced(e), "*", 0, 2)) EXCEPT !.flags = flags])
       [] event.type = "SCALAR" -> Pop([Scalar(Preamble(shown, event, flags), event, flags) EXCEPT !.flags = flags])
       [] event.type \in Starts -> Collection(line, event, next, flags)

(* A key can be simple if nothing in it starts a line.                        *)
SimpleKey(event, next) ==
  CASE event.type = "SCALAR" -> event.lines = 1
    [] event.type = "ALIAS"  -> TRUE
    [] OTHER -> next.type \in {"SEQUENCE-END", "MAPPING-END"}

Restore(e) == [e EXCEPT !.indent = e.context.outerIndent, !.flags = e.context.outerFlags,
                        !.context = Last(e.contexts), !.contexts = Front(@)]
InContext(e, flags) == [e EXCEPT !.indent = e.context.indent, !.flags = e.context.flags,
                                 !.context.flags = flags]

-----------------------------------------------------------------------------
(* The handlers of fy_emit_event_from_parser, one for each state.  An event  *)
(* is handled when it is the first of the queue and enough follows it        *)
(* (fy_emit_ready).                                                          *)

Ready == queued # <<>> /\ (Head(queued).type \in Starts => Len(queued) > 1)
This  == Head(queued)
After == IF Len(queued) > 1 THEN queued[2] ELSE This

Take(event) == /\ ~Ready /\ queued' = Append(queued, event)
               /\ emitter' = IF emitter.state = "NONE" THEN Goto(emitter, "STREAM_START") ELSE emitter

At(states) == Ready /\ emitter.state \in states
Handle(e)  == queued' = Tail(queued) /\ emitter' = e

StreamStarts == At({"STREAM_START"}) /\ Handle(Goto(Fresh(emitter.text), "FIRST_DOCUMENT_START"))

BeforeDocument == {"FIRST_DOCUMENT_START", "DOCUMENT_START"}
InSequence     == {"SEQUENCE_FIRST_ITEM", "SEQUENCE_ITEM"}
InMapping      == {"MAPPING_FIRST_KEY", "MAPPING_KEY"}

(* Without an explicit end of the document before, there is an indicator.    *)
DocumentStarts ==
  LET e == [emitter EXCEPT !.explicit = FALSE]
      marked == ~This.implicit \/ ("document output" \in e.had /\ "document end" \notin e.had)
      begun == IF marked THEN StartIndicator(e) ELSE e
  IN /\ At(BeforeDocument) /\ This.type = "DOCUMENT-START"
     /\ Handle(Goto([begun EXCEPT !.had = @ \ {"document end"}], "DOCUMENT_CONTENT"))

StreamEnds == At(BeforeDocument) /\ This.type = "STREAM-END" /\ Handle(Goto(emitter, "END"))

(* fy_emit_handle_document_end: everything but the place is forgotten.        *)
DocumentEnds ==
  LET line == LeaveLine(emitter)
      explicit == (emitter.explicit \/ ~This.implicit) /\ ~Json
      ended == IF explicit THEN NewLine(Write(line, "...", 0, 3)) ELSE line
  IN /\ At({"DOCUMENT_END"})
     /\ Handle(Goto([Fresh(ended.text) EXCEPT !.line = ended.line], "DOCUMENT_START"))

DocumentRoot ==
  At({"DOCUMENT_CONTENT"}) /\ Handle(Node(Push(emitter, "DOCUMENT_END"), This, After, {"root"}))

SequenceItem ==
  LET e == InContext(Push(emitter, "SEQUENCE_ITEM"), emitter.context.flags)
      separated == IF emitter.state = "SEQUENCE_FIRST_ITEM" THEN e ELSE Separated(e)
      placed == IF Oneline THEN separated ELSE Indented(separated, e.context.indent)
      dashed == IF Shown(e) THEN placed ELSE Mark(placed, "-")
  IN /\ At(InSequence) /\ This.type # "SEQUENCE-END"
     /\ Handle(Node(dashed, This, After, e.context.flags))

SequenceEnds ==
  /\ At(InSequence) /\ This.type = "SEQUENCE-END"
  /\ Handle(Pop(Restore(Epilog(emitter, "]"))))

(* The flags of a key, and of a value.                                       *)
InMap(e) == {"map"} \union (e.context.flags \intersect {"flow"})

MappingKey ==
  LET simple == SimpleKey(This, After) \/ Json
      flags  == InMap(emitter) \union IF simple THEN {"simple"} ELSE {}
      e      == InContext(Push(emitter, "MAPPING_VALUE"), flags)
      separated == IF emitter.state = "MAPPING_FIRST_KEY" THEN e ELSE Separated(e)
      placed == IF Oneline THEN separated ELSE Indented(separated, e.context.indent)
      asked  == IF simple THEN placed ELSE Mark(placed, "?")
  IN /\ At(InMapping) /\ This.type # "MAPPING-END"
     /\ Handle(Node([asked EXCEPT !.context.key = This.type], This, After, flags))

MappingValue ==
  LET spaced == IF emitter.context.key = "ALIAS" THEN Space(emitter) ELSE emitter
      e      == Colon(spaced, emitter.context.flags, emitter.context.indent)
      flags  == InMap(e)
  IN /\ At({"MAPPING_VALUE"})
     /\ Handle(Node(Push([e EXCEPT !.context.flags = flags], "MAPPING_KEY"), This, After, flags))

MappingEnds ==
  /\ At(InMapping) /\ This.type = "MAPPING-END"
  /\ Handle(Pop(Restore(Epilog(emitter, "}"))))

Step == \/ StreamStarts \/ DocumentStarts \/ StreamEnds \/ DocumentEnds \/ DocumentRoot
        \/ SequenceItem \/ SequenceEnds \/ MappingKey \/ MappingValue \/ MappingEnds
===============================================================================
