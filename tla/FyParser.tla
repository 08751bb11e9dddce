------------------------------ MODULE FyParser ------------------------------
(***************************************************************************)
(* The event parser of libfyaml (Cfyaml/src/lib/fy-parse.c): a state       *)
(* machine with a stack of states to return to, that reads the tokens of   *)
(* FyScanner and makes an event of them on every call of fy_parser_parse.  *)
(* A call may need several tokens, and for each fy_scan_peek may have to    *)
(* fetch many: until no simple key is left that could put a KEY before it.  *)
(* One step here is one fetch, or what the parser does with one token.      *)
(*                                                                         *)
(* Parsing only: no JSON mode, no comments, no resolution of aliases, the  *)
(* way YAMLReader of PotentYAML uses the parser.                           *)
(***************************************************************************)
EXTENDS FyScanner

CONSTANTS Profiles,      \* what texts there are: their lexemes and their layout
          MaxQueue,      \* bounds the queue of tokens of a scanner that is stuck
          ResetAnywhere  \* whether the parser may be reset before it is done

(* The lexemes of a text that is given follow each other; of one that is     *)
(* written while it is read a profile says what lexemes, in what columns,    *)
(* over how many further lines, and how many of them.                        *)
Before(x, y) == x.line + x.rows <= y.line
ASSUME ProfilesAssumption ==
  \A p \in Profiles :
    /\ p.kinds \subseteq Kinds \ {"end"} /\ p.columns \subseteq Nat /\ p.rows \in Nat
    /\ p.tabs \in BOOLEAN /\ p.length \in Nat
    /\ p.text # <<>> =>
         /\ p.text \in Seq(Lexemes) /\ p.length = Len(p.text)
         /\ \A i \in 1..Len(p.text) : p.text[i].line >= 0
         /\ \A i \in 1..Len(p.text) - 1 : Before(p.text[i], p.text[i + 1])

VARIABLES profile,  \* the texts of this behaviour
          ahead,    \* the lexemes of the text that are next
          left,     \* how many lexemes the text still may get
          scan,     \* the scanner
          state,    \* FYPS_*
          stack,    \* state_stack
          taken,    \* the token this call has already removed
          node,     \* fy_parse_node: where it was called, and the properties it has
          doc,      \* current_document_state and the flags on directives
          event     \* the last event

vars == <<profile, ahead, left, scan, state, stack, taken, node, doc, event>>
parser == <<state, stack, taken, node, doc>>

States ==
  {"NONE", "IMPLICIT_DOCUMENT_START", "DOCUMENT_START", "DOCUMENT_CONTENT", "DOCUMENT_END",
   "BLOCK_NODE", "BLOCK_SEQUENCE_FIRST_ENTRY", "BLOCK_SEQUENCE_ENTRY",
   "INDENTLESS_SEQUENCE_ENTRY", "BLOCK_MAPPING_FIRST_KEY", "BLOCK_MAPPING_KEY",
   "BLOCK_MAPPING_VALUE", "FLOW_SEQUENCE_FIRST_ENTRY", "FLOW_SEQUENCE_ENTRY",
   "FLOW_SEQUENCE_ENTRY_MAPPING_KEY", "FLOW_SEQUENCE_ENTRY_MAPPING_VALUE",
   "FLOW_SEQUENCE_ENTRY_MAPPING_END", "FLOW_MAPPING_FIRST_KEY", "FLOW_MAPPING_KEY",
   "FLOW_MAPPING_VALUE", "FLOW_MAPPING_EMPTY_VALUE", "END"}

NoNode == [in |-> "none", anchor |-> FALSE, tag |-> "none"]
InNode == node.in # "none"

(* fy_document_state_default, and fy_reset_document_state                    *)
NewDocument(d) == [d EXCEPT !.version = "default", !.implicit = TRUE]
FreshFlags     == [version |-> "default", implicit |-> TRUE,
                   directives |-> FALSE, here |-> FALSE, ended |-> FALSE, content |-> FALSE]
(* fy_reset_document_state leaves flow context too.                          *)
NoFlows(s) == [s EXCEPT !.flows = <<Flow("none", Last(@).pending)>>, !.handle = FALSE]

Init ==
  /\ profile \in Profiles
  /\ ahead = <<>>
  /\ left = profile.length
  /\ scan = Created
  /\ state = "NONE" /\ stack = <<>> /\ taken = "none" /\ node = NoNode
  /\ doc = FreshFlags
  /\ event = "none"

-----------------------------------------------------------------------------
(* The text: one that is given, or one that is written while it is read, at  *)
(* most two lexemes ahead.                                                  *)

EndsLine == {"#", "|"} \union Directives

NextLexemes(x) ==
  LET tabs == IF profile.tabs THEN {FALSE, TRUE} ELSE {FALSE}
      newline == x.line + x.rows + 1
      sameLine == {Lexeme(is, x.line + x.rows, x.col + 2, rows, tab) :
                     is \in profile.kinds \ (Markers \union Directives), rows \in 0..profile.rows, tab \in tabs}
      nextLine == {Lexeme(is, newline, col, rows, tab) :
                     is \in profile.kinds, col \in profile.columns, rows \in 0..profile.rows, tab \in tabs}
      may(y) == /\ y.is # "quoted" => y.rows = 0
                /\ y.is \in Markers \union Directives => y.col = 0
                /\ y.tab => y.col > 0
                /\ ~(x.is = "plain" /\ y.is \in {"plain", "quoted"} /\ y.line = x.line)
  IN {y \in nextLine \union (IF x.is \in EndsLine \union {"start"} THEN {} ELSE sameLine) : may(y)}

End(x) == Lexeme("end", x.line + x.rows + 1, 0, 0, FALSE)
BeforeText == Lexeme("start", -1, 0, 0, FALSE)

Possible(x) ==
  IF profile.text = <<>> THEN {End(x)} \union IF left > 0 THEN NextLexemes(x) ELSE {}
  ELSE {IF left = 0 THEN End(x) ELSE profile.text[Len(profile.text) - left + 1]}
Left(n)    == IF n.is = "end" THEN 0 ELSE left - 1

(* The lexeme after the next one.                                           *)
X == Head(ahead)
Following == IF Len(ahead) > 1 THEN {ahead[2]}
             ELSE IF X.is = "end" THEN {X} ELSE Possible(X)

(* What fy_scan_peek may give the parser: the first token, when no simple    *)
(* key is left; after the end of the stream a copy of its token.             *)
Failed == event = "error"
Ready  == /\ ~Failed /\ state # "END" /\ scan.text = <<>>
          /\ IF scan.queue = <<>> THEN scan.ended ELSE scan.keys = <<>>
Token  == IF scan.queue = <<>> THEN "STREAM-END" ELSE Head(scan.queue)
Rest   == [scan EXCEPT !.queue = IF @ = <<>> THEN @ ELSE Tail(@)]
Fetching == ~Failed /\ state # "END" /\ ~Ready /\ Len(scan.queue) < MaxQueue

-----------------------------------------------------------------------------
(* fy_fetch_tokens                                                          *)

(* The state s is what a fetch leaves, before lexemes; an error ends the     *)
(* parsing, and of the text nothing is read any more.                        *)
Fetched(result, lexemes, more) ==
  /\ \E s \in {result} :
       /\ scan' = s
       /\ IF s.error = "none" THEN event' = event /\ ahead' = lexemes /\ left' = more
                              ELSE event' = "error" /\ ahead' = <<>> /\ left' = 0
  /\ UNCHANGED <<profile, parser>>

FetchStreamStart ==
  /\ Fetching /\ ~scan.started
  /\ \E x \in Possible(BeforeText) : Fetched(StreamStart(scan), <<x>>, Left(x))

CanFetch  == Fetching /\ scan.started
MoreAt(n) == IF Len(ahead) > 1 THEN left ELSE Left(n)

SkipComment ==
  /\ CanFetch /\ scan.text = <<>> /\ X.is = "#"
  /\ \E n \in Following : Fetched(ScanTo(scan, X), <<n>>, MoreAt(n))

(* Whether white space is eaten behind the lexeme.                          *)
Eats(s, x) == x.is \in {"-", "?"} \union Markers \/ (x.is = ":" /\ (Complex(s) \/ s.queue # <<>>))
                \/ (x.is = "," /\ ~Block(s))

FetchToken ==
  /\ CanFetch /\ scan.text = <<>> /\ X.is # "#"
  /\ \E n \in Following :
       Fetched(Fetch(scan, X, n),
               IF X.is = "end" THEN ahead
               ELSE IF Stays(scan, X) THEN <<X, n>>
               ELSE <<IF Eats(scan, X) THEN Untabbed(X, n) ELSE n>>,
               MoreAt(n))

GrowText ==
  /\ CanFetch /\ scan.text # <<>> /\ InText(scan, X)
  /\ \E n \in Following : Fetched(AddText(scan, X), <<n>>, MoreAt(n))

EndText ==
  /\ CanFetch /\ scan.text # <<>> /\ ~InText(scan, X)
  /\ IF scan.text.is = "plain"
       THEN Fetched(PlainEnd(scan, X), <<[X EXCEPT !.tab = FALSE]>> \o Tail(ahead), left)
       ELSE Fetched(BlockScalarEnd(scan, X), ahead, left)

-----------------------------------------------------------------------------
(* fy_parse_internal.  Each action is guarded by Ready: the parser has      *)
(* peeked at Token.                                                         *)

TextKept  == UNCHANGED <<profile, ahead, left>>
Emit(e)   == event' = e /\ taken' = "none" /\ node' = NoNode
Quiet     == UNCHANGED event
Consume   == scan' = Rest
Keep      == UNCHANGED scan

Goto(next)   == state' = next /\ UNCHANGED stack
Return       == /\ state' = IF stack = <<>> THEN "NONE" ELSE Last(stack)
                /\ stack' = IF stack = <<>> THEN <<>> ELSE Front(stack)
Give(e)      == Emit(e) /\ UNCHANGED doc /\ TextKept
Refuse       == /\ event' = "error" /\ ahead' = <<>> /\ left' = 0
                /\ Keep /\ UNCHANGED <<profile, parser>>

(* Mutant: the token is looked at and not removed.                           *)
TakeKeeps(token) == /\ taken' = token /\ Keep /\ Quiet /\ TextKept
                    /\ UNCHANGED <<state, stack, node, doc>>

(* fy_scan_remove_peek: the next token is peeked at, in the same call.      *)
Take(token)  == /\ taken' = token /\ Consume /\ Quiet /\ TextKept
                /\ UNCHANGED <<state, stack, node, doc>>

(* Mutant: the state to return to is not pushed.                             *)
NodeForgets(in, then) ==
  /\ node' = [NoNode EXCEPT !.in = in] /\ UNCHANGED stack
  /\ Keep /\ Quiet /\ TextKept /\ UNCHANGED <<state, taken, doc>>

(* fy_parse_node is called at Token, to go to the state then after the node. *)
Node(in, then) ==
  /\ node' = [NoNode EXCEPT !.in = in] /\ stack' = stack \o then
  /\ Keep /\ Quiet /\ TextKept /\ UNCHANGED <<state, taken, doc>>

EmptyScalar(next) == Goto(next) /\ Give("SCALAR") /\ Keep

(* The calls at a token, outside fy_parse_node.                              *)
At(states) == Ready /\ ~InNode /\ state \in states
None       == taken = "none"

StreamStartEvent ==
  /\ At({"NONE"})
  /\ IF Token = "STREAM-START"
       THEN /\ scan' = [Rest EXCEPT !.started = TRUE, !.indents = Base.indents, !.keys = Base.keys,
                                    !.flows = Base.flows]
            /\ state' = "IMPLICIT_DOCUMENT_START" /\ stack' = <<>>
            /\ Give("STREAM-START")
       ELSE Refuse

(* What is left of the document before, and the directives of the next one.  *)
BetweenDocuments == At({"IMPLICIT_DOCUMENT_START", "DOCUMENT_START"})

ExtraDocumentEnd ==
  /\ BetweenDocuments /\ Token = "DOCUMENT-END" /\ ~doc.here
  /\ doc' = [doc EXCEPT !.content = FALSE, !.directives = FALSE, !.ended = TRUE]
  /\ scan' = [Rest EXCEPT !.first = TRUE]
  /\ Quiet /\ TextKept /\ UNCHANGED <<state, stack, taken, node>>

DirectiveToken ==
  /\ BetweenDocuments /\ Token \in {"VERSION-DIRECTIVE", "TAG-DIRECTIVE"}
  /\ IF (Token = "VERSION-DIRECTIVE" /\ doc.version # "default") \/ (Token = "TAG-DIRECTIVE" /\ scan.handle)
       THEN Refuse
       ELSE /\ doc' = [doc EXCEPT !.directives = TRUE, !.here = TRUE,
                                  !.version = IF Token = "VERSION-DIRECTIVE" THEN "1.2" ELSE @]
            /\ scan' = [Rest EXCEPT !.handle = @ \/ Token = "TAG-DIRECTIVE"]
            /\ Quiet /\ TextKept /\ UNCHANGED <<state, stack, taken, node>>

StreamEndEvent ==
  /\ BetweenDocuments /\ Token = "STREAM-END"
  /\ IF doc.directives /\ ~doc.content /\ doc.implicit
       THEN Refuse
       ELSE /\ Goto("END") /\ Consume /\ Give("STREAM-END")

DocumentStart ==
  /\ BetweenDocuments
  /\ Token \notin {"VERSION-DIRECTIVE", "TAG-DIRECTIVE", "STREAM-END"}
  /\ Token = "DOCUMENT-END" => doc.here
  /\ IF \/ state = "DOCUMENT_START" /\ ~doc.ended /\ Token # "DOCUMENT-START"
        \/ Token = "DOCUMENT-END"
       THEN Refuse
       ELSE /\ state' = IF Token = "DOCUMENT-START" THEN "DOCUMENT_CONTENT" ELSE "BLOCK_NODE"
            /\ stack' = Append(stack, "DOCUMENT_END")
            /\ IF Token = "DOCUMENT-START" THEN Consume ELSE Keep
            /\ doc' = [doc EXCEPT !.implicit = Token # "DOCUMENT-START", !.here = FALSE, !.ended = FALSE]
            /\ Emit("DOCUMENT-START") /\ TextKept

(* A directive needs an explicit end before it, unless the document is of    *)
(* an older version; the token stays where it is.                            *)
DocumentEnd ==
  /\ At({"DOCUMENT_END"})
  /\ IF Token \in {"VERSION-DIRECTIVE", "TAG-DIRECTIVE"}
       THEN Refuse
       ELSE /\ Goto("DOCUMENT_START")
            /\ doc' = [NewDocument(doc) EXCEPT !.content = @ /\ Token # "DOCUMENT-END", !.directives = FALSE]
            /\ scan' = [NoFlows(scan) EXCEPT !.first = @ \/ Token = "DOCUMENT-END"]
            /\ Emit("DOCUMENT-END") /\ TextKept

DocumentContent ==
  /\ At({"DOCUMENT_CONTENT"})
  /\ IF Token \in {"VERSION-DIRECTIVE", "TAG-DIRECTIVE", "DOCUMENT-START", "DOCUMENT-END", "STREAM-END"}
       THEN /\ Return /\ Emit("SCALAR") /\ TextKept
            /\ scan' = [scan EXCEPT !.first = @ \/ Token \in {"DOCUMENT-START", "DOCUMENT-END"}]
            /\ doc' = IF Token \in {"DOCUMENT-START", "DOCUMENT-END"}
                        THEN [doc EXCEPT !.content = FALSE, !.directives = FALSE] ELSE doc
       ELSE /\ doc' = [doc EXCEPT !.content = TRUE]
            /\ node' = [NoNode EXCEPT !.in = "block"]
            /\ Keep /\ Quiet /\ TextKept /\ UNCHANGED <<state, stack, taken>>

BlockNode == At({"BLOCK_NODE"}) /\ Node("block", <<>>)

(* An entry without a node is told by the token after it; an indentless       *)
(* sequence takes the next entry, or the end of the mapping, for a node.      *)
BlockSequence ==
  LET block == state # "INDENTLESS_SEQUENCE_ENTRY"
      noEntry == Token \in {"BLOCK-ENTRY", "BLOCK-END"} /\ (block \/ Token \in {"KEY", "VALUE"})
  IN /\ At({"BLOCK_SEQUENCE_FIRST_ENTRY", "BLOCK_SEQUENCE_ENTRY", "INDENTLESS_SEQUENCE_ENTRY"})
     /\ CASE taken = "BLOCK-ENTRY" -> IF noEntry THEN EmptyScalar("BLOCK_SEQUENCE_ENTRY")
                                                 ELSE Node("block", <<state>>)
          [] None /\ Token = "BLOCK-ENTRY" -> Take(Token)
          [] OTHER -> IF block /\ Token # "BLOCK-END" THEN Refuse
                      ELSE /\ Return /\ Give("SEQUENCE-END")
                           /\ IF block THEN Consume ELSE Keep

BlockMappingKey ==
  /\ At({"BLOCK_MAPPING_FIRST_KEY", "BLOCK_MAPPING_KEY"})
  /\ CASE taken = "KEY" -> IF Token \in {"KEY", "VALUE", "BLOCK-END"}
                             THEN EmptyScalar("BLOCK_MAPPING_VALUE")
                             ELSE Node("block", <<"BLOCK_MAPPING_VALUE">>)
       [] None /\ Token = "KEY" -> Take(Token)
       [] None /\ Token \in {"BLOCK-END", "STREAM-END"} -> Return /\ Give("MAPPING-END") /\ Consume
       [] OTHER -> Refuse

BlockMappingValue ==
  /\ At({"BLOCK_MAPPING_VALUE"})
  /\ CASE None /\ Token = "VALUE" -> Take(Token)
       [] taken = "VALUE" /\ Token \notin {"KEY", "VALUE", "BLOCK-END"} ->
            Node("block", <<"BLOCK_MAPPING_KEY">>)
       [] OTHER -> EmptyScalar("BLOCK_MAPPING_KEY")

(* A KEY in a flow sequence starts a mapping of one pair.                    *)
FlowSequence ==
  LET first == state = "FLOW_SEQUENCE_FIRST_ENTRY"
      entry == first \/ taken = "FLOW-ENTRY"
      over  == Token = "FLOW-SEQUENCE-END" \/ (Token = "STREAM-END" /\ None)
  IN /\ At({"FLOW_SEQUENCE_FIRST_ENTRY", "FLOW_SEQUENCE_ENTRY"})
     /\ CASE over -> IF Token = "STREAM-END" /\ ~Block(scan) THEN Refuse
                     ELSE Return /\ Give("SEQUENCE-END") /\ Consume
          [] ~over /\ entry /\ Token = "KEY" ->
               Goto("FLOW_SEQUENCE_ENTRY_MAPPING_KEY") /\ Give("MAPPING-START") /\ Consume
          [] ~over /\ entry /\ Token # "KEY" -> Node("flow", <<"FLOW_SEQUENCE_ENTRY">>)
          [] ~over /\ ~entry /\ Token = "FLOW-ENTRY" -> Take(Token)
          [] OTHER -> Refuse

FlowSequenceKey ==
  /\ At({"FLOW_SEQUENCE_ENTRY_MAPPING_KEY"})
  /\ IF Token \in {"VALUE", "FLOW-ENTRY", "FLOW-SEQUENCE-END"}
       THEN EmptyScalar("FLOW_SEQUENCE_ENTRY_MAPPING_VALUE")
       ELSE Node("flow", <<"FLOW_SEQUENCE_ENTRY_MAPPING_VALUE">>)

FlowSequenceValue ==
  /\ At({"FLOW_SEQUENCE_ENTRY_MAPPING_VALUE"})
  /\ CASE None /\ Token = "VALUE" -> Take(Token)
       [] taken = "VALUE" /\ Token \notin {"FLOW-ENTRY", "FLOW-SEQUENCE-END"} ->
            Node("flow", <<"FLOW_SEQUENCE_ENTRY_MAPPING_END">>)
       [] OTHER -> EmptyScalar("FLOW_SEQUENCE_ENTRY_MAPPING_END")

FlowSequencePairEnd ==
  /\ At({"FLOW_SEQUENCE_ENTRY_MAPPING_END"})
  /\ Goto("FLOW_SEQUENCE_ENTRY") /\ Give("MAPPING-END") /\ Keep

FlowMappingKey ==
  LET first == state = "FLOW_MAPPING_FIRST_KEY"
      entry == (first /\ None) \/ taken = "FLOW-ENTRY"
  IN /\ At({"FLOW_MAPPING_FIRST_KEY", "FLOW_MAPPING_KEY"})
     /\ CASE taken = "KEY" -> IF Token \in {"VALUE", "FLOW-ENTRY", "FLOW-MAPPING-END"}
                                THEN EmptyScalar("FLOW_MAPPING_VALUE")
                                ELSE Node("flow", <<"FLOW_MAPPING_VALUE">>)
          [] taken # "KEY" /\ Token = "FLOW-MAPPING-END" -> Return /\ Give("MAPPING-END") /\ Consume
          [] entry /\ Token = "KEY" -> Take(Token)
          [] entry /\ Token \notin {"KEY", "FLOW-MAPPING-END"} -> Node("flow", <<"FLOW_MAPPING_EMPTY_VALUE">>)
          [] ~entry /\ None /\ Token = "FLOW-ENTRY" -> Take(Token)
          [] OTHER -> Refuse

FlowMappingValue ==
  /\ At({"FLOW_MAPPING_VALUE"})
  /\ CASE None /\ Token = "VALUE" -> Take(Token)
       [] taken = "VALUE" /\ Token \notin {"FLOW-ENTRY", "FLOW-MAPPING-END"} ->
            Node("flow", <<"FLOW_MAPPING_KEY">>)
       [] OTHER -> EmptyScalar("FLOW_MAPPING_KEY")

FlowMappingEmptyValue == At({"FLOW_MAPPING_EMPTY_VALUE"}) /\ EmptyScalar("FLOW_MAPPING_KEY")

-----------------------------------------------------------------------------
(* fy_parse_node                                                            *)

NodeAt(types) == Ready /\ InNode /\ Token \in types
HasProperties == node.anchor \/ node.tag # "none"

NodeAlias ==
  /\ NodeAt({"ALIAS"})
  /\ IF HasProperties THEN Refuse ELSE Return /\ Give("ALIAS") /\ Consume

NodeProperty ==
  /\ \/ NodeAt({"ANCHOR"}) /\ ~node.anchor /\ node' = [node EXCEPT !.anchor = TRUE]
     \/ NodeAt({"TAG", "TAG-HANDLE"}) /\ node.tag = "none" /\ node' = [node EXCEPT !.tag = Token]
  /\ Consume /\ Quiet /\ TextKept /\ UNCHANGED <<state, stack, taken, doc>>

First(start) == CASE start = "FLOW-SEQUENCE-START"  -> "FLOW_SEQUENCE_FIRST_ENTRY"
                  [] start = "FLOW-MAPPING-START"   -> "FLOW_MAPPING_FIRST_KEY"
                  [] start = "BLOCK-SEQUENCE-START" -> "BLOCK_SEQUENCE_FIRST_ENTRY"
                  [] start = "BLOCK-MAPPING-START"  -> "BLOCK_MAPPING_FIRST_KEY"

(* The node itself.  What is no node leaves an empty scalar, if there were   *)
(* properties.                                                               *)
NodeContent ==
  LET indentless == /\ Token = "BLOCK-ENTRY"
                    /\ state \in {"BLOCK_MAPPING_VALUE", "BLOCK_MAPPING_FIRST_KEY"}
      opens == {"FLOW-SEQUENCE-START", "FLOW-MAPPING-START"}
                 \union IF node.in = "flow" THEN {} ELSE {"BLOCK-SEQUENCE-START", "BLOCK-MAPPING-START"}
      sequence == Token \in {"FLOW-SEQUENCE-START", "BLOCK-SEQUENCE-START"}
  IN /\ Ready /\ InNode /\ Token # "ALIAS"
     /\ Token = "ANCHOR" => node.anchor
     /\ Token \in {"TAG", "TAG-HANDLE"} => node.tag # "none"
     /\ IF node.tag = "TAG-HANDLE" /\ ~scan.handle THEN Refuse ELSE
        CASE indentless -> Goto("INDENTLESS_SEQUENCE_ENTRY") /\ Give("SEQUENCE-START") /\ Keep
          [] Token = "SCALAR" -> Return /\ Give("SCALAR") /\ Consume
          [] Token \in opens ->
               /\ Goto(First(Token)) /\ Consume
               /\ Give(IF sequence THEN "SEQUENCE-START" ELSE "MAPPING-START")
          [] OTHER -> IF HasProperties THEN Return /\ Give("SCALAR") /\ Keep ELSE Refuse

-----------------------------------------------------------------------------
(* fy_parser_reset and the setting of a new input: what the scanner had       *)
(* queued, and its simple keys, indents and pending key, stay.                *)
Reset ==
  /\ state = "END" \/ (ResetAnywhere /\ event \notin {"none", "reset"})
  /\ profile' = profile /\ ahead' = <<>> /\ left' = 1
  /\ scan' = [NoFlows(scan) EXCEPT !.started = FALSE, !.ended = FALSE, !.first = FALSE,
                                   !.flows = Base.flows, !.line = 0, !.text = <<>>, !.error = "none"]
  /\ state' = "NONE" /\ stack' = <<>> /\ taken' = "none" /\ node' = NoNode
  /\ doc' = FreshFlags
  /\ event' = "reset"

FetchStep == FetchStreamStart \/ SkipComment \/ FetchToken \/ GrowText \/ EndText

ParseStep ==
  \/ StreamStartEvent \/ ExtraDocumentEnd \/ DirectiveToken \/ StreamEndEvent
  \/ DocumentStart \/ DocumentEnd \/ DocumentContent \/ BlockNode
  \/ BlockSequence \/ BlockMappingKey \/ BlockMappingValue
  \/ FlowSequence \/ FlowSequenceKey \/ FlowSequenceValue \/ FlowSequencePairEnd
  \/ FlowMappingKey \/ FlowMappingValue \/ FlowMappingEmptyValue
  \/ NodeAlias \/ NodeProperty \/ NodeContent

Step == FetchStep \/ ParseStep

(* A parser that failed gives no more events until it is reset.              *)
Stop == Failed /\ UNCHANGED vars

Next == Step \/ Reset \/ Stop

Spec == Init /\ [][Next]_vars

(* The parser has not come to the end of its text.                          *)
Busy == ~Failed /\ state # "END"

-----------------------------------------------------------------------------
(* What the parser has open, by the states it is in and will return to.     *)

Context(at) ==
  CASE at \in {"DOCUMENT_CONTENT", "BLOCK_NODE"} -> "document"
    [] at = "DOCUMENT_END" -> "root"
    [] at \in {"BLOCK_MAPPING_FIRST_KEY", "BLOCK_MAPPING_KEY",
               "FLOW_MAPPING_FIRST_KEY", "FLOW_MAPPING_KEY"} -> "key"
    [] at \in {"BLOCK_MAPPING_VALUE", "FLOW_MAPPING_VALUE", "FLOW_MAPPING_EMPTY_VALUE"} -> "value"
    [] at = "FLOW_SEQUENCE_ENTRY_MAPPING_KEY" -> "pair key"
    [] at = "FLOW_SEQUENCE_ENTRY_MAPPING_VALUE" -> "pair value"
    [] at = "FLOW_SEQUENCE_ENTRY_MAPPING_END" -> "pair end"
    [] OTHER -> "sequence"

(* While a node is awaited the state to go to after it is on the stack.      *)
Awaited == state \in {"DOCUMENT_CONTENT", "BLOCK_NODE"} \/ InNode
ReturnsTo == Append(IF Awaited THEN Front(stack) ELSE stack, state)
Outline(states) == <<"stream">> \o [i \in DOMAIN states |-> Context(states[i])]
Open == CASE state \in {"NONE", "END"} -> <<>>
          [] state \in {"IMPLICIT_DOCUMENT_START", "DOCUMENT_START"} -> <<"stream">>
          [] OTHER -> Outline(ReturnsTo)

Events == INSTANCE FyEvents WITH open <- Open

-----------------------------------------------------------------------------
(* Properties                                                               *)

Tokens == Content \union {"STREAM-START", "STREAM-END", "VERSION-DIRECTIVE", "TAG-DIRECTIVE",
                          "DOCUMENT-START", "DOCUMENT-END"}

(* The type of the state; the bottom of the stacks of indents and of flow    *)
(* collections is never popped, and indents grow.                            *)
TypeOK ==
  /\ state \in States /\ \A i \in DOMAIN stack : stack[i] \in States \ {"NONE", "END"}
  /\ taken \in {"none", "BLOCK-ENTRY", "FLOW-ENTRY", "KEY", "VALUE"}
  /\ node.in \in {"none", "block", "flow"} /\ node.tag \in {"none", "TAG", "TAG-HANDLE"}
  /\ event \in Events!Events \union {"none", "error", "reset"}
  /\ scan.error \in {"none", "syntax", "internal"}
  /\ \A i \in DOMAIN scan.queue : scan.queue[i] \in Tokens
  /\ scan.flows # <<>> /\ scan.flows[1].is = "none"
  /\ scan.indents # <<>> /\ scan.indents[1].at = -2
  /\ \A i \in 2..Len(scan.indents) : scan.indents[i].at >= scan.indents[i - 1].at

(* The events are the tour of well-formed documents, whatever the text.      *)
EventsAreATour == Events!Spec

FlowStarts == {"FLOW-SEQUENCE-START", "FLOW-MAPPING-START"}
FlowEnds   == {"FLOW-SEQUENCE-END", "FLOW-MAPPING-END"}

Count(seq, what) == Cardinality({i \in DOMAIN seq : seq[i] \in what})

(* The scanner counts block collections by their indentation and flow         *)
(* collections by their brackets, the parser by its states.  They agree on   *)
(* what is open, if the tokens between them are counted; but the end of a     *)
(* document forgets what flow collection was scanned after it, and then the   *)
(* text must be refused.                                                      *)
InBlock == {"BLOCK_SEQUENCE_FIRST_ENTRY", "BLOCK_SEQUENCE_ENTRY", "BLOCK_MAPPING_FIRST_KEY",
            "BLOCK_MAPPING_KEY", "BLOCK_MAPPING_VALUE"}
InFlow  == {"FLOW_SEQUENCE_FIRST_ENTRY", "FLOW_SEQUENCE_ENTRY", "FLOW_SEQUENCE_ENTRY_MAPPING_KEY",
            "FLOW_SEQUENCE_ENTRY_MAPPING_VALUE", "FLOW_SEQUENCE_ENTRY_MAPPING_END",
            "FLOW_MAPPING_FIRST_KEY", "FLOW_MAPPING_KEY", "FLOW_MAPPING_VALUE", "FLOW_MAPPING_EMPTY_VALUE"}

NestingAgrees ==
  ~Failed =>
    /\ Len(scan.indents) - 1 - (IF scan.text # <<>> /\ scan.text.is = "block" /\ scan.text.tab THEN 1 ELSE 0)
         = Count(ReturnsTo, InBlock) + Count(scan.queue, {"BLOCK-SEQUENCE-START", "BLOCK-MAPPING-START"})
             - Count(scan.queue, {"BLOCK-END"})
    /\ state # "DOCUMENT_START" => Level(scan)
         = Count(ReturnsTo, InFlow) + Count(scan.queue, FlowStarts) - Count(scan.queue, FlowEnds)

(* A simple key that is not stale refers to a token that is still queued, of  *)
(* a node or of its properties, and what was queued from it on separates      *)
(* nothing but inside the collections it opened: a KEY inserted before it     *)
(* makes a key of that.                                                       *)
OfNode     == {"SCALAR", "ALIAS", "ANCHOR", "TAG", "TAG-HANDLE"} \union FlowStarts

KeysAreNodes ==
  \A i \in {j \in DOMAIN scan.keys : ~Stale(scan, scan.keys[j])} :
    LET key   == scan.keys[i]
        since == SubSeq(scan.queue, key.token, Len(scan.queue))
        depth(j) == Count(SubSeq(since, 1, j), FlowStarts) - Count(SubSeq(since, 1, j), FlowEnds)
    IN /\ since # <<>> /\ Head(since) \in OfNode
       /\ \A j \in DOMAIN since : depth(j - 1) = 0 => since[j] \in OfNode
       /\ depth(Len(since)) = Level(scan) - key.level
       /\ i > 1 => scan.keys[i - 1].level < key.level

(* What the scanner counts is what the parser has open, and what its simple   *)
(* keys name.                                                                 *)
ScannerAgrees == NestingAgrees /\ KeysAreNodes

(* What is reported as an internal error, or would be popped from an empty    *)
(* stack, never happens: a text can only be refused for its syntax.          *)
NoInternalError == scan.error # "internal" /\ (state = "NONE" => event \in {"none", "reset", "error"})

(* Every text is parsed to its end or refused: no fetch is repeated forever, *)
(* and the parser never waits for a token that cannot come.                  *)
Terminates == Busy ~> ~Busy

(* A parser that was reset starts with the start of a stream.                *)
ResetStartsOver == [][event = "reset" /\ event' # "reset" => event' = "STREAM-START"]_vars
===============================================================================
