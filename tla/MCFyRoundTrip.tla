---------------------------- MODULE MCFyRoundTrip ----------------------------
(***************************************************************************)
(* The instances of FyRoundTrip that TLC checks: every text that a profile  *)
(* describes, each with the lexemes of one concern and as many of them as   *)
(* it takes to nest collections in each other and to leave them again; and  *)
(* the text of every tree of nodes that a writer may give the emitter, in   *)
(* the four modes of YAMLWriter.  Without a writer, it is a parser that is   *)
(* used again.                                                              *)
(***************************************************************************)
EXTENDS FyRoundTrip

Texts(kinds, columns, length, rows, tabs) ==
  [text |-> <<>>, kinds |-> kinds, columns |-> columns, length |-> length, rows |-> rows, tabs |-> tabs]

Blocks     == Texts({"-", ":", "plain"}, {0, 2}, 5, 0, FALSE)
Asked      == Texts({"-", "?", ":", "plain"}, {0, 2}, 4, 0, FALSE)
Sequences  == Texts({"[", "]", ",", ":", "plain"}, {0}, 5, 0, FALSE)
Mappings   == Texts({"{", "}", ",", ":", "plain"}, {0}, 5, 0, FALSE)
Mixed      == Texts({"[", "]", "{", "}", "?", ":"}, {0}, 4, 0, FALSE)
Documents  == Texts({"---", "...", "%YAML", "%TAG", "%", "!h", "plain", "#"}, {0}, 5, 0, FALSE)
Properties == Texts({"&", "*", "!", ":", "plain"}, {0, 2}, 4, 0, FALSE)
Scalars    == Texts({"quoted", "|", "plain", ":", "-", "["}, {0, 2}, 4, 1, FALSE)
Tabs       == Texts({"-", ":", "plain", "[", "#"}, {0, 2}, 4, 0, TRUE)
NoText     == Texts({}, {0}, 0, 0, FALSE)

AllTexts   == {Blocks, Asked, Sequences, Mappings, Mixed, Documents, Properties, Scalars, Tabs, NoText}

(* A text with a simple key that is not one, for a parser that is used again. *)
ResetTexts == {Texts({"[", ":", "plain"}, {0}, 3, 0, FALSE)}

(* The trees of at most so many nodes, with so many collections among them,   *)
(* what their nodes may be, and how many documents they are written in.      *)
Trees(mode, nodes, collections, scalars, styles, properties, aliases, documents) ==
  [mode |-> mode, json |-> mode \notin {"ORIGINAL", "PRETTY"}, nodes |-> nodes, collections |-> collections,
   documents |-> documents, implicit |-> documents = 1,
   scalars |-> scalars, styles |-> styles, properties |-> properties, aliases |-> aliases]

Short     == {<<"any", 1>>}
Styled    == {<<"any", 1>>, <<"single", 2>>, <<"double", 1>>, <<"literal", 2>>}
BlockOnly == {"any"}
Both      == {"any", "flow"}
Bare      == {<<FALSE, FALSE>>}
Dressed   == {<<FALSE, FALSE>>, <<TRUE, TRUE>>}

AllTrees ==
  {Trees("JSON", 5, 3, Short, BlockOnly, Bare, FALSE, 1), Trees("JSON_ONELINE", 5, 3, Short, BlockOnly, Bare, FALSE, 1)}
  \union UNION {{Trees(mode, 6, 2, Short, BlockOnly, Bare, FALSE, 1), Trees(mode, 4, 4, Short, Both, Bare, FALSE, 1),
                 Trees(mode, 4, 2, Styled, BlockOnly, Bare, FALSE, 1), Trees(mode, 3, 3, Short, BlockOnly, Dressed, TRUE, 1),
                 Trees(mode, 3, 2, Short, Both, Bare, TRUE, 2)} : mode \in {"ORIGINAL", "PRETTY"}}
===============================================================================
