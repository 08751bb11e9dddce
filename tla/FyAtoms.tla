------------------------------- MODULE FyAtoms -------------------------------
(***************************************************************************)
(* Atoms (Cfyaml/src/lib/fy-atom.c): the stretch of a source a token       *)
(* stands for, and the iterator that turns it, line by line, into the text *)
(* of the token.                                                           *)
(*                                                                         *)
(* A character is a string of one letter; an escape's letter stands with   *)
(* the digits that follow it.  A line break is LF, CR or CR LF: YAML 1.2   *)
(* has no others, and the reader gives atoms no tab size of their own, so  *)
(* the iterator takes a tab for eight columns.                             *)
(***************************************************************************)
EXTENDS Integers, SequencesExt, FiniteSetsExt

SP  == " "
TAB == "\t"
LF  == "\n"
CR  == "\r"
EOF == "end"

Ws(c)     == c \in {SP, TAB}
Lb(c)     == c \in {LF, CR}
Blank(c)  == Ws(c) \/ Lb(c)
Blankz(c) == Blank(c) \/ c = EOF

(* What is left of start when Op takes the members of cs, or their places,  *)
(* one after the other.                                                     *)
Fold(Op(_, _), start, cs) ==
  LET done[k \in 0..Len(cs)] == IF k = 0 THEN start ELSE Op(done[k - 1], cs[k]) IN done[Len(cs)]
FoldAt(Op(_, _), start, cs) == Fold(Op, start, [k \in DOMAIN cs |-> k])

(* The octets of a character, and of a text.                                *)
Width(c)   == CASE c = "astral" -> 4 [] c \in {"nbsp", "nel", "accent"} -> 2 [] OTHER -> 1
Octets(cs) == Fold(LAMBDA n, c : n + Width(c), 0, cs)

CharAt(cs, i) == IF i <= Len(cs) THEN cs[i] ELSE EOF
(* The place after the character at i: CR LF is read as one.                *)
After(cs, i) == IF CharAt(cs, i) = CR /\ CharAt(cs, i + 1) = LF THEN i + 2 ELSE i + 1

(***************************************************************************)
(* Escapes of double quoted text: the value of the escape at i and the     *)
(* characters it takes, "none" when there is none of that name.            *)
(* "h" and "l" are the halves of a surrogate pair and "u" a code unit that *)
(* is neither.                                                             *)
(***************************************************************************)
Escapes == [n |-> LF, t |-> TAB, r |-> CR, a |-> "bel", N |-> "nel", x |-> "accent", u |-> "accent", U |-> "astral",
            ubel |-> "bel", unel |-> "nel", unbsp |-> "nbsp"]
Escape(cs, i) ==
  LET c == CharAt(cs, i + 1)
      pair == c = "h" /\ CharAt(cs, i + 2) = "\\" /\ CharAt(cs, i + 3) \in {"h", "l", "u"}
      Found(value, size) == [value |-> value, size |-> size]
  IN CASE c \in DOMAIN Escapes -> Found(Escapes[c], 2)
       [] c = "_" -> Found("nbsp", 2)
       [] c \in {SP, TAB, "\"", "\\", "/"} -> Found(c, 2)
       [] pair /\ CharAt(cs, i + 3) = "l" -> Found("astral", 4)
       [] OTHER -> Found("none", 2)

(***************************************************************************)
(* An atom: the source it covers, and what the scanner found out about it. *)
(* increment is the column its content starts at when it is a block scalar,*)
(* oneLine and atColumn0 the marks of its start and end.                   *)
(***************************************************************************)
IsBlock(style) == style \in {"literal", "folded"}

Atom(style, data) ==
  [style |-> style, data |-> data, chomp |-> "strip", increment |-> 0, direct |-> FALSE,
   empty |-> FALSE, hasLb |-> FALSE, hasWs |-> FALSE, startsWs |-> FALSE, startsLb |-> FALSE,
   endsLb |-> FALSE, trailingLb |-> FALSE, endsEof |-> FALSE, oneLine |-> TRUE,
   atColumn0 |-> FALSE, hint |-> 0]

(***************************************************************************)
(* fy_atom_iter_line_analyze: the line that starts at i.                   *)
(***************************************************************************)
(* The end of the run of white space and breaks that starts at i.           *)
RunEnd(cs, i) == LET ends == SelectInSubSeq(cs, i, Len(cs), LAMBDA c : ~Blank(c))
                 IN IF ends = 0 THEN Len(cs) + 1 ELSE ends
(* The column after c, with a tab going to the next multiple of eight.      *)
NextColumn(col, c) == IF Lb(c) THEN 0 ELSE IF c = TAB THEN col + 8 - (col % 8) ELSE col + 1

(* Nothing to look for: the line is the whole of the atom.                  *)
Whole(atom) ==
  (atom.direct /\ ~atom.hasLb /\ ~atom.hasWs) \/ atom.style = "manual"

WholeLine(atom, i) ==
  LET end == Len(atom.data) + 1
  IN [start |-> i, end |-> end, nwsStart |-> i, nwsEnd |-> end, chompAt |-> i, first |-> FALSE,
      last |-> FALSE, final |-> TRUE, empty |-> atom.empty, breaks |-> 0, breaksWs |-> FALSE,
      endWs |-> FALSE, indented |-> FALSE, lbEnd |-> FALSE, backslash |-> FALSE]

OrElse(S, default) == IF S = {} THEN default ELSE Min(S)

(* Other lines are looked at character by character: where the line ends,   *)
(* and what of it is no white space.  A tab of a block scalar is text, and  *)
(* in double quoted text one after a backslash ends no text.                *)
Looked(atom, i) ==
  LET D   == atom.data
      end == OrElse({k \in i..Len(D) : Lb(D[k])}, Len(D) + 1)
      solid == {k \in i..(end - 1) : ~Ws(D[k]) \/ (IsBlock(atom.style) /\ D[k] = TAB)}
      kept  == solid \union {k \in (i + 1)..(end - 1) :
                               atom.style = "double" /\ D[k] = TAB /\ D[k - 1] = "\\"}
  IN [end |-> end, found |-> end <= Len(D), solid |-> solid, nwsEnd |-> IF kept = {} THEN i ELSE Max(kept) + 1]

(* Then the run of breaks and white space that ends the line is looked at:  *)
(* how many breaks it has, and whether it goes past the indentation.        *)
LineOf(atom, i, looked) ==
  LET D == atom.data
      block == IsBlock(atom.style)
      end == looked.end
      nwsStart == OrElse(looked.solid, end)
      nwsEnd   == looked.nwsEnd
      chompAt  == Min({i + atom.increment, end})
      runEnd   == IF looked.found THEN RunEnd(D, end) ELSE end
      run      == SubSeq(D, end, runEnd - 1)
      columns  == Fold(LAMBDA cols, c : Append(cols, NextColumn(Last(cols), c)), <<0>>, run)
  IN [start |-> i, end |-> end, nwsStart |-> nwsStart, nwsEnd |-> nwsEnd, chompAt |-> chompAt,
      first |-> FALSE, last |-> runEnd > Len(D), final |-> ~looked.found, empty |-> looked.solid = {},
      breaks   |-> Cardinality({k \in DOMAIN run : Lb(run[k])}),
      breaksWs |-> block /\ \E k \in DOMAIN run : columns[k] > atom.increment,
      endWs    |-> end > i /\ Ws(D[end - 1]),
      indented |-> block /\ IF chompAt <= Len(D) THEN Ws(D[chompAt])
                            ELSE atom.endsEof /\ end > i /\ i + atom.increment = end /\ Ws(D[end - 1]),
      lbEnd    |-> looked.found \/ atom.endsEof,
      backslash |-> atom.style = "double" /\ nwsEnd > nwsStart /\ D[nwsEnd - 1] = "\\"
                      /\ (nwsEnd - nwsStart <= 1 \/ D[nwsEnd - 2] # "\\")]
ScannedLine(atom, i) == LineOf(atom, i, Looked(atom, i))

LineAt(atom, i)  == IF Whole(atom) THEN WholeLine(atom, i) ELSE ScannedLine(atom, i)
NextStart(atom, line) == After(atom.data, line.end)
HasLine(atom, i) == i <= Len(atom.data)

(***************************************************************************)
(* fy_atom_iter_line: the part of a line that is text, and whether a space *)
(* or a break follows it; next is the line after it.                       *)
(***************************************************************************)
Span(atom, line) ==
  LET nothing == line.empty /\ line.first /\ line.last
      from == CASE atom.style \in {"single", "double"} -> IF line.first THEN line.start ELSE line.nwsStart
                [] IsBlock(atom.style)                 -> line.chompAt
                [] OTHER                               -> line.nwsStart
      to   == CASE atom.style \in {"single", "double"} -> IF line.last THEN line.end ELSE line.nwsEnd
                [] IsBlock(atom.style)                 -> line.end
                [] OTHER                               -> line.nwsEnd
      cut  == nothing /\ (IsBlock(atom.style) \/ (atom.style \in {"single", "double"} /\ ~atom.oneLine))
  IN [from |-> IF cut THEN to ELSE Min({from, to}), to |-> to]

NeedsBreak(atom, line, more) ==
  CASE atom.style = "plain"   -> ~line.last /\ line.empty
    [] atom.style \in {"single", "double"} ->
         ~line.backslash /\ ((~line.last /\ ~line.first /\ line.empty) \/ (more /\ atom.empty /\ ~line.first))
    [] atom.style = "literal" -> TRUE
    [] OTHER -> FALSE
(* Mutant: the line after it is not looked at.                              *)
FoldedBreakBehind(line, more, next) ==
  ~line.last /\ (line.empty \/ line.indented \/ line.breaksWs)
FoldedBreak(line, more, next) ==
  ~line.last /\ (line.empty \/ line.indented \/ line.breaksWs \/ (more /\ next.indented))

NeedsSpace(atom, line, more, next) ==
  CASE atom.style = "plain"  -> more /\ ~next.empty
    [] atom.style \in {"single", "double"} ->
         ~line.backslash /\ (\/ more /\ (~next.empty \/ next.final)
                             \/ ~more /\ line.last /\ atom.atColumn0)
    [] atom.style = "folded" -> more /\ ~next.indented /\ ~next.empty
    [] OTHER -> FALSE

(***************************************************************************)
(* fy_atom_iter_format: the text of a line.  A quote counts when another   *)
(* one follows it.                                                         *)
(***************************************************************************)
SingleText(cs) ==
  FoldAt(LAMBDA text, k : IF cs[k] # "'" \/ CharAt(cs, k + 1) = "'" THEN Append(text, cs[k]) ELSE text,
                 <<>>, cs)

DoubleText(cs) ==
  LET Unit(done, k) ==
        IF k < done.next \/ ~done.ok THEN done
        ELSE IF cs[k] # "\\" THEN [done EXCEPT !.text = Append(@, cs[k]), !.next = k + 1]
        ELSE IF k = Len(cs) THEN done
        ELSE LET escape == Escape(cs, k)
             IN IF escape.value = "none" THEN [done EXCEPT !.ok = FALSE]
                ELSE [done EXCEPT !.text = Append(@, escape.value), !.next = k + escape.size]
  IN FoldAt(Unit, [text |-> <<>>, next |-> 1, ok |-> TRUE], cs)

(* The lines after the last one that has text, of a block scalar: breaks    *)
(* wait until something follows them, unless all are kept.                  *)
LineTrails(atom, done, line) ==
  LET rest == IF ~atom.empty THEN SubSeq(atom.data, line.chompAt, line.end - 1) ELSE <<>>
      lb   == IF line.lbEnd THEN 1 ELSE 0
      next == NextStart(atom, line)
  IN IF atom.chomp = "keep"
     THEN [at |-> next, pending |-> 0, known |-> TRUE, text |-> done.text \o rest \o [k \in 1..lb |-> LF]]
     ELSE LET out == IF rest = <<>> THEN <<>> ELSE [k \in 1..done.pending |-> LF] \o rest
              wait == IF rest = <<>> THEN done.pending ELSE 0
              more == IF atom.empty THEN 0 ELSE lb
          IN [at |-> next, pending |-> wait + more, known |-> done.known \/ more > 0, text |-> done.text \o out]
TrailingLine(atom, done) == LineTrails(atom, done, LineAt(atom, done.at))

Trailing(atom, from) ==
  Fold(LAMBDA done, c : IF HasLine(atom, done.at) THEN TrailingLine(atom, done) ELSE done, from, atom.data)

(* The end of a block scalar.  Of text that is clipped and had no break the *)
(* break to add was never stored: unset is what is there instead.           *)
Chomped(atom, line, end, unset) ==
  LET lb   == IF line.lbEnd \/ atom.endsEof THEN <<LF>> ELSE <<>>
      clip == atom.chomp = "clip" /\ (end.pending > 0 \/ atom.endsEof)
  IN IF atom.chomp = "keep"
     THEN [ok |-> TRUE, text |-> lb \o (IF atom.endsEof /\ atom.empty THEN <<>> ELSE end.text)]
     ELSE IF ~clip THEN [ok |-> TRUE, text |-> end.text]
     ELSE [ok |-> end.known \/ unset = LF, text |-> end.text \o <<LF>>]
BlockEnd(atom, line, unset) ==
  LET from == [at |-> NextStart(atom, line), pending |-> IF line.empty THEN 0 ELSE 1, known |-> ~line.empty,
               text |-> <<>>]
  IN Chomped(atom, line, Trailing(atom, from), unset)

(* The end of other text: the white space of its last line, or the breaks   *)
(* that follow it folded.                                                   *)
FlowEnd(atom, line, span) ==
  CASE line.breaks = 0 /\ line.endWs -> SubSeq(atom.data, line.nwsEnd, span.to - 1)
    [] line.breaks = 1 /\ ~line.backslash -> <<SP>>
    [] line.breaks > 1 -> [k \in 1..(line.breaks - 1) |-> LF]
    [] OTHER -> <<>>

BodyText(atom, chars) ==
  CASE atom.style = "single" -> [ok |-> TRUE, text |-> SingleText(chars)]
    [] atom.style = "double" -> DoubleText(chars)
    [] OTHER -> [ok |-> TRUE, text |-> chars]
TailText(atom, line, next, span, unset) ==
  LET more  == HasLine(atom, NextStart(atom, line))
      break == NeedsBreak(atom, line, more) \/ (atom.style = "folded" /\ FoldedBreak(line, more, next))
  IN CASE ~line.last -> [ok |-> TRUE, text |-> IF break THEN <<LF>>
                                               ELSE IF NeedsSpace(atom, line, more, next) THEN <<SP>> ELSE <<>>]
       [] IsBlock(atom.style) -> BlockEnd(atom, line, unset)
       [] OTHER -> [ok |-> TRUE, text |-> FlowEnd(atom, line, span)]
LineText(atom, line, body, tail) ==
  [ok |-> body.ok /\ tail.ok, text |-> IF body.ok THEN body.text \o tail.text ELSE body.text,
   next |-> IF line.last THEN Len(atom.data) + 1 ELSE NextStart(atom, line)]
FormatLine(atom, line, span, unset) ==
  LET chars == SubSeq(atom.data, span.from,
                      (IF line.last /\ atom.style \in {"single", "double"} THEN line.nwsEnd ELSE span.to) - 1)
  IN LineText(atom, line, BodyText(atom, chars),
              TailText(atom, line, LineAt(atom, NextStart(atom, line)), span, unset))
Spanned(atom, line, unset) == FormatLine(atom, line, Span(atom, line), unset)
Format(atom, i, unset) == Spanned(atom, [LineAt(atom, i) EXCEPT !.first = i = 1], unset)

(***************************************************************************)
(* The text of an atom: its lines, until one of them fails.                *)
(***************************************************************************)
WithLine(done, line) ==
  [ok |-> line.ok, at |-> line.next, text |-> IF line.ok THEN done.text \o line.text ELSE done.text]
Text(atom, unset) ==
  Fold(LAMBDA done, c : IF done.ok /\ HasLine(atom, done.at)
                        THEN WithLine(done, Format(atom, done.at, unset)) ELSE done,
       [ok |-> TRUE, at |-> 1, text |-> <<>>], atom.data).text

(***************************************************************************)
(* The comparison of atoms (fy_atom_cmp) is by the octets of their texts;  *)
(* those that are not direct give theirs one at a time.                    *)
(***************************************************************************)
OctetOrder ==
  <<"bel", TAB, LF, CR, SP, "!", "\"", "#", "%", "&", "'", "*", ",", "-", ".", "/", ":", ">", "?", "@", "[", "\\", "]",
    "a", "b", "h", "l", "n", "t", "u", "x", "{", "|", "}", "80", "85", "98", "9f", "a0", "a9", "c2", "c3", "f0">>
Wide == [nel |-> <<"c2", "85">>, nbsp |-> <<"c2", "a0">>, accent |-> <<"c3", "a9">>,
         astral |-> <<"f0", "9f", "98", "80">>]
Code(octet) == CHOOSE k \in DOMAIN OctetOrder : OctetOrder[k] = octet
Codes(cs)   ==
  LET octets == FlattenSeq([k \in DOMAIN cs |-> IF cs[k] \in DOMAIN Wide THEN Wide[cs[k]] ELSE <<cs[k]>>])
  IN [k \in DOMAIN octets |-> Code(octets[k])]

(* The sign of the first difference, in the manner of memcmp.               *)
Sign(a, b) == IF a > b THEN 1 ELSE IF a < b THEN -1 ELSE 0
Differences(s, t) == {k \in DOMAIN s \intersect DOMAIN t : s[k] # t[k]}
Order(s, t) ==
  LET differ == Differences(s, t)
  IN IF differ = {} THEN Sign(Len(s), Len(t)) ELSE Sign(s[Min(differ)], t[Min(differ)])

(* fy_atom_memcmp: of an atom that is not direct with data.  At the end of  *)
(* one of them it is the octet compared last that is compared once more.    *)
LastCompared(s, t) ==
  LET differ == Differences(s, t)
      n == IF differ = {} THEN Min({Len(s), Len(t)}) ELSE Min(differ)
      c  == IF differ # {} THEN s[n] ELSE IF n < Len(s) THEN s[n + 1] ELSE -1
      ct == IF n = 0 THEN -1 ELSE t[n]
  IN IF differ = {} /\ Len(s) = Len(t) THEN 0 ELSE IF ct > c THEN -1 ELSE 1
MemCmp(atom, data, unset) ==
  CASE data = <<>> -> 1
    [] data # <<>> /\ atom.direct -> Order(Codes(atom.data), Codes(data))
    [] data # <<>> /\ ~atom.direct -> LastCompared(Codes(Text(atom, unset)), Codes(data))

(* Mutant: the sign is not turned round with the atoms.                     *)
AtomCmpOneWay(a, b, unset) ==
  CASE a.direct /\ b.direct   -> Order(Codes(a.data), Codes(b.data))
    [] ~a.direct /\ b.direct  -> MemCmp(a, b.data, unset)
    [] a.direct /\ ~b.direct  -> MemCmp(b, a.data, unset)
    [] OTHER -> Order(Codes(Text(a, unset)), Codes(Text(b, unset)))
AtomCmp(a, b, unset) ==
  CASE a.direct /\ b.direct   -> Order(Codes(a.data), Codes(b.data))
    [] ~a.direct /\ b.direct  -> MemCmp(a, b.data, unset)
    [] a.direct /\ ~b.direct  -> -MemCmp(b, a.data, unset)
    [] OTHER -> Order(Codes(Text(a, unset)), Codes(Text(b, unset)))

=============================================================================
