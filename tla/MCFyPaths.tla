----------------------------- MODULE MCFyPaths -----------------------------
EXTENDS FyPaths

T(kind, anchor, style, text, kids) == [kind |-> kind, anchor |-> anchor, style |-> style, text |-> text, kids |-> kids]
S(text) == T("scalar", None, "plain", text, <<>>)
N(n) == S(n + 1)                        \* the texts 0 to 3 are the numbers 1 to 4
Al(name) == T("alias", None, "alias", name, <<>>)
Q(kids) == T("sequence", None, "flow", NoText, kids)
M(kids) == T("mapping", None, "flow", NoText, kids)
On(name, t) == [t EXCEPT !.anchor = name]
Quoted(t) == [t EXCEPT !.style = "quoted"]
a == 11
b == 12
c == 13
x == 20
y == 21
merge == S(MergeText)
MCNumberText == [t \in 1 .. 4 |-> t - 1]
MCMethodOf == (14 :> "key") @@ (15 :> "select")
MCConcat(p, q) == 99

MCDocuments ==
  { M(<< <<S(a), M(<< <<S(b), N(1)>>, <<S(c), Q(<<N(1), N(2), M(<< <<S(a), N(3)>> >>)>>)>> >>)>>, <<S(b), N(2)>>,
         <<S(c), Q(<<Q(<<S(a)>>), S(b)>>)>> >>),
    M(<< <<S(x), On(x, M(<< <<S(a), N(1)>>, <<S(b), Q(<<N(2)>>)>> >>))>>, <<S(y), On(y, M(<< <<S(a), N(3)>>, <<S(c), N(1)>> >>))>>,
         <<S(c), M(<< <<merge, Al(x)>>, <<S(b), N(3)>> >>)>>, <<S(b), M(<< <<merge, Q(<<Al(y), Al(x)>>)>> >>)>>, <<S(a), Al(x)>> >>),
    Q(<<N(1), Quoted(N(1)), Q(<<N(3), N(1)>>), M(<< <<S(a), Q(<<N(1), M(<< <<S(b), S(a)>> >>)>>)>>, <<N(1), N(2)>> >>), On(x, M(<<>>)), Al(x)>>),
    M(<< <<Q(<<S(a), M(<< <<S(b), N(2)>> >>)>>), M(<< <<S(c), N(1)>> >>)>>, <<M(<< <<S(a), N(1)>> >>), Q(<<N(2)>>)>>, <<Quoted(N(1)), S(c)>>,
         <<On(x, Q(<<S(a)>>)), M(<< <<S(c), N(2)>> >>)>> >>),
    Q(<<On(x, M(<< <<S(a), N(1)>> >>)), Al(x), On(x, M(<< <<S(a), N(2)>>, <<S(b), Q(<<On(y, Q(<<N(1)>>))>>)>> >>)), M(<< <<S(a), Al(x)>> >>)>>),
    M(<< <<S(a), On(x, M(<< <<S(a), On(y, M(<< <<S(b), N(1)>> >>))>> >>))>>, <<S(c), Q(<<Al(y), Al(x)>>)>> >>) }

Steps1 == {<<"key", a>>, <<"key", b>>, <<"key", c>>, <<"index", 0>>, <<"index", 1>>, <<"children">>, <<"below">>, <<"this">>, <<"up">>,
          <<"quoted", b>>, <<"slice", 0, 2>>, <<"slice", 1, 3>>, <<"either", <<<<"key", a>>, <<"key", c>>>>>>, <<"either", <<<<"index", 0>>, <<"key", b>>>>>>}
Steps2 == {<<"key", a>>, <<"key", b>>, <<"children">>, <<"up">>, <<"index", 0>>}
Short == {<<"path", <<s>>>> : s \in Steps1} \cup {<<"from root", <<s>>>> : s \in Steps1}
Rooted == {<<"from root", <<>>>>} \cup {<<"from root", <<s, t>>>> : s, t \in Steps1} \cup {<<"from root", <<s, t, u>>>> : s, t \in Steps2, u \in Steps1}
Sides == {<<k, <<s>>>> : k \in {"path", "from root"}, s \in Steps2} \cup {<<"from root", <<s, t>>>> : s \in Steps2, t \in {<<"key", a>>, <<"children">>}}
Scalars == {<<"number", 1>>, <<"number", 2>>, <<"text", a>>, <<"quoted", a>>}
Sums == {<<"plus", <<"number", 1>>, <<"number", 1>>>>, <<"minus", <<"minus", <<"number", 3>>, <<"number", 1>>>>, <<"number", 1>>>>,
         <<"minus", <<"number", 3>>, <<"mult", <<"number", 2>>, <<"number", 1>>>>>>, <<"plus", <<"mult", <<"number", 1>>, <<"number", 2>>>>, <<"number", 1>>>>}
Operators == {"eq", "neq", "lt", "gt", "lte", "gte"}
Comparisons1 == {<<"compare", op, l, s>> : op \in Operators, l \in Sides, s \in {<<"number", 1>>, <<"number", 2>>}}
           \cup {<<"compare", op, l, s>> : op \in {"eq", "neq"}, l \in Sides, s \in Scalars \cup Sums}
Conditions == {<<"compare", op, <<"from root", <<s>>>>, <<"number", 1>>>> : op \in {"eq", "neq"}, s \in Steps2}
Others == {<<k, <<s>>>> : k \in {"path", "from root"}, s \in {<<"key", b>>, <<"children">>, <<"up">>}} \cup
          {c1 \in Conditions : c1[2] = "neq"} \cup {<<"from root", <<s, <<"key", a>>>>>> : s \in Steps2}
Alternatives == {<<op, l, r>> : op \in {"or", "and"}, l \in Sides \cup Conditions, r \in Others}
Filtered == {<<"only", l, k>> : l \in Sides, k \in {"scalar", "collection", "sequence", "mapping"}}
Inner == {<<"compare", op, l, s>> : op \in {"eq", "neq", "gt"}, s \in {<<"number", 1>>, <<"minus", <<"number", 3>>, <<"number", 2>>>>},
            l \in {<<"path", <<<<"this">>>>>>, <<"path", <<<<"this">>, <<"key", a>>>>>>, <<"path", <<<<"this">>, <<"key", b>>, <<"index", 0>>>>>>,
                  <<"from root", <<<<"key", b>>>>>>, <<"path", <<<<"this">>, <<"children">>>>>>}}
Chosen == {<<"from root", p \o <<<<m, i>>>>>> : p \in {<<<<"children">>>>, <<<<"key", a>>>>, <<<<"key", a>>, <<"children">>>>, <<<<"below">>>>}, m \in {"select", "where"}, i \in Inner}
Onwards == {<<"from root", <<<<"children">>, <<"where", i>>, s>>>> : s \in Steps2, i \in Inner}
     \cup {<<"from root", <<<<"children">>, <<"select", i>>, s>>>> : s \in Steps2, i \in Inner}
MCExpressions == Chosen \cup Onwards \cup Short \cup Rooted \cup Comparisons1 \cup Alternatives \cup Filtered
RouteSteps == {<<"name", a>>, <<"name", b>>, <<"name", c>>, <<"digits", <<0>>>>, <<"digits", <<1>>>>, <<"quote", b>>}
MCRoutes == {<<s>> : s \in RouteSteps} \cup {<<s, t>> : s, t \in RouteSteps} \cup {<<s, t, u>> : s, t, u \in RouteSteps}
=============================================================================
