---------------------------- MODULE MCFyDocument ----------------------------
EXTENDS FyDocument

T(kind, anchor, style, text, kids) == [kind |-> kind, anchor |-> anchor, style |-> style, text |-> text, kids |-> kids]
S(text) == T("scalar", None, "plain", text, <<>>)
Al(name) == T("alias", None, "alias", name, <<>>)
Q(kids) == T("sequence", None, "flow", NoText, kids)
M(kids) == T("mapping", None, "flow", NoText, kids)
On(name, t) == [t EXCEPT !.anchor = name]
x == S(1)
y == S(2)
z == S(3)
mk == S(MergeText)

Parts ==
  { Al(11), On(11, x), On(12, Q(<<Al(11)>>)), On(11, Q(<<Al(12), Al(12)>>)),
    On(11, Q(<<Al(11)>>)), On(11, M(<< <<x, y>> >>)), On(12, M(<< <<y, Al(11)>>, <<x, z>> >>)),
    M(<< <<mk, Al(11)>>, <<x, x>> >>), M(<< <<x, x>>, <<mk, Q(<<Al(11), Al(12)>>)>> >>),
    On(11, M(<< <<y, y>>, <<mk, Al(12)>> >>)), M(<< <<mk, On(11, Q(<<Al(12)>>))>> >>), 
    M(<< <<mk, Al(12)>>, <<Al(11), z>> >>), M(<< <<Al(11), z>>, <<x, y>> >>),
    On(12, M(<< <<Q(<<Al(11)>>), On(11, z)>> >>)), On(12, Q(<<On(11, y), Al(11)>>)),
    M(<< <<[mk EXCEPT !.style = "quoted"], Al(11)>> >>) }
Keys == {x, Q(<<x>>), Q(<<>>), M(<< <<x, y>> >>), M(<< <<Q(<<x, Al(11)>>), Q(<<y>>)>>, <<y, x>> >>),
         M(<< <<M(<< <<Q(<<y>>), x>> >>), z>> >>), Al(11), M(<< <<x, x>>, <<x, x>> >>)}
Streamed == {x, M(<< <<mk, x>> >>), M(<< <<mk, M(<<>>)>> >>), Q(<<M(<< <<mk, Q(<<>>)>> >>)>>),
             M(<< <<mk, M(<< <<x, Q(<<y>>)>> >>)>>, <<y, mk>>, <<mk, M(<< <<z, y>> >>)>> >>),
             M(<< <<x, On(12, M(<< <<y, y>> >>))>>, <<On(11, y), M(<< <<z, x>>, <<mk, Q(<<Al(12), M(<< <<y, z>>, <<x, On(11, z)>> >>)>>)>> >>)>> >>)}
(* Collections at the depth limit, empty or not; and keys with two like keys.  *)
AtLimit ==
  {Q(<<Q(<<Q(<<t>>)>>)>>) : t \in {Q(<<Q(<<>>)>>), Q(<<M(<<>>)>>), Q(<<Q(<<x>>)>>), Q(<<x, Q(<<Q(<<>>)>>)>>), M(<< <<Q(<<>>), x>> >>),
                                   M(<< <<x, M(<<>>)>>, <<x, y>> >>), M(<< <<x, y>>, <<x, M(<<>>)>> >>)}} \cup
  {M(<< <<k, y>> >>) : k \in {M(<< <<Q(<<x>>), x>>, <<Q(<<y>>), y>> >>), Q(<<M(<< <<M(<<>>), x>>, <<y, z>>, <<M(<< <<x, y>> >>), y>> >>)>>),
                               M(<< <<Q(<<x>>), x>>, <<M(<<>>), y>> >>), M(<< <<x, Q(<<x>>)>>, <<y, Q(<<>>)>> >>)}}
Deep == {M(<< <<k, v>>, <<l, v>> >>) : k, l \in Keys, v \in {x, Q(<<x, Q(<<>>)>>)}} \cup {Q(<<M(<< <<k, Q(<<>>)>> >>)>>) : k \in Keys}
MCEdits == {Q(<<x, y>>), M(<< <<x, y>>, <<y, Q(<<x>>)>> >>), Q(<<On(11, x), M(<< <<x, z>> >>)>>),
            M(<< <<Q(<<y>>), x>>, <<Q(<<x>>), y>>, <<x, M(<<>>)>> >>)}
MCDocuments == {Q(<<a, b, c>>) : a, b, c \in Parts} \cup Deep \cup AtLimit \cup Streamed \cup MCEdits
=============================================================================
