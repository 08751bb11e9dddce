---------------------------- MODULE MCFyThreadPool ----------------------------
(***************************************************************************)
(* Trees of works for FyThreadPool: a join of three works, of which one    *)
(* joins two more, a join of three by the only work of a join, and a join  *)
(* of two whose second joins two more.                                     *)
(***************************************************************************)
EXTENDS FyThreadPool

MCWorks == {"a", "b", "c", "d", "e", "f", "g", "h", "i", "j"}
MCChildren ==
  [w \in MCWorks |->
     CASE w = "a" -> <<"b", "c", "d">>
       [] w = "c" -> <<"e", "f">>
       [] w = "g" -> <<"b", "c">>
       [] w = "h" -> <<"i">>
       [] w = "j" -> <<"f", "i">>
       [] w = "i" -> <<"b", "d", "e">>
       [] OTHER   -> <<>>]
MCStandardAndSteal == {<<TRUE, "a">>, <<TRUE, "j">>, <<FALSE, "g">>, <<FALSE, "h">>}
MCSteal == {<<TRUE, "a">>}

===============================================================================
