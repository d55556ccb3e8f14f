----------------------------- MODULE MCFileEdit -----------------------------
(* Texts of two tokens, in which an edit finds one match, two or none, and *)
(* edit lists whose second edit fails, succeeds, or meets the first: it    *)
(* finds what the first has made, or no longer finds what that replaced.   *)
EXTENDS FileEdit

MCTexts == { <<"x", "y">>, <<"x", "x">> }
E(o, n) == [old |-> o, new |-> n]
MCEditLists == { << E("x", "z") >>, << E("x", "x") >>, << E("x", "z"), E("y", "w") >>,
                 << E("x", "z"), E("z", "w") >>, << E("x", "z"), E("x", "w") >> }
=============================================================================
