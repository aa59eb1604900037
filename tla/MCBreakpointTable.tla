------------------------- MODULE MCBreakpointTable --------------------------
(* Two symbols sharing frame fa (as sys_read and sys_write often do) and a *)
(* third in frame fb, two shadow gfns.                                     *)
EXTENDS BreakpointTable

MCFrameOf == [f \in Funcs |-> IF f = "sys_close" THEN "fb" ELSE "fa"]
MCOffsetOf == [f \in Funcs |-> IF f = "sys_write" THEN 2 ELSE 1]
=============================================================================
