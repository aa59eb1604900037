---------------------------- MODULE MCGuestTrace ----------------------------
(* Two traced system calls at offsets 1 and 2 of one kernel frame, one     *)
(* shadow gfn, two VCPUs and two guest threads.                            *)
EXTENDS GuestTrace

MCFrameOf == [f \in Funcs |-> "fa"]
MCOffsetOf == [f \in Funcs |-> IF f = "sys_read" THEN 1 ELSE 2]

\* The kernel may patch the first instruction byte of sys_read.
MCPatchSites == {<<"fa", 1>>}
=============================================================================
