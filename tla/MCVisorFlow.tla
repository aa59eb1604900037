---------------------------- MODULE MCVisorFlow ----------------------------
(* The VF tracer on the guest of MCGuestTrace: two traced system calls at  *)
(* offsets 1 and 2 of one kernel frame, two VCPUs and two threads.         *)
EXTENDS VisorFlow

MCFrameOf == [f \in Funcs |-> "fa"]
MCOffsetOf == [f \in Funcs |-> IF f = "sys_write" THEN 2 ELSE 1]
=============================================================================
