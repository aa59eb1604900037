----------------------------- MODULE VisorFlow -----------------------------
(***************************************************************************)
(* The standalone tracer of trace_syscalls.c ("VisorFlow", vf_ names): main *)
(* sets everything up with the guest paused, listens until a signal or a  *)
(* listen error, then tears down with vf_teardown_state and vmi_destroy.   *)
(* Its breakpoint table (vf_setup_mem_trap, vf_destroy_page_record) is the *)
(* same as the library's, so BreakpointTable is reused; the guest, its     *)
(* events and the history variables are those of GuestTrace.  What differs *)
(* is modelled here: the start-up order of main, the unchecked read of the *)
(* return slot in vf_breakpoint_cb, the step events registered from a      *)
(* stack copy, and teardown at process exit.                               *)
(***************************************************************************)
EXTENDS GuestTrace

\* main up to vmi_pause_vm: vmi_init and three empty tables.  There is no
\* gt_loop_new: the rest of the setup is VfStart.
VfInit ==
  /\ InitIn("new")
  /\ domid = "guest"
  /\ xch = TRUE
  /\ initMem = InitMemSize

\* vf_paddr_record_from_pa: frame -> shadow -> page record -> child.
VfPaddrRecordFromPa(frame, off) == RecordAt(frame, off)

\* vf_setup_mem_trap: the body is that of gt_setup_mem_trap, line for line.
VfSetupMemTrap(t, f) == SetupMemTrap(t, f)

(***************************************************************************)
(* vf_find_syscalls_and_setup_mem_traps: each traced system call in turn;  *)
(* a symbol that does not resolve is skipped, a failed trap ends the loop *)
(* with FALSE and the traps set so far stay in the tables.                 *)
(***************************************************************************)
RECURSIVE VfFindSyscallsAndSetupMemTraps(_, _)
VfFindSyscallsAndSetupMemTraps(t, fs) ==
  IF fs = {} THEN {[tab |-> t, ok |-> TRUE]}
  ELSE LET f == CHOOSE g \in fs : TRUE
           rest == fs \ {f}
       IN     OnFailure("symbol", VfFindSyscallsAndSetupMemTraps(t, rest))
         \cup UNION { IF out.ok THEN VfFindSyscallsAndSetupMemTraps(out.tab, rest)
                      ELSE {[tab |-> out.tab, ok |-> FALSE]}
                    : out \in VfSetupMemTrap(t, f) }

\* vf_init_state ends with xc_altp2m_switch_to_view(shadow_view): every
\* VCPU runs in the shadow view from before the first trap is set.
VfInitState == [v \in VCPUS |-> SHADOW]

(***************************************************************************)
(* main, from vmi_pause_vm to the listen loop: vf_init_state (which ends  *)
(* by switching every VCPU to the shadow view), vf_set_up_step_events,     *)
(* vf_set_up_generic_events, the traps, the return point and the           *)
(* trampoline.  Any failure resumes the guest and goes to "done", leaving *)
(* it running with what was set up and nobody listening.                   *)
(***************************************************************************)
VfStart ==
  /\ phase = "new"
  /\ \/ /\ "switchview" \in Failable
        /\ phase' = "stopped"
        /\ UNCHANGED <<ctorVars, tableVars, view, listening>>
     \/ /\ "setup" \in Failable
        /\ view' = VfInitState
        /\ phase' = "stopped"
        /\ UNCHANGED <<ctorVars, tableVars, listening>>
     \/ \E out \in VfFindSyscallsAndSetupMemTraps(Tab, Funcs) :
          /\ SetTab(out.tab)
          /\ view' = VfInitState
          /\ \/ /\ out.ok
                /\ phase' = "running"
                /\ listening' = TRUE
             \/ /\ ~out.ok \/ "setup" \in Failable
                /\ phase' = "stopped"
                /\ UNCHANGED listening
  /\ UNCHANGED <<ctorVars, registered, origMem, torn, paused, retmap, open, histVars,
                 ss, ev, ring, oncpu, scan, pc, fn, slot>>

\* The remaining failure of main: vmi_events_listen returns an error.
VfListenError ==
  /\ "listen" \in Failable
  /\ phase = "running"
  /\ listening
  /\ listening' = FALSE
  /\ phase' = "stopped"
  /\ UNCHANGED <<ctorVars, bptVars, guestVars, paused, retmap, open, histVars>>

\* vf_close_handler sets vf_interrupted; the loop leaves after the current
\* vmi_events_listen returns.
VfSignal ==
  /\ phase = "running"
  /\ listening
  /\ listening' = FALSE
  /\ phase' = "stopped"
  /\ UNCHANGED <<ctorVars, bptVars, guestVars, paused, retmap, open, histVars>>

\* vf_destroy_page_record, the destroy notify of vf_page_record_collection:
\* vf_destroy_paddr_record -> vf_remove_breakpoint per child, clear the
\* mem event, change_gfn on the shadow page (not the frame), and
\* decrease_reservation; the same steps as gt_destroy_page_record.
VfDestroyPageRecord(t, s) == DestroyPageRecord(t, s)

\* vf_restore_return_addr over vf_ret_addr_mapping: return_point_addr is
\* written back into every recorded slot; the table is then destroyed.
VfRestoreReturnAddr == DrainRetmap

(***************************************************************************)
(* vf_teardown_state: destroy the page records (vf_destroy_page_record per *)
(* record) and the translation table, vf_restore_return_addr on every     *)
(* entry of vf_ret_addr_mapping, destroy it, switch to view 0, destroy the *)
(* view, disable altp2m and reset maxmem to init_mem_size (in bytes).     *)
(***************************************************************************)
VfTeardownState(t) ==
  LET live == {s \in ShadowFrames : t.pageFrame[s] # NONE} IN
  [FoldSet(LAMBDA s, acc : VfDestroyPageRecord(acc, s), t, live)
     EXCEPT !.translation = [f \in Frames |-> NONE], !.curMem = 0,
            !.maxmem = InitMemSize]

\* Mutant: vmi_destroy is never reached, so the events stay registered
\* and the VCPUs waiting on them are never released.
VfExitNoDestroy ==
  /\ phase = "stopped"
  /\ SetTab(VfTeardownState(Tab))
  /\ torn' = TRUE
  /\ VfRestoreReturnAddr
  /\ view' = [v \in VCPUS |-> VIEW0]
  /\ ss' = [v \in VCPUS |-> FALSE]
  /\ paused' = FALSE
  /\ phase' = "freed"
  /\ UNCHANGED <<ctorVars, registered, origMem, listening, histVars, oncpu, scan, pc, fn, ev, ring>>

\* Mutant: the g_hash_table_foreach over vf_ret_addr_mapping is left out.
VfExitKeepCalls ==
  /\ phase = "stopped"
  /\ SetTab(VfTeardownState(Tab))
  /\ torn' = TRUE
  /\ view' = [v \in VCPUS |-> VIEW0]
  /\ ss' = [v \in VCPUS |-> FALSE]
  /\ ev' = [v \in VCPUS |-> "none"]
  /\ ring' = <<>>
  /\ paused' = FALSE
  /\ phase' = "freed"
  /\ UNCHANGED <<ctorVars, registered, origMem, listening, histVars, oncpu, scan, pc, fn, retmap, open, slot>>

\* main's "done": pause, vf_teardown_state, resume, vmi_destroy (which
\* unregisters the events and releases the VCPUs waiting on them), exit.
VfExit ==
  /\ phase = "stopped"
  /\ SetTab(VfTeardownState(Tab))
  /\ torn' = TRUE
  /\ VfRestoreReturnAddr
  /\ view' = [v \in VCPUS |-> VIEW0]
  /\ ss' = [v \in VCPUS |-> FALSE]
  /\ ev' = [v \in VCPUS |-> "none"]
  /\ ring' = <<>>
  /\ paused' = FALSE
  /\ phase' = "freed"
  /\ UNCHANGED <<ctorVars, registered, origMem, listening, histVars, oncpu, scan, pc, fn>>
(***************************************************************************)
(* Dispatcher of the VF variant.                                           *)
(***************************************************************************)
\* Mutant: the trampoline address is never written to the stack.
VfBreakpointCallNoWrite(v) ==
  LET t == oncpu[v]
      rec == VfPaddrRecordFromPa(FrameOf[fn[t]], OffsetOf[fn[t]])
  IN
  /\ pc[t] = "entry"
  /\ rec # NONE
  /\ view' = [view EXCEPT ![v] = VIEW0]
  /\ ss' = [ss EXCEPT ![v] = ~@]
  /\ open' = [open EXCEPT ![t] = IF slot[t] = "R" THEN @ + 1 ELSE @]
  /\ retmap' = [retmap EXCEPT ![t] = IF slot[t] = "R" THEN rec ELSE @]
  /\ UNCHANGED <<ctorVars, pc, crashIn, slot, fn>>

(***************************************************************************)
(* vf_breakpoint_cb, type-one breakpoint.  No record: reinject and         *)
(* EMULATE, so the guest's own #BP handler kills the thread.  Otherwise    *)
(* vmi_read_64_pa reads the word at rsp into ret_addr without checking its *)
(* status: when the read fails ret_addr is whatever the stack held.  When *)
(* ret_addr is return_point_addr: print_syscall, write the trampoline     *)
(* address and g_hash_table_insert.  Always view 0 and TOGGLE_SINGLESTEP.  *)
(***************************************************************************)
VfBreakpointCall(v) ==
  LET t == oncpu[v]
      rec == VfPaddrRecordFromPa(FrameOf[fn[t]], OffsetOf[fn[t]])
  IN
  /\ pc[t] = "entry"
  /\ IF rec = NONE
     THEN /\ Crash(t)
          /\ UNCHANGED <<ctorVars, view, ss, retmap, open, slot>>
     ELSE \E retAddr \in {slot[t]} \cup OnFailure("readret", Words) :
          /\ view' = [view EXCEPT ![v] = VIEW0]
          /\ ss' = [ss EXCEPT ![v] = ~@]
          /\ IF retAddr = "R"
             THEN /\ open' = [open EXCEPT ![t] = @ + 1]
                  /\ retmap' = [retmap EXCEPT ![t] = rec]
                  /\ slot' = [slot EXCEPT ![t] = "T"]
             ELSE UNCHANGED <<ctorVars, open, retmap, slot>>
          /\ UNCHANGED <<ctorVars, pc, crashIn>>
  /\ UNCHANGED fn

(***************************************************************************)
(* vf_breakpoint_cb, type-two breakpoint (gla = trampoline_addr): thread   *)
(* id rsp - 8.  With a record: print_sysret, write return_point_addr into *)
(* the slot, RIP := return_point_addr, g_hash_table_remove (no destroy    *)
(* notify in this variant).  Without one nothing happens.                  *)
(***************************************************************************)
VfBreakpointReturn(v) ==
  LET t == oncpu[v] IN
  /\ pc[t] = "tramp"
  /\ IF retmap[t] # NONE
     THEN /\ open' = [open EXCEPT ![t] = @ - 1]
          /\ pc' = [pc EXCEPT ![t] = "user"]
          /\ fn' = [fn EXCEPT ![t] = NONE]
          /\ retmap' = [retmap EXCEPT ![t] = NONE]
          /\ slot' = [slot EXCEPT ![t] = "R"]
     ELSE UNCHANGED <<ctorVars, open, pc, fn, retmap, slot>>
  /\ UNCHANGED <<ctorVars, view, ss, crashIn>>

VfBreakpointCb(v) ==
  /\ Deliver(v, "int3")
  /\ VfBreakpointCall(v) \/ VfBreakpointReturn(v)
  /\ UNCHANGED <<ctorVars, bptVars, phase, paused, listening, oncpu, scan, readBad, writeLost>>

\* vf_mem_rw_cb: slat_id 0 and TOGGLE_SINGLESTEP.
VfMemRwCb(v) ==
  /\ Deliver(v, "mem")
  /\ view' = [view EXCEPT ![v] = VIEW0]
  /\ ss' = [ss EXCEPT ![v] = ~@]
  /\ UNCHANGED <<ctorVars, bptVars, loopVars, histVars, oncpu, scan, pc, fn, slot>>

\* Mutant: the step response lacks VMM_PAGETABLE_ID.
VfSinglestepCbNoSwitch(v) ==
  /\ Deliver(v, "step")
  /\ ss' = [ss EXCEPT ![v] = ~@]
  /\ UNCHANGED <<ctorVars, bptVars, loopVars, histVars, view, oncpu, scan, pc, fn, slot>>

\* vf_singlestep_cb: slat_id := shadow_view and TOGGLE_SINGLESTEP.
VfSinglestepCb(v) ==
  /\ Deliver(v, "step")
  /\ view' = [view EXCEPT ![v] = SHADOW]
  /\ ss' = [ss EXCEPT ![v] = ~@]
  /\ UNCHANGED <<ctorVars, bptVars, loopVars, histVars, oncpu, scan, pc, fn, slot>>

(***************************************************************************)
(* vf_set_up_step_events registers &curr, a copy of step_event[vcpu] on    *)
(* the function's own stack, for every VCPU.  libvmi keeps the pointer;   *)
(* by the time a step event arrives that stack has been reused.  When the *)
(* stale event does not happen to still hold vf_singlestep_cb, dispatching *)
(* it kills the tracer: no teardown runs, the events stay registered and  *)
(* nobody reads the ring.                                                  *)
(***************************************************************************)
VfStepEventStale(v) ==
  /\ "stepevent" \in Failable
  /\ listening
  /\ ring # <<>>
  /\ Head(ring) = v
  /\ ev[v] = "step"
  /\ phase' = "dead"
  /\ listening' = FALSE
  /\ UNCHANGED <<ctorVars, bptVars, guestVars, paused, retmap, open, histVars>>

VfNext ==
  \/ VfStart \/ VfListenError \/ VfSignal \/ VfExit
  \/ \E v \in VCPUS :
       VfBreakpointCb(v) \/ VfMemRwCb(v) \/ VfSinglestepCb(v) \/ VfStepEventStale(v)
  \/ GuestEnv

\* main runs its own steps to completion (start-up, and "done" once it is
\* reached), and its listen loop runs every callback while it listens.
\* Nothing is assumed of the guest, of signals, or of failures.
VfFairness ==
  /\ WF_vars(VfStart)
  /\ WF_vars(VfExit)
  /\ \A v \in VCPUS :
       /\ WF_vars(VfBreakpointCb(v))
       /\ WF_vars(VfMemRwCb(v))
       /\ WF_vars(VfSinglestepCb(v))

VfSpec == VfInit /\ [][VfNext]_vars /\ VfFairness

-----------------------------------------------------------------------------
(***************************************************************************)
(* Every VCPU that traps into the tracer is eventually released: by its    *)
(* callback while main listens, or by vmi_destroy at exit.  A VCPU never   *)
(* stays paused on an event for good, whatever the tracer's fate.          *)
(***************************************************************************)
VfEventsReleased ==
  \A v \in VCPUS : ev[v] # "none" ~> ev[v] = "none"

(***************************************************************************)
(* The tracer's own paths release every trapped VCPU: a VCPU paused on an  *)
(* event is eventually resumed, by its callback while main listens or by  *)
(* vmi_destroy at exit, unless the process died first.                     *)
(***************************************************************************)
VfReleasedByTracer ==
  \A v \in VCPUS : ev[v] # "none" ~> (ev[v] = "none" \/ phase = "dead")

=============================================================================
