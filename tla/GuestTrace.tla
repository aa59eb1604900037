----------------------------- MODULE GuestTrace -----------------------------
(***************************************************************************)
(* The stealth breakpoint engine of trace-syscalls.c running against a     *)
(* guest: the loop controller (gt_loop_set_cb, gt_loop_run, gt_loop_quit,  *)
(* gt_loop_free), the trap dispatcher (gt_breakpoint_cb, gt_mem_rw_cb,     *)
(* gt_singlestep_cb), the call-state tracker gt_ret_addr_mapping and the   *)
(* breakpoint table of BreakpointTable.                                    *)
(*                                                                         *)
(* The guest is the environment: threads on VCPUS enter traced functions   *)
(* through the system-call handler (which pushes the canonical return      *)
(* address R) or by a direct kernel call (which pushes another address),   *)
(* return through the word in their return slot, and an integrity scanner  *)
(* reads monitored frames.  A VCPU that raises an event waits, paused, for *)
(* the one listener to handle it; events reach the listener in the order   *)
(* they were raised (the vm_event ring).  Each handler runs atomically: it *)
(* reads and writes only the paused VCPU's registers and stack slot and    *)
(* tracer state.                                                           *)
(***************************************************************************)
EXTENDS BreakpointTable, Sequences, Functions

CONSTANTS
  VCPUS,     \* virtual CPUs of the guest
  THREADS,   \* guest threads; a thread's id is its entry stack pointer
  MaxOpen,   \* bound on entry callbacks not yet paired (state constraint)
  PatchSites, \* <<frame, offset>> code bytes the guest kernel may patch
  NoReturn   \* traced functions that never return (exit, exit_group)

\* View ids: the unmodified view is always 0; loop->shadow_view.
VIEW0 == 0
SHADOW == 1

\* Words a return slot can hold: loop->return_addr, loop->trampoline_addr,
\* or a return address into other kernel code.
Words == {"R", "T", "X"}

\* "dead": the tracer process died without tearing down (VisorFlow).
\* "init": before gt_loop_new has returned.
Phases == {"init", "new", "running", "stopped", "quit", "freed", "dead"}
EventKinds == {"none", "int3", "mem", "step"}
PCs == {"user", "entry", "body", "tramp", "crashed"}

VARIABLES
  phase,      \* loop lifecycle; "stopped" = gt_loop_run returned early
  paused,     \* vmi_pause_vm in effect (libvmi does not nest pauses)
  listening,  \* gt_loop_run is inside its vmi_events_listen loop
  view,       \* active SLAT view of each VCPU
  ss,         \* single-step enabled on each VCPU
  ev,         \* event each VCPU is paused on, "none" if it runs
  ring,       \* VCPUs with an undelivered event, oldest first
  oncpu,      \* thread running on each VCPU, or NONE
  scan,       \* the access a VCPU's trapped instruction redoes, or NONE
  pc,         \* where each thread is: user, at a traced entry, in its body,
              \* at the trampoline INT 3 after returning, or crashed
  fn,         \* traced function the thread is calling, or NONE
  slot,       \* the word in the thread's return slot (at its thread id)
  retmap,     \* gt_ret_addr_mapping: thread -> record that fired, or NONE
  open,       \* entry callbacks minus return callbacks minus drains
  readBad,    \* phases in which a guest read saw non-original bytes
  crashIn,    \* phases in which a guest thread crashed
  writeLost,  \* phases in which a guest write missed the original frame
  domid,      \* loop->domid: "dom0" (0, as g_new0 leaves it), "guest", or
              \* "none" (~0u, no such domain)
  xch,        \* loop->xch is an open xc interface (FALSE: NULL)
  initMem,    \* loop->init_mem_size, in bytes
  dom0Maxmem  \* dom0's max memory in Xen, in KiB

guestVars == <<view, ss, ev, ring, oncpu, scan, pc, fn, slot>>
loopVars == <<phase, paused, listening, retmap, open>>
histVars == <<readBad, crashIn, writeLost>>
ctorVars == <<domid, xch, initMem, dom0Maxmem>>
vars == <<bptVars, guestVars, loopVars, histVars, ctorVars>>

\* dom0's max memory before the tracer runs: any value but 0 will do.
DOM0_MAXMEM_KIB == 1024

\* The state of the tracer and the guest with the loop in the given phase.
InitIn(p) ==
  /\ TableInit
  /\ phase = p
  /\ paused = FALSE
  /\ listening = FALSE
  /\ view = [v \in VCPUS |-> VIEW0]
  /\ ss = [v \in VCPUS |-> FALSE]
  /\ ev = [v \in VCPUS |-> "none"]
  /\ ring = <<>>
  /\ oncpu = [v \in VCPUS |-> NONE]
  /\ scan = [v \in VCPUS |-> NONE]
  /\ pc = [t \in THREADS |-> "user"]
  /\ fn = [t \in THREADS |-> NONE]
  /\ slot = [t \in THREADS |-> "X"]
  /\ retmap = [t \in THREADS |-> NONE]
  /\ open = [t \in THREADS |-> 0]
  /\ readBad = {}
  /\ crashIn = {}
  /\ writeLost = {}
  /\ dom0Maxmem = DOM0_MAXMEM_KIB

\* Before gt_loop_new: loop = g_new0(GTLoop, 1), so domid 0, xch NULL and
\* init_mem_size 0.
Init ==
  /\ InitIn("init")
  /\ domid = "dom0"
  /\ xch = FALSE
  /\ initMem = 0

\* The interrupt, mem-access and step events are registered from
\* gt_loop_run's setup until gt_loop_free's vmi_destroy.
\* A dead tracer never unregisters them: its VCPUs wait on a ring nobody reads.
EventsRegistered == phase \in {"running", "stopped", "quit", "dead"}

\* What a VCPU executes at gfn-offset (frame, off) through its view.
ExecByte(v, frame, off) ==
  LET g == slat[frame] IN
  IF view[v] = VIEW0 \/ g = frame THEN origMem[frame][off]
  ELSE IF g \notin populated THEN "freed"
  ELSE shadowMem[g][off]

\* A read of frame through the VCPU's view returns the original frame's
\* current bytes.
ReadsOriginal(v, frame) ==
  \A o \in Offsets : ExecByte(v, frame, o) = origMem[frame][o]

\* A data access by guest code to a monitored frame: a read of the frame
\* (write = NONE), or a kernel patch writing the byte at offset write.
Accesses == [frame : Frames, write : Offsets \cup {NONE}]

\* The VCPU has no event outstanding and no trapped instruction to redo.
Ready(v) == ev[v] = "none" /\ ~ss[v] /\ scan[v] = NONE

Raise(v, kind) ==
  /\ ev' = [ev EXCEPT ![v] = kind]
  /\ ring' = Append(ring, v)

Crash(t) ==
  /\ pc' = [pc EXCEPT ![t] = "crashed"]
  /\ crashIn' = crashIn \cup {phase}

\* After an instruction completes: with single-step on, the step event.
Completed(v) ==
  IF ss[v] THEN Raise(v, "step") ELSE UNCHANGED <<ctorVars, ev, ring>>

(***************************************************************************)
(* Guest environment.                                                      *)
(***************************************************************************)
Schedule(v, t) ==
  /\ ~paused
  /\ oncpu[v] = NONE
  /\ t \notin Range(oncpu)
  /\ pc[t] # "crashed"
  /\ oncpu' = [oncpu EXCEPT ![v] = t]
  /\ UNCHANGED <<ctorVars, bptVars, loopVars, histVars, view, ss, ev, ring, scan, pc, fn, slot>>

\* The guest OS preempts or blocks a thread between instructions.
Deschedule(v) ==
  /\ ~paused
  /\ oncpu[v] # NONE
  /\ Ready(v)
  /\ oncpu' = [oncpu EXCEPT ![v] = NONE]
  /\ UNCHANGED <<ctorVars, bptVars, loopVars, histVars, view, ss, ev, ring, scan, pc, fn, slot>>

\* The system-call handler pushes R and calls f; a direct kernel call
\* of f pushes some other return address.
Call(v, f, word) ==
  LET t == oncpu[v] IN
  /\ ~paused
  /\ t # NONE
  /\ Ready(v)
  /\ pc[t] = "user"
  /\ pc' = [pc EXCEPT ![t] = "entry"]
  /\ fn' = [fn EXCEPT ![t] = f]
  /\ slot' = [slot EXCEPT ![t] = word]
  /\ UNCHANGED <<ctorVars, bptVars, loopVars, histVars, view, ss, ev, ring, oncpu, scan>>

\* The first instruction of f: INT 3 in the shadow view traps; without the
\* interrupt event the guest's own #BP handler kills the thread; zero or
\* freed memory crashes it; the original instruction runs.
ExecEntry(v) ==
  LET t == oncpu[v]
      b == ExecByte(v, FrameOf[fn[t]], OffsetOf[fn[t]])
  IN
  /\ ~paused
  /\ t # NONE
  /\ ev[v] = "none"
  /\ scan[v] = NONE
  /\ pc[t] = "entry"
  /\ \/ /\ b = "int3" /\ EventsRegistered
        /\ Raise(v, "int3")
        /\ UNCHANGED <<ctorVars, pc, crashIn>>
     \/ /\ b \in {"zero", "freed"} \/ (b = "int3" /\ ~EventsRegistered)
        /\ Crash(t)
        /\ UNCHANGED <<ctorVars, ev, ring>>
     \/ /\ b \in CodeBytes
        /\ pc' = [pc EXCEPT ![t] = "body"]
        /\ Completed(v)
        /\ UNCHANGED crashIn
  /\ UNCHANGED <<ctorVars, bptVars, loopVars, view, ss, oncpu, scan, fn, slot, readBad, writeLost>>

\* RET pops the return slot.  The slot keeps its word in memory.
Return(v) ==
  LET t == oncpu[v] IN
  /\ ~paused
  /\ t # NONE
  /\ Ready(v)
  /\ pc[t] = "body"
  /\ fn[t] \notin NoReturn
  /\ pc' = [pc EXCEPT ![t] = IF slot[t] = "T" THEN "tramp" ELSE "user"]
  /\ fn' = [fn EXCEPT ![t] = IF slot[t] = "T" THEN @ ELSE NONE]
  /\ UNCHANGED <<ctorVars, bptVars, loopVars, histVars, view, ss, ev, ring, oncpu, scan, slot>>

\* A call of a function that never returns ends the thread inside it: its
\* stack is freed and, the thread id being the stack pointer, a new thread
\* later gets the same id with other data in the old return slot.
ThreadExit(v) ==
  LET t == oncpu[v] IN
  /\ ~paused
  /\ t # NONE
  /\ Ready(v)
  /\ pc[t] = "body"
  /\ fn[t] \in NoReturn
  /\ pc' = [pc EXCEPT ![t] = "user"]
  /\ fn' = [fn EXCEPT ![t] = NONE]
  /\ slot' = [slot EXCEPT ![t] = "X"]
  /\ UNCHANGED <<ctorVars, bptVars, loopVars, histVars, view, ss, ev, ring, oncpu, scan>>

\* The INT 3 at the trampoline is part of the original kernel image, so it
\* traps in every view, and kills the thread once the event is gone.
ExecTrampoline(v) ==
  LET t == oncpu[v] IN
  /\ ~paused
  /\ t # NONE
  /\ Ready(v)
  /\ pc[t] = "tramp"
  /\ IF EventsRegistered
     THEN Raise(v, "int3") /\ UNCHANGED <<ctorVars, pc, crashIn>>
     ELSE Crash(t) /\ UNCHANGED <<ctorVars, ev, ring>>
  /\ UNCHANGED <<ctorVars, bptVars, loopVars, view, ss, oncpu, scan, fn, slot, readBad, writeLost>>

\* Where a write through the VCPU's view to frame lands: the frame itself
\* in view 0, else the gfn the shadow view backs it by.
WriteTarget(v, frame) == IF view[v] = VIEW0 THEN frame ELSE slat[frame]

\* The access completes through the VCPU's current view.  A read records
\* whether it saw the original bytes; a write lands on WriteTarget, and
\* one that lands anywhere but the original frame is recorded as lost.
CompleteAccess(v, acc) ==
  LET d == WriteTarget(v, acc.frame) IN
  IF acc.write = NONE
  THEN /\ readBad' = IF ReadsOriginal(v, acc.frame) THEN readBad
                     ELSE readBad \cup {phase}
       /\ UNCHANGED <<ctorVars, origMem, shadowMem, writeLost>>
  ELSE /\ origMem' = IF d = acc.frame
                     THEN [origMem EXCEPT ![acc.frame][acc.write] = "patched"]
                     ELSE origMem
       /\ shadowMem' = IF d # acc.frame /\ d \in populated
                       THEN [shadowMem EXCEPT ![d][acc.write] = "patched"]
                       ELSE shadowMem
       /\ writeLost' = IF d = acc.frame THEN writeLost ELSE writeLost \cup {phase}
       /\ UNCHANGED readBad

\* Kernel code reads a monitored frame (e.g. Kernel Patch Protection) or
\* patches it.  In the shadow view the mem-access trap fires first; the
\* access is then redone in the view the callback left the VCPU in.
ScanAccess(v, acc) ==
  LET t == oncpu[v] IN
  /\ ~paused
  /\ t # NONE
  /\ pc[t] \in {"user", "body"}
  /\ ev[v] = "none"
  /\ acc.write # NONE => <<acc.frame, acc.write>> \in PatchSites
  /\ \/ Ready(v)
     \/ scan[v] = acc
  /\ IF EventsRegistered /\ view[v] = SHADOW /\ acc.frame \in memtrap
     THEN /\ Raise(v, "mem")
          /\ scan' = [scan EXCEPT ![v] = acc]
          /\ UNCHANGED <<ctorVars, readBad, writeLost, origMem, shadowMem>>
     ELSE /\ CompleteAccess(v, acc)
          /\ scan' = [scan EXCEPT ![v] = NONE]
          /\ Completed(v)
  /\ UNCHANGED <<ctorVars, translation, pageFrame, children, slat, memtrap, populated,
                 curMem, maxmem, registered, torn, loopVars, view, ss, oncpu, pc, fn,
                 slot, crashIn>>

(***************************************************************************)
(* Trap dispatcher.  The listener takes the oldest event off the ring,     *)
(* runs its callback, and the VCPU resumes with the callback's response.   *)
(***************************************************************************)
\* Mutant: the event is taken off the ring but no response is sent, so
\* the VCPU is never resumed.
DeliverNoResume(v, kind) ==
  /\ listening
  /\ ring # <<>>
  /\ Head(ring) = v
  /\ ev[v] = kind
  /\ ring' = Tail(ring)
  /\ UNCHANGED ev

Deliver(v, kind) ==
  /\ listening
  /\ ring # <<>>
  /\ Head(ring) = v
  /\ ev[v] = kind
  /\ ring' = Tail(ring)
  /\ ev' = [ev EXCEPT ![v] = "none"]

\* Mutant: the trampoline address is never written to the stack.
BreakpointCallNoWrite(v) ==
  LET t == oncpu[v]
      rec == RecordAt(FrameOf[fn[t]], OffsetOf[fn[t]])
  IN
  /\ pc[t] = "entry"
  /\ rec # NONE
  /\ view' = [view EXCEPT ![v] = VIEW0]
  /\ ss' = [ss EXCEPT ![v] = ~@]
  /\ open' = [open EXCEPT ![t] = IF slot[t] = "R" THEN @ + 1 ELSE @]
  /\ retmap' = [retmap EXCEPT ![t] = IF slot[t] = "R" THEN rec ELSE @]
  /\ UNCHANGED <<ctorVars, pc, crashIn, slot, fn>>

\* gt_breakpoint_cb, call-site path (gla # trampoline_addr).  An address
\* with no record is re-injected into the guest, whose #BP handler kills
\* the thread.  With a record: view 0 and TOGGLE_SINGLESTEP whatever
\* follows; the call is recorded only when the word at rsp is return_addr:
\* syscall_cb, g_hash_table_insert (whose destroy notify restores an entry
\* it replaces), then the stack word is overwritten with the trampoline by
\* a vmi_write_64_pa whose status is ignored.
BreakpointCall(v) ==
  LET t == oncpu[v]
      rec == RecordAt(FrameOf[fn[t]], OffsetOf[fn[t]])
  IN
  /\ pc[t] = "entry"
  /\ IF rec = NONE
     THEN /\ Crash(t)
          /\ UNCHANGED <<ctorVars, view, ss, retmap, open, slot>>
     ELSE /\ view' = [view EXCEPT ![v] = VIEW0]
          /\ ss' = [ss EXCEPT ![v] = ~@]
          /\ IF slot[t] = "R"
             THEN /\ open' = [open EXCEPT ![t] = @ + 1]
                  /\ retmap' = [retmap EXCEPT ![t] = rec]
                  /\ \E wrote \in {TRUE} \cup OnFailure("trampwrite", {FALSE}) :
                       slot' = [slot EXCEPT ![t] = IF wrote THEN "T" ELSE @]
             ELSE UNCHANGED <<ctorVars, open, retmap, slot>>
          /\ UNCHANGED <<ctorVars, pc, crashIn>>
  /\ UNCHANGED fn

\* Mutant: the NULL check on the looked-up state is dropped, so a spurious
\* trampoline hit runs sysret_cb and the removal anyway.
BreakpointReturnNoGuard(v) ==
  LET t == oncpu[v] IN
  /\ pc[t] = "tramp"
  /\ open' = [open EXCEPT ![t] = @ - 1]
  /\ pc' = [pc EXCEPT ![t] = "user"]
  /\ fn' = [fn EXCEPT ![t] = NONE]
  /\ retmap' = [retmap EXCEPT ![t] = NONE]
  /\ slot' = [slot EXCEPT ![t] = "R"]
  /\ UNCHANGED <<ctorVars, view, ss, crashIn>>

\* Mutant: the entry is removed without calling sysret_cb.
BreakpointReturnNoCb(v) ==
  LET t == oncpu[v] IN
  /\ pc[t] = "tramp"
  /\ retmap[t] # NONE
  /\ pc' = [pc EXCEPT ![t] = "user"]
  /\ fn' = [fn EXCEPT ![t] = NONE]
  /\ retmap' = [retmap EXCEPT ![t] = NONE]
  /\ slot' = [slot EXCEPT ![t] = "R"]
  /\ UNCHANGED <<ctorVars, open, view, ss, crashIn>>

\* gt_breakpoint_cb, return-site path: thread id = rsp - return_addr_width.
\* With an entry: sysret_cb, RIP := return_addr, g_hash_table_remove,
\* whose destroy notify gt_restore_return_addr writes return_addr into the
\* popped slot.  Without one nothing happens and the VCPU re-executes the
\* INT 3.  The response is NONE either way.
BreakpointReturn(v) ==
  LET t == oncpu[v] IN
  /\ pc[t] = "tramp"
  /\ IF retmap[t] # NONE
     THEN /\ open' = [open EXCEPT ![t] = @ - 1]
          /\ pc' = [pc EXCEPT ![t] = "user"]
          /\ fn' = [fn EXCEPT ![t] = NONE]
          /\ retmap' = [retmap EXCEPT ![t] = NONE]
          /\ slot' = [slot EXCEPT ![t] = "R"]
     ELSE UNCHANGED <<ctorVars, open, pc, fn, retmap, slot>>
  /\ UNCHANGED <<ctorVars, view, ss, crashIn>>

BreakpointCb(v) ==
  /\ Deliver(v, "int3")
  /\ BreakpointCall(v) \/ BreakpointReturn(v)
  /\ UNCHANGED <<ctorVars, bptVars, phase, paused, listening, oncpu, scan, readBad, writeLost>>

\* gt_mem_rw_cb: view 0 and TOGGLE_SINGLESTEP.
MemRwCb(v) ==
  /\ Deliver(v, "mem")
  /\ view' = [view EXCEPT ![v] = VIEW0]
  /\ ss' = [ss EXCEPT ![v] = ~@]
  /\ UNCHANGED <<ctorVars, bptVars, loopVars, histVars, oncpu, scan, pc, fn, slot>>

\* Mutant: the response lacks VMM_PAGETABLE_ID, so the view is not restored.
SinglestepCbNoSwitch(v) ==
  /\ Deliver(v, "step")
  /\ ss' = [ss EXCEPT ![v] = ~@]
  /\ UNCHANGED <<ctorVars, bptVars, loopVars, histVars, view, oncpu, scan, pc, fn, slot>>

\* gt_singlestep_cb: slat_id := loop->shadow_view and TOGGLE_SINGLESTEP.
SinglestepCb(v) ==
  /\ Deliver(v, "step")
  /\ view' = [view EXCEPT ![v] = SHADOW]
  /\ ss' = [ss EXCEPT ![v] = ~@]
  /\ UNCHANGED <<ctorVars, bptVars, loopVars, histVars, oncpu, scan, pc, fn, slot>>

(***************************************************************************)
(* Loop controller.  Each operation pauses the guest around its work, so   *)
(* it is one atomic step.                                                  *)
(***************************************************************************)
\* gt_loop_set_cb, before gt_loop_run.
LoopSetCb(f) ==
  /\ phase = "new"
  /\ SetCbStep(f)
  /\ UNCHANGED <<ctorVars, torn, origMem, guestVars, loopVars, histVars>>

\* The callbacks arrays a caller may pass: each traced function at most once.
CbArrays ==
  {a \in UNION {[1..n -> Funcs] : n \in 1..Cardinality(Funcs)} : IsInjective(a)}

\* gt_loop_set_cbs, before gt_loop_run: every gt_loop_set_cb of the array.
LoopSetCbs(cbs) ==
  /\ phase = "new"
  /\ \E out \in SetCbsFrom(Tab, registered, cbs) :
       /\ SetTab(out.tab)
       /\ registered' = out.reg
  /\ UNCHANGED <<ctorVars, torn, origMem, guestVars, loopVars, histVars>>

\* gt_loop_run: pause, switch every VCPU to the shadow view, register the
\* events, find the return point and trampoline, resume, listen.  An error
\* returns through "done" with the guest still paused.
Run ==
  /\ phase = "new"
  /\ \/ /\ view' = [v \in VCPUS |-> SHADOW]
        /\ phase' = "running"
        /\ listening' = TRUE
        /\ UNCHANGED paused
     \/ /\ "switchview" \in Failable
        /\ phase' = "stopped"
        /\ paused' = TRUE
        /\ UNCHANGED <<ctorVars, view, listening>>
     \/ /\ "setup" \in Failable
        /\ view' = [v \in VCPUS |-> SHADOW]
        /\ phase' = "stopped"
        /\ paused' = TRUE
        /\ UNCHANGED listening
  /\ UNCHANGED <<ctorVars, bptVars, retmap, open, histVars, ss, ev, ring, oncpu, scan, pc, fn, slot>>

\* vmi_events_listen fails: gt_loop_run breaks out and returns.
ListenError ==
  /\ "listen" \in Failable
  /\ phase = "running"
  /\ listening
  /\ listening' = FALSE
  /\ phase' = "stopped"
  /\ UNCHANGED <<ctorVars, bptVars, guestVars, paused, retmap, open, histVars>>

\* The listen loop observes gt_interrupted after its current call returns.
LoopExit ==
  /\ phase = "quit"
  /\ listening
  /\ listening' = FALSE
  /\ UNCHANGED <<ctorVars, bptVars, guestVars, phase, paused, retmap, open, histVars>>

\* Draining gt_ret_addr_mapping: its destroy notify gt_restore_return_addr
\* writes return_addr back into every recorded slot.
Drained(t) == retmap[t] # NONE

\* gt_restore_return_addr's vmi_translate_kv2p or vmi_write_64_pa can fail:
\* it prints an error and frees the entry, leaving the slot as it was.
DrainRetmap ==
  /\ \E restored \in [THREADS -> {TRUE} \cup OnFailure("restore", {FALSE})] :
       slot' = [t \in THREADS |-> IF Drained(t) /\ restored[t] THEN "R" ELSE slot[t]]
  /\ open' = [t \in THREADS |-> IF Drained(t) THEN open[t] - 1 ELSE open[t]]
  /\ retmap' = [t \in THREADS |-> NONE]

\* Mutant: gt_loop_quit forgets g_hash_table_remove_all(gt_ret_addr_mapping).
QuitKeepCalls ==
  /\ phase \in {"running", "stopped"}
  /\ SetTab(ClearTables(Tab))
  /\ torn' = TRUE
  /\ view' = [v \in VCPUS |-> VIEW0]
  /\ paused' = FALSE
  /\ phase' = "quit"
  /\ UNCHANGED <<ctorVars, registered, origMem, listening, histVars, ss, ev, ring, oncpu, scan,
                 pc, fn, slot, open, retmap>>

\* gt_loop_quit: pause; empty gt_page_translation, gt_ret_addr_mapping and
\* gt_page_record_collection; switch the domain to view 0; resume; set
\* gt_interrupted.
Quit ==
  /\ phase \in {"running", "stopped"}
  /\ SetTab(ClearTables(Tab))
  /\ torn' = TRUE
  /\ DrainRetmap
  /\ view' = [v \in VCPUS |-> VIEW0]
  /\ paused' = FALSE
  /\ phase' = "quit"
  /\ UNCHANGED <<ctorVars, registered, origMem, listening, histVars, ss, ev, ring, oncpu, scan, pc, fn>>

\* The loop fields gt_loop_free works with.
LoopFields == [domid : {"dom0", "guest", "none"}, xch : BOOLEAN, initMem : Nat]

\* gt_loop_free: pause; destroy the tables; destroy the view and disable
\* altp2m (every VCPU back on the host p2m); xc_domain_setmaxmem(xch,
\* domid, init_mem_size), which takes KiB and is passed bytes; resume; and
\* vmi_destroy, which unregisters the events: VCPUs waiting on an event
\* resume and re-execute their instruction natively.  The hypervisor calls
\* act on lp.domid, and only through an open xc interface; on ~0u they fail.
FreeLoop(lp) ==
  /\ SetTab([ClearTables(Tab) EXCEPT !.curMem = 0,
               !.maxmem = IF lp.xch /\ lp.domid = "guest" THEN lp.initMem ELSE @])
  /\ dom0Maxmem' = IF lp.xch /\ lp.domid = "dom0" THEN lp.initMem ELSE dom0Maxmem
  /\ torn' = TRUE
  /\ DrainRetmap
  /\ view' = [v \in VCPUS |-> VIEW0]
  /\ ss' = [v \in VCPUS |-> FALSE]
  /\ ev' = [v \in VCPUS |-> "none"]
  /\ ring' = <<>>
  /\ paused' = FALSE
  /\ phase' = "freed"
  /\ domid' = lp.domid
  /\ xch' = lp.xch
  /\ initMem' = lp.initMem
  /\ UNCHANGED <<registered, origMem, listening, histVars, oncpu, scan, pc, fn>>

\* The steps of gt_loop_new that can fail, in the order it takes them.
CtorSteps == <<"vmiinit", "ostype", "xcopen", "libxl", "domid", "memsize",
               "altp2m", "createview">>

\* The loop gt_loop_new hands to gt_loop_free when step i fails: domid is
\* 0 until set to ~0u before libxl_name_to_domid; xch is NULL until
\* xc_interface_open; init_mem_size is 0 until vmi_get_memsize returns
\* non-zero.
FailedLoop(i) ==
  [domid   |-> IF i <= 4 THEN "dom0" ELSE IF i = 5 THEN "none" ELSE "guest",
   xch     |-> i >= 4,
   initMem |-> IF i >= 7 THEN InitMemSize ELSE 0]

\* gt_loop_new.  On success the guest, paused after vmi_init, is resumed.
\* A failure after vmi_init leaves it paused and calls gt_loop_free on the
\* partial loop.  With xch NULL, gt_loop_free's libxc calls dereference
\* NULL: the process either dies in xc_altp2m_destroy_view, after its
\* vmi_pause_vm and before vmi_resume_vm, or the calls fail and it goes on.
LoopNew ==
  /\ phase = "init"
  /\ \/ /\ phase' = "new"
        /\ domid' = "guest"
        /\ xch' = TRUE
        /\ initMem' = InitMemSize
        /\ UNCHANGED <<bptVars, guestVars, paused, listening, retmap, open,
                       histVars, dom0Maxmem>>
     \/ \E i \in DOMAIN CtorSteps :
          LET lp == FailedLoop(i) IN
          /\ CtorSteps[i] \in Failable
          /\ \/ FreeLoop(lp)
             \/ /\ ~lp.xch
                /\ phase' = "dead"
                /\ paused' = (i > 1)
                /\ domid' = lp.domid
                /\ UNCHANGED <<bptVars, guestVars, listening, retmap, open,
                               histVars, xch, initMem, dom0Maxmem>>

\* gt_loop_free by the application, once gt_loop_run has returned.
Free ==
  /\ phase \in {"new", "stopped", "quit"}
  /\ ~listening
  /\ FreeLoop([domid |-> domid, xch |-> xch, initMem |-> initMem])

\* The guest: threads scheduled on VCPUS call, run and return from traced
\* functions; the integrity scanner reads monitored frames.
GuestEnv ==
  \E v \in VCPUS :
    \/ Deschedule(v) \/ ExecEntry(v) \/ Return(v) \/ ExecTrampoline(v)
    \/ \E t \in THREADS : Schedule(v, t)
    \/ \E f \in Funcs, w \in {"R", "X"} : Call(v, f, w)
    \/ \E acc \in Accesses : ScanAccess(v, acc)

Next ==
  \/ LoopNew
  \/ \E f \in Funcs : LoopSetCb(f)
  \/ \E cbs \in CbArrays : LoopSetCbs(cbs)
  \/ Run \/ ListenError \/ LoopExit \/ Quit \/ Free
  \/ \E v \in VCPUS : BreakpointCb(v) \/ MemRwCb(v) \/ SinglestepCb(v)
  \/ GuestEnv

Spec == Init /\ [][Next]_vars

\* The listen loop of gt_loop_run calls vmi_events_listen until
\* gt_interrupted, and libvmi runs the callback of every event on the ring:
\* while it listens, a handler that can run eventually does.  Nothing is
\* assumed of the guest, the application (set_cb, quit, free) or failures.
Fairness ==
  \A v \in VCPUS :
    /\ WF_vars(BreakpointCb(v))
    /\ WF_vars(MemRwCb(v))
    /\ WF_vars(SinglestepCb(v))

FairSpec == Spec /\ Fairness

\* The guest also runs functions that never return (NoReturn): a thread
\* can end inside a traced call.
ExitSpec == Init /\ [][Next \/ \E v \in VCPUS : ThreadExit(v)]_vars /\ Fairness

\* The tracker of CallTracer, seen through gt_ret_addr_mapping.
Tracker == INSTANCE CallTracer WITH calls <- retmap, tracing <- ~torn

\* State constraint: bounds curr_mem_size growth and unpaired callbacks.
GuestTraceBound == CurMemBound /\ \A t \in THREADS : open[t] <= MaxOpen

-----------------------------------------------------------------------------
TypeOK ==
  /\ TableTypeOK
  /\ phase \in Phases
  /\ paused \in BOOLEAN
  /\ listening \in BOOLEAN
  /\ view \in [VCPUS -> {VIEW0, SHADOW}]
  /\ ss \in [VCPUS -> BOOLEAN]
  /\ ev \in [VCPUS -> EventKinds]
  /\ ring \in Seq(VCPUS)
  /\ oncpu \in [VCPUS -> THREADS \cup {NONE}]
  /\ scan \in [VCPUS -> Accesses \cup {NONE}]
  /\ pc \in [THREADS -> PCs]
  /\ fn \in [THREADS -> Funcs \cup {NONE}]
  /\ slot \in [THREADS -> Words]
  /\ retmap \in [THREADS -> Funcs \cup {NONE}]
  /\ open \in [THREADS -> Nat]
  /\ readBad \subseteq Phases
  /\ crashIn \subseteq Phases
  /\ writeLost \subseteq Phases
  /\ [domid |-> domid, xch |-> xch, initMem |-> initMem] \in LoopFields
  /\ dom0Maxmem \in Nat

(***************************************************************************)
(* P1, pairing: for every thread, the entry callbacks made so far equal    *)
(* its return callbacks plus the entries drained at teardown plus the one  *)
(* call still recorded in gt_ret_addr_mapping, if any.                     *)
(***************************************************************************)
Pairing ==
  \A t \in THREADS : open[t] = IF retmap[t] # NONE THEN 1 ELSE 0

(***************************************************************************)
(* I4: a thread's return slot holds the trampoline address exactly when    *)
(* gt_ret_addr_mapping has an entry for it, across the call-site write,    *)
(* the return-site removal and the drains of gt_loop_quit/gt_loop_free.    *)
(***************************************************************************)
HijackedIffTracked ==
  \A t \in THREADS : (slot[t] = "T") <=> (retmap[t] # NONE)

(***************************************************************************)
(* gt_restore_return_addr changes a stack word only where gt_breakpoint_cb *)
(* put the trampoline address: whenever an entry of gt_ret_addr_mapping    *)
(* goes away (return-site removal, or the drain of gt_loop_quit or         *)
(* gt_loop_free), the slot at its thread id either held the trampoline or  *)
(* is left as it was, so the restore never overwrites guest data.          *)
(***************************************************************************)
RestoreOnlyHijacked ==
  [][\A t \in THREADS :
       retmap[t] # NONE /\ retmap'[t] = NONE => slot[t] = "T" \/ slot'[t] = slot[t]]_vars

(***************************************************************************)
(* I5: while the loop runs, a VCPU is in the unmodified view exactly when  *)
(* single-step is on, i.e. only for the one-instruction window opened by a *)
(* breakpoint or mem-access trap and closed by its step event.             *)
(***************************************************************************)
ViewDiscipline ==
  phase = "running" => \A v \in VCPUS : (view[v] = VIEW0) <=> ss[v]

(***************************************************************************)
(* P5, stealth while tracing: every read of a frame by guest code while    *)
(* the loop runs returns the original bytes, never the shadow's.           *)
(***************************************************************************)
StealthWhileTracing == "running" \notin readBad

(***************************************************************************)
(* While the loop runs, every write by guest code to a monitored frame (a  *)
(* kernel patch) lands in the original frame: the mem-access trap and the  *)
(* view-0 step of gt_mem_rw_cb redirect it there, never into the shadow    *)
(* frame or a gfn given back to the hypervisor.                            *)
(***************************************************************************)
WritesReachOriginal == "running" \notin writeLost

(***************************************************************************)
(* While the loop runs, no guest thread is killed by a breakpoint, a stale *)
(* shadow page, or the trampoline.                                         *)
(***************************************************************************)
NoCrashWhileTracing == "running" \notin crashIn

(***************************************************************************)
(* Section 1: the guest survives tracer teardown even when calls are in    *)
(* flight; no thread is killed after gt_loop_quit or gt_loop_free.         *)
(***************************************************************************)
GuestSurvivesTeardown == crashIn \cap {"quit", "freed"} = {}

(***************************************************************************)
(* P6, teardown safety: gt_loop_free, whether the application calls it or  *)
(* a failing gt_loop_new does, leaves the guest running (not paused, even  *)
(* if the process dies inside it) in the unmodified view, the max memory   *)
(* of the guest and of every other domain at its value before the tracer   *)
(* started, and no return slot holding the trampoline address.             *)
(***************************************************************************)
TeardownSafe ==
  /\ phase \in {"freed", "dead"} => ~paused
  /\ phase = "freed" =>
    /\ \A v \in VCPUS : view[v] = VIEW0
    /\ maxmem = InitMaxmemKiB
    /\ dom0Maxmem = DOM0_MAXMEM_KIB
    /\ \A t \in THREADS : slot[t] # "T"

(***************************************************************************)
(* gt_loop_quit "reverts to view 0": from quit on, every VCPU stays in the *)
(* unmodified view.                                                        *)
(***************************************************************************)
QuitRevertsViews ==
  phase \in {"quit", "freed"} => \A v \in VCPUS : view[v] = VIEW0

(***************************************************************************)
(* gt_ret_addr_mapping implements the call-state tracker of CallTracer:    *)
(* entries only while the tables live, at most one per thread, removed by  *)
(* the return-site trap or drained all at once by quit/free.               *)
(***************************************************************************)
CallTracerRefined == Tracker!Spec

(***************************************************************************)
(* The tracer only ever hijacks the canonical return address: a stack slot *)
(* becomes the trampoline only where it held loop->return_addr, so a       *)
(* direct kernel call of a traced function keeps its own return address.   *)
(***************************************************************************)
HijackOnlyCanonical ==
  [][\A t \in THREADS : slot'[t] = "T" /\ slot[t] # "T" => slot[t] = "R"]_slot

(***************************************************************************)
(* While the loop listens, a VCPU paused on an INT 3, mem-access or step   *)
(* event is eventually resumed by its callback.  The listen loop may end   *)
(* first (listen error, or gt_interrupted); the VCPU then waits for the    *)
(* application's gt_loop_free, which nothing in the library forces.        *)
(***************************************************************************)
EventsHandled ==
  \A v \in VCPUS : ev[v] # "none" ~> (ev[v] = "none" \/ ~listening)
=============================================================================
