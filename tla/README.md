# TLA+ models of guestrace

These modules model `src/trace-syscalls.c`, the guestrace library, and
`src/trace_syscalls.c`, the older print-only tracer (the "VF variant",
whose functions are named `vf_*`). Both trace a Xen guest's system calls
by placing INT 3 breakpoints in *shadow* copies of kernel frames. The
shadow frames are visible only through a second altp2m view of the
guest's memory.

## The system

- **Breakpoint table.** `gt_loop_set_cb` resolves a kernel symbol and
  calls `gt_setup_mem_trap`. On the first breakpoint in a frame, that
  function:
  - allocates a shadow gfn (`gt_allocate_shadow_frame`: setmaxmem,
    increase_reservation, populate_physmap);
  - records frame -> shadow in `gt_page_translation`;
  - remaps the frame to the shadow gfn in the shadow view
    (`xc_altp2m_change_gfn`);
  - copies the frame into the shadow gfn and creates the page record;
  - arms a read/write mem-access trap on the frame.

  Each breakpoint then writes INT 3 into the shadow gfn and inserts a
  child (paddr record) into the page record. Every one of these calls can
  fail, and a failure jumps to `done` without undoing the earlier steps.
- **Trap dispatcher.** There is one listener thread (the
  `vmi_events_listen` loop in `gt_loop_run`) with three callbacks:
  - `gt_breakpoint_cb`, on the call-site path:
    - it looks up the record;
    - it switches the VCPU to view 0 for one single step;
    - if the word at `rsp` is the canonical return address R, it calls
      `syscall_cb`, records the call in `gt_ret_addr_mapping`, and
      overwrites the stack word with the trampoline address T.
  - `gt_breakpoint_cb`, on the return-site path (an INT 3 at T): it calls
    `sysret_cb`, sets RIP := R and removes the entry.
  - `gt_mem_rw_cb`: a read or write of a monitored frame (an integrity
    checker, or the kernel patching itself) gets a view-0 single step, so
    it sees, and writes, the original frame.
  - `gt_singlestep_cb`: switches the VCPU back to the shadow view.
- **Call-state tracker.** `gt_ret_addr_mapping` maps a stack pointer to
  its state. Its destroy notify, `gt_restore_return_addr`, writes R back
  into the stack slot. The notify runs on remove, on replace and on
  teardown.
- **Loop controller.** The lifecycle is `gt_loop_new`, `gt_loop_set_cb`
  (or `gt_loop_set_cbs`, which calls it for each entry of an array),
  `gt_loop_run` (switch views, register events, find R and T, listen),
  `gt_loop_quit` (empty the tables, revert to view 0) and
  `gt_loop_free`.
- **The VF variant.** It is one program, `main`:
  - with the guest paused, it runs `vf_init_state` (which ends by
    switching every VCPU to the shadow view), registers the step and
    generic events, sets the traps (`vf_find_syscalls_and_setup_mem_traps`),
    and finds the return point and trampoline;
  - it listens until a signal or a listen error;
  - `done` runs `vf_teardown_state` and `vmi_destroy`.

  Its table code is the library's, line for line. Its dispatcher differs:
  - the return slot is read without checking the read;
  - the return path writes R itself, with no destroy notify;
  - the step events are registered from a stack copy (`&curr`).

## Modules

| Module | Models | State | Actions |
|---|---|---|---|
| `BreakpointTable` | table, allocator, install and teardown | `translation`, `pageFrame`, `children`, `shadowMem`, `slat`, `memtrap`, `populated`, `curMem`, the guest's max memory `maxmem` (KiB), the original frames' bytes `origMem`, plus history `registered`, `torn` | `SetCb(f)` = `gt_loop_set_cb`; `Teardown` = the table part of `gt_loop_quit` |
| `GuestTrace` | dispatcher, tracker and controller, running against a guest | the table, plus `phase`, `paused`, `listening`, per-VCPU `view`/`ss`/`ev`, the event `ring`, per-thread `pc`/`fn`/`slot`, `retmap`, `open`, the loop fields `domid`, `xch`, `initMem`, dom0's max memory `dom0Maxmem`, and history `readBad`/`crashIn`/`writeLost` | `LoopNew`, `LoopSetCb`, `LoopSetCbs`, `Run`, `ListenError`, `LoopExit`, `Quit`, `Free`, `BreakpointCb`, `MemRwCb`, `SinglestepCb`, and the guest environment (`Schedule`, `Deschedule`, `Call`, `ExecEntry`, `Return`, `ExecTrampoline`, `ScanAccess`; `ThreadExit` only under `ExitSpec`) |
| `CallTracer` | what the call-state tracker promises (abstract) | `calls`, `tracing` | `Enter`, `Leave`, `Drain` |
| `VisorFlow` | the VF variant's `main`, dispatcher and teardown, on the guest of `GuestTrace` | the variables of `GuestTrace`; phase `dead` when the process died | `VfStart`, `VfListenError`, `VfSignal`, `VfExit`, `VfBreakpointCb`, `VfMemRwCb`, `VfSinglestepCb`, `VfStepEventStale`, and the guest environment |
| `MCBreakpointTable`, `MCGuestTrace`, `MCVisorFlow` | the constants used by TLC | | |

### How the C code is modelled

- **Sequential C as operators.** `gt_setup_mem_trap` and its helpers are
  operators from a table record to the *set* of (table, result) pairs the
  call can produce. A sub-step named in the constant `Failable` adds the
  outcome of its `goto done`. `SetCbStep` picks one outcome, so an install
  is one atomic step; the guest is paused around it.
- **Frame contents.** A frame's contents are reduced to the bytes at the
  traced offsets: `orig`, `patched` (a byte the kernel rewrote), `int3`,
  or `zero` (a fresh frame). `origMem` holds the original frames' current
  bytes; the copy into a shadow frame takes them as they are then, and
  `gt_remove_breakpoint` copies back the current byte.
- **Kernel patching.** `ScanAccess(v, acc)` is guest code reading a
  monitored frame, or writing a byte at one of the `PatchSites`. In the
  shadow view the mem-access trap fires first, and the access is redone
  in the view `gt_mem_rw_cb` left the VCPU in. A write lands where that
  view maps the frame (`WriteTarget`).
- **`gt_loop_set_cbs`.** `SetCbsFrom` folds `SetCbOutcomes` (one
  `gt_loop_set_cb`) over the callbacks array, so the whole array is one
  step, as it is with the guest paused around each call and nothing else
  acting between them in phase `new`.
- **`gt_loop_new`.** `Init` is the program before the constructor
  (`g_new0`: domid 0, NULL `xch`, `init_mem_size` 0). `LoopNew` either
  succeeds (phase `new`) or fails at one of the eight steps in
  `CtorSteps` that are named in `Failable`. The failure then runs
  `FreeLoop`, the body of `gt_loop_free`, on the fields that step left
  (`FailedLoop`). With a NULL `xch` the libxc calls of `gt_loop_free` are
  undefined: either the process dies in `xc_altp2m_destroy_view`, after
  its `vmi_pause_vm` (phase `dead`), or the calls fail and it goes on.
- **Unchecked stack writes.** Two writes whose status is ignored are
  failure points. The first is `trampwrite`: the call is recorded but the
  slot keeps R. The second is `restore`: a drained slot keeps its word.
- **Memory sizes.** `xc_domain_setmaxmem` takes KiB. The code passes
  bytes: `curr_mem_size + GT_PAGE_SIZE` when it allocates a shadow frame,
  and `init_mem_size` at `gt_loop_free`. `maxmem` holds what Xen is told.
  The guest has `MemPages` pages, so its max memory starts at
  `MemPages * 4` KiB.
- **Stack slots.** The return slot of a thread holds `R`, `T` or `X`
  (any other return address).
- **Events.** A VCPU that raises an event waits, with `ev[v]` set, until
  the listener handles it. Events reach the listener in ring order.
  Because there is one listener, each handler is one atomic step.
- **Counting.** `open[t]` counts entry callbacks minus return callbacks
  minus drained entries.
- **History variables.** `readBad`, `crashIn` and `writeLost` record the
  phases in which the guest read shadow bytes, lost a thread, or wrote a
  monitored frame somewhere other than the original frame.
- **Failures of `gt_loop_run`.** Three failure points are modelled: the
  view switch, the event/return-point/trampoline setup, and a failing
  `vmi_events_listen`. After a setup failure the events are treated as
  registered.
- **Undefined behaviour in the VF variant.** Two more failure points stand
  for the outcomes the build can produce:
  - `readret`: `vmi_read_64_pa` of the return slot fails and `ret_addr`
    is whatever the stack held, so it can be any word;
  - `stepevent`: a step event is dispatched through the dangling `&curr`.
    Either the stale event still works (`VfSinglestepCb`) or the process
    dies (`VfStepEventStale`).

## Runs

| Run | Checks | Result |
|---|---|---|
| `table_failures` (`MCTableFailures.cfg`) | `TableTypeOK`, `NoDoubleAllocation` (P2) with every install sub-step failing | pass, 770 states |
| `table_install_honest` | `InstallHonest` after a failed change_gfn or INT 3 write | violation |
| `table_teardown_remap` | `NoDanglingRemap` after teardown | violation |
| `guest` (`MCGuestTrace.cfg`) | `TypeOK`, `Pairing` (P1), `HijackedIffTracked` (I4), `ViewDiscipline` (I5), `StealthWhileTracing` (P5), `NoCrashWhileTracing`, `WritesReachOriginal`, `RecordsArmed` (spec I1-I3), and the properties `CallTracerRefined`, `EventsHandled`. Every `gt_loop_new` failure and the `gt_loop_run` failures are enabled, and the kernel patches `sys_read`'s first byte | pass, about 1.05M states, 70 s |
| `guest_teardown_crash` | `GuestSurvivesTeardown` | violation |
| `guest_quit_view` | `QuitRevertsViews` | violation |
| `guest_shadow_copy` | `ShadowViewFaithful` with page-copy failures and kernel patching | violation |
| `guest_thread_exit` | `RestoreOnlyHijacked` when a traced function may never return (`ExitSpec`) or the trampoline write fails | violation |
| `guest_teardown_safe` | `TeardownSafe` (P6) with every `gt_loop_new` failure and failing slot restores | violation |
| `vf` (`MCVisorFlow.cfg`) | `HijackedIffTracked`, `ViewDiscipline`, `CallTracerRefined`, `VfReleasedByTracer`, with every start-up, listen and undefined-behaviour fault | pass, about 25k states |
| `vf_readret` | `HijackOnlyCanonical` when the return-slot read can fail | violation |
| `vf_stale_step` | `VfEventsReleased` when a step event goes through `&curr` | violation |

Some violation runs stand for more than one finding: each failure point
named in their `Failable` violates the property on its own.

- `table_install_honest` covers findings 1 and 2.
- `guest_shadow_copy` covers findings 4 and 9.
- `guest_thread_exit` covers findings 10 and 15.
- `guest_teardown_safe` covers findings 11 to 14 and 16.

Which one TLC reports first depends on the shortest trace. To see the
others, run the cfg with one failure point left in `Failable`.

What the violations show:

1. **A failed change_gfn is never retried.** `xc_altp2m_change_gfn` can
   fail after the translation entry is inserted. A later install in the
   same frame trusts the entry and never remaps the frame. It reports
   success for a breakpoint that never fires.
2. **A failed INT 3 write is reported as success.** `gt_loop_set_cb`
   returns TRUE.
3. **Teardown un-maps the wrong gfn.** `gt_destroy_page_record` resets the
   *shadow* gfn, not the original frame, so the shadow view keeps a
   dangling remap.
4. **A failed copy leaves the shadow view executing zeros.** The frame is
   remapped before the copy, so the shadow view runs a zero page.
5. **An INT 3 event pending at quit kills its thread.** The event is
   handled after the tables are emptied, finds no record, and is
   re-injected into the guest.
6. **A window opened before quit switches the VCPU back.** The step event
   of a single-step window that was open at quit sets the shadow view
   again.
7. **VF: a failed return-slot read hijacks a direct call.**
   `vf_breakpoint_cb` ignores the status of `vmi_read_64_pa` and compares
   the uninitialised `ret_addr` with `return_point_addr`. It can then
   write the trampoline over the return address of a direct kernel call.
8. **VF: the stale step event can leave a VCPU paused for good.** A step
   event dispatched through `&curr` may kill the tracer. No teardown runs,
   and the VCPU waits on a ring nobody reads.
9. **The shadow copy goes stale under kernel patching.** The page is
   copied into the shadow frame once, by `gt_setup_mem_trap`. A later
   kernel patch is redirected by `gt_mem_rw_cb` to the original frame,
   as it should be, but nothing refreshes the shadow copy. Every VCPU in
   the shadow view goes on executing the pre-patch code. The spec only
   says that removal keeps later patches (section 4.3, P3); it is silent
   on patches made while a record is live. `WritesReachOriginal`, which
   passes, shows that the patch itself is never lost.
10. **A thread that never returns corrupts a stack at teardown.** A call
    to a function that never returns (`exit_group`) leaves its
    `gt_ret_addr_mapping` entry. `gt_loop_quit`'s drain then writes
    `return_addr` into a stack word that no longer holds the trampoline.
11. **Max memory is set in bytes.** `xc_domain_setmaxmem` takes KiB, but
    `gt_allocate_shadow_frame` and `gt_loop_free` pass sizes in bytes.
    After `gt_loop_free` the guest's max memory is 1024 times its initial
    value. The TODO at line 709 ("isn't decreasing main memory") is this
    symptom, and VF's `vf_teardown_state` does the same.
12. **A constructor failure with NULL `xch` leaves the guest paused.** An
    unknown OS type, or a failing `xc_interface_open`, reaches
    `gt_loop_free` with the guest paused and `xch` NULL. If the process
    dies in `xc_altp2m_destroy_view`, nobody resumes the guest.
13. **A `libxl_ctx_alloc` failure sets dom0's max memory to 0.** `domid`
    is still 0 from `g_new0`, and `init_mem_size` is still 0.
14. **A zero `vmi_get_memsize` sets the guest's max memory to 0.**
15. **A failed trampoline write leaves a stale entry.** `gt_breakpoint_cb`
    records the call before it writes the trampoline address and ignores
    the write's status. The thread returns normally, and the drain later
    writes `return_addr` over another call's return address.
16. **A failed restore leaves the trampoline on the stack.**
    `gt_restore_return_addr` gives up on a failed translation or write,
    and the slot still holds the trampoline address after teardown.

The VF variant also shares finding 5's teardown crash. A thread that has
already returned into the trampoline when `main` reaches `done` executes
the trampoline INT 3 after `vmi_destroy` and dies. With no faults,
`GuestSurvivesTeardown` fails on `MCVisorFlow` in the same way. No
separate run is kept for it.

PROJECT.json lists these as findings.

### Bounds

- **Table.** Two frames, two shadow gfns, three symbols. Two of the
  symbols share a frame, so both the "page record exists" and "child
  exists" paths are reached. `MaxCurMem = 3` bounds how far
  `curr_mem_size` can grow through repeated allocation failures.
- **VF faults.** The guest of `MCGuestTrace`, without patching. All five `main` and dispatcher
  fault points are enabled in the passing run, so every action fires.
- **Guest.** One frame with two traced functions. Two VCPUs, so a trap on
  one interleaves with a scan or trap on the other. Two threads.
  `MaxOpen = 2`. These are enough for every callback path: direct calls,
  system-call entries, the trampoline, mem-access traps on reads and
  writes, and teardown with events pending. One patch site (offset 1,
  `sys_read`) is enough for a patch before, during and after tracing, and
  for a patch of a byte that later gets INT 3; a second site multiplies
  the state space by four and keeps the run near five minutes.
- **Memory.** `MemPages = 2`: any non-zero size shows the unit mismatch,
  and 0 is the `vmi_get_memsize` failure.
- **Thread exit.** `guest_thread_exit` makes `sys_exit` the second traced
  function and a `NoReturn` one.
- **VF.** The guest of `MCGuestTrace` without patching. The VF table code
  is the library's, whose shadow copy the `guest_shadow_copy` run checks.

### Deadlock, fairness and liveness

- **Deadlock is not checked.** After `gt_loop_free`, or once every thread
  has crashed, the system really does stop. It also stops when the tracer
  dies inside `gt_loop_free` with the guest paused (finding 12).
- **Thread exit.** `ThreadExit` is kept out of `Next`. It is added only by
  `ExitSpec`, in run `guest_thread_exit`, because it breaks pairing by
  design. The passing runs check the guest whose traced calls all return.
- **Library fairness.** `GuestTrace!Fairness` is weak fairness of
  `BreakpointCb`, `MemRwCb` and `SinglestepCb` on each VCPU. This is
  justified because the listen loop of `gt_loop_run` calls
  `vmi_events_listen` until `gt_interrupted`, and libvmi runs the callback
  of every event on the ring. Nothing is assumed of the guest, of the
  application's calls (`set_cb`, quit, free) or of failures.
  - `EventsHandled` checks that, while the loop listens, every trapped
    VCPU is eventually resumed. Once the listen loop has ended (a listen
    error, or `gt_interrupted` after quit), a trapped VCPU waits until the
    application calls `gt_loop_free`. Nothing in the library makes it
    call, so the property lets the loop stop first. The dropped-callback
    mutant (`DeliverNoResume`) breaks it.
- **VF fairness.** `VfFairness` adds weak fairness of `VfStart` and
  `VfExit`: `main` runs its own start-up, and it runs `done` once it
  reaches it. Signals are not assumed.
  - `VfReleasedByTracer` checks that every trapped VCPU is released,
    unless the process died.
  - `VfEventsReleased` drops the "unless the process died" case. Run
    `vf_stale_step` shows that it fails.
- **Refinement.** `CallTracer` is the abstract tracker: at most one traced
  call per thread, entries only while tracing, and one drain at teardown.
  `Tracker == INSTANCE CallTracer WITH calls <- retmap, tracing <- ~torn`.
  The property `CallTracerRefined == Tracker!Spec` is checked for both
  variants.
- **Action properties.** `HijackOnlyCanonical` says that a slot becomes T
  only where it held R. The library's call-site path checks exactly this
  (line 330), so the property is checked only on VF, where the unchecked
  read breaks it (`vf_readret`). `RestoreOnlyHijacked` says a drained
  entry changes only a slot that held T (`guest_thread_exit`).
- **Properties not kept.** `ShadowFramesOwned` without the `~torn` guard
  held only by construction in the guest run (one frame, no install
  failures). Its content lives on in `NoDoubleAllocation` (P2), which the
  install-failure run checks. The frames that failed installs leak at
  teardown are not claimed to be released (spec section 9).

### Mutants

PROJECT.json names one mutant for every property of every passing run. A
mutant replaces one mapped definition with a plausible bug, for example:

- the INT 3 byte is not written;
- the trampoline write is omitted;
- `sysret_cb` is skipped;
- `VMM_PAGETABLE_ID` is dropped from the single-step response;
- the mem-access trap is not armed;
- the child is not inserted.

## Not modelled

- **Trampoline and return-point discovery.** Disassembly and memory scans
  are not modelled; only their success or failure is.
- **Parts of the VF variant.**
  - `vf_allocate_shadow_page` is covered through `BreakpointTable` but
    not mapped on its own.
  - Trampoline discovery is modelled only by its success or failure.
  - The print functions are not modelled.
- **Altp2m enablement.** Whether altp2m is enabled on the domain is not a
  variable. Only the view each VCPU runs in is.

## Plan for later work

1. The VF variant's own allocator and start-up failures at the same
   level of detail as `gt_loop_new`.
