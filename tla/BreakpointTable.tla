--------------------------- MODULE BreakpointTable ---------------------------
(***************************************************************************)
(* The breakpoint table and shadow-frame allocator of trace-syscalls.c:    *)
(* gt_page_translation (frame -> shadow frame), gt_page_record_collection  *)
(* (shadow frame -> page record with its children, offset -> paddr         *)
(* record), the shadow copies of the monitored frames, the shadow SLAT     *)
(* view and the mem-access traps armed on it.                              *)
(*                                                                         *)
(* gt_setup_mem_trap is a chain of hypervisor calls, each of which can     *)
(* fail and end the chain through "goto done" without undoing what came    *)
(* before.  The sub-steps that may fail in a run are the set Failable.     *)
(* The sequential C code is modelled as operators that map a table record  *)
(* to the SET of (table, result) pairs it can produce, one element per     *)
(* way the remaining calls can succeed or fail.                            *)
(***************************************************************************)
EXTENDS Naturals, FiniteSets, FiniteSetsExt, Sequences

CONSTANTS
  Frames,        \* original guest frames that hold traced functions
  ShadowFrames,  \* free gfns the hypervisor can populate as shadow frames
  Offsets,       \* in-frame offsets of the traced functions
  Funcs,         \* kernel symbols passed to gt_loop_set_cb
  FrameOf,       \* [Funcs -> Frames]: frame of the symbol's physical address
  OffsetOf,      \* [Funcs -> Offsets]: its offset in that frame
  Failable,      \* sub-steps whose failure this run explores
  MaxCurMem,     \* bound on curMem: every failed reserve/populate grows it
  MemPages,      \* the guest's memory at gt_loop_new, in pages
  NONE           \* NULL / absent hash-table entry / gfn 0

ASSUME FrameOf \in [Funcs -> Frames] /\ OffsetOf \in [Funcs -> Offsets]
ASSUME Frames \cap ShadowFrames = {}
\* Each frame needs at most one shadow frame, so the pool never runs dry.
ASSUME Cardinality(ShadowFrames) >= Cardinality(Frames)

\* Calls of gt_loop_set_cb / gt_setup_mem_trap / gt_allocate_shadow_frame
\* whose failure is explored when named in Failable.
FailurePoints ==
  { "symbol",     \* vmi_translate_ksym2v returns 0
    "translate",  \* vmi_translate_kv2p returns 0
    "maxmem",     \* xc_domain_setmaxmem
    "reserve",    \* xc_domain_increase_reservation_exact
    "populate",   \* xc_domain_populate_physmap_exact
    "changegfn",  \* xc_altp2m_change_gfn (frame -> shadow)
    "copy",       \* vmi_read_pa / vmi_write_pa of the page copy
    "int3write",  \* vmi_write_8_pa of the breakpoint byte
    "vmiinit",    \* gt_loop_new: vmi_init
    "ostype",     \* gt_loop_new: vmi_get_ostype is neither Linux nor Windows
    "xcopen",     \* gt_loop_new: xc_interface_open
    "libxl",      \* gt_loop_new: libxl_ctx_alloc
    "domid",      \* gt_loop_new: libxl_name_to_domid
    "memsize",    \* gt_loop_new: vmi_get_memsize returns 0
    "altp2m",     \* gt_loop_new: xc_altp2m_set_domain_state(1)
    "createview", \* gt_loop_new: xc_altp2m_create_view
    "trampwrite", \* gt_breakpoint_cb: unchecked vmi_write_64_pa of the trampoline
    "restore",    \* gt_restore_return_addr: translation or stack write fails
    "switchview", \* gt_loop_run: xc_altp2m_switch_to_view(shadow_view)
    "setup",      \* gt_loop_run: event setup, return point or trampoline
    "listen",     \* vmi_events_listen returns an error
    "readret",    \* trace_syscalls.c: unchecked vmi_read_64_pa of the return slot
    "stepevent" } \* trace_syscalls.c: step event registered from a dead stack copy
ASSUME Failable \subseteq FailurePoints

\* A byte at a traced offset, as far as the properties tell bytes apart:
\* the kernel's byte as loaded, the byte a kernel patch wrote, the INT 3
\* opcode, or the zero fill of a freshly populated frame.
CodeBytes == {"orig", "patched"}
Bytes == CodeBytes \cup {"int3", "zero"}
Gfns == Frames \cup ShadowFrames

GT_PAGE_SIZE == 4096
\* loop->init_mem_size: vmi_get_memsize, the guest's memory in bytes.
InitMemSize == MemPages * GT_PAGE_SIZE
\* The guest's max memory before tracing, in KiB (xc_domain_setmaxmem's
\* unit): its memory size.
InitMaxmemKiB == InitMemSize \div 1024

VARIABLES
  translation,  \* gt_page_translation: [Frames -> ShadowFrames \cup {NONE}]
  pageFrame,    \* gt_page_record_collection: shadow -> record's frame, or NONE
  children,     \* page_record->children: shadow -> offset -> Func or NONE
  shadowMem,    \* contents of each shadow frame at the traced offsets
  slat,         \* shadow view: gfn -> gfn it is backed by (identity = unchanged)
  memtrap,      \* frames with VMI_MEMACCESS_RW set in the shadow view
  populated,    \* shadow frames currently populated in the guest
  curMem,       \* loop->curr_mem_size - init_mem_size, in pages
  maxmem,       \* the guest's max memory in Xen, in KiB
  registered,   \* Funcs for which gt_loop_set_cb returned TRUE (history)
  torn,         \* the tables were emptied by gt_loop_quit / gt_loop_free
  origMem       \* the original frames' bytes at the traced offsets (guest memory)

tableVars == <<translation, pageFrame, children, shadowMem, slat, memtrap,
               populated, curMem, maxmem>>
bptVars == <<tableVars, registered, torn, origMem>>

\* The table as one record, so that the C helpers can be composed.
Tab == [translation |-> translation, pageFrame |-> pageFrame,
        children |-> children, shadowMem |-> shadowMem, slat |-> slat,
        memtrap |-> memtrap, populated |-> populated, curMem |-> curMem,
        maxmem |-> maxmem]

SetTab(t) ==
  /\ translation' = t.translation
  /\ pageFrame' = t.pageFrame
  /\ children' = t.children
  /\ shadowMem' = t.shadowMem
  /\ slat' = t.slat
  /\ memtrap' = t.memtrap
  /\ populated' = t.populated
  /\ curMem' = t.curMem
  /\ maxmem' = t.maxmem

\* The outcomes S of a call that fails, when its failure is explored.
OnFailure(step, S) == IF step \in Failable THEN S ELSE {}

EmptyTab ==
  [translation |-> [f \in Frames |-> NONE],
   pageFrame |-> [s \in ShadowFrames |-> NONE],
   children |-> [s \in ShadowFrames |-> [o \in Offsets |-> NONE]],
   shadowMem |-> [s \in ShadowFrames |-> [o \in Offsets |-> "zero"]],
   slat |-> [g \in Gfns |-> g],
   memtrap |-> {},
   populated |-> {},
   curMem |-> 0,
   maxmem |-> InitMaxmemKiB]

TableInit ==
  /\ translation = EmptyTab.translation
  /\ pageFrame = EmptyTab.pageFrame
  /\ children = EmptyTab.children
  /\ shadowMem = EmptyTab.shadowMem
  /\ slat = EmptyTab.slat
  /\ memtrap = EmptyTab.memtrap
  /\ populated = EmptyTab.populated
  /\ curMem = EmptyTab.curMem
  /\ maxmem = EmptyTab.maxmem
  /\ registered = {}
  /\ torn = FALSE
  /\ origMem = [f \in Frames |-> [o \in Offsets |-> "orig"]]

(***************************************************************************)
(* gt_paddr_record_from_pa: frame -> shadow via gt_page_translation,       *)
(* shadow -> page record, offset -> child.  NONE when any hop misses.      *)
(***************************************************************************)
RecordAt(frame, off) ==
  LET s == translation[frame] IN
  IF s = NONE THEN NONE
  ELSE IF pageFrame[s] = NONE THEN NONE
  ELSE children[s][off]

\* loop->curr_mem_size, in bytes.
CurrMemSize(t) == InitMemSize + t.curMem * GT_PAGE_SIZE

\* Mutant: a failed setmaxmem "undoes" the page it never added.
AllocateShadowFrameUndoAll(t) ==
  LET grown == [t EXCEPT !.curMem = @ + 1, !.maxmem = CurrMemSize(t) + GT_PAGE_SIZE] IN
       OnFailure("maxmem", {[tab |-> [t EXCEPT !.curMem = @ - 1], gfn |-> NONE]})
  \cup OnFailure("reserve", {[tab |-> grown, gfn |-> NONE]})
  \cup OnFailure("populate", {[tab |-> grown, gfn |-> NONE]})
  \cup {[tab |-> [grown EXCEPT !.populated = @ \cup {g}], gfn |-> g] :
          g \in ShadowFrames \ t.populated}

(***************************************************************************)
(* gt_allocate_shadow_frame: raise maxmem by one page, then reserve and    *)
(* populate one gfn.  curr_mem_size is raised as soon as setmaxmem         *)
(* succeeds, and is not lowered when a later call fails.  setmaxmem is     *)
(* passed curr_mem_size + GT_PAGE_SIZE, a size in bytes.                   *)
(***************************************************************************)
AllocateShadowFrame(t) ==
  LET grown == [t EXCEPT !.curMem = @ + 1, !.maxmem = CurrMemSize(t) + GT_PAGE_SIZE] IN
       OnFailure("maxmem", {[tab |-> t, gfn |-> NONE]})
  \cup OnFailure("reserve", {[tab |-> grown, gfn |-> NONE]})
  \cup OnFailure("populate", {[tab |-> grown, gfn |-> NONE]})
  \cup {[tab |-> [grown EXCEPT !.populated = @ \cup {g}], gfn |-> g] :
          g \in ShadowFrames \ t.populated}

\* Mutant: the child is inserted but the INT 3 byte is never written.
AddBreakpointNoWrite(t, f, s) ==
  {[tab |-> [t EXCEPT !.children[s][OffsetOf[f]] = f], ok |-> TRUE]}

\* Mutant: INT 3 is written but the paddr record is never inserted.
AddBreakpointNoChild(t, f, s) ==
  {[tab |-> [t EXCEPT !.shadowMem[s][OffsetOf[f]] = "int3"], ok |-> TRUE]}

(***************************************************************************)
(* Tail of gt_setup_mem_trap: create the paddr record, write INT 3 into    *)
(* the shadow frame, insert the child.  A failed write jumps to done with  *)
(* the new record already allocated, so the caller is told it succeeded.   *)
(***************************************************************************)
AddBreakpoint(t, f, s) ==
       OnFailure("int3write", {[tab |-> t, ok |-> TRUE]})
  \cup {[tab |-> [t EXCEPT !.shadowMem[s][OffsetOf[f]] = "int3",
                           !.children[s][OffsetOf[f]] = f],
         ok |-> TRUE]}

\* Mutant: vmi_set_mem_event on the frame is left out.
EnsurePageRecordNoTrap(t, f, s) ==
  IF t.pageFrame[s] = NONE
  THEN AddBreakpoint([t EXCEPT !.shadowMem[s] = origMem[FrameOf[f]],
                               !.pageFrame[s] = FrameOf[f]], f, s)
  ELSE IF t.children[s][OffsetOf[f]] # NONE
       THEN {[tab |-> t, ok |-> TRUE]}
       ELSE AddBreakpoint(t, f, s)

(***************************************************************************)
(* Middle of gt_setup_mem_trap, once translation maps the frame to s:      *)
(* without a page record, copy the original frame into s, create the       *)
(* record and arm the mem-access trap; with one, an existing child ends    *)
(* the call successfully (idempotent install).                             *)
(***************************************************************************)
EnsurePageRecord(t, f, s) ==
  IF t.pageFrame[s] = NONE
  THEN      OnFailure("copy", {[tab |-> t, ok |-> FALSE]})
       \cup AddBreakpoint([t EXCEPT !.shadowMem[s] = origMem[FrameOf[f]],
                                    !.pageFrame[s] = FrameOf[f],
                                    !.memtrap = @ \cup {FrameOf[f]}], f, s)
  ELSE IF t.children[s][OffsetOf[f]] # NONE
       THEN {[tab |-> t, ok |-> TRUE]}
       ELSE AddBreakpoint(t, f, s)

\* Mutant: a frame counts as set up only once it has a page record, so a
\* retry after a failed change_gfn or copy allocates a second shadow frame.
SetupMemTrapByRecord(t, f) ==
  LET frame == FrameOf[f] IN
  IF t.translation[frame] # NONE /\ t.pageFrame[t.translation[frame]] # NONE
  THEN EnsurePageRecord(t, f, t.translation[frame])
  ELSE UNION
    { IF a.gfn = NONE THEN {[tab |-> a.tab, ok |-> FALSE]}
      ELSE LET t1 == [a.tab EXCEPT !.translation[frame] = a.gfn] IN
                OnFailure("changegfn", {[tab |-> t1, ok |-> FALSE]})
           \cup EnsurePageRecord([t1 EXCEPT !.slat[frame] = a.gfn], f, a.gfn)
      : a \in AllocateShadowFrame(t) }

(***************************************************************************)
(* Head of gt_setup_mem_trap: translate, look the frame up, and when it    *)
(* has no shadow yet allocate one, record it in gt_page_translation, and   *)
(* remap the frame in the shadow view.  The translation entry is inserted  *)
(* before xc_altp2m_change_gfn, and stays when that call fails.            *)
(***************************************************************************)
SetupMemTrap(t, f) ==
  LET frame == FrameOf[f] IN
       OnFailure("translate", {[tab |-> t, ok |-> FALSE]})
  \cup IF t.translation[frame] # NONE
       THEN EnsurePageRecord(t, f, t.translation[frame])
       ELSE UNION
         { IF a.gfn = NONE THEN {[tab |-> a.tab, ok |-> FALSE]}
           ELSE LET t1 == [a.tab EXCEPT !.translation[frame] = a.gfn] IN
                     OnFailure("changegfn", {[tab |-> t1, ok |-> FALSE]})
                \cup EnsurePageRecord([t1 EXCEPT !.slat[frame] = a.gfn], f, a.gfn)
           : a \in AllocateShadowFrame(t) }

(***************************************************************************)
(* gt_loop_set_cb(loop, f, ...): with the guest paused, resolve the symbol *)
(* and set up its trap; TRUE when gt_setup_mem_trap returned a record.     *)
(***************************************************************************)
SetCbOutcomes(t, f) ==
  OnFailure("symbol", {[tab |-> t, ok |-> FALSE]}) \cup SetupMemTrap(t, f)

\* One gt_loop_set_cb call on the current tables.
SetCbStep(f) ==
  \E out \in SetCbOutcomes(Tab, f) :
    /\ SetTab(out.tab)
    /\ registered' = IF out.ok THEN registered \cup {f} ELSE registered

(***************************************************************************)
(* gt_loop_set_cbs: gt_loop_set_cb for each entry of the callbacks array   *)
(* in order, a failed entry skipped; the possible [tables, registered]     *)
(* outcomes.  (gt_interrupted, the other loop condition, is only set by    *)
(* gt_loop_quit, after which no callbacks are set in this model.)          *)
(***************************************************************************)
RECURSIVE SetCbsFrom(_, _, _)
SetCbsFrom(t, reg, cbs) ==
  IF cbs = <<>> THEN {[tab |-> t, reg |-> reg]}
  ELSE UNION { SetCbsFrom(out.tab,
                          IF out.ok THEN reg \cup {Head(cbs)} ELSE reg,
                          Tail(cbs))
               : out \in SetCbOutcomes(t, Head(cbs)) }

\* gt_destroy_paddr_record -> gt_remove_breakpoint for each child: the
\* byte at the child's offset is copied back from the original frame as
\* it is now (vmi_read_8_pa of the frame), so a kernel patch is kept.
RemoveBreakpoints(t, s) ==
  [o \in Offsets |-> IF t.children[s][o] # NONE THEN origMem[t.pageFrame[s]][o]
                                               ELSE t.shadowMem[s][o]]

(***************************************************************************)
(* gt_destroy_page_record, run by the page-record table's destroy notify:  *)
(* destroy the children (gt_destroy_paddr_record -> gt_remove_breakpoint   *)
(* copies the original byte back into the shadow frame), clear the         *)
(* mem-access trap, call xc_altp2m_change_gfn(shadow_view, shadow_frame,   *)
(* ~0) and return the frame with decrease_reservation.  Note the gfn the   *)
(* code resets is the shadow frame, not the remapped original frame.       *)
(***************************************************************************)
DestroyPageRecord(t, s) ==
  [t EXCEPT !.shadowMem[s] = RemoveBreakpoints(t, s),
            !.children[s] = [o \in Offsets |-> NONE],
            !.memtrap = @ \ {t.pageFrame[s]},
            !.slat[s] = s,
            !.populated = @ \ {s},
            !.pageFrame[s] = NONE]

(***************************************************************************)
(* The table part of gt_loop_quit: g_hash_table_remove_all on              *)
(* gt_page_translation (no destroy notify) and on                          *)
(* gt_page_record_collection (destroy notify per record).                  *)
(***************************************************************************)
ClearTables(t) ==
  LET live == {s \in ShadowFrames : t.pageFrame[s] # NONE} IN
  [FoldSet(LAMBDA s, acc : DestroyPageRecord(acc, s), t, live)
     EXCEPT !.translation = [f \in Frames |-> NONE]]

\* Standalone behaviour of the table: installs, then one teardown.
SetCb(f) ==
  /\ ~torn
  /\ SetCbStep(f)
  /\ UNCHANGED <<torn, origMem>>

Teardown ==
  /\ ~torn
  /\ SetTab(ClearTables(Tab))
  /\ torn' = TRUE
  /\ UNCHANGED <<registered, origMem>>

TableNext == (\E f \in Funcs : SetCb(f)) \/ Teardown

TableSpec == TableInit /\ [][TableNext]_bptVars

\* State constraint: explore curr_mem_size growth up to MaxCurMem pages.
CurMemBound == curMem <= MaxCurMem

-----------------------------------------------------------------------------
TableTypeOK ==
  /\ maxmem \in Nat
  /\ translation \in [Frames -> ShadowFrames \cup {NONE}]
  /\ pageFrame \in [ShadowFrames -> Frames \cup {NONE}]
  /\ children \in [ShadowFrames -> [Offsets -> Funcs \cup {NONE}]]
  /\ shadowMem \in [ShadowFrames -> [Offsets -> Bytes]]
  /\ slat \in [Gfns -> Gfns]
  /\ memtrap \subseteq Frames
  /\ populated \subseteq ShadowFrames
  /\ curMem \in Nat
  /\ registered \subseteq Funcs
  /\ torn \in BOOLEAN
  /\ origMem \in [Frames -> [Offsets -> CodeBytes]]

(***************************************************************************)
(* I1-I3 of the spec, for every page record gt_setup_mem_trap created: its *)
(* frame translates to it, the shadow view backs the frame by it, the      *)
(* mem-access trap is armed on the frame, and every child offset holds     *)
(* INT 3 in the shadow frame.                                              *)
(***************************************************************************)
RecordsArmed ==
  \A s \in ShadowFrames : pageFrame[s] # NONE =>
    /\ translation[pageFrame[s]] = s
    /\ slat[pageFrame[s]] = s
    /\ pageFrame[s] \in memtrap
    /\ \A o \in Offsets : children[s][o] # NONE => shadowMem[s][o] = "int3"

(***************************************************************************)
(* The shadow view shows the kernel with only the breakpoints added: a     *)
(* frame the view backs by a live shadow frame reads, at every offset, as  *)
(* the original frame's current byte, except INT 3 exactly where a child   *)
(* is recorded.  A page copy or remap done in the wrong order, a           *)
(* breakpoint byte left behind by teardown, or a copy that no longer       *)
(* matches a patched kernel shows up here.                                 *)
(***************************************************************************)
ShadowViewFaithful ==
  \A f \in Frames : slat[f] \in populated =>
    \A o \in Offsets :
      shadowMem[slat[f]][o] = IF pageFrame[slat[f]] # NONE
                                 /\ children[slat[f]][o] # NONE
                              THEN "int3" ELSE origMem[f][o]

(***************************************************************************)
(* P2, no duplicate install, whatever failed before: while the tables      *)
(* live, no frame has been given two shadow frames, even when an earlier   *)
(* gt_setup_mem_trap for the frame failed after allocating one and a later *)
(* gt_loop_set_cb in the same frame retries: every populated shadow frame  *)
(* is the translation of exactly one frame.                                *)
(***************************************************************************)
NoDoubleAllocation ==
  ~torn => \A s \in populated : Cardinality({f \in Frames : translation[f] = s}) = 1

(***************************************************************************)
(* gt_loop_set_cb returned TRUE for f only if f's breakpoint is live: the  *)
(* lookup finds f's record and the shadow view executes INT 3 at f.        *)
(***************************************************************************)
InstallHonest ==
  ~torn => \A f \in registered :
    /\ RecordAt(FrameOf[f], OffsetOf[f]) = f
    /\ slat[FrameOf[f]] \in populated
    /\ shadowMem[slat[FrameOf[f]]][OffsetOf[f]] = "int3"

(***************************************************************************)
(* Teardown restores the SLAT mapping (data model, page record): the       *)
(* shadow view never backs a frame by a shadow frame that has been given   *)
(* back to the hypervisor.                                                 *)
(***************************************************************************)
NoDanglingRemap ==
  \A f \in Frames : slat[f] = f \/ slat[f] \in populated
=============================================================================
