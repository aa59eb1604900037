----------------------------- MODULE CallTracer -----------------------------
(***************************************************************************)
(* What the call-state tracker promises (spec, Call-State Tracker and      *)
(* Dispatcher): while tracing, a thread has at most one traced call in     *)
(* flight; an entry is recorded only while tracing and only for a thread   *)
(* with none; a return consumes the recorded entry; teardown drains every *)
(* entry at once and tracing never resumes.                                *)
(***************************************************************************)
CONSTANTS THREADS, Funcs, NONE

VARIABLES
  calls,    \* thread -> traced function whose return is awaited, or NONE
  tracing   \* the tracker still accepts entries

Init ==
  /\ calls = [t \in THREADS |-> NONE]
  /\ tracing = TRUE

Enter(t, f) ==
  /\ tracing
  /\ calls[t] = NONE
  /\ calls' = [calls EXCEPT ![t] = f]
  /\ UNCHANGED tracing

Leave(t) ==
  /\ calls[t] # NONE
  /\ calls' = [calls EXCEPT ![t] = NONE]
  /\ UNCHANGED tracing

Drain ==
  /\ tracing
  /\ tracing' = FALSE
  /\ calls' = [t \in THREADS |-> NONE]

Next ==
  \/ \E t \in THREADS, f \in Funcs : Enter(t, f)
  \/ \E t \in THREADS : Leave(t)
  \/ Drain

Spec == Init /\ [][Next]_<<calls, tracing>>
=============================================================================
