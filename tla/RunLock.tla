------------------------------ MODULE RunLock ------------------------------
(***************************************************************************)
(* What a ThreadStore promises about the per-thread run lock               *)
(* (platform/stores.py, class ThreadStore), with no word about how a       *)
(* backend keeps it.  A thread is unborn until create() returns its id,    *)
(* live while the store knows it, and gone once deleted: ids are UUIDs and *)
(* never come back.  The lock of a live thread is the status "busy".       *)
(*                                                                         *)
(* "holders" are the requests that believe they own the lock: their        *)
(* try_acquire_run_lock returned a Thread and their release_run_lock has   *)
(* not been applied yet.                                                   *)
(***************************************************************************)
CONSTANTS
    Threads,        \* thread ids
    Workers,        \* concurrent request handlers
    Assistants,     \* graph names a run may ask for
    None            \* "no assistant bound yet"

VARIABLES
    phase,          \* thread -> "unborn", "live" or "gone"
    locked,         \* thread -> is its status "busy"
    bound,          \* thread -> the assistant it is bound to, or None
    holders         \* thread -> requests that own its lock

vars == <<phase, locked, bound, holders>>

TypeOK ==
    /\ phase \in [Threads -> {"unborn", "live", "gone"}]
    /\ locked \in [Threads -> BOOLEAN]
    /\ bound \in [Threads -> Assistants \union {None}]
    /\ holders \in [Threads -> SUBSET Workers]

Init ==
    /\ phase = [t \in Threads |-> "unborn"]
    /\ locked = [t \in Threads |-> FALSE]
    /\ bound = [t \in Threads |-> None]
    /\ holders = [t \in Threads |-> {}]

-----------------------------------------------------------------------------

Create(t) ==
    /\ phase[t] = "unborn"
    /\ phase' = [phase EXCEPT ![t] = "live"]
    /\ UNCHANGED <<locked, bound, holders>>

\* The lock is free and the thread unbound, or bound to this assistant.
Lockable(t, a) ==
    /\ phase[t] = "live"
    /\ ~locked[t]
    /\ holders[t] = {}
    /\ bound[t] \in {None, a}

Acquire(w, t, a) ==
    /\ Lockable(t, a)
    /\ locked' = [locked EXCEPT ![t] = TRUE]
    /\ bound' = [bound EXCEPT ![t] = a]
    /\ holders' = [holders EXCEPT ![t] = {w}]
    /\ UNCHANGED phase

\* The lock is taken for a caller that never learns it.
Strand(t, a) ==
    /\ Lockable(t, a)
    /\ locked' = [locked EXCEPT ![t] = TRUE]
    /\ bound' = [bound EXCEPT ![t] = a]
    /\ UNCHANGED <<phase, holders>>

Release(w, t) ==
    /\ phase[t] = "live"
    /\ w \in holders[t]
    /\ locked' = [locked EXCEPT ![t] = FALSE]
    /\ holders' = [holders EXCEPT ![t] = @ \ {w}]
    /\ UNCHANGED <<phase, bound>>

\* The owner dies, or finds its thread deleted: the lock is left as it is.
Abandon(w, t) ==
    /\ w \in holders[t]
    /\ holders' = [holders EXCEPT ![t] = @ \ {w}]
    /\ UNCHANGED <<phase, locked, bound>>

\* Only a lock nobody owns may be taken back.
Reclaim(t) ==
    /\ phase[t] = "live"
    /\ locked[t]
    /\ holders[t] = {}
    /\ locked' = [locked EXCEPT ![t] = FALSE]
    /\ UNCHANGED <<phase, bound, holders>>

\* delete() asks for no lock: a run may go on over a deleted thread.
Delete(t) ==
    /\ phase[t] = "live"
    /\ phase' = [phase EXCEPT ![t] = "gone"]
    /\ locked' = [locked EXCEPT ![t] = FALSE]
    /\ UNCHANGED <<bound, holders>>

\* The store's process is lost with all it held (the in-memory store).
Wipe ==
    /\ phase' = [t \in Threads |-> IF phase[t] = "live" THEN "gone" ELSE phase[t]]
    /\ locked' = [t \in Threads |-> FALSE]
    /\ holders' = [t \in Threads |-> {}]
    /\ UNCHANGED bound

Next ==
    \/ \E t \in Threads : Create(t) \/ Reclaim(t) \/ Delete(t)
    \/ \E t \in Threads, a \in Assistants : Strand(t, a)
    \/ \E w \in Workers, t \in Threads : Release(w, t) \/ Abandon(w, t)
    \/ \E w \in Workers, t \in Threads, a \in Assistants : Acquire(w, t, a)
    \/ Wipe

Spec == Init /\ [][Next]_vars

=============================================================================
