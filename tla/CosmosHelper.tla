---------------------------- MODULE CosmosHelper ----------------------------
(***************************************************************************)
(* create_cosmos_checkpointer and close_cosmos_checkpointer                *)
(* (checkpointers/cosmos.py), called by the threads of one process.  The   *)
(* constructor of the library's saver reads the account from two           *)
(* environment variables, which create swaps under _env_lock and restores. *)
(* A saver is named by the call that made it, and so is the account that   *)
(* this call was given.                                                    *)
(***************************************************************************)
EXTENDS Naturals

CONSTANTS
    Calls,          \* calls of create
    Closers,        \* threads that call close
    Foreign,        \* a saver that create did not make
    Absent,         \* an environment variable that is not set
    Deployed,       \* what the deployment set it to
    Nobody,         \* no call holds _env_lock
    MaxCloses       \* bound: calls of close

ASSUME NamesAssumption ==
    /\ Nobody \notin Calls
    /\ Foreign \notin Calls
    /\ Deployed \notin Calls /\ Absent \notin Calls
    /\ MaxCloses \in Nat

VARIABLES
    env,            \* COSMOSDB_ENDPOINT and COSMOSDB_KEY
    original,       \* what they were when the process started
    lock,           \* who holds _env_lock
    pc, old,        \* call -> its next statement; what it saved of the environment
    made, account,  \* the savers constructed, and what their constructors read
    weakrefs,       \* the library's class supports weak references
    attrs,          \* its savers take new attributes (both fail for some __slots__)
    fallback,       \* _USE_MARKER_FALLBACK
    tracked,        \* _managed_savers
    marked,         \* savers with _managed_by_cosmos_helper
    closed,         \* savers with _cosmos_helper_closed
    returned,       \* history: savers of which a close has returned
    close           \* closer -> its call

cosmosVars == <<env, original, lock, pc, old, made, account, weakrefs, attrs, fallback,
                tracked, marked, closed, returned, close>>
envVars == <<env, original, lock, old, made, account>>
classVars == <<weakrefs, attrs>>
trackVars == <<fallback, tracked, marked>>
closeVars == <<closed, returned, close>>

Setting == Calls \union {Absent, Deployed}
Account == [endpoint : Setting, key : Setting]
Savers == Calls \union {Foreign}
Held == {"endpoint", "key", "construct", "restoreEndpoint", "restoreKey", "leave"}

NoClose == [pc |-> "free", saver |-> Foreign, late |-> FALSE, calls |-> 0]

CosmosTypeOK ==
    /\ env \in Account /\ original \in [endpoint : {Absent, Deployed}, key : {Absent, Deployed}]
    /\ lock \in Calls \union {Nobody}
    /\ pc \in [Calls -> Held \union {"idle", "waiting", "track", "add", "flag", "mark",
                               "done", "raised"}]
    /\ old \in [Calls -> Account]
    /\ made \subseteq Calls /\ account \in [Calls -> Account]
    /\ weakrefs \in BOOLEAN /\ attrs \in BOOLEAN /\ fallback \in BOOLEAN
    /\ tracked \subseteq made /\ marked \subseteq made
    /\ closed \subseteq made /\ returned \subseteq made
    /\ close \in [Closers -> [pc : {"free", "check", "managed", "call", "mark", "discard"},
                              saver : Savers, late : BOOLEAN, calls : 0..MaxCloses]]

CosmosInit ==
    /\ original \in [endpoint : {Absent, Deployed}, key : {Absent, Deployed}]
    /\ env = original
    /\ lock = Nobody
    /\ pc = [c \in Calls |-> "idle"]
    /\ old = [c \in Calls |-> original]
    /\ made = {} /\ account = [c \in Calls |-> original]
    /\ weakrefs \in BOOLEAN /\ attrs \in BOOLEAN /\ fallback = FALSE
    /\ tracked = {} /\ marked = {} /\ closed = {} /\ returned = {}
    /\ close = [k \in Closers |-> NoClose]

-----------------------------------------------------------------------------
\* create.  A key is resolved and the library imported before the lock is taken; a
\* call that is refused there changes nothing.

Goto(c, step) == pc' = [pc EXCEPT ![c] = step]

Resolve(c) ==
    /\ pc[c] = "idle"
    /\ Goto(c, "waiting")
    /\ UNCHANGED <<envVars, classVars, trackVars, closeVars>>

\* Faulty: the lock is not taken.
TakeNoLock(c) ==
    /\ pc[c] = "waiting"
    /\ lock' = c
    /\ old' = [old EXCEPT ![c] = env]
    /\ Goto(c, "endpoint")
    /\ UNCHANGED <<env, original, made, account, classVars, trackVars, closeVars>>

TakeLock(c) ==
    /\ pc[c] = "waiting" /\ lock = Nobody
    /\ lock' = c
    /\ old' = [old EXCEPT ![c] = env]
    /\ Goto(c, "endpoint")
    /\ UNCHANGED <<env, original, made, account, classVars, trackVars, closeVars>>

SetEndpoint(c) ==
    /\ pc[c] = "endpoint"
    /\ env' = [env EXCEPT !.endpoint = c]
    /\ Goto(c, "key")
    /\ UNCHANGED <<original, lock, old, made, account, classVars, trackVars, closeVars>>

SetKey(c) ==
    /\ pc[c] = "key"
    /\ env' = [env EXCEPT !.key = c]
    /\ Goto(c, "construct")
    /\ UNCHANGED <<original, lock, old, made, account, classVars, trackVars, closeVars>>

Construct(c) ==
    /\ pc[c] = "construct"
    /\ made' = made \union {c}
    /\ account' = [account EXCEPT ![c] = env]
    /\ Goto(c, "restoreEndpoint")
    /\ UNCHANGED <<env, original, lock, old, classVars, trackVars, closeVars>>

\* Faulty: the environment is restored and the lock released after the
\* try statement, not in a finally clause.
UnwoundAtOnce == "raised"

\* Where an exception of the try statement goes to.
Unwound == "restoreEndpoint"

\* os.environ refuses a value that is no string, and a constructor may fail.
Raises(c) ==
    /\ pc[c] \in {"endpoint", "key", "construct"}
    /\ Goto(c, Unwound)
    /\ UNCHANGED <<envVars, classVars, trackVars, closeVars>>

\* Faulty: a variable that was not set is left as it is.
RestoredIfSet(was, now) == IF was = Absent THEN now ELSE was

\* What a variable is after it has been set back, or popped if it was not set.
Restored(was, now) == was

RestoreEndpoint(c) ==
    /\ pc[c] = "restoreEndpoint"
    /\ env' = [env EXCEPT !.endpoint = Restored(old[c].endpoint, env.endpoint)]
    /\ Goto(c, "restoreKey")
    /\ UNCHANGED <<original, lock, old, made, account, classVars, trackVars, closeVars>>

RestoreKey(c) ==
    /\ pc[c] = "restoreKey"
    /\ env' = [env EXCEPT !.key = Restored(old[c].key, env.key)]
    /\ Goto(c, "leave")
    /\ UNCHANGED <<original, lock, old, made, account, classVars, trackVars, closeVars>>

\* Faulty: an exception is swallowed.
LeaveAnyway(c) ==
    /\ pc[c] = "leave"
    /\ lock' = Nobody
    /\ Goto(c, "track")
    /\ UNCHANGED <<env, original, old, made, account, classVars, trackVars, closeVars>>

\* The lock is released, and an exception goes on to the caller.
Leave(c) ==
    /\ pc[c] = "leave"
    /\ lock' = Nobody
    /\ Goto(c, IF c \in made THEN "track" ELSE "raised")
    /\ UNCHANGED <<env, original, old, made, account, classVars, trackVars, closeVars>>

\* Faulty: only the call that finds out sets the marker.
TrackedOnce == IF fallback THEN "done" ELSE "add"

\* How a saver is tracked: by the WeakSet, until a call has found that it takes none.
TrackedBy == IF fallback THEN "mark" ELSE "add"

ReadFallback(c) ==
    /\ pc[c] = "track"
    /\ Goto(c, TrackedBy)
    /\ UNCHANGED <<envVars, classVars, trackVars, closeVars>>

AddToWeakSet(c) ==
    /\ pc[c] = "add"
    /\ IF weakrefs THEN tracked' = tracked \union {c} /\ Goto(c, "done")
       ELSE UNCHANGED tracked /\ Goto(c, "flag")
    /\ UNCHANGED <<envVars, classVars, fallback, marked, closeVars>>

\* The TypeError of the add makes all later calls use the marker.
SetFallback(c) ==
    /\ pc[c] = "flag"
    /\ fallback' = TRUE
    /\ Goto(c, "mark")
    /\ UNCHANGED <<envVars, classVars, tracked, marked, closeVars>>

\* AttributeError for a saver that takes no new attribute: create raises, and nobody
\* has the saver, whose client is open.
SetMarker(c) ==
    /\ pc[c] = "mark"
    /\ IF attrs THEN marked' = marked \union {c} /\ Goto(c, "done")
       ELSE UNCHANGED marked /\ Goto(c, "raised")
    /\ UNCHANGED <<envVars, classVars, fallback, tracked, closeVars>>

-----------------------------------------------------------------------------
\* close.  Nothing is locked: two threads may close one saver.

Returned == {c \in Calls : pc[c] = "done"}

To(k, step) == close' = [close EXCEPT ![k].pc = step]
CloseEnds(k) == close' = [close EXCEPT ![k].pc = "free", ![k].late = FALSE]

CloseBegin(k) ==
    /\ close[k].pc = "free" /\ close[k].calls < MaxCloses
    /\ \E s \in Returned \union {Foreign} :
        close' = [close EXCEPT ![k].pc = "check", ![k].saver = s, ![k].late = s \in returned,
                               ![k].calls = @ + 1]
    /\ UNCHANGED <<envVars, pc, classVars, trackVars, closed, returned>>

\* A saver that is closed needs nothing.
CheckClosed(k) ==
    /\ close[k].pc = "check"
    /\ IF close[k].saver \in closed THEN CloseEnds(k) ELSE To(k, "managed")
    /\ UNCHANGED <<envVars, pc, classVars, trackVars, closed, returned>>

IsManaged(s) == s \in tracked \union marked

\* TypeError for a saver that is not managed.
CheckManaged(k) ==
    /\ close[k].pc = "managed"
    /\ IF IsManaged(close[k].saver) THEN To(k, "call") ELSE CloseEnds(k)
    /\ UNCHANGED <<envVars, pc, classVars, trackVars, closed, returned>>

CallClose(k) ==
    /\ close[k].pc = "call"
    /\ To(k, "mark")
    /\ UNCHANGED <<envVars, pc, classVars, trackVars, closed, returned>>

\* The saver's own close raises: the saver stays managed, and may be closed again.
CloseRaises(k) ==
    /\ close[k].pc = "call"
    /\ CloseEnds(k)
    /\ UNCHANGED <<envVars, pc, classVars, trackVars, closed, returned>>

\* Faulty: the closed saver is only taken out of the WeakSet.
MarkNothing(k) ==
    /\ close[k].pc = "mark"
    /\ To(k, "discard")
    /\ UNCHANGED <<envVars, pc, classVars, trackVars, closed, returned>>

\* AttributeError for a saver that takes no new attribute: it stays managed, and its
\* client is closed once more by the next close.
MarkClosed(k) ==
    /\ close[k].pc = "mark"
    /\ IF attrs THEN closed' = closed \union {close[k].saver} /\ To(k, "discard")
       ELSE UNCHANGED closed /\ CloseEnds(k)
    /\ UNCHANGED <<envVars, pc, classVars, trackVars, returned>>

\* Without weak references discard raises TypeError, when all is done.
Discard(k) ==
    /\ close[k].pc = "discard"
    /\ IF weakrefs
       THEN /\ tracked' = tracked \ {close[k].saver}
            /\ returned' = returned \union {close[k].saver}
       ELSE UNCHANGED <<tracked, returned>>
    /\ CloseEnds(k)
    /\ UNCHANGED <<envVars, pc, classVars, fallback, marked, closed>>

-----------------------------------------------------------------------------

CreateStep(c) ==
    \/ TakeLock(c) \/ SetEndpoint(c) \/ SetKey(c) \/ Construct(c) \/ Raises(c)
    \/ RestoreEndpoint(c) \/ RestoreKey(c) \/ Leave(c)
    \/ ReadFallback(c) \/ AddToWeakSet(c) \/ SetFallback(c) \/ SetMarker(c)

CloseStep(k) ==
    CheckClosed(k) \/ CheckManaged(k) \/ CallClose(k) \/ CloseRaises(k) \/ MarkClosed(k)
        \/ Discard(k)

CosmosNext ==
    \/ \E c \in Calls : Resolve(c) \/ CreateStep(c)
    \/ \E k \in Closers : CloseBegin(k) \/ CloseStep(k)

CosmosSpec == CosmosInit /\ [][CosmosNext]_cosmosVars

\* A thread that is in create goes on.
CosmosFairSpec == CosmosSpec /\ \A c \in Calls : WF_cosmosVars(CreateStep(c))

-----------------------------------------------------------------------------

\* A saver is connected to the account its caller named, endpoint and key, however
\* many threads create savers at the same time (create_cosmos_checkpointer).
OwnAccount == \A c \in made : account[c].endpoint = c /\ account[c].key = c

\* Whenever no thread is inside the with statement, both variables are what the
\* deployment set them to, or not set, also after a constructor that failed.
EnvIsRestored == lock = Nobody => env = original

\* A saver that create has returned is managed until it is closed, and create loses one
\* that it has made (it raises, and the client stays open) only if the library's class
\* supports neither way to track it, weak references or new attributes, however many
\* calls find that out at the same time (create_cosmos_checkpointer).
OpenIsManaged ==
    /\ \A c \in Returned : c \in closed \/ IsManaged(c)
    /\ \A c \in made : pc[c] = "raised" => ~weakrefs /\ ~attrs

\* A close that begins after another close of that saver has returned does nothing:
\* it never gets to the client a second time and never raises.
LaterCloseIsNoOp ==
    \A k \in Closers : close[k].late => close[k].pc = "check" /\ close[k].saver \in closed

\* The inductive invariant of the environment: the lock has one holder, who knows
\* what the variables were, and they differ from it only as far as it has come.
EnvInv ==
    /\ OwnAccount /\ EnvIsRestored
    /\ \A c \in Calls :
        /\ pc[c] \in Held <=> lock = c
        /\ pc[c] \in Held => old[c] = original
        /\ pc[c] \in {"endpoint", "leave"} => env = original
        /\ pc[c] \in {"key", "construct"} => env.endpoint = c
        /\ pc[c] = "construct" => env.key = c
        /\ pc[c] = "restoreKey" => env.endpoint = original.endpoint

\* The inductive invariant of the savers: only what is managed is closed, only what is
\* closed is no longer tracked, and nobody marks savers of a class that the WeakSet takes.
SaverInv ==
    /\ OpenIsManaged /\ LaterCloseIsNoOp
    /\ returned \subseteq closed
    /\ fallback => ~weakrefs
    /\ \A c \in Calls :
        /\ pc[c] \in {"track", "add", "flag", "mark", "done"} => c \in made
        /\ pc[c] \in {"flag", "mark"} => ~weakrefs
    /\ \A k \in Closers :
        /\ close[k].pc \in {"call", "mark", "discard"} => close[k].saver \in made
        /\ close[k].pc = "discard" => close[k].saver \in closed

\* A call of create that waits for the lock gets it and comes to its end, also
\* beside calls that fail.
CreateEnds == \A c \in Calls : pc[c] = "waiting" ~> pc[c] \in {"done", "raised"}

=============================================================================
