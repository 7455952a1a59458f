--------------------------- MODULE CollectionSession ---------------------------
(* One local browser session and its one read-only collection                 *)
(* (concierge/server.py, security.py, collection.py).                         *)
(*                                                                            *)
(* Threads: the requests the server handles, the expiry timer, the thread     *)
(* that runs the collection, and the worker it starts to read the approved    *)
(* roots.  SessionSecurity has a lock of its own and calls _discard after     *)
(* releasing it, so closing is two steps: the credentials go first, the       *)
(* session state when the state lock is free.                                 *)
(*                                                                            *)
(* A root that disappears or is replaced stays so.                            *)
EXTENDS Naturals

CONSTANTS
    Request,            \* browser requests; each is handled once, by one thread
    Timer,              \* the expiry timer's thread
    Collection,         \* the thread that runs the collection
    Free                \* the state lock's owner when nobody holds it

Terminator == Request \cup {Timer}
Thread == Terminator \cup {Collection}

ASSUME SessionAssumption ==
    /\ Timer \notin Request /\ Collection \notin Terminator
    /\ Free \notin Thread

VARIABLES
    pc,             \* where each thread is
    stateLock,      \* who holds _state_lock between two steps
    secured,        \* ~ SessionSecurity.closed: the credentials still work
    closed,         \* ConciergeSession.closed, set by _discard
    expired,        \* the clock passed expires_at
    intact,         \* the live roots are the ones consented to
    journey,        \* the journey's stage, as far as collecting goes
    controller,     \* whether the session has a CollectionController
    cancelled,      \* its cancelled flag
    cancelEvent,    \* its cancel_event, which the worker can see
    result,         \* whether it holds a published result
    readers,        \* workers reading the approved roots
    outcome,        \* what the worker ended with
    incident,       \* the collection ended with its worker still reading
    returned        \* what terminate_and_wait returned to each caller

control == <<cancelled, cancelEvent, result>>
reading == <<readers, outcome, incident>>
session == <<secured, closed, expired, journey, controller>>
vars == <<pc, stateLock, session, intact, control, reading, returned>>

RequestStep == {"idle", "approve", "spawn", "act", "holding",
                "terminate", "discard", "wait", "done"}
CollectionStep == {"none", "begin", "collect", "start", "watch", "grace", "collected",
                   "publish", "recheck", "finish", "terminate", "discard", "done"}

TypeOK ==
    /\ pc \in [Thread -> RequestStep \cup CollectionStep]
    /\ stateLock \in Request \cup {Free}
    /\ secured \in BOOLEAN /\ closed \in BOOLEAN /\ expired \in BOOLEAN
    /\ intact \in BOOLEAN /\ controller \in BOOLEAN /\ incident \in BOOLEAN
    /\ cancelled \in BOOLEAN /\ cancelEvent \in BOOLEAN /\ result \in BOOLEAN
    /\ journey \in {"permission", "collecting", "published", "closed"}
    /\ readers \in 0 .. 1
    /\ outcome \in {"none", "value", "blocked", "failed"}
    /\ returned \in [Terminator -> {"nothing", "stopped", "unproven"}]

Init ==
    /\ pc = [t \in Thread |-> IF t = Collection THEN "none" ELSE "idle"]
    /\ stateLock = Free
    /\ secured = TRUE /\ closed = FALSE /\ expired = FALSE /\ intact = TRUE
    /\ journey = "permission" /\ controller = FALSE
    /\ cancelled = FALSE /\ cancelEvent = FALSE /\ result = FALSE
    /\ readers = 0 /\ outcome = "none" /\ incident = FALSE
    /\ returned = [t \in Terminator |-> "nothing"]

At(t, step) == pc[t] = step
Go(t, step) == pc' = [pc EXCEPT ![t] = step]
LockFree == stateLock = Free
Stopped == cancelled \/ cancelEvent

--------------------------------------------------------------------------------
(* Closing. *)

(* SessionSecurity.terminate: one caller erases the credentials and goes on   *)
(* to discard; to every other it is a no-op.                                  *)
Terminate(t) ==
    /\ At(t, "terminate")
    /\ IF secured
       THEN Go(t, "discard")
       ELSE Go(t, IF t = Collection THEN "done" ELSE "wait")
    /\ secured' = FALSE
    /\ UNCHANGED <<stateLock, closed, expired, journey, controller, intact, control,
                   reading, returned>>

(* What _discard assigns: the collection is cancelled, the journey closed. *)
Erase ==
    /\ closed' = TRUE /\ journey' = "closed"
    /\ IF controller
       THEN cancelled' = TRUE /\ cancelEvent' = TRUE /\ result' = FALSE
       ELSE UNCHANGED control

\* Mutant of Discard: the collection thread is waited for first.
DiscardAfterThread(t) ==
    /\ At(t, "discard") /\ LockFree
    /\ pc[Collection] \in {"none", "done"}
    /\ Erase
    /\ Go(t, IF t = Collection THEN "done" ELSE "wait")
    /\ UNCHANGED <<stateLock, secured, expired, controller, intact, reading, returned>>

Discard(t) ==
    /\ At(t, "discard") /\ LockFree
    /\ Erase
    /\ Go(t, IF t = Collection THEN "done" ELSE "wait")
    /\ UNCHANGED <<stateLock, secured, expired, controller, intact, reading, returned>>

(* wait_for_collection_stop: no thread was stored yet, or it has ended.       *)
WaitProven(t) ==
    /\ At(t, "wait")
    /\ pc[Collection] \in {"none", "done"}
    /\ returned' = [returned EXCEPT ![t] = "stopped"]
    /\ Go(t, "done")
    /\ UNCHANGED <<stateLock, session, intact, control, reading>>

(* A second passed and the thread is still alive. *)
WaitUnproven(t) ==
    /\ At(t, "wait")
    /\ pc[Collection] \notin {"none", "done"}
    /\ returned' = [returned EXCEPT ![t] = "unproven"]
    /\ Go(t, "done")
    /\ UNCHANGED <<stateLock, session, intact, control, reading>>

--------------------------------------------------------------------------------
(* Requests.  The security checks pass or end the session; the handler that   *)
(* follows does not look at them again.                                       *)

Admit(r) ==
    /\ At(r, "idle")
    /\ secured /\ ~ expired
    /\ \E step \in {"approve", "act", "terminate"} : Go(r, step)
    /\ UNCHANGED <<stateLock, session, intact, control, reading, returned>>

(* A bad host, cookie, origin, length or token, or a dead session. *)
RefuseRequest(r) ==
    /\ At(r, "idle")
    /\ Go(r, "terminate")
    /\ UNCHANGED <<stateLock, session, intact, control, reading, returned>>

(* _begin_collection, the lock held throughout. *)
BeginCollection(r) ==
    /\ At(r, "approve") /\ LockFree
    /\ ~ closed /\ ~ expired /\ intact /\ journey = "permission"
    /\ journey' = "collecting"
    /\ Go(r, "spawn")
    /\ UNCHANGED <<stateLock, secured, closed, expired, controller, intact, control, reading,
                   returned>>

BeginRefused(r) ==
    /\ At(r, "approve") /\ LockFree
    /\ closed \/ expired \/ (intact /\ journey # "permission")
    /\ Go(r, "done")
    /\ UNCHANGED <<stateLock, session, intact, control, reading, returned>>

(* The roots changed since consent: terminate, which discards under the same  *)
(* lock unless another thread was first to terminate.                         *)
BeginOutOfScope(r) ==
    /\ At(r, "approve") /\ LockFree
    /\ ~ closed /\ ~ expired /\ ~ intact
    /\ IF secured THEN Erase ELSE UNCHANGED <<closed, journey, control>>
    /\ secured' = FALSE
    /\ Go(r, "done")
    /\ UNCHANGED <<stateLock, expired, controller, intact, reading, returned>>

\* Mutant of SpawnCollection: the thread is stored and never started.
SpawnStoresOnly(r) ==
    /\ At(r, "spawn") /\ LockFree
    /\ pc' = [pc EXCEPT ![r] = "done"]
    /\ UNCHANGED <<stateLock, session, intact, control, reading, returned>>

(* start_scope_collection took the lock again to store and start the thread. *)
SpawnCollection(r) ==
    /\ At(r, "spawn") /\ LockFree
    /\ pc' = [pc EXCEPT ![r] = "done", ![Collection] = "begin"]
    /\ UNCHANGED <<stateLock, session, intact, control, reading, returned>>

(* Any other handler, a catalogue fetch over the network among them, keeps    *)
(* the state lock while it works.                                             *)
HoldLock(r) ==
    /\ At(r, "act") /\ LockFree
    /\ stateLock' = r
    /\ Go(r, "holding")
    /\ UNCHANGED <<session, intact, control, reading, returned>>

ReleaseLock(r) ==
    /\ At(r, "holding")
    /\ stateLock' = Free
    /\ Go(r, "done")
    /\ UNCHANGED <<session, intact, control, reading, returned>>

TimerFires ==
    /\ At(Timer, "idle") /\ expired /\ ~ closed
    /\ Go(Timer, "terminate")
    /\ UNCHANGED <<stateLock, session, intact, control, reading, returned>>

--------------------------------------------------------------------------------
(* The collection thread. *)

CreateController ==
    /\ At(Collection, "begin") /\ LockFree
    /\ ~ closed /\ ~ expired
    /\ controller' = TRUE
    /\ Go(Collection, "collect")
    /\ UNCHANGED <<stateLock, secured, closed, expired, journey, intact, control, reading,
                   returned>>

(* Where collect and what follows it raise, the thread terminates the session. *)
Abort ==
    /\ \/ At(Collection, "begin") /\ LockFree /\ (closed \/ expired)
       \/ At(Collection, "collect") /\ (Stopped \/ ~ intact)
       \/ At(Collection, "start") /\ cancelEvent
       \/ At(Collection, "collected") /\ (Stopped \/ ~ intact)
       \/ At(Collection, "publish") /\ (Stopped \/ ~ intact)
       \/ At(Collection, "recheck") /\ ~ intact
       \/ At(Collection, "finish") /\ LockFree /\ (closed \/ expired \/ cancelled \/ ~ intact)
    /\ Go(Collection, "terminate")
    /\ UNCHANGED <<stateLock, session, intact, control, reading, returned>>

EnterCollect ==
    /\ At(Collection, "collect")
    /\ ~ Stopped /\ intact
    /\ Go(Collection, "start")
    /\ UNCHANGED <<stateLock, session, intact, control, reading, returned>>

(* The check and the start are two steps of the code: a cancellation between  *)
(* them is seen by the worker and by the first poll.                          *)
StartWorker ==
    /\ At(Collection, "start")
    /\ readers' = readers + 1 /\ outcome' = "none"
    /\ Go(Collection, "watch")
    /\ UNCHANGED <<stateLock, session, intact, control, incident, returned>>

(* A poll finds the event set, the roots changed or the deadline passed. *)
StopWorker ==
    /\ At(Collection, "watch")
    /\ cancelEvent' = TRUE
    /\ Go(Collection, "grace")
    /\ UNCHANGED <<stateLock, session, intact, cancelled, result, reading, returned>>

(* _require_worker_stopped raises either way: the collection was cancelled,   *)
(* or its worker outlasted the grace period.                                  *)
GraceEnds ==
    /\ At(Collection, "grace")
    /\ incident' = (readers > 0)
    /\ Go(Collection, "terminate")
    /\ UNCHANGED <<stateLock, session, intact, control, readers, outcome, returned>>

WorkerReturned ==
    /\ At(Collection, "watch") /\ readers = 0
    /\ Go(Collection, CASE outcome = "value" -> "collected"
                        [] outcome = "blocked" -> "publish"
                        [] OTHER -> "terminate")
    /\ UNCHANGED <<stateLock, session, intact, control, reading, returned>>

CheckCollected ==
    /\ At(Collection, "collected")
    /\ ~ Stopped /\ intact
    /\ Go(Collection, "publish")
    /\ UNCHANGED <<stateLock, session, intact, control, reading, returned>>

\* Mutant of PublishResult: the checks made without the lock are trusted.
PublishUnchecked ==
    /\ At(Collection, "publish")
    /\ result' = TRUE
    /\ Go(Collection, "recheck")
    /\ UNCHANGED <<stateLock, session, intact, cancelled, cancelEvent, reading, returned>>

PublishResult ==
    /\ At(Collection, "publish")
    /\ ~ Stopped /\ intact
    /\ result' = TRUE
    /\ Go(Collection, "recheck")
    /\ UNCHANGED <<stateLock, session, intact, cancelled, cancelEvent, reading, returned>>

RecheckScope ==
    /\ At(Collection, "recheck") /\ intact
    /\ Go(Collection, "finish")
    /\ UNCHANGED <<stateLock, session, intact, control, reading, returned>>

\* Mutant of CompleteCollection: the session is not looked at under the lock.
CompleteUnchecked ==
    /\ At(Collection, "finish") /\ LockFree
    /\ journey' = "published"
    /\ Go(Collection, "done")
    /\ UNCHANGED <<stateLock, secured, closed, expired, controller, intact, control, reading,
                   returned>>

CompleteCollection ==
    /\ At(Collection, "finish") /\ LockFree
    /\ ~ closed /\ ~ expired /\ ~ cancelled /\ intact
    /\ journey' = "published"
    /\ Go(Collection, "done")
    /\ UNCHANGED <<stateLock, secured, closed, expired, controller, intact, control, reading,
                   returned>>

(* A draft cannot be saved. *)
CompleteFails ==
    /\ At(Collection, "finish") /\ LockFree
    /\ Go(Collection, "terminate")
    /\ UNCHANGED <<stateLock, session, intact, control, reading, returned>>

--------------------------------------------------------------------------------

(* The worker ends, by itself or because it saw the event. *)
WorkerEnds ==
    /\ readers > 0
    /\ readers' = readers - 1
    /\ outcome' \in {"value", "blocked", "failed"}
    /\ UNCHANGED <<pc, stateLock, session, intact, control, incident, returned>>

ScopeChanges ==
    /\ intact /\ intact' = FALSE
    /\ UNCHANGED <<pc, stateLock, session, control, reading, returned>>

TimePasses ==
    /\ ~ expired /\ expired' = TRUE
    /\ UNCHANGED <<pc, stateLock, secured, closed, journey, controller, intact, control,
                   reading, returned>>

Closing(t) == Terminate(t) \/ Discard(t)
Waiting(t) == WaitProven(t) \/ WaitUnproven(t)

Handling(r) ==
    \/ BeginCollection(r) \/ BeginRefused(r) \/ BeginOutOfScope(r) \/ SpawnCollection(r)
    \/ HoldLock(r) \/ ReleaseLock(r)

Collecting ==
    \/ CreateController \/ EnterCollect \/ StartWorker \/ StopWorker \/ GraceEnds
    \/ WorkerReturned \/ CheckCollected \/ PublishResult \/ RecheckScope
    \/ CompleteCollection \/ CompleteFails \/ Abort

Next ==
    \/ \E t \in Thread : Closing(t)
    \/ \E t \in Terminator : Waiting(t)
    \/ \E r \in Request : Admit(r) \/ RefuseRequest(r) \/ Handling(r)
    \/ TimerFires \/ Collecting \/ WorkerEnds \/ ScopeChanges \/ TimePasses

Spec == Init /\ [][Next]_vars

(* Every thread is scheduled, and a lock that is released again and again is  *)
(* got; the worker's read ends, for the adapter bounds it.                    *)
FairSpec ==
    /\ Spec
    /\ \A t \in Thread : SF_vars(Closing(t))
    /\ \A t \in Terminator : WF_vars(Waiting(t))
    /\ \A r \in Request : SF_vars(Handling(r))
    /\ SF_vars(Collecting)
    /\ WF_vars(WorkerEnds)

--------------------------------------------------------------------------------

(* A discarded session holds nothing of the collection: the journey is        *)
(* closed, no result waits in the controller, and nothing can be published in *)
(* it any more, however far the collection had got.                           *)
ClosedLeavesNothing ==
    closed => journey = "closed" /\ ~ result /\ (controller => cancelled)

(* Whoever reads the owner's files in a discarded session has been told to    *)
(* stop, a worker started after the discard included.                         *)
ReadersAreTold == closed /\ readers > 0 => cancelEvent

(* What the journey shows comes from a collection that ran to its end: no     *)
(* cancelled, timed-out, failed or still running read is published.           *)
PublishedIsWhole ==
    journey = "published" =>
        readers = 0 /\ outcome \in {"value", "blocked"} /\ ~ cancelEvent

(* No failure leaves the owner's session open over a collection that is gone: *)
(* once the thread ends the journey is published or on its way to closed.     *)
NoOrphanedCollection ==
    At(Collection, "done") => journey \in {"published", "closed"} \/ ~ secured

(* A collection the owner approved ends, published or with the session. *)
CollectionSettles == journey = "collecting" ~> journey \in {"published", "closed"}

(* A termination asked for reaches the state and every reader, for good. *)
StopSettles == ~ secured ~> [](closed /\ readers = 0)

================================================================================
