----------------------------- MODULE Transport -----------------------------
(***************************************************************************)
(* The Discord transport.  The entity TransportConnection drives it: Start *)
(* and RetryDue run the integration transport_reconcile, whose HTTP call   *)
(* is an invocation of TransportManager::connect_discord; disconnecting is *)
(* a call of its own and does not concern the entity.                      *)
(*                                                                         *)
(* The manager's handle is locked for each access and not between two, and *)
(* the task of a transport writes it as well.  Tasks are numbered; task k  *)
(* is shut down by the token k.  A transport first binds the one webhook   *)
(* port; the listener is aborted with the transport and gone a while       *)
(* later.  After READY it reconnects by itself for ever.                   *)
(*                                                                         *)
(* The dispatches of the server to its own entity succeed.  An answer is   *)
(* applied when it is given; an earlier answer that is applied late is one *)
(* given late.                                                             *)
(*                                                                         *)
(* Left out: Slack, ngrok, MarkDisconnected and Disable, which no code     *)
(* dispatches, and the panic of a task.                                    *)
(***************************************************************************)
EXTENDS Integers, FiniteSets

CONSTANTS
    CallLimit,        \* slots for calls of the manager
    TaskLimit,        \* bound on the tasks spawned
    EventLimit,       \* bound on new credentials, retries, disconnects, lost answers, crashes
    Idle              \* an empty slot

\* A call of the manager, a task's place, and TransportHandle.
Call == [for : {"reconcile", "disconnect", "nobody"},
         at : {"verify", "stop", "join", "publish", "keep", "wait", "stopAgain", "joinAgain"},
         task : 0..TaskLimit, joins : 0..TaskLimit, told : {"nothing", "ok", "retry", "fail"}]
Places == {"unused", "spawned", "serving", "ready", "ended"}
Handle == [status : {"Disconnected", "Connecting", "Connected", "Error"},
           cancel : 0..TaskLimit, task : 0..TaskLimit]

ASSUME TransportBounds == CallLimit \in Nat /\ TaskLimit \in Nat /\ EventLimit \in Nat
ASSUME IdleIsNoCall == Idle \notin Call

VARIABLES
    status,      \* of the TransportConnection
    due,         \* scheduled RetryDue actions
    starting,    \* schedule_discord_reconcile calls between Configure and Start
    handle,      \* TransportHandle: status, cancel, task
    calls,       \* connect_discord and disconnect_discord
    tasks,       \* the spawned tasks: where they are
    cancelled,   \* running tasks whose token was cancelled
    port,        \* the task whose listener holds the webhook port
    disturbed,   \* did two calls overlap, or was one given up
    booting,     \* the startup has not scheduled its reconcile yet
    events       \* so far, of those EventLimit bounds

entity  == <<status, due, starting>>
manager == <<handle, tasks, cancelled, port>>
vars    == <<entity, manager, calls, disturbed, booting, events>>

-----------------------------------------------------------------------------
TaskId  == 1..TaskLimit
Calls   == 1..CallLimit
None    == 0
Running(k) == tasks[k] \in {"spawned", "serving", "ready"}
RunningTasks == {k \in TaskId : Running(k)}
Spawned == {k \in TaskId : tasks[k] # "unused"}

NoTransport == [status |-> "Disconnected", cancel |-> None, task |-> None]

At(c, place) == calls[c] # Idle /\ calls[c].at = place
Goes(c, place) == calls' = [calls EXCEPT ![c].at = place]

Init ==
    /\ status = "Created" /\ due = 0 /\ starting = 0
    /\ handle = NoTransport /\ tasks = [k \in TaskId |-> "unused"] /\ cancelled = {} /\ port = None
    /\ calls = [c \in Calls |-> Idle] /\ disturbed = FALSE /\ booting = TRUE
    /\ events = 0

Event == events < EventLimit /\ events' = events + 1

\* A call takes the first free slot; for is "reconcile", "disconnect" or, once
\* nobody waits for its answer, "nobody".
Begins(c, for, place) ==
    /\ calls[c] = Idle /\ \A d \in 1..c - 1 : calls[d] # Idle
    /\ calls' = [calls EXCEPT ![c] = [for |-> for, at |-> place, task |-> None, joins |-> None,
                                   told |-> "nothing"]]
    /\ disturbed' = (disturbed \/ \E d \in Calls : calls[d] # Idle)

(***************************************************************************)
(* TransportConnection.                                                    *)
(***************************************************************************)
\* schedule_discord_reconcile: the startup, or new credentials.
Configure ==
    /\ IF booting THEN UNCHANGED events ELSE Event
    /\ booting' = FALSE
    /\ status' = "Configured" /\ starting' = starting + 1
    /\ UNCHANGED <<due, manager, calls, disturbed>>

StartFrom == {"Configured", "Connected", "Retrying", "Failed"}
Start(c) ==
    /\ starting > 0 /\ status \in StartFrom
    /\ starting' = starting - 1 /\ status' = "Starting"
    /\ Begins(c, "reconcile", "verify")
    /\ UNCHANGED <<due, manager, booting, events>>

StartRejected ==
    /\ starting > 0 /\ status \notin StartFrom
    /\ starting' = starting - 1
    /\ UNCHANGED <<status, due, manager, calls, disturbed, booting, events>>

\* The schedule fires; in another status it is rejected.
Due(scheduled) ==
    /\ scheduled /\ Event
    /\ due' = due - 1
    /\ UNCHANGED <<starting, manager, booting>>
Retries(c) == status = "Retrying" /\ status' = "Starting" /\ Begins(c, "reconcile", "verify")
\* (mutant of RetryDue: it comes without having been scheduled)
RetryDueAnytime(c) == Due(TRUE) /\ Retries(c)
RetryDue(c) == Due(due > 0) /\ Retries(c)
RetryDueRejected ==
    Due(due > 0) /\ status # "Retrying" /\ UNCHANGED <<status, calls, disturbed>>

\* The outcome of a start, and the status timeout of Starting.
StartSucceeded == status' = "Connected" /\ UNCHANGED due
StartFailed    == status' = "Failed" /\ UNCHANGED due
StartRetry     == status' = "Retrying" /\ due' = due + 1

StartTimeout ==
    /\ status = "Starting" /\ StartRetry
    /\ UNCHANGED <<starting, manager, calls, disturbed, booting, events>>

\* transport_reconcile answers; out of Starting the answer is rejected.
Answers(c, outcome) ==
    /\ IF calls[c].for = "reconcile" /\ status = "Starting"
       THEN \/ outcome = "ok" /\ StartSucceeded
            \/ outcome = "retry" /\ StartRetry
            \/ outcome = "fail" /\ StartFailed
       ELSE UNCHANGED <<status, due>>
    /\ calls' = [calls EXCEPT ![c] = Idle]
    /\ UNCHANGED starting

\* The HTTP call of transport_reconcile fails: it emits a retry; or the
\* integration itself fails.  The handler goes on, or is dropped where it waits.
GivesUp(c) ==
    /\ Event
    /\ calls[c] # Idle /\ calls[c].for = "reconcile" /\ disturbed' = TRUE
    /\ calls' \in {[calls EXCEPT ![c].for = "nobody"], [calls EXCEPT ![c] = Idle]}
    /\ IF status = "Starting" THEN StartRetry \/ StartFailed ELSE UNCHANGED <<status, due>>
    /\ UNCHANGED <<starting, manager, booting>>

(***************************************************************************)
(* TransportManager.                                                       *)
(***************************************************************************)
Disconnect(c) ==
    /\ Event
    /\ Begins(c, "disconnect", "stop")
    /\ UNCHANGED <<entity, manager, booting>>

\* connect_discord: the verify key and the public URL, which may be refused.
Verified(c, place) ==
    /\ At(c, "verify") /\ Goes(c, place)
    /\ UNCHANGED <<entity, manager, disturbed, booting, events>>
\* (mutant of VerifyKey: the old transport is not disconnected first)
VerifyThenPublish(c) == Verified(c, "publish")
VerifyKey(c) == Verified(c, "stop")
NotVerified(c) ==
    /\ At(c, "verify")
    /\ \E outcome \in {"retry", "fail"} : Answers(c, outcome)
    /\ UNCHANGED <<manager, disturbed, booting, events>>

\* stop_transport, first half: take token and task, cancel the token.
Stops(c, cancels) ==
    /\ At(c, "stop") \/ At(c, "stopAgain")
    /\ handle' = NoTransport
    /\ cancelled' = cancelled \cup (cancels \cap RunningTasks)
    /\ calls' = [calls EXCEPT ![c].joins = handle.task,
                              ![c].at = IF @ = "stop" THEN "join" ELSE "joinAgain"]
    /\ UNCHANGED <<entity, tasks, port, disturbed, booting, events>>
\* (mutant of StopTransport: the token is dropped, not cancelled)
StopsWithoutCancel(c) == Stops(c, {})
StopTransport(c) == Stops(c, {handle.cancel} \ {None})

\* And second half: wait for the task.
Join(c) ==
    /\ At(c, "join") \/ At(c, "joinAgain")
    /\ calls[c].joins \notin RunningTasks
    /\ \/ At(c, "joinAgain") /\ Answers(c, "retry")             \* "Timed out"
       \/ At(c, "join") /\ calls[c].for = "disconnect" /\ Answers(c, "ok")
       \/ At(c, "join") /\ calls[c].for # "disconnect" /\ Goes(c, "publish") /\ UNCHANGED entity
    /\ UNCHANGED <<manager, disturbed, booting, events>>

\* The new token is stored and the task spawned.
Publish(c) ==
    LET k == Cardinality(Spawned) + 1
    IN  /\ At(c, "publish") /\ k <= TaskLimit
        /\ handle' = [handle EXCEPT !.status = "Connecting", !.cancel = k]
        /\ tasks' = [tasks EXCEPT ![k] = "spawned"]
        /\ calls' = [calls EXCEPT ![c].task = k, ![c].at = "keep"]
        /\ UNCHANGED <<entity, cancelled, port, disturbed, booting, events>>

KeepTask(c) ==
    /\ At(c, "keep") /\ Goes(c, "wait")
    /\ handle' = [handle EXCEPT !.task = calls[c].task]
    /\ UNCHANGED <<entity, tasks, cancelled, port, disturbed, booting, events>>

\* It waits 30 s for the task to tell how the startup went.
Told(c) ==
    /\ At(c, "wait") /\ calls[c].told # "nothing"
    /\ Answers(c, calls[c].told)
    /\ UNCHANGED <<manager, disturbed, booting, events>>
StartupTimesOut(c) ==
    /\ At(c, "wait") /\ Goes(c, "stopAgain")
    /\ UNCHANGED <<entity, manager, disturbed, booting, events>>

(***************************************************************************)
(* The task of a transport.                                                *)
(***************************************************************************)
\* The first outcome goes to the call that spawned the task, if it still waits.
Tells(k, place, outcome) ==
    /\ tasks' = [tasks EXCEPT ![k] = place]
    /\ calls' = [c \in Calls |->
            IF calls[c] # Idle /\ calls[c].task = k /\ calls[c].told = "nothing"
            THEN [calls[c] EXCEPT !.told = outcome] ELSE calls[c]]
TaskStep == UNCHANGED <<entity, disturbed, booting, events>>

BindPort(k) ==
    /\ tasks[k] = "spawned" /\ port = None
    /\ port' = k /\ tasks' = [tasks EXCEPT ![k] = "serving"]
    /\ UNCHANGED <<handle, cancelled, calls>> /\ TaskStep

\* The gateway's READY.
Ready(k) ==
    /\ tasks[k] = "serving" /\ Tells(k, "ready", "ok")
    /\ handle' = [handle EXCEPT !.status = "Connected"]
    /\ UNCHANGED <<cancelled, port>> /\ TaskStep

\* run ends with an error: the port is taken, which is not retryable, or the
\* Channel, the commands, the gateway's address are refused.
RunFails(k) ==
    /\ \/ tasks[k] = "spawned" /\ port # None /\ Tells(k, "ended", "fail")
       \/ tasks[k] = "serving" /\ \E outcome \in {"retry", "fail"} : Tells(k, "ended", outcome)
    /\ handle' = [handle EXCEPT !.status = "Error", !.cancel = None]
    /\ cancelled' = cancelled \ {k} /\ UNCHANGED port /\ TaskStep

ShutsDown(k) ==
    /\ k \in cancelled /\ Tells(k, "ended", "fail")
    /\ cancelled' = cancelled \ {k} /\ UNCHANGED port /\ TaskStep
\* (mutant of Shutdown: the status is left as it was)
ShutdownKeepsStatus(k) == ShutsDown(k) /\ handle' = [handle EXCEPT !.cancel = None]
Shutdown(k) == ShutsDown(k) /\ handle' = [handle EXCEPT !.status = "Disconnected", !.cancel = None]

\* The aborted listener is dropped.
PortReleased ==
    /\ port # None /\ port \notin RunningTasks /\ port' = None
    /\ UNCHANGED <<handle, tasks, cancelled, calls>> /\ TaskStep

-----------------------------------------------------------------------------
\* The server restarts: manager, calls and schedules are gone.
Crash ==
    /\ Event
    /\ due' = 0 /\ starting' = 0 /\ booting' = TRUE
    /\ handle' = NoTransport /\ port' = None
    /\ tasks' = [k \in TaskId |-> IF k \in Spawned THEN "ended" ELSE "unused"]
    /\ cancelled' = {} /\ calls' = [c \in Calls |-> Idle]
    /\ UNCHANGED <<status, disturbed>>

CallStep(c) ==
    \/ VerifyKey(c) \/ NotVerified(c) \/ StopTransport(c) \/ Join(c) \/ Publish(c)
    \/ KeepTask(c) \/ Told(c) \/ StartupTimesOut(c)

Next ==
    \/ Configure \/ StartRejected \/ RetryDueRejected \/ StartTimeout
    \/ \E c \in Calls : Start(c) \/ RetryDue(c) \/ Disconnect(c) \/ GivesUp(c) \/ CallStep(c)
    \/ \E k \in TaskId : BindPort(k) \/ Ready(k) \/ RunFails(k) \/ Shutdown(k)
    \/ PortReleased \/ Crash

Spec == Init /\ [][Next]_vars

\* The runtime polls what is runnable: a call whose wait is over, and a task
\* whose token was cancelled.
FairSpec ==
    /\ Spec
    /\ \A c \in Calls : WF_vars(Join(c))
    /\ \A k \in TaskId : WF_vars(Shutdown(k))

-----------------------------------------------------------------------------
(***************************************************************************)
(* Properties.                                                             *)
(***************************************************************************)
TypeOK ==
    /\ status \in {"Created", "Configured", "Starting", "Connected", "Retrying", "Failed"}
    /\ due \in Nat /\ starting \in Nat
    /\ handle \in Handle /\ tasks \in [TaskId -> Places]
    /\ calls \in [Calls -> {Idle} \cup Call]
    /\ cancelled \subseteq RunningTasks
    /\ {handle.cancel, handle.task, port} \subseteq Spawned \cup {None}
    /\ \A c \in Calls : calls[c] # Idle => {calls[c].task, calls[c].joins} \subseteq Spawned \cup {None}

\* As long as calls of the manager do not overlap, no transport gets out of
\* its control: the handle has the token of the one that runs, and its task,
\* unless the call that spawned it is about to store it.
UnderControl ==
    ~disturbed => \A k \in TaskId : Running(k) /\ k \notin cancelled =>
        /\ handle.cancel = k
        /\ handle.task = k \/ \E c \in Calls : At(c, "keep") /\ calls[c].task = k

\* /readyz reports what is the case, however calls overlap: the manager says
\* Connected only while a transport that has seen READY runs.
ReadyzIsTrue == handle.status = "Connected" => \E k \in TaskId : tasks[k] = "ready"

\* A connection that waits for its retry gets one: it is scheduled, whatever
\* late answers, timeouts and earlier schedules came in between, or the
\* startup is about to start the connection anew.
RetryIsScheduled == status = "Retrying" => due > 0 \/ starting > 0 \/ booting

\* stop_transport returns: it does not wait for a task that nobody cancelled,
\* as long as calls do not overlap.
StopReturns ==
    \A c \in Calls :
        At(c, "join") \/ At(c, "joinAgain") ~>
            disturbed \/ (~At(c, "join") /\ ~At(c, "joinAgain"))
=============================================================================
