------------------------------ MODULE Steering ------------------------------
(***************************************************************************)
(* The messages of one chat thread: os-apps/paw-channels/wasm/route_message *)
(* finds the session the thread is bound to and steers it, waits for it,   *)
(* or starts another; the session takes queued messages up at the end of a *)
(* turn (provider_response_applier, steering_checker).                     *)
(*                                                                         *)
(* Nothing locks a session: steer_session reads the queue, appends and     *)
(* writes it back whole, and so does the callback of steering_checker.     *)
(* A message is its number in the order of arrival.  A session's statuses  *)
(* are those that route_message, Steer and the queue tell apart:           *)
(* "PreparingContext" stands for CallingProvider, Executing and Compacting *)
(* too, "EnsuringProviderAuth" for EnsuringCompactionAuth.  "Completed" is *)
(* a session that ended with the answer of its last turn, "Ended" any      *)
(* other terminal one: failed, cancelled, or completed by a tool.          *)
(***************************************************************************)
EXTENDS Naturals, Sequences, FiniteSets, SequencesExt

CONSTANTS
    MessageLimit,     \* messages that arrive
    SessionLimit,     \* bound on the sessions started for the thread
    Routers,          \* slots for route_message invocations
    MaxFollowUps,     \* max_follow_ups
    Commands,         \* which messages carry one: "none", "reset", "mode"
    WakeUpLimit, CrashLimit, FaultLimit,     \* bounds
    Idle              \* an empty slot

ASSUME ThreadBounds ==
    /\ MessageLimit \in Nat /\ SessionLimit \in Nat /\ MaxFollowUps \in 0..100
    /\ WakeUpLimit \in Nat /\ CrashLimit \in Nat /\ FaultLimit \in Nat
ASSUME ThreadCommands == Commands \subseteq {"none", "reset", "mode"}

Message == 1..MessageLimit
SessionId == 1..SessionLimit

\* An invocation of route_message.
Places == {"find", "fetch", "wake", "switch", "get", "post", "cancel", "expire",
           "create", "continue", "bind", "rebind"}
Router == [at : Places, message : Message, command : Commands, binding : Nat,
           session : 0..SessionLimit, queue : Seq(Message)]
ASSUME IdleIsNoRouter == Idle \notin Router

VARIABLES
    sessions,     \* status, queue, follow-ups, what the applier read, checkers in flight
    bindings,     \* the thread's ChannelSessions: are they Active, which Session
    routers,      \* route_message invocations
    arrived,      \* messages so far
    fate,         \* what became of each ReceiveMessage: "none", "routed", "failed"
    accepted,     \* messages some Steer or Configure took
    heard,        \* messages put before an agent, in that order
    overwritten,  \* did a writer replace a queue it had not read
    serial,       \* are the messages of the thread routed one after the other
    wakeUps, crashes, faults

thread == <<sessions, bindings, heard, overwritten>>
spent  == <<wakeUps, crashes, faults>>
vars   == <<thread, routers, arrived, fate, accepted, serial, spent>>

-----------------------------------------------------------------------------
Statuses ==
    {"Created", "PreparingContext", "EnsuringProviderAuth", "ApplyingProviderResponse",
     "Steering", "WaitingForApproval", "Recovering", "Completed", "Ended"}
Terminal == {"Completed", "Ended"}

\* is_steerable_status, and the from list of Steer: they differ.
Steerable == {"PreparingContext", "Steering"}
SteerFrom == Statuses \ ({"Created"} \cup Terminal)
SwitchModeFrom == Statuses \ ({"Recovering"} \cup Terminal)

Started  == {n \in SessionId : sessions[n].status # "Unused"}
Live(n)  == sessions[n].status \in Statuses \ Terminal
LiveSessions == {n \in SessionId : Live(n)}
ActiveBindings == {b \in 1..Len(bindings) : bindings[b].active}

\* What the applier and a checker read of a session, and what they look for.
Snapshot(s) == [queue |-> s.queue, followUps |-> s.followUps]
Unused == [status |-> "Unused", queue |-> <<>>, followUps |-> 0,
           read |-> [queue |-> <<>>, followUps |-> 0], checkers |-> <<>>]

\* An invocation of route_message: where it is, its message, and what it has
\* read so far.
NewRouter(m, command) ==
    [at |-> "find", message |-> m, command |-> command, binding |-> 0, session |-> 0, queue |-> <<>>]

At(r, place) == routers[r] # Idle /\ routers[r].at = place
Goes(r, place) == routers' = [routers EXCEPT ![r].at = place]
Done(r, outcome) ==
    /\ routers' = [routers EXCEPT ![r] = Idle]
    /\ fate' = [fate EXCEPT ![routers[r].message] = outcome]

\* A call of route_message to the server may fail.
CallFails == faults < FaultLimit /\ faults' = faults + 1

Init ==
    /\ sessions = [n \in SessionId |-> Unused] /\ bindings = <<>>
    /\ routers = [r \in Routers |-> Idle]
    /\ arrived = 0 /\ fate = [m \in Message |-> "none"] /\ accepted = {}
    /\ heard = <<>> /\ overwritten = FALSE /\ serial \in BOOLEAN
    /\ wakeUps = 0 /\ crashes = 0 /\ faults = 0

(***************************************************************************)
(* route_message.                                                          *)
(***************************************************************************)
ReceiveMessage(r, command) ==
    /\ arrived < MessageLimit /\ routers[r] = Idle
    /\ serial => \A q \in Routers : routers[q] = Idle
    /\ arrived' = arrived + 1
    /\ routers' = [routers EXCEPT ![r] = NewRouter(arrived', command)]
    /\ UNCHANGED <<thread, fate, accepted, serial, spent>>

\* One Active ChannelSession of the thread, if there is any.
FindActiveSession(r) ==
    /\ At(r, "find")
    /\ \/ /\ ActiveBindings = {}
          /\ Goes(r, "create")
       \/ \E b \in ActiveBindings :
            routers' = [routers EXCEPT ![r].binding = b, ![r].session = bindings[b].session,
                                       ![r].at = IF routers[r].command = "reset" THEN "cancel" ELSE "fetch"]
    /\ UNCHANGED <<thread, arrived, fate, accepted, serial, spent>>

\* The status read here decides, whatever the session does from now on.
AfterWaking(r) == IF routers[r].command = "mode" THEN "switch" ELSE "get"
FetchStatus(r) ==
    LET status == sessions[routers[r].session].status
    IN  /\ At(r, "fetch")
        /\ \/ status \in Steerable /\ UNCHANGED fate
              /\ Goes(r, IF status = "Steering" THEN "wake" ELSE AfterWaking(r))
           \/ status = "WaitingForApproval" /\ Goes(r, "cancel") /\ UNCHANGED fate
           \/ status \in Terminal /\ Goes(r, "continue") /\ UNCHANGED fate
           \/ /\ status \notin Steerable \cup {"WaitingForApproval"} \cup Terminal
              /\ Done(r, "routed")                 \* "Just wait"
        /\ UNCHANGED <<thread, arrived, accepted, serial, spent>>

\* A binding whose Session cannot be read is expired and replaced.
SessionUnreadable(r) ==
    /\ At(r, "fetch") /\ CallFails /\ Goes(r, "expire")
    /\ UNCHANGED <<thread, arrived, fate, accepted, serial, wakeUps, crashes>>

StartChecker(n) == [sessions EXCEPT ![n].checkers = Append(@, Snapshot(sessions[n]))]

\* The wake-up of a session in Steering starts steering_checker again.
Wake(r) ==
    LET n == routers[r].session
    IN  /\ At(r, "wake")
        /\ \/ /\ sessions[n].status = "Steering" /\ wakeUps < WakeUpLimit
              /\ wakeUps' = wakeUps + 1 /\ sessions' = StartChecker(n)
           \/ /\ sessions[n].status # "Steering" \/ wakeUps = WakeUpLimit
              /\ UNCHANGED <<wakeUps, sessions>>
        /\ Goes(r, AfterWaking(r))
        /\ UNCHANGED <<bindings, heard, overwritten, arrived, fate, accepted, serial, crashes, faults>>

SwitchMode(r) ==
    /\ At(r, "switch")
    /\ IF sessions[routers[r].session].status \in SwitchModeFrom
       THEN Goes(r, "get") /\ UNCHANGED fate
       ELSE Done(r, "failed")
    /\ UNCHANGED <<thread, arrived, accepted, serial, spent>>

\* steer_session failed: a new session is started, after a command it is an error.
NotSteered(r) ==
    IF routers[r].command = "mode" THEN Done(r, "failed") ELSE Goes(r, "continue") /\ UNCHANGED fate

\* A read that is answered with an error is taken for an empty queue.
GetQueue(r) ==
    /\ At(r, "get")
    /\ \/ /\ routers' = [routers EXCEPT ![r].queue = sessions[routers[r].session].queue,
                                         ![r].at = "post"]
          /\ UNCHANGED <<fate, faults>>
       \/ CallFails /\ Goes(r, "post") /\ UNCHANGED fate
       \/ CallFails /\ NotSteered(r)
    /\ UNCHANGED <<thread, arrived, accepted, serial, wakeUps, crashes>>

\* The action Steer of the session: the queue is replaced.  The answer may be
\* lost: then the message is taken for not steered.
SteerWith(r, queue) ==
    LET n == routers[r].session
    IN  /\ At(r, "post") /\ sessions[n].status \in SteerFrom
        /\ sessions' = [sessions EXCEPT ![n].queue = queue]
        /\ overwritten' = (overwritten \/ sessions[n].queue # routers[r].queue)
        /\ accepted' = accepted \cup {routers[r].message}
        /\ \/ Done(r, "routed") /\ UNCHANGED faults
           \/ CallFails /\ NotSteered(r)
        /\ UNCHANGED <<bindings, heard, arrived, serial, wakeUps, crashes>>
\* (mutant of Steer: the message jumps the queue)
SteerPrepends(r) == SteerWith(r, <<routers[r].message>> \o routers[r].queue)
Steer(r) == SteerWith(r, Append(routers[r].queue, routers[r].message))

SteerRefused(r) ==
    /\ At(r, "post") /\ sessions[routers[r].session].status \notin SteerFrom
    /\ NotSteered(r)
    /\ UNCHANGED <<thread, arrived, accepted, serial, spent>>

\* Before a reset, or because the session waits for a person.  The result of
\* the call is ignored.
CancelSession(r) ==
    LET n == routers[r].session
    IN  /\ At(r, "cancel")
        /\ \/ /\ sessions' = IF Live(n) THEN [sessions EXCEPT ![n].status = "Ended"] ELSE sessions
              /\ UNCHANGED faults
           \/ CallFails /\ UNCHANGED sessions
        /\ Goes(r, IF routers[r].command = "reset" THEN "expire" ELSE "continue")
        /\ UNCHANGED <<bindings, heard, overwritten, arrived, fate, accepted, serial, wakeUps, crashes>>

ExpireBinding(r) ==
    /\ At(r, "expire")
    /\ \/ /\ bindings' = [bindings EXCEPT ![routers[r].binding].active = FALSE]
          /\ UNCHANGED faults
       \/ CallFails /\ UNCHANGED bindings
    /\ Goes(r, "create")
    /\ UNCHANGED <<sessions, heard, overwritten, arrived, fate, accepted, serial, wakeUps, crashes>>

\* create_blank_session and Configure; a continuation gets the conversation
\* of the prior session, but not its queue.
NewSession == Cardinality(Started) + 1
Starting(r) ==
    /\ At(r, "create") \/ At(r, "continue")
    /\ NewSession <= SessionLimit
    /\ sessions' = [sessions EXCEPT ![NewSession].status = "Created"]
    /\ heard' = Append(heard, routers[r].message)
    /\ accepted' = accepted \cup {routers[r].message}
    /\ UNCHANGED <<bindings, overwritten, arrived, fate, serial, spent>>
BindTo(r, n) ==
    routers' = [routers EXCEPT ![r].session = n, ![r].at = IF @ = "create" THEN "bind" ELSE "rebind"]
\* (mutant of StartSession: the id of the new session is not kept)
StartsAnonymous(r) == Starting(r) /\ BindTo(r, 0)
StartSession(r) == Starting(r) /\ BindTo(r, NewSession)

CreateChannelSession(r) ==
    /\ At(r, "bind")
    /\ bindings' = Append(bindings, [active |-> TRUE, session |-> routers[r].session])
    /\ Done(r, "routed")
    /\ UNCHANGED <<sessions, heard, overwritten, arrived, accepted, serial, spent>>

\* UpdateSession is refused by an expired binding.
Rebinding(r) ==
    /\ At(r, "rebind")
    /\ UNCHANGED <<sessions, heard, overwritten, arrived, accepted, serial, spent>>
\* (mutant of UpdateSessionBinding: the binding is left as it was)
KeepsBinding(r) == Rebinding(r) /\ Done(r, "routed") /\ UNCHANGED bindings
UpdateSessionBinding(r) ==
    /\ Rebinding(r)
    /\ LET b == routers[r].binding
       IN  IF bindings[b].active
           THEN bindings' = [bindings EXCEPT ![b].session = routers[r].session] /\ Done(r, "routed")
           ELSE UNCHANGED bindings /\ Done(r, "failed")

\* Creating, configuring or binding fails: RouteFailed.
RouteFailed(r) ==
    /\ \E place \in {"find", "switch", "create", "continue", "bind", "rebind"} : At(r, place)
    /\ CallFails /\ Done(r, "failed")
    /\ UNCHANGED <<thread, arrived, accepted, serial, wakeUps, crashes>>

(***************************************************************************)
(* A session.                                                              *)
(***************************************************************************)
Moves(n, from, to) ==
    /\ sessions[n].status \in from
    /\ sessions' = [sessions EXCEPT ![n].status = to]
    /\ UNCHANGED <<bindings, heard, overwritten, routers, arrived, fate, accepted, serial, spent>>

Provisioned(n)   == Moves(n, {"Created"}, "PreparingContext")
NeedsAuth(n)     == Moves(n, {"PreparingContext"}, "EnsuringProviderAuth")
AuthReady(n)     == Moves(n, {"EnsuringProviderAuth"}, "PreparingContext")
Pauses(n)        == Moves(n, {"PreparingContext"}, "WaitingForApproval")
Resumes(n)       == Moves(n, {"WaitingForApproval"}, "PreparingContext")
ToolsCalled(n)   == Moves(n, {"ApplyingProviderResponse"}, "PreparingContext")
Recovered(n)     == Moves(n, {"Recovering"}, "PreparingContext")
EndsOtherwise(n) == Moves(n, Statuses \ Terminal, "Ended")

\* The applier reads the queue when it is started.
\* (mutant of ShouldCheckSteering: off by one)
ShouldCheckEarlier(read) == read.followUps + 1 < MaxFollowUps /\ read.queue # <<>>
ShouldCheckSteering(read) == read.followUps < MaxFollowUps /\ read.queue # <<>>
ProviderResponseReady(n) ==
    /\ sessions[n].status = "PreparingContext"
    /\ sessions' = [sessions EXCEPT ![n].status = "ApplyingProviderResponse",
                                    ![n].read = Snapshot(sessions[n])]
    /\ UNCHANGED <<bindings, heard, overwritten, routers, arrived, fate, accepted, serial, spent>>

RecordResult(n) ==
    ~ShouldCheckSteering(sessions[n].read) /\ Moves(n, {"ApplyingProviderResponse"}, "Completed")

CheckSteering(n) ==
    /\ sessions[n].status = "ApplyingProviderResponse" /\ ShouldCheckSteering(sessions[n].read)
    /\ sessions' = [StartChecker(n) EXCEPT ![n].status = "Steering"]
    /\ UNCHANGED <<bindings, heard, overwritten, routers, arrived, fate, accepted, serial, spent>>

\* steering_checker works on what it read when it was started.
CheckerReturns(n, k) ==
    /\ k \in 1..Len(sessions[n].checkers)
    /\ UNCHANGED <<bindings, routers, arrived, fate, accepted, serial, spent>>
Takes(read) == read.queue # <<>> /\ read.followUps < MaxFollowUps
Continues(n, k, from, left) ==
    LET s    == sessions[n]
        read == s.checkers[k]
    IN  /\ CheckerReturns(n, k) /\ s.status \in from /\ Takes(read)
        /\ sessions' = [sessions EXCEPT ![n] =
                [s EXCEPT !.status = "PreparingContext", !.queue = left, !.followUps = @ + 1,
                          !.checkers = RemoveAt(@, k)]]
        /\ heard' = Append(heard, Head(read.queue))
        /\ overwritten' = (overwritten \/ s.queue # read.queue)
Left(n, k) == Tail(sessions[n].checkers[k].queue)
\* (mutant of ContinueWithSteering: the message stays in the queue)
ContinuesWithWholeQueue(n, k) == Continues(n, k, {"Steering"}, sessions[n].checkers[k].queue)
ContinueWithSteering(n, k)    == Continues(n, k, {"Steering"}, Left(n, k))

CheckerEnds(n, k, status) ==
    /\ CheckerReturns(n, k)
    /\ sessions' = [sessions EXCEPT ![n].status = status, ![n].checkers = RemoveAt(@, k)]
    /\ UNCHANGED <<heard, overwritten>>
FinalizeResult(n, k) ==
    /\ k \in 1..Len(sessions[n].checkers) /\ sessions[n].status = "Steering"
    /\ ~Takes(sessions[n].checkers[k])
    /\ CheckerEnds(n, k, "Completed")
CallbackRejected(n, k) ==
    sessions[n].status # "Steering" /\ CheckerEnds(n, k, sessions[n].status)

-----------------------------------------------------------------------------
\* The server goes down with every invocation; the sweep recovers some
\* sessions and fails the others.
Crash ==
    /\ crashes < CrashLimit
    /\ crashes' = crashes + 1
    /\ routers' = [r \in Routers |-> Idle]
    /\ \E failed \in SUBSET LiveSessions :
        sessions' = [n \in SessionId |->
            IF ~Live(n) THEN [sessions[n] EXCEPT !.checkers = <<>>]
            ELSE [sessions[n] EXCEPT !.checkers = <<>>,
                                     !.status = IF n \in failed THEN "Ended" ELSE "Recovering"]]
    /\ UNCHANGED <<bindings, heard, overwritten, arrived, fate, accepted, serial, wakeUps, faults>>

RouterStep(r) ==
    \/ FindActiveSession(r) \/ FetchStatus(r) \/ SessionUnreadable(r) \/ Wake(r)
    \/ SwitchMode(r) \/ GetQueue(r) \/ Steer(r) \/ SteerRefused(r)
    \/ CancelSession(r) \/ ExpireBinding(r) \/ StartSession(r)
    \/ CreateChannelSession(r) \/ UpdateSessionBinding(r) \/ RouteFailed(r)

SessionStep(n) ==
    \/ Provisioned(n) \/ NeedsAuth(n) \/ AuthReady(n) \/ Pauses(n) \/ Resumes(n)
    \/ ToolsCalled(n) \/ Recovered(n) \/ EndsOtherwise(n)
    \/ ProviderResponseReady(n) \/ RecordResult(n) \/ CheckSteering(n)
    \/ \E k \in 1..Len(sessions[n].checkers) :
        ContinueWithSteering(n, k) \/ FinalizeResult(n, k) \/ CallbackRejected(n, k)

Next ==
    \/ \E r \in Routers, command \in Commands : ReceiveMessage(r, command)
    \/ \E r \in Routers : RouterStep(r)
    \/ \E n \in SessionId : SessionStep(n)
    \/ Crash

Spec == Init /\ [][Next]_vars

-----------------------------------------------------------------------------
(***************************************************************************)
(* Properties.                                                             *)
(***************************************************************************)
Reading == [queue : Seq(Message), followUps : Nat]
Session == [status : Statuses \cup {"Unused"}, queue : Seq(Message), followUps : Nat, read : Reading,
            checkers : Seq(Reading)]
TypeOK ==
    /\ sessions \in [SessionId -> Session]
    /\ bindings \in Seq([active : BOOLEAN, session : SessionId])
    /\ routers \in [Routers -> {Idle} \cup Router]
    /\ \A r \in Routers : routers[r] # Idle =>
        routers[r].message <= arrived /\ routers[r].binding <= Len(bindings)
    /\ arrived \in 0..MessageLimit /\ fate \in [Message -> {"none", "routed", "failed"}]
    /\ accepted \subseteq 1..arrived /\ heard \in Seq(Message)
    /\ overwritten \in BOOLEAN /\ serial \in BOOLEAN

\* However routers, checkers, resets and crashes interleave: as long as no
\* writer replaced a queue it had not read, and no answer was lost, no message
\* is put before an agent twice, through steering or a continued session.
HeardOnce == ~overwritten /\ faults = 0 => IsInjective(heard)

\* Where an accepted message is that nobody has heard: in the queue of a session
\* that may still look at it; of one that failed, was cancelled or completed by
\* a tool; or of one that ended with its answer, but only if it could take no
\* more follow-ups, or its applier had started when the message came.
WaitsIn(m, n) ==
    /\ m \in Range(sessions[n].queue)
    /\ sessions[n].status = "Completed" =>
        sessions[n].followUps >= MaxFollowUps \/ m \notin Range(sessions[n].read.queue)

\* As long as no writer replaced a queue it had not read, a session does not end
\* with its answer over an accepted message, whatever calls fail: the message
\* has been heard, or waits, or is lost for one of the reasons of WaitsIn.  A
\* queue that is left when a session ends is read by nobody.
AcceptedIsKept ==
    ~overwritten => \A m \in accepted :
        m \in Range(heard) \/ \E n \in SessionId : WaitsIn(m, n)

\* If the messages of the thread are routed one after the other, the agent
\* hears them in the order in which they arrived, also across sessions.
HeardInOrder ==
    serial /\ ~overwritten /\ faults = 0 =>
        \A i, j \in 1..Len(heard) : i < j => heard[i] < heard[j]

\* And no two sessions of the thread work at the same time: the one that does
\* is the one the thread is bound to, or is about to be.
OneLiveSession ==
    serial /\ faults = 0 /\ crashes = 0 =>
        \A n \in LiveSessions :
            \/ \E b \in ActiveBindings : bindings[b].session = n
            \/ \E r \in Routers : routers[r] # Idle /\ routers[r].at \in {"bind", "rebind"} /\ routers[r].session = n

\* The limit of max_follow_ups holds, although a checker decides on the count
\* it read and a wake-up runs two of them.
FollowUpsBounded == \A n \in SessionId : sessions[n].followUps <= MaxFollowUps

\* Steering is preserved: a message routed while its session is in a status
\* that accepts Steer is not reported as routed before it is accepted.
SteeringPreserved ==
    [][\A r \in Routers :
        At(r, "fetch") /\ sessions[routers[r].session].status \in SteerFrom /\ routers'[r] = Idle
            => fate'[routers[r].message] # "routed" \/ routers[r].message \in accepted']_vars
=============================================================================
