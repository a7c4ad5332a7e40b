--------------------------- MODULE TransportProofs ---------------------------
(***************************************************************************)
(* Theorems about Transport, for every number of calls, tasks and events:  *)
(* type correctness, what /readyz and a waiting connection rely on however *)
(* calls overlap, and that the manager controls its transport as long as   *)
(* they do not.                                                            *)
(***************************************************************************)
EXTENDS Transport, FiniteSetTheorems, TLAPS

-----------------------------------------------------------------------------
(***************************************************************************)
(* Type correctness.                                                       *)
(***************************************************************************)
Statuses == {"Created", "Configured", "Starting", "Connected", "Retrying", "Failed"}

EntityOK  == status \in Statuses /\ due \in Nat /\ starting \in Nat
ManagerOK ==
    /\ handle \in Handle /\ tasks \in [TaskId -> Places]
    /\ cancelled \subseteq RunningTasks
    /\ {handle.cancel, handle.task, port} \subseteq Spawned \cup {None}
CallsOK ==
    /\ calls \in [Calls -> {Idle} \cup Call]
    /\ \A c \in Calls : calls[c] # Idle => {calls[c].task, calls[c].joins} \subseteq Spawned \cup {None}

LEMMA TypeParts == TypeOK <=> EntityOK /\ ManagerOK /\ CallsOK
  BY DEF TypeOK, EntityOK, ManagerOK, CallsOK, Statuses

LEMMA TypeInit == Init => TypeOK
<1> SUFFICES ASSUME Init PROVE TypeOK
  OBVIOUS
<1>1. EntityOK
  BY DEF Init, EntityOK, Statuses
<1>2. ManagerOK
  BY TransportBounds DEF Init, ManagerOK, NoTransport, None, Handle, Places, RunningTasks, Running
<1>3. CallsOK
  BY DEF Init, CallsOK
<1> QED
  BY <1>1, <1>2, <1>3, TypeParts

\* The next task to spawn is none of those spawned.
LEMMA NextTask ==
    ASSUME NEW c, Publish(c)
    PROVE  Cardinality(Spawned) + 1 \in TaskId
<1>1. IsFiniteSet(TaskId)
  BY FS_Interval, TransportBounds DEF TaskId
<1>2. Spawned \subseteq TaskId
  BY DEF Spawned
<1>3. Cardinality(Spawned) \in Nat
  BY <1>1, <1>2, FS_Subset, FS_CardinalityType
<1> QED
  BY <1>3, TransportBounds DEF Publish, TaskId

LEMMA EntityStep ==
    ASSUME TypeOK, Next
    PROVE  EntityOK'
<1>0. EntityOK
  BY TypeParts
<1>1. CASE Configure
  BY <1>0, <1>1 DEF Configure, EntityOK, Statuses
<1>2. CASE StartRejected
  BY <1>0, <1>2 DEF StartRejected, EntityOK
<1>3. CASE RetryDueRejected
  BY <1>0, <1>3 DEF RetryDueRejected, Due, EntityOK
<1>4. CASE StartTimeout
  BY <1>0, <1>4 DEF StartTimeout, StartRetry, EntityOK, Statuses
<1>5. ASSUME NEW c \in Calls, Start(c) \/ RetryDue(c) \/ Disconnect(c)
      PROVE  EntityOK'
  BY <1>0, <1>5 DEF Start, RetryDue, Due, Retries, Disconnect, EntityOK, entity, Statuses
<1>6. ASSUME NEW c \in Calls, GivesUp(c)
      PROVE  EntityOK'
  BY <1>0, <1>6 DEF GivesUp, StartRetry, StartFailed, EntityOK, Statuses
<1>7. ASSUME NEW c \in Calls, NEW outcome, Answers(c, outcome)
      PROVE  EntityOK'
  BY <1>0, <1>7 DEF Answers, StartSucceeded, StartRetry, StartFailed, EntityOK, Statuses
<1>8. ASSUME NEW c \in Calls, CallStep(c)
      PROVE  EntityOK'
  <2>1. CASE UNCHANGED entity
    BY <1>0, <2>1 DEF entity, EntityOK
  <2> QED
    BY <1>7, <1>8, <2>1 DEF CallStep, VerifyKey, Verified, NotVerified, StopTransport, Stops, Join, Publish,
       KeepTask, Told, StartupTimesOut
<1>9. ASSUME NEW k \in TaskId, BindPort(k) \/ Ready(k) \/ RunFails(k) \/ Shutdown(k) \/ PortReleased
      PROVE  EntityOK'
  BY <1>0, <1>9 DEF BindPort, Ready, RunFails, Shutdown, ShutsDown, PortReleased, TaskStep, entity, EntityOK
<1>10. CASE Crash \/ PortReleased
  BY <1>0, <1>10 DEF Crash, PortReleased, TaskStep, entity, EntityOK
<1> QED
  BY <1>1, <1>2, <1>3, <1>4, <1>5, <1>6, <1>8, <1>9, <1>10 DEF Next

\* Tasks that were spawned remain spawned.
LEMMA SpawnedStay ==
    ASSUME TypeOK, Next
    PROVE  Spawned \subseteq Spawned' /\ tasks' \in [TaskId -> Places]
<1>0. tasks \in [TaskId -> Places]
  BY TypeParts DEF ManagerOK
<1>1. CASE UNCHANGED tasks
  BY <1>0, <1>1 DEF Spawned
<1>2. ASSUME NEW k, NEW place \in Places \ {"unused"}, tasks' = [tasks EXCEPT ![k] = place]
      PROVE  Spawned \subseteq Spawned' /\ tasks' \in [TaskId -> Places]
  BY <1>0, <1>2 DEF Spawned
<1>3. ASSUME NEW c \in Calls, CallStep(c)
      PROVE  Spawned \subseteq Spawned' /\ tasks' \in [TaskId -> Places]
  BY <1>1, <1>2, <1>3 DEF CallStep, VerifyKey, Verified, NotVerified, StopTransport, Stops, Join, Publish,
     KeepTask, Told, StartupTimesOut, manager, Places
<1>4. ASSUME NEW k \in TaskId, BindPort(k) \/ Ready(k) \/ RunFails(k) \/ Shutdown(k)
      PROVE  Spawned \subseteq Spawned' /\ tasks' \in [TaskId -> Places]
  BY <1>2, <1>4 DEF BindPort, Ready, RunFails, Shutdown, ShutsDown, Tells, Places
<1>5. CASE Crash
  BY <1>0, <1>5 DEF Crash, Spawned, Places
<1> QED
  BY <1>1, <1>3, <1>4, <1>5 DEF Next, Configure, StartRejected, RetryDueRejected, StartTimeout, Start, RetryDue,
     Due, Disconnect, GivesUp, PortReleased, manager

LEMMA ManagerStep ==
    ASSUME TypeOK, Next
    PROVE  ManagerOK'
<1>0. ManagerOK /\ CallsOK /\ None \in 0..TaskLimit /\ TaskId \subseteq 0..TaskLimit
  BY TypeParts, TransportBounds DEF None, TaskId
<1>s. Spawned \subseteq Spawned' /\ tasks' \in [TaskId -> Places]
  BY SpawnedStay
<1>1. CASE UNCHANGED manager
  BY <1>0, <1>1 DEF manager, ManagerOK, RunningTasks, Running, Spawned
<1>2. ASSUME NEW c \in Calls, CallStep(c)
      PROVE  ManagerOK'
  <2>1. CASE StopTransport(c)
    BY <1>0, <2>1 DEF StopTransport, Stops, ManagerOK, NoTransport, Handle, None, RunningTasks, Running, Spawned
  <2>2. CASE Publish(c)
    <3> DEFINE k == Cardinality(Spawned) + 1
    <3>1. k \in TaskId
      BY <2>2, NextTask
    <3>2. handle' = [handle EXCEPT !.status = "Connecting", !.cancel = k] /\ tasks' = [tasks EXCEPT ![k] = "spawned"]
          /\ UNCHANGED <<cancelled, port>>
      BY <2>2 DEF Publish
    <3> HIDE DEF k
    <3>3. handle' \in Handle /\ handle'.cancel = k /\ handle'.task = handle.task
      BY <1>0, <3>1, <3>2 DEF ManagerOK, Handle
    <3>4. k \in Spawned' /\ RunningTasks \subseteq RunningTasks'
      BY <1>0, <3>1, <3>2 DEF ManagerOK, Spawned, RunningTasks, Running
    <3> QED
      BY <1>0, <1>s, <3>2, <3>3, <3>4 DEF ManagerOK
  <2>3. CASE KeepTask(c)
    <3>1. calls[c].task \in 0..TaskLimit /\ calls[c].task \in Spawned \cup {None}
      BY <1>0, <2>3 DEF KeepTask, At, CallsOK, Call
    <3> QED
      BY <1>0, <2>3, <3>1 DEF KeepTask, ManagerOK, Handle, RunningTasks, Running, Spawned
  <2> QED
    BY <1>1, <1>2, <2>1, <2>2, <2>3 DEF CallStep, VerifyKey, Verified, NotVerified, Join, Told, StartupTimesOut
<1>3. ASSUME NEW k \in TaskId, BindPort(k) \/ Ready(k) \/ RunFails(k) \/ Shutdown(k)
      PROVE  ManagerOK'
  <2>1. handle' \in Handle /\ handle'.cancel \in {handle.cancel, None} /\ handle'.task = handle.task
    BY <1>0, <1>3 DEF BindPort, Ready, RunFails, Shutdown, ShutsDown, ManagerOK, Handle
  <2>2. port' \in {port, k} /\ k \in Spawned'
    BY <1>0, <1>3 DEF BindPort, Ready, RunFails, Shutdown, ShutsDown, Tells, ManagerOK, Spawned
  <2>3. cancelled' \subseteq RunningTasks'
    <3>1. \A j \in TaskId \ {k} : tasks'[j] = tasks[j]
      BY <1>0, <1>3 DEF BindPort, Ready, RunFails, Shutdown, ShutsDown, Tells, ManagerOK
    <3>2. \/ cancelled' = cancelled \ {k}
          \/ cancelled' = cancelled /\ tasks'[k] \in {"serving", "ready"}
      BY <1>0, <1>3 DEF BindPort, Ready, RunFails, Shutdown, ShutsDown, Tells, ManagerOK
    <3> QED
      BY <1>0, <3>1, <3>2 DEF ManagerOK, RunningTasks, Running
  <2> QED
    BY <1>0, <1>s, <2>1, <2>2, <2>3 DEF ManagerOK
<1>4. CASE PortReleased
  BY <1>0, <1>4 DEF PortReleased, ManagerOK, RunningTasks, Running, Spawned
<1>5. CASE Crash
  BY <1>0, <1>s, <1>5 DEF Crash, ManagerOK, NoTransport, Handle, None, RunningTasks
<1> QED
  BY <1>1, <1>2, <1>3, <1>4, <1>5 DEF Next, Configure, StartRejected, RetryDueRejected, StartTimeout, Start, RetryDue,
     Due, Disconnect, GivesUp
\* What may become of one call in a step: it begins, ends, or is changed into
\* another record that refers to spawned tasks.
LEMMA OneCallChanges ==
    ASSUME CallsOK, Spawned \subseteq Spawned', NEW c, NEW call,
           c \in Calls => call \in {Idle} \cup Call,
           c \in Calls /\ call # Idle => {call.task, call.joins} \subseteq Spawned' \cup {None},
           calls' = [calls EXCEPT ![c] = call]
    PROVE  CallsOK'
  BY DEF CallsOK

LEMMA CallsStep ==
    ASSUME TypeOK, Next
    PROVE  CallsOK'
<1>0. CallsOK /\ ManagerOK /\ None \in 0..TaskLimit
  BY TypeParts, TransportBounds DEF None
<1>s. Spawned \subseteq Spawned'
  BY SpawnedStay
<1>1. CASE UNCHANGED calls
  BY <1>0, <1>s, <1>1 DEF CallsOK
<1>2. ASSUME NEW c \in Calls, NEW for \in {"reconcile", "disconnect", "nobody"}, NEW place \in {"verify", "stop"},
             Begins(c, for, place)
      PROVE  CallsOK'
  <2> DEFINE call == [for |-> for, at |-> place, task |-> None, joins |-> None, told |-> "nothing"]
  <2>1. call \in Call /\ {call.task, call.joins} \subseteq Spawned' \cup {None}
    BY <1>0 DEF Call
  <2>2. calls' = [calls EXCEPT ![c] = call]
    BY <1>2 DEF Begins
  <2> HIDE DEF call
  <2> QED
    BY <1>0, <1>s, <2>1, <2>2, OneCallChanges
<1>3. ASSUME NEW c \in Calls, calls' = [calls EXCEPT ![c] = Idle]
      PROVE  CallsOK'
  BY <1>0, <1>s, <1>3 DEF CallsOK
<1>4. ASSUME NEW c \in Calls, calls[c] # Idle
      PROVE  /\ calls[c] \in Call /\ {calls[c].task, calls[c].joins} \subseteq Spawned' \cup {None}
  BY <1>0, <1>s, <1>4 DEF CallsOK
<1>5. ASSUME NEW c \in Calls, calls[c] # Idle, NEW place, Goes(c, place),
             place \in {"verify", "stop", "join", "publish", "keep", "wait", "stopAgain", "joinAgain"}
      PROVE  CallsOK'
  <2> DEFINE call == [calls[c] EXCEPT !.at = place]
  <2>1. call \in Call /\ {call.task, call.joins} \subseteq Spawned' \cup {None}
    BY <1>4, <1>5 DEF Call
  <2>2. calls' = [calls EXCEPT ![c] = call]
    BY <1>5 DEF Goes
  <2> HIDE DEF call
  <2> QED
    BY <1>0, <1>s, <2>1, <2>2, OneCallChanges
<1>6. ASSUME NEW c \in Calls, GivesUp(c)
      PROVE  CallsOK'
  <2>1. calls[c] # Idle
    BY <1>6 DEF GivesUp
  <2>2. CASE calls' = [calls EXCEPT ![c].for = "nobody"]
    <3> DEFINE call == [calls[c] EXCEPT !.for = "nobody"]
    <3>1. call \in Call /\ {call.task, call.joins} \subseteq Spawned' \cup {None}
      BY <1>4, <2>1 DEF Call
    <3>2. calls' = [calls EXCEPT ![c] = call]
      BY <2>2
    <3> HIDE DEF call
    <3> QED
      BY <1>0, <1>s, <3>1, <3>2, OneCallChanges
  <2> QED
    BY <1>3, <1>6, <2>2 DEF GivesUp
<1>7. ASSUME NEW c \in Calls, CallStep(c)
      PROVE  CallsOK'
  <2>1. calls[c] # Idle
    BY <1>7 DEF CallStep, VerifyKey, Verified, NotVerified, StopTransport, Stops, Join, Publish, KeepTask, Told,
       StartupTimesOut, At
  <2>2. CASE StopTransport(c)
    <3> DEFINE call == [calls[c] EXCEPT !.joins = handle.task,
                                        !.at = IF @ = "stop" THEN "join" ELSE "joinAgain"]
    <3>1. handle.task \in 0..TaskLimit /\ handle.task \in Spawned' \cup {None}
      BY <1>0, <1>s DEF ManagerOK, Handle
    <3>2. call \in Call /\ {call.task, call.joins} \subseteq Spawned' \cup {None}
      BY <1>4, <2>1, <3>1 DEF Call
    <3>3. calls' = [calls EXCEPT ![c] = call]
      BY <2>2 DEF StopTransport, Stops
    <3> HIDE DEF call
    <3> QED
      BY <1>0, <1>s, <3>2, <3>3, OneCallChanges
  <2>3. CASE Publish(c)
    <3> DEFINE k == Cardinality(Spawned) + 1
               call == [calls[c] EXCEPT !.task = k, !.at = "keep"]
    <3>1. k \in TaskId /\ k \in 0..TaskLimit
      BY <2>3, NextTask, TransportBounds DEF TaskId
    <3>2. tasks' = [tasks EXCEPT ![k] = "spawned"]
      BY <2>3 DEF Publish
    <3>3. calls' = [calls EXCEPT ![c] = call]
      BY <2>3 DEF Publish
    <3> HIDE DEF k
    <3>4. k \in Spawned'
      BY <1>0, <3>1, <3>2 DEF ManagerOK, Spawned
    <3>5. call \in Call /\ {call.task, call.joins} \subseteq Spawned' \cup {None}
      BY <1>4, <2>1, <3>1, <3>4 DEF Call
    <3> HIDE DEF call
    <3> QED
      BY <1>0, <1>s, <3>3, <3>5, OneCallChanges
  <2>4. CASE Join(c)
    BY <1>3, <1>5, <2>1, <2>4 DEF Join, Answers
  <2>5. CASE NotVerified(c) \/ Told(c)
    BY <1>3, <2>5 DEF NotVerified, Told, Answers
  <2>6. CASE VerifyKey(c) \/ KeepTask(c) \/ StartupTimesOut(c)
    BY <1>5, <2>1, <2>6 DEF VerifyKey, Verified, KeepTask, StartupTimesOut
  <2> QED
    BY <1>7, <2>2, <2>3, <2>4, <2>5, <2>6 DEF CallStep
<1>8. ASSUME NEW k \in TaskId, NEW place, NEW outcome \in {"ok", "retry", "fail"}, Tells(k, place, outcome)
      PROVE  CallsOK'
  <2>1. ASSUME NEW c \in Calls, calls'[c] # Idle
        PROVE  calls'[c] \in Call /\ {calls'[c].task, calls'[c].joins} \subseteq Spawned' \cup {None}
    <3>1. calls[c] # Idle
      BY <1>8, <2>1 DEF Tells
    <3>2. calls'[c] = calls[c] \/ calls'[c] = [calls[c] EXCEPT !.told = outcome]
      BY <1>8 DEF Tells
    <3> QED
      BY <1>4, <3>1, <3>2 DEF Call
  <2>2. calls' = [c \in Calls |-> calls'[c]]
    BY <1>8 DEF Tells
  <2> QED
    BY <2>1, <2>2 DEF CallsOK
<1>9. ASSUME NEW k \in TaskId, BindPort(k) \/ Ready(k) \/ RunFails(k) \/ Shutdown(k)
      PROVE  CallsOK'
  BY <1>1, <1>8, <1>9 DEF BindPort, Ready, RunFails, Shutdown, ShutsDown
<1>10. CASE Crash
  BY <1>10 DEF Crash, CallsOK
<1> QED
  BY <1>1, <1>2, <1>6, <1>7, <1>9, <1>10 DEF Next, Configure, StartRejected, RetryDueRejected, Due, StartTimeout,
     Start, RetryDue, Retries, Disconnect, PortReleased

LEMMA TypeStep == TypeOK /\ [Next]_vars => TypeOK'
<1>1. ASSUME TypeOK, Next
      PROVE  TypeOK'
  BY <1>1, EntityStep, ManagerStep, CallsStep, TypeParts DEF TypeOK, EntityOK, ManagerOK, CallsOK, Statuses
<1>2. ASSUME TypeOK, UNCHANGED vars
      PROVE  TypeOK'
  BY <1>2 DEF vars, entity, manager, TypeOK, RunningTasks, Running, Spawned
<1> QED
  BY <1>1, <1>2

\* Every reachable state is well typed: in particular no schedule fires that was not
\* made, and token, task and port of the handle are those of spawned tasks.
THEOREM TypeCorrect == Spec => []TypeOK
  BY TypeInit, TypeStep, PTL DEF Spec

-----------------------------------------------------------------------------
(***************************************************************************)
(* What holds however calls overlap.                                       *)
(***************************************************************************)
LEMMA RetryStep == TypeOK /\ RetryIsScheduled /\ [Next]_vars => RetryIsScheduled'
<1> SUFFICES ASSUME TypeOK, RetryIsScheduled, [Next]_vars
             PROVE  RetryIsScheduled'
  OBVIOUS
<1>0. due \in Nat /\ starting \in Nat
  BY DEF TypeOK
<1> USE DEF RetryIsScheduled
<1>1. CASE UNCHANGED <<entity, booting>>
  BY <1>1 DEF entity
<1>2. CASE status' # "Retrying"
  BY <1>2
<1>3. CASE StartRetry /\ UNCHANGED starting
  BY <1>0, <1>3 DEF StartRetry
<1>4. ASSUME NEW c \in Calls, NEW outcome, Answers(c, outcome), UNCHANGED booting
      PROVE  RetryIsScheduled'
  BY <1>1, <1>2, <1>3, <1>4 DEF Answers, StartSucceeded, StartFailed, entity
<1>5. ASSUME NEW c \in Calls, CallStep(c)
      PROVE  RetryIsScheduled'
  BY <1>1, <1>4, <1>5 DEF CallStep, VerifyKey, Verified, NotVerified, StopTransport, Stops, Join, Publish, KeepTask,
     Told, StartupTimesOut
<1>6. ASSUME NEW c \in Calls, GivesUp(c)
      PROVE  RetryIsScheduled'
  BY <1>1, <1>2, <1>3, <1>6 DEF GivesUp, StartFailed, entity
<1>7. ASSUME NEW c \in Calls, Start(c) \/ RetryDue(c) \/ Disconnect(c)
      PROVE  RetryIsScheduled'
  BY <1>1, <1>2, <1>7 DEF Start, RetryDue, Retries, Disconnect
<1>8. CASE StartRejected \/ RetryDueRejected \/ Configure
  BY <1>2, <1>8 DEF StartRejected, RetryDueRejected, Configure, StartFrom
<1>9. CASE StartTimeout
  BY <1>3, <1>9 DEF StartTimeout
<1>10. ASSUME NEW k \in TaskId, BindPort(k) \/ Ready(k) \/ RunFails(k) \/ Shutdown(k)
       PROVE  RetryIsScheduled'
  BY <1>1, <1>10 DEF BindPort, Ready, RunFails, Shutdown, ShutsDown, TaskStep
<1>11. CASE PortReleased \/ Crash
  BY <1>1, <1>11 DEF PortReleased, TaskStep, Crash
<1>12. CASE UNCHANGED vars
  BY <1>1, <1>12 DEF vars
<1> QED
  BY <1>5, <1>6, <1>7, <1>8, <1>9, <1>10, <1>11, <1>12 DEF Next

\* A connection that waits for its retry gets one.
THEOREM RetryComes == Spec => []RetryIsScheduled
<1>1. Init => RetryIsScheduled
  BY DEF Init, RetryIsScheduled
<1> QED
  BY <1>1, TypeInit, TypeStep, RetryStep, PTL DEF Spec

LEMMA ReadyzStep == TypeOK /\ ReadyzIsTrue /\ [Next]_vars => ReadyzIsTrue'
<1> SUFFICES ASSUME TypeOK, ReadyzIsTrue, [Next]_vars
             PROVE  ReadyzIsTrue'
  OBVIOUS
<1>0. handle \in Handle /\ tasks \in [TaskId -> Places]
  BY DEF TypeOK
<1> USE DEF ReadyzIsTrue
<1>1. CASE handle'.status = handle.status /\ UNCHANGED tasks
  BY <1>1
<1>2. CASE handle'.status # "Connected"
  BY <1>2
<1>3. ASSUME NEW c \in Calls, CallStep(c)
      PROVE  ReadyzIsTrue'
  <2>1. CASE StopTransport(c)
    BY <1>2, <2>1 DEF StopTransport, Stops, NoTransport
  <2>2. CASE Publish(c)
    BY <1>0, <1>2, <2>2 DEF Publish, Handle
  <2>3. CASE KeepTask(c)
    BY <1>0, <1>1, <2>3 DEF KeepTask, Handle
  <2> QED
    BY <1>1, <1>3, <2>1, <2>2, <2>3 DEF CallStep, VerifyKey, Verified, NotVerified, Join, Told, StartupTimesOut, manager
<1>4. ASSUME NEW k \in TaskId, Ready(k)
      PROVE  ReadyzIsTrue'
  BY <1>0, <1>4 DEF Ready, Tells
<1>5. ASSUME NEW k \in TaskId, BindPort(k)
      PROVE  ReadyzIsTrue'
  BY <1>0, <1>5 DEF BindPort
<1>6. ASSUME NEW k \in TaskId, RunFails(k) \/ Shutdown(k)
      PROVE  ReadyzIsTrue'
  BY <1>0, <1>2, <1>6 DEF RunFails, Shutdown, ShutsDown, Handle
<1>7. CASE Crash
  BY <1>2, <1>7 DEF Crash, NoTransport
<1>8. CASE UNCHANGED manager \/ PortReleased
  BY <1>1, <1>8 DEF manager, PortReleased
<1> QED
  BY <1>3, <1>4, <1>5, <1>6, <1>7, <1>8 DEF Next, vars, Configure, StartRejected, RetryDueRejected, Due, StartTimeout,
     Start, RetryDue, Disconnect, GivesUp

\* /readyz says Connected only while a transport that has seen READY runs, however
\* calls of the manager and the tasks they spawned overlap.
THEOREM ReadyzTrue == Spec => []ReadyzIsTrue
<1>1. Init => ReadyzIsTrue
  BY DEF Init, ReadyzIsTrue, NoTransport
<1> QED
  BY <1>1, TypeInit, TypeStep, ReadyzStep, PTL DEF Spec
-----------------------------------------------------------------------------
(***************************************************************************)
(* Control.  While calls do not overlap, a running task is either held by  *)
(* the handle, its task stored or about to be, or cancelled, and then the  *)
(* one call waits for it.  So at most one task runs when a task ends and   *)
(* clears the token, and none when the next token is published.            *)
(***************************************************************************)
Alone == \A c, d \in Calls : calls[c] # Idle /\ calls[d] # Idle => c = d
Emptied ==
    \A c \in Calls : calls[c] # Idle =>
        /\ calls[c].at \in {"join", "publish", "joinAgain"} => handle.cancel = None
        /\ calls[c].at \in {"join", "publish", "joinAgain", "keep"} => handle.task = None
Held(k) ==
    /\ k \notin cancelled /\ handle.cancel = k
    /\ handle.task = k \/ \E c \in Calls : At(c, "keep") /\ calls[c].task = k
Leaving(k) ==
    k \in cancelled /\ \E c \in Calls : (At(c, "join") \/ At(c, "joinAgain")) /\ calls[c].joins = k
Controlled == Alone /\ Emptied /\ \A k \in TaskId : Running(k) => Held(k) \/ Leaving(k)
Control == ~disturbed => Controlled
LEMMA ControlInit == Init => Control
  BY DEF Init, Control, Controlled, Alone, Emptied, Running

\* Handle and tasks do not change, and every call stays where it is or ends, not
\* in a place that the invariant speaks of.
LEMMA CallsOnly ==
    ASSUME TypeOK, TypeOK', Controlled, UNCHANGED <<handle, tasks, cancelled>>,
           \A d \in Calls : calls'[d] # Idle =>
                /\ calls[d] # Idle /\ calls'[d].task = calls[d].task /\ calls'[d].joins = calls[d].joins
                /\ calls'[d].at = calls[d].at,
           \A d \in Calls : calls[d] # Idle /\ calls'[d] = Idle =>
                \/ calls[d].at \notin {"join", "joinAgain", "keep"}
                \/ calls[d].at \in {"join", "joinAgain"} /\ calls[d].joins \notin RunningTasks
    PROVE  Controlled'
<1>1. Alone' /\ Emptied'
  BY DEF Controlled, Alone, Emptied
<1>2. ASSUME NEW k \in TaskId, Running(k)'
      PROVE  Held(k)' \/ Leaving(k)'
  <2>1. Running(k) /\ k \in RunningTasks
    BY <1>2 DEF Running, RunningTasks
  <2>2. CASE Held(k)
    <3>1. ASSUME NEW c \in Calls, At(c, "keep"), calls[c].task = k
          PROVE  At(c, "keep")' /\ calls'[c].task = k
      BY <3>1 DEF At
    <3> QED
      BY <2>2, <3>1 DEF Held
  <2>3. CASE Leaving(k)
    <3>1. PICK c \in Calls : (At(c, "join") \/ At(c, "joinAgain")) /\ calls[c].joins = k
      BY <2>3 DEF Leaving
    <3>2. (At(c, "join") \/ At(c, "joinAgain"))' /\ calls'[c].joins = k
      BY <2>1, <3>1 DEF At
    <3> QED
      BY <2>3, <3>2 DEF Leaving
  <2> QED
    BY <2>1, <2>2, <2>3 DEF Controlled
<1> QED
  BY <1>1, <1>2 DEF Controlled

\* One call moves to a place, keeping its task and what it waits for.
LEMMA GoesParts ==
    ASSUME TypeOK, NEW c \in Calls, calls[c] # Idle, NEW place, Goes(c, place)
    PROVE  /\ calls'[c].at = place /\ calls'[c].task = calls[c].task /\ calls'[c].joins = calls[c].joins
           /\ \A d \in Calls \ {c} : calls'[d] = calls[d]
<1>1. calls \in [Calls -> {Idle} \cup Call] /\ calls[c] \in Call
  BY DEF TypeOK
<1> QED
  BY <1>1 DEF Goes, Call

\* Where calls do not overlap, the tasks that run are one.
LEMMA OneRuns ==
    ASSUME TypeOK, Controlled, NEW j \in TaskId, NEW k \in TaskId, Running(j), Running(k)
    PROVE  j = k
<1>0. None \notin TaskId
  BY TransportBounds DEF None, TaskId
<1>1. CASE Held(j) /\ Held(k)
  BY <1>1 DEF Held
<1>2. ASSUME NEW i \in TaskId, Leaving(i)
      PROVE  handle.cancel = None
  BY <1>2 DEF Leaving, Controlled, Emptied, At
<1>3. CASE Leaving(j) /\ Leaving(k)
  <2>1. PICK c \in Calls : calls[c] # Idle /\ calls[c].joins = j
    BY <1>3 DEF Leaving, At
  <2>2. PICK d \in Calls : calls[d] # Idle /\ calls[d].joins = k
    BY <1>3 DEF Leaving, At
  <2> QED
    BY <2>1, <2>2 DEF Controlled, Alone
<1> QED
  BY <1>0, <1>1, <1>2, <1>3 DEF Held, Controlled

LEMMA ControlOfCall ==
    ASSUME TypeOK, TypeOK', Controlled, NEW c \in Calls, CallStep(c)
    PROVE  Controlled'
<1>0. /\ None \notin TaskId /\ calls \in [Calls -> {Idle} \cup Call] /\ handle \in Handle
      /\ calls' \in [Calls -> {Idle} \cup Call] /\ handle' \in Handle /\ tasks \in [TaskId -> Places]
      /\ cancelled \subseteq RunningTasks
  BY TransportBounds DEF None, TaskId, TypeOK
<1>1. calls[c] # Idle /\ calls[c] \in Call
  <2>1. calls[c] # Idle
    BY DEF CallStep, VerifyKey, Verified, NotVerified, StopTransport, Stops, Join, Publish, KeepTask, Told,
       StartupTimesOut, At
  <2> QED
    BY <1>0, <2>1
<1>2. \A d \in Calls \ {c} : calls[d] = Idle
  BY <1>1 DEF Controlled, Alone
<1>3. \A d \in Calls \ {c} : calls'[d] = calls[d]
  BY <1>0 DEF CallStep, VerifyKey, Verified, NotVerified, StopTransport, Stops, Join, Publish, KeepTask, Told,
     StartupTimesOut, Answers, Goes
<1>4. Alone'
  BY <1>2, <1>3 DEF Alone
<1>5. \A k \in TaskId : Held(k) <=> k \notin cancelled /\ handle.cancel = k
                                    /\ (handle.task = k \/ (calls[c].at = "keep" /\ calls[c].task = k))
  BY <1>1, <1>2 DEF Held, At
<1>6. \A k \in TaskId : Leaving(k) <=> k \in cancelled /\ calls[c].at \in {"join", "joinAgain"} /\ calls[c].joins = k
  BY <1>1, <1>2 DEF Leaving, At
<1>7. CASE calls' = [calls EXCEPT ![c] = Idle] /\ UNCHANGED <<handle, tasks, cancelled>>
           /\ (calls[c].at \in {"join", "joinAgain"} => calls[c].joins \notin RunningTasks)
           /\ calls[c].at # "keep"
  <2>1. calls'[c] = Idle
    BY <1>0, <1>7
  <2> QED
    BY <1>3, <1>7, <2>1, CallsOnly
<1>8. ASSUME calls'[c] # Idle,
             /\ calls'[c].at \in {"join", "publish", "joinAgain"} => handle'.cancel = None
             /\ calls'[c].at \in {"join", "publish", "joinAgain", "keep"} => handle'.task = None,
             \A k \in TaskId : Running(k)' =>
                \/ /\ k \notin cancelled' /\ handle'.cancel = k
                   /\ handle'.task = k \/ (calls'[c].at = "keep" /\ calls'[c].task = k)
                \/ k \in cancelled' /\ calls'[c].at \in {"join", "joinAgain"} /\ calls'[c].joins = k
      PROVE  Controlled'
  <2>1. Emptied'
    BY <1>2, <1>3, <1>8 DEF Emptied
  <2>2. ASSUME NEW k \in TaskId, Running(k)'
        PROVE  Held(k)' \/ Leaving(k)'
    <3>1. CASE /\ k \notin cancelled' /\ handle'.cancel = k
               /\ handle'.task = k \/ (calls'[c].at = "keep" /\ calls'[c].task = k)
      BY <1>8, <3>1 DEF Held, At
    <3>2. CASE k \in cancelled' /\ calls'[c].at \in {"join", "joinAgain"} /\ calls'[c].joins = k
      BY <1>8, <3>2 DEF Leaving, At
    <3> QED
      BY <1>8, <2>2, <3>1, <3>2
  <2> QED
    BY <1>4, <2>1, <2>2 DEF Controlled
<1>9. ASSUME NEW place, Goes(c, place),
             place \in {"verify", "stop", "join", "publish", "keep", "wait", "stopAgain", "joinAgain"}
      PROVE  /\ calls'[c] # Idle /\ calls'[c].at = place
             /\ calls'[c].task = calls[c].task /\ calls'[c].joins = calls[c].joins
  <2>1. calls'[c] = [calls[c] EXCEPT !.at = place]
    BY <1>0, <1>9 DEF Goes
  <2>2. [calls[c] EXCEPT !.at = place] \in Call
    BY <1>1, <1>9 DEF Call
  <2> QED
    BY <1>1, <1>9, <2>1, <2>2, GoesParts, IdleIsNoCall
<1>10. Controlled /\ \A k \in TaskId : Running(k) => Held(k) \/ Leaving(k)
  BY DEF Controlled
<1>11. CASE VerifyKey(c)
  <2>1. calls'[c] # Idle /\ calls'[c].at = "stop" /\ calls[c].at = "verify"
    BY <1>9, <1>11 DEF VerifyKey, Verified, At
  <2>2. UNCHANGED <<handle, tasks, cancelled>>
    BY <1>11 DEF VerifyKey, Verified, manager
  <2>3. \A k \in TaskId : Running(k)' => k \notin cancelled' /\ handle'.cancel = k /\ handle'.task = k
    BY <1>5, <1>6, <1>10, <2>1, <2>2 DEF Running
  <2> QED
    BY <1>8, <2>1, <2>3
<1>12. CASE NotVerified(c) \/ Told(c)
  BY <1>7, <1>12 DEF NotVerified, Told, Answers, At, manager
<1>13. CASE StopTransport(c)
  <2> DEFINE place == IF calls[c].at = "stop" THEN "join" ELSE "joinAgain"
             call == [calls[c] EXCEPT !.joins = handle.task, !.at = place]
  <2>1. calls[c].at \in {"stop", "stopAgain"}
    BY <1>13 DEF StopTransport, Stops, At
  <2>2. call \in Call /\ call.at \in {"join", "joinAgain"} /\ call.joins = handle.task
    BY <1>0, <1>1 DEF Call, Handle
  <2>3. calls' = [calls EXCEPT ![c] = call]
    BY <1>13 DEF StopTransport, Stops
  <2> HIDE DEF call
  <2>4. calls'[c] = call /\ call # Idle
    BY <1>0, <2>2, <2>3, IdleIsNoCall
  <2>5. /\ UNCHANGED tasks /\ handle'.cancel = None /\ handle'.task = None
        /\ cancelled' = cancelled \cup (({handle.cancel} \ {None}) \cap RunningTasks)
    BY <1>13 DEF StopTransport, Stops, NoTransport
  <2>6. ASSUME NEW k \in TaskId, Running(k)'
        PROVE  k \in cancelled' /\ handle.task = k
    <3>1. Running(k) /\ k \in RunningTasks /\ k # None
      BY <1>0, <2>5, <2>6 DEF Running, RunningTasks
    <3>2. Held(k)
      BY <1>6, <1>10, <2>1, <3>1
    <3> QED
      BY <1>5, <2>1, <2>5, <3>1, <3>2
  <2> QED
    BY <1>8, <2>2, <2>4, <2>5, <2>6
<1>14. CASE Join(c)
  <2>1. /\ calls[c].at \in {"join", "joinAgain"} /\ calls[c].joins \notin RunningTasks
        /\ UNCHANGED <<handle, tasks, cancelled>>
    BY <1>14 DEF Join, At, manager
  <2>2. CASE Goes(c, "publish")
    <3>1. calls'[c] # Idle /\ calls'[c].at = "publish"
      BY <1>9, <2>2
    <3>2. handle.cancel = None /\ handle.task = None
      BY <1>1, <2>1 DEF Controlled, Emptied
    <3>3. ASSUME NEW k \in TaskId, Running(k)'
          PROVE  FALSE
      <4>1. Running(k) /\ k \in RunningTasks /\ k # None
        BY <1>0, <2>1, <3>3 DEF Running, RunningTasks
      <4> QED
        BY <1>5, <1>6, <1>10, <2>1, <3>2, <4>1
    <3> QED
      BY <1>8, <2>1, <3>1, <3>2, <3>3
  <2> QED
    BY <1>7, <1>14, <2>1, <2>2 DEF Join, Answers
<1>15. CASE Publish(c)
  <2> DEFINE k == Cardinality(Spawned) + 1
             call == [calls[c] EXCEPT !.task = k, !.at = "keep"]
  <2>1. calls[c].at = "publish" /\ k \in TaskId /\ k \in 0..TaskLimit
    <3>1. k \in TaskId
      BY <1>15, NextTask
    <3>2. calls[c].at = "publish"
      BY <1>15 DEF Publish, At
    <3> QED
      BY <3>1, <3>2, TransportBounds DEF TaskId
  <2>2. /\ handle' = [handle EXCEPT !.status = "Connecting", !.cancel = k] /\ UNCHANGED cancelled
        /\ tasks' = [tasks EXCEPT ![k] = "spawned"] /\ calls' = [calls EXCEPT ![c] = call]
    BY <1>15 DEF Publish
  <2> HIDE DEF k
  <2>3. call \in Call /\ call.at = "keep" /\ call.task = k
    BY <1>1, <2>1 DEF Call
  <2> HIDE DEF call
  <2>4. calls'[c] = call /\ call # Idle
    BY <1>0, <2>2, <2>3, IdleIsNoCall
  <2>5. handle.cancel = None /\ handle.task = None
    BY <1>1, <2>1 DEF Controlled, Emptied
  <2>6. handle'.cancel = k /\ handle'.task = None
    BY <1>0, <2>2, <2>5 DEF Handle
  <2>7. \A j \in TaskId : ~Running(j)
    BY <1>0, <1>5, <1>6, <1>10, <2>1, <2>5
  <2>8. k \notin cancelled
    BY <2>1, <2>7, <1>0 DEF RunningTasks
  <2>9. \A j \in TaskId : Running(j)' => j = k
    BY <1>0, <2>2, <2>7 DEF Running
  <2> QED
    BY <1>8, <2>2, <2>3, <2>4, <2>6, <2>8, <2>9
<1>16. CASE KeepTask(c)
  <2>1. calls'[c] # Idle /\ calls'[c].at = "wait" /\ calls[c].at = "keep" /\ UNCHANGED <<tasks, cancelled>>
    BY <1>9, <1>16 DEF KeepTask, At
  <2>2. handle'.task = calls[c].task /\ handle'.cancel = handle.cancel
    BY <1>0, <1>16 DEF KeepTask, Handle
  <2>3. handle.task = None
    BY <1>1, <2>1 DEF Controlled, Emptied
  <2>4. ASSUME NEW k \in TaskId, Running(k)'
        PROVE  k \notin cancelled' /\ handle'.cancel = k /\ handle'.task = k
    <3>1. Running(k) /\ k # None
      BY <1>0, <2>1, <2>4 DEF Running
    <3> QED
      BY <1>5, <1>6, <1>10, <2>1, <2>2, <2>3, <3>1
  <2> QED
    BY <1>8, <2>1, <2>4
<1>17. CASE StartupTimesOut(c)
  <2>1. calls'[c] # Idle /\ calls'[c].at = "stopAgain" /\ calls[c].at = "wait"
    BY <1>9, <1>17 DEF StartupTimesOut, At
  <2>2. UNCHANGED <<handle, tasks, cancelled>>
    BY <1>17 DEF StartupTimesOut, manager
  <2>3. \A k \in TaskId : Running(k)' => k \notin cancelled' /\ handle'.cancel = k /\ handle'.task = k
    BY <1>5, <1>6, <1>10, <2>1, <2>2 DEF Running
  <2> QED
    BY <1>8, <2>1, <2>3
<1> QED
  BY <1>11, <1>12, <1>13, <1>14, <1>15, <1>16, <1>17 DEF CallStep

\* A task that ends was the only one: its clearing the token harms no other.
LEMMA ControlOfTask ==
    ASSUME TypeOK, TypeOK', Controlled, NEW k \in TaskId,
           BindPort(k) \/ Ready(k) \/ RunFails(k) \/ Shutdown(k)
    PROVE  Controlled'
<1>0. /\ calls \in [Calls -> {Idle} \cup Call] /\ handle \in Handle /\ tasks \in [TaskId -> Places]
      /\ cancelled \subseteq RunningTasks
  BY DEF TypeOK
<1>1. ASSUME NEW c \in Calls
      PROVE  /\ calls[c] = Idle <=> calls'[c] = Idle
             /\ calls[c] # Idle => /\ calls'[c].at = calls[c].at /\ calls'[c].task = calls[c].task
                                   /\ calls'[c].joins = calls[c].joins
  <2>1. CASE calls'[c] = calls[c]
    BY <2>1
  <2>2. ASSUME calls[c] # Idle, NEW outcome \in {"ok", "retry", "fail"}, calls'[c] = [calls[c] EXCEPT !.told = outcome]
        PROVE  /\ calls'[c] # Idle /\ calls'[c].at = calls[c].at /\ calls'[c].task = calls[c].task
               /\ calls'[c].joins = calls[c].joins
    <3>1. calls[c] \in Call
      BY <1>0, <2>2
    <3>2. [calls[c] EXCEPT !.told = outcome] \in Call
      BY <3>1, <2>2 DEF Call
    <3> QED
      BY <2>2, <3>1, <3>2, IdleIsNoCall DEF Call
  <2>3. ASSUME NEW place, NEW outcome \in {"ok", "retry", "fail"}, Tells(k, place, outcome)
        PROVE  calls'[c] = calls[c] \/ (calls[c] # Idle /\ calls'[c] = [calls[c] EXCEPT !.told = outcome])
    BY <2>3 DEF Tells
  <2> QED
    BY <2>1, <2>2, <2>3 DEF BindPort, Ready, RunFails, Shutdown, ShutsDown
<1>2. \A c \in Calls : (At(c, "join")' <=> At(c, "join")) /\ (At(c, "joinAgain")' <=> At(c, "joinAgain"))
                       /\ (At(c, "keep")' <=> At(c, "keep"))
  BY <1>1 DEF At
<1>3. handle'.task = handle.task /\ handle'.cancel \in {handle.cancel, None}
  BY <1>0 DEF BindPort, Ready, RunFails, Shutdown, ShutsDown, Handle
<1>4. Alone' /\ Emptied'
  BY <1>1, <1>3 DEF Controlled, Alone, Emptied
<1>5. \A j \in TaskId \ {k} : tasks'[j] = tasks[j]
  BY <1>0 DEF BindPort, Ready, RunFails, Shutdown, ShutsDown, Tells
<1>6. Running(k)
  <2>1. CASE Shutdown(k)
    BY <1>0, <2>1 DEF Shutdown, ShutsDown, RunningTasks
  <2> QED
    BY <2>1 DEF BindPort, Ready, RunFails, Running
<1>7. ASSUME NEW j \in TaskId, Running(j)'
      PROVE  j = k /\ handle'.cancel = handle.cancel /\ cancelled' = cancelled
  <2>1. j = k
    BY <1>5, <1>6, <1>7, OneRuns DEF Running
  <2>2. BindPort(k) \/ Ready(k)
    BY <1>0, <1>7, <2>1 DEF RunFails, Shutdown, ShutsDown, Tells, Running
  <2> QED
    BY <1>0, <2>1, <2>2 DEF BindPort, Ready, Handle
<1>8. ASSUME NEW j \in TaskId, Running(j)'
      PROVE  Held(j)' \/ Leaving(j)'
  <2>1. j = k /\ handle'.cancel = handle.cancel /\ cancelled' = cancelled /\ Running(j)
    BY <1>6, <1>7, <1>8
  <2>2. CASE Held(j)
    <3>1. ASSUME NEW c \in Calls, At(c, "keep"), calls[c].task = j
          PROVE  At(c, "keep")' /\ calls'[c].task = j
      BY <1>1, <3>1 DEF At
    <3> QED
      BY <1>3, <2>1, <2>2, <3>1 DEF Held
  <2>3. CASE Leaving(j)
    <3>1. PICK c \in Calls : (At(c, "join") \/ At(c, "joinAgain")) /\ calls[c].joins = j
      BY <2>3 DEF Leaving
    <3>2. (At(c, "join") \/ At(c, "joinAgain"))' /\ calls'[c].joins = j
      BY <1>1, <3>1 DEF At
    <3> QED
      BY <2>1, <2>3, <3>2 DEF Leaving
  <2> QED
    BY <2>1, <2>2, <2>3 DEF Controlled
<1> QED
  BY <1>4, <1>8 DEF Controlled

LEMMA ControlStep == TypeOK /\ Control /\ [Next]_vars => Control'
<1> SUFFICES ASSUME TypeOK, Control, [Next]_vars, ~disturbed'
             PROVE  Controlled'
  BY DEF Control
<1>0. TypeOK' /\ calls \in [Calls -> {Idle} \cup Call]
  BY TypeStep DEF TypeOK
<1>1. CASE UNCHANGED <<manager, calls, disturbed>>
  BY <1>1 DEF manager, Control, Controlled, Alone, Emptied, Held, Leaving, Running, At
<1>2. ASSUME NEW c \in Calls, CallStep(c)
      PROVE  Controlled'
  <2>1. disturbed' = disturbed
    BY <1>2 DEF CallStep, VerifyKey, Verified, NotVerified, StopTransport, Stops, Join, Publish, KeepTask, Told,
       StartupTimesOut
  <2> QED
    BY <1>0, <1>2, <2>1, ControlOfCall DEF Control
<1>3. ASSUME NEW k \in TaskId, BindPort(k) \/ Ready(k) \/ RunFails(k) \/ Shutdown(k)
      PROVE  Controlled'
  <2>1. disturbed' = disturbed
    BY <1>3 DEF BindPort, Ready, RunFails, Shutdown, ShutsDown, TaskStep
  <2> QED
    BY <1>0, <1>3, <2>1, ControlOfTask DEF Control
<1>4. ASSUME NEW c \in Calls, NEW for, NEW place \in {"verify", "stop"}, Begins(c, for, place), UNCHANGED manager
      PROVE  Controlled'
  <2>1. ~disturbed /\ \A d \in Calls : calls[d] = Idle
    BY <1>4 DEF Begins
  <2>2. Controlled
    BY <2>1 DEF Control
  <2>3. calls'[c].at = place /\ \A d \in Calls \ {c} : calls'[d] = Idle
    BY <1>0, <1>4, <2>1 DEF Begins
  <2>4. Alone' /\ Emptied'
    BY <2>3, <1>4 DEF Alone, Emptied
  <2>5. ASSUME NEW k \in TaskId, Running(k)'
        PROVE  Held(k)'
    <3>1. Running(k)
      BY <1>4, <2>5 DEF Running, manager
    <3>2. Held(k)
      BY <2>1, <2>2, <3>1 DEF Controlled, Leaving, At
    <3>3. handle.task = k
      BY <2>1, <3>2 DEF Held, At
    <3> QED
      BY <1>4, <3>2, <3>3 DEF Held, manager
  <2> QED
    BY <2>4, <2>5 DEF Controlled
<1>5. ASSUME NEW c \in Calls, Start(c) \/ RetryDue(c) \/ Disconnect(c)
      PROVE  Controlled'
  BY <1>4, <1>5 DEF Start, RetryDue, Due, Retries, Disconnect
<1>6. ASSUME NEW c \in Calls, GivesUp(c)
      PROVE  FALSE
  BY <1>6 DEF GivesUp
<1>7. CASE PortReleased
  <2>1. UNCHANGED <<handle, tasks, cancelled, calls, disturbed>>
    BY <1>7 DEF PortReleased, TaskStep
  <2> QED
    BY <2>1 DEF Control, Controlled, Alone, Emptied, Held, Leaving, Running, At
<1>8. CASE Crash
  BY <1>8 DEF Crash, Controlled, Alone, Emptied, Running
<1>9. CASE Configure \/ StartRejected \/ RetryDueRejected \/ StartTimeout \/ UNCHANGED vars
  BY <1>1, <1>9 DEF Configure, StartRejected, RetryDueRejected, Due, StartTimeout, vars
<1> QED
  BY <1>2, <1>3, <1>5, <1>6, <1>7, <1>8, <1>9 DEF Next

\* As long as calls of the manager do not overlap, no transport gets out of its control:
\* the handle has the token of the one that runs, and its task, unless the call that
\* spawned it is about to store it.
THEOREM StaysUnderControl == Spec => []UnderControl
<1>1. Control => UnderControl
  <2> SUFFICES ASSUME Control, ~disturbed, NEW k \in TaskId, Running(k), k \notin cancelled
               PROVE  /\ handle.cancel = k
                      /\ handle.task = k \/ \E c \in Calls : At(c, "keep") /\ calls[c].task = k
    BY DEF UnderControl
  <2> QED
    BY DEF Control, Controlled, Held, Leaving
<1> QED
  BY <1>1, TypeInit, TypeStep, ControlInit, ControlStep, PTL DEF Spec
=============================================================================
