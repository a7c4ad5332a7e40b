------------------------------- MODULE Compute -------------------------------
(***************************************************************************)
(* Computers and executions (os-apps/paw-compute): a source, the copies    *)
(* made of it, and commands that run on either.  A row (the Computer) says *)
(* what its sandbox at the provider does; only integrations that call the  *)
(* provider keep the two together:                                         *)
(*   computer_copy_start      `job`       makes or finds the named copy    *)
(*   computer_copy_poll       `poll`      asks whether the copy is up      *)
(*   computer_sleep, _wake    `control`   suspend and resume               *)
(*   computer_terminate       `teardown`  tears down what machine_id names *)
(*   computer_exec_start      `launch`    resumes if need be and launches  *)
(*   computer_exec_poll       `poll`      asks whether the command ended   *)
(* Any call may fail, or take effect and lose its answer.  An outage loses *)
(* the invocations that run; rows and timeouts are durable.                *)
(*                                                                         *)
(* The sandbox a child's copy runs in is called like the child, and the    *)
(* source's like the source.  Time is counted in periods of the poll       *)
(* timeouts (10 s).  Configure, output, names and resources are left out.  *)
(***************************************************************************)
EXTENDS Naturals

CONSTANTS
    Source,            \* the computer that is copied
    Children,          \* rows for its copies
    Execs,             \* commands
    None,              \* no machine, no computer
    SleepAfter,        \* periods after which a computer that is Ready is put to sleep
    ReapAfter,         \* periods after which the lease of a copy ends
    TroubleLimit,      \* bound on failing calls, lost answers, outages and interventions
    ByHand             \* do administrators report on a child that waits for its copy?

Computers == Children \cup {Source}
Polled == Children \cup Execs          \* what a poll timeout drives

ASSUME ComputeNames ==
    /\ Source \notin Children /\ None \notin Computers
    /\ Computers \cap Execs = {}
ASSUME ComputeBounds ==
    /\ {SleepAfter, ReapAfter} \subseteq Nat \ {0, 1}
    /\ TroubleLimit \in Nat
    /\ ByHand \in BOOLEAN

VARIABLES
    status,            \* of the rows; "none" until a child is spawned
    machine,           \* machine_id
    box,               \* the sandboxes at the provider
    asked, made,       \* requests for a copy the provider has taken, and copies made of them
    job, teardown, control, launch, poll,    \* integrations in flight
    exec, target,      \* status and computer_id of the executions
    signal,            \* Wake and Heartbeat on their way from them to their computers
    process,           \* the commands in their sandboxes
    idle,              \* periods since the timeout of Ready or Leased was armed
    clock, late,       \* poll timeout, and whether the deadline of what is polled has passed
    blurred,           \* was a suspend or resume overlapped, lost, or its failure not heard
    outage,            \* was there one
    troubles

provider == <<box, asked, made, process>>
rows     == <<status, machine>>
execs    == <<exec, target, signal>>
calls    == <<job, teardown, control, launch, poll>>
timers   == <<clock, late>>
time     == <<idle, timers>>
history  == <<blurred, outage, troubles>>
vars     == <<rows, provider, calls, execs, time, history>>

-----------------------------------------------------------------------------
Statuses ==
    {"none", "Created", "Provisioning", "CopyUnknown", "Copying", "Ready", "Checkpointing",
     "Sleeping", "Leased", "Terminating", "Destroyed"}
Modes    == {"Start", "Reconcile"}
Signals  == {"Wake", "Heartbeat"}
Requests == {"suspend", "resume", "suspend_failed", "resume_failed"}
Runnable == {"Ready", "Leased", "Sleeping"}
Alive    == {"booting", "up", "suspended"}
Unresolved == {"Provisioning", "CopyUnknown"}
ExecEnded  == {"Succeeded", "Failed"}

\* An administrator records existing metal, so the source's sandbox is there already.
Init ==
    /\ status = [r \in Computers |-> IF r = Source THEN "Created" ELSE "none"]
    /\ machine = [r \in Computers |-> None]
    /\ box = [r \in Computers |-> IF r = Source THEN "up" ELSE "none"]
    /\ asked = [c \in Children |-> 0] /\ made = asked
    /\ job = [c \in Children |-> [m \in Modes |-> "idle"]]
    /\ teardown = [r \in Computers |-> "idle"]
    /\ control = [r \in Computers |-> {}]
    /\ launch = [e \in Execs |-> "idle"] /\ poll = [x \in Polled |-> FALSE]
    /\ exec = [e \in Execs |-> "Created"] /\ target = [e \in Execs |-> None]
    /\ signal = [e \in Execs |-> {}] /\ process = [e \in Execs |-> "none"]
    /\ idle = [r \in Computers |-> 0]
    /\ clock = [x \in Polled |-> "off"] /\ late = [x \in Polled |-> FALSE]
    /\ blurred = [r \in Computers |-> FALSE]
    /\ outage = FALSE /\ troubles = 0

\* A transition arms the timeout of the status it leads to.
Becomes(r, to) == status' = [status EXCEPT ![r] = to] /\ idle' = [idle EXCEPT ![r] = 0]

\* What calls, and people other than by Copy, Run and ReconcileCopy, do now and then.
Trouble == troubles < TroubleLimit /\ troubles' = troubles + 1
NoTrouble == UNCHANGED troubles

(***************************************************************************)
(* The life of a row that was provisioned by hand.                         *)
(***************************************************************************)
Provision(r) ==
    /\ status[r] = "Created" /\ Becomes(r, "Provisioning")
    /\ UNCHANGED <<machine, provider, calls, execs, timers, history>>

\* No integration reports these two.  An administrator records them for a row that
\* was provisioned by hand; the automaton takes them for a child as well.
RecordedByHand(r) == status[r] = "Provisioning" /\ (machine[r] # None => ByHand)

ProvisionComplete(r) ==
    /\ RecordedByHand(r)
    /\ Becomes(r, "Ready") /\ machine' = [machine EXCEPT ![r] = r]
    /\ UNCHANGED <<provider, calls, execs, timers, history>>

ProvisionFailed(r) ==
    /\ RecordedByHand(r) /\ Becomes(r, "Created")
    /\ UNCHANGED <<machine, provider, calls, execs, timers, history>>

Checkpoint(r) ==
    /\ status[r] = "Ready" /\ Becomes(r, "Checkpointing") /\ Trouble
    /\ UNCHANGED <<machine, provider, calls, execs, timers, blurred, outage>>

CheckpointComplete(r) ==
    /\ status[r] = "Checkpointing" /\ Becomes(r, "Ready")
    /\ UNCHANGED <<machine, provider, calls, execs, timers, history>>

(***************************************************************************)
(* Sleep and Wake change the row first, and the sandbox later.             *)
(***************************************************************************)
\* Of two equal calls in flight one is followed.
Blurs(r, happened) == blurred' = [blurred EXCEPT ![r] = @ \/ happened]

Requested(r, q) ==
    /\ control' = [control EXCEPT ![r] = @ \cup {q}]
    /\ Blurs(r, control[r] # {})

Answered(r, q) == q \in control[r] /\ control' = [control EXCEPT ![r] = @ \ {q}]
Errs(r, q, failure) == q \in control[r] /\ control' = [control EXCEPT ![r] = (@ \ {q}) \cup {failure}]

Sleeps(r) ==
    /\ status[r] = "Ready" /\ Becomes(r, "Sleeping") /\ Requested(r, "suspend")
    /\ UNCHANGED <<machine, provider, job, teardown, launch, poll, execs, timers, outage>>

Sleep(r) == Sleeps(r) /\ Trouble
SleepTimeout(r) == idle[r] = SleepAfter /\ Sleeps(r) /\ NoTrouble

CanWake(r) == status[r] \in {"Sleeping", "Ready"}
Wakes(r) == Becomes(r, "Ready") /\ Requested(r, "resume")

Wake(r) ==
    /\ CanWake(r) /\ Wakes(r) /\ Trouble
    /\ UNCHANGED <<machine, provider, job, teardown, launch, poll, execs, timers, outage>>

\* The provider suspends or resumes a sandbox that is there.
Turned(b, to) == [box EXCEPT ![b] = IF @ \in Alive THEN to ELSE @]

Controls(r, q, failure, to) ==
    /\ \/ Answered(r, q) /\ box' = Turned(machine[r], to) /\ UNCHANGED blurred /\ NoTrouble
       \/ Errs(r, q, failure) /\ UNCHANGED <<box, blurred>> /\ Trouble
       \/ Errs(r, q, failure) /\ box' = Turned(machine[r], to) /\ Blurs(r, TRUE) /\ Trouble
    /\ UNCHANGED <<rows, asked, made, process, job, teardown, launch, poll, execs, time, outage>>

Suspend(r) == Controls(r, "suspend", "suspend_failed", "suspended")
Resume(r)  == Controls(r, "resume", "resume_failed", "up")

SleepFailed(r) ==
    /\ Answered(r, "suspend_failed")
    /\ IF status[r] = "Sleeping" THEN Becomes(r, "Ready") ELSE UNCHANGED <<status, idle>>
    /\ UNCHANGED <<machine, provider, job, teardown, launch, poll, execs, timers, history>>

\* (mutant of WakeFailed: the failure of a resume is ignored)
WakeFailedIgnored(r) ==
    /\ Answered(r, "resume_failed")
    /\ UNCHANGED <<rows, provider, job, teardown, launch, poll, execs, time, history>>

WakeFailed(r) ==
    /\ Answered(r, "resume_failed")
    /\ IF status[r] = "Ready" THEN Becomes(r, "Sleeping") /\ UNCHANGED blurred
                              ELSE Blurs(r, TRUE) /\ UNCHANGED <<status, idle>>
    /\ UNCHANGED <<machine, provider, job, teardown, launch, poll, execs, timers, outage, troubles>>

Renewed(r) == IF status[r] \in {"Leased", "Ready"} THEN [idle EXCEPT ![r] = 0] ELSE idle

Heartbeat(r) ==
    /\ status[r] \in {"Leased", "Ready"} /\ idle' = Renewed(r)
    /\ UNCHANGED <<rows, provider, calls, execs, timers, history>>

(***************************************************************************)
(* Teardown, of whatever sandbox machine_id names.                         *)
(***************************************************************************)
Terminates(r) == Becomes(r, "Terminating") /\ teardown' = [teardown EXCEPT ![r] = "call"]
RearmsClock(x) == clock' = [clock EXCEPT ![x] = "armed"]
StopsClock(x) == clock' = [clock EXCEPT ![x] = "off"] /\ late' = [late EXCEPT ![x] = FALSE]

\* (mutant of Destroyable: a copy that is not resolved can be destroyed)
DestroyableUnresolved == {"Ready", "Sleeping", "Created", "Leased", "Copying", "CopyUnknown"}

Destroyable == {"Ready", "Sleeping", "Created", "Leased", "Copying"}

Destroys(r) ==
    /\ status[r] \in Destroyable
    /\ Terminates(r)
    /\ IF r \in Children THEN StopsClock(r) ELSE UNCHANGED timers
    /\ UNCHANGED <<machine, provider, job, control, launch, poll, execs, blurred, outage>>

Destroy(r) == Destroys(r) /\ Trouble
LeaseTimeout(r) == status[r] = "Leased" /\ idle[r] = ReapAfter /\ Destroys(r) /\ NoTrouble

\* Best effort: an error is logged, and reported like a success.
Terminate(r) ==
    /\ teardown[r] = "call"
    /\ \/ /\ teardown' = [teardown EXCEPT ![r] = "done"]
          /\ box' = IF machine[r] = None THEN box ELSE [box EXCEPT ![machine[r]] = "gone"]
          /\ NoTrouble
       \/ teardown' = [teardown EXCEPT ![r] = "lost"] /\ UNCHANGED box /\ Trouble
    /\ UNCHANGED <<rows, asked, made, process, job, control, launch, poll, execs, time, blurred, outage>>

\* The callback, or the timeout, which may come before the call has ended.
TerminateComplete(r) ==
    /\ status[r] = "Terminating" /\ Becomes(r, "Destroyed")
    /\ UNCHANGED <<machine, provider, calls, execs, timers, history>>

(***************************************************************************)
(* Copies.  The row is spawned with the source's machine_id, and keeps it  *)
(* until a sandbox of its own is known.                                    *)
(***************************************************************************)
Working(c, m, place) == job[c][m] = place
Works(c, m, place) == job' = [job EXCEPT ![c][m] = place]

\* Copy, and ProvisionFromCopy of the child it spawns.
Copy(c) ==
    /\ status[Source] = "Ready" /\ status[c] = "none"
    /\ status' = [status EXCEPT ![c] = "Provisioning"] /\ idle' = [idle EXCEPT ![Source] = 0]
    /\ machine' = [machine EXCEPT ![c] = machine[Source]] /\ Works(c, "Start", "lookup")
    /\ UNCHANGED <<provider, teardown, control, launch, poll, execs, timers, history>>

ReconcileCopy(c) ==
    /\ status[c] = "CopyUnknown" /\ Working(c, "Reconcile", "idle") /\ Works(c, "Reconcile", "lookup")
    /\ UNCHANGED <<rows, provider, teardown, control, launch, poll, execs, time, history>>

JobStep(c) ==
    UNCHANGED <<box, made, process, teardown, control, launch, poll, execs, late, blurred, outage>>

\* Callbacks; the automaton refuses a destination that is the source.
CopyStarted(c, m) ==
    /\ Works(c, m, "idle")
    /\ IF status[c] \in Unresolved /\ machine[c] = Source
         THEN Becomes(c, "Copying") /\ machine' = [machine EXCEPT ![c] = c] /\ RearmsClock(c)
         ELSE UNCHANGED <<rows, idle, clock>>

\* (mutant of CopyFailed: a status of executions)
CopyFailedFailed(c, m) ==
    /\ Works(c, m, "idle")
    /\ IF status[c] \in Unresolved THEN Becomes(c, "Failed") ELSE UNCHANGED <<status, idle>>
    /\ UNCHANGED <<machine, clock>>

CopyFailed(c, m) ==
    /\ Works(c, m, "idle")
    /\ IF status[c] \in Unresolved THEN Becomes(c, "CopyUnknown") ELSE UNCHANGED <<status, idle>>
    /\ UNCHANGED <<machine, clock>>

\* The source answers and the name is found, or not; a call may fail though it is there.
CopyIsThere(c) == box[Source] \in Alive /\ box[c] \in Alive
Finds(c, m) == CopyIsThere(c) /\ CopyStarted(c, m) /\ NoTrouble
FindsNot(c, m) == CopyFailed(c, m) /\ IF CopyIsThere(c) THEN Trouble ELSE NoTrouble

\* (mutant of MayRequest: a reconciliation that finds nothing asks again)
MayAlwaysRequest(m) == m \in Modes

\* Only a start that finds nothing goes on to the request.
MayRequest(m) == m = "Start"

Lookup(c, m) ==
    /\ Working(c, m, "lookup")
    /\ \/ Finds(c, m)
       \/ FindsNot(c, m)
       \/ /\ box[Source] \in Alive /\ ~CopyIsThere(c) /\ MayRequest(m) /\ Works(c, m, "request")
          /\ NoTrouble /\ UNCHANGED <<rows, idle, clock>>
    /\ UNCHANGED asked /\ JobStep(c)

Request(c, m) ==
    /\ Working(c, m, "request")
    /\ \/ /\ Works(c, m, "requested") /\ asked' = [asked EXCEPT ![c] = @ + 1]
          /\ NoTrouble /\ UNCHANGED <<rows, idle, clock>>
       \/ CopyFailed(c, m) /\ UNCHANGED asked /\ Trouble
    /\ JobStep(c)

\* The answer names the copy, and the name is read once more.  The host may give the
\* answer up before the copy is made, which is no trouble.
Answer(c, m) ==
    /\ Working(c, m, "requested")
    /\ Finds(c, m) \/ FindsNot(c, m)
    /\ UNCHANGED asked /\ JobStep(c)

\* The provider makes a copy it was asked for, perhaps after the answer was given up.
MakeCopy(c) ==
    /\ made[c] < asked[c] /\ made' = [made EXCEPT ![c] = @ + 1]
    /\ box' = [box EXCEPT ![c] = IF @ = "none" THEN "booting" ELSE @]
    /\ UNCHANGED <<rows, asked, process, calls, execs, time, history>>

Boot(c) ==
    /\ box[c] = "booting" /\ box' = [box EXCEPT ![c] = "up"]
    /\ UNCHANGED <<rows, asked, made, process, calls, execs, time, history>>

(***************************************************************************)
(* Polls.  A poll that overtakes another reads the same; one is followed.  *)
(***************************************************************************)
Polls(x) == poll' = [poll EXCEPT ![x] = TRUE]
Answers(x) == poll[x] /\ poll' = [poll EXCEPT ![x] = FALSE]
Due(x) == clock[x] = "due"

CopyPoll(c) ==
    /\ status[c] = "Copying" /\ Due(c) /\ RearmsClock(c) /\ Polls(c)
    /\ UNCHANGED <<rows, provider, job, teardown, control, launch, execs, idle, late, history>>

\* A copy that is not up yet, or does not answer, is polled again before its deadline.
CopyPending(c) ==
    /\ Answers(c) /\ ~late[c]
    /\ UNCHANGED <<rows, provider, job, teardown, control, launch, execs, time, history>>

CopyComplete(c) ==
    /\ Answers(c) /\ box[c] = "up"
    /\ IF status[c] = "Copying" THEN Becomes(c, "Leased") /\ StopsClock(c) ELSE UNCHANGED <<status, time>>
    /\ UNCHANGED <<machine, provider, job, teardown, control, launch, execs, history>>

CopyExpired(c) ==
    /\ Answers(c) /\ late[c]
    /\ IF status[c] = "Copying" THEN Terminates(c) /\ StopsClock(c) ELSE UNCHANGED <<status, teardown, time>>
    /\ UNCHANGED <<machine, provider, job, control, launch, execs, history>>

(***************************************************************************)
(* Executions.  A row tells its computer what it does by a dispatch of its *)
(* own, after its own transition: what happens in between, the computer's  *)
(* timeout included, comes first.  Of two equal ones one is followed.      *)
(***************************************************************************)
Launching(e, place) == launch[e] = place
Launches(e, place) == launch' = [launch EXCEPT ![e] = place]
ExecBecomes(e, to) == exec' = [exec EXCEPT ![e] = to]
Sends(e, what) == signal' = [signal EXCEPT ![e] = @ \cup {what}]
Arrives(e, what) == what \in signal[e] /\ signal' = [signal EXCEPT ![e] = @ \ {what}]

Run(e, r) ==
    /\ exec[e] = "Created" /\ ExecBecomes(e, "Starting")
    /\ target' = [target EXCEPT ![e] = r] /\ Launches(e, "fetch")
    /\ UNCHANGED <<rows, provider, job, teardown, control, poll, signal, time, history>>

Fetch(e) ==
    /\ Launching(e, "fetch")
    /\ \/ status[target[e]] \in Runnable \ {"Sleeping"} /\ Launches(e, "launch")
       \/ status[target[e]] = "Sleeping" /\ Launches(e, "resume")
       \/ status[target[e]] \notin Runnable /\ Launches(e, "idle")
    /\ UNCHANGED <<rows, provider, job, teardown, control, poll, execs, time, history>>

\* The sandbox is resumed; the row is told by ExecStarted, if it comes to that.
ResumeSandbox(e) ==
    /\ Launching(e, "resume")
    /\ \/ box' = Turned(machine[target[e]], "up") /\ Launches(e, "launch") /\ NoTrouble
       \/ box' = Turned(machine[target[e]], "up") /\ Launches(e, "idle") /\ Trouble
       \/ UNCHANGED box /\ Launches(e, "idle") /\ Trouble
    /\ UNCHANGED <<rows, asked, made, process, job, teardown, control, poll, execs, time, blurred, outage>>

IsUp(e) == box[machine[target[e]]] = "up"
Starts(e) == process' = [process EXCEPT ![e] = "running"]

LaunchCommand(e) ==
    /\ Launching(e, "launch")
    /\ \/ IsUp(e) /\ Starts(e) /\ Launches(e, "launched") /\ NoTrouble
       \/ IsUp(e) /\ Starts(e) /\ Launches(e, "idle") /\ Trouble
       \/ UNCHANGED process /\ Launches(e, "idle") /\ IF IsUp(e) THEN Trouble ELSE NoTrouble
    /\ UNCHANGED <<rows, box, asked, made, job, teardown, control, poll, execs, time, blurred, outage>>

\* The command ends by itself or by its time limit; which, the poll reads.
Finish(e) ==
    /\ process[e] = "running" /\ IsUp(e)
    /\ process' = [process EXCEPT ![e] = "ended"]
    /\ UNCHANGED <<rows, box, asked, made, calls, execs, time, history>>

ExecStarted(e) ==
    /\ Launching(e, "launched") /\ Launches(e, "idle")
    /\ IF exec[e] = "Starting" THEN ExecBecomes(e, "Running") /\ RearmsClock(e) /\ Sends(e, "Wake")
                              ELSE UNCHANGED <<exec, clock, signal>>
    /\ UNCHANGED <<rows, provider, job, teardown, control, poll, target, idle, late, history>>

\* The computer is told: it refuses what its status does not take.
WakeArrives(e) ==
    /\ Arrives(e, "Wake")
    /\ IF CanWake(target[e]) THEN Wakes(target[e]) ELSE UNCHANGED <<status, idle, control, blurred>>
    /\ UNCHANGED <<machine, provider, job, teardown, launch, poll, exec, target, timers, outage, troubles>>

HeartbeatArrives(e) ==
    /\ Arrives(e, "Heartbeat") /\ idle' = Renewed(target[e])
    /\ UNCHANGED <<rows, provider, calls, exec, target, timers, history>>

\* (mutant of Poll: the computer is not told)
PollUnheard(e) ==
    /\ exec[e] = "Running" /\ Due(e) /\ RearmsClock(e) /\ Polls(e)
    /\ UNCHANGED <<rows, provider, job, teardown, control, launch, execs, idle, late, history>>

\* (mutant of Poll: not in reset_on)
PollOnce(e) ==
    /\ exec[e] = "Running" /\ Due(e) /\ StopsClock(e) /\ Polls(e) /\ Sends(e, "Heartbeat")
    /\ UNCHANGED <<rows, provider, job, teardown, control, launch, exec, target, idle, history>>

Poll(e) ==
    /\ exec[e] = "Running" /\ Due(e) /\ RearmsClock(e) /\ Polls(e) /\ Sends(e, "Heartbeat")
    /\ UNCHANGED <<rows, provider, job, teardown, control, launch, exec, target, idle, late, history>>

StillRunning(e) ==
    /\ Answers(e) /\ ~late[e]
    /\ UNCHANGED <<rows, provider, job, teardown, control, launch, execs, time, history>>

Ends(e, to) == ExecBecomes(e, to) /\ StopsClock(e) /\ Sends(e, "Heartbeat")

RunSucceeded(e) ==
    /\ Answers(e) /\ process[e] = "ended" /\ IsUp(e)
    /\ IF exec[e] = "Running" THEN Ends(e, "Succeeded") ELSE UNCHANGED <<exec, signal, timers>>
    /\ UNCHANGED <<rows, provider, job, teardown, control, launch, target, idle, history>>

RunFailed(e) ==
    /\ Answers(e) /\ (late[e] \/ (process[e] = "ended" /\ IsUp(e)))
    /\ IF exec[e] = "Running" THEN Ends(e, "Failed") ELSE UNCHANGED <<exec, signal, timers>>
    /\ UNCHANGED <<rows, provider, job, teardown, control, launch, target, idle, history>>

\* RunFailed of a start, by the failure of the launch or by the timeout of Starting.
StartFailed(e) ==
    /\ exec[e] = "Starting" /\ Ends(e, "Failed")
    /\ UNCHANGED <<rows, provider, calls, target, idle, history>>

Cancel(e) ==
    /\ exec[e] \in {"Starting", "Running"} /\ ExecBecomes(e, "Failed") /\ StopsClock(e) /\ Trouble
    /\ UNCHANGED <<rows, provider, calls, target, signal, idle, blurred, outage>>

(***************************************************************************)
(* Time.  Timeouts and dispatches are prompt: a period ends when what it   *)
(* made due is done and what was sent has arrived.  After an outage        *)
(* timeouts may be late, and in any order.                                 *)
(***************************************************************************)
Patience(r) == CASE status[r] = "Ready" -> SleepAfter [] status[r] = "Leased" -> ReapAfter [] OTHER -> 0
Waits(r) == status[r] \in {"Ready", "Leased"}

Tick ==
    /\ (\A x \in Polled : ~Due(x)) /\ (\A e \in Execs : signal[e] = {})
    /\ \A r \in Computers : Waits(r) => idle[r] < Patience(r)
    /\ idle' = [r \in Computers |-> IF Waits(r) THEN idle[r] + 1 ELSE idle[r]]
    /\ clock' = [x \in Polled |-> IF clock[x] = "armed" THEN "due" ELSE clock[x]]
    /\ UNCHANGED <<rows, provider, calls, execs, late, history>>

PassDeadline(x) ==
    /\ clock[x] # "off" /\ ~late[x] /\ late' = [late EXCEPT ![x] = TRUE]
    /\ UNCHANGED <<rows, provider, calls, execs, idle, clock, history>>

Outage ==
    /\ Trouble /\ outage' = TRUE
    /\ job' = [c \in Children |-> [m \in Modes |-> "idle"]]
    /\ teardown' = [r \in Computers |-> IF teardown[r] = "call" THEN "lost" ELSE teardown[r]]
    /\ control' = [r \in Computers |-> {}]
    /\ launch' = [e \in Execs |-> "idle"] /\ poll' = [x \in Polled |-> FALSE]
    /\ idle' = [r \in Computers |-> IF Waits(r) THEN Patience(r) ELSE idle[r]]
    /\ clock' = [x \in Polled |-> IF clock[x] = "armed" THEN "due" ELSE clock[x]]
    /\ blurred' = [r \in Computers |-> blurred[r] \/ control[r] # {}]
    /\ signal' = [e \in Execs |-> {}]
    /\ UNCHANGED <<rows, provider, exec, target, late>>

-----------------------------------------------------------------------------
RowStep(r) ==
    \/ Provision(r) \/ ProvisionComplete(r) \/ ProvisionFailed(r)
    \/ Checkpoint(r) \/ CheckpointComplete(r)
    \/ Sleep(r) \/ SleepTimeout(r) \/ Suspend(r) \/ SleepFailed(r)
    \/ Wake(r) \/ Resume(r) \/ WakeFailed(r) \/ Heartbeat(r)
    \/ Destroy(r) \/ LeaseTimeout(r) \/ Terminate(r) \/ TerminateComplete(r)

JobNext(c, m) == Lookup(c, m) \/ Request(c, m) \/ Answer(c, m)

ChildStep(c) ==
    \/ Copy(c) \/ ReconcileCopy(c) \/ MakeCopy(c) \/ Boot(c)
    \/ CopyPoll(c) \/ CopyPending(c) \/ CopyComplete(c) \/ CopyExpired(c)
    \/ \E m \in Modes : JobNext(c, m)

ExecStep(e) ==
    \/ \E r \in Computers : Run(e, r)
    \/ Fetch(e) \/ ResumeSandbox(e) \/ LaunchCommand(e) \/ Finish(e) \/ ExecStarted(e)
    \/ WakeArrives(e) \/ HeartbeatArrives(e)
    \/ Poll(e) \/ StillRunning(e) \/ RunSucceeded(e) \/ RunFailed(e) \/ StartFailed(e) \/ Cancel(e)

Next ==
    \/ \E r \in Computers : RowStep(r)
    \/ \E c \in Children : ChildStep(c)
    \/ \E e \in Execs : ExecStep(e)
    \/ Tick \/ Outage
    \/ \E x \in Polled : PassDeadline(x)

Spec == Init /\ [][Next]_vars

\* A row has one timeout at a time, of its status.
RowTimeout(r) == SleepTimeout(r) \/ LeaseTimeout(r) \/ TerminateComplete(r)
ExecTimeout(e) == StartFailed(e) \/ Poll(e)

\* Timeouts fire, dispatches arrive, polls and the calls they make end, and time passes.
FairSpec ==
    /\ Spec /\ WF_vars(Tick)
    /\ \A r \in Computers : WF_vars(RowTimeout(r))
    /\ \A x \in Polled : WF_vars(PassDeadline(x))
    /\ \A c \in Children : WF_vars(CopyPoll(c)) /\ WF_vars(CopyPending(c) \/ CopyComplete(c) \/ CopyExpired(c))
    /\ \A e \in Execs :
         /\ WF_vars(ExecTimeout(e)) /\ WF_vars(WakeArrives(e) \/ HeartbeatArrives(e))
         /\ WF_vars(StillRunning(e) \/ RunSucceeded(e) \/ RunFailed(e))

-----------------------------------------------------------------------------
\* Every variable has a value of its kind.
TypeOK ==
    /\ status \in [Computers -> Statuses]
    /\ machine \in [Computers -> Computers \cup {None}]
    /\ box \in [Computers -> Alive \cup {"none", "gone"}]
    /\ asked \in [Children -> Nat] /\ made \in [Children -> Nat]
    /\ job \in [Children -> [Modes -> {"idle", "lookup", "request", "requested"}]]
    /\ teardown \in [Computers -> {"idle", "call", "done", "lost"}]
    /\ control \in [Computers -> SUBSET Requests]
    /\ launch \in [Execs -> {"idle", "fetch", "resume", "launch", "launched"}]
    /\ poll \in [Polled -> BOOLEAN]
    /\ exec \in [Execs -> {"Created", "Starting", "Running"} \cup ExecEnded]
    /\ target \in [Execs -> Computers \cup {None}] /\ signal \in [Execs -> SUBSET Signals]
    /\ process \in [Execs -> {"none", "running", "ended"}]
    /\ idle \in [Computers -> Nat]
    /\ clock \in [Polled -> {"off", "armed", "due"}] /\ late \in [Polled -> BOOLEAN]
    /\ blurred \in [Computers -> BOOLEAN]
    /\ outage \in BOOLEAN /\ troubles \in Nat

\* A sandbox is torn down for its own row only: no copy takes its source with it, however
\* its request, its answer and its reconciliation interleave (computer.ioa.toml, Destroy).
TornDownByItsRow ==
    \A r \in Computers : box[r] = "gone" => status[r] \in {"Terminating", "Destroyed"}

\* A child has one copy at most, though answers are lost and copies are made late; and
\* a row that is destroyed leaves a sandbox only if its teardown failed or was lost.
CopiesAccounted ==
    \A c \in Children :
        /\ asked[c] <= 1
        /\ status[c] = "Destroyed" /\ box[c] \in Alive => teardown[c] \in {"call", "lost"}

\* With no suspend or resume in flight a computer that is Ready is up, unless calls overlapped,
\* an answer was lost, an outage lost one, or a failed resume was not heard.
ReadyIsAwake ==
    \A r \in Computers :
        status[r] = "Ready" /\ control[r] = {} /\ ~blurred[r] => box[machine[r]] = "up"

\* The idle timeout does not put a computer to sleep while it knows of a running command: from
\* when the Wake of ExecStarted has reached it to the end of the row, Heartbeats renew its clock
\* before it runs out (exec.ioa.toml, ExecStarted and Poll), unless an outage made timeouts late.
\* Until then nothing does: a command that was launched may be suspended while its row is still
\* Starting, and while the Wake is on its way.
SleepSparesRunning ==
    [][\A r \in Computers :
         SleepTimeout(r) /\ ~outage =>
             \A e \in Execs : exec[e] = "Running" /\ target[e] = r => "Wake" \in signal[e]]_vars

\* What is started ends: a copy is leased or destroyed, a command succeeds or fails,
\* whatever becomes of the sandbox and of the calls.
NothingHangs ==
    /\ \A c \in Children : status[c] \in {"Copying", "Terminating"} ~> status[c] \in {"Leased", "Destroyed"}
    /\ \A e \in Execs : exec[e] \in {"Starting", "Running"} ~> exec[e] \in ExecEnded
=============================================================================
