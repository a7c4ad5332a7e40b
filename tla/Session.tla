------------------------------ MODULE Session ------------------------------
(***************************************************************************)
(* The life of one Session entity of os-apps/paw-agent.                    *)
(*                                                                         *)
(* A Session has no loop of its own.  Every transition may start one WASM  *)
(* integration (its driver); the integration ends in one callback action,  *)
(* and the callback starts the next driver.  Around that chain run the     *)
(* state timeouts, the users (cancel, approve, wake up), the crash of the  *)
(* server and the recovery sweep of crates/temperpaw/src/startup.rs.       *)
(*                                                                         *)
(* The kernel that executes the automaton is not part of the repository.   *)
(* What is used of it here: an action is applied when the status is in its *)
(* `from` list and its guard holds, and is otherwise rejected without      *)
(* effect; an invocation is not interrupted when the status moves on; a    *)
(* crash loses running invocations and pending schedules but no committed  *)
(* transition; state timeouts survive it.                                  *)
(***************************************************************************)
EXTENDS Naturals, FiniteSets

CONSTANTS
    TurnLimit,       \* bound on turn_count: the provider stops asking for tools
    FollowUpLimit,   \* max_follow_ups, enforced by steering_checker
    CrashLimit,      \* bound on the crashes of the server
    WakeUpLimit,     \* bound on the Resume* wake-ups route_message sends
    OverlapLimit,    \* bound on notifications still running when answered
    SweepModes       \* "before" / "after": the sweep runs before or after readiness

ASSUME BoundsAssumption ==
    /\ TurnLimit \in Nat /\ FollowUpLimit \in Nat
    /\ CrashLimit \in Nat /\ WakeUpLimit \in Nat /\ OverlapLimit \in Nat
ASSUME SweepAssumption == SweepModes \subseteq {"before", "after"}

VARIABLES
    status, hasResult,                          \* the entity's state
    turn, followUps, recoveries,                \* turn_count, follow_up_count, recovery_count
    authRetries, compactRetries,
    driver,      \* the invocation the last transition started, if it still runs
    zombies,     \* how many superseded invocations of each driver still run
    scheduled,   \* actions scheduled by `schedule(...)` effects
    jobs,        \* running invocations of the terminal integrations
    replies,     \* how many reply deliveries were started
    trajectory, emitRetries,                    \* trajectory_emission_status, _retry_count
    server,      \* "ready", "down", or "starting" (up, sweep not finished)
    sweep,       \* the recovery sweep: "none", "due", or the status it has read
    crashes, wakeUps                            \* counts for the bounds

entity   == <<status, hasResult>>
counters == <<turn, followUps, recoveries, authRetries, compactRetries>>
runs     == <<driver, zombies>>
tail     == <<jobs, replies, trajectory, emitRetries>>
process  == <<server, sweep, crashes>>
vars     == <<entity, counters, runs, scheduled, tail, process, wakeUps>>

(***************************************************************************)
(* Statuses and integrations.                                              *)
(***************************************************************************)
Terminal == {"Completed", "Failed", "Cancelled"}
Working  == {"PreparingContext", "EnsuringProviderAuth", "CallingProvider",
             "ApplyingProviderResponse", "Executing", "EnsuringCompactionAuth",
             "Compacting", "Steering"}
Active   == Working \cup {"Created", "Provisioning", "WaitingForApproval", "Recovering"}
Status   == Active \cup Terminal

Drivers == {"provision_workspace", "provision_sandbox", "restore_workspace",
            "prepare_context", "ensure_provider_auth", "call_provider",
            "apply_provider_response", "run_tools", "ensure_compaction_auth",
            "compact_context", "check_steering", "notify_approval_needed",
            "recover_session"}
Jobs == {"deliver_reply", "emit_ots_trajectory"}
None == "none"

\* The recovery_count guard of RecoverFromRestart, and the retry guards.
RecoveryLimit == 3
RetryLimit    == 1

\* What the sweep considers recoverable (startup.rs); "Thinking" is no
\* longer a status of the automaton.
SweepRecovers == {"Thinking", "Executing", "Compacting", "Steering", "WaitingForApproval"}

\* The `from` lists of RecoverFromRestart and of TimeoutFail.
RecoverFrom     == Working \cup {"WaitingForApproval"}
\* (mutant of TimeoutFailFrom: the literal `from` list alone)
TimeoutFailLiteral == Working
\* Provisioning is in no literal `from` list; the spec compiler adds the
\* states whose [[state_timeout]] names TimeoutFail (ADR-0036).
TimeoutFailFrom == Working \cup {"Provisioning"}

\* The integration a state's Resume* action starts again.
WakeDriver == [Executing        |-> "run_tools",
               CallingProvider  |-> "call_provider",
               PreparingContext |-> "prepare_context",
               Compacting       |-> "compact_context",
               Steering         |-> "check_steering"]

-----------------------------------------------------------------------------
(***************************************************************************)
(* Invocations.  Only the invocation the last transition started is the    *)
(* driver; one that is overtaken by another transition keeps running as a  *)
(* zombie and its callback is applied like any other.                      *)
(***************************************************************************)
Supersede(z) == IF driver = None THEN z ELSE [z EXCEPT ![driver] = @ + 1]

\* Some invocation of m returns; the transition starts `next`.
Ends(m, next) ==
    /\ driver' = next
    /\ \/ driver = m /\ zombies' = zombies
       \/ zombies[m] > 0 /\ zombies' = Supersede([zombies EXCEPT ![m] = @ - 1])

\* Some invocation of m returns and the driver, if it is another, goes on.
EndsAlone(m) ==
    \/ driver = m /\ driver' = None /\ zombies' = zombies
    \/ zombies[m] > 0 /\ zombies' = [zombies EXCEPT ![m] = @ - 1] /\ driver' = driver

\* A transition caused by something other than an invocation starts `next`.
Redirect(next) == driver' = next /\ zombies' = Supersede(zombies)

\* A transition between active states, applied when the status allows it.
Move(from, to) ==
    /\ status \in from
    /\ status' = to
    /\ UNCHANGED <<hasResult, scheduled, tail, process, wakeUps>>

\* A transition into a terminal status: the session's trajectory is emitted
\* and, when the action says so, its reply delivered.
Finish(from, to, result, deliver) ==
    /\ status \in from
    /\ status' = to
    /\ hasResult' = (hasResult \/ result)
    /\ jobs' = [j \in Jobs |-> IF j = "deliver_reply" /\ ~deliver THEN jobs[j] ELSE jobs[j] + 1]
    /\ replies' = IF deliver THEN replies + 1 ELSE replies
    /\ UNCHANGED <<counters, trajectory, emitRetries>>

Stay == UNCHANGED counters
Quiet == UNCHANGED <<scheduled, process, wakeUps>>

Init ==
    /\ status = "Created" /\ hasResult = FALSE
    /\ turn = 0 /\ followUps = 0 /\ recoveries = 0
    /\ authRetries = 0 /\ compactRetries = 0
    /\ driver = None /\ zombies = [m \in Drivers |-> 0] /\ scheduled = {}
    /\ jobs = [j \in Jobs |-> 0] /\ replies = 0
    /\ trajectory = "pending" /\ emitRetries = 0
    /\ server = "ready"
    \* A session may be created while the deferred sweep of this server
    \* process has not run yet.
    /\ sweep \in (IF "after" \in SweepModes THEN {"none", "due"} ELSE {"none"})
    /\ crashes = 0 /\ wakeUps = 0

-----------------------------------------------------------------------------
(***************************************************************************)
(* Configuration and provisioning.                                         *)
(***************************************************************************)
Configure ==
    /\ server = "ready" /\ status = "Created"
    /\ scheduled' = scheduled \cup {"ProvisionWorkspace"}
    /\ UNCHANGED <<entity, counters, runs, tail, process, wakeUps>>

\* A scheduled action comes due; the kernel rejects it in any other status.
ScheduledStart(action, from, to, next) ==
    /\ action \in scheduled
    /\ scheduled' = scheduled \ {action}
    /\ IF status = from THEN status' = to /\ Redirect(next)
                        ELSE UNCHANGED <<status, runs>>
    /\ UNCHANGED <<hasResult, counters, tail, process, wakeUps>>

ProvisionWorkspace ==
    ScheduledStart("ProvisionWorkspace", "Created", "Provisioning", "provision_workspace")
CheckSandboxReady ==
    ScheduledStart("CheckSandboxReady", "Provisioning", "Provisioning", "provision_sandbox")

\* The two requests that continue a saved session instead of a new one.
ProvisionRequest(next) ==
    /\ server = "ready"
    /\ Move({"Created"}, "Provisioning") /\ Redirect(next) /\ Stay
Provision == ProvisionRequest("provision_sandbox")
Resume    == ProvisionRequest("restore_workspace")

ProvisionPending ==
    /\ status = "Provisioning"
    /\ Ends("provision_sandbox", None)
    /\ scheduled' = scheduled \cup {"CheckSandboxReady"}
    /\ UNCHANGED <<entity, counters, tail, process, wakeUps>>

WorkspaceReady ==
    Move({"Provisioning"}, "PreparingContext")
        /\ Ends("provision_workspace", "prepare_context") /\ Stay
SandboxReady ==
    \E m \in {"provision_sandbox", "restore_workspace"} :
        Move({"Provisioning"}, "PreparingContext") /\ Ends(m, "prepare_context") /\ Stay

(***************************************************************************)
(* A turn: context, provider auth, provider call, response.                *)
(***************************************************************************)
ContextReady ==
    Move({"PreparingContext"}, "EnsuringProviderAuth")
        /\ Ends("prepare_context", "ensure_provider_auth") /\ Stay
\* (mutant of ContextReadyAuthSkipped: the trigger of ContextReady is kept)
AuthSkippedButStarted ==
    Move({"PreparingContext"}, "CallingProvider")
        /\ Ends("prepare_context", "ensure_provider_auth") /\ Stay
ContextReadyAuthSkipped ==
    Move({"PreparingContext"}, "CallingProvider")
        /\ Ends("prepare_context", "call_provider") /\ Stay
NeedsCompaction ==
    Move({"PreparingContext"}, "EnsuringCompactionAuth")
        /\ Ends("prepare_context", "ensure_compaction_auth") /\ Stay
ProviderAuthReady ==
    Move({"EnsuringProviderAuth"}, "CallingProvider")
        /\ Ends("ensure_provider_auth", "call_provider") /\ Stay
\* (mutant of ProviderAuthExpired: no limit on the retries)
AuthExpiredUnlimited ==
    /\ Move({"CallingProvider"}, "EnsuringProviderAuth")
    /\ Ends("call_provider", "ensure_provider_auth")
    /\ authRetries' = authRetries + 1
    /\ UNCHANGED <<turn, followUps, recoveries, compactRetries>>
ProviderAuthExpired ==
    /\ authRetries < RetryLimit
    /\ Move({"CallingProvider"}, "EnsuringProviderAuth")
    /\ Ends("call_provider", "ensure_provider_auth")
    /\ authRetries' = authRetries + 1
    /\ UNCHANGED <<turn, followUps, recoveries, compactRetries>>
ProviderResponseReady ==
    Move({"CallingProvider"}, "ApplyingProviderResponse")
        /\ Ends("call_provider", "apply_provider_response") /\ Stay
ProcessToolCalls ==
    /\ turn < TurnLimit
    /\ Move({"ApplyingProviderResponse"}, "Executing")
    /\ Ends("apply_provider_response", "run_tools") /\ Stay
\* Taken only when max_follow_ups leaves room for another follow-up.
CheckSteering ==
    /\ followUps < FollowUpLimit
    /\ Move({"ApplyingProviderResponse"}, "Steering")
    /\ Ends("apply_provider_response", "check_steering") /\ Stay

(***************************************************************************)
(* Compaction.                                                             *)
(***************************************************************************)
CompactionAuthReady ==
    Move({"EnsuringCompactionAuth"}, "Compacting")
        /\ Ends("ensure_compaction_auth", "compact_context") /\ Stay
CompactionAuthExpired ==
    /\ compactRetries < RetryLimit
    /\ Move({"Compacting"}, "EnsuringCompactionAuth")
    /\ Ends("compact_context", "ensure_compaction_auth")
    /\ compactRetries' = compactRetries + 1
    /\ UNCHANGED <<turn, followUps, recoveries, authRetries>>
CompactionComplete ==
    Move({"Compacting"}, "PreparingContext")
        /\ Ends("compact_context", "prepare_context") /\ Stay

(***************************************************************************)
(* Tools and steering.                                                     *)
(***************************************************************************)
HandleToolResults ==
    /\ Move({"Executing"}, "PreparingContext") /\ Ends("run_tools", "prepare_context")
    /\ turn' = turn + 1
    /\ UNCHANGED <<followUps, recoveries, authRetries, compactRetries>>
CheckpointToolBatch ==
    Move({"Executing"}, "Executing") /\ Ends("run_tools", "run_tools") /\ Stay
PauseForApproval ==
    Move({"Executing"}, "WaitingForApproval")
        /\ Ends("run_tools", "notify_approval_needed") /\ Stay
ContinueWithSteering ==
    /\ followUps < FollowUpLimit
    /\ Move({"Steering"}, "PreparingContext") /\ Ends("check_steering", "prepare_context")
    /\ turn' = turn + 1 /\ followUps' = followUps + 1
    /\ UNCHANGED <<recoveries, authRetries, compactRetries>>
ApprovalNotified ==
    /\ EndsAlone("notify_approval_needed")
    /\ UNCHANGED <<entity, counters, scheduled, tail, process, wakeUps>>

(***************************************************************************)
(* Completion, failure, cancellation.                                      *)
(***************************************************************************)
RecordResult ==
    \E m \in {"apply_provider_response", "run_tools"} :
        /\ Finish({"ApplyingProviderResponse", "Executing"}, "Completed", TRUE, TRUE)
        /\ Ends(m, None) /\ Quiet
\* RecordResultNoReply and RecordResultInlineReply: no delivery to start.
RecordResultNoReply ==
    /\ Finish({"ApplyingProviderResponse"}, "Completed", TRUE, FALSE)
    /\ Ends("apply_provider_response", None) /\ Quiet
FinalizeResult ==
    /\ Finish({"Steering"}, "Completed", TRUE, TRUE)
    /\ Ends("check_steering", None) /\ Quiet
FinalizeResultNoReply ==
    /\ Finish({"Steering"}, "Completed", TRUE, FALSE)
    /\ Ends("check_steering", None) /\ Quiet

\* (mutants: Fail and Cancel are accepted from every status)
FailsAnytime(m) == Finish(Status, "Failed", FALSE, TRUE) /\ Ends(m, None) /\ Quiet
CancelsAnytime ==
    /\ server = "ready"
    /\ Finish(Status, "Cancelled", FALSE, TRUE) /\ Redirect(None) /\ Quiet

\* Every driver is declared with on_failure = "Fail".
DriverFailed(m) ==
    /\ Finish(Active, "Failed", FALSE, TRUE) /\ Ends(m, None) /\ Quiet
Cancel ==
    /\ server = "ready"
    /\ Finish(Active, "Cancelled", FALSE, TRUE) /\ Redirect(None) /\ Quiet

\* The statuses in which the callbacks of an invocation apply.
Home == [provision_workspace    |-> "Provisioning",
         provision_sandbox      |-> "Provisioning",
         restore_workspace      |-> "Provisioning",
         prepare_context        |-> "PreparingContext",
         ensure_provider_auth   |-> "EnsuringProviderAuth",
         call_provider          |-> "CallingProvider",
         apply_provider_response |-> "ApplyingProviderResponse",
         run_tools              |-> "Executing",
         ensure_compaction_auth |-> "EnsuringCompactionAuth",
         compact_context        |-> "Compacting",
         check_steering         |-> "Steering",
         notify_approval_needed |-> "WaitingForApproval",
         recover_session        |-> "Recovering"]

\* A callback the automaton rejects: wrong status, or a spent auth retry.
\* The invocation is over and the session keeps its status.
CallbackRejected(m) ==
    /\ \/ status # Home[m]
       \/ m = "call_provider" /\ authRetries >= RetryLimit
       \/ m = "compact_context" /\ compactRetries >= RetryLimit
    /\ EndsAlone(m)
    /\ UNCHANGED <<entity, counters, scheduled, tail, process, wakeUps>>

(***************************************************************************)
(* The state timeouts.                                                     *)
(***************************************************************************)
TimeoutFail(s) ==
    /\ server # "down" /\ status = s
    /\ Finish(TimeoutFailFrom, "Failed", FALSE, TRUE) /\ Redirect(None) /\ Quiet
\* Created and Recovering name Fail instead.
TimeoutWithFail(s) ==
    /\ server # "down" /\ status = s
    /\ Finish({"Created", "Recovering"}, "Failed", FALSE, TRUE) /\ Redirect(None) /\ Quiet
StateTimeout(s) == TimeoutFail(s) \/ TimeoutWithFail(s)

(***************************************************************************)
(* People and other sessions: decisions, plans, wake-ups.                  *)
(***************************************************************************)
Answered(to, next) ==
    /\ server = "ready"
    /\ driver # None => zombies["notify_approval_needed"] < OverlapLimit
    /\ Move({"WaitingForApproval"}, to) /\ Redirect(next)
\* (mutant of ResumeAfterApproval: accepted in Executing as well)
ResumesWhileExecuting ==
    /\ server = "ready"
    /\ Move({"WaitingForApproval", "Executing"}, "Executing") /\ Redirect("run_tools") /\ Stay
ResumeAfterApproval    == Answered("Executing", "run_tools") /\ Stay
ResumeWithPlanApproval == Answered("PreparingContext", "prepare_context") /\ Stay
ResumeWithPlanChanges  ==
    /\ turn < TurnLimit
    /\ Answered("PreparingContext", "prepare_context")
    /\ turn' = turn + 1 /\ followUps' = followUps + 1
    /\ UNCHANGED <<recoveries, authRetries, compactRetries>>
DecisionDenied ==
    /\ server = "ready"
    /\ Finish({"WaitingForApproval"}, "Failed", FALSE, TRUE) /\ Redirect(None) /\ Quiet

\* route_message wakes a session a message arrives for: the Resume* action of
\* its status starts that status' driver again.  The staleness test in front
\* of it never says "fresh": last_progress_at is written as decimal
\* milliseconds and parsed as an ISO date, and what does not parse is stale.
WakeUp(s) ==
    /\ server = "ready" /\ wakeUps < WakeUpLimit
    /\ status = s
    /\ wakeUps' = wakeUps + 1
    /\ driver' = WakeDriver[s]
    \* ResumeSteering is declared with a restore_workspace trigger as well.
    /\ zombies' = IF s = "Steering" THEN [Supersede(zombies) EXCEPT !["restore_workspace"] = @ + 1]
                                    ELSE Supersede(zombies)
    /\ UNCHANGED <<entity, counters, scheduled, tail, process>>

(***************************************************************************)
(* After the end: reply delivery and trajectory emission.                  *)
(***************************************************************************)
JobEnds(j) == jobs[j] > 0 /\ jobs' = [jobs EXCEPT ![j] = @ - 1]
AfterEnd == UNCHANGED <<entity, counters, runs, scheduled, process, wakeUps, replies>>

ReplyDelivered ==      \* success has no callback; DeliveryFailed only records an error
    JobEnds("deliver_reply") /\ AfterEnd /\ UNCHANGED <<trajectory, emitRetries>>
EmissionEnds(outcome) ==
    /\ JobEnds("emit_ots_trajectory")
    /\ trajectory' = outcome
    /\ AfterEnd /\ UNCHANGED emitRetries
MarkTrajectoryEmitted    == EmissionEnds("emitted")
TrajectoryEmissionFailed == EmissionEnds("failed")
RetryTrajectoryEmission ==
    /\ server = "ready" /\ status \in Terminal
    /\ emitRetries < RetryLimit
    /\ emitRetries' = emitRetries + 1
    /\ jobs' = [jobs EXCEPT !["emit_ots_trajectory"] = @ + 1]
    /\ AfterEnd /\ UNCHANGED trajectory

(***************************************************************************)
(* Crash, restart and the recovery sweep.                                  *)
(***************************************************************************)
Crash ==
    /\ server # "down" /\ crashes < CrashLimit
    /\ crashes' = crashes + 1
    /\ server' = "down" /\ sweep' = "none"
    /\ driver' = None /\ zombies' = [m \in Drivers |-> 0]
    /\ jobs' = [j \in Jobs |-> 0] /\ scheduled' = {}
    /\ UNCHANGED <<entity, counters, replies, trajectory, emitRetries, wakeUps>>

Restart ==
    /\ server = "down"
    /\ \E mode \in SweepModes : server' = IF mode = "before" THEN "starting" ELSE "ready"
    /\ sweep' = "due"
    /\ UNCHANGED <<entity, counters, runs, scheduled, tail, crashes, wakeUps>>

SweepOver ==
    /\ sweep' = "none"
    /\ server' = "ready" /\ UNCHANGED crashes

\* The sweep reads the session's status, and dispatches in a later step.
SweepReads ==
    /\ sweep = "due"
    /\ IF status \in Terminal THEN SweepOver
                              ELSE sweep' = status /\ UNCHANGED <<server, crashes>>
    /\ UNCHANGED <<entity, counters, runs, scheduled, tail, wakeUps>>

\* Disabled, beyond the limit of sessions per sweep, or unreadable.
SweepSkips ==
    /\ sweep = "due" /\ SweepOver
    /\ UNCHANGED <<entity, counters, runs, scheduled, tail, wakeUps>>

SweepRecoversSession ==
    /\ sweep \in SweepRecovers
    /\ status \in RecoverFrom /\ recoveries < RecoveryLimit
    /\ SweepOver
    /\ status' = "Recovering" /\ recoveries' = recoveries + 1
    /\ Redirect("recover_session")
    /\ UNCHANGED <<hasResult, turn, followUps, authRetries, compactRetries,
                   scheduled, tail, wakeUps>>

SweepFailsSession ==
    /\ \/ sweep \in Active \ SweepRecovers
       \* RecoverFromRestart was answered with an error
       \/ sweep \in SweepRecovers /\ (status \notin RecoverFrom \/ recoveries >= RecoveryLimit)
    /\ SweepOver
    /\ Finish(Active, "Failed", FALSE, TRUE) /\ Redirect(None)
    /\ UNCHANGED <<scheduled, wakeUps>>

\* The dispatch changes nothing: the session ended meanwhile, or the kernel
\* reports the rejected RecoverFromRestart as a response, not as an error.
SweepRejected ==
    /\ \/ sweep \in Active /\ status \in Terminal
       \/ sweep \in SweepRecovers /\ (status \notin RecoverFrom \/ recoveries >= RecoveryLimit)
    /\ SweepOver
    /\ UNCHANGED <<entity, counters, runs, scheduled, tail, wakeUps>>

RecoveryComplete ==
    Move({"Recovering"}, "PreparingContext") /\ Ends("recover_session", "prepare_context") /\ Stay
ResumeFromCheckpoint ==
    Move({"Recovering"}, "Executing") /\ Ends("recover_session", "run_tools") /\ Stay

-----------------------------------------------------------------------------
Provisioning ==
    \/ Configure \/ ProvisionWorkspace \/ CheckSandboxReady \/ Provision \/ Resume
    \/ ProvisionPending \/ WorkspaceReady \/ SandboxReady
Turn ==
    \/ ContextReady \/ ContextReadyAuthSkipped \/ NeedsCompaction
    \/ ProviderAuthReady \/ ProviderAuthExpired \/ ProviderResponseReady
    \/ ProcessToolCalls \/ CheckSteering
    \/ CompactionAuthReady \/ CompactionAuthExpired \/ CompactionComplete
    \/ HandleToolResults \/ CheckpointToolBatch \/ PauseForApproval
    \/ ContinueWithSteering \/ ApprovalNotified
    \/ RecoveryComplete \/ ResumeFromCheckpoint
Ending ==
    \/ RecordResult \/ RecordResultNoReply \/ FinalizeResult \/ FinalizeResultNoReply
    \/ Cancel \/ DecisionDenied
    \/ \E m \in Drivers : DriverFailed(m)
    \/ \E s \in Active : StateTimeout(s)
People ==
    \/ ResumeAfterApproval \/ ResumeWithPlanApproval \/ ResumeWithPlanChanges
    \/ \E s \in DOMAIN WakeDriver : WakeUp(s)
AfterTheEnd ==
    \/ ReplyDelivered \/ MarkTrajectoryEmitted \/ TrajectoryEmissionFailed
    \/ RetryTrajectoryEmission
Sweeping ==
    \/ SweepReads \/ SweepSkips \/ SweepRecoversSession \/ SweepFailsSession \/ SweepRejected

Next ==
    \/ Provisioning \/ Turn \/ Ending \/ People \/ AfterTheEnd \/ Sweeping
    \/ \E m \in Drivers : CallbackRejected(m)
    \/ Crash \/ Restart

Spec == Init /\ [][Next]_vars

\* A server that went down is started again, and each state timeout fires
\* when the session stays in its state.  Nothing is assumed of the drivers,
\* of people or of the sweep.
Fairness == WF_vars(Restart) /\ \A s \in Active : WF_vars(StateTimeout(s))
FairSpec == Spec /\ Fairness

-----------------------------------------------------------------------------
(***************************************************************************)
(* Properties.                                                             *)
(***************************************************************************)
TypeOK ==
    /\ status \in Status /\ hasResult \in BOOLEAN
    /\ turn \in Nat /\ followUps \in Nat /\ recoveries \in 0..RecoveryLimit
    /\ authRetries \in 0..RetryLimit /\ compactRetries \in 0..RetryLimit
    /\ driver \in Drivers \cup {None} /\ zombies \in [Drivers -> Nat]
    /\ scheduled \subseteq {"ProvisionWorkspace", "CheckSandboxReady"}
    /\ jobs \in [Jobs -> Nat] /\ replies \in Nat
    /\ trajectory \in {"pending", "emitted", "failed"} /\ emitRetries \in 0..RetryLimit
    /\ server \in {"ready", "down", "starting"}
    /\ sweep \in {"none", "due"} \cup Active
    /\ crashes \in 0..CrashLimit /\ wakeUps \in 0..WakeUpLimit

\* The automaton's own invariant: a session is Completed only with a result,
\* whichever of the five completing actions and two drivers got it there.
CompletedHasResult == status = "Completed" => hasResult

\* A user gets at most one reply from a session, although a late callback, a
\* timeout, a cancellation, a denial and the sweep all race to end it.
AtMostOneReply == replies <= 1

\* The running driver is one the current status waits for: the session never
\* sits in a state whose driver is running for a different state.
DriverServesStatus == driver # None => status = Home[driver]

\* No invocation but the driver runs on behalf of an active session, apart
\* from the notification of a decision that was answered before it returned.
\* Holds while nobody wakes a running session and the sweep precedes
\* readiness; every chain "callback starts the next driver" depends on it.
SoleDriver ==
    status \in Active => \A m \in Drivers \ {"notify_approval_needed"} : zombies[m] = 0

\* A session that has ended keeps its status: no late callback, timeout,
\* approval or sweep revives it.
TerminalIsFinal == [][(status \in Terminal) => (status' = status)]_vars

\* A superseded invocation never moves the session: a step that ends one
\* leaves the status alone, or fails the session.
NoStaleAdvance ==
    [][\A m \in Drivers : zombies'[m] < zombies[m] /\ server' # "down"
            => status' \in {status, "Failed"}]_vars

\* A session leaves every state but WaitingForApproval, whatever happens to
\* its drivers: they may hang, fail, be rejected or be lost in a crash.
NoSilentStall == \A s \in Active \ {"WaitingForApproval"} : (status = s) ~> (status # s)

\* The sweep recovers every session the automaton lets it recover: it fails
\* none that RecoverFromRestart would accept.
SweepRecoversRecoverable ==
    [][(sweep \in RecoverFrom /\ sweep' = "none" /\ server' # "down"
         /\ status = sweep /\ recoveries < RecoveryLimit) => status' # "Failed"]_vars
=============================================================================
