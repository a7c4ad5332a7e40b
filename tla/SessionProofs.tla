--------------------------- MODULE SessionProofs ---------------------------
(***************************************************************************)
(* Theorems about Session, for every value of its constants.               *)
(***************************************************************************)
EXTENDS Session, TLAPS

-----------------------------------------------------------------------------
(***************************************************************************)
(* Type correctness.  The steps that end or start invocations are the only *)
(* ones that change `driver` and `zombies`; what they do to the types is   *)
(* said once.                                                              *)
(***************************************************************************)
RunsOK == driver \in Drivers \cup {None} /\ zombies \in [Drivers -> Nat]

\* Overtaking the driver adds one invocation to its count.
LEMMA SupersedeType ==
    ASSUME driver \in Drivers \cup {None}, NEW z \in [Drivers -> Nat]
    PROVE  Supersede(z) \in [Drivers -> Nat]
  BY DEF Supersede

\* A callback that starts the next driver keeps the slots well typed.
LEMMA EndsType ==
    ASSUME RunsOK, NEW m \in Drivers, NEW next \in Drivers \cup {None}, Ends(m, next)
    PROVE  RunsOK'
<1>1. CASE driver = m /\ zombies' = zombies
  BY <1>1 DEF RunsOK, Ends
<1>2. CASE zombies[m] > 0 /\ zombies' = Supersede([zombies EXCEPT ![m] = @ - 1])
  <2>1. [zombies EXCEPT ![m] = @ - 1] \in [Drivers -> Nat]
    BY <1>2 DEF RunsOK
  <2>2. zombies' \in [Drivers -> Nat]
    BY <1>2, <2>1, SupersedeType DEF RunsOK
  <2> QED
    BY <2>2 DEF RunsOK, Ends
<1> QED
  BY <1>1, <1>2 DEF Ends

\* So does one that starts nothing.
LEMMA EndsAloneType ==
    ASSUME RunsOK, NEW m \in Drivers, EndsAlone(m)
    PROVE  RunsOK'
  BY DEF RunsOK, EndsAlone

\* A transition from outside keeps them well typed too.
LEMMA RedirectType ==
    ASSUME RunsOK, NEW next \in Drivers \cup {None}, Redirect(next)
    PROVE  RunsOK'
  BY SupersedeType DEF RunsOK, Redirect

\* The rest of the type invariant, by the groups of variables actions share.
EntityOK   == status \in Status /\ hasResult \in BOOLEAN
CountersOK == /\ turn \in Nat /\ followUps \in Nat /\ recoveries \in 0..RecoveryLimit
              /\ authRetries \in 0..RetryLimit /\ compactRetries \in 0..RetryLimit
TailOK     == /\ jobs \in [Jobs -> Nat] /\ replies \in Nat
              /\ trajectory \in {"pending", "emitted", "failed"} /\ emitRetries \in 0..RetryLimit
ScheduleOK == scheduled \subseteq {"ProvisionWorkspace", "CheckSandboxReady"}
ProcessOK  == /\ server \in {"ready", "down", "starting"} /\ crashes \in 0..CrashLimit
              /\ sweep \in {"none", "due"} \cup Active
RestOK     == ScheduleOK /\ ProcessOK /\ wakeUps \in 0..WakeUpLimit

\* The type invariant is the conjunction of its parts, now and after a step.
LEMMA TypeParts ==
    /\ TypeOK  <=> EntityOK /\ CountersOK /\ RunsOK /\ TailOK /\ RestOK
    /\ TypeOK' <=> EntityOK' /\ CountersOK' /\ RunsOK' /\ TailOK' /\ RestOK'
  BY DEF TypeOK, EntityOK, CountersOK, RunsOK, TailOK, RestOK, ScheduleOK, ProcessOK

\* Leaving a group of variables alone keeps its part.
LEMMA Unchanged ==
    /\ UNCHANGED entity => (EntityOK => EntityOK')
    /\ UNCHANGED counters => (CountersOK => CountersOK')
    /\ UNCHANGED runs => (RunsOK => RunsOK')
    /\ UNCHANGED tail => (TailOK => TailOK')
    /\ UNCHANGED <<scheduled, process, wakeUps>> => (RestOK => RestOK')
  BY DEF entity, counters, runs, tail, process, EntityOK, CountersOK, RunsOK,
         TailOK, RestOK, ScheduleOK, ProcessOK

\* A transition between active states keeps the types of what it writes.
LEMMA MoveType ==
    ASSUME EntityOK, TailOK, RestOK, NEW from, NEW to \in Status, Move(from, to)
    PROVE  EntityOK' /\ TailOK' /\ RestOK'
  BY Unchanged DEF Move, EntityOK, tail, process, TailOK, RestOK, ScheduleOK, ProcessOK

\* A transition into a terminal state keeps the types of what it writes.
LEMMA FinishType ==
    ASSUME EntityOK, CountersOK, TailOK, NEW from, NEW to \in Status,
           NEW result \in BOOLEAN, NEW deliver \in BOOLEAN,
           Finish(from, to, result, deliver)
    PROVE  EntityOK' /\ CountersOK' /\ TailOK'
<1>1. EntityOK'
  BY DEF Finish, EntityOK
<1>2. CountersOK'
  BY Unchanged DEF Finish
<1>3. jobs' \in [Jobs -> Nat]
  BY DEF Finish, TailOK
<1>4. TailOK'
  BY <1>3 DEF Finish, TailOK
<1> QED
  BY <1>1, <1>2, <1>4

\* Every callback of a turn comes from the driver of one active state and
\* starts the driver of the next.
LEMMA TurnMoves ==
    ASSUME Turn
    PROVE  \/ ApprovalNotified
           \/ \E m \in Drivers \ {"notify_approval_needed"}, next \in Drivers :
                /\ Move({Home[m]}, Home[next]) /\ Ends(m, next)
                /\ Home[next] \in Working \cup {"WaitingForApproval"}
<1>1. CASE ContextReady
  BY <1>1 DEF Home, ContextReady, Working, Drivers
<1>2. CASE ContextReadyAuthSkipped
  BY <1>2 DEF Home, ContextReadyAuthSkipped, Working, Drivers
<1>3. CASE NeedsCompaction
  BY <1>3 DEF Home, NeedsCompaction, Working, Drivers
<1>4. CASE ProviderAuthReady
  BY <1>4 DEF Home, ProviderAuthReady, Working, Drivers
<1>5. CASE ProviderAuthExpired
  BY <1>5 DEF Home, ProviderAuthExpired, Working, Drivers
<1>6. CASE ProviderResponseReady
  BY <1>6 DEF Home, ProviderResponseReady, Working, Drivers
<1>7. CASE ProcessToolCalls
  BY <1>7 DEF Home, ProcessToolCalls, Working, Drivers
<1>8. CASE CheckSteering
  BY <1>8 DEF Home, CheckSteering, Working, Drivers
<1>9. CASE CompactionAuthReady
  BY <1>9 DEF Home, CompactionAuthReady, Working, Drivers
<1>10. CASE CompactionAuthExpired
  BY <1>10 DEF Home, CompactionAuthExpired, Working, Drivers
<1>11. CASE CompactionComplete
  BY <1>11 DEF Home, CompactionComplete, Working, Drivers
<1>12. CASE HandleToolResults
  BY <1>12 DEF Home, HandleToolResults, Working, Drivers
<1>13. CASE CheckpointToolBatch
  BY <1>13 DEF Home, CheckpointToolBatch, Working, Drivers
<1>14. CASE PauseForApproval
  BY <1>14 DEF Home, PauseForApproval, Working, Drivers
<1>15. CASE ContinueWithSteering
  BY <1>15 DEF Home, ContinueWithSteering, Working, Drivers
<1>16. CASE RecoveryComplete
  BY <1>16 DEF Home, RecoveryComplete, Working, Drivers
<1>17. CASE ResumeFromCheckpoint
  BY <1>17 DEF Home, ResumeFromCheckpoint, Working, Drivers
<1> QED
  BY <1>1, <1>2, <1>3, <1>4, <1>5, <1>6, <1>7, <1>8, <1>9, <1>10, <1>11, <1>12, <1>13, <1>14, <1>15, <1>16, <1>17 DEF Turn

\* The callbacks of a turn count within the bounds their guards set: the auth
\* and compaction retries stop at RetryLimit.
LEMMA TurnCounters ==
    ASSUME CountersOK, Turn
    PROVE  CountersOK'
<1>1. CASE UNCHANGED counters
  BY <1>1, Unchanged
<1>2. CASE ProviderAuthExpired
  BY <1>2 DEF CountersOK, ProviderAuthExpired, RetryLimit
<1>3. CASE CompactionAuthExpired
  BY <1>3 DEF CountersOK, CompactionAuthExpired, RetryLimit
<1>4. CASE HandleToolResults
  BY <1>4 DEF CountersOK, HandleToolResults
<1>5. CASE ContinueWithSteering
  BY <1>5 DEF CountersOK, ContinueWithSteering
<1> QED
  BY <1>1, <1>2, <1>3, <1>4, <1>5 DEF Turn, Stay, ContextReady, ContextReadyAuthSkipped,
     NeedsCompaction, ProviderAuthReady, ProviderResponseReady, ProcessToolCalls, CheckSteering,
     CompactionAuthReady, CompactionComplete, CheckpointToolBatch, PauseForApproval,
     ApprovalNotified, RecoveryComplete, ResumeFromCheckpoint

\* The callbacks of a turn keep every variable in its type.
LEMMA TurnType ==
    ASSUME TypeOK, Turn
    PROVE  TypeOK'
<1>1. CountersOK'
  BY TypeParts, TurnCounters
<1>2. CASE ApprovalNotified
  <2>1. RunsOK'
    BY <1>2, TypeParts, EndsAloneType DEF ApprovalNotified, Drivers
  <2> QED
    BY <1>1, <1>2, <2>1, TypeParts, Unchanged DEF ApprovalNotified
<1>3. ASSUME NEW m \in Drivers, NEW next \in Drivers, Move({Home[m]}, Home[next]),
             Ends(m, next), Home[next] \in Working \cup {"WaitingForApproval"}
      PROVE  TypeOK'
  <2>1. Home[next] \in Status
    BY <1>3 DEF Status, Active
  <2>2. RunsOK'
    BY <1>3, TypeParts, EndsType
  <2> QED
    BY <1>1, <1>3, <2>1, <2>2, TypeParts, MoveType
<1> QED
  BY <1>2, <1>3, TurnMoves

\* A terminal transition changes the entity, the jobs and the invocations.
FinishStep ==
    /\ Quiet
    /\ \E from \in SUBSET Active, to \in Terminal, result \in BOOLEAN, deliver \in BOOLEAN :
         /\ Finish(from, to, result, deliver)
         /\ to = "Completed" => result
    /\ (\E m \in Drivers : Ends(m, None)) \/ Redirect(None)

\* Every way to end a session (completion, failure, timeout, cancellation,
\* denial) is a Finish from an active state that stops at most one driver.
LEMMA EndingFinishes == ASSUME Ending PROVE FinishStep
<1>1. CASE RecordResult
  BY <1>1 DEF FinishStep, RecordResult, Active, Working, Terminal, Drivers
<1>2. CASE RecordResultNoReply
  BY <1>2 DEF FinishStep, RecordResultNoReply, Active, Working, Terminal, Drivers
<1>3. CASE FinalizeResult
  BY <1>3 DEF FinishStep, FinalizeResult, Active, Working, Terminal, Drivers
<1>4. CASE FinalizeResultNoReply
  BY <1>4 DEF FinishStep, FinalizeResultNoReply, Active, Working, Terminal, Drivers
<1>5. CASE Cancel
  BY <1>5 DEF FinishStep, Cancel, Terminal
<1>6. CASE DecisionDenied
  BY <1>6 DEF FinishStep, DecisionDenied, Active, Terminal
<1>7. ASSUME NEW m \in Drivers, DriverFailed(m)
      PROVE  FinishStep
  BY <1>7 DEF FinishStep, DriverFailed, Terminal
<1>8. ASSUME NEW s \in Active, StateTimeout(s)
      PROVE  FinishStep
  BY <1>8 DEF FinishStep, StateTimeout, TimeoutFail, TimeoutWithFail, TimeoutFailFrom, Active, Working, Terminal
<1> QED
  BY <1>1, <1>2, <1>3, <1>4, <1>5, <1>6, <1>7, <1>8 DEF Ending

\* Ending a session keeps every variable in its type.
LEMMA EndingType ==
    ASSUME TypeOK, Ending
    PROVE  TypeOK'
<1>1. FinishStep
  BY EndingFinishes
<1>2. EntityOK' /\ CountersOK' /\ TailOK'
  <2>1. PICK from \in SUBSET Active, to \in Terminal, result \in BOOLEAN, deliver \in BOOLEAN :
          Finish(from, to, result, deliver)
    BY <1>1 DEF FinishStep
  <2>2. to \in Status
    BY DEF Status
  <2> QED
    BY <2>1, <2>2, FinishType, TypeParts
<1>3. RunsOK'
  BY <1>1, TypeParts, EndsType, RedirectType DEF FinishStep
<1>4. RestOK'
  BY <1>1, TypeParts, Unchanged DEF FinishStep, Quiet
<1> QED
  BY <1>2, <1>3, <1>4, TypeParts

\* So does provisioning a session,
LEMMA ProvisioningType ==
    ASSUME TypeOK, Provisioning
    PROVE  TypeOK'
<1> USE DEF Drivers, Status, Active, Working
<1>1. CASE Configure
  BY <1>1, TypeParts, Unchanged DEF Configure, RestOK, ScheduleOK, ProcessOK, process
<1>2. ASSUME NEW action, NEW from \in Status, NEW to \in Status, NEW next \in Drivers,
             ScheduledStart(action, from, to, next)
      PROVE  TypeOK'
  <2>1. RunsOK'
    BY <1>2, TypeParts, RedirectType, Unchanged DEF ScheduledStart
  <2>2. EntityOK' /\ CountersOK' /\ TailOK'
    BY <1>2, TypeParts, Unchanged DEF ScheduledStart, EntityOK
  <2>3. RestOK'
    BY <1>2, TypeParts DEF ScheduledStart, RestOK, ScheduleOK, ProcessOK, process
  <2> QED
    BY <2>1, <2>2, <2>3, TypeParts
<1>3. CASE ProvisionWorkspace
  BY <1>2, <1>3 DEF ProvisionWorkspace
<1>4. CASE CheckSandboxReady
  BY <1>2, <1>4 DEF CheckSandboxReady
<1>5. ASSUME NEW next \in Drivers, ProvisionRequest(next)
      PROVE  TypeOK'
  BY <1>5, TypeParts, Unchanged, MoveType, RedirectType DEF ProvisionRequest, Stay
<1>6. CASE Provision \/ Resume
  BY <1>5, <1>6 DEF Provision, Resume
<1>7. CASE ProvisionPending
  <2>1. RunsOK'
    BY <1>7, TypeParts, EndsType DEF ProvisionPending
  <2> QED
    BY <1>7, <2>1, TypeParts, Unchanged
       DEF ProvisionPending, RestOK, ScheduleOK, ProcessOK, process
<1>8. ASSUME NEW m \in Drivers, Move({"Provisioning"}, "PreparingContext"),
             Ends(m, "prepare_context"), Stay
      PROVE  TypeOK'
  BY <1>8, TypeParts, Unchanged, MoveType, EndsType DEF Stay
<1>9. CASE WorkspaceReady \/ SandboxReady
  BY <1>8, <1>9 DEF WorkspaceReady, SandboxReady
<1> QED
  BY <1>1, <1>3, <1>4, <1>6, <1>7, <1>9 DEF Provisioning

\* so do approvals, plan answers and wake-ups,
LEMMA PeopleType ==
    ASSUME TypeOK, People
    PROVE  TypeOK'
<1> USE DEF Drivers, Status, Active, Working
<1>1. ASSUME NEW to \in Status, NEW next \in Drivers, Answered(to, next), CountersOK'
      PROVE  TypeOK'
  BY <1>1, TypeParts, MoveType, RedirectType DEF Answered
<1>2. CASE ResumeAfterApproval \/ ResumeWithPlanApproval
  BY <1>1, <1>2, TypeParts, Unchanged DEF ResumeAfterApproval, ResumeWithPlanApproval, Stay
<1>3. CASE ResumeWithPlanChanges
  <2>1. CountersOK'
    BY <1>3, TypeParts DEF ResumeWithPlanChanges, CountersOK
  <2> QED
    BY <1>1, <1>3, <2>1 DEF ResumeWithPlanChanges
<1>4. ASSUME NEW s \in DOMAIN WakeDriver, WakeUp(s)
      PROVE  TypeOK'
  <2>1. WakeDriver[s] \in Drivers
    BY DEF WakeDriver
  <2>2. RunsOK'
    BY <1>4, <2>1, TypeParts, SupersedeType DEF WakeUp, RunsOK
  <2>3. RestOK'
    BY <1>4, BoundsAssumption, TypeParts DEF WakeUp, TypeOK, RestOK, ScheduleOK, ProcessOK, process
  <2> QED
    BY <1>4, <2>2, <2>3, TypeParts, Unchanged DEF WakeUp
<1> QED
  BY <1>2, <1>3, <1>4 DEF People

\* so do the reply and the trajectory emission after the end,
LEMMA AfterTheEndType ==
    ASSUME TypeOK, AfterTheEnd
    PROVE  TypeOK'
<1>1. ASSUME NEW j \in Jobs, JobEnds(j)
      PROVE  jobs' \in [Jobs -> Nat]
  BY <1>1 DEF JobEnds, TypeOK
<1>2. jobs' \in [Jobs -> Nat]
  BY <1>1 DEF AfterTheEnd, ReplyDelivered, MarkTrajectoryEmitted, TrajectoryEmissionFailed,
              EmissionEnds, RetryTrajectoryEmission, TypeOK, Jobs
<1>3. TailOK'
  BY <1>2, TypeParts DEF AfterTheEnd, ReplyDelivered, MarkTrajectoryEmitted,
     TrajectoryEmissionFailed, EmissionEnds, RetryTrajectoryEmission, AfterEnd, TailOK, RetryLimit
<1> QED
  BY <1>3, TypeParts, Unchanged DEF AfterTheEnd, ReplyDelivered, MarkTrajectoryEmitted,
     TrajectoryEmissionFailed, EmissionEnds, RetryTrajectoryEmission, AfterEnd

\* so does the recovery sweep, which stops at RecoveryLimit,
LEMMA SweepingType ==
    ASSUME TypeOK, Sweeping
    PROVE  TypeOK'
<1>1. sweep' \in {"none", "due"} \cup Active
  BY DEF Sweeping, SweepReads, SweepSkips, SweepRecoversSession, SweepFailsSession,
         SweepRejected, SweepOver, TypeOK, EntityOK, Status
<1>2. RestOK'
  BY <1>1, TypeParts DEF Sweeping, SweepReads, SweepSkips, SweepRecoversSession,
     SweepFailsSession, SweepRejected, SweepOver, RestOK, ScheduleOK, ProcessOK
<1>3. CASE SweepReads \/ SweepSkips \/ SweepRejected
  BY <1>2, <1>3, TypeParts, Unchanged DEF SweepReads, SweepSkips, SweepRejected
<1>4. CASE SweepRecoversSession
  <2>1. EntityOK' /\ CountersOK'
    BY <1>4, TypeParts DEF SweepRecoversSession, EntityOK, CountersOK, RecoveryLimit, Status, Active
  <2>2. RunsOK'
    BY <1>4, TypeParts, RedirectType DEF SweepRecoversSession, Drivers
  <2> QED
    BY <1>2, <1>4, <2>1, <2>2, TypeParts, Unchanged DEF SweepRecoversSession
<1>5. CASE SweepFailsSession
  <2>1. EntityOK' /\ CountersOK' /\ TailOK'
    BY <1>5, TypeParts, FinishType DEF SweepFailsSession, Status, Terminal
  <2>2. RunsOK'
    BY <1>5, TypeParts, RedirectType DEF SweepFailsSession
  <2> QED
    BY <1>2, <2>1, <2>2, TypeParts
<1> QED
  BY <1>3, <1>4, <1>5 DEF Sweeping

\* and so do the crash and the restart of the server.
LEMMA CrashType ==
    ASSUME TypeOK, Crash \/ Restart
    PROVE  TypeOK'
<1>1. CASE Crash
  BY <1>1, BoundsAssumption, TypeParts DEF Crash, TypeOK, entity, counters
<1>2. CASE Restart
  BY <1>2, TypeParts, Unchanged DEF Restart, RestOK, ScheduleOK, ProcessOK
<1> QED
  BY <1>1, <1>2

\* Every step keeps every variable in its type.
LEMMA TypeStep ==
    ASSUME TypeOK, [Next]_vars
    PROVE  TypeOK'
<1>1. ASSUME NEW m \in Drivers, CallbackRejected(m)
      PROVE  TypeOK'
  BY <1>1, TypeParts, Unchanged, EndsAloneType DEF CallbackRejected
<1>2. CASE UNCHANGED vars
  BY <1>2, TypeParts, Unchanged DEF vars
<1> QED
  BY <1>1, <1>2, ProvisioningType, TurnType, EndingType, PeopleType, AfterTheEndType,
     SweepingType, CrashType DEF Next

\* Every initial state is well typed.
LEMMA TypeInit == ASSUME Init PROVE TypeOK
<1>1. zombies \in [Drivers -> Nat] /\ jobs \in [Jobs -> Nat]
  BY DEF Init
<1>2. sweep \in {"none", "due"}
  <2>1. CASE "after" \in SweepModes
    BY <2>1 DEF Init
  <2>2. CASE "after" \notin SweepModes
    BY <2>2 DEF Init
  <2> QED
    BY <2>1, <2>2
<1>3. crashes \in 0..CrashLimit /\ wakeUps \in 0..WakeUpLimit
  BY BoundsAssumption DEF Init
<1>4. EntityOK /\ RunsOK
  BY <1>1 DEF Init, EntityOK, RunsOK, Status, Active
<1>5. CountersOK /\ TailOK
  BY <1>1 DEF Init, CountersOK, TailOK, RecoveryLimit, RetryLimit
<1>6. RestOK
  BY <1>2, <1>3 DEF Init, RestOK, ScheduleOK, ProcessOK
<1> QED
  BY <1>4, <1>5, <1>6, TypeParts

\* Every variable keeps its type: in particular no auth retry, recovery or
\* emission retry exceeds its limit, and an invocation that is not running
\* never returns.
THEOREM TypeCorrect == Spec => []TypeOK
<1>1. TypeOK /\ [Next]_vars => TypeOK'
  BY TypeStep
<1> QED
  BY TypeInit, <1>1, PTL DEF Spec

-----------------------------------------------------------------------------
(***************************************************************************)
(* The end of a session.  Every step either ends an active session, or     *)
(* starts no reply and moves between active states at most.                *)
(***************************************************************************)
EndsSession ==
    /\ status \in Active /\ status' \in Terminal
    /\ replies' \in {replies, replies + 1}
    /\ status' = "Completed" => hasResult'
GoesOn ==
    /\ UNCHANGED <<hasResult, replies>>
    /\ status' = status \/ (status \in Active /\ status' \in Active)

\* A Finish from an active state ends the session with at most one more reply,
\* and with a result if it completes it.
LEMMA FinishEnds ==
    ASSUME NEW from \in SUBSET Active, NEW to \in Terminal, NEW result \in BOOLEAN,
           NEW deliver \in BOOLEAN, Finish(from, to, result, deliver),
           to = "Completed" => result
    PROVE  EndsSession
  BY DEF Finish, EndsSession

\* Every integration serves an active state.
LEMMA HomeActive == \A m \in Drivers : Home[m] \in Active
  BY DEF Drivers, Home, Active, Working

\* A Move between active states neither replies nor sets a result.
LEMMA MoveGoesOn ==
    ASSUME NEW from \in SUBSET Active, NEW to \in Active, Move(from, to)
    PROVE  GoesOn
  BY DEF Move, GoesOn, tail

\* Every step of the session either ends it or goes on: nothing else writes
\* the status, the result or the replies.
LEMMA StepKinds ==
    ASSUME [Next]_vars
    PROVE  EndsSession \/ GoesOn
<1> USE DEF Active, Working
<1>1. CASE Ending
  BY <1>1, EndingFinishes, FinishEnds DEF FinishStep
<1>2. CASE Turn
  <2>1. CASE ApprovalNotified
    BY <2>1 DEF ApprovalNotified, GoesOn, entity, tail
  <2>2. ASSUME NEW m \in Drivers, NEW next \in Drivers, Move({Home[m]}, Home[next]),
               Home[next] \in Working \cup {"WaitingForApproval"}
        PROVE  GoesOn
    <3>1. {Home[m]} \in SUBSET Active
      BY HomeActive
    <3> QED
      BY <2>2, <3>1, MoveGoesOn DEF Active
  <2> QED
    BY <1>2, <2>1, <2>2, TurnMoves
<1>3. CASE Provisioning
  BY <1>3 DEF Provisioning, Configure, ProvisionWorkspace, CheckSandboxReady, ScheduledStart,
     Provision, Resume, ProvisionRequest, ProvisionPending, WorkspaceReady, SandboxReady,
     Move, GoesOn, entity, tail
<1>4. CASE People
  BY <1>4 DEF People, ResumeAfterApproval, ResumeWithPlanApproval, ResumeWithPlanChanges,
     Answered, WakeUp, Move, GoesOn, entity, tail
<1>5. CASE AfterTheEnd
  BY <1>5 DEF AfterTheEnd, ReplyDelivered, MarkTrajectoryEmitted, TrajectoryEmissionFailed,
     EmissionEnds, RetryTrajectoryEmission, AfterEnd, GoesOn, entity
<1>6. CASE SweepFailsSession
  <2>1. Finish(Active, "Failed", FALSE, TRUE)
    BY <1>6 DEF SweepFailsSession
  <2> QED
    BY <2>1 DEF Finish, EndsSession, Terminal
<1>7. CASE SweepReads \/ SweepSkips \/ SweepRejected \/ SweepRecoversSession
  BY <1>7 DEF SweepReads, SweepSkips, SweepRejected, SweepRecoversSession, RecoverFrom,
     GoesOn, entity, tail
<1>8. CASE (\E m \in Drivers : CallbackRejected(m)) \/ Crash \/ Restart \/ UNCHANGED vars
  BY <1>8 DEF CallbackRejected, Crash, Restart, vars, GoesOn, entity, tail
<1> QED
  BY <1>1, <1>2, <1>3, <1>4, <1>5, <1>6, <1>7, <1>8 DEF Next, Sweeping

\* No state is active and terminal.
LEMMA NotBoth == Active \cap Terminal = {}
  BY DEF Active, Working, Terminal

\* A user gets at most one reply.  The invariant is strengthened: no reply
\* was started as long as the session is active.
OneReplyInv == TypeOK /\ AtMostOneReply /\ (status \in Active => replies = 0)

THEOREM OneReply == Spec => []AtMostOneReply
<1>1. Init => OneReplyInv
  <2>1. ASSUME Init PROVE TypeOK /\ replies = 0
    BY <2>1, TypeInit DEF Init
  <2> QED
    BY <2>1 DEF OneReplyInv, AtMostOneReply
<1>2. OneReplyInv /\ [Next]_vars => OneReplyInv'
  <2> SUFFICES ASSUME OneReplyInv, [Next]_vars PROVE OneReplyInv'
    OBVIOUS
  <2>1. TypeOK'
    BY TypeStep DEF OneReplyInv
  <2>2. CASE EndsSession
    BY <2>1, <2>2, NotBoth DEF EndsSession, OneReplyInv, AtMostOneReply
  <2>3. CASE GoesOn
    BY <2>1, <2>3 DEF GoesOn, OneReplyInv, AtMostOneReply
  <2> QED
    BY <2>2, <2>3, StepKinds
<1> QED
  BY <1>1, <1>2, PTL DEF Spec, OneReplyInv

\* A session is Completed only with a result, whichever action completed it.
THEOREM CompletedWithResult == Spec => []CompletedHasResult
<1>1. Init => CompletedHasResult
  BY DEF Init, CompletedHasResult
<1>2. CompletedHasResult /\ [Next]_vars => CompletedHasResult'
  <2> SUFFICES ASSUME CompletedHasResult, [Next]_vars PROVE CompletedHasResult'
    OBVIOUS
  <2>1. CASE EndsSession
    BY <2>1 DEF EndsSession, CompletedHasResult
  <2>2. CASE GoesOn
    BY <2>2 DEF GoesOn, CompletedHasResult, Active, Working
  <2> QED
    BY <2>1, <2>2, StepKinds
<1> QED
  BY <1>1, <1>2, PTL DEF Spec

\* A session that has ended keeps its status.
THEOREM EndIsFinal == Spec => TerminalIsFinal
<1>1. [Next]_vars => [(status \in Terminal) => (status' = status)]_vars
  BY StepKinds, NotBoth DEF EndsSession, GoesOn
<1> QED
  BY <1>1, PTL DEF Spec, TerminalIsFinal

-----------------------------------------------------------------------------
(***************************************************************************)
(* The running driver is one the status waits for.  A step either sets the *)
(* driver and the status together, empties the driver slot, or leaves both *)
(* alone; an invocation that is overtaken leaves the slot.                 *)
(***************************************************************************)
DriverFits ==
    \/ UNCHANGED <<status, driver>>
    \/ driver' = None
    \/ driver' \in Drivers /\ status' = Home[driver']

\* Each state a message can wake is the home of the driver its Resume* action
\* starts.
LEMMA WakeHome ==
    \A s \in DOMAIN WakeDriver : WakeDriver[s] \in Drivers /\ Home[WakeDriver[s]] = s
  BY DEF WakeDriver, Home, Drivers

\* Every step of the session fits its driver to its status: callbacks, timeouts,
\* wake-ups, late decisions, crashes and the sweep.
LEMMA StepFits ==
    ASSUME [Next]_vars
    PROVE  DriverFits
<1>1. CASE Turn
  <2>1. CASE ApprovalNotified
    BY <2>1 DEF ApprovalNotified, EndsAlone, DriverFits, entity
  <2>2. ASSUME NEW m \in Drivers, NEW next \in Drivers, Move({Home[m]}, Home[next]), Ends(m, next)
        PROVE  DriverFits
    BY <2>2 DEF Move, Ends, DriverFits
  <2> QED
    BY <1>1, <2>1, <2>2, TurnMoves
<1>2. CASE Ending
  BY <1>2, EndingFinishes DEF FinishStep, Ends, Redirect, DriverFits
<1>3. CASE Provisioning
  <2> USE DEF DriverFits, Home, Drivers
  <2>1. CASE Configure
    BY <2>1 DEF Configure, entity, runs
  <2>2. CASE ProvisionWorkspace \/ CheckSandboxReady
    BY <2>2 DEF ProvisionWorkspace, CheckSandboxReady, ScheduledStart, Redirect, runs
  <2>3. CASE Provision \/ Resume
    BY <2>3 DEF Provision, Resume, ProvisionRequest, Move, Redirect
  <2>4. CASE ProvisionPending \/ WorkspaceReady \/ SandboxReady
    BY <2>4 DEF ProvisionPending, WorkspaceReady, SandboxReady, Move, Ends
  <2> QED
    BY <1>3, <2>1, <2>2, <2>3, <2>4 DEF Provisioning
<1>4. CASE People
  <2>1. ASSUME NEW s \in DOMAIN WakeDriver, WakeUp(s)
        PROVE  DriverFits
    BY <2>1, WakeHome DEF WakeUp, DriverFits, entity
  <2>2. CASE ResumeAfterApproval \/ ResumeWithPlanApproval \/ ResumeWithPlanChanges
    BY <2>2 DEF ResumeAfterApproval, ResumeWithPlanApproval, ResumeWithPlanChanges,
       Answered, Move, Redirect, DriverFits, Home, Drivers
  <2> QED
    BY <1>4, <2>1, <2>2 DEF People
<1>5. CASE Sweeping
  <2>1. CASE SweepRecoversSession
    BY <2>1 DEF SweepRecoversSession, Redirect, DriverFits, Home, Drivers
  <2>2. CASE SweepFailsSession
    BY <2>2 DEF SweepFailsSession, Redirect, DriverFits
  <2>3. CASE SweepReads \/ SweepSkips \/ SweepRejected
    BY <2>3 DEF SweepReads, SweepSkips, SweepRejected, DriverFits, entity, runs
  <2> QED
    BY <1>5, <2>1, <2>2, <2>3 DEF Sweeping
<1>6. CASE AfterTheEnd
  BY <1>6 DEF AfterTheEnd, ReplyDelivered, MarkTrajectoryEmitted, TrajectoryEmissionFailed,
     EmissionEnds, RetryTrajectoryEmission, AfterEnd, DriverFits, entity, runs
<1>7. CASE (\E m \in Drivers : CallbackRejected(m)) \/ Crash \/ Restart \/ UNCHANGED vars
  BY <1>7 DEF CallbackRejected, EndsAlone, Crash, Restart, vars, DriverFits, entity, runs
<1> QED
  BY <1>1, <1>2, <1>3, <1>4, <1>5, <1>6, <1>7 DEF Next

\* Whatever interleaves (callbacks, timeouts, wake-ups of a running session,
\* decisions, crashes and the sweep before or after readiness), the running
\* driver is one whose callbacks the session's status accepts.
THEOREM DriverFitsStatus == Spec => []DriverServesStatus
<1>1. Init => DriverServesStatus
  BY DEF Init, DriverServesStatus
<1>2. DriverServesStatus /\ [Next]_vars => DriverServesStatus'
  BY StepFits DEF DriverFits, DriverServesStatus
<1> QED
  BY <1>1, <1>2, PTL DEF Spec

-----------------------------------------------------------------------------
(***************************************************************************)
(* One driver at a time.  While nobody wakes a running session and the     *)
(* sweep precedes readiness, an active session has no running invocation   *)
(* but its driver (and notifications of decisions answered early), the     *)
(* driver is the one its status waits for, and so no superseded invocation *)
(* moves the session.  Both conditions are needed: the runs with wake-ups  *)
(* and with the deferred sweep violate the properties.                     *)
(***************************************************************************)
Orderly == WakeUpLimit = 0 /\ SweepModes \subseteq {"before"}

(***************************************************************************)
(* The inductive invariant.  SoleDriver and DriverServesStatus alone are   *)
(* not inductive: a sweep, a callback of a crashed server's invocation or  *)
(* a late CheckSandboxReady could start a driver beside another.           *)
(***************************************************************************)
NoRuns == driver = None /\ \A m \in Drivers : zombies[m] = 0
SweepInv    == sweep # "none" => server = "starting"
ServerInv   == server # "ready" => NoRuns /\ scheduled = {}
ScheduleInv == "CheckSandboxReady" \in scheduled =>
                 status # "Created" /\ (status = "Provisioning" => driver = None)
OrderlyInv ==
    /\ TypeOK /\ DriverServesStatus /\ SoleDriver
    /\ wakeUps = 0 /\ SweepInv /\ ServerInv /\ ScheduleInv

\* An empty driver slot is none of the integrations.
LEMMA NoneIsNoDriver == None \notin Drivers
  BY DEF None, Drivers

\* Active and terminal states are disjoint, and no integration serves Created.
LEMMA DisjointStatus ==
    /\ \A s \in Active : s \notin Terminal
    /\ \A m \in Drivers : Home[m] \in Active /\ Home[m] # "Created"
  BY DEF Active, Working, Terminal, Drivers, Home

\* In an active state only the driver can return with a callback that starts
\* the next one.
LEMMA OnlyDriverReturns ==
    ASSUME OrderlyInv, status \in Active, NEW m \in Drivers \ {"notify_approval_needed"},
           NEW next \in Drivers \cup {None}, Ends(m, next)
    PROVE  driver = m /\ zombies' = zombies /\ driver' = next /\ server = "ready"
<1>1. zombies[m] = 0
  BY DEF OrderlyInv, SoleDriver
<1>2. driver = m /\ zombies' = zombies /\ driver' = next
  BY <1>1 DEF Ends
<1>3. server = "ready"
  BY <1>2, NoneIsNoDriver DEF OrderlyInv, ServerInv, NoRuns
<1> QED
  BY <1>2, <1>3

\* Starting a driver from outside keeps the counts that SoleDriver speaks of,
\* when only a notification can be overtaken.
LEMMA RedirectCounts ==
    ASSUME OrderlyInv, NEW next, Redirect(next),
           driver \in {None, "notify_approval_needed"}
    PROVE  /\ driver' = next
           /\ \A m \in Drivers \ {"notify_approval_needed"} : zombies'[m] = zombies[m]
           /\ driver = None => zombies' = zombies
<1>1. CASE driver = None
  BY <1>1 DEF Redirect, Supersede
<1>2. CASE driver = "notify_approval_needed"
  BY <1>2 DEF Redirect, Supersede, OrderlyInv, TypeOK, None
<1> QED
  BY <1>1, <1>2

-----------------------------------------------------------------------------
\* A callback of the turn hands over from the driver of one state to the
\* driver of the next, and starts nothing beside it.
LEMMA TurnOrderly ==
    ASSUME OrderlyInv, Turn, TypeOK'
    PROVE  OrderlyInv'
<1>1. CASE ApprovalNotified
  <2>1. driver' \in {driver, None} /\ \A m \in Drivers : zombies[m] = 0 => zombies'[m] = 0
    BY <1>1, NoneIsNoDriver DEF ApprovalNotified, EndsAlone, OrderlyInv, TypeOK
  <2> QED
    BY <1>1, <2>1 DEF ApprovalNotified, OrderlyInv, DriverServesStatus, SoleDriver,
       SweepInv, ServerInv, ScheduleInv, NoRuns, entity, process
<1>2. ASSUME NEW m \in Drivers \ {"notify_approval_needed"}, NEW next \in Drivers,
             Move({Home[m]}, Home[next]), Ends(m, next),
             Home[next] \in Working \cup {"WaitingForApproval"}
      PROVE  OrderlyInv'
  <2>1. status \in Active
    BY <1>2, DisjointStatus DEF Move
  <2>2. zombies' = zombies /\ driver' = next /\ server = "ready"
    BY <1>2, <2>1, OnlyDriverReturns
  <2>3. status' = Home[driver'] /\ status' \notin {"Created", "Provisioning"}
    BY <1>2, <2>2 DEF Move, Working
  <2> QED
    BY <1>2, <2>1, <2>2, <2>3 DEF Move, OrderlyInv, DriverServesStatus, SoleDriver,
       SweepInv, ServerInv, ScheduleInv, process
<1> QED
  BY <1>1, <1>2, TurnMoves

\* An ending leaves no driver; what it overtook no longer counts, for the
\* session is not active.
LEMMA EndingOrderly ==
    ASSUME OrderlyInv, Ending, TypeOK'
    PROVE  OrderlyInv'
<1>1. FinishStep
  BY EndingFinishes
<1>2. status' \in Terminal /\ driver' = None
  BY <1>1 DEF FinishStep, Finish, Ends, Redirect
<1>3. server # "ready" => zombies' = zombies
  BY <1>1, NoneIsNoDriver DEF FinishStep, Ends, Redirect, Supersede, OrderlyInv, ServerInv, NoRuns
<1>4. status' \notin {"Created", "Provisioning"} /\ status' \notin Active
  BY <1>2, DisjointStatus DEF Terminal
<1> QED
  BY <1>1, <1>2, <1>3, <1>4 DEF FinishStep, Quiet, process, OrderlyInv, DriverServesStatus,
     SoleDriver, SweepInv, ServerInv, ScheduleInv, NoRuns

\* Provisioning starts its drivers one after another, the sandbox poll only
\* after the previous one has returned.
LEMMA ProvisioningOrderly ==
    ASSUME OrderlyInv, Provisioning, TypeOK'
    PROVE  OrderlyInv'
<1>1. CASE Configure
  BY <1>1 DEF Configure, OrderlyInv, DriverServesStatus, SoleDriver, SweepInv, ServerInv,
     ScheduleInv, NoRuns, entity, runs, process
<1>2. status = "Created" => driver = None
  BY DisjointStatus, NoneIsNoDriver DEF OrderlyInv, DriverServesStatus, TypeOK
<1>3. CASE ProvisionWorkspace
  <2>1. CASE status = "Created"
    <3>1. driver' = "provision_workspace" /\ zombies' = zombies
      BY <1>2, <1>3, <2>1, RedirectCounts DEF ProvisionWorkspace, ScheduledStart
    <3>2. server = "ready" /\ "CheckSandboxReady" \notin scheduled'
      BY <1>3, <2>1 DEF ProvisionWorkspace, ScheduledStart, OrderlyInv, ServerInv, ScheduleInv
    <3> QED
      BY <1>3, <2>1, <3>1, <3>2 DEF ProvisionWorkspace, ScheduledStart, OrderlyInv,
         DriverServesStatus, SoleDriver, SweepInv, ServerInv, ScheduleInv, Home, process, Active
  <2>2. CASE status # "Created"
    BY <1>3, <2>2 DEF ProvisionWorkspace, ScheduledStart, OrderlyInv, DriverServesStatus,
       SoleDriver, SweepInv, ServerInv, ScheduleInv, NoRuns, runs, process
  <2> QED
    BY <2>1, <2>2
<1>4. CASE CheckSandboxReady
  <2>1. CASE status = "Provisioning"
    <3>1. driver' = "provision_sandbox" /\ zombies' = zombies
      BY <1>4, <2>1, RedirectCounts DEF CheckSandboxReady, ScheduledStart, OrderlyInv, ScheduleInv
    <3> QED
      BY <1>4, <2>1, <3>1 DEF CheckSandboxReady, ScheduledStart, OrderlyInv,
         DriverServesStatus, SoleDriver, SweepInv, ServerInv, ScheduleInv, Home, process, Active
  <2>2. CASE status # "Provisioning"
    BY <1>4, <2>2 DEF CheckSandboxReady, ScheduledStart, OrderlyInv, DriverServesStatus,
       SoleDriver, SweepInv, ServerInv, ScheduleInv, NoRuns, runs, process
  <2> QED
    BY <2>1, <2>2
<1>5. ASSUME NEW next \in {"provision_sandbox", "restore_workspace"}, ProvisionRequest(next)
      PROVE  OrderlyInv'
  <2>1. status = "Created"
    BY <1>5 DEF ProvisionRequest, Move
  <2>2. driver' = next /\ zombies' = zombies
    BY <1>2, <1>5, <2>1, RedirectCounts DEF ProvisionRequest
  <2> QED
    BY <1>5, <2>1, <2>2 DEF ProvisionRequest, Move, OrderlyInv, DriverServesStatus, SoleDriver,
       SweepInv, ServerInv, ScheduleInv, Home, process, Active
<1>6. CASE Provision \/ Resume
  BY <1>5, <1>6 DEF Provision, Resume
<1>7. CASE ProvisionPending
  <2>1. zombies' = zombies /\ driver' = None /\ server = "ready"
    BY <1>7, OnlyDriverReturns DEF ProvisionPending, Active, Drivers
  <2> QED
    BY <1>7, <2>1 DEF ProvisionPending, OrderlyInv, DriverServesStatus, SoleDriver, SweepInv,
       ServerInv, ScheduleInv, entity, process
<1>8. ASSUME NEW m \in Drivers \ {"notify_approval_needed"},
             Move({"Provisioning"}, "PreparingContext"), Ends(m, "prepare_context")
      PROVE  OrderlyInv'
  <2>1. status = "Provisioning" /\ status' = "PreparingContext"
    BY <1>8 DEF Move
  <2>2. zombies' = zombies /\ driver' = "prepare_context" /\ server = "ready"
    BY <1>8, <2>1, OnlyDriverReturns DEF Active, Drivers
  <2> QED
    BY <1>8, <2>1, <2>2 DEF Move, OrderlyInv, DriverServesStatus, SoleDriver, SweepInv,
       ServerInv, ScheduleInv, Home, process, Active
<1>9. CASE WorkspaceReady \/ SandboxReady
  BY <1>8, <1>9 DEF WorkspaceReady, SandboxReady, Drivers
<1> QED
  BY <1>1, <1>3, <1>4, <1>6, <1>7, <1>9 DEF Provisioning

\* An approval or a plan answer overtakes at most the notification.
LEMMA PeopleOrderly ==
    ASSUME Orderly, OrderlyInv, People, TypeOK'
    PROVE  OrderlyInv'
<1>1. ASSUME NEW next \in Drivers, NEW to \in Working, to = Home[next], Answered(to, next)
      PROVE  OrderlyInv'
  <2>1. status = "WaitingForApproval" /\ server = "ready" /\ status' = to
    BY <1>1 DEF Answered, Move
  <2>2. driver \in {None, "notify_approval_needed"}
    BY <2>1 DEF OrderlyInv, DriverServesStatus, TypeOK, Drivers, Home
  <2>3. /\ driver' = next
        /\ \A m \in Drivers \ {"notify_approval_needed"} : zombies'[m] = zombies[m]
    BY <1>1, <2>2, RedirectCounts DEF Answered
  <2>4. status \in Active /\ status' \notin {"Created", "Provisioning"}
    BY <2>1 DEF Active, Working
  <2> QED
    BY <1>1, <2>1, <2>3, <2>4 DEF Answered, Move, OrderlyInv, DriverServesStatus, SoleDriver,
       SweepInv, ServerInv, ScheduleInv, process
<1>2. CASE ResumeAfterApproval
  BY <1>1, <1>2 DEF ResumeAfterApproval, Drivers, Working, Home
<1>3. CASE ResumeWithPlanApproval \/ ResumeWithPlanChanges
  BY <1>1, <1>3 DEF ResumeWithPlanApproval, ResumeWithPlanChanges, Drivers, Working, Home
<1>4. ASSUME NEW s \in DOMAIN WakeDriver, WakeUp(s)
      PROVE  FALSE
  BY <1>4 DEF WakeUp, Orderly, OrderlyInv
<1> QED
  BY <1>2, <1>3, <1>4 DEF People

\* The sweep runs while nothing else does, so what it starts is alone.
LEMMA SweepingOrderly ==
    ASSUME OrderlyInv, Sweeping, TypeOK'
    PROVE  OrderlyInv'
<1>1. sweep # "none"
  BY DEF Sweeping, SweepReads, SweepSkips, SweepRecoversSession, SweepFailsSession,
     SweepRejected, SweepRecovers, Active, Working
<1>2. NoRuns /\ scheduled = {} /\ server = "starting"
  BY <1>1 DEF OrderlyInv, SweepInv, ServerInv
<1>3. CASE UNCHANGED <<entity, runs, scheduled, wakeUps>>
  BY <1>2, <1>3 DEF Sweeping, SweepReads, SweepSkips, SweepRecoversSession, SweepFailsSession,
     SweepRejected, SweepOver, OrderlyInv, DriverServesStatus, SoleDriver, SweepInv, ServerInv,
     ScheduleInv, NoRuns, entity, runs
<1>4. CASE SweepRecoversSession
  <2>1. driver' = "recover_session" /\ zombies' = zombies
    BY <1>2, <1>4, RedirectCounts DEF SweepRecoversSession, NoRuns
  <2> QED
    BY <1>2, <1>4, <2>1 DEF SweepRecoversSession, SweepOver, OrderlyInv, DriverServesStatus,
       SoleDriver, SweepInv, ServerInv, ScheduleInv, NoRuns, Home
<1>5. CASE SweepFailsSession
  <2>1. driver' = None /\ zombies' = zombies
    BY <1>2, <1>5, RedirectCounts DEF SweepFailsSession, NoRuns
  <2> QED
    BY <1>2, <1>5, <2>1 DEF SweepFailsSession, SweepOver, OrderlyInv, DriverServesStatus,
       SoleDriver, SweepInv, ServerInv, ScheduleInv, NoRuns
<1> QED
  BY <1>3, <1>4, <1>5 DEF Sweeping, SweepReads, SweepSkips, SweepRejected

\* Every step of an orderly server keeps the invariant.
LEMMA OrderlyStep ==
    ASSUME Orderly, OrderlyInv, [Next]_vars
    PROVE  OrderlyInv'
<1>1. TypeOK'
  BY TypeStep DEF OrderlyInv
<1>2. CASE UNCHANGED <<status, driver, zombies, scheduled, server, sweep, wakeUps>>
  BY <1>1, <1>2 DEF OrderlyInv, DriverServesStatus, SoleDriver, SweepInv, ServerInv,
     ScheduleInv, NoRuns
<1>3. AfterTheEnd => UNCHANGED <<status, driver, zombies, scheduled, server, sweep, wakeUps>>
  BY DEF AfterTheEnd, ReplyDelivered, MarkTrajectoryEmitted, TrajectoryEmissionFailed,
     EmissionEnds, RetryTrajectoryEmission, AfterEnd, entity, runs, process
<1>4. UNCHANGED vars => UNCHANGED <<status, driver, zombies, scheduled, server, sweep, wakeUps>>
  BY DEF vars, entity, runs, process
<1>5. ASSUME NEW m \in Drivers, CallbackRejected(m)
      PROVE  OrderlyInv'
  <2>1. driver' \in {driver, None} /\ \A n \in Drivers : zombies[n] = 0 => zombies'[n] = 0
    BY <1>5, NoneIsNoDriver DEF CallbackRejected, EndsAlone, OrderlyInv, TypeOK
  <2> QED
    BY <1>1, <1>5, <2>1 DEF CallbackRejected, OrderlyInv, DriverServesStatus, SoleDriver,
       SweepInv, ServerInv, ScheduleInv, NoRuns, entity, process
<1>6. CASE Crash
  BY <1>1, <1>6 DEF Crash, OrderlyInv, DriverServesStatus, SoleDriver, SweepInv, ServerInv,
     ScheduleInv, NoRuns, entity
<1>7. CASE Restart
  BY <1>1, <1>7 DEF Restart, Orderly, OrderlyInv, DriverServesStatus, SoleDriver, SweepInv,
     ServerInv, ScheduleInv, NoRuns, entity, runs
<1> QED
  BY <1>1, <1>2, <1>3, <1>4, <1>5, <1>6, <1>7, TurnOrderly, EndingOrderly, ProvisioningOrderly,
     PeopleOrderly, SweepingOrderly DEF Next

\* The invariant holds before the first step.
LEMMA OrderlyInit == ASSUME Orderly, Init PROVE OrderlyInv
  BY TypeInit DEF Orderly, Init, OrderlyInv, DriverServesStatus, SoleDriver, SweepInv,
     ServerInv, ScheduleInv, NoRuns, None

\* One driver at a time, and it is the one the session waits for: however
\* callbacks, timeouts, decisions, cancellations, crashes and recoveries
\* interleave, as long as nobody wakes a running session.
THEOREM OneDriver ==
    ASSUME Orderly
    PROVE  Spec => []SoleDriver
<1>1. Init => OrderlyInv
  BY OrderlyInit
<1>2. OrderlyInv /\ [Next]_vars => OrderlyInv'
  BY OrderlyStep
<1> QED
  BY <1>1, <1>2, PTL DEF Spec, OrderlyInv

-----------------------------------------------------------------------------
(***************************************************************************)
(* Superseded invocations do not move the session.                         *)
(***************************************************************************)
Drops(m) == zombies'[m] < zombies[m]

\* Starting a driver from outside ends no invocation.
LEMMA RedirectDropsNone ==
    ASSUME TypeOK, NEW next, Redirect(next), NEW m \in Drivers
    PROVE  ~Drops(m)
<1>1. zombies[m] \in Nat /\ zombies \in [Drivers -> Nat]
  BY DEF TypeOK
<1>2. zombies'[m] \in {zombies[m], zombies[m] + 1}
  BY <1>1 DEF Redirect, Supersede
<1> QED
  BY <1>1, <1>2 DEF Drops

\* The driver's own callback ends no superseded invocation either.
LEMMA DriverDropsNone ==
    ASSUME OrderlyInv, status \in Active, NEW d \in Drivers \ {"notify_approval_needed"},
           NEW next \in Drivers \cup {None}, Ends(d, next), NEW m \in Drivers
    PROVE  ~Drops(m)
  BY OnlyDriverReturns DEF Drops, OrderlyInv, TypeOK

\* A step of an active session in which a superseded invocation returns leaves
\* the status alone or fails the session.
LEMMA ActiveDrops ==
    ASSUME Orderly, OrderlyInv, Next, status \in Active, NEW m \in Drivers, Drops(m),
           server' # "down"
    PROVE  status' \in {status, "Failed"}
<1>1. CASE Turn
  <2>1. CASE ApprovalNotified
    BY <2>1 DEF ApprovalNotified, entity
  <2> QED
    BY <1>1, <2>1, TurnMoves, DriverDropsNone
<1>2. CASE Ending
  <2>1. CASE RecordResult \/ RecordResultNoReply \/ FinalizeResult \/ FinalizeResultNoReply
    BY <2>1, DriverDropsNone DEF RecordResult, RecordResultNoReply, FinalizeResult,
       FinalizeResultNoReply, Drivers
  <2>2. CASE Cancel \/ DecisionDenied
    BY <2>2, RedirectDropsNone DEF Cancel, DecisionDenied, OrderlyInv
  <2>3. CASE (\E d \in Drivers : DriverFailed(d)) \/ (\E s \in Active : StateTimeout(s))
    BY <2>3 DEF DriverFailed, StateTimeout, TimeoutFail, TimeoutWithFail, Finish
  <2> QED
    BY <1>2, <2>1, <2>2, <2>3 DEF Ending
<1>3. CASE Provisioning
  <2>1. CASE WorkspaceReady \/ SandboxReady \/ ProvisionPending
    BY <2>1, DriverDropsNone DEF WorkspaceReady, SandboxReady, ProvisionPending, Drivers
  <2>2. CASE Provision \/ Resume
    BY <2>2, RedirectDropsNone DEF Provision, Resume, ProvisionRequest, OrderlyInv
  <2>3. CASE Configure \/ ProvisionWorkspace \/ CheckSandboxReady
    <3>1. CASE UNCHANGED status
      BY <3>1
    <3> QED
      BY <2>3, <3>1, RedirectDropsNone DEF Configure, ProvisionWorkspace, CheckSandboxReady,
         ScheduledStart, OrderlyInv, entity
  <2> QED
    BY <1>3, <2>1, <2>2, <2>3 DEF Provisioning
<1>4. CASE People
  <2>1. ASSUME NEW s \in DOMAIN WakeDriver, WakeUp(s)
        PROVE  FALSE
    BY <2>1 DEF WakeUp, Orderly, OrderlyInv
  <2> QED
    BY <1>4, <2>1, RedirectDropsNone DEF People, ResumeAfterApproval, ResumeWithPlanApproval,
       ResumeWithPlanChanges, Answered, OrderlyInv
<1>5. CASE Sweeping
  <2>1. CASE UNCHANGED runs
    BY <2>1 DEF Drops, runs, OrderlyInv, TypeOK
  <2> QED
    BY <1>5, <2>1, RedirectDropsNone DEF Sweeping, SweepReads, SweepSkips, SweepRejected,
       SweepRecoversSession, SweepFailsSession, OrderlyInv
<1>6. CASE AfterTheEnd \/ (\E d \in Drivers : CallbackRejected(d)) \/ Restart
  BY <1>6 DEF AfterTheEnd, ReplyDelivered, MarkTrajectoryEmitted, TrajectoryEmissionFailed,
     EmissionEnds, RetryTrajectoryEmission, AfterEnd, CallbackRejected, Restart, entity
<1>7. CASE Crash
  BY <1>7 DEF Crash
<1> QED
  BY <1>1, <1>2, <1>3, <1>4, <1>5, <1>6, <1>7 DEF Next

\* An invocation overtaken by a transition, which the kernel does not
\* interrupt, never moves the session when it returns: at worst it fails it.
THEOREM NoStaleMove ==
    ASSUME Orderly
    PROVE  Spec => NoStaleAdvance
<1>1. Init => OrderlyInv
  BY OrderlyInit
<1>2. OrderlyInv /\ [Next]_vars => OrderlyInv'
  BY OrderlyStep
<1>3. OrderlyInv /\ [Next]_vars =>
        [\A m \in Drivers : zombies'[m] < zombies[m] /\ server' # "down"
            => status' \in {status, "Failed"}]_vars
  <2> SUFFICES ASSUME OrderlyInv, Next, NEW m \in Drivers, Drops(m), server' # "down"
               PROVE  status' \in {status, "Failed"}
    BY DEF Drops
  <2>1. CASE status \in Active
    BY <2>1, ActiveDrops
  <2>2. CASE status \in Terminal
    BY <2>2, StepKinds, NotBoth DEF EndsSession, GoesOn
  <2> QED
    BY <2>1, <2>2 DEF OrderlyInv, TypeOK, Status
<1> QED
  BY <1>1, <1>2, <1>3, PTL DEF Spec, NoStaleAdvance
=============================================================================
