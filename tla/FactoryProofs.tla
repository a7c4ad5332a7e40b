---------------------------- MODULE FactoryProofs ----------------------------
(***************************************************************************)
(* One implementer at a time, and a completion in its favour, for every    *)
(* number of rounds and disturbances.                                      *)
(*                                                                         *)
(* That no run is live once the cycle is judged is not inductive.  What    *)
(* keeps it so is where the two integrations are that move the cycle: a    *)
(* run about to be created finds everything at rest, and a fan-out that    *)
(* did not yet submit the cycle belongs to the latest run, which is done.  *)
(*                                                                         *)
(* And a cycle that nothing disturbs goes from phase to phase, up to its   *)
(* end, without waiting for its clock: the last part of the module.        *)
(***************************************************************************)
EXTENDS Factory, TLAPS

NoneLive == \A n \in Run : worker[n] \notin LiveRun
NoneEarly == \A n \in Run : fan[n] \notin Early

\* A run that an integration is about to create.
Pending(n) == assign[n] = "configure" \/ (lane = "L1" /\ assign[n] = "start")

LatestLives == \A n \in Run : worker[n] \in LiveRun => n = rounds
JudgedAtRest == cycle.status \in Judged => NoneLive
EarlyIsLatest == \A n \in Run : fan[n] \in Early => n = rounds /\ worker[n] = "Done"
SubmittedOnce == cycle.status \in Judged \ {"Testing"} => NoneEarly
CreatedAtRest ==
    \A n \in Assignment :
        Pending(n) => n = rounds + 1 /\ NoneLive /\ NoneEarly /\ cycle.status \notin Judged

Core == LatestLives /\ JudgedAtRest /\ EarlyIsLatest /\ SubmittedOnce /\ CreatedAtRest

-----------------------------------------------------------------------------
(***************************************************************************)
(* Type correctness, by groups of variables.                               *)
(***************************************************************************)
CycleRecord ==
    [status : CycleStates, implementer : 0..RoundLimit, reviewer : 0..RoundLimit,
     evaluation : 0..RoundLimit, proof : 0..RoundLimit, worker_done : BOOLEAN,
     review_passed : BOOLEAN, e2e_ok : BOOLEAN, evaluation_passed : BOOLEAN,
     proof_attached : BOOLEAN, human_completion_approved : BOOLEAN]
CycleOK == cycle \in CycleRecord
WorkOK ==
    /\ rounds \in 0..RoundLimit
    /\ worker \in [Run -> LiveRun \cup {"none", "Done", "Failed", "TimedOut"}]
VerdictsOK ==
    /\ review \in [Run -> OpenReview \cup NotApproved \cup {"none", "Approved"}]
    /\ evaluation \in [Run -> OpenEvaluation \cup {"none", "Passed", "Failed", "Closed"}]
    /\ proof \in [Run -> {"none", "Drafting", "Ready", "Rejected"}]
CodexOK ==
    codex \in [task : {"rest", "run", "review", "evaluation"}, run : 0..RoundLimit,
               at : {"none", "claim", "start", "work", "close"}]
HandoverOK ==
    /\ assign \in [Assignment -> {"idle", "start", "configure", "attach", "fail"}]
    /\ fan \in [Run -> Early \cup {"idle", "submitted", "attachReview", "attachEvaluation"}]
    /\ lost \in [Run -> {"idle", "look", "fail"}]
GateOK == gate \in [Gates -> [at : GatePlaces, evaluation : 0..RoundLimit, proof : 0..RoundLimit]]
RestOK == lane \in Lanes /\ human \in {"idle", "look", "complete"}
TimingOK == timedOut \in BOOLEAN /\ overtaken \in BOOLEAN /\ disturbances \in 0..DisturbanceLimit

\* The type invariant is the conjunction of its parts, now and after a step.
LEMMA TypeParts ==
    /\ TypeOK <=> /\ CycleOK /\ WorkOK /\ VerdictsOK /\ CodexOK
                  /\ HandoverOK /\ GateOK /\ RestOK /\ TimingOK
    /\ TypeOK' <=> /\ CycleOK' /\ WorkOK' /\ VerdictsOK' /\ CodexOK'
                   /\ HandoverOK' /\ GateOK' /\ RestOK' /\ TimingOK'
  BY DEF TypeOK, CycleOK, CycleRecord, WorkOK, VerdictsOK, CodexOK, HandoverOK, GateOK, RestOK, TimingOK

\* Leaving a group of variables alone keeps its part.
LEMMA Unchanged ==
    /\ UNCHANGED cycle => (CycleOK => CycleOK')
    /\ UNCHANGED <<rounds, worker>> => (WorkOK => WorkOK')
    /\ UNCHANGED <<review, evaluation, proof>> => (VerdictsOK => VerdictsOK')
    /\ UNCHANGED codex => (CodexOK => CodexOK')
    /\ UNCHANGED <<assign, fan, lost>> => (HandoverOK => HandoverOK')
    /\ UNCHANGED gate => (GateOK => GateOK')
    /\ UNCHANGED <<lane, human>> => (RestOK => RestOK')
    /\ UNCHANGED <<timedOut, overtaken, disturbances>> => (TimingOK => TimingOK')
  BY DEF CycleOK, WorkOK, VerdictsOK, CodexOK, HandoverOK, GateOK, RestOK, TimingOK

\* An integration that goes on, or ends, stays within its places.
LEMMA GoesType ==
    ASSUME GateOK, NEW g \in Gates, NEW place \in GatePlaces, Goes(g, place)
    PROVE  GateOK'
<1>1. 0 \in 0..RoundLimit /\ "idle" \in GatePlaces
  BY FactoryBounds DEF GatePlaces
<1>2. gate[g] \in [at : GatePlaces, evaluation : 0..RoundLimit, proof : 0..RoundLimit]
  BY DEF GateOK
<1>3. NoGate \in [at : GatePlaces, evaluation : 0..RoundLimit, proof : 0..RoundLimit]
  BY <1>1 DEF NoGate
<1> QED
  BY <1>2, <1>3 DEF GateOK, Goes

\* So does one that starts.
LEMMA StartGateType ==
    ASSUME GateOK, NEW g \in Gates, StartGate(g)
    PROVE  GateOK'
<1>1. "look" \in GatePlaces
  BY DEF GatePlaces
<1> QED
  BY <1>1 DEF GateOK, StartGate

\* What costs a disturbance, or hours, keeps the counters in their bounds.
LEMMA HoursBound ==
    ASSUME TimingOK, AfterJobs \/ HoursPass \/ Overtakes
    PROVE  overtaken' \in BOOLEAN /\ disturbances' \in 0..DisturbanceLimit
<1>1. CASE Disturbs /\ overtaken' \in BOOLEAN
  BY <1>1, FactoryBounds DEF TimingOK, Disturbs
<1>2. CASE UNCHANGED <<disturbances, overtaken>>
  BY <1>2 DEF TimingOK
<1> QED
  BY <1>1, <1>2 DEF TimingOK, AfterJobs, HoursPass, Overtakes

LEMMA HoursType ==
    ASSUME TimingOK, UNCHANGED timedOut, AfterJobs \/ HoursPass \/ Overtakes
    PROVE  TimingOK'
  BY HoursBound DEF TimingOK

\* The parts that the steps of an assignment leave alone are kept.
LEMMA AssignStepType ==
    ASSUME TypeOK, NEW n \in Run, AssignStep(n)
    PROVE  TypeOK'
<1> USE TypeParts, Unchanged
<1>1. n \in Assignment /\ n \in 0..RoundLimit
  BY FactoryBounds DEF Run, Assignment
<1>2. CASE ConfigureRun(n)
  BY <1>1, <1>2 DEF ConfigureRun, Assigns, WorkOK, HandoverOK, LiveRun, steady, timing
<1>3. CASE StartWork(n)
  <2>1. CycleOK'
    BY <1>3 DEF StartWork, CycleOK, CycleRecord, CycleStates
  <2> QED
    BY <1>1, <1>3, <2>1 DEF StartWork, Assigns, HandoverOK, entities, steady, timing
<1>4. CASE AttachWorkerRun(n)
  <2>1. CycleOK'
    BY <1>1, <1>4 DEF AttachWorkerRun, CycleOK, CycleRecord
  <2> QED
    BY <1>1, <1>4, <2>1 DEF AttachWorkerRun, Assigns, HandoverOK, entities, steady, timing
<1> QED
  BY <1>2, <1>3, <1>4 DEF AssignStep

LEMMA FanStepType ==
    ASSUME TypeOK, NEW n \in Run, FanStep(n)
    PROVE  TypeOK'
<1> USE TypeParts, Unchanged
<1>1. n \in 0..RoundLimit
  BY FactoryBounds DEF Run
<1>2. ASSUME NEW at, NEW allowed \in BOOLEAN, NEW changed, NEW next,
             Advances(n, at, allowed, changed, next),
             next \in Early \cup {"idle", "submitted", "attachReview", "attachEvaluation"},
             changed \in CycleRecord
      PROVE  TypeOK'
  <2>1. CycleOK'
    BY <1>2 DEF Advances, CycleOK
  <2>2. HandoverOK'
    BY <1>2 DEF Advances, Fans, HandoverOK
  <2> QED
    BY <1>2, <2>1, <2>2 DEF Advances, entities, steady, timing
<1>3. CASE DraftProof(n)
  BY <1>3 DEF DraftProof, Fans, HandoverOK, VerdictsOK, Early, steady, timing
<1>4. CASE RequestReview(n)
  BY <1>4 DEF RequestReview, Fans, HandoverOK, VerdictsOK, Early, OpenReview, steady, timing
<1>5. CASE QueueEvaluation(n)
  BY <1>5 DEF QueueEvaluation, Fans, HandoverOK, VerdictsOK, Early, OpenEvaluation, steady, timing
<1>6. CASE ReadStatus(n)
  BY <1>6 DEF ReadStatus, NextPost, Fans, HandoverOK, Early, entities, steady, timing
<1>7. CASE WorkerDone(n)
  BY <1>1, <1>2, <1>7 DEF WorkerDone, InStatus, CycleOK, CycleRecord, CycleStates, Early
<1>8. CASE SubmitForReview(n)
  BY <1>1, <1>2, <1>8 DEF SubmitForReview, InStatus, CycleOK, CycleRecord, CycleStates, Early
<1>9. CASE AttachReviewRun(n)
  BY <1>1, <1>2, <1>9 DEF AttachReviewRun, InStatus, CycleOK, CycleRecord, CycleStates, Early
<1>10. CASE AttachEvaluationRun(n)
  BY <1>1, <1>2, <1>10 DEF AttachEvaluationRun, InStatus, CycleOK, CycleRecord, CycleStates, Early
<1> QED
  BY <1>3, <1>4, <1>5, <1>6, <1>7, <1>8, <1>9, <1>10 DEF FanStep

\* A gate's post to the cycle.
LEMMA PostsType ==
    ASSUME TypeOK, NEW g \in Gates, NEW at, NEW allowed \in BOOLEAN, NEW changed \in CycleRecord,
           NEW next \in GatePlaces, Posts(g, at, allowed, changed, next)
    PROVE  TypeOK'
<1> USE TypeParts, Unchanged
<1>1. GateOK'
  <2>1. "idle" \in GatePlaces
    BY DEF GatePlaces
  <2> QED
    BY <2>1, GoesType DEF Posts
<1>2. CycleOK'
  BY DEF Posts, CycleOK
<1> QED
  BY <1>1, <1>2 DEF Posts, entities, steady, timing

LEMMA GateStepType ==
    ASSUME TypeOK, NEW g \in Gates, GateStep(g)
    PROVE  TypeOK'
<1> USE TypeParts, Unchanged
<1> DEFINE Moves == \E place \in GatePlaces : Goes(g, place)
<1>1. g[2] \in Run /\ g[2] \in 0..RoundLimit
  BY FactoryBounds DEF Gates, Run
<1>2. ASSUME Moves, UNCHANGED <<cycle, rounds, entities, codex, assign, fan, lost, human, steady>>
      PROVE  TypeOK'
  BY <1>2, GoesType DEF entities, steady, timing
<1>3. CASE ReadCycle(g)
  <2>1. FirstPlace(g) \in GatePlaces
    BY DEF FirstPlace, AfterSendBack, GatePlaces
  <2> QED
    BY <1>2, <1>3, <2>1 DEF ReadCycle
<1>4. CASE ReadE2e(g)
  BY <1>2, <1>4 DEF ReadE2e, AfterE2e, GatePlaces
<1>5. CASE AwaitE2e(g)
  BY <1>2, <1>5 DEF AwaitE2e, GatePlaces
<1>6. CASE ReportE2e(g)
  BY <1>6, PostsType DEF ReportE2e, AfterE2e, InStatus, CycleOK, CycleRecord, GatePlaces
<1>7. CASE PassReview(g)
  BY <1>1, <1>7, PostsType DEF PassReview, InStatus, CycleOK, CycleRecord, GatePlaces
<1>8. CASE UpdateProof(g)
  BY <1>2, <1>8 DEF UpdateProof, GatePlaces
<1>9. CASE ReadGates(g)
  <2>1. GateOK'
    <3>1. {"passEvaluation", "find", "idle"} \subseteq GatePlaces
      BY DEF GatePlaces
    <3>2. cycle.evaluation \in 0..RoundLimit
      BY DEF CycleOK, CycleRecord
    <3>3. CASE Goes(g, "idle")
      BY <3>1, <3>3, GoesType
    <3>4. ASSUME NEW place \in GatePlaces,
                 gate' = [gate EXCEPT ![g] = [@ EXCEPT !.at = place, !.evaluation = cycle.evaluation]]
          PROVE  GateOK'
      BY <3>2, <3>4 DEF GateOK
    <3> QED
      BY <1>9, <3>1, <3>3, <3>4 DEF ReadGates
  <2> QED
    BY <1>9, <2>1 DEF ReadGates, entities, steady, timing
<1>10. CASE PassEvaluation(g)
  <2>1. gate[g].evaluation \in 0..RoundLimit
    BY DEF GateOK
  <2>2. cycle.review_passed \in BOOLEAN /\ cycle.e2e_ok \in BOOLEAN
    BY DEF CycleOK, CycleRecord
  <2>3. [cycle EXCEPT !.status = "Proving", !.evaluation = gate[g].evaluation,
                      !.evaluation_passed = TRUE] \in CycleRecord
    BY <2>1 DEF CycleOK, CycleRecord, CycleStates
  <2> QED
    BY <1>10, <2>2, <2>3, PostsType DEF PassEvaluation, InStatus, GatePlaces
<1>11. CASE AwaitProving(g)
  BY <1>2, <1>11 DEF AwaitProving, GatePlaces
<1>12. CASE FindProof(g)
  <2>1. FoundProof(g) \in 0..RoundLimit
    BY <1>1 DEF FoundProof, CycleOK, CycleRecord, GateOK
  <2>2. {"mark", "reject"} \subseteq GatePlaces
    BY DEF GatePlaces
  <2>3. GateOK'
    BY <1>12, <2>1, <2>2 DEF FindProof, GateOK
  <2> QED
    BY <1>12, <2>3 DEF FindProof, entities, steady, timing
<1>13. CASE MarkReady(g)
  <2>1. Moves
    BY <1>13 DEF MarkReady, GatePlaces
  <2>2. VerdictsOK'
    BY <1>13 DEF MarkReady, VerdictsOK
  <2> QED
    BY <1>13, <2>1, <2>2, GoesType DEF MarkReady, steady, timing
<1>14. CASE ReadProving(g)
  BY <1>2, <1>14 DEF ReadProving, LastPost, GatePlaces
<1>15. CASE AttachProofPacket(g)
  <2>1. gate[g].proof \in 0..RoundLimit
    BY DEF GateOK
  <2> QED
    BY <1>15, <2>1, PostsType DEF AttachProofPacket, InStatus, CycleOK, CycleRecord, GatePlaces
<1>16. CASE RequestHumanCompletionApproval(g)
  BY <1>16, PostsType
     DEF RequestHumanCompletionApproval, InStatus, CycleOK, CycleRecord, CycleStates, GatePlaces
<1>17. CASE CompleteByGate(g)
  <2>1. GatesPassed \in BOOLEAN
    BY DEF GatesPassed, CycleOK, CycleRecord
  <2>2. [cycle EXCEPT !.status = "Complete"] \in CycleRecord
    BY DEF CycleOK, CycleRecord, CycleStates, Ended
  <2> QED
    BY <1>17, <2>1, <2>2, PostsType DEF CompleteByGate, InStatus, GatePlaces
<1>18. CASE RequestChanges(g)
  <2>1. Moves
    BY <1>18 DEF RequestChanges, AfterSendBack, GatePlaces
  <2>2. CycleOK'
    BY <1>18 DEF RequestChanges, SentBack, CycleOK, CycleRecord, CycleStates
  <2>3. HandoverOK'
    BY <1>18, FactoryBounds DEF RequestChanges, Assigns, HandoverOK, WorkOK, Assignment
  <2> QED
    BY <1>18, <2>1, <2>2, <2>3, GoesType DEF RequestChanges, entities, steady, timing
<1>19. CASE FailCycle(g)
  BY <1>19, PostsType
     DEF FailCycle, CanFail, AfterSendBack, CycleOK, CycleRecord, CycleStates, Ended, GatePlaces
<1>20. CASE CloseObsolete(g)
  <2>1. VerdictsOK'
    BY <1>20 DEF CloseObsolete, VerdictsOK
  <2>2. {"close", "reject", "idle"} \subseteq GatePlaces
    BY DEF GatePlaces
  <2>3. cycle.evaluation \in 0..RoundLimit
    BY DEF CycleOK, CycleRecord
  <2>4. GateOK'
    <3>1. CASE Moves
      BY <3>1, GoesType
    <3>2. ASSUME NEW place \in GatePlaces,
                 gate' = [gate EXCEPT ![g] = [evaluation |-> cycle.evaluation, proof |-> g[2],
                                              at |-> place]]
          PROVE  GateOK'
      BY <1>1, <2>3, <3>2 DEF GateOK
    <3> QED
      BY <1>20, <2>2, <3>1, <3>2 DEF CloseObsolete
  <2> QED
    BY <1>20, <2>1, <2>4 DEF CloseObsolete, steady, timing
<1>21. CASE RejectProof(g)
  <2>1. Moves
    BY <1>21 DEF RejectProof, GatePlaces
  <2>2. VerdictsOK'
    BY <1>21 DEF RejectProof, VerdictsOK
  <2> QED
    BY <1>21, <2>1, <2>2, GoesType DEF RejectProof, steady, timing
<1> QED
  BY <1>3, <1>4, <1>5, <1>6, <1>7, <1>8, <1>9, <1>10, <1>11, <1>12, <1>13, <1>14, <1>15, <1>16,
     <1>17, <1>18, <1>19, <1>20, <1>21 DEF GateStep

LEMMA WorkerStepType ==
    ASSUME TypeOK, WorkerStep
    PROVE  TypeOK'
<1> USE TypeParts, Unchanged
<1>1. Run \subseteq 0..RoundLimit
  BY FactoryBounds DEF Run
<1>2. CodexOK => /\ \A at \in {"none", "claim", "start", "work", "close"} : Turns(at) => CodexOK'
                 /\ Rests => CodexOK'
  BY FactoryBounds DEF CodexOK, Turns, Rests, Resting
<1>3. \A task \in {"run", "review", "evaluation"}, n \in 0..RoundLimit,
        at \in {"none", "claim", "start", "work", "close"} : codex' = Task(task, n, at) => CodexOK'
  BY DEF CodexOK, Task
<1>4. codex.run \in 0..RoundLimit /\ codex.run # 0 => codex.run \in Run
  BY FactoryBounds DEF CodexOK, Run
<1>5. ASSUME NEW n \in Run, PickRun(n) \/ RecoverRun(n) \/ PickReview(n)
      PROVE  TypeOK'
  BY <1>1, <1>3, <1>5 DEF PickRun, RecoverRun, PickReview, entities, jobs, steady, timing
<1>6. ASSUME NEW n \in Run, PickEvaluation(n)
      PROVE  TypeOK'
  <2>1. CodexOK'
    BY <1>1, <1>3, <1>6 DEF PickEvaluation, CycleOK, CycleRecord
  <2>2. TimingOK'
    BY <1>6, HoursType DEF PickEvaluation, TimingOK
  <2> QED
    BY <1>6, <2>1, <2>2 DEF PickEvaluation, entities, jobs
<1>7. CASE ClaimRun \/ StartRun
  <2>1. WorkOK'
    BY <1>7 DEF ClaimRun, StartRun, MovesRun, WorkOK, LiveRun
  <2> QED
    BY <1>2, <1>7, <2>1 DEF ClaimRun, StartRun, MovesRun, jobs, steady, timing
<1>8. CASE ClaimReview \/ StartReview
  <2>1. VerdictsOK'
    BY <1>8 DEF ClaimReview, StartReview, MovesReview, VerdictsOK, OpenReview
  <2> QED
    BY <1>2, <1>8, <2>1 DEF ClaimReview, StartReview, MovesReview, jobs, steady, timing
<1>9. ASSUME NEW done \in BOOLEAN, ReportRun(done)
      PROVE  TypeOK'
  <2>1. WorkOK'
    BY <1>9 DEF ReportRun, WorkOK
  <2>2. HandoverOK'
    BY <1>9 DEF ReportRun, HandoverOK, Early
  <2>3. TimingOK'
    BY <1>9, HoursType DEF ReportRun
  <2> QED
    BY <1>2, <1>9, <2>1, <2>2, <2>3 DEF ReportRun
<1>10. ASSUME NEW verdict \in NotApproved \cup {"Approved"}, ReportReview(verdict)
       PROVE  TypeOK'
  <2>1. VerdictsOK'
    BY <1>10 DEF ReportReview, VerdictsOK
  <2>2. GateOK'
    <3>1. "look" \in GatePlaces
      BY DEF GatePlaces
    <3> QED
      BY <1>10, <3>1 DEF ReportReview, StartGate, GateOK
  <2>3. TimingOK'
    BY <1>10, HoursType DEF ReportReview
  <2> QED
    BY <1>2, <1>10, <2>1, <2>2, <2>3 DEF ReportReview
<1>11. ASSUME NEW verdict \in {"Passed", "Failed"}, ReportEvaluation(verdict)
       PROVE  TypeOK'
  <2>1. VerdictsOK'
    BY <1>11 DEF ReportEvaluation, VerdictsOK
  <2>2. GateOK'
    <3>1. "look" \in GatePlaces
      BY DEF GatePlaces
    <3> QED
      BY <1>11, <3>1 DEF ReportEvaluation, StartGate, GateOK
  <2>3. TimingOK'
    BY <1>11, HoursType DEF ReportEvaluation
  <2> QED
    BY <1>2, <1>11, <2>1, <2>2, <2>3 DEF ReportEvaluation
<1>12. CASE CloseEvaluation \/ StartEvaluation
  <2>1. VerdictsOK'
    BY <1>12 DEF CloseEvaluation, StartEvaluation, VerdictsOK, OpenEvaluation
  <2> QED
    BY <1>2, <1>12, <2>1 DEF CloseEvaluation, StartEvaluation, jobs, steady, timing
<1> QED
  BY <1>5, <1>6, <1>7, <1>8, <1>9, <1>10, <1>11, <1>12 DEF WorkerStep

LEMMA ClockStepType ==
    ASSUME TypeOK, ClockStep
    PROVE  TypeOK'
<1> USE TypeParts, Unchanged
<1>1. ASSUME NEW n \in Run, RunTimesOut(n)
      PROVE  TypeOK'
  <2>1. WorkOK' /\ TimingOK'
    BY <1>1, HoursType DEF RunTimesOut, WorkOK
  <2> QED
    BY <1>1, <2>1 DEF RunTimesOut, jobs
<1>2. ASSUME NEW n \in Run, ReviewTimesOut(n)
      PROVE  TypeOK'
  <2>1. VerdictsOK' /\ TimingOK'
    BY <1>2, HoursType DEF ReviewTimesOut, VerdictsOK, NotApproved
  <2>2. GateOK'
    BY <1>2, StartGateType DEF ReviewTimesOut, Gates
  <2> QED
    BY <1>2, <2>1, <2>2 DEF ReviewTimesOut
<1>3. ASSUME NEW n \in Run, EvaluationTimesOut(n)
      PROVE  TypeOK'
  <2>1. VerdictsOK' /\ TimingOK'
    BY <1>3, HoursType DEF EvaluationTimesOut, VerdictsOK
  <2>2. GateOK'
    BY <1>3, StartGateType DEF EvaluationTimesOut, Gates
  <2> QED
    BY <1>3, <2>1, <2>2 DEF EvaluationTimesOut
<1>4. ASSUME NEW n \in Run, ProofTimesOut(n)
      PROVE  TypeOK'
  <2>1. VerdictsOK' /\ TimingOK'
    BY <1>4, HoursType DEF ProofTimesOut, VerdictsOK
  <2> QED
    BY <1>4, <2>1 DEF ProofTimesOut, jobs
<1>5. CASE CycleTimesOut
  <2>1. CycleOK'
    BY <1>5 DEF CycleTimesOut, Fails, CycleOK, CycleRecord, CycleStates, Ended
  <2>2. timedOut' \in BOOLEAN
    BY <1>5, Zenon DEF CycleTimesOut
  <2>3. TimingOK'
    BY <1>5, <2>2, HoursBound DEF CycleTimesOut, TimingOK
  <2> QED
    BY <1>5, <2>1, <2>3 DEF CycleTimesOut, entities, jobs
<1> QED
  BY <1>1, <1>2, <1>3, <1>4, <1>5 DEF ClockStep

\* What is left: a hand-over that fails, a person's approval, and crashes.
LEMMA OtherStepType ==
    ASSUME TypeOK,
           \/ \E n \in Assignment : AssignmentFailed(n)
           \/ \E n \in Run : HandleFailed(n)
           \/ CompleteByPerson \/ ApproveHumanCompletion \/ ServerCrash \/ WorkerCrash
    PROVE  TypeOK'
<1> USE TypeParts, Unchanged
<1>1. ASSUME NEW n \in Assignment, AssignmentFailed(n)
      PROVE  TypeOK'
  <2>1. CycleOK' /\ HandoverOK'
    BY <1>1 DEF AssignmentFailed, Assigns, Fails, HandoverOK, CycleOK, CycleRecord, CycleStates, Ended
  <2> QED
    BY <1>1, <2>1 DEF AssignmentFailed, entities, steady, timing
<1>2. ASSUME NEW n \in Run, HandleFailed(n)
      PROVE  TypeOK'
  <2>1. CycleOK' /\ HandoverOK'
    BY <1>2 DEF HandleFailed, Fails, HandoverOK, CycleOK, CycleRecord, CycleStates, Ended
  <2> QED
    BY <1>2, <2>1 DEF HandleFailed, entities, steady, timing
<1>3. CASE CompleteByPerson
  <2>1. CycleOK' /\ RestOK'
    BY <1>3 DEF CompleteByPerson, RestOK, CycleOK, CycleRecord, CycleStates, Ended, steady
  <2> QED
    BY <1>3, <2>1 DEF CompleteByPerson, entities, steady, timing
<1>4. CASE ApproveHumanCompletion
  <2>1. CycleOK' /\ RestOK'
    BY <1>4 DEF ApproveHumanCompletion, RestOK, CycleOK, CycleRecord, CycleStates, steady
  <2> QED
    BY <1>4, <2>1 DEF ApproveHumanCompletion, entities, steady, timing
<1>5. CASE ServerCrash
  <2>1. HandoverOK' /\ RestOK'
    BY <1>5 DEF ServerCrash, HandoverOK, RestOK
  <2>2. GateOK'
    BY <1>5, FactoryBounds DEF ServerCrash, NoGate, GateOK, GatePlaces
  <2>3. TimingOK'
    BY <1>5, FactoryBounds DEF ServerCrash, Disturbs, TimingOK
  <2> QED
    BY <1>5, <2>1, <2>2, <2>3 DEF ServerCrash, entities
<1>6. CASE WorkerCrash
  <2>1. CodexOK'
    BY <1>6, FactoryBounds DEF WorkerCrash, Rests, Resting, CodexOK
  <2>2. TimingOK'
    BY <1>6, FactoryBounds DEF WorkerCrash, Disturbs, TimingOK
  <2> QED
    BY <1>6, <2>1, <2>2 DEF WorkerCrash, entities, jobs
<1> QED
  BY <1>1, <1>2, <1>3, <1>4, <1>5, <1>6

\* Every variable keeps its type.
THEOREM TypeCorrect == Spec => []TypeOK
<1>1. Init => TypeOK
  <2> SUFFICES ASSUME Init PROVE TypeOK
    OBVIOUS
  <2>1. CycleOK /\ RestOK
    BY FactoryBounds DEF Init, Planned, CycleOK, CycleRecord, CycleStates, RestOK
  <2>5. 0 \in 0..DisturbanceLimit
    BY FactoryBounds
  <2>6. TimingOK
    BY <2>5, Zenon DEF Init, TimingOK
  <2>4. WorkOK /\ VerdictsOK
    BY FactoryBounds DEF Init, WorkOK, VerdictsOK
  <2>2. CodexOK /\ HandoverOK
    BY FactoryBounds DEF Init, Resting, CodexOK, HandoverOK
  <2>3. GateOK
    BY FactoryBounds DEF Init, NoGate, GateOK, GatePlaces
  <2> QED
    BY <2>1, <2>2, <2>3, <2>4, <2>6, TypeParts
<1>2. TypeOK /\ [Next]_vars => TypeOK'
  <2> SUFFICES ASSUME TypeOK, [Next]_vars PROVE TypeOK'
    OBVIOUS
  <2>1. CASE JobStep
    BY <2>1, AssignStepType, FanStepType, GateStepType, OtherStepType DEF JobStep
  <2>2. CASE UNCHANGED vars
    BY <2>2, TypeParts, Unchanged DEF vars, entities, jobs, steady, timing
  <2> QED
    BY <2>1, <2>2, WorkerStepType, ClockStepType, OtherStepType DEF Next
<1> QED
  BY <1>1, <1>2, PTL DEF Spec

-----------------------------------------------------------------------------
(***************************************************************************)
(* One implementer.                                                        *)
(***************************************************************************)
\* A step that creates, ends or hands over no run keeps the invariant, if it does not
\* bring the cycle further than it was.
LEMMA QuietStep ==
    ASSUME Core, UNCHANGED <<lane, rounds, worker, assign, fan>>,
           cycle'.status \in Judged => cycle.status \in Judged,
           cycle'.status \in Judged \ {"Testing"} => cycle.status \in Judged \ {"Testing"}
    PROVE  Core'
  BY DEF Core, LatestLives, JudgedAtRest, EarlyIsLatest, SubmittedOnce, CreatedAtRest,
         NoneLive, NoneEarly, Pending

LEMMA AssignStepCore ==
    ASSUME TypeOK, Core, NEW n \in Run, AssignStep(n)
    PROVE  Core'
<1> USE DEF Core, LatestLives, JudgedAtRest, EarlyIsLatest, SubmittedOnce, CreatedAtRest,
            NoneLive, NoneEarly, Pending
<1>1. n \in Assignment /\ Run \subseteq Assignment
  BY FactoryBounds DEF Run, Assignment
<1>2. TypeOK => CycleOK /\ WorkOK /\ HandoverOK
  BY TypeParts
<1>3. CASE StartWork(n)
  <2>1. cycle'.status = cycle.status \/ cycle'.status = "InProgress"
    BY <1>2, <1>3 DEF StartWork, CycleOK, CycleRecord
  <2>2. UNCHANGED <<rounds, worker, fan, lane>>
    BY <1>3 DEF StartWork, entities, steady
  <2>3. \A k \in Assignment : Pending(k)' => Pending(k)
    BY <1>1, <1>2, <1>3, <2>2 DEF StartWork, Assigns, HandoverOK
  <2> QED
    BY <2>1, <2>2, <2>3 DEF Judged
<1>4. CASE ConfigureRun(n)
  <2>1. /\ n = rounds + 1 /\ NoneLive /\ NoneEarly /\ cycle.status \notin Judged
        /\ rounds' = n /\ UNCHANGED <<cycle, fan, lane>>
    BY <1>1, <1>4 DEF ConfigureRun, steady
  <2>2. \A k \in Run : worker'[k] \in LiveRun => k = n
    BY <1>2, <1>4, <2>1 DEF ConfigureRun, WorkOK
  <2>3. \A k \in Assignment : ~Pending(k)'
    BY <1>1, <1>2, <1>4, <2>1 DEF ConfigureRun, Assigns, HandoverOK, WorkOK
  <2> QED
    BY <2>1, <2>2, <2>3
<1>5. CASE AttachWorkerRun(n)
  <2>1. UNCHANGED <<rounds, worker, fan, lane>> /\ cycle'.status = cycle.status
    BY <1>2, <1>5 DEF AttachWorkerRun, entities, steady, CycleOK, CycleRecord
  <2>2. \A k \in Assignment : Pending(k)' => Pending(k)
    BY <1>1, <1>2, <1>5, <2>1 DEF AttachWorkerRun, Assigns, HandoverOK
  <2> QED
    BY <2>1, <2>2
<1> QED
  BY <1>3, <1>4, <1>5 DEF AssignStep

LEMMA FanStepCore ==
    ASSUME TypeOK, Core, NEW n \in Run, FanStep(n)
    PROVE  Core'
<1> USE DEF Core, LatestLives, JudgedAtRest, EarlyIsLatest, SubmittedOnce, CreatedAtRest,
            NoneLive, NoneEarly, Pending
<1>1. TypeOK => CycleOK /\ WorkOK /\ HandoverOK
  BY TypeParts
<1>2. Run \subseteq Assignment
  BY FactoryBounds DEF Run, Assignment
<1>3. UNCHANGED <<lane, rounds, worker, assign>>
  BY DEF FanStep, DraftProof, RequestReview, QueueEvaluation, ReadStatus, WorkerDone,
         SubmitForReview, AttachReviewRun, AttachEvaluationRun, Advances, steady, entities
<1>4. \A k \in Run : k # n => fan'[k] = fan[k]
  BY <1>1 DEF FanStep, DraftProof, RequestReview, QueueEvaluation, ReadStatus, WorkerDone,
              SubmitForReview, AttachReviewRun, AttachEvaluationRun, Advances, Fans, HandoverOK
<1>5. fan'[n] \in Early => fan[n] \in Early
  <2>1. CASE DraftProof(n) \/ RequestReview(n) \/ QueueEvaluation(n)
    BY <1>1, <2>1 DEF DraftProof, RequestReview, QueueEvaluation, Fans, HandoverOK, Early
  <2>2. CASE ReadStatus(n)
    BY <1>1, <2>2 DEF ReadStatus, NextPost, Fans, HandoverOK, Early
  <2>3. CASE WorkerDone(n) \/ SubmitForReview(n) \/ AttachReviewRun(n) \/ AttachEvaluationRun(n)
    BY <1>1, <2>3 DEF WorkerDone, SubmitForReview, AttachReviewRun, AttachEvaluationRun,
                      Advances, Fans, HandoverOK, Early
  <2> QED
    BY <2>1, <2>2, <2>3 DEF FanStep
<1>6. CASE WorkerDone(n) /\ cycle'.status = "Testing"
  <2>1. fan[n] \in Early
    BY <1>6 DEF WorkerDone, Advances, Early
  <2>2. NoneLive
    BY <2>1 DEF LiveRun
  <2> QED
    BY <1>2, <1>3, <1>4, <1>5, <1>6, <2>1, <2>2
<1>7. CASE SubmitForReview(n) /\ InStatus("Testing") /\ fan[n] = "submit" /\ fan'[n] = "submitted"
  <2>1. fan[n] \in Early /\ fan'[n] \notin Early
    BY <1>7 DEF Early
  <2>2. cycle.status \in Judged
    BY <1>7 DEF InStatus, Judged
  <2> QED
    BY <1>2, <1>3, <1>4, <1>7, <2>1, <2>2
<1>8. CASE cycle'.status = cycle.status
  BY <1>2, <1>3, <1>4, <1>5, <1>8
<1>9. \/ cycle'.status = cycle.status
      \/ WorkerDone(n) /\ cycle'.status = "Testing"
      \/ SubmitForReview(n) /\ InStatus("Testing") /\ fan[n] = "submit" /\ fan'[n] = "submitted"
  <2>1. CASE DraftProof(n) \/ RequestReview(n) \/ QueueEvaluation(n) \/ ReadStatus(n)
    BY <2>1 DEF DraftProof, RequestReview, QueueEvaluation, ReadStatus
  <2>2. CASE WorkerDone(n)
    BY <1>1, <2>2 DEF WorkerDone, Advances, CycleOK, CycleRecord
  <2>3. CASE SubmitForReview(n)
    BY <1>1, <2>3 DEF SubmitForReview, Advances, Fans, HandoverOK, CycleOK, CycleRecord
  <2>4. CASE AttachReviewRun(n) \/ AttachEvaluationRun(n)
    BY <1>1, <2>4 DEF AttachReviewRun, AttachEvaluationRun, Advances, CycleOK, CycleRecord
  <2> QED
    BY <2>1, <2>2, <2>3, <2>4 DEF FanStep
<1> QED
  BY <1>6, <1>7, <1>8, <1>9

LEMMA GateStepCore ==
    ASSUME TypeOK, Core, NEW g \in Gates, GateStep(g)
    PROVE  Core'
<1>1. TypeOK => CycleOK /\ WorkOK /\ HandoverOK
  BY TypeParts
<1>2. CASE RequestChanges(g)
  <2> USE DEF Core, LatestLives, JudgedAtRest, EarlyIsLatest, SubmittedOnce, CreatedAtRest,
              NoneLive, NoneEarly, Pending
  <2>1. UNCHANGED <<lane, rounds, worker, fan>>
    BY <1>2 DEF RequestChanges, entities, steady
  <2>2. CASE InStatus("Reviewing")
    <3>1. NoneLive /\ NoneEarly
      BY <2>2 DEF InStatus, Judged
    <3>2. cycle'.status = "InProgress" /\ cycle'.status \notin Judged
      <4>1. cycle' = SentBack
        BY <1>2, <2>2 DEF RequestChanges
      <4>2. SentBack.status = "InProgress"
        BY <1>1 DEF SentBack, CycleOK, CycleRecord
      <4> QED
        BY <4>1, <4>2 DEF Judged
    <3>3. \A k \in Assignment : Pending(k)' => k = rounds + 1 \/ Pending(k)
      BY <1>1, <1>2, <2>1, <2>2 DEF RequestChanges, Assigns, HandoverOK
    <3> QED
      BY <2>1, <3>1, <3>2, <3>3
  <2>3. CASE ~InStatus("Reviewing")
    BY <1>2, <2>1, <2>3, QuietStep DEF RequestChanges
  <2> QED
    BY <2>2, <2>3
<1>3. CASE ~RequestChanges(g)
  <2>1. UNCHANGED <<lane, rounds, worker, assign, fan>>
    BY <1>3 DEF GateStep, ReadCycle, ReadE2e, AwaitE2e, ReportE2e, PassReview, UpdateProof, ReadGates,
         PassEvaluation, AwaitProving, FindProof, MarkReady, ReadProving, AttachProofPacket,
         RequestHumanCompletionApproval, CompleteByGate, FailCycle, CloseObsolete, RejectProof,
         Posts, entities, steady
  <2>2. \/ cycle'.status = cycle.status \/ cycle'.status = "Failed"
        \/ cycle.status = "Reviewing" /\ cycle'.status = "Proving"
        \/ cycle.status = "Proving" /\ cycle'.status \in {"AwaitingHumanCompletionApproval", "Complete"}
    <3>1. CASE \/ ReadCycle(g) \/ ReadE2e(g) \/ AwaitE2e(g) \/ UpdateProof(g) \/ ReadGates(g)
               \/ AwaitProving(g) \/ FindProof(g) \/ MarkReady(g) \/ ReadProving(g)
               \/ CloseObsolete(g) \/ RejectProof(g)
      BY <3>1 DEF ReadCycle, ReadE2e, AwaitE2e, UpdateProof, ReadGates, AwaitProving, FindProof,
                  MarkReady, ReadProving, CloseObsolete, RejectProof
    <3>2. CASE ReportE2e(g) \/ PassReview(g) \/ AttachProofPacket(g) \/ FailCycle(g)
      BY <1>1, <3>2 DEF ReportE2e, PassReview, AttachProofPacket, FailCycle, Posts, CycleOK, CycleRecord
    <3>3. CASE PassEvaluation(g)
      BY <1>1, <3>3 DEF PassEvaluation, Posts, InStatus, CycleOK, CycleRecord
    <3>4. CASE RequestHumanCompletionApproval(g) \/ CompleteByGate(g)
      BY <1>1, <3>4
         DEF RequestHumanCompletionApproval, CompleteByGate, Posts, InStatus, CycleOK, CycleRecord
    <3> QED
      BY <1>3, <3>1, <3>2, <3>3, <3>4 DEF GateStep
  <2>3. cycle'.status \in Judged => cycle.status \in Judged
    BY <2>2 DEF Judged
  <2>4. cycle'.status \in Judged \ {"Testing"} => cycle.status \in Judged \ {"Testing"}
    BY <2>2 DEF Judged
  <2> QED
    BY <2>1, <2>3, <2>4, QuietStep
<1> QED
  BY <1>2, <1>3

LEMMA WorkerStepCore ==
    ASSUME TypeOK, Core, WorkerStep
    PROVE  Core'
<1> USE DEF Core, LatestLives, JudgedAtRest, EarlyIsLatest, SubmittedOnce, CreatedAtRest,
            NoneLive, NoneEarly, Pending
<1>1. TypeOK => WorkOK /\ HandoverOK /\ CodexOK
  BY TypeParts
<1>2. UNCHANGED <<cycle, lane, rounds, assign>>
  BY DEF WorkerStep, PickRun, RecoverRun, PickReview, PickEvaluation, ClaimRun, StartRun, MovesRun,
         ReportRun, ClaimReview, StartReview, MovesReview, ReportReview, CloseEvaluation,
         StartEvaluation, ReportEvaluation, jobs, steady
<1>3. CASE UNCHANGED <<worker, fan>>
  BY <1>2, <1>3, QuietStep
<1>4. CASE ClaimRun \/ StartRun
  <2>1. UNCHANGED fan
    BY <1>4 DEF ClaimRun, StartRun, MovesRun, jobs
  <2>2. \A k \in Run : worker'[k] = worker[k] \/ (worker[k] \in LiveRun /\ worker'[k] \in LiveRun)
    BY <1>1, <1>4 DEF ClaimRun, StartRun, MovesRun, WorkOK, LiveRun
  <2>3. "Done" \notin LiveRun
    BY DEF LiveRun
  <2> QED
    BY <1>2, <2>1, <2>2, <2>3
<1>5. ASSUME NEW done \in BOOLEAN, ReportRun(done), ~UNCHANGED <<worker, fan>>
      PROVE  Core'
  <2> DEFINE n == codex.run
  <2>1. worker[n] = "Running"
    BY <1>5 DEF ReportRun
  <2>2. CASE n \in Run
    <3>1. worker[n] \in LiveRun /\ n = rounds
      BY <2>1, <2>2 DEF LiveRun
    <3>2. NoneEarly /\ cycle.status \notin Judged /\ \A k \in Assignment : ~Pending(k)
      BY <2>1, <2>2, <3>1
    <3>3. \A k \in Run : worker'[k] \notin LiveRun
      <4>1. \A k \in Run \ {n} : worker'[k] = worker[k]
        BY <1>1, <1>5 DEF ReportRun, WorkOK
      <4>2. worker'[n] \notin LiveRun
        BY <1>1, <1>5, <2>1, <2>2 DEF ReportRun, WorkOK, LiveRun
      <4> QED
        BY <3>1, <4>1, <4>2
    <3>4. \A k \in Run : fan'[k] \in Early => k = n /\ worker'[n] = "Done"
      BY <1>1, <1>5, <2>1, <2>2, <3>2 DEF ReportRun, WorkOK, HandoverOK
    <3> QED
      BY <1>2, <3>1, <3>2, <3>3, <3>4
  <2>3. CASE n \notin Run
    <3>1. UNCHANGED <<worker, fan>>
      BY <1>1, <1>5, <2>3 DEF ReportRun, WorkOK, HandoverOK
    <3> QED
      BY <1>5, <3>1
  <2> QED
    BY <2>2, <2>3
<1>6. ASSUME \A done \in BOOLEAN : ~ReportRun(done), ~ClaimRun, ~StartRun
      PROVE  UNCHANGED <<worker, fan>>
  BY <1>6 DEF WorkerStep, PickRun, RecoverRun, PickReview, PickEvaluation, ClaimReview, StartReview,
         MovesReview, ReportReview, CloseEvaluation, StartEvaluation, ReportEvaluation, entities, jobs
<1> QED
  BY <1>3, <1>4, <1>5, <1>6

LEMMA OtherStepCore ==
    ASSUME TypeOK, Core,
           \/ ClockStep \/ \E n \in Assignment : AssignmentFailed(n)
           \/ \E n \in Run : HandleFailed(n)
           \/ CompleteByPerson \/ ApproveHumanCompletion \/ ServerCrash \/ WorkerCrash
    PROVE  Core'
<1>1. TypeOK => CycleOK /\ WorkOK /\ HandoverOK
  BY TypeParts
<1>2. /\ "Failed" \notin Judged
      /\ {"Proving", "Complete", "AwaitingHumanCompletionApproval"} \subseteq Judged \ {"Testing"}
  BY DEF Judged
<1>3. ASSUME NEW n \in Run, RunTimesOut(n)
      PROVE  Core'
  <2>1. UNCHANGED <<cycle, lane, rounds, assign, fan>> /\ worker[n] \in LiveRun
    BY <1>3 DEF RunTimesOut, jobs
  <2>2. \A k \in Run : worker'[k] = (IF k = n THEN "TimedOut" ELSE worker[k])
    BY <1>1, <1>3 DEF RunTimesOut, WorkOK
  <2>3. "TimedOut" \notin LiveRun /\ "Done" \notin LiveRun
    BY DEF LiveRun
  <2> QED
    BY <2>1, <2>2, <2>3 DEF Core, LatestLives, JudgedAtRest, EarlyIsLatest, SubmittedOnce,
                            CreatedAtRest, NoneLive, NoneEarly, Pending
<1>4. ASSUME NEW n \in Run, ReviewTimesOut(n) \/ EvaluationTimesOut(n) \/ ProofTimesOut(n)
      PROVE  Core'
  <2>1. UNCHANGED <<cycle, lane, rounds, worker, assign, fan>>
    BY <1>4 DEF ReviewTimesOut, EvaluationTimesOut, ProofTimesOut, jobs
  <2> QED
    BY <2>1, QuietStep
<1>5. CASE CycleTimesOut
  <2>1. UNCHANGED <<lane, rounds, worker, assign, fan>> /\ cycle'.status = "Failed"
    BY <1>1, <1>5 DEF CycleTimesOut, Fails, CycleOK, CycleRecord, entities, jobs
  <2> QED
    BY <1>2, <2>1, QuietStep
<1>6. ASSUME NEW n \in Assignment, AssignmentFailed(n)
      PROVE  Core'
  <2>1. UNCHANGED <<lane, rounds, worker, fan>>
    BY <1>6 DEF AssignmentFailed, entities, steady
  <2>2. cycle'.status = cycle.status \/ cycle'.status = "Failed"
    BY <1>1, <1>6 DEF AssignmentFailed, Fails, CycleOK, CycleRecord
  <2>3. \A k \in Assignment : Pending(k)' => Pending(k)
    BY <1>1, <1>6, <2>1 DEF AssignmentFailed, Assigns, HandoverOK, Pending
  <2> QED
    BY <1>2, <2>1, <2>2, <2>3 DEF Core, LatestLives, JudgedAtRest, EarlyIsLatest, SubmittedOnce,
                                  CreatedAtRest, NoneLive, NoneEarly
<1>7. ASSUME NEW n \in Run, HandleFailed(n)
      PROVE  Core'
  <2>1. UNCHANGED <<lane, rounds, worker, assign, fan>>
    BY <1>7 DEF HandleFailed, entities, steady
  <2>2. cycle'.status = cycle.status \/ cycle'.status = "Failed"
    BY <1>1, <1>7 DEF HandleFailed, Fails, CycleOK, CycleRecord
  <2> QED
    BY <1>2, <2>1, <2>2, QuietStep
<1>8. CASE CompleteByPerson \/ ApproveHumanCompletion
  <2>1. UNCHANGED <<lane, rounds, worker, assign, fan>>
    BY <1>8 DEF CompleteByPerson, ApproveHumanCompletion, entities, steady
  <2>2. \/ cycle'.status = cycle.status
        \/ /\ cycle.status \in {"Proving", "AwaitingHumanCompletionApproval"}
           /\ cycle'.status \in {"Proving", "Complete"}
    BY <1>1, <1>8 DEF CompleteByPerson, ApproveHumanCompletion, InStatus, CycleOK, CycleRecord
  <2> QED
    BY <1>2, <2>1, <2>2, QuietStep
<1>9. CASE ServerCrash
  <2>1. UNCHANGED <<cycle, lane, rounds, worker>>
    BY <1>9 DEF ServerCrash, entities
  <2>2. (\A k \in Run : fan'[k] \notin Early) /\ \A k \in Assignment : ~Pending(k)'
    BY <1>9 DEF ServerCrash, Early, Pending
  <2> QED
    BY <2>1, <2>2 DEF Core, LatestLives, JudgedAtRest, EarlyIsLatest, SubmittedOnce,
                      CreatedAtRest, NoneLive, NoneEarly
<1>10. CASE WorkerCrash
  <2>1. UNCHANGED <<cycle, lane, rounds, worker, assign, fan>>
    BY <1>10 DEF WorkerCrash, entities, jobs
  <2> QED
    BY <2>1, QuietStep
<1> QED
  BY <1>3, <1>4, <1>5, <1>6, <1>7, <1>8, <1>9, <1>10 DEF ClockStep

\* The facts that keep it so hold in every reachable state.
LEMMA CoreAlways == Spec => []Core
<1>1. Init => Core
  <2> SUFFICES ASSUME Init PROVE Core
    OBVIOUS
  <2>1. NoneLive /\ NoneEarly /\ cycle.status \notin Judged
    BY DEF Init, Planned, NoneLive, NoneEarly, LiveRun, Early, Judged
  <2>2. \A n \in Assignment : Pending(n) => n = rounds + 1
    BY FactoryBounds DEF Init, Pending, Assignment
  <2> QED
    BY <2>1, <2>2 DEF Core, LatestLives, JudgedAtRest, EarlyIsLatest, SubmittedOnce, CreatedAtRest,
                      NoneLive, NoneEarly
<1>2. TypeOK /\ Core /\ [Next]_vars => Core'
  <2> SUFFICES ASSUME TypeOK, Core, [Next]_vars PROVE Core'
    OBVIOUS
  <2>1. CASE JobStep
    BY <2>1, AssignStepCore, FanStepCore, GateStepCore, OtherStepCore DEF JobStep
  <2>2. CASE UNCHANGED vars
    BY <2>2, QuietStep DEF vars, entities, jobs, steady
  <2> QED
    BY <2>1, <2>2, WorkerStepCore, OtherStepCore DEF Next
<1> QED
  BY <1>1, <1>2, TypeCorrect, PTL DEF Spec

\* However many rounds, crashes and late clocks: one implementer at a time, and none
\* that still works on what is being judged.
THEOREM ImplementsAlone == Spec => []OneImplementer
<1>1. Core => OneImplementer
  BY DEF Core, LatestLives, JudgedAtRest, NoneLive, OneImplementer
<1> QED
  BY <1>1, CoreAlways, PTL

-----------------------------------------------------------------------------
(***************************************************************************)
(* What the gates judge.                                                   *)
(*                                                                         *)
(* That a cycle completes in favour of its latest run rests on facts that  *)
(* hold whatever goes wrong (a verdict stands, a run is judged only after  *)
(* it was handed over, a gate carries the verdict it was started for), and *)
(* on the order of things as long as nothing slow overtakes something      *)
(* quick: a fan-out has the cycle for itself, so the review is attached    *)
(* before the evaluation, and an evaluation that is closed as obsolete was *)
(* closed because of the review of its own run.                            *)
(***************************************************************************)
Concluded == NotApproved \cup {"Approved"}
Settled == {"Passed", "Failed", "Closed"}
Passing == {"Proving", "AwaitingHumanCompletionApproval", "Complete"}
Unjudged == {"Planned", "InProgress", "Testing"}

\* A run is reviewed and evaluated after it is done, and asked for in this order.
DoneBeforeJudged ==
    \A n \in Run :
        /\ worker[n] # "Done" => review[n] = "none" /\ evaluation[n] = "none" /\ fan[n] = "idle"
        /\ n > rounds => worker[n] = "none"
        /\ fan[n] \in {"draft", "request"} => review[n] = "none"
        /\ fan[n] \in {"draft", "request", "queue"} => evaluation[n] = "none"

\* Where a gate goes with the verdict it was started for.
GateInFavour(g) ==
    /\ g[1] = "review" /\ gate[g].at \in {"e2e", "reportE2e", "passReview"} => review[g[2]] = "Approved"
    /\ g[1] = "evaluation" => gate[g].at \notin {"passReview", "verdict", "attachDraft"}
    /\ g[1] = "evaluation" /\ gate[g].at \in {"e2e", "reportE2e", "awaitE2e", "ready", "passEvaluation"}
       => evaluation[g[2]] = "Passed"
    /\ gate[g].at = "passEvaluation" => gate[g].evaluation \in Run /\ evaluation[gate[g].evaluation] = "Passed"
GatesInFavour == \A g \in Gates : GateInFavour(g)

EvaluationCounts == cycle.status \in Passing => cycle.evaluation \in Run /\ evaluation[cycle.evaluation] = "Passed"
LatestIsJudged == cycle.status \in Judged => cycle.implementer = rounds
PassedLater == cycle.status \in Unjudged => cycle.review_passed = FALSE

Standing == DoneBeforeJudged /\ GatesInFavour /\ EvaluationCounts /\ LatestIsJudged /\ PassedLater

\* While a fan-out goes on, no other integration does.
FanAlone(n) ==
    fan[n] # "idle" =>
        /\ n = rounds /\ \A g \in Gates : gate[g].at = "idle"
        /\ \A k \in Assignment : assign[k] = "idle"
        /\ cycle.status = "Reviewing" => cycle.review_passed = FALSE
        /\ cycle.status = "Reviewing" /\ fan[n] = "attachEvaluation" => cycle.reviewer = n
        /\ evaluation[n] # "Closed" /\ (codex.task = "evaluation" => codex.run # n)
FansAlone == \A n \in Run : FanAlone(n)

\* An evaluation is made obsolete when the cycle has left its review.
ObsoleteLater == \A g \in Gates : gate[g].at \in {"obsolete", "close"} => cycle.status # "Reviewing"
ReviewCounts ==
    cycle.review_passed = TRUE /\ cycle.status \in Passing \cup {"Reviewing"} =>
        cycle.reviewer \in Run /\ review[cycle.reviewer] = "Approved"
AttachedIsDone ==
    cycle.status \in Unjudged \cup {"Reviewing"} /\ cycle.evaluation \in Run =>
        fan[cycle.evaluation] = "idle" /\ worker[cycle.evaluation] = "Done"
ReviewerIsLatest ==
    cycle.status = "Reviewing" /\ cycle.evaluation = rounds /\ cycle.review_passed = FALSE =>
        cycle.reviewer = rounds
ClosedByReview ==
    cycle.status = "Reviewing" /\ cycle.evaluation = rounds /\ rounds \in Run
        /\ (evaluation[rounds] = "Closed"
            \/ (codex.task = "evaluation" /\ codex.at = "close" /\ codex.run = rounds))
    => review[rounds] \in NotApproved

InOrder ==
    FansAlone /\ ObsoleteLater /\ ReviewCounts /\ AttachedIsDone /\ ReviewerIsLatest /\ ClosedByReview

Judging == Standing /\ (~overtaken => InOrder)

\* What a step may change of the verdicts.
VerdictsKept ==
    /\ \A n \in Run : review[n] \in Concluded => review'[n] = review[n]
    /\ \A n \in Run : evaluation[n] \in Settled => evaluation'[n] = evaluation[n]

\* The parts of the invariant, now and after a step.
LEMMA JudgingParts ==
    /\ Judging <=> /\ DoneBeforeJudged /\ GatesInFavour /\ EvaluationCounts /\ LatestIsJudged /\ PassedLater
                   /\ ~overtaken => /\ FansAlone /\ ObsoleteLater /\ ReviewCounts /\ AttachedIsDone
                                    /\ ReviewerIsLatest /\ ClosedByReview
    /\ Judging' <=> /\ DoneBeforeJudged' /\ GatesInFavour' /\ EvaluationCounts' /\ LatestIsJudged'
                    /\ PassedLater'
                    /\ ~overtaken' => /\ FansAlone' /\ ObsoleteLater' /\ ReviewCounts' /\ AttachedIsDone'
                                      /\ ReviewerIsLatest' /\ ClosedByReview'
  BY DEF Judging, Standing, InOrder

\* A post to the cycle changes one of these, and none but the cycle's status leads to it.
SameJudged == UNCHANGED <<cycle.implementer, cycle.reviewer, cycle.evaluation>>
SamePassed == cycle'.review_passed = cycle.review_passed
GateEffect(g) ==
    \/ UNCHANGED cycle.status /\ SameJudged /\ SamePassed
    \/ /\ gate[g].at = "passReview" /\ cycle.status = "Reviewing" /\ UNCHANGED cycle.status
       /\ cycle'.reviewer = g[2] /\ cycle'.review_passed = TRUE
       /\ UNCHANGED <<cycle.implementer, cycle.evaluation>>
    \/ /\ gate[g].at = "passEvaluation" /\ cycle.status = "Reviewing" /\ cycle'.status = "Proving"
       /\ cycle.review_passed = TRUE /\ cycle'.evaluation = gate[g].evaluation
       /\ SamePassed /\ UNCHANGED <<cycle.implementer, cycle.reviewer>>
    \/ /\ cycle.status = "Proving" /\ cycle'.status \in Passing /\ SameJudged /\ SamePassed
    \/ /\ cycle.status = "Reviewing" /\ cycle'.status = "InProgress" /\ SameJudged
       /\ cycle'.review_passed = FALSE
    \/ cycle'.status = "Failed" /\ SameJudged /\ SamePassed

LEMMA GateStepEffect ==
    ASSUME TypeOK, NEW g \in Gates, GateStep(g)
    PROVE  GateEffect(g)
<1> USE DEF GateEffect, SameJudged, SamePassed
<1>1. CycleOK
  BY TypeParts
<1>2. CASE \/ ReadCycle(g) \/ ReadE2e(g) \/ AwaitE2e(g) \/ UpdateProof(g) \/ ReadGates(g)
           \/ AwaitProving(g) \/ FindProof(g) \/ MarkReady(g) \/ ReadProving(g)
           \/ CloseObsolete(g) \/ RejectProof(g)
  <2>1. UNCHANGED cycle
    BY <1>2 DEF ReadCycle, ReadE2e, AwaitE2e, UpdateProof, ReadGates, AwaitProving, FindProof,
                MarkReady, ReadProving, CloseObsolete, RejectProof
  <2> QED
    BY <2>1
<1>3. CASE ReportE2e(g) \/ AttachProofPacket(g)
  BY <1>1, <1>3 DEF ReportE2e, AttachProofPacket, Posts, CycleOK, CycleRecord
<1>4. CASE PassReview(g)
  BY <1>1, <1>4 DEF PassReview, Posts, At, InStatus, CycleOK, CycleRecord
<1>5. CASE PassEvaluation(g)
  <2>1. CASE UNCHANGED cycle
    BY <2>1
  <2>2. CASE cycle' # cycle
    <3>1. /\ gate[g].at = "passEvaluation" /\ cycle.status = "Reviewing" /\ cycle.review_passed
          /\ cycle' = [cycle EXCEPT !.status = "Proving", !.evaluation = gate[g].evaluation,
                                    !.evaluation_passed = TRUE]
      BY <1>5, <2>2 DEF PassEvaluation, Posts, At, InStatus
    <3>2. cycle.review_passed = TRUE
      BY <1>1, <3>1 DEF CycleOK, CycleRecord
    <3> QED
      BY <1>1, <3>1, <3>2 DEF CycleOK, CycleRecord
  <2> QED
    BY <2>1, <2>2
<1>6. CASE RequestHumanCompletionApproval(g) \/ CompleteByGate(g)
  BY <1>1, <1>6 DEF RequestHumanCompletionApproval, CompleteByGate, Posts, InStatus, Passing,
                    CycleOK, CycleRecord
<1>7. CASE RequestChanges(g)
  <2>1. CASE UNCHANGED cycle
    BY <2>1
  <2>2. CASE cycle' # cycle
    BY <1>1, <1>7, <2>2 DEF RequestChanges, InStatus, SentBack, CycleOK, CycleRecord
  <2> QED
    BY <2>1, <2>2
<1>8. CASE FailCycle(g)
  BY <1>1, <1>8 DEF FailCycle, Posts, CycleOK, CycleRecord
<1> QED
  BY <1>2, <1>3, <1>4, <1>5, <1>6, <1>7, <1>8 DEF GateStep

\* What no gate touches, and what it may do to an evaluation.
LEMMA GateStepFrame ==
    ASSUME TypeOK, NEW g \in Gates, GateStep(g)
    PROVE  /\ UNCHANGED <<rounds, worker, review, codex, fan, lane, overtaken>>
           /\ gate[g].at # "idle" /\ \A h \in Gates : h # g => gate'[h] = gate[h]
           /\ \A n \in Run : evaluation[n] \in Settled \cup {"none"} => evaluation'[n] = evaluation[n]
           /\ \A n \in Run : evaluation'[n] = "Closed" => evaluation[n] = "Closed" \/ gate[g].at = "close"
<1>1. VerdictsOK /\ GateOK
  BY TypeParts
<1>2. UNCHANGED <<rounds, worker, review, codex, fan, lane, overtaken>>
  BY DEF GateStep, ReadCycle, ReadE2e, AwaitE2e, ReportE2e, PassReview, UpdateProof, ReadGates,
         PassEvaluation, AwaitProving, FindProof, MarkReady, ReadProving, AttachProofPacket,
         RequestHumanCompletionApproval, CompleteByGate, RequestChanges, FailCycle, CloseObsolete,
         RejectProof, Posts, entities, steady, timing
<1>3. gate[g].at # "idle"
  BY DEF GateStep, ReadCycle, ReadE2e, AwaitE2e, ReportE2e, PassReview, UpdateProof, ReadGates,
         PassEvaluation, AwaitProving, FindProof, MarkReady, ReadProving, AttachProofPacket,
         RequestHumanCompletionApproval, CompleteByGate, RequestChanges, FailCycle, CloseObsolete,
         RejectProof, Posts, At
<1>4. \A h \in Gates : h # g => gate'[h] = gate[h]
  BY <1>1 DEF GateStep, ReadCycle, ReadE2e, AwaitE2e, ReportE2e, PassReview, UpdateProof, ReadGates,
         PassEvaluation, AwaitProving, FindProof, MarkReady, ReadProving, AttachProofPacket,
         RequestHumanCompletionApproval, CompleteByGate, RequestChanges, FailCycle, CloseObsolete,
         RejectProof, Posts, Goes, GateOK
<1>5. CASE CloseObsolete(g)
  <2>1. \A n \in Run : evaluation'[n] = evaluation[n]
                       \/ (gate[g].at = "close" /\ evaluation[n] \in OpenEvaluation)
    BY <1>1, <1>5 DEF CloseObsolete, VerdictsOK, At
  <2> QED
    BY <1>2, <1>3, <1>4, <2>1 DEF OpenEvaluation, Settled
<1>6. CASE ~CloseObsolete(g)
  <2>1. UNCHANGED evaluation
    BY <1>6 DEF GateStep, ReadCycle, ReadE2e, AwaitE2e, ReportE2e, PassReview, UpdateProof, ReadGates,
         PassEvaluation, AwaitProving, FindProof, MarkReady, ReadProving, AttachProofPacket,
         RequestHumanCompletionApproval, CompleteByGate, RequestChanges, FailCycle,
         RejectProof, Posts, entities
  <2> QED
    BY <1>2, <1>3, <1>4, <2>1
<1> QED
  BY <1>5, <1>6

\* A gate goes on in favour of a run only with the verdict for it.
LEMMA GateStepInFavour ==
    ASSUME TypeOK, Judging, NEW g \in Gates, GateStep(g)
    PROVE  GatesInFavour'
<1> USE DEF GateInFavour
<1>1. VerdictsOK /\ GateOK /\ CycleOK
  BY TypeParts
<1>2. GateInFavour(g) /\ \A h \in Gates : GateInFavour(h)
  BY JudgingParts DEF GatesInFavour
<1>3. /\ \A n \in Run : evaluation[n] = "Passed" => evaluation'[n] = "Passed"
      /\ UNCHANGED review /\ \A h \in Gates : h # g => gate'[h] = gate[h]
  BY GateStepFrame DEF Settled
<1>4. /\ g[1] \in {"review", "evaluation"} /\ g[2] \in Run
      /\ \A h \in Gates : h[2] \in Run
  BY DEF Gates
<1>19. ASSUME NEW h \in Gates, h # g
       PROVE  GateInFavour(h)'
  <2>1. GateInFavour(h) /\ gate'[h] = gate[h] /\ h[2] \in Run
    BY <1>2, <1>3, <1>4, <1>19
  <2> QED
    BY <1>3, <2>1
<1> SUFFICES GateInFavour(g)'
  BY <1>19 DEF GatesInFavour
<1>5. \A place \in GatePlaces : Goes(g, place) => gate'[g] = IF place = "idle" THEN NoGate ELSE [gate[g] EXCEPT !.at = place]
  BY <1>1 DEF Goes, GateOK
<1>6. NoGate.at = "idle" /\ \A place \in GatePlaces : [gate[g] EXCEPT !.at = place].at = place
  BY <1>1 DEF NoGate, GateOK
<1>7. \A place \in GatePlaces : Goes(g, place) => gate'[g].at = place
  BY <1>5, <1>6
<1>8. ASSUME NEW place \in GatePlaces, Goes(g, place), place \notin {"e2e", "reportE2e", "passReview",
             "awaitE2e", "verdict", "attachDraft", "ready", "passEvaluation"}
      PROVE  GateInFavour(g)'
  BY <1>7, <1>8
<1>9. CASE ReadCycle(g)
  <2>1. FirstPlace(g) \in GatePlaces /\ gate'[g].at = FirstPlace(g)
    <3>1. FirstPlace(g) \in GatePlaces
      BY DEF FirstPlace, AfterSendBack, GatePlaces
    <3> QED
      BY <1>7, <1>9, <3>1 DEF ReadCycle
  <2>2. /\ g[1] = "review" /\ FirstPlace(g) \in {"e2e", "verdict"} => review[g[2]] = "Approved"
        /\ g[1] = "evaluation" /\ FirstPlace(g) \in {"e2e", "verdict"}
           => FirstPlace(g) = "e2e" /\ evaluation[g[2]] = "Passed"
        /\ FirstPlace(g) \notin {"reportE2e", "passReview", "awaitE2e", "attachDraft", "ready", "passEvaluation"}
    BY <1>1, <1>4 DEF FirstPlace, AfterSendBack, Verdict, VerdictsOK, OpenReview, NotApproved, OpenEvaluation
  <2> QED
    BY <1>3, <1>4, <2>1, <2>2
<1>10. CASE ReadE2e(g)
  <2>1. gate[g].at = "e2e" /\ gate'[g].at \in {"reportE2e", AfterE2e(g), "passReview"}
        /\ (g[1] = "evaluation" => gate'[g].at \in {"reportE2e", AfterE2e(g)})
    BY <1>4, <1>7, <1>10 DEF ReadE2e, At, AfterE2e, GatePlaces
  <2> QED
    BY <1>2, <1>3, <1>4, <2>1 DEF AfterE2e
<1>11. CASE AwaitE2e(g)
  <2>1. gate[g].at = "awaitE2e" /\ gate'[g].at \in {"ready", "idle"}
    BY <1>7, <1>11 DEF AwaitE2e, At, GatePlaces
  <2> QED
    BY <1>2, <1>3, <1>4, <2>1
<1>12. CASE ReportE2e(g)
  <2>1. gate[g].at = "reportE2e" /\ gate'[g].at \in {AfterE2e(g), "idle"}
    BY <1>7, <1>12 DEF ReportE2e, Posts, At, AfterE2e, GatePlaces
  <2> QED
    BY <1>2, <1>3, <1>4, <2>1 DEF AfterE2e
<1>13. CASE PassReview(g)
  <2>1. gate[g].at = "passReview" /\ gate'[g].at \in {"verdict", "idle"}
    BY <1>7, <1>13 DEF PassReview, Posts, At, GatePlaces
  <2> QED
    BY <1>2, <1>3, <1>4, <2>1
<1>14. CASE UpdateProof(g)
  <2>1. gate[g].at \in {"verdict", "attachDraft"} /\ gate'[g].at \in {"attachDraft", "ready", "idle"}
    BY <1>7, <1>14 DEF UpdateProof, At, GatePlaces
  <2> QED
    BY <1>2, <1>3, <1>4, <2>1
<1>15. CASE ReadGates(g)
  <2>1. CASE InStatus("Reviewing") /\ Ready(g)
    <3>1. gate[g].at = "ready" /\ gate'[g].at = "passEvaluation" /\ gate'[g].evaluation = cycle.evaluation
      BY <1>1, <1>15, <2>1 DEF ReadGates, At, InStatus, GateOK
    <3>2. cycle.evaluation \in Run
      BY <1>1, <2>1, FactoryBounds DEF Ready, EvaluationPassed, CycleOK, CycleRecord, Run
    <3>3. g = <<"evaluation", cycle.evaluation>> => g[1] = "evaluation" /\ g[2] = cycle.evaluation
      OBVIOUS
    <3>4. evaluation[cycle.evaluation] = "Passed"
      BY <1>2, <2>1, <3>1, <3>3 DEF Ready, EvaluationPassed
    <3> QED
      BY <1>2, <1>3, <1>4, <3>1, <3>2, <3>4
  <2>2. CASE ~(InStatus("Reviewing") /\ Ready(g))
    <3>1. gate'[g].at \in {"find", "idle"}
      BY <1>1, <1>7, <1>15, <2>2 DEF ReadGates, At, GateOK, GatePlaces
    <3> QED
      BY <3>1
  <2> QED
    BY <2>1, <2>2
<1>16. CASE FindProof(g)
  <2>1. gate'[g].at \in {"mark", "reject"}
    BY <1>1, <1>16 DEF FindProof, GateOK
  <2> QED
    BY <2>1
<1>17. CASE CloseObsolete(g)
  <2>1. gate'[g].at \in {"close", "reject", "idle"}
    <3>1. CASE \E place \in {"reject", "idle"} : Goes(g, place)
      BY <1>7, <3>1 DEF GatePlaces
    <3>2. ASSUME NEW place \in {"close", "reject"},
                 gate' = [gate EXCEPT ![g] = [evaluation |-> cycle.evaluation, proof |-> g[2],
                                              at |-> place]]
          PROVE  gate'[g].at = place
      BY <1>1, <3>2 DEF GateOK
    <3> QED
      BY <1>17, <3>1, <3>2 DEF CloseObsolete
  <2> QED
    BY <2>1
<1>18. CASE \/ PassEvaluation(g) \/ AwaitProving(g) \/ MarkReady(g) \/ ReadProving(g)
            \/ AttachProofPacket(g) \/ RequestHumanCompletionApproval(g) \/ CompleteByGate(g)
            \/ RequestChanges(g) \/ FailCycle(g) \/ RejectProof(g)
  <2>1. \E place \in {"proving", "find", "idle", "markReady", "attached", "attachProof", "askPerson",
                      "complete", "decide", "obsolete", "rejectProof"} : Goes(g, place)
    BY <1>18 DEF PassEvaluation, AwaitProving, MarkReady, ReadProving, LastPost, AttachProofPacket,
         RequestHumanCompletionApproval, CompleteByGate, RequestChanges, FailCycle, AfterSendBack,
         RejectProof, Posts
  <2> QED
    BY <1>8, <2>1 DEF GatePlaces
<1> QED
  BY <1>9, <1>10, <1>11, <1>12, <1>13, <1>14, <1>15, <1>16, <1>17, <1>18 DEF GateStep

\* An evaluation becomes obsolete when its cycle is no more in review.
LEMMA GateStepObsolete ==
    ASSUME TypeOK, ObsoleteLater, NEW g \in Gates, GateStep(g),
           gate'[g].at \in {"obsolete", "close"}
    PROVE  cycle'.status # "Reviewing"
<1>1. GateOK /\ CycleOK
  BY TypeParts
<1>2. \A place \in GatePlaces : Goes(g, place) => gate'[g].at = place
  BY <1>1 DEF Goes, GateOK, NoGate
<1>3. CASE ReadCycle(g)
  <2>1. FirstPlace(g) \in GatePlaces
    BY DEF FirstPlace, AfterSendBack, GatePlaces
  <2>2. FirstPlace(g) \in {"obsolete", "close"} => cycle.status # "Reviewing"
    BY DEF FirstPlace, AfterSendBack, InStatus, Failable, CycleStates, Ended
  <2> QED
    BY <1>2, <1>3, <2>1, <2>2 DEF ReadCycle
<1>4. CASE RequestChanges(g)
  <2>1. CASE InStatus("Reviewing")
    BY <1>1, <1>4, <2>1 DEF RequestChanges, SentBack, CycleOK, CycleRecord
  <2>2. CASE ~InStatus("Reviewing")
    BY <1>4, <2>2 DEF RequestChanges, InStatus
  <2> QED
    BY <2>1, <2>2
<1>5. CASE FailCycle(g)
  <2>1. CASE CanFail
    BY <1>1, <1>5, <2>1 DEF FailCycle, Posts, CycleOK, CycleRecord
  <2>2. CASE ~CanFail
    BY <1>2, <1>5, <2>2 DEF FailCycle, Posts, GatePlaces
  <2> QED
    BY <2>1, <2>2
<1>6. CASE CloseObsolete(g)
  <2>1. gate[g].at \in {"obsolete", "close"} /\ UNCHANGED cycle
    BY <1>6 DEF CloseObsolete, At
  <2> QED
    BY <2>1 DEF ObsoleteLater
<1>7. CASE ReadGates(g) \/ FindProof(g)
  <2>1. gate'[g].at \notin {"obsolete", "close"}
    BY <1>1, <1>2, <1>7, ZenonT(20) DEF ReadGates, FindProof, GateOK, GatePlaces
  <2> QED
    BY <2>1
<1>8. CASE \/ ReadE2e(g) \/ AwaitE2e(g) \/ ReportE2e(g) \/ PassReview(g) \/ UpdateProof(g)
           \/ PassEvaluation(g) \/ AwaitProving(g) \/ MarkReady(g) \/ ReadProving(g)
           \/ AttachProofPacket(g) \/ RequestHumanCompletionApproval(g) \/ CompleteByGate(g)
           \/ RejectProof(g)
  <2>1. \E place \in GatePlaces \ {"obsolete", "close"} : Goes(g, place)
    BY <1>8 DEF ReadE2e, AfterE2e, AwaitE2e, ReportE2e, PassReview, UpdateProof, PassEvaluation,
         AwaitProving, MarkReady, ReadProving, LastPost, AttachProofPacket,
         RequestHumanCompletionApproval, CompleteByGate, RejectProof, Posts, GatePlaces
  <2> QED
    BY <1>2, <2>1
<1> QED
  BY <1>3, <1>4, <1>5, <1>6, <1>7, <1>8 DEF GateStep

LEMMA GateStepJudging ==
    ASSUME TypeOK, Judging, NEW g \in Gates, GateStep(g)
    PROVE  Judging' /\ VerdictsKept
<1>1. CycleOK /\ VerdictsOK /\ WorkOK
  BY TypeParts
<1>2. /\ UNCHANGED <<rounds, worker, review, codex, fan, lane, overtaken>>
      /\ gate[g].at # "idle" /\ \A h \in Gates : h # g => gate'[h] = gate[h]
      /\ \A n \in Run : evaluation[n] \in Settled \cup {"none"} => evaluation'[n] = evaluation[n]
      /\ \A n \in Run : evaluation'[n] = "Closed" => evaluation[n] = "Closed" \/ gate[g].at = "close"
  BY GateStepFrame
<1>3. GateEffect(g)
  BY GateStepEffect
<1>4. VerdictsKept
  BY <1>2 DEF VerdictsKept
<1>5. DoneBeforeJudged'
  BY <1>2, JudgingParts DEF DoneBeforeJudged
<1>6. GatesInFavour'
  BY GateStepInFavour
<1>7. EvaluationCounts'
  <2>1. CASE gate[g].at = "passEvaluation"
    <3>1. gate[g].evaluation \in Run /\ evaluation[gate[g].evaluation] = "Passed"
      BY <2>1, JudgingParts DEF GatesInFavour, GateInFavour
    <3>2. EvaluationCounts
      BY JudgingParts
    <3> QED
      BY <1>2, <1>3, <3>1, <3>2 DEF GateEffect, SameJudged, EvaluationCounts, Passing, Settled
  <2>2. CASE gate[g].at # "passEvaluation"
    <3>1. EvaluationCounts
      BY JudgingParts
    <3> QED
      BY <1>2, <1>3, <2>2, <3>1 DEF GateEffect, SameJudged, EvaluationCounts, Passing, Settled
  <2> QED
    BY <2>1, <2>2
<1>8. LatestIsJudged'
  BY <1>2, <1>3, JudgingParts DEF GateEffect, SameJudged, LatestIsJudged, Judged, Passing
<1>9. PassedLater'
  BY <1>3, JudgingParts DEF GateEffect, SamePassed, PassedLater, Unjudged, Passing
<1>10. ASSUME ~overtaken
       PROVE  InOrder'
  <2>1. FansAlone /\ ObsoleteLater /\ ReviewCounts /\ AttachedIsDone /\ ReviewerIsLatest /\ ClosedByReview
    BY <1>10, JudgingParts
  <2>2. \A n \in Run : fan'[n] = "idle"
    BY <1>2, <2>1 DEF FansAlone, FanAlone
  <2>3. FansAlone'
    BY <2>2 DEF FansAlone, FanAlone
  <2>4. ObsoleteLater'
    <3>1. gate'[g].at \in {"obsolete", "close"} => cycle'.status # "Reviewing"
      BY <2>1, GateStepObsolete
    <3>2. cycle'.status = "Reviewing" => cycle.status = "Reviewing"
      BY <1>3 DEF GateEffect, Passing
    <3> QED
      BY <1>2, <2>1, <3>1, <3>2 DEF ObsoleteLater
  <2>5. ReviewCounts'
    <3>1. gate[g].at = "passReview" => g[2] \in Run /\ review[g[2]] = "Approved"
      BY JudgingParts DEF GatesInFavour, GateInFavour, Gates
    <3> QED
      BY <1>2, <1>3, <2>1, <3>1 DEF GateEffect, SameJudged, SamePassed, ReviewCounts, Passing
  <2>6. AttachedIsDone'
    BY <1>2, <1>3, <2>1 DEF GateEffect, SameJudged, AttachedIsDone, Unjudged, Passing
  <2>7. ReviewerIsLatest'
    BY <1>2, <1>3, <2>1 DEF GateEffect, SameJudged, SamePassed, ReviewerIsLatest, Passing
  <2>8. ClosedByReview'
    BY <1>2, <1>3, <2>1 DEF GateEffect, SameJudged, ClosedByReview, ObsoleteLater, Passing
  <2> QED
    BY <2>3, <2>4, <2>5, <2>6, <2>7, <2>8 DEF InOrder
<1> QED
  BY <1>2, <1>4, <1>5, <1>6, <1>7, <1>8, <1>9, <1>10 DEF Judging, Standing

\* A step that leaves these alone keeps what concerns the gates' verdicts.
LEMMA QuietJudging ==
    ASSUME Judging, UNCHANGED <<cycle, rounds, worker, review, evaluation, fan, gate>>,
           overtaken => overtaken', UNCHANGED assign, 
           \A n \in Run : codex'.task = "evaluation" /\ codex'.run = n => codex = codex'
    PROVE  Judging' /\ VerdictsKept
<1>1. Standing' /\ VerdictsKept
  BY JudgingParts DEF Standing, DoneBeforeJudged, GatesInFavour, GateInFavour, EvaluationCounts,
                      LatestIsJudged, PassedLater, VerdictsKept
<1>2. ASSUME ~overtaken
      PROVE  InOrder'
  <2>1. FansAlone /\ ObsoleteLater /\ ReviewCounts /\ AttachedIsDone /\ ReviewerIsLatest /\ ClosedByReview
    BY <1>2, JudgingParts
  <2>2. FansAlone'
    BY <2>1 DEF FansAlone, FanAlone
  <2>3. ObsoleteLater' /\ ReviewCounts' /\ AttachedIsDone' /\ ReviewerIsLatest'
    BY <2>1 DEF ObsoleteLater, ReviewCounts, AttachedIsDone, ReviewerIsLatest
  <2>4. ClosedByReview'
    BY <2>1 DEF ClosedByReview
  <2> QED
    BY <2>2, <2>3, <2>4 DEF InOrder
<1> QED
  BY <1>1, <1>2 DEF Judging

\* What a fan-out does to the cycle, and what it leaves alone.
FanEffect(n) ==
    \/ /\ UNCHANGED cycle.status /\ SameJudged /\ SamePassed /\ fan'[n] # "attachEvaluation"
    \/ /\ fan[n] = "workerDone" /\ cycle.status = "InProgress" /\ cycle'.status = "Testing"
       /\ cycle'.implementer = n /\ UNCHANGED <<cycle.reviewer, cycle.evaluation>> /\ SamePassed
       /\ fan'[n] = "tested"
    \/ /\ fan[n] = "submit" /\ cycle.status = "Testing" /\ cycle'.status = "Reviewing"
       /\ SameJudged /\ SamePassed /\ fan'[n] = "submitted"
    \/ /\ fan[n] = "attachReview" /\ cycle.status = "Reviewing" /\ UNCHANGED cycle.status
       /\ cycle'.reviewer = n /\ UNCHANGED <<cycle.implementer, cycle.evaluation>> /\ SamePassed
       /\ fan'[n] = "attachEvaluation"
    \/ /\ fan[n] = "attachEvaluation" /\ cycle.status = "Reviewing" /\ UNCHANGED cycle.status
       /\ cycle'.evaluation = n /\ UNCHANGED <<cycle.implementer, cycle.reviewer>> /\ SamePassed
       /\ fan'[n] = "idle"

LEMMA FanStepEffect ==
    ASSUME TypeOK, NEW n \in Run, FanStep(n)
    PROVE  FanEffect(n)
<1> USE DEF FanEffect, SameJudged, SamePassed
<1>1. CycleOK /\ HandoverOK
  BY TypeParts
<1>2. \A place : Fans(n, place) => fan'[n] = place
  BY <1>1 DEF HandoverOK, Fans
<1>3. CASE DraftProof(n) \/ RequestReview(n) \/ QueueEvaluation(n)
  BY <1>2, <1>3 DEF DraftProof, RequestReview, QueueEvaluation
<1>4. CASE ReadStatus(n)
  BY <1>2, <1>4 DEF ReadStatus, NextPost
<1>5. CASE WorkerDone(n)
  BY <1>1, <1>2, <1>5 DEF WorkerDone, Advances, InStatus, CycleOK, CycleRecord
<1>6. CASE SubmitForReview(n)
  <2>1. CASE UNCHANGED cycle
    BY <1>2, <1>6, <2>1 DEF SubmitForReview, Advances
  <2>2. CASE cycle' # cycle
    <3>1. /\ fan[n] = "submit" /\ cycle.status = "Testing" /\ fan'[n] = "submitted"
          /\ cycle' = [cycle EXCEPT !.status = "Reviewing"]
      BY <1>2, <1>6, <2>2 DEF SubmitForReview, Advances, InStatus
    <3> QED
      BY <1>1, <3>1 DEF CycleOK, CycleRecord
  <2> QED
    BY <2>1, <2>2
<1>7. CASE AttachReviewRun(n)
  BY <1>1, <1>2, <1>7 DEF AttachReviewRun, Advances, InStatus, CycleOK, CycleRecord
<1>8. CASE AttachEvaluationRun(n)
  BY <1>1, <1>2, <1>8 DEF AttachEvaluationRun, Advances, InStatus, CycleOK, CycleRecord
<1> QED
  BY <1>3, <1>4, <1>5, <1>6, <1>7, <1>8 DEF FanStep

LEMMA FanStepFrame ==
    ASSUME TypeOK, NEW n \in Run, FanStep(n)
    PROVE  /\ UNCHANGED <<rounds, worker, codex, assign, gate, lane, overtaken>>
           /\ fan[n] # "idle" /\ \A k \in Run : k # n => fan'[k] = fan[k]
           /\ \A k \in Run : review'[k] = review[k]
                             \/ (k = n /\ fan[n] = "request" /\ fan'[n] = "queue" /\ review'[n] = "Requested")
           /\ \A k \in Run : evaluation'[k] = evaluation[k]
                             \/ (k = n /\ fan[n] = "queue" /\ fan'[n] = "look" /\ evaluation'[n] = "Queued")
           /\ fan'[n] # "draft" /\ (fan'[n] = "request" => fan[n] = "draft")
           /\ fan'[n] = "queue" => fan[n] = "request"
<1>1. HandoverOK /\ VerdictsOK
  BY TypeParts
<1>2. \A place : Fans(n, place) => fan'[n] = place /\ \A k \in Run : k # n => fan'[k] = fan[k]
  BY <1>1 DEF HandoverOK, Fans
<1>3. UNCHANGED <<rounds, worker, codex, assign, gate, lane, overtaken>>
  BY DEF FanStep, DraftProof, RequestReview, QueueEvaluation, ReadStatus, WorkerDone,
         SubmitForReview, AttachReviewRun, AttachEvaluationRun, Advances, steady, timing, entities
<1>4. CASE DraftProof(n)
  BY <1>2, <1>3, <1>4 DEF DraftProof
<1>5. CASE RequestReview(n)
  BY <1>1, <1>2, <1>3, <1>5 DEF RequestReview, VerdictsOK
<1>6. CASE QueueEvaluation(n)
  BY <1>1, <1>2, <1>3, <1>6 DEF QueueEvaluation, VerdictsOK
<1>7. CASE ReadStatus(n)
  BY <1>2, <1>3, <1>7 DEF ReadStatus, NextPost, entities
<1>8. CASE WorkerDone(n) \/ SubmitForReview(n) \/ AttachReviewRun(n) \/ AttachEvaluationRun(n)
  BY <1>2, <1>3, <1>8
     DEF WorkerDone, SubmitForReview, AttachReviewRun, AttachEvaluationRun, Advances, entities
<1> QED
  BY <1>4, <1>5, <1>6, <1>7, <1>8 DEF FanStep

LEMMA FanStepJudging ==
    ASSUME TypeOK, Core, Judging, NEW n \in Run, FanStep(n)
    PROVE  Judging' /\ VerdictsKept
<1>1. UNCHANGED <<rounds, worker, codex, assign, gate, lane, overtaken>> /\ fan[n] # "idle"
  BY FanStepFrame
<1>2. \A k \in Run : k # n => fan'[k] = fan[k] /\ review'[k] = review[k] /\ evaluation'[k] = evaluation[k]
  BY FanStepFrame
<1>3. /\ review'[n] = review[n] \/ (review[n] = "none" /\ fan'[n] = "queue" /\ review'[n] = "Requested")
      /\ evaluation'[n] = evaluation[n]
         \/ (evaluation[n] = "none" /\ fan'[n] = "look" /\ evaluation'[n] = "Queued")
      /\ fan'[n] # "draft" /\ (fan'[n] = "request" => review'[n] = "none")
      /\ fan'[n] \in {"request", "queue"} => evaluation'[n] = "none"
      /\ worker[n] = "Done"
  BY FanStepFrame, JudgingParts DEF DoneBeforeJudged
<1>4. FanEffect(n)
  BY FanStepEffect
<1>5. fan[n] \in Early => n = rounds
  BY DEF Core, EarlyIsLatest
<1>6. VerdictsKept
  BY <1>2, <1>3 DEF VerdictsKept, Concluded, Settled, NotApproved
<1>7. DoneBeforeJudged'
  BY <1>1, <1>2, <1>3, JudgingParts DEF DoneBeforeJudged
<1>8. GatesInFavour'
  <2>1. \A g \in Gates : g[2] \in Run /\ GateInFavour(g)
    BY JudgingParts DEF Gates, GatesInFavour
  <2> QED
    BY <1>1, <1>6, <2>1 DEF GatesInFavour, GateInFavour, VerdictsKept, Concluded, Settled
<1>9. EvaluationCounts'
  BY <1>4, <1>6, JudgingParts DEF FanEffect, SameJudged, EvaluationCounts, Passing, VerdictsKept, Settled
<1>10. LatestIsJudged'
  BY <1>1, <1>4, <1>5, JudgingParts DEF FanEffect, SameJudged, LatestIsJudged, Judged, Early
<1>11. PassedLater'
  BY <1>4, JudgingParts DEF FanEffect, SamePassed, PassedLater, Unjudged
<1>12. ASSUME ~overtaken
       PROVE  InOrder'
  <2>1. FansAlone /\ ObsoleteLater /\ ReviewCounts /\ AttachedIsDone /\ ReviewerIsLatest /\ ClosedByReview
    BY <1>12, JudgingParts
  <2>2. /\ FanAlone(n) /\ n = rounds /\ \A g \in Gates : gate'[g].at = "idle"
        /\ \A k \in Run : k # n => fan'[k] = "idle"
    BY <1>1, <1>2, <2>1 DEF FansAlone, FanAlone
  <2>3. cycle'.status = "Reviewing" => cycle'.review_passed = FALSE
    BY <1>1, <1>4, <2>2, JudgingParts DEF FanEffect, SamePassed, FanAlone, PassedLater, Unjudged
  <2>4. FansAlone'
    <3>1. evaluation'[n] # "Closed"
      BY <1>1, <1>3, <2>2 DEF FanAlone
    <3>2. fan'[n] = "attachEvaluation" => cycle'.reviewer = n
      BY <1>4 DEF FanEffect
    <3>3. \A k \in Assignment : assign'[k] = "idle"
      BY <1>1, <2>2 DEF FanAlone
    <3>4. FanAlone(n)'
      BY <1>1, <2>2, <2>3, <3>1, <3>2, <3>3 DEF FanAlone
    <3> QED
      BY <2>2, <3>4 DEF FansAlone, FanAlone
  <2>5. ObsoleteLater'
    BY <2>2 DEF ObsoleteLater
  <2>6. ReviewCounts'
    BY <1>4, <1>6, <2>1, <2>3
       DEF FanEffect, SameJudged, SamePassed, ReviewCounts, Passing, VerdictsKept, Concluded
  <2>7. n = cycle.evaluation => cycle.status \notin Unjudged \cup {"Reviewing"}
    BY <1>1, <2>1 DEF AttachedIsDone
  <2>8. AttachedIsDone'
    BY <1>1, <1>2, <1>3, <1>4, <2>1, <2>7
       DEF FanEffect, SameJudged, AttachedIsDone, Unjudged
  <2>9. ReviewerIsLatest'
    BY <1>1, <1>4, <2>1, <2>2, <2>7
       DEF FanEffect, SameJudged, SamePassed, ReviewerIsLatest, FanAlone, Unjudged
  <2>10. ClosedByReview'
    <3>1. evaluation'[n] # "Closed" /\ ~(codex'.task = "evaluation" /\ codex'.run = n)
      BY <1>1, <1>3, <2>2 DEF FanAlone
    <3> QED
      BY <1>1, <2>2, <3>1 DEF ClosedByReview
  <2> QED
    BY <2>4, <2>5, <2>6, <2>8, <2>9, <2>10 DEF InOrder
<1> QED
  BY <1>1, <1>6, <1>7, <1>8, <1>9, <1>10, <1>11, <1>12 DEF Judging, Standing

\* A cycle that fails, or goes on among the statuses after its evaluation, is judged as before.
LEMMA StatusJudging ==
    ASSUME Judging, UNCHANGED <<rounds, worker, review, evaluation, fan, gate, codex>>,
           overtaken => overtaken', SameJudged, SamePassed,
           \/ UNCHANGED cycle.status \/ cycle'.status = "Failed"
           \/ cycle.status \in Passing \cap Judged /\ cycle'.status \in Passing \cap Judged,
           \A k \in Assignment : assign[k] = "idle" => assign'[k] = "idle"
    PROVE  Judging' /\ VerdictsKept
<1>1. DoneBeforeJudged' /\ GatesInFavour' /\ VerdictsKept
  BY JudgingParts DEF DoneBeforeJudged, GatesInFavour, GateInFavour, VerdictsKept
<1>2. EvaluationCounts' /\ LatestIsJudged' /\ PassedLater'
  BY JudgingParts DEF EvaluationCounts, LatestIsJudged, PassedLater, SameJudged, SamePassed, Passing,
                      Judged, Unjudged
<1>3. ASSUME ~overtaken
      PROVE  InOrder'
  <2>1. FansAlone /\ ObsoleteLater /\ ReviewCounts /\ AttachedIsDone /\ ReviewerIsLatest /\ ClosedByReview
    BY <1>3, JudgingParts
  <2>2. cycle'.status = "Reviewing" => cycle.status = "Reviewing"
    BY DEF Passing
  <2>3. FansAlone'
    BY <2>1, <2>2 DEF FansAlone, FanAlone, SameJudged, SamePassed
  <2>4. ObsoleteLater' /\ ReviewerIsLatest' /\ ClosedByReview'
    BY <2>1, <2>2 DEF ObsoleteLater, ReviewerIsLatest, ClosedByReview, SameJudged, SamePassed
  <2>5. ReviewCounts'
    BY <2>1, <2>2 DEF ReviewCounts, SameJudged, SamePassed, Passing
  <2>6. AttachedIsDone'
    BY <2>1, <2>2 DEF AttachedIsDone, SameJudged, Passing, Unjudged
  <2> QED
    BY <2>3, <2>4, <2>5, <2>6 DEF InOrder
<1> QED
  BY <1>1, <1>2, <1>3 DEF Judging, Standing

LEMMA AssignStepJudging ==
    ASSUME TypeOK, Core, Judging, NEW n \in Run, AssignStep(n)
    PROVE  Judging' /\ VerdictsKept
<1>1. CycleOK /\ WorkOK /\ HandoverOK /\ n \in Assignment
  BY TypeParts, FactoryBounds DEF Run, Assignment
<1>2. UNCHANGED <<review, evaluation, fan, gate, codex, overtaken>> /\ assign[n] # "idle"
  BY DEF AssignStep, ConfigureRun, StartWork, AttachWorkerRun, entities, steady, timing
<1>3. VerdictsKept
  BY <1>2 DEF VerdictsKept
<1>4. \A k \in Run : \/ worker'[k] = worker[k]
                     \/ k = n /\ worker[k] = "none" /\ worker'[k] = "Queued" /\ rounds' = n
  <2>1. CASE ConfigureRun(n)
    <3>1. n = rounds + 1
      BY <1>1, <2>1 DEF Core, CreatedAtRest, Pending, ConfigureRun
    <3>2. worker[n] = "none"
      BY <1>1, <3>1, JudgingParts DEF WorkOK, DoneBeforeJudged
    <3> QED
      BY <1>1, <2>1, <3>2 DEF ConfigureRun, WorkOK
  <2>2. CASE StartWork(n) \/ AttachWorkerRun(n)
    BY <2>2 DEF StartWork, AttachWorkerRun, entities
  <2> QED
    BY <2>1, <2>2 DEF AssignStep
<1>5. rounds' = rounds \/ (rounds' = n /\ n = rounds + 1 /\ UNCHANGED cycle /\ cycle.status \notin Judged)
  <2>1. CASE ConfigureRun(n)
    BY <1>1, <2>1 DEF Core, CreatedAtRest, Pending, ConfigureRun
  <2>2. CASE StartWork(n) \/ AttachWorkerRun(n)
    BY <2>2 DEF StartWork, AttachWorkerRun
  <2> QED
    BY <2>1, <2>2 DEF AssignStep
<1>6. /\ SamePassed /\ UNCHANGED <<cycle.reviewer, cycle.evaluation>>
      /\ \/ UNCHANGED <<cycle.status, cycle.implementer>>
         \/ /\ cycle.status \in Unjudged /\ cycle'.status = "InProgress"
  <2>1. CASE ConfigureRun(n)
    BY <2>1 DEF ConfigureRun, SamePassed
  <2>2. CASE StartWork(n)
    BY <1>1, <2>2 DEF StartWork, InStatus, CycleOK, CycleRecord, SamePassed, Unjudged
  <2>3. CASE AttachWorkerRun(n)
    BY <1>1, <2>3 DEF AttachWorkerRun, InStatus, CycleOK, CycleRecord, SamePassed, Unjudged
  <2> QED
    BY <2>1, <2>2, <2>3 DEF AssignStep
<1>7. DoneBeforeJudged'
  BY <1>1, <1>2, <1>4, <1>5, JudgingParts DEF DoneBeforeJudged, WorkOK, Run
<1>8. GatesInFavour'
  BY <1>2, JudgingParts DEF GatesInFavour, GateInFavour
<1>9. EvaluationCounts'
  BY <1>2, <1>6, JudgingParts DEF EvaluationCounts, Passing
<1>10. LatestIsJudged'
  BY <1>5, <1>6, JudgingParts DEF LatestIsJudged, Judged
<1>11. PassedLater'
  BY <1>6, JudgingParts DEF PassedLater, SamePassed, Unjudged
<1>12. ASSUME ~overtaken
       PROVE  InOrder'
  <2>1. FansAlone /\ ObsoleteLater /\ ReviewCounts /\ AttachedIsDone /\ ReviewerIsLatest /\ ClosedByReview
    BY <1>12, JudgingParts
  <2>2. \A k \in Run : fan'[k] = "idle"
    BY <1>1, <1>2, <2>1 DEF FansAlone, FanAlone
  <2>3. FansAlone'
    BY <2>2 DEF FansAlone, FanAlone
  <2>4. cycle'.status = "Reviewing" => cycle.status = "Reviewing" /\ UNCHANGED rounds
    BY <1>5, <1>6 DEF Judged
  <2>5. ObsoleteLater' /\ ReviewerIsLatest' /\ ClosedByReview'
    BY <1>2, <1>6, <2>1, <2>4 DEF ObsoleteLater, ReviewerIsLatest, ClosedByReview, SamePassed
  <2>6. ReviewCounts'
    BY <1>2, <1>6, <2>1 DEF ReviewCounts, SamePassed, Passing
  <2>7. AttachedIsDone'
    BY <1>2, <1>4, <1>6, <2>1 DEF AttachedIsDone, Unjudged
  <2> QED
    BY <2>3, <2>5, <2>6, <2>7 DEF InOrder
<1> QED
  BY <1>2, <1>3, <1>7, <1>8, <1>9, <1>10, <1>11, <1>12 DEF Judging, Standing

\* A hand-over that fails, a person's approval, a clock of the cycle, and crashes.
LEMMA OtherStepJudging ==
    ASSUME TypeOK, Judging,
           \/ CycleTimesOut \/ \E n \in Assignment : AssignmentFailed(n)
           \/ \E n \in Run : HandleFailed(n)
           \/ CompleteByPerson \/ ApproveHumanCompletion \/ ServerCrash \/ WorkerCrash
    PROVE  Judging' /\ VerdictsKept
<1>1. CycleOK /\ HandoverOK /\ CodexOK
  BY TypeParts
<1> USE DEF SameJudged, SamePassed
<1>2. ASSUME NEW n \in Assignment, AssignmentFailed(n)
      PROVE  Judging' /\ VerdictsKept
  <2>1. UNCHANGED <<rounds, worker, review, evaluation, fan, gate, codex, overtaken>>
    BY <1>2 DEF AssignmentFailed, entities, steady, timing
  <2>2. \A k \in Assignment : assign[k] = "idle" => assign'[k] = "idle"
    BY <1>1, <1>2 DEF AssignmentFailed, Assigns, HandoverOK
  <2>3. SameJudged /\ SamePassed /\ cycle'.status \in {cycle.status, "Failed"}
    BY <1>1, <1>2 DEF AssignmentFailed, Fails, CycleOK, CycleRecord
  <2> QED
    BY <2>1, <2>2, <2>3, StatusJudging
<1>3. ASSUME NEW n \in Run, HandleFailed(n)
      PROVE  Judging' /\ VerdictsKept
  <2>1. UNCHANGED <<rounds, worker, review, evaluation, fan, gate, codex, overtaken, assign>>
    BY <1>3 DEF HandleFailed, entities, steady, timing
  <2>2. SameJudged /\ SamePassed /\ cycle'.status \in {cycle.status, "Failed"}
    BY <1>1, <1>3 DEF HandleFailed, Fails, CycleOK, CycleRecord
  <2> QED
    BY <2>1, <2>2, StatusJudging
<1>4. CASE CompleteByPerson \/ ApproveHumanCompletion
  <2>1. UNCHANGED <<rounds, worker, review, evaluation, fan, gate, codex, overtaken, assign>>
    BY <1>4 DEF CompleteByPerson, ApproveHumanCompletion, entities, steady, timing
  <2>2. /\ SameJudged /\ SamePassed
        /\ \/ UNCHANGED cycle.status
           \/ cycle.status \in Passing \cap Judged /\ cycle'.status \in Passing \cap Judged
    BY <1>1, <1>4
       DEF CompleteByPerson, ApproveHumanCompletion, InStatus, CycleOK, CycleRecord, Passing, Judged
  <2> QED
    BY <2>1, <2>2, StatusJudging
<1>5. CASE CycleTimesOut
  <2>1. UNCHANGED <<rounds, worker, review, evaluation, fan, gate, codex, assign>>
    BY <1>5 DEF CycleTimesOut, entities, jobs
  <2>2. overtaken => overtaken'
    BY <1>5 DEF CycleTimesOut, HoursPass, AfterJobs, Overtakes
  <2>3. SameJudged /\ SamePassed /\ cycle'.status = "Failed"
    BY <1>1, <1>5 DEF CycleTimesOut, Fails, CycleOK, CycleRecord
  <2> QED
    BY <2>1, <2>2, <2>3, StatusJudging
<1>6. CASE ServerCrash
  <2>1. UNCHANGED <<cycle, rounds, worker, review, evaluation, codex, overtaken>>
    BY <1>6 DEF ServerCrash, entities
  <2>2. (\A n \in Run : fan'[n] = "idle") /\ \A g \in Gates : gate'[g].at = "idle"
    BY <1>6 DEF ServerCrash, NoGate
  <2>3. Standing' /\ VerdictsKept
    BY <2>1, <2>2, JudgingParts DEF Standing, DoneBeforeJudged, GatesInFavour, GateInFavour,
       EvaluationCounts, LatestIsJudged, PassedLater, VerdictsKept
  <2>4. ASSUME ~overtaken
        PROVE  InOrder'
    <3>1. ReviewCounts /\ AttachedIsDone /\ ReviewerIsLatest /\ ClosedByReview
      BY <2>4, JudgingParts
    <3>2. FansAlone' /\ ObsoleteLater'
      BY <2>2 DEF FansAlone, FanAlone, ObsoleteLater
    <3>3. ReviewCounts' /\ AttachedIsDone' /\ ReviewerIsLatest' /\ ClosedByReview'
      BY <2>1, <2>2, <3>1 DEF ReviewCounts, AttachedIsDone, ReviewerIsLatest, ClosedByReview
    <3> QED
      BY <3>2, <3>3 DEF InOrder
  <2> QED
    BY <2>1, <2>3, <2>4 DEF Judging
<1>7. CASE WorkerCrash
  <2>1. UNCHANGED <<cycle, rounds, worker, review, evaluation, fan, gate, overtaken, assign>>
        /\ codex'.task = "rest"
    BY <1>7 DEF WorkerCrash, Rests, Resting, entities, jobs
  <2> QED
    BY <2>1, QuietJudging
<1> QED
  BY <1>2, <1>3, <1>4, <1>5, <1>6, <1>7

-----------------------------------------------------------------------------
\* While nothing overtakes, a report or a clock finds no integration in flight.
LEMMA ReportsAtRest ==
    /\ AfterJobs => (overtaken => overtaken') /\ (~overtaken' => NoJobs)
    /\ HoursPass => (overtaken => overtaken') /\ (~overtaken' => NoJobs)
    /\ Overtakes => overtaken'
  BY DEF AfterJobs, HoursPass, Overtakes

\* A verdict that comes in, or a run that ends unfinished, while nothing else goes on.
LEMMA VerdictJudging ==
    ASSUME TypeOK, Core, Judging, UNCHANGED <<cycle, rounds, fan, assign>>, VerdictsKept,
           overtaken => overtaken', ~overtaken' => NoJobs,
           \A n \in Run : worker'[n] = worker[n] \/ worker[n] \in LiveRun,
           \A n \in Run : review'[n] = review[n] \/ review[n] \in OpenReview,
           \A n \in Run : evaluation'[n] = evaluation[n] \/ evaluation[n] \in OpenEvaluation,
           \A n \in Run : evaluation'[n] = "Closed" => evaluation[n] = "Closed",
           \A g \in Gates : gate'[g] = gate[g] \/ gate'[g].at = "look",
           codex' = codex \/ codex'.task = "rest"
    PROVE  Judging'
<1>1. WorkOK /\ VerdictsOK /\ HandoverOK
  BY TypeParts
<1>2. \A n \in Run : worker[n] = "Done" => worker'[n] = "Done"
  BY DEF LiveRun
<1>3. \A n \in Run : worker[n] = "none" => worker'[n] = "none"
  BY DEF LiveRun
<1>4. \A n \in Run : (review[n] = "none" => review'[n] = "none")
                     /\ (evaluation[n] = "none" => evaluation'[n] = "none")
  BY DEF OpenReview, OpenEvaluation
<1>5. DoneBeforeJudged'
  BY <1>2, <1>3, <1>4, JudgingParts DEF DoneBeforeJudged
<1>6. \A n \in Run : (review[n] \in Concluded => review'[n] = review[n])
                     /\ (evaluation[n] = "Passed" => evaluation'[n] = "Passed")
  BY DEF VerdictsKept, Settled
<1>7. GatesInFavour'
  <2>1. ASSUME NEW g \in Gates
        PROVE  GateInFavour(g)'
    <3>1. GateInFavour(g) /\ g[2] \in Run
      BY JudgingParts DEF Gates, GatesInFavour
    <3>2. CASE gate'[g] = gate[g]
      BY <1>6, <3>1, <3>2 DEF GateInFavour, Concluded
    <3>3. CASE gate'[g].at = "look"
      BY <3>3 DEF GateInFavour
    <3> QED
      BY <3>2, <3>3
  <2> QED
    BY <2>1 DEF GatesInFavour
<1>8. EvaluationCounts' /\ LatestIsJudged' /\ PassedLater'
  BY <1>6, JudgingParts DEF EvaluationCounts, LatestIsJudged, PassedLater
<1>9. ASSUME ~overtaken'
      PROVE  InOrder'
  <2>1. FansAlone /\ ObsoleteLater /\ ReviewCounts /\ AttachedIsDone /\ ReviewerIsLatest /\ ClosedByReview
    BY <1>9, JudgingParts
  <2>2. \A n \in Run : fan'[n] = "idle"
    BY <1>9 DEF NoJobs
  <2>3. FansAlone'
    BY <2>2 DEF FansAlone, FanAlone
  <2>4. ObsoleteLater' /\ ReviewerIsLatest'
    BY <2>1 DEF ObsoleteLater, ReviewerIsLatest
  <2>5. ReviewCounts'
    BY <1>6, <2>1 DEF ReviewCounts, Concluded
  <2>6. AttachedIsDone'
    BY <1>2, <2>1, <2>2 DEF AttachedIsDone
  <2>7. ClosedByReview'
    BY <1>6, <2>1 DEF ClosedByReview, Concluded
  <2> QED
    BY <2>3, <2>4, <2>5, <2>6, <2>7 DEF InOrder
<1> QED
  BY <1>5, <1>7, <1>8, <1>9 DEF Judging, Standing

\* The clocks of the runs, of their verdicts and of the packets.
LEMMA RunClockJudging ==
    ASSUME TypeOK, Core, Judging, NEW n \in Run,
           RunTimesOut(n) \/ ReviewTimesOut(n) \/ EvaluationTimesOut(n) \/ ProofTimesOut(n)
    PROVE  Judging' /\ VerdictsKept
<1>1. WorkOK /\ VerdictsOK /\ GateOK
  BY TypeParts
<1>2. (overtaken => overtaken') /\ (~overtaken' => NoJobs)
  BY ReportsAtRest DEF RunTimesOut, ReviewTimesOut, EvaluationTimesOut, ProofTimesOut
<1>3. UNCHANGED <<cycle, rounds, fan, assign, codex>>
  BY DEF RunTimesOut, ReviewTimesOut, EvaluationTimesOut, ProofTimesOut, jobs
<1>4. CASE RunTimesOut(n) \/ ProofTimesOut(n)
  <2>1. UNCHANGED <<review, evaluation, gate>>
    BY <1>4 DEF RunTimesOut, ProofTimesOut, jobs
  <2>2. \A k \in Run : worker'[k] = worker[k] \/ worker[k] \in LiveRun
    BY <1>1, <1>4 DEF RunTimesOut, ProofTimesOut, WorkOK
  <2>3. VerdictsKept
    BY <2>1 DEF VerdictsKept
  <2> QED
    BY <1>2, <1>3, <2>1, <2>2, <2>3, VerdictJudging
<1>5. CASE ReviewTimesOut(n)
  <2>1. UNCHANGED <<worker, evaluation>>
    BY <1>5 DEF ReviewTimesOut
  <2>2. \A k \in Run : review'[k] = review[k] \/ review[k] \in OpenReview
    BY <1>1, <1>5 DEF ReviewTimesOut, VerdictsOK
  <2>3. \A g \in Gates : gate'[g] = gate[g] \/ gate'[g].at = "look"
    BY <1>1, <1>5 DEF ReviewTimesOut, StartGate, GateOK
  <2>4. VerdictsKept
    BY <2>1, <2>2 DEF VerdictsKept, Concluded, NotApproved, OpenReview
  <2> QED
    BY <1>2, <1>3, <2>1, <2>2, <2>3, <2>4, VerdictJudging
<1>6. CASE EvaluationTimesOut(n)
  <2>1. UNCHANGED <<worker, review>>
    BY <1>6 DEF EvaluationTimesOut
  <2>2. \A k \in Run : evaluation'[k] = evaluation[k]
                       \/ (evaluation[k] \in OpenEvaluation /\ evaluation'[k] = "Failed")
    BY <1>1, <1>6 DEF EvaluationTimesOut, VerdictsOK, OpenEvaluation
  <2>3. \A g \in Gates : gate'[g] = gate[g] \/ gate'[g].at = "look"
    BY <1>1, <1>6 DEF EvaluationTimesOut, StartGate, GateOK
  <2>4. VerdictsKept
    BY <2>1, <2>2 DEF VerdictsKept, Settled, OpenEvaluation
  <2> QED
    BY <1>2, <1>3, <2>1, <2>2, <2>3, <2>4, VerdictJudging
<1> QED
  BY <1>4, <1>5, <1>6

\* The worker's own moves, which other integrations do not wait for.
LEMMA WorkerMoveJudging ==
    ASSUME TypeOK, Judging, UNCHANGED <<cycle, rounds, fan, assign, gate, overtaken>>, VerdictsKept,
           \A n \in Run : worker'[n] = worker[n] \/ (worker[n] \in LiveRun /\ worker'[n] \in LiveRun),
           \A n \in Run : review'[n] = review[n] \/ review[n] \in OpenReview,
           \A n \in Run : evaluation'[n] = evaluation[n] \/ evaluation[n] \in OpenEvaluation,
           \A n \in Run : evaluation'[n] = "Closed" =>
               evaluation[n] = "Closed" \/ (codex.task = "evaluation" /\ codex.at = "close" /\ codex.run = n),
           codex'.task = "evaluation" => codex.task = "evaluation" /\ codex'.run = codex.run /\ codex'.at # "close"
    PROVE  Judging'
<1>1. \A n \in Run : (worker[n] = "Done" <=> worker'[n] = "Done") /\ (worker[n] = "none" => worker'[n] = "none")
  BY DEF LiveRun
<1>2. \A n \in Run : (review[n] = "none" => review'[n] = "none")
                     /\ (evaluation[n] = "none" => evaluation'[n] = "none")
  BY DEF OpenReview, OpenEvaluation
<1>3. \A n \in Run : (review[n] \in Concluded => review'[n] = review[n])
                     /\ (evaluation[n] = "Passed" => evaluation'[n] = "Passed")
  BY DEF VerdictsKept, Settled
<1>4. DoneBeforeJudged'
  BY <1>1, <1>2, JudgingParts DEF DoneBeforeJudged
<1>5. GatesInFavour'
  <2>1. \A g \in Gates : g[2] \in Run /\ GateInFavour(g)
    BY JudgingParts DEF Gates, GatesInFavour
  <2> QED
    BY <1>3, <2>1 DEF GatesInFavour, GateInFavour, Concluded
<1>6. EvaluationCounts' /\ LatestIsJudged' /\ PassedLater'
  BY <1>3, JudgingParts DEF EvaluationCounts, LatestIsJudged, PassedLater
<1>7. ASSUME ~overtaken
      PROVE  InOrder'
  <2>1. FansAlone /\ ObsoleteLater /\ ReviewCounts /\ AttachedIsDone /\ ReviewerIsLatest /\ ClosedByReview
    BY <1>7, JudgingParts
  <2>2. FansAlone'
    BY <2>1 DEF FansAlone, FanAlone
  <2>3. ObsoleteLater' /\ ReviewerIsLatest'
    BY <2>1 DEF ObsoleteLater, ReviewerIsLatest
  <2>4. ReviewCounts'
    BY <1>3, <2>1 DEF ReviewCounts, Concluded
  <2>5. AttachedIsDone'
    BY <1>1, <2>1 DEF AttachedIsDone
  <2>6. ClosedByReview'
    BY <1>3, <2>1 DEF ClosedByReview, Concluded
  <2> QED
    BY <2>2, <2>3, <2>4, <2>5, <2>6 DEF InOrder
<1> QED
  BY <1>4, <1>5, <1>6, <1>7 DEF Judging, Standing

\* The worker closes an evaluation of the latest run because of its review.
LEMMA PickEvaluationJudging ==
    ASSUME TypeOK, Judging, NEW n \in Run, PickEvaluation(n)
    PROVE  Judging' /\ VerdictsKept
<1>1. UNCHANGED <<cycle, rounds, worker, review, evaluation, fan, gate, assign>>
  BY DEF PickEvaluation, entities, jobs
<1>2. Standing' /\ VerdictsKept
  BY <1>1, JudgingParts DEF Standing, DoneBeforeJudged, GatesInFavour, GateInFavour, EvaluationCounts,
                            LatestIsJudged, PassedLater, VerdictsKept
<1>3. (overtaken => overtaken') /\ (~overtaken' => \A k \in Run : fan[k] = "idle")
  BY DEF PickEvaluation, Overtakes
<1>4. codex'.task = "evaluation" /\ codex'.at = "close" => Blocked /\ codex'.run = n
  BY DEF PickEvaluation, Task
<1>5. ASSUME ~overtaken'
      PROVE  InOrder'
  <2>1. FansAlone /\ ObsoleteLater /\ ReviewCounts /\ AttachedIsDone /\ ReviewerIsLatest /\ ClosedByReview
    BY <1>3, <1>5, JudgingParts
  <2>2. FansAlone'
    BY <1>1, <1>3, <1>5 DEF FansAlone, FanAlone
  <2>3. ObsoleteLater' /\ ReviewCounts' /\ AttachedIsDone' /\ ReviewerIsLatest'
    BY <1>1, <2>1 DEF ObsoleteLater, ReviewCounts, AttachedIsDone, ReviewerIsLatest
  <2>4. ClosedByReview'
    <3>1. ASSUME Blocked, cycle.status = "Reviewing", cycle.evaluation = rounds
          PROVE  review[rounds] \in NotApproved
      <4>1. cycle.review_passed = FALSE /\ review[cycle.reviewer] \in NotApproved
        <5>1. cycle.review_passed \in BOOLEAN
          BY TypeParts DEF CycleOK, CycleRecord
        <5> QED
          BY <3>1, <5>1 DEF Blocked, Ended
      <4> QED
        BY <2>1, <3>1, <4>1 DEF ReviewerIsLatest
    <3> QED
      BY <1>1, <1>4, <2>1, <3>1 DEF ClosedByReview
  <2> QED
    BY <2>2, <2>3, <2>4 DEF InOrder
<1> QED
  BY <1>2, <1>5 DEF Judging

\* A run that is done finds everything at rest: its fan-out has the cycle for itself.
LEMMA ReportDoneJudging ==
    ASSUME TypeOK, Core, Judging, ReportRun(TRUE), worker[codex.run] = "Running", codex.run \in Run
    PROVE  Judging' /\ VerdictsKept
<1> DEFINE n == codex.run
<1>1. WorkOK /\ HandoverOK
  BY TypeParts
<1>2. UNCHANGED <<cycle, rounds, review, evaluation, assign, gate>> /\ codex' = Resting
  BY DEF ReportRun, Rests
<1>3. /\ \A k \in Run : worker'[k] = (IF k = n THEN "Done" ELSE worker[k])
      /\ \A k \in Run : fan'[k] = (IF k = n THEN "draft" ELSE fan[k])
  BY <1>1 DEF ReportRun, WorkOK, HandoverOK
<1>4. n = rounds /\ cycle.status \notin Judged /\ review[n] = "none" /\ evaluation[n] = "none"
  BY JudgingParts DEF Core, LatestLives, JudgedAtRest, NoneLive, LiveRun, DoneBeforeJudged
<1>5. VerdictsKept
  BY <1>2 DEF VerdictsKept
<1>6. DoneBeforeJudged'
  BY <1>1, <1>2, <1>3, <1>4, JudgingParts DEF DoneBeforeJudged, WorkOK, Run
<1>7. GatesInFavour' /\ EvaluationCounts' /\ LatestIsJudged' /\ PassedLater'
  BY <1>2, JudgingParts DEF GatesInFavour, GateInFavour, EvaluationCounts, LatestIsJudged, PassedLater
<1>8. (overtaken => overtaken') /\ (~overtaken' => NoJobs)
  BY ReportsAtRest DEF ReportRun
<1>9. ASSUME ~overtaken'
      PROVE  InOrder'
  <2>1. FansAlone /\ ObsoleteLater /\ ReviewCounts /\ AttachedIsDone /\ ReviewerIsLatest /\ ClosedByReview
    BY <1>8, <1>9, JudgingParts
  <2>2. /\ \A k \in Run : fan[k] = "idle"
        /\ \A g \in Gates : gate'[g].at = "idle"
        /\ \A k \in Assignment : assign'[k] = "idle"
    BY <1>2, <1>8, <1>9 DEF NoJobs, NoGate
  <2>3. cycle'.status # "Reviewing"
    BY <1>2, <1>4 DEF Judged
  <2>4. FansAlone'
    BY <1>2, <1>3, <1>4, <2>2, <2>3 DEF FansAlone, FanAlone, Resting
  <2>5. ObsoleteLater' /\ ReviewerIsLatest' /\ ClosedByReview'
    BY <2>3 DEF ObsoleteLater, ReviewerIsLatest, ClosedByReview
  <2>6. ReviewCounts'
    BY <1>2, <2>1 DEF ReviewCounts
  <2>7. AttachedIsDone'
    BY <1>2, <1>3, <2>1 DEF AttachedIsDone
  <2> QED
    BY <2>4, <2>5, <2>6, <2>7 DEF InOrder
<1> QED
  BY <1>5, <1>6, <1>7, <1>9 DEF Judging, Standing

LEMMA WorkerStepJudging ==
    ASSUME TypeOK, Core, Judging, WorkerStep
    PROVE  Judging' /\ VerdictsKept
<1>1. WorkOK /\ VerdictsOK /\ HandoverOK /\ GateOK /\ CodexOK
  BY TypeParts
<1>2. ASSUME NEW n \in Run, PickRun(n) \/ RecoverRun(n) \/ PickReview(n)
      PROVE  Judging' /\ VerdictsKept
  <2>1. UNCHANGED <<cycle, rounds, worker, review, evaluation, fan, gate, assign, overtaken>>
        /\ codex'.task # "evaluation"
    BY <1>2 DEF PickRun, RecoverRun, PickReview, Task, entities, jobs, steady, timing
  <2> QED
    BY <2>1, QuietJudging
<1>3. CASE ClaimRun \/ StartRun
  <2>1. UNCHANGED <<cycle, rounds, review, evaluation, fan, gate, assign, overtaken>>
    BY <1>3 DEF ClaimRun, StartRun, MovesRun, jobs, steady, timing
  <2>2. \A n \in Run : worker'[n] = worker[n] \/ (worker[n] \in LiveRun /\ worker'[n] \in LiveRun)
    BY <1>1, <1>3 DEF ClaimRun, StartRun, MovesRun, WorkOK, LiveRun
  <2>3. codex'.task # "evaluation"
    BY <1>1, <1>3 DEF ClaimRun, StartRun, MovesRun, Busy, Turns, Rests, Resting, CodexOK
  <2>4. VerdictsKept
    BY <2>1 DEF VerdictsKept
  <2> QED
    BY <2>1, <2>2, <2>3, <2>4, WorkerMoveJudging
<1>4. CASE ClaimReview \/ StartReview
  <2>1. UNCHANGED <<cycle, rounds, worker, evaluation, fan, gate, assign, overtaken>>
    BY <1>4 DEF ClaimReview, StartReview, MovesReview, jobs, steady, timing
  <2>2. \A n \in Run : review'[n] = review[n] \/ review[n] \in OpenReview
    BY <1>1, <1>4 DEF ClaimReview, StartReview, MovesReview, VerdictsOK, OpenReview
  <2>3. codex'.task # "evaluation"
    BY <1>1, <1>4 DEF ClaimReview, StartReview, MovesReview, Busy, Turns, Rests, Resting, CodexOK
  <2>4. VerdictsKept
    BY <2>1, <2>2 DEF VerdictsKept, Concluded, NotApproved, OpenReview
  <2> QED
    BY <2>1, <2>2, <2>3, <2>4, WorkerMoveJudging
<1>5. CASE CloseEvaluation \/ StartEvaluation
  <2>1. UNCHANGED <<cycle, rounds, worker, review, fan, gate, assign, overtaken>>
    BY <1>5 DEF CloseEvaluation, StartEvaluation, jobs, steady, timing
  <2>2. \A n \in Run : \/ evaluation'[n] = evaluation[n]
                       \/ /\ evaluation[n] \in OpenEvaluation
                          /\ evaluation'[n] = "Closed" =>
                                codex.task = "evaluation" /\ codex.at = "close" /\ codex.run = n
    BY <1>1, <1>5 DEF CloseEvaluation, StartEvaluation, Busy, VerdictsOK, OpenEvaluation
  <2>3. codex'.task = "evaluation" => codex.task = "evaluation" /\ codex'.run = codex.run /\ codex'.at # "close"
    BY <1>1, <1>5 DEF CloseEvaluation, StartEvaluation, Busy, Turns, Rests, Resting, CodexOK
  <2>4. VerdictsKept
    BY <2>1, <2>2 DEF VerdictsKept, Settled, OpenEvaluation
  <2> QED
    BY <2>1, <2>2, <2>3, <2>4, WorkerMoveJudging
<1>6. ASSUME NEW n \in Run, PickEvaluation(n)
      PROVE  Judging' /\ VerdictsKept
  BY <1>6, PickEvaluationJudging
<1>7. ASSUME NEW done \in BOOLEAN, ReportRun(done)
      PROVE  Judging' /\ VerdictsKept
  <2>1. UNCHANGED <<cycle, rounds, review, evaluation, assign, gate>> /\ codex'.task = "rest"
    BY <1>7 DEF ReportRun, Rests, Resting
  <2>2. (overtaken => overtaken') /\ (~overtaken' => NoJobs)
    BY <1>7, ReportsAtRest DEF ReportRun
  <2>3. CASE done = TRUE /\ worker[codex.run] = "Running" /\ codex.run \in Run
    BY <1>7, <2>3, ReportDoneJudging
  <2>4. CASE ~(done = TRUE /\ worker[codex.run] = "Running" /\ codex.run \in Run)
    <3>1. UNCHANGED fan
      BY <1>1, <1>7, <2>4 DEF ReportRun, HandoverOK
    <3>2. \A n \in Run : worker'[n] = worker[n] \/ worker[n] \in LiveRun
      BY <1>1, <1>7 DEF ReportRun, WorkOK, LiveRun
    <3>3. VerdictsKept
      BY <2>1 DEF VerdictsKept
    <3> QED
      BY <2>1, <2>2, <3>1, <3>2, <3>3, VerdictJudging
  <2> QED
    BY <2>3, <2>4
<1>8. ASSUME NEW verdict \in NotApproved \cup {"Approved"}, ReportReview(verdict)
      PROVE  Judging' /\ VerdictsKept
  <2>1. UNCHANGED <<cycle, rounds, worker, evaluation, assign, fan>> /\ codex'.task = "rest"
    BY <1>8 DEF ReportReview, Rests, Resting
  <2>2. (overtaken => overtaken') /\ (~overtaken' => NoJobs)
    BY <1>8, ReportsAtRest DEF ReportReview
  <2>3. \A n \in Run : review'[n] = review[n] \/ review[n] \in OpenReview
    BY <1>1, <1>8 DEF ReportReview, VerdictsOK, OpenReview
  <2>4. \A g \in Gates : gate'[g] = gate[g] \/ gate'[g].at = "look"
    BY <1>1, <1>8 DEF ReportReview, StartGate, GateOK
  <2>5. VerdictsKept
    BY <2>1, <2>3 DEF VerdictsKept, Concluded, NotApproved, OpenReview
  <2> QED
    BY <2>1, <2>2, <2>3, <2>4, <2>5, VerdictJudging
<1>9. ASSUME NEW verdict \in {"Passed", "Failed"}, ReportEvaluation(verdict)
      PROVE  Judging' /\ VerdictsKept
  <2>1. UNCHANGED <<cycle, rounds, worker, review, assign, fan>> /\ codex'.task = "rest"
    BY <1>9 DEF ReportEvaluation, Rests, Resting
  <2>2. (overtaken => overtaken') /\ (~overtaken' => NoJobs)
    BY <1>9, ReportsAtRest DEF ReportEvaluation
  <2>3. \A n \in Run : evaluation'[n] = evaluation[n]
                       \/ (evaluation[n] \in OpenEvaluation /\ evaluation'[n] # "Closed")
    BY <1>1, <1>9 DEF ReportEvaluation, VerdictsOK, OpenEvaluation
  <2>4. \A g \in Gates : gate'[g] = gate[g] \/ gate'[g].at = "look"
    BY <1>1, <1>9 DEF ReportEvaluation, StartGate, GateOK
  <2>5. VerdictsKept
    BY <2>1, <2>3 DEF VerdictsKept, Settled, OpenEvaluation
  <2> QED
    BY <2>1, <2>2, <2>3, <2>4, <2>5, VerdictJudging
<1> QED
  BY <1>2, <1>3, <1>4, <1>5, <1>6, <1>7, <1>8, <1>9 DEF WorkerStep

\* Every step keeps what the gates judge, and the verdicts that stand.
LEMMA StepJudging ==
    ASSUME TypeOK, Core, Judging, [Next]_vars
    PROVE  Judging' /\ VerdictsKept
<1>1. CASE JobStep
  BY <1>1, AssignStepJudging, FanStepJudging, GateStepJudging, OtherStepJudging DEF JobStep
<1>2. CASE ClockStep
  BY <1>2, RunClockJudging, OtherStepJudging DEF ClockStep
<1>3. CASE UNCHANGED vars
  <2>1. UNCHANGED <<cycle, rounds, worker, review, evaluation, fan, gate, assign, overtaken, codex>>
    BY <1>3 DEF vars, entities, jobs, steady, timing
  <2> QED
    BY <2>1, QuietJudging
<1> QED
  BY <1>1, <1>2, <1>3, WorkerStepJudging, OtherStepJudging DEF Next

LEMMA JudgingAlways == Spec => []Judging
<1>1. Init => Judging
  <2> SUFFICES ASSUME Init PROVE Judging
    OBVIOUS
  <2>1. /\ cycle.status = "Planned" /\ cycle.review_passed = FALSE /\ cycle.evaluation = 0 /\ 0 \notin Run
        /\ \A n \in Run : /\ worker[n] = "none" /\ review[n] = "none" /\ evaluation[n] = "none"
                          /\ fan[n] = "idle"
        /\ \A g \in Gates : gate[g].at = "idle"
    BY DEF Init, Planned, NoGate, Run
  <2>2. DoneBeforeJudged /\ GatesInFavour /\ EvaluationCounts /\ LatestIsJudged /\ PassedLater
    BY <2>1 DEF DoneBeforeJudged, GatesInFavour, GateInFavour, EvaluationCounts, LatestIsJudged,
                PassedLater, Passing, Judged
  <2>3. FansAlone /\ ObsoleteLater /\ ReviewCounts /\ AttachedIsDone /\ ReviewerIsLatest /\ ClosedByReview
    BY <2>1 DEF FansAlone, FanAlone, ObsoleteLater, ReviewCounts, AttachedIsDone, ReviewerIsLatest,
                ClosedByReview, Passing
  <2> QED
    BY <2>2, <2>3, JudgingParts
<1> QED
  BY <1>1, StepJudging, TypeCorrect, CoreAlways, PTL DEF Spec

\* A review that was concluded, and an evaluation that passed, failed or was closed,
\* keep their verdict, although the worker, a clock and the gates of any round write it.
THEOREM VerdictsStand == Spec => [][VerdictsKept]_vars
<1>1. TypeOK /\ Core /\ Judging /\ [Next]_vars => [VerdictsKept]_vars
  BY StepJudging
<1> QED
  BY <1>1, TypeCorrect, CoreAlways, JudgingAlways, PTL DEF Spec

\* An evaluation of the run that is judged is never closed as obsolete while its review
\* may still approve the run.
THEOREM ClosedForItsReview == Spec => []ReviewCanPass
<1>1. TypeOK /\ Judging => ReviewCanPass
  <2> SUFFICES ASSUME TypeOK, Judging, ~overtaken, cycle.status = "Reviewing",
                      cycle.evaluation = cycle.implementer, cycle.evaluation # 0,
                      evaluation[cycle.evaluation] = "Closed"
               PROVE  review[cycle.evaluation] \in NotApproved
    BY DEF ReviewCanPass
  <2>1. cycle.implementer = rounds
    BY JudgingParts DEF LatestIsJudged, Judged
  <2>2. cycle.evaluation \in Run
    BY TypeParts, FactoryBounds DEF CycleOK, CycleRecord, Run
  <2> QED
    BY <2>1, <2>2, JudgingParts DEF ClosedByReview
<1> QED
  BY <1>1, TypeCorrect, JudgingAlways, PTL

\* The steps that complete a cycle: of a gate, or after the approval of a person.
LEMMA CompletionStep ==
    ASSUME TypeOK, [Next]_vars, cycle.status # "Complete", cycle'.status = "Complete"
    PROVE  cycle.status = "Proving" /\ GatesPassed
<1>0. CycleOK
  BY TypeParts
<1>1. CASE CompleteByPerson
  BY <1>0, <1>1 DEF CompleteByPerson, InStatus, GatesPassed, CycleOK, CycleRecord
<1>2. ASSUME NEW g \in Gates, GateStep(g)
      PROVE  cycle.status = "Proving" /\ GatesPassed
  <2>1. CASE CompleteByGate(g)
    BY <1>0, <2>1 DEF CompleteByGate, Posts, InStatus, GatesPassed, CycleOK, CycleRecord
  <2>2. CASE ~CompleteByGate(g)
    BY <1>0, <1>2, <2>2
       DEF GateStep, ReadCycle, ReadE2e, AwaitE2e, ReportE2e, PassReview, UpdateProof, ReadGates,
           PassEvaluation, AwaitProving, FindProof, MarkReady, ReadProving, AttachProofPacket,
           RequestHumanCompletionApproval, RequestChanges, FailCycle, CloseObsolete,
           RejectProof, Posts, SentBack, CycleOK, CycleRecord
  <2> QED
    BY <2>1, <2>2
<1>3. ASSUME NEW n \in Run, FanStep(n)
      PROVE  FALSE
  BY <1>3, FanStepEffect DEF FanEffect
<1>4. ASSUME NEW n \in Run, AssignStep(n)
      PROVE  FALSE
  BY <1>0, <1>4 DEF AssignStep, ConfigureRun, StartWork, AttachWorkerRun, CycleOK, CycleRecord
<1>5. ASSUME NEW n \in Assignment, AssignmentFailed(n)
      PROVE  FALSE
  BY <1>0, <1>5 DEF AssignmentFailed, Fails, CycleOK, CycleRecord
<1>6. ASSUME NEW n \in Run, HandleFailed(n)
      PROVE  FALSE
  BY <1>0, <1>6 DEF HandleFailed, Fails, CycleOK, CycleRecord
<1>7. ~ApproveHumanCompletion /\ ~CycleTimesOut
  BY <1>0 DEF ApproveHumanCompletion, CycleTimesOut, Fails, CycleOK, CycleRecord
<1>8. cycle' # cycle
  OBVIOUS
<1>9. ~WorkerStep
  BY <1>8 DEF WorkerStep, PickRun, RecoverRun, PickReview, PickEvaluation, ClaimRun, StartRun,
     MovesRun, ReportRun, ClaimReview, StartReview, MovesReview, ReportReview, CloseEvaluation,
     StartEvaluation, ReportEvaluation
<1>10. ~ServerCrash /\ ~WorkerCrash /\ ~UNCHANGED vars
  BY <1>8 DEF ServerCrash, WorkerCrash, vars
<1>11. \A n \in Run : ~RunTimesOut(n) /\ ~ReviewTimesOut(n) /\ ~EvaluationTimesOut(n) /\ ~ProofTimesOut(n)
  BY <1>8 DEF RunTimesOut, ReviewTimesOut, EvaluationTimesOut, ProofTimesOut
<1> QED
  BY <1>1, <1>2, <1>3, <1>4, <1>5, <1>6, <1>7, <1>9, <1>10, <1>11 DEF Next, JobStep, ClockStep

\* A cycle that completes has its latest run as implementer, and the review and the
\* evaluation that it names came out in favour, whatever crashed on the way.
THEOREM CompletesInFavour ==
    Spec => [][~overtaken /\ cycle.status # "Complete" /\ cycle'.status = "Complete" => InFavour]_vars
<1>1. ASSUME TypeOK, Judging, [Next]_vars, ~overtaken,
             cycle.status # "Complete", cycle'.status = "Complete"
      PROVE  InFavour
  <2>1. CycleOK
    BY <1>1, TypeParts
  <2>2. cycle.status = "Proving" /\ cycle.review_passed = TRUE
    BY <1>1, <2>1, CompletionStep DEF GatesPassed, CycleOK, CycleRecord
  <2>3. /\ LatestIsJudged /\ EvaluationCounts /\ ReviewCounts
        /\ cycle.status \in Judged \cap Passing /\ 0 \notin Run
    BY <1>1, <2>2, JudgingParts DEF Judged, Passing, Run
  <2> QED
    BY <2>2, <2>3 DEF LatestIsJudged, EvaluationCounts, ReviewCounts, InFavour
<1> QED
  BY <1>1, TypeCorrect, JudgingAlways, PTL DEF Spec

-----------------------------------------------------------------------------
(***************************************************************************)
(* The cycle that nothing disturbs.                                        *)
(*                                                                         *)
(* Where nothing crashes and no step is out of its time, a cycle is always *)
(* in one of eleven phases.  A phase says which integration is in flight   *)
(* and how far it came, what the worker has to do, and that nothing else   *)
(* is open: so whenever no integration is in flight the worker has work,   *)
(* or a person is waited for.  Each phase leads to the next, or to the end *)
(* of the cycle.                                                           *)
(***************************************************************************)
NoAssignment == \A n \in Assignment : assign[n] = "idle"
NoFanOut == \A n \in Run : fan[n] = "idle"
NoLoss == \A n \in Run : lost[n] = "idle"
NoGates == \A g \in Gates : gate[g].at = "idle"
AloneAt(g) == gate[g].at # "idle" /\ \A h \in Gates : h # g => gate[h].at = "idle"

ReviewGate == <<"review", rounds>>
EvaluationGate == <<"evaluation", rounds>>
LatestLive == rounds \in Run /\ worker[rounds] \in LiveRun

\* Nothing of an older run is open.
OthersClosed ==
    \A n \in Run : n # rounds => review[n] \notin OpenReview /\ evaluation[n] \notin OpenEvaluation

\* What a cycle that was sent back leaves: the evaluation may still have to be closed,
\* and the packet to be rejected.
Obsolete(n) ==
    \/ gate[<<"review", n>>].at = "obsolete" /\ cycle.evaluation = n
    \/ gate[<<"review", n>>].at = "close" /\ gate[<<"review", n>>].evaluation = n
CleaningUp ==
    /\ \A g \in Gates : /\ gate[g].at \in {"idle", "obsolete", "close", "find", "reject", "rejectProof"}
                        /\ gate[g].at = "find" => Verdict(g) = "Failed"
    /\ \A n \in Run : review[n] \notin OpenReview
    /\ \A n \in Run : evaluation[n] \in OpenEvaluation => Obsolete(n)

AssignPlace(k) ==
    \/ /\ assign[k] = "start" /\ cycle.status = "Planned" /\ k = 1
       /\ lane # "L1" => rounds = 1 /\ LatestLive
    \/ /\ assign[k] = "configure" /\ k = rounds + 1 /\ k \in Run
       /\ IF k = 1 /\ lane = "L3" THEN cycle.status = "Planned" ELSE cycle.status = "InProgress"
    \/ assign[k] = "attach" /\ k = rounds /\ cycle.status = "InProgress" /\ LatestLive
    \/ assign[k] = "fail" /\ cycle.status = "InProgress"
AssigningTo(k) ==
    /\ AssignPlace(k) /\ \A j \in Assignment : j # k => assign[j] = "idle"
    /\ NoFanOut /\ NoLoss /\ human = "idle" /\ CleaningUp
Assigning == \E k \in Assignment : AssigningTo(k)

Working ==
    /\ cycle.status = "InProgress" /\ LatestLive /\ CleaningUp
    /\ NoAssignment /\ NoFanOut /\ NoLoss /\ human = "idle"

Losing ==
    /\ cycle.status = "InProgress" /\ \E n \in Run : lost[n] # "idle"
    /\ NoAssignment /\ NoFanOut /\ NoGates /\ human = "idle"

FanPlace(place) ==
    /\ place \in Early \ {"tested", "submit"} => cycle.status = "InProgress"
    /\ place \in {"tested", "submit"} => cycle.status = "Testing" /\ cycle.worker_done = TRUE
    /\ place \notin Early => cycle.status = "Reviewing" /\ cycle.review_passed = FALSE
    /\ place = "attachEvaluation" => cycle.reviewer = rounds
    /\ place # "draft" => proof[rounds] = "Drafting"
    /\ place \notin {"draft", "request"} => review[rounds] \in OpenReview
    /\ place \notin {"draft", "request", "queue"} => evaluation[rounds] \in OpenEvaluation
FanningOut ==
    /\ rounds \in Run /\ fan[rounds] # "idle" /\ FanPlace(fan[rounds])
    /\ \A n \in Run : n # rounds => fan[n] = "idle"
    /\ NoAssignment /\ NoLoss /\ NoGates /\ human = "idle" /\ OthersClosed

\* The latest run is handed over, with its review and its evaluation.
HandedOver ==
    /\ cycle.status = "Reviewing" /\ rounds \in Run
    /\ cycle.evaluation = rounds /\ cycle.reviewer = rounds /\ proof[rounds] = "Drafting"
    /\ NoAssignment /\ NoFanOut /\ NoLoss /\ human = "idle" /\ OthersClosed

UnderReview ==
    /\ HandedOver /\ cycle.review_passed = FALSE /\ NoGates
    /\ review[rounds] \in OpenReview /\ evaluation[rounds] \in OpenEvaluation

ReviewPlace(place) ==
    \/ /\ place \in {"look", "e2e", "reportE2e", "passReview"}
       /\ review[rounds] = "Approved" /\ evaluation[rounds] \in OpenEvaluation
    \/ place \in {"look", "sendBack"} /\ review[rounds] = "ChangesRequested"
    \/ place \in {"look", "failCycle"} /\ review[rounds] \in {"Escalated", "Failed"}
AfterReview ==
    HandedOver /\ cycle.review_passed = FALSE /\ AloneAt(ReviewGate) /\ ReviewPlace(gate[ReviewGate].at)

UnderEvaluation ==
    /\ HandedOver /\ cycle.review_passed = TRUE
    /\ \A g \in Gates : gate[g].at # "idle" => g = ReviewGate /\ gate[g].at \in {"verdict", "attachDraft", "ready"}
    /\ review[rounds] = "Approved" /\ evaluation[rounds] \in OpenEvaluation

EvaluationPlace(place) ==
    \/ place \in {"look", "e2e", "reportE2e"} /\ evaluation[rounds] = "Passed"
    \/ place \in {"awaitE2e", "ready"} /\ evaluation[rounds] = "Passed" /\ cycle.e2e_ok = TRUE
    \/ /\ place = "passEvaluation" /\ evaluation[rounds] = "Passed" /\ cycle.e2e_ok = TRUE
       /\ gate[EvaluationGate].evaluation = rounds
    \/ place \in {"look", "sendBack"} /\ evaluation[rounds] = "Failed"
AfterEvaluation ==
    /\ HandedOver /\ cycle.review_passed = TRUE /\ review[rounds] = "Approved"
    /\ AloneAt(EvaluationGate) /\ EvaluationPlace(gate[EvaluationGate].at)

\* Both verdicts are in the run's favour: what is left is its packet, and the person.
Attached == cycle.proof_attached = TRUE /\ cycle.proof = rounds /\ proof[rounds] = "Ready"
BothPassed ==
    /\ rounds \in Run /\ review[rounds] = "Approved" /\ evaluation[rounds] = "Passed"
    /\ cycle.evaluation = rounds /\ cycle.reviewer = rounds
    /\ cycle.review_passed = TRUE /\ cycle.evaluation_passed = TRUE /\ cycle.e2e_ok = TRUE
    /\ NoAssignment /\ NoFanOut /\ NoLoss /\ OthersClosed

ProvingPlace(place) ==
    \/ /\ place \in {"proving", "find"} /\ gate[EvaluationGate].evaluation = rounds
       /\ proof[rounds] = "Drafting" /\ cycle.proof_attached = FALSE /\ cycle.proof = 0
    \/ /\ place \in {"mark", "markReady"} /\ gate[EvaluationGate].proof = rounds
       /\ proof[rounds] = "Drafting" /\ cycle.proof_attached = FALSE
    \/ /\ place \in {"attached", "attachProof"} /\ gate[EvaluationGate].proof = rounds
       /\ proof[rounds] = "Ready" /\ cycle.proof_attached = FALSE
    \/ place \in {"decide", "complete", "askPerson"} /\ Attached
Proved ==
    /\ cycle.status = "Proving" /\ BothPassed /\ human = "idle"
    /\ AloneAt(EvaluationGate) /\ ProvingPlace(gate[EvaluationGate].at)

AwaitingPerson ==
    cycle.status = "AwaitingHumanCompletionApproval" /\ BothPassed /\ Attached /\ NoGates /\ human = "idle"
PersonAnswered == cycle.status = "Proving" /\ BothPassed /\ Attached /\ NoGates /\ human # "idle"

Phase ==
    \/ Assigning \/ Working \/ Losing \/ FanningOut \/ UnderReview \/ AfterReview
    \/ UnderEvaluation \/ AfterEvaluation \/ Proved \/ AwaitingPerson \/ PersonAnswered

\* What is under way is what the worker is at, and it evaluates only what may pass.
WorkerFollows ==
    /\ \A n \in Run : worker[n] = "Claimed" => codex = Task("run", n, "start")
    /\ \A n \in Run : review[n] = "Claimed" => codex = Task("review", n, "start")
    /\ \A n \in Run : review[n] = "Reviewing" => codex = Task("review", n, "work")
    /\ \A n \in Run : evaluation[n] = "Running" => codex = Task("evaluation", n, "work")
    /\ codex.task = "evaluation" /\ codex.at \in {"start", "work"} =>
         /\ cycle.status = "Reviewing" /\ cycle.review_passed = TRUE /\ codex.run = rounds
         /\ evaluation[rounds] = IF codex.at = "start" THEN "Queued" ELSE "Running"

\* A packet is attached only by the gate that completes the cycle.
Unattached == cycle.status \in Unjudged \cup {"Reviewing"} => cycle.proof = 0 /\ cycle.proof_attached = FALSE

OnTrack == timedOut = FALSE /\ (cycle.status \notin Ended => WorkerFollows /\ Phase)
OnSchedule == Unattached /\ (overtaken => disturbances > 0) /\ (disturbances = 0 => OnTrack)

\* In which phase a job can be in flight, and which phases are at rest.
LEMMA JobPhase ==
    ASSUME TypeOK, Phase
    PROVE  /\ \A k \in Assignment : assign[k] # "idle" => AssigningTo(k)
           /\ \A n \in Run : fan[n] # "idle" => FanningOut /\ n = rounds
           /\ \A n \in Run : lost[n] # "idle" => Losing
           /\ \A g \in Gates : gate[g].at # "idle" =>
                \/ Assigning \/ Working
                \/ (AfterReview \/ UnderEvaluation) /\ g = ReviewGate
                \/ (AfterEvaluation \/ Proved) /\ g = EvaluationGate
           /\ human # "idle" => PersonAnswered
           /\ NoJobs => Working \/ UnderReview \/ UnderEvaluation \/ AwaitingPerson
<1> USE DEF Phase, NoAssignment, NoFanOut, NoLoss, NoGates
<1>1. \A k \in Assignment : AssigningTo(k) => assign[k] # "idle"
  BY DEF AssigningTo, AssignPlace
<1>2. ASSUME NEW k \in Assignment, assign[k] # "idle"
      PROVE  AssigningTo(k)
  BY <1>2 DEF Assigning, AssigningTo, Working, Losing, FanningOut, UnderReview, AfterReview,
     UnderEvaluation, AfterEvaluation, Proved, AwaitingPerson, PersonAnswered, HandedOver, BothPassed
<1>3. ASSUME NEW n \in Run, fan[n] # "idle"
      PROVE  FanningOut /\ n = rounds
  BY <1>3 DEF Assigning, AssigningTo, Working, Losing, FanningOut, UnderReview, AfterReview,
     UnderEvaluation, AfterEvaluation, Proved, AwaitingPerson, PersonAnswered, HandedOver, BothPassed
<1>4. ASSUME NEW n \in Run, lost[n] # "idle"
      PROVE  Losing
  BY <1>4 DEF Assigning, AssigningTo, Working, FanningOut, UnderReview, AfterReview,
     UnderEvaluation, AfterEvaluation, Proved, AwaitingPerson, PersonAnswered, HandedOver, BothPassed
<1>5. ASSUME NEW g \in Gates, gate[g].at # "idle"
      PROVE  \/ Assigning \/ Working
             \/ (AfterReview \/ UnderEvaluation) /\ g = ReviewGate
             \/ (AfterEvaluation \/ Proved) /\ g = EvaluationGate
  BY <1>5 DEF Losing, FanningOut, UnderReview, AfterReview, UnderEvaluation, AfterEvaluation, Proved,
     AwaitingPerson, PersonAnswered, AloneAt
<1>6. ASSUME human # "idle"
      PROVE  PersonAnswered
  BY <1>6 DEF Assigning, AssigningTo, Working, Losing, FanningOut, UnderReview, AfterReview,
     UnderEvaluation, AfterEvaluation, Proved, AwaitingPerson, HandedOver
<1>7. ASSUME NoJobs
      PROVE  Working \/ UnderReview \/ UnderEvaluation \/ AwaitingPerson
  <2>1. NoGates /\ NoFanOut /\ NoLoss /\ NoAssignment /\ human = "idle"
    BY <1>7 DEF NoJobs, NoGate
  <2>2. ~Assigning
    BY <1>1, <2>1 DEF Assigning
  <2>3. ~Losing /\ ~FanningOut /\ ~PersonAnswered
    BY <2>1 DEF Losing, FanningOut, PersonAnswered
  <2>4. rounds \in Run => ReviewGate \in Gates /\ EvaluationGate \in Gates
    BY DEF ReviewGate, EvaluationGate, Gates
  <2>5. ~AfterReview /\ ~AfterEvaluation /\ ~Proved
    BY <2>1, <2>4 DEF AfterReview, AfterEvaluation, Proved, HandedOver, BothPassed, AloneAt
  <2> QED
    BY <2>2, <2>3, <2>5
<1> QED
  BY <1>2, <1>3, <1>4, <1>5, <1>6, <1>7

\* What a gate that goes on, or ends, leaves alone.
LEMMA GoesTo ==
    ASSUME GateOK, NEW g \in Gates, NEW place, Goes(g, place)
    PROVE  /\ gate'[g].at = place
           /\ \A h \in Gates : h # g => gate'[h] = gate[h]
           /\ place # "idle" => gate'[g].evaluation = gate[g].evaluation /\ gate'[g].proof = gate[g].proof
  BY DEF Goes, GateOK, NoGate

\* The worker still follows what it started, if only something new is open.
LEMMA FollowsOn ==
    ASSUME WorkerFollows, UNCHANGED codex,
           \A n \in Run : worker'[n] = worker[n] \/ worker'[n] # "Claimed",
           \A n \in Run : review'[n] = review[n] \/ review'[n] \notin {"Claimed", "Reviewing"},
           \A n \in Run : evaluation'[n] = evaluation[n] \/ evaluation'[n] # "Running",
           \/ cycle.status # "Reviewing" \/ cycle.review_passed = FALSE
           \/ evaluation[rounds] \notin OpenEvaluation
           \/ /\ UNCHANGED <<cycle.status, cycle.review_passed, rounds>>
              /\ evaluation'[rounds] = evaluation[rounds]
    PROVE  WorkerFollows'
  BY DEF WorkerFollows, OpenEvaluation

\* Assigning a run leads to its being worked on.
LEMMA AssignOnTrack ==
    ASSUME TypeOK, Core, Phase, WorkerFollows, NEW n \in Run, AssignStep(n)
    PROVE  Phase' /\ WorkerFollows'
<1>1. CycleOK /\ WorkOK /\ HandoverOK /\ RestOK /\ n \in Assignment
  BY TypeParts, FactoryBounds DEF Run, Assignment
<1>2. AssigningTo(n)
  BY <1>1, JobPhase DEF AssignStep, ConfigureRun, StartWork, AttachWorkerRun
<1>3. UNCHANGED <<review, evaluation, codex, fan, lost, gate, human, lane, cycle.evaluation>>
  BY <1>1 DEF AssignStep, ConfigureRun, StartWork, AttachWorkerRun, entities, steady, CycleOK, CycleRecord
<1>4. CleaningUp' /\ NoFanOut' /\ NoLoss' /\ human' = "idle"
  BY <1>2, <1>3 DEF AssigningTo, CleaningUp, Obsolete, Verdict, NoFanOut, NoLoss
<1>5. /\ \A place : Assigns(n, place) => assign'[n] = place
      /\ \A place : Assigns(n, place) => \A j \in Assignment : j # n => assign'[j] = "idle"
  BY <1>1, <1>2 DEF Assigns, HandoverOK, AssigningTo
<1>6. cycle.status \in {"Planned", "InProgress"}
  BY <1>2 DEF AssigningTo, AssignPlace
<1>7. WorkerFollows'
  <2>1. \A k \in Run : worker'[k] = worker[k] \/ worker'[k] # "Claimed"
    BY <1>1 DEF AssignStep, ConfigureRun, StartWork, AttachWorkerRun, entities, WorkOK
  <2> QED
    BY <1>3, <1>6, <2>1, FollowsOn
<1>8. ASSUME AssignPlace(n)', \A j \in Assignment : j # n => assign'[j] = "idle"
      PROVE  Phase'
  BY <1>1, <1>4, <1>8 DEF Phase, Assigning, AssigningTo, Assignment
<1>9. CASE ConfigureRun(n)
  <2>1. n = rounds + 1 /\ (IF n = 1 /\ lane = "L3" THEN cycle.status = "Planned" ELSE cycle.status = "InProgress")
    BY <1>2, <1>9 DEF AssigningTo, AssignPlace, ConfigureRun
  <2>2. UNCHANGED <<cycle, lane>> /\ rounds' = n /\ worker'[n] \in LiveRun
        /\ assign'[n] = (IF n = 1 /\ lane = "L3" THEN "start" ELSE "attach")
    BY <1>1, <1>5, <1>9 DEF ConfigureRun, WorkOK, LiveRun, steady
  <2>3. AssignPlace(n)'
    BY <2>1, <2>2 DEF AssignPlace, LatestLive
  <2> QED
    BY <1>5, <1>7, <1>8, <1>9, <2>3 DEF ConfigureRun
<1>10. CASE StartWork(n)
  <2>1. n = 1 /\ cycle.status = "Planned" /\ (lane # "L1" => rounds = 1 /\ LatestLive)
    BY <1>2, <1>10 DEF AssigningTo, AssignPlace, StartWork
  <2>2. UNCHANGED <<lane, rounds, worker>> /\ cycle'.status = "InProgress"
        /\ assign'[n] = (IF lane = "L1" THEN "configure" ELSE "attach")
    BY <1>1, <1>5, <1>10, <2>1 DEF StartWork, InStatus, CycleOK, CycleRecord, entities, steady
  <2>3. lane = "L1" => n = rounds + 1
    BY <1>1, <1>10 DEF StartWork, Core, CreatedAtRest, Pending
  <2>4. AssignPlace(n)'
    BY <2>1, <2>2, <2>3 DEF AssignPlace, LatestLive
  <2>5. \A j \in Assignment : j # n => assign'[j] = "idle"
    BY <1>5, <1>10 DEF StartWork
  <2> QED
    BY <1>7, <1>8, <2>4, <2>5
<1>11. CASE AttachWorkerRun(n)
  <2>1. n = rounds /\ cycle.status = "InProgress" /\ LatestLive
    BY <1>2, <1>11 DEF AssigningTo, AssignPlace, AttachWorkerRun
  <2>2. UNCHANGED <<rounds, worker>> /\ cycle'.status = "InProgress" /\ assign'[n] = "idle"
    BY <1>1, <1>5, <1>11, <2>1 DEF AttachWorkerRun, InStatus, CycleOK, CycleRecord, entities, steady
  <2>3. NoAssignment'
    BY <1>5, <1>11, <2>1, <2>2 DEF AttachWorkerRun, NoAssignment, Assignment, InStatus
  <2> QED
    BY <1>4, <1>7, <2>1, <2>2, <2>3 DEF Phase, Working, LatestLive
<1> QED
  BY <1>9, <1>10, <1>11 DEF AssignStep

\* A run that is handed over has its packet, its review and its evaluation, in this order.
LEMMA FanOnTrack ==
    ASSUME TypeOK, Core, Judging, ~overtaken, Phase, WorkerFollows, NEW n \in Run, FanStep(n)
    PROVE  Phase' /\ WorkerFollows'
<1>1. CycleOK /\ VerdictsOK /\ HandoverOK
  BY TypeParts
<1>2. /\ UNCHANGED <<rounds, worker, codex, assign, gate, lane>> /\ fan[n] # "idle"
      /\ \A k \in Run : k # n => fan'[k] = fan[k]
  BY FanStepFrame
<1>3. FanningOut /\ n = rounds
  BY <1>2, JobPhase
<1>4. UNCHANGED <<lost, human>>
  BY DEF FanStep, DraftProof, RequestReview, QueueEvaluation, ReadStatus, WorkerDone,
         SubmitForReview, AttachReviewRun, AttachEvaluationRun, Advances, steady, timing, entities
<1>5. /\ \A k \in Run : review'[k] = review[k] \/ (k = n /\ review'[n] = "Requested")
      /\ \A k \in Run : evaluation'[k] = evaluation[k] \/ (k = n /\ evaluation'[n] = "Queued")
  BY FanStepFrame
<1>6. cycle.status # "Reviewing" \/ cycle.review_passed = FALSE
  BY <1>2, JudgingParts DEF FansAlone, FanAlone
<1>7. WorkerFollows'
  BY <1>2, <1>5, <1>6, FollowsOn
<1>8. NoAssignment' /\ NoLoss' /\ NoGates' /\ human' = "idle" /\ OthersClosed' /\ rounds' \in Run
  BY <1>2, <1>3, <1>4, <1>5 DEF FanningOut, NoAssignment, NoLoss, NoGates, OthersClosed
<1>9. ASSUME fan'[n] # "idle", FanPlace(fan[n])', fan'[n] = fan'[rounds]
      PROVE  Phase'
  BY <1>2, <1>3, <1>8, <1>9 DEF Phase, FanningOut
<1>10. \A place : Fans(n, place) => fan'[n] = place
  BY <1>1 DEF HandoverOK, Fans
<1>11. FanPlace(fan[n])
  BY <1>3 DEF FanningOut
<1>12. CASE DraftProof(n)
  <2>1. fan[n] = "draft" /\ fan'[n] = "request" /\ proof'[n] = "Drafting" /\ UNCHANGED <<cycle, review, evaluation>>
    BY <1>1, <1>10, <1>12 DEF DraftProof, VerdictsOK
  <2>2. FanPlace(fan[n])'
    BY <1>2, <1>3, <1>11, <2>1 DEF FanPlace, Early
  <2> QED
    BY <1>2, <1>3, <1>7, <1>9, <2>1, <2>2
<1>13. CASE RequestReview(n)
  <2>1. fan[n] = "request" /\ fan'[n] = "queue" /\ review'[n] = "Requested" /\ UNCHANGED <<cycle, proof, evaluation>>
    BY <1>1, <1>10, <1>13 DEF RequestReview, VerdictsOK
  <2>2. FanPlace(fan[n])'
    BY <1>2, <1>3, <1>11, <2>1 DEF FanPlace, Early, OpenReview
  <2> QED
    BY <1>2, <1>3, <1>7, <1>9, <2>1, <2>2
<1>14. CASE QueueEvaluation(n)
  <2>1. fan[n] = "queue" /\ fan'[n] = "look" /\ evaluation'[n] = "Queued" /\ UNCHANGED <<cycle, proof, review>>
    BY <1>1, <1>10, <1>14 DEF QueueEvaluation, VerdictsOK
  <2>2. FanPlace(fan[n])'
    BY <1>2, <1>3, <1>11, <2>1 DEF FanPlace, Early, OpenEvaluation
  <2> QED
    BY <1>2, <1>3, <1>7, <1>9, <2>1, <2>2
<1>15. CASE ReadStatus(n)
  <2>1. /\ fan[n] \in {"look", "tested", "submitted"} /\ UNCHANGED <<cycle, proof, review, evaluation>>
        /\ fan'[n] = NextPost(fan[n])
    BY <1>1, <1>10, <1>15 DEF ReadStatus, entities
  <2>2. /\ fan[n] = "look" => cycle.status = "InProgress"
        /\ fan[n] = "tested" => cycle.status = "Testing" /\ cycle.worker_done = TRUE
        /\ fan[n] = "submitted" => cycle.status = "Reviewing"
    BY <1>11, <2>1 DEF FanPlace, Early
  <2>3. /\ fan[n] = "look" => fan'[n] = "workerDone"
        /\ fan[n] = "tested" => fan'[n] = "submit"
        /\ fan[n] = "submitted" => fan'[n] = "attachReview"
    BY <2>1, <2>2 DEF NextPost, InStatus
  <2>4. FanPlace(fan[n])'
    BY <1>2, <1>3, <1>11, <2>1, <2>2, <2>3 DEF FanPlace, Early
  <2> QED
    BY <1>2, <1>3, <1>7, <1>9, <2>1, <2>3, <2>4
<1>16. CASE WorkerDone(n)
  <2>1. fan[n] = "workerDone" /\ UNCHANGED <<proof, review, evaluation>>
    BY <1>16 DEF WorkerDone, Advances, entities
  <2>2. cycle.status = "InProgress"
    BY <1>11, <2>1 DEF FanPlace, Early
  <2>3. fan'[n] = "tested" /\ cycle'.status = "Testing" /\ cycle'.worker_done = TRUE
    BY <1>1, <1>10, <1>16, <2>2 DEF WorkerDone, Advances, InStatus, CycleOK, CycleRecord
  <2>4. FanPlace(fan[n])'
    BY <1>2, <1>3, <1>11, <2>1, <2>3 DEF FanPlace, Early
  <2> QED
    BY <1>2, <1>3, <1>7, <1>9, <2>3, <2>4
<1>17. CASE SubmitForReview(n)
  <2>1. fan[n] = "submit" /\ UNCHANGED <<proof, review, evaluation>>
    BY <1>17 DEF SubmitForReview, Advances, entities
  <2>2. cycle.status = "Testing" /\ cycle.worker_done = TRUE /\ cycle.review_passed = FALSE
    BY <1>11, <2>1, JudgingParts DEF FanPlace, PassedLater, Unjudged
  <2>3. fan'[n] = "submitted" /\ cycle'.status = "Reviewing" /\ cycle'.review_passed = FALSE
    BY <1>1, <1>10, <1>17, <2>2 DEF SubmitForReview, Advances, InStatus, CycleOK, CycleRecord
  <2>4. FanPlace(fan[n])'
    BY <1>2, <1>3, <1>11, <2>1, <2>3 DEF FanPlace, Early
  <2> QED
    BY <1>2, <1>3, <1>7, <1>9, <2>3, <2>4
<1>18. CASE AttachReviewRun(n)
  <2>1. fan[n] = "attachReview" /\ UNCHANGED <<proof, review, evaluation>>
    BY <1>18 DEF AttachReviewRun, Advances, entities
  <2>2. cycle.status = "Reviewing" /\ cycle.review_passed = FALSE
    BY <1>11, <2>1 DEF FanPlace, Early
  <2>3. /\ fan'[n] = "attachEvaluation" /\ cycle'.status = "Reviewing" /\ cycle'.review_passed = FALSE
        /\ cycle'.reviewer = n
    BY <1>1, <1>10, <1>18, <2>2 DEF AttachReviewRun, Advances, InStatus, CycleOK, CycleRecord
  <2>4. FanPlace(fan[n])'
    BY <1>2, <1>3, <1>11, <2>1, <2>3 DEF FanPlace, Early
  <2> QED
    BY <1>2, <1>3, <1>7, <1>9, <2>3, <2>4
<1>19. CASE AttachEvaluationRun(n)
  <2>1. fan[n] = "attachEvaluation" /\ UNCHANGED <<proof, review, evaluation>>
    BY <1>19 DEF AttachEvaluationRun, Advances, entities
  <2>2. /\ cycle.status = "Reviewing" /\ cycle.review_passed = FALSE /\ cycle.reviewer = rounds
        /\ review[n] \in OpenReview /\ evaluation[n] \in OpenEvaluation /\ proof[n] = "Drafting"
    BY <1>3, <1>11, <2>1 DEF FanPlace, Early
  <2>3. /\ fan'[n] = "idle" /\ cycle'.status = "Reviewing" /\ cycle'.review_passed = FALSE
        /\ cycle'.reviewer = rounds /\ cycle'.evaluation = n
    BY <1>1, <1>10, <1>19, <2>2 DEF AttachEvaluationRun, Advances, InStatus, CycleOK, CycleRecord
  <2>4. NoFanOut'
    BY <1>2, <1>3, <2>3 DEF FanningOut, NoFanOut
  <2>5. UnderReview'
    BY <1>2, <1>3, <1>8, <2>1, <2>2, <2>3, <2>4 DEF UnderReview, HandedOver
  <2> QED
    BY <1>7, <2>5 DEF Phase
<1> QED
  BY <1>12, <1>13, <1>14, <1>15, <1>16, <1>17, <1>18, <1>19 DEF FanStep

\* A run that ended unfinished ends its cycle.
LEMMA LossOnTrack ==
    ASSUME TypeOK, Phase, WorkerFollows, NEW n \in Run, HandleFailed(n)
    PROVE  WorkerFollows' /\ (Phase' \/ cycle'.status \in Ended)
<1>1. CycleOK /\ HandoverOK
  BY TypeParts
<1>2. Losing
  BY JobPhase DEF HandleFailed
<1>3. UNCHANGED <<rounds, worker, review, evaluation, codex, assign, fan, gate, human>>
  BY DEF HandleFailed, entities
<1>4. cycle.status = "InProgress"
  BY <1>2 DEF Losing
<1>5. WorkerFollows'
  BY <1>3, <1>4, FollowsOn
<1>6. CASE lost[n] = "look"
  <2>1. UNCHANGED cycle /\ lost'[n] = "fail"
    BY <1>1, <1>4, <1>6 DEF HandleFailed, HandoverOK, Failable, CycleStates, Ended
  <2>2. Losing'
    BY <1>2, <1>3, <2>1 DEF Losing, NoAssignment, NoFanOut, NoGates
  <2> QED
    BY <1>5, <2>2 DEF Phase
<1>7. CASE lost[n] = "fail"
  <2>1. cycle'.status = "Failed"
    BY <1>1, <1>4, <1>7 DEF HandleFailed, CanFail, Fails, Ended, CycleOK, CycleRecord
  <2> QED
    BY <1>5, <2>1 DEF Ended
<1> QED
  BY <1>6, <1>7 DEF HandleFailed

\* So does a run that could not be created.
LEMMA FailureOnTrack ==
    ASSUME TypeOK, Phase, NEW k \in Assignment, AssignmentFailed(k)
    PROVE  cycle'.status \in Ended
<1>1. assign[k] = "fail" /\ CycleOK
  BY TypeParts DEF AssignmentFailed
<1>2. cycle.status = "InProgress"
  BY <1>1, JobPhase DEF AssigningTo, AssignPlace
<1> QED
  BY <1>1, <1>2 DEF AssignmentFailed, CanFail, Fails, Ended, CycleOK, CycleRecord

\* The person's approval leads to the completion of the cycle.
LEMMA PersonOnTrack ==
    ASSUME TypeOK, Phase, WorkerFollows, ApproveHumanCompletion \/ CompleteByPerson
    PROVE  WorkerFollows' /\ (Phase' \/ cycle'.status \in Ended)
<1>1. CycleOK /\ RestOK
  BY TypeParts
<1>2. UNCHANGED <<rounds, worker, review, evaluation, proof, codex, assign, fan, lost, gate>>
  BY DEF ApproveHumanCompletion, CompleteByPerson, entities
<1>3. CASE ApproveHumanCompletion
  <2>1. cycle.status = "AwaitingHumanCompletionApproval"
    BY <1>3 DEF ApproveHumanCompletion, InStatus
  <2>2. AwaitingPerson
    BY <2>1 DEF Phase, Assigning, AssigningTo, AssignPlace, Working, Losing, FanningOut, FanPlace, HandedOver,
       UnderReview, AfterReview, UnderEvaluation, AfterEvaluation, Proved, PersonAnswered, Early
  <2>3. /\ cycle'.status = "Proving" /\ human' = "look"
        /\ UNCHANGED <<cycle.evaluation, cycle.reviewer, cycle.review_passed, cycle.evaluation_passed,
                       cycle.e2e_ok, cycle.proof_attached, cycle.proof>>
    BY <1>1, <1>3, <2>2 DEF ApproveHumanCompletion, AwaitingPerson, BothPassed, Attached, CycleOK, CycleRecord
  <2>4. PersonAnswered'
    BY <1>2, <2>2, <2>3 DEF AwaitingPerson, PersonAnswered, BothPassed, Attached, NoGates, NoAssignment,
       NoFanOut, NoLoss, OthersClosed
  <2>5. WorkerFollows'
    BY <1>2, <2>1, FollowsOn
  <2> QED
    BY <2>4, <2>5 DEF Phase
<1>4. CASE CompleteByPerson
  <2>1. PersonAnswered
    BY <1>4, JobPhase DEF CompleteByPerson
  <2>2. cycle.status = "Proving" /\ GatesPassed
    BY <2>1 DEF PersonAnswered, BothPassed, Attached, GatesPassed
  <2>3. WorkerFollows'
    BY <1>2, <2>2, FollowsOn
  <2>4. CASE human = "look"
    <3>1. human' = "complete" /\ UNCHANGED cycle
      BY <1>4, <2>2, <2>4 DEF CompleteByPerson, InStatus
    <3>2. PersonAnswered'
      BY <1>2, <2>1, <3>1 DEF PersonAnswered, BothPassed, Attached, NoGates, NoAssignment,
         NoFanOut, NoLoss, OthersClosed
    <3> QED
      BY <2>3, <3>2 DEF Phase
  <2>5. CASE human = "complete"
    <3>1. cycle'.status = "Complete"
      BY <1>1, <1>4, <2>2, <2>5 DEF CompleteByPerson, InStatus, CycleOK, CycleRecord
    <3> QED
      BY <2>3, <3>1 DEF Ended
  <2> QED
    BY <1>4, <2>4, <2>5 DEF CompleteByPerson
<1> QED
  BY <1>3, <1>4

\* Each place of a gate has its step.
LEMMA GateStepAt ==
    ASSUME NEW g \in Gates, GateStep(g)
    PROVE  /\ gate[g].at = "look" => ReadCycle(g)
           /\ gate[g].at = "e2e" => ReadE2e(g)
           /\ gate[g].at = "awaitE2e" => AwaitE2e(g)
           /\ gate[g].at = "reportE2e" => ReportE2e(g)
           /\ gate[g].at = "passReview" => PassReview(g)
           /\ gate[g].at \in {"verdict", "attachDraft"} => UpdateProof(g)
           /\ gate[g].at = "ready" => ReadGates(g)
           /\ gate[g].at = "passEvaluation" => PassEvaluation(g)
           /\ gate[g].at = "proving" => AwaitProving(g)
           /\ gate[g].at = "find" => FindProof(g)
           /\ gate[g].at \in {"mark", "markReady"} => MarkReady(g)
           /\ gate[g].at \in {"attached", "decide"} => ReadProving(g)
           /\ gate[g].at = "attachProof" => AttachProofPacket(g)
           /\ gate[g].at = "askPerson" => RequestHumanCompletionApproval(g)
           /\ gate[g].at = "complete" => CompleteByGate(g)
           /\ gate[g].at = "sendBack" => RequestChanges(g)
           /\ gate[g].at = "failCycle" => FailCycle(g)
           /\ gate[g].at \in {"obsolete", "close"} => CloseObsolete(g)
           /\ gate[g].at \in {"reject", "rejectProof"} => RejectProof(g)
<1>1. /\ ReadCycle(g) => gate[g].at = "look"
      /\ ReadE2e(g) => gate[g].at = "e2e"
      /\ AwaitE2e(g) => gate[g].at = "awaitE2e"
      /\ ReportE2e(g) => gate[g].at = "reportE2e"
      /\ PassReview(g) => gate[g].at = "passReview"
      /\ UpdateProof(g) => gate[g].at \in {"verdict", "attachDraft"}
      /\ ReadGates(g) => gate[g].at = "ready"
      /\ PassEvaluation(g) => gate[g].at = "passEvaluation"
      /\ AwaitProving(g) => gate[g].at = "proving"
      /\ FindProof(g) => gate[g].at = "find"
  BY DEF ReadCycle, ReadE2e, AwaitE2e, ReportE2e, PassReview, UpdateProof, ReadGates, PassEvaluation,
         AwaitProving, FindProof, Posts, At
<1>2. /\ MarkReady(g) => gate[g].at \in {"mark", "markReady"}
      /\ ReadProving(g) => gate[g].at \in {"attached", "decide"}
      /\ AttachProofPacket(g) => gate[g].at = "attachProof"
      /\ RequestHumanCompletionApproval(g) => gate[g].at = "askPerson"
      /\ CompleteByGate(g) => gate[g].at = "complete"
      /\ RequestChanges(g) => gate[g].at = "sendBack"
      /\ FailCycle(g) => gate[g].at = "failCycle"
      /\ CloseObsolete(g) => gate[g].at \in {"obsolete", "close"}
      /\ RejectProof(g) => gate[g].at \in {"reject", "rejectProof"}
  BY DEF MarkReady, ReadProving, AttachProofPacket, RequestHumanCompletionApproval, CompleteByGate,
         RequestChanges, FailCycle, CloseObsolete, RejectProof, Posts, At
<1> QED
  BY <1>1, <1>2 DEF GateStep

\* Cleaning up after a cycle that was sent back keeps everything else as it is.
LEMMA CleaningOnTrack ==
    ASSUME TypeOK, WorkerFollows, Assigning \/ Working, NEW g \in Gates, GateStep(g)
    PROVE  Phase' /\ WorkerFollows'
<1>1. VerdictsOK /\ GateOK
  BY TypeParts
<1>2. CleaningUp /\ cycle.status # "Reviewing"
  BY DEF Assigning, AssigningTo, AssignPlace, Working
<1>3. /\ UNCHANGED <<rounds, worker, review, codex, fan, lane>> /\ gate[g].at # "idle"
      /\ \A h \in Gates : h # g => gate'[h] = gate[h]
  BY GateStepFrame
<1>4. gate[g].at \in {"obsolete", "close", "find", "reject", "rejectProof"}
  BY <1>2, <1>3 DEF CleaningUp
<1>5. CloseObsolete(g) \/ FindProof(g) \/ RejectProof(g)
  BY <1>4, GateStepAt
<1>6. UNCHANGED <<cycle, assign, lost, human>>
  BY <1>5 DEF CloseObsolete, FindProof, RejectProof
<1>7. \A n \in Run : evaluation'[n] = evaluation[n] \/ (evaluation'[n] = "Closed" /\ evaluation[n] \in OpenEvaluation)
  BY <1>1, <1>5 DEF CloseObsolete, FindProof, RejectProof, VerdictsOK, entities
<1>8. gate'[g].at \in {"idle", "close", "reject", "rejectProof"}
  <2>1. CASE CloseObsolete(g)
    BY <1>1, <2>1, GoesTo DEF CloseObsolete, GateOK
  <2>2. CASE FindProof(g)
    <3>1. Verdict(g) = "Failed"
      BY <1>2, <2>2 DEF CleaningUp, FindProof, At
    <3> QED
      BY <1>1, <2>2, <3>1 DEF FindProof, GateOK
  <2>3. CASE RejectProof(g)
    BY <1>1, <2>3, GoesTo DEF RejectProof
  <2> QED
    BY <1>5, <2>1, <2>2, <2>3
<1>9. ASSUME NEW n \in Run, evaluation'[n] \in OpenEvaluation
      PROVE  Obsolete(n)'
  <2>1. "Closed" \notin OpenEvaluation
    BY DEF OpenEvaluation
  <2>2. evaluation[n] \in OpenEvaluation /\ Obsolete(n) /\ evaluation'[n] = evaluation[n]
    BY <1>2, <1>7, <1>9, <2>1 DEF CleaningUp
  <2>3. <<"review", n>> \in Gates /\ (n \in 0..RoundLimit) /\ n # 0
    BY FactoryBounds DEF Gates, Run
  <2>4. CASE g # <<"review", n>>
    BY <1>3, <1>6, <2>2, <2>3, <2>4 DEF Obsolete
  <2>5. CASE g = <<"review", n>> /\ gate[g].at = "obsolete"
    <3>1. cycle.evaluation = n
      BY <2>2, <2>5 DEF Obsolete
    <3>2. gate'[g].at = "close" /\ gate'[g].evaluation = n
      BY <1>1, <2>2, <2>3, <2>5, <3>1, GateStepAt DEF CloseObsolete, At, GateOK
    <3> QED
      BY <2>5, <3>2 DEF Obsolete
  <2>6. CASE g = <<"review", n>> /\ gate[g].at = "close"
    <3>1. gate[g].evaluation = n
      BY <2>2, <2>6 DEF Obsolete
    <3>2. evaluation'[n] = "Closed"
      BY <1>1, <2>2, <2>6, <3>1, GateStepAt DEF CloseObsolete, At, VerdictsOK
    <3> QED
      BY <1>9, <2>1, <3>2
  <2> QED
    BY <2>2, <2>4, <2>5, <2>6 DEF Obsolete
<1>10. CleaningUp'
  <2>1. \A h \in Gates : h # g => (Verdict(h) = "Failed" => Verdict(h)' = "Failed")
    <3>1. "Failed" \notin OpenEvaluation /\ \A h \in Gates : h[2] \in Run
      BY DEF OpenEvaluation, Gates
    <3> QED
      BY <1>3, <1>7, <3>1 DEF Verdict
  <2> QED
    BY <1>2, <1>3, <1>8, <1>9, <2>1 DEF CleaningUp
<1>11. WorkerFollows'
  BY <1>2, <1>3, <1>7, FollowsOn
<1>12. CASE Assigning
  <2>1. PICK k \in Assignment : AssigningTo(k)
    BY <1>12 DEF Assigning
  <2>2. AssigningTo(k)'
    BY <1>3, <1>6, <1>10, <2>1 DEF AssigningTo, AssignPlace, LatestLive, NoFanOut, NoLoss
  <2> QED
    BY <1>11, <2>2 DEF Phase, Assigning, Assignment
<1>13. CASE Working
  <2>1. Working'
    BY <1>3, <1>6, <1>10, <1>13 DEF Working, LatestLive, NoAssignment, NoFanOut, NoLoss
  <2> QED
    BY <1>11, <2>1 DEF Phase
<1> QED
  BY <1>12, <1>13

\* A cycle that is sent back is assigned another run, or fails for want of one.
LEMMA SentBackOnTrack ==
    ASSUME TypeOK, HandedOver, NEW g \in Gates, RequestChanges(g), gate[g].at = "sendBack",
           \A h \in Gates : h # g => gate[h].at = "idle",
           \/ g = ReviewGate /\ review[rounds] = "ChangesRequested"
           \/ g = EvaluationGate /\ review[rounds] = "Approved" /\ evaluation[rounds] = "Failed"
    PROVE  Phase' /\ cycle'.status = "InProgress"
<1>1. CycleOK /\ WorkOK /\ HandoverOK /\ GateOK
  BY TypeParts
<1>2. /\ cycle.status = "Reviewing" /\ cycle.evaluation = rounds /\ rounds \in Run
      /\ NoAssignment /\ NoFanOut /\ NoLoss /\ human = "idle" /\ OthersClosed
  BY DEF HandedOver
<1>0. PICK k \in Nat : k = rounds + 1
  BY <1>2 DEF Run
<1>3. k \in Assignment /\ k # 1 /\ (rounds < RoundLimit => k \in Run)
  BY <1>0, <1>2, FactoryBounds DEF Run, Assignment
<1>4. /\ cycle' = SentBack /\ Goes(g, AfterSendBack(g))
      /\ Assigns(k, IF rounds < RoundLimit THEN "configure" ELSE "fail")
      /\ UNCHANGED <<rounds, worker, review, evaluation, fan, lost, human, lane>>
  BY <1>0, <1>2 DEF RequestChanges, InStatus, entities, steady
<1>5. cycle'.status = "InProgress" /\ cycle'.evaluation = rounds
  BY <1>1, <1>2, <1>4 DEF SentBack, CycleOK, CycleRecord
<1>6. /\ assign'[k] = (IF rounds < RoundLimit THEN "configure" ELSE "fail")
      /\ \A j \in Assignment : j # k => assign'[j] = "idle"
  BY <1>1, <1>2, <1>3, <1>4 DEF Assigns, HandoverOK, NoAssignment
<1>7. AssignPlace(k)'
  BY <1>0, <1>3, <1>4, <1>5, <1>6 DEF AssignPlace
<1>8. gate'[g].at = AfterSendBack(g) /\ \A h \in Gates : h # g => gate'[h].at = "idle"
  BY <1>1, <1>4, GoesTo
<1>9. CleaningUp'
  <2>1. review[rounds] \notin OpenReview /\ \A n \in Run : review'[n] \notin OpenReview
    BY <1>2, <1>4 DEF OthersClosed, OpenReview
  <2>2. CASE g = ReviewGate
    <3>1. gate'[g].at = "obsolete"
      BY <1>8, <2>2 DEF AfterSendBack, ReviewGate
    <3>2. \A n \in Run : evaluation'[n] \in OpenEvaluation => Obsolete(n)'
      BY <1>2, <1>4, <1>5, <2>2, <3>1 DEF OthersClosed, Obsolete, ReviewGate
    <3> QED
      BY <1>8, <2>1, <3>1, <3>2 DEF CleaningUp
  <2>3. CASE g = EvaluationGate /\ evaluation[rounds] = "Failed"
    <3>1. gate'[g].at = "find" /\ Verdict(g)' = "Failed"
      BY <1>4, <1>8, <2>3 DEF AfterSendBack, EvaluationGate, Verdict
    <3>2. \A n \in Run : evaluation'[n] \notin OpenEvaluation
      BY <1>2, <1>4, <2>3 DEF OthersClosed, OpenEvaluation
    <3> QED
      BY <1>8, <2>1, <3>1, <3>2 DEF CleaningUp
  <2>4. evaluation[rounds] = "Failed" \/ g = ReviewGate
    OBVIOUS
  <2> QED
    BY <2>2, <2>3
<1>10. AssigningTo(k)'
  BY <1>2, <1>4, <1>6, <1>7, <1>9 DEF AssigningTo, NoFanOut, NoLoss
<1> QED
  BY <1>3, <1>5, <1>10 DEF Phase, Assigning, Assignment

\* A step of a gate that leaves the entities and the other integrations alone.
GateOnly == UNCHANGED <<rounds, entities, codex, assign, fan, lost, human, lane>>

LEMMA GateOnlySteps ==
    ASSUME NEW g \in Gates
    PROVE  /\ ReadCycle(g) => GateOnly /\ UNCHANGED cycle
           /\ ReadE2e(g) => GateOnly /\ UNCHANGED cycle
           /\ AwaitE2e(g) => GateOnly /\ UNCHANGED cycle
           /\ UpdateProof(g) => GateOnly /\ UNCHANGED cycle
           /\ ReadGates(g) => GateOnly /\ UNCHANGED cycle
           /\ AwaitProving(g) => GateOnly /\ UNCHANGED cycle
           /\ FindProof(g) => GateOnly /\ UNCHANGED cycle
           /\ ReadProving(g) => GateOnly /\ UNCHANGED cycle
           /\ ReportE2e(g) \/ PassReview(g) \/ PassEvaluation(g) \/ AttachProofPacket(g) => GateOnly
           /\ RequestHumanCompletionApproval(g) \/ CompleteByGate(g) \/ FailCycle(g) => GateOnly
  BY DEF GateOnly, ReadCycle, ReadE2e, AwaitE2e, UpdateProof, ReadGates, AwaitProving, FindProof, ReadProving,
     ReportE2e, PassReview, PassEvaluation, AttachProofPacket, RequestHumanCompletionApproval, CompleteByGate,
     FailCycle, Posts, steady

\* The run stays handed over until its cycle is sent back, passes or fails.
LEMMA StaysHandedOver ==
    ASSUME HandedOver, GateOnly, cycle'.status = "Reviewing",
           UNCHANGED cycle.evaluation, cycle'.reviewer = rounds
    PROVE  HandedOver'
  BY DEF HandedOver, GateOnly, entities, NoAssignment, NoFanOut, NoLoss, OthersClosed

\* The verdict of the review passes the review, sends the cycle back, or ends it.
LEMMA ReviewOnTrack ==
    ASSUME TypeOK, WorkerFollows, AfterReview, NEW g \in Gates, g = ReviewGate, GateStep(g)
    PROVE  WorkerFollows' /\ (Phase' \/ cycle'.status \in Ended)
<1>1. /\ CycleOK /\ GateOK /\ HandedOver /\ cycle.status = "Reviewing"
      /\ cycle.review_passed = FALSE /\ ~cycle.review_passed
  BY TypeParts DEF AfterReview, HandedOver
<1>2. /\ \A h \in Gates : h # g => gate[h].at = "idle" /\ gate'[h] = gate[h]
      /\ ReviewPlace(gate[g].at) /\ g[1] = "review" /\ g[2] = rounds /\ Verdict(g) = review[rounds]
  BY GateStepFrame DEF AfterReview, AloneAt, ReviewGate, Verdict
<1>3. cycle.evaluation = rounds /\ cycle.reviewer = rounds /\ rounds \in Run /\ rounds # 0
  BY <1>1 DEF HandedOver, Run
<1>4. WorkerFollows'
  <2>1. UNCHANGED <<worker, review, codex>>
    BY GateStepFrame
  <2>2. gate[g].at # "close"
    BY <1>2 DEF ReviewPlace
  <2>3. \A n \in Run : evaluation'[n] = evaluation[n] \/ evaluation'[n] # "Running"
    BY <2>2, GateStepFrame, GateStepAt, <1>2, GateOnlySteps DEF ReviewPlace, GateOnly, entities, RequestChanges
  <2> QED
    BY <1>1, <2>1, <2>3, FollowsOn
<1>5. ASSUME GateOnly, UNCHANGED cycle, gate'[g].at # "idle", ReviewPlace(gate[g].at)'
      PROVE  AfterReview'
  <2>1. HandedOver'
    BY <1>1, <1>3, <1>5, StaysHandedOver
  <2>2. ReviewGate' = g
    BY <1>5 DEF GateOnly, ReviewGate
  <2> QED
    BY <1>1, <1>2, <1>5, <2>1, <2>2 DEF AfterReview, AloneAt
<1>6. CASE gate[g].at = "look"
  <2>1. GateOnly /\ UNCHANGED cycle /\ gate'[g].at = FirstPlace(g)
    BY <1>1, <1>6, GateStepAt, GateOnlySteps, GoesTo DEF ReadCycle
  <2>2. UNCHANGED <<review, evaluation, rounds>>
    BY <2>1 DEF GateOnly, entities
  <2>3. CASE review[rounds] = "Approved" /\ evaluation[rounds] \in OpenEvaluation
    <3>1. gate'[g].at = "e2e"
      BY <1>1, <1>2, <2>1, <2>3 DEF FirstPlace, InStatus
    <3> QED
      BY <1>4, <1>5, <2>1, <2>2, <2>3, <3>1 DEF ReviewPlace, Phase
  <2>4. CASE review[rounds] = "ChangesRequested"
    <3>1. gate'[g].at = "sendBack"
      BY <1>1, <1>2, <2>1, <2>4 DEF FirstPlace, InStatus
    <3> QED
      BY <1>4, <1>5, <2>1, <2>2, <2>4, <3>1 DEF ReviewPlace, Phase
  <2>5. CASE review[rounds] \in {"Escalated", "Failed"}
    <3>1. gate'[g].at = "failCycle"
      BY <1>1, <1>2, <2>1, <2>5 DEF FirstPlace, InStatus, Failable, CycleStates, Ended
    <3> QED
      BY <1>4, <1>5, <2>1, <2>2, <2>5, <3>1 DEF ReviewPlace, Phase
  <2> QED
    BY <1>2, <1>6, <2>3, <2>4, <2>5 DEF ReviewPlace
<1>7. CASE gate[g].at = "e2e"
  <2>1. GateOnly /\ UNCHANGED cycle /\ gate'[g].at \in {"reportE2e", "passReview"}
    BY <1>1, <1>2, <1>7, GateStepAt, GateOnlySteps, GoesTo DEF ReadE2e, AfterE2e
  <2>2. ReviewPlace(gate[g].at)'
    BY <1>2, <1>7, <2>1 DEF ReviewPlace, GateOnly, entities
  <2> QED
    BY <1>4, <1>5, <2>1, <2>2 DEF Phase
<1>8. CASE gate[g].at = "reportE2e"
  <2>1. GateOnly /\ cycle' = [cycle EXCEPT !.e2e_ok = TRUE] /\ gate'[g].at = "passReview"
    BY <1>1, <1>2, <1>8, GateStepAt, GateOnlySteps, GoesTo DEF ReportE2e, Posts, AfterE2e, InStatus
  <2>2. ReviewPlace(gate[g].at)'
    BY <1>2, <1>8, <2>1 DEF ReviewPlace, GateOnly, entities
  <2>3. /\ cycle'.status = "Reviewing" /\ cycle'.review_passed = FALSE
        /\ UNCHANGED cycle.evaluation /\ cycle'.reviewer = rounds
    BY <1>1, <1>3, <2>1 DEF CycleOK, CycleRecord
  <2>4. HandedOver' /\ ReviewGate' = g
    BY <1>1, <2>1, <2>3, StaysHandedOver DEF GateOnly, ReviewGate
  <2>5. AfterReview'
    BY <1>2, <2>1, <2>2, <2>3, <2>4 DEF AfterReview, AloneAt
  <2> QED
    BY <1>4, <2>5 DEF Phase
<1>9. CASE gate[g].at = "passReview"
  <2>1. GateOnly /\ gate'[g].at = "verdict"
        /\ cycle' = [cycle EXCEPT !.reviewer = g[2], !.review_passed = TRUE]
    BY <1>1, <1>9, GateStepAt, GateOnlySteps, GoesTo, ZenonT(20) DEF PassReview, Posts, InStatus
  <2>2. /\ cycle'.status = "Reviewing" /\ cycle'.review_passed = TRUE
        /\ UNCHANGED cycle.evaluation /\ cycle'.reviewer = rounds
    BY <1>1, <1>2, <2>1 DEF CycleOK, CycleRecord
  <2>3. HandedOver' /\ ReviewGate' = g
    BY <1>1, <2>1, <2>2, StaysHandedOver DEF GateOnly, ReviewGate
  <2>4. review'[rounds'] = "Approved" /\ evaluation'[rounds'] \in OpenEvaluation
    BY <1>2, <1>9, <2>1 DEF ReviewPlace, GateOnly, entities
  <2>5. UnderEvaluation'
    BY <1>2, <2>1, <2>2, <2>3, <2>4 DEF UnderEvaluation
  <2> QED
    BY <1>4, <2>5 DEF Phase
<1>10. CASE gate[g].at = "sendBack"
  <2>1. RequestChanges(g) /\ review[rounds] = "ChangesRequested"
    BY <1>2, <1>10, GateStepAt DEF ReviewPlace
  <2> QED
    BY <1>1, <1>2, <1>4, <1>10, <2>1, SentBackOnTrack
<1>11. CASE gate[g].at = "failCycle"
  <2>1. cycle'.status = "Failed"
    BY <1>1, <1>11, GateStepAt DEF FailCycle, Posts, CanFail, Ended, CycleOK, CycleRecord
  <2> QED
    BY <1>4, <2>1 DEF Ended
<1> QED
  BY <1>2, <1>6, <1>7, <1>8, <1>9, <1>10, <1>11 DEF ReviewPlace

\* The review's gate ends: the evaluation has not passed yet.
LEMMA ReviewPassedOnTrack ==
    ASSUME TypeOK, WorkerFollows, UnderEvaluation, NEW g \in Gates, g = ReviewGate, GateStep(g)
    PROVE  WorkerFollows' /\ Phase'
<1>1. GateOK /\ HandedOver /\ cycle.status = "Reviewing" /\ cycle.review_passed = TRUE
  BY TypeParts DEF UnderEvaluation, HandedOver
<1>2. /\ \A h \in Gates : h # g => gate[h].at = "idle" /\ gate'[h] = gate[h]
      /\ gate[g].at \in {"verdict", "attachDraft", "ready"} /\ g[1] = "review"
  BY GateStepFrame DEF UnderEvaluation, ReviewGate
<1>3. cycle.evaluation = rounds /\ cycle.reviewer = rounds /\ evaluation[rounds] # "Passed"
  BY DEF UnderEvaluation, HandedOver, OpenEvaluation
<1>4. GateOnly /\ UNCHANGED cycle /\ gate'[g].at \in {"attachDraft", "ready", "idle"}
  <2>1. CASE gate[g].at \in {"verdict", "attachDraft"}
    BY <1>1, <2>1, GateStepAt, GateOnlySteps, GoesTo DEF UpdateProof
  <2>2. CASE gate[g].at = "ready"
    <3>1. ~Ready(g) /\ ~InStatus("Proving")
      BY <1>1, <1>2, <1>3 DEF Ready, EvaluationPassed, InStatus
    <3>2. Goes(g, "idle")
      BY <2>2, <3>1, GateStepAt, ZenonT(20) DEF ReadGates
    <3> QED
      BY <1>1, <2>2, <3>2, GateStepAt, GateOnlySteps, GoesTo
  <2> QED
    BY <1>2, <2>1, <2>2
<1>5. UnderEvaluation'
  <2>1. HandedOver' /\ ReviewGate' = g
    BY <1>1, <1>3, <1>4, StaysHandedOver DEF GateOnly, ReviewGate
  <2>2. review'[rounds'] = "Approved" /\ evaluation'[rounds'] \in OpenEvaluation
    BY <1>4 DEF UnderEvaluation, GateOnly, entities
  <2> QED
    BY <1>1, <1>2, <1>4, <2>1, <2>2 DEF UnderEvaluation
<1>6. WorkerFollows'
  BY <1>4, FollowsOn DEF GateOnly, entities
<1> QED
  BY <1>5, <1>6 DEF Phase

\* The verdict of the evaluation moves the cycle to Proving, or sends it back.
LEMMA EvaluationOnTrack ==
    ASSUME TypeOK, Unattached, WorkerFollows, AfterEvaluation, NEW g \in Gates, g = EvaluationGate, GateStep(g)
    PROVE  WorkerFollows' /\ Phase'
<1>1. /\ CycleOK /\ GateOK /\ HandedOver /\ cycle.status = "Reviewing"
      /\ cycle.review_passed = TRUE /\ review[rounds] = "Approved"
  BY TypeParts DEF AfterEvaluation, HandedOver
<1>2. /\ \A h \in Gates : h # g => gate[h].at = "idle" /\ gate'[h] = gate[h]
      /\ EvaluationPlace(gate[g].at) /\ g[1] = "evaluation" /\ g[2] = rounds /\ Verdict(g) = evaluation[rounds]
  BY GateStepFrame DEF AfterEvaluation, AloneAt, EvaluationGate, Verdict
<1>3. cycle.evaluation = rounds /\ cycle.reviewer = rounds /\ rounds \in Run /\ rounds # 0 /\ g = EvaluationGate
  BY <1>1 DEF HandedOver, Run
<1>4. evaluation[rounds] \in {"Passed", "Failed"}
  BY <1>2 DEF EvaluationPlace
<1>5. WorkerFollows'
  <2>1. UNCHANGED <<worker, review, codex>>
    BY GateStepFrame
  <2>2. \A n \in Run : evaluation'[n] = evaluation[n] \/ evaluation'[n] # "Running"
    BY GateStepAt, <1>2, GateOnlySteps DEF EvaluationPlace, GateOnly, entities, RequestChanges
  <2> QED
    BY <1>4, <2>1, <2>2, FollowsOn DEF OpenEvaluation
<1>6. ASSUME GateOnly, gate'[g].at # "idle", EvaluationPlace(gate[g].at)', cycle'.status = "Reviewing",
             cycle'.review_passed = TRUE, UNCHANGED cycle.evaluation, cycle'.reviewer = rounds
      PROVE  Phase'
  <2>1. HandedOver' /\ EvaluationGate' = g /\ review'[rounds'] = "Approved"
    BY <1>1, <1>3, <1>6, StaysHandedOver DEF GateOnly, EvaluationGate, entities
  <2> QED
    BY <1>2, <1>6, <2>1 DEF Phase, AfterEvaluation, AloneAt
<1>7. ASSUME GateOnly, UNCHANGED cycle, gate'[g].at # "idle", EvaluationPlace(gate[g].at)'
      PROVE  Phase'
  BY <1>1, <1>3, <1>6, <1>7
<1>8. CASE gate[g].at = "look"
  <2>1. GateOnly /\ UNCHANGED cycle /\ gate'[g].at = FirstPlace(g)
    BY <1>1, <1>8, GateStepAt, GateOnlySteps, GoesTo DEF ReadCycle
  <2>2. UNCHANGED <<evaluation, rounds>>
    BY <2>1 DEF GateOnly, entities
  <2>3. CASE evaluation[rounds] = "Passed"
    <3>1. gate'[g].at = "e2e"
      BY <1>2, <2>1, <2>3 DEF FirstPlace
    <3> QED
      BY <1>5, <1>7, <2>1, <2>2, <2>3, <3>1 DEF EvaluationPlace
  <2>4. CASE evaluation[rounds] = "Failed"
    <3>1. gate'[g].at = "sendBack"
      BY <1>1, <1>2, <2>1, <2>4 DEF FirstPlace, InStatus
    <3> QED
      BY <1>5, <1>7, <2>1, <2>2, <2>4, <3>1 DEF EvaluationPlace
  <2> QED
    BY <1>4, <2>3, <2>4
<1>9. CASE gate[g].at = "e2e"
  <2>1. evaluation[rounds] = "Passed"
    BY <1>2, <1>9 DEF EvaluationPlace
  <2>2. /\ GateOnly /\ UNCHANGED cycle
        /\ \/ gate'[g].at = "reportE2e"
           \/ gate'[g].at = "awaitE2e" /\ cycle.e2e_ok
    BY <1>1, <1>2, <1>9, GateStepAt, GateOnlySteps, GoesTo DEF ReadE2e, AfterE2e, InStatus
  <2>3. EvaluationPlace(gate[g].at)'
    BY <1>1, <2>1, <2>2 DEF EvaluationPlace, GateOnly, entities, CycleOK, CycleRecord
  <2> QED
    BY <1>5, <1>7, <2>2, <2>3
<1>10. CASE gate[g].at = "reportE2e"
  <2>1. evaluation[rounds] = "Passed"
    BY <1>2, <1>10 DEF EvaluationPlace
  <2>2. GateOnly /\ cycle' = [cycle EXCEPT !.e2e_ok = TRUE] /\ gate'[g].at = "awaitE2e"
    BY <1>1, <1>2, <1>10, GateStepAt, GateOnlySteps, GoesTo DEF ReportE2e, Posts, AfterE2e, InStatus
  <2>3. /\ cycle'.status = "Reviewing" /\ cycle'.review_passed = TRUE /\ cycle'.e2e_ok = TRUE
        /\ UNCHANGED cycle.evaluation /\ cycle'.reviewer = rounds
    BY <1>1, <1>3, <2>2 DEF CycleOK, CycleRecord
  <2>4. EvaluationPlace(gate[g].at)'
    BY <2>1, <2>2, <2>3 DEF EvaluationPlace, GateOnly, entities
  <2> QED
    BY <1>5, <1>6, <2>2, <2>3, <2>4
<1>11. CASE gate[g].at = "awaitE2e"
  <2>1. evaluation[rounds] = "Passed" /\ cycle.e2e_ok = TRUE
    BY <1>2, <1>11 DEF EvaluationPlace
  <2>2. GateOnly /\ UNCHANGED cycle /\ gate'[g].at = "ready"
    BY <1>1, <1>11, <2>1, GateStepAt, GateOnlySteps, GoesTo DEF AwaitE2e
  <2>3. EvaluationPlace(gate[g].at)'
    BY <2>1, <2>2 DEF EvaluationPlace, GateOnly, entities
  <2> QED
    BY <1>5, <1>7, <2>2, <2>3
<1>12. CASE gate[g].at = "ready"
  <2>1. evaluation[rounds] = "Passed" /\ cycle.e2e_ok = TRUE
    BY <1>2, <1>12 DEF EvaluationPlace
  <2>2. Ready(g) /\ InStatus("Reviewing")
    BY <1>1, <1>3, <2>1 DEF Ready, EvaluationPassed, InStatus
  <2>3. gate' = [gate EXCEPT ![g] = [@ EXCEPT !.at = "passEvaluation", !.evaluation = cycle.evaluation]]
    BY <1>12, <2>2, GateStepAt, ZenonT(20) DEF ReadGates, InStatus
  <2>4. gate'[g].at = "passEvaluation" /\ gate'[g].evaluation = rounds
    BY <1>1, <1>3, <2>3 DEF GateOK
  <2>5. GateOnly /\ UNCHANGED cycle /\ EvaluationGate' = g
    BY <1>3, <1>12, GateStepAt, GateOnlySteps DEF GateOnly, EvaluationGate
  <2>6. EvaluationPlace(gate[g].at)'
    BY <2>1, <2>4, <2>5 DEF EvaluationPlace, GateOnly, entities
  <2> QED
    BY <1>5, <1>7, <2>4, <2>5, <2>6
<1>13. CASE gate[g].at = "passEvaluation"
  <2>1. evaluation[rounds] = "Passed" /\ cycle.e2e_ok = TRUE /\ gate[g].evaluation = rounds
    BY <1>2, <1>3, <1>13 DEF EvaluationPlace
  <2>2. /\ GateOnly /\ Goes(g, "proving")
        /\ cycle' = [cycle EXCEPT !.status = "Proving", !.evaluation = gate[g].evaluation,
                                  !.evaluation_passed = TRUE]
    BY <1>1, <1>13, <2>1, GateStepAt, GateOnlySteps, ZenonT(20) DEF PassEvaluation, Posts, InStatus
  <2>3. gate'[g].at = "proving" /\ gate'[g].evaluation = rounds /\ EvaluationGate' = g
    BY <1>1, <1>3, <2>1, <2>2, GoesTo DEF GateOnly, EvaluationGate
  <2>4. cycle.proof = 0 /\ cycle.proof_attached = FALSE
    BY <1>1 DEF Unattached
  <2>5. /\ cycle'.status = "Proving" /\ cycle'.evaluation = rounds /\ cycle'.reviewer = rounds
        /\ cycle'.review_passed = TRUE /\ cycle'.evaluation_passed = TRUE /\ cycle'.e2e_ok = TRUE
        /\ cycle'.proof = 0 /\ cycle'.proof_attached = FALSE
    BY <1>1, <1>3, <2>1, <2>2, <2>4 DEF CycleOK, CycleRecord
  <2>6. BothPassed' /\ human' = "idle" /\ proof'[rounds'] = "Drafting" /\ rounds' = rounds
    BY <1>1, <2>1, <2>2, <2>5 DEF HandedOver, BothPassed, GateOnly, entities, NoAssignment, NoFanOut,
       NoLoss, OthersClosed
  <2>7. Proved'
    BY <1>2, <2>3, <2>5, <2>6 DEF Proved, AloneAt, ProvingPlace
  <2> QED
    BY <1>5, <2>7 DEF Phase
<1>14. CASE gate[g].at = "sendBack"
  <2>1. RequestChanges(g) /\ evaluation[rounds] = "Failed"
    BY <1>2, <1>14, GateStepAt DEF EvaluationPlace
  <2> QED
    BY <1>1, <1>2, <1>5, <1>14, <2>1, SentBackOnTrack
<1> QED
  BY <1>2, <1>8, <1>9, <1>10, <1>11, <1>12, <1>13, <1>14 DEF EvaluationPlace

\* The gate attaches the packet of the run, and completes the cycle or asks a person.
LEMMA ProvedOnTrack ==
    ASSUME TypeOK, WorkerFollows, Proved, NEW g \in Gates, g = EvaluationGate, GateStep(g)
    PROVE  WorkerFollows' /\ (Phase' \/ cycle'.status \in Ended)
<1>1. CycleOK /\ GateOK /\ VerdictsOK /\ BothPassed /\ cycle.status = "Proving" /\ human = "idle"
  BY TypeParts DEF Proved
<1>2. /\ \A h \in Gates : h # g => gate[h].at = "idle" /\ gate'[h] = gate[h]
      /\ ProvingPlace(gate[g].at) /\ g[1] = "evaluation" /\ g[2] = rounds /\ Verdict(g) = "Passed"
  BY <1>1, GateStepFrame DEF Proved, AloneAt, EvaluationGate, Verdict, BothPassed
<1> DEFINE Frame == UNCHANGED <<rounds, worker, review, evaluation, codex, assign, fan, lost, human, lane>>
<1>3. Frame
  <2>1. gate[g].at \in {"proving", "find", "mark", "markReady", "attached", "attachProof", "decide",
                        "complete", "askPerson"}
    BY <1>2 DEF ProvingPlace
  <2>2. CASE gate[g].at \in {"mark", "markReady"}
    BY <2>2, GateStepAt DEF MarkReady, steady
  <2>3. GateOnly => Frame
    BY DEF GateOnly, entities
  <2>4. CASE gate[g].at \notin {"mark", "markReady"}
    BY <2>1, <2>3, <2>4, GateStepAt, GateOnlySteps
  <2> QED
    BY <2>2, <2>4
<1>4. WorkerFollows'
  BY <1>1, <1>3, FollowsOn
<1>5. /\ rounds \in Run /\ rounds # 0 /\ EvaluationGate' = g /\ human' = "idle" /\ rounds' = rounds
      /\ g = EvaluationGate
  BY <1>1, <1>3 DEF BothPassed, EvaluationGate, Run
<1>6. ASSUME UNCHANGED <<cycle.evaluation, cycle.reviewer, cycle.review_passed, cycle.evaluation_passed,
                         cycle.e2e_ok>>
      PROVE  BothPassed'
  BY <1>1, <1>3, <1>6 DEF BothPassed, NoAssignment, NoFanOut, NoLoss, OthersClosed
<1>7. ASSUME UNCHANGED cycle, gate'[g].at # "idle", ProvingPlace(gate[g].at)'
      PROVE  Proved'
  BY <1>1, <1>2, <1>5, <1>6, <1>7 DEF Proved, AloneAt
<1>8. CASE gate[g].at = "proving"
  <2>1. UNCHANGED cycle /\ gate'[g].at = "find" /\ gate'[g].evaluation = gate[g].evaluation /\ UNCHANGED proof
    BY <1>1, <1>8, GateStepAt, GateOnlySteps, GoesTo DEF AwaitProving, InStatus, GateOnly, entities
  <2>2. ProvingPlace(gate[g].at)'
    BY <1>2, <1>5, <1>8, <2>1 DEF ProvingPlace
  <2> QED
    BY <1>4, <1>7, <2>1, <2>2 DEF Phase
<1>9. CASE gate[g].at = "find"
  <2>1. gate[g].evaluation = rounds /\ proof[rounds] = "Drafting" /\ cycle.proof_attached = FALSE /\ cycle.proof = 0
    BY <1>2, <1>5, <1>9 DEF ProvingPlace
  <2>2. FoundProof(g) = rounds
    BY <1>2, <2>1 DEF FoundProof
  <2>3. UNCHANGED <<cycle, proof>> /\ gate'[g].at = "mark" /\ gate'[g].proof = rounds
    <3>1. FindProof(g) /\ UNCHANGED <<cycle, proof>>
      BY <1>9, GateStepAt, GateOnlySteps DEF GateOnly, entities
    <3>2. gate' = [gate EXCEPT ![g].proof = rounds, ![g].at = "mark"]
      BY <1>2, <2>2, <3>1 DEF FindProof
    <3> QED
      BY <1>1, <3>1, <3>2 DEF GateOK
  <2>4. ProvingPlace(gate[g].at)'
    BY <1>5, <2>1, <2>3 DEF ProvingPlace
  <2> QED
    BY <1>4, <1>7, <2>3, <2>4 DEF Phase
<1>10. CASE gate[g].at \in {"mark", "markReady"}
  <2>1. gate[g].proof = rounds /\ proof[rounds] = "Drafting" /\ cycle.proof_attached = FALSE
    BY <1>2, <1>5, <1>10 DEF ProvingPlace
  <2>2. MarkReady(g) /\ UNCHANGED cycle
    BY <1>10, GateStepAt DEF MarkReady
  <2>3. \/ gate'[g].at = "markReady" /\ gate'[g].proof = rounds /\ proof'[rounds] = "Drafting"
        \/ gate'[g].at = "attached" /\ gate'[g].proof = rounds /\ proof'[rounds] = "Ready"
    BY <1>1, <1>5, <2>1, <2>2, GoesTo DEF MarkReady, VerdictsOK
  <2>4. ProvingPlace(gate[g].at)'
    BY <1>5, <2>1, <2>2, <2>3 DEF ProvingPlace
  <2> QED
    BY <1>4, <1>7, <2>2, <2>3, <2>4 DEF Phase
<1>11. CASE gate[g].at = "attached"
  <2>1. gate[g].proof = rounds /\ proof[rounds] = "Ready" /\ cycle.proof_attached = FALSE
    BY <1>2, <1>5, <1>11 DEF ProvingPlace
  <2>2. Goes(g, "attachProof") /\ UNCHANGED <<cycle, proof>>
    BY <1>1, <1>11, <2>1, GateStepAt, GateOnlySteps DEF ReadProving, At, InStatus, GateOnly, entities
  <2>3. gate'[g].at = "attachProof" /\ gate'[g].proof = rounds
    BY <1>1, <2>1, <2>2, GoesTo
  <2>4. ProvingPlace(gate[g].at)'
    BY <1>5, <2>1, <2>2, <2>3 DEF ProvingPlace
  <2> QED
    BY <1>4, <1>7, <2>2, <2>3, <2>4 DEF Phase
<1>12. CASE gate[g].at = "attachProof"
  <2>1. gate[g].proof = rounds /\ proof[rounds] = "Ready"
    BY <1>2, <1>5, <1>12 DEF ProvingPlace
  <2>2. /\ cycle' = [cycle EXCEPT !.proof = gate[g].proof, !.proof_attached = TRUE]
        /\ gate'[g].at = "decide" /\ UNCHANGED proof
    BY <1>1, <1>12, GateStepAt, GateOnlySteps, GoesTo, ZenonT(20) DEF AttachProofPacket, Posts, InStatus, GateOnly, entities
  <2>3. /\ UNCHANGED <<cycle.evaluation, cycle.reviewer, cycle.review_passed, cycle.evaluation_passed, cycle.e2e_ok>>
        /\ cycle'.status = "Proving" /\ cycle'.proof_attached = TRUE /\ cycle'.proof = rounds
    BY <1>1, <2>1, <2>2 DEF CycleOK, CycleRecord
  <2>4. Attached'
    BY <1>5, <2>1, <2>2, <2>3 DEF Attached
  <2>5. Proved'
    BY <1>2, <1>5, <1>6, <2>2, <2>3, <2>4 DEF Proved, AloneAt, ProvingPlace
  <2> QED
    BY <1>4, <2>5 DEF Phase
<1>13. CASE gate[g].at = "decide"
  <2>1. Attached
    BY <1>2, <1>13 DEF ProvingPlace
  <2>2. LastPost \in {"askPerson", "complete"}
    BY <1>1, <2>1 DEF LastPost, Attached, BothPassed, GatesPassed, InStatus
  <2>3. Goes(g, LastPost) /\ UNCHANGED <<cycle, proof>>
    BY <1>1, <1>13, <2>1, GateStepAt, GateOnlySteps DEF ReadProving, At, Attached, GateOnly, entities
  <2>4. gate'[g].at \in {"askPerson", "complete"} /\ Attached'
    BY <1>1, <1>5, <2>1, <2>2, <2>3, GoesTo DEF Attached
  <2>5. ProvingPlace(gate[g].at)'
    BY <2>4 DEF ProvingPlace
  <2> QED
    BY <1>4, <1>7, <2>3, <2>4, <2>5 DEF Phase
<1>14. CASE gate[g].at = "askPerson"
  <2>1. Attached
    BY <1>2, <1>14 DEF ProvingPlace
  <2>2. /\ cycle' = [cycle EXCEPT !.status = "AwaitingHumanCompletionApproval"]
        /\ gate'[g].at = "idle" /\ UNCHANGED proof
    BY <1>1, <1>14, GateStepAt, GateOnlySteps, GoesTo
       DEF RequestHumanCompletionApproval, Posts, InStatus, GateOnly, entities
  <2>3. /\ UNCHANGED <<cycle.evaluation, cycle.reviewer, cycle.review_passed, cycle.evaluation_passed, cycle.e2e_ok>>
        /\ cycle'.status = "AwaitingHumanCompletionApproval"
        /\ cycle'.proof_attached = cycle.proof_attached /\ cycle'.proof = cycle.proof
    BY <1>1, <2>2 DEF CycleOK, CycleRecord
  <2>4. AwaitingPerson'
    BY <1>2, <1>5, <1>6, <2>1, <2>2, <2>3 DEF AwaitingPerson, Attached, NoGates
  <2> QED
    BY <1>4, <2>4 DEF Phase
<1>15. CASE gate[g].at = "complete"
  <2>1. GatesPassed
    BY <1>1, <1>2, <1>15 DEF ProvingPlace, Attached, BothPassed, GatesPassed
  <2>2. cycle'.status = "Complete"
    BY <1>1, <1>15, <2>1, GateStepAt DEF CompleteByGate, Posts, InStatus, CycleOK, CycleRecord
  <2> QED
    BY <1>4, <2>2 DEF Ended
<1> QED
  BY <1>2, <1>8, <1>9, <1>10, <1>11, <1>12, <1>13, <1>14, <1>15 DEF ProvingPlace

LEMMA GateOnTrack ==
    ASSUME TypeOK, Unattached, Phase, WorkerFollows, NEW g \in Gates, GateStep(g)
    PROVE  WorkerFollows' /\ (Phase' \/ cycle'.status \in Ended)
<1>1. gate[g].at # "idle"
  BY GateStepFrame
<1> QED
  BY <1>1, JobPhase, CleaningOnTrack, ReviewOnTrack, ReviewPassedOnTrack, EvaluationOnTrack, ProvedOnTrack

\* What the worker takes up leaves the phase as it is, and so does the closing of an
\* evaluation whose review came out against the run.
LEMMA SamePhase ==
    ASSUME TypeOK, Phase, UNCHANGED <<cycle, rounds, lane, proof, jobs>>,
           \A n \in Run : worker'[n] = worker[n] \/ (worker[n] \in LiveRun /\ worker'[n] \in LiveRun),
           \A n \in Run : review'[n] = review[n] \/ (review[n] \in OpenReview /\ review'[n] \in OpenReview),
           \A n \in Run :
              \/ evaluation'[n] = evaluation[n]
              \/ evaluation[n] \in OpenEvaluation /\ evaluation'[n] \in OpenEvaluation
              \/ /\ evaluation[n] \in OpenEvaluation /\ evaluation'[n] = "Closed"
                 /\ n = rounds => fan[n] = "idle" /\ (HandedOver => review[n] \in NotApproved)
    PROVE  Phase'
<1>1. UNCHANGED <<assign, fan, lost, gate, human>>
  BY DEF jobs
<1>2. "Closed" \notin OpenEvaluation /\ "Failed" \notin OpenEvaluation \cup OpenReview /\ "Passed" \notin OpenEvaluation
      /\ "Approved" \notin OpenReview \cup NotApproved /\ OpenReview \cap NotApproved = {}
  BY DEF OpenEvaluation, OpenReview, NotApproved
<1>3. LatestLive => LatestLive'
  BY DEF LatestLive
<1>4. OthersClosed => OthersClosed'
  BY <1>2 DEF OthersClosed
<1>5. CleaningUp => CleaningUp'
  <2>1. \A g \in Gates : Verdict(g) = "Failed" => Verdict(g)' = "Failed"
    <3>1. \A g \in Gates : g[2] \in Run
      BY DEF Gates
    <3> QED
      BY <1>2, <3>1 DEF Verdict
  <2>2. \A n \in Run : Obsolete(n) => Obsolete(n)'
    BY <1>1 DEF Obsolete
  <2> QED
    BY <1>1, <1>2, <2>1, <2>2 DEF CleaningUp
<1>6. /\ NoAssignment => NoAssignment'
      /\ NoFanOut => NoFanOut'
      /\ NoLoss => NoLoss'
      /\ NoGates => NoGates'
      /\ ReviewGate' = ReviewGate /\ EvaluationGate' = EvaluationGate
      /\ \A g \in Gates : AloneAt(g) => AloneAt(g)'
  BY <1>1 DEF NoAssignment, NoFanOut, NoLoss, NoGates, ReviewGate, EvaluationGate, AloneAt
<1>7. HandedOver => HandedOver'
  BY <1>1, <1>4, <1>6 DEF HandedOver
<1>8. BothPassed => BothPassed'
  BY <1>1, <1>2, <1>4, <1>6 DEF BothPassed
<1>9. rounds \in Run => ReviewGate \in Gates /\ EvaluationGate \in Gates
  BY DEF ReviewGate, EvaluationGate, Gates
<1>10. CASE Assigning
  <2>1. PICK k \in Assignment : AssigningTo(k)
    BY <1>10 DEF Assigning
  <2>2. AssigningTo(k)'
    BY <1>1, <1>3, <1>5, <1>6, <2>1 DEF AssigningTo, AssignPlace
  <2> QED
    BY <2>2 DEF Phase, Assigning, Assignment
<1>11. CASE Working
  BY <1>1, <1>3, <1>5, <1>6, <1>11 DEF Phase, Working
<1>12. CASE Losing
  BY <1>1, <1>6, <1>12 DEF Phase, Losing
<1>13. CASE FanningOut
  <2>1. FanPlace(fan[rounds])'
    BY <1>1, <1>2, <1>13 DEF FanningOut, FanPlace
  <2> QED
    BY <1>1, <1>4, <1>6, <1>13, <2>1 DEF Phase, FanningOut
<1>14. CASE UnderReview
  BY <1>1, <1>2, <1>6, <1>7, <1>14 DEF Phase, UnderReview, HandedOver
<1>15. CASE AfterReview
  <2>1. ReviewPlace(gate[ReviewGate].at)'
    BY <1>1, <1>2, <1>6, <1>15 DEF AfterReview, ReviewPlace, HandedOver, OpenReview
  <2> QED
    BY <1>1, <1>6, <1>7, <1>9, <1>15, <2>1 DEF Phase, AfterReview, HandedOver
<1>16. CASE UnderEvaluation
  BY <1>1, <1>2, <1>6, <1>7, <1>16 DEF Phase, UnderEvaluation, HandedOver
<1>17. CASE AfterEvaluation
  <2>1. EvaluationPlace(gate[EvaluationGate].at)'
    BY <1>1, <1>2, <1>6, <1>17 DEF AfterEvaluation, EvaluationPlace, HandedOver
  <2> QED
    BY <1>1, <1>2, <1>6, <1>7, <1>9, <1>17, <2>1 DEF Phase, AfterEvaluation, HandedOver
<1>18. CASE Proved
  <2>1. ProvingPlace(gate[EvaluationGate].at)'
    BY <1>1, <1>6, <1>18 DEF Proved, ProvingPlace, Attached
  <2> QED
    BY <1>1, <1>6, <1>8, <1>9, <1>18, <2>1 DEF Phase, Proved, BothPassed
<1>19. CASE AwaitingPerson \/ PersonAnswered
  BY <1>1, <1>6, <1>8, <1>19 DEF Phase, AwaitingPerson, PersonAnswered, Attached
<1> QED
  BY <1>10, <1>11, <1>12, <1>13, <1>14, <1>15, <1>16, <1>17, <1>18, <1>19 DEF Phase

\* The evaluation the worker may start is that of the run whose review has passed.
LEMMA MayBeEvaluated ==
    ASSUME TypeOK, Judging, Phase, cycle.review_passed = TRUE, NEW n \in Run, evaluation[n] \in OpenEvaluation
    PROVE  UnderEvaluation /\ n = rounds
<1>1. cycle.status \notin Unjudged
  BY JudgingParts DEF PassedLater
<1>2. ~Assigning /\ ~Working /\ ~Losing
  BY <1>1 DEF Unjudged, Assigning, AssigningTo, AssignPlace, Working, Losing
<1>3. ~FanningOut
  BY <1>1 DEF FanningOut, FanPlace, Unjudged, Early
<1>4. ~UnderReview /\ ~AfterReview
  BY DEF UnderReview, AfterReview
<1>5. ~AfterEvaluation
  BY DEF AfterEvaluation, EvaluationPlace, HandedOver, OthersClosed, OpenEvaluation
<1>6. ~Proved /\ ~AwaitingPerson /\ ~PersonAnswered
  BY DEF Proved, AwaitingPerson, PersonAnswered, BothPassed, OthersClosed, OpenEvaluation
<1>7. UnderEvaluation
  BY <1>2, <1>3, <1>4, <1>5, <1>6 DEF Phase
<1> QED
  BY <1>7 DEF UnderEvaluation, HandedOver, OthersClosed

\* What the worker takes up, it follows.
LEMMA PickOnTrack ==
    ASSUME TypeOK, Judging, Phase, WorkerFollows, NEW n \in Run,
           PickRun(n) \/ RecoverRun(n) \/ PickReview(n) \/ PickEvaluation(n)
    PROVE  Phase' /\ WorkerFollows'
<1>1. codex = Resting /\ UNCHANGED <<cycle, lane, rounds, worker, review, evaluation, proof, jobs>>
  BY DEF PickRun, RecoverRun, PickReview, PickEvaluation, steady, entities
<1>2. Phase'
  BY <1>1, SamePhase
<1>3. /\ \A k \in Run : worker[k] # "Claimed" /\ review[k] \notin {"Claimed", "Reviewing"}
      /\ \A k \in Run : evaluation[k] # "Running"
  BY <1>1 DEF WorkerFollows, Resting, Task
<1>4. CASE codex'.task # "evaluation" \/ codex'.at = "close"
  BY <1>1, <1>2, <1>3, <1>4 DEF WorkerFollows
<1>5. CASE codex' = Task("evaluation", n, "start") /\ cycle.review_passed /\ evaluation[n] = "Queued"
  <2>1. cycle.review_passed = TRUE
    BY <1>5, TypeParts DEF CycleOK, CycleRecord
  <2>2. UnderEvaluation /\ n = rounds
    BY <1>5, <2>1, MayBeEvaluated DEF OpenEvaluation
  <2> QED
    BY <1>1, <1>2, <1>3, <1>5, <2>1, <2>2 DEF WorkerFollows, Task, UnderEvaluation, HandedOver
<1>6. CASE PickEvaluation(n)
  BY <1>2, <1>4, <1>5, <1>6 DEF PickEvaluation, Task
<1>7. CASE PickRun(n) \/ RecoverRun(n) \/ PickReview(n)
  BY <1>2, <1>4, <1>7 DEF PickRun, RecoverRun, PickReview, Task
<1> QED
  BY <1>6, <1>7

\* What the worker is at, as a task.
LEMMA CodexTask ==
    ASSUME CodexOK
    PROVE  /\ codex = Task(codex.task, codex.run, codex.at)
           /\ \A at : Turns(at) => codex' = Task(codex.task, codex.run, at)
  BY DEF CodexOK, Task, Turns

\* Each call the worker makes for a run, a review or an evaluation it has taken up.
LEMMA MoveOnTrack ==
    ASSUME TypeOK, Judging, ~overtaken, Phase, WorkerFollows,
           ClaimRun \/ StartRun \/ ClaimReview \/ StartReview \/ CloseEvaluation \/ StartEvaluation
    PROVE  Phase' /\ WorkerFollows'
<1>1. WorkOK /\ VerdictsOK /\ CodexOK
  BY TypeParts
<1>2. UNCHANGED <<cycle, lane, rounds, proof, jobs>>
  BY DEF ClaimRun, StartRun, MovesRun, ClaimReview, StartReview, MovesReview, CloseEvaluation,
         StartEvaluation, steady
<1> DEFINE n == codex.run
<1>3. CASE ClaimRun \/ StartRun
  <2>1. UNCHANGED <<review, evaluation>> /\ codex.task = "run"
    BY <1>3 DEF ClaimRun, StartRun, MovesRun, Busy
  <2>2. \A k \in Run : worker'[k] = worker[k] \/ (worker[k] \in LiveRun /\ worker'[k] \in LiveRun)
    BY <1>1, <1>3 DEF ClaimRun, StartRun, MovesRun, WorkOK, LiveRun
  <2>3. Phase'
    BY <1>2, <2>1, <2>2, SamePhase
  <2>4. \A k \in Run : review[k] \notin {"Claimed", "Reviewing"} /\ evaluation[k] # "Running"
    BY <2>1 DEF WorkerFollows, Task
  <2>5. codex'.task # "evaluation"
    BY <1>1, <1>3, <2>1, CodexTask DEF ClaimRun, StartRun, MovesRun, Rests, Resting, Task
  <2>6. \A k \in Run : worker'[k] = "Claimed" => codex' = Task("run", k, "start")
    <3>1. CASE ClaimRun
      <4>1. \A k \in Run : worker[k] # "Claimed"
        BY <3>1 DEF ClaimRun, Busy, WorkerFollows, Task
      <4>2. \A k \in Run : worker'[k] = "Claimed" => k = n /\ Turns("start")
        BY <1>1, <3>1, <4>1 DEF ClaimRun, MovesRun, WorkOK
      <4> QED
        BY <1>1, <2>1, <4>2, CodexTask
    <3>2. CASE StartRun
      <4>1. \A k \in Run : worker[k] = "Claimed" => k = n
        BY <3>2 DEF WorkerFollows, Task
      <4>2. \A k \in Run : worker'[k] # "Claimed"
        BY <1>1, <3>2, <4>1 DEF StartRun, MovesRun, WorkOK
      <4> QED
        BY <4>2
    <3> QED
      BY <1>3, <3>1, <3>2
  <2> QED
    BY <2>1, <2>3, <2>4, <2>5, <2>6 DEF WorkerFollows
<1>4. CASE ClaimReview \/ StartReview
  <2>1. UNCHANGED <<worker, evaluation>> /\ codex.task = "review"
    BY <1>4 DEF ClaimReview, StartReview, MovesReview, Busy
  <2>2. \A k \in Run : review'[k] = review[k] \/ (review[k] \in OpenReview /\ review'[k] \in OpenReview)
    BY <1>1, <1>4 DEF ClaimReview, StartReview, MovesReview, VerdictsOK, OpenReview
  <2>3. Phase'
    BY <1>2, <2>1, <2>2, SamePhase
  <2>4. \A k \in Run : worker[k] # "Claimed" /\ evaluation[k] # "Running"
    BY <2>1 DEF WorkerFollows, Task
  <2>5. codex'.task # "evaluation"
    BY <1>1, <1>4, <2>1, CodexTask DEF ClaimReview, StartReview, MovesReview, Rests, Resting, Task
  <2>6. \A k \in Run : /\ review'[k] = "Claimed" => codex' = Task("review", k, "start")
                       /\ review'[k] = "Reviewing" => codex' = Task("review", k, "work")
    <3>1. CASE ClaimReview
      <4>1. \A k \in Run : review[k] \notin {"Claimed", "Reviewing"}
        BY <3>1 DEF ClaimReview, Busy, WorkerFollows, Task
      <4>2. \A k \in Run : review'[k] # "Reviewing" /\ (review'[k] = "Claimed" => k = n /\ Turns("start"))
        BY <1>1, <3>1, <4>1 DEF ClaimReview, MovesReview, VerdictsOK
      <4> QED
        BY <1>1, <2>1, <4>2, CodexTask
    <3>2. CASE StartReview
      <4>1. \A k \in Run : review[k] # "Reviewing" /\ (review[k] = "Claimed" => k = n)
        BY <3>2 DEF StartReview, Busy, WorkerFollows, Task
      <4>2. \A k \in Run : review'[k] # "Claimed" /\ (review'[k] = "Reviewing" => k = n /\ Turns("work"))
        BY <1>1, <3>2, <4>1 DEF StartReview, MovesReview, VerdictsOK
      <4> QED
        BY <1>1, <2>1, <4>2, CodexTask
    <3> QED
      BY <1>4, <3>1, <3>2
  <2> QED
    BY <2>1, <2>3, <2>4, <2>5, <2>6 DEF WorkerFollows
<1>5. CASE CloseEvaluation
  <2>1. /\ UNCHANGED <<worker, review>> /\ codex.task = "evaluation" /\ codex.at = "close" /\ codex' = Resting
        /\ \A k \in Run : \/ evaluation'[k] = evaluation[k]
                          \/ k = n /\ evaluation[k] = "Queued" /\ evaluation'[k] = "Closed"
    BY <1>1, <1>5 DEF CloseEvaluation, Busy, Rests, VerdictsOK
  <2>2. n \in Run /\ n = rounds => fan[n] = "idle" /\ (HandedOver => review[n] \in NotApproved)
    BY <2>1, JudgingParts DEF FansAlone, FanAlone, ClosedByReview, HandedOver
  <2>3. Phase'
    BY <1>2, <2>1, <2>2, SamePhase DEF OpenEvaluation
  <2>4. \A k \in Run : /\ worker[k] # "Claimed" /\ review[k] \notin {"Claimed", "Reviewing"}
                       /\ evaluation[k] # "Running"
    BY <2>1 DEF WorkerFollows, Task
  <2> QED
    BY <2>1, <2>3, <2>4 DEF WorkerFollows, Resting
<1>6. CASE StartEvaluation
  <2>1. codex.task = "evaluation" /\ codex.at = "start" /\ UNCHANGED <<worker, review>>
    BY <1>6 DEF StartEvaluation, Busy
  <2>2. /\ cycle.status = "Reviewing" /\ cycle.review_passed = TRUE /\ n = rounds /\ evaluation[rounds] = "Queued"
        /\ \A k \in Run : /\ worker[k] # "Claimed" /\ review[k] \notin {"Claimed", "Reviewing"}
                          /\ evaluation[k] # "Running"
    BY <2>1 DEF WorkerFollows, Task
  <2>3. rounds \in Run
    BY <2>2 DEF Phase, Assigning, AssigningTo, AssignPlace, Working, Losing, FanningOut, HandedOver, UnderReview,
       AfterReview, UnderEvaluation, AfterEvaluation, Proved, BothPassed, AwaitingPerson, PersonAnswered
  <2>4. /\ codex' = Task("evaluation", rounds, "work")
        /\ \A k \in Run : evaluation'[k] = IF k = rounds THEN "Running" ELSE evaluation[k]
    BY <1>1, <1>6, <2>1, <2>2, CodexTask DEF StartEvaluation, VerdictsOK
  <2>5. Phase'
    BY <1>2, <2>1, <2>2, <2>4, SamePhase DEF OpenEvaluation
  <2> QED
    BY <1>2, <2>1, <2>2, <2>3, <2>4, <2>5 DEF WorkerFollows, Task
<1> QED
  BY <1>3, <1>4, <1>5, <1>6

\* A verdict, or the end of a run, comes in when no integration is in flight.
LEMMA AtRest ==
    ASSUME TypeOK, disturbances' = disturbances
    PROVE  /\ AfterJobs => NoJobs
           /\ HoursPass => NoJobs /\ ~WorkWaits
           /\ ~Overtakes /\ ~Disturbs
<1>1. disturbances \in Nat
  BY TypeParts, FactoryBounds DEF TimingOK
<1>2. ~Disturbs /\ ~Overtakes
  BY <1>1 DEF Disturbs, Overtakes
<1> QED
  BY <1>2 DEF AfterJobs, HoursPass

\* A run that ends is handed over, or lost.
LEMMA RunEndOnTrack ==
    ASSUME TypeOK, Core, Phase, WorkerFollows, NoJobs, NEW done \in BOOLEAN, ReportRun(done)
    PROVE  Phase' /\ WorkerFollows'
<1>1. WorkOK /\ HandoverOK /\ CodexOK
  BY TypeParts
<1> DEFINE n == codex.run
<1>2. /\ UNCHANGED <<cycle, rounds, lane, review, evaluation, proof, assign, gate, human>>
      /\ codex.task = "run" /\ codex.at = "work" /\ codex' = Resting
  BY DEF ReportRun, Busy, Rests
<1>3. \A k \in Run : worker[k] # "Claimed" /\ review[k] \notin {"Claimed", "Reviewing"} /\ evaluation[k] # "Running"
  BY <1>2 DEF WorkerFollows, Task
<1>4. WorkerFollows'
  <2>1. \A k \in Run : worker'[k] # "Claimed"
    BY <1>1, <1>3 DEF ReportRun, WorkOK
  <2> QED
    BY <1>2, <1>3, <2>1 DEF WorkerFollows, Resting
<1>5. CASE ~(n \in Run /\ worker[n] = "Running")
  <2>1. UNCHANGED <<worker, fan, lost>>
    BY <1>1, <1>5 DEF ReportRun, WorkOK, HandoverOK
  <2>2. Phase'
    BY <1>2, <2>1, SamePhase DEF jobs
  <2> QED
    BY <1>4, <2>2
<1>6. CASE n \in Run /\ worker[n] = "Running"
  <2>1. n = rounds /\ ~NoneLive
    BY <1>6 DEF Core, LatestLives, LiveRun, NoneLive
  <2>2. cycle.status \notin Judged
    BY <2>1 DEF Core, JudgedAtRest
  <2>3. Working
    BY <2>2, JobPhase DEF UnderReview, UnderEvaluation, HandedOver, AwaitingPerson, Judged
  <2>4. NoGates /\ NoGates' /\ NoAssignment' /\ human' = "idle"
    BY <1>2, <2>3 DEF NoJobs, NoGates, NoGate, NoAssignment, Working
  <2>5. OthersClosed'
    <3>1. \A k \in Run : ~Obsolete(k)
      BY <2>4 DEF Obsolete, NoGates, Gates
    <3> QED
      BY <1>2, <2>3, <3>1 DEF Working, CleaningUp, OthersClosed
  <2>6. CASE done
    <3>1. /\ \A k \in Run : fan'[k] = IF k = n THEN "draft" ELSE fan[k]
          /\ UNCHANGED lost
      BY <1>1, <1>6, <2>6 DEF ReportRun, HandoverOK
    <3>2. NoLoss' /\ fan'[rounds'] = "draft" /\ \A k \in Run : k # rounds' => fan'[k] = "idle"
      BY <1>2, <1>6, <2>1, <2>3, <3>1 DEF Working, NoLoss, NoFanOut
    <3>3. FanPlace("draft")'
      BY <1>2, <2>3 DEF FanPlace, Early, Working
    <3>4. FanningOut'
      BY <1>2, <1>6, <2>1, <2>4, <2>5, <3>2, <3>3 DEF FanningOut
    <3> QED
      BY <1>4, <3>4 DEF Phase
  <2>7. CASE ~done
    <3>1. lost'[n] = "look" /\ UNCHANGED fan
      BY <1>1, <1>6, <2>7 DEF ReportRun, HandoverOK
    <3>2. Losing'
      BY <1>2, <1>6, <2>3, <2>4, <3>1 DEF Losing, Working, NoFanOut
    <3> QED
      BY <1>4, <3>2 DEF Phase
  <2> QED
    BY <2>6, <2>7
<1> QED
  BY <1>5, <1>6

\* The verdict of the review goes to its gate.
LEMMA ReviewEndOnTrack ==
    ASSUME TypeOK, Phase, WorkerFollows, NoJobs,
           NEW verdict \in NotApproved \cup {"Approved"}, ReportReview(verdict)
    PROVE  Phase' /\ WorkerFollows'
<1>1. VerdictsOK /\ GateOK /\ CodexOK
  BY TypeParts
<1> DEFINE n == codex.run
<1>2. /\ UNCHANGED <<cycle, rounds, lane, worker, evaluation, proof, assign, fan, lost, human>>
      /\ codex.task = "review" /\ codex.at = "work" /\ codex' = Resting
  BY DEF ReportReview, Busy, Rests
<1>3. /\ \A k \in Run : worker[k] # "Claimed" /\ review[k] # "Claimed" /\ evaluation[k] # "Running"
      /\ \A k \in Run : review[k] = "Reviewing" => k = n
  BY <1>2 DEF WorkerFollows, Task
<1>4. WorkerFollows'
  <2>1. \A k \in Run : review'[k] \notin {"Claimed", "Reviewing"}
    BY <1>1, <1>3 DEF ReportReview, VerdictsOK, NotApproved
  <2> QED
    BY <1>2, <1>3, <2>1 DEF WorkerFollows, Resting
<1>5. CASE ~(n \in Run /\ review[n] = "Reviewing")
  <2>1. UNCHANGED <<review, gate>>
    BY <1>1, <1>5 DEF ReportReview, StartGate, VerdictsOK, GateOK, Gates
  <2>2. Phase'
    BY <1>2, <2>1, SamePhase DEF jobs
  <2> QED
    BY <1>4, <2>2
<1>6. CASE n \in Run /\ review[n] = "Reviewing"
  <2>1. review[n] \in OpenReview
    BY <1>6 DEF OpenReview
  <2>2. UnderReview /\ n = rounds
    BY <1>6, <2>1, JobPhase DEF Working, CleaningUp, UnderReview, UnderEvaluation, HandedOver, AwaitingPerson,
       BothPassed, OthersClosed, OpenReview
  <2>3. ReviewGate \in Gates /\ ReviewGate' = ReviewGate /\ ReviewGate = <<"review", n>>
    BY <1>2, <1>6, <2>2 DEF ReviewGate, Gates
  <2>4. /\ gate'[ReviewGate].at = "look" /\ \A h \in Gates : h # ReviewGate => gate'[h].at = gate[h].at
        /\ \A k \in Run : review'[k] = IF k = n THEN verdict ELSE review[k]
    BY <1>1, <1>6, <2>3 DEF ReportReview, StartGate, GateOK, VerdictsOK
  <2>5. HandedOver'
    BY <1>2, <2>2, <2>4 DEF UnderReview, HandedOver, NoAssignment, NoFanOut, NoLoss, OthersClosed
  <2>6. ReviewPlace("look")'
    BY <1>2, <1>6, <2>2, <2>4 DEF ReviewPlace, UnderReview, NotApproved
  <2>7. AfterReview'
    BY <1>2, <2>2, <2>3, <2>4, <2>5, <2>6 DEF AfterReview, AloneAt, UnderReview, NoGates
  <2> QED
    BY <1>4, <2>7 DEF Phase
<1> QED
  BY <1>5, <1>6

\* And so does the verdict of the evaluation.
LEMMA EvaluationEndOnTrack ==
    ASSUME TypeOK, Judging, Phase, WorkerFollows, NoJobs, NEW verdict \in {"Passed", "Failed"},
           ReportEvaluation(verdict)
    PROVE  Phase' /\ WorkerFollows'
<1>1. VerdictsOK /\ GateOK /\ CodexOK
  BY TypeParts
<1>2. /\ UNCHANGED <<cycle, rounds, lane, worker, review, proof, assign, fan, lost, human>>
      /\ codex.task = "evaluation" /\ codex.at = "work" /\ codex' = Resting
  BY DEF ReportEvaluation, Busy, Rests
<1>3. /\ cycle.review_passed = TRUE /\ cycle.status = "Reviewing" /\ codex.run = rounds /\ evaluation[rounds] = "Running"
      /\ \A k \in Run : worker[k] # "Claimed" /\ review[k] \notin {"Claimed", "Reviewing"}
      /\ \A k \in Run : evaluation[k] = "Running" => k = rounds
  BY <1>2 DEF WorkerFollows, Task
<1>4. UnderEvaluation
  BY <1>3, JobPhase DEF Working, UnderReview, AwaitingPerson
<1>5. rounds \in Run
  BY <1>4 DEF UnderEvaluation, HandedOver
<1>6. EvaluationGate \in Gates /\ EvaluationGate' = EvaluationGate /\ EvaluationGate = <<"evaluation", codex.run>>
  BY <1>2, <1>3, <1>5 DEF EvaluationGate, Gates
<1>7. /\ gate'[EvaluationGate].at = "look" /\ \A h \in Gates : h # EvaluationGate => gate'[h].at = gate[h].at
      /\ \A k \in Run : evaluation'[k] = IF k = rounds THEN verdict ELSE evaluation[k]
  BY <1>1, <1>3, <1>5, <1>6 DEF ReportEvaluation, StartGate, GateOK, VerdictsOK
<1>8. WorkerFollows'
  BY <1>2, <1>3, <1>7 DEF WorkerFollows, Resting
<1>9. HandedOver'
  BY <1>2, <1>4, <1>7 DEF UnderEvaluation, HandedOver, NoAssignment, NoFanOut, NoLoss, OthersClosed
<1>10. AfterEvaluation'
  <2>1. \A h \in Gates : gate[h].at = "idle"
    BY DEF NoJobs, NoGate
  <2>2. EvaluationPlace("look")'
    BY <1>2, <1>5, <1>7 DEF EvaluationPlace
  <2> QED
    BY <1>2, <1>4, <1>6, <1>7, <1>9, <2>1, <2>2 DEF AfterEvaluation, AloneAt, UnderEvaluation
<1> QED
  BY <1>8, <1>10 DEF Phase

LEMMA WorkerOnTrack ==
    ASSUME TypeOK, Core, Judging, ~overtaken, Phase, WorkerFollows, WorkerStep, disturbances' = disturbances
    PROVE  Phase' /\ WorkerFollows'
<1>1. ASSUME NEW done \in BOOLEAN, ReportRun(done)
      PROVE  Phase' /\ WorkerFollows'
  BY <1>1, AtRest, RunEndOnTrack DEF ReportRun
<1>2. ASSUME NEW verdict \in NotApproved \cup {"Approved"}, ReportReview(verdict)
      PROVE  Phase' /\ WorkerFollows'
  BY <1>2, AtRest, ReviewEndOnTrack DEF ReportReview
<1>3. ASSUME NEW verdict \in {"Passed", "Failed"}, ReportEvaluation(verdict)
      PROVE  Phase' /\ WorkerFollows'
  BY <1>3, AtRest, EvaluationEndOnTrack DEF ReportEvaluation
<1> QED
  BY <1>1, <1>2, <1>3, PickOnTrack, MoveOnTrack DEF WorkerStep

\* Where no integration is in flight and the worker has nothing to do, a person is waited for.
LEMMA OnlyPersonWaits ==
    ASSUME TypeOK, Phase, WorkerFollows, NoJobs, ~WorkWaits
    PROVE  /\ AwaitingPerson
           /\ \A n \in Run : /\ worker[n] \notin LiveRun /\ review[n] \notin OpenReview
                             /\ evaluation[n] \notin OpenEvaluation
<1>1. codex = Resting
  BY DEF WorkWaits
<1>2. /\ \A n \in Run : worker[n] # "Claimed" /\ review[n] \notin {"Claimed", "Reviewing"}
      /\ \A n \in Run : evaluation[n] # "Running"
  BY <1>1 DEF WorkerFollows, Resting, Task
<1>3. \A n \in Run : worker[n] \notin LiveRun /\ review[n] \notin OpenReview
  BY <1>2 DEF WorkWaits, LiveRun, OpenReview
<1>4. ~Working /\ ~UnderReview
  BY <1>3 DEF Working, LatestLive, UnderReview, HandedOver
<1>5. ~UnderEvaluation
  BY <1>2 DEF UnderEvaluation, HandedOver, OpenEvaluation, WorkWaits
<1>6. AwaitingPerson
  BY <1>4, <1>5, JobPhase
<1>7. \A n \in Run : evaluation[n] \notin OpenEvaluation
  BY <1>6 DEF AwaitingPerson, BothPassed, OthersClosed, OpenEvaluation
<1> QED
  BY <1>3, <1>6, <1>7

\* So the only clock that ends is that of a cycle whose person does not answer.
LEMMA ClockOnTrack ==
    ASSUME TypeOK, Phase, WorkerFollows, ClockStep, disturbances' = disturbances
    PROVE  cycle'.status \in Ended /\ UNCHANGED timedOut
<1>1. HoursPass => /\ AwaitingPerson
                   /\ \A n \in Run : /\ worker[n] \notin LiveRun /\ review[n] \notin OpenReview
                                     /\ evaluation[n] \notin OpenEvaluation
  BY AtRest, OnlyPersonWaits
<1>2. \A n \in Run : ~RunTimesOut(n) /\ ~ReviewTimesOut(n) /\ ~ProofTimesOut(n)
  BY <1>1, AtRest DEF RunTimesOut, ReviewTimesOut, ProofTimesOut
<1>3. \A n \in Run : ~EvaluationTimesOut(n)
  BY <1>1 DEF EvaluationTimesOut, OpenEvaluation
<1>4. CycleTimesOut /\ AwaitingPerson
  BY <1>1, <1>2, <1>3 DEF ClockStep, CycleTimesOut
<1>5. cycle'.status = "Failed" /\ cycle.status = "AwaitingHumanCompletionApproval"
  BY <1>4, TypeParts DEF CycleTimesOut, Fails, AwaitingPerson, CycleOK, CycleRecord
<1>6. timedOut \in BOOLEAN
  BY TypeParts DEF TimingOK
<1> QED
  BY <1>4, <1>5, <1>6 DEF CycleTimesOut, Ended

\* What a step may do to the record of what went wrong.
LEMMA TimingStep ==
    ASSUME [Next]_vars
    PROVE  /\ \/ UNCHANGED <<overtaken, disturbances>>
              \/ disturbances < DisturbanceLimit /\ disturbances' = disturbances + 1
           /\ ~ClockStep => UNCHANGED timedOut
<1> DEFINE Effect ==
      \/ UNCHANGED <<overtaken, disturbances>>
      \/ disturbances < DisturbanceLimit /\ disturbances' = disturbances + 1
<1>1. AfterJobs \/ HoursPass \/ Overtakes => Effect
  BY DEF AfterJobs, HoursPass, Overtakes, Disturbs
<1>2. CASE JobStep
  <2>1. UNCHANGED timing
    <3>1. \A g \in Gates : GateStep(g) => UNCHANGED timing
      BY DEF GateStep, ReadCycle, ReadE2e, AwaitE2e, ReportE2e, PassReview, UpdateProof, ReadGates,
         PassEvaluation, AwaitProving, FindProof, MarkReady, ReadProving, AttachProofPacket,
         RequestHumanCompletionApproval, CompleteByGate, RequestChanges, FailCycle, CloseObsolete,
         RejectProof, Posts, steady
    <3>2. \A n \in Run : FanStep(n) => UNCHANGED timing
      BY DEF FanStep, DraftProof, RequestReview, QueueEvaluation, ReadStatus, WorkerDone, SubmitForReview,
         AttachReviewRun, AttachEvaluationRun, Advances, steady
    <3>3. \A n \in Run : AssignStep(n) \/ HandleFailed(n) => UNCHANGED timing
      BY DEF AssignStep, ConfigureRun, StartWork, AttachWorkerRun, HandleFailed, steady
    <3>4. (\E n \in Assignment : AssignmentFailed(n)) \/ CompleteByPerson => UNCHANGED timing
      BY DEF AssignmentFailed, CompleteByPerson, steady
    <3> QED
      BY <1>2, <3>1, <3>2, <3>3, <3>4 DEF JobStep
  <2> QED
    BY <2>1 DEF timing
<1>3. CASE WorkerStep
  <2>1. UNCHANGED timing \/ (UNCHANGED timedOut /\ Effect)
    BY <1>1, <1>3 DEF WorkerStep, PickRun, RecoverRun, PickReview, PickEvaluation, ClaimRun, StartRun,
       MovesRun, ReportRun, ClaimReview, StartReview, MovesReview, ReportReview, CloseEvaluation,
       StartEvaluation, ReportEvaluation, steady
  <2> QED
    BY <2>1 DEF timing
<1>4. CASE ClockStep
  BY <1>1, <1>4 DEF ClockStep, RunTimesOut, ReviewTimesOut, EvaluationTimesOut, ProofTimesOut, CycleTimesOut
<1>5. CASE ServerCrash \/ WorkerCrash
  BY <1>5 DEF ServerCrash, WorkerCrash, Disturbs
<1>6. CASE ApproveHumanCompletion \/ UNCHANGED vars
  BY <1>6 DEF ApproveHumanCompletion, vars, steady, timing
<1> QED
  BY <1>2, <1>3, <1>4, <1>5, <1>6 DEF Next

\* A cycle that ended stays so.
LEMMA EndedStays ==
    ASSUME TypeOK, cycle.status \in Ended, [Next]_vars
    PROVE  cycle'.status \in Ended
<1>1. CycleOK /\ cycle.status \notin Unjudged \cup {"Reviewing", "Proving", "AwaitingHumanCompletionApproval"}
  BY TypeParts DEF Ended, Unjudged
<1>2. CASE JobStep
  <2>1. ASSUME NEW g \in Gates, GateStep(g)
        PROVE  cycle'.status \in Ended
    BY <1>1, <2>1, GateStepEffect DEF GateEffect, Ended
  <2>2. ASSUME NEW n \in Run, FanStep(n)
        PROVE  cycle'.status \in Ended
    BY <1>1, <2>2, FanStepEffect DEF FanEffect, Unjudged
  <2>3. ASSUME NEW n \in Run, AssignStep(n) \/ HandleFailed(n)
        PROVE  cycle'.status \in Ended
    BY <1>1, <2>3 DEF AssignStep, ConfigureRun, StartWork, AttachWorkerRun, HandleFailed, InStatus, CanFail, Unjudged
  <2>4. ASSUME NEW n \in Assignment, AssignmentFailed(n)
        PROVE  cycle'.status \in Ended
    BY <2>4 DEF AssignmentFailed, CanFail
  <2>5. CompleteByPerson => cycle'.status \in Ended
    BY <1>1 DEF CompleteByPerson, InStatus
  <2> QED
    BY <1>2, <2>1, <2>2, <2>3, <2>4, <2>5 DEF JobStep
<1>3. CASE WorkerStep
  BY <1>3 DEF WorkerStep, PickRun, RecoverRun, PickReview, PickEvaluation, ClaimRun, StartRun,
     MovesRun, ReportRun, ClaimReview, StartReview, MovesReview, ReportReview, CloseEvaluation,
     StartEvaluation, ReportEvaluation
<1>4. CASE ClockStep
  BY <1>4 DEF ClockStep, RunTimesOut, ReviewTimesOut, EvaluationTimesOut, ProofTimesOut, CycleTimesOut, CanFail
<1>5. CASE ApproveHumanCompletion \/ ServerCrash \/ WorkerCrash \/ UNCHANGED vars
  BY <1>1, <1>5 DEF ApproveHumanCompletion, InStatus, ServerCrash, WorkerCrash, vars
<1> QED
  BY <1>2, <1>3, <1>4, <1>5 DEF Next

\* No packet is attached before the cycle is in Proving, and from there it does not go back.
LEMMA StepUnattached ==
    ASSUME TypeOK, Unattached, [Next]_vars
    PROVE  Unattached'
<1>1. CycleOK
  BY TypeParts
<1> DEFINE Waiting(s) == s \in Unjudged \cup {"Reviewing"}
           Keeps == \/ ~Waiting(cycle'.status)
                    \/ /\ Waiting(cycle.status) /\ UNCHANGED cycle.proof
                       /\ cycle'.proof_attached \in {cycle.proof_attached, FALSE}
<1>2. Keeps => Unattached'
  BY DEF Unattached
<1>3. UNCHANGED cycle => Keeps
  OBVIOUS
<1>4. ASSUME NEW g \in Gates, GateStep(g)
      PROVE  Keeps
  <2>1. cycle'.status = cycle.status \/ ~Waiting(cycle'.status) \/ Waiting(cycle.status)
    BY <1>4, GateStepEffect DEF GateEffect, Passing, Unjudged
  <2>2. CASE AttachProofPacket(g)
    BY <1>1, <1>3, <2>2 DEF AttachProofPacket, Posts, InStatus, Unjudged, CycleOK, CycleRecord
  <2>3. CASE ~AttachProofPacket(g)
    <3>1. UNCHANGED cycle.proof /\ cycle'.proof_attached \in {cycle.proof_attached, FALSE}
      BY <1>1, <1>4, <2>3
         DEF GateStep, ReadCycle, ReadE2e, AwaitE2e, ReportE2e, PassReview, UpdateProof, ReadGates,
             PassEvaluation, AwaitProving, FindProof, MarkReady, ReadProving, RequestHumanCompletionApproval,
             CompleteByGate, RequestChanges, FailCycle, CloseObsolete, RejectProof, Posts, SentBack,
             CycleOK, CycleRecord
    <3> QED
      BY <2>1, <3>1
  <2> QED
    BY <2>2, <2>3
<1>5. ASSUME NEW n \in Run, FanStep(n)
      PROVE  Keeps
  <2>1. cycle'.status = cycle.status \/ Waiting(cycle.status)
    BY <1>5, FanStepEffect DEF FanEffect, Unjudged
  <2>2. UNCHANGED <<cycle.proof, cycle.proof_attached>>
    BY <1>1, <1>5 DEF FanStep, DraftProof, RequestReview, QueueEvaluation, ReadStatus, WorkerDone, SubmitForReview,
       AttachReviewRun, AttachEvaluationRun, Advances, CycleOK, CycleRecord
  <2> QED
    BY <2>1, <2>2
<1>6. ASSUME NEW n \in Run, AssignStep(n) \/ HandleFailed(n)
      PROVE  Keeps
  BY <1>1, <1>6 DEF AssignStep, ConfigureRun, StartWork, AttachWorkerRun, HandleFailed, Fails, InStatus, Unjudged,
     CycleOK, CycleRecord
<1>7. ASSUME NEW n \in Assignment, AssignmentFailed(n)
      PROVE  Keeps
  BY <1>1, <1>7 DEF AssignmentFailed, Fails, Unjudged, CycleOK, CycleRecord
<1>8. CASE CompleteByPerson \/ ApproveHumanCompletion \/ CycleTimesOut
  BY <1>1, <1>2, <1>3, <1>8 DEF CompleteByPerson, ApproveHumanCompletion, CycleTimesOut, Fails, InStatus, Unjudged,
     CycleOK, CycleRecord
<1>9. CASE WorkerStep
  <2>1. UNCHANGED cycle
    BY <1>9 DEF WorkerStep, PickRun, RecoverRun, PickReview, PickEvaluation, ClaimRun, StartRun,
       MovesRun, ReportRun, ClaimReview, StartReview, MovesReview, ReportReview, CloseEvaluation,
       StartEvaluation, ReportEvaluation
  <2> QED
    BY <1>2, <1>3, <2>1
<1>10. CASE ServerCrash \/ WorkerCrash \/ UNCHANGED vars
  BY <1>2, <1>3, <1>10 DEF ServerCrash, WorkerCrash, vars
<1>11. ASSUME NEW n \in Run, RunTimesOut(n) \/ ReviewTimesOut(n) \/ EvaluationTimesOut(n) \/ ProofTimesOut(n)
       PROVE  Keeps
  BY <1>3, <1>11 DEF RunTimesOut, ReviewTimesOut, EvaluationTimesOut, ProofTimesOut
<1> QED
  BY <1>2, <1>4, <1>5, <1>6, <1>7, <1>8, <1>9, <1>10, <1>11 DEF Next, JobStep, ClockStep

\* A step that nothing disturbs leads from one phase to the next.
LEMMA StepOnTrack ==
    ASSUME TypeOK, Core, Judging, Unattached, ~overtaken, OnTrack, [Next]_vars, disturbances' = disturbances
    PROVE  OnTrack'
<1>1. CASE cycle.status \in Ended
  <2>1. cycle'.status \in Ended
    BY <1>1, EndedStays
  <2>2. ~CycleTimesOut
    BY <1>1 DEF CycleTimesOut, CanFail
  <2>3. UNCHANGED timedOut
    BY <2>2, TimingStep DEF ClockStep, RunTimesOut, ReviewTimesOut, EvaluationTimesOut, ProofTimesOut
  <2> QED
    BY <2>1, <2>3 DEF OnTrack
<1>2. CASE cycle.status \notin Ended
  <2>1. WorkerFollows /\ Phase /\ timedOut = FALSE
    BY <1>2 DEF OnTrack
  <2>2. CASE ClockStep
    BY <2>1, <2>2, ClockOnTrack DEF OnTrack
  <2>3. ~ClockStep => timedOut' = FALSE
    BY <2>1, TimingStep
  <2>4. CASE JobStep /\ ~ClockStep
    BY <2>1, <2>3, <2>4, AssignOnTrack, FanOnTrack, LossOnTrack, FailureOnTrack, GateOnTrack, PersonOnTrack
       DEF JobStep, OnTrack
  <2>5. CASE WorkerStep /\ ~ClockStep
    BY <2>1, <2>3, <2>5, WorkerOnTrack DEF OnTrack
  <2>6. CASE ApproveHumanCompletion /\ ~ClockStep
    BY <2>1, <2>3, <2>6, PersonOnTrack DEF OnTrack
  <2>7. ~ServerCrash /\ ~WorkerCrash
    BY AtRest DEF ServerCrash, WorkerCrash
  <2>8. CASE UNCHANGED vars /\ ~ClockStep
    <3>1. UNCHANGED <<cycle, rounds, worker, review, evaluation, proof, codex, lane, jobs>>
      BY <2>8 DEF vars, entities, steady
    <3>2. Phase'
      BY <2>1, <3>1, SamePhase
    <3>3. WorkerFollows'
      BY <2>1, <3>1, FollowsOn
    <3> QED
      BY <2>3, <2>8, <3>2, <3>3 DEF OnTrack
  <2> QED
    BY <2>2, <2>4, <2>5, <2>6, <2>7, <2>8 DEF Next
<1> QED
  BY <1>1, <1>2

LEMMA OnScheduleAlways == Spec => []OnSchedule
<1>1. Init => OnSchedule
  <2> SUFFICES ASSUME Init PROVE OnSchedule
    OBVIOUS
  <2>1. /\ cycle = Planned /\ rounds = 0 /\ timedOut = FALSE /\ overtaken = FALSE
        /\ codex = Resting /\ human = "idle"
        /\ \A n \in Run : /\ worker[n] = "none" /\ review[n] = "none" /\ evaluation[n] = "none"
                          /\ fan[n] = "idle" /\ lost[n] = "idle"
        /\ \A g \in Gates : gate[g].at = "idle"
    BY DEF Init, NoGate
  <2>2. Unattached
    BY <2>1 DEF Unattached, Planned
  <2>3. WorkerFollows
    BY <2>1 DEF WorkerFollows, Resting
  <2>4. 1 \in Run /\ 1 \in Assignment
    BY FactoryBounds DEF Run, Assignment
  <2>5. /\ assign[1] = (IF lane = "L1" THEN "start" ELSE "configure") /\ lane \in {"L1", "L3"}
        /\ \A n \in Assignment : n # 1 => assign[n] = "idle"
    BY <2>4, FactoryLanes DEF Init, Assignment
  <2>6. AssigningTo(1)
    BY <2>1, <2>4, <2>5 DEF AssigningTo, AssignPlace, Planned, CleaningUp, NoFanOut, NoLoss, OpenReview, OpenEvaluation
  <2> QED
    BY <2>1, <2>2, <2>3, <2>4, <2>6 DEF OnSchedule, OnTrack, Phase, Assigning
<1>2. TypeOK /\ Core /\ Judging /\ OnSchedule /\ [Next]_vars => OnSchedule'
  <2> SUFFICES ASSUME TypeOK, Core, Judging, OnSchedule, [Next]_vars PROVE OnSchedule'
    OBVIOUS
  <2>1. Unattached'
    BY StepUnattached DEF OnSchedule
  <2>2. disturbances \in Nat /\ (UNCHANGED <<overtaken, disturbances>> \/ disturbances' = disturbances + 1)
    BY TimingStep, TypeParts, FactoryBounds DEF TimingOK
  <2>3. overtaken' => disturbances' > 0
    <3>1. overtaken => disturbances > 0
      BY DEF OnSchedule
    <3>2. CASE UNCHANGED <<overtaken, disturbances>>
      BY <3>1, <3>2, Zenon
    <3>3. CASE disturbances' = disturbances + 1
      BY <2>2, <3>3
    <3> QED
      BY <2>2, <3>2, <3>3
  <2>4. ASSUME disturbances' = 0
        PROVE  OnTrack'
    <3>1. disturbances = 0 /\ disturbances' = disturbances
      BY <2>2, <2>4
    <3>2. OnTrack /\ ~overtaken /\ Unattached
      BY <3>1 DEF OnSchedule
    <3> QED
      BY <3>1, <3>2, StepOnTrack
  <2> QED
    BY <2>1, <2>3, <2>4 DEF OnSchedule
<1> QED
  BY <1>1, <1>2, TypeCorrect, CoreAlways, JudgingAlways, PTL DEF Spec

\* Where nothing crashed and nothing was out of its time, a cycle does not hang until its
\* clock fails it, whatever the verdicts and however many rounds.
THEOREM NeverStalls == Spec => []NoOrdinaryStall
<1>1. OnSchedule => NoOrdinaryStall
  BY DEF OnSchedule, OnTrack, NoOrdinaryStall
<1> QED
  BY <1>1, OnScheduleAlways, PTL

\* Such a cycle completes with a review, an evaluation and a ready packet that are all of
\* the run that implements it.
THEOREM CompletesAsOne ==
    Spec => [][disturbances = 0 /\ cycle.status # "Complete" /\ cycle'.status = "Complete" =>
                  InFavour /\ OfOneRun /\ proof[cycle.proof] = "Ready"]_vars
<1>1. ASSUME TypeOK, Judging, OnSchedule, [Next]_vars, disturbances = 0,
             cycle.status # "Complete", cycle'.status = "Complete"
      PROVE  InFavour /\ OfOneRun /\ proof[cycle.proof] = "Ready"
  <2>1. cycle.status = "Proving" /\ GatesPassed
    BY <1>1, CompletionStep
  <2>2. Phase
    BY <1>1, <2>1 DEF OnSchedule, OnTrack, Ended
  <2>3. Proved \/ PersonAnswered
    BY <2>1, <2>2 DEF Phase, Assigning, AssigningTo, AssignPlace, Working, Losing, FanningOut, FanPlace,
       HandedOver, UnderReview, AfterReview, UnderEvaluation, AfterEvaluation, AwaitingPerson, Early
  <2>4. BothPassed /\ Attached
    BY <2>1, <2>3 DEF Proved, PersonAnswered, ProvingPlace, GatesPassed
  <2>5. cycle.implementer = rounds
    BY <1>1, <2>1, JudgingParts DEF LatestIsJudged, Judged
  <2> QED
    BY <2>4, <2>5 DEF BothPassed, Attached, InFavour, OfOneRun, Run
<1> QED
  BY <1>1, TypeCorrect, JudgingAlways, OnScheduleAlways, PTL DEF Spec
=============================================================================
