------------------------------- MODULE Factory -------------------------------
(***************************************************************************)
(* One WorkCycle of the Patrol factory (os-apps/paw-patrol): worker runs   *)
(* that write the code, and the gates that judge each of them.  The local  *)
(* worker (crates/paw-codex-worker) takes the runs up one after the other; *)
(* what follows from a run's end is decided by WASM integrations that read *)
(* and post over HTTP while everything else goes on:                       *)
(*   work_cycle_lifecycle     `assign`  queues a run for the worker        *)
(*   worker_run_lifecycle     `fan`     asks for review and evaluation     *)
(*   review_gate_lifecycle    `gate`    applies a verdict to the cycle     *)
(* A read and the post it leads to are two steps; a post from a status the *)
(* automaton does not allow is an error, and ends the integration.         *)
(*                                                                         *)
(* Run n, its ReviewRun, EvaluationRun and ProofPacket are all called n.   *)
(* FactoryCases, which only follow the cycle, cloud overflow, texts, and   *)
(* what a repository sweep or a patrol does in a run are left out.         *)
(***************************************************************************)
EXTENDS Naturals

CONSTANTS
    RoundLimit,        \* bound on the worker runs; the creation of one more fails
    DisturbanceLimit,  \* bound on crashes, and on what happens before or after its time
    Lanes              \* risk lanes, of "L1" and "L3"

ASSUME FactoryBounds == RoundLimit \in Nat \ {0} /\ DisturbanceLimit \in Nat
ASSUME FactoryLanes == Lanes \subseteq {"L1", "L3"}

VARIABLES
    cycle,             \* the WorkCycle
    lane,              \* risk_lane
    rounds,            \* worker runs created
    worker, review, evaluation, proof,    \* status of the runs, "none" until requested
    codex,             \* what the local worker is doing
    assign, fan, lost, gate, human,       \* integrations in flight
    timedOut,          \* did the cycle fail by its own clock
    overtaken,         \* did something slow overtake something quick
    disturbances

entities == <<worker, review, evaluation, proof>>
jobs     == <<assign, fan, lost, gate, human>>
timing   == <<timedOut, overtaken, disturbances>>
steady   == <<lane, timing>>
vars     == <<cycle, rounds, entities, codex, jobs, steady>>

-----------------------------------------------------------------------------
Run   == 1..RoundLimit
Assignment == 1..(RoundLimit + 1)
Gates == {"review", "evaluation"} \X Run
Ended == {"Complete", "Failed"}
CycleStates ==
    {"Planned", "InProgress", "Testing", "Reviewing", "Proving",
     "AwaitingHumanCompletionApproval"} \cup Ended

\* The statuses in which fail_work_cycle_and_escalate_case and handle_failed act.
Failable == CycleStates \ (Ended \cup {"AwaitingHumanCompletionApproval"})

\* The statuses of a cycle whose run was handed over.
Judged == {"Testing", "Reviewing", "Proving", "AwaitingHumanCompletionApproval", "Complete"}

LiveRun == {"Queued", "Claimed", "Running"}
NotApproved == {"ChangesRequested", "Escalated", "Failed"}    \* review_status_precludes_approval
OpenReview == {"Requested", "Claimed", "Reviewing"}
OpenEvaluation == {"Queued", "Running"}

Resting == [task |-> "rest", run |-> 0, at |-> "none"]
Task(task, n, at) == [task |-> task, run |-> n, at |-> at]
Busy(task, at) == codex.task = task /\ codex.at = at
Turns(at) == codex' = [codex EXCEPT !.at = at]
Rests == codex' = Resting

NoGate == [at |-> "idle", evaluation |-> 0, proof |-> 0]
At(g, place) == gate[g].at = place
Goes(g, place) == gate' = [gate EXCEPT ![g] = IF place = "idle" THEN NoGate ELSE [@ EXCEPT !.at = place]]

NoJobs ==
    /\ \A n \in Assignment : assign[n] = "idle"
    /\ \A n \in Run : fan[n] = "idle" /\ lost[n] = "idle"
    /\ \A g \in Gates : gate[g] = NoGate
    /\ human = "idle"

\* The calls of an integration take seconds, a codex run minutes and a clock
\* hours: that the slower one is first costs a disturbance.
Disturbs == disturbances < DisturbanceLimit /\ disturbances' = disturbances + 1
Overtakes == Disturbs /\ overtaken' = TRUE
AfterJobs == IF NoJobs THEN UNCHANGED <<disturbances, overtaken>> ELSE Overtakes

Planned ==
    [status |-> "Planned", implementer |-> 0, reviewer |-> 0, evaluation |-> 0, proof |-> 0,
     worker_done |-> FALSE, review_passed |-> FALSE, e2e_ok |-> FALSE,
     evaluation_passed |-> FALSE, proof_attached |-> FALSE, human_completion_approved |-> FALSE]

\* A planned cycle whose first run is about to be assigned: patrol_request_router
\* starts the work first, the approval of an L3 cycle queues the run first.
Init ==
    /\ cycle = Planned /\ lane \in Lanes /\ rounds = 0
    /\ worker = [n \in Run |-> "none"] /\ review = worker /\ evaluation = worker /\ proof = worker
    /\ codex = Resting
    /\ assign = [n \in Assignment |-> IF n > 1 THEN "idle" ELSE IF lane = "L1" THEN "start" ELSE "configure"]
    /\ fan = [n \in Run |-> "idle"] /\ lost = fan /\ human = "idle"
    /\ gate = [g \in Gates |-> NoGate]
    /\ timedOut = FALSE /\ overtaken = FALSE /\ disturbances = 0

(***************************************************************************)
(* The WorkCycle's automaton: what a post may do, from which status.       *)
(***************************************************************************)
GatesPassed ==
    cycle.review_passed /\ cycle.evaluation_passed /\ cycle.proof_attached /\ cycle.e2e_ok

InStatus(status) == cycle.status = status
CanFail == cycle.status \notin Ended
Fails == cycle' = [cycle EXCEPT !.status = "Failed"]

\* (mutant of SentBack: review_passed is not reset)
SentBackReviewed ==
    [cycle EXCEPT !.status = "InProgress", !.worker_done = FALSE, !.e2e_ok = FALSE,
                  !.evaluation_passed = FALSE, !.proof_attached = FALSE]

SentBack ==
    [cycle EXCEPT !.status = "InProgress", !.worker_done = FALSE, !.review_passed = FALSE,
                  !.e2e_ok = FALSE, !.evaluation_passed = FALSE, !.proof_attached = FALSE]

(***************************************************************************)
(* Assigning a run: handle_review_changes_requested of                     *)
(* work_cycle_lifecycle, and the router or approval for the first one.     *)
(***************************************************************************)
Assigns(n, place) == assign' = [assign EXCEPT ![n] = place]

StartWork(n) ==
    /\ assign[n] = "start"
    /\ IF InStatus("Planned")
       THEN /\ cycle' = [cycle EXCEPT !.status = "InProgress"]
            /\ Assigns(n, IF lane = "L1" THEN "configure" ELSE "attach")
       ELSE Assigns(n, "idle") /\ UNCHANGED cycle
    /\ UNCHANGED <<rounds, entities, codex, fan, lost, gate, human, steady>>

ConfigureRun(n) ==
    /\ assign[n] = "configure"
    /\ worker' = [worker EXCEPT ![n] = "Queued"] /\ rounds' = n
    /\ Assigns(n, IF n = 1 /\ lane = "L3" THEN "start" ELSE "attach")
    /\ UNCHANGED <<cycle, review, evaluation, proof, codex, fan, lost, gate, human, steady>>

\* Only the integration of RequestChanges names Fail as its on_failure.
AttachWorkerRun(n) ==
    /\ assign[n] = "attach"
    /\ IF InStatus("InProgress")
       THEN cycle' = [cycle EXCEPT !.implementer = n] /\ Assigns(n, "idle")
       ELSE Assigns(n, IF n = 1 THEN "idle" ELSE "fail") /\ UNCHANGED cycle
    /\ UNCHANGED <<rounds, entities, codex, fan, lost, gate, human, steady>>

AssignmentFailed(n) ==
    /\ assign[n] = "fail" /\ Assigns(n, "idle")
    /\ IF CanFail THEN Fails ELSE UNCHANGED cycle
    /\ UNCHANGED <<rounds, entities, codex, fan, lost, gate, human, steady>>

(***************************************************************************)
(* The local worker: one handler at a time, one HTTP call a step.  The     *)
(* post that finds another status is an error, after which it polls again. *)
(***************************************************************************)
PickRun(n) ==
    /\ codex = Resting /\ worker[n] = "Queued" /\ codex' = Task("run", n, "claim")
    /\ UNCHANGED <<cycle, rounds, entities, jobs, steady>>

\* After a restart, or a ReportDone that was lost: the run is executed again.
RecoverRun(n) ==
    /\ codex = Resting /\ worker[n] = "Running" /\ codex' = Task("run", n, "work")
    /\ UNCHANGED <<cycle, rounds, entities, jobs, steady>>

MovesRun(from, to, at) ==
    /\ IF worker[codex.run] = from
       THEN worker' = [worker EXCEPT ![codex.run] = to] /\ Turns(at)
       ELSE Rests /\ UNCHANGED worker
    /\ UNCHANGED <<cycle, rounds, review, evaluation, proof, jobs, steady>>

ClaimRun == Busy("run", "claim") /\ MovesRun("Queued", "Claimed", "start")
StartRun == Busy("run", "start") /\ MovesRun("Claimed", "Running", "work")

\* ReportDone, ReportFailed.
ReportRun(done) ==
    LET n == codex.run
    IN  /\ Busy("run", "work") /\ AfterJobs /\ Rests
        /\ IF worker[n] # "Running"
           THEN UNCHANGED <<worker, fan, lost>>
           ELSE /\ worker' = [worker EXCEPT ![n] = IF done THEN "Done" ELSE "Failed"]
                /\ IF done THEN fan' = [fan EXCEPT ![n] = "draft"] /\ UNCHANGED lost
                           ELSE lost' = [lost EXCEPT ![n] = "look"] /\ UNCHANGED fan
        /\ UNCHANGED <<cycle, rounds, review, evaluation, proof, assign, gate, human, lane, timedOut>>

PickReview(n) ==
    /\ codex = Resting /\ review[n] = "Requested" /\ codex' = Task("review", n, "claim")
    /\ UNCHANGED <<cycle, rounds, entities, jobs, steady>>

MovesReview(from, to, at) ==
    /\ IF review[codex.run] = from
       THEN review' = [review EXCEPT ![codex.run] = to] /\ Turns(at)
       ELSE Rests /\ UNCHANGED review
    /\ UNCHANGED <<cycle, rounds, worker, evaluation, proof, jobs, steady>>

ClaimReview == Busy("review", "claim") /\ MovesReview("Requested", "Claimed", "start")
StartReview == Busy("review", "start") /\ MovesReview("Claimed", "Reviewing", "work")

StartGate(g) == gate' = [gate EXCEPT ![g].at = "look"]

ReportReview(verdict) ==
    LET n == codex.run
    IN  /\ Busy("review", "work") /\ AfterJobs /\ Rests
        /\ IF review[n] # "Reviewing"
           THEN UNCHANGED <<review, gate>>
           ELSE review' = [review EXCEPT ![n] = verdict] /\ StartGate(<<"review", n>>)
        /\ UNCHANGED <<cycle, rounds, worker, evaluation, proof, assign, fan, lost, human, lane, timedOut>>

\* (mutant of Blocked: any review of the cycle blocks the evaluation)
BlockedByAnyReview ==
    \/ cycle.status \in Ended
    \/ /\ cycle.implementer # 0 /\ ~cycle.review_passed /\ cycle.reviewer # 0
       /\ \E n \in Run : review[n] \in NotApproved

\* queued_evaluation_terminal_blocker: the review is the one the cycle names.
Blocked ==
    \/ cycle.status \in Ended
    \/ /\ cycle.implementer # 0 /\ ~cycle.review_passed /\ cycle.reviewer # 0
       /\ review[cycle.reviewer] \in NotApproved

\* A queued evaluation is closed, has its review done first, is started, or waits.
\* The request for its review comes first and keeps the worker busy for minutes:
\* to see the evaluation while a fan-out goes on is a disturbance.
PickEvaluation(n) ==
    /\ codex = Resting /\ evaluation[n] = "Queued"
    /\ \/ Blocked /\ codex' = Task("evaluation", n, "close")
       \/ /\ ~Blocked /\ cycle.implementer # 0 /\ cycle.review_passed
          /\ codex' = Task("evaluation", n, "start")
       \/ /\ ~Blocked /\ cycle.implementer # 0 /\ ~cycle.review_passed /\ cycle.reviewer # 0
          /\ review[cycle.reviewer] = "Requested"
          /\ codex' = Task("review", cycle.reviewer, "claim")
    /\ IF \A k \in Run : fan[k] = "idle" THEN UNCHANGED <<disturbances, overtaken>> ELSE Overtakes
    /\ UNCHANGED <<cycle, lane, rounds, entities, jobs, timedOut>>

\* Closed: Failed with a classification the gate ignores (is_obsolete_evaluation_failure).
CloseEvaluation ==
    /\ Busy("evaluation", "close") /\ Rests
    /\ evaluation' = [evaluation EXCEPT ![codex.run] = IF @ = "Queued" THEN "Closed" ELSE @]
    /\ UNCHANGED <<cycle, rounds, worker, review, proof, jobs, steady>>

StartEvaluation ==
    /\ Busy("evaluation", "start")
    /\ IF evaluation[codex.run] = "Queued"
       THEN evaluation' = [evaluation EXCEPT ![codex.run] = "Running"] /\ Turns("work")
       ELSE Rests /\ UNCHANGED evaluation
    /\ UNCHANGED <<cycle, rounds, worker, review, proof, jobs, steady>>

ReportEvaluation(verdict) ==
    LET n == codex.run
    IN  /\ Busy("evaluation", "work") /\ AfterJobs /\ Rests
        /\ IF evaluation[n] # "Running"
           THEN UNCHANGED <<evaluation, gate>>
           ELSE evaluation' = [evaluation EXCEPT ![n] = verdict] /\ StartGate(<<"evaluation", n>>)
        /\ UNCHANGED <<cycle, rounds, worker, review, proof, assign, fan, lost, human, lane, timedOut>>

(***************************************************************************)
(* worker_run_lifecycle: after ReportDone `fan`, after ReportFailed `lost`. *)
(***************************************************************************)
\* The places of a fan-out that did not yet submit the cycle for review.
Early == {"draft", "request", "queue", "look", "workerDone", "tested", "submit"}

Fans(n, place) == fan' = [fan EXCEPT ![n] = place]

\* The packet's draft, the review's request, the evaluation's place in the queue.
DraftProof(n) ==
    /\ fan[n] = "draft" /\ proof' = [proof EXCEPT ![n] = "Drafting"] /\ Fans(n, "request")
    /\ UNCHANGED <<cycle, rounds, worker, review, evaluation, codex, assign, lost, gate, human, steady>>

RequestReview(n) ==
    /\ fan[n] = "request" /\ review' = [review EXCEPT ![n] = "Requested"] /\ Fans(n, "queue")
    /\ UNCHANGED <<cycle, rounds, worker, evaluation, proof, codex, assign, lost, gate, human, steady>>

QueueEvaluation(n) ==
    /\ fan[n] = "queue" /\ evaluation' = [evaluation EXCEPT ![n] = "Queued"] /\ Fans(n, "look")
    /\ UNCHANGED <<cycle, rounds, worker, review, proof, codex, assign, lost, gate, human, steady>>

\* (mutant of NextPost: the cycle is not submitted after its own WorkerDone)
NextPostOnce(at) ==
    CASE InStatus("InProgress") /\ at = "look" -> "workerDone"
      [] InStatus("Testing") /\ at = "look" -> "submit"
      [] InStatus("Reviewing") -> "attachReview"
      [] OTHER -> "idle"

\* advance_work_cycle_to_review: what each status read leads to.
NextPost(at) ==
    CASE InStatus("InProgress") /\ at = "look" -> "workerDone"
      [] InStatus("Testing") /\ at \in {"look", "tested"} -> "submit"
      [] InStatus("Reviewing") -> "attachReview"
      [] OTHER -> "idle"

ReadStatus(n) ==
    /\ fan[n] \in {"look", "tested", "submitted"} /\ Fans(n, NextPost(fan[n]))
    /\ UNCHANGED <<cycle, rounds, entities, codex, assign, lost, gate, human, steady>>

Advances(n, at, allowed, changed, next) ==
    /\ fan[n] = at
    /\ IF allowed THEN cycle' = changed /\ Fans(n, next) ELSE Fans(n, "idle") /\ UNCHANGED cycle
    /\ UNCHANGED <<rounds, entities, codex, assign, lost, gate, human, steady>>

WorkerDone(n) ==
    Advances(n, "workerDone", InStatus("InProgress"),
             [cycle EXCEPT !.status = "Testing", !.implementer = n, !.worker_done = TRUE], "tested")
SubmitForReview(n) ==
    Advances(n, "submit", InStatus("Testing") /\ cycle.worker_done,
             [cycle EXCEPT !.status = "Reviewing"], "submitted")
AttachReviewRun(n) ==
    Advances(n, "attachReview", InStatus("Reviewing"), [cycle EXCEPT !.reviewer = n], "attachEvaluation")
AttachEvaluationRun(n) ==
    Advances(n, "attachEvaluation", InStatus("Reviewing"), [cycle EXCEPT !.evaluation = n], "idle")

\* handle_failed: the cycle of a failed run fails.
HandleFailed(n) ==
    /\ \/ /\ lost[n] = "look" /\ UNCHANGED cycle
          /\ lost' = [lost EXCEPT ![n] = IF cycle.status \in Failable THEN "fail" ELSE "idle"]
       \/ /\ lost[n] = "fail" /\ lost' = [lost EXCEPT ![n] = "idle"]
          /\ IF CanFail THEN Fails ELSE UNCHANGED cycle
    /\ UNCHANGED <<rounds, entities, codex, assign, fan, gate, human, steady>>

(***************************************************************************)
(* review_gate_lifecycle, after the end of a review or an evaluation.      *)
(***************************************************************************)
GatePlaces ==
    {"idle", "look", "e2e", "reportE2e", "passReview", "awaitE2e", "verdict", "attachDraft",
     "ready", "passEvaluation", "proving", "find", "mark", "markReady", "attached", "attachProof",
     "decide", "askPerson", "complete", "sendBack", "failCycle", "obsolete", "close", "reject",
     "rejectProof"}

Verdict(g) == IF g[1] = "review" THEN review[g[2]] ELSE evaluation[g[2]]

\* What follows when the cycle is no longer to be judged.
AfterSendBack(g) == IF g[1] = "review" THEN "obsolete" ELSE "find"

\* What is done first with a verdict, given the status of the cycle.
FirstPlace(g) ==
    CASE Verdict(g) = "Passed" -> "e2e"
      [] Verdict(g) = "Approved" ->
            IF InStatus("Reviewing") /\ ~cycle.review_passed THEN "e2e" ELSE "verdict"
      [] Verdict(g) = "ChangesRequested" -> IF InStatus("Reviewing") THEN "sendBack" ELSE "obsolete"
      [] OTHER ->
            IF g[1] = "evaluation" /\ InStatus("Reviewing") THEN "sendBack"
            ELSE IF cycle.status \in Failable THEN "failCycle" ELSE AfterSendBack(g)

ReadCycle(g) ==
    /\ At(g, "look") /\ Goes(g, FirstPlace(g))
    /\ UNCHANGED <<cycle, rounds, entities, codex, assign, fan, lost, human, steady>>

\* record_e2e_if_present: a review may bring no evidence, an evaluation always does.
AfterE2e(g) == IF g[1] = "review" THEN "passReview" ELSE "awaitE2e"
ReadE2e(g) ==
    /\ At(g, "e2e")
    /\ \/ Goes(g, IF InStatus("Reviewing") /\ ~cycle.e2e_ok THEN "reportE2e" ELSE AfterE2e(g))
       \/ g[1] = "review" /\ Goes(g, "passReview")
    /\ UNCHANGED <<cycle, rounds, entities, codex, assign, fan, lost, human, steady>>

\* wait_for_bool
AwaitE2e(g) ==
    /\ At(g, "awaitE2e") /\ Goes(g, IF cycle.e2e_ok THEN "ready" ELSE "idle")
    /\ UNCHANGED <<cycle, rounds, entities, codex, assign, fan, lost, human, steady>>

\* A post to the cycle; refused, it ends the integration.
Posts(g, at, allowed, changed, next) ==
    /\ At(g, at)
    /\ IF allowed THEN cycle' = changed /\ Goes(g, next) ELSE Goes(g, "idle") /\ UNCHANGED cycle
    /\ UNCHANGED <<rounds, entities, codex, assign, fan, lost, human, steady>>

ReportE2e(g) ==
    Posts(g, "reportE2e", InStatus("Reviewing"), [cycle EXCEPT !.e2e_ok = TRUE], AfterE2e(g))
PassReview(g) ==
    Posts(g, "passReview", InStatus("Reviewing"),
          [cycle EXCEPT !.reviewer = g[2], !.review_passed = TRUE], "verdict")

\* update_proof_review: the packet stays a draft, but it must still be one.
UpdateProof(g) ==
    /\ \/ At(g, "verdict") /\ Goes(g, IF proof[g[2]] = "Drafting" THEN "attachDraft" ELSE "ready")
       \/ At(g, "attachDraft") /\ Goes(g, IF proof[g[2]] = "Drafting" THEN "ready" ELSE "idle")
    /\ UNCHANGED <<cycle, rounds, entities, codex, assign, fan, lost, human, steady>>

\* finalize_if_ready: the evaluation that counts is the one the cycle names.
EvaluationPassed(g) ==
    /\ cycle.evaluation # 0
    /\ g = <<"evaluation", cycle.evaluation>> \/ evaluation[cycle.evaluation] = "Passed"
Ready(g) == cycle.review_passed /\ EvaluationPassed(g) /\ cycle.e2e_ok

ReadGates(g) ==
    /\ At(g, "ready")
    /\ CASE InStatus("Reviewing") /\ Ready(g) ->
                gate' = [gate EXCEPT ![g] = [@ EXCEPT !.at = "passEvaluation", !.evaluation = cycle.evaluation]]
         [] InStatus("Proving") ->
                gate' = [gate EXCEPT ![g] = [@ EXCEPT !.at = "find", !.evaluation = cycle.evaluation]]
         [] OTHER -> Goes(g, "idle")
    /\ UNCHANGED <<cycle, rounds, entities, codex, assign, fan, lost, human, steady>>

PassEvaluation(g) ==
    Posts(g, "passEvaluation", InStatus("Reviewing") /\ cycle.review_passed /\ cycle.e2e_ok,
          [cycle EXCEPT !.status = "Proving", !.evaluation = gate[g].evaluation,
                        !.evaluation_passed = TRUE], "proving")

AwaitProving(g) ==
    /\ At(g, "proving") /\ Goes(g, IF InStatus("Proving") THEN "find" ELSE "idle")
    /\ UNCHANGED <<cycle, rounds, entities, codex, assign, fan, lost, human, steady>>

\* find_proof_packet: the packet of the review, else of the cycle, else of the evaluation.
FoundProof(g) ==
    IF g[1] = "review" THEN g[2]
    ELSE IF cycle.proof # 0 THEN cycle.proof
    ELSE IF Verdict(g) = "Passed" THEN gate[g].evaluation ELSE g[2]

FindProof(g) ==
    /\ At(g, "find")
    /\ gate' = [gate EXCEPT ![g].proof = FoundProof(g),
                            ![g].at = IF Verdict(g) \in {"Approved", "Passed"} THEN "mark" ELSE "reject"]
    /\ UNCHANGED <<cycle, rounds, entities, codex, assign, fan, lost, human, steady>>

\* mark_proof_ready_if_needed: a packet that is no draft any more is taken as it is.
MarkReady(g) ==
    LET p == gate[g].proof
    IN  /\ \/ At(g, "mark") /\ UNCHANGED proof
              /\ Goes(g, IF proof[p] = "Drafting" THEN "markReady" ELSE "attached")
           \/ /\ At(g, "markReady") /\ Goes(g, IF proof[p] = "Drafting" THEN "attached" ELSE "idle")
              /\ proof' = [proof EXCEPT ![p] = IF @ = "Drafting" THEN "Ready" ELSE @]
        /\ UNCHANGED <<cycle, rounds, worker, review, evaluation, codex, assign, fan, lost, human, steady>>

\* requires_human_completion_approval, and what the last read leads to.
NeedsPerson == lane = "L3" /\ ~cycle.human_completion_approved
LastPost ==
    IF ~(InStatus("Proving") /\ GatesPassed) THEN "idle"
    ELSE IF NeedsPerson THEN "askPerson" ELSE "complete"

ReadProving(g) ==
    /\ \/ /\ At(g, "attached")
          /\ Goes(g, IF InStatus("Proving") /\ ~cycle.proof_attached THEN "attachProof" ELSE LastPost)
       \/ At(g, "decide") /\ Goes(g, IF cycle.proof_attached THEN LastPost ELSE "idle")
    /\ UNCHANGED <<cycle, rounds, entities, codex, assign, fan, lost, human, steady>>

AttachProofPacket(g) ==
    Posts(g, "attachProof", InStatus("Proving"),
          [cycle EXCEPT !.proof = gate[g].proof, !.proof_attached = TRUE], "decide")
RequestHumanCompletionApproval(g) ==
    Posts(g, "askPerson", InStatus("Proving"),
          [cycle EXCEPT !.status = "AwaitingHumanCompletionApproval"], "idle")
CompleteByGate(g) ==
    Posts(g, "complete", InStatus("Proving") /\ GatesPassed, [cycle EXCEPT !.status = "Complete"], "idle")

\* RequestChanges sends the cycle back and has another run assigned, if one can be created.
\* (mutant of RequestChanges: a cycle that was sent back can be sent back)
RequestChangesAgain(g) ==
    /\ At(g, "sendBack")
    /\ IF cycle.status \in {"Reviewing", "InProgress"}
       THEN /\ cycle' = SentBack /\ Goes(g, AfterSendBack(g))
            /\ Assigns(rounds + 1, IF rounds < RoundLimit THEN "configure" ELSE "fail")
       ELSE Goes(g, "idle") /\ UNCHANGED <<cycle, assign>>
    /\ UNCHANGED <<rounds, entities, codex, fan, lost, human, steady>>

RequestChanges(g) ==
    /\ At(g, "sendBack")
    /\ IF InStatus("Reviewing")
       THEN /\ cycle' = SentBack /\ Goes(g, AfterSendBack(g))
            /\ Assigns(rounds + 1, IF rounds < RoundLimit THEN "configure" ELSE "fail")
       ELSE Goes(g, "idle") /\ UNCHANGED <<cycle, assign>>
    /\ UNCHANGED <<rounds, entities, codex, fan, lost, human, steady>>

FailCycle(g) ==
    Posts(g, "failCycle", CanFail, [cycle EXCEPT !.status = "Failed"], AfterSendBack(g))

\* fail_obsolete_evaluation_run_if_needed: the evaluation the cycle names.
CloseObsolete(g) ==
    LET e == cycle.evaluation
        k == gate[g].evaluation
    IN  /\ \/ /\ At(g, "obsolete") /\ UNCHANGED evaluation
              /\ gate' = [gate EXCEPT
                    ![g] = [evaluation |-> e, proof |-> g[2],
                            at |-> IF e # 0 /\ e \in {n \in Run : evaluation[n] \in OpenEvaluation}
                                   THEN "close" ELSE "reject"]]
           \/ /\ At(g, "close") /\ Goes(g, IF evaluation[k] \in OpenEvaluation THEN "reject" ELSE "idle")
              /\ evaluation' = [evaluation EXCEPT ![k] = IF @ \in OpenEvaluation THEN "Closed" ELSE @]
        /\ UNCHANGED <<cycle, rounds, worker, review, proof, codex, assign, fan, lost, human, steady>>

\* reject_proof_if_needed
RejectProof(g) ==
    LET p == gate[g].proof
        open == proof[p] \in {"Drafting", "Ready"}
    IN  /\ \/ At(g, "reject") /\ UNCHANGED proof /\ Goes(g, IF open THEN "rejectProof" ELSE "idle")
           \/ /\ At(g, "rejectProof") /\ Goes(g, "idle")
              /\ proof' = [proof EXCEPT ![p] = IF open THEN "Rejected" ELSE @]
        /\ UNCHANGED <<cycle, rounds, worker, review, evaluation, codex, assign, fan, lost, human, steady>>

(***************************************************************************)
(* The person an L3 cycle waits for, and work_cycle_lifecycle after that.  *)
(***************************************************************************)
ApproveHumanCompletion ==
    /\ InStatus("AwaitingHumanCompletionApproval")
    /\ cycle' = [cycle EXCEPT !.status = "Proving", !.human_completion_approved = TRUE]
    /\ human' = IF cycle.review_passed /\ cycle.evaluation_passed /\ cycle.proof_attached
                THEN "look" ELSE "idle"
    /\ UNCHANGED <<rounds, entities, codex, assign, fan, lost, gate, steady>>

CompleteByPerson ==
    /\ \/ human = "look" /\ human' = (IF InStatus("Proving") THEN "complete" ELSE "idle") /\ UNCHANGED cycle
       \/ /\ human = "complete" /\ human' = "idle"
          /\ IF InStatus("Proving") /\ GatesPassed
             THEN cycle' = [cycle EXCEPT !.status = "Complete"] ELSE UNCHANGED cycle
    /\ UNCHANGED <<rounds, entities, codex, assign, fan, lost, gate, steady>>

(***************************************************************************)
(* The clocks of the automata (hours), and crashes.                        *)
(***************************************************************************)
WorkWaits ==
    \/ codex # Resting
    \/ \E n \in Run :
        \/ worker[n] \in {"Queued", "Running"} \/ review[n] = "Requested"
        \/ evaluation[n] = "Queued" /\ (Blocked \/ cycle.review_passed)

\* The worker leaves no work for hours, unless it is down or the run is slow.
HoursPass ==
    IF NoJobs /\ WorkWaits THEN Disturbs /\ UNCHANGED overtaken ELSE AfterJobs

RunTimesOut(n) ==
    /\ worker[n] \in LiveRun /\ worker' = [worker EXCEPT ![n] = "TimedOut"] /\ HoursPass
    /\ UNCHANGED <<cycle, lane, rounds, review, evaluation, proof, codex, jobs, timedOut>>

\* (mutant of ReviewTimesOut: as of a worker run)
ReviewTimedOut(n) ==
    /\ review[n] \in OpenReview /\ HoursPass /\ StartGate(<<"review", n>>)
    /\ review' = [review EXCEPT ![n] = "TimedOut"]
    /\ UNCHANGED <<cycle, lane, rounds, worker, evaluation, proof, codex, assign, fan, lost, human, timedOut>>

ReviewTimesOut(n) ==
    /\ review[n] \in OpenReview /\ HoursPass /\ StartGate(<<"review", n>>)
    /\ review' = [review EXCEPT ![n] = IF @ = "Reviewing" THEN "Escalated" ELSE "Failed"]
    /\ UNCHANGED <<cycle, lane, rounds, worker, evaluation, proof, codex, assign, fan, lost, human, timedOut>>

\* A queued evaluation's clock starts after its review's, and both take a day.
EvaluationTimesOut(n) ==
    /\ evaluation[n] = "Running" \/ (evaluation[n] = "Queued" /\ review[n] # "Requested")
    /\ HoursPass /\ StartGate(<<"evaluation", n>>)
    /\ evaluation' = [evaluation EXCEPT ![n] = "Failed"]
    /\ UNCHANGED <<cycle, lane, rounds, worker, review, proof, codex, assign, fan, lost, human, timedOut>>

\* The packet's clock starts with the cycle's in Reviewing, and is as long.
ProofTimesOut(n) ==
    /\ proof[n] = "Drafting" /\ Overtakes
    /\ proof' = [proof EXCEPT ![n] = "Rejected"]
    /\ UNCHANGED <<cycle, lane, rounds, worker, review, evaluation, codex, jobs, timedOut>>

\* (mutant of CycleTimesOut: Proving has no timeout)
CycleTimesOutUnproved ==
    /\ CanFail /\ ~InStatus("Proving") /\ HoursPass /\ Fails
    /\ timedOut' = (timedOut \/ cycle.status # "AwaitingHumanCompletionApproval")
    /\ UNCHANGED <<lane, rounds, entities, codex, jobs>>

CycleTimesOut ==
    /\ CanFail /\ HoursPass /\ Fails
    /\ timedOut' = (timedOut \/ cycle.status # "AwaitingHumanCompletionApproval")
    /\ UNCHANGED <<lane, rounds, entities, codex, jobs>>

\* A trigger is not fired again after a restart: what was in flight is lost.
ServerCrash ==
    /\ ~NoJobs /\ Disturbs
    /\ assign' = [n \in Assignment |-> "idle"]
    /\ fan' = [n \in Run |-> "idle"] /\ lost' = [n \in Run |-> "idle"] /\ human' = "idle"
    /\ gate' = [g \in Gates |-> NoGate]
    /\ UNCHANGED <<cycle, lane, rounds, entities, codex, timedOut, overtaken>>

\* launchd restarts the worker, which then polls.
WorkerCrash ==
    /\ codex # Resting /\ Disturbs /\ Rests
    /\ UNCHANGED <<cycle, lane, rounds, entities, jobs, timedOut, overtaken>>

-----------------------------------------------------------------------------
AssignStep(n) == ConfigureRun(n) \/ StartWork(n) \/ AttachWorkerRun(n)

FanStep(n) ==
    \/ DraftProof(n) \/ RequestReview(n) \/ QueueEvaluation(n) \/ ReadStatus(n)
    \/ WorkerDone(n) \/ SubmitForReview(n) \/ AttachReviewRun(n) \/ AttachEvaluationRun(n)

GateStep(g) ==
    \/ ReadCycle(g) \/ ReadE2e(g) \/ AwaitE2e(g) \/ ReportE2e(g) \/ PassReview(g) \/ UpdateProof(g)
    \/ ReadGates(g) \/ PassEvaluation(g) \/ AwaitProving(g) \/ FindProof(g) \/ MarkReady(g)
    \/ ReadProving(g) \/ AttachProofPacket(g) \/ RequestHumanCompletionApproval(g)
    \/ CompleteByGate(g) \/ RequestChanges(g) \/ FailCycle(g) \/ CloseObsolete(g) \/ RejectProof(g)

JobStep ==
    \/ \E n \in Assignment : AssignmentFailed(n)
    \/ \E n \in Run : AssignStep(n) \/ FanStep(n) \/ HandleFailed(n)
    \/ \E g \in Gates : GateStep(g)
    \/ CompleteByPerson

WorkerStep ==
    \/ \E n \in Run : PickRun(n) \/ RecoverRun(n) \/ PickReview(n) \/ PickEvaluation(n)
    \/ ClaimRun \/ StartRun \/ \E done \in BOOLEAN : ReportRun(done)
    \/ ClaimReview \/ StartReview \/ \E v \in NotApproved \cup {"Approved"} : ReportReview(v)
    \/ CloseEvaluation \/ StartEvaluation \/ \E v \in {"Passed", "Failed"} : ReportEvaluation(v)

ClockStep ==
    \/ \E n \in Run :
        RunTimesOut(n) \/ ReviewTimesOut(n) \/ EvaluationTimesOut(n) \/ ProofTimesOut(n)
    \/ CycleTimesOut

Next ==
    JobStep \/ WorkerStep \/ ClockStep \/ ApproveHumanCompletion \/ ServerCrash \/ WorkerCrash

Spec == Init /\ [][Next]_vars

\* Integrations have a time limit and codex has one; the kernel keeps the clocks.
FairSpec == Spec /\ WF_vars(JobStep \/ WorkerStep) /\ WF_vars(CycleTimesOut)

-----------------------------------------------------------------------------
TypeOK ==
    /\ cycle \in [status : CycleStates, implementer : 0..RoundLimit, reviewer : 0..RoundLimit,
                  evaluation : 0..RoundLimit, proof : 0..RoundLimit, worker_done : BOOLEAN,
                  review_passed : BOOLEAN, e2e_ok : BOOLEAN, evaluation_passed : BOOLEAN,
                  proof_attached : BOOLEAN, human_completion_approved : BOOLEAN]
    /\ lane \in Lanes /\ rounds \in 0..RoundLimit
    /\ worker \in [Run -> LiveRun \cup {"none", "Done", "Failed", "TimedOut"}]
    /\ review \in [Run -> OpenReview \cup NotApproved \cup {"none", "Approved"}]
    /\ evaluation \in [Run -> OpenEvaluation \cup {"none", "Passed", "Failed", "Closed"}]
    /\ proof \in [Run -> {"none", "Drafting", "Ready", "Rejected"}]
    /\ codex \in [task : {"rest", "run", "review", "evaluation"}, run : 0..RoundLimit,
                  at : {"none", "claim", "start", "work", "close"}]
    /\ assign \in [Assignment -> {"idle", "start", "configure", "attach", "fail"}]
    /\ fan \in [Run -> Early \cup {"idle", "submitted", "attachReview", "attachEvaluation"}]
    /\ lost \in [Run -> {"idle", "look", "fail"}]
    /\ gate \in [Gates -> [at : GatePlaces, evaluation : 0..RoundLimit, proof : 0..RoundLimit]]
    /\ human \in {"idle", "look", "complete"}
    /\ timedOut \in BOOLEAN /\ overtaken \in BOOLEAN /\ disturbances \in 0..DisturbanceLimit

\* There is one implementer: only the cycle's latest run is live, and none is once
\* a run was handed over to be judged.  Nothing forbids it in one place: a run is
\* assigned by work_cycle_lifecycle, ended by the worker or by its own clock, and
\* the hand-over is worker_run_lifecycle's, in posts that a crash may cut short.
OneImplementer ==
    /\ \A n \in Run : worker[n] \in LiveRun => n = rounds
    /\ cycle.status \in Judged => \A n \in Run : worker[n] \notin LiveRun

\* While a cycle waits for its gates, the evaluation of the run it judges was not
\* closed as obsolete unless the review came out against that run (ADR-0003: a review
\* that may still lead to approval makes the queued evaluation wait).  The worker decides
\* it from the review the cycle names, which may be that of the round before.
ReviewCanPass ==
    ~overtaken /\ cycle.status = "Reviewing" /\ cycle.evaluation = cycle.implementer
        /\ cycle.evaluation # 0 /\ evaluation[cycle.evaluation] = "Closed"
    => review[cycle.evaluation] \in NotApproved

\* The clock that fails a cycle after hours is crash safety (ADR-0002): where nothing
\* crashed and nothing slow overtook something quick, no cycle hangs until then.
NoOrdinaryStall == disturbances = 0 => ~timedOut

\* The latest run is the implementer, and the review and the evaluation that the cycle
\* names came out in favour.
InFavour ==
    /\ cycle.implementer = rounds
    /\ cycle.reviewer # 0 /\ review[cycle.reviewer] = "Approved"
    /\ cycle.evaluation # 0 /\ evaluation[cycle.evaluation] = "Passed"

\* Reviewer, evaluation and packet are of the implementer.
OfOneRun ==
    LET n == cycle.implementer IN cycle.reviewer = n /\ cycle.evaluation = n /\ cycle.proof = n

\* A cycle completes with verdicts in favour of its latest run, although finalize_if_ready
\* reads each of them at another moment.  All of them are about that run unless two things
\* went wrong: a crash that keeps an evaluation of an older round open and one that keeps
\* the next from being attached make the cycle complete with the older one.  A packet may
\* have been rejected since, by an older evaluation that a crash left in the queue.
CompleteMeansReviewed ==
    [][~overtaken /\ cycle.status # "Complete" /\ cycle'.status = "Complete" =>
        /\ InFavour
        /\ disturbances <= 1 => OfOneRun
        /\ disturbances = 0 => proof[cycle.proof] = "Ready"]_vars

\* Every cycle completes or fails, whichever integration was lost.
CycleEnds == <>(cycle.status \in Ended)

=============================================================================
