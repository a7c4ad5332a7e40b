----------------------------- MODULE ToolBatch -----------------------------
(***************************************************************************)
(* The tool phase of a session: os-apps/paw-agent/wasm/monty_repl executes *)
(* the calls of one provider turn, checkpoints long batches, pauses on a   *)
(* Cedar denial, and is resumed by an approval, a checkpoint or the        *)
(* recovery after a restart (wasm/session_recoverer).                      *)
(*                                                                         *)
(* A call is a triple <<turn, position, kind>>.  A read that can be batched *)
(* makes one dispatch; any other call is a snippet of Python, which makes  *)
(* up to two here.  Cedar denies a guarded dispatch until a person         *)
(* approves it; the snippet may catch that and go on, and is run again     *)
(* from its start after the approval.  What a dispatch does is left out,   *)
(* what is kept is how often it took effect and which result the           *)
(* conversation holds.  The sandbox provisioned lazily is left out.        *)
(* `tree` is the path of the session tree that ends at session_leaf_id.    *)
(* The provider turns between two tool phases are one status, "Thinking";  *)
(* Session has them.  A crash, the restart and the sweep of startup.rs are *)
(* one step here.                                                          *)
(***************************************************************************)
EXTENDS Naturals, Sequences, FiniteSets, Functions

CONSTANTS
    TurnLimit,         \* bound on the turns that call tools
    CallLimit,         \* bound on the calls of a turn
    Chunk,             \* CHECKPOINT_EVERY_N
    CheckpointLimit,   \* MAX_CHECKPOINTS_PER_TURN
    Kinds,             \* "read", "guardedRead"; snippets "guarded", "guardedTwice"
    DecisionLimit,     \* bound on the decisions requested
    CrashLimit,        \* bound on the crashes (recovery_count < 3 never refuses)
    WakeUpLimit,       \* bound on ResumeTools
    Faults,            \* which may happen: "save", "persist" (file writes fail), "plan"
    Idle               \* an empty invocation slot

ASSUME BatchBounds ==
    /\ TurnLimit \in Nat /\ CallLimit \in Nat \ {0} /\ Chunk \in Nat \ {0}
    /\ CheckpointLimit \in Nat /\ DecisionLimit \in Nat
    /\ CrashLimit \in 0..3 /\ WakeUpLimit \in Nat
ASSUME BatchSets ==
    /\ Kinds \subseteq {"read", "guardedRead", "guarded", "guardedTwice"}
    /\ Faults \subseteq {"save", "persist", "plan"}

VARIABLES
    status,        \* "Thinking", "Executing", "WaitingForApproval", "Recovering", ended ones
    turn,          \* turns that called tools so far
    tree,          \* the conversation, up to session_leaf_id
    pendingCtx,    \* pending_tool_context
    pendingDecision,
    checkpoints,   \* checkpoint_count
    runs,          \* the run_tools invocations, one per slot
    notifying,     \* the decision request_approval is announcing, 0 if none
    decisions,     \* what became of each decision, in the order requested
    allowed,       \* dispatches a person has approved
    executed,      \* how often each dispatch took effect
    pauses,        \* how often each took effect in a snippet that asked to pause
    failure,       \* why the session failed
    crashes, wakeUps

entity  == <<status, tree, pendingCtx, pendingDecision, checkpoints>>
people  == <<notifying, decisions, allowed>>
history == <<turn, executed, pauses, failure>>
bounds  == <<crashes, wakeUps>>
vars    == <<entity, runs, people, history, bounds>>

-----------------------------------------------------------------------------
Ended == {"Completed", "Failed"}
NoContext == [saved |-> FALSE, done |-> <<>>, rest |-> <<>>]
Slots == 1..(1 + WakeUpLimit)

Call == (1..TurnLimit) \X (1..CallLimit) \X Kinds
Kind(c) == c[3]
ReadOnly(c) == Kind(c) \in {"read", "guardedRead"}
Length(c)    == IF ReadOnly(c) THEN 1 ELSE 2
Dispatches(c) == {<<c, i>> : i \in 1..Length(c)}
Dispatch == {x \in Call \X (1..2) : x[2] <= Length(x[1])}
Guarded(x) == \/ Kind(x[1]) \in {"guardedRead", "guardedTwice"}
              \/ Kind(x[1]) = "guarded" /\ x[2] = 2
CallsOf(t)  == {[k \in 1..n |-> <<t, k, kind[k]>>] : n \in 1..CallLimit, kind \in [1..CallLimit -> Kinds]}

\* Entries of the session tree; a result names its call and who answered it.
Asked(cs)      == [kind |-> "assistant", content |-> cs]
Answered(rs)   == [kind |-> "results", content |-> rs]
SteeringNote   == [kind |-> "user", content |-> <<>>]
Result(c, who) == [call |-> c, by |-> who]
Results(cs, who) == [k \in 1..Len(cs) |-> Result(cs[k], who)]

\* A run_tools invocation reads the entity once, when it is dispatched: the
\* saved context replaces the calls it is asked for.
NewRun(context, calls, n, leaf) ==
    [calls   |-> IF context.saved THEN context.rest ELSE calls,
     prior   |-> context.done,
     results |-> <<>>,
     at      |-> 0,
     resumed |-> context.saved,
     count   |-> n,
     leaf    |-> leaf]

Active(s)    == runs[s] # Idle
Finished(r)  == r.at = Len(r.calls)
Boundary(r)  == r.at > 0 /\ r.at % Chunk = 0 /\ ~Finished(r)
NextCall(r)  == r.calls[r.at + 1]
\* (mutant of Rest: the denied call is left out)
RestSkipsFirst(r) == SubSeq(r.calls, r.at + 2, Len(r.calls))
Rest(r)      == SubSeq(r.calls, r.at + 1, Len(r.calls))
Collected(r) == r.prior \o r.results
\* (mutant of Context: the executed calls are saved as remaining too)
ContextOfWholeBatch(r) == [saved |-> TRUE, done |-> Collected(r), rest |-> r.calls]
Context(r)   == [saved |-> TRUE, done |-> Collected(r), rest |-> Rest(r)]
\* (mutant of Denied: one approval unlocks every call of its kind)
DeniedUntilAny(x) == Guarded(x) /\ \A a \in allowed : Kind(a[1]) # Kind(x[1])
Denied(x)    == Guarded(x) /\ x \notin allowed

\* batch_window_len: up to the next checkpoint boundary that has work after it.
Window(r) ==
    LET remaining == Len(r.calls) - r.at
        next      == ((r.at \div Chunk) + 1) * Chunk
    IN  IF next < Len(r.calls) THEN next - r.at ELSE remaining

\* batchable_run_len: the read-only calls ahead, within the window.
BatchLen(r) ==
    CHOOSE n \in 0..Window(r) :
        /\ \A k \in 1..n : ReadOnly(r.calls[r.at + k])
        /\ n < Window(r) => ~ReadOnly(r.calls[r.at + n + 1])

Free(s) == runs' = [runs EXCEPT ![s] = Idle]

-----------------------------------------------------------------------------
Init ==
    /\ status = "Thinking" /\ turn = 0 /\ tree = <<>>
    /\ pendingCtx = NoContext /\ pendingDecision = 0 /\ checkpoints = 0
    /\ runs = [s \in Slots |-> Idle]
    /\ notifying = 0 /\ decisions = <<>> /\ allowed = {}
    /\ executed = [x \in Dispatch |-> 0] /\ pauses = [x \in Dispatch |-> 0] /\ failure = "none"
    /\ crashes = 0 /\ wakeUps = 0

\* The provider asks for tools: ProcessToolCalls starts run_tools with them.
ProcessToolCalls ==
    /\ status = "Thinking" /\ turn < TurnLimit
    /\ \E calls \in CallsOf(turn + 1), s \in Slots :
        /\ ~Active(s)
        /\ tree' = Append(tree, Asked(calls))
        /\ runs' = [runs EXCEPT ![s] = NewRun(pendingCtx, calls, checkpoints, tree')]
    /\ status' = "Executing" /\ turn' = turn + 1
    /\ UNCHANGED <<pendingCtx, pendingDecision, checkpoints, people, executed, pauses, failure, bounds>>

(***************************************************************************)
(* The loop of run_tools.  At a chunk boundary it checkpoints; elsewhere   *)
(* it executes a batch of read-only calls, or one call.                    *)
(***************************************************************************)
OneMore(count, did) == [x \in Dispatch |-> IF x \in did THEN count[x] + 1 ELSE count[x]]
Executes(did) == executed' = OneMore(executed, did)

\* A denial inside a batch is answered as an error: the flag that pauses the
\* session is set for single calls only.  The requests of a batch run side by
\* side, so that their decisions are opened in any order.
First(c)   == <<c, 1>>
Orders(S)  == Bijection(1..Cardinality(S), S)
Opened(xs) == [k \in 1..Len(xs) |-> [of |-> xs[k], state |-> "open"]]
RunBatch(s) ==
    LET r      == runs[s]
        n      == BatchLen(r)
        batch  == SubSeq(r.calls, r.at + 1, r.at + n)
        reads  == {First(batch[k]) : k \in 1..n}
        denied == {x \in reads : Denied(x)}
    IN  /\ Active(s) /\ ~Finished(r) /\ ~Boundary(r)
        /\ n >= 2 /\ Len(decisions) + Cardinality(denied) <= DecisionLimit
        /\ runs' = [runs EXCEPT ![s].at = @ + n,
                                ![s].results = @ \o [k \in 1..n |->
                                    Result(batch[k], IF Denied(First(batch[k])) THEN "denial" ELSE "run")]]
        /\ Executes(reads \ denied)
        /\ \E order \in Orders(denied) : decisions' = decisions \o Opened(order)
        /\ UNCHANGED <<entity, notifying, allowed, turn, pauses, failure, bounds>>

\* A single call none of whose dispatches is denied.
RunCall(s) ==
    LET r == runs[s]
        c == NextCall(r)
    IN  /\ Active(s) /\ ~Finished(r) /\ ~Boundary(r)
        /\ BatchLen(r) < 2 /\ \A x \in Dispatches(c) : ~Denied(x)
        /\ runs' = [runs EXCEPT ![s].at = @ + 1,
                                ![s].results = Append(@, Result(c, "run"))]
        /\ Executes(Dispatches(c))
        /\ UNCHANGED <<entity, people, turn, pauses, failure, bounds>>

\* A failed save of the REPL skips the checkpoint, and with it the call at
\* the boundary: the loop goes on with the next index.
SkipCheckpoint(s) ==
    LET r == runs[s]
    IN  /\ "save" \in Faults
        /\ Active(s) /\ Boundary(r) /\ r.count < CheckpointLimit
        /\ runs' = [runs EXCEPT ![s].at = @ + 1]
        /\ UNCHANGED <<entity, people, history, bounds>>

(***************************************************************************)
(* The callbacks of run_tools.  The automaton accepts them in Executing.   *)
(***************************************************************************)
Checkpointing(s) ==
    LET r == runs[s]
    IN  /\ Active(s) /\ Boundary(r) /\ r.count < CheckpointLimit
        /\ status = "Executing"
        /\ pendingCtx' = Context(r)
        /\ checkpoints' = checkpoints + 1
        /\ UNCHANGED <<status, pendingDecision, people, history, bounds>>
Reenter(s) == runs' = [runs EXCEPT ![s] = NewRun(pendingCtx', <<>>, checkpoints', tree')]
\* (mutant of CheckpointToolBatch: no run_tools trigger)
CheckpointNoTrigger(s) == Checkpointing(s) /\ tree' = runs[s].leaf /\ Free(s)

CheckpointToolBatch(s) == Checkpointing(s) /\ tree' = runs[s].leaf /\ Reenter(s)

\* This one ends in Fail, which every active status accepts.
RunawayGuard(s) ==
    LET r == runs[s]
    IN  /\ Active(s) /\ Boundary(r) /\ r.count >= CheckpointLimit
        /\ status \notin Ended /\ status' = "Failed" /\ failure' = "runaway"
        /\ Free(s)
        /\ UNCHANGED <<tree, pendingCtx, pendingDecision, checkpoints, people, turn, executed, pauses, bounds>>

\* A snippet with a denied dispatch runs on to its end, when it catches the
\* denial, or up to it.  The dispatches it reaches take effect unless they are
\* denied, and each denial opens a decision.  The pause, on the last of these, is
\* asked for after the snippet has run, and keeps all of it first in what remains.
InOrder(q) == \A j, k \in 1..Len(q) : j < k => q[j][2] < q[k][2]
Snippet(s) ==
    LET c == NextCall(runs[s])
    IN  \E n \in 1..Length(c) :
        LET reached == {<<c, i>> : i \in 1..n}
            denied  == {x \in reached : Denied(x)}
        IN  /\ denied # {} /\ (n < Length(c) => <<c, n>> \in denied)
            /\ Len(decisions) + Cardinality(denied) <= DecisionLimit
            /\ Executes(reached \ denied) /\ pauses' = OneMore(pauses, reached \ denied)
            /\ \E order \in Orders(denied) :
                InOrder(order) /\ decisions' = decisions \o Opened(order)
Pausing(s) ==
    LET r == runs[s]
    IN  /\ Active(s) /\ ~Finished(r) /\ ~Boundary(r) /\ BatchLen(r) < 2
        /\ Snippet(s) /\ Free(s)
        /\ IF status = "Executing"
           THEN /\ status' = "WaitingForApproval"
                /\ pendingCtx' = Context(r)
                /\ notifying' = Len(decisions')
           ELSE UNCHANGED <<status, pendingCtx, notifying>>
        /\ UNCHANGED <<tree, checkpoints, allowed, turn, failure, bounds>>
\* (mutant of PauseForApproval: pending_decision_id is not among the parameters)
PauseNoDecision(s) == Pausing(s) /\ UNCHANGED pendingDecision
PauseForApproval(s) ==
    /\ Pausing(s)
    /\ pendingDecision' = IF status = "Executing" THEN Len(decisions') ELSE pendingDecision

\* The end of the batch: the results go into the tree under the leaf this
\* invocation started from; when that write fails they stay out of it.
Ending(s) ==
    LET r == runs[s]
    IN  /\ Active(s) /\ Finished(r) /\ status = "Executing"
        /\ \/ tree' = Append(r.leaf, Answered(Collected(r)))
           \/ "persist" \in Faults /\ tree' = tree
        /\ Free(s)
        /\ UNCHANGED <<checkpoints, people, history, bounds>>
HandleToolResults(s) ==
    /\ Ending(s) /\ status' = "Thinking"
    /\ IF runs[s].resumed THEN pendingCtx' = NoContext /\ pendingDecision' = 0
                          ELSE UNCHANGED <<pendingCtx, pendingDecision>>
RecordResult(s) ==      \* the agent called temper.done
    /\ Ending(s) /\ status' = "Completed"
    /\ pendingCtx' = NoContext /\ pendingDecision' = 0

\* A callback after the session has left Executing changes nothing.
CallbackRejected(s) ==
    LET r == runs[s]
    IN  /\ Active(s)
        /\ \/ Finished(r) /\ status # "Executing"
           \/ Boundary(r) /\ status # "Executing" /\ r.count < CheckpointLimit
           \/ Boundary(r) /\ status \in Ended
        /\ Free(s)
        /\ UNCHANGED <<entity, people, history, bounds>>

\* An invocation that returns an error, or traps, fails the session.
FailsWith(why) ==
    /\ status \notin Ended
    /\ status' = "Failed" /\ failure' = why
    /\ UNCHANGED <<tree, pendingCtx, pendingDecision, checkpoints, people, turn, executed, pauses, bounds>>
InvocationFails(s) == Active(s) /\ FailsWith("error") /\ Free(s)

\* The state timeout, or a cancellation: an invocation that runs goes on.
EndedFromOutside == FailsWith("outside") /\ UNCHANGED runs

(***************************************************************************)
(* Decisions.  request_approval asks for a callback on the decision:       *)
(* ResumeAfterApproval when it is approved, Fail when it is denied.        *)
(***************************************************************************)
RegisterCallback ==
    /\ notifying # 0
    /\ decisions' = [decisions EXCEPT ![notifying].state = "registered"]
    /\ notifying' = 0
    /\ UNCHANGED <<entity, runs, allowed, history, bounds>>

\* Approving also permits the dispatch.  The callback is applied whenever the
\* session waits, for this decision or for another one.
Approve(d) ==
    /\ decisions[d].state = "registered"
    /\ decisions' = [decisions EXCEPT ![d].state = "approved"]
    /\ allowed' = allowed \cup {decisions[d].of}
    /\ IF status = "WaitingForApproval"
       THEN /\ status' = "Executing"
            /\ \E s \in Slots :
                /\ ~Active(s)
                /\ runs' = [runs EXCEPT ![s] = NewRun(pendingCtx, <<>>, checkpoints, tree)]
       ELSE UNCHANGED <<status, runs>>
    /\ UNCHANGED <<tree, pendingCtx, pendingDecision, checkpoints, notifying, history, bounds>>

Deny(d) ==
    /\ decisions[d].state = "registered"
    /\ decisions' = [decisions EXCEPT ![d].state = "denied"]
    /\ IF status \in Ended THEN UNCHANGED <<status, failure>>
                           ELSE status' = "Failed" /\ failure' = "denied"
    /\ UNCHANGED <<tree, pendingCtx, pendingDecision, checkpoints, runs,
                   notifying, allowed, turn, executed, pauses, bounds>>

\* plan_approval_handler only looks at the status: a session that waits for a
\* Cedar decision is resumed as well, and its saved context stays.
ResumeWithPlanApproval ==
    /\ "plan" \in Faults /\ status = "WaitingForApproval"
    /\ status' = "Thinking"
    /\ UNCHANGED <<tree, pendingCtx, pendingDecision, checkpoints, runs, people, history, bounds>>

\* A message for the session starts run_tools again; the trigger carries no
\* calls, so without a saved context the new invocation has nothing to do.
ResumeTools(s) ==
    /\ status = "Executing" /\ wakeUps < WakeUpLimit /\ ~Active(s)
    /\ wakeUps' = wakeUps + 1
    /\ runs' = [runs EXCEPT ![s] = NewRun(pendingCtx, <<>>, checkpoints, tree)]
    /\ UNCHANGED <<entity, people, history, crashes>>

(***************************************************************************)
(* Crash and recovery.                                                     *)
(***************************************************************************)
\* The sweep recovers a session that executes or waits, and fails the others.
CrashAndSweep ==
    /\ crashes < CrashLimit /\ status \notin Ended
    /\ crashes' = crashes + 1
    /\ runs' = [s \in Slots |-> Idle] /\ notifying' = 0
    /\ IF status \in {"Executing", "WaitingForApproval"}
       THEN status' = "Recovering" /\ UNCHANGED failure
       ELSE status' = "Failed" /\ failure' = "restart"
    /\ UNCHANGED <<tree, pendingCtx, pendingDecision, checkpoints, decisions, allowed,
                   turn, executed, pauses, wakeUps>>

\* session_recoverer answers the calls of a leaf that is still waiting for
\* results, appends its note and resumes the saved context, if there is one.
Repaired ==
    LET leaf == tree[Len(tree)]
        repair == IF leaf.kind = "assistant"
                  THEN Append(tree, Answered(Results(leaf.content, "recoverer"))) ELSE tree
    IN  Append(repair, SteeringNote)

RecoverSession ==
    /\ status = "Recovering"
    /\ tree' = Repaired
    /\ IF pendingCtx.rest # <<>>
       THEN /\ status' = "Executing"
            /\ \E s \in Slots :
                /\ ~Active(s)
                /\ runs' = [runs EXCEPT ![s] = NewRun(pendingCtx, <<>>, checkpoints, tree')]
       ELSE status' = "Thinking" /\ UNCHANGED runs
    /\ UNCHANGED <<pendingCtx, pendingDecision, checkpoints, people, history, bounds>>

-----------------------------------------------------------------------------
RunStep(s) ==
    \/ RunBatch(s) \/ RunCall(s) \/ SkipCheckpoint(s)
    \/ CheckpointToolBatch(s) \/ RunawayGuard(s) \/ PauseForApproval(s)
    \/ HandleToolResults(s) \/ RecordResult(s) \/ CallbackRejected(s)
    \/ InvocationFails(s)

Next ==
    \/ ProcessToolCalls
    \/ \E s \in Slots : RunStep(s) \/ ResumeTools(s)
    \/ RegisterCallback
    \/ \E d \in 1..Len(decisions) : Approve(d) \/ Deny(d)
    \/ ResumeWithPlanApproval \/ EndedFromOutside
    \/ CrashAndSweep \/ RecoverSession

Spec == Init /\ [][Next]_vars

\* An invocation runs to its end, and the recovery integration is executed.
Fairness == (\A s \in Slots : WF_vars(RunStep(s))) /\ WF_vars(RecoverSession)
FairSpec == Spec /\ Fairness

-----------------------------------------------------------------------------
(***************************************************************************)
(* Properties.                                                             *)
(***************************************************************************)
Statuses == {"Thinking", "Executing", "WaitingForApproval", "Recovering"} \cup Ended
ContextOK(x) == x.saved \in BOOLEAN /\ Len(x.done) + Len(x.rest) <= CallLimit
TypeOK ==
    /\ status \in Statuses /\ turn \in 0..TurnLimit
    /\ \A k \in 1..Len(tree) : tree[k].kind \in {"assistant", "results", "user"}
    /\ ContextOK(pendingCtx)
    /\ pendingDecision \in 0..Len(decisions) /\ notifying \in 0..Len(decisions)
    /\ checkpoints \in Nat
    /\ \A s \in Slots : Active(s) => runs[s].at \in 0..Len(runs[s].calls)
    /\ allowed \subseteq Dispatch /\ executed \in [Dispatch -> Nat] /\ pauses \in [Dispatch -> Nat]
    /\ failure \in {"none", "runaway", "denied", "restart", "error", "outside"}
    /\ crashes \in 0..CrashLimit /\ wakeUps \in 0..WakeUpLimit

\* When the provider is asked again, every entry that asked for tools is
\* followed by the results of exactly its calls, in their order, however often
\* the batch was checkpointed and paused on the way.
TurnsClosed ==
    status = "Thinking" =>
        \A k \in 1..Len(tree) : tree[k].kind = "assistant" =>
            /\ k < Len(tree) /\ tree[k + 1].kind = "results"
            /\ Len(tree[k + 1].content) = Len(tree[k].content)
            /\ \A j \in 1..Len(tree[k].content) : tree[k + 1].content[j].call = tree[k].content[j]

\* While no message starts a second run_tools, a dispatch takes effect once, and
\* again only for a crash, or because it took effect in a snippet that met a denial
\* and is run again from its start: no checkpoint, no resumption, no denial of the
\* dispatch itself and no pause on another call repeats it.
RepeatedForCause ==
    wakeUps = 0 => \A x \in Dispatch : executed[x] <= 1 + crashes + pauses[x]

\* A message that wakes an executing session repeats nothing: the staleness check of
\* route_message is there to leave a batch in progress alone.
WakeUpRepeatsNothing == \A x \in Dispatch : executed[x] <= 1 + crashes + pauses[x]

\* A call whose result a checkpoint or a pause has saved is never run again, not even
\* after a crash, while no message starts a second run_tools.
SavedResultsStand ==
    [][\A x \in Dispatch :
         wakeUps = 0 /\ (\E k \in 1..Len(pendingCtx.done) : pendingCtx.done[k].call = x[1])
            => executed'[x] = executed[x]]_vars

\* The conversation only grows: no callback puts the leaf back onto an
\* earlier path and drops what was appended meanwhile.
ConversationOnlyGrows ==
    [][Len(tree') >= Len(tree) /\ SubSeq(tree', 1, Len(tree)) = tree]_vars

\* An invocation executes calls of the current turn only.
OwnTurnOnly ==
    \A s \in Slots : Active(s) => \A k \in 1..Len(runs[s].calls) : runs[s].calls[k][1] = turn

\* A guarded dispatch takes effect only once a person has approved it, though its
\* snippet is run before and again after that.
NothingUnapproved == \A x \in Dispatch : Guarded(x) /\ executed[x] > 0 => x \in allowed

\* A waiting session goes on, or fails, by the decision it waits for.
ResumedByItsDecision ==
    [][status = "WaitingForApproval" /\ (status' = "Executing" \/ failure' = "denied")
        => \E d \in 1..Len(decisions') : d = pendingDecision /\ decisions'[d].state \in {"approved", "denied"}]_vars

\* A batch that executes comes to an end: the turn closes, the session pauses
\* or ends.
BatchEnds == status = "Executing" ~> status # "Executing"

(***************************************************************************)
(* The contract of a turn, read off the session tree: entries of calls and *)
(* of results alternate while nothing is recovered, the results close the  *)
(* turn before them, and an entry of calls at the leaf is open.            *)
(***************************************************************************)
CallsIn(results) == [k \in 1..Len(results) |-> results[k].call]
ClosedTurns == [k \in 1..(Len(tree) \div 2) |-> CallsIn(tree[2 * k].content)]
LeafAsks    == tree # <<>> /\ tree[Len(tree)].kind = "assistant"
OpenCalls   == IF LeafAsks THEN tree[Len(tree)].content ELSE <<>>

Contract == INSTANCE TurnContract WITH
    Calls   <- Call,
    closed  <- ClosedTurns,
    open    <- OpenCalls,
    saved   <- CallsIn(pendingCtx.done),
    givenUp <- status \in Ended

\* Without crashes, lost writes and strangers' resumptions the tool phase
\* keeps the contract, whatever mixture of batches, checkpoints and pauses.
KeepsContract == Contract!Spec
=============================================================================
