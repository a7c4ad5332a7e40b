# TemperPaw in TLA+

TemperPaw runs agents as entities of the Temper kernel. An entity is an IOA
automaton (`os-apps/*/specs/*.ioa.toml`): actions with `from` lists, guards
and effects, and triggers that start WASM integrations. A session of an agent
is such an entity, and so is a chat thread, a transport connection, a patrol run.
No process owns an entity: what happens next is decided by callbacks of
integrations, state timeouts, people, other entities and, after a restart, a
recovery sweep. These modules model that coordination, check it with TLC on
small instances and prove the central facts with TLAPS for all instances.

## Inventory

| component | state it keeps | operations | what is hard |
|---|---|---|---|
| Session (`os-apps/paw-agent/specs/session.ioa.toml` and its integrations) | status, result, counters of turns, follow-ups, recoveries and retries; conversation leaf; saved tool context; open decision | 60 actions: provisioning, turn, compaction, tools, steering, approval, completion, wake-ups, recovery | a callback may arrive after a timeout, a cancellation or an approval moved the session; every ending races; a lost driver must not stall the session |
| Tool phase (`wasm/monty_repl`) | calls, results, REPL, checkpoint counter, lazily created sandbox | batches of reads, single calls, checkpoints, pause on a Cedar denial, resumption | exactly one result per call through checkpoints, pauses, crashes; failures of single steps |
| Approvals (`wasm/request_approval`, `wasm/plan_approval_handler`) | decisions and their callbacks | register, approve, deny, answer a plan | a decision outlives the state it was opened in |
| Recovery (`crates/temperpaw/src/startup.rs`, `wasm/session_recoverer`) | none of its own; reads statuses, repairs the session tree | sweep, `RecoverFromRestart`, `Fail`, repair, resume | reads a status and acts later, among sessions that are not orphans; repairs a conversation whose batch will be resumed |
| Channels (`os-apps/paw-channels`: `route_message`, ChannelSession, AgentRoute; steering queue of Session) | binding of a chat thread to a session; queue of messages for a running session | route, steer, continue with a new session, reset, wake up | read-modify-write of the queue against the session that drains it; messages that arrive while a session ends |
| Transport connections (`transport_connection.ioa.toml`, `transport_manager.rs`) | connection state, attempt count, cursor | start, retry, mark, disable | late callbacks, stale retry schedules |
| Discord transport (`crates/paw-transport/src/discord`) | gateway session and sequence, cursor of the last message, known DM channels, the Channel entity in use | connect, resume, identify, catch up over REST, replay, store the cursor, recover an archived Channel | a message comes through the gateway, through the catch-up, both ways or neither; what is stored, and when, decides what a restart repeats or skips |
| Scheduling and links (`cron_job`, `session_link`) | next run, link state | trigger, pause, monitor | runs that overlap or are missed |
| Compute (`os-apps/paw-compute`) | rows of computers and executions; their sandboxes are the provider's | provision, copy, sleep, wake, heartbeat, destroy; run, poll, cancel | a row changes before its sandbox or after it; calls are lost on either side of their effect; clocks of two entities |
| Files (`os-apps/paw-fs`) | files, versions, quota | write, batch, release | quota under partial failure |
| Factory work cycles (`os-apps/paw-patrol`: WorkCycle, WorkerRun, ReviewRun, EvaluationRun, ProofPacket) | status and gates of the cycle; one run of each kind per round | assign, hand over, review, evaluate, send back, complete, fail, time out | three integrations read and post while the gates they read are changed; verdicts of one round arrive in the next |
| Codex worker (`crates/paw-codex-worker`) | nothing durable: what it polls and what it is doing | claim, execute, report, close obsolete evaluations, recover after a restart | decides from entities it read some calls before |
| Other patrol work (cases, patrols, deploys, releases, briefs) | life cycles of one run each | start, report, escalate | one integration each |
| Alerts (`os-apps/paw-heal`) | alert cycles | open, diagnose, resolve | duplicate alerts |
| Others (managed agents, harness, pm, media, ingest, wiki, research, skills, foresight, autoreason, consilium, dsf-twin, dashboard, CLI, transports, set-up) | see `PROJECT.json` | | one-shot or human-driven life cycles, adapters, user interface |

`PROJECT.json` lists every component with its status, the map from definitions
to source lines, the hazards, and the properties that cover them.

## Plan

1. **Session** with crash and sweep; proofs of its invariants. *(done)*
2. **ToolBatch**, the tool phase with approvals and recovery, shown to implement
   **TurnContract**; proofs of `NothingUnapproved`, `RepeatedForCause`
   and `SavedResultsStand`. *(done)*
3. **Steering**, the messages of a chat thread, and **Transport**, the connection
   they come through; proofs of the invariants of both. *(done)*
4. **Factory**, the work cycle and its worker, with proofs of `OneImplementer` and of
   what a completed cycle was judged by. *(done)*
5. **DiscordGateway**, how messages reach the thread. *(done)*
6. **The turns of the conversation**: `TurnsClosed` and the refinement of
   TurnContract, proved step by step. *(done)* Proofs still open: the turns under crashes, and
   the packet's and the verdicts' run in a cycle disturbed once.
7. **Compute**, rows against the sandboxes of a provider, with proofs of its safety
   properties. *(done)*
8. Further components, in order of how much coordination they have: cron jobs
   and session links, file quota, alert cycles.

## Modules

### Session

One entity. `status` is the automaton's status, the counters are the fields of
the same meaning (`turn` is `turn_count`, and so on). A transition may start an
integration: `driver` holds the one started last, while it runs. The kernel does
not interrupt an invocation when its session moves on, so one that is overtaken
becomes a zombie, counted in `zombies`, and its callback is still applied if the
status allows it. `Ends(m, next)` is a callback of integration `m` that starts
`next`; `Redirect(next)` a transition from elsewhere. Each action of the
automaton is an action of the module with its `from` list as the guard; an action
outside its `from` list or guard is `CallbackRejected`. `Crash` loses running
invocations, schedules and jobs; `Restart` brings the server back with the sweep
before (`"starting"`) or after readiness, both of which `startup.rs` does,
depending on the surface index. `SweepReads` and the dispatching actions are
separate steps, since other transitions fall between them.

`RecoverFromRestart` that the automaton rejects is both a response the sweep
counts as success (`SweepRejected`) and, if the kernel reports it as an error,
a fall-back to `Fail` (`SweepFailsSession`): the kernel is not in the
repository, and its behaviour is left open.

Properties: `AtMostOneReply`, `TerminalIsFinal`, `SoleDriver`, `DriverServesStatus`,
`NoStaleAdvance`, and the liveness property `NoSilentStall`; the automaton's own
invariant, `CompletedHasResult`, is proved.

### ToolBatch and TurnContract

The tool phase of one session. A call is `<<turn, position, kind>>`. Calls of the kinds
`read` and `guardedRead` can be batched and make one dispatch. Any other call is a snippet of
Python, here with two dispatches, of which the second (`guarded`) or both (`guardedTwice`)
are denied by Cedar until a person approves them. `tree` is the
conversation down to `session_leaf_id`, `pendingCtx` is `pending_tool_context`,
`runs` are the invocations of `run_tools` (one, or several after wake-ups), each
with what it read when it was dispatched. The loop of `monty_repl` is
`RunBatch`, `RunCall`, `SkipCheckpoint`; its callbacks are `CheckpointToolBatch`,
`RunawayGuard` (Fail), `PauseForApproval`, `HandleToolResults`, `RecordResult`.

A denial inside a snippet does not stop it: `monty_repl` raises it in the snippet, which
may catch it and go on, and looks at it after the snippet has run. So `Snippet` lets the
dispatches before the denied one take effect, and those after it, up to the place where
the snippet ends; every denial opens a decision, and the session pauses on the last one. The
whole snippet stays first in what remains and is run again from its start after the
approval: what took effect takes effect again, without any crash. `executed` counts
how often each dispatch took effect and `pauses` how often it did in a snippet that asked to
pause, for the properties only. `RepeatedForCause` is what this leaves: a dispatch takes effect once, and
again only for a crash or because it took effect in a snippet that met a denial, never for a
checkpoint, a resumption, its own denial or a pause of another call. It and `SavedResultsStand` speak of sessions that no
message has woken while they executed. A woken one has two runs, and the overtaken run can
store its context in a later turn, so that one wake-up can repeat a call once per turn
that follows. The sandbox a call may provision is left out. The provider turns between tool phases are
one status, `"Thinking"`; crash, restart and sweep are one step.

Assumed of code outside the repository: a parameter of a callback that is not
declared for the action is merged
into the entity's fields like a declared one; approving a decision permits the
dispatch it was opened for and no other.

`TurnContract` is the abstract specification: calls are asked, answers saved,
the turn closed with one answer per call in order, or given up with the
session. ToolBatch implements it (`KeepsContract`), with `closed`, `open` and
`saved` read off the session tree and the saved context.

### Steering

The messages of one thread and author. An invocation of `route_message` is a
record in `routers`: where it is (`at`), its message and what it has read. Each
HTTP call it makes is a step of its own, since the session, its checkers and
other invocations go on between two: `FindActiveSession`, `FetchStatus`,
`GetQueue`, `Steer` and so on; each may fail once `CallFails` allows it, and
the answer to `Steer` may be lost after it took effect. Sessions have the
statuses routing and queue tell apart; one that ended with the answer of its last turn
(`"Completed"`) is told from one that failed, was cancelled or was completed by a tool
(`"Ended"`). `read` is what the response applier read of the session when it was started,
`checkers` are the running invocations of
`steering_checker` with what they read. `heard` is the sequence of messages put
before an agent, by a checker or as the first message of a session.

Queue writers are not serialized, and that loses and repeats messages by
design of the read-modify-write: `overwritten` records whether a writer replaced a
queue it had not read, and `faults` the calls that failed or lost their answer.
`HeardOnce` and `HeardInOrder` except both. `serial`, chosen initially, is a
thread whose messages are routed one after the other.

Messages are lost in one more way: a queue that is left when a session ends is read by
nobody, for a continuation is not given it. `AcceptedIsKept` says exactly when that happens,
if no queue was overwritten (`WaitsIn`): a message nobody has heard waits in a session that
may still look at its queue, or is left in one that failed, was cancelled or was completed by
a tool, in one that answered and could take no more follow-ups, or in one that answered and
whose applier had started when the message came. A session never ends with its answer over a
message its applier has read and it had a follow-up left for. `FollowUpsBounded`, which is proved, needs no condition.

Left out: the tools of plan mode, which agent a route names, what a
continuation carries over, the delivery of replies.

### Transport

The entity `TransportConnection` (`status`, `due` for scheduled `RetryDue`s), the
manager's `handle`, and `calls`, the invocations of `connect_discord` and
`disconnect_discord`. A call is a sequence of critical sections on the handle
(`StopTransport`, `Join`, `Publish`, `KeepTask`) with other calls and the tasks
between them. A task binds the webhook port, becomes ready, fails or is shut
down; the listener gives the port back some time after (`PortReleased`).
`disturbed` records that two calls overlapped or one was given up:
`UnderControl` and `StopReturns` hold until then, `ReadyzIsTrue` and
`RetryIsScheduled` (proved) always. When calls overlap, a transport can indeed be left
without a token, and the next stop then waits for it forever: the conditions
are needed, and TLC shows it if they are dropped.

### Factory

One WorkCycle. `cycle` is the entity with the gates of its automaton; run *n*
and the ReviewRun, EvaluationRun and ProofPacket made for it are number *n* of
`worker`, `review`, `evaluation` and `proof`. The integrations in flight are
kept by the run they serve: `assign` (work_cycle_lifecycle queues a run),
`fan` (worker_run_lifecycle drafts the packet, requests review and evaluation
and moves the cycle there), `lost` (the same after a failed run), `gate`
(review_gate_lifecycle applies a verdict) and `human` (the same after a
person's approval). Each HTTP read and each post is a step; `NextPost` and
`FirstPlace` name the place an integration goes to next. `codex` is the local
worker: one task, and what it read for it.

`HoursPass` lets one clock run out before its time, and `overtaken` records that a
step that takes an instant was slower than work that takes minutes. Crashes,
early clocks and such overtakings are `disturbances`, and they are counted
together. The properties that speak of ordinary operation say so: a cycle
waits for its own clock only after a disturbance (`NoOrdinaryStall`); the
verdicts of a completed cycle are in favour of its latest run where nothing was
overtaken, and about that run where no two things went wrong (`CompleteMeansReviewed`).

The arms of `FirstPlace`, the `match` of review_gate_lifecycle, exclude one another
one by one, for CASE in TLA+ is a free choice among the arms that are true: TLC takes
the first, as the code does, but a proof has to hold for all.

Properties: `OneImplementer`, `ReviewCanPass`, `NoOrdinaryStall`,
`CompleteMeansReviewed`, `CycleEnds`.

### DiscordGateway

The transport's task and what it talks to. `sent` are the messages people write,
by id; `remote` is Discord's side of the gateway session, with the dispatches queued
since READY. `at` is where the task is: it handles one frame at a time, so that
a catch-up (`scan`) runs between two frames, while people write and Discord
queues. `client` is its memory (session, sequence, cursor, known DM channels,
Channel), lost in a `Crash`; `channels` are the Channel entities, with the
stored cursor. `call` is the ReceiveMessage in progress, posted once more
after the recovery of an archived Channel. `told` are messages whose sender got
the error notice; `overlooked` are those a catch-up did not look for, since
there was no cursor or no Channel, or the DM was neither listed by Discord nor known. `owed`
are the messages the transport has all it needs to find, whatever happens to its
connection: when they were written it knew their DM and had a cursor, and no
catch-up ran. A crash, which ends that memory, empties it.

A recovery that fails (`RecoverFails`) leaves the transport without a Channel until it
is started again: each message is answered with the error notice (`NoChannel`), and
no catch-up is made.

Properties: `NothingSkipped` (the cursor passes no message a catch-up would
find), `HeardOnce` (how often a message may be received, by what happened),
and the liveness property `MessagesArrive`: what is owed is received or its sender is told,
however often connections are lost and sessions expire, and whether or not Discord lists the
DM, as long as the task goes on and no request fails. Messages that are not owed may be lost,
without a word to their sender; that, and the other exceptions, is what the code does, see
"Disagreements". Left out: heartbeats, typing, attachments, commands
and buttons, guild channels, Channels that are `Disconnected`.

### Compute

A source computer, the copies made of it and commands that run on either. A row
of Computer is `status`, `machine` (its `machine_id`) and `idle`, the time since the
timeout of Ready or Leased was armed; `box` is what the provider does with the
sandbox, which the row cannot see. A child's own sandbox has the child's name, so
that `machine[c] = Source` says that the child has not learnt of its copy yet. A row
of Exec is `exec` and `target`; `process` is the command in its sandbox.

The integrations are steps of their own between row and provider:
`computer_copy_start` is `Lookup`, `Request`, `Answer`, in two modes, and ends in
`CopyStarted` or `CopyFailed`; `computer_sleep` and `computer_wake` are the members of
`control` (`Suspend`, `Resume`, and the failures still to be reported);
`computer_terminate` is `Terminate`; `computer_exec_start` is `Fetch`,
`ResumeSandbox`, `LaunchCommand`; the two polls are `poll`. Each call may fail, or
take effect and lose its answer; an `Outage` loses those in flight. The provider makes
a copy it was asked for at any time (`MakeCopy`), even after its answer was given up.
What a command's row tells its computer (`exec_started_wakes_computer`, the heartbeats) is
a dispatch of its own, after the row's own transition: `signal` are those on their way,
`WakeArrives` and `HeartbeatArrives` deliver them, and the computer's timeouts may fire
before that. `troubles` counts failures, lost answers, outages and the
interventions of people.

Time passes in periods of the poll timeouts. A period ends when what it made due is
done and the dispatches sent in it have arrived, so both are prompt; an outage loses the
dispatches, and after it timeouts may be late and in any order.
Sleeping and reaping take two periods instead of 18 and 360: longer than a poll, and as
long as each other, is all the properties need.

Assumed, unless `ByHand`: ProvisionComplete and ProvisionFailed, which no integration
reports, are recorded for rows that were provisioned by hand, and not for a child that
waits for its copy (`RecordedByHand`; see "Disagreements"). Assumed in any case: of two equal suspends or resumes in flight one is followed, and of
overlapping polls one; a poll's integration reports, rather than being killed by the host.

Properties: `TornDownByItsRow`, `CopiesAccounted`, `ReadyIsAwake`, the action property
`SleepSparesRunning` and the liveness property `NothingHangs`. `SleepSparesRunning` speaks of
commands their computer has been told of: from when the Wake has arrived to the end of the
row. Before that nothing spares a command, see "Disagreements". `blurred` records what
`ReadyIsAwake` has to except: two controls that overlapped, an answer that was
lost, a failed resume reported to a row that had moved on.

### Proof modules

`SessionProofs`, `ToolBatchProofs`, `ToolBatchTurnProofs`, `SteeringProofs`,
`TransportProofs`, `FactoryProofs`, `DiscordGatewayProofs` and `ComputeProofs`; see below.

## Runs

| run | bounds | shows |
|---|---|---|
| `session_orderly` | 2 turns, 1 follow-up, 2 crashes, sweep before readiness, no wake-ups, 1 overlapping notification | one driver at a time, none of another status, no move by a superseded invocation; every status but WaitingForApproval is left |
| `session_overlap` | 1 turn, 1 follow-up, a wake-up, sweep after readiness | one reply, results and final endings when invocations overlap |
| `session_recoverable` | smallest that shows the behaviour | a statement about recovery that the code does not keep (finding) |
| `batch_calm` | 2 turns of up to 5 calls, chunks of 2 | the contract of a turn under every mixture of batches, checkpoints, pauses and denials; a batch comes to an end |
| `batch_storm` | 2 turns, 3 calls, a crash, a wake-up, failing saves and tree writes | no guarded dispatch takes effect unapproved, though its snippet runs before and again after the approval; a dispatch is repeated only for a crash or after it took effect in a snippet that met a denial; saved results stand |
| `batch_wake` | smallest | a statement of a document that the code does not keep (finding) |
| `steering_thread` | 3 messages, 3 sessions, 2 invocations at a time, 2 follow-ups, 1 wake-up, 1 crash, 1 failing call | but for unlocked writers of the queue, no session ends with its answer over a message its applier has read and it had a follow-up left for; nothing is heard twice or out of order but for those and failed calls |
| `steering_dropped` | 2 messages, 1 at a time | a message in the wrong moment is dropped (finding) |
| `transport_manager` | 2 calls, 2 transports, the startup and 2 further events (credentials, retry, disconnect, lost answer, crash) | control of the transport, true status, scheduled retries, calls that return |
| `factory_rework` | 3 rounds, both kinds of risk lane, 1 disturbance | one implementer, gates of the right round, no stall in ordinary operation, every cycle ends |
| `gateway_catchup` | 2 people, 3 messages, pages of 2, 2 troubles (lost connection, crash, failing request, archived Channel) | what the catch-up finds, repeats and skips; a message of a known DM, written when there is a cursor and no catch-up, arrives or its sender is told, unless the task ends or a request fails |
| `compute_copies` | a source, 1 child, 1 command, sleep and lease of 2 periods, 1 trouble (failing call, lost answer, outage, intervention) | teardown of the right sandbox, one copy per child, Ready means awake, no sleep once a computer has been told of a running command, everything started ends |

Why the bounds are enough: a second turn is what distinguishes "reset" from
"kept" (contexts, counters); five calls in chunks of two give two checkpoints,
a boundary without work after it and a batch cut by a boundary; one crash
reaches every state of the recovery, and the guard of `RecoverFromRestart` is
counted, so more crashes only repeat; one wake-up gives two invocations side by
side, and no code distinguishes two from three. Three messages are the least
for which an order can be wrong while one is queued and one starts a session;
two transports are the old one and the one that replaces it. Three rounds are a
first run, one that was sent back and one after that, so that verdicts of two
earlier rounds can be late. Three messages of two people are the least for which
one thread's replay moves the cursor past another's message; of one person they fill
a page of two and leave one for a page that is not full. One child and its source
are the two rows whose sandboxes can be taken for each other, and one command is enough
to run on either; one trouble is what separates row and sandbox, and the properties
except what it takes two overlapping calls for. `CHECK_DEADLOCK FALSE` is set
where a session may have ended for good.

## Fairness

`session_orderly` assumes that a server that went down is started again and that
the state timeout of a status fires when the session stays in it: the timeouts
are durable in the kernel, and each is declared in the automaton. Nothing is
assumed of integrations, people or the sweep; the property is that the timeouts
suffice. `WaitingForApproval` is exempt: it has no timeout, deliberately.
`batch_calm` assumes that an invocation of `run_tools` runs to its end (the
engine bounds its time and fuel) and that the recovery integration is run.
Its safety properties do not depend on that. `factory_rework` assumes that
integrations and the worker go on (both have time limits) and that the clock of
a waiting cycle runs out in the end; not that any run, review or person does
anything in particular. `gateway_catchup` assumes that the transport's task goes on, is
started again after it ended (the transport manager and the retry schedule of
its connection do that), and that Discord answers. `transport_manager` assumes that the
runtime polls what can run: a call whose awaited task has ended, and a task
whose token is cancelled. Nothing is assumed of Discord.
`compute_copies` assumes that timeouts fire, that time passes, that deadlines come,
that dispatches between rows arrive, and that the calls of polls end (the engine bounds them); nothing of the provider, of
commands, of other integrations or of people.

## Proofs

For all values of the constants, by TLAPS:

- `TypeCorrect`, `OneReply`, `CompletedWithResult`, `EndIsFinal`
  (`SessionProofs`). Every step either ends the session or goes on
  (`StepKinds`), and only the former writes result and replies; `OneReply` needs
  the strengthening that an active session has replied to nobody.
- `DriverFitsStatus` (`SessionProofs`), without assumptions: the integration that drives a
  session is the one its status is there for. Each step leaves status and driver, ends the
  driver, or starts a driver in its own status (`DriverFits`), wake-ups included, for the
  state a message can wake is the one whose driver its Resume starts (`WakeHome`).
- `OneDriver`, `NoStaleMove` (`SessionProofs`), assuming `Orderly`: no
  wake-ups, and the sweep before readiness. `SoleDriver` is not inductive; the
  invariant adds that the sweep runs only while the server is starting, that
  nothing runs or is scheduled while it is not ready, and that a pending sandbox
  poll implies that no other provisioning runs. Both assumptions are needed:
  without them TLC finds counterexamples.
- `TypeCorrect`, `ImplementsAlone` (`FactoryProofs`): however many rounds and
  disturbances, there is one implementer. That no run is live once the cycle is
  judged is not inductive; `Core` adds that the latest run alone is live
  (`LatestLives`, `JudgedAtRest`), that a fan-out which has not yet submitted the
  cycle belongs to the latest run, and that one is done (`EarlyIsLatest`), that
  nothing of the kind is left once the cycle went further (`SubmittedOnce`), and
  that a run about to be created finds everything at rest (`CreatedAtRest`).
- `VerdictsStand`, `ClosedForItsReview`, `CompletesInFavour` (`FactoryProofs`), for any
  number of rounds and disturbances. `Standing` holds whatever happens: a run is
  reviewed and evaluated after it is done (`DoneBeforeJudged`), a gate carries the
  verdict it was started for (`GatesInFavour`), a cycle past its evaluation names one
  that passed, and its implementer is the latest run. `InOrder` holds while nothing is
  overtaken: a fan-out has the cycle for itself (`FansAlone`), so the review is attached
  before the evaluation (`ReviewerIsLatest`), and an evaluation that the worker closes,
  or is about to, is closed by the review of its own run (`ClosedByReview`). The last
  theorem is the first conjunct of `CompleteMeansReviewed`.
- `NeverStalls`, `CompletesAsOne` (`FactoryProofs`), for cycles that nothing disturbed and
  any number of rounds. That the clock never fails such a cycle says little about the
  other variables, so its invariant, `OnSchedule`, is the whole course of a cycle: eleven
  phases (`Assigning`, `Working`, `Losing`, `FanningOut`, `UnderReview`, `AfterReview`,
  `UnderEvaluation`, `AfterEvaluation`, `Proved`, `AwaitingPerson`, `PersonAnswered`), each
  with the one integration that may be in flight, the place it is at, and what it read so
  far. `CleaningUp` allows for what an earlier round leaves: gates that still close its
  evaluation or reject its packet. `WorkerFollows` says that what is claimed is what the
  worker is at, and that it evaluates a run only once the review passed. With no
  integration in flight the phase leaves work for the worker or waits for a person
  (`JobPhase`, `OnlyPersonWaits`): the only clock that ends such a cycle is the person's. `CompletesAsOne` reads
  off the last phases that review, evaluation and packet are the implementer's: all of
  `CompleteMeansReviewed` for such a cycle.
- `OnlyApproved`, `OnlyForCause`, `SavedStands` (`ToolBatchProofs`). `StepKinds`
  reduces the steps to six: a run advances, is started, saves and goes on, saves
  and pauses, is started by a wake-up, or something settles that starts nothing.
  The first and the pause execute, and only dispatches of calls that are ahead and that
  are not denied (`ExecutedStep`): that is `OnlyApproved`. For the other two, `Apart` follows the
  split of a turn: one run is active, and none at rest (`OneRun`); what a context has
  as done is apart from what remains, and from the calls of the run (`Split`); a
  dispatch of a call that is still owed has taken effect at most once per crash, and where its
  call paused (`Counted`); what a pause executes it counts (`Covered`).
- `TypeCorrect` and `ResumedByOwnDecision` (`ToolBatchProofs`). That no save outgrows
  `CallLimit` is not inductive; `Fits` adds that a run has no more results than calls
  behind it, and as many calls as its context leaves room for. `ResumedByOwnDecision`
  proves `ResumedByItsDecision` under `Undeterred`: no crash and no answered plan, while
  wake-ups and failing writes may happen. `Waits` says that a decision which is being
  announced or is registered belongs to a session that waits, and is the one it waits
  for; a crash or an answered plan ends a wait and leaves its decision behind, and with
  either TLC finds the property violated in eight states.
- `EveryTurnClosed`, `OnlyOwnTurn`, `ConversationGrows`, `ToolPhaseKeepsContract`
  (`ToolBatchTurnProofs`), under `Calm`: no crash, no wake-up and no failing write
  (the recovery breaks the first and the last, see "Disagreements"). `TurnInv` follows
  the position of each call: calls and results alternate in the tree (`TreeInv`), what
  is saved and what the run has ahead of it are a prefix of the turn at the leaf and
  the rest of it (`Part`, `Follows`), a run started from the present leaf and context
  (`RunInv`), and nothing is saved between turns (`StatusInv`). Neither `TurnsClosed` nor
  the contract is inductive without the positions: a checkpoint has to leave exactly
  the calls it has not answered. Each step keeps the invariant, lets the conversation
  grow and is a step of the contract, or none (`TurnStep`), which proves the four at
  once; a checkpoint or pause before the first call of a run is the step that is none.
- `TypeCorrect`, `FollowUpLimit`, `AcceptedMessagesKept`, `MessagesHeardOnce`,
  `OneWorkingSession`, `ThreadHeardInOrder` (`SteeringProofs`), from `IdleIsNoRouter`
  (the model value of a free slot is not an invocation). A checker decides on a count it read earlier; what keeps the
  limit is that a session enters Steering below it and leaves it with each follow-up
  (`Counted`, `MayFollowUp`).
  `AcceptedIsKept` follows from where each accepted message is (`AllKept`) and, for each session that
  has answered, the reason it had to (`Reasoned`). For `HeardOnce` a message is in one
  place: on its way in one invocation, in one queue, or heard (`OnePlace`).
  The last two are about messages routed one after the other while no call fails.
  `OrderlyThread` says what the one invocation may rely on at each place: its binding is
  the one Active binding of the thread, the session it steers has started, the one it
  replaces has ended. From it, a session that works is bound or about to be
  (`LiveIsBound`), and only the bound session has a queue it may take from; what is heard
  is older than what is queued, and both are older than the message on its way
  (`InSequence`). A crash may leave a session that works and is bound to nothing: its
  queue is empty, so it is left out of the one and harmless to the other.
- `TypeCorrect`, `RetryComes`, `ReadyzTrue`, `StaysUnderControl` (`TransportProofs`),
  from `IdleIsNoCall` (the model value of a free call is not a call). The
  strengthening `Control` follows the one undisturbed call: other calls are idle
  (`Alone`), the handle has no token until the call publishes one and no task until it
  stores one (`Emptied`), and a task that runs is held by the handle (`Held`) or
  cancelled and awaited (`Leaving`).
- `TypeCorrect`, `EachHeardOnce`, `CursorSkipsNothing` (`DiscordGatewayProofs`).
  `PlaceInv` says where the task may be with what: a session that is alive from the
  catch-up on, a log of dispatches in the order of the messages, of which those before
  the end of the catch-up were written during it, a page of the one thread being read.
  `HeardOnce` is proved by counting what may still come: for each message, what was heard,
  a dispatch ahead of it, a page ahead of it, and the replacement of an archived Channel
  whose cursor may be older, are together within what crashes, faults and a message written
  during a catch-up allow (`MayBeHeard`); a reception spends its dispatch or its page. For
  `NothingSkipped` each message that is not settled is followed while there is no fault
  (`Tracked`): it is newer than every cursor, ahead in the session's log, and, in a catch-up,
  ahead in its thread; a page that was not full has all there was (`OnLastPage`).
- `TypeCorrect`, `SparesRunning`, `TornDown`, `Accounted`, `AwakeWhenReady`
  (`ComputeProofs`), the last three while nobody reports on a child that waits for
  its copy (`~ByHand`; TLC shows what happens otherwise). None is inductive. `Rows`
  says which sandbox a row names in each status, and that a start asks before it waits
  for the answer; `Fresh`, that a computer that has been told of a running command hears of it again, or is
  about to, before it has been idle for two periods, from `ComputeBounds`; `Awake`, which request to suspend or
  resume each status of the source expects, and that it is up wherever none explains
  that it is not.

Only model-checked: liveness (outside the prover's reach), and of `CompleteMeansReviewed`
that review, evaluation and packet are of the implementer where one thing, and only one,
went wrong.

## Disagreements not kept as runs

Three findings have a run of their own (`PROJECT.json`). The following were met
while modelling, seen in traces or read off the code, and are recorded here only:

- A checkpoint that is skipped because the REPL cannot be saved skips the tool call at
  the boundary too (`monty_repl/src/lib.rs:553`, `i += 1; continue`; the comment at `:541`:
  "skip this checkpoint"). With `Faults = {"save"}` TLC finds `TurnsClosed` violated.
- A snippet that meets a denial is run again from its start after the approval, and what it did
  before the denial is done again (`monty_repl/src/lib.rs:717`, `:777`, `:1278`), also by
  a person who approved only the denied dispatch.
- A message steered into a session that ends is lost. Its queue is read by nobody, for
  the continuation gets the conversation but no `steering_messages`
  (`route_message/src/lib.rs:1199`), while
  `os-apps/paw-agent/adrs/010-queued-steering-fast-finalize.md:76` says that one "that arrives
  after response application but before the old `steering_checker` would have read the queue may
  become a new follow-up turn".
- After a crash of a checkpointed batch the tree can hold two results for a call:
  one from the repair of the leaf, one from the resumed context
  (`docs/adrs/0025-session-recovery-and-reset.md:58`: "the tree is clean").
- Denying a decision nobody waits for any more fails the session
  (`docs/adrs/0025-session-recovery-and-reset.md:97`: the old decision is
  "orphaned (harmless)").
- `checkpoint_count` is not reset between turns (`session.ioa.toml:571`: "Resets
  implicitly on HandleToolResults").
- A plan can be approved while a Cedar decision is open
  (`plan_approval_handler/src/lib.rs:66` compares only the status).
- A sandbox provisioned during a batch is forgotten at a checkpoint
  (`docs/adrs/0022-lazy-sandbox-provisioning.md:39`: "survives across turns").
- A denied call inside a read-only batch does not pause the session
  (`session.ioa.toml:1209` against `monty_repl/src/dispatch.rs:3309`).
- The sweep after readiness acts on sessions that are alive
  (`startup.rs:2126`, `startup.rs:2342`).
- The budget of turns is not enforced by a guard (`session.ioa.toml:22`: "Budget
  enforced via turn_count guard").
- Nothing dispatches `MarkDisconnected` (`transport_connection.ioa.toml:112`: "Runtime
  transport disconnected after it had been connected; schedule reconciliation"),
  so a connection stays `Connected` after `/paw/transports/discord/disconnect`.
- A transport that replaces a healthy one may find the webhook port still bound,
  since the old listener is aborted asynchronously; that error is not among the
  retryable ones, so the connection ends in `Failed` though nothing is wrong.
- Two crashes let a cycle complete with the verdict of an older run
  (`review_gate_lifecycle/src/lib.rs:67`, `:356` ask for a verdict, not whose it is): the first
  cuts off the gate that would have closed the evaluation of the run that was sent back
  (`:701`), the second the fan-out before it attaches the next evaluation
  (`worker_run_lifecycle/src/lib.rs:68`). The old evaluation is taken up, passes and counts.
  With `DisturbanceLimit = 2` TLC shows it for the conjunct `OfOneRun` without its
  condition. For the same reason an old evaluation may be closed while the review of
  the present run is open: `ReviewCanPass` speaks of the evaluation of the implementer.
- The cursor of the Discord transport is stored before a reconnect and after a
  catch-up only (`transport.rs:610`, `:1071`). After a restart the messages
  received since the last reconnect are therefore received again
  (`transport.rs:926`: "Catch up on DMs missed while the bot was offline"); and if
  the server goes down before the first reconnect there is no cursor, which is
  taken for the "first-ever run" (`transport.rs:934`), and nothing is caught up.
- The cursor is one for all threads. Replaying one thread's message can move it
  past a message another person wrote during the catch-up; if the gateway session
  ends before that one is delivered, no catch-up looks for it again.
- A request of the catch-up that fails is taken for a thread without
  messages (`gateway.rs:484`), and a replay that fails is logged and skipped.
- After a restart only the DM channel of the Channel's last message is known
  (Discord lists none for bots), so other people's missed messages are not found.
- "prefer Connected > Disconnected" (`transport.rs:659`): the code compares
  message counts only, and a Disconnected Channel that is chosen stays so, while
  ReceiveMessage needs a Connected one.
- If the recovery of an archived Channel fails, the transport has no Channel until its next start
  (`transport.rs:869`): every message until then is answered with an error notice, and
  nothing is caught up.
- The catch-up is not one "from all DM channels" (`transport.rs:928`). Lost without a notice are
  messages of a DM that is neither listed nor known, those that came before the first cursor,
  those written during a catch-up whose session expires before they are delivered, and those
  a failed request would have brought.
- The recovery of an archived Channel overwrites the cursor in memory with the stored
  one of the Channel it finds, which may be older; what came between is received
  again at the next READY.
- After a crash, an evaluation left in the queue may fail when the cycle has gone on, and
  reject the packet of a cycle that has completed.
- An exec on a Sleeping computer resumes the sandbox and tells the row only when the
  command has started. If the launch fails, the row stays Sleeping while the sandbox is up
  (`computer.ioa.toml:194`: "so Temper never says Sleeping while the box is still up"); a
  failed resume of a sandbox that was up does the same.
- A command may be suspended. "A long exec must keep the source's 180s Sleep clock from firing
  mid-run" (`exec.ioa.toml:175`), but it is the row's Wake and the Heartbeats that renew the
  clock: a command that was launched while its row is still Starting, or whose Wake is on its
  way, does not keep its computer up.
- A Sleep and a Wake that overlap, a lost answer, or a failed resume reported while the
  row is Checkpointing leave a row Ready with a suspended sandbox (`computer.ioa.toml:246`:
  "Do not claim Ready while the box is still suspended").
- A crash during `computer_copy_start` leaves the child in Provisioning: it can be neither
  reconciled nor destroyed. The one way out, ProvisionFailed followed by Destroy, tears down
  the source, whose `machine_id` the child still has (`computer.ioa.toml:259`: the guard is
  on Provisioning and CopyUnknown, and Created is a status Destroy accepts). With
  `ByHand = TRUE` TLC finds `TornDownByItsRow` violated after six steps.
- ExecStarted wakes the computer, which a Leased copy refuses, so a start does not
  renew its lease; a copy near its end can be reaped before the first poll does.

## Not modelled

Payloads and wording; the integrations' own computations; Steer, SwitchProvider,
SwitchMode, Heartbeat and ProgressMade as actions of Session (self-loops that change
none of its modelled state); PauseForPlanApproval, which no code dispatches; the
kernel beyond what is listed in the header of Session; and the components with
status `not_modelled` in `PROJECT.json`, each with its reason.
