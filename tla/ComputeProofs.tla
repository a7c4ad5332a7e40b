---------------------------- MODULE ComputeProofs ----------------------------
(***************************************************************************)
(* Theorems about Compute, for every number of copies, commands and        *)
(* troubles: the types, what keeps rows and sandboxes together (Rows), how *)
(* long a computer has been idle that knows of a running command (Fresh),  *)
(* which requests to suspend and resume may be in flight (Awake).  Rows    *)
(* and Awake assume that nobody reports on a child that waits for its copy *)
(* (~ByHand): the code does not refuse such a report, and it breaks them.  *)
(***************************************************************************)
EXTENDS Compute, TLAPS

LEMMA Names ==
    /\ Children \subseteq Computers /\ Source \in Computers
    /\ Children \subseteq Polled /\ Execs \subseteq Polled
    /\ \A r \in Computers : r = Source \/ r \in Children
    /\ Source \notin Children /\ None \notin Computers
    /\ \A e \in Execs : e \notin Children
  BY ComputeNames DEF Computers, Polled

-----------------------------------------------------------------------------
(***************************************************************************)
(* Type correctness, variable by variable for the steps that change many.  *)
(***************************************************************************)
Clocks == {"off", "armed", "due"}
RowsOK ==
    /\ status \in [Computers -> Statuses] /\ machine \in [Computers -> Computers \cup {None}]
    /\ idle \in [Computers -> Nat]
ProviderOK ==
    /\ box \in [Computers -> Alive \cup {"none", "gone"}]
    /\ asked \in [Children -> Nat] /\ made \in [Children -> Nat]
    /\ process \in [Execs -> {"none", "running", "ended"}]
CallsOK ==
    /\ job \in [Children -> [Modes -> {"idle", "lookup", "request", "requested"}]]
    /\ teardown \in [Computers -> {"idle", "call", "done", "lost"}]
    /\ control \in [Computers -> SUBSET Requests]
    /\ launch \in [Execs -> {"idle", "fetch", "resume", "launch", "launched"}]
    /\ poll \in [Polled -> BOOLEAN]
ExecsOK ==
    /\ exec \in [Execs -> {"Created", "Starting", "Running"} \cup ExecEnded]
    /\ target \in [Execs -> Computers \cup {None}] /\ signal \in [Execs -> SUBSET Signals]
ClocksOK == clock \in [Polled -> Clocks] /\ late \in [Polled -> BOOLEAN]
HistoryOK == blurred \in [Computers -> BOOLEAN] /\ outage \in BOOLEAN /\ troubles \in Nat

LEMMA TypeParts ==
    TypeOK <=> RowsOK /\ ProviderOK /\ CallsOK /\ ExecsOK /\ ClocksOK /\ HistoryOK
  BY DEF TypeOK, RowsOK, ProviderOK, CallsOK, ExecsOK, ClocksOK, Clocks, HistoryOK

LEMMA TypePartsNext ==
    RowsOK' /\ ProviderOK' /\ CallsOK' /\ ExecsOK' /\ ClocksOK' /\ HistoryOK' => TypeOK'
  BY DEF TypeOK, RowsOK, ProviderOK, CallsOK, ExecsOK, ClocksOK, Clocks, HistoryOK

LEMMA TypeInit == Init => TypeOK
<1> SUFFICES ASSUME Init PROVE TypeOK
  OBVIOUS
<1>1. RowsOK
  BY Names, SMTT(30) DEF Init, RowsOK, Statuses
<1>2. ProviderOK
  BY Names, SMTT(30) DEF Init, ProviderOK, Alive
<1>3. CallsOK
  BY Names, SMTT(30) DEF Init, CallsOK, Modes, Requests
<1>4. ExecsOK
  BY Names, SMTT(30) DEF Init, ExecsOK, ExecEnded
<1>5. ClocksOK
  BY Names, SMTT(30) DEF Init, ClocksOK, Clocks
<1>6. HistoryOK
  <2>1. blurred \in [Computers -> BOOLEAN]
    BY DEF Init
  <2>2. outage \in BOOLEAN
    BY DEF Init
  <2>3. troubles \in Nat
    BY DEF Init
  <2> QED
    BY <2>1, <2>2, <2>3 DEF HistoryOK
<1> QED
  BY <1>1, <1>2, <1>3, <1>4, <1>5, <1>6, TypeParts

\* What the operators that steps share do to the types.
LEMMA BlursType ==
    ASSUME blurred \in [Computers -> BOOLEAN], NEW r, NEW h \in BOOLEAN, Blurs(r, h)
    PROVE  blurred' \in [Computers -> BOOLEAN]
<1> DEFINE b == blurred[r] \/ h
<1>1. b \in BOOLEAN
  OBVIOUS
<1>2. blurred' = [blurred EXCEPT ![r] = b]
  BY DEF Blurs
<1> HIDE DEF b
<1> QED
  BY <1>1, <1>2

LEMMA StopsClockType ==
    ASSUME ClocksOK, NEW x \in Polled, StopsClock(x)
    PROVE  ClocksOK'
<1>1. clock' \in [Polled -> Clocks]
  BY SMT DEF ClocksOK, StopsClock, Clocks
<1>2. late' \in [Polled -> BOOLEAN]
  <2> DEFINE no == FALSE
  <2>1. no \in BOOLEAN /\ late' = [late EXCEPT ![x] = no]
    BY DEF StopsClock
  <2> HIDE DEF no
  <2> QED
    BY <2>1 DEF ClocksOK
<1> QED
  BY <1>1, <1>2 DEF ClocksOK

LEMMA RenewedType ==
    ASSUME idle \in [Computers -> Nat], NEW r
    PROVE  Renewed(r) \in [Computers -> Nat]
<1>1. CASE status[r] \in {"Leased", "Ready"}
  <2>1. Renewed(r) = [idle EXCEPT ![r] = 0]
    BY <1>1 DEF Renewed
  <2>2. [idle EXCEPT ![r] = 0] \in [Computers -> Nat]
    OBVIOUS
  <2> QED
    BY <2>1, <2>2
<1>2. CASE status[r] \notin {"Leased", "Ready"}
  BY <1>2 DEF Renewed
<1> QED
  BY <1>1, <1>2

LEMMA TurnedType ==
    ASSUME ProviderOK, NEW b, NEW to \in Alive
    PROVE  Turned(b, to) \in [Computers -> Alive \cup {"none", "gone"}]
<1> DEFINE Boxes == Alive \cup {"none", "gone"}
           turned == IF box[b] \in Alive THEN to ELSE box[b]
<1>1. box \in [Computers -> Boxes] /\ Turned(b, to) = [box EXCEPT ![b] = turned]
  BY DEF ProviderOK, Turned
<1>2. b \in Computers => turned \in Boxes
  BY DEF ProviderOK
<1> HIDE DEF turned, Boxes
<1>3. Turned(b, to) \in [Computers -> Boxes]
  BY <1>1, <1>2
<1> QED
  BY <1>3 DEF Boxes

LEMMA PatienceType ==
    ASSUME NEW r \in Computers
    PROVE  Patience(r) \in Nat
<1>1. SleepAfter \in Nat /\ ReapAfter \in Nat
  BY ComputeBounds
<1>2. CASE status[r] = "Ready"
  BY <1>1, <1>2, SMT DEF Patience
<1>3. CASE status[r] = "Leased"
  BY <1>1, <1>3, SMT DEF Patience
<1>4. CASE status[r] \notin {"Ready", "Leased"}
  BY <1>4, SMT DEF Patience
<1> QED
  BY <1>2, <1>3, <1>4

LEMMA TroubleType ==
    ASSUME troubles \in Nat, Trouble \/ NoTrouble
    PROVE  troubles' \in Nat
  BY SMT DEF Trouble, NoTrouble

LEMMA ControlsTypes ==
    ASSUME TypeOK, NEW r \in Computers,
           NEW q \in Requests, NEW failure \in Requests, NEW to \in Alive,
           Controls(r, q, failure, to)
    PROVE  TypeOK'
<1> USE Names DEF rows, provider, calls, execs, timers, time, history
<1>0. RowsOK /\ ProviderOK /\ CallsOK /\ ExecsOK /\ ClocksOK /\ HistoryOK
  BY TypeParts
<1>1. RowsOK'
  BY <1>0, SMTT(30) DEF Controls, Answered, Errs, Turned, RowsOK, Statuses
<1>2. ProviderOK'
  <2>1. box' = box \/ box' = Turned(machine[r], to)
    BY DEF Controls
  <2>2. box' \in [Computers -> Alive \cup {"none", "gone"}]
    BY <1>0, <2>1, TurnedType DEF ProviderOK
  <2> QED
    BY <1>0, <2>2 DEF Controls, ProviderOK
<1>3. CallsOK'
  <2>1. CASE Answered(r, q)
    BY <1>0, <2>1, SMTT(30) DEF Controls, Answered, CallsOK
  <2>2. CASE Errs(r, q, failure)
    BY <1>0, <2>2, SMTT(30) DEF Controls, Errs, CallsOK
  <2> QED
    BY <2>1, <2>2 DEF Controls
<1>4. ExecsOK'
  BY <1>0, SMTT(30) DEF Controls, Answered, Errs, Turned, ExecsOK, ExecEnded
<1>5. ClocksOK'
  BY <1>0, SMTT(30) DEF Controls, Answered, Errs, Turned, ClocksOK, Clocks
<1>6. HistoryOK'
  <2>1. blurred' \in [Computers -> BOOLEAN]
    BY <1>0, BlursType DEF Controls, HistoryOK
  <2>2. troubles' \in Nat
    BY <1>0, TroubleType DEF Controls, HistoryOK
  <2> QED
    BY <1>0, <2>1, <2>2 DEF Controls, HistoryOK
<1> QED
  BY <1>1, <1>2, <1>3, <1>4, <1>5, <1>6, TypePartsNext

LEMMA WakeFailedTypes ==
    ASSUME TypeOK, NEW r \in Computers, WakeFailed(r)
    PROVE  TypeOK'
<1> USE Names DEF rows, provider, calls, execs, timers, time, history
<1>0. RowsOK /\ ProviderOK /\ CallsOK /\ ExecsOK /\ ClocksOK /\ HistoryOK
  BY TypeParts
<1>1. RowsOK'
  BY <1>0, SMTT(30) DEF WakeFailed, Answered, Becomes, Blurs, RowsOK, Statuses
<1>2. ProviderOK'
  BY <1>0, SMTT(30) DEF WakeFailed, Answered, Becomes, Blurs, ProviderOK, Alive
<1>3. CallsOK'
  BY <1>0, SMTT(30) DEF WakeFailed, Answered, Becomes, Blurs, CallsOK, Modes, Requests
<1>4. ExecsOK'
  BY <1>0, SMTT(30) DEF WakeFailed, Answered, Becomes, Blurs, ExecsOK, ExecEnded
<1>5. ClocksOK'
  BY <1>0, SMTT(30) DEF WakeFailed, Answered, Becomes, Blurs, ClocksOK, Clocks
<1>6. HistoryOK'
  <2>1. blurred' \in [Computers -> BOOLEAN]
    BY <1>0, BlursType DEF WakeFailed, HistoryOK
  <2> QED
    BY <1>0, <2>1 DEF WakeFailed, HistoryOK
<1> QED
  BY <1>1, <1>2, <1>3, <1>4, <1>5, <1>6, TypePartsNext

LEMMA DestroysTypes ==
    ASSUME TypeOK, NEW r \in Computers, Destroys(r), Trouble \/ NoTrouble
    PROVE  TypeOK'
<1> USE Names DEF rows, provider, calls, execs, timers, time, history
<1>0. RowsOK /\ ProviderOK /\ CallsOK /\ ExecsOK /\ ClocksOK /\ HistoryOK
  BY TypeParts
<1>1. RowsOK'
  BY <1>0, SMTT(30) DEF Destroys, Destroyable, Terminates, Becomes, RowsOK, Statuses
<1>2. ProviderOK'
  BY <1>0, SMTT(30) DEF Destroys, Destroyable, Terminates, Becomes, ProviderOK, Alive
<1>3. CallsOK'
  BY <1>0, SMTT(30) DEF Destroys, Destroyable, Terminates, Becomes, CallsOK, Modes, Requests
<1>4. ExecsOK'
  BY <1>0, SMTT(30) DEF Destroys, Destroyable, Terminates, Becomes, ExecsOK, ExecEnded
<1>5. ClocksOK'
  BY <1>0, StopsClockType DEF Destroys, ClocksOK
<1>6. HistoryOK'
  BY <1>0, TroubleType DEF Destroys, Trouble, NoTrouble, HistoryOK
<1> QED
  BY <1>1, <1>2, <1>3, <1>4, <1>5, <1>6, TypePartsNext

LEMMA CopyCompleteTypes ==
    ASSUME TypeOK, NEW c \in Children, CopyComplete(c)
    PROVE  TypeOK'
<1> USE Names DEF rows, provider, calls, execs, timers, time, history
<1>0. RowsOK /\ ProviderOK /\ CallsOK /\ ExecsOK /\ ClocksOK /\ HistoryOK
  BY TypeParts
<1>1. RowsOK'
  BY <1>0, SMTT(30) DEF CopyComplete, Becomes, RowsOK, Statuses
<1>2. ProviderOK'
  BY <1>0, SMTT(30) DEF CopyComplete, Answers, Becomes, ProviderOK, Alive
<1>3. CallsOK'
  BY <1>0, SMTT(30) DEF CopyComplete, Answers, Becomes, CallsOK, Modes, Requests
<1>4. ExecsOK'
  BY <1>0, SMTT(30) DEF CopyComplete, Answers, Becomes, ExecsOK, ExecEnded
<1>5. ClocksOK'
  BY <1>0, StopsClockType DEF CopyComplete, ClocksOK
<1>6. HistoryOK'
  BY <1>0, SMTT(30) DEF CopyComplete, Answers, Becomes, HistoryOK
<1> QED
  BY <1>1, <1>2, <1>3, <1>4, <1>5, <1>6, TypePartsNext

LEMMA CopyExpiredTypes ==
    ASSUME TypeOK, NEW c \in Children, CopyExpired(c)
    PROVE  TypeOK'
<1> USE Names DEF rows, provider, calls, execs, timers, time, history
<1>0. RowsOK /\ ProviderOK /\ CallsOK /\ ExecsOK /\ ClocksOK /\ HistoryOK
  BY TypeParts
<1>1. RowsOK'
  BY <1>0, SMTT(30) DEF CopyExpired, Answers, Terminates, Becomes, RowsOK, Statuses
<1>2. ProviderOK'
  BY <1>0, SMTT(30) DEF CopyExpired, Answers, Terminates, Becomes, ProviderOK, Alive
<1>3. CallsOK'
  BY <1>0, SMTT(30) DEF CopyExpired, Answers, Terminates, Becomes, CallsOK, Modes, Requests
<1>4. ExecsOK'
  BY <1>0, SMTT(30) DEF CopyExpired, Answers, Terminates, Becomes, ExecsOK, ExecEnded
<1>5. ClocksOK'
  BY <1>0, StopsClockType DEF CopyExpired, ClocksOK
<1>6. HistoryOK'
  BY <1>0, SMTT(30) DEF CopyExpired, Answers, Terminates, Becomes, HistoryOK
<1> QED
  BY <1>1, <1>2, <1>3, <1>4, <1>5, <1>6, TypePartsNext

LEMMA LookupTypes ==
    ASSUME TypeOK, NEW c \in Children, NEW m \in Modes, Lookup(c, m)
    PROVE  TypeOK'
<1> USE Names DEF rows, provider, calls, execs, timers, time, history
<1>0. RowsOK /\ ProviderOK /\ CallsOK /\ ExecsOK /\ ClocksOK /\ HistoryOK
  BY TypeParts
<1>1. RowsOK'
  BY <1>0, SMTT(30) DEF Lookup, JobStep, Working, Works, Finds, FindsNot, CopyStarted,
                        CopyFailed, Becomes, RearmsClock, MayRequest, Trouble, NoTrouble,
                        Unresolved, RowsOK, Statuses
<1>2. ProviderOK'
  BY <1>0, SMTT(30) DEF Lookup, JobStep, Working, Works, Finds, FindsNot, CopyStarted,
                        CopyFailed, Becomes, RearmsClock, MayRequest, Trouble, NoTrouble,
                        Unresolved, ProviderOK, Alive
<1>3. CallsOK'
  BY <1>0, SMTT(30) DEF Lookup, JobStep, Working, Works, Finds, FindsNot, CopyStarted,
                        CopyFailed, Becomes, RearmsClock, MayRequest, Trouble, NoTrouble,
                        Unresolved, CallsOK, Modes, Requests
<1>4. ExecsOK'
  BY <1>0, SMTT(30) DEF Lookup, JobStep, Working, Works, Finds, FindsNot, CopyStarted,
                        CopyFailed, Becomes, RearmsClock, MayRequest, Trouble, NoTrouble,
                        Unresolved, ExecsOK, ExecEnded
<1>5. ClocksOK'
  BY <1>0, SMTT(30) DEF Lookup, JobStep, Working, Works, Finds, FindsNot, CopyStarted,
                        CopyFailed, Becomes, RearmsClock, MayRequest, Trouble, NoTrouble,
                        Unresolved, ClocksOK, Clocks
<1>6. HistoryOK'
  BY <1>0, SMTT(30) DEF Lookup, JobStep, Working, Works, Finds, FindsNot, CopyStarted,
                        CopyFailed, Becomes, RearmsClock, MayRequest, Trouble, NoTrouble,
                        Unresolved, HistoryOK
<1> QED
  BY <1>1, <1>2, <1>3, <1>4, <1>5, <1>6, TypePartsNext

LEMMA RequestTypes ==
    ASSUME TypeOK, NEW c \in Children, NEW m \in Modes, Request(c, m)
    PROVE  TypeOK'
<1> USE Names DEF rows, provider, calls, execs, timers, time, history
<1>0. RowsOK /\ ProviderOK /\ CallsOK /\ ExecsOK /\ ClocksOK /\ HistoryOK
  BY TypeParts
<1>1. RowsOK'
  BY <1>0, SMTT(30) DEF Request, JobStep, Working, Works, CopyFailed, Becomes, Trouble,
                        NoTrouble, Unresolved, RowsOK, Statuses
<1>2. ProviderOK'
  BY <1>0, SMTT(30) DEF Request, JobStep, Working, Works, CopyFailed, Becomes, Trouble,
                        NoTrouble, Unresolved, ProviderOK, Alive
<1>3. CallsOK'
  BY <1>0, SMTT(30) DEF Request, JobStep, Working, Works, CopyFailed, Becomes, Trouble,
                        NoTrouble, Unresolved, CallsOK, Modes, Requests
<1>4. ExecsOK'
  BY <1>0, SMTT(30) DEF Request, JobStep, Working, Works, CopyFailed, Becomes, Trouble,
                        NoTrouble, Unresolved, ExecsOK, ExecEnded
<1>5. ClocksOK'
  BY <1>0, SMTT(30) DEF Request, JobStep, Working, Works, CopyFailed, Becomes, Trouble,
                        NoTrouble, Unresolved, ClocksOK, Clocks
<1>6. HistoryOK'
  BY <1>0, SMTT(30) DEF Request, JobStep, Working, Works, CopyFailed, Becomes, Trouble,
                        NoTrouble, Unresolved, HistoryOK
<1> QED
  BY <1>1, <1>2, <1>3, <1>4, <1>5, <1>6, TypePartsNext

LEMMA AnswerTypes ==
    ASSUME TypeOK, NEW c \in Children, NEW m \in Modes, Answer(c, m)
    PROVE  TypeOK'
<1> USE Names DEF rows, provider, calls, execs, timers, time, history
<1>0. RowsOK /\ ProviderOK /\ CallsOK /\ ExecsOK /\ ClocksOK /\ HistoryOK
  BY TypeParts
<1>1. RowsOK'
  BY <1>0, SMTT(30) DEF Answer, JobStep, Working, Works, Finds, FindsNot, CopyStarted,
                        CopyFailed, Becomes, RearmsClock, Trouble, NoTrouble, Unresolved,
                        RowsOK, Statuses
<1>2. ProviderOK'
  BY <1>0, SMTT(30) DEF Answer, JobStep, Working, Works, Finds, FindsNot, CopyStarted,
                        CopyFailed, Becomes, RearmsClock, Trouble, NoTrouble, Unresolved,
                        ProviderOK, Alive
<1>3. CallsOK'
  BY <1>0, SMTT(30) DEF Answer, JobStep, Working, Works, Finds, FindsNot, CopyStarted,
                        CopyFailed, Becomes, RearmsClock, Trouble, NoTrouble, Unresolved,
                        CallsOK, Modes, Requests
<1>4. ExecsOK'
  BY <1>0, SMTT(30) DEF Answer, JobStep, Working, Works, Finds, FindsNot, CopyStarted,
                        CopyFailed, Becomes, RearmsClock, Trouble, NoTrouble, Unresolved,
                        ExecsOK, ExecEnded
<1>5. ClocksOK'
  BY <1>0, SMTT(30) DEF Answer, JobStep, Working, Works, Finds, FindsNot, CopyStarted,
                        CopyFailed, Becomes, RearmsClock, Trouble, NoTrouble, Unresolved,
                        ClocksOK, Clocks
<1>6. HistoryOK'
  BY <1>0, SMTT(30) DEF Answer, JobStep, Working, Works, Finds, FindsNot, CopyStarted,
                        CopyFailed, Becomes, RearmsClock, Trouble, NoTrouble, Unresolved,
                        HistoryOK
<1> QED
  BY <1>1, <1>2, <1>3, <1>4, <1>5, <1>6, TypePartsNext

LEMMA LaunchCommandTypes ==
    ASSUME TypeOK, NEW e \in Execs, LaunchCommand(e)
    PROVE  TypeOK'
<1> USE Names DEF rows, provider, calls, execs, timers, time, history
<1>0. RowsOK /\ ProviderOK /\ CallsOK /\ ExecsOK /\ ClocksOK /\ HistoryOK
  BY TypeParts
<1>1. RowsOK'
  BY <1>0, SMTT(30) DEF LaunchCommand, Launching, Launches, Starts, Trouble, NoTrouble,
                        RowsOK, Statuses
<1>2. ProviderOK'
  BY <1>0, SMTT(30) DEF LaunchCommand, Launching, Launches, Starts, Trouble, NoTrouble,
                        ProviderOK, Alive
<1>3. CallsOK'
  BY <1>0, SMTT(30) DEF LaunchCommand, Launching, Launches, Starts, Trouble, NoTrouble,
                        CallsOK, Modes, Requests
<1>4. ExecsOK'
  BY <1>0, SMTT(30) DEF LaunchCommand, Launching, Launches, Starts, Trouble, NoTrouble,
                        ExecsOK, ExecEnded
<1>5. ClocksOK'
  BY <1>0, SMTT(30) DEF LaunchCommand, Launching, Launches, Starts, Trouble, NoTrouble,
                        ClocksOK, Clocks
<1>6. HistoryOK'
  BY <1>0, SMTT(30) DEF LaunchCommand, Launching, Launches, Starts, Trouble, NoTrouble,
                        HistoryOK
<1> QED
  BY <1>1, <1>2, <1>3, <1>4, <1>5, <1>6, TypePartsNext

LEMMA ExecStartedTypes ==
    ASSUME TypeOK, NEW e \in Execs, ExecStarted(e)
    PROVE  TypeOK'
<1> USE Names DEF rows, provider, calls, execs, timers, time, history
<1>0. RowsOK /\ ProviderOK /\ CallsOK /\ ExecsOK /\ ClocksOK /\ HistoryOK
  BY TypeParts
<1>1. RowsOK'
  BY <1>0, SMTT(30) DEF ExecStarted, Launching, Launches, ExecBecomes, RearmsClock, Sends, RowsOK
<1>2. ProviderOK'
  BY <1>0, SMTT(30) DEF ExecStarted, Launching, Launches, ExecBecomes, RearmsClock, Sends, ProviderOK, Alive
<1>3. CallsOK'
  BY <1>0, SMTT(30) DEF ExecStarted, Launching, Launches, ExecBecomes, RearmsClock, Sends, CallsOK, Modes, Requests
<1>4. ExecsOK'
  BY <1>0, SMTT(30) DEF ExecStarted, Launching, Launches, ExecBecomes, RearmsClock, Sends, ExecsOK, Signals, ExecEnded
<1>5. ClocksOK'
  BY <1>0, SMTT(30) DEF ExecStarted, Launching, Launches, ExecBecomes, RearmsClock, Sends, ClocksOK, Clocks
<1>6. HistoryOK'
  BY <1>0, SMTT(30) DEF ExecStarted, Launching, Launches, ExecBecomes, RearmsClock, Sends, HistoryOK
<1> QED
  BY <1>1, <1>2, <1>3, <1>4, <1>5, <1>6, TypePartsNext

LEMMA WakeArrivesTypes ==
    ASSUME TypeOK, NEW e \in Execs, WakeArrives(e)
    PROVE  TypeOK'
<1> USE Names DEF rows, provider, calls, execs, timers, time, history
<1>0. RowsOK /\ ProviderOK /\ CallsOK /\ ExecsOK /\ ClocksOK /\ HistoryOK
  BY TypeParts
<1>1. RowsOK'
  BY <1>0, SMTT(30) DEF WakeArrives, Arrives, CanWake, Wakes, Becomes, Requested, RowsOK, Statuses
<1>2. ProviderOK'
  BY <1>0, SMTT(30) DEF WakeArrives, Arrives, CanWake, Wakes, Becomes, Requested, ProviderOK
<1>3. CallsOK'
  BY <1>0, SMTT(30) DEF WakeArrives, Arrives, CanWake, Wakes, Becomes, Requested, CallsOK, Requests
<1>4. ExecsOK'
  BY <1>0, SMTT(30) DEF WakeArrives, Arrives, CanWake, Wakes, Becomes, Requested, ExecsOK, Signals
<1>5. ClocksOK'
  BY <1>0, SMTT(30) DEF WakeArrives, Arrives, CanWake, Wakes, Becomes, Requested, ClocksOK
<1>6. HistoryOK'
  <2>1. CASE UNCHANGED blurred
    BY <1>0, <2>1 DEF WakeArrives, HistoryOK
  <2>2. CASE Wakes(target[e])
    <3>1. blurred' \in [Computers -> BOOLEAN]
      BY <1>0, <2>2, BlursType DEF Wakes, Requested, HistoryOK
    <3> QED
      BY <1>0, <3>1 DEF WakeArrives, HistoryOK
  <2> QED
    BY <2>1, <2>2 DEF WakeArrives
<1> QED
  BY <1>1, <1>2, <1>3, <1>4, <1>5, <1>6, TypePartsNext

LEMMA HeartbeatArrivesTypes ==
    ASSUME TypeOK, NEW e \in Execs, HeartbeatArrives(e)
    PROVE  TypeOK'
<1> USE Names DEF rows, provider, calls, execs, timers, time, history
<1>0. RowsOK /\ ProviderOK /\ CallsOK /\ ExecsOK /\ ClocksOK /\ HistoryOK
  BY TypeParts
<1>1. RowsOK'
  BY <1>0, RenewedType DEF HeartbeatArrives, RowsOK
<1>2. ProviderOK'
  BY <1>0, SMTT(30) DEF HeartbeatArrives, Arrives, ProviderOK
<1>3. CallsOK'
  BY <1>0, SMTT(30) DEF HeartbeatArrives, Arrives, CallsOK
<1>4. ExecsOK'
  BY <1>0, SMTT(30) DEF HeartbeatArrives, Arrives, ExecsOK, Signals
<1>5. ClocksOK'
  BY <1>0, SMTT(30) DEF HeartbeatArrives, Arrives, ClocksOK
<1>6. HistoryOK'
  BY <1>0, SMTT(30) DEF HeartbeatArrives, Arrives, HistoryOK
<1> QED
  BY <1>1, <1>2, <1>3, <1>4, <1>5, <1>6, TypePartsNext

LEMMA PollTypes ==
    ASSUME TypeOK, NEW e \in Execs, Poll(e)
    PROVE  TypeOK'
<1> USE Names DEF rows, provider, calls, execs, timers, time, history
<1>0. RowsOK /\ ProviderOK /\ CallsOK /\ ExecsOK /\ ClocksOK /\ HistoryOK
  BY TypeParts
<1>1. RowsOK'
  BY <1>0 DEF Poll, RowsOK
<1>2. ProviderOK'
  BY <1>0, SMTT(30) DEF Poll, Due, RearmsClock, Polls, ProviderOK, Alive
<1>3. CallsOK'
  BY <1>0, SMTT(30) DEF Poll, Due, RearmsClock, Polls, CallsOK, Modes, Requests
<1>4. ExecsOK'
  BY <1>0, SMTT(30) DEF Poll, Sends, ExecsOK, Signals
<1>5. ClocksOK'
  BY <1>0, SMTT(30) DEF Poll, Due, RearmsClock, Polls, ClocksOK, Clocks
<1>6. HistoryOK'
  BY <1>0, SMTT(30) DEF Poll, Due, RearmsClock, Polls, HistoryOK
<1> QED
  BY <1>1, <1>2, <1>3, <1>4, <1>5, <1>6, TypePartsNext

LEMMA RunSucceededTypes ==
    ASSUME TypeOK, NEW e \in Execs, RunSucceeded(e)
    PROVE  TypeOK'
<1> USE Names DEF rows, provider, calls, execs, timers, time, history
<1>0. RowsOK /\ ProviderOK /\ CallsOK /\ ExecsOK /\ ClocksOK /\ HistoryOK
  BY TypeParts
<1>1. RowsOK'
  BY <1>0 DEF RunSucceeded, RowsOK
<1>2. ProviderOK'
  BY <1>0, SMTT(30) DEF RunSucceeded, Ends, ExecBecomes, Answers, ProviderOK, Alive
<1>3. CallsOK'
  BY <1>0, SMTT(30) DEF RunSucceeded, Ends, ExecBecomes, Answers, CallsOK, Modes, Requests
<1>4. ExecsOK'
  BY <1>0, SMTT(30) DEF RunSucceeded, Ends, ExecBecomes, Answers, Sends, ExecsOK, Signals, ExecEnded
<1>5. ClocksOK'
  BY <1>0, StopsClockType DEF RunSucceeded, Ends, ClocksOK
<1>6. HistoryOK'
  BY <1>0, SMTT(30) DEF RunSucceeded, Ends, ExecBecomes, Answers, HistoryOK
<1> QED
  BY <1>1, <1>2, <1>3, <1>4, <1>5, <1>6, TypePartsNext

LEMMA RunFailedTypes ==
    ASSUME TypeOK, NEW e \in Execs, RunFailed(e)
    PROVE  TypeOK'
<1> USE Names DEF rows, provider, calls, execs, timers, time, history
<1>0. RowsOK /\ ProviderOK /\ CallsOK /\ ExecsOK /\ ClocksOK /\ HistoryOK
  BY TypeParts
<1>1. RowsOK'
  BY <1>0 DEF RunFailed, RowsOK
<1>2. ProviderOK'
  BY <1>0, SMTT(30) DEF RunFailed, Ends, ExecBecomes, Answers, ProviderOK, Alive
<1>3. CallsOK'
  BY <1>0, SMTT(30) DEF RunFailed, Ends, ExecBecomes, Answers, CallsOK, Modes, Requests
<1>4. ExecsOK'
  BY <1>0, SMTT(30) DEF RunFailed, Ends, ExecBecomes, Answers, Sends, ExecsOK, Signals, ExecEnded
<1>5. ClocksOK'
  BY <1>0, StopsClockType DEF RunFailed, Ends, ClocksOK
<1>6. HistoryOK'
  BY <1>0, SMTT(30) DEF RunFailed, Ends, ExecBecomes, Answers, HistoryOK
<1> QED
  BY <1>1, <1>2, <1>3, <1>4, <1>5, <1>6, TypePartsNext

LEMMA StartFailedTypes ==
    ASSUME TypeOK, NEW e \in Execs, StartFailed(e)
    PROVE  TypeOK'
<1> USE Names DEF rows, provider, calls, execs, timers, time, history
<1>0. RowsOK /\ ProviderOK /\ CallsOK /\ ExecsOK /\ ClocksOK /\ HistoryOK
  BY TypeParts
<1>1. RowsOK'
  BY <1>0 DEF StartFailed, RowsOK
<1>2. ProviderOK'
  BY <1>0, SMTT(30) DEF StartFailed, Ends, ExecBecomes, ProviderOK, Alive
<1>3. CallsOK'
  BY <1>0, SMTT(30) DEF StartFailed, Ends, ExecBecomes, CallsOK, Modes, Requests
<1>4. ExecsOK'
  BY <1>0, SMTT(30) DEF StartFailed, Ends, ExecBecomes, Sends, ExecsOK, Signals, ExecEnded
<1>5. ClocksOK'
  BY <1>0, StopsClockType DEF StartFailed, Ends, ClocksOK
<1>6. HistoryOK'
  BY <1>0, SMTT(30) DEF StartFailed, Ends, ExecBecomes, HistoryOK
<1> QED
  BY <1>1, <1>2, <1>3, <1>4, <1>5, <1>6, TypePartsNext

LEMMA OutageTypes ==
    ASSUME TypeOK, Outage
    PROVE  TypeOK'
<1> USE Names DEF rows, provider, calls, execs, timers, time, history
<1>0. RowsOK /\ ProviderOK /\ CallsOK /\ ExecsOK /\ ClocksOK /\ HistoryOK
  BY TypeParts
<1>1. RowsOK'
  BY <1>0, PatienceType DEF Outage, RowsOK
<1>2. ProviderOK'
  BY <1>0, SMTT(30) DEF Outage, Trouble, ProviderOK, Alive
<1>3. CallsOK'
  BY <1>0, SMTT(30) DEF Outage, Trouble, CallsOK, Modes, Requests
<1>4. ExecsOK'
  BY <1>0, SMTT(30) DEF Outage, Trouble, ExecsOK, ExecEnded
<1>5. ClocksOK'
  BY <1>0, SMTT(30) DEF Outage, Trouble, ClocksOK, Clocks
<1>6. HistoryOK'
  BY <1>0, SMTT(30) DEF Outage, Trouble, HistoryOK
<1> QED
  BY <1>1, <1>2, <1>3, <1>4, <1>5, <1>6, TypePartsNext

LEMMA TypeStep ==
    ASSUME TypeOK, Next
    PROVE  TypeOK'
<1> USE Names DEF rows, provider, calls, execs, timers, time, history
<1>1. ASSUME NEW r \in Computers, Provision(r)
      PROVE  TypeOK'
  BY <1>1, SMTT(30) DEF Provision, Becomes, TypeOK, Alive, Requests, ExecEnded, Statuses,
                        Modes
<1>2. ASSUME NEW r \in Computers, ProvisionComplete(r)
      PROVE  TypeOK'
  BY <1>2, SMTT(30) DEF ProvisionComplete, Becomes, RecordedByHand, TypeOK, Alive, Requests,
                        ExecEnded, Statuses, Modes
<1>3. ASSUME NEW r \in Computers, ProvisionFailed(r)
      PROVE  TypeOK'
  BY <1>3, SMTT(30) DEF ProvisionFailed, Becomes, RecordedByHand, TypeOK, Alive, Requests,
                        ExecEnded, Statuses, Modes
<1>4. ASSUME NEW r \in Computers, Checkpoint(r)
      PROVE  TypeOK'
  BY <1>4, SMTT(30) DEF Checkpoint, Becomes, Trouble, TypeOK, Alive, Requests, ExecEnded,
                        Statuses, Modes
<1>5. ASSUME NEW r \in Computers, CheckpointComplete(r)
      PROVE  TypeOK'
  BY <1>5, SMTT(30) DEF CheckpointComplete, Becomes, TypeOK, Alive, Requests, ExecEnded,
                        Statuses, Modes
<1>6. ASSUME NEW r \in Computers, Sleep(r)
      PROVE  TypeOK'
  BY <1>6, SMTT(30) DEF Sleep, Sleeps, Becomes, Requested, Blurs, Trouble, TypeOK, Alive,
                        Requests, ExecEnded, Statuses, Modes
<1>7. ASSUME NEW r \in Computers, SleepTimeout(r)
      PROVE  TypeOK'
  BY <1>7, SMTT(30) DEF SleepTimeout, Sleeps, Becomes, Requested, Blurs, NoTrouble, TypeOK,
                        Alive, Requests, ExecEnded, Statuses, Modes
<1>8. ASSUME NEW r \in Computers, Suspend(r)
      PROVE  TypeOK'
  BY <1>8, ControlsTypes DEF Suspend, Alive, Requests
<1>9. ASSUME NEW r \in Computers, SleepFailed(r)
      PROVE  TypeOK'
  BY <1>9, SMTT(30) DEF SleepFailed, Answered, Becomes, TypeOK, Alive, Requests, ExecEnded,
                        Statuses, Modes
<1>10. ASSUME NEW r \in Computers, Wake(r)
      PROVE  TypeOK'
  BY <1>10, SMTT(30) DEF Wake, CanWake, Wakes, Becomes, Requested, Blurs, Trouble, TypeOK,
                         Alive, Requests, ExecEnded, Statuses, Modes
<1>11. ASSUME NEW r \in Computers, Resume(r)
      PROVE  TypeOK'
  BY <1>11, ControlsTypes DEF Resume, Alive, Requests
<1>12. ASSUME NEW r \in Computers, WakeFailed(r)
      PROVE  TypeOK'
  BY <1>12, WakeFailedTypes
<1>13. ASSUME NEW r \in Computers, Heartbeat(r)
      PROVE  TypeOK'
  BY <1>13, SMTT(30) DEF Heartbeat, Renewed, TypeOK, Alive, Requests, ExecEnded, Statuses,
                         Modes
<1>14. ASSUME NEW r \in Computers, Destroy(r)
      PROVE  TypeOK'
  BY <1>14, DestroysTypes DEF Destroy
<1>15. ASSUME NEW r \in Computers, LeaseTimeout(r)
      PROVE  TypeOK'
  BY <1>15, DestroysTypes DEF LeaseTimeout
<1>16. ASSUME NEW r \in Computers, Terminate(r)
      PROVE  TypeOK'
  BY <1>16, SMTT(30) DEF Terminate, Trouble, NoTrouble, TypeOK, Alive, Requests, ExecEnded,
                         Statuses, Modes
<1>17. ASSUME NEW r \in Computers, TerminateComplete(r)
      PROVE  TypeOK'
  BY <1>17, SMTT(30) DEF TerminateComplete, Becomes, TypeOK, Alive, Requests, ExecEnded,
                         Statuses, Modes
<1>18. ASSUME NEW c \in Children, Copy(c)
      PROVE  TypeOK'
  BY <1>18, SMTT(30) DEF Copy, Works, TypeOK, Alive, Requests, ExecEnded, Statuses, Modes
<1>19. ASSUME NEW c \in Children, ReconcileCopy(c)
      PROVE  TypeOK'
  BY <1>19, SMTT(30) DEF ReconcileCopy, Working, Works, TypeOK, Alive, Requests, ExecEnded,
                         Statuses, Modes
<1>20. ASSUME NEW c \in Children, MakeCopy(c)
      PROVE  TypeOK'
  BY <1>20, SMTT(30) DEF MakeCopy, TypeOK, Alive, Requests, ExecEnded, Statuses, Modes
<1>21. ASSUME NEW c \in Children, Boot(c)
      PROVE  TypeOK'
  BY <1>21, SMTT(30) DEF Boot, TypeOK, Alive, Requests, ExecEnded, Statuses, Modes
<1>22. ASSUME NEW c \in Children, CopyPoll(c)
      PROVE  TypeOK'
  BY <1>22, SMTT(30) DEF CopyPoll, Due, RearmsClock, Polls, TypeOK, Alive, Requests,
                         ExecEnded, Statuses, Modes
<1>23. ASSUME NEW c \in Children, CopyPending(c)
      PROVE  TypeOK'
  BY <1>23, SMTT(30) DEF CopyPending, Answers, TypeOK, Alive, Requests, ExecEnded, Statuses,
                         Modes
<1>24. ASSUME NEW c \in Children, CopyComplete(c)
      PROVE  TypeOK'
  BY <1>24, CopyCompleteTypes
<1>25. ASSUME NEW c \in Children, CopyExpired(c)
      PROVE  TypeOK'
  BY <1>25, CopyExpiredTypes
<1>26. ASSUME NEW c \in Children, NEW m \in Modes, Lookup(c, m)
      PROVE  TypeOK'
  BY <1>26, LookupTypes
<1>27. ASSUME NEW c \in Children, NEW m \in Modes, Request(c, m)
      PROVE  TypeOK'
  BY <1>27, RequestTypes
<1>28. ASSUME NEW c \in Children, NEW m \in Modes, Answer(c, m)
      PROVE  TypeOK'
  BY <1>28, AnswerTypes
<1>29. ASSUME NEW e \in Execs, NEW r \in Computers, Run(e, r)
      PROVE  TypeOK'
  BY <1>29, SMTT(30) DEF Run, ExecBecomes, Launches, TypeOK, Alive, Requests, ExecEnded,
                         Statuses, Modes
<1>30. ASSUME NEW e \in Execs, Fetch(e)
      PROVE  TypeOK'
  BY <1>30, SMTT(30) DEF Fetch, Launching, Launches, TypeOK, Alive, Requests, ExecEnded,
                         Statuses, Modes
<1>31. ASSUME NEW e \in Execs, ResumeSandbox(e)
      PROVE  TypeOK'
  BY <1>31, SMTT(30) DEF ResumeSandbox, Launching, Launches, Turned, Trouble, NoTrouble,
                         TypeOK, Alive, Requests, ExecEnded, Statuses, Modes
<1>32. ASSUME NEW e \in Execs, LaunchCommand(e)
      PROVE  TypeOK'
  BY <1>32, LaunchCommandTypes
<1>33. ASSUME NEW e \in Execs, Finish(e)
      PROVE  TypeOK'
  BY <1>33, SMTT(30) DEF Finish, TypeOK, Alive, Requests, ExecEnded, Statuses, Modes
<1>34. ASSUME NEW e \in Execs, ExecStarted(e)
      PROVE  TypeOK'
  BY <1>34, ExecStartedTypes
<1>35. ASSUME NEW e \in Execs, Poll(e)
      PROVE  TypeOK'
  BY <1>35, PollTypes
<1>36. ASSUME NEW e \in Execs, StillRunning(e)
      PROVE  TypeOK'
  BY <1>36, SMTT(30) DEF StillRunning, Answers, TypeOK, Alive, Requests, ExecEnded,
                         Statuses, Modes
<1>37. ASSUME NEW e \in Execs, RunSucceeded(e)
      PROVE  TypeOK'
  BY <1>37, RunSucceededTypes
<1>38. ASSUME NEW e \in Execs, RunFailed(e)
      PROVE  TypeOK'
  BY <1>38, RunFailedTypes
<1>39. ASSUME NEW e \in Execs, StartFailed(e)
      PROVE  TypeOK'
  BY <1>39, StartFailedTypes
<1>40. ASSUME NEW e \in Execs, Cancel(e)
      PROVE  TypeOK'
  BY <1>40, SMTT(30) DEF Cancel, ExecBecomes, StopsClock, Trouble, TypeOK, Alive, Requests,
                         ExecEnded, Statuses, Modes
<1>4a. ASSUME NEW e \in Execs, WakeArrives(e)
       PROVE  TypeOK'
  BY <1>4a, WakeArrivesTypes
<1>4b. ASSUME NEW e \in Execs, HeartbeatArrives(e)
       PROVE  TypeOK'
  BY <1>4b, HeartbeatArrivesTypes
<1>41. ASSUME Tick
      PROVE  TypeOK'
  BY <1>41, SMTT(30) DEF Tick, Due, Waits, TypeOK, Alive, Requests, ExecEnded, Statuses,
                         Modes
<1>42. ASSUME Outage
      PROVE  TypeOK'
  BY <1>42, OutageTypes
<1>43. ASSUME NEW x \in Polled, PassDeadline(x)
      PROVE  TypeOK'
  BY <1>43, SMTT(30) DEF PassDeadline, TypeOK, Alive, Requests, ExecEnded, Statuses, Modes
<1>44. ASSUME NEW r \in Computers, RowStep(r)
      PROVE  TypeOK'
  BY <1>44, <1>1, <1>2, <1>3, <1>4, <1>5, <1>6, <1>7, <1>8, <1>9, <1>10, <1>11, <1>12,
     <1>13, <1>14, <1>15, <1>16, <1>17
     DEF RowStep
<1>45. ASSUME NEW c \in Children, ChildStep(c)
      PROVE  TypeOK'
  BY <1>45, <1>18, <1>19, <1>20, <1>21, <1>22, <1>23, <1>24, <1>25, <1>26, <1>27, <1>28
     DEF ChildStep, JobNext
<1>46. ASSUME NEW e \in Execs, ExecStep(e)
      PROVE  TypeOK'
  BY <1>46, <1>29, <1>30, <1>31, <1>32, <1>33, <1>34, <1>35, <1>36, <1>37, <1>38, <1>39,
     <1>40, <1>4a, <1>4b
     DEF ExecStep
<1> QED
  BY <1>44, <1>45, <1>46, <1>41, <1>42, <1>43 DEF Next

\* Every reachable state is well typed: Compute's variables have values of their kinds,
\* whatever calls fail and however people intervene.
THEOREM TypeCorrect == Spec => []TypeOK
<1>1. TypeOK /\ [Next]_vars => TypeOK'
  <2> SUFFICES ASSUME TypeOK, [Next]_vars PROVE TypeOK'
    OBVIOUS
  <2>1. CASE Next
    BY <2>1, TypeStep
  <2>2. CASE UNCHANGED vars
    BY <2>2 DEF vars, rows, provider, calls, execs, time, timers, history, TypeOK
  <2> QED
    BY <2>1, <2>2
<1> QED
  BY TypeInit, <1>1, PTL DEF Spec

-----------------------------------------------------------------------------
(***************************************************************************)
(* Rows and sandboxes.  A child that waits for its copy names its source's *)
(* sandbox; in every other status a row names its own, so that a teardown  *)
(* tears down nothing else.  Nothing leads back from Terminating.          *)
(***************************************************************************)
Down == {"Terminating", "Destroyed"}

\* Only the start of a copy asks for it, and it asks before it waits for the answer.
AskedOnce(c) ==
    /\ asked[c] <= 1
    /\ status[c] = "none" => job[c]["Start"] = "idle"
    /\ status[c] = "none" \/ job[c]["Start"] \in {"lookup", "request"} => asked[c] = 0
    /\ job[c]["Reconcile"] # "request"

RowOK(x) ==
    /\ x = Source =>
         /\ status[x] \in {"Created", "Provisioning", "Ready", "Checkpointing", "Sleeping"} \cup Down
         /\ machine[x] \in {Source, None}
         /\ status[x] \in {"Ready", "Checkpointing", "Sleeping"} => machine[x] = Source
    /\ x \in Children =>
         /\ AskedOnce(x)
         /\ status[x] \in Unresolved \cup {"none", "Copying", "Leased"} \cup Down
         /\ status[x] \in Unresolved => machine[x] = Source
         /\ status[x] \in {"Copying", "Leased"} \cup Down => machine[x] = x
    /\ teardown[x] = "idle" <=> status[x] \notin Down
    /\ teardown[x] = "done" => box[x] = "gone" \/ machine[x] = None
    /\ box[x] = "gone" => status[x] \in Down

Rows == \A x \in Computers : RowOK(x)

LEMMA TurnedGone ==
    ASSUME ProviderOK, NEW b, NEW to \in Alive, NEW y \in Computers
    PROVE  Turned(b, to)[y] = "gone" <=> box[y] = "gone"
<1> DEFINE turned == IF box[b] \in Alive THEN to ELSE box[b]
<1>1. Turned(b, to) = [box EXCEPT ![b] = turned]
  BY DEF Turned
<1>2. turned = "gone" <=> box[b] = "gone"
  BY DEF Alive
<1> HIDE DEF turned
<1> QED
  BY <1>1, <1>2 DEF ProviderOK

\* A suspend or a resume tears nothing down.
LEMMA ControlsGone ==
    ASSUME ProviderOK, NEW r, NEW q, NEW failure, NEW to \in Alive, NEW y \in Computers,
           Controls(r, q, failure, to)
    PROVE  UNCHANGED <<status, machine, teardown, asked, job>> /\ (box'[y] = "gone" <=> box[y] = "gone")
<1>1. UNCHANGED <<status, machine, teardown, asked, job>>
  BY DEF Controls, rows
<1>2. box' = box \/ box' = Turned(machine[r], to)
  BY DEF Controls
<1>3. Turned(machine[r], to)[y] = "gone" <=> box[y] = "gone"
  BY TurnedGone
<1> QED
  BY <1>1, <1>2, <1>3

LEMMA RowsInit == Init => Rows
<1> SUFFICES ASSUME Init, NEW x \in Computers PROVE RowOK(x)
  BY DEF Rows
<1>1. /\ status[x] = (IF x = Source THEN "Created" ELSE "none") /\ machine[x] = None
      /\ teardown[x] = "idle" /\ box[x] = (IF x = Source THEN "up" ELSE "none")
  BY DEF Init
<1>2. x \in Children => asked[x] = 0 /\ \A m \in Modes : job[x][m] = "idle"
  BY DEF Init
<1> QED
  BY <1>1, <1>2, Names, SMTT(30) DEF RowOK, AskedOnce, Modes, Down, Unresolved

LEMMA RowsStep ==
    ASSUME TypeOK, Rows, ~ByHand, Next
    PROVE  Rows'
<1> SUFFICES ASSUME NEW y \in Computers PROVE RowOK(y)'
  BY DEF Rows
<1>0. RowOK(y) /\ RowOK(Source) /\ RowsOK /\ CallsOK /\ ProviderOK
  BY Names, TypeParts DEF Rows
<1> USE Names DEF rows, provider, calls, execs, timers, time, history
<1>1. ASSUME NEW r \in Computers, Provision(r)
      PROVE  RowOK(y)'
  BY <1>1, <1>0, SMTT(30) DEF Provision, Becomes, RowOK, AskedOnce, Modes, Down, Unresolved,
          RowsOK, CallsOK, ProviderOK
<1>2. ASSUME NEW r \in Computers, ProvisionComplete(r)
      PROVE  RowOK(y)'
  BY <1>2, <1>0, SMTT(30) DEF ProvisionComplete, Becomes, RecordedByHand, RowOK, AskedOnce, Modes,
          Down, Unresolved, RowsOK, CallsOK, ProviderOK
<1>3. ASSUME NEW r \in Computers, ProvisionFailed(r)
      PROVE  RowOK(y)'
  BY <1>3, <1>0, SMTT(30) DEF ProvisionFailed, Becomes, RecordedByHand, RowOK, AskedOnce, Modes,
          Down, Unresolved, RowsOK, CallsOK, ProviderOK
<1>4. ASSUME NEW r \in Computers, Checkpoint(r)
      PROVE  RowOK(y)'
  BY <1>4, <1>0, SMTT(30) DEF Checkpoint, Becomes, Trouble, RowOK, AskedOnce, Modes, Down,
          Unresolved, RowsOK, CallsOK, ProviderOK
<1>5. ASSUME NEW r \in Computers, CheckpointComplete(r)
      PROVE  RowOK(y)'
  BY <1>5, <1>0, SMTT(30) DEF CheckpointComplete, Becomes, RowOK, AskedOnce, Modes, Down,
          Unresolved, RowsOK, CallsOK, ProviderOK
<1>6. ASSUME NEW r \in Computers, Sleep(r)
      PROVE  RowOK(y)'
  BY <1>6, <1>0, SMTT(30) DEF Sleep, Sleeps, Becomes, Requested, Blurs, Trouble, RowOK, AskedOnce,
          Modes, Down, Unresolved, RowsOK, CallsOK, ProviderOK
<1>7. ASSUME NEW r \in Computers, SleepTimeout(r)
      PROVE  RowOK(y)'
  BY <1>7, <1>0, SMTT(30) DEF SleepTimeout, Sleeps, Becomes, Requested, Blurs, NoTrouble, RowOK,
          AskedOnce, Modes, Down, Unresolved, RowsOK, CallsOK, ProviderOK
<1>8. ASSUME NEW r \in Computers, Suspend(r)
      PROVE  RowOK(y)'
  <2>1. UNCHANGED <<status, machine, teardown, asked, job>> /\ (box'[y] = "gone" <=> box[y] = "gone")
    BY <1>0, <1>8, ControlsGone DEF Suspend, Alive
  <2> QED
    BY <2>1, <1>0 DEF RowOK, AskedOnce
<1>9. ASSUME NEW r \in Computers, SleepFailed(r)
      PROVE  RowOK(y)'
  BY <1>9, <1>0, SMTT(30) DEF SleepFailed, Answered, Becomes, RowOK, AskedOnce, Modes, Down,
          Unresolved, RowsOK, CallsOK, ProviderOK
<1>10. ASSUME NEW r \in Computers, Wake(r)
      PROVE  RowOK(y)'
  BY <1>10, <1>0, SMTT(30) DEF Wake, CanWake, Wakes, Becomes, Requested, Blurs, Trouble, RowOK,
          AskedOnce, Modes, Down, Unresolved, RowsOK, CallsOK, ProviderOK
<1>11. ASSUME NEW r \in Computers, Resume(r)
      PROVE  RowOK(y)'
  <2>1. UNCHANGED <<status, machine, teardown, asked, job>> /\ (box'[y] = "gone" <=> box[y] = "gone")
    BY <1>0, <1>11, ControlsGone DEF Resume, Alive
  <2> QED
    BY <2>1, <1>0 DEF RowOK, AskedOnce
<1>12. ASSUME NEW r \in Computers, WakeFailed(r)
      PROVE  RowOK(y)'
  BY <1>12, <1>0, SMTT(30) DEF WakeFailed, Answered, Becomes, Blurs, RowOK, AskedOnce, Modes,
          Down, Unresolved, RowsOK, CallsOK, ProviderOK
<1>13. ASSUME NEW r \in Computers, Destroy(r)
      PROVE  RowOK(y)'
  BY <1>13, <1>0, SMTT(30) DEF Destroy, Destroys, Destroyable, Terminates, Becomes, StopsClock,
          Trouble, RowOK, AskedOnce, Modes, Down, Unresolved, RowsOK, CallsOK, ProviderOK
<1>14. ASSUME NEW r \in Computers, LeaseTimeout(r)
      PROVE  RowOK(y)'
  BY <1>14, <1>0, SMTT(30) DEF LeaseTimeout, Destroys, Destroyable, Terminates, Becomes,
          StopsClock, NoTrouble, RowOK, AskedOnce, Modes, Down, Unresolved, RowsOK, CallsOK,
          ProviderOK
<1>15. ASSUME NEW r \in Computers, Terminate(r)
      PROVE  RowOK(y)'
  BY <1>15, <1>0, SMTT(30) DEF Terminate, Trouble, NoTrouble, RowOK, AskedOnce, Modes, Down,
          Unresolved, RowsOK, CallsOK, ProviderOK, Rows
<1>16. ASSUME NEW r \in Computers, TerminateComplete(r)
      PROVE  RowOK(y)'
  BY <1>16, <1>0, SMTT(30) DEF TerminateComplete, Becomes, RowOK, AskedOnce, Modes, Down,
          Unresolved, RowsOK, CallsOK, ProviderOK
<1>17. ASSUME NEW c \in Children, Copy(c)
      PROVE  RowOK(y)'
  BY <1>17, <1>0, SMTT(30) DEF Copy, Works, RowOK, AskedOnce, Modes, Down, Unresolved, RowsOK,
          CallsOK, ProviderOK
<1>18. ASSUME NEW c \in Children, ReconcileCopy(c)
      PROVE  RowOK(y)'
  BY <1>18, <1>0, SMTT(30) DEF ReconcileCopy, Working, Works, RowOK, AskedOnce, Modes, Down,
          Unresolved, RowsOK, CallsOK, ProviderOK
<1>19. ASSUME NEW c \in Children, MakeCopy(c)
      PROVE  RowOK(y)'
  BY <1>19, <1>0, SMTT(30) DEF MakeCopy, RowOK, AskedOnce, Modes, Down, Unresolved, RowsOK,
          CallsOK, ProviderOK
<1>20. ASSUME NEW c \in Children, Boot(c)
      PROVE  RowOK(y)'
  BY <1>20, <1>0, SMTT(30) DEF Boot, RowOK, AskedOnce, Modes, Down, Unresolved, RowsOK, CallsOK,
          ProviderOK
<1>21. ASSUME NEW c \in Children, CopyComplete(c)
      PROVE  RowOK(y)'
  BY <1>21, <1>0, SMTT(30) DEF CopyComplete, Answers, Becomes, StopsClock, RowOK, AskedOnce,
          Modes, Down, Unresolved, RowsOK, CallsOK, ProviderOK
<1>22. ASSUME NEW c \in Children, CopyExpired(c)
      PROVE  RowOK(y)'
  BY <1>22, <1>0, SMTT(30) DEF CopyExpired, Answers, Terminates, Becomes, StopsClock, RowOK,
          AskedOnce, Modes, Down, Unresolved, RowsOK, CallsOK, ProviderOK
<1>23. ASSUME NEW c \in Children, NEW m \in Modes, Lookup(c, m)
      PROVE  RowOK(y)'
  BY <1>23, <1>0, SMTT(30) DEF Lookup, JobStep, Working, Works, Finds, FindsNot, CopyStarted,
          CopyFailed, Becomes, RearmsClock, MayRequest, Trouble, NoTrouble, Unresolved,
          RowOK, AskedOnce, Modes, Down, Unresolved, RowsOK, CallsOK, ProviderOK
<1>24. ASSUME NEW c \in Children, NEW m \in Modes, Request(c, m)
      PROVE  RowOK(y)'
  BY <1>24, <1>0, SMTT(30) DEF Request, JobStep, Working, Works, CopyFailed, Becomes, Trouble,
          NoTrouble, Unresolved, RowOK, AskedOnce, Modes, Down, Unresolved, RowsOK, CallsOK,
          ProviderOK
<1>25. ASSUME NEW c \in Children, NEW m \in Modes, Answer(c, m)
      PROVE  RowOK(y)'
  BY <1>25, <1>0, SMTT(30) DEF Answer, JobStep, Working, Works, Finds, FindsNot, CopyStarted,
          CopyFailed, Becomes, RearmsClock, Trouble, NoTrouble, Unresolved, RowOK,
          AskedOnce, Modes, Down, Unresolved, RowsOK, CallsOK, ProviderOK
<1>26. ASSUME NEW e \in Execs, ResumeSandbox(e)
      PROVE  RowOK(y)'
  <2>1. UNCHANGED <<status, machine, teardown, asked, job>> /\ (box'[y] = "gone" <=> box[y] = "gone")
    BY <1>0, <1>26, TurnedGone DEF ResumeSandbox, Alive, rows
  <2> QED
    BY <2>1, <1>0 DEF RowOK, AskedOnce
<1>27. ASSUME NEW e \in Execs, WakeArrives(e)
      PROVE  RowOK(y)'
  BY <1>27, <1>0, SMTT(30) DEF WakeArrives, Arrives, CanWake, Wakes, Becomes, Requested, Blurs,
          RowOK, AskedOnce, Modes, Down, Unresolved, RowsOK, CallsOK, ProviderOK
<1>28. ASSUME Outage
      PROVE  RowOK(y)'
  BY <1>28, <1>0, SMTT(30) DEF Outage, Trouble, RowOK, AskedOnce, Modes, Down, Unresolved, RowsOK,
          CallsOK, ProviderOK
<1>29. ASSUME NEW r \in Computers, RowStep(r)
      PROVE  RowOK(y)'
  <2>1. CASE Heartbeat(r)
    <3>1. UNCHANGED <<status, machine, teardown, box, asked, job>>
      BY <2>1 DEF Heartbeat, rows, provider, calls, execs, timers, time, history
    <3> QED
      BY <3>1, <1>0 DEF RowOK, AskedOnce
  <2> QED
    BY <1>29, <2>1, <1>1, <1>2, <1>3, <1>4, <1>5, <1>6, <1>7, <1>8, <1>9, <1>10, <1>11,
          <1>12, <1>13, <1>14, <1>15, <1>16
       DEF RowStep
<1>30. ASSUME NEW c \in Children, ChildStep(c)
      PROVE  RowOK(y)'
  <2>1. CASE CopyPoll(c) \/ CopyPending(c)
    <3>1. UNCHANGED <<status, machine, teardown, box, asked, job>>
      BY <2>1 DEF CopyPoll, CopyPending, Works, rows, provider, calls, execs, timers, time,
          history
    <3> QED
      BY <3>1, <1>0 DEF RowOK, AskedOnce
  <2> QED
    BY <1>30, <2>1, <1>17, <1>18, <1>19, <1>20, <1>21, <1>22, <1>23, <1>24, <1>25
       DEF ChildStep, JobNext
<1>31. ASSUME NEW e \in Execs, ExecStep(e)
      PROVE  RowOK(y)'
  <2>1. CASE (\E r \in Computers : Run(e, r)) \/ Fetch(e) \/ LaunchCommand(e) \/ Finish(e) \/
           ExecStarted(e) \/ HeartbeatArrives(e) \/ Poll(e) \/ StillRunning(e) \/ RunSucceeded(e) \/ RunFailed(e) \/ StartFailed(e)
           \/ Cancel(e)
    <3>1. UNCHANGED <<status, machine, teardown, box, asked, job>>
      BY <2>1 DEF Run, Fetch, LaunchCommand, Finish, ExecStarted, HeartbeatArrives, Poll,
          StillRunning, RunSucceeded, RunFailed, StartFailed, Cancel, Launches, rows, provider, calls, execs, timers,
          time, history
    <3> QED
      BY <3>1, <1>0 DEF RowOK, AskedOnce
  <2> QED
    BY <1>31, <2>1, <1>26, <1>27
       DEF ExecStep
<1>32. ASSUME Tick
      PROVE  RowOK(y)'
  <2>1. UNCHANGED <<status, machine, teardown, box, asked, job>>
    BY <1>32 DEF Tick, rows, provider, calls, execs, timers, time, history
  <2> QED
    BY <2>1, <1>0 DEF RowOK, AskedOnce
<1>33. ASSUME NEW x \in Polled, PassDeadline(x)
      PROVE  RowOK(y)'
  <2>1. UNCHANGED <<status, machine, teardown, box, asked, job>>
    BY <1>33 DEF PassDeadline, rows, provider, calls, execs, timers, time, history
  <2> QED
    BY <2>1, <1>0 DEF RowOK, AskedOnce
<1> QED
  BY <1>29, <1>30, <1>31, <1>32, <1>28, <1>33 DEF Next

LEMMA RowsAlways == ~ByHand => (Spec => []Rows)
<1> SUFFICES ASSUME ~ByHand PROVE Spec => []Rows
  OBVIOUS
<1>1. TypeOK /\ Rows /\ [Next]_vars => Rows'
  <2> SUFFICES ASSUME TypeOK, Rows, [Next]_vars PROVE Rows'
    OBVIOUS
  <2>1. CASE Next
    BY <2>1, RowsStep
  <2>2. CASE UNCHANGED vars
    BY <2>2 DEF vars, rows, provider, calls, execs, time, timers, history, Rows, RowOK, AskedOnce
  <2> QED
    BY <2>1, <2>2
<1> QED
  BY RowsInit, <1>1, TypeCorrect, PTL DEF Spec

\* While nobody reports on a child that waits for its copy, no sandbox is torn down but
\* for its own row: no copy takes its source with it, however its request, its answer and
\* its reconciliation interleave, and whatever is lost.
THEOREM TornDown == ~ByHand => (Spec => []TornDownByItsRow)
<1>1. Rows => TornDownByItsRow
  BY DEF Rows, RowOK, TornDownByItsRow, Down
<1> QED
  BY RowsAlways, <1>1, PTL

\* A child has one copy at most, and a sandbox that outlives its row was left by a
\* teardown that failed, was lost or is still running.
THEOREM Accounted == ~ByHand => (Spec => []CopiesAccounted)
<1>1. TypeOK /\ Rows => CopiesAccounted
  <2> SUFFICES ASSUME TypeOK, Rows, NEW c \in Children
               PROVE  /\ asked[c] <= 1
                      /\ status[c] = "Destroyed" /\ box[c] \in Alive => teardown[c] \in {"call", "lost"}
    BY DEF CopiesAccounted
  <2>1. RowOK(c) /\ teardown[c] \in {"idle", "call", "done", "lost"}
    BY Names DEF Rows, TypeOK
  <2> QED
    BY <2>1, Names DEF RowOK, AskedOnce, Down, Alive
<1> QED
  BY RowsAlways, TypeCorrect, <1>1, PTL


-----------------------------------------------------------------------------
(***************************************************************************)
(* The idle timeout.  While a command runs its poll timeout is armed, and  *)
(* its computer is told by a Wake when it starts and by a Heartbeat at     *)
(* each poll, which comes before the computer was idle for two periods.    *)
(***************************************************************************)
\* How long a computer has been idle that is Ready and knows of a running command.
FreshFor(e, r) ==
    /\ exec[e] = "Running" => clock[e] # "off"
    /\ ~outage /\ exec[e] = "Running" /\ "Wake" \in signal[e] => clock[e] = "armed"
    /\ ~outage /\ exec[e] = "Running" /\ target[e] = r /\ status[r] = "Ready" =>
         \/ "Wake" \in signal[e] \/ idle[r] = 0
         \/ idle[r] = 1 /\ (clock[e] = "due" \/ "Heartbeat" \in signal[e])
Fresh == \A e \in Execs, r \in Computers : FreshFor(e, r)

LEMMA FreshStep ==
    ASSUME TypeOK, Fresh, Next
    PROVE  Fresh'
<1> SUFFICES ASSUME NEW f \in Execs, NEW y \in Computers PROVE FreshFor(f, y)'
  BY DEF Fresh
<1>0. FreshFor(f, y) /\ RowsOK /\ ExecsOK /\ ClocksOK /\ (outage \in BOOLEAN)
  BY TypeParts DEF Fresh, HistoryOK
<1> USE Names DEF rows, provider, calls, execs, timers, time, history
<1>1. ASSUME NEW r \in Computers, Provision(r)
      PROVE  FreshFor(f, y)'
  BY <1>1, <1>0, SMTT(30) DEF Provision, Becomes, FreshFor, RowsOK, ExecsOK, ClocksOK, Clocks
<1>2. ASSUME NEW r \in Computers, ProvisionComplete(r)
      PROVE  FreshFor(f, y)'
  BY <1>2, <1>0, SMTT(30) DEF ProvisionComplete, Becomes, RecordedByHand, FreshFor, RowsOK,
          ExecsOK, ClocksOK, Clocks
<1>3. ASSUME NEW r \in Computers, ProvisionFailed(r)
      PROVE  FreshFor(f, y)'
  BY <1>3, <1>0, SMTT(30) DEF ProvisionFailed, Becomes, RecordedByHand, FreshFor, RowsOK, ExecsOK,
          ClocksOK, Clocks
<1>4. ASSUME NEW r \in Computers, Checkpoint(r)
      PROVE  FreshFor(f, y)'
  BY <1>4, <1>0, SMTT(30) DEF Checkpoint, Becomes, Trouble, FreshFor, RowsOK, ExecsOK, ClocksOK,
          Clocks
<1>5. ASSUME NEW r \in Computers, CheckpointComplete(r)
      PROVE  FreshFor(f, y)'
  BY <1>5, <1>0, SMTT(30) DEF CheckpointComplete, Becomes, FreshFor, RowsOK, ExecsOK, ClocksOK,
          Clocks
<1>6. ASSUME NEW r \in Computers, Sleep(r)
      PROVE  FreshFor(f, y)'
  BY <1>6, <1>0, SMTT(30) DEF Sleep, Sleeps, Becomes, Requested, Blurs, Trouble, FreshFor, RowsOK,
          ExecsOK, ClocksOK, Clocks
<1>7. ASSUME NEW r \in Computers, SleepTimeout(r)
      PROVE  FreshFor(f, y)'
  BY <1>7, <1>0, SMTT(30) DEF SleepTimeout, Sleeps, Becomes, Requested, Blurs, NoTrouble,
          FreshFor, RowsOK, ExecsOK, ClocksOK, Clocks
<1>8. ASSUME NEW r \in Computers, SleepFailed(r)
      PROVE  FreshFor(f, y)'
  BY <1>8, <1>0, SMTT(30) DEF SleepFailed, Answered, Becomes, FreshFor, RowsOK, ExecsOK, ClocksOK,
          Clocks
<1>9. ASSUME NEW r \in Computers, Wake(r)
      PROVE  FreshFor(f, y)'
  BY <1>9, <1>0, SMTT(30) DEF Wake, CanWake, Wakes, Becomes, Requested, Blurs, Trouble, FreshFor,
          RowsOK, ExecsOK, ClocksOK, Clocks
<1>10. ASSUME NEW r \in Computers, WakeFailed(r)
      PROVE  FreshFor(f, y)'
  BY <1>10, <1>0, SMTT(30) DEF WakeFailed, Answered, Becomes, Blurs, FreshFor, RowsOK, ExecsOK,
          ClocksOK, Clocks
<1>11. ASSUME NEW r \in Computers, Heartbeat(r)
      PROVE  FreshFor(f, y)'
  BY <1>11, <1>0, SMTT(30) DEF Heartbeat, Renewed, FreshFor, RowsOK, ExecsOK, ClocksOK, Clocks
<1>12. ASSUME NEW r \in Computers, Destroy(r)
      PROVE  FreshFor(f, y)'
  BY <1>12, <1>0, SMTT(30) DEF Destroy, Destroys, Destroyable, Terminates, Becomes, StopsClock,
          Trouble, FreshFor, RowsOK, ExecsOK, ClocksOK, Clocks
<1>13. ASSUME NEW r \in Computers, LeaseTimeout(r)
      PROVE  FreshFor(f, y)'
  BY <1>13, <1>0, SMTT(30) DEF LeaseTimeout, Destroys, Destroyable, Terminates, Becomes,
          StopsClock, NoTrouble, FreshFor, RowsOK, ExecsOK, ClocksOK, Clocks
<1>14. ASSUME NEW r \in Computers, TerminateComplete(r)
      PROVE  FreshFor(f, y)'
  BY <1>14, <1>0, SMTT(30) DEF TerminateComplete, Becomes, FreshFor, RowsOK, ExecsOK, ClocksOK,
          Clocks
<1>15. ASSUME NEW c \in Children, Copy(c)
      PROVE  FreshFor(f, y)'
  BY <1>15, <1>0, SMTT(30) DEF Copy, Works, FreshFor, RowsOK, ExecsOK, ClocksOK, Clocks
<1>16. ASSUME NEW c \in Children, CopyPoll(c)
      PROVE  FreshFor(f, y)'
  BY <1>16, <1>0, SMTT(30) DEF CopyPoll, Due, RearmsClock, Polls, FreshFor, RowsOK, ExecsOK,
          ClocksOK, Clocks
<1>17. ASSUME NEW c \in Children, CopyComplete(c)
      PROVE  FreshFor(f, y)'
  BY <1>17, <1>0, SMTT(30) DEF CopyComplete, Answers, Becomes, StopsClock, FreshFor, RowsOK,
          ExecsOK, ClocksOK, Clocks
<1>18. ASSUME NEW c \in Children, CopyExpired(c)
      PROVE  FreshFor(f, y)'
  BY <1>18, <1>0, SMTT(30) DEF CopyExpired, Answers, Terminates, Becomes, StopsClock, FreshFor,
          RowsOK, ExecsOK, ClocksOK, Clocks
<1>19. ASSUME NEW c \in Children, NEW m \in Modes, Lookup(c, m)
      PROVE  FreshFor(f, y)'
  BY <1>19, <1>0, SMTT(30) DEF Lookup, JobStep, Working, Works, Finds, FindsNot, CopyStarted,
          CopyFailed, Becomes, RearmsClock, MayRequest, Trouble, NoTrouble, Unresolved,
          FreshFor, RowsOK, ExecsOK, ClocksOK, Clocks
<1>20. ASSUME NEW c \in Children, NEW m \in Modes, Request(c, m)
      PROVE  FreshFor(f, y)'
  BY <1>20, <1>0, SMTT(30) DEF Request, JobStep, Working, Works, CopyFailed, Becomes, Trouble,
          NoTrouble, Unresolved, FreshFor, RowsOK, ExecsOK, ClocksOK, Clocks
<1>21. ASSUME NEW c \in Children, NEW m \in Modes, Answer(c, m)
      PROVE  FreshFor(f, y)'
  BY <1>21, <1>0, SMTT(30) DEF Answer, JobStep, Working, Works, Finds, FindsNot, CopyStarted,
          CopyFailed, Becomes, RearmsClock, Trouble, NoTrouble, Unresolved, FreshFor,
          RowsOK, ExecsOK, ClocksOK, Clocks
<1>22. ASSUME NEW e \in Execs, NEW r \in Computers, Run(e, r)
      PROVE  FreshFor(f, y)'
  BY <1>22, <1>0, SMTT(30) DEF Run, ExecBecomes, Launches, FreshFor, RowsOK, ExecsOK, ClocksOK,
          Clocks
<1>23. ASSUME NEW e \in Execs, ExecStarted(e)
      PROVE  FreshFor(f, y)'
  BY <1>23, <1>0, SMTT(30) DEF ExecStarted, Launching, Launches, ExecBecomes, RearmsClock, Sends, FreshFor, RowsOK, ExecsOK, ClocksOK, Clocks
<1>2a. ASSUME NEW e \in Execs, WakeArrives(e)
      PROVE  FreshFor(f, y)'
  BY <1>2a, <1>0, SMTT(30) DEF WakeArrives, Arrives, CanWake, Wakes, Becomes, Requested, FreshFor, RowsOK, ExecsOK, ClocksOK, Clocks
<1>2b. ASSUME NEW e \in Execs, HeartbeatArrives(e)
      PROVE  FreshFor(f, y)'
  BY <1>2b, <1>0, SMTT(30) DEF HeartbeatArrives, Arrives, Renewed, FreshFor, RowsOK, ExecsOK, ClocksOK, Clocks
<1>24. ASSUME NEW e \in Execs, Poll(e)
      PROVE  FreshFor(f, y)'
  BY <1>24, <1>0, SMTT(30) DEF Poll, Due, RearmsClock, Polls, Sends, FreshFor, RowsOK, ExecsOK, ClocksOK, Clocks
<1>25. ASSUME NEW e \in Execs, RunSucceeded(e)
      PROVE  FreshFor(f, y)'
  BY <1>25, <1>0, SMTT(30) DEF RunSucceeded, Answers, Ends, ExecBecomes, StopsClock, Sends, FreshFor, RowsOK, ExecsOK, ClocksOK, Clocks
<1>26. ASSUME NEW e \in Execs, RunFailed(e)
      PROVE  FreshFor(f, y)'
  BY <1>26, <1>0, SMTT(30) DEF RunFailed, Answers, Ends, ExecBecomes, StopsClock, Sends, FreshFor, RowsOK, ExecsOK, ClocksOK, Clocks
<1>27. ASSUME NEW e \in Execs, StartFailed(e)
      PROVE  FreshFor(f, y)'
  BY <1>27, <1>0, SMTT(30) DEF StartFailed, Ends, ExecBecomes, StopsClock, Sends, FreshFor, RowsOK, ExecsOK, ClocksOK, Clocks
<1>28. ASSUME NEW e \in Execs, Cancel(e)
      PROVE  FreshFor(f, y)'
  BY <1>28, <1>0, SMTT(30) DEF Cancel, ExecBecomes, StopsClock, Trouble, FreshFor, RowsOK,
          ExecsOK, ClocksOK, Clocks
<1>29. ASSUME Tick
      PROVE  FreshFor(f, y)'
  BY <1>29, <1>0, SMTT(30) DEF Tick, Due, Waits, FreshFor, RowsOK, ExecsOK, ClocksOK, Clocks
<1>30. ASSUME Outage
      PROVE  FreshFor(f, y)'
  BY <1>30, <1>0, SMTT(30) DEF Outage, Trouble, FreshFor, RowsOK, ExecsOK, ClocksOK, Clocks
<1>31. ASSUME NEW r \in Computers, RowStep(r)
      PROVE  FreshFor(f, y)'
  <2>1. CASE Suspend(r) \/ Resume(r) \/ Terminate(r)
    <3>1. UNCHANGED <<status, idle, exec, target, signal, clock, outage>>
      BY <2>1 DEF Suspend, Resume, Terminate, Controls, rows, provider, calls, execs,
          timers, time, history
    <3> QED
      BY <3>1, <1>0 DEF FreshFor
  <2> QED
    BY <1>31, <2>1, <1>1, <1>2, <1>3, <1>4, <1>5, <1>6, <1>7, <1>8, <1>9, <1>10, <1>11,
          <1>12, <1>13, <1>14
       DEF RowStep
<1>32. ASSUME NEW c \in Children, ChildStep(c)
      PROVE  FreshFor(f, y)'
  <2>1. CASE ReconcileCopy(c) \/ MakeCopy(c) \/ Boot(c) \/ CopyPending(c)
    <3>1. UNCHANGED <<status, idle, exec, target, signal, clock, outage>>
      BY <2>1 DEF ReconcileCopy, MakeCopy, Boot, CopyPending, Works, rows, provider, calls,
          execs, timers, time, history
    <3> QED
      BY <3>1, <1>0 DEF FreshFor
  <2> QED
    BY <1>32, <2>1, <1>15, <1>16, <1>17, <1>18, <1>19, <1>20, <1>21
       DEF ChildStep, JobNext
<1>33. ASSUME NEW e \in Execs, ExecStep(e)
      PROVE  FreshFor(f, y)'
  <2>1. CASE Fetch(e) \/ ResumeSandbox(e) \/ LaunchCommand(e) \/ Finish(e) \/ StillRunning(e)
    <3>1. UNCHANGED <<status, idle, exec, target, signal, clock, outage>>
      BY <2>1 DEF Fetch, ResumeSandbox, LaunchCommand, Finish, StillRunning, Launches, rows,
          provider, calls, execs, timers, time, history
    <3> QED
      BY <3>1, <1>0 DEF FreshFor
  <2> QED
    BY <1>33, <2>1, <1>22, <1>23, <1>2a, <1>2b, <1>24, <1>25, <1>26, <1>27, <1>28
       DEF ExecStep
<1>34. ASSUME NEW x \in Polled, PassDeadline(x)
      PROVE  FreshFor(f, y)'
  <2>1. UNCHANGED <<status, idle, exec, target, signal, clock, outage>>
    BY <1>34 DEF PassDeadline, rows, provider, calls, execs, timers, time, history
  <2> QED
    BY <2>1, <1>0 DEF FreshFor
<1> QED
  BY <1>31, <1>32, <1>33, <1>29, <1>30, <1>34 DEF Next

\* For any number of commands, the idle timeout does not put a computer to sleep from when the
\* Wake of a command's ExecStarted has reached it to the end of the command's row, but when an
\* outage made timeouts late.  It says nothing of a command that was launched and whose row is
\* still Starting, or whose Wake is on its way: that one may be suspended.
THEOREM SparesRunning == Spec => SleepSparesRunning
<1>1. Init => Fresh
  BY DEF Init, Fresh, FreshFor
<1>2. TypeOK /\ Fresh /\ [Next]_vars => Fresh'
  <2> SUFFICES ASSUME TypeOK, Fresh, [Next]_vars PROVE Fresh'
    OBVIOUS
  <2>1. CASE Next
    BY <2>1, FreshStep
  <2>2. CASE UNCHANGED vars
    BY <2>2 DEF vars, rows, provider, calls, execs, time, timers, history, Fresh, FreshFor
  <2> QED
    BY <2>1, <2>2
<1>3. ASSUME Fresh, NEW r \in Computers, SleepTimeout(r), ~outage,
             NEW e \in Execs, exec[e] = "Running", target[e] = r
      PROVE  "Wake" \in signal[e]
  <2>1. FreshFor(e, r) /\ status[r] = "Ready" /\ idle[r] = SleepAfter /\ SleepAfter \in Nat \ {0, 1}
    BY <1>3, ComputeBounds DEF Fresh, SleepTimeout, Sleeps
  <2> QED
    BY <1>3, <2>1, SMT DEF FreshFor
<1>4. Fresh => [\A r \in Computers :
                  SleepTimeout(r) /\ ~outage =>
                      \A e \in Execs : exec[e] = "Running" /\ target[e] = r => "Wake" \in signal[e]]_vars
  BY <1>3
<1> QED
  BY <1>1, <1>2, <1>4, TypeCorrect, PTL DEF Spec, SleepSparesRunning


-----------------------------------------------------------------------------
(***************************************************************************)
(* Sleep and wake.  Only the source is put to sleep.  While no request or  *)
(* answer of its was lost or overlapped there is at most one, and it is    *)
(* one that its status expects.                                            *)
(***************************************************************************)
Expected ==
    /\ status[Source] \in {"Created", "Provisioning"} => control[Source] = {}
    /\ status[Source] \in {"Ready", "Checkpointing"} => control[Source] \in {{}, {"resume"}, {"resume_failed"}}
    /\ status[Source] = "Sleeping" => control[Source] \in {{}, {"suspend"}, {"suspend_failed"}}
SourceIsUp ==
    \/ status[Source] \in Down \/ box[Source] = "up"
    \/ status[Source] = "Sleeping" /\ control[Source] = {}
    \/ status[Source] # "Sleeping" /\ control[Source] # {}
Awake ==
    /\ \A c \in Children : control[c] = {}
    /\ box[Source] \in {"up", "suspended", "gone"}
    /\ ~blurred[Source] => Expected /\ SourceIsUp

\* What a step did that leaves the source unblurred.
LEMMA BlursUp ==
    ASSUME blurred \in [Computers -> BOOLEAN], NEW r \in Computers, NEW h \in BOOLEAN, Blurs(r, h),
           ~blurred'[Source]
    PROVE  ~blurred[Source] /\ (r = Source => ~h)
<1> DEFINE b == blurred[r] \/ h
<1>1. b \in BOOLEAN
  OBVIOUS
<1>2. blurred' = [blurred EXCEPT ![r] = b]
  BY DEF Blurs
<1>3. (r = Source => blurred'[Source] = b) /\ (r # Source => blurred'[Source] = blurred[Source])
  <2> HIDE DEF b
  <2> QED
    BY <1>1, <1>2, Names
<1> QED
  BY <1>3

LEMMA TurnedUp ==
    ASSUME ProviderOK, NEW b, NEW to \in Alive, to # "booting", box[Source] \in {"up", "suspended", "gone"}
    PROVE  /\ Turned(b, to)[Source] \in {"up", "suspended", "gone"}
           /\ to = "up" \/ b # Source => (box[Source] = "up" => Turned(b, to)[Source] = "up")
           /\ to = "up" /\ b = Source /\ box[Source] # "gone" => Turned(b, to)[Source] = "up"
<1> DEFINE turned == IF box[b] \in Alive THEN to ELSE box[b]
<1>1. Turned(b, to) = [box EXCEPT ![b] = turned]
  BY DEF Turned
<1>2. b = Source => turned = IF box[Source] # "gone" THEN to ELSE "gone"
  BY DEF Alive
<1>3. b = Source => Turned(b, to)[Source] = turned
  <2> HIDE DEF turned
  <2> QED
    BY <1>1, Names DEF ProviderOK
<1>4. b # Source => Turned(b, to)[Source] = box[Source]
  <2> HIDE DEF turned
  <2> QED
    BY <1>1, Names DEF ProviderOK
<1> QED
  BY <1>2, <1>3, <1>4 DEF Alive

\* A request that leaves the source unblurred is the only one.
LEMMA RequestedOnce ==
    ASSUME TypeOK, NEW r \in Computers, NEW q \in Requests, Requested(r, q), ~blurred'[Source]
    PROVE  /\ ~blurred[Source]
           /\ r = Source => control[Source] = {} /\ control'[Source] = {q}
           /\ r # Source => control'[Source] = control[Source]
<1>1. /\ control' = [control EXCEPT ![r] = control[r] \cup {q}]
      /\ Blurs(r, control[r] # {})
  BY DEF Requested
<1>2. ~blurred[Source] /\ (r = Source => control[r] = {})
  BY <1>1, BlursUp DEF TypeOK
<1>3. control'[Source] = IF r = Source THEN control[r] \cup {q} ELSE control[Source]
  BY <1>1, Names DEF TypeOK
<1> QED
  BY <1>2, <1>3

LEMMA RequestedSource ==
    ASSUME TypeOK, NEW q, Requested(Source, q), NEW c \in Children
    PROVE  control'[c] = control[c]
  BY Names DEF Requested, TypeOK

\* A row that has been put to sleep, or can be, or that waits for an answer, is the source's.
LEMMA OnlySource ==
    ASSUME TypeOK, Rows, Awake, NEW r \in Computers,
           status[r] \in {"Ready", "Sleeping"} \/ control[r] # {}
    PROVE  /\ r = Source /\ control \in [Computers -> SUBSET Requests]
           /\ ~blurred[Source] => Expected /\ SourceIsUp
           /\ \A c \in Children : c # Source /\ c \in Computers
           /\ box[Source] \in {"up", "suspended", "gone"}
           /\ status[Source] \in {"Ready", "Checkpointing", "Sleeping"} =>
                machine[Source] = Source /\ box[Source] # "gone"
           /\ status[Source] \in {"Created", "Provisioning", "Ready", "Checkpointing", "Sleeping"} \cup Down
<1>1. RowOK(r) /\ RowOK(Source)
  BY Names DEF Rows
<1>2. r = Source
  BY <1>1, Names DEF RowOK, Awake, Unresolved, Down
<1> QED
  BY <1>1, <1>2, Names DEF RowOK, Awake, TypeOK, Down

LEMMA SleepsAwake ==
    ASSUME TypeOK, Rows, Awake, NEW r \in Computers, Sleeps(r)
    PROVE  Awake'
<1>0. r = Source /\ (~blurred[Source] => Expected /\ SourceIsUp)
  BY OnlySource DEF Sleeps
<1>1. box' = box /\ Requested(Source, "suspend") /\ status[Source] = "Ready" /\ status'[Source] = "Sleeping"
  BY <1>0, Names DEF Sleeps, Becomes, TypeOK, provider
<1>2. \A c \in Children : control'[c] = control[c]
  BY <1>1, RequestedSource
<1>3. ~blurred'[Source] => ~blurred[Source] /\ control[Source] = {} /\ control'[Source] = {"suspend"}
  BY <1>1, RequestedOnce, Names DEF Requests
<1> QED
  BY <1>0, <1>1, <1>2, <1>3 DEF Awake, Expected, SourceIsUp, Down

LEMMA WakesAwake ==
    ASSUME TypeOK, Rows, Awake, NEW r \in Computers, CanWake(r), Wakes(r), UNCHANGED box
    PROVE  Awake'
<1>0. r = Source
  BY OnlySource DEF CanWake
<1>1. Requested(Source, "resume") /\ status'[Source] = "Ready"
  BY <1>0, Names DEF Wakes, Becomes, TypeOK
<1>2. \A c \in Children : control'[c] = control[c]
  BY <1>1, RequestedSource
<1>3. ~blurred'[Source] => control'[Source] = {"resume"}
  BY <1>1, RequestedOnce, Names DEF Requests
<1> QED
  BY <1>1, <1>2, <1>3 DEF Awake, Expected, SourceIsUp, Down

LEMMA ControlsAwake ==
    ASSUME TypeOK, Rows, Awake, NEW r \in Computers, NEW q, NEW failure, NEW to, Controls(r, q, failure, to),
           \/ q = "suspend" /\ failure = "suspend_failed" /\ to = "suspended"
           \/ q = "resume" /\ failure = "resume_failed" /\ to = "up"
    PROVE  Awake'
<1>1. q \in control[r] /\ to \in Alive /\ to # "booting" /\ ProviderOK /\ status' = status
  BY TypeParts DEF Controls, Answered, Errs, Alive, rows
<1>2. r = Source /\ (~blurred[Source] => Expected /\ SourceIsUp)
  BY <1>1, OnlySource
<1>3. \A c \in Children : control'[c] = control[c]
  BY <1>1, <1>2, OnlySource DEF Controls, Answered, Errs
<1>4. box'[Source] \in {"up", "suspended", "gone"}
  BY <1>1, <1>2, OnlySource, TurnedUp DEF Controls
<1>5. ASSUME ~blurred'[Source] PROVE (Expected /\ SourceIsUp)'
  <2>1. CASE Answered(r, q) /\ box' = Turned(machine[r], to) /\ UNCHANGED blurred
    <3>1. control'[Source] = control[Source] \ {q} /\ Expected /\ SourceIsUp
      BY <1>2, <1>5, <2>1, Names DEF Answered, TypeOK
    <3>2. CASE status[Source] \in {"Ready", "Checkpointing"}
      <4>1. q = "resume" /\ to = "up" /\ control'[Source] = {}
        BY <1>1, <1>2, <3>1, <3>2 DEF Expected
      <4>2. machine[r] = Source /\ box[Source] # "gone"
        BY <1>1, <1>2, <3>2, OnlySource
      <4>3. box'[Source] = "up"
        BY <1>1, <1>2, <2>1, <4>1, <4>2, TurnedUp, OnlySource
      <4> QED
        BY <1>1, <3>2, <4>1, <4>3 DEF Expected, SourceIsUp
    <3>3. CASE status[Source] = "Sleeping"
      <4>1. control'[Source] = {}
        BY <1>1, <1>2, <3>1, <3>3 DEF Expected
      <4> QED
        BY <1>1, <3>3, <4>1 DEF Expected, SourceIsUp
    <3>4. CASE status[Source] \in {"Created", "Provisioning"}
      BY <1>1, <1>2, <3>1, <3>4 DEF Expected
    <3>5. CASE status[Source] \in Down
      BY <1>1, <3>5 DEF Expected, SourceIsUp, Down
    <3> QED
      BY <1>1, <1>2, <3>2, <3>3, <3>4, <3>5, OnlySource
  <2>2. CASE Errs(r, q, failure) /\ UNCHANGED <<box, blurred>>
    <3>1. control'[Source] = (control[Source] \ {q}) \cup {failure} /\ Expected /\ SourceIsUp
      BY <1>2, <1>5, <2>2, Names DEF Errs, TypeOK
    <3> QED
      BY <1>1, <1>2, <2>2, <3>1 DEF Expected, SourceIsUp, Down
  <2>3. CASE Blurs(r, TRUE)
    BY <1>2, <1>5, <2>3, BlursUp DEF TypeOK
  <2> QED
    BY <2>1, <2>2, <2>3 DEF Controls
<1> QED
  BY <1>3, <1>4, <1>5 DEF Awake

LEMMA WakeFailedAwake ==
    ASSUME TypeOK, Rows, Awake, NEW r \in Computers, WakeFailed(r)
    PROVE  Awake'
<1>0. r = Source /\ "resume_failed" \in control[Source] /\ box' = box
  BY OnlySource DEF WakeFailed, Answered, provider
<1>1. control'[Source] = control[Source] \ {"resume_failed"} /\ \A c \in Children : control'[c] = control[c]
  BY <1>0, OnlySource, Names DEF WakeFailed, Answered
<1>2. CASE status[r] = "Ready"
  <2>1. status'[Source] = "Sleeping" /\ blurred' = blurred
    BY <1>0, <1>2, Names DEF WakeFailed, Becomes, TypeOK
  <2>2. ~blurred[Source] => control'[Source] = {}
    BY <1>0, <1>1, <1>2 DEF Awake, Expected
  <2> QED
    BY <1>0, <1>1, <2>1, <2>2 DEF Awake, Expected, SourceIsUp
<1>3. CASE status[r] # "Ready"
  <2>1. blurred'[Source]
    BY <1>0, <1>3, BlursUp DEF WakeFailed, TypeOK
  <2> QED
    BY <1>0, <1>1, <2>1 DEF Awake
<1> QED
  BY <1>2, <1>3

LEMMA AwakeStep ==
    ASSUME TypeOK, Rows, Awake, ~ByHand, Next
    PROVE  Awake'
<1>0. RowOK(Source) /\ RowsOK /\ CallsOK /\ ProviderOK
  BY Names, TypeParts DEF Rows
<1>a. \A c \in Children : status[c] \notin {"Created", "Ready", "Checkpointing", "Sleeping"}
  BY Names DEF Rows, RowOK, Unresolved, Down
<1> USE Names DEF rows, provider, calls, execs, timers, time, history
<1>1. ASSUME NEW r \in Computers, Provision(r)
      PROVE  Awake'
  BY <1>1, <1>0, <1>a, SMTT(30) DEF Provision, Becomes, Awake, Expected, SourceIsUp, RowOK, Down,
          Unresolved, RowsOK, CallsOK, ProviderOK
<1>2. ASSUME NEW r \in Computers, ProvisionComplete(r)
      PROVE  Awake'
  BY <1>2, <1>0, <1>a, SMTT(30) DEF ProvisionComplete, Becomes, RecordedByHand, Awake, Expected,
          SourceIsUp, RowOK, Down, Unresolved, RowsOK, CallsOK, ProviderOK
<1>3. ASSUME NEW r \in Computers, ProvisionFailed(r)
      PROVE  Awake'
  BY <1>3, <1>0, <1>a, SMTT(30) DEF ProvisionFailed, Becomes, RecordedByHand, Awake, Expected,
          SourceIsUp, RowOK, Down, Unresolved, RowsOK, CallsOK, ProviderOK
<1>4. ASSUME NEW r \in Computers, Checkpoint(r)
      PROVE  Awake'
  BY <1>4, <1>0, <1>a, SMTT(30) DEF Checkpoint, Becomes, Trouble, Awake, Expected, SourceIsUp, RowOK,
          Down, Unresolved, RowsOK, CallsOK, ProviderOK
<1>5. ASSUME NEW r \in Computers, CheckpointComplete(r)
      PROVE  Awake'
  BY <1>5, <1>0, <1>a, SMTT(30) DEF CheckpointComplete, Becomes, Awake, Expected, SourceIsUp, RowOK,
          Down, Unresolved, RowsOK, CallsOK, ProviderOK
<1>6. ASSUME NEW r \in Computers, Sleep(r)
      PROVE  Awake'
  BY <1>6, SleepsAwake DEF Sleep
<1>7. ASSUME NEW r \in Computers, SleepTimeout(r)
      PROVE  Awake'
  BY <1>7, SleepsAwake DEF SleepTimeout
<1>8. ASSUME NEW r \in Computers, Suspend(r)
      PROVE  Awake'
  BY <1>8, ControlsAwake DEF Suspend
<1>9. ASSUME NEW r \in Computers, SleepFailed(r)
      PROVE  Awake'
  BY <1>9, <1>0, <1>a, SMTT(30) DEF SleepFailed, Answered, Becomes, Awake, Expected, SourceIsUp, RowOK,
          Down, Unresolved, RowsOK, CallsOK, ProviderOK
<1>10. ASSUME NEW r \in Computers, Wake(r)
      PROVE  Awake'
  BY <1>10, WakesAwake DEF Wake
<1>11. ASSUME NEW r \in Computers, Resume(r)
      PROVE  Awake'
  BY <1>11, ControlsAwake DEF Resume
<1>12. ASSUME NEW r \in Computers, WakeFailed(r)
      PROVE  Awake'
  BY <1>12, WakeFailedAwake
<1>13. ASSUME NEW r \in Computers, Destroy(r)
      PROVE  Awake'
  BY <1>13, <1>0, <1>a, SMTT(30) DEF Destroy, Destroys, Destroyable, Terminates, Becomes, StopsClock,
          Trouble, Awake, Expected, SourceIsUp, RowOK, Down, Unresolved, RowsOK, CallsOK,
          ProviderOK
<1>14. ASSUME NEW r \in Computers, LeaseTimeout(r)
      PROVE  Awake'
  BY <1>14, <1>0, <1>a, SMTT(30) DEF LeaseTimeout, Destroys, Destroyable, Terminates, Becomes,
          StopsClock, NoTrouble, Awake, Expected, SourceIsUp, RowOK, Down, Unresolved,
          RowsOK, CallsOK, ProviderOK
<1>15. ASSUME NEW r \in Computers, Terminate(r)
      PROVE  Awake'
  BY <1>15, <1>0, <1>a, SMTT(30) DEF Terminate, Trouble, NoTrouble, Awake, Expected, SourceIsUp,
          RowOK, Down, Unresolved, RowsOK, CallsOK, ProviderOK, Rows
<1>16. ASSUME NEW r \in Computers, TerminateComplete(r)
      PROVE  Awake'
  BY <1>16, <1>0, <1>a, SMTT(30) DEF TerminateComplete, Becomes, Awake, Expected, SourceIsUp, RowOK,
          Down, Unresolved, RowsOK, CallsOK, ProviderOK
<1>17. ASSUME NEW c \in Children, Copy(c)
      PROVE  Awake'
  BY <1>17, <1>0, <1>a, SMTT(30) DEF Copy, Works, Awake, Expected, SourceIsUp, RowOK, Down, Unresolved,
          RowsOK, CallsOK, ProviderOK
<1>18. ASSUME NEW c \in Children, MakeCopy(c)
      PROVE  Awake'
  BY <1>18, <1>0, <1>a, SMTT(30) DEF MakeCopy, Awake, Expected, SourceIsUp, RowOK, Down, Unresolved,
          RowsOK, CallsOK, ProviderOK
<1>19. ASSUME NEW c \in Children, Boot(c)
      PROVE  Awake'
  BY <1>19, <1>0, <1>a, SMTT(30) DEF Boot, Awake, Expected, SourceIsUp, RowOK, Down, Unresolved, RowsOK,
          CallsOK, ProviderOK
<1>20. ASSUME NEW c \in Children, CopyComplete(c)
      PROVE  Awake'
  BY <1>20, <1>0, <1>a, SMTT(30) DEF CopyComplete, Answers, Becomes, StopsClock, Awake, Expected,
          SourceIsUp, RowOK, Down, Unresolved, RowsOK, CallsOK, ProviderOK
<1>21. ASSUME NEW c \in Children, CopyExpired(c)
      PROVE  Awake'
  BY <1>21, <1>0, <1>a, SMTT(30) DEF CopyExpired, Answers, Terminates, Becomes, StopsClock, Awake,
          Expected, SourceIsUp, RowOK, Down, Unresolved, RowsOK, CallsOK, ProviderOK
<1>22. ASSUME NEW c \in Children, NEW m \in Modes, Lookup(c, m)
      PROVE  Awake'
  BY <1>22, <1>0, <1>a, SMTT(30) DEF Lookup, JobStep, Working, Works, Finds, FindsNot, CopyStarted,
          CopyFailed, Becomes, RearmsClock, MayRequest, Trouble, NoTrouble, Unresolved,
          Awake, Expected, SourceIsUp, RowOK, Down, Unresolved, RowsOK, CallsOK, ProviderOK
<1>23. ASSUME NEW c \in Children, NEW m \in Modes, Request(c, m)
      PROVE  Awake'
  BY <1>23, <1>0, <1>a, SMTT(30) DEF Request, JobStep, Working, Works, CopyFailed, Becomes, Trouble,
          NoTrouble, Unresolved, Awake, Expected, SourceIsUp, RowOK, Down, Unresolved,
          RowsOK, CallsOK, ProviderOK
<1>24. ASSUME NEW c \in Children, NEW m \in Modes, Answer(c, m)
      PROVE  Awake'
  BY <1>24, <1>0, <1>a, SMTT(30) DEF Answer, JobStep, Working, Works, Finds, FindsNot, CopyStarted,
          CopyFailed, Becomes, RearmsClock, Trouble, NoTrouble, Unresolved, Awake, Expected,
          SourceIsUp, RowOK, Down, Unresolved, RowsOK, CallsOK, ProviderOK
<1>25. ASSUME NEW e \in Execs, ResumeSandbox(e)
      PROVE  Awake'
  BY <1>25, <1>0, <1>a, SMTT(30) DEF ResumeSandbox, Launching, Launches, Turned, Trouble, NoTrouble,
          Awake, Expected, SourceIsUp, RowOK, Down, Unresolved, RowsOK, CallsOK, ProviderOK
<1>26. ASSUME NEW e \in Execs, WakeArrives(e)
      PROVE  Awake'
  <2>1. CASE CanWake(target[e]) /\ Wakes(target[e]) /\ target[e] \in Computers
    BY <1>26, <2>1, WakesAwake DEF WakeArrives
  <2>2. CASE UNCHANGED <<status, control, blurred>>
    <3>1. UNCHANGED <<status, control, box, blurred>>
      BY <1>26, <2>2 DEF WakeArrives
    <3> QED
      BY <3>1 DEF Awake, Expected, SourceIsUp
  <2>3. CASE CanWake(target[e]) /\ Wakes(target[e]) /\ target[e] \notin Computers
    <3>1. UNCHANGED <<status, control, box>> /\ blurred' = blurred
      BY <1>26, <2>3 DEF WakeArrives, Wakes, Becomes, Requested, Blurs, TypeOK
    <3> QED
      BY <3>1 DEF Awake, Expected, SourceIsUp
  <2> QED
    BY <1>26, <2>1, <2>2, <2>3 DEF WakeArrives
<1>27. ASSUME Outage
      PROVE  Awake'
  <2>1. status' = status /\ box' = box /\ \A r \in Computers : control'[r] = {}
    BY <1>27 DEF Outage
  <2>2. blurred'[Source] = (blurred[Source] \/ control[Source] # {})
    BY <1>27 DEF Outage
  <2> QED
    BY <2>1, <2>2 DEF Awake, Expected, SourceIsUp
<1>28. ASSUME NEW r \in Computers, RowStep(r)
      PROVE  Awake'
  <2>1. CASE Heartbeat(r)
    <3>1. UNCHANGED <<status, control, box, blurred>>
      BY <2>1 DEF Heartbeat, rows, provider, calls, execs, timers, time, history
    <3> QED
      BY <3>1, <1>0 DEF Awake, Expected, SourceIsUp
  <2> QED
    BY <1>28, <2>1, <1>1, <1>2, <1>3, <1>4, <1>5, <1>6, <1>7, <1>8, <1>9, <1>10, <1>11,
          <1>12, <1>13, <1>14, <1>15, <1>16
       DEF RowStep
<1>29. ASSUME NEW c \in Children, ChildStep(c)
      PROVE  Awake'
  <2>1. CASE ReconcileCopy(c) \/ CopyPoll(c) \/ CopyPending(c)
    <3>1. UNCHANGED <<status, control, box, blurred>>
      BY <2>1 DEF ReconcileCopy, CopyPoll, CopyPending, Works, rows, provider, calls, execs,
          timers, time, history
    <3> QED
      BY <3>1, <1>0 DEF Awake, Expected, SourceIsUp
  <2> QED
    BY <1>29, <2>1, <1>17, <1>18, <1>19, <1>20, <1>21, <1>22, <1>23, <1>24
       DEF ChildStep, JobNext
<1>30. ASSUME NEW e \in Execs, ExecStep(e)
      PROVE  Awake'
  <2>1. CASE (\E r \in Computers : Run(e, r)) \/ Fetch(e) \/ LaunchCommand(e) \/ Finish(e) \/
           ExecStarted(e) \/ HeartbeatArrives(e) \/ Poll(e) \/ StillRunning(e) \/ RunSucceeded(e) \/ RunFailed(e) \/ StartFailed(e)
           \/ Cancel(e)
    <3>1. UNCHANGED <<status, control, box, blurred>>
      BY <2>1 DEF Run, Fetch, LaunchCommand, Finish, ExecStarted, HeartbeatArrives, Poll,
          StillRunning, RunSucceeded, RunFailed, StartFailed, Cancel, Launches, rows, provider, calls, execs, timers,
          time, history
    <3> QED
      BY <3>1, <1>0 DEF Awake, Expected, SourceIsUp
  <2> QED
    BY <1>30, <2>1, <1>25, <1>26
       DEF ExecStep
<1>31. ASSUME Tick
      PROVE  Awake'
  <2>1. UNCHANGED <<status, control, box, blurred>>
    BY <1>31 DEF Tick, rows, provider, calls, execs, timers, time, history
  <2> QED
    BY <2>1, <1>0 DEF Awake, Expected, SourceIsUp
<1>32. ASSUME NEW x \in Polled, PassDeadline(x)
      PROVE  Awake'
  <2>1. UNCHANGED <<status, control, box, blurred>>
    BY <1>32 DEF PassDeadline, rows, provider, calls, execs, timers, time, history
  <2> QED
    BY <2>1, <1>0 DEF Awake, Expected, SourceIsUp
<1> QED
  BY <1>28, <1>29, <1>30, <1>31, <1>27, <1>32 DEF Next

\* With no suspend or resume in flight a computer that is Ready is up, unless calls overlapped,
\* an answer was lost, an outage lost one, or a failed resume was not heard; while nobody
\* reports on a child that waits for its copy.
THEOREM AwakeWhenReady == ~ByHand => (Spec => []ReadyIsAwake)
<1> SUFFICES ASSUME ~ByHand PROVE Spec => []ReadyIsAwake
  OBVIOUS
<1>1. Init => Awake
  BY Names, SMTT(30) DEF Init, Awake, Expected, SourceIsUp
<1>2. TypeOK /\ Rows /\ Awake /\ [Next]_vars => Awake'
  <2> SUFFICES ASSUME TypeOK, Rows, Awake, [Next]_vars PROVE Awake'
    OBVIOUS
  <2>1. CASE Next
    BY <2>1, AwakeStep
  <2>2. CASE UNCHANGED vars
    BY <2>2 DEF vars, rows, provider, calls, execs, time, timers, history, Awake, Expected, SourceIsUp
  <2> QED
    BY <2>1, <2>2
<1>3. Rows /\ Awake => ReadyIsAwake
  <2> SUFFICES ASSUME Rows, Awake, NEW r \in Computers, status[r] = "Ready", control[r] = {}, ~blurred[r]
               PROVE  box[machine[r]] = "up"
    BY DEF ReadyIsAwake
  <2>1. r = Source /\ machine[r] = Source
    BY Names DEF Rows, RowOK, Unresolved, Down
  <2> QED
    BY <2>1 DEF Awake, SourceIsUp, Down
<1> QED
  BY <1>1, <1>2, <1>3, RowsAlways, TypeCorrect, PTL DEF Spec

==============================================================================
