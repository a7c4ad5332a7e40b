--------------------------- MODULE SteeringProofs ---------------------------
(***************************************************************************)
(* Theorems about Steering, for every number of messages, sessions and     *)
(* invocations, wake-ups, crashes and failing calls.                       *)
(***************************************************************************)
EXTENDS Steering, FiniteSetTheorems, TLAPS

-----------------------------------------------------------------------------
(***************************************************************************)
(* Type correctness, by the variables that actions share.                  *)
(***************************************************************************)
Binding == [active : BOOLEAN, session : SessionId]

SessionsOK == sessions \in [SessionId -> Session]
BindingsOK == bindings \in Seq(Binding)
RoutersOK  == routers \in [Routers -> {Idle} \cup Router]
BooksOK ==
    /\ arrived \in 0..MessageLimit /\ fate \in [Message -> {"none", "routed", "failed"}]
    /\ accepted \subseteq 1..arrived /\ heard \in Seq(Message)
    /\ overwritten \in BOOLEAN /\ serial \in BOOLEAN
InTime ==
    \A r \in Routers : routers[r] # Idle =>
        routers[r].message <= arrived /\ routers[r].binding <= Len(bindings)

\* An invocation that found or started a session knows it.
KnowsSession ==
    \A r \in Routers : routers[r] # Idle /\ routers[r].at \notin {"find", "create"} =>
        routers[r].session \in SessionId

Typed == SessionsOK /\ BindingsOK /\ RoutersOK /\ BooksOK /\ InTime /\ KnowsSession

LEMMA TypeParts == TypeOK <=> SessionsOK /\ BindingsOK /\ RoutersOK /\ BooksOK /\ InTime
  BY DEF TypeOK, SessionsOK, BindingsOK, RoutersOK, BooksOK, InTime, Binding

\* A sequence without one of its elements is a sequence over the same set.
LEMMA RemovedType ==
    ASSUME NEW S, NEW s \in Seq(S), NEW k \in 1..Len(s)
    PROVE  RemoveAt(s, k) \in Seq(S)
<1>1. SubSeq(s, 1, k - 1) \in Seq(S)
  OBVIOUS
<1>2. SubSeq(s, k + 1, Len(s)) \in Seq(S)
  OBVIOUS
<1> QED
  BY <1>1, <1>2 DEF RemoveAt

\* Nor does replacing an element of a sequence change its length.
LEMMA ReplacedType ==
    ASSUME NEW S, NEW s \in Seq(S), NEW k, NEW e, k \in 1..Len(s) => e \in S
    PROVE  [s EXCEPT ![k] = e] \in Seq(S) /\ Len([s EXCEPT ![k] = e]) = Len(s)
<1>1. s \in [1..Len(s) -> S] /\ Len(s) \in Nat
  OBVIOUS
<1>2. [s EXCEPT ![k] = e] \in [1..Len(s) -> S]
  BY <1>1
<1>3. [s EXCEPT ![k] = e] \in Seq(S)
  BY <1>1, <1>2
<1>4. DOMAIN [s EXCEPT ![k] = e] = 1..Len(s)
  BY <1>1
<1> QED
  BY <1>1, <1>3, <1>4

LEMMA NewSessionType == NewSession \in Nat \ {0}
<1>1. IsFiniteSet(SessionId)
  BY FS_Interval, ThreadBounds DEF SessionId
<1>2. Started \subseteq SessionId
  BY DEF Started
<1>3. IsFiniteSet(Started)
  BY <1>1, <1>2, FS_Subset
<1> QED
  BY <1>3, FS_CardinalityType DEF NewSession

LEMMA TypedInit == Init => Typed
<1> SUFFICES ASSUME Init PROVE Typed
  OBVIOUS
<1>1. Unused \in Session
  BY DEF Unused, Session, Reading
<1>2. SessionsOK
  BY <1>1 DEF Init, SessionsOK
<1>3. BindingsOK /\ RoutersOK /\ InTime /\ KnowsSession
  BY DEF Init, BindingsOK, RoutersOK, InTime, KnowsSession
<1>4. BooksOK
  <2>1. 0 \in 0..MessageLimit /\ heard = <<>> /\ heard \in Seq(Message)
    BY ThreadBounds DEF Init
  <2> QED
    BY <2>1 DEF Init, BooksOK
<1> QED
  BY <1>2, <1>3, <1>4 DEF Typed

\* A session that only changes its status, or starts or ends a checker, stays one.
LEMMA StatusType ==
    ASSUME SessionsOK, NEW n, NEW status \in Statuses
    PROVE  [sessions EXCEPT ![n].status = status] \in [SessionId -> Session]
  BY DEF SessionsOK, Session

LEMMA CheckerType ==
    ASSUME SessionsOK, NEW n
    PROVE  StartChecker(n) \in [SessionId -> Session]
<1> SUFFICES ASSUME n \in SessionId
             PROVE  StartChecker(n) \in [SessionId -> Session]
  BY DEF SessionsOK, StartChecker
<1>1. Snapshot(sessions[n]) \in Reading /\ sessions[n].checkers \in Seq(Reading)
  BY DEF SessionsOK, Session, Snapshot, Reading
<1>2. Append(sessions[n].checkers, Snapshot(sessions[n])) \in Seq(Reading)
  BY <1>1
<1> QED
  BY <1>2 DEF SessionsOK, Session, StartChecker, Reading

\* The actions that leave every session as it is.
Reads(r) ==
    \/ FindActiveSession(r) \/ FetchStatus(r) \/ SessionUnreadable(r) \/ SwitchMode(r)
    \/ GetQueue(r) \/ SteerRefused(r) \/ ExpireBinding(r) \/ CreateChannelSession(r)
    \/ UpdateSessionBinding(r) \/ RouteFailed(r)

LEMMA ReadsKeep ==
    ASSUME NEW r \in Routers, Reads(r)
    PROVE  sessions' = sessions /\ heard' = heard /\ accepted' = accepted /\ overwritten' = overwritten
  BY DEF Reads, FindActiveSession, FetchStatus, SessionUnreadable, SwitchMode, GetQueue, SteerRefused,
     ExpireBinding, CreateChannelSession, UpdateSessionBinding, Rebinding, RouteFailed, thread

LEMMA SessionsStep ==
    ASSUME Typed, Next
    PROVE  SessionsOK'
<1> USE DEF Typed
<1>1. ASSUME NEW r \in Routers, NEW command \in Commands, ReceiveMessage(r, command)
      PROVE  SessionsOK'
  BY <1>1 DEF ReceiveMessage, thread, SessionsOK
<1>2. ASSUME NEW r \in Routers, RouterStep(r)
      PROVE  SessionsOK'
  <2>1. CASE Reads(r)
    BY <2>1, ReadsKeep DEF SessionsOK
  <2>2. CASE Wake(r)
    BY <2>2, CheckerType DEF Wake, SessionsOK
  <2>3. CASE Steer(r)
    <3>1. routers[r].queue \in Seq(Message) /\ routers[r].message \in Message
      BY <2>3 DEF Steer, SteerWith, At, RoutersOK, Router
    <3>2. Append(routers[r].queue, routers[r].message) \in Seq(Message)
      BY <3>1
    <3> QED
      BY <2>3, <3>2 DEF Steer, SteerWith, SessionsOK, Session
  <2>4. CASE CancelSession(r)
    <3>1. "Ended" \in Statuses
      BY DEF Statuses, Terminal
    <3> QED
      BY <2>4, <3>1, StatusType DEF CancelSession, SessionsOK
  <2>5. CASE StartSession(r)
    <3>1. "Created" \in Statuses
      BY DEF Statuses, Terminal
    <3> QED
      BY <2>5, <3>1, StatusType DEF StartSession, Starting, SessionsOK
  <2> QED
    BY <1>2, <2>1, <2>2, <2>3, <2>4, <2>5 DEF RouterStep, Reads
<1>3. ASSUME NEW n \in SessionId, SessionStep(n)
      PROVE  SessionsOK'
  <2>1. ASSUME NEW from, NEW to \in Statuses, Moves(n, from, to)
        PROVE  SessionsOK'
    BY <2>1, StatusType DEF Moves, SessionsOK
  <2>2. CASE \/ Provisioned(n) \/ NeedsAuth(n) \/ AuthReady(n) \/ Pauses(n) \/ Resumes(n)
             \/ ToolsCalled(n) \/ Recovered(n) \/ EndsOtherwise(n) \/ RecordResult(n)
    BY <2>1, <2>2 DEF Provisioned, NeedsAuth, AuthReady, Pauses, Resumes, ToolsCalled, Recovered,
       EndsOtherwise, RecordResult, Statuses, Terminal
  <2>3. CASE ProviderResponseReady(n)
    <3>1. Snapshot(sessions[n]) \in Reading
      BY DEF SessionsOK, Session, Snapshot, Reading
    <3> QED
      BY <2>3, <3>1 DEF ProviderResponseReady, SessionsOK, Session, Statuses, Terminal
  <2>4. CASE CheckSteering(n)
    <3>1. StartChecker(n) \in [SessionId -> Session] /\ "Steering" \in Statuses
      BY CheckerType DEF Statuses, Terminal
    <3> QED
      BY <2>4, <3>1 DEF CheckSteering, SessionsOK, Session
  <2>5. ASSUME NEW k \in 1..Len(sessions[n].checkers),
               ContinueWithSteering(n, k) \/ FinalizeResult(n, k) \/ CallbackRejected(n, k)
        PROVE  SessionsOK'
    <3>1. sessions[n] \in Session
      BY DEF SessionsOK
    <3>2. sessions[n].checkers \in Seq(Reading) /\ sessions[n].checkers[k] \in Reading
      BY <3>1 DEF Session
    <3>3. RemoveAt(sessions[n].checkers, k) \in Seq(Reading)
      BY <3>2, RemovedType
    <3>4. CASE ContinueWithSteering(n, k)
      <4>1. sessions[n].checkers[k].queue \in Seq(Message) /\ sessions[n].checkers[k].queue # <<>>
        BY <3>2, <3>4 DEF ContinueWithSteering, Continues, Takes, Reading
      <4>2. Left(n, k) \in Seq(Message)
        BY <4>1 DEF Left
      <4>3. "PreparingContext" \in Statuses
        BY DEF Statuses, Terminal
      <4> DEFINE taken == [sessions[n] EXCEPT !.status = "PreparingContext", !.queue = Left(n, k),
                             !.followUps = sessions[n].followUps + 1,
                             !.checkers = RemoveAt(sessions[n].checkers, k)]
      <4>4. taken \in Session
        <5>1. sessions[n].followUps + 1 \in Nat
          BY <3>1 DEF Session
        <5> QED
          BY <3>1, <3>3, <4>2, <4>3, <5>1 DEF Session
      <4>5. sessions' = [sessions EXCEPT ![n] = taken]
        BY <3>4 DEF ContinueWithSteering, Continues
      <4> HIDE DEF taken
      <4> QED
        BY <4>4, <4>5 DEF SessionsOK
    <3>5. ASSUME NEW status \in Statuses \cup {"Unused"}, CheckerEnds(n, k, status)
          PROVE  SessionsOK'
      BY <3>1, <3>3, <3>5 DEF CheckerEnds, SessionsOK, Session
    <3>6. CASE FinalizeResult(n, k)
      BY <3>5, <3>6 DEF FinalizeResult, Statuses, Terminal
    <3>7. CASE CallbackRejected(n, k)
      <4>1. sessions[n].status \in Statuses \cup {"Unused"}
        BY <3>1 DEF Session
      <4> QED
        BY <3>5, <3>7, <4>1 DEF CallbackRejected
    <3> QED
      BY <2>5, <3>4, <3>6, <3>7
  <2> QED
    BY <1>3, <2>2, <2>3, <2>4, <2>5 DEF SessionStep
<1>4. CASE Crash
  <2>1. <<>> \in Seq(Reading)
    OBVIOUS
  <2>2. "Ended" \in Statuses /\ "Recovering" \in Statuses
    BY DEF Statuses, Terminal
  <2>3. PICK failed \in SUBSET LiveSessions :
          sessions' = [n \in SessionId |->
            IF ~Live(n) THEN [sessions[n] EXCEPT !.checkers = <<>>]
            ELSE [sessions[n] EXCEPT !.checkers = <<>>,
                                     !.status = IF n \in failed THEN "Ended" ELSE "Recovering"]]
    BY <1>4 DEF Crash
  <2>4. ASSUME NEW n \in SessionId
        PROVE  sessions'[n] \in Session
    <3>1. sessions[n] \in Session
      BY DEF SessionsOK
    <3> QED
      BY <2>1, <2>2, <2>3, <3>1 DEF Session
  <2> QED
    BY <2>3, <2>4 DEF SessionsOK
<1> QED
  BY <1>1, <1>2, <1>3, <1>4 DEF Next

\* What the steps of an invocation do to its record: it goes elsewhere, or ends.
LEMMA GoesType ==
    ASSUME RoutersOK, NEW r \in Routers, routers[r] # Idle, NEW place \in Places
    PROVE  [routers EXCEPT ![r].at = place] \in [Routers -> {Idle} \cup Router]
<1>1. routers[r] \in Router
  BY DEF RoutersOK
<1> QED
  BY <1>1 DEF RoutersOK, Router

LEMMA DoneType ==
    ASSUME RoutersOK, NEW r \in Routers
    PROVE  [routers EXCEPT ![r] = Idle] \in [Routers -> {Idle} \cup Router]
  BY DEF RoutersOK

\* It ends, or goes to one of the places, and keeps the rest.
EndsOrGoes(r) ==
    \/ routers' = [routers EXCEPT ![r] = Idle]
    \/ \E place \in Places \ {"find", "create"} : Goes(r, place)

LEMMA EndsOrGoesStep ==
    ASSUME NEW r \in Routers, routers[r] # Idle,
           \/ FetchStatus(r) \/ SessionUnreadable(r) \/ Wake(r) \/ SwitchMode(r) \/ Steer(r)
           \/ SteerRefused(r) \/ CancelSession(r) \/ CreateChannelSession(r)
           \/ UpdateSessionBinding(r) \/ RouteFailed(r)
    PROVE  EndsOrGoes(r)
<1> USE DEF EndsOrGoes, Goes, Done, Places
<1>1. CASE FetchStatus(r)
  BY <1>1 DEF FetchStatus, AfterWaking
<1>2. CASE SessionUnreadable(r) \/ Wake(r) \/ SwitchMode(r)
  BY <1>2 DEF SessionUnreadable, Wake, SwitchMode, AfterWaking
<1>3. CASE Steer(r) \/ SteerRefused(r)
  BY <1>3 DEF Steer, SteerWith, SteerRefused, NotSteered
<1>4. CASE CancelSession(r) \/ CreateChannelSession(r) \/ UpdateSessionBinding(r) \/ RouteFailed(r)
  BY <1>4 DEF CancelSession, CreateChannelSession, UpdateSessionBinding, RouteFailed
<1> QED
  BY <1>1, <1>2, <1>3, <1>4

LEMMA RoutersStep ==
    ASSUME Typed, Next
    PROVE  RoutersOK' /\ KnowsSession'
<1> USE DEF Typed
<1>1. ASSUME NEW r \in Routers, NEW command \in Commands, ReceiveMessage(r, command)
      PROVE  RoutersOK' /\ KnowsSession'
  <2>1. NewRouter(arrived + 1, command) \in Router
    <3>1. arrived + 1 \in Message /\ <<>> \in Seq(Message)
      BY <1>1, ThreadBounds DEF ReceiveMessage, BooksOK, Message
    <3>2. "find" \in Places /\ 0 \in Nat /\ 0 \in 0..SessionLimit
      BY ThreadBounds DEF Places
    <3> QED
      BY <3>1, <3>2 DEF NewRouter, Router
  <2>2. routers' = [routers EXCEPT ![r] = NewRouter(arrived + 1, command)]
    BY <1>1 DEF ReceiveMessage
  <2>3. RoutersOK'
    BY <2>1, <2>2 DEF RoutersOK
  <2>4. NewRouter(arrived + 1, command).at = "find"
    BY DEF NewRouter
  <2> QED
    BY <2>2, <2>3, <2>4 DEF KnowsSession, RoutersOK
<1>2. ASSUME NEW r \in Routers, RouterStep(r)
      PROVE  RoutersOK' /\ KnowsSession'
  <2>1. routers[r] # Idle
    BY <1>2 DEF RouterStep, FindActiveSession, FetchStatus, SessionUnreadable, Wake, SwitchMode,
       GetQueue, Steer, SteerWith, SteerRefused, CancelSession, ExpireBinding, StartSession, Starting,
       CreateChannelSession, UpdateSessionBinding, Rebinding, RouteFailed, At
  <2>2. routers[r] \in Router
    BY <2>1 DEF RoutersOK
  <2>3. ASSUME NEW place \in Places, Goes(r, place),
               place \in {"find", "create"} \/ routers[r].session \in SessionId
        PROVE  RoutersOK' /\ KnowsSession'
    <3>1. RoutersOK'
      BY <2>1, <2>3, GoesType DEF Goes, RoutersOK
    <3>2. routers'[r].at = place /\ routers'[r].session = routers[r].session
      BY <2>2, <2>3 DEF Goes, RoutersOK, Router
    <3>3. \A q \in Routers \ {r} : routers'[q] = routers[q]
      BY <2>3 DEF Goes, RoutersOK
    <3> QED
      BY <2>3, <3>1, <3>2, <3>3 DEF KnowsSession
  <2>4. CASE routers' = [routers EXCEPT ![r] = Idle]
    BY <2>4, DoneType DEF RoutersOK, KnowsSession
  <2>5. CASE FindActiveSession(r)
    <3>1. CASE Goes(r, "create")
      BY <2>3, <3>1 DEF Places
    <3>2. ASSUME NEW b \in ActiveBindings, NEW place \in {"cancel", "fetch"},
                 routers' = [routers EXCEPT ![r].binding = b, ![r].session = bindings[b].session, ![r].at = place]
          PROVE  RoutersOK' /\ KnowsSession'
      <4>1. b \in 1..Len(bindings)
        BY DEF ActiveBindings
      <4>2. bindings[b] \in Binding
        BY <4>1 DEF BindingsOK
      <4>3. b \in Nat /\ bindings[b].session \in SessionId /\ bindings[b].session \in 0..SessionLimit
        BY <4>1, <4>2, ThreadBounds DEF Binding, SessionId
      <4> DEFINE found == [routers[r] EXCEPT !.binding = b, !.session = bindings[b].session, !.at = place]
      <4>4. found \in Router /\ found.session \in SessionId
        BY <2>2, <4>3 DEF Router, Places
      <4>5. routers' = [routers EXCEPT ![r] = found]
        BY <3>2
      <4> HIDE DEF found
      <4> QED
        BY <4>4, <4>5 DEF RoutersOK, KnowsSession
    <3> QED
      BY <2>5, <3>1, <3>2 DEF FindActiveSession
  <2>6. CASE GetQueue(r)
    <3>1. routers[r].session \in SessionId
      BY <2>1, <2>6 DEF GetQueue, At, KnowsSession
    <3>2. CASE Goes(r, "post") \/ Goes(r, "continue")
      BY <2>3, <3>1, <3>2 DEF Places
    <3>3. CASE routers' = [routers EXCEPT ![r].queue = sessions[routers[r].session].queue, ![r].at = "post"]
      <4>1. sessions[routers[r].session].queue \in Seq(Message)
        BY <3>1 DEF SessionsOK, Session
      <4> DEFINE read == [routers[r] EXCEPT !.queue = sessions[routers[r].session].queue, !.at = "post"]
      <4>2. read \in Router /\ read.session \in SessionId
        BY <2>2, <3>1, <4>1 DEF Router, Places
      <4>3. routers' = [routers EXCEPT ![r] = read]
        BY <3>3
      <4> HIDE DEF read
      <4> QED
        BY <4>2, <4>3 DEF RoutersOK, KnowsSession
    <3> QED
      BY <2>4, <2>6, <3>2, <3>3 DEF GetQueue, NotSteered, Done
  <2>7. CASE StartSession(r)
    <3>1. NewSession \in SessionId /\ NewSession \in 0..SessionLimit
      BY <2>7, NewSessionType, ThreadBounds DEF StartSession, Starting, SessionId
    <3> DEFINE bound == [routers[r] EXCEPT !.session = NewSession,
                                           !.at = IF @ = "create" THEN "bind" ELSE "rebind"]
    <3>2. bound \in Router /\ bound.session \in SessionId
      BY <2>2, <3>1 DEF Router, Places
    <3>3. routers' = [routers EXCEPT ![r] = bound]
      BY <2>7 DEF StartSession, BindTo
    <3> HIDE DEF bound
    <3> QED
      BY <3>2, <3>3 DEF RoutersOK, KnowsSession
  <2>8. CASE ExpireBinding(r)
    BY <2>3, <2>8 DEF ExpireBinding, Places
  <2>9. CASE \/ FetchStatus(r) \/ SessionUnreadable(r) \/ Wake(r) \/ SwitchMode(r) \/ Steer(r)
             \/ SteerRefused(r) \/ CancelSession(r) \/ CreateChannelSession(r)
             \/ UpdateSessionBinding(r) \/ RouteFailed(r)
    <3>1. EndsOrGoes(r)
      BY <2>1, <2>9, EndsOrGoesStep
    <3>2. CASE RouteFailed(r)
      BY <2>4, <3>2 DEF RouteFailed, Done
    <3>3. CASE ~RouteFailed(r)
      <4>1. routers[r].session \in SessionId
        BY <2>1, <2>9, <3>3 DEF FetchStatus, SessionUnreadable, Wake, SwitchMode, Steer, SteerWith, SteerRefused,
           CancelSession, CreateChannelSession, UpdateSessionBinding, Rebinding, At, KnowsSession
      <4> QED
        BY <2>3, <2>4, <3>1, <4>1 DEF EndsOrGoes
    <3> QED
      BY <3>2, <3>3
  <2> QED
    BY <1>2, <2>5, <2>6, <2>7, <2>8, <2>9 DEF RouterStep
<1>3. CASE (\E n \in SessionId : SessionStep(n)) \/ UNCHANGED routers
  <2>1. UNCHANGED routers
    BY <1>3 DEF SessionStep, Provisioned, NeedsAuth, AuthReady, Pauses, Resumes, ToolsCalled, Recovered,
       EndsOtherwise, Moves, ProviderResponseReady, RecordResult, CheckSteering, ContinueWithSteering,
       Continues, FinalizeResult, CallbackRejected, CheckerEnds, CheckerReturns
  <2> QED
    BY <2>1 DEF RoutersOK, KnowsSession
<1>4. CASE Crash
  BY <1>4 DEF Crash, RoutersOK, KnowsSession
<1> QED
  BY <1>1, <1>2, <1>3, <1>4 DEF Next

\* The steps of a session leave invocations, bindings and the books of arrivals alone.
LEMMA SessionKeeps ==
    ASSUME NEW n \in SessionId, SessionStep(n)
    PROVE  UNCHANGED <<bindings, routers, arrived, fate, accepted, serial, spent>>
  BY DEF SessionStep, Provisioned, NeedsAuth, AuthReady, Pauses, Resumes, ToolsCalled, Recovered,
     EndsOtherwise, Moves, ProviderResponseReady, RecordResult, CheckSteering, ContinueWithSteering,
     Continues, FinalizeResult, CallbackRejected, CheckerEnds, CheckerReturns

LEMMA BindingsStep ==
    ASSUME Typed, Next
    PROVE  BindingsOK' /\ Len(bindings') >= Len(bindings)
<1> USE DEF Typed
<1>1. CASE UNCHANGED bindings
  BY <1>1 DEF BindingsOK
<1>2. ASSUME NEW r \in Routers, ExpireBinding(r)
      PROVE  BindingsOK' /\ Len(bindings') >= Len(bindings)
  <2>1. ASSUME NEW b
        PROVE  /\ [bindings EXCEPT ![b].active = FALSE] \in Seq(Binding)
               /\ Len([bindings EXCEPT ![b].active = FALSE]) = Len(bindings)
    <3> DEFINE new == [bindings[b] EXCEPT !.active = FALSE]
    <3>1. ASSUME b \in 1..Len(bindings)
          PROVE  new \in Binding
      <4>1. bindings[b] \in Binding
        BY <3>1 DEF BindingsOK
      <4> QED
        BY <4>1 DEF Binding
    <3>2. [bindings EXCEPT ![b].active = FALSE] = [bindings EXCEPT ![b] = new]
      OBVIOUS
    <3> HIDE DEF new
    <3>3. [bindings EXCEPT ![b] = new] \in Seq(Binding) /\ Len([bindings EXCEPT ![b] = new]) = Len(bindings)
      BY <3>1, ReplacedType DEF BindingsOK
    <3> QED
      BY <3>2, <3>3
  <2> QED
    BY <1>2, <2>1 DEF ExpireBinding, BindingsOK
<1>3. ASSUME NEW r \in Routers, CreateChannelSession(r)
      PROVE  BindingsOK' /\ Len(bindings') >= Len(bindings)
  <2>1. routers[r].session \in SessionId
    BY <1>3 DEF CreateChannelSession, At, KnowsSession
  <2>2. [active |-> TRUE, session |-> routers[r].session] \in Binding
    BY <2>1 DEF Binding
  <2> QED
    BY <1>3, <2>2 DEF CreateChannelSession, BindingsOK
<1>4. ASSUME NEW r \in Routers, UpdateSessionBinding(r)
      PROVE  BindingsOK' /\ Len(bindings') >= Len(bindings)
  <2>1. routers[r].session \in SessionId
    BY <1>4 DEF UpdateSessionBinding, Rebinding, At, KnowsSession
  <2>2. ASSUME NEW b
        PROVE  /\ [bindings EXCEPT ![b].session = routers[r].session] \in Seq(Binding)
               /\ Len([bindings EXCEPT ![b].session = routers[r].session]) = Len(bindings)
    <3> DEFINE new == [bindings[b] EXCEPT !.session = routers[r].session]
    <3>1. ASSUME b \in 1..Len(bindings)
          PROVE  new \in Binding
      <4>1. bindings[b] \in Binding
        BY <3>1 DEF BindingsOK
      <4> QED
        BY <2>1, <4>1 DEF Binding
    <3>2. [bindings EXCEPT ![b].session = routers[r].session] = [bindings EXCEPT ![b] = new]
      OBVIOUS
    <3> HIDE DEF new
    <3>3. [bindings EXCEPT ![b] = new] \in Seq(Binding) /\ Len([bindings EXCEPT ![b] = new]) = Len(bindings)
      BY <3>1, ReplacedType DEF BindingsOK
    <3> QED
      BY <3>2, <3>3
  <2> QED
    BY <1>1, <1>4, <2>2 DEF UpdateSessionBinding, BindingsOK
<1>5. ASSUME NEW r \in Routers, NEW command \in Commands, ReceiveMessage(r, command)
      PROVE  UNCHANGED bindings
  BY <1>5 DEF ReceiveMessage, thread
<1>6. ASSUME NEW r \in Routers, RouterStep(r), ~ExpireBinding(r), ~CreateChannelSession(r), ~UpdateSessionBinding(r)
      PROVE  UNCHANGED bindings
  BY <1>6 DEF RouterStep, FindActiveSession, FetchStatus, SessionUnreadable, Wake, SwitchMode, GetQueue,
     Steer, SteerWith, SteerRefused, CancelSession, StartSession, Starting, RouteFailed, thread
<1>7. CASE Crash
  BY <1>1, <1>7 DEF Crash
<1> QED
  BY <1>1, <1>2, <1>3, <1>4, <1>5, <1>6, <1>7, SessionKeeps DEF Next

LEMMA BooksStep ==
    ASSUME Typed, Next
    PROVE  BooksOK' /\ arrived' >= arrived
<1> USE DEF Typed
<1>1. ASSUME NEW r \in Routers, NEW command \in Commands, ReceiveMessage(r, command)
      PROVE  BooksOK' /\ arrived' >= arrived
  BY <1>1, ThreadBounds DEF ReceiveMessage, thread, BooksOK
<1>2. ASSUME NEW r \in Routers, RouterStep(r)
      PROVE  BooksOK' /\ arrived' >= arrived
  <2>1. arrived' = arrived /\ serial' = serial /\ overwritten' \in BOOLEAN
    BY <1>2 DEF RouterStep, FindActiveSession, FetchStatus, SessionUnreadable, Wake, SwitchMode,
       GetQueue, Steer, SteerWith, SteerRefused, CancelSession, ExpireBinding, StartSession, Starting,
       CreateChannelSession, UpdateSessionBinding, Rebinding, RouteFailed, thread, BooksOK
  <2>2. routers[r] \in Router /\ routers[r].message <= arrived
    BY <1>2 DEF RouterStep, FindActiveSession, FetchStatus, SessionUnreadable, Wake, SwitchMode,
       GetQueue, Steer, SteerWith, SteerRefused, CancelSession, ExpireBinding, StartSession, Starting,
       CreateChannelSession, UpdateSessionBinding, Rebinding, RouteFailed, At, RoutersOK, InTime
  <2>3. routers[r].message \in Message /\ routers[r].message \in 1..arrived
    BY <2>2 DEF Router, Message, BooksOK
  <2>4. fate' = fate \/ Done(r, "routed") \/ Done(r, "failed")
    BY <1>2 DEF RouterStep, FindActiveSession, FetchStatus, SessionUnreadable, Wake, SwitchMode,
       GetQueue, Steer, SteerWith, SteerRefused, NotSteered, CancelSession, ExpireBinding, StartSession, Starting,
       CreateChannelSession, UpdateSessionBinding, Rebinding, RouteFailed
  <2>5. fate' \in [Message -> {"none", "routed", "failed"}]
    BY <2>3, <2>4 DEF Done, BooksOK
  <2>6. accepted' = accepted \/ accepted' = accepted \cup {routers[r].message}
    BY <1>2, ReadsKeep DEF RouterStep, Reads, Wake, Steer, SteerWith, CancelSession, StartSession, Starting
  <2>7. heard' = heard \/ heard' = Append(heard, routers[r].message)
    BY <1>2, ReadsKeep DEF RouterStep, Reads, Wake, Steer, SteerWith, CancelSession, StartSession, Starting
  <2>8. heard' \in Seq(Message)
    BY <2>3, <2>7 DEF BooksOK
  <2>9. accepted' \subseteq 1..arrived'
    BY <2>1, <2>3, <2>6 DEF BooksOK
  <2> QED
    BY <2>1, <2>5, <2>8, <2>9 DEF BooksOK
<1>3. ASSUME NEW n \in SessionId, SessionStep(n)
      PROVE  BooksOK' /\ arrived' >= arrived
  <2>1. UNCHANGED <<arrived, fate, accepted, serial>>
    BY <1>3, SessionKeeps
  <2>2. heard' \in Seq(Message) /\ overwritten' \in BOOLEAN
    <3>1. CASE UNCHANGED <<heard, overwritten>>
      BY <3>1 DEF BooksOK
    <3>2. ASSUME NEW k \in 1..Len(sessions[n].checkers), ContinueWithSteering(n, k)
          PROVE  heard' \in Seq(Message) /\ overwritten' \in BOOLEAN
      <4>1. sessions[n].checkers[k] \in Reading
        <5>1. sessions[n].checkers \in Seq(Reading)
          BY DEF SessionsOK, Session
        <5> QED
          BY <5>1
      <4>2. sessions[n].checkers[k].queue \in Seq(Message) /\ sessions[n].checkers[k].queue # <<>>
        BY <3>2, <4>1 DEF ContinueWithSteering, Continues, Takes, Reading
      <4>3. Head(sessions[n].checkers[k].queue) \in Message
        BY <4>2
      <4> QED
        BY <3>2, <4>3 DEF ContinueWithSteering, Continues, BooksOK
    <3> QED
      BY <1>3, <3>1, <3>2 DEF SessionStep, Provisioned, NeedsAuth, AuthReady, Pauses, Resumes, ToolsCalled,
         Recovered, EndsOtherwise, Moves, ProviderResponseReady, RecordResult, CheckSteering,
         FinalizeResult, CallbackRejected, CheckerEnds
  <2> QED
    BY <2>1, <2>2 DEF BooksOK
<1>4. CASE Crash
  <2>1. UNCHANGED <<arrived, fate, accepted, heard, overwritten, serial>>
    BY <1>4 DEF Crash
  <2> QED
    BY <2>1 DEF BooksOK
<1> QED
  BY <1>1, <1>2, <1>3, <1>4 DEF Next

LEMMA InTimeStep ==
    ASSUME Typed, Next
    PROVE  InTime'
<1> USE DEF Typed
<1>1. Len(bindings') >= Len(bindings) /\ arrived' >= arrived /\ arrived \in Nat /\ arrived' \in Nat
      /\ Len(bindings) \in Nat /\ Len(bindings') \in Nat
  BY BindingsStep, BooksStep, ThreadBounds DEF BindingsOK, BooksOK
<1>2. ASSUME NEW q \in Routers, routers'[q] # Idle,
             routers[q] # Idle, routers'[q].message = routers[q].message, routers'[q].binding = routers[q].binding
      PROVE  routers'[q].message <= arrived' /\ routers'[q].binding <= Len(bindings')
  <2>1. routers[q].message \in Nat /\ routers[q].binding \in Nat
    BY <1>2, ThreadBounds DEF RoutersOK, Router, Message
  <2> QED
    BY <1>1, <1>2, <2>1 DEF InTime
<1>3. ASSUME NEW r \in Routers, NEW command \in Commands, ReceiveMessage(r, command)
      PROVE  InTime'
  <2>1. routers' = [routers EXCEPT ![r] = NewRouter(arrived', command)]
    BY <1>3 DEF ReceiveMessage
  <2>2. routers'[r].message = arrived' /\ routers'[r].binding = 0
    BY <2>1 DEF NewRouter, RoutersOK
  <2>3. \A q \in Routers \ {r} : routers'[q] = routers[q]
    BY <2>1 DEF RoutersOK
  <2> QED
    BY <1>1, <1>2, <2>2, <2>3 DEF InTime
<1>4. ASSUME NEW r \in Routers, RouterStep(r)
      PROVE  InTime'
  <2>1. routers[r] \in Router /\ routers[r] # Idle
    BY <1>4 DEF RouterStep, FindActiveSession, FetchStatus, SessionUnreadable, Wake, SwitchMode,
       GetQueue, Steer, SteerWith, SteerRefused, CancelSession, ExpireBinding, StartSession, Starting,
       CreateChannelSession, UpdateSessionBinding, Rebinding, RouteFailed, At, RoutersOK
  <2>2. \A q \in Routers \ {r} : routers'[q] = routers[q]
    BY <1>4, <2>1, EndsOrGoesStep DEF RouterStep, FindActiveSession, GetQueue, NotSteered, Done, Goes,
       ExpireBinding, StartSession, BindTo, EndsOrGoes, RoutersOK
  <2>3. \/ routers'[r] = Idle
        \/ routers'[r].message = routers[r].message /\ routers'[r].binding = routers[r].binding
        \/ routers'[r].message = routers[r].message /\ routers'[r].binding \in ActiveBindings
    <3>1. CASE FindActiveSession(r)
      <4>1. CASE Goes(r, "create")
        BY <2>1, <4>1 DEF Goes, RoutersOK, Router
      <4>2. CASE ~Goes(r, "create")
        <5>1. PICK b \in ActiveBindings :
                routers' = [routers EXCEPT ![r].binding = b, ![r].session = bindings[b].session,
                                           ![r].at = IF routers[r].command = "reset" THEN "cancel" ELSE "fetch"]
          BY <3>1, <4>2 DEF FindActiveSession
        <5>2. routers'[r] = [routers[r] EXCEPT !.binding = b, !.session = bindings[b].session,
                                               !.at = IF routers[r].command = "reset" THEN "cancel" ELSE "fetch"]
          BY <5>1 DEF RoutersOK
        <5>3. routers'[r].message = routers[r].message /\ routers'[r].binding = b
          BY <2>1, <5>2 DEF Router
        <5> QED
          BY <5>3
      <4> QED
        BY <4>1, <4>2
    <3>2. CASE GetQueue(r)
      BY <2>1, <3>2 DEF GetQueue, NotSteered, Done, Goes, RoutersOK, Router
    <3>3. CASE StartSession(r) \/ ExpireBinding(r)
      BY <2>1, <3>3 DEF StartSession, BindTo, ExpireBinding, Goes, RoutersOK, Router
    <3>4. CASE EndsOrGoes(r)
      BY <2>1, <3>4 DEF EndsOrGoes, Goes, RoutersOK, Router
    <3> QED
      BY <1>4, <2>1, <3>1, <3>2, <3>3, <3>4, EndsOrGoesStep DEF RouterStep
  <2>4. \A b \in ActiveBindings : b <= Len(bindings')
    BY <1>1 DEF ActiveBindings
  <2>5. routers[r].message <= arrived' /\ routers[r].message \in Nat
    BY <1>1, <2>1, ThreadBounds DEF InTime, Router, Message
  <2>6. routers'[r] # Idle => routers'[r].message <= arrived' /\ routers'[r].binding <= Len(bindings')
    BY <1>2, <2>1, <2>3, <2>4, <2>5
  <2>7. \A q \in Routers \ {r} : routers'[q] # Idle => routers'[q].message <= arrived' /\ routers'[q].binding <= Len(bindings')
    BY <1>2, <2>2
  <2> QED
    BY <2>6, <2>7 DEF InTime
<1>5. ASSUME NEW n \in SessionId, SessionStep(n)
      PROVE  InTime'
  BY <1>2, <1>5, SessionKeeps DEF InTime
<1>6. CASE Crash
  BY <1>6 DEF Crash, InTime
<1> QED
  BY <1>3, <1>4, <1>5, <1>6 DEF Next

LEMMA TypedStep == Typed /\ [Next]_vars => Typed'
<1>1. ASSUME Typed, Next
      PROVE  Typed'
  BY <1>1, SessionsStep, BindingsStep, RoutersStep, BooksStep, InTimeStep DEF Typed
<1>2. ASSUME Typed, UNCHANGED vars
      PROVE  Typed'
  BY <1>2 DEF vars, thread, Typed, SessionsOK, BindingsOK, RoutersOK, BooksOK, InTime, KnowsSession
<1> QED
  BY <1>1, <1>2

\* Every reachable state is well typed: in particular no invocation of route_message
\* steers, wakes or cancels a session it does not know.
THEOREM TypeCorrect == Spec => []TypeOK
<1>1. Typed => TypeOK
  BY TypeParts DEF Typed
<1> QED
  BY <1>1, TypedInit, TypedStep, PTL DEF Spec
-----------------------------------------------------------------------------
(***************************************************************************)
(* What the queues and the follow-up counts do.  Only three actions touch  *)
(* them, or put a message before an agent.                                 *)
(***************************************************************************)
CountsKept == \A n \in SessionId : sessions'[n].followUps = sessions[n].followUps
QueuesKept == \A n \in SessionId : sessions'[n].queue = sessions[n].queue
Quiet == CountsKept /\ QueuesKept /\ UNCHANGED <<heard, accepted, overwritten>>

Steers    == \E r \in Routers : Steer(r)
Starts    == \E r \in Routers : StartSession(r)
TakesUp   == \E n \in SessionId : \E k \in 1..Len(sessions[n].checkers) : ContinueWithSteering(n, k)

LEMMA QuietStep ==
    ASSUME Typed, Next, ~Steers, ~Starts, ~TakesUp
    PROVE  Quiet
<1> USE DEF Quiet, CountsKept, QueuesKept
<1>0. ASSUME NEW n \in SessionId
      PROVE  /\ sessions[n] \in Session
             /\ \A m, status : [sessions EXCEPT ![m].status = status][n].queue = sessions[n].queue
             /\ \A m, status : [sessions EXCEPT ![m].status = status][n].followUps = sessions[n].followUps
             /\ \A m : StartChecker(m)[n].queue = sessions[n].queue
             /\ \A m : StartChecker(m)[n].followUps = sessions[n].followUps
  <2>1. sessions[n] \in Session /\ DOMAIN sessions = SessionId
    BY DEF Typed, SessionsOK
  <2> QED
    BY <2>1 DEF StartChecker, Session
<1>1. ASSUME NEW r \in Routers, NEW command \in Commands, ReceiveMessage(r, command)
      PROVE  Quiet
  BY <1>1 DEF ReceiveMessage, thread
<1>2. ASSUME NEW r \in Routers, RouterStep(r)
      PROVE  Quiet
  <2>1. CASE Reads(r)
    BY <2>1, ReadsKeep
  <2>2. CASE Wake(r)
    BY <1>0, <2>2 DEF Wake
  <2>3. CASE CancelSession(r)
    <3>1. \/ sessions' = sessions
          \/ sessions' = [sessions EXCEPT ![routers[r].session].status = "Ended"]
      BY <2>3 DEF CancelSession
    <3>2. UNCHANGED <<heard, accepted, overwritten>>
      BY <2>3 DEF CancelSession
    <3>3. ASSUME sessions' = [sessions EXCEPT ![routers[r].session].status = "Ended"], NEW n \in SessionId
          PROVE  sessions'[n].queue = sessions[n].queue /\ sessions'[n].followUps = sessions[n].followUps
      BY <1>0, <3>3
    <3> QED
      BY <3>1, <3>2, <3>3
  <2> QED
    BY <1>2, <2>1, <2>2, <2>3 DEF RouterStep, Reads, Steers, Starts
<1>3. ASSUME NEW n \in SessionId, SessionStep(n)
      PROVE  Quiet
  <2>1. ASSUME NEW from, NEW to, Moves(n, from, to)
        PROVE  Quiet
    BY <1>0, <2>1 DEF Moves
  <2>2. CASE \/ Provisioned(n) \/ NeedsAuth(n) \/ AuthReady(n) \/ Pauses(n) \/ Resumes(n)
             \/ ToolsCalled(n) \/ Recovered(n) \/ EndsOtherwise(n) \/ RecordResult(n)
    BY <2>1, <2>2 DEF Provisioned, NeedsAuth, AuthReady, Pauses, Resumes, ToolsCalled, Recovered,
       EndsOtherwise, RecordResult
  <2>3. CASE ProviderResponseReady(n)
    BY <1>0, <2>3 DEF ProviderResponseReady, Typed, SessionsOK, Session
  <2>4. CASE CheckSteering(n)
    <3>1. StartChecker(n) \in [SessionId -> Session]
      BY CheckerType DEF Typed
    <3> QED
      BY <1>0, <2>4, <3>1 DEF CheckSteering, Session
  <2>5. ASSUME NEW k \in 1..Len(sessions[n].checkers), FinalizeResult(n, k) \/ CallbackRejected(n, k)
        PROVE  Quiet
    <3>1. ASSUME NEW status, CheckerEnds(n, k, status)
          PROVE  Quiet
      BY <1>0, <3>1 DEF CheckerEnds, CheckerReturns, Typed, SessionsOK, Session
    <3> QED
      BY <2>5, <3>1 DEF FinalizeResult, CallbackRejected
  <2> QED
    BY <1>3, <2>2, <2>3, <2>4, <2>5 DEF SessionStep, TakesUp
<1>4. CASE Crash
  <2>1. ASSUME NEW n \in SessionId
        PROVE  sessions'[n].queue = sessions[n].queue /\ sessions'[n].followUps = sessions[n].followUps
    <3>1. PICK failed \in SUBSET LiveSessions :
            sessions' = [m \in SessionId |->
              IF ~Live(m) THEN [sessions[m] EXCEPT !.checkers = <<>>]
              ELSE [sessions[m] EXCEPT !.checkers = <<>>,
                                       !.status = IF m \in failed THEN "Ended" ELSE "Recovering"]]
      BY <1>4 DEF Crash
    <3>2. \/ sessions'[n] = [sessions[n] EXCEPT !.checkers = <<>>]
          \/ \E status : sessions'[n] = [sessions[n] EXCEPT !.checkers = <<>>, !.status = status]
      BY <3>1
    <3> QED
      BY <1>0, <3>2 DEF Session
  <2> QED
    BY <1>4, <2>1 DEF Crash
<1> QED
  BY <1>1, <1>2, <1>3, <1>4 DEF Next

\* Steer appends to what the invocation read, and to what is there unless
\* something else was written meanwhile.
LEMMA SteerEffect ==
    ASSUME Typed, NEW r \in Routers, Steer(r)
    PROVE  /\ CountsKept /\ UNCHANGED heard
           /\ accepted' = accepted \cup {routers[r].message}
           /\ routers[r].message \in Message
           /\ routers[r].session \in SessionId
           /\ ~overwritten' =>
                sessions'[routers[r].session].queue =
                    Append(sessions[routers[r].session].queue, routers[r].message)
           /\ \A n \in SessionId \ {routers[r].session} : sessions'[n].queue = sessions[n].queue
<1> DEFINE n == routers[r].session
<1>1. n \in SessionId
  BY DEF Typed, KnowsSession, Steer, SteerWith, At
<1>2. routers[r].message \in Message
  BY DEF Typed, RoutersOK, Router, Steer, SteerWith, At
<1>3. sessions' = [sessions EXCEPT ![n].queue = Append(routers[r].queue, routers[r].message)]
  BY DEF Steer, SteerWith
<1>4. ~overwritten' => sessions[n].queue = routers[r].queue
  BY DEF Steer, SteerWith
<1>5. accepted' = accepted \cup {routers[r].message} /\ UNCHANGED heard
  BY DEF Steer, SteerWith
<1>6. sessions \in [SessionId -> Session]
  BY DEF Typed, SessionsOK
<1>7. sessions'[n].queue = Append(routers[r].queue, routers[r].message)
  BY <1>1, <1>3, <1>6 DEF Session
<1>8. \A m \in SessionId \ {n} : sessions'[m] = sessions[m]
  BY <1>3, <1>6
<1>9. sessions'[n].followUps = sessions[n].followUps
  BY <1>1, <1>3, <1>6 DEF Session
<1>10. CountsKept
  BY <1>8, <1>9 DEF CountsKept
<1> QED
  BY <1>1, <1>2, <1>4, <1>5, <1>7, <1>8, <1>10

\* Starting a session puts the message before its agent, whatever is queued elsewhere.
LEMMA StartEffect ==
    ASSUME Typed, NEW r \in Routers, StartSession(r)
    PROVE  /\ CountsKept /\ QueuesKept /\ UNCHANGED overwritten
           /\ routers[r].message \in Message
           /\ accepted' = accepted \cup {routers[r].message}
           /\ heard' = Append(heard, routers[r].message)
<1>1. routers[r].message \in Message
  BY DEF Typed, RoutersOK, Router, StartSession, Starting, At
<1>2. sessions \in [SessionId -> Session]
  BY DEF Typed, SessionsOK
<1>3. sessions' = [sessions EXCEPT ![NewSession].status = "Created"]
  BY DEF StartSession, Starting
<1>4. ASSUME NEW n \in SessionId
      PROVE  sessions'[n].queue = sessions[n].queue /\ sessions'[n].followUps = sessions[n].followUps
  BY <1>2, <1>3 DEF Session
<1> QED
  BY <1>1, <1>4 DEF CountsKept, QueuesKept, StartSession, Starting

\* ContinueWithSteering moves the head of the queue that the checker read to
\* the agent, and leaves its tail.
LEMMA TakeEffect ==
    ASSUME Typed, NEW n \in SessionId, NEW k \in 1..Len(sessions[n].checkers), ContinueWithSteering(n, k)
    PROVE  /\ UNCHANGED accepted
           /\ sessions[n].status = "Steering"
           /\ sessions'[n].status = "PreparingContext"
           /\ sessions'[n].followUps = sessions[n].followUps + 1
           /\ ~overwritten' =>
                /\ sessions[n].queue # <<>>
                /\ heard' = Append(heard, Head(sessions[n].queue))
                /\ sessions'[n].queue = Tail(sessions[n].queue)
           /\ \A m \in SessionId \ {n} : sessions'[m] = sessions[m]
<1>1. sessions \in [SessionId -> Session]
  BY DEF Typed, SessionsOK
<1> DEFINE taken == [sessions[n] EXCEPT !.status = "PreparingContext", !.queue = Left(n, k),
                                        !.followUps = sessions[n].followUps + 1,
                                        !.checkers = RemoveAt(sessions[n].checkers, k)]
<1>2. sessions' = [sessions EXCEPT ![n] = taken]
  BY DEF ContinueWithSteering, Continues
<1>3. /\ taken.status = "PreparingContext" /\ taken.followUps = sessions[n].followUps + 1
      /\ taken.queue = Left(n, k)
  BY <1>1 DEF Session
<1> HIDE DEF taken
<1>4. sessions'[n] = taken /\ \A m \in SessionId \ {n} : sessions'[m] = sessions[m]
  BY <1>1, <1>2
<1>5. ~overwritten' => sessions[n].queue = sessions[n].checkers[k].queue
  BY DEF ContinueWithSteering, Continues
<1>6. sessions[n].checkers[k].queue # <<>> /\ heard' = Append(heard, Head(sessions[n].checkers[k].queue))
  BY DEF ContinueWithSteering, Continues, Takes
<1>7. UNCHANGED accepted /\ sessions[n].status = "Steering"
  BY DEF ContinueWithSteering, Continues, CheckerReturns
<1> QED
  BY <1>3, <1>4, <1>5, <1>6, <1>7 DEF Left
-----------------------------------------------------------------------------
(***************************************************************************)
(* The limit of follow-ups.  A checker decides on the count it read, and a *)
(* wake-up runs a second one on the same count: what keeps the limit is    *)
(* that a session enters Steering below it, and leaves it with each        *)
(* follow-up.                                                              *)
(***************************************************************************)
MayFollowUp(s) ==
    s.status = "Steering" \/ (s.status = "ApplyingProviderResponse" /\ ShouldCheckSteering(s.read))
Counted ==
    \A n \in SessionId :
        /\ sessions[n].followUps <= MaxFollowUps
        /\ MayFollowUp(sessions[n]) => sessions[n].followUps < MaxFollowUps

LEMMA CountedInit == Init => Counted
  BY ThreadBounds DEF Init, Counted, Unused, MayFollowUp

\* Only an answer that finds the count below the limit opens the way to Steering.
LEMMA MayFollowUpStep ==
    ASSUME Typed, Next, NEW n \in SessionId, MayFollowUp(sessions'[n])
    PROVE  MayFollowUp(sessions[n]) \/ sessions[n].followUps < MaxFollowUps
<1> USE DEF MayFollowUp
<1>0. /\ sessions \in [SessionId -> Session] /\ sessions[n] \in Session
  BY DEF Typed, SessionsOK
<1>1. ASSUME NEW m, NEW status,
             status \in Statuses \ {"Steering", "ApplyingProviderResponse"},
             sessions' = [sessions EXCEPT ![m].status = status]
      PROVE  MayFollowUp(sessions[n])
  BY <1>0, <1>1 DEF Session
<1>2. ASSUME sessions'[n].status = sessions[n].status, sessions'[n].read = sessions[n].read
      PROVE  MayFollowUp(sessions[n])
  BY <1>2
<1>3. ASSUME NEW m, sessions' = StartChecker(m)
      PROVE  MayFollowUp(sessions[n])
  BY <1>0, <1>3 DEF StartChecker, Session
<1>4. ASSUME NEW r \in Routers, NEW command \in Commands, ReceiveMessage(r, command)
      PROVE  MayFollowUp(sessions[n])
  BY <1>4 DEF ReceiveMessage, thread
<1>5. ASSUME NEW r \in Routers, RouterStep(r)
      PROVE  MayFollowUp(sessions[n])
  <2>1. CASE Reads(r)
    BY <2>1, ReadsKeep
  <2>2. CASE Wake(r)
    BY <1>2, <1>3, <2>2 DEF Wake
  <2>3. CASE Steer(r)
    BY <1>0, <2>3 DEF Steer, SteerWith, Session
  <2>4. CASE CancelSession(r)
    <3>1. \/ sessions' = sessions
          \/ sessions' = [sessions EXCEPT ![routers[r].session].status = "Ended"]
      BY <2>4 DEF CancelSession
    <3> QED
      BY <1>1, <1>2, <3>1 DEF Statuses, Terminal
  <2>5. CASE StartSession(r)
    BY <1>1, <2>5 DEF StartSession, Starting, Statuses, Terminal
  <2> QED
    BY <1>5, <2>1, <2>2, <2>3, <2>4, <2>5 DEF RouterStep, Reads
<1>6. ASSUME NEW m \in SessionId, SessionStep(m)
      PROVE  MayFollowUp(sessions[n]) \/ sessions[n].followUps < MaxFollowUps
  <2>1. CASE \/ Provisioned(m) \/ NeedsAuth(m) \/ AuthReady(m) \/ Pauses(m) \/ Resumes(m)
             \/ ToolsCalled(m) \/ Recovered(m) \/ EndsOtherwise(m) \/ RecordResult(m)
    BY <1>1, <2>1 DEF Provisioned, NeedsAuth, AuthReady, Pauses, Resumes, ToolsCalled, Recovered,
       EndsOtherwise, RecordResult, Moves, Statuses, Terminal
  <2>2. CASE ProviderResponseReady(m)
    <3>1. CASE m = n
      <4>1. sessions'[n].read = Snapshot(sessions[n])
        BY <1>0, <2>2, <3>1 DEF ProviderResponseReady, Session
      <4>2. sessions'[n].status = "ApplyingProviderResponse"
        BY <1>0, <2>2, <3>1 DEF ProviderResponseReady, Session
      <4> QED
        BY <4>1, <4>2 DEF ShouldCheckSteering, Snapshot
    <3>2. CASE m # n
      BY <1>0, <1>2, <2>2, <3>2 DEF ProviderResponseReady
    <3> QED
      BY <3>1, <3>2
  <2>3. CASE CheckSteering(m)
    <3>1. CASE m = n
      BY <2>3, <3>1 DEF CheckSteering
    <3>2. CASE m # n
      BY <1>0, <1>2, <2>3, <3>2 DEF CheckSteering, StartChecker
    <3> QED
      BY <3>1, <3>2
  <2>4. ASSUME NEW k \in 1..Len(sessions[m].checkers),
               ContinueWithSteering(m, k) \/ FinalizeResult(m, k) \/ CallbackRejected(m, k)
        PROVE  MayFollowUp(sessions[n])
    <3>1. CASE ContinueWithSteering(m, k)
      BY <1>2, <2>4, <3>1, TakeEffect
    <3>2. CASE FinalizeResult(m, k)
      BY <1>0, <3>2 DEF FinalizeResult, CheckerEnds, Session
    <3>3. CASE CallbackRejected(m, k)
      BY <1>0, <3>3 DEF CallbackRejected, CheckerEnds, Session
    <3> QED
      BY <2>4, <3>1, <3>2, <3>3
  <2> QED
    BY <1>6, <2>1, <2>2, <2>3, <2>4 DEF SessionStep
<1>7. CASE Crash
  <2>1. PICK failed \in SUBSET LiveSessions :
          sessions' = [m \in SessionId |->
            IF ~Live(m) THEN [sessions[m] EXCEPT !.checkers = <<>>]
            ELSE [sessions[m] EXCEPT !.checkers = <<>>,
                                     !.status = IF m \in failed THEN "Ended" ELSE "Recovering"]]
    BY <1>7 DEF Crash
  <2> QED
    BY <1>0, <1>2, <2>1 DEF Session
<1> QED
  BY <1>4, <1>5, <1>6, <1>7 DEF Next

LEMMA CountedStep == Typed /\ Counted /\ [Next]_vars => Counted'
<1> SUFFICES ASSUME Typed, Counted, [Next]_vars, NEW n \in SessionId
             PROVE  /\ sessions'[n].followUps <= MaxFollowUps
                    /\ MayFollowUp(sessions'[n]) => sessions'[n].followUps < MaxFollowUps
  BY DEF Counted
<1>1. /\ sessions[n].followUps \in Nat /\ sessions[n].followUps <= MaxFollowUps
      /\ MayFollowUp(sessions[n]) => sessions[n].followUps < MaxFollowUps
  BY DEF Counted, Typed, SessionsOK, Session
<1>2. CASE UNCHANGED vars
  BY <1>1, <1>2 DEF vars, thread, MayFollowUp
<1>3. CASE Next /\ CountsKept
  BY <1>1, <1>3, MayFollowUpStep DEF CountsKept
<1>4. ASSUME Next, NEW m \in SessionId, NEW k \in 1..Len(sessions[m].checkers), ContinueWithSteering(m, k)
      PROVE  /\ sessions'[n].followUps <= MaxFollowUps
             /\ MayFollowUp(sessions'[n]) => sessions'[n].followUps < MaxFollowUps
  <2>1. CASE m = n
    <3>1. sessions'[n].status = "PreparingContext" /\ sessions'[n].followUps = sessions[n].followUps + 1
      BY <1>4, <2>1, TakeEffect
    <3>2. sessions[n].followUps < MaxFollowUps
      BY <1>1, <1>4, <2>1, TakeEffect DEF MayFollowUp
    <3>3. ~MayFollowUp(sessions'[n])
      BY <3>1 DEF MayFollowUp
    <3> QED
      BY <1>1, <3>1, <3>2, <3>3, ThreadBounds
  <2>2. CASE m # n
    BY <1>1, <1>4, <2>2, TakeEffect
  <2> QED
    BY <2>1, <2>2
<1> QED
  BY <1>2, <1>3, <1>4, QuietStep, SteerEffect, StartEffect DEF Quiet, Steers, Starts, TakesUp

\* No session follows up on more messages than max_follow_ups allows, however
\* many checkers wake-ups start and whatever they have read.
THEOREM FollowUpLimit == Spec => []FollowUpsBounded
<1>1. Counted => FollowUpsBounded
  BY DEF Counted, FollowUpsBounded
<1> QED
  BY <1>1, TypedInit, TypedStep, CountedInit, CountedStep, PTL DEF Spec

-----------------------------------------------------------------------------
(***************************************************************************)
(* What a session has looked at when it ends with its answer.  The applier *)
(* decides on its reading; Steering is entered and left with a queue that  *)
(* is not empty, so that its checkers always find a message to take.       *)
(***************************************************************************)
Judged(s) ==
    /\ s.status = "ApplyingProviderResponse" => s.read.followUps = s.followUps
    /\ MayFollowUp(s) => s.queue # <<>>
    /\ \A k \in 1..Len(s.checkers) : Takes(s.checkers[k])
    /\ s.status = "Completed" => s.followUps >= MaxFollowUps \/ s.read.queue = <<>>
Reasoned == \A n \in SessionId : Judged(sessions[n])

LEMMA ReasonedInit == Init => Reasoned
<1> SUFFICES ASSUME Init, NEW n \in SessionId PROVE Judged(sessions[n])
  BY DEF Reasoned
<1>1. sessions[n].status = "Unused" /\ sessions[n].checkers = <<>>
  BY DEF Init, Unused
<1>2. 1..Len(<<>>) = {}
  OBVIOUS
<1> QED
  BY <1>1, <1>2 DEF Judged, MayFollowUp

\* A session that moves to another status, and decides nothing by it.
LEMMA JudgedMoves ==
    ASSUME NEW s \in Session, NEW t \in Session, Judged(s),
           t.followUps = s.followUps, t.read = s.read, t.queue = s.queue,
           \A k \in 1..Len(t.checkers) : Takes(t.checkers[k]),
           t.status = s.status \/ t.status \notin {"ApplyingProviderResponse", "Steering", "Completed"}
    PROVE  Judged(t)
  BY DEF Judged, MayFollowUp

LEMMA JoinedAt ==
    ASSUME NEW S, NEW a \in Seq(S), NEW b \in Seq(S), NEW i \in 1..Len(a \o b)
    PROVE  /\ i \in 1..(Len(a) + Len(b))
           /\ i <= Len(a) => (a \o b)[i] = a[i]
           /\ i > Len(a) => (a \o b)[i] = b[i - Len(a)]
  OBVIOUS

LEMMA RemovedFrom ==
    ASSUME NEW S, NEW s \in Seq(S), NEW k \in 1..Len(s), NEW i \in 1..Len(RemoveAt(s, k))
    PROVE  \E j \in 1..Len(s) : RemoveAt(s, k)[i] = s[j]
<1> DEFINE a == SubSeq(s, 1, k - 1)
           b == SubSeq(s, k + 1, Len(s))
<1>1. a \in Seq(S) /\ Len(a) = k - 1 /\ \A j \in 1..(k - 1) : a[j] = s[j]
  OBVIOUS
<1>2. b \in Seq(S) /\ Len(b) = Len(s) - k /\ \A j \in 1..(Len(s) - k) : b[j] = s[k + j]
  OBVIOUS
<1>3. RemoveAt(s, k) = a \o b
  BY DEF RemoveAt
<1> HIDE DEF a, b
<1>4. /\ i \in 1..(Len(a) + Len(b))
      /\ i <= Len(a) => (a \o b)[i] = a[i]
      /\ i > Len(a) => (a \o b)[i] = b[i - Len(a)]
  BY <1>1, <1>2, <1>3, JoinedAt
<1>5. CASE i <= Len(a)
  <2>1. i \in 1..(k - 1) /\ i \in 1..Len(s)
    BY <1>1, <1>4, <1>5
  <2> QED
    BY <1>1, <1>3, <1>4, <1>5, <2>1
<1>6. CASE i > Len(a)
  <2>1. i - Len(a) \in 1..(Len(s) - k) /\ k + (i - Len(a)) \in 1..Len(s)
    BY <1>1, <1>2, <1>4, <1>6
  <2> QED
    BY <1>2, <1>3, <1>4, <1>6, <2>1
<1> QED
  BY <1>1, <1>4, <1>5, <1>6

\* Starting a checker on a queue it will take from, and ending one.
LEMMA CheckerAdded ==
    ASSUME NEW s \in Session, Judged(s), Takes(Snapshot(s)),
           NEW k \in 1..Len(Append(s.checkers, Snapshot(s)))
    PROVE  Takes(Append(s.checkers, Snapshot(s))[k])
<1>1. s.checkers \in Seq(Reading)
  BY DEF Session
<1>2. CASE k \in 1..Len(s.checkers)
  BY <1>1, <1>2 DEF Judged
<1>3. CASE k = Len(s.checkers) + 1
  BY <1>1, <1>3
<1> QED
  BY <1>1, <1>2, <1>3

LEMMA CheckerRemoved ==
    ASSUME NEW s \in Session, Judged(s), NEW k \in 1..Len(s.checkers), NEW i \in 1..Len(RemoveAt(s.checkers, k))
    PROVE  Takes(RemoveAt(s.checkers, k)[i])
<1>1. s.checkers \in Seq(Reading)
  BY DEF Session
<1>2. PICK j \in 1..Len(s.checkers) : RemoveAt(s.checkers, k)[i] = s.checkers[j]
  BY <1>1, RemovedFrom
<1> QED
  BY <1>2 DEF Judged

LEMMA WouldTake ==
    ASSUME Typed, Counted, Reasoned, NEW n \in SessionId, MayFollowUp(sessions[n])
    PROVE  Takes(Snapshot(sessions[n]))
  BY DEF Counted, Reasoned, Judged, Takes, Snapshot

LEMMA RouterJudged ==
    ASSUME Typed, Typed', Counted, Reasoned, NEW r \in Routers, RouterStep(r), NEW n \in SessionId
    PROVE  Judged(sessions'[n])
<1>0. /\ sessions \in [SessionId -> Session] /\ sessions[n] \in Session /\ sessions'[n] \in Session
      /\ Judged(sessions[n])
  BY DEF Typed, SessionsOK, Reasoned
<1>1. ASSUME sessions'[n] = sessions[n] PROVE Judged(sessions'[n])
  BY <1>0, <1>1
<1>2. CASE Reads(r)
  BY <1>1, <1>2, ReadsKeep
<1>3. CASE Wake(r)
  <2>1. CASE sessions' = sessions
    BY <1>1, <2>1
  <2>2. CASE sessions[routers[r].session].status = "Steering" /\ sessions' = StartChecker(routers[r].session)
    <3>1. CASE n # routers[r].session
      BY <1>0, <1>1, <2>2, <3>1 DEF StartChecker
    <3>2. CASE n = routers[r].session
      <4>1. sessions'[n] = [sessions[n] EXCEPT !.checkers = Append(sessions[n].checkers, Snapshot(sessions[n]))]
        BY <1>0, <2>2, <3>2 DEF StartChecker
      <4>2. Takes(Snapshot(sessions[n]))
        BY <2>2, <3>2, WouldTake DEF MayFollowUp
      <4>3. sessions'[n].checkers = Append(sessions[n].checkers, Snapshot(sessions[n]))
        BY <1>0, <4>1 DEF Session
      <4>4. \A k \in 1..Len(sessions'[n].checkers) : Takes(sessions'[n].checkers[k])
        BY <1>0, <4>2, <4>3, CheckerAdded
      <4>5. /\ sessions'[n].status = sessions[n].status /\ sessions'[n].followUps = sessions[n].followUps
            /\ sessions'[n].read = sessions[n].read /\ sessions'[n].queue = sessions[n].queue
        BY <1>0, <4>1 DEF Session
      <4> QED
        BY <1>0, <4>4, <4>5, JudgedMoves
    <3> QED
      BY <3>1, <3>2
  <2> QED
    BY <1>3, <2>1, <2>2 DEF Wake
<1>4. CASE Steer(r)
  <2>1. CASE n # routers[r].session
    BY <1>0, <1>1, <1>4, <2>1 DEF Steer, SteerWith
  <2>2. CASE n = routers[r].session
    <3> DEFINE q == Append(routers[r].queue, routers[r].message)
    <3>1. sessions'[n] = [sessions[n] EXCEPT !.queue = q] /\ sessions[n].status \in SteerFrom
      BY <1>0, <1>4, <2>2 DEF Steer, SteerWith
    <3>2. routers[r].queue \in Seq(Message) /\ routers[r].message \in Message
      BY <1>4 DEF Typed, RoutersOK, Router, Steer, SteerWith, At
    <3>3. q # <<>>
      <4>1. Len(q) = Len(routers[r].queue) + 1 /\ Len(routers[r].queue) \in Nat
        BY <3>2
      <4> HIDE DEF q
      <4>2. Len(q) # 0
        BY <4>1
      <4>3. Len(<<>>) = 0
        OBVIOUS
      <4> QED
        BY <4>2, <4>3
    <3> HIDE DEF q
    <3>4. /\ sessions'[n].status = sessions[n].status /\ sessions'[n].followUps = sessions[n].followUps
          /\ sessions'[n].read = sessions[n].read /\ sessions'[n].queue = q
          /\ sessions'[n].checkers = sessions[n].checkers
      BY <1>0, <3>1 DEF Session
    <3> QED
      BY <1>0, <3>3, <3>4 DEF Judged, MayFollowUp
  <2> QED
    BY <2>1, <2>2
<1>5. ASSUME NEW m, NEW status \in {"Created", "Ended"}, sessions' = [sessions EXCEPT ![m].status = status]
      PROVE  Judged(sessions'[n])
  <2>1. CASE m = n
    <3>1. /\ sessions'[n].status = status /\ sessions'[n].followUps = sessions[n].followUps
          /\ sessions'[n].read = sessions[n].read /\ sessions'[n].queue = sessions[n].queue
          /\ sessions'[n].checkers = sessions[n].checkers
      BY <1>0, <1>5, <2>1 DEF Session
    <3>2. \A k \in 1..Len(sessions'[n].checkers) : Takes(sessions'[n].checkers[k])
      BY <1>0, <3>1 DEF Judged
    <3> QED
      BY <1>0, <3>1, <3>2, JudgedMoves
  <2>2. CASE m # n
    BY <1>0, <1>1, <1>5, <2>2
  <2> QED
    BY <2>1, <2>2
<1>6. CASE CancelSession(r)
  <2>1. \/ sessions' = sessions
        \/ sessions' = [sessions EXCEPT ![routers[r].session].status = "Ended"]
    BY <1>6 DEF CancelSession
  <2> QED
    BY <1>1, <1>5, <2>1
<1>7. CASE StartSession(r)
  BY <1>5, <1>7 DEF StartSession, Starting
<1> QED
  BY <1>2, <1>3, <1>4, <1>6, <1>7 DEF RouterStep, Reads

LEMMA SessionJudged ==
    ASSUME Typed, Typed', Counted, Reasoned, NEW m \in SessionId, SessionStep(m), NEW n \in SessionId
    PROVE  Judged(sessions'[n])
<1>0. /\ sessions \in [SessionId -> Session] /\ sessions[n] \in Session /\ sessions'[n] \in Session
      /\ Judged(sessions[n])
  BY DEF Typed, SessionsOK, Reasoned
<1>1. ASSUME sessions'[n] = sessions[n] PROVE Judged(sessions'[n])
  BY <1>0, <1>1
<1>2. ASSUME NEW from, NEW to \in Statuses \ {"ApplyingProviderResponse", "Steering", "Completed"}, Moves(m, from, to)
      PROVE  Judged(sessions'[n])
  <2>1. CASE m = n
    <3>1. /\ sessions'[n].status = to /\ sessions'[n].followUps = sessions[n].followUps
          /\ sessions'[n].read = sessions[n].read /\ sessions'[n].queue = sessions[n].queue
          /\ sessions'[n].checkers = sessions[n].checkers
      BY <1>0, <1>2, <2>1 DEF Moves, Session
    <3>2. \A k \in 1..Len(sessions'[n].checkers) : Takes(sessions'[n].checkers[k])
      BY <1>0, <3>1 DEF Judged
    <3> QED
      BY <1>0, <3>1, <3>2, JudgedMoves
  <2>2. CASE m # n
    BY <1>0, <1>1, <1>2, <2>2 DEF Moves
  <2> QED
    BY <2>1, <2>2
<1>3. CASE \/ Provisioned(m) \/ NeedsAuth(m) \/ AuthReady(m) \/ Pauses(m) \/ Resumes(m)
           \/ ToolsCalled(m) \/ Recovered(m) \/ EndsOtherwise(m)
  BY <1>2, <1>3 DEF Provisioned, NeedsAuth, AuthReady, Pauses, Resumes, ToolsCalled, Recovered,
     EndsOtherwise, Statuses, Terminal
<1>4. CASE ProviderResponseReady(m)
  <2>1. CASE m = n
    <3>1. /\ sessions'[n].status = "ApplyingProviderResponse" /\ sessions'[n].read = Snapshot(sessions[n])
          /\ sessions'[n].followUps = sessions[n].followUps /\ sessions'[n].queue = sessions[n].queue
          /\ sessions'[n].checkers = sessions[n].checkers
      BY <1>0, <1>4, <2>1 DEF ProviderResponseReady, Session
    <3>2. MayFollowUp(sessions'[n]) => sessions'[n].queue # <<>>
      BY <3>1 DEF MayFollowUp, ShouldCheckSteering, Snapshot
    <3> QED
      BY <1>0, <3>1, <3>2 DEF Judged, Snapshot
  <2>2. CASE m # n
    BY <1>0, <1>1, <1>4, <2>2 DEF ProviderResponseReady
  <2> QED
    BY <2>1, <2>2
<1>5. CASE RecordResult(m)
  <2>1. CASE m = n
    <3>1. /\ sessions'[n].status = "Completed" /\ sessions'[n].followUps = sessions[n].followUps
          /\ sessions'[n].read = sessions[n].read /\ sessions'[n].queue = sessions[n].queue
          /\ sessions'[n].checkers = sessions[n].checkers
          /\ sessions[n].status = "ApplyingProviderResponse" /\ ~ShouldCheckSteering(sessions[n].read)
      BY <1>0, <1>5, <2>1 DEF RecordResult, Moves, Session
    <3>2. sessions[n].read.followUps = sessions[n].followUps /\ sessions[n].followUps \in Nat
      BY <1>0, <3>1 DEF Judged, Session
    <3>3. sessions'[n].followUps >= MaxFollowUps \/ sessions'[n].read.queue = <<>>
      <4>1. ~(sessions[n].followUps < MaxFollowUps) \/ sessions[n].read.queue = <<>>
        BY <3>1, <3>2 DEF ShouldCheckSteering
      <4>2. ~(sessions[n].followUps < MaxFollowUps) => sessions[n].followUps >= MaxFollowUps
        BY <3>2, ThreadBounds
      <4> QED
        BY <3>1, <4>1, <4>2
    <3> QED
      BY <1>0, <3>1, <3>3 DEF Judged, MayFollowUp
  <2>2. CASE m # n
    BY <1>0, <1>1, <1>5, <2>2 DEF RecordResult, Moves
  <2> QED
    BY <2>1, <2>2
<1>6. CASE CheckSteering(m)
  <2>1. CASE m = n
    <3>1. Takes(Snapshot(sessions[n])) /\ sessions[n].queue # <<>>
      BY <1>0, <1>6, <2>1, WouldTake DEF CheckSteering, MayFollowUp, Judged
    <3>2. StartChecker(n) = [sessions EXCEPT ![n].checkers = Append(sessions[n].checkers, Snapshot(sessions[n]))]
      BY DEF StartChecker
    <3>3. StartChecker(n) \in [SessionId -> Session]
      BY CheckerType DEF Typed
    <3>4. sessions'[n] = [StartChecker(n)[n] EXCEPT !.status = "Steering"]
      BY <1>6, <2>1, <3>3 DEF CheckSteering
    <3>5. StartChecker(n)[n] = [sessions[n] EXCEPT !.checkers = Append(sessions[n].checkers, Snapshot(sessions[n]))]
      BY <1>0, <3>2
    <3>6. /\ sessions'[n].status = "Steering" /\ sessions'[n].queue = sessions[n].queue
          /\ sessions'[n].checkers = Append(sessions[n].checkers, Snapshot(sessions[n]))
      BY <1>0, <3>3, <3>4, <3>5 DEF Session
    <3>7. \A k \in 1..Len(sessions'[n].checkers) : Takes(sessions'[n].checkers[k])
      BY <1>0, <3>1, <3>6, CheckerAdded
    <3> QED
      BY <3>1, <3>6, <3>7 DEF Judged
  <2>2. CASE m # n
    BY <1>0, <1>1, <1>6, <2>2 DEF CheckSteering, StartChecker
  <2> QED
    BY <2>1, <2>2
<1>7. ASSUME NEW k \in 1..Len(sessions[m].checkers),
             ContinueWithSteering(m, k) \/ FinalizeResult(m, k) \/ CallbackRejected(m, k)
      PROVE  Judged(sessions'[n])
  <2>1. CASE m = n
    <3>1. ~FinalizeResult(n, k)
      BY <1>0, <1>7, <2>1 DEF FinalizeResult, Judged
    <3>2. ASSUME sessions'[n].checkers = RemoveAt(sessions[n].checkers, k)
          PROVE  \A i \in 1..Len(sessions'[n].checkers) : Takes(sessions'[n].checkers[i])
      BY <1>0, <1>7, <2>1, <3>2, CheckerRemoved
    <3>3. CASE ContinueWithSteering(n, k)
      <4>1. /\ sessions'[n].status = "PreparingContext"
            /\ sessions'[n].checkers = RemoveAt(sessions[n].checkers, k)
        BY <1>0, <3>3 DEF ContinueWithSteering, Continues, Session
      <4> QED
        BY <3>2, <4>1 DEF Judged, MayFollowUp
    <3>4. CASE CallbackRejected(n, k)
      <4>1. /\ sessions'[n].status = sessions[n].status /\ sessions'[n].followUps = sessions[n].followUps
            /\ sessions'[n].read = sessions[n].read /\ sessions'[n].queue = sessions[n].queue
            /\ sessions'[n].checkers = RemoveAt(sessions[n].checkers, k)
        BY <1>0, <3>4 DEF CallbackRejected, CheckerEnds, Session
      <4> QED
        BY <1>0, <3>2, <4>1, JudgedMoves
    <3> QED
      BY <1>7, <2>1, <3>1, <3>3, <3>4
  <2>2. CASE m # n
    BY <1>0, <1>1, <1>7, <2>2 DEF ContinueWithSteering, Continues, FinalizeResult, CallbackRejected, CheckerEnds
  <2> QED
    BY <2>1, <2>2
<1> QED
  BY <1>3, <1>4, <1>5, <1>6, <1>7 DEF SessionStep

LEMMA ReasonedStep == Typed /\ Typed' /\ Counted /\ Reasoned /\ [Next]_vars => Reasoned'
<1> SUFFICES ASSUME Typed, Typed', Counted, Reasoned, [Next]_vars, NEW n \in SessionId
             PROVE  Judged(sessions'[n])
  BY DEF Reasoned
<1>0. /\ sessions \in [SessionId -> Session] /\ sessions[n] \in Session /\ sessions'[n] \in Session
      /\ Judged(sessions[n])
  BY DEF Typed, SessionsOK, Reasoned
<1>1. CASE sessions' = sessions
  BY <1>0, <1>1
<1>2. CASE Crash
  <2>1. PICK failed \in SUBSET LiveSessions :
          sessions' = [m \in SessionId |->
            IF ~Live(m) THEN [sessions[m] EXCEPT !.checkers = <<>>]
            ELSE [sessions[m] EXCEPT !.checkers = <<>>,
                                     !.status = IF m \in failed THEN "Ended" ELSE "Recovering"]]
    BY <1>2 DEF Crash
  <2>2. /\ sessions'[n].followUps = sessions[n].followUps /\ sessions'[n].read = sessions[n].read
        /\ sessions'[n].queue = sessions[n].queue /\ sessions'[n].checkers = <<>>
        /\ sessions'[n].status = sessions[n].status \/ sessions'[n].status \in {"Ended", "Recovering"}
    BY <1>0, <2>1 DEF Session
  <2>3. \A k \in 1..Len(sessions'[n].checkers) : Takes(sessions'[n].checkers[k])
    BY <2>2
  <2> QED
    BY <1>0, <2>2, <2>3, JudgedMoves
<1> QED
  BY <1>1, <1>2, RouterJudged, SessionJudged DEF Next, ReceiveMessage, vars, thread

-----------------------------------------------------------------------------
(***************************************************************************)
(* What becomes of messages.                                               *)
(***************************************************************************)
LEMMA AppendOnce ==
    ASSUME NEW S, NEW s \in Seq(S), NEW e \in S
    PROVE  /\ Range(Append(s, e)) = Range(s) \cup {e}
           /\ IsInjective(s) /\ e \notin Range(s) => IsInjective(Append(s, e))
<1>1. Append(s, e) \in Seq(S) /\ Len(Append(s, e)) = Len(s) + 1 /\ Len(s) \in Nat
  OBVIOUS
<1>2. DOMAIN s = 1..Len(s) /\ DOMAIN Append(s, e) = 1..(Len(s) + 1)
  BY <1>1
<1>3. \A i \in 1..Len(s) : Append(s, e)[i] = s[i]
  OBVIOUS
<1>4. Append(s, e)[Len(s) + 1] = e
  OBVIOUS
<1>5. \A i \in 1..(Len(s) + 1) : i \in 1..Len(s) \/ i = Len(s) + 1
  BY <1>1
<1>6. 1..Len(s) \subseteq 1..(Len(s) + 1) /\ Len(s) + 1 \in 1..(Len(s) + 1)
  BY <1>1
<1>7. Range(Append(s, e)) = Range(s) \cup {e}
  BY <1>2, <1>3, <1>4, <1>5, <1>6 DEF Range
<1>8. IsInjective(s) /\ e \notin Range(s) => IsInjective(Append(s, e))
  BY <1>2, <1>3, <1>4, <1>5, <1>6 DEF IsInjective, Range
<1> QED
  BY <1>7, <1>8

LEMMA TailOnce ==
    ASSUME NEW S, NEW s \in Seq(S), s # <<>>
    PROVE  /\ Head(s) \in S /\ Range(s) = {Head(s)} \cup Range(Tail(s))
           /\ IsInjective(s) => IsInjective(Tail(s)) /\ Head(s) \notin Range(Tail(s))
<1>1. Len(s) \in Nat \ {0} /\ Tail(s) \in Seq(S) /\ Len(Tail(s)) = Len(s) - 1
  OBVIOUS
<1>2. DOMAIN s = 1..Len(s) /\ DOMAIN Tail(s) = 1..(Len(s) - 1)
  BY <1>1
<1>3. \A i \in 1..(Len(s) - 1) : Tail(s)[i] = s[i + 1]
  OBVIOUS
<1>4. Head(s) = s[1] /\ Head(s) \in S
  BY <1>1
<1>5. \A i \in 1..Len(s) : i = 1 \/ (i - 1 \in 1..(Len(s) - 1) /\ (i - 1) + 1 = i)
  BY <1>1
<1>6. \A i \in 1..(Len(s) - 1) : i + 1 \in 1..Len(s) /\ i + 1 # 1
  BY <1>1
<1>7. 1 \in 1..Len(s)
  BY <1>1
<1>8. Range(s) = {Head(s)} \cup Range(Tail(s))
  <2>1. ASSUME NEW i \in 1..Len(s)
        PROVE  s[i] = Head(s) \/ s[i] \in Range(Tail(s))
    <3>1. CASE i = 1
      BY <1>4, <3>1
    <3>2. CASE i # 1
      <4>1. i - 1 \in 1..(Len(s) - 1) /\ (i - 1) + 1 = i
        BY <1>5, <3>2
      <4>2. Tail(s)[i - 1] = s[i]
        BY <1>3, <4>1
      <4> QED
        BY <1>2, <4>1, <4>2 DEF Range
    <3> QED
      BY <3>1, <3>2
  <2>2. Range(s) \subseteq {Head(s)} \cup Range(Tail(s))
    BY <1>2, <2>1 DEF Range
  <2>3. \A i \in 1..(Len(s) - 1) : Tail(s)[i] \in Range(s)
    BY <1>2, <1>3, <1>6 DEF Range
  <2>4. Range(Tail(s)) \subseteq Range(s)
    BY <1>2, <2>3 DEF Range
  <2>5. Head(s) \in Range(s)
    BY <1>2, <1>4, <1>7 DEF Range
  <2> QED
    BY <2>2, <2>4, <2>5
<1>9. IsInjective(s) => Head(s) \notin Range(Tail(s))
  BY <1>2, <1>3, <1>4, <1>6, <1>7 DEF Range, IsInjective
<1>10. IsInjective(s) => IsInjective(Tail(s))
  <2> SUFFICES ASSUME IsInjective(s), NEW i \in 1..(Len(s) - 1), NEW j \in 1..(Len(s) - 1), Tail(s)[i] = Tail(s)[j]
               PROVE  i = j
    BY <1>2 DEF IsInjective
  <2>1. s[i + 1] = s[j + 1]
    BY <1>3
  <2>2. i + 1 = j + 1
    BY <1>2, <1>6, <2>1 DEF IsInjective
  <2> QED
    BY <1>1, <2>2
<1> QED
  BY <1>4, <1>8, <1>9, <1>10
\* Nothing is dropped from a queue: an agent heard the message, or a session
\* queues it.  That a session does not end over it is Reasoned.
Queued(m) == \E n \in SessionId : m \in Range(sessions[n].queue)
Kept(m)   == m \in Range(heard) \/ Queued(m)
AllKept   == ~overwritten => \A m \in accepted : Kept(m)

LEMMA SequencesOfMessages ==
    ASSUME Typed
    PROVE  heard \in Seq(Message) /\ \A n \in SessionId : sessions[n].queue \in Seq(Message)
  BY DEF Typed, SessionsOK, BooksOK, Session

\* Overwriting is remembered.
LEMMA OverwrittenStays ==
    ASSUME Typed, Next, ~overwritten'
    PROVE  ~overwritten
<1>1. CASE Steers
  BY <1>1 DEF Steers, Steer, SteerWith
<1>2. CASE Starts
  BY <1>2, StartEffect DEF Starts
<1>3. CASE TakesUp
  BY <1>3 DEF TakesUp, ContinueWithSteering, Continues
<1>4. CASE ~Steers /\ ~Starts /\ ~TakesUp
  BY <1>4, QuietStep DEF Quiet
<1> QED
  BY <1>1, <1>2, <1>3, <1>4

LEMMA AcceptedStep == Typed /\ AllKept /\ [Next]_vars => AllKept'
<1> SUFFICES ASSUME Typed, AllKept, [Next]_vars, ~overwritten', NEW m \in accepted'
             PROVE  Kept(m)'
  BY DEF AllKept, Kept, Queued
<1>1. CASE UNCHANGED vars
  BY <1>1 DEF vars, thread, AllKept, Kept, Queued
<1>2. CASE Next
  <2>1. m \in accepted => Kept(m)
    BY <1>2, OverwrittenStays DEF AllKept, Kept, Queued
  <2>2. CASE ~Steers /\ ~Starts /\ ~TakesUp
    BY <1>2, <2>1, <2>2, QuietStep DEF Quiet, QueuesKept, Kept, Queued
  <2>3. ASSUME NEW r \in Routers, Steer(r)
        PROVE  Kept(m)'
    <3> DEFINE n == routers[r].session
    <3>1. /\ sessions'[n].queue = Append(sessions[n].queue, routers[r].message)
          /\ n \in SessionId /\ routers[r].message \in Message /\ UNCHANGED heard
          /\ m \in accepted \cup {routers[r].message}
          /\ \A q \in SessionId \ {n} : sessions'[q].queue = sessions[q].queue
      BY <2>3, SteerEffect
    <3>2. Range(sessions'[n].queue) = Range(sessions[n].queue) \cup {routers[r].message}
      BY <3>1, AppendOnce, SequencesOfMessages
    <3> HIDE DEF n
    <3>3. m \in Range(heard') \/ \E q \in SessionId : m \in Range(sessions'[q].queue)
      BY <2>1, <3>1, <3>2 DEF Kept, Queued
    <3> QED
      BY <3>3 DEF Kept, Queued
  <2>4. ASSUME NEW r \in Routers, StartSession(r)
        PROVE  Kept(m)'
    <3>1. /\ heard' = Append(heard, routers[r].message) /\ routers[r].message \in Message
          /\ m \in accepted \cup {routers[r].message} /\ QueuesKept
      BY <2>4, StartEffect
    <3>2. Range(heard') = Range(heard) \cup {routers[r].message}
      BY <3>1, AppendOnce, SequencesOfMessages
    <3> QED
      BY <2>1, <3>1, <3>2 DEF QueuesKept, Kept, Queued
  <2>5. ASSUME NEW n \in SessionId, NEW k \in 1..Len(sessions[n].checkers), ContinueWithSteering(n, k)
        PROVE  Kept(m)'
    <3>1. /\ sessions[n].queue # <<>> /\ heard' = Append(heard, Head(sessions[n].queue))
          /\ sessions'[n].queue = Tail(sessions[n].queue) /\ m \in accepted
          /\ \A q \in SessionId \ {n} : sessions'[q] = sessions[q]
      BY <2>5, TakeEffect
    <3>2. /\ Head(sessions[n].queue) \in Message
          /\ Range(sessions[n].queue) = {Head(sessions[n].queue)} \cup Range(sessions'[n].queue)
      BY <3>1, TailOnce, SequencesOfMessages
    <3>3. Range(heard') = Range(heard) \cup {Head(sessions[n].queue)}
      BY <3>1, <3>2, AppendOnce, SequencesOfMessages
    <3>4. m \in Range(heard') \/ \E q \in SessionId : m \in Range(sessions'[q].queue)
      BY <2>1, <3>1, <3>2, <3>3 DEF Kept, Queued
    <3> QED
      BY <3>4 DEF Kept, Queued
  <2> QED
    BY <2>2, <2>3, <2>4, <2>5 DEF Steers, Starts, TakesUp
<1> QED
  BY <1>1, <1>2

\* An accepted message is heard or waits, or its session ended otherwise than
\* with its answer, without a follow-up left, or with an applier that had started
\* before it came; as long as no writer replaced a queue it had not read.
THEOREM AcceptedMessagesKept == Spec => []AcceptedIsKept
<1>1. Init => AllKept
  BY DEF Init, AllKept
<1>2. AllKept /\ Reasoned => AcceptedIsKept
  <2>1. Range(<<>>) = {}
    BY DEF Range
  <2> QED
    BY <2>1 DEF AllKept, Kept, Queued, Reasoned, Judged, AcceptedIsKept, WaitsIn
<1> QED
  BY <1>1, <1>2, TypedInit, TypedStep, CountedInit, CountedStep, ReasonedInit, ReasonedStep, AcceptedStep, PTL DEF Spec

\* A message on its way: its invocation has not got it accepted yet.
OnItsWay(r) == routers[r] # Idle /\ routers[r].at \notin {"bind", "rebind"}

\* Where a message is: on its way, in one place of one queue, or heard once.
OnePlace ==
    /\ \A r \in Routers : OnItsWay(r) => routers[r].message \notin accepted
    /\ \A r, q \in Routers : OnItsWay(r) /\ OnItsWay(q) /\ routers[r].message = routers[q].message => r = q
    /\ Range(heard) \subseteq accepted /\ IsInjective(heard)
    /\ \A n \in SessionId :
        /\ Range(sessions[n].queue) \subseteq accepted /\ IsInjective(sessions[n].queue)
        /\ Range(sessions[n].queue) \cap Range(heard) = {}
        /\ \A m \in SessionId \ {n} : Range(sessions[n].queue) \cap Range(sessions[m].queue) = {}
MessagesOnce == faults \in Nat /\ (~overwritten /\ faults = 0 => OnePlace)
LEMMA OnItsWayStep ==
    ASSUME Typed, Next, faults \in Nat
    PROVE  /\ faults' \in Nat /\ (faults' = 0 => faults = 0)
           /\ \/ \E r \in Routers, command \in Commands : ReceiveMessage(r, command)
              \/ \A q \in Routers : OnItsWay(q)' => OnItsWay(q) /\ routers'[q].message = routers[q].message
<1>1. faults' \in Nat /\ (faults' = 0 => faults = 0)
  <2>1. faults' = faults \/ faults' = faults + 1
    <3>1. ASSUME NEW r \in Routers, RouterStep(r)
          PROVE  faults' = faults \/ faults' = faults + 1
      BY <3>1 DEF RouterStep, FindActiveSession, FetchStatus, SessionUnreadable, Wake, SwitchMode,
         GetQueue, Steer, SteerWith, SteerRefused, CancelSession, ExpireBinding, StartSession, Starting,
         CreateChannelSession, UpdateSessionBinding, Rebinding, RouteFailed, CallFails, spent
    <3> QED
      BY <3>1, SessionKeeps DEF Next, ReceiveMessage, Crash, spent
  <2> QED
    BY <2>1
<1>2. ASSUME NEW r \in Routers, RouterStep(r), NEW q \in Routers, OnItsWay(q)'
      PROVE  OnItsWay(q) /\ routers'[q].message = routers[q].message
  <2>1. routers[r] \in Router /\ routers[r] # Idle
    BY <1>2 DEF RouterStep, FindActiveSession, FetchStatus, SessionUnreadable, Wake, SwitchMode,
       GetQueue, Steer, SteerWith, SteerRefused, CancelSession, ExpireBinding, StartSession, Starting,
       CreateChannelSession, UpdateSessionBinding, Rebinding, RouteFailed, At, Typed, RoutersOK
  <2>2. \A p \in Routers \ {r} : routers'[p] = routers[p]
    BY <1>2, <2>1, EndsOrGoesStep DEF RouterStep, FindActiveSession, GetQueue, NotSteered, Done, Goes,
       ExpireBinding, StartSession, BindTo, EndsOrGoes, Typed, RoutersOK
  <2>3. CASE q # r
    BY <1>2, <2>2, <2>3 DEF OnItsWay
  <2>4. CASE q = r
    <3>1. routers'[r] # Idle /\ routers'[r].at \notin {"bind", "rebind"}
      BY <1>2, <2>4 DEF OnItsWay
    <3>2. ASSUME NEW place, Goes(r, place)
          PROVE  routers'[r].message = routers[r].message
      BY <2>1, <3>2 DEF Goes, Typed, RoutersOK, Router
    <3>3. ~Done(r, "routed") /\ ~Done(r, "failed") /\ routers' # [routers EXCEPT ![r] = Idle]
      BY <3>1 DEF Done, Typed, RoutersOK
    <3>4. CASE FindActiveSession(r)
      <4>1. routers[r].at = "find"
        BY <3>4 DEF FindActiveSession, At
      <4>2. CASE Goes(r, "create")
        BY <2>1, <2>4, <3>2, <4>1, <4>2 DEF OnItsWay
      <4>3. CASE ~Goes(r, "create")
        <5>1. PICK b \in ActiveBindings :
                routers' = [routers EXCEPT ![r].binding = b, ![r].session = bindings[b].session,
                                           ![r].at = IF routers[r].command = "reset" THEN "cancel" ELSE "fetch"]
          BY <3>4, <4>3 DEF FindActiveSession
        <5>2. routers'[r] = [routers[r] EXCEPT !.binding = b, !.session = bindings[b].session,
                                               !.at = IF routers[r].command = "reset" THEN "cancel" ELSE "fetch"]
          BY <5>1 DEF Typed, RoutersOK
        <5>3. routers'[r].message = routers[r].message
          BY <2>1, <5>2 DEF Router
        <5> QED
          BY <2>1, <2>4, <4>1, <5>3 DEF OnItsWay
      <4> QED
        BY <4>2, <4>3
    <3>5. CASE GetQueue(r)
      <4>1. routers[r].at = "get"
        BY <3>5 DEF GetQueue, At
      <4>2. routers'[r].message = routers[r].message
        BY <2>1, <3>2, <3>3, <3>5 DEF GetQueue, NotSteered, Typed, RoutersOK, Router
      <4> QED
        BY <2>1, <2>4, <4>1, <4>2 DEF OnItsWay
    <3>6. CASE StartSession(r)
      <4>1. routers'[r].at \in {"bind", "rebind"}
        BY <2>1, <3>6 DEF StartSession, BindTo, Typed, RoutersOK, Router
      <4> QED
        BY <3>1, <4>1
    <3>7. CASE ExpireBinding(r)
      BY <2>1, <2>4, <3>2, <3>7 DEF ExpireBinding, At, OnItsWay
    <3>8. CASE CreateChannelSession(r) \/ UpdateSessionBinding(r) \/ RouteFailed(r)
      BY <3>3, <3>8 DEF CreateChannelSession, UpdateSessionBinding, RouteFailed
    <3>9. CASE \/ FetchStatus(r) \/ SessionUnreadable(r) \/ Wake(r) \/ SwitchMode(r) \/ Steer(r)
               \/ SteerRefused(r) \/ CancelSession(r)
      <4>1. routers[r].at \notin {"bind", "rebind"}
        BY <3>9 DEF FetchStatus, SessionUnreadable, Wake, SwitchMode, Steer, SteerWith, SteerRefused,
           CancelSession, At
      <4>2. routers'[r].message = routers[r].message
        BY <2>1, <3>2, <3>3, <3>9, EndsOrGoesStep DEF EndsOrGoes
      <4> QED
        BY <2>1, <2>4, <4>1, <4>2 DEF OnItsWay
    <3> QED
      BY <1>2, <3>4, <3>5, <3>6, <3>7, <3>8, <3>9 DEF RouterStep
  <2> QED
    BY <2>3, <2>4
<1>3. ASSUME UNCHANGED routers, NEW q \in Routers, OnItsWay(q)'
      PROVE  OnItsWay(q) /\ routers'[q].message = routers[q].message
  BY <1>3 DEF OnItsWay
<1>4. ASSUME Crash, NEW q \in Routers
      PROVE  ~OnItsWay(q)'
  BY <1>4 DEF OnItsWay, Crash
<1> QED
  BY <1>1, <1>2, <1>3, <1>4, SessionKeeps DEF Next

\* Without a lost answer an invocation ends when its message is accepted.
LEMMA AcceptedEnds ==
    ASSUME Typed, faults \in Nat, faults' = 0, NEW r \in Routers, Steer(r) \/ StartSession(r)
    PROVE  OnItsWay(r) /\ ~OnItsWay(r)'
<1>1. CASE Steer(r)
  <2>1. routers' = [routers EXCEPT ![r] = Idle]
    BY <1>1 DEF Steer, SteerWith, CallFails, Done
  <2> QED
    BY <1>1, <2>1 DEF Steer, SteerWith, At, OnItsWay, Typed, RoutersOK
<1>2. CASE StartSession(r)
  <2>1. routers[r] \in Router /\ routers[r] # Idle /\ routers[r].at \in {"create", "continue"}
    BY <1>2 DEF StartSession, Starting, At, Typed, RoutersOK
  <2>2. routers'[r].at \in {"bind", "rebind"}
    BY <1>2, <2>1 DEF StartSession, BindTo, Typed, RoutersOK, Router
  <2> QED
    BY <2>1, <2>2 DEF OnItsWay
<1> QED
  BY <1>1, <1>2

\* The messages on their way stay different, and unaccepted, when a step accepts
\* none of them.
OnWayApart ==
    /\ \A r \in Routers : OnItsWay(r) => routers[r].message \notin accepted
    /\ \A r, q \in Routers : OnItsWay(r) /\ OnItsWay(q) /\ routers[r].message = routers[q].message => r = q

LEMMA OnWayApartStep ==
    ASSUME Typed, Next, faults \in Nat, faults' = 0, OnWayApart
    PROVE  OnWayApart'
<1>1. ASSUME NEW r \in Routers, NEW command \in Commands, ReceiveMessage(r, command)
      PROVE  OnWayApart'
  <2>1. /\ arrived' = arrived + 1 /\ accepted' = accepted
        /\ routers' = [routers EXCEPT ![r] = NewRouter(arrived', command)]
    BY <1>1 DEF ReceiveMessage
  <2>2. routers'[r].message = arrived + 1 /\ \A q \in Routers \ {r} : routers'[q] = routers[q]
    BY <2>1 DEF NewRouter, Typed, RoutersOK
  <2>3. arrived \in Nat /\ arrived + 1 \notin accepted
    BY ThreadBounds DEF Typed, BooksOK
  <2>4. ASSUME NEW q \in Routers, OnItsWay(q)
        PROVE  routers[q].message # arrived + 1
    <3>1. routers[q].message <= arrived /\ routers[q].message \in Nat
      BY <2>4, ThreadBounds DEF OnItsWay, Typed, InTime, RoutersOK, Router, Message
    <3> QED
      BY <2>3, <3>1
  <2>5. \A q \in Routers \ {r} : OnItsWay(q)' <=> OnItsWay(q)
    BY <2>2 DEF OnItsWay
  <2> QED
    BY <2>1, <2>2, <2>3, <2>4, <2>5 DEF OnWayApart
<1>2. ASSUME \A q \in Routers : OnItsWay(q)' => OnItsWay(q) /\ routers'[q].message = routers[q].message
      PROVE  OnWayApart'
  <2>1. CASE accepted' = accepted
    BY <1>2, <2>1 DEF OnWayApart
  <2>2. ASSUME NEW r \in Routers, Steer(r) \/ StartSession(r)
        PROVE  OnWayApart'
    <3>1. accepted' = accepted \cup {routers[r].message}
      BY <2>2, SteerEffect, StartEffect
    <3>2. OnItsWay(r) /\ ~OnItsWay(r)'
      BY <2>2, AcceptedEnds
    <3> QED
      BY <1>2, <3>1, <3>2 DEF OnWayApart
  <2> QED
    BY <2>1, <2>2, QuietStep, TakeEffect DEF Quiet, Steers, Starts, TakesUp
<1> QED
  BY <1>1, <1>2, OnItsWayStep

LEMMA OnceInit == Init => MessagesOnce
<1> SUFFICES ASSUME Init PROVE MessagesOnce
  OBVIOUS
<1>1. Range(<<>>) = {} /\ IsInjective(<<>>)
  BY DEF Range, IsInjective
<1>2. heard = <<>> /\ \A n \in SessionId : sessions[n].queue = <<>>
  BY DEF Init, Unused
<1>3. \A r \in Routers : ~OnItsWay(r)
  BY DEF Init, OnItsWay
<1>4. OnePlace
  BY <1>1, <1>2, <1>3 DEF OnePlace
<1>5. faults \in Nat
  BY DEF Init
<1> QED
  BY <1>4, <1>5 DEF MessagesOnce

LEMMA OnceStep == Typed /\ MessagesOnce /\ [Next]_vars => MessagesOnce'
<1>1. CASE UNCHANGED vars
  <2>1. OnePlace' <=> OnePlace
    BY <1>1 DEF vars, thread, OnePlace, OnItsWay
  <2> QED
    BY <1>1, <2>1 DEF vars, thread, spent, MessagesOnce
<1>2. ASSUME Typed, Next, faults \in Nat, faults' = 0, ~overwritten', OnePlace
      PROVE  OnePlace'
  <2>1. OnWayApart'
    BY <1>2, OnWayApartStep DEF OnePlace, OnWayApart
  <2> DEFINE queue(n) == sessions[n].queue
  <2>2. /\ heard \in Seq(Message) /\ Range(heard) \subseteq accepted /\ IsInjective(heard)
        /\ \A n \in SessionId :
            /\ queue(n) \in Seq(Message) /\ Range(queue(n)) \subseteq accepted /\ IsInjective(queue(n))
            /\ Range(queue(n)) \cap Range(heard) = {}
            /\ \A m \in SessionId \ {n} : Range(queue(n)) \cap Range(queue(m)) = {}
    BY <1>2, SequencesOfMessages DEF OnePlace
  <2>3. CASE ~Steers /\ ~Starts /\ ~TakesUp
    <3>1. QueuesKept /\ UNCHANGED <<heard, accepted>>
      BY <1>2, <2>3, QuietStep DEF Quiet
    <3> QED
      BY <2>1, <2>2, <3>1 DEF QueuesKept, OnePlace, OnWayApart
  <2>4. ASSUME NEW r \in Routers, Steer(r)
        PROVE  OnePlace'
    <3> DEFINE n == routers[r].session
               e == routers[r].message
    <3>1. /\ sessions'[n].queue = Append(queue(n), e)
          /\ n \in SessionId /\ e \in Message /\ UNCHANGED heard
          /\ accepted' = accepted \cup {e}
          /\ \A q \in SessionId \ {n} : sessions'[q].queue = queue(q)
      BY <1>2, <2>4, SteerEffect
    <3>2. e \notin accepted
      BY <1>2, <2>4, AcceptedEnds DEF OnePlace
    <3> HIDE DEF n, e, queue
    <3>3. Range(Append(queue(n), e)) = Range(queue(n)) \cup {e} /\ IsInjective(Append(queue(n), e))
      BY <2>2, <3>1, <3>2, AppendOnce
    <3>4. \A q \in SessionId : Range(sessions'[q].queue) \subseteq accepted' /\ IsInjective(sessions'[q].queue)
      BY <2>2, <3>1, <3>3
    <3>5. ASSUME NEW q \in SessionId
          PROVE  Range(sessions'[q].queue) \cap Range(heard') = {}
      <4>1. CASE q = n
        BY <2>2, <3>1, <3>2, <3>3, <4>1
      <4>2. CASE q # n
        BY <2>2, <3>1, <4>2
      <4> QED
        BY <4>1, <4>2
    <3>6. ASSUME NEW q \in SessionId, NEW p \in SessionId \ {q}
          PROVE  Range(sessions'[q].queue) \cap Range(sessions'[p].queue) = {}
      <4>0. ASSUME NEW o \in SessionId \ {n}
            PROVE  Range(sessions'[n].queue) \cap Range(sessions'[o].queue) = {}
        <5>1. Range(queue(n)) \cap Range(queue(o)) = {} /\ e \notin Range(queue(o))
          BY <2>2, <3>1, <3>2
        <5>2. sessions'[o].queue = queue(o) /\ Range(sessions'[n].queue) = Range(queue(n)) \cup {e}
          BY <3>1, <3>3
        <5> QED
          BY <5>1, <5>2
      <4>1. CASE q = n
        BY <4>0, <4>1
      <4>2. CASE p = n
        BY <4>0, <4>2
      <4>3. CASE q # n /\ p # n
        BY <2>2, <3>1, <4>3
      <4> QED
        BY <4>1, <4>2, <4>3
    <3>7. Range(heard') \subseteq accepted' /\ IsInjective(heard')
      BY <2>2, <3>1
    <3> QED
      BY <2>1, <3>4, <3>5, <3>6, <3>7 DEF OnePlace, OnWayApart
  <2>5. ASSUME NEW r \in Routers, StartSession(r)
        PROVE  OnePlace'
    <3>1. /\ QueuesKept /\ accepted' = accepted \cup {routers[r].message}
          /\ routers[r].message \in Message /\ heard' = Append(heard, routers[r].message)
      BY <1>2, <2>5, StartEffect
    <3>2. routers[r].message \notin accepted
      BY <1>2, <2>5, AcceptedEnds DEF OnePlace
    <3>3. Range(heard') = Range(heard) \cup {routers[r].message} /\ IsInjective(heard')
      BY <2>2, <3>1, <3>2, AppendOnce
    <3>4. \A n \in SessionId : sessions'[n].queue = queue(n)
      BY <3>1 DEF QueuesKept
    <3> HIDE DEF queue
    <3>5. Range(heard') \subseteq accepted'
      BY <2>2, <3>1, <3>3
    <3>6. ASSUME NEW n \in SessionId
          PROVE  /\ Range(sessions'[n].queue) \subseteq accepted' /\ IsInjective(sessions'[n].queue)
                 /\ Range(sessions'[n].queue) \cap Range(heard') = {}
      BY <2>2, <3>1, <3>2, <3>3, <3>4
    <3>7. \A n \in SessionId : \A m \in SessionId \ {n} :
            Range(sessions'[n].queue) \cap Range(sessions'[m].queue) = {}
      BY <2>2, <3>4
    <3> QED
      BY <2>1, <3>3, <3>5, <3>6, <3>7 DEF OnePlace, OnWayApart
  <2>6. ASSUME NEW n \in SessionId, NEW k \in 1..Len(sessions[n].checkers), ContinueWithSteering(n, k)
        PROVE  OnePlace'
    <3>1. /\ queue(n) # <<>> /\ heard' = Append(heard, Head(queue(n)))
          /\ sessions'[n].queue = Tail(queue(n)) /\ accepted' = accepted
          /\ \A q \in SessionId \ {n} : sessions'[q].queue = queue(q)
      BY <1>2, <2>6, TakeEffect
    <3> HIDE DEF queue
    <3>2. /\ Head(queue(n)) \in Message
          /\ Range(queue(n)) = {Head(queue(n))} \cup Range(Tail(queue(n)))
          /\ IsInjective(Tail(queue(n))) /\ Head(queue(n)) \notin Range(Tail(queue(n)))
      BY <2>2, <3>1, TailOnce
    <3>3. Head(queue(n)) \notin Range(heard)
      BY <2>2, <3>2
    <3>4. Range(heard') = Range(heard) \cup {Head(queue(n))} /\ IsInjective(heard')
      BY <2>2, <3>1, <3>2, <3>3, AppendOnce
    <3>5. Range(heard') \subseteq accepted'
      BY <2>2, <3>1, <3>2, <3>4
    <3>6. \A q \in SessionId : Range(sessions'[q].queue) \subseteq Range(queue(q)) /\ IsInjective(sessions'[q].queue)
      BY <2>2, <3>1, <3>2
    <3>7. \A q \in SessionId : Range(sessions'[q].queue) \cap Range(heard') = {}
      BY <2>2, <3>1, <3>2, <3>4
    <3> QED
      BY <2>1, <2>2, <3>1, <3>4, <3>5, <3>6, <3>7 DEF OnePlace, OnWayApart
  <2> QED
    BY <2>3, <2>4, <2>5, <2>6 DEF Steers, Starts, TakesUp
<1> QED
  BY <1>1, <1>2, OnItsWayStep, OverwrittenStays DEF MessagesOnce

\* As long as no writer replaced a queue it had not read and no answer was lost,
\* a message is put before an agent at most once: it is on its way, in one queue
\* or heard, and every action moves it from one of these places to the next.
THEOREM MessagesHeardOnce == Spec => []HeardOnce
<1>1. MessagesOnce => HeardOnce
  BY DEF MessagesOnce, OnePlace, HeardOnce
<1> QED
  BY <1>1, TypedInit, TypedStep, OnceInit, OnceStep, PTL DEF Spec

-----------------------------------------------------------------------------
(***************************************************************************)
(* A thread whose messages are routed one after the other.                 *)
(***************************************************************************)
\* Sessions are started in the order of their numbers.
StartedFirst == \E k \in 0..SessionLimit : Started = 1..k

LEMMA NewSessionIsUnused ==
    ASSUME Typed, StartedFirst, NewSession <= SessionLimit
    PROVE  /\ NewSession \in SessionId /\ sessions[NewSession].status = "Unused"
           /\ Started \cup {NewSession} = 1..NewSession
<1>1. PICK k \in 0..SessionLimit : Started = 1..k
  BY DEF StartedFirst
<1>2. k \in Nat /\ SessionLimit \in Nat
  BY ThreadBounds
<1>3. Cardinality(1..k) = k
  BY <1>2, FS_Interval
<1>4. NewSession = k + 1
  BY <1>1, <1>3 DEF NewSession
<1>5. k + 1 \in SessionId /\ k + 1 \notin 1..k /\ (1..k) \cup {k + 1} = 1..(k + 1)
  BY <1>2, <1>4 DEF SessionId
<1>6. sessions[k + 1].status = "Unused"
  BY <1>1, <1>5 DEF Started
<1> QED
  BY <1>1, <1>4, <1>5, <1>6

\* What an action does to the status of a session: nothing, or it moves one that
\* is working on, never back to Created.
Advances(n) ==
    \/ sessions'[n].status = sessions[n].status
    \/ Live(n) /\ sessions'[n].status \in Statuses \ {"Created"}

LEMMA StatusStep ==
    ASSUME Typed, Next, ~Starts, NEW n \in SessionId
    PROVE  Advances(n)
<1> USE DEF Advances
<1>0. /\ sessions \in [SessionId -> Session] /\ sessions[n] \in Session
  BY DEF Typed, SessionsOK
<1>1. ASSUME NEW m, NEW status \in Statuses \ {"Created"}, Live(m),
             sessions' = [sessions EXCEPT ![m].status = status]
      PROVE  Advances(n)
  BY <1>0, <1>1 DEF Session
<1>3. ASSUME NEW m, sessions' = StartChecker(m)
      PROVE  Advances(n)
  BY <1>0, <1>3 DEF StartChecker, Session
<1>4. ASSUME NEW r \in Routers, NEW command \in Commands, ReceiveMessage(r, command)
      PROVE  Advances(n)
  BY <1>4 DEF ReceiveMessage, thread
<1>5. ASSUME NEW r \in Routers, RouterStep(r)
      PROVE  Advances(n)
  <2>1. CASE Reads(r)
    BY <2>1, ReadsKeep
  <2>2. CASE Wake(r)
    BY <1>3, <2>2 DEF Wake
  <2>3. CASE Steer(r)
    BY <1>0, <2>3 DEF Steer, SteerWith, Session
  <2>4. CASE CancelSession(r)
    <3>1. \/ sessions' = sessions
          \/ Live(routers[r].session) /\ sessions' = [sessions EXCEPT ![routers[r].session].status = "Ended"]
      BY <2>4 DEF CancelSession
    <3> QED
      BY <1>1, <3>1 DEF Statuses, Terminal
  <2> QED
    BY <1>5, <2>1, <2>2, <2>3, <2>4 DEF RouterStep, Reads, Starts
<1>6. ASSUME NEW m \in SessionId, SessionStep(m)
      PROVE  Advances(n)
  <2>1. CASE \/ Provisioned(m) \/ NeedsAuth(m) \/ AuthReady(m) \/ Pauses(m) \/ Resumes(m)
             \/ ToolsCalled(m) \/ Recovered(m) \/ EndsOtherwise(m) \/ RecordResult(m)
    <3>1. \E status \in Statuses \ {"Created"} : Live(m) /\ sessions' = [sessions EXCEPT ![m].status = status]
      BY <2>1 DEF Provisioned, NeedsAuth, AuthReady, Pauses, Resumes, ToolsCalled, Recovered,
         EndsOtherwise, RecordResult, Moves, Statuses, Terminal, Live
    <3> QED
      BY <1>1, <3>1
  <2>2. CASE ProviderResponseReady(m)
    <3>1. CASE m = n
      <4>1. sessions[n].status = "PreparingContext" /\ sessions'[n].status = "ApplyingProviderResponse"
        BY <1>0, <2>2, <3>1 DEF ProviderResponseReady, Session
      <4> QED
        BY <4>1 DEF Live, Statuses, Terminal
    <3>2. CASE m # n
      BY <1>0, <2>2, <3>2 DEF ProviderResponseReady
    <3> QED
      BY <3>1, <3>2
  <2>3. CASE CheckSteering(m)
    <3>1. CASE m = n
      <4>1. StartChecker(m) \in [SessionId -> Session]
        BY CheckerType DEF Typed
      <4>2. sessions[n].status = "ApplyingProviderResponse" /\ sessions'[n].status = "Steering"
        BY <1>0, <2>3, <3>1, <4>1 DEF CheckSteering, Session
      <4> QED
        BY <4>2 DEF Live, Statuses, Terminal
    <3>2. CASE m # n
      BY <1>0, <2>3, <3>2 DEF CheckSteering, StartChecker
    <3> QED
      BY <3>1, <3>2
  <2>4. ASSUME NEW k \in 1..Len(sessions[m].checkers),
               ContinueWithSteering(m, k) \/ FinalizeResult(m, k) \/ CallbackRejected(m, k)
        PROVE  Advances(n)
    <3>1. CASE ContinueWithSteering(m, k)
      BY <2>4, <3>1, TakeEffect DEF Live, Statuses, Terminal
    <3>2. CASE FinalizeResult(m, k)
      BY <1>0, <3>2 DEF FinalizeResult, CheckerEnds, Session, Live, Statuses, Terminal
    <3>3. CASE CallbackRejected(m, k)
      BY <1>0, <3>3 DEF CallbackRejected, CheckerEnds, Session
    <3> QED
      BY <2>4, <3>1, <3>2, <3>3
  <2> QED
    BY <1>6, <2>1, <2>2, <2>3, <2>4 DEF SessionStep
<1>7. CASE Crash
  <2>1. PICK failed \in SUBSET LiveSessions :
          sessions' = [m \in SessionId |->
            IF ~Live(m) THEN [sessions[m] EXCEPT !.checkers = <<>>]
            ELSE [sessions[m] EXCEPT !.checkers = <<>>,
                                     !.status = IF m \in failed THEN "Ended" ELSE "Recovering"]]
    BY <1>7 DEF Crash
  <2>2. CASE ~Live(n)
    BY <1>0, <2>1, <2>2 DEF Session
  <2>3. CASE Live(n)
    <3>1. sessions'[n].status \in {"Ended", "Recovering"}
      BY <1>0, <2>1, <2>3 DEF Session
    <3> QED
      BY <2>3, <3>1 DEF Statuses, Terminal
  <2> QED
    BY <2>2, <2>3
<1> QED
  BY <1>4, <1>5, <1>6, <1>7 DEF Next

\* And a start makes the new session Created, and leaves the others.
LEMMA StartedOne ==
    ASSUME Typed, StartedFirst, NEW r \in Routers, StartSession(r)
    PROVE  /\ NewSession \in SessionId /\ sessions[NewSession].status = "Unused"
           /\ sessions'[NewSession].status = "Created"
           /\ \A n \in SessionId \ {NewSession} : sessions'[n] = sessions[n]
           /\ Started \cup {NewSession} = 1..NewSession
<1>1. NewSession <= SessionLimit /\ sessions' = [sessions EXCEPT ![NewSession].status = "Created"]
  BY DEF StartSession, Starting
<1>2. NewSession \in SessionId /\ sessions[NewSession].status = "Unused" /\ Started \cup {NewSession} = 1..NewSession
  BY <1>1, NewSessionIsUnused
<1>3. sessions \in [SessionId -> Session]
  BY DEF Typed, SessionsOK
<1> HIDE DEF NewSession
<1>4. sessions'[NewSession] = [sessions[NewSession] EXCEPT !.status = "Created"]
  BY <1>1, <1>2, <1>3
<1>5. sessions'[NewSession].status = "Created"
  BY <1>2, <1>3, <1>4 DEF Session
<1>6. \A n \in SessionId \ {NewSession} : sessions'[n] = sessions[n]
  BY <1>1, <1>3
<1> QED
  BY <1>2, <1>5, <1>6

LEMMA StartedFirstStep == Typed /\ StartedFirst /\ [Next]_vars => StartedFirst'
<1>1. ASSUME \A n \in SessionId : sessions'[n].status = "Unused" <=> sessions[n].status = "Unused", StartedFirst
      PROVE  StartedFirst'
  <2>1. Started' = Started
    BY <1>1 DEF Started
  <2> QED
    BY <1>1, <2>1 DEF StartedFirst
<1>2. ASSUME StartedFirst, UNCHANGED vars PROVE StartedFirst'
  BY <1>2 DEF vars, thread, StartedFirst, Started
<1>3. ASSUME Typed, Next, StartedFirst, ~Starts PROVE StartedFirst'
  <2>1. ASSUME NEW n \in SessionId
        PROVE  sessions'[n].status = "Unused" <=> sessions[n].status = "Unused"
    BY <1>3, StatusStep DEF Advances, Live, Statuses, Terminal
  <2> QED
    BY <1>1, <1>3, <2>1
<1>4. ASSUME Typed, StartedFirst, NEW r \in Routers, StartSession(r) PROVE StartedFirst'
  <2>1. /\ NewSession \in SessionId /\ sessions'[NewSession].status = "Created"
        /\ \A n \in SessionId \ {NewSession} : sessions'[n] = sessions[n]
        /\ Started \cup {NewSession} = 1..NewSession
    BY <1>4, StartedOne
  <2> DEFINE new == NewSession
  <2>2. Started' = Started \cup {new}
    <3> HIDE DEF new
    <3>1. /\ new \in SessionId /\ sessions'[new].status = "Created"
          /\ \A n \in SessionId \ {new} : sessions'[n] = sessions[n]
      BY <2>1 DEF new
    <3> QED
      BY <3>1 DEF Started
  <2>3. new \in 0..SessionLimit
    BY <2>1, ThreadBounds DEF SessionId
  <2>4. Started' = 1..new
    BY <2>1, <2>2
  <2> QED
    BY <2>3, <2>4 DEF StartedFirst
<1> QED
  BY <1>2, <1>3, <1>4 DEF Starts

-----------------------------------------------------------------------------
(***************************************************************************)
(* Where the one invocation stands: what it has read still holds.          *)
(***************************************************************************)
Bound(r) == bindings[routers[r].binding].session
Standing(r) ==
    /\ routers[r].message = arrived
    /\ routers[r].at \notin {"find", "create", "bind"} => routers[r].binding \in ActiveBindings
    /\ routers[r].at \notin {"find", "create", "bind", "rebind"} => Bound(r) = routers[r].session
    /\ routers[r].at \in {"wake", "switch", "get", "post"} =>
        sessions[routers[r].session].status \in Statuses \ {"Created"}
    /\ routers[r].at \in {"expire", "continue", "rebind"} => sessions[Bound(r)].status \in Terminal
    /\ routers[r].at \in {"create", "bind"} => ActiveBindings = {}
    /\ routers[r].at \in {"bind", "rebind"} => sessions[routers[r].session].status # "Unused"

OneRouter == \A q, r \in Routers : routers[q] # Idle /\ routers[r] # Idle => q = r
OneActive ==
    /\ \A b, c \in ActiveBindings : b = c
    /\ \A b \in 1..Len(bindings) : sessions[bindings[b].session].status # "Unused"
OrderlyThread == OneRouter /\ OneActive /\ \A r \in Routers : routers[r] # Idle => Standing(r)

LEMMA OrderlyInit == Init => OrderlyThread
  BY DEF Init, OrderlyThread, OneRouter, OneActive, ActiveBindings

\* A step of the one invocation.
LEMMA OneInvocation ==
    ASSUME Typed, OrderlyThread, NEW r \in Routers, routers[r] # Idle,
           \A p \in Routers \ {r} : routers'[p] = routers[p],
           OneActive', routers'[r] # Idle => Standing(r)'
    PROVE  OrderlyThread'
<1>1. \A p \in Routers \ {r} : routers'[p] = Idle
  BY DEF OrderlyThread, OneRouter
<1> QED
  BY <1>1 DEF OrderlyThread, OneRouter

\* Invocations that do nothing stand as they stood while sessions move on.
LEMMA StandingStays ==
    ASSUME Typed, OrderlyThread, UNCHANGED <<bindings, arrived>>, \A n \in SessionId : Advances(n)
    PROVE  /\ OneActive'
           /\ \A r \in Routers : routers[r] # Idle /\ routers'[r] = routers[r] => Standing(r)'
<1>1. ActiveBindings' = ActiveBindings
  BY DEF ActiveBindings
<1>2. \A b \in 1..Len(bindings) : bindings[b].session \in SessionId
  <2>1. \A b \in 1..Len(bindings) : bindings[b] \in Binding
    BY DEF Typed, BindingsOK
  <2> QED
    BY <2>1 DEF Binding
<1>3. ASSUME NEW n \in SessionId
      PROVE  /\ sessions[n].status # "Unused" => sessions'[n].status # "Unused"
             /\ sessions[n].status \in Terminal => sessions'[n].status \in Terminal
             /\ sessions[n].status \in Statuses \ {"Created"} => sessions'[n].status \in Statuses \ {"Created"}
  <2>1. Advances(n)
    OBVIOUS
  <2> QED
    BY <2>1 DEF Advances, Live, Statuses, Terminal
<1>4. OneActive'
  BY <1>1, <1>2, <1>3 DEF OrderlyThread, OneActive
<1>5. ASSUME NEW r \in Routers, routers[r] # Idle, routers'[r] = routers[r]
      PROVE  Standing(r)'
  <2>1. Standing(r) /\ routers[r] \in Router
    BY <1>5 DEF OrderlyThread, Typed, RoutersOK
  <2>2. routers[r].at \notin {"find", "create"} => routers[r].session \in SessionId
    BY <1>5 DEF Typed, KnowsSession
  <2>3. routers[r].binding \in ActiveBindings => Bound(r) \in SessionId
    BY <1>2 DEF Bound, ActiveBindings
  <2>4. Bound(r)' = Bound(r)
    BY <1>5 DEF Bound
  <2>5. routers[r].at \in {"expire", "continue", "rebind"} => sessions'[Bound(r)].status \in Terminal
    BY <1>3, <2>1, <2>3 DEF Standing
  <2>6. routers[r].at \in {"bind", "rebind"} => sessions'[routers[r].session].status # "Unused"
    BY <1>3, <2>1, <2>2 DEF Standing
  <2>7. routers[r].at \in {"wake", "switch", "get", "post"} =>
            sessions'[routers[r].session].status \in Statuses \ {"Created"}
    BY <1>3, <2>1, <2>2 DEF Standing
  <2> QED
    BY <1>1, <1>5, <2>1, <2>4, <2>5, <2>6, <2>7 DEF Standing
<1> QED
  BY <1>4, <1>5

\* An invocation that goes to another place keeps what it knows; one that is done is gone.
LEMMA GoesTo ==
    ASSUME Typed, NEW r \in Routers, routers[r] # Idle, NEW place, Goes(r, place)
    PROVE  /\ routers'[r].at = place /\ routers'[r].message = routers[r].message
           /\ routers'[r].binding = routers[r].binding /\ routers'[r].session = routers[r].session
           /\ \A p \in Routers \ {r} : routers'[p] = routers[p]
<1>1. routers[r] \in Router /\ DOMAIN routers = Routers
  BY DEF Typed, RoutersOK
<1>2. routers'[r] = [routers[r] EXCEPT !.at = place] /\ \A p \in Routers \ {r} : routers'[p] = routers[p]
  BY <1>1 DEF Goes
<1> QED
  BY <1>1, <1>2 DEF Router

LEMMA DoneIsIdle ==
    ASSUME Typed, NEW r \in Routers, NEW outcome, Done(r, outcome)
    PROVE  routers'[r] = Idle /\ \A p \in Routers \ {r} : routers'[p] = routers[p]
  BY DEF Typed, RoutersOK, Done

LEMMA OrderlyRead ==
    ASSUME Typed, OrderlyThread, faults \in Nat, faults' = 0, NEW r \in Routers,
           FetchStatus(r) \/ SwitchMode(r) \/ GetQueue(r) \/ SteerRefused(r) \/ Wake(r) \/ Steer(r),
           \A n \in SessionId : Advances(n)
    PROVE  OrderlyThread'
<1>1. ~CallFails
  BY DEF CallFails
<1>2. routers[r] # Idle /\ UNCHANGED <<bindings, arrived>>
  BY DEF FetchStatus, SwitchMode, GetQueue, SteerRefused, Wake, Steer, SteerWith, At, thread
<1>3. Standing(r)
  BY <1>2 DEF OrderlyThread
<1>4. OneActive' /\ ActiveBindings' = ActiveBindings
  BY <1>2, StandingStays DEF ActiveBindings
<1>5. /\ routers[r].at \in {"fetch", "wake", "switch", "get", "post"}
  BY DEF FetchStatus, SwitchMode, GetQueue, SteerRefused, Wake, Steer, SteerWith, At
<1>6. routers[r].session \in SessionId /\ Advances(routers[r].session)
  BY <1>2, <1>5 DEF Typed, KnowsSession
<1>7. ASSUME NEW place, Goes(r, place),
             \/ place = "cancel"
             \/ place = "continue" /\ sessions'[routers[r].session].status \in Terminal
             \/ /\ place \in {"wake", "switch", "get", "post"}
                /\ sessions[routers[r].session].status \in Statuses \ {"Created"}
      PROVE  OrderlyThread'
  <2>1. /\ routers'[r].at = place /\ routers'[r].message = routers[r].message
        /\ routers'[r].binding = routers[r].binding /\ routers'[r].session = routers[r].session
        /\ \A p \in Routers \ {r} : routers'[p] = routers[p]
    BY <1>2, <1>7, GoesTo
  <2>2. Bound(r)' = routers[r].session /\ routers[r].binding \in ActiveBindings'
    BY <1>2, <1>3, <1>4, <1>5, <2>1 DEF Bound, Standing
  <2>3. sessions[routers[r].session].status \in Statuses \ {"Created"} =>
            sessions'[routers[r].session].status \in Statuses \ {"Created"}
    BY <1>6 DEF Advances
  <2>4. Standing(r)'
    BY <1>2, <1>3, <1>7, <2>1, <2>2, <2>3 DEF Standing
  <2> QED
    BY <1>2, <1>4, <2>1, <2>4, OneInvocation
<1>8. ASSUME NEW outcome, Done(r, outcome)
      PROVE  OrderlyThread'
  BY <1>2, <1>4, <1>8, DoneIsIdle, OneInvocation
<1>9. CASE FetchStatus(r)
  BY <1>7, <1>8, <1>9 DEF FetchStatus, AfterWaking, Steerable, Statuses, Terminal, thread
<1>10. CASE Wake(r) \/ SwitchMode(r)
  BY <1>3, <1>7, <1>8, <1>10 DEF Wake, SwitchMode, AfterWaking, Standing, At
<1>11. CASE Steer(r)
  BY <1>1, <1>8, <1>11 DEF Steer, SteerWith
<1>12. CASE SteerRefused(r)
  <2>1. sessions'[routers[r].session].status \in Terminal
    BY <1>3, <1>12 DEF SteerRefused, Standing, At, SteerFrom, thread
  <2> QED
    BY <1>7, <1>8, <1>12, <2>1 DEF SteerRefused, NotSteered
<1>13. CASE GetQueue(r)
  <2>1. routers' = [routers EXCEPT ![r].queue = sessions[routers[r].session].queue, ![r].at = "post"]
    BY <1>1, <1>13 DEF GetQueue
  <2>2. routers[r] \in Router /\ routers[r].at = "get" /\ DOMAIN routers = Routers
    BY <1>2, <1>13 DEF GetQueue, At, Typed, RoutersOK
  <2>3. /\ routers'[r].at = "post" /\ routers'[r].message = routers[r].message
        /\ routers'[r].binding = routers[r].binding /\ routers'[r].session = routers[r].session
        /\ \A p \in Routers \ {r} : routers'[p] = routers[p]
    BY <2>1, <2>2 DEF Router
  <2>4. Bound(r)' = routers[r].session /\ routers[r].binding \in ActiveBindings'
    BY <1>2, <1>3, <1>4, <1>5, <2>3 DEF Bound, Standing
  <2>5. sessions'[routers[r].session].status \in Statuses \ {"Created"}
    BY <1>3, <1>6, <2>2 DEF Standing, Advances
  <2>6. Standing(r)'
    BY <1>2, <1>3, <2>3, <2>4, <2>5 DEF Standing
  <2> QED
    BY <1>2, <1>4, <2>3, <2>6, OneInvocation
<1> QED
  BY <1>9, <1>10, <1>11, <1>12, <1>13

LEMMA OrderlyFind ==
    ASSUME Typed, OrderlyThread, NEW r \in Routers, FindActiveSession(r)
    PROVE  OrderlyThread'
<1>1. /\ routers[r] # Idle /\ routers[r].at = "find" /\ UNCHANGED <<bindings, arrived, sessions>>
      /\ routers[r] \in Router /\ DOMAIN routers = Routers
  BY DEF FindActiveSession, At, thread, Typed, RoutersOK
<1>2. OneActive' /\ ActiveBindings' = ActiveBindings /\ Standing(r)
  BY <1>1 DEF ActiveBindings, OneActive, OrderlyThread
<1>3. CASE ActiveBindings = {} /\ Goes(r, "create")
  <2>1. /\ routers'[r].at = "create" /\ routers'[r].message = routers[r].message
        /\ \A p \in Routers \ {r} : routers'[p] = routers[p]
    BY <1>1, <1>3, GoesTo
  <2>2. Standing(r)'
    BY <1>1, <1>2, <1>3, <2>1 DEF Standing
  <2> QED
    BY <1>1, <1>2, <2>1, <2>2, OneInvocation
<1>4. ASSUME NEW b \in ActiveBindings,
             routers' = [routers EXCEPT ![r].binding = b, ![r].session = bindings[b].session,
                                        ![r].at = IF routers[r].command = "reset" THEN "cancel" ELSE "fetch"]
      PROVE  OrderlyThread'
  <2>1. /\ routers'[r].at \in {"cancel", "fetch"} /\ routers'[r].message = routers[r].message
        /\ routers'[r].binding = b /\ routers'[r].session = bindings[b].session
        /\ \A p \in Routers \ {r} : routers'[p] = routers[p]
    BY <1>1, <1>4 DEF Router
  <2>2. Standing(r)'
    BY <1>1, <1>2, <2>1 DEF Standing, Bound
  <2> QED
    BY <1>1, <1>2, <2>1, <2>2, OneInvocation
<1> QED
  BY <1>3, <1>4 DEF FindActiveSession

LEMMA OrderlyCancel ==
    ASSUME Typed, OrderlyThread, faults \in Nat, faults' = 0, NEW r \in Routers, CancelSession(r),
           \A n \in SessionId : Advances(n)
    PROVE  OrderlyThread'
<1>1. ~CallFails
  BY DEF CallFails
<1>2. /\ routers[r] # Idle /\ routers[r].at = "cancel" /\ UNCHANGED <<bindings, arrived>>
      /\ sessions' = IF Live(routers[r].session) THEN [sessions EXCEPT ![routers[r].session].status = "Ended"]
                     ELSE sessions
      /\ Goes(r, IF routers[r].command = "reset" THEN "expire" ELSE "continue")
  BY <1>1 DEF CancelSession, At
<1>3. Standing(r) /\ OneActive' /\ ActiveBindings' = ActiveBindings
  BY <1>2, StandingStays DEF ActiveBindings, OrderlyThread
<1> DEFINE n == routers[r].session
<1>4. n \in SessionId /\ routers[r].binding \in ActiveBindings /\ Bound(r) = n
  BY <1>2, <1>3 DEF Typed, KnowsSession, Standing
<1>5. sessions[n].status # "Unused" /\ sessions[n] \in Session /\ DOMAIN sessions = SessionId
  BY <1>4 DEF OrderlyThread, OneActive, ActiveBindings, Bound, Typed, SessionsOK
<1>6. sessions'[n].status \in Terminal
  <2>1. sessions[n].status \in Statuses
    BY <1>5 DEF Session
  <2> QED
    BY <1>2, <1>4, <1>5, <2>1 DEF Live, Session, Terminal
<1>7. /\ routers'[r].at \in {"expire", "continue"} /\ routers'[r].message = routers[r].message
      /\ routers'[r].binding = routers[r].binding /\ routers'[r].session = n
      /\ \A p \in Routers \ {r} : routers'[p] = routers[p]
  BY <1>2, GoesTo
<1>8. Bound(r)' = n
  BY <1>2, <1>4, <1>7 DEF Bound
<1>9. Standing(r)'
  BY <1>2, <1>3, <1>4, <1>6, <1>7, <1>8 DEF Standing
<1> QED
  BY <1>2, <1>3, <1>7, <1>9, OneInvocation

LEMMA OrderlyExpire ==
    ASSUME Typed, OrderlyThread, faults \in Nat, faults' = 0, NEW r \in Routers, ExpireBinding(r)
    PROVE  OrderlyThread'
<1>1. ~CallFails
  BY DEF CallFails
<1> DEFINE b == routers[r].binding
<1>2. /\ routers[r] # Idle /\ routers[r].at = "expire" /\ UNCHANGED <<sessions, arrived>>
      /\ bindings' = [bindings EXCEPT ![b].active = FALSE] /\ Goes(r, "create")
  BY <1>1 DEF ExpireBinding, At
<1>3. Standing(r) /\ b \in ActiveBindings
  BY <1>2 DEF OrderlyThread, Standing
<1>4. \A c \in ActiveBindings : c = b
  BY <1>3 DEF OrderlyThread, OneActive
<1>5. bindings \in [1..Len(bindings) -> Binding] /\ b \in 1..Len(bindings)
  BY <1>3 DEF Typed, BindingsOK, ActiveBindings
<1>6. Len(bindings') = Len(bindings)
  BY <1>2, <1>5 DEF Typed, BindingsOK
<1>7. /\ bindings'[b].active = FALSE /\ bindings'[b].session = bindings[b].session
      /\ \A c \in (1..Len(bindings)) \ {b} : bindings'[c] = bindings[c]
  BY <1>2, <1>5 DEF Binding
<1>8. ActiveBindings' = {}
  BY <1>4, <1>6, <1>7 DEF ActiveBindings
<1>9. OneActive'
  BY <1>2, <1>6, <1>7, <1>8 DEF OneActive, OrderlyThread
<1>10. /\ routers'[r].at = "create" /\ routers'[r].message = routers[r].message
       /\ \A p \in Routers \ {r} : routers'[p] = routers[p]
  BY <1>2, GoesTo
<1>11. Standing(r)'
  BY <1>2, <1>3, <1>8, <1>10 DEF Standing
<1> QED
  BY <1>2, <1>9, <1>10, <1>11, OneInvocation

LEMMA OrderlyStart ==
    ASSUME Typed, StartedFirst, OrderlyThread, NEW r \in Routers, StartSession(r)
    PROVE  OrderlyThread'
<1> DEFINE new == NewSession
<1>1. /\ routers[r] # Idle /\ routers[r].at \in {"create", "continue"} /\ UNCHANGED <<bindings, arrived>>
      /\ routers' = [routers EXCEPT ![r].session = new,
                                    ![r].at = IF routers[r].at = "create" THEN "bind" ELSE "rebind"]
  BY DEF StartSession, Starting, BindTo, At
<1>2. /\ new \in SessionId /\ sessions[new].status = "Unused" /\ sessions'[new].status = "Created"
      /\ \A n \in SessionId \ {new} : sessions'[n] = sessions[n]
  BY StartedOne
<1> HIDE DEF new
<1>3. routers[r] \in Router /\ DOMAIN routers = Routers
  BY <1>1 DEF Typed, RoutersOK
<1>4. /\ routers'[r].at = (IF routers[r].at = "create" THEN "bind" ELSE "rebind")
      /\ routers'[r].message = routers[r].message
      /\ routers'[r].binding = routers[r].binding /\ routers'[r].session = new
      /\ \A p \in Routers \ {r} : routers'[p] = routers[p]
  BY <1>1, <1>3 DEF Router
<1>5. Standing(r) /\ ActiveBindings' = ActiveBindings
  BY <1>1 DEF OrderlyThread, ActiveBindings
<1>6. \A b \in 1..Len(bindings) : bindings[b].session \in SessionId /\ sessions[bindings[b].session].status # "Unused"
  <2>1. \A b \in 1..Len(bindings) : bindings[b] \in Binding
    BY DEF Typed, BindingsOK
  <2> QED
    BY <2>1 DEF Binding, OrderlyThread, OneActive
<1>7. OneActive'
  BY <1>1, <1>2, <1>5, <1>6 DEF OneActive, OrderlyThread
<1>8. Standing(r)'
  <2>1. CASE routers[r].at = "create"
    BY <1>1, <1>2, <1>4, <1>5, <2>1 DEF Standing
  <2>2. CASE routers[r].at = "continue"
    <3>1. routers[r].binding \in ActiveBindings /\ sessions[Bound(r)].status \in Terminal
      BY <1>5, <2>2 DEF Standing
    <3>2. Bound(r)' = Bound(r) /\ Bound(r) \in SessionId
      BY <1>1, <1>4, <1>6, <3>1 DEF Bound, ActiveBindings
    <3>3. sessions'[Bound(r)].status \in Terminal
      BY <1>2, <3>1, <3>2 DEF Terminal
    <3> QED
      BY <1>1, <1>2, <1>4, <1>5, <2>2, <3>1, <3>2, <3>3 DEF Standing
  <2> QED
    BY <1>1, <2>1, <2>2
<1> QED
  BY <1>1, <1>4, <1>7, <1>8, OneInvocation

LEMMA OrderlyBind ==
    ASSUME Typed, OrderlyThread, NEW r \in Routers, CreateChannelSession(r)
    PROVE  OrderlyThread' /\ \E b \in ActiveBindings' : bindings'[b].session = routers[r].session
<1> DEFINE new == [active |-> TRUE, session |-> routers[r].session]
<1>1. /\ routers[r] # Idle /\ routers[r].at = "bind" /\ UNCHANGED <<sessions, arrived>>
      /\ bindings' = Append(bindings, new) /\ Done(r, "routed")
  BY DEF CreateChannelSession, At
<1>2. routers[r].session \in SessionId /\ Standing(r)
  BY <1>1 DEF Typed, KnowsSession, OrderlyThread
<1>3. new \in Binding /\ new.active = TRUE /\ new.session = routers[r].session
  BY <1>2 DEF Binding
<1> HIDE DEF new
<1>4. bindings \in Seq(Binding) /\ Len(bindings) \in Nat
  BY DEF Typed, BindingsOK
<1>5. /\ Len(bindings') = Len(bindings) + 1 /\ bindings'[Len(bindings) + 1] = new
      /\ \A b \in 1..Len(bindings) : bindings'[b] = bindings[b]
  BY <1>1, <1>3, <1>4
<1>6. \A b \in 1..Len(bindings') : b \in 1..Len(bindings) \/ b = Len(bindings) + 1
  BY <1>4, <1>5
<1>7. Len(bindings) + 1 \in 1..Len(bindings')
  BY <1>4, <1>5
<1>8. ActiveBindings = {} /\ sessions[routers[r].session].status # "Unused"
  BY <1>1, <1>2 DEF Standing
<1>9. ActiveBindings' = {Len(bindings) + 1}
  BY <1>3, <1>5, <1>6, <1>7, <1>8 DEF ActiveBindings
<1>10. OneActive'
  BY <1>1, <1>3, <1>5, <1>6, <1>8, <1>9 DEF OneActive, OrderlyThread
<1> QED
  BY <1>1, <1>3, <1>5, <1>9, <1>10, DoneIsIdle, OneInvocation

LEMMA OrderlyRebind ==
    ASSUME Typed, OrderlyThread, NEW r \in Routers, UpdateSessionBinding(r)
    PROVE  /\ OrderlyThread' /\ ActiveBindings' = ActiveBindings
           /\ \A b \in ActiveBindings : bindings'[b].session = routers[r].session
<1> DEFINE b == routers[r].binding
<1>1. /\ routers[r] # Idle /\ routers[r].at = "rebind" /\ UNCHANGED <<sessions, arrived>>
  BY DEF UpdateSessionBinding, Rebinding, At
<1>2. routers[r].session \in SessionId /\ Standing(r)
  BY <1>1 DEF Typed, KnowsSession, OrderlyThread
<1>3. b \in ActiveBindings /\ sessions[routers[r].session].status # "Unused"
  BY <1>1, <1>2 DEF Standing
<1>4. bindings[b].active
  BY <1>3 DEF ActiveBindings
<1>5. bindings' = [bindings EXCEPT ![b].session = routers[r].session] /\ Done(r, "routed")
  BY <1>4 DEF UpdateSessionBinding
<1>6. bindings \in [1..Len(bindings) -> Binding] /\ b \in 1..Len(bindings)
  BY <1>3 DEF Typed, BindingsOK, ActiveBindings
<1>7. Len(bindings') = Len(bindings)
  BY <1>5, <1>6 DEF Typed, BindingsOK
<1>8. bindings'[b] = [bindings[b] EXCEPT !.session = routers[r].session]
  BY <1>5, <1>6
<1>9. \A c \in (1..Len(bindings)) \ {b} : bindings'[c] = bindings[c]
  BY <1>5, <1>6
<1>10. bindings'[b].session = routers[r].session /\ bindings'[b].active = bindings[b].active
  BY <1>6, <1>8 DEF Binding
<1>11. \A c \in 1..Len(bindings) : bindings'[c].active = bindings[c].active
  BY <1>9, <1>10
<1>12. ActiveBindings' = ActiveBindings
  BY <1>7, <1>11 DEF ActiveBindings
<1>13. \A c \in ActiveBindings : c = b
  BY <1>3 DEF OrderlyThread, OneActive
<1>14. OneActive'
  BY <1>1, <1>3, <1>7, <1>9, <1>10, <1>12 DEF OneActive, OrderlyThread
<1> QED
  BY <1>1, <1>5, <1>10, <1>12, <1>13, <1>14, DoneIsIdle, OneInvocation

\* While no call fails, what an invocation has read still holds when it acts on it.
LEMMA OrderlyStep ==
    ASSUME Typed, StartedFirst, OrderlyThread, serial, faults \in Nat, faults' = 0, Next
    PROVE  OrderlyThread'
<1>0. ~CallFails
  BY DEF CallFails
<1>1. ASSUME NEW r \in Routers, NEW command \in Commands, ReceiveMessage(r, command)
      PROVE  OrderlyThread'
  <2>1. \A q \in Routers : routers[q] = Idle
    BY <1>1 DEF ReceiveMessage
  <2>2. UNCHANGED <<sessions, bindings>> /\ routers' = [routers EXCEPT ![r] = NewRouter(arrived', command)]
    BY <1>1 DEF ReceiveMessage, thread
  <2>3. routers'[r] = NewRouter(arrived', command) /\ \A q \in Routers \ {r} : routers'[q] = routers[q]
    BY <2>2 DEF Typed, RoutersOK
  <2>4. routers'[r].at = "find" /\ routers'[r].message = arrived'
    BY <2>3 DEF NewRouter
  <2>5. Standing(r)'
    BY <2>4 DEF Standing
  <2>6. OneActive'
    BY <2>2 DEF OrderlyThread, OneActive, ActiveBindings
  <2> QED
    BY <2>1, <2>3, <2>5, <2>6 DEF OrderlyThread, OneRouter
<1>2. ASSUME NEW r \in Routers, StartSession(r)
      PROVE  OrderlyThread'
  BY <1>2, OrderlyStart
<1>3. CASE ~Starts
  <2>1. \A n \in SessionId : Advances(n)
    BY <1>3, StatusStep
  <2>2. ASSUME NEW r \in Routers, RouterStep(r)
        PROVE  OrderlyThread'
    BY <1>0, <1>3, <2>1, <2>2, OrderlyRead, OrderlyFind, OrderlyCancel, OrderlyExpire, OrderlyBind, OrderlyRebind
       DEF RouterStep, SessionUnreadable, RouteFailed, Starts
  <2>3. CASE UNCHANGED <<bindings, arrived, routers>>
    BY <2>1, <2>3, StandingStays DEF OrderlyThread, OneRouter
  <2>4. CASE Crash
    <3>1. \A r \in Routers : routers'[r] = Idle
      BY <2>4 DEF Crash
    <3>2. UNCHANGED <<bindings, arrived>>
      BY <2>4 DEF Crash
    <3> QED
      BY <2>1, <3>1, <3>2, StandingStays DEF OrderlyThread, OneRouter
  <2> QED
    BY <1>1, <2>2, <2>3, <2>4, SessionKeeps DEF Next
<1> QED
  BY <1>2, <1>3 DEF Starts

\* The bounds only grow, and serial stays what it is.
LEMMA SpentStep ==
    ASSUME Next, faults \in Nat, crashes \in Nat
    PROVE  /\ serial' = serial /\ faults' \in Nat /\ crashes' \in Nat
           /\ faults' = 0 => faults = 0
           /\ crashes' = 0 => crashes = 0 /\ ~Crash
<1>1. ASSUME NEW r \in Routers, RouterStep(r)
      PROVE  (faults' = faults \/ faults' = faults + 1) /\ crashes' = crashes /\ serial' = serial
  BY <1>1 DEF RouterStep, FindActiveSession, FetchStatus, SessionUnreadable, Wake, SwitchMode,
     GetQueue, Steer, SteerWith, SteerRefused, CancelSession, ExpireBinding, StartSession, Starting,
     CreateChannelSession, UpdateSessionBinding, Rebinding, RouteFailed, CallFails, spent
<1>2. \/ UNCHANGED <<faults, crashes, serial>>
      \/ Crash /\ faults' = faults /\ crashes' = crashes + 1 /\ serial' = serial
      \/ (faults' = faults \/ faults' = faults + 1) /\ crashes' = crashes /\ serial' = serial
  BY <1>1, SessionKeeps DEF Next, ReceiveMessage, Crash, spent
<1>3. Crash => crashes' = crashes + 1
  BY DEF Crash
<1> QED
  BY <1>2, <1>3

InTurn ==
    /\ faults \in Nat /\ crashes \in Nat /\ StartedFirst
    /\ serial /\ faults = 0 => OrderlyThread

LEMMA InTurnInit == Init => InTurn
<1> SUFFICES ASSUME Init PROVE InTurn
  OBVIOUS
<1>1. Started = {} /\ 1..0 = {} /\ 0 \in 0..SessionLimit
  BY ThreadBounds DEF Init, Started, Unused
<1>2. StartedFirst
  BY <1>1 DEF StartedFirst
<1> QED
  BY <1>2, OrderlyInit DEF Init, InTurn

LEMMA InTurnStep == Typed /\ InTurn /\ [Next]_vars => InTurn'
<1>1. ASSUME InTurn, UNCHANGED vars PROVE InTurn'
  BY <1>1 DEF vars, thread, spent, InTurn, StartedFirst, Started, OrderlyThread, OneRouter, OneActive, Standing,
     ActiveBindings, Bound
<1>2. ASSUME Typed, InTurn, Next PROVE InTurn'
  BY <1>2, SpentStep, StartedFirstStep, OrderlyStep DEF InTurn
<1> QED
  BY <1>1, <1>2

-----------------------------------------------------------------------------
(***************************************************************************)
(* The one session that works.                                             *)
(***************************************************************************)
IsBound(n) == \E b \in ActiveBindings : bindings[b].session = n
IsToBeBound(n) ==
    \E r \in Routers : routers[r] # Idle /\ routers[r].at \in {"bind", "rebind"} /\ routers[r].session = n
LiveIsBound == \A n \in LiveSessions : IsBound(n) \/ IsToBeBound(n)

\* The actions of an invocation after which the thread is bound as before.
LEMMA BindingKept ==
    ASSUME Typed, NEW r \in Routers, faults \in Nat, faults' = 0, RouterStep(r), ~StartSession(r),
           ~CreateChannelSession(r), ~UpdateSessionBinding(r), ~ExpireBinding(r)
    PROVE  /\ routers[r] # Idle /\ routers[r].at \notin {"bind", "rebind"} /\ bindings' = bindings
<1>1. ~CallFails
  BY DEF CallFails
<1>2. CASE FindActiveSession(r) \/ FetchStatus(r) \/ Wake(r) \/ SwitchMode(r) \/ GetQueue(r)
  BY <1>2 DEF FindActiveSession, FetchStatus, Wake, SwitchMode, GetQueue, At, thread
<1>3. CASE Steer(r) \/ SteerRefused(r) \/ CancelSession(r)
  BY <1>3 DEF Steer, SteerWith, SteerRefused, CancelSession, At, thread
<1> QED
  BY <1>1, <1>2, <1>3 DEF RouterStep, SessionUnreadable, RouteFailed

LEMMA LiveIsBoundStep ==
    ASSUME Typed, StartedFirst, OrderlyThread, LiveIsBound, faults \in Nat, faults' = 0, Next, ~Crash
    PROVE  LiveIsBound'
<1>1. ASSUME NEW r \in Routers, StartSession(r), NEW n \in SessionId, Live(n)'
      PROVE  IsBound(n)' \/ IsToBeBound(n)'
  <2> DEFINE new == NewSession
  <2>1. /\ routers[r] # Idle /\ routers[r].at \in {"create", "continue"} /\ UNCHANGED bindings
        /\ routers' = [routers EXCEPT ![r].session = new,
                                      ![r].at = IF routers[r].at = "create" THEN "bind" ELSE "rebind"]
    BY <1>1 DEF StartSession, Starting, BindTo, At
  <2>2. new \in SessionId /\ \A m \in SessionId \ {new} : sessions'[m] = sessions[m]
    BY <1>1, StartedOne
  <2> HIDE DEF new
  <2>3. CASE n = new
    <3>1. routers[r] \in Router /\ DOMAIN routers = Routers
      BY <2>1 DEF Typed, RoutersOK
    <3>2. routers'[r] = [routers[r] EXCEPT !.session = new, !.at = IF routers[r].at = "create" THEN "bind" ELSE "rebind"]
      BY <2>1, <3>1
    <3>3. routers'[r].at \in {"bind", "rebind"} /\ routers'[r].session = n
      BY <2>3, <3>1, <3>2 DEF Router
    <3>4. routers'[r] # Idle
      <4>1. new \in 0..SessionLimit
        BY <2>2, ThreadBounds DEF SessionId
      <4>2. routers'[r] \in Router
        BY <3>1, <3>2, <4>1 DEF Router, Places
      <4> QED
        BY <4>2, IdleIsNoRouter
    <3> QED
      BY <3>3, <3>4 DEF IsToBeBound
  <2>4. CASE n # new
    <3>1. Live(n)
      BY <1>1, <2>2, <2>4 DEF Live
    <3>2. ~IsToBeBound(n)
      BY <2>1 DEF IsToBeBound, OrderlyThread, OneRouter
    <3> QED
      BY <2>1, <3>1, <3>2 DEF LiveIsBound, LiveSessions, IsBound, ActiveBindings
  <2> QED
    BY <2>3, <2>4
<1>2. ASSUME ~Starts, NEW n \in SessionId, Live(n)'
      PROVE  IsBound(n)' \/ IsToBeBound(n)'
  <2>1. Live(n) /\ (IsBound(n) \/ IsToBeBound(n))
    BY <1>2, StatusStep DEF Advances, Live, LiveIsBound, LiveSessions
  <2>2. CASE UNCHANGED <<bindings, routers>>
    BY <2>1, <2>2 DEF IsBound, IsToBeBound, ActiveBindings
  <2>3. ASSUME NEW r \in Routers, NEW command \in Commands, ReceiveMessage(r, command)
        PROVE  IsBound(n)' \/ IsToBeBound(n)'
    <3>1. routers[r] = Idle /\ bindings' = bindings
      BY <2>3 DEF ReceiveMessage, thread
    <3>2. \A q \in Routers \ {r} : routers'[q] = routers[q]
      BY <2>3 DEF ReceiveMessage, Typed, RoutersOK
    <3> QED
      BY <2>1, <3>1, <3>2 DEF IsBound, IsToBeBound, ActiveBindings
  <2>4. ASSUME NEW r \in Routers, RouterStep(r)
        PROVE  IsBound(n)' \/ IsToBeBound(n)'
    <3>1. CASE CreateChannelSession(r)
      <4>1. routers[r] # Idle /\ routers[r].at = "bind"
        BY <3>1 DEF CreateChannelSession, At
      <4>2. ActiveBindings = {}
        BY <4>1 DEF OrderlyThread, Standing
      <4>3. n = routers[r].session
        BY <2>1, <4>1, <4>2 DEF IsBound, IsToBeBound, OrderlyThread, OneRouter
      <4> QED
        BY <3>1, <4>3, OrderlyBind DEF IsBound
    <3>2. CASE UpdateSessionBinding(r)
      <4>1. routers[r] # Idle /\ routers[r].at = "rebind"
        BY <3>2 DEF UpdateSessionBinding, Rebinding, At
      <4>2. routers[r].binding \in ActiveBindings /\ sessions[Bound(r)].status \in Terminal
        BY <4>1 DEF OrderlyThread, Standing
      <4>3. ~IsBound(n)
        BY <2>1, <4>2 DEF IsBound, OrderlyThread, OneActive, Bound, Live
      <4>4. n = routers[r].session
        BY <2>1, <4>1, <4>3 DEF IsToBeBound, OrderlyThread, OneRouter
      <4> QED
        BY <3>2, <4>2, <4>4, OrderlyRebind DEF IsBound
    <3>3. CASE ExpireBinding(r)
      <4>1. routers[r] # Idle /\ routers[r].at = "expire"
        BY <3>3 DEF ExpireBinding, At
      <4>2. routers[r].binding \in ActiveBindings /\ sessions[Bound(r)].status \in Terminal
        BY <4>1 DEF OrderlyThread, Standing
      <4>3. ~IsBound(n)
        BY <2>1, <4>2 DEF IsBound, OrderlyThread, OneActive, Bound, Live
      <4> QED
        BY <2>1, <4>1, <4>3 DEF IsToBeBound, OrderlyThread, OneRouter
    <3>4. CASE ~CreateChannelSession(r) /\ ~UpdateSessionBinding(r) /\ ~ExpireBinding(r)
      <4>1. routers[r] # Idle /\ routers[r].at \notin {"bind", "rebind"} /\ bindings' = bindings
        BY <1>2, <2>4, <3>4, BindingKept DEF Starts
      <4>2. ~IsToBeBound(n)
        BY <4>1 DEF IsToBeBound, OrderlyThread, OneRouter
      <4> QED
        BY <2>1, <4>1, <4>2 DEF IsBound, ActiveBindings
    <3> QED
      BY <3>1, <3>2, <3>3, <3>4
  <2> QED
    BY <2>2, <2>3, <2>4, SessionKeeps DEF Next
<1> QED
  BY <1>1, <1>2 DEF LiveIsBound, LiveSessions, Starts

OneWorks == serial /\ faults = 0 /\ crashes = 0 => LiveIsBound

LEMMA OneWorksStep == Typed /\ InTurn /\ OneWorks /\ [Next]_vars => OneWorks'
<1>1. ASSUME OneWorks, UNCHANGED vars PROVE OneWorks'
  BY <1>1 DEF vars, thread, spent, OneWorks, LiveIsBound, LiveSessions, Live, IsBound, IsToBeBound, ActiveBindings
<1>2. ASSUME Typed, InTurn, OneWorks, Next PROVE OneWorks'
  BY <1>2, SpentStep, LiveIsBoundStep DEF InTurn, OneWorks
<1> QED
  BY <1>1, <1>2

\* While messages are routed one after the other and nothing fails, the session
\* that works is the one the thread is bound to, or is about to be: the old one
\* has ended before the new one is started, and the thread has one Active binding.
THEOREM OneWorkingSession == Spec => []OneLiveSession
<1>1. Init => OneWorks
  BY DEF Init, OneWorks, LiveIsBound, LiveSessions, Live, Unused, Statuses, Terminal
<1>2. OneWorks => OneLiveSession
  BY DEF OneWorks, LiveIsBound, IsBound, IsToBeBound, OneLiveSession
<1> QED
  BY <1>1, <1>2, TypedInit, TypedStep, InTurnInit, InTurnStep, OneWorksStep, PTL DEF Spec

-----------------------------------------------------------------------------
(***************************************************************************)
(* The order in which the agent hears the messages.                        *)
(***************************************************************************)
InOrder(s) == \A i, j \in 1..Len(s) : i < j => s[i] < s[j]
Before(s, m) == \A e \in Range(s) : e < m
Ahead(s, t) == \A d \in Range(s), e \in Range(t) : d < e

LEMMA MessagesAreNumbers == Message \subseteq Nat
  BY ThreadBounds DEF Message

LEMMA AppendInOrder ==
    ASSUME NEW s \in Seq(Message), NEW e \in Message, InOrder(s), Before(s, e)
    PROVE  InOrder(Append(s, e)) /\ Range(Append(s, e)) = Range(s) \cup {e}
<1>1. Append(s, e) \in Seq(Message) /\ Len(Append(s, e)) = Len(s) + 1 /\ Len(s) \in Nat
  OBVIOUS
<1>2. \A i \in 1..Len(s) : Append(s, e)[i] = s[i] /\ s[i] < e
  BY DEF Before, Range
<1>3. Append(s, e)[Len(s) + 1] = e
  OBVIOUS
<1>4. ASSUME NEW i \in 1..Len(Append(s, e)), NEW j \in 1..Len(Append(s, e)), i < j
      PROVE  Append(s, e)[i] < Append(s, e)[j]
  <2>1. i \in 1..Len(s)
    BY <1>1, <1>4
  <2>2. CASE j \in 1..Len(s)
    BY <1>2, <1>4, <2>1, <2>2 DEF InOrder
  <2>3. CASE j = Len(s) + 1
    BY <1>2, <1>3, <2>1, <2>3
  <2> QED
    BY <1>1, <2>2, <2>3
<1>5. InOrder(Append(s, e))
  BY <1>4 DEF InOrder
<1> QED
  BY <1>5, AppendOnce

LEMMA TailInOrder ==
    ASSUME NEW s \in Seq(Message), s # <<>>, InOrder(s)
    PROVE  /\ InOrder(Tail(s)) /\ Head(s) \in Message
           /\ Range(s) = {Head(s)} \cup Range(Tail(s))
           /\ \A e \in Range(Tail(s)) : Head(s) < e
<1>1. Len(s) \in Nat \ {0} /\ Tail(s) \in Seq(Message) /\ Len(Tail(s)) = Len(s) - 1
  OBVIOUS
<1>2. \A i \in 1..(Len(s) - 1) : Tail(s)[i] = s[i + 1]
  OBVIOUS
<1>3. Head(s) = s[1] /\ DOMAIN Tail(s) = 1..(Len(s) - 1)
  BY <1>1
<1>4. \A i \in 1..(Len(s) - 1) : i + 1 \in 1..Len(s) /\ 1 < i + 1
  BY <1>1
<1>5. 1 \in 1..Len(s)
  BY <1>1
<1>6. \A i \in 1..(Len(s) - 1) : s[1] < Tail(s)[i]
  BY <1>2, <1>4, <1>5 DEF InOrder
<1>7. InOrder(Tail(s))
  <2> SUFFICES ASSUME NEW i \in 1..Len(Tail(s)), NEW j \in 1..Len(Tail(s)), i < j
               PROVE  Tail(s)[i] < Tail(s)[j]
    BY DEF InOrder
  <2>1. i \in 1..(Len(s) - 1) /\ j \in 1..(Len(s) - 1) /\ i + 1 < j + 1
    BY <1>1
  <2> QED
    BY <1>2, <1>4, <2>1 DEF InOrder
<1>8. \A e \in Range(Tail(s)) : Head(s) < e
  BY <1>3, <1>6 DEF Range
<1> QED
  BY <1>7, <1>8, TailOnce

LEMMA RangeOfMessages ==
    ASSUME NEW s \in Seq(Message)
    PROVE  Range(s) \subseteq Nat
<1>1. DOMAIN s = 1..Len(s) /\ \A i \in 1..Len(s) : s[i] \in Message
  OBVIOUS
<1> QED
  BY <1>1, MessagesAreNumbers DEF Range

QueueFits(n) ==
    /\ InOrder(sessions[n].queue) /\ Before(sessions[n].queue, arrived + 1)
    /\ sessions[n].status = "Unused" => sessions[n].queue = <<>>
    /\ Live(n) /\ sessions[n].queue # <<>> => IsBound(n) /\ Ahead(heard, sessions[n].queue)
InSequence ==
    /\ InOrder(heard) /\ Before(heard, arrived + 1)
    /\ \A n \in SessionId : QueueFits(n)
    /\ \A r \in Routers : OnItsWay(r) =>
        Before(heard, arrived) /\ \A n \in SessionId : Before(sessions[n].queue, arrived)

LEMMA InSequenceInit == Init => InSequence
<1> SUFFICES ASSUME Init PROVE InSequence
  OBVIOUS
<1>1. Range(<<>>) = {} /\ Len(<<>>) = 0
  BY DEF Range
<1>2. InOrder(<<>>) /\ \A m : Before(<<>>, m)
  BY <1>1 DEF InOrder, Before
<1>3. heard = <<>> /\ \A n \in SessionId : sessions[n].queue = <<>>
  BY DEF Init, Unused
<1>4. \A r \in Routers : ~OnItsWay(r)
  BY DEF Init, OnItsWay
<1> QED
  BY <1>2, <1>3, <1>4 DEF InSequence, QueueFits

\* A session that works stays the bound one, until it has ended.
LEMMA IsBoundStays ==
    ASSUME Typed, OrderlyThread, faults \in Nat, faults' = 0, Next,
           NEW n \in SessionId, Live(n), IsBound(n)
    PROVE  IsBound(n)'
<1>1. CASE UNCHANGED bindings
  BY <1>1 DEF IsBound, ActiveBindings
<1>2. ASSUME NEW r \in Routers, RouterStep(r)
      PROVE  IsBound(n)'
  <2>1. ~CreateChannelSession(r)
    BY DEF CreateChannelSession, At, OrderlyThread, Standing, IsBound
  <2>2. ASSUME UpdateSessionBinding(r) \/ ExpireBinding(r) PROVE FALSE
    <3>1. routers[r] # Idle /\ routers[r].at \in {"rebind", "expire"}
      BY <2>2 DEF UpdateSessionBinding, Rebinding, ExpireBinding, At
    <3>2. routers[r].binding \in ActiveBindings /\ sessions[Bound(r)].status \in Terminal
      BY <3>1 DEF OrderlyThread, Standing
    <3> QED
      BY <3>2 DEF IsBound, OrderlyThread, OneActive, Bound, Live
  <2>3. StartSession(r) => bindings' = bindings
    BY DEF StartSession, Starting
  <2> QED
    BY <1>1, <1>2, <2>1, <2>2, <2>3, BindingKept
<1>3. UNCHANGED bindings \/ \E r \in Routers : RouterStep(r)
  BY SessionKeeps DEF Next, ReceiveMessage, Crash, thread
<1> QED
  BY <1>1, <1>2, <1>3

\* Only one session has messages it may still take up.
LEMMA OneQueue ==
    ASSUME OrderlyThread, InSequence, NEW n \in SessionId, NEW m \in SessionId,
           Live(n), Live(m), sessions[n].queue # <<>>, sessions[m].queue # <<>>
    PROVE  n = m
  BY DEF InSequence, QueueFits, IsBound, OrderlyThread, OneActive

LEMMA InSequenceStep ==
    ASSUME Typed, StartedFirst, OrderlyThread, InSequence, faults \in Nat, faults' = 0, ~overwritten', Next
    PROVE  InSequence'
<1> DEFINE queue(n) == sessions[n].queue
<1>0. /\ heard \in Seq(Message) /\ \A n \in SessionId : queue(n) \in Seq(Message)
      /\ arrived \in Nat /\ Message \subseteq Nat
  BY SequencesOfMessages, MessagesAreNumbers, ThreadBounds DEF Typed, BooksOK
<1>1. ASSUME NEW n \in SessionId, Advances(n), Live(n)'
      PROVE  Live(n)
  BY <1>1 DEF Advances, Live
<1>2. ASSUME NEW n \in SessionId, Advances(n), sessions'[n].status = "Unused"
      PROVE  sessions[n].status = "Unused"
  BY <1>2 DEF Advances, Live, Statuses, Terminal
\* A step that leaves queues and the agent alone.
<1>3. CASE ~Steers /\ ~Starts /\ ~TakesUp
  <2>1. heard' = heard /\ \A n \in SessionId : sessions'[n].queue = queue(n) /\ Advances(n)
    BY <1>3, QuietStep, StatusStep DEF Quiet, QueuesKept
  <2>2. arrived' \in {arrived, arrived + 1}
    <3>1. ASSUME NEW r \in Routers, RouterStep(r)
          PROVE  arrived' = arrived
      BY <3>1 DEF RouterStep, FindActiveSession, FetchStatus, SessionUnreadable, Wake, SwitchMode,
         GetQueue, Steer, SteerWith, SteerRefused, CancelSession, ExpireBinding, StartSession, Starting,
         CreateChannelSession, UpdateSessionBinding, Rebinding, RouteFailed
    <3> QED
      BY <3>1, SessionKeeps DEF Next, ReceiveMessage, Crash
  <2>3. /\ Range(heard) \subseteq Nat /\ \A n \in SessionId : Range(queue(n)) \subseteq Nat
    BY <1>0, RangeOfMessages
  <2>4. \A s : Range(s) \subseteq Nat /\ Before(s, arrived + 1) => Before(s, arrived' + 1)
    BY <1>0, <2>2 DEF Before
  <2>5. InOrder(heard') /\ Before(heard', arrived' + 1)
    BY <2>1, <2>3, <2>4 DEF InSequence
  <2>6. ASSUME NEW n \in SessionId
        PROVE  QueueFits(n)'
    <3>1. QueueFits(n) /\ Advances(n) /\ sessions'[n].queue = queue(n)
      BY <2>1 DEF InSequence
    <3>2. Before(sessions'[n].queue, arrived' + 1) /\ InOrder(sessions'[n].queue)
      BY <2>3, <2>4, <3>1 DEF QueueFits
    <3>3. Live(n)' /\ queue(n) # <<>> => IsBound(n)' /\ Ahead(heard, queue(n))
      BY <1>1, <3>1, IsBoundStays DEF QueueFits
    <3> QED
      BY <1>2, <2>1, <3>1, <3>2, <3>3 DEF QueueFits
  <2>7. ASSUME NEW r \in Routers, OnItsWay(r)'
        PROVE  Before(heard', arrived') /\ \A n \in SessionId : Before(sessions'[n].queue, arrived')
    <3>1. CASE \E q \in Routers, command \in Commands : ReceiveMessage(q, command)
      <4>1. arrived' = arrived + 1
        BY <3>1 DEF ReceiveMessage
      <4> QED
        BY <2>1, <4>1 DEF InSequence, QueueFits
    <3>2. CASE ~(\E q \in Routers, command \in Commands : ReceiveMessage(q, command))
      <4>1. OnItsWay(r)
        BY <2>7, <3>2, OnItsWayStep
      <4>2. arrived' = arrived
        <5>1. ASSUME NEW q \in Routers, RouterStep(q)
              PROVE  arrived' = arrived
          BY <5>1 DEF RouterStep, FindActiveSession, FetchStatus, SessionUnreadable, Wake, SwitchMode,
             GetQueue, Steer, SteerWith, SteerRefused, CancelSession, ExpireBinding, StartSession, Starting,
             CreateChannelSession, UpdateSessionBinding, Rebinding, RouteFailed
        <5> QED
          BY <3>2, <5>1, SessionKeeps DEF Next, Crash
      <4> QED
        BY <2>1, <4>1, <4>2 DEF InSequence
    <3> QED
      BY <3>1, <3>2
  <2> QED
    BY <2>5, <2>6, <2>7 DEF InSequence
\* The one message on its way is accepted, and none is on its way any more.
<1>4. ASSUME NEW r \in Routers, Steer(r) \/ StartSession(r)
      PROVE  /\ routers[r].message = arrived /\ routers[r] # Idle /\ Standing(r) /\ OnItsWay(r)
             /\ Before(heard, arrived) /\ \A n \in SessionId : Before(queue(n), arrived)
             /\ \A q \in Routers : ~OnItsWay(q)'
             /\ arrived' = arrived /\ bindings' = bindings
  <2>1. OnItsWay(r) /\ ~OnItsWay(r)'
    BY <1>4, AcceptedEnds
  <2>2. Standing(r) /\ \A q \in Routers : OnItsWay(q) => q = r
    BY <2>1 DEF OnItsWay, OrderlyThread, OneRouter
  <2>3. arrived' = arrived /\ bindings' = bindings
    BY <1>4 DEF Steer, SteerWith, StartSession, Starting
  <2>4. \A q \in Routers, command \in Commands : ~ReceiveMessage(q, command)
    BY <1>0, <2>3 DEF ReceiveMessage
  <2> QED
    BY <2>1, <2>2, <2>3, <2>4, OnItsWayStep DEF InSequence, Standing, OnItsWay
<1>5. ASSUME NEW r \in Routers, Steer(r)
      PROVE  InSequence'
  <2>0. PICK n \in SessionId : n = routers[r].session
    BY <1>5, SteerEffect
  <2>1. /\ heard' = heard /\ n \in SessionId /\ routers[r].message \in Message
        /\ sessions'[n].queue = Append(queue(n), arrived)
        /\ \A m \in SessionId \ {n} : sessions'[m].queue = queue(m)
    BY <1>4, <1>5, <2>0, SteerEffect
  <2>2. Live(n) /\ IsBound(n)
    <3>1. Live(n) /\ routers[r].at = "post"
      BY <1>5, <2>0 DEF Steer, SteerWith, At, Live, SteerFrom
    <3> QED
      BY <1>4, <1>5, <2>0, <3>1 DEF Standing, IsBound, Bound
  <2>3. \A m \in SessionId : Advances(m)
    <3>1. \A m \in SessionId : sessions'[m].status = sessions[m].status
      BY <1>5 DEF Steer, SteerWith, Typed, SessionsOK, Session
    <3> QED
      BY <3>1 DEF Advances
  <2>4. /\ InOrder(sessions'[n].queue) /\ Range(sessions'[n].queue) = Range(queue(n)) \cup {arrived}
    BY <1>0, <1>4, <1>5, <2>1, AppendInOrder DEF InSequence, QueueFits
  <2>5. QueueFits(n)'
    <3>1. Before(sessions'[n].queue, arrived' + 1)
      BY <1>0, <1>4, <1>5, <2>1, <2>4 DEF InSequence, QueueFits, Before
    <3>2. Ahead(heard, sessions'[n].queue)
      <4>1. \A d \in Range(heard) : d < arrived
        BY <1>4, <1>5 DEF Before
      <4>2. queue(n) # <<>> => Ahead(heard, queue(n))
        BY <2>1, <2>2 DEF InSequence, QueueFits
      <4>3. queue(n) = <<>> => Range(queue(n)) = {}
        BY DEF Range
      <4> QED
        BY <2>4, <4>1, <4>2, <4>3 DEF Ahead
    <3>3. IsBound(n)'
      BY <2>2, IsBoundStays
    <3>4. sessions'[n].status # "Unused"
      <4>1. Advances(n)
        BY <2>3
      <4> QED
        BY <2>2, <4>1 DEF Advances, Live, Statuses, Terminal
    <3> QED
      BY <2>1, <2>4, <3>1, <3>2, <3>3, <3>4 DEF QueueFits
  <2>6. ASSUME NEW m \in SessionId \ {n}
        PROVE  QueueFits(m)'
    <3>1. QueueFits(m) /\ Advances(m) /\ sessions'[m].queue = queue(m)
      BY <2>1, <2>3 DEF InSequence
    <3>2. Live(m)' /\ queue(m) # <<>> => IsBound(m)' /\ Ahead(heard, queue(m))
      BY <1>1, <3>1, IsBoundStays DEF QueueFits
    <3> QED
      BY <1>2, <1>4, <1>5, <2>1, <3>1, <3>2 DEF QueueFits
  <2>7. Before(heard, arrived + 1) /\ arrived' = arrived /\ \A q \in Routers : ~OnItsWay(q)'
    BY <1>4, <1>5 DEF InSequence
  <2> QED
    BY <2>1, <2>5, <2>6, <2>7 DEF InSequence
<1>6. ASSUME NEW r \in Routers, StartSession(r)
      PROVE  InSequence'
  <2> DEFINE new == NewSession
  <2>1. /\ heard' = Append(heard, arrived) /\ arrived \in Message
        /\ \A m \in SessionId : sessions'[m].queue = queue(m)
    BY <1>4, <1>6, StartEffect DEF QueuesKept
  <2>2. /\ new \in SessionId /\ sessions[new].status = "Unused"
        /\ sessions'[new].status = "Created"
        /\ \A m \in SessionId \ {new} : sessions'[m] = sessions[m]
    BY <1>6, StartedOne
  <2> HIDE DEF new
  <2>3. InOrder(heard') /\ Range(heard') = Range(heard) \cup {arrived}
    BY <1>0, <1>4, <1>6, <2>1, AppendInOrder DEF InSequence
  <2>4. Before(heard', arrived' + 1)
    BY <1>0, <1>4, <1>6, <2>3 DEF InSequence, Before
  \* The session the thread was bound to has ended, or it was bound to none.
  <2>5. \A m \in SessionId : Live(m) => queue(m) = <<>>
    <3> SUFFICES ASSUME NEW m \in SessionId, Live(m), queue(m) # <<>>
                 PROVE  FALSE
      OBVIOUS
    <3>1. IsBound(m)
      BY DEF InSequence, QueueFits
    <3>2. routers[r].at \in {"create", "continue"}
      BY <1>6 DEF StartSession, Starting, At
    <3>3. routers[r].at = "continue" /\ routers[r].binding \in ActiveBindings /\ sessions[Bound(r)].status \in Terminal
      BY <1>4, <1>6, <3>1, <3>2 DEF Standing, IsBound
    <3> QED
      BY <3>1, <3>3 DEF IsBound, OrderlyThread, OneActive, Bound, Live
  <2>6. ASSUME NEW m \in SessionId
        PROVE  QueueFits(m)'
    <3>1. QueueFits(m) /\ sessions'[m].queue = queue(m)
      BY <2>1 DEF InSequence
    <3>2. Live(m)' => queue(m) = <<>>
      BY <2>2, <2>5, <3>1 DEF QueueFits, Live
    <3>3. sessions'[m].status = "Unused" => sessions[m].status = "Unused"
      BY <2>2
    <3> QED
      BY <1>4, <1>6, <3>1, <3>2, <3>3 DEF QueueFits
  <2> QED
    BY <1>4, <1>6, <2>3, <2>4, <2>6 DEF InSequence
<1>7. ASSUME NEW n \in SessionId, NEW k \in 1..Len(sessions[n].checkers), ContinueWithSteering(n, k)
      PROVE  InSequence'
  <2>1. /\ queue(n) # <<>> /\ heard' = Append(heard, Head(queue(n)))
        /\ sessions'[n].queue = Tail(queue(n)) /\ sessions'[n].status = "PreparingContext"
        /\ sessions[n].status = "Steering"
        /\ \A m \in SessionId \ {n} : sessions'[m] = sessions[m]
    BY <1>7, TakeEffect
  <2>2. UNCHANGED <<arrived, bindings, routers>>
    BY <1>7 DEF ContinueWithSteering, Continues, CheckerReturns
  <2>3. Live(n) /\ QueueFits(n)
    BY <2>1 DEF Live, Statuses, Terminal, InSequence
  <2> DEFINE first == Head(queue(n))
  <2>4. /\ InOrder(Tail(queue(n))) /\ first \in Message
        /\ Range(queue(n)) = {first} \cup Range(Tail(queue(n)))
        /\ \A e \in Range(Tail(queue(n))) : first < e
    BY <1>0, <2>1, <2>3, TailInOrder DEF QueueFits
  <2>5. IsBound(n) /\ Ahead(heard, queue(n)) /\ Before(queue(n), arrived + 1)
    BY <2>1, <2>3 DEF QueueFits
  <2>6. Before(heard, first) /\ first < arrived + 1
    BY <2>4, <2>5 DEF Before, Ahead
  <2>7. InOrder(heard') /\ Range(heard') = Range(heard) \cup {first}
    BY <1>0, <2>1, <2>4, <2>6, AppendInOrder DEF InSequence
  <2>8. Before(heard', arrived' + 1)
    BY <2>2, <2>6, <2>7 DEF InSequence, Before
  <2>9. QueueFits(n)'
    <3>1. Ahead(heard', Tail(queue(n)))
      BY <2>4, <2>5, <2>7 DEF Ahead
    <3>2. Before(Tail(queue(n)), arrived + 1)
      BY <2>4, <2>5 DEF Before
    <3>3. IsBound(n)'
      BY <2>2, <2>5 DEF IsBound, ActiveBindings
    <3> QED
      BY <2>1, <2>2, <2>4, <3>1, <3>2, <3>3 DEF QueueFits
  <2>10. ASSUME NEW m \in SessionId \ {n}
         PROVE  QueueFits(m)'
    <3>1. QueueFits(m) /\ sessions'[m] = sessions[m]
      BY <2>1 DEF InSequence
    <3>2. Live(m) => queue(m) = <<>>
      BY <2>1, <2>3, OneQueue
    <3> QED
      BY <2>2, <3>1, <3>2 DEF QueueFits, Live
  <2>11. ASSUME NEW r \in Routers, OnItsWay(r)'
         PROVE  Before(heard', arrived') /\ \A m \in SessionId : Before(sessions'[m].queue, arrived')
    <3>1. OnItsWay(r)
      BY <2>2, <2>11 DEF OnItsWay
    <3>2. Before(heard, arrived) /\ \A m \in SessionId : Before(queue(m), arrived)
      BY <3>1 DEF InSequence
    <3>3. Before(heard', arrived) /\ Before(Tail(queue(n)), arrived)
      BY <2>4, <2>7, <3>2 DEF Before
    <3> QED
      BY <2>1, <2>2, <3>2, <3>3
  <2> QED
    BY <2>7, <2>8, <2>9, <2>10, <2>11 DEF InSequence
<1> QED
  BY <1>3, <1>5, <1>6, <1>7 DEF Steers, Starts, TakesUp

HeardInTurn == serial /\ ~overwritten /\ faults = 0 => InSequence

LEMMA HeardInTurnStep == Typed /\ InTurn /\ HeardInTurn /\ [Next]_vars => HeardInTurn'
<1>1. ASSUME HeardInTurn, UNCHANGED vars PROVE HeardInTurn'
  BY <1>1 DEF vars, thread, spent, HeardInTurn, InSequence, QueueFits, Live, IsBound, ActiveBindings, OnItsWay
<1>2. ASSUME Typed, InTurn, HeardInTurn, Next PROVE HeardInTurn'
  BY <1>2, SpentStep, OverwrittenStays, InSequenceStep DEF InTurn, HeardInTurn
<1> QED
  BY <1>1, <1>2

\* Messages that are routed one after the other are heard in the order in which
\* they arrived, also when sessions are cancelled, continued and go down with the
\* server, as long as no call fails and no writer replaces a queue it had not read:
\* only the bound session has a queue it may take from, and everything heard is
\* older than what it queues.
THEOREM ThreadHeardInOrder == Spec => []HeardInOrder
<1>1. Init => HeardInTurn
  BY InSequenceInit DEF HeardInTurn
<1>2. HeardInTurn => HeardInOrder
  BY DEF HeardInTurn, InSequence, InOrder, HeardInOrder
<1> QED
  BY <1>1, <1>2, TypedInit, TypedStep, InTurnInit, InTurnStep, HeardInTurnStep, PTL DEF Spec
=============================================================================
