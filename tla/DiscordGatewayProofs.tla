------------------------ MODULE DiscordGatewayProofs ------------------------
(***************************************************************************)
(* Theorems about DiscordGateway, for every value of its constants.        *)
(***************************************************************************)
EXTENDS DiscordGateway, WellFoundedInduction, TLAPS

(***************************************************************************)
(* The oldest and the newest message of a page.  That a set of messages    *)
(* has them follows from the well-foundedness of the natural numbers.      *)
(***************************************************************************)
\* A set of natural numbers that is not empty has a least element.
LEMMA LeastNatural ==
    ASSUME NEW T \in SUBSET Nat, T # {}
    PROVE  \E x \in T : \A y \in T : x <= y
<1> DEFINE R == {p \in Nat \X Nat : p[1] < p[2]}
<1>1. IsWellFoundedOn(R, Nat)
  BY NatLessThanWellFounded DEF OpToRel
<1>2. PICK x \in T : \A y \in T : ~(<<y, x>> \in R)
  BY <1>1, WFMin
<1>3. \A y \in T : ~(y < x)
  BY <1>2
<1> QED
  BY <1>3

\* The least message of a page is in it, and none in it is smaller.
LEMMA OldestOfPage ==
    ASSUME NEW S \in SUBSET Nat, S # {}
    PROVE  Min(S) \in S /\ \A k \in S : Min(S) <= k
  BY LeastNatural DEF Min

\* The greatest message of a page is in it, and none in it is greater.
LEMMA NewestOfPage ==
    ASSUME NEW n \in Nat, NEW S \in SUBSET (1..n), S # {}
    PROVE  Max(S) \in S /\ \A k \in S : k <= Max(S)
<1> DEFINE T == {n - k : k \in S}
<1>1. PICK x \in T : \A y \in T : x <= y
  <2>1. T \in SUBSET Nat
    OBVIOUS
  <2>2. T # {}
    OBVIOUS
  <2> QED
    BY <2>1, <2>2, LeastNatural
<1>2. PICK m \in S : x = n - m
  OBVIOUS
<1>3. \A k \in S : m >= k
  BY <1>1, <1>2
<1> QED
  BY <1>3 DEF Max

-----------------------------------------------------------------------------
(***************************************************************************)
(* Type correctness.                                                       *)
(***************************************************************************)
\* A message has a sender, and was written during a catch-up or not.
LEMMA WrittenByPeople ==
    ASSUME TypeOK
    PROVE  /\ \A m \in Sent : sent[m].from \in People /\ sent[m].during \in BOOLEAN
           /\ Len(sent) \in Nat
<1> DEFINE Writings == [from : People, during : BOOLEAN]
<1>1. sent \in Seq(Writings)
  BY DEF TypeOK
<1> HIDE DEF Writings
<1>2. \A m \in 1..Len(sent) : sent[m] \in Writings
  BY <1>1
<1> USE DEF Writings
<1> QED
  BY <1>1, <1>2 DEF Sent

ChannelRecord == [status : {"Connecting", "Connected", "Archived"}, cursor : {0} \cup Sent, count : Nat]
ClientRecord == [session : BOOLEAN, sequence : Nat, cursor : {0} \cup Sent, dms : SUBSET People, channel : Nat]

ScanRecord == [base : {0} \cup Sent, todo : SUBSET People, who : People \cup {Nobody},
               after : {0} \cup Sent, page : SUBSET Sent, full : BOOLEAN, caught : BOOLEAN]

\* Choosing a Channel keeps the Channels' records, archives none that was or becomes the
\* transport's, and gives the transport a Channel that is not archived, and a cursor of a
\* Channel that is connected, unless it keeps its own.
LEMMA BootstrapBinds ==
    ASSUME TypeOK, NEW memory \in ClientRecord, Bootstrap(memory), UNCHANGED <<sent, heard>>
    PROVE  /\ channels' \in Seq(ChannelRecord) /\ Len(channels') >= Len(channels)
           /\ \A j \in DOMAIN channels' : j \in DOMAIN channels => channels'[j].cursor = channels[j].cursor
           /\ \A j \in DOMAIN channels' \ DOMAIN channels : channels'[j].cursor = 0
           /\ client' \in ClientRecord /\ client'.channel \in 1..Len(channels')
           /\ client'.session = memory.session /\ client'.sequence = memory.sequence
           /\ channels'[client'.channel].status # "Archived"
           /\ \/ client'.cursor = memory.cursor
              \/ /\ channels'[client'.channel].status = "Connected"
                 /\ \E j \in DOMAIN channels : client'.cursor = channels[j].cursor
<1> DEFINE Seeded(k, c, seed) == [memory EXCEPT !.cursor = c, !.dms = @ \cup seed, !.channel = k]
<1>0. channels \in Seq(ChannelRecord)
  BY DEF TypeOK, ChannelRecord
<1>1. ASSUME NEW k \in Reusable, Best(k),
             channels' = [j \in DOMAIN channels |->
                IF j \in Reusable \ {k} THEN [channels[j] EXCEPT !.status = "Archived"] ELSE channels[j]],
             NEW c \in Cursors(k, memory), NEW seed \in Seeds(k), client' = Seeded(k, c, seed)
      PROVE  /\ channels' \in Seq(ChannelRecord) /\ Len(channels') >= Len(channels)
             /\ \A j \in DOMAIN channels' : j \in DOMAIN channels => channels'[j].cursor = channels[j].cursor
             /\ \A j \in DOMAIN channels' \ DOMAIN channels : channels'[j].cursor = 0
             /\ client' \in ClientRecord /\ client'.channel \in 1..Len(channels')
             /\ client'.session = memory.session /\ client'.sequence = memory.sequence
             /\ channels'[client'.channel].status = "Connected"
             /\ client'.cursor = memory.cursor \/ \E j \in DOMAIN channels : client'.cursor = channels[j].cursor
  <2>1. k \in 1..Len(channels) /\ channels[k].status = "Connected"
    BY <1>0 DEF Reusable
  <2>2. \A j \in 1..Len(channels) : channels'[j] \in ChannelRecord /\ channels'[j].cursor = channels[j].cursor
    <3> SUFFICES ASSUME NEW j \in 1..Len(channels)
                 PROVE  channels'[j] \in ChannelRecord /\ channels'[j].cursor = channels[j].cursor
      OBVIOUS
    <3>1. channels[j] \in ChannelRecord /\ j \in DOMAIN channels
      BY <1>0
    <3>2. channels'[j] = channels[j] \/ channels'[j] = [channels[j] EXCEPT !.status = "Archived"]
      BY <1>1, <3>1
    <3> QED
      BY <3>1, <3>2 DEF ChannelRecord
  <2>3. channels' \in Seq(ChannelRecord) /\ Len(channels') = Len(channels)
    <3>1. DOMAIN channels = 1..Len(channels) /\ Len(channels) \in Nat
      BY <1>0
    <3>2. channels' \in [1..Len(channels) -> ChannelRecord]
      BY <1>1, <2>2, <3>1
    <3> QED
      BY <3>1, <3>2
  <2>4. channels'[k] = channels[k]
    BY <1>1, <2>1
  <2>5. seed \in SUBSET People
    <3>1. \A m \in Sent : sent[m].from \in People
      BY WrittenByPeople
    <3> QED
      BY <1>1, <3>1 DEF Seeds, HeardFrom
  <2>6. c \in {0} \cup Sent /\ (c = memory.cursor \/ \E j \in DOMAIN channels : c = channels[j].cursor)
    <3>1. \A j \in DOMAIN channels : channels[j].cursor \in {0} \cup Sent
      <4>1. \A j \in DOMAIN channels : channels[j] \in ChannelRecord
        BY <1>0
      <4> QED
        BY <4>1 DEF ChannelRecord
    <3> QED
      BY <1>1, <3>1 DEF Cursors, ClientRecord, Reusable
  <2>7. /\ client' \in ClientRecord /\ client'.channel = k /\ client'.cursor = c
        /\ client'.session = memory.session /\ client'.sequence = memory.sequence
    <3>1. k \in Nat /\ memory.dms \cup seed \in SUBSET People
      BY <1>0, <2>1, <2>5 DEF ClientRecord
    <3>2. client' = [memory EXCEPT !.cursor = c, !.dms = memory.dms \cup seed, !.channel = k]
      BY <1>1
    <3> QED
      BY <2>6, <3>1, <3>2 DEF ClientRecord
  <2> QED
    BY <1>0, <2>1, <2>2, <2>3, <2>4, <2>6, <2>7
<1>2. CASE channels' = Append(channels, NewChannel) /\ client' = [memory EXCEPT !.channel = Len(channels) + 1]
  <2>1. NewChannel \in ChannelRecord
    BY DEF NewChannel, ChannelRecord
  <2>2. channels' \in Seq(ChannelRecord) /\ Len(channels') = Len(channels) + 1
    BY <1>0, <1>2, <2>1
  <2>3. /\ \A j \in DOMAIN channels : channels'[j] = channels[j]
        /\ channels'[Len(channels) + 1] = NewChannel
    BY <1>0, <1>2
  <2>4. client' \in ClientRecord
    BY <1>0, <1>2 DEF ClientRecord, Sent
  <2>5. /\ client'.channel = Len(channels) + 1 /\ client'.cursor = memory.cursor
        /\ client'.session = memory.session /\ client'.sequence = memory.sequence
    BY <1>2 DEF ClientRecord
  <2>6. channels'[Len(channels) + 1].cursor = 0 /\ channels'[Len(channels) + 1].status = "Connecting"
    BY <2>3 DEF NewChannel
  <2> QED
    BY <1>0, <2>2, <2>3, <2>4, <2>5, <2>6
<1> QED
  BY <1>1, <1>2 DEF Bootstrap

\* Everything but what people write: an action that leaves `sent` alone keeps these types.
RemoteOK  == remote \in [alive : BOOLEAN, log : Seq(Sent)]
AtOK      == at \in {"stopped", "opening", "ready", "list", "scan", "flushScan", "up", "flush"}
ClientOK  == client \in ClientRecord /\ client.channel \in 0..Len(channels)
ScanOK    == scan \in ScanRecord
CallOK    == call \in {NoCall, [message |-> 0, at |-> "recover"]}
                       \cup [message : Sent, at : {"post", "recover", "retry"}]
ChannelsOK == channels \in Seq(ChannelRecord)
HistoryOK ==
    /\ heard \in [Message -> Nat]
    /\ told \subseteq Sent /\ overlooked \subseteq Sent /\ owed \subseteq Sent
BoundsOK  == drops \in Nat /\ crashes \in Nat /\ faults \in Nat
SentOK    == sent \in Seq([from : People, during : BOOLEAN]) /\ Len(sent) <= MessageLimit

\* The types, one conjunct for each group of variables, in this state and in the next.
LEMMA TypeParts ==
    /\ TypeOK <=> /\ SentOK /\ RemoteOK /\ AtOK /\ ClientOK /\ ScanOK /\ CallOK /\ ChannelsOK
                  /\ HistoryOK /\ BoundsOK
    /\ TypeOK' <=> /\ SentOK' /\ RemoteOK' /\ AtOK' /\ ClientOK' /\ ScanOK' /\ CallOK' /\ ChannelsOK'
                   /\ HistoryOK' /\ BoundsOK'
  BY DEF TypeOK, SentOK, RemoteOK, AtOK, ClientOK, ClientRecord, ScanOK, ScanRecord, CallOK, ChannelsOK,
     ChannelRecord, HistoryOK, BoundsOK

\* Leaving variables alone keeps their types, unless people write.
LEMMA Frames ==
    ASSUME UNCHANGED sent
    PROVE  /\ SentOK => SentOK'
           /\ UNCHANGED remote /\ RemoteOK => RemoteOK'
           /\ UNCHANGED at /\ AtOK => AtOK'
           /\ UNCHANGED <<client, channels>> /\ ClientOK => ClientOK'
           /\ UNCHANGED scan /\ ScanOK => ScanOK'
           /\ UNCHANGED call /\ CallOK => CallOK'
           /\ UNCHANGED channels /\ ChannelsOK => ChannelsOK'
           /\ UNCHANGED <<heard, told, overlooked, owed>> /\ HistoryOK => HistoryOK'
           /\ UNCHANGED <<drops, crashes, faults>> /\ BoundsOK => BoundsOK'
<1>1. Sent' = Sent
  BY DEF Sent
<1>2. ChannelRecord' = ChannelRecord /\ ClientRecord' = ClientRecord
  BY <1>1 DEF ChannelRecord, ClientRecord
<1> QED
  BY <1>1, <1>2 DEF SentOK, RemoteOK, AtOK, ClientOK, ScanOK, ScanRecord, CallOK, ChannelsOK, HistoryOK, BoundsOK

\* The transport opens a connection, resumes or identifies,
LEMMA OpeningType ==
    ASSUME TypeOK, Start \/ Resumed \/ InvalidSession \/ Identify \/ Ready
    PROVE  TypeOK'
<1> USE DEF network, history, bounds
<1>0. UNCHANGED sent /\ Sent' = Sent /\ ChannelRecord' = ChannelRecord /\ ClientRecord' = ClientRecord
  <2>1. UNCHANGED sent
    BY DEF Start, Resumed, InvalidSession, Identify, Ready
  <2> QED
    BY <2>1 DEF Sent, ChannelRecord, ClientRecord
<1>1. CASE Start
  <2>1. Fresh \in ClientRecord
    BY DEF Fresh, ClientRecord
  <2>2. ChannelsOK' /\ ClientOK'
    BY <1>0, <1>1, <2>1, BootstrapBinds DEF Start, ChannelsOK, ClientOK
  <2> QED
    BY <1>0, <1>1, <2>2, TypeParts, Frames DEF Start, AtOK
<1>2. CASE Resumed
  BY <1>0, <1>2, TypeParts, Frames DEF Resumed, AtOK
<1>3. CASE InvalidSession
  <2>1. ClientOK'
    BY <1>0, <1>3, TypeParts DEF InvalidSession, ClientOK, ClientRecord
  <2> QED
    BY <1>0, <1>3, <2>1, TypeParts, Frames DEF InvalidSession, AtOK
<1>4. CASE Identify
  <2>1. RemoteOK'
    BY <1>0, <1>4, TypeParts DEF Identify, RemoteOK
  <2> QED
    BY <1>0, <1>4, <2>1, TypeParts, Frames DEF Identify, AtOK
<1>5. CASE Ready
  <2>1. ClientOK'
    BY <1>0, <1>5, TypeParts DEF Ready, ClientOK, ClientRecord
  <2>2. ScanOK'
    BY <1>0, <1>5, TypeParts, Frames DEF Ready, ScanOK, ScanRecord, NoScan, ClientOK, ClientRecord
  <2>3. HistoryOK'
    BY <1>0, <1>5, TypeParts DEF Ready, HistoryOK
  <2> QED
    BY <1>0, <1>5, <2>1, <2>2, <2>3, TypeParts, Frames DEF Ready, AtOK
<1> QED
  BY <1>1, <1>2, <1>3, <1>4, <1>5

\* A page that is fetched is of messages that were sent.
LEMMA ScanPageType ==
    ASSUME TypeOK, scan \in ScanRecord, NEW p \in People, FetchPage(p)
    PROVE  scan' \in ScanRecord
<1>1. CASE scan' = NextThread(p)
  BY <1>1 DEF ScanRecord, NextThread
<1>2. ASSUME NEW page \in Pages(Missed(p, After)), page # {},
             scan' = [scan EXCEPT !.who = p, !.page = page, !.after = Max(page), !.full = IsFull(page)]
      PROVE  scan' \in ScanRecord
  <2>1. page \in SUBSET Sent /\ page \in SUBSET (1..Len(sent)) /\ Len(sent) \in Nat
    BY WrittenByPeople DEF Pages, Missed, Sent
  <2>2. Max(page) \in Sent
    BY <1>2, <2>1, NewestOfPage
  <2>3. IsFull(page) \in BOOLEAN
    BY DEF IsFull
  <2> QED
    BY <1>2, <2>1, <2>2, <2>3 DEF ScanRecord
<1> QED
  BY <1>1, <1>2 DEF FetchPage, ScanRecord

\* it catches up,
LEMMA CatchUpType ==
    ASSUME TypeOK, \/ \E listed \in SUBSET People : ListDms(listed)
                   \/ \E p \in People : FetchPage(p)
                   \/ Replay \/ EndScan
    PROVE  TypeOK'
<1> USE DEF network, history, bounds
<1>0. UNCHANGED sent /\ Sent' = Sent /\ ClientRecord' = ClientRecord
  <2>1. UNCHANGED sent
    BY DEF ListDms, ListFrom, Sources, FetchPage, Replay, EndScan
  <2> QED
    BY <2>1 DEF Sent, ClientRecord
<1>1. ASSUME NEW listed \in SUBSET People, ListDms(listed)
      PROVE  TypeOK'
  <2>1. ScanOK'
    BY <1>0, <1>1, TypeParts DEF ListDms, ListFrom, Sources, ScanOK, ScanRecord, ClientOK, ClientRecord
  <2>2. HistoryOK'
    BY <1>0, <1>1, TypeParts DEF ListDms, ListFrom, Sources, HistoryOK
  <2> QED
    BY <1>0, <1>1, <2>1, <2>2, TypeParts, Frames DEF ListDms, ListFrom, Sources, AtOK
<1>2. ASSUME NEW p \in People, FetchPage(p)
      PROVE  TypeOK'
  <2>1. scan \in ScanRecord /\ scan' \in ScanRecord
    BY <1>0, <1>2, ScanPageType, TypeParts DEF ScanOK, ScanRecord
  <2>2. ScanOK'
    BY <1>0, <2>1 DEF ScanOK, ScanRecord
  <2>3. drops' = drops /\ crashes' = crashes /\ faults' \in {faults, faults + 1}
    BY <1>2, <2>1 DEF FetchPage, Faulty, ScanRecord
  <2>4. BoundsOK'
    BY <2>3, TypeParts DEF BoundsOK
  <2>5. UNCHANGED <<at, client, call, channels, heard, told, overlooked, owed, remote>>
    BY <1>2, <2>1 DEF FetchPage, ScanRecord
  <2> QED
    BY <1>0, <2>2, <2>4, <2>5, TypeParts, Frames
<1>3. CASE Replay
  <2>1. scan.page \in SUBSET Sent /\ scan.page \in SUBSET Nat /\ scan.page # {} /\ scan.who \in People \cup {Nobody}
    BY <1>3, TypeParts DEF Replay, ScanOK, ScanRecord, Sent
  <2>2. Min(scan.page) \in scan.page
    BY <2>1, OldestOfPage
  <2>3. CallOK'
    BY <1>0, <1>3, <2>1, <2>2 DEF Replay, CallOK
  <2>4. ScanOK'
    BY <1>0, <1>3, <2>1, TypeParts DEF Replay, ScanOK, ScanRecord, NextThread
  <2>5. ClientOK'
    BY <1>0, <1>3, <2>1, <2>2, WrittenByPeople, TypeParts DEF Replay, ClientOK, ClientRecord
  <2> QED
    BY <1>0, <1>3, <2>3, <2>4, <2>5, TypeParts, Frames DEF Replay
<1>4. CASE EndScan
  <2>1. ScanOK'
    BY <1>0, <1>4 DEF EndScan, ScanOK, ScanRecord, NoScan
  <2> QED
    BY <1>0, <1>4, <2>1, TypeParts, Frames DEF EndScan, AtOK
<1> QED
  BY <1>1, <1>2, <1>3, <1>4

\* A Channel whose cursor, count or status is written is still a Channel.
LEMMA ChannelChange ==
    ASSUME channels \in Seq(ChannelRecord), NEW k
    PROVE  /\ \A c \in {0} \cup Sent :
                LET new == [channels EXCEPT ![k].cursor = c]
                IN  new \in Seq(ChannelRecord) /\ Len(new) = Len(channels)
           /\ \A st \in {"Connecting", "Connected", "Archived"} :
                LET new == [channels EXCEPT ![k].status = st]
                IN  new \in Seq(ChannelRecord) /\ Len(new) = Len(channels)
           /\ LET new == [channels EXCEPT ![k].count = @ + 1]
              IN  new \in Seq(ChannelRecord) /\ Len(new) = Len(channels)
<1>1. DOMAIN channels = 1..Len(channels) /\ Len(channels) \in Nat
  OBVIOUS
<1>2. channels \in [1..Len(channels) -> ChannelRecord]
  BY <1>1
<1>3. \A new \in [1..Len(channels) -> ChannelRecord] : new \in Seq(ChannelRecord) /\ Len(new) = Len(channels)
  BY <1>1
<1>4. ASSUME NEW c \in {0} \cup Sent
      PROVE  [channels EXCEPT ![k].cursor = c] \in [1..Len(channels) -> ChannelRecord]
  BY <1>2 DEF ChannelRecord
<1>5. ASSUME NEW st \in {"Connecting", "Connected", "Archived"}
      PROVE  [channels EXCEPT ![k].status = st] \in [1..Len(channels) -> ChannelRecord]
  BY <1>2 DEF ChannelRecord
<1>6. [channels EXCEPT ![k].count = @ + 1] \in [1..Len(channels) -> ChannelRecord]
  <2>1. CASE k \in 1..Len(channels)
    <3>1. channels[k] \in ChannelRecord /\ channels[k].count + 1 \in Nat
      BY <1>2, <2>1 DEF ChannelRecord
    <3>2. [channels[k] EXCEPT !.count = @ + 1] \in ChannelRecord
      BY <3>1 DEF ChannelRecord
    <3> QED
      BY <1>2, <2>1, <3>2
  <2>2. CASE k \notin 1..Len(channels)
    BY <1>2, <2>2
  <2> QED
    BY <2>1, <2>2
<1> QED
  BY <1>3, <1>4, <1>5, <1>6

\* A message that is accepted is counted for itself and for its Channel.
LEMMA AcceptType ==
    ASSUME channels \in Seq(ChannelRecord), heard \in [Message -> Nat], Accepts
    PROVE  /\ channels' \in Seq(ChannelRecord) /\ Len(channels') = Len(channels)
           /\ heard' \in [Message -> Nat]
<1>1. channels' = [channels EXCEPT ![client.channel].count = @ + 1]
  BY DEF Accepts
<1>2. channels' \in Seq(ChannelRecord) /\ Len(channels') = Len(channels)
  BY <1>1, ChannelChange
<1>3. heard' = [heard EXCEPT ![call.message] = @ + 1]
  BY DEF Accepts
<1>4. heard' \in [Message -> Nat]
  <2>1. CASE call.message \in Message
    <3>1. heard[call.message] + 1 \in Nat
      BY <2>1
    <3> QED
      BY <1>3, <3>1
  <2>2. CASE call.message \notin Message
    BY <1>3, <2>2
  <2> QED
    BY <2>1, <2>2
<1> QED
  BY <1>2, <1>4

\* delivers a message and keeps the cursor,
LEMMA DeliveryType ==
    ASSUME TypeOK, MessageCreate \/ ReceiveMessage \/ NoChannel \/ Recover \/ RecoverFails \/ FlushCursor
    PROVE  TypeOK'
<1> USE DEF network, history, bounds
<1>0. UNCHANGED sent /\ Sent' = Sent /\ ClientRecord' = ClientRecord /\ ChannelRecord' = ChannelRecord
  <2>1. UNCHANGED sent
    BY DEF MessageCreate, ReceiveMessage, NoChannel, Recover, RecoverFails, FlushCursor
  <2> QED
    BY <2>1 DEF Sent, ClientRecord, ChannelRecord
<1>1. CASE MessageCreate
  <2>1. client.sequence + 1 \in 1..Len(remote.log) /\ remote.log \in Seq(Sent)
    BY <1>1, TypeParts DEF MessageCreate, RemoteOK, ClientOK, ClientRecord
  <2>2. remote.log[client.sequence + 1] \in Sent
    BY <2>1
  <2>3. CallOK'
    BY <1>0, <1>1, <2>2 DEF MessageCreate, CallOK
  <2>4. ClientOK'
    <3>1. sent[remote.log[client.sequence + 1]].from \in People
      BY <2>2, WrittenByPeople
    <3> DEFINE dms == client.dms \cup {sent[remote.log[client.sequence + 1]].from}
    <3>2. dms \in SUBSET People /\ client.sequence + 1 \in Nat
      BY <3>1, TypeParts DEF ClientOK, ClientRecord
    <3>3. client' = [client EXCEPT !.sequence = client.sequence + 1, !.dms = dms]
      BY <1>1 DEF MessageCreate
    <3> HIDE DEF dms
    <3> QED
      BY <1>0, <1>1, <3>2, <3>3, TypeParts DEF MessageCreate, ClientOK, ClientRecord
  <2> QED
    BY <1>0, <1>1, <2>3, <2>4, TypeParts, Frames DEF MessageCreate
<1>2. CASE ReceiveMessage
  <2>1. UNCHANGED <<heard, channels>> \/ Accepts
    BY <1>2 DEF ReceiveMessage
  <2>2. \/ UNCHANGED <<client, scan>> \/ Succeeds
    BY <1>2 DEF ReceiveMessage
  <2>3. \/ call' \in {NoCall, [call EXCEPT !.at = "recover"]}
    BY <1>2 DEF ReceiveMessage, Fails, Succeeds
  <2>4. told' \in {told, told \cup {call.message}}
    BY <1>2 DEF ReceiveMessage, Fails, Succeeds
  <2>5. UNCHANGED <<remote, at, overlooked, owed, drops, crashes>> /\ faults' \in {faults, faults + 1}
    BY <1>2 DEF ReceiveMessage, Faulty
  <2>6. ChannelsOK' /\ heard' \in [Message -> Nat] /\ Len(channels') = Len(channels)
    <3>1. CASE Accepts
      BY <1>0, <3>1, AcceptType, TypeParts DEF HistoryOK, ChannelsOK
    <3> QED
      BY <1>0, <2>1, <3>1, TypeParts DEF HistoryOK, ChannelsOK
  <2>7. ClientOK' /\ ScanOK'
    <3>1. CASE Succeeds
      <4>1. call.message \in {0} \cup Sent /\ client.cursor \in {0} \cup Sent
        BY TypeParts DEF CallOK, NoCall, ClientOK, ClientRecord
      <4>2. Newer(call.message, client.cursor) \in {0} \cup Sent
        BY <4>1 DEF Newer
      <4>3. client' = [client EXCEPT !.cursor = Newer(call.message, client.cursor)]
        BY <3>1 DEF Succeeds
      <4>4. ClientOK'
        BY <1>0, <2>6, <4>2, <4>3, TypeParts DEF ClientOK, ClientRecord
      <4>5. ScanOK'
        BY <1>0, <3>1, TypeParts DEF Succeeds, ScanOK, ScanRecord
      <4> QED
        BY <4>4, <4>5
    <3> QED
      BY <1>0, <2>2, <2>6, <3>1, TypeParts DEF ClientOK, ScanOK, ScanRecord
  <2>8. CallOK'
    BY <1>0, <2>3, TypeParts DEF CallOK, NoCall
  <2>9. call.message \in Sent
    BY <1>2, TypeParts DEF ReceiveMessage, CallOK, NoCall
  <2>10. HistoryOK' /\ BoundsOK'
    BY <1>0, <2>4, <2>5, <2>6, <2>9, TypeParts DEF HistoryOK, BoundsOK, CallOK
  <2> QED
    BY <1>0, <2>5, <2>6, <2>7, <2>8, <2>10, TypeParts, Frames
<1>3. CASE Recover
  <2>1. ChannelsOK' /\ ClientOK'
    BY <1>0, <1>3, BootstrapBinds, TypeParts DEF Recover, ChannelsOK, ClientOK
  <2>2. CallOK'
    BY <1>0, <1>3, TypeParts DEF Recover, CallOK, NoCall
  <2> QED
    BY <1>0, <1>3, <2>1, <2>2, TypeParts, Frames DEF Recover
<1>4. CASE FlushCursor
  <2>1. ChannelsOK' /\ ClientOK'
    <3>1. CASE channels' = channels
      BY <1>0, <1>4, <3>1, TypeParts DEF FlushCursor, ChannelsOK, ClientOK
    <3>2. CASE channels' = [channels EXCEPT ![client.channel].cursor = client.cursor]
      <4>1. channels \in Seq(ChannelRecord) /\ client.cursor \in {0} \cup Sent
        BY TypeParts DEF ChannelsOK, ClientOK, ClientRecord
      <4>2. channels' \in Seq(ChannelRecord) /\ Len(channels') = Len(channels)
        BY <3>2, <4>1, ChannelChange
      <4> QED
        BY <1>0, <1>4, <4>2, TypeParts DEF FlushCursor, ChannelsOK, ClientOK
    <3> QED
      BY <1>4, <3>1, <3>2 DEF FlushCursor
  <2>2. CallOK'
    BY <1>0, <1>4, TypeParts DEF FlushCursor, CallOK, NoCall
  <2>3. AtOK' /\ BoundsOK'
    BY <1>4, TypeParts DEF FlushCursor, Faulty, AtOK, BoundsOK
  <2> QED
    BY <1>0, <1>4, <2>1, <2>2, <2>3, TypeParts, Frames DEF FlushCursor
<1>5. CASE NoChannel
  <2>1. call.message \in Sent /\ told' \in {told, told \cup {call.message}} /\ call' = NoCall
    BY <1>5, TypeParts DEF NoChannel, Fails, CallOK, NoCall
  <2>2. CallOK' /\ HistoryOK'
    BY <1>0, <1>5, <2>1, TypeParts DEF NoChannel, CallOK, HistoryOK
  <2> QED
    BY <1>0, <1>5, <2>2, TypeParts, Frames DEF NoChannel
<1>6. CASE RecoverFails
  <2>1. /\ call.message \in {0} \cup Sent /\ call' = NoCall
        /\ told' = told \/ (call.message # 0 /\ told' = told \cup {call.message})
    BY <1>6, TypeParts DEF RecoverFails, Fails, CallOK, NoCall
  <2>2. CallOK' /\ HistoryOK'
    BY <1>0, <1>6, <2>1, TypeParts DEF RecoverFails, CallOK, HistoryOK
  <2>3. ClientOK'
    BY <1>0, <1>6, TypeParts DEF RecoverFails, ClientOK, ClientRecord, ChannelsOK
  <2>4. BoundsOK'
    BY <1>6, TypeParts DEF RecoverFails, Faulty, BoundsOK
  <2> QED
    BY <1>0, <1>6, <2>2, <2>3, <2>4, TypeParts, Frames DEF RecoverFails
<1> QED
  BY <1>1, <1>2, <1>3, <1>4, <1>5, <1>6

\* and what others do keeps the types too: people write, connections are lost, sessions
\* expire, Channels connect and are archived, the server goes down.
LEMMA OutsideType ==
    ASSUME TypeOK, \/ \E p \in People : Reply(p)
                   \/ Disconnect \/ SessionExpires \/ Crash
                   \/ \E k \in DOMAIN channels : ChannelReady(k) \/ Archive(k)
    PROVE  TypeOK'
<1> USE DEF network, history, bounds
<1>0. UNCHANGED sent /\ Sent' = Sent /\ ClientRecord' = ClientRecord /\ ChannelRecord' = ChannelRecord
  <2>1. UNCHANGED sent
    BY DEF Reply, Disconnect, SessionExpires, Crash, ChannelReady, Archive
  <2> QED
    BY <2>1 DEF Sent, ClientRecord, ChannelRecord
<1>1. ASSUME NEW p \in People, Reply(p)
      PROVE  TypeOK'
  <2>1. ClientOK'
    BY <1>0, <1>1, TypeParts DEF Reply, ClientOK, ClientRecord
  <2> QED
    BY <1>0, <1>1, <2>1, TypeParts, Frames DEF Reply
<1>2. CASE Disconnect
  <2>1. ClientOK'
    BY <1>0, <1>2, TypeParts DEF Disconnect, ClientOK, ClientRecord
  <2>2. BoundsOK'
    BY <1>2, TypeParts DEF Disconnect, BoundsOK
  <2> QED
    BY <1>0, <1>2, <2>1, <2>2, TypeParts, Frames DEF Disconnect, AtOK
<1>3. CASE SessionExpires
  <2>1. RemoteOK'
    BY <1>0, <1>3 DEF SessionExpires, RemoteOK
  <2> QED
    BY <1>0, <1>3, <2>1, TypeParts, Frames DEF SessionExpires
<1>4. CASE Crash
  <2>1. RemoteOK' /\ ScanOK' /\ CallOK'
    BY <1>0, <1>4 DEF Crash, RemoteOK, ScanOK, ScanRecord, NoScan, CallOK
  <2>2. ClientOK' /\ BoundsOK'
    BY <1>0, <1>4, TypeParts DEF Crash, ClientOK, ClientRecord, Fresh, ChannelsOK, BoundsOK
  <2>3. HistoryOK'
    BY <1>0, <1>4, TypeParts DEF Crash, HistoryOK
  <2> QED
    BY <1>0, <1>4, <2>1, <2>2, <2>3, TypeParts, Frames DEF Crash, AtOK
<1>5. ASSUME NEW k \in DOMAIN channels, NEW st \in {"Connected", "Archived"},
             channels' = [channels EXCEPT ![k].status = st], UNCHANGED client
      PROVE  ChannelsOK' /\ ClientOK'
  <2>1. channels' \in Seq(ChannelRecord) /\ Len(channels') = Len(channels)
    BY <1>5, ChannelChange, TypeParts DEF ChannelsOK
  <2> QED
    BY <1>0, <1>5, <2>1, TypeParts DEF ChannelsOK, ClientOK
<1>6. ASSUME NEW k \in DOMAIN channels, ChannelReady(k) \/ Archive(k)
      PROVE  TypeOK'
  <2>1. ChannelsOK' /\ ClientOK'
    BY <1>5, <1>6 DEF ChannelReady, Archive
  <2>2. BoundsOK'
    BY <1>6, TypeParts DEF ChannelReady, Archive, Faulty, BoundsOK
  <2> QED
    BY <1>0, <1>6, <2>1, <2>2, TypeParts, Frames DEF ChannelReady, Archive
<1> QED
  BY <1>1, <1>2, <1>3, <1>4, <1>6

\* A message that is written is one more of those there are.
LEMMA WriteType ==
    ASSUME TypeOK, NEW p \in People, Write(p)
    PROVE  TypeOK'
<1> USE DEF network, history, bounds
<1> DEFINE Writings == [from : People, during : BOOLEAN]
<1>1. sent \in Seq(Writings) /\ Len(sent) \in Nat /\ Len(sent) < MessageLimit /\ MessageLimit \in Nat
  BY TypeParts, WrittenByPeople, GatewayBounds DEF SentOK, Write
<1>2. PICK w \in Writings : sent' = Append(sent, w)
  <2> DEFINE b == CatchingUp
  <2>1. b \in BOOLEAN /\ sent' = Append(sent, [from |-> p, during |-> b])
    BY DEF Write, CatchingUp
  <2> HIDE DEF b
  <2> QED
    BY <2>1
<1> HIDE DEF Writings
<1>3. sent' \in Seq(Writings) /\ Len(sent') = Len(sent) + 1
  BY <1>1, <1>2
<1>4. SentOK'
  BY <1>1, <1>3 DEF SentOK, Writings
<1>5. Sent \subseteq Sent' /\ Len(sent) + 1 \in Sent'
  BY <1>1, <1>3 DEF Sent
<1>6. RemoteOK'
  <2>1. remote.log \in Seq(Sent')
    BY <1>5, TypeParts DEF RemoteOK
  <2>2. Append(remote.log, Len(sent) + 1) \in Seq(Sent')
    BY <1>5, <2>1
  <2> QED
    BY <2>1, <2>2, TypeParts DEF Write, RemoteOK
<1>7. ClientRecord \subseteq ClientRecord' /\ ScanRecord \subseteq ScanRecord' /\ ChannelRecord \subseteq ChannelRecord'
  BY <1>5 DEF ClientRecord, ScanRecord, ChannelRecord
<1>8. UNCHANGED <<at, client, scan, call, channels, heard, told, overlooked, drops, crashes, faults>>
  BY DEF Write
<1>9. AtOK' /\ ClientOK' /\ ScanOK' /\ ChannelsOK'
  BY <1>7, <1>8, TypeParts DEF AtOK, ClientOK, ScanOK, ChannelsOK
<1>10. CallOK' /\ BoundsOK'
  BY <1>5, <1>8, TypeParts DEF CallOK, BoundsOK, NoCall
<1>11. HistoryOK'
  <2>1. owed' \in {owed, owed \cup {Len(sent) + 1}}
    BY DEF Write
  <2> QED
    BY <1>5, <1>8, <2>1, TypeParts DEF HistoryOK
<1> QED
  BY <1>4, <1>6, <1>9, <1>10, <1>11, TypeParts

\* Every step keeps the types.
LEMMA TypeStep == ASSUME TypeOK, [Next]_vars PROVE TypeOK'
<1>1. CASE TransportStep \/ DiscordStep
  BY <1>1, OpeningType, CatchUpType, DeliveryType DEF TransportStep, DiscordStep
<1>2. CASE UNCHANGED vars
  BY <1>2, TypeParts, Frames DEF vars, network, history, bounds
<1> QED
  BY <1>1, <1>2, OutsideType, WriteType DEF Next

\* The transport starts with nothing written.
LEMMA TypeInit == ASSUME Init PROVE TypeOK
<1>1. SentOK /\ RemoteOK /\ AtOK
  BY GatewayBounds DEF Init, SentOK, RemoteOK, AtOK
<1>2. ClientOK /\ ScanOK /\ CallOK /\ ChannelsOK
  BY DEF Init, ClientOK, ClientRecord, Fresh, ScanOK, ScanRecord, NoScan, CallOK, ChannelsOK
<1>3. HistoryOK /\ BoundsOK
  BY DEF Init, HistoryOK, BoundsOK
<1> QED
  BY <1>1, <1>2, <1>3, TypeParts

\* The cursor, the pages and the frames of the gateway hold messages that were sent, and a
\* call that waits for an answer is about one, whatever is lost in between.
THEOREM TypeCorrect == Spec => []TypeOK
<1>1. TypeOK /\ [Next]_vars => TypeOK'
  BY TypeStep
<1> QED
  BY TypeInit, <1>1, PTL DEF Spec

-----------------------------------------------------------------------------
(***************************************************************************)
(* Where the transport is: what its session, its log of dispatches, its    *)
(* call and its catch-up may be at each point of its task.                 *)
(***************************************************************************)
ChannelArchived == client.channel # 0 /\ Channel.status = "Archived"

SessionInv ==
    /\ at \in {"list", "scan", "flushScan", "up"} => client.session /\ remote.alive
    /\ at = "ready" => remote.alive /\ ~client.session
    /\ at # "stopped" => client.channel # 0 \/ faults > 0
    /\ at = "stopped" => client.cursor = 0

\* Dispatches come in the order of the messages; those queued since the session was
\* identified, before the catch-up is over, are of messages written during it.
LogInv ==
    /\ \A i, j \in DOMAIN remote.log : i < j => remote.log[i] < remote.log[j]
    /\ at \in {"ready", "list", "scan"} => \A k \in DOMAIN remote.log : sent[remote.log[k]].during
    /\ client.session /\ remote.alive => client.sequence <= Len(remote.log)
    /\ at = "up" /\ call.message # 0 =>
         client.sequence \in DOMAIN remote.log /\ remote.log[client.sequence] = call.message

\* Only an archived Channel is replaced, and it was archived by hand.
CallInv ==
    /\ at \in {"stopped", "ready", "list"} => Idle
    /\ at \notin {"scan", "up"} => call.message = 0
    /\ call.at = "recover" => ChannelArchived
    /\ ChannelArchived => faults > 0

\* The page is of one thread, the one being read, and what was fetched is before `after`.
ScanInv ==
    /\ at = "list" => scan.base = client.cursor /\ scan.page = {} /\ scan.who = Nobody
    /\ at = "scan" =>
        /\ scan.who # Nobody => scan.who \in scan.todo
        /\ scan.page # {} => scan.who # Nobody
        /\ \A m \in scan.page : sent[m].from = scan.who /\ m <= scan.after /\ m # call.message
        /\ call.message # 0 =>
            \/ sent[call.message].from \notin scan.todo
            \/ scan.who = sent[call.message].from /\ call.message <= scan.after

UnwrittenUnheard == \A m \in Message \ Sent : heard[m] = 0

PlaceInv == TypeOK /\ SessionInv /\ LogInv /\ CallInv /\ ScanInv /\ UnwrittenUnheard

\* The types of the numbers.
LEMMA NumberFacts ==
    ASSUME TypeOK
    PROVE  /\ Len(sent) \in Nat /\ Sent \subseteq Nat \ {0} /\ Sent \subseteq Message
           /\ client.cursor \in Nat /\ client.sequence \in Nat /\ client.session \in BOOLEAN
           /\ client.channel \in 0..Len(channels) /\ Len(channels) \in Nat
           /\ DOMAIN channels = 1..Len(channels) /\ \A k \in DOMAIN channels : channels[k] \in ChannelRecord
           /\ scan.base \in Nat /\ scan.after \in Nat /\ scan.page \subseteq Sent
           /\ scan.todo \subseteq People /\ scan.who \in People \cup {Nobody}
           /\ call.message \in {0} \cup Sent
           /\ DOMAIN remote.log = 1..Len(remote.log) /\ Len(remote.log) \in Nat
           /\ \A k \in DOMAIN remote.log : remote.log[k] \in Sent
           /\ \A m \in Message : heard[m] \in Nat
           /\ crashes \in Nat /\ faults \in Nat
<1>1. Len(sent) \in Nat /\ Sent \subseteq Nat \ {0} /\ Sent \subseteq Message
  <2>1. Len(sent) \in Nat /\ Len(sent) <= MessageLimit /\ MessageLimit \in Nat
    BY WrittenByPeople, TypeParts, GatewayBounds DEF SentOK
  <2> QED
    BY <2>1 DEF Sent, Message
<1>0. {0} \cup Sent \subseteq Nat
  BY <1>1
<1>2. /\ client.cursor \in Nat /\ client.sequence \in Nat /\ client.session \in BOOLEAN
      /\ client.channel \in 0..Len(channels)
  <2>1. client \in ClientRecord /\ client.channel \in 0..Len(channels)
    BY TypeParts DEF ClientOK
  <2>2. client.cursor \in {0} \cup Sent /\ client.sequence \in Nat /\ client.session \in BOOLEAN
    BY <2>1 DEF ClientRecord
  <2> QED
    BY <1>0, <2>1, <2>2
<1>3. /\ Len(channels) \in Nat /\ DOMAIN channels = 1..Len(channels)
      /\ \A k \in DOMAIN channels : channels[k] \in ChannelRecord
  BY TypeParts DEF ChannelsOK
<1>4. /\ scan.base \in Nat /\ scan.after \in Nat /\ scan.page \subseteq Sent
      /\ scan.todo \subseteq People /\ scan.who \in People \cup {Nobody}
  <2>1. scan \in ScanRecord
    BY TypeParts DEF ScanOK
  <2>2. /\ scan.base \in {0} \cup Sent /\ scan.after \in {0} \cup Sent /\ scan.page \subseteq Sent
        /\ scan.todo \subseteq People /\ scan.who \in People \cup {Nobody}
    BY <2>1 DEF ScanRecord
  <2> QED
    BY <1>0, <2>2
<1>5. call.message \in {0} \cup Sent
  BY TypeParts DEF CallOK, NoCall
<1>6. remote.log \in Seq(Sent)
  BY TypeParts DEF RemoteOK
<1>7. /\ \A m \in Message : heard[m] \in Nat
      /\ crashes \in Nat /\ faults \in Nat
  BY TypeParts DEF HistoryOK, BoundsOK
<1>8. DOMAIN remote.log = 1..Len(remote.log) /\ Len(remote.log) \in Nat /\ \A k \in DOMAIN remote.log : remote.log[k] \in Sent
  BY <1>6
<1> QED
  BY <1>1, <1>2, <1>3, <1>4, <1>5, <1>7, <1>8, ZenonT(30)

(***************************************************************************)
(* What each action of the transport does, field by field.                 *)
(***************************************************************************)
SameBinding == client'.session = client.session /\ client'.channel = client.channel
SameClient == SameBinding /\ client'.sequence = client.sequence /\ client'.cursor = client.cursor
SameStatus == /\ Len(channels') = Len(channels)
              /\ \A k \in DOMAIN channels : channels'[k].status = channels[k].status
\* A Channel is chosen that is not archived, and a cursor that some Channel has.
Rebound ==
    /\ client'.channel \in 1..Len(channels') /\ channels'[client'.channel].status # "Archived"
    /\ Len(channels') >= Len(channels)
    /\ \A j \in DOMAIN channels' : channels'[j].cursor = IF j \in DOMAIN channels THEN channels[j].cursor ELSE 0
CursorFrom(c) ==
    \/ client'.cursor = c
    \/ /\ channels'[client'.channel].status = "Connected"
       /\ \E j \in DOMAIN channels : client'.cursor = channels[j].cursor

\* The transport starts without a session, with a Channel that is connected or connecting.
LEMMA StartStep ==
    ASSUME TypeOK, Start
    PROVE  /\ at = "stopped" /\ at' = "opening"
           /\ client'.session = FALSE /\ client'.sequence = 0 /\ Rebound /\ CursorFrom(0)
           /\ UNCHANGED <<sent, remote, scan, call, heard, told, overlooked, crashes, faults>>
<1> USE DEF network, history, bounds
<1>1. Fresh \in ClientRecord /\ Fresh.session = FALSE /\ Fresh.sequence = 0 /\ Fresh.cursor = 0
  BY DEF Fresh, ClientRecord
<1>2. Bootstrap(Fresh) /\ at = "stopped" /\ at' = "opening"
  BY DEF Start
<1>3. UNCHANGED <<sent, remote, scan, call, heard, told, overlooked, crashes, faults>>
  BY DEF Start
<1> QED
  BY <1>1, <1>2, <1>3, BootstrapBinds, NumberFacts DEF Rebound, CursorFrom

\* The binding to an archived Channel is replaced, and the message posted once more.
LEMMA RecoverStep ==
    ASSUME TypeOK, Recover
    PROVE  /\ call.at = "recover" /\ call'.message = call.message /\ call'.at \in {"none", "retry"}
           /\ client'.session = client.session /\ client'.sequence = client.sequence
           /\ Rebound /\ CursorFrom(client.cursor)
           /\ UNCHANGED <<sent, remote, at, scan, heard, told, overlooked, crashes, faults>>
<1> USE DEF network, history, bounds
<1>1. client \in ClientRecord
  BY TypeParts DEF ClientOK
<1>2. Bootstrap(client)
  BY DEF Recover
<1>3. /\ call.at = "recover" /\ UNCHANGED <<sent, remote, at, scan, heard, told, overlooked, crashes, faults>>
      /\ call'.message = call.message /\ call'.at \in {"none", "retry"}
  BY TypeParts DEF Recover, CallOK, NoCall
<1> QED
  BY <1>1, <1>2, <1>3, BootstrapBinds, NumberFacts DEF Rebound, CursorFrom

\* A new session begins: without a cursor nothing is looked for, with one a catch-up begins.
LEMMA ReadyStep ==
    ASSUME TypeOK, Ready
    PROVE  /\ at = "ready" /\ client'.session /\ client'.sequence = 0
           /\ client'.cursor = client.cursor /\ client'.channel = client.channel
           /\ UNCHANGED <<sent, remote, call, channels, heard, told, crashes, faults>>
           /\ \/ /\ at' = "up" /\ UNCHANGED scan
                 /\ overlooked' = overlooked \cup {m \in Sent : heard[m] = 0}
              \/ /\ client.cursor # 0 /\ at' = "list" /\ UNCHANGED overlooked
                 /\ scan'.base = client.cursor /\ scan'.page = {} /\ scan'.who = Nobody
<1> USE DEF network, history, bounds
<1>1. client \in ClientRecord
  BY TypeParts DEF ClientOK
<1>2. client' = [client EXCEPT !.session = TRUE, !.sequence = 0]
  BY DEF Ready
<1>3. client'.session /\ client'.sequence = 0 /\ client'.cursor = client.cursor /\ client'.channel = client.channel
  BY <1>1, <1>2 DEF ClientRecord
<1> QED
  BY <1>3 DEF Ready, NoScan

\* The threads of the catch-up are known, and what is in no such thread is overlooked.
LEMMA ListStep ==
    ASSUME TypeOK, NEW listed \in SUBSET People, ListDms(listed)
    PROVE  /\ at = "list" /\ at' = "scan"
           /\ scan'.base = scan.base /\ scan'.page = scan.page /\ scan'.who = scan.who
           /\ overlooked' = overlooked \cup {m \in Sent : sent[m].from \notin scan'.todo /\ heard[m] = 0}
           /\ UNCHANGED <<sent, remote, client, call, channels, heard, told, crashes, faults>>
<1> USE DEF network, history, bounds
<1>1. scan \in ScanRecord
  BY TypeParts DEF ScanOK
<1> QED
  BY <1>1 DEF ListDms, ListFrom, Sources, ScanRecord

\* A thread is over: there are no more messages of it, or the request failed.  Or a page
\* of it was fetched: its oldest messages after `After`, all of them if it is not full.
ThreadOver(p) == scan'.base = scan.base /\ scan'.todo = scan.todo \ {p} /\ scan'.who = Nobody /\ scan'.page = {}
LEMMA FetchStep ==
    ASSUME TypeOK, NEW p \in People, FetchPage(p)
    PROVE  /\ at = "scan" /\ Idle /\ p \in scan.todo /\ scan.page = {} /\ scan.who \in {Nobody, p}
           /\ UNCHANGED <<sent, remote, at, client, call, channels, heard, told, overlooked, crashes>>
           /\ \/ ThreadOver(p) /\ faults' = faults /\ Missed(p, After) = {}
              \/ ThreadOver(p) /\ faults' = faults + 1
              \/ /\ scan'.base = scan.base /\ scan'.todo = scan.todo /\ scan'.who = p /\ faults' = faults
                 /\ scan'.page \subseteq Missed(p, After) /\ scan'.page # {}
                 /\ \A k \in scan'.page : k <= scan'.after
                 /\ \A m \in Missed(p, After) \ scan'.page : m > scan'.after
                 /\ ~scan'.full => scan'.page = Missed(p, After)
<1> USE DEF network, history, bounds
<1>1. scan \in ScanRecord /\ scan' \in ScanRecord
  BY ScanPageType, TypeParts DEF ScanOK
<1>2. /\ at = "scan" /\ Idle /\ p \in scan.todo /\ scan.page = {} /\ scan.who \in {Nobody, p}
      /\ UNCHANGED <<sent, remote, at, client, call, channels, heard, told, overlooked, crashes>>
  BY <1>1 DEF FetchPage, ScanRecord
<1>3. scan' = NextThread(p) => ThreadOver(p)
  BY <1>1 DEF NextThread, ThreadOver, ScanRecord
<1>4. ASSUME NEW page \in Pages(Missed(p, After)) \ {{}},
             scan' = [scan EXCEPT !.who = p, !.page = page, !.after = Max(page), !.full = IsFull(page)]
      PROVE  /\ scan'.base = scan.base /\ scan'.todo = scan.todo /\ scan'.who = p
             /\ scan'.page \subseteq Missed(p, After) /\ scan'.page # {}
             /\ \A k \in scan'.page : k <= scan'.after
             /\ \A m \in Missed(p, After) \ scan'.page : m > scan'.after
             /\ ~scan'.full => scan'.page = Missed(p, After)
  <2>1. /\ scan'.base = scan.base /\ scan'.todo = scan.todo /\ scan'.who = p
        /\ scan'.page = page /\ scan'.after = Max(page) /\ scan'.full = IsFull(page)
    BY <1>1, <1>4 DEF ScanRecord
  <2>2. /\ page \subseteq Missed(p, After) /\ (page # Missed(p, After) => IsFull(page))
        /\ \A m \in page, k \in Missed(p, After) \ page : m < k
    BY <1>4 DEF Pages
  <2>3. page \in SUBSET (1..Len(sent)) /\ Len(sent) \in Nat /\ page # {}
    BY <1>4, <2>2, NumberFacts DEF Missed, Sent
  <2>4. Max(page) \in page /\ \A k \in page : k <= Max(page)
    BY <2>3, NewestOfPage
  <2> QED
    BY <2>1, <2>2, <2>3, <2>4
<1>5. \/ Missed(p, After) = {} /\ scan' = NextThread(p) /\ UNCHANGED faults
      \/ /\ UNCHANGED faults
         /\ \E page \in Pages(Missed(p, After)) \ {{}} :
                scan' = [scan EXCEPT !.who = p, !.page = page, !.after = Max(page), !.full = IsFull(page)]
      \/ faults' = faults + 1 /\ scan' = NextThread(p)
  BY <1>1 DEF FetchPage, Faulty, ScanRecord
<1> QED
  BY <1>2, <1>3, <1>4, <1>5

\* A message of the page is posted; the last one of a page that was not full ends its thread.
LEMMA ReplayStep ==
    ASSUME TypeOK, Replay
    PROVE  /\ at = "scan" /\ Idle /\ SameClient /\ call'.at = "post"
           /\ UNCHANGED <<sent, remote, at, channels, heard, told, overlooked, crashes, faults>>
           /\ \E m \in scan.page :
                /\ call'.message = m
                /\ \/ ThreadOver(scan.who) /\ scan.page = {m} /\ ~scan.full
                   \/ /\ scan'.base = scan.base /\ scan'.todo = scan.todo /\ scan'.who = scan.who
                      /\ scan'.after = scan.after /\ scan'.full = scan.full /\ scan'.page = scan.page \ {m}
<1> USE DEF network, history, bounds
<1> DEFINE m == Min(scan.page)
<1>1. scan \in ScanRecord /\ client \in ClientRecord
  BY TypeParts DEF ScanOK, ClientOK
<1>2. m \in scan.page
  BY NumberFacts, OldestOfPage DEF Replay
<1> HIDE DEF m
<1>3. /\ at = "scan" /\ Idle /\ call' = [message |-> m, at |-> "post"]
      /\ scan' = IF scan.page = {m} /\ ~scan.full THEN NextThread(scan.who)
                 ELSE [scan EXCEPT !.page = scan.page \ {m}]
      /\ client' = [client EXCEPT !.dms = @ \cup {sent[m].from}]
      /\ UNCHANGED <<sent, remote, at, channels, heard, told, overlooked, crashes, faults>>
  BY DEF Replay, m
<1>4. SameClient
  BY <1>1, <1>3 DEF ClientRecord, SameClient, SameBinding
<1>5. \/ ThreadOver(scan.who) /\ scan.page = {m} /\ ~scan.full
      \/ /\ scan'.base = scan.base /\ scan'.todo = scan.todo /\ scan'.who = scan.who
         /\ scan'.after = scan.after /\ scan'.full = scan.full /\ scan'.page = scan.page \ {m}
  BY <1>1, <1>3 DEF ScanRecord, NextThread, ThreadOver
<1> QED
  BY <1>2, <1>3, <1>4, <1>5

\* The next dispatch of the session is taken and posted.
LEMMA MessageCreateStep ==
    ASSUME TypeOK, MessageCreate
    PROVE  /\ at = "up" /\ Idle /\ SameBinding /\ client'.cursor = client.cursor
           /\ client'.sequence = client.sequence + 1 /\ client'.sequence \in DOMAIN remote.log
           /\ call'.at = "post" /\ call'.message = remote.log[client'.sequence]
           /\ UNCHANGED <<sent, remote, at, scan, channels, heard, told, overlooked, crashes, faults>>
<1> USE DEF network, history, bounds
<1> DEFINE m == remote.log[client.sequence + 1]
<1>1. client \in ClientRecord
  BY TypeParts DEF ClientOK
<1> HIDE DEF m
<1>2. /\ at = "up" /\ Idle /\ client.sequence < Len(remote.log)
      /\ client' = [client EXCEPT !.sequence = @ + 1, !.dms = @ \cup {sent[m].from}]
      /\ call' = [message |-> m, at |-> "post"]
      /\ UNCHANGED <<sent, remote, at, scan, channels, heard, told, overlooked, crashes, faults>>
  BY DEF MessageCreate, m
<1>3. SameBinding /\ client'.cursor = client.cursor /\ client'.sequence = client.sequence + 1
  BY <1>1, <1>2 DEF ClientRecord, SameBinding
<1> QED
  BY <1>2, <1>3, NumberFacts DEF m

\* A ReceiveMessage is accepted, fails, or finds its Channel archived and has it replaced.
\* No Channel is connected or archived by it.
SameCursors == \A k \in DOMAIN channels : channels'[k].cursor = channels[k].cursor
IsHeard == heard' = [heard EXCEPT ![call.message] = @ + 1]
Answered == call'.message = 0 /\ call'.at = "none"

LEMMA ReceiveStep ==
    ASSUME TypeOK, ReceiveMessage
    PROVE  /\ call.message \in Sent /\ call.at \in {"post", "retry"} /\ client.channel # 0
           /\ SameStatus /\ SameCursors
           /\ UNCHANGED <<sent, remote, at, overlooked, crashes>>
           /\ SameBinding /\ client'.sequence = client.sequence
           /\ scan'.base = scan.base /\ scan'.todo = scan.todo /\ scan'.who = scan.who
           /\ scan'.after = scan.after /\ scan'.page = scan.page /\ scan'.full = scan.full
           /\ \/ /\ Channel.status = "Connected" /\ IsHeard /\ Answered /\ UNCHANGED <<told, faults>>
                 /\ client'.cursor = Newer(call.message, client.cursor)
              \/ /\ faults' = faults + 1 /\ (IsHeard \/ UNCHANGED heard)
                 /\ Answered /\ client'.cursor = client.cursor
              \/ /\ Channel.status = "Archived" /\ call'.message = call.message /\ call'.at = "recover"
                 /\ client'.cursor = client.cursor /\ UNCHANGED <<heard, told, faults>>
              \/ /\ Channel.status # "Connected" /\ Answered /\ client'.cursor = client.cursor
                 /\ UNCHANGED <<heard, faults>>
                 /\ told' = (IF at = "up" THEN told \cup {call.message} ELSE told)
<1> USE DEF network, bounds
<1>0. scan \in ScanRecord /\ client \in ClientRecord
  BY TypeParts DEF ScanOK, ClientOK
<1>1. call.message \in Sent /\ call.at \in {"post", "retry"} /\ client.channel # 0
  BY TypeParts DEF ReceiveMessage, CallOK, NoCall
<1>2. SameStatus /\ SameCursors
  <2>1. \A k \in DOMAIN channels : channels[k] \in ChannelRecord
    BY NumberFacts
  <2>2. CASE Accepts
    <3>1. channels' = [channels EXCEPT ![client.channel].count = @ + 1]
      BY <2>2 DEF Accepts
    <3>2. Len(channels') = Len(channels)
      BY <3>1, ChannelChange, TypeParts DEF ChannelsOK
    <3>3. ASSUME NEW k \in DOMAIN channels
          PROVE  channels'[k] = channels[k] \/ channels'[k] = [channels[k] EXCEPT !.count = @ + 1]
      BY <3>1
    <3> QED
      BY <2>1, <3>2, <3>3 DEF SameStatus, SameCursors, ChannelRecord
  <2> QED
    BY <2>2 DEF ReceiveMessage, SameStatus, SameCursors
<1>3. UNCHANGED <<sent, remote, at, overlooked, crashes>>
  BY DEF ReceiveMessage
<1>4. scan' = scan \/ scan' = [scan EXCEPT !.caught = TRUE]
  BY DEF ReceiveMessage, Succeeds
<1>5. /\ scan'.base = scan.base /\ scan'.todo = scan.todo /\ scan'.who = scan.who
      /\ scan'.after = scan.after /\ scan'.page = scan.page /\ scan'.full = scan.full
  BY <1>0, <1>4 DEF ScanRecord
<1>6. call' = NoCall => Answered
  BY DEF NoCall, Answered
<1>7. call' = [call EXCEPT !.at = "recover"] => call'.message = call.message /\ call'.at = "recover"
  BY TypeParts DEF CallOK, NoCall
<1>8. client' = client \/ client' = [client EXCEPT !.cursor = Newer(call.message, client.cursor)]
  BY DEF ReceiveMessage, Succeeds
<1>9. SameBinding /\ client'.sequence = client.sequence
  BY <1>0, <1>8 DEF SameBinding, ClientRecord
<1>10. client' = [client EXCEPT !.cursor = Newer(call.message, client.cursor)]
         => client'.cursor = Newer(call.message, client.cursor)
  BY <1>0 DEF ClientRecord
<1>11. \/ Accepts /\ Succeeds /\ UNCHANGED faults
       \/ Faulty /\ Fails /\ UNCHANGED client /\ (Accepts \/ UNCHANGED <<heard, channels>>)
       \/ /\ Channel.status = "Archived" /\ call.at = "post" /\ call' = [call EXCEPT !.at = "recover"]
          /\ UNCHANGED <<client, scan, channels, heard, told, faults>>
       \/ /\ Channel.status = "Connecting" \/ (Channel.status = "Archived" /\ call.at = "retry")
          /\ Fails /\ UNCHANGED <<client, channels, heard, faults>>
  BY DEF ReceiveMessage
<1>12. /\ Accepts => Channel.status = "Connected" /\ IsHeard
       /\ Succeeds => /\ call' = NoCall /\ UNCHANGED told
                      /\ client' = [client EXCEPT !.cursor = Newer(call.message, client.cursor)]
       /\ Fails => /\ call' = NoCall
                   /\ told' = (IF at = "up" THEN told \cup {call.message} ELSE told)
  BY DEF Accepts, IsHeard, Succeeds, Fails
<1> QED
  BY <1>1, <1>2, <1>3, <1>5, <1>6, <1>7, <1>9, <1>10, <1>11, <1>12 DEF Faulty

\* Without a Channel no message is posted,
LEMMA NoChannelStep ==
    ASSUME TypeOK, NoChannel
    PROVE  /\ call.at = "post" /\ client.channel = 0 /\ Answered /\ told \subseteq told'
           /\ UNCHANGED <<sent, remote, at, client, scan, channels, heard, overlooked, crashes, faults>>
  BY DEF NoChannel, Fails, Answered, NoCall, network, bounds

\* and there is none once an archived one could not be replaced.
LEMMA RecoverFailsStep ==
    ASSUME TypeOK, RecoverFails
    PROVE  /\ call.at = "recover" /\ Answered /\ told \subseteq told' /\ faults' = faults + 1
           /\ client'.channel = 0 /\ client'.cursor = client.cursor
           /\ client'.session = client.session /\ client'.sequence = client.sequence
           /\ UNCHANGED <<sent, remote, at, scan, channels, heard, overlooked, crashes>>
<1>1. client \in ClientRecord
  BY TypeParts DEF ClientOK
<1>2. client' = [client EXCEPT !.channel = 0]
  BY DEF RecoverFails
<1>3. /\ client'.channel = 0 /\ client'.cursor = client.cursor
      /\ client'.session = client.session /\ client'.sequence = client.sequence
  BY <1>1, <1>2 DEF ClientRecord
<1>4. /\ call.at = "recover" /\ Answered /\ told \subseteq told' /\ faults' = faults + 1
      /\ UNCHANGED <<sent, remote, at, scan, channels, heard, overlooked, crashes>>
  BY DEF RecoverFails, Faulty, Fails, Answered, NoCall, network
<1> QED
  BY <1>3, <1>4

\* Storing the cursor changes no status; it may fail, or find the Channel archived.
LEMMA FlushStep ==
    ASSUME TypeOK, FlushCursor
    PROVE  /\ at \in {"flush", "flushScan"} /\ Idle /\ at' = (IF at = "flush" THEN "opening" ELSE "up")
           /\ SameStatus
           /\ \A k \in DOMAIN channels : channels'[k].cursor \in {channels[k].cursor, client.cursor}
           /\ call'.message = 0 /\ call'.at \in {"none", "recover"}
           /\ call'.at = "recover" => client.channel # 0 /\ Channel.status = "Archived"
           /\ faults' \in {faults, faults + 1}
           /\ UNCHANGED <<sent, remote, client, scan, heard, told, overlooked, crashes>>
<1> USE DEF network, history
<1>1. SameStatus /\ \A k \in DOMAIN channels : channels'[k].cursor \in {channels[k].cursor, client.cursor}
  <2>1. \A k \in DOMAIN channels : channels[k] \in ChannelRecord
    BY NumberFacts
  <2>2. CASE channels' = [channels EXCEPT ![client.channel].cursor = client.cursor]
    <3>1. Len(channels') = Len(channels)
      BY <2>2, ChannelChange, TypeParts DEF ChannelsOK, ClientOK, ClientRecord
    <3>2. ASSUME NEW k \in DOMAIN channels
          PROVE  channels'[k] = channels[k] \/ channels'[k] = [channels[k] EXCEPT !.cursor = client.cursor]
      BY <2>2
    <3> QED
      BY <2>1, <3>1, <3>2 DEF SameStatus, ChannelRecord
  <2>3. CASE channels' = channels
    BY <2>3 DEF SameStatus
  <2> QED
    BY <2>2, <2>3 DEF FlushCursor
<1>2. /\ call'.message = 0 /\ call'.at \in {"none", "recover"}
      /\ call'.at = "recover" => client.channel # 0 /\ Channel.status = "Archived"
  BY DEF FlushCursor, Stores, Idle, NoCall
<1>3. /\ at \in {"flush", "flushScan"} /\ Idle /\ at' = (IF at = "flush" THEN "opening" ELSE "up")
      /\ faults' \in {faults, faults + 1}
      /\ UNCHANGED <<sent, remote, client, scan, heard, told, overlooked, crashes>>
  BY DEF FlushCursor, Faulty
<1> QED
  BY <1>1, <1>2, <1>3

\* What is written is new; the gateway queues it if there is a session.
LEMMA WriteStep ==
    ASSUME TypeOK, NEW p \in People, Write(p)
    PROVE  /\ Len(sent') = Len(sent) + 1 /\ \A m \in Sent : sent'[m] = sent[m]
           /\ Sent' = Sent \cup {Len(sent) + 1} /\ \A m \in Sent : m < Len(sent) + 1
           /\ sent'[Len(sent) + 1].during <=> at \in {"ready", "list", "scan"}
           /\ remote'.alive = remote.alive
           /\ \A k \in DOMAIN remote.log : remote'.log[k] = remote.log[k]
           /\ ~remote.alive => remote'.log = remote.log
           /\ remote.alive => /\ DOMAIN remote'.log = DOMAIN remote.log \cup {Len(remote.log) + 1}
                              /\ remote'.log[Len(remote.log) + 1] = Len(sent) + 1
           /\ UNCHANGED <<at, client, scan, call, channels, heard, told, overlooked, crashes, faults>>
<1> USE DEF history, bounds
<1> DEFINE b == CatchingUp
<1> DEFINE Writings == [from : People, during : BOOLEAN]
<1>1. b \in BOOLEAN /\ sent' = Append(sent, [from |-> p, during |-> b])
  BY DEF Write, CatchingUp
<1>2. b <=> at \in {"ready", "list", "scan"}
  BY DEF CatchingUp
<1> HIDE DEF b
<1>3. [from |-> p, during |-> b] \in Writings /\ [from |-> p, during |-> b].during = b
  BY <1>1
<1>4. sent \in Seq(Writings) /\ Len(sent) \in Nat
  BY TypeParts, WrittenByPeople DEF SentOK
<1> HIDE DEF Writings
<1>5. /\ Len(sent') = Len(sent) + 1 /\ \A m \in 1..Len(sent) : sent'[m] = sent[m]
      /\ sent'[Len(sent) + 1] = [from |-> p, during |-> b]
  BY <1>1, <1>3, <1>4
<1>6. remote.log \in Seq(Sent) /\ remote \in [alive : BOOLEAN, log : Seq(Sent)]
  BY TypeParts DEF RemoteOK
<1>7. remote' = IF remote.alive THEN [remote EXCEPT !.log = Append(@, Len(sent) + 1)] ELSE remote
  BY DEF Write
<1>8. /\ remote'.alive = remote.alive
      /\ remote'.log = IF remote.alive THEN Append(remote.log, Len(sent) + 1) ELSE remote.log
  BY <1>6, <1>7
<1>9. /\ \A k \in DOMAIN remote.log : remote'.log[k] = remote.log[k]
      /\ remote.alive => /\ DOMAIN remote'.log = DOMAIN remote.log \cup {Len(remote.log) + 1}
                         /\ remote'.log[Len(remote.log) + 1] = Len(sent) + 1
  BY <1>6, <1>8
<1>10. UNCHANGED <<at, client, scan, call, channels, heard, told, overlooked, crashes, faults>>
  BY DEF Write
<1>11. Sent' = Sent \cup {Len(sent) + 1} /\ \A m \in Sent : m < Len(sent) + 1
  BY <1>4, <1>5 DEF Sent
<1> QED
  BY <1>2, <1>3, <1>4, <1>5, <1>8, <1>9, <1>10, <1>11 DEF Sent

\* A reply changes nothing but the DMs that are known.
LEMMA ReplyStep ==
    ASSUME TypeOK, NEW p \in People, Reply(p)
    PROVE  /\ SameClient
           /\ UNCHANGED <<sent, remote, at, scan, call, channels, heard, told, overlooked, crashes, faults>>
<1>1. client \in ClientRecord
  BY TypeParts DEF ClientOK
<1> QED
  BY <1>1 DEF Reply, SameClient, SameBinding, ClientRecord, network, history, bounds

\* A connection that is lost is resumed, or its session is given up.
LEMMA DisconnectStep ==
    ASSUME TypeOK, Disconnect
    PROVE  /\ at \in {"opening", "ready", "up"} /\ Idle /\ at' = "flush"
           /\ client'.channel = client.channel /\ client'.cursor = client.cursor
           /\ client'.sequence = client.sequence /\ (client'.session = client.session \/ ~client'.session)
           /\ UNCHANGED <<sent, remote, scan, call, channels, heard, told, overlooked, crashes, faults>>
<1>1. client \in ClientRecord
  BY TypeParts DEF ClientOK
<1>2. client' = client \/ client' = [client EXCEPT !.session = FALSE]
  BY DEF Disconnect
<1>3. /\ client'.channel = client.channel /\ client'.cursor = client.cursor
      /\ client'.sequence = client.sequence /\ (client'.session = client.session \/ ~client'.session)
  BY <1>1, <1>2 DEF ClientRecord
<1> QED
  BY <1>3 DEF Disconnect, network, history, bounds

\* A session that Discord refuses is given up.
LEMMA InvalidStep ==
    ASSUME TypeOK, InvalidSession
    PROVE  /\ at = "opening" /\ Idle /\ at' = "flush" /\ ~client'.session
           /\ client'.channel = client.channel /\ client'.cursor = client.cursor /\ client'.sequence = client.sequence
           /\ UNCHANGED <<sent, remote, scan, call, channels, heard, told, overlooked, crashes, faults>>
<1>1. client \in ClientRecord
  BY TypeParts DEF ClientOK
<1> QED
  BY <1>1 DEF InvalidSession, ClientRecord, network, history, bounds

\* The status of a Channel changes, and nothing else of it; only a connected one is archived.
LEMMA StatusStep ==
    ASSUME TypeOK, NEW k \in DOMAIN channels, ChannelReady(k) \/ Archive(k)
    PROVE  /\ Len(channels') = Len(channels) /\ SameCursors
           /\ \A j \in DOMAIN channels : \/ channels'[j].status = channels[j].status
                                         \/ channels[j].status = "Connecting" /\ channels'[j].status = "Connected"
                                         \/ channels'[j].status = "Archived" /\ faults' = faults + 1
           /\ faults' \in {faults, faults + 1}
           /\ UNCHANGED <<sent, remote, at, client, scan, call, heard, told, overlooked, crashes>>
<1> USE DEF network, history, bounds
<1>1. /\ \/ /\ channels[k].status = "Connecting" /\ faults' = faults
            /\ channels' = [channels EXCEPT ![k].status = "Connected"]
         \/ /\ faults' = faults + 1
            /\ channels' = [channels EXCEPT ![k].status = "Archived"]
      /\ UNCHANGED <<sent, remote, at, client, scan, call, heard, told, overlooked, crashes>>
  BY DEF ChannelReady, Archive, Faulty
<1>2. \A j \in DOMAIN channels : channels[j] \in ChannelRecord
  BY NumberFacts
<1>3. Len(channels') = Len(channels)
  BY <1>1, ChannelChange, TypeParts DEF ChannelsOK
<1>4. ASSUME NEW j \in DOMAIN channels
      PROVE  channels'[j] = channels[j] \/ j = k
  BY <1>1
<1>5. \/ /\ channels[k].status = "Connecting" /\ faults' = faults
         /\ channels'[k] = [channels[k] EXCEPT !.status = "Connected"]
      \/ faults' = faults + 1 /\ channels'[k] = [channels[k] EXCEPT !.status = "Archived"]
  BY <1>1
<1> QED
  BY <1>1, <1>2, <1>3, <1>4, <1>5 DEF SameCursors, ChannelRecord

\* Every step keeps the transport where it may be.
LEMMA PlaceStep ==
    ASSUME PlaceInv, [Next]_vars, TypeOK'
    PROVE  PlaceInv'
<1> USE DEF network, history, bounds
<1>1. ASSUME Start
      PROVE  PlaceInv'
  <2>1. SessionInv'
    BY <1>1, NumberFacts, StartStep, SMTT(30) DEF PlaceInv, SessionInv, CallInv, Rebound, CursorFrom, ChannelArchived, Channel, Idle, NoCall
  <2>2. LogInv'
    BY <1>1, NumberFacts, StartStep, SMTT(30) DEF PlaceInv, LogInv, SessionInv, CallInv, Rebound, CursorFrom, Sent, ChannelArchived, Channel, Idle, NoCall
  <2>3. CallInv'
    BY <1>1, NumberFacts, StartStep, SMTT(30) DEF PlaceInv, CallInv, SessionInv, ChannelArchived, Channel, Idle, NoCall, Rebound, CursorFrom
  <2>4. ScanInv'
    BY <1>1, NumberFacts, StartStep, SMTT(30) DEF PlaceInv, ScanInv, CallInv, Idle, NoCall, Rebound, CursorFrom, Sent, ChannelArchived, Channel
  <2>5. UnwrittenUnheard'
    <3>1. UNCHANGED <<sent, heard>>
      BY <1>1, StartStep DEF PlaceInv
    <3> QED
      BY <3>1 DEF PlaceInv, UnwrittenUnheard, Sent
  <2> QED
    BY <2>1, <2>2, <2>3, <2>4, <2>5 DEF PlaceInv
<1>2. ASSUME Resumed
      PROVE  PlaceInv'
  <2>1. SessionInv'
    BY <1>2, NumberFacts, SMTT(30) DEF PlaceInv, SessionInv, CallInv, Resumed, ChannelArchived, Channel, Idle, NoCall
  <2>2. LogInv'
    BY <1>2, NumberFacts, SMTT(30) DEF PlaceInv, LogInv, SessionInv, CallInv, Resumed, Sent, ChannelArchived, Channel, Idle, NoCall
  <2>3. CallInv'
    BY <1>2, NumberFacts, SMTT(30) DEF PlaceInv, CallInv, SessionInv, ChannelArchived, Channel, Idle, NoCall, Resumed
  <2>4. ScanInv'
    BY <1>2, NumberFacts, SMTT(30) DEF PlaceInv, ScanInv, CallInv, Idle, NoCall, Resumed, Sent, ChannelArchived, Channel
  <2>5. UnwrittenUnheard'
    BY <1>2, NumberFacts, SMTT(30) DEF PlaceInv, UnwrittenUnheard, Resumed, Sent
  <2> QED
    BY <2>1, <2>2, <2>3, <2>4, <2>5 DEF PlaceInv
<1>3. ASSUME InvalidSession
      PROVE  PlaceInv'
  <2>1. SessionInv'
    BY <1>3, NumberFacts, InvalidStep, SMTT(30) DEF PlaceInv, SessionInv, CallInv, ChannelArchived, Channel, Idle, NoCall
  <2>2. LogInv'
    BY <1>3, NumberFacts, InvalidStep, SMTT(30) DEF PlaceInv, LogInv, SessionInv, CallInv, Sent, ChannelArchived, Channel, Idle, NoCall
  <2>3. CallInv'
    BY <1>3, NumberFacts, InvalidStep, SMTT(30) DEF PlaceInv, CallInv, SessionInv, ChannelArchived, Channel, Idle, NoCall
  <2>4. ScanInv'
    BY <1>3, NumberFacts, InvalidStep, SMTT(30) DEF PlaceInv, ScanInv, CallInv, Idle, NoCall, Sent, ChannelArchived, Channel
  <2>5. UnwrittenUnheard'
    <3>1. UNCHANGED <<sent, heard>>
      BY <1>3, InvalidStep DEF PlaceInv
    <3> QED
      BY <3>1 DEF PlaceInv, UnwrittenUnheard, Sent
  <2> QED
    BY <2>1, <2>2, <2>3, <2>4, <2>5 DEF PlaceInv
<1>4. ASSUME Identify
      PROVE  PlaceInv'
  <2>1. SessionInv'
    BY <1>4, NumberFacts, SMTT(30) DEF PlaceInv, SessionInv, CallInv, Identify, ChannelArchived, Channel, Idle, NoCall
  <2>2. LogInv'
    BY <1>4, NumberFacts, SMTT(30) DEF PlaceInv, LogInv, SessionInv, CallInv, Identify, Sent, ChannelArchived, Channel, Idle, NoCall
  <2>3. CallInv'
    BY <1>4, NumberFacts, SMTT(30) DEF PlaceInv, CallInv, SessionInv, ChannelArchived, Channel, Idle, NoCall, Identify
  <2>4. ScanInv'
    BY <1>4, NumberFacts, SMTT(30) DEF PlaceInv, ScanInv, CallInv, Idle, NoCall, Identify, Sent, ChannelArchived, Channel
  <2>5. UnwrittenUnheard'
    BY <1>4, NumberFacts, SMTT(30) DEF PlaceInv, UnwrittenUnheard, Identify, Sent
  <2> QED
    BY <2>1, <2>2, <2>3, <2>4, <2>5 DEF PlaceInv
<1>5. ASSUME Ready
      PROVE  PlaceInv'
  <2>1. SessionInv'
    BY <1>5, NumberFacts, ReadyStep, SMTT(30) DEF PlaceInv, SessionInv, CallInv, ChannelArchived, Channel, Idle, NoCall
  <2>2. LogInv'
    BY <1>5, NumberFacts, ReadyStep, SMTT(30) DEF PlaceInv, LogInv, SessionInv, CallInv, Sent, ChannelArchived, Channel, Idle, NoCall
  <2>3. CallInv'
    BY <1>5, NumberFacts, ReadyStep, SMTT(30) DEF PlaceInv, CallInv, SessionInv, ChannelArchived, Channel, Idle, NoCall
  <2>4. ScanInv'
    BY <1>5, NumberFacts, ReadyStep, SMTT(30) DEF PlaceInv, ScanInv, CallInv, Idle, NoCall, Sent, ChannelArchived, Channel
  <2>5. UnwrittenUnheard'
    <3>1. UNCHANGED <<sent, heard>>
      BY <1>5, ReadyStep DEF PlaceInv
    <3> QED
      BY <3>1 DEF PlaceInv, UnwrittenUnheard, Sent
  <2> QED
    BY <2>1, <2>2, <2>3, <2>4, <2>5 DEF PlaceInv
<1>6. ASSUME NEW listed \in SUBSET People, ListDms(listed)
      PROVE  PlaceInv'
  <2>1. SessionInv'
    BY <1>6, NumberFacts, ListStep, SMTT(30) DEF PlaceInv, SessionInv, CallInv, ChannelArchived, Channel, Idle, NoCall
  <2>2. LogInv'
    BY <1>6, NumberFacts, ListStep, SMTT(30) DEF PlaceInv, LogInv, SessionInv, CallInv, Sent, ChannelArchived, Channel, Idle, NoCall
  <2>3. CallInv'
    BY <1>6, NumberFacts, ListStep, SMTT(30) DEF PlaceInv, CallInv, SessionInv, ChannelArchived, Channel, Idle, NoCall
  <2>4. ScanInv'
    BY <1>6, NumberFacts, ListStep, SMTT(30) DEF PlaceInv, ScanInv, CallInv, Idle, NoCall, Sent, ChannelArchived, Channel
  <2>5. UnwrittenUnheard'
    <3>1. UNCHANGED <<sent, heard>>
      BY <1>6, ListStep DEF PlaceInv
    <3> QED
      BY <3>1 DEF PlaceInv, UnwrittenUnheard, Sent
  <2> QED
    BY <2>1, <2>2, <2>3, <2>4, <2>5 DEF PlaceInv
<1>7. ASSUME NEW p \in People, FetchPage(p)
      PROVE  PlaceInv'
  <2>1. SessionInv'
    <3>1. UNCHANGED <<at, client, remote>> /\ faults' \in {faults, faults + 1}
      BY <1>7, FetchStep DEF PlaceInv
    <3> QED
      BY <3>1, NumberFacts DEF PlaceInv, SessionInv
  <2>2. LogInv'
    <3>1. UNCHANGED <<remote, sent, at, client, call>>
      BY <1>7, FetchStep DEF PlaceInv
    <3> QED
      BY <3>1 DEF PlaceInv, LogInv, Sent
  <2>3. CallInv'
    BY <1>7, NumberFacts, FetchStep, SMTT(30) DEF PlaceInv, CallInv, SessionInv, ChannelArchived, Channel, Idle, NoCall, ThreadOver, Missed
  <2>4. ScanInv'
    <3>1. at = "scan" /\ at' = "scan" /\ call'.message = 0 /\ UNCHANGED sent /\ p \in scan.todo
      BY <1>7, FetchStep DEF PlaceInv, Idle, NoCall
    <3>2. CASE ThreadOver(p)
      BY <3>1, <3>2 DEF ScanInv, ThreadOver
    <3>3. CASE /\ scan'.todo = scan.todo /\ scan'.who = p /\ scan'.page \subseteq Missed(p, After)
               /\ \A k \in scan'.page : k <= scan'.after
      <4>1. \A m \in scan'.page : m # 0 /\ sent[m].from = p
        BY <3>3, NumberFacts DEF PlaceInv, Missed
      <4> QED
        BY <3>1, <3>3, <4>1, GatewayPeople DEF ScanInv
    <3> QED
      BY <1>7, <3>2, <3>3, FetchStep DEF PlaceInv
  <2>5. UnwrittenUnheard'
    <3>1. UNCHANGED <<sent, heard>>
      BY <1>7, FetchStep DEF PlaceInv
    <3> QED
      BY <3>1 DEF PlaceInv, UnwrittenUnheard, Sent
  <2> QED
    BY <2>1, <2>2, <2>3, <2>4, <2>5 DEF PlaceInv
<1>8. ASSUME Replay
      PROVE  PlaceInv'
  <2>1. SessionInv'
    BY <1>8, NumberFacts, ReplayStep, SMTT(30) DEF PlaceInv, SessionInv, CallInv, ThreadOver, SameClient, SameBinding, ChannelArchived, Channel, Idle, NoCall
  <2>2. LogInv'
    BY <1>8, NumberFacts, ReplayStep, SMTT(30) DEF PlaceInv, LogInv, SessionInv, CallInv, ThreadOver, SameClient, SameBinding, Sent, ChannelArchived, Channel, Idle, NoCall
  <2>3. CallInv'
    BY <1>8, NumberFacts, ReplayStep, SMTT(30) DEF PlaceInv, CallInv, SessionInv, ChannelArchived, Channel, Idle, NoCall, ThreadOver, SameClient, SameBinding
  <2>4. ScanInv'
    BY <1>8, NumberFacts, ReplayStep, SMTT(30) DEF PlaceInv, ScanInv, CallInv, Idle, NoCall, ThreadOver, SameClient, SameBinding, Sent, ChannelArchived, Channel
  <2>5. UnwrittenUnheard'
    <3>1. UNCHANGED <<sent, heard>>
      BY <1>8, ReplayStep DEF PlaceInv
    <3> QED
      BY <3>1 DEF PlaceInv, UnwrittenUnheard, Sent
  <2> QED
    BY <2>1, <2>2, <2>3, <2>4, <2>5 DEF PlaceInv
<1>9. ASSUME EndScan
      PROVE  PlaceInv'
  <2>1. SessionInv'
    BY <1>9, NumberFacts, SMTT(30) DEF PlaceInv, SessionInv, CallInv, EndScan, NoScan, ChannelArchived, Channel, Idle, NoCall
  <2>2. LogInv'
    BY <1>9, NumberFacts, SMTT(30) DEF PlaceInv, LogInv, SessionInv, CallInv, EndScan, NoScan, Sent, ChannelArchived, Channel, Idle, NoCall
  <2>3. CallInv'
    BY <1>9, NumberFacts, SMTT(30) DEF PlaceInv, CallInv, SessionInv, ChannelArchived, Channel, Idle, NoCall, EndScan, NoScan
  <2>4. ScanInv'
    BY <1>9, NumberFacts, SMTT(30) DEF PlaceInv, ScanInv, CallInv, Idle, NoCall, EndScan, NoScan, Sent, ChannelArchived, Channel
  <2>5. UnwrittenUnheard'
    BY <1>9, NumberFacts, SMTT(30) DEF PlaceInv, UnwrittenUnheard, EndScan, NoScan, Sent
  <2> QED
    BY <2>1, <2>2, <2>3, <2>4, <2>5 DEF PlaceInv
<1>10. ASSUME MessageCreate
      PROVE  PlaceInv'
  <2>1. SessionInv'
    BY <1>10, NumberFacts, MessageCreateStep, SMTT(30) DEF PlaceInv, SessionInv, CallInv, SameBinding, ChannelArchived, Channel, Idle, NoCall
  <2>2. LogInv'
    BY <1>10, NumberFacts, MessageCreateStep, SMTT(30) DEF PlaceInv, LogInv, SessionInv, CallInv, SameBinding, Sent, ChannelArchived, Channel, Idle, NoCall
  <2>3. CallInv'
    BY <1>10, NumberFacts, MessageCreateStep, SMTT(30) DEF PlaceInv, CallInv, SessionInv, ChannelArchived, Channel, Idle, NoCall, SameBinding
  <2>4. ScanInv'
    BY <1>10, NumberFacts, MessageCreateStep, SMTT(30) DEF PlaceInv, ScanInv, CallInv, Idle, NoCall, SameBinding, Sent, ChannelArchived, Channel
  <2>5. UnwrittenUnheard'
    <3>1. UNCHANGED <<sent, heard>>
      BY <1>10, MessageCreateStep DEF PlaceInv
    <3> QED
      BY <3>1 DEF PlaceInv, UnwrittenUnheard, Sent
  <2> QED
    BY <2>1, <2>2, <2>3, <2>4, <2>5 DEF PlaceInv
<1>11. ASSUME ReceiveMessage
      PROVE  PlaceInv'
  <2>1. SessionInv'
    BY <1>11, NumberFacts, ReceiveStep, SMTT(30) DEF PlaceInv, SessionInv, CallInv, SameStatus, SameBinding, Answered, IsHeard, ChannelArchived, Channel, Idle, NoCall
  <2>2. LogInv'
    BY <1>11, NumberFacts, ReceiveStep, SMTT(30) DEF PlaceInv, LogInv, SessionInv, CallInv, SameStatus, SameBinding, Answered, IsHeard, Sent, ChannelArchived, Channel, Idle, NoCall
  <2>3. CallInv'
    <3>1. ChannelArchived' <=> ChannelArchived
      BY <1>11, NumberFacts, ReceiveStep, SMTT(30) DEF PlaceInv, ChannelArchived, Channel, SameStatus, SameBinding
    <3>2. at \in {"scan", "up"}
      BY <1>11, NumberFacts, ReceiveStep DEF PlaceInv, CallInv
    <3>3. faults' \in {faults, faults + 1} /\ call'.at \in {"none", "recover"} /\ at' = at
      BY <1>11, ReceiveStep DEF PlaceInv, Answered
    <3>4. call'.at = "recover" => ChannelArchived
      BY <1>11, <3>2, ReceiveStep, NumberFacts DEF PlaceInv, Answered, ChannelArchived, SessionInv
    <3> QED
      BY <3>1, <3>2, <3>3, <3>4, NumberFacts DEF PlaceInv, CallInv
  <2>4. ScanInv'
    BY <1>11, NumberFacts, ReceiveStep, SMTT(30) DEF PlaceInv, ScanInv, CallInv, Idle, NoCall, SameStatus, SameBinding, Answered, IsHeard, Sent, ChannelArchived, Channel
  <2>5. UnwrittenUnheard'
    <3>1. heard \in [Message -> Nat] /\ call.message \in Sent /\ Sent' = Sent
      BY <1>11, ReceiveStep, TypeParts DEF PlaceInv, HistoryOK, Sent
    <3>2. IsHeard \/ UNCHANGED heard
      BY <1>11, ReceiveStep DEF PlaceInv
    <3> QED
      BY <3>1, <3>2 DEF PlaceInv, UnwrittenUnheard, IsHeard
  <2> QED
    BY <2>1, <2>2, <2>3, <2>4, <2>5 DEF PlaceInv
<1>12. ASSUME Recover
      PROVE  PlaceInv'
  <2>1. SessionInv'
    BY <1>12, NumberFacts, RecoverStep, SMTT(30) DEF PlaceInv, SessionInv, CallInv, Rebound, CursorFrom, ChannelArchived, Channel, Idle, NoCall
  <2>2. LogInv'
    BY <1>12, NumberFacts, RecoverStep, SMTT(30) DEF PlaceInv, LogInv, SessionInv, CallInv, Rebound, CursorFrom, Sent, ChannelArchived, Channel, Idle, NoCall
  <2>3. CallInv'
    BY <1>12, NumberFacts, RecoverStep, SMTT(30) DEF PlaceInv, CallInv, SessionInv, ChannelArchived, Channel, Idle, NoCall, Rebound, CursorFrom
  <2>4. ScanInv'
    BY <1>12, NumberFacts, RecoverStep, SMTT(30) DEF PlaceInv, ScanInv, CallInv, Idle, NoCall, Rebound, CursorFrom, Sent, ChannelArchived, Channel
  <2>5. UnwrittenUnheard'
    <3>1. UNCHANGED <<sent, heard>>
      BY <1>12, RecoverStep DEF PlaceInv
    <3> QED
      BY <3>1 DEF PlaceInv, UnwrittenUnheard, Sent
  <2> QED
    BY <2>1, <2>2, <2>3, <2>4, <2>5 DEF PlaceInv
<1>13. ASSUME FlushCursor
      PROVE  PlaceInv'
  <2>1. SessionInv'
    BY <1>13, NumberFacts, FlushStep, SMTT(30) DEF PlaceInv, SessionInv, CallInv, SameStatus, ChannelArchived, Channel, Idle, NoCall
  <2>2. LogInv'
    BY <1>13, NumberFacts, FlushStep, SMTT(30) DEF PlaceInv, LogInv, SessionInv, CallInv, SameStatus, Sent, ChannelArchived, Channel, Idle, NoCall
  <2>3. CallInv'
    BY <1>13, NumberFacts, FlushStep, SMTT(30) DEF PlaceInv, CallInv, SessionInv, ChannelArchived, Channel, Idle, NoCall, SameStatus
  <2>4. ScanInv'
    BY <1>13, NumberFacts, FlushStep, SMTT(30) DEF PlaceInv, ScanInv, CallInv, Idle, NoCall, SameStatus, Sent, ChannelArchived, Channel
  <2>5. UnwrittenUnheard'
    <3>1. UNCHANGED <<sent, heard>>
      BY <1>13, FlushStep DEF PlaceInv
    <3> QED
      BY <3>1 DEF PlaceInv, UnwrittenUnheard, Sent
  <2> QED
    BY <2>1, <2>2, <2>3, <2>4, <2>5 DEF PlaceInv
<1>14. ASSUME NEW p \in People, Write(p)
      PROVE  PlaceInv'
  <2>1. SessionInv'
    BY <1>14, NumberFacts, WriteStep, SMTT(30) DEF PlaceInv, SessionInv, CallInv, ChannelArchived, Channel, Idle, NoCall
  <2>2. LogInv'
    <3>1. \A i, j \in DOMAIN remote'.log : i < j => remote'.log[i] < remote'.log[j]
      BY <1>14, NumberFacts, WriteStep, SMTT(30) DEF PlaceInv, LogInv
    <3>2. at' \in {"ready", "list", "scan"} => \A k \in DOMAIN remote'.log : sent'[remote'.log[k]].during
      <4>1. at' = at /\ (sent'[Len(sent) + 1].during <=> at \in {"ready", "list", "scan"})
        BY <1>14, WriteStep DEF PlaceInv
      <4>2. \A k \in DOMAIN remote.log : sent'[remote.log[k]] = sent[remote.log[k]]
        BY <1>14, NumberFacts, WriteStep DEF PlaceInv
      <4>3. \A k \in DOMAIN remote'.log : remote'.log[k] = Len(sent) + 1
                                          \/ (k \in DOMAIN remote.log /\ remote'.log[k] = remote.log[k])
        BY <1>14, NumberFacts, WriteStep DEF PlaceInv
      <4> QED
        BY <4>1, <4>2, <4>3 DEF PlaceInv, LogInv
    <3>3. at' = "up" /\ call'.message # 0 =>
            client'.sequence \in DOMAIN remote'.log /\ remote'.log[client'.sequence] = call'.message
      BY <1>14, NumberFacts, WriteStep, SMTT(30) DEF PlaceInv, LogInv
    <3>4. client'.session /\ remote'.alive => client'.sequence <= Len(remote'.log)
      <4>1. DOMAIN remote'.log = 1..Len(remote'.log) /\ Len(remote'.log) \in Nat
        BY TypeParts DEF RemoteOK
      <4>2. UNCHANGED client /\ remote'.alive = remote.alive
        BY <1>14, WriteStep DEF PlaceInv
      <4> QED
        BY <1>14, <4>1, <4>2, NumberFacts, WriteStep DEF PlaceInv, LogInv
    <3> QED
      BY <3>1, <3>2, <3>3, <3>4 DEF LogInv
  <2>3. CallInv'
    BY <1>14, NumberFacts, WriteStep, SMTT(30) DEF PlaceInv, CallInv, ChannelArchived, Channel, Idle, NoCall
  <2>4. ScanInv'
    <3>1. UNCHANGED <<at, scan, call, client>> /\ \A m \in Sent : sent'[m] = sent[m]
      BY <1>14, WriteStep DEF PlaceInv
    <3> QED
      BY <3>1, NumberFacts DEF PlaceInv, ScanInv
  <2>5. UnwrittenUnheard'
    BY <1>14, NumberFacts, WriteStep, SMTT(30) DEF PlaceInv, UnwrittenUnheard
  <2> QED
    BY <2>1, <2>2, <2>3, <2>4, <2>5 DEF PlaceInv
<1>15. ASSUME NEW p \in People, Reply(p)
      PROVE  PlaceInv'
  <2>1. SessionInv'
    BY <1>15, NumberFacts, ReplyStep, SMTT(30) DEF PlaceInv, SessionInv, CallInv, SameClient, SameBinding, ChannelArchived, Channel, Idle, NoCall
  <2>2. LogInv'
    BY <1>15, NumberFacts, ReplyStep, SMTT(30) DEF PlaceInv, LogInv, SessionInv, CallInv, SameClient, SameBinding, Sent, ChannelArchived, Channel, Idle, NoCall
  <2>3. CallInv'
    BY <1>15, NumberFacts, ReplyStep, SMTT(30) DEF PlaceInv, CallInv, SessionInv, ChannelArchived, Channel, Idle, NoCall, SameClient, SameBinding
  <2>4. ScanInv'
    BY <1>15, NumberFacts, ReplyStep, SMTT(30) DEF PlaceInv, ScanInv, CallInv, Idle, NoCall, SameClient, SameBinding, Sent, ChannelArchived, Channel
  <2>5. UnwrittenUnheard'
    <3>1. UNCHANGED <<sent, heard>>
      BY <1>15, ReplyStep DEF PlaceInv
    <3> QED
      BY <3>1 DEF PlaceInv, UnwrittenUnheard, Sent
  <2> QED
    BY <2>1, <2>2, <2>3, <2>4, <2>5 DEF PlaceInv
<1>16. ASSUME Disconnect
      PROVE  PlaceInv'
  <2>1. SessionInv'
    BY <1>16, NumberFacts, DisconnectStep, SMTT(30) DEF PlaceInv, SessionInv, CallInv, ChannelArchived, Channel, Idle, NoCall
  <2>2. LogInv'
    BY <1>16, NumberFacts, DisconnectStep, SMTT(30) DEF PlaceInv, LogInv, SessionInv, CallInv, Sent, ChannelArchived, Channel, Idle, NoCall
  <2>3. CallInv'
    BY <1>16, NumberFacts, DisconnectStep, SMTT(30) DEF PlaceInv, CallInv, SessionInv, ChannelArchived, Channel, Idle, NoCall
  <2>4. ScanInv'
    BY <1>16, NumberFacts, DisconnectStep, SMTT(30) DEF PlaceInv, ScanInv, CallInv, Idle, NoCall, Sent, ChannelArchived, Channel
  <2>5. UnwrittenUnheard'
    <3>1. UNCHANGED <<sent, heard>>
      BY <1>16, DisconnectStep DEF PlaceInv
    <3> QED
      BY <3>1 DEF PlaceInv, UnwrittenUnheard, Sent
  <2> QED
    BY <2>1, <2>2, <2>3, <2>4, <2>5 DEF PlaceInv
<1>17. ASSUME SessionExpires
      PROVE  PlaceInv'
  <2>1. SessionInv'
    BY <1>17, NumberFacts, SMTT(30) DEF PlaceInv, SessionInv, CallInv, SessionExpires, ChannelArchived, Channel, Idle, NoCall
  <2>2. LogInv'
    BY <1>17, NumberFacts, SMTT(30) DEF PlaceInv, LogInv, SessionInv, CallInv, SessionExpires, Sent, ChannelArchived, Channel, Idle, NoCall
  <2>3. CallInv'
    BY <1>17, NumberFacts, SMTT(30) DEF PlaceInv, CallInv, ChannelArchived, Channel, Idle, NoCall, SessionExpires
  <2>4. ScanInv'
    BY <1>17, NumberFacts, SMTT(30) DEF PlaceInv, ScanInv, Idle, NoCall, SessionExpires, Sent
  <2>5. UnwrittenUnheard'
    BY <1>17, NumberFacts, SMTT(30) DEF PlaceInv, UnwrittenUnheard, SessionExpires, Sent
  <2> QED
    BY <2>1, <2>2, <2>3, <2>4, <2>5 DEF PlaceInv
<1>18. ASSUME Crash
      PROVE  PlaceInv'
  <2>1. SessionInv'
    BY <1>18, NumberFacts, SMTT(30) DEF PlaceInv, SessionInv, CallInv, Crash, Fresh, NoScan, NoCall, ChannelArchived, Channel, Idle
  <2>2. LogInv'
    BY <1>18, NumberFacts, SMTT(30) DEF PlaceInv, LogInv, SessionInv, CallInv, Crash, Fresh, NoScan, NoCall, Sent, ChannelArchived, Channel, Idle
  <2>3. CallInv'
    BY <1>18, NumberFacts, SMTT(30) DEF PlaceInv, CallInv, SessionInv, ChannelArchived, Channel, Idle, NoCall, Crash, Fresh, NoScan
  <2>4. ScanInv'
    BY <1>18, NumberFacts, SMTT(30) DEF PlaceInv, ScanInv, CallInv, Idle, NoCall, Crash, Fresh, NoScan, Sent, ChannelArchived, Channel
  <2>5. UnwrittenUnheard'
    BY <1>18, NumberFacts, SMTT(30) DEF PlaceInv, UnwrittenUnheard, Crash, Fresh, NoScan, NoCall, Sent
  <2> QED
    BY <2>1, <2>2, <2>3, <2>4, <2>5 DEF PlaceInv
<1>19. ASSUME NEW k \in DOMAIN channels, ChannelReady(k)
      PROVE  PlaceInv'
  <2>1. SessionInv'
    <3>1. UNCHANGED <<at, client, remote>> /\ faults' \in {faults, faults + 1}
      BY <1>19, StatusStep DEF PlaceInv
    <3> QED
      BY <3>1, NumberFacts DEF PlaceInv, SessionInv
  <2>2. LogInv'
    <3>1. UNCHANGED <<remote, sent, at, client, call>>
      BY <1>19, StatusStep DEF PlaceInv
    <3> QED
      BY <3>1 DEF PlaceInv, LogInv, Sent
  <2>3. CallInv'
    <3>1. /\ UNCHANGED <<at, client, call>> /\ faults' \in {faults, faults + 1}
          /\ \A j \in DOMAIN channels : channels'[j].status = "Archived" =>
                channels[j].status = "Archived" \/ faults' = faults + 1
      BY <1>19, StatusStep DEF PlaceInv
    <3>2. client.channel # 0 => client.channel \in DOMAIN channels
      BY NumberFacts DEF PlaceInv
    <3>3. ChannelArchived' => ChannelArchived \/ faults' = faults + 1
      BY <3>1, <3>2 DEF ChannelArchived, Channel
    <3>4. call.at = "recover" => ChannelArchived'
      <4>1. \A j \in DOMAIN channels : channels[j].status = "Archived" => channels'[j].status = "Archived"
        BY <1>19, StatusStep DEF PlaceInv
      <4> QED
        BY <3>1, <3>2, <4>1 DEF PlaceInv, CallInv, ChannelArchived, Channel
    <3> QED
      BY <3>1, <3>3, <3>4, NumberFacts DEF PlaceInv, CallInv, Idle, NoCall
  <2>4. ScanInv'
    <3>1. UNCHANGED <<at, scan, sent, call, client>>
      BY <1>19, StatusStep DEF PlaceInv
    <3> QED
      BY <3>1 DEF PlaceInv, ScanInv, Idle, NoCall, Sent
  <2>5. UnwrittenUnheard'
    <3>1. UNCHANGED <<sent, heard>>
      BY <1>19, StatusStep DEF PlaceInv
    <3> QED
      BY <3>1 DEF PlaceInv, UnwrittenUnheard, Sent
  <2> QED
    BY <2>1, <2>2, <2>3, <2>4, <2>5 DEF PlaceInv
<1>20. ASSUME NEW k \in DOMAIN channels, Archive(k)
      PROVE  PlaceInv'
  <2>1. SessionInv'
    <3>1. UNCHANGED <<at, client, remote>> /\ faults' \in {faults, faults + 1}
      BY <1>20, StatusStep DEF PlaceInv
    <3> QED
      BY <3>1, NumberFacts DEF PlaceInv, SessionInv
  <2>2. LogInv'
    <3>1. UNCHANGED <<remote, sent, at, client, call>>
      BY <1>20, StatusStep DEF PlaceInv
    <3> QED
      BY <3>1 DEF PlaceInv, LogInv, Sent
  <2>3. CallInv'
    <3>1. /\ UNCHANGED <<at, client, call>> /\ faults' \in {faults, faults + 1}
          /\ \A j \in DOMAIN channels : channels'[j].status = "Archived" =>
                channels[j].status = "Archived" \/ faults' = faults + 1
      BY <1>20, StatusStep DEF PlaceInv
    <3>2. client.channel # 0 => client.channel \in DOMAIN channels
      BY NumberFacts DEF PlaceInv
    <3>3. ChannelArchived' => ChannelArchived \/ faults' = faults + 1
      BY <3>1, <3>2 DEF ChannelArchived, Channel
    <3>4. call.at = "recover" => ChannelArchived'
      <4>1. \A j \in DOMAIN channels : channels[j].status = "Archived" => channels'[j].status = "Archived"
        BY <1>20, StatusStep DEF PlaceInv
      <4> QED
        BY <3>1, <3>2, <4>1 DEF PlaceInv, CallInv, ChannelArchived, Channel
    <3> QED
      BY <3>1, <3>3, <3>4, NumberFacts DEF PlaceInv, CallInv, Idle, NoCall
  <2>4. ScanInv'
    <3>1. UNCHANGED <<at, scan, sent, call, client>>
      BY <1>20, StatusStep DEF PlaceInv
    <3> QED
      BY <3>1 DEF PlaceInv, ScanInv, Idle, NoCall, Sent
  <2>5. UnwrittenUnheard'
    <3>1. UNCHANGED <<sent, heard>>
      BY <1>20, StatusStep DEF PlaceInv
    <3> QED
      BY <3>1 DEF PlaceInv, UnwrittenUnheard, Sent
  <2> QED
    BY <2>1, <2>2, <2>3, <2>4, <2>5 DEF PlaceInv
<1>22. ASSUME NoChannel
      PROVE  PlaceInv'
  <2>1. SessionInv'
    BY <1>22, NumberFacts, NoChannelStep, SMTT(30) DEF PlaceInv, SessionInv, CallInv, Answered, ChannelArchived, Channel, Idle, NoCall
  <2>2. LogInv'
    BY <1>22, NumberFacts, NoChannelStep, SMTT(30) DEF PlaceInv, LogInv, SessionInv, CallInv, Answered, Sent
  <2>3. CallInv'
    <3>1. ~ChannelArchived' /\ UNCHANGED at /\ call'.message = 0 /\ call'.at = "none"
      BY <1>22, NoChannelStep DEF PlaceInv, ChannelArchived, Answered
    <3>2. at \notin {"stopped", "ready", "list"}
      BY <1>22, NoChannelStep DEF PlaceInv, CallInv, Idle, NoCall
    <3> QED
      BY <3>1, <3>2 DEF CallInv
  <2>4. ScanInv'
    BY <1>22, NumberFacts, NoChannelStep, SMTT(30) DEF PlaceInv, ScanInv, Answered, Sent
  <2>5. UnwrittenUnheard'
    <3>1. UNCHANGED <<sent, heard>>
      BY <1>22, NoChannelStep DEF PlaceInv
    <3> QED
      BY <3>1 DEF PlaceInv, UnwrittenUnheard, Sent
  <2> QED
    BY <2>1, <2>2, <2>3, <2>4, <2>5 DEF PlaceInv
<1>23. ASSUME RecoverFails
      PROVE  PlaceInv'
  <2>1. SessionInv'
    BY <1>23, NumberFacts, RecoverFailsStep, SMTT(30) DEF PlaceInv, SessionInv, CallInv, Answered, ChannelArchived, Channel, Idle, NoCall
  <2>2. LogInv'
    BY <1>23, NumberFacts, RecoverFailsStep, SMTT(30) DEF PlaceInv, LogInv, SessionInv, CallInv, Answered, Sent
  <2>3. CallInv'
    <3>1. ~ChannelArchived' /\ UNCHANGED at /\ call'.message = 0 /\ call'.at = "none"
      BY <1>23, RecoverFailsStep DEF PlaceInv, ChannelArchived, Answered
    <3>2. at \notin {"stopped", "ready", "list"}
      BY <1>23, RecoverFailsStep DEF PlaceInv, CallInv, Idle, NoCall
    <3> QED
      BY <3>1, <3>2 DEF CallInv
  <2>4. ScanInv'
    BY <1>23, NumberFacts, RecoverFailsStep, SMTT(30) DEF PlaceInv, ScanInv, Answered, Sent
  <2>5. UnwrittenUnheard'
    <3>1. UNCHANGED <<sent, heard>>
      BY <1>23, RecoverFailsStep DEF PlaceInv
    <3> QED
      BY <3>1 DEF PlaceInv, UnwrittenUnheard, Sent
  <2> QED
    BY <2>1, <2>2, <2>3, <2>4, <2>5 DEF PlaceInv
<1>21. CASE UNCHANGED vars
  BY <1>21 DEF vars, PlaceInv, SessionInv, LogInv, CallInv, ScanInv, UnwrittenUnheard, ChannelArchived, Channel, Sent, Idle
<1> QED
  BY <1>1, <1>2, <1>3, <1>4, <1>5, <1>6, <1>7, <1>8, <1>9, <1>10, <1>11, <1>12, <1>13, <1>14, <1>15, <1>16, <1>17, <1>18, <1>19, <1>20, <1>21, <1>22, <1>23 DEF Next, TransportStep, DiscordStep

(***************************************************************************)
(* A message is heard once, and once more for each of: an end of the task, *)
(* a fault, being written during a catch-up.  What is still to come of it  *)
(* is counted against that: a dispatch, a page, a Channel to be replaced,  *)
(* whose cursor may be older.                                              *)
(***************************************************************************)
Chance(b) == IF b THEN 1 ELSE 0

\* The dispatches the session will still deliver.
Ahead ==
    IF at = "ready" \/ client.session
    THEN {remote.log[k] : k \in {j \in DOMAIN remote.log : at = "ready" \/ j > client.sequence}} ELSE {}
Live(m) == (at = "up" /\ call.message = m) \/ m \in Ahead

\* The catch-up has it, or still has to read it.
FromWhere(p) == IF scan.who = p THEN scan.after ELSE scan.base
InScan(m) ==
    at = "scan" /\ \/ call.message = m \/ m \in scan.page
                   \/ sent[m].from \in scan.todo /\ m > FromWhere(sent[m].from)
Found(m) == m > client.cursor \/ InScan(m)

Unheard(m) == IF sent[m].during THEN Chance(Live(m)) + Chance(Found(m)) ELSE Chance(Live(m) \/ Found(m))
MayBeHeard(m) ==
    heard[m] + Chance(ChannelArchived) + Unheard(m) <= 1 + crashes + faults + Chance(sent[m].during)

\* A step that brings nothing new about a message, and no Channel's end but by hand.
LEMMA NothingNew ==
    ASSUME PlaceInv, NEW m \in Sent, MayBeHeard(m),
           Live(m)' => Live(m), Found(m)' => Found(m), sent'[m] = sent[m],
           heard'[m] \in Nat, crashes' = crashes, faults' \in {faults, faults + 1},
           heard'[m] + faults <= heard[m] + faults',
           ChannelArchived' => (ChannelArchived \/ (faults' = faults + 1 /\ heard'[m] = heard[m]))
    PROVE  MayBeHeard(m)'
<1>1. Chance(Live(m))' <= Chance(Live(m)) /\ Chance(Found(m))' <= Chance(Found(m))
  BY DEF Chance
<1>2. Chance(Live(m) \/ Found(m))' <= Chance(Live(m) \/ Found(m))
  BY DEF Chance
<1>3. /\ Chance(Live(m)) \in {0, 1} /\ Chance(Found(m)) \in {0, 1} /\ Chance(Live(m) \/ Found(m)) \in {0, 1}
      /\ Chance(Live(m))' \in {0, 1} /\ Chance(Found(m))' \in {0, 1} /\ Chance(Live(m) \/ Found(m))' \in {0, 1}
  BY DEF Chance
<1>4. Unheard(m)' <= Unheard(m) /\ Unheard(m) \in {0, 1, 2} /\ Unheard(m)' \in {0, 1, 2}
  BY <1>1, <1>2, <1>3, SMT DEF Unheard
<1>5. /\ Chance(ChannelArchived)' <= 1 /\ Chance(ChannelArchived)' \in {0, 1} /\ Chance(ChannelArchived) \in {0, 1}
      /\ \/ Chance(ChannelArchived)' <= Chance(ChannelArchived)
         \/ faults' = faults + 1 /\ heard'[m] = heard[m]
  BY DEF Chance
<1>6. Chance(sent[m].during)' = Chance(sent[m].during) /\ Chance(sent[m].during) \in {0, 1}
  BY DEF Chance
<1>7. heard[m] \in Nat /\ crashes \in Nat /\ faults \in Nat
  BY NumberFacts DEF PlaceInv
<1> HIDE DEF Chance
<1> QED
  BY <1>4, <1>5, <1>6, <1>7 DEF MayBeHeard

\* Every step keeps, for a message that was sent, what it may still be heard.
LEMMA HeardStep ==
    ASSUME PlaceInv, [Next]_vars, TypeOK', NEW m \in Sent, MayBeHeard(m)
    PROVE  MayBeHeard(m)'
<1> USE DEF network, history, bounds
<1>0. /\ TypeOK /\ SessionInv /\ LogInv /\ CallInv /\ ScanInv
      /\ client.cursor \in Nat /\ scan.base \in Nat /\ scan.after \in Nat
      /\ m \in Nat \ {0} /\ m \in Message /\ heard \in [Message -> Nat] /\ heard[m] \in Nat /\ faults \in Nat /\ crashes \in Nat
      /\ sent[m].from \in People /\ Nobody \notin People /\ client.channel \in 0..Len(channels)
      /\ Len(channels) \in Nat /\ DOMAIN channels = 1..Len(channels) /\ client.sequence \in Nat
      /\ DOMAIN remote.log = 1..Len(remote.log) /\ Len(remote.log) \in Nat /\ \A k \in DOMAIN remote.log : remote.log[k] \in Nat
      /\ call.message \in Nat /\ 0 \notin Sent
  BY NumberFacts, WrittenByPeople, TypeParts, GatewayPeople DEF PlaceInv, HistoryOK
<1>1. ASSUME Start
      PROVE  MayBeHeard(m)'
  <2>1. Live(m)' => Live(m)
    <3>1. at' = "opening" /\ client'.session = FALSE
      BY <1>1, <1>0, StartStep
    <3> QED
      BY <3>1 DEF Live, Ahead
  <2>2. Found(m)' => Found(m)
    BY <1>1, <1>0, StartStep, SMTT(30) DEF Found, InScan, FromWhere, SessionInv, CallInv, ScanInv, Idle, NoCall, Rebound, CursorFrom
  <2>3. /\ sent'[m] = sent[m] /\ heard' = heard /\ crashes' = crashes /\ faults' \in {faults, faults + 1}
        /\ ChannelArchived' => ChannelArchived \/ faults' = faults + 1
    BY <1>1, <1>0, StartStep, SMTT(30) DEF ChannelArchived, Channel, SessionInv, Rebound, CursorFrom
  <2> QED
    BY <1>0, <2>1, <2>2, <2>3, NothingNew
<1>2. ASSUME Resumed
      PROVE  MayBeHeard(m)'
  <2>1. Live(m)' => Live(m)
    BY <1>2, <1>0, SMTT(30) DEF Live, Ahead, SessionInv, CallInv, Idle, NoCall, Resumed
  <2>2. Found(m)' => Found(m)
    BY <1>2, <1>0, SMTT(30) DEF Found, InScan, FromWhere, SessionInv, CallInv, ScanInv, Idle, NoCall, Resumed
  <2>3. /\ sent'[m] = sent[m] /\ heard' = heard /\ crashes' = crashes /\ faults' \in {faults, faults + 1}
        /\ ChannelArchived' => ChannelArchived \/ faults' = faults + 1
    BY <1>2, <1>0, SMTT(30) DEF ChannelArchived, Channel, SessionInv, Resumed
  <2> QED
    BY <1>0, <2>1, <2>2, <2>3, NothingNew
<1>3. ASSUME InvalidSession
      PROVE  MayBeHeard(m)'
  <2>1. Live(m)' => Live(m)
    BY <1>3, <1>0, InvalidStep, SMTT(30) DEF Live, Ahead, SessionInv, CallInv, Idle, NoCall
  <2>2. Found(m)' => Found(m)
    BY <1>3, <1>0, InvalidStep, SMTT(30) DEF Found, InScan, FromWhere, SessionInv, CallInv, ScanInv, Idle, NoCall
  <2>3. /\ sent'[m] = sent[m] /\ heard' = heard /\ crashes' = crashes /\ faults' \in {faults, faults + 1}
        /\ ChannelArchived' => ChannelArchived \/ faults' = faults + 1
    BY <1>3, <1>0, InvalidStep, SMTT(30) DEF ChannelArchived, Channel, SessionInv
  <2> QED
    BY <1>0, <2>1, <2>2, <2>3, NothingNew
<1>4. ASSUME Identify
      PROVE  MayBeHeard(m)'
  <2>1. Live(m)' => Live(m)
    BY <1>4, <1>0, SMTT(30) DEF Live, Ahead, SessionInv, CallInv, Idle, NoCall, Identify
  <2>2. Found(m)' => Found(m)
    BY <1>4, <1>0, SMTT(30) DEF Found, InScan, FromWhere, SessionInv, CallInv, ScanInv, Idle, NoCall, Identify
  <2>3. /\ sent'[m] = sent[m] /\ heard' = heard /\ crashes' = crashes /\ faults' \in {faults, faults + 1}
        /\ ChannelArchived' => ChannelArchived \/ faults' = faults + 1
    BY <1>4, <1>0, SMTT(30) DEF ChannelArchived, Channel, SessionInv, Identify
  <2> QED
    BY <1>0, <2>1, <2>2, <2>3, NothingNew
<1>5. ASSUME Ready
      PROVE  MayBeHeard(m)'
  <2>1. Live(m)' => Live(m)
    <3>1. /\ at = "ready" /\ at' \in {"up", "list"} /\ UNCHANGED <<remote, call>>
          /\ client'.session /\ client'.sequence = 0
      BY <1>5, <1>0, ReadyStep
    <3>2. call.message = 0
      BY <1>0, <3>1 DEF CallInv, Idle, NoCall
    <3>3. Ahead' \subseteq Ahead
      BY <3>1 DEF Ahead
    <3> QED
      BY <1>0, <3>1, <3>2, <3>3 DEF Live
  <2>2. Found(m)' => Found(m)
    BY <1>5, <1>0, ReadyStep, SMTT(30) DEF Found, InScan, FromWhere, SessionInv, CallInv, ScanInv, Idle, NoCall
  <2>3. /\ sent'[m] = sent[m] /\ heard' = heard /\ crashes' = crashes /\ faults' \in {faults, faults + 1}
        /\ ChannelArchived' => ChannelArchived \/ faults' = faults + 1
    BY <1>5, <1>0, ReadyStep, SMTT(30) DEF ChannelArchived, Channel, SessionInv
  <2> QED
    BY <1>0, <2>1, <2>2, <2>3, NothingNew
<1>6. ASSUME NEW listed \in SUBSET People, ListDms(listed)
      PROVE  MayBeHeard(m)'
  <2>1. Live(m)' => Live(m)
    <3>1. at = "list" /\ at' = "scan" /\ UNCHANGED <<remote, client, call>>
      BY <1>6, <1>0, ListStep
    <3> QED
      BY <3>1 DEF Live, Ahead
  <2>2. Found(m)' => Found(m)
    BY <1>6, <1>0, ListStep, SMTT(30) DEF Found, InScan, FromWhere, SessionInv, CallInv, ScanInv, Idle, NoCall
  <2>3. /\ sent'[m] = sent[m] /\ heard' = heard /\ crashes' = crashes /\ faults' \in {faults, faults + 1}
        /\ ChannelArchived' => ChannelArchived \/ faults' = faults + 1
    BY <1>6, <1>0, ListStep, SMTT(30) DEF ChannelArchived, Channel, SessionInv
  <2> QED
    BY <1>0, <2>1, <2>2, <2>3, NothingNew
<1>7. ASSUME NEW p \in People, FetchPage(p)
      PROVE  MayBeHeard(m)'
  <2>1. Live(m)' => Live(m)
    <3>1. UNCHANGED <<remote, at, client, call>>
      BY <1>7, <1>0, FetchStep
    <3> QED
      BY <3>1 DEF Live, Ahead
  <2>2. Found(m)' => Found(m)
    <3>1. /\ at = "scan" /\ call.message = 0 /\ p \in scan.todo /\ scan.page = {} /\ scan.who \in {Nobody, p}
          /\ UNCHANGED <<sent, at, client, call>>
      BY <1>7, <1>0, FetchStep DEF Idle, NoCall
    <3>2. After = FromWhere(p)
      BY <1>0, <3>1 DEF After, FromWhere
    <3>3. CASE ThreadOver(p)
      BY <1>0, <3>1, <3>3 DEF ThreadOver, Found, InScan, FromWhere
    <3>4. CASE /\ scan'.base = scan.base /\ scan'.todo = scan.todo /\ scan'.who = p
               /\ scan'.page \subseteq Missed(p, After) /\ scan'.page # {}
               /\ \A k \in scan'.page : k <= scan'.after
      <4>1. \A k \in scan'.page : sent[k].from = p /\ k > FromWhere(p) /\ k \in Nat
        BY <3>2, <3>4, <1>0 DEF Missed, Sent
      <4>2. scan'.after \in Nat
        <5>1. Sent' = Sent /\ {0} \cup Sent \subseteq Nat
          BY <3>1, NumberFacts, <1>0 DEF Sent
        <5> QED
          BY <5>1, TypeParts DEF ScanOK, ScanRecord
      <4>3. scan'.after > FromWhere(p)
        BY <1>0, <3>4, <4>1, <4>2 DEF FromWhere
      <4> QED
        BY <1>0, <3>1, <3>4, <4>1, <4>2, <4>3 DEF Found, InScan, FromWhere
    <3> QED
      BY <1>7, <1>0, <3>3, <3>4, FetchStep
  <2>3. /\ sent'[m] = sent[m] /\ heard' = heard /\ crashes' = crashes /\ faults' \in {faults, faults + 1}
        /\ ChannelArchived' => ChannelArchived \/ faults' = faults + 1
    BY <1>7, <1>0, FetchStep, SMTT(30) DEF ChannelArchived, Channel, SessionInv, ThreadOver, Missed
  <2> QED
    BY <1>0, <2>1, <2>2, <2>3, NothingNew
<1>8. ASSUME Replay
      PROVE  MayBeHeard(m)'
  <2>1. Live(m)' => Live(m)
    <3>1. /\ at = "scan" /\ UNCHANGED <<remote, at>> /\ client'.session = client.session
          /\ client'.sequence = client.sequence
      BY <1>8, <1>0, ReplayStep DEF SameClient, SameBinding
    <3> QED
      BY <3>1 DEF Live, Ahead
  <2>2. Found(m)' => Found(m)
    BY <1>8, <1>0, ReplayStep, SMTT(30) DEF Found, InScan, FromWhere, SessionInv, CallInv, ScanInv, Idle, NoCall, ThreadOver, SameClient, SameBinding
  <2>3. /\ sent'[m] = sent[m] /\ heard' = heard /\ crashes' = crashes /\ faults' \in {faults, faults + 1}
        /\ ChannelArchived' => ChannelArchived \/ faults' = faults + 1
    BY <1>8, <1>0, ReplayStep, SMTT(30) DEF ChannelArchived, Channel, SessionInv, ThreadOver, SameClient, SameBinding
  <2> QED
    BY <1>0, <2>1, <2>2, <2>3, NothingNew
<1>9. ASSUME EndScan
      PROVE  MayBeHeard(m)'
  <2>1. Live(m)' => Live(m)
    BY <1>9, <1>0, SMTT(30) DEF Live, Ahead, SessionInv, CallInv, Idle, NoCall, EndScan, NoScan
  <2>2. Found(m)' => Found(m)
    BY <1>9, <1>0, SMTT(30) DEF Found, InScan, FromWhere, SessionInv, CallInv, ScanInv, Idle, NoCall, EndScan, NoScan
  <2>3. /\ sent'[m] = sent[m] /\ heard' = heard /\ crashes' = crashes /\ faults' \in {faults, faults + 1}
        /\ ChannelArchived' => ChannelArchived \/ faults' = faults + 1
    BY <1>9, <1>0, SMTT(30) DEF ChannelArchived, Channel, SessionInv, EndScan, NoScan
  <2> QED
    BY <1>0, <2>1, <2>2, <2>3, NothingNew
<1>10. ASSUME MessageCreate
      PROVE  MayBeHeard(m)'
  <2>1. Live(m)' => Live(m)
    <3>1. /\ at = "up" /\ at' = "up" /\ client'.session = client.session /\ client.session /\ UNCHANGED remote
          /\ client'.sequence = client.sequence + 1 /\ client'.sequence \in DOMAIN remote.log
          /\ call'.message = remote.log[client'.sequence]
      BY <1>10, <1>0, MessageCreateStep DEF SessionInv, SameBinding
    <3>2. call'.message \in Ahead /\ Ahead' \subseteq Ahead
      <4>1. /\ Ahead = {remote.log[k] : k \in {j \in DOMAIN remote.log : j > client.sequence}}
            /\ Ahead' = {remote.log[k] : k \in {j \in DOMAIN remote.log : j > client'.sequence}}
        BY <3>1 DEF Ahead
      <4>2. client'.sequence > client.sequence /\ \A j \in DOMAIN remote.log : j > client'.sequence => j > client.sequence
        BY <1>0, <3>1
      <4> QED
        BY <3>1, <4>1, <4>2
    <3> QED
      BY <3>1, <3>2 DEF Live
  <2>2. Found(m)' => Found(m)
    BY <1>10, <1>0, MessageCreateStep, SMTT(30) DEF Found, InScan, FromWhere, SessionInv, CallInv, ScanInv, Idle, NoCall, SameBinding
  <2>3. /\ sent'[m] = sent[m] /\ heard' = heard /\ crashes' = crashes /\ faults' \in {faults, faults + 1}
        /\ ChannelArchived' => ChannelArchived \/ faults' = faults + 1
    BY <1>10, <1>0, MessageCreateStep, SMTT(30) DEF ChannelArchived, Channel, SessionInv, SameBinding
  <2> QED
    BY <1>0, <2>1, <2>2, <2>3, NothingNew
<1>11. ASSUME ReceiveMessage
      PROVE  MayBeHeard(m)'
  <2>1. at \in {"scan", "up"} /\ client.channel # 0
    BY <1>11, <1>0, ReceiveStep DEF CallInv, SessionInv
  <2>2. /\ ChannelArchived' => ChannelArchived
        /\ UNCHANGED <<sent, remote, at, crashes>>
    BY <1>11, <1>0, ReceiveStep DEF ChannelArchived, Channel, SameStatus, SameBinding
  <2>3. client'.cursor >= client.cursor /\ client'.cursor \in Nat /\ call'.message \in {0, call.message}
    BY <1>11, <1>0, ReceiveStep DEF Answered, Newer
  <2>4. Live(m)' => Live(m)
    BY <1>11, <1>0, <2>2, <2>3, ReceiveStep DEF Live, Ahead, SameBinding
  <2>5. Found(m)' => Found(m)
    BY <1>11, <1>0, <2>2, <2>3, ReceiveStep DEF Found, InScan, FromWhere
  <2>6. faults' \in {faults, faults + 1}
    BY <1>11, <1>0, ReceiveStep
  <2>7. CASE IsHeard /\ faults' = faults /\ call.message = m
    <3>1. Answered /\ client'.cursor >= m
      BY <1>11, <1>0, <2>7, ReceiveStep DEF Newer, IsHeard, HistoryOK
    <3>2. ~Found(m)'
      <4>1. /\ scan'.base = scan.base /\ scan'.todo = scan.todo /\ scan'.who = scan.who
            /\ scan'.after = scan.after /\ scan'.page = scan.page
        BY <1>11, <1>0, ReceiveStep
      <4>2. at = "scan" => /\ m \notin scan.page
                           /\ sent[m].from \notin scan.todo \/ (scan.who = sent[m].from /\ m <= scan.after)
        BY <1>0, <2>7 DEF ScanInv
      <4>3. call'.message = 0
        BY <3>1 DEF Answered
      <4>4. ~(m > client'.cursor)
        BY <1>0, <2>3, <3>1
      <4> QED
        BY <1>0, <2>2, <4>1, <4>2, <4>3, <4>4 DEF Found, InScan, FromWhere
    <3>3. \/ Live(m) /\ ~Live(m)'
          \/ Found(m) /\ Live(m)' = Live(m) /\ (~sent[m].during => ~Live(m))
      <4>1. CASE at = "up"
        <5>1. client.sequence \in DOMAIN remote.log /\ remote.log[client.sequence] = m
          BY <4>1, <1>0, <2>7 DEF LogInv
        <5>2. \A k \in DOMAIN remote.log : k > client.sequence => remote.log[k] # m
          BY <1>0, <5>1 DEF LogInv
        <5>3. ~Live(m)'
          BY <1>11, <1>0, <2>2, <3>1, <4>1, <5>2, ReceiveStep DEF Live, Ahead, Answered, SameBinding
        <5> QED
          BY <2>7, <4>1, <5>3 DEF Live
      <4>2. CASE at = "scan"
        <5>1. Found(m) /\ Live(m)' = Live(m)
          BY <1>11, <1>0, <2>2, <2>7, <4>2, ReceiveStep DEF Found, InScan, Live, Ahead, SameBinding
        <5>2. ~sent[m].during => ~Live(m)
          BY <1>0, <4>2 DEF Live, Ahead, LogInv
        <5> QED
          BY <5>1, <5>2
      <4> QED
        BY <2>1, <4>1, <4>2
    <3>4. heard'[m] = heard[m] + 1
      BY <1>11, <1>0, <2>2, <2>7 DEF IsHeard, HistoryOK
    <3>5. Unheard(m)' + 1 <= Unheard(m) /\ Unheard(m)' \in {0, 1, 2} /\ Unheard(m) \in {0, 1, 2}
      BY <2>2, <3>2, <3>3 DEF Unheard, Chance
    <3>6. /\ Chance(ChannelArchived)' <= Chance(ChannelArchived) /\ Chance(ChannelArchived)' \in {0, 1}
          /\ Chance(ChannelArchived) \in {0, 1}
          /\ Chance(sent[m].during)' = Chance(sent[m].during) /\ Chance(sent[m].during) \in {0, 1}
      BY <2>2 DEF Chance
    <3> HIDE DEF Chance
    <3>7. heard[m] \in Nat /\ crashes \in Nat /\ faults \in Nat /\ crashes' = crashes /\ faults' = faults
      BY <1>0, <2>2, <2>7
    <3> QED
      BY <3>4, <3>5, <3>6, <3>7, SMTT(60) DEF MayBeHeard
  <2>8. CASE ~(IsHeard /\ faults' = faults /\ call.message = m)
    <3>1. heard'[m] \in Nat /\ heard'[m] + faults <= heard[m] + faults'
      <4>1. heard' = heard \/ IsHeard
        BY <1>11, <1>0, ReceiveStep
      <4>2. IsHeard => heard'[m] = heard[m] + (IF call.message = m THEN 1 ELSE 0)
        BY <1>0 DEF IsHeard, HistoryOK
      <4> QED
        BY <1>0, <2>6, <2>8, <4>1, <4>2
    <3> QED
      BY <1>0, <2>2, <2>4, <2>5, <2>6, <3>1, NothingNew
  <2> QED
    BY <2>7, <2>8
<1>12. ASSUME Recover
      PROVE  MayBeHeard(m)'
  <2>1. ChannelArchived /\ ~ChannelArchived'
    BY <1>12, <1>0, RecoverStep DEF CallInv, Rebound, ChannelArchived, Channel
  <2>2. UNCHANGED <<sent, at, scan, remote, heard, crashes, faults>> /\ client'.session = client.session
        /\ client'.sequence = client.sequence /\ call'.message = call.message
    BY <1>12, <1>0, RecoverStep
  <2>3. Live(m)' = Live(m)
    BY <2>2 DEF Live, Ahead
  <2>4. /\ Chance(Live(m))' = Chance(Live(m)) /\ Chance(Live(m)) \in {0, 1} /\ Chance(Found(m))' \in {0, 1}
        /\ Chance(Found(m)) \in {0, 1}
        /\ Chance(Live(m) \/ Found(m))' \in {0, 1} /\ Chance(Live(m) \/ Found(m)) \in {0, 1}
        /\ Chance(ChannelArchived)' = 0 /\ Chance(ChannelArchived) = 1
        /\ Chance(sent[m].during)' = Chance(sent[m].during) /\ Chance(sent[m].during) \in {0, 1}
    BY <2>1, <2>2, <2>3 DEF Chance
  <2>5. Unheard(m)' <= Unheard(m) + 1 /\ Unheard(m) \in {0, 1, 2} /\ Unheard(m)' \in {0, 1, 2}
    BY <2>2, <2>4, SMT DEF Unheard
  <2> HIDE DEF Chance
  <2> QED
    BY <1>0, <2>2, <2>4, <2>5 DEF MayBeHeard
<1>13. ASSUME FlushCursor
      PROVE  MayBeHeard(m)'
  <2>1. Live(m)' => Live(m)
    <3>1. /\ at \in {"flush", "flushScan"} /\ at' \in {"opening", "up"} /\ UNCHANGED <<remote, client>>
          /\ call'.message = 0
      BY <1>13, <1>0, FlushStep
    <3>2. Ahead' = Ahead
      BY <3>1 DEF Ahead
    <3> QED
      BY <1>0, <3>1, <3>2 DEF Live
  <2>2. Found(m)' => Found(m)
    BY <1>13, <1>0, FlushStep, SMTT(30) DEF Found, InScan, FromWhere, SessionInv, CallInv, ScanInv, Idle, NoCall, SameStatus
  <2>3. /\ sent'[m] = sent[m] /\ heard' = heard /\ crashes' = crashes /\ faults' \in {faults, faults + 1}
        /\ ChannelArchived' => ChannelArchived \/ faults' = faults + 1
    BY <1>13, <1>0, FlushStep, SMTT(30) DEF ChannelArchived, Channel, SessionInv, SameStatus
  <2> QED
    BY <1>0, <2>1, <2>2, <2>3, NothingNew
<1>14. ASSUME NEW p \in People, Write(p)
      PROVE  MayBeHeard(m)'
  <2>1. Live(m)' => Live(m)
    <3>1. UNCHANGED <<at, client, call>> /\ m < Len(sent) + 1 /\ Len(sent) \in Nat
      BY <1>14, <1>0, WriteStep, NumberFacts
    <3>2. \A k \in DOMAIN remote'.log : remote'.log[k] = Len(sent) + 1
                                        \/ (k \in DOMAIN remote.log /\ remote'.log[k] = remote.log[k])
      BY <1>14, NumberFacts, WriteStep DEF PlaceInv
    <3>3. ASSUME m \in Ahead' PROVE m \in Ahead
      <4>1. PICK k \in DOMAIN remote'.log : /\ m = remote'.log[k] /\ (at = "ready" \/ k > client.sequence)
                                            /\ at = "ready" \/ client.session
        BY <3>1, <3>3 DEF Ahead
      <4>2. k \in DOMAIN remote.log /\ m = remote.log[k]
        BY <3>1, <3>2, <4>1, <1>0
      <4> QED
        BY <4>1, <4>2 DEF Ahead
    <3> QED
      BY <3>1, <3>3 DEF Live
  <2>2. Found(m)' => Found(m)
    BY <1>14, <1>0, WriteStep, SMTT(30) DEF Found, InScan, FromWhere, SessionInv, CallInv, ScanInv, Idle, NoCall
  <2>3. /\ sent'[m] = sent[m] /\ heard' = heard /\ crashes' = crashes /\ faults' \in {faults, faults + 1}
        /\ ChannelArchived' => ChannelArchived \/ faults' = faults + 1
    BY <1>14, <1>0, WriteStep, SMTT(30) DEF ChannelArchived, Channel, SessionInv
  <2> QED
    BY <1>0, <2>1, <2>2, <2>3, NothingNew
<1>15. ASSUME NEW p \in People, Reply(p)
      PROVE  MayBeHeard(m)'
  <2>1. Live(m)' => Live(m)
    <3>1. /\ UNCHANGED <<at, remote, call>> /\ client'.session = client.session
          /\ client'.sequence = client.sequence
      BY <1>15, <1>0, ReplyStep DEF SameClient, SameBinding
    <3> QED
      BY <3>1 DEF Live, Ahead
  <2>2. Found(m)' => Found(m)
    BY <1>15, <1>0, ReplyStep, SMTT(30) DEF Found, InScan, FromWhere, SessionInv, CallInv, ScanInv, Idle, NoCall, SameClient, SameBinding
  <2>3. /\ sent'[m] = sent[m] /\ heard' = heard /\ crashes' = crashes /\ faults' \in {faults, faults + 1}
        /\ ChannelArchived' => ChannelArchived \/ faults' = faults + 1
    BY <1>15, <1>0, ReplyStep, SMTT(30) DEF ChannelArchived, Channel, SessionInv, SameClient, SameBinding
  <2> QED
    BY <1>0, <2>1, <2>2, <2>3, NothingNew
<1>16. ASSUME Disconnect
      PROVE  MayBeHeard(m)'
  <2>1. Live(m)' => Live(m)
    BY <1>16, <1>0, DisconnectStep, SMTT(30) DEF Live, Ahead, SessionInv, CallInv, Idle, NoCall
  <2>2. Found(m)' => Found(m)
    BY <1>16, <1>0, DisconnectStep, SMTT(30) DEF Found, InScan, FromWhere, SessionInv, CallInv, ScanInv, Idle, NoCall
  <2>3. /\ sent'[m] = sent[m] /\ heard' = heard /\ crashes' = crashes /\ faults' \in {faults, faults + 1}
        /\ ChannelArchived' => ChannelArchived \/ faults' = faults + 1
    BY <1>16, <1>0, DisconnectStep, SMTT(30) DEF ChannelArchived, Channel, SessionInv
  <2> QED
    BY <1>0, <2>1, <2>2, <2>3, NothingNew
<1>17. ASSUME SessionExpires
      PROVE  MayBeHeard(m)'
  <2>1. Live(m)' => Live(m)
    BY <1>17, <1>0, SMTT(30) DEF Live, Ahead, SessionInv, CallInv, Idle, NoCall, SessionExpires
  <2>2. Found(m)' => Found(m)
    BY <1>17, <1>0, SMTT(30) DEF Found, InScan, FromWhere, SessionInv, CallInv, ScanInv, Idle, NoCall, SessionExpires
  <2>3. /\ sent'[m] = sent[m] /\ heard' = heard /\ crashes' = crashes /\ faults' \in {faults, faults + 1}
        /\ ChannelArchived' => ChannelArchived \/ faults' = faults + 1
    BY <1>17, <1>0, SMTT(30) DEF ChannelArchived, Channel, SessionInv, SessionExpires
  <2> QED
    BY <1>0, <2>1, <2>2, <2>3, NothingNew
<1>18. ASSUME Crash
      PROVE  MayBeHeard(m)'
  <2>1. /\ at' = "stopped" /\ client'.session = FALSE /\ client'.channel = 0 /\ crashes' = crashes + 1
        /\ faults' = faults /\ heard' = heard /\ sent' = sent
    BY <1>18 DEF Crash, Fresh
  <2>2. ~Live(m)' /\ ~ChannelArchived'
    BY <2>1 DEF Live, Ahead, ChannelArchived
  <2>3. /\ Chance(Live(m))' = 0 /\ Chance(Found(m))' \in {0, 1} /\ Chance(Live(m) \/ Found(m))' \in {0, 1}
        /\ Chance(ChannelArchived)' = 0 /\ Chance(ChannelArchived) \in {0, 1} /\ Chance(sent[m].during) \in {0, 1}
        /\ Chance(Live(m)) \in {0, 1} /\ Chance(Found(m)) \in {0, 1} /\ Chance(Live(m) \/ Found(m)) \in {0, 1}
        /\ Chance(sent[m].during)' = Chance(sent[m].during)
    BY <2>1, <2>2 DEF Chance
  <2>4. Unheard(m)' \in {0, 1} /\ Unheard(m) \in {0, 1, 2}
    BY <2>3, SMT DEF Unheard
  <2> HIDE DEF Chance
  <2> QED
    BY <1>0, <2>1, <2>3, <2>4 DEF MayBeHeard
<1>19. ASSUME NEW k \in DOMAIN channels, ChannelReady(k)
      PROVE  MayBeHeard(m)'
  <2>1. Live(m)' => Live(m)
    <3>1. UNCHANGED <<remote, at, client, call>>
      BY <1>19, <1>0, StatusStep
    <3> QED
      BY <3>1 DEF Live, Ahead
  <2>2. Found(m)' => Found(m)
    BY <1>19, <1>0, StatusStep, SMTT(30) DEF Found, InScan, FromWhere, SessionInv, CallInv, ScanInv, Idle, NoCall
  <2>3. /\ sent'[m] = sent[m] /\ heard' = heard /\ crashes' = crashes /\ faults' \in {faults, faults + 1}
        /\ ChannelArchived' => ChannelArchived \/ faults' = faults + 1
    <3>1. /\ UNCHANGED <<sent, heard, crashes, client>> /\ faults' \in {faults, faults + 1}
          /\ \A j \in DOMAIN channels : channels'[j].status = "Archived" =>
                channels[j].status = "Archived" \/ faults' = faults + 1
      BY <1>19, <1>0, StatusStep
    <3>2. client.channel # 0 => client.channel \in DOMAIN channels
      BY <1>0
    <3> QED
      BY <3>1, <3>2 DEF ChannelArchived, Channel
  <2> QED
    BY <1>0, <2>1, <2>2, <2>3, NothingNew
<1>20. ASSUME NEW k \in DOMAIN channels, Archive(k)
      PROVE  MayBeHeard(m)'
  <2>1. Live(m)' => Live(m)
    <3>1. UNCHANGED <<remote, at, client, call>>
      BY <1>20, <1>0, StatusStep
    <3> QED
      BY <3>1 DEF Live, Ahead
  <2>2. Found(m)' => Found(m)
    BY <1>20, <1>0, StatusStep, SMTT(30) DEF Found, InScan, FromWhere, SessionInv, CallInv, ScanInv, Idle, NoCall
  <2>3. /\ sent'[m] = sent[m] /\ heard' = heard /\ crashes' = crashes /\ faults' \in {faults, faults + 1}
        /\ ChannelArchived' => ChannelArchived \/ faults' = faults + 1
    <3>1. /\ UNCHANGED <<sent, heard, crashes, client>> /\ faults' \in {faults, faults + 1}
          /\ \A j \in DOMAIN channels : channels'[j].status = "Archived" =>
                channels[j].status = "Archived" \/ faults' = faults + 1
      BY <1>20, <1>0, StatusStep
    <3>2. client.channel # 0 => client.channel \in DOMAIN channels
      BY <1>0
    <3> QED
      BY <3>1, <3>2 DEF ChannelArchived, Channel
  <2> QED
    BY <1>0, <2>1, <2>2, <2>3, NothingNew
<1>22. ASSUME NoChannel
      PROVE  MayBeHeard(m)'
  <2>1. /\ UNCHANGED <<sent, remote, at, scan, heard, crashes>> /\ call'.message = 0 /\ client'.channel = 0
        /\ client'.session = client.session /\ client'.sequence = client.sequence
        /\ client'.cursor = client.cursor /\ faults' \in {faults, faults + 1}
    BY <1>22, <1>0, NoChannelStep DEF Answered
  <2>2. Live(m)' => Live(m)
    BY <1>0, <2>1 DEF Live, Ahead
  <2>3. Found(m)' => Found(m)
    BY <1>0, <2>1 DEF Found, InScan, FromWhere
  <2>4. ~ChannelArchived'
    BY <2>1 DEF ChannelArchived
  <2> QED
    BY <1>0, <2>1, <2>2, <2>3, <2>4, NothingNew
<1>23. ASSUME RecoverFails
      PROVE  MayBeHeard(m)'
  <2>1. /\ UNCHANGED <<sent, remote, at, scan, heard, crashes>> /\ call'.message = 0 /\ client'.channel = 0
        /\ client'.session = client.session /\ client'.sequence = client.sequence
        /\ client'.cursor = client.cursor /\ faults' \in {faults, faults + 1}
    BY <1>23, <1>0, RecoverFailsStep DEF Answered
  <2>2. Live(m)' => Live(m)
    BY <1>0, <2>1 DEF Live, Ahead
  <2>3. Found(m)' => Found(m)
    BY <1>0, <2>1 DEF Found, InScan, FromWhere
  <2>4. ~ChannelArchived'
    BY <2>1 DEF ChannelArchived
  <2> QED
    BY <1>0, <2>1, <2>2, <2>3, <2>4, NothingNew
<1>21. CASE UNCHANGED vars
  BY <1>21 DEF vars, MayBeHeard, Unheard, Live, Found, InScan, FromWhere, Ahead, ChannelArchived, Channel
<1> QED
  BY <1>1, <1>2, <1>3, <1>4, <1>5, <1>6, <1>7, <1>8, <1>9, <1>10, <1>11, <1>12, <1>13, <1>14, <1>15, <1>16, <1>17, <1>18, <1>19, <1>20, <1>21, <1>22, <1>23 DEF Next, TransportStep, DiscordStep

\* Only people write, and what they write is the next message.
LEMMA OnlyWrite ==
    ASSUME [Next]_vars
    PROVE  UNCHANGED sent \/ \E p \in People : Write(p)
<1> USE DEF network
<1>1. TransportStep => UNCHANGED sent
  BY DEF TransportStep, Start, Ready, ListDms, ListFrom, FetchPage, Replay, EndScan, MessageCreate, ReceiveMessage,
     NoChannel, Recover, RecoverFails, FlushCursor
<1>2. DiscordStep => UNCHANGED sent
  BY DEF DiscordStep, Resumed, InvalidSession, Identify
<1>3. Disconnect \/ SessionExpires \/ Crash => UNCHANGED sent
  BY DEF Disconnect, SessionExpires, Crash
<1>4. (\E p \in People : Reply(p)) \/ (\E k \in DOMAIN channels : ChannelReady(k) \/ Archive(k)) => UNCHANGED sent
  BY DEF Reply, ChannelReady, Archive
<1>5. UNCHANGED vars => UNCHANGED sent
  BY DEF vars
<1> QED
  BY <1>1, <1>2, <1>3, <1>4, <1>5 DEF Next

\* A message is either one there was, or has just been written and nobody heard it.
LEMMA OldOrNew ==
    ASSUME PlaceInv, [Next]_vars, TypeOK', NEW m \in Sent'
    PROVE  m \in Sent \/ \E p \in People : Write(p) /\ m = Len(sent) + 1 /\ m \notin Sent /\ m \in Message /\ heard[m] = 0
<1>1. UNCHANGED sent => m \in Sent
  BY DEF Sent
<1>2. ASSUME NEW p \in People, Write(p), m \notin Sent
      PROVE  m = Len(sent) + 1 /\ m \in Message /\ heard[m] = 0
  <2>1. m = Len(sent) + 1
    BY <1>2, WriteStep DEF PlaceInv
  <2>2. m \in Message
    <3>1. Len(sent') <= MessageLimit /\ Len(sent') = Len(sent) + 1 /\ Len(sent) \in Nat
      BY <1>2, WriteStep, NumberFacts, TypeParts DEF PlaceInv, SentOK
    <3> QED
      BY <2>1, <3>1, GatewayBounds DEF Message
  <2> QED
    BY <1>2, <2>1, <2>2 DEF PlaceInv, UnwrittenUnheard
<1> QED
  BY <1>1, <1>2, OnlyWrite

\* Nothing is written before the transport starts.
LEMMA PlaceInit == ASSUME Init PROVE PlaceInv /\ Sent = {}
<1>1. TypeOK /\ Sent = {}
  BY TypeInit DEF Init, Sent
<1> QED
  BY <1>1, SMTT(30) DEF Init, PlaceInv, SessionInv, LogInv, CallInv, ScanInv, UnwrittenUnheard, ChannelArchived, Fresh,
     NoCall, Idle

HeardInv == \A m \in Sent : MayBeHeard(m)

\* Every step keeps what every message may still be heard.
LEMMA HeardNext ==
    ASSUME PlaceInv, [Next]_vars, TypeOK', HeardInv
    PROVE  HeardInv'
<1> SUFFICES ASSUME NEW m \in Sent' PROVE MayBeHeard(m)'
  BY DEF HeardInv
<1>1. CASE m \in Sent
  BY <1>1, HeardStep DEF HeardInv
<1>2. ASSUME NEW p \in People, Write(p), heard[m] = 0
      PROVE  MayBeHeard(m)'
  <2>1. heard'[m] = 0 /\ crashes' = crashes /\ faults' = faults /\ crashes \in Nat /\ faults \in Nat
    BY <1>2, WriteStep, NumberFacts DEF PlaceInv
  <2>2. ChannelArchived' => faults > 0
    BY <1>2, WriteStep DEF PlaceInv, CallInv, ChannelArchived, Channel
  <2>3. Chance(ChannelArchived)' \in {0, 1} /\ Chance(ChannelArchived)' <= faults /\ Chance(sent[m].during)' \in {0, 1}
    BY <2>1, <2>2 DEF Chance
  <2>4. Unheard(m)' <= 1 + Chance(sent[m].during)' /\ Unheard(m)' \in {0, 1, 2}
    BY DEF Unheard, Chance
  <2> HIDE DEF Chance
  <2> QED
    BY <2>1, <2>3, <2>4 DEF MayBeHeard
<1> QED
  BY <1>1, <1>2, OldOrNew

\* The types hold, the transport is where it may be, and each message may be heard once.
LEMMA HeardAlways == Spec => [](PlaceInv /\ HeardInv)
<1>1. Init => PlaceInv /\ HeardInv
  BY PlaceInit DEF HeardInv
<1>2. PlaceInv /\ HeardInv /\ [Next]_vars => PlaceInv' /\ HeardInv'
  BY TypeStep, PlaceStep, HeardNext DEF PlaceInv
<1> QED
  BY <1>1, <1>2, PTL DEF Spec

\* A message is received once: again only if it was written during a catch-up, so that the
\* gateway delivers it too, or after a fault or an end of the transport's task, which
\* forgets the cursor it had in memory.
THEOREM EachHeardOnce == Spec => []HeardOnce
<1>1. PlaceInv /\ HeardInv => HeardOnce
  <2> SUFFICES ASSUME PlaceInv, HeardInv, NEW m \in Sent
               PROVE  heard[m] <= 1 + crashes + faults + (IF sent[m].during THEN 1 ELSE 0)
    BY DEF HeardOnce
  <2>1. heard[m] \in Nat /\ crashes \in Nat /\ faults \in Nat
    BY NumberFacts DEF PlaceInv
  <2>2. Chance(ChannelArchived) \in {0, 1} /\ Unheard(m) \in {0, 1, 2} /\ Chance(sent[m].during) \in {0, 1}
    BY DEF Unheard, Chance
  <2>3. Chance(sent[m].during) = IF sent[m].during THEN 1 ELSE 0
    BY DEF Chance
  <2>4. MayBeHeard(m)
    BY DEF HeardInv
  <2> HIDE DEF Chance
  <2> QED
    BY <2>1, <2>2, <2>3, <2>4 DEF MayBeHeard
<1> QED
  BY <1>1, HeardAlways, PTL

(***************************************************************************)
(* While no request fails, a message that is not received, and was not     *)
(* written during a catch-up, is still before the cursor, or being sought. *)
(***************************************************************************)
\* A cursor is that of a Channel that is connected.
CursorOfChannel ==
    /\ client.cursor # 0 => Channel.status = "Connected"
    /\ at \in {"list", "scan"} => client.cursor # 0

Known(m) == Settled(m) \/ sent[m].during
CursorBefore(m) == m <= client.cursor => at = "scan"
Sought(m) == at = "scan" => InScan(m)
OnLastPage(m) == at = "scan" /\ scan.who = sent[m].from /\ scan.page # {} /\ ~scan.full => m <= scan.after
Coming(m) ==
    client.session /\ remote.alive /\ at \in {"opening", "flush", "up", "flushScan"} => m = call.message \/ m \in Ahead
KeptBefore(m) == \A k \in DOMAIN channels : channels[k].cursor < m
Tracked(m) == CursorBefore(m) /\ Sought(m) /\ OnLastPage(m) /\ Coming(m) /\ KeptBefore(m)
Accounted(m) == Known(m) \/ Tracked(m)

\* What is known of a message stays known.
LEMMA HistoryGrows ==
    ASSUME PlaceInv, [Next]_vars, NEW m \in Sent
    PROVE  Known(m) => Known(m)'
<1> USE DEF network, history
<1>1. sent'[m] = sent[m]
  BY OnlyWrite, WriteStep DEF PlaceInv
<1>2. told \subseteq told' /\ overlooked \subseteq overlooked' /\ (heard[m] > 0 => heard'[m] > 0)
  <2>1. heard \in [Message -> Nat] /\ m \in Message
    BY NumberFacts, TypeParts DEF PlaceInv, HistoryOK
  <2>2. CASE ReceiveMessage
    <3>1. told \subseteq told' /\ overlooked' = overlooked
      BY <2>2 DEF ReceiveMessage, Succeeds, Fails
    <3>2. heard' = heard \/ IsHeard
      BY <2>2, ReceiveStep DEF PlaceInv
    <3> QED
      BY <2>1, <3>1, <3>2 DEF IsHeard
  <2>3. CASE Ready \/ \E listed \in SUBSET People : ListDms(listed)
    BY <2>3 DEF Ready, ListDms, ListFrom
  <2>4. CASE UNCHANGED <<told, overlooked, heard>>
    BY <2>4
  <2>5. \/ Start \/ (\E p \in People : FetchPage(p)) \/ Replay \/ EndScan \/ MessageCreate \/ Recover \/ FlushCursor
        \/ DiscordStep
        => UNCHANGED <<told, overlooked, heard>>
    BY DEF Start, FetchPage, Replay, EndScan, MessageCreate, Recover, FlushCursor, DiscordStep, Resumed, InvalidSession,
       Identify
  <2>6. \/ (\E p \in People : Write(p) \/ Reply(p)) \/ Disconnect \/ SessionExpires \/ Crash
        \/ (\E k \in DOMAIN channels : ChannelReady(k) \/ Archive(k))
        \/ UNCHANGED vars
        => UNCHANGED <<told, overlooked, heard>>
    BY DEF Write, Reply, Disconnect, SessionExpires, Crash, ChannelReady, Archive, vars
  <2>7. CASE NoChannel \/ RecoverFails
    BY <2>7, NoChannelStep, RecoverFailsStep DEF PlaceInv
  <2> QED
    BY <2>2, <2>3, <2>4, <2>5, <2>6, <2>7 DEF Next, TransportStep
<1> QED
  BY <1>1, <1>2 DEF Known, Settled

\* The cursors of the Channels are numbers.
LEMMA CursorsAreNumbers == ASSUME TypeOK PROVE \A k \in DOMAIN channels : channels[k].cursor \in Nat
<1>1. \A k \in DOMAIN channels : channels[k] \in ChannelRecord
  BY NumberFacts
<1>2. {0} \cup Sent \subseteq Nat
  BY DEF Sent
<1> QED
  BY <1>1, <1>2 DEF ChannelRecord

\* Every step keeps account of a message that was sent, as long as no request fails.
LEMMA SkipStep ==
    ASSUME PlaceInv, [Next]_vars, TypeOK', faults = 0, faults' = 0, CursorOfChannel, NEW m \in Sent, Accounted(m)
    PROVE  Accounted(m)'
<1> USE DEF network, history, bounds
<1>0. /\ TypeOK /\ SessionInv /\ LogInv /\ CallInv /\ ScanInv /\ CursorOfChannel /\ faults = 0 /\ faults' = 0
      /\ client.cursor \in Nat /\ scan.base \in Nat /\ scan.after \in Nat /\ scan.page \subseteq Sent
      /\ m \in Nat \ {0} /\ m \in Message /\ heard \in [Message -> Nat] /\ heard[m] \in Nat
      /\ sent[m].from \in People /\ Nobody \notin People /\ client.channel \in 0..Len(channels)
      /\ Len(channels) \in Nat /\ DOMAIN channels = 1..Len(channels) /\ client.sequence \in Nat
      /\ DOMAIN remote.log = 1..Len(remote.log) /\ Len(remote.log) \in Nat
      /\ \A k \in DOMAIN remote.log : remote.log[k] \in Nat
      /\ call.message \in Nat /\ 0 \notin Sent
      /\ (Known(m) => Known(m)') /\ Accounted(m) /\ \A k \in DOMAIN channels : channels[k].cursor \in Nat
  BY CursorsAreNumbers, NumberFacts, WrittenByPeople, TypeParts, GatewayPeople, HistoryGrows DEF PlaceInv, HistoryOK
<1>1. ASSUME Start
      PROVE  Accounted(m)'
  <2> SUFFICES ASSUME ~Known(m)', Tracked(m) PROVE Tracked(m)'
    BY <1>0 DEF Accounted
  <2>0. CursorBefore(m) /\ Sought(m) /\ OnLastPage(m) /\ Coming(m) /\ KeptBefore(m)
    BY DEF Tracked
  <2>1. CursorBefore(m)'
    <3>1. client'.cursor = 0 \/ \E j \in DOMAIN channels : client'.cursor = channels[j].cursor
      BY <1>1, <1>0, StartStep DEF CursorFrom
    <3>2. \A j \in DOMAIN channels : channels[j].cursor < m /\ channels[j].cursor \in Nat
      BY <1>0, <2>0 DEF KeptBefore
    <3>3. client'.cursor \in Nat /\ client'.cursor < m
      BY <1>0, <3>1, <3>2
    <3> QED
      BY <1>0, <3>3 DEF CursorBefore
  <2>2. Sought(m)'
    BY <1>1, <1>0, <2>0, StartStep, SMTT(30) DEF Sought, CursorBefore, OnLastPage, InScan, FromWhere, Idle, NoCall, Rebound, CursorFrom
  <2>3. OnLastPage(m)'
    BY <1>1, <1>0, <2>0, StartStep, SMTT(30) DEF OnLastPage, Idle, NoCall, Rebound, CursorFrom
  <2>4. Coming(m)'
    BY <1>1, <1>0, <2>0, StartStep, SMTT(30) DEF Coming, Ahead, SessionInv, CallInv, Idle, NoCall, Rebound, CursorFrom
  <2>5. KeptBefore(m)'
    BY <1>1, <1>0, <2>0, StartStep, SMTT(30) DEF KeptBefore, CursorBefore, Rebound, CursorFrom
  <2> QED
    BY <2>1, <2>2, <2>3, <2>4, <2>5 DEF Tracked
<1>2. ASSUME Resumed
      PROVE  Accounted(m)'
  <2> SUFFICES ASSUME ~Known(m)', Tracked(m) PROVE Tracked(m)'
    BY <1>0 DEF Accounted
  <2>0. CursorBefore(m) /\ Sought(m) /\ OnLastPage(m) /\ Coming(m) /\ KeptBefore(m)
    BY DEF Tracked
  <2>1. CursorBefore(m)'
    BY <1>2, <1>0, <2>0, SMTT(30) DEF CursorBefore, KeptBefore, SessionInv, Resumed
  <2>2. Sought(m)'
    BY <1>2, <1>0, <2>0, SMTT(30) DEF Sought, CursorBefore, OnLastPage, InScan, FromWhere, Idle, NoCall, Resumed
  <2>3. OnLastPage(m)'
    BY <1>2, <1>0, <2>0, SMTT(30) DEF OnLastPage, Idle, NoCall, Resumed
  <2>4. Coming(m)'
    BY <1>2, <1>0, <2>0, SMTT(30) DEF Coming, Ahead, SessionInv, CallInv, Idle, NoCall, Resumed
  <2>5. KeptBefore(m)'
    BY <1>2, <1>0, <2>0, SMTT(30) DEF KeptBefore, CursorBefore, Resumed
  <2> QED
    BY <2>1, <2>2, <2>3, <2>4, <2>5 DEF Tracked
<1>3. ASSUME InvalidSession
      PROVE  Accounted(m)'
  <2> SUFFICES ASSUME ~Known(m)', Tracked(m) PROVE Tracked(m)'
    BY <1>0 DEF Accounted
  <2>0. CursorBefore(m) /\ Sought(m) /\ OnLastPage(m) /\ Coming(m) /\ KeptBefore(m)
    BY DEF Tracked
  <2>1. CursorBefore(m)'
    BY <1>3, <1>0, <2>0, InvalidStep, SMTT(30) DEF CursorBefore, KeptBefore, SessionInv
  <2>2. Sought(m)'
    BY <1>3, <1>0, <2>0, InvalidStep, SMTT(30) DEF Sought, CursorBefore, OnLastPage, InScan, FromWhere, Idle, NoCall
  <2>3. OnLastPage(m)'
    BY <1>3, <1>0, <2>0, InvalidStep, SMTT(30) DEF OnLastPage, Idle, NoCall
  <2>4. Coming(m)'
    BY <1>3, <1>0, <2>0, InvalidStep, SMTT(30) DEF Coming, Ahead, SessionInv, CallInv, Idle, NoCall
  <2>5. KeptBefore(m)'
    <3>1. UNCHANGED <<channels>>
      BY <1>3, <1>0, InvalidStep
    <3> QED
      BY <2>0, <3>1 DEF KeptBefore
  <2> QED
    BY <2>1, <2>2, <2>3, <2>4, <2>5 DEF Tracked
<1>4. ASSUME Identify
      PROVE  Accounted(m)'
  <2> SUFFICES ASSUME ~Known(m)', Tracked(m) PROVE Tracked(m)'
    BY <1>0 DEF Accounted
  <2>0. CursorBefore(m) /\ Sought(m) /\ OnLastPage(m) /\ Coming(m) /\ KeptBefore(m)
    BY DEF Tracked
  <2>1. CursorBefore(m)'
    BY <1>4, <1>0, <2>0, SMTT(30) DEF CursorBefore, KeptBefore, SessionInv, Identify
  <2>2. Sought(m)'
    BY <1>4, <1>0, <2>0, SMTT(30) DEF Sought, CursorBefore, OnLastPage, InScan, FromWhere, Idle, NoCall, Identify
  <2>3. OnLastPage(m)'
    BY <1>4, <1>0, <2>0, SMTT(30) DEF OnLastPage, Idle, NoCall, Identify
  <2>4. Coming(m)'
    BY <1>4, <1>0, <2>0, SMTT(30) DEF Coming, Ahead, SessionInv, CallInv, Idle, NoCall, Identify
  <2>5. KeptBefore(m)'
    BY <1>4, <1>0, <2>0, SMTT(30) DEF KeptBefore, CursorBefore, Identify
  <2> QED
    BY <2>1, <2>2, <2>3, <2>4, <2>5 DEF Tracked
<1>5. ASSUME Ready
      PROVE  Accounted(m)'
  <2> SUFFICES ASSUME ~Known(m)', Tracked(m) PROVE Tracked(m)'
    BY <1>0 DEF Accounted
  <2>0. CursorBefore(m) /\ Sought(m) /\ OnLastPage(m) /\ Coming(m) /\ KeptBefore(m)
    BY DEF Tracked
  <2>1. CursorBefore(m)'
    BY <1>5, <1>0, <2>0, ReadyStep, SMTT(30) DEF CursorBefore, KeptBefore, SessionInv, Known, Settled
  <2>2. Sought(m)'
    BY <1>5, <1>0, <2>0, ReadyStep, SMTT(30) DEF Sought, CursorBefore, OnLastPage, InScan, FromWhere, Idle, NoCall, Known, Settled
  <2>3. OnLastPage(m)'
    BY <1>5, <1>0, <2>0, ReadyStep, SMTT(30) DEF OnLastPage, Idle, NoCall
  <2>4. Coming(m)'
    BY <1>5, <1>0, <2>0, ReadyStep, SMTT(30) DEF Coming, Ahead, SessionInv, CallInv, Idle, NoCall, Known, Settled
  <2>5. KeptBefore(m)'
    <3>1. UNCHANGED <<channels>>
      BY <1>5, <1>0, ReadyStep
    <3> QED
      BY <2>0, <3>1 DEF KeptBefore
  <2> QED
    BY <2>1, <2>2, <2>3, <2>4, <2>5 DEF Tracked
<1>6. ASSUME NEW listed \in SUBSET People, ListDms(listed)
      PROVE  Accounted(m)'
  <2> SUFFICES ASSUME ~Known(m)', Tracked(m) PROVE Tracked(m)'
    BY <1>0 DEF Accounted
  <2>0. CursorBefore(m) /\ Sought(m) /\ OnLastPage(m) /\ Coming(m) /\ KeptBefore(m)
    BY DEF Tracked
  <2>1. CursorBefore(m)'
    BY <1>6, <1>0, <2>0, ListStep, SMTT(30) DEF CursorBefore, KeptBefore, SessionInv
  <2>2. Sought(m)'
    <3>1. /\ at = "list" /\ at' = "scan" /\ UNCHANGED <<sent, client, heard>>
          /\ scan'.base = scan.base /\ scan'.page = scan.page /\ scan'.who = scan.who
          /\ overlooked' = overlooked \cup {k \in Sent : sent[k].from \notin scan'.todo /\ heard[k] = 0}
      BY <1>6, <1>0, ListStep
    <3>2. scan.base = client.cursor /\ scan.who = Nobody
      BY <1>0, <3>1 DEF ScanInv
    <3>3. heard[m] = 0 /\ m \notin overlooked'
      BY <1>0, <3>1 DEF Known, Settled
    <3>4. sent[m].from \in scan'.todo
      BY <3>1, <3>3
    <3>5. m > client.cursor
      BY <1>0, <2>0, <3>1 DEF CursorBefore
    <3> QED
      BY <1>0, <3>1, <3>2, <3>4, <3>5 DEF Sought, InScan, FromWhere
  <2>3. OnLastPage(m)'
    <3>1. scan'.page = {}
      BY <1>6, <1>0, ListStep DEF ScanInv
    <3> QED
      BY <3>1 DEF OnLastPage
  <2>4. Coming(m)'
    BY <1>6, <1>0, <2>0, ListStep, SMTT(30) DEF Coming, Ahead, SessionInv, CallInv, Idle, NoCall
  <2>5. KeptBefore(m)'
    <3>1. UNCHANGED <<channels>>
      BY <1>6, <1>0, ListStep
    <3> QED
      BY <2>0, <3>1 DEF KeptBefore
  <2> QED
    BY <2>1, <2>2, <2>3, <2>4, <2>5 DEF Tracked
<1>7. ASSUME NEW p \in People, FetchPage(p)
      PROVE  Accounted(m)'
  <2> SUFFICES ASSUME ~Known(m)', Tracked(m) PROVE Tracked(m)'
    BY <1>0 DEF Accounted
  <2>0. CursorBefore(m) /\ Sought(m) /\ OnLastPage(m) /\ Coming(m) /\ KeptBefore(m)
    BY DEF Tracked
  <2>1. CursorBefore(m)'
    <3>1. UNCHANGED <<client, at>>
      BY <1>7, <1>0, FetchStep
    <3> QED
      BY <2>0, <3>1 DEF CursorBefore
  <2>2. Sought(m)'
    <3>1. /\ at = "scan" /\ call.message = 0 /\ p \in scan.todo /\ scan.page = {} /\ scan.who \in {Nobody, p}
          /\ UNCHANGED <<sent, at, client, call>>
      BY <1>7, <1>0, FetchStep DEF Idle, NoCall
    <3>2. sent[m].from \in scan.todo /\ m > FromWhere(sent[m].from) /\ After = FromWhere(p)
      BY <1>0, <2>0, <3>1 DEF Sought, InScan, After, FromWhere
    <3>3. CASE ThreadOver(p) /\ Missed(p, After) = {}
      <4>1. sent[m].from # p
        BY <3>2, <3>3 DEF Missed
      <4> QED
        BY <1>0, <3>1, <3>2, <3>3, <4>1 DEF ThreadOver, Sought, InScan, FromWhere
    <3>4. CASE /\ scan'.base = scan.base /\ scan'.todo = scan.todo /\ scan'.who = p
               /\ \A k \in Missed(p, After) \ scan'.page : k > scan'.after
      <4>1. CASE sent[m].from = p
        <5>1. m \in Missed(p, After)
          BY <3>2, <4>1 DEF Missed
        <5> QED
          BY <3>1, <3>2, <3>4, <4>1, <5>1 DEF Sought, InScan, FromWhere
      <4>2. CASE sent[m].from # p
        BY <1>0, <3>1, <3>2, <3>4, <4>2 DEF Sought, InScan, FromWhere
      <4> QED
        BY <4>1, <4>2
    <3> QED
      BY <1>7, <1>0, <3>3, <3>4, FetchStep
  <2>3. OnLastPage(m)'
    <3>1. UNCHANGED sent /\ scan'.page # {} =>
            /\ scan'.who = p /\ \A k \in scan'.page : k <= scan'.after
            /\ \A k \in Missed(p, After) \ scan'.page : k > scan'.after
            /\ ~scan'.full => scan'.page = Missed(p, After)
      BY <1>7, <1>0, FetchStep DEF ThreadOver
    <3>2. /\ UNCHANGED sent /\ call.message = 0 /\ at = "scan" /\ scan.page = {} /\ scan.who \in {Nobody, p}
      BY <1>7, <1>0, FetchStep DEF Idle, NoCall
    <3>3. sent[m].from = p => m \in Missed(p, After)
      BY <1>0, <2>0, <3>2 DEF Sought, InScan, After, FromWhere, Missed
    <3> QED
      BY <3>1, <3>2, <3>3 DEF OnLastPage
  <2>4. Coming(m)'
    <3>1. UNCHANGED <<client, remote, at, call>>
      BY <1>7, <1>0, FetchStep
    <3> QED
      BY <2>0, <3>1 DEF Coming, Ahead
  <2>5. KeptBefore(m)'
    <3>1. UNCHANGED <<channels>>
      BY <1>7, <1>0, FetchStep
    <3> QED
      BY <2>0, <3>1 DEF KeptBefore
  <2> QED
    BY <2>1, <2>2, <2>3, <2>4, <2>5 DEF Tracked
<1>8. ASSUME Replay
      PROVE  Accounted(m)'
  <2> SUFFICES ASSUME ~Known(m)', Tracked(m) PROVE Tracked(m)'
    BY <1>0 DEF Accounted
  <2>0. CursorBefore(m) /\ Sought(m) /\ OnLastPage(m) /\ Coming(m) /\ KeptBefore(m)
    BY DEF Tracked
  <2>1. CursorBefore(m)'
    BY <1>8, <1>0, <2>0, ReplayStep, SMTT(30) DEF CursorBefore, KeptBefore, SessionInv, ThreadOver, SameClient, SameBinding
  <2>2. Sought(m)'
    BY <1>8, <1>0, <2>0, ReplayStep, SMTT(30) DEF Sought, CursorBefore, OnLastPage, InScan, FromWhere, Idle, NoCall, ThreadOver, SameClient, SameBinding
  <2>3. OnLastPage(m)'
    BY <1>8, <1>0, <2>0, ReplayStep, SMTT(30) DEF OnLastPage, Idle, NoCall, ThreadOver, SameClient, SameBinding
  <2>4. Coming(m)'
    BY <1>8, <1>0, <2>0, ReplayStep, SMTT(30) DEF Coming, Ahead, SessionInv, CallInv, Idle, NoCall, ThreadOver, SameClient, SameBinding
  <2>5. KeptBefore(m)'
    <3>1. UNCHANGED <<channels>>
      BY <1>8, <1>0, ReplayStep
    <3> QED
      BY <2>0, <3>1 DEF KeptBefore
  <2> QED
    BY <2>1, <2>2, <2>3, <2>4, <2>5 DEF Tracked
<1>9. ASSUME EndScan
      PROVE  Accounted(m)'
  <2>1. ~Sought(m)
    BY <1>9, <1>0 DEF EndScan, Sought, InScan, ScanInv, Idle, NoCall
  <2> QED
    BY <2>1, <1>0 DEF Accounted, Tracked
<1>10. ASSUME MessageCreate
      PROVE  Accounted(m)'
  <2> SUFFICES ASSUME ~Known(m)', Tracked(m) PROVE Tracked(m)'
    BY <1>0 DEF Accounted
  <2>0. CursorBefore(m) /\ Sought(m) /\ OnLastPage(m) /\ Coming(m) /\ KeptBefore(m)
    BY DEF Tracked
  <2>1. CursorBefore(m)'
    BY <1>10, <1>0, <2>0, MessageCreateStep, SMTT(30) DEF CursorBefore, KeptBefore, SessionInv, SameBinding
  <2>2. Sought(m)'
    BY <1>10, <1>0, <2>0, MessageCreateStep, SMTT(30) DEF Sought, CursorBefore, OnLastPage, InScan, FromWhere, Idle, NoCall, SameBinding
  <2>3. OnLastPage(m)'
    <3>1. UNCHANGED <<at, scan, sent>>
      BY <1>10, <1>0, MessageCreateStep
    <3> QED
      BY <2>0, <3>1 DEF OnLastPage
  <2>4. Coming(m)'
    <3>1. /\ at = "up" /\ at' = "up" /\ client.session /\ UNCHANGED remote /\ remote.alive /\ call.message = 0
          /\ client'.sequence = client.sequence + 1 /\ client'.sequence \in DOMAIN remote.log
          /\ call'.message = remote.log[client'.sequence]
      BY <1>10, <1>0, MessageCreateStep DEF SessionInv, Idle, NoCall
    <3>2. m \in Ahead
      BY <1>0, <2>0, <3>1 DEF Coming
    <3>3. PICK j \in DOMAIN remote.log : j > client.sequence /\ m = remote.log[j]
      BY <3>1, <3>2 DEF Ahead
    <3>4. j = client'.sequence \/ j > client'.sequence
      BY <1>0, <3>1, <3>3
    <3> QED
      BY <3>1, <3>3, <3>4 DEF Coming, Ahead
  <2>5. KeptBefore(m)'
    <3>1. UNCHANGED <<channels>>
      BY <1>10, <1>0, MessageCreateStep
    <3> QED
      BY <2>0, <3>1 DEF KeptBefore
  <2> QED
    BY <2>1, <2>2, <2>3, <2>4, <2>5 DEF Tracked
<1>11. ASSUME ReceiveMessage
      PROVE  Accounted(m)'
  <2>1. /\ at \in {"scan", "up"} /\ client.channel # 0 /\ faults' = faults /\ call'.message = 0
        /\ Channel.status # "Archived"
    BY <1>11, <1>0, ReceiveStep DEF CallInv, SessionInv, ChannelArchived, Answered
  <2>2. /\ UNCHANGED <<sent, remote, at>> /\ client'.session = client.session /\ client'.sequence = client.sequence
        /\ scan'.base = scan.base /\ scan'.todo = scan.todo /\ scan'.who = scan.who
        /\ scan'.after = scan.after /\ scan'.page = scan.page /\ scan'.full = scan.full
    BY <1>11, <1>0, ReceiveStep DEF SameBinding
  <2>3. CASE Known(m)
    BY <1>0, <2>3 DEF Accounted
  <2>4. CASE call.message = m
    <3>1. CASE IsHeard
      BY <1>0, <2>4, <3>1 DEF IsHeard, Accounted, Known, Settled
    <3>2. CASE told' = (IF at = "up" THEN told \cup {call.message} ELSE told) /\ Channel.status # "Connected"
      BY <1>0, <2>1, <2>4, <3>2 DEF Accounted, Known, Settled, CursorOfChannel
    <3> QED
      BY <1>11, <1>0, <2>1, <3>1, <3>2, ReceiveStep
  <2>5. CASE Tracked(m) /\ call.message # m
    <3>1. client'.cursor = client.cursor \/ client'.cursor = Newer(call.message, client.cursor)
      BY <1>11, <1>0, ReceiveStep
    <3>2. CursorBefore(m)'
      <4>1. CASE at = "up"
        <5>1. m \in Ahead /\ ~(m <= client.cursor)
          BY <1>0, <2>5, <4>1 DEF Tracked, Coming, CursorBefore, SessionInv
        <5>2. PICK j \in DOMAIN remote.log : j > client.sequence /\ m = remote.log[j]
          BY <4>1, <5>1 DEF Ahead
        <5>3. client.sequence \in DOMAIN remote.log /\ remote.log[client.sequence] = call.message
          BY <1>11, <1>0, <4>1, ReceiveStep DEF LogInv
        <5>4. call.message < m
          BY <1>0, <5>2, <5>3 DEF LogInv
        <5> QED
          BY <1>0, <3>1, <5>1, <5>4 DEF CursorBefore, Newer
      <4> QED
        BY <2>1, <2>2, <4>1 DEF CursorBefore
    <3>3. Sought(m)' /\ OnLastPage(m)'
      BY <1>0, <2>1, <2>2, <2>5 DEF Tracked, Sought, OnLastPage, InScan, FromWhere
    <3>4. Coming(m)'
      BY <1>0, <2>2, <2>5 DEF Tracked, Coming, Ahead
    <3>5. KeptBefore(m)'
      <4>1. DOMAIN channels' = DOMAIN channels /\ \A k \in DOMAIN channels : channels'[k].cursor = channels[k].cursor
        BY <1>11, <1>0, ReceiveStep, TypeParts DEF SameStatus, SameCursors, ChannelsOK
      <4> QED
        BY <2>5, <4>1 DEF Tracked, KeptBefore
    <3> QED
      BY <3>2, <3>3, <3>4, <3>5 DEF Accounted, Tracked
  <2> QED
    BY <1>0, <2>3, <2>4, <2>5 DEF Accounted
<1>12. ASSUME Recover
      PROVE  Accounted(m)'
  BY <1>12, <1>0, RecoverStep DEF CallInv
<1>13. ASSUME FlushCursor
      PROVE  Accounted(m)'
  <2> SUFFICES ASSUME ~Known(m)', Tracked(m) PROVE Tracked(m)'
    BY <1>0 DEF Accounted
  <2>0. CursorBefore(m) /\ Sought(m) /\ OnLastPage(m) /\ Coming(m) /\ KeptBefore(m)
    BY DEF Tracked
  <2>1. CursorBefore(m)'
    BY <1>13, <1>0, <2>0, FlushStep, SMTT(30) DEF CursorBefore, KeptBefore, SessionInv, SameStatus
  <2>2. Sought(m)'
    BY <1>13, <1>0, <2>0, FlushStep, SMTT(30) DEF Sought, CursorBefore, OnLastPage, InScan, FromWhere, Idle, NoCall, SameStatus
  <2>3. OnLastPage(m)'
    BY <1>13, <1>0, <2>0, FlushStep, SMTT(30) DEF OnLastPage, Idle, NoCall, SameStatus
  <2>4. Coming(m)'
    BY <1>13, <1>0, <2>0, FlushStep, SMTT(30) DEF Coming, Ahead, SessionInv, CallInv, Idle, NoCall, SameStatus
  <2>5. KeptBefore(m)'
    BY <1>13, <1>0, <2>0, FlushStep, SMTT(30) DEF KeptBefore, CursorBefore, SameStatus
  <2> QED
    BY <2>1, <2>2, <2>3, <2>4, <2>5 DEF Tracked
<1>14. ASSUME NEW p \in People, Write(p)
      PROVE  Accounted(m)'
  <2> SUFFICES ASSUME ~Known(m)', Tracked(m) PROVE Tracked(m)'
    BY <1>0 DEF Accounted
  <2>0. CursorBefore(m) /\ Sought(m) /\ OnLastPage(m) /\ Coming(m) /\ KeptBefore(m)
    BY DEF Tracked
  <2>1. CursorBefore(m)'
    <3>1. UNCHANGED <<client, at>>
      BY <1>14, <1>0, WriteStep
    <3> QED
      BY <2>0, <3>1 DEF CursorBefore
  <2>2. Sought(m)'
    BY <1>14, <1>0, <2>0, WriteStep, SMTT(30) DEF Sought, CursorBefore, OnLastPage, InScan, FromWhere, Idle, NoCall
  <2>3. OnLastPage(m)'
    BY <1>14, <1>0, <2>0, WriteStep, SMTT(30) DEF OnLastPage, Idle, NoCall
  <2>4. Coming(m)'
    <3>1. /\ UNCHANGED <<at, client, call>> /\ remote'.alive = remote.alive
          /\ DOMAIN remote.log \subseteq DOMAIN remote'.log
          /\ \A k \in DOMAIN remote.log : remote'.log[k] = remote.log[k]
      BY <1>14, <1>0, WriteStep
    <3>2. Ahead \subseteq Ahead'
      BY <3>1 DEF Ahead
    <3> QED
      BY <2>0, <3>1, <3>2 DEF Coming
  <2>5. KeptBefore(m)'
    <3>1. UNCHANGED <<channels>>
      BY <1>14, <1>0, WriteStep
    <3> QED
      BY <2>0, <3>1 DEF KeptBefore
  <2> QED
    BY <2>1, <2>2, <2>3, <2>4, <2>5 DEF Tracked
<1>15. ASSUME NEW p \in People, Reply(p)
      PROVE  Accounted(m)'
  <2> SUFFICES ASSUME ~Known(m)', Tracked(m) PROVE Tracked(m)'
    BY <1>0 DEF Accounted
  <2>0. CursorBefore(m) /\ Sought(m) /\ OnLastPage(m) /\ Coming(m) /\ KeptBefore(m)
    BY DEF Tracked
  <2>1. CursorBefore(m)'
    BY <1>15, <1>0, <2>0, ReplyStep, SMTT(30) DEF CursorBefore, KeptBefore, SessionInv, SameClient, SameBinding
  <2>2. Sought(m)'
    <3>1. UNCHANGED <<at, call, scan, sent>>
      BY <1>15, <1>0, ReplyStep
    <3> QED
      BY <2>0, <3>1 DEF Sought, InScan, FromWhere
  <2>3. OnLastPage(m)'
    <3>1. UNCHANGED <<at, scan, sent>>
      BY <1>15, <1>0, ReplyStep
    <3> QED
      BY <2>0, <3>1 DEF OnLastPage
  <2>4. Coming(m)'
    <3>1. /\ UNCHANGED <<at, remote, call>> /\ client'.session = client.session
          /\ client'.sequence = client.sequence
      BY <1>15, <1>0, ReplyStep DEF SameClient, SameBinding
    <3> QED
      BY <2>0, <3>1 DEF Coming, Ahead
  <2>5. KeptBefore(m)'
    <3>1. UNCHANGED <<channels>>
      BY <1>15, <1>0, ReplyStep
    <3> QED
      BY <2>0, <3>1 DEF KeptBefore
  <2> QED
    BY <2>1, <2>2, <2>3, <2>4, <2>5 DEF Tracked
<1>16. ASSUME Disconnect
      PROVE  Accounted(m)'
  <2> SUFFICES ASSUME ~Known(m)', Tracked(m) PROVE Tracked(m)'
    BY <1>0 DEF Accounted
  <2>0. CursorBefore(m) /\ Sought(m) /\ OnLastPage(m) /\ Coming(m) /\ KeptBefore(m)
    BY DEF Tracked
  <2>1. CursorBefore(m)'
    BY <1>16, <1>0, <2>0, DisconnectStep, SMTT(30) DEF CursorBefore, KeptBefore, SessionInv
  <2>2. Sought(m)'
    BY <1>16, <1>0, <2>0, DisconnectStep, SMTT(30) DEF Sought, CursorBefore, OnLastPage, InScan, FromWhere, Idle, NoCall
  <2>3. OnLastPage(m)'
    BY <1>16, <1>0, <2>0, DisconnectStep, SMTT(30) DEF OnLastPage, Idle, NoCall
  <2>4. Coming(m)'
    <3>1. /\ at \in {"opening", "ready", "up"} /\ at' = "flush" /\ UNCHANGED <<remote, call>>
          /\ client'.sequence = client.sequence /\ (client'.session = client.session \/ ~client'.session)
      BY <1>16, <1>0, DisconnectStep
    <3>2. at = "ready" => ~client'.session
      BY <1>0, <3>1 DEF SessionInv
    <3> QED
      BY <2>0, <3>1, <3>2 DEF Coming, Ahead
  <2>5. KeptBefore(m)'
    <3>1. UNCHANGED <<channels>>
      BY <1>16, <1>0, DisconnectStep
    <3> QED
      BY <2>0, <3>1 DEF KeptBefore
  <2> QED
    BY <2>1, <2>2, <2>3, <2>4, <2>5 DEF Tracked
<1>17. ASSUME SessionExpires
      PROVE  Accounted(m)'
  <2> SUFFICES ASSUME ~Known(m)', Tracked(m) PROVE Tracked(m)'
    BY <1>0 DEF Accounted
  <2>0. CursorBefore(m) /\ Sought(m) /\ OnLastPage(m) /\ Coming(m) /\ KeptBefore(m)
    BY DEF Tracked
  <2>1. CursorBefore(m)'
    BY <1>17, <1>0, <2>0, SMTT(30) DEF CursorBefore, KeptBefore, SessionInv, SessionExpires
  <2>2. Sought(m)'
    BY <1>17, <1>0, <2>0, SMTT(30) DEF Sought, CursorBefore, OnLastPage, InScan, FromWhere, Idle, NoCall, SessionExpires
  <2>3. OnLastPage(m)'
    BY <1>17, <1>0, <2>0, SMTT(30) DEF OnLastPage, Idle, NoCall, SessionExpires
  <2>4. Coming(m)'
    BY <1>17, <1>0, <2>0, SMTT(30) DEF Coming, Ahead, SessionInv, CallInv, Idle, NoCall, SessionExpires
  <2>5. KeptBefore(m)'
    BY <1>17, <1>0, <2>0, SMTT(30) DEF KeptBefore, CursorBefore, SessionExpires
  <2> QED
    BY <2>1, <2>2, <2>3, <2>4, <2>5 DEF Tracked
<1>18. ASSUME Crash
      PROVE  Accounted(m)'
  <2> SUFFICES ASSUME ~Known(m)', Tracked(m) PROVE Tracked(m)'
    BY <1>0 DEF Accounted
  <2>0. CursorBefore(m) /\ Sought(m) /\ OnLastPage(m) /\ Coming(m) /\ KeptBefore(m)
    BY DEF Tracked
  <2>1. CursorBefore(m)'
    BY <1>18, <1>0, <2>0, SMTT(30) DEF CursorBefore, KeptBefore, SessionInv, Crash, Fresh, NoScan, NoCall
  <2>2. Sought(m)'
    BY <1>18, <1>0, <2>0, SMTT(30) DEF Sought, CursorBefore, OnLastPage, InScan, FromWhere, Idle, NoCall, Crash, Fresh, NoScan
  <2>3. OnLastPage(m)'
    BY <1>18, <1>0, <2>0, SMTT(30) DEF OnLastPage, Idle, NoCall, Crash, Fresh, NoScan
  <2>4. Coming(m)'
    BY <1>18, <1>0, <2>0, SMTT(30) DEF Coming, Ahead, SessionInv, CallInv, Idle, NoCall, Crash, Fresh, NoScan
  <2>5. KeptBefore(m)'
    BY <1>18, <1>0, <2>0, SMTT(30) DEF KeptBefore, CursorBefore, Crash, Fresh, NoScan, NoCall
  <2> QED
    BY <2>1, <2>2, <2>3, <2>4, <2>5 DEF Tracked
<1>19. ASSUME NEW k \in DOMAIN channels, ChannelReady(k)
      PROVE  Accounted(m)'
  <2> SUFFICES ASSUME ~Known(m)', Tracked(m) PROVE Tracked(m)'
    BY <1>0 DEF Accounted
  <2>0. CursorBefore(m) /\ Sought(m) /\ OnLastPage(m) /\ Coming(m) /\ KeptBefore(m)
    BY DEF Tracked
  <2>1. CursorBefore(m)'
    <3>1. UNCHANGED <<client, at>>
      BY <1>19, <1>0, StatusStep
    <3> QED
      BY <2>0, <3>1 DEF CursorBefore
  <2>2. Sought(m)'
    <3>1. UNCHANGED <<at, call, scan, sent>>
      BY <1>19, <1>0, StatusStep
    <3> QED
      BY <2>0, <3>1 DEF Sought, InScan, FromWhere
  <2>3. OnLastPage(m)'
    <3>1. UNCHANGED <<at, scan, sent>>
      BY <1>19, <1>0, StatusStep
    <3> QED
      BY <2>0, <3>1 DEF OnLastPage
  <2>4. Coming(m)'
    <3>1. UNCHANGED <<client, remote, at, call>>
      BY <1>19, <1>0, StatusStep
    <3> QED
      BY <2>0, <3>1 DEF Coming, Ahead
  <2>5. KeptBefore(m)'
    <3>1. DOMAIN channels' = DOMAIN channels /\ \A j \in DOMAIN channels : channels'[j].cursor = channels[j].cursor
      BY <1>19, <1>0, StatusStep, TypeParts DEF SameCursors, ChannelsOK
    <3> QED
      BY <2>0, <3>1 DEF KeptBefore
  <2> QED
    BY <2>1, <2>2, <2>3, <2>4, <2>5 DEF Tracked
<1>20. ASSUME NEW k \in DOMAIN channels, Archive(k)
      PROVE  Accounted(m)'
  BY <1>20, <1>0 DEF Archive, Faulty
<1>22. ASSUME NoChannel
      PROVE  Accounted(m)'
  BY <1>22, <1>0, NoChannelStep DEF SessionInv, CallInv, Idle, NoCall
<1>23. ASSUME RecoverFails
      PROVE  Accounted(m)'
  BY <1>23, <1>0, RecoverFailsStep DEF CallInv
<1>21. CASE UNCHANGED vars
  BY <1>0, <1>21 DEF vars, Accounted, Known, Settled, Tracked, CursorBefore, Sought, OnLastPage, Coming, KeptBefore, InScan,
     FromWhere, Ahead
<1> QED
  BY <1>1, <1>2, <1>3, <1>4, <1>5, <1>6, <1>7, <1>8, <1>9, <1>10, <1>11, <1>12, <1>13, <1>14, <1>15, <1>16, <1>17, <1>18, <1>19, <1>20, <1>21, <1>22, <1>23 DEF Next, TransportStep, DiscordStep

\* A fault is counted for ever.
LEMMA FaultsStay ==
    ASSUME TypeOK, [Next]_vars
    PROVE  faults' \in {faults, faults + 1}
<1> USE DEF bounds
<1>1. (ReceiveMessage \/ FlushCursor \/ \E p \in People : FetchPage(p)) => faults' \in {faults, faults + 1}
  BY ReceiveStep, FlushStep, FetchStep
<1>4. (NoChannel \/ RecoverFails) => faults' \in {faults, faults + 1}
  BY NoChannelStep, RecoverFailsStep
<1>2. \/ Start \/ Ready \/ (\E listed \in SUBSET People : ListDms(listed)) \/ Replay \/ EndScan \/ MessageCreate
      \/ Recover \/ DiscordStep
      => UNCHANGED faults
  BY DEF Start, Ready, ListDms, ListFrom, Replay, EndScan, MessageCreate, Recover, DiscordStep, Resumed, InvalidSession, Identify
<1>3. \/ (\E p \in People : Write(p) \/ Reply(p)) \/ Disconnect \/ SessionExpires \/ Crash
      \/ (\E k \in DOMAIN channels : ChannelReady(k) \/ Archive(k))
      \/ UNCHANGED vars
      => faults' \in {faults, faults + 1}
  BY DEF Write, Reply, Disconnect, SessionExpires, Crash, ChannelReady, Archive, Faulty, vars
<1> QED
  BY <1>1, <1>2, <1>3, <1>4 DEF Next, TransportStep

\* Every step keeps the Channel whose cursor it is connected, as long as none is archived.
LEMMA CursorStep ==
    ASSUME PlaceInv, [Next]_vars, TypeOK', faults = 0, faults' = 0, CursorOfChannel
    PROVE  CursorOfChannel'
<1> USE DEF network, history, bounds
<1>0. /\ TypeOK /\ SessionInv /\ CallInv /\ CursorOfChannel /\ faults = 0 /\ faults' = 0
      /\ client.cursor \in Nat /\ client.channel \in 0..Len(channels)
      /\ Len(channels) \in Nat /\ DOMAIN channels = 1..Len(channels) /\ call.message \in Nat
      /\ client.cursor # 0 => client.channel \in DOMAIN channels
  BY NumberFacts DEF PlaceInv, SessionInv
<1>1. ASSUME Start
      PROVE  CursorOfChannel'
  <2>1. CursorFrom(0) /\ at' = "opening"
    BY <1>1, <1>0, StartStep
  <2> QED
    BY <2>1 DEF CursorFrom, CursorOfChannel, Channel
<1>2. ASSUME Resumed
      PROVE  CursorOfChannel'
  BY <1>2, <1>0, SMTT(30) DEF CursorOfChannel, Channel, Resumed
<1>3. ASSUME InvalidSession
      PROVE  CursorOfChannel'
  BY <1>3, <1>0, InvalidStep, SMTT(30) DEF CursorOfChannel, Channel
<1>4. ASSUME Identify
      PROVE  CursorOfChannel'
  BY <1>4, <1>0, SMTT(30) DEF CursorOfChannel, Channel, Identify
<1>5. ASSUME Ready
      PROVE  CursorOfChannel'
  BY <1>5, <1>0, ReadyStep, SMTT(30) DEF CursorOfChannel, Channel
<1>6. ASSUME NEW listed \in SUBSET People, ListDms(listed)
      PROVE  CursorOfChannel'
  BY <1>6, <1>0, ListStep, SMTT(30) DEF CursorOfChannel, Channel
<1>7. ASSUME NEW p \in People, FetchPage(p)
      PROVE  CursorOfChannel'
  BY <1>7, <1>0, FetchStep, SMTT(30) DEF CursorOfChannel, Channel, ThreadOver, Missed
<1>8. ASSUME Replay
      PROVE  CursorOfChannel'
  BY <1>8, <1>0, ReplayStep, SMTT(30) DEF CursorOfChannel, Channel, ThreadOver, SameClient, SameBinding
<1>9. ASSUME EndScan
      PROVE  CursorOfChannel'
  BY <1>9, <1>0, SMTT(30) DEF CursorOfChannel, Channel, EndScan, NoScan
<1>10. ASSUME MessageCreate
      PROVE  CursorOfChannel'
  BY <1>10, <1>0, MessageCreateStep, SMTT(30) DEF CursorOfChannel, Channel, SameBinding
<1>11. ASSUME ReceiveMessage
      PROVE  CursorOfChannel'
  <2>1. client.channel \in DOMAIN channels /\ at \in {"scan", "up"} /\ UNCHANGED <<at, faults>>
        /\ client'.channel = client.channel
    BY <1>11, <1>0, ReceiveStep, NumberFacts DEF CallInv, SessionInv, SameBinding
  <2>2. Channel'.status = Channel.status
    BY <1>11, <1>0, <2>1, ReceiveStep DEF SameStatus, Channel
  <2>3. \/ Channel.status = "Connected" /\ client'.cursor \in {client.cursor, call.message} /\ call.message # 0
        \/ client'.cursor = client.cursor
    BY <1>11, <1>0, ReceiveStep, NumberFacts DEF Newer
  <2>4. client'.cursor = 0 => client.cursor = 0
    BY <1>11, <1>0, <2>1, ReceiveStep DEF Newer
  <2> QED
    BY <1>0, <2>1, <2>2, <2>3, <2>4 DEF CursorOfChannel
<1>12. ASSUME Recover
      PROVE  CursorOfChannel'
  BY <1>12, <1>0, RecoverStep DEF CallInv
<1>13. ASSUME FlushCursor
      PROVE  CursorOfChannel'
  BY <1>13, <1>0, FlushStep, SMTT(30) DEF CursorOfChannel, Channel, SameStatus
<1>14. ASSUME NEW p \in People, Write(p)
      PROVE  CursorOfChannel'
  BY <1>14, <1>0, WriteStep, SMTT(30) DEF CursorOfChannel, Channel
<1>15. ASSUME NEW p \in People, Reply(p)
      PROVE  CursorOfChannel'
  BY <1>15, <1>0, ReplyStep, SMTT(30) DEF CursorOfChannel, Channel, SameClient, SameBinding
<1>16. ASSUME Disconnect
      PROVE  CursorOfChannel'
  BY <1>16, <1>0, DisconnectStep, SMTT(30) DEF CursorOfChannel, Channel
<1>17. ASSUME SessionExpires
      PROVE  CursorOfChannel'
  BY <1>17, <1>0, SMTT(30) DEF CursorOfChannel, Channel, SessionExpires
<1>18. ASSUME Crash
      PROVE  CursorOfChannel'
  BY <1>18, <1>0, SMTT(30) DEF CursorOfChannel, Channel, Crash, Fresh, NoScan, NoCall
<1>19. ASSUME NEW k \in DOMAIN channels, ChannelReady(k)
      PROVE  CursorOfChannel'
  BY <1>19, <1>0, StatusStep, SMTT(30) DEF CursorOfChannel, Channel
<1>20. ASSUME NEW k \in DOMAIN channels, Archive(k)
      PROVE  CursorOfChannel'
  BY <1>20, <1>0 DEF Archive, Faulty
<1>22. ASSUME NoChannel
      PROVE  CursorOfChannel'
  BY <1>22, <1>0, NoChannelStep DEF SessionInv, CallInv, Idle, NoCall
<1>23. ASSUME RecoverFails
      PROVE  CursorOfChannel'
  BY <1>23, <1>0, RecoverFailsStep DEF CallInv
<1>21. CASE UNCHANGED vars
  BY <1>0, <1>21 DEF vars, CursorOfChannel, Channel
<1> QED
  BY <1>1, <1>2, <1>3, <1>4, <1>5, <1>6, <1>7, <1>8, <1>9, <1>10, <1>11, <1>12, <1>13, <1>14, <1>15, <1>16, <1>17, <1>18, <1>19, <1>20, <1>21, <1>22, <1>23 DEF Next, TransportStep, DiscordStep

SkipInv == faults = 0 => CursorOfChannel /\ \A m \in Sent : Accounted(m)

\* A message just written is after every cursor, and dispatched if there is a session.
LEMMA NewAccounted ==
    ASSUME PlaceInv, TypeOK', faults = 0, NEW p \in People, Write(p), NEW m, m = Len(sent) + 1
    PROVE  Accounted(m)'
<1>0. /\ Len(sent) \in Nat /\ {0} \cup Sent \subseteq Nat /\ \A k \in Sent : k < m
      /\ client.cursor \in {0} \cup Sent /\ \A k \in DOMAIN channels : channels[k] \in ChannelRecord
      /\ UNCHANGED <<at, client, call, channels, scan>> /\ remote'.alive = remote.alive
  BY WriteStep, NumberFacts, TypeParts DEF PlaceInv, ClientOK, ClientRecord, Sent
<1>1. CASE at \in {"ready", "list", "scan"}
  BY <1>1, WriteStep DEF PlaceInv, Accounted, Known
<1>2. CASE at \notin {"ready", "list", "scan"}
  <2>1. \A c \in {0} \cup Sent : c < m
    BY <1>0
  <2>2. CursorBefore(m)' /\ Sought(m)' /\ OnLastPage(m)'
    <3>1. ~(m <= client.cursor)
      BY <1>0, <2>1
    <3> QED
      BY <1>0, <1>2, <3>1 DEF CursorBefore, Sought, OnLastPage
  <2>3. KeptBefore(m)'
    <3>1. \A k \in DOMAIN channels : channels[k].cursor \in {0} \cup Sent
      BY <1>0 DEF ChannelRecord
    <3> QED
      BY <1>0, <2>1, <3>1 DEF KeptBefore
  <2>4. Coming(m)'
    <3> SUFFICES ASSUME client'.session, remote'.alive PROVE m \in Ahead'
      BY <1>0 DEF Coming
    <3>1. client.session /\ remote.alive /\ UNCHANGED client
      BY <1>0
    <3>2. Len(remote.log) + 1 \in DOMAIN remote'.log /\ remote'.log[Len(remote.log) + 1] = m
      BY <3>1, WriteStep DEF PlaceInv
    <3>3. Len(remote.log) + 1 > client.sequence
      BY <3>1, NumberFacts DEF PlaceInv, LogInv
    <3> QED
      BY <3>1, <3>2, <3>3 DEF Ahead
  <2> QED
    BY <2>2, <2>3, <2>4 DEF Accounted, Tracked
<1> QED
  BY <1>1, <1>2

\* Every step keeps account of every message, as long as no request fails.
LEMMA SkipNext ==
    ASSUME PlaceInv, [Next]_vars, TypeOK', SkipInv
    PROVE  SkipInv'
<1> SUFFICES ASSUME faults' = 0 PROVE CursorOfChannel' /\ \A m \in Sent' : Accounted(m)'
  BY DEF SkipInv
<1>1. faults = 0
  BY FaultsStay, NumberFacts DEF PlaceInv
<1>2. CursorOfChannel /\ \A m \in Sent : Accounted(m)
  BY <1>1 DEF SkipInv
<1>3. CursorOfChannel'
  BY <1>1, <1>2, CursorStep
<1>4. ASSUME NEW m \in Sent' PROVE Accounted(m)'
  <2>1. CASE m \in Sent
    BY <1>1, <1>2, <2>1, SkipStep
  <2>2. ASSUME NEW p \in People, Write(p), m = Len(sent) + 1
        PROVE  Accounted(m)'
    BY <1>1, <2>2, NewAccounted
  <2> QED
    BY <1>4, <2>1, <2>2, OldOrNew
<1> QED
  BY <1>3, <1>4

\* While no request fails and nobody archives a Channel, the cursor passes no message that
\* was missed: whatever is lost, resumed or opened anew, and however the transport ends, a
\* message older than the cursor was received, or its sender told, or nothing looked for
\* it, or this catch-up is still to read it.
THEOREM CursorSkipsNothing == Spec => []NothingSkipped
<1>1. Init => PlaceInv /\ SkipInv
  BY PlaceInit DEF SkipInv, CursorOfChannel, Init, Fresh
<1>2. PlaceInv /\ SkipInv /\ [Next]_vars => PlaceInv' /\ SkipInv'
  BY TypeStep, PlaceStep, SkipNext DEF PlaceInv
<1>3. PlaceInv /\ SkipInv => NothingSkipped
  <2> SUFFICES ASSUME PlaceInv, SkipInv, faults = 0, NEW m \in Sent, m <= client.cursor, ~sent[m].during, ~Settled(m)
               PROVE  at = "scan" /\ (sent[m].from \in scan.todo \/ m = call.message)
    BY DEF NothingSkipped
  <2>1. at = "scan" /\ InScan(m)
    BY DEF SkipInv, Accounted, Known, Tracked, CursorBefore, Sought
  <2> QED
    BY <2>1 DEF InScan, PlaceInv, ScanInv
<1> QED
  BY <1>1, <1>2, <1>3, PTL DEF Spec
=============================================================================
