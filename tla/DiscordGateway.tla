---------------------------- MODULE DiscordGateway ----------------------------
(***************************************************************************)
(* The Discord transport (crates/paw-transport/src/discord): how direct    *)
(* messages reach the Channel entity through a gateway connection that is  *)
(* lost, resumed or opened anew, and how messages sent meanwhile are       *)
(* caught up with over REST.  The transport is one task: what it does to a *)
(* frame it has done before it looks at the next one, but people go on     *)
(* writing, and Discord goes on queueing, between any two of its calls.    *)
(*                                                                         *)
(* A message is its id, and ids grow as Discord's do.  Every message is a  *)
(* text of a person to the bot; typing, attachments, slash commands and    *)
(* guild channels are left out, and so is the connection's heartbeat,      *)
(* whose failure is one way of losing the connection.                      *)
(***************************************************************************)
EXTENDS Naturals, Sequences, FiniteSets, FiniteSetsExt

CONSTANTS
    People,          \* those who write to the bot, each in one DM channel
    PageSize,        \* messages per request of the catch-up: 100 in the code
    MessageLimit,    \* bound on the messages
    TroubleLimit,    \* bound on drops, crashes and faults together
    Nobody

ASSUME GatewayBounds ==
    /\ PageSize \in Nat \ {0}
    /\ MessageLimit \in Nat /\ TroubleLimit \in Nat
ASSUME GatewayPeople == Nobody \notin People

VARIABLES
    sent,            \* the messages: who, and whether during a catch-up
    remote,          \* Discord's side of the gateway session
    at,              \* where the transport's task is
    client,          \* its memory
    scan,            \* its catch-up in progress
    call,            \* its ReceiveMessage in progress
    channels,        \* the Channel entities
    heard,           \* how often ReceiveMessage was accepted for a message
    told,            \* messages whose sender was told of an error
    overlooked,      \* messages that a catch-up did not look for
    owed,            \* messages the transport has all it needs to find, see Write
    drops,           \* connections lost
    crashes,         \* ends of the transport's task
    faults           \* requests that failed, Channels archived by hand

network == <<sent, remote>>
history == <<told, overlooked, owed>>
bounds  == <<drops, crashes, faults>>
vars    == <<network, at, client, scan, call, channels, heard, history, bounds>>

-----------------------------------------------------------------------------
Message == 1..MessageLimit
Sent == 1..Len(sent)
Writers == {sent[m].from : m \in Sent}
Newer(a, b) == IF a > b THEN a ELSE b

\* GatewayState, last_message_cursor, dm_channels and channel_entity_id; 0 is no
\* cursor, and no Channel.
Fresh == [session |-> FALSE, sequence |-> 0, cursor |-> 0, dms |-> {}, channel |-> 0]
NoScan == [base |-> 0, todo |-> {}, who |-> Nobody, after |-> 0, page |-> {}, full |-> FALSE, caught |-> FALSE]
NoCall == [message |-> 0, at |-> "none"]
Idle == call = NoCall
Channel == channels[client.channel]
\* Mutant: the fresh Channel is configured and never connected.
NewChannelUnconnected == [status |-> "Created", cursor |-> 0, count |-> 0]

NewChannel == [status |-> "Connecting", cursor |-> 0, count |-> 0]

MoreTrouble == drops + crashes + faults < TroubleLimit
Faulty == MoreTrouble /\ faults' = faults + 1

Init ==
    /\ sent = <<>> /\ remote = [alive |-> FALSE, log |-> <<>>]
    /\ at = "stopped" /\ client = Fresh /\ scan = NoScan /\ call = NoCall
    /\ channels = <<>> /\ heard = [m \in Message |-> 0]
    /\ told = {} /\ overlooked = {} /\ owed = {}
    /\ drops = 0 /\ crashes = 0 /\ faults = 0

(***************************************************************************)
(* bootstrap_channel: the Channel with most messages is reused, others are *)
(* archived, which a Channel that is still Connecting refuses.             *)
(***************************************************************************)
Reusable == {k \in DOMAIN channels : channels[k].status = "Connected"}
Best(k) == k \in Reusable /\ \A j \in Reusable : channels[j].count <= channels[k].count

\* The cursor of the best Channel, else of one that was best before it.
Cursors(k, memory) ==
    IF channels[k].cursor # 0 THEN {channels[k].cursor}
    ELSE {memory.cursor} \cup ({channels[j].cursor : j \in Reusable} \ {0})

\* The DM of the Channel's last message or reply is opened again, if Discord lets it.
HeardFrom == {sent[m].from : m \in {n \in Sent : heard[n] > 0}}
Seeds(k) == {{}} \cup (IF channels[k].count = 0 THEN {} ELSE {{p} : p \in HeardFrom})

Bootstrap(memory) ==
    \/ \E k \in Reusable :
        /\ Best(k)
        /\ channels' = [j \in DOMAIN channels |->
                IF j \in Reusable \ {k} THEN [channels[j] EXCEPT !.status = "Archived"] ELSE channels[j]]
        /\ \E c \in Cursors(k, memory), seed \in Seeds(k) :
            client' = [memory EXCEPT !.cursor = c, !.dms = @ \cup seed, !.channel = k]
    \/ /\ Reusable = {}
       /\ channels' = Append(channels, NewChannel)
       /\ client' = [memory EXCEPT !.channel = Len(channels) + 1]

Start ==
    /\ at = "stopped" /\ at' = "opening" /\ Bootstrap(Fresh)
    /\ UNCHANGED <<network, scan, call, heard, history, bounds>>

(***************************************************************************)
(* connect_and_run: Resume if there is a session, else Identify.           *)
(***************************************************************************)
\* Discord goes on after the last frame the transport took.
Resumed ==
    /\ at = "opening" /\ Idle /\ client.session /\ remote.alive /\ at' = "up"
    /\ UNCHANGED <<network, client, scan, call, channels, heard, history, bounds>>

InvalidSession ==
    /\ at = "opening" /\ Idle /\ client.session /\ ~remote.alive
    /\ client' = [client EXCEPT !.session = FALSE] /\ at' = "flush"
    /\ UNCHANGED <<network, scan, call, channels, heard, history, bounds>>

Identify ==
    /\ at = "opening" /\ Idle /\ ~client.session
    /\ remote' = [alive |-> TRUE, log |-> <<>>] /\ at' = "ready"
    /\ UNCHANGED <<sent, client, scan, call, channels, heard, history, bounds>>

\* handle_ready, and the start of catch_up_missed_dms: no cursor or no Channel, no catch-up.
Ready ==
    /\ at = "ready" /\ client' = [client EXCEPT !.session = TRUE, !.sequence = 0]
    /\ IF client.cursor = 0 \/ client.channel = 0
       THEN /\ at' = "up" /\ UNCHANGED scan
            /\ overlooked' = overlooked \cup {m \in Sent : heard[m] = 0}
       ELSE /\ at' = "list" /\ scan' = [NoScan EXCEPT !.base = client.cursor] /\ UNCHANGED overlooked
    /\ UNCHANGED <<network, call, channels, heard, told, owed, bounds>>

\* catch_up_dm_sources: Discord lists the bot's DM channels or, as in production, none.
Sources(listed) == listed \cup client.dms
ListFrom(listed, sources) ==
    /\ at = "list" /\ listed \in {{}, Writers}
    /\ scan' = [scan EXCEPT !.todo = sources] /\ at' = "scan"
    /\ overlooked' = overlooked \cup {m \in Sent : sent[m].from \notin sources /\ heard[m] = 0}
    /\ UNCHANGED <<network, client, call, channels, heard, told, owed, bounds>>
\* Mutant: the DMs the transport knows are left to Discord's list.
ListDmsOfDiscord(listed) == ListFrom(listed, listed)
ListDms(listed) == ListFrom(listed, Sources(listed))

(***************************************************************************)
(* The catch-up, thread by thread and page by page.  A request that fails  *)
(* is taken for a thread without messages.                                 *)
(***************************************************************************)
Missed(p, after) == {m \in Sent : sent[m].from = p /\ m > after}
IsFull(page) == Cardinality(page) = PageSize
\* The oldest of them, a page at most: all of them, or a page that is full.
Pages(S) ==
    {page \in SUBSET S :
        /\ \A m \in page, k \in S \ page : m < k
        /\ Cardinality(page) <= PageSize /\ (page # S => IsFull(page))}
NextThread(p) == [scan EXCEPT !.todo = @ \ {p}, !.who = Nobody, !.after = 0, !.page = {}, !.full = FALSE]

\* Mutant: a thread is read from where the catch-up of the last one has put the cursor.
AfterCursor == IF scan.who = Nobody THEN client.cursor ELSE scan.after
\* Mutant: a page begins with the message it should begin after.
AfterInclusive == (IF scan.who = Nobody THEN scan.base ELSE scan.after) - 1
\* Every thread from the cursor as it was at READY, page after page.
After == IF scan.who = Nobody THEN scan.base ELSE scan.after

FetchPage(p) ==
    /\ at = "scan" /\ Idle /\ p \in scan.todo /\ scan.page = {} /\ scan.who \in {Nobody, p}
    /\ \/ Missed(p, After) = {} /\ scan' = NextThread(p) /\ UNCHANGED faults
       \/ /\ \E page \in Pages(Missed(p, After)) \ {{}} :
                scan' = [scan EXCEPT !.who = p, !.page = page, !.after = Max(page), !.full = IsFull(page)]
          /\ UNCHANGED faults
       \/ Faulty /\ scan' = NextThread(p)
    /\ UNCHANGED <<network, at, client, call, channels, heard, history, drops, crashes>>

\* The oldest message left of the page, or the end of a page that was not full.
Replay ==
    LET m == Min(scan.page)
    IN  /\ at = "scan" /\ Idle /\ scan.page # {}
        /\ call' = [message |-> m, at |-> "post"]
        /\ scan' = IF scan.page = {m} /\ ~scan.full THEN NextThread(scan.who)
                   ELSE [scan EXCEPT !.page = @ \ {m}]
        /\ client' = [client EXCEPT !.dms = @ \cup {sent[m].from}]
        /\ UNCHANGED <<network, at, channels, heard, history, bounds>>

EndScan ==
    /\ at = "scan" /\ Idle /\ scan.todo = {}
    /\ at' = (IF scan.caught THEN "flushScan" ELSE "up") /\ scan' = NoScan
    /\ UNCHANGED <<network, client, call, channels, heard, history, bounds>>

\* handle_payload and handle_message_create: the sequence is stored first.
MessageCreate ==
    LET m == remote.log[client.sequence + 1]
    IN  /\ at = "up" /\ Idle /\ client.sequence < Len(remote.log)
        /\ client' = [client EXCEPT !.sequence = @ + 1, !.dms = @ \cup {sent[m].from}]
        /\ call' = [message |-> m, at |-> "post"]
        /\ UNCHANGED <<network, at, scan, channels, heard, history, bounds>>

(***************************************************************************)
(* dispatch_receive_message_with_recovery: an archived Channel is replaced *)
(* and the message posted once more, whatever became of the new Channel.   *)
(* If the replacement fails, there is no Channel until the next start.     *)
(***************************************************************************)
Accepts ==
    LET m == call.message
    IN  /\ Channel.status = "Connected" /\ heard' = [heard EXCEPT ![m] = @ + 1]
        /\ channels' = [channels EXCEPT ![client.channel].count = @ + 1]

\* Only of a live message is the sender told; a catch-up goes on without it.
Fails ==
    told' = (IF at = "up" THEN told \cup {call.message} ELSE told) /\ call' = NoCall

Succeeds ==
    /\ client' = [client EXCEPT !.cursor = Newer(call.message, @)]
    /\ scan' = (IF at = "scan" THEN [scan EXCEPT !.caught = TRUE] ELSE scan)
    /\ call' = NoCall /\ UNCHANGED told

ReceiveMessage ==
    /\ call.at \in {"post", "retry"} /\ client.channel # 0
    /\ \/ Accepts /\ Succeeds /\ UNCHANGED faults
       \/ Faulty /\ Fails /\ UNCHANGED <<client, scan>> /\ (Accepts \/ UNCHANGED <<heard, channels>>)
       \/ /\ Channel.status = "Archived" /\ call.at = "post" /\ call' = [call EXCEPT !.at = "recover"]
          /\ UNCHANGED <<client, scan, channels, heard, told, faults>>
       \/ /\ Channel.status = "Connecting" \/ (Channel.status = "Archived" /\ call.at = "retry")
          /\ Fails /\ UNCHANGED <<client, scan, channels, heard, faults>>
    /\ UNCHANGED <<network, at, overlooked, owed, drops, crashes>>

NoChannel ==
    /\ call.at = "post" /\ client.channel = 0 /\ Fails
    /\ UNCHANGED <<network, at, client, scan, channels, heard, overlooked, owed, bounds>>

\* recover_archived_channel_binding; for a cursor that could not be stored, nothing follows.
Recover ==
    /\ call.at = "recover" /\ Bootstrap(client)
    /\ call' = IF call.message = 0 THEN NoCall ELSE [call EXCEPT !.at = "retry"]
    /\ UNCHANGED <<network, at, scan, heard, history, bounds>>

RecoverFails ==
    /\ call.at = "recover" /\ Faulty /\ client' = [client EXCEPT !.channel = 0]
    /\ IF call.message = 0 THEN call' = NoCall /\ UNCHANGED told ELSE Fails
    /\ UNCHANGED <<network, at, scan, channels, heard, overlooked, owed, drops, crashes>>

\* flush_cursor: before each new connection, and after a catch-up that found something.
Stores == client.cursor # 0 /\ client.channel # 0
FlushCursor ==
    /\ at \in {"flush", "flushScan"} /\ Idle
    /\ at' = IF at = "flush" THEN "opening" ELSE "up"
    /\ \/ /\ channels' = IF ~Stores \/ Channel.status # "Connected" THEN channels
                         ELSE [channels EXCEPT ![client.channel].cursor = client.cursor]
          /\ call' = IF Stores /\ Channel.status = "Archived"
                     THEN [call EXCEPT !.at = "recover"] ELSE NoCall
          /\ UNCHANGED faults
       \/ Faulty /\ Stores /\ UNCHANGED <<channels, call>>
    /\ UNCHANGED <<network, client, scan, heard, history, drops, crashes>>

(***************************************************************************)
(* What is not the transport's: people, Discord, replies and crashes.      *)
(***************************************************************************)
\* A message is owed if the transport knows its DM and has a cursor when it is
\* written, and no catch-up runs.
CatchingUp == at \in {"ready", "list", "scan"}
Owes(p) == p \in client.dms /\ client.cursor # 0 /\ ~CatchingUp
Write(p) ==
    /\ Len(sent) < MessageLimit
    /\ sent' = Append(sent, [from |-> p, during |-> CatchingUp])
    /\ remote' = IF remote.alive THEN [remote EXCEPT !.log = Append(@, Len(sent) + 1)] ELSE remote
    /\ owed' = IF Owes(p) THEN owed \cup {Len(sent) + 1} ELSE owed
    /\ UNCHANGED <<at, client, scan, call, channels, heard, told, overlooked, bounds>>

\* A lost connection, a reconnect Discord asks for, a session it ends.
Disconnect ==
    /\ at \in {"opening", "ready", "up"} /\ Idle /\ at' = "flush" /\ MoreTrouble /\ drops' = drops + 1
    /\ \/ UNCHANGED client
       \/ at = "up" /\ client' = [client EXCEPT !.session = FALSE]
    /\ UNCHANGED <<network, scan, call, channels, heard, history, crashes, faults>>

SessionExpires ==
    /\ remote.alive /\ at \in {"flush", "opening"} /\ remote' = [alive |-> FALSE, log |-> <<>>]
    /\ UNCHANGED <<sent, at, client, scan, call, channels, heard, history, bounds>>

\* channel_connect
ChannelReady(k) ==
    /\ channels[k].status = "Connecting" /\ channels' = [channels EXCEPT ![k].status = "Connected"]
    /\ UNCHANGED <<network, at, client, scan, call, heard, history, bounds>>

Archive(k) ==
    /\ channels[k].status = "Connected" /\ Faulty
    /\ channels' = [channels EXCEPT ![k].status = "Archived"]
    /\ UNCHANGED <<network, at, client, scan, call, heard, history, drops, crashes>>

\* A reply to a thread whose DM the transport does not know opens it.
Reply(p) ==
    /\ at # "stopped" /\ p \in HeardFrom \ client.dms
    /\ client' = [client EXCEPT !.dms = @ \cup {p}]
    /\ UNCHANGED <<network, at, scan, call, channels, heard, history, bounds>>

\* The server goes down, or the transport is stopped or reconfigured.
Crash ==
    /\ at # "stopped" /\ MoreTrouble /\ crashes' = crashes + 1
    /\ at' = "stopped" /\ client' = Fresh /\ scan' = NoScan /\ call' = NoCall
    /\ remote' = [alive |-> FALSE, log |-> <<>>]
    /\ owed' = {}
    /\ UNCHANGED <<sent, channels, heard, told, overlooked, drops, faults>>

-----------------------------------------------------------------------------
TransportStep ==
    \/ Start \/ Ready \/ \E listed \in SUBSET People : ListDms(listed)
    \/ \E p \in People : FetchPage(p)
    \/ Replay \/ EndScan \/ MessageCreate \/ ReceiveMessage \/ NoChannel \/ Recover \/ RecoverFails \/ FlushCursor

DiscordStep == Resumed \/ InvalidSession \/ Identify

Next ==
    \/ TransportStep \/ DiscordStep
    \/ \E p \in People : Write(p) \/ Reply(p)
    \/ Disconnect \/ SessionExpires \/ Crash
    \/ \E k \in DOMAIN channels : ChannelReady(k) \/ Archive(k)

Spec == Init /\ [][Next]_vars

\* The event loop reconnects for ever, the transport manager starts it again, and
\* Discord answers.
FairSpec == Spec /\ WF_vars(TransportStep) /\ WF_vars(DiscordStep)

-----------------------------------------------------------------------------
TypeOK ==
    /\ sent \in Seq([from : People, during : BOOLEAN]) /\ Len(sent) <= MessageLimit
    /\ remote \in [alive : BOOLEAN, log : Seq(Sent)]
    /\ at \in {"stopped", "opening", "ready", "list", "scan", "flushScan", "up", "flush"}
    /\ client \in [session : BOOLEAN, sequence : Nat, cursor : {0} \cup Sent,
                   dms : SUBSET People, channel : 0..Len(channels)]
    /\ scan \in [base : {0} \cup Sent, todo : SUBSET People, who : People \cup {Nobody},
                 after : {0} \cup Sent, page : SUBSET Sent, full : BOOLEAN, caught : BOOLEAN]
    /\ call \in {NoCall, [message |-> 0, at |-> "recover"]}
             \cup [message : Sent, at : {"post", "recover", "retry"}]
    /\ channels \in Seq([status : {"Connecting", "Connected", "Archived"},
                         cursor : {0} \cup Sent, count : Nat])
    /\ heard \in [Message -> Nat] /\ told \subseteq Sent /\ overlooked \subseteq Sent /\ owed \subseteq Sent
    /\ drops \in Nat /\ crashes \in Nat /\ faults \in Nat

Settled(m) == heard[m] > 0 \/ m \in told \cup overlooked

\* The cursor passes no message that was missed: where no request fails, a message older
\* than the cursor was received, or its sender told, or it is being posted or still ahead in
\* this catch-up.  Left out are messages of threads no catch-up looked at, and those written
\* during one: one thread's catch-up may pass another's message before the gateway delivers it.
NothingSkipped ==
    faults = 0 => \A m \in Sent :
        m <= client.cursor /\ ~sent[m].during =>
            Settled(m) \/ (at = "scan" /\ (sent[m].from \in scan.todo \/ m = call.message))

\* A message is received once; once more if the gateway delivers what a catch-up has just
\* fetched, if the answer to the first time was lost, or after each end of the transport:
\* the cursor that is kept is the one of the last reconnect.
HeardOnce ==
    \A m \in Sent :
        heard[m] <= 1 + crashes + faults + (IF sent[m].during THEN 1 ELSE 0)

\* A message that is owed is received in the end, or its sender told, however often the
\* connection is lost and sessions expire: by a resumed session, a new one or a catch-up,
\* whether or not Discord lists the DM.  Left out are a task that ends and requests that
\* fail.  Messages that are not owed may be lost.
MessagesArrive ==
    \A m \in Message : m \in owed ~> (heard[m] > 0 \/ m \in told \/ m \notin owed \/ faults > 0)
=============================================================================
