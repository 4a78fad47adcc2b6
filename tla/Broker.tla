------------------------------- MODULE Broker -------------------------------
(***************************************************************************)
(* The broker of the suite (crates/slate-broker/src/server.rs): one thread *)
(* with a single-threaded tokio runtime, an accept loop, one `serve` task  *)
(* per named-pipe connection, a registry of running applications and a     *)
(* broadcast ring of EventBuffer slots.                                    *)
(*                                                                         *)
(* A step is what the runtime executes between two awaits: `handle` never  *)
(* awaits, so a request is applied in one step; `write_frame` does, so the *)
(* frame a task still has to write is state (writing), and other tasks run *)
(* before it is written.  The other end of a lawful pipe is a BrokerClient *)
(* (crates/slate-ipc/src/client.rs) as the broker sees it: at most one     *)
(* request outstanding, reading only while it waits for a reply or after   *)
(* into_event_stream, in a process that may die at any moment.  Any other  *)
(* peer sends requests in any order and without waiting, and reads at will.*)
(***************************************************************************)
EXTENDS Naturals, Sequences, FiniteSets

CONSTANTS
  Conn,          \* connections, each the only one of its process (its pid)
  App,           \* application ids
  Topic,         \* topics
  Lifecycle,     \* the topic slate/lifecycle
  AppOf,         \* AppOf[c] is the application that opens connection c
  Current,       \* connections whose client speaks PROTOCOL_VERSION
  Lawful,        \* connections opened and used through BrokerClient
  Attentive,     \* connections whose client reads whenever it may
  Piecemeal,     \* connections whose requests the broker may get in pieces
  NoApp,         \* Option::<AppId>::None
  Host,          \* the publisher of BrokerHandle::publish, no connection
  EventBuffer,   \* EVENT_BUFFER, the slots of the broadcast ring
  PipeFrames,    \* frames one pipe buffer holds before a write must wait
  Asked,         \* bound: the operations clients ask for in this instance
  News,          \* bound: the events published in this instance
  MaxRequests,   \* bound: MaxRequests[c] requests are sent on connection c
  MaxHostEvents, \* bound: events published by the host application
  AcceptMayFail  \* whether connect or create_pipe may report an error

(* Event in protocol.rs: the two the broker announces, and every other.     *)
Event == [kind : {"started", "stopped"}, app : App] \cup [kind : {"other"}]

(* The operations of Request in protocol.rs; "bad" is a frame the broker    *)
(* cannot decode or that exceeds MAX_FRAME_BYTES, and "scrap" what is left  *)
(* of a torn frame when it is too short even for the length of one.         *)
Op == {"hello", "subscribe", "unsubscribe", "publish", "listApps", "ping", "bad", "scrap"}

ASSUME BrokerAssumption ==
  /\ Lifecycle \in Topic
  /\ AppOf \in [Conn -> App]
  /\ Current \subseteq Conn /\ Lawful \subseteq Conn /\ Attentive \subseteq Conn
  /\ Piecemeal \subseteq Conn
  /\ NoApp \notin App
  /\ Host \notin Conn
  /\ {"down", "free", "stopped"} \cap Conn = {}
  /\ EventBuffer \in Nat \ {0} /\ PipeFrames \in Nat \ {0}
  /\ Asked \subseteq Op \ {"scrap"} /\ News \subseteq Event
  /\ MaxRequests \in [Conn -> Nat] /\ MaxHostEvents \in Nat
  /\ AcceptMayFail \in BOOLEAN

VARIABLES
  listener,  \* "down", "free", the connection that took the instance, "stopped"
  registry,  \* registry[a][c]: entries of application a with the pid of c
  log,       \* every event sent to the ring, oldest first
  task,      \* task[c]: what became of the serve task of c
  cursor,    \* cursor[c]: index in log of the next event of c's receiver
  writing,   \* writing[c]: the frame the task of c is writing, if any
  identity,  \* identity[c]: the application c introduced itself as
  subs,      \* subs[c]: the topics c is subscribed to
  inbox,     \* inbox[c]: the request c has sent and the broker not yet read
  out,       \* out[c]: frames written to the pipe and not yet read by c
  client,    \* client[c]: what the client of c is doing
  sent       \* sent[c]: requests c has sent so far

shared == <<registry, log>>
taskVars == <<task, cursor, writing>>
session == <<identity, subs>>
pipe == <<inbox, out>>
clientVars == <<client, sent>>
vars == <<listener, shared, taskVars, session, pipe, clientVars>>

Request ==
  [op : {"hello"}, app : App, compatible : BOOLEAN]
    \cup [op : {"subscribe", "unsubscribe"}, topic : Topic]
    \cup [op : {"publish"}, topic : Topic, event : Event]
    \cup [op : {"listApps", "ping", "bad", "scrap"}]

(* Response in protocol.rs.  A reply carries the request it answers and an  *)
(* event its index in log, so that properties can tell them apart.          *)
ReplyKind == {"welcome", "ok", "apps", "protocolMismatch", "notIdentified"}
Frame == [kind : {"event"}, seq : Nat] \cup [kind : ReplyKind, to : Request]
NewestFrame(i) == [kind |-> "event", seq |-> Len(log)]  \* mutant of EventFrame
EventFrame(i) == [kind |-> "event", seq |-> i]

(* Broadcast in server.rs.  Nothing in it tells an announcement of the      *)
(* broker from an event somebody published; by, whose doing it was, and     *)
(* published are history.                                                   *)
Broadcast ==
  [topic : Topic, event : Event, origin : App \cup {NoApp},
   by : Conn \cup {Host}, published : BOOLEAN]
Started(a, c) ==
  [topic |-> Lifecycle, event |-> [kind |-> "started", app |-> a], origin |-> a,
   by |-> c, published |-> FALSE]
Stopped(a, c) ==
  [topic |-> Lifecycle, event |-> [kind |-> "stopped", app |-> a], origin |-> NoApp,
   by |-> c, published |-> FALSE]
Published(t, e, a, p) ==
  [topic |-> t, event |-> e, origin |-> a, by |-> p, published |-> TRUE]

TypeOK ==
  /\ listener \in {"down", "free", "stopped"} \cup Conn
  /\ registry \in [App -> [Conn -> Nat]]
  /\ log \in Seq(Broadcast)
  /\ task \in [Conn -> {"none", "spawned", "serving", "ended", "failed", "cancelled"}]
  /\ cursor \in [Conn -> Nat]
  /\ writing \in [Conn -> SUBSET Frame]
  /\ identity \in [Conn -> App \cup {NoApp}]
  /\ subs \in [Conn -> SUBSET Topic]
  /\ inbox \in [Conn -> SUBSET Request]
  /\ out \in [Conn -> Seq(Frame)]
  /\ client \in [Conn -> {"absent", "refused", "fresh", "waiting", "ready", "streaming", "gone"}]
  /\ sent \in [Conn -> Nat]

Init ==
  /\ listener = "down"
  /\ registry = [a \in App |-> [c \in Conn |-> 0]] /\ log = <<>>
  /\ task = [c \in Conn |-> "none"] /\ client = [c \in Conn |-> "absent"]
  /\ cursor = [c \in Conn |-> 0] /\ sent = [c \in Conn |-> 0]
  /\ identity = [c \in Conn |-> NoApp] /\ subs = [c \in Conn |-> {}]
  /\ writing = [c \in Conn |-> {}] /\ inbox = [c \in Conn |-> {}]
  /\ out = [c \in Conn |-> <<>>]

-----------------------------------------------------------------------------
(* The accept loop. *)

(* spawn: the first pipe instance exists before spawn returns.  A second    *)
(* broker of the same root is refused while one is up.                      *)
Spawn ==
  /\ listener = "down"
  /\ listener' = "free"
  /\ UNCHANGED <<shared, taskVars, session, pipe, clientVars>>

(* listener.connect() returned and create_pipe made the next instance.      *)
Accept(c) ==
  /\ listener = c
  /\ listener' = "free"
  /\ task' = [task EXCEPT ![c] = "spawned"]
  /\ UNCHANGED <<shared, cursor, writing, session, pipe, clientVars>>

(* connect or create_pipe reported an error: accept_loop returns, block_on  *)
(* with it, and the runtime drops every serve task where it is suspended.   *)
(* Nothing touches the registry, which the BrokerHandle keeps showing.      *)
AcceptFails ==
  /\ AcceptMayFail
  /\ listener \in {"free"} \cup Conn
  /\ listener' = "stopped"
  /\ task' = [c \in Conn |->
       IF task[c] \in {"spawned", "serving"} \/ listener = c THEN "cancelled" ELSE task[c]]
  /\ writing' = [c \in Conn |-> {}]
  /\ UNCHANGED <<shared, cursor, session, pipe, clientVars>>

-----------------------------------------------------------------------------
(* The serve task of one connection. *)

(* First poll of serve: events.subscribe() starts at the tail of the ring.  *)
Start(c) ==
  /\ task[c] = "spawned"
  /\ task' = [task EXCEPT ![c] = "serving"]
  /\ cursor' = [cursor EXCEPT ![c] = Len(log) + 1]
  /\ UNCHANGED <<listener, shared, writing, session, pipe, clientVars>>

(* The task waits in select!: it is not in the middle of a write.           *)
PollsWhileWriting(c) == task[c] = "serving"  \* mutant: the write is not awaited
ServesOneByOne(c) ==                         \* mutant: one task for all pipes
  task[c] = "serving" /\ \A d \in Conn : writing[d] = {}
Selecting(c) == task[c] = "serving" /\ writing[c] = {}

(* Takes request r off the pipe and starts to write the reply of kind k.    *)
Answer(c, r, k) ==
  /\ Selecting(c)
  /\ inbox' = [inbox EXCEPT ![c] = {}]
  /\ writing' = [writing EXCEPT ![c] = {[kind |-> k, to |-> r]}]
  /\ UNCHANGED <<listener, task, cursor, out, clientVars>>

(* The task has had a Hello it accepted. *)
AlwaysIntroduced(c) == TRUE  \* mutant: no test before publishing and cleanup
Introduced(c) == identity[c] # NoApp

(* registry.push of the application and pid of c. *)
PushedOnce(a, c) ==  \* mutant: one entry per application
  IF \E d \in Conn : registry[a][d] > 0 THEN registry ELSE [registry EXCEPT ![a][c] = 1]
Pushed(a, c) == [registry EXCEPT ![a][c] = @ + 1]

(* registry.retain(|entry| entry.app != app) for the identity of c.         *)
RetainedAll(c) == registry                                  \* mutant: no cleanup
RetainedOthers(c) == [registry EXCEPT ![identity[c]][c] = 0]  \* mutant: by pid
Retained(c) == [registry EXCEPT ![identity[c]] = [d \in Conn |-> 0]]

HelloRefused(c) == \E r \in inbox[c] :
  /\ r.op = "hello" /\ ~r.compatible
  /\ Answer(c, r, "protocolMismatch")
  /\ UNCHANGED <<shared, session>>

Hello(c) == \E r \in inbox[c] :
  /\ r.op = "hello" /\ r.compatible
  /\ Answer(c, r, "welcome")
  /\ registry' = Pushed(r.app, c)
  /\ log' = Append(log, Started(r.app, c))
  /\ identity' = [identity EXCEPT ![c] = r.app]
  /\ UNCHANGED subs

Subscribe(c) == \E r \in inbox[c] :
  /\ r.op = "subscribe"
  /\ Answer(c, r, "ok")
  /\ subs' = [subs EXCEPT ![c] = @ \cup {r.topic}]
  /\ UNCHANGED <<shared, identity>>

Unsubscribe(c) == \E r \in inbox[c] :
  /\ r.op = "unsubscribe"
  /\ Answer(c, r, "ok")
  /\ subs' = [subs EXCEPT ![c] = @ \ {r.topic}]
  /\ UNCHANGED <<shared, identity>>

PublishRefused(c) == \E r \in inbox[c] :
  /\ r.op = "publish" /\ ~Introduced(c)
  /\ Answer(c, r, "notIdentified")
  /\ UNCHANGED <<shared, session>>

Publish(c) == \E r \in inbox[c] :
  /\ r.op = "publish" /\ Introduced(c)
  /\ Answer(c, r, "ok")
  /\ log' = Append(log, Published(r.topic, r.event, identity[c], c))
  /\ UNCHANGED <<registry, session>>

ListApps(c) == \E r \in inbox[c] :
  /\ r.op = "listApps"
  /\ Answer(c, r, "apps")
  /\ UNCHANGED <<shared, session>>

Ping(c) == \E r \in inbox[c] :
  /\ r.op = "ping"
  /\ Answer(c, r, "ok")
  /\ UNCHANGED <<shared, session>>

(* The oldest index the ring still holds. *)
OldestOffByOne == IF Len(log) >= EventBuffer THEN Len(log) - EventBuffer + 2 ELSE 1  \* mutant
Oldest == IF Len(log) > EventBuffer THEN Len(log) - EventBuffer + 1 ELSE 1

(* c is subscribed now, whenever e was sent, and e bears another identity.  *)
WantsOwnToo(c, e) == e.topic \in subs[c]        \* mutant: origin ignored
WantsAll(c, e) == e.origin # identity[c]       \* mutant: subscriptions ignored
Wants(c, e) == e.topic \in subs[c] /\ e.origin # identity[c]

(* The other branch of select! completed first, and read_frame is dropped.  *)
(* If it had read a part of the request, that part is lost, and what is left*)
(* in the pipe will be taken for a frame that it is not (module Connection),*)
(* unless it is shorter than the length of a frame.                         *)
Scrap == [op |-> "scrap"]
Bad == [op |-> "bad"]
ReadAbandoned(c) ==
  \/ inbox' = inbox
  \/ /\ c \in Piecemeal /\ inbox[c] \notin {{}, {Scrap}}
     /\ \E left \in {Bad, Scrap} : inbox' = [inbox EXCEPT ![c] = {left}]

(* receiver.recv() returned an event: written if c wants it, else passed.   *)
Deliver(c) ==
  /\ Selecting(c)
  /\ cursor[c] \in Oldest .. Len(log)
  /\ cursor' = [cursor EXCEPT ![c] = @ + 1]
  /\ writing' = [writing EXCEPT ![c] =
       IF Wants(c, log[cursor[c]]) THEN {EventFrame(cursor[c])} ELSE {}]
  /\ ReadAbandoned(c)
  /\ UNCHANGED <<listener, shared, task, session, out, clientVars>>

(* receiver.recv() returned Lagged: the receiver resumes at the oldest.     *)
Lag(c) ==
  /\ Selecting(c)
  /\ cursor[c] < Oldest
  /\ cursor' = [cursor EXCEPT ![c] = Oldest]
  /\ ReadAbandoned(c)
  /\ UNCHANGED <<listener, shared, task, writing, session, out, clientVars>>

(* write_frame completes once the pipe has room.                            *)
WriteFrame(c) ==
  /\ task[c] = "serving" /\ client[c] # "gone"
  /\ Len(out[c]) < PipeFrames
  /\ \E f \in writing[c] : out' = [out EXCEPT ![c] = Append(@, f)]
  /\ writing' = [writing EXCEPT ![c] = {}]
  /\ UNCHANGED <<listener, shared, task, cursor, session, inbox, clientVars>>

(* write_frame(..).await? returns the error: serve leaves past its cleanup. *)
WriteFails(c) ==
  /\ task[c] = "serving" /\ client[c] = "gone"
  /\ writing[c] # {}
  /\ task' = [task EXCEPT ![c] = "failed"]
  /\ writing' = [writing EXCEPT ![c] = {}]
  /\ UNCHANGED <<listener, shared, cursor, session, pipe, clientVars>>

(* incoming? returns the error of an undecodable frame, or of the rest of an*)
(* abandoned one: the same exit.                                            *)
BadFrame(c) == \E r \in inbox[c] :
  /\ r.op = "bad"
  /\ Selecting(c)
  /\ inbox' = [inbox EXCEPT ![c] = {}]
  /\ task' = [task EXCEPT ![c] = "failed"]
  /\ UNCHANGED <<listener, shared, cursor, writing, session, out, clientVars>>

(* read_frame returned None, having met the end of the pipe before or in the*)
(* length of a frame: the loop ends and the cleanup runs.                   *)
HangUp(c) ==
  /\ Selecting(c)
  /\ client[c] = "gone" /\ inbox[c] \subseteq {Scrap}
  /\ task' = [task EXCEPT ![c] = "ended"]
  /\ IF Introduced(c)
       THEN registry' = Retained(c) /\ log' = Append(log, Stopped(identity[c], c))
       ELSE UNCHANGED shared
  /\ UNCHANGED <<listener, cursor, writing, session, pipe, clientVars>>

(* BrokerHandle::publish, called on a thread of the host application.       *)
HostPublish(t, e) ==
  /\ listener # "down" /\ e \in News
  /\ Cardinality({i \in DOMAIN log : log[i].by = Host}) < MaxHostEvents
  /\ log' = Append(log, Published(t, e, NoApp, Host))
  /\ UNCHANGED <<listener, registry, taskVars, session, pipe, clientVars>>

-----------------------------------------------------------------------------
(* The client of one connection. *)

ClientUp(c) == client[c] \in {"fresh", "waiting", "ready", "streaming"}

(* OpenOptions::open takes the listening instance.                          *)
Open(c) ==
  /\ client[c] = "absent"
  /\ listener = "free"
  /\ listener' = c
  /\ client' = [client EXCEPT ![c] = "fresh"]
  /\ UNCHANGED <<shared, taskVars, session, pipe, sent>>

(* Any error of open, a busy pipe included, becomes NotListening, and       *)
(* try_connect gives up on the broker.                                      *)
OpenRefused(c) ==
  /\ client[c] = "absent"
  /\ listener # "free"
  /\ client' = [client EXCEPT ![c] = "refused"]
  /\ UNCHANGED <<listener, shared, taskVars, session, pipe, sent>>

(* What BrokerClient lets its caller send: Hello as the first request, by   *)
(* connect, and only then; never a frame the broker cannot decode.          *)
MaySend(c, r) ==
  c \in Lawful =>
    IF client[c] = "fresh"
      THEN r = [op |-> "hello", app |-> AppOf[c], compatible |-> c \in Current]
      ELSE r.op \notin {"hello", "bad"}

(* A BrokerClient waits for the reply before its next request; another peer *)
(* does not, and inbox is then the next of its requests in the pipe.        *)
MayGoOn(c) ==
  client[c] \in IF c \in Lawful THEN {"fresh", "ready"} ELSE {"fresh", "ready", "waiting"}

(* What is sent behind a scrap is torn by it, unless the scrap was read.    *)
Arrives(c, r) == IF inbox[c] = {} THEN {r} ELSE {r, Bad}

Send(c, r) ==
  /\ MayGoOn(c) /\ inbox[c] \subseteq {Scrap}
  /\ task[c] \in {"none", "spawned", "serving"}
  /\ MaySend(c, r)
  /\ r.op \in Asked /\ sent[c] < MaxRequests[c]
  /\ r.op = "publish" => r.event \in News
  /\ \E s \in Arrives(c, r) : inbox' = [inbox EXCEPT ![c] = {s}]
  /\ client' = [client EXCEPT ![c] = "waiting"]
  /\ sent' = [sent EXCEPT ![c] = @ + 1]
  /\ UNCHANGED <<listener, shared, taskVars, session, out>>

(* An event read while waiting is buffered; a reply ends the wait.  connect *)
(* drops the client when the reply to Hello is an error.                    *)
Read(c) ==
  /\ client[c] \in IF c \in Lawful THEN {"waiting", "streaming"}
                   ELSE {"waiting", "ready", "streaming"}
  /\ out[c] # <<>>
  /\ out' = [out EXCEPT ![c] = Tail(@)]
  /\ client' = [client EXCEPT ![c] =
       IF Head(out[c]).kind = "event" THEN @
       ELSE IF Head(out[c]).kind = "protocolMismatch" /\ c \in Lawful THEN "gone"
       ELSE "ready"]
  /\ UNCHANGED <<listener, shared, taskVars, session, inbox, sent>>

(* into_event_stream: from now on the client only reads.                    *)
Stream(c) ==
  /\ client[c] = "ready"
  /\ client' = [client EXCEPT ![c] = "streaming"]
  /\ UNCHANGED <<listener, shared, taskVars, session, pipe, sent>>

(* The process of c exits or dies, whatever it was doing.                   *)
Exit(c) ==
  /\ ClientUp(c)
  /\ client' = [client EXCEPT ![c] = "gone"]
  /\ out' = [out EXCEPT ![c] = <<>>]
  /\ UNCHANGED <<listener, shared, taskVars, session, inbox, sent>>

(* The broker closed its end and everything it wrote has been read.         *)
Disconnected(c) ==
  /\ ClientUp(c)
  /\ task[c] \in {"failed", "cancelled"}
  /\ out[c] = <<>>
  /\ client' = [client EXCEPT ![c] = "gone"]
  /\ UNCHANGED <<listener, shared, taskVars, session, pipe, sent>>

-----------------------------------------------------------------------------
Handle(c) ==
  \/ HelloRefused(c) \/ Hello(c) \/ Subscribe(c) \/ Unsubscribe(c)
  \/ PublishRefused(c) \/ Publish(c) \/ ListApps(c) \/ Ping(c)

(* One poll of the serve task of c that gets somewhere. *)
Serve(c) ==
  \/ Start(c) \/ Handle(c) \/ BadFrame(c) \/ HangUp(c)
  \/ Deliver(c) \/ Lag(c) \/ WriteFrame(c) \/ WriteFails(c)

Client(c) ==
  \/ Open(c) \/ OpenRefused(c) \/ Read(c) \/ Stream(c) \/ Exit(c) \/ Disconnected(c)
  \/ \E r \in Request : Send(c, r)

Next ==
  \/ Spawn \/ AcceptFails
  \/ \E t \in Topic, e \in Event : HostPublish(t, e)
  \/ \E c \in Conn : Accept(c) \/ Serve(c) \/ Client(c)

Spec == Init /\ [][Next]_vars

(* The runtime polls every task that can go on, the accept loop included.   *)
(* Nothing obliges a client to send, exit or turn into a stream; an         *)
(* attentive one is blocked in a read whenever it waits for something, and  *)
(* the read returns when a frame arrives or the pipe is closed.             *)
Fairness ==
  /\ \A c \in Conn : WF_vars(Accept(c)) /\ WF_vars(Serve(c))
  /\ \A c \in Attentive : WF_vars(Read(c)) /\ WF_vars(Disconnected(c))

FairSpec == Spec /\ Fairness

-----------------------------------------------------------------------------
(* Properties. *)

(* The event frames of c on their way: in the pipe, then being written.     *)
InFlight(c) ==
  {out[c][i] : i \in DOMAIN out[c]} \cup writing[c]

(* The events that tell who follows slate/lifecycle something about a.      *)
Concerns(e, a) == e.topic = Lifecycle /\ e.event.kind # "other" /\ e.event.app = a
About(a) == {i \in DOMAIN log : Concerns(log[i], a)}
Latest(a) == {i \in About(a) : \A j \in About(a) : j <= i}

(* Whoever follows slate/lifecycle and whoever asks ListApps see the same   *)
(* applications: the last event about one is AppStarted exactly when it has *)
(* a registry entry, through every exit path, crash of a client, second     *)
(* window of the same application and end of the accept loop.  The topic is *)
(* open to publications, and one of AppStarted or AppStopped looks like the *)
(* broker's own: the agreement is lost to it, and to nothing else, until    *)
(* the broker next announces the application.                               *)
LifecycleAgreesWithRegistry ==
  \A a \in App :
    \/ \E i \in Latest(a) : log[i].published
    \/ (\E c \in Conn : registry[a][c] > 0)
         <=> \E i \in Latest(a) : log[i].event.kind = "started"

(* A connection served under an identity that the registry does not list    *)
(* has lost its entry to the clean exit of another window of the same       *)
(* application, and to nothing else.                                        *)
MissingOnlyAfterSiblingStopped ==
  \A c \in Conn :
    /\ task[c] = "serving" /\ identity[c] # NoApp
    /\ registry[identity[c]][c] = 0
    => \E d \in Conn \ {c} : task[d] = "ended" /\ identity[d] = identity[c]

(* A registry entry of a BrokerClient belongs to a connection still served  *)
(* under that identity, or to one whose task never ran its cleanup: no other*)
(* order of handshakes, publications and exits leaves an entry behind.      *)
StaleOnlyAfterAbort ==
  \A a \in App, c \in Lawful :
    registry[a][c] > 0 =>
      /\ registry[a][c] = 1
      /\ identity[c] = a
      /\ task[c] \in {"serving", "failed", "cancelled"}

(* A BrokerClient is never sent an event it published itself, its own       *)
(* AppStarted included ("so it does not receive its own event back").       *)
NoEcho ==
  \A c \in Lawful : \A f \in InFlight(c) :
    f.kind = "event" => log[f.seq].by # c

(* Events reach a client in the order they were published and at most once, *)
(* whatever it lost to the ring and however long its pipe was full.         *)
InOrderAtMostOnce ==
  \A c \in Conn :
    /\ \A i, j \in DOMAIN out[c] :
         i < j /\ out[c][i].kind = "event" /\ out[c][j].kind = "event"
           => out[c][i].seq < out[c][j].seq
    /\ \A f \in InFlight(c) : f.kind = "event" => f.seq < cursor[c]
    /\ \A f \in writing[c], i \in DOMAIN out[c] :
         f.kind = "event" /\ out[c][i].kind = "event" => out[c][i].seq < f.seq

IsUnsubscribeReply(f, t) ==
  f.kind = "ok" /\ f.to.op = "unsubscribe" /\ f.to.topic = t

(* Once the reply to Unsubscribe is read, no event of the topic follows: an *)
(* event of a topic c no longer has is in the pipe before that reply.       *)
UnsubscribeIsFinal ==
  \A c \in Conn : task[c] = "serving" =>
    /\ \A f \in writing[c] : f.kind = "event" => log[f.seq].topic \in subs[c]
    /\ \A i \in DOMAIN out[c] :
         out[c][i].kind = "event" /\ log[out[c][i].seq].topic \notin subs[c] =>
           \/ \E j \in i + 1 .. Len(out[c]) :
                IsUnsubscribeReply(out[c][j], log[out[c][i].seq].topic)
           \/ \E f \in writing[c] : IsUnsubscribeReply(f, log[out[c][i].seq].topic)

(* The replies on their way to c. *)
RepliesWritten(c) == {i \in DOMAIN out[c] : out[c][i].kind # "event"}
RepliesPending(c) == {f \in writing[c] : f.kind # "event"}

(* A BrokerClient waits exactly when its one request, or the one reply to   *)
(* it, is under way, unless the broker has dropped the connection: no reply *)
(* is lost, repeated or sent unasked, and events never take its place.      *)
OneReplyPerRequest ==
  \A c \in Lawful : ClientUp(c) /\ task[c] \in {"none", "spawned", "serving"} =>
    Cardinality(inbox[c]) + Cardinality(RepliesPending(c)) + Cardinality(RepliesWritten(c))
      = (IF client[c] = "waiting" THEN 1 ELSE 0)

(* An event that leaves the sight of a subscribed receiver unwritten was    *)
(* published under its own identity or is older than the newest EventBuffer.*)
LossOnlyByLag ==
  [][\A c \in Conn : task[c] = "serving" =>
       \A i \in cursor[c] .. cursor'[c] - 1 :
         \/ EventFrame(i) \in writing'[c]
         \/ ~Wants(c, log[i])
         \/ i <= Len(log) - EventBuffer]_vars

(* What a client of the bus sees of the broker. *)
Running == {a \in App : \E c \in Conn : registry[a][c] > 0}
Served == {c \in Conn : task[c] = "serving"}
Gone == {c \in Conn : client[c] = "gone"}
Underway(c) == {f.seq : f \in {g \in InFlight(c) : g.kind = "event"}}

(* The broker implements TopicBus.  Through interleaved tasks, full pipes,   *)
(* lag, dying clients and the end of the accept loop, a subscriber is sent   *)
(* the events it wants in their order, what is sent to it is lost only with  *)
(* its connection, and the registry changes in the step that announces it.   *)
Bus == INSTANCE TopicBus WITH
  events <- log, running <- Running, names <- identity, topics <- subs,
  served <- Served, gone <- Gone, next <- cursor, mail <- [c \in Conn |-> Underway(c)]
ImplementsTopicBus == Bus!Spec

(* A request gets its reply, or its client learns that the connection is    *)
(* gone, even when the other clients never read.                            *)
EveryRequestAnswered ==
  \A c \in Attentive : client[c] = "waiting" ~> client[c] # "waiting"

(* One stuck window does not freeze the suite (EVENT_BUFFER): a client that *)
(* reads its stream catches up with the ring, whatever the others do.       *)
StuckClientFreezesNobody ==
  \A c \in Attentive :
    task[c] = "serving" /\ client[c] = "streaming"
      ~> client[c] = "gone" \/ (cursor[c] > Len(log) /\ InFlight(c) = {})

(* The broker notices when a client disappears: its task comes to an end.   *)
ExitNoticed ==
  \A c \in Conn : client[c] = "gone" ~> task[c] \in {"ended", "failed", "cancelled"}

(* "One entry per live connection" (Response::Apps): what is listed is live.*)
ListedIsLive ==
  \A a \in App, c \in Conn : registry[a][c] > 0 => task[c] = "serving"
=============================================================================
