---------------------------- MODULE BrokerProofs ----------------------------
(***************************************************************************)
(* What TLAPS proves of the broker for every set of connections, every     *)
(* ring and pipe size and every bound.                                     *)
(***************************************************************************)
EXTENDS Broker, FiniteSetTheorems, TLAPS

(* The oldest index of the ring is an index.                                *)
LEMMA OldestType ==
  ASSUME log \in Seq(Broadcast)
  PROVE  Oldest \in Nat
<1>1. Len(log) \in Nat
  OBVIOUS
<1>2. EventBuffer \in Nat
  BY BrokerAssumption
<1>. QED
  BY <1>1, <1>2 DEF Oldest

(* A Hello names an application, a subscription or publication a topic, and *)
(* a publication an event.                                                  *)
LEMMA RequestType ==
  ASSUME NEW r \in Request
  PROVE  /\ r.op = "hello" => r.app \in App
         /\ r.op \in {"subscribe", "unsubscribe", "publish"} => r.topic \in Topic
         /\ r.op = "publish" => r.event \in Event
BY DEF Request

(* Taking a request off the pipe and starting its reply keeps the types of  *)
(* the inboxes and of the frames being written.                             *)
LEMMA AnswerType ==
  ASSUME TypeOK, NEW c \in Conn, NEW r \in inbox[c], NEW k \in ReplyKind, Answer(c, r, k)
  PROVE  inbox' \in [Conn -> SUBSET Request] /\ writing' \in [Conn -> SUBSET Frame]
<1>1. [kind |-> k, to |-> r] \in Frame
  BY DEF Frame, TypeOK
<1>. QED
  BY <1>1 DEF Answer, TypeOK

(* An abandoned read leaves every inbox as it was, or makes the request of  *)
(* its connection undecodable.                                              *)
LEMMA AbandonedType ==
  ASSUME TypeOK, NEW c \in Conn, ReadAbandoned(c)
  PROVE  /\ inbox' \in [Conn -> SUBSET Request]
         /\ \A d \in Conn : inbox[d] = {} => inbox'[d] = {}
         /\ \A d \in Conn : \A r \in inbox'[d] : r \in inbox[d] \/ r.op \in {"bad", "scrap"}
<1>1. Bad \in Request /\ Scrap \in Request
  <2>1. /\ Bad \in [op : {"listApps", "ping", "bad", "scrap"}]
        /\ Scrap \in [op : {"listApps", "ping", "bad", "scrap"}]
    BY DEF Bad, Scrap
  <2>. QED
    BY <2>1 DEF Request
<1>2. inbox \in [Conn -> SUBSET Request]
  BY DEF TypeOK
<1>3. CASE inbox' = inbox
  BY <1>2, <1>3
<1>4. CASE inbox' # inbox
  <2>1. PICK left \in {Bad, Scrap} : inbox' = [inbox EXCEPT ![c] = {left}] /\ inbox[c] # {}
    BY <1>4 DEF ReadAbandoned
  <2>2. left \in Request /\ left.op \in {"bad", "scrap"}
    BY <1>1, <2>1 DEF Bad, Scrap
  <2>. QED
    BY <1>2, <2>1, <2>2
<1>. QED
  BY <1>3, <1>4

(* Every variable keeps its type through every step of the broker, of its   *)
(* tasks and of its clients.                                                *)
THEOREM TypeCorrect == Spec => []TypeOK
<1>1. Init => TypeOK
  BY BrokerAssumption DEF Init, TypeOK
<1>2. TypeOK /\ [Next]_vars => TypeOK'
  <2> SUFFICES ASSUME TypeOK, [Next]_vars PROVE TypeOK'
    OBVIOUS
  <2>. USE DEF TypeOK, shared, taskVars, session, pipe, clientVars
  <2>1. CASE Spawn
    BY <2>1 DEF Spawn
  <2>2. CASE AcceptFails
    BY <2>2 DEF AcceptFails
  <2>3. ASSUME NEW t \in Topic, NEW n \in Event, HostPublish(t, n)
        PROVE  TypeOK'
    <3>1. Published(t, n, NoApp, Host) \in Broadcast
      BY DEF Published, Broadcast
    <3>. QED
      BY <2>3, <3>1 DEF HostPublish
  <2>4. ASSUME NEW c \in Conn, Accept(c)
        PROVE  TypeOK'
    BY <2>4 DEF Accept
  <2>5. ASSUME NEW c \in Conn, Start(c)
        PROVE  TypeOK'
    BY <2>5 DEF Start
  <2>6. ASSUME NEW c \in Conn, HelloRefused(c) \/ PublishRefused(c) \/ ListApps(c) \/ Ping(c)
        PROVE  TypeOK'
    <3>1. PICK r \in inbox[c], k \in ReplyKind : Answer(c, r, k) /\ UNCHANGED <<shared, session>>
      BY <2>6 DEF HelloRefused, PublishRefused, ListApps, Ping, ReplyKind
    <3>2. inbox' \in [Conn -> SUBSET Request] /\ writing' \in [Conn -> SUBSET Frame]
      BY <3>1, AnswerType
    <3>. QED
      BY <3>1, <3>2 DEF Answer
  <2>7. ASSUME NEW c \in Conn, Hello(c)
        PROVE  TypeOK'
    <3>1. PICK r \in inbox[c] :
            /\ r.op = "hello"
            /\ Answer(c, r, "welcome")
            /\ registry' = Pushed(r.app, c)
            /\ log' = Append(log, Started(r.app, c))
            /\ identity' = [identity EXCEPT ![c] = r.app]
            /\ UNCHANGED subs
      BY <2>7 DEF Hello
    <3>2. r.app \in App
      BY <3>1, RequestType
    <3>3. Started(r.app, c) \in Broadcast
      BY <3>2, BrokerAssumption DEF Started, Broadcast, Event
    <3>4. registry' \in [App -> [Conn -> Nat]]
      BY <3>1, <3>2 DEF Pushed
    <3>5. inbox' \in [Conn -> SUBSET Request] /\ writing' \in [Conn -> SUBSET Frame]
      BY <3>1, AnswerType DEF ReplyKind
    <3>. QED
      BY <3>1, <3>2, <3>3, <3>4, <3>5 DEF Answer
  <2>8. ASSUME NEW c \in Conn, Subscribe(c) \/ Unsubscribe(c)
        PROVE  TypeOK'
    <3>1. PICK r \in inbox[c] :
            /\ r.op \in {"subscribe", "unsubscribe"}
            /\ Answer(c, r, "ok")
            /\ \/ subs' = [subs EXCEPT ![c] = @ \cup {r.topic}]
               \/ subs' = [subs EXCEPT ![c] = @ \ {r.topic}]
            /\ UNCHANGED <<shared, identity>>
      BY <2>8 DEF Subscribe, Unsubscribe
    <3>2. r.topic \in Topic
      BY <3>1, RequestType
    <3>3. inbox' \in [Conn -> SUBSET Request] /\ writing' \in [Conn -> SUBSET Frame]
      BY <3>1, AnswerType DEF ReplyKind
    <3>4. subs[c] \cup {r.topic} \in SUBSET Topic /\ subs[c] \ {r.topic} \in SUBSET Topic
      BY <3>2
    <3>5. subs' \in [Conn -> SUBSET Topic]
      BY <3>1, <3>4
    <3>. QED
      BY <3>1, <3>3, <3>5 DEF Answer
  <2>9. ASSUME NEW c \in Conn, Publish(c)
        PROVE  TypeOK'
    <3>1. PICK r \in inbox[c] :
            /\ r.op = "publish"
            /\ Answer(c, r, "ok")
            /\ log' = Append(log, Published(r.topic, r.event, identity[c], c))
            /\ UNCHANGED <<registry, session>>
      BY <2>9 DEF Publish
    <3>2. Published(r.topic, r.event, identity[c], c) \in Broadcast
      BY <3>1, RequestType DEF Published, Broadcast
    <3>3. inbox' \in [Conn -> SUBSET Request] /\ writing' \in [Conn -> SUBSET Frame]
      BY <3>1, AnswerType DEF ReplyKind
    <3>. QED
      BY <3>1, <3>2, <3>3 DEF Answer
  <2>10. ASSUME NEW c \in Conn, Deliver(c)
         PROVE  TypeOK'
    <3>1. EventFrame(cursor[c]) \in Frame
      BY DEF EventFrame, Frame
    <3>2. inbox' \in [Conn -> SUBSET Request]
      BY <2>10, AbandonedType DEF Deliver
    <3>3. cursor' \in [Conn -> Nat] /\ writing' \in [Conn -> SUBSET Frame]
      BY <2>10, <3>1 DEF Deliver
    <3>4. UNCHANGED <<listener, shared, task, session, out, clientVars>>
      BY <2>10 DEF Deliver
    <3>. QED
      BY <3>2, <3>3, <3>4
  <2>11. ASSUME NEW c \in Conn, Lag(c)
         PROVE  TypeOK'
    <3>1. inbox' \in [Conn -> SUBSET Request]
      BY <2>11, AbandonedType DEF Lag
    <3>. QED
      BY <2>11, <3>1, OldestType DEF Lag
  <2>12. ASSUME NEW c \in Conn, WriteFrame(c)
         PROVE  TypeOK'
    BY <2>12 DEF WriteFrame
  <2>13. ASSUME NEW c \in Conn, WriteFails(c) \/ BadFrame(c)
         PROVE  TypeOK'
    BY <2>13 DEF WriteFails, BadFrame
  <2>14. ASSUME NEW c \in Conn, HangUp(c)
         PROVE  TypeOK'
    <3>1. CASE Introduced(c)
      <4>1. identity[c] \in App
        BY <3>1 DEF Introduced
      <4>2. Stopped(identity[c], c) \in Broadcast
        BY <4>1, BrokerAssumption DEF Stopped, Broadcast, Event
      <4>3. Retained(c) \in [App -> [Conn -> Nat]]
        BY <4>1 DEF Retained
      <4>4. registry' = Retained(c) /\ log' = Append(log, Stopped(identity[c], c))
        BY <2>14, <3>1 DEF HangUp
      <4>5. log' \in Seq(Broadcast)
        BY <4>2, <4>4
      <4>. QED
        BY <2>14, <4>3, <4>4, <4>5 DEF HangUp
    <3>2. CASE ~Introduced(c)
      BY <2>14, <3>2 DEF HangUp
    <3>. QED
      BY <3>1, <3>2
  <2>15. ASSUME NEW c \in Conn, Open(c) \/ OpenRefused(c) \/ Stream(c) \/ Exit(c) \/ Disconnected(c)
         PROVE  TypeOK'
    <3>1. CASE Open(c)
      BY <3>1 DEF Open
    <3>2. CASE OpenRefused(c) \/ Stream(c) \/ Disconnected(c)
      BY <3>2 DEF OpenRefused, Stream, Disconnected
    <3>3. CASE Exit(c)
      <4>1. out' \in [Conn -> Seq(Frame)]
        BY <3>3 DEF Exit
      <4>. QED
        BY <3>3, <4>1 DEF Exit
    <3>. QED
      BY <2>15, <3>1, <3>2, <3>3
  <2>16. ASSUME NEW c \in Conn, NEW r \in Request, Send(c, r)
         PROVE  TypeOK'
    <3>1. PICK s \in {r, Bad} : inbox' = [inbox EXCEPT ![c] = {s}]
      BY <2>16 DEF Send, Arrives
    <3>2. s \in Request
      <4>1. Bad \in [op : {"listApps", "ping", "bad", "scrap"}]
        BY DEF Bad
      <4>. QED
        BY <4>1 DEF Request
    <3>3. inbox' \in [Conn -> SUBSET Request]
      BY <3>1, <3>2
    <3>. QED
      BY <2>16, <3>3 DEF Send
  <2>17. ASSUME NEW c \in Conn, Read(c)
         PROVE  TypeOK'
    <3>1. Tail(out[c]) \in Seq(Frame)
      BY <2>17 DEF Read
    <3>. QED
      BY <2>17, <3>1 DEF Read
  <2>18. CASE UNCHANGED vars
    BY <2>18 DEF vars
  <2>. QED
    BY <2>1, <2>2, <2>3, <2>4, <2>5, <2>6, <2>7, <2>8, <2>9, <2>10, <2>11, <2>12, <2>13, <2>14,
       <2>15, <2>16, <2>17, <2>18 DEF Next, Serve, Handle, Client
<1>. QED
  BY <1>1, <1>2, PTL DEF Spec

-----------------------------------------------------------------------------
(* How far each connection has come.  A connection that has not been        *)
(* accepted or polled has no identity, a client that has not sent anything  *)
(* neither, and a BrokerClient has at most one Hello, its first request,    *)
(* under way.  Without these facts Accept could revive a connection that    *)
(* ended and Hello could re-introduce one.                                  *)
Progress ==
  \A c \in Conn :
    /\ listener = c => task[c] = "none"
    /\ client[c] = "absent" => task[c] = "none" /\ listener # c
    /\ task[c] \in {"none", "spawned"} => identity[c] = NoApp
    /\ client[c] \in {"absent", "refused", "fresh"} => identity[c] = NoApp /\ inbox[c] = {}
    /\ c \in Lawful => \A r \in inbox[c] : r.op = "hello" => identity[c] = NoApp

LEMMA ProgressStep == TypeOK /\ Progress /\ [Next]_vars => Progress'
<1> SUFFICES ASSUME TypeOK, Progress, [Next]_vars PROVE Progress'
  OBVIOUS
<1>. USE BrokerAssumption DEF Progress, TypeOK, shared, taskVars, session, pipe, clientVars
<1>1. CASE Spawn
  BY <1>1 DEF Spawn
<1>2. CASE AcceptFails
  BY <1>2 DEF AcceptFails
<1>3. ASSUME NEW t \in Topic, NEW n \in Event, HostPublish(t, n)
      PROVE  Progress'
  BY <1>3 DEF HostPublish
<1>4. ASSUME NEW c \in Conn, Accept(c)
      PROVE  Progress'
  BY <1>4 DEF Accept
<1>5. ASSUME NEW c \in Conn, Start(c) \/ Deliver(c) \/ Lag(c) \/ WriteFrame(c) \/ WriteFails(c)
      PROVE  Progress'
  <2>. USE DEF Selecting
  <2>1. CASE Start(c)
    BY <2>1 DEF Start
  <2>2. CASE Deliver(c) \/ Lag(c)
    <3>1. ReadAbandoned(c) /\ UNCHANGED <<listener, task, identity, client>>
      BY <2>2 DEF Deliver, Lag
    <3>2. /\ \A d \in Conn : inbox[d] = {} => inbox'[d] = {}
          /\ \A d \in Conn : \A r \in inbox'[d] : r \in inbox[d] \/ r.op \in {"bad", "scrap"}
      BY <3>1, AbandonedType
    <3>3. /\ listener' = listener /\ task' = task
          /\ identity' = identity /\ client' = client
      BY <3>1
    <3>4. \A d \in Conn : \A r \in inbox'[d] : r.op = "hello" => r \in inbox[d]
      BY <3>2
    <3>. QED
      BY <3>2, <3>3, <3>4
  <2>3. CASE WriteFrame(c)
    BY <2>3 DEF WriteFrame
  <2>4. CASE WriteFails(c)
    BY <2>4 DEF WriteFails
  <2>. QED
    BY <1>5, <2>1, <2>2, <2>3, <2>4
<1>6. ASSUME NEW c \in Conn, Handle(c) \/ BadFrame(c)
      PROVE  Progress'
  <2>1. /\ task[c] = "serving"
        /\ inbox[c] # {}
        /\ inbox' = [inbox EXCEPT ![c] = {}]
        /\ task' = task \/ task' = [task EXCEPT ![c] = "failed"]
        /\ identity' = identity \/ \E a : identity' = [identity EXCEPT ![c] = a]
        /\ UNCHANGED <<listener, client>>
    BY <1>6 DEF Handle, BadFrame, Selecting, Answer, HelloRefused, Hello, Subscribe, Unsubscribe,
                PublishRefused, Publish, ListApps, Ping
  <2>. QED
    BY <2>1
<1>7. ASSUME NEW c \in Conn, HangUp(c)
      PROVE  Progress'
  BY <1>7 DEF HangUp, Selecting
<1>8. ASSUME NEW c \in Conn, Open(c)
      PROVE  Progress'
  BY <1>8 DEF Open
<1>9. ASSUME NEW c \in Conn, OpenRefused(c) \/ Stream(c) \/ Exit(c) \/ Disconnected(c)
      PROVE  Progress'
  BY <1>9 DEF OpenRefused, Stream, Exit, Disconnected, ClientUp
<1>10. ASSUME NEW c \in Conn, NEW r \in Request, Send(c, r)
       PROVE  Progress'
  BY <1>10 DEF Send, MaySend, MayGoOn, Arrives, Bad, Scrap
<1>11. ASSUME NEW c \in Conn, Read(c)
       PROVE  Progress'
  BY <1>11 DEF Read
<1>12. CASE UNCHANGED vars
  BY <1>12 DEF vars
<1>. QED
  BY <1>1, <1>2, <1>3, <1>4, <1>5, <1>6, <1>7, <1>8, <1>9, <1>10, <1>11, <1>12
     DEF Next, Serve, Client

LEMMA ProgressInvariant == Spec => []Progress
<1>1. Init => Progress
  BY BrokerAssumption DEF Init, Progress
<1>. QED
  BY <1>1, ProgressStep, TypeCorrect, PTL DEF Spec

-----------------------------------------------------------------------------
(* What the steps that touch neither the registry nor an identity do to the *)
(* tasks: nothing of what the two theorems below speak of.                  *)
LEMMA QuietStep ==
  ASSUME TypeOK, Progress, [Next]_vars,
         \A c \in Conn : ~Hello(c) /\ ~HangUp(c)
  PROVE  /\ registry' = registry /\ identity' = identity
         /\ \A d \in Conn :
              \/ task'[d] = task[d]
              \/ task[d] \in {"none", "spawned"} /\ identity[d] = NoApp
              \/ task[d] = "serving" /\ task'[d] \in {"failed", "cancelled"}
<1>. USE BrokerAssumption DEF Progress, TypeOK, shared, taskVars, session, pipe, clientVars
<1>1. CASE Spawn \/ UNCHANGED vars
  BY <1>1 DEF Spawn, vars
<1>2. CASE AcceptFails
  BY <1>2 DEF AcceptFails
<1>3. CASE \E t \in Topic, n \in Event : HostPublish(t, n)
  BY <1>3 DEF HostPublish
<1>4. ASSUME NEW c \in Conn, Accept(c) \/ Serve(c) \/ Client(c)
      PROVE  /\ registry' = registry /\ identity' = identity
             /\ \A d \in Conn :
                  \/ task'[d] = task[d]
                  \/ task[d] \in {"none", "spawned"} /\ identity[d] = NoApp
                  \/ task[d] = "serving" /\ task'[d] \in {"failed", "cancelled"}
  <2>1. CASE Accept(c) \/ Start(c)
    BY <2>1 DEF Accept, Start
  <2>2. CASE Handle(c)
    BY <2>2 DEF Handle, HelloRefused, Subscribe, Unsubscribe, PublishRefused, Publish, ListApps,
                Ping, Answer
  <2>3. CASE BadFrame(c) \/ WriteFails(c)
    BY <2>3 DEF BadFrame, WriteFails, Selecting
  <2>4. CASE Deliver(c) \/ Lag(c) \/ WriteFrame(c)
    BY <2>4 DEF Deliver, Lag, WriteFrame
  <2>5. CASE Client(c)
    BY <2>5 DEF Client, Open, OpenRefused, Read, Stream, Exit, Disconnected, Send
  <2>. QED
    BY <1>4, <2>1, <2>2, <2>3, <2>4, <2>5 DEF Serve
<1>. QED
  BY <1>1, <1>2, <1>3, <1>4 DEF Next

(* What Hello and HangUp do to what the theorems speak of.                  *)
LEMMA HelloStep ==
  ASSUME TypeOK, NEW c \in Conn, Hello(c)
  PROVE  \E r \in inbox[c] :
           /\ r.op = "hello" /\ r.app \in App
           /\ \A a \in App, d \in Conn :
                registry'[a][d] = IF a = r.app /\ d = c THEN registry[a][d] + 1 ELSE registry[a][d]
           /\ \A d \in Conn : identity'[d] = IF d = c THEN r.app ELSE identity[d]
           /\ task' = task /\ task[c] = "serving"
<1>1. PICK r \in inbox[c] :
        /\ r.op = "hello"
        /\ Answer(c, r, "welcome")
        /\ registry' = Pushed(r.app, c)
        /\ identity' = [identity EXCEPT ![c] = r.app]
  BY DEF Hello
<1>2. r.app \in App
  BY <1>1, RequestType DEF TypeOK
<1>3. task' = task /\ task[c] = "serving"
  BY <1>1 DEF Answer, Selecting
<1>4. registry \in [App -> [Conn -> Nat]] /\ identity \in [Conn -> App \cup {NoApp}]
  BY DEF TypeOK
<1>5. \A a \in App, d \in Conn :
        registry'[a][d] = IF a = r.app /\ d = c THEN registry[a][d] + 1 ELSE registry[a][d]
  BY <1>1, <1>2, <1>4 DEF Pushed
<1>6. \A d \in Conn : identity'[d] = IF d = c THEN r.app ELSE identity[d]
  BY <1>1, <1>4
<1>. QED
  BY <1>1, <1>2, <1>3, <1>5, <1>6

LEMMA HangUpStep ==
  ASSUME TypeOK, NEW c \in Conn, HangUp(c)
  PROVE  /\ task[c] = "serving"
         /\ \A d \in Conn : task'[d] = IF d = c THEN "ended" ELSE task[d]
         /\ identity' = identity
         /\ \A a \in App, d \in Conn :
              registry'[a][d] = IF a = identity[c] THEN 0 ELSE registry[a][d]
<1>1. registry \in [App -> [Conn -> Nat]] /\ identity[c] \in App \cup {NoApp}
  BY DEF TypeOK
<1>2. task[c] = "serving" /\ identity' = identity
  BY DEF HangUp, Selecting, session
<1>3. \A d \in Conn : task'[d] = IF d = c THEN "ended" ELSE task[d]
  BY DEF HangUp, TypeOK
<1>4. \A a \in App, d \in Conn :
        registry'[a][d] = IF a = identity[c] THEN 0 ELSE registry[a][d]
  <2>1. CASE Introduced(c)
    <3>1. registry' = [registry EXCEPT ![identity[c]] = [d \in Conn |-> 0]]
      BY <2>1 DEF HangUp, Retained
    <3>. QED
      BY <3>1, <1>1, <2>1 DEF Introduced
  <2>2. CASE ~Introduced(c)
    <3>1. registry' = registry
      BY <2>2 DEF HangUp, shared
    <3>. QED
      BY <3>1, <2>2, BrokerAssumption DEF Introduced
  <2>. QED
    BY <2>1, <2>2
<1>. QED
  BY <1>2, <1>3, <1>4

(* A served connection whose identity the registry does not list lost its   *)
(* entry to the clean exit of another window of the same application.       *)
THEOREM EntriesLostOnlyToSiblings == Spec => []MissingOnlyAfterSiblingStopped
<1>1. Init => MissingOnlyAfterSiblingStopped
  BY DEF Init, MissingOnlyAfterSiblingStopped
<1>2. TypeOK /\ Progress /\ MissingOnlyAfterSiblingStopped /\ [Next]_vars
        => MissingOnlyAfterSiblingStopped'
  <2> SUFFICES ASSUME TypeOK, Progress, MissingOnlyAfterSiblingStopped, [Next]_vars,
                      NEW c \in Conn, task'[c] = "serving", identity'[c] # NoApp,
                      registry'[identity'[c]][c] = 0
               PROVE  \E d \in Conn \ {c} : task'[d] = "ended" /\ identity'[d] = identity'[c]
    BY DEF MissingOnlyAfterSiblingStopped
  <2>1. identity[c] \in App \cup {NoApp}
    BY DEF TypeOK
  <2>2. task[c] = "serving" /\ identity[c] # NoApp /\ registry[identity[c]][c] = 0
          => \E d \in Conn \ {c} : task[d] = "ended" /\ identity[d] = identity[c]
    BY DEF MissingOnlyAfterSiblingStopped
  <2>3. CASE \A d \in Conn : ~Hello(d) /\ ~HangUp(d)
    <3>1. registry' = registry /\ identity' = identity
      BY <2>3, QuietStep
    <3>2. task[c] = "serving"
      BY <2>3, <3>1, QuietStep
    <3>3. PICK d \in Conn \ {c} : task[d] = "ended" /\ identity[d] = identity[c]
      BY <2>2, <3>1, <3>2
    <3>4. task'[d] = "ended"
      BY <2>3, <3>3, QuietStep
    <3>. QED
      BY <3>1, <3>3, <3>4
  <2>4. ASSUME NEW e \in Conn, Hello(e)
        PROVE  \E d \in Conn \ {c} : task'[d] = "ended" /\ identity'[d] = identity'[c]
    <3>1. PICK r \in inbox[e] :
            /\ r.app \in App
            /\ \A a \in App, d \in Conn :
                 registry'[a][d] = IF a = r.app /\ d = e THEN registry[a][d] + 1 ELSE registry[a][d]
            /\ \A d \in Conn : identity'[d] = IF d = e THEN r.app ELSE identity[d]
            /\ task' = task /\ task[e] = "serving"
      BY <2>4, HelloStep
    <3>2. \A a \in App : registry[a][c] \in Nat
      BY DEF TypeOK
    <3>3. c # e
      BY <3>1, <3>2
    <3>4. identity'[c] = identity[c] /\ registry'[identity[c]][c] = registry[identity[c]][c]
      BY <2>1, <3>1, <3>3
    <3>5. PICK d \in Conn \ {c} : task[d] = "ended" /\ identity[d] = identity[c]
      BY <2>2, <3>1, <3>4
    <3>. QED
      BY <3>1, <3>4, <3>5
  <2>5. ASSUME NEW e \in Conn, HangUp(e)
        PROVE  \E d \in Conn \ {c} : task'[d] = "ended" /\ identity'[d] = identity'[c]
    <3>1. /\ \A d \in Conn : task'[d] = IF d = e THEN "ended" ELSE task[d]
          /\ identity' = identity
          /\ \A a \in App, d \in Conn :
               registry'[a][d] = IF a = identity[e] THEN 0 ELSE registry[a][d]
      BY <2>5, HangUpStep
    <3>2. c # e
      BY <3>1
    <3>3. CASE identity[e] = identity[c]
      BY <3>1, <3>2, <3>3
    <3>4. CASE identity[e] # identity[c]
      <4>1. registry[identity[c]][c] = 0
        BY <2>1, <3>1, <3>4
      <4>2. PICK d \in Conn \ {c} : task[d] = "ended" /\ identity[d] = identity[c]
        BY <2>2, <3>1, <3>2, <4>1
      <4>. QED
        BY <3>1, <4>2
    <3>. QED
      BY <3>3, <3>4
  <2>. QED
    BY <2>3, <2>4, <2>5
<1>. QED
  BY <1>1, <1>2, TypeCorrect, ProgressInvariant, PTL DEF Spec

(* The entry of a BrokerClient outlives its connection only if the serve    *)
(* task left without its cleanup.                                           *)
THEOREM StaleEntriesAreAborts == Spec => []StaleOnlyAfterAbort
<1>1. Init => StaleOnlyAfterAbort
  BY BrokerAssumption DEF Init, StaleOnlyAfterAbort
<1>2. TypeOK /\ Progress /\ StaleOnlyAfterAbort /\ [Next]_vars => StaleOnlyAfterAbort'
  <2> SUFFICES ASSUME TypeOK, Progress, StaleOnlyAfterAbort, [Next]_vars,
                      NEW a \in App, NEW c \in Lawful, registry'[a][c] > 0
               PROVE  /\ registry'[a][c] = 1 /\ identity'[c] = a
                      /\ task'[c] \in {"serving", "failed", "cancelled"}
    BY DEF StaleOnlyAfterAbort
  <2>1. c \in Conn /\ a # NoApp
    BY BrokerAssumption
  <2>2. registry[a][c] > 0 => /\ registry[a][c] = 1 /\ identity[c] = a
                              /\ task[c] \in {"serving", "failed", "cancelled"}
    BY DEF StaleOnlyAfterAbort
  <2>3. CASE \A d \in Conn : ~Hello(d) /\ ~HangUp(d)
    <3>1. registry' = registry /\ identity' = identity
      BY <2>3, QuietStep
    <3>2. registry[a][c] = 1 /\ identity[c] = a /\ task[c] \in {"serving", "failed", "cancelled"}
      BY <2>2, <3>1
    <3>3. \/ task'[c] = task[c]
          \/ task[c] \in {"none", "spawned"} /\ identity[c] = NoApp
          \/ task[c] = "serving" /\ task'[c] \in {"failed", "cancelled"}
      BY <2>1, <2>3, QuietStep
    <3>. QED
      BY <2>1, <3>1, <3>2, <3>3
  <2>4. ASSUME NEW e \in Conn, Hello(e)
        PROVE  /\ registry'[a][c] = 1 /\ identity'[c] = a
               /\ task'[c] \in {"serving", "failed", "cancelled"}
    <3>1. PICK r \in inbox[e] :
            /\ r.op = "hello" /\ r.app \in App
            /\ \A b \in App, d \in Conn :
                 registry'[b][d] = IF b = r.app /\ d = e THEN registry[b][d] + 1 ELSE registry[b][d]
            /\ \A d \in Conn : identity'[d] = IF d = e THEN r.app ELSE identity[d]
            /\ task' = task /\ task[e] = "serving"
      BY <2>4, HelloStep
    <3>2. CASE c # e
      <4>1. registry'[a][c] = registry[a][c] /\ identity'[c] = identity[c]
        BY <2>1, <3>1, <3>2
      <4>. QED
        BY <2>2, <3>1, <4>1
    <3>3. CASE c = e
      <4>1. identity[c] = NoApp
        BY <2>1, <3>1, <3>3 DEF Progress
      <4>2. registry[a][c] \in Nat
        BY <2>1 DEF TypeOK
      <4>3. registry[a][c] = 0
        BY <2>1, <2>2, <4>1, <4>2
      <4>4. registry'[a][c] = IF a = r.app THEN 1 ELSE 0
        BY <2>1, <3>1, <3>3, <4>3
      <4>. QED
        BY <2>1, <3>1, <3>3, <4>4
    <3>. QED
      BY <3>2, <3>3
  <2>5. ASSUME NEW e \in Conn, HangUp(e)
        PROVE  /\ registry'[a][c] = 1 /\ identity'[c] = a
               /\ task'[c] \in {"serving", "failed", "cancelled"}
    <3>1. /\ \A d \in Conn : task'[d] = IF d = e THEN "ended" ELSE task[d]
          /\ identity' = identity
          /\ \A b \in App, d \in Conn :
               registry'[b][d] = IF b = identity[e] THEN 0 ELSE registry[b][d]
      BY <2>5, HangUpStep
    <3>2. a # identity[e] /\ registry'[a][c] = registry[a][c]
      BY <2>1, <3>1
    <3>3. registry[a][c] = 1 /\ identity[c] = a /\ task[c] \in {"serving", "failed", "cancelled"}
      BY <2>2, <3>2
    <3>4. c # e
      BY <3>2, <3>3
    <3>. QED
      BY <2>1, <3>1, <3>2, <3>3, <3>4
  <2>. QED
    BY <2>3, <2>4, <2>5
<1>. QED
  BY <1>1, <1>2, TypeCorrect, ProgressInvariant, PTL DEF Spec

-----------------------------------------------------------------------------
(* A step is one of the accept loop, of the host application, or of the task *)
(* and the client of one connection; it leaves the other connections alone.  *)
Rests(d) ==
  /\ task'[d] = task[d] /\ cursor'[d] = cursor[d] /\ writing'[d] = writing[d]
  /\ identity'[d] = identity[d] /\ subs'[d] = subs[d]
  /\ inbox'[d] = inbox[d] /\ out'[d] = out[d] /\ client'[d] = client[d]

LEMMA BystanderRests ==
  ASSUME TypeOK, NEW c \in Conn, NEW d \in Conn \ {c}, Accept(c) \/ Serve(c) \/ Client(c)
  PROVE  Rests(d)
<1>. USE DEF TypeOK, Rests, shared, taskVars, session, pipe, clientVars
<1>1. CASE Accept(c) \/ Start(c) \/ WriteFrame(c) \/ WriteFails(c) \/ BadFrame(c) \/ HangUp(c)
  BY <1>1 DEF Accept, Start, WriteFrame, WriteFails, BadFrame, HangUp
<1>2. CASE Hello(c) \/ Subscribe(c) \/ Unsubscribe(c)
  BY <1>2 DEF Hello, Subscribe, Unsubscribe, Answer
<1>3. CASE HelloRefused(c) \/ PublishRefused(c) \/ Publish(c) \/ ListApps(c) \/ Ping(c)
  BY <1>3 DEF HelloRefused, PublishRefused, Publish, ListApps, Ping, Answer
<1>4. CASE Deliver(c) \/ Lag(c)
  BY <1>4 DEF Deliver, Lag, ReadAbandoned
<1>5. CASE Open(c) \/ OpenRefused(c) \/ Read(c) \/ Stream(c)
  BY <1>5 DEF Open, OpenRefused, Read, Stream
<1>6. CASE Exit(c) \/ Disconnected(c) \/ \E r \in Request : Send(c, r)
  BY <1>6 DEF Exit, Disconnected, Send
<1>. QED
  BY <1>1, <1>2, <1>3, <1>4, <1>5, <1>6 DEF Serve, Handle, Client

LEMMA StepOf ==
  ASSUME TypeOK, [Next]_vars, NEW d \in Conn
  PROVE  Rests(d) \/ AcceptFails \/ Accept(d) \/ Serve(d) \/ Client(d)
<1>1. CASE Spawn \/ (\E t \in Topic, n \in Event : HostPublish(t, n)) \/ UNCHANGED vars
  BY <1>1 DEF Spawn, HostPublish, vars, Rests, shared, taskVars, session, pipe, clientVars
<1>2. CASE \E c \in Conn : Accept(c) \/ Serve(c) \/ Client(c)
  BY <1>2, BystanderRests
<1>. QED
  BY <1>1, <1>2 DEF Next

(* What a step may append to the log: the events of Hello, Publish, HangUp   *)
(* and HostPublish.  What is in it stays.                                    *)
Appended(e) ==
  \/ \E t \in Topic, n \in Event : e = Published(t, n, NoApp, Host)
  \/ \E c \in Conn :
       \/ \E a \in App : Hello(c) /\ identity'[c] = a /\ e = Started(a, c)
       \/ \E t \in Topic, n \in Event :
            Publish(c) /\ Introduced(c) /\ e = Published(t, n, identity[c], c)
       \/ HangUp(c) /\ Introduced(c) /\ e = Stopped(identity[c], c)

LEMMA LogStep ==
  ASSUME TypeOK, [Next]_vars
  PROVE  log' = log \/ \E e \in Broadcast : Appended(e) /\ log' = Append(log, e)
<1>. USE DEF shared, taskVars, session, pipe, clientVars
<1>1. CASE Spawn \/ AcceptFails \/ UNCHANGED vars
  BY <1>1 DEF Spawn, AcceptFails, vars
<1>2. ASSUME NEW t \in Topic, NEW n \in Event, HostPublish(t, n)
      PROVE  \E e \in Broadcast : Appended(e) /\ log' = Append(log, e)
  <2>1. Published(t, n, NoApp, Host) \in Broadcast
    BY DEF Published, Broadcast
  <2>. QED
    BY <1>2, <2>1 DEF HostPublish, Appended
<1>3. ASSUME NEW c \in Conn, Hello(c)
      PROVE  \E e \in Broadcast : Appended(e) /\ log' = Append(log, e)
  <2>1. PICK r \in inbox[c] :
          /\ r.op = "hello"
          /\ log' = Append(log, Started(r.app, c))
          /\ identity' = [identity EXCEPT ![c] = r.app]
    BY <1>3 DEF Hello
  <2>2. r.app \in App
    BY <2>1, RequestType DEF TypeOK
  <2>3. Started(r.app, c) \in Broadcast
    BY <2>2, BrokerAssumption DEF Started, Broadcast, Event
  <2>4. identity'[c] = r.app
    BY <2>1 DEF TypeOK
  <2>. QED
    BY <1>3, <2>1, <2>2, <2>3, <2>4 DEF Appended
<1>4. ASSUME NEW c \in Conn, Publish(c)
      PROVE  \E e \in Broadcast : Appended(e) /\ log' = Append(log, e)
  <2>1. PICK r \in inbox[c] :
          /\ r.op = "publish" /\ Introduced(c)
          /\ log' = Append(log, Published(r.topic, r.event, identity[c], c))
    BY <1>4 DEF Publish
  <2>2. r.topic \in Topic /\ r.event \in Event
    BY <2>1, RequestType DEF TypeOK
  <2>3. Published(r.topic, r.event, identity[c], c) \in Broadcast
    BY <2>2 DEF Published, Broadcast, TypeOK
  <2>. QED
    BY <1>4, <2>1, <2>2, <2>3 DEF Appended
<1>5. ASSUME NEW c \in Conn, HangUp(c)
      PROVE  log' = log \/ \E e \in Broadcast : Appended(e) /\ log' = Append(log, e)
  <2>1. CASE Introduced(c)
    <3>1. Stopped(identity[c], c) \in Broadcast
      BY <2>1, BrokerAssumption DEF Stopped, Broadcast, Event, TypeOK, Introduced
    <3>. QED
      BY <1>5, <2>1, <3>1 DEF HangUp, Appended
  <2>2. CASE ~Introduced(c)
    BY <1>5, <2>2 DEF HangUp
  <2>. QED
    BY <2>1, <2>2
<1>6. ASSUME NEW c \in Conn,
             \/ HelloRefused(c) \/ Subscribe(c) \/ Unsubscribe(c) \/ PublishRefused(c)
             \/ ListApps(c) \/ Ping(c)
      PROVE  log' = log
  BY <1>6 DEF HelloRefused, Subscribe, Unsubscribe, PublishRefused, ListApps, Ping
<1>7. ASSUME NEW c \in Conn,
             \/ Accept(c) \/ Start(c) \/ BadFrame(c) \/ Deliver(c) \/ Lag(c)
             \/ WriteFrame(c) \/ WriteFails(c) \/ Client(c)
      PROVE  log' = log
  BY <1>7 DEF Accept, Start, BadFrame, Deliver, Lag, WriteFrame, WriteFails, Client, Open,
              OpenRefused, Read, Stream, Exit, Disconnected, Send
<1>. QED
  BY <1>1, <1>2, <1>3, <1>4, <1>5, <1>6, <1>7 DEF Next, Serve, Handle

LEMMA LogKept ==
  ASSUME TypeOK, [Next]_vars
  PROVE  /\ Len(log) \in Nat /\ Len(log') \in Nat /\ Len(log) <= Len(log')
         /\ DOMAIN log = 1 .. Len(log) /\ DOMAIN log' = 1 .. Len(log')
         /\ \A i \in DOMAIN log : log'[i] = log[i]
<1>1. log \in Seq(Broadcast)
  BY DEF TypeOK
<1>2. CASE log' = log
  BY <1>1, <1>2
<1>3. ASSUME NEW e \in Broadcast, log' = Append(log, e)
      PROVE  /\ Len(log) <= Len(log') /\ Len(log') \in Nat /\ DOMAIN log' = 1 .. Len(log')
             /\ \A i \in DOMAIN log : log'[i] = log[i]
  BY <1>1, <1>3
<1>. QED
  BY <1>1, <1>2, <1>3, LogStep

-----------------------------------------------------------------------------
(* Frames under way: a task writes one frame at a time and only while it     *)
(* serves, the pipe of a connection it has not polled is empty, and every    *)
(* event frame holds an index of the log that the receiver has passed.       *)
InTransit ==
  \A c \in Conn :
    /\ writing[c] # {} => task[c] = "serving"
    /\ \A f, g \in writing[c] : f = g
    /\ task[c] \in {"none", "spawned"} => out[c] = <<>>
    /\ task[c] = "serving" => cursor[c] # 0
    /\ cursor[c] <= Len(log) + 1
    /\ \A f \in InFlight(c) : f.kind = "event" => f.seq \in DOMAIN log /\ f.seq < cursor[c]

(* The ways a step treats the pipe of one connection. *)
Leaves(d) ==
  /\ out'[d] = out[d] /\ cursor'[d] = cursor[d] /\ subs'[d] = subs[d]
  /\ task'[d] \in {"none", "spawned"} => task[d] \in {"none", "spawned"}
  /\ task'[d] = "serving" => task[d] = "serving"
  /\ \/ writing'[d] = writing[d] /\ (task'[d] = task[d] \/ writing[d] = {})
     \/ writing'[d] = {} /\ task'[d] # "serving"
Starts(d) ==
  /\ task[d] = "spawned" /\ task'[d] = "serving"
  /\ cursor'[d] = Len(log) + 1 /\ log' = log
  /\ out'[d] = out[d] /\ writing'[d] = writing[d] /\ subs'[d] = subs[d]
Replies(d) ==
  /\ Selecting(d)
  /\ \E r \in inbox[d], k \in ReplyKind :
       /\ writing'[d] = {[kind |-> k, to |-> r]}
       /\ \A t \in subs[d] \ subs'[d] : IsUnsubscribeReply([kind |-> k, to |-> r], t)
  /\ out'[d] = out[d] /\ cursor'[d] = cursor[d] /\ task'[d] = task[d]
Passes(d) ==
  /\ Selecting(d)
  /\ cursor[d] \in DOMAIN log /\ cursor'[d] = cursor[d] + 1
  /\ writing'[d] = IF Wants(d, log[cursor[d]]) THEN {EventFrame(cursor[d])} ELSE {}
  /\ log' = log /\ out'[d] = out[d] /\ task'[d] = task[d] /\ subs'[d] = subs[d]
Skips(d) ==
  /\ Selecting(d)
  /\ cursor[d] < Oldest /\ cursor'[d] = Oldest /\ Oldest \in DOMAIN log
  /\ Oldest - 1 = Len(log) - EventBuffer
  /\ log' = log /\ out'[d] = out[d] /\ writing'[d] = writing[d]
  /\ task'[d] = task[d] /\ subs'[d] = subs[d]
Writes(d) ==
  /\ task[d] = "serving" /\ task'[d] = "serving"
  /\ \E f \in writing[d] : out'[d] = Append(out[d], f)
  /\ writing'[d] = {} /\ cursor'[d] = cursor[d] /\ subs'[d] = subs[d]
Reads(d) ==
  /\ \/ out'[d] = <<>>
     \/ out[d] # <<>> /\ out'[d] = Tail(out[d])
  /\ writing'[d] = writing[d] /\ cursor'[d] = cursor[d]
  /\ task'[d] = task[d] /\ subs'[d] = subs[d]

LEMMA PipeStep ==
  ASSUME TypeOK, Progress, InTransit, [Next]_vars, NEW d \in Conn
  PROVE  \/ Leaves(d) \/ Starts(d) \/ Replies(d) \/ Passes(d) \/ Skips(d) \/ Writes(d)
         \/ Reads(d)
<1>. USE DEF shared, taskVars, session, pipe, clientVars
<1>1. CASE Rests(d)
  BY <1>1 DEF Rests, Leaves
<1>2. CASE AcceptFails
  <2>1. /\ task'[d] = IF task[d] \in {"spawned", "serving"} \/ listener = d
                        THEN "cancelled" ELSE task[d]
        /\ writing'[d] = {}
        /\ out'[d] = out[d] /\ cursor'[d] = cursor[d] /\ subs'[d] = subs[d]
    BY <1>2 DEF AcceptFails
  <2>. QED
    BY <2>1 DEF Leaves
<1>3. CASE Accept(d)
  <2>1. /\ task[d] = "none" /\ task'[d] = "spawned"
        /\ out'[d] = out[d] /\ cursor'[d] = cursor[d] /\ subs'[d] = subs[d]
        /\ writing'[d] = writing[d]
    BY <1>3 DEF Accept, Progress, TypeOK
  <2>2. writing[d] = {}
    BY <2>1 DEF InTransit
  <2>. QED
    BY <2>1, <2>2 DEF Leaves
<1>4. CASE Start(d)
  BY <1>4 DEF Start, Starts, TypeOK
<1>5. CASE HelloRefused(d) \/ Hello(d) \/ PublishRefused(d) \/ Publish(d) \/ ListApps(d) \/ Ping(d)
  <2>1. PICK r \in inbox[d], k \in ReplyKind : Answer(d, r, k) /\ subs' = subs
    BY <1>5 DEF HelloRefused, Hello, PublishRefused, Publish, ListApps, Ping, ReplyKind
  <2>. QED
    BY <2>1 DEF Answer, Replies, TypeOK
<1>6. CASE Subscribe(d)
  <2>1. PICK r \in inbox[d] : Answer(d, r, "ok") /\ subs[d] \subseteq subs'[d]
    BY <1>6 DEF Subscribe, TypeOK
  <2>2. writing'[d] = {[kind |-> "ok", to |-> r]} /\ "ok" \in ReplyKind
    BY <2>1 DEF Answer, TypeOK, ReplyKind
  <2>. QED
    BY <2>1, <2>2 DEF Answer, Replies
<1>7. CASE Unsubscribe(d)
  <2>1. PICK r \in inbox[d] :
          r.op = "unsubscribe" /\ Answer(d, r, "ok") /\ subs'[d] = subs[d] \ {r.topic}
    BY <1>7 DEF Unsubscribe, TypeOK
  <2>2. writing'[d] = {[kind |-> "ok", to |-> r]} /\ "ok" \in ReplyKind
    BY <2>1 DEF Answer, TypeOK, ReplyKind
  <2>3. \A t \in subs[d] \ subs'[d] : IsUnsubscribeReply([kind |-> "ok", to |-> r], t)
    BY <2>1 DEF IsUnsubscribeReply
  <2>. QED
    BY <2>1, <2>2, <2>3 DEF Answer, Replies
<1>8. CASE BadFrame(d) \/ HangUp(d)
  <2>1. /\ writing[d] = {} /\ writing'[d] = writing[d] /\ task'[d] \in {"failed", "ended"}
        /\ out'[d] = out[d] /\ cursor'[d] = cursor[d] /\ subs'[d] = subs[d]
    BY <1>8 DEF BadFrame, HangUp, Selecting, TypeOK
  <2>. QED
    BY <2>1 DEF Leaves
<1>9. CASE WriteFails(d)
  BY <1>9 DEF WriteFails, Leaves, TypeOK
<1>10. CASE Deliver(d)
  <2>1. cursor[d] \in DOMAIN log
    <3>1. Oldest \in 1 .. Len(log) + 1 /\ log \in Seq(Broadcast)
      BY BrokerAssumption DEF TypeOK, Oldest
    <3>. QED
      BY <1>10, <3>1 DEF Deliver, TypeOK
  <2>2. UNCHANGED <<log, task, out, subs>>
    BY <1>10 DEF Deliver
  <2>3. /\ cursor'[d] = cursor[d] + 1
        /\ writing'[d] = IF Wants(d, log[cursor[d]]) THEN {EventFrame(cursor[d])} ELSE {}
    BY <1>10 DEF Deliver, TypeOK
  <2>. QED
    BY <1>10, <2>1, <2>2, <2>3 DEF Deliver, Passes
<1>11. CASE Lag(d)
  <2>1. cursor[d] # 0 /\ cursor[d] \in Nat
    BY <1>11 DEF Lag, InTransit, Selecting, TypeOK
  <2>2. Oldest \in DOMAIN log /\ Oldest - 1 = Len(log) - EventBuffer
    <3>1. log \in Seq(Broadcast) /\ EventBuffer \in Nat \ {0} /\ cursor[d] < Oldest
      BY <1>11, BrokerAssumption DEF TypeOK, Lag
    <3>. QED
      BY <2>1, <3>1 DEF Oldest
  <2>3. UNCHANGED <<log, task, out, subs, writing>> /\ cursor'[d] = Oldest
    BY <1>11 DEF Lag, TypeOK
  <2>. QED
    BY <1>11, <2>2, <2>3 DEF Lag, Skips
<1>12. CASE WriteFrame(d)
  BY <1>12 DEF WriteFrame, Writes, TypeOK
<1>13. CASE Read(d) \/ Exit(d)
  <2>1. task' = task /\ cursor' = cursor /\ writing' = writing /\ subs' = subs
    BY <1>13 DEF Read, Exit
  <2>2. \/ out[d] # <<>> /\ out' = [out EXCEPT ![d] = Tail(out[d])]
        \/ out' = [out EXCEPT ![d] = <<>>]
    BY <1>13 DEF Read, Exit
  <2>3. ASSUME NEW s, out' = [out EXCEPT ![d] = s]
        PROVE  out'[d] = s
    BY <2>3 DEF TypeOK
  <2>4. \/ out'[d] = <<>>
        \/ out[d] # <<>> /\ out'[d] = Tail(out[d])
    BY <2>2, <2>3, Zenon
  <2>. QED
    BY <2>1, <2>4, Zenon DEF Reads
<1>14. CASE Open(d) \/ OpenRefused(d) \/ Stream(d) \/ Disconnected(d) \/ \E r \in Request : Send(d, r)
  <2>1. UNCHANGED <<task, cursor, writing, subs, out>>
    BY <1>14 DEF Open, OpenRefused, Stream, Disconnected, Send
  <2>. QED
    BY <2>1 DEF Leaves
<1>. QED
  BY <1>1, <1>2, <1>3, <1>4, <1>5, <1>6, <1>7, <1>8, <1>9, <1>10, <1>11, <1>12, <1>13, <1>14, StepOf
     DEF Serve, Handle, Client

-----------------------------------------------------------------------------
(* Event frames in the pipe and then being written carry rising indexes.     *)
InOrder(c) ==
  /\ \A i, j \in DOMAIN out[c] :
       i < j /\ out[c][i].kind = "event" /\ out[c][j].kind = "event"
         => out[c][i].seq < out[c][j].seq
  /\ \A f \in writing[c], i \in DOMAIN out[c] :
       f.kind = "event" /\ out[c][i].kind = "event" => out[c][i].seq < f.seq

(* What a read leaves in the pipe was in it, one place further.              *)
LEMMA ReadShifts ==
  ASSUME TypeOK, NEW c \in Conn, Reads(c)
  PROVE  /\ out[c] \in Seq(Frame) /\ DOMAIN out[c] = 1 .. Len(out[c]) /\ Len(out[c]) \in Nat
         /\ Len(out'[c]) \in Nat /\ DOMAIN out'[c] = 1 .. Len(out'[c])
         /\ out'[c] = <<>> \/ Len(out'[c]) + 1 = Len(out[c])
         /\ \A i \in DOMAIN out'[c] : i + 1 \in DOMAIN out[c] /\ out'[c][i] = out[c][i + 1]
<1>1. out[c] \in Seq(Frame)
  BY DEF TypeOK
<1>2. CASE out'[c] = <<>>
  BY <1>1, <1>2
<1>3. CASE out[c] # <<>> /\ out'[c] = Tail(out[c])
  BY <1>1, <1>3
<1>. QED
  BY <1>2, <1>3 DEF Reads

(* What a write leaves in the pipe: what was there, then the frame.          *)
LEMMA WriteAppends ==
  ASSUME TypeOK, NEW c \in Conn, NEW f \in writing[c], out'[c] = Append(out[c], f)
  PROVE  /\ out[c] \in Seq(Frame) /\ DOMAIN out[c] = 1 .. Len(out[c]) /\ Len(out[c]) \in Nat
         /\ f \in Frame /\ Len(out'[c]) = Len(out[c]) + 1
         /\ DOMAIN out'[c] = 1 .. Len(out[c]) + 1
         /\ out'[c][Len(out[c]) + 1] = f
         /\ \A i \in DOMAIN out[c] : out'[c][i] = out[c][i]
<1>1. out[c] \in Seq(Frame) /\ f \in Frame
  BY DEF TypeOK
<1>. QED
  BY <1>1

(* The only event a step puts on the way to a client is the one its receiver *)
(* was at, and only if the client wants it.                                  *)
LEMMA InFlightStep ==
  ASSUME TypeOK, Progress, InTransit, [Next]_vars, NEW c \in Conn,
         NEW f \in InFlight(c)', f.kind = "event"
  PROVE  \/ f \in InFlight(c)
         \/ Passes(c) /\ f = EventFrame(cursor[c]) /\ Wants(c, log[cursor[c]])
<1>1. CASE Leaves(c) \/ Starts(c) \/ Skips(c)
  BY <1>1 DEF Leaves, Starts, Skips, InFlight
<1>2. CASE Replies(c)
  <2>1. PICK r \in inbox[c], k \in ReplyKind : writing'[c] = {[kind |-> k, to |-> r]}
    BY <1>2 DEF Replies
  <2>2. k # "event"
    BY DEF ReplyKind
  <2>. QED
    BY <1>2, <2>1, <2>2 DEF Replies, InFlight
<1>3. CASE Passes(c)
  BY <1>3 DEF Passes, InFlight
<1>4. CASE Writes(c)
  <2>1. PICK g \in writing[c] : out'[c] = Append(out[c], g)
    BY <1>4 DEF Writes
  <2>. QED
    BY <1>4, <2>1, WriteAppends DEF Writes, InFlight
<1>5. CASE Reads(c)
  BY <1>5, ReadShifts DEF Reads, InFlight
<1>. QED
  BY <1>1, <1>2, <1>3, <1>4, <1>5, PipeStep

LEMMA InTransitStep ==
  ASSUME TypeOK, Progress, InTransit, [Next]_vars
  PROVE  InTransit'
<1> SUFFICES ASSUME NEW c \in Conn
             PROVE  /\ writing'[c] # {} => task'[c] = "serving"
                    /\ \A f, g \in writing'[c] : f = g
                    /\ task'[c] \in {"none", "spawned"} => out'[c] = <<>>
                    /\ task'[c] = "serving" => cursor'[c] # 0
                    /\ cursor'[c] <= Len(log') + 1
                    /\ \A f \in InFlight(c)' :
                         f.kind = "event" => f.seq \in DOMAIN log' /\ f.seq < cursor'[c]
  BY DEF InTransit
<1>1. /\ writing[c] # {} => task[c] = "serving"
      /\ \A f, g \in writing[c] : f = g
      /\ task[c] \in {"none", "spawned"} => out[c] = <<>>
      /\ task[c] = "serving" => cursor[c] # 0
      /\ cursor[c] <= Len(log) + 1 /\ cursor[c] \in Nat
      /\ \A f \in InFlight(c) : f.kind = "event" => f.seq \in DOMAIN log /\ f.seq < cursor[c]
  BY DEF InTransit, TypeOK
<1>2. /\ Len(log) \in Nat /\ Len(log') \in Nat /\ Len(log) <= Len(log')
      /\ DOMAIN log = 1 .. Len(log) /\ DOMAIN log' = 1 .. Len(log')
  BY LogKept
<1>3. cursor'[c] \in Nat /\ (cursor[c] <= cursor'[c] \/ InFlight(c) = {})
  <2>1. cursor'[c] = cursor[c] \/ Starts(c) \/ Passes(c) \/ Skips(c)
    BY PipeStep DEF Leaves, Replies, Writes, Reads
  <2>2. CASE Starts(c)
    <3>1. InFlight(c) = {}
      BY <1>1, <2>2 DEF Starts, InFlight
    <3>. QED
      BY <1>2, <2>2, <3>1 DEF Starts
  <2>3. CASE Passes(c)
    <3>1. cursor'[c] = cursor[c] + 1
      BY <2>3 DEF Passes
    <3>. QED
      BY <1>1, <3>1
  <2>4. CASE Skips(c)
    <3>1. cursor'[c] \in DOMAIN log /\ cursor[c] < cursor'[c]
      BY <2>4 DEF Skips
    <3>. QED
      BY <1>1, <1>2, <3>1
  <2>. QED
    BY <1>1, <2>1, <2>2, <2>3, <2>4
<1>4. \A f \in InFlight(c)' :
        f.kind = "event" => f.seq \in DOMAIN log' /\ f.seq < cursor'[c]
  <2> SUFFICES ASSUME NEW f \in InFlight(c)', f.kind = "event"
               PROVE  f.seq \in DOMAIN log' /\ f.seq < cursor'[c]
    OBVIOUS
  <2>1. CASE f \in InFlight(c)
    BY <1>1, <1>2, <1>3, <2>1
  <2>2. CASE Passes(c) /\ f = EventFrame(cursor[c])
    BY <1>1, <1>2, <2>2 DEF Passes, EventFrame
  <2>. QED
    BY <2>1, <2>2, InFlightStep
<1>5. CASE Leaves(c)
  BY <1>1, <1>2, <1>4, <1>5 DEF Leaves
<1>6. CASE Starts(c)
  BY <1>1, <1>2, <1>4, <1>6 DEF Starts
<1>7. CASE Replies(c)
  <2>1. PICK r \in inbox[c], k \in ReplyKind : writing'[c] = {[kind |-> k, to |-> r]}
    BY <1>7 DEF Replies
  <2>. QED
    BY <1>1, <1>2, <1>4, <1>7, <2>1 DEF Replies, Selecting
<1>8. CASE Passes(c) \/ Skips(c)
  BY <1>1, <1>2, <1>4, <1>8 DEF Passes, Skips, Selecting
<1>9. CASE Writes(c)
  BY <1>1, <1>2, <1>4, <1>9 DEF Writes
<1>10. CASE Reads(c)
  <2>1. out[c] = <<>> => out'[c] = <<>>
    BY <1>10 DEF Reads
  <2>. QED
    BY <1>1, <1>2, <1>4, <1>10, <2>1 DEF Reads
<1>. QED
  BY <1>5, <1>6, <1>7, <1>8, <1>9, <1>10, PipeStep

LEMMA InTransitInvariant == Spec => []InTransit
<1>1. Init => InTransit
  BY DEF Init, InTransit, InFlight
<1>. QED
  BY <1>1, InTransitStep, TypeCorrect, ProgressInvariant, PTL DEF Spec

(* Events reach a client in the order they were published and at most once,  *)
(* through lag, full pipes and whatever else its task writes.                *)
THEOREM EventsInOrderAtMostOnce == Spec => []InOrderAtMostOnce
<1>1. Init => InOrderAtMostOnce
  BY DEF Init, InOrderAtMostOnce, InFlight
<1>2. TypeOK /\ Progress /\ InTransit /\ InOrderAtMostOnce /\ [Next]_vars => InOrderAtMostOnce'
  <2> SUFFICES ASSUME TypeOK, Progress, InTransit, InOrderAtMostOnce, [Next]_vars,
                      NEW c \in Conn
               PROVE  InOrder(c)'
    BY InTransitStep DEF InOrderAtMostOnce, InTransit, InOrder
  <2>1. InOrder(c)
    BY DEF InOrderAtMostOnce, InOrder
  <2>2. \A f \in InFlight(c) : f.kind = "event" => f.seq \in Nat /\ f.seq < cursor[c]
    BY LogKept DEF InTransit
  <2>3. CASE Leaves(c) \/ Starts(c) \/ Skips(c)
    BY <2>1, <2>3 DEF Leaves, Starts, Skips, InOrder
  <2>4. CASE Replies(c)
    <3>1. PICK r \in inbox[c], k \in ReplyKind : writing'[c] = {[kind |-> k, to |-> r]}
      BY <2>4 DEF Replies
    <3>2. k # "event"
      BY DEF ReplyKind
    <3>. QED
      BY <2>1, <2>4, <3>1, <3>2 DEF Replies, InOrder
  <2>5. CASE Passes(c)
    BY <2>1, <2>2, <2>5 DEF Passes, InOrder, InFlight, EventFrame
  <2>6. CASE Writes(c)
    <3>1. PICK f \in writing[c] : out'[c] = Append(out[c], f) /\ writing'[c] = {}
      BY <2>6 DEF Writes
    <3>2. \A i \in DOMAIN out[c] :
            f.kind = "event" /\ out[c][i].kind = "event" => out[c][i].seq < f.seq
      BY <2>1 DEF InOrder
    <3>. QED
      BY <2>1, <3>1, <3>2, WriteAppends DEF InOrder
  <2>7. CASE Reads(c)
    <3>1. writing'[c] = writing[c]
      BY <2>7 DEF Reads
    <3>2. \A i \in DOMAIN out'[c] : i + 1 \in DOMAIN out[c] /\ out'[c][i] = out[c][i + 1]
      BY <2>7, ReadShifts
    <3>3. DOMAIN out'[c] \subseteq Nat
      BY <2>7, ReadShifts
    <3>. QED
      BY <2>1, <3>1, <3>2, <3>3 DEF InOrder
  <2>. QED
    BY <2>3, <2>4, <2>5, <2>6, <2>7, PipeStep
<1>. QED
  BY <1>1, <1>2, TypeCorrect, ProgressInvariant, InTransitInvariant, PTL DEF Spec

(* An event that leaves the sight of a subscribed receiver unwritten is its  *)
(* own application's or older than the ring.                                 *)
THEOREM LostOnlyByLag == Spec => LossOnlyByLag
<1>1. TypeOK /\ Progress /\ InTransit /\ [Next]_vars =>
        [\A c \in Conn : task[c] = "serving" =>
           \A i \in cursor[c] .. cursor'[c] - 1 :
             \/ EventFrame(i) \in writing'[c]
             \/ ~Wants(c, log[i])
             \/ i <= Len(log) - EventBuffer]_vars
  <2> SUFFICES ASSUME TypeOK, Progress, InTransit, [Next]_vars, NEW c \in Conn,
                      task[c] = "serving", NEW i \in cursor[c] .. cursor'[c] - 1
               PROVE  \/ EventFrame(i) \in writing'[c]
                      \/ ~Wants(c, log[i])
                      \/ i <= Len(log) - EventBuffer
    OBVIOUS
  <2>1. cursor[c] \in Nat
    BY DEF TypeOK
  <2>2. CASE Passes(c)
    <3>1. i = cursor[c]
      BY <2>1, <2>2 DEF Passes
    <3>. QED
      BY <2>2, <3>1 DEF Passes
  <2>3. CASE Skips(c)
    <3>1. Oldest - 1 = Len(log) - EventBuffer /\ cursor'[c] = Oldest
      BY <2>3 DEF Skips
    <3>. QED
      BY <3>1
  <2>4. CASE cursor'[c] = cursor[c]
    BY <2>1, <2>4
  <2>. QED
    BY <2>2, <2>3, <2>4, PipeStep DEF Leaves, Starts, Replies, Writes, Reads
<1>. QED
  BY <1>1, TypeCorrect, ProgressInvariant, InTransitInvariant, PTL DEF Spec, LossOnlyByLag

-----------------------------------------------------------------------------
(* What a BrokerClient published, its connection published as what it calls  *)
(* itself, but for the AppStopped of its own end.                            *)
OwnEventsBearIdentity ==
  \A c \in Lawful, i \in DOMAIN log :
    log[i].by = c => /\ identity[c] # NoApp
                     /\ log[i].origin = identity[c] \/ task[c] = "ended"

LEMMA IntroducedOnce ==
  ASSUME TypeOK, Progress, [Next]_vars, NEW c \in Lawful, identity[c] # NoApp
  PROVE  identity'[c] = identity[c] /\ (task[c] = "ended" => task'[c] = "ended")
<1>1. c \in Conn
  BY BrokerAssumption
<1>2. CASE \A d \in Conn : ~Hello(d) /\ ~HangUp(d)
  BY <1>1, <1>2, QuietStep
<1>3. ASSUME NEW d \in Conn, Hello(d)
      PROVE  identity'[c] = identity[c] /\ (task[c] = "ended" => task'[c] = "ended")
  <2>1. PICK r \in inbox[d] :
          /\ r.op = "hello"
          /\ \A e \in Conn : identity'[e] = IF e = d THEN r.app ELSE identity[e]
          /\ task' = task
    BY <1>3, HelloStep
  <2>2. c # d
    BY <1>1, <2>1 DEF Progress
  <2>. QED
    BY <1>1, <2>1, <2>2
<1>4. ASSUME NEW d \in Conn, HangUp(d)
      PROVE  identity'[c] = identity[c] /\ (task[c] = "ended" => task'[c] = "ended")
  BY <1>1, <1>4, HangUpStep
<1>. QED
  BY <1>2, <1>3, <1>4

LEMMA OwnEventsStep ==
  ASSUME TypeOK, Progress, OwnEventsBearIdentity, [Next]_vars
  PROVE  OwnEventsBearIdentity'
<1> SUFFICES ASSUME NEW c \in Lawful, NEW i \in DOMAIN log', log'[i].by = c
             PROVE  /\ identity'[c] # NoApp
                    /\ log'[i].origin = identity'[c] \/ task'[c] = "ended"
  BY DEF OwnEventsBearIdentity
<1>1. c \in Conn /\ Host # c /\ NoApp \notin App
  BY BrokerAssumption
<1>2. CASE i \in DOMAIN log
  BY <1>2, LogKept, IntroducedOnce DEF OwnEventsBearIdentity
<1>3. CASE i \notin DOMAIN log
  <2>1. PICK e \in Broadcast : Appended(e) /\ log' = Append(log, e)
    BY <1>3, LogStep
  <2>2. log'[i] = e
    BY <1>3, <2>1 DEF TypeOK
  <2>3. CASE \E t \in Topic, n \in Event : e = Published(t, n, NoApp, Host)
    BY <1>1, <2>2, <2>3 DEF Published
  <2>4. ASSUME NEW d \in Conn, NEW a \in App, Hello(d), identity'[d] = a, e = Started(a, d)
        PROVE  identity'[c] # NoApp /\ log'[i].origin = identity'[c]
    BY <1>1, <2>2, <2>4 DEF Started
  <2>5. ASSUME NEW d \in Conn, NEW t \in Topic, NEW n \in Event, Publish(d), Introduced(d),
               e = Published(t, n, identity[d], d)
        PROVE  identity'[c] # NoApp /\ log'[i].origin = identity'[c]
    BY <2>2, <2>5, IntroducedOnce DEF Published, Introduced
  <2>6. ASSUME NEW d \in Conn, HangUp(d), Introduced(d), e = Stopped(identity[d], d)
        PROVE  identity'[c] # NoApp /\ task'[c] = "ended"
    <3>1. c = d
      BY <2>2, <2>6 DEF Stopped
    <3>. QED
      BY <2>6, <3>1, HangUpStep, IntroducedOnce DEF Introduced
  <2>. QED
    BY <2>1, <2>3, <2>4, <2>5, <2>6 DEF Appended
<1>. QED
  BY <1>2, <1>3

LEMMA OwnEventsInvariant == Spec => []OwnEventsBearIdentity
<1>1. Init => OwnEventsBearIdentity
  BY DEF Init, OwnEventsBearIdentity
<1>. QED
  BY <1>1, OwnEventsStep, TypeCorrect, ProgressInvariant, PTL DEF Spec

(* A BrokerClient is never sent an event it published itself.                *)
THEOREM NobodyHearsItself == Spec => []NoEcho
<1>1. Init => NoEcho
  BY BrokerAssumption DEF Init, NoEcho, InFlight
<1>2. TypeOK /\ Progress /\ InTransit /\ OwnEventsBearIdentity /\ NoEcho /\ [Next]_vars => NoEcho'
  <2> SUFFICES ASSUME TypeOK, Progress, InTransit, OwnEventsBearIdentity, NoEcho, [Next]_vars,
                      NEW c \in Lawful, NEW f \in InFlight(c)', f.kind = "event"
               PROVE  log'[f.seq].by # c
    BY DEF NoEcho
  <2>1. c \in Conn
    BY BrokerAssumption
  <2>2. CASE f \in InFlight(c)
    <3>1. log[f.seq].by # c /\ f.seq \in DOMAIN log
      BY <2>1, <2>2 DEF NoEcho, InTransit
    <3>. QED
      BY <3>1, LogKept
  <2>3. CASE Passes(c) /\ f = EventFrame(cursor[c]) /\ Wants(c, log[cursor[c]])
    <3>1. f.seq = cursor[c] /\ log' = log /\ cursor[c] \in DOMAIN log /\ task[c] = "serving"
      BY <2>3 DEF Passes, EventFrame, Selecting
    <3>2. log[cursor[c]].origin # identity[c]
      BY <2>3 DEF Wants
    <3>. QED
      BY <3>1, <3>2 DEF OwnEventsBearIdentity
  <2>. QED
    BY <2>1, <2>2, <2>3, InFlightStep
<1>. QED
  BY <1>1, <1>2, TypeCorrect, ProgressInvariant, InTransitInvariant, OwnEventsInvariant, PTL
     DEF Spec

-----------------------------------------------------------------------------
(* An event in the pipe of a topic its client no longer has is followed by   *)
(* the reply to Unsubscribe.                                                 *)
FollowedByReply(c, i) ==
  LET t == log[out[c][i].seq].topic
  IN  \/ \E j \in i + 1 .. Len(out[c]) : IsUnsubscribeReply(out[c][j], t)
      \/ \E f \in writing[c] : IsUnsubscribeReply(f, t)
Final(c) ==
  /\ \A f \in writing[c] : f.kind = "event" => log[f.seq].topic \in subs[c]
  /\ \A i \in DOMAIN out[c] :
       out[c][i].kind = "event" /\ log[out[c][i].seq].topic \notin subs[c] => FollowedByReply(c, i)

LEMMA FinalIsUnsubscribeIsFinal ==
  UnsubscribeIsFinal <=> \A c \in Conn : task[c] = "serving" => Final(c)
BY DEF UnsubscribeIsFinal, Final, FollowedByReply

LEMMA FinalStep ==
  ASSUME TypeOK, Progress, InTransit, [Next]_vars, NEW c \in Conn,
         task[c] = "serving" => Final(c), task'[c] = "serving"
  PROVE  Final(c)'
<1>1. \A f \in InFlight(c) : f.kind = "event" => log'[f.seq] = log[f.seq]
  BY LogKept DEF InTransit
<1>2. /\ \A f \in writing[c] : f \in InFlight(c)
      /\ \A i \in DOMAIN out[c] : out[c][i] \in InFlight(c)
  BY DEF InFlight
<1>3. out[c] \in Seq(Frame) /\ DOMAIN out[c] = 1 .. Len(out[c]) /\ Len(out[c]) \in Nat
  BY DEF TypeOK
<1>4. CASE Leaves(c)
  <2>1. /\ out'[c] = out[c] /\ writing'[c] = writing[c] /\ subs'[c] = subs[c]
        /\ task[c] = "serving"
    BY <1>4 DEF Leaves
  <2>. QED
    BY <1>1, <1>2, <2>1 DEF Final, FollowedByReply
<1>5. CASE Starts(c)
  <2>1. out'[c] = <<>> /\ writing'[c] = {}
    BY <1>5 DEF Starts, InTransit
  <2>. QED
    BY <2>1 DEF Final
<1>6. CASE Replies(c)
  <2>1. PICK r \in inbox[c], k \in ReplyKind :
          /\ writing'[c] = {[kind |-> k, to |-> r]}
          /\ \A t \in subs[c] \ subs'[c] : IsUnsubscribeReply([kind |-> k, to |-> r], t)
    BY <1>6 DEF Replies
  <2>2. k # "event"
    BY DEF ReplyKind
  <2>3. out'[c] = out[c] /\ writing[c] = {} /\ task[c] = "serving"
    BY <1>6 DEF Replies, Selecting
  <2>4. ASSUME NEW i \in DOMAIN out[c], out[c][i].kind = "event",
               log'[out[c][i].seq].topic \notin subs'[c]
        PROVE  FollowedByReply(c, i)'
    <3>1. log'[out[c][i].seq] = log[out[c][i].seq]
      BY <1>1, <1>2, <2>4
    <3>2. CASE log[out[c][i].seq].topic \in subs[c]
      BY <2>1, <2>3, <2>4, <3>1, <3>2 DEF FollowedByReply
    <3>3. CASE log[out[c][i].seq].topic \notin subs[c]
      BY <2>3, <2>4, <3>1, <3>3 DEF FollowedByReply, Final
    <3>. QED
      BY <3>2, <3>3
  <2>. QED
    BY <2>1, <2>2, <2>3, <2>4 DEF Final
<1>7. CASE Passes(c)
  <2>1. /\ out'[c] = out[c] /\ writing[c] = {} /\ log' = log /\ subs'[c] = subs[c]
        /\ task[c] = "serving"
        /\ writing'[c] = IF Wants(c, log[cursor[c]]) THEN {EventFrame(cursor[c])} ELSE {}
    BY <1>7 DEF Passes, Selecting
  <2>2. \A f \in writing'[c] : log[f.seq].topic \in subs[c]
    BY <2>1 DEF EventFrame, Wants
  <2>. QED
    BY <2>1, <2>2 DEF Final, FollowedByReply
<1>8. CASE Skips(c)
  BY <1>8 DEF Skips, Selecting, Final, FollowedByReply
<1>9. CASE Writes(c)
  <2>1. PICK f \in writing[c] : out'[c] = Append(out[c], f)
    BY <1>9 DEF Writes
  <2>2. writing[c] = {f} /\ writing'[c] = {} /\ subs'[c] = subs[c] /\ task[c] = "serving"
    BY <1>9, <2>1 DEF Writes, InTransit
  <2>3. /\ Len(out'[c]) = Len(out[c]) + 1 /\ DOMAIN out'[c] = 1 .. Len(out[c]) + 1
        /\ out'[c][Len(out[c]) + 1] = f
        /\ \A i \in DOMAIN out[c] : out'[c][i] = out[c][i]
    BY <2>1, WriteAppends
  <2>4. f.kind = "event" => log'[f.seq].topic \in subs[c]
    BY <1>1, <1>2, <2>2 DEF Final
  <2>5. ASSUME NEW i \in DOMAIN out[c], out[c][i].kind = "event",
               log'[out[c][i].seq].topic \notin subs[c]
        PROVE  FollowedByReply(c, i)'
    <3>1. log'[out[c][i].seq] = log[out[c][i].seq] /\ out'[c][i] = out[c][i]
      BY <1>1, <1>2, <2>3, <2>5
    <3>2. FollowedByReply(c, i)
      BY <2>2, <2>5, <3>1 DEF Final
    <3>3. ASSUME NEW j \in i + 1 .. Len(out[c]),
                 IsUnsubscribeReply(out[c][j], log[out[c][i].seq].topic)
          PROVE  FollowedByReply(c, i)'
      <4>1. j \in i + 1 .. Len(out'[c]) /\ out'[c][j] = out[c][j]
        BY <1>3, <2>3
      <4>. QED
        BY <3>1, <3>3, <4>1 DEF FollowedByReply
    <3>4. CASE IsUnsubscribeReply(f, log[out[c][i].seq].topic)
      <4>1. Len(out[c]) + 1 \in i + 1 .. Len(out'[c])
        BY <1>3, <2>3
      <4>. QED
        BY <2>3, <3>1, <3>4, <4>1 DEF FollowedByReply
    <3>. QED
      BY <2>2, <3>2, <3>3, <3>4 DEF FollowedByReply
  <2>6. ASSUME NEW i \in DOMAIN out'[c], out'[c][i].kind = "event",
               log'[out'[c][i].seq].topic \notin subs[c]
        PROVE  FollowedByReply(c, i)'
    <3>1. i \in DOMAIN out[c]
      BY <1>3, <2>3, <2>4, <2>6
    <3>. QED
      BY <2>3, <2>5, <2>6, <3>1
  <2>. QED
    BY <2>2, <2>6 DEF Final
<1>10. CASE Reads(c)
  <2>1. /\ \A i \in DOMAIN out'[c] : i + 1 \in DOMAIN out[c] /\ out'[c][i] = out[c][i + 1]
        /\ out'[c] = <<>> \/ Len(out'[c]) + 1 = Len(out[c])
        /\ DOMAIN out'[c] = 1 .. Len(out'[c]) /\ Len(out'[c]) \in Nat
    BY <1>10, ReadShifts
  <2>2. writing'[c] = writing[c] /\ subs'[c] = subs[c] /\ task[c] = "serving"
    BY <1>10 DEF Reads
  <2>3. ASSUME NEW i \in DOMAIN out'[c], out'[c][i].kind = "event",
               log'[out'[c][i].seq].topic \notin subs[c]
        PROVE  FollowedByReply(c, i)'
    <3>1. /\ i + 1 \in DOMAIN out[c] /\ out'[c][i] = out[c][i + 1]
          /\ log'[out'[c][i].seq] = log[out[c][i + 1].seq]
      BY <1>1, <1>2, <2>1, <2>3
    <3>2. FollowedByReply(c, i + 1)
      BY <2>2, <2>3, <3>1 DEF Final
    <3>3. ASSUME NEW j \in i + 1 + 1 .. Len(out[c]),
                 IsUnsubscribeReply(out[c][j], log[out[c][i + 1].seq].topic)
          PROVE  FollowedByReply(c, i)'
      <4>1. j - 1 \in i + 1 .. Len(out'[c])
        BY <1>3, <2>1
      <4>2. j - 1 \in DOMAIN out'[c] /\ j - 1 + 1 = j
        BY <1>3, <2>1, <4>1
      <4>3. out'[c][j - 1] = out[c][j]
        BY <2>1, <4>2
      <4>. QED
        BY <3>1, <3>3, <4>1, <4>3 DEF FollowedByReply
    <3>. QED
      BY <2>2, <3>1, <3>2, <3>3 DEF FollowedByReply
  <2>. QED
    BY <1>1, <1>2, <2>2, <2>3 DEF Final
<1>. QED
  BY <1>4, <1>5, <1>6, <1>7, <1>8, <1>9, <1>10, PipeStep

(* Once the reply to Unsubscribe is read, no event of the topic follows.     *)
THEOREM NothingAfterUnsubscribe == Spec => []UnsubscribeIsFinal
<1>1. Init => UnsubscribeIsFinal
  BY DEF Init, UnsubscribeIsFinal
<1>2. TypeOK /\ Progress /\ InTransit /\ UnsubscribeIsFinal /\ [Next]_vars => UnsubscribeIsFinal'
  <2> SUFFICES ASSUME TypeOK, Progress, InTransit, UnsubscribeIsFinal, [Next]_vars,
                      NEW c \in Conn, task'[c] = "serving"
               PROVE  Final(c)'
    BY DEF UnsubscribeIsFinal, Final, FollowedByReply
  <2>1. task[c] = "serving" => Final(c)
    BY FinalIsUnsubscribeIsFinal
  <2>. QED
    BY <2>1, InTransitStep, FinalStep
<1>. QED
  BY <1>1, <1>2, TypeCorrect, ProgressInvariant, InTransitInvariant, PTL DEF Spec

-----------------------------------------------------------------------------
(* The latest event about a was published, or is AppStarted; a is listed.   *)
Rumoured(a) == \E i \in Latest(a) : log[i].published
Announced(a) == \E i \in Latest(a) : log[i].event.kind = "started"
Listed(a) == \E c \in Conn : registry[a][c] > 0

(* An event becomes the latest of the application it is about, if it is     *)
(* about one, and of no other.                                              *)
LEMMA LatestAfterAppend ==
  ASSUME TypeOK, NEW e \in Broadcast, log' = Append(log, e), NEW a \in App
  PROVE  /\ Concerns(e, a) => /\ Rumoured(a)' <=> e.published
                              /\ Announced(a)' <=> e.event.kind = "started"
         /\ ~Concerns(e, a) => /\ Rumoured(a)' <=> Rumoured(a)
                               /\ Announced(a)' <=> Announced(a)
<1>1. /\ DOMAIN log = 1 .. Len(log) /\ Len(log) \in Nat
      /\ DOMAIN log' = 1 .. Len(log) + 1
      /\ log'[Len(log) + 1] = e
      /\ \A i \in DOMAIN log : log'[i] = log[i]
  BY DEF TypeOK
<1>2. CASE Concerns(e, a)
  <2>1. Len(log) + 1 \in About(a)'
    BY <1>1, <1>2 DEF About, Concerns
  <2>2. \A i \in About(a)' : i \in 1 .. Len(log) + 1
    BY <1>1 DEF About
  <2>3. Latest(a)' = {Len(log) + 1}
    BY <1>1, <2>1, <2>2 DEF Latest
  <2>. QED
    BY <1>1, <1>2, <2>3 DEF Rumoured, Announced
<1>3. CASE ~Concerns(e, a)
  <2>1. About(a)' = About(a)
    BY <1>1, <1>3 DEF About, Concerns
  <2>2. Latest(a)' = Latest(a) /\ \A i \in Latest(a) : log'[i] = log[i]
    BY <1>1, <2>1 DEF Latest, About
  <2>. QED
    BY <1>3, <2>2 DEF Rumoured, Announced
<1>. QED
  BY <1>2, <1>3

(* The last event about an application is AppStarted exactly when it has an *)
(* entry, through every way a connection can end, unless that event is not  *)
(* the broker's but somebody's publication.                                 *)
THEOREM LifecycleTellsTheRegistry == Spec => []LifecycleAgreesWithRegistry
<1>1. Init => LifecycleAgreesWithRegistry
  BY DEF Init, LifecycleAgreesWithRegistry, Latest, About
<1>2. LifecycleAgreesWithRegistry
        <=> \A a \in App : Rumoured(a) \/ (Listed(a) <=> Announced(a))
  BY DEF LifecycleAgreesWithRegistry, Rumoured, Listed, Announced
<1>3. TypeOK /\ Progress /\ LifecycleAgreesWithRegistry /\ [Next]_vars
        => LifecycleAgreesWithRegistry'
  <2> SUFFICES ASSUME TypeOK, Progress, LifecycleAgreesWithRegistry, [Next]_vars, NEW a \in App
               PROVE  Rumoured(a)' \/ (Listed(a)' <=> Announced(a)')
    BY DEF LifecycleAgreesWithRegistry, Rumoured, Listed, Announced
  <2>1. Rumoured(a) \/ (Listed(a) <=> Announced(a))
    BY <1>2
  <2>2. log' = log => (Rumoured(a)' <=> Rumoured(a)) /\ (Announced(a)' <=> Announced(a))
    BY DEF Rumoured, Announced, Latest, About, Concerns
  <2>3. CASE \A c \in Conn : ~Hello(c) /\ ~HangUp(c)
    <3>1. Listed(a)' <=> Listed(a)
      BY <2>3, QuietStep DEF Listed
    <3>2. ASSUME NEW e \in Broadcast, Appended(e), log' = Append(log, e)
          PROVE  \/ Rumoured(a)'
                 \/ /\ Rumoured(a)' <=> Rumoured(a)
                    /\ Announced(a)' <=> Announced(a)
      <4>1. e.published
        BY <2>3, <3>2 DEF Appended, Published
      <4>. QED
        BY <3>2, <4>1, LatestAfterAppend
    <3>. QED
      BY <2>1, <2>2, <3>1, <3>2, LogStep
  <2>4. ASSUME NEW c \in Conn, Hello(c)
        PROVE  Rumoured(a)' \/ (Listed(a)' <=> Announced(a)')
    <3>1. PICK r \in inbox[c] :
            /\ r.op = "hello"
            /\ registry' = Pushed(r.app, c)
            /\ log' = Append(log, Started(r.app, c))
      BY <2>4 DEF Hello
    <3>2. r.app \in App
      BY <3>1, RequestType DEF TypeOK
    <3>3. Started(r.app, c) \in Broadcast
      BY <3>2, BrokerAssumption DEF Started, Broadcast, Event
    <3>4. /\ Concerns(Started(r.app, c), a) <=> r.app = a
          /\ Started(r.app, c).event.kind = "started"
      BY DEF Started, Concerns
    <3>5. \A d \in Conn : registry[a][d] \in Nat
      BY DEF TypeOK
    <3>6. \A d \in Conn :
            registry'[a][d] = IF a = r.app /\ d = c THEN registry[a][d] + 1 ELSE registry[a][d]
      BY <3>1, <3>2 DEF Pushed, TypeOK
    <3>7. Listed(a)' <=> r.app = a \/ Listed(a)
      BY <3>5, <3>6 DEF Listed
    <3>. QED
      BY <2>1, <3>1, <3>3, <3>4, <3>7, LatestAfterAppend
  <2>5. ASSUME NEW c \in Conn, HangUp(c), Introduced(c)
        PROVE  Rumoured(a)' \/ (Listed(a)' <=> Announced(a)')
    <3>1. log' = Append(log, Stopped(identity[c], c))
      BY <2>5 DEF HangUp
    <3>2. Stopped(identity[c], c) \in Broadcast
      BY <2>5, BrokerAssumption DEF Stopped, Broadcast, Event, TypeOK, Introduced
    <3>3. /\ Concerns(Stopped(identity[c], c), a) <=> identity[c] = a
          /\ Stopped(identity[c], c).event.kind = "stopped"
      BY DEF Stopped, Concerns
    <3>4. \A d \in Conn : registry'[a][d] = IF a = identity[c] THEN 0 ELSE registry[a][d]
      BY <2>5, HangUpStep
    <3>5. Listed(a)' <=> Listed(a) /\ identity[c] # a
      BY <3>4 DEF Listed
    <3>. QED
      BY <2>1, <3>1, <3>2, <3>3, <3>5, LatestAfterAppend
  <2>6. ASSUME NEW c \in Conn, HangUp(c), ~Introduced(c)
        PROVE  Rumoured(a)' \/ (Listed(a)' <=> Announced(a)')
    <3>1. registry' = registry /\ log' = log
      BY <2>6 DEF HangUp, shared
    <3>. QED
      BY <2>1, <2>2, <3>1 DEF Listed
  <2>. QED
    BY <2>3, <2>4, <2>5, <2>6
<1>. QED
  BY <1>1, <1>3, TypeCorrect, ProgressInvariant, PTL DEF Spec

-----------------------------------------------------------------------------
(* A BrokerClient that waits has one thing under way, its request, the       *)
(* reply being written or the reply in the pipe; one that does not has none. *)
One(S) == \E x \in S : S = {x}
RequestUnderWay(c) ==
  \/ One(inbox[c]) /\ RepliesPending(c) = {} /\ RepliesWritten(c) = {}
  \/ inbox[c] = {} /\ One(RepliesPending(c)) /\ RepliesWritten(c) = {}
  \/ inbox[c] = {} /\ RepliesPending(c) = {} /\ One(RepliesWritten(c))
NothingUnderWay(c) ==
  inbox[c] = {} /\ RepliesPending(c) = {} /\ RepliesWritten(c) = {}
Connected(c) == ClientUp(c) /\ task[c] \in {"none", "spawned", "serving"}
Balanced(c) ==
  Connected(c) =>
    /\ client[c] = "waiting" => RequestUnderWay(c)
    /\ client[c] # "waiting" => NothingUnderWay(c)
Balance == \A c \in Lawful : Balanced(c)

(* A step that leaves the three places and the client alone keeps the balance*)
(* of a connection that was up.                                              *)
LEMMA BalanceKept ==
  ASSUME NEW c, Balanced(c), Connected(c)' => Connected(c), client'[c] = client[c],
         inbox'[c] = inbox[c], writing'[c] = writing[c], out'[c] = out[c]
  PROVE  Balanced(c)'
<1>1. RepliesPending(c)' = RepliesPending(c) /\ RepliesWritten(c)' = RepliesWritten(c)
  BY DEF RepliesPending, RepliesWritten
<1>. QED
  BY <1>1 DEF Balanced, RequestUnderWay, NothingUnderWay, One

(* Handling a request turns it into one reply. *)
LEMMA BalanceAnswered ==
  ASSUME TypeOK, NEW c \in Conn, Balanced(c), NEW r \in inbox[c], NEW k \in ReplyKind,
         Answer(c, r, k)
  PROVE  Balanced(c)'
<1>1. /\ inbox'[c] = {} /\ writing'[c] = {[kind |-> k, to |-> r]} /\ task'[c] = task[c]
      /\ out'[c] = out[c] /\ client'[c] = client[c] /\ writing[c] = {}
  BY DEF Answer, Selecting, TypeOK, clientVars
<1>2. k # "event"
  BY DEF ReplyKind
<1>3. RepliesPending(c)' = {[kind |-> k, to |-> r]} /\ RepliesWritten(c)' = RepliesWritten(c)
  BY <1>1, <1>2 DEF RepliesPending, RepliesWritten
<1>4. One(RepliesPending(c)')
  BY <1>3 DEF One
<1>. QED
  BY <1>1, <1>3, <1>4 DEF Balanced, Connected, ClientUp, RequestUnderWay, NothingUnderWay

(* Passing an event, written or not, leaves the request where it is, were it *)
(* only as a frame that cannot be decoded any more.                          *)
LEMMA BalanceDelivered ==
  ASSUME TypeOK, NEW c \in Conn, Balanced(c), Deliver(c) \/ Lag(c)
  PROVE  Balanced(c)'
<1>1. /\ writing[c] = {} /\ task'[c] = task[c] /\ out'[c] = out[c] /\ client'[c] = client[c]
      /\ ReadAbandoned(c)
  BY DEF Deliver, Lag, Selecting, clientVars
<1>2. \A f \in writing'[c] : f.kind = "event"
  <2>1. CASE Deliver(c)
    <3>1. writing'[c] = IF Wants(c, log[cursor[c]]) THEN {EventFrame(cursor[c])} ELSE {}
      BY <2>1 DEF Deliver, TypeOK
    <3>. QED
      BY <3>1 DEF EventFrame
  <2>2. CASE Lag(c)
    BY <1>1, <2>2 DEF Lag
  <2>. QED
    BY <2>1, <2>2
<1>3. RepliesPending(c)' = {} /\ RepliesPending(c) = {} /\ RepliesWritten(c)' = RepliesWritten(c)
  BY <1>1, <1>2 DEF RepliesPending, RepliesWritten
<1>4. /\ inbox[c] = {} => inbox'[c] = {}
      /\ One(inbox[c]) => One(inbox'[c])
  <2>1. inbox'[c] = inbox[c] \/ (inbox[c] # {} /\ \E left : inbox'[c] = {left})
    BY <1>1 DEF ReadAbandoned, TypeOK
  <2>. QED
    BY <2>1 DEF One
<1>. QED
  BY <1>1, <1>3, <1>4 DEF Balanced, Connected, ClientUp, RequestUnderWay, NothingUnderWay, One

(* A write moves the reply, if it is one, from the task to the pipe.         *)
LEMMA BalanceWritten ==
  ASSUME TypeOK, InTransit, NEW c \in Conn, Balanced(c), WriteFrame(c)
  PROVE  Balanced(c)'
<1>1. PICK f \in writing[c] : out'[c] = Append(out[c], f)
  BY DEF WriteFrame, TypeOK
<1>2. /\ writing'[c] = {} /\ inbox'[c] = inbox[c] /\ client'[c] = client[c] /\ task'[c] = task[c]
  BY DEF WriteFrame, TypeOK, clientVars
<1>3. writing[c] = {f}
  BY <1>1 DEF InTransit
<1>4. /\ DOMAIN out[c] = 1 .. Len(out[c]) /\ Len(out[c]) \in Nat
      /\ DOMAIN out'[c] = 1 .. Len(out[c]) + 1
      /\ out'[c][Len(out[c]) + 1] = f
      /\ \A i \in DOMAIN out[c] : out'[c][i] = out[c][i]
  BY <1>1, WriteAppends
<1>5. RepliesPending(c)' = {}
  BY <1>2 DEF RepliesPending
<1>6. CASE f.kind = "event"
  <2>1. RepliesWritten(c)' = RepliesWritten(c)
    BY <1>4, <1>6 DEF RepliesWritten
  <2>2. RepliesPending(c) = {}
    BY <1>3, <1>6 DEF RepliesPending
  <2>. QED
    BY <1>2, <1>5, <2>1, <2>2
       DEF Balanced, Connected, ClientUp, RequestUnderWay, NothingUnderWay, One
<1>7. CASE f.kind # "event"
  <2>1. RepliesWritten(c)' = RepliesWritten(c) \cup {Len(out[c]) + 1}
    BY <1>4, <1>7 DEF RepliesWritten
  <2>2. RepliesPending(c) # {}
    BY <1>3, <1>7 DEF RepliesPending
  <2>3. RepliesWritten(c) = {} => One(RepliesWritten(c)')
    BY <2>1 DEF One
  <2>. QED
    BY <1>2, <1>5, <2>2, <2>3 DEF Balanced, Connected, ClientUp, RequestUnderWay, NothingUnderWay
<1>. QED
  BY <1>6, <1>7

(* A read takes an event and waits on, or takes the reply and waits no more. *)
LEMMA BalanceRead ==
  ASSUME TypeOK, NEW c \in Conn, c \in Lawful, Balanced(c), Read(c)
  PROVE  Balanced(c)'
<1>1. /\ writing'[c] = writing[c] /\ inbox'[c] = inbox[c] /\ task'[c] = task[c]
      /\ out[c] # <<>> /\ out'[c] = Tail(out[c])
      /\ client[c] \in {"waiting", "streaming"}
  BY DEF Read, TypeOK, taskVars
<1>2. out[c] \in Seq(Frame)
  BY DEF TypeOK
<1>3. /\ Len(out[c]) \in Nat /\ DOMAIN out[c] = 1 .. Len(out[c]) /\ 1 \in DOMAIN out[c]
      /\ DOMAIN out'[c] = 1 .. Len(out[c]) - 1
      /\ \A i \in DOMAIN out'[c] : i + 1 \in DOMAIN out[c] /\ out'[c][i] = out[c][i + 1]
      /\ Head(out[c]) = out[c][1]
  BY <1>1, <1>2
<1>4. RepliesWritten(c)' = {i \in DOMAIN out'[c] : i + 1 \in RepliesWritten(c)}
  BY <1>3 DEF RepliesWritten
<1>5. RepliesPending(c)' = RepliesPending(c)
  BY <1>1 DEF RepliesPending
<1>6. RepliesWritten(c) = {} => RepliesWritten(c)' = {}
  BY <1>4
<1>7. CASE out[c][1].kind = "event"
  <2>1. client'[c] = client[c]
    BY <1>3, <1>7 DEF Read, TypeOK
  <2>2. ASSUME NEW i \in RepliesWritten(c), RepliesWritten(c) = {i}
        PROVE  RepliesWritten(c)' = {i - 1}
    <3>1. i \in 2 .. Len(out[c])
      BY <1>3, <1>7 DEF RepliesWritten
    <3>2. i - 1 \in DOMAIN out'[c] /\ i - 1 + 1 = i
      BY <1>3, <3>1
    <3>3. \A j \in DOMAIN out'[c] : j + 1 = i => j = i - 1
      BY <1>3, <3>1
    <3>. QED
      BY <1>4, <2>2, <3>2, <3>3
  <2>3. One(RepliesWritten(c)) => One(RepliesWritten(c)')
    BY <2>2 DEF One
  <2>. QED
    BY <1>1, <1>5, <1>6, <2>1, <2>3
       DEF Balanced, Connected, ClientUp, RequestUnderWay, NothingUnderWay
<1>8. CASE out[c][1].kind # "event"
  <2>1. 1 \in RepliesWritten(c)
    BY <1>3, <1>8 DEF RepliesWritten
  <2>2. client'[c] \in {"ready", "gone"}
    BY <1>3, <1>8 DEF Read, TypeOK
  <2>3. ASSUME One(RepliesWritten(c))
        PROVE  RepliesWritten(c)' = {}
    <3>1. RepliesWritten(c) = {1}
      BY <2>1, <2>3 DEF One
    <3>. QED
      BY <1>3, <1>4, <3>1
  <2>. QED
    BY <1>1, <1>5, <2>1, <2>2, <2>3
       DEF Balanced, Connected, ClientUp, RequestUnderWay, NothingUnderWay
<1>. QED
  BY <1>7, <1>8

LEMMA BalanceStep ==
  ASSUME TypeOK, Progress, InTransit, Balance, [Next]_vars
  PROVE  Balance'
<1> SUFFICES ASSUME NEW c \in Conn, c \in Lawful
             PROVE  Balanced(c)'
  BY BrokerAssumption DEF Balance
<1>. USE DEF shared, taskVars, session, pipe, clientVars
<1>1. Balanced(c)
  BY DEF Balance
<1>2. CASE Rests(c)
  BY <1>1, <1>2, BalanceKept DEF Rests, Connected, ClientUp
<1>3. CASE AcceptFails
  <2>1. /\ task'[c] \in {"none", "spawned", "serving"} => task'[c] = task[c] /\ task[c] = "none"
        /\ writing'[c] = {} /\ inbox'[c] = inbox[c] /\ out'[c] = out[c] /\ client'[c] = client[c]
    BY <1>3 DEF AcceptFails, TypeOK
  <2>2. task[c] = "none" => writing'[c] = writing[c]
    BY <2>1 DEF InTransit
  <2>3. CASE task[c] = "none"
    BY <1>1, <2>1, <2>2, <2>3, BalanceKept DEF Connected, ClientUp
  <2>4. CASE task[c] # "none"
    BY <2>1, <2>4 DEF Balanced, Connected
  <2>. QED
    BY <2>3, <2>4
<1>4. CASE Accept(c) \/ Start(c)
  <2>1. /\ task[c] \in {"none", "spawned"}
        /\ UNCHANGED <<client, inbox, writing, out>>
    BY <1>4 DEF Accept, Start, Progress
  <2>. QED
    BY <1>1, <2>1, BalanceKept DEF Connected, ClientUp
<1>5. CASE Handle(c)
  <2>1. PICK r \in inbox[c], k \in ReplyKind : Answer(c, r, k)
    BY <1>5 DEF Handle, HelloRefused, Hello, Subscribe, Unsubscribe, PublishRefused, Publish,
                ListApps, Ping, ReplyKind
  <2>. QED
    BY <1>1, <2>1, BalanceAnswered
<1>6. CASE BadFrame(c) \/ HangUp(c) \/ WriteFails(c)
  <2>1. task'[c] \in {"failed", "ended"}
    BY <1>6 DEF BadFrame, HangUp, WriteFails, TypeOK
  <2>. QED
    BY <2>1 DEF Balanced, Connected
<1>7. CASE Deliver(c) \/ Lag(c)
  BY <1>1, <1>7, BalanceDelivered
<1>8. CASE WriteFrame(c)
  BY <1>1, <1>8, BalanceWritten
<1>9. CASE Read(c)
  BY <1>1, <1>9, BalanceRead
<1>10. CASE Open(c)
  <2>1. /\ client'[c] = "fresh" /\ client[c] = "absent"
        /\ inbox'[c] = inbox[c] /\ writing'[c] = writing[c] /\ out'[c] = out[c]
    BY <1>10 DEF Open, TypeOK
  <2>2. inbox[c] = {} /\ task[c] = "none"
    BY <2>1 DEF Progress
  <2>3. writing[c] = {} /\ out[c] = <<>>
    BY <2>2 DEF InTransit
  <2>4. RepliesPending(c)' = {} /\ RepliesWritten(c)' = {}
    BY <2>1, <2>3 DEF RepliesPending, RepliesWritten
  <2>. QED
    BY <2>1, <2>2, <2>4 DEF Balanced, NothingUnderWay
<1>11. CASE OpenRefused(c) \/ Exit(c) \/ Disconnected(c)
  <2>1. client'[c] \in {"refused", "gone"}
    BY <1>11 DEF OpenRefused, Exit, Disconnected, TypeOK
  <2>. QED
    BY <2>1 DEF Balanced, Connected, ClientUp
<1>12. CASE Stream(c)
  <2>1. /\ client[c] = "ready" /\ client'[c] = "streaming" /\ task'[c] = task[c]
        /\ inbox'[c] = inbox[c] /\ writing'[c] = writing[c] /\ out'[c] = out[c]
    BY <1>12 DEF Stream, TypeOK
  <2>2. RepliesPending(c)' = RepliesPending(c) /\ RepliesWritten(c)' = RepliesWritten(c)
    BY <2>1 DEF RepliesPending, RepliesWritten
  <2>. QED
    BY <1>1, <2>1, <2>2 DEF Balanced, Connected, ClientUp, NothingUnderWay
<1>13. ASSUME NEW r \in Request, Send(c, r)
       PROVE  Balanced(c)'
  <2>1. /\ client[c] \in {"fresh", "ready"} /\ client'[c] = "waiting" /\ task'[c] = task[c]
        /\ \E s : inbox'[c] = {s}
        /\ writing'[c] = writing[c] /\ out'[c] = out[c]
    BY <1>13 DEF Send, MayGoOn, TypeOK
  <2>2. RepliesPending(c)' = RepliesPending(c) /\ RepliesWritten(c)' = RepliesWritten(c)
    BY <2>1 DEF RepliesPending, RepliesWritten
  <2>3. One(inbox'[c])
    BY <2>1 DEF One
  <2>. QED
    BY <1>1, <2>1, <2>2, <2>3
       DEF Balanced, Connected, ClientUp, NothingUnderWay, RequestUnderWay
<1>. QED
  BY <1>2, <1>3, <1>4, <1>5, <1>6, <1>7, <1>8, <1>9, <1>10, <1>11, <1>12, <1>13, StepOf
     DEF Serve, Client

(* A BrokerClient waits exactly when its one request, or the one reply to   *)
(* it, is under way: no reply is lost, repeated or sent unasked.            *)
THEOREM EachRequestOneReply == Spec => []OneReplyPerRequest
<1>1. Init => Balance
  BY BrokerAssumption DEF Init, Balance, Balanced, Connected, ClientUp
<1>2. Balance => OneReplyPerRequest
  <2> SUFFICES ASSUME Balance, NEW c \in Lawful, Connected(c)
               PROVE  Cardinality(inbox[c]) + Cardinality(RepliesPending(c))
                        + Cardinality(RepliesWritten(c))
                        = (IF client[c] = "waiting" THEN 1 ELSE 0)
    BY DEF OneReplyPerRequest, Connected
  <2>1. Cardinality({}) = 0
    BY FS_EmptySet
  <2>2. \A S : One(S) => Cardinality(S) = 1
    BY FS_Singleton DEF One
  <2>3. CASE client[c] = "waiting"
    <3>1. RequestUnderWay(c)
      BY <2>3 DEF Balance, Balanced
    <3>. QED
      BY <2>1, <2>2, <2>3, <3>1 DEF RequestUnderWay
  <2>4. CASE client[c] # "waiting"
    <3>1. NothingUnderWay(c)
      BY <2>4 DEF Balance, Balanced
    <3>. QED
      BY <2>1, <2>4, <3>1 DEF NothingUnderWay
  <2>. QED
    BY <2>3, <2>4
<1>. QED
  BY <1>1, <1>2, BalanceStep, TypeCorrect, ProgressInvariant, InTransitInvariant, PTL DEF Spec

-----------------------------------------------------------------------------
(* The broker implements TopicBus.  Each step of a task or a client is one   *)
(* of the bus, or changes nothing that a client of the bus sees.             *)
Mail == [c \in Conn |-> Underway(c)]

(* A connection whose task has not been polled is nowhere in the log.        *)
Unjoined == \A c \in Conn : task[c] \in {"none", "spawned"} => cursor[c] = 0

LEMMA UnjoinedInvariant == Spec => []Unjoined
<1>1. Init => Unjoined
  BY DEF Init, Unjoined
<1>2. TypeOK /\ Progress /\ InTransit /\ Unjoined /\ [Next]_vars => Unjoined'
  <2>. SUFFICES ASSUME TypeOK, Progress, InTransit, Unjoined, [Next]_vars, NEW c \in Conn,
                       task'[c] \in {"none", "spawned"}
                PROVE  cursor'[c] = 0
    BY DEF Unjoined
  <2>1. Leaves(c) \/ Reads(c)
    BY PipeStep DEF Starts, Replies, Passes, Skips, Writes, Selecting
  <2>. QED
    BY <2>1 DEF Leaves, Reads, Unjoined
<1>. QED
  BY <1>1, <1>2, TypeCorrect, ProgressInvariant, InTransitInvariant, PTL DEF Spec

(* The mail of the other connections stays as it is.                         *)
LEMMA MailAt ==
  ASSUME TypeOK, NEW c \in Conn, Accept(c) \/ Serve(c) \/ Client(c), NEW S, Underway(c)' = S
  PROVE  Mail' = [Mail EXCEPT ![c] = S]
<1>1. \A d \in Conn \ {c} : Underway(d)' = Underway(d)
  BY BystanderRests DEF Rests, Underway, InFlight
<1>. QED
  BY <1>1 DEF Mail

LEMMA MailKept ==
  ASSUME TypeOK, NEW c \in Conn, Accept(c) \/ Serve(c) \/ Client(c), Underway(c)' = Underway(c)
  PROVE  Mail' = Mail
<1>1. \A d \in Conn \ {c} : Underway(d)' = Underway(d)
  BY BystanderRests DEF Rests, Underway, InFlight
<1>. QED
  BY <1>1 DEF Mail

(* A task that takes a request has written its last frame, and a reply is no *)
(* mail.                                                                     *)
LEMMA AnswerIsNoMail ==
  ASSUME TypeOK, NEW c \in Conn, Handle(c), NEW r, NEW k \in ReplyKind, Answer(c, r, k)
  PROVE  Mail' = Mail
<1>1. out' = out /\ writing[c] = {} /\ writing'[c] = {[kind |-> k, to |-> r]}
  BY DEF Answer, Selecting, TypeOK
<1>2. [kind |-> k, to |-> r].kind # "event"
  BY DEF ReplyKind
<1>3. Underway(c)' = Underway(c)
  BY <1>1, <1>2 DEF Underway, InFlight
<1>. QED
  BY <1>3, MailKept DEF Serve

LEMMA BusRests ==
  ASSUME UNCHANGED <<log, registry, identity, subs, cursor>>,
         Served' = Served, Gone' = Gone, Mail' = Mail
  PROVE  UNCHANGED Bus!vars
BY DEF Bus!vars, Bus!directory, Bus!delivery, Running, Mail

LEMMA BusDisconnects ==
  ASSUME InTransit, UNCHANGED <<log, registry, identity, subs, cursor>>,
         Served' \subseteq Served, Gone \subseteq Gone',
         \A c \in Conn : /\ Underway(c)' \subseteq Underway(c)
                         /\ c \in Served' \ Gone' => Underway(c)' = Underway(c)
  PROVE  Bus!Disconnect
<1>1. \A c \in Conn : Underway(c) \subseteq DOMAIN log
  BY DEF InTransit, Underway
<1>2. Gone' \subseteq Conn
  BY DEF Gone
<1>3. Mail' \in [Conn -> SUBSET DOMAIN log]
  BY <1>1 DEF Mail
<1>4. \A c \in Conn : Mail[c] = Underway(c) /\ Mail'[c] = Underway(c)'
  BY DEF Mail
<1>5. Running' = Running
  BY DEF Running
<1>. QED
  BY <1>2, <1>3, <1>4, <1>5 DEF Bus!Disconnect, Bus!directory, Mail

(* The requests a task handles: the bus sees the accepted Hello, the changes *)
(* of subscriptions and the accepted publications.                           *)
LEMMA BusHandles ==
  ASSUME TypeOK, NEW c \in Conn, Handle(c)
  PROVE  Bus!Next \/ UNCHANGED Bus!vars
<1>1. \A r, k : k \in ReplyKind /\ Answer(c, r, k) =>
        /\ Mail' = Mail /\ Served' = Served /\ Gone' = Gone /\ cursor' = cursor /\ c \in Served
  BY AnswerIsNoMail DEF Answer, Served, Gone, Selecting, clientVars
<1>2. {"welcome", "ok", "apps", "protocolMismatch", "notIdentified"} = ReplyKind
  BY DEF ReplyKind
<1>3. CASE HelloRefused(c) \/ PublishRefused(c) \/ ListApps(c) \/ Ping(c)
  <2>1. PICK r \in inbox[c], k \in ReplyKind : Answer(c, r, k) /\ UNCHANGED <<shared, session>>
    BY <1>2, <1>3 DEF HelloRefused, PublishRefused, ListApps, Ping
  <2>. QED
    BY <1>1, <2>1, BusRests DEF shared, session
<1>4. CASE Hello(c)
  <2>1. PICK r \in inbox[c] :
          /\ r.op = "hello" /\ Answer(c, r, "welcome")
          /\ registry' = Pushed(r.app, c) /\ log' = Append(log, Started(r.app, c))
          /\ identity' = [identity EXCEPT ![c] = r.app] /\ subs' = subs
    BY <1>4 DEF Hello
  <2>2. r.app \in App
    BY <2>1, RequestType DEF TypeOK
  <2>3. registry \in [App -> [Conn -> Nat]]
    BY DEF TypeOK
  <2>4. \A a \in App, d \in Conn :
          registry'[a][d] = IF a = r.app /\ d = c THEN registry[a][d] + 1 ELSE registry[a][d]
    BY <2>1, <2>2, <2>3 DEF Pushed
  <2>5. \A a \in App, d \in Conn : registry[a][d] \in Nat
    BY <2>3
  <2>6. Running' = Running \cup {r.app}
    BY <2>2, <2>4, <2>5 DEF Running
  <2>7. Started(r.app, c) = Bus!Started(r.app, c)
    BY DEF Started, Bus!Started
  <2>8. Bus!Introduce(c, r.app)
    BY <1>1, <1>2, <2>1, <2>6, <2>7 DEF Bus!Introduce, Bus!delivery, Mail
  <2>. QED
    BY <2>2, <2>8 DEF Bus!Next
<1>5. CASE Subscribe(c) \/ Unsubscribe(c)
  <2>1. PICK r \in inbox[c] :
          /\ r.op \in {"subscribe", "unsubscribe"} /\ Answer(c, r, "ok")
          /\ \/ subs' = [subs EXCEPT ![c] = @ \cup {r.topic}]
             \/ subs' = [subs EXCEPT ![c] = @ \ {r.topic}]
          /\ UNCHANGED <<shared, identity>>
    BY <1>5 DEF Subscribe, Unsubscribe
  <2>2. r.topic \in Topic
    BY <2>1, RequestType DEF TypeOK
  <2>3. Running' = Running
    BY <2>1 DEF Running, shared
  <2>4. Bus!Subscribe(c, r.topic) \/ Bus!Unsubscribe(c, r.topic)
    BY <1>1, <1>2, <2>1, <2>3
       DEF Bus!Subscribe, Bus!Unsubscribe, Bus!delivery, Bus!directory, Mail, shared
  <2>. QED
    BY <2>2, <2>4 DEF Bus!Next
<1>6. CASE Publish(c)
  <2>1. PICK r \in inbox[c] :
          /\ r.op = "publish" /\ Introduced(c) /\ Answer(c, r, "ok")
          /\ log' = Append(log, Published(r.topic, r.event, identity[c], c))
          /\ UNCHANGED <<registry, session>>
    BY <1>6 DEF Publish
  <2>2. r.topic \in Topic /\ r.event \in Event /\ Event = Bus!Event
    BY <2>1, RequestType DEF TypeOK, Event, Bus!Event
  <2>3. Running' = Running
    BY <2>1 DEF Running
  <2>4. Published(r.topic, r.event, identity[c], c)
          = Bus!Published(r.topic, r.event, identity[c], c)
    BY DEF Published, Bus!Published
  <2>5. Bus!Publish(c, r.topic, r.event)
    BY <1>1, <1>2, <2>1, <2>3, <2>4
       DEF Bus!Publish, Bus!delivery, Bus!directory, Mail, session, Introduced
  <2>. QED
    BY <2>2, <2>5 DEF Bus!Next
<1>. QED
  BY <1>3, <1>4, <1>5, <1>6 DEF Handle

(* A clean exit takes its application out of the directory, or none.         *)
LEMMA BusTakesLeave ==
  ASSUME TypeOK, InTransit, NEW c \in Conn, HangUp(c)
  PROVE  Bus!Next
<1>1. /\ c \in Served \cap Gone /\ Served' = Served \ {c} /\ Gone' = Gone
      /\ UNCHANGED <<identity, subs, cursor, writing, out>>
  BY HangUpStep DEF HangUp, Served, Gone, session, pipe, clientVars, TypeOK
<1>2. Mail' = Mail
  BY <1>1 DEF Mail, Underway, InFlight
<1>3. CASE Introduced(c)
  <2>1. log' = Append(log, Stopped(identity[c], c))
    BY <1>3 DEF HangUp
  <2>2. \A a \in App, d \in Conn :
          registry'[a][d] = IF a = identity[c] THEN 0 ELSE registry[a][d]
    BY HangUpStep
  <2>3. Running' = Running \ {identity[c]}
    BY <2>2 DEF Running
  <2>4. Stopped(identity[c], c) = Bus!Stopped(identity[c], c)
    BY DEF Stopped, Bus!Stopped
  <2>5. Bus!Retire(c)
    BY <1>1, <1>2, <1>3, <2>1, <2>3, <2>4 DEF Bus!Retire, Bus!delivery, Mail, Introduced
  <2>. QED
    BY <2>5 DEF Bus!Next
<1>4. CASE ~Introduced(c)
  <2>1. UNCHANGED <<log, registry>>
    BY <1>4 DEF HangUp, shared
  <2>2. \A d \in Conn : Underway(d)' = Underway(d)
    BY <1>1 DEF Underway, InFlight
  <2>3. Bus!Disconnect
    BY <1>1, <2>1, <2>2, BusDisconnects
  <2>. QED
    BY <2>3 DEF Bus!Next
<1>. QED
  BY <1>3, <1>4

(* The receiver of a task moves along the log: over the next event, which it *)
(* sends if it wants it, or to the oldest one the ring still holds.          *)
LEMMA BusDelivers ==
  ASSUME TypeOK, InTransit, NEW c \in Conn, Deliver(c)
  PROVE  Bus!Next
<1>1. /\ task[c] = "serving" /\ writing[c] = {} /\ cursor[c] \in Oldest .. Len(log)
      /\ cursor' = [cursor EXCEPT ![c] = @ + 1]
      /\ writing' = [writing EXCEPT ![c] =
                       IF Wants(c, log[cursor[c]]) THEN {EventFrame(cursor[c])} ELSE {}]
      /\ UNCHANGED <<shared, task, session, out, client>>
  BY DEF Deliver, Selecting, clientVars
<1>2. Len(log) \in Nat /\ DOMAIN log = 1 .. Len(log) /\ cursor[c] \in Nat /\ cursor[c] # 0
  BY <1>1 DEF TypeOK, InTransit
<1>3. cursor[c] \in DOMAIN log /\ cursor[c] + 1 <= Len(log) + 1
  BY <1>1, <1>2, OldestType DEF TypeOK
<1>4. /\ c \in Served /\ Served' = Served /\ Gone' = Gone /\ Running' = Running
      /\ UNCHANGED <<log, identity, subs>>
  BY <1>1 DEF Served, Gone, Running, shared, session
<1>5. Wants(c, log[cursor[c]]) <=> Bus!Wanted(c, log[cursor[c]])
  BY DEF Wants, Bus!Wanted
<1>6. writing'[c] = IF Wants(c, log[cursor[c]]) THEN {EventFrame(cursor[c])} ELSE {}
  BY <1>1 DEF TypeOK
<1>7. Serve(c)
  BY DEF Serve
<1>8. CASE Wants(c, log[cursor[c]])
  <2>1. InFlight(c)' = InFlight(c) \cup {EventFrame(cursor[c])}
    BY <1>1, <1>6, <1>8 DEF InFlight
  <2>2. EventFrame(cursor[c]).kind = "event" /\ EventFrame(cursor[c]).seq = cursor[c]
    BY DEF EventFrame
  <2>3. Underway(c)' = Underway(c) \cup {cursor[c]}
    BY <2>1, <2>2 DEF Underway
  <2>4. Mail' = [Mail EXCEPT ![c] = Underway(c) \cup {cursor[c]}]
    BY <1>7, <2>3, MailAt
  <2>5. Mail' = [Mail EXCEPT ![c] = @ \cup {cursor[c]}]
    BY <2>4 DEF Mail
  <2>6. Bus!Deliver(c)
    BY <1>1, <1>3, <1>4, <1>5, <1>8, <2>5 DEF Bus!Deliver, Bus!directory, Mail
  <2>. QED
    BY <2>6 DEF Bus!Next
<1>9. CASE ~Wants(c, log[cursor[c]])
  <2>1. Underway(c)' = Underway(c)
    BY <1>1, <1>6, <1>9 DEF Underway, InFlight
  <2>2. Mail' = Mail
    BY <1>7, <2>1, MailKept
  <2>3. \A i \in cursor[c] .. (cursor[c] + 1) - 1 : i = cursor[c]
    BY <1>2
  <2>4. cursor[c] + 1 \in cursor[c] .. Len(log) + 1
    BY <1>2, <1>3
  <2>5. cursor' = [cursor EXCEPT ![c] = cursor[c] + 1]
    BY <1>1
  <2>6. Bus!Pass(c)
    BY <1>4, <1>5, <1>9, <2>2, <2>3, <2>4, <2>5 DEF Bus!Pass, Bus!directory, Mail
  <2>. QED
    BY <2>6 DEF Bus!Next
<1>. QED
  BY <1>8, <1>9

LEMMA BusLags ==
  ASSUME TypeOK, InTransit, NEW c \in Conn, Lag(c)
  PROVE  Bus!Next
<1>1. /\ task[c] = "serving" /\ cursor[c] < Oldest
      /\ cursor' = [cursor EXCEPT ![c] = Oldest]
      /\ UNCHANGED <<shared, task, writing, session, out, client>>
  BY DEF Lag, Selecting, clientVars
<1>2. Len(log) \in Nat /\ cursor[c] \in Nat /\ cursor[c] # 0
  BY <1>1 DEF TypeOK, InTransit
<1>3. Oldest \in cursor[c] .. Len(log) + 1 /\ Oldest = Len(log) - EventBuffer + 1
  BY <1>1, <1>2, BrokerAssumption DEF Oldest
<1>4. \A i \in cursor[c] .. Oldest - 1 : i + EventBuffer <= Len(log)
  BY <1>2, <1>3, BrokerAssumption
<1>5. /\ c \in Served /\ Served' = Served /\ Gone' = Gone /\ Running' = Running
      /\ UNCHANGED <<log, identity, subs>>
  BY <1>1 DEF Served, Gone, Running, shared, session
<1>6. Mail' = Mail
  BY <1>1 DEF Mail, Underway, InFlight
<1>7. Bus!Pass(c)
  BY <1>1, <1>3, <1>4, <1>5, <1>6 DEF Bus!Pass, Bus!directory, Mail
<1>. QED
  BY <1>7 DEF Bus!Next

(* A frame that is written moves from the task to the pipe, and is under way *)
(* before and after.                                                         *)
LEMMA BusUnawareOfWrites ==
  ASSUME TypeOK, InTransit, NEW c \in Conn, WriteFrame(c)
  PROVE  UNCHANGED Bus!vars
<1>1. PICK f \in writing[c] : out' = [out EXCEPT ![c] = Append(@, f)]
  BY DEF WriteFrame
<1>2. out'[c] = Append(out[c], f) /\ writing'[c] = {}
  BY <1>1 DEF WriteFrame, TypeOK
<1>3. writing[c] = {f}
  BY DEF InTransit
<1>4. /\ DOMAIN out[c] = 1 .. Len(out[c]) /\ Len(out[c]) \in Nat
      /\ DOMAIN out'[c] = 1 .. Len(out[c]) + 1 /\ out'[c][Len(out[c]) + 1] = f
      /\ \A i \in DOMAIN out[c] : out'[c][i] = out[c][i]
  BY <1>2, WriteAppends
<1>5. {out'[c][i] : i \in DOMAIN out'[c]} = {out[c][i] : i \in DOMAIN out[c]} \cup {f}
  <2>1. ASSUME NEW i \in DOMAIN out'[c]
        PROVE  out'[c][i] \in {out[c][j] : j \in DOMAIN out[c]} \cup {f}
    <3>1. i \in DOMAIN out[c] \/ i = Len(out[c]) + 1
      BY <1>4
    <3>. QED
      BY <1>4, <3>1
  <2>2. ASSUME NEW j \in DOMAIN out[c]
        PROVE  out[c][j] \in {out'[c][i] : i \in DOMAIN out'[c]}
    <3>1. j \in DOMAIN out'[c] /\ out'[c][j] = out[c][j]
      BY <1>4
    <3>. QED
      BY <3>1
  <2>3. Len(out[c]) + 1 \in DOMAIN out'[c]
    BY <1>4
  <2>. QED
    BY <1>4, <2>1, <2>2, <2>3
<1>6. InFlight(c)' = InFlight(c)
  BY <1>2, <1>3, <1>5 DEF InFlight
<1>7. Mail' = Mail
  BY <1>6, MailKept DEF Serve, Underway
<1>. QED
  BY <1>7, BusRests DEF WriteFrame, shared, session, clientVars, Served, Gone

(* The event a client reads is the oldest of those on their way to it.       *)
LEMMA BusReceives ==
  ASSUME TypeOK, InTransit, NEW c \in Conn, InOrder(c), Read(c), Head(out[c]).kind = "event"
  PROVE  Bus!Next
<1>1. /\ out[c] # <<>> /\ out' = [out EXCEPT ![c] = Tail(@)]
      /\ client' = client
      /\ UNCHANGED <<listener, shared, taskVars, session>>
  BY DEF Read, TypeOK
<1>2. out'[c] = Tail(out[c]) /\ writing'[c] = writing[c] /\ Reads(c)
  BY <1>1 DEF TypeOK, Reads, taskVars, session
<1>3. /\ DOMAIN out[c] = 1 .. Len(out[c]) /\ Len(out[c]) \in Nat
      /\ \A i \in DOMAIN out'[c] : i + 1 \in DOMAIN out[c] /\ out'[c][i] = out[c][i + 1]
  BY <1>2, ReadShifts
<1>4. out[c] \in Seq(Frame)
  BY DEF TypeOK
<1>5. Head(out[c]) = out[c][1] /\ 1 \in DOMAIN out[c] /\ DOMAIN out'[c] = 1 .. Len(out[c]) - 1
  <2>1. PICK s \in Seq(Frame) : s = out[c] /\ s # <<>>
    BY <1>1, <1>4
  <2>2. Head(s) = s[1] /\ Len(s) # 0
    BY <2>1
  <2>3. DOMAIN Tail(s) = 1 .. Len(s) - 1
    BY <2>1
  <2>. QED
    BY <1>2, <1>3, <2>1, <2>2, <2>3
<1>6. PICK f : f = out[c][1] /\ f.kind = "event"
  BY <1>5
<1>7. InFlight(c) = InFlight(c)' \cup {f}
  <2>1. ASSUME NEW j \in DOMAIN out[c]
        PROVE  out[c][j] \in {out'[c][i] : i \in DOMAIN out'[c]} \cup {f}
    <3>1. CASE j = 1
      BY <1>6, <3>1
    <3>2. CASE j # 1
      <4>1. j - 1 \in DOMAIN out'[c] /\ (j - 1) + 1 = j
        BY <1>3, <1>5, <3>2
      <4>2. out'[c][j - 1] = out[c][j]
        BY <1>3, <4>1
      <4>. QED
        BY <4>1, <4>2
    <3>. QED
      BY <3>1, <3>2
  <2>2. ASSUME NEW i \in DOMAIN out'[c]
        PROVE  out'[c][i] \in {out[c][j] : j \in DOMAIN out[c]}
    BY <1>3
  <2>3. f \in {out[c][j] : j \in DOMAIN out[c]}
    BY <1>5, <1>6
  <2>. QED
    BY <1>2, <2>1, <2>2, <2>3 DEF InFlight
<1>8. \A g \in InFlight(c)' : g.kind = "event" => f.seq < g.seq
  <2>1. ASSUME NEW i \in DOMAIN out'[c], out'[c][i].kind = "event"
        PROVE  f.seq < out'[c][i].seq
    <3>1. i + 1 \in DOMAIN out[c] /\ 1 < i + 1 /\ out'[c][i] = out[c][i + 1]
      BY <1>3, <1>5
    <3>. QED
      BY <1>5, <1>6, <2>1, <3>1 DEF InOrder
  <2>2. ASSUME NEW g \in writing[c], g.kind = "event"
        PROVE  f.seq < g.seq
    BY <1>5, <1>6, <2>2 DEF InOrder
  <2>. QED
    BY <1>2, <2>1, <2>2 DEF InFlight
<1>9. f.seq \in Nat /\ \A j \in Underway(c) : j \in Nat /\ f.seq <= j
  <2>1. \A g \in InFlight(c) : g.kind = "event" => g.seq \in DOMAIN log
    BY DEF InTransit
  <2>2. Len(log) \in Nat /\ DOMAIN log = 1 .. Len(log)
    BY DEF TypeOK
  <2>3. \A g \in InFlight(c) : g.kind = "event" => g.seq \in Nat
    BY <2>1, <2>2
  <2>. QED
    BY <1>6, <1>7, <1>8, <2>3 DEF Underway
<1>10. f.seq \in Underway(c) /\ Underway(c)' = Underway(c) \ {f.seq}
  <2>1. f.seq \in Underway(c)
    BY <1>6, <1>7 DEF Underway
  <2>2. \A j \in Underway(c)' : j # f.seq
    BY <1>6, <1>7, <1>8, <1>9 DEF Underway
  <2>3. Underway(c) = Underway(c)' \cup {f.seq}
    BY <1>6, <1>7 DEF Underway
  <2>. QED
    BY <2>1, <2>2, <2>3
<1>11. Mail' = [Mail EXCEPT ![c] = Underway(c) \ {f.seq}]
  BY <1>10, MailAt DEF Client
<1>12. Mail[c] = Underway(c)
  BY DEF Mail
<1>13. Served' = Served /\ Gone' = Gone /\ Running' = Running
  BY <1>1 DEF Served, Gone, Running, shared, taskVars
<1>14. UNCHANGED <<log, identity, subs, cursor>>
  BY <1>1 DEF shared, taskVars, session
<1>15. Bus!Receive(c)
  BY <1>9, <1>10, <1>11, <1>12, <1>13, <1>14 DEF Bus!Receive, Bus!directory, Mail
<1>. QED
  BY <1>15 DEF Bus!Next

(* Everything else a client does, and every way to lose a connection without *)
(* a cleanup, at most takes connections and their mail from the bus.         *)
LEMMA BusLosesClients ==
  ASSUME TypeOK, InTransit, NEW c \in Conn,
         Accept(c) \/ BadFrame(c) \/ WriteFails(c) \/ Client(c),
         Read(c) => Head(out[c]).kind # "event"
  PROVE  Bus!Disconnect
<1>1. UNCHANGED <<log, registry, identity, subs, cursor>>
  BY DEF Accept, BadFrame, WriteFails, Client, Open, OpenRefused, Read, Stream, Exit,
         Disconnected, Send, shared, session, taskVars
<1>2. /\ task'[c] = "serving" => task[c] = "serving"
      /\ client[c] = "gone" => client'[c] = "gone"
  <2>1. CASE Read(c)
    BY <2>1 DEF Read, taskVars, TypeOK
  <2>2. CASE \E r \in Request : Send(c, r)
    BY <2>2 DEF Send, MayGoOn, taskVars, TypeOK
  <2>3. CASE Accept(c) \/ BadFrame(c) \/ WriteFails(c)
    BY <2>3 DEF Accept, BadFrame, WriteFails, Selecting, clientVars, TypeOK
  <2>4. CASE Open(c) \/ OpenRefused(c) \/ Stream(c) \/ Exit(c) \/ Disconnected(c)
    BY <2>4 DEF Open, OpenRefused, Stream, Exit, Disconnected, taskVars, TypeOK
  <2>. QED
    BY <2>1, <2>2, <2>3, <2>4 DEF Client
<1>3. \A d \in Conn \ {c} : Rests(d)
  BY BystanderRests DEF Serve
<1>4. Served' \subseteq Served /\ Gone \subseteq Gone'
  BY <1>2, <1>3 DEF Rests, Served, Gone
<1>5. /\ Underway(c)' \subseteq Underway(c)
      /\ c \in Served' \ Gone' => Underway(c)' = Underway(c)
  <2>1. CASE Read(c)
    <3>1. out[c] # <<>> /\ out'[c] = Tail(out[c]) /\ writing'[c] = writing[c] /\ Reads(c)
      BY <2>1 DEF Read, TypeOK, Reads, taskVars, session
    <3>2. /\ DOMAIN out[c] = 1 .. Len(out[c]) /\ Len(out[c]) \in Nat
          /\ \A i \in DOMAIN out'[c] : i + 1 \in DOMAIN out[c] /\ out'[c][i] = out[c][i + 1]
      BY <3>1, ReadShifts
    <3>3. out[c] \in Seq(Frame)
      BY DEF TypeOK
    <3>4. out[c][1].kind # "event" /\ DOMAIN out'[c] = 1 .. Len(out[c]) - 1
      BY <2>1, <3>1, <3>3
    <3>5. \A g \in InFlight(c)' : g \in InFlight(c)
      BY <3>1, <3>2 DEF InFlight
    <3>6. \A g \in InFlight(c) : g.kind = "event" => g \in InFlight(c)'
      <4>1. ASSUME NEW j \in DOMAIN out[c], out[c][j].kind = "event"
            PROVE  out[c][j] \in {out'[c][i] : i \in DOMAIN out'[c]}
        <5>1. j - 1 \in DOMAIN out'[c] /\ (j - 1) + 1 = j
          BY <3>2, <3>4, <4>1
        <5>2. out'[c][j - 1] = out[c][j]
          BY <3>2, <5>1
        <5>. QED
          BY <5>1, <5>2
      <4>. QED
        BY <3>1, <4>1 DEF InFlight
    <3>. QED
      BY <3>5, <3>6 DEF Underway
  <2>2. CASE WriteFails(c) \/ Exit(c)
    <3>1. /\ out'[c] = out[c] \/ out'[c] = <<>>
          /\ writing'[c] = writing[c] \/ writing'[c] = {}
          /\ c \notin Served' \ Gone'
      BY <2>2 DEF WriteFails, Exit, Served, Gone, pipe, taskVars, TypeOK
    <3>. QED
      BY <3>1 DEF Underway, InFlight
  <2>3. CASE ~Read(c) /\ ~WriteFails(c) /\ ~Exit(c)
    <3>1. out'[c] = out[c] /\ writing'[c] = writing[c]
      BY <2>3 DEF Accept, BadFrame, Client, Open, OpenRefused, Stream, Disconnected, Send,
                  pipe, taskVars
    <3>. QED
      BY <3>1 DEF Underway, InFlight
  <2>. QED
    BY <2>1, <2>2, <2>3
<1>6. \A d \in Conn : /\ Underway(d)' \subseteq Underway(d)
                      /\ d \in Served' \ Gone' => Underway(d)' = Underway(d)
  <2>1. \A d \in Conn \ {c} : Underway(d)' = Underway(d)
    BY <1>3 DEF Rests, Underway, InFlight
  <2>. QED
    BY <1>5, <2>1
<1>. QED
  BY <1>1, <1>4, <1>6, BusDisconnects

(* The broker implements the topic bus: every step of the runtime, of its    *)
(* tasks and of the clients is one step of TopicBus or none, for any number  *)
(* of connections, however small the ring and the pipes.                     *)
THEOREM BrokerImplementsTopicBus == Spec => ImplementsTopicBus
<1>1. Init => Bus!Init
  <2> SUFFICES ASSUME Init PROVE Bus!Init
    OBVIOUS
  <2>1. Running = {} /\ Served = {} /\ Gone = {}
    BY DEF Init, Running, Served, Gone
  <2>2. \A c \in Conn : Underway(c) = {}
    BY DEF Init, Underway, InFlight
  <2>. QED
    BY <2>1, <2>2 DEF Init, Bus!Init
<1>2. TypeOK /\ Progress /\ InTransit /\ Unjoined /\ InOrderAtMostOnce /\ [Next]_vars
        => [Bus!Next]_(Bus!vars)
  <2> SUFFICES ASSUME TypeOK, Progress, InTransit, Unjoined, InOrderAtMostOnce, [Next]_vars
               PROVE  Bus!Next \/ UNCHANGED Bus!vars
    OBVIOUS
  <2>1. CASE Spawn \/ UNCHANGED vars
    <3>1. UNCHANGED <<shared, taskVars, session, pipe, clientVars>>
      BY <2>1 DEF Spawn, vars
    <3>. QED
      BY <3>1, BusRests
         DEF shared, taskVars, session, pipe, clientVars, Served, Gone, Mail, Underway, InFlight
  <2>2. CASE AcceptFails
    <3>1. /\ Served' \subseteq {} /\ Gone' = Gone
          /\ UNCHANGED <<log, registry, identity, subs, cursor, out>>
      BY <2>2 DEF AcceptFails, Served, Gone, shared, session, pipe, clientVars, TypeOK
    <3>2. \A c \in Conn : Underway(c)' \subseteq Underway(c)
      BY <2>2, <3>1 DEF AcceptFails, Underway, InFlight
    <3>3. Bus!Disconnect
      BY <3>1, <3>2, BusDisconnects
    <3>. QED
      BY <3>3 DEF Bus!Next
  <2>3. ASSUME NEW t \in Topic, NEW n \in Event, HostPublish(t, n)
        PROVE  Bus!Next \/ UNCHANGED Bus!vars
    <3>1. /\ log' = Append(log, Published(t, n, NoApp, Host))
          /\ UNCHANGED <<registry, taskVars, session, pipe, clientVars>>
      BY <2>3 DEF HostPublish
    <3>2. Running' = Running /\ Served' = Served /\ Gone' = Gone /\ Mail' = Mail
      BY <3>1 DEF Running, Served, Gone, Mail, Underway, InFlight, taskVars, pipe, clientVars
    <3>3. Published(t, n, NoApp, Host) = Bus!Published(t, n, NoApp, Host) /\ Event = Bus!Event
      BY DEF Published, Bus!Published, Event, Bus!Event
    <3>4. Bus!HostPublish(t, n)
      BY <3>1, <3>2, <3>3
         DEF Bus!HostPublish, Bus!directory, Bus!delivery, Mail, taskVars, session
    <3>. QED
      BY <3>3, <3>4 DEF Bus!Next
  <2>4. ASSUME NEW c \in Conn, Accept(c) \/ Serve(c) \/ Client(c)
        PROVE  Bus!Next \/ UNCHANGED Bus!vars
    <3>1. CASE Start(c)
      <4>1. /\ c \notin Served /\ cursor[c] = 0
            /\ cursor' = [cursor EXCEPT ![c] = Len(log) + 1]
            /\ UNCHANGED <<shared, writing, session, pipe, clientVars>>
        BY <3>1 DEF Start, Served, Unjoined
      <4>2. Served' = Served \cup {c}
        BY <3>1 DEF Start, Served, TypeOK
      <4>3. Running' = Running /\ Gone' = Gone /\ Mail' = Mail
        BY <4>1 DEF Running, Gone, Mail, Underway, InFlight, shared, pipe, clientVars
      <4>4. Bus!Join(c)
        BY <4>1, <4>2, <4>3 DEF Bus!Join, Bus!directory, Mail, shared, session
      <4>. QED
        BY <4>4 DEF Bus!Next
    <3>2. CASE Handle(c)
      BY <3>2, BusHandles
    <3>3. CASE HangUp(c)
      BY <3>3, BusTakesLeave
    <3>4. CASE Deliver(c) \/ Lag(c)
      BY <3>4, BusDelivers, BusLags
    <3>5. CASE WriteFrame(c)
      BY <3>5, BusUnawareOfWrites
    <3>6. CASE Read(c) /\ Head(out[c]).kind = "event"
      <4>1. InOrder(c)
        BY DEF InOrder, InOrderAtMostOnce
      <4>. QED
        BY <3>6, <4>1, BusReceives
    <3>7. CASE Accept(c) \/ BadFrame(c) \/ WriteFails(c) \/ Client(c)
      BY <3>6, <3>7, BusLosesClients DEF Bus!Next
    <3>. QED
      BY <2>4, <3>1, <3>2, <3>3, <3>4, <3>5, <3>7 DEF Serve
  <2>. QED
    BY <2>1, <2>2, <2>3, <2>4 DEF Next
<1>. QED
  BY <1>1, <1>2, TypeCorrect, ProgressInvariant, InTransitInvariant, UnjoinedInvariant,
     EventsInOrderAtMostOnce, PTL DEF Spec, ImplementsTopicBus, Bus!Spec
=============================================================================
