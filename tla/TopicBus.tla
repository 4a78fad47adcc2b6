------------------------------ MODULE TopicBus ------------------------------
(***************************************************************************)
(* What the broker of the suite (crates/slate-broker) promises: a topic    *)
(* bus and a directory of the running applications.  There is one sequence *)
(* of events.  A connection that is served moves along it, is sent what it *)
(* wants and may miss what is older than the last EventBuffer events; what *)
(* has been sent to it arrives oldest first and is lost only with the      *)
(* connection.  An application enters and leaves the directory in the same *)
(* step that tells everybody so.                                           *)
(***************************************************************************)
EXTENDS Naturals, Sequences

CONSTANTS
  Conn,          \* connections
  App,           \* applications
  Topic,         \* topics
  Lifecycle,     \* the topic on which the directory reports
  NoApp,         \* no application
  Host,          \* the publisher that is no connection
  EventBuffer    \* how many events a connection may be behind and miss none

VARIABLES
  events,   \* every event, oldest first
  running,  \* the directory
  names,    \* names[c]: the application c goes by
  topics,   \* topics[c]: what c has subscribed to
  served,   \* the connections the bus serves
  gone,     \* the connections whose client is gone
  next,     \* next[c]: the event c is at; 0 before it has joined
  mail      \* mail[c]: the events sent to c and not yet received

directory == <<running, names>>
delivery == <<next, mail>>
vars == <<events, directory, topics, served, gone, delivery>>

(* What is announced or published; by and published are history.            *)
Event == [kind : {"started", "stopped"}, app : App] \cup [kind : {"other"}]
Started(a, c) ==
  [topic |-> Lifecycle, event |-> [kind |-> "started", app |-> a], origin |-> a,
   by |-> c, published |-> FALSE]
Stopped(a, c) ==
  [topic |-> Lifecycle, event |-> [kind |-> "stopped", app |-> a], origin |-> NoApp,
   by |-> c, published |-> FALSE]
Published(t, e, a, p) ==
  [topic |-> t, event |-> e, origin |-> a, by |-> p, published |-> TRUE]

Init ==
  /\ events = <<>> /\ running = {} /\ served = {} /\ gone = {}
  /\ names = [c \in Conn |-> NoApp] /\ topics = [c \in Conn |-> {}]
  /\ next = [c \in Conn |-> 0] /\ mail = [c \in Conn |-> {}]

-----------------------------------------------------------------------------
(* A connection joins once, behind everything there has been.               *)
Join(c) ==
  /\ c \notin served /\ next[c] = 0
  /\ served' = served \cup {c}
  /\ next' = [next EXCEPT ![c] = Len(events) + 1]
  /\ UNCHANGED <<events, directory, topics, gone, mail>>

Introduce(c, a) ==
  /\ c \in served
  /\ names' = [names EXCEPT ![c] = a]
  /\ running' = running \cup {a}
  /\ events' = Append(events, Started(a, c))
  /\ UNCHANGED <<topics, served, gone, delivery>>

(* The bus takes leave of a client that had introduced itself and has gone. *)
Retire(c) ==
  /\ c \in served \cap gone /\ names[c] # NoApp
  /\ served' = served \ {c}
  /\ running' = running \ {names[c]}
  /\ events' = Append(events, Stopped(names[c], c))
  /\ UNCHANGED <<names, topics, gone, delivery>>

Subscribe(c, t) ==
  /\ c \in served
  /\ topics' = [topics EXCEPT ![c] = @ \cup {t}]
  /\ UNCHANGED <<events, directory, served, gone, delivery>>

Unsubscribe(c, t) ==
  /\ c \in served
  /\ topics' = [topics EXCEPT ![c] = @ \ {t}]
  /\ UNCHANGED <<events, directory, served, gone, delivery>>

(* Whatever event it is, on whatever topic.                                 *)
Publish(c, t, e) ==
  /\ c \in served /\ names[c] # NoApp
  /\ events' = Append(events, Published(t, e, names[c], c))
  /\ UNCHANGED <<directory, topics, served, gone, delivery>>

HostPublish(t, e) ==
  /\ events' = Append(events, Published(t, e, NoApp, Host))
  /\ UNCHANGED <<directory, topics, served, gone, delivery>>

-----------------------------------------------------------------------------
Wanted(c, e) == e.topic \in topics[c] /\ e.origin # names[c]

Deliver(c) ==
  /\ c \in served /\ next[c] \in DOMAIN events
  /\ Wanted(c, events[next[c]])
  /\ mail' = [mail EXCEPT ![c] = @ \cup {next[c]}]
  /\ next' = [next EXCEPT ![c] = @ + 1]
  /\ UNCHANGED <<events, directory, topics, served, gone>>

(* What is passed over was not wanted, or c has fallen too far behind.      *)
Pass(c) ==
  /\ c \in served
  /\ \E n \in next[c] .. Len(events) + 1 :
       /\ \A i \in next[c] .. n - 1 : ~Wanted(c, events[i]) \/ i + EventBuffer <= Len(events)
       /\ next' = [next EXCEPT ![c] = n]
  /\ UNCHANGED <<events, directory, topics, served, gone, mail>>

Receive(c) ==
  /\ \E i \in mail[c] :
       /\ \A j \in mail[c] : i <= j
       /\ mail' = [mail EXCEPT ![c] = @ \ {i}]
  /\ UNCHANGED <<events, directory, topics, served, gone, next>>

(* Clients go and the bus gives connections up; mail is lost with them only.*)
Disconnect ==
  /\ served' \subseteq served
  /\ gone \subseteq gone' /\ gone' \subseteq Conn
  /\ mail' \in [Conn -> SUBSET DOMAIN events]
  /\ \A c \in Conn :
       /\ mail'[c] \subseteq mail[c]
       /\ c \in served' \ gone' => mail'[c] = mail[c]
  /\ UNCHANGED <<events, directory, topics, next>>

Next ==
  \/ Disconnect
  \/ \E t \in Topic, e \in Event : HostPublish(t, e)
  \/ \E c \in Conn :
       \/ Join(c) \/ Retire(c) \/ Deliver(c) \/ Pass(c) \/ Receive(c)
       \/ \E a \in App : Introduce(c, a)
       \/ \E t \in Topic : Subscribe(c, t) \/ Unsubscribe(c, t)
       \/ \E t \in Topic, e \in Event : Publish(c, t, e)

Spec == Init /\ [][Next]_vars
=============================================================================
