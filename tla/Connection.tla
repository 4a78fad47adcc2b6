----------------------------- MODULE Connection -----------------------------
(***************************************************************************)
(* One connection of the broker at the level of the bytes in the pipe:     *)
(* BrokerClient (crates/slate-ipc/src/client.rs, frame.rs) at one end and  *)
(* the select! loop of `serve` (crates/slate-broker/src/server.rs) at the  *)
(* other.  Module Broker takes a request off the pipe in one step; here it *)
(* crosses the pipe piece by piece, as a frame longer than one read of the *)
(* pipe does, and read_frame may be dropped between two of its pieces.     *)
(*                                                                         *)
(* A piece stands for the bytes one read returns: piece 0 of a frame is its*)
(* length prefix, the others are its payload.  The frames of the broker are*)
(* not taken apart: the client reads them with blocking calls that nothing *)
(* interrupts.                                                             *)
(***************************************************************************)
EXTENDS Naturals, Sequences

CONSTANTS
  Sizes,        \* payload sizes of the requests of this instance, in pieces
  MaxFrame,     \* MAX_FRAME_BYTES, in pieces
  UpRoom,       \* pieces the pipe holds towards the broker
  DownRoom,     \* frames the pipe holds towards the client
  Misread,      \* lengths that bytes of a payload may spell, below MAX_FRAME_BYTES
  Wanted,       \* events the client is subscribed to
  MaxEvents,    \* bound: events broadcast while the connection lasts
  MaxRequests   \* bound: requests of the client

ASSUME ConnectionAssumption ==
  /\ Sizes \subseteq Nat \ {0}
  /\ MaxFrame \in Nat \ {0} /\ UpRoom \in Nat \ {0} /\ DownRoom \in Nat \ {0}
  /\ Misread \subseteq 1 .. MaxFrame
  /\ MaxEvents \in Nat /\ Wanted \subseteq 1 .. MaxEvents /\ MaxRequests \in Nat

VARIABLES
  client,   \* "idle", "writing", "waiting", "streaming", "gone"
  asked,    \* requests sent so far
  toSend,   \* pieces of the current request not yet in the pipe
  pending,  \* pending_events
  seen,     \* events handed to the application, oldest first
  up,       \* pieces in the pipe towards the broker
  down,     \* frames in the pipe towards the client
  broker,   \* "serving", "ended" after its cleanup, "failed" without it
  have,     \* pieces the read_frame under way has taken
  want,     \* the payload length it has read from the prefix
  writing,  \* the frame write_frame is waiting to write, if any
  applied,  \* requests handled so far, each the pieces it was read from
  events,   \* events broadcast so far
  cursor,   \* the next event of the receiver
  torn      \* history: a read_frame that had taken pieces has been dropped

clientVars == <<client, asked, toSend, pending, seen>>
readVars == <<have, want>>
brokerVars == <<broker, readVars, writing, applied, cursor, torn>>
vars == <<clientVars, up, down, brokerVars, events>>

Piece == [req : Nat, pos : Nat, size : Nat]
FramePieces(n, s) == [i \in 1 .. s + 1 |-> [req |-> n, pos |-> i - 1, size |-> s]]

Frame == [kind : {"event", "reply"}, nr : Nat]
Event(i) == [kind |-> "event", nr |-> i]
Reply(n) == [kind |-> "reply", nr |-> n]

(* A pipe accepts what fits in its buffer. *)
HasRoom(n, room) == n < room

(* After the handshake, with no subscription yet served. *)
Init ==
  /\ client = "idle" /\ asked = 0 /\ toSend = <<>> /\ pending = <<>> /\ seen = <<>>
  /\ up = <<>> /\ down = <<>>
  /\ broker = "serving" /\ have = <<>> /\ want = 0 /\ writing = {}
  /\ applied = <<>> /\ events = 0 /\ cursor = 1 /\ torn = FALSE

-----------------------------------------------------------------------------
(* BrokerClient. *)

(* write_frame refuses a payload over the limit before it writes anything.  *)
MayStart(s) == s <= MaxFrame

Between == client \in {"idle", "waiting"}  \* mutant: does not wait for the reply
Idle == client = "idle"

(* request: the frame is serialised, its first byte not yet written.        *)
Send(s) ==
  /\ Idle
  /\ asked < MaxRequests /\ MayStart(s)
  /\ asked' = asked + 1
  /\ toSend' = FramePieces(asked + 1, s)
  /\ client' = "writing"
  /\ UNCHANGED <<pending, seen, up, down, brokerVars, events>>

(* The write blocks while the pipe is full; the client reads nothing yet.   *)
WritePiece ==
  /\ client = "writing" /\ broker = "serving"
  /\ HasRoom(Len(up), UpRoom)
  /\ up' = Append(up, Head(toSend))
  /\ toSend' = Tail(toSend)
  /\ client' = IF Len(toSend) = 1 THEN "waiting" ELSE "writing"
  /\ UNCHANGED <<asked, pending, seen, down, brokerVars, events>>

(* What an event read while a reply is awaited becomes. *)
Forgotten(f) == pending  \* mutant
Buffered(f) == Append(pending, f.nr)

(* The read loop of request. *)
ReadReply ==
  /\ client = "waiting" /\ down # <<>>
  /\ down' = Tail(down)
  /\ IF Head(down).kind = "event"
       THEN pending' = Buffered(Head(down)) /\ client' = client
       ELSE client' = "idle" /\ pending' = pending
  /\ UNCHANGED <<asked, toSend, seen, up, brokerVars, events>>

(* take_events, and into_event_stream, which sends the buffered events first.*)
HandOver(next) ==
  /\ client = "idle"
  /\ client' = next
  /\ seen' = seen \o pending /\ pending' = <<>>
  /\ UNCHANGED <<asked, toSend, up, down, brokerVars, events>>

TakeEvents == pending # <<>> /\ HandOver("idle")
IntoEventStream == HandOver("streaming")

(* The reader thread of into_event_stream: any other response ends it.      *)
ReadStream ==
  /\ client = "streaming" /\ down # <<>>
  /\ down' = Tail(down)
  /\ IF Head(down).kind = "event"
       THEN seen' = Append(seen, Head(down).nr) /\ client' = client
       ELSE client' = "gone" /\ seen' = seen
  /\ UNCHANGED <<asked, toSend, pending, up, brokerVars, events>>

(* The process exits or dies; what it has written stays in the pipe.        *)
Exit ==
  /\ client # "gone"
  /\ client' = "gone" /\ toSend' = <<>> /\ down' = <<>>
  /\ UNCHANGED <<asked, pending, seen, up, brokerVars, events>>

(* The broker closed the pipe: a write fails, a read fails once it is empty.*)
Disconnected ==
  /\ client \in {"writing", "waiting", "streaming"} /\ broker # "serving"
  /\ client # "writing" => down = <<>>
  /\ client' = "gone" /\ toSend' = <<>> /\ down' = <<>>
  /\ UNCHANGED <<asked, pending, seen, up, brokerVars, events>>

-----------------------------------------------------------------------------
(* serve. *)

Selecting == broker = "serving" /\ writing = {}

(* serve returns the error past its cleanup and drops its end of the pipe.  *)
Fail ==
  /\ broker' = "failed" /\ have' = <<>> /\ want' = 0
  /\ UNCHANGED <<writing, applied, cursor, torn>>

(* read_frame takes the next piece out of the pipe. *)
Take ==
  /\ Selecting /\ up # <<>>
  /\ up' = Tail(up)
  /\ UNCHANGED <<clientVars, down, events>>

(* What the four bytes at the start of a piece say when read as a length:   *)
(* text of a payload spells a number over the limit, or, where a payload    *)
(* ends and a prefix begins, nearly anything.                               *)
LengthsOf(p) == IF p.pos = 0 THEN {p.size} ELSE Misread \cup {MaxFrame + 1}

ReachesLimit(n) == n >= MaxFrame       \* mutant
OverLimit(n) == n > MaxFrame

ReadPrefix ==
  /\ Take /\ have = <<>>
  /\ \E n \in LengthsOf(Head(up)) : ~OverLimit(n) /\ want' = n
  /\ have' = <<Head(up)>>
  /\ UNCHANGED <<broker, writing, applied, cursor, torn>>

RefuseLength ==
  /\ Take /\ have = <<>>
  /\ \E n \in LengthsOf(Head(up)) : OverLimit(n)
  /\ Fail

ReadPayload ==
  /\ Take /\ have # <<>> /\ Len(have) < want
  /\ have' = Append(have, Head(up))
  /\ UNCHANGED <<broker, want, writing, applied, cursor, torn>>

(* serde_json accepts the payload: it is the one a prefix announced.        *)
Anything == TRUE  \* mutant
Decodes == Head(have).pos = 0

(* The reply that handle returned, to be written. *)
TryReply(n) == IF Len(down) < DownRoom THEN {Reply(n)} ELSE {}  \* mutant
ReplyTo(n) == {Reply(n)}

(* The last piece completes the frame: it is decoded and handled at once.   *)
Handle ==
  /\ Take /\ have # <<>> /\ Len(have) = want
  /\ Decodes
  /\ applied' = Append(applied, Append(have, Head(up)))
  /\ writing' = ReplyTo(Head(have).req)
  /\ have' = <<>> /\ want' = 0
  /\ UNCHANGED <<broker, cursor, torn>>

Undecodable ==
  /\ Take /\ have # <<>> /\ Len(have) = want
  /\ ~Decodes
  /\ Fail

(* recv() wins the select!, for an event the client wants or not: the       *)
(* read_frame under way is dropped with the pieces it has taken.            *)
TakeEvent ==
  /\ Selecting
  /\ cursor <= events
  /\ cursor' = cursor + 1
  /\ writing' = IF cursor \in Wanted THEN {Event(cursor)} ELSE {}
  /\ torn' = (torn \/ have # <<>>)
  /\ have' = <<>> /\ want' = 0
  /\ UNCHANGED <<clientVars, up, down, broker, applied, events>>

WriteFrame ==
  /\ broker = "serving" /\ client # "gone"
  /\ HasRoom(Len(down), DownRoom)
  /\ \E f \in writing : down' = Append(down, f)
  /\ writing' = {}
  /\ UNCHANGED <<clientVars, up, broker, readVars, applied, cursor, torn, events>>

WriteFails ==
  /\ broker = "serving" /\ client = "gone" /\ writing # {}
  /\ broker' = "failed" /\ writing' = {}
  /\ UNCHANGED <<clientVars, up, down, readVars, applied, cursor, torn, events>>

(* End of the pipe: None before a prefix, an error within a payload.        *)
HangUp ==
  /\ Selecting /\ client = "gone" /\ up = <<>>
  /\ broker' = IF have = <<>> THEN "ended" ELSE "failed"
  /\ have' = <<>> /\ want' = 0
  /\ UNCHANGED <<clientVars, up, down, writing, applied, cursor, torn, events>>

(* Some other connection or the host publishes. *)
Broadcast ==
  /\ events < MaxEvents
  /\ events' = events + 1
  /\ UNCHANGED <<clientVars, up, down, brokerVars>>

-----------------------------------------------------------------------------
ClientIO == WritePiece \/ ReadReply \/ ReadStream \/ Disconnected

Serve ==
  \/ ReadPrefix \/ RefuseLength \/ ReadPayload \/ Handle \/ Undecodable
  \/ TakeEvent \/ WriteFrame \/ WriteFails \/ HangUp

Next ==
  \/ \E s \in Sizes : Send(s)
  \/ TakeEvents \/ IntoEventStream \/ Exit \/ ClientIO
  \/ Serve \/ Broadcast

Spec == Init /\ [][Next]_vars

(* A blocking read or write of the client returns when it can, and the      *)
(* runtime polls a serve task that can go on; nobody has to publish, ask or *)
(* exit, and either branch of select! may be the one that wins.             *)
FairSpec == Spec /\ WF_vars(ClientIO) /\ WF_vars(Serve)

-----------------------------------------------------------------------------
(* Properties. *)

(* Each end of the pipe waits for the other to read. *)
Jammed ==
  /\ client = "writing" /\ Len(up) = UpRoom
  /\ broker = "serving" /\ writing # {} /\ Len(down) = DownRoom

(* The broker acts on the requests as they were sent, each once and in      *)
(* order: whatever a dropped read_frame leaves in the pipe is never taken   *)
(* for a request.                                                           *)
AppliedAsSent ==
  \A i \in DOMAIN applied :
    applied[i] = FramePieces(i, Head(applied[i]).size)

(* The broker gives up a connection only after its client has gone, or once *)
(* an event has made it drop a request it had begun to read.                *)
FailsOnlyWhenTorn == broker \in {"ended", "failed"} => client = "gone" \/ torn

(* The two ends block each other only over a request that the pipe cannot   *)
(* hold whole: one request at a time leaves the pipe empty for the next.    *)
SmallRequestsNeverJam == Jammed => toSend # <<>> /\ Head(toSend).size + 1 > UpRoom

IsEvent(f) == f.kind = "event"
Heard == seen \o pending
Coming == {f.nr : f \in {g \in {down[i] : i \in DOMAIN down} \cup writing : IsEvent(g)}}

(* "Events arriving while waiting are buffered, not dropped" (request), and *)
(* the stream begins with them: the application is handed every event the   *)
(* broker took for it, once and in order, across requests, take_events and  *)
(* into_event_stream.                                                       *)
EventsKeptInOrder ==
  client # "gone" /\ broker = "serving" =>
    /\ {Heard[i] : i \in DOMAIN Heard} \cup Coming = {i \in Wanted : i < cursor}
    /\ \A i, j \in DOMAIN Heard : i < j => Heard[i] < Heard[j]
    /\ \A i \in DOMAIN Heard, n \in Coming : Heard[i] < n
    /\ \A i, j \in DOMAIN down :
         i < j /\ IsEvent(down[i]) /\ IsEvent(down[j]) => down[i].nr < down[j].nr
    /\ \A i \in DOMAIN down, f \in writing :
         IsEvent(down[i]) /\ IsEvent(f) => down[i].nr < f.nr

(* A request comes back to its caller, with its reply or an error, unless an*)
(* event has torn a frame or the two ends block each other.                 *)
CallReturns ==
  client \in {"writing", "waiting"} ~> client \in {"idle", "gone"} \/ torn \/ Jammed

(* "Serves one connection until the client disconnects" (serve).            *)
ServesUntilDisconnect == broker # "serving" => client = "gone"
=============================================================================
