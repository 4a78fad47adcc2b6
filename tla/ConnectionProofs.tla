-------------------------- MODULE ConnectionProofs --------------------------
(***************************************************************************)
(* What TLAPS proves of one connection of the broker, for frames and pipes *)
(* of every size: the broker acts on requests as they were sent, gives a   *)
(* connection up only over a torn request, jams only over a request larger *)
(* than the pipe, and no event it takes is lost or handed over twice.      *)
(***************************************************************************)
EXTENDS Connection, TLAPS

ConnectionTypeOK ==
  /\ client \in {"idle", "writing", "waiting", "streaming", "gone"}
  /\ asked \in Nat /\ toSend \in Seq(Piece)
  /\ pending \in Seq(Nat) /\ seen \in Seq(Nat)
  /\ up \in Seq(Piece) /\ down \in Seq(Frame)
  /\ broker \in {"serving", "ended", "failed"}
  /\ have \in Seq(Piece) /\ want \in Nat /\ writing \subseteq Frame
  /\ applied \in Seq(Seq(Piece))
  /\ events \in Nat /\ cursor \in Nat \ {0} /\ torn \in BOOLEAN

(* Pieces of request n, of size s, one after the other from piece k on. *)
Nth(n, k, s) == [req |-> n, pos |-> k, size |-> s]
Run(ps, n, k, s) == \A i \in DOMAIN ps : ps[i] = Nth(n, k + i - 1, s)

(* Nothing of a request is anywhere. *)
Quiet == have = <<>> /\ up = <<>> /\ toSend = <<>>

(* The current request, of size s, is on its way, the first k pieces having *)
(* been dropped: what the broker has taken, what the pipe holds and what    *)
(* the client has yet to write follow one another.                          *)
OnItsWay(k, s) ==
  /\ Run(have, asked, k, s)
  /\ Run(up, asked, k + Len(have), s)
  /\ Run(toSend, asked, k + Len(have) + Len(up), s)
  /\ IF client = "gone"
       THEN toSend = <<>> /\ k + Len(have) + Len(up) <= s + 1
       ELSE k + Len(have) + Len(up) + Len(toSend) = s + 1
  /\ k = 0 /\ have # <<>> => want = s
  /\ k > 0 => torn \/ broker # "serving"
  /\ s <= MaxFrame

(* There is at most one request, and each has been applied but perhaps this. *)
OneRequestAtATime ==
  \/ Quiet /\ client # "writing" /\ Len(applied) = asked
  \/ /\ client \in {"writing", "waiting", "gone"} /\ Len(applied) + 1 = asked
     /\ client = "writing" => toSend # <<>>
     /\ client = "waiting" => toSend = <<>>
     /\ \E k \in Nat, s \in Nat \ {0} : OnItsWay(k, s)

(* A reply is due to a client that waits, for a request that was applied,   *)
(* and there is no second one.                                              *)
IsReply(f) == f.kind = "reply"
ReplyDue ==
  /\ \A f, g \in writing : f = g
  /\ client = "gone" => down = <<>>
  /\ \A i \in DOMAIN down : IsReply(down[i]) =>
       /\ Quiet /\ client = "waiting" /\ Len(applied) = asked
       /\ \A f \in writing : ~IsReply(f)
       /\ \A j \in DOMAIN down : IsReply(down[j]) => i = j
  /\ \A f \in writing : IsReply(f) =>
       Quiet /\ client \in {"waiting", "gone"} /\ Len(applied) = asked

(* The event being written is the last one taken, and an application that   *)
(* streams has been given all that was buffered.                            *)
EventsTaken ==
  /\ \A f \in writing : IsEvent(f) => f.nr = cursor - 1
  /\ client = "streaming" => pending = <<>>

CInv ==
  /\ ConnectionTypeOK /\ OneRequestAtATime /\ ReplyDue /\ AppliedAsSent
  /\ FailsOnlyWhenTorn /\ EventsTaken /\ EventsKeptInOrder

-----------------------------------------------------------------------------
(* Runs of pieces. *)

LEMMA NotEmpty ==
  ASSUME NEW S, NEW q \in Seq(S), q # <<>>
  PROVE  Len(q) \in Nat /\ Len(q) > 0
OBVIOUS

LEMMA NoPieces ==
  ASSUME NEW n, NEW k, NEW s
  PROVE  Run(<<>>, n, k, s)
BY DEF Run

(* Taking the first piece of a run, and putting the next one behind it.     *)
LEMMA RunTail ==
  ASSUME NEW ps \in Seq(Piece), ps # <<>>, NEW n \in Nat, NEW k \in Nat, NEW s \in Nat,
         Run(ps, n, k, s)
  PROVE  /\ Head(ps) = Nth(n, k, s) /\ Run(Tail(ps), n, k + 1, s)
         /\ Tail(ps) \in Seq(Piece) /\ Len(Tail(ps)) = Len(ps) - 1
BY DEF Run

LEMMA RunAppend ==
  ASSUME NEW ps \in Seq(Piece), NEW n \in Nat, NEW k \in Nat, NEW s \in Nat,
         Run(ps, n, k, s)
  PROVE  /\ Run(Append(ps, Nth(n, k + Len(ps), s)), n, k, s)
         /\ Len(Append(ps, Nth(n, k + Len(ps), s))) = Len(ps) + 1
<1>1. Nth(n, k + Len(ps), s) \in Piece
  BY DEF Nth, Piece
<1>. QED
  BY <1>1 DEF Run

(* A frame is the run of all its pieces, and the only one. *)
LEMMA FrameIsRun ==
  ASSUME NEW n \in Nat, NEW s \in Nat
  PROVE  /\ FramePieces(n, s) \in Seq(Piece) /\ Len(FramePieces(n, s)) = s + 1
         /\ Run(FramePieces(n, s), n, 0, s)
<1>1. \A i \in 1 .. s + 1 : Nth(n, i - 1, s) \in Piece
  BY DEF Nth, Piece
<1>2. FramePieces(n, s) = [i \in 1 .. s + 1 |-> Nth(n, i - 1, s)]
  BY DEF FramePieces, Nth
<1>3. FramePieces(n, s) \in Seq(Piece) /\ Len(FramePieces(n, s)) = s + 1
  BY <1>1, <1>2
<1>. QED
  BY <1>2, <1>3 DEF Run

LEMMA RunIsFrame ==
  ASSUME NEW ps \in Seq(Piece), NEW n \in Nat, NEW s \in Nat,
         Run(ps, n, 0, s), Len(ps) = s + 1
  PROVE  ps = FramePieces(n, s)
<1>1. FramePieces(n, s) = [i \in 1 .. s + 1 |-> Nth(n, i - 1, s)]
  BY DEF FramePieces, Nth
<1>2. DOMAIN ps = 1 .. s + 1 /\ \A i \in 1 .. s + 1 : ps[i] = Nth(n, i - 1, s)
  BY DEF Run
<1>3. ps = [i \in 1 .. s + 1 |-> ps[i]]
  BY <1>2
<1>4. [i \in 1 .. s + 1 |-> ps[i]] = [i \in 1 .. s + 1 |-> Nth(n, i - 1, s)]
  BY <1>2, Zenon
<1>. QED
  BY <1>1, <1>3, <1>4

(* The first piece of a frame tells its size. *)
LEMMA FrameTellsItsSize ==
  ASSUME NEW n \in Nat, NEW s \in Nat
  PROVE  FramePieces(n, s) = FramePieces(n, Head(FramePieces(n, s)).size)
<1>1. FramePieces(n, s) # <<>> /\ Run(FramePieces(n, s), n, 0, s)
  BY FrameIsRun
<1>2. Head(FramePieces(n, s)) = Nth(n, 0, s)
  BY <1>1, FrameIsRun, RunTail
<1>. QED
  BY <1>2 DEF Nth

-----------------------------------------------------------------------------
(* What a request on its way becomes, step by step. *)

(* While the current request has pieces anywhere, or has not been applied,  *)
(* it is on its way.                                                        *)
LEMMA SomethingIsOnItsWay ==
  ASSUME OneRequestAtATime, ~Quiet \/ Len(applied) # asked
  PROVE  /\ client \in {"writing", "waiting", "gone"} /\ Len(applied) + 1 = asked
         /\ client = "writing" => toSend # <<>>
         /\ client = "waiting" => toSend = <<>>
         /\ \E k \in Nat, s \in Nat \ {0} : OnItsWay(k, s)
BY DEF OneRequestAtATime

LEMMA NothingIsOnItsWay ==
  ASSUME OneRequestAtATime, client \in {"idle", "streaming"}
  PROVE  Quiet /\ Len(applied) = asked
BY DEF OneRequestAtATime

(* A step that leaves the request alone. *)
LEMMA FlowKept ==
  ASSUME OneRequestAtATime, UNCHANGED <<have, up, toSend, asked, want, applied>>,
         client' = client \/ (client' \in {"idle", "streaming", "gone"} /\ Quiet /\ Len(applied) = asked),
         broker' = broker \/ broker' # "serving", torn' = torn
  PROVE  OneRequestAtATime'
<1>1. CASE Quiet /\ client # "writing" /\ Len(applied) = asked
  BY <1>1 DEF OneRequestAtATime, Quiet
<1>2. CASE ~(Quiet /\ client # "writing" /\ Len(applied) = asked)
  <2>1. /\ client \in {"writing", "waiting", "gone"} /\ Len(applied) + 1 = asked
        /\ client = "writing" => toSend # <<>>
        /\ client = "waiting" => toSend = <<>>
        /\ \E k \in Nat, s \in Nat \ {0} : OnItsWay(k, s)
    BY <1>2 DEF OneRequestAtATime
  <2>2. CASE client' = client
    <3>1. PICK k \in Nat, s \in Nat \ {0} : OnItsWay(k, s)
      BY <2>1
    <3>2. OnItsWay(k, s)'
      BY <2>2, <3>1 DEF OnItsWay
    <3>. QED
      BY <2>1, <2>2, <3>2 DEF OneRequestAtATime
  <2>3. CASE client' # client
    BY <2>3 DEF OneRequestAtATime, Quiet
  <2>. QED
    BY <2>2, <2>3
<1>. QED
  BY <1>1, <1>2

LEMMA FlowSend ==
  ASSUME ConnectionTypeOK, OneRequestAtATime, NEW s \in Sizes, Send(s)
  PROVE  OneRequestAtATime'
<1>1. /\ client = "idle" /\ s <= MaxFrame /\ asked' = asked + 1
      /\ toSend' = FramePieces(asked + 1, s) /\ client' = "writing"
      /\ have' = have /\ up' = up /\ applied' = applied
  BY DEF Send, Idle, MayStart, brokerVars, readVars
<1>2. Quiet /\ Len(applied) = asked
  BY <1>1, NothingIsOnItsWay
<1>3. s \in Nat \ {0} /\ asked \in Nat
  BY ConnectionAssumption DEF ConnectionTypeOK
<1>4. Run(toSend', asked', 0, s) /\ Len(toSend') = s + 1 /\ toSend' # <<>>
  BY <1>1, <1>3, FrameIsRun
<1>5. OnItsWay(0, s)'
  BY <1>1, <1>2, <1>3, <1>4 DEF OnItsWay, Quiet, Run
<1>. QED
  BY <1>1, <1>2, <1>3, <1>4, <1>5 DEF OneRequestAtATime

LEMMA FlowWritePiece ==
  ASSUME ConnectionTypeOK, OneRequestAtATime, WritePiece
  PROVE  OneRequestAtATime' /\ toSend # <<>>
<1>1. /\ client = "writing" /\ up' = Append(up, Head(toSend)) /\ toSend' = Tail(toSend)
      /\ client' = IF Len(toSend) = 1 THEN "waiting" ELSE "writing"
      /\ asked' = asked /\ have' = have /\ want' = want /\ applied' = applied
      /\ broker' = broker /\ torn' = torn
  BY DEF WritePiece, brokerVars, readVars
<1>2. toSend # <<>> /\ Len(applied) + 1 = asked /\ \E k \in Nat, s \in Nat \ {0} : OnItsWay(k, s)
  BY <1>1 DEF OneRequestAtATime
<1>3. PICK k \in Nat, s \in Nat \ {0} : OnItsWay(k, s)
  BY <1>2
<1>4. PICK j \in Nat : j = k + Len(have)
  BY DEF ConnectionTypeOK
<1>5. toSend \in Seq(Piece) /\ up \in Seq(Piece) /\ asked \in Nat /\ have \in Seq(Piece)
  BY DEF ConnectionTypeOK
<1>6. Run(toSend, asked, j + Len(up), s) /\ Run(up, asked, j, s)
  BY <1>3, <1>4, <1>5 DEF OnItsWay
<1>7. /\ Head(toSend) = Nth(asked, j + Len(up), s)
      /\ Run(toSend', asked, j + Len(up) + 1, s) /\ Len(toSend') = Len(toSend) - 1
      /\ toSend' \in Seq(Piece)
  BY <1>1, <1>2, <1>5, <1>6, RunTail
<1>8. Run(up', asked, j, s) /\ Len(up') = Len(up) + 1
  BY <1>1, <1>5, <1>6, <1>7, RunAppend
<1>9. OnItsWay(k, s)'
  BY <1>1, <1>3, <1>4, <1>5, <1>7, <1>8 DEF OnItsWay
<1>10. (client' = "writing" => toSend' # <<>>) /\ (client' = "waiting" => toSend' = <<>>)
  <2>1. CASE Len(toSend) = 1
    BY <1>1, <1>7, <2>1
  <2>2. CASE Len(toSend) # 1
    <3>1. Len(toSend) \in Nat /\ Len(toSend) > 0
      BY <1>2, <1>5, NotEmpty
    <3>2. toSend' # <<>>
      BY <1>7, <2>2, <3>1
    <3>. QED
      BY <1>1, <2>2, <3>2
  <2>. QED
    BY <2>1, <2>2
<1>. QED
  BY <1>1, <1>2, <1>9, <1>10 DEF OneRequestAtATime

(* The client goes: what it had not written is lost, what it had is not.    *)
LEMMA FlowGone ==
  ASSUME ConnectionTypeOK, OneRequestAtATime, client' = "gone", toSend' = <<>>,
         UNCHANGED <<asked, up, have, want, applied, broker, torn>>
  PROVE  OneRequestAtATime'
<1>1. CASE Quiet /\ Len(applied) = asked
  BY <1>1 DEF OneRequestAtATime, Quiet
<1>2. CASE ~(Quiet /\ Len(applied) = asked)
  <2>1. Len(applied) + 1 = asked /\ \E k \in Nat, s \in Nat \ {0} : OnItsWay(k, s)
    BY <1>2, SomethingIsOnItsWay
  <2>2. PICK k \in Nat, s \in Nat \ {0} : OnItsWay(k, s)
    BY <2>1
  <2>3. k + Len(have) + Len(up) <= s + 1
    BY <2>2 DEF OnItsWay, ConnectionTypeOK
  <2>4. OnItsWay(k, s)'
    BY <2>2, <2>3, NoPieces DEF OnItsWay
  <2>. QED
    BY <2>1, <2>4 DEF OneRequestAtATime
<1>. QED
  BY <1>1, <1>2

(* The broker's next piece is the one that follows those it has taken.      *)
LEMMA FirstInPipe ==
  ASSUME ConnectionTypeOK, OneRequestAtATime, Take
  PROVE  /\ client \in {"writing", "waiting", "gone"} /\ Len(applied) + 1 = asked
         /\ client = "writing" => toSend # <<>>
         /\ client = "waiting" => toSend = <<>>
         /\ \E k \in Nat, s \in Nat \ {0} :
              /\ OnItsWay(k, s) /\ Head(up) = Nth(asked, k + Len(have), s)
              /\ up' \in Seq(Piece) /\ Len(up') = Len(up) - 1
              /\ Run(up', asked, k + Len(have) + 1, s)
<1>1. up # <<>> /\ up' = Tail(up)
  BY DEF Take
<1>2. /\ client \in {"writing", "waiting", "gone"} /\ Len(applied) + 1 = asked
      /\ client = "writing" => toSend # <<>>
      /\ client = "waiting" => toSend = <<>>
      /\ \E k \in Nat, s \in Nat \ {0} : OnItsWay(k, s)
  BY <1>1, SomethingIsOnItsWay DEF Quiet
<1>3. PICK k \in Nat, s \in Nat \ {0} : OnItsWay(k, s)
  BY <1>2
<1>4. PICK j \in Nat : j = k + Len(have)
  BY DEF ConnectionTypeOK
<1>5. up \in Seq(Piece) /\ asked \in Nat /\ Run(up, asked, j, s)
  BY <1>3, <1>4 DEF OnItsWay, ConnectionTypeOK
<1>6. /\ Head(up) = Nth(asked, j, s) /\ Run(up', asked, j + 1, s)
      /\ up' \in Seq(Piece) /\ Len(up') = Len(up) - 1
  BY <1>1, <1>5, RunTail
<1>. QED
  BY <1>2, <1>3, <1>4, <1>6

LEMMA FlowReadPrefix ==
  ASSUME ConnectionTypeOK, OneRequestAtATime, ReadPrefix
  PROVE  OneRequestAtATime'
<1>1. /\ Take /\ have = <<>> /\ have' = <<Head(up)>> /\ want' \in LengthsOf(Head(up))
      /\ applied' = applied /\ broker' = broker /\ torn' = torn
      /\ client' = client /\ asked' = asked /\ toSend' = toSend
  BY DEF ReadPrefix, Take, clientVars
<1>2. /\ client \in {"writing", "waiting", "gone"} /\ Len(applied) + 1 = asked
      /\ client = "writing" => toSend # <<>>
      /\ client = "waiting" => toSend = <<>>
  BY <1>1, FirstInPipe
<1>3. PICK k \in Nat, s \in Nat \ {0} :
        /\ OnItsWay(k, s) /\ Head(up) = Nth(asked, k + Len(have), s)
        /\ up' \in Seq(Piece) /\ Len(up') = Len(up) - 1
        /\ Run(up', asked, k + Len(have) + 1, s)
  BY <1>1, FirstInPipe
<1>4. have' = <<Nth(asked, k, s)>> /\ Len(have') = 1 /\ Run(have', asked, k, s)
  BY <1>1, <1>3 DEF Run
<1>5. k = 0 => want' = s
  BY <1>1, <1>3 DEF LengthsOf, Nth
<1>6. Len(have) = 0 /\ Len(up) \in Nat /\ Len(toSend) \in Nat
  BY <1>1 DEF ConnectionTypeOK
<1>7. OnItsWay(k, s)'
  BY <1>1, <1>3, <1>4, <1>5, <1>6 DEF OnItsWay
<1>. QED
  BY <1>1, <1>2, <1>7 DEF OneRequestAtATime

LEMMA FlowReadPayload ==
  ASSUME ConnectionTypeOK, OneRequestAtATime, ReadPayload
  PROVE  OneRequestAtATime'
<1>1. /\ Take /\ have # <<>> /\ have' = Append(have, Head(up)) /\ want' = want
      /\ applied' = applied /\ broker' = broker /\ torn' = torn
      /\ client' = client /\ asked' = asked /\ toSend' = toSend
  BY DEF ReadPayload, Take, clientVars
<1>2. /\ client \in {"writing", "waiting", "gone"} /\ Len(applied) + 1 = asked
      /\ client = "writing" => toSend # <<>>
      /\ client = "waiting" => toSend = <<>>
  BY <1>1, FirstInPipe
<1>3. PICK k \in Nat, s \in Nat \ {0} :
        /\ OnItsWay(k, s) /\ Head(up) = Nth(asked, k + Len(have), s)
        /\ up' \in Seq(Piece) /\ Len(up') = Len(up) - 1
        /\ Run(up', asked, k + Len(have) + 1, s)
  BY <1>1, FirstInPipe
<1>4. have \in Seq(Piece) /\ asked \in Nat /\ Run(have, asked, k, s)
  BY <1>3 DEF OnItsWay, ConnectionTypeOK
<1>5. Len(have') = Len(have) + 1 /\ Run(have', asked, k, s)
  BY <1>1, <1>3, <1>4, RunAppend
<1>6. Len(up) \in Nat /\ Len(toSend) \in Nat /\ Len(have) \in Nat
  BY DEF ConnectionTypeOK
<1>7. /\ k + Len(have') = k + Len(have) + 1
      /\ k + Len(have') + Len(up') = k + Len(have) + Len(up)
  BY <1>3, <1>5, <1>6
<1>8. /\ Run(up', asked, k + Len(have'), s)
      /\ Run(toSend, asked, k + Len(have') + Len(up'), s)
  BY <1>3, <1>7 DEF OnItsWay
<1>9. k + Len(have') + Len(up') + Len(toSend) = k + Len(have) + Len(up) + Len(toSend)
  BY <1>7
<1>10. OnItsWay(k, s)'
  BY <1>1, <1>3, <1>5, <1>7, <1>8, <1>9 DEF OnItsWay
<1>. QED
  BY <1>1, <1>2, <1>10 DEF OneRequestAtATime

(* A first piece that announces a length is one of a frame's beginning only *)
(* if nothing was dropped, and a frame's beginning is never refused.        *)
LEMMA FlowFail ==
  ASSUME ConnectionTypeOK, OneRequestAtATime, FailsOnlyWhenTorn,
         RefuseLength \/ Undecodable
  PROVE  OneRequestAtATime' /\ FailsOnlyWhenTorn'
<1>1. /\ Take /\ have' = <<>> /\ broker' = "failed" /\ broker = "serving"
      /\ applied' = applied /\ torn' = torn
      /\ client' = client /\ asked' = asked /\ toSend' = toSend
  BY DEF RefuseLength, Undecodable, Fail, Take, Selecting, clientVars
<1>2. /\ client \in {"writing", "waiting", "gone"} /\ Len(applied) + 1 = asked
      /\ client = "writing" => toSend # <<>>
      /\ client = "waiting" => toSend = <<>>
  BY <1>1, FirstInPipe
<1>3. PICK k \in Nat, s \in Nat \ {0} :
        /\ OnItsWay(k, s) /\ Head(up) = Nth(asked, k + Len(have), s)
        /\ up' \in Seq(Piece) /\ Len(up') = Len(up) - 1
        /\ Run(up', asked, k + Len(have) + 1, s)
  BY <1>1, FirstInPipe
<1>4. PICK j \in Nat : j = k + Len(have) + 1
  BY DEF ConnectionTypeOK
<1>5. Len(up) \in Nat /\ Len(toSend) \in Nat /\ Len(have) \in Nat
  BY DEF ConnectionTypeOK
<1>6. OnItsWay(j, s)'
  BY <1>1, <1>3, <1>4, <1>5, NoPieces DEF OnItsWay
<1>7. torn
  <2>1. CASE RefuseLength
    <3>1. have = <<>> /\ \E n \in LengthsOf(Head(up)) : OverLimit(n)
      BY <2>1 DEF RefuseLength
    <3>2. s <= MaxFrame /\ (k > 0 => torn)
      BY <1>1, <1>3 DEF OnItsWay
    <3>3. k = 0 => Head(up).pos = 0 /\ Head(up).size = s
      BY <1>3, <3>1 DEF Nth
    <3>4. k # 0
      BY <3>1, <3>2, <3>3, ConnectionAssumption DEF LengthsOf, OverLimit
    <3>. QED
      BY <3>2, <3>4
  <2>2. CASE Undecodable
    <3>1. have # <<>> /\ Head(have).pos # 0
      BY <2>2 DEF Undecodable, Decodes
    <3>2. Head(have) = Nth(asked, k, s)
      BY <1>3, <3>1, RunTail DEF OnItsWay, ConnectionTypeOK
    <3>3. k > 0
      BY <3>1, <3>2 DEF Nth
    <3>. QED
      BY <1>1, <1>3, <3>3 DEF OnItsWay
  <2>. QED
    BY <2>1, <2>2
<1>8. OneRequestAtATime'
  BY <1>1, <1>2, <1>6 DEF OneRequestAtATime
<1>. QED
  BY <1>1, <1>7, <1>8 DEF FailsOnlyWhenTorn

(* What is handled is the frame of the current request, whole.              *)
LEMMA FlowHandle ==
  ASSUME ConnectionTypeOK, OneRequestAtATime, AppliedAsSent, Handle
  PROVE  /\ OneRequestAtATime' /\ AppliedAsSent'
         /\ Quiet' /\ client \in {"waiting", "gone"} /\ Len(applied') = asked
<1>1. /\ Take /\ have # <<>> /\ Len(have) = want /\ Head(have).pos = 0
      /\ have' = <<>> /\ applied' = Append(applied, Append(have, Head(up)))
      /\ client' = client /\ asked' = asked /\ toSend' = toSend
  BY DEF Handle, Take, Decodes, clientVars
<1>2. /\ client \in {"writing", "waiting", "gone"} /\ Len(applied) + 1 = asked
      /\ client = "writing" => toSend # <<>>
  BY <1>1, FirstInPipe
<1>3. PICK k \in Nat, s \in Nat \ {0} :
        /\ OnItsWay(k, s) /\ Head(up) = Nth(asked, k + Len(have), s)
        /\ up' \in Seq(Piece) /\ Len(up') = Len(up) - 1
        /\ Run(up', asked, k + Len(have) + 1, s)
  BY <1>1, FirstInPipe
<1>4. have \in Seq(Piece) /\ asked \in Nat /\ Run(have, asked, k, s) /\ up # <<>> /\ up \in Seq(Piece)
  BY <1>1, <1>3 DEF OnItsWay, ConnectionTypeOK, Take
<1>5. k = 0
  BY <1>1, <1>3, <1>4, RunTail DEF Nth
<1>6. Len(have) = s
  BY <1>1, <1>3, <1>5 DEF OnItsWay
<1>7. Append(have, Head(up)) = FramePieces(asked, s)
  <2>1. Len(Append(have, Head(up))) = s + 1 /\ Run(Append(have, Head(up)), asked, 0, s)
    BY <1>3, <1>4, <1>5, <1>6, RunAppend
  <2>2. Append(have, Head(up)) \in Seq(Piece)
    BY <1>4
  <2>. QED
    BY <1>4, <2>1, <2>2, RunIsFrame
<1>8. Len(up) >= 1 /\ Len(up) \in Nat /\ Len(toSend) \in Nat
  BY <1>4 DEF ConnectionTypeOK
<1>9. Len(up') = 0 /\ Len(toSend) = 0
  BY <1>3, <1>5, <1>6, <1>8 DEF OnItsWay
<1>10. Quiet' /\ toSend = <<>>
  BY <1>1, <1>3, <1>9 DEF Quiet, ConnectionTypeOK
<1>11. /\ Len(applied') = asked /\ applied'[asked] = FramePieces(asked, s)
       /\ DOMAIN applied' = 1 .. asked
       /\ \A i \in DOMAIN applied : i < asked /\ applied'[i] = applied[i]
       /\ \A i \in 1 .. asked : i = asked \/ i \in DOMAIN applied
  BY <1>1, <1>2, <1>4, <1>7 DEF ConnectionTypeOK
<1>12. AppliedAsSent'
  <2>1. FramePieces(asked, s) = FramePieces(asked, Head(FramePieces(asked, s)).size)
    BY <1>4, FrameTellsItsSize
  <2>. QED
    BY <1>11, <2>1 DEF AppliedAsSent
<1>. QED
  BY <1>1, <1>2, <1>10, <1>11, <1>12 DEF OneRequestAtATime

(* An event, or the end of the pipe, drops what a read had taken. *)
LEMMA FlowDrop ==
  ASSUME ConnectionTypeOK, OneRequestAtATime, UNCHANGED <<client, asked, toSend, up, applied>>,
         have' = <<>>, broker' = broker \/ broker' # "serving",
         broker' = "serving" /\ (torn \/ have # <<>>) => torn'
  PROVE  OneRequestAtATime'
<1>1. CASE Quiet /\ client # "writing" /\ Len(applied) = asked
  BY <1>1 DEF OneRequestAtATime, Quiet
<1>2. CASE ~(Quiet /\ client # "writing" /\ Len(applied) = asked)
  <2>1. /\ client \in {"writing", "waiting", "gone"} /\ Len(applied) + 1 = asked
        /\ client = "writing" => toSend # <<>>
        /\ client = "waiting" => toSend = <<>>
        /\ \E k \in Nat, s \in Nat \ {0} : OnItsWay(k, s)
    BY <1>2 DEF OneRequestAtATime
  <2>2. PICK k \in Nat, s \in Nat \ {0} : OnItsWay(k, s)
    BY <2>1
  <2>3. PICK j \in Nat : j = k + Len(have)
    BY DEF ConnectionTypeOK
  <2>4. Len(up) \in Nat /\ Len(toSend) \in Nat /\ Len(have) \in Nat /\ (Len(have) > 0 => have # <<>>)
    BY DEF ConnectionTypeOK
  <2>5. Len(have') = 0 /\ j + Len(have') = j /\ j + Len(have') + Len(up') = k + Len(have) + Len(up)
    BY <2>3, <2>4
  <2>6. /\ Run(have', asked, j, s) /\ Run(up, asked, j + Len(have'), s)
        /\ Run(toSend, asked, j + Len(have') + Len(up'), s)
    BY <2>2, <2>3, <2>5, NoPieces DEF OnItsWay
  <2>7. j > 0 => torn' \/ broker' # "serving"
    <3>1. j > 0 => k > 0 \/ have # <<>>
      BY <2>3, <2>4
    <3>2. k > 0 => torn \/ broker # "serving"
      BY <2>2 DEF OnItsWay
    <3>. QED
      BY <3>1, <3>2
  <2>8. OnItsWay(j, s)'
    BY <2>2, <2>5, <2>6, <2>7 DEF OnItsWay
  <2>. QED
    BY <2>1, <2>8 DEF OneRequestAtATime
<1>. QED
  BY <1>1, <1>2

-----------------------------------------------------------------------------
(* Each step keeps the invariant, part by part. *)

LEMMA HeadAndTail ==
  ASSUME NEW S, NEW q \in Seq(S), q # <<>>
  PROVE  Head(q) \in S /\ Tail(q) \in Seq(S)
OBVIOUS

LEMMA TypeStep ==
  ASSUME ConnectionTypeOK, OneRequestAtATime, [Next]_vars
  PROVE  ConnectionTypeOK'
<1>. USE DEF ConnectionTypeOK
<1>1. ASSUME NEW s \in Sizes, Send(s)
      PROVE  ConnectionTypeOK'
  <2>1. s \in Nat /\ asked + 1 \in Nat
    BY ConnectionAssumption
  <2>2. FramePieces(asked + 1, s) \in Seq(Piece)
    BY <2>1, FrameIsRun
  <2>. QED
    BY <1>1, <2>2 DEF Send, brokerVars, readVars
<1>2. CASE WritePiece
  <2>1. toSend # <<>>
    BY <1>2, FlowWritePiece
  <2>. QED
    BY <1>2, <2>1 DEF WritePiece, brokerVars, readVars
<1>3. CASE ReadReply
  <2>1. /\ Head(down) \in Frame /\ down' \in Seq(Frame)
        /\ client' \in {"waiting", "idle"}
        /\ pending' = pending \/ pending' = Append(pending, Head(down).nr)
        /\ UNCHANGED <<asked, toSend, seen, up, broker, have, want, writing, applied, cursor, torn, events>>
    BY <1>3, HeadAndTail DEF ReadReply, Buffered, brokerVars, readVars
  <2>2. Head(down).nr \in Nat
    BY <2>1 DEF Frame
  <2>3. Append(pending, Head(down).nr) \in Seq(Nat)
    BY <2>2
  <2>. QED
    BY <2>1, <2>3
<1>4. CASE TakeEvents \/ IntoEventStream
  <2>1. /\ client' \in {"idle", "streaming"} /\ seen' = seen \o pending /\ pending' = <<>>
        /\ UNCHANGED <<asked, toSend, up, down, broker, have, want, writing, applied, cursor, torn, events>>
    BY <1>4 DEF TakeEvents, IntoEventStream, HandOver, brokerVars, readVars
  <2>2. seen' \in Seq(Nat)
    BY <2>1
  <2>. QED
    BY <2>1, <2>2
<1>5. CASE ReadStream
  <2>1. /\ Head(down) \in Frame /\ down' \in Seq(Frame)
        /\ client' \in {"streaming", "gone"}
        /\ seen' = seen \/ seen' = Append(seen, Head(down).nr)
        /\ UNCHANGED <<asked, toSend, pending, up, broker, have, want, writing, applied, cursor, torn, events>>
    BY <1>5, HeadAndTail DEF ReadStream, brokerVars, readVars
  <2>2. Head(down).nr \in Nat
    BY <2>1 DEF Frame
  <2>3. Append(seen, Head(down).nr) \in Seq(Nat)
    BY <2>2
  <2>. QED
    BY <2>1, <2>3
<1>6. CASE Exit \/ Disconnected
  <2>1. /\ client' = "gone" /\ toSend' = <<>> /\ down' = <<>>
        /\ UNCHANGED <<asked, pending, seen, up, broker, have, want, writing, applied, cursor, torn, events>>
    BY <1>6 DEF Exit, Disconnected, brokerVars, readVars
  <2>. QED
    BY <2>1
<1>7. CASE ReadPrefix
  <2>1. Head(up) \in Piece /\ up' \in Seq(Piece)
    BY <1>7, HeadAndTail DEF ReadPrefix, Take
  <2>2. LengthsOf(Head(up)) \subseteq Nat
    <3>1. Head(up).size \in Nat
      BY <2>1 DEF Piece
    <3>2. Misread \cup {MaxFrame + 1} \subseteq Nat
      BY ConnectionAssumption
    <3>. QED
      BY <3>1, <3>2 DEF LengthsOf
  <2>. QED
    BY <1>7, <2>1, <2>2 DEF ReadPrefix, Take, clientVars
<1>8. CASE ReadPayload
  BY <1>8 DEF ReadPayload, Take, clientVars
<1>9. CASE RefuseLength \/ Undecodable
  <2>1. /\ up' \in Seq(Piece) /\ broker' = "failed" /\ have' = <<>> /\ want' = 0
        /\ UNCHANGED <<client, asked, toSend, pending, seen, down, writing, applied, cursor, torn, events>>
    BY <1>9, HeadAndTail DEF RefuseLength, Undecodable, Fail, Take, clientVars
  <2>. QED
    BY <2>1
<1>10. CASE Handle
  <2>1. Head(have) \in Piece /\ Head(up) \in Piece /\ up' \in Seq(Piece)
    BY <1>10 DEF Handle, Take
  <2>2. ReplyTo(Head(have).req) \subseteq Frame
    BY <2>1 DEF ReplyTo, Reply, Frame, Piece
  <2>3. Append(have, Head(up)) \in Seq(Piece)
    BY <2>1
  <2>. QED
    BY <1>10, <2>1, <2>2, <2>3 DEF Handle, Take, clientVars
<1>11. CASE TakeEvent
  <2>1. Event(cursor) \in Frame
    BY DEF Event, Frame
  <2>. QED
    BY <1>11, <2>1 DEF TakeEvent, clientVars
<1>12. CASE WriteFrame
  BY <1>12 DEF WriteFrame, clientVars, readVars
<1>13. CASE WriteFails \/ HangUp
  BY <1>13 DEF WriteFails, HangUp, clientVars, readVars
<1>14. CASE Broadcast
  BY <1>14 DEF Broadcast, clientVars, brokerVars, readVars
<1>15. CASE UNCHANGED vars
  BY <1>15 DEF vars, clientVars, brokerVars, readVars
<1>. QED
  BY <1>1, <1>2, <1>3, <1>4, <1>5, <1>6, <1>7, <1>8, <1>9, <1>10, <1>11, <1>12, <1>13, <1>14, <1>15
     DEF Next, ClientIO, Serve

LEMMA FlowStep ==
  ASSUME CInv, [Next]_vars
  PROVE  OneRequestAtATime' /\ AppliedAsSent' /\ FailsOnlyWhenTorn'
<1>. USE DEF CInv
<1>1. ASSUME NEW s \in Sizes, Send(s)
      PROVE  OneRequestAtATime' /\ AppliedAsSent' /\ FailsOnlyWhenTorn'
  <2>1. OneRequestAtATime'
    BY <1>1, FlowSend
  <2>. QED
    BY <1>1, <2>1 DEF Send, Idle, brokerVars, AppliedAsSent, FailsOnlyWhenTorn
<1>2. CASE WritePiece
  BY <1>2, FlowWritePiece DEF WritePiece, brokerVars, AppliedAsSent, FailsOnlyWhenTorn
<1>3. CASE ReadReply
  <2>1. /\ client = "waiting" /\ down \in Seq(Frame) /\ down # <<>>
        /\ client' # client => client' = "idle" /\ ~IsEvent(Head(down))
        /\ UNCHANGED <<toSend, up, brokerVars, asked>>
    BY <1>3 DEF ReadReply, IsEvent, ConnectionTypeOK
  <2>2. 1 \in DOMAIN down /\ Head(down) = down[1] /\ Head(down) \in Frame
    BY <2>1
  <2>3. client' = "idle" => IsReply(Head(down))
    BY <2>1, <2>2 DEF Frame, IsEvent, IsReply
  <2>4. client' = "idle" => Quiet /\ Len(applied) = asked
    BY <2>2, <2>3 DEF ReplyDue
  <2>5. OneRequestAtATime'
    BY <2>1, <2>4, FlowKept DEF brokerVars, readVars
  <2>. QED
    BY <2>1, <2>5 DEF brokerVars, AppliedAsSent, FailsOnlyWhenTorn
<1>4. CASE TakeEvents \/ IntoEventStream
  <2>1. /\ client = "idle" /\ client' \in {"idle", "streaming"}
        /\ UNCHANGED <<asked, toSend, up, brokerVars>>
    BY <1>4 DEF TakeEvents, IntoEventStream, HandOver
  <2>2. Quiet /\ Len(applied) = asked
    BY <2>1, NothingIsOnItsWay
  <2>3. OneRequestAtATime'
    BY <2>1, <2>2, FlowKept DEF brokerVars, readVars
  <2>. QED
    BY <2>1, <2>3 DEF brokerVars, AppliedAsSent, FailsOnlyWhenTorn
<1>5. CASE ReadStream
  <2>1. /\ client = "streaming" /\ client' \in {"streaming", "gone"}
        /\ UNCHANGED <<asked, toSend, up, brokerVars>>
    BY <1>5 DEF ReadStream
  <2>2. Quiet /\ Len(applied) = asked
    BY <2>1, NothingIsOnItsWay
  <2>3. OneRequestAtATime'
    BY <2>1, <2>2, FlowKept DEF brokerVars, readVars
  <2>. QED
    BY <2>1, <2>3 DEF brokerVars, AppliedAsSent, FailsOnlyWhenTorn
<1>6. CASE Exit \/ Disconnected
  <2>1. /\ client' = "gone" /\ toSend' = <<>>
        /\ UNCHANGED <<asked, up, have, want, applied, broker, torn>>
    BY <1>6 DEF Exit, Disconnected, brokerVars, readVars
  <2>. QED
    BY <2>1, FlowGone DEF AppliedAsSent, FailsOnlyWhenTorn
<1>7. CASE ReadPrefix
  BY <1>7, FlowReadPrefix DEF ReadPrefix, Take, clientVars, AppliedAsSent, FailsOnlyWhenTorn
<1>8. CASE ReadPayload
  BY <1>8, FlowReadPayload DEF ReadPayload, Take, clientVars, AppliedAsSent, FailsOnlyWhenTorn
<1>9. CASE RefuseLength \/ Undecodable
  BY <1>9, FlowFail DEF RefuseLength, Undecodable, Fail, AppliedAsSent
<1>10. CASE Handle
  BY <1>10, FlowHandle DEF Handle, Take, clientVars, FailsOnlyWhenTorn
<1>11. CASE TakeEvent
  <2>1. /\ UNCHANGED <<client, asked, toSend, up, applied, broker>>
        /\ have' = <<>> /\ (torn \/ have # <<>> => torn') /\ broker = "serving"
    BY <1>11 DEF TakeEvent, Selecting, clientVars
  <2>. QED
    BY <2>1, FlowDrop DEF AppliedAsSent, FailsOnlyWhenTorn
<1>12. CASE WriteFrame \/ Broadcast \/ UNCHANGED vars
  <2>1. UNCHANGED <<have, up, toSend, asked, want, applied, client, broker, torn>>
    BY <1>12 DEF WriteFrame, Broadcast, vars, clientVars, readVars, brokerVars
  <2>. QED
    BY <2>1, FlowKept DEF AppliedAsSent, FailsOnlyWhenTorn
<1>13. CASE WriteFails
  <2>1. /\ UNCHANGED <<have, up, toSend, asked, want, applied, client, torn>>
        /\ broker' # "serving" /\ client = "gone"
    BY <1>13 DEF WriteFails, clientVars, readVars
  <2>. QED
    BY <2>1, FlowKept DEF AppliedAsSent, FailsOnlyWhenTorn
<1>14. CASE HangUp
  <2>1. /\ UNCHANGED <<client, asked, toSend, up, applied>>
        /\ have' = <<>> /\ broker' # "serving" /\ client = "gone"
    BY <1>14 DEF HangUp, clientVars
  <2>. QED
    BY <2>1, FlowDrop DEF AppliedAsSent, FailsOnlyWhenTorn
<1>. QED
  BY <1>1, <1>2, <1>3, <1>4, <1>5, <1>6, <1>7, <1>8, <1>9, <1>10, <1>11, <1>12, <1>13, <1>14
     DEF Next, ClientIO, Serve

(* Without a reply under way, every step but the one that handles a request *)
(* leaves it so.                                                            *)
NoReply == (\A i \in DOMAIN down : ~IsReply(down[i])) /\ \A f \in writing : ~IsReply(f)

LEMMA NoReplyIsDue ==
  ASSUME ReplyDue, NoReply', \A f, g \in writing' : f = g, client' = "gone" => down' = <<>>
  PROVE  ReplyDue'
BY DEF ReplyDue, NoReply

LEMMA BusyOrIdle ==
  ASSUME ReplyDue, client \in {"idle", "writing", "streaming"} \/ (up # <<>> /\ writing = {})
  PROVE  NoReply
BY DEF ReplyDue, NoReply, Quiet

LEMMA ReplyStep ==
  ASSUME CInv, [Next]_vars
  PROVE  ReplyDue'
<1>. USE DEF CInv
<1>1. ASSUME NEW s \in Sizes, Send(s)
      PROVE  ReplyDue'
  <2>1. client = "idle" /\ client' = "writing" /\ down' = down /\ writing' = writing
    BY <1>1 DEF Send, Idle, brokerVars
  <2>2. NoReply
    BY <2>1, BusyOrIdle
  <2>. QED
    BY <2>1, <2>2, NoReplyIsDue DEF NoReply, ReplyDue
<1>2. CASE WritePiece
  <2>1. client = "writing" /\ client' # "gone" /\ down' = down /\ writing' = writing
    BY <1>2 DEF WritePiece, brokerVars
  <2>2. NoReply
    BY <2>1, BusyOrIdle
  <2>. QED
    BY <2>1, <2>2, NoReplyIsDue DEF NoReply, ReplyDue
<1>3. CASE ReadReply
  <2>1. /\ client = "waiting" /\ down \in Seq(Frame) /\ down # <<>> /\ down' = Tail(down)
        /\ client' = IF IsEvent(Head(down)) THEN client ELSE "idle"
        /\ UNCHANGED <<toSend, up, have, applied, writing, asked>>
    BY <1>3 DEF ReadReply, IsEvent, ConnectionTypeOK, brokerVars, readVars
  <2>2. /\ 1 \in DOMAIN down /\ Head(down) = down[1]
        /\ \A i \in DOMAIN down' : i + 1 \in DOMAIN down /\ i + 1 # 1 /\ down'[i] = down[i + 1]
        /\ DOMAIN down' \subseteq Nat
    BY <2>1
  <2>3. CASE IsEvent(Head(down))
    <3>1. client' = "waiting"
      BY <2>1, <2>3
    <3>2. ASSUME NEW i \in DOMAIN down', IsReply(down'[i])
          PROVE  /\ Quiet /\ Len(applied) = asked /\ \A f \in writing : ~IsReply(f)
                 /\ \A j \in DOMAIN down' : IsReply(down'[j]) => i = j
      <4>1. i + 1 \in DOMAIN down /\ IsReply(down[i + 1])
        BY <2>2, <3>2
      <4>2. \A j \in DOMAIN down' : IsReply(down'[j]) => i + 1 = j + 1 /\ i \in Nat /\ j \in Nat
        BY <2>2, <4>1 DEF ReplyDue
      <4>. QED
        BY <4>1, <4>2 DEF ReplyDue
    <3>. QED
      BY <2>1, <3>1, <3>2 DEF ReplyDue, Quiet
  <2>4. CASE ~IsEvent(Head(down))
    <3>. down[1] \in Frame
      BY <2>1, <2>2
    <3>1. IsReply(down[1])
      BY <2>2, <2>4 DEF Frame, IsEvent, IsReply
    <3>2. NoReply'
      BY <2>1, <2>2, <3>1 DEF ReplyDue, NoReply
    <3>. QED
      BY <2>1, <2>4, <3>2, NoReplyIsDue DEF ReplyDue
  <2>. QED
    BY <2>3, <2>4
<1>4. CASE TakeEvents \/ IntoEventStream
  <2>1. client = "idle" /\ client' \in {"idle", "streaming"} /\ down' = down /\ writing' = writing
    BY <1>4 DEF TakeEvents, IntoEventStream, HandOver, brokerVars
  <2>2. NoReply
    BY <2>1, BusyOrIdle
  <2>. QED
    BY <2>1, <2>2, NoReplyIsDue DEF NoReply, ReplyDue
<1>5. CASE ReadStream
  <2>1. /\ client = "streaming" /\ down \in Seq(Frame) /\ down # <<>> /\ down' = Tail(down)
        /\ client' = IF IsEvent(Head(down)) THEN client ELSE "gone"
        /\ writing' = writing
    BY <1>5 DEF ReadStream, IsEvent, ConnectionTypeOK, brokerVars
  <2>2. NoReply
    BY <2>1, BusyOrIdle
  <2>3. Head(down) = down[1] /\ 1 \in DOMAIN down /\ Head(down) \in Frame
    BY <2>1
  <2>4. IsEvent(Head(down))
    BY <2>2, <2>3 DEF NoReply, Frame, IsReply, IsEvent
  <2>5. \A i \in DOMAIN down' : \E j \in DOMAIN down : down'[i] = down[j]
    BY <2>1
  <2>6. NoReply'
    BY <2>1, <2>2, <2>5 DEF NoReply
  <2>. QED
    BY <2>1, <2>4, <2>6, NoReplyIsDue DEF ReplyDue
<1>6. CASE Exit \/ Disconnected
  <2>1. /\ client' = "gone" /\ toSend' = <<>> /\ down' = <<>>
        /\ UNCHANGED <<up, have, writing, applied, asked>>
    BY <1>6 DEF Exit, Disconnected, brokerVars, readVars
  <2>. QED
    BY <2>1 DEF ReplyDue, Quiet
<1>7. CASE ReadPrefix \/ ReadPayload \/ RefuseLength \/ Undecodable
  <2>1. up # <<>> /\ writing = {} /\ client' = client /\ down' = down /\ writing' = writing
    BY <1>7 DEF ReadPrefix, ReadPayload, RefuseLength, Undecodable, Fail, Take, Selecting, clientVars
  <2>2. NoReply
    BY <2>1, BusyOrIdle
  <2>. QED
    BY <2>1, <2>2, NoReplyIsDue DEF NoReply, ReplyDue
<1>8. CASE Handle
  <2>1. /\ up # <<>> /\ writing = {} /\ down' = down /\ client' = client /\ asked' = asked
        /\ writing' = {Reply(Head(have).req)}
    BY <1>8 DEF Handle, Take, Selecting, ReplyTo, clientVars
  <2>2. NoReply
    BY <2>1, BusyOrIdle
  <2>3. Quiet' /\ client \in {"waiting", "gone"} /\ Len(applied') = asked
    BY <1>8, FlowHandle
  <2>. QED
    BY <2>1, <2>2, <2>3 DEF NoReply, ReplyDue
<1>9. CASE TakeEvent
  <2>1. /\ writing = {} /\ writing' \subseteq {Event(cursor)} /\ have' = <<>>
        /\ UNCHANGED <<client, toSend, up, down, applied, asked>>
    BY <1>9 DEF TakeEvent, Selecting, clientVars
  <2>2. \A f \in writing' : ~IsReply(f)
    BY <2>1 DEF Event, IsReply
  <2>. QED
    BY <2>1, <2>2 DEF ReplyDue, Quiet
<1>10. CASE WriteFrame
  <2>1. PICK f \in writing : down' = Append(down, f)
    BY <1>10 DEF WriteFrame
  <2>2. /\ client # "gone" /\ writing' = {} /\ writing = {f} /\ f \in Frame
        /\ UNCHANGED <<client, toSend, up, have, applied, asked>>
    BY <1>10, <2>1 DEF WriteFrame, ReplyDue, clientVars, readVars, ConnectionTypeOK
  <2>3. /\ DOMAIN down' = DOMAIN down \cup {Len(down) + 1} /\ down'[Len(down) + 1] = f
        /\ \A i \in DOMAIN down : down'[i] = down[i]
    BY <2>1, <2>2 DEF ConnectionTypeOK
  <2>4. CASE IsReply(f)
    <3>1. \A i \in DOMAIN down : ~IsReply(down[i])
      BY <2>2, <2>4 DEF ReplyDue
    <3>2. Quiet /\ client = "waiting" /\ Len(applied) = asked
      BY <2>2, <2>4 DEF ReplyDue
    <3>. QED
      BY <2>2, <2>3, <3>1, <3>2 DEF ReplyDue, Quiet
  <2>5. CASE ~IsReply(f)
    BY <2>2, <2>3, <2>5 DEF ReplyDue, Quiet
  <2>. QED
    BY <2>4, <2>5
<1>11. CASE WriteFails
  <2>1. client = "gone" /\ client' = client /\ down' = down /\ writing' = {}
    BY <1>11 DEF WriteFails, clientVars
  <2>. QED
    BY <2>1 DEF ReplyDue
<1>12. CASE HangUp
  <2>1. writing = {} /\ client = "gone" /\ client' = client /\ down' = down /\ writing' = writing
    BY <1>12 DEF HangUp, Selecting, clientVars
  <2>. QED
    BY <2>1 DEF ReplyDue
<1>13. CASE Broadcast \/ UNCHANGED vars
  <2>1. UNCHANGED <<client, toSend, up, have, down, writing, applied, asked>>
    BY <1>13 DEF Broadcast, vars, clientVars, brokerVars, readVars
  <2>. QED
    BY <2>1 DEF ReplyDue, Quiet
<1>. QED
  BY <1>1, <1>2, <1>3, <1>4, <1>5, <1>6, <1>7, <1>8, <1>9, <1>10, <1>11, <1>12, <1>13
     DEF Next, ClientIO, Serve

-----------------------------------------------------------------------------
(* The events handed over, and those that are coming. *)

LEMMA ComingIs ==
  ASSUME NEW n
  PROVE  n \in Coming <=>
           \/ \E i \in DOMAIN down : IsEvent(down[i]) /\ n = down[i].nr
           \/ \E f \in writing : IsEvent(f) /\ n = f.nr
BY DEF Coming

LEMMA ComingAfter ==
  \A n : n \in Coming' <=>
           \/ \E i \in DOMAIN down' : IsEvent(down'[i]) /\ n = down'[i].nr
           \/ \E f \in writing' : IsEvent(f) /\ n = f.nr
BY DEF Coming, IsEvent

(* A step that takes no event, hands none over and writes none.             *)
LEMMA EventsKept ==
  ASSUME EventsKeptInOrder,
         \/ client' = "gone" \/ broker' # "serving"
         \/ /\ client # "gone" /\ broker = "serving"
            /\ Heard' = Heard /\ down' = down /\ writing' = writing /\ cursor' = cursor
  PROVE  EventsKeptInOrder'
BY DEF EventsKeptInOrder, Coming, IsEvent

(* The client reads an event and appends it to those heard. *)
LEMMA OneMoreHeard ==
  ASSUME ConnectionTypeOK, EventsKeptInOrder, client # "gone", broker' = broker,
         down # <<>>, IsEvent(Head(down)), down' = Tail(down),
         Heard \in Seq(Nat), Heard' = Append(Heard, Head(down).nr),
         writing' = writing, cursor' = cursor
  PROVE  EventsKeptInOrder'
<1> SUFFICES ASSUME broker = "serving"
             PROVE  EventsKeptInOrder'
  BY DEF EventsKeptInOrder
<1>1. DEFINE n == Head(down).nr
<1>2. /\ down \in Seq(Frame) /\ 1 \in DOMAIN down /\ Head(down) = down[1]
      /\ \A i \in DOMAIN down' : i + 1 \in DOMAIN down /\ 1 < i + 1 /\ down'[i] = down[i + 1]
      /\ \A i \in DOMAIN down : i = 1 \/ (i - 1 \in DOMAIN down' /\ down'[i - 1] = down[i])
      /\ DOMAIN down' \subseteq Nat /\ \A i \in DOMAIN down : i \in Nat
  <2>1. down \in Seq(Frame)
    BY DEF ConnectionTypeOK
  <2>2. 1 \in DOMAIN down /\ Head(down) = down[1]
    BY <2>1
  <2>3. Len(down') = Len(down) - 1 /\ DOMAIN down' = 1 .. Len(down) - 1
    BY <2>1
  <2>4. \A i \in 1 .. Len(down) - 1 : down'[i] = down[i + 1]
    BY <2>1
  <2>5. DOMAIN down = 1 .. Len(down) /\ Len(down) \in Nat
    BY <2>1
  <2>6. \A i \in DOMAIN down : i = 1 \/ (i - 1 \in DOMAIN down' /\ down'[i - 1] = down[i])
    <3> SUFFICES ASSUME NEW i \in DOMAIN down, i # 1
                 PROVE  i - 1 \in DOMAIN down' /\ down'[i - 1] = down[i]
      OBVIOUS
    <3>1. i - 1 \in 1 .. Len(down) - 1 /\ (i - 1) + 1 = i
      BY <2>5
    <3>. QED
      BY <2>3, <2>4, <3>1
  <2>. QED
    BY <2>1, <2>2, <2>3, <2>4, <2>5, <2>6
<1>3. /\ DOMAIN Heard' = DOMAIN Heard \cup {Len(Heard) + 1} /\ Heard'[Len(Heard) + 1] = n
      /\ \A i \in DOMAIN Heard : Heard'[i] = Heard[i] /\ i \in Nat /\ i < Len(Heard) + 1
      /\ Len(Heard) \in Nat
  OBVIOUS
<1>4. n \in Coming
  BY <1>2, ComingIs
<1>5. \A m : m \in Coming' => m \in Coming /\ n < m
  <2>1. ASSUME NEW i \in DOMAIN down', IsEvent(down'[i])
        PROVE  down'[i].nr \in Coming /\ n < down'[i].nr
    <3>1. i + 1 \in DOMAIN down /\ 1 < i + 1 /\ down'[i] = down[i + 1]
      BY <1>2
    <3>2. n < down[i + 1].nr
      BY <1>2, <2>1, <3>1 DEF EventsKeptInOrder
    <3>. QED
      BY <2>1, <3>1, <3>2, ComingIs
  <2>2. ASSUME NEW f \in writing, IsEvent(f)
        PROVE  f.nr \in Coming /\ n < f.nr
    BY <1>2, <2>2, ComingIs DEF EventsKeptInOrder
  <2>. QED
    BY <2>1, <2>2, ComingAfter
<1>6. \A m : m \in Coming => m = n \/ m \in Coming'
  <2>1. ASSUME NEW i \in DOMAIN down, IsEvent(down[i])
        PROVE  down[i].nr = n \/ down[i].nr \in Coming'
    BY <1>2, <2>1, ComingAfter
  <2>2. ASSUME NEW f \in writing, IsEvent(f)
        PROVE  f.nr \in Coming'
    BY <2>2, ComingAfter
  <2>. QED
    BY <2>1, <2>2, ComingIs
<1>7. {Heard'[i] : i \in DOMAIN Heard'} = {Heard[i] : i \in DOMAIN Heard} \cup {n}
  BY <1>3
<1>8. {Heard'[i] : i \in DOMAIN Heard'} \cup Coming' = {i \in Wanted : i < cursor'}
  BY <1>4, <1>5, <1>6, <1>7 DEF EventsKeptInOrder
<1>9. \A i, j \in DOMAIN Heard' : i < j => Heard'[i] < Heard'[j]
  BY <1>3, <1>4 DEF EventsKeptInOrder
<1>10. \A i \in DOMAIN Heard', m \in Coming' : Heard'[i] < m
  BY <1>3, <1>5 DEF EventsKeptInOrder
<1>11. \A i, j \in DOMAIN down' :
         i < j /\ IsEvent(down'[i]) /\ IsEvent(down'[j]) => down'[i].nr < down'[j].nr
  <2> SUFFICES ASSUME NEW i \in DOMAIN down', NEW j \in DOMAIN down',
                      i < j, IsEvent(down'[i]), IsEvent(down'[j])
               PROVE  down'[i].nr < down'[j].nr
    OBVIOUS
  <2>1. i + 1 < j + 1
    BY <1>2
  <2>. QED
    BY <1>2, <2>1 DEF EventsKeptInOrder
<1>12. \A i \in DOMAIN down', f \in writing :
         IsEvent(down'[i]) /\ IsEvent(f) => down'[i].nr < f.nr
  BY <1>2 DEF EventsKeptInOrder
<1>. QED
  BY <1>8, <1>9, <1>10, <1>11, <1>12 DEF EventsKeptInOrder, IsEvent

(* Events that a take or the start of a stream hands over were heard before.*)
LEMMA HandOverHears ==
  ASSUME seen \in Seq(Nat), pending \in Seq(Nat), seen' = seen \o pending, pending' = <<>>
  PROVE  Heard' = Heard
BY DEF Heard

LEMMA HeardGrows ==
  ASSUME seen \in Seq(Nat), pending \in Seq(Nat), NEW n \in Nat,
         \/ seen' = seen /\ pending' = Append(pending, n)
         \/ pending = <<>> /\ pending' = <<>> /\ seen' = Append(seen, n)
  PROVE  Heard' = Append(Heard, n)
<1>1. CASE seen' = seen /\ pending' = Append(pending, n)
  <2>1. seen \o Append(pending, n) = Append(seen \o pending, n)
    OBVIOUS
  <2>. QED
    BY <1>1, <2>1 DEF Heard
<1>2. CASE pending = <<>> /\ pending' = <<>> /\ seen' = Append(seen, n)
  <2>1. seen \o <<>> = seen /\ Append(seen, n) \o <<>> = Append(seen, n)
    OBVIOUS
  <2>. QED
    BY <1>2, <2>1 DEF Heard
<1>. QED
  BY <1>1, <1>2

(* The broker takes the next event from its receiver. *)
LEMMA TakeEventKeepsOrder ==
  ASSUME ConnectionTypeOK, EventsKeptInOrder, TakeEvent
  PROVE  EventsKeptInOrder'
<1>1. /\ broker = "serving" /\ writing = {} /\ cursor' = cursor + 1
      /\ writing' = IF cursor \in Wanted THEN {Event(cursor)} ELSE {}
      /\ UNCHANGED <<client, pending, seen, down, broker>>
  BY DEF TakeEvent, Selecting, clientVars
<1> SUFFICES ASSUME client # "gone"
             PROVE  EventsKeptInOrder'
  BY <1>1 DEF EventsKeptInOrder
<1>2. cursor \in Nat /\ Wanted \subseteq Nat /\ Heard' = Heard
  BY <1>1, ConnectionAssumption DEF ConnectionTypeOK, Heard
<1>3. \A f \in writing' : IsEvent(f) /\ f.nr = cursor /\ cursor \in Wanted
  BY <1>1 DEF Event, IsEvent
<1>4. cursor \in Wanted => \E f \in writing' : IsEvent(f) /\ f.nr = cursor
  BY <1>1 DEF Event, IsEvent
<1>5. \A n : n \in Coming' <=> n \in Coming \/ (cursor \in Wanted /\ n = cursor)
  <2>1. \A n : n \in Coming <=> \E i \in DOMAIN down : IsEvent(down[i]) /\ n = down[i].nr
    BY <1>1, ComingIs
  <2>. QED
    BY <1>1, <1>3, <1>4, <2>1, ComingAfter
<1>6. /\ \A n \in Coming : n \in Wanted /\ n < cursor
      /\ \A i \in DOMAIN Heard : Heard[i] \in Wanted /\ Heard[i] < cursor
      /\ {Heard[i] : i \in DOMAIN Heard} \cup Coming = {i \in Wanted : i < cursor}
  BY <1>1 DEF EventsKeptInOrder
<1>7. {i \in Wanted : i < cursor'} =
        {i \in Wanted : i < cursor} \cup (IF cursor \in Wanted THEN {cursor} ELSE {})
  <2>1. \A i \in Wanted : i < cursor' <=> i < cursor \/ i = cursor
    BY <1>1, <1>2
  <2>. QED
    BY <2>1
<1>8. {Heard'[i] : i \in DOMAIN Heard'} \cup Coming' = {i \in Wanted : i < cursor'}
  BY <1>2, <1>5, <1>6, <1>7
<1>9. \A i \in DOMAIN Heard', n \in Coming' : Heard'[i] < n
  BY <1>1, <1>2, <1>5, <1>6 DEF EventsKeptInOrder
<1>10. \A i \in DOMAIN down, f \in writing' :
         IsEvent(down[i]) /\ IsEvent(f) => down[i].nr < f.nr
  BY <1>3, <1>6, ComingIs
<1>. QED
  BY <1>1, <1>2, <1>8, <1>9, <1>10 DEF EventsKeptInOrder, IsEvent

(* A frame put into the pipe goes behind those that are there. *)
LEMMA WriteFrameKeepsOrder ==
  ASSUME ConnectionTypeOK, ReplyDue, EventsKeptInOrder, WriteFrame
  PROVE  EventsKeptInOrder'
<1>1. PICK f \in writing : down' = Append(down, f)
  BY DEF WriteFrame
<1>2. /\ client # "gone" /\ broker = "serving" /\ writing' = {} /\ writing = {f}
      /\ UNCHANGED <<client, pending, seen, broker, cursor>>
  BY <1>1 DEF WriteFrame, ReplyDue, clientVars, readVars
<1>3. /\ DOMAIN down' = DOMAIN down \cup {Len(down) + 1} /\ down'[Len(down) + 1] = f
      /\ \A i \in DOMAIN down : down'[i] = down[i] /\ i \in Nat /\ i < Len(down) + 1
      /\ Len(down) \in Nat
  BY <1>1 DEF ConnectionTypeOK
<1>4. Heard' = Heard
  BY <1>2 DEF Heard
<1>5. \A n : n \in Coming' <=> n \in Coming
  <2>1. \A n : n \in Coming' <=> \E i \in DOMAIN down' : IsEvent(down'[i]) /\ n = down'[i].nr
    BY <1>2, ComingAfter
  <2>2. \A n : n \in Coming <=>
          \/ \E i \in DOMAIN down : IsEvent(down[i]) /\ n = down[i].nr
          \/ IsEvent(f) /\ n = f.nr
    BY <1>2, ComingIs
  <2>. QED
    BY <1>3, <2>1, <2>2
<1>6. Coming' = Coming
  BY <1>5
<1>7. \A i, j \in DOMAIN down' :
        i < j /\ IsEvent(down'[i]) /\ IsEvent(down'[j]) => down'[i].nr < down'[j].nr
  BY <1>2, <1>3 DEF EventsKeptInOrder
<1>. QED
  BY <1>2, <1>4, <1>6, <1>7 DEF EventsKeptInOrder, IsEvent

LEMMA HeadIsFrame ==
  ASSUME ConnectionTypeOK, down # <<>>
  PROVE  Head(down) \in Frame /\ Head(down).nr \in Nat
<1>1. Head(down) \in Frame
  BY HeadAndTail DEF ConnectionTypeOK
<1>. QED
  BY <1>1 DEF Frame

(* The client reads a reply: the events are as they were. *)
LEMMA ReplyRead ==
  ASSUME ConnectionTypeOK, EventsKeptInOrder, client # "gone",
         down # <<>>, ~IsEvent(Head(down)), down' = Tail(down),
         UNCHANGED <<Heard, writing, cursor, broker>>
  PROVE  EventsKeptInOrder'
<1>1. /\ down \in Seq(Frame) /\ Head(down) = down[1] /\ 1 \in DOMAIN down
      /\ DOMAIN down = 1 .. Len(down) /\ Len(down) \in Nat
      /\ DOMAIN down' = 1 .. Len(down) - 1
      /\ \A i \in 1 .. Len(down) - 1 : down'[i] = down[i + 1]
  BY DEF ConnectionTypeOK
<1>2. \A n : n \in Coming' <=> n \in Coming
  <2>1. ASSUME NEW i \in DOMAIN down, IsEvent(down[i])
        PROVE  \E j \in DOMAIN down' : down'[j] = down[i]
    <3>1. i # 1
      BY <1>1, <2>1
    <3>2. i - 1 \in 1 .. Len(down) - 1 /\ (i - 1) + 1 = i
      BY <1>1, <3>1
    <3>. QED
      BY <1>1, <3>2
  <2>2. \A j \in DOMAIN down' : \E i \in DOMAIN down : down'[j] = down[i]
    BY <1>1
  <2>. QED
    BY <2>1, <2>2, ComingIs, ComingAfter
<1>3. Coming' = Coming
  BY <1>2
<1>4. \A i, j \in DOMAIN down' :
        i < j /\ IsEvent(down'[i]) /\ IsEvent(down'[j]) /\ broker = "serving" => down'[i].nr < down'[j].nr
  <2> SUFFICES ASSUME NEW i \in DOMAIN down', NEW j \in DOMAIN down', broker = "serving",
                      i < j, IsEvent(down'[i]), IsEvent(down'[j])
               PROVE  down'[i].nr < down'[j].nr
    OBVIOUS
  <2>1. /\ i + 1 \in DOMAIN down /\ j + 1 \in DOMAIN down /\ i + 1 < j + 1
        /\ down'[i] = down[i + 1] /\ down'[j] = down[j + 1]
    BY <1>1
  <2>. QED
    BY <2>1 DEF EventsKeptInOrder
<1>5. \A i \in DOMAIN down', f \in writing :
        IsEvent(down'[i]) /\ IsEvent(f) /\ broker = "serving" => down'[i].nr < f.nr
  <2>1. \A j \in DOMAIN down' : \E i \in DOMAIN down : down'[j] = down[i]
    BY <1>1
  <2>. QED
    BY <2>1 DEF EventsKeptInOrder
<1>. QED
  BY <1>3, <1>4, <1>5 DEF EventsKeptInOrder, IsEvent

LEMMA EventsStep ==
  ASSUME CInv, [Next]_vars
  PROVE  EventsKeptInOrder' /\ EventsTaken'
<1>. USE DEF CInv
<1>1. CASE \/ \E s \in Sizes : Send(s)
           \/ WritePiece \/ ReadPrefix \/ ReadPayload \/ Broadcast \/ UNCHANGED vars
  <2>1. /\ UNCHANGED <<seen, pending, down, writing, cursor, broker>>
        /\ client' = client \/ (client' # "gone" /\ client # "gone" /\ client' # "streaming")
    BY <1>1 DEF Send, Idle, WritePiece, ReadPrefix, ReadPayload, Take, Broadcast,
                vars, clientVars, brokerVars, readVars
  <2>. QED
    BY <2>1, EventsKept DEF EventsKeptInOrder, EventsTaken, Heard
<1>2. CASE ReadReply
  <2>1. /\ client = "waiting" /\ client' \in {"waiting", "idle"} /\ down # <<>> /\ down' = Tail(down)
        /\ pending' = IF IsEvent(Head(down)) THEN Append(pending, Head(down).nr) ELSE pending
        /\ UNCHANGED <<seen, writing, cursor, broker>>
    BY <1>2 DEF ReadReply, Buffered, IsEvent, brokerVars
  <2>2. EventsTaken'
    BY <2>1 DEF EventsTaken
  <2>3. seen \in Seq(Nat) /\ pending \in Seq(Nat) /\ Heard \in Seq(Nat) /\ Head(down).nr \in Nat
    BY <2>1, HeadIsFrame DEF ConnectionTypeOK, Heard
  <2>4. CASE IsEvent(Head(down))
    <3>1. Heard' = Append(Heard, Head(down).nr)
      BY <2>1, <2>3, <2>4, HeardGrows
    <3>. QED
      BY <2>1, <2>2, <2>3, <2>4, <3>1, OneMoreHeard
  <2>5. CASE ~IsEvent(Head(down))
    BY <2>1, <2>2, <2>5, ReplyRead DEF Heard
  <2>. QED
    BY <2>4, <2>5
<1>3. CASE TakeEvents \/ IntoEventStream
  <2>1. /\ client = "idle" /\ client' # "gone" /\ pending' = <<>> /\ seen' = seen \o pending
        /\ UNCHANGED <<down, writing, cursor, broker>>
    BY <1>3 DEF TakeEvents, IntoEventStream, HandOver, brokerVars
  <2>2. Heard' = Heard
    BY <2>1, HandOverHears DEF ConnectionTypeOK
  <2>. QED
    BY <2>1, <2>2, EventsKept DEF EventsKeptInOrder, EventsTaken
<1>4. CASE ReadStream
  <2>1. /\ client = "streaming" /\ down # <<>> /\ down' = Tail(down) /\ pending' = pending
        /\ IF IsEvent(Head(down))
             THEN client' = client /\ seen' = Append(seen, Head(down).nr)
             ELSE client' = "gone"
        /\ UNCHANGED <<writing, cursor, broker>>
    BY <1>4 DEF ReadStream, IsEvent, brokerVars
  <2>2. EventsTaken' /\ pending = <<>>
    BY <2>1 DEF EventsTaken
  <2>3. seen \in Seq(Nat) /\ pending \in Seq(Nat) /\ Heard \in Seq(Nat) /\ Head(down).nr \in Nat
    BY <2>1, HeadIsFrame DEF ConnectionTypeOK, Heard
  <2>4. CASE IsEvent(Head(down))
    <3>1. Heard' = Append(Heard, Head(down).nr)
      BY <2>1, <2>2, <2>3, <2>4, HeardGrows
    <3>. QED
      BY <2>1, <2>2, <2>3, <2>4, <3>1, OneMoreHeard
  <2>5. CASE ~IsEvent(Head(down))
    BY <2>1, <2>2, <2>5, EventsKept
  <2>. QED
    BY <2>4, <2>5
<1>5. CASE Exit \/ Disconnected
  <2>1. client' = "gone" /\ writing' = writing /\ cursor' = cursor
    BY <1>5 DEF Exit, Disconnected, brokerVars
  <2>. QED
    BY <2>1, EventsKept DEF EventsTaken
<1>6. CASE RefuseLength \/ Undecodable \/ WriteFails \/ HangUp
  <2>1. /\ broker' # "serving" /\ writing' \subseteq writing /\ cursor' = cursor
        /\ client' = client /\ pending' = pending
    BY <1>6 DEF RefuseLength, Undecodable, Fail, Take, WriteFails, HangUp, clientVars
  <2>. QED
    BY <2>1, EventsKept DEF EventsTaken
<1>7. CASE Handle
  <2>1. /\ writing = {} /\ writing' = {Reply(Head(have).req)}
        /\ UNCHANGED <<client, seen, pending, down, cursor, broker>>
    BY <1>7 DEF Handle, Take, Selecting, ReplyTo, clientVars
  <2>2. \A f \in writing' : ~IsEvent(f)
    BY <2>1 DEF Reply, IsEvent
  <2>3. Heard' = Heard
    BY <2>1 DEF Heard
  <2>4. Coming' = Coming
    BY <2>1, <2>2, ComingIs, ComingAfter
  <2>. QED
    BY <2>1, <2>2, <2>3, <2>4 DEF EventsKeptInOrder, EventsTaken, IsEvent
<1>8. CASE TakeEvent
  <2>1. /\ writing' \subseteq {Event(cursor)} /\ cursor' = cursor + 1 /\ cursor \in Nat
        /\ client' = client /\ pending' = pending
    BY <1>8 DEF TakeEvent, clientVars, ConnectionTypeOK
  <2>2. EventsTaken'
    BY <2>1 DEF EventsTaken, Event
  <2>. QED
    BY <1>8, <2>2, TakeEventKeepsOrder
<1>9. CASE WriteFrame
  <2>1. writing' = {} /\ client' = client /\ pending' = pending
    BY <1>9 DEF WriteFrame, clientVars
  <2>. QED
    BY <1>9, <2>1, WriteFrameKeepsOrder DEF EventsTaken
<1>. QED
  BY <1>1, <1>2, <1>3, <1>4, <1>5, <1>6, <1>7, <1>8, <1>9 DEF Next, ClientIO, Serve

-----------------------------------------------------------------------------
(* The invariant, and what follows from it. *)

LEMMA CInvHolds == Spec => []CInv
<1>1. Init => CInv
  <2>1. Init => ConnectionTypeOK
    <3>1. \A S : <<>> \in Seq(S)
      OBVIOUS
    <3>2. Init => /\ asked \in Nat /\ want \in Nat /\ events \in Nat /\ cursor \in Nat \ {0}
                  /\ writing \subseteq Frame
      BY DEF Init
    <3>3. Init => torn \in BOOLEAN
      BY Zenon DEF Init
    <3>. QED
      BY <3>1, <3>2, <3>3 DEF Init, ConnectionTypeOK
  <2>2. Init => OneRequestAtATime /\ ReplyDue
    BY DEF Init, OneRequestAtATime, Quiet, ReplyDue
  <2>3. ASSUME Init
        PROVE  EventsKeptInOrder
    <3>1. Heard = <<>> /\ Coming = {} /\ down = <<>> /\ cursor = 1
      BY <2>3 DEF Init, Heard, Coming
    <3>2. {i \in Wanted : i < 1} = {}
      <4>1. \A i \in Wanted : i \in 1 .. MaxEvents
        BY ConnectionAssumption
      <4>2. \A i \in 1 .. MaxEvents : ~(i < 1)
        BY ConnectionAssumption
      <4>. QED
        BY <4>1, <4>2
    <3>. QED
      BY <3>1, <3>2 DEF EventsKeptInOrder
  <2>4. Init => AppliedAsSent /\ FailsOnlyWhenTorn /\ EventsTaken
    BY DEF Init, AppliedAsSent, FailsOnlyWhenTorn, EventsTaken
  <2>. QED
    BY <2>1, <2>2, <2>3, <2>4 DEF CInv
<1>2. CInv /\ [Next]_vars => CInv'
  BY TypeStep, FlowStep, ReplyStep, EventsStep DEF CInv
<1>. QED
  BY <1>1, <1>2, PTL DEF Spec

(* Each request the broker has acted on is, piece by piece, the frame the   *)
(* client wrote, and they come in the order it asked: `serve` never takes   *)
(* for a request what a dropped read_frame left in the pipe.                *)
THEOREM RequestsAppliedAsSent == Spec => []AppliedAsSent
<1>1. CInv => AppliedAsSent
  BY DEF CInv
<1>. QED
  BY <1>1, CInvHolds, PTL

(* `serve` gives a connection up only after its client has gone, or when an *)
(* event has made it drop a request half read: no request that MAX_FRAME_BYTES*)
(* lets a client write is ever refused.                                     *)
THEOREM OnlyTornRequestsFail == Spec => []FailsOnlyWhenTorn
<1>1. CInv => FailsOnlyWhenTorn
  BY DEF CInv
<1>. QED
  BY <1>1, CInvHolds, PTL

(* Client and broker block each other only over a request that is larger    *)
(* than the pipe: with one request at a time the pipe holds nothing else.   *)
THEOREM OnlyLargeRequestsJam == Spec => []SmallRequestsNeverJam
<1>1. CInv => SmallRequestsNeverJam
  <2> SUFFICES ASSUME CInv, Jammed
               PROVE  toSend # <<>> /\ Head(toSend).size + 1 > UpRoom
    BY DEF SmallRequestsNeverJam
  <2>1. toSend # <<>> /\ client = "writing" /\ Len(up) = UpRoom
    BY DEF CInv, OneRequestAtATime, Jammed
  <2>2. PICK k \in Nat, s \in Nat \ {0} : OnItsWay(k, s)
    BY <2>1 DEF CInv, OneRequestAtATime
  <2>3. /\ toSend \in Seq(Piece) /\ Len(have) \in Nat /\ Len(up) \in Nat /\ asked \in Nat
        /\ Len(toSend) \in Nat /\ Len(toSend) > 0
    BY <2>1, NotEmpty DEF CInv, ConnectionTypeOK
  <2>4. PICK j \in Nat : j = k + Len(have) + Len(up)
    BY <2>3
  <2>5. Head(toSend) = Nth(asked, j, s)
    BY <2>1, <2>2, <2>3, <2>4, RunTail DEF OnItsWay
  <2>6. Head(toSend).size = s
    BY <2>5 DEF Nth
  <2>7. k + Len(have) + Len(up) + Len(toSend) = s + 1
    BY <2>1, <2>2 DEF OnItsWay
  <2>. QED
    BY <2>1, <2>2, <2>3, <2>6, <2>7
<1>. QED
  BY <1>1, CInvHolds, PTL

(* Every wanted event that `serve` has taken from its receiver has been     *)
(* handed to the application or is coming, once and in order, whatever      *)
(* requests, take_events and into_event_stream happen meanwhile.            *)
THEOREM BufferedEventsKept == Spec => []EventsKeptInOrder
<1>1. CInv => EventsKeptInOrder
  BY DEF CInv
<1>. QED
  BY <1>1, CInvHolds, PTL
=============================================================================
