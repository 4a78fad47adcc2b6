------------------------------ MODULE MCBroker ------------------------------
(***************************************************************************)
(* Small instances of the broker for TLC.                                  *)
(***************************************************************************)
EXTENDS Broker, TLC

CONSTANTS c1, c2, a1, a2

(* One application per connection, or two windows of the same application.  *)
OneAppEach == c1 :> a1 @@ c2 :> a2
SameApp == [c \in Conn |-> a1]

(* Events that say nothing of an application, or that one of them is gone.  *)
OtherNews == {[kind |-> "other"]}
StopNews == {[kind |-> "stopped", app |-> a1]}

ThreeAndTwo == c1 :> 3 @@ c2 :> 2
OneAndTwo == c1 :> 1 @@ c2 :> 2
=============================================================================
