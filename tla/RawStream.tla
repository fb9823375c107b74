------------------------------ MODULE RawStream ------------------------------
(***************************************************************************)
(* The environment of one client stream: grpc.ClientStream (grpc-go), the  *)
(* server behind it, the context the RPC runs under and the VU's context.  *)
(* None of it is code of the repository; it is modelled from how           *)
(* grpc/stream.go and lib/netext/grpcext/stream.go use it.                 *)
(*                                                                         *)
(* The server's messages are numbered 1, 2, ... in the order it sent them; *)
(* gRPC delivers them in that order, and the final status after them.      *)
(***************************************************************************)
EXTENDS Naturals

CONSTANT MaxArrivals    \* bound on the number of server messages

ASSUME MaxArrivalsAssumption == MaxArrivals \in Nat

VARIABLES
    arrived,   \* number of messages the server has sent
    received,  \* number of them readData has received and converted
    srv,       \* "open", or the status the RPC ended with
    ctx,       \* the RPC's context: "live", or why it is done
    vuDone     \* the VU's context is done

rawVars == <<arrived, received, srv, ctx, vuDone>>

\* The statuses an RPC ends with, as far as receive tells them apart:
\* Canceled is also what a client sees whose connection is closed locally.
Statuses == {"OK", "Error", "Canceled"}

RawInit ==
    /\ arrived = 0
    /\ received = 0
    /\ srv = "open"
    /\ ctx = "live"
    /\ vuDone = FALSE

\* The RPC is over, whoever ended it.
Terminated == srv # "open" \/ ctx # "live"

\* What cancelling the RPC's context makes of it: the first reason stays.
Cancelled(c) == IF c = "live" THEN "Canceled" ELSE c

ServerSends ==
    /\ srv = "open"
    /\ arrived < MaxArrivals
    /\ arrived' = arrived + 1
    /\ UNCHANGED <<received, srv, ctx, vuDone>>

ServerFinishes ==
    /\ srv = "open"
    /\ srv' \in Statuses
    /\ UNCHANGED <<arrived, received, ctx, vuDone>>

\* The iteration is interrupted: the VU's context, the parent of the RPC's.
VUCancelled ==
    /\ ~vuDone
    /\ vuDone' = TRUE
    /\ ctx' = Cancelled(ctx)
    /\ UNCHANGED <<arrived, received, srv>>

DeadlineExpires ==
    /\ ctx = "live"
    /\ ctx' = "Deadline"
    /\ UNCHANGED <<arrived, received, srv, vuDone>>
=============================================================================
