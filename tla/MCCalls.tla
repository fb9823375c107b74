------------------------------ MODULE MCCalls ------------------------------
(***************************************************************************)
(* Instances of Calls for TLC, and what a comment says of the messages of  *)
(* a stream and the code does not do.                                      *)
(***************************************************************************)
EXTENDS Calls, TLC

CONSTANTS r1, r2

\* Two RPCs, one of which grpc-go may try again.  The other is a stream: two
\* RPCs are open at the same time only if one is.
MCKinds == r1 :> {"unary", "reflection"} @@ r2 :> {"stream"}
MCMaxAttempts == r1 :> 2 @@ r2 :> 1

\* lib/netext/grpcext/stream.go:71-80: the object a data event delivers has the
\* fields whose value is zero, too.
StreamKeepsZeros ==
    given.kind = "event" /\ given.message.kind = "object" => given.message.fields = Fields
=============================================================================
