------------------------------ MODULE MCStream ------------------------------
(***************************************************************************)
(* What the documentation and the comments say of a stream and the code    *)
(* does not do.  Each definition is the property of one run that TLC       *)
(* refutes; README.md walks through the counterexamples.                   *)
(***************************************************************************)
EXTENDS Stream

\* README.md:28: the end event comes when the server has finished sending the
\* data, so that no data event (queueMessage) comes after it.
NoDataAfterEnd == [][dataSeen' # dataSeen => endRuns = 0]_dataSeen

\* grpc/stream.go:132-133: once loop has seen the interrupt, the events of
\* the stream it cuts off are not forwarded to the VU any more.
NoErrorAfterInterrupt ==
    [][lp = "interrupted" /\ cur = NoFrame /\ cur'.upto > 0
            => cur'.event # "error"]_cur
=============================================================================
