-------------------------------- MODULE Fifo --------------------------------
(***************************************************************************)
(* What a gRPC stream promises to each side, whatever lies between: the    *)
(* messages put in are taken out once each, in order and without a gap;    *)
(* who puts them in says when there are no more; and who takes them is     *)
(* told so when it has taken them all, and takes none after it.  It may    *)
(* also never be told, and take no more: a stream can fail.                *)
(*                                                                         *)
(* Messages are numbered in the order they are put in.  Stream implements  *)
(* this twice: for what the script writes and for what the server sends.   *)
(***************************************************************************)
EXTENDS Naturals

VARIABLES
    put,       \* the number of messages put in
    taken,     \* the last one taken out
    shut,      \* no more messages are put in
    finished   \* who takes them has been told

vars == <<put, taken, shut, finished>>

Init ==
    /\ put = 0 /\ taken = 0
    /\ shut = FALSE /\ finished = FALSE

Put ==
    /\ ~shut
    /\ put' = put + 1
    /\ UNCHANGED <<taken, shut, finished>>

Take ==
    /\ ~finished /\ taken < put
    /\ taken' = taken + 1
    /\ UNCHANGED <<put, shut, finished>>

Shut ==
    /\ ~shut
    /\ shut' = TRUE
    /\ UNCHANGED <<put, taken, finished>>

Finish ==
    /\ shut /\ ~finished /\ taken = put
    /\ finished' = TRUE
    /\ UNCHANGED <<put, taken, shut>>

Next == Put \/ Take \/ Shut \/ Finish

Spec == Init /\ [][Next]_vars
=============================================================================
