------------------------------ MODULE BytePipe ------------------------------
(***************************************************************************)
(* What one direction of a tunnel promises ("byte-pipe",                   *)
(* proxy_server.rs:7-8): the receiver gets what the sender sent, in order, *)
(* nothing left out and nothing twice, and it is told that this was all    *)
(* only when it was.  The pipe may break at any time: then nothing more    *)
(* comes.                                                                  *)
(***************************************************************************)
EXTENDS Naturals, Sequences

CONSTANT Payload

VARIABLES sent, sentAll, received, receivedAll

pipeVars == <<sent, sentAll, received, receivedAll>>

Init ==
    /\ sent = <<>> /\ received = <<>>
    /\ sentAll = FALSE /\ receivedAll = FALSE

Send ==
    /\ ~sentAll
    /\ \E p \in Payload : sent' = Append(sent, p)
    /\ UNCHANGED <<sentAll, received, receivedAll>>

Finish ==
    /\ ~sentAll
    /\ sentAll' = TRUE
    /\ UNCHANGED <<sent, received, receivedAll>>

Deliver ==
    /\ \E n \in (Len(received) + 1)..Len(sent) : received' = SubSeq(sent, 1, n)
    /\ UNCHANGED <<sent, sentAll, receivedAll>>

DeliverEnd ==
    /\ sentAll /\ received = sent /\ ~receivedAll
    /\ receivedAll' = TRUE
    /\ UNCHANGED <<sent, sentAll, received>>

Next == Send \/ Finish \/ Deliver \/ DeliverEnd

Spec == Init /\ [][Next]_pipeVars

=============================================================================
