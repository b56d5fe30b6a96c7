------------------------------- MODULE TxQueue ------------------------------
(***************************************************************************)
(* What a transmit ring promises the stack: packets are sent and given     *)
(* back in the order in which they were posted, each one only after it has *)
(* been sent, and a reset of the device drops all that are left.           *)
(***************************************************************************)
EXTENDS Naturals, Sequences

CONSTANT Packets

VARIABLES queue,    \* packets posted and not yet given back, oldest first
          sent,     \* how many of the oldest have been sent
          reset     \* the device is being reset

Init == queue = <<>> /\ sent = 0

Post(p) ==
    /\ \A k \in 1 .. Len(queue) : queue[k] # p
    /\ queue' = Append(queue, p)
    /\ sent' = sent

Send ==
    /\ sent < Len(queue)
    /\ sent' = sent + 1
    /\ queue' = queue

Complete ==
    /\ sent > 0
    /\ queue' = Tail(queue)
    /\ sent' = sent - 1

Flush == reset /\ queue' = <<>> /\ sent' = 0

Next == (\E p \in Packets : Post(p)) \/ Send \/ Complete \/ Flush

Spec == Init /\ [][Next]_<<queue, sent>>
=============================================================================
