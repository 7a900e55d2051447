------------------------------ MODULE Transport ------------------------------
(***************************************************************************)
(* What the collection loop relies on when it calls SendBatch              *)
(* (internal/gateway/transport.go): the call returns without an error only *)
(* if the batch was processed.  An error says nothing: the batch may have  *)
(* been processed, even more than once, or not at all.                     *)
(***************************************************************************)
EXTENDS Naturals

CONSTANT MaxDeliveries  \* how often one call may deliver its batch

VARIABLES
    call,       \* "none", "sending", "accepted" or "failed"
    deliveries  \* how often the batch of the call was processed

Init == call = "none" /\ deliveries = 0

Send ==
    /\ call # "sending"
    /\ call' = "sending"
    /\ deliveries' = 0

Deliver ==
    /\ call = "sending" /\ deliveries < MaxDeliveries
    /\ deliveries' = deliveries + 1
    /\ UNCHANGED call

Accept ==
    /\ call = "sending" /\ deliveries > 0
    /\ call' = "accepted"
    /\ UNCHANGED deliveries

Fail ==
    /\ call = "sending"
    /\ call' = "failed"
    /\ UNCHANGED deliveries

Next == Send \/ Deliver \/ Accept \/ Fail

Spec == Init /\ [][Next]_<<call, deliveries>>
=============================================================================
