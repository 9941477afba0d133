--------------------------- MODULE OrderedDelivery ---------------------------
(***************************************************************************)
(* What an ordered message channel promises its user, with nothing of how  *)
(* it is done: payloads are numbered in the order in which send was called *)
(* and the receiving application is handed payload 0, then 1, then 2 ...   *)
(* with no gap, no duplicate and no payload that was never sent.  Nothing  *)
(* is promised about progress.                                             *)
(***************************************************************************)
EXTENDS Naturals, Sequences

VARIABLES
    sent,       \* how many payloads the sender has numbered
    delivered   \* the payloads handed over, in order

vars == <<sent, delivered>>

Init ==
    /\ sent = 0
    /\ delivered = <<>>

Send ==
    /\ sent' = sent + 1
    /\ UNCHANGED delivered

\* One or several consecutive payloads are handed over at once.
Deliver ==
    /\ \E upto \in (Len(delivered) + 1)..sent :
          delivered' = [i \in 1..upto |-> i - 1]
    /\ UNCHANGED sent

Next == Send \/ Deliver

Spec == Init /\ [][Next]_vars
=============================================================================
