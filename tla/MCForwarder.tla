---------------------------- MODULE MCForwarder ----------------------------
(***************************************************************************)
(* Forwarder with a producer's prefix and a name below it; an interest    *)
(* that can be a prefix and an exact one for fresh data; data that is      *)
(* good, stale or not signed by its producer.                              *)
(***************************************************************************)
EXTENDS Forwarder

Root == <<"p">>
Below == <<"p", "x">>

MCNames == {Root, Below}

MCInterests ==
    {[name |-> Below, can_be_prefix |-> TRUE, must_be_fresh |-> FALSE],
     [name |-> Root, can_be_prefix |-> FALSE, must_be_fresh |-> TRUE]}

MCData ==
    {[name |-> Below, signed |-> TRUE, stale |-> FALSE],
     [name |-> Below, signed |-> FALSE, stale |-> FALSE],
     [name |-> Root, signed |-> TRUE, stale |-> TRUE]}
=============================================================================
