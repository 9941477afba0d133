----------------------------- MODULE MCApiServer -----------------------------
(***************************************************************************)
(* ApiServer for TLC: "c" is known from its announce but knows the daemon  *)
(* only once the daemon's own announce comes, "b" knows the daemon and has *)
(* to be seeded.  One client seeds and connects, the other uses what there *)
(* is and may leave at any time.                                           *)
(***************************************************************************)
EXTENDS ApiServer

L(cmd, dest, arg) == [cmd |-> cmd, dest |-> dest, arg |-> arg]

MCLines ==
    [x |-> [max |-> 2, leaves |-> FALSE,
            menu |-> {L("seed_peer", "b", "good"), L("connect", "b", "good"),
                      L("connect", "c", "good")}],
     y |-> [max |-> 1, leaves |-> TRUE,
            menu |-> {L("status", "a", "good"), L("invalid", "a", "malformed"), L("blank", "a", "good"),
                      L("connect", "c", "good"), L("express", "b", "good"), L("publish", "a", "bad_name"),
                      L("send", "c", "good"), L("send_resource", "c", "malformed"),
                      L("seed_peer", "b", "bad_key"), L("seed_peer", "b", "bad_endpoint")}]]
=============================================================================
