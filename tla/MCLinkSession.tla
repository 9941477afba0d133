---------------------------- MODULE MCLinkSession ----------------------------
(***************************************************************************)
(* LinkSession for TLC.  The exchange of ratchet keys is looked at where   *)
(* packets are lost and duplicated, and time and crashes where none is:    *)
(* ratchet keys cross without end, and with every clock beside them the    *)
(* two together are out of reach.                                          *)
(***************************************************************************)
EXTENDS LinkSession

MCEnvironments ==
    {[faults |-> {"lose", "dup"}, GenMod |-> 6, senders |-> {}],
     [faults |-> {"time", "crash"}, GenMod |-> 2, senders |-> {"a"}]}

\* Nothing goes wrong; one end sends.
MCQuietEnvironments == {[faults |-> {}, GenMod |-> 4, senders |-> {"a"}]}
=============================================================================
