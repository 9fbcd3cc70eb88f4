---------------------------- MODULE MCConnection ----------------------------
(* Small instances of Connection for TLC. *)
EXTENDS Connection

(* A PUT, and a GET that is shorter; an answer with a value, and one without. *)
MCRequests ==
    {[command |-> 1, key |-> <<9>>, value |-> <<0, 1>>],
     [command |-> 2, key |-> <<9>>, value |-> <<>>]}

MCResponses ==
    {[status |-> 0, value |-> <<5>>], [status |-> 1, value |-> <<>>]}
=============================================================================
