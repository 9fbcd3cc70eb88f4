------------------------------ MODULE Exchange ------------------------------
(***************************************************************************)
(* What a connection promises to the client that calls over it and to the  *)
(* server that answers: the server handles the requests that the client    *)
(* made, whole, in order and each at most once; the client gets the        *)
(* answers that the server gave, whole, in order and each to the request   *)
(* it belongs to.  Either side may be gone at any time, and the other then *)
(* does not know how far the exchange came.                                *)
(***************************************************************************)
EXTENDS Naturals, Sequences

CONSTANTS
    Requests,   \* what a client may ask
    Responses,  \* what a server may answer
    Side        \* the client and the server

VARIABLES
    asked,    \* the requests of the client so far
    seen,     \* the requests that the handler was called with
    replied,  \* the responses of the handler
    got,      \* the responses that the client has received
    gone      \* the sides that have closed the connection

vars == <<asked, seen, replied, got, gone>>

Init ==
    /\ asked = <<>>
    /\ seen = <<>>
    /\ replied = <<>>
    /\ got = <<>>
    /\ gone = {}

(* A client asks when it has the answer to its last request. *)
Ask ==
    /\ "client" \notin gone
    /\ Len(asked) = Len(got)
    /\ \E r \in Requests : asked' = Append(asked, r)
    /\ UNCHANGED <<seen, replied, got, gone>>

(* The server takes the request up, maybe after the client has gone. *)
Handle ==
    /\ "server" \notin gone
    /\ Len(seen) < Len(asked)
    /\ seen' = Append(seen, asked[Len(seen) + 1])
    /\ UNCHANGED <<asked, replied, got, gone>>

Reply ==
    /\ "server" \notin gone
    /\ Len(replied) < Len(seen)
    /\ \E r \in Responses : replied' = Append(replied, r)
    /\ UNCHANGED <<asked, seen, got, gone>>

Return ==
    /\ "client" \notin gone
    /\ Len(got) < Len(replied)
    /\ got' = Append(got, replied[Len(got) + 1])
    /\ UNCHANGED <<asked, seen, replied, gone>>

Leave ==
    /\ \E side \in Side \ gone : gone' = gone \cup {side}
    /\ UNCHANGED <<asked, seen, replied, got>>

Next == Ask \/ Handle \/ Reply \/ Return \/ Leave

Spec == Init /\ [][Next]_vars
=============================================================================
