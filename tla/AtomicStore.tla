---------------------------- MODULE AtomicStore -----------------------------
(***************************************************************************)
(* What a store promises its clients when nothing fails: one map.  Every   *)
(* request is applied to it exactly once, at one moment between its        *)
(* sending and its answer, and the answer is the one the map gives at that *)
(* moment.                                                                 *)
(***************************************************************************)
EXTENDS KVStore

CONSTANTS
    Client,   \* those who ask
    Request,  \* what they may ask: PUT, GET and DELETE of keys, and PING
    None      \* no request, no answer

VARIABLES
    map,  \* the value of each key
    op    \* how far the request of each client is

vars == <<map, op>>

Idle == [st |-> "idle", req |-> None, ans |-> None]

Sent(r) == [st |-> "sent", req |-> r, ans |-> None]

Applied(r, a) == [st |-> "applied", req |-> r, ans |-> a]

Answered(r, a) == [st |-> "answered", req |-> r, ans |-> a]

(* What request r makes of the map m. *)
Apply(m, r) ==
    CASE r.cmd = "PUT"    -> Put(m, r.key, r.value)
      [] r.cmd = "DELETE" -> Del(m, r.key)
      [] OTHER            -> m

(* What it answers: a mutation that is refused is an ERROR, and a DELETE   *)
(* is OK also when there is nothing to delete.                             *)
Result(m, r) ==
    CASE r.cmd = "PUT" ->
            [status |-> IF PutStatus(r.key, r.value) = "OK" THEN "OK" ELSE "ERROR",
             value |-> NotFound]
      [] r.cmd = "GET" ->
            [status |-> GetStatus(m, r.key), value |-> m[r.key]]
      [] OTHER ->
            [status |-> "OK", value |-> NotFound]

-----------------------------------------------------------------------------
Init ==
    /\ map = EmptyMap
    /\ op = [c \in Client |-> Idle]

Send(c, r) ==
    /\ op[c] = Idle
    /\ op' = [op EXCEPT ![c] = Sent(r)]
    /\ UNCHANGED map

Perform(c) ==
    /\ op[c].st = "sent"
    /\ map' = Apply(map, op[c].req)
    /\ op' = [op EXCEPT ![c] = Applied(@.req, Result(map, @.req))]

Respond(c) ==
    /\ op[c].st = "applied"
    /\ op' = [op EXCEPT ![c] = Answered(@.req, @.ans)]
    /\ UNCHANGED map

Receive(c) ==
    /\ op[c].st = "answered"
    /\ op' = [op EXCEPT ![c] = Idle]
    /\ UNCHANGED map

Next ==
    \E c \in Client :
        \/ \E r \in Request : Send(c, r)
        \/ Perform(c) \/ Respond(c) \/ Receive(c)

Spec == Init /\ [][Next]_vars
=============================================================================
