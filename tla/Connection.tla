----------------------------- MODULE Connection -----------------------------
(***************************************************************************)
(* One TCP connection between a client (the command-line client, or a      *)
(* server that forwards a request or pings) and the worker of a server     *)
(* that serves it in handleConnection.  Requests and responses travel as   *)
(* bytes: writeFrame and readFrame are loops over write and read, each of  *)
(* which moves some of the bytes, as many as the kernel likes.             *)
(***************************************************************************)
EXTENDS Protocol

CONSTANTS
    Requests,   \* what the client may ask
    Responses,  \* what the handler may answer
    Capacity,   \* bytes that the kernel holds for each direction
    MaxCalls    \* bound: calls over one connection

Side == {"client", "server"}

ASSUME ConnectionAssumption ==
    /\ Requests \subseteq WireRequest
    /\ Responses \subseteq WireResponse
    /\ Capacity \in Nat \ {0}
    /\ MaxCalls \in Nat

VARIABLES
    pc,       \* where each side is
    rest,     \* what each side has still to write of its frame
    wire,     \* what each side has written and the other has not read
    buf,      \* what each side has read of the current frame
    gone,     \* the sides that have closed their end
    asked,    \* history: the requests of the client
    seen,     \* history: the requests that the handler was called with
    replied,  \* history: the responses of the handler
    got       \* history: the responses that the client has received

state == <<pc, rest, wire, buf>>
history == <<asked, seen, replied, got>>
vars == <<state, gone, history>>

Peer(side) == IF side = "client" THEN "server" ELSE "client"

(* Mutant: the body is taken to arrive in one read. *)
NeedOneRead(side) ==
    IF Len(buf[side]) < 4 THEN 4 - Len(buf[side])
    ELSE IF Len(buf[side]) > 4 THEN 0
    ELSE Decode(buf[side], 1)

(* The bytes that readFrame asks for: first those missing of the length,   *)
(* then those missing of the body.  None: the frame is complete.           *)
Need(side) ==
    IF Len(buf[side]) < 4
    THEN 4 - Len(buf[side])
    ELSE 4 + Decode(buf[side], 1) - Len(buf[side])

Body(side) == SubSeq(buf[side], 5, Len(buf[side]))

-----------------------------------------------------------------------------
Init ==
    /\ pc = [side \in Side |-> IF side = "client" THEN "idle" ELSE "reading"]
    /\ rest = [side \in Side |-> <<>>]
    /\ wire = [side \in Side |-> <<>>]
    /\ buf = [side \in Side |-> <<>>]
    /\ gone = {}
    /\ asked = <<>> /\ seen = <<>> /\ replied = <<>> /\ got = <<>>

(* serializeRequest, and writeFrame up to its loop. *)
Ask(r) ==
    /\ pc["client"] = "idle" /\ "client" \notin gone
    /\ Len(asked) < MaxCalls
    /\ asked' = Append(asked, r)
    /\ rest' = [rest EXCEPT !["client"] = Frame(SerializeRequest(r))]
    /\ pc' = [pc EXCEPT !["client"] = "writing"]
    /\ UNCHANGED <<wire, buf, gone, seen, replied, got>>

(* Mutant: after a short write the whole rest is written again. *)
WriteAgain(side, n) ==
    /\ pc[side] = "writing" /\ side \notin gone
    /\ n <= Len(rest[side]) /\ Len(wire[side]) + n <= Capacity
    /\ wire' = [wire EXCEPT ![side] = @ \o SubSeq(rest[side], 1, n)]
    /\ rest' = [rest EXCEPT ![side] = IF n = Len(@) THEN <<>> ELSE @]
    /\ pc' = [pc EXCEPT ![side] = IF n = Len(rest[side]) THEN "reading" ELSE @]
    /\ UNCHANGED <<buf, gone, history>>

(* One write of writeFrame, which takes n bytes; after the last one the    *)
(* side goes on to read.                                                   *)
Write(side, n) ==
    /\ pc[side] = "writing" /\ side \notin gone
    /\ n <= Len(rest[side]) /\ Len(wire[side]) + n <= Capacity
    /\ wire' = [wire EXCEPT ![side] = @ \o SubSeq(rest[side], 1, n)]
    /\ rest' = [rest EXCEPT ![side] = SubSeq(@, n + 1, Len(@))]
    /\ pc' = [pc EXCEPT ![side] = IF n = Len(rest[side]) THEN "reading" ELSE @]
    /\ UNCHANGED <<buf, gone, history>>

(* One read of readFrame, which gives n bytes. *)
Read(side, n) ==
    /\ pc[side] = "reading" /\ side \notin gone
    /\ n <= Need(side) /\ n <= Len(wire[Peer(side)])
    /\ buf' = [buf EXCEPT ![side] = @ \o SubSeq(wire[Peer(side)], 1, n)]
    /\ wire' = [wire EXCEPT ![Peer(side)] = SubSeq(@, n + 1, Len(@))]
    /\ UNCHANGED <<pc, rest, gone, history>>

(* readRequest returns: handleConnection calls the handler, or closes the  *)
(* connection because the frame does not parse.                            *)
Handle ==
    LET request == DeserializeRequest(Body("server"))
    IN  /\ pc["server"] = "reading" /\ "server" \notin gone
        /\ Need("server") = 0
        /\ buf' = [buf EXCEPT !["server"] = <<>>]
        /\ IF request = Nullopt
           THEN gone' = gone \cup {"server"} /\ UNCHANGED <<pc, seen>>
           ELSE /\ seen' = Append(seen, request)
                /\ pc' = [pc EXCEPT !["server"] = "handling"]
                /\ UNCHANGED gone
        /\ UNCHANGED <<rest, wire, asked, replied, got>>

(* The handler returns, and sendResponse goes up to the loop of writeFrame. *)
Reply(r) ==
    /\ pc["server"] = "handling" /\ "server" \notin gone
    /\ replied' = Append(replied, r)
    /\ rest' = [rest EXCEPT !["server"] = Frame(SerializeResponse(r))]
    /\ pc' = [pc EXCEPT !["server"] = "writing"]
    /\ UNCHANGED <<wire, buf, gone, asked, seen, got>>

(* The client has its answer, or gives the connection up because the frame *)
(* does not parse, as forwardRequest does.                                 *)
Return ==
    LET response == DeserializeResponse(Body("client"))
    IN  /\ pc["client"] = "reading" /\ "client" \notin gone
        /\ Need("client") = 0
        /\ buf' = [buf EXCEPT !["client"] = <<>>]
        /\ IF response = Nullopt
           THEN gone' = gone \cup {"client"} /\ UNCHANGED <<pc, got>>
           ELSE /\ got' = Append(got, response)
                /\ pc' = [pc EXCEPT !["client"] = "idle"]
                /\ UNCHANGED gone
        /\ UNCHANGED <<rest, wire, asked, seen, replied>>

(* A side closes its end: its user quits, its read or write fails, its     *)
(* process dies.                                                           *)
Leave(side) ==
    /\ side \notin gone
    /\ gone' = gone \cup {side}
    /\ UNCHANGED <<state, history>>

(* Mutant: a read of no bytes is not taken for the end of the stream. *)
LearnGoneOnError(side) ==
    /\ side \notin gone /\ Peer(side) \in gone
    /\ pc[side] = "writing"
    /\ gone' = gone \cup {side}
    /\ UNCHANGED <<state, history>>

(* A side that waits for a peer that has gone learns so: its read reaches  *)
(* the end of the stream, or its write fails.                              *)
LearnGone(side) ==
    /\ side \notin gone /\ Peer(side) \in gone
    /\ \/ pc[side] = "writing"
       \/ pc[side] = "reading" /\ Need(side) > 0 /\ wire[Peer(side)] = <<>>
    /\ gone' = gone \cup {side}
    /\ UNCHANGED <<state, history>>

-----------------------------------------------------------------------------
Transfer(side) ==
    \E n \in 1 .. Capacity : Write(side, n) \/ Read(side, n)

Answer == \E r \in Responses : Reply(r)

Done ==
    /\ gone = Side \/ (pc["client"] = "idle" /\ Len(asked) = MaxCalls)
    /\ UNCHANGED vars

Next ==
    \/ \E r \in Requests : Ask(r)
    \/ \E side \in Side : Transfer(side) \/ Leave(side) \/ LearnGone(side)
    \/ Handle \/ Answer \/ Return
    \/ Done

Spec == Init /\ [][Next]_vars

(* Threads are scheduled, the handler returns, and the kernel moves bytes  *)
(* and reports a closed connection.  Nobody has to ask or to leave.        *)
Fairness ==
    /\ \A side \in Side : WF_vars(Transfer(side)) /\ WF_vars(LearnGone(side))
    /\ WF_vars(Handle) /\ WF_vars(Answer) /\ WF_vars(Return)

FairSpec == Spec /\ Fairness

-----------------------------------------------------------------------------
Bytes == Seq(Byte)

(* Every variable holds a value of its type.                               *)
TypeOK ==
    /\ pc \in [Side -> {"idle", "reading", "handling", "writing"}]
    /\ rest \in [Side -> Bytes] /\ wire \in [Side -> Bytes]
    /\ buf \in [Side -> Bytes]
    /\ gone \in SUBSET Side
    /\ asked \in Seq(Requests) /\ seen \in Seq(Requests)
    /\ replied \in Seq(Responses) /\ got \in Seq(Responses)

(* However the kernel cuts the stream, the end of a frame that a side has  *)
(* read is the end of a frame that the other wrote: what readFrame returns *)
(* always parses, and nothing of it is left behind for the next frame      *)
(* (protocol.cpp:96-132).                                                  *)
FramesParse ==
    /\ pc["server"] = "reading" /\ Need("server") = 0 =>
          /\ DeserializeRequest(Body("server")) # Nullopt
          /\ wire["client"] = <<>> /\ rest["client"] = <<>>
    /\ pc["client"] = "reading" /\ Need("client") = 0 =>
          /\ DeserializeResponse(Body("client")) # Nullopt
          /\ wire["server"] = <<>> /\ rest["server"] = <<>>

E == INSTANCE Exchange

(* A connection does what Exchange says: the handler is called with the    *)
(* requests that were asked, in order and each at most once, and the       *)
(* client gets the answer to each (tcp_connection.cpp:33-51,               *)
(* cluster_manager.cpp:69-83).                                             *)
IsExchange == E!Spec

(* A client that has asked has its answer in the end or learns that the    *)
(* server is gone.                                                         *)
CallsEnd ==
    (pc["client"] # "idle") ~> (pc["client"] = "idle" \/ "client" \in gone)
=============================================================================
