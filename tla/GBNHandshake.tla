---------------------------- MODULE GBNHandshake ----------------------------
(***************************************************************************)
(* The three-way handshake that precedes the data phase of a GoBackNConn:  *)
(* clientHandshake (gbn/gbn_client.go), serverHandshake (gbn/gbn_server.go)*)
(* and, of the data phase, the treatment of messages that are left over    *)
(* from the handshake (receivePacketsForever).                             *)
(*                                                                         *)
(* Each side reads its stream in a goroutine of its own, one message for   *)
(* every token in the one-place channel recvNext. The handshake can end    *)
(* while that goroutine is still reading, and then it swallows a message   *)
(* of the data phase. The mailboxes outlive a connection, so a stream may  *)
(* hold a message of an earlier one when the handshake starts; and it may  *)
(* lose messages.                                                          *)
(***************************************************************************)
EXTENDS Integers, Sequences

CONSTANTS
    ClientN,    \* n of the client, which the server has to take over
    OldNs,      \* n of an earlier connection that may have left messages behind
    Cap         \* capacity of either stream

ASSUME HandshakeAssumption ==
    ClientN \in Nat \ {0} /\ OldNs \subseteq Nat /\ Cap \in Nat \ {0}

VARIABLES
    pc,         \* where each handshake is, or how it ended
    token,      \* recvNext holds a token
    reader,     \* where the reading goroutine is
    held,       \* the message it offers on recvChan
    stream,     \* stream[e] carries the messages to e
    n,          \* n of the SYN received last
    resent,     \* the server's handshake has been restarted
    extraSYN,   \* history: a SYN besides the client's first was sent
    completed   \* history: the client has completed its handshake

vars == <<pc, token, reader, held, stream, n, resent, extraSYN, completed>>

Ends == {"client", "server"}
Peer(e) == IF e = "client" THEN "server" ELSE "client"

SYN(k) == [type |-> "SYN", n |-> k]
Msg(t) == [type |-> t, n |-> 0]
NoMsg == Msg("none")

Handshaking == {"sendSYN", "waitSYN", "gotSYN", "reply", "waitSYNACK"}

\* What the earlier connection may have left in the two streams.
LeftByClient(k) ==
    {<<>>, <<SYN(k)>>, <<Msg("SYNACK")>>, <<Msg("DATA")>>, <<Msg("FIN")>>}
LeftByServer(k) == {<<>>, <<SYN(k)>>, <<Msg("DATA")>>, <<Msg("FIN")>>}

Init ==
    /\ pc = [e \in Ends |-> IF e = "client" THEN "sendSYN" ELSE "waitSYN"]
    /\ token = [e \in Ends |-> e = "server"]
    /\ reader = [e \in Ends |-> "select"]
    /\ held = [e \in Ends |-> NoMsg]
    /\ \/ stream = [e \in Ends |-> <<>>]
       \/ \E k \in OldNs :
             /\ stream \in [Ends -> LeftByServer(k) \cup LeftByClient(k)]
             /\ stream["client"] \in LeftByServer(k)
    /\ n = [e \in Ends |-> 0]
    /\ resent = FALSE /\ completed = FALSE
    /\ extraSYN = (\E e \in Ends : \E i \in DOMAIN stream[e] :
                      stream[e][i].type = "SYN")

Send(e, m) ==
    /\ Len(stream[Peer(e)]) < Cap
    /\ stream' = [stream EXCEPT ![Peer(e)] = Append(@, m)]

\* Close tries to send a FIN until its timeout.
Close(e) ==
    \/ Send(e, Msg("FIN"))
    \/ Len(stream[Peer(e)]) = Cap /\ UNCHANGED stream

Goto(e, where) == pc' = [pc EXCEPT ![e] = where]

-----------------------------------------------------------------------------
(***************************************************************************)
(* The reading goroutine of e.                                             *)
(***************************************************************************)
readerStarts(e) ==
    /\ reader[e] = "select" /\ token[e]
    /\ token' = [token EXCEPT ![e] = FALSE]
    /\ reader' = [reader EXCEPT ![e] = "recv"]
    /\ UNCHANGED <<pc, held, stream, n, resent, extraSYN, completed>>

readerRecvs(e) ==
    /\ reader[e] = "recv" /\ stream[e] # <<>>
    /\ held' = [held EXCEPT ![e] = Head(stream[e])]
    /\ stream' = [stream EXCEPT ![e] = Tail(@)]
    /\ reader' = [reader EXCEPT ![e] = "offer"]
    /\ UNCHANGED <<pc, token, n, resent, extraSYN, completed>>

\* The handshake is over: the goroutine returns, with the message it holds.
readerReturns(e) ==
    /\ reader[e] \in {"select", "offer"} /\ pc[e] \notin Handshaking
    /\ reader' = [reader EXCEPT ![e] = "gone"]
    /\ held' = [held EXCEPT ![e] = NoMsg]
    /\ UNCHANGED <<pc, token, stream, n, resent, extraSYN, completed>>

Reader(e) == readerStarts(e) \/ readerRecvs(e) \/ readerReturns(e)

\* The handshake of e takes a message of a type in ts from recvChan.
Take(e, ts) ==
    /\ reader[e] = "offer" /\ held[e].type \in ts
    /\ reader' = [reader EXCEPT ![e] = "select"]
    /\ held' = [held EXCEPT ![e] = NoMsg]

\* The non-blocking send on recvNext.
ReadNext(e) == token' = [token EXCEPT ![e] = TRUE]

-----------------------------------------------------------------------------
(***************************************************************************)
(* clientHandshake.                                                        *)
(***************************************************************************)
clientSendSYN ==
    /\ pc["client"] = "sendSYN"
    /\ Send("client", SYN(ClientN))
    /\ ReadNext("client")
    /\ Goto("client", "waitSYN")
    /\ UNCHANGED <<reader, held, n, resent, extraSYN, completed>>

clientTimeout ==
    /\ pc["client"] = "waitSYN"
    /\ Goto("client", "sendSYN")
    /\ extraSYN' = TRUE
    /\ UNCHANGED <<token, reader, held, stream, n, resent, completed>>

clientRecvSYN ==
    /\ pc["client"] = "waitSYN"
    /\ n' = [n EXCEPT !["client"] = held["client"].n]
    /\ Take("client", {"SYN"})
    /\ Goto("client", "gotSYN")
    /\ UNCHANGED <<token, stream, resent, extraSYN, completed>>

\* A message from a previous connection.
clientRecvOther ==
    /\ pc["client"] = "waitSYN"
    /\ Take("client", {"SYNACK", "DATA", "FIN"})
    /\ ReadNext("client")
    /\ UNCHANGED <<pc, stream, n, resent, extraSYN, completed>>

\* Slip: the server's n is not compared.
clientSendSYNACKAnyN ==
    /\ pc["client"] = "gotSYN"
    /\ Send("client", Msg("SYNACK"))
    /\ Goto("client", "up")
    /\ completed' = TRUE
    /\ UNCHANGED <<token, reader, held, n, resent, extraSYN>>

clientSendSYNACK ==
    /\ pc["client"] = "gotSYN" /\ n["client"] = ClientN
    /\ Send("client", Msg("SYNACK"))
    /\ Goto("client", "up")
    /\ completed' = TRUE
    /\ UNCHANGED <<token, reader, held, n, resent, extraSYN>>

clientRefuseN ==
    /\ pc["client"] = "gotSYN" /\ n["client"] # ClientN
    /\ Close("client")
    /\ Goto("client", "failed")
    /\ UNCHANGED <<token, reader, held, n, resent, extraSYN, completed>>

Client ==
    \/ clientSendSYN \/ clientTimeout \/ clientRecvSYN \/ clientRecvOther
    \/ clientSendSYNACK \/ clientRefuseN

-----------------------------------------------------------------------------
(***************************************************************************)
(* serverHandshake.                                                        *)
(***************************************************************************)
\* A SYN, awaited or instead of the SYNACK; the second restarts the handshake.
serverRecvSYN ==
    /\ pc["server"] \in {"waitSYN", "waitSYNACK"}
    /\ n' = [n EXCEPT !["server"] = held["server"].n]
    /\ Take("server", {"SYN"})
    /\ resent' = (resent \/ pc["server"] = "waitSYNACK")
    /\ Goto("server", "reply")
    /\ UNCHANGED <<token, stream, extraSYN, completed>>

serverSendSYN ==
    /\ pc["server"] = "reply"
    /\ Send("server", SYN(n["server"]))
    /\ ReadNext("server")
    /\ Goto("server", "waitSYNACK")
    /\ UNCHANGED <<reader, held, n, resent, extraSYN, completed>>

\* "Abort and wait for client to re-initiate."
serverTimeout ==
    /\ pc["server"] = "waitSYNACK"
    /\ resent' = TRUE
    /\ ReadNext("server")
    /\ Goto("server", "waitSYN")
    /\ UNCHANGED <<reader, held, stream, n, extraSYN, completed>>

serverRecvSYNACK ==
    /\ pc["server"] = "waitSYNACK"
    /\ Take("server", {"SYNACK"})
    /\ Goto("server", "up")
    /\ UNCHANGED <<token, stream, n, resent, extraSYN, completed>>

serverRecvOther ==
    /\ pc["server"] = "waitSYNACK"
    /\ Take("server", {"DATA", "FIN"})
    /\ Close("server")
    /\ Goto("server", "failed")
    /\ UNCHANGED <<token, n, resent, extraSYN, completed>>

\* Slip: any SYNACK or DATA completes the handshake.
serverCompletesUnrestarted ==
    /\ pc["server"] = "waitSYN"
    /\ Take("server", {"SYNACK", "DATA"})
    /\ Goto("server", "up")
    /\ UNCHANGED <<token, stream, n, resent, extraSYN, completed>>

\* Slip: DATA does not complete a restarted handshake.
serverCompletesOnSYNACK ==
    /\ pc["server"] = "waitSYN" /\ resent
    /\ \/ Take("server", {"SYNACK"}) /\ Goto("server", "up") /\ UNCHANGED token
       \/ Take("server", {"DATA"}) /\ ReadNext("server") /\ UNCHANGED pc
    /\ UNCHANGED <<stream, n, resent, extraSYN, completed>>

\* A SYNACK or DATA after a restart completes the handshake.
serverCompletes ==
    /\ pc["server"] = "waitSYN" /\ resent
    /\ Take("server", {"SYNACK", "DATA"})
    /\ Goto("server", "up")
    /\ UNCHANGED <<token, stream, n, resent, extraSYN, completed>>

serverSkips ==
    /\ pc["server"] = "waitSYN"
    /\ \/ Take("server", {"FIN"})
       \/ ~resent /\ Take("server", {"SYNACK", "DATA"})
    /\ ReadNext("server")
    /\ UNCHANGED <<pc, stream, n, resent, extraSYN, completed>>

Server ==
    \/ serverRecvSYN \/ serverSendSYN \/ serverTimeout \/ serverRecvSYNACK
    \/ serverRecvOther \/ serverCompletes \/ serverSkips

-----------------------------------------------------------------------------
(***************************************************************************)
(* After the handshake: data is sent (and resent), and a message of the    *)
(* handshake is an error that ends the connection.                         *)
(***************************************************************************)
sendData(e) ==
    /\ pc[e] = "up"
    /\ Send(e, Msg("DATA"))
    /\ UNCHANGED <<pc, token, reader, held, n, resent, extraSYN, completed>>

recvData(e) ==
    /\ pc[e] = "up" /\ stream[e] # <<>>
    /\ Head(stream[e]).type = "DATA"
    /\ stream' = [stream EXCEPT ![e] = Tail(@)]
    /\ UNCHANGED <<pc, token, reader, held, n, resent, extraSYN, completed>>

recvFIN(e) ==
    /\ pc[e] = "up" /\ stream[e] # <<>>
    /\ Head(stream[e]).type = "FIN"
    /\ stream' = [stream EXCEPT ![e] = Tail(@)]
    /\ Goto(e, "closed")
    /\ UNCHANGED <<token, reader, held, n, resent, extraSYN, completed>>

\* "received unexpected message", and Close.
recvUnexpected(e) ==
    /\ pc[e] = "up" /\ stream[e] # <<>>
    /\ Head(stream[e]).type \in {"SYN", "SYNACK"}
    /\ LET rest == Tail(stream[e])
           fin == Append(stream[Peer(e)], Msg("FIN"))
       IN  stream' = IF Len(stream[Peer(e)]) < Cap
                     THEN [stream EXCEPT ![e] = rest, ![Peer(e)] = fin]
                     ELSE [stream EXCEPT ![e] = rest]
    /\ Goto(e, "torn")
    /\ UNCHANGED <<token, reader, held, n, resent, extraSYN, completed>>

recvUp(e) == recvData(e) \/ recvFIN(e) \/ recvUnexpected(e)

-----------------------------------------------------------------------------
\* The context is cancelled or the stream fails during the handshake.
abort(e) ==
    /\ pc[e] \in Handshaking
    /\ Goto(e, "failed")
    /\ UNCHANGED <<token, reader, held, stream, n, resent, extraSYN, completed>>

\* The application closes the connection.
closeUp(e) ==
    /\ pc[e] = "up"
    /\ Close(e)
    /\ Goto(e, "closed")
    /\ UNCHANGED <<token, reader, held, n, resent, extraSYN, completed>>

lose(e) ==
    /\ stream[e] # <<>>
    /\ stream' = [stream EXCEPT ![e] = Tail(@)]
    /\ UNCHANGED <<pc, token, reader, held, n, resent, extraSYN, completed>>

Next ==
    \/ Client \/ Server
    \/ \E e \in Ends : Reader(e) \/ sendData(e) \/ recvUp(e)
                          \/ abort(e) \/ closeUp(e) \/ lose(e)

Spec == Init /\ [][Next]_vars

\* Goroutines run and timeouts fire. The handshake timeout leaves time to take
\* an offered message now and then, a client that is up keeps sending (data, its
\* resends, pings), not every SYN and not all data is lost, and the transport
\* does not stay full: a handshake that blocks in a send reads nothing.
FairSpec ==
    /\ Spec
    /\ WF_vars(Client) /\ WF_vars(Server)
    /\ SF_vars(clientRecvSYN \/ clientRecvOther)
    /\ SF_vars(serverRecvSYN \/ serverRecvSYNACK \/ serverRecvOther
                 \/ serverCompletes \/ serverSkips)
    /\ SF_vars(sendData("client"))
    /\ SF_vars(readerRecvs("client") /\ Head(stream["client"]).type = "SYN")
    /\ \A t \in {"SYN", "DATA"} :
          SF_vars(readerRecvs("server") /\ Head(stream["server"]).type = t)
    /\ \A e \in Ends :
          WF_vars(readerStarts(e)) /\ WF_vars(lose(e) /\ Len(stream[e]) = Cap)

-----------------------------------------------------------------------------
\* Types of the two handshakes, their reading goroutines and the streams.
TypeOK ==
    /\ pc["client"] \in {"sendSYN", "waitSYN", "gotSYN", "up", "failed", "closed",
                         "torn"}
    /\ pc["server"] \in {"waitSYN", "reply", "waitSYNACK", "up", "failed", "closed",
                         "torn"}
    /\ DOMAIN pc = Ends
    /\ token \in [Ends -> BOOLEAN]
    /\ reader \in [Ends -> {"select", "recv", "offer", "gone"}]
    /\ \A e \in Ends : (held[e] # NoMsg) = (reader[e] = "offer")
    /\ \A e \in Ends : Len(stream[e]) <= Cap
    /\ resent \in BOOLEAN /\ extraSYN \in BOOLEAN /\ completed \in BOOLEAN

\* Both sides use the same n once they are up, although the server takes it
\* from whichever SYN it read last and may have read one of another
\* connection (serverHandshake, setN).
NAgreement ==
    pc["client"] = "up" /\ pc["server"] = "up" => n["server"] = ClientN

\* The server completes only if the client has: on a SYNACK or DATA after a
\* restart "we can be sure that the client has received our SYN and has
\* completed the handshake" (serverHandshake). A message that a previous
\* connection left in the stream does not count.
ServerUpAfterClient == pc["server"] = "up" => completed

\* A message of the handshake ends an established connection only at the
\* client, and only if it had sent its SYN again or an earlier connection had
\* left one: then a second SYN of the server arrives when the client is up.
TornOnlyByExtraSYN ==
    /\ pc["server"] # "torn"
    /\ pc["client"] = "torn" => extraSYN

\* The two never wait for each other for ever, whichever messages are lost: one
\* of the handshakes ends. (If the server's is aborted the client retries until
\* its context ends.)
HandshakeEnds == <>(\E e \in Ends : pc[e] \notin Handshaking)

\* A half-open connection does not last: if the client is up, the SYNACK that
\* it sends only once may be lost, but then its data ends the handshake of the
\* server too (unless the client is up no more). This needs streams that are
\* empty at first: a client that completes with the SYN of an earlier server
\* stays up alone if its own SYN is lost.
HalfOpenResolves ==
    (\A e \in Ends : stream[e] = <<>>) =>
        (pc["client"] = "up" ~>
            pc["server"] \notin Handshaking \/ pc["client"] # "up")

\* The handshake: ends that are up agree on n, and only an extra SYN ends a
\* connection that is up.
HandshakeInv == TypeOK /\ NAgreement /\ TornOnlyByExtraSYN

\* The handshake: the two ends do not wait for each other for ever, and a
\* server that missed the SYNACK leaves nothing half open.
HandshakeLive == HandshakeEnds /\ HalfOpenResolves

=============================================================================
