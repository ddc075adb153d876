----------------------------- MODULE MailboxServer -----------------------------
(***************************************************************************)
(* The server's side of the mailboxes: the Server of mailbox/server.go,    *)
(* which the gRPC server uses as a listener, its ServerConns of            *)
(* mailbox/server_conn.go, one after the other, and the mailboxes they     *)
(* create on the hashmail server.                                          *)
(*                                                                         *)
(* A connection is first in its GBN handshake, then up, then closed. Its   *)
(* receive goroutine and its send goroutine each create a mailbox and a    *)
(* stream when they need one and again when the stream fails.              *)
(***************************************************************************)
EXTENDS Naturals

CONSTANTS
    MaxConns,   \* connections kept apart; a slot is used again
    MaxFaults   \* bound on restarts of the hashmail server and lost answers

Conns == 1 .. MaxConns
SIDs == {"passphrase", "ecdh"}
Boxes == SIDs \X {"receive", "send"}
Statuses == {"NotConnected", "InUse", "Idle"}

VARIABLES
    hashmail,   \* the hashmail server is up
    boxes,      \* the mailboxes that exist on it
    faults,
    paired,     \* the connection data has the key of the client
    conns,      \* the connections
    cancelled,  \* the SIDs whose context, made by NewServerConn, is cancelled
    mailboxConn,    \* of the Server: 0 is nil
    next,       \* the connection Accept is creating, or 0
    sid,        \* of the Server
    accept,     \* where Accept is
    close,      \* where Server.Close is
    stopped,    \* the connection that Server.Close stops
    quit,       \* Server.quit is closed
    ctx,        \* Server.ctx is cancelled
    calm        \* at Server.Close a connection was up and Accept waited for it,
                \* and the hashmail server was up when the mailboxes were deleted

vars == <<hashmail, boxes, faults, paired, conns, cancelled, mailboxConn, next, sid,
          accept, close, stopped, quit, ctx, calm>>

serverVars == <<mailboxConn, next, sid, accept, close, stopped, quit, ctx, calm>>

Unused == [sid |-> "passphrase", phase |-> "unused", receive |-> "nil",
           send |-> "nil", receiveBoxCreated |-> FALSE, sendBoxCreated |-> FALSE,
           status |-> "NotConnected"]

Init ==
    /\ hashmail = TRUE /\ boxes = {} /\ faults = 0 /\ paired = FALSE
    /\ conns = [c \in Conns |-> Unused] /\ cancelled = {}
    /\ mailboxConn = 0 /\ next = 0 /\ sid = "passphrase"
    /\ accept = "call" /\ close = "open" /\ stopped = 0
    /\ quit = FALSE /\ ctx = FALSE /\ calm = FALSE

\* The SID of the connection data.
SID == IF paired THEN "ecdh" ELSE "passphrase"

\* The context of a connection is derived from that of the Server.
done(c) == ctx \/ conns[c].sid \in cancelled

-----------------------------------------------------------------------------
(***************************************************************************)
(* The environment: the hashmail server and the client.                    *)
(***************************************************************************)

hashmailFails ==
    /\ hashmail /\ hashmail' = FALSE
    /\ UNCHANGED <<boxes, faults, paired, conns, cancelled, serverVars>>

hashmailReturns ==
    /\ ~hashmail /\ hashmail' = TRUE
    /\ UNCHANGED <<boxes, faults, paired, conns, cancelled, serverVars>>

\* It restarts without its mailboxes.
hashmailRestarts ==
    /\ hashmail /\ boxes # {} /\ faults < MaxFaults
    /\ boxes' = {} /\ faults' = faults + 1
    /\ UNCHANGED <<hashmail, paired, conns, cancelled, serverVars>>

\* The handshake on a connection stores the key of the client.
SetRemote ==
    /\ ~paired /\ mailboxConn # 0 /\ conns[mailboxConn].phase = "up"
    /\ paired' = TRUE
    /\ UNCHANGED <<hashmail, boxes, faults, conns, cancelled, serverVars>>

-----------------------------------------------------------------------------
(***************************************************************************)
(* The streams of a connection.                                            *)
(***************************************************************************)

alive(c) == conns[c].phase \in {"handshake", "up", "fin"}
exists(c, box) == <<conns[c].sid, box>> \in boxes

set(c, rec) == conns' = [conns EXCEPT ![c] = rec]
envVars == <<hashmail, faults, paired, cancelled, serverVars>>

\* initAccountCipherBox succeeds or the mailbox exists.
createReceiveMailBox(c) ==
    /\ alive(c) /\ conns[c].receive \in {"nil", "retry"} /\ ~done(c) /\ hashmail
    /\ boxes' = boxes \cup {<<conns[c].sid, "receive">>}
    /\ set(c, [conns[c] EXCEPT !.receive = "fetch", !.receiveBoxCreated = TRUE])
    /\ UNCHANGED envVars

\* The mailbox is created but the answer is lost, and the call repeated.
createReceiveMailBoxFails(c) ==
    /\ alive(c) /\ conns[c].receive \in {"nil", "retry"} /\ ~done(c) /\ hashmail
    /\ faults < MaxFaults /\ faults' = faults + 1
    /\ boxes' = boxes \cup {<<conns[c].sid, "receive">>}
    /\ UNCHANGED <<hashmail, paired, conns, cancelled, serverVars>>

\* RecvStream succeeds, or createReceiveMailBox starts again.
receiveStream(c) ==
    /\ alive(c) /\ conns[c].receive = "fetch" /\ ~done(c)
    /\ set(c, IF hashmail THEN [conns[c] EXCEPT !.receive = "ok", !.status = "Idle"]
              ELSE [conns[c] EXCEPT !.receive = "retry"])
    /\ UNCHANGED <<boxes, envVars>>

recvFromStream(c) ==
    /\ alive(c) /\ conns[c].receive = "ok" /\ hashmail /\ exists(c, "receive")
    /\ set(c, [conns[c] EXCEPT !.status = "InUse"])
    /\ UNCHANGED <<boxes, envVars>>

\* The stream fails; if the context is done no stream is created again.
recvFromStreamFails(c) ==
    /\ alive(c) /\ conns[c].receive = "ok"
    /\ ~hashmail \/ ~exists(c, "receive") \/ done(c)
    /\ set(c, [conns[c] EXCEPT !.receive = "retry", !.status = "NotConnected"])
    /\ UNCHANGED <<boxes, envVars>>

\* In the handshake the first thing sent is an answer.
sends(c) ==
    \/ conns[c].phase = "up"
    \/ conns[c].phase = "handshake" /\ conns[c].status = "InUse"

createSendMailBox(c) ==
    /\ \/ sends(c) /\ conns[c].send = "nil"
       \/ alive(c) /\ conns[c].send = "retry"
    /\ ~done(c) /\ hashmail
    /\ boxes' = boxes \cup {<<conns[c].sid, "send">>}
    /\ set(c, [conns[c] EXCEPT !.send = "fetch", !.sendBoxCreated = TRUE])
    /\ UNCHANGED envVars

sendStream(c) ==
    /\ alive(c) /\ conns[c].send = "fetch" /\ ~done(c)
    /\ set(c, [conns[c] EXCEPT !.send = IF hashmail THEN "ok" ELSE "retry"])
    /\ UNCHANGED <<boxes, envVars>>

sendToStreamFails(c) ==
    /\ sends(c) /\ conns[c].send = "ok"
    /\ ~hashmail \/ ~exists(c, "send")
    /\ set(c, [conns[c] EXCEPT !.send = "retry", !.status = "NotConnected"])
    /\ UNCHANGED <<boxes, envVars>>

stream(c) ==
    \/ createReceiveMailBox(c) \/ receiveStream(c) \/ recvFromStreamFails(c)
    \/ createSendMailBox(c) \/ sendStream(c)

-----------------------------------------------------------------------------
(***************************************************************************)
(* ServerConn.Close.                                                       *)
(***************************************************************************)

\* The gRPC server closes the connection.
grpcCloses(c) ==
    /\ conns[c].phase = "up" /\ set(c, [conns[c] EXCEPT !.phase = "fin"])
    /\ UNCHANGED <<boxes, envVars>>

\* The FIN needs sendStreamMu, which the send goroutine holds while it creates
\* a stream. Then the goroutines end, the streams are closed and quit is closed.
closeConn(c) ==
    /\ conns[c].phase = "fin" /\ (conns[c].send \in {"nil", "ok"} \/ done(c))
    /\ set(c, [conns[c] EXCEPT !.phase = "closed", !.receive = "nil", !.send = "nil",
                               !.status = "NotConnected"])
    /\ UNCHANGED <<boxes, envVars>>

-----------------------------------------------------------------------------
(***************************************************************************)
(* Accept.                                                                 *)
(***************************************************************************)

acceptGoto(where) ==
    /\ accept' = where
    /\ UNCHANGED <<hashmail, faults, paired, close, stopped, quit, ctx, calm>>

\* Slip: Accept does not wait for the connection before.
acceptBusy ==
    /\ accept = "call"
    /\ acceptGoto(IF ctx THEN "end" ELSE "compare")
    /\ UNCHANGED <<boxes, conns, cancelled, mailboxConn, next, sid>>

\* Accept returns if the Server is closed, and waits for the connection before.
\* If the select finds both cases ready it takes either.
acceptCall ==
    /\ accept = "call"
    /\ \E where \in IF ctx THEN {"end"}
                    ELSE IF mailboxConn = 0 THEN {"compare"}
                    ELSE (IF quit THEN {"end"} ELSE {}) \cup
                         (IF conns[mailboxConn].phase = "closed" THEN {"compare"} ELSE {}) :
          acceptGoto(where)
    /\ UNCHANGED <<boxes, conns, cancelled, mailboxConn, next, sid>>

acceptWaits ==
    /\ accept = "call" /\ ~ctx /\ ~quit /\ mailboxConn # 0
    /\ conns[mailboxConn].phase # "closed"
    /\ acceptGoto("wait")
    /\ UNCHANGED <<boxes, conns, cancelled, mailboxConn, next, sid>>

acceptWakes ==
    /\ accept = "wait" /\ conns[mailboxConn].phase = "closed"
    /\ acceptGoto("compare")
    /\ UNCHANGED <<boxes, conns, cancelled, mailboxConn, next, sid>>

\* A new SID: the connection before is stopped.
acceptCompares ==
    /\ accept = "compare"
    /\ acceptGoto(IF sid # SID /\ mailboxConn # 0 THEN "stop" ELSE "create")
    /\ sid' = SID
    /\ UNCHANGED <<boxes, conns, cancelled, mailboxConn, next>>

deleted(c) ==
    {<<conns[c].sid, b>> : b \in {d \in {"receive", "send"} :
        IF d = "receive" THEN conns[c].receiveBoxCreated ELSE conns[c].sendBoxCreated}}

\* Slip: only Close is called.
acceptStopsNothing ==
    /\ accept = "stop"
    /\ mailboxConn' = 0 /\ acceptGoto("create")
    /\ UNCHANGED <<boxes, conns, cancelled, next, sid>>

\* Stop: the mailboxes are deleted and the context cancelled.
acceptStops ==
    /\ accept = "stop"
    /\ boxes' = IF hashmail THEN boxes \ deleted(mailboxConn) ELSE boxes
    /\ cancelled' = cancelled \cup {conns[mailboxConn].sid}
    /\ mailboxConn' = 0 /\ acceptGoto("create")
    /\ UNCHANGED <<conns, next, sid>>

\* NewServerConn or RefreshServerConn, which keeps what is known of the
\* mailboxes and the context of the connection before.
acceptCreates ==
    /\ accept = "create"
    /\ \E c \in Conns :
          /\ c = CHOOSE d \in Conns : d \notin {mailboxConn, stopped}
          /\ next' = c
          /\ set(c, IF mailboxConn = 0
                    THEN [Unused EXCEPT !.sid = sid, !.phase = "handshake"]
                    ELSE [conns[mailboxConn] EXCEPT !.phase = "handshake"])
    /\ acceptGoto("handshake")
    /\ UNCHANGED <<boxes, cancelled, mailboxConn, sid>>

\* The handshake succeeds: a client has sent something and got an answer.
acceptReturns ==
    /\ accept = "handshake"
    /\ conns[next].status = "InUse" /\ conns[next].send = "ok"
    /\ set(next, [conns[next] EXCEPT !.phase = "up"])
    /\ mailboxConn' = next /\ next' = 0 /\ acceptGoto("call")
    /\ UNCHANGED <<boxes, cancelled, sid>>

\* It fails with the context, and the error is temporary: Accept is called
\* again.
acceptFails ==
    /\ accept = "handshake" /\ done(next)
    /\ set(next, [conns[next] EXCEPT !.phase = "closed", !.receive = "nil",
                                     !.send = "nil", !.status = "NotConnected"])
    /\ next' = 0 /\ acceptGoto("call")
    /\ UNCHANGED <<boxes, cancelled, mailboxConn, sid>>

-----------------------------------------------------------------------------
(***************************************************************************)
(* Server.Close.                                                           *)
(***************************************************************************)

closeGoto(where) ==
    /\ close' = where
    /\ UNCHANGED <<hashmail, faults, paired, next, sid, mailboxConn>>

\* quit is closed: Accept ends if it is waiting.
closeBegins ==
    /\ close = "open"
    /\ quit' = TRUE /\ stopped' = mailboxConn
    /\ accept' = IF accept = "wait" THEN "end" ELSE accept
    /\ calm' = (accept = "wait" /\ conns[mailboxConn].phase = "up")
    /\ closeGoto(IF mailboxConn = 0 THEN "cancel" ELSE "stop")
    /\ UNCHANGED <<boxes, conns, cancelled, ctx>>

\* Stop closes the connection,
closeClosesConn ==
    /\ close = "stop" /\ conns[stopped].phase = "up"
    /\ set(stopped, [conns[stopped] EXCEPT !.phase = "fin"])
    /\ UNCHANGED <<boxes, envVars>>

\* deletes the mailboxes it has created
closeDeletes ==
    /\ close = "stop" /\ conns[stopped].phase = "closed"
    /\ boxes' = IF hashmail THEN boxes \ deleted(stopped) ELSE boxes
    /\ calm' = (calm /\ hashmail) /\ closeGoto("cancelConn")
    /\ UNCHANGED <<conns, cancelled, accept, stopped, quit, ctx>>

\* and cancels its context, which is also that of a refreshed connection.
closeCancelsConn ==
    /\ close = "cancelConn"
    /\ cancelled' = cancelled \cup {conns[stopped].sid}
    /\ closeGoto("cancel")
    /\ UNCHANGED <<boxes, conns, accept, stopped, quit, ctx, calm>>

\* Slip: the context is left alone.
closeCancelsNot ==
    /\ close = "cancel"
    /\ closeGoto("end")
    /\ UNCHANGED <<boxes, conns, cancelled, accept, stopped, quit, ctx, calm>>

closeCancels ==
    /\ close = "cancel"
    /\ ctx' = TRUE /\ closeGoto("end")
    /\ UNCHANGED <<boxes, conns, cancelled, accept, stopped, quit, calm>>

acceptStep ==
    \/ acceptCall \/ acceptWaits \/ acceptWakes \/ acceptCompares \/ acceptStops
    \/ acceptCreates \/ acceptReturns \/ acceptFails
closeStep == closeClosesConn \/ closeDeletes \/ closeCancelsConn \/ closeCancels

Next ==
    \/ hashmailFails \/ hashmailReturns \/ hashmailRestarts \/ SetRemote
    \/ \E c \in Conns : \/ stream(c) \/ createReceiveMailBoxFails(c)
                        \/ recvFromStream(c) \/ sendToStreamFails(c)
                        \/ grpcCloses(c) \/ closeConn(c)
    \/ acceptStep \/ closeBegins \/ closeStep

Spec == Init /\ [][Next]_vars

\* Goroutines run; Accept and Close run; nothing is assumed of the hashmail
\* server and the client.
FairSpec ==
    /\ Spec
    /\ \A c \in Conns : WF_vars(stream(c)) /\ WF_vars(closeConn(c))
    /\ WF_vars(acceptStep) /\ WF_vars(closeStep)

\* From some point on the hashmail server is up.
FairServerSpec == FairSpec /\ <>[]hashmail

-----------------------------------------------------------------------------
(***************************************************************************)
(* Properties.                                                             *)
(***************************************************************************)

StreamStates == {"nil", "retry", "fetch", "ok"}

\* Types; Accept creates a connection exactly while it is in the handshake.
TypeOK ==
    /\ boxes \subseteq Boxes /\ sid \in SIDs
    /\ \A c \in Conns :
          /\ conns[c].phase \in {"unused", "handshake", "up", "fin", "closed"}
          /\ {conns[c].receive, conns[c].send} \subseteq StreamStates
          /\ conns[c].status \in Statuses
    /\ mailboxConn \in Conns \cup {0} /\ next \in Conns \cup {0}
    /\ next # 0 <=> accept = "handshake"

\* Accept: only one connection is active at a time; the streams of the one
\* before are released when the next one opens its own.
OneActive ==
    LET active(c) == alive(c) \/ conns[c].receive = "ok" \/ conns[c].send = "ok"
    IN  \A c, d \in Conns : active(c) /\ active(d) => c = d

\* setStatus: idle and in use are only reported while there is a stream to
\* receive from.
StatusHasStream ==
    \A c \in Conns : conns[c].status # "NotConnected" => conns[c].receive = "ok"

\* Accept, Stop: a connection with the SID of the key exchange has found the
\* mailboxes of the passphrase deleted, whatever answers were lost before. Only
\* the hashmail server being away at that moment leaves them behind.
OldBoxesDeleted ==
    [][(accept = "stop" /\ accept' = "create" /\ hashmail)
       => \A b \in {"receive", "send"} : <<"passphrase", b>> \notin boxes']_vars

\* Server.Close: if a connection was up and Accept was waiting for it, its
\* mailboxes are deleted and nothing creates them again.
CloseCleans ==
    calm /\ close \in {"cancelConn", "cancel", "end"} =>
        \A b \in {"receive", "send"} : <<conns[stopped].sid, b>> \notin boxes

\* Server.Close ends, and with it Accept.
CloseEnds == quit ~> (close = "end" /\ accept = "end")

\* The Server: one connection at a time has streams, its status is that of its
\* streams, and Close leaves no mailbox behind.
ServerInv == TypeOK /\ OneActive /\ StatusHasStream /\ CloseCleans

=============================================================================
