------------------------------ MODULE ClientConn ------------------------------
(***************************************************************************)
(* A client connection to the mailbox server: send and recv of             *)
(* mailbox/client_conn.go with their locks and retries on top of a         *)
(* ClientConnTransport, called during the handshake and by the two         *)
(* goroutines of the GoBackNConn, and the closing of both, GoBackNConn.    *)
(* Close and ClientConn.Close. What the packets say is in the modules      *)
(* GBNHandshake and GoBackN.                                               *)
(*                                                                         *)
(* GoBackNConn.Close runs once, by the user's Close or by the goroutine    *)
(* that ends first; everyone else who calls it waits. Before it cancels    *)
(* the context of the goroutines it sends a FIN through send, under a      *)
(* context with a timeout.                                                 *)
(***************************************************************************)
EXTENDS Naturals, FiniteSets

CONSTANTS
    Refreshed   \* the connection comes from RefreshClientConn

ASSUME ClientConnAssumption == Refreshed \in BOOLEAN

Goroutines == {"sender", "receiver"}
Threads == Goroutines \cup {"user", "dialer"}  \* dialer: receives in the handshake
Readers == {"receiver", "dialer"}
Statuses == {"NotConnected", "SessionNotFound", "SessionInUse", "Connected"}
Streams == {"nil", "ok", "broken"}

VARIABLES
    up,         \* the mailbox server is reachable
    sendStream, recvStream,     \* the streams of the transport
    sendMu, receiveMu,          \* holder or "free"
    pc,         \* of each thread
    sp,         \* where in send a thread is
    rp,         \* where in recv a reader is
    recvNext,   \* the handshake has asked for a message
    started,    \* the handshake is complete
    closer,     \* closeOnce of GoBackNConn: "none", the thread in it, "done"
    gbnQuit,    \* GoBackNConn.quit is closed
    ctx,        \* the context of the goroutines is cancelled
    finExpired, \* the context of the FIN has timed out
    remoteClosed,
    quit,       \* ClientConn.quit is closed
    status,     \* of this ClientConn
    shown       \* what onNewStatus was last called with

streamVars == <<up, sendStream, recvStream>>
dialVars == <<recvNext, started>>
closeVars == <<closer, gbnQuit, ctx, finExpired, remoteClosed, quit>>
statusVars == <<status, shown>>
vars == <<streamVars, sendMu, receiveMu, pc, sp, rp, dialVars, closeVars, statusVars>>

\* A new transport, and a refreshed one, has no streams.
Refresh == sendStream = "nil" /\ recvStream = "nil"

NewClientConn == status = "NotConnected" /\ shown = "NotConnected"

\* The Client still shows the status of the connection before.
RefreshClientConn == status = "NotConnected" /\ shown \in Statuses

\* At the start of clientHandshake.
Init ==
    /\ up = TRUE /\ Refresh
    /\ IF Refreshed THEN RefreshClientConn ELSE NewClientConn
    /\ sendMu = "free" /\ receiveMu = "free"
    /\ pc = [t \in Threads |-> CASE t = "user" -> "syn"
                                 [] t = "dialer" -> "next"
                                 [] OTHER -> "unstarted"]
    /\ sp = [t \in Threads |-> "idle"] /\ rp = [t \in Readers |-> "idle"]
    /\ recvNext = FALSE /\ started = FALSE
    /\ closer = "none" /\ gbnQuit = FALSE /\ ctx = FALSE /\ finExpired = FALSE
    /\ remoteClosed = FALSE /\ quit = FALSE

ReceiveConnected == recvStream # "nil"
SendConnected == sendStream # "nil"

ConnectSend == up /\ sendStream' = "ok"
ConnectReceive == up /\ recvStream' = "ok"

\* What can be closed is closed.
CloseReceive == recvStream' = IF ReceiveConnected THEN "broken" ELSE "nil"
CloseSend == sendStream' = IF SendConnected THEN "broken" ELSE "nil"

-----------------------------------------------------------------------------
(***************************************************************************)
(* The status.                                                             *)
(***************************************************************************)

\* Slip: the last status wins.
setStatusLast(s) == status' = s /\ shown' = s

\* NotConnected does not replace a status that says more.
setStatus(s) ==
    IF s = "NotConnected" /\ status \in {"SessionInUse", "SessionNotFound"}
    THEN UNCHANGED statusVars
    ELSE status' = s /\ shown' = s

\* The closure of NewClientConn sets the status of the connection it was made
\* for; a refreshed connection has the options of the first one.
onFIN ==
    IF Refreshed THEN shown' = "SessionNotFound" /\ UNCHANGED status
    ELSE setStatus("SessionNotFound")

-----------------------------------------------------------------------------
(***************************************************************************)
(* The environment.                                                        *)
(***************************************************************************)

\* The mailbox server goes away, and with it the streams.
serverFails ==
    /\ up /\ up' = FALSE
    /\ sendStream' = IF sendStream = "ok" THEN "broken" ELSE sendStream
    /\ recvStream' = IF recvStream = "ok" THEN "broken" ELSE recvStream
    /\ UNCHANGED <<sendMu, receiveMu, pc, sp, rp, dialVars, closeVars, statusVars>>

serverReturns ==
    /\ ~up /\ up' = TRUE
    /\ UNCHANGED <<sendStream, recvStream, sendMu, receiveMu, pc, sp, rp,
                   dialVars, closeVars, statusVars>>

\* The context given to NewClientConn is cancelled.
parentCancels ==
    /\ ~ctx /\ ctx' = TRUE
    /\ UNCHANGED <<streamVars, sendMu, receiveMu, pc, sp, rp, dialVars, closer,
                   gbnQuit, finExpired, remoteClosed, quit, statusVars>>

\* finSendTimeout passes.
finTimeout ==
    /\ \E t \in Threads : pc[t] = "fin"
    /\ ~finExpired /\ finExpired' = TRUE
    /\ UNCHANGED <<streamVars, sendMu, receiveMu, pc, sp, rp, dialVars, closer, gbnQuit,
                   ctx, remoteClosed, quit, statusVars>>

-----------------------------------------------------------------------------
(***************************************************************************)
(* send, with the context of the goroutines or that of the FIN.            *)
(***************************************************************************)

ctxDone(t) == ctx \/ (pc[t] = "fin" /\ finExpired)

\* Where a thread goes on after send.
afterSend(t, ok) ==
    CASE pc[t] = "fin" -> "cancel"
      [] pc[t] = "sendSYN" -> IF ok THEN "await" ELSE "close"
      [] pc[t] = "sendSYNACK" -> IF ok THEN "start" ELSE "close"
      [] ok /\ t = "sender" -> "select"
      [] ok /\ t = "receiver" -> "loop"
      [] OTHER -> "exit"

returnSend(t, ok) ==
    /\ sendMu' = "free"
    /\ sp' = [sp EXCEPT ![t] = "idle"]
    /\ pc' = [pc EXCEPT ![t] = afterSend(t, ok)]
    /\ UNCHANGED <<streamVars, receiveMu, rp, dialVars, closeVars, statusVars>>

sendGoto(t, where) ==
    /\ sp' = [sp EXCEPT ![t] = where]
    /\ UNCHANGED <<up, recvStream, receiveMu, pc, rp, dialVars, closeVars>>

sendLock(t) ==
    /\ sp[t] = "lock" /\ sendMu = "free"
    /\ sendMu' = t
    /\ sendGoto(t, IF SendConnected THEN "loop" ELSE "create")
    /\ UNCHANGED <<sendStream, statusVars>>

\* createSendMailBox gives up when the connection or the context is done.
createSendMailBoxEnds(t) ==
    /\ sp[t] = "create" /\ (quit \/ ctxDone(t))
    /\ sendGoto(t, "loop")
    /\ UNCHANGED <<sendStream, sendMu, statusVars>>

createSendMailBox(t) ==
    /\ sp[t] = "create" /\ ~quit /\ ~ctxDone(t)
    /\ ConnectSend
    /\ sendGoto(t, "loop")
    /\ UNCHANGED <<sendMu, statusVars>>

sendLoop(t) ==
    /\ sp[t] = "loop"
    /\ IF quit \/ ctxDone(t)
       THEN returnSend(t, quit)
       ELSE sendGoto(t, "transport") /\ UNCHANGED <<sendStream, sendMu, statusVars>>

transportSends(t) ==
    /\ sp[t] = "transport" /\ sendStream = "ok"
    /\ returnSend(t, TRUE)

\* The write fails, also because its context has ended.
transportSendFails(t) ==
    /\ sp[t] = "transport" /\ (sendStream # "ok" \/ ctxDone(t))
    /\ setStatus("NotConnected")
    /\ sendGoto(t, "create")
    /\ UNCHANGED <<sendStream, sendMu>>

send(t) ==
    \/ sendLock(t) \/ createSendMailBoxEnds(t) \/ createSendMailBox(t)
    \/ sendLoop(t) \/ transportSends(t) \/ transportSendFails(t)

-----------------------------------------------------------------------------
(***************************************************************************)
(* recv.                                                                   *)
(***************************************************************************)

recvGoto(t, where) ==
    /\ rp' = [rp EXCEPT ![t] = where]
    /\ UNCHANGED <<up, sendStream, sendMu, pc, sp, dialVars, closeVars>>

\* recv returns a message of some kind, or "error".
returnRecv(t, msg) ==
    /\ receiveMu' = "free"
    /\ rp' = [rp EXCEPT ![t] = "idle"]
    /\ pc' = [pc EXCEPT ![t] =
                  CASE t = "receiver" /\ msg = "error" -> "exit"
                    [] t = "receiver" /\ msg \notin {"ack", "FIN"} -> "loop"
                    [] t = "dialer" /\ msg \notin {"SYN", "error"} -> "other"
                    [] OTHER -> msg]
    /\ UNCHANGED <<streamVars, sendMu, sp, dialVars, closeVars>>

recvLock(t) ==
    /\ rp[t] = "lock" /\ receiveMu = "free"
    /\ receiveMu' = t
    /\ recvGoto(t, IF ReceiveConnected THEN "loop" ELSE "create")
    /\ UNCHANGED <<recvStream, statusVars>>

createReceiveMailBoxEnds(t) ==
    /\ rp[t] = "create" /\ (quit \/ ctx)
    /\ recvGoto(t, "loop")
    /\ UNCHANGED <<recvStream, receiveMu, statusVars>>

createReceiveMailBox(t) ==
    /\ rp[t] = "create" /\ ~quit /\ ~ctx
    /\ ConnectReceive
    /\ recvGoto(t, "loop")
    /\ UNCHANGED <<receiveMu, statusVars>>

\* On quit the message is nil, which does not deserialize.
recvLoop(t) ==
    /\ rp[t] = "loop"
    /\ IF quit \/ ctx THEN returnRecv(t, "error") /\ UNCHANGED statusVars
       ELSE recvGoto(t, "transport") /\ UNCHANGED <<recvStream, receiveMu, statusVars>>

\* A message arrives: a SYN, a packet that is acknowledged, one that is not, a
\* FIN, or something that cannot be decoded.
transportReceives(t) ==
    /\ rp[t] = "transport" /\ recvStream = "ok"
    /\ \/ /\ \E msg \in {"SYN", "ack", "other", "FIN"} : returnRecv(t, msg)
          /\ setStatus("Connected")
       \/ returnRecv(t, "error") /\ UNCHANGED statusVars

\* The read fails: the stream is broken or the context done, or the server
\* says why.
transportRecvFails(t) ==
    /\ rp[t] = "transport"
    /\ \/ (recvStream # "ok" \/ ctx) /\ setStatus("NotConnected")
       \/ recvStream = "ok" /\ \E s \in {"SessionNotFound", "SessionInUse"} : setStatus(s)
    /\ recvGoto(t, "create")
    /\ UNCHANGED <<recvStream, receiveMu>>

recv(t) ==
    \/ recvLock(t) \/ createReceiveMailBoxEnds(t) \/ createReceiveMailBox(t)
    \/ recvLoop(t) \/ transportReceives(t) \/ transportRecvFails(t)

-----------------------------------------------------------------------------
(***************************************************************************)
(* clientHandshake, by the user's Dial and a goroutine that receives.      *)
(***************************************************************************)

goto(t, where) == pc' = [pc EXCEPT ![t] = where]
enterSend(t) == sp' = [sp EXCEPT ![t] = "lock"]

handshakeSendsSYN ==
    /\ pc["user"] = "syn"
    /\ goto("user", "sendSYN") /\ enterSend("user")
    /\ UNCHANGED <<streamVars, sendMu, receiveMu, rp, dialVars, closeVars, statusVars>>

\* recvNext has room for one request.
handshakeAsks ==
    /\ pc["user"] = "await"
    /\ recvNext' = TRUE /\ goto("user", IF ctx THEN "close" ELSE "answer")
    /\ UNCHANGED <<streamVars, sendMu, receiveMu, sp, rp, started, closeVars, statusVars>>

\* The timeout passes, the context is done or the goroutine had an error.
handshakeGetsNothing ==
    /\ pc["user"] = "answer"
    /\ \/ goto("user", "syn")
       \/ (ctx \/ pc["dialer"] = "error") /\ goto("user", "close")
    /\ UNCHANGED <<streamVars, sendMu, receiveMu, sp, rp, dialVars, closeVars, statusVars>>

\* A SYN with this window is answered, with another one it is the end; other
\* packets are from an earlier connection.
handshakeGets ==
    /\ pc["user"] = "answer" /\ pc["dialer"] \in {"SYN", "other"}
    /\ IF pc["dialer"] = "SYN"
       THEN \/ pc' = [pc EXCEPT !["user"] = "sendSYNACK", !["dialer"] = "next"]
               /\ enterSend("user")
            \/ pc' = [pc EXCEPT !["user"] = "close", !["dialer"] = "next"] /\ UNCHANGED sp
       ELSE pc' = [pc EXCEPT !["user"] = "await", !["dialer"] = "next"] /\ UNCHANGED sp
    /\ UNCHANGED <<streamVars, sendMu, receiveMu, rp, dialVars, closeVars, statusVars>>

start ==
    /\ pc["user"] = "start"
    /\ pc' = [pc EXCEPT !["user"] = "open", !["sender"] = "select", !["receiver"] = "loop"]
    /\ started' = TRUE
    /\ UNCHANGED <<streamVars, sendMu, receiveMu, sp, rp, recvNext, closeVars, statusVars>>

\* The goroutine takes a request, also one that the handshake has left behind,
dialerReads ==
    /\ pc["dialer"] = "next" /\ recvNext
    /\ recvNext' = FALSE /\ goto("dialer", "reading")
    /\ rp' = [rp EXCEPT !["dialer"] = "lock"]
    /\ UNCHANGED <<streamVars, sendMu, receiveMu, sp, started, closeVars, statusVars>>

\* and ends, with what it has read, after the handshake.
dialerEnds ==
    /\ pc["dialer"] \in {"next", "SYN", "other"}
    /\ started \/ ctx \/ gbnQuit
    /\ goto("dialer", "end")
    /\ UNCHANGED <<streamVars, sendMu, receiveMu, sp, rp, dialVars, closeVars, statusVars>>

-----------------------------------------------------------------------------
(***************************************************************************)
(* The goroutines.                                                         *)
(***************************************************************************)

\* sendPacketsForever sends a packet.
senderSends ==
    /\ pc["sender"] = "select"
    /\ goto("sender", "sending") /\ enterSend("sender")
    /\ UNCHANGED <<streamVars, sendMu, receiveMu, rp, dialVars, closeVars, statusVars>>

\* It returns when the connection is closed.
senderQuits ==
    /\ pc["sender"] = "select" /\ gbnQuit
    /\ goto("sender", "exit")
    /\ UNCHANGED <<streamVars, sendMu, receiveMu, sp, rp, dialVars, closeVars, statusVars>>

\* It returns after a keepalive timeout.
senderTimesOut ==
    /\ pc["sender"] = "select" /\ ~gbnQuit
    /\ goto("sender", "exit")
    /\ UNCHANGED <<streamVars, sendMu, receiveMu, sp, rp, dialVars, closeVars, statusVars>>

\* receivePacketsForever
receiverLoops ==
    /\ pc["receiver"] = "loop"
    /\ IF gbnQuit THEN goto("receiver", "exit") /\ UNCHANGED rp
       ELSE goto("receiver", "receiving") /\ rp' = [rp EXCEPT !["receiver"] = "lock"]
    /\ UNCHANGED <<streamVars, sendMu, receiveMu, sp, dialVars, closeVars, statusVars>>

receiverAcks ==
    /\ pc["receiver"] = "ack"
    /\ goto("receiver", "acking") /\ enterSend("receiver")
    /\ UNCHANGED <<streamVars, sendMu, receiveMu, rp, dialVars, closeVars, statusVars>>

receiverFIN ==
    /\ pc["receiver"] = "FIN"
    /\ remoteClosed' = TRUE /\ onFIN
    /\ goto("receiver", "exit")
    /\ UNCHANGED <<streamVars, sendMu, receiveMu, sp, rp, dialVars, closer, gbnQuit, ctx,
                   finExpired, quit>>

\* Slip: the deferred function closes before it calls wg.Done.
exitedAfterClose(t) == pc[t] = "end"

\* wg.Done has been called.
exited(t) == pc[t] \notin {"select", "sending", "loop", "receiving", "ack",
                           "acking", "FIN", "exit"}

\* The deferred function of start: wg.Done and then Close.
leaves(t) ==
    /\ pc[t] = "exit"
    /\ goto(t, "close")
    /\ UNCHANGED <<streamVars, sendMu, receiveMu, sp, rp, dialVars, closeVars, statusVars>>

-----------------------------------------------------------------------------
(***************************************************************************)
(* GoBackNConn.Close and ClientConn.Close.                                 *)
(***************************************************************************)

\* The FIN is not sent if the peer has sent one.
gbnCloseBegins(t) ==
    /\ pc[t] = "close" /\ closer = "none"
    /\ closer' = t /\ gbnQuit' = TRUE
    /\ IF remoteClosed THEN goto(t, "cancel") /\ UNCHANGED sp
       ELSE goto(t, "fin") /\ enterSend(t)
    /\ UNCHANGED <<streamVars, sendMu, receiveMu, rp, dialVars, ctx, finExpired,
                   remoteClosed, quit, statusVars>>

gbnCloseCancels(t) ==
    /\ pc[t] = "cancel"
    /\ ctx' = TRUE /\ goto(t, "wait")
    /\ UNCHANGED <<streamVars, sendMu, receiveMu, sp, rp, dialVars, closer, gbnQuit,
                   finExpired, remoteClosed, quit, statusVars>>

\* Slip: Close does not wait for the goroutines.
gbnCloseWaitsNot(t) ==
    /\ pc[t] = "wait"
    /\ closer' = "done" /\ UNCHANGED pc
    /\ UNCHANGED <<streamVars, sendMu, receiveMu, sp, rp, dialVars, gbnQuit, ctx,
                   finExpired, remoteClosed, quit, statusVars>>

\* wg.Wait; the tickers are stopped.
gbnCloseWaits(t) ==
    /\ pc[t] = "wait" /\ closer = t /\ \A g \in Goroutines : exited(g)
    /\ closer' = "done" /\ UNCHANGED pc
    /\ UNCHANGED <<streamVars, sendMu, receiveMu, sp, rp, dialVars, gbnQuit, ctx,
                   finExpired, remoteClosed, quit, statusVars>>

\* Close returns, for the thread that has run it and for those that waited.
gbnCloseReturns(t) ==
    /\ pc[t] \in {"close", "wait"} /\ closer = "done"
    /\ goto(t, IF t = "user" /\ started THEN "closeReceive" ELSE "end")
    /\ UNCHANGED <<streamVars, sendMu, receiveMu, sp, rp, dialVars, closeVars, statusVars>>

userCloses ==
    /\ pc["user"] = "open"
    /\ goto("user", "close")
    /\ UNCHANGED <<streamVars, sendMu, receiveMu, sp, rp, dialVars, closeVars, statusVars>>

closeReceive ==
    /\ pc["user"] = "closeReceive" /\ receiveMu = "free"
    /\ CloseReceive
    /\ goto("user", "closeSend")
    /\ UNCHANGED <<up, sendStream, sendMu, receiveMu, sp, rp, dialVars, closeVars, statusVars>>

\* CloseSend, then quit is closed.
closeSend ==
    /\ pc["user"] = "closeSend" /\ sendMu = "free"
    /\ CloseSend
    /\ quit' = TRUE
    /\ goto("user", "end")
    /\ UNCHANGED <<up, recvStream, sendMu, receiveMu, sp, rp, dialVars, closer, gbnQuit,
                   ctx, finExpired, remoteClosed, statusVars>>

gbnClose(t) ==
    gbnCloseBegins(t) \/ gbnCloseCancels(t) \/ gbnCloseWaits(t) \/ gbnCloseReturns(t)

senderStep == send("sender") \/ senderSends \/ leaves("sender") \/ gbnClose("sender")
receiverStep ==
    \/ recv("receiver") \/ send("receiver") \/ receiverLoops \/ receiverAcks \/ receiverFIN
    \/ leaves("receiver") \/ gbnClose("receiver")
userStep ==
    \/ handshakeSendsSYN \/ handshakeAsks \/ handshakeGetsNothing
    \/ handshakeGets \/ start
    \/ send("user") \/ gbnClose("user") \/ closeReceive \/ closeSend
dialerStep == recv("dialer") \/ dialerReads \/ dialerEnds

Next ==
    \/ serverFails \/ serverReturns \/ parentCancels \/ finTimeout
    \/ senderStep \/ senderQuits \/ senderTimesOut
    \/ receiverStep \/ dialerStep
    \/ userStep \/ userCloses

Spec == Init /\ [][Next]_vars

\* Goroutines run; time passes; a select does not pass over quit for ever, as
\* it chooses at random among the ready cases. Nothing is assumed of the
\* server and of the peer.
FairSpec ==
    /\ Spec
    /\ WF_vars(finTimeout)
    /\ WF_vars(senderStep) /\ SF_vars(senderQuits)
    /\ WF_vars(receiverStep) /\ WF_vars(dialerStep)
    /\ WF_vars(userStep)

\* From some point on the server is reachable.
FairServerSpec == FairSpec /\ <>[]up

-----------------------------------------------------------------------------
(***************************************************************************)
(* Properties.                                                             *)
(***************************************************************************)

\* Types; a mutex is held by a thread inside the function that locks it.
TypeOK ==
    /\ {up, gbnQuit, ctx, finExpired, remoteClosed, quit} \subseteq BOOLEAN
    /\ {sendStream, recvStream} \subseteq Streams
    /\ {status, shown} \subseteq Statuses
    /\ \A t \in Threads : (sendMu = t) = (sp[t] \in {"create", "loop", "transport"})
    /\ \A t \in Readers : (receiveMu = t) = (rp[t] \in {"create", "loop", "transport"})
    /\ closer \in Threads \cup {"none", "done"}

\* send and recv: the transport is only used through a stream that has been
\* connected, although createSendMailBox and createReceiveMailBox return
\* without one when the connection is closed.
StreamConnected ==
    /\ \A t \in Threads : sp[t] = "transport" => SendConnected
    /\ \A t \in Readers : rp[t] = "transport" => ReceiveConnected

\* ClientConn.Close: the streams are not closed under a goroutine that uses
\* them.
StreamsClosedLast ==
    started /\ pc["user"] \in {"closeReceive", "closeSend", "end"} =>
        /\ rp["receiver"] = "idle"
        /\ \A t \in Threads : sp[t] = "idle"
        /\ pc["user"] # "closeReceive" => rp["dialer"] # "transport"

\* setStatus: a status that says more is not replaced by NotConnected.
DetailKept ==
    [][(shown \in {"SessionInUse", "SessionNotFound"}) => shown' # "NotConnected"]_vars

\* WithOnFIN: the FIN sets the status and no error of the sender replaces it,
\* as long as the goroutine of the handshake is not in recv.
FINKept ==
    [][remoteClosed' /\ (~remoteClosed \/ shown = "SessionNotFound")
          /\ rp["dialer"] = "idle"
       => shown' = "SessionNotFound"]_vars

\* ClientConn.Close returns, and Dial, which waits for quit, can go on.
CloseReturns == (started /\ pc["user"] = "close") ~> quit

\* send, recv and Close: the streams are used between the moment they are
\* connected and the moment they are closed, by one goroutine at a time.
StreamsInv == TypeOK /\ StreamConnected /\ StreamsClosedLast

\* setStatus: what the status says in detail is not lost to a later event.
StatusKept == DetailKept /\ FINKept

=============================================================================
