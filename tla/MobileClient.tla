----------------------------- MODULE MobileClient -----------------------------
(***************************************************************************)
(* The library for mobile apps (mobile/mobile.go): the client of a name    *)
(* space, the goroutines of ConnectServer and InvokeRPC, and the           *)
(* callbacks of the handshake, which gRPC runs in goroutines of its own.   *)
(* Calls hold mc.mutex from their first to their last access, except where *)
(* they hand over to a goroutine; so each part of a call is one step.      *)
(***************************************************************************)
EXTENDS Naturals, FiniteSets

CONSTANTS
    Clients,    \* 1 .. k: one for each call of InitLNC
    Attempts,   \* 1 .. k: one for each call of ConnectServer
    Calls       \* one for each call of InvokeRPC

Callback == {"localPrivCreate", "remoteKeyReceive", "authData"}

VARIABLES
    orderly,    \* the app waits for one thing to end before it starts another
    m,          \* the client of the name space, 0: none
    lndConn,    \* the connection that a client has, 0: none
    callbacks,  \* the callbacks registered with a client
    statusChecker,  \* the attempt whose status a client reports, 0: none
    mac,        \* whether a client has a macaroon
    attempt,    \* where the goroutine of ConnectServer is
    mc,         \* the client it works for
    grpcConn,   \* the connection it has made
    call,       \* where the goroutine of InvokeRPC is
    callClient, \* the client it was called on
    callConn,   \* the connection it used
    missed      \* a callback was called that is not registered

vars == <<orderly, m, lndConn, callbacks, statusChecker, mac, attempt, mc,
          grpcConn, call, callClient, callConn, missed>>
clients == <<m, lndConn, callbacks, statusChecker, mac>>
attempts == <<attempt, mc, grpcConn>>
calls == <<call, callClient, callConn>>

Init ==
    /\ orderly \in BOOLEAN
    /\ m = 0
    /\ lndConn = [c \in Clients |-> 0]
    /\ callbacks = [c \in Clients |-> {}]
    /\ statusChecker = [c \in Clients |-> 0]
    /\ mac = [c \in Clients |-> FALSE]
    /\ attempt = [a \in Attempts |-> "none"]
    /\ mc = [a \in Attempts |-> 0]
    /\ grpcConn = [a \in Attempts |-> "none"]
    /\ call = [r \in Calls |-> "none"]
    /\ callClient = [r \in Calls |-> 0]
    /\ callConn = [r \in Calls |-> 0]
    /\ missed = FALSE

\* Attempts that have not come to an end.
pending == {a \in Attempts : attempt[a] \notin {"none", "done", "failed"}}

-----------------------------------------------------------------------------
(***************************************************************************)
(* Set-up.                                                                 *)
(***************************************************************************)

\* A client that the name space has already is replaced.
InitLNC ==
    /\ m + 1 \in Clients /\ m' = m + 1
    /\ orderly => m = 0
    /\ UNCHANGED <<lndConn, callbacks, statusChecker, mac, attempts, calls, missed>>

Register(cb) ==
    /\ m # 0
    /\ callbacks' = [callbacks EXCEPT ![m] = @ \cup {cb}]
    /\ UNCHANGED <<m, lndConn, statusChecker, mac, attempts, calls, missed>>

\* SendResult of a callback of a client.
sends(c, cb) == missed' = (missed \/ cb \notin callbacks[c])

-----------------------------------------------------------------------------
(***************************************************************************)
(* ConnectServer                                                           *)
(***************************************************************************)

\* Which of the keys the app gives.
validateArgs(local, remote) == remote => local

\* The app is told about a key that was made for it. A key that cannot be
\* parsed is an error of ConnectServer.
parseKeys(local) ==
    IF local THEN UNCHANGED missed ELSE sends(m, "localPrivCreate")

ConnectServer(a, local, remote) ==
    /\ attempt[a] = "none" /\ m # 0
    /\ validateArgs(local, remote)
    /\ orderly => /\ pending = {} /\ lndConn[m] = 0
                  /\ callbacks[m] = Callback
    /\ parseKeys(local)
    /\ attempt' = [attempt EXCEPT ![a] = "start"]
    /\ UNCHANGED <<clients, mc, grpcConn, calls>>

\* The goroutine looks the client up again.
getsClient(a) ==
    /\ attempt[a] = "start"
    /\ mc' = [mc EXCEPT ![a] = m]
    /\ attempt' = [attempt EXCEPT ![a] = "client"]
    /\ UNCHANGED <<clients, grpcConn, calls, missed>>

\* NewClientWebsocketConn fails.
attemptFails(a) ==
    /\ attempt[a] = "client"
    /\ attempt' = [attempt EXCEPT ![a] = "failed"]
    /\ UNCHANGED <<clients, mc, grpcConn, calls, missed>>

setsStatus(a) ==
    /\ attempt[a] = "client"
    /\ statusChecker' = [statusChecker EXCEPT ![mc[a]] = a]
    /\ attempt' = [attempt EXCEPT ![a] = "dial"]
    /\ UNCHANGED <<m, lndConn, callbacks, mac, mc, grpcConn, calls, missed>>

\* The handshake of the first connection and of later ones, as long as the
\* grpc connection is not closed.
handshakes(a) == attempt[a] \in {"dial", "auth"} \/ grpcConn[a] = "open"

onRemoteStatic(a) ==
    /\ handshakes(a)
    /\ sends(mc[a], "remoteKeyReceive")
    /\ UNCHANGED <<clients, attempts, calls>>

\* Auth data that is no macaroon fails the handshake and changes nothing.
onAuthData(a) ==
    /\ handshakes(a)
    /\ mac' = [mac EXCEPT ![mc[a]] = TRUE]
    /\ sends(mc[a], "authData")
    /\ attempt' = [attempt EXCEPT ![a] = IF @ = "dial" THEN "auth" ELSE @]
    /\ UNCHANGED <<m, lndConn, callbacks, statusChecker, mc, grpcConn, calls>>

\* lndConnect returns when the handshake is done.
lndConnect(a) ==
    /\ attempt[a] = "auth"
    /\ grpcConn' = [grpcConn EXCEPT ![a] = "open"]
    /\ attempt' = [attempt EXCEPT ![a] = "connected"]
    /\ UNCHANGED <<clients, mc, calls, missed>>

setsConn(a) ==
    /\ attempt[a] = "connected"
    /\ lndConn' = [lndConn EXCEPT ![mc[a]] = a]
    /\ attempt' = [attempt EXCEPT ![a] = "done"]
    /\ UNCHANGED <<m, callbacks, statusChecker, mac, mc, grpcConn, calls, missed>>

-----------------------------------------------------------------------------
(***************************************************************************)
(* Disconnect and InvokeRPC                                                *)
(***************************************************************************)

\* Slip: the connection is forgotten and not closed.
DisconnectDrops ==
    /\ m # 0 /\ lndConn[m] # 0
    /\ orderly => \A r \in Calls : call[r] # "start"
    /\ lndConn' = [lndConn EXCEPT ![m] = 0]
    /\ UNCHANGED <<m, callbacks, statusChecker, mac, attempts, calls, missed>>

Disconnect ==
    /\ m # 0 /\ lndConn[m] # 0
    /\ orderly => \A r \in Calls : call[r] # "start"
    /\ grpcConn' = [grpcConn EXCEPT ![lndConn[m]] = "closed"]
    /\ lndConn' = [lndConn EXCEPT ![m] = 0]
    /\ UNCHANGED <<m, callbacks, statusChecker, mac, attempt, mc, calls, missed>>

InvokeRPC(r) ==
    /\ call[r] = "none" /\ m # 0 /\ lndConn[m] # 0
    /\ call' = [call EXCEPT ![r] = "start"]
    /\ callClient' = [callClient EXCEPT ![r] = m]
    /\ UNCHANGED <<clients, attempts, callConn, missed>>

\* The goroutine reads the connection without the mutex.
method(r) ==
    /\ call[r] = "start"
    /\ call' = [call EXCEPT ![r] = "called"]
    /\ callConn' = [callConn EXCEPT ![r] = lndConn[callClient[r]]]
    /\ UNCHANGED <<clients, attempts, callClient, missed>>

Next ==
    \/ InitLNC \/ Disconnect
    \/ \E cb \in Callback : Register(cb)
    \/ \E a \in Attempts :
           \/ \E local, remote \in BOOLEAN : ConnectServer(a, local, remote)
           \/ getsClient(a) \/ attemptFails(a) \/ setsStatus(a)
           \/ onRemoteStatic(a) \/ onAuthData(a) \/ lndConnect(a) \/ setsConn(a)
    \/ \E r \in Calls : InvokeRPC(r) \/ method(r)

Spec == Init /\ [][Next /\ UNCHANGED orderly]_vars

-----------------------------------------------------------------------------
(***************************************************************************)
(* Properties.                                                             *)
(***************************************************************************)

\* Types.
TypeOK ==
    /\ m \in Clients \cup {0}
    /\ lndConn \in [Clients -> Attempts \cup {0}]
    /\ callbacks \in [Clients -> SUBSET Callback]
    /\ statusChecker \in [Clients -> Attempts \cup {0}]
    /\ mac \in [Clients -> BOOLEAN]
    /\ attempt \in [Attempts -> {"none", "start", "client", "dial", "auth",
                                 "connected", "done", "failed"}]
    /\ mc \in [Attempts -> Clients \cup {0}]
    /\ grpcConn \in [Attempts -> {"none", "open", "closed"}]
    /\ call \in [Calls -> {"none", "start", "called"}]
    /\ callClient \in [Calls -> Clients \cup {0}]
    /\ callConn \in [Calls -> Attempts \cup {0}]
    /\ missed \in BOOLEAN
    /\ \A r \in Calls : call[r] # "none" => callClient[r] # 0

\* IsConnected "returns whether or not there is an active connection": the
\* connection that a client has is never a closed one, whatever the app does.
ConnectedIsOpen ==
    \A c \in Clients : lndConn[c] # 0 => grpcConn[lndConn[c]] = "open"

\* Disconnect "closes the RPC connection": there is no open connection that it
\* would not reach, once the attempts of an orderly app have ended.
NoOrphan ==
    (orderly /\ pending = {}) =>
        \A a \in Attempts : grpcConn[a] = "open" => lndConn[m] = a

\* InvokeRPC of an orderly app makes no call without a connection: "RPC
\* connection not ready".
CallsHaveConn == orderly => \A r \in Calls : call[r] = "called" => callConn[r] # 0

\* validateArgs "checks that the correct keys and callback functions have been
\* provided": an orderly app has registered every callback that is called.
CallbacksProvided == orderly => ~missed

\* The mobile client: a connection that it has is open; an orderly app loses
\* none, makes no call without one and has registered what is called back.
MobileInv ==
    /\ TypeOK /\ ConnectedIsOpen /\ NoOrphan /\ CallsHaveConn
    /\ CallbacksProvided

=============================================================================
