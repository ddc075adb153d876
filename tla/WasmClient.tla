------------------------------ MODULE WasmClient ------------------------------
(***************************************************************************)
(* The WASM client (cmd/wasm-client/main.go): the functions that           *)
(* JavaScript calls and the goroutines they start. There are no locks;     *)
(* goroutines of this target only give way where they block, so what lies  *)
(* between two blocking calls is one step.                                 *)
(***************************************************************************)
EXTENDS Naturals

CONSTANTS
    Attempts,       \* calls of ConnectServer
    Disconnects,    \* calls of Disconnect
    Calls,          \* calls of InvokeRPC
    Configured      \* the callbacks named in the config

Callback == {"OnLocalPrivCreate", "OnRemoteKeyReceive", "OnAuthData"}

VARIABLES
    orderly,        \* the page waits for one thing to end before the next
    lndConn,        \* the attempt whose connection is used, 0: none
    statusChecker,  \* the attempt whose status is shown, 0: none
    mac,            \* whether there is a macaroon
    attempt, grpcConn,
    disconnect,     \* where the goroutine of Disconnect is
    call, callConn,
    process         \* "running", "exited", or the panic that has ended it

vars == <<orderly, lndConn, statusChecker, mac, attempt, grpcConn, disconnect,
          call, callConn, process>>
client == <<lndConn, statusChecker, mac>>
attempts == <<attempt, grpcConn>>
calls == <<call, callConn>>

Init ==
    /\ orderly \in BOOLEAN
    /\ lndConn = 0 /\ statusChecker = 0 /\ mac = FALSE
    /\ attempt = [a \in Attempts |-> "none"]
    /\ grpcConn = [a \in Attempts |-> "none"]
    /\ disconnect = [d \in Disconnects |-> "none"]
    /\ call = [r \in Calls |-> "none"]
    /\ callConn = [r \in Calls |-> 0]
    /\ process = "running"

idle == /\ \A a \in Attempts : attempt[a] \in {"none", "done"}
        /\ \A d \in Disconnects : disconnect[d] \in {"none", "done", "ignored"}
        /\ \A r \in Calls : call[r] # "start"

running == process = "running"

exit ==
    /\ process' = "exited"
    /\ UNCHANGED <<client, attempts, disconnect, calls>>

\* Call of a property that is no function is a panic.
callJsCallback(cb) ==
    process' = IF cb \in Configured THEN process ELSE "no callback"

-----------------------------------------------------------------------------
(***************************************************************************)
(* ConnectServer                                                           *)
(***************************************************************************)

validateArgs(local, remote) ==
    /\ remote => local
    /\ ~local => "OnLocalPrivCreate" \in Configured
    /\ ~remote => "OnRemoteKeyReceive" \in Configured

parseKeys(local) ==
    IF local THEN UNCHANGED process ELSE callJsCallback("OnLocalPrivCreate")

ConnectServer(a, local, remote) ==
    /\ running /\ attempt[a] = "none"
    /\ orderly => idle /\ lndConn = 0
    /\ validateArgs(local, remote)
    /\ parseKeys(local)
    /\ attempt' = [attempt EXCEPT ![a] = "start"]
    /\ UNCHANGED <<client, grpcConn, disconnect, calls>>

\* NewClientWebsocketConn, in the goroutine.
setsStatus(a) ==
    /\ running /\ attempt[a] = "start"
    /\ attempt' = [attempt EXCEPT ![a] = "dial"]
    /\ statusChecker' = a
    /\ UNCHANGED <<lndConn, mac, grpcConn, disconnect, calls, process>>

\* The arguments are wrong, a key cannot be parsed, the callback fails or the
\* connection does.
connectExits(a) ==
    /\ running /\ attempt[a] \in {"none", "start", "dial"}
    /\ (orderly /\ attempt[a] = "none") => idle /\ lndConn = 0
    /\ exit

handshakes(a) == attempt[a] \in {"dial", "auth"} \/ grpcConn[a] = "open"

\* Also for a key that the page has given. An error of the callback fails the
\* handshake, and gRPC tries again.
onRemoteStatic(a) ==
    /\ running /\ handshakes(a)
    /\ callJsCallback("OnRemoteKeyReceive")
    /\ UNCHANGED <<client, attempts, disconnect, calls>>

\* The macaroon is kept even if the callback then fails. Auth data that is no
\* macaroon fails the handshake and changes nothing.
onAuthData(a) ==
    /\ running /\ handshakes(a)
    /\ mac' = TRUE
    /\ attempt' = [attempt EXCEPT ![a] = IF @ = "dial" THEN "auth" ELSE @]
    /\ callJsCallback("OnAuthData")
    /\ UNCHANGED <<lndConn, statusChecker, grpcConn, disconnect, calls>>

\* DialContext, with WithBlock, returns after the handshake.
lndConnect(a) ==
    /\ running /\ attempt[a] = "auth"
    /\ grpcConn' = [grpcConn EXCEPT ![a] = "open"]
    /\ lndConn' = a
    /\ attempt' = [attempt EXCEPT ![a] = "done"]
    /\ UNCHANGED <<statusChecker, mac, disconnect, calls, process>>

-----------------------------------------------------------------------------
(***************************************************************************)
(* Disconnect                                                              *)
(***************************************************************************)

\* Without a connection nothing happens.
Disconnect(d) ==
    /\ running /\ disconnect[d] = "none"
    /\ orderly => idle
    /\ disconnect' = [disconnect EXCEPT ![d] =
                          IF lndConn # 0 THEN "start" ELSE "ignored"]
    /\ UNCHANGED <<client, attempts, calls, process>>

\* Slip: the connection is forgotten before it is closed.
disconnectForgets(d) ==
    /\ running /\ disconnect[d] = "start"
    /\ lndConn' = 0 /\ process' = "nil connection"
    /\ UNCHANGED <<statusChecker, mac, attempts, disconnect, calls>>

\* The goroutine reads the connection again. Close on nil is a panic.
disconnectCloses(d) ==
    /\ running /\ disconnect[d] = "start"
    /\ IF lndConn = 0
       THEN process' = "nil connection" /\ UNCHANGED <<grpcConn, disconnect>>
       ELSE /\ grpcConn' = [grpcConn EXCEPT ![lndConn] = "closed"]
            /\ disconnect' = [disconnect EXCEPT ![d] = "closed"]
            /\ UNCHANGED process
    /\ UNCHANGED <<client, attempt, calls>>

\* Close has returned; the callback of the page is called.
disconnectEnds(d) ==
    /\ running /\ disconnect[d] = "closed"
    /\ lndConn' = 0
    /\ disconnect' = [disconnect EXCEPT ![d] = "done"]
    /\ UNCHANGED <<statusChecker, mac, attempts, calls, process>>

\* main calls Disconnect and returns before its goroutine has run.
shutdown == running /\ (orderly => idle) /\ exit

-----------------------------------------------------------------------------
(***************************************************************************)
(* InvokeRPC                                                               *)
(***************************************************************************)

InvokeRPC(r) ==
    /\ running /\ call[r] = "none" /\ lndConn # 0
    /\ orderly => idle
    /\ call' = [call EXCEPT ![r] = "start"]
    /\ UNCHANGED <<client, attempts, disconnect, callConn, process>>

method(r) ==
    /\ running /\ call[r] = "start"
    /\ call' = [call EXCEPT ![r] = "called"]
    /\ callConn' = [callConn EXCEPT ![r] = lndConn]
    /\ UNCHANGED <<client, attempts, disconnect, process>>

goroutine ==
    \/ \E d \in Disconnects : disconnectCloses(d) \/ disconnectEnds(d)
    \/ \E r \in Calls : method(r)

Next ==
    \/ \E a \in Attempts :
           \/ \E local, remote \in BOOLEAN : ConnectServer(a, local, remote)
           \/ setsStatus(a) \/ connectExits(a)
           \/ onRemoteStatic(a) \/ onAuthData(a) \/ lndConnect(a)
    \/ \E d \in Disconnects : Disconnect(d)
    \/ \E r \in Calls : InvokeRPC(r)
    \/ goroutine \/ shutdown

Spec == Init /\ [][Next /\ UNCHANGED orderly]_vars

\* Goroutines that can run do.
FairSpec == Spec /\ WF_vars(goroutine /\ UNCHANGED orderly)

-----------------------------------------------------------------------------
(***************************************************************************)
(* Properties.                                                             *)
(***************************************************************************)

\* Types.
TypeOK ==
    /\ lndConn \in Attempts \cup {0} /\ statusChecker \in Attempts \cup {0}
    /\ mac \in BOOLEAN
    /\ attempt \in [Attempts -> {"none", "start", "dial", "auth", "done"}]
    /\ grpcConn \in [Attempts -> {"none", "open", "closed"}]
    /\ disconnect \in [Disconnects -> {"none", "start", "closed", "done",
                                       "ignored"}]
    /\ call \in [Calls -> {"none", "start", "called"}]
    /\ callConn \in [Calls -> Attempts \cup {0}]
    /\ process \in {"running", "exited", "no callback", "nil connection"}

\* A client that is connected has a status to show and the macaroon that
\* HasPermissions and its like read: they "should only be called once the
\* connection is complete".
ConnectedIsReady == lndConn # 0 => statusChecker # 0 /\ mac

\* validateArgs: "checks that the correct keys and callback functions have
\* been provided", so none is called that is not configured.
CallbacksProvided == process # "no callback"

\* Disconnect: when the goroutines have ended there is a connection in use
\* exactly if one is open, for an orderly page.
NoOrphan ==
    (orderly /\ running /\ idle) =>
        \A a \in Attempts : (grpcConn[a] = "open") = (lndConn = a)

\* InvokeRPC makes no call without a connection, for an orderly page.
CallsHaveConn == orderly => \A r \in Calls : call[r] = "called" => callConn[r] # 0

\* Disconnect: the callback "will be invoked once the client has
\* disconnected", unless an orderly page shuts the client down.
DisconnectAnswers ==
    \A d \in Disconnects :
        (orderly /\ disconnect[d] = "start") ~> (disconnect[d] = "done" \/ process = "exited")

\* The WASM client: a connection that is shown is usable; an orderly page loses
\* none, makes no call without one and has provided what is called back.
WasmInv ==
    /\ TypeOK /\ ConnectedIsReady /\ NoOrphan /\ CallsHaveConn
    /\ CallbacksProvided

=============================================================================
