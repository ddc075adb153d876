------------------------------ MODULE MCClients ------------------------------
(***************************************************************************)
(* The client libraries for TLC: the WASM client, the mobile client, and   *)
(* what either of them answers about its macaroon. They share no state; a  *)
(* behaviour is one of "wasm", "mobile" or "macaroon".                     *)
(***************************************************************************)
EXTENDS Macaroon

CONSTANTS Clients, Attempts, Disconnects, Calls, Configured

\* 0 stands for no client and no attempt; there is an RPC to ask about.
ASSUME ClientsAssumption ==
    Clients \subseteq Nat \ {0} /\ Attempts \subseteq Nat \ {0} /\ URI # {}

VARIABLES
    part,
    orderly, lndConn, statusChecker, hasMac, attempt, grpcConn, call, callConn,
    disconnect, process,                    \* of WasmClient alone
    m, callbacks, mc, callClient, missed    \* of MobileClient alone

W == INSTANCE WasmClient WITH mac <- hasMac
M == INSTANCE MobileClient WITH mac <- hasMac

shared == <<orderly, lndConn, statusChecker, hasMac, attempt, grpcConn, call,
            callConn>>
wasmOnly == <<disconnect, process>>
mobileOnly == <<m, callbacks, mc, callClient, missed>>
mcVars == <<vars, part, shared, wasmOnly, mobileOnly>>

\* The variables of a part that does not run have a value that is never read.
MacaroonIdle ==
    /\ wasm = FALSE /\ mac = "none" /\ macOps = <<>> /\ expiry = 0
    /\ uri = CHOOSE u \in URI : TRUE
    /\ requiredOps = <<>> /\ knownURI = FALSE /\ pc = "called"
    /\ macOpsMap = [e \in Entity |-> {}] /\ i = 1 /\ j = 1
    /\ answer = FALSE /\ told = 0

WasmIdle == disconnect = [d \in Disconnects |-> "none"] /\ process = "running"
MobileIdle == m = 0 /\ callbacks = 0 /\ mc = 0 /\ callClient = 0 /\ missed = 0
SharedIdle ==
    /\ orderly = 0 /\ lndConn = 0 /\ statusChecker = 0 /\ hasMac = 0
    /\ attempt = 0 /\ grpcConn = 0 /\ call = 0 /\ callConn = 0

MCInit ==
    \/ part = "wasm" /\ W!Init /\ MacaroonIdle /\ MobileIdle
    \/ part = "mobile" /\ M!Init /\ MacaroonIdle /\ WasmIdle
    \/ part = "macaroon" /\ Init /\ SharedIdle /\ WasmIdle /\ MobileIdle

Wasm(action) ==
    part = "wasm" /\ action /\ UNCHANGED <<part, orderly, vars, mobileOnly>>

MCNext ==
    \/ Wasm(W!Next)
    \/ /\ part = "mobile" /\ M!Next
       /\ UNCHANGED <<part, orderly, vars, wasmOnly>>
    \/ /\ part = "macaroon" /\ Next
       /\ UNCHANGED <<part, shared, wasmOnly, mobileOnly>>

MCSpec == MCInit /\ [][MCNext]_mcVars /\ WF_mcVars(Wasm(W!goroutine))

\* Disconnect of the WASM client: its callback is invoked in the end.
DisconnectAnswers ==
    \A d \in Disconnects :
        (part = "wasm" /\ orderly /\ disconnect[d] = "start") ~>
            (disconnect[d] = "done" \/ process = "exited")

\* The clients: a connection that is shown is usable, an orderly page or app
\* never loses one nor calls without one, and GetExpiry tells the expiry.
ClientsInv ==
    /\ part = "wasm" => W!WasmInv
    /\ part = "mobile" => M!MobileInv
    /\ TypeOK /\ ExpiryTold

=============================================================================
