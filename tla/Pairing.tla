------------------------------- MODULE Pairing -------------------------------
(***************************************************************************)
(* How client and server move from the passphrase to each other's static   *)
(* key: ConnData (mailbox/conndata.go) decides from the remote key which   *)
(* stream a party uses and which handshake it does, and DoHandshake        *)
(* (mailbox/noise.go) sets the remote key at its end. The two parties do   *)
(* so at different times, connections break between any two acts, a        *)
(* callback may fail and a party may restart with the key it has saved.    *)
(* What an act contains is the matter of NoiseHandshake.                   *)
(***************************************************************************)
EXTENDS Naturals

CONSTANTS
    Version,    \* the negotiated handshake version
    MaxFaults   \* connections broken, callbacks failed, restarts

Party == {"client", "server"}
Other(i) == IF i = "client" THEN "server" ELSE "client"

VARIABLES
    remoteKey,  \* whether ConnData has the remote key
    saved,      \* whether onRemoteStatic was told of it
    authData,   \* whether ConnData of the client has the auth data
    sid,        \* the stream of the last Dial or Accept
    state,      \* where a party is
    pattern,    \* the pattern of its current handshake
    act,        \* the next act of it
    inbox,      \* the act that has arrived and was not read yet
    faults

vars == <<remoteKey, saved, authData, sid, state, pattern, act, inbox, faults>>
data == <<remoteKey, saved, authData>>

HandshakeVersion2 == 2

\* Slip: the streams of client and server differ once they know each other.
SIDByRole(i) == IF remoteKey[i] /\ i = "client" THEN "ecdh" ELSE "passphrase"

\* The stream and the pattern come from the same key.
SID(i) == IF remoteKey[i] THEN "ecdh" ELSE "passphrase"

HandshakePattern(i) == IF remoteKey[i] THEN "KK" ELSE "XX"

Acts(p) == IF p = "XX" THEN 3 ELSE 2

none == [pattern |-> "XX", act |-> 0]

Init ==
    /\ remoteKey = [i \in Party |-> FALSE]
    /\ saved = [i \in Party |-> FALSE]
    /\ authData = FALSE
    /\ sid = [i \in Party |-> "passphrase"]
    /\ state = [i \in Party |-> "idle"]
    /\ pattern = [i \in Party |-> "XX"]
    /\ act = [i \in Party |-> 1]
    /\ inbox = [i \in Party |-> none]
    /\ faults = 0

-----------------------------------------------------------------------------
(***************************************************************************)
(* Connecting.                                                             *)
(***************************************************************************)

\* Client.Dial and Server.Accept, when the connection before is done.
Dial(i) ==
    /\ state[i] = "idle"
    /\ sid' = [sid EXCEPT ![i] = SID(i)]
    /\ state' = [state EXCEPT ![i] = "wait"]
    /\ UNCHANGED <<data, pattern, act, inbox, faults>>

\* The parties find each other on a stream and both start the handshake.
Handshake ==
    /\ \A i \in Party : state[i] = "wait"
    /\ sid["client"] = sid["server"]
    /\ state' = [i \in Party |-> "act"]
    /\ pattern' = [i \in Party |-> HandshakePattern(i)]
    /\ act' = [i \in Party |-> 1]
    /\ inbox' = [i \in Party |-> none]
    /\ UNCHANGED <<data, sid, faults>>

closed(i) ==
    /\ state' = [state EXCEPT ![i] = "idle"]
    /\ inbox' = [inbox EXCEPT ![i] = none]

\* Still on the connection that the two have in common.
connected(i) == state[i] \in {"act", "finish", "setRemote", "setAuth", "up"}

\* The peer has gone and its last act, if any, was read.
peerGone(i) ==
    /\ state[i] \in {"act", "up"} /\ ~connected(Other(i)) /\ inbox[i] = none
    /\ closed(i)
    /\ UNCHANGED <<data, sid, pattern, act, faults>>

breaks(i) ==
    /\ state[i] \in {"act", "up"} /\ faults < MaxFaults
    /\ faults' = faults + 1 /\ closed(i)
    /\ UNCHANGED <<data, sid, pattern, act>>

\* The program starts again with the key it was told to save.
restarts(i) ==
    /\ faults < MaxFaults /\ faults' = faults + 1
    /\ remoteKey' = [remoteKey EXCEPT ![i] = saved[i]]
    /\ authData' = IF i = "client" THEN FALSE ELSE authData
    /\ closed(i)
    /\ UNCHANGED <<saved, sid, pattern, act>>

-----------------------------------------------------------------------------
(***************************************************************************)
(* DoHandshake                                                             *)
(***************************************************************************)

\* Acts alternate, and the client is the initiator.
writes(i) == (act[i] % 2 = 1) = (i = "client")

\* Where a party goes after its act.
next(i) ==
    /\ act' = [act EXCEPT ![i] = @ + 1]
    /\ state' = [state EXCEPT ![i] =
                     IF act[i] < Acts(pattern[i]) THEN "act" ELSE "finish"]

writeMsgPattern(i) ==
    /\ state[i] = "act" /\ writes(i)
    /\ inbox' = IF state[Other(i)] = "act"
                THEN [inbox EXCEPT ![Other(i)] =
                          [pattern |-> pattern[i], act |-> act[i]]]
                ELSE inbox
    /\ next(i)
    /\ UNCHANGED <<data, sid, pattern, faults>>

\* An act of another pattern does not open.
readMsgPattern(i) ==
    /\ state[i] = "act" /\ ~writes(i) /\ inbox[i] # none
    /\ IF inbox[i] = [pattern |-> pattern[i], act |-> act[i]]
       THEN next(i) /\ inbox' = [inbox EXCEPT ![i] = none]
       ELSE closed(i) /\ UNCHANGED act
    /\ UNCHANGED <<data, sid, pattern, faults>>

afterRemote(i) == IF i = "client" THEN "setAuth" ELSE "up"

\* After split, only a version 2 handshake goes on with SetRemote.
skipsRemote(i) ==
    /\ state[i] = "finish" /\ Version < HandshakeVersion2
    /\ state' = [state EXCEPT ![i] = afterRemote(i)]
    /\ UNCHANGED <<data, sid, pattern, act, inbox, faults>>

\* Slip: the key is stored before the callback, whose error then comes late.
onRemoteStaticLate(i) ==
    /\ state[i] = "finish" /\ Version >= HandshakeVersion2
    /\ remoteKey' = [remoteKey EXCEPT ![i] = TRUE]
    /\ \/ /\ saved' = [saved EXCEPT ![i] = TRUE]
          /\ state' = [state EXCEPT ![i] = "setRemote"]
          /\ UNCHANGED <<inbox, faults>>
       \/ /\ faults < MaxFaults /\ faults' = faults + 1
          /\ closed(i) /\ UNCHANGED saved
    /\ UNCHANGED <<authData, sid, pattern, act>>

\* The callback of SetRemote, without a lock.
onRemoteStatic(i) ==
    /\ state[i] = "finish" /\ Version >= HandshakeVersion2
    /\ \/ /\ saved' = [saved EXCEPT ![i] = TRUE]
          /\ state' = [state EXCEPT ![i] = "setRemote"]
          /\ UNCHANGED <<inbox, faults>>
       \/ /\ faults < MaxFaults /\ faults' = faults + 1
          /\ closed(i) /\ UNCHANGED saved
    /\ UNCHANGED <<remoteKey, authData, sid, pattern, act>>

\* Slip: the initiator does not keep the key.
SetRemoteServerOnly(i) ==
    /\ state[i] = "setRemote"
    /\ remoteKey' = [remoteKey EXCEPT ![i] = i = "server"]
    /\ state' = [state EXCEPT ![i] = afterRemote(i)]
    /\ UNCHANGED <<saved, authData, sid, pattern, act, inbox, faults>>

SetRemote(i) ==
    /\ state[i] = "setRemote"
    /\ remoteKey' = [remoteKey EXCEPT ![i] = TRUE]
    /\ state' = [state EXCEPT ![i] = afterRemote(i)]
    /\ UNCHANGED <<saved, authData, sid, pattern, act, inbox, faults>>

\* The callback of SetAuthData and the field.
SetAuthData ==
    /\ state["client"] = "setAuth"
    /\ \/ /\ authData' = TRUE
          /\ state' = [state EXCEPT !["client"] = "up"]
          /\ UNCHANGED <<inbox, faults>>
       \/ /\ faults < MaxFaults /\ faults' = faults + 1
          /\ closed("client") /\ UNCHANGED authData
    /\ UNCHANGED <<remoteKey, saved, sid, pattern, act>>

goesOn(i) ==
    \/ Dial(i) \/ peerGone(i) \/ writeMsgPattern(i) \/ readMsgPattern(i)
    \/ skipsRemote(i) \/ onRemoteStatic(i) \/ SetRemote(i)

Next ==
    \/ Handshake \/ SetAuthData
    \/ \E i \in Party : goesOn(i) \/ breaks(i) \/ restarts(i)

Spec == Init /\ [][Next]_vars

\* Parties that can do something do it: gRPC dials and accepts again, the
\* mailbox brings two parties on the same stream together.
FairSpec ==
    /\ Spec /\ WF_vars(Handshake) /\ WF_vars(SetAuthData)
    /\ \A i \in Party : WF_vars(goesOn(i))

-----------------------------------------------------------------------------
(***************************************************************************)
(* Properties.                                                             *)
(***************************************************************************)

\* Types.
TypeOK ==
    /\ remoteKey \in [Party -> BOOLEAN] /\ saved \in [Party -> BOOLEAN]
    /\ authData \in BOOLEAN
    /\ sid \in [Party -> {"ecdh", "passphrase"}]
    /\ state \in [Party -> {"idle", "wait", "act", "finish", "setRemote",
                            "setAuth", "up"}]
    /\ pattern \in [Party -> {"XX", "KK"}]
    /\ act \in [Party -> 1 .. 4]
    /\ inbox \in [Party -> [pattern : {"XX", "KK"}, act : 0 .. 3]]
    /\ faults \in 0 .. MaxFaults

\* SID and HandshakePattern: parties that meet on a stream do the same
\* handshake, whatever happened to their connections before.
SamePattern ==
    (\A i \in Party : connected(i)) => pattern["client"] = pattern["server"]

\* SetRemote: a key that decides about stream and pattern is a saved one, and
\* stays known across restarts.
KeyKept ==
    [][\A i \in Party : remoteKey[i] => remoteKey'[i] /\ saved[i]]_vars

\* DoHandshake: the client has the auth data of this run when it comes up.
UpWithAuth == state["client"] = "up" => authData

\* DoHandshake: when both are up on a connection either both or none of them
\* will use the static keys next time.
UpAlike ==
    (\A i \in Party : state[i] = "up") => remoteKey["client"] = remoteKey["server"]

idle == \A i \in Party : state[i] = "idle"

\* SID: parties that agree on whether they know each other connect again,
\* once nothing fails any more.
Reconnects ==
    (idle /\ faults = MaxFaults /\ remoteKey["client"] = remoteKey["server"])
        ~> \A i \in Party : state[i] = "up"

\* SID: "both the client and server will use the same HMAC key because we want
\* their stream IDs to be identical except for the last bit".
SameStream == idle => SID("client") = SID("server")

\* Pairing: parties that meet do the same handshake, a client that is up has
\* the auth data, and parties that are both up agree on how to meet next time.
PairingInv == TypeOK /\ SamePattern /\ UpWithAuth /\ UpAlike

=============================================================================
