----------------------------- MODULE MailboxProofs -----------------------------
(***************************************************************************)
(* Proofs about a mailbox: the pairing of the two parties, for any number  *)
(* of broken connections and restarts, and the Server with its             *)
(* connections, for any number of slots and of lost answers.               *)
(***************************************************************************)
EXTENDS MCMailbox, TLAPS

-----------------------------------------------------------------------------
(***************************************************************************)
(* Pairing. A party that waits does so on the stream of its key, and the   *)
(* key does not change before the handshake starts, so parties that meet   *)
(* have the same knowledge and do the same handshake. A key is known only  *)
(* if it was saved, so no restart takes it away.                           *)
(***************************************************************************)

PairingIInv ==
    /\ P!TypeOK /\ P!SamePattern /\ P!UpWithAuth
    /\ \A i \in P!Party :
          /\ state[i] = "wait" => streamID[i] = P!SID(i)
          /\ state[i] = "act" => act[i] <= P!Acts(pattern[i])
          /\ remoteKey[i] \/ state[i] = "setRemote" => saved[i]

\* Before version 2 no key is stored; from then on it is known at the end.
KeyByVersion ==
    \A i \in P!Party :
        IF part = "legacy" THEN ~saved[i]
        ELSE state[i] \in {"setAuth", "up"} => remoteKey[i]

\* The steps that do not depend on the version.
CommonStep ==
    \/ P!Handshake \/ P!SetAuthData
    \/ \E i \in P!Party : \/ P!Dial(i) \/ P!peerGone(i) \/ P!writeMsgPattern(i)
                          \/ P!readMsgPattern(i) \/ P!SetRemote(i)
                          \/ P!breaks(i) \/ P!restarts(i)

\* Before version 2 a handshake skips SetRemote.
LEMMA LegacySteps ==
    L!Next => CommonStep \/ \E i \in P!Party : L!skipsRemote(i)
<1> SUFFICES ASSUME L!Next PROVE CommonStep \/ \E i \in P!Party : L!skipsRemote(i)
    OBVIOUS
<1>0. L!Party = P!Party /\ \A i : L!Other(i) = P!Other(i)
    BY DEF L!Party, P!Party, L!Other, P!Other
<1>1. CASE L!Handshake
    BY <1>0, <1>1
       DEF CommonStep, L!Handshake, P!Handshake, L!data, P!data, L!none, P!none,
        L!HandshakePattern, P!HandshakePattern
<1>2. CASE L!SetAuthData
    BY <1>0, <1>2
       DEF CommonStep, L!SetAuthData, P!SetAuthData, L!closed, P!closed, L!none,
        P!none
<1>3. ASSUME NEW i \in P!Party, L!Dial(i) PROVE CommonStep
    BY <1>3, Zenon DEF CommonStep, L!Dial, P!Dial, L!data, P!data, L!SID, P!SID
<1>4. ASSUME NEW i \in P!Party, L!peerGone(i) PROVE CommonStep
    BY <1>0, <1>4, Zenon
       DEF CommonStep, L!peerGone, P!peerGone, L!data, P!data, L!closed, P!closed,
        L!none, P!none, L!connected, P!connected
<1>5. ASSUME NEW i \in P!Party, L!writeMsgPattern(i) PROVE CommonStep
    BY <1>0, <1>5, Zenon
       DEF CommonStep, L!writeMsgPattern, P!writeMsgPattern, L!data, P!data,
        L!writes, P!writes, L!next, P!next, L!Acts, P!Acts
<1>6. ASSUME NEW i \in P!Party, L!readMsgPattern(i) PROVE CommonStep
    BY <1>0, <1>6, Zenon
       DEF CommonStep, L!readMsgPattern, P!readMsgPattern, L!data, P!data,
        L!writes, P!writes, L!next, P!next, L!Acts, P!Acts, L!closed, P!closed, L!none, P!none
<1>7. ASSUME NEW i \in P!Party, L!SetRemote(i) PROVE CommonStep
    BY <1>7, Zenon DEF CommonStep, L!SetRemote, P!SetRemote, L!afterRemote, P!afterRemote
<1>8. ASSUME NEW i \in P!Party, L!breaks(i) PROVE CommonStep
    BY <1>8, Zenon
       DEF CommonStep, L!breaks, P!breaks, L!data, P!data, L!closed, P!closed, L!none,
        P!none
<1>9. ASSUME NEW i \in P!Party, L!restarts(i) PROVE CommonStep
    BY <1>9, Zenon
       DEF CommonStep, L!restarts, P!restarts, L!closed, P!closed, L!none, P!none
<1>10. ASSUME NEW i \in P!Party PROVE ~L!onRemoteStatic(i)
    BY DEF L!onRemoteStatic, L!HandshakeVersion2
<1> QED
    BY <1>0, <1>1, <1>2, <1>3, <1>4, <1>5, <1>6, <1>7, <1>8, <1>9, <1>10
    DEF L!Next, L!goesOn

\* With version 2 it does not.
LEMMA PairingSteps ==
    P!Next => CommonStep \/ \E i \in P!Party : P!onRemoteStatic(i)
BY DEF P!Next, P!goesOn, P!skipsRemote, P!HandshakeVersion2, CommonStep

\* The parties find each other only on the same stream, with the same knowledge.
LEMMA HandshakeKeeps ==
    ASSUME PairingIInv, KeyByVersion, P!Handshake, part' = part
    PROVE  PairingIInv' /\ KeyByVersion'
<1> USE DEF P!Party
<1>1. /\ \A i \in P!Party : state[i] = "wait" /\ streamID[i] = P!SID(i)
      /\ streamID["client"] = streamID["server"]
      /\ remoteKey \in [P!Party -> BOOLEAN]
    BY DEF PairingIInv, P!Handshake, P!TypeOK
<1>2. remoteKey["client"] = remoteKey["server"]
    BY <1>1 DEF P!SID
<1>3. P!SamePattern'
    BY <1>2 DEF P!Handshake, P!SamePattern, P!HandshakePattern
<1>4. P!TypeOK' /\ P!UpWithAuth'
    BY DEF PairingIInv, P!Handshake, P!TypeOK, P!HandshakePattern, P!none, P!data,
        P!UpWithAuth
<1>5. /\ \A i \in P!Party : state'[i] = "act" /\ act'[i] = 1
      /\ remoteKey' = remoteKey /\ saved' = saved
    BY DEF P!Handshake, P!data
<1>6. \A i \in P!Party : P!Acts(pattern'[i]) \in {2, 3}
    BY DEF P!Acts
<1>7. /\ \A i \in P!Party :
          /\ state'[i] # "wait" /\ act'[i] <= P!Acts(pattern'[i])
          /\ (remoteKey'[i] \/ state'[i] = "setRemote" => saved'[i])
    BY <1>5, <1>6 DEF PairingIInv
<1>8. KeyByVersion'
    BY <1>5 DEF KeyByVersion
<1> QED
    BY <1>3, <1>4, <1>7, <1>8 DEF PairingIInv

\* A party that starts again knows at least as much as before, and is idle.
LEMMA ClosedKeeps ==
    ASSUME PairingIInv, KeyByVersion, part' = part, NEW i \in P!Party, P!closed(i),
           remoteKey' \in {remoteKey, [remoteKey EXCEPT ![i] = saved[i]]},
           authData' \in {authData, FALSE}, i = "client" \/ authData' = authData,
           broken' \in 0 .. MaxBreaks,
           UNCHANGED <<saved, streamID, pattern, act>>
    PROVE  PairingIInv' /\ KeyByVersion'
<1> USE DEF P!Party
<1>1. /\ remoteKey \in [P!Party -> BOOLEAN] /\ saved \in [P!Party -> BOOLEAN]
      /\ state \in [P!Party -> {"idle", "wait", "act", "finish", "setRemote",
                                "setAuth", "up"}]
      /\ inbox \in [P!Party -> [pattern : {"XX", "KK"}, act : 0 .. 3]]
      /\ authData \in BOOLEAN
    BY DEF PairingIInv, P!TypeOK
<1>2. /\ remoteKey' \in [P!Party -> BOOLEAN] /\ authData' \in BOOLEAN
      /\ \A j \in P!Party : remoteKey[j] => saved[j]
    BY <1>1, ZenonT(40) DEF PairingIInv
<1>3. /\ state' = [state EXCEPT ![i] = "idle"]
      /\ inbox' \in [P!Party -> [pattern : {"XX", "KK"}, act : 0 .. 3]]
    BY <1>1 DEF P!closed, P!none
<1>4. /\ \A j \in P!Party : state'[j] = "idle" \/ (j # i /\ state'[j] = state[j])
      /\ \A j \in P!Party : j # i => remoteKey'[j] = remoteKey[j]
      /\ \A j \in P!Party : remoteKey[j] => remoteKey'[j]
      /\ \A j \in P!Party : remoteKey'[j] => saved[j]
    BY <1>1, <1>2, <1>3
<1>5. P!TypeOK'
    BY <1>2, <1>3 DEF PairingIInv, P!TypeOK
<1>6. P!SamePattern' /\ P!UpWithAuth'
    BY <1>4 DEF PairingIInv, P!SamePattern, P!UpWithAuth, P!connected
<1>7. \A j \in P!Party :
          /\ state'[j] = "wait" => streamID'[j] = P!SID(j)'
          /\ state'[j] = "act" => act'[j] <= P!Acts(pattern'[j])
          /\ remoteKey'[j] \/ state'[j] = "setRemote" => saved'[j]
    BY <1>4 DEF PairingIInv, P!SID
<1>8. KeyByVersion'
    BY <1>4 DEF KeyByVersion
<1> QED
    BY <1>5, <1>6, <1>7, <1>8 DEF PairingIInv

\* A step of the handshake of party i: its key and what was saved stay as they are.
LEMMA ActKeeps ==
    ASSUME PairingIInv, KeyByVersion, part' = part, NEW i \in P!Party,
           state[i] = "act", P!next(i), UNCHANGED <<P!data, streamID, pattern, broken>>,
           inbox' \in [P!Party -> [pattern : {"XX", "KK"}, act : 0 .. 3]]
    PROVE  PairingIInv' /\ KeyByVersion'
<1> USE DEF P!Party
<1>1. /\ state \in [P!Party -> {"idle", "wait", "act", "finish", "setRemote",
                                "setAuth", "up"}]
      /\ act \in [P!Party -> 1 .. 4] /\ pattern \in [P!Party -> {"XX", "KK"}]
      /\ act[i] <= P!Acts(pattern[i]) /\ P!Acts(pattern[i]) \in {2, 3}
    BY DEF PairingIInv, P!TypeOK, P!Acts
<1>2. /\ remoteKey' = remoteKey /\ saved' = saved /\ authData' = authData
      /\ streamID' = streamID /\ pattern' = pattern /\ broken' = broken
    BY DEF P!data
<1>3. /\ act' = [act EXCEPT ![i] = @ + 1]
      /\ state' = [state EXCEPT ![i] = IF act[i] < P!Acts(pattern[i]) THEN "act"
                                       ELSE "finish"]
    BY DEF P!next
<1>4. act[i] \in 1 .. 3 /\ act' \in [P!Party -> 1 .. 4]
    BY <1>1, <1>3
<1>5. /\ \A j \in P!Party : j # i => state'[j] = state[j] /\ act'[j] = act[j]
      /\ state'[i] \in {"act", "finish"}
      /\ state'[i] = "act" => act'[i] <= P!Acts(pattern[i])
    BY <1>1, <1>3, <1>4
<1>6. P!TypeOK'
    BY <1>1, <1>2, <1>3, <1>4 DEF PairingIInv, P!TypeOK
<1>7. P!SamePattern' /\ P!UpWithAuth'
    BY <1>2, <1>5 DEF PairingIInv, P!SamePattern, P!UpWithAuth, P!connected
<1>8. \A j \in P!Party :
          /\ state'[j] = "wait" => streamID'[j] = P!SID(j)'
          /\ state'[j] = "act" => act'[j] <= P!Acts(pattern'[j])
          /\ remoteKey'[j] \/ state'[j] = "setRemote" => saved'[j]
    BY <1>2, <1>5 DEF PairingIInv, P!SID
<1>9. KeyByVersion'
    BY <1>2, <1>5 DEF KeyByVersion
<1> QED
    BY <1>6, <1>7, <1>8, <1>9 DEF PairingIInv

\* Party i goes on after its handshake; it only gets to know more.
LEMMA FinishKeeps ==
    ASSUME PairingIInv, KeyByVersion, part' = part, NEW i \in P!Party,
           P!connected(i), state[i] # "act",
           NEW to \in {"setRemote", "setAuth", "up"},
           state' = [state EXCEPT ![i] = to],
           remoteKey' \in {remoteKey, [remoteKey EXCEPT ![i] = TRUE]},
           saved' \in {saved, [saved EXCEPT ![i] = TRUE]},
           remoteKey'[i] \/ to = "setRemote" => saved'[i],
           IF part = "legacy" THEN saved' = saved
           ELSE to \in {"setAuth", "up"} => remoteKey'[i],
           authData' \in {authData, TRUE}, i = "client" /\ to = "up" => authData',
           UNCHANGED <<streamID, pattern, act, inbox, broken>>
    PROVE  PairingIInv' /\ KeyByVersion'
<1> USE DEF P!Party
<1>1. /\ remoteKey \in [P!Party -> BOOLEAN] /\ saved \in [P!Party -> BOOLEAN]
      /\ state \in [P!Party -> {"idle", "wait", "act", "finish", "setRemote",
                                "setAuth", "up"}]
      /\ authData \in BOOLEAN
    BY DEF PairingIInv, P!TypeOK
<1>2. /\ remoteKey' \in [P!Party -> BOOLEAN] /\ saved' \in [P!Party -> BOOLEAN]
      /\ state' \in [P!Party -> {"idle", "wait", "act", "finish", "setRemote",
                                 "setAuth", "up"}]
      /\ authData' \in BOOLEAN /\ (authData => authData')
    BY <1>1, Zenon
<1>3. /\ state'[i] = to
      /\ \A j \in P!Party : j # i => /\ state'[j] = state[j] /\ saved'[j] = saved[j]
                                     /\ remoteKey'[j] = remoteKey[j]
    BY <1>1
<1>4. P!TypeOK'
    BY <1>2 DEF PairingIInv, P!TypeOK
<1>5. P!SamePattern' /\ P!UpWithAuth'
    BY <1>2, <1>3 DEF PairingIInv, P!SamePattern, P!UpWithAuth, P!connected
<1>6. \A j \in P!Party :
          /\ state'[j] = "wait" => streamID'[j] = P!SID(j)'
          /\ state'[j] = "act" => act'[j] <= P!Acts(pattern'[j])
          /\ remoteKey'[j] \/ state'[j] = "setRemote" => saved'[j]
    BY <1>3 DEF PairingIInv, P!SID
<1>7. KeyByVersion'
    BY <1>3 DEF KeyByVersion
<1> QED
    BY <1>4, <1>5, <1>6, <1>7 DEF PairingIInv

\* Dial and Accept take the stream of the key.
LEMMA DialKeeps ==
    ASSUME PairingIInv, KeyByVersion, part' = part, NEW i \in P!Party, P!Dial(i)
    PROVE  PairingIInv' /\ KeyByVersion'
<1> USE DEF P!Party
<1>1. /\ state \in [P!Party -> {"idle", "wait", "act", "finish", "setRemote",
                                "setAuth", "up"}]
      /\ streamID \in [P!Party -> {"ecdh", "passphrase"}]
      /\ P!SID(i) \in {"ecdh", "passphrase"}
    BY DEF PairingIInv, P!TypeOK, P!SID
<1>2. /\ remoteKey' = remoteKey /\ saved' = saved /\ authData' = authData
      /\ pattern' = pattern /\ act' = act /\ inbox' = inbox /\ broken' = broken
      /\ streamID' = [streamID EXCEPT ![i] = P!SID(i)]
      /\ state' = [state EXCEPT ![i] = "wait"]
    BY DEF P!Dial, P!data
<1>3. /\ state'[i] = "wait" /\ streamID'[i] = P!SID(i)
      /\ \A j \in P!Party : j # i => state'[j] = state[j] /\ streamID'[j] = streamID[j]
      /\ \A j \in P!Party : P!SID(j)' = P!SID(j)
    BY <1>1, <1>2 DEF P!SID
<1>4. P!TypeOK'
    BY <1>1, <1>2 DEF PairingIInv, P!TypeOK
<1>5. P!SamePattern' /\ P!UpWithAuth'
    BY <1>2, <1>3 DEF PairingIInv, P!SamePattern, P!UpWithAuth, P!connected
<1>6. \A j \in P!Party :
          /\ state'[j] = "wait" => streamID'[j] = P!SID(j)'
          /\ state'[j] = "act" => act'[j] <= P!Acts(pattern'[j])
          /\ remoteKey'[j] \/ state'[j] = "setRemote" => saved'[j]
    BY <1>2, <1>3 DEF PairingIInv
<1>7. KeyByVersion'
    BY <1>2, <1>3 DEF KeyByVersion
<1> QED
    BY <1>4, <1>5, <1>6, <1>7 DEF PairingIInv

\* The end of DoHandshake, with and without SetRemote.
LEMMA EndKeeps ==
    ASSUME PairingIInv, KeyByVersion, part' = part, NEW i \in P!Party,
           \/ P!SetRemote(i) \/ P!SetAuthData
           \/ part # "legacy" /\ P!onRemoteStatic(i)
           \/ part = "legacy" /\ L!skipsRemote(i)
    PROVE  PairingIInv' /\ KeyByVersion'
<1> USE DEF P!Party
<1>0. /\ remoteKey \in [P!Party -> BOOLEAN] /\ saved \in [P!Party -> BOOLEAN]
      /\ authData \in BOOLEAN /\ broken \in 0 .. MaxBreaks
      /\ \A j \in P!Party : remoteKey[j] \/ state[j] = "setRemote" => saved[j]
    BY DEF PairingIInv, P!TypeOK
<1>1. CASE P!SetRemote(i)
  <2>1. /\ state[i] = "setRemote" /\ remoteKey' = [remoteKey EXCEPT ![i] = TRUE]
        /\ state' = [state EXCEPT ![i] = P!afterRemote(i)]
        /\ UNCHANGED <<saved, authData, streamID, pattern, act, inbox, broken>>
      BY <1>1 DEF P!SetRemote
  <2>2. /\ P!afterRemote(i) \in {"setAuth", "up"} /\ P!connected(i)
        /\ ~(i = "client" /\ P!afterRemote(i) = "up")
        /\ remoteKey'[i] /\ saved'[i] /\ saved' = saved
      BY <1>0, <2>1 DEF P!afterRemote, P!connected
  <2> QED
      BY <2>1, <2>2, FinishKeeps, Zenon
<1>2. CASE P!SetAuthData
  <2>1. /\ state["client"] = "setAuth" /\ P!connected("client")
        /\ UNCHANGED <<remoteKey, saved, streamID, pattern, act>>
      BY <1>2 DEF P!SetAuthData, P!connected
  <2>2. CASE authData' = TRUE /\ state' = [state EXCEPT !["client"] = "up"]
             /\ UNCHANGED <<inbox, broken>>
    <3>1. part # "legacy" => remoteKey'["client"]
        BY <2>1 DEF KeyByVersion
    <3>2. remoteKey'["client"] => saved'["client"]
        BY <1>0, <2>1
    <3> QED
        BY <2>1, <2>2, <3>1, <3>2, FinishKeeps
  <2>3. CASE broken < MaxBreaks /\ broken' = broken + 1 /\ P!closed("client")
             /\ UNCHANGED authData
    <3>1. broken' \in 0 .. MaxBreaks
        BY <1>0, <2>3, MailboxAssumption
    <3> QED
        BY <2>1, <2>3, <3>1, ClosedKeeps
  <2> QED
      BY <1>2, <2>2, <2>3, Zenon DEF P!SetAuthData
<1>3. CASE part # "legacy" /\ P!onRemoteStatic(i)
  <2>1. /\ state[i] = "finish" /\ P!connected(i)
        /\ UNCHANGED <<remoteKey, authData, streamID, pattern, act>>
      BY <1>3 DEF P!onRemoteStatic, P!connected
  <2>2. CASE saved' = [saved EXCEPT ![i] = TRUE] /\ state' = [state EXCEPT ![i] = "setRemote"]
             /\ UNCHANGED <<inbox, broken>>
    <3>1. saved'[i]
        BY <1>0, <2>2
    <3> QED
        BY <1>3, <2>1, <2>2, <3>1, FinishKeeps, Zenon
  <2>3. CASE broken < MaxBreaks /\ broken' = broken + 1 /\ P!closed(i) /\ UNCHANGED saved
    <3>1. broken' \in 0 .. MaxBreaks
        BY <1>0, <2>3, MailboxAssumption
    <3> QED
        BY <2>1, <2>3, <3>1, ClosedKeeps
  <2> QED
      BY <1>3, <2>2, <2>3 DEF P!onRemoteStatic
<1>4. CASE part = "legacy" /\ L!skipsRemote(i)
  <2>1. /\ state[i] = "finish" /\ P!connected(i)
        /\ state' = [state EXCEPT ![i] = L!afterRemote(i)]
        /\ UNCHANGED <<remoteKey, saved, authData, streamID, pattern, act, inbox, broken>>
      BY <1>4 DEF L!skipsRemote, P!connected, L!data
  <2>2. /\ L!afterRemote(i) \in {"setAuth", "up"}
        /\ ~(i = "client" /\ L!afterRemote(i) = "up")
        /\ (remoteKey'[i] => saved'[i])
      BY <1>0, <2>1 DEF L!afterRemote
  <2> QED
      BY <1>4, <2>1, <2>2, FinishKeeps, Zenon
<1> QED
    BY <1>1, <1>2, <1>3, <1>4

\* Every step of the two parties keeps the invariant.
LEMMA CommonKeeps ==
    ASSUME PairingIInv, KeyByVersion, part' = part, CommonStep
    PROVE  PairingIInv' /\ KeyByVersion'
<1>0. /\ broken \in 0 .. MaxBreaks
      /\ inbox \in [P!Party -> [pattern : {"XX", "KK"}, act : 0 .. 3]]
    BY DEF PairingIInv, P!TypeOK
<1>1. CASE P!Handshake
    BY <1>1, HandshakeKeeps
<1>2. CASE P!SetAuthData
  <2>1. "client" \in P!Party
      BY DEF P!Party
  <2> QED
      BY <1>2, <2>1, EndKeeps
<1>3. ASSUME NEW i \in P!Party, P!peerGone(i) PROVE PairingIInv' /\ KeyByVersion'
  <2>1. /\ P!closed(i) /\ broken' = broken
        /\ UNCHANGED <<remoteKey, saved, authData, streamID, pattern, act>>
      BY <1>3 DEF P!peerGone, P!data
  <2> QED
      BY <1>0, <2>1, ClosedKeeps
<1>4. ASSUME NEW i \in P!Party, P!breaks(i) PROVE PairingIInv' /\ KeyByVersion'
  <2>1. /\ P!closed(i) /\ broken < MaxBreaks /\ broken' = broken + 1
        /\ UNCHANGED <<remoteKey, saved, authData, streamID, pattern, act>>
      BY <1>4 DEF P!breaks, P!data
  <2>2. broken' \in 0 .. MaxBreaks
      BY <1>0, <2>1, MailboxAssumption
  <2> QED
      BY <2>1, <2>2, ClosedKeeps
<1>5. ASSUME NEW i \in P!Party, P!restarts(i) PROVE PairingIInv' /\ KeyByVersion'
  <2>1. /\ P!closed(i) /\ broken < MaxBreaks /\ broken' = broken + 1
        /\ remoteKey' = [remoteKey EXCEPT ![i] = saved[i]]
        /\ authData' = IF i = "client" THEN FALSE ELSE authData
        /\ UNCHANGED <<saved, streamID, pattern, act>>
      BY <1>5 DEF P!restarts
  <2>2. broken' \in 0 .. MaxBreaks
      BY <1>0, <2>1, MailboxAssumption
  <2> QED
      BY <2>1, <2>2, ClosedKeeps, Zenon
<1>6. ASSUME NEW i \in P!Party, P!writeMsgPattern(i) PROVE PairingIInv' /\ KeyByVersion'
  <2>1. /\ state[i] = "act" /\ P!next(i)
        /\ UNCHANGED <<P!data, streamID, pattern, broken>>
      BY <1>6 DEF P!writeMsgPattern
  <2>2. pattern[i] \in {"XX", "KK"} /\ act[i] \in 0 .. 3
      BY <2>1 DEF PairingIInv, P!TypeOK, P!Acts
  <2>3. inbox' \in [P!Party -> [pattern : {"XX", "KK"}, act : 0 .. 3]]
      BY <1>0, <1>6, <2>2 DEF P!writeMsgPattern, P!Other, P!Party
  <2> QED
      BY <2>1, <2>3, ActKeeps
<1>7. ASSUME NEW i \in P!Party, P!readMsgPattern(i) PROVE PairingIInv' /\ KeyByVersion'
  <2>1. /\ state[i] = "act" /\ UNCHANGED <<P!data, streamID, pattern, broken>>
        /\ UNCHANGED <<remoteKey, saved, authData>>
      BY <1>7 DEF P!readMsgPattern, P!data
  <2>2. CASE P!next(i) /\ inbox' = [inbox EXCEPT ![i] = P!none]
    <3>1. inbox' \in [P!Party -> [pattern : {"XX", "KK"}, act : 0 .. 3]]
        BY <1>0, <2>2 DEF P!none
    <3> QED
        BY <2>1, <2>2, <3>1, ActKeeps
  <2>3. CASE P!closed(i) /\ UNCHANGED act
      BY <1>0, <2>1, <2>3, ClosedKeeps
  <2> QED
      BY <1>7, <2>2, <2>3 DEF P!readMsgPattern
<1> QED
    BY <1>1, <1>2, <1>3, <1>4, <1>5, <1>6, <1>7, DialKeeps, EndKeeps DEF CommonStep

\* A step of a mailbox keeps the invariant of the pairing.
LEMMA PairingKeeps ==
    PairingIInv /\ KeyByVersion /\ [MCNext]_mcVars => PairingIInv' /\ KeyByVersion'
<1> SUFFICES ASSUME PairingIInv, KeyByVersion, [MCNext]_mcVars
             PROVE  PairingIInv' /\ KeyByVersion'
    OBVIOUS
<1>1. part' = part
    BY DEF MCNext, mcVars
<1>2. CASE UNCHANGED pairingVars
  <2>1. PairingIInv'
      BY <1>2 DEF pairingVars, PairingIInv, P!TypeOK, P!SamePattern, P!UpWithAuth,
          P!SID, P!connected
  <2>2. KeyByVersion'
      BY <1>1, <1>2 DEF pairingVars, KeyByVersion
  <2> QED
      BY <2>1, <2>2
<1>3. CASE part = "pairing" /\ P!Next
    BY <1>1, <1>3, PairingSteps, CommonKeeps, EndKeeps
<1>4. CASE part = "legacy" /\ L!Next
    BY <1>1, <1>4, LegacySteps, CommonKeeps, EndKeeps
<1> QED
    BY <1>2, <1>3, <1>4 DEF MCNext, mcVars

\* Neither party knows the other.
LEMMA PairingStarts == MCInit => PairingIInv /\ KeyByVersion
<1> SUFFICES ASSUME P!Init PROVE PairingIInv /\ KeyByVersion
    BY DEF MCInit
<1> USE DEF P!Party
<1>0. MaxBreaks \in Nat /\ P!none \in [pattern : {"XX", "KK"}, act : 0 .. 3]
    BY MailboxAssumption DEF P!none
<1>4. /\ broken \in 0 .. MaxBreaks
      /\ inbox \in [P!Party -> [pattern : {"XX", "KK"}, act : 0 .. 3]]
    BY <1>0 DEF P!Init
<1>5. /\ remoteKey \in [P!Party -> BOOLEAN] /\ saved \in [P!Party -> BOOLEAN]
      /\ authData \in BOOLEAN
    BY Zenon DEF P!Init
<1>6. /\ streamID \in [P!Party -> {"ecdh", "passphrase"}]
      /\ state \in [P!Party -> {"idle", "wait", "act", "finish", "setRemote",
                                "setAuth", "up"}]
      /\ pattern \in [P!Party -> {"XX", "KK"}] /\ act \in [P!Party -> 1 .. 4]
    BY DEF P!Init
<1>1. P!TypeOK
    BY <1>4, <1>5, <1>6 DEF P!TypeOK
<1>2. P!SamePattern /\ P!UpWithAuth /\ KeyByVersion
    BY DEF P!Init, P!SamePattern, P!UpWithAuth, KeyByVersion
<1>3. \A i \in P!Party :
          /\ state[i] = "wait" => streamID[i] = P!SID(i)
          /\ state[i] = "act" => act[i] <= P!Acts(pattern[i])
          /\ remoteKey[i] \/ state[i] = "setRemote" => saved[i]
    BY DEF P!Init
<1> QED
    BY <1>1, <1>2, <1>3 DEF PairingIInv

\* ConnData and DoHandshake: parties that meet do the same handshake, a client
\* that is up has the auth data, and parties that are both up know each other or
\* both do not, however often connections broke and parties restarted; before
\* version 2 they use one stream for ever.
THEOREM PairingCorrect == MCSpec => []PairingInv
<1>1. PairingIInv /\ KeyByVersion => PairingInv
  <2> SUFFICES ASSUME PairingIInv, KeyByVersion PROVE PairingInv
      OBVIOUS
  <2>1. remoteKey \in [P!Party -> BOOLEAN] /\ \A i \in P!Party : remoteKey[i] => saved[i]
      BY DEF PairingIInv, P!TypeOK
  <2>2. P!UpAlike
      BY <2>1 DEF P!UpAlike, P!Party, KeyByVersion
  <2>3. part = "legacy" => L!SameStream
      BY <2>1 DEF L!SameStream, L!SID, KeyByVersion, P!Party
  <2> QED
      BY <2>2, <2>3 DEF PairingInv, P!PairingInv, PairingIInv
<1> QED
    BY <1>1, PairingStarts, PairingKeeps, PTL DEF MCSpec

\* SetRemote: a key that decides about stream and pattern was saved before, and no
\* step, of either version, and no restart takes it away.
THEOREM KeyIsKept == MCSpec => KeyKept
<1>1. /\ PairingIInv /\ KeyByVersion /\ [MCNext]_mcVars
      => [\A i \in P!Party : remoteKey[i] => remoteKey'[i] /\ saved[i]]_(P!vars)
  <2> SUFFICES ASSUME PairingIInv, [MCNext]_mcVars, NEW i \in P!Party, remoteKey[i]
               PROVE  remoteKey'[i] /\ saved[i]
      BY DEF P!vars
  <2>1. saved[i] /\ remoteKey \in [P!Party -> BOOLEAN]
      BY DEF PairingIInv, P!TypeOK
  <2>2. ASSUME remoteKey' = remoteKey PROVE remoteKey'[i] /\ saved[i]
      BY <2>1, <2>2
  <2>3. CASE CommonStep
    <3>1. ASSUME NEW j \in P!Party, P!restarts(j) PROVE remoteKey'[i]
        BY <2>1, <3>1 DEF P!restarts
    <3>2. ASSUME NEW j \in P!Party, P!SetRemote(j) PROVE remoteKey'[i]
        BY <2>1, <3>2 DEF P!SetRemote
    <3> QED
        BY <2>1, <2>2, <2>3, <3>1, <3>2, Zenon
        DEF CommonStep, P!Handshake, P!SetAuthData, P!Dial, P!peerGone, P!writeMsgPattern,
            P!readMsgPattern, P!breaks, P!data
  <2>4. ASSUME NEW j \in P!Party, P!onRemoteStatic(j) \/ L!skipsRemote(j)
        PROVE  remoteKey' = remoteKey
      BY <2>4 DEF P!onRemoteStatic, L!skipsRemote, L!data
  <2>5. CASE UNCHANGED pairingVars
      BY <2>2, <2>5 DEF pairingVars
  <2> QED
      BY <2>2, <2>3, <2>4, <2>5, PairingSteps, LegacySteps DEF MCNext, mcVars
<1> QED
    BY <1>1, PairingStarts, PairingKeeps, PTL DEF MCSpec, KeyKept, P!KeyKept

-----------------------------------------------------------------------------
(***************************************************************************)
(* The Server. Only the connection that Accept creates or has returned     *)
(* last is ever alive. A connection that was returned has created both its *)
(* mailboxes, so Stop deletes them all.                                    *)
(***************************************************************************)

Conn == [sid : SIDs, phase : {"unused", "handshake", "up", "fin", "closed"},
         receive : StreamStates, send : StreamStates, receiveBoxCreated : BOOLEAN,
         sendBoxCreated : BOOLEAN, status : Statuses]

\* What is known of a connection by itself.
Sound(r) ==
    /\ r.phase \in {"unused", "closed"} => r.receive = "nil" /\ r.send = "nil"
    /\ r.status # "NotConnected" => r.receive = "ok"
    /\ r.receive # "nil" => r.receiveBoxCreated
    /\ r.send # "nil" => r.sendBoxCreated
    /\ r.phase \in {"up", "fin"} => r.receiveBoxCreated /\ r.sendBoxCreated

ServerTypes ==
    /\ boxes \subseteq Boxes /\ sid \in SIDs /\ conns \in [Conns -> Conn]
    /\ mailboxConn \in Conns \cup {0} /\ next \in Conns \cup {0}
    /\ stopped \in Conns \cup {0}
    /\ {hashmail, paired, calm} \subseteq BOOLEAN
    /\ accept \in {"call", "wait", "compare", "stop", "create", "handshake", "end"}
    /\ close \in {"open", "stop", "cancelConn", "cancel", "end"}

\* The connection that may be alive.
Current == IF accept = "handshake" THEN next ELSE mailboxConn

\* Where Accept is, and the connections it deals with.
Accepting ==
    /\ \A c \in Conns : alive(c) => c = Current
    /\ accept \in {"compare", "stop", "create"} => \A c \in Conns : ~alive(c)
    /\ next # 0 <=> accept = "handshake"
    /\ next # 0 => conns[next].phase = "handshake" /\ conns[next].sid = sid
    /\ accept \in {"wait", "stop"} => mailboxConn # 0
    /\ mailboxConn # 0 =>
          /\ conns[mailboxConn].phase \in {"up", "fin", "closed"}
          /\ conns[mailboxConn].receiveBoxCreated /\ conns[mailboxConn].sendBoxCreated
          /\ conns[mailboxConn].sid = IF accept = "stop" THEN "passphrase" ELSE sid
    /\ ~paired => sid = "passphrase"

\* Where Server.Close is; a calm one deletes the mailboxes for good.
Closing ==
    /\ close \in {"stop", "cancelConn"} => stopped # 0
    /\ calm => accept = "end" /\ stopped # 0 /\ stopped = mailboxConn
    /\ calm /\ close \in {"cancelConn", "cancel", "end"} =>
          /\ conns[stopped].phase = "closed"
          /\ \A b \in {"receive", "send"} : <<conns[stopped].sid, b>> \notin boxes

ServerIInv ==
    /\ ServerTypes /\ (\A c \in Conns : Sound(conns[c])) /\ Accepting /\ Closing

\* A connection that is alive changes in a way that keeps it sound.
LEMMA ConnKeeps ==
    ASSUME ServerIInv, NEW c \in Conns, alive(c), NEW r \in Conn, Sound(r), set(c, r),
           r.sid = conns[c].sid,
           \/ r.phase = conns[c].phase
           \/ conns[c].phase \in {"up", "fin"} /\ r.phase \in {"fin", "closed"},
           conns[c].receiveBoxCreated => r.receiveBoxCreated,
           conns[c].sendBoxCreated => r.sendBoxCreated,
           boxes' \subseteq Boxes, hashmail' \in BOOLEAN,
           UNCHANGED <<paired, serverVars>>
    PROVE  ServerIInv'
<1>0. /\ conns \in [Conns -> Conn] /\ conns' = [conns EXCEPT ![c] = r]
      /\ 0 \notin Conns
    BY DEF ServerIInv, ServerTypes, set, Conns
<1>1. /\ conns' \in [Conns -> Conn] /\ conns'[c] = r
      /\ \A d \in Conns : d # c => conns'[d] = conns[d]
    BY <1>0
<1>2. /\ mailboxConn' = mailboxConn /\ next' = next /\ sid' = sid /\ accept' = accept
      /\ close' = close /\ stopped' = stopped /\ calm' = calm /\ paired' = paired
    BY DEF serverVars
<1>3. ServerTypes'
    BY <1>1, <1>2 DEF ServerIInv, ServerTypes
<1>4. \A d \in Conns : Sound(conns'[d])
    BY <1>1 DEF ServerIInv
<1>5. Accepting'
  <2>1. /\ c = Current /\ accept \notin {"compare", "stop", "create"}
        /\ Current' = Current
      BY <1>2 DEF ServerIInv, Accepting, Current
  <2>2. \A d \in Conns : alive(d)' => alive(d)
      BY <1>1 DEF alive
  <2>3. next # 0 => next = c /\ r.phase = "handshake"
      BY <2>1 DEF ServerIInv, Accepting, Current
  <2>4. mailboxConn = c => r.phase \in {"up", "fin", "closed"}
      BY <1>0 DEF ServerIInv, Accepting
  <2>5. mailboxConn # 0 => mailboxConn \in Conns
      BY DEF ServerIInv, ServerTypes
  <2>6. mailboxConn # 0 =>
          /\ conns'[mailboxConn].phase \in {"up", "fin", "closed"}
          /\ conns'[mailboxConn].receiveBoxCreated /\ conns'[mailboxConn].sendBoxCreated
          /\ conns'[mailboxConn].sid = conns[mailboxConn].sid
      BY <1>1, <2>4, <2>5 DEF ServerIInv, Accepting
  <2> QED
      BY <1>1, <1>2, <2>1, <2>2, <2>3, <2>6 DEF ServerIInv, Accepting
<1>6. Closing'
  <2>1. ~(calm /\ close \in {"cancelConn", "cancel", "end"})
      BY DEF ServerIInv, Accepting, Closing, Current, alive
  <2> QED
      BY <1>2, <2>1 DEF ServerIInv, Closing
<1> QED
    BY <1>3, <1>4, <1>5, <1>6 DEF ServerIInv

\* The streams of a connection, and ServerConn.Close.
LEMMA StreamKeeps ==
    ASSUME ServerIInv, NEW c \in Conns,
           \/ stream(c) \/ createReceiveMailBoxFails(c) \/ recvFromStream(c)
           \/ sendToStreamFails(c) \/ grpcCloses(c) \/ closeConn(c)
    PROVE  ServerIInv'
<1>0. /\ conns[c] \in Conn /\ Sound(conns[c]) /\ boxes \subseteq Boxes
      /\ hashmail \in BOOLEAN
    BY DEF ServerIInv, ServerTypes
<1>f. /\ conns[c].sid \in SIDs
      /\ conns[c].phase \in {"unused", "handshake", "up", "fin", "closed"}
      /\ conns[c].receive \in StreamStates /\ conns[c].send \in StreamStates
      /\ conns[c].receiveBoxCreated \in BOOLEAN /\ conns[c].sendBoxCreated \in BOOLEAN
      /\ conns[c].status \in Statuses
    BY <1>0 DEF Conn
<1>b. {<<conns[c].sid, "receive">>, <<conns[c].sid, "send">>} \subseteq Boxes
    BY <1>f DEF Boxes
<1>1. CASE createReceiveMailBox(c)
  <2> DEFINE r == [conns[c] EXCEPT !.receive = "fetch", !.receiveBoxCreated = TRUE]
  <2>1. /\ alive(c) /\ set(c, r) /\ hashmail' = hashmail /\ boxes' \subseteq Boxes
        /\ UNCHANGED <<paired, serverVars>>
      BY <1>0, <1>b, <1>1 DEF createReceiveMailBox, alive, envVars
  <2>2. r \in Conn
      BY <1>0, <1>f, Zenon DEF Conn, StreamStates, Statuses
  <2>3. /\ Sound(r) /\ r.sid = conns[c].sid
        /\ conns[c].receiveBoxCreated => r.receiveBoxCreated
        /\ conns[c].sendBoxCreated => r.sendBoxCreated
        /\ \/ r.phase = conns[c].phase
           \/ conns[c].phase \in {"up", "fin"} /\ r.phase \in {"fin", "closed"}
      BY <1>0, <1>1 DEF Conn, Sound, createReceiveMailBox, alive
  <2> HIDE DEF r
  <2> QED
      BY <1>0, <2>1, <2>2, <2>3, ConnKeeps
<1>2. CASE receiveStream(c)
  <2> DEFINE r == IF hashmail THEN [conns[c] EXCEPT !.receive = "ok", !.status = "Idle"]
                ELSE [conns[c] EXCEPT !.receive = "retry"]
  <2>1. /\ alive(c) /\ set(c, r) /\ hashmail' = hashmail /\ boxes' \subseteq Boxes
        /\ UNCHANGED <<paired, serverVars>>
      BY <1>0, <1>b, <1>2 DEF receiveStream, alive, envVars
  <2>2. r \in Conn
      BY <1>0, <1>f, Zenon DEF Conn, StreamStates, Statuses
  <2>3. /\ Sound(r) /\ r.sid = conns[c].sid
        /\ conns[c].receiveBoxCreated => r.receiveBoxCreated
        /\ conns[c].sendBoxCreated => r.sendBoxCreated
        /\ \/ r.phase = conns[c].phase
           \/ conns[c].phase \in {"up", "fin"} /\ r.phase \in {"fin", "closed"}
      BY <1>0, <1>2 DEF Conn, Sound, receiveStream, alive
  <2> HIDE DEF r
  <2> QED
      BY <1>0, <2>1, <2>2, <2>3, ConnKeeps
<1>3. CASE recvFromStream(c)
  <2> DEFINE r == [conns[c] EXCEPT !.status = "InUse"]
  <2>1. /\ alive(c) /\ set(c, r) /\ hashmail' = hashmail /\ boxes' \subseteq Boxes
        /\ UNCHANGED <<paired, serverVars>>
      BY <1>0, <1>b, <1>3 DEF recvFromStream, alive, envVars
  <2>2. r \in Conn
      BY <1>0, <1>f DEF Conn, StreamStates, Statuses
  <2>3. /\ Sound(r) /\ r.sid = conns[c].sid
        /\ conns[c].receiveBoxCreated => r.receiveBoxCreated
        /\ conns[c].sendBoxCreated => r.sendBoxCreated
        /\ \/ r.phase = conns[c].phase
           \/ conns[c].phase \in {"up", "fin"} /\ r.phase \in {"fin", "closed"}
      BY <1>0, <1>3 DEF Conn, Sound, recvFromStream, alive
  <2> HIDE DEF r
  <2> QED
      BY <1>0, <2>1, <2>2, <2>3, ConnKeeps
<1>4. CASE recvFromStreamFails(c)
  <2> DEFINE r == [conns[c] EXCEPT !.receive = "retry", !.status = "NotConnected"]
  <2>1. /\ alive(c) /\ set(c, r) /\ hashmail' = hashmail /\ boxes' \subseteq Boxes
        /\ UNCHANGED <<paired, serverVars>>
      BY <1>0, <1>b, <1>4 DEF recvFromStreamFails, alive, envVars
  <2>2. r \in Conn
      BY <1>0, <1>f, Zenon DEF Conn, StreamStates, Statuses
  <2>3. /\ Sound(r) /\ r.sid = conns[c].sid
        /\ conns[c].receiveBoxCreated => r.receiveBoxCreated
        /\ conns[c].sendBoxCreated => r.sendBoxCreated
        /\ \/ r.phase = conns[c].phase
           \/ conns[c].phase \in {"up", "fin"} /\ r.phase \in {"fin", "closed"}
      BY <1>0, <1>4 DEF Conn, Sound, recvFromStreamFails, alive
  <2> HIDE DEF r
  <2> QED
      BY <1>0, <2>1, <2>2, <2>3, ConnKeeps
<1>5. CASE createSendMailBox(c)
  <2> DEFINE r == [conns[c] EXCEPT !.send = "fetch", !.sendBoxCreated = TRUE]
  <2>1. /\ alive(c) /\ set(c, r) /\ hashmail' = hashmail /\ boxes' \subseteq Boxes
        /\ UNCHANGED <<paired, serverVars>>
      BY <1>0, <1>b, <1>5 DEF createSendMailBox, alive, envVars, sends
  <2>2. r \in Conn
      BY <1>0, <1>f, Zenon DEF Conn, StreamStates, Statuses
  <2>3. /\ Sound(r) /\ r.sid = conns[c].sid
        /\ conns[c].receiveBoxCreated => r.receiveBoxCreated
        /\ conns[c].sendBoxCreated => r.sendBoxCreated
        /\ \/ r.phase = conns[c].phase
           \/ conns[c].phase \in {"up", "fin"} /\ r.phase \in {"fin", "closed"}
      BY <1>0, <1>5 DEF Conn, Sound, createSendMailBox, alive, sends
  <2> HIDE DEF r
  <2> QED
      BY <1>0, <2>1, <2>2, <2>3, ConnKeeps
<1>6. CASE sendStream(c)
  <2> DEFINE r == [conns[c] EXCEPT !.send = IF hashmail THEN "ok" ELSE "retry"]
  <2>1. /\ alive(c) /\ set(c, r) /\ hashmail' = hashmail /\ boxes' \subseteq Boxes
        /\ UNCHANGED <<paired, serverVars>>
      BY <1>0, <1>b, <1>6 DEF sendStream, alive, envVars
  <2>2. r \in Conn
      BY <1>0, <1>f DEF Conn, StreamStates, Statuses
  <2>3. /\ Sound(r) /\ r.sid = conns[c].sid
        /\ conns[c].receiveBoxCreated => r.receiveBoxCreated
        /\ conns[c].sendBoxCreated => r.sendBoxCreated
        /\ \/ r.phase = conns[c].phase
           \/ conns[c].phase \in {"up", "fin"} /\ r.phase \in {"fin", "closed"}
      BY <1>0, <1>6 DEF Conn, Sound, sendStream, alive
  <2> HIDE DEF r
  <2> QED
      BY <1>0, <2>1, <2>2, <2>3, ConnKeeps
<1>7. CASE sendToStreamFails(c)
  <2> DEFINE r == [conns[c] EXCEPT !.send = "retry", !.status = "NotConnected"]
  <2>1. /\ alive(c) /\ set(c, r) /\ hashmail' = hashmail /\ boxes' \subseteq Boxes
        /\ UNCHANGED <<paired, serverVars>>
      BY <1>0, <1>b, <1>7 DEF sendToStreamFails, alive, envVars, sends
  <2>2. r \in Conn
      BY <1>0, <1>f, Zenon DEF Conn, StreamStates, Statuses
  <2>3. /\ Sound(r) /\ r.sid = conns[c].sid
        /\ conns[c].receiveBoxCreated => r.receiveBoxCreated
        /\ conns[c].sendBoxCreated => r.sendBoxCreated
        /\ \/ r.phase = conns[c].phase
           \/ conns[c].phase \in {"up", "fin"} /\ r.phase \in {"fin", "closed"}
      BY <1>0, <1>7 DEF Conn, Sound, sendToStreamFails, alive, sends
  <2> HIDE DEF r
  <2> QED
      BY <1>0, <2>1, <2>2, <2>3, ConnKeeps
<1>8. CASE grpcCloses(c)
  <2> DEFINE r == [conns[c] EXCEPT !.phase = "fin"]
  <2>1. /\ alive(c) /\ set(c, r) /\ hashmail' = hashmail /\ boxes' \subseteq Boxes
        /\ UNCHANGED <<paired, serverVars>>
      BY <1>0, <1>b, <1>8 DEF grpcCloses, alive, envVars
  <2>2. r \in Conn
      BY <1>0, <1>f DEF Conn, StreamStates, Statuses
  <2>3. /\ Sound(r) /\ r.sid = conns[c].sid
        /\ conns[c].receiveBoxCreated => r.receiveBoxCreated
        /\ conns[c].sendBoxCreated => r.sendBoxCreated
        /\ \/ r.phase = conns[c].phase
           \/ conns[c].phase \in {"up", "fin"} /\ r.phase \in {"fin", "closed"}
      BY <1>0, <1>8 DEF Conn, Sound, grpcCloses, alive
  <2> HIDE DEF r
  <2> QED
      BY <1>0, <2>1, <2>2, <2>3, ConnKeeps
<1>9. CASE closeConn(c)
  <2> DEFINE r == [conns[c] EXCEPT !.phase = "closed", !.receive = "nil", !.send = "nil",
                            !.status = "NotConnected"]
  <2>1. /\ alive(c) /\ set(c, r) /\ hashmail' = hashmail /\ boxes' \subseteq Boxes
        /\ UNCHANGED <<paired, serverVars>>
      BY <1>0, <1>b, <1>9 DEF closeConn, alive, envVars
  <2>2. r \in Conn
      BY <1>0, <1>f, Zenon DEF Conn, StreamStates, Statuses
  <2>3. /\ Sound(r) /\ r.sid = conns[c].sid
        /\ conns[c].receiveBoxCreated => r.receiveBoxCreated
        /\ conns[c].sendBoxCreated => r.sendBoxCreated
        /\ \/ r.phase = conns[c].phase
           \/ conns[c].phase \in {"up", "fin"} /\ r.phase \in {"fin", "closed"}
      BY <1>0, <1>9 DEF Conn, Sound, closeConn, alive
  <2> HIDE DEF r
  <2> QED
      BY <1>0, <2>1, <2>2, <2>3, ConnKeeps
<1>10. CASE createReceiveMailBoxFails(c)
  <2>1. /\ alive(c) /\ conns' = conns /\ hashmail' = hashmail /\ boxes' \subseteq Boxes
        /\ UNCHANGED <<paired, serverVars>>
      BY <1>0, <1>b, <1>10 DEF createReceiveMailBoxFails
  <2>2. conns = [conns EXCEPT ![c] = conns[c]]
      BY DEF ServerIInv, ServerTypes
  <2>3. set(c, conns[c])
      BY <2>1, <2>2 DEF set
  <2> QED
      BY <1>0, <2>1, <2>3, ConnKeeps
<1> QED
    BY <1>1, <1>2, <1>3, <1>4, <1>5, <1>6, <1>7, <1>8, <1>9, <1>10 DEF stream

\* The hashmail server may go, come back and lose its mailboxes; the client gets
\* known.
LEMMA EnvironmentKeeps ==
    ASSUME ServerIInv, hashmailFails \/ hashmailReturns \/ hashmailRestarts \/ SetRemote
    PROVE  ServerIInv'
<1>0. hashmail \in BOOLEAN /\ paired \in BOOLEAN
    BY DEF ServerIInv, ServerTypes
<1>1. /\ conns' = conns /\ UNCHANGED serverVars /\ boxes' \subseteq boxes
      /\ hashmail' \in BOOLEAN /\ paired' \in BOOLEAN /\ (paired => paired')
  <2>1. CASE hashmailFails
      BY <1>0, <2>1, Zenon DEF hashmailFails
  <2>2. CASE hashmailReturns
      BY <1>0, <2>2 DEF hashmailReturns
  <2>3. CASE hashmailRestarts
      BY <1>0, <2>3 DEF hashmailRestarts
  <2>4. CASE SetRemote
      BY <1>0, <2>4 DEF SetRemote
  <2> QED
      BY <2>1, <2>2, <2>3, <2>4
<1>2. /\ mailboxConn' = mailboxConn /\ next' = next /\ sid' = sid /\ accept' = accept
      /\ close' = close /\ stopped' = stopped /\ calm' = calm
    BY <1>1 DEF serverVars
<1>3. ServerTypes' /\ \A c \in Conns : Sound(conns'[c])
    BY <1>1, <1>2 DEF ServerIInv, ServerTypes
<1>4. Accepting'
    BY <1>1, <1>2 DEF ServerIInv, Accepting, Current, alive
<1>5. Closing'
    BY <1>1, <1>2 DEF ServerIInv, Closing
<1> QED
    BY <1>3, <1>4, <1>5 DEF ServerIInv

\* Accept goes on without touching a connection.
LEMMA AcceptMoves ==
    ASSUME ServerIInv, NEW to, acceptGoto(to), conns' = conns, boxes' = boxes,
           mailboxConn' = mailboxConn, next' = next, sid' = sid,
           accept \in {"call", "wait"},
           to \in {"end", "wait", "compare"},
           to = "wait" => mailboxConn # 0,
           to = "compare" => mailboxConn = 0 \/ conns[mailboxConn].phase = "closed"
    PROVE  ServerIInv'
<1>1. /\ accept' = to /\ hashmail' = hashmail /\ paired' = paired /\ close' = close
      /\ stopped' = stopped /\ calm' = calm
    BY DEF acceptGoto
<1>2. ServerTypes' /\ \A c \in Conns : Sound(conns'[c])
    BY <1>1 DEF ServerIInv, ServerTypes
<1>3. Current' = Current /\ Current = mailboxConn
    BY <1>1 DEF Current
<1>4. to = "compare" => \A c \in Conns : ~alive(c)
  <2>1. 0 \notin Conns /\ \A c \in Conns : alive(c) => c = mailboxConn
      BY <1>3 DEF ServerIInv, Accepting, Conns
  <2> QED
      BY <2>1 DEF alive
<1>5. \A c \in Conns : alive(c)' <=> alive(c)
    BY DEF alive
<1>6. Accepting'
    BY <1>1, <1>3, <1>4, <1>5 DEF ServerIInv, Accepting
<1>7. Closing'
    BY <1>1 DEF ServerIInv, Closing
<1> QED
    BY <1>2, <1>6, <1>7 DEF ServerIInv

\* Accept, up to where it compares the SIDs.
LEMMA AcceptCallKeeps ==
    ASSUME ServerIInv, acceptCall \/ acceptWaits \/ acceptWakes PROVE ServerIInv'
<1>1. CASE acceptCall
  <2>1. PICK to : /\ to \in IF ctx THEN {"end"}
                            ELSE IF mailboxConn = 0 THEN {"compare"}
                            ELSE (IF quit THEN {"end"} ELSE {}) \cup
                                 (IF conns[mailboxConn].phase = "closed"
                                  THEN {"compare"} ELSE {})
                  /\ acceptGoto(to)
      BY <1>1 DEF acceptCall
  <2>2. /\ to \in {"end", "wait", "compare"} /\ to # "wait"
        /\ to = "compare" => mailboxConn = 0 \/ conns[mailboxConn].phase = "closed"
      BY <2>1
  <2>3. /\ accept = "call" /\ conns' = conns /\ boxes' = boxes
        /\ mailboxConn' = mailboxConn /\ next' = next /\ sid' = sid
      BY <1>1 DEF acceptCall
  <2> QED
      BY <2>1, <2>2, <2>3, AcceptMoves
<1>2. CASE acceptWaits
    BY <1>2, AcceptMoves DEF acceptWaits
<1>3. CASE acceptWakes
    BY <1>3, AcceptMoves DEF acceptWakes
<1> QED
    BY <1>1, <1>2, <1>3

\* A new SID can only be that of the key exchange.
LEMMA AcceptComparesKeeps == ASSUME ServerIInv, acceptCompares PROVE ServerIInv'
<1>1. /\ accept = "compare" /\ sid' = SID /\ boxes' = boxes /\ conns' = conns
      /\ mailboxConn' = mailboxConn /\ next' = next
      /\ accept' = (IF sid # SID /\ mailboxConn # 0 THEN "stop" ELSE "create")
      /\ hashmail' = hashmail /\ paired' = paired /\ close' = close
      /\ stopped' = stopped /\ calm' = calm
    BY DEF acceptCompares, acceptGoto
<1>2. /\ SID \in SIDs /\ (~paired => SID = "passphrase")
      /\ sid # SID => sid = "passphrase"
    BY DEF SID, SIDs, ServerIInv, ServerTypes, Accepting
<1>3. ServerTypes' /\ \A c \in Conns : Sound(conns'[c])
    BY <1>1, <1>2 DEF ServerIInv, ServerTypes
<1>4. next = 0 /\ ~calm /\ \A c \in Conns : ~alive(c) /\ ~alive(c)'
    BY <1>1 DEF ServerIInv, Accepting, Closing, alive
<1>5. mailboxConn # 0 =>
          /\ conns[mailboxConn].phase \in {"up", "fin", "closed"}
          /\ conns[mailboxConn].receiveBoxCreated /\ conns[mailboxConn].sendBoxCreated
          /\ conns[mailboxConn].sid = sid
    BY <1>1 DEF ServerIInv, Accepting
<1>6. Accepting'
    BY <1>1, <1>2, <1>4, <1>5 DEF Accepting
<1>7. Closing'
    BY <1>1, <1>4 DEF ServerIInv, Closing
<1> QED
    BY <1>3, <1>6, <1>7 DEF ServerIInv

\* Stop, in Accept.
LEMMA AcceptStopsKeeps == ASSUME ServerIInv, acceptStops PROVE ServerIInv'
<1>1. /\ accept = "stop" /\ accept' = "create" /\ mailboxConn' = 0
      /\ boxes' \subseteq boxes /\ conns' = conns /\ next' = next /\ sid' = sid
      /\ hashmail' = hashmail /\ paired' = paired /\ close' = close
      /\ stopped' = stopped /\ calm' = calm
    BY DEF acceptStops, acceptGoto
<1>2. ServerTypes' /\ \A c \in Conns : Sound(conns'[c])
    BY <1>1 DEF ServerIInv, ServerTypes
<1>3. next = 0 /\ ~calm /\ \A c \in Conns : ~alive(c)'
    BY <1>1 DEF ServerIInv, Accepting, Closing, alive
<1>4. ~paired => sid = "passphrase"
    BY DEF ServerIInv, Accepting
<1>5. Accepting'
    BY <1>1, <1>3, <1>4 DEF Accepting
<1>6. Closing'
    BY <1>1, <1>3 DEF ServerIInv, Closing
<1> QED
    BY <1>2, <1>5, <1>6 DEF ServerIInv

\* There is always a slot for the connection that Accept creates.
LEMMA FreeSlot == \E d \in Conns : d \notin {mailboxConn, stopped}
<1>1. {1, 2, 3} \subseteq Conns
    BY MailboxAssumption DEF Conns
<1>2. CASE 1 \notin {mailboxConn, stopped}
    BY <1>1, <1>2
<1>3. CASE 2 \notin {mailboxConn, stopped}
    BY <1>1, <1>3
<1>4. CASE 3 \notin {mailboxConn, stopped}
    BY <1>1, <1>4
<1> QED
    BY <1>2, <1>3, <1>4

\* NewServerConn and RefreshServerConn.
LEMMA AcceptCreatesKeeps == ASSUME ServerIInv, acceptCreates PROVE ServerIInv'
<1> DEFINE n == CHOOSE d \in Conns : d \notin {mailboxConn, stopped}
           r == IF mailboxConn = 0 THEN [Unused EXCEPT !.sid = sid, !.phase = "handshake"]
                ELSE [conns[mailboxConn] EXCEPT !.phase = "handshake"]
<1>0. n \in Conns /\ n # mailboxConn /\ n # stopped
    BY FreeSlot
<1>1. /\ accept = "create" /\ accept' = "handshake" /\ next' = n /\ set(n, r)
      /\ boxes' = boxes /\ mailboxConn' = mailboxConn /\ sid' = sid
      /\ hashmail' = hashmail /\ paired' = paired /\ close' = close
      /\ stopped' = stopped /\ calm' = calm
    BY DEF acceptCreates, acceptGoto
<1> HIDE DEF n
<1>2. /\ conns \in [Conns -> Conn] /\ sid \in SIDs /\ 0 \notin Conns
      /\ mailboxConn # 0 => mailboxConn \in Conns
    BY DEF ServerIInv, ServerTypes, Conns
<1>3. /\ next = 0 /\ ~calm /\ \A c \in Conns : ~alive(c)
      /\ mailboxConn # 0 =>
          /\ conns[mailboxConn].phase \in {"up", "fin", "closed"}
          /\ conns[mailboxConn].receiveBoxCreated /\ conns[mailboxConn].sendBoxCreated
          /\ conns[mailboxConn].sid = sid
    BY <1>1 DEF ServerIInv, Accepting, Closing
<1>4. r \in Conn /\ Sound(r) /\ r.sid = sid /\ r.phase = "handshake"
  <2>1. CASE mailboxConn = 0
    <3>1. r = [sid |-> sid, phase |-> "handshake", receive |-> "nil", send |-> "nil",
               receiveBoxCreated |-> FALSE, sendBoxCreated |-> FALSE,
               status |-> "NotConnected"]
        BY <2>1, Zenon DEF Unused
    <3> HIDE DEF r
    <3> QED
        BY <1>2, <3>1 DEF Conn, Sound, StreamStates, Statuses
  <2>2. CASE mailboxConn # 0
    <3>1. r = [conns[mailboxConn] EXCEPT !.phase = "handshake"]
        BY <2>2
    <3>2. conns[mailboxConn] \in Conn /\ Sound(conns[mailboxConn])
        BY <1>2, <2>2 DEF ServerIInv
    <3> HIDE DEF r
    <3> QED
        BY <1>3, <2>2, <3>1, <3>2 DEF Conn, Sound
  <2> QED
      BY <2>1, <2>2
<1> HIDE DEF r
<1>5. /\ conns' \in [Conns -> Conn] /\ conns'[n] = r
      /\ \A d \in Conns : d # n => conns'[d] = conns[d]
    BY <1>0, <1>1, <1>2, <1>4 DEF set
<1>6. ServerTypes'
    BY <1>0, <1>1, <1>5 DEF ServerIInv, ServerTypes
<1>7. \A c \in Conns : Sound(conns'[c])
    BY <1>4, <1>5 DEF ServerIInv
<1>8. Accepting'
  <2>1. \A c \in Conns : alive(c)' => c = n
      BY <1>3, <1>5 DEF alive
  <2>2. mailboxConn # 0 => conns'[mailboxConn] = conns[mailboxConn]
      BY <1>0, <1>2, <1>5
  <2>3. ~paired => sid = "passphrase"
      BY DEF ServerIInv, Accepting
  <2>4. n # 0 /\ Current' = n
      BY <1>0, <1>1, <1>2 DEF Current
  <2> QED
      BY <1>1, <1>3, <1>4, <1>5, <2>1, <2>2, <2>3, <2>4 DEF Accepting
<1>9. Closing'
    BY <1>1, <1>3 DEF ServerIInv, Closing
<1> QED
    BY <1>6, <1>7, <1>8, <1>9 DEF ServerIInv

\* Accept returns a connection or gives it up.
LEMMA AcceptEndsKeeps ==
    ASSUME ServerIInv, acceptReturns \/ acceptFails PROVE ServerIInv'
<1>0. /\ conns \in [Conns -> Conn] /\ 0 \notin Conns
      /\ mailboxConn # 0 => mailboxConn \in Conns
    BY DEF ServerIInv, ServerTypes, Conns
<1>1. /\ accept = "handshake" /\ accept' = "call" /\ next' = 0 /\ boxes' = boxes
      /\ sid' = sid /\ hashmail' = hashmail /\ paired' = paired /\ close' = close
      /\ stopped' = stopped /\ calm' = calm
    BY DEF acceptReturns, acceptFails, acceptGoto
<1>2. /\ next \in Conns /\ conns[next].phase = "handshake" /\ conns[next].sid = sid
      /\ conns[next] \in Conn /\ Sound(conns[next]) /\ mailboxConn # next
      /\ ~calm /\ \A c \in Conns : c # next => ~alive(c)
    BY <1>0, <1>1 DEF ServerIInv, ServerTypes, Accepting, Closing, Current
<1>3. /\ ~paired => sid = "passphrase"
      /\ mailboxConn # 0 =>
          /\ conns[mailboxConn].phase \in {"up", "fin", "closed"}
          /\ conns[mailboxConn].receiveBoxCreated /\ conns[mailboxConn].sendBoxCreated
          /\ conns[mailboxConn].sid = sid
    BY <1>1 DEF ServerIInv, Accepting
<1>4. CASE acceptReturns
  <2> DEFINE r == [conns[next] EXCEPT !.phase = "up"]
  <2>1. /\ set(next, r) /\ mailboxConn' = next
        /\ conns[next].status = "InUse" /\ conns[next].send = "ok"
      BY <1>4 DEF acceptReturns
  <2>2. conns[next].receiveBoxCreated /\ conns[next].sendBoxCreated
      BY <1>2, <2>1 DEF Sound
  <2>3. /\ r \in Conn /\ r.sid = sid /\ r.phase = "up"
        /\ r.receiveBoxCreated /\ r.sendBoxCreated
      BY <1>2, <2>2 DEF Conn
  <2>4. Sound(r)
      BY <1>2, <2>2 DEF Conn, Sound
  <2> HIDE DEF r
  <2>5. /\ conns' \in [Conns -> Conn] /\ conns'[next] = r
        /\ \A d \in Conns : d # next => conns'[d] = conns[d]
      BY <1>0, <1>2, <2>1, <2>3 DEF set
  <2>6. ServerTypes' /\ \A c \in Conns : Sound(conns'[c])
      BY <1>1, <1>2, <2>1, <2>4, <2>5 DEF ServerIInv, ServerTypes
  <2>7. \A c \in Conns : alive(c)' => c = next
      BY <1>2, <2>5 DEF alive
  <2>8. Accepting'
      BY <1>1, <1>3, <2>1, <2>3, <2>5, <2>7 DEF Accepting, Current
  <2>9. Closing'
      BY <1>1, <1>2 DEF ServerIInv, Closing
  <2> QED
      BY <2>6, <2>8, <2>9 DEF ServerIInv
<1>5. CASE acceptFails
  <2> DEFINE r == [conns[next] EXCEPT !.phase = "closed", !.receive = "nil",
                                      !.send = "nil", !.status = "NotConnected"]
  <2>1. set(next, r) /\ mailboxConn' = mailboxConn
      BY <1>5 DEF acceptFails
  <2>2. r \in Conn /\ r.phase = "closed" /\ Sound(r)
      BY <1>2, Zenon DEF Conn, Sound, StreamStates, Statuses
  <2> HIDE DEF r
  <2>3. /\ conns' \in [Conns -> Conn] /\ conns'[next] = r
        /\ \A d \in Conns : d # next => conns'[d] = conns[d]
      BY <1>0, <1>2, <2>1, <2>2 DEF set
  <2>4. ServerTypes' /\ \A c \in Conns : Sound(conns'[c])
      BY <1>1, <1>2, <2>1, <2>2, <2>3 DEF ServerIInv, ServerTypes
  <2>5. \A c \in Conns : ~alive(c)'
      BY <1>2, <2>2, <2>3 DEF alive
  <2>6. mailboxConn # 0 => conns'[mailboxConn] = conns[mailboxConn]
      BY <1>0, <1>2, <2>3
  <2>7. Accepting'
      BY <1>1, <1>3, <2>1, <2>5, <2>6 DEF Accepting
  <2>8. Closing'
      BY <1>1, <1>2 DEF ServerIInv, Closing
  <2> QED
      BY <2>4, <2>7, <2>8 DEF ServerIInv
<1> QED
    BY <1>4, <1>5

\* Server.Close begins: if Accept waits for a connection that is up it ends.
LEMMA CloseBeginsKeeps == ASSUME ServerIInv, closeBegins PROVE ServerIInv'
<1>0. hashmail \in BOOLEAN /\ paired \in BOOLEAN
    BY DEF ServerIInv, ServerTypes
<1>1. /\ close = "open" /\ stopped' = mailboxConn
      /\ accept' = (IF accept = "wait" THEN "end" ELSE accept)
      /\ calm' <=> (accept = "wait" /\ conns[mailboxConn].phase = "up")
      /\ calm' \in BOOLEAN
      /\ close' = (IF mailboxConn = 0 THEN "cancel" ELSE "stop")
      /\ boxes' = boxes /\ conns' = conns /\ hashmail' = hashmail /\ paired' = paired
      /\ next' = next /\ sid' = sid /\ mailboxConn' = mailboxConn
    BY Zenon DEF closeBegins, closeGoto
<1>2. ServerTypes' /\ \A c \in Conns : Sound(conns'[c])
    BY <1>0, <1>1 DEF ServerIInv, ServerTypes
<1>3. Current' = Current /\ \A c \in Conns : alive(c)' <=> alive(c)
    BY <1>1 DEF Current, alive
<1>4. Accepting'
    BY <1>1, <1>3 DEF ServerIInv, Accepting
<1>5. accept = "wait" => mailboxConn # 0
    BY DEF ServerIInv, Accepting
<1>6. Closing'
    BY <1>1, <1>5 DEF Closing
<1> QED
    BY <1>2, <1>4, <1>6 DEF ServerIInv

\* Stop closes the connection.
LEMMA CloseClosesConnKeeps == ASSUME ServerIInv, closeClosesConn PROVE ServerIInv'
<1> DEFINE r == [conns[stopped] EXCEPT !.phase = "fin"]
<1>1. /\ close = "stop" /\ conns[stopped].phase = "up" /\ set(stopped, r)
      /\ boxes' = boxes /\ UNCHANGED envVars
    BY DEF closeClosesConn
<1>2. /\ stopped \in Conns /\ conns[stopped] \in Conn /\ Sound(conns[stopped])
      /\ boxes \subseteq Boxes /\ hashmail \in BOOLEAN
    BY <1>1 DEF ServerIInv, ServerTypes, Closing
<1>3. alive(stopped)
    BY <1>1 DEF alive
<1>4. /\ r \in Conn /\ Sound(r) /\ r.sid = conns[stopped].sid /\ r.phase = "fin"
      /\ r.receiveBoxCreated <=> conns[stopped].receiveBoxCreated
      /\ r.sendBoxCreated <=> conns[stopped].sendBoxCreated
    BY <1>1, <1>2 DEF Conn, Sound
<1> HIDE DEF r
<1>5. UNCHANGED <<paired, serverVars>> /\ hashmail' = hashmail
    BY <1>1 DEF envVars
<1> QED
    BY <1>1, <1>2, <1>3, <1>4, <1>5, ConnKeeps

\* Stop deletes the mailboxes: a calm one both of them.
LEMMA CloseDeletesKeeps == ASSUME ServerIInv, closeDeletes PROVE ServerIInv'
<1>0. hashmail \in BOOLEAN /\ paired \in BOOLEAN /\ calm \in BOOLEAN
    BY DEF ServerIInv, ServerTypes
<1>1. /\ close = "stop" /\ conns[stopped].phase = "closed"
      /\ boxes' = (IF hashmail THEN boxes \ deleted(stopped) ELSE boxes)
      /\ calm' <=> (calm /\ hashmail)
      /\ calm' \in BOOLEAN
      /\ close' = "cancelConn" /\ accept' = accept /\ stopped' = stopped
      /\ conns' = conns /\ hashmail' = hashmail /\ paired' = paired
      /\ next' = next /\ sid' = sid /\ mailboxConn' = mailboxConn
    BY Zenon DEF closeDeletes, closeGoto
<1>2. ServerTypes' /\ \A c \in Conns : Sound(conns'[c])
    BY <1>0, <1>1 DEF ServerIInv, ServerTypes
<1>3. Current' = Current /\ \A c \in Conns : alive(c)' <=> alive(c)
    BY <1>1 DEF Current, alive
<1>4. Accepting'
    BY <1>1, <1>3 DEF ServerIInv, Accepting
<1>5. calm => /\ accept = "end" /\ stopped # 0 /\ stopped = mailboxConn
              /\ conns[stopped].receiveBoxCreated /\ conns[stopped].sendBoxCreated
    BY DEF ServerIInv, Accepting, Closing
<1>6. calm' => \A b \in {"receive", "send"} : <<conns[stopped].sid, b>> \notin boxes'
    BY <1>1, <1>5 DEF deleted
<1>7. stopped # 0
    BY <1>1 DEF ServerIInv, Closing
<1>8. Closing'
    BY <1>1, <1>5, <1>6, <1>7 DEF Closing
<1> QED
    BY <1>2, <1>4, <1>8 DEF ServerIInv

\* Server.Close cancels the contexts.
LEMMA CloseCancelsKeeps ==
    ASSUME ServerIInv, closeCancelsConn \/ closeCancels PROVE ServerIInv'
<1>1. /\ close \in {"cancelConn", "cancel"} /\ close' \in {"cancel", "end"}
      /\ boxes' = boxes /\ calm' = calm /\ accept' = accept /\ stopped' = stopped
      /\ conns' = conns /\ hashmail' = hashmail /\ paired' = paired
      /\ next' = next /\ sid' = sid /\ mailboxConn' = mailboxConn
    BY DEF closeCancelsConn, closeCancels, closeGoto
<1>2. ServerTypes' /\ \A c \in Conns : Sound(conns'[c])
    BY <1>1 DEF ServerIInv, ServerTypes
<1>3. Current' = Current /\ \A c \in Conns : alive(c)' <=> alive(c)
    BY <1>1, Zenon DEF Current, alive
<1>4. Accepting'
    BY <1>1, <1>3 DEF ServerIInv, Accepting
<1>5. Closing'
    BY <1>1 DEF ServerIInv, Closing
<1> QED
    BY <1>2, <1>4, <1>5 DEF ServerIInv

\* Nothing happens, or it happens to the parties.
LEMMA ServerStutters == ASSUME ServerIInv, UNCHANGED vars PROVE ServerIInv'
<1>1. /\ boxes' = boxes /\ calm' = calm /\ accept' = accept /\ stopped' = stopped
      /\ conns' = conns /\ hashmail' = hashmail /\ paired' = paired
      /\ next' = next /\ sid' = sid /\ mailboxConn' = mailboxConn /\ close' = close
    BY DEF vars
<1>2. ServerTypes' /\ \A c \in Conns : Sound(conns'[c])
    BY <1>1 DEF ServerIInv, ServerTypes
<1>3. Current' = Current /\ \A c \in Conns : alive(c)' <=> alive(c)
    BY <1>1, Zenon DEF Current, alive
<1>4. Accepting'
    BY <1>1, <1>3 DEF ServerIInv, Accepting
<1>5. Closing'
    BY <1>1 DEF ServerIInv, Closing
<1> QED
    BY <1>2, <1>4, <1>5 DEF ServerIInv

\* Every step keeps the invariant.
LEMMA ServerKeeps == ServerIInv /\ [Next]_vars => ServerIInv'
<1> SUFFICES ASSUME ServerIInv, [Next]_vars PROVE ServerIInv'
    OBVIOUS
<1>1. CASE hashmailFails \/ hashmailReturns \/ hashmailRestarts \/ SetRemote
    BY <1>1, EnvironmentKeeps
<1>2. ASSUME NEW c \in Conns,
             \/ stream(c) \/ createReceiveMailBoxFails(c) \/ recvFromStream(c)
             \/ sendToStreamFails(c) \/ grpcCloses(c) \/ closeConn(c)
      PROVE  ServerIInv'
    BY <1>2, StreamKeeps
<1>3. CASE acceptStep
    BY <1>3, AcceptCallKeeps, AcceptComparesKeeps, AcceptStopsKeeps,
        AcceptCreatesKeeps, AcceptEndsKeeps DEF acceptStep
<1>4. CASE closeBegins
    BY <1>4, CloseBeginsKeeps
<1>5. CASE closeStep
    BY <1>5, CloseClosesConnKeeps, CloseDeletesKeeps, CloseCancelsKeeps DEF closeStep
<1>6. CASE UNCHANGED vars
    BY <1>6, ServerStutters
<1> QED
    BY <1>1, <1>2, <1>3, <1>4, <1>5, <1>6 DEF Next

\* It holds when the Server starts.
LEMMA ServerStarts == Init => ServerIInv
<1> SUFFICES ASSUME Init PROVE ServerIInv
    OBVIOUS
<1>1. Unused \in Conn /\ Sound(Unused) /\ Unused.phase = "unused"
    BY DEF Unused, Conn, Sound, SIDs, StreamStates, Statuses
<1>2. \A c \in Conns : conns[c] = Unused
    BY DEF Init
<1>3. ServerTypes
    BY <1>1, Zenon DEF Init, ServerTypes, SIDs
<1>4. Accepting
    BY <1>1, <1>2 DEF Init, Accepting, alive
<1>5. Closing
    BY DEF Init, Closing
<1> QED
    BY <1>1, <1>2, <1>3, <1>4, <1>5 DEF ServerIInv

\* What the Server promises follows.
LEMMA ServerPromises == ServerIInv => ServerInv
<1> SUFFICES ASSUME ServerIInv PROVE ServerInv
    OBVIOUS
<1>1. TypeOK
    BY DEF ServerIInv, ServerTypes, Accepting, TypeOK, Conn
<1>2. OneActive
  <2>1. ASSUME NEW c \in Conns,
               alive(c) \/ conns[c].receive = "ok" \/ conns[c].send = "ok"
        PROVE  c = Current
    <3>0. CASE alive(c)
        BY <3>0 DEF ServerIInv, Accepting
    <3>1. CASE conns[c].receive = "ok" \/ conns[c].send = "ok"
      <4>1. conns[c].phase \notin {"unused", "closed"} /\ conns[c] \in Conn
          BY <3>1 DEF ServerIInv, ServerTypes, Sound
      <4>2. alive(c)
          BY <4>1 DEF alive, Conn
      <4> QED
          BY <4>2 DEF ServerIInv, Accepting
    <3> QED
        BY <2>1, <3>0, <3>1
  <2> QED
      BY <2>1 DEF OneActive
<1>3. StatusHasStream
    BY DEF ServerIInv, ServerTypes, Sound, StatusHasStream, Conn
<1>4. CloseCleans
    BY DEF ServerIInv, Closing, CloseCleans
<1> QED
    BY <1>1, <1>2, <1>3, <1>4 DEF ServerInv

\* Server, NewServerConn, RefreshServerConn and Stop: one connection at a time has
\* streams, a status tells of a stream, and a Close that finds Accept waiting for a
\* connection leaves no mailbox behind; for any number of faults.
THEOREM ServerCorrect == MCSpec => []ServerInv
<1>1. [MCNext]_mcVars => [Next]_vars
    BY DEF MCNext, mcVars
<1>2. MCInit => Init
    BY DEF MCInit
<1> QED
    BY <1>1, <1>2, ServerStarts, ServerKeeps, ServerPromises, PTL DEF MCSpec

\* Accept, when the SID is a new one, deletes both mailboxes of the connection
\* before if the hashmail server can be reached.
THEOREM OldBoxesAreDeleted == MCSpec => OldBoxesDeleted
<1> DEFINE Deletes == (accept = "stop" /\ accept' = "create" /\ hashmail)
               => \A b \in {"receive", "send"} : <<"passphrase", b>> \notin boxes'
<1>1. ASSUME ServerIInv, Next PROVE Deletes
  <2> SUFFICES ASSUME accept = "stop", accept' = "create", hashmail
               PROVE  \A b \in {"receive", "send"} : <<"passphrase", b>> \notin boxes'
      OBVIOUS
  <2>1. acceptStops
    <3>1. ~acceptCall /\ ~acceptWaits /\ ~acceptWakes /\ ~acceptCompares
          /\ ~acceptCreates /\ ~acceptReturns /\ ~acceptFails
        BY DEF acceptCall, acceptWaits, acceptWakes, acceptCompares, acceptCreates,
            acceptReturns, acceptFails
    <3>2. accept' # accept
        OBVIOUS
    <3>3. ~hashmailFails /\ ~hashmailReturns /\ ~hashmailRestarts /\ ~SetRemote
        BY <3>2, Zenon DEF hashmailFails, hashmailReturns, hashmailRestarts, SetRemote,
            serverVars
    <3>4. ~closeBegins /\ ~closeStep
        BY <3>2 DEF closeBegins, closeStep, closeClosesConn, closeDeletes,
            closeCancelsConn, closeCancels, envVars, serverVars
    <3>5. ASSUME NEW c \in Conns
          PROVE  ~(\/ stream(c) \/ createReceiveMailBoxFails(c) \/ recvFromStream(c)
                   \/ sendToStreamFails(c) \/ grpcCloses(c) \/ closeConn(c))
        BY <3>2 DEF stream, createReceiveMailBox, createReceiveMailBoxFails,
            receiveStream, recvFromStream, recvFromStreamFails, createSendMailBox,
            sendStream, sendToStreamFails, grpcCloses, closeConn,
            envVars, serverVars
    <3> QED
        BY <1>1, <3>1, <3>3, <3>4, <3>5 DEF Next, acceptStep
  <2>2. /\ conns[mailboxConn].sid = "passphrase"
        /\ conns[mailboxConn].receiveBoxCreated /\ conns[mailboxConn].sendBoxCreated
      BY <1>1 DEF ServerIInv, Accepting
  <2>3. boxes' = boxes \ deleted(mailboxConn)
      BY <2>1 DEF acceptStops
  <2> QED
      BY <2>2, <2>3 DEF deleted
<1>2. ServerIInv /\ [Next]_vars => [Deletes]_vars
    BY <1>1
<1>3. [MCNext]_mcVars => [Next]_vars
    BY DEF MCNext, mcVars
<1>4. MCInit => Init
    BY DEF MCInit
<1> QED
    BY <1>2, <1>3, <1>4, ServerStarts, ServerKeeps, PTL DEF MCSpec, OldBoxesDeleted

=============================================================================
