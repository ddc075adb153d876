---------------------------- MODULE ClientsProofs -----------------------------
(***************************************************************************)
(* Proofs about the client libraries: what they answer about a macaroon,   *)
(* for macaroons and RPCs with any number of operations, and the           *)
(* connections of the WASM client and of the mobile client, for any number *)
(* of calls.                                                               *)
(***************************************************************************)
EXTENDS MCClients, TLAPS

-----------------------------------------------------------------------------
(***************************************************************************)
(* HasPermissions. The invariant says what the two loops have done so far. *)
(***************************************************************************)

\* The entries of the map after the operations before i, none of which is
\* for the whole URI (in the WASM client).
Collected ==
    pc \in {"collect", "check"} =>
        /\ mac = "good" /\ knownURI
        /\ \A e \in Entity, a \in Action :
               (a \in macOpsMap[e]) <=>
               \E k \in 1 .. Len(macOps) :
                   k < i /\ macOps[k].entity = e /\ a \in macOps[k].actions
        /\ wasm => \A k \in 1 .. Len(macOps) : k < i => ~grantsURI(macOps[k])

\* The required operations before j are granted.
Checked ==
    /\ pc = "check" => i = Len(macOps) + 1
    /\ pc = "check" => \A k \in 1 .. Len(requiredOps) :
                           k < j => granted(requiredOps[k])

Fresh == pc \in {"called", "collect"} => j = 1
Start == pc = "called" => i = 1 /\ ~answer /\ macOpsMap = [e \in Entity |-> {}]
NotYet == pc \in {"collect", "check"} => ~answer

\* What HasPermissions may answer: the mobile client misses the URI only.
Answered ==
    answered => /\ answer => (mac = "good" /\ knownURI /\ permitted)
                /\ (mac = "good" /\ knownURI /\ permitted) =>
                       \/ answer
                       \/ ~wasm /\ isCustom(macOps)

IInv == TypeOK /\ canonical(macOps) /\ Collected /\ Checked /\ Fresh /\ Start
        /\ NotYet /\ Answered

-----------------------------------------------------------------------------
\* Sequences of bounded length are sequences.
LEMMA UpToIsSeq == ASSUME NEW S PROVE upTo(S) \subseteq Seq(S)
<1> SUFFICES ASSUME NEW s \in upTo(S) PROVE s \in Seq(S)
    OBVIOUS
<1>1. PICK n \in 0 .. MaxOps : s \in [1 .. n -> S]
    BY DEF upTo
<1>2. n \in Nat
    BY NumberAssumption
<1> QED
    BY <1>1, <1>2

\* The program starts with nothing collected.
LEMMA InitIInv == Init => IInv
<1> SUFFICES ASSUME Init PROVE IInv
    OBVIOUS
<1>1. macOps \in Seq(Op) /\ requiredOps \in Seq(RequiredOp)
    BY UpToIsSeq DEF Init
<1>2. Len(macOps) \in Nat /\ Len(requiredOps) \in Nat
    BY <1>1
<1>3. knownURI \in BOOLEAN /\ answer \in BOOLEAN /\ wasm \in BOOLEAN
    BY Zenon DEF Init
<1>4. TypeOK
  <2>1. i \in 1 .. Len(macOps) + 1 /\ j \in 1 .. Len(requiredOps) + 1
      BY <1>2 DEF Init
  <2>2. macOpsMap \in [Entity -> SUBSET Action]
      BY DEF Init
  <2>3. expiry \in Expiry \cup {0} /\ told \in Nat /\ uri \in URI
      BY DEF Init
  <2> QED
      BY <1>1, <1>3, <2>1, <2>2, <2>3, Zenon DEF Init, TypeOK
<1>5. canonical(macOps)
    BY DEF Init
<1>6. pc = "called" /\ i = 1 /\ j = 1 /\ ~answer
      /\ macOpsMap = [e \in Entity |-> {}]
    BY DEF Init
<1> QED
    BY <1>4, <1>5, <1>6 DEF IInv, Collected, Checked, Fresh, Start, NotYet,
                            Answered, answered

-----------------------------------------------------------------------------
\* Types are kept by every step, since the second loop starts at 1.
LEMMA TypeStep == TypeOK /\ Fresh /\ [Next]_vars => TypeOK'
<1> SUFFICES ASSUME TypeOK, Fresh, [Next]_vars PROVE TypeOK'
    OBVIOUS
<1>t. /\ Len(macOps) \in Nat /\ Len(requiredOps) \in Nat /\ i \in Nat /\ j \in Nat
    BY DEF TypeOK
<1>1. CASE IsReadOnly \/ IsCustom
  <2>1. answer' \in BOOLEAN
      BY <1>1, Zenon DEF IsReadOnly, IsCustom, returns, isReadOnly, isCustom
  <2>2. UNCHANGED <<inputs, macOpsMap, i, j, told>> /\ pc' \in {"IsReadOnly", "IsCustom"}
      BY <1>1 DEF IsReadOnly, IsCustom, returns
  <2> QED
      BY <2>1, <2>2 DEF TypeOK, inputs
<1>2. CASE GetExpiry
  <2>1. told' \in Nat
      BY <1>2, NumberAssumption DEF GetExpiry, runeString, TypeOK
  <2> QED
      BY <1>2, <2>1 DEF GetExpiry, TypeOK, inputs
<1>3. CASE \E ops \in upTo(RequiredOp), ok \in BOOLEAN : HasPermissions(ops, ok)
  <2>1. PICK ops \in upTo(RequiredOp), ok \in BOOLEAN : HasPermissions(ops, ok)
      BY <1>3
  <2>2. requiredOps' \in Seq(RequiredOp) /\ Len(requiredOps') \in Nat
      BY <2>1, UpToIsSeq DEF HasPermissions
  <2>3. knownURI' \in BOOLEAN /\ answer' \in BOOLEAN
      BY <2>1, Zenon DEF HasPermissions, TypeOK
  <2>4. j' \in 1 .. Len(requiredOps') + 1
      BY <2>1, <2>2 DEF HasPermissions, Fresh
  <2>5. pc' \in {"collect", "HasPermissions"}
      BY <2>1 DEF HasPermissions
  <2>6. UNCHANGED <<wasm, mac, macOps, expiry, uri, macOpsMap, i, told>>
      BY <2>1 DEF HasPermissions
  <2> QED
      BY <2>2, <2>3, <2>4, <2>5, <2>6 DEF TypeOK
<1>4. CASE collect
  <2>1. macOps[i] \in Op
      BY <1>4, <1>t DEF collect, TypeOK
  <2>2. macOpsMap' \in [Entity -> SUBSET Action]
      BY <1>4, <2>1 DEF collect, TypeOK, Op
  <2>3. i' \in 1 .. Len(macOps) + 1
      BY <1>4, <1>t DEF collect, TypeOK
  <2>4. answer' \in BOOLEAN
      BY <1>4, Zenon DEF collect, TypeOK
  <2>5. pc' \in {"collect", "HasPermissions"}
      BY <1>4 DEF collect
  <2>6. UNCHANGED <<inputs, j, told>>
      BY <1>4 DEF collect
  <2> QED
      BY <2>2, <2>3, <2>4, <2>5, <2>6 DEF TypeOK, inputs
<1>5. CASE collectEnds
    BY <1>5 DEF collectEnds, TypeOK, inputs
<1>6. CASE check
  <2>1. j' \in 1 .. Len(requiredOps) + 1
      BY <1>6, <1>t DEF check, TypeOK
  <2>2. answer' \in BOOLEAN
      BY <1>6, Zenon DEF check, TypeOK
  <2>3. pc' \in {"check", "HasPermissions"}
      BY <1>6 DEF check
  <2>4. UNCHANGED <<inputs, macOpsMap, i, told>>
      BY <1>6 DEF check
  <2> QED
      BY <2>1, <2>2, <2>3, <2>4 DEF TypeOK, inputs
<1>7. CASE checkEnds
    BY <1>7 DEF checkEnds, returns, TypeOK, inputs
<1>8. CASE UNCHANGED vars
    BY <1>8 DEF vars, TypeOK
<1> QED
    BY <1>1, <1>2, <1>3, <1>4, <1>5, <1>6, <1>7, <1>8 DEF Next

\* What the loops have done is kept by every step.
LEMMA LoopStep == IInv /\ [Next]_vars => IInv'
<1> SUFFICES ASSUME IInv, [Next]_vars PROVE IInv'
    OBVIOUS
<1> USE DEF IInv
<1>t. TypeOK'
    BY TypeStep
<1>c. canonical(macOps)' /\ macOps' = macOps /\ mac' = mac
      /\ uri' = uri /\ wasm' = wasm
    BY DEF Next, IsReadOnly, IsCustom, GetExpiry, HasPermissions, collect,
           collectEnds, check, checkEnds, returns, inputs, vars, canonical
<1>l. /\ Len(macOps) \in Nat /\ Len(requiredOps) \in Nat /\ i \in Nat /\ j \in Nat
      /\ DOMAIN macOps = 1 .. Len(macOps)
      /\ DOMAIN requiredOps = 1 .. Len(requiredOps)
    BY DEF TypeOK
<1>1. CASE IsReadOnly \/ IsCustom \/ GetExpiry
  <2>1. pc' \in {"IsReadOnly", "IsCustom", "GetExpiry"}
      BY <1>1 DEF IsReadOnly, IsCustom, GetExpiry
  <2> QED
      BY <1>t, <1>c, <2>1 DEF Collected, Checked, Fresh, Start, NotYet, Answered,
                              answered
<1>2. CASE \E ops \in upTo(RequiredOp), ok \in BOOLEAN : HasPermissions(ops, ok)
  <2>1. PICK ops \in upTo(RequiredOp), ok \in BOOLEAN : HasPermissions(ops, ok)
      BY <1>2
  <2>2. pc = "called" /\ i' = 1 /\ j' = 1 /\ ~answer' /\ macOpsMap' = [e \in Entity |-> {}]
      BY <2>1 DEF HasPermissions, Start, Fresh
  <2>3. CASE mac = "good" /\ ok
    <3>1. pc' = "collect" /\ knownURI'
        BY <2>1, <2>3 DEF HasPermissions
    <3>2. Collected'
        BY <1>c, <1>l, <2>2, <2>3, <3>1 DEF Collected
    <3> QED
        BY <1>t, <1>c, <2>2, <3>1, <3>2 DEF Checked, Fresh, Start, NotYet, Answered,
                                       answered
  <2>4. CASE ~(mac = "good" /\ ok)
    <3>1. pc' = "HasPermissions" /\ ~(mac' = "good" /\ knownURI')
        BY <2>1, <2>4 DEF HasPermissions
    <3> QED
        BY <1>t, <1>c, <2>2, <3>1 DEF Collected, Checked, Fresh, Start, NotYet,
                                      Answered, answered
  <2> QED
      BY <2>3, <2>4
<1>3. CASE collect
  <2>1. pc = "collect" /\ i \in 1 .. Len(macOps) /\ j' = j /\ j = 1
        /\ mac = "good" /\ knownURI /\ UNCHANGED <<requiredOps, knownURI>>
      BY <1>3, <1>l DEF collect, TypeOK, Fresh, Collected, inputs
  <2>2. macOps[i] \in Op
      BY <2>1 DEF TypeOK
  <2>3. CASE grantsURI(macOps[i])
    <3>1. pc' = "HasPermissions" /\ answer'
        BY <1>3, <2>3 DEF collect
    <3>2. permitted'
        BY <1>c, <1>l, <2>1, <2>3 DEF permitted, granted, grantsURI
    <3> QED
        BY <1>t, <1>c, <2>1, <3>1, <3>2 DEF Collected, Checked, Fresh, Start, NotYet,
                                       Answered, answered
  <2>4. CASE ~grantsURI(macOps[i])
    <3>1. pc' = "collect" /\ i' = i + 1 /\ answer' = answer
        BY <1>3, <2>1, <2>4 DEF collect
    <3>2. ASSUME NEW e \in Entity, NEW a \in Action
          PROVE  (a \in macOpsMap'[e]) <=>
                 \E k \in 1 .. Len(macOps) :
                     k < i + 1 /\ macOps[k].entity = e /\ a \in macOps[k].actions
      <4>1. \A k \in 1 .. Len(macOps) : k < i + 1 <=> (k < i \/ k = i)
          BY <2>1, <1>l
      <4>2. CASE e = macOps[i].entity
        <5>1. macOpsMap'[e] = macOps[i].actions
            BY <1>3, <4>2 DEF collect, TypeOK
        <5>2. \A k \in 1 .. Len(macOps) : macOps[k].entity = e => k = i
            BY <1>l, <2>1, <4>2 DEF canonical
        <5> QED
            BY <2>1, <4>1, <4>2, <5>1, <5>2
      <4>3. CASE e # macOps[i].entity
        <5>1. macOpsMap'[e] = macOpsMap[e]
            BY <1>3, <4>3 DEF collect, TypeOK
        <5> QED
            BY <2>1, <4>1, <4>3, <5>1 DEF Collected
      <4> QED
          BY <4>2, <4>3
    <3>3. wasm => \A k \in 1 .. Len(macOps) : k < i + 1 => ~grantsURI(macOps[k])
        BY <1>l, <2>1, <2>4 DEF Collected
    <3>4. Collected'
        BY <1>c, <2>1, <3>1, <3>2, <3>3 DEF Collected, grantsURI
    <3> QED
        BY <1>t, <1>c, <2>1, <3>1, <3>4 DEF Checked, Fresh, Start, NotYet, Answered,
                                       answered
  <2> QED
      BY <2>3, <2>4
<1>4. CASE collectEnds
  <2>1. pc = "collect" /\ pc' = "check" /\ i' = i /\ j' = j /\ j = 1
        /\ i = Len(macOps) + 1 /\ UNCHANGED <<requiredOps, knownURI, macOpsMap, answer>>
      BY <1>4, <1>l DEF collectEnds, TypeOK, Fresh, inputs
  <2>2. Collected'
      BY <1>c, <2>1 DEF Collected, grantsURI
  <2>3. Checked'
      BY <1>c, <1>l, <2>1 DEF Checked
  <2> QED
      BY <1>t, <1>c, <2>1, <2>2, <2>3 DEF Fresh, Start, NotYet, Answered, answered
<1>5. CASE check
  <2>1. pc = "check" /\ j \in 1 .. Len(requiredOps) /\ i = Len(macOps) + 1 /\ i' = i
        /\ mac = "good" /\ knownURI /\ UNCHANGED <<requiredOps, knownURI, macOpsMap>>
      BY <1>5, <1>l DEF check, TypeOK, Checked, Collected, inputs
  <2>2. requiredOps[j].entity \in Entity /\ requiredOps[j].action \in Action
    <3>1. requiredOps[j] \in RequiredOp
        BY <2>1 DEF TypeOK
    <3> QED
        BY <3>1 DEF RequiredOp
  <2>3. requiredOps[j].action \in macOpsMap[requiredOps[j].entity]
        <=> granted(requiredOps[j])
      BY <1>l, <2>1, <2>2 DEF Collected, granted
  <2>4. CASE granted(requiredOps[j])
    <3>1. pc' = "check" /\ j' = j + 1 /\ answer' = answer
        BY <1>5, <2>1, <2>3, <2>4 DEF check
    <3>2. \A k \in 1 .. Len(requiredOps) : k < j + 1 => granted(requiredOps[k])
        BY <1>l, <2>1, <2>4 DEF Checked
    <3>3. Checked'
        BY <1>c, <2>1, <3>1, <3>2 DEF Checked, granted
    <3>4. Collected'
        BY <1>c, <2>1, <3>1 DEF Collected, grantsURI
    <3> QED
        BY <1>t, <1>c, <2>1, <3>1, <3>3, <3>4 DEF Fresh, Start, NotYet, Answered,
                                             answered
  <2>5. CASE ~granted(requiredOps[j])
    <3>1. pc' = "HasPermissions" /\ ~answer'
        BY <1>5, <2>3, <2>5 DEF check
    <3>2. permitted => ~wasm /\ isCustom(macOps)
      <4>1. SUFFICES ASSUME permitted PROVE ~wasm /\ isCustom(macOps)
          OBVIOUS
      <4>2. PICK k \in 1 .. Len(macOps) :
                macOps[k].entity = "uri" /\ uri \in macOps[k].actions
          BY <1>l, <2>1, <2>5, <4>1 DEF permitted, granted
      <4>3. k < i
          BY <1>l, <2>1, <4>2
      <4> QED
          BY <1>l, <2>1, <4>2, <4>3 DEF Collected, grantsURI, isCustom
    <3>3. permitted' <=> permitted
        BY <1>c, <2>1 DEF permitted, granted
    <3> QED
        BY <1>t, <1>c, <2>1, <3>1, <3>2, <3>3 DEF Collected, Checked, Fresh, Start,
                                             NotYet, Answered, answered
  <2> QED
      BY <2>4, <2>5
<1>6. CASE checkEnds
  <2>1. pc = "check" /\ j = Len(requiredOps) + 1 /\ pc' = "HasPermissions" /\ answer'
        /\ mac = "good" /\ knownURI /\ UNCHANGED <<requiredOps, knownURI>>
      BY <1>6, <1>l DEF checkEnds, returns, TypeOK, Collected, inputs
  <2>2. permitted'
      BY <1>c, <1>l, <2>1 DEF Checked, permitted, granted
  <2> QED
      BY <1>t, <1>c, <2>1, <2>2 DEF Collected, Checked, Fresh, Start, NotYet, Answered,
                                    answered
<1>7. CASE UNCHANGED vars
    BY <1>t, <1>c, <1>7 DEF vars, Collected, Checked, Fresh, Start, NotYet, Answered,
                       answered, permitted, granted, grantsURI, isCustom
<1> QED
    BY <1>1, <1>2, <1>3, <1>4, <1>5, <1>6, <1>7 DEF Next

-----------------------------------------------------------------------------
\* The invariant holds throughout.
LEMMA Invariance == Spec => []IInv
BY InitIInv, LoopStep, PTL DEF Spec

\* HasPermissions of either client never claims a permission that the macaroon
\* does not grant.
THEOREM NeverClaimed == Spec => []Sound
<1>1. IInv => Sound
    BY DEF IInv, Answered, Sound
<1> QED
    BY Invariance, <1>1, PTL

\* HasPermissions of either client is exact for sessions that are not custom.
THEOREM PlainIsExact == Spec => []PlainExact
<1>1. IInv => PlainExact
    BY Zenon DEF IInv, TypeOK, Answered, PlainExact
<1> QED
    BY Invariance, <1>1, PTL

\* HasPermissions of the WASM client is exact.
THEOREM WasmIsExact == Spec => []Exact
<1>1. IInv => Exact
    BY Zenon DEF IInv, TypeOK, Answered, Exact
<1> QED
    BY Invariance, <1>1, PTL

\* A session that is read-only is never said to have the permission for an RPC
\* that writes.
THEOREM ReadOnlyOnlyReads == Spec => []ReadOnlyReads
<1>1. IInv => ReadOnlyReads
  <2> SUFFICES ASSUME TypeOK, Sound, answered, answer, isReadOnly(macOps),
                      NEW k \in DOMAIN requiredOps
               PROVE  requiredOps[k].action = "read"
      BY DEF IInv, Answered, Sound, ReadOnlyReads
  <2>1. ~granted([entity |-> "uri", action |-> uri])
      BY ActionAssumption DEF granted, isReadOnly, TypeOK
  <2>2. granted(requiredOps[k])
      BY <2>1, Zenon DEF Sound, permitted
  <2> QED
      BY <2>2 DEF granted, isReadOnly
<1> QED
    BY Invariance, <1>1, PTL

\* HasPermissions claims what is granted, for any number of operations.
THEOREM PermissionsAreTold == Spec => []PermissionsTold
<1>1. Sound /\ Exact /\ PlainExact /\ ReadOnlyReads => PermissionsTold
    BY DEF PermissionsTold
<1> QED
    BY <1>1, NeverClaimed, WasmIsExact, PlainIsExact, ReadOnlyOnlyReads, PTL

-----------------------------------------------------------------------------
(***************************************************************************)
(* The WASM client. An attempt that has come to dialing has set the        *)
(* status, one that has the auth data the macaroon. On an orderly page one *)
(* goroutine is at work at a time, none of ConnectServer while there is a  *)
(* connection, and the others only while there is one.                     *)
(***************************************************************************)

connecting(a) == attempt[a] \notin {"none", "done"}
disconnecting(d) == disconnect[d] \in {"start", "closed"}
invoking(r) == call[r] = "start"

WasmReady ==
    /\ \A a \in Attempts : attempt[a] \in {"dial", "auth", "done"} => statusChecker # 0
    /\ \A a \in Attempts : attempt[a] \in {"auth", "done"} => hasMac
    /\ lndConn # 0 => statusChecker # 0 /\ hasMac

OneAtATime ==
    /\ \A a, c \in Attempts : connecting(a) /\ connecting(c) => a = c
    /\ \A d, e \in Disconnects : disconnecting(d) /\ disconnecting(e) => d = e
    /\ \A a \in Attempts, d \in Disconnects : ~(connecting(a) /\ disconnecting(d))
    /\ \A a \in Attempts, r \in Calls : ~(connecting(a) /\ invoking(r))
    /\ \A d \in Disconnects, r \in Calls : ~(disconnecting(d) /\ invoking(r))

WasmConn ==
    /\ \A a \in Attempts : connecting(a) => lndConn = 0
    /\ \A d \in Disconnects : disconnecting(d) => lndConn # 0
    /\ \A r \in Calls : invoking(r) => lndConn # 0
    /\ \A a \in Attempts : grpcConn[a] = "open" => lndConn = a
    /\ lndConn # 0 => \/ grpcConn[lndConn] = "open"
                      \/ \E d \in Disconnects : disconnect[d] = "closed"
    /\ \A d \in Disconnects : disconnect[d] = "closed" =>
           \A a \in Attempts : grpcConn[a] # "open"

WasmIInv ==
    /\ W!TypeOK /\ WasmReady /\ W!CallbacksProvided /\ W!CallsHaveConn
    /\ orderly /\ W!running => OneAtATime /\ WasmConn

\* It holds when the page is loaded.
LEMMA WasmStarts == ASSUME W!Init PROVE WasmIInv
<1>1. W!TypeOK
    BY Zenon DEF W!Init, W!TypeOK
<1>2. WasmReady /\ W!CallbacksProvided /\ W!CallsHaveConn
    BY DEF W!Init, WasmReady, W!CallbacksProvided, W!CallsHaveConn
<1>3. OneAtATime /\ WasmConn
    BY ClientsAssumption
       DEF W!Init, OneAtATime, WasmConn, connecting, disconnecting, invoking
<1> QED
    BY <1>1, <1>2, <1>3 DEF WasmIInv

\* What the WASM client promises follows.
LEMMA WasmPromises == ASSUME WasmIInv PROVE W!WasmInv
<1>1. W!ConnectedIsReady
    BY DEF WasmIInv, WasmReady, W!ConnectedIsReady
<1>2. W!NoOrphan
  <2> SUFFICES ASSUME orderly, W!running, W!idle, NEW a \in Attempts
               PROVE  (grpcConn[a] = "open") = (lndConn = a)
      BY DEF W!NoOrphan
  <2>1. WasmConn /\ 0 \notin Attempts
      BY ClientsAssumption DEF WasmIInv
  <2>2. \A d \in Disconnects : disconnect[d] # "closed"
      BY DEF W!idle
  <2>3. grpcConn[a] = "open" <=> lndConn = a
      BY <2>1, <2>2 DEF WasmConn
  <2> QED
      BY <2>3
<1> QED
    BY <1>1, <1>2 DEF WasmIInv, W!WasmInv

\* The page calls or main returns, the process exits.
LEMMA WasmExits ==
    ASSUME WasmIInv, W!exit, orderly' = orderly PROVE WasmIInv'
<1>1. /\ process' = "exited" /\ lndConn' = lndConn /\ statusChecker' = statusChecker
      /\ hasMac' = hasMac /\ attempt' = attempt /\ grpcConn' = grpcConn
      /\ disconnect' = disconnect /\ call' = call /\ callConn' = callConn
    BY DEF W!exit, W!client, W!attempts, W!calls
<1>2. W!TypeOK'
    BY <1>1, Zenon DEF WasmIInv, W!TypeOK
<1>3. WasmReady' /\ W!CallbacksProvided' /\ W!CallsHaveConn' /\ ~W!running'
    BY <1>1, Zenon
       DEF WasmIInv, WasmReady, W!CallbacksProvided, W!CallsHaveConn, W!running
<1> QED
    BY <1>2, <1>3 DEF WasmIInv

\* ConnectServer and its goroutine.
LEMMA ConnectServerKeeps ==
    ASSUME WasmIInv, NEW a \in Attempts, NEW local \in BOOLEAN, NEW remote \in BOOLEAN,
           W!ConnectServer(a, local, remote), orderly' = orderly
    PROVE  WasmIInv'
<1>1. /\ attempt[a] = "none" /\ attempt' = [attempt EXCEPT ![a] = "start"]
      /\ lndConn' = lndConn /\ statusChecker' = statusChecker /\ hasMac' = hasMac
      /\ grpcConn' = grpcConn /\ disconnect' = disconnect /\ call' = call
      /\ callConn' = callConn /\ (orderly => W!idle /\ lndConn = 0)
    BY DEF W!ConnectServer, W!client, W!calls
<1>2. process' = process /\ W!running
    BY Zenon DEF W!ConnectServer, W!validateArgs, W!parseKeys, W!callJsCallback
<1>3. W!TypeOK /\ WasmReady /\ attempt \in [Attempts -> {"none", "start", "dial", "auth", "done"}]
    BY Zenon DEF WasmIInv, W!TypeOK
<1>4. attempt'[a] = "start" /\ \A c \in Attempts : c # a => attempt'[c] = attempt[c]
    BY <1>1, <1>3
<1>5. W!TypeOK'
    BY <1>1, <1>2, <1>3, Zenon DEF W!TypeOK
<1>6. WasmReady' /\ W!CallbacksProvided' /\ W!CallsHaveConn'
    BY <1>1, <1>2, <1>3, <1>4, Zenon
       DEF WasmIInv, WasmReady, W!CallbacksProvided, W!CallsHaveConn
<1>7. ASSUME orderly PROVE OneAtATime' /\ WasmConn'
  <2>1. /\ \A c \in Attempts : ~connecting(c) /\ (connecting(c)' => c = a)
        /\ \A d \in Disconnects : ~disconnecting(d)'
        /\ \A r \in Calls : ~invoking(r)'
      BY <1>1, <1>3, <1>4, <1>7 DEF W!idle, connecting, disconnecting, invoking
  <2>2. WasmConn
      BY <1>2, <1>7 DEF WasmIInv
  <2>3. OneAtATime'
      BY <2>1 DEF OneAtATime
  <2>4. WasmConn'
      BY <1>1, <1>7, <2>1, <2>2 DEF WasmConn
  <2> QED
      BY <2>3, <2>4
<1> QED
    BY <1>5, <1>6, <1>7 DEF WasmIInv

\* An attempt goes on, without a connection.
LEMMA AttemptKeeps ==
    ASSUME WasmIInv, NEW a \in Attempts, W!running,
           W!setsStatus(a) \/ W!onAuthData(a), process' = process, orderly' = orderly
    PROVE  WasmIInv'
<1>0. /\ W!TypeOK /\ WasmReady /\ 0 \notin Attempts
      /\ attempt \in [Attempts -> {"none", "start", "dial", "auth", "done"}]
    BY ClientsAssumption, Zenon DEF WasmIInv, W!TypeOK
<1>1. /\ lndConn' = lndConn /\ grpcConn' = grpcConn /\ disconnect' = disconnect
      /\ call' = call /\ callConn' = callConn
      /\ \A c \in Attempts : c # a => attempt'[c] = attempt[c]
      /\ attempt' \in [Attempts -> {"none", "start", "dial", "auth", "done"}]
    BY <1>0 DEF W!setsStatus, W!onAuthData, W!calls
<1>2. /\ attempt'[a] = "none" <=> attempt[a] = "none"
      /\ attempt'[a] = "done" <=> attempt[a] = "done"
    BY <1>0 DEF W!setsStatus, W!onAuthData
<1>3. W!TypeOK' /\ WasmReady'
  <2>1. CASE W!setsStatus(a)
    <3>1. /\ attempt[a] = "start" /\ statusChecker' = a /\ hasMac' = hasMac
          /\ attempt'[a] = "dial"
        BY <1>0, <2>1 DEF W!setsStatus
    <3>2. W!TypeOK'
        BY <1>0, <1>1, <3>1, Zenon DEF W!TypeOK
    <3>3. WasmReady'
        BY <1>0, <1>1, <3>1 DEF WasmReady
    <3> QED
        BY <3>2, <3>3
  <2>2. CASE W!onAuthData(a)
    <3>1. /\ statusChecker' = statusChecker /\ hasMac' = TRUE
          /\ attempt'[a] = IF attempt[a] = "dial" THEN "auth" ELSE attempt[a]
        BY <1>0, <2>2 DEF W!onAuthData
    <3>2. W!TypeOK'
        BY <1>0, <1>1, <3>1, Zenon DEF W!TypeOK
    <3>3. WasmReady'
        BY <1>0, <1>1, <3>1 DEF WasmReady
    <3> QED
        BY <3>2, <3>3
  <2> QED
      BY <2>1, <2>2
<1>4. W!CallbacksProvided' /\ W!CallsHaveConn'
    BY <1>1, Zenon DEF WasmIInv, W!CallbacksProvided, W!CallsHaveConn
<1>5. /\ \A c \in Attempts : connecting(c)' <=> connecting(c)
      /\ \A d \in Disconnects : disconnecting(d)' <=> disconnecting(d)
      /\ \A r \in Calls : invoking(r)' <=> invoking(r)
    BY <1>1, <1>2 DEF connecting, disconnecting, invoking
<1>6. ASSUME orderly PROVE OneAtATime' /\ WasmConn'
  <2>1. OneAtATime /\ WasmConn
      BY <1>6 DEF WasmIInv
  <2>2. OneAtATime'
      BY <1>5, <2>1 DEF OneAtATime
  <2>3. WasmConn'
      BY <1>1, <1>5, <2>1 DEF WasmConn
  <2> QED
      BY <2>2, <2>3
<1> QED
    BY <1>3, <1>4, <1>6 DEF WasmIInv

\* The callbacks of the handshake are configured.
LEMMA CallbackKeeps ==
    ASSUME WasmIInv, {"OnRemoteKeyReceive", "OnAuthData"} \subseteq Configured,
           NEW a \in Attempts, W!onRemoteStatic(a) \/ W!onAuthData(a) \/ W!setsStatus(a),
           orderly' = orderly
    PROVE  WasmIInv'
<1>1. process' = process /\ W!running
    BY DEF W!onRemoteStatic, W!onAuthData, W!setsStatus, W!callJsCallback
<1>2. CASE W!onRemoteStatic(a)
  <2>1. /\ lndConn' = lndConn /\ statusChecker' = statusChecker
        /\ hasMac' = hasMac /\ attempt' = attempt /\ grpcConn' = grpcConn
        /\ disconnect' = disconnect /\ call' = call /\ callConn' = callConn
      BY <1>2 DEF W!onRemoteStatic, W!client, W!attempts, W!calls
  <2>2. W!TypeOK' /\ WasmReady'
      BY <1>1, <2>1, Zenon DEF WasmIInv, W!TypeOK, WasmReady
  <2>3. W!CallbacksProvided' /\ W!CallsHaveConn'
      BY <1>1, <2>1, Zenon DEF WasmIInv, W!CallbacksProvided, W!CallsHaveConn
  <2>4. OneAtATime /\ WasmConn => OneAtATime' /\ WasmConn'
      BY <2>1 DEF OneAtATime, WasmConn, connecting, disconnecting, invoking
  <2> QED
      BY <1>1, <2>2, <2>3, <2>4 DEF WasmIInv, W!running
<1> QED
    BY <1>1, <1>2, AttemptKeeps

\* lndConnect.
LEMMA LndConnectKeeps ==
    ASSUME WasmIInv, NEW a \in Attempts, W!lndConnect(a), orderly' = orderly
    PROVE  WasmIInv'
<1>0. /\ W!TypeOK /\ WasmReady /\ a # 0
      /\ attempt \in [Attempts -> {"none", "start", "dial", "auth", "done"}]
      /\ grpcConn \in [Attempts -> {"none", "open", "closed"}]
    BY ClientsAssumption, Zenon DEF WasmIInv, W!TypeOK
<1>1. /\ attempt[a] = "auth" /\ lndConn' = a /\ statusChecker' = statusChecker
      /\ hasMac' = hasMac /\ disconnect' = disconnect /\ call' = call
      /\ callConn' = callConn /\ process' = process
      /\ attempt' = [attempt EXCEPT ![a] = "done"]
      /\ grpcConn' = [grpcConn EXCEPT ![a] = "open"]
    BY DEF W!lndConnect, W!calls
<1>2. /\ attempt'[a] = "done" /\ grpcConn'[a] = "open"
      /\ \A c \in Attempts : c # a => attempt'[c] = attempt[c] /\ grpcConn'[c] = grpcConn[c]
    BY <1>0, <1>1
<1>3. W!TypeOK'
    BY <1>0, <1>1, Zenon DEF W!TypeOK
<1>4. WasmReady'
    BY <1>0, <1>1, <1>2 DEF WasmReady
<1>5. W!CallbacksProvided' /\ W!CallsHaveConn'
    BY <1>1, Zenon DEF WasmIInv, W!CallbacksProvided, W!CallsHaveConn
<1>6. ASSUME orderly, W!running PROVE OneAtATime' /\ WasmConn'
  <2>1. OneAtATime /\ WasmConn /\ connecting(a)
      BY <1>1, <1>6 DEF WasmIInv, connecting
  <2>2. lndConn = 0 /\ \A c \in Attempts : grpcConn[c] # "open"
      BY <1>0, <2>1, ClientsAssumption DEF WasmConn
  <2>3. /\ \A c \in Attempts : ~connecting(c)'
        /\ \A d \in Disconnects : ~disconnecting(d)'
        /\ \A r \in Calls : ~invoking(r)'
      BY <1>1, <1>2, <2>1 DEF OneAtATime, connecting, disconnecting, invoking
  <2>4. OneAtATime'
      BY <2>3 DEF OneAtATime
  <2>5. WasmConn'
      BY <1>1, <1>2, <2>2, <2>3 DEF WasmConn, disconnecting
  <2> QED
      BY <2>4, <2>5
<1> QED
    BY <1>1, <1>3, <1>4, <1>5, <1>6 DEF WasmIInv, W!running

\* Disconnect and its goroutine.
LEMMA DisconnectKeeps ==
    ASSUME WasmIInv, NEW d \in Disconnects,
           W!Disconnect(d) \/ W!disconnectCloses(d) \/ W!disconnectEnds(d),
           orderly' = orderly
    PROVE  WasmIInv'
<1>0. /\ W!TypeOK /\ WasmReady
      /\ disconnect \in [Disconnects -> {"none", "start", "closed", "done", "ignored"}]
      /\ grpcConn \in [Attempts -> {"none", "open", "closed"}]
      /\ lndConn \in Attempts \cup {0} /\ 0 \notin Attempts
    BY ClientsAssumption, Zenon DEF WasmIInv, W!TypeOK
<1>1. /\ statusChecker' = statusChecker /\ hasMac' = hasMac /\ attempt' = attempt
      /\ call' = call /\ callConn' = callConn /\ W!running
    BY Zenon DEF W!Disconnect, W!disconnectCloses, W!disconnectEnds, W!client, W!attempts,
        W!calls
<1>2. W!CallsHaveConn'
    BY <1>1 DEF WasmIInv, W!CallsHaveConn
<1>3. CASE W!Disconnect(d)
  <2>1. /\ lndConn' = lndConn /\ grpcConn' = grpcConn /\ process' = process
        /\ disconnect[d] = "none" /\ (orderly => W!idle)
        /\ disconnect' = [disconnect EXCEPT ![d] =
                              IF lndConn # 0 THEN "start" ELSE "ignored"]
      BY <1>3 DEF W!Disconnect, W!client, W!attempts
  <2>2. /\ disconnect'[d] = (IF lndConn # 0 THEN "start" ELSE "ignored")
        /\ \A e \in Disconnects : e # d => disconnect'[e] = disconnect[e]
      BY <1>0, <2>1
  <2>3. W!TypeOK' /\ WasmReady'
      BY <1>0, <1>1, <2>1, Zenon DEF W!TypeOK, WasmReady
  <2>4. ASSUME orderly PROVE OneAtATime' /\ WasmConn'
    <3>1. /\ \A c \in Attempts : ~connecting(c)'
          /\ \A e \in Disconnects : disconnecting(e)' => e = d /\ lndConn # 0
          /\ \A r \in Calls : ~invoking(r)'
        BY <1>1, <2>1, <2>2, <2>4 DEF W!idle, connecting, disconnecting, invoking
    <3>2. /\ WasmConn /\ \A e \in Disconnects : disconnect[e] # "closed"
        BY <1>1, <2>1, <2>4 DEF WasmIInv, W!idle
    <3>3. OneAtATime'
        BY <3>1 DEF OneAtATime
    <3>4. WasmConn'
        BY <2>1, <3>1, <3>2 DEF WasmConn
    <3> QED
        BY <3>3, <3>4
  <2> QED
      BY <1>2, <2>1, <2>3, <2>4, Zenon DEF WasmIInv, W!CallbacksProvided
<1>4. CASE W!disconnectCloses(d)
  <2>0. disconnect[d] = "start" /\ lndConn' = lndConn
      BY <1>4, Zenon DEF W!disconnectCloses, W!client
  <2>1. CASE lndConn = 0
    <3>1. process' = "nil connection" /\ grpcConn' = grpcConn /\ disconnect' = disconnect
        BY <1>4, <2>1, Zenon DEF W!disconnectCloses
    <3>2. W!TypeOK' /\ WasmReady'
        BY <1>0, <1>1, <2>0, <3>1, Zenon DEF W!TypeOK, WasmReady
    <3> QED
        BY <1>2, <3>1, <3>2, Zenon DEF WasmIInv, W!CallbacksProvided, W!running
  <2>2. CASE lndConn # 0
    <3>1. /\ process' = process /\ lndConn \in Attempts
          /\ grpcConn' = [grpcConn EXCEPT ![lndConn] = "closed"]
          /\ disconnect' = [disconnect EXCEPT ![d] = "closed"]
        BY <1>0, <1>4, <2>2 DEF W!disconnectCloses
    <3>2. /\ disconnect'[d] = "closed"
          /\ \A e \in Disconnects : e # d => disconnect'[e] = disconnect[e]
          /\ grpcConn'[lndConn] = "closed"
          /\ \A a \in Attempts : a # lndConn => grpcConn'[a] = grpcConn[a]
        BY <1>0, <3>1
    <3>3. W!TypeOK' /\ WasmReady'
        BY <1>0, <1>1, <2>0, <3>1, Zenon DEF W!TypeOK, WasmReady
    <3>4. /\ \A c \in Attempts : connecting(c)' <=> connecting(c)
          /\ \A e \in Disconnects : disconnecting(e)' <=> disconnecting(e)
          /\ \A r \in Calls : invoking(r)' <=> invoking(r)
        BY <1>1, <2>0, <3>2 DEF connecting, disconnecting, invoking
    <3>5. ASSUME OneAtATime, WasmConn PROVE OneAtATime' /\ WasmConn'
      <4>1. OneAtATime'
          BY <3>4, <3>5 DEF OneAtATime
      <4>2. WasmConn'
          BY <2>0, <3>2, <3>4, <3>5, Zenon DEF WasmConn
      <4> QED
          BY <4>1, <4>2
    <3> QED
        BY <1>1, <1>2, <3>1, <3>3, <3>5 DEF WasmIInv, W!CallbacksProvided, W!running
  <2> QED
      BY <2>1, <2>2
<1>5. CASE W!disconnectEnds(d)
  <2>1. /\ disconnect[d] = "closed" /\ lndConn' = 0 /\ grpcConn' = grpcConn
        /\ process' = process /\ disconnect' = [disconnect EXCEPT ![d] = "done"]
      BY <1>5 DEF W!disconnectEnds, W!attempts
  <2>2. /\ disconnect'[d] = "done"
        /\ \A e \in Disconnects : e # d => disconnect'[e] = disconnect[e]
      BY <1>0, <2>1
  <2>3. W!TypeOK' /\ WasmReady'
      BY <1>0, <1>1, <2>1, Zenon DEF W!TypeOK, WasmReady
  <2>4. ASSUME OneAtATime, WasmConn PROVE OneAtATime' /\ WasmConn'
    <3>1. disconnecting(d)
        BY <2>1 DEF disconnecting
    <3>2. /\ \A c \in Attempts : ~connecting(c)'
          /\ \A e \in Disconnects : ~disconnecting(e)'
          /\ \A r \in Calls : ~invoking(r)'
        BY <1>1, <2>2, <2>4, <3>1 DEF OneAtATime, connecting, disconnecting, invoking
    <3>3. \A a \in Attempts : grpcConn[a] # "open"
        BY <2>1, <2>4 DEF WasmConn
    <3>4. OneAtATime'
        BY <3>2 DEF OneAtATime
    <3>5. WasmConn'
        BY <2>1, <3>2, <3>3 DEF WasmConn
    <3> QED
        BY <3>4, <3>5
  <2> QED
      BY <1>1, <1>2, <2>1, <2>3, <2>4 DEF WasmIInv, W!CallbacksProvided, W!running
<1> QED
    BY <1>3, <1>4, <1>5

\* InvokeRPC and its goroutine.
LEMMA InvokeKeeps ==
    ASSUME WasmIInv, NEW r \in Calls, W!InvokeRPC(r) \/ W!method(r), orderly' = orderly
    PROVE  WasmIInv'
<1>0. /\ W!TypeOK /\ WasmReady /\ call \in [Calls -> {"none", "start", "called"}]
      /\ callConn \in [Calls -> Attempts \cup {0}] /\ lndConn \in Attempts \cup {0}
    BY Zenon DEF WasmIInv, W!TypeOK
<1>1. /\ lndConn' = lndConn /\ statusChecker' = statusChecker /\ hasMac' = hasMac
      /\ attempt' = attempt /\ grpcConn' = grpcConn /\ disconnect' = disconnect
      /\ process' = process /\ W!running
    BY DEF W!InvokeRPC, W!method, W!client, W!attempts
<1>2. WasmReady' /\ W!CallbacksProvided'
    BY <1>0, <1>1, Zenon DEF WasmIInv, WasmReady, W!CallbacksProvided
<1>3. /\ \A c \in Attempts : connecting(c)' <=> connecting(c)
      /\ \A e \in Disconnects : disconnecting(e)' <=> disconnecting(e)
    BY <1>1 DEF connecting, disconnecting
<1>4. CASE W!InvokeRPC(r)
  <2>1. /\ call' = [call EXCEPT ![r] = "start"] /\ callConn' = callConn
        /\ lndConn # 0 /\ (orderly => W!idle)
      BY <1>4 DEF W!InvokeRPC
  <2>2. call'[r] = "start" /\ \A q \in Calls : q # r => call'[q] = call[q]
      BY <1>0, <2>1
  <2>3. W!TypeOK'
      BY <1>0, <1>1, <2>1, Zenon DEF W!TypeOK
  <2>4. W!CallsHaveConn'
      BY <2>1, <2>2 DEF WasmIInv, W!CallsHaveConn
  <2>5. ASSUME orderly PROVE OneAtATime' /\ WasmConn'
    <3>1. /\ OneAtATime /\ WasmConn
          /\ \A c \in Attempts : ~connecting(c)
          /\ \A e \in Disconnects : ~disconnecting(e)
        BY <1>0, <1>1, <2>1, <2>5 DEF WasmIInv, W!idle, connecting, disconnecting
    <3>2. OneAtATime'
        BY <1>3, <3>1 DEF OneAtATime
    <3>3. WasmConn'
        BY <1>1, <1>3, <2>1, <3>1 DEF WasmConn
    <3> QED
        BY <3>2, <3>3
  <2> QED
      BY <1>2, <2>3, <2>4, <2>5 DEF WasmIInv
<1>5. CASE W!method(r)
  <2>1. /\ call[r] = "start" /\ call' = [call EXCEPT ![r] = "called"]
        /\ callConn' = [callConn EXCEPT ![r] = lndConn]
      BY <1>5 DEF W!method
  <2>2. /\ call'[r] = "called" /\ callConn'[r] = lndConn
        /\ \A q \in Calls : q # r => call'[q] = call[q] /\ callConn'[q] = callConn[q]
      BY <1>0, <2>1
  <2>3. W!TypeOK'
      BY <1>0, <1>1, <2>1, Zenon DEF W!TypeOK
  <2>4. \A q \in Calls : invoking(q)' => invoking(q)
      BY <2>2 DEF invoking
  <2>5. ASSUME orderly PROVE OneAtATime' /\ WasmConn' /\ lndConn # 0
    <3>1. OneAtATime /\ WasmConn
        BY <1>1, <2>5 DEF WasmIInv
    <3>2. OneAtATime'
        BY <1>3, <2>4, <3>1 DEF OneAtATime
    <3>3. WasmConn'
        BY <1>1, <1>3, <2>4, <3>1 DEF WasmConn
    <3>4. lndConn # 0
        BY <2>1, <3>1 DEF WasmConn, invoking
    <3> QED
        BY <3>2, <3>3, <3>4
  <2>6. W!CallsHaveConn'
      BY <2>2, <2>5 DEF WasmIInv, W!CallsHaveConn
  <2> QED
      BY <1>2, <2>3, <2>5, <2>6 DEF WasmIInv
<1> QED
    BY <1>4, <1>5

\* Every step keeps the invariant.
LEMMA WasmKeeps ==
    ASSUME WasmIInv, {"OnRemoteKeyReceive", "OnAuthData"} \subseteq Configured,
           W!Next, orderly' = orderly
    PROVE  WasmIInv'
<1>1. ASSUME NEW a \in Attempts, W!connectExits(a) PROVE WasmIInv'
    BY <1>1, WasmExits DEF W!connectExits
<1>2. CASE W!shutdown
    BY <1>2, WasmExits DEF W!shutdown
<1> QED
    BY <1>1, <1>2, ConnectServerKeeps, CallbackKeeps, LndConnectKeeps, DisconnectKeeps,
        InvokeKeeps DEF W!Next, W!goroutine

-----------------------------------------------------------------------------
(***************************************************************************)
(* The mobile client. An attempt past its start works for a client, and    *)
(* what a client has is the open connection of an attempt that has worked  *)
(* for it. An orderly app has one client, and one attempt at a time, which *)
(* goes on only while the client has no connection.                        *)
(***************************************************************************)

Stages == {"none", "start", "client", "dial", "auth", "connected", "done", "failed"}

MobileConns ==
    /\ \A a \in Attempts :
          /\ attempt[a] # "none" => m # 0
          /\ attempt[a] \notin {"none", "start"} => mc[a] # 0
          /\ attempt[a] \notin {"connected", "done"} => grpcConn[a] = "none"
          /\ attempt[a] = "connected" => grpcConn[a] = "open"
    /\ \A c \in Clients : lndConn[c] # 0 =>
          /\ attempt[lndConn[c]] = "done" /\ mc[lndConn[c]] = c
          /\ grpcConn[lndConn[c]] = "open"

MobileOrderly ==
    /\ ~missed
    /\ \A a \in Attempts : /\ attempt[a] # "none" => callbacks[m] = M!Callback
                           /\ attempt[a] \notin {"none", "start"} => mc[a] = m
    /\ \A a, c \in M!pending : a = c
    /\ \A a \in M!pending : lndConn[m] = 0
    /\ \A a \in Attempts : grpcConn[a] = "open" => a \in M!pending \/ lndConn[m] = a
    /\ \A r \in Calls : call[r] = "start" => callClient[r] = m /\ lndConn[m] # 0

MobileIInv ==
    /\ M!TypeOK /\ MobileConns /\ M!CallsHaveConn
    /\ orderly => MobileOrderly

\* It holds before InitLNC.
LEMMA MobileStarts == ASSUME M!Init PROVE MobileIInv
<1>1. M!TypeOK
    BY Zenon DEF M!Init, M!TypeOK
<1>2. M!CallsHaveConn /\ MobileConns
    BY DEF M!Init, MobileConns, M!CallsHaveConn
<1>3. M!pending = {}
    BY DEF M!Init, M!pending
<1>4. MobileOrderly
    BY <1>3 DEF M!Init, MobileOrderly
<1> QED
    BY <1>1, <1>2, <1>4 DEF MobileIInv

\* What the mobile client promises follows.
LEMMA MobilePromises == ASSUME MobileIInv PROVE M!MobileInv
<1>1. M!ConnectedIsOpen
    BY DEF MobileIInv, MobileConns, M!ConnectedIsOpen
<1>2. M!NoOrphan
    BY DEF MobileIInv, MobileOrderly, M!NoOrphan
<1>3. M!CallbacksProvided
    BY DEF MobileIInv, MobileOrderly, M!CallbacksProvided
<1> QED
    BY <1>1, <1>2, <1>3 DEF MobileIInv, M!MobileInv

\* InitLNC; the client of an orderly app is the first one.
LEMMA InitLNCKeeps == ASSUME MobileIInv, M!InitLNC, orderly' = orderly PROVE MobileIInv'
<1>1. /\ m' \in Clients /\ m' # 0 /\ (orderly => m = 0)
      /\ lndConn' = lndConn /\ callbacks' = callbacks /\ statusChecker' = statusChecker
      /\ hasMac' = hasMac /\ attempt' = attempt /\ mc' = mc /\ grpcConn' = grpcConn
      /\ call' = call /\ callClient' = callClient /\ callConn' = callConn
      /\ missed' = missed
    BY ClientsAssumption DEF M!InitLNC, M!attempts, M!calls
<1>2. M!TypeOK'
    BY <1>1 DEF MobileIInv, M!TypeOK
<1>3. MobileConns' /\ M!CallsHaveConn'
    BY <1>1, Zenon DEF MobileIInv, MobileConns, M!CallsHaveConn
<1>4. ASSUME orderly PROVE MobileOrderly'
  <2>1. m = 0 /\ MobileOrderly /\ MobileConns /\ M!TypeOK
      BY <1>1, <1>4 DEF MobileIInv
  <2>2. \A a \in Attempts : attempt[a] = "none" /\ grpcConn[a] = "none"
      BY <2>1 DEF MobileConns
  <2>3. M!pending' = {}
      BY <1>1, <2>2 DEF M!pending
  <2>4. \A r \in Calls : call[r] # "start"
      BY <2>1 DEF MobileOrderly, M!TypeOK
  <2> QED
      BY <1>1, <2>1, <2>2, <2>3, <2>4, Zenon DEF MobileOrderly
<1> QED
    BY <1>2, <1>3, <1>4 DEF MobileIInv

\* A callback is registered.
LEMMA RegisterKeeps ==
    ASSUME MobileIInv, NEW cb \in M!Callback, M!Register(cb), orderly' = orderly
    PROVE  MobileIInv'
<1>0. M!TypeOK /\ callbacks \in [Clients -> SUBSET M!Callback] /\ m \in Clients \cup {0}
    BY DEF MobileIInv, M!TypeOK
<1>1. /\ m # 0 /\ callbacks' = [callbacks EXCEPT ![m] = @ \cup {cb}]
      /\ m' = m /\ lndConn' = lndConn /\ statusChecker' = statusChecker
      /\ hasMac' = hasMac /\ attempt' = attempt /\ mc' = mc /\ grpcConn' = grpcConn
      /\ call' = call /\ callClient' = callClient /\ callConn' = callConn
      /\ missed' = missed
    BY DEF M!Register, M!attempts, M!calls
<1>2. M!TypeOK'
    BY <1>0, <1>1 DEF M!TypeOK
<1>3. MobileConns' /\ M!CallsHaveConn'
    BY <1>1 DEF MobileIInv, MobileConns, M!CallsHaveConn
<1>4. callbacks[m] = M!Callback => callbacks'[m] = M!Callback
    BY <1>0, <1>1
<1>5. M!pending' = M!pending
    BY <1>1 DEF M!pending
<1>6. MobileOrderly => MobileOrderly'
    BY <1>1, <1>4, <1>5 DEF MobileOrderly
<1> QED
    BY <1>2, <1>3, <1>6 DEF MobileIInv

\* ConnectServer begins.
LEMMA MobileConnects ==
    ASSUME MobileIInv, NEW a \in Attempts, NEW local \in BOOLEAN, NEW remote \in BOOLEAN,
           M!ConnectServer(a, local, remote), orderly' = orderly
    PROVE  MobileIInv'
<1>0. M!TypeOK /\ MobileConns /\ attempt \in [Attempts -> Stages] /\ missed \in BOOLEAN
    BY DEF MobileIInv, M!TypeOK, Stages
<1>1. /\ attempt[a] = "none" /\ m # 0 /\ attempt' = [attempt EXCEPT ![a] = "start"]
      /\ m' = m /\ lndConn' = lndConn /\ statusChecker' = statusChecker
      /\ hasMac' = hasMac /\ mc' = mc /\ grpcConn' = grpcConn /\ callbacks' = callbacks
      /\ call' = call /\ callClient' = callClient /\ callConn' = callConn
      /\ orderly => M!pending = {} /\ lndConn[m] = 0 /\ callbacks[m] = M!Callback
    BY DEF M!ConnectServer, M!clients, M!calls
<1>2. attempt'[a] = "start" /\ \A c \in Attempts : c # a => attempt'[c] = attempt[c]
    BY <1>0, <1>1
<1>3. missed' \in BOOLEAN
    BY <1>0, Zenon DEF M!ConnectServer, M!parseKeys, M!sends
<1>4. M!TypeOK'
    BY <1>0, <1>1, <1>3 DEF M!TypeOK, Stages
<1>5. MobileConns'
    BY <1>0, <1>1, <1>2 DEF MobileConns
<1>6. M!CallsHaveConn'
    BY <1>1, Zenon DEF MobileIInv, M!CallsHaveConn
<1>7. ASSUME orderly PROVE MobileOrderly'
  <2>1. MobileOrderly
      BY <1>7 DEF MobileIInv
  <2>2. ~missed'
      BY <1>1, <1>7, <2>1, Zenon DEF M!ConnectServer, M!parseKeys, M!sends, M!Callback,
          MobileOrderly
  <2>3. M!pending' = {a}
      BY <1>1, <1>2, <1>7 DEF M!pending
  <2> QED
      BY <1>1, <1>2, <1>7, <2>1, <2>2, <2>3 DEF MobileOrderly
<1> QED
    BY <1>4, <1>5, <1>6, <1>7 DEF MobileIInv

\* The attempt goes on, up to the connection.
LEMMA MobileGoesOn ==
    ASSUME MobileIInv, NEW a \in Attempts, orderly' = orderly,
           \/ M!getsClient(a) \/ M!attemptFails(a) \/ M!setsStatus(a)
           \/ M!onAuthData(a) \/ M!lndConnect(a)
    PROVE  MobileIInv'
<1>0. /\ M!TypeOK /\ MobileConns /\ attempt \in [Attempts -> Stages]
      /\ mc \in [Attempts -> Clients \cup {0}] /\ m \in Clients \cup {0}
      /\ hasMac \in [Clients -> BOOLEAN] /\ missed \in BOOLEAN
      /\ statusChecker \in [Clients -> Attempts \cup {0}]
      /\ grpcConn \in [Attempts -> {"none", "open", "closed"}]
    BY DEF MobileIInv, M!TypeOK, Stages
<1>1. /\ m' = m /\ lndConn' = lndConn /\ callbacks' = callbacks
      /\ call' = call /\ callClient' = callClient /\ callConn' = callConn
    BY DEF M!getsClient, M!attemptFails, M!setsStatus, M!onAuthData, M!lndConnect,
        M!clients, M!calls
<1>2. /\ attempt' \in [Attempts -> Stages] /\ mc' \in [Attempts -> Clients \cup {0}]
      /\ grpcConn' \in [Attempts -> {"none", "open", "closed"}]
      /\ \A c \in Attempts : c # a => /\ attempt'[c] = attempt[c] /\ mc'[c] = mc[c]
                                      /\ grpcConn'[c] = grpcConn[c]
    BY <1>0 DEF M!getsClient, M!attemptFails, M!setsStatus, M!onAuthData, M!lndConnect,
        Stages
<1>3. /\ statusChecker' \in [Clients -> Attempts \cup {0}]
      /\ hasMac' \in [Clients -> BOOLEAN]
    BY <1>0, ZenonT(40)
       DEF M!getsClient, M!attemptFails, M!setsStatus, M!onAuthData, M!lndConnect,
        M!clients
<1>4. missed' \in BOOLEAN
    BY <1>0, Zenon
       DEF M!getsClient, M!attemptFails, M!setsStatus, M!onAuthData, M!lndConnect,
        M!sends
<1>5. /\ attempt[a] # "none" /\ attempt'[a] \notin {"none", "start"}
      /\ mc'[a] = IF attempt[a] = "start" THEN m ELSE mc[a]
      /\ (attempt'[a] = "done" <=> attempt[a] = "done")
      /\ (attempt[a] = "connected" => attempt'[a] = "connected")
      /\ grpcConn'[a] = IF attempt'[a] = "connected" THEN "open" ELSE grpcConn[a]
  <2>1. CASE M!getsClient(a)
      BY <1>0, <2>1 DEF M!getsClient
  <2>2. CASE M!attemptFails(a) \/ M!setsStatus(a)
      BY <1>0, <2>2 DEF M!attemptFails, M!setsStatus
  <2>3. CASE M!onAuthData(a)
    <3>1. /\ attempt[a] \notin {"none", "start"} /\ grpcConn' = grpcConn /\ mc' = mc
          /\ attempt'[a] = IF attempt[a] = "dial" THEN "auth" ELSE attempt[a]
        BY <1>0, <2>3 DEF M!onAuthData, M!handshakes, MobileConns
    <3> QED
        BY <1>0, <3>1 DEF MobileConns
  <2>4. CASE M!lndConnect(a)
      BY <1>0, <2>4 DEF M!lndConnect
  <2> QED
      BY <2>1, <2>2, <2>3, <2>4
<1>6. M!TypeOK'
    BY <1>0, <1>1, <1>2, <1>3, <1>4 DEF M!TypeOK, Stages
<1>7. /\ m # 0 /\ mc'[a] # 0
      /\ attempt'[a] \notin {"connected", "done"} => grpcConn'[a] = "none"
    BY <1>0, <1>5 DEF MobileConns
<1>8. MobileConns'
  <2>1. \A c \in Clients : lndConn[c] # 0 =>
           /\ lndConn[c] \in Attempts /\ attempt'[lndConn[c]] = "done"
           /\ mc'[lndConn[c]] = c /\ grpcConn'[lndConn[c]] = "open"
      BY <1>0, <1>2, <1>5 DEF MobileConns, M!TypeOK
  <2>2. attempt'[a] = "connected" => grpcConn'[a] = "open"
      BY <1>5, Zenon
  <2> QED
      BY <1>0, <1>1, <1>2, <1>5, <1>7, <2>1, <2>2 DEF MobileConns
<1>9. M!CallsHaveConn'
    BY <1>1 DEF MobileIInv, M!CallsHaveConn
<1>10. ASSUME orderly PROVE MobileOrderly'
  <2>1. MobileOrderly
      BY <1>10 DEF MobileIInv
  <2>2. mc'[a] = m /\ callbacks[m] = M!Callback
      BY <1>5, <2>1, Zenon DEF MobileOrderly
  <2>3. ~missed'
    <3>1. CASE M!onAuthData(a)
      <4>1. attempt[a] \notin {"none", "start"}
          BY <1>0, <3>1 DEF M!onAuthData, M!handshakes, MobileConns
      <4>2. mc[a] = m
          BY <2>1, <4>1, Zenon DEF MobileOrderly
      <4> QED
          BY <2>1, <2>2, <3>1, <4>2, Zenon
             DEF M!onAuthData, M!sends, M!Callback, MobileOrderly
    <3>2. CASE ~M!onAuthData(a)
        BY <2>1, <3>2, Zenon DEF M!getsClient, M!attemptFails, M!setsStatus, M!lndConnect,
            MobileOrderly
    <3> QED
        BY <3>1, <3>2
  <2>4. /\ M!pending' \subseteq M!pending
        /\ \A c \in M!pending : c = a \/ c \in M!pending'
        /\ a \in M!pending' \/ grpcConn'[a] = grpcConn[a]
    <3>1. a \in M!pending' => a \in M!pending
      <4>1. CASE M!onAuthData(a)
          BY <1>0, <4>1 DEF M!onAuthData, M!pending, Stages
      <4>2. CASE ~M!onAuthData(a)
          BY <4>2 DEF M!getsClient, M!attemptFails, M!setsStatus, M!lndConnect, M!pending
      <4> QED
          BY <4>1, <4>2
    <3> QED
        BY <1>2, <1>5, <3>1, Zenon DEF M!pending
  <2>5. grpcConn'[a] = "open" => a \in M!pending' \/ lndConn[m] = a
    <3> SUFFICES ASSUME grpcConn'[a] = "open", a \notin M!pending' PROVE lndConn[m] = a
        BY Zenon
    <3>1. attempt'[a] = "done"
        BY <1>5, <1>7, <1>2, Zenon DEF M!pending
    <3>2. attempt[a] = "done" /\ grpcConn[a] = "open"
        BY <1>5, <3>1
    <3> QED
        BY <2>1, <3>2, ZenonT(40) DEF MobileOrderly, M!pending
  <2> QED
      BY <1>1, <1>2, <1>5, <2>1, <2>2, <2>3, <2>4, <2>5, Zenon DEF MobileOrderly
<1> QED
    BY <1>6, <1>8, <1>9, <1>10 DEF MobileIInv

\* The app is told the key of the server.
LEMMA MobileTells ==
    ASSUME MobileIInv, NEW a \in Attempts, M!onRemoteStatic(a), orderly' = orderly
    PROVE  MobileIInv'
<1>0. M!TypeOK /\ MobileConns /\ missed \in BOOLEAN
    BY DEF MobileIInv, M!TypeOK
<1>1. /\ m' = m /\ lndConn' = lndConn /\ statusChecker' = statusChecker
      /\ hasMac' = hasMac /\ mc' = mc /\ grpcConn' = grpcConn /\ callbacks' = callbacks
      /\ call' = call /\ callClient' = callClient /\ callConn' = callConn
      /\ attempt' = attempt
    BY Zenon DEF M!onRemoteStatic, M!clients, M!attempts, M!calls
<1>2. missed' \in BOOLEAN
    BY <1>0 DEF M!onRemoteStatic, M!sends
<1>3. M!TypeOK'
    BY <1>0, <1>1, <1>2 DEF M!TypeOK
<1>4. MobileConns' /\ M!CallsHaveConn'
    BY <1>1, Zenon DEF MobileIInv, MobileConns, M!CallsHaveConn
<1>5. ASSUME orderly PROVE MobileOrderly'
  <2>1. MobileOrderly /\ attempt[a] \notin {"none", "start"}
      BY <1>0, <1>5 DEF MobileIInv, M!onRemoteStatic, M!handshakes, MobileConns
  <2>2. mc[a] = m /\ callbacks[m] = M!Callback
      BY <2>1, Zenon DEF MobileOrderly
  <2>3. ~missed'
      BY <2>1, <2>2, Zenon DEF M!onRemoteStatic, M!sends, M!Callback, MobileOrderly
  <2>4. M!pending' = M!pending
      BY <1>1 DEF M!pending
  <2> QED
      BY <1>1, <2>1, <2>3, <2>4, Zenon DEF MobileOrderly
<1> QED
    BY <1>3, <1>4, <1>5 DEF MobileIInv

\* The client has the connection.
LEMMA MobileConnected ==
    ASSUME MobileIInv, NEW a \in Attempts, M!setsConn(a), orderly' = orderly
    PROVE  MobileIInv'
<1>0. /\ M!TypeOK /\ MobileConns /\ attempt \in [Attempts -> Stages] /\ a # 0
      /\ mc \in [Attempts -> Clients \cup {0}]
      /\ lndConn \in [Clients -> Attempts \cup {0}]
    BY ClientsAssumption, Zenon DEF MobileIInv, M!TypeOK, Stages
<1>1. /\ attempt[a] = "connected" /\ attempt' = [attempt EXCEPT ![a] = "done"]
      /\ lndConn' = [lndConn EXCEPT ![mc[a]] = a]
      /\ m' = m /\ statusChecker' = statusChecker
      /\ hasMac' = hasMac /\ mc' = mc /\ grpcConn' = grpcConn /\ callbacks' = callbacks
      /\ call' = call /\ callClient' = callClient /\ callConn' = callConn
      /\ missed' = missed
    BY Zenon DEF M!setsConn, M!calls
<1>2. /\ mc[a] \in Clients /\ m # 0 /\ grpcConn[a] = "open"
    BY <1>0, <1>1 DEF MobileConns
<1>3. /\ attempt'[a] = "done" /\ \A c \in Attempts : c # a => attempt'[c] = attempt[c]
      /\ lndConn'[mc[a]] = a
      /\ \A c \in Clients : c # mc[a] => lndConn'[c] = lndConn[c]
    BY <1>0, <1>1, <1>2
<1>4. M!TypeOK'
    BY <1>0, <1>1, <1>2 DEF M!TypeOK, Stages
<1>5. MobileConns'
  <2>1. \A c \in Clients : lndConn'[c] # 0 =>
           /\ lndConn'[c] \in Attempts /\ attempt'[lndConn'[c]] = "done"
           /\ mc[lndConn'[c]] = c /\ grpcConn[lndConn'[c]] = "open"
      BY <1>0, <1>2, <1>3 DEF MobileConns
  <2> QED
      BY <1>0, <1>1, <1>2, <1>3, <2>1 DEF MobileConns
<1>6. M!CallsHaveConn'
    BY <1>1, Zenon DEF MobileIInv, M!CallsHaveConn
<1>7. ASSUME orderly PROVE MobileOrderly'
  <2>1. MobileOrderly /\ a \in M!pending
      BY <1>1, <1>7 DEF MobileIInv, M!pending
  <2>2. mc[a] = m /\ lndConn[m] = 0 /\ lndConn'[m] = a
      BY <1>1, <1>3, <2>1, Zenon DEF MobileOrderly
  <2>3. M!pending' = {}
      BY <1>3, <2>1, ZenonT(40) DEF MobileOrderly, M!pending
  <2>4. \A c \in Attempts : grpcConn[c] = "open" => c = a
      BY <2>1, <2>2, ClientsAssumption, Zenon DEF MobileOrderly
  <2>5. \A r \in Calls : call[r] # "start"
      BY <2>1, <2>2 DEF MobileOrderly
  <2> QED
      BY <1>1, <1>3, <2>1, <2>2, <2>3, <2>4, <2>5, Zenon DEF MobileOrderly
<1> QED
    BY <1>4, <1>5, <1>6, <1>7 DEF MobileIInv

\* Disconnect.
LEMMA MobileDisconnects ==
    ASSUME MobileIInv, M!Disconnect, orderly' = orderly PROVE MobileIInv'
<1>0. /\ M!TypeOK /\ MobileConns /\ m \in Clients \cup {0}
      /\ lndConn \in [Clients -> Attempts \cup {0}]
      /\ grpcConn \in [Attempts -> {"none", "open", "closed"}]
    BY DEF MobileIInv, M!TypeOK
<1> DEFINE old == lndConn[m]
<1>1. /\ m # 0 /\ old # 0 /\ (orderly => \A r \in Calls : call[r] # "start")
      /\ grpcConn' = [grpcConn EXCEPT ![old] = "closed"]
      /\ lndConn' = [lndConn EXCEPT ![m] = 0]
      /\ m' = m /\ statusChecker' = statusChecker /\ attempt' = attempt
      /\ hasMac' = hasMac /\ mc' = mc /\ callbacks' = callbacks
      /\ call' = call /\ callClient' = callClient /\ callConn' = callConn
      /\ missed' = missed
    BY DEF M!Disconnect, M!calls
<1>2. m \in Clients /\ old \in Attempts /\ attempt[old] = "done" /\ mc[old] = m
    BY <1>0, <1>1 DEF MobileConns
<1> HIDE DEF old
<1>3. /\ grpcConn'[old] = "closed" /\ lndConn'[m] = 0
      /\ \A a \in Attempts : a # old => grpcConn'[a] = grpcConn[a]
      /\ \A c \in Clients : c # m => lndConn'[c] = lndConn[c]
    BY <1>0, <1>1, <1>2
<1>4. M!TypeOK'
    BY <1>0, <1>1, <1>2 DEF M!TypeOK
<1>5. MobileConns'
  <2>1. \A c \in Clients : lndConn'[c] # 0 =>
           /\ lndConn'[c] \in Attempts /\ attempt[lndConn'[c]] = "done"
           /\ mc[lndConn'[c]] = c /\ grpcConn'[lndConn'[c]] = "open"
      BY <1>0, <1>2, <1>3 DEF MobileConns
  <2> QED
      BY <1>0, <1>1, <1>2, <1>3, <2>1 DEF MobileConns
<1>6. M!CallsHaveConn'
    BY <1>1, Zenon DEF MobileIInv, M!CallsHaveConn
<1>7. ASSUME orderly PROVE MobileOrderly'
  <2>1. MobileOrderly /\ M!pending' = M!pending
      BY <1>1, <1>7 DEF MobileIInv, M!pending
  <2>2. \A a \in Attempts : grpcConn'[a] = "open" => a \in M!pending
      BY <1>3, <2>1 DEF MobileOrderly, old
  <2> QED
      BY <1>1, <1>3, <1>7, <2>1, <2>2 DEF MobileOrderly
<1> QED
    BY <1>4, <1>5, <1>6, <1>7 DEF MobileIInv

\* InvokeRPC and its goroutine.
LEMMA MobileInvokes ==
    ASSUME MobileIInv, NEW r \in Calls, M!InvokeRPC(r) \/ M!method(r), orderly' = orderly
    PROVE  MobileIInv'
<1>0. /\ M!TypeOK /\ MobileConns /\ call \in [Calls -> {"none", "start", "called"}]
      /\ callConn \in [Calls -> Attempts \cup {0}] /\ m \in Clients \cup {0}
      /\ callClient \in [Calls -> Clients \cup {0}]
      /\ lndConn \in [Clients -> Attempts \cup {0}]
    BY DEF MobileIInv, M!TypeOK
<1>1. /\ m' = m /\ lndConn' = lndConn /\ statusChecker' = statusChecker
      /\ hasMac' = hasMac /\ mc' = mc /\ grpcConn' = grpcConn /\ callbacks' = callbacks
      /\ attempt' = attempt /\ missed' = missed
    BY DEF M!InvokeRPC, M!method, M!clients, M!attempts
<1>2. MobileConns' /\ M!pending' = M!pending
    BY <1>0, <1>1 DEF MobileConns, M!pending
<1>3. CASE M!InvokeRPC(r)
  <2>1. /\ m # 0 /\ lndConn[m] # 0 /\ call' = [call EXCEPT ![r] = "start"]
        /\ callClient' = [callClient EXCEPT ![r] = m] /\ callConn' = callConn
      BY <1>3 DEF M!InvokeRPC
  <2>2. /\ call'[r] = "start" /\ callClient'[r] = m
        /\ \A q \in Calls : q # r => call'[q] = call[q] /\ callClient'[q] = callClient[q]
      BY <1>0, <2>1
  <2>3. M!TypeOK'
      BY <1>0, <1>1, <2>1, <2>2, Zenon DEF M!TypeOK
  <2>4. M!CallsHaveConn'
      BY <2>1, <2>2, Zenon DEF MobileIInv, M!CallsHaveConn
  <2>5. MobileOrderly => MobileOrderly'
      BY <1>1, <1>2, <2>1, <2>2 DEF MobileOrderly
  <2> QED
      BY <1>2, <2>3, <2>4, <2>5 DEF MobileIInv
<1>4. CASE M!method(r)
  <2>1. /\ call[r] = "start" /\ call' = [call EXCEPT ![r] = "called"]
        /\ callClient' = callClient
        /\ callConn' = [callConn EXCEPT ![r] = lndConn[callClient[r]]]
      BY <1>4, Zenon DEF M!method
  <2>2. callClient[r] \in Clients
      BY <1>0, <2>1, Zenon DEF M!TypeOK
  <2>3. /\ call'[r] = "called" /\ callConn'[r] = lndConn[callClient[r]]
        /\ \A q \in Calls : q # r => call'[q] = call[q] /\ callConn'[q] = callConn[q]
      BY <1>0, <2>1
  <2>4. M!TypeOK'
      BY <1>0, <1>1, <2>1, <2>2, <2>3, Zenon DEF M!TypeOK
  <2>5. M!CallsHaveConn'
      BY <2>1, <2>3, Zenon DEF MobileIInv, MobileOrderly, M!CallsHaveConn
  <2>6. MobileOrderly => MobileOrderly'
      BY <1>1, <1>2, <2>1, <2>3, Zenon DEF MobileOrderly
  <2> QED
      BY <1>2, <2>4, <2>5, <2>6 DEF MobileIInv
<1> QED
    BY <1>3, <1>4

\* Every step keeps the invariant.
LEMMA MobileKeeps == ASSUME MobileIInv, M!Next, orderly' = orderly PROVE MobileIInv'
BY InitLNCKeeps, RegisterKeeps, MobileConnects, MobileGoesOn, MobileTells,
    MobileConnected, MobileDisconnects, MobileInvokes DEF M!Next

-----------------------------------------------------------------------------
(***************************************************************************)
(* The clients.                                                            *)
(***************************************************************************)

ClientsIInv ==
    /\ part = "wasm" => WasmIInv
    /\ part = "mobile" => MobileIInv
    /\ IInv /\ ExpiryTold

\* A part that has no steps stays as it is.
LEMMA WasmStays ==
    ASSUME WasmIInv, UNCHANGED <<shared, wasmOnly>> PROVE WasmIInv'
<1>1. /\ process' = process /\ lndConn' = lndConn /\ statusChecker' = statusChecker
      /\ hasMac' = hasMac /\ attempt' = attempt /\ grpcConn' = grpcConn
      /\ disconnect' = disconnect /\ call' = call /\ callConn' = callConn
      /\ orderly' = orderly
    BY DEF shared, wasmOnly
<1> QED
    BY <1>1, Zenon
       DEF WasmIInv, W!TypeOK, WasmReady, W!CallbacksProvided, W!CallsHaveConn,
        W!running, OneAtATime, WasmConn, connecting, disconnecting, invoking

\* A step that leaves the mobile client alone preserves its invariant.
LEMMA MobileStays ==
    ASSUME MobileIInv, UNCHANGED <<shared, mobileOnly>> PROVE MobileIInv'
<1>1. /\ m' = m /\ lndConn' = lndConn /\ statusChecker' = statusChecker
      /\ hasMac' = hasMac /\ mc' = mc /\ grpcConn' = grpcConn /\ callbacks' = callbacks
      /\ call' = call /\ callClient' = callClient /\ callConn' = callConn
      /\ attempt' = attempt /\ missed' = missed /\ orderly' = orderly
    BY DEF shared, mobileOnly
<1> QED
    BY <1>1, Zenon DEF MobileIInv, M!TypeOK, MobileConns, MobileOrderly, M!CallsHaveConn,
        M!pending

\* GetExpiry is the last step there is.
LEMMA ExpiryStep == IInv /\ ExpiryTold /\ [Next]_vars => ExpiryTold'
<1> SUFFICES ASSUME IInv, ExpiryTold, [Next]_vars, pc' = "GetExpiry", wasm', mac' # "none"
             PROVE  told' = expiry'
    BY DEF ExpiryTold
<1>1. CASE GetExpiry
    BY <1>1 DEF GetExpiry, inputs
<1>2. CASE UNCHANGED vars
    BY <1>2 DEF vars, ExpiryTold
<1>3. CASE ~GetExpiry /\ Next
  <2>1. pc' = pc \/ pc' # "GetExpiry"
      BY <1>3, Zenon
         DEF Next, IsReadOnly, IsCustom, HasPermissions, collect, collectEnds, check,
          checkEnds
  <2>2. pc # "GetExpiry"
      BY <1>3, Zenon
         DEF Next, IsReadOnly, IsCustom, HasPermissions, collect, collectEnds, check,
          checkEnds
  <2> QED
      BY <2>1, <2>2
<1> QED
    BY <1>1, <1>2, <1>3

\* WasmClient, MobileClient and GetExpiry: a connection that is shown is usable, an
\* orderly page or app loses no connection and makes no call without one, and the
\* expiry is told, for any number of calls. The page has to configure the two
\* callbacks of the handshake: validateArgs does not check that for OnAuthData, nor
\* for OnRemoteKeyReceive if it is given a remote key.
THEOREM ClientsCorrect ==
    ASSUME {"OnRemoteKeyReceive", "OnAuthData"} \subseteq Configured
    PROVE  MCSpec => []ClientsInv
<1>1. MCInit => ClientsIInv
  <2>1. MacaroonIdle => IInv /\ ExpiryTold
    <3> SUFFICES ASSUME MacaroonIdle PROVE IInv /\ ExpiryTold
        OBVIOUS
    <3>1. uri \in URI
        BY ClientsAssumption DEF MacaroonIdle
    <3>2. /\ wasm \in BOOLEAN /\ knownURI \in BOOLEAN /\ answer \in BOOLEAN /\ ~answer
          /\ macOpsMap \in [Entity -> SUBSET Action]
          /\ macOps = <<>> /\ requiredOps = <<>> /\ i = 1 /\ j = 1 /\ told = 0
          /\ expiry = 0 /\ pc = "called" /\ mac = "none"
          /\ macOpsMap = [e \in Entity |-> {}]
        BY Zenon DEF MacaroonIdle
    <3>3. /\ macOps \in Seq(Op) /\ requiredOps \in Seq(RequiredOp)
          /\ i \in 1 .. Len(macOps) + 1 /\ j \in 1 .. Len(requiredOps) + 1
          /\ told \in Nat /\ DOMAIN macOps = {}
        BY <3>2
    <3>4. TypeOK
        BY <3>1, <3>2, <3>3 DEF TypeOK
    <3> QED
        BY <3>2, <3>3, <3>4, Zenon
           DEF IInv, canonical, Collected, Checked, Fresh, Start, NotYet,
            Answered, answered, ExpiryTold
  <2>2. Init => ExpiryTold
      BY DEF Init, ExpiryTold
  <2> QED
      BY <2>1, <2>2, InitIInv, WasmStarts, MobileStarts DEF MCInit, ClientsIInv
<1>2. ClientsIInv /\ [MCNext]_mcVars => ClientsIInv'
  <2> SUFFICES ASSUME ClientsIInv, [MCNext]_mcVars PROVE ClientsIInv'
      OBVIOUS
  <2>1. part' = part /\ [Next]_vars
      BY DEF MCNext, Wasm, mcVars
  <2>2. IInv' /\ ExpiryTold'
      BY <2>1, LoopStep, ExpiryStep DEF ClientsIInv
  <2>3. ASSUME part = "wasm" PROVE WasmIInv'
    <3>1. \/ W!Next /\ orderly' = orderly
          \/ UNCHANGED <<shared, wasmOnly>>
        BY <2>3 DEF MCNext, Wasm, mcVars
    <3> QED
        BY <2>3, <3>1, WasmKeeps, WasmStays DEF ClientsIInv
  <2>4. ASSUME part = "mobile" PROVE MobileIInv'
    <3>1. \/ M!Next /\ orderly' = orderly
          \/ UNCHANGED <<shared, mobileOnly>>
        BY <2>4 DEF MCNext, Wasm, mcVars
    <3> QED
        BY <2>4, <3>1, MobileKeeps, MobileStays DEF ClientsIInv
  <2> QED
      BY <2>1, <2>2, <2>3, <2>4 DEF ClientsIInv
<1>3. ClientsIInv => ClientsInv
    BY WasmPromises, MobilePromises DEF ClientsIInv, ClientsInv, IInv
<1> QED
    BY <1>1, <1>2, <1>3, PTL DEF MCSpec

=============================================================================
