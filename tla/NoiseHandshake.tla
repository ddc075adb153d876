---------------------------- MODULE NoiseHandshake ----------------------------
(***************************************************************************)
(* The noise handshake of mailbox/noise.go between an initiator (the       *)
(* client) and a responder (the server): the patterns XX with a masked     *)
(* ephemeral and KK, the negotiation of the version, the transport of the  *)
(* auth data in act 2, and what each side stores at the end.               *)
(*                                                                         *)
(* The cryptography is symbolic. The digest and the chaining key are the   *)
(* sequences of what was mixed into them, a key is the chaining key it was *)
(* derived from, the DH of two keys is the set of the two public points,   *)
(* and a ciphertext opens only under its own key, nonce and digest. A      *)
(* point is a key pair's public key, shifted by a passphrase when masked.  *)
(***************************************************************************)
EXTENDS Naturals, Integers, Sequences

CONSTANTS
    AuthLens,   \* lengths of the auth data of the responder
    MaxFaults   \* bound on lost acts, damaged items and failing callbacks

Parties == {"initiator", "responder"}
Peer(p) == IF p = "initiator" THEN "responder" ELSE "initiator"

HandshakeVersions == 0 .. 2
lengthSize == 2
ActTwoPayloadSize == 500

XXPattern == [name |-> "XX", pre |-> <<>>,
    acts |-> <<[tokens |-> <<"me">>, from |-> "initiator"],
               [tokens |-> <<"e", "ee", "s", "es">>, from |-> "responder"],
               [tokens |-> <<"s", "se">>, from |-> "initiator"]>>]

KKPattern == [name |-> "KK", pre |-> <<"initiator", "responder">>,
    acts |-> <<[tokens |-> <<"e", "es", "ss">>, from |-> "initiator"],
               [tokens |-> <<"e", "ee", "se">>, from |-> "responder"]>>]

\* Public points: the static and ephemeral key of each party, and the static
\* key of an earlier installation of the peer.
Point(k) == [of |-> k, shift |-> 0]
Static(p) == Point(p \o " static")
Ephemeral(p) == Point(p \o " ephemeral")
Stale(p) == Point(p \o " stale")
None == Point("nil")

-----------------------------------------------------------------------------
(***************************************************************************)
(* symmetricState and the masking of the ephemeral.                        *)
(***************************************************************************)

mixHash(h, x) == [h EXCEPT !.digest = Append(@, x)]

\* The chaining key is ratcheted; the temp key starts with nonce 0.
mixKey(h, dh) ==
    [h EXCEPT !.chainingKey = Append(@, dh),
              !.key = Append(h.chainingKey, dh), !.nonce = 0]

InitializeSymmetric(h, protocolName) ==
    [h EXCEPT !.digest = <<protocolName>>, !.chainingKey = <<protocolName>>,
              !.key = <<>>, !.nonce = 0]

Ciphertext(h, plain) ==
    [key |-> h.key, nonce |-> h.nonce, ad |-> h.digest, plain |-> plain]

\* What a ciphertext adds to the digest: its associated data is the digest
\* before it.
Bound(ct) == [ct EXCEPT !.ad = <<>>]

\* Encrypts with the digest as associated data; sealed is a history of the
\* keys and nonces used.
EncryptAndHash(h, plain) ==
    [mixHash(h, Bound(Ciphertext(h, plain))) EXCEPT
        !.nonce = @ + 1, !.sealed = Append(@, <<h.key, h.nonce>>)]

\* A ciphertext opens under the same key, nonce and associated data, and if
\* as many bytes were read as were written.
Opens(h, ct, kind) ==
    /\ "plain" \in DOMAIN ct
    /\ ct.key = h.key /\ ct.nonce = h.nonce /\ ct.ad = h.digest
    /\ ct.plain.kind = kind

DecryptAndHash(h, ct) == [mixHash(h, Bound(ct)) EXCEPT !.nonce = @ + 1]

ekeMask(pt, pw) == [pt EXCEPT !.shift = @ + pw]
ekeUnmask(pt, pw) == [pt EXCEPT !.shift = @ - pw]

\* The plaintexts, told apart by their length on the wire.
Plain(kind, key, len, good) ==
    [kind |-> kind, key |-> key, len |-> len, good |-> good]
Empty == Plain("empty", None, 0, 0)

-----------------------------------------------------------------------------
(***************************************************************************)
(* The tokens of an act.                                                   *)
(***************************************************************************)

\* The loops over tokens and payloads: acc goes through the items of s.
fold(step(_, _), acc, s) ==
    LET after[i \in 0 .. Len(s)] == IF i = 0 THEN acc ELSE step(after[i - 1], s[i])
    IN  after[Len(s)]

\* The first letter names the key of the initiator.
ecdh(h, t) ==
    CASE t = "ee" -> {h.remoteEphemeral, h.localEphemeral}
      [] t = "ss" -> {h.remoteStatic, h.localStatic}
      [] (t = "es") = h.initiator -> {h.remoteStatic, h.localEphemeral}
      [] OTHER -> {h.remoteEphemeral, h.localStatic}

\* acc = [h, msg]: the handshake state and the items written so far. The
\* unmasked ephemeral goes into the digest, the masked one onto the wire.
writeToken(acc, t) ==
    LET h == acc.h
        eph == Ephemeral(h.party)
        withE == mixHash([h EXCEPT !.localEphemeral = eph], eph)
        static == Plain("key", h.localStatic, 0, 0)
    IN  CASE t = "e" -> [h |-> withE, msg |-> Append(acc.msg, eph)]
          [] t = "me" -> [h |-> withE,
                          msg |-> Append(acc.msg, ekeMask(eph, h.passphrase))]
          [] t = "s" -> [h |-> EncryptAndHash(h, static),
                         msg |-> Append(acc.msg, Ciphertext(h, static))]
          [] OTHER -> [h |-> mixKey(h, ecdh(h, t)), msg |-> acc.msg]

writeTokens(h, tokens) == fold(writeToken, [h |-> h, msg |-> <<>>], tokens)

\* acc = [h, msg, ok]: the items left to read, and whether all went well. An
\* item of the wrong kind is a read that ends in the middle of an item.
readToken(acc, t) ==
    LET h == acc.h
        it == Head(acc.msg)
        withE(pt) == mixHash([h EXCEPT !.remoteEphemeral = pt], pt)
        failed == [acc EXCEPT !.ok = FALSE]
        next(g) == [h |-> g, msg |-> Tail(acc.msg), ok |-> TRUE]
    IN  IF ~acc.ok THEN acc
        ELSE CASE t = "e" -> IF "of" \in DOMAIN it THEN next(withE(it)) ELSE failed
               [] t = "me" -> IF "of" \in DOMAIN it
                              THEN next(withE(ekeUnmask(it, h.passphrase)))
                              ELSE failed
               [] t = "s" -> IF Opens(h, it, "key")
                             THEN next([DecryptAndHash(h, it) EXCEPT
                                            !.remoteStatic = it.plain.key])
                             ELSE failed
               [] OTHER -> [acc EXCEPT !.h = mixKey(h, ecdh(h, t))]

readTokens(h, msg, tokens) ==
    fold(readToken, [h |-> h, msg |-> msg, ok |-> TRUE], tokens)

-----------------------------------------------------------------------------
(***************************************************************************)
(* Writing and reading an act.                                             *)
(***************************************************************************)

\* Version 0: 500 bytes, the length in the first two, cut off at the end.
fixedPayload(n) ==
    LET room == ActTwoPayloadSize - lengthSize
    IN  Plain("fixed", None, n % 2^16, IF n < room THEN n ELSE room)

\* The ciphertexts of an act's payload: none but the empty one in acts 1 and
\* 3; in act 2 one of fixed size or, from version 1 on, the length and the
\* data.
payloadItems(version, act, n) ==
    CASE act # 2 -> <<Empty>>
      [] act = 2 /\ version = 0 -> <<fixedPayload(n)>>
      [] OTHER -> <<Plain("len", None, n, 0), Plain("data", None, n, n)>>

writePlain(acc, plain) ==
    [h |-> EncryptAndHash(acc.h, plain),
     msg |-> Append(acc.msg, Ciphertext(acc.h, plain))]

writeMsgPattern(h, act) ==
    LET written == fold(writePlain, writeTokens(h, h.pattern.acts[act].tokens),
                        payloadItems(h.version, act, h.payloadToSend))
    IN  [h |-> written.h, wire |-> [version |-> h.version, items |-> written.msg]]

\* Slip: the responder does not insist on its own version in act 3.
versionOkAnyThird(h, version, act) ==
    h.minVersion <= version /\ version <= h.maxVersion

versionOk(h, version, act) ==
    IF act \in {1, 2} THEN h.minVersion <= version /\ version <= h.maxVersion
                      ELSE version = h.version

\* The initiator adapts to the version the responder has chosen.
adapt(h, version, act) ==
    IF h.initiator /\ act \in {1, 2} THEN [h EXCEPT !.version = version] ELSE h

\* Decrypts the payload; a payload of act 2 becomes the received one.
readPlain(acc, kind) ==
    IF ~acc.ok \/ acc.msg = <<>> \/ ~Opens(acc.h, Head(acc.msg), kind)
    THEN [acc EXCEPT !.ok = FALSE]
    ELSE LET plain == Head(acc.msg).plain
             opened == DecryptAndHash(acc.h, Head(acc.msg))
         IN  [h |-> IF kind \in {"fixed", "data"}
                    THEN [opened EXCEPT !.receivedPayload =
                              [len |-> plain.len, good |-> plain.good]]
                    ELSE opened,
              msg |-> Tail(acc.msg), ok |-> TRUE]

\* The kinds of plaintext the reader expects, from the version it has read.
payloadKinds(version, act) ==
    CASE act # 2 -> <<"empty">>
      [] act = 2 /\ version = 0 -> <<"fixed">>
      [] OTHER -> <<"len", "data">>

readMsgPattern(h, msg, act) ==
    IF ~versionOk(h, msg.version, act)
    THEN [h |-> h, msg |-> msg.items, ok |-> FALSE]
    ELSE fold(readPlain,
              readTokens(adapt(h, msg.version, act), msg.items,
                         h.pattern.acts[act].tokens),
              payloadKinds(msg.version, act))

-----------------------------------------------------------------------------
VARIABLES
    hs,         \* handshakeState of each party
    status,     \* running, done or failed
    act,        \* the act each party is at
    wire,       \* the message in transit, <<>> when there is none
    sendKey, recvKey,   \* the keys of the transport ciphers
    remoteKey,  \* ConnData: the remote key, None if there is none
    authData,   \* ConnData: the auth data of the initiator
    faults

vars == <<hs, status, act, wire, sendKey, recvKey, remoteKey, authData, faults>>

NoAuth == [len |-> 0, good |-> 0]

\* conndata.HandshakePattern
HandshakePattern(remote) == IF remote = None THEN XXPattern ELSE KKPattern

\* NewBrontideMachine: KK needs version 2.
minVersion(min, pattern) ==
    IF pattern.name = "KK" /\ min < 2 THEN 2 ELSE min

blank == [digest |-> <<>>, chainingKey |-> <<>>, key |-> <<>>, nonce |-> 0]

\* newHandshakeState: the protocol name, the prologue and the static keys of
\* the pre-messages go into the digest; the initiator starts with the lowest
\* version, the responder with the highest.
newHandshakeState(p, min, max, remote, passphrase, n) ==
    LET pattern == HandshakePattern(remote)
        named == InitializeSymmetric(blank, pattern.name)
        keys == [i \in DOMAIN pattern.pre |->
                    IF pattern.pre[i] = p THEN Static(p) ELSE remote]
        low == minVersion(min, pattern)
    IN  [party |-> p, initiator |-> p = "initiator", pattern |-> pattern,
         minVersion |-> low, maxVersion |-> max,
         version |-> IF p = "initiator" THEN low ELSE max,
         digest |-> named.digest \o <<Point("prologue")>> \o keys,
         chainingKey |-> named.chainingKey, key |-> named.key,
         nonce |-> named.nonce,
         localStatic |-> Static(p), localEphemeral |-> None,
         remoteStatic |-> remote, remoteEphemeral |-> None,
         passphrase |-> IF pattern.name = "XX" THEN passphrase ELSE 0,
         payloadToSend |-> n,
         receivedPayload |-> NoAuth, sealed |-> <<>>]

\* The versions are configured, a remote key is stored or not, and the user
\* may have mistyped the passphrase of the initiator. KK with a maximal
\* version below 2 is refused by NewBrontideMachine.
Init ==
    \E lo, hi \in [Parties -> HandshakeVersions], n \in AuthLens,
       known \in [Parties -> {"no", "yes", "stale"}], typed \in {1, 2} :
        LET remote(p) == CASE known[p] = "no" -> None
                           [] known[p] = "yes" -> Static(Peer(p))
                           [] OTHER -> Stale(Peer(p))
        IN  /\ \A p \in Parties : lo[p] <= hi[p]
            /\ hs = [p \in Parties |->
                        newHandshakeState(p, lo[p], hi[p], remote(p),
                            IF p = "initiator" THEN typed ELSE 1,
                            IF p = "initiator" THEN 0 ELSE n)]
            /\ status = [p \in Parties |->
                            IF remote(p) # None /\ hi[p] < 2 THEN "failed"
                            ELSE "running"]
            /\ remoteKey = [p \in Parties |-> remote(p)]
            /\ act = [p \in Parties |-> 1]
            /\ wire = <<>> /\ authData = NoAuth /\ faults = 0
            /\ sendKey = [p \in Parties |-> <<>>]
            /\ recvKey = [p \in Parties |-> <<>>]

-----------------------------------------------------------------------------
(***************************************************************************)
(* DoHandshake.                                                            *)
(***************************************************************************)

\* The two keys drawn from the chaining key, first the initiator's.
split(p, ck) == IF p = "initiator" THEN <<<<ck, 1>>, <<ck, 2>>>>
                                   ELSE <<<<ck, 2>>, <<ck, 1>>>>

\* Slip: the remote key is stored from version 1 on.
storesRemoteTooEarly(h) == h.version >= 1
storesRemote(h) == h.version >= 2

\* SetRemote and SetAuthData call a callback first, which may fail; what was
\* stored before it stays.
finish(p, h) ==
    \E broken \in {"none", "remote", "auth"} :
        LET remoteFails == broken = "remote" /\ storesRemote(h)
            authFails == broken = "auth" /\ h.initiator
        IN  /\ broken # "none" => (remoteFails \/ authFails) /\ faults < MaxFaults
            /\ faults' = IF broken = "none" THEN faults ELSE faults + 1
            /\ sendKey' = [sendKey EXCEPT ![p] = split(p, h.chainingKey)[1]]
            /\ recvKey' = [recvKey EXCEPT ![p] = split(p, h.chainingKey)[2]]
            /\ remoteKey' = IF storesRemote(h) /\ ~remoteFails
                            THEN [remoteKey EXCEPT ![p] = h.remoteStatic]
                            ELSE remoteKey
            /\ authData' = IF h.initiator /\ broken = "none"
                           THEN h.receivedPayload ELSE authData
            /\ status' = [status EXCEPT ![p] =
                             IF broken = "none" THEN "done" ELSE "failed"]

\* After its act a party goes on to the next one or finishes.
advance(p, h) ==
    /\ hs' = [hs EXCEPT ![p] = h]
    /\ act' = [act EXCEPT ![p] = @ + 1]
    /\ IF act[p] = Len(h.pattern.acts)
       THEN finish(p, h)
       ELSE UNCHANGED <<status, sendKey, recvKey, remoteKey, authData, faults>>

Turn(p, from) ==
    status[p] = "running" /\ (hs[p].pattern.acts[act[p]].from = p) = (from = p)

FromPeer(p) == wire # <<>> /\ wire[1] = Peer(p)

writeAct(p) ==
    /\ Turn(p, p)
    /\ LET w == writeMsgPattern(hs[p], act[p])
       IN  /\ wire' = <<p, w.wire>>
           /\ advance(p, w.h)

readAct(p) ==
    /\ Turn(p, Peer(p)) /\ FromPeer(p)
    /\ wire' = <<>>
    /\ LET r == readMsgPattern(hs[p], wire[2], act[p])
       IN  IF r.ok THEN advance(p, r.h)
           ELSE /\ status' = [status EXCEPT ![p] = "failed"]
                /\ hs' = [hs EXCEPT ![p] = r.h]
                /\ UNCHANGED <<act, sendKey, recvKey, remoteKey, authData, faults>>

\* The read fails: the peer has given up or the act was lost.
readFails(p) ==
    /\ Turn(p, Peer(p))
    /\ \/ ~FromPeer(p) /\ status[Peer(p)] = "failed" /\ UNCHANGED faults
       \/ FromPeer(p) /\ faults < MaxFaults /\ faults' = faults + 1
    /\ wire' = <<>>
    /\ status' = [status EXCEPT ![p] = "failed"]
    /\ UNCHANGED <<hs, act, sendKey, recvKey, remoteKey, authData>>

\* An item of the message is damaged or only a part of it read.
damage ==
    /\ wire # <<>> /\ faults < MaxFaults /\ faults' = faults + 1
    /\ \/ \E v \in HandshakeVersions \ {wire[2].version} :
            wire' = [wire EXCEPT ![2].version = v]
       \/ \E i \in DOMAIN wire[2].items :
            wire' = [wire EXCEPT ![2].items[i] =
                        IF "of" \in DOMAIN @ THEN Point("damaged")
                        ELSE [@ EXCEPT !.key = <<"damaged">>]]
    /\ UNCHANGED <<hs, status, act, sendKey, recvKey, remoteKey, authData>>

\* DoHandshake has returned on both sides.
returned ==
    /\ \A p \in Parties : status[p] # "running"
    /\ UNCHANGED vars

Next ==
    \/ damage
    \/ returned
    \/ \E p \in Parties : writeAct(p) \/ readAct(p) \/ readFails(p)

Spec == Init /\ [][Next]_vars

-----------------------------------------------------------------------------
(***************************************************************************)
(* Properties.                                                             *)
(***************************************************************************)

\* Each field has its type; the act is one of the pattern or past its end.
TypeOK ==
    /\ status \in [Parties -> {"running", "done", "failed"}]
    /\ faults \in 0 .. MaxFaults
    /\ \A p \in Parties :
        /\ hs[p].version \in HandshakeVersions /\ hs[p].nonce \in 0 .. 2
        /\ act[p] \in 1 .. Len(hs[p].pattern.acts) + 1

I == hs["initiator"]
R == hs["responder"]
BothDone == \A p \in Parties : status[p] = "done"

\* Negotiation (readMsgPattern): two parties that both complete use the same
\* version, one that both support, and with KK at least version 2.
VersionAgreement ==
    BothDone =>
        /\ I.version = R.version
        /\ \A p \in Parties : I.version \in hs[p].minVersion .. hs[p].maxVersion
        /\ I.pattern.name = "KK" => I.version >= 2

\* split: when both complete, the digests are equal, what one party encrypts
\* the other decrypts, and the two directions have different keys.
TransportKeysAgree ==
    BothDone =>
        /\ I.digest = R.digest
        /\ sendKey["initiator"] = recvKey["responder"]
        /\ sendKey["responder"] = recvKey["initiator"]
        /\ sendKey["initiator"] # sendKey["responder"]

\* The handshake authenticates: whoever completes has talked to a peer of the
\* same pattern that knows the passphrase (XX) or whose stored key is not
\* stale (KK), whatever was damaged on the way.
CompletesWithPeer ==
    \A p \in Parties : status[p] = "done" =>
        /\ I.pattern = R.pattern
        /\ I.pattern.name = "XX" => I.passphrase = R.passphrase
        /\ hs[p].remoteStatic = Static(Peer(p))
        /\ hs[p].remoteEphemeral = Ephemeral(Peer(p))

\* SetRemote: a remote key is only ever replaced by the true key of the peer,
\* and not before version 2, in which both sides know the KK pattern.
StoresTrueRemote ==
    [][\A p \in Parties : remoteKey'[p] # remoteKey[p] =>
        remoteKey'[p] = Static(Peer(p)) /\ hs'[p].version >= 2]_vars

\* Encrypt: no party seals twice under the same key and nonce.
NoncesUnique ==
    \A p \in Parties : \A i, j \in DOMAIN hs[p].sealed :
        i # j => hs[p].sealed[i] # hs[p].sealed[j]

\* Act 2: the initiator stores the auth data the responder has sent, whole.
AuthDataIntact ==
    status["initiator"] = "done" =>
        authData = [len |-> R.payloadToSend, good |-> R.payloadToSend]

\* Settings with which the handshake is meant to succeed: the version the
\* initiator starts with and the one the responder answers with are supported
\* by both.
Compatible ==
    /\ \A p \in Parties : hs[p].remoteStatic \in {None, Static(Peer(p))}
    /\ I.pattern = R.pattern /\ I.passphrase = R.passphrase
    /\ \A p \in Parties : remoteKey[p] # None => hs[p].maxVersion >= 2
    /\ I.minVersion >= R.minVersion /\ I.minVersion <= R.maxVersion
    /\ R.maxVersion <= I.maxVersion

\* With compatible settings DoHandshake succeeds on both sides, unless an act
\* is lost or damaged or a callback refuses. Each party takes at most three
\* steps and the model has no deadlock, so both sides return.
CompatibleSucceeds ==
    Compatible /\ faults = 0 => \A p \in Parties : status[p] # "failed"

\* The handshake: parties that complete agree on version, keys and identity,
\* the auth data arrives whole, no nonce is used twice under a key, and with
\* compatible settings nothing fails.
HandshakeInv ==
    /\ TypeOK /\ VersionAgreement /\ TransportKeysAgree /\ CompletesWithPeer
    /\ NoncesUnique /\ AuthDataIntact /\ CompatibleSucceeds

=============================================================================
