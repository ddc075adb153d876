------------------------------ MODULE MCMailbox ------------------------------
(***************************************************************************)
(* A mailbox for TLC: the Server with its connections, and the pairing of  *)
(* the two parties with handshake version 2 and with an earlier one. A     *)
(* behaviour is one of "server", "pairing" or "legacy"; the variables of   *)
(* the others stay as they are.                                            *)
(***************************************************************************)
EXTENDS MailboxServer

CONSTANT MaxBreaks

\* Accept needs a slot besides those of the connection before and of the one that
\* Server.Close stops.
ASSUME MailboxAssumption ==
    MaxConns \in Nat /\ MaxConns >= 3 /\ {MaxFaults, MaxBreaks} \subseteq Nat

VARIABLES
    part,
    remoteKey, saved, authData, streamID, state, pattern, act, inbox, broken

P == INSTANCE Pairing
        WITH Version <- 2, MaxFaults <- MaxBreaks, sid <- streamID, faults <- broken
L == INSTANCE Pairing
        WITH Version <- 1, MaxFaults <- MaxBreaks, sid <- streamID, faults <- broken

pairingVars == <<remoteKey, saved, authData, streamID, state, pattern, act,
                 inbox, broken>>
mcVars == <<part, vars, pairingVars>>

MCInit ==
    /\ part \in {"server", "pairing", "legacy"}
    /\ Init /\ P!Init

MCNext ==
    \/ part = "server" /\ Next /\ UNCHANGED <<part, pairingVars>>
    \/ part = "pairing" /\ P!Next /\ UNCHANGED <<part, vars>>
    \/ part = "legacy" /\ L!Next /\ UNCHANGED <<part, vars>>

\* The fairness of FairServerSpec and of Pairing's FairSpec.
MCSpec ==
    /\ MCInit /\ [][MCNext]_mcVars
    /\ <>[]hashmail
    /\ WF_vars(part = "server" /\ acceptStep)
    /\ WF_vars(part = "server" /\ closeStep)
    /\ \A c \in Conns : /\ WF_vars(part = "server" /\ stream(c))
                        /\ WF_vars(part = "server" /\ closeConn(c))
    /\ WF_pairingVars(part = "pairing" /\ P!Handshake)
    /\ WF_pairingVars(part = "pairing" /\ P!SetAuthData)
    /\ \A i \in P!Party : WF_pairingVars(part = "pairing" /\ P!goesOn(i))

\* SetRemote: a key in use is a saved one and stays known.
KeyKept == P!KeyKept

\* SID: parties that agree on whether they know each other connect again.
Reconnects ==
    (part = "pairing" /\ P!idle /\ broken = MaxBreaks
        /\ remoteKey["client"] = remoteKey["server"])
    ~> \A i \in P!Party : state[i] = "up"

\* SID, HandshakePattern and DoHandshake: parties that meet or are up agree on
\* what they do; before version 2 they use the same stream for ever.
PairingInv == P!PairingInv /\ (part = "legacy" => L!SameStream)

=============================================================================
