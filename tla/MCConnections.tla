---------------------------- MODULE MCConnections ----------------------------
(***************************************************************************)
(* The connections that applications use, for TLC: the TCP listener and    *)
(* the way of the bytes through a mailbox connection. They share no state; *)
(* a behaviour is one of "listener" and "bytes", the other variables stay  *)
(* as they are.                                                            *)
(***************************************************************************)
EXTENDS Listener

CONSTANTS maxChunkSize, baseLength, Lengths, ReadSize, n, MaxMsgs

\* The header of a MsgData is not empty.
ASSUME ConnectionsAssumption ==
    /\ {maxChunkSize, n, MaxMsgs} \subseteq Nat /\ Lengths \subseteq Nat
    /\ {baseLength, ReadSize} \subseteq Nat \ {0}

VARIABLES
    part,
    msgs, sent, left, written, read, receiving, b, recvBuffer, stream,
    recvTimeout, ticker, torn, ended

C == INSTANCE Chunking WITH quit <- ended

byteVars == <<msgs, sent, left, written, read, receiving, b, recvBuffer,
              stream, recvTimeout, ticker, torn, ended>>
mcVars == <<part, vars, byteVars>>

MCInit == part \in {"listener", "bytes"} /\ Init /\ C!Init

Listens(action) == part = "listener" /\ action /\ UNCHANGED <<part, byteVars>>
Bytes(action) == part = "bytes" /\ action /\ UNCHANGED <<part, vars>>

MCNext == Listens(Next) \/ Bytes(C!Next)

\* The fairness of the two specifications. A condition for an action of each
\* part is one for both of them, as only one part has steps.
MCSpec ==
    /\ MCInit /\ [][MCNext]_mcVars
    /\ WF_mcVars(Listens(listen) \/ Bytes(C!sendPacket))
    /\ WF_mcVars(Listens(~quit /\ Accept) \/ Bytes(C!Recv))
    /\ WF_mcVars(Listens(acceptEnds) \/ Bytes(C!Read))
    /\ WF_mcVars(Listens(closeTCP) \/ Bytes(C!errRecvTimeout))
    /\ SF_mcVars(Listens(listenQuits) \/ Bytes(C!recvPacket))
    /\ SF_mcVars(Listens(listenRejects))
    /\ \A p \in Peers : /\ WF_mcVars(Listens(doHandshake(p)))
                        /\ SF_mcVars(Listens(acceptConn(p)))
                        /\ SF_mcVars(Listens(rejectConn(p)))
                        /\ SF_mcVars(Listens(listenAccepts(p)))

\* Send, Recv and Read: everything that was sent is read in the end.
AllRead == C!AllRead

\* Send, Recv and Read: the bytes read are the bytes written, unless a timeout
\* fell into the middle of a message, and the link keeps its bound.
StreamIntact == C!TypeOK /\ C!StreamIntact

=============================================================================
