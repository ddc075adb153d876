------------------------------- MODULE MCNoise -------------------------------
(***************************************************************************)
(* The Noise layer for TLC: the handshake, one direction of the transport  *)
(* without and with read deadlines, and the connection that gRPC gets. A   *)
(* behaviour is one of "handshake", "transport", "deadlines" or "grpc".    *)
(***************************************************************************)
EXTENDS NoiseTransport

CONSTANTS AuthLens, MaxFaults, MaxConns, BufSize, MaxBytes

\* The connection that gRPC gets: its buffers are not empty.
ASSUME GrpcAssumption ==
    {MaxConns, MaxBytes} \subseteq Nat /\ BufSize \in Nat \ {0}

VARIABLES
    part,
    hs, status, act, msg, sendKey, recvKey, remoteKey, authData, faults,
    ProxyConn, closed, taken, nextMsg, holders, writer, dialer, readers, sender,
    closer, given

H == INSTANCE NoiseHandshake WITH wire <- msg
D == INSTANCE NoiseTransport WITH ReadTimeouts <- TRUE
G == INSTANCE NoiseGrpcConn WITH reader <- readers

handshakeVars == <<hs, status, act, msg, sendKey, recvKey, remoteKey, authData,
                   faults>>
grpcVars == <<ProxyConn, closed, taken, nextMsg, holders, writer, dialer,
              readers, sender, closer, given>>
mcVars == <<part, vars, handshakeVars, grpcVars>>

\* Values that no step reads.
HandshakeIdle ==
    /\ hs = 0 /\ status = 0 /\ act = 0 /\ msg = 0 /\ sendKey = 0 /\ recvKey = 0
    /\ remoteKey = [p \in H!Parties |-> H!None] /\ authData = 0 /\ faults = 0

MCInit ==
    /\ Init /\ G!Init
    /\ \/ part \in {"transport", "deadlines", "grpc"} /\ HandshakeIdle
       \/ part = "handshake" /\ H!Init

Transport(action) ==
    part = "transport" /\ action /\ UNCHANGED <<part, handshakeVars, grpcVars>>
Grpc(action) ==
    part = "grpc" /\ action /\ UNCHANGED <<part, vars, handshakeVars>>

\* The other parts may stop, at their bounds; the handshake may not.
MCNext ==
    \/ Transport(Next) \/ Grpc(G!Next)
    \/ /\ part = "deadlines" /\ D!Next
       /\ UNCHANGED <<part, handshakeVars, grpcVars>>
    \/ part = "handshake" /\ H!Next /\ UNCHANGED <<part, vars, grpcVars>>
    \/ part # "handshake" /\ UNCHANGED mcVars

\* Without read deadlines the application reads on and flushes what it writes.
\* The threads of a grpc connection run; gRPC closes a connection when its
\* reader has ended.
MCSpec ==
    /\ MCInit /\ [][MCNext]_mcVars
    /\ WF_mcVars(Transport(ReadStep))
    /\ SF_mcVars(Transport(Flush(nextHeaderSend + nextBodySend)))
    /\ WF_mcVars(Grpc(G!Dial)) /\ WF_mcVars(Grpc(G!handshakeWaits))
    /\ WF_mcVars(Grpc(G!handshakeLocks))
    /\ WF_mcVars(Grpc(G!ClientHandshake \/ G!handshakeFails))
    /\ \A k \in G!Conns :
           /\ WF_mcVars(Grpc(G!readRest(k) \/ G!readFails(k)))
           /\ WF_mcVars(Grpc(G!Write(k) /\ ProxyConn \in closed))
           /\ WF_mcVars(Grpc(G!closeLocks(k) /\ readers[k] = "end"))
           /\ WF_mcVars(Grpc(G!Close(k)))

\* WriteMessage: without read deadlines every message is delivered.
AllDeliveredUncut ==
    []<>(part = "transport" => Len(delivered) = Len(sent) /\ readBuf = 0)

\* SetRemote: only the true key of the peer is stored, from version 2 on.
StoresTrueRemote == H!StoresTrueRemote

\* NoiseGrpcConn.Read: the bytes of a connection come in order, once.
BytesInOrder == G!BytesInOrder

\* NoiseGrpcConn.ClientHandshake: a waiting handshake gets proxyConnMtx.
HandshakeProceeds == G!HandshakeProceeds

\* ReadMessage: what is delivered is in order, and without read deadlines every
\* ciphertext opens, across key rotations and writes that were cut short.
DeliveredRight == DeliveredOrdered /\ (part = "transport" => NothingFails)

\* DoHandshake: parties that complete agree on version, keys and identity, and
\* compatible ones do complete.
HandshakeInv == part = "handshake" => H!HandshakeInv

\* NoiseGrpcConn: its mutexes, and what a transport reads and closes.
GrpcInv == G!GrpcInv

=============================================================================
