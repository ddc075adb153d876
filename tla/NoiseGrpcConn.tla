----------------------------- MODULE NoiseGrpcConn -----------------------------
(***************************************************************************)
(* NoiseGrpcConn of mailbox/grpc_noise_conn.go: one object serves all      *)
(* connections of a gRPC client (or server) one after the other. Dial      *)
(* (Accept) gives it the next mailbox connection, a handshake makes it the *)
(* current one, a reader goroutine of the gRPC transport reads from it and *)
(* someone closes it. proxyConnMtx is an RWMutex: a waiting writer keeps   *)
(* new readers out.                                                        *)
(***************************************************************************)
EXTENDS Naturals, Sequences

CONSTANTS
    MaxConns,   \* bound on the connections
    BufSize,    \* defaultGrpcWriteBufSize, which the buffers of gRPC have
    MaxBytes    \* bound on the bytes received on one connection

Conns == 1 .. MaxConns
\* A message has at most 65535 bytes, one less than two buffers.
Lengths == 1 .. 2 * BufSize - 1

VARIABLES
    ProxyConn,      \* the current connection, 0 before the first
    closed,         \* the connections that are closed
    taken,          \* the bytes read from each connection
    nextMsg,        \* what did not fit: a sequence of <<connection, number>>
    holders,        \* who holds proxyConnMtx for reading
    writer,         \* a handshake: "none", "waiting" or "holds" proxyConnMtx
    dialer, reader, sender, closer,     \* where the threads of each connection are
    given           \* the bytes given by Read, for each reader the last ones

vars == <<ProxyConn, closed, taken, nextMsg, holders, writer, dialer, reader,
          sender, closer, given>>

Init ==
    /\ ProxyConn = 0 /\ closed = {}
    /\ taken = [k \in Conns |-> 0] /\ nextMsg = <<>>
    /\ holders = {} /\ writer = "none"
    /\ dialer = [at |-> "dial", k |-> 0]
    /\ reader = [k \in Conns |-> "none"] /\ sender = [k \in Conns |-> "none"]
    /\ closer = [k \in Conns |-> "none"]
    /\ given = [k \in Conns |-> <<>>]

-----------------------------------------------------------------------------
(***************************************************************************)
(* Dial and the handshake.                                                 *)
(***************************************************************************)

\* Slip: Dial does not wait.
DialEager ==
    /\ dialer.at = "dial" /\ dialer.k < MaxConns
    /\ dialer' = [at |-> "lock", k |-> dialer.k + 1]
    /\ UNCHANGED <<ProxyConn, closed, taken, nextMsg, holders, writer, reader,
                   sender, closer, given>>

\* Dial waits until the connection before is closed.
Dial ==
    /\ dialer.at = "dial" /\ dialer.k < MaxConns
    /\ dialer.k > 0 => dialer.k \in closed
    /\ dialer' = [at |-> "lock", k |-> dialer.k + 1]
    /\ UNCHANGED <<ProxyConn, closed, taken, nextMsg, holders, writer, reader,
                   sender, closer, given>>

handshakeWaits ==
    /\ dialer.at = "lock" /\ writer = "none"
    /\ writer' = "waiting"
    /\ UNCHANGED <<ProxyConn, closed, taken, nextMsg, holders, dialer, reader,
                   sender, closer, given>>

handshakeLocks ==
    /\ writer = "waiting" /\ holders = {}
    /\ writer' = "holds" /\ ProxyConn' = dialer.k
    /\ UNCHANGED <<closed, taken, nextMsg, holders, dialer, reader, sender, closer,
                   given>>

\* The handshake succeeds and gRPC starts to read.
ClientHandshake ==
    /\ writer = "holds"
    /\ writer' = "none" /\ dialer' = [dialer EXCEPT !.at = "dial"]
    /\ reader' = [reader EXCEPT ![dialer.k] = "idle"]
    /\ sender' = [sender EXCEPT ![dialer.k] = "idle"]
    /\ closer' = [closer EXCEPT ![dialer.k] = "open"]
    /\ UNCHANGED <<ProxyConn, closed, taken, nextMsg, holders, given>>

\* It fails, after its read deadline at the latest, and gRPC closes the mailbox
\* connection.
handshakeFails ==
    /\ writer = "holds"
    /\ writer' = "none" /\ dialer' = [dialer EXCEPT !.at = "dial"]
    /\ closed' = closed \cup {dialer.k}
    /\ UNCHANGED <<ProxyConn, taken, nextMsg, holders, reader, sender, closer, given>>

-----------------------------------------------------------------------------
(***************************************************************************)
(* Read, by the reader of connection k.                                    *)
(***************************************************************************)

\* RLock, then nextMsgMtx.
readLocks(k) ==
    /\ reader[k] = "idle" /\ writer = "none"
    /\ \A j \in Conns : <<"read", j>> \notin holders
    /\ holders' = holders \cup {<<"read", k>>}
    /\ reader' = [reader EXCEPT ![k] = "reading"]
    /\ UNCHANGED <<ProxyConn, closed, taken, nextMsg, writer, dialer, sender, closer,
                   given>>

readReturns(k, bytes, state) ==
    /\ holders' = holders \ {<<"read", k>>}
    /\ reader' = [reader EXCEPT ![k] = state]
    /\ given' = [given EXCEPT ![k] = bytes]
    /\ UNCHANGED <<ProxyConn, closed, writer, dialer, sender, closer>>

\* The rest of the last message.
readRest(k) ==
    /\ reader[k] = "reading" /\ nextMsg # <<>>
    /\ nextMsg' = <<>>
    /\ readReturns(k, nextMsg, "idle")
    /\ UNCHANGED taken

\* Slip: the first byte that does not fit is lost.
splitOffByOne(msg) ==
    IF Len(msg) > BufSize
    THEN <<SubSeq(msg, 1, BufSize), SubSeq(msg, BufSize + 2, Len(msg))>>
    ELSE <<msg, <<>>>>

\* What is given now and what is kept.
split(msg) ==
    IF Len(msg) > BufSize
    THEN <<SubSeq(msg, 1, BufSize), SubSeq(msg, BufSize + 1, Len(msg))>>
    ELSE <<msg, <<>>>>

\* A message arrives on the current connection.
readMessage(k) ==
    /\ reader[k] = "reading" /\ nextMsg = <<>> /\ ProxyConn \notin closed
    /\ \E n \in Lengths :
          LET msg == [i \in 1 .. n |-> <<ProxyConn, taken[ProxyConn] + i>>]
          IN /\ taken[ProxyConn] + n <= MaxBytes
             /\ taken' = [taken EXCEPT ![ProxyConn] = @ + n]
             /\ nextMsg' = split(msg)[2]
             /\ readReturns(k, split(msg)[1], "idle")

\* The read fails when the connection is closed, and the reader ends. It may
\* also fail because of a message that cannot be decrypted.
readFails(k) ==
    /\ reader[k] = "reading" /\ nextMsg = <<>> /\ ProxyConn \in closed
    /\ readReturns(k, <<>>, "end")
    /\ UNCHANGED <<taken, nextMsg>>

-----------------------------------------------------------------------------
(***************************************************************************)
(* Write, which waits while the window of the connection is full.          *)
(***************************************************************************)

writeLocks(k) ==
    /\ sender[k] = "idle" /\ writer = "none"
    /\ holders' = holders \cup {<<"write", k>>}
    /\ sender' = [sender EXCEPT ![k] = "writing"]
    /\ UNCHANGED <<ProxyConn, closed, taken, nextMsg, writer, dialer, reader, closer,
                   given>>

\* It returns at some time, and with an error if the connection is closed.
Write(k) ==
    /\ sender[k] = "writing"
    /\ holders' = holders \ {<<"write", k>>}
    /\ sender' = [sender EXCEPT ![k] = IF ProxyConn \in closed THEN "end" ELSE "idle"]
    /\ UNCHANGED <<ProxyConn, closed, taken, nextMsg, writer, dialer, reader, closer,
                   given>>

-----------------------------------------------------------------------------
(***************************************************************************)
(* Close, by the transport of connection k: once, when its reader has ended *)
(* or for a reason of its own.                                             *)
(***************************************************************************)

closeLocks(k) ==
    /\ closer[k] = "open" /\ writer = "none"
    /\ holders' = holders \cup {<<"close", k>>}
    /\ closer' = [closer EXCEPT ![k] = "closing"]
    /\ UNCHANGED <<ProxyConn, closed, taken, nextMsg, writer, dialer, reader, sender,
                   given>>

Close(k) ==
    /\ closer[k] = "closing"
    /\ closed' = closed \cup {ProxyConn}
    /\ holders' = holders \ {<<"close", k>>}
    /\ closer' = [closer EXCEPT ![k] = "end"]
    /\ UNCHANGED <<ProxyConn, taken, nextMsg, writer, dialer, reader, sender,
                   given>>

readerStep(k) == readLocks(k) \/ readRest(k) \/ readMessage(k) \/ readFails(k)

Next ==
    \/ Dial \/ handshakeWaits \/ handshakeLocks \/ ClientHandshake \/ handshakeFails
    \/ \E k \in Conns : readerStep(k) \/ writeLocks(k) \/ Write(k) \/ closeLocks(k) \/ Close(k)

Spec == Init /\ [][Next]_vars

\* The threads run; gRPC closes a connection when its reader has ended.
FairSpec ==
    /\ Spec
    /\ WF_vars(Dial) /\ WF_vars(handshakeWaits) /\ WF_vars(handshakeLocks)
    /\ WF_vars(ClientHandshake \/ handshakeFails)
    /\ \A k \in Conns : /\ WF_vars(readRest(k) \/ readFails(k))
                        /\ WF_vars(Write(k) /\ ProxyConn \in closed)
                        /\ WF_vars(closeLocks(k) /\ reader[k] = "end") /\ WF_vars(Close(k))

-----------------------------------------------------------------------------
(***************************************************************************)
(* Properties.                                                             *)
(***************************************************************************)

\* Types, and the mutexes: a handshake excludes readers, readers exclude each
\* other.
TypeOK ==
    /\ ProxyConn \in 0 .. MaxConns /\ closed \subseteq Conns
    /\ {taken[k] : k \in Conns} \subseteq 0 .. MaxBytes
    /\ writer = "holds" => holders = {}
    /\ \A j, k \in Conns : {<<"read", j>>, <<"read", k>>} \subseteq holders => j = k
    /\ \A k \in Conns : (<<"read", k>> \in holders) = (reader[k] = "reading")

\* What a step gives to readers is the next bytes of one connection, in order; the
\* rest of a long message is given whole.
GivesNextBytes ==
    \A k \in Conns : given'[k] # given[k] /\ given'[k] # <<>> =>
        LET bytes == given'[k] \o nextMsg'
            c == bytes[1][1]
        IN /\ \A i \in 1 .. Len(bytes) :
                 bytes[i] = <<c, taken'[c] - Len(bytes) + i>>
           /\ Len(nextMsg) > 0 => given'[k] = nextMsg

\* Read: the bytes of a connection are given in order, none is left out or
\* repeated, across the two parts of a long message and whoever reads.
BytesInOrder == [][GivesNextBytes]_vars

\* Read: no more bytes are given than the buffer of the caller holds.
ReadFits == \A k \in Conns : Len(given[k]) <= BufSize

\* Close, Dial: only the connection a transport was made for is closed by it;
\* the next one is not touched by what is left of the one before.
ClosesOwn == \A k \in Conns : closer[k] = "closing" => ProxyConn = k

\* ClientHandshake: a handshake that waits for proxyConnMtx gets it, because no
\* reader blocks on a connection that is not closed by then.
HandshakeProceeds == writer = "waiting" ~> writer = "holds"

\* NoiseGrpcConn: the mutexes exclude each other, Read gives no more than fits,
\* and a transport closes no connection but its own.
GrpcInv == TypeOK /\ ReadFits /\ ClosesOwn

=============================================================================
