-------------------------- MODULE GBNHandshakeProofs --------------------------
(***************************************************************************)
(* What the two handshakes know of each other, for streams of any capacity *)
(* and any n: the server is up only after the client, and with its n.      *)
(*                                                                         *)
(* The leftover of an earlier connection can only be the first message of  *)
(* the server's stream. A server that has read a SYN has it behind itself: *)
(* from then on all it reads was sent by this client, with the client's n, *)
(* and is a SYN or FIN until the client has completed its handshake.       *)
(***************************************************************************)
EXTENDS GBNHandshake, TLAPS

Places == Handshaking \cup {"up", "failed", "closed", "torn"}
Ns == OldNs \cup {0, ClientN}
Message == [type : {"SYN", "SYNACK", "DATA", "FIN", "none"}, n : Ns]

Types ==
    /\ pc \in [Ends -> Places]
    /\ reader \in [Ends -> {"select", "recv", "offer", "gone"}]
    /\ held \in [Ends -> Message]
    /\ stream \in [Ends -> Seq(Message)]
    /\ n \in [Ends -> Ns]
    /\ resent \in BOOLEAN /\ completed \in BOOLEAN

\* A SYN of this client or an answer to it.
good(m) == m.type = "SYN" => m.n = ClientN

\* What this client has sent, or nothing.
own(m, done) == good(m) /\ (done \/ m.type \in {"SYN", "FIN", "none"})

\* The server has read a SYN.
past == pc["server"] \in {"reply", "waitSYNACK"} \/ resent

\* The same for a stream: for all messages, and for all but the first.
allOwn(s, done) == \A i \in DOMAIN s : own(s[i], done)
restOwn(s, done) == \A i \in DOMAIN s : i > 1 => own(s[i], done)
allGood(s) == \A i \in DOMAIN s : good(s[i])

\* A leftover is read first, and before the server has read a SYN.
LeftoverFirst ==
    /\ restOwn(stream["server"], completed)
    /\ past \/ reader["server"] = "offer" => allOwn(stream["server"], completed)
    /\ past => own(held["server"], completed)

\* An answer with the client's n is on its way to the client or has reached it.
answered(s) == \E i \in DOMAIN s : s[i] = SYN(ClientN)
agreed ==
    \/ n["client"] = ClientN \/ held["client"] = SYN(ClientN)
    \/ answered(stream["client"])

\* The leftovers have another n: the server has the client's n for good before
\* the client can complete.
OtherN ==
    agreed => /\ n["server"] = ClientN
              /\ good(held["server"]) /\ allGood(stream["server"])

\* The leftovers have the client's n, or there are none.
SameN ==
    /\ past \/ pc["server"] = "up" => n["server"] = ClientN
    /\ good(held["server"]) /\ allGood(stream["server"])

ClientUp == pc["client"] = "up" => completed /\ n["client"] = ClientN

IInv ==
    /\ Types /\ LeftoverFirst /\ ClientUp /\ ServerUpAfterClient
    /\ OtherN \/ SameN

-----------------------------------------------------------------------------
(***************************************************************************)
(* Lemmas on messages and streams.                                         *)
(***************************************************************************)

\* The messages of the handshake are messages, and which of them are own.
LEMMA Messages ==
    /\ \A k \in Ns : SYN(k) \in Message
    /\ \A t \in {"SYNACK", "DATA", "FIN", "none"} :
           Msg(t) \in Message /\ good(Msg(t)) /\ Msg(t) # SYN(ClientN)
           /\ own(Msg(t), TRUE)
    /\ NoMsg = Msg("none") /\ ClientN \in Ns
    /\ \A done \in BOOLEAN : /\ own(SYN(ClientN), done) /\ own(NoMsg, done)
                             /\ own(Msg("FIN"), done)
    /\ good(SYN(ClientN))
BY DEF SYN, Msg, NoMsg, Message, Ns, own, good

\* A SYN with the client's n is the client's SYN.
LEMMA TheSYN ==
    ASSUME NEW m \in Message
    PROVE  m = SYN(ClientN) <=> m.type = "SYN" /\ m.n = ClientN
BY DEF Message, SYN

\* What is own once stays so, and is good.
LEMMA StaysOwn ==
    ASSUME NEW s \in Seq(Message), NEW done \in BOOLEAN
    PROVE  /\ allOwn(s, done) => allOwn(s, TRUE) /\ allGood(s) /\ restOwn(s, done)
           /\ restOwn(s, done) => restOwn(s, TRUE)
BY DEF allOwn, restOwn, allGood, own

\* Reading from a stream.
LEMMA Reads ==
    ASSUME NEW s \in Seq(Message), s # <<>>, NEW done \in BOOLEAN
    PROVE  /\ Tail(s) \in Seq(Message) /\ Head(s) \in Message
           /\ restOwn(s, done) => allOwn(Tail(s), done)
           /\ allOwn(s, done) => own(Head(s), done)
           /\ allGood(s) => allGood(Tail(s)) /\ good(Head(s))
           /\ answered(Tail(s)) \/ Head(s) = SYN(ClientN) => answered(s)
<1>1. /\ Tail(s) \in Seq(Message) /\ Head(s) \in Message
      /\ 1 \in DOMAIN s /\ Head(s) = s[1]
      /\ \A i \in DOMAIN Tail(s) :
             i + 1 \in DOMAIN s /\ i + 1 > 1 /\ Tail(s)[i] = s[i + 1]
    OBVIOUS
<1> QED
    BY <1>1 DEF restOwn, allOwn, allGood, answered

\* Writing to a stream.
LEMMA Writes ==
    ASSUME NEW s \in Seq(Message), NEW m \in Message, NEW done \in BOOLEAN
    PROVE  /\ Append(s, m) \in Seq(Message)
           /\ own(m, done) /\ restOwn(s, done) => restOwn(Append(s, m), done)
           /\ own(m, done) /\ allOwn(s, done) => allOwn(Append(s, m), done)
           /\ good(m) /\ allGood(s) => allGood(Append(s, m))
           /\ answered(Append(s, m)) => answered(s) \/ m = SYN(ClientN)
<1>1. /\ Append(s, m) \in Seq(Message)
      /\ \A i \in DOMAIN Append(s, m) :
             \/ i \in DOMAIN s /\ Append(s, m)[i] = s[i]
             \/ Append(s, m)[i] = m
    OBVIOUS
<1> QED
    BY <1>1 DEF restOwn, allOwn, allGood, answered

-----------------------------------------------------------------------------
(***************************************************************************)
(* The parts of a step.                                                    *)
(***************************************************************************)

Streams == [Ends -> Seq(Message)]

\* Send writes to the stream of the peer.
LEMMA Sends ==
    ASSUME Types, NEW e \in Ends, NEW m \in Message, Send(e, m)
    PROVE  /\ stream' \in Streams /\ stream'[e] = stream[e]
           /\ stream'[Peer(e)] = Append(stream[Peer(e)], m)
BY DEF Types, Send, Ends, Peer, Streams

\* Close writes a FIN or nothing.
LEMMA Closes ==
    ASSUME Types, NEW e \in Ends, Close(e)
    PROVE  /\ stream' \in Streams /\ stream'[e] = stream[e]
           /\ stream'[Peer(e)] \in
                  {stream[Peer(e)], Append(stream[Peer(e)], Msg("FIN"))}
BY Messages, Sends DEF Types, Close, Streams, Ends, Peer

\* Take leaves the reading goroutine without a message.
LEMMA Takes ==
    ASSUME Types, NEW e \in Ends, NEW ts, Take(e, ts)
    PROVE  /\ reader' \in [Ends -> {"select", "recv", "offer", "gone"}]
           /\ held' \in [Ends -> Message]
           /\ reader[e] = "offer" /\ held[e].type \in ts
           /\ reader'[e] = "select" /\ held'[e] = NoMsg
           /\ reader'[Peer(e)] = reader[Peer(e)] /\ held'[Peer(e)] = held[Peer(e)]
BY Messages DEF Types, Take, Ends, Peer

\* Goto changes the place of one end.
LEMMA Goes ==
    ASSUME Types, NEW e \in Ends, NEW where \in Places, Goto(e, where)
    PROVE  /\ pc' \in [Ends -> Places]
           /\ pc'[e] = where /\ pc'[Peer(e)] = pc[Peer(e)]
BY DEF Types, Goto, Ends, Peer

\* A message leaves the stream of e.
LEMMA Drops ==
    ASSUME Types, NEW e \in Ends, stream[e] # <<>>,
           stream' = [stream EXCEPT ![e] = Tail(@)]
    PROVE  /\ stream' \in Streams /\ stream'[e] = Tail(stream[e])
           /\ stream'[Peer(e)] = stream[Peer(e)]
BY Reads DEF Types, Ends, Peer, Streams

\* What the client writes keeps the server's stream its own.
LEMMA ClientWrites ==
    ASSUME Types, NEW m \in Message, NEW done \in BOOLEAN, completed => done,
           own(m, done),
           stream'["server"] \in {stream["server"], Append(stream["server"], m)}
    PROVE  /\ restOwn(stream["server"], completed) => restOwn(stream'["server"], done)
           /\ allOwn(stream["server"], completed) => allOwn(stream'["server"], done)
           /\ allGood(stream["server"]) => allGood(stream'["server"])
           /\ own(held["server"], completed) => own(held["server"], done)
<1> DEFINE s == stream["server"]
<1>1. s \in Seq(Message) /\ completed \in BOOLEAN /\ good(m)
    BY DEF Types, Ends, own
<1>2. /\ restOwn(s, completed) => restOwn(s, done)
      /\ allOwn(s, completed) => allOwn(s, done)
    BY <1>1, StaysOwn, Zenon
<1>3. own(held["server"], completed) => own(held["server"], done)
    BY DEF own
<1>4. /\ restOwn(s, done) => restOwn(Append(s, m), done)
      /\ allOwn(s, done) => allOwn(Append(s, m), done)
      /\ allGood(s) => allGood(Append(s, m))
    BY <1>1, Writes
<1> QED
    BY <1>2, <1>3, <1>4, Zenon

\* What leaves the server's stream was its first message.
LEMMA ServerReads ==
    ASSUME Types, stream["server"] # <<>>, stream'["server"] = Tail(stream["server"])
    PROVE  /\ restOwn(stream["server"], completed) =>
                  /\ restOwn(stream'["server"], completed)
                  /\ allOwn(stream'["server"], completed)
           /\ allOwn(stream["server"], completed) =>
                  own(Head(stream["server"]), completed)
           /\ allGood(stream["server"]) =>
                  allGood(stream'["server"]) /\ good(Head(stream["server"]))
<1> DEFINE s == stream["server"]
<1>1. s \in Seq(Message) /\ completed \in BOOLEAN
    BY DEF Types, Ends
<1>2. Tail(s) \in Seq(Message)
    BY <1>1
<1> QED
    BY <1>1, <1>2, Reads, StaysOwn, Zenon

\* What leaves the client's stream makes no new answer, nor does a FIN or DATA.
LEMMA ClientReads ==
    ASSUME Types, stream["client"] # <<>>, stream'["client"] = Tail(stream["client"])
    PROVE  /\ answered(stream'["client"]) => answered(stream["client"])
           /\ Head(stream["client"]) = SYN(ClientN) => answered(stream["client"])
BY Reads DEF Types, Ends

\* A message of the server other than the client's SYN is no answer.
LEMMA ServerWrites ==
    ASSUME Types, NEW m \in Message, m # SYN(ClientN),
           stream'["client"] \in {stream["client"], Append(stream["client"], m)}
    PROVE  answered(stream'["client"]) => answered(stream["client"])
BY Writes, Zenon DEF Types, Ends

-----------------------------------------------------------------------------
(***************************************************************************)
(* Every step keeps the invariant.                                         *)
(***************************************************************************)

\* The client writes its SYN.
LEMMA ClientSendSYNKeeps ==
    ASSUME IInv, clientSendSYN PROVE IInv'
<1> USE Messages DEF IInv, clientSendSYN
<1>1. Types'
    BY Sends, Goes DEF Types, ReadNext, Peer, Ends, Streams, Places,
       Handshaking
<1>2. /\ restOwn(stream'["server"], completed)
      /\ allOwn(stream["server"], completed) => allOwn(stream'["server"], completed)
      /\ allGood(stream["server"]) => allGood(stream'["server"])
      /\ own(held["server"], completed) => own(held["server"], completed)
      /\ stream'["client"] = stream["client"]
    BY Sends, ClientWrites DEF Types, LeftoverFirst, Ends, Peer
<1>3. LeftoverFirst' /\ ClientUp' /\ ServerUpAfterClient'
    BY <1>2, Goes DEF Types, ReadNext, Peer, Ends, Streams, Places,
       Handshaking, LeftoverFirst, past, ClientUp, ServerUpAfterClient,
       OtherN, SameN, agreed
<1>4. (OtherN \/ SameN)'
    BY <1>2, Goes DEF Types, own, ReadNext, Peer, Ends, Streams, Places,
       Handshaking, LeftoverFirst, past, ClientUp, ServerUpAfterClient,
       OtherN, SameN, agreed
<1> QED
    BY <1>1, <1>3, <1>4

\* The client gives up waiting and sends again.
LEMMA ClientTimeoutKeeps ==
    ASSUME IInv, clientTimeout PROVE IInv'
<1> USE Messages DEF IInv, clientTimeout
<1>1. Types'
    BY Goes DEF Types, ReadNext, Peer, Ends, Streams, Places, Handshaking
<1>2. stream' = stream
    OBVIOUS
<1>3. LeftoverFirst' /\ ClientUp' /\ ServerUpAfterClient'
    BY <1>2, Goes DEF Types, ReadNext, Peer, Ends, Streams, Places,
       Handshaking, LeftoverFirst, past, ClientUp, ServerUpAfterClient,
       OtherN, SameN, agreed
<1>4. (OtherN \/ SameN)'
    BY <1>2, Goes DEF Types, own, ReadNext, Peer, Ends, Streams, Places,
       Handshaking, LeftoverFirst, past, ClientUp, ServerUpAfterClient,
       OtherN, SameN, agreed
<1> QED
    BY <1>1, <1>3, <1>4

\* The client takes n from an answer, which may be a leftover.
LEMMA ClientRecvSYNKeeps ==
    ASSUME IInv, clientRecvSYN PROVE IInv'
<1> USE Messages DEF IInv, clientRecvSYN
<1>1. Types'
  <2>1. held["client"].n \in Ns
      BY DEF Types, Ends, Message
  <2>2. n' \in [Ends -> Ns]
      BY <2>1 DEF Types, Ends
  <2> QED
      BY <2>2, Takes, Goes DEF Types, Peer, Ends, Places, Handshaking
<1>2. /\ held["client"].type = "SYN" /\ held'["client"] = NoMsg
      /\ held'["server"] = held["server"] /\ reader'["server"] = reader["server"]
      /\ n'["client"] = ClientN => held["client"] = SYN(ClientN)
      /\ n'["server"] = n["server"]
    BY Takes, TheSYN DEF Types, Ends, Peer
<1>3. LeftoverFirst' /\ ClientUp' /\ ServerUpAfterClient'
    BY <1>2, Goes DEF Types, ReadNext, Peer, Ends, Streams, Places,
       Handshaking, LeftoverFirst, past, ClientUp, ServerUpAfterClient,
       OtherN, SameN, agreed
<1>4. (OtherN \/ SameN)'
    BY <1>2, Goes DEF Types, own, ReadNext, Peer, Ends, Streams, Places,
       Handshaking, LeftoverFirst, past, ClientUp, ServerUpAfterClient,
       OtherN, SameN, agreed
<1> QED
    BY <1>1, <1>3, <1>4

\* The client skips what is no SYN.
LEMMA ClientRecvOtherKeeps ==
    ASSUME IInv, clientRecvOther PROVE IInv'
<1> USE Messages DEF IInv, clientRecvOther
<1>1. Types'
    BY Takes DEF Types, ReadNext, Peer, Ends, Streams, Places, Handshaking
<1>2. /\ held'["client"] = NoMsg
      /\ held'["server"] = held["server"] /\ reader'["server"] = reader["server"]
    BY Takes DEF Ends, Peer
<1>3. LeftoverFirst' /\ ClientUp' /\ ServerUpAfterClient'
    BY <1>2 DEF Types, ReadNext, Peer, Ends, Streams, Places, Handshaking,
       LeftoverFirst, past, ClientUp, ServerUpAfterClient, OtherN, SameN,
       agreed
<1>4. (OtherN \/ SameN)'
    BY <1>2 DEF Types, own, ReadNext, Peer, Ends, Streams, Places,
       Handshaking, LeftoverFirst, past, ClientUp, ServerUpAfterClient,
       OtherN, SameN, agreed
<1> QED
    BY <1>1, <1>3, <1>4

\* The client completes: from here on SYNACK and DATA are its own.
LEMMA ClientSendSYNACKKeeps ==
    ASSUME IInv, clientSendSYNACK PROVE IInv'
<1> USE Messages DEF IInv, clientSendSYNACK
<1>1. Types'
    BY Sends, Goes DEF Types, ReadNext, Peer, Ends, Streams, Places,
       Handshaking
<1>2. /\ restOwn(stream'["server"], TRUE)
      /\ allOwn(stream["server"], completed) => allOwn(stream'["server"], TRUE)
      /\ allGood(stream["server"]) => allGood(stream'["server"])
      /\ own(held["server"], completed) => own(held["server"], TRUE)
      /\ stream'["client"] = stream["client"]
    BY Sends, ClientWrites, Zenon DEF Types, LeftoverFirst, Ends, Peer
<1>3. LeftoverFirst' /\ ClientUp' /\ ServerUpAfterClient'
    BY <1>2, Goes, Zenon DEF Types, ReadNext, Peer, Ends, Streams, Places,
       Handshaking, LeftoverFirst, past, ClientUp, ServerUpAfterClient,
       OtherN, SameN, agreed
<1>4. (OtherN \/ SameN)'
    BY <1>2, Goes DEF Types, own, ReadNext, Peer, Ends, Streams, Places,
       Handshaking, LeftoverFirst, past, ClientUp, ServerUpAfterClient,
       OtherN, SameN, agreed
<1> QED
    BY <1>1, <1>3, <1>4

\* The client refuses an answer with another n.
LEMMA ClientRefuseNKeeps ==
    ASSUME IInv, clientRefuseN PROVE IInv'
<1> USE Messages DEF IInv, clientRefuseN
<1>1. Types'
    BY Closes, Goes DEF Types, ReadNext, Peer, Ends, Streams, Places,
       Handshaking
<1>2. /\ restOwn(stream'["server"], completed)
      /\ allOwn(stream["server"], completed) => allOwn(stream'["server"], completed)
      /\ allGood(stream["server"]) => allGood(stream'["server"])
      /\ own(held["server"], completed) => own(held["server"], completed)
      /\ stream'["client"] = stream["client"]
    BY Closes, ClientWrites DEF Types, LeftoverFirst, Ends, Peer
<1>3. LeftoverFirst' /\ ClientUp' /\ ServerUpAfterClient'
    BY <1>2, Goes DEF Types, ReadNext, Peer, Ends, Streams, Places,
       Handshaking, LeftoverFirst, past, ClientUp, ServerUpAfterClient,
       OtherN, SameN, agreed
<1>4. (OtherN \/ SameN)'
    BY <1>2, Goes DEF Types, own, ReadNext, Peer, Ends, Streams, Places,
       Handshaking, LeftoverFirst, past, ClientUp, ServerUpAfterClient,
       OtherN, SameN, agreed
<1> QED
    BY <1>1, <1>3, <1>4

\* The server takes n: after a leftover the rest of the stream is the client's.
LEMMA ServerRecvSYNKeeps ==
    ASSUME IInv, serverRecvSYN PROVE IInv'
<1> USE Messages DEF IInv, serverRecvSYN
<1>1. Types'
  <2>1. held["server"].n \in Ns
      BY DEF Types, Ends, Message
  <2>2. n' \in [Ends -> Ns]
      BY <2>1 DEF Types, Ends
  <2> QED
      BY <2>2, Takes, Goes DEF Types, Peer, Ends, Places, Handshaking
<1>2. /\ held["server"].type = "SYN" /\ held'["server"] = NoMsg
      /\ held'["client"] = held["client"] /\ reader["server"] = "offer"
      /\ good(held["server"]) => n'["server"] = ClientN
      /\ n'["client"] = n["client"]
    BY Takes DEF Types, Ends, Peer, good
<1>3. LeftoverFirst' /\ ClientUp' /\ ServerUpAfterClient'
    BY <1>2, Goes, StaysOwn DEF Types, ReadNext, Peer, Ends, Streams,
       Places, Handshaking, LeftoverFirst, past, ClientUp,
       ServerUpAfterClient, OtherN, SameN, agreed
<1>4. (OtherN \/ SameN)'
    BY <1>2, Goes DEF Types, own, ReadNext, Peer, Ends, Streams, Places,
       Handshaking, LeftoverFirst, past, ClientUp, ServerUpAfterClient,
       OtherN, SameN, agreed
<1> QED
    BY <1>1, <1>3, <1>4

\* The server answers; an answer with the client's n makes the ends agree.
LEMMA ServerSendSYNKeeps ==
    ASSUME IInv, serverSendSYN PROVE IInv'
<1> USE Messages DEF IInv, serverSendSYN
<1>1. Types'
    BY Sends, Goes DEF Types, ReadNext, Peer, Ends, Streams, Places,
       Handshaking
<1>2. /\ stream'["server"] = stream["server"]
      /\ n["server"] # ClientN =>
             (answered(stream'["client"]) => answered(stream["client"]))
      /\ past => allGood(stream["server"]) /\ good(held["server"])
  <2>1. /\ stream'["server"] = stream["server"]
        /\ stream'["client"] = Append(stream["client"], SYN(n["server"]))
        /\ n["server"] # ClientN => SYN(n["server"]) # SYN(ClientN)
      BY Sends DEF Types, Ends, Peer, SYN
  <2>2. past => allGood(stream["server"]) /\ good(held["server"])
      BY StaysOwn, Zenon DEF Types, LeftoverFirst, Ends, own
  <2> QED
      BY <2>1, <2>2, ServerWrites DEF Types, Ends
<1>3. LeftoverFirst' /\ ClientUp' /\ ServerUpAfterClient'
    BY <1>2, Goes DEF Types, ReadNext, Peer, Ends, Streams, Places,
       Handshaking, LeftoverFirst, past, ClientUp, ServerUpAfterClient,
       OtherN, SameN, agreed
<1>4. (OtherN \/ SameN)'
    BY <1>2, Goes DEF Types, own, ReadNext, Peer, Ends, Streams, Places,
       Handshaking, LeftoverFirst, past, ClientUp, ServerUpAfterClient,
       OtherN, SameN, agreed
<1> QED
    BY <1>1, <1>3, <1>4

\* The server restarts its handshake.
LEMMA ServerTimeoutKeeps ==
    ASSUME IInv, serverTimeout PROVE IInv'
<1> USE Messages DEF IInv, serverTimeout
<1>1. Types'
    BY Goes DEF Types, ReadNext, Peer, Ends, Streams, Places, Handshaking
<1>2. stream' = stream
    OBVIOUS
<1>3. LeftoverFirst' /\ ClientUp' /\ ServerUpAfterClient'
    BY <1>2, Goes DEF Types, ReadNext, Peer, Ends, Streams, Places,
       Handshaking, LeftoverFirst, past, ClientUp, ServerUpAfterClient,
       OtherN, SameN, agreed
<1>4. (OtherN \/ SameN)'
    BY <1>2, Goes DEF Types, own, ReadNext, Peer, Ends, Streams, Places,
       Handshaking, LeftoverFirst, past, ClientUp, ServerUpAfterClient,
       OtherN, SameN, agreed
<1> QED
    BY <1>1, <1>3, <1>4

\* The server completes: a SYNACK it reads now was sent by this client.
LEMMA ServerRecvSYNACKKeeps ==
    ASSUME IInv, serverRecvSYNACK PROVE IInv'
<1> USE Messages DEF IInv, serverRecvSYNACK
<1>1. Types'
    BY Takes, Goes DEF Types, ReadNext, Peer, Ends, Streams, Places,
       Handshaking
<1>2. /\ held["server"].type = "SYNACK" /\ held'["server"] = NoMsg
      /\ held'["client"] = held["client"] /\ reader["server"] = "offer"
      /\ reader'["server"] = "select"
    BY Takes DEF Ends, Peer
<1>3. LeftoverFirst' /\ ClientUp' /\ ServerUpAfterClient'
    BY <1>2, Goes, Zenon DEF own, Types, ReadNext, Peer, Ends, Streams, Places,
       Handshaking, LeftoverFirst, past, ClientUp, ServerUpAfterClient,
       OtherN, SameN, agreed
<1>4. (OtherN \/ SameN)'
    BY <1>2, Goes DEF Types, own, ReadNext, Peer, Ends, Streams, Places,
       Handshaking, LeftoverFirst, past, ClientUp, ServerUpAfterClient,
       OtherN, SameN, agreed
<1> QED
    BY <1>1, <1>3, <1>4

\* The server gives up on what is no answer to its SYN.
LEMMA ServerRecvOtherKeeps ==
    ASSUME IInv, serverRecvOther PROVE IInv'
<1> USE Messages DEF IInv, serverRecvOther
<1>1. Types'
    BY Takes, Closes, Goes DEF Types, ReadNext, Peer, Ends, Streams,
       Places, Handshaking
<1>2. /\ held'["server"] = NoMsg /\ held'["client"] = held["client"]
      /\ reader'["server"] = "select" /\ stream'["server"] = stream["server"]
      /\ answered(stream'["client"]) => answered(stream["client"])
    BY Takes, Closes, ServerWrites DEF Ends, Peer
<1>3. LeftoverFirst' /\ ClientUp' /\ ServerUpAfterClient'
    BY <1>2, Goes DEF Types, ReadNext, Peer, Ends, Streams, Places,
       Handshaking, LeftoverFirst, past, ClientUp, ServerUpAfterClient,
       OtherN, SameN, agreed
<1>4. (OtherN \/ SameN)'
    BY <1>2, Goes DEF Types, own, ReadNext, Peer, Ends, Streams, Places,
       Handshaking, LeftoverFirst, past, ClientUp, ServerUpAfterClient,
       OtherN, SameN, agreed
<1> QED
    BY <1>1, <1>3, <1>4

\* A restarted server completes on SYNACK or DATA.
LEMMA ServerCompletesKeeps ==
    ASSUME IInv, serverCompletes PROVE IInv'
<1> USE Messages DEF IInv, serverCompletes
<1>1. Types'
    BY Takes, Goes DEF Types, ReadNext, Peer, Ends, Streams, Places,
       Handshaking
<1>2. /\ held["server"].type \in {"SYNACK", "DATA"} /\ held'["server"] = NoMsg
      /\ held'["client"] = held["client"] /\ reader["server"] = "offer"
      /\ reader'["server"] = "select"
    BY Takes DEF Ends, Peer
<1>3. LeftoverFirst' /\ ClientUp' /\ ServerUpAfterClient'
    BY <1>2, Goes DEF own, Types, ReadNext, Peer, Ends, Streams, Places,
       Handshaking, LeftoverFirst, past, ClientUp, ServerUpAfterClient,
       OtherN, SameN, agreed
<1>4. (OtherN \/ SameN)'
    BY <1>2, Goes DEF Types, own, ReadNext, Peer, Ends, Streams, Places,
       Handshaking, LeftoverFirst, past, ClientUp, ServerUpAfterClient,
       OtherN, SameN, agreed
<1> QED
    BY <1>1, <1>3, <1>4

\* The server skips what is no SYN.
LEMMA ServerSkipsKeeps ==
    ASSUME IInv, serverSkips PROVE IInv'
<1> USE Messages DEF IInv, serverSkips
<1>1. Types'
    BY Takes DEF Types, ReadNext, Peer, Ends, Streams, Places, Handshaking
<1>2. /\ held'["server"] = NoMsg /\ held'["client"] = held["client"]
      /\ reader'["server"] = "select"
    BY Takes DEF Ends, Peer
<1>3. LeftoverFirst' /\ ClientUp' /\ ServerUpAfterClient'
    BY <1>2 DEF Types, ReadNext, Peer, Ends, Streams, Places, Handshaking,
       LeftoverFirst, past, ClientUp, ServerUpAfterClient, OtherN, SameN,
       agreed
<1>4. (OtherN \/ SameN)'
    BY <1>2 DEF Types, own, ReadNext, Peer, Ends, Streams, Places,
       Handshaking, LeftoverFirst, past, ClientUp, ServerUpAfterClient,
       OtherN, SameN, agreed
<1> QED
    BY <1>1, <1>3, <1>4

\* The reading goroutine starts to receive.
LEMMA ReaderStartsKeeps ==
    ASSUME IInv, NEW e \in Ends, readerStarts(e) PROVE IInv'
<1> USE Messages DEF IInv, readerStarts
<1>1. Types'
    BY Reads DEF Types, ReadNext, Peer, Ends, Streams, Places, Handshaking
<1>2. stream' = stream /\ reader'["server"] \in {reader["server"], "recv"}
    BY DEF Types, Ends
<1>3. LeftoverFirst' /\ ClientUp' /\ ServerUpAfterClient'
    BY <1>2 DEF Types, ReadNext, Peer, Ends, Streams, Places, Handshaking,
       LeftoverFirst, past, ClientUp, ServerUpAfterClient, OtherN, SameN,
       agreed
<1>4. (OtherN \/ SameN)'
    BY <1>2 DEF Types, own, ReadNext, Peer, Ends, Streams, Places,
       Handshaking, LeftoverFirst, past, ClientUp, ServerUpAfterClient,
       OtherN, SameN, agreed
<1> QED
    BY <1>1, <1>3, <1>4

\* The reading goroutine receives; a leftover is behind it then.
LEMMA ReaderRecvsKeeps ==
    ASSUME IInv, NEW e \in Ends, readerRecvs(e) PROVE IInv'
<1> USE Messages DEF IInv, readerRecvs
<1>1. Types'
    BY Drops, Reads DEF Types, ReadNext, Peer, Ends, Streams, Places,
       Handshaking
<1>2. /\ e = "client" =>
             /\ stream'["server"] = stream["server"]
             /\ held'["server"] = held["server"] /\ reader'["server"] = reader["server"]
             /\ answered(stream'["client"]) => answered(stream["client"])
             /\ held'["client"] = SYN(ClientN) => answered(stream["client"])
      /\ e = "server" =>
             /\ stream'["client"] = stream["client"] /\ held'["client"] = held["client"]
             /\ restOwn(stream'["server"], completed)
             /\ allOwn(stream'["server"], completed)
             /\ allOwn(stream["server"], completed) => own(held'["server"], completed)
             /\ allGood(stream["server"]) =>
                    allGood(stream'["server"]) /\ good(held'["server"])
  <2>1. CASE e = "client"
      BY <2>1, Drops, ClientReads DEF Types, Ends, Peer
  <2>2. CASE e = "server"
      BY <2>2, Drops, ServerReads DEF Types, Ends, Peer, LeftoverFirst
  <2> QED
      BY <2>1, <2>2
<1>3. LeftoverFirst' /\ ClientUp' /\ ServerUpAfterClient'
    BY <1>2 DEF Types, ReadNext, Peer, Ends, Streams, Places, Handshaking,
       LeftoverFirst, past, ClientUp, ServerUpAfterClient, OtherN, SameN,
       agreed
<1>4. (OtherN \/ SameN)'
    BY <1>2 DEF Types, own, ReadNext, Peer, Ends, Streams, Places,
       Handshaking, LeftoverFirst, past, ClientUp, ServerUpAfterClient,
       OtherN, SameN, agreed
<1> QED
    BY <1>1, <1>3, <1>4

\* The reading goroutine ends.
LEMMA ReaderReturnsKeeps ==
    ASSUME IInv, NEW e \in Ends, readerReturns(e) PROVE IInv'
<1> USE Messages DEF IInv, readerReturns
<1>1. Types'
    BY Reads DEF Types, ReadNext, Peer, Ends, Streams, Places, Handshaking
<1>2. /\ held'["server"] \in {held["server"], NoMsg}
      /\ held'["client"] \in {held["client"], NoMsg}
      /\ reader'["server"] \in {reader["server"], "gone"}
    BY DEF Types, Ends
<1>3. LeftoverFirst' /\ ClientUp' /\ ServerUpAfterClient'
    BY <1>2 DEF Types, ReadNext, Peer, Ends, Streams, Places, Handshaking,
       LeftoverFirst, past, ClientUp, ServerUpAfterClient, OtherN, SameN,
       agreed
<1>4. (OtherN \/ SameN)'
    BY <1>2 DEF Types, own, ReadNext, Peer, Ends, Streams, Places,
       Handshaking, LeftoverFirst, past, ClientUp, ServerUpAfterClient,
       OtherN, SameN, agreed
<1> QED
    BY <1>1, <1>3, <1>4

\* An end that is up sends data.
LEMMA SendDataKeeps ==
    ASSUME IInv, NEW e \in Ends, sendData(e) PROVE IInv'
<1> USE Messages DEF IInv, sendData
<1>1. Types'
    BY Sends DEF Types, ReadNext, Peer, Ends, Streams, Places, Handshaking
<1>2. /\ e = "client" =>
             /\ stream'["client"] = stream["client"]
             /\ restOwn(stream'["server"], completed)
             /\ allOwn(stream["server"], completed) => allOwn(stream'["server"], completed)
             /\ allGood(stream["server"]) => allGood(stream'["server"])
      /\ e = "server" =>
             /\ stream'["server"] = stream["server"]
             /\ answered(stream'["client"]) => answered(stream["client"])
  <2>1. CASE e = "client"
      BY <2>1, Sends, ClientWrites, Zenon DEF Types, Ends, Peer, LeftoverFirst,
         ClientUp
  <2>2. CASE e = "server"
      BY <2>2, Sends, ServerWrites DEF Types, Ends, Peer
  <2> QED
      BY <2>1, <2>2
<1>3. LeftoverFirst' /\ ClientUp' /\ ServerUpAfterClient'
    BY <1>2 DEF Types, ReadNext, Peer, Ends, Streams, Places, Handshaking,
       LeftoverFirst, past, ClientUp, ServerUpAfterClient, OtherN, SameN,
       agreed
<1>4. (OtherN \/ SameN)'
    BY <1>2 DEF Types, own, ReadNext, Peer, Ends, Streams, Places,
       Handshaking, LeftoverFirst, past, ClientUp, ServerUpAfterClient,
       OtherN, SameN, agreed
<1> QED
    BY <1>1, <1>3, <1>4

\* An end that is up receives data.
LEMMA RecvDataKeeps ==
    ASSUME IInv, NEW e \in Ends, recvData(e) PROVE IInv'
<1> USE Messages DEF IInv, recvData
<1>1. Types'
    BY Drops DEF Types, ReadNext, Peer, Ends, Streams, Places, Handshaking
<1>2. /\ e = "client" =>
             /\ stream'["server"] = stream["server"]
             /\ answered(stream'["client"]) => answered(stream["client"])
      /\ e = "server" =>
             /\ stream'["client"] = stream["client"]
             /\ restOwn(stream'["server"], completed)
             /\ allOwn(stream'["server"], completed)
             /\ allGood(stream["server"]) => allGood(stream'["server"])
  <2>1. CASE e = "client"
      BY <2>1, Drops, ClientReads DEF Types, Ends, Peer
  <2>2. CASE e = "server"
      BY <2>2, Drops, ServerReads DEF Types, Ends, Peer, LeftoverFirst
  <2> QED
      BY <2>1, <2>2
<1>3. LeftoverFirst' /\ ClientUp' /\ ServerUpAfterClient'
    BY <1>2 DEF Types, ReadNext, Peer, Ends, Streams, Places, Handshaking,
       LeftoverFirst, past, ClientUp, ServerUpAfterClient, OtherN, SameN,
       agreed
<1>4. (OtherN \/ SameN)'
    BY <1>2 DEF Types, own, ReadNext, Peer, Ends, Streams, Places,
       Handshaking, LeftoverFirst, past, ClientUp, ServerUpAfterClient,
       OtherN, SameN, agreed
<1> QED
    BY <1>1, <1>3, <1>4

\* A FIN closes an end that is up.
LEMMA RecvFINKeeps ==
    ASSUME IInv, NEW e \in Ends, recvFIN(e) PROVE IInv'
<1> USE Messages DEF IInv, recvFIN
<1>1. Types'
    BY Drops, Goes DEF Types, ReadNext, Peer, Ends, Streams, Places,
       Handshaking
<1>2. /\ e = "client" =>
             /\ stream'["server"] = stream["server"]
             /\ answered(stream'["client"]) => answered(stream["client"])
      /\ e = "server" =>
             /\ stream'["client"] = stream["client"]
             /\ restOwn(stream'["server"], completed)
             /\ allOwn(stream'["server"], completed)
             /\ allGood(stream["server"]) => allGood(stream'["server"])
  <2>1. CASE e = "client"
      BY <2>1, Drops, ClientReads DEF Types, Ends, Peer
  <2>2. CASE e = "server"
      BY <2>2, Drops, ServerReads DEF Types, Ends, Peer, LeftoverFirst
  <2> QED
      BY <2>1, <2>2
<1>3. LeftoverFirst' /\ ClientUp' /\ ServerUpAfterClient'
    BY <1>2, Goes DEF Types, ReadNext, Peer, Ends, Streams, Places,
       Handshaking, LeftoverFirst, past, ClientUp, ServerUpAfterClient,
       OtherN, SameN, agreed
<1>4. (OtherN \/ SameN)'
    BY <1>2, Goes DEF Types, own, ReadNext, Peer, Ends, Streams, Places,
       Handshaking, LeftoverFirst, past, ClientUp, ServerUpAfterClient,
       OtherN, SameN, agreed
<1> QED
    BY <1>1, <1>3, <1>4

\* A SYN tears down a connection that is up.
LEMMA RecvUnexpectedKeeps ==
    ASSUME IInv, NEW e \in Ends, recvUnexpected(e) PROVE IInv'
<1> USE Messages DEF IInv, recvUnexpected
<1>0. /\ stream' \in Streams
      /\ stream'[e] = Tail(stream[e])
      /\ stream'[Peer(e)] \in {stream[Peer(e)], Append(stream[Peer(e)], Msg("FIN"))}
    BY Reads, Writes, Zenon DEF Types, Ends, Peer, Streams
<1>1. Types'
    BY <1>0, Goes, Zenon DEF Types, Places, Streams
<1>2. /\ restOwn(stream'["server"], completed)
      /\ allOwn(stream["server"], completed) => allOwn(stream'["server"], completed)
      /\ allGood(stream["server"]) => allGood(stream'["server"])
      /\ answered(stream'["client"]) => answered(stream["client"])
  <2>1. CASE e = "client"
      BY <2>1, <1>0, ClientReads, ClientWrites DEF Types, Ends, Peer,
         LeftoverFirst
  <2>2. CASE e = "server"
      BY <2>2, <1>0, ServerReads, ServerWrites DEF Types, Ends, Peer,
         LeftoverFirst
  <2> QED
      BY <2>1, <2>2 DEF Ends
<1>3. LeftoverFirst' /\ ClientUp' /\ ServerUpAfterClient'
    BY <1>2, Goes DEF Types, ReadNext, Peer, Ends, Places, LeftoverFirst,
       past, ClientUp, ServerUpAfterClient, OtherN, SameN, agreed
<1>4. (OtherN \/ SameN)'
    BY <1>2, Goes DEF Types, Peer, Ends, Places, LeftoverFirst, past,
       ClientUp, ServerUpAfterClient, OtherN, SameN, agreed
<1> QED
    BY <1>1, <1>3, <1>4

\* The caller gives up the handshake.
LEMMA AbortKeeps ==
    ASSUME IInv, NEW e \in Ends, abort(e) PROVE IInv'
<1> USE Messages DEF IInv, abort
<1>1. Types'
    BY Goes DEF Types, ReadNext, Peer, Ends, Streams, Places, Handshaking
<1>2. stream' = stream
    OBVIOUS
<1>3. LeftoverFirst' /\ ClientUp' /\ ServerUpAfterClient'
    BY <1>2, Goes DEF Types, ReadNext, Peer, Ends, Streams, Places,
       Handshaking, LeftoverFirst, past, ClientUp, ServerUpAfterClient,
       OtherN, SameN, agreed
<1>4. (OtherN \/ SameN)'
    BY <1>2, Goes DEF Types, own, ReadNext, Peer, Ends, Streams, Places,
       Handshaking, LeftoverFirst, past, ClientUp, ServerUpAfterClient,
       OtherN, SameN, agreed
<1> QED
    BY <1>1, <1>3, <1>4

\* An end that is up is closed and sends a FIN.
LEMMA CloseUpKeeps ==
    ASSUME IInv, NEW e \in Ends, closeUp(e) PROVE IInv'
<1> USE Messages DEF IInv, closeUp
<1>1. Types'
    BY Closes, Goes DEF Types, ReadNext, Peer, Ends, Streams, Places,
       Handshaking
<1>2. /\ e = "client" =>
             /\ stream'["client"] = stream["client"]
             /\ restOwn(stream'["server"], completed)
             /\ allOwn(stream["server"], completed) => allOwn(stream'["server"], completed)
             /\ allGood(stream["server"]) => allGood(stream'["server"])
      /\ e = "server" =>
             /\ stream'["server"] = stream["server"]
             /\ answered(stream'["client"]) => answered(stream["client"])
  <2>1. CASE e = "client"
      BY <2>1, Closes, ClientWrites, Zenon DEF Types, Ends, Peer, LeftoverFirst,
         ClientUp
  <2>2. CASE e = "server"
      BY <2>2, Closes, ServerWrites DEF Types, Ends, Peer
  <2> QED
      BY <2>1, <2>2
<1>3. LeftoverFirst' /\ ClientUp' /\ ServerUpAfterClient'
    BY <1>2, Goes DEF Types, ReadNext, Peer, Ends, Streams, Places,
       Handshaking, LeftoverFirst, past, ClientUp, ServerUpAfterClient,
       OtherN, SameN, agreed
<1>4. (OtherN \/ SameN)'
    BY <1>2, Goes DEF Types, own, ReadNext, Peer, Ends, Streams, Places,
       Handshaking, LeftoverFirst, past, ClientUp, ServerUpAfterClient,
       OtherN, SameN, agreed
<1> QED
    BY <1>1, <1>3, <1>4

\* The stream loses a message.
LEMMA LoseKeeps ==
    ASSUME IInv, NEW e \in Ends, lose(e) PROVE IInv'
<1> USE Messages DEF IInv, lose
<1>1. Types'
    BY Drops DEF Types, ReadNext, Peer, Ends, Streams, Places, Handshaking
<1>2. /\ e = "client" =>
             /\ stream'["server"] = stream["server"]
             /\ answered(stream'["client"]) => answered(stream["client"])
      /\ e = "server" =>
             /\ stream'["client"] = stream["client"]
             /\ restOwn(stream'["server"], completed)
             /\ allOwn(stream'["server"], completed)
             /\ allGood(stream["server"]) => allGood(stream'["server"])
  <2>1. CASE e = "client"
      BY <2>1, Drops, ClientReads DEF Types, Ends, Peer
  <2>2. CASE e = "server"
      BY <2>2, Drops, ServerReads DEF Types, Ends, Peer, LeftoverFirst
  <2> QED
      BY <2>1, <2>2
<1>3. LeftoverFirst' /\ ClientUp' /\ ServerUpAfterClient'
    BY <1>2 DEF Types, ReadNext, Peer, Ends, Streams, Places, Handshaking,
       LeftoverFirst, past, ClientUp, ServerUpAfterClient, OtherN, SameN,
       agreed
<1>4. (OtherN \/ SameN)'
    BY <1>2 DEF Types, own, ReadNext, Peer, Ends, Streams, Places,
       Handshaking, LeftoverFirst, past, ClientUp, ServerUpAfterClient,
       OtherN, SameN, agreed
<1> QED
    BY <1>1, <1>3, <1>4

\* Nothing changes.
LEMMA StutterKeeps == ASSUME IInv, UNCHANGED vars PROVE IInv'
BY DEF vars, IInv, Types, LeftoverFirst, past, ClientUp,
   ServerUpAfterClient, OtherN, SameN, agreed

\* clientHandshake.
LEMMA ClientKeeps == ASSUME IInv, Client PROVE IInv'
BY ClientSendSYNKeeps, ClientTimeoutKeeps, ClientRecvSYNKeeps,
   ClientRecvOtherKeeps, ClientSendSYNACKKeeps, ClientRefuseNKeeps DEF Client

\* serverHandshake.
LEMMA ServerKeeps == ASSUME IInv, Server PROVE IInv'
BY ServerRecvSYNKeeps, ServerSendSYNKeeps, ServerTimeoutKeeps,
   ServerRecvSYNACKKeeps, ServerRecvOtherKeeps, ServerCompletesKeeps,
   ServerSkipsKeeps DEF Server

\* The reading goroutines, the data phase, Close and the transport.
LEMMA EitherKeeps ==
    ASSUME IInv, NEW e \in Ends,
           \/ Reader(e) \/ sendData(e) \/ recvUp(e)
           \/ abort(e) \/ closeUp(e) \/ lose(e)
    PROVE  IInv'
BY ReaderStartsKeeps, ReaderRecvsKeeps, ReaderReturnsKeeps, SendDataKeeps,
   RecvDataKeeps, RecvFINKeeps, RecvUnexpectedKeeps, AbortKeeps, CloseUpKeeps,
   LoseKeeps DEF Reader, recvUp

-----------------------------------------------------------------------------
(***************************************************************************)
(* The theorems.                                                           *)
(***************************************************************************)

\* A new connection may find the last message of an earlier one, whose n was k.
LEMMA Starts == Init => IInv
<1> SUFFICES ASSUME Init PROVE IInv
    OBVIOUS
<1> USE Messages DEF Init
<1>1. PICK k \in OldNs \cup {ClientN} :
          /\ stream["client"] \in LeftByServer(k) \cup {<<>>}
          /\ stream["server"] \in LeftByServer(k) \cup LeftByClient(k) \cup {<<>>}
          /\ DOMAIN stream = Ends /\ stream = [e \in Ends |-> stream[e]]
    BY Zenon DEF Ends
<1>2. \A s \in LeftByServer(k) \cup LeftByClient(k) \cup {<<>>} :
          /\ s \in Seq(Message) /\ restOwn(s, FALSE)
          /\ k = ClientN => allGood(s)
  <2>1. ASSUME NEW m \in Message
        PROVE  /\ <<m>> \in Seq(Message) /\ restOwn(<<m>>, FALSE)
               /\ good(m) => allGood(<<m>>)
    <3>1. <<m>> \in Seq(Message) /\ DOMAIN <<m>> = {1} /\ <<m>>[1] = m
        OBVIOUS
    <3>2. \A i \in DOMAIN <<m>> : i = 1 /\ ~(i > 1) /\ <<m>>[i] = m
        BY <3>1
    <3> QED
        BY <3>1, <3>2, Zenon DEF restOwn, allGood
  <2>2. <<>> \in Seq(Message) /\ restOwn(<<>>, FALSE) /\ allGood(<<>>)
      BY DEF restOwn, allGood
  <2>3. SYN(k) \in Message /\ (k = ClientN => good(SYN(k)))
      BY DEF Ns
  <2> QED
      BY <2>1, <2>2, <2>3, Zenon DEF LeftByServer, LeftByClient
<1>3. k # ClientN => ~answered(stream["client"])
    BY <1>1 DEF LeftByServer, answered, SYN, Msg
<1>4. Types
    BY <1>1, <1>2, Zenon DEF Types, Ends, Ns, Places, Handshaking
<1>5. LeftoverFirst /\ ClientUp /\ ServerUpAfterClient
    BY <1>1, <1>2, Zenon DEF LeftoverFirst, past, Ends, ClientUp, ServerUpAfterClient
<1>6. OtherN \/ SameN
    BY <1>1, <1>2, <1>3, HandshakeAssumption, Zenon
    DEF OtherN, SameN, agreed, past, Ends
<1> QED
    BY <1>4, <1>5, <1>6 DEF IInv

\* Every handler of either end keeps the invariant.
LEMMA Steps == IInv /\ [Next]_vars => IInv'
BY ClientKeeps, ServerKeeps, EitherKeeps, StutterKeeps DEF Next

\* serverHandshake: the server completes its handshake only after the client
\* has, whatever is lost or times out, and whatever message of an earlier
\* connection comes first in either stream.
THEOREM ServerAfterClient == Spec => []ServerUpAfterClient
<1>1. IInv => ServerUpAfterClient
    BY DEF IInv
<1> QED
    BY <1>1, Starts, Steps, PTL DEF Spec

\* serverHandshake, setN: when both ends are up, the server uses the n of the
\* client, although it takes n from whichever SYN it has read last.
THEOREM AgreeOnN == Spec => []NAgreement
<1>1. IInv => NAgreement
    BY DEF IInv, NAgreement, ClientUp, OtherN, SameN, agreed
<1> QED
    BY <1>1, Starts, Steps, PTL DEF Spec

-----------------------------------------------------------------------------
(***************************************************************************)
(* Which messages of the handshake an established connection can meet. The *)
(* server meets none: the client sends its SYNACK and its data after every *)
(* SYN, the stream keeps the order, and a server that is up has read a     *)
(* SYNACK or data of this client. The client meets a SYN only if there was *)
(* more than one: the one SYN it sent is in one place at a time, on its way*)
(* to the server, in its hands, on its way back or taken.                  *)
(***************************************************************************)
noneFree(s) == \A i \in DOMAIN s : s[i].type # "none"

\* No SYN or SYNACK after a SYNACK or data, the first message aside unless first.
inOrder(s, first) ==
    \A i, j \in DOMAIN s :
        (first \/ i > 1) /\ i < j /\ s[i].type \in {"SYNACK", "DATA"}
        => s[j].type \notin {"SYN", "SYNACK"}

over(s) == \A i \in DOMAIN s : s[i].type \notin {"SYN", "SYNACK"}
noSYN(s) == \A i \in DOMAIN s : s[i].type # "SYN"
oneSYN(s) == \A i, j \in DOMAIN s : s[i].type = "SYN" /\ s[j].type = "SYN" => i = j
noSYNACK(s) == \A i \in DOMAIN s : s[i].type # "SYNACK"

Typed ==
    /\ TypeOK
    /\ noneFree(stream["client"]) /\ noneFree(stream["server"])

\* A leftover aside, the server's stream is in order.
Ordered ==
    /\ inOrder(stream["server"], FALSE)
    /\ past \/ reader["server"] = "offer" => inOrder(stream["server"], TRUE)
    /\ past /\ held["server"].type \in {"SYNACK", "DATA"} => over(stream["server"])
    /\ pc["server"] = "up" => over(stream["server"])
    /\ completed => pc["client"] \notin Handshaking
    /\ pc["server"] # "torn"

\* The one SYN has not been sent (0), has reached a place (1 to 5), or has been
\* taken by the client (6); it may also be lost.
SYNAt(at) ==
    /\ pc["client"] = "sendSYN" => at = 0
    /\ noSYN(stream["server"]) \/ at = 1
    /\ held["server"].type = "SYN" => at = 2
    /\ pc["server"] = "reply" => at = 3
    /\ noSYN(stream["client"]) \/ at = 4
    /\ held["client"].type = "SYN" => at = 5
    /\ pc["client"] \in {"gotSYN", "up"} => at = 6

OneSYN ==
    /\ noSYNACK(stream["client"])
    /\ pc["client"] = "torn" => extraSYN
    /\ ~extraSYN => /\ oneSYN(stream["client"]) /\ oneSYN(stream["server"])
                    /\ \E at \in 0 .. 6 : SYNAt(at)

OrderInv == Typed /\ Ordered /\ OneSYN

\* Reading from a stream keeps its order.
LEMMA ReadsInOrder ==
    ASSUME NEW s \in Seq(Message), s # <<>>
    PROVE  /\ Len(Tail(s)) <= Len(s)
           /\ noneFree(s) => noneFree(Tail(s)) /\ Head(s).type # "none"
           /\ inOrder(s, FALSE) => inOrder(Tail(s), FALSE) /\ inOrder(Tail(s), TRUE)
           /\ inOrder(s, TRUE) /\ Head(s).type \in {"SYNACK", "DATA"} => over(Tail(s))
           /\ over(s) => over(Tail(s)) /\ Head(s).type \notin {"SYN", "SYNACK"}
           /\ noSYN(s) => noSYN(Tail(s)) /\ Head(s).type # "SYN"
           /\ oneSYN(s) => oneSYN(Tail(s)) /\ (Head(s).type = "SYN" => noSYN(Tail(s)))
           /\ noSYNACK(s) => noSYNACK(Tail(s)) /\ Head(s).type # "SYNACK"
<1>1. /\ Tail(s) \in Seq(Message) /\ Head(s) \in Message /\ Len(Tail(s)) <= Len(s)
      /\ 1 \in DOMAIN s /\ Head(s) = s[1]
      /\ \A i \in DOMAIN Tail(s) :
             /\ i \in Nat /\ i >= 1
             /\ i + 1 \in DOMAIN s /\ i + 1 > 1 /\ Tail(s)[i] = s[i + 1]
    OBVIOUS
<1>2. noneFree(s) => noneFree(Tail(s)) /\ Head(s).type # "none"
    BY <1>1 DEF noneFree
<1>3. inOrder(s, FALSE) => inOrder(Tail(s), FALSE) /\ inOrder(Tail(s), TRUE)
  <2> SUFFICES ASSUME inOrder(s, FALSE), NEW i \in DOMAIN Tail(s), NEW j \in DOMAIN Tail(s),
                      i < j, Tail(s)[i].type \in {"SYNACK", "DATA"}
               PROVE  Tail(s)[j].type \notin {"SYN", "SYNACK"}
      BY DEF inOrder
  <2>1. i + 1 \in DOMAIN s /\ j + 1 \in DOMAIN s /\ i + 1 < j + 1 /\ i + 1 > 1
      BY <1>1
  <2>2. s[i + 1].type \in {"SYNACK", "DATA"} /\ Tail(s)[j] = s[j + 1]
      BY <1>1
  <2> QED
      BY <2>1, <2>2 DEF inOrder
<1>4. inOrder(s, TRUE) /\ Head(s).type \in {"SYNACK", "DATA"} => over(Tail(s))
    BY <1>1 DEF inOrder, over
<1>5. over(s) => over(Tail(s)) /\ Head(s).type \notin {"SYN", "SYNACK"}
    BY <1>1 DEF over
<1>6. noSYN(s) => noSYN(Tail(s)) /\ Head(s).type # "SYN"
    BY <1>1 DEF noSYN
<1>7. oneSYN(s) => oneSYN(Tail(s)) /\ (Head(s).type = "SYN" => noSYN(Tail(s)))
  <2>1. \A i, j \in DOMAIN Tail(s) : i + 1 = j + 1 => i = j
      BY <1>1
  <2>2. \A i \in DOMAIN Tail(s) : i + 1 # 1
      BY <1>1
  <2>3. oneSYN(s) => oneSYN(Tail(s))
      BY <1>1, <2>1 DEF oneSYN
  <2>4. oneSYN(s) /\ Head(s).type = "SYN" => noSYN(Tail(s))
      BY <1>1, <2>2 DEF oneSYN, noSYN
  <2> QED
      BY <2>3, <2>4
<1>8. noSYNACK(s) => noSYNACK(Tail(s)) /\ Head(s).type # "SYNACK"
    BY <1>1 DEF noSYNACK
<1> QED
    BY <1>1, <1>2, <1>3, <1>4, <1>5, <1>6, <1>7, <1>8, Zenon

\* Writing to a stream keeps its order, if nothing that must be last is in it.
LEMMA WritesInOrder ==
    ASSUME NEW s \in Seq(Message), NEW m \in Message
    PROVE  /\ Len(Append(s, m)) = Len(s) + 1
           /\ noneFree(s) /\ m.type # "none" => noneFree(Append(s, m))
           /\ \A f \in BOOLEAN :
                  inOrder(s, f) /\ m.type \notin {"SYN", "SYNACK"} =>
                      inOrder(Append(s, m), f)
           /\ inOrder(s, FALSE) /\ restOwn(s, FALSE) => inOrder(Append(s, m), FALSE)
           /\ inOrder(s, TRUE) /\ allOwn(s, FALSE) => inOrder(Append(s, m), TRUE)
           /\ over(s) /\ m.type \notin {"SYN", "SYNACK"} => over(Append(s, m))
           /\ noSYN(s) => oneSYN(s) /\ oneSYN(Append(s, m))
           /\ oneSYN(s) /\ m.type # "SYN" => oneSYN(Append(s, m))
           /\ noSYN(s) /\ m.type # "SYN" => noSYN(Append(s, m))
           /\ noSYNACK(s) /\ m.type # "SYNACK" => noSYNACK(Append(s, m))
<1> DEFINE t == Append(s, m)
<1>1. /\ Len(t) = Len(s) + 1 /\ Len(s) \in Nat
      /\ DOMAIN s = 1 .. Len(s) /\ DOMAIN t = 1 .. Len(s) + 1
      /\ \A i \in DOMAIN s : i \in DOMAIN t /\ t[i] = s[i]
      /\ t[Len(s) + 1] = m
    OBVIOUS
<1>2. \A i \in DOMAIN t : i \in DOMAIN s \/ i = Len(s) + 1
    BY <1>1
<1>3. \A i, j \in DOMAIN t : i < j => i \in DOMAIN s
    BY <1>1
<1> HIDE DEF t
<1>4. noneFree(s) /\ m.type # "none" => noneFree(t)
    BY <1>1, <1>2 DEF noneFree
<1>5. ASSUME NEW f \in BOOLEAN, inOrder(s, f), m.type \notin {"SYN", "SYNACK"}
      PROVE  inOrder(t, f)
    BY <1>1, <1>2, <1>3, <1>5 DEF inOrder
<1>6. ASSUME inOrder(s, FALSE), restOwn(s, FALSE) PROVE inOrder(t, FALSE)
    BY <1>1, <1>2, <1>3, <1>6 DEF inOrder, restOwn, own
<1>7. ASSUME inOrder(s, TRUE), allOwn(s, FALSE) PROVE inOrder(t, TRUE)
    BY <1>1, <1>2, <1>3, <1>7 DEF inOrder, allOwn, own
<1>8. over(s) /\ m.type \notin {"SYN", "SYNACK"} => over(t)
    BY <1>1, <1>2 DEF over
<1>9. noSYN(s) => oneSYN(s) /\ oneSYN(t)
    BY <1>1, <1>2 DEF noSYN, oneSYN
<1>10. oneSYN(s) /\ m.type # "SYN" => oneSYN(t)
    BY <1>1, <1>2 DEF oneSYN
<1>11. /\ noSYN(s) /\ m.type # "SYN" => noSYN(t)
       /\ noSYNACK(s) /\ m.type # "SYNACK" => noSYNACK(t)
    BY <1>1, <1>2 DEF noSYN, noSYNACK
<1> QED
    BY <1>1, <1>4, <1>5, <1>6, <1>7, <1>8, <1>9, <1>10, <1>11, Zenon DEF t

\* The messages of the handshake by their types.
LEMMA MessageTypes ==
    /\ \A k : SYN(k).type = "SYN"
    /\ \A t \in {"SYNACK", "DATA", "FIN", "none"} : Msg(t).type = t
    /\ NoMsg.type = "none"
BY DEF SYN, Msg, NoMsg

\* What is left of the server's stream after its first message.
LEMMA ServerReadsInOrder ==
    ASSUME Types, Typed, Ordered, stream["server"] # <<>>,
           stream'["server"] = Tail(stream["server"])
    PROVE  /\ Len(stream'["server"]) <= Cap /\ noneFree(stream'["server"])
           /\ Head(stream["server"]).type # "none"
           /\ inOrder(stream'["server"], FALSE) /\ inOrder(stream'["server"], TRUE)
           /\ inOrder(stream["server"], TRUE)
                 /\ Head(stream["server"]).type \in {"SYNACK", "DATA"}
              => over(stream'["server"])
           /\ over(stream["server"]) =>
                  /\ over(stream'["server"])
                  /\ Head(stream["server"]).type \notin {"SYN", "SYNACK"}
           /\ noSYN(stream["server"]) =>
                  noSYN(stream'["server"]) /\ Head(stream["server"]).type # "SYN"
           /\ oneSYN(stream["server"]) =>
                  /\ oneSYN(stream'["server"])
                  /\ Head(stream["server"]).type = "SYN" => noSYN(stream'["server"])
<1> DEFINE s == stream["server"]
<1>1. s \in Seq(Message) /\ Len(s) <= Cap /\ noneFree(s) /\ inOrder(s, FALSE)
    BY Zenon DEF Types, Typed, TypeOK, Ordered, Ends
<1>2. Len(s) \in Nat /\ Len(Tail(s)) \in Nat /\ Cap \in Nat
    BY <1>1, Reads, HandshakeAssumption
<1>3. s # <<>> /\ s = stream["server"] /\ stream'["server"] = Tail(s)
    OBVIOUS
<1> HIDE DEF s
<1>4. Len(Tail(s)) <= Len(s)
    BY <1>1, <1>3, ReadsInOrder
<1>5. Len(Tail(s)) <= Cap
    BY <1>1, <1>2, <1>4
<1> QED
    BY <1>1, <1>3, <1>5, ReadsInOrder, Zenon

\* What is left of the client's stream after its first message.
LEMMA ClientReadsInOrder ==
    ASSUME Types, Typed, OneSYN, stream["client"] # <<>>,
           stream'["client"] = Tail(stream["client"])
    PROVE  /\ Len(stream'["client"]) <= Cap /\ noneFree(stream'["client"])
           /\ Head(stream["client"]).type \notin {"none", "SYNACK"}
           /\ noSYNACK(stream'["client"])
           /\ noSYN(stream["client"]) =>
                  noSYN(stream'["client"]) /\ Head(stream["client"]).type # "SYN"
           /\ oneSYN(stream["client"]) =>
                  /\ oneSYN(stream'["client"])
                  /\ Head(stream["client"]).type = "SYN" => noSYN(stream'["client"])
<1> DEFINE s == stream["client"]
<1>1. s \in Seq(Message) /\ Len(s) <= Cap /\ noneFree(s) /\ noSYNACK(s)
    BY DEF Types, Typed, TypeOK, OneSYN, Ends
<1>2. Len(s) \in Nat /\ Len(Tail(s)) \in Nat /\ Cap \in Nat
    BY <1>1, Reads, HandshakeAssumption
<1>3. s # <<>> /\ s = stream["client"] /\ stream'["client"] = Tail(s)
    OBVIOUS
<1> HIDE DEF s
<1>4. Len(Tail(s)) <= Len(s)
    BY <1>1, <1>3, ReadsInOrder
<1>5. Len(Tail(s)) <= Cap
    BY <1>1, <1>2, <1>4
<1> QED
    BY <1>1, <1>3, <1>5, ReadsInOrder, Zenon

\* The server's stream after the client has written m.
LEMMA ServerWrittenInOrder ==
    ASSUME Types, Typed, Ordered, NEW m \in Message, m.type # "none",
           Len(stream["server"]) < Cap,
           stream'["server"] = Append(stream["server"], m)
    PROVE  /\ Len(stream'["server"]) <= Cap /\ noneFree(stream'["server"])
           /\ m.type \notin {"SYN", "SYNACK"} \/ restOwn(stream["server"], FALSE)
              => inOrder(stream'["server"], FALSE)
           /\ inOrder(stream["server"], TRUE)
                 /\ (m.type \notin {"SYN", "SYNACK"} \/ allOwn(stream["server"], FALSE))
              => inOrder(stream'["server"], TRUE)
           /\ m.type \notin {"SYN", "SYNACK"} /\ over(stream["server"]) =>
                  over(stream'["server"])
           /\ noSYN(stream["server"]) \/ (oneSYN(stream["server"]) /\ m.type # "SYN")
              => oneSYN(stream'["server"])
           /\ noSYN(stream["server"]) /\ m.type # "SYN" => noSYN(stream'["server"])
<1> DEFINE s == stream["server"]
<1>1. s \in Seq(Message) /\ Len(s) < Cap /\ noneFree(s) /\ inOrder(s, FALSE)
    BY Zenon DEF Types, Typed, TypeOK, Ordered, Ends
<1>2. Len(s) \in Nat /\ Cap \in Nat
    BY <1>1, HandshakeAssumption
<1>3. s = stream["server"] /\ stream'["server"] = Append(s, m)
    OBVIOUS
<1> HIDE DEF s
<1>4. Len(Append(s, m)) = Len(s) + 1
    BY <1>1, WritesInOrder
<1>5. Len(Append(s, m)) <= Cap
    BY <1>1, <1>2, <1>4
<1> QED
    BY <1>1, <1>3, <1>5, WritesInOrder, Zenon

\* The client's stream after the server has written m.
LEMMA ClientWrittenInOrder ==
    ASSUME Types, Typed, OneSYN, NEW m \in Message, m.type \notin {"none", "SYNACK"},
           Len(stream["client"]) < Cap,
           stream'["client"] = Append(stream["client"], m)
    PROVE  /\ Len(stream'["client"]) <= Cap /\ noneFree(stream'["client"])
           /\ noSYNACK(stream'["client"])
           /\ noSYN(stream["client"]) \/ (oneSYN(stream["client"]) /\ m.type # "SYN")
              => oneSYN(stream'["client"])
           /\ noSYN(stream["client"]) /\ m.type # "SYN" => noSYN(stream'["client"])
<1> DEFINE s == stream["client"]
<1>1. s \in Seq(Message) /\ Len(s) < Cap /\ noneFree(s) /\ noSYNACK(s)
    BY DEF Types, Typed, TypeOK, OneSYN, Ends
<1>2. Len(s) \in Nat /\ Cap \in Nat
    BY <1>1, HandshakeAssumption
<1>3. s = stream["client"] /\ stream'["client"] = Append(s, m)
    OBVIOUS
<1> HIDE DEF s
<1>4. Len(Append(s, m)) = Len(s) + 1
    BY <1>1, WritesInOrder
<1>5. Len(Append(s, m)) <= Cap
    BY <1>1, <1>2, <1>4
<1> QED
    BY <1>1, <1>3, <1>5, WritesInOrder, Zenon

\* The client writes its SYN: no SYNACK or data of its own is before it.
LEMMA ClientSendSYNOrder ==
    ASSUME IInv, OrderInv, clientSendSYN PROVE OrderInv'
<1> USE Messages, MessageTypes DEF IInv, OrderInv
<1>1. /\ pc["client"] = "sendSYN" /\ pc'["client"] = "waitSYN"
      /\ pc'["server"] = pc["server"] /\ DOMAIN pc' = Ends
      /\ stream'["client"] = stream["client"] /\ Len(stream["server"]) < Cap
      /\ stream'["server"] = Append(stream["server"], SYN(ClientN))
    BY Sends, Goes DEF clientSendSYN, Send, Types, Ends, Peer, Places, Handshaking,
       ReadNext
<1>2. /\ Len(stream'["server"]) <= Cap /\ noneFree(stream'["server"])
      /\ restOwn(stream["server"], FALSE) => inOrder(stream'["server"], FALSE)
      /\ inOrder(stream["server"], TRUE) /\ allOwn(stream["server"], FALSE)
         => inOrder(stream'["server"], TRUE)
      /\ noSYN(stream["server"]) => oneSYN(stream'["server"])
    BY <1>1, ServerWrittenInOrder, Zenon
<1>3. /\ completed = FALSE /\ restOwn(stream["server"], FALSE)
      /\ past \/ reader["server"] = "offer" => allOwn(stream["server"], FALSE)
      /\ past => own(held["server"], FALSE)
  <2>1. ~completed /\ completed \in BOOLEAN
      BY <1>1 DEF Ordered, Handshaking, Types
  <2>2. completed = FALSE
      BY <2>1, Zenon
  <2> QED
      BY <2>2, Zenon DEF LeftoverFirst
<1>4. Typed'
    BY <1>1, <1>2, <1>3 DEF clientSendSYN, Typed, TypeOK, ReadNext, Ends
<1>5. Ordered'
    BY <1>1, <1>2, <1>3, Zenon
       DEF clientSendSYN, Ordered, past, Handshaking, LeftoverFirst,
       own, ServerUpAfterClient
<1>6. OneSYN'
    BY <1>1, <1>2, <1>3 DEF clientSendSYN, OneSYN, SYNAt
<1> QED
    BY <1>4, <1>5, <1>6

\* The client gives up waiting: there will be a second SYN.
LEMMA ClientTimeoutOrder ==
    ASSUME IInv, OrderInv, clientTimeout PROVE OrderInv'
<1> USE Messages, MessageTypes DEF IInv, OrderInv
<1>1. /\ pc["client"] = "waitSYN" /\ pc'["client"] = "sendSYN"
      /\ pc'["server"] = pc["server"] /\ DOMAIN pc' = Ends
    BY Goes DEF clientTimeout, Types, Ends, Peer, Places, Handshaking, ReadNext
<1>2. Typed'
    BY <1>1 DEF clientTimeout, Typed, TypeOK, ReadNext, Ends
<1>3. Ordered'
    BY <1>1, Zenon DEF clientTimeout, Ordered, past, Handshaking, LeftoverFirst, own,
       ServerUpAfterClient
<1>4. OneSYN'
    BY <1>1, Zenon DEF clientTimeout, OneSYN, SYNAt
<1> QED
    BY <1>2, <1>3, <1>4

\* The client takes the answer.
LEMMA ClientRecvSYNOrder ==
    ASSUME IInv, OrderInv, clientRecvSYN PROVE OrderInv'
<1> USE Messages, MessageTypes DEF IInv, OrderInv
<1>1. /\ pc["client"] = "waitSYN" /\ pc'["client"] = "gotSYN"
      /\ pc'["server"] = pc["server"] /\ DOMAIN pc' = Ends
      /\ held["client"].type = "SYN" /\ held'["client"] = NoMsg
      /\ reader'["client"] = "select"
      /\ reader' \in [Ends -> {"select", "recv", "offer", "gone"}]
      /\ held'["server"] = held["server"] /\ reader'["server"] = reader["server"]
    BY Takes, Goes DEF clientRecvSYN, Types, Ends, Peer, Places, Handshaking, ReadNext
<1>2. Typed'
    BY <1>1 DEF clientRecvSYN, Typed, TypeOK, ReadNext, Ends
<1>3. Ordered'
    BY <1>1, Zenon DEF clientRecvSYN, Ordered, past, Handshaking, LeftoverFirst, own,
       ServerUpAfterClient
<1>4. OneSYN'
    BY <1>1 DEF clientRecvSYN, OneSYN, SYNAt
<1> QED
    BY <1>2, <1>3, <1>4

\* The client skips what is no SYN.
LEMMA ClientRecvOtherOrder ==
    ASSUME IInv, OrderInv, clientRecvOther PROVE OrderInv'
<1> USE Messages, MessageTypes DEF IInv, OrderInv
<1>1. /\ held'["client"] = NoMsg /\ reader'["client"] = "select"
      /\ reader' \in [Ends -> {"select", "recv", "offer", "gone"}]
      /\ held'["server"] = held["server"] /\ reader'["server"] = reader["server"]
    BY Takes DEF clientRecvOther, Types, Ends, Peer, Places, Handshaking, ReadNext
<1>2. Typed'
    BY <1>1 DEF clientRecvOther, Typed, TypeOK, ReadNext, Ends
<1>3. Ordered'
    BY <1>1, Zenon DEF clientRecvOther, Ordered, past, Handshaking, LeftoverFirst, own,
       ServerUpAfterClient
<1>4. OneSYN'
    BY <1>1 DEF clientRecvOther, OneSYN, SYNAt
<1> QED
    BY <1>2, <1>3, <1>4

\* The client completes, behind its SYNs.
LEMMA ClientSendSYNACKOrder ==
    ASSUME IInv, OrderInv, clientSendSYNACK PROVE OrderInv'
<1> USE Messages, MessageTypes DEF IInv, OrderInv
<1>1. /\ pc["client"] = "gotSYN" /\ pc'["client"] = "up"
      /\ pc'["server"] = pc["server"] /\ DOMAIN pc' = Ends
      /\ stream'["client"] = stream["client"] /\ Len(stream["server"]) < Cap
      /\ stream'["server"] = Append(stream["server"], Msg("SYNACK"))
    BY Sends, Goes DEF clientSendSYNACK, Send, Types, Ends, Peer, Places, Handshaking,
       ReadNext
<1>2. /\ Len(stream'["server"]) <= Cap /\ noneFree(stream'["server"])
      /\ restOwn(stream["server"], FALSE) => inOrder(stream'["server"], FALSE)
      /\ inOrder(stream["server"], TRUE) /\ allOwn(stream["server"], FALSE)
         => inOrder(stream'["server"], TRUE)
      /\ noSYN(stream["server"]) => oneSYN(stream'["server"])
      /\ oneSYN(stream["server"]) => oneSYN(stream'["server"])
      /\ noSYN(stream["server"]) => noSYN(stream'["server"])
    BY <1>1, ServerWrittenInOrder, Zenon
<1>3. /\ completed = FALSE /\ restOwn(stream["server"], FALSE)
      /\ past \/ reader["server"] = "offer" => allOwn(stream["server"], FALSE)
      /\ past => own(held["server"], FALSE)
  <2>1. ~completed /\ completed \in BOOLEAN
      BY <1>1 DEF Ordered, Handshaking, Types
  <2>2. completed = FALSE
      BY <2>1, Zenon
  <2> QED
      BY <2>2, Zenon DEF LeftoverFirst
<1>4. Typed'
    BY <1>1, <1>2, <1>3 DEF clientSendSYNACK, Typed, TypeOK, ReadNext, Ends
<1>5. Ordered'
    BY <1>1, <1>2, <1>3, Zenon
       DEF clientSendSYNACK, Ordered, past, Handshaking, LeftoverFirst,
       own, ServerUpAfterClient
<1>6. OneSYN'
    BY <1>1, <1>2, <1>3 DEF clientSendSYNACK, OneSYN, SYNAt
<1> QED
    BY <1>4, <1>5, <1>6

\* The client refuses an answer with another n.
LEMMA ClientRefuseNOrder ==
    ASSUME IInv, OrderInv, clientRefuseN PROVE OrderInv'
<1> USE Messages, MessageTypes DEF IInv, OrderInv
<1>1. CASE Send("client", Msg("FIN"))
  <2>1. /\ pc["client"] = "gotSYN" /\ pc'["client"] = "failed"
        /\ pc'["server"] = pc["server"] /\ DOMAIN pc' = Ends
        /\ stream'["client"] = stream["client"] /\ Len(stream["server"]) < Cap
        /\ stream'["server"] = Append(stream["server"], Msg("FIN"))
      BY <1>1, Sends, Goes DEF clientRefuseN, Send, Types, Ends, Peer, Places,
         Handshaking, ReadNext
  <2>2. /\ Len(stream'["server"]) <= Cap /\ noneFree(stream'["server"])
        /\ inOrder(stream'["server"], FALSE)
        /\ inOrder(stream["server"], TRUE) => inOrder(stream'["server"], TRUE)
        /\ over(stream["server"]) => over(stream'["server"])
        /\ oneSYN(stream["server"]) => oneSYN(stream'["server"])
        /\ noSYN(stream["server"]) => noSYN(stream'["server"])
      BY <1>1, <2>1, ServerWrittenInOrder, Zenon
  <2>3. Typed'
      BY <1>1, <2>1, <2>2, Zenon DEF clientRefuseN, Send, Typed, TypeOK, ReadNext, Ends
  <2>4. Ordered'
      BY <1>1, <2>1, <2>2, Zenon DEF clientRefuseN, Send, Ordered, past, Handshaking,
         LeftoverFirst, own, ServerUpAfterClient
  <2>5. OneSYN'
      BY <1>1, <2>1, <2>2, Zenon DEF clientRefuseN, Send, OneSYN, SYNAt
  <2> QED
      BY <2>3, <2>4, <2>5
<1>2. CASE UNCHANGED stream
  <2>1. /\ pc["client"] = "gotSYN" /\ pc'["client"] = "failed"
        /\ pc'["server"] = pc["server"] /\ DOMAIN pc' = Ends
      BY <1>2, Goes DEF clientRefuseN, Types, Ends, Peer, Places, Handshaking, ReadNext
  <2>2. Typed'
      BY <1>2, <2>1 DEF clientRefuseN, Typed, TypeOK, ReadNext, Ends
  <2>3. Ordered'
      BY <1>2, <2>1, Zenon
         DEF clientRefuseN, Ordered, past, Handshaking, LeftoverFirst, own,
         ServerUpAfterClient
  <2>4. OneSYN'
      BY <1>2, <2>1 DEF clientRefuseN, OneSYN, SYNAt
  <2> QED
      BY <2>2, <2>3, <2>4
<1> QED
    BY <1>1, <1>2 DEF clientRefuseN, Close

\* The server takes a SYN: what it reads from now on is in order.
LEMMA ServerRecvSYNOrder ==
    ASSUME IInv, OrderInv, serverRecvSYN PROVE OrderInv'
<1> USE Messages, MessageTypes DEF IInv, OrderInv
<1>1. /\ pc["server"] \in {"waitSYN", "waitSYNACK"} /\ pc'["server"] = "reply"
      /\ pc'["client"] = pc["client"] /\ DOMAIN pc' = Ends
      /\ held["server"].type = "SYN" /\ resent' \in BOOLEAN
      /\ reader["server"] = "offer" /\ reader'["server"] = "select"
      /\ reader' \in [Ends -> {"select", "recv", "offer", "gone"}]
      /\ held'["server"] = NoMsg
      /\ held'["client"] = held["client"] /\ reader'["client"] = reader["client"]
    BY Takes, Goes DEF serverRecvSYN, Types, Ends, Peer, Places, Handshaking, ReadNext
<1>2. Typed'
    BY <1>1 DEF serverRecvSYN, Typed, TypeOK, ReadNext, Ends
<1>3. Ordered'
    BY <1>1, Zenon DEF serverRecvSYN, Ordered, past, Handshaking, LeftoverFirst, own,
       ServerUpAfterClient
<1>4. OneSYN'
    BY <1>1 DEF serverRecvSYN, OneSYN, SYNAt
<1> QED
    BY <1>2, <1>3, <1>4

\* The server answers with the one SYN.
LEMMA ServerSendSYNOrder ==
    ASSUME IInv, OrderInv, serverSendSYN PROVE OrderInv'
<1> USE Messages, MessageTypes DEF IInv, OrderInv
<1>1. /\ pc["server"] = "reply" /\ pc'["server"] = "waitSYNACK"
      /\ pc'["client"] = pc["client"] /\ DOMAIN pc' = Ends
      /\ stream'["server"] = stream["server"] /\ Len(stream["client"]) < Cap
      /\ SYN(n["server"]) \in Message
      /\ stream'["client"] = Append(stream["client"], SYN(n["server"]))
    BY Sends, Goes DEF serverSendSYN, Send, Types, Ends, Peer, Places, Handshaking,
       ReadNext
<1>2. /\ Len(stream'["client"]) <= Cap /\ noneFree(stream'["client"])
      /\ noSYNACK(stream'["client"])
      /\ noSYN(stream["client"]) => oneSYN(stream'["client"])
    BY <1>1, ClientWrittenInOrder, Zenon
<1>3. Typed'
    BY <1>1, <1>2, Zenon DEF serverSendSYN, Typed, TypeOK, ReadNext, Ends
<1>4. Ordered'
    BY <1>1, <1>2, Zenon
       DEF serverSendSYN, Ordered, past, Handshaking, LeftoverFirst, own,
       ServerUpAfterClient
<1>5. OneSYN'
  <2>1. OneSYN
      OBVIOUS
  <2> HIDE Messages, MessageTypes DEF IInv, OrderInv
  <2> QED
      BY <1>1, <1>2, <2>1 DEF serverSendSYN, OneSYN, SYNAt
<1> QED
    BY <1>3, <1>4, <1>5

\* The server restarts its handshake.
LEMMA ServerTimeoutOrder ==
    ASSUME IInv, OrderInv, serverTimeout PROVE OrderInv'
<1> USE Messages, MessageTypes DEF IInv, OrderInv
<1>1. /\ pc["server"] = "waitSYNACK" /\ pc'["server"] = "waitSYN"
      /\ pc'["client"] = pc["client"] /\ DOMAIN pc' = Ends
    BY Goes DEF serverTimeout, Types, Ends, Peer, Places, Handshaking, ReadNext
<1>2. Typed'
    BY <1>1 DEF serverTimeout, Typed, TypeOK, ReadNext, Ends
<1>3. Ordered'
    BY <1>1, Zenon DEF serverTimeout, Ordered, past, Handshaking, LeftoverFirst, own,
       ServerUpAfterClient
<1>4. OneSYN'
    BY <1>1, Zenon DEF serverTimeout, OneSYN, SYNAt
<1> QED
    BY <1>2, <1>3, <1>4

\* The server is up: nothing of the handshake follows the SYNACK.
LEMMA ServerRecvSYNACKOrder ==
    ASSUME IInv, OrderInv, serverRecvSYNACK PROVE OrderInv'
<1> USE Messages, MessageTypes DEF IInv, OrderInv
<1>1. /\ pc["server"] = "waitSYNACK" /\ pc'["server"] = "up"
      /\ pc'["client"] = pc["client"] /\ DOMAIN pc' = Ends
      /\ held["server"].type = "SYNACK"
      /\ reader["server"] = "offer" /\ reader'["server"] = "select"
      /\ reader' \in [Ends -> {"select", "recv", "offer", "gone"}]
      /\ held'["server"] = NoMsg
      /\ held'["client"] = held["client"] /\ reader'["client"] = reader["client"]
    BY Takes, Goes DEF serverRecvSYNACK, Types, Ends, Peer, Places, Handshaking,
       ReadNext
<1>2. Typed'
    BY <1>1 DEF serverRecvSYNACK, Typed, TypeOK, ReadNext, Ends
<1>3. Ordered'
    BY <1>1, Zenon DEF serverRecvSYNACK, Ordered, past, Handshaking, LeftoverFirst, own,
       ServerUpAfterClient
<1>4. OneSYN'
    BY <1>1 DEF serverRecvSYNACK, OneSYN, SYNAt
<1> QED
    BY <1>2, <1>3, <1>4

\* The server gives up on what is no answer to its SYN.
LEMMA ServerRecvOtherOrder ==
    ASSUME IInv, OrderInv, serverRecvOther PROVE OrderInv'
<1> USE Messages, MessageTypes DEF IInv, OrderInv
<1>1. CASE Send("server", Msg("FIN"))
  <2>1. /\ pc["server"] = "waitSYNACK" /\ pc'["server"] = "failed"
        /\ pc'["client"] = pc["client"] /\ DOMAIN pc' = Ends
        /\ reader["server"] = "offer" /\ reader'["server"] = "select"
        /\ reader' \in [Ends -> {"select", "recv", "offer", "gone"}]
        /\ held'["server"] = NoMsg
        /\ held'["client"] = held["client"] /\ reader'["client"] = reader["client"]
        /\ stream'["server"] = stream["server"] /\ Len(stream["client"]) < Cap
        /\ stream'["client"] = Append(stream["client"], Msg("FIN"))
      BY <1>1, Sends, Takes, Goes, Zenon DEF serverRecvOther, Send, Types, Ends, Peer, Places,
         Handshaking, ReadNext
  <2>2. /\ Len(stream'["client"]) <= Cap /\ noneFree(stream'["client"])
        /\ noSYNACK(stream'["client"])
        /\ oneSYN(stream["client"]) => oneSYN(stream'["client"])
        /\ noSYN(stream["client"]) => noSYN(stream'["client"])
      BY <1>1, <2>1, ClientWrittenInOrder
  <2>3. Typed'
    <3>1. Typed
        OBVIOUS
    <3> HIDE Messages, MessageTypes DEF IInv, OrderInv
    <3> QED
        BY <2>1, <2>2, <3>1 DEF serverRecvOther, Typed, TypeOK, Ends
  <2>4. Ordered'
      BY <1>1, <2>1, <2>2, Zenon DEF serverRecvOther, Send, Ordered, past, Handshaking,
         LeftoverFirst, own, ServerUpAfterClient
  <2>5. OneSYN'
      BY <1>1, <2>1, <2>2, ZenonT(40) DEF serverRecvOther, Send, OneSYN, SYNAt
  <2> QED
      BY <2>3, <2>4, <2>5
<1>2. CASE UNCHANGED stream
  <2>1. /\ pc["server"] = "waitSYNACK" /\ pc'["server"] = "failed"
        /\ pc'["client"] = pc["client"] /\ DOMAIN pc' = Ends
        /\ reader["server"] = "offer" /\ reader'["server"] = "select"
        /\ reader' \in [Ends -> {"select", "recv", "offer", "gone"}]
        /\ held'["server"] = NoMsg
        /\ held'["client"] = held["client"] /\ reader'["client"] = reader["client"]
      BY <1>2, Takes, Goes DEF serverRecvOther, Types, Ends, Peer, Places, Handshaking,
         ReadNext
  <2>2. Typed'
      BY <1>2, <2>1 DEF serverRecvOther, Typed, TypeOK, ReadNext, Ends
  <2>3. Ordered'
      BY <1>2, <2>1, Zenon
         DEF serverRecvOther, Ordered, past, Handshaking, LeftoverFirst, own,
         ServerUpAfterClient
  <2>4. OneSYN'
      BY <1>2, <2>1 DEF serverRecvOther, OneSYN, SYNAt
  <2> QED
      BY <2>2, <2>3, <2>4
<1> QED
    BY <1>1, <1>2 DEF serverRecvOther, Close

\* A restarted server is up: nothing of the handshake follows SYNACK or data.
LEMMA ServerCompletesOrder ==
    ASSUME IInv, OrderInv, serverCompletes PROVE OrderInv'
<1> USE Messages, MessageTypes DEF IInv, OrderInv
<1>1. /\ pc["server"] = "waitSYN" /\ pc'["server"] = "up" /\ resent
      /\ pc'["client"] = pc["client"] /\ DOMAIN pc' = Ends
      /\ held["server"].type \in {"SYNACK", "DATA"}
      /\ reader["server"] = "offer" /\ reader'["server"] = "select"
      /\ reader' \in [Ends -> {"select", "recv", "offer", "gone"}]
      /\ held'["server"] = NoMsg
      /\ held'["client"] = held["client"] /\ reader'["client"] = reader["client"]
    BY Takes, Goes DEF serverCompletes, Types, Ends, Peer, Places, Handshaking, ReadNext
<1>2. Typed'
    BY <1>1 DEF serverCompletes, Typed, TypeOK, ReadNext, Ends
<1>3. Ordered'
    BY <1>1, Zenon DEF serverCompletes, Ordered, past, Handshaking, LeftoverFirst, own,
       ServerUpAfterClient
<1>4. OneSYN'
    BY <1>1 DEF serverCompletes, OneSYN, SYNAt
<1> QED
    BY <1>2, <1>3, <1>4

\* The server skips what is no SYN.
LEMMA ServerSkipsOrder ==
    ASSUME IInv, OrderInv, serverSkips PROVE OrderInv'
<1> USE Messages, MessageTypes DEF IInv, OrderInv
<1>1. /\ reader["server"] = "offer" /\ reader'["server"] = "select"
      /\ reader' \in [Ends -> {"select", "recv", "offer", "gone"}]
      /\ held'["server"] = NoMsg
      /\ held'["client"] = held["client"] /\ reader'["client"] = reader["client"]
    BY Takes DEF serverSkips, Types, Ends, Peer, Places, Handshaking, ReadNext
<1>2. Typed'
    BY <1>1 DEF serverSkips, Typed, TypeOK, ReadNext, Ends
<1>3. Ordered'
    BY <1>1, Zenon DEF serverSkips, Ordered, past, Handshaking, LeftoverFirst, own,
       ServerUpAfterClient
<1>4. OneSYN'
    BY <1>1 DEF serverSkips, OneSYN, SYNAt
<1> QED
    BY <1>2, <1>3, <1>4

\* The reading goroutine starts to receive.
LEMMA ReaderStartsOrder ==
    ASSUME IInv, OrderInv, NEW e \in Ends, readerStarts(e) PROVE OrderInv'
<1> USE Messages, MessageTypes DEF IInv, OrderInv
<1>1. CASE e = "client"
  <2>1. /\ reader["client"] = "select" /\ reader'["client"] = "recv"
        /\ reader' \in [Ends -> {"select", "recv", "offer", "gone"}]
        /\ reader'["server"] = reader["server"]
      BY <1>1 DEF readerStarts, Types, Ends, Peer, Places, Handshaking, ReadNext
  <2>2. Typed'
      BY <1>1, <2>1 DEF readerStarts, Typed, TypeOK, ReadNext, Ends
  <2>3. Ordered'
      BY <1>1, <2>1, Zenon
         DEF readerStarts, Ordered, past, Handshaking, LeftoverFirst, own,
         ServerUpAfterClient
  <2>4. OneSYN'
      BY <1>1, <2>1 DEF readerStarts, OneSYN, SYNAt
  <2> QED
      BY <2>2, <2>3, <2>4
<1>2. CASE e = "server"
  <2>1. /\ reader["server"] = "select" /\ reader'["server"] = "recv"
        /\ reader' \in [Ends -> {"select", "recv", "offer", "gone"}]
        /\ reader'["client"] = reader["client"]
      BY <1>2 DEF readerStarts, Types, Ends, Peer, Places, Handshaking, ReadNext
  <2>2. Typed'
      BY <1>2, <2>1 DEF readerStarts, Typed, TypeOK, ReadNext, Ends
  <2>3. Ordered'
      BY <1>2, <2>1, Zenon
         DEF readerStarts, Ordered, past, Handshaking, LeftoverFirst, own,
         ServerUpAfterClient
  <2>4. OneSYN'
      BY <1>2, <2>1 DEF readerStarts, OneSYN, SYNAt
  <2> QED
      BY <2>2, <2>3, <2>4
<1> QED
    BY <1>1, <1>2 DEF Ends

\* The reading goroutine receives, in the order of the stream.
LEMMA ReaderRecvsOrder ==
    ASSUME IInv, OrderInv, NEW e \in Ends, readerRecvs(e) PROVE OrderInv'
<1> USE Messages, MessageTypes DEF IInv, OrderInv
<1>1. CASE e = "client"
  <2>1. /\ reader["client"] = "recv" /\ reader'["client"] = "offer" /\ stream["client"] # <<>>
        /\ reader' \in [Ends -> {"select", "recv", "offer", "gone"}]
        /\ reader'["server"] = reader["server"]
        /\ held'["client"] = Head(stream["client"]) /\ held'["server"] = held["server"]
        /\ stream'["client"] = Tail(stream["client"])
        /\ stream'["server"] = stream["server"]
      BY <1>1, Drops DEF readerRecvs, Types, Ends, Peer, Places, Handshaking, ReadNext
  <2>2. /\ Len(stream'["client"]) <= Cap /\ noneFree(stream'["client"])
        /\ Head(stream["client"]).type \notin {"none", "SYNACK"}
        /\ noSYNACK(stream'["client"])
        /\ noSYN(stream["client"]) =>
               noSYN(stream'["client"]) /\ Head(stream["client"]).type # "SYN"
        /\ oneSYN(stream["client"]) =>
               /\ oneSYN(stream'["client"])
               /\ Head(stream["client"]).type = "SYN" => noSYN(stream'["client"])
      BY <1>1, <2>1, ClientReadsInOrder
  <2>3. Typed'
      BY <1>1, <2>1, <2>2 DEF readerRecvs, Typed, TypeOK, ReadNext, Ends
  <2>4. Ordered'
      BY <1>1, <2>1, <2>2, Zenon
         DEF readerRecvs, Ordered, past, Handshaking, LeftoverFirst,
         own, ServerUpAfterClient
  <2>5. OneSYN'
      BY <1>1, <2>1, <2>2 DEF readerRecvs, OneSYN, SYNAt
  <2> QED
      BY <2>3, <2>4, <2>5
<1>2. CASE e = "server"
  <2>1. /\ reader["server"] = "recv" /\ reader'["server"] = "offer" /\ stream["server"] # <<>>
        /\ reader' \in [Ends -> {"select", "recv", "offer", "gone"}]
        /\ reader'["client"] = reader["client"]
        /\ held'["server"] = Head(stream["server"]) /\ held'["client"] = held["client"]
        /\ stream'["server"] = Tail(stream["server"])
        /\ stream'["client"] = stream["client"]
      BY <1>2, Drops DEF readerRecvs, Types, Ends, Peer, Places, Handshaking, ReadNext
  <2>2. /\ Len(stream'["server"]) <= Cap /\ noneFree(stream'["server"])
        /\ Head(stream["server"]).type # "none"
        /\ inOrder(stream'["server"], FALSE) /\ inOrder(stream'["server"], TRUE)
        /\ inOrder(stream["server"], TRUE)
              /\ Head(stream["server"]).type \in {"SYNACK", "DATA"}
           => over(stream'["server"])
        /\ over(stream["server"]) =>
               /\ over(stream'["server"])
               /\ Head(stream["server"]).type \notin {"SYN", "SYNACK"}
        /\ noSYN(stream["server"]) =>
               noSYN(stream'["server"]) /\ Head(stream["server"]).type # "SYN"
        /\ oneSYN(stream["server"]) =>
               /\ oneSYN(stream'["server"])
               /\ Head(stream["server"]).type = "SYN" => noSYN(stream'["server"])
      BY <1>2, <2>1, ServerReadsInOrder, Zenon
  <2>3. Typed'
      BY <1>2, <2>1, <2>2 DEF readerRecvs, Typed, TypeOK, ReadNext, Ends
  <2>4. Ordered'
      BY <1>2, <2>1, <2>2, Zenon
         DEF readerRecvs, Ordered, past, Handshaking, LeftoverFirst,
         own, ServerUpAfterClient
  <2>5. OneSYN'
      BY <1>2, <2>1, <2>2 DEF readerRecvs, OneSYN, SYNAt
  <2> QED
      BY <2>3, <2>4, <2>5
<1> QED
    BY <1>1, <1>2 DEF Ends

\* The reading goroutine ends.
LEMMA ReaderReturnsOrder ==
    ASSUME IInv, OrderInv, NEW e \in Ends, readerReturns(e) PROVE OrderInv'
<1> USE Messages, MessageTypes DEF IInv, OrderInv
<1>1. CASE e = "client"
  <2>1. /\ reader'["client"] = "gone" /\ reader'["server"] = reader["server"]
        /\ reader' \in [Ends -> {"select", "recv", "offer", "gone"}]
        /\ held'["client"] = NoMsg /\ held'["server"] = held["server"]
      BY <1>1 DEF readerReturns, Types, Ends, Peer, Places, Handshaking, ReadNext
  <2>2. Typed'
      BY <1>1, <2>1 DEF readerReturns, Typed, TypeOK, ReadNext, Ends
  <2>3. Ordered'
      BY <1>1, <2>1, Zenon
         DEF readerReturns, Ordered, past, Handshaking, LeftoverFirst, own,
         ServerUpAfterClient
  <2>4. OneSYN'
      BY <1>1, <2>1 DEF readerReturns, OneSYN, SYNAt
  <2> QED
      BY <2>2, <2>3, <2>4
<1>2. CASE e = "server"
  <2>1. /\ reader'["server"] = "gone" /\ reader'["client"] = reader["client"]
        /\ reader' \in [Ends -> {"select", "recv", "offer", "gone"}]
        /\ held'["server"] = NoMsg /\ held'["client"] = held["client"]
      BY <1>2 DEF readerReturns, Types, Ends, Peer, Places, Handshaking, ReadNext
  <2>2. Typed'
      BY <1>2, <2>1 DEF readerReturns, Typed, TypeOK, ReadNext, Ends
  <2>3. Ordered'
      BY <1>2, <2>1, Zenon
         DEF readerReturns, Ordered, past, Handshaking, LeftoverFirst, own,
         ServerUpAfterClient
  <2>4. OneSYN'
      BY <1>2, <2>1 DEF readerReturns, OneSYN, SYNAt
  <2> QED
      BY <2>2, <2>3, <2>4
<1> QED
    BY <1>1, <1>2 DEF Ends

\* An end that is up sends data.
LEMMA SendDataOrder ==
    ASSUME IInv, OrderInv, NEW e \in Ends, sendData(e) PROVE OrderInv'
<1> USE Messages, MessageTypes DEF IInv, OrderInv
<1>1. CASE e = "client"
  <2>1. /\ pc["client"] = "up" /\ Len(stream["server"]) < Cap
        /\ stream'["client"] = stream["client"]
        /\ stream'["server"] = Append(stream["server"], Msg("DATA"))
      BY <1>1, Sends DEF sendData, Send, Types, Ends, Peer, Places, Handshaking,
         ReadNext
  <2>2. /\ Len(stream'["server"]) <= Cap /\ noneFree(stream'["server"])
        /\ inOrder(stream'["server"], FALSE)
        /\ inOrder(stream["server"], TRUE) => inOrder(stream'["server"], TRUE)
        /\ over(stream["server"]) => over(stream'["server"])
        /\ oneSYN(stream["server"]) => oneSYN(stream'["server"])
        /\ noSYN(stream["server"]) => noSYN(stream'["server"])
      BY <1>1, <2>1, ServerWrittenInOrder, Zenon
  <2>3. Typed'
      BY <1>1, <2>1, <2>2, Zenon DEF sendData, Send, Typed, TypeOK, ReadNext, Ends
  <2>4. Ordered'
      BY <1>1, <2>1, <2>2, Zenon
         DEF sendData, Send, Ordered, past, Handshaking, LeftoverFirst,
         own, ServerUpAfterClient
  <2>5. OneSYN'
      BY <1>1, <2>1, <2>2, Zenon DEF sendData, Send, OneSYN, SYNAt
  <2> QED
      BY <2>3, <2>4, <2>5
<1>2. CASE e = "server"
  <2>1. /\ pc["server"] = "up" /\ Len(stream["client"]) < Cap
        /\ stream'["server"] = stream["server"]
        /\ stream'["client"] = Append(stream["client"], Msg("DATA"))
      BY <1>2, Sends DEF sendData, Send, Types, Ends, Peer, Places, Handshaking,
         ReadNext
  <2>2. /\ Len(stream'["client"]) <= Cap /\ noneFree(stream'["client"])
        /\ noSYNACK(stream'["client"])
        /\ oneSYN(stream["client"]) => oneSYN(stream'["client"])
        /\ noSYN(stream["client"]) => noSYN(stream'["client"])
      BY <1>2, <2>1, ClientWrittenInOrder
  <2>3. Typed'
      BY <1>2, <2>1, <2>2 DEF sendData, Send, Typed, TypeOK, ReadNext, Ends
  <2>4. Ordered'
      BY <1>2, <2>1, <2>2, Zenon
         DEF sendData, Send, Ordered, past, Handshaking, LeftoverFirst,
         own, ServerUpAfterClient
  <2>5. OneSYN'
      BY <1>2, <2>1, <2>2, ZenonT(40) DEF sendData, Send, OneSYN, SYNAt
  <2> QED
      BY <2>3, <2>4, <2>5
<1> QED
    BY <1>1, <1>2 DEF Ends

\* An end that is up receives data.
LEMMA RecvDataOrder ==
    ASSUME IInv, OrderInv, NEW e \in Ends, recvData(e) PROVE OrderInv'
<1> USE Messages, MessageTypes DEF IInv, OrderInv
<1>1. CASE e = "client"
  <2>1. /\ stream["client"] # <<>> /\ stream'["client"] = Tail(stream["client"])
        /\ stream'["server"] = stream["server"]
      BY <1>1, Drops DEF recvData, Types, Ends, Peer, Places, Handshaking, ReadNext
  <2>2. /\ Len(stream'["client"]) <= Cap /\ noneFree(stream'["client"])
        /\ Head(stream["client"]).type \notin {"none", "SYNACK"}
        /\ noSYNACK(stream'["client"])
        /\ noSYN(stream["client"]) =>
               noSYN(stream'["client"]) /\ Head(stream["client"]).type # "SYN"
        /\ oneSYN(stream["client"]) =>
               /\ oneSYN(stream'["client"])
               /\ Head(stream["client"]).type = "SYN" => noSYN(stream'["client"])
      BY <1>1, <2>1, ClientReadsInOrder
  <2>3. Typed'
      BY <1>1, <2>1, <2>2 DEF recvData, Typed, TypeOK, ReadNext, Ends
  <2>4. Ordered'
      BY <1>1, <2>1, <2>2, ZenonT(40)
         DEF recvData, Ordered, past, Handshaking, LeftoverFirst, own,
         ServerUpAfterClient
  <2>5. OneSYN'
      BY <1>1, <2>1, <2>2 DEF recvData, OneSYN, SYNAt
  <2> QED
      BY <2>3, <2>4, <2>5
<1>2. CASE e = "server"
  <2>1. /\ stream["server"] # <<>> /\ stream'["server"] = Tail(stream["server"])
        /\ stream'["client"] = stream["client"]
      BY <1>2, Drops DEF recvData, Types, Ends, Peer, Places, Handshaking, ReadNext
  <2>2. /\ Len(stream'["server"]) <= Cap /\ noneFree(stream'["server"])
        /\ Head(stream["server"]).type # "none"
        /\ inOrder(stream'["server"], FALSE) /\ inOrder(stream'["server"], TRUE)
        /\ inOrder(stream["server"], TRUE)
              /\ Head(stream["server"]).type \in {"SYNACK", "DATA"}
           => over(stream'["server"])
        /\ over(stream["server"]) =>
               /\ over(stream'["server"])
               /\ Head(stream["server"]).type \notin {"SYN", "SYNACK"}
        /\ noSYN(stream["server"]) =>
               noSYN(stream'["server"]) /\ Head(stream["server"]).type # "SYN"
        /\ oneSYN(stream["server"]) =>
               /\ oneSYN(stream'["server"])
               /\ Head(stream["server"]).type = "SYN" => noSYN(stream'["server"])
      BY <1>2, <2>1, ServerReadsInOrder, ZenonT(40)
  <2>3. Typed'
      BY <1>2, <2>1, <2>2 DEF recvData, Typed, TypeOK, ReadNext, Ends
  <2>4. Ordered'
      BY <1>2, <2>1, <2>2, Zenon
         DEF recvData, Ordered, past, Handshaking, LeftoverFirst, own,
         ServerUpAfterClient
  <2>5. OneSYN'
      BY <1>2, <2>1, <2>2, ZenonT(40) DEF recvData, OneSYN, SYNAt
  <2> QED
      BY <2>3, <2>4, <2>5
<1> QED
    BY <1>1, <1>2 DEF Ends

\* A FIN closes an end that is up.
LEMMA RecvFINOrder ==
    ASSUME IInv, OrderInv, NEW e \in Ends, recvFIN(e) PROVE OrderInv'
<1> USE Messages, MessageTypes DEF IInv, OrderInv
<1>1. CASE e = "client"
  <2>1. /\ pc["client"] = "up" /\ pc'["client"] = "closed"
        /\ pc'["server"] = pc["server"] /\ DOMAIN pc' = Ends
        /\ stream["client"] # <<>> /\ stream'["client"] = Tail(stream["client"])
        /\ stream'["server"] = stream["server"]
      BY <1>1, Drops, Goes DEF recvFIN, Types, Ends, Peer, Places, Handshaking, ReadNext
  <2>2. /\ Len(stream'["client"]) <= Cap /\ noneFree(stream'["client"])
        /\ Head(stream["client"]).type \notin {"none", "SYNACK"}
        /\ noSYNACK(stream'["client"])
        /\ noSYN(stream["client"]) =>
               noSYN(stream'["client"]) /\ Head(stream["client"]).type # "SYN"
        /\ oneSYN(stream["client"]) =>
               /\ oneSYN(stream'["client"])
               /\ Head(stream["client"]).type = "SYN" => noSYN(stream'["client"])
      BY <1>1, <2>1, ClientReadsInOrder
  <2>3. Typed'
      BY <1>1, <2>1, <2>2 DEF recvFIN, Typed, TypeOK, ReadNext, Ends
  <2>4. Ordered'
      BY <1>1, <2>1, <2>2, Zenon
         DEF recvFIN, Ordered, past, Handshaking, LeftoverFirst, own,
         ServerUpAfterClient
  <2>5. OneSYN'
      BY <1>1, <2>1, <2>2, Zenon DEF recvFIN, OneSYN, SYNAt
  <2> QED
      BY <2>3, <2>4, <2>5
<1>2. CASE e = "server"
  <2>1. /\ pc["server"] = "up" /\ pc'["server"] = "closed"
        /\ pc'["client"] = pc["client"] /\ DOMAIN pc' = Ends
        /\ stream["server"] # <<>> /\ stream'["server"] = Tail(stream["server"])
        /\ stream'["client"] = stream["client"]
      BY <1>2, Drops, Goes DEF recvFIN, Types, Ends, Peer, Places, Handshaking, ReadNext
  <2>2. /\ Len(stream'["server"]) <= Cap /\ noneFree(stream'["server"])
        /\ Head(stream["server"]).type # "none"
        /\ inOrder(stream'["server"], FALSE) /\ inOrder(stream'["server"], TRUE)
        /\ inOrder(stream["server"], TRUE)
              /\ Head(stream["server"]).type \in {"SYNACK", "DATA"}
           => over(stream'["server"])
        /\ over(stream["server"]) =>
               /\ over(stream'["server"])
               /\ Head(stream["server"]).type \notin {"SYN", "SYNACK"}
        /\ noSYN(stream["server"]) =>
               noSYN(stream'["server"]) /\ Head(stream["server"]).type # "SYN"
        /\ oneSYN(stream["server"]) =>
               /\ oneSYN(stream'["server"])
               /\ Head(stream["server"]).type = "SYN" => noSYN(stream'["server"])
      BY <1>2, <2>1, ServerReadsInOrder, ZenonT(40)
  <2>3. Typed'
      BY <1>2, <2>1, <2>2 DEF recvFIN, Typed, TypeOK, ReadNext, Ends
  <2>4. Ordered'
      BY <1>2, <2>1, <2>2, Zenon
         DEF recvFIN, Ordered, past, Handshaking, LeftoverFirst, own,
         ServerUpAfterClient
  <2>5. OneSYN'
      BY <1>2, <2>1, <2>2, ZenonT(40) DEF recvFIN, OneSYN, SYNAt
  <2> QED
      BY <2>3, <2>4, <2>5
<1> QED
    BY <1>1, <1>2 DEF Ends

\* The caller gives up the handshake.
LEMMA AbortOrder ==
    ASSUME IInv, OrderInv, NEW e \in Ends, abort(e) PROVE OrderInv'
<1> USE Messages, MessageTypes DEF IInv, OrderInv
<1>1. CASE e = "client"
  <2>1. /\ pc["client"] \in Handshaking /\ pc'["client"] = "failed"
        /\ pc'["server"] = pc["server"] /\ DOMAIN pc' = Ends
      BY <1>1, Goes DEF abort, Types, Ends, Peer, Places, Handshaking, ReadNext
  <2>2. Typed'
      BY <1>1, <2>1 DEF abort, Typed, TypeOK, ReadNext, Ends
  <2>3. Ordered'
      BY <1>1, <2>1, Zenon DEF abort, Ordered, past, Handshaking, LeftoverFirst, own,
         ServerUpAfterClient
  <2>4. OneSYN'
      BY <1>1, <2>1, Zenon DEF abort, OneSYN, SYNAt
  <2> QED
      BY <2>2, <2>3, <2>4
<1>2. CASE e = "server"
  <2>1. /\ pc["server"] \in Handshaking /\ pc'["server"] = "failed"
        /\ pc'["client"] = pc["client"] /\ DOMAIN pc' = Ends
      BY <1>2, Goes DEF abort, Types, Ends, Peer, Places, Handshaking, ReadNext
  <2>2. Typed'
      BY <1>2, <2>1 DEF abort, Typed, TypeOK, ReadNext, Ends
  <2>3. Ordered'
      BY <1>2, <2>1, Zenon DEF abort, Ordered, past, Handshaking, LeftoverFirst, own,
         ServerUpAfterClient
  <2>4. OneSYN'
      BY <1>2, <2>1, Zenon DEF abort, OneSYN, SYNAt
  <2> QED
      BY <2>2, <2>3, <2>4
<1> QED
    BY <1>1, <1>2 DEF Ends

\* An end that is up is closed and sends a FIN.
LEMMA CloseUpOrder ==
    ASSUME IInv, OrderInv, NEW e \in Ends, closeUp(e) PROVE OrderInv'
<1> USE Messages, MessageTypes DEF IInv, OrderInv
<1>1. CASE e = "client"
  <2>1. CASE Send("client", Msg("FIN"))
    <3>1. /\ pc["client"] = "up" /\ pc'["client"] = "closed"
          /\ pc'["server"] = pc["server"] /\ DOMAIN pc' = Ends
          /\ stream'["client"] = stream["client"] /\ Len(stream["server"]) < Cap
          /\ stream'["server"] = Append(stream["server"], Msg("FIN"))
        BY <1>1, <2>1, Sends, Goes DEF closeUp, Send, Types, Ends, Peer, Places,
           Handshaking, ReadNext
    <3>2. /\ Len(stream'["server"]) <= Cap /\ noneFree(stream'["server"])
          /\ inOrder(stream'["server"], FALSE)
          /\ inOrder(stream["server"], TRUE) => inOrder(stream'["server"], TRUE)
          /\ over(stream["server"]) => over(stream'["server"])
          /\ oneSYN(stream["server"]) => oneSYN(stream'["server"])
          /\ noSYN(stream["server"]) => noSYN(stream'["server"])
        BY <1>1, <2>1, <3>1, ServerWrittenInOrder, Zenon
    <3>3. Typed'
        BY <1>1, <2>1, <3>1, <3>2 DEF closeUp, Send, Typed, TypeOK, ReadNext, Ends
    <3>4. Ordered'
        BY <1>1, <2>1, <3>1, <3>2, Zenon DEF closeUp, Send, Ordered, past, Handshaking,
           LeftoverFirst, own, ServerUpAfterClient
    <3>5. OneSYN'
        BY <1>1, <2>1, <3>1, <3>2, Zenon DEF closeUp, Send, OneSYN, SYNAt
    <3> QED
        BY <3>3, <3>4, <3>5
  <2>2. CASE UNCHANGED stream
    <3>1. /\ pc["client"] = "up" /\ pc'["client"] = "closed"
          /\ pc'["server"] = pc["server"] /\ DOMAIN pc' = Ends
        BY <1>1, <2>2, Goes DEF closeUp, Types, Ends, Peer, Places, Handshaking,
           ReadNext
    <3>2. Typed'
        BY <1>1, <2>2, <3>1 DEF closeUp, Typed, TypeOK, ReadNext, Ends
    <3>3. Ordered'
        BY <1>1, <2>2, <3>1, Zenon
           DEF closeUp, Ordered, past, Handshaking, LeftoverFirst, own,
           ServerUpAfterClient
    <3>4. OneSYN'
        BY <1>1, <2>2, <3>1, Zenon DEF closeUp, OneSYN, SYNAt
    <3> QED
        BY <3>2, <3>3, <3>4
  <2> QED
      BY <1>1, <2>1, <2>2 DEF closeUp, Close
<1>2. CASE e = "server"
  <2>1. CASE Send("server", Msg("FIN"))
    <3>1. /\ pc["server"] = "up" /\ pc'["server"] = "closed"
          /\ pc'["client"] = pc["client"] /\ DOMAIN pc' = Ends
          /\ stream'["server"] = stream["server"] /\ Len(stream["client"]) < Cap
          /\ stream'["client"] = Append(stream["client"], Msg("FIN"))
        BY <1>2, <2>1, Sends, Goes, Zenon DEF closeUp, Send, Types, Ends, Peer, Places,
           Handshaking, ReadNext
    <3>2. /\ Len(stream'["client"]) <= Cap /\ noneFree(stream'["client"])
          /\ noSYNACK(stream'["client"])
          /\ oneSYN(stream["client"]) => oneSYN(stream'["client"])
          /\ noSYN(stream["client"]) => noSYN(stream'["client"])
        BY <1>2, <2>1, <3>1, ClientWrittenInOrder
    <3>3. Typed'
        BY <1>2, <2>1, <3>1, <3>2 DEF closeUp, Send, Typed, TypeOK, ReadNext, Ends
    <3>4. Ordered'
        BY <1>2, <2>1, <3>1, <3>2, Zenon DEF closeUp, Send, Ordered, past, Handshaking,
           LeftoverFirst, own, ServerUpAfterClient
    <3>5. OneSYN'
        BY <1>2, <2>1, <3>1, <3>2, Zenon DEF closeUp, Send, OneSYN, SYNAt
    <3> QED
        BY <3>3, <3>4, <3>5
  <2>2. CASE UNCHANGED stream
    <3>1. /\ pc["server"] = "up" /\ pc'["server"] = "closed"
          /\ pc'["client"] = pc["client"] /\ DOMAIN pc' = Ends
        BY <1>2, <2>2, Goes DEF closeUp, Types, Ends, Peer, Places, Handshaking,
           ReadNext
    <3>2. Typed'
        BY <1>2, <2>2, <3>1 DEF closeUp, Typed, TypeOK, ReadNext, Ends
    <3>3. Ordered'
        BY <1>2, <2>2, <3>1, Zenon
           DEF closeUp, Ordered, past, Handshaking, LeftoverFirst, own,
           ServerUpAfterClient
    <3>4. OneSYN'
        BY <1>2, <2>2, <3>1, Zenon DEF closeUp, OneSYN, SYNAt
    <3> QED
        BY <3>2, <3>3, <3>4
  <2> QED
      BY <1>2, <2>1, <2>2 DEF closeUp, Close
<1> QED
    BY <1>1, <1>2 DEF Ends

\* The stream loses its first message.
LEMMA LoseOrder ==
    ASSUME IInv, OrderInv, NEW e \in Ends, lose(e) PROVE OrderInv'
<1> USE Messages, MessageTypes DEF IInv, OrderInv
<1>1. CASE e = "client"
  <2>1. /\ stream["client"] # <<>> /\ stream'["client"] = Tail(stream["client"])
        /\ stream'["server"] = stream["server"]
      BY <1>1, Drops, Zenon DEF lose, Types, Ends, Peer, Places, Handshaking, ReadNext
  <2>2. /\ Len(stream'["client"]) <= Cap /\ noneFree(stream'["client"])
        /\ Head(stream["client"]).type \notin {"none", "SYNACK"}
        /\ noSYNACK(stream'["client"])
        /\ noSYN(stream["client"]) =>
               noSYN(stream'["client"]) /\ Head(stream["client"]).type # "SYN"
        /\ oneSYN(stream["client"]) =>
               /\ oneSYN(stream'["client"])
               /\ Head(stream["client"]).type = "SYN" => noSYN(stream'["client"])
      BY <1>1, <2>1, ClientReadsInOrder
  <2>3. Typed'
      BY <1>1, <2>1, <2>2 DEF lose, Typed, TypeOK, ReadNext, Ends
  <2>4. Ordered'
      BY <1>1, <2>1, <2>2, Zenon DEF lose, Ordered, past, Handshaking, LeftoverFirst, own,
         ServerUpAfterClient
  <2>5. OneSYN'
      BY <1>1, <2>1, <2>2, Zenon DEF lose, OneSYN, SYNAt
  <2> QED
      BY <2>3, <2>4, <2>5
<1>2. CASE e = "server"
  <2>1. /\ stream["server"] # <<>> /\ stream'["server"] = Tail(stream["server"])
        /\ stream'["client"] = stream["client"]
      BY <1>2, Drops DEF lose, Types, Ends, Peer, Places, Handshaking, ReadNext
  <2>2. /\ Len(stream'["server"]) <= Cap /\ noneFree(stream'["server"])
        /\ Head(stream["server"]).type # "none"
        /\ inOrder(stream'["server"], FALSE) /\ inOrder(stream'["server"], TRUE)
        /\ inOrder(stream["server"], TRUE)
              /\ Head(stream["server"]).type \in {"SYNACK", "DATA"}
           => over(stream'["server"])
        /\ over(stream["server"]) =>
               /\ over(stream'["server"])
               /\ Head(stream["server"]).type \notin {"SYN", "SYNACK"}
        /\ noSYN(stream["server"]) =>
               noSYN(stream'["server"]) /\ Head(stream["server"]).type # "SYN"
        /\ oneSYN(stream["server"]) =>
               /\ oneSYN(stream'["server"])
               /\ Head(stream["server"]).type = "SYN" => noSYN(stream'["server"])
      BY <1>2, <2>1, ServerReadsInOrder, Zenon
  <2>3. Typed'
      BY <1>2, <2>1, <2>2, Zenon DEF lose, Typed, TypeOK, ReadNext, Ends
  <2>4. Ordered'
      BY <1>2, <2>1, <2>2, Zenon DEF lose, Ordered, past, Handshaking, LeftoverFirst, own,
         ServerUpAfterClient
  <2>5. OneSYN'
      BY <1>2, <2>1, <2>2, Zenon DEF lose, OneSYN, SYNAt
  <2> QED
      BY <2>3, <2>4, <2>5
<1> QED
    BY <1>1, <1>2 DEF Ends

\* A message of the handshake reaches an established connection: never the
\* server's, and the client's only if there was an extra SYN.
LEMMA RecvUnexpectedOrder ==
    ASSUME IInv, OrderInv, NEW e \in Ends, recvUnexpected(e) PROVE OrderInv'
<1> USE Messages, MessageTypes DEF IInv, OrderInv
<1>1. stream \in [Ends -> Seq(Message)]
    BY DEF Types
<1>2. e # "server"
    BY <1>1, ReadsInOrder, Zenon DEF recvUnexpected, Ordered, Ends
<1>3. e = "client" /\ pc["client"] = "up" /\ stream["client"] # <<>>
    BY <1>2 DEF recvUnexpected, Ends
<1>4. extraSYN
  <2>1. stream["client"] \in Seq(Message) /\ noSYNACK(stream["client"])
      BY <1>1 DEF Ends, OneSYN
  <2>2. Head(stream["client"]).type \in {"SYN", "SYNACK"}
      BY <1>3 DEF recvUnexpected
  <2>3. ~noSYN(stream["client"])
      BY <1>3, <2>1, <2>2, ReadsInOrder, Zenon
  <2>4. \A at \in 0 .. 6 : ~SYNAt(at)
      BY <1>3, <2>3 DEF SYNAt
  <2> QED
      BY <2>4 DEF OneSYN
<1>5. /\ pc'["client"] = "torn" /\ pc'["server"] = pc["server"] /\ DOMAIN pc' = Ends
      /\ stream'["client"] = Tail(stream["client"])
    BY <1>1, <1>3, Goes DEF recvUnexpected, Types, Ends, Peer, Places
<1>6. \/ stream'["server"] = stream["server"]
      \/ /\ Len(stream["server"]) < Cap
         /\ stream'["server"] = Append(stream["server"], Msg("FIN"))
    BY <1>1, <1>3 DEF recvUnexpected, Ends, Peer
<1>7. /\ Len(stream'["client"]) <= Cap /\ noneFree(stream'["client"])
      /\ noSYNACK(stream'["client"])
    BY <1>3, <1>5, ClientReadsInOrder
<1>8. /\ Len(stream'["server"]) <= Cap /\ noneFree(stream'["server"])
      /\ inOrder(stream'["server"], FALSE)
      /\ inOrder(stream["server"], TRUE) => inOrder(stream'["server"], TRUE)
      /\ over(stream["server"]) => over(stream'["server"])
  <2>1. CASE stream'["server"] = stream["server"]
      BY <2>1, Zenon DEF Typed, TypeOK, Ordered, Ends
  <2>2. CASE /\ Len(stream["server"]) < Cap
             /\ stream'["server"] = Append(stream["server"], Msg("FIN"))
      BY <2>2, ServerWrittenInOrder, Zenon
  <2> QED
      BY <1>6, <2>1, <2>2, Zenon
<1>9. Typed'
    BY <1>3, <1>5, <1>7, <1>8, Zenon DEF recvUnexpected, Typed, TypeOK, Ends
<1>10. Ordered'
    BY <1>3, <1>5, <1>8, Zenon DEF recvUnexpected, Ordered, past, Handshaking
<1>11. OneSYN'
    BY <1>3, <1>4, <1>5, <1>7 DEF recvUnexpected, OneSYN
<1> QED
    BY <1>9, <1>10, <1>11

\* Nothing changes.
LEMMA StutterOrder == ASSUME OrderInv, UNCHANGED vars PROVE OrderInv'
<1> USE DEF vars, OrderInv
<1>1. Typed'
    BY DEF Typed, TypeOK
<1>2. Ordered'
    BY Zenon DEF Ordered, past
<1>3. OneSYN'
    BY DEF OneSYN, SYNAt
<1> QED
    BY <1>1, <1>2, <1>3

\* Every handler of either end keeps the order.
LEMMA StepsOrder == IInv /\ OrderInv /\ [Next]_vars => OrderInv'
<1> SUFFICES ASSUME IInv, OrderInv, [Next]_vars PROVE OrderInv'
    OBVIOUS
<1>1. CASE Client
    BY <1>1, ClientSendSYNOrder, ClientTimeoutOrder, ClientRecvSYNOrder,
       ClientRecvOtherOrder, ClientSendSYNACKOrder, ClientRefuseNOrder DEF Client
<1>2. CASE Server
    BY <1>2, ServerRecvSYNOrder, ServerSendSYNOrder, ServerTimeoutOrder,
       ServerRecvSYNACKOrder, ServerRecvOtherOrder, ServerCompletesOrder,
       ServerSkipsOrder DEF Server
<1>3. ASSUME NEW e \in Ends,
             \/ Reader(e) \/ sendData(e) \/ recvUp(e)
             \/ abort(e) \/ closeUp(e) \/ lose(e)
      PROVE  OrderInv'
    BY <1>3, ReaderStartsOrder, ReaderRecvsOrder, ReaderReturnsOrder, SendDataOrder,
       RecvDataOrder, RecvFINOrder, RecvUnexpectedOrder, AbortOrder, CloseUpOrder,
       LoseOrder DEF Reader, recvUp
<1> QED
    BY <1>1, <1>2, <1>3, StutterOrder DEF Next

\* A leftover is alone in its stream, and if it is a SYN it counts as an extra one.
LEMMA StartsOrder == Init => OrderInv
<1> SUFFICES ASSUME Init PROVE OrderInv
    OBVIOUS
<1> USE Messages, MessageTypes DEF Init
<1>1. PICK k \in OldNs \cup {ClientN} :
          /\ stream["client"] \in LeftByServer(k) \cup {<<>>}
          /\ stream["server"] \in LeftByServer(k) \cup LeftByClient(k) \cup {<<>>}
    BY Zenon DEF Ends
<1>2. ASSUME NEW m, m.type # "none"
      PROVE  /\ Len(<<m>>) <= Cap /\ noneFree(<<m>>) /\ inOrder(<<m>>, FALSE)
             /\ oneSYN(<<m>>) /\ (m.type # "SYNACK" => noSYNACK(<<m>>))
  <2>1. Len(<<m>>) = 1 /\ \A i \in DOMAIN <<m>> : i = 1 /\ <<m>>[i] = m
      OBVIOUS
  <2>2. \A i, j \in DOMAIN <<m>> : ~(i < j)
      BY <2>1
  <2>3. Len(<<m>>) <= Cap
      BY <2>1, HandshakeAssumption
  <2>4. noneFree(<<m>>) /\ (m.type # "SYNACK" => noSYNACK(<<m>>))
      BY <1>2, <2>1 DEF noneFree, noSYNACK
  <2>5. inOrder(<<m>>, FALSE)
      BY <2>2 DEF inOrder
  <2>6. oneSYN(<<m>>)
      BY <2>1 DEF oneSYN
  <2> QED
      BY <2>3, <2>4, <2>5, <2>6, Zenon
<1>3. /\ Len(<<>>) <= Cap /\ noneFree(<<>>) /\ inOrder(<<>>, FALSE)
      /\ oneSYN(<<>>) /\ noSYNACK(<<>>)
    BY HandshakeAssumption DEF noneFree, inOrder, oneSYN, noSYNACK
<1>4. \A s \in LeftByServer(k) \cup LeftByClient(k) \cup {<<>>} :
          Len(s) <= Cap /\ noneFree(s) /\ inOrder(s, FALSE) /\ oneSYN(s)
    BY <1>2, <1>3, Zenon DEF LeftByServer, LeftByClient, SYN, Msg
<1>5. \A s \in LeftByServer(k) \cup {<<>>} : noSYNACK(s)
    BY <1>2, <1>3, Zenon DEF LeftByServer, SYN, Msg
<1>6. extraSYN \in BOOLEAN
    BY Zenon
<1>7. ~extraSYN => noSYN(stream["client"]) /\ noSYN(stream["server"])
    BY DEF noSYN, Ends
<1>8. Typed
    BY <1>1, <1>4, <1>6, Zenon DEF Typed, TypeOK, Ends
<1>9. Ordered
    BY <1>1, <1>4, Zenon DEF Ordered, past, Ends, NoMsg, Msg
<1>10. OneSYN
  <2>1. ~extraSYN => SYNAt(0)
      BY <1>7 DEF SYNAt, Ends, NoMsg, Msg
  <2>2. pc["client"] # "torn" /\ noSYNACK(stream["client"])
      BY <1>1, <1>5 DEF Ends
  <2>3. oneSYN(stream["client"]) /\ oneSYN(stream["server"])
      BY <1>1, <1>4, Zenon
  <2>4. 0 \in 0 .. 6
      OBVIOUS
  <2> HIDE DEF Init
  <2> QED
      BY <2>1, <2>2, <2>3, <2>4 DEF OneSYN
<1> QED
    BY <1>8, <1>9, <1>10 DEF OrderInv

\* The handshake: when both ends are up they agree on n, and a message of the
\* handshake ends an established connection only at the client and only after an
\* extra SYN (serverHandshake, clientHandshake, receivePacketsForever).
THEOREM HandshakeCorrect == Spec => []HandshakeInv
<1>1. IInv => NAgreement
    BY DEF IInv, NAgreement, ClientUp, OtherN, SameN, agreed
<1>2. OrderInv => TypeOK /\ TornOnlyByExtraSYN
    BY DEF OrderInv, Typed, Ordered, OneSYN, TornOnlyByExtraSYN
<1>3. IInv /\ OrderInv => HandshakeInv
    BY <1>1, <1>2 DEF HandshakeInv
<1> QED
    BY <1>3, Starts, Steps, StartsOrder, StepsOrder, PTL DEF Spec

=============================================================================
