--------------------------- MODULE NoiseConnProofs ---------------------------
(***************************************************************************)
(* Proofs about what is built on the noise transport: the connection that  *)
(* gRPC gets, and what a reader gets with and without read deadlines.      *)
(***************************************************************************)
EXTENDS MCNoise, NoiseProofs

-----------------------------------------------------------------------------
(***************************************************************************)
(* NoiseGrpcConn. Dial waits until the connection before is closed, so of  *)
(* the transports only that of the current connection is not closed yet,   *)
(* and it alone can close anything.                                        *)
(***************************************************************************)

\* What readers get.
ByteSeq == Seq(G!Conns \X Nat)

GrpcTypes ==
    /\ ProxyConn \in 0 .. MaxConns /\ closed \subseteq G!Conns
    /\ taken \in [G!Conns -> 0 .. MaxBytes]
    /\ writer \in {"none", "waiting", "holds"}
    /\ dialer \in [at : {"dial", "lock"}, k : 0 .. MaxConns]
    /\ readers \in [G!Conns -> {"none", "idle", "reading", "end"}]
    /\ DOMAIN sender = G!Conns
    /\ closer \in [G!Conns -> {"none", "open", "closing", "end"}]
    /\ given \in [G!Conns -> ByteSeq]
    /\ nextMsg \in ByteSeq

\* proxyConnMtx and nextMsgMtx.
reads(k) == <<"read", k>> \in holders
closes(k) == <<"close", k>> \in holders

Locked ==
    /\ writer = "holds" => holders = {}
    /\ \A k \in G!Conns : reads(k) <=> readers[k] = "reading"
    /\ \A k \in G!Conns : closer[k] = "closing" => closes(k)
    /\ \A j, k \in G!Conns : reads(j) /\ reads(k) => j = k

\* Connection k has not been handed to gRPC.
ahead(k) == k > dialer.k \/ (k = dialer.k /\ dialer.at = "lock")

\* One connection after the other.
OneByOne ==
    /\ writer # "none" => dialer.at = "lock"
    /\ dialer.at = "lock" => dialer.k > 0
    /\ dialer.at = "dial" \/ writer = "holds" => ProxyConn = dialer.k
    /\ dialer.at = "lock" /\ writer # "holds" => ProxyConn = dialer.k - 1
    /\ \A k \in G!Conns : ahead(k) =>
           readers[k] = "none" /\ closer[k] = "none" /\ k \notin closed
    /\ \A k \in G!Conns : k < dialer.k => k \in closed
    /\ \A k \in closed : closer[k] \in {"none", "end"}
    /\ \A k \in G!Conns : closer[k] = "closing" => ProxyConn = k

\* Byte x of connection c.
byteOf(c, x) == <<c, x>>

\* The bytes of s are those of connection c up to byte t.
upTo(s, c, t) == \A i \in 1 .. Len(s) : s[i] = byteOf(c, t - Len(s) + i)

\* What is kept are the last bytes that were taken.
RestIsLast == nextMsg # <<>> => \E c \in G!Conns : upTo(nextMsg, c, taken[c])

\* The rest of a message fits, and nothing was taken since it was kept.
RestKept ==
    /\ Len(nextMsg) <= BufSize /\ RestIsLast
    /\ \A k \in G!Conns : Len(given[k]) <= BufSize

GrpcIInv == GrpcTypes /\ Locked /\ OneByOne /\ RestKept

\* The values of the constants and of the connections' numbers.
LEMMA GrpcConstants ==
    /\ MaxConns \in Nat /\ MaxBytes \in Nat /\ BufSize \in Nat /\ BufSize > 0
    /\ G!Conns = 1 .. MaxConns
BY GrpcAssumption DEF G!Conns

\* Taking and releasing the mutexes.
LEMMA ReadLock ==
    ASSUME NEW k
    PROVE  /\ holders' = holders \cup {<<"read", k>>} =>
                  \A j : (reads(j)' <=> reads(j) \/ j = k) /\ (closes(j)' <=> closes(j))
           /\ holders' = holders \ {<<"read", k>>} =>
                  \A j : (reads(j)' <=> reads(j) /\ j # k) /\ (closes(j)' <=> closes(j))
BY DEF reads, closes

\* What the lock of Close changes.
LEMMA CloseLock ==
    ASSUME NEW k
    PROVE  /\ holders' = holders \cup {<<"close", k>>} =>
                  \A j : (reads(j)' <=> reads(j)) /\ (closes(j)' <=> closes(j) \/ j = k)
           /\ holders' = holders \ {<<"close", k>>} =>
                  \A j : (reads(j)' <=> reads(j)) /\ (closes(j)' <=> closes(j) /\ j # k)
BY DEF reads, closes

\* The lock of Write changes nothing for readers and closers.
LEMMA WriteLock ==
    ASSUME NEW k, holders' = holders \cup {<<"write", k>>}
                  \/ holders' = holders \ {<<"write", k>>}
    PROVE  \A j : (reads(j)' <=> reads(j)) /\ (closes(j)' <=> closes(j))
BY DEF reads, closes

\* Without a holder nobody reads or closes.
LEMMA NoLocks == holders = {} => \A j : ~reads(j) /\ ~closes(j)
BY DEF reads, closes

\* Where the holders stay, readers and closers stay.
LEMMA SameLocks ==
    UNCHANGED holders => \A j : (reads(j)' <=> reads(j)) /\ (closes(j)' <=> closes(j))
BY DEF reads, closes

\* What GivesNextBytes says of the bytes of c up to t.
continues(s, c, t) ==
    s[1][1] = c /\ \A i \in 1 .. Len(s) : s[i] = <<c, t - Len(s) + i>>

\* Two sequences that continue each other are one.
LEMMA LastOfBoth ==
    ASSUME NEW a \in ByteSeq, NEW b \in ByteSeq,
           NEW c \in G!Conns, NEW t \in Nat, a # <<>>,
           upTo(a, c, t - Len(b)), upTo(b, c, t)
    PROVE  continues(a \o b, c, t)
<1>1. Len(a) \in Nat /\ Len(b) \in Nat /\ Len(a) > 0 /\ Len(a \o b) = Len(a) + Len(b)
    BY DEF ByteSeq
<1>2. ASSUME NEW i \in 1 .. Len(a \o b)
      PROVE  (a \o b)[i] = byteOf(c, t - Len(a \o b) + i)
  <2>1. CASE i <= Len(a)
    <3>1. (a \o b)[i] = a[i] /\ i \in 1 .. Len(a)
        BY <1>1, <2>1 DEF ByteSeq
    <3>2. t - Len(b) - Len(a) + i = t - Len(a \o b) + i
        BY <1>1
    <3> QED
        BY <3>1, <3>2 DEF upTo
  <2>2. CASE i > Len(a)
    <3>1. (a \o b)[i] = b[i - Len(a)] /\ i - Len(a) \in 1 .. Len(b)
        BY <1>1, <2>2 DEF ByteSeq
    <3>2. t - Len(b) + (i - Len(a)) = t - Len(a \o b) + i
        BY <1>1
    <3> QED
        BY <3>1, <3>2 DEF upTo
  <2> QED
      BY <1>1, <2>1, <2>2
<1>3. (a \o b)[1] = byteOf(c, t - Len(a \o b) + 1)
    BY <1>1, <1>2
<1>4. (a \o b)[1][1] = c
    BY <1>3 DEF byteOf
<1>5. \A i \in 1 .. Len(a \o b) : (a \o b)[i] = <<c, t - Len(a \o b) + i>>
    BY <1>2, Zenon DEF byteOf
<1> QED
    BY <1>4, <1>5, Zenon DEF continues

\* Nothing is connected.
LEMMA GrpcStarts == G!Init => GrpcIInv
<1> SUFFICES ASSUME G!Init PROVE GrpcIInv
    OBVIOUS
<1> USE GrpcConstants DEF G!Init
<1>1. GrpcTypes
    BY DEF GrpcTypes, ByteSeq
<1>2. Locked
    BY NoLocks DEF Locked
<1>3. OneByOne
    BY DEF OneByOne, ahead
<1>4. RestKept
    BY DEF RestKept, RestIsLast, ByteSeq
<1> QED
    BY <1>1, <1>2, <1>3, <1>4 DEF GrpcIInv

\* Dial: the connection before is closed.
LEMMA DialKeeps == ASSUME GrpcIInv, G!Dial PROVE GrpcIInv'
<1> USE GrpcConstants DEF GrpcIInv, G!Dial
<1>1. /\ dialer.at = "dial" /\ dialer.k \in 0 .. MaxConns - 1
      /\ dialer.k > 0 => dialer.k \in closed
      /\ dialer' = [at |-> "lock", k |-> dialer.k + 1]
      /\ dialer'.at = "lock" /\ dialer'.k = dialer.k + 1 /\ writer = "none"
      /\ ProxyConn = dialer.k /\ dialer.k + 1 \in 0 .. MaxConns
    BY DEF GrpcTypes, OneByOne
<1>2. GrpcTypes'
    BY <1>1 DEF GrpcTypes
<1>3. Locked'
    BY SameLocks DEF Locked
<1>4. OneByOne'
  <2>1. \A k \in G!Conns : ahead(k)' => ahead(k)
      BY <1>1 DEF ahead
  <2>2. \A k \in G!Conns : k < dialer'.k => k \in closed
      BY <1>1 DEF OneByOne
  <2> QED
      BY <1>1, <2>1, <2>2 DEF OneByOne
<1>5. RestKept'
    BY DEF RestKept, RestIsLast, upTo
<1> QED
    BY <1>2, <1>3, <1>4, <1>5

\* The handshake waits for proxyConnMtx and then holds it alone.
LEMMA HandshakeLocksKeeps ==
    ASSUME GrpcIInv, G!handshakeWaits \/ G!handshakeLocks PROVE GrpcIInv'
<1> USE GrpcConstants DEF GrpcIInv, G!handshakeWaits, G!handshakeLocks
<1>1. /\ writer \in {"none", "waiting"} /\ dialer.at = "lock" /\ dialer' = dialer
      /\ dialer.k \in 1 .. MaxConns
      /\ \/ writer' = "waiting" /\ ProxyConn' = ProxyConn
         \/ writer' = "holds" /\ ProxyConn' = dialer.k /\ holders = {}
    BY DEF GrpcTypes, OneByOne
<1>2. GrpcTypes'
    BY <1>1, Zenon DEF GrpcTypes
<1>3. Locked'
    BY <1>1, SameLocks DEF Locked
<1>4. OneByOne'
    BY <1>1, NoLocks DEF OneByOne, ahead, Locked
<1>5. RestKept'
    BY SMTT(30) DEF RestKept, RestIsLast, upTo
<1> QED
    BY <1>2, <1>3, <1>4, <1>5

\* The handshake ends, and its connection is the current one or closed.
LEMMA HandshakeEndsKeeps ==
    ASSUME GrpcIInv, G!ClientHandshake \/ G!handshakeFails PROVE GrpcIInv'
<1> USE GrpcConstants DEF GrpcIInv
<1>1. /\ writer = "holds" /\ writer' = "none" /\ holders = {} /\ holders' = {}
      /\ dialer.at = "lock" /\ dialer'.at = "dial" /\ dialer'.k = dialer.k
      /\ dialer.k \in G!Conns /\ ProxyConn = dialer.k /\ ProxyConn' = ProxyConn
      /\ dialer' \in [at : {"dial", "lock"}, k : 0 .. MaxConns]
      /\ UNCHANGED <<taken, nextMsg, given>>
    BY DEF GrpcTypes, OneByOne, Locked, G!ClientHandshake, G!handshakeFails
<1>2. /\ readers[dialer.k] = "none" /\ closer[dialer.k] = "none"
      /\ dialer.k \notin closed
    BY <1>1 DEF OneByOne, ahead
<1>3. \/ /\ closed' = closed
         /\ readers' = [readers EXCEPT ![dialer.k] = "idle"]
         /\ closer' = [closer EXCEPT ![dialer.k] = "open"]
         /\ sender' = [sender EXCEPT ![dialer.k] = "idle"]
      \/ /\ closed' = closed \cup {dialer.k}
         /\ UNCHANGED <<readers, closer, sender>>
    BY DEF G!ClientHandshake, G!handshakeFails
<1>4. GrpcTypes'
    BY <1>1, <1>3, Zenon DEF GrpcTypes
<1>5. Locked'
  <2>1. \A j \in G!Conns : readers'[j] # "reading" /\ closer'[j] # "closing"
      BY <1>1, <1>3, NoLocks DEF Locked, GrpcTypes
  <2>2. \A j : ~reads(j)' /\ ~closes(j)'
      BY <1>1, NoLocks, SameLocks
  <2> QED
      BY <1>1, <2>1, <2>2 DEF Locked
<1>6. OneByOne'
  <2>1. \A k \in G!Conns : ahead(k)' => ahead(k) /\ k # dialer.k
      BY <1>1 DEF ahead, GrpcTypes
  <2>2. \A k \in G!Conns \ {dialer.k} :
            /\ readers'[k] = readers[k] /\ closer'[k] = closer[k]
            /\ k \in closed' <=> k \in closed
      BY <1>1, <1>3 DEF GrpcTypes
  <2>3. \/ closer'[dialer.k] = "open" /\ dialer.k \notin closed'
        \/ closer'[dialer.k] = "none"
      BY <1>1, <1>2, <1>3 DEF GrpcTypes
  <2>4. closed' \subseteq G!Conns /\ closed \subseteq G!Conns
      BY <1>1, <1>3, Zenon DEF GrpcTypes
  <2>5. \A k \in G!Conns : closer'[k] = "closing" => ProxyConn' = k
      BY <1>1, <2>2, <2>3 DEF OneByOne
  <2> QED
    <3>1. \A k \in closed' : closer'[k] \in {"none", "end"}
        BY <2>2, <2>3, <2>4 DEF OneByOne
    <3>2. \A k \in G!Conns : ahead(k)' =>
              readers'[k] = "none" /\ closer'[k] = "none" /\ k \notin closed'
        BY <2>1, <2>2 DEF OneByOne
    <3>3. \A k \in G!Conns : k < dialer'.k => k \in closed'
        BY <1>1, <1>3 DEF OneByOne
    <3> QED
        BY <1>1, <2>5, <3>1, <3>2, <3>3 DEF OneByOne
<1>7. RestKept'
    BY <1>1 DEF RestKept, RestIsLast, upTo
<1> QED
    BY <1>4, <1>5, <1>6, <1>7

\* Read locks both mutexes.
LEMMA ReadLocksKeeps ==
    ASSUME GrpcIInv, NEW k \in G!Conns, G!readLocks(k) PROVE GrpcIInv'
<1> USE GrpcConstants DEF GrpcIInv, G!readLocks
<1>1. /\ readers[k] = "idle" /\ writer = "none" /\ writer' = "none"
      /\ \A j \in G!Conns : ~reads(j)
      /\ holders' = holders \cup {<<"read", k>>}
      /\ readers'[k] = "reading"
      /\ \A j \in G!Conns \ {k} : readers'[j] = readers[j]
      /\ readers' \in [G!Conns -> {"none", "idle", "reading", "end"}]
    BY DEF GrpcTypes, reads
<1>2. GrpcTypes'
    BY <1>1 DEF GrpcTypes
<1>3. Locked'
  <2>1. \A j : (reads(j)' <=> reads(j) \/ j = k) /\ (closes(j)' <=> closes(j))
      BY <1>1, ReadLock, Zenon
  <2> QED
      BY <1>1, <2>1 DEF Locked
<1>4. OneByOne'
    BY <1>1 DEF OneByOne, ahead
<1>5. RestKept'
    BY DEF RestKept, RestIsLast, upTo
<1> QED
    BY <1>2, <1>3, <1>4, <1>5

\* Read returns bytes that fit, and unlocks.
LEMMA ReadReturnsKeeps ==
    ASSUME GrpcIInv, NEW k \in G!Conns, readers[k] = "reading",
           NEW bytes \in ByteSeq, Len(bytes) <= BufSize,
           NEW state \in {"idle", "end"}, G!readReturns(k, bytes, state),
           taken' \in [G!Conns -> 0 .. MaxBytes], nextMsg' \in ByteSeq,
           Len(nextMsg') <= BufSize,
           RestIsLast'
    PROVE  GrpcIInv'
<1> USE GrpcConstants DEF GrpcIInv, G!readReturns
<1>1. /\ holders' = holders \ {<<"read", k>>}
      /\ readers'[k] = state
      /\ \A j \in G!Conns \ {k} : readers'[j] = readers[j]
      /\ readers' \in [G!Conns -> {"none", "idle", "reading", "end"}]
      /\ given'[k] = bytes
      /\ \A j \in G!Conns \ {k} : given'[j] = given[j]
      /\ given' \in [G!Conns -> ByteSeq]
      /\ UNCHANGED <<ProxyConn, closed, writer, dialer, sender, closer>>
    BY DEF GrpcTypes
<1>2. GrpcTypes'
    BY <1>1 DEF GrpcTypes
<1>3. Locked'
  <2>1. \A j : (reads(j)' <=> reads(j) /\ j # k) /\ (closes(j)' <=> closes(j))
      BY <1>1, ReadLock, Zenon
  <2>2. readers'[k] # "reading" /\ (writer = "holds" => holders' = {})
      BY <1>1 DEF Locked
  <2> QED
      BY <1>1, <2>1, <2>2 DEF Locked
<1>4. OneByOne'
  <2>1. ~ahead(k)
      BY DEF OneByOne
  <2>2. \A j \in G!Conns : ahead(j)' => ahead(j)
      BY <1>1 DEF ahead
  <2>3. \A j \in G!Conns : ahead(j)' =>
            readers'[j] = "none" /\ closer'[j] = "none" /\ j \notin closed'
      BY <1>1, <2>1, <2>2 DEF OneByOne
  <2> QED
      BY <1>1, <2>3 DEF OneByOne
<1>5. RestKept'
    BY <1>1 DEF RestKept
<1> QED
    BY <1>2, <1>3, <1>4, <1>5

\* Read gives the rest of the last message.
LEMMA ReadRestKeeps ==
    ASSUME GrpcIInv, NEW k \in G!Conns, G!readRest(k) PROVE GrpcIInv'
<1>0. RestIsLast'
    BY DEF G!readRest, RestIsLast
<1>1. /\ readers[k] = "reading" /\ G!readReturns(k, nextMsg, "idle")
      /\ nextMsg' = <<>> /\ taken' = taken
      /\ Len(nextMsg') <= BufSize /\ nextMsg' \in ByteSeq
    BY GrpcConstants DEF G!readRest, ByteSeq
<1>2. /\ nextMsg \in ByteSeq /\ Len(nextMsg) <= BufSize
      /\ taken \in [G!Conns -> 0 .. MaxBytes]
    BY DEF GrpcIInv, GrpcTypes, RestKept
<1> QED
    BY <1>0, <1>1, <1>2, ReadReturnsKeeps

\* A reader has a connection to read from.
LEMMA ReadsCurrent ==
    ASSUME GrpcIInv, NEW k \in G!Conns, readers[k] = "reading"
    PROVE  ProxyConn \in G!Conns
<1> USE GrpcConstants DEF GrpcIInv
<1>1. ~ahead(k) /\ dialer.k \in 0 .. MaxConns /\ dialer.at \in {"dial", "lock"}
    BY DEF GrpcTypes, OneByOne
<1>2. ProxyConn = dialer.k \/ (dialer.at = "lock" /\ ProxyConn = dialer.k - 1)
    BY <1>1 DEF OneByOne
<1> QED
    BY <1>1, <1>2 DEF ahead, GrpcTypes

\* The bytes of connection c up to t, in two parts that fit in a buffer.
inTwo(a, b, c, t) ==
    /\ a \in ByteSeq /\ b \in ByteSeq
    /\ Len(a) <= BufSize /\ Len(b) <= BufSize /\ a # <<>>
    /\ upTo(a, c, t - Len(b)) /\ upTo(b, c, t)

\* split loses nothing: what is given now and what is kept, one after the other,
\* are the message, and both fit in a buffer.
LEMMA SplitsWhole ==
    ASSUME NEW c \in G!Conns, NEW n \in G!Lengths, NEW t \in Nat,
           NEW m \in ByteSeq, Len(m) = n, upTo(m, c, t)
    PROVE  inTwo(G!split(m)[1], G!split(m)[2], c, t)
<1>0. BufSize \in Nat /\ BufSize > 0
    BY GrpcConstants
<1>1. n \in Nat /\ n > 0 /\ n <= 2 * BufSize - 1
    BY <1>0 DEF G!Lengths
<1>3. CASE n <= BufSize
  <2> DEFINE a == m
             b == <<>>
  <2>1. ~(Len(m) > BufSize)
      BY <1>0, <1>1, <1>3
  <2>2. G!split(m)[1] = a /\ G!split(m)[2] = b
      BY <2>1 DEF G!split
  <2>3. b \in ByteSeq /\ Len(b) = 0 /\ a # <<>>
      BY <1>1 DEF ByteSeq
  <2>4. Len(a) = n /\ n + 0 = n /\ n <= BufSize /\ 0 <= BufSize
      BY <1>0, <1>1, <1>3
  <2>5. t - Len(b) = t
      BY <2>3
  <2>6. upTo(a, c, t - Len(b)) /\ upTo(b, c, t)
      BY <2>3, <2>5 DEF upTo
  <2>7. inTwo(a, b, c, t)
      BY <2>3, <2>4, <2>6 DEF inTwo
  <2> QED
      BY <2>2, <2>7
<1>4. CASE n > BufSize
  <2> DEFINE a == SubSeq(m, 1, BufSize)
             b == SubSeq(m, BufSize + 1, n)
  <2>1. Len(m) > BufSize
      BY <1>4
  <2>2. G!split(m)[1] = a /\ G!split(m)[2] = b
      BY <2>1, Zenon DEF G!split
  <2>3. /\ a \in ByteSeq /\ Len(a) = BufSize
        /\ \A i \in 1 .. BufSize : a[i] = m[i]
      BY <1>0, <1>1, <1>4 DEF ByteSeq
  <2>4. /\ b \in ByteSeq /\ Len(b) = n - BufSize
        /\ \A i \in 1 .. n - BufSize : b[i] = m[BufSize + i]
      BY <1>0, <1>1, <1>4 DEF ByteSeq
  <2> HIDE DEF a, b
  <2>l. Len(a) = BufSize /\ Len(b) = n - BufSize
      BY <2>3, <2>4
  <2>5. upTo(a, c, t - Len(b))
    <3> SUFFICES ASSUME NEW i \in 1 .. BufSize
                 PROVE  a[i] = byteOf(c, t - Len(b) - Len(a) + i)
        BY <2>l DEF upTo
    <3>1. i \in 1 .. n /\ t - Len(b) - Len(a) + i = t - n + i
        BY <1>0, <1>1, <1>4, <2>l
    <3>2. m[i] = byteOf(c, t - n + i)
        BY <3>1 DEF upTo
    <3> QED
        BY <2>3, <3>1, <3>2
  <2>6. upTo(b, c, t)
    <3> SUFFICES ASSUME NEW i \in 1 .. n - BufSize
                 PROVE  b[i] = byteOf(c, t - Len(b) + i)
        BY <2>l DEF upTo
    <3>1. BufSize + i \in 1 .. n /\ t - n + (BufSize + i) = t - Len(b) + i
        BY <1>0, <1>1, <1>4, <2>l
    <3>2. m[BufSize + i] = byteOf(c, t - n + (BufSize + i))
        BY <3>1 DEF upTo
    <3> QED
        BY <2>4, <3>1, <3>2
  <2>7. Len(a) <= BufSize /\ Len(b) <= BufSize
      BY <1>0, <1>1, <1>4, <2>l
  <2>8. a # <<>>
      BY <1>0, <2>3
  <2>9. inTwo(a, b, c, t)
      BY <2>3, <2>4, <2>5, <2>6, <2>7, <2>8 DEF inTwo
  <2> QED
      BY <2>2, <2>9
<1>5. n <= BufSize \/ n > BufSize
    BY <1>0, <1>1
<1> QED
    BY <1>3, <1>4, <1>5

\* What Read does with a message.
LEMMA ReadsMessage ==
    ASSUME GrpcIInv, NEW k \in G!Conns, G!readMessage(k)
    PROVE  \E first \in ByteSeq :
               /\ ProxyConn \in G!Conns /\ nextMsg = <<>> /\ readers[k] = "reading"
               /\ taken' \in [G!Conns -> 0 .. MaxBytes]
               /\ G!readReturns(k, first, "idle")
               /\ first # <<>> /\ Len(first) <= BufSize
               /\ nextMsg' \in ByteSeq /\ Len(nextMsg') <= BufSize
               /\ upTo(first, ProxyConn, taken'[ProxyConn] - Len(nextMsg'))
               /\ upTo(nextMsg, ProxyConn, taken[ProxyConn])'
<1>1. readers[k] = "reading" /\ nextMsg = <<>>
    BY DEF G!readMessage
<1>2. ProxyConn \in G!Conns
    BY <1>1, ReadsCurrent
<1>3. taken \in [G!Conns -> 0 .. MaxBytes] /\ taken[ProxyConn] \in Nat /\ MaxBytes \in Nat
    BY <1>2, GrpcConstants DEF GrpcIInv, GrpcTypes
<1> DEFINE whole(n) == [i \in 1 .. n |-> <<ProxyConn, taken[ProxyConn] + i>>]
<1>4. PICK n \in G!Lengths :
          /\ taken[ProxyConn] + n <= MaxBytes
          /\ taken' = [taken EXCEPT ![ProxyConn] = @ + n]
          /\ nextMsg' = G!split(whole(n))[2]
          /\ G!readReturns(k, G!split(whole(n))[1], "idle")
    BY Zenon DEF G!readMessage
<1>5. n \in Nat
    BY GrpcConstants DEF G!Lengths
<1> DEFINE t == taken[ProxyConn] + n
<1>6. /\ taken' \in [G!Conns -> 0 .. MaxBytes]
      /\ taken'[ProxyConn] = t /\ t \in Nat
    BY <1>2, <1>3, <1>4, <1>5
<1>7. whole(n) \in ByteSeq /\ Len(whole(n)) = n
    BY <1>2, <1>3, <1>5 DEF ByteSeq
<1>8. upTo(whole(n), ProxyConn, t)
  <2> SUFFICES ASSUME NEW i \in 1 .. n
               PROVE  whole(n)[i] = byteOf(ProxyConn, t - n + i)
      BY <1>7, Zenon DEF upTo
  <2>1. taken[ProxyConn] + i = t - n + i
      BY <1>3, <1>5
  <2>2. whole(n)[i] = byteOf(ProxyConn, taken[ProxyConn] + i)
      BY DEF byteOf
  <2> QED
      BY <2>1, <2>2
<1> DEFINE m == whole(n)
<1> HIDE DEF whole, t
<1>9. m \in ByteSeq /\ Len(m) = n /\ upTo(m, ProxyConn, t)
    BY <1>7, <1>8
<1>t. t \in Nat
    BY <1>6
<1> HIDE DEF m
<1> DEFINE a == G!split(m)[1]
           b == G!split(m)[2]
<1>10. inTwo(a, b, ProxyConn, t)
    BY <1>2, <1>t, <1>9, SplitsWhole
<1>11. nextMsg' = b /\ G!readReturns(k, a, "idle")
    BY <1>4 DEF m
<1> HIDE DEF a, b
<1>12. ProxyConn' = ProxyConn
    BY <1>11 DEF G!readReturns
<1>13. upTo(nextMsg, ProxyConn, taken[ProxyConn])'
    BY <1>6, <1>10, <1>11, <1>12 DEF upTo, inTwo
<1>14. upTo(a, ProxyConn, taken'[ProxyConn] - Len(nextMsg'))
    BY <1>6, <1>10, <1>11 DEF inTwo
<1>15. /\ a \in ByteSeq /\ a # <<>> /\ Len(a) <= BufSize
       /\ nextMsg' \in ByteSeq /\ Len(nextMsg') <= BufSize
    BY <1>10, <1>11 DEF inTwo
<1> QED
    BY <1>1, <1>2, <1>6, <1>11, <1>13, <1>14, <1>15

\* Read gives a message, or its first bytes, and keeps the rest.
LEMMA ReadMessageKeeps ==
    ASSUME GrpcIInv, NEW k \in G!Conns, G!readMessage(k) PROVE GrpcIInv'
<1>1. PICK first \in ByteSeq :
          /\ ProxyConn \in G!Conns /\ readers[k] = "reading"
          /\ taken' \in [G!Conns -> 0 .. MaxBytes]
          /\ G!readReturns(k, first, "idle")
          /\ Len(first) <= BufSize
          /\ nextMsg' \in ByteSeq /\ Len(nextMsg') <= BufSize
          /\ upTo(nextMsg, ProxyConn, taken[ProxyConn])'
    BY ReadsMessage
<1>2. RestIsLast'
  <2>1. ProxyConn' = ProxyConn
      BY <1>1 DEF G!readReturns
  <2> QED
      BY <1>1, <2>1 DEF upTo, RestIsLast
<1> QED
    BY <1>1, <1>2, ReadReturnsKeeps

\* Read fails, because the connection is closed.
LEMMA ReadFailsKeeps ==
    ASSUME GrpcIInv, NEW k \in G!Conns, G!readFails(k) PROVE GrpcIInv'
<1>1. /\ readers[k] = "reading" /\ G!readReturns(k, <<>>, "end")
      /\ nextMsg' = nextMsg /\ taken' = taken
    BY DEF G!readFails
<1>2. /\ nextMsg' \in ByteSeq /\ Len(nextMsg') <= BufSize
      /\ taken' \in [G!Conns -> 0 .. MaxBytes]
    BY <1>1 DEF GrpcIInv, GrpcTypes, RestKept
<1>3. <<>> \in ByteSeq /\ Len(<<>>) <= BufSize
    BY GrpcConstants DEF ByteSeq
<1>4. RestIsLast'
    BY <1>1 DEF GrpcIInv, RestKept, RestIsLast, upTo
<1> QED
    BY <1>1, <1>2, <1>3, <1>4, ReadReturnsKeeps

\* Write locks and unlocks.
LEMMA WriteKeeps ==
    ASSUME GrpcIInv, NEW k \in G!Conns, G!writeLocks(k) \/ G!Write(k) PROVE GrpcIInv'
<1> USE GrpcConstants DEF GrpcIInv, G!writeLocks, G!Write
<1>0. \A j : (reads(j)' <=> reads(j)) /\ (closes(j)' <=> closes(j))
  <2>1. \/ holders' = holders \cup {<<"write", k>>}
        \/ holders' = holders \ {<<"write", k>>}
      OBVIOUS
  <2> QED
      BY <2>1, WriteLock, Zenon
<1>1. /\ DOMAIN sender' = DOMAIN sender
      /\ UNCHANGED <<ProxyConn, closed, taken, nextMsg, writer, dialer, readers,
                     closer, given>>
    OBVIOUS
<1>2. writer = "holds" => holders' = {}
    BY DEF Locked
<1>3. GrpcTypes'
    BY <1>1 DEF GrpcTypes
<1>4. Locked'
    BY <1>0, <1>1, <1>2 DEF Locked
<1>5. OneByOne'
    BY <1>1 DEF OneByOne, ahead
<1>6. RestKept'
    BY <1>1 DEF RestKept, RestIsLast, upTo
<1> QED
    BY <1>3, <1>4, <1>5, <1>6

\* Close locks, for the current connection.
LEMMA CloseLocksKeeps ==
    ASSUME GrpcIInv, NEW k \in G!Conns, G!closeLocks(k) PROVE GrpcIInv'
<1> USE GrpcConstants DEF GrpcIInv, G!closeLocks
<1>1. /\ closer[k] = "open" /\ writer = "none" /\ writer' = "none"
      /\ holders' = holders \cup {<<"close", k>>}
      /\ closer'[k] = "closing"
      /\ \A j \in G!Conns \ {k} : closer'[j] = closer[j]
      /\ closer' \in [G!Conns -> {"none", "open", "closing", "end"}]
    BY DEF GrpcTypes
<1>2. k \notin closed /\ ~ahead(k) /\ dialer.k \in Nat /\ k \in Nat
    BY <1>1 DEF OneByOne, GrpcTypes
<1>3. k = dialer.k /\ dialer.at = "dial"
    BY <1>2 DEF OneByOne, ahead, GrpcTypes
<1>4. GrpcTypes'
    BY <1>1 DEF GrpcTypes
<1>5. Locked'
  <2>1. \A j : (reads(j)' <=> reads(j)) /\ (closes(j)' <=> closes(j) \/ j = k)
      BY <1>1, CloseLock, Zenon
  <2> QED
      BY <1>1, <2>1 DEF Locked
<1>6. OneByOne'
    BY <1>1, <1>2, <1>3 DEF OneByOne, ahead
<1>7. RestKept'
    BY DEF RestKept, RestIsLast, upTo
<1> QED
    BY <1>4, <1>5, <1>6, <1>7

\* Close closes the current connection, which is its own.
LEMMA CloseKeeps ==
    ASSUME GrpcIInv, NEW k \in G!Conns, G!Close(k) PROVE GrpcIInv'
<1> USE GrpcConstants DEF GrpcIInv, G!Close
<1>1. /\ closer[k] = "closing" /\ ProxyConn = k /\ closed' = closed \cup {k}
      /\ holders' = holders \ {<<"close", k>>}
      /\ closer'[k] = "end"
      /\ \A j \in G!Conns \ {k} : closer'[j] = closer[j]
      /\ closer' \in [G!Conns -> {"none", "open", "closing", "end"}]
    BY DEF GrpcTypes, OneByOne
<1>2. ~ahead(k)
    BY <1>1 DEF OneByOne
<1>3. GrpcTypes'
    BY <1>1 DEF GrpcTypes
<1>4. Locked'
  <2>1. \A j : (reads(j)' <=> reads(j)) /\ (closes(j)' <=> closes(j) /\ j # k)
      BY <1>1, CloseLock, Zenon
  <2>2. writer = "holds" => holders' = {}
      BY <1>1 DEF Locked
  <2> QED
      BY <1>1, <2>1, <2>2 DEF Locked
<1>5. OneByOne'
    BY <1>1, <1>2 DEF OneByOne, ahead
<1>6. RestKept'
    BY DEF RestKept, RestIsLast, upTo
<1> QED
    BY <1>3, <1>4, <1>5, <1>6

\* Every thread keeps the invariant.
LEMMA GrpcSteps == GrpcIInv /\ [G!Next]_(G!vars) => GrpcIInv'
<1> SUFFICES ASSUME GrpcIInv, [G!Next]_(G!vars) PROVE GrpcIInv'
    OBVIOUS
<1>1. CASE UNCHANGED G!vars
  <2>1. GrpcTypes' /\ Locked'
      BY <1>1, SameLocks DEF G!vars, GrpcIInv, GrpcTypes, Locked
  <2>2. OneByOne'
      BY <1>1 DEF G!vars, GrpcIInv, OneByOne, ahead
  <2>3. RestKept'
      BY <1>1 DEF G!vars, GrpcIInv, RestKept, RestIsLast, upTo
  <2> QED
      BY <2>1, <2>2, <2>3 DEF GrpcIInv
<1>2. CASE \/ G!Dial \/ G!handshakeWaits \/ G!handshakeLocks
           \/ G!ClientHandshake \/ G!handshakeFails
    BY <1>2, DialKeeps, HandshakeLocksKeeps, HandshakeEndsKeeps
<1>3. ASSUME NEW k \in G!Conns,
             \/ G!readerStep(k) \/ G!writeLocks(k) \/ G!Write(k)
             \/ G!closeLocks(k) \/ G!Close(k)
      PROVE  GrpcIInv'
    BY <1>3, ReadLocksKeeps, ReadRestKeeps, ReadMessageKeeps, ReadFailsKeeps, WriteKeeps,
       CloseLocksKeeps, CloseKeeps DEF G!readerStep
<1> QED
    BY <1>1, <1>2, <1>3 DEF G!Next

\* A step of the Noise layer is one of the gRPC connection or leaves it alone.
LEMMA GrpcStep == [MCNext]_mcVars => [G!Next]_(G!vars)
BY DEF MCNext, Transport, Grpc, mcVars, grpcVars, G!vars

\* NoiseGrpcConn: its mutexes exclude each other, Read gives no more than fits the
\* caller's buffer, and a transport closes no connection but its own, for any
\* number of connections and threads.
THEOREM GrpcCorrect == MCSpec => []GrpcInv
<1>1. MCInit => GrpcIInv
    BY GrpcStarts DEF MCInit
<1>2. GrpcIInv => GrpcInv
  <2> SUFFICES ASSUME GrpcIInv PROVE G!GrpcInv
      BY DEF GrpcInv
  <2>1. \A k \in G!Conns : (<<"read", k>> \in holders) = (readers[k] = "reading")
    <3> SUFFICES ASSUME NEW k \in G!Conns
                 PROVE  (<<"read", k>> \in holders) = (readers[k] = "reading")
        BY Zenon
    <3>1. <<"read", k>> \in holders <=> readers[k] = "reading"
        BY DEF GrpcIInv, Locked, reads
    <3> QED
        BY <3>1
  <2>2. \A k \in G!Conns : taken[k] \in 0 .. MaxBytes
      BY Zenon DEF GrpcIInv, GrpcTypes
  <2>3. G!TypeOK
      BY <2>1, <2>2 DEF GrpcIInv, GrpcTypes, Locked, reads, G!TypeOK
  <2>4. G!ReadFits /\ G!ClosesOwn
      BY Zenon DEF GrpcIInv, RestKept, OneByOne, G!ReadFits, G!ClosesOwn
  <2> QED
      BY <2>3, <2>4 DEF G!GrpcInv
<1> QED
    BY <1>1, <1>2, GrpcSteps, GrpcStep, PTL DEF MCSpec

\* readRest gives what was kept, to reader k and nobody else.
LEMMA RestIsNext ==
    ASSUME GrpcIInv, NEW k \in G!Conns, G!readRest(k) PROVE G!GivesNextBytes
<1>1. /\ nextMsg # <<>> /\ nextMsg' = <<>> /\ taken' = taken
      /\ given'[k] = nextMsg /\ \A j \in G!Conns \ {k} : given'[j] = given[j]
      /\ nextMsg \in ByteSeq
    BY Zenon DEF G!readRest, G!readReturns, GrpcIInv, GrpcTypes
<1>2. PICK c \in G!Conns : upTo(nextMsg, c, taken[c])
    BY <1>1 DEF GrpcIInv, RestKept, RestIsLast
<1>3. /\ nextMsg \o <<>> = nextMsg
      /\ 1 \in 1 .. Len(nextMsg)
    BY <1>1 DEF ByteSeq
<1>4. nextMsg[1] = byteOf(c, taken[c] - Len(nextMsg) + 1)
    BY <1>2, <1>3 DEF upTo
<1>5. /\ nextMsg[1][1] = c
      /\ \A i \in 1 .. Len(nextMsg) : nextMsg[i] = <<c, taken[c] - Len(nextMsg) + i>>
    BY <1>2, <1>4 DEF upTo, byteOf
<1>6. continues(nextMsg \o <<>>, c, taken[c])
    BY <1>2, <1>3, <1>5, Zenon DEF continues
<1>7. given'[k] \o nextMsg' = nextMsg \o <<>> /\ taken'[c] = taken[c]
    BY <1>1, Zenon
<1>8. continues(given'[k] \o nextMsg', c, taken'[c])
    BY <1>6, <1>7, Zenon
<1> QED
    BY <1>1, <1>8, Zenon DEF G!GivesNextBytes, continues

\* readMessage gives the first bytes of the message, and keeps those after them.
LEMMA MessageIsNext ==
    ASSUME GrpcIInv, NEW k \in G!Conns, G!readMessage(k) PROVE G!GivesNextBytes
<1>1. PICK first \in ByteSeq :
          /\ ProxyConn \in G!Conns /\ nextMsg = <<>>
          /\ taken' \in [G!Conns -> 0 .. MaxBytes]
          /\ G!readReturns(k, first, "idle") /\ first # <<>>
          /\ nextMsg' \in ByteSeq
          /\ upTo(first, ProxyConn, taken'[ProxyConn] - Len(nextMsg'))
          /\ upTo(nextMsg, ProxyConn, taken[ProxyConn])'
    BY ReadsMessage
<1> DEFINE t == taken'[ProxyConn]
           rest == nextMsg'
<1>2. t \in Nat /\ ProxyConn' = ProxyConn
    BY <1>1, GrpcConstants DEF G!readReturns
<1>3. /\ rest \in ByteSeq
      /\ upTo(first, ProxyConn, t - Len(rest)) /\ upTo(rest, ProxyConn, t)
    BY <1>1, <1>2 DEF upTo
<1>4. t = taken'[ProxyConn] /\ rest = nextMsg' /\ ProxyConn \in G!Conns /\ first # <<>>
    BY <1>1
<1> HIDE DEF t, rest
<1>5. continues(first \o rest, ProxyConn, t)
    BY <1>2, <1>3, <1>4, LastOfBoth
<1>6. given'[k] = first /\ \A j \in G!Conns \ {k} : given'[j] = given[j]
    BY <1>1 DEF G!readReturns, GrpcIInv, GrpcTypes
<1>7. ~(Len(nextMsg) > 0)
    BY <1>1
<1> QED
    BY <1>4, <1>5, <1>6, <1>7, Zenon DEF G!GivesNextBytes, continues

\* NoiseGrpcConn.Read: whoever reads, the bytes of a connection come in order, none
\* is left out and none repeated, also across the two parts of a long message.
THEOREM BytesAreInOrder == MCSpec => BytesInOrder
<1>1. MCInit => GrpcIInv
    BY GrpcStarts DEF MCInit
<1>2. GrpcIInv /\ [G!Next]_(G!vars) => [G!GivesNextBytes]_(G!vars)
  <2> SUFFICES ASSUME GrpcIInv, G!Next PROVE G!GivesNextBytes
      OBVIOUS
  <2>1. CASE given' = given
      BY <2>1 DEF G!GivesNextBytes
  <2>2. ASSUME NEW k \in G!Conns, G!readFails(k) PROVE G!GivesNextBytes
    <3>1. given' = [given EXCEPT ![k] = <<>>] /\ DOMAIN given = G!Conns
        BY <2>2 DEF G!readFails, G!readReturns, GrpcIInv, GrpcTypes
    <3> QED
        BY <3>1 DEF G!GivesNextBytes
  <2> QED
      BY <2>1, <2>2, RestIsNext, MessageIsNext
      DEF G!Next, G!readerStep, G!Dial, G!handshakeWaits, G!handshakeLocks,
          G!ClientHandshake, G!handshakeFails, G!readLocks, G!writeLocks, G!Write,
          G!closeLocks, G!Close
<1> QED
    BY <1>1, <1>2, GrpcSteps, GrpcStep, PTL DEF MCSpec, BytesInOrder, G!BytesInOrder

-----------------------------------------------------------------------------
(***************************************************************************)
(* What ReadMessage delivers.                                              *)
(***************************************************************************)

\* Steps with and without read deadlines.
LEMMA StepsReceive == [Next]_vars \/ [D!Next]_vars => Receives
<1> SUFFICES ASSUME [Next]_vars \/ [D!Next]_vars PROVE Receives
    OBVIOUS
<1>1. \A c : D!advance(c) = advance(c)
    BY DEF D!advance, D!rotateKey, advance, rotateKey
<1>2. CASE UNCHANGED vars
    BY <1>2 DEF Receives, vars, recvVars
<1>3. CASE ReadHeader \/ ReadBody
    BY <1>3 DEF Receives, ReadHeader, ReadBody
<1>4. CASE D!ReadHeader \/ D!ReadBody
    BY <1>1, <1>4, Zenon DEF Receives, D!ReadHeader, D!ReadBody
<1>5. CASE Next /\ ~(ReadHeader \/ ReadBody)
    BY <1>5, Zenon DEF Receives, Next, WriteStep, ReadStep, Write, WriteNext, Flush, Read,
                ReadTimeout, recvVars
<1>6. CASE D!Next /\ ~(D!ReadHeader \/ D!ReadBody)
    BY <1>6 DEF Receives, D!Next, D!WriteStep, D!ReadStep, D!Write, D!WriteNext,
                D!Flush, D!Read, D!ReadTimeout, D!recvVars
<1> QED
    BY <1>2, <1>3, <1>4, <1>5, <1>6

\* ReadMessage: bodies are delivered in the order they were sealed, each once,
\* also when reads time out; and without read deadlines every ciphertext opens.
THEOREM DeliveredIsRight == ASSUME ~ReadTimeouts PROVE MCSpec => []DeliveredRight
<1> DEFINE Inv == InOrder /\ (part = "transport" => IInv /\ InStep)
<1>1. MCInit => Inv
  <2> SUFFICES ASSUME MCInit PROVE Inv
      OBVIOUS
  <2>1. Init
      BY Zenon DEF MCInit
  <2>2. InOrder
      BY <2>1 DEF Init, InOrder, Fresh, CipherState, DeliveredOrdered
  <2> QED
      BY <2>1, <2>2, InitIInv, StartsInStep
<1>2. Inv /\ [MCNext]_mcVars => Inv'
  <2> SUFFICES ASSUME Inv, [MCNext]_mcVars PROVE Inv'
      OBVIOUS
  <2>1. [Next]_vars \/ [D!Next]_vars
      BY DEF MCNext, Transport, Grpc, mcVars
  <2>2. InOrder'
      BY <2>1, StepsReceive, ReceivesInOrder
  <2>3. part' = "transport" => part = "transport" /\ [Next]_vars
      BY DEF MCNext, Transport, Grpc, mcVars
  <2> QED
      BY <2>2, <2>3, NextIInv, StepsInStep
<1>3. Inv => DeliveredRight
    BY DEF InOrder, InStep, DeliveredRight, NothingFails
<1> QED
    BY <1>1, <1>2, <1>3, PTL DEF MCSpec

=============================================================================
