---------------------------- MODULE TimersProofs ----------------------------
(***************************************************************************)
(* Proofs about what a GoBackNConn does by time: Syncer, for every window  *)
(* size, any number of resends and any number of proceedAfterTime          *)
(* goroutines; Keepalive and TimeoutManager, for every window size, load   *)
(* and timing.                                                             *)
(***************************************************************************)
EXTENDS MCTimers, Sequences, TLAPS

\* s is a positive number.
LEMMA SFact == s \in Nat \ {0} /\ s = N + 1 /\ N \in Nat /\ N >= 1
BY NAssumption DEF s

\* Resends are counted by natural numbers.
LEMMA RoundsAreNat == \A r \in 0..MaxRounds : r \in Nat
BY SyncerAssumption

\* Division with remainder.
LEMMA DivMod ==
    ASSUME NEW m \in Nat \ {0}, NEW x \in Nat
    PROVE  /\ \E q \in Nat : x = m * q + (x % m)
           /\ (x % m) \in 0..(m - 1)
<1>1. x \div m \in Nat /\ (x % m) \in 0..(m - 1) /\ x = m * (x \div m) + (x % m)
  OBVIOUS
<1> QED BY <1>1, Zenon

\* A nonzero multiple of m is at least m.
LEMMA MultipleAtLeast ==
    ASSUME NEW m \in Nat \ {0}, NEW a \in Int, a >= 1
    PROVE  m * a >= m
OBVIOUS

\* Adding the modulus changes nothing, as in the window's s + top - 1.
LEMMA ModWraps ==
    ASSUME NEW m \in Nat \ {0}, NEW r \in 0..(m - 1)
    PROVE  (m + r) % m = r
<1> DEFINE u == (m + r) % m
<1>1. m + r \in Nat OBVIOUS
<1>2. u \in 0..(m - 1) BY <1>1, DivMod, Zenon
<1>3. PICK q \in Nat : m + r = m * q + u BY <1>1, DivMod, Zenon
<1> HIDE DEF u
<1>4. CASE q >= 2
  <2>1. q - 1 \in Int /\ q - 1 >= 1 BY <1>4
  <2>2. m * (q - 1) >= m BY <2>1, MultipleAtLeast
  <2>3. m * q = m * (q - 1) + m OBVIOUS
  <2> QED BY <1>2, <1>3, <2>2, <2>3
<1>5. CASE q = 0
  BY <1>2, <1>3, <1>5
<1>6. CASE q = 1
  BY <1>2, <1>3, <1>6 DEF u
<1> QED BY <1>4, <1>5, <1>6

\* size() of any two sequence numbers is at most n.
LEMMA SizeRange ==
    ASSUME NEW b \in Seqs, NEW t \in Seqs
    PROVE  /\ size(b, t) \in 0..N
           /\ b # t => size(b, t) > 0
           /\ b = t => size(b, t) = 0
BY SFact DEF size, Seqs

-----------------------------------------------------------------------------
(***************************************************************************)
(* The timeout manager, with a window of TimedN packets.                   *)
(***************************************************************************)
Entries == [packet : T!Packets, resent : BOOLEAN]

\* The send goroutine and its window: packets are written in order, a packet
\* that is sent for the first time is the newest one and is alone in todo, and a
\* packet that was transmitted twice has no sent time unless it is in todo.
LinkInv ==
    /\ writes \in [T!Packets \cup {-1} -> Nat]
    /\ base \in Nat /\ top \in Nat
    /\ base <= top /\ top <= MaxPackets /\ top - base <= TimedN
    /\ todo \in Seq(Entries) /\ wrote \in BOOLEAN
    /\ wrote => todo # <<>>
    /\ \A e \in 1 .. Len(todo) : todo[e].packet < top
    /\ \A e \in 1 .. Len(todo) : ~todo[e].resent =>
           /\ Len(todo) = 1 /\ todo[e].packet = top - 1
           /\ writes[top - 1] <= 1 /\ (~wrote => writes[top - 1] = 0)
    /\ \A p \in T!Packets : p >= top => writes[p] = 0
    /\ DOMAIN sentTimes \subseteq 0 .. TimedN
    /\ \A p \in base .. top - 1 :
           writes[p] > 1 /\ (\A e \in 1 .. Len(todo) : todo[e].packet # p)
           => T!seqOf(p) \notin DOMAIN sentTimes

\* The constants of the timeout manager, one by one.
LEMMA TimeoutConstants ==
    /\ TimedN \in Nat /\ TimedN >= 1 /\ MaxPackets \in Nat /\ MaxWrites \in Nat
    /\ MaxTime \in Nat /\ MaxTime >= 1
    /\ resendMultiplier \in Nat /\ boostPercent \in Nat /\ pongMultiplier \in Nat
    /\ timeoutUpdateFrequency \in Nat /\ timeoutUpdateFrequency >= 1
    /\ defaultResendTimeout \in Nat /\ defaultResendTimeout >= 1
    /\ minimumResendTimeout \in Nat /\ minimumResendTimeout >= 1
    /\ pingTime \in Nat /\ pongTime \in Nat /\ pongTime <= pingTime
    /\ maxPongTime \in Nat
BY TimeoutAssumption

\* Packets of one window have different sequence numbers.
LEMMA WindowSeqsDiffer ==
    ASSUME NEW m \in Nat \ {0}, NEW p \in Nat, NEW q \in Nat, p < q, q - p < m
    PROVE  p % m # q % m
<1> SUFFICES ASSUME p % m = q % m PROVE FALSE
  OBVIOUS
<1>1. PICK a \in Nat : p = m * a + (p % m) BY DivMod, Zenon
<1>2. PICK b \in Nat : q = m * b + (q % m) BY DivMod, Zenon
<1>3. (p % m) \in Int BY DivMod
<1>4. q - p = m * (b - a) BY <1>1, <1>2, <1>3
<1>5. CASE b - a >= 1
  <2>1. m * (b - a) >= m BY <1>5, MultipleAtLeast
  <2> QED BY <1>4, <2>1
<1>6. CASE b - a <= 0
  <2>1. m * (b - a) <= 0 BY <1>6
  <2> QED BY <1>4, <2>1
<1> QED BY <1>5, <1>6

\* A sequence number of the window is in range.
LEMMA SeqOfInRange ==
    ASSUME NEW p \in Nat
    PROVE  T!seqOf(p) \in 0 .. TimedN
<1>1. TimedN + 1 \in Nat \ {0} BY TimeoutConstants
<1> QED BY <1>1, DivMod, TimeoutConstants DEF T!seqOf, T!s

\* What is left of a sequence of entries.
LEMMA TailEntries ==
    ASSUME NEW t \in Seq(Entries), t # <<>>
    PROVE  /\ Head(t) \in Entries /\ Head(t) = t[1] /\ 1 \in 1 .. Len(t)
           /\ Tail(t) \in Seq(Entries) /\ Len(Tail(t)) = Len(t) - 1
           /\ \A e \in 1 .. Len(Tail(t)) : e + 1 \in 1 .. Len(t) /\ Tail(t)[e] = t[e + 1]
OBVIOUS

\* The window starts in the invariant.
LEMMA LinkInit == T!Init => LinkInv
<1> SUFFICES ASSUME T!Init PROVE LinkInv
  OBVIOUS
<1>1. writes \in [T!Packets \cup {-1} -> Nat] /\ \A p \in T!Packets : writes[p] = 0
  BY DEF T!Init, T!SYN
<1>2. /\ base = 0 /\ top = 0 /\ todo = <<>> /\ wrote = FALSE /\ DOMAIN sentTimes = {}
      /\ Len(todo) = 0
  BY DEF T!Init
<1>3. wrote \in BOOLEAN /\ ~wrote BY <1>2, Zenon
<1> QED BY <1>1, <1>2, <1>3, TimeoutConstants DEF LinkInv

\* Every step keeps the window as the invariant describes it.
LEMMA LinkNext == LinkInv /\ [T!Next]_(T!vars) => LinkInv'
<1> SUFFICES ASSUME LinkInv, [T!Next]_(T!vars) PROVE LinkInv'
  OBVIOUS
<1>0. /\ TimedN \in Nat /\ TimedN >= 1 /\ MaxPackets \in Nat
      /\ T!Packets = 0 .. MaxPackets - 1
  BY TimeoutConstants DEF T!Packets
<1>1. ASSUME UNCHANGED <<base, top, todo, wrote, writes>>,
             DOMAIN sentTimes' \subseteq DOMAIN sentTimes
      PROVE  LinkInv'
  BY <1>1 DEF LinkInv
<1>2. ASSUME UNCHANGED <<top, todo, wrote, writes>>,
             DOMAIN sentTimes' \subseteq DOMAIN sentTimes,
             base' \in Nat, base <= base', base' <= top
      PROVE  LinkInv'
  <2>1. \A p \in base' .. top' - 1 : p \in base .. top - 1 BY <1>2 DEF LinkInv
  <2>2. top' - base' <= TimedN BY <1>0, <1>2 DEF LinkInv
  <2> QED BY <1>2, <2>1, <2>2 DEF LinkInv
<1>3. CASE T!sendSYN
  <2>1. UNCHANGED <<base, top, todo, wrote, sentTimes>> /\ writes' = [writes EXCEPT ![-1] = @ + 1]
    BY <1>3 DEF T!sendSYN, T!written, T!SYN
  <2>2. \A p \in T!Packets : p # -1 BY <1>0
  <2>3. /\ writes' \in [T!Packets \cup {-1} -> Nat]
        /\ \A p \in T!Packets : writes'[p] = writes[p]
    BY <2>1, <2>2 DEF LinkInv
  <2>4. \A p \in base .. top - 1 : p \in T!Packets BY <1>0 DEF LinkInv
  <2>5. \A e \in 1 .. Len(todo) : todo[e].packet \in T!Packets
    <3>1. \A e \in 1 .. Len(todo) : todo[e] \in Entries BY DEF LinkInv
    <3> QED BY <3>1 DEF Entries
  <2> QED BY <2>1, <2>3, <2>4, <2>5 DEF LinkInv
<1>4. CASE T!recvSYN
  <2>1. UNCHANGED <<base, top, todo, wrote, writes, sentTimes>> BY <1>4 DEF T!recvSYN
  <2> QED BY <1>1, <2>1
<1>5. CASE T!addPacket
  <2>1. /\ todo = <<>> /\ top - base < TimedN /\ top < MaxPackets
        /\ todo' = <<[packet |-> top, resent |-> FALSE]>> /\ top' = top + 1
        /\ UNCHANGED <<base, wrote, sentTimes, writes>>
    BY <1>5 DEF T!addPacket, T!managerVars, T!historyVars
  <2>2. top \in T!Packets /\ top \in Nat /\ Len(todo) = 0 /\ ~wrote
    BY <1>0, <2>1 DEF LinkInv
  <2>3. /\ todo' \in Seq(Entries) /\ Len(todo') = 1 /\ todo' # <<>>
        /\ todo'[1].packet = top /\ todo'[1].resent = FALSE
    BY <2>1, <2>2 DEF Entries
  <2>4. writes[top] = 0 BY <2>2 DEF LinkInv
  <2>5. ASSUME NEW p \in base' .. top' - 1, writes'[p] > 1,
               \A e \in 1 .. Len(todo') : todo'[e].packet # p
        PROVE  T!seqOf(p) \notin DOMAIN sentTimes'
    <3>1. p \in base .. top - 1 BY <1>0, <2>1, <2>3, <2>5 DEF LinkInv
    <3> QED BY <2>1, <2>2, <2>5, <3>1 DEF LinkInv
  <2>6. \A p \in T!Packets : p >= top' => writes'[p] = 0 BY <1>0, <2>1 DEF LinkInv
  <2>7. /\ base' \in Nat /\ top' \in Nat
        /\ base' <= top' /\ top' <= MaxPackets /\ top' - base' <= TimedN
    BY <1>0, <2>1 DEF LinkInv
  <2>8. \A e \in 1 .. Len(todo') :
          /\ todo'[e].packet < top' /\ Len(todo') = 1 /\ todo'[e].packet = top' - 1
          /\ writes'[top' - 1] = 0
    BY <2>1, <2>2, <2>3, <2>4
  <2>9. wrote' \in BOOLEAN /\ writes' \in [T!Packets \cup {-1} -> Nat]
        /\ DOMAIN sentTimes' \subseteq 0 .. TimedN
    BY <2>1 DEF LinkInv
  <2>10. \A e \in 1 .. Len(todo') : ~todo'[e].resent =>
           /\ Len(todo') = 1 /\ todo'[e].packet = top' - 1
           /\ writes'[top' - 1] <= 1 /\ (~wrote' => writes'[top' - 1] = 0)
    BY <2>8
  <2>11. \A e \in 1 .. Len(todo') : todo'[e].packet < top' BY <2>8
  <2> QED BY <2>3, <2>5, <2>6, <2>7, <2>9, <2>10, <2>11, Zenon DEF LinkInv
<1>6. CASE T!resend
  <2>1. /\ todo = <<>>
        /\ todo' = [i \in 1 .. top - base |-> [packet |-> base + i - 1, resent |-> TRUE]]
        /\ UNCHANGED <<base, top, wrote, sentTimes, writes>>
    BY <1>6 DEF T!resend, T!managerVars, T!historyVars
  <2>2. top - base \in Nat
    <3>1. base \in Nat /\ top \in Nat /\ base <= top BY DEF LinkInv
    <3> QED BY <3>1
  <2>3. \A i \in 1 .. top - base : [packet |-> base + i - 1, resent |-> TRUE] \in Entries
    BY <1>0 DEF LinkInv, Entries
  <2>4. todo' \in Seq(Entries) /\ Len(todo') = top - base BY <2>1, <2>2, <2>3
  <2>5. \A e \in 1 .. Len(todo') : todo'[e].packet = base + e - 1 /\ todo'[e].resent
    BY <2>1, <2>4, Zenon
  <2>6. \A e \in 1 .. Len(todo') : todo'[e].packet < top' BY <2>1, <2>4, <2>5 DEF LinkInv
  <2>7. \A p \in base' .. top' - 1 : \E e \in 1 .. Len(todo') : todo'[e].packet = p
    <3> TAKE p \in base' .. top' - 1
    <3>1. p - base + 1 \in 1 .. Len(todo') /\ base + (p - base + 1) - 1 = p
      BY <2>1, <2>4 DEF LinkInv
    <3> QED BY <2>5, <3>1
  <2>8. wrote' \in BOOLEAN /\ (wrote' => todo' # <<>>) BY <2>1 DEF LinkInv
  <2>9. \A p \in base' .. top' - 1 :
          ~(writes'[p] > 1 /\ (\A e \in 1 .. Len(todo') : todo'[e].packet # p))
    BY <2>7
  <2>10. /\ writes' \in [T!Packets \cup {-1} -> Nat]
         /\ base' \in Nat /\ top' \in Nat
         /\ base' <= top' /\ top' <= MaxPackets /\ top' - base' <= TimedN
         /\ \A p \in T!Packets : p >= top' => writes'[p] = 0
         /\ DOMAIN sentTimes' \subseteq 0 .. TimedN
    BY <2>1 DEF LinkInv
  <2> QED BY <2>4, <2>5, <2>6, <2>8, <2>9, <2>10, Zenon DEF LinkInv
<1>7. CASE T!sendToStream
  <2> DEFINE h == Head(todo).packet
  <2>1. /\ todo # <<>> /\ ~wrote /\ wrote' = TRUE
        /\ writes' = [writes EXCEPT ![h] = @ + 1]
        /\ UNCHANGED <<base, top, todo, sentTimes>>
    BY <1>7, Zenon DEF T!sendToStream, T!managerVars, T!written
  <2>2. /\ h \in T!Packets /\ h < top /\ h = todo[1].packet /\ 1 \in 1 .. Len(todo)
    BY <2>1, TailEntries, Zenon DEF LinkInv, Entries
  <2> HIDE DEF h
  <2>3. /\ writes' \in [T!Packets \cup {-1} -> Nat]
        /\ writes'[h] = writes[h] + 1
        /\ \A p \in T!Packets : p # h => writes'[p] = writes[p]
    BY <2>1, <2>2 DEF LinkInv
  <2>4. \A p \in T!Packets : p >= top' => writes'[p] = 0
    BY <1>0, <2>1, <2>2, <2>3 DEF LinkInv
  <2>5. ASSUME NEW e \in 1 .. Len(todo'), ~todo'[e].resent
        PROVE  /\ Len(todo') = 1 /\ todo'[e].packet = top' - 1 /\ writes'[top' - 1] <= 1
    <3>1. /\ Len(todo) = 1 /\ todo[e].packet = top - 1 /\ writes[top - 1] = 0
      BY <2>1, <2>5 DEF LinkInv
    <3>2. h = top - 1 BY <2>1, <2>2, <2>5, <3>1
    <3> QED BY <2>1, <2>3, <3>1, <3>2
  <2>6. ASSUME NEW p \in base' .. top' - 1, writes'[p] > 1,
               \A e \in 1 .. Len(todo') : todo'[e].packet # p
        PROVE  T!seqOf(p) \notin DOMAIN sentTimes'
    <3>1. p \in T!Packets /\ p # h BY <1>0, <2>1, <2>2, <2>6 DEF LinkInv
    <3>2. writes[p] > 1 BY <2>3, <2>6, <3>1
    <3> QED BY <2>1, <2>6, <3>2 DEF LinkInv
  <2> QED BY <2>1, <2>3, <2>4, <2>5, <2>6 DEF LinkInv
<1>8. CASE T!sent
  <2> DEFINE h == Head(todo).packet
  <2>1. /\ wrote /\ wrote' = FALSE /\ todo' = Tail(todo)
        /\ T!SentData(T!seqOf(h), Head(todo).resent)
        /\ UNCHANGED <<base, top, writes>>
    BY <1>8 DEF T!sent, T!historyVars
  <2>2. /\ h \in T!Packets /\ h < top /\ Head(todo) = todo[1] /\ 1 \in 1 .. Len(todo)
        /\ Head(todo).resent \in BOOLEAN
        /\ todo' \in Seq(Entries) /\ Len(todo') = Len(todo) - 1
        /\ \A e \in 1 .. Len(todo') : e + 1 \in 1 .. Len(todo) /\ todo'[e] = todo[e + 1]
    BY <2>1, TailEntries, Zenon DEF LinkInv, Entries
  <2> HIDE DEF h
  <2>4. \A e \in 1 .. Len(todo') : todo'[e].packet < top' BY <2>1, <2>2 DEF LinkInv
  <2>5. \A e \in 1 .. Len(todo') : todo'[e].resent
    <3> SUFFICES ASSUME NEW e \in 1 .. Len(todo'), ~todo'[e].resent PROVE FALSE
      OBVIOUS
    <3>1. e + 1 \in 1 .. Len(todo) /\ ~todo[e + 1].resent BY <2>2
    <3>2. Len(todo) = 1 BY <3>1 DEF LinkInv
    <3> QED BY <3>1, <3>2
  <2>6. ASSUME NEW p \in base' .. top' - 1, p # h,
               \A e \in 1 .. Len(todo') : todo'[e].packet # p
        PROVE  \A e \in 1 .. Len(todo) : todo[e].packet # p
    <3> SUFFICES ASSUME NEW e \in 1 .. Len(todo), todo[e].packet = p PROVE FALSE
      OBVIOUS
    <3>1. e # 1 BY <2>2, <2>6 DEF h
    <3>2. e - 1 \in 1 .. Len(todo') /\ (e - 1) + 1 = e BY <2>2, <3>1
    <3> QED BY <2>2, <2>6, <3>2, Zenon
  <2>7. CASE Head(todo).resent
    <3>1. DOMAIN sentTimes' = DOMAIN sentTimes \ {T!seqOf(h)}
      BY <2>1, <2>7 DEF T!SentData
    <3>2. ASSUME NEW p \in base' .. top' - 1, writes'[p] > 1,
                 \A e \in 1 .. Len(todo') : todo'[e].packet # p
          PROVE  T!seqOf(p) \notin DOMAIN sentTimes'
      <4>1. CASE p = h BY <3>1, <4>1
      <4>2. CASE p # h BY <2>1, <2>6, <3>1, <3>2, <4>2, Zenon DEF LinkInv
      <4> QED BY <4>1, <4>2
    <3>3. wrote' \in BOOLEAN /\ ~wrote' BY <2>1, Zenon
    <3> QED BY <2>1, <2>2, <2>4, <2>5, <3>1, <3>2, <3>3, Zenon DEF LinkInv
  <2>8. CASE ~Head(todo).resent
    <3>1. DOMAIN sentTimes' = DOMAIN sentTimes \cup {T!seqOf(h)}
      BY <2>1, <2>8 DEF T!SentData
    <3>2. h = top - 1 /\ writes[h] <= 1 /\ h \in Nat /\ writes[h] \in Nat
      BY <1>0, <2>2, <2>8 DEF LinkInv, h
    <3>3. ASSUME NEW p \in base' .. top' - 1, writes'[p] > 1,
                 \A e \in 1 .. Len(todo') : todo'[e].packet # p
          PROVE  T!seqOf(p) \notin DOMAIN sentTimes'
      <4>1. p # h
        <5>1. writes'[p] = writes[p] BY <2>1
        <5> QED BY <3>2, <3>3, <5>1
      <4>2. T!seqOf(p) \notin DOMAIN sentTimes
          BY <2>1, <2>6, <3>3, <4>1, Zenon DEF LinkInv
      <4>3. p \in Nat /\ p < h /\ h - p < TimedN + 1 /\ TimedN + 1 \in Nat \ {0}
        BY <1>0, <2>1, <3>2, <4>1 DEF LinkInv
      <4>4. T!seqOf(p) # T!seqOf(h) BY <3>2, <4>3, WindowSeqsDiffer DEF T!seqOf, T!s
      <4> QED BY <3>1, <4>2, <4>4
    <3>4. wrote' \in BOOLEAN /\ ~wrote' BY <2>1, Zenon
    <3>5. DOMAIN sentTimes' \subseteq 0 .. TimedN
      BY <3>1, <3>2, SeqOfInRange, Zenon DEF LinkInv
    <3> QED BY <2>1, <2>2, <2>4, <2>5, <3>3, <3>4, <3>5, Zenon DEF LinkInv
  <2> QED BY <2>2, <2>7, <2>8
<1>9. CASE T!recvACK
  <2>1. UNCHANGED <<top, todo, wrote, writes>> BY <1>9 DEF T!recvACK
  <2>2. DOMAIN sentTimes' \subseteq DOMAIN sentTimes BY <1>9 DEF T!recvACK
  <2>3. base' = IF Head(ctl).packet \in base .. top - 1 THEN Head(ctl).packet + 1 ELSE base
    BY <1>9 DEF T!recvACK
  <2>4. base' \in Nat /\ base <= base' /\ base' <= top BY <2>3 DEF LinkInv
  <2> QED BY <1>2, <2>1, <2>2, <2>4
<1>10. CASE T!recvNACK
  <2>1. UNCHANGED <<top, todo, wrote, writes, sentTimes>>
    BY <1>10 DEF T!recvNACK, T!managerVars, T!historyVars
  <2>2. base' = IF Head(ctl).packet \in base .. top THEN Head(ctl).packet ELSE base
    BY <1>10 DEF T!recvNACK
  <2>3. base' \in Nat /\ base <= base' /\ base' <= top BY <2>2 DEF LinkInv
  <2> QED BY <1>2, <2>1, <2>3
<1>11. CASE T!peer \/ T!lose \/ T!tick \/ UNCHANGED T!vars
  <2>1. UNCHANGED <<base, top, todo, wrote, writes, sentTimes>>
    BY <1>11 DEF T!peer, T!lose, T!tick, T!vars, T!linkVars, T!managerVars, T!historyVars
  <2> QED BY <1>1, <2>1
<1> QED
  BY <1>3, <1>4, <1>5, <1>6, <1>7, <1>8, <1>9, <1>10, <1>11 DEF T!Next

Boosters == [originalTimeout : Nat \ {0}, boostCount : Nat, lastBoost : 0 .. MaxTime]

\* The boosts of b since it was renewed at r (or created, if r is 0) fit, one per
\* original timeout, in the time until the last of them.
Spaced(b, r) ==
    /\ r = 0 /\ b.boostCount > 0 =>
           /\ b.lastBoost # 0
           /\ (b.boostCount - 1) * b.originalTimeout <= b.lastBoost - 1
    /\ r # 0 => /\ b.lastBoost # 0
                /\ b.boostCount * b.originalTimeout <= b.lastBoost - r

\* The timeout manager: no time lies in the future, what is measured was sent
\* once, and the values keep their bounds.
ManagerInv ==
    /\ now \in 1 .. MaxTime
    /\ \A i \in DOMAIN sentTimes : sentTimes[i] \in 1 .. now
    /\ latestSentSYNTime \in 0 .. now /\ (latestSentSYNTime # 0 => writes[-1] = 1)
    /\ handshakeBoosts \in Nat /\ handshakeBoosts <= writes[-1] /\ writes[-1] <= MaxWrites
    /\ hasSetDynamicTimeout \in BOOLEAN /\ rttInitialized \in BOOLEAN
    /\ responseCounter \in 0 .. timeoutUpdateFrequency - 1
    /\ smoothedRTT \in Nat /\ stage \in {"syn", "data"}
    /\ extremes \in Nat \X Nat
    /\ rttInitialized => extremes[1] <= smoothedRTT /\ smoothedRTT <= extremes[2]
    /\ resendBooster \in Boosters /\ resendBooster.lastBoost <= now
    /\ renewed \in 0 .. now /\ Spaced(resendBooster, renewed)
    /\ hasSetDynamicTimeout => resendBooster.originalTimeout >= minimumResendTimeout

\* One boost more takes one original timeout more.
LEMMA OneMore ==
    ASSUME NEW k \in Int, NEW o \in Nat
    PROVE  (k + 1) * o = k * o + o /\ k * o \in Int /\ (k >= 0 => k * o >= 0)
OBVIOUS

\* Boost keeps the boosts spaced.
LEMMA BoostSpaced ==
    ASSUME NEW b \in Boosters, NEW r \in 0 .. now, now \in 1 .. MaxTime,
           b.lastBoost <= now, Spaced(b, r)
    PROVE  /\ T!Boost(b) \in Boosters /\ T!Boost(b).lastBoost <= now
           /\ T!Boost(b).originalTimeout = b.originalTimeout
           /\ Spaced(T!Boost(b), r)
<1>0. /\ now \in Nat /\ now >= 1 /\ now <= MaxTime /\ r \in Nat /\ r <= now
      /\ b.lastBoost \in Nat /\ b.boostCount \in Nat
      /\ b.originalTimeout \in Nat /\ b.originalTimeout >= 1
  BY TimeoutConstants DEF Boosters
<1>1. CASE b.lastBoost # 0 /\ now - b.lastBoost < b.originalTimeout
  BY <1>1 DEF T!Boost
<1>2. CASE ~(b.lastBoost # 0 /\ now - b.lastBoost < b.originalTimeout)
  <2> DEFINE c == T!Boost(b)
  <2>1. c = [b EXCEPT !.lastBoost = now, !.boostCount = @ + 1] BY <1>2 DEF T!Boost
  <2>7. c = [originalTimeout |-> b.originalTimeout, boostCount |-> b.boostCount + 1,
             lastBoost |-> now]
    BY <2>1, Zenon DEF Boosters
  <2>8. now \in 0 .. MaxTime /\ b.boostCount + 1 \in Nat BY <1>0, TimeoutConstants
  <2>2. /\ c.lastBoost = now /\ c.boostCount = b.boostCount + 1
        /\ c.originalTimeout = b.originalTimeout /\ c \in Boosters
    BY <1>0, <2>7, <2>8 DEF Boosters
  <2> HIDE DEF c
  <2> DEFINE o == b.originalTimeout
             k == b.boostCount
  <2>3. (k - 1 + 1) * o = (k - 1) * o + o /\ (k + 1) * o = k * o + o /\ k - 1 + 1 = k
        /\ k * o \in Int /\ (k - 1) * o \in Int
    BY <1>0, OneMore
  <2>4. CASE r = 0 /\ k = 0
    <3>1. (c.boostCount - 1) * c.originalTimeout = 0 BY <1>0, <2>2, <2>4
    <3> QED BY <1>0, <2>2, <2>4, <3>1 DEF Spaced, c
  <2>5. CASE r = 0 /\ k > 0
    <3>1. (k - 1) * o <= b.lastBoost - 1 /\ now - b.lastBoost >= o
      BY <1>0, <1>2, <2>5 DEF Spaced
    <3>2. c.boostCount - 1 = k BY <1>0, <2>2
    <3>3. k * o <= now - 1 BY <1>0, <2>3, <3>1
    <3> QED BY <1>0, <2>2, <2>5, <3>2, <3>3 DEF Spaced, c
  <2>6. CASE r # 0
    <3>1. k * o <= b.lastBoost - r /\ now - b.lastBoost >= o
      BY <1>0, <1>2, <2>6 DEF Spaced
    <3>2. (k + 1) * o <= now - r BY <1>0, <2>3, <3>1
    <3> QED BY <1>0, <2>2, <2>6, <3>2 DEF Spaced, c
  <2> QED BY <1>0, <2>4, <2>5, <2>6
<1> QED BY <1>1, <1>2

\* A sample of the response time rtt keeps the values of the manager in bounds.
LEMMA SampleTaken ==
    ASSUME ManagerInv, NEW rtt \in Nat, NEW update \in BOOLEAN,
           T!takeSample(rtt, update), now' = now
    PROVE  /\ hasSetDynamicTimeout' \in BOOLEAN /\ rttInitialized' \in BOOLEAN
           /\ smoothedRTT' \in Nat /\ extremes' \in Nat \X Nat
           /\ extremes'[1] <= smoothedRTT' /\ smoothedRTT' <= extremes'[2]
           /\ resendBooster' \in Boosters /\ resendBooster'.lastBoost <= now
           /\ renewed' \in 0 .. now /\ Spaced(resendBooster', renewed')
           /\ hasSetDynamicTimeout' =>
                  resendBooster'.originalTimeout >= minimumResendTimeout
<1>1. /\ extremes[1] \in Nat /\ extremes[2] \in Nat /\ smoothedRTT \in Nat
      /\ now \in Nat /\ now >= 1 /\ now <= MaxTime
      /\ rttInitialized => extremes[1] <= smoothedRTT /\ smoothedRTT <= extremes[2]
  BY TimeoutConstants DEF ManagerInv
<1>2. /\ extremes' = <<IF rtt < extremes[1] THEN rtt ELSE extremes[1],
                       IF rtt > extremes[2] THEN rtt ELSE extremes[2]>>
      /\ smoothedRTT' = IF rttInitialized THEN (rtt + 3 * smoothedRTT) \div 4 ELSE rtt
      /\ rttInitialized' = TRUE
  BY DEF T!takeSample, T!smooth
<1>3. /\ extremes'[1] \in Nat /\ extremes'[2] \in Nat /\ extremes' \in Nat \X Nat
      /\ extremes'[1] <= rtt /\ rtt <= extremes'[2]
      /\ extremes'[1] <= extremes[1] /\ extremes[2] <= extremes'[2]
  BY <1>1, <1>2
<1>4. /\ smoothedRTT' \in Nat
      /\ extremes'[1] <= smoothedRTT' /\ smoothedRTT' <= extremes'[2]
  <2>1. CASE rttInitialized
    <3> DEFINE lo == extremes'[1]
               hi == extremes'[2]
    <3>1. lo \in Nat /\ hi \in Nat /\ lo <= rtt /\ rtt <= hi
          /\ lo <= smoothedRTT /\ smoothedRTT <= hi
      BY <1>1, <1>3, <2>1
    <3>2. smoothedRTT' = (rtt + 3 * smoothedRTT) \div 4 BY <1>2, <2>1
    <3> HIDE DEF lo, hi
    <3>3. (rtt + 3 * smoothedRTT) \div 4 \in lo .. hi BY <1>1, <3>1
    <3> QED BY <1>1, <3>1, <3>2, <3>3 DEF lo, hi
  <2>2. CASE ~rttInitialized BY <1>2, <1>3, <2>2
  <2> QED BY <2>1, <2>2
<1>5. CASE update
  <2> DEFINE o == T!multipliedTimeout(rtt)
  <2>1. /\ hasSetDynamicTimeout' = TRUE /\ renewed' = now
        /\ resendBooster' = [originalTimeout |-> o, boostCount |-> 0, lastBoost |-> now]
    BY <1>5 DEF T!takeSample
  <2>2. o \in Nat /\ o >= minimumResendTimeout /\ o >= 1
    <3>1. resendMultiplier * rtt \in Nat BY TimeoutConstants
    <3> QED BY <3>1, TimeoutConstants DEF T!multipliedTimeout
  <2> HIDE DEF o
  <2>3. /\ resendBooster'.originalTimeout = o /\ resendBooster'.boostCount = 0
        /\ resendBooster'.lastBoost = now /\ resendBooster' \in Boosters
    BY <1>1, <2>1, <2>2, TimeoutConstants DEF Boosters
  <2>4. resendBooster'.boostCount * resendBooster'.originalTimeout = 0 BY <2>2, <2>3
  <2>5. Spaced(resendBooster', renewed') BY <1>1, <2>1, <2>3, <2>4 DEF Spaced
  <2>6. hasSetDynamicTimeout' \in BOOLEAN /\ rttInitialized' \in BOOLEAN
    BY <1>2, <2>1
  <2> QED BY <1>1, <1>3, <1>4, <2>1, <2>2, <2>3, <2>5, <2>6
<1>6. CASE ~update
  <2>1. UNCHANGED <<hasSetDynamicTimeout, resendBooster, renewed>>
    BY <1>6 DEF T!takeSample
  <2>2. rttInitialized' \in BOOLEAN BY <1>2
  <2> QED BY <1>3, <1>4, <2>1, <2>2 DEF ManagerInv, Spaced
<1> QED BY <1>5, <1>6

\* The timeout manager starts in the invariant.
LEMMA ManagerInit == T!Init => ManagerInv
<1> SUFFICES ASSUME T!Init PROVE ManagerInv
  OBVIOUS
<1>1. writes[-1] = 0 BY DEF T!Init, T!SYN
<1>2. /\ now = 1 /\ DOMAIN sentTimes = {} /\ latestSentSYNTime = 0 /\ handshakeBoosts = 0
      /\ responseCounter = 0 /\ smoothedRTT = 0 /\ stage = "syn" /\ renewed = 0
      /\ extremes = <<MaxTime, 0>>
  BY DEF T!Init
<1>3. /\ hasSetDynamicTimeout \in BOOLEAN /\ ~hasSetDynamicTimeout
      /\ rttInitialized \in BOOLEAN /\ ~rttInitialized
  BY Zenon DEF T!Init
<1>4. /\ resendBooster \in Boosters /\ resendBooster.lastBoost = 0
      /\ resendBooster.boostCount = 0
  BY TimeoutConstants DEF T!Init, Boosters
<1>5. Spaced(resendBooster, renewed) BY <1>2, <1>4 DEF Spaced
<1> QED BY <1>1, <1>2, <1>3, <1>4, <1>5, TimeoutConstants DEF ManagerInv

\* Every step of the two goroutines keeps the timeout manager in order.
LEMMA ManagerNext == LinkInv /\ ManagerInv /\ [T!Next]_(T!vars) => ManagerInv'
<1> SUFFICES ASSUME LinkInv, ManagerInv, [T!Next]_(T!vars) PROVE ManagerInv'
  OBVIOUS
<1>0. /\ now \in Nat /\ now >= 1 /\ now <= MaxTime /\ MaxTime \in Nat /\ MaxWrites \in Nat
      /\ writes \in [T!Packets \cup {-1} -> Nat] /\ writes[-1] \in Nat
  BY TimeoutConstants DEF ManagerInv, LinkInv
<1>1. CASE T!sendSYN
  <2>1. /\ writes[-1] < MaxWrites
        /\ latestSentSYNTime' = IF writes[-1] > 0 THEN 0 ELSE now
        /\ handshakeBoosts' = IF writes[-1] > 0 THEN handshakeBoosts + 1 ELSE handshakeBoosts
        /\ writes' = [writes EXCEPT ![-1] = @ + 1]
        /\ UNCHANGED <<now, sentTimes, hasSetDynamicTimeout, responseCounter,
                       smoothedRTT, rttInitialized, resendBooster, stage, extremes,
                       renewed>>
    BY <1>1 DEF T!sendSYN, T!SentSYN, T!written, T!SYN
  <2>2. writes'[-1] = writes[-1] + 1 BY <1>0, <2>1
  <2>3. /\ latestSentSYNTime' \in 0 .. now /\ (latestSentSYNTime' # 0 => writes'[-1] = 1)
        /\ handshakeBoosts' \in Nat /\ handshakeBoosts' <= writes'[-1]
        /\ writes'[-1] <= MaxWrites
    BY <1>0, <2>1, <2>2 DEF ManagerInv
  <2> QED BY <2>1, <2>3 DEF ManagerInv, Spaced
<1>2. CASE T!recvSYN
  <2>1. /\ latestSentSYNTime' = 0 /\ stage' = "data"
        /\ UNCHANGED <<now, sentTimes, responseCounter, handshakeBoosts, writes>>
    BY <1>2 DEF T!recvSYN
  <2>2. CASE latestSentSYNTime = 0
    <3>1. UNCHANGED <<rttInitialized, smoothedRTT, hasSetDynamicTimeout, resendBooster,
                      renewed, extremes>>
      BY <1>2, <2>2 DEF T!recvSYN, T!noSample
    <3> QED BY <1>0, <2>1, <3>1 DEF ManagerInv, Spaced
  <2>3. CASE latestSentSYNTime # 0
    <3>1. T!takeSample(now - latestSentSYNTime, TRUE) BY <1>2, <2>3, Zenon DEF T!recvSYN
    <3>2. now - latestSentSYNTime \in Nat BY <1>0 DEF ManagerInv
    <3>3. /\ hasSetDynamicTimeout' \in BOOLEAN /\ rttInitialized' \in BOOLEAN
          /\ smoothedRTT' \in Nat /\ extremes' \in Nat \X Nat
          /\ extremes'[1] <= smoothedRTT' /\ smoothedRTT' <= extremes'[2]
          /\ resendBooster' \in Boosters /\ resendBooster'.lastBoost <= now
          /\ renewed' \in 0 .. now /\ Spaced(resendBooster', renewed')
          /\ hasSetDynamicTimeout' =>
                 resendBooster'.originalTimeout >= minimumResendTimeout
      BY <2>1, <3>1, <3>2, SampleTaken, Zenon
    <3> QED BY <1>0, <2>1, <3>3 DEF ManagerInv, Spaced
  <2> QED BY <2>2, <2>3
<1>3. CASE T!sendToStream
  <2>1. /\ writes' = [writes EXCEPT ![Head(todo).packet] = @ + 1] /\ todo # <<>>
        /\ UNCHANGED <<now, sentTimes, latestSentSYNTime, hasSetDynamicTimeout,
                       responseCounter, smoothedRTT, rttInitialized, resendBooster,
                       handshakeBoosts, stage, extremes, renewed>>
    BY <1>3, Zenon DEF T!sendToStream, T!managerVars, T!written
  <2>2. Head(todo).packet # -1
    <3>1. Head(todo) \in Entries BY <2>1, TailEntries DEF LinkInv
    <3>2. Head(todo).packet \in 0 .. MaxPackets - 1 BY <3>1 DEF Entries, T!Packets
    <3> QED BY <3>2, TimeoutConstants
  <2>3. writes'[-1] = writes[-1] BY <1>0, <2>1, <2>2
  <2> QED BY <2>1, <2>3 DEF ManagerInv, Spaced
<1>4. CASE T!sent
  <2> DEFINE q == T!seqOf(Head(todo).packet)
  <2>1. /\ T!SentData(q, Head(todo).resent) /\ wrote
        /\ UNCHANGED <<now, latestSentSYNTime, hasSetDynamicTimeout, responseCounter,
                       smoothedRTT, rttInitialized, handshakeBoosts, stage, writes,
                       extremes, renewed>>
    BY <1>4 DEF T!sent, T!historyVars
  <2> HIDE DEF q
  <2>2. Head(todo).resent \in BOOLEAN BY <2>1, TailEntries, Zenon DEF LinkInv, Entries
  <2>3. CASE Head(todo).resent
    <3>1. /\ sentTimes' = [i \in DOMAIN sentTimes \ {q} |-> sentTimes[i]]
          /\ resendBooster' = T!Boost(resendBooster)
      BY <2>1, <2>3 DEF T!SentData
    <3>2. \A i \in DOMAIN sentTimes' : sentTimes'[i] \in 1 .. now
      BY <3>1 DEF ManagerInv
    <3>3. /\ resendBooster' \in Boosters /\ resendBooster'.lastBoost <= now
          /\ resendBooster'.originalTimeout = resendBooster.originalTimeout
          /\ Spaced(resendBooster', renewed)
      BY <3>1, BoostSpaced DEF ManagerInv
    <3> QED BY <2>1, <3>2, <3>3 DEF ManagerInv, Spaced
  <2>4. CASE ~Head(todo).resent
    <3>1. /\ sentTimes' = [i \in DOMAIN sentTimes \cup {q} |->
                               IF i = q THEN now ELSE sentTimes[i]]
          /\ UNCHANGED resendBooster
      BY <2>1, <2>4 DEF T!SentData
    <3>2. \A i \in DOMAIN sentTimes' : sentTimes'[i] \in 1 .. now
      BY <1>0, <3>1 DEF ManagerInv
    <3> QED BY <2>1, <3>1, <3>2 DEF ManagerInv, Spaced
  <2> QED BY <2>2, <2>3, <2>4
<1>5. CASE T!recvACK
  <2> DEFINE q == T!seqOf(Head(ctl).packet)
             counter == responseCounter + 1
             update == ~hasSetDynamicTimeout \/ counter % timeoutUpdateFrequency = 0
  <2>1. /\ IF q \in DOMAIN sentTimes
           THEN /\ sentTimes' = [i \in DOMAIN sentTimes \ {q} |-> sentTimes[i]]
                /\ responseCounter' = IF update THEN 0 ELSE counter
                /\ T!takeSample(now - sentTimes[q], update)
           ELSE T!noSample /\ UNCHANGED <<sentTimes, responseCounter>>
        /\ UNCHANGED <<now, latestSentSYNTime, handshakeBoosts, stage, writes>>
    BY <1>5 DEF T!recvACK
  <2> HIDE DEF q
  <2>2. CASE q \notin DOMAIN sentTimes
    <3>1. UNCHANGED <<rttInitialized, smoothedRTT, hasSetDynamicTimeout, resendBooster,
                      renewed, extremes, sentTimes, responseCounter>>
      BY <2>1, <2>2 DEF T!noSample
    <3> QED BY <2>1, <3>1, Zenon DEF ManagerInv, Spaced
  <2>3. CASE q \in DOMAIN sentTimes
    <3>1. now - sentTimes[q] \in Nat BY <1>0, <2>3 DEF ManagerInv
    <3>2. \A i \in DOMAIN sentTimes' : sentTimes'[i] \in 1 .. now
      BY <2>1, <2>3 DEF ManagerInv
    <3>3. responseCounter' \in 0 .. timeoutUpdateFrequency - 1
      <4>1. /\ timeoutUpdateFrequency \in Nat \ {0} /\ responseCounter \in Nat
            /\ responseCounter + 1 <= timeoutUpdateFrequency
        BY TimeoutConstants DEF ManagerInv
      <4>2. timeoutUpdateFrequency % timeoutUpdateFrequency = 0 BY <4>1
      <4>3. CASE update BY <2>1, <2>3, <4>1, <4>3
      <4>4. CASE ~update
        <5>1. counter # timeoutUpdateFrequency BY <4>2, <4>4
        <5> QED BY <2>1, <2>3, <4>1, <4>4, <5>1
      <4> QED BY <4>3, <4>4
    <3>4. update \in BOOLEAN BY Zenon
    <3> HIDE DEF update
    <3>5. /\ hasSetDynamicTimeout' \in BOOLEAN /\ rttInitialized' \in BOOLEAN
          /\ smoothedRTT' \in Nat /\ extremes' \in Nat \X Nat
          /\ extremes'[1] <= smoothedRTT' /\ smoothedRTT' <= extremes'[2]
          /\ resendBooster' \in Boosters /\ resendBooster'.lastBoost <= now
          /\ renewed' \in 0 .. now /\ Spaced(resendBooster', renewed')
          /\ hasSetDynamicTimeout' =>
                 resendBooster'.originalTimeout >= minimumResendTimeout
      BY <2>1, <2>3, <3>1, <3>4, SampleTaken
    <3> QED BY <2>1, <3>2, <3>3, <3>5, Zenon DEF ManagerInv, Spaced
  <2> QED BY <2>2, <2>3
<1>6. CASE T!tick
  <2>1. /\ now < MaxTime /\ now' = now + 1
        /\ UNCHANGED <<sentTimes, latestSentSYNTime, hasSetDynamicTimeout,
                       responseCounter, smoothedRTT, rttInitialized, resendBooster,
                       handshakeBoosts, stage, writes, extremes, renewed>>
    BY <1>6 DEF T!tick, T!managerVars, T!linkVars, T!historyVars
  <2>2. \A i \in DOMAIN sentTimes' : sentTimes'[i] \in 1 .. now'
    BY <1>0, <2>1 DEF ManagerInv
  <2>3. /\ now' \in 1 .. MaxTime /\ latestSentSYNTime' \in 0 .. now'
        /\ renewed' \in 0 .. now' /\ resendBooster'.lastBoost <= now'
    <3>1. resendBooster.lastBoost \in Nat BY TimeoutConstants DEF ManagerInv, Boosters
    <3> QED BY <1>0, <2>1, <3>1 DEF ManagerInv
  <2> QED BY <2>1, <2>2, <2>3, Zenon DEF ManagerInv, Spaced
<1>7. CASE T!addPacket \/ T!resend \/ T!recvNACK \/ T!peer \/ T!lose \/ UNCHANGED T!vars
  <2>1. UNCHANGED <<now, sentTimes, latestSentSYNTime, hasSetDynamicTimeout,
                    responseCounter, smoothedRTT, rttInitialized, resendBooster,
                    handshakeBoosts, stage, writes, extremes, renewed>>
    BY <1>7, Zenon
       DEF T!addPacket, T!resend, T!recvNACK, T!peer, T!lose, T!vars, T!managerVars,
       T!linkVars, T!historyVars
  <2> QED BY <2>1, Zenon DEF ManagerInv, Spaced
<1> QED BY <1>1, <1>2, <1>3, <1>4, <1>5, <1>6, <1>7 DEF T!Next

\* The invariants give what the timeout manager promises.
LEMMA TimeoutsKept == LinkInv /\ ManagerInv => TimeoutInv /\ ResentUnmeasured
<1> SUFFICES ASSUME LinkInv, ManagerInv PROVE TimeoutInv /\ ResentUnmeasured
  OBVIOUS
<1> DEFINE b == resendBooster
           o == b.originalTimeout
           k == b.boostCount
<1>1. /\ now \in Nat /\ b.lastBoost \in Nat /\ b.lastBoost <= now /\ renewed \in Nat
      /\ k \in Nat /\ o \in Nat /\ o >= 1
  BY TimeoutConstants DEF ManagerInv, Boosters
<1>2. T!TypeOK
  <2>1. \A i \in DOMAIN sentTimes : sentTimes[i] \in 1 .. MaxTime
    BY <1>1, TimeoutConstants DEF ManagerInv
  <2>2. DOMAIN sentTimes \subseteq 0 .. (TimedN + 1) - 1
    BY TimeoutConstants DEF LinkInv
  <2>3. handshakeBoosts \in 0 .. MaxWrites /\ latestSentSYNTime \in 0 .. MaxTime
    <3>1. writes[-1] \in Nat BY DEF LinkInv
    <3> QED BY <1>1, <3>1, TimeoutConstants DEF ManagerInv
  <2>4. wrote \in BOOLEAN /\ base \in Nat /\ base <= top /\ top <= MaxPackets
    BY DEF LinkInv
  <2>5. /\ now \in 1 .. MaxTime
        /\ hasSetDynamicTimeout \in BOOLEAN /\ rttInitialized \in BOOLEAN
        /\ responseCounter \in 0 .. timeoutUpdateFrequency - 1
        /\ smoothedRTT \in Nat /\ resendBooster \in Boosters /\ stage \in {"syn", "data"}
    BY DEF ManagerInv
  <2> QED
    BY <2>1, <2>2, <2>3, <2>4, <2>5 DEF Boosters, T!TypeOK, T!Times, T!s
<1>3. T!SYNSampledOnce BY DEF ManagerInv, T!SYNSampledOnce, T!SYN
<1>4. T!BoostsSpaced
  <2>1. k * o \in Int /\ (k - 1) * o \in Int BY <1>1, OneMore
  <2>2. renewed = 0 /\ k > 0 => (k - 1) * o <= now - 1
    BY <1>1, <2>1 DEF ManagerInv, Spaced
  <2>3. renewed # 0 => k * o <= now - renewed BY <1>1, <2>1 DEF ManagerInv, Spaced
  <2> QED BY <2>2, <2>3 DEF T!BoostsSpaced
<1>5. T!ResendTimeoutFloor
  <2> DEFINE extra == o * boostPercent * k
  <2>1. extra \in Nat
    <3>1. o * boostPercent \in Nat BY <1>1, TimeoutConstants
    <3> QED BY <1>1, <3>1
  <2>2. T!GetResendTimeout = o + (extra \div 100)
    BY DEF T!GetResendTimeout, T!GetCurrentTimeout
  <2> HIDE DEF extra
  <2>3. extra \div 100 \in Nat BY <2>1
  <2>4. hasSetDynamicTimeout => o >= minimumResendTimeout BY DEF ManagerInv
  <2> QED BY <1>1, <2>2, <2>3, <2>4, TimeoutConstants DEF T!ResendTimeoutFloor
<1>6. T!SmoothedWithinSamples BY DEF ManagerInv, T!SmoothedWithinSamples
<1>7. T!PongWithinPing
  <2>1. pongMultiplier * smoothedRTT \in Nat BY TimeoutConstants DEF ManagerInv
  <2>2. T!dynamicPong(smoothedRTT) <= pingTime
    BY <2>1, TimeoutConstants DEF T!dynamicPong
  <2> QED BY <2>2, TimeoutConstants DEF T!PongWithinPing, T!GetPongTime
<1>8. ResentUnmeasured BY DEF LinkInv, ResentUnmeasured, T!ResentUnmeasured
<1> QED
  BY <1>2, <1>3, <1>4, <1>5, <1>6, <1>7, <1>8 DEF TimeoutInv, T!TimeoutInv

\* For every window, clock and setting of the timeouts: only a SYN that was sent
\* once is timed, resending a range of packets boosts once, and the resend
\* timeout, the smoothed RTT and the pong time keep their bounds.
THEOREM TimeoutsCorrect == T!Spec => []TimeoutInv
BY LinkInit, ManagerInit, LinkNext, ManagerNext, TimeoutsKept, PTL DEF T!Spec

\* For every window: the ACK of a packet that was transmitted twice is never
\* taken for a sample of the response time.
THEOREM SamplesUnambiguous == T!Spec => []ResentUnmeasured
BY LinkInit, ManagerInit, LinkNext, ManagerNext, TimeoutsKept, PTL DEF T!Spec

-----------------------------------------------------------------------------

(***************************************************************************)
(* The syncer.                                                             *)
(***************************************************************************)

\* The inductive invariant: a signal is forgotten in no step, and the state is
\* left idle by every step that ends a resend.
SyncInv == TypeOK /\ SignalNotForgotten /\ ResendingOnlyInRound

\* Reducing any natural number gives a sequence number.
LEMMA ModInSeqs ==
    ASSUME NEW x \in Nat
    PROVE  (x % s) \in Seqs
BY SFact, DivMod DEF Seqs

\* Sequence numbers stay in range under the updates of the base.
LEMMA BaseInSeqs ==
    ASSUME NEW b \in Seqs, NEW t \in Seqs, NEW seq \in Seqs
    PROVE  ackedBase(b, t, seq) \in Seqs /\ nackedBase(b, t, seq) \in Seqs
<1>1. seq + 1 \in Nat BY SFact DEF Seqs
<1>2. succ(seq) \in Seqs BY <1>1, ModInSeqs DEF succ
<1> QED BY <1>2 DEF ackedBase, nackedBase

\* What resetUnsafe leaves behind, whoever calls it.
LEMMA ResetFacts ==
    ASSUME NEW w \in WaiterPc,
           NEW q \in [Procs -> [pc : ProcPc, round : 0..MaxRounds]],
           resetUnsafe(w, q)
    PROVE  /\ state' = "idle" /\ waiter' \in WaiterPc
           /\ proc' \in [Procs -> [pc : ProcPc, round : 0..MaxRounds]]
           /\ waiter' = "waiting" => \E p \in Procs : proc'[p].pc = "cancelled"
<1>1. CASE w = "waiting" /\ waiter' = "woken" /\ proc' = q
  BY <1>1 DEF resetUnsafe, WaiterPc
<1>2. ASSUME NEW p \in Procs, q[p].pc = "waiting",
             proc' = [q EXCEPT ![p].pc = "cancelled"], waiter' = w
      PROVE  /\ waiter' \in WaiterPc
             /\ proc' \in [Procs -> [pc : ProcPc, round : 0..MaxRounds]]
             /\ \E r \in Procs : proc'[r].pc = "cancelled"
  <2>1. proc'[p].pc = "cancelled" BY <1>2
  <2>2. proc' \in [Procs -> [pc : ProcPc, round : 0..MaxRounds]]
    BY <1>2 DEF ProcPc
  <2> QED BY <1>2, <2>1, <2>2
<1>3. CASE w # "waiting" /\ waiter' = w /\ proc' = q
  BY <1>3 DEF resetUnsafe
<1> QED BY <1>1, <1>2, <1>3 DEF resetUnsafe

\* The invariant holds when the queue is created.
LEMMA SyncInit == Init => SyncInv
<1> SUFFICES ASSUME Init PROVE SyncInv
  OBVIOUS
<1>1. 0 \in Seqs /\ 0 \in 0..MaxRounds BY SFact, SyncerAssumption DEF Seqs
<1>2. proc \in [Procs -> [pc : ProcPc, round : 0..MaxRounds]]
  BY <1>1 DEF Init, ProcPc
<1>3. TypeOK BY <1>1, <1>2, SyncerAssumption, Zenon DEF Init, TypeOK, WaiterPc
<1> QED BY <1>3 DEF Init, SyncInv, SignalNotForgotten, ResendingOnlyInRound

\* The steps of the send goroutine preserve the invariant.
LEMMA SendSteps ==
    ASSUME SyncInv,
           \/ addPacket \/ initResendUpTo \/ waitForSync \/ syncTimeout \/ syncReset
           \/ stop \/ waiterStops
    PROVE  SyncInv'
<1> USE DEF SyncInv, historyVars
<1>1. CASE addPacket
  <2>1. sequenceTop + 1 \in Nat BY SFact DEF TypeOK, Seqs
  <2>2. sequenceTop' \in Seqs BY <1>1, <2>1, ModInSeqs DEF addPacket, succ
  <2> QED BY <1>1, <2>2
          DEF addPacket, TypeOK, SignalNotForgotten, ResendingOnlyInRound
<1>2. CASE initResendUpTo
  <2>1. s + sequenceTop - 1 \in Nat BY SFact DEF TypeOK, Seqs
  <2>2. (s + sequenceTop - 1) % 256 \in Nat
    <3> DEFINE y == s + sequenceTop - 1
    <3>1. y \in Nat BY <2>1
    <3> HIDE DEF y
    <3>2. y % 256 \in Nat BY <3>1
    <3> QED BY <3>2 DEF y
  <2>3. expectedACK' \in Seqs
    <3> DEFINE x == (s + sequenceTop - 1) % 256
    <3>1. x \in Nat BY <2>2
    <3>2. expectedACK' = x % s BY <1>2 DEF initResendUpTo, lastResent
    <3> HIDE DEF x
    <3> QED BY <3>1, <3>2, ModInSeqs
  <2>4. round' \in 0..MaxRounds BY <1>2, SyncerAssumption DEF initResendUpTo, TypeOK
  <2> QED BY <1>2, <2>3, <2>4, Zenon
          DEF initResendUpTo, TypeOK, SignalNotForgotten, ResendingOnlyInRound, WaiterPc
<1>3. CASE waitForSync
  <2>1. early' \in BOOLEAN BY <1>3, Zenon DEF waitForSync
  <2>2. TypeOK' BY <1>3, <2>1 DEF waitForSync, TypeOK, WaiterPc
  <2> QED BY <1>3, <2>2, Zenon DEF waitForSync, SignalNotForgotten, ResendingOnlyInRound
<1>4. CASE syncTimeout
  BY <1>4 DEF syncTimeout, TypeOK, SignalNotForgotten, ResendingOnlyInRound, WaiterPc
<1>5. CASE syncReset
  <2>1. "idle" \in WaiterPc BY DEF WaiterPc
  <2>2. /\ state' = "idle" /\ waiter' \in WaiterPc
        /\ proc' \in [Procs -> [pc : ProcPc, round : 0..MaxRounds]]
        /\ waiter' = "waiting" => \E p \in Procs : proc'[p].pc = "cancelled"
    BY <1>5, <2>1, ResetFacts DEF syncReset, TypeOK
  <2> QED BY <1>5, <2>2
          DEF syncReset, TypeOK, SignalNotForgotten, ResendingOnlyInRound
<1>6. CASE stop BY <1>6 DEF stop, TypeOK, SignalNotForgotten, ResendingOnlyInRound
<1>7. CASE waiterStops
  BY <1>7 DEF waiterStops, TypeOK, SignalNotForgotten, ResendingOnlyInRound, WaiterPc
<1> QED BY <1>1, <1>2, <1>3, <1>4, <1>5, <1>6, <1>7

\* The steps of the receive goroutine preserve the invariant.
LEMMA ReceiveSteps ==
    ASSUME SyncInv, NEW d \in 0..size(sequenceBase, sequenceTop),
           processACK(d) \/ processNACK(d)
    PROVE  SyncInv'
<1> USE DEF SyncInv, historyVars
<1>0. /\ sequenceBase \in Seqs /\ sequenceTop \in Seqs /\ sequenceBase \in Nat
      /\ d \in Nat /\ s \in Nat /\ s >= 1
  BY SFact, SizeRange DEF TypeOK, Seqs
<1>1. CASE processACK(d)
  <2> DEFINE seq == (s + sequenceBase + d - 1) % s
  <2>1. s + sequenceBase + d - 1 \in Nat BY <1>0
  <2>2. seq \in Seqs BY <2>1, ModInSeqs
  <2> HIDE DEF seq
  <2>3. sequenceBase' \in Seqs BY <1>0, <1>1, <2>2, BaseInSeqs DEF processACK, seq
  <2>4. UNCHANGED <<sequenceTop, state, expectedACK, expectedNACK, waiter, quit, round,
                    early, timedOut, met>>
    BY <1>1 DEF processACK
  <2>5. \/ proc' = proc
        \/ \E p \in Procs : /\ proc[p].pc = "none"
                            /\ proc' = [proc EXCEPT ![p] = [pc |-> "started",
                                                            round |-> round]]
    BY <1>1 DEF processACK
  <2>6. CASE proc' = proc
    BY <2>3, <2>4, <2>6 DEF TypeOK, SignalNotForgotten, ResendingOnlyInRound
  <2>7. ASSUME NEW p \in Procs, proc[p].pc = "none",
               proc' = [proc EXCEPT ![p] = [pc |-> "started", round |-> round]]
        PROVE  SyncInv'
    <3>1. proc' \in [Procs -> [pc : ProcPc, round : 0..MaxRounds]]
      BY <2>7 DEF TypeOK, ProcPc
    <3>2. \A q \in Procs : proc[q].pc = "cancelled" => proc'[q].pc = "cancelled"
      BY <2>7 DEF TypeOK
    <3> QED BY <2>3, <2>4, <3>1, <3>2
            DEF TypeOK, SignalNotForgotten, ResendingOnlyInRound
  <2> QED BY <2>5, <2>6, <2>7
<1>2. CASE processNACK(d)
  <2> DEFINE seq == (sequenceBase + d) % s
  <2>1. sequenceBase + d \in Nat BY <1>0
  <2>2. seq \in Seqs BY <2>1, ModInSeqs
  <2> HIDE DEF seq
  <2>3. sequenceBase' \in Seqs BY <1>0, <1>2, <2>2, BaseInSeqs DEF processNACK, seq
  <2>4. UNCHANGED <<sequenceTop, expectedACK, expectedNACK, quit, round, early,
                    timedOut>>
    BY <1>2 DEF processNACK
  <2>5. CASE UNCHANGED <<state, waiter, proc, met>>
    BY <2>3, <2>4, <2>5 DEF TypeOK, SignalNotForgotten, ResendingOnlyInRound
  <2>6. CASE resetUnsafe(waiter, proc) /\ met' = TRUE
    <3>1. /\ state' = "idle" /\ waiter' \in WaiterPc
          /\ proc' \in [Procs -> [pc : ProcPc, round : 0..MaxRounds]]
          /\ waiter' = "waiting" => \E p \in Procs : proc'[p].pc = "cancelled"
      BY <2>6, ResetFacts DEF TypeOK
    <3> QED BY <2>3, <2>4, <2>6, <3>1
            DEF TypeOK, SignalNotForgotten, ResendingOnlyInRound
  <2> QED BY <1>2, <2>5, <2>6, Zenon DEF processNACK
<1> QED BY <1>1, <1>2

\* The steps of a proceedAfterTime goroutine preserve the invariant: it takes a
\* signal away only to pass it on.
LEMMA ProceedSteps ==
    ASSUME SyncInv, NEW p \in Procs, proceedAfterTime(p)
    PROVE  SyncInv'
<1> USE DEF SyncInv, historyVars
<1>0. \A pc \in ProcPc :
        /\ Moved(p, pc) \in [Procs -> [pc : ProcPc, round : 0..MaxRounds]]
        /\ \A q \in Procs : q # p => Moved(p, pc)[q] = proc[q]
  BY DEF Moved, TypeOK
<1>1. {"waiting", "expired", "done"} \subseteq ProcPc BY DEF ProcPc
<1>2. CASE procWaits(p) \/ procExpires(p) \/ procStops(p)
  <2>1. PICK pc \in {"waiting", "expired", "done"} : proc' = Moved(p, pc)
    BY <1>2, Zenon DEF procWaits, procExpires, procStops
  <2>2. \A q \in Procs : proc[q].pc = "cancelled" => proc'[q].pc = "cancelled"
    BY <1>0, <1>1, <1>2, <2>1, Zenon DEF procWaits, procExpires, procStops
  <2>3. proc' \in [Procs -> [pc : ProcPc, round : 0..MaxRounds]] BY <1>0, <1>1, <2>1, Zenon
  <2> QED BY <1>2, <2>2, <2>3, Zenon
          DEF procWaits, procExpires, procStops, TypeOK, SignalNotForgotten,
              ResendingOnlyInRound
<1>3. ASSUME resetUnsafe(waiter, Moved(p, "done")), met' \in BOOLEAN,
             UNCHANGED <<sequenceBase, sequenceTop, expectedACK, expectedNACK, quit,
                         round, early, timedOut>>
      PROVE  SyncInv'
  <2>1. Moved(p, "done") \in [Procs -> [pc : ProcPc, round : 0..MaxRounds]]
    BY <1>0, <1>1, Zenon
  <2>2. /\ state' = "idle" /\ waiter' \in WaiterPc
        /\ proc' \in [Procs -> [pc : ProcPc, round : 0..MaxRounds]]
        /\ waiter' = "waiting" => \E r \in Procs : proc'[r].pc = "cancelled"
    BY <1>3, <2>1, ResetFacts DEF TypeOK
  <2> QED BY <1>3, <2>2, Zenon DEF TypeOK, SignalNotForgotten, ResendingOnlyInRound
<1>4. CASE procCancelled(p) BY <1>3, <1>4 DEF procCancelled, TypeOK
<1>5. CASE procCompletes(p)
  <2>1. CASE state = "resending"
    <3>1. met' \in BOOLEAN BY <1>5, <2>1, Zenon DEF procCompletes
    <3> QED BY <1>3, <1>5, <2>1, <3>1, Zenon DEF procCompletes
  <2>2. CASE state # "resending"
    <3>1. proc' = Moved(p, "done") /\ UNCHANGED <<state, waiter, met>>
      BY <1>5, <2>2, Zenon DEF procCompletes
    <3>2. \A q \in Procs : proc[q].pc = "cancelled" => proc'[q].pc = "cancelled"
      BY <1>0, <1>1, <1>5, <3>1, Zenon DEF procCompletes
    <3>3. proc' \in [Procs -> [pc : ProcPc, round : 0..MaxRounds]]
      BY <1>0, <1>1, <3>1, Zenon
    <3> QED BY <1>5, <3>1, <3>2, <3>3, Zenon
            DEF procCompletes, TypeOK, SignalNotForgotten, ResendingOnlyInRound
  <2> QED BY <2>1, <2>2, Zenon
<1> QED BY <1>2, <1>4, <1>5 DEF proceedAfterTime

\* Every step preserves the invariant.
LEMMA SyncNext == SyncInv /\ [Next]_vars => SyncInv'
<1> SUFFICES ASSUME SyncInv, [Next]_vars PROVE SyncInv'
  OBVIOUS
<1>1. CASE UNCHANGED vars
  BY <1>1 DEF vars, historyVars, SyncInv, TypeOK, SignalNotForgotten,
     ResendingOnlyInRound
<1> QED BY <1>1, SendSteps, ReceiveSteps, ProceedSteps DEF Next

\* Type correctness of the syncer.
THEOREM SyncerTypes == Spec => []TypeOK
<1>1. SyncInv => TypeOK BY DEF SyncInv
<1> QED BY <1>1, SyncInit, SyncNext, PTL DEF Spec

\* However the signal on cancel is caught, a waitForSync that was listening
\* when the sync completed is woken or has a goroutine about to wake it.
THEOREM SignalKept == Spec => []SignalNotForgotten
<1>1. SyncInv => SignalNotForgotten BY DEF SyncInv
<1> QED BY <1>1, SyncInit, SyncNext, PTL DEF Spec

-----------------------------------------------------------------------------
\* For sequence spaces of at most 128 numbers the uint8 sum in initResendUpTo
\* does not wrap, and expectedACK is the predecessor of top.
LEMMA LastResentIsPredecessor ==
    ASSUME N <= 127, NEW t \in Seqs
    PROVE  succ(lastResent(t)) = t
<1>1. s \in Nat \ {0} /\ s <= 128 /\ t \in 0..(s - 1) BY SFact DEF Seqs
<1>2. s + t - 1 \in Nat /\ s + t - 1 < 256 BY <1>1
<1>3. (s + t - 1) % 256 = s + t - 1 BY <1>2
<1>4. CASE t = 0
  <2>1. s + t - 1 = s - 1 /\ s - 1 \in Nat /\ s - 1 < s BY <1>1, <1>4
  <2>2. (s - 1) % s = s - 1 /\ ((s - 1) + 1) % s = 0 BY <1>1
  <2> QED BY <1>3, <1>4, <2>1, <2>2 DEF lastResent, succ
<1>5. CASE t # 0
  <2>1. /\ t - 1 \in Nat /\ t - 1 < s /\ s + t - 1 = s + (t - 1) /\ (t - 1) + 1 = t
        /\ s \in Nat
    BY <1>1, <1>5
  <2>2. (s + (t - 1)) % s = t - 1 BY <1>1, <2>1, ModWraps
  <2>3. t % s = t BY <1>1
  <2> QED BY <1>3, <2>1, <2>2, <2>3 DEF lastResent, succ
<1> QED BY <1>4, <1>5

\* With n <= 127 every step keeps expectedACK and expectedNACK about the last
\* packet of the queue.
LEMMA ExpectedNext ==
    ASSUME N <= 127, SyncInv, ExpectedIsLast, [Next]_vars
    PROVE  ExpectedIsLast'
<1> SUFFICES ASSUME state' = "resending"
             PROVE  succ(expectedACK') = expectedNACK' /\ expectedNACK' = sequenceTop'
  BY DEF ExpectedIsLast, succ
<1>1. CASE initResendUpTo
  BY <1>1, LastResentIsPredecessor DEF initResendUpTo, SyncInv, TypeOK
<1>2. ASSUME UNCHANGED <<expectedACK, expectedNACK, sequenceTop, state>>
      PROVE  succ(expectedACK') = expectedNACK' /\ expectedNACK' = sequenceTop'
  BY <1>2 DEF ExpectedIsLast, succ
<1>3. CASE addPacket
  <2>1. state # "resending"
    BY <1>3 DEF addPacket, SyncInv, ResendingOnlyInRound
  <2> QED BY <1>3, <2>1 DEF addPacket
<1>4. CASE UNCHANGED vars BY <1>2, <1>4 DEF vars
<1>5. CASE waitForSync \/ syncTimeout \/ syncReset \/ stop \/ waiterStops
  BY <1>2, <1>5 DEF waitForSync, syncTimeout, syncReset, stop, waiterStops,
     resetUnsafe
<1>6. ASSUME NEW d \in 0..size(sequenceBase, sequenceTop),
             processACK(d) \/ processNACK(d)
      PROVE  UNCHANGED <<expectedACK, expectedNACK, sequenceTop, state>>
  BY <1>6 DEF processACK, processNACK, resetUnsafe
<1>7. ASSUME NEW p \in Procs, proceedAfterTime(p)
      PROVE  UNCHANGED <<expectedACK, expectedNACK, sequenceTop, state>>
  BY <1>7 DEF proceedAfterTime, procWaits, procExpires, procCompletes, procCancelled,
     procStops, resetUnsafe
<1> QED BY <1>1, <1>2, <1>3, <1>4, <1>5, <1>6, <1>7 DEF Next

\* With n <= 127 the syncer waits for the ACK of the last packet resent and the
\* NACK of the packet after it. (For larger n the ACK is another one.)
THEOREM ExpectedCorrect ==
    ASSUME N <= 127
    PROVE  Spec => []ExpectedIsLast
<1>1. Init => ExpectedIsLast BY DEF Init, ExpectedIsLast
<1> QED BY <1>1, ExpectedNext, SyncInit, SyncNext, PTL DEF Spec

-----------------------------------------------------------------------------
\* The ACK of the last packet of a window releases all of it.
LEMMA AckOfLastEmpties ==
    ASSUME NEW b \in Seqs, NEW t \in Seqs, NEW seq \in Seqs, b # t, succ(seq) = t
    PROVE  ackedBase(b, t, seq) = t
<1>1. /\ s \in Nat \ {0} /\ s >= 2
      /\ b \in 0..(s - 1) /\ t \in 0..(s - 1) /\ seq \in 0..(s - 1)
  BY SFact DEF Seqs
<1>2. CASE seq + 1 < s
  <2>1. (seq + 1) % s = seq + 1 BY <1>1, <1>2
  <2>2. t = seq + 1 BY <2>1 DEF succ
  <2> QED BY <1>1, <2>2 DEF ackedBase, ackValid, containsSequence, size
<1>3. CASE seq = s - 1
  <2>1. s % s = 0 /\ seq + 1 = s BY <1>1, <1>3
  <2>2. t = 0 BY <2>1 DEF succ
  <2> QED BY <1>1, <1>3, <2>2 DEF ackedBase, ackValid, containsSequence, size
<1> QED BY <1>1, <1>2, <1>3

\* What OneProceederPerRound needs to be inductive: a goroutine belongs to a
\* resend that has begun, and the goroutine of the current resend was started
\* when the queue was emptied.
ProceederInv ==
    /\ OneProceederPerRound
    /\ \A p \in Procs : proc[p].pc # "none" => proc[p].round <= round
    /\ \A p \in Procs : proc[p].pc # "none" /\ proc[p].round = round
           => state = "idle" \/ sequenceBase = sequenceTop

\* Who ends a goroutine or a resend starts none.
LEMMA ProceederKept ==
    ASSUME SyncInv, ProceederInv,
           \A p \in Procs : /\ proc'[p].round = proc[p].round
                            /\ proc[p].pc = "none" => proc'[p].pc = "none",
           round' = round, state' = state \/ state' = "idle",
           sequenceBase = sequenceTop => sequenceBase' = sequenceTop'
    PROVE  ProceederInv'
BY DEF ProceederInv, OneProceederPerRound, SyncInv, TypeOK

\* The goroutines after resetUnsafe are those before it.
LEMMA ResetProcs ==
    ASSUME NEW w, NEW q \in [Procs -> [pc : ProcPc, round : 0..MaxRounds]],
           resetUnsafe(w, q)
    PROVE  \A p \in Procs : /\ proc'[p].round = q[p].round
                            /\ q[p].pc = "none" => proc'[p].pc = "none"
BY DEF resetUnsafe

\* Every step keeps the goroutines apart.
LEMMA ProceederNext ==
    ASSUME SyncInv, ExpectedIsLast, ProceederInv, [Next]_vars
    PROVE  ProceederInv'
<1>0. /\ sequenceBase \in Seqs /\ sequenceTop \in Seqs /\ round \in Nat
      /\ proc \in [Procs -> [pc : ProcPc, round : 0..MaxRounds]]
      /\ expectedACK \in Seqs
  BY RoundsAreNat, Zenon DEF SyncInv, TypeOK
<1>1. CASE UNCHANGED <<proc, round, state, sequenceBase, sequenceTop>>
  BY <1>1, ProceederKept, Zenon
<1>2. CASE addPacket
  <2>1. state = "idle" /\ state' = "idle"
    BY <1>2 DEF addPacket, SyncInv, TypeOK, ResendingOnlyInRound
  <2> QED BY <1>2, <2>1, Zenon
             DEF addPacket, historyVars, ProceederInv, OneProceederPerRound
<1>3. CASE initResendUpTo
  <2>1. proc' = proc /\ round' = round + 1 BY <1>3 DEF initResendUpTo
  <2>2. \A p \in Procs : proc[p].round \in Nat BY <1>0, RoundsAreNat
  <2> QED BY <1>0, <2>1, <2>2 DEF ProceederInv, OneProceederPerRound
<1>4. CASE syncReset
  <2>1. /\ state' = "idle"
        /\ UNCHANGED <<round, sequenceBase, sequenceTop>>
        /\ resetUnsafe("idle", proc)
    BY <1>4 DEF syncReset, resetUnsafe, historyVars
  <2> QED BY <1>0, <2>1, ResetProcs, ProceederKept, Zenon
<1>5. ASSUME NEW d \in 0..size(sequenceBase, sequenceTop), processACK(d)
      PROVE  ProceederInv'
  <2> DEFINE seq == (s + sequenceBase + d - 1) % s
  <2>1. /\ sequenceBase # sequenceTop
        /\ UNCHANGED <<round, state, sequenceTop>>
        /\ sequenceBase' = ackedBase(sequenceBase, sequenceTop, seq)
        /\ IF state = "resending" /\ seq = expectedACK
           THEN \E p \in Procs :
                    /\ proc[p].pc = "none"
                    /\ proc' = [proc EXCEPT ![p] = [pc |-> "started",
                                                    round |-> round]]
           ELSE UNCHANGED proc
    BY <1>0, <1>5, SizeRange DEF processACK, historyVars
  <2> HIDE DEF seq
  <2>2. CASE state = "resending" /\ seq = expectedACK
    <3>1. PICK p \in Procs :
            /\ proc[p].pc = "none"
            /\ proc' = [proc EXCEPT ![p] = [pc |-> "started", round |-> round]]
      BY <2>1, <2>2
    <3>2. sequenceBase' = sequenceTop'
      BY <1>0, <2>1, <2>2, AckOfLastEmpties DEF ExpectedIsLast
    <3>3. \A q \in Procs : proc[q].pc # "none" => proc[q].round # round
      BY <2>1, <2>2 DEF ProceederInv
    <3>4. /\ proc'[p].round = round
          /\ \A q \in Procs : q # p => proc'[q] = proc[q]
      BY <1>0, <3>1
    <3>5. round' = round /\ round <= round BY <1>0, <2>1
    <3>6. OneProceederPerRound'
      BY <3>3, <3>4, ZenonT(40) DEF ProceederInv, OneProceederPerRound
    <3>7. \A q \in Procs : proc'[q].pc # "none" => proc'[q].round <= round'
      BY <3>4, <3>5 DEF ProceederInv
    <3> QED BY <3>2, <3>6, <3>7, Zenon DEF ProceederInv
  <2>3. CASE ~(state = "resending" /\ seq = expectedACK)
    BY <2>1, <2>3, ProceederKept
  <2> QED BY <2>2, <2>3
<1>6. ASSUME NEW d \in 0..size(sequenceBase, sequenceTop), processNACK(d)
      PROVE  ProceederInv'
  <2>1. sequenceBase = sequenceTop => sequenceBase' = sequenceTop'
    BY <1>6 DEF processNACK, nackedBase, nackResend, containsSequence
  <2>2. CASE UNCHANGED <<state, proc>>
    BY <1>6, <2>1, <2>2, ProceederKept, Zenon DEF processNACK
  <2>3. CASE resetUnsafe(waiter, proc)
    <3>1. state' = "idle" /\ round' = round BY <1>6, <2>3, Zenon DEF resetUnsafe, processNACK
    <3> QED BY <1>0, <2>1, <2>3, <3>1, ResetProcs, ProceederKept, Zenon
  <2> QED BY <1>6, <2>2, <2>3 DEF processNACK
<1>7. ASSUME NEW p \in Procs, proceedAfterTime(p)
      PROVE  ProceederInv'
  <2>1. \A pc \in ProcPc :
          /\ Moved(p, pc) \in [Procs -> [pc : ProcPc, round : 0..MaxRounds]]
          /\ Moved(p, pc)[p].pc = pc
          /\ \A q \in Procs : /\ Moved(p, pc)[q].round = proc[q].round
                              /\ q # p => Moved(p, pc)[q] = proc[q]
    BY <1>0 DEF Moved
  <2>2. /\ proc[p].pc # "none" /\ round' = round
        /\ UNCHANGED <<sequenceBase, sequenceTop>>
        /\ state' = state \/ state' = "idle"
    BY <1>7 DEF proceedAfterTime, procWaits, procExpires, procCompletes, procCancelled,
       procStops, resetUnsafe, historyVars
  <2>3. {"waiting", "expired", "done"} \subseteq ProcPc BY Zenon DEF ProcPc
  <2>4. CASE \E pc \in {"waiting", "expired", "done"} : proc' = Moved(p, pc)
    <3>1. PICK pc \in ProcPc : proc' = [proc EXCEPT ![p].pc = pc]
      BY <2>3, <2>4, Zenon DEF Moved
    <3>2. \A q \in Procs : /\ proc'[q].round = proc[q].round
                           /\ q # p => proc'[q] = proc[q]
      BY <1>0, <3>1
    <3> QED BY <2>2, <3>2, ProceederKept, Zenon
  <2>5. CASE resetUnsafe(waiter, Moved(p, "done"))
    <3> DEFINE m == Moved(p, "done")
    <3>1. /\ m \in [Procs -> [pc : ProcPc, round : 0..MaxRounds]]
          /\ \A q \in Procs : /\ m[q].round = proc[q].round
                              /\ proc[q].pc = "none" => m[q].pc = "none"
      BY <2>1, <2>2, <2>3, Zenon
    <3> HIDE DEF m
    <3>2. \A q \in Procs : /\ proc'[q].round = m[q].round
                           /\ m[q].pc = "none" => proc'[q].pc = "none"
      BY <2>5, <3>1, ResetProcs, Zenon DEF m
    <3>3. \A q \in Procs : /\ proc'[q].round = proc[q].round
                           /\ proc[q].pc = "none" => proc'[q].pc = "none"
      BY <3>1, <3>2
    <3> QED BY <2>2, <3>3, ProceederKept, Zenon
  <2> QED BY <1>7, <2>4, <2>5, Zenon
          DEF proceedAfterTime, procWaits, procExpires, procCompletes, procCancelled,
              procStops
<1> QED
  BY <1>1, <1>2, <1>3, <1>4, <1>5, <1>6, <1>7
  DEF Next, vars, historyVars, waitForSync, syncTimeout, stop, waiterStops

\* With n <= 127 a resend starts at most one proceedAfterTime goroutine, and the
\* syncer listens to ACKs and NACKs only during a resend. (For larger n the
\* expected ACK may leave packets in the queue, and come twice.)
THEOREM SyncerCorrect ==
    ASSUME N <= 127
    PROVE  Spec => []SyncerInv
<1>1. Init => ExpectedIsLast /\ ProceederInv
  BY DEF Init, ExpectedIsLast, ProceederInv, OneProceederPerRound
<1>2. SyncInv /\ ProceederInv => SyncerInv BY DEF SyncInv, ProceederInv, SyncerInv
<1> QED
  BY <1>1, <1>2, ExpectedNext, ProceederNext, SyncInit, SyncNext, PTL DEF Spec

-----------------------------------------------------------------------------
(***************************************************************************)
(* The keepalive, with a window of w packets.                              *)
(***************************************************************************)

Senders == {"select", "pinged", "arm", "resume", "resetPing", "sendPing", "full", "closed"}

\* A ping was sent, or is about to be.
pinging == pinged \/ sender \in {"resetPing", "sendPing"}

\* A pong tick, as long as it is somewhere, stems from the clock of the latest ping.
TickPart ==
    /\ due \in [{"ping", "pong"} -> BOOLEAN] /\ isActive \in [{"ping", "pong"} -> BOOLEAN]
    /\ gor \in [{"ping", "pong"} -> {"wait", "read", "offer"}]
    /\ sender \in Senders /\ ticked \in BOOLEAN
    /\ gor["pong"] # "wait" => ticked /\ pinging
    /\ due["pong"] => ticked
    /\ sender = "closed" \/ isActive["pong"] => pinging

\* The ACKs on their way are about packets in the queue, and the queue has room
\* wherever the send goroutine may add to it.
LoadPart(w) ==
    /\ queued \in 0 .. w /\ acks \in 0 .. w /\ other \in 0 .. MaxPeer
    /\ gotACK \in BOOLEAN /\ fromPeer \in Nat
    /\ gotACK => receiver # "recv"
    /\ acks <= queued /\ (gotACK => acks < queued)
    /\ sender # "full" => queued < w
    /\ other <= fromPeer /\ fromPeer <= MaxPeer

TickersInv(w) == TickPart /\ LoadPart(w)

\* The invariant holds when the connection starts.
LEMMA TickersInit ==
    ASSUME NEW w \in Nat \ {0}, NEW prompt \in BOOLEAN, K(w, prompt)!Init
    PROVE  TickersInv(w)
<1>1. TickPart
  BY Zenon DEF K!Init, K!Tickers, TickPart, Senders
<1>2. /\ queued = 0 /\ acks = 0 /\ other = 0 /\ fromPeer = 0
  BY DEF K!Init
<1>3. gotACK \in BOOLEAN /\ ~gotACK BY Zenon DEF K!Init
<1>4. LoadPart(w) BY <1>2, <1>3, KeepaliveAssumption DEF LoadPart
<1> QED BY <1>1, <1>4, Zenon DEF TickersInv

\* The invariant is enough.
LEMMA TickersPromise ==
    ASSUME NEW w, NEW prompt, TickersInv(w)
    PROVE  K(w, prompt)!KeepaliveInv
BY Zenon DEF TickersInv, TickPart, LoadPart, Senders, pinging, K!KeepaliveInv, K!TypeOK,
       K!TickOfLatestPing, K!TimeoutNeedsPing, K!Tickers

\* Who leaves the tickers alone and closes nothing keeps the tick.
LEMMA TickKept ==
    ASSUME TickPart, UNCHANGED <<due, gor, isActive, ticked>>, sender' \in Senders,
           sender' = "closed" => sender = "closed", pinging => pinging'
    PROVE  TickPart'
BY Zenon DEF TickPart

\* Who leaves the packets alone keeps the load.
LEMMA LoadKept ==
    ASSUME NEW w, LoadPart(w), UNCHANGED <<queued, acks, other, fromPeer, gotACK>>,
           receiver' = receiver \/ receiver' # "recv",
           sender' = sender \/ sender # "full"
    PROVE  LoadPart(w)'
BY Zenon DEF LoadPart

\* Every step of the keepalive keeps the tick.
LEMMA TickNext ==
    ASSUME NEW w, NEW prompt, TickPart, K(w, prompt)!Next
    PROVE  TickPart'
<1> USE DEF K!Tickers, K!tickerVars, K!receiverVars, K!loadVars
<1>1. ASSUME NEW t \in {"ping", "pong"}, K(w, prompt)!clock(t) PROVE TickPart'
  BY <1>1, Zenon DEF K!clock, TickPart, pinging
<1>2. ASSUME NEW t \in {"ping", "pong"}, K(w, prompt)!goroutine(t) PROVE TickPart'
  BY <1>2, ZenonT(40) DEF K!goroutine, TickPart, pinging
<1>3. CASE K(w, prompt)!takePing
  BY <1>3, Zenon DEF K!takePing, K!take, TickPart, Senders, pinging
<1>4. CASE K(w, prompt)!keepaliveWins
  BY <1>4, Zenon DEF K!keepaliveWins, K!take, TickPart, Senders, pinging
<1>5. CASE K(w, prompt)!armPong
  BY <1>5, Zenon DEF K!armPong, K!resetWithInterval, TickPart, Senders, pinging
<1>6. CASE K(w, prompt)!resumePong
  BY <1>6, Zenon DEF K!resumePong, TickPart, Senders, pinging
<1>7. CASE K(w, prompt)!resetPing
  BY <1>7, Zenon DEF K!resetPing, K!resetWithInterval, TickPart, Senders, pinging
<1>8. CASE K(w, prompt)!keepaliveTimeout
  BY <1>8, Zenon DEF K!keepaliveTimeout, K!take, TickPart, Senders, pinging
<1>9. CASE K(w, prompt)!recvResetPing
  BY <1>9, Zenon DEF K!recvResetPing, K!resetWithInterval, TickPart, pinging
<1>10. CASE K(w, prompt)!recvPausePong
  BY <1>10, Zenon DEF K!recvPausePong, K!Pause, TickPart, pinging
<1>11. CASE K(w, prompt)!sendPing \/ K(w, prompt)!sendData \/ K(w, prompt)!leaveFull
  <2>1. sender' \in {"select", "full"} /\ UNCHANGED <<due, gor, isActive, ticked>>
    BY <1>11, Zenon DEF K!sendPing, K!sendData, K!leaveFull, K!addPacket
  <2>2. pinging => pinging'
    BY <1>11, Zenon DEF K!sendPing, K!sendData, K!leaveFull, pinging
  <2> QED BY <2>1, <2>2, TickKept, Zenon DEF Senders
<1>12. CASE UNCHANGED <<due, gor, isActive, ticked, sender, pinged>>
  BY <1>12, TickKept, Zenon DEF TickPart, pinging
<1> QED
  BY <1>1, <1>2, <1>3, <1>4, <1>5, <1>6, <1>7, <1>8, <1>9, <1>10, <1>11, <1>12, Zenon
  DEF K!Next, K!sendGoroutine, K!receiveGoroutine, K!recvPacket, K!recvCheckPong,
      K!recvProcess, K!peerACK, K!peerSend, K!peerDies

\* Every step of the keepalive keeps the load.
LEMMA LoadNext ==
    ASSUME NEW w \in Nat \ {0}, NEW prompt, LoadPart(w), K(w, prompt)!Next
    PROVE  LoadPart(w)'
<1> USE DEF K!receiverVars, K!loadVars
<1>1. ASSUME NEW t \in K(w, prompt)!Tickers,
             K(w, prompt)!clock(t) \/ K(w, prompt)!goroutine(t)
      PROVE  LoadPart(w)'
  BY <1>1, LoadKept, Zenon DEF K!clock, K!goroutine
<1>2. CASE \/ K(w, prompt)!takePing \/ K(w, prompt)!keepaliveWins
           \/ K(w, prompt)!armPong \/ K(w, prompt)!resumePong
           \/ K(w, prompt)!resetPing \/ K(w, prompt)!keepaliveTimeout
  <2>1. sender # "full" /\ UNCHANGED <<receiver, gotACK, queued, acks, other, fromPeer>>
    BY <1>2 DEF K!takePing, K!keepaliveWins, K!armPong, K!resumePong, K!resetPing,
                K!keepaliveTimeout
  <2> QED BY <2>1, LoadKept, Zenon
<1>3. CASE K(w, prompt)!sendPing \/ K(w, prompt)!sendData
  <2>1. /\ sender # "full" /\ queued' = queued + 1
        /\ sender' = IF queued' < w THEN "select" ELSE "full"
        /\ UNCHANGED <<receiver, gotACK, acks, other, fromPeer>>
    BY <1>3 DEF K!sendPing, K!sendData, K!addPacket
  <2> QED BY <2>1 DEF LoadPart
<1>4. CASE K(w, prompt)!leaveFull BY <1>4, Zenon DEF K!leaveFull, LoadPart
<1>5. CASE K(w, prompt)!recvPacket
  <2>1. UNCHANGED <<sender, queued, fromPeer>> /\ receiver' # "recv" /\ receiver = "recv"
    BY <1>5 DEF K!recvPacket
  <2>2. CASE acks > 0 /\ acks' = acks - 1 /\ gotACK' = TRUE /\ UNCHANGED other
    BY <2>1, <2>2 DEF LoadPart
  <2>3. CASE other > 0 /\ other' = other - 1 /\ gotACK' = FALSE /\ UNCHANGED acks
    <3>1. gotACK' \in BOOLEAN /\ ~gotACK' BY <2>3, Zenon
    <3>2. other' \in 0 .. MaxPeer /\ other' <= fromPeer'
      BY <2>1, <2>3, KeepaliveAssumption DEF LoadPart
    <3> QED BY <2>1, <2>3, <3>1, <3>2, Zenon DEF LoadPart
  <2> QED BY <1>5, <2>2, <2>3, Zenon DEF K!recvPacket
<1>6. CASE \/ K(w, prompt)!recvResetPing \/ K(w, prompt)!recvCheckPong
           \/ K(w, prompt)!recvPausePong
  <2>1. receiver' # "recv" /\ UNCHANGED <<sender, gotACK, queued, acks, other, fromPeer>>
    BY <1>6 DEF K!recvResetPing, K!recvCheckPong, K!recvPausePong
  <2> QED BY <2>1, LoadKept, Zenon
<1>7. CASE K(w, prompt)!recvProcess
  <2>1. gotACK' \in BOOLEAN /\ ~gotACK' BY <1>7, Zenon DEF K!recvProcess
  <2>2. UNCHANGED <<sender, acks, other, fromPeer>> BY <1>7 DEF K!recvProcess
  <2>3. CASE gotACK
    <3>1. queued' = queued - 1 BY <1>7, <2>3, Zenon DEF K!recvProcess
    <3>2. queued' \in 0 .. w /\ acks' <= queued' /\ (queued < w => queued' < w)
      BY <2>2, <2>3, <3>1 DEF LoadPart
    <3> QED BY <2>1, <2>2, <3>2, Zenon DEF LoadPart
  <2>4. CASE ~gotACK
    <3>1. queued' = queued BY <1>7, <2>4, Zenon DEF K!recvProcess
    <3> QED BY <2>1, <2>2, <3>1, Zenon DEF LoadPart
  <2> QED BY <2>3, <2>4
<1>8. CASE K(w, prompt)!peerACK
  <2>1. /\ acks' = acks + 1 /\ acks + (IF gotACK THEN 1 ELSE 0) < queued
        /\ UNCHANGED <<sender, receiver, gotACK, queued, other, fromPeer>>
    BY <1>8 DEF K!peerACK
  <2> QED BY <2>1 DEF LoadPart
<1>9. CASE K(w, prompt)!peerSend
  <2>1. /\ fromPeer < MaxPeer /\ other' = other + 1 /\ fromPeer' = fromPeer + 1
        /\ UNCHANGED <<sender, receiver, gotACK, queued, acks>>
    BY <1>9 DEF K!peerSend
  <2> QED BY <2>1, KeepaliveAssumption DEF LoadPart
<1>10. CASE K(w, prompt)!peerDies BY <1>10, LoadKept, Zenon DEF K!peerDies
<1> QED
  BY <1>1, <1>2, <1>3, <1>4, <1>5, <1>6, <1>7, <1>8, <1>9, <1>10, Zenon
  DEF K!Next, K!sendGoroutine, K!receiveGoroutine

\* Every step of the keepalive preserves the invariant.
LEMMA TickersNext ==
    ASSUME NEW w \in Nat \ {0}, NEW prompt \in BOOLEAN, TickersInv(w),
           K(w, prompt)!Next
    PROVE  TickersInv(w)'
BY TickNext, LoadNext, Zenon DEF TickersInv

\* A step that leaves the keepalive alone preserves the invariant.
LEMMA TickersStutter ==
    ASSUME NEW w, TickersInv(w), UNCHANGED keepaliveVars
    PROVE  TickersInv(w)'
BY Zenon DEF keepaliveVars, TickersInv, TickPart, LoadPart, pinging

\* For every window size, load and speed of the goroutines: the queue is not
\* overfilled, a pong tick stems from the clock of the latest ping, and a
\* connection is closed by the keepalive only after a ping was sent.
THEOREM TickersCorrect ==
    ASSUME NEW CONSTANT w \in Nat \ {0}, NEW CONSTANT prompt \in BOOLEAN
    PROVE  K(w, prompt)!Spec => []K(w, prompt)!KeepaliveInv
<1>1. K(w, prompt)!Init => TickersInv(w) BY TickersInit
<1>2. TickersInv(w) /\ [K(w, prompt)!Next]_(K(w, prompt)!vars) => TickersInv(w)'
  <2>1. UNCHANGED K(w, prompt)!vars => UNCHANGED keepaliveVars
    BY DEF K!vars, K!tickerVars, K!receiverVars, K!loadVars, keepaliveVars
  <2> QED BY <2>1, TickersNext, TickersStutter, Zenon
<1>3. TickersInv(w) => K(w, prompt)!KeepaliveInv
  BY TickersPromise, Zenon
<1> QED BY <1>1, <1>2, <1>3, PTL DEF K!Spec

\* The same of the two keepalives among the timers, with their window sizes.
THEOREM KeepaliveCorrect == MCSpec => []KeepaliveInv
<1> DEFINE Inv == /\ part = "keepalive" => TickersInv(SmallN)
                  /\ part = "prompt" => TickersInv(LargeN)
<1>1. MCInit => Inv
  <2>1. K(SmallN, FALSE)!Init => K(LargeN, TRUE)!Init BY DEF K!Init, K!Tickers
  <2> QED BY <2>1, TickersInit, KeepaliveAssumption, Zenon DEF MCInit
<1>2. Inv /\ [MCNext]_mcVars => Inv'
  <2> SUFFICES ASSUME Inv, [MCNext]_mcVars PROVE Inv'
    OBVIOUS
  <2>1. CASE part' = part /\ UNCHANGED keepaliveVars
    BY <2>1, TickersStutter, Zenon
  <2>2. CASE part = "keepalive" /\ part' = part /\ K(SmallN, FALSE)!Next
    BY <2>2, TickersNext, KeepaliveAssumption, Zenon
  <2>3. CASE part = "prompt" /\ part' = part /\ K(LargeN, TRUE)!Next
    BY <2>3, TickersNext, KeepaliveAssumption, Zenon
  <2> QED BY <2>1, <2>2, <2>3, Zenon DEF MCNext, mcVars
<1>3. Inv => KeepaliveInv
  BY TickersPromise, Zenon DEF KeepaliveInv
<1> QED BY <1>1, <1>2, <1>3, PTL DEF MCSpec, MCSafety

=============================================================================
