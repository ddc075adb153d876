------------------------------- MODULE Listener -------------------------------
(***************************************************************************)
(* The TCP listener of mailbox/tcp_noise_listner.go: a goroutine accepts   *)
(* connections, a goroutine for each of them does the Noise handshake, and *)
(* Accept gets what they deliver on the unbuffered channel conns. The      *)
(* channel handshakeSema holds a token for every handshake that may start. *)
(***************************************************************************)
EXTENDS Naturals, FiniteSets

CONSTANTS
    Peers,              \* the connections
    defaultHandshakes   \* tokens

ASSUME PeersAssumption == IsFiniteSet(Peers)
ASSUME HandshakesAssumption == defaultHandshakes \in Nat \ {0}

VARIABLES
    handshakeSema,  \* tokens in the channel
    listener,       \* where the goroutine of listen is
    conn,           \* the state of each TCP connection
    handshake,      \* where the goroutine of doHandshake is
    broken,         \* connections for which no noise machine could be made
    accepting,      \* a call of Accept is waiting
    quit,
    tcpClosed       \* the TCP listener is closed

vars == <<handshakeSema, listener, conn, handshake, broken, accepting, quit,
          tcpClosed>>
closing == <<quit, tcpClosed>>

Listening == {"sema", "accept", "reject", "release", "end"}
Holding == {"accept", "reject", "release"}      \* listen has a token
Running == {"start", "act", "deliver", "reject", "release"}

Init ==
    /\ handshakeSema = defaultHandshakes
    /\ listener = "sema"
    /\ conn = [p \in Peers |-> "none"]
    /\ handshake = [p \in Peers |-> "none"]
    /\ broken = {} /\ accepting = FALSE /\ quit = FALSE
    /\ tcpClosed = FALSE

-----------------------------------------------------------------------------
(***************************************************************************)
(* The network and the user.                                               *)
(***************************************************************************)

connects(p) ==
    /\ conn[p] = "none" /\ ~tcpClosed
    /\ conn' = [conn EXCEPT ![p] = "backlog"]
    /\ UNCHANGED <<handshakeSema, listener, handshake, broken, accepting, closing>>

Accept ==
    /\ ~accepting /\ accepting' = TRUE
    /\ UNCHANGED <<handshakeSema, listener, conn, handshake, broken, closing>>

acceptEnds ==
    /\ accepting /\ quit /\ accepting' = FALSE
    /\ UNCHANGED <<handshakeSema, listener, conn, handshake, broken, closing>>

Close ==
    /\ ~quit /\ quit' = TRUE
    /\ UNCHANGED <<handshakeSema, listener, conn, handshake, broken, accepting,
                   tcpClosed>>

closeTCP ==
    /\ quit /\ ~tcpClosed /\ tcpClosed' = TRUE
    /\ conn' = [p \in Peers |-> IF conn[p] = "backlog" THEN "closed" ELSE conn[p]]
    /\ UNCHANGED <<handshakeSema, listener, handshake, broken, accepting, quit>>

\* A send on conns: Accept receives it, or nobody does and quit is closed.
delivered == \/ accepting /\ accepting' = FALSE
             \/ quit /\ UNCHANGED accepting

-----------------------------------------------------------------------------
(***************************************************************************)
(* listen                                                                  *)
(***************************************************************************)

listenTakes ==
    /\ listener = "sema" /\ handshakeSema > 0
    /\ handshakeSema' = handshakeSema - 1 /\ listener' = "accept"
    /\ UNCHANGED <<conn, handshake, broken, accepting, closing>>

listenQuits ==
    /\ listener = "sema" /\ quit /\ listener' = "end"
    /\ UNCHANGED <<handshakeSema, conn, handshake, broken, accepting, closing>>

listenAccepts(p) ==
    /\ listener = "accept" /\ conn[p] = "backlog"
    /\ conn' = [conn EXCEPT ![p] = "open"]
    /\ handshake' = [handshake EXCEPT ![p] = "start"]
    /\ listener' = "sema"
    /\ UNCHANGED <<handshakeSema, broken, accepting, closing>>

\* The TCP listener fails, for good when it is closed.
listenFails ==
    /\ listener = "accept" /\ listener' = "reject"
    /\ UNCHANGED <<handshakeSema, conn, handshake, broken, accepting, closing>>

listenRejects ==
    /\ listener = "reject" /\ delivered
    /\ listener' = "release"
    /\ UNCHANGED <<handshakeSema, conn, handshake, broken, closing>>

\* Slip: the token of a failed accept is not given back.
listenReleasesNot ==
    /\ listener = "release"
    /\ listener' = "sema"
    /\ UNCHANGED <<handshakeSema, conn, handshake, broken, accepting, closing>>

\* The channel has room for all tokens.
listenReleases ==
    /\ listener = "release" /\ handshakeSema < defaultHandshakes
    /\ handshakeSema' = handshakeSema + 1 /\ listener' = "sema"
    /\ UNCHANGED <<conn, handshake, broken, accepting, closing>>

-----------------------------------------------------------------------------
(***************************************************************************)
(* doHandshake                                                             *)
(***************************************************************************)

goto(p, where) == handshake' = [handshake EXCEPT ![p] = where]

handshakeBegins(p) ==
    /\ handshake[p] = "start"
    /\ goto(p, IF quit THEN "release" ELSE "act")
    /\ UNCHANGED <<handshakeSema, listener, conn, broken, accepting, closing>>

\* NewBrontideMachine fails; the connection stays open.
machineFails(p) ==
    /\ handshake[p] = "start" /\ ~quit
    /\ broken' = broken \cup {p} /\ goto(p, "reject")
    /\ UNCHANGED <<handshakeSema, listener, conn, accepting, closing>>

\* DoHandshake fails, when the read deadline passes at the latest.
handshakeFails(p) ==
    /\ handshake[p] = "act"
    /\ conn' = [conn EXCEPT ![p] = "closed"] /\ goto(p, "reject")
    /\ UNCHANGED <<handshakeSema, listener, broken, accepting, closing>>

handshakeSucceeds(p) ==
    /\ handshake[p] = "act"
    /\ goto(p, IF quit THEN "release" ELSE "deliver")
    /\ UNCHANGED <<handshakeSema, listener, conn, broken, accepting, closing>>

\* Slip: the connection is delivered without looking at quit.
acceptConnBlocks(p) ==
    /\ handshake[p] = "deliver" /\ accepting /\ accepting' = FALSE
    /\ conn' = [conn EXCEPT ![p] = "delivered"]
    /\ goto(p, "release")
    /\ UNCHANGED <<handshakeSema, listener, broken, closing>>

acceptConn(p) ==
    /\ handshake[p] = "deliver" /\ delivered
    /\ conn' = IF accepting' # accepting
               THEN [conn EXCEPT ![p] = "delivered"] ELSE conn
    /\ goto(p, "release")
    /\ UNCHANGED <<handshakeSema, listener, broken, closing>>

rejectConn(p) ==
    /\ handshake[p] = "reject" /\ delivered
    /\ goto(p, "release")
    /\ UNCHANGED <<handshakeSema, listener, conn, broken, closing>>

\* The deferred function gives the token back.
handshakeReleases(p) ==
    /\ handshake[p] = "release" /\ handshakeSema < defaultHandshakes
    /\ handshakeSema' = handshakeSema + 1 /\ goto(p, "end")
    /\ UNCHANGED <<listener, conn, broken, accepting, closing>>

\* listen waits in tcp.Accept for a connection or for Close.
listen ==
    \/ listenTakes \/ listenRejects \/ listenReleases
    \/ \E p \in Peers : listenAccepts(p)
    \/ tcpClosed /\ listenFails

doHandshake(p) ==
    \/ handshakeBegins(p) \/ handshakeFails(p) \/ handshakeSucceeds(p)
    \/ acceptConn(p) \/ rejectConn(p) \/ handshakeReleases(p)

Next ==
    \/ Accept \/ acceptEnds \/ Close \/ closeTCP
    \/ listen \/ listenQuits \/ listenFails
    \/ \E p \in Peers : connects(p) \/ machineFails(p) \/ doHandshake(p)

Spec == Init /\ [][Next]_vars

\* The goroutines run, the select of listen does not pass over quit for ever,
\* and the user calls Accept again and again until it is closed.
FairSpec ==
    /\ Spec
    /\ WF_vars(listen) /\ SF_vars(listenQuits)
    /\ \A p \in Peers : /\ WF_vars(doHandshake(p))
                        /\ SF_vars(acceptConn(p)) /\ SF_vars(rejectConn(p))
                        /\ SF_vars(listenAccepts(p))
    /\ SF_vars(listenRejects)
    /\ WF_vars(~quit /\ Accept) /\ WF_vars(acceptEnds) /\ WF_vars(closeTCP)

-----------------------------------------------------------------------------
(***************************************************************************)
(* Properties.                                                             *)
(***************************************************************************)

active == {p \in Peers : handshake[p] \in Running}

\* Types.
TypeOK ==
    /\ handshakeSema \in 0 .. defaultHandshakes
    /\ listener \in Listening
    /\ conn \in [Peers -> {"none", "backlog", "open", "delivered", "closed"}]
    /\ handshake \in [Peers -> Running \cup {"none", "end"}]
    /\ broken \subseteq Peers /\ accepting \in BOOLEAN
    /\ quit \in BOOLEAN /\ tcpClosed \in BOOLEAN

\* handshakeSema: every token is in the channel, with listen or with one
\* handshake. Giving one back never blocks.
TokensConserved ==
    handshakeSema + Cardinality(active) + (IF listener \in Holding THEN 1 ELSE 0)
        = defaultHandshakes

\* listen: "A maximum of defaultHandshakes will be active at any given time."
HandshakesBounded == Cardinality(active) <= defaultHandshakes

\* doHandshake: every accepted connection is worked on, delivered to the user
\* or closed, unless the listener was closed or there was no noise machine.
NoLeak ==
    \A p \in Peers : conn[p] = "open" => p \in active \cup broken \/ quit

\* Close: all goroutines end, and any blocked Accept returns.
CloseUnblocks ==
    quit ~> (listener = "end" /\ ~accepting /\ active = {})

\* listen: a connection is delivered, closed or was given up, whatever others
\* do, as long as the user calls Accept.
Served ==
    \A p \in Peers : conn[p] = "backlog" ~>
        conn[p] \in {"delivered", "closed"} \/ p \in broken \/ quit

\* The listener: no token and no connection is lost, and no more handshakes
\* run than there are tokens.
ListenerInv == TypeOK /\ TokensConserved /\ HandshakesBounded /\ NoLeak

\* The listener: every connection is served until Close, and Close ends all.
ListenerLive == Served /\ CloseUnblocks

=============================================================================
