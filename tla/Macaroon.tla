------------------------------- MODULE Macaroon -------------------------------
(***************************************************************************)
(* What the clients read from the macaroon of the connection: GetExpiry,   *)
(* IsReadOnly, IsCustom and HasPermissions of cmd/wasm-client/main.go and  *)
(* mobile/mobile.go. The two loops of hasPermissions are run step by step. *)
(***************************************************************************)
EXTENDS Naturals, Sequences

CONSTANTS
    Entity, Action,
    URI,            \* the URIs of RPCs; they are actions of the entity "uri"
    Expiry,         \* expiry times, in seconds, below 2^31
    MaxOps          \* bound on the operations of a macaroon and of an RPC

ASSUME EntityAssumption == "uri" \in Entity
ASSUME ActionAssumption == "read" \in Action /\ URI \subseteq Action \ {"read"}
ASSUME NumberAssumption == Expiry \subseteq Nat \ {0} /\ MaxOps \in Nat

Op == [entity : Entity, actions : SUBSET Action]
RequiredOp == [entity : Entity \ {"uri"}, action : Action \ URI]

VARIABLES
    wasm,           \* the WASM client, else the mobile one
    mac,            \* "none", "bad" if its ID cannot be read, or "good"
    macOps, expiry, \* what is in it; an expiry of 0: no such caveat
    uri, requiredOps, knownURI,   \* the RPC that is asked about
    pc, macOpsMap, i, j,
    answer,         \* of the functions that return a Boolean
    told            \* the answer of GetExpiry, 0: an error or nil

vars == <<wasm, mac, macOps, expiry, uri, requiredOps, knownURI, pc, macOpsMap,
          i, j, answer, told>>
inputs == <<wasm, mac, macOps, expiry, uri, requiredOps, knownURI>>

upTo(S) == UNION {[1 .. n -> S] : n \in 0 .. MaxOps}

\* The library that makes macaroons groups their operations by entity.
canonical(ops) ==
    \A k, l \in DOMAIN ops : ops[k].entity = ops[l].entity => k = l

Init ==
    /\ wasm \in BOOLEAN
    /\ mac \in {"none", "bad", "good"}
    /\ macOps \in {ops \in upTo(Op) : canonical(ops)}
    /\ expiry \in Expiry \cup {0}
    /\ mac = "none" => expiry = 0
    /\ mac # "good" => macOps = << >>
    /\ uri \in URI /\ requiredOps = << >> /\ knownURI = FALSE
    /\ pc = "called"
    /\ macOpsMap = [e \in Entity |-> {}]
    /\ i = 1 /\ j = 1 /\ answer = FALSE /\ told = 0

returns(b) == answer' = b /\ UNCHANGED <<inputs, macOpsMap, i, j, told>>

-----------------------------------------------------------------------------
(***************************************************************************)
(* IsReadOnly, IsCustom and GetExpiry                                      *)
(***************************************************************************)

isReadOnly(ops) == \A k \in DOMAIN ops : ops[k].actions \subseteq {"read"}

IsReadOnly ==
    /\ pc = "called" /\ pc' = "IsReadOnly"
    /\ returns(mac = "good" /\ isReadOnly(macOps))

isCustom(ops) == \E k \in DOMAIN ops : ops[k].entity = "uri"

\* Of the WASM client only.
IsCustom ==
    /\ wasm /\ pc = "called" /\ pc' = "IsCustom"
    /\ returns(mac = "good" /\ isCustom(macOps))

\* string(rune(t)): the character t, and U+FFFD if there is none. rune keeps
\* the lower 32 bits, all of a time below 2^31.
runeString(t) ==
    IF t > 1114111 \/ t \in 55296 .. 57343 THEN 65533 ELSE t

\* The mobile client gives a string.
GetExpiry ==
    /\ pc = "called" /\ pc' = "GetExpiry"
    /\ told' = IF mac = "none" \/ expiry = 0 THEN 0
               ELSE IF wasm THEN expiry ELSE runeString(expiry)
    /\ UNCHANGED <<inputs, macOpsMap, i, j, answer>>

-----------------------------------------------------------------------------
(***************************************************************************)
(* HasPermissions                                                          *)
(***************************************************************************)

\* What the RPC needs comes from a table, in which it may be missing.
HasPermissions(ops, ok) ==
    /\ pc = "called"
    /\ requiredOps' = ops /\ knownURI' = ok
    /\ pc' = IF mac = "good" /\ ok THEN "collect" ELSE "HasPermissions"
    /\ UNCHANGED <<wasm, mac, macOps, expiry, uri, macOpsMap, i, j, answer, told>>

\* The lookup map is made. Only the WASM client knows operations on a URI.
grantsURI(op) == wasm /\ op.entity = "uri" /\ uri \in op.actions

\* Slip: the map is shared, so a later entity replaces an earlier one.
collectOne ==
    /\ pc = "collect" /\ i <= Len(macOps)
    /\ macOpsMap' = [e \in Entity |->
                         IF e = macOps[i].entity THEN macOps[i].actions ELSE {}]
    /\ IF grantsURI(macOps[i])
       THEN pc' = "HasPermissions" /\ answer' = TRUE /\ UNCHANGED i
       ELSE i' = i + 1 /\ UNCHANGED <<pc, answer>>
    /\ UNCHANGED <<inputs, j, told>>

collect ==
    /\ pc = "collect" /\ i <= Len(macOps)
    /\ macOpsMap' = [macOpsMap EXCEPT ![macOps[i].entity] = macOps[i].actions]
    /\ IF grantsURI(macOps[i])
       THEN pc' = "HasPermissions" /\ answer' = TRUE /\ UNCHANGED i
       ELSE i' = i + 1 /\ UNCHANGED <<pc, answer>>
    /\ UNCHANGED <<inputs, j, told>>

collectEnds ==
    /\ pc = "collect" /\ i > Len(macOps) /\ pc' = "check"
    /\ UNCHANGED <<inputs, macOpsMap, i, j, answer, told>>

\* An entity that is not in the map and one with no actions are alike.
check ==
    /\ pc = "check" /\ j <= Len(requiredOps)
    /\ IF requiredOps[j].action \in macOpsMap[requiredOps[j].entity]
       THEN j' = j + 1 /\ UNCHANGED <<pc, answer>>
       ELSE pc' = "HasPermissions" /\ answer' = FALSE /\ UNCHANGED j
    /\ UNCHANGED <<inputs, macOpsMap, i, told>>

checkEnds ==
    /\ pc = "check" /\ j > Len(requiredOps)
    /\ pc' = "HasPermissions" /\ returns(TRUE)

Next ==
    \/ IsReadOnly \/ IsCustom \/ GetExpiry
    \/ \E ops \in upTo(RequiredOp), ok \in BOOLEAN : HasPermissions(ops, ok)
    \/ collect \/ collectEnds \/ check \/ checkEnds

Spec == Init /\ [][Next]_vars

-----------------------------------------------------------------------------
(***************************************************************************)
(* Properties.                                                             *)
(***************************************************************************)

granted(op) ==
    \E k \in DOMAIN macOps :
        macOps[k].entity = op.entity /\ op.action \in macOps[k].actions

\* What an RPC needs is granted operation by operation or as a whole.
permitted ==
    \/ \A k \in DOMAIN requiredOps : granted(requiredOps[k])
    \/ granted([entity |-> "uri", action |-> uri])

answered == pc = "HasPermissions"

\* Types, and the indices of the two loops.
TypeOK ==
    /\ wasm \in BOOLEAN
    /\ mac \in {"none", "bad", "good"} /\ macOps \in Seq(Op)
    /\ expiry \in Expiry \cup {0}
    /\ uri \in URI /\ requiredOps \in Seq(RequiredOp) /\ knownURI \in BOOLEAN
    /\ pc \in {"called", "collect", "check", "IsReadOnly", "IsCustom",
               "GetExpiry", "HasPermissions"}
    /\ macOpsMap \in [Entity -> SUBSET Action]
    /\ i \in 1 .. Len(macOps) + 1 /\ j \in 1 .. Len(requiredOps) + 1
    /\ answer \in BOOLEAN /\ told \in Nat

\* hasPermissions "returns true if all the operations in requiredOps can also
\* be found in macOps", or the URI is granted; it never says so otherwise.
Sound == (answered /\ answer) => (mac = "good" /\ knownURI /\ permitted)

\* HasPermissions of the WASM client is exact: it knows that an operation may
\* give "access to an entire URI".
Exact == (answered /\ wasm) => (answer = (mac = "good" /\ knownURI /\ permitted))

\* HasPermissions is exact for every session that IsCustom tells to be plain.
PlainExact == (answered /\ ~isCustom(macOps)) =>
                  (answer = (mac = "good" /\ knownURI /\ permitted))

\* A session that IsReadOnly tells to be read-only has no permission for an
\* RPC that needs another action than "read".
ReadOnlyReads ==
    (answered /\ answer /\ isReadOnly(macOps)) =>
        \A k \in DOMAIN requiredOps : requiredOps[k].action = "read"

\* GetExpiry of the WASM client tells the expiry in the macaroon. (That of the
\* mobile client does not.)
ExpiryTold == (pc = "GetExpiry" /\ wasm /\ mac # "none") => told = expiry

\* HasPermissions claims what the macaroon grants: never more, exactly that in
\* the WASM client and for plain sessions, and no write for a read-only one.
PermissionsTold == Sound /\ Exact /\ PlainExact /\ ReadOnlyReads

=============================================================================
