-------------------------------- MODULE Auth --------------------------------
(***************************************************************************)
(* Runtime authentication: the auth schema of PostgreSQL and the Service   *)
(* above it.  An operator creates a pairing grant; one exchange turns it   *)
(* into a client with one refresh session and a first access token; each   *)
(* refresh replaces the session's refresh token and adds an access token.  *)
(*                                                                         *)
(* The service reads its clock and mints its secrets first and only then   *)
(* waits for the row locks of the transaction, so a request carries the    *)
(* time at which it began and commits at any later time.  Any number of    *)
(* requests, for any token ever minted, may be on their way at once.       *)
(*                                                                         *)
(* The secrets of one session are numbered in the order in which they      *)
(* became current: refresh token i and access token i are issued together. *)
(***************************************************************************)
EXTENDS Integers, FiniteSets

CONSTANTS
  Grant,        \* pairing grants
  Client,       \* clients; an exchange inserts a client and its only session
  Scope,        \* the scopes a grant may carry
  PairingTTL, AccessTTL, RefreshTTL,
  MaxTime,      \* bound: the clock stops here
  MaxRotation,  \* bound: number of the last token of a session
  Call,         \* bound: the calls that can be on their way at once
  None          \* no grant

ASSUME AuthAssumption ==
  /\ {PairingTTL, AccessTTL, RefreshTTL} \subseteq Nat \ {0}
  /\ {MaxTime, MaxRotation} \subseteq Nat
  /\ None \notin Grant

VARIABLES
  now,        \* the relay's clock
  grants,     \* auth.pairing_grants
  clients,    \* auth.clients
  sessions,   \* auth.refresh_sessions with auth.refresh_token_history, by client
  access,     \* auth.access_tokens, by client and number
  requests    \* by call, the request that has read the clock and not yet its rows

authVars == <<now, grants, clients, sessions, access, requests>>

Number == 0 .. MaxRotation
Time == 0 .. MaxTime
Reason == {"client_logout", "refresh_replay", "operator"}

AbsentGrant == [state |-> "absent", scopes |-> {}, expires |-> 0]
AbsentClient == [state |-> "absent", grant |-> None, scopes |-> {}, born |-> 0]
AbsentSession == [current |-> 0, history |-> {}, expires |-> 0, revoked |-> "no"]
AbsentToken == [state |-> "absent", expires |-> 0]
Idle == [kind |-> "idle"]

Init ==
  /\ now = 0
  /\ grants = [g \in Grant |-> AbsentGrant]
  /\ clients = [c \in Client |-> AbsentClient]
  /\ sessions = [c \in Client |-> AbsentSession]
  /\ access = [c \in Client |-> [i \in Number |-> AbsentToken]]
  /\ requests = [k \in Call |-> Idle]

Paired == {c \in Client : clients[c].state # "absent"}

Exchange(g, at) == [kind |-> "exchange", grant |-> g, at |-> at]
Refresh(c, i, at) == [kind |-> "refresh", client |-> c, token |-> i, at |-> at]
Logout(c, i) == [kind |-> "logout", client |-> c, token |-> i]

Request == {Exchange(g, at) : g \in Grant, at \in Time}
             \cup {Refresh(c, i, at) : c \in Client, i \in Number, at \in Time}
             \cup {Logout(c, i) : c \in Client, i \in Number}

-----------------------------------------------------------------------------
Tick == /\ now < MaxTime
        /\ now' = now + 1
        /\ UNCHANGED <<grants, clients, sessions, access, requests>>

\* normalizeScopes has turned an empty list into the default scopes and
\* refused unknown ones: what is stored is a non-empty set of known scopes.
CreatePairingGrant(g, scopes) ==
  /\ grants[g].state = "absent"
  /\ scopes # {}
  /\ grants' = [grants EXCEPT ![g] =
       [state |-> "open", scopes |-> scopes, expires |-> now + PairingTTL]]
  /\ UNCHANGED <<now, clients, sessions, access, requests>>

\* A call reaches the service: the clock is read, the token parsed.
Begin(k, q) ==
  /\ requests[k] = Idle
  /\ requests' = [requests EXCEPT ![k] = q]
  /\ UNCHANGED <<now, grants, clients, sessions, access>>

BeginExchange(k, g) ==
  /\ grants[g].state # "absent"
  /\ Begin(k, Exchange(g, now))
BeginRefresh(k, c, i) ==
  /\ c \in Paired
  /\ i <= sessions[c].current
  /\ Begin(k, Refresh(c, i, now))
BeginLogout(k, c, i) ==
  /\ c \in Paired
  /\ i <= sessions[c].current
  /\ Begin(k, Logout(c, i))

Finish(k) == requests' = [requests EXCEPT ![k] = Idle]

\* The request ends without a trace: invalid, consumed, expired or revoked
\* credentials, or a transaction that failed and was rolled back.
Refused(k) ==
  /\ requests[k] # Idle
  /\ Finish(k)
  /\ UNCHANGED <<now, grants, clients, sessions, access>>

-----------------------------------------------------------------------------
\* Altered for mutation testing: consumed_at is not looked at.
ExchangeableWhileUnexpired(g, at) ==
  /\ grants[g].state # "absent"
  /\ grants[g].expires > at

Exchangeable(g, at) ==
  /\ grants[g].state = "open"
  /\ grants[g].expires > at

\* The grant's row lock is held from the check to the commit.
ExchangePairingGrant(k, c) == LET q == requests[k] IN
  /\ q.kind = "exchange"
  /\ clients[c].state = "absent"
  /\ Exchangeable(q.grant, q.at)
  /\ grants' = [grants EXCEPT ![q.grant] =
       [grants[q.grant] EXCEPT !.state = "consumed"]]
  /\ clients' = [clients EXCEPT ![c] =
       [state |-> "active", grant |-> q.grant,
        scopes |-> grants[q.grant].scopes, born |-> q.at]]
  /\ sessions' = [sessions EXCEPT ![c] =
       [current |-> 0, history |-> {}, expires |-> q.at + RefreshTTL,
        revoked |-> "no"]]
  /\ access' = [access EXCEPT ![c] =
       [i \in Number |->
          IF i = 0 THEN [state |-> "live", expires |-> q.at + AccessTTL]
          ELSE AbsentToken]]
  /\ Finish(k)
  /\ UNCHANGED now

\* Altered for mutation testing: only the client's revocation is looked at.
UsableOfClient(c, at) ==
  /\ clients[c].state = "active"
  /\ sessions[c].expires > at

\* The session can still be refreshed.
Usable(c, at) ==
  /\ sessions[c].revoked = "no"
  /\ clients[c].state = "active"
  /\ sessions[c].expires > at

\* Altered for mutation testing: the token that was used is not remembered.
RotatedForgetful(s, at) == [s EXCEPT !.current = @ + 1]

\* Altered for mutation testing: the session's life starts again.
RotatedExtended(s, at) ==
  [current |-> s.current + 1, history |-> s.history \cup {s.current},
   expires |-> at + RefreshTTL, revoked |-> s.revoked]

\* The session's row after a rotation: its expiry does not move.
Rotated(s, at) ==
  [current |-> s.current + 1, history |-> s.history \cup {s.current},
   expires |-> s.expires, revoked |-> s.revoked]

\* The presented token is the current one: it enters the history, its
\* successor becomes current and an access token is added to the old ones.
RotateRefresh(k) == LET q == requests[k] IN
  /\ q.kind = "refresh"
  /\ Usable(q.client, q.at)
  /\ q.token = sessions[q.client].current
  /\ q.token < MaxRotation
  /\ sessions' = [sessions EXCEPT ![q.client] = Rotated(sessions[q.client], q.at)]
  /\ access' = [access EXCEPT ![q.client] =
       [access[q.client] EXCEPT ![q.token + 1] =
          [state |-> "live", expires |-> q.at + AccessTTL]]]
  /\ Finish(k)
  /\ UNCHANGED <<now, grants, clients>>

\* Altered for mutation testing: the latest reason wins.
RevokedLatest(s, reason) ==
  [current |-> s.current, history |-> s.history, expires |-> s.expires,
   revoked |-> reason]

\* The session's row revoked: COALESCE keeps the first reason.
Revoked(s, reason) ==
  [current |-> s.current, history |-> s.history, expires |-> s.expires,
   revoked |-> IF s.revoked = "no" THEN reason ELSE s.revoked]

\* Every access token of the client's session revoked.
RevokedTokens(c) ==
  [i \in Number |->
     [state |-> IF access[c][i].state = "absent" THEN "absent" ELSE "revoked",
      expires |-> access[c][i].expires]]

revokeSessionTx(c, reason) ==
  /\ sessions' = [sessions EXCEPT ![c] = Revoked(sessions[c], reason)]
  /\ access' = [access EXCEPT ![c] = RevokedTokens(c)]

\* The presented token was current before: the session ends.
RefreshReplay(k) == LET q == requests[k] IN
  /\ q.kind = "refresh"
  /\ Usable(q.client, q.at)
  /\ q.token # sessions[q.client].current
  /\ q.token \in sessions[q.client].history
  /\ revokeSessionTx(q.client, "refresh_replay")
  /\ Finish(k)
  /\ UNCHANGED <<now, grants, clients>>

\* A logout ends the session only when it presents the current token.
RevokeSession(k) == LET q == requests[k] IN
  /\ q.kind = "logout"
  /\ q.token = sessions[q.client].current
  /\ revokeSessionTx(q.client, "client_logout")
  /\ Finish(k)
  /\ UNCHANGED <<now, grants, clients>>

RevokeClient(c) ==
  /\ c \in Paired
  /\ clients' = [clients EXCEPT ![c] = [clients[c] EXCEPT !.state = "revoked"]]
  /\ revokeSessionTx(c, "operator")
  /\ UNCHANGED <<now, grants, requests>>

\* What AuthenticateAccess answers for access token i of client c at time t
\* and, behind it, what Middleware admits for an operation's scope.
AuthenticateAccess(c, i, t) ==
  /\ access[c][i].state = "live"
  /\ sessions[c].revoked = "no"
  /\ clients[c].state = "active"
  /\ access[c][i].expires > t
Admits(c, i, scope, t) == AuthenticateAccess(c, i, t) /\ scope \in clients[c].scopes

Next ==
  \/ Tick
  \/ \E g \in Grant, scopes \in SUBSET Scope : CreatePairingGrant(g, scopes)
  \/ \E k \in Call, g \in Grant : BeginExchange(k, g)
  \/ \E k \in Call, c \in Client, i \in Number : BeginRefresh(k, c, i)
  \/ \E k \in Call, c \in Client, i \in Number : BeginLogout(k, c, i)
  \/ \E k \in Call : Refused(k)
  \/ \E k \in Call, c \in Client : ExchangePairingGrant(k, c)
  \/ \E k \in Call : RotateRefresh(k)
  \/ \E k \in Call : RefreshReplay(k)
  \/ \E k \in Call : RevokeSession(k)
  \/ \E c \in Client : RevokeClient(c)

Spec == Init /\ [][Next]_authVars

-----------------------------------------------------------------------------
GrantRow == [state : {"absent", "open", "consumed"}, scopes : SUBSET Scope,
             expires : Nat]
ClientRow == [state : {"absent", "active", "revoked"}, grant : Grant \cup {None},
              scopes : SUBSET Scope, born : Nat]
SessionRow == [current : Number, history : SUBSET Number, expires : Nat,
               revoked : Reason \cup {"no"}]
TokenRow == [state : {"absent", "live", "revoked"}, expires : Nat]

\* The columns hold values of their types, the requests are well formed.
TypeOK ==
  /\ now \in Time
  /\ grants \in [Grant -> GrantRow]
  /\ clients \in [Client -> ClientRow]
  /\ sessions \in [Client -> SessionRow]
  /\ access \in [Client -> [Number -> TokenRow]]
  /\ requests \in [Call -> Request \cup {Idle}]

\* However many exchanges of a code race, one client comes out of it: the
\* row lock and consumed_at in ExchangePairingGrant.
OneClientPerGrant ==
  \A c, d \in Paired : clients[c].grant = clients[d].grant => c = d

\* Whatever Middleware admits goes back to a grant the operator created: the
\* grant was exchanged for this client by a request begun before the grant
\* expired, the scope is one the operator gave, and the client's whole life
\* including its last access token is bounded from that exchange on, however
\* often it refreshes (RotateRefresh leaves expires_at alone).
ChainOfAuthority ==
  \A c \in Client, i \in Number, scope \in Scope, t \in Time :
    Admits(c, i, scope, t) =>
      /\ clients[c].grant \in Grant
      /\ LET g == clients[c].grant
         IN  /\ grants[g].state = "consumed"
             /\ clients[c].born < grants[g].expires
             /\ scope \in grants[g].scopes
      /\ t < clients[c].born + RefreshTTL + AccessTTL

\* A superseded refresh token is always remembered, so that RotateRefresh
\* tells its second use from a token that never existed; the current one and
\* those not yet issued are not in the history.
SupersededRemembered ==
  \A c \in Paired : sessions[c].history = {i \in Number : i < sessions[c].current}

\* A revocation reaches every access token, the ones that refreshes issued
\* while it waited for its locks included; a revoked client has no session
\* left.
RevocationReachesTokens ==
  \A c \in Client :
    /\ sessions[c].revoked # "no" => \A i \in Number : access[c][i].state # "live"
    /\ clients[c].state = "revoked" => sessions[c].revoked # "no"

\* Nothing changes in a session once it is revoked: no refresh revives it, no
\* token is added, the first reason stays.
RevocationFinal ==
  [][\A c \in Client : sessions[c].revoked # "no" =>
        sessions'[c] = sessions[c] /\ access'[c] = access[c]]_authVars
=============================================================================
