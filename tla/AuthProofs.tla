----------------------------- MODULE AuthProofs -----------------------------
(***************************************************************************)
(* What the auth schema and the Service guarantee for every number of      *)
(* grants, clients, scopes and calls, all lifetimes and any number of      *)
(* rotations; and what an application that waits for its answers may rely  *)
(* on.                                                                     *)
(***************************************************************************)
EXTENDS AuthDevice, TLAPS

-----------------------------------------------------------------------------
(* The inductive invariant of the schema.                                  *)

\* A client that is not paired has a blank session and no tokens.
Blank(c) == sessions[c] = AbsentSession /\ access[c] = [i \in Number |-> AbsentToken]

\* A paired client's grant is consumed; its scopes, its session's expiry and
\* the expiry of its tokens go back to that exchange; its history is complete.
FromGrant(c) == LET g == clients[c].grant IN
  /\ g \in Grant
  /\ grants[g].state = "consumed"
  /\ clients[c].born < grants[g].expires
  /\ clients[c].scopes \subseteq grants[g].scopes
  /\ sessions[c].expires = clients[c].born + RefreshTTL
  /\ \A i \in Number : access[c][i].state = "live" =>
       access[c][i].expires < clients[c].born + RefreshTTL + AccessTTL
  /\ sessions[c].history = {i \in Number : i < sessions[c].current}

\* Refreshes and logouts are of paired clients.
RequestInv ==
  \A k \in Call : requests[k].kind \in {"refresh", "logout"} => requests[k].client \in Paired

AuthInv ==
  /\ TypeOK
  /\ RequestInv
  /\ \A c \in Client \ Paired : Blank(c)
  /\ \A c \in Paired : FromGrant(c)
  /\ OneClientPerGrant
  /\ RevocationReachesTokens

LEMMA Constants ==
  /\ PairingTTL \in Nat \ {0} /\ AccessTTL \in Nat \ {0} /\ RefreshTTL \in Nat \ {0}
  /\ MaxTime \in Nat /\ MaxRotation \in Nat
  BY AuthAssumption

LEMMA AuthInit == Init => AuthInv
  <1> SUFFICES ASSUME Init PROVE AuthInv
    OBVIOUS
  <1>1. TypeOK
    BY Constants DEF Init, TypeOK, Time, Number, GrantRow, AbsentGrant, ClientRow, AbsentClient,
       SessionRow, AbsentSession, TokenRow, AbsentToken, Reason
  <1>2. Paired = {}
    BY DEF Init, Paired, AbsentClient
  <1>3. RequestInv
    BY DEF Init, RequestInv, Idle
  <1>4. \A c \in Client : Blank(c)
    BY DEF Init, Blank
  <1>5. RevocationReachesTokens
    BY DEF Init, RevocationReachesTokens, AbsentSession, AbsentClient
  <1> QED BY <1>1, <1>2, <1>3, <1>4, <1>5 DEF AuthInv, OneClientPerGrant

\* A request that has begun is well formed.
LEMMA RequestFields ==
  ASSUME AuthInv, NEW k \in Call
  PROVE  /\ requests[k].kind = "exchange" =>
              requests[k].grant \in Grant /\ requests[k].at \in Time
         /\ requests[k].kind = "refresh" =>
              requests[k].client \in Paired /\ requests[k].token \in Number
                /\ requests[k].at \in Time
         /\ requests[k].kind = "logout" =>
              requests[k].client \in Paired /\ requests[k].token \in Number
  <1>1. requests[k] \in Request \cup {Idle}
    BY DEF AuthInv, TypeOK
  <1>2. CASE \E g \in Grant, at \in Time : requests[k] = Exchange(g, at)
    BY <1>2 DEF Exchange
  <1>3. CASE \E c \in Client, i \in Number, at \in Time : requests[k] = Refresh(c, i, at)
    BY <1>3 DEF Refresh, AuthInv, RequestInv
  <1>4. CASE \E c \in Client, i \in Number : requests[k] = Logout(c, i)
    BY <1>4 DEF Logout, AuthInv, RequestInv
  <1>5. CASE requests[k] = Idle
    BY <1>5 DEF Idle
  <1>6. \/ \E g \in Grant, at \in Time : requests[k] = Exchange(g, at)
        \/ \E c \in Client, i \in Number, at \in Time : requests[k] = Refresh(c, i, at)
        \/ \E c \in Client, i \in Number : requests[k] = Logout(c, i)
        \/ requests[k] = Idle
    BY <1>1 DEF Request
  <1> QED BY <1>2, <1>3, <1>4, <1>5, <1>6

-----------------------------------------------------------------------------
(* The steps.                                                              *)

\* Steps that write no row keep the invariant.
LEMMA SameRows ==
  ASSUME AuthInv, UNCHANGED <<grants, clients, sessions, access>>, TypeOK', RequestInv'
  PROVE  AuthInv'
  BY DEF AuthInv, Paired, Blank, FromGrant, OneClientPerGrant, RevocationReachesTokens

\* A call that ends leaves the other requests alone.
LEMMA FinishInv ==
  ASSUME AuthInv, NEW k \in Call, Finish(k), Paired \subseteq Paired'
  PROVE  requests' \in [Call -> Request \cup {Idle}] /\ RequestInv'
  <1>1. requests \in [Call -> Request \cup {Idle}]
    BY DEF AuthInv, TypeOK
  <1>2. requests' \in [Call -> Request \cup {Idle}]
    BY <1>1, Zenon DEF Finish
  <1>3. \A j \in Call : requests'[j] = Idle \/ requests'[j] = requests[j]
    BY <1>1 DEF Finish
  <1>4. Idle.kind = "idle"
    BY DEF Idle
  <1> QED BY <1>2, <1>3, <1>4 DEF RequestInv, AuthInv

\* A call that begins is well formed, and of a paired client.
LEMMA BeginInv ==
  ASSUME AuthInv, NEW k \in Call, NEW q \in Request, Begin(k, q),
         q.kind \in {"refresh", "logout"} => q.client \in Paired
  PROVE  AuthInv'
  <1>1. requests \in [Call -> Request \cup {Idle}]
    BY DEF AuthInv, TypeOK
  <1>2. requests' = [requests EXCEPT ![k] = q] /\ UNCHANGED <<now, grants, clients, sessions, access>>
    BY DEF Begin
  <1>3. requests' \in [Call -> Request \cup {Idle}]
    BY <1>1, <1>2, Zenon
  <1>4. TypeOK'
    BY <1>2, <1>3 DEF AuthInv, TypeOK
  <1>5. Paired' = Paired
    BY <1>2 DEF Paired
  <1>6. RequestInv'
    BY <1>1, <1>2, <1>5 DEF RequestInv, AuthInv
  <1> QED BY <1>2, <1>4, <1>6, SameRows

\* An operator creates a grant: nobody has exchanged it yet.
LEMMA CreateInv ==
  ASSUME AuthInv, NEW g \in Grant, NEW scopes \in SUBSET Scope, CreatePairingGrant(g, scopes)
  PROVE  AuthInv'
  <1> DEFINE row == [state |-> "open", scopes |-> scopes, expires |-> now + PairingTTL]
  <1>1. /\ grants[g].state = "absent" /\ grants' = [grants EXCEPT ![g] = row]
        /\ UNCHANGED <<now, clients, sessions, access, requests>>
    BY DEF CreatePairingGrant
  <1>2. row \in GrantRow
    BY Constants DEF AuthInv, TypeOK, Time, GrantRow
  <1> HIDE DEF row
  <1>3. grants \in [Grant -> GrantRow]
    BY DEF AuthInv, TypeOK
  <1>4. grants' \in [Grant -> GrantRow]
    BY <1>1, <1>2, <1>3
  <1>5. TypeOK'
    BY <1>1, <1>4 DEF AuthInv, TypeOK
  <1>6. RequestInv' /\ Paired' = Paired
    BY <1>1 DEF AuthInv, RequestInv, Paired
  <1>7. ASSUME NEW c \in Paired
        PROVE  FromGrant(c)'
    <2>1. FromGrant(c)
      BY DEF AuthInv
    <2>2. clients[c].grant \in Grant /\ grants'[clients[c].grant] = grants[clients[c].grant]
      BY <1>1, <1>3, <2>1 DEF FromGrant
    <2> QED BY <1>1, <2>1, <2>2 DEF FromGrant
  <1> QED BY <1>1, <1>5, <1>6, <1>7
          DEF AuthInv, Blank, OneClientPerGrant, RevocationReachesTokens

\* What a step does to the rows of one client c, and of no other.
OnlyOf(c) ==
  \A d \in Client \ {c} :
    clients'[d] = clients[d] /\ sessions'[d] = sessions[d] /\ access'[d] = access[d]

\* A step that writes the rows of client c keeps the invariant when these rows
\* are in order afterwards.
LEMMA OneClientInv ==
  ASSUME AuthInv, NEW c \in Client, OnlyOf(c), TypeOK', RequestInv',
         clients'[c].state # "absent", FromGrant(c)',
         \A g \in Grant : grants[g].state = "consumed" => grants'[g] = grants[g],
         \A d \in Paired : clients[d].grant = clients'[c].grant => d = c,
         sessions'[c].revoked # "no" => \A i \in Number : access'[c][i].state # "live",
         clients'[c].state = "revoked" => sessions'[c].revoked # "no"
  PROVE  AuthInv'
  <1>1. \A d \in Client \ {c} : d \in Paired' <=> d \in Paired
    BY DEF OnlyOf, Paired
  <1>2. c \in Paired'
    BY DEF Paired
  <1>3. ASSUME NEW d \in Client, d \notin Paired' PROVE Blank(d)'
    BY <1>1, <1>2, <1>3 DEF AuthInv, OnlyOf, Blank
  <1>4. ASSUME NEW d \in Paired' PROVE FromGrant(d)'
    <2>1. CASE d = c
      BY <2>1
    <2>2. CASE d # c
      <3>1. d \in Client /\ d \in Paired
        BY <1>1, <2>2 DEF Paired
      <3>2. FromGrant(d)
        BY <3>1 DEF AuthInv
      <3>3. clients'[d] = clients[d] /\ sessions'[d] = sessions[d] /\ access'[d] = access[d]
        BY <2>2, <3>1 DEF OnlyOf
      <3>4. grants'[clients[d].grant] = grants[clients[d].grant]
        BY <3>2 DEF FromGrant
      <3> QED BY <3>2, <3>3, <3>4 DEF FromGrant
    <2> QED BY <2>1, <2>2
  <1>5. OneClientPerGrant'
    <2> SUFFICES ASSUME NEW d \in Paired', NEW e \in Paired',
                        clients'[d].grant = clients'[e].grant
                 PROVE  d = e
      BY DEF OneClientPerGrant
    <2>1. d \in Client /\ e \in Client
      BY DEF Paired
    <2> QED BY <1>1, <2>1 DEF AuthInv, OneClientPerGrant, OnlyOf
  <1>6. RevocationReachesTokens'
    BY DEF AuthInv, RevocationReachesTokens, OnlyOf
  <1> QED BY <1>3, <1>4, <1>5, <1>6 DEF AuthInv

\* An exchange consumes an open grant, so no client has come out of it before.
LEMMA ExchangeInv ==
  ASSUME AuthInv, NEW k \in Call, NEW c \in Client, ExchangePairingGrant(k, c)
  PROVE  AuthInv'
  <1> DEFINE g == requests[k].grant
             at == requests[k].at
             client == [state |-> "active", grant |-> g, scopes |-> grants[g].scopes, born |-> at]
             session == [current |-> 0, history |-> {}, expires |-> at + RefreshTTL,
                         revoked |-> "no"]
             tokens == [i \in Number |->
                          IF i = 0 THEN [state |-> "live", expires |-> at + AccessTTL]
                          ELSE AbsentToken]
             row == [grants[g] EXCEPT !.state = "consumed"]
  <1>1. /\ requests[k].kind = "exchange" /\ clients[c].state = "absent"
        /\ grants[g].state = "open" /\ grants[g].expires > at
        /\ grants' = [grants EXCEPT ![g] = row]
        /\ clients' = [clients EXCEPT ![c] = client]
        /\ sessions' = [sessions EXCEPT ![c] = session]
        /\ access' = [access EXCEPT ![c] = tokens]
        /\ Finish(k) /\ now' = now
    BY Zenon DEF ExchangePairingGrant, Exchangeable
  <1>2. g \in Grant /\ at \in Nat
    BY <1>1, RequestFields, Constants DEF Time
  <1>3. /\ grants \in [Grant -> GrantRow] /\ clients \in [Client -> ClientRow]
        /\ sessions \in [Client -> SessionRow] /\ access \in [Client -> [Number -> TokenRow]]
        /\ now \in Time
    BY DEF AuthInv, TypeOK
  <1>4. grants[g] \in GrantRow
    BY <1>2, <1>3
  <1>5. /\ row \in GrantRow /\ row.state = "consumed"
        /\ row.scopes = grants[g].scopes /\ row.expires = grants[g].expires
    BY <1>4 DEF GrantRow
  <1>6. client \in ClientRow /\ session \in SessionRow /\ tokens \in [Number -> TokenRow]
    BY <1>2, <1>4, Constants DEF GrantRow, ClientRow, SessionRow, TokenRow, AbsentToken,
       Number, Reason
  <1>7. \A i \in Number : tokens[i].state = "live" => tokens[i].expires = at + AccessTTL
    BY DEF AbsentToken
  <1>8. /\ client.state = "active" /\ client.grant = g /\ client.born = at
        /\ client.scopes = grants[g].scopes /\ session.current = 0 /\ session.history = {}
        /\ session.expires = at + RefreshTTL /\ session.revoked = "no"
    OBVIOUS
  <1> HIDE DEF g, at, client, session, tokens, row
  <1>9. /\ grants' \in [Grant -> GrantRow] /\ clients' \in [Client -> ClientRow]
        /\ sessions' \in [Client -> SessionRow] /\ access' \in [Client -> [Number -> TokenRow]]
    BY <1>1, <1>2, <1>3, <1>5, <1>6
  <1>10. /\ clients'[c] = client /\ sessions'[c] = session /\ access'[c] = tokens
         /\ grants'[g] = row
    BY <1>1, <1>2, <1>3
  <1>11. OnlyOf(c)
    BY <1>1, <1>3 DEF OnlyOf
  <1>12. Paired \subseteq Paired'
    BY <1>8, <1>10, <1>11 DEF Paired, OnlyOf
  <1>13. TypeOK' /\ RequestInv'
    BY <1>1, <1>3, <1>9, <1>12, FinishInv DEF TypeOK
  <1>14. FromGrant(c)'
    <2>1. {i \in Number : i < 0} = {}
      BY Constants DEF Number
    <2>2. at + AccessTTL < at + RefreshTTL + AccessTTL
      BY <1>2, Constants
    <2> QED BY <1>1, <1>2, <1>5, <1>7, <1>8, <1>10, <2>1, <2>2 DEF FromGrant
  <1>15. \A h \in Grant : grants[h].state = "consumed" => grants'[h] = grants[h]
    BY <1>1, <1>2, <1>3
  <1>16. \A d \in Paired : clients[d].grant # g
    BY <1>1 DEF AuthInv, FromGrant
  <1>17. /\ clients'[c].state = "active" /\ sessions'[c].revoked = "no"
         /\ \A d \in Paired : clients[d].grant = clients'[c].grant => d = c
    BY <1>8, <1>10, <1>16
  <1> QED BY <1>11, <1>13, <1>14, <1>15, <1>17, OneClientInv

\* A rotation leaves the expiry of the session alone and remembers the token.
LEMMA RotateInv ==
  ASSUME AuthInv, NEW k \in Call, RotateRefresh(k)
  PROVE  AuthInv'
  <1>0. requests[k].kind = "refresh" /\ requests[k].client \in Client
    BY RequestFields DEF RotateRefresh, Paired
  <1> PICK c \in Client : c = requests[k].client
    BY <1>0
  <1> DEFINE at == requests[k].at
             i == requests[k].token
             old == sessions[c]
             new == Rotated(old, at)
             token == [state |-> "live", expires |-> at + AccessTTL]
             tokens == [access[c] EXCEPT ![i + 1] = token]
  <1>1. /\ requests[k].kind = "refresh" /\ old.revoked = "no"
        /\ clients[c].state = "active" /\ old.expires > at
        /\ i = old.current /\ i < MaxRotation
        /\ sessions' = [sessions EXCEPT ![c] = new]
        /\ access' = [access EXCEPT ![c] = tokens]
        /\ Finish(k) /\ UNCHANGED <<now, grants, clients>>
    BY Zenon DEF RotateRefresh, Usable
  <1>2. c \in Client /\ c \in Paired /\ at \in Nat /\ i \in Number
    BY <1>1, RequestFields, Constants DEF Time, Paired
  <1>3. /\ grants \in [Grant -> GrantRow] /\ clients \in [Client -> ClientRow]
        /\ sessions \in [Client -> SessionRow] /\ access \in [Client -> [Number -> TokenRow]]
        /\ now \in Time
    BY DEF AuthInv, TypeOK
  <1>4. old \in SessionRow /\ access[c] \in [Number -> TokenRow] /\ clients[c] \in ClientRow
    BY <1>2, <1>3
  <1>5. i + 1 \in Number
    BY <1>1, <1>2, Constants DEF Number
  <1>6. /\ new \in SessionRow /\ new.current = i + 1 /\ new.history = old.history \cup {i}
        /\ new.expires = old.expires /\ new.revoked = "no"
    BY <1>1, <1>4, <1>5 DEF Rotated, SessionRow
  <1>7. token \in TokenRow /\ token.expires = at + AccessTTL
    BY <1>2, Constants DEF TokenRow
  <1> HIDE DEF token
  <1>8. /\ tokens \in [Number -> TokenRow]
        /\ \A j \in Number : tokens[j] = IF j = i + 1 THEN token ELSE access[c][j]
    BY <1>4, <1>5, <1>7
  <1>9. FromGrant(c)
    BY <1>2 DEF AuthInv
  <1> HIDE DEF at, i, old, new, tokens
  <1>10. /\ sessions' \in [Client -> SessionRow] /\ access' \in [Client -> [Number -> TokenRow]]
         /\ sessions'[c] = new /\ access'[c] = tokens
    BY <1>1, <1>2, <1>3, <1>6, <1>8
  <1>11. OnlyOf(c)
    BY <1>1, <1>3 DEF OnlyOf
  <1>12. Paired' = Paired
    BY <1>1 DEF Paired
  <1>13. TypeOK' /\ RequestInv'
    <2>1. requests' \in [Call -> Request \cup {Idle}] /\ RequestInv'
      BY <1>1, <1>12, FinishInv
    <2>2. now' \in Time /\ grants' \in [Grant -> GrantRow] /\ clients' \in [Client -> ClientRow]
      BY <1>1, <1>3
    <2> QED BY <1>10, <2>1, <2>2 DEF TypeOK
  <1>14. FromGrant(c)'
    <2>1. old.history = {j \in Number : j < i} /\ old.expires = clients[c].born + RefreshTTL
      BY <1>1, <1>9 DEF FromGrant, old
    <2>2. new.history = {j \in Number : j < i + 1}
      BY <1>2, <1>6, <2>1, Constants DEF Number
    <2>3. clients[c].born \in Nat
      BY <1>4 DEF ClientRow
    <2>4. at + AccessTTL < clients[c].born + RefreshTTL + AccessTTL
      <3>1. old.expires > at /\ at \in Nat
        BY <1>1, <1>2
      <3> QED BY <2>1, <2>3, <3>1, Constants
    <2>5. \A j \in Number : tokens[j].state = "live" =>
            tokens[j].expires < clients[c].born + RefreshTTL + AccessTTL
      BY <1>7, <1>8, <1>9, <2>4, Zenon DEF FromGrant
    <2>6. /\ clients' = clients /\ grants' = grants
          /\ sessions'[c].expires = clients[c].born + RefreshTTL
          /\ sessions'[c].history = {j \in Number : j < sessions'[c].current}
          /\ \A j \in Number : access'[c][j].state = "live" =>
               access'[c][j].expires < clients[c].born + RefreshTTL + AccessTTL
      BY <1>1, <1>6, <1>10, <2>1, <2>2, <2>5
    <2> QED BY <1>9, <2>6, ZenonT(30) DEF FromGrant
  <1>15. \A d \in Paired : clients[d].grant = clients'[c].grant => d = c
    BY <1>1, <1>2 DEF AuthInv, OneClientPerGrant
  <1>16. /\ clients'[c].state = "active" /\ sessions'[c].revoked = "no" /\ grants' = grants
    BY <1>1, <1>6, <1>10
  <1> QED BY <1>11, <1>13, <1>14, <1>15, <1>16, OneClientInv

\* The rows of a paired client revoked: revokeSessionTx, with or without the
\* client's own row.
LEMMA RevokeRows ==
  ASSUME AuthInv, NEW c \in Paired, NEW reason \in Reason, revokeSessionTx(c, reason),
         UNCHANGED <<now, grants>>, requests' \in [Call -> Request \cup {Idle}],
         \A k \in Call : requests'[k] = requests[k] \/ requests'[k] = Idle,
         clients' = clients \/ clients' = [clients EXCEPT ![c] = [clients[c] EXCEPT !.state = "revoked"]]
  PROVE  AuthInv'
  <1> DEFINE row == [clients[c] EXCEPT !.state = "revoked"]
             session == Revoked(sessions[c], reason)
             tokens == RevokedTokens(c)
  <1>1. c \in Client /\ clients[c].state # "absent" /\ FromGrant(c)
    BY DEF Paired, AuthInv
  <1>2. /\ clients \in [Client -> ClientRow]
        /\ sessions \in [Client -> SessionRow] /\ access \in [Client -> [Number -> TokenRow]]
    BY DEF AuthInv, TypeOK
  <1>3. clients[c] \in ClientRow /\ sessions[c] \in SessionRow /\ access[c] \in [Number -> TokenRow]
    BY <1>1, <1>2
  <1>4. /\ row \in ClientRow /\ row.state = "revoked" /\ row.grant = clients[c].grant
        /\ row.born = clients[c].born /\ row.scopes = clients[c].scopes
    BY <1>3 DEF ClientRow
  <1>5. /\ session \in SessionRow /\ session.revoked # "no"
        /\ session.current = sessions[c].current /\ session.history = sessions[c].history
        /\ session.expires = sessions[c].expires
    BY <1>3 DEF SessionRow, Revoked, Reason
  <1>6. tokens \in [Number -> TokenRow] /\ \A i \in Number : tokens[i].state # "live"
    BY <1>3 DEF TokenRow, RevokedTokens
  <1>7. clients' = clients \/ clients' = [clients EXCEPT ![c] = row]
    OBVIOUS
  <1>8. /\ sessions' = [sessions EXCEPT ![c] = session]
        /\ access' = [access EXCEPT ![c] = tokens]
    BY DEF revokeSessionTx
  <1> HIDE DEF row, session, tokens
  <1>9. /\ clients' \in [Client -> ClientRow] /\ sessions' \in [Client -> SessionRow]
        /\ access' \in [Client -> [Number -> TokenRow]]
    BY <1>1, <1>2, <1>4, <1>5, <1>6, <1>7, <1>8
  <1>10. /\ sessions'[c] = session /\ access'[c] = tokens
         /\ clients'[c] = clients[c] \/ clients'[c] = row
    BY <1>1, <1>2, <1>7, <1>8
  <1>11. OnlyOf(c)
    BY <1>2, <1>7, <1>8 DEF OnlyOf
  <1>12. TypeOK'
    BY <1>9 DEF AuthInv, TypeOK
  <1>13. /\ clients'[c].state # "absent" /\ clients'[c].grant = clients[c].grant
         /\ clients'[c].born = clients[c].born /\ clients'[c].scopes = clients[c].scopes
    BY <1>1, <1>4, <1>10
  <1>14. Paired' = Paired
    BY <1>1, <1>11, <1>13 DEF Paired, OnlyOf
  <1>15. RequestInv'
    BY <1>14 DEF AuthInv, RequestInv, Idle
  <1>16. sessions'[c].revoked # "no" /\ \A i \in Number : access'[c][i].state # "live"
    BY <1>5, <1>6, <1>10
  <1>17. FromGrant(c)'
    BY <1>1, <1>5, <1>10, <1>13, <1>16, Zenon DEF FromGrant
  <1>18. \A d \in Paired : clients[d].grant = clients'[c].grant => d = c
    BY <1>13 DEF AuthInv, OneClientPerGrant
  <1> QED BY <1>1, <1>11, <1>12, <1>13, <1>15, <1>16, <1>17, <1>18, OneClientInv

\* A revocation by a call that ends with it.
LEMMA RevokeInv ==
  ASSUME AuthInv, NEW k \in Call, RefreshReplay(k) \/ RevokeSession(k)
  PROVE  AuthInv'
  <1>0. requests[k].client \in Paired
    BY RequestFields DEF RefreshReplay, RevokeSession
  <1> PICK c \in Paired : c = requests[k].client
    BY <1>0
  <1>1. /\ Finish(k) /\ UNCHANGED <<now, grants, clients>>
        /\ revokeSessionTx(c, "refresh_replay") \/ revokeSessionTx(c, "client_logout")
    BY DEF RefreshReplay, RevokeSession
  <1>2. requests \in [Call -> Request \cup {Idle}]
    BY DEF AuthInv, TypeOK
  <1>3. \A j \in Call : requests'[j] = requests[j] \/ requests'[j] = Idle
    BY <1>1, <1>2 DEF Finish
  <1>4. requests' \in [Call -> Request \cup {Idle}]
    BY <1>1, <1>2, Zenon DEF Finish
  <1>5. "refresh_replay" \in Reason /\ "client_logout" \in Reason
    BY DEF Reason
  <1> QED BY <1>1, <1>3, <1>4, <1>5, RevokeRows

LEMMA RevokeClientInv ==
  ASSUME AuthInv, NEW c \in Client, RevokeClient(c)
  PROVE  AuthInv'
  <1>1. requests \in [Call -> Request \cup {Idle}]
    BY DEF AuthInv, TypeOK
  <1>2. "operator" \in Reason
    BY DEF Reason
  <1>3. /\ c \in Paired /\ revokeSessionTx(c, "operator") /\ UNCHANGED <<now, grants, requests>>
        /\ clients' = [clients EXCEPT ![c] = [clients[c] EXCEPT !.state = "revoked"]]
    BY Zenon DEF RevokeClient
  <1> QED BY <1>1, <1>2, <1>3, RevokeRows, Zenon

LEMMA AuthStep ==
  ASSUME AuthInv, [Next]_authVars
  PROVE  AuthInv'
  <1>1. now \in Time /\ requests \in [Call -> Request \cup {Idle}]
    BY DEF AuthInv, TypeOK
  <1>2. CASE UNCHANGED authVars
    BY <1>2, SameRows DEF authVars, AuthInv, TypeOK, RequestInv, Paired
  <1>3. CASE Tick
    <2>1. now' \in Time /\ UNCHANGED <<grants, clients, sessions, access, requests>>
      BY <1>1, <1>3, Constants DEF Tick, Time
    <2> QED BY <2>1, SameRows DEF AuthInv, TypeOK, RequestInv, Paired
  <1>4. CASE \E g \in Grant, scopes \in SUBSET Scope : CreatePairingGrant(g, scopes)
    BY <1>4, CreateInv
  <1>5. ASSUME NEW k \in Call, NEW g \in Grant, BeginExchange(k, g)
        PROVE  AuthInv'
    <2>1. Exchange(g, now) \in Request /\ Begin(k, Exchange(g, now))
      BY <1>1, <1>5 DEF Request, BeginExchange
    <2>2. Exchange(g, now).kind = "exchange"
      BY DEF Exchange
    <2> QED BY <2>1, <2>2, BeginInv
  <1>6. ASSUME NEW k \in Call, NEW c \in Client, NEW i \in Number, BeginRefresh(k, c, i)
        PROVE  AuthInv'
    <2>1. c \in Paired /\ Refresh(c, i, now) \in Request /\ Begin(k, Refresh(c, i, now))
      BY <1>1, <1>6 DEF Request, BeginRefresh
    <2>2. Refresh(c, i, now).client = c
      BY DEF Refresh
    <2> QED BY <2>1, <2>2, BeginInv
  <1>7. ASSUME NEW k \in Call, NEW c \in Client, NEW i \in Number, BeginLogout(k, c, i)
        PROVE  AuthInv'
    <2>1. c \in Paired /\ Logout(c, i) \in Request /\ Begin(k, Logout(c, i))
      BY <1>7 DEF Request, BeginLogout
    <2>2. Logout(c, i).client = c
      BY DEF Logout
    <2> QED BY <2>1, <2>2, BeginInv
  <1>8. ASSUME NEW k \in Call, Refused(k)
        PROVE  AuthInv'
    <2>1. Finish(k) /\ UNCHANGED <<now, grants, clients, sessions, access>> /\ Paired' = Paired
      BY <1>8 DEF Refused, Paired
    <2>2. requests' \in [Call -> Request \cup {Idle}] /\ RequestInv'
      BY <2>1, FinishInv
    <2>3. TypeOK'
      BY <2>1, <2>2 DEF AuthInv, TypeOK
    <2> QED BY <2>1, <2>2, <2>3, SameRows
  <1> QED BY <1>2, <1>3, <1>4, <1>5, <1>6, <1>7, <1>8, ExchangeInv, RotateInv, RevokeInv,
             RevokeClientInv, Zenon DEF Next

\* Revoking a session that is revoked changes nothing.
LEMMA RevokedAgain ==
  ASSUME AuthInv, NEW c \in Client, NEW reason \in Reason, revokeSessionTx(c, reason),
         NEW d \in Client, sessions[d].revoked # "no"
  PROVE  sessions'[d] = sessions[d] /\ access'[d] = access[d]
  <1>1. /\ sessions \in [Client -> SessionRow] /\ access \in [Client -> [Number -> TokenRow]]
    BY DEF AuthInv, TypeOK
  <1>2. CASE d # c
    BY <1>1, <1>2 DEF revokeSessionTx
  <1>3. CASE d = c
    <2>1. /\ sessions'[d] = Revoked(sessions[d], reason) /\ access'[d] = RevokedTokens(d)
      BY <1>1, <1>3 DEF revokeSessionTx
    <2>2. sessions[d] \in SessionRow /\ access[d] \in [Number -> TokenRow]
      BY <1>1
    <2>3. Revoked(sessions[d], reason) = sessions[d]
      BY <2>2 DEF Revoked, SessionRow
    <2>4. \A i \in Number : access[d][i] \in TokenRow /\ access[d][i].state # "live"
      BY <2>2 DEF AuthInv, RevocationReachesTokens
    <2>5. ASSUME NEW i \in Number
          PROVE  RevokedTokens(d)[i] = access[d][i]
      BY <2>4 DEF RevokedTokens, TokenRow
    <2>6. RevokedTokens(d) \in [Number -> TokenRow]
      BY <2>4 DEF RevokedTokens, TokenRow
    <2>7. RevokedTokens(d) = access[d]
      BY <2>2, <2>5, <2>6
    <2> QED BY <2>1, <2>3, <2>7
  <1> QED BY <1>2, <1>3

LEMMA RevokedStays ==
  ASSUME AuthInv, [Next]_authVars, NEW d \in Client, sessions[d].revoked # "no"
  PROVE  sessions'[d] = sessions[d] /\ access'[d] = access[d]
  <1>1. /\ sessions \in [Client -> SessionRow] /\ access \in [Client -> [Number -> TokenRow]]
    BY DEF AuthInv, TypeOK
  <1>2. {"refresh_replay", "client_logout", "operator"} \subseteq Reason
    BY DEF Reason
  <1>3. ASSUME NEW k \in Call, NEW c \in Client, ExchangePairingGrant(k, c)
        PROVE  sessions'[d] = sessions[d] /\ access'[d] = access[d]
    <2>1. sessions[c] = AbsentSession
      BY <1>3 DEF ExchangePairingGrant, AuthInv, Blank, Paired
    <2>2. d # c
      BY <2>1 DEF AbsentSession
    <2> QED BY <1>1, <1>3, <2>2 DEF ExchangePairingGrant
  <1>4. ASSUME NEW k \in Call, RotateRefresh(k)
        PROVE  sessions'[d] = sessions[d] /\ access'[d] = access[d]
    BY <1>1, <1>4 DEF RotateRefresh, Usable
  <1>5. ASSUME NEW k \in Call, RefreshReplay(k) \/ RevokeSession(k)
        PROVE  sessions'[d] = sessions[d] /\ access'[d] = access[d]
    <2>1. requests[k].client \in Client
      BY <1>5, RequestFields DEF RefreshReplay, RevokeSession, Paired
    <2> PICK c \in Client : c = requests[k].client
      BY <2>1
    <2>2. revokeSessionTx(c, "refresh_replay") \/ revokeSessionTx(c, "client_logout")
      BY <1>5 DEF RefreshReplay, RevokeSession
    <2> QED BY <1>2, <2>2, RevokedAgain
  <1>6. ASSUME NEW c \in Client, RevokeClient(c)
        PROVE  sessions'[d] = sessions[d] /\ access'[d] = access[d]
    BY <1>2, <1>6, RevokedAgain DEF RevokeClient
  <1>7. CASE UNCHANGED <<sessions, access>>
    BY <1>7
  <1> QED BY <1>3, <1>4, <1>5, <1>6, <1>7, Zenon
          DEF Next, authVars, Tick, CreatePairingGrant, BeginExchange, BeginRefresh, BeginLogout,
              Begin, Refused

-----------------------------------------------------------------------------
(* The theorems about the schema.                                          *)

\* The invariant of the tables holds in every state the Service can reach.
THEOREM AuthCorrect == Spec => []AuthInv
  <1>1. Init => AuthInv
    BY AuthInit
  <1>2. AuthInv /\ [Next]_authVars => AuthInv'
    BY AuthStep
  <1> QED BY <1>1, <1>2, PTL DEF Spec

\* However many exchanges of however many grants race, at most one client comes
\* out of each: ExchangePairingGrant consumes the grant it has locked.
THEOREM GrantsPairOnce == Spec => []OneClientPerGrant
  <1>1. AuthInv => OneClientPerGrant
    BY DEF AuthInv
  <1> QED BY <1>1, AuthCorrect, PTL

\* Whatever the Middleware admits, with whatever lifetimes and after however
\* many rotations, goes back to an unexpired grant and is bounded from it.
THEOREM AdmittedHasAuthority == Spec => []ChainOfAuthority
  <1>1. ASSUME AuthInv PROVE ChainOfAuthority
    <2> SUFFICES ASSUME NEW c \in Client, NEW i \in Number, NEW scope \in Scope, NEW t \in Time,
                        Admits(c, i, scope, t)
                 PROVE  LET g == clients[c].grant IN
                        /\ g \in Grant /\ grants[g].state = "consumed"
                        /\ clients[c].born < grants[g].expires /\ scope \in grants[g].scopes
                        /\ t < clients[c].born + RefreshTTL + AccessTTL
      BY DEF ChainOfAuthority
    <2>1. /\ access[c][i].state = "live" /\ clients[c].state = "active"
          /\ access[c][i].expires > t /\ scope \in clients[c].scopes
      BY DEF Admits, AuthenticateAccess
    <2>2. FromGrant(c)
      BY <1>1, <2>1 DEF AuthInv, Paired
    <2>3. access[c][i].expires \in Nat /\ clients[c].born \in Nat /\ t \in Nat
      BY <1>1, Constants DEF AuthInv, TypeOK, TokenRow, ClientRow, Time
    <2>4. access[c][i].expires < clients[c].born + RefreshTTL + AccessTTL
      BY <2>1, <2>2 DEF FromGrant
    <2>5. t < clients[c].born + RefreshTTL + AccessTTL
      BY <2>1, <2>3, <2>4, Constants
    <2> QED BY <2>1, <2>2, <2>5 DEF FromGrant
  <1>2. AuthInv => ChainOfAuthority
    BY <1>1
  <1> QED BY <1>2, AuthCorrect, PTL

\* After any number of rotations the history of a session is exactly the tokens
\* that were current before: RotateRefresh recognises every second use.
THEOREM HistoryIsComplete == Spec => []SupersededRemembered
  <1>1. AuthInv => SupersededRemembered
    BY DEF AuthInv, FromGrant, SupersededRemembered
  <1> QED BY <1>1, AuthCorrect, PTL

\* A revocation, whatever it raced with, leaves no live access token.
THEOREM RevocationIsComplete == Spec => []RevocationReachesTokens
  <1>1. AuthInv => RevocationReachesTokens
    BY DEF AuthInv
  <1> QED BY <1>1, AuthCorrect, PTL

\* No step of the Service changes a session that is revoked, or its tokens.
THEOREM RevocationIsFinal == Spec => RevocationFinal
  <1>1. AuthInv /\ [Next]_authVars =>
          [\A c \in Client : sessions[c].revoked # "no" =>
             sessions'[c] = sessions[c] /\ access'[c] = access[c]]_authVars
    BY RevokedStays
  <1> QED BY <1>1, AuthCorrect, PTL DEF Spec, RevocationFinal

-----------------------------------------------------------------------------
(* The application in front of the schema.                                 *)

\* While the call of an application that waits for its answers is under way
\* there is no other; the token it presents is the current one, and so is the
\* token it holds unless a new one is on its way.
SyncInv ==
  /\ \A j, k \in Call : Free(j) \/ Free(k) \/ j = k
  /\ \A k \in Call : requests[k].kind \in {"refresh", "logout"} =>
       requests[k].token = sessions[requests[k].client].current
  /\ \A k \in Call : answers[k].kind = "tokens" =>
       answers[k].token = sessions[answers[k].client].current
  /\ \A c \in Client :
       \/ \A i \in held[c] : i = sessions[c].current
       \/ \E k \in Call : answers[k].kind = "tokens" /\ answers[k].client = c
  /\ \A c \in Client : sessions[c].revoked # "refresh_replay"
  /\ \A k \in Call : answers[k].kind = "signedOut" =>
       sessions[answers[k].client].revoked # "no"

DeviceTypes ==
  /\ held \in [Client -> SUBSET Number]
  /\ answers \in [Call -> Answer]
  /\ \A k \in Call : requests[k] = Idle \/ answers[k] = NoAnswer

DeviceInv == AuthInv /\ DeviceTypes /\ (Synchronised => SyncInv)

\* The composition takes only steps of the schema.
LEMMA DeviceSteps ==
  ASSUME DeviceTypes, [DeviceNext]_vars
  PROVE  [Next]_authVars
  <1>1. CASE UNCHANGED vars
    BY <1>1 DEF vars
  <1>2. CASE Environment
    BY <1>2 DEF Environment, Next
  <1>3. ASSUME NEW k \in Call, NEW g \in Grant, SendExchange(k, g)
        PROVE  Next
    BY <1>3 DEF SendExchange, Next
  <1>4. ASSUME NEW k \in Call, NEW c \in Client, SendRefresh(k, c) \/ SendLogout(k, c)
        PROVE  [Next]_authVars
    <2>1. PICK i \in Sendable(c) : BeginRefresh(k, c, i) \/ BeginLogout(k, c, i)
      BY <1>4, Zenon DEF SendRefresh, SendLogout
    <2>2. i \in Number
      BY DEF Sendable, DeviceTypes
    <2> QED BY <2>1, <2>2 DEF Next
  <1>5. ASSUME NEW k \in Call, NEW c \in Client, exchange(k, c)
        PROVE  Next
    BY <1>5 DEF exchange, Next
  <1>6. ASSUME NEW k \in Call,
               exchangeFails(k) \/ refresh(k) \/ refreshFails(k) \/ revoke(k) \/ revokeFails(k)
        PROVE  Next
    BY <1>6 DEF exchangeFails, refresh, refreshFails, revoke, revokeFails, Next
  <1>7. ASSUME NEW k \in Call, Receive(k) \/ Lose(k)
        PROVE  UNCHANGED authVars
    BY <1>7 DEF Receive, Lose
  <1> QED BY <1>1, <1>2, <1>3, <1>4, <1>5, <1>6, <1>7, Zenon DEF DeviceNext

LEMMA IdleIsNoKind == Idle.kind = "idle" /\ NoAnswer.kind = "none"
  BY DEF Idle, NoAnswer

LEMMA NoAnswerIsOne == NoAnswer \in Answer
  BY DEF Answer

\* What an answer is made of.
LEMMA AnswerFields ==
  ASSUME NEW a \in Answer
  PROVE  /\ a # NoAnswer => a.client \in Client
         /\ a.kind = "tokens" => a.client \in Client /\ a.token \in Number
         /\ a.kind = "signedOut" => a.client \in Client
         /\ a.kind = "none" <=> a = NoAnswer
  <1>1. CASE a = NoAnswer
    BY <1>1 DEF NoAnswer
  <1>2. CASE \E c \in Client, i \in Number : a = Tokens(c, i)
    BY <1>2 DEF Tokens, NoAnswer
  <1>3. CASE \E c \in Client : a = Failure(c) \/ a = Cleared(c) \/ a = SignedOut(c)
    <2>1. PICK c \in Client : a = Failure(c) \/ a = Cleared(c) \/ a = SignedOut(c)
      BY <1>3, Zenon
    <2>2. a.client = c /\ a.kind # "none" /\ a.kind # "tokens"
      <3>1. CASE a = Failure(c)
        BY <3>1 DEF Failure
      <3>2. CASE a = Cleared(c)
        BY <3>2 DEF Cleared
      <3>3. CASE a = SignedOut(c)
        BY <3>3 DEF SignedOut
      <3> QED BY <2>1, <3>1, <3>2, <3>3
    <2>3. a # NoAnswer
      BY <2>2, IdleIsNoKind
    <2> QED BY <2>2, <2>3
  <1>4. \/ a = NoAnswer
        \/ \E c \in Client, i \in Number : a = Tokens(c, i)
        \/ \E c \in Client : a = Failure(c) \/ a = Cleared(c) \/ a = SignedOut(c)
    <2>1. \/ a = NoAnswer
          \/ a \in {Tokens(c, i) : c \in Client, i \in Number}
          \/ a \in UNION {{Failure(c), Cleared(c), SignedOut(c)} : c \in Client}
      BY DEF Answer
    <2>2. a \in UNION {{Failure(c), Cleared(c), SignedOut(c)} : c \in Client} =>
            \E c \in Client : a = Failure(c) \/ a = Cleared(c) \/ a = SignedOut(c)
      BY Zenon
    <2>3. a \in {Tokens(c, i) : c \in Client, i \in Number} =>
            \E c \in Client, i \in Number : a = Tokens(c, i)
      BY SMT
    <2> QED BY <2>1, <2>2, <2>3
  <1> QED BY <1>1, <1>2, <1>3, <1>4

LEMMA RequestType == AuthInv => requests \in [Call -> Request \cup {Idle}]
  BY DEF AuthInv, TypeOK

\* The call under way is answered.
LEMMA Answered ==
  ASSUME AuthInv, DeviceTypes, SyncInv, NEW k \in Call, NEW a \in Answer,
         requests[k] # Idle, Finish(k), Reply(k, a),
         a.kind = "tokens" => a.token = sessions'[a.client].current,
         \A c \in Client : \/ sessions'[c].current = sessions[c].current
                           \/ a.kind = "tokens" /\ a.client = c,
         \A c \in Client : sessions'[c].revoked # "refresh_replay",
         a.kind = "signedOut" => sessions'[a.client].revoked # "no"
  PROVE  SyncInv'
  <1>1. /\ \A j \in Call : j # k => requests[j] = Idle /\ answers[j] = NoAnswer
        /\ answers[k] = NoAnswer
    BY DEF SyncInv, Free, DeviceTypes
  <1>2. /\ \A j \in Call : requests'[j] = Idle
        /\ \A j \in Call : j # k => answers'[j] = NoAnswer
        /\ answers'[k] = a /\ held' = held
    BY <1>1, RequestType DEF Finish, Reply, DeviceTypes
  <1>3. \A c \in Client : \A i \in held[c] : i = sessions[c].current
    BY <1>1, IdleIsNoKind DEF SyncInv
  <1>4. (\A i, j \in Call : Free(i) \/ Free(j) \/ i = j)'
    BY <1>2 DEF Free
  <1>5. (\A c \in Client :
           \/ \A i \in held[c] : i = sessions[c].current
           \/ \E j \in Call : answers[j].kind = "tokens" /\ answers[j].client = c)'
    BY <1>2, <1>3
  <1>6. \A j \in Call : requests'[j].kind = "idle"
    BY <1>2, IdleIsNoKind
  <1>7. \A j \in Call : j = k \/ answers'[j].kind = "none"
    BY <1>2, IdleIsNoKind
  <1> QED BY <1>2, <1>4, <1>5, <1>6, <1>7 DEF SyncInv

LEMMA AnsweredTypes ==
  ASSUME AuthInv, DeviceTypes, NEW k \in Call, NEW a \in Answer, Finish(k), Reply(k, a)
  PROVE  DeviceTypes'
  <1>1. /\ \A j \in Call : j # k => requests'[j] = requests[j] /\ answers'[j] = answers[j]
        /\ requests'[k] = Idle /\ held' = held
    BY RequestType DEF Finish, Reply, DeviceTypes
  <1>2. answers' \in [Call -> Answer]
    BY Zenon DEF Reply, DeviceTypes
  <1> QED BY <1>1, <1>2 DEF DeviceTypes

\* A call is sent.
LEMMA Sent ==
  ASSUME AuthInv, DeviceTypes, NEW k \in Call, NEW q, MaySend(k), Begin(k, q),
         UNCHANGED <<held, answers>>
  PROVE  /\ DeviceTypes'
         /\ style.serial /\ SyncInv
              /\ (q.kind \in {"refresh", "logout"} => q.token = sessions[q.client].current)
              => SyncInv'
  <1>1. /\ \A j \in Call : j # k => requests'[j] = requests[j]
        /\ requests'[k] = q /\ sessions' = sessions /\ held' = held /\ answers' = answers
        /\ answers[k] = NoAnswer
    BY RequestType DEF Begin, MaySend, Free
  <1>2. DeviceTypes'
    BY <1>1 DEF DeviceTypes
  <1>3. ASSUME style.serial, SyncInv,
               q.kind \in {"refresh", "logout"} => q.token = sessions[q.client].current
        PROVE  SyncInv'
    <2>1. \A j \in Call : requests[j] = Idle /\ answers[j] = NoAnswer
      BY <1>3 DEF MaySend, Free
    <2>2. (\A i, j \in Call : Free(i) \/ Free(j) \/ i = j)'
      BY <1>1, <2>1 DEF Free
    <2>3. (\A j \in Call : requests[j].kind \in {"refresh", "logout"} =>
             requests[j].token = sessions[requests[j].client].current)'
      BY <1>1, <1>3, <2>1, IdleIsNoKind
    <2> QED BY <1>1, <1>3, <2>2, <2>3 DEF SyncInv
  <1> QED BY <1>2, <1>3

\* What the application may send when it waits for its answers.
LEMMA SendsCurrent ==
  ASSUME DeviceTypes, Synchronised, SyncInv, NEW k \in Call, MaySend(k),
         NEW c \in Client, NEW i \in Sendable(c)
  PROVE  i = sessions[c].current
  <1>1. \A j \in Call : answers[j].kind = "none"
    BY IdleIsNoKind DEF MaySend, Free, Synchronised
  <1>2. i \in held[c]
    BY DEF Sendable, Synchronised
  <1> QED BY <1>1, <1>2 DEF SyncInv

\* The clock and the operator.
LEMMA EnvironmentStep ==
  ASSUME DeviceInv, Environment
  PROVE  DeviceTypes' /\ (Synchronised => SyncInv')
  <1>1. AuthInv /\ DeviceTypes
    BY DEF DeviceInv
  <1>2. UNCHANGED <<requests, held, answers, style>>
    BY DEF Environment, Tick, CreatePairingGrant, RevokeClient
  <1>3. DeviceTypes'
    BY <1>1, <1>2 DEF DeviceTypes
  <1>4. sessions \in [Client -> SessionRow]
    BY <1>1 DEF AuthInv, TypeOK
  <1>5. ASSUME NEW c \in Client
        PROVE  /\ sessions'[c].current = sessions[c].current
               /\ sessions'[c].revoked = "refresh_replay" => sessions[c].revoked = "refresh_replay"
               /\ sessions[c].revoked # "no" => sessions'[c].revoked # "no"
    <2>1. CASE UNCHANGED sessions
      BY <2>1
    <2>2. ASSUME NEW d \in Client, RevokeClient(d)
          PROVE  sessions'[c] = sessions[c] \/ sessions'[c] = Revoked(sessions[c], "operator")
      BY <1>4, <2>2 DEF RevokeClient, revokeSessionTx
    <2>3. CASE sessions'[c] = Revoked(sessions[c], "operator")
      BY <2>3 DEF Revoked
    <2> QED BY <2>1, <2>2, <2>3, Zenon DEF Environment, Tick, CreatePairingGrant
  <1>6. ASSUME SyncInv PROVE SyncInv'
    <2>1. \A j \in Call : requests[j].kind \in {"refresh", "logout"} => requests[j].client \in Client
      BY <1>1 DEF AuthInv, RequestInv, Paired
    <2>2. \A j \in Call : /\ answers[j].kind = "tokens" => answers[j].client \in Client
                          /\ answers[j].kind = "signedOut" => answers[j].client \in Client
      BY <1>1, AnswerFields DEF DeviceTypes
    <2>3. \A j \in Call : Free(j)' <=> Free(j)
      BY <1>2 DEF Free
    <2> QED BY <1>2, <1>5, <1>6, <2>1, <2>2, <2>3 DEF SyncInv
  <1> QED BY <1>3, <1>6 DEF DeviceInv

\* The handlers of exchange and of refresh hand out the token that has become
\* current.
LEMMA HandsOut ==
  ASSUME DeviceInv, NEW k \in Call,
         refresh(k) \/ \E c \in Client : exchange(k, c)
  PROVE  DeviceTypes' /\ (Synchronised => SyncInv')
  <1>1. AuthInv /\ DeviceTypes
    BY DEF DeviceInv
  <1>2. sessions \in [Client -> SessionRow]
    BY <1>1, Zenon DEF AuthInv, TypeOK
  <1>3. /\ requests[k] # Idle /\ Finish(k)
        /\ \E c \in Client, i \in Number :
             /\ Reply(k, Tokens(c, i)) /\ sessions'[c].current = i /\ sessions'[c].revoked = "no"
             /\ \A d \in Client : d = c \/ sessions'[d] = sessions[d]
    <2>1. CASE refresh(k)
      <3>1. requests[k].client \in Client /\ requests[k].token \in Number
        BY <1>1, <2>1, RequestFields DEF refresh, RotateRefresh, Paired
      <3>2. requests[k].token + 1 \in Number
        BY <2>1, <3>1, Constants DEF refresh, RotateRefresh, Number
      <3>3. PICK c \in Client, i \in Number : c = requests[k].client /\ i = requests[k].token + 1
        BY <3>1, <3>2
      <3>4. Reply(k, Tokens(c, i)) /\ Finish(k) /\ requests[k].kind = "refresh"
        BY <2>1, <3>3 DEF refresh, RotateRefresh
      <3>5. sessions' = [sessions EXCEPT ![c] = Rotated(sessions[c], requests[k].at)]
        BY <2>1, <3>3 DEF refresh, RotateRefresh
      <3>6. sessions[c].revoked = "no" /\ sessions[c].current + 1 = i
        BY <2>1, <3>3 DEF refresh, RotateRefresh, Usable
      <3>7. sessions'[c].current = i /\ sessions'[c].revoked = "no"
        BY <1>2, <3>5, <3>6 DEF Rotated
      <3>8. \A d \in Client : d = c \/ sessions'[d] = sessions[d]
        BY <1>2, <3>5
      <3> QED BY <3>4, <3>7, <3>8, IdleIsNoKind
    <2>2. ASSUME NEW c \in Client, exchange(k, c)
          PROVE  /\ requests[k] # Idle /\ Finish(k)
                 /\ Reply(k, Tokens(c, 0)) /\ sessions'[c].current = 0
                 /\ sessions'[c].revoked = "no"
                 /\ \A d \in Client : d = c \/ sessions'[d] = sessions[d]
      <3>1. Reply(k, Tokens(c, 0)) /\ Finish(k) /\ requests[k].kind = "exchange"
        BY <2>2 DEF exchange, ExchangePairingGrant
      <3>2. sessions' = [sessions EXCEPT ![c] =
              [current |-> 0, history |-> {}, expires |-> requests[k].at + RefreshTTL,
               revoked |-> "no"]]
        BY <2>2 DEF exchange, ExchangePairingGrant
      <3> QED BY <1>2, <3>1, <3>2, IdleIsNoKind
    <2>3. 0 \in Number
      BY Constants DEF Number
    <2> QED BY <2>1, <2>2, <2>3, Zenon
  <1>4. PICK c \in Client, i \in Number :
          /\ Reply(k, Tokens(c, i)) /\ sessions'[c].current = i /\ sessions'[c].revoked = "no"
          /\ \A d \in Client : d = c \/ sessions'[d] = sessions[d]
    BY <1>3
  <1>5. Tokens(c, i) \in Answer
    BY DEF Answer
  <1>6. /\ Tokens(c, i).kind = "tokens" /\ Tokens(c, i).client = c /\ Tokens(c, i).token = i
    BY DEF Tokens
  <1>7. DeviceTypes'
    BY <1>1, <1>3, <1>4, <1>5, AnsweredTypes
  <1>8. ASSUME SyncInv PROVE SyncInv'
    <2>1. \A d \in Client : sessions[d].revoked # "refresh_replay"
      BY <1>8 DEF SyncInv
    <2>2. \A d \in Client : sessions'[d].revoked # "refresh_replay"
      BY <1>4, <2>1
    <2> QED BY <1>1, <1>3, <1>4, <1>5, <1>6, <1>8, <2>2, Answered
  <1> QED BY <1>7, <1>8 DEF DeviceInv

\* A handler that answers without a token.  One that revoked nothing leaves the
\* sessions alone; a replay is out of the question when the token presented is
\* the current one.
LEMMA HandsOutNothing ==
  ASSUME DeviceInv, NEW k \in Call, refreshFails(k) \/ revoke(k) \/ revokeFails(k)
  PROVE  DeviceTypes' /\ (Synchronised => SyncInv')
  <1>1. AuthInv /\ DeviceTypes
    BY DEF DeviceInv
  <1>2. sessions \in [Client -> SessionRow]
    BY <1>1, Zenon DEF AuthInv, TypeOK
  <1>3. requests[k].kind = "refresh" \/ requests[k].kind = "logout"
    BY Zenon DEF refreshFails, revoke, revokeFails
  <1>4. requests[k].client \in Client /\ requests[k] # Idle
    BY <1>1, <1>3, RequestFields, IdleIsNoKind DEF Paired
  <1>5. PICK c \in Client : c = requests[k].client
    BY <1>4, Zenon
  <1>6. Finish(k)
    BY DEF refreshFails, revoke, revokeFails, RefreshReplay, RevokeSession, Refused
  <1>7. PICK a \in {Failure(c), Cleared(c), SignedOut(c)} :
          Reply(k, a) /\ (a = SignedOut(c) => revoke(k))
    <2>1. CASE refreshFails(k)
      <3>1. Reply(k, Failure(c)) \/ Reply(k, Cleared(c))
        BY <1>5, <2>1 DEF refreshFails
      <3>2. Failure(c) # SignedOut(c) /\ Cleared(c) # SignedOut(c)
        BY DEF Failure, Cleared, SignedOut
      <3> QED BY <3>1, <3>2
    <2>2. CASE revoke(k)
      BY <1>5, <2>2 DEF revoke
    <2>3. CASE revokeFails(k)
      <3>1. Reply(k, Failure(c))
        BY <1>5, <2>3 DEF revokeFails
      <3>2. Failure(c) # SignedOut(c)
        BY DEF Failure, SignedOut
      <3> QED BY <3>1, <3>2
    <2> QED BY <2>1, <2>2, <2>3
  <1>8. a \in Answer
    <2>1. a \in UNION {{Failure(d), Cleared(d), SignedOut(d)} : d \in Client}
      BY <1>7, Zenon
    <2> QED BY <2>1 DEF Answer
  <1>9. a.client = c /\ a.kind # "tokens" /\ (a.kind = "signedOut" => a = SignedOut(c))
    BY <1>7 DEF Failure, Cleared, SignedOut
  <1>10. DeviceTypes'
    BY <1>1, <1>6, <1>7, <1>8, AnsweredTypes
  <1>11. ASSUME SyncInv PROVE SyncInv'
    <2>1. requests[k].token = sessions[c].current
      BY <1>3, <1>5, <1>11, SMTT(20) DEF SyncInv
    <2>2. \/ UNCHANGED sessions /\ ~ revoke(k)
          \/ sessions' = [sessions EXCEPT ![c] = Revoked(sessions[c], "client_logout")]
      BY <1>3, <1>5, <2>1, ZenonT(30) DEF refreshFails, revoke, revokeFails, RefreshReplay,
         RevokeSession, Refused, revokeSessionTx
    <2>3. \A d \in Client : sessions[d].revoked # "refresh_replay"
      BY <1>11 DEF SyncInv
    <2>4. \A d \in Client : /\ sessions'[d].current = sessions[d].current
                            /\ sessions'[d].revoked # "refresh_replay"
      BY <1>2, <2>2, <2>3 DEF Revoked
    <2>5. revoke(k) => sessions'[c].revoked # "no"
      BY <1>2, <2>2 DEF Revoked
    <2>6. a.kind = "signedOut" => sessions'[a.client].revoked # "no"
      BY <1>7, <1>9, <2>5
    <2> QED BY <1>1, <1>4, <1>6, <1>7, <1>8, <1>9, <1>11, <2>4, <2>6, Answered
  <1> QED BY <1>10, <1>11 DEF DeviceInv

\* A failed exchange tells the application nothing.
LEMMA ExchangeFailsStep ==
  ASSUME DeviceInv, NEW k \in Call, exchangeFails(k)
  PROVE  DeviceTypes' /\ (Synchronised => SyncInv')
  <1>1. AuthInv /\ DeviceTypes
    BY DEF DeviceInv
  <1>2. /\ requests[k] # Idle /\ Finish(k) /\ sessions' = sessions
        /\ UNCHANGED <<held, answers, style>>
    BY DEF exchangeFails, Refused
  <1>3. answers[k] = NoAnswer /\ answers \in [Call -> Answer]
    BY <1>1, <1>2 DEF DeviceTypes
  <1>4. answers' = [answers EXCEPT ![k] = NoAnswer]
    BY <1>2, <1>3
  <1>5. Reply(k, NoAnswer) /\ NoAnswer \in Answer
    BY <1>2, <1>4, NoAnswerIsOne, Zenon DEF Reply
  <1>6. SyncInv => \A c \in Client : sessions'[c].revoked # "refresh_replay"
    BY <1>2 DEF SyncInv
  <1>7. DeviceTypes'
    BY <1>1, <1>2, <1>5, AnsweredTypes
  <1>8. ASSUME SyncInv PROVE SyncInv'
    BY <1>1, <1>2, <1>5, <1>6, <1>8, IdleIsNoKind, Answered
  <1> QED BY <1>7, <1>8 DEF DeviceInv

\* The application takes its answer: a token it is told is the current one.
LEMMA ReceiveStep ==
  ASSUME DeviceInv, NEW k \in Call, Receive(k)
  PROVE  DeviceTypes' /\ (Synchronised => SyncInv')
  <1>1. /\ held \in [Client -> SUBSET Number] /\ answers \in [Call -> Answer]
        /\ \A j \in Call : requests[j] = Idle \/ answers[j] = NoAnswer
    BY DEF DeviceInv, DeviceTypes
  <1>2. PICK a \in Answer : a = answers[k]
    BY <1>1
  <1>3. /\ a # NoAnswer /\ UNCHANGED <<authVars, style>>
        /\ answers' = [answers EXCEPT ![k] = NoAnswer]
    BY <1>2 DEF Receive
  <1>4. PICK c \in Client : c = a.client
    BY <1>3, AnswerFields
  <1>5. PICK new \in SUBSET Number :
          /\ held' = [held EXCEPT ![c] = new]
          /\ (a.kind = "tokens" /\ new = {a.token}) \/ (a.kind # "tokens" /\ new \subseteq held[c])
    <2> DEFINE new == CASE a.kind = "tokens" -> {a.token}
                        [] a.kind = "failure" -> held[c]
                        [] OTHER -> {}
    <2>1. held' = [held EXCEPT ![c] = new]
      BY <1>2, <1>4 DEF Receive
    <2>2. \/ a.kind = "tokens" /\ new = {a.token}
          \/ a.kind = "failure" /\ new = held[c]
          \/ a.kind # "tokens" /\ new = {}
      BY SMT
    <2>3. held[c] \subseteq Number /\ (a.kind = "tokens" => a.token \in Number)
      BY <1>1, AnswerFields
    <2> HIDE DEF new
    <2>4. /\ new \in SUBSET Number
          /\ (a.kind = "tokens" /\ new = {a.token}) \/ (a.kind # "tokens" /\ new \subseteq held[c])
      BY <2>2, <2>3
    <2> QED BY <2>1, <2>4, Zenon
  <1>6. held' \in [Client -> SUBSET Number]
    BY <1>1, <1>5, Zenon
  <1>7. answers' \in [Call -> Answer]
    BY <1>1, <1>3, NoAnswerIsOne, Zenon
  <1>8. /\ \A j \in Call : j # k => answers'[j] = answers[j]
        /\ answers'[k] = NoAnswer
    BY <1>1, <1>3
  <1>9. requests' = requests /\ sessions' = sessions
    BY <1>3 DEF authVars
  <1>10. DeviceTypes'
    BY <1>1, <1>6, <1>7, <1>8, <1>9 DEF DeviceTypes
  <1>11. ASSUME SyncInv PROVE SyncInv'
    <2>1. \A j \in Call : j # k => answers[j] = NoAnswer /\ requests[j] = Idle
      BY <1>2, <1>3, <1>11 DEF SyncInv, Free
    <2>2. \A j \in Call : answers'[j] = NoAnswer /\ requests'[j] = Idle
      BY <1>1, <1>2, <1>3, <1>8, <1>9, <2>1
    <2>3. \A d \in Client : \A i \in held'[d] : i = sessions[d].current
      <3> SUFFICES ASSUME NEW d \in Client, NEW i \in held'[d]
                   PROVE  i = sessions[d].current
        OBVIOUS
      <3>1. \/ \A n \in held[d] : n = sessions[d].current
            \/ a.kind = "tokens" /\ c = d
        BY <1>2, <1>4, <1>11, <2>1, IdleIsNoKind DEF SyncInv
      <3>2. CASE d # c
        BY <1>1, <1>5, <3>1, <3>2
      <3>3. CASE d = c
        <4>1. i \in new
          BY <1>1, <1>5, <3>3
        <4>2. CASE a.kind = "tokens"
          BY <1>2, <1>4, <1>5, <1>11, <3>3, <4>1, <4>2 DEF SyncInv
        <4>3. CASE a.kind # "tokens"
          BY <1>5, <3>1, <3>3, <4>1, <4>3
        <4> QED BY <4>2, <4>3
      <3> QED BY <3>2, <3>3
    <2> QED BY <1>9, <1>11, <2>2, <2>3, IdleIsNoKind DEF SyncInv, Free
  <1> QED BY <1>10, <1>11 DEF DeviceInv

\* An answer is lost: only an application that does not count on it loses one.
LEMMA LoseStep ==
  ASSUME DeviceInv, NEW k \in Call, Lose(k)
  PROVE  DeviceTypes' /\ (Synchronised => SyncInv')
  <1>1. /\ ~ Synchronised /\ UNCHANGED <<authVars, held, style>>
        /\ answers' = [answers EXCEPT ![k] = NoAnswer]
    BY DEF Lose, Synchronised
  <1>2. answers \in [Call -> Answer] /\ requests' = requests /\ held' = held
    BY <1>1 DEF DeviceInv, DeviceTypes, authVars
  <1>3. answers' \in [Call -> Answer]
    BY <1>1, <1>2, NoAnswerIsOne, Zenon
  <1>4. \A j \in Call : answers'[j] = NoAnswer \/ answers'[j] = answers[j]
    BY <1>1, <1>2
  <1> QED BY <1>1, <1>2, <1>3, <1>4 DEF DeviceInv, DeviceTypes

\* A call is sent: by a synchronised application with the current token.
LEMMA SendStep ==
  ASSUME DeviceInv, NEW k \in Call,
         \/ \E g \in Grant : SendExchange(k, g)
         \/ \E c \in Client : SendRefresh(k, c) \/ SendLogout(k, c)
  PROVE  DeviceTypes' /\ (Synchronised => SyncInv')
  <1>1. AuthInv /\ DeviceTypes /\ (Synchronised => SyncInv)
    BY DEF DeviceInv
  <1>2. /\ MaySend(k) /\ UNCHANGED <<held, answers>>
        /\ \/ \E g \in Grant : Begin(k, Exchange(g, now))
           \/ \E c \in Client : \E i \in Sendable(c) :
                Begin(k, Refresh(c, i, now)) \/ Begin(k, Logout(c, i))
    BY ZenonT(30) DEF SendExchange, SendRefresh, SendLogout, BeginExchange, BeginRefresh, BeginLogout
  <1>3. ASSUME NEW g \in Grant, Begin(k, Exchange(g, now))
        PROVE  DeviceTypes' /\ (Synchronised => SyncInv')
    <2>1. PICK q : q = Exchange(g, now)
      OBVIOUS
    <2>2. q.kind = "exchange"
      BY <2>1 DEF Exchange
    <2> QED BY <1>1, <1>2, <1>3, <2>1, <2>2, Sent DEF Synchronised
  <1>4. ASSUME NEW c \in Client, NEW i \in Sendable(c),
               Begin(k, Refresh(c, i, now)) \/ Begin(k, Logout(c, i))
        PROVE  DeviceTypes' /\ (Synchronised => SyncInv')
    <2>1. PICK q : Begin(k, q) /\ (q = Refresh(c, i, now) \/ q = Logout(c, i))
      BY <1>4
    <2>2. q.client = c /\ q.token = i
      <3>1. CASE q = Refresh(c, i, now)
        BY <3>1 DEF Refresh
      <3>2. CASE q = Logout(c, i)
        BY <3>2 DEF Logout
      <3> QED BY <2>1, <3>1, <3>2
    <2>3. Synchronised => i = sessions[c].current
      BY <1>1, <1>2, SendsCurrent
    <2> QED BY <1>1, <1>2, <2>1, <2>2, <2>3, Sent DEF Synchronised
  <1> QED BY <1>2, <1>3, <1>4, Zenon

LEMMA DeviceStep ==
  ASSUME DeviceInv, [DeviceNext]_vars
  PROVE  DeviceInv'
  <1>1. AuthInv'
    BY DeviceSteps, AuthStep DEF DeviceInv
  <1>2. style' = style
    BY ZenonT(30) DEF DeviceNext, vars, Environment, SendExchange, SendRefresh, SendLogout,
       exchange, exchangeFails, refresh, refreshFails, revoke, revokeFails, Reply, Receive, Lose
  <1>3. DeviceTypes' /\ (Synchronised => SyncInv')
    <2>1. CASE UNCHANGED vars
      <3>1. UNCHANGED <<requests, sessions, held, answers, style>>
        BY <2>1 DEF vars, authVars
      <3>2. \A k \in Call : Free(k)' <=> Free(k)
        BY <3>1 DEF Free
      <3> QED BY <3>1, <3>2 DEF DeviceInv, DeviceTypes, SyncInv
    <2>2. CASE Environment
      BY <2>2, EnvironmentStep
    <2>3. ASSUME NEW k \in Call,
                 \/ \E g \in Grant : SendExchange(k, g)
                 \/ \E c \in Client : SendRefresh(k, c)
                 \/ \E c \in Client : SendLogout(k, c)
          PROVE  DeviceTypes' /\ (Synchronised => SyncInv')
      BY <2>3, SendStep
    <2> QED BY <2>1, <2>2, <2>3, HandsOut, HandsOutNothing, ExchangeFailsStep, ReceiveStep,
               LoseStep, Zenon DEF DeviceNext
  <1>4. Synchronised' <=> Synchronised
    BY <1>2 DEF Synchronised
  <1> QED BY <1>1, <1>3, <1>4 DEF DeviceInv

LEMMA DeviceStart == DeviceInit => DeviceInv
  <1> SUFFICES ASSUME DeviceInit PROVE DeviceInv
    OBVIOUS
  <1>1. AuthInv
    BY AuthInit DEF DeviceInit
  <1>2. /\ \A k \in Call : requests[k] = Idle /\ answers[k] = NoAnswer
        /\ \A c \in Client : held[c] = {} /\ sessions[c].revoked = "no"
    BY DEF DeviceInit, Init, AbsentSession
  <1>3. DeviceTypes
    BY NoAnswerIsOne DEF DeviceInit, Init, DeviceTypes
  <1>4. SyncInv
    BY <1>2, IdleIsNoKind DEF SyncInv, Free
  <1> QED BY <1>1, <1>3, <1>4 DEF DeviceInv

-----------------------------------------------------------------------------
(* The theorems about the application.                                     *)

\* The invariant of the composition holds in every state it can reach.
THEOREM DeviceCorrect == DeviceSpec => []DeviceInv
  <1>1. DeviceInit => DeviceInv
    BY DeviceStart
  <1>2. DeviceInv /\ [DeviceNext]_vars => DeviceInv'
    BY DeviceStep
  <1> QED BY <1>1, <1>2, PTL DEF DeviceSpec

\* The composition of application, handlers and schema does nothing to the
\* tables that the schema alone would not do: what is proved of Spec holds here.
THEOREM UsesAuth == DeviceSpec => Spec
  <1>1. DeviceInit => Init
    BY DEF DeviceInit
  <1>2. DeviceInv /\ [DeviceNext]_vars => [Next]_authVars
    BY DeviceSteps DEF DeviceInv
  <1> QED BY <1>1, <1>2, DeviceCorrect, PTL DEF DeviceSpec, Spec

\* With however many calls, clients and rotations: an application that sends one
\* request at a time and receives every answer never presents a superseded token,
\* so RotateRefresh never ends its session as a replay.
THEOREM SerialIsSafe == DeviceSpec => []NeverTakenForReplay
  <1>1. DeviceInv => NeverTakenForReplay
    BY DEF DeviceInv, SyncInv, NeverTakenForReplay
  <1> QED BY <1>1, DeviceCorrect, PTL

\* To such an application a 204 of the logout endpoints always means revoked.
THEOREM LogoutIsEffective == DeviceSpec => []SignedOutMeansRevoked
  <1>1. DeviceInv => SignedOutMeansRevoked
    BY DEF DeviceInv, SyncInv, SignedOutMeansRevoked
  <1> QED BY <1>1, DeviceCorrect, PTL
=============================================================================
