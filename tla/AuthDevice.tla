----------------------------- MODULE AuthDevice -----------------------------
(***************************************************************************)
(* A client application in front of Auth: it holds one refresh token (the  *)
(* browser's cookie, the iPhone's keychain entry), sends it to refresh and *)
(* to log out, and adopts what the HTTP handlers answer.                   *)
(*                                                                         *)
(* A style says how the application goes about it.  serial: it waits for   *)
(* an answer before it sends the next request; two browser tabs that share *)
(* the cookie do not.  lossy: an answer may be lost after its transaction  *)
(* has committed.  browser: the cookie endpoints, which clear the cookie   *)
(* with every failed refresh and every logout, not the native ones.        *)
(* copies: copies of every token handed out so far may be sent.            *)
(***************************************************************************)
EXTENDS Auth

CONSTANT Styles

ASSUME DeviceAssumption ==
  Styles \subseteq [serial : BOOLEAN, lossy : BOOLEAN, browser : BOOLEAN, copies : BOOLEAN]

VARIABLES
  held,      \* by client, the numbers of the refresh tokens held: one or none
  answers,   \* by call, the answer on its way
  style      \* of the application, chosen once

vars == <<authVars, held, answers, style>>

NoAnswer == [kind |-> "none"]
Tokens(c, i) == [kind |-> "tokens", client |-> c, token |-> i]
Failure(c) == [kind |-> "failure", client |-> c]
Cleared(c) == [kind |-> "cleared", client |-> c]   \* a failure that clears the cookie
SignedOut(c) == [kind |-> "signedOut", client |-> c]

Answer == {NoAnswer} \cup {Tokens(c, i) : c \in Client, i \in Number}
            \cup UNION {{Failure(c), Cleared(c), SignedOut(c)} : c \in Client}

DeviceInit ==
  /\ Init
  /\ held = [c \in Client |-> {}]
  /\ answers = [k \in Call |-> NoAnswer]
  /\ style \in Styles

Free(k) == requests[k] = Idle /\ answers[k] = NoAnswer
MaySend(k) == Free(k) /\ (style.serial => \A j \in Call : Free(j))

\* The operator's part and the clock do not concern the device.
Environment ==
  /\ \/ Tick
     \/ \E g \in Grant, scopes \in SUBSET Scope : CreatePairingGrant(g, scopes)
     \/ \E c \in Client : RevokeClient(c)
  /\ UNCHANGED <<held, answers, style>>

Sendable(c) == IF style.copies THEN Number ELSE held[c]
SendExchange(k, g) == MaySend(k) /\ BeginExchange(k, g) /\ UNCHANGED <<held, answers, style>>
SendRefresh(k, c) ==
  /\ MaySend(k)
  /\ \E i \in Sendable(c) : BeginRefresh(k, c, i)
  /\ UNCHANGED <<held, answers, style>>
SendLogout(k, c) ==
  /\ MaySend(k)
  /\ \E i \in Sendable(c) : BeginLogout(k, c, i)
  /\ UNCHANGED <<held, answers, style>>

Reply(k, a) == answers' = [answers EXCEPT ![k] = a] /\ UNCHANGED <<held, style>>

-----------------------------------------------------------------------------
exchange(k, c) == ExchangePairingGrant(k, c) /\ Reply(k, Tokens(c, 0))
exchangeFails(k) == requests[k].kind = "exchange" /\ Refused(k) /\ UNCHANGED <<held, answers, style>>

\* Altered for mutation testing: the answer repeats the presented token.
refreshOldToken(k) ==
  /\ RotateRefresh(k)
  /\ Reply(k, Tokens(requests[k].client, requests[k].token))

refresh(k) ==
  /\ RotateRefresh(k)
  /\ Reply(k, Tokens(requests[k].client, requests[k].token + 1))

\* A replay, any other refusal, and a failed transaction look alike.
refreshFails(k) ==
  /\ requests[k].kind = "refresh"
  /\ RefreshReplay(k) \/ Refused(k)
  /\ LET c == requests[k].client IN Reply(k, IF style.browser THEN Cleared(c) ELSE Failure(c))

\* Altered for mutation testing: a failed transaction is answered like success.
revokeAnyError(k) ==
  /\ requests[k].kind = "logout"
  /\ RevokeSession(k) \/ Refused(k)
  /\ Reply(k, SignedOut(requests[k].client))

\* The handlers treat ErrInvalidCredential like success: a token that is not
\* the current one is answered 204 too.
revoke(k) ==
  /\ requests[k].kind = "logout"
  /\ \/ RevokeSession(k)
     \/ requests[k].token # sessions[requests[k].client].current /\ Refused(k)
  /\ Reply(k, SignedOut(requests[k].client))

revokeFails(k) ==
  /\ requests[k].kind = "logout"
  /\ Refused(k)
  /\ Reply(k, Failure(requests[k].client))

\* The application takes the answer.
Receive(k) == LET a == answers[k] IN
  /\ a # NoAnswer
  /\ held' = [held EXCEPT ![a.client] =
       CASE a.kind = "tokens" -> {a.token}
         [] a.kind = "failure" -> @
         [] OTHER -> {}]
  /\ answers' = [answers EXCEPT ![k] = NoAnswer]
  /\ UNCHANGED <<authVars, style>>

Lose(k) ==
  /\ style.lossy
  /\ answers[k] # NoAnswer
  /\ answers' = [answers EXCEPT ![k] = NoAnswer]
  /\ UNCHANGED <<authVars, held, style>>

DeviceNext ==
  \/ Environment
  \/ \E k \in Call :
       \/ \E g \in Grant : SendExchange(k, g)
       \/ \E c \in Client : SendRefresh(k, c)
       \/ \E c \in Client : SendLogout(k, c)
       \/ \E c \in Client : exchange(k, c)
       \/ exchangeFails(k)
       \/ refresh(k)
       \/ refreshFails(k)
       \/ revoke(k)
       \/ revokeFails(k)
       \/ Receive(k)
       \/ Lose(k)

DeviceSpec == DeviceInit /\ [][DeviceNext]_vars

-----------------------------------------------------------------------------
\* Requests and answers belong together, at most one token is held.
DeviceTypeOK ==
  /\ TypeOK
  /\ held \in [Client -> {{}} \cup {{i} : i \in Number}]
  /\ answers \in [Call -> Answer]
  /\ \A k \in Call : requests[k] # Idle => answers[k] = NoAnswer

\* The application sends one request at a time, nothing but the token it holds,
\* and receives every answer.
Synchronised == style.serial /\ ~ style.lossy /\ ~ style.copies

\* Such an application is never taken for a replay: RotateRefresh and the answer
\* of the refresh handlers keep the token it holds current, whatever fails in
\* between.
NeverTakenForReplay ==
  Synchronised => \A c \in Client : sessions[c].revoked # "refresh_replay"

\* To such an application the answer 204 of the logout endpoints says that the
\* session is revoked.  (To any other it may not be: a token that is no longer
\* the current one is answered 204 too and nothing is revoked.)
SignedOutMeansRevoked ==
  Synchronised =>
    \A k \in Call : answers[k].kind = "signedOut" =>
                       sessions[answers[k].client].revoked # "no"
=============================================================================
