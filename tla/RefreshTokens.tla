---------------------------- MODULE RefreshTokens ----------------------------
(***************************************************************************)
(* The refresh tokens of one account and one browser: the rows of          *)
(* refresh_tokens, the browser's cookie, and the requests to /auth/login,  *)
(* /auth/refresh and /auth/logout under way between them.  A row is named  *)
(* by the order in which it was committed, a family by its first row.      *)
(*                                                                         *)
(* A refresh reads its token without locking the row and commits later;    *)
(* requests share the cookie, and an answer may be lost or come late.      *)
(* Which requests a browser sends is left open here (see Sessions).        *)
(*                                                                         *)
(* A definition marked "Variant" is no part of TokenNext: it is the one    *)
(* below it with a plausible mistake, to show which property would notice. *)
(***************************************************************************)
EXTENDS Naturals

CONSTANTS
    Lines,          \* places for one request of the browser that is under way
    MaxTokens,      \* bound: rows of refresh_tokens
    MaxExpiries,    \* bound: tokens that reach expires_at
    MaxLosses       \* bound: requests that fail or whose answer is lost

ASSUME TokenBoundsAssumption ==
    MaxTokens \in Nat /\ MaxExpiries \in Nat /\ MaxLosses \in Nat

Tokens  == 1 .. MaxTokens
NoToken == 0

VARIABLES
    row,        \* refresh_tokens
    nt,         \* rows committed so far
    cookie,     \* token the browser's cookie holds
    req,        \* the request on each line
    disturbed,  \* history: families with overlapping requests or a lost answer
    expiries,   \* tokens that have expired
    losses      \* requests lost

tokenVars == <<row, nt, cookie, req, disturbed, expiries, losses>>

NoRow   == [status |-> "none", family |-> NoToken]
NoReq   == [at |-> "idle", token |-> NoToken, new |-> NoToken]
FamilyOf(k) == IF k = NoToken THEN NoToken ELSE row[k].family
Revoked(k)  == [status |-> "revoked", family |-> row[k].family]
StatusOf(k) == IF k = NoToken THEN "none" ELSE row[k].status

\* A request that carries a token and may yet change its row or the cookie.
RefreshHolds == {"sent", "rotating", "reused", "accepted"}
LogoutHolds  == {"logout", "revoked"}
Holding      == RefreshHolds \cup LogoutHolds
Stages       == Holding \cup {"idle", "refused", "login", "issued"}

Row     == [status : {"none", "live", "expired", "revoked"}, family : Tokens \cup {NoToken}]
Request == [at : Stages, token : Tokens \cup {NoToken}, new : Tokens \cup {NoToken}]

TokenInit ==
    /\ row = [k \in Tokens |-> NoRow]
    /\ nt = 0
    /\ cookie = NoToken
    /\ req = [l \in Lines |-> NoReq]
    /\ disturbed = {}
    /\ expiries = 0
    /\ losses = 0

-----------------------------------------------------------------------------
(* The browser sends a request with its cookie.                            *)

\* Families disturbed by a request that carries what another one carries.
Overlapped(l) ==
    { FamilyOf(k) : k \in { k \in Tokens :
        k = cookie /\ \E m \in Lines \ {l} : req[m].at \in Holding /\ req[m].token = k } }

SendWith(l, stage) ==
    /\ req[l].at = "idle"
    /\ req' = [req EXCEPT ![l] = [at |-> stage, token |-> cookie, new |-> NoToken]]
    /\ disturbed' = disturbed \cup Overlapped(l)
    /\ UNCHANGED <<row, nt, cookie, expiries, losses>>

SendRefresh(l) == SendWith(l, "sent")
SendLogout(l)  == SendWith(l, "logout")

SendLogin(l) ==
    /\ req[l].at = "idle"
    /\ req' = [req EXCEPT ![l] = [NoReq EXCEPT !.at = "login"]]
    /\ UNCHANGED <<row, nt, cookie, disturbed, expiries, losses>>

-----------------------------------------------------------------------------
(* POST /auth/refresh: the row is read first, the outcome committed later. *)

\* No cookie, or a token that has expired: answered 401 without a change.
\* The cookie stays: the response that would clear it is not the one sent.
RefuseRefresh(l) ==
    /\ req[l].at = "sent"
    /\ StatusOf(req[l].token) \in {"none", "expired"}
    /\ req' = [req EXCEPT ![l].at = "refused"]
    /\ UNCHANGED <<row, nt, cookie, disturbed, expiries, losses>>

\* Variant: revoked_at is not looked at.
ReadTokenAnyhow(l) ==
    /\ req[l].at = "sent"
    /\ StatusOf(req[l].token) \in {"live", "revoked"}
    /\ req' = [req EXCEPT ![l].at = "rotating"]
    /\ UNCHANGED <<row, nt, cookie, disturbed, expiries, losses>>

\* rotate_refresh reads the row; a token already revoked is a reuse.
ReadToken(l) ==
    /\ req[l].at = "sent"
    /\ \/ /\ StatusOf(req[l].token) = "live"
          /\ req' = [req EXCEPT ![l].at = "rotating"]
       \/ /\ StatusOf(req[l].token) = "revoked"
          /\ req' = [req EXCEPT ![l].at = "reused"]
    /\ UNCHANGED <<row, nt, cookie, disturbed, expiries, losses>>

\* Variant: the presented token is left as it is.
RotateKeepingOld(l) ==
    /\ req[l].at = "rotating"
    /\ nt < MaxTokens
    /\ nt' = nt + 1
    /\ row' = [row EXCEPT ![nt + 1] = [status |-> "live", family |-> FamilyOf(req[l].token)]]
    /\ req' = [req EXCEPT ![l].at = "accepted", ![l].new = nt + 1]
    /\ UNCHANGED <<cookie, disturbed, expiries, losses>>

\* The commit of a rotation: whatever the row says by now, it is revoked.
Rotate(l) ==
    LET k == req[l].token IN
    /\ req[l].at = "rotating"
    /\ nt < MaxTokens
    /\ nt' = nt + 1
    /\ row' = [row EXCEPT ![k] = Revoked(k),
                          ![nt + 1] = [status |-> "live", family |-> FamilyOf(k)]]
    /\ req' = [req EXCEPT ![l].at = "accepted", ![l].new = nt + 1]
    /\ UNCHANGED <<cookie, disturbed, expiries, losses>>

\* The commit of _revoke_family: every committed row not yet revoked.
RevokeFamily(l) ==
    LET f == FamilyOf(req[l].token) IN
    /\ req[l].at = "reused"
    /\ row' = [k \in Tokens |->
         IF FamilyOf(k) = f THEN Revoked(k) ELSE row[k]]
    /\ req' = [req EXCEPT ![l].at = "refused"]
    /\ UNCHANGED <<nt, cookie, disturbed, expiries, losses>>

-----------------------------------------------------------------------------
(* POST /auth/login and POST /auth/logout.                                 *)

\* Too many attempts, or the wrong credentials.
RefuseLogin(l) ==
    /\ req[l].at = "login"
    /\ req' = [req EXCEPT ![l].at = "refused"]
    /\ UNCHANGED <<row, nt, cookie, disturbed, expiries, losses>>

\* A session begins: its first token names a new family.
IssueTokens(l) ==
    /\ req[l].at = "login"
    /\ nt < MaxTokens
    /\ nt' = nt + 1
    /\ row' = [row EXCEPT ![nt + 1] = [status |-> "live", family |-> nt + 1]]
    /\ req' = [req EXCEPT ![l].at = "issued", ![l].new = nt + 1]
    /\ UNCHANGED <<cookie, disturbed, expiries, losses>>

\* Variant: the revocation is not committed.
RevokeRefreshUncommitted(l) ==
    /\ req[l].at = "logout"
    /\ req' = [req EXCEPT ![l].at = "revoked"]
    /\ UNCHANGED <<row, nt, cookie, disturbed, expiries, losses>>

\* Only the presented token, if it is not revoked yet.
RevokeRefresh(l) ==
    /\ req[l].at = "logout"
    /\ row' = [k \in Tokens |->
         IF k = req[l].token THEN Revoked(k) ELSE row[k]]
    /\ req' = [req EXCEPT ![l].at = "revoked"]
    /\ UNCHANGED <<nt, cookie, disturbed, expiries, losses>>

-----------------------------------------------------------------------------
(* Answers, losses and time.                                               *)

\* Variant: the answer to a refresh leaves the cookie as it was.
ReceiveBody(l) ==
    /\ req[l].at \in {"accepted", "issued", "refused", "revoked"}
    /\ cookie' = CASE req[l].at = "issued"  -> req[l].new
                   [] req[l].at = "revoked" -> NoToken
                   [] OTHER -> cookie
    /\ req' = [req EXCEPT ![l] = NoReq]
    /\ UNCHANGED <<row, nt, disturbed, expiries, losses>>

\* The browser takes the answer and the cookie it sets or clears.
Receive(l) ==
    /\ req[l].at \in {"accepted", "issued", "refused", "revoked"}
    /\ cookie' = CASE req[l].at \in {"accepted", "issued"} -> req[l].new
                   [] req[l].at = "revoked" -> NoToken
                   [] OTHER -> cookie
    /\ req' = [req EXCEPT ![l] = NoReq]
    /\ UNCHANGED <<row, nt, disturbed, expiries, losses>>

\* A request does not arrive, its transaction is rolled back, or its answer
\* is lost.  An answer lost after the token was revoked disturbs the family.
Lose(l) ==
    /\ req[l].at # "idle"
    /\ losses < MaxLosses
    /\ losses' = losses + 1
    /\ disturbed' = disturbed \cup
         { FamilyOf(k) : k \in { k \in Tokens :
             k = req[l].token /\ req[l].at \in {"accepted", "revoked"} } }
    /\ req' = [req EXCEPT ![l] = NoReq]
    /\ UNCHANGED <<row, nt, cookie, expiries>>

Expire(k) ==
    /\ row[k].status = "live"
    /\ expiries < MaxExpiries
    /\ expiries' = expiries + 1
    /\ row' = [row EXCEPT ![k].status = "expired"]
    /\ UNCHANGED <<nt, cookie, req, disturbed, losses>>

\* The cookie's max_age, counted from its receipt, ends after its token's.
DropCookie ==
    /\ StatusOf(cookie) = "expired"
    /\ cookie' = NoToken
    /\ UNCHANGED <<row, nt, req, disturbed, expiries, losses>>

\* What the server and the network do with a request.
Serve(l) ==
    \/ RefuseRefresh(l) \/ ReadToken(l) \/ Rotate(l) \/ RevokeFamily(l)
    \/ RefuseLogin(l) \/ IssueTokens(l) \/ RevokeRefresh(l)

TokenNext ==
    \/ \E l \in Lines :
         \/ SendRefresh(l) \/ SendLogout(l) \/ SendLogin(l)
         \/ Serve(l) \/ Receive(l) \/ Lose(l)
    \/ \E k \in Tokens : Expire(k)
    \/ DropCookie

TokenSpec == TokenInit /\ [][TokenNext]_tokenVars

-----------------------------------------------------------------------------
(* Properties                                                              *)

TokenTypeOK ==
    /\ row \in [Tokens -> Row]
    /\ \A k \in Tokens : row[k].status = "none" <=> row[k].family = NoToken
    /\ nt \in 0 .. MaxTokens
    /\ cookie \in Tokens \cup {NoToken}
    /\ req \in [Lines -> Request]
    /\ disturbed \subseteq Tokens
    /\ expiries \in 0 .. MaxExpiries
    /\ losses \in 0 .. MaxLosses

\* A family in which nothing can be used and no rotation is open.
DeadFamily(f) ==
    /\ row[f].status # "none"
    /\ \A k \in Tokens : FamilyOf(k) = f => row[k].status # "live"
    /\ \A l \in Lines : req[l].at = "rotating" => FamilyOf(req[l].token) # f

\* Rotation leaves a family one token that can be used, although requests
\* read their token without a lock: a second one takes two requests that
\* carried the same token at once, or an answer that never arrived.
OneTokenPerFamily ==
    \A k, m \in Tokens :
        row[k].status = "live" /\ row[m].status = "live" /\ FamilyOf(k) = FamilyOf(m)
          => k = m \/ FamilyOf(k) \in disturbed

\* A session does not end by itself: without such an accident no token of
\* its family is taken for a reuse, and once no request carries a token of
\* the family the browser's cookie holds one that has not been revoked.
SessionEndsForCause ==
    \A f \in Tokens \ disturbed :
        /\ \A l \in Lines : req[l].at = "reused" => FamilyOf(req[l].token) # f
        /\ \/ FamilyOf(cookie) # f
           \/ StatusOf(cookie) # "revoked"
           \/ \E l \in Lines : req[l].at \in Holding /\ FamilyOf(req[l].token) = f

\* Logout revokes only the token it was sent, which is enough: when it
\* answers, the family has no other usable token and no rotation open, or
\* another request had carried the same token, or an answer was lost.
LogoutEndsSession ==
    \A l \in Lines :
        req[l].at = "revoked" /\ req[l].token # NoToken
          => DeadFamily(FamilyOf(req[l].token)) \/ FamilyOf(req[l].token) \in disturbed

\* After a logout, a detected reuse or the expiry of its last token a family
\* never gets a usable token again: no request in flight can bring it back,
\* unless it is a rotation that had read its token before.
DeadStaysDead == [][\A f \in Tokens : DeadFamily(f) => DeadFamily(f)']_tokenVars
=============================================================================
