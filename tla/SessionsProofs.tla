---------------------------- MODULE SessionsProofs ----------------------------
(***************************************************************************)
(* Theorems about RefreshTokens for any set of lines and any bounds, and   *)
(* about Sessions for any set of tabs: its steps are steps of              *)
(* RefreshTokens, so what holds of the tokens holds whatever the tabs do.  *)
(*                                                                         *)
(* ShapeInv ties requests and cookie to the rows.  CalmInv says of each    *)
(* family that is not disturbed where its one usable token can be: with    *)
(* the one request that carries it, in the answer that brings it, or in    *)
(* the cookie.                                                             *)
(***************************************************************************)
EXTENDS Sessions, TLAPS

\* Rows are numbered by their commits, a family by its first row; whoever
\* holds a token holds one that exists.
ShapeInv ==
    /\ \A k \in Tokens : row[k].status = "none" <=> k > nt
    /\ \A k \in Tokens : k <= nt => row[k].family <= k
    /\ cookie <= nt
    /\ \A l \in Lines :
         /\ req[l].token <= nt
         /\ req[l].new <= nt
         /\ req[l].at \in {"rotating", "reused", "accepted"} => req[l].token # NoToken
         /\ req[l].at \in {"accepted", "issued"} => req[l].new # NoToken
         /\ req[l].at = "accepted" => FamilyOf(req[l].new) = FamilyOf(req[l].token)
         /\ req[l].at = "revoked" /\ req[l].token # NoToken
              => StatusOf(req[l].token) = "revoked"

Carries(l, f) == req[l].at \in Holding /\ FamilyOf(req[l].token) = f
Brings(l, f)  == req[l].at = "issued" /\ FamilyOf(req[l].new) = f

\* The only token of the family that may be usable.
OnlyUsable(f, k) == \A m \in Tokens : FamilyOf(m) = f /\ row[m].status = "live" => m = k

AtMostOne(f) ==
    \A k, m \in Tokens :
        /\ FamilyOf(k) = f /\ row[k].status = "live"
        /\ FamilyOf(m) = f /\ row[m].status = "live"
        => k = m

\* No other line has to do with the family.
Sole(l, f) == \A m \in Lines \ {l} : ~Carries(m, f) /\ ~Brings(m, f)

\* A request that carries a token of the family is the only one that does;
\* the cookie holds the same token, and no other is usable.
CarriedAlone(l, f) ==
    /\ Sole(l, f)
    /\ FamilyOf(cookie) = f => cookie = req[l].token
    /\ req[l].at # "reused"
    /\ req[l].at \in {"sent", "rotating", "logout"} => StatusOf(req[l].token) # "revoked"
    /\ req[l].at = "accepted" =>
         StatusOf(req[l].new) # "revoked" /\ OnlyUsable(f, req[l].new)
    /\ req[l].at # "accepted" => OnlyUsable(f, req[l].token)

\* The answer to a sign-in is all there is of its family.
BroughtAlone(l, f) ==
    /\ Sole(l, f)
    /\ FamilyOf(cookie) # f
    /\ StatusOf(req[l].new) # "revoked"
    /\ OnlyUsable(f, req[l].new)

\* With no request about, the cookie holds the usable token, if it is one
\* of the family at all.
CookieAlone(f) ==
    FamilyOf(cookie) = f => StatusOf(cookie) # "revoked" /\ OnlyUsable(f, cookie)

Calm(f) ==
    /\ AtMostOne(f)
    /\ \A l \in Lines : Carries(l, f) => CarriedAlone(l, f)
    /\ \A l \in Lines : Brings(l, f) => BroughtAlone(l, f)
    /\ (\A l \in Lines : ~Carries(l, f)) => CookieAlone(f)

CalmInv == \A f \in Tokens \ disturbed : Calm(f)

TokenInv == TokenTypeOK /\ ShapeInv /\ CalmInv

USE TokenBoundsAssumption

-----------------------------------------------------------------------------
(* Types and shape                                                         *)

LEMMA TokenInvInit == TokenInit => TokenInv
<1> SUFFICES ASSUME TokenInit PROVE TokenInv
  OBVIOUS
<1> USE DEF TokenInit, NoRow, NoReq, Tokens, NoToken
<1>1. TokenTypeOK
  BY DEF TokenTypeOK, Stages, Holding, Row, Request
<1>2. ShapeInv
  BY DEF ShapeInv
<1>3. CalmInv
  BY DEF CalmInv, Calm, AtMostOne, CookieAlone, Carries, Brings, FamilyOf, Holding, RefreshHolds,
         LogoutHolds
<1> QED
  BY <1>1, <1>2, <1>3 DEF TokenInv

\* A row that exists has a family, and whoever names a row names one.
LEMMA Shape ==
    ASSUME TokenTypeOK, ShapeInv
    PROVE  /\ \A k \in Tokens : k <= nt => row[k].family \in Tokens
           /\ \A k \in Tokens \cup {NoToken} :
                k <= nt => FamilyOf(k) \in Nat /\ FamilyOf(k) <= k /\ (k # NoToken => FamilyOf(k) \in Tokens)
           /\ \A l \in Lines : req[l].token # NoToken => req[l].token \in Tokens
           /\ \A l \in Lines : FamilyOf(req[l].token) # NoToken => req[l].token # NoToken
  BY DEF TokenTypeOK, Row, Request, ShapeInv, FamilyOf, Tokens, NoToken

\* A rotation, row by row.
LEMMA RotateRows ==
    ASSUME TokenTypeOK, ShapeInv, NEW l \in Lines, Rotate(l)
    PROVE  /\ nt + 1 \in Tokens
           /\ req[l].token \in Tokens
           /\ req[l].token <= nt
           /\ FamilyOf(req[l].token) \in Tokens
           /\ row' = [m \in Tokens |->
                IF m = nt + 1 THEN [status |-> "live", family |-> FamilyOf(req[l].token)]
                ELSE IF m = req[l].token THEN [status |-> "revoked", family |-> row[m].family]
                ELSE row[m]]
<1>1. req[l].token \in Tokens /\ req[l].token <= nt /\ FamilyOf(req[l].token) \in Tokens
  BY Shape DEF Rotate, ShapeInv
<1>2. nt + 1 \in Tokens
  BY DEF Rotate, TokenTypeOK, Tokens
<1>3. nt + 1 # req[l].token
  BY <1>1 DEF TokenTypeOK, Tokens
<1>4. row \in [Tokens -> Row]
  BY DEF TokenTypeOK
<1> QED
  BY <1>1, <1>2, <1>3, <1>4 DEF Rotate, Revoked

LEMMA TypeStep ==
    ASSUME TokenTypeOK, ShapeInv, [TokenNext]_tokenVars
    PROVE  TokenTypeOK'
<1> USE DEF TokenTypeOK, Stages, Holding, RefreshHolds, LogoutHolds, Tokens, NoToken, NoReq
<1>1. ASSUME NEW l \in Lines, NEW stage \in {"sent", "logout"}, SendWith(l, stage)
      PROVE  TokenTypeOK'
  <2>1. Overlapped(l) \subseteq Tokens
    BY Shape DEF Overlapped, ShapeInv
  <2> QED
    BY <1>1, <2>1 DEF SendWith, Request
<1>2. ASSUME NEW l \in Lines, SendLogin(l) PROVE TokenTypeOK'
  BY <1>2 DEF SendLogin, Request
<1>3. ASSUME NEW l \in Lines, RefuseRefresh(l) \/ ReadToken(l) \/ RefuseLogin(l)
      PROVE  TokenTypeOK'
  <2>1. \E stage \in Stages : req' = [req EXCEPT ![l].at = stage]
    BY <1>3 DEF RefuseRefresh, ReadToken, RefuseLogin
  <2>2. UNCHANGED <<row, nt, cookie, disturbed, expiries, losses>>
    BY <1>3 DEF RefuseRefresh, ReadToken, RefuseLogin
  <2> QED
    BY <2>1, <2>2 DEF Request
<1>4. ASSUME NEW l \in Lines, Receive(l) PROVE TokenTypeOK'
  <2>1. cookie' \in {req[l].new, NoToken, cookie}
    BY <1>4 DEF Receive
  <2>2. req' = [req EXCEPT ![l] = NoReq] /\ UNCHANGED <<row, nt, disturbed, expiries, losses>>
    BY <1>4 DEF Receive
  <2> QED
    BY <2>1, <2>2 DEF Request
<1>5. ASSUME NEW l \in Lines, Rotate(l) PROVE TokenTypeOK'
  <2>1. nt + 1 \in Tokens /\ nt' \in 0 .. MaxTokens
    BY <1>5 DEF Rotate
  <2>2. row' \in [Tokens -> Row]
    BY <1>5, RotateRows DEF Row
  <2>3. req' \in [Lines -> Request]
    BY <1>5, <2>1 DEF Rotate, Request
  <2>4. \A k \in Tokens : row'[k].status = "none" <=> row'[k].family = NoToken
    <3> TAKE k \in Tokens
    <3>1. CASE k = nt + 1
      BY <1>5, RotateRows, <3>1
    <3>2. CASE k # nt + 1 /\ k = req[l].token
      BY <1>5, RotateRows, <3>2 DEF FamilyOf
    <3>3. CASE k # nt + 1 /\ k # req[l].token
      BY <1>5, RotateRows, <3>3
    <3> QED
      BY <3>1, <3>2, <3>3
  <2> QED
    BY <1>5, <2>1, <2>2, <2>3, <2>4 DEF Rotate
<1>6. ASSUME NEW l \in Lines, RevokeFamily(l) PROVE TokenTypeOK'
  <2>1. FamilyOf(req[l].token) \in Tokens
    BY <1>6, Shape DEF RevokeFamily, ShapeInv
  <2>2. row' \in [Tokens -> Row]
    BY <1>6 DEF RevokeFamily, Revoked, Row
  <2>3. \A k \in Tokens : row'[k].status = "none" <=> row'[k].family = NoToken
    BY <1>6, <2>1 DEF RevokeFamily, Revoked, FamilyOf, Row
  <2>4. req' \in [Lines -> Request]
    BY <1>6 DEF RevokeFamily, Request
  <2> QED
    BY <1>6, <2>2, <2>3, <2>4 DEF RevokeFamily
<1>7. ASSUME NEW l \in Lines, IssueTokens(l) PROVE TokenTypeOK'
  <2>1. nt + 1 \in Tokens /\ nt' \in 0 .. MaxTokens
    BY <1>7 DEF IssueTokens
  <2>2. row' \in [Tokens -> Row]
    BY <1>7, <2>1 DEF IssueTokens, Row
  <2>3. \A k \in Tokens : row'[k].status = "none" <=> row'[k].family = NoToken
    BY <1>7, <2>1 DEF IssueTokens, Row
  <2>4. req' \in [Lines -> Request]
    BY <1>7, <2>1 DEF IssueTokens, Request
  <2> QED
    BY <1>7, <2>1, <2>2, <2>3, <2>4 DEF IssueTokens
<1>8. ASSUME NEW l \in Lines, RevokeRefresh(l) PROVE TokenTypeOK'
  <2>1. row' \in [Tokens -> Row]
    BY <1>8 DEF RevokeRefresh, Revoked, Row
  <2>2. \A k \in Tokens : row'[k].status = "none" <=> row'[k].family = NoToken
    BY <1>8, Shape DEF RevokeRefresh, Revoked, ShapeInv, Row
  <2>3. req' \in [Lines -> Request]
    BY <1>8 DEF RevokeRefresh, Request
  <2> QED
    BY <1>8, <2>1, <2>2, <2>3 DEF RevokeRefresh
<1>9. ASSUME NEW l \in Lines, Lose(l) PROVE TokenTypeOK'
  <2>1. \A k \in Tokens : k = req[l].token => FamilyOf(k) \in Tokens
    BY Shape DEF ShapeInv
  <2>2. disturbed' \subseteq Tokens
    BY <1>9, <2>1 DEF Lose
  <2>3. req' \in [Lines -> Request]
    BY <1>9 DEF Lose, Request
  <2> QED
    BY <1>9, <2>2, <2>3 DEF Lose
<1>10. ASSUME NEW k \in Tokens, Expire(k) PROVE TokenTypeOK'
  BY <1>10 DEF Expire, Row
<1>11. ASSUME DropCookie PROVE TokenTypeOK'
  BY <1>11 DEF DropCookie
<1>12. CASE UNCHANGED tokenVars
  BY <1>12 DEF tokenVars
<1> QED
  BY <1>1, <1>2, <1>3, <1>4, <1>5, <1>6, <1>7, <1>8, <1>9, <1>10, <1>11, <1>12
     DEF TokenNext, SendRefresh, SendLogout, Serve

LEMMA ShapeRotate ==
    ASSUME TokenTypeOK, ShapeInv, NEW l \in Lines, Rotate(l)
    PROVE  ShapeInv'
<1> DEFINE k == req[l].token
<1>1. k \in Tokens /\ k <= nt /\ nt + 1 \in Tokens /\ FamilyOf(k) \in Tokens
  BY RotateRows
<1>2. FamilyOf(k) <= nt /\ row[k].family = FamilyOf(k)
  BY <1>1, Shape DEF FamilyOf, TokenTypeOK, Tokens, NoToken
<1>3. /\ \A m \in Tokens : m # nt + 1 => row'[m].family = row[m].family
      /\ \A m \in Tokens : m # nt + 1 => (row'[m].status = "none" <=> row[m].status = "none")
      /\ \A m \in Tokens : m # nt + 1 /\ row[m].status = "revoked" => row'[m].status = "revoked"
      /\ row'[nt + 1].status = "live"
      /\ row'[nt + 1].family = FamilyOf(k)
  <2>1. \A m \in Tokens : m # nt + 1 /\ m # k => row'[m] = row[m]
    BY RotateRows
  <2>2. row'[k].status = "revoked" /\ row'[k].family = row[k].family
    BY <1>1, RotateRows DEF TokenTypeOK, Tokens
  <2>3. row[k].status # "none"
    BY <1>1 DEF ShapeInv, TokenTypeOK, Tokens
  <2>4. row'[nt + 1] = [status |-> "live", family |-> FamilyOf(k)]
    BY <1>1, RotateRows
  <2> QED
    BY <2>1, <2>2, <2>3, <2>4
<1>4. nt' = nt + 1 /\ UNCHANGED cookie
  BY DEF Rotate
<1>5. /\ \A m \in Lines \ {l} : req'[m] = req[m]
      /\ req'[l] = [at |-> "accepted", token |-> k, new |-> nt + 1]
  BY DEF Rotate, TokenTypeOK, Request
<1> HIDE DEF k
<1>6. /\ \A m \in Tokens : row'[m].status = "none" <=> m > nt'
      /\ \A m \in Tokens : m <= nt' => row'[m].family <= m
      /\ cookie' <= nt'
  <2>1. nt \in Nat /\ FamilyOf(k) \in Nat /\ FamilyOf(k) <= nt
    BY <1>1, <1>2 DEF TokenTypeOK, Tokens
  <2>2. \A m \in Tokens : row[m].status = "none" <=> m > nt
    BY DEF ShapeInv
  <2>3. \A m \in Tokens : m <= nt => row[m].family <= m
    BY DEF ShapeInv
  <2>4. \A m \in Tokens : row'[m].status = "none" <=> m > nt'
    <3> TAKE m \in Tokens
    <3>1. CASE m = nt + 1
      BY <3>1, <1>3, <1>4, <2>1
    <3>2. CASE m # nt + 1
      BY <3>2, <1>3, <1>4, <2>1, <2>2 DEF Tokens
    <3> QED
      BY <3>1, <3>2
  <2>5. \A m \in Tokens : m <= nt' => row'[m].family <= m
    <3> TAKE m \in Tokens
    <3>1. CASE m = nt + 1
      BY <3>1, <1>3, <2>1
    <3>2. CASE m # nt + 1
      BY <3>2, <1>3, <1>4, <2>1, <2>3 DEF Tokens
    <3> QED
      BY <3>1, <3>2
  <2>6. cookie' <= nt'
    BY <1>4, <2>1 DEF ShapeInv, TokenTypeOK, Tokens, NoToken
  <2> QED
    BY <2>4, <2>5, <2>6
<1>7. \A m \in Lines \ {l} :
         /\ req'[m].token <= nt'
         /\ req'[m].new <= nt'
         /\ req'[m].at \in {"rotating", "reused", "accepted"} => req'[m].token # NoToken
         /\ req'[m].at \in {"accepted", "issued"} => req'[m].new # NoToken
         /\ req'[m].at = "accepted" => FamilyOf(req[m].new)' = FamilyOf(req[m].token)'
         /\ req'[m].at = "revoked" /\ req'[m].token # NoToken
              => StatusOf(req[m].token)' = "revoked"
  BY <1>1, <1>3, <1>4, <1>5
     DEF ShapeInv, TokenTypeOK, Request, Tokens, NoToken, FamilyOf, StatusOf
<1>8. /\ req'[l].token <= nt'
      /\ req'[l].new <= nt'
      /\ req'[l].token # NoToken
      /\ req'[l].new # NoToken
      /\ FamilyOf(req[l].new)' = FamilyOf(req[l].token)'
      /\ req'[l].at = "accepted"
  BY <1>1, <1>2, <1>3, <1>4, <1>5 DEF TokenTypeOK, Tokens, NoToken, FamilyOf
<1> QED
  BY <1>6, <1>7, <1>8 DEF ShapeInv

LEMMA ShapeStep ==
    ASSUME TokenTypeOK, ShapeInv, [TokenNext]_tokenVars
    PROVE  ShapeInv'
<1> USE DEF ShapeInv, FamilyOf, StatusOf, NoToken, NoReq
<1>1. ASSUME NEW l \in Lines, NEW stage \in {"sent", "logout"}, SendWith(l, stage)
      PROVE  ShapeInv'
  BY <1>1 DEF SendWith, TokenTypeOK, Request
<1>2. ASSUME NEW l \in Lines, SendLogin(l) PROVE ShapeInv'
  BY <1>2 DEF SendLogin, TokenTypeOK, Request
<1>3. ASSUME NEW l \in Lines, RefuseRefresh(l) \/ ReadToken(l) \/ RefuseLogin(l)
      PROVE  ShapeInv'
  BY <1>3 DEF RefuseRefresh, ReadToken, RefuseLogin, TokenTypeOK, Request
<1>4. ASSUME NEW l \in Lines, Receive(l) PROVE ShapeInv'
  BY <1>4 DEF Receive, TokenTypeOK, Request
<1>5. ASSUME NEW l \in Lines, Rotate(l) PROVE ShapeInv'
  BY <1>5, ShapeRotate
<1>6. ASSUME NEW l \in Lines, RevokeFamily(l) PROVE ShapeInv'
  <2>1. FamilyOf(req[l].token) \in Tokens
    BY <1>6, Shape DEF RevokeFamily
  <2>2. row' = [m \in Tokens |->
                  IF row[m].family = FamilyOf(req[l].token) THEN Revoked(m) ELSE row[m]]
    BY <1>6 DEF RevokeFamily, Tokens
  <2>3. /\ \A m \in Tokens : row'[m].family = row[m].family
        /\ \A m \in Tokens : row'[m].status = "none" <=> row[m].status = "none"
        /\ \A m \in Tokens : row[m].status = "revoked" => row'[m].status = "revoked"
    BY <2>1, <2>2 DEF Revoked, TokenTypeOK, Row, Tokens
  <2> QED
    BY <1>6, <2>3 DEF RevokeFamily, TokenTypeOK, Request, Tokens
<1>7. ASSUME NEW l \in Lines, IssueTokens(l) PROVE ShapeInv'
  BY <1>7 DEF IssueTokens, TokenTypeOK, Request, Row, Tokens
<1>8. ASSUME NEW l \in Lines, RevokeRefresh(l) PROVE ShapeInv'
  <2>1. /\ \A m \in Tokens : row'[m].family = row[m].family
        /\ \A m \in Tokens : row'[m].status = "none" <=> row[m].status = "none"
        /\ \A m \in Tokens : row[m].status = "revoked" => row'[m].status = "revoked"
        /\ \A m \in Tokens : m = req[l].token => row'[m].status = "revoked"
    BY <1>8, Shape DEF RevokeRefresh, Revoked, TokenTypeOK, Row, Tokens
  <2> QED
    BY <1>8, <2>1 DEF RevokeRefresh, TokenTypeOK, Request, Tokens
<1>9. ASSUME NEW l \in Lines, Lose(l) PROVE ShapeInv'
  BY <1>9 DEF Lose, TokenTypeOK, Request
<1>10. ASSUME NEW k \in Tokens, Expire(k) PROVE ShapeInv'
  BY <1>10 DEF Expire, TokenTypeOK, Request, Row
<1>11. ASSUME DropCookie PROVE ShapeInv'
  BY <1>11 DEF DropCookie, TokenTypeOK
<1>12. CASE UNCHANGED tokenVars
  BY <1>12 DEF tokenVars
<1> QED
  BY <1>1, <1>2, <1>3, <1>4, <1>5, <1>6, <1>7, <1>8, <1>9, <1>10, <1>11, <1>12
     DEF TokenNext, SendRefresh, SendLogout, Serve

-----------------------------------------------------------------------------
(* A family that is not disturbed stays calm, action by action.            *)

\* Where only one line has to do with the family, that line decides.
LEMMA SoleCalm ==
    ASSUME NEW f \in Tokens, NEW l \in Lines,
           Sole(l, f)', AtMostOne(f)',
           Carries(l, f)' => CarriedAlone(l, f)',
           Brings(l, f)' => BroughtAlone(l, f)',
           ~Carries(l, f)' => CookieAlone(f)'
    PROVE  Calm(f)'
  BY DEF Calm, Sole

\* A line that has nothing to do with the family, before or after, leaves it
\* calm, if it leaves its rows alone and brings no cookie of it.
LEMMA CalmFrame ==
    ASSUME NEW f \in Tokens, Calm(f), NEW l \in Lines,
           \A m \in Lines \ {l} : req'[m] = req[m],
           ~Carries(l, f), ~Brings(l, f), ~Carries(l, f)', ~Brings(l, f)',
           \A k \in Tokens : row'[k].family = f <=> row[k].family = f,
           \A k \in Tokens : row[k].family = f => row'[k] = row[k],
           cookie' = cookie \/ FamilyOf(cookie)' # f,
           TokenTypeOK, TokenTypeOK', ShapeInv
    PROVE  Calm(f)'
<1>0. \A k \in Tokens : /\ FamilyOf(k)' = f <=> FamilyOf(k) = f
                        /\ FamilyOf(k) = f => row'[k] = row[k]
  BY DEF FamilyOf, Tokens, NoToken
<1>1. \A m \in Lines : Carries(m, f)' <=> Carries(m, f)
  BY DEF Carries, FamilyOf, TokenTypeOK, Request
<1>2. \A m \in Lines : Brings(m, f)' <=> Brings(m, f)
  BY DEF Brings, FamilyOf, TokenTypeOK, Request
<1>3. \A m \in Lines : Sole(m, f)' <=> Sole(m, f)
  BY <1>1, <1>2 DEF Sole
<1>4. \A k \in Tokens \cup {NoToken} : OnlyUsable(f, k)' <=> OnlyUsable(f, k)
  BY <1>0 DEF OnlyUsable
<1>5. AtMostOne(f)'
  BY <1>0 DEF Calm, AtMostOne
<1>6. \A k \in Tokens \cup {NoToken} :
         FamilyOf(k) = f => FamilyOf(k)' = f /\ StatusOf(k)' = StatusOf(k)
  BY DEF FamilyOf, StatusOf
<1>7. FamilyOf(cookie)' = f => cookie' = cookie /\ FamilyOf(cookie) = f
  BY DEF FamilyOf, TokenTypeOK
<1>8. \A m \in Lines : Carries(m, f)' => CarriedAlone(m, f)'
  <2> SUFFICES ASSUME NEW m \in Lines, Carries(m, f)' PROVE CarriedAlone(m, f)'
    OBVIOUS
  <2>1. m # l /\ Carries(m, f) /\ CarriedAlone(m, f) /\ req'[m] = req[m]
    BY <1>1 DEF Calm
  <2>2. FamilyOf(req[m].token) = f
    BY <2>1 DEF Carries
  <2>3. req[m].at = "accepted" => FamilyOf(req[m].new) = f
    BY <2>2 DEF ShapeInv
  <2>4. req[m].token \in Tokens \cup {NoToken} /\ req[m].new \in Tokens \cup {NoToken}
    BY DEF TokenTypeOK, Request
  <2> QED
    BY <2>1, <2>2, <2>3, <2>4, <1>3, <1>4, <1>6, <1>7 DEF CarriedAlone
<1>9. \A m \in Lines : Brings(m, f)' => BroughtAlone(m, f)'
  <2> SUFFICES ASSUME NEW m \in Lines, Brings(m, f)' PROVE BroughtAlone(m, f)'
    OBVIOUS
  <2>1. m # l /\ Brings(m, f) /\ BroughtAlone(m, f) /\ req'[m] = req[m]
    BY <1>2 DEF Calm
  <2> QED
    BY <2>1, <1>3, <1>4, <1>6, <1>7
       DEF BroughtAlone, Brings, TokenTypeOK, Request
<1>10. (\A m \in Lines : ~Carries(m, f)') => CookieAlone(f)'
  BY <1>1, <1>4, <1>6, <1>7 DEF Calm, CookieAlone, TokenTypeOK
<1> QED
  BY <1>5, <1>8, <1>9, <1>10 DEF Calm

\* What the invariant says of a line that has to do with the family.
LEMMA CalmAlone ==
    ASSUME TokenInv, NEW f \in Tokens, f \notin disturbed', disturbed \subseteq disturbed'
    PROVE  /\ Calm(f)
           /\ \A l \in Lines : Carries(l, f) => CarriedAlone(l, f) /\ ~Brings(l, f)
           /\ \A l \in Lines : Brings(l, f) => BroughtAlone(l, f) /\ ~Carries(l, f)
  BY DEF TokenInv, CalmInv, Calm, Carries, Brings, Holding, RefreshHolds, LogoutHolds

LEMMA CalmSend ==
    ASSUME TokenInv, TokenTypeOK', NEW l \in Lines, NEW stage \in {"sent", "logout"}, SendWith(l, stage),
           NEW f \in Tokens, f \notin disturbed'
    PROVE  Calm(f)'
<1>1. Calm(f) /\ \A m \in Lines : /\ Carries(m, f) => CarriedAlone(m, f)
                                  /\ Brings(m, f) => BroughtAlone(m, f)
  BY CalmAlone DEF SendWith
<1>2. /\ \A m \in Lines \ {l} : req'[m] = req[m]
      /\ req'[l] = [at |-> stage, token |-> cookie, new |-> NoToken]
      /\ req[l].at = "idle"
      /\ UNCHANGED <<row, cookie>>
  BY DEF SendWith, TokenInv, TokenTypeOK
<1>3. ~Carries(l, f) /\ ~Brings(l, f) /\ ~Brings(l, f)'
  BY <1>2 DEF Carries, Brings, Holding, RefreshHolds, LogoutHolds
<1>4. CASE FamilyOf(cookie) # f
  <2>1. ~Carries(l, f)'
    BY <1>2, <1>4 DEF Carries, FamilyOf
  <2> QED
    BY <1>1, <1>2, <1>3, <2>1, CalmFrame DEF TokenInv
<1>5. CASE FamilyOf(cookie) = f
  <2>1. cookie \in Tokens
    BY <1>5 DEF TokenInv, TokenTypeOK, FamilyOf, NoToken, Tokens
  <2>2. \A m \in Lines \ {l} : ~(req[m].at \in Holding /\ req[m].token = cookie)
    BY <1>5, <2>1 DEF SendWith, Overlapped
  <2>3. \A m \in Lines : ~Carries(m, f) /\ ~Brings(m, f)
    BY <1>1, <1>3, <1>5, <2>2 DEF CarriedAlone, BroughtAlone, Carries
  <2>4. StatusOf(cookie) # "revoked" /\ OnlyUsable(f, cookie) /\ AtMostOne(f)
    BY <1>1, <1>5, <2>3 DEF Calm, CookieAlone
  <2>5. Sole(l, f)'
    BY <1>2, <2>3 DEF Sole, Carries, Brings, FamilyOf
  <2>6. AtMostOne(f)' /\ OnlyUsable(f, cookie)' /\ StatusOf(cookie)' # "revoked"
    BY <1>2, <2>4 DEF AtMostOne, OnlyUsable, FamilyOf, StatusOf
  <2>7. Carries(l, f)' /\ CarriedAlone(l, f)'
    BY <1>2, <1>5, <2>5, <2>6
       DEF Carries, CarriedAlone, Holding, RefreshHolds, LogoutHolds, FamilyOf, OnlyUsable, StatusOf
  <2> QED
    BY <1>3, <2>5, <2>6, <2>7, SoleCalm
<1> QED
  BY <1>4, <1>5

\* A line that neither carries nor brings anything before and after.
LEMMA CalmLogin ==
    ASSUME TokenInv, TokenTypeOK', NEW l \in Lines, SendLogin(l) \/ RefuseLogin(l),
           NEW f \in Tokens, f \notin disturbed'
    PROVE  Calm(f)'
<1>1. /\ \A m \in Lines \ {l} : req'[m] = req[m]
      /\ req[l].at \in {"idle", "login"} /\ req'[l].at \in {"login", "refused"}
      /\ UNCHANGED <<row, cookie, disturbed>>
  BY DEF SendLogin, RefuseLogin, NoReq, TokenInv, TokenTypeOK, Request
<1>2. ~Carries(l, f) /\ ~Brings(l, f) /\ ~Carries(l, f)' /\ ~Brings(l, f)'
  BY <1>1 DEF Carries, Brings, Holding, RefreshHolds, LogoutHolds
<1> QED
  BY <1>1, <1>2, CalmAlone, CalmFrame DEF TokenInv

\* A request that is refused, or lost before or without revoking its token.
LEMMA CalmLeave ==
    ASSUME TokenInv, TokenTypeOK', NEW l \in Lines, RefuseRefresh(l) \/ Lose(l),
           NEW f \in Tokens, f \notin disturbed'
    PROVE  Calm(f)'
<1>1. /\ \A m \in Lines \ {l} : req'[m] = req[m]
      /\ req'[l].at \in {"refused", "idle"}
      /\ UNCHANGED <<row, cookie>>
      /\ disturbed \subseteq disturbed'
  BY DEF RefuseRefresh, Lose, NoReq, TokenInv, TokenTypeOK, Request
<1>2. ~Carries(l, f)' /\ ~Brings(l, f)'
  BY <1>1 DEF Carries, Brings, Holding, RefreshHolds, LogoutHolds
<1>3. Calm(f) /\ (Carries(l, f) => CarriedAlone(l, f)) /\ (Brings(l, f) => BroughtAlone(l, f))
  BY <1>1, CalmAlone
<1>4. CASE Carries(l, f)
  <2>1. CarriedAlone(l, f)
    BY <1>3, <1>4
  <2>2. req[l].token \in Tokens /\ FamilyOf(req[l].token) = f
    BY <1>4 DEF Carries, FamilyOf, TokenInv, TokenTypeOK, Request, NoToken, Tokens
  <2>3. req[l].at \in {"sent", "rotating", "logout"}
    BY <1>4, <2>1, <2>2
       DEF RefuseRefresh, Lose, CarriedAlone, Carries, Holding, RefreshHolds, LogoutHolds
  <2>4. CookieAlone(f) /\ AtMostOne(f)
    BY <1>3, <2>1, <2>3 DEF CarriedAlone, CookieAlone, Calm
  <2>5. Sole(l, f)'
    BY <1>1, <2>1 DEF CarriedAlone, Sole, Carries, Brings, FamilyOf
  <2>6. CookieAlone(f)' /\ AtMostOne(f)'
    BY <1>1, <2>4 DEF CookieAlone, AtMostOne, OnlyUsable, FamilyOf, StatusOf
  <2> QED
    BY <1>2, <2>5, <2>6, SoleCalm
<1>5. CASE Brings(l, f)
  <2>1. BroughtAlone(l, f)
    BY <1>3, <1>5
  <2>2. Sole(l, f)' /\ CookieAlone(f)'
    BY <1>1, <2>1 DEF BroughtAlone, CookieAlone, Sole, Carries, Brings, FamilyOf
  <2>3. AtMostOne(f)'
    BY <1>1, <1>3 DEF Calm, AtMostOne, FamilyOf
  <2> QED
    BY <1>2, <2>2, <2>3, SoleCalm
<1>6. CASE ~Carries(l, f) /\ ~Brings(l, f)
  BY <1>1, <1>2, <1>3, <1>6, CalmFrame DEF TokenInv
<1> QED
  BY <1>4, <1>5, <1>6

LEMMA CalmReadToken ==
    ASSUME TokenInv, TokenTypeOK', NEW l \in Lines, ReadToken(l),
           NEW f \in Tokens, f \notin disturbed'
    PROVE  Calm(f)'
<1>1. /\ \A m \in Lines \ {l} : req'[m] = req[m]
      /\ req'[l].token = req[l].token
      /\ req'[l].at \in {"rotating", "reused"}
      /\ req'[l].at = "reused" => StatusOf(req[l].token) = "revoked"
      /\ req[l].at = "sent"
      /\ UNCHANGED <<row, cookie, disturbed>>
  BY DEF ReadToken, TokenInv, TokenTypeOK, Request
<1>2. ~Brings(l, f) /\ ~Brings(l, f)'
  BY <1>1 DEF Brings
<1>3. Carries(l, f)' <=> Carries(l, f)
  BY <1>1 DEF Carries, Holding, RefreshHolds, LogoutHolds, FamilyOf
<1>4. Calm(f) /\ (Carries(l, f) => CarriedAlone(l, f))
  BY <1>1, CalmAlone
<1>5. CASE Carries(l, f)
  <2>1. CarriedAlone(l, f)
    BY <1>4, <1>5
  <2>2. Sole(l, f)' /\ AtMostOne(f)'
    BY <1>1, <1>4, <2>1 DEF CarriedAlone, Sole, Calm, AtMostOne, Carries, Brings, FamilyOf
  <2>3. OnlyUsable(f, req[l].token)'
    BY <1>1, <2>1 DEF CarriedAlone, OnlyUsable, FamilyOf
  <2>4. CarriedAlone(l, f)'
    BY <1>1, <2>1, <2>2, <2>3 DEF CarriedAlone, FamilyOf, StatusOf
  <2> QED
    BY <1>2, <1>3, <1>5, <2>2, <2>4, SoleCalm
<1>6. CASE ~Carries(l, f)
  BY <1>1, <1>2, <1>3, <1>4, <1>6, CalmFrame DEF TokenInv
<1> QED
  BY <1>5, <1>6

LEMMA CalmRotate ==
    ASSUME TokenInv, TokenTypeOK', NEW l \in Lines, Rotate(l),
           NEW f \in Tokens, f \notin disturbed'
    PROVE  Calm(f)'
<1> DEFINE k == req[l].token
           n == nt + 1
<1>1. /\ \A m \in Lines \ {l} : req'[m] = req[m]
      /\ req'[l] = [at |-> "accepted", token |-> k, new |-> n]
      /\ req[l].at = "rotating"
      /\ UNCHANGED <<cookie, disturbed>>
  BY DEF Rotate, TokenInv, TokenTypeOK, Request
<1>2. n \in Tokens /\ k \in Tokens /\ k # n /\ k <= nt
  BY RotateRows DEF TokenInv, TokenTypeOK, Tokens
<1>3. /\ row'[n].status = "live" /\ row'[n].family = FamilyOf(k)
      /\ row'[k].status = "revoked" /\ row'[k].family = row[k].family
      /\ \A m \in Tokens \ {k, n} : row'[m] = row[m]
  BY <1>2, RotateRows DEF TokenInv
<1>4. row[n].family = NoToken /\ FamilyOf(k) = row[k].family /\ NoToken \notin Tokens
  BY <1>2 DEF TokenInv, TokenTypeOK, ShapeInv, FamilyOf, Tokens, NoToken
<1>5. ~Brings(l, f) /\ ~Brings(l, f)'
  BY <1>1 DEF Brings
<1>6. Calm(f) /\ (Carries(l, f) => CarriedAlone(l, f))
  BY <1>1, CalmAlone
<1>7. \A m \in Tokens \ {n} : FamilyOf(m)' = FamilyOf(m)
  BY <1>2, <1>3, <1>4 DEF FamilyOf
<1>8. \A m \in Lines : /\ req[m].token \in (Tokens \ {n}) \cup {NoToken}
                       /\ req[m].new \in (Tokens \ {n}) \cup {NoToken}
  BY <1>2 DEF TokenInv, TokenTypeOK, ShapeInv, Request, Tokens, NoToken
<1>9. cookie \in (Tokens \ {n}) \cup {NoToken}
  BY <1>2 DEF TokenInv, TokenTypeOK, ShapeInv, Tokens, NoToken
<1>10. FamilyOf(NoToken) = NoToken /\ FamilyOf(NoToken)' = NoToken
  BY DEF FamilyOf
<1> HIDE DEF k, n
<1>11. CASE FamilyOf(k) = f
  <2>1. Carries(l, f) /\ CarriedAlone(l, f)
    BY <1>1, <1>6, <1>11 DEF Carries, k, Holding, RefreshHolds
  <2>2. Sole(l, f)'
    BY <1>1, <1>7, <1>8, <1>10, <2>1 DEF CarriedAlone, Sole, Carries, Brings
  <2>3. OnlyUsable(f, k)
    BY <1>1, <2>1 DEF CarriedAlone, k
  <2>4. \A m \in Tokens : FamilyOf(m)' = f /\ row'[m].status = "live" => m = n
    BY <1>2, <1>3, <1>7, <2>3 DEF OnlyUsable
  <2>5. AtMostOne(f)'
    BY <2>4 DEF AtMostOne
  <2>6. OnlyUsable(f, req[l].new)'
    BY <1>1, <2>4 DEF OnlyUsable
  <2>7. FamilyOf(cookie)' = f => cookie' = k
    BY <1>1, <1>7, <1>9, <1>10, <2>1 DEF CarriedAlone, k
  <2>8. FamilyOf(req[l].token)' = f
    BY <1>1, <1>2, <1>7, <1>11
  <2>9. StatusOf(req[l].new)' # "revoked"
    BY <1>1, <1>2, <1>3 DEF StatusOf
  <2>10. Carries(l, f)' /\ CarriedAlone(l, f)'
    BY <1>1, <2>2, <2>6, <2>7, <2>8, <2>9 DEF Carries, CarriedAlone, Holding, RefreshHolds
  <2> QED
    BY <1>5, <2>2, <2>5, <2>10, SoleCalm
<1>12. CASE FamilyOf(k) # f
  <2>1. ~Carries(l, f) /\ ~Carries(l, f)'
    BY <1>1, <1>2, <1>7, <1>12 DEF Carries, k
  <2>2. \A m \in Tokens : /\ row'[m].family = f <=> row[m].family = f
                          /\ row[m].family = f => row'[m] = row[m]
    BY <1>2, <1>3, <1>4, <1>12
  <2> QED
    BY <1>1, <1>5, <1>6, <2>1, <2>2, CalmFrame DEF TokenInv
<1> QED
  BY <1>11, <1>12

LEMMA CalmRevokeFamily ==
    ASSUME TokenInv, TokenTypeOK', NEW l \in Lines, RevokeFamily(l),
           NEW f \in Tokens, f \notin disturbed'
    PROVE  Calm(f)'
<1>1. /\ \A m \in Lines \ {l} : req'[m] = req[m]
      /\ req'[l].at = "refused"
      /\ req[l].at = "reused"
      /\ UNCHANGED <<cookie, disturbed>>
  BY DEF RevokeFamily, TokenInv, TokenTypeOK, Request
<1>2. ~Brings(l, f) /\ ~Brings(l, f)' /\ ~Carries(l, f)'
  BY <1>1 DEF Brings, Carries, Holding, RefreshHolds, LogoutHolds
<1>3. Calm(f) /\ ~Carries(l, f)
  BY <1>1, CalmAlone DEF CarriedAlone
<1>4. FamilyOf(req[l].token) # f
  BY <1>1, <1>3 DEF Carries, Holding, RefreshHolds
<1>5. \A m \in Tokens : /\ row'[m].family = f <=> row[m].family = f
                        /\ row[m].family = f => row'[m] = row[m]
  <2> TAKE m \in Tokens
  <2>1. FamilyOf(m) = row[m].family
    BY DEF FamilyOf, Tokens, NoToken
  <2>2. row'[m] = IF FamilyOf(m) = FamilyOf(req[l].token) THEN Revoked(m) ELSE row[m]
    BY DEF RevokeFamily
  <2> QED
    BY <1>4, <2>1, <2>2 DEF Revoked
<1> QED
  BY <1>1, <1>2, <1>3, <1>5, CalmFrame DEF TokenInv

LEMMA CalmIssueTokens ==
    ASSUME TokenInv, TokenTypeOK', NEW l \in Lines, IssueTokens(l),
           NEW f \in Tokens, f \notin disturbed'
    PROVE  Calm(f)'
<1>1. /\ \A m \in Lines \ {l} : req'[m] = req[m]
      /\ req'[l].at = "issued" /\ req'[l].new = nt + 1
      /\ req[l].at = "login"
      /\ UNCHANGED <<cookie, disturbed>>
  BY DEF IssueTokens, TokenInv, TokenTypeOK, Request
<1>2. nt + 1 \in Tokens /\ nt \in Nat /\ NoToken \notin Tokens
  BY DEF IssueTokens, TokenInv, TokenTypeOK, Tokens, NoToken
<1>3. /\ row'[nt + 1] = [status |-> "live", family |-> nt + 1]
      /\ \A m \in Tokens : m # nt + 1 => row'[m] = row[m]
  BY <1>2 DEF IssueTokens, TokenInv, TokenTypeOK
<1>4. row[nt + 1].family = NoToken /\ nt + 1 # NoToken
  BY <1>2 DEF TokenInv, TokenTypeOK, ShapeInv, NoToken
<1>5. \A m \in Tokens : row[m].family # nt + 1
  <2> TAKE m \in Tokens
  <2>1. CASE m <= nt
    BY <1>2, <2>1, Shape DEF TokenInv, ShapeInv, Tokens
  <2>2. CASE m > nt
    BY <1>4, <2>2 DEF TokenInv, TokenTypeOK, ShapeInv
  <2> QED
    BY <1>2, <2>1, <2>2 DEF Tokens
<1>6. ~Carries(l, f) /\ ~Carries(l, f)' /\ ~Brings(l, f)
  BY <1>1 DEF Brings, Carries, Holding, RefreshHolds, LogoutHolds
<1>7. Calm(f)
  BY <1>1, CalmAlone
<1>8. \A m \in Tokens : m # nt + 1 => FamilyOf(m)' = FamilyOf(m) /\ FamilyOf(m) # nt + 1
  BY <1>2, <1>3, <1>5 DEF FamilyOf
<1>9. /\ cookie \in Tokens \cup {NoToken} /\ cookie # nt + 1
      /\ \A m \in Lines : /\ req[m].token \in Tokens \cup {NoToken} /\ req[m].token # nt + 1
                          /\ req[m].new \in Tokens \cup {NoToken} /\ req[m].new # nt + 1
  BY <1>2 DEF TokenInv, TokenTypeOK, ShapeInv, Request, Tokens, NoToken
<1>10. FamilyOf(NoToken) = NoToken /\ FamilyOf(NoToken)' = NoToken
  BY DEF FamilyOf
<1>11. FamilyOf(nt + 1) = NoToken /\ StatusOf(req[l].new)' = "live" /\ FamilyOf(req[l].new)' = nt + 1
  BY <1>1, <1>2, <1>3, <1>4 DEF FamilyOf, StatusOf
<1>12. CASE f = nt + 1
  <2>1. Sole(l, f)'
    BY <1>1, <1>4, <1>8, <1>9, <1>10, <1>12 DEF Sole, Carries, Brings
  <2>2. FamilyOf(cookie)' # f
    BY <1>1, <1>4, <1>8, <1>9, <1>10, <1>12
  <2>3. \A m \in Tokens : FamilyOf(m)' = f => m = nt + 1
    BY <1>8, <1>12
  <2>4. AtMostOne(f)' /\ OnlyUsable(f, req[l].new)'
    BY <1>1, <2>3 DEF AtMostOne, OnlyUsable
  <2>5. BroughtAlone(l, f)' /\ CookieAlone(f)'
    BY <1>11, <2>1, <2>2, <2>4 DEF BroughtAlone, CookieAlone
  <2> QED
    BY <1>6, <2>1, <2>4, <2>5, SoleCalm
<1>13. CASE f # nt + 1
  <2>1. ~Brings(l, f)'
    BY <1>11, <1>13 DEF Brings
  <2>2. \A m \in Tokens : /\ row'[m].family = f <=> row[m].family = f
                          /\ row[m].family = f => row'[m] = row[m]
    BY <1>2, <1>3, <1>4, <1>13
  <2> QED
    BY <1>1, <1>6, <1>7, <2>1, <2>2, CalmFrame DEF TokenInv
<1> QED
  BY <1>12, <1>13

LEMMA CalmRevokeRefresh ==
    ASSUME TokenInv, TokenTypeOK', NEW l \in Lines, RevokeRefresh(l),
           NEW f \in Tokens, f \notin disturbed'
    PROVE  Calm(f)'
<1>1. /\ \A m \in Lines \ {l} : req'[m] = req[m]
      /\ req'[l].token = req[l].token
      /\ req'[l].at = "revoked"
      /\ req[l].at = "logout"
      /\ UNCHANGED <<cookie, disturbed>>
  BY DEF RevokeRefresh, TokenInv, TokenTypeOK, Request
<1>2. /\ \A m \in Tokens : row'[m].family = row[m].family
      /\ \A m \in Tokens : row'[m].status = "live" => row[m].status = "live"
      /\ \A m \in Tokens : m # req[l].token => row'[m] = row[m]
  BY DEF RevokeRefresh, Revoked, TokenInv, TokenTypeOK, Row
<1>3. ~Brings(l, f) /\ ~Brings(l, f)'
  BY <1>1 DEF Brings
<1>4. Calm(f) /\ (Carries(l, f) => CarriedAlone(l, f))
  BY <1>1, CalmAlone
<1>5. \A m \in Tokens \cup {NoToken} : FamilyOf(m)' = FamilyOf(m)
  BY <1>2 DEF FamilyOf
<1>6. /\ cookie \in Tokens \cup {NoToken}
      /\ \A m \in Lines : /\ req[m].token \in Tokens \cup {NoToken}
                          /\ req[m].new \in Tokens \cup {NoToken}
  BY DEF TokenInv, TokenTypeOK, Request
<1>7. Carries(l, f)' <=> Carries(l, f)
  BY <1>1, <1>5, <1>6 DEF Carries, Holding, LogoutHolds
<1>8. CASE Carries(l, f)
  <2>1. CarriedAlone(l, f)
    BY <1>4, <1>8
  <2>2. Sole(l, f)'
    BY <1>1, <1>5, <1>6, <2>1 DEF CarriedAlone, Sole, Carries, Brings
  <2>3. AtMostOne(f)'
    BY <1>2, <1>4, <1>5 DEF Calm, AtMostOne
  <2>4. OnlyUsable(f, req[l].token)'
    BY <1>1, <1>2, <1>5, <2>1 DEF CarriedAlone, OnlyUsable
  <2>5. FamilyOf(cookie)' = f => cookie' = req'[l].token
    BY <1>1, <1>5, <1>6, <2>1 DEF CarriedAlone
  <2>6. CarriedAlone(l, f)'
    BY <1>1, <2>2, <2>4, <2>5 DEF CarriedAlone
  <2> QED
    BY <1>3, <1>7, <1>8, <2>2, <2>3, <2>6, SoleCalm
<1>9. CASE ~Carries(l, f)
  <2>1. FamilyOf(req[l].token) # f
    BY <1>1, <1>9 DEF Carries, Holding, LogoutHolds
  <2>2. \A m \in Tokens : row[m].family = f => m # req[l].token
    BY <2>1 DEF FamilyOf, Tokens, NoToken
  <2> QED
    BY <1>1, <1>2, <1>3, <1>4, <1>7, <1>9, <2>2, CalmFrame DEF TokenInv
<1> QED
  BY <1>8, <1>9

LEMMA CalmReceive ==
    ASSUME TokenInv, TokenTypeOK', NEW l \in Lines, Receive(l),
           NEW f \in Tokens, f \notin disturbed'
    PROVE  Calm(f)'
<1>1. /\ \A m \in Lines \ {l} : req'[m] = req[m]
      /\ req'[l].at = "idle"
      /\ req[l].at \in {"accepted", "issued", "refused", "revoked"}
      /\ req[l].at \in {"accepted", "issued"} => cookie' = req[l].new
      /\ req[l].at = "revoked" => cookie' = NoToken
      /\ req[l].at = "refused" => cookie' = cookie
      /\ UNCHANGED <<row, disturbed>>
  BY DEF Receive, NoReq, TokenInv, TokenTypeOK, Request
<1>2. ~Carries(l, f)' /\ ~Brings(l, f)'
  BY <1>1 DEF Carries, Brings, Holding, RefreshHolds, LogoutHolds
<1>3. /\ Calm(f)
      /\ Carries(l, f) => CarriedAlone(l, f)
      /\ Brings(l, f) => BroughtAlone(l, f)
  BY <1>1, CalmAlone
<1>4. FamilyOf(NoToken)' # f
  BY DEF FamilyOf, Tokens, NoToken
<1>5. AtMostOne(f)'
  BY <1>1, <1>3 DEF Calm, AtMostOne, FamilyOf
<1>6. CASE Carries(l, f)
  <2>1. CarriedAlone(l, f)
    BY <1>3, <1>6
  <2>2. Sole(l, f)'
    BY <1>1, <2>1 DEF CarriedAlone, Sole, Carries, Brings, FamilyOf
  <2>3. CookieAlone(f)'
    <3>1. CASE req[l].at = "accepted"
      BY <1>1, <2>1, <3>1 DEF CarriedAlone, CookieAlone, OnlyUsable, FamilyOf, StatusOf
    <3>2. CASE req[l].at = "revoked"
      BY <1>1, <1>4, <3>2 DEF CookieAlone, FamilyOf
    <3> QED
      BY <1>1, <1>6, <3>1, <3>2 DEF Carries, Holding, RefreshHolds, LogoutHolds
  <2> QED
    BY <1>2, <1>5, <2>2, <2>3, SoleCalm
<1>7. CASE Brings(l, f)
  <2>1. BroughtAlone(l, f) /\ cookie' = req[l].new
    BY <1>1, <1>3, <1>7 DEF Brings
  <2>2. Sole(l, f)'
    BY <1>1, <2>1 DEF BroughtAlone, Sole, Carries, Brings, FamilyOf
  <2>3. CookieAlone(f)'
    BY <1>1, <2>1 DEF BroughtAlone, CookieAlone, OnlyUsable, FamilyOf, StatusOf
  <2> QED
    BY <1>2, <1>5, <2>2, <2>3, SoleCalm
<1>8. CASE ~Carries(l, f) /\ ~Brings(l, f)
  <2>1. cookie' = cookie \/ FamilyOf(cookie)' # f
    <3>1. CASE req[l].at = "accepted"
      <4>1. FamilyOf(req[l].token) # f
        BY <1>8, <3>1 DEF Carries, Holding, RefreshHolds
      <4>2. FamilyOf(req[l].new) # f
        BY <3>1, <4>1 DEF TokenInv, ShapeInv
      <4> QED
        BY <1>1, <3>1, <4>2 DEF FamilyOf
    <3>2. CASE req[l].at = "issued"
      <4>1. FamilyOf(req[l].new) # f
        BY <1>8, <3>2 DEF Brings
      <4> QED
        BY <1>1, <3>2, <4>1 DEF FamilyOf
    <3>3. CASE req[l].at = "revoked"
      BY <1>1, <1>4, <3>3 DEF FamilyOf
    <3> QED
      BY <1>1, <3>1, <3>2, <3>3
  <2> QED
    BY <1>1, <1>2, <1>3, <1>8, <2>1, CalmFrame DEF TokenInv
<1> QED
  BY <1>6, <1>7, <1>8

\* Time: tokens stop being usable and the cookie may go, nothing else.
LEMMA CalmTime ==
    ASSUME TokenInv, TokenTypeOK', (\E k \in Tokens : Expire(k)) \/ DropCookie,
           NEW f \in Tokens, f \notin disturbed'
    PROVE  Calm(f)'
<1>1. /\ UNCHANGED <<req, disturbed>>
      /\ cookie' \in {cookie, NoToken}
      /\ \A m \in Tokens : row'[m].family = row[m].family
      /\ \A m \in Tokens : row'[m].status = "live" => row[m].status = "live"
      /\ \A m \in Tokens : row'[m].status = "revoked" => row[m].status = "revoked"
  BY DEF Expire, DropCookie, TokenInv, TokenTypeOK, Row
<1>2. Calm(f)
  BY <1>1, CalmAlone
<1>3. \A m \in Tokens \cup {NoToken} :
         FamilyOf(m)' = FamilyOf(m) /\ (StatusOf(m)' = "revoked" => StatusOf(m) = "revoked")
  BY <1>1 DEF FamilyOf, StatusOf
<1>4. /\ cookie \in Tokens \cup {NoToken} /\ FamilyOf(NoToken) # f
      /\ \A m \in Lines : /\ req[m].token \in Tokens \cup {NoToken}
                          /\ req[m].new \in Tokens \cup {NoToken}
  BY DEF TokenInv, TokenTypeOK, Request, FamilyOf, Tokens, NoToken
<1>5. \A m \in Lines : /\ Carries(m, f)' <=> Carries(m, f)
                       /\ Brings(m, f)' <=> Brings(m, f)
  BY <1>1, <1>3, <1>4 DEF Carries, Brings
<1>6. \A m \in Lines : Sole(m, f) => Sole(m, f)'
  BY <1>5 DEF Sole
<1>7. \A k \in Tokens \cup {NoToken} : OnlyUsable(f, k) => OnlyUsable(f, k)'
  BY <1>1, <1>3 DEF OnlyUsable
<1>8. AtMostOne(f)'
  BY <1>1, <1>2, <1>3 DEF Calm, AtMostOne
<1>9. FamilyOf(cookie)' = f => cookie' = cookie /\ FamilyOf(cookie) = f
  BY <1>1, <1>3, <1>4
<1>10. \A m \in Lines : Carries(m, f)' => CarriedAlone(m, f)'
  <2> SUFFICES ASSUME NEW m \in Lines, Carries(m, f)' PROVE CarriedAlone(m, f)'
    OBVIOUS
  <2>1. CarriedAlone(m, f)
    BY <1>2, <1>5 DEF Calm
  <2>2. req[m].at = "accepted" => OnlyUsable(f, req[m].new)' /\ StatusOf(req[m].new)' # "revoked"
    BY <1>1, <1>3, <1>4, <1>7, <2>1 DEF CarriedAlone
  <2>3. req[m].at # "accepted" => OnlyUsable(f, req[m].token)'
    BY <1>1, <1>4, <1>7, <2>1 DEF CarriedAlone
  <2>4. StatusOf(req[m].token)' = "revoked" => StatusOf(req[m].token) = "revoked"
    BY <1>1, <1>3, <1>4
  <2> QED
    BY <1>1, <1>6, <1>9, <2>1, <2>2, <2>3, <2>4 DEF CarriedAlone
<1>11. \A m \in Lines : Brings(m, f)' => BroughtAlone(m, f)'
  <2> SUFFICES ASSUME NEW m \in Lines, Brings(m, f)' PROVE BroughtAlone(m, f)'
    OBVIOUS
  <2>1. BroughtAlone(m, f)
    BY <1>2, <1>5 DEF Calm
  <2>2. OnlyUsable(f, req[m].new)' /\ StatusOf(req[m].new)' # "revoked"
    BY <1>1, <1>3, <1>4, <1>7, <2>1 DEF BroughtAlone
  <2> QED
    BY <1>6, <1>9, <2>1, <2>2 DEF BroughtAlone
<1>12. (\A m \in Lines : ~Carries(m, f)') => CookieAlone(f)'
  BY <1>2, <1>3, <1>4, <1>5, <1>7, <1>9 DEF Calm, CookieAlone
<1> QED
  BY <1>8, <1>10, <1>11, <1>12 DEF Calm

LEMMA TokenInvStep == TokenInv /\ [TokenNext]_tokenVars => TokenInv'
<1> SUFFICES ASSUME TokenInv, [TokenNext]_tokenVars PROVE TokenInv'
  OBVIOUS
<1>1. TokenTypeOK' /\ ShapeInv'
  BY TypeStep, ShapeStep DEF TokenInv
<1>2. CalmInv'
  <2> SUFFICES ASSUME NEW f \in Tokens, f \notin disturbed' PROVE Calm(f)'
    BY DEF CalmInv, Tokens
  <2>1. ASSUME NEW l \in Lines, SendRefresh(l) \/ SendLogout(l) PROVE Calm(f)'
    BY <1>1, <2>1, CalmSend DEF SendRefresh, SendLogout
  <2>2. ASSUME NEW l \in Lines, SendLogin(l) \/ RefuseLogin(l) PROVE Calm(f)'
    BY <1>1, <2>2, CalmLogin
  <2>3. ASSUME NEW l \in Lines, RefuseRefresh(l) \/ Lose(l) PROVE Calm(f)'
    BY <1>1, <2>3, CalmLeave
  <2>4. ASSUME NEW l \in Lines, ReadToken(l) PROVE Calm(f)'
    BY <1>1, <2>4, CalmReadToken
  <2>5. ASSUME NEW l \in Lines, Rotate(l) PROVE Calm(f)'
    BY <1>1, <2>5, CalmRotate
  <2>6. ASSUME NEW l \in Lines, RevokeFamily(l) PROVE Calm(f)'
    BY <1>1, <2>6, CalmRevokeFamily
  <2>7. ASSUME NEW l \in Lines, IssueTokens(l) PROVE Calm(f)'
    BY <1>1, <2>7, CalmIssueTokens
  <2>8. ASSUME NEW l \in Lines, RevokeRefresh(l) PROVE Calm(f)'
    BY <1>1, <2>8, CalmRevokeRefresh
  <2>9. ASSUME NEW l \in Lines, Receive(l) PROVE Calm(f)'
    BY <1>1, <2>9, CalmReceive
  <2>10. CASE (\E k \in Tokens : Expire(k)) \/ DropCookie
    BY <1>1, <2>10, CalmTime
  <2>11. CASE UNCHANGED tokenVars
    BY <2>11 DEF TokenInv, CalmInv, tokenVars, Calm, AtMostOne, CarriedAlone, BroughtAlone,
                 CookieAlone, OnlyUsable, Sole, Carries, Brings, FamilyOf, StatusOf
  <2> QED
    BY <2>1, <2>2, <2>3, <2>4, <2>5, <2>6, <2>7, <2>8, <2>9, <2>10, <2>11
       DEF TokenNext, Serve
<1> QED
  BY <1>1, <1>2 DEF TokenInv

LEMMA TokenInvariant == TokenSpec => []TokenInv
  BY TokenInvInit, TokenInvStep, PTL DEF TokenSpec

-----------------------------------------------------------------------------
(* What follows of the tokens.                                             *)

LEMMA CausesFollow ==
    TokenInv => TokenTypeOK /\ OneTokenPerFamily /\ SessionEndsForCause /\ LogoutEndsSession
<1> SUFFICES ASSUME TokenInv
             PROVE  OneTokenPerFamily /\ SessionEndsForCause /\ LogoutEndsSession
  BY DEF TokenInv
<1>1. \A f \in Tokens : f \notin disturbed => Calm(f)
  BY DEF TokenInv, CalmInv
<1>2. \A k \in Tokens : row[k].status # "none" => FamilyOf(k) \in Tokens
  BY Shape DEF TokenInv, TokenTypeOK, ShapeInv, Tokens, NoToken
<1>3. OneTokenPerFamily
  BY <1>1, <1>2 DEF OneTokenPerFamily, Calm, AtMostOne
<1>4. SessionEndsForCause
  <2> SUFFICES ASSUME NEW f \in Tokens, f \notin disturbed
               PROVE  /\ \A l \in Lines : req[l].at = "reused" => FamilyOf(req[l].token) # f
                      /\ \/ FamilyOf(cookie) # f
                         \/ StatusOf(cookie) # "revoked"
                         \/ \E l \in Lines : req[l].at \in Holding /\ FamilyOf(req[l].token) = f
    BY DEF SessionEndsForCause
  <2> QED
    BY <1>1 DEF Calm, CarriedAlone, CookieAlone, Carries, Holding, RefreshHolds
<1>5. LogoutEndsSession
  <2> SUFFICES ASSUME NEW l \in Lines, req[l].at = "revoked", req[l].token # NoToken,
                      FamilyOf(req[l].token) \notin disturbed
               PROVE  DeadFamily(FamilyOf(req[l].token))
    BY DEF LogoutEndsSession
  <2> DEFINE f == FamilyOf(req[l].token)
  <2>1. req[l].token \in Tokens /\ req[l].token <= nt /\ f \in Tokens /\ f <= req[l].token
    BY Shape DEF TokenInv, ShapeInv, TokenTypeOK, Request
  <2>2. row[f].status # "none"
    BY <2>1 DEF TokenInv, ShapeInv, TokenTypeOK, Tokens
  <2>3. Carries(l, f) /\ CarriedAlone(l, f)
    BY <1>1, <2>1 DEF Calm, Carries, Holding, LogoutHolds
  <2>4. row[req[l].token].status = "revoked"
    BY <2>1 DEF TokenInv, ShapeInv, StatusOf
  <2>5. \A k \in Tokens : FamilyOf(k) = f => row[k].status # "live"
    BY <2>3, <2>4 DEF CarriedAlone, OnlyUsable
  <2>6. \A m \in Lines : req[m].at = "rotating" => FamilyOf(req[m].token) # f
    BY <2>3 DEF CarriedAlone, Sole, Carries, Holding, RefreshHolds
  <2> QED
    BY <2>2, <2>5, <2>6 DEF DeadFamily
<1> QED
  BY <1>3, <1>4, <1>5

\* For any number of requests under way, families of which no token was ever
\* carried by two of them, and no answer lost, have one usable token, and
\* their session goes on until it is ended on purpose.
THEOREM SessionsHoldTogether ==
    TokenSpec => [](TokenTypeOK /\ OneTokenPerFamily /\ SessionEndsForCause /\ LogoutEndsSession)
  BY TokenInvariant, CausesFollow, PTL

LEMMA DeadStep ==
    ASSUME TokenInv, TokenInv', [TokenNext]_tokenVars, NEW f \in Tokens, DeadFamily(f)
    PROVE  DeadFamily(f)'
<1>1. f <= nt /\ nt \in Nat /\ NoToken \notin Tokens
  BY DEF DeadFamily, TokenInv, ShapeInv, TokenTypeOK, Tokens, NoToken
<1>2. ASSUME NEW l \in Lines, SendRefresh(l) \/ SendLogout(l) \/ SendLogin(l) \/ RefuseRefresh(l)
                 \/ RefuseLogin(l) \/ Receive(l) \/ Lose(l)
      PROVE  DeadFamily(f)'
  <2>1. UNCHANGED row /\ \A m \in Lines : req'[m].at = "rotating" => req'[m] = req[m]
    BY <1>2 DEF SendRefresh, SendLogout, SendWith, SendLogin, RefuseRefresh, RefuseLogin, Receive,
                Lose, NoReq, TokenInv, TokenTypeOK, Request
  <2> QED
    BY <2>1 DEF DeadFamily, FamilyOf
<1>3. ASSUME NEW l \in Lines, ReadToken(l) PROVE DeadFamily(f)'
  <2>1. /\ UNCHANGED row
        /\ \A m \in Lines \ {l} : req'[m] = req[m]
        /\ req'[l].token = req[l].token
        /\ req'[l].at = "rotating" => StatusOf(req[l].token) = "live"
    BY <1>3 DEF ReadToken, TokenInv, TokenTypeOK, Request
  <2>2. req'[l].at = "rotating" => FamilyOf(req[l].token) # f
    BY <2>1 DEF DeadFamily, StatusOf, TokenInv, TokenTypeOK, Request
  <2> QED
    BY <2>1, <2>2 DEF DeadFamily, FamilyOf
<1>4. ASSUME NEW l \in Lines, Rotate(l) PROVE DeadFamily(f)'
  <2>1. /\ \A m \in Lines : req'[m].at = "rotating" => req'[m] = req[m]
        /\ req[l].at = "rotating"
    BY <1>4 DEF Rotate, TokenInv, TokenTypeOK, Request
  <2>2. FamilyOf(req[l].token) # f
    BY <2>1 DEF DeadFamily
  <2>3. /\ \A m \in Tokens : m # nt + 1 /\ m # req[l].token => row'[m] = row[m]
        /\ \A m \in Tokens : m # nt + 1 /\ m = req[l].token =>
             row'[m].status = "revoked" /\ row'[m].family = row[m].family
        /\ \A m \in Tokens : m = nt + 1 => row'[m].family = FamilyOf(req[l].token)
    BY <1>4, RotateRows DEF TokenInv
  <2>4. row'[f].status # "none"
    BY <1>1, <2>3 DEF DeadFamily, Tokens
  <2>5. \A k \in Tokens : FamilyOf(k)' = f => FamilyOf(k) = f /\ k # nt + 1
    BY <1>1, <2>2, <2>3 DEF FamilyOf
  <2>6. \A k \in Tokens : FamilyOf(k)' = f => row'[k].status # "live"
    BY <2>3, <2>5 DEF DeadFamily
  <2>7. \A m \in Lines : req'[m].at = "rotating" => FamilyOf(req[m].token)' # f
    <3> SUFFICES ASSUME NEW m \in Lines, req'[m].at = "rotating" PROVE FamilyOf(req[m].token)' # f
      OBVIOUS
    <3>1. req'[m] = req[m] /\ FamilyOf(req[m].token) # f /\ req[m].token \in Tokens \cup {NoToken}
      BY <2>1 DEF DeadFamily, TokenInv, TokenTypeOK, Request
    <3>2. CASE req[m].token = NoToken
      BY <1>1, <3>1, <3>2 DEF FamilyOf
    <3>3. CASE req[m].token \in Tokens
      BY <2>5, <3>1, <3>3 DEF FamilyOf
    <3> QED
      BY <3>1, <3>2, <3>3
  <2> QED
    BY <2>4, <2>6, <2>7 DEF DeadFamily
<1>5. ASSUME NEW l \in Lines, RevokeFamily(l) \/ RevokeRefresh(l) PROVE DeadFamily(f)'
  <2>1. /\ \A m \in Lines : req'[m].at = "rotating" => req'[m] = req[m]
        /\ \A m \in Tokens : row'[m] = row[m] \/ row'[m] = Revoked(m)
    BY <1>5 DEF RevokeFamily, RevokeRefresh, TokenInv, TokenTypeOK, Request
  <2>2. \A m \in Tokens : /\ row'[m].family = row[m].family
                          /\ row'[m].status \in {row[m].status, "revoked"}
    <3> TAKE m \in Tokens
    <3>1. CASE row'[m] = row[m]
      BY <3>1
    <3>2. CASE row'[m] = Revoked(m)
      BY <3>2 DEF Revoked
    <3> QED
      BY <2>1, <3>1, <3>2
  <2>3. \A k \in Tokens \cup {NoToken} : FamilyOf(k)' = FamilyOf(k)
    BY <2>2 DEF FamilyOf
  <2>4. row'[f].status # "none" /\ \A k \in Tokens : FamilyOf(k)' = f => row'[k].status # "live"
    BY <2>2, <2>3 DEF DeadFamily
  <2>5. \A m \in Lines : req'[m].at = "rotating" => FamilyOf(req[m].token)' # f
    BY <2>1, <2>3 DEF DeadFamily, TokenInv, TokenTypeOK, Request
  <2> QED
    BY <2>4, <2>5 DEF DeadFamily
<1>6. ASSUME NEW l \in Lines, IssueTokens(l) PROVE DeadFamily(f)'
  <2>1. /\ \A m \in Lines : req'[m].at = "rotating" => req'[m] = req[m]
        /\ \A m \in Tokens : m # nt + 1 => row'[m] = row[m]
        /\ nt + 1 \in Tokens /\ row'[nt + 1] = [status |-> "live", family |-> nt + 1]
    BY <1>1, <1>6 DEF IssueTokens, TokenInv, TokenTypeOK, Request, Tokens
  <2>2. /\ \A k \in Tokens : FamilyOf(k)' = f => FamilyOf(k) = f /\ k # nt + 1
        /\ FamilyOf(NoToken)' = NoToken
    BY <1>1, <2>1 DEF FamilyOf
  <2>3. row'[f].status # "none" /\ \A k \in Tokens : FamilyOf(k)' = f => row'[k].status # "live"
    BY <1>1, <2>1, <2>2 DEF DeadFamily, Tokens
  <2>4. \A m \in Lines : req'[m].at = "rotating" => FamilyOf(req[m].token)' # f
    <3> SUFFICES ASSUME NEW m \in Lines, req'[m].at = "rotating" PROVE FamilyOf(req[m].token)' # f
      OBVIOUS
    <3>1. req'[m] = req[m] /\ FamilyOf(req[m].token) # f /\ req[m].token \in Tokens \cup {NoToken}
      BY <2>1 DEF DeadFamily, TokenInv, TokenTypeOK, Request
    <3>2. CASE req[m].token = NoToken
      BY <1>1, <3>1, <3>2 DEF FamilyOf
    <3>3. CASE req[m].token \in Tokens
      BY <2>2, <3>1, <3>3 DEF FamilyOf
    <3> QED
      BY <3>1, <3>2, <3>3
  <2> QED
    BY <2>3, <2>4 DEF DeadFamily
<1>7. CASE (\E e \in Tokens : Expire(e)) \/ DropCookie
  <2>1. /\ UNCHANGED req
        /\ \A m \in Tokens : row'[m].family = row[m].family
        /\ \A m \in Tokens : row'[m].status \in {row[m].status, "expired"}
    BY <1>7 DEF Expire, DropCookie, TokenInv, TokenTypeOK, Row
  <2>2. \A k \in Tokens \cup {NoToken} : FamilyOf(k)' = FamilyOf(k)
    BY <2>1 DEF FamilyOf
  <2> QED
    BY <2>1, <2>2 DEF DeadFamily, TokenInv, TokenTypeOK, Request
<1>8. CASE UNCHANGED tokenVars
  BY <1>8 DEF tokenVars, DeadFamily, FamilyOf
<1> QED
  BY <1>2, <1>3, <1>4, <1>5, <1>6, <1>7, <1>8 DEF TokenNext, Serve

\* No request under way brings a family back that has ended, for any number
\* of requests.
THEOREM DeadFamiliesStayDead == TokenSpec => DeadStaysDead
<1>1. TokenInv /\ TokenInv' /\ [TokenNext]_tokenVars
        => [\A f \in Tokens : DeadFamily(f) => DeadFamily(f)']_tokenVars
  BY DeadStep
<1> QED
  BY <1>1, TokenInvariant, PTL DEF TokenSpec, DeadStaysDead

-----------------------------------------------------------------------------
(* The tabs.                                                               *)

LEMMA TabsUseLines == \A t \in Tabs : RefreshLine(t) \in Lines /\ FormLine(t) \in Lines
  BY LinesAssumption DEF RefreshLine, FormLine

\* Whatever the tabs do, to the tokens it is a step of RefreshTokens.
THEOREM SessionsUseTokens == Spec => TokenSpec
<1>1. Init => TokenInit
  BY DEF Init
<1>2. [Next]_vars => [TokenNext]_tokenVars
  <2> SUFFICES ASSUME [Next]_vars PROVE [TokenNext]_tokenVars
    OBVIOUS
  <2>1. ASSUME NEW t \in Tabs, Open(t) \/ Login(t) \/ Mistype(t) \/ Logout(t) \/ CallApi(t)
        PROVE  [TokenNext]_tokenVars
    BY <2>1, TabsUseLines DEF Open, Login, Mistype, Logout, CallApi, TokenNext
  <2>2. ASSUME NEW t \in Tabs,
               ReceiveRefresh(t) \/ LoseRefresh(t) \/ ReceiveForm(t) \/ LoseForm(t)
        PROVE  [TokenNext]_tokenVars
    BY <2>2, TabsUseLines DEF ReceiveRefresh, LoseRefresh, ReceiveForm, LoseForm, TokenNext
  <2>3. ASSUME NEW t \in Tabs, NEW c \in Callers, Answer(t, c) PROVE [TokenNext]_tokenVars
    BY <2>3, TabsUseLines
       DEF Answer, CallAccepted, CallFails, CallUnauthorized, End, Refresh, TokenNext, tokenVars
  <2>4. ASSUME NEW l \in Lines, Respond(l) PROVE [TokenNext]_tokenVars
    BY <2>4 DEF Respond, TokenNext
  <2>5. CASE (\E k \in Tokens : Expire(k) /\ UNCHANGED tabVars) \/ (DropCookie /\ UNCHANGED tabVars)
    BY <2>5 DEF TokenNext
  <2>6. CASE UNCHANGED vars
    BY <2>6 DEF vars, tokenVars
  <2> QED
    BY <2>1, <2>2, <2>3, <2>4, <2>5, <2>6 DEF Next
<1> QED
  BY <1>1, <1>2, PTL DEF Spec, TokenSpec

\* So tabs that share a cookie, each refreshing on its own, keep what holds
\* of the tokens.
COROLLARY TabsKeepSessions ==
    Spec => [](OneTokenPerFamily /\ SessionEndsForCause /\ LogoutEndsSession) /\ DeadStaysDead
<1>1. TokenTypeOK /\ OneTokenPerFamily /\ SessionEndsForCause /\ LogoutEndsSession
        => OneTokenPerFamily /\ SessionEndsForCause /\ LogoutEndsSession
  OBVIOUS
<1> QED
  BY <1>1, SessionsUseTokens, SessionsHoldTogether, DeadFamiliesStayDead, PTL

\* A logout that has answered leaves its session nothing to go on with, although
\* it revokes only the token it was sent: unless another request carried the
\* same token, or an answer was lost.
COROLLARY LogoutIsEnough == Spec => []LogoutEndsSession
<1>1. TokenTypeOK /\ OneTokenPerFamily /\ SessionEndsForCause /\ LogoutEndsSession
        => LogoutEndsSession
  OBVIOUS
<1> QED
  BY <1>1, SessionsUseTokens, SessionsHoldTogether, PTL

-----------------------------------------------------------------------------
(* Who waits for which request.                                            *)

AuthStatus == {"closed", "loading", "authenticated", "unauthenticated"}
CallStages == {"none", "restoring", "asked", "waiting", "retried", "sent"}

LEMMA TabTypes ==
    ASSUME TypeOK, [Next]_vars, TokenTypeOK'
    PROVE  TypeOK'
<1> USE OpsAssumption
<1>1. ASSUME NEW t \in Tabs, Open(t) \/ Login(t) \/ Mistype(t) \/ Logout(t) \/ CallApi(t)
      PROVE  TypeOK'
  BY <1>1 DEF TypeOK, Open, Login, Mistype, Logout, CallApi, Begin, Callers
<1>2. ASSUME NEW t \in Tabs, NEW c \in Callers, Answer(t, c) PROVE TypeOK'
  <2>1. \E s \in CallStages : caller' = [caller EXCEPT ![t][c] = s]
    BY <1>2 DEF Answer, CallAccepted, CallFails, CallUnauthorized, End, CallStages
  <2>2. \/ status' = status
        \/ \E x \in AuthStatus : status' = [status EXCEPT ![t] = x]
    BY <1>2 DEF Answer, CallAccepted, CallFails, CallUnauthorized, End, AuthStatus
  <2>3. ops' = ops
    BY <1>2 DEF Answer, CallAccepted, CallFails, CallUnauthorized, End
  <2> QED
    BY <2>1, <2>2, <2>3 DEF TypeOK, AuthStatus, CallStages
<1>3. ASSUME NEW t \in Tabs, ReceiveRefresh(t) \/ LoseRefresh(t) PROVE TypeOK'
  <2>1. Refreshed(t) \/ NotRefreshed(t)
    BY <1>3 DEF ReceiveRefresh, LoseRefresh
  <2>2. \A s \in CallStages : Resume(s) \in CallStages /\ GiveUp(s) \in CallStages
    BY DEF Resume, GiveUp, CallStages
  <2>3. caller \in [Tabs -> [Callers -> CallStages]]
    BY DEF TypeOK, CallStages
  <2>4. [c \in Callers |-> Resume(caller[t][c])] \in [Callers -> CallStages]
    BY <2>2, <2>3
  <2>5. [c \in Callers |-> GiveUp(caller[t][c])] \in [Callers -> CallStages]
    BY <2>2, <2>3
  <2>6. caller' \in [Tabs -> [Callers -> CallStages]]
    BY <2>1, <2>3, <2>4, <2>5 DEF Refreshed, NotRefreshed
  <2>7. status' \in [Tabs -> AuthStatus] /\ ops' \in 0 .. MaxOps
    BY <2>1 DEF Refreshed, NotRefreshed, TypeOK, AuthStatus
  <2> QED
    BY <2>6, <2>7 DEF TypeOK, AuthStatus, CallStages
<1>4. ASSUME NEW t \in Tabs, ReceiveForm(t) \/ LoseForm(t) PROVE TypeOK'
  <2>1. /\ FormDone(t)
        /\ \E x \in {"authenticated", "unauthenticated", status[t]} :
             status' = [status EXCEPT ![t] = x]
    BY <1>4 DEF ReceiveForm, LoseForm, TypeOK
  <2> QED
    BY <2>1 DEF FormDone, TypeOK, Callers
<1>5. CASE UNCHANGED tabVars
  BY <1>5 DEF tabVars, TypeOK
<1> QED
  BY <1>1, <1>2, <1>3, <1>4, <1>5 DEF Next, Respond, vars

Busy(l) == req[l].at # "idle"

\* Which lines a step of RefreshTokens makes busy or idle.
LEMMA SendBusies ==
    ASSUME TokenTypeOK, NEW l \in Lines, SendRefresh(l) \/ SendLogout(l) \/ SendLogin(l)
    PROVE  /\ ~Busy(l) /\ Busy(l)'
           /\ \A m \in Lines \ {l} : Busy(m)' <=> Busy(m)
  BY DEF SendRefresh, SendLogout, SendLogin, SendWith, Busy, TokenTypeOK, Request, NoReq

LEMMA ServeKeepsBusy ==
    ASSUME TokenTypeOK, NEW l \in Lines, Serve(l)
    PROVE  \A m \in Lines : Busy(m)' <=> Busy(m)
<1>1. Busy(l)
  BY DEF Serve, RefuseRefresh, ReadToken, Rotate, RevokeFamily, RefuseLogin, IssueTokens,
         RevokeRefresh, Busy
<1>2. req \in [Lines -> Request]
  BY DEF TokenTypeOK
<1>3. CASE RefuseRefresh(l) \/ ReadToken(l) \/ RevokeFamily(l) \/ RefuseLogin(l) \/ RevokeRefresh(l)
  BY <1>1, <1>2, <1>3 DEF RefuseRefresh, ReadToken, RevokeFamily, RefuseLogin, RevokeRefresh, Busy, Request
<1>4. CASE Rotate(l) \/ IssueTokens(l)
  BY <1>1, <1>2, <1>4 DEF Rotate, IssueTokens, Busy, Request
<1> QED
  BY <1>3, <1>4 DEF Serve

LEMMA EndIdles ==
    ASSUME TokenTypeOK, NEW l \in Lines, Receive(l) \/ Lose(l)
    PROVE  /\ Busy(l) /\ ~Busy(l)'
           /\ \A m \in Lines \ {l} : Busy(m)' <=> Busy(m)
  BY DEF Receive, Lose, Busy, TokenTypeOK, Request, NoReq

Waits(t)    == \E c \in Callers : caller[t][c] \in {"restoring", "waiting"}
FormSent(t) == caller[t]["form"] = "sent"

\* A sign-in form or sign-out that is sent has its request under way, and a
\* form that waits for a refresh has none: no answer ends the wait by it.
TabInv ==
    \A t \in Tabs :
        /\ Waits(t) <=> Busy(RefreshLine(t))
        /\ FormSent(t) <=> Busy(FormLine(t))

LEMMA TabLines ==
    /\ \A u \in Tabs : RefreshLine(u) \in Lines /\ FormLine(u) \in Lines
    /\ \A u, v \in Tabs : RefreshLine(u) # FormLine(v)
    /\ \A u, v \in Tabs : RefreshLine(u) = RefreshLine(v) => u = v
    /\ \A u, v \in Tabs : FormLine(u) = FormLine(v) => u = v
  BY LinesAssumption DEF RefreshLine, FormLine

LEMMA TabStep ==
    ASSUME TypeOK, TypeOK', TabInv, [Next]_vars
    PROVE  TabInv'
<1>1. TokenTypeOK /\ caller \in [Tabs -> [Callers -> CallStages]]
  BY DEF TypeOK, CallStages
<1>2. ASSUME NEW u \in Tabs, Open(u) PROVE TabInv'
  <2>1. /\ Busy(RefreshLine(u))'
        /\ \A m \in Lines \ {RefreshLine(u)} : Busy(m)' <=> Busy(m)
    BY <1>1, <1>2, TabLines, SendBusies DEF Open
  <2>2. caller' = [caller EXCEPT ![u]["mount"] = "restoring"]
    BY <1>2 DEF Open, Begin
  <2> QED
    BY <1>1, <2>1, <2>2, TabLines DEF TabInv, Waits, FormSent, Callers
<1>3. ASSUME NEW u \in Tabs, Login(u) \/ Logout(u) PROVE TabInv'
  <2>1. /\ Busy(FormLine(u))'
        /\ \A m \in Lines \ {FormLine(u)} : Busy(m)' <=> Busy(m)
    BY <1>1, <1>3, TabLines, SendBusies DEF Login, Logout
  <2>2. caller[u]["form"] = "none" /\ caller' = [caller EXCEPT ![u]["form"] = "sent"]
    BY <1>3 DEF Login, Logout, Begin
  <2> QED
    BY <1>1, <2>1, <2>2, TabLines DEF TabInv, Waits, FormSent, Callers
<1>4. ASSUME NEW u \in Tabs, Mistype(u) \/ CallApi(u) PROVE TabInv'
  <2>1. \E c \in Callers : caller[u][c] = "none" /\ caller' = [caller EXCEPT ![u][c] = "asked"]
    BY <1>4 DEF Mistype, CallApi, Begin, Callers
  <2>2. \A m \in Lines : Busy(m)' <=> Busy(m)
    BY <1>4 DEF Mistype, CallApi, tokenVars, Busy
  <2> QED
    BY <1>1, <2>1, <2>2, TabLines DEF TabInv, Waits, FormSent, Callers
<1>5. ASSUME NEW u \in Tabs, NEW c \in Callers, CallAccepted(u, c) \/ CallFails(u, c)
      PROVE  TabInv'
  <2>1. /\ caller[u][c] \in {"asked", "retried"}
        /\ caller' = [caller EXCEPT ![u][c] = "none"]
        /\ \A m \in Lines : Busy(m)' <=> Busy(m)
    BY <1>5 DEF CallAccepted, CallFails, End, tokenVars, Busy
  <2> QED
    BY <1>1, <2>1, TabLines DEF TabInv, Waits, FormSent, Callers
<1>6. ASSUME NEW u \in Tabs, NEW c \in Callers, CallUnauthorized(u, c) PROVE TabInv'
  <2>1. /\ caller[u][c] = "asked"
        /\ caller' = [caller EXCEPT ![u][c] = "waiting"]
    BY <1>6 DEF CallUnauthorized
  <2>2. /\ Busy(RefreshLine(u))'
        /\ \A m \in Lines \ {RefreshLine(u)} : Busy(m)' <=> Busy(m)
    <3>1. CASE Busy(RefreshLine(u))
      BY <1>6, <3>1 DEF CallUnauthorized, Refresh, tokenVars, Busy
    <3>2. CASE ~Busy(RefreshLine(u))
      <4>1. SendRefresh(RefreshLine(u))
        BY <1>6, <3>2 DEF CallUnauthorized, Refresh, Busy
      <4> QED
        BY <1>1, <4>1, TabLines, SendBusies
    <3> QED
      BY <3>1, <3>2
  <2> QED
    BY <1>1, <2>1, <2>2, TabLines DEF TabInv, Waits, FormSent, Callers
<1>7. ASSUME NEW u \in Tabs, ReceiveRefresh(u) \/ LoseRefresh(u) PROVE TabInv'
  <2>1. /\ ~Busy(RefreshLine(u))'
        /\ \A m \in Lines \ {RefreshLine(u)} : Busy(m)' <=> Busy(m)
    BY <1>1, <1>7, TabLines, EndIdles DEF ReceiveRefresh, LoseRefresh
  <2>2. PICK F \in [Callers -> CallStages] :
          /\ caller' = [caller EXCEPT ![u] = F]
          /\ \A c \in Callers : F[c] \notin {"restoring", "waiting"}
          /\ F["form"] = "sent" <=> caller[u]["form"] = "sent"
    <3>1. Refreshed(u) \/ NotRefreshed(u)
      BY <1>7 DEF ReceiveRefresh, LoseRefresh
    <3>2. \A s \in CallStages :
            /\ Resume(s) \in CallStages \ {"restoring", "waiting"}
            /\ GiveUp(s) \in CallStages \ {"restoring", "waiting"}
            /\ Resume(s) = "sent" <=> s = "sent"
            /\ GiveUp(s) = "sent" <=> s = "sent"
      BY DEF Resume, GiveUp, CallStages
    <3>3. \A c \in Callers : caller[u][c] \in CallStages
      BY <1>1
    <3>4. CASE Refreshed(u)
      <4> DEFINE F == [c \in Callers |-> Resume(caller[u][c])]
      <4>1. caller' = [caller EXCEPT ![u] = F]
        BY <3>4 DEF Refreshed
      <4>2. F \in [Callers -> CallStages] /\ \A c \in Callers : F[c] = Resume(caller[u][c])
        BY <3>2, <3>3
      <4> HIDE DEF F
      <4> QED
        BY <3>2, <3>3, <4>1, <4>2 DEF Callers
    <3>5. CASE NotRefreshed(u)
      <4> DEFINE F == [c \in Callers |-> GiveUp(caller[u][c])]
      <4>1. caller' = [caller EXCEPT ![u] = F]
        BY <3>5 DEF NotRefreshed
      <4>2. F \in [Callers -> CallStages] /\ \A c \in Callers : F[c] = GiveUp(caller[u][c])
        BY <3>2, <3>3
      <4> HIDE DEF F
      <4> QED
        BY <3>2, <3>3, <4>1, <4>2 DEF Callers
    <3> QED
      BY <3>1, <3>4, <3>5
  <2> QED
    BY <1>1, <2>1, <2>2, TabLines DEF TabInv, Waits, FormSent
<1>8. ASSUME NEW u \in Tabs, ReceiveForm(u) \/ LoseForm(u) PROVE TabInv'
  <2>1. /\ Busy(FormLine(u)) /\ ~Busy(FormLine(u))'
        /\ \A m \in Lines \ {FormLine(u)} : Busy(m)' <=> Busy(m)
    BY <1>1, <1>8, TabLines, EndIdles DEF ReceiveForm, LoseForm
  <2>2. caller' = [caller EXCEPT ![u]["form"] = "none"]
    BY <1>8 DEF ReceiveForm, LoseForm, FormDone
  <2>3. caller[u]["form"] = "sent"
    BY <2>1 DEF TabInv, FormSent
  <2> QED
    BY <1>1, <2>1, <2>2, <2>3, TabLines DEF TabInv, Waits, FormSent, Callers
<1>9. ASSUME \A m \in Lines : Busy(m)' <=> Busy(m), UNCHANGED tabVars PROVE TabInv'
  BY <1>9, TabLines DEF TabInv, Waits, FormSent, tabVars
<1>10. ASSUME NEW l \in Lines, Respond(l) PROVE TabInv'
  BY <1>1, <1>9, <1>10, ServeKeepsBusy DEF Respond
<1>11. CASE UNCHANGED tabVars /\ UNCHANGED req
  BY <1>9, <1>11 DEF Busy
<1> QED
  BY <1>2, <1>3, <1>4, <1>5, <1>6, <1>7, <1>8, <1>10, <1>11
     DEF Next, Answer, Expire, DropCookie, vars, tokenVars, tabVars

\* However many calls of a tab wait for a refresh, and whichever of its
\* requests fail, they wait for one that is in flight.
THEOREM WaitersAreServed == Spec => [](TypeOK /\ WaitersHaveRefresh)
<1>1. Init => TypeOK /\ TabInv
  <2> SUFFICES ASSUME Init PROVE TypeOK /\ TabInv
    OBVIOUS
  <2>1. TokenTypeOK
    BY TokenInvInit DEF Init, TokenInv
  <2>2. TypeOK
    BY <2>1, OpsAssumption DEF Init, TypeOK
  <2>3. TabInv
    BY TabLines DEF Init, TokenInit, TabInv, Waits, FormSent, Busy, NoReq, Callers
  <2> QED
    BY <2>2, <2>3
<1>2. TypeOK /\ TabInv /\ [Next]_vars /\ TokenTypeOK' => (TypeOK /\ TabInv)'
  BY TabTypes, TabStep
<1>3. TypeOK /\ TabInv => TypeOK /\ WaitersHaveRefresh
  BY DEF TabInv, WaitersHaveRefresh, Waits, Busy
<1>4. TokenTypeOK /\ OneTokenPerFamily /\ SessionEndsForCause /\ LogoutEndsSession => TokenTypeOK
  OBVIOUS
<1>5. Spec => []TokenTypeOK
  BY <1>4, SessionsUseTokens, SessionsHoldTogether, PTL
<1> QED
  BY <1>1, <1>2, <1>3, <1>5, PTL DEF Spec

\* The variables of the tabs and of the tokens have their types.
COROLLARY SessionsTyped == Spec => []TypeOK
<1>1. TypeOK /\ WaitersHaveRefresh => TypeOK
  OBVIOUS
<1> QED
  BY <1>1, WaitersAreServed, PTL
=============================================================================
