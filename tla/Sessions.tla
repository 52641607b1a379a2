------------------------------- MODULE Sessions -------------------------------
(***************************************************************************)
(* The tabs of one browser: AuthContext restores a session when a tab      *)
(* opens, apiFetch answers a 401 with one refresh and one more try, and    *)
(* refreshes of a tab share the one in flight.  The tabs share the cookie, *)
(* and the requests that carry it are those of RefreshTokens: each tab has *)
(* a line for its refresh and one for its sign-in form or sign-out button. *)
(*                                                                         *)
(* Whether the access token of a call has run out is left open: a call may *)
(* always be answered 401.                                                 *)
(***************************************************************************)
EXTENDS RefreshTokens

CONSTANTS
    Tabs,           \* tabs of the browser
    MaxOps          \* bound: tabs opened, sign-ins, sign-outs and calls begun

ASSUME LinesAssumption == Lines = Tabs \X {"refresh", "form"}
ASSUME OpsAssumption   == MaxOps \in Nat

Callers == {"mount", "form", "api"}

VARIABLES
    status,     \* AuthStatus of each tab, "closed" before it is opened
    caller,     \* how far each tab's restore, form and call have come
    ops         \* operations begun

tabVars == <<status, caller, ops>>
vars    == <<tokenVars, tabVars>>

RefreshLine(t) == <<t, "refresh">>
FormLine(t)    == <<t, "form">>

Init ==
    /\ TokenInit
    /\ status = [t \in Tabs |-> "closed"]
    /\ caller = [t \in Tabs |-> [c \in Callers |-> "none"]]
    /\ ops = 0

-----------------------------------------------------------------------------
(* What the user does.                                                     *)

Begin(t, c, stage) ==
    /\ ops < MaxOps
    /\ ops' = ops + 1
    /\ caller[t][c] = "none"
    /\ caller' = [caller EXCEPT ![t][c] = stage]

\* A tab is opened or reloaded: the session is restored from the cookie.
Open(t) ==
    /\ \A c \in Callers : caller[t][c] = "none"
    /\ Begin(t, "mount", "restoring")
    /\ SendRefresh(RefreshLine(t))
    /\ status' = [status EXCEPT ![t] = "loading"]

\* The sign-in page is shown to whoever is not authenticated yet.
Login(t) ==
    /\ status[t] \in {"loading", "unauthenticated"}
    /\ Begin(t, "form", "sent")
    /\ SendLogin(FormLine(t))
    /\ UNCHANGED status

\* The same with a wrong password, which changes no token.
Mistype(t) ==
    /\ status[t] \in {"loading", "unauthenticated"}
    /\ Begin(t, "form", "asked")
    /\ UNCHANGED <<status, tokenVars>>

Logout(t) ==
    /\ status[t] = "authenticated"
    /\ Begin(t, "form", "sent")
    /\ SendLogout(FormLine(t))
    /\ UNCHANGED status

CallApi(t) ==
    /\ status[t] = "authenticated"
    /\ Begin(t, "api", "asked")
    /\ UNCHANGED <<status, tokenVars>>

-----------------------------------------------------------------------------
(* apiFetch: requests that carry the access token or a wrong password.     *)

\* A call ends; the one that restores the session decides the tab's status.
End(t, c, restored) ==
    /\ caller' = [caller EXCEPT ![t][c] = "none"]
    /\ status' = IF c = "mount" THEN [status EXCEPT ![t] = restored] ELSE status
    /\ UNCHANGED <<tokenVars, ops>>

\* The refresh callback: a refresh in flight is shared.
Refresh(t) ==
    IF req[RefreshLine(t)].at = "idle" THEN SendRefresh(RefreshLine(t)) ELSE UNCHANGED tokenVars

\* Never for the form: its password is wrong.
CallAccepted(t, c) ==
    /\ c # "form"
    /\ caller[t][c] \in {"asked", "retried"}
    /\ End(t, c, "authenticated")

\* An error that is no 401, or a 401 to the one more try.
CallFails(t, c) ==
    /\ caller[t][c] \in {"asked", "retried"}
    /\ End(t, c, "unauthenticated")

\* The first 401: wait for a refresh.
CallUnauthorized(t, c) ==
    /\ caller[t][c] = "asked"
    /\ caller' = [caller EXCEPT ![t][c] = "waiting"]
    /\ Refresh(t)
    /\ UNCHANGED <<status, ops>>

-----------------------------------------------------------------------------
(* Answers to the requests that carry the cookie.                          *)

\* Whoever waits for a refresh goes on, or gives up and clears the session.
Resume(stage) ==
    CASE stage = "restoring" -> "asked"
      [] stage = "waiting"   -> "retried"
      [] OTHER               -> stage

\* Variant: a call is made again although the refresh failed.
GiveUpNever(stage) ==
    CASE stage = "restoring" -> "none"
      [] stage = "waiting"   -> "asked"
      [] OTHER               -> stage

GiveUp(stage) == IF stage \in {"restoring", "waiting"} THEN "none" ELSE stage

Refreshed(t) ==
    /\ caller' = [caller EXCEPT ![t] = [c \in Callers |-> Resume(caller[t][c])]]
    /\ UNCHANGED <<status, ops>>

NotRefreshed(t) ==
    /\ caller' = [caller EXCEPT ![t] = [c \in Callers |-> GiveUp(caller[t][c])]]
    /\ status' = [status EXCEPT ![t] = "unauthenticated"]
    /\ UNCHANGED ops

ReceiveRefresh(t) ==
    /\ Receive(RefreshLine(t))
    /\ IF req[RefreshLine(t)].at = "accepted" THEN Refreshed(t) ELSE NotRefreshed(t)

\* Variant: a refresh that fails leaves its callers alone.
LoseRefreshSilently(t) == Lose(RefreshLine(t)) /\ UNCHANGED tabVars

LoseRefresh(t) == Lose(RefreshLine(t)) /\ NotRefreshed(t)

\* Sign-in shows the tab signed in; sign-out clears it even without an answer.
FormDone(t) ==
    /\ caller' = [caller EXCEPT ![t]["form"] = "none"]
    /\ UNCHANGED ops

ReceiveForm(t) ==
    /\ Receive(FormLine(t))
    /\ FormDone(t)
    /\ status' = [status EXCEPT ![t] =
         CASE req[FormLine(t)].at = "issued"  -> "authenticated"
           [] req[FormLine(t)].at = "revoked" -> "unauthenticated"
           [] OTHER -> @]

LoseForm(t) ==
    /\ Lose(FormLine(t))
    /\ FormDone(t)
    /\ status' = [status EXCEPT ![t] =
         IF req[FormLine(t)].at \in LogoutHolds THEN "unauthenticated" ELSE @]

Respond(l) == Serve(l) /\ UNCHANGED tabVars

Answer(t, c) == CallAccepted(t, c) \/ CallFails(t, c) \/ CallUnauthorized(t, c)

Next ==
    \/ \E t \in Tabs :
         \/ Open(t) \/ Login(t) \/ Mistype(t) \/ Logout(t) \/ CallApi(t)
         \/ ReceiveRefresh(t) \/ LoseRefresh(t) \/ ReceiveForm(t) \/ LoseForm(t)
         \/ \E c \in Callers : Answer(t, c)
    \/ \E l \in Lines : Respond(l)
    \/ \E k \in Tokens : Expire(k) /\ UNCHANGED tabVars
    \/ DropCookie /\ UNCHANGED tabVars

Spec == Init /\ [][Next]_vars

\* The API answers, and the browser runs the continuation of an answer.
Fairness ==
    /\ \A l \in Lines : WF_vars(Respond(l))
    /\ \A t \in Tabs :
         /\ WF_vars(ReceiveRefresh(t))
         /\ WF_vars(ReceiveForm(t))
         /\ \A c \in Callers : WF_vars(Answer(t, c))

FairSpec == Spec /\ Fairness

-----------------------------------------------------------------------------
(* Properties                                                              *)

TypeOK ==
    /\ TokenTypeOK
    /\ status \in [Tabs -> {"closed", "loading", "authenticated", "unauthenticated"}]
    /\ caller \in [Tabs -> [Callers ->
         {"none", "restoring", "asked", "waiting", "retried", "sent"}]]
    /\ ops \in 0 .. MaxOps

\* Whoever waits for a refresh waits for one that is in flight: sharing the
\* promise, and its reset when it ends, leave nobody behind.
WaitersHaveRefresh ==
    \A t \in Tabs :
        (\E c \in Callers : caller[t][c] \in {"restoring", "waiting"})
          <=> req[RefreshLine(t)].at # "idle"

\* Restoring a session, signing in or out and every call come to an end,
\* whatever is answered: a 401 leads to one refresh and one more try.
CallsEnd ==
    \A t \in Tabs : \A c \in Callers :
        caller[t][c] # "none" ~> caller[t][c] = "none"
=============================================================================
