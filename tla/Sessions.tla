------------------------------ MODULE Sessions ------------------------------
(***************************************************************************)
(* One browser tab and its two cookies: API calls that renew an expired    *)
(* session once and try again, logging in and out, and the user the tab    *)
(* shows.  The access token expires long before the refresh token.         *)
(*                                                                         *)
(* Abstractions.  A token is the account it was issued for; it and its     *)
(* cookie expire together.  A request carries the cookies there are when   *)
(* it is sent; its answer sets cookies when it arrives.                    *)
(***************************************************************************)
EXTENDS Accounts

CONSTANTS
  Calls,      \* calls the tab makes
  Renewal     \* POST /auth/refresh, of which a tab has one under way at most

ASSUME CallAssumption == Calls \cup {Renewal} \subseteq Hitters /\ Renewal \notin Calls
ASSUME ApartAssumption == Visitors \cap (Calls \cup {Renewal}) = {}

VARIABLES
  access,   \* owner of the access token in the browser, or NoOne
  refresh,  \* owner of the refresh token in the browser, or NoOne
  shown,    \* AuthContext's user, or NoOne
  call,     \* what each call is doing
  renewal,  \* refreshInFlight
  left,     \* history: the last login or logout that worked was a logout
  crossed   \* history: a login or logout was under way together with another request

accounts == <<users, visit, registered, proven>>
browser  == <<access, refresh, shown, call, renewal, left, crossed>>
vars     == <<limiter, accounts, browser>>
quota    == <<count, expires, admitted, endless, faults>>

-----------------------------------------------------------------------------
Owner   == Emails \cup {NoOne}
Kind    == {"data", "profile", "me", "login", "logout"}
Call    == [pc : {"idle", "limit", "sent", "renewing", "again"}, kind : Kind, owner : Owner]
Idle    == [pc |-> "idle", kind |-> "data", owner |-> NoOne]
Renew   == [pc : {"none", "limit", "sent"}, owner : Owner]
NoRenew == [pc |-> "none", owner |-> NoOne]

Busy        == {c \in Calls : call[c].pc # "idle"}
Return(c)     == call' = [call EXCEPT ![c] = Idle]
Waiting     == {c \in Calls : call[c].pc = "renewing"}
InFlight(c) == call[c].pc \in {"sent", "again"}

\* Only these kinds change who is signed in.
Switches(kind) == kind \in {"login", "logout"}
Crossing(kind) ==
  \/ Switches(kind) /\ (Busy # {} \/ renewal.pc # "none")
  \/ \E c \in Busy : Switches(call[c].kind)

\* set_auth_cookies and clear_auth_cookies.
SetCookies(owner) == access' = owner /\ refresh' = owner
KeepCookies       == UNCHANGED <<access, refresh>>

\* The tab makes a call: the page loads, a signed-in user works or leaves, or a
\* visitor signs in.
Offered(kind) ==
  CASE kind = "me"    -> shown = NoOne /\ Busy = {}
    [] kind = "login" -> shown = NoOne /\ \A c \in Busy : call[c].kind # "me"
    [] OTHER          -> shown # NoOne

Send(c, kind, email) ==
  /\ c \notin Busy /\ Offered(kind)
  /\ kind = "login" <=> email # NoOne
  /\ IF kind = "login"
       THEN call' = [call EXCEPT ![c] = [pc |-> "limit", kind |-> kind, owner |-> email]] /\ Enter(c)
     ELSE call' = [call EXCEPT ![c] = [pc |-> "sent", kind |-> kind, owner |-> access]] /\ hit' = hit
  /\ crossed' = (crossed \/ Crossing(kind))
  /\ UNCHANGED <<accounts, quota, access, refresh, shown, renewal, left>>

\* A login that the limiter lets through has its password checked.
Verified(c) == users[call[c].owner].password

LoginLimited(c) ==
  /\ call[c].pc = "limit"
  /\ \/ hit[c].pc = "passed" /\ call' = [call EXCEPT ![c].pc = "sent"]
     \/ hit[c].pc = "refused" /\ Return(c)
  /\ Leave(c)
  /\ UNCHANGED <<accounts, quota, access, refresh, shown, renewal, left, crossed>>

\* Variant with a bug: a login leaves the refresh cookie of the session before it.
LogInShort(c) ==
  /\ InFlight(c) /\ call[c].kind = "login" /\ Verified(c)
  /\ access' = call[c].owner /\ refresh' = IF refresh = NoOne THEN call[c].owner ELSE refresh
  /\ shown' = call[c].owner
  /\ left' = FALSE
  /\ Return(c)
  /\ UNCHANGED <<accounts, limiter, renewal, crossed>>

LogIn(c) ==
  /\ InFlight(c) /\ call[c].kind = "login" /\ Verified(c)
  /\ SetCookies(call[c].owner)
  /\ shown' = call[c].owner
  /\ left' = FALSE
  /\ Return(c)
  /\ UNCHANGED <<accounts, limiter, renewal, crossed>>

\* A wrong password, or an account that has none.
LogInFails(c) ==
  /\ InFlight(c) /\ call[c].kind = "login"
  /\ Return(c)
  /\ UNCHANGED <<accounts, limiter, access, refresh, shown, renewal, left, crossed>>

\* Logging out takes a valid session to clear the cookies; the tab forgets its user
\* whatever the answer is.
LogOut(c) ==
  /\ InFlight(c) /\ call[c].kind = "logout"
  /\ IF call[c].owner # NoOne THEN SetCookies(NoOne) /\ left' = TRUE
                              ELSE KeepCookies /\ left' = left
  /\ shown' = NoOne
  /\ Return(c)
  /\ UNCHANGED <<accounts, limiter, renewal, crossed>>

\* A call with a valid session is answered; two of them return the user.
Succeed(c) ==
  /\ InFlight(c) /\ ~Switches(call[c].kind)
  /\ call[c].owner # NoOne
  /\ shown' = IF call[c].kind = "data" THEN shown ELSE call[c].owner
  /\ Return(c)
  /\ UNCHANGED <<accounts, limiter, access, refresh, renewal, left, crossed>>

\* 401 on the first try: wait for the renewal under way, or start one.
Unauthorized(c) ==
  /\ call[c].pc = "sent" /\ ~Switches(call[c].kind)
  /\ call[c].owner = NoOne
  /\ call' = [call EXCEPT ![c].pc = "renewing"]
  /\ IF renewal.pc = "none"
       THEN renewal' = [pc |-> "limit", owner |-> refresh] /\ Enter(Renewal)
     ELSE UNCHANGED <<renewal, hit>>
  /\ UNCHANGED <<accounts, quota, access, refresh, shown, left, crossed>>

\* The network fails one request, of whatever kind.
CallFails(c) ==
  /\ InFlight(c) /\ Fault
  /\ shown' = IF call[c].kind \in {"me", "logout"} THEN NoOne ELSE shown
  /\ Return(c)
  /\ UNCHANGED <<accounts, count, expires, hit, admitted, endless, access, refresh, renewal, left, crossed>>

\* The renewal was refused: the tab drops its user and every waiting call ends.
Drop ==
  /\ renewal' = NoRenew
  /\ shown' = NoOne
  /\ call' = [c \in Calls |-> IF c \in Waiting THEN Idle ELSE call[c]]

RenewalLimited ==
  /\ renewal.pc = "limit"
  /\ \/ hit[Renewal].pc = "passed" /\ renewal' = [renewal EXCEPT !.pc = "sent"] /\ UNCHANGED <<shown, call>>
     \/ hit[Renewal].pc = "refused" /\ Drop
  /\ Leave(Renewal)
  /\ UNCHANGED <<accounts, quota, access, refresh, left, crossed>>

\* A fresh pair; the waiting calls are sent again with it, which no second 401 meets.
Renewed ==
  /\ renewal.pc = "sent" /\ renewal.owner # NoOne /\ Known(renewal.owner)
  /\ SetCookies(renewal.owner)
  /\ renewal' = NoRenew
  /\ call' = [c \in Calls |-> IF c \in Waiting THEN [call[c] EXCEPT !.pc = "again", !.owner = renewal.owner]
                                                ELSE call[c]]
  /\ UNCHANGED <<accounts, limiter, shown, left, crossed>>

\* The refresh token is missing or expired, or the network fails.
RenewalFails ==
  /\ renewal.pc = "sent"
  /\ \/ renewal.owner = NoOne /\ faults' = faults
     \/ Fault
  /\ Drop
  /\ UNCHANGED <<accounts, count, expires, hit, admitted, endless, access, refresh, left, crossed>>

\* Tokens expire, the access token long before the refresh token.
ExpireAccess ==
  /\ access # NoOne /\ access' = NoOne
  /\ UNCHANGED <<accounts, limiter, refresh, shown, call, renewal, left, crossed>>

ExpireRefresh ==
  /\ access = NoOne /\ refresh # NoOne /\ refresh' = NoOne
  /\ UNCHANGED <<accounts, limiter, access, shown, call, renewal, left, crossed>>

-----------------------------------------------------------------------------
Calling(c) ==
  \/ LoginLimited(c) \/ LogIn(c) \/ LogInFails(c) \/ LogOut(c) \/ Succeed(c)
  \/ Unauthorized(c) \/ CallFails(c)

\* Bound: visitors and the tab meet in the accounts and in the counter, not in time.
Quiet   == Busy = {}
NoVisit == \A v \in Visitors : visit[v].pc \in {"new", "done"}

Init ==
  /\ LimiterInit
  /\ users = [e \in Emails |-> NoUser]
  /\ visit = [v \in Visitors |-> NewVisit]
  /\ registered = {} /\ proven = {}
  /\ access = NoOne /\ refresh = NoOne /\ shown = NoOne
  /\ call = [c \in Calls |-> Idle]
  /\ renewal = NoRenew
  /\ left = FALSE /\ crossed = FALSE

Next ==
  \/ \E h \in Hitters : (Limiting(h) \/ RedisFails(h)) /\ UNCHANGED <<accounts, browser>>
  \/ WindowEnds /\ UNCHANGED <<accounts, browser>>
  \/ \E v \in Visitors, e \in Emails : Quiet /\ StartRegister(v, e) /\ UNCHANGED browser
  \/ \E v \in Visitors, e \in Emails, s \in Subs : Quiet /\ StartGoogle(v, e, s) /\ UNCHANGED browser
  \/ \E v \in Visitors : Visiting(v) /\ UNCHANGED browser
  \/ \E c \in Calls, kind \in Kind, e \in Owner : NoVisit /\ Send(c, kind, e)
  \/ \E c \in Calls : Calling(c)
  \/ RenewalLimited \/ Renewed \/ RenewalFails
  \/ ExpireAccess \/ ExpireRefresh

Spec == Init /\ [][Next]_vars

\* A request's handler runs on, and Redis drops keys whose time is over.
Fairness ==
  /\ \A h \in Hitters : WF_vars(Limiting(h) /\ UNCHANGED <<accounts, browser>>)
  /\ WF_vars(WindowEnds /\ UNCHANGED <<accounts, browser>>)

FairSpec == Spec /\ Fairness

-----------------------------------------------------------------------------
TypeOK ==
  /\ LimiterTypeOK /\ AccountsTypeOK
  /\ access \in Owner /\ refresh \in Owner /\ shown \in Owner
  /\ access # NoOne => refresh # NoOne
  /\ call \in [Calls -> Call] /\ renewal \in Renew
  /\ left \in BOOLEAN /\ crossed \in BOOLEAN
  /\ Waiting # {} => renewal.pc # "none"

\* The tab shows the user whose session the browser holds, and a logout that worked
\* leaves no session that a later page load would restore (AuthContext.tsx:49-77,
\* client.ts:93-102): unless a login or logout overlapped another request of the tab,
\* whose late answer may bring either back.
TabShowsSession ==
  crossed \/ /\ shown # NoOne => access \in {shown, NoOne} /\ refresh \in {shown, NoOne}
             /\ left => access = NoOne /\ refresh = NoOne /\ shown = NoOne
=============================================================================
