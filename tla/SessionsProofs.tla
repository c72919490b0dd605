--------------------------- MODULE SessionsProofs ---------------------------
(***************************************************************************)
(* Theorems about Sessions' specification, for any number of visitors,     *)
(* calls, addresses and subjects, any limit and any number of failures.    *)
(***************************************************************************)
EXTENDS Sessions, FiniteSetTheorems, TLAPS

-----------------------------------------------------------------------------
\* Every step keeps the limiter's types.
LEMMA LimiterStep ==
  ASSUME LimiterTypeOK, NEW h \in Hitters, Limiting(h) \/ RedisFails(h) \/ WindowEnds
  PROVE  LimiterTypeOK'
<1> USE LimitAssumption DEF LimiterTypeOK, Hit, HitPC
<1>1. CASE Increment(h)
  <2>1. NextCount \in Nat
    BY DEF NextCount
  <2> QED
    BY <1>1, <2>1 DEF Increment
<1>2. CASE SetExpiry(h)
  <2>1. hit' \in [Hitters -> Hit]
    BY <1>2 DEF SetExpiry
  <2>2. expires' = TRUE /\ UNCHANGED <<count, admitted, endless, faults>>
    BY <1>2 DEF SetExpiry
  <2> QED
    BY <2>1, <2>2
<1>3. CASE Judge(h)
  <2>1. hit' \in [Hitters -> Hit]
    BY <1>3 DEF Judge, Out
  <2>2. admitted' \in Nat
    BY <1>3 DEF Judge
  <2>3. UNCHANGED <<count, expires, endless, faults>>
    BY <1>3 DEF Judge
  <2> QED
    BY <2>1, <2>2, <2>3
<1>4. CASE RedisFails(h)
  <2>1. endless' \in BOOLEAN /\ faults' \in 0..MaxFaults
    BY <1>4 DEF RedisFails, Fault
  <2>2. /\ hit' = [hit EXCEPT ![h].pc = "passed"]
        /\ UNCHANGED <<count, expires, admitted>>
    BY <1>4 DEF RedisFails
  <2> QED
    BY <2>1, <2>2
<1>5. CASE WindowEnds
  BY <1>5 DEF WindowEnds
<1> QED
  BY <1>1, <1>2, <1>3, <1>4, <1>5 DEF Limiting

\* A request enters the limiter and leaves it.
LEMMA PassingStep ==
  ASSUME LimiterTypeOK, NEW h \in Hitters, Enter(h) \/ Leave(h),
         UNCHANGED <<count, expires, admitted, endless, faults>>
  PROVE  LimiterTypeOK'
<1>1. CASE Enter(h)
  BY <1>1 DEF LimiterTypeOK, Enter, Out, Hit, HitPC
<1>2. CASE Leave(h)
  BY <1>2 DEF LimiterTypeOK, Leave, Out, Hit, HitPC
<1> QED
  BY <1>1, <1>2

\* So does every step of a visitor, and it keeps the types of the accounts.
LEMMA VisitorStep ==
  ASSUME LimiterTypeOK, AccountsTypeOK, NEW v \in Visitors,
         \/ \E e \in Emails : StartRegister(v, e)
         \/ \E e \in Emails, s \in Subs : StartGoogle(v, e, s)
         \/ Visiting(v)
  PROVE  LimiterTypeOK' /\ AccountsTypeOK'
<1> USE VisitorAssumption, NoOneAssumption DEF limiter
<1>1. ASSUME UNCHANGED limiter PROVE LimiterTypeOK'
  BY <1>1 DEF LimiterTypeOK
<1>2. ASSUME NEW x \in Visit, visit' = [visit EXCEPT ![v] = x],
             x.pc \notin {"new", "done"} => x.email \in Emails,
             x.pc = "link" => x.sub # NoOne /\ Known(x.email),
             UNCHANGED <<users, registered, proven>>
      PROVE  AccountsTypeOK'
  BY <1>2 DEF AccountsTypeOK, Known, ByGoogle
<1>3. ASSUME End(v) PROVE /\ visit' \in [Visitors -> Visit] /\ visit'[v].pc = "done"
                          /\ \A u \in Visitors \ {v} : visit'[u] = visit[u]
  BY <1>3 DEF End, AccountsTypeOK, Visit, VisitPC, NewVisit
<1>4. ASSUME End(v), UNCHANGED <<users, registered, proven>> PROVE AccountsTypeOK'
  BY <1>3, <1>4 DEF AccountsTypeOK, Known, ByGoogle
<1>5. ASSUME NEW e \in Emails, StartRegister(v, e) PROVE LimiterTypeOK' /\ AccountsTypeOK'
  <2>1. LimiterTypeOK'
    BY <1>5, PassingStep DEF StartRegister
  <2>2. [NewVisit EXCEPT !.pc = "limit", !.email = e] \in Visit
    BY DEF NewVisit, Visit, VisitPC
  <2>3. AccountsTypeOK'
    BY <1>2, <1>5, <2>2 DEF StartRegister, NewVisit
  <2> QED
    BY <2>1, <2>3
<1>6. ASSUME NEW e \in Emails, NEW s \in Subs, StartGoogle(v, e, s)
      PROVE  LimiterTypeOK' /\ AccountsTypeOK'
  <2>1. [pc |-> "look", email |-> e, sub |-> s] \in Visit
    BY DEF Visit, VisitPC
  <2> QED
    BY <1>1, <1>2, <1>6, <2>1 DEF StartGoogle
<1>7. CASE VisitLimited(v)
  <2>1. LimiterTypeOK'
    BY <1>7, PassingStep DEF VisitLimited
  <2>2. [visit[v] EXCEPT !.pc = "look"] \in Visit
    BY DEF AccountsTypeOK, Visit, VisitPC
  <2>3. visit[v].pc = "limit" /\ visit[v].email \in Emails
    BY <1>7 DEF VisitLimited, AccountsTypeOK
  <2>4. ASSUME visit' = [visit EXCEPT ![v].pc = "look"] PROVE AccountsTypeOK'
    BY <1>2, <1>7, <2>2, <2>3, <2>4 DEF VisitLimited, AccountsTypeOK, Visit
  <2>5. UNCHANGED <<users, registered, proven>>
        /\ (visit' = [visit EXCEPT ![v].pc = "look"] \/ End(v))
    BY <1>7 DEF VisitLimited
  <2> QED
    BY <1>4, <2>1, <2>4, <2>5
<1>8. CASE LookForEmail(v)
  <2>1. visit[v].pc = "look" /\ visit[v].email \in Emails
    BY <1>8 DEF LookForEmail, AccountsTypeOK
  <2>2. [visit[v] EXCEPT !.pc = "insert"] \in Visit
    BY DEF AccountsTypeOK, Visit, VisitPC
  <2>3. ASSUME visit' = [visit EXCEPT ![v].pc = "insert"] PROVE AccountsTypeOK'
    BY <1>2, <1>8, <2>1, <2>2, <2>3 DEF LookForEmail, AccountsTypeOK, Visit
  <2>4. /\ UNCHANGED <<users, registered, proven, limiter>>
        /\ visit' = [visit EXCEPT ![v].pc = "insert"] \/ End(v)
    BY <1>8 DEF LookForEmail
  <2> QED
    BY <1>1, <1>4, <2>3, <2>4
<1>9. CASE LookForSubject(v)
  <2>1. visit[v].pc = "look" /\ visit[v].email \in Emails /\ visit[v].sub \in Subs
    BY <1>9 DEF LookForSubject, AccountsTypeOK, ByGoogle, Visit
  <2>2. UNCHANGED <<users, registered, limiter>>
    BY <1>9 DEF LookForSubject
  <2>3. CASE End(v) /\ proven' = proven \cup ((OwnersOf(visit[v].sub) \X {visit[v].sub}))
    <3>1. proven' \subseteq Emails \X Subs
      BY <2>1, <2>3 DEF AccountsTypeOK, OwnersOf
    <3> QED
      BY <1>1, <1>3, <2>2, <2>3, <3>1 DEF AccountsTypeOK, Known, ByGoogle
  <2>4. CASE /\ visit' = [visit EXCEPT ![v].pc = IF Known(visit[v].email) THEN "link" ELSE "insert"]
             /\ proven' = proven
    <3>1. PICK pc \in {"link", "insert"} :
            /\ visit' = [visit EXCEPT ![v].pc = pc]
            /\ pc = "link" => Known(visit[v].email)
      BY <2>4
    <3>2. [visit[v] EXCEPT !.pc = pc] \in Visit
      BY DEF AccountsTypeOK, Visit, VisitPC
    <3>3. /\ [visit[v] EXCEPT !.pc = pc].pc = pc
          /\ [visit[v] EXCEPT !.pc = pc].email = visit[v].email
          /\ [visit[v] EXCEPT !.pc = pc].sub = visit[v].sub
      BY DEF AccountsTypeOK, Visit
    <3>4. AccountsTypeOK'
      BY <1>2, <2>1, <2>2, <2>4, <3>1, <3>2, <3>3
    <3> QED
      BY <1>1, <2>2, <3>4
  <2> QED
    BY <1>9, <2>3, <2>4 DEF LookForSubject
<1>10. CASE Link(v)
  <2>1. visit[v].sub \in Subs /\ visit[v].email \in Emails /\ Known(visit[v].email)
    BY <1>10 DEF Link, AccountsTypeOK, ByGoogle, Visit
  <2>2. /\ users' = [users EXCEPT ![visit[v].email].sub = visit[v].sub]
        /\ proven' = proven \cup {<<visit[v].email, visit[v].sub>>}
        /\ UNCHANGED <<registered, limiter>>
    BY <1>10 DEF Link
  <2>3. /\ users' \in [Emails -> User]
        /\ \A e \in Emails : users'[e].exists = users[e].exists
        /\ \A e \in Emails : ~users[e].exists => users'[e] = users[e]
    BY <2>1, <2>2 DEF AccountsTypeOK, User, Known
  <2>4. proven' \subseteq Emails \X Subs
    BY <2>1, <2>2 DEF AccountsTypeOK
  <2> QED
    BY <1>1, <1>3, <1>10, <2>2, <2>3, <2>4 DEF Link, AccountsTypeOK, Known, ByGoogle
<1>11. CASE Insert(v)
  <2>1. visit[v].email \in Emails /\ visit[v].sub \in Subs \cup {NoOne}
    BY <1>11 DEF Insert, AccountsTypeOK, Visit
  <2>2. [exists |-> TRUE, password |-> ~ByGoogle(v), sub |-> visit[v].sub] \in User
    BY <2>1 DEF User, ByGoogle
  <2>3. /\ users' \in [Emails -> User]
        /\ \A e \in Emails : users[e].exists => users'[e].exists
        /\ \A e \in Emails : ~users'[e].exists => users'[e] = users[e] /\ ~users[e].exists
    BY <1>11, <2>1, <2>2 DEF Insert, Create, AccountsTypeOK
  <2>4. registered' \subseteq Emails /\ proven' \subseteq Emails \X Subs
    BY <1>11, <2>1 DEF Insert, Create, AccountsTypeOK, ByGoogle
  <2> QED
    BY <1>1, <1>3, <1>11, <2>3, <2>4 DEF Insert, AccountsTypeOK, Known, ByGoogle
<1>12. CASE Collide(v)
  BY <1>1, <1>4, <1>12 DEF Collide
<1> QED
  BY <1>5, <1>6, <1>7, <1>8, <1>9, <1>10, <1>11, <1>12 DEF Visiting

-----------------------------------------------------------------------------
\* What the tab keeps.
TabTyped ==
  /\ access \in Owner /\ refresh \in Owner /\ shown \in Owner
  /\ access # NoOne => refresh # NoOne
  /\ call \in [Calls -> Call] /\ renewal \in Renew
  /\ left \in BOOLEAN /\ crossed \in BOOLEAN
  /\ \A c \in Calls : call[c].pc = "renewing" => renewal.pc # "none"

\* TypeOK speaks of it through Waiting.
LEMMA TypeOKParts == TypeOK <=> LimiterTypeOK /\ AccountsTypeOK /\ TabTyped
BY DEF TypeOK, TabTyped, Waiting

LEMMA TypeOKPartsNext == TypeOK' <=> LimiterTypeOK' /\ AccountsTypeOK' /\ TabTyped'
BY DEF TypeOK, TabTyped, Waiting

\* A step that leaves the accounts alone.
LEMMA AccountsAlone ==
  ASSUME AccountsTypeOK, UNCHANGED accounts PROVE AccountsTypeOK'
BY DEF AccountsTypeOK, accounts, Known, ByGoogle

\* A step of the tab that injects a failure at most.
LEMMA LimiterAlone ==
  ASSUME LimiterTypeOK, UNCHANGED <<count, expires, hit, admitted, endless>>,
         faults' = faults \/ Fault
  PROVE  LimiterTypeOK'
BY LimitAssumption DEF LimiterTypeOK, Fault

\* One call changes, and the renewal that calls wait for stays.
LEMMA OneCall ==
  ASSUME TabTyped, NEW c \in Calls, NEW x \in Call, call' = [call EXCEPT ![c] = x],
         x.pc = "renewing" => renewal'.pc # "none",
         renewal' = renewal \/ renewal'.pc # "none"
  PROVE  /\ call' \in [Calls -> Call]
         /\ \A d \in Calls : call'[d].pc = "renewing" => renewal'.pc # "none"
BY DEF TabTyped

\* Every step of a call keeps the types.
LEMMA CallStep ==
  ASSUME TypeOK, NEW c \in Calls,
         (\E kind \in Kind, e \in Owner : Send(c, kind, e)) \/ Calling(c)
  PROVE  TypeOK'
<1> USE CallAssumption, NoOneAssumption DEF limiter, quota
<1>1. LimiterTypeOK /\ AccountsTypeOK /\ TabTyped
  BY TypeOKParts
<1>2. Idle \in Call /\ Idle.pc = "idle"
  BY DEF Idle, Call, Kind, Owner
<1>3. ASSUME Return(c), UNCHANGED renewal
      PROVE  /\ call' \in [Calls -> Call]
             /\ \A d \in Calls : call'[d].pc = "renewing" => renewal'.pc # "none"
  BY <1>1, <1>2, <1>3, OneCall DEF Return
<1>4. ASSUME UNCHANGED accounts PROVE AccountsTypeOK'
  BY <1>1, <1>4, AccountsAlone
<1>5. ASSUME UNCHANGED limiter PROVE LimiterTypeOK'
  BY <1>1, <1>5, LimiterAlone
<1>6. ASSUME NEW kind \in Kind, NEW e \in Owner, Send(c, kind, e) PROVE TypeOK'
  <2>1. UNCHANGED <<accounts, quota, access, refresh, shown, renewal, left>>
    BY <1>6 DEF Send
  <2>2. crossed' \in BOOLEAN
    BY <1>1, <1>6 DEF Send, TabTyped
  <2>3. LimiterTypeOK'
    <3>1. Enter(c) \/ hit' = hit
      BY <1>6 DEF Send
    <3> QED
      BY <1>1, <1>5, <2>1, <3>1, PassingStep
  <2>4. PICK x \in Call : x.pc # "renewing" /\ call' = [call EXCEPT ![c] = x]
    BY <1>1, <1>6 DEF Send, Call, TabTyped
  <2>5. TabTyped'
    BY <1>1, <2>1, <2>2, <2>4, OneCall DEF TabTyped
  <2> QED
    BY <1>4, <2>1, <2>3, <2>5, TypeOKPartsNext
<1>7. CASE LoginLimited(c)
  <2>1. UNCHANGED <<accounts, quota, access, refresh, shown, renewal, left, crossed>>
    BY <1>7 DEF LoginLimited
  <2>2. LimiterTypeOK'
    <3>1. Leave(c)
      BY <1>7 DEF LoginLimited
    <3> QED
      BY <1>1, <2>1, <3>1, PassingStep
  <2>3. [call[c] EXCEPT !.pc = "sent"] \in Call /\ [call[c] EXCEPT !.pc = "sent"].pc = "sent"
    BY <1>1 DEF TabTyped, Call
  <2>4. PICK x \in Call : x.pc # "renewing" /\ call' = [call EXCEPT ![c] = x]
    <3>1. call' = [call EXCEPT ![c].pc = "sent"] \/ Return(c)
      BY <1>7 DEF LoginLimited
    <3> QED
      BY <1>2, <2>3, <3>1 DEF Return
  <2>5. TabTyped'
    BY <1>1, <2>1, <2>4, OneCall DEF TabTyped
  <2> QED
    BY <1>4, <2>1, <2>2, <2>5, TypeOKPartsNext
<1>8. CASE LogIn(c)
  <2>1. /\ UNCHANGED <<accounts, limiter, renewal, crossed>>
        /\ access' = call[c].owner /\ refresh' = call[c].owner /\ shown' = call[c].owner
        /\ left' = FALSE /\ Return(c)
    BY <1>8 DEF LogIn, SetCookies
  <2>2. call[c].owner \in Owner
    BY <1>1 DEF TabTyped, Call
  <2>3. TabTyped'
    BY <1>1, <1>3, <2>1, <2>2 DEF TabTyped
  <2> QED
    BY <1>4, <1>5, <2>1, <2>3, TypeOKPartsNext
<1>9. CASE LogInFails(c)
  <2>1. TabTyped'
    BY <1>1, <1>3, <1>9 DEF LogInFails, TabTyped
  <2> QED
    BY <1>4, <1>5, <1>9, <2>1, TypeOKPartsNext DEF LogInFails
<1>10. CASE LogOut(c)
  <2>1. /\ UNCHANGED <<accounts, limiter, renewal, crossed>>
        /\ shown' = NoOne /\ Return(c)
    BY <1>10 DEF LogOut
  <2>2. /\ left' \in BOOLEAN
        /\ \/ access' = access /\ refresh' = refresh
           \/ access' = NoOne /\ refresh' = NoOne
    BY <1>1, <1>10 DEF LogOut, SetCookies, KeepCookies, TabTyped
  <2>3. TabTyped'
    BY <1>1, <1>3, <2>1, <2>2 DEF TabTyped, Owner
  <2> QED
    BY <1>4, <1>5, <2>1, <2>3, TypeOKPartsNext
<1>11. CASE Succeed(c)
  <2>1. /\ UNCHANGED <<accounts, limiter, access, refresh, renewal, left, crossed>>
        /\ shown' \in {shown, call[c].owner} /\ Return(c)
    BY <1>11 DEF Succeed
  <2>2. call[c].owner \in Owner
    BY <1>1 DEF TabTyped, Call
  <2>3. TabTyped'
    BY <1>1, <1>3, <2>1, <2>2 DEF TabTyped
  <2> QED
    BY <1>4, <1>5, <2>1, <2>3, TypeOKPartsNext
<1>12. CASE Unauthorized(c)
  <2>1. UNCHANGED <<accounts, quota, access, refresh, shown, left, crossed>>
    BY <1>12 DEF Unauthorized
  <2>2. LimiterTypeOK'
    <3>1. Enter(Renewal) \/ UNCHANGED hit
      BY <1>12 DEF Unauthorized
    <3> QED
      BY <1>1, <1>5, <2>1, <3>1, PassingStep
  <2>3. renewal' \in Renew /\ renewal'.pc # "none"
    BY <1>1, <1>12 DEF Unauthorized, Renew, TabTyped
  <2>4. [call[c] EXCEPT !.pc = "renewing"] \in Call
    BY <1>1 DEF TabTyped, Call
  <2>5. /\ call' \in [Calls -> Call]
        /\ \A d \in Calls : call'[d].pc = "renewing" => renewal'.pc # "none"
    BY <1>1, <1>12, <2>3, <2>4, OneCall DEF Unauthorized
  <2>6. TabTyped'
    BY <1>1, <2>1, <2>3, <2>5 DEF TabTyped
  <2> QED
    BY <1>4, <2>1, <2>2, <2>6, TypeOKPartsNext
<1>13. CASE CallFails(c)
  <2>1. /\ UNCHANGED <<accounts, count, expires, hit, admitted, endless, access, refresh,
                       renewal, left, crossed>>
        /\ Fault /\ Return(c) /\ shown' \in {NoOne, shown}
    BY <1>13 DEF CallFails
  <2>2. LimiterTypeOK'
    BY <1>1, <2>1, LimiterAlone
  <2>3. TabTyped'
    BY <1>1, <1>3, <2>1 DEF TabTyped, Owner
  <2> QED
    BY <1>4, <2>1, <2>2, <2>3, TypeOKPartsNext
<1> QED
  BY <1>6, <1>7, <1>8, <1>9, <1>10, <1>11, <1>12, <1>13 DEF Calling

\* Every step of the renewal and every expiry keeps the types.
LEMMA RenewalStep ==
  ASSUME TypeOK,
         \/ RenewalLimited \/ Renewed \/ RenewalFails
         \/ ExpireAccess \/ ExpireRefresh
  PROVE  TypeOK'
<1> USE CallAssumption, NoOneAssumption DEF limiter, quota
<1>1. LimiterTypeOK /\ AccountsTypeOK /\ TabTyped
  BY TypeOKParts
<1>2. ASSUME Drop
      PROVE  /\ renewal' \in Renew /\ shown' \in Owner
             /\ call' \in [Calls -> Call] /\ \A c \in Calls : call'[c].pc # "renewing"
  <2>1. Idle \in Call /\ Idle.pc = "idle"
    BY DEF Idle, Call, Kind, Owner
  <2>2. call' \in [Calls -> Call] /\ \A c \in Calls : call'[c].pc # "renewing"
    BY <1>1, <1>2, <2>1 DEF Drop, TabTyped, Waiting
  <2> QED
    BY <1>2, <2>2 DEF Drop, NoRenew, Renew, Owner
<1>3. ASSUME UNCHANGED accounts PROVE AccountsTypeOK'
  BY <1>1, <1>3, AccountsAlone
<1>4. ASSUME UNCHANGED limiter PROVE LimiterTypeOK'
  BY <1>1, <1>4, LimiterAlone
<1>5. CASE RenewalLimited
  <2>1. UNCHANGED <<accounts, quota, access, refresh, left, crossed>> /\ Leave(Renewal)
    BY <1>5 DEF RenewalLimited
  <2>2. LimiterTypeOK'
    BY <1>1, <2>1, PassingStep
  <2>3. CASE renewal' = [renewal EXCEPT !.pc = "sent"] /\ UNCHANGED <<shown, call>>
    BY <1>1, <1>3, <2>1, <2>2, <2>3, TypeOKPartsNext DEF TabTyped, Renew
  <2>4. CASE Drop
    BY <1>1, <1>2, <1>3, <2>1, <2>2, <2>4, TypeOKPartsNext DEF TabTyped
  <2> QED
    BY <1>5, <2>3, <2>4 DEF RenewalLimited
<1>6. CASE Renewed
  <2>1. /\ UNCHANGED <<accounts, limiter, shown, left, crossed>>
        /\ access' = renewal.owner /\ refresh' = renewal.owner /\ renewal' = NoRenew
        /\ call' = [c \in Calls |->
                     IF c \in Waiting THEN [call[c] EXCEPT !.pc = "again", !.owner = renewal.owner]
                                      ELSE call[c]]
    BY <1>6 DEF Renewed, SetCookies
  <2>2. renewal.owner \in Owner
    BY <1>1 DEF TabTyped, Renew
  <2>3. \A c \in Calls : /\ [call[c] EXCEPT !.pc = "again", !.owner = renewal.owner] \in Call
                         /\ [call[c] EXCEPT !.pc = "again", !.owner = renewal.owner].pc = "again"
    BY <1>1, <2>2 DEF TabTyped, Call
  <2>4. call' \in [Calls -> Call] /\ \A c \in Calls : call'[c].pc # "renewing"
    BY <1>1, <2>1, <2>3 DEF TabTyped, Waiting
  <2>5. TabTyped'
    BY <1>1, <2>1, <2>2, <2>4 DEF TabTyped, NoRenew, Renew, Owner
  <2> QED
    BY <1>3, <1>4, <2>1, <2>5, TypeOKPartsNext
<1>7. CASE RenewalFails
  <2>1. /\ UNCHANGED <<accounts, count, expires, hit, admitted, endless, access, refresh, left, crossed>>
        /\ Drop /\ (faults' = faults \/ Fault)
    BY <1>7 DEF RenewalFails
  <2>2. LimiterTypeOK'
    BY <1>1, <2>1, LimiterAlone
  <2>3. TabTyped'
    BY <1>1, <1>2, <2>1 DEF TabTyped
  <2> QED
    BY <1>3, <2>1, <2>2, <2>3, TypeOKPartsNext
<1>8. CASE ExpireAccess
  BY <1>1, <1>3, <1>4, <1>8, TypeOKPartsNext DEF ExpireAccess, TabTyped, Owner
<1>9. CASE ExpireRefresh
  BY <1>1, <1>3, <1>4, <1>9, TypeOKPartsNext DEF ExpireRefresh, TabTyped, Owner
<1> QED
  BY <1>5, <1>6, <1>7, <1>8, <1>9

\* The types are inductive by themselves.
LEMMA TypeStep == TypeOK /\ [Next]_vars => TypeOK'
<1> SUFFICES ASSUME TypeOK, [Next]_vars PROVE TypeOK'
  OBVIOUS
<1>1. LimiterTypeOK /\ AccountsTypeOK /\ TabTyped
  BY TypeOKParts
<1>2. ASSUME UNCHANGED browser, LimiterTypeOK', AccountsTypeOK' PROVE TypeOK'
  BY <1>1, <1>2, TypeOKPartsNext DEF browser, TabTyped
<1>3. ASSUME UNCHANGED accounts PROVE AccountsTypeOK'
  BY <1>1, <1>3, AccountsAlone
<1>4. ASSUME NEW h \in Hitters, (Limiting(h) \/ RedisFails(h)) /\ UNCHANGED <<accounts, browser>>
      PROVE  TypeOK'
  BY <1>1, <1>2, <1>3, <1>4, LimiterStep
<1>5. CASE WindowEnds /\ UNCHANGED <<accounts, browser>>
  <2>1. LimiterTypeOK'
    BY <1>1, <1>5 DEF WindowEnds, LimiterTypeOK, Hit
  <2> QED
    BY <1>2, <1>3, <1>5, <2>1
<1>6. ASSUME NEW v \in Visitors, UNCHANGED browser,
             \/ \E e \in Emails : StartRegister(v, e)
             \/ \E e \in Emails, s \in Subs : StartGoogle(v, e, s)
             \/ Visiting(v)
      PROVE  TypeOK'
  BY <1>1, <1>2, <1>6, VisitorStep
<1>7. ASSUME NEW c \in Calls, (\E kind \in Kind, e \in Owner : Send(c, kind, e)) \/ Calling(c)
      PROVE  TypeOK'
  BY <1>7, CallStep
<1>8. CASE RenewalLimited \/ Renewed \/ RenewalFails \/ ExpireAccess \/ ExpireRefresh
  BY <1>8, RenewalStep
<1>9. CASE UNCHANGED vars
  <2>1. UNCHANGED limiter /\ UNCHANGED accounts /\ UNCHANGED browser
    BY <1>9 DEF vars
  <2>2. LimiterTypeOK'
    BY <1>1, <2>1 DEF limiter, LimiterTypeOK
  <2> QED
    BY <1>2, <1>3, <2>1, <2>2
<1> QED
  BY <1>4, <1>5, <1>6, <1>7, <1>8, <1>9 DEF Next

\* Every state of the limiter, the accounts and the tab is well-formed: a tab without a
\* refresh token holds no access token, and no call waits for a renewal that is over
\* (client.ts:43-60).
THEOREM SessionsTypeCorrect == Spec => []TypeOK
<1>1. Init => TypeOK
  <2> SUFFICES ASSUME Init PROVE TypeOK
    OBVIOUS
  <2>1. LimiterTypeOK
    <3>1. Out \in Hit
      BY DEF Out, Hit, HitPC
    <3>2. 0 \in 0..MaxFaults
      BY LimitAssumption
    <3> QED
      BY <3>1, <3>2 DEF Init, LimiterInit, LimiterTypeOK
  <2>2. AccountsTypeOK
    BY DEF Init, AccountsTypeOK, NoUser, User, NewVisit, Visit, VisitPC
  <2>3. TabTyped
    BY DEF Init, TabTyped, Owner, Idle, Call, Kind, NoRenew, Renew
  <2> QED
    BY <2>1, <2>2, <2>3, TypeOKParts
<1> QED
  BY <1>1, TypeStep, PTL DEF Spec

-----------------------------------------------------------------------------
\* The requests of this window that the limiter will let through.
Passing == {h \in Hitters : /\ hit[h].now /\ hit[h].pc \in {"expire", "judge"}
                           /\ hit[h].seen <= Limit}

\* Each of them, and each that was let through, has its own part of the count.
CountCovers ==
  /\ IsFiniteSet(Passing)
  /\ admitted + Cardinality(Passing) <= count
  /\ admitted + Cardinality(Passing) <= Limit

\* Requests that leave the count, or that the limiter does not pass, take nothing from it.
LEMMA CoverShrinks ==
  ASSUME LimiterTypeOK, CountCovers, Passing' \subseteq Passing, UNCHANGED <<count, admitted>>
  PROVE  CountCovers'
<1>1. IsFiniteSet(Passing') /\ Cardinality(Passing') <= Cardinality(Passing)
  BY FS_Subset DEF CountCovers
<1>2. Cardinality(Passing) \in Nat /\ Cardinality(Passing') \in Nat
  BY <1>1, FS_CardinalityType DEF CountCovers
<1> QED
  BY <1>1, <1>2, LimitAssumption DEF CountCovers, LimiterTypeOK

LEMMA CoverStep ==
  ASSUME LimiterTypeOK, CountCovers, NEW h \in Hitters,
         Limiting(h) \/ RedisFails(h) \/ WindowEnds
  PROVE  CountCovers'
<1> USE LimitAssumption
<1>1. hit \in [Hitters -> Hit] /\ count \in Nat /\ admitted \in Nat
  BY DEF LimiterTypeOK
<1>2. IsFiniteSet(Passing) /\ Cardinality(Passing) \in Nat
  BY FS_CardinalityType DEF CountCovers
<1>3. CASE Increment(h)
  <2>1. /\ count' = NextCount /\ admitted' = admitted
        /\ hit[h].pc = "count"
    BY <1>3 DEF Increment
  <2>2. PICK pc \in {"expire", "judge"} :
          hit' = [hit EXCEPT ![h] = [pc |-> pc, seen |-> NextCount, now |-> TRUE]]
    BY <1>3 DEF Increment
  <2>3. h \notin Passing
    BY <2>1 DEF Passing
  <2>4. CASE NextCount > Limit
    <3>1. Passing' \subseteq Passing
      BY <1>1, <2>2, <2>4 DEF Passing, NextCount
    <3>2. IsFiniteSet(Passing') /\ Cardinality(Passing') <= Cardinality(Passing)
      BY <1>2, <3>1, FS_Subset
    <3>3. Cardinality(Passing') \in Nat
      BY <3>2, FS_CardinalityType
    <3> QED
      BY <1>1, <1>2, <2>1, <3>2, <3>3 DEF CountCovers, NextCount
  <2>5. CASE NextCount <= Limit
    <3>1. Passing' = Passing \cup {h}
      BY <1>1, <2>2, <2>5 DEF Passing
    <3>2. IsFiniteSet(Passing') /\ Cardinality(Passing') = Cardinality(Passing) + 1
      BY <1>2, <2>3, <3>1, FS_AddElement
    <3>3. count' = count + 1
      BY <1>1, <2>1, <2>5 DEF NextCount
    <3> QED
      BY <1>1, <1>2, <2>1, <2>5, <3>2, <3>3 DEF CountCovers
  <2>6. NextCount \in Nat
    BY <1>1 DEF NextCount
  <2> QED
    BY <2>4, <2>5, <2>6
<1>4. CASE SetExpiry(h)
  <2>1. Passing' \subseteq Passing
    BY <1>1, <1>4 DEF SetExpiry, Passing
  <2> QED
    BY <1>4, <2>1, CoverShrinks DEF SetExpiry
<1>5. CASE RedisFails(h)
  <2>1. Passing' \subseteq Passing
    BY <1>1, <1>5 DEF RedisFails, Passing
  <2> QED
    BY <1>5, <2>1, CoverShrinks DEF RedisFails
<1>6. CASE Judge(h)
  <2>1. /\ hit[h].pc = "judge"
        /\ hit' = [hit EXCEPT ![h] = [Out EXCEPT !.pc = IF Refused(h) THEN "refused" ELSE "passed"]]
        /\ admitted' = IF Refused(h) \/ ~hit[h].now THEN admitted ELSE admitted + 1
        /\ count' = count
    BY <1>6 DEF Judge
  <2>2. Passing' = Passing \ {h}
    BY <1>1, <2>1 DEF Passing, Out
  <2>3. CASE Refused(h) \/ ~hit[h].now
    BY <2>1, <2>2, <2>3, CoverShrinks
  <2>4. CASE ~Refused(h) /\ hit[h].now
    <3>1. hit[h].seen \in Nat
      BY <1>1 DEF Hit
    <3>2. h \in Passing
      BY <2>1, <2>4, <3>1 DEF Passing, Refused
    <3>3. IsFiniteSet(Passing') /\ Cardinality(Passing') = Cardinality(Passing) - 1
      BY <1>2, <2>2, <3>2, FS_RemoveElement
    <3>4. admitted' = admitted + 1
      BY <2>1, <2>4
    <3> QED
      BY <1>1, <1>2, <2>1, <3>3, <3>4 DEF CountCovers
  <2> QED
    BY <2>3, <2>4
<1>7. CASE WindowEnds
  <2>1. Passing' = {} /\ count' = 0 /\ admitted' = 0
    BY <1>1, <1>7 DEF WindowEnds, Passing, Hit
  <2> QED
    BY <2>1, FS_EmptySet DEF CountCovers
<1> QED
  BY <1>3, <1>4, <1>5, <1>6, <1>7 DEF Limiting

\* A request that enters the limiter or leaves it.
LEMMA CoverPasses ==
  ASSUME LimiterTypeOK, CountCovers, NEW h \in Hitters, Enter(h) \/ Leave(h),
         UNCHANGED <<count, admitted>>
  PROVE  CountCovers'
<1>1. Passing' \subseteq Passing
  BY DEF LimiterTypeOK, Enter, Leave, Out, Passing
<1> QED
  BY <1>1, CoverShrinks

\* However many requests count at once, a window lets at most Limit through on their
\* count (rate_limit_service.py:48-58).
THEOREM NeverAboveLimit == Spec => []AtMostLimit
<1>1. Init => CountCovers
  <2> SUFFICES ASSUME Init PROVE CountCovers
    OBVIOUS
  <2>1. Passing = {} /\ count = 0 /\ admitted = 0
    BY DEF Init, LimiterInit, Passing, Out
  <2> QED
    BY <2>1, FS_EmptySet, LimitAssumption DEF CountCovers
<1>2. TypeOK /\ CountCovers /\ [Next]_vars => CountCovers'
  <2> SUFFICES ASSUME TypeOK, CountCovers, [Next]_vars PROVE CountCovers'
    OBVIOUS
  <2> USE CallAssumption, VisitorAssumption
  <2>1. LimiterTypeOK
    BY DEF TypeOK
  <2>2. ASSUME UNCHANGED <<count, hit, admitted>> PROVE CountCovers'
    <3>1. Passing' = Passing
      BY <2>2 DEF Passing
    <3> QED
      BY <2>1, <2>2, <3>1, CoverShrinks
  <2>3. ASSUME NEW h \in Hitters, Limiting(h) \/ RedisFails(h) PROVE CountCovers'
    BY <2>1, <2>3, CoverStep
  <2>4. CASE WindowEnds
    BY <2>1, <2>4, CoverStep, CallAssumption
  <2>5. ASSUME NEW v \in Visitors, NEW e \in Emails, StartRegister(v, e) PROVE CountCovers'
    BY <2>1, <2>5, CoverPasses DEF StartRegister
  <2>6. ASSUME NEW v \in Visitors, NEW e \in Emails, NEW s \in Subs, StartGoogle(v, e, s)
        PROVE  CountCovers'
    BY <2>2, <2>6 DEF StartGoogle, limiter
  <2>7. ASSUME NEW v \in Visitors, Visiting(v) PROVE CountCovers'
    <3>1. CASE VisitLimited(v)
      BY <2>1, <3>1, CoverPasses DEF VisitLimited
    <3>2. CASE LookForEmail(v) \/ LookForSubject(v) \/ Link(v) \/ Insert(v) \/ Collide(v)
      <4>1. UNCHANGED limiter
        BY <3>2 DEF LookForEmail, LookForSubject, Link, Insert, Collide
      <4> QED
        BY <2>2, <4>1 DEF limiter
    <3> QED
      BY <2>7, <3>1, <3>2 DEF Visiting
  <2>8. ASSUME NEW c \in Calls, NEW kind \in Kind, NEW e \in Owner, Send(c, kind, e)
        PROVE  CountCovers'
    <3>1. Enter(c) \/ hit' = hit
      BY <2>8 DEF Send
    <3>2. UNCHANGED <<count, admitted>>
      BY <2>8 DEF Send, quota
    <3> QED
      BY <2>1, <2>2, <3>1, <3>2, CoverPasses
  <2>9. ASSUME NEW c \in Calls, Calling(c) PROVE CountCovers'
    <3>1. CASE LoginLimited(c)
      BY <2>1, <3>1, CoverPasses DEF LoginLimited, quota
    <3>2. CASE Unauthorized(c)
      <4>1. Enter(Renewal) \/ UNCHANGED hit
        BY <3>2 DEF Unauthorized
      <4>2. UNCHANGED <<count, admitted>>
        BY <3>2 DEF Unauthorized, quota
      <4> QED
        BY <2>1, <2>2, <4>1, <4>2, CoverPasses
    <3>3. CASE LogIn(c) \/ LogInFails(c) \/ LogOut(c) \/ Succeed(c) \/ CallFails(c)
      <4>1. UNCHANGED <<count, hit, admitted>>
        BY <3>3 DEF LogIn, LogInFails, LogOut, Succeed, CallFails, limiter
      <4> QED
        BY <2>2, <4>1
    <3> QED
      BY <2>9, <3>1, <3>2, <3>3 DEF Calling
  <2>10. CASE RenewalLimited
    BY <2>1, <2>10, CoverPasses DEF RenewalLimited, quota
  <2>11. CASE Renewed \/ RenewalFails \/ ExpireAccess \/ ExpireRefresh \/ UNCHANGED vars
    <3>1. UNCHANGED <<count, hit, admitted>>
      BY <2>11 DEF Renewed, RenewalFails, ExpireAccess, ExpireRefresh, vars, limiter
    <3> QED
      BY <2>2, <3>1
  <2> QED
    BY <2>3, <2>4, <2>5, <2>6, <2>7, <2>8, <2>9, <2>10, <2>11 DEF Next
<1>3. TypeOK /\ CountCovers => AtMostLimit
  <2> SUFFICES ASSUME TypeOK, CountCovers PROVE AtMostLimit
    OBVIOUS
  <2>1. Cardinality(Passing) \in Nat
    BY FS_CardinalityType DEF CountCovers
  <2> QED
    BY <2>1, LimitAssumption DEF CountCovers, AtMostLimit, TypeOK, LimiterTypeOK
<1> QED
  BY <1>1, <1>2, <1>3, SessionsTypeCorrect, PTL DEF Spec

-----------------------------------------------------------------------------
\* A row stands behind every registration that succeeded and every sign-in with Google.
RowsBehind ==
  /\ \A e \in registered : users[e].exists
  /\ \A p \in proven : users[p[1]].exists
  /\ AccountsHold

\* A row, once it exists, keeps what these histories say of it.
LEMMA RowsKept ==
  ASSUME AccountsTypeOK, RowsBehind, UNCHANGED <<users, registered, proven>>
  PROVE  RowsBehind'
BY DEF RowsBehind, AccountsHold

LEMMA RowsStep ==
  ASSUME AccountsTypeOK, RowsBehind, NEW v \in Visitors,
         Visiting(v) \/ UNCHANGED <<users, registered, proven>>
  PROVE  RowsBehind'
<1> USE NoOneAssumption
<1>1. /\ users \in [Emails -> User] /\ registered \subseteq Emails
      /\ proven \subseteq Emails \X Subs
  BY DEF AccountsTypeOK
<1>2. CASE UNCHANGED <<users, registered, proven>>
  BY <1>2, RowsKept
<1>3. CASE VisitLimited(v) \/ LookForEmail(v) \/ Collide(v)
  <2>1. UNCHANGED <<users, registered, proven>>
    BY <1>3 DEF VisitLimited, LookForEmail, Collide
  <2> QED
    BY <2>1, RowsKept
<1>4. CASE LookForSubject(v)
  <2>1. UNCHANGED <<users, registered>>
    BY <1>4 DEF LookForSubject
  <2>2. CASE proven' = proven
    BY <2>1, <2>2, RowsKept
  <2>3. CASE proven' = proven \cup ((OwnersOf(visit[v].sub) \X {visit[v].sub}))
    <3>1. visit[v].sub # NoOne
      BY <1>4 DEF LookForSubject, ByGoogle
    <3>2. \A e \in OwnersOf(visit[v].sub) :
             e \in Emails /\ users[e].sub = visit[v].sub /\ users[e].exists
      BY <3>1 DEF OwnersOf, AccountsTypeOK, NoUser
    <3>3. \A p \in proven' : p \in proven \/ (users[p[1]].exists /\ users[p[1]].sub = p[2])
      BY <2>3, <3>2
    <3>4. proven \subseteq proven'
      BY <2>3
    <3> QED
      BY <2>1, <3>3, <3>4 DEF RowsBehind, AccountsHold
  <2> QED
    BY <1>4, <2>2, <2>3 DEF LookForSubject
<1>5. CASE Link(v)
  <2> DEFINE here == visit[v].email
  <2>1. here \in Emails /\ users[here].exists
    BY <1>5 DEF Link, AccountsTypeOK, Known
  <2>2. /\ users' = [users EXCEPT ![here].sub = visit[v].sub]
        /\ proven' = proven \cup {<<here, visit[v].sub>>}
        /\ registered' = registered
    BY <1>5 DEF Link
  <2>3. /\ users'[here].sub = visit[v].sub
        /\ \A e \in Emails : /\ users'[e].exists = users[e].exists
                             /\ users'[e].password = users[e].password
                             /\ e # here => users'[e] = users[e]
    BY <1>1, <2>1, <2>2 DEF User
  <2>4. \A e \in registered' : users'[e].exists /\ users'[e].password
    BY <1>1, <2>2, <2>3 DEF RowsBehind, AccountsHold
  <2>5. \A p \in proven' : users'[p[1]].exists
    BY <1>1, <2>1, <2>2, <2>3 DEF RowsBehind
  <2>6. ASSUME NEW p \in proven'
        PROVE  users'[p[1]].sub = p[2] \/ \E q \in proven' : q[1] = p[1] /\ q[2] # p[2]
    <3>1. <<here, visit[v].sub>> \in proven' /\ proven \subseteq proven'
      BY <2>2
    <3>2. CASE p[1] = here
      BY <2>3, <3>1, <3>2
    <3>3. CASE p[1] # here
      <4>1. p \in proven /\ p[1] \in Emails
        BY <1>1, <2>2, <3>3
      <4> QED
        BY <2>3, <3>1, <3>3, <4>1 DEF RowsBehind, AccountsHold
    <3> QED
      BY <3>2, <3>3
  <2> QED
    BY <2>4, <2>5, <2>6 DEF RowsBehind, AccountsHold
<1>6. CASE Insert(v)
  <2> DEFINE here == visit[v].email
  <2>1. here \in Emails /\ ~users[here].exists
    BY <1>6 DEF Insert, AccountsTypeOK, Known
  <2>2. users' = [users EXCEPT ![here] =
                    [exists |-> TRUE, password |-> ~ByGoogle(v), sub |-> visit[v].sub]]
    BY <1>6 DEF Insert, Create
  <2>3. /\ users'[here].exists /\ users'[here].sub = visit[v].sub
        /\ ~ByGoogle(v) => users'[here].password
        /\ \A e \in Emails : e # here => users'[e] = users[e]
    BY <1>1, <2>1, <2>2
  <2>4. here \notin registered /\ \A p \in proven : p[1] # here
    BY <2>1 DEF RowsBehind
  <2>5. CASE ByGoogle(v)
    <3>1. proven' = proven \cup {<<here, visit[v].sub>>} /\ registered' = registered
      BY <1>6, <2>5 DEF Insert, Create
    <3>2. \A e \in registered' : users'[e].exists /\ users'[e].password
      BY <1>1, <2>3, <2>4, <3>1 DEF RowsBehind, AccountsHold
    <3>3. \A p \in proven' : users'[p[1]].exists
      BY <1>1, <2>3, <2>4, <3>1 DEF RowsBehind
    <3>4. \A p \in proven' :
             users'[p[1]].sub = p[2] \/ \E q \in proven' : q[1] = p[1] /\ q[2] # p[2]
      BY <1>1, <2>3, <2>4, <3>1 DEF RowsBehind, AccountsHold
    <3> QED
      BY <3>2, <3>3, <3>4 DEF RowsBehind, AccountsHold
  <2>6. CASE ~ByGoogle(v)
    <3>1. registered' = registered \cup {here} /\ proven' = proven
      BY <1>6, <2>6 DEF Insert, Create
    <3>2. \A e \in registered' : users'[e].exists /\ users'[e].password
      BY <1>1, <2>3, <2>4, <2>6, <3>1 DEF RowsBehind, AccountsHold
    <3>3. \A p \in proven' : users'[p[1]].exists
      BY <1>1, <2>3, <2>4, <3>1 DEF RowsBehind
    <3>4. \A p \in proven' :
             users'[p[1]].sub = p[2] \/ \E q \in proven' : q[1] = p[1] /\ q[2] # p[2]
      BY <1>1, <2>3, <2>4, <3>1 DEF RowsBehind, AccountsHold
    <3> QED
      BY <3>2, <3>3, <3>4 DEF RowsBehind, AccountsHold
  <2> QED
    BY <2>5, <2>6
<1> QED
  BY <1>2, <1>3, <1>4, <1>5, <1>6 DEF Visiting

\* Whoever registers and signs in with Google at the same time, a registration that
\* reported success keeps its password, and a sign-in led to the account that carries its
\* subject, unless another subject came with the address (auth_service.py:124, :167-175).
THEOREM AccountsAlwaysHold == Spec => []AccountsHold
<1>1. Init => RowsBehind
  BY DEF Init, RowsBehind, AccountsHold
<1>2. TypeOK /\ RowsBehind /\ [Next]_vars => RowsBehind'
  <2> SUFFICES ASSUME TypeOK, RowsBehind, [Next]_vars PROVE RowsBehind'
    OBVIOUS
  <2>1. AccountsTypeOK
    BY DEF TypeOK
  <2>2. ASSUME UNCHANGED accounts PROVE RowsBehind'
    BY <2>1, <2>2, RowsKept DEF accounts
  <2>3. ASSUME NEW v \in Visitors, Visiting(v) PROVE RowsBehind'
    BY <2>1, <2>3, RowsStep
  <2>4. ASSUME NEW v \in Visitors, NEW e \in Emails, StartRegister(v, e) PROVE RowsBehind'
    BY <2>1, <2>4, RowsKept DEF StartRegister
  <2>5. ASSUME NEW v \in Visitors, NEW e \in Emails, NEW s \in Subs, StartGoogle(v, e, s)
        PROVE  RowsBehind'
    BY <2>1, <2>5, RowsKept DEF StartGoogle
  <2>6. ASSUME NEW c \in Calls, NEW kind \in Kind, NEW e \in Owner, Send(c, kind, e)
        PROVE  RowsBehind'
    BY <2>2, <2>6 DEF Send
  <2>7. ASSUME NEW c \in Calls, Calling(c) PROVE RowsBehind'
    <3>1. UNCHANGED accounts
      BY <2>7 DEF Calling, LoginLimited, LogIn, LogInFails, LogOut, Succeed, Unauthorized, CallFails
    <3> QED
      BY <2>2, <3>1
  <2>8. CASE RenewalLimited \/ Renewed \/ RenewalFails \/ ExpireAccess \/ ExpireRefresh
    <3>1. UNCHANGED accounts
      BY <2>8 DEF RenewalLimited, Renewed, RenewalFails, ExpireAccess, ExpireRefresh
    <3> QED
      BY <2>2, <3>1
  <2>9. CASE UNCHANGED vars
    BY <2>2, <2>9 DEF vars
  <2> QED
    BY <2>2, <2>3, <2>4, <2>5, <2>6, <2>7, <2>8, <2>9 DEF Next
<1> QED
  BY <1>1, <1>2, SessionsTypeCorrect, PTL DEF Spec, RowsBehind

-----------------------------------------------------------------------------
\* All that the tab holds, shows and carries in its requests is one account's, or nobody's,
\* and nobody's after a logout.
OneSession(e) ==
  /\ access \in {e, NoOne} /\ refresh \in {e, NoOne} /\ shown \in {e, NoOne}
  /\ left => e = NoOne
  /\ \A c \in Calls : call[c].pc # "idle" /\ ~Switches(call[c].kind) => call[c].owner \in {e, NoOne}
  /\ renewal.pc # "none" => renewal.owner \in {e, NoOne}

\* A login or a logout is the only request under way.
SwitchesAlone ==
  \A c \in Calls : call[c].pc # "idle" /\ Switches(call[c].kind) =>
    renewal.pc = "none" /\ \A d \in Calls : d # c => call[d].pc = "idle"

InOrder == (\E e \in Owner : OneSession(e)) /\ SwitchesAlone

\* What a step of the tab does to its calls: one of them changes, or goes idle.
LEMMA OrderedCall ==
  ASSUME TabTyped, InOrder, NEW c \in Calls, Calling(c)
  PROVE  InOrder'
<1> USE DEF InFlight
<1>1. PICK e \in Owner : OneSession(e)
  BY DEF InOrder
<1>2. call \in [Calls -> Call] /\ SwitchesAlone
  BY DEF TabTyped, InOrder
<1>3. ASSUME Return(c) PROVE /\ call'[c].pc = "idle" /\ \A d \in Calls \ {c} : call'[d] = call[d]
  BY <1>2, <1>3 DEF Return, Idle
<1>4. ASSUME Return(c), renewal' = renewal PROVE SwitchesAlone'
  BY <1>2, <1>3, <1>4 DEF SwitchesAlone
\* A login or logout that returns leaves nothing under way.
<1>5. ASSUME Return(c), renewal' = renewal, call[c].pc # "idle", Switches(call[c].kind)
      PROVE  renewal'.pc = "none" /\ \A d \in Calls : call'[d].pc = "idle"
  BY <1>2, <1>3, <1>5 DEF SwitchesAlone
<1>6. ASSUME Return(c), UNCHANGED <<access, refresh, renewal, left>>, shown' \in {e, NoOne}
      PROVE  OneSession(e)'
  BY <1>1, <1>3, <1>6 DEF OneSession
<1>7. CASE LoginLimited(c)
  <2>1. UNCHANGED <<access, refresh, shown, renewal, left>>
    BY <1>7 DEF LoginLimited
  <2>2. CASE Return(c)
    BY <1>1, <1>4, <1>6, <2>1, <2>2 DEF InOrder, OneSession
  <2>3. CASE call' = [call EXCEPT ![c].pc = "sent"]
    <3>1. /\ call'[c].kind = call[c].kind /\ call'[c].owner = call[c].owner
          /\ call[c].pc # "idle" /\ \A d \in Calls \ {c} : call'[d] = call[d]
      BY <1>2, <1>7, <2>3 DEF LoginLimited, Call
    <3>2. OneSession(e)'
      BY <1>1, <2>1, <3>1 DEF OneSession
    <3>3. SwitchesAlone'
      BY <1>2, <2>1, <3>1 DEF SwitchesAlone
    <3> QED
      BY <3>2, <3>3 DEF InOrder
  <2> QED
    BY <1>7, <2>2, <2>3 DEF LoginLimited
<1>8. CASE LogIn(c)
  <2>1. /\ access' = call[c].owner /\ refresh' = call[c].owner /\ shown' = call[c].owner
        /\ left' = FALSE /\ Return(c) /\ renewal' = renewal
        /\ call[c].pc # "idle" /\ Switches(call[c].kind)
    BY <1>8 DEF LogIn, SetCookies, Switches
  <2>2. PICK o \in Owner : o = call[c].owner
    BY <1>2 DEF Call
  <2>3. OneSession(o)'
    BY <1>5, <2>1, <2>2 DEF OneSession
  <2> QED
    BY <1>4, <2>1, <2>3 DEF InOrder
<1>9. CASE LogInFails(c)
  BY <1>1, <1>4, <1>6, <1>9 DEF LogInFails, InOrder, OneSession
<1>10. CASE LogOut(c)
  <2>1. /\ shown' = NoOne /\ Return(c) /\ renewal' = renewal
        /\ call[c].pc # "idle" /\ Switches(call[c].kind)
    BY <1>10 DEF LogOut, Switches
  <2>2. CASE call[c].owner # NoOne
    <3>1. access' = NoOne /\ refresh' = NoOne
      BY <1>10, <2>2 DEF LogOut, SetCookies
    <3>2. NoOne \in Owner
      BY DEF Owner
    <3>3. OneSession(NoOne)'
      BY <1>5, <2>1, <3>1 DEF OneSession
    <3> QED
      BY <1>4, <2>1, <3>2, <3>3 DEF InOrder
  <2>3. CASE call[c].owner = NoOne
    <3>1. UNCHANGED <<access, refresh, left>>
      BY <1>10, <2>3 DEF LogOut, KeepCookies
    <3> QED
      BY <1>4, <1>6, <2>1, <3>1 DEF InOrder
  <2> QED
    BY <2>2, <2>3
<1>11. CASE Succeed(c)
  <2>1. /\ UNCHANGED <<access, refresh, renewal, left>> /\ Return(c)
        /\ call[c].pc # "idle" /\ ~Switches(call[c].kind)
        /\ shown' \in {shown, call[c].owner}
    BY <1>11 DEF Succeed
  <2>2. shown' \in {e, NoOne}
    BY <1>1, <2>1 DEF OneSession
  <2> QED
    BY <1>4, <1>6, <2>1, <2>2 DEF InOrder
<1>12. CASE Unauthorized(c)
  <2>1. /\ UNCHANGED <<access, refresh, shown, left>>
        /\ call' = [call EXCEPT ![c].pc = "renewing"]
        /\ call[c].pc # "idle" /\ ~Switches(call[c].kind)
    BY <1>12 DEF Unauthorized
  <2>2. renewal' = renewal \/ renewal' = [pc |-> "limit", owner |-> refresh]
    BY <1>12 DEF Unauthorized
  <2>3. /\ call'[c].kind = call[c].kind /\ call'[c].owner = call[c].owner
        /\ \A d \in Calls \ {c} : call'[d] = call[d]
    BY <1>2, <2>1 DEF Call
  <2>4. OneSession(e)'
    <3>1. \A d \in Calls : call'[d].pc # "idle" /\ ~Switches(call'[d].kind)
                           => call'[d].owner \in {e, NoOne}
      BY <1>1, <2>1, <2>3 DEF OneSession
    <3>2. renewal'.pc # "none" => renewal'.owner \in {e, NoOne}
      BY <1>1, <2>2 DEF OneSession
    <3> QED
      BY <1>1, <2>1, <3>1, <3>2 DEF OneSession
  <2>5. \A d \in Calls : call[d].pc # "idle" => ~Switches(call[d].kind)
    BY <1>2, <2>1 DEF SwitchesAlone
  <2>6. SwitchesAlone'
    BY <2>1, <2>3, <2>5 DEF SwitchesAlone
  <2> QED
    BY <2>4, <2>6 DEF InOrder
<1>13. CASE CallFails(c)
  <2>1. /\ UNCHANGED <<access, refresh, renewal, left>> /\ Return(c)
        /\ shown' \in {shown, NoOne}
    BY <1>13 DEF CallFails
  <2>2. shown' \in {e, NoOne}
    BY <1>1, <2>1 DEF OneSession
  <2> QED
    BY <1>4, <1>6, <2>1, <2>2 DEF InOrder
<1> QED
  BY <1>7, <1>8, <1>9, <1>10, <1>11, <1>12, <1>13 DEF Calling

\* A call that the tab sends, unless it crosses another.
LEMMA OrderedSend ==
  ASSUME TabTyped, InOrder, NEW c \in Calls, NEW kind \in Kind, NEW email \in Owner,
         Send(c, kind, email), ~crossed'
  PROVE  InOrder'
<1>1. PICK e \in Owner : OneSession(e)
  BY DEF InOrder
<1>2. call \in [Calls -> Call] /\ SwitchesAlone
  BY DEF TabTyped, InOrder
<1>3. ~Crossing(kind) /\ UNCHANGED <<access, refresh, shown, renewal, left>> /\ call[c].pc = "idle"
  BY DEF Send, Busy
<1>4. call'[c].kind = kind /\ (~Switches(kind) => call'[c].owner = access)
  <2>1. CASE kind = "login"
    BY <1>2, <2>1 DEF Send, Switches
  <2>2. CASE kind # "login"
    BY <1>2, <2>2 DEF Send
  <2> QED
    BY <2>1, <2>2
<1>5. \A d \in Calls \ {c} : call'[d] = call[d]
  BY <1>2 DEF Send
<1>6. OneSession(e)'
  <2>1. ~Switches(call'[c].kind) => call'[c].owner \in {e, NoOne}
    BY <1>1, <1>4 DEF OneSession
  <2> QED
    BY <1>1, <1>3, <1>5, <2>1 DEF OneSession
<1>7. \A d \in Calls : call[d].pc # "idle" => ~Switches(call[d].kind)
  BY <1>3 DEF Crossing, Busy
<1>8. Switches(kind) => renewal.pc = "none" /\ \A d \in Calls : call[d].pc = "idle"
  BY <1>3 DEF Crossing, Busy
<1>9. SwitchesAlone'
  BY <1>3, <1>4, <1>5, <1>7, <1>8 DEF SwitchesAlone
<1> QED
  BY <1>6, <1>9 DEF InOrder

\* The renewal's steps and the expiries.
LEMMA OrderedRenewal ==
  ASSUME TabTyped, InOrder,
         \/ RenewalLimited \/ Renewed \/ RenewalFails
         \/ ExpireAccess \/ ExpireRefresh
         \/ UNCHANGED browser
  PROVE  InOrder'
<1>1. PICK e \in Owner : OneSession(e)
  BY DEF InOrder
<1>2. call \in [Calls -> Call] /\ SwitchesAlone
  BY DEF TabTyped, InOrder
<1>3. ASSUME Drop, UNCHANGED <<access, refresh, left>> PROVE InOrder'
  <2>1. renewal'.pc = "none" /\ shown' = NoOne
    BY <1>3 DEF Drop, NoRenew
  <2>2. \A c \in Calls : call'[c].pc = "idle" \/ call'[c] = call[c]
    BY <1>2, <1>3 DEF Drop, Idle
  <2>3. OneSession(e)'
    BY <1>1, <1>3, <2>1, <2>2 DEF OneSession
  <2>4. SwitchesAlone'
    BY <1>2, <2>1, <2>2 DEF SwitchesAlone
  <2> QED
    BY <2>3, <2>4 DEF InOrder
<1>4. CASE RenewalLimited
  <2>1. UNCHANGED <<access, refresh, left>> /\ renewal.pc = "limit"
    BY <1>4 DEF RenewalLimited
  <2>2. CASE renewal' = [renewal EXCEPT !.pc = "sent"] /\ UNCHANGED <<shown, call>>
    <3>1. renewal'.owner = renewal.owner /\ renewal.pc # "none"
      BY <2>1, <2>2 DEF TabTyped, Renew
    <3>2. OneSession(e)'
      BY <1>1, <2>1, <2>2, <3>1 DEF OneSession
    <3>3. SwitchesAlone'
      BY <1>2, <2>2, <3>1 DEF SwitchesAlone
    <3> QED
      BY <3>2, <3>3 DEF InOrder
  <2> QED
    BY <1>3, <1>4, <2>1, <2>2 DEF RenewalLimited
<1>5. CASE Renewed
  <2>1. /\ access' = renewal.owner /\ refresh' = renewal.owner /\ renewal' = NoRenew
        /\ UNCHANGED <<shown, left>> /\ renewal.pc # "none"
    BY <1>5 DEF Renewed, SetCookies
  <2>2. renewal.owner \in {e, NoOne}
    BY <1>1, <2>1 DEF OneSession
  <2>3. \A c \in Calls : IF c \in Waiting
                           THEN /\ call'[c].owner = renewal.owner /\ call'[c].kind = call[c].kind
                                /\ call[c].pc # "idle"
                         ELSE call'[c] = call[c]
    BY <1>2, <1>5 DEF Renewed, Waiting, Call
  <2>4. OneSession(e)'
    BY <1>1, <2>1, <2>2, <2>3 DEF OneSession, NoRenew
  <2>5. \A c \in Calls : call'[c].pc # "idle" /\ Switches(call'[c].kind)
                         => call[c].pc # "idle" /\ Switches(call[c].kind)
    BY <2>3
  <2>6. \A c \in Calls : call[c].pc # "idle" => ~Switches(call[c].kind)
    BY <1>2, <2>1 DEF SwitchesAlone
  <2>7. SwitchesAlone'
    BY <2>5, <2>6 DEF SwitchesAlone
  <2> QED
    BY <2>4, <2>7 DEF InOrder
<1>6. CASE RenewalFails
  BY <1>3, <1>6 DEF RenewalFails
<1>7. CASE ExpireAccess \/ ExpireRefresh \/ UNCHANGED browser
  <2>1. /\ UNCHANGED <<shown, call, renewal, left>>
        /\ access' \in {access, NoOne} /\ refresh' \in {refresh, NoOne}
    BY <1>7 DEF ExpireAccess, ExpireRefresh, browser
  <2>2. OneSession(e)'
    BY <1>1, <2>1 DEF OneSession
  <2>3. SwitchesAlone'
    BY <1>2, <2>1 DEF SwitchesAlone
  <2> QED
    BY <2>2, <2>3 DEF InOrder
<1> QED
  BY <1>4, <1>5, <1>6, <1>7

\* The tab shows the user whose session the browser holds, and a logout that worked leaves
\* no session behind, unless a login or logout overlapped another request of the tab
\* (AuthContext.tsx:49-77, client.ts:93-102).
THEOREM TabAlwaysShowsSession == Spec => []TabShowsSession
<1> DEFINE Kept == crossed \/ InOrder
<1>1. Init => Kept
  <2> SUFFICES ASSUME Init PROVE InOrder
    OBVIOUS
  <2>1. OneSession(NoOne)
    BY DEF Init, OneSession, Idle, NoRenew
  <2>2. SwitchesAlone
    BY DEF Init, SwitchesAlone, Idle, NoRenew
  <2> QED
    BY <2>1, <2>2 DEF InOrder, Owner
<1>2. TypeOK /\ Kept /\ [Next]_vars => Kept'
  <2> SUFFICES ASSUME TypeOK, Kept, [Next]_vars, ~crossed' PROVE InOrder'
    OBVIOUS
  <2>1. TabTyped
    BY TypeOKParts
  <2>2. ASSUME UNCHANGED browser PROVE InOrder'
    BY <2>1, <2>2, OrderedRenewal DEF browser
  <2>3. ASSUME NEW c \in Calls, NEW kind \in Kind, NEW e \in Owner, Send(c, kind, e)
        PROVE  InOrder'
    <3>1. ~crossed
      BY <2>3 DEF Send
    <3> QED
      BY <2>1, <2>3, <3>1, OrderedSend
  <2>4. ASSUME NEW c \in Calls, Calling(c) PROVE InOrder'
    <3>1. crossed' = crossed
      BY <2>4 DEF Calling, LoginLimited, LogIn, LogInFails, LogOut, Succeed, Unauthorized, CallFails
    <3> QED
      BY <2>1, <2>4, <3>1, OrderedCall
  <2>5. CASE RenewalLimited \/ Renewed \/ RenewalFails \/ ExpireAccess \/ ExpireRefresh
    <3>1. crossed' = crossed
      BY <2>5 DEF RenewalLimited, Renewed, RenewalFails, ExpireAccess, ExpireRefresh
    <3> QED
      BY <2>1, <2>5, <3>1, OrderedRenewal
  <2>6. CASE UNCHANGED vars
    BY <2>2, <2>6 DEF vars
  <2> QED
    BY <2>2, <2>3, <2>4, <2>5, <2>6 DEF Next
<1>3. Kept => TabShowsSession
  BY DEF InOrder, OneSession, TabShowsSession
<1> QED
  BY <1>1, <1>2, <1>3, SessionsTypeCorrect, PTL DEF Spec
=============================================================================
