------------------------------ MODULE Accounts ------------------------------
(***************************************************************************)
(* Accounts: registration with a password and sign-in with Google, which   *)
(* finds, links or creates an account.  Each request reads, decides and    *)
(* writes; only the unique constraints on email and google_sub stand       *)
(* between two that do so at once.                                         *)
(***************************************************************************)
EXTENDS RateLimit

CONSTANTS
  Visitors,  \* requests that register or come back from Google
  Emails,    \* addresses, which identify accounts here
  Subs,      \* Google's subject ids
  NoOne      \* no address, no subject

ASSUME NoOneAssumption == NoOne \notin Emails \cup Subs
ASSUME VisitorAssumption == Visitors \subseteq Hitters

VARIABLES
  users,      \* by email: whether the row exists, its password and its google_sub
  visit,      \* what each visitor is doing
  registered, \* history: addresses whose registration reported success
  proven      \* history: address and subject pairs of the sign-ins with Google

-----------------------------------------------------------------------------
User     == [exists : BOOLEAN, password : BOOLEAN, sub : Subs \cup {NoOne}]
NoUser   == [exists |-> FALSE, password |-> FALSE, sub |-> NoOne]
VisitPC  == {"new", "limit", "look", "insert", "link", "done"}
Visit    == [pc : VisitPC, email : Emails \cup {NoOne}, sub : Subs \cup {NoOne}]
NewVisit == [pc |-> "new", email |-> NoOne, sub |-> NoOne]

Known(email)    == users[email].exists
OwnersOf(sub)   == {e \in Emails : users[e].sub = sub}
End(v)          == visit' = [visit EXCEPT ![v] = [NewVisit EXCEPT !.pc = "done"]]
ByGoogle(v)     == visit[v].sub # NoOne

\* POST /auth/register, which is limited first.
StartRegister(v, email) ==
  /\ visit[v].pc = "new"
  /\ visit' = [visit EXCEPT ![v] = [NewVisit EXCEPT !.pc = "limit", !.email = email]]
  /\ Enter(v)
  /\ UNCHANGED <<users, registered, proven, count, expires, admitted, endless, faults>>

\* GET /auth/google/callback with claims that Google has verified.
StartGoogle(v, email, sub) ==
  /\ visit[v].pc = "new"
  /\ visit' = [visit EXCEPT ![v] = [pc |-> "look", email |-> email, sub |-> sub]]
  /\ UNCHANGED <<users, registered, proven, limiter>>

VisitLimited(v) ==
  /\ visit[v].pc = "limit"
  /\ \/ hit[v].pc = "passed" /\ visit' = [visit EXCEPT ![v].pc = "look"]
     \/ hit[v].pc = "refused" /\ End(v)
  /\ Leave(v)
  /\ UNCHANGED <<users, registered, proven, count, expires, admitted, endless, faults>>

\* Registration looks for the address.
LookForEmail(v) ==
  /\ visit[v].pc = "look" /\ ~ByGoogle(v)
  /\ IF Known(visit[v].email) THEN End(v)
     ELSE visit' = [visit EXCEPT ![v].pc = "insert"]
  /\ UNCHANGED <<users, registered, proven, limiter>>

\* Google sign-in looks for the subject, then for the address.
LookForSubject(v) ==
  /\ visit[v].pc = "look" /\ ByGoogle(v)
  /\ \/ /\ OwnersOf(visit[v].sub) # {}
        /\ End(v)
        /\ proven' = proven \cup ((OwnersOf(visit[v].sub) \X {visit[v].sub}))
     \/ /\ OwnersOf(visit[v].sub) = {}
        /\ visit' = [visit EXCEPT ![v].pc = IF Known(visit[v].email) THEN "link" ELSE "insert"]
        /\ proven' = proven
  /\ UNCHANGED <<users, registered, limiter>>

\* The subject is attached to the account with that address.
Link(v) ==
  /\ visit[v].pc = "link"
  /\ OwnersOf(visit[v].sub) \subseteq {visit[v].email}
  /\ users' = [users EXCEPT ![visit[v].email].sub = visit[v].sub]
  /\ proven' = proven \cup {<<visit[v].email, visit[v].sub>>}
  /\ End(v)
  /\ UNCHANGED <<registered, limiter>>

Create(v) ==
  /\ users' = [users EXCEPT ![visit[v].email] =
                 [exists |-> TRUE, password |-> ~ByGoogle(v), sub |-> visit[v].sub]]
  /\ IF ByGoogle(v)
       THEN proven' = proven \cup {<<visit[v].email, visit[v].sub>>} /\ UNCHANGED registered
     ELSE registered' = registered \cup {visit[v].email} /\ UNCHANGED proven

\* Variant with a bug: a registration overwrites the account it collides with.
InsertOrReplace(v) ==
  /\ visit[v].pc = "insert"
  /\ Create(v)
  /\ End(v)
  /\ UNCHANGED limiter

\* A new account.
Insert(v) ==
  /\ visit[v].pc = "insert"
  /\ ~Known(visit[v].email)
  /\ ByGoogle(v) => OwnersOf(visit[v].sub) = {}
  /\ Create(v)
  /\ End(v)
  /\ UNCHANGED limiter

\* A unique constraint refuses the write: an error 500.
Collide(v) ==
  /\ \/ visit[v].pc = "insert" /\ (Known(visit[v].email)
                                   \/ (ByGoogle(v) /\ OwnersOf(visit[v].sub) # {}))
     \/ visit[v].pc = "link" /\ ~(OwnersOf(visit[v].sub) \subseteq {visit[v].email})
  /\ End(v)
  /\ UNCHANGED <<users, registered, proven, limiter>>

Visiting(v) ==
  \/ VisitLimited(v) \/ LookForEmail(v) \/ LookForSubject(v) \/ Link(v) \/ Insert(v) \/ Collide(v)

AccountsTypeOK ==
  /\ users \in [Emails -> User]
  /\ \A e \in Emails : ~users[e].exists => users[e] = NoUser
  /\ visit \in [Visitors -> Visit]
  /\ \A v \in Visitors : visit[v].pc \notin {"new", "done"} => visit[v].email \in Emails
  /\ \A v \in Visitors : visit[v].pc = "link" => ByGoogle(v) /\ Known(visit[v].email)
  /\ registered \subseteq Emails /\ proven \subseteq Emails \X Subs

\* Whoever registers and signs in with Google at the same time, two people or one: a
\* registration that reported success keeps its password, so its owner can log in, and
\* a sign-in with Google led to the account that carries its subject, unless another
\* subject came with the same address since (auth_service.py:124, :167-175).
AccountsHold ==
  /\ \A e \in registered : users[e].password
  /\ \A p \in proven :
       \/ users[p[1]].sub = p[2]
       \/ \E q \in proven : q[1] = p[1] /\ q[2] # p[2]
=============================================================================
