----------------------------- MODULE AuthContract -----------------------------
(***************************************************************************)
(* What internal/pkg/auth promises, with no queries in it: whatever a      *)
(* request does to the users, their accounts and their sessions it does in *)
(* one step, the last it takes. AuthIdentity implements it.                *)
(*                                                                         *)
(*   - a login stands for the user who owned the authenticated account at  *)
(*     one moment of it, or for a new user who gets the account together   *)
(*     with its id; it opens one session, for that user;                   *)
(*   - the other requests act for a user whose session was live when they  *)
(*     came in: a link adds one account nobody has, an unlink takes away   *)
(*     one of that user's, a logout ends one session;                      *)
(*   - a request that is over, answered or not, has no effect any more.    *)
(***************************************************************************)
CONSTANTS Logins, Links, Unlinks, Logouts, Accounts, ProviderOf, UserIds, None

VARIABLES users, owner, session,
          asked,  \* the account, provider or session a request is about
          actor,  \* the user it acts for
          over    \* the requests that have ended

contractVars == <<users, owner, session, asked, actor, over>>

ContractInit ==
  /\ users = {} /\ over = {}
  /\ owner = [a \in Accounts |-> None]
  /\ session = [l \in Logins |-> None]
  /\ asked = [r \in Logins \cup Links \cup Unlinks \cup Logouts |-> None]
  /\ actor = asked

(* The last step of a request.                                             *)
Ends(r) == over' = over \cup {r}

(* A request comes in, about one of S; it may be turned away at once.      *)
Asks(r, S) ==
  /\ asked'[r] \in S /\ asked' = [asked EXCEPT ![r] = asked'[r]]
  /\ UNCHANGED over \/ Ends(r)
  /\ UNCHANGED <<users, owner, session>>

(* It comes with the cookie of session l.                                  *)
ActsFor(r, l) ==
  /\ session[l] # None
  /\ actor' = [actor EXCEPT ![r] = session[l]]

Grant(r) ==
  /\ actor[r] = None /\ owner[asked[r]] # None
  /\ actor' = [actor EXCEPT ![r] = owner[asked[r]]]
  /\ UNCHANGED <<users, owner, session, asked, over>>

(* The user may be there although its login was told of a failure.         *)
SignUp(r, u) ==
  /\ actor[r] = None /\ owner[asked[r]] = None
  /\ u \notin users
  /\ users' = users \cup {u}
  /\ owner' = [owner EXCEPT ![asked[r]] = u]
  /\ \/ actor' = [actor EXCEPT ![r] = u] /\ UNCHANGED over
     \/ Ends(r) /\ UNCHANGED actor
  /\ UNCHANGED <<session, asked>>

SignIn(r) ==
  /\ actor[r] # None
  /\ session' = [session EXCEPT ![r] = actor[r]]
  /\ Ends(r)
  /\ UNCHANGED <<users, owner, asked, actor>>

Has(u, p) == \E a \in Accounts : owner[a] = u /\ ProviderOf[a] = p

Attach(r) ==
  /\ owner[asked[r]] = None /\ ~Has(actor[r], ProviderOf[asked[r]])
  /\ owner' = [owner EXCEPT ![asked[r]] = actor[r]]
  /\ Ends(r)
  /\ UNCHANGED <<users, session, asked, actor>>

Detach(r, a) ==
  /\ owner[a] = actor[r] /\ ProviderOf[a] = asked[r]
  /\ owner' = [owner EXCEPT ![a] = None]
  /\ Ends(r)
  /\ UNCHANGED <<users, session, asked, actor>>

SignOut(r) ==
  /\ session' = [session EXCEPT ![asked[r]] = None]
  /\ Ends(r)
  /\ UNCHANGED <<users, owner, asked, actor>>

(* Refused, failed, or nothing left to do.                                 *)
End(r) ==
  /\ UNCHANGED <<users, owner, session, asked, actor>>
  /\ Ends(r)

Expire(l) ==
  /\ session[l] # None
  /\ session' = [session EXCEPT ![l] = None]
  /\ UNCHANGED <<users, owner, asked, actor, over>>

NotAsked(r) == asked[r] = None
UnderWay(r) == asked[r] # None /\ r \notin over

Providers == {ProviderOf[a] : a \in Accounts}

ContractNext ==
  \/ \E r \in Logins :
       \/ NotAsked(r) /\ Asks(r, Accounts) /\ UNCHANGED actor
       \/ UnderWay(r) /\ (Grant(r) \/ SignIn(r) \/ End(r) \/ \E u \in UserIds : SignUp(r, u))
  \/ \E r \in Links :
       \/ NotAsked(r) /\ Asks(r, Accounts) /\ \E l \in Logins : ActsFor(r, l)
       \/ UnderWay(r) /\ (Attach(r) \/ End(r))
  \/ \E r \in Unlinks :
       \/ NotAsked(r) /\ Asks(r, Providers) /\ \E l \in Logins : ActsFor(r, l)
       \/ UnderWay(r) /\ (End(r) \/ \E a \in Accounts : Detach(r, a))
  \/ \E r \in Logouts :
       \/ NotAsked(r) /\ \E l \in Logins : Asks(r, {l}) /\ ActsFor(r, l)
       \/ UnderWay(r) /\ (SignOut(r) \/ End(r))
  \/ \E l \in Logins : Expire(l)

ContractSpec == ContractInit /\ [][ContractNext]_contractVars
=============================================================================
