----------------------------- MODULE AuthIdentity -----------------------------
(***************************************************************************)
(* Users, the provider accounts linked to them and their sessions:         *)
(* internal/pkg/auth and the login_required middleware.                    *)
(*                                                                         *)
(* A request is one HTTP request being handled, and one step of it is one  *)
(* query to PostgreSQL or Redis: nothing but the database makes two of     *)
(* them atomic. A query that writes may take effect and still be reported  *)
(* as failed (its answer lost), or fail without effect; the handler gives  *)
(* up either way, as it does when the process dies between two queries.    *)
(*                                                                         *)
(* Left out, as no decision reads them: display names, avatars, e-mails    *)
(* and time stamps, the two best-effort updates (UpdateLastUsed,           *)
(* UpdateLastLoginAt), and user.status, which nothing in the code changes  *)
(* from "active". What a provider replies is an input.                     *)
(***************************************************************************)
CONSTANTS
  Logins, Links, Unlinks, Logouts,  \* the requests, by endpoint
  Accounts,                         \* what a provider can authenticate: the
                                    \* empty id of a reply without one, too
  ProviderOf,                       \* the provider of each account
  UserIds,                          \* bound: ids CreateUser may hand out
  None

Requests  == Logins \cup Links \cup Unlinks \cup Logouts
Providers == {ProviderOf[a] : a \in Accounts}

ASSUME RequestsAssumption ==
  /\ Logins \cap Links = {} /\ Logins \cap Unlinks = {} /\ Logins \cap Logouts = {}
  /\ Links \cap Unlinks = {} /\ Links \cap Logouts = {} /\ Unlinks \cap Logouts = {}
ASSUME NoneAssumption == None \notin UserIds \cup Accounts \cup Providers \cup Logins

VARIABLES
  users,    \* public.user: the ids committed
  owner,    \* public.user_identity: the user of each account, or None
  session,  \* Redis: the user in the snapshot a login stored, or None
  pc,       \* the next query of each request
  arg,      \* its account (Logins, Links), provider (Unlinks) or session (Logouts)
  user      \* the user it works for, once known

dbVars == <<users, owner, session>>
vars   == <<users, owner, session, pc, arg, user>>

Identities(u) == {a \in Accounts : owner[a] = u}
OfProvider(u, p) == {a \in Identities(u) : ProviderOf[a] = p}
Several(S) == \E x, y \in S : x # y

Labels == {"idle", "find", "getuser", "create", "again", "session", "insert",
           "list", "delete", "check", "del", "ok", "refused", "failed"}

TypeOK ==
  /\ users \subseteq UserIds
  /\ owner \in [Accounts -> users \cup {None}]
  /\ session \in [Logins -> users \cup {None}]
  /\ pc \in [Requests -> Labels]
  /\ arg \in [Requests -> Accounts \cup Providers \cup Logins \cup {None}]
  /\ user \in [Requests -> users \cup {None}]

Init ==
  /\ users = {}
  /\ owner = [a \in Accounts |-> None]
  /\ session = [l \in Logins |-> None]
  /\ pc = [r \in Requests |-> "idle"]
  /\ arg = [r \in Requests |-> None]
  /\ user = [r \in Requests |-> None]

-----------------------------------------------------------------------------
(* Helpers.                                                                *)

Goto(r, l) == pc' = [pc EXCEPT ![r] = l]

(* A query that read nothing the request can use, or that failed.          *)
GiveUp(r, l) == Goto(r, l) /\ UNCHANGED <<dbVars, arg, user>>

(* INSERT INTO user_identity, under UNIQUE (provider, provider_user_id)    *)
(* and UNIQUE (user_id, provider).                                         *)
Insertable(a, u) == owner[a] = None /\ OfProvider(u, ProviderOf[a]) = {}
Insert(a, u) == owner' = [owner EXCEPT ![a] = u]

(* LoginRequiredMiddleware: the request carries the cookie of a login that *)
(* was answered, and Redis still holds the session.                        *)
LoginRequired(l) == pc[l] = "ok" /\ session[l] # None

(* Operators named *Bug are variants of the one they precede with one      *)
(* plausible mistake, as in TableSession. No specification uses them.      *)

-----------------------------------------------------------------------------
(* The providers: a code is exchanged for tokens, and these for a profile. *)

ProviderReplies == {"none", "other status", "not JSON", "an object"}

exchangeCode(reply) == reply = "an object"

getUserInfo(reply) == reply = "an object"

(* Every way it can fail ends the request before its first query. Nothing  *)
(* says how long a reply may take.                                         *)
Authenticate(tokens, profile) == exchangeCode(tokens) /\ getUserInfo(profile)

Outcomes == {Authenticate(tokens, profile) : tokens, profile \in ProviderReplies}

Authenticated(r) == \E known \in Outcomes : Goto(r, IF known THEN "find" ELSE "failed")

-----------------------------------------------------------------------------
(* Login.                                                                  *)

(* The code is one for account a; nothing asks whether the profile has an  *)
(* id, and without one a is the account with the empty id.                 *)
Login(r, a) ==
  /\ pc[r] = "idle"
  /\ Authenticated(r)
  /\ arg' = [arg EXCEPT ![r] = a]
  /\ UNCHANGED <<dbVars, user>>

(* FindByProvider: any error of the query reads as "identity not found".   *)
FindIdentity(r) ==
  /\ pc[r] = "find"
  /\ \/ /\ owner[arg[r]] # None
        /\ user' = [user EXCEPT ![r] = owner[arg[r]]]
        /\ Goto(r, "getuser")
     \/ Goto(r, "create") /\ UNCHANGED user
  /\ UNCHANGED <<dbVars, arg>>

(* GetUserByID and, if the provider's profile differs, UpdateUser.         *)
GetUser(r) ==
  /\ pc[r] = "getuser"
  /\ \E l \in {"session", "failed"} : GiveUp(r, l)

(* The user and its identity are two transactions.                         *)
CreateUserWithIdentityBug(r) ==
  /\ pc[r] = "create"
  /\ \/ \E u \in UserIds \ users :
          /\ users' = users \cup {u}
          /\ user' = [user EXCEPT ![r] = u]
          /\ IF owner[arg[r]] = None
             THEN Insert(arg[r], u) /\ Goto(r, "session")
             ELSE UNCHANGED owner /\ Goto(r, "again")
          /\ UNCHANGED <<session, arg>>
     \/ GiveUp(r, "failed")

(* One transaction: a new user and its identity. ON CONFLICT DO NOTHING    *)
(* waits for a concurrent insert of the account; if that one committed,    *)
(* nothing is inserted and the transaction is rolled back.                 *)
CreateUserWithIdentity(r) ==
  /\ pc[r] = "create"
  /\ \/ \E u \in UserIds \ users :
          /\ owner[arg[r]] = None
          /\ users' = users \cup {u}
          /\ Insert(arg[r], u)
          /\ \/ Goto(r, "session") /\ user' = [user EXCEPT ![r] = u]
             \/ Goto(r, "failed") /\ UNCHANGED user
          /\ UNCHANGED <<session, arg>>
     \/ owner[arg[r]] # None /\ GiveUp(r, "again")
     \/ GiveUp(r, "failed")

(* The user whose transaction was rolled back is kept as the login's.      *)
FindAgainBug(r) ==
  /\ pc[r] = "again"
  /\ \E u \in UserIds \ users : user' = [user EXCEPT ![r] = u]
  /\ Goto(r, "getuser")
  /\ UNCHANGED <<dbVars, arg>>

(* FindByProvider after a lost race. The account may be unlinked again by  *)
(* now: the login fails. GetUserByID follows, without UpdateUser.          *)
FindAgain(r) ==
  /\ pc[r] = "again"
  /\ \/ /\ owner[arg[r]] # None
        /\ user' = [user EXCEPT ![r] = owner[arg[r]]]
        /\ Goto(r, "getuser")
        /\ UNCHANGED <<dbVars, arg>>
     \/ GiveUp(r, "failed")

(* sessionManager.CreateSession, then the answer that carries the cookie.  *)
OpenSession(r) ==
  /\ pc[r] = "session"
  /\ \/ /\ session' = [session EXCEPT ![r] = user[r]]
        /\ Goto(r, "ok") \/ Goto(r, "failed")
        /\ UNCHANGED <<users, owner, arg, user>>
     \/ GiveUp(r, "failed")

LoginStep(r) ==
  \/ FindIdentity(r) \/ GetUser(r) \/ CreateUserWithIdentity(r) \/ FindAgain(r)
  \/ OpenSession(r)

-----------------------------------------------------------------------------
(* LinkIdentity.                                                           *)

Link(r, l, a) ==
  /\ pc[r] = "idle" /\ LoginRequired(l)
  /\ user' = [user EXCEPT ![r] = session[l]]
  /\ arg' = [arg EXCEPT ![r] = a]
  /\ Authenticated(r)
  /\ UNCHANGED dbVars

(* FindByProvider: linked already, to this user or to another; or not      *)
(* found, or the query failed.                                             *)
FindExisting(r) ==
  /\ pc[r] = "find"
  /\ \/ owner[arg[r]] = user[r] /\ GiveUp(r, "ok")
     \/ owner[arg[r]] \notin {user[r], None} /\ GiveUp(r, "refused")
     \/ GiveUp(r, "insert")

(* The account is taken over from whoever has it by now.                   *)
CreateIdentityUpsertBug(r) ==
  /\ pc[r] = "insert"
  /\ Insert(arg[r], user[r])
  /\ Goto(r, "ok")
  /\ UNCHANGED <<users, session, arg, user>>

(* No constraint keeps a user from two accounts of one provider.           *)
CreateIdentityBug(r) ==
  /\ pc[r] = "insert"
  /\ \/ /\ owner[arg[r]] = None
        /\ Insert(arg[r], user[r])
        /\ Goto(r, "ok")
        /\ UNCHANGED <<users, session, arg, user>>
     \/ owner[arg[r]] # None /\ GiveUp(r, "refused")

(* CreateIdentity: a conflict on either constraint is an error.            *)
CreateIdentity(r) ==
  /\ pc[r] = "insert"
  /\ \/ /\ Insertable(arg[r], user[r])
        /\ Insert(arg[r], user[r])
        /\ Goto(r, "ok") \/ Goto(r, "failed")
        /\ UNCHANGED <<users, session, arg, user>>
     \/ ~Insertable(arg[r], user[r]) /\ GiveUp(r, "refused")
     \/ GiveUp(r, "failed")

LinkStep(r) == FindExisting(r) \/ CreateIdentity(r)

-----------------------------------------------------------------------------
(* UnlinkIdentity.                                                         *)

Unlink(r, l, p) ==
  /\ pc[r] = "idle" /\ LoginRequired(l)
  /\ user' = [user EXCEPT ![r] = session[l]]
  /\ arg' = [arg EXCEPT ![r] = p]
  /\ Goto(r, "list")
  /\ UNCHANGED dbVars

(* The last identity passes the check.                                     *)
ListIdentitiesBug(r) ==
  /\ pc[r] = "list"
  /\ \/ Identities(user[r]) # {} /\ GiveUp(r, "delete")
     \/ GiveUp(r, "refused")

(* ListByUserID, and LastIdentityError unless there are two identities.    *)
ListIdentities(r) ==
  /\ pc[r] = "list"
  /\ \/ Several(Identities(user[r])) /\ GiveUp(r, "delete")
     \/ GiveUp(r, "refused")

(* DeleteByUserAndProvider, with no look at what the list said.            *)
DeleteIdentity(r) ==
  /\ pc[r] = "delete"
  /\ LET gone == OfProvider(user[r], arg[r]) IN
     \/ /\ gone # {}
        /\ owner' = [a \in Accounts |-> IF a \in gone THEN None ELSE owner[a]]
        /\ Goto(r, "ok") \/ Goto(r, "failed")
        /\ UNCHANGED <<users, session, arg, user>>
     \/ GiveUp(r, "failed")

UnlinkStep(r) == ListIdentities(r) \/ DeleteIdentity(r)

-----------------------------------------------------------------------------
(* Logout, and Redis.                                                      *)

Logout(r, l) ==
  /\ pc[r] = "idle" /\ LoginRequired(l)
  /\ user' = [user EXCEPT ![r] = session[l]]
  /\ arg' = [arg EXCEPT ![r] = l]
  /\ Goto(r, "check")
  /\ UNCHANGED dbVars

(* RemoveSession looks for the session before it deletes it.               *)
CheckSession(r) ==
  /\ pc[r] = "check"
  /\ \/ session[arg[r]] # None /\ GiveUp(r, "del")
     \/ GiveUp(r, "failed")

RemoveSession(r) ==
  /\ pc[r] = "del"
  /\ \/ /\ session' = [session EXCEPT ![arg[r]] = None]
        /\ Goto(r, "ok") \/ Goto(r, "failed")
        /\ UNCHANGED <<users, owner, arg, user>>
     \/ GiveUp(r, "failed")

LogoutStep(r) == CheckSession(r) \/ RemoveSession(r)

(* The session's time to live runs out.                                    *)
ExpireSession(l) ==
  /\ session[l] # None
  /\ session' = [session EXCEPT ![l] = None]
  /\ UNCHANGED <<users, owner, pc, arg, user>>

-----------------------------------------------------------------------------
Next ==
  \/ \E r \in Logins : LoginStep(r) \/ \E a \in Accounts : Login(r, a)
  \/ \E r \in Links : LinkStep(r) \/ \E l \in Logins, a \in Accounts : Link(r, l, a)
  \/ \E r \in Unlinks : UnlinkStep(r) \/ \E l \in Logins, p \in Providers : Unlink(r, l, p)
  \/ \E r \in Logouts : LogoutStep(r) \/ \E l \in Logins : Logout(r, l)
  \/ \E l \in Logins : ExpireSession(l)

Spec == Init /\ [][Next]_vars
-----------------------------------------------------------------------------
(* What the accounts promise.                                              *)

(* Unlinks of user u that got past the check for the last identity.        *)
PastCheck(u) == {r \in Unlinks : user[r] = u /\ pc[r] \in {"delete", "ok", "failed"}}

(* NoOrphanUser: a user can be left without a way to log in only if two
   unlinks of that user were both let past the check: one alone never does it,
   nor does a lost race of two first logins, however logins, links and failures
   interleave. (auth_storage.go: CreateUserWithIdentity; auth.go: UnlinkIdentity) *)
NoOrphanUser ==
  \A u \in users : Identities(u) = {} => Several(PastCheck(u))

(* LoginHoldsAccount: the user a login stands for owns the account that was
   authenticated, unless an unlink of that user and provider has been tried
   since: no race of logins, links and unlinks logs anyone in as somebody else.
   (auth.go: Login) *)
Unlinked(u, p) == \E r \in PastCheck(u) : arg[r] = p
LoginHoldsAccount ==
  \A r \in Logins :
    user[r] # None => owner[arg[r]] = user[r] \/ Unlinked(user[r], ProviderOf[arg[r]])

(* OneAccountPerProvider: a user has one account of each provider, so that an
   unlink by provider takes away a single identity, even when links of one user
   race. (identity_storage.go: CreateIdentity, DeleteByUserAndProvider) *)
OneAccountPerProvider ==
  \A u \in users, p \in Providers : ~Several(OfProvider(u, p))

(* IdentityNeverStolen: no single step moves an account from one user to
   another: it must be unlinked from the first before it can be linked to the
   second, although the check for that is a query of its own. (auth.go:
   LinkIdentity, Login) *)
IdentityNeverStolen ==
  [][\A a \in Accounts : owner[a] # None => owner'[a] \in {owner[a], None}]_vars

(* KeepsAuthContract: AuthContract, with every request a few queries: a login is
   decided at one of them, and every other request has its effect in one, its
   last, whatever was changed since the query it checked with, and none after
   it has failed. (auth.go: Login, LinkIdentity, UnlinkIdentity, Logout) *)
Ended == {"ok", "refused", "failed"}
Over  == {r \in Requests : pc[r] \in Ended}

Contract == INSTANCE AuthContract WITH asked <- arg, actor <- user, over <- Over

KeepsAuthContract == Contract!ContractSpec

-----------------------------------------------------------------------------
(* What the code does not do, although it says so.                         *)

(* LastIdentityKept: the last identity of a user cannot be unlinked, as
   LastIdentityError reads. Two unlinks of different providers both find two
   identities and take one each. (auth.go: UnlinkIdentity) *)
LastIdentityKept == \A u \in users : Identities(u) # {}
=============================================================================
