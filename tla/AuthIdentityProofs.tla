-------------------------- MODULE AuthIdentityProofs --------------------------
(***************************************************************************)
(* Safety of AuthIdentity for any number of requests, accounts and users.  *)
(*                                                                         *)
(* NoOrphanUser is not inductive: an unlink decides at ListIdentities and  *)
(* acts at DeleteIdentity. Kept says what its decision is still worth in   *)
(* between: as long as one unlink at most is past the check, whoever is    *)
(* about to delete leaves an identity behind, because a delete takes one   *)
(* identity (OneAccountPerProvider) and nothing else takes any. At the     *)
(* end, AuthIdentity implements AuthContract.                              *)
(***************************************************************************)
EXTENDS AuthIdentity, TLAPS

(* What a request has in hand once it has started.                         *)
Shape ==
  /\ \A r \in Logins \cup Links : pc[r] # "idle" => arg[r] \in Accounts
  /\ \A r \in Links \cup Unlinks : pc[r] # "idle" => user[r] \in users
  /\ \A r \in Unlinks : pc[r] # "idle" => arg[r] \in Providers
  /\ \A r \in Logins : pc[r] \in {"idle", "find", "create", "again"} => user[r] = None
  /\ \A r \in Logins : pc[r] = "session" => user[r] \in users
  /\ \A r \in Logins : pc[r] = "getuser" => user[r] \in users
  /\ \A r \in Logouts : pc[r] # "idle" => arg[r] \in Logins

Kept(u) ==
  \/ Several(PastCheck(u))
  \/ /\ Identities(u) # {}
     /\ \A r \in PastCheck(u) : pc[r] = "delete" => Several(Identities(u))

AllKept == \A u \in users : Kept(u)

IInv == TypeOK /\ Shape /\ LoginHoldsAccount /\ OneAccountPerProvider /\ AllKept

(* Whatever the provider replies.                                          *)
LEMMA Replied ==
  ASSUME NEW r, Authenticated(r)
  PROVE  Goto(r, "find") \/ Goto(r, "failed")
  BY DEF Authenticated

-----------------------------------------------------------------------------
(* Types.                                                                  *)

LEMMA LoginTypes ==
  ASSUME TypeOK, Shape, NEW r \in Logins,
         LoginStep(r) \/ \E a \in Accounts : Login(r, a)
  PROVE  TypeOK' /\ Shape'
<1> USE RequestsAssumption, NoneAssumption DEF TypeOK, Shape, Requests, Goto, GiveUp, dbVars, Labels
<1>1. ASSUME NEW a \in Accounts, Login(r, a) PROVE TypeOK' /\ Shape'
  BY <1>1, Replied DEF Login
<1>2. CASE FindIdentity(r)
  BY <1>2 DEF FindIdentity
<1>3. CASE GetUser(r)
  BY <1>3 DEF GetUser
<1>4. CASE CreateUserWithIdentity(r)
  BY <1>4 DEF CreateUserWithIdentity, Insert
<1>5. CASE FindAgain(r)
  BY <1>5 DEF FindAgain
<1>6. CASE OpenSession(r)
  BY <1>6 DEF OpenSession
<1> QED
  BY <1>1, <1>2, <1>3, <1>4, <1>5, <1>6 DEF LoginStep

LEMMA LinkTypes ==
  ASSUME TypeOK, Shape, NEW r \in Links,
         LinkStep(r) \/ \E l \in Logins, a \in Accounts : Link(r, l, a)
  PROVE  TypeOK' /\ Shape'
<1> USE RequestsAssumption, NoneAssumption DEF TypeOK, Shape, Requests, Goto, GiveUp, dbVars, Labels
<1>1. ASSUME NEW l \in Logins, NEW a \in Accounts, Link(r, l, a) PROVE TypeOK' /\ Shape'
  BY <1>1, Replied DEF Link, LoginRequired
<1>2. CASE FindExisting(r)
  BY <1>2 DEF FindExisting
<1>3. CASE CreateIdentity(r)
  BY <1>3 DEF CreateIdentity, Insert
<1> QED
  BY <1>1, <1>2, <1>3 DEF LinkStep

LEMMA UnlinkTypes ==
  ASSUME TypeOK, Shape, NEW r \in Unlinks,
         UnlinkStep(r) \/ \E l \in Logins, p \in Providers : Unlink(r, l, p)
  PROVE  TypeOK' /\ Shape'
<1> USE RequestsAssumption, NoneAssumption DEF TypeOK, Shape, Requests, Goto, GiveUp, dbVars, Labels
<1>1. ASSUME NEW l \in Logins, NEW p \in Providers, Unlink(r, l, p) PROVE TypeOK' /\ Shape'
  BY <1>1 DEF Unlink, LoginRequired
<1>2. CASE ListIdentities(r)
  BY <1>2 DEF ListIdentities
<1>3. CASE DeleteIdentity(r)
  BY <1>3 DEF DeleteIdentity
<1> QED
  BY <1>1, <1>2, <1>3 DEF UnlinkStep

LEMMA LogoutTypes ==
  ASSUME TypeOK, Shape, NEW r \in Logouts,
         LogoutStep(r) \/ \E l \in Logins : Logout(r, l)
  PROVE  TypeOK' /\ Shape'
<1> USE RequestsAssumption, NoneAssumption DEF TypeOK, Shape, Requests, Goto, GiveUp, dbVars, Labels
<1>1. ASSUME NEW l \in Logins, Logout(r, l) PROVE TypeOK' /\ Shape'
  BY <1>1 DEF Logout, LoginRequired
<1>2. CASE CheckSession(r)
  BY <1>2 DEF CheckSession
<1>3. CASE RemoveSession(r)
  BY <1>3 DEF RemoveSession
<1> QED
  BY <1>1, <1>2, <1>3 DEF LogoutStep

LEMMA TypeStep == TypeOK /\ Shape /\ [Next]_vars => TypeOK' /\ Shape'
<1> SUFFICES ASSUME TypeOK, Shape, [Next]_vars PROVE TypeOK' /\ Shape'
  OBVIOUS
<1>1. ASSUME NEW l \in Logins, ExpireSession(l) PROVE TypeOK' /\ Shape'
  BY <1>1 DEF ExpireSession, TypeOK, Shape, Requests
<1>2. CASE UNCHANGED vars
  BY <1>2 DEF vars, TypeOK, Shape, Requests
<1> QED
  BY <1>1, <1>2, LoginTypes, LinkTypes, UnlinkTypes, LogoutTypes DEF Next

-----------------------------------------------------------------------------
(* What a step does to the tables, and to the requests that read them.     *)

(* An unlink past the check stays past it, for the same user and provider. *)
LEMMA PastCheckStays ==
  ASSUME TypeOK, Shape, [Next]_vars, NEW q \in Unlinks,
         pc[q] \in {"delete", "ok", "failed"}
  PROVE  pc'[q] \in {"delete", "ok", "failed"} /\ user'[q] = user[q] /\ arg'[q] = arg[q]
<1> USE RequestsAssumption DEF TypeOK, Requests, Goto, GiveUp, dbVars
<1>1. ASSUME NEW r \in Logins, LoginStep(r) \/ \E a \in Accounts : Login(r, a)
      PROVE  pc'[q] = pc[q] /\ user'[q] = user[q] /\ arg'[q] = arg[q]
  BY <1>1, Replied DEF LoginStep, Login, FindIdentity, GetUser, CreateUserWithIdentity, FindAgain, OpenSession
<1>2. ASSUME NEW r \in Links, LinkStep(r) \/ \E l \in Logins, a \in Accounts : Link(r, l, a)
      PROVE  pc'[q] = pc[q] /\ user'[q] = user[q] /\ arg'[q] = arg[q]
  BY <1>2, Replied DEF LinkStep, Link, FindExisting, CreateIdentity
<1>3. ASSUME NEW r \in Unlinks, UnlinkStep(r) \/ \E l \in Logins, p \in Providers : Unlink(r, l, p)
      PROVE  pc'[q] \in {"delete", "ok", "failed"} /\ user'[q] = user[q] /\ arg'[q] = arg[q]
  BY <1>3 DEF UnlinkStep, Unlink, ListIdentities, DeleteIdentity
<1>4. ASSUME NEW r \in Logouts, LogoutStep(r) \/ \E l \in Logins : Logout(r, l)
      PROVE  pc'[q] = pc[q] /\ user'[q] = user[q] /\ arg'[q] = arg[q]
  BY <1>4 DEF LogoutStep, Logout, CheckSession, RemoveSession
<1>5. ASSUME NEW l \in Logins, ExpireSession(l)
      PROVE  pc'[q] = pc[q] /\ user'[q] = user[q] /\ arg'[q] = arg[q]
  BY <1>5 DEF ExpireSession
<1>6. CASE UNCHANGED vars
  BY <1>6 DEF vars
<1> QED
  BY <1>1, <1>2, <1>3, <1>4, <1>5, <1>6 DEF Next

(* Unlink q is past the check, for the owner and the provider of a.        *)
Took(q, a) == /\ pc'[q] \in {"delete", "ok", "failed"}
              /\ user'[q] = owner[a] /\ arg'[q] = ProviderOf[a]

(* An account changes hands only through "nobody", and only an unlink past *)
(* the check takes it away.                                                *)
LEMMA OwnerStep ==
  ASSUME TypeOK, Shape, [Next]_vars, NEW a \in Accounts
  PROVE  \/ owner'[a] = owner[a]
         \/ owner[a] = None
         \/ owner'[a] = None /\ \E q \in Unlinks : Took(q, a)
<1> USE RequestsAssumption DEF TypeOK, Requests, Goto, GiveUp, dbVars
<1>1. ASSUME NEW r \in Logins, LoginStep(r) \/ \E b \in Accounts : Login(r, b)
      PROVE  owner'[a] = owner[a] \/ owner[a] = None
  BY <1>1 DEF LoginStep, Login, FindIdentity, GetUser, CreateUserWithIdentity, FindAgain,
              OpenSession, Insert
<1>2. ASSUME NEW r \in Links, LinkStep(r) \/ \E l \in Logins, b \in Accounts : Link(r, l, b)
      PROVE  owner'[a] = owner[a] \/ owner[a] = None
  BY <1>2 DEF LinkStep, Link, FindExisting, CreateIdentity, Insert, Insertable
<1>3. ASSUME NEW r \in Unlinks, UnlinkStep(r) \/ \E l \in Logins, p \in Providers : Unlink(r, l, p)
      PROVE  \/ owner'[a] = owner[a]
             \/ owner'[a] = None /\ \E q \in Unlinks : Took(q, a)
  <2>1. CASE DeleteIdentity(r) /\ owner'[a] # owner[a]
    <3>1. a \in OfProvider(user[r], arg[r]) /\ owner'[a] = None
      BY <2>1 DEF DeleteIdentity
    <3>2. owner[a] = user[r] /\ ProviderOf[a] = arg[r]
      BY <3>1 DEF OfProvider, Identities
    <3>3. Took(r, a)
      BY <2>1, <3>2 DEF DeleteIdentity, Took
    <3> QED
      BY <3>1, <3>3
  <2> QED
    BY <1>3, <2>1 DEF UnlinkStep, Unlink, ListIdentities
<1>4. ASSUME NEW r \in Logouts, LogoutStep(r) \/ \E l \in Logins : Logout(r, l)
      PROVE  owner' = owner
  BY <1>4 DEF LogoutStep, Logout, CheckSession, RemoveSession
<1>5. ASSUME NEW l \in Logins, ExpireSession(l) PROVE owner' = owner
  BY <1>5 DEF ExpireSession
<1>6. CASE UNCHANGED vars
  BY <1>6 DEF vars
<1> QED
  BY <1>1, <1>2, <1>3, <1>4, <1>5, <1>6 DEF Next

(* A login keeps its user, or has just read or made the account's owner.   *)
LEMMA LoginUser ==
  ASSUME TypeOK, Shape, [Next]_vars, NEW q \in Logins, user'[q] # None
  PROVE  \/ user'[q] = user[q] /\ arg'[q] = arg[q] /\ arg[q] \in Accounts
         \/ owner'[arg'[q]] = user'[q]
<1> USE RequestsAssumption DEF TypeOK, Shape, Requests, Goto, GiveUp, dbVars
<1>1. ASSUME NEW r \in Logins, LoginStep(r) \/ \E a \in Accounts : Login(r, a)
      PROVE  \/ user'[q] = user[q] /\ arg'[q] = arg[q] /\ arg[q] \in Accounts
             \/ owner'[arg'[q]] = user'[q]
  BY <1>1 DEF LoginStep, Login, FindIdentity, GetUser, CreateUserWithIdentity, FindAgain,
              OpenSession, Insert
<1>2. ASSUME NEW r \in Links, LinkStep(r) \/ \E l \in Logins, a \in Accounts : Link(r, l, a)
      PROVE  user'[q] = user[q] /\ arg'[q] = arg[q]
  BY <1>2 DEF LinkStep, Link, FindExisting, CreateIdentity
<1>3. ASSUME NEW r \in Unlinks, UnlinkStep(r) \/ \E l \in Logins, p \in Providers : Unlink(r, l, p)
      PROVE  user'[q] = user[q] /\ arg'[q] = arg[q]
  BY <1>3 DEF UnlinkStep, Unlink, ListIdentities, DeleteIdentity
<1>4. ASSUME NEW r \in Logouts, LogoutStep(r) \/ \E l \in Logins : Logout(r, l)
      PROVE  user'[q] = user[q] /\ arg'[q] = arg[q]
  BY <1>4 DEF LogoutStep, Logout, CheckSession, RemoveSession
<1>5. ASSUME NEW l \in Logins, ExpireSession(l)
      PROVE  user'[q] = user[q] /\ arg'[q] = arg[q]
  BY <1>5 DEF ExpireSession
<1>6. CASE UNCHANGED vars
  BY <1>6 DEF vars
<1>7. user[q] # None => arg[q] \in Accounts
  OBVIOUS
<1> QED
  BY <1>1, <1>2, <1>3, <1>4, <1>5, <1>6, <1>7 DEF Next

LEMMA LoginHoldsStep ==
  ASSUME TypeOK, Shape, LoginHoldsAccount, [Next]_vars
  PROVE  LoginHoldsAccount'
<1> SUFFICES ASSUME NEW r \in Logins, user'[r] # None,
                    owner'[arg'[r]] # user'[r]
             PROVE  Unlinked(user[r], ProviderOf[arg[r]])' /\ user'[r] = user[r] /\ arg'[r] = arg[r]
  BY DEF LoginHoldsAccount, Unlinked, PastCheck
<1>1. user'[r] = user[r] /\ arg'[r] = arg[r] /\ arg[r] \in Accounts
  BY LoginUser
<1>2. owner[arg[r]] = user[r] \/ Unlinked(user[r], ProviderOf[arg[r]])
  BY <1>1 DEF LoginHoldsAccount
<1>3. CASE owner[arg[r]] = user[r]
  BY <1>1, <1>3, OwnerStep DEF Unlinked, PastCheck, Took
<1>4. CASE Unlinked(user[r], ProviderOf[arg[r]])
  BY <1>4, <1>1, PastCheckStays DEF Unlinked, PastCheck
<1> QED
  BY <1>1, <1>2, <1>3, <1>4

-----------------------------------------------------------------------------
(* Who has which identities.                                               *)

(* A step of a request that is not an unlink, and that takes no identity   *)
(* from anyone; a user it creates gets one.                                *)
LEMMA KeptGrows ==
  ASSUME TypeOK, Shape, AllKept,
         users \subseteq users',
         \A u \in users : Identities(u) \subseteq Identities(u)',
         \A u \in users' \ users : Identities(u)' # {},
         \A q \in Unlinks : pc'[q] = pc[q] /\ user'[q] = user[q]
  PROVE  AllKept'
<1> SUFFICES ASSUME NEW u \in users' PROVE Kept(u)'
  BY DEF AllKept
<1>1. PastCheck(u)' = PastCheck(u)
  BY DEF PastCheck
<1>2. CASE u \in users
  <2>1. Kept(u)
    BY <1>2 DEF AllKept
  <2>2. Identities(u) \subseteq Identities(u)'
    BY <1>2
  <2>3. \A q \in PastCheck(u) : pc'[q] = pc[q]
    BY DEF PastCheck
  <2> QED
    BY <2>1, <2>2, <2>3, <1>1 DEF Kept, Several
<1>3. CASE u \notin users
  <2>1. PastCheck(u) = {}
    BY <1>3 DEF PastCheck, Shape
  <2> QED
    BY <2>1, <1>1, <1>3 DEF Kept
<1> QED
  BY <1>2, <1>3

LEMMA Unchanged ==
  ASSUME TypeOK, Shape, AllKept, OneAccountPerProvider, UNCHANGED <<users, owner>>,
         \A q \in Unlinks : pc'[q] = pc[q] /\ user'[q] = user[q]
  PROVE  AllKept' /\ OneAccountPerProvider'
<1>1. OneAccountPerProvider'
  BY DEF OneAccountPerProvider, OfProvider, Identities
<1>2. \A u \in users : Identities(u)' = Identities(u)
  BY DEF Identities
<1> QED
  BY <1>1, <1>2, KeptGrows

(* An account nobody had is inserted for a user without one of its kind.   *)
LEMMA Inserted ==
  ASSUME TypeOK, Shape, AllKept, OneAccountPerProvider,
         NEW a \in Accounts, NEW u \in UserIds,
         owner[a] = None, Insert(a, u), OfProvider(u, ProviderOf[a]) = {},
         users' = users \cup {u},
         \A q \in Unlinks : pc'[q] = pc[q] /\ user'[q] = user[q]
  PROVE  AllKept' /\ OneAccountPerProvider'
<1> USE NoneAssumption
<1>1. Identities(u)' = Identities(u) \cup {a}
  BY DEF Insert, Identities, TypeOK
<1>2. \A v \in users \ {u} : Identities(v)' = Identities(v)
  BY DEF Insert, Identities, TypeOK
<1>3. OneAccountPerProvider'
  <2> SUFFICES ASSUME NEW v \in users', NEW p \in Providers
               PROVE  ~Several(OfProvider(v, p)')
    BY DEF OneAccountPerProvider, OfProvider, Identities, Several
  <2>1. CASE v = u /\ v \notin users
    <3>1. Identities(u) = {}
      BY <2>1 DEF Identities, TypeOK
    <3> QED
      BY <2>1, <3>1, <1>1 DEF OfProvider, Several
  <2>2. CASE v = u /\ v \in users
    BY <2>2, <1>1 DEF OneAccountPerProvider, OfProvider, Several
  <2>3. CASE v # u
    BY <2>3, <1>2 DEF OneAccountPerProvider, OfProvider, Several
  <2> QED
    BY <2>1, <2>2, <2>3
<1>4. \A v \in users : Identities(v) \subseteq Identities(v)'
  BY <1>1, <1>2
<1> QED
  BY <1>1, <1>3, <1>4, KeptGrows

LEMMA UnlinkStarts ==
  ASSUME TypeOK, Shape, AllKept, OneAccountPerProvider,
         NEW r \in Unlinks, NEW l \in Logins, NEW p \in Providers, Unlink(r, l, p)
  PROVE  AllKept' /\ OneAccountPerProvider'
<1>1. UNCHANGED <<users, owner>>
  BY DEF Unlink, dbVars
<1>2. \A u \in users : PastCheck(u)' = PastCheck(u) /\ Identities(u)' = Identities(u)
  BY <1>1 DEF Unlink, PastCheck, Identities, TypeOK, Requests, Goto
<1>3. \A u \in users : \A q \in PastCheck(u) : pc'[q] = pc[q]
  BY DEF Unlink, PastCheck, TypeOK, Requests, Goto
<1>4. AllKept'
  BY <1>1, <1>2, <1>3 DEF AllKept, Kept
<1> QED
  BY <1>1, <1>4 DEF OneAccountPerProvider, OfProvider, Identities

(* The only place where an unlink gets past the check.                     *)
LEMMA ListStep ==
  ASSUME TypeOK, Shape, AllKept, OneAccountPerProvider, NEW r \in Unlinks, ListIdentities(r)
  PROVE  AllKept' /\ OneAccountPerProvider'
<1>1. UNCHANGED <<users, owner, arg, user>>
  BY DEF ListIdentities, GiveUp, dbVars
<1>2. \A q \in Unlinks : q # r => pc'[q] = pc[q]
  BY DEF ListIdentities, GiveUp, Goto, TypeOK, Requests
<1>3. \/ pc'[r] = "refused"
      \/ pc'[r] = "delete" /\ Several(Identities(user[r]))
  BY DEF ListIdentities, GiveUp, Goto, TypeOK, Requests
<1>4. \A u \in users : Identities(u)' = Identities(u)
  BY <1>1 DEF Identities
<1>5. ASSUME NEW u \in users PROVE Kept(u)'
  <2>1. Kept(u)
    BY DEF AllKept
  <2>2. PastCheck(u) \subseteq PastCheck(u)'
    BY <1>1, <1>2 DEF PastCheck, ListIdentities
  <2>3. PastCheck(u)' \subseteq PastCheck(u) \cup {r}
    BY <1>1, <1>2 DEF PastCheck
  <2>4. CASE Several(PastCheck(u))
    BY <2>4, <2>2 DEF Kept, Several
  <2>5. CASE r \notin PastCheck(u)'
    <3>1. PastCheck(u)' = PastCheck(u) /\ r \notin PastCheck(u)
      BY <2>2, <2>3, <2>5
    <3>2. \A q \in PastCheck(u) : pc'[q] = pc[q]
      BY <3>1, <1>2 DEF PastCheck
    <3> QED
      BY <3>1, <3>2, <2>1, <1>4 DEF Kept
  <2>6. CASE r \in PastCheck(u)'
    <3>1. user[r] = u /\ Several(Identities(u))
      BY <2>6, <1>1, <1>3 DEF PastCheck
    <3>2. Several(Identities(u)') /\ Identities(u)' # {}
      BY <3>1, <1>4 DEF Several
    <3> QED
      BY <3>2 DEF Kept, Several
  <2> QED
    BY <2>4, <2>5, <2>6
<1>6. AllKept'
  BY <1>1, <1>5 DEF AllKept
<1> QED
  BY <1>1, <1>6 DEF OneAccountPerProvider, OfProvider, Identities

(* One unlink past the check, and it found two identities: deleting those  *)
(* of one provider, which are one at most, leaves the other.               *)
LEMMA DeleteStep ==
  ASSUME TypeOK, Shape, AllKept, OneAccountPerProvider, NEW r \in Unlinks, DeleteIdentity(r)
  PROVE  AllKept' /\ OneAccountPerProvider'
<1> USE NoneAssumption
<1> DEFINE u0 == user[r]
           gone == OfProvider(u0, arg[r])
<1>1. UNCHANGED <<users, arg, user>> /\ pc'[r] \in {"ok", "failed"} /\ pc[r] = "delete"
  BY DEF DeleteIdentity, GiveUp, Goto, dbVars, TypeOK, Requests
<1>2. \A q \in Unlinks : q # r => pc'[q] = pc[q]
  BY DEF DeleteIdentity, GiveUp, Goto, TypeOK, Requests
<1>3. \/ owner' = owner
      \/ owner' = [a \in Accounts |-> IF a \in gone THEN None ELSE owner[a]]
  BY DEF DeleteIdentity, GiveUp, dbVars
<1>4. u0 \in users /\ arg[r] \in Providers /\ r \in PastCheck(u0)
  BY <1>1 DEF Shape, PastCheck
<1>5. \A v \in users : PastCheck(v)' = PastCheck(v)
  BY <1>1, <1>2 DEF PastCheck
<1>6. \A v \in users \ {u0} : Identities(v)' = Identities(v)
  BY <1>3 DEF Identities, OfProvider, TypeOK
<1>7. \A v \in users :
        v = u0 => Identities(v)' = Identities(v) \/ Identities(v)' = Identities(v) \ gone
  BY <1>3, <1>1, <1>4 DEF Identities, OfProvider, TypeOK
<1>8. ASSUME NEW v \in users PROVE Kept(v)'
  <2>1. Kept(v)
    BY DEF AllKept
  <2>2. CASE Several(PastCheck(v))
    BY <2>2, <1>5 DEF Kept
  <2>3. CASE ~Several(PastCheck(v)) /\ v # u0
    <3>1. \A q \in PastCheck(v) : pc'[q] = pc[q]
      BY <2>3, <1>2 DEF PastCheck
    <3> QED
      BY <2>1, <2>3, <3>1, <1>5, <1>6 DEF Kept
  <2>4. CASE ~Several(PastCheck(v)) /\ v = u0
    <3>1. \A q \in PastCheck(v) : q = r
      BY <2>4, <1>4 DEF Several
    <3>2. PICK a \in Identities(v), b \in Identities(v) : a # b
      BY <2>1, <2>4, <1>1, <1>4 DEF Kept, Several
    <3>3. ~Several(gone)
      BY <1>4 DEF OneAccountPerProvider
    <3>4. a \notin gone \/ b \notin gone
      BY <3>2, <3>3 DEF Several
    <3>5. Identities(v)' # {}
      BY <1>7, <2>4, <3>2, <3>4
    <3> QED
      BY <3>1, <3>5, <1>1, <1>5 DEF Kept
  <2> QED
    BY <2>2, <2>3, <2>4
<1>9. OneAccountPerProvider'
  BY <1>1, <1>6, <1>7 DEF OneAccountPerProvider, OfProvider, Several
<1> QED
  BY <1>1, <1>8, <1>9 DEF AllKept

LEMMA KeptStep ==
  ASSUME TypeOK, Shape, AllKept, OneAccountPerProvider, [Next]_vars
  PROVE  AllKept' /\ OneAccountPerProvider'
<1> USE RequestsAssumption, NoneAssumption
<1>1. ASSUME NEW r \in Logins, LoginStep(r) \/ \E a \in Accounts : Login(r, a)
      PROVE  AllKept' /\ OneAccountPerProvider'
  <2>1. \A q \in Unlinks : pc'[q] = pc[q] /\ user'[q] = user[q]
    BY <1>1, Replied DEF LoginStep, Login, FindIdentity, GetUser, CreateUserWithIdentity, FindAgain,
                OpenSession, TypeOK, Requests, Goto, GiveUp, dbVars
  <2>2. CASE UNCHANGED <<users, owner>>
    BY <2>1, <2>2, Unchanged
  <2>3. CASE CreateUserWithIdentity(r) /\ ~UNCHANGED <<users, owner>>
    <3>1. PICK u \in UserIds \ users : /\ owner[arg[r]] = None
                                       /\ users' = users \cup {u}
                                       /\ Insert(arg[r], u)
      BY <2>3 DEF CreateUserWithIdentity, GiveUp, dbVars
    <3>2. arg[r] \in Accounts
      BY <2>3 DEF CreateUserWithIdentity, Shape
    <3>3. OfProvider(u, ProviderOf[arg[r]]) = {}
      BY <3>1 DEF OfProvider, Identities, TypeOK
    <3> QED
      BY <2>1, <3>1, <3>2, <3>3, Inserted
  <2> QED
    BY <1>1, <2>2, <2>3 DEF LoginStep, Login, FindIdentity, GetUser, FindAgain, OpenSession,
                            GiveUp, dbVars
<1>2. ASSUME NEW r \in Links, LinkStep(r) \/ \E l \in Logins, a \in Accounts : Link(r, l, a)
      PROVE  AllKept' /\ OneAccountPerProvider'
  <2>1. \A q \in Unlinks : pc'[q] = pc[q] /\ user'[q] = user[q]
    BY <1>2, Replied DEF LinkStep, Link, FindExisting, CreateIdentity, TypeOK, Requests, Goto, GiveUp,
                dbVars
  <2>2. CASE UNCHANGED <<users, owner>>
    BY <2>1, <2>2, Unchanged
  <2>3. CASE CreateIdentity(r) /\ ~UNCHANGED <<users, owner>>
    <3>1. Insertable(arg[r], user[r]) /\ Insert(arg[r], user[r]) /\ users' = users
      BY <2>3 DEF CreateIdentity, GiveUp, dbVars
    <3>2. arg[r] \in Accounts /\ user[r] \in users
      BY <2>3 DEF CreateIdentity, Shape
    <3>3. user[r] \in UserIds /\ users' = users \cup {user[r]}
      BY <3>1, <3>2 DEF TypeOK
    <3> QED
      BY <2>1, <3>1, <3>2, <3>3, Inserted DEF Insertable
  <2> QED
    BY <1>2, <2>2, <2>3 DEF LinkStep, Link, FindExisting, GiveUp, dbVars
<1>3. ASSUME NEW r \in Unlinks, UnlinkStep(r) \/ \E l \in Logins, p \in Providers : Unlink(r, l, p)
      PROVE  AllKept' /\ OneAccountPerProvider'
  BY <1>3, UnlinkStarts, ListStep, DeleteStep DEF UnlinkStep
<1>4. ASSUME NEW r \in Logouts, LogoutStep(r) \/ \E l \in Logins : Logout(r, l)
      PROVE  AllKept' /\ OneAccountPerProvider'
  <2>1. UNCHANGED <<users, owner>>
    BY <1>4 DEF LogoutStep, Logout, CheckSession, RemoveSession, GiveUp, dbVars
  <2>2. \A q \in Unlinks : pc'[q] = pc[q] /\ user'[q] = user[q]
    BY <1>4 DEF LogoutStep, Logout, CheckSession, RemoveSession, TypeOK, Requests, Goto, GiveUp,
                dbVars
  <2> QED
    BY <2>1, <2>2, Unchanged
<1>5. ASSUME NEW l \in Logins, ExpireSession(l)
      PROVE  AllKept' /\ OneAccountPerProvider'
  BY <1>5, Unchanged DEF ExpireSession
<1>6. CASE UNCHANGED vars
  BY <1>6, Unchanged DEF vars
<1> QED
  BY <1>1, <1>2, <1>3, <1>4, <1>5, <1>6 DEF Next

-----------------------------------------------------------------------------
LEMMA InitIInv == Init => IInv
<1> SUFFICES ASSUME Init PROVE IInv
  OBVIOUS
<1> USE RequestsAssumption, NoneAssumption DEF Init
<1>1. TypeOK
  BY DEF TypeOK, Labels, Requests
<1>2. Shape
  BY DEF Shape, Requests
<1>3. LoginHoldsAccount
  BY DEF LoginHoldsAccount, Requests
<1>4. OneAccountPerProvider /\ AllKept
  BY DEF OneAccountPerProvider, AllKept
<1> QED
  BY <1>1, <1>2, <1>3, <1>4 DEF IInv

LEMMA NextIInv == IInv /\ [Next]_vars => IInv'
BY TypeStep, LoginHoldsStep, KeptStep DEF IInv

(* The invariant the others rest on: Kept is what an unlink's check is      *)
(* still worth when it deletes. (auth.go: UnlinkIdentity)                   *)
THEOREM Inductive == Spec => []IInv
BY InitIInv, NextIInv, PTL DEF Spec

(* Every variable keeps its type: an identity and a session always name a   *)
(* user that exists. (auth_storage.go, identity_storage.go)                 *)
THEOREM TypeCorrect == Spec => []TypeOK
<1>1. IInv => TypeOK
  BY DEF IInv
<1> QED
  BY <1>1, Inductive, PTL

(* A user is left without an identity only by two unlinks that were both    *)
(* let past the check. (auth.go: UnlinkIdentity, Login)                     *)
THEOREM OrphansNeedTwoUnlinks == Spec => []NoOrphanUser
<1>1. IInv => NoOrphanUser
  BY DEF IInv, AllKept, Kept, NoOrphanUser
<1> QED
  BY <1>1, Inductive, PTL

(* No race logs anyone in as somebody else. (auth.go: Login)                *)
THEOREM LoginsHoldAccounts == Spec => []LoginHoldsAccount
<1>1. IInv => LoginHoldsAccount
  BY DEF IInv
<1> QED
  BY <1>1, Inductive, PTL

(* A user has one account of each provider at most. (identity_storage.go:   *)
(* CreateIdentity)                                                          *)
THEOREM OneOfEachProvider == Spec => []OneAccountPerProvider
<1>1. IInv => OneAccountPerProvider
  BY DEF IInv
<1> QED
  BY <1>1, Inductive, PTL

(* No step moves an account from one user to another. (auth.go:             *)
(* LinkIdentity, Login)                                                     *)
THEOREM AccountsNotStolen == Spec => IdentityNeverStolen
<1>1. IInv /\ [Next]_vars
        => [\A a \in Accounts : owner[a] # None => owner'[a] \in {owner[a], None}]_vars
  BY OwnerStep DEF IInv
<1> QED
  BY <1>1, Inductive, PTL DEF Spec, IdentityNeverStolen

-----------------------------------------------------------------------------
(* AuthIdentity implements AuthContract. A request has nothing in hand     *)
(* before it has started.                                                  *)
Fresh == \A r \in Requests : pc[r] = "idle" => arg[r] = None /\ user[r] = None

CInv == IInv /\ Fresh

LEMMA FreshStep == CInv /\ [Next]_vars => Fresh'
<1> SUFFICES ASSUME TypeOK, Fresh, [Next]_vars PROVE Fresh'
  BY DEF CInv, IInv
<1> USE DEF TypeOK, Fresh, Goto, GiveUp, dbVars
<1>1. ASSUME NEW r \in Requests, LoginStep(r) \/ LinkStep(r)
      PROVE  Fresh'
  BY <1>1 DEF LoginStep, LinkStep, FindIdentity, GetUser, CreateUserWithIdentity, FindAgain,
              OpenSession, FindExisting, CreateIdentity
<1>2. ASSUME NEW r \in Requests, UnlinkStep(r) \/ LogoutStep(r)
      PROVE  Fresh'
  BY <1>2 DEF UnlinkStep, LogoutStep, ListIdentities, DeleteIdentity, CheckSession, RemoveSession
<1>3. ASSUME NEW r \in Requests, NEW a, Login(r, a) \/ \E l \in Logins : Link(r, l, a)
      PROVE  Fresh'
  BY <1>3, Replied DEF Login, Link
<1>4. ASSUME NEW r \in Requests, NEW l, Logout(r, l) \/ \E p \in Providers : Unlink(r, l, p)
      PROVE  Fresh'
  BY <1>4 DEF Logout, Unlink
<1>5. CASE UNCHANGED vars \/ \E l \in Logins : ExpireSession(l)
  BY <1>5 DEF vars, ExpireSession
<1> QED
  BY <1>1, <1>2, <1>3, <1>4, <1>5 DEF Next, Requests

(* Where a request goes tells whether it is over.                          *)
LEMMA Moves ==
  ASSUME TypeOK, NEW r \in Requests, NEW l, Goto(r, l), pc[r] \notin Ended
  PROVE  Over' = IF l \in Ended THEN Over \cup {r} ELSE Over
BY DEF TypeOK, Goto, Over

LEMMA Going ==
  ASSUME CInv, NEW r \in Requests, pc[r] # "idle", pc[r] \notin Ended
  PROVE  Contract!UnderWay(r)
<1>1. arg[r] \in Accounts \cup Providers \cup Logins
  BY DEF CInv, IInv, Shape, Requests
<1> QED
  BY <1>1, NoneAssumption DEF Contract!UnderWay, Over

(* A query that changed nothing: the contract sees a request end, or       *)
(* nothing.                                                                *)
LEMMA GivesUp ==
  ASSUME CInv, NEW r \in Requests, NEW l, GiveUp(r, l), pc[r] # "idle", pc[r] \notin Ended
  PROVE  IF l \in Ended THEN Contract!UnderWay(r) /\ Contract!End(r)
                        ELSE UNCHANGED (Contract!contractVars)
<1>1. Goto(r, l) /\ UNCHANGED <<users, owner, session, arg, user>>
  BY DEF GiveUp, dbVars
<1>2. Over' = IF l \in Ended THEN Over \cup {r} ELSE Over
  BY <1>1, Moves DEF CInv, IInv
<1> QED
  BY <1>1, <1>2, Going DEF Contract!End, Contract!Ends, Contract!contractVars

LEMMA Starts ==
  ASSUME CInv, NEW r \in Requests, NEW l, NEW S, NEW x \in S, pc[r] = "idle", Goto(r, l),
         arg' = [arg EXCEPT ![r] = x], UNCHANGED <<users, owner, session>>
  PROVE  Contract!NotAsked(r) /\ Contract!Asks(r, S)
<1>1. arg[r] = None /\ arg \in [Requests -> Accounts \cup Providers \cup Logins \cup {None}]
  BY DEF CInv, IInv, TypeOK, Fresh
<1>2. arg'[r] = x
  BY <1>1
<1>3. Over' = Over \/ Over' = Over \cup {r}
  BY Moves DEF CInv, IInv, Ended
<1> QED
  BY <1>1, <1>2, <1>3 DEF Contract!NotAsked, Contract!Asks, Contract!Ends

LEMMA LoginRefines ==
  ASSUME CInv, NEW r \in Logins, LoginStep(r) \/ \E a \in Accounts : Login(r, a)
  PROVE  [Contract!ContractNext]_(Contract!contractVars)
<1>0. TypeOK /\ Shape /\ r \in Requests
  BY DEF CInv, IInv, Requests
<1>1. ASSUME NEW l, GiveUp(r, l), pc[r] # "idle", pc[r] \notin Ended
      PROVE  [Contract!ContractNext]_(Contract!contractVars)
  BY <1>0, <1>1, GivesUp DEF Contract!ContractNext
<1>2. ASSUME NEW a \in Accounts, Login(r, a)
      PROVE  Contract!ContractNext
  <2>1. Goto(r, "find") \/ Goto(r, "failed")
    BY <1>2, Replied DEF Login
  <2>2. /\ pc[r] = "idle" /\ arg' = [arg EXCEPT ![r] = a]
        /\ UNCHANGED <<users, owner, session, user>>
    BY <1>2 DEF Login, dbVars
  <2>3. Contract!NotAsked(r) /\ Contract!Asks(r, Accounts)
    BY <1>0, <2>1, <2>2, Starts
  <2> QED
    BY <2>2, <2>3 DEF Contract!ContractNext
<1>3. ASSUME owner[arg[r]] # None, user' = [user EXCEPT ![r] = owner[arg[r]]],
             Goto(r, "getuser"), pc[r] \in {"find", "again"},
             UNCHANGED <<users, owner, session, arg>>
      PROVE  Contract!ContractNext
  <2>1. user[r] = None /\ Contract!UnderWay(r)
    BY <1>0, <1>3, Going DEF Shape, Ended
  <2>2. Over' = Over
    BY <1>0, <1>3, Moves DEF Ended
  <2>3. Contract!Grant(r)
    BY <1>3, <2>1, <2>2 DEF Contract!Grant
  <2> QED
    BY <2>1, <2>3 DEF Contract!ContractNext
<1>4. CASE FindIdentity(r)
  <2>1. pc[r] = "find" /\ UNCHANGED <<users, owner, session, arg>>
    BY <1>4 DEF FindIdentity, dbVars
  <2>2. CASE Goto(r, "create") /\ UNCHANGED user
    BY <1>1, <2>1, <2>2 DEF GiveUp, dbVars, Ended
  <2> QED
    BY <1>3, <1>4, <2>1, <2>2 DEF FindIdentity
<1>5. CASE GetUser(r)
  BY <1>1, <1>5 DEF GetUser, Ended
<1>6. CASE CreateUserWithIdentity(r)
  <2>1. pc[r] = "create" /\ user[r] = None /\ Contract!UnderWay(r)
    BY <1>0, <1>6, Going DEF CreateUserWithIdentity, Shape, Ended
  <2>2. CASE GiveUp(r, "again") \/ GiveUp(r, "failed")
    BY <1>1, <2>1, <2>2 DEF Ended
  <2>3. ASSUME NEW u \in UserIds \ users, owner[arg[r]] = None, users' = users \cup {u},
               Insert(arg[r], u), UNCHANGED <<session, arg>>,
               \/ Goto(r, "session") /\ user' = [user EXCEPT ![r] = u]
               \/ Goto(r, "failed") /\ UNCHANGED user
        PROVE  Contract!ContractNext
    <3>1. CASE Goto(r, "session") /\ user' = [user EXCEPT ![r] = u]
      <4>1. Over' = Over
        BY <1>0, <2>1, <3>1, Moves DEF Ended
      <4>2. Contract!SignUp(r, u)
        BY <2>1, <2>3, <3>1, <4>1 DEF Contract!SignUp, Insert
      <4> QED
        BY <2>1, <4>2 DEF Contract!ContractNext
    <3>2. CASE Goto(r, "failed") /\ UNCHANGED user
      <4>1. Over' = Over \cup {r}
        BY <1>0, <2>1, <3>2, Moves DEF Ended
      <4>2. Contract!SignUp(r, u)
        BY <2>1, <2>3, <3>2, <4>1 DEF Contract!SignUp, Contract!Ends, Insert
      <4> QED
        BY <2>1, <4>2 DEF Contract!ContractNext
    <3> QED
      BY <2>3, <3>1, <3>2
  <2> QED
    BY <1>6, <2>2, <2>3 DEF CreateUserWithIdentity
<1>7. CASE FindAgain(r)
  <2>1. pc[r] = "again"
    BY <1>7 DEF FindAgain
  <2>2. CASE GiveUp(r, "failed")
    BY <1>1, <2>1, <2>2 DEF Ended
  <2> QED
    BY <1>3, <1>7, <2>1, <2>2 DEF FindAgain, dbVars
<1>8. CASE OpenSession(r)
  <2>1. pc[r] = "session" /\ user[r] # None /\ Contract!UnderWay(r)
    BY <1>0, <1>8, Going, NoneAssumption DEF OpenSession, Shape, TypeOK, Ended
  <2>2. CASE GiveUp(r, "failed")
    BY <1>1, <2>1, <2>2 DEF Ended
  <2>3. ASSUME session' = [session EXCEPT ![r] = user[r]],
               Goto(r, "ok") \/ Goto(r, "failed"),
               UNCHANGED <<users, owner, arg, user>>
        PROVE  Contract!ContractNext
    <3>1. Over' = Over \cup {r}
      BY <1>0, <2>1, <2>3, Moves DEF Ended
    <3>2. Contract!SignIn(r)
      BY <2>1, <2>3, <3>1 DEF Contract!SignIn, Contract!Ends
    <3> QED
      BY <2>1, <3>2 DEF Contract!ContractNext
  <2> QED
    BY <1>8, <2>2, <2>3 DEF OpenSession
<1> QED
  BY <1>2, <1>4, <1>5, <1>6, <1>7, <1>8 DEF LoginStep

LEMMA LinkRefines ==
  ASSUME CInv, NEW r \in Links,
         LinkStep(r) \/ \E l \in Logins, a \in Accounts : Link(r, l, a)
  PROVE  [Contract!ContractNext]_(Contract!contractVars)
<1>0. TypeOK /\ Shape /\ r \in Requests
  BY DEF CInv, IInv, Requests
<1>1. ASSUME NEW l, GiveUp(r, l), pc[r] # "idle", pc[r] \notin Ended
      PROVE  [Contract!ContractNext]_(Contract!contractVars)
  BY <1>0, <1>1, GivesUp DEF Contract!ContractNext
<1>2. ASSUME NEW l \in Logins, NEW a \in Accounts, Link(r, l, a)
      PROVE  Contract!ContractNext
  <2>1. Goto(r, "find") \/ Goto(r, "failed")
    BY <1>2, Replied DEF Link
  <2>2. /\ pc[r] = "idle" /\ arg' = [arg EXCEPT ![r] = a]
        /\ UNCHANGED <<users, owner, session>>
    BY <1>2 DEF Link, dbVars
  <2>3. Contract!NotAsked(r) /\ Contract!Asks(r, Accounts)
    BY <1>0, <2>1, <2>2, Starts
  <2>4. Contract!ActsFor(r, l)
    BY <1>2 DEF Link, LoginRequired, Contract!ActsFor
  <2> QED
    BY <2>3, <2>4 DEF Contract!ContractNext
<1>3. CASE FindExisting(r)
  BY <1>1, <1>3 DEF FindExisting, Ended
<1>4. CASE CreateIdentity(r)
  <2>1. pc[r] = "insert" /\ Contract!UnderWay(r)
    BY <1>0, <1>4, Going DEF CreateIdentity, Ended
  <2>2. CASE GiveUp(r, "refused") \/ GiveUp(r, "failed")
    BY <1>1, <2>1, <2>2 DEF Ended
  <2>3. ASSUME Insertable(arg[r], user[r]), Insert(arg[r], user[r]),
               Goto(r, "ok") \/ Goto(r, "failed"),
               UNCHANGED <<users, session, arg, user>>
        PROVE  Contract!ContractNext
    <3>1. Over' = Over \cup {r}
      BY <1>0, <2>1, <2>3, Moves DEF Ended
    <3>2. owner[arg[r]] = None /\ ~Contract!Has(user[r], ProviderOf[arg[r]])
      BY <2>3 DEF Insertable, OfProvider, Identities, Contract!Has
    <3>3. Contract!Attach(r)
      BY <2>3, <3>1, <3>2 DEF Contract!Attach, Contract!Ends, Insert
    <3> QED
      BY <2>1, <3>3 DEF Contract!ContractNext
  <2> QED
    BY <1>4, <2>2, <2>3 DEF CreateIdentity
<1> QED
  BY <1>2, <1>3, <1>4 DEF LinkStep

(* A delete by provider takes away a single account.                       *)
LEMMA DeletesOne ==
  ASSUME TypeOK, OneAccountPerProvider, NEW u \in users, NEW p \in Providers,
         OfProvider(u, p) # {},
         owner' = [a \in Accounts |-> IF a \in OfProvider(u, p) THEN None ELSE owner[a]]
  PROVE  \E a \in Accounts : /\ owner[a] = u /\ ProviderOf[a] = p
                              /\ owner' = [owner EXCEPT ![a] = None]
<1>1. PICK a \in Accounts : a \in OfProvider(u, p)
  BY DEF OfProvider, Identities
<1>2. OfProvider(u, p) = {a}
  BY <1>1 DEF OneAccountPerProvider, Several
<1>3. owner' = [owner EXCEPT ![a] = None]
  BY <1>2 DEF TypeOK
<1> QED
  BY <1>1, <1>3 DEF OfProvider, Identities

LEMMA UnlinkRefines ==
  ASSUME CInv, NEW r \in Unlinks,
         UnlinkStep(r) \/ \E l \in Logins, p \in Providers : Unlink(r, l, p)
  PROVE  [Contract!ContractNext]_(Contract!contractVars)
<1>0. TypeOK /\ Shape /\ OneAccountPerProvider /\ r \in Requests
  BY DEF CInv, IInv, Requests
<1>1. ASSUME NEW l, GiveUp(r, l), pc[r] # "idle", pc[r] \notin Ended
      PROVE  [Contract!ContractNext]_(Contract!contractVars)
  BY <1>0, <1>1, GivesUp DEF Contract!ContractNext
<1>2. ASSUME NEW l \in Logins, NEW p \in Providers, Unlink(r, l, p)
      PROVE  Contract!ContractNext
  <2>1. /\ pc[r] = "idle" /\ Goto(r, "list") /\ arg' = [arg EXCEPT ![r] = p]
        /\ UNCHANGED <<users, owner, session>>
    BY <1>2 DEF Unlink, dbVars
  <2>2. Contract!NotAsked(r) /\ Contract!Asks(r, Contract!Providers)
    BY <1>0, <2>1, Starts DEF Providers, Contract!Providers
  <2>3. Contract!ActsFor(r, l)
    BY <1>2 DEF Unlink, LoginRequired, Contract!ActsFor
  <2> QED
    BY <2>2, <2>3 DEF Contract!ContractNext
<1>3. CASE ListIdentities(r)
  BY <1>1, <1>3 DEF ListIdentities, Ended
<1>4. CASE DeleteIdentity(r)
  <2>1. pc[r] = "delete" /\ Contract!UnderWay(r) /\ user[r] \in users /\ arg[r] \in Providers
    BY <1>0, <1>4, Going DEF DeleteIdentity, Shape, Ended
  <2>2. CASE GiveUp(r, "failed")
    BY <1>1, <2>1, <2>2 DEF Ended
  <2>3. ASSUME OfProvider(user[r], arg[r]) # {},
               owner' = [a \in Accounts |->
                           IF a \in OfProvider(user[r], arg[r]) THEN None ELSE owner[a]],
               Goto(r, "ok") \/ Goto(r, "failed"),
               UNCHANGED <<users, session, arg, user>>
        PROVE  Contract!ContractNext
    <3>1. Over' = Over \cup {r}
      BY <1>0, <2>1, <2>3, Moves DEF Ended
    <3>2. PICK a \in Accounts : /\ owner[a] = user[r] /\ ProviderOf[a] = arg[r]
                                /\ owner' = [owner EXCEPT ![a] = None]
      BY <1>0, <2>1, <2>3, DeletesOne
    <3>3. Contract!Detach(r, a)
      BY <2>3, <3>1, <3>2 DEF Contract!Detach, Contract!Ends
    <3> QED
      BY <2>1, <3>3 DEF Contract!ContractNext
  <2> QED
    BY <1>4, <2>2, <2>3 DEF DeleteIdentity
<1> QED
  BY <1>2, <1>3, <1>4 DEF UnlinkStep

LEMMA LogoutRefines ==
  ASSUME CInv, NEW r \in Logouts, LogoutStep(r) \/ \E l \in Logins : Logout(r, l)
  PROVE  [Contract!ContractNext]_(Contract!contractVars)
<1>0. TypeOK /\ r \in Requests
  BY DEF CInv, IInv, Requests
<1>1. ASSUME NEW l, GiveUp(r, l), pc[r] # "idle", pc[r] \notin Ended
      PROVE  [Contract!ContractNext]_(Contract!contractVars)
  BY <1>0, <1>1, GivesUp DEF Contract!ContractNext
<1>2. ASSUME NEW l \in Logins, Logout(r, l)
      PROVE  Contract!ContractNext
  <2>1. /\ pc[r] = "idle" /\ Goto(r, "check") /\ arg' = [arg EXCEPT ![r] = l]
        /\ UNCHANGED <<users, owner, session>>
    BY <1>2 DEF Logout, dbVars
  <2>2. Contract!NotAsked(r) /\ Contract!Asks(r, {l})
    BY <1>0, <2>1, Starts
  <2>3. Contract!ActsFor(r, l)
    BY <1>2 DEF Logout, LoginRequired, Contract!ActsFor
  <2> QED
    BY <2>2, <2>3 DEF Contract!ContractNext
<1>3. CASE CheckSession(r)
  BY <1>1, <1>3 DEF CheckSession, Ended
<1>4. CASE RemoveSession(r)
  <2>1. pc[r] = "del" /\ Contract!UnderWay(r)
    BY <1>0, <1>4, Going DEF RemoveSession, Ended
  <2>2. CASE GiveUp(r, "failed")
    BY <1>1, <2>1, <2>2 DEF Ended
  <2>3. ASSUME session' = [session EXCEPT ![arg[r]] = None],
               Goto(r, "ok") \/ Goto(r, "failed"),
               UNCHANGED <<users, owner, arg, user>>
        PROVE  Contract!ContractNext
    <3>1. Over' = Over \cup {r}
      BY <1>0, <2>1, <2>3, Moves DEF Ended
    <3>2. Contract!SignOut(r)
      BY <2>3, <3>1 DEF Contract!SignOut, Contract!Ends
    <3> QED
      BY <2>1, <3>2 DEF Contract!ContractNext
  <2> QED
    BY <1>4, <2>2, <2>3 DEF RemoveSession
<1> QED
  BY <1>2, <1>3, <1>4 DEF LogoutStep

(* However the queries of logins, links, unlinks and logouts interleave,   *)
(* fail or lose their answers, every request does what it does in one step *)
(* and none after it is over. (auth.go: Login, LinkIdentity,               *)
(* UnlinkIdentity, Logout)                                                 *)
THEOREM RequestsAreAtomic == Spec => KeepsAuthContract
<1>1. Init => CInv
  BY InitIInv DEF Init, CInv, Fresh
<1>2. CInv /\ [Next]_vars => CInv'
  BY NextIInv, FreshStep DEF CInv
<1>3. Init => Contract!ContractInit
  BY DEF Init, Contract!ContractInit, Over, Ended, Requests
<1>4. CInv /\ [Next]_vars => [Contract!ContractNext]_(Contract!contractVars)
  <2> SUFFICES ASSUME CInv, [Next]_vars
               PROVE  [Contract!ContractNext]_(Contract!contractVars)
    OBVIOUS
  <2>1. ASSUME NEW l \in Logins, ExpireSession(l)
        PROVE  Contract!ContractNext
    <3>1. Contract!Expire(l)
      BY <2>1 DEF ExpireSession, Contract!Expire, Over
    <3> QED
      BY <3>1 DEF Contract!ContractNext
  <2>2. CASE UNCHANGED vars
    BY <2>2 DEF vars, Contract!contractVars, Over
  <2> QED
    BY <2>1, <2>2, LoginRefines, LinkRefines, UnlinkRefines, LogoutRefines DEF Next
<1> QED
  BY <1>1, <1>2, <1>3, <1>4, PTL DEF Spec, KeepsAuthContract, Contract!ContractSpec

(* A session is opened by its login alone; once that has ended it keeps    *)
(* its user and, logged out or expired, does not come back: a cookie never *)
(* changes hands. (auth.go: Login, Logout; session_manager.go)             *)
THEOREM SessionsOnlyEnd ==
  Spec => [][\A l \in Logins : pc[l] \in Ended => session'[l] \in {session[l], None}]_vars
<1>1. IInv /\ [Next]_vars =>
        [\A l \in Logins : pc[l] \in Ended => session'[l] \in {session[l], None}]_vars
  <2> SUFFICES ASSUME IInv, [Next]_vars, NEW l \in Logins, pc[l] \in Ended
               PROVE  session'[l] \in {session[l], None}
    OBVIOUS
  <2>0. TypeOK
    BY DEF IInv
  <2>1. ASSUME UNCHANGED session PROVE session'[l] \in {session[l], None}
    BY <2>1
  <2>2. ASSUME NEW r \in Logins, LoginStep(r) \/ \E a \in Accounts : Login(r, a)
        PROVE  session'[l] \in {session[l], None}
    <3>1. CASE OpenSession(r)
      BY <2>0, <3>1 DEF OpenSession, TypeOK, Ended, GiveUp, dbVars
    <3> QED
      BY <2>1, <2>2, <3>1 DEF LoginStep, Login, FindIdentity, GetUser, CreateUserWithIdentity,
                              FindAgain, GiveUp, dbVars
  <2>3. ASSUME NEW r \in Links, LinkStep(r) \/ \E k \in Logins, a \in Accounts : Link(r, k, a)
        PROVE  session'[l] \in {session[l], None}
    BY <2>1, <2>3 DEF LinkStep, Link, FindExisting, CreateIdentity, GiveUp, dbVars
  <2>4. ASSUME NEW r \in Unlinks,
               UnlinkStep(r) \/ \E k \in Logins, p \in Providers : Unlink(r, k, p)
        PROVE  session'[l] \in {session[l], None}
    BY <2>1, <2>4 DEF UnlinkStep, Unlink, ListIdentities, DeleteIdentity, GiveUp, dbVars
  <2>5. ASSUME NEW r \in Logouts, LogoutStep(r) \/ \E k \in Logins : Logout(r, k)
        PROVE  session'[l] \in {session[l], None}
    BY <2>0, <2>5 DEF LogoutStep, Logout, CheckSession, RemoveSession, GiveUp, dbVars, TypeOK
  <2>6. CASE UNCHANGED vars \/ \E k \in Logins : ExpireSession(k)
    BY <2>0, <2>6 DEF vars, ExpireSession, TypeOK
  <2> QED
    BY <2>2, <2>3, <2>4, <2>5, <2>6 DEF Next
<1> QED
  BY <1>1, Inductive, PTL DEF Spec
=============================================================================
