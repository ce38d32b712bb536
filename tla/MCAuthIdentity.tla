---------------------------- MODULE MCAuthIdentity ----------------------------
(* AuthIdentity on small sets of requests, for TLC.                        *)
EXTENDS AuthIdentity, TLC

CONSTANTS vk1, google1, google2, vk, google, l1, l2, k1, k2, d1, d2, u1, u2

MCAccounts   == {vk1, google1, google2}
MCProviderOf == (vk1 :> vk) @@ (google1 :> google) @@ (google2 :> google)

(* Logins can stand for one another, and so can unlinks, user ids and the  *)
(* two accounts of one provider.                                           *)
MCSymmetry == Permutations({l1, l2}) \cup Permutations({k1, k2}) \cup Permutations({d1, d2})
              \cup Permutations({u1, u2}) \cup Permutations({google1, google2})
(* All a logout does is end a session, which expiry does as well: no race  *)
(* of two links needs one.                                                 *)
LogoutApart == (\A k \in Links : arg[k] # None) => \A r \in Logouts : arg[r] = None
=============================================================================
