---------------------------- MODULE TableContract ----------------------------
(***************************************************************************)
(* What a table promises, with no mutex, goroutine, socket or timer in it: *)
(* who sits at it, what has been played on it, and what is kept of that    *)
(* when it expires. TableSession implements it.                            *)
(*                                                                         *)
(*   - at most MaxPlayers players sit at once, the admin aside;            *)
(*   - the encounter on the table grows only by messages that were sent    *)
(*     and can be merged;                                                  *)
(*   - only one that cannot be merged spoils it, and a spoilt table is     *)
(*     frozen: nobody joins, leaves or is heard any more;                  *)
(*   - it is saved at most once, between opening and closing, and nothing  *)
(*     is saved that was not on the table: never the spoilt encounter.     *)
(***************************************************************************)
EXTENDS Naturals, FiniteSets

CONSTANTS Users, Admin, MaxPlayers, Patches, Malformed, Nil

VARIABLES seated, sent, doc, saved, phase

contractVars == <<seated, sent, doc, saved, phase>>

ContractInit ==
  /\ seated = {} /\ sent = {} /\ doc = {} /\ saved = {}
  /\ phase = "none"

Open == /\ phase = "none"
        /\ phase' = "open" /\ doc' = saved
        /\ UNCHANGED <<seated, sent, saved>>

Playable == phase # "none" /\ doc # Nil

Sit(u) == /\ Playable /\ u \notin seated
          /\ Cardinality((seated \cup {u}) \ {Admin}) <= MaxPlayers
          /\ seated' = seated \cup {u}
          /\ UNCHANGED <<sent, doc, saved, phase>>

Depart == /\ Playable
          /\ seated' \in SUBSET seated
          /\ UNCHANGED <<sent, doc, saved, phase>>

Play(m) == /\ phase # "none" /\ m \notin sent
           /\ sent' = sent \cup {m}
           /\ UNCHANGED <<seated, doc, saved, phase>>

(* Whoever cannot be told of the change loses the seat in the same step.   *)
Accept(m) == /\ Playable /\ m \in sent \ Malformed
             /\ doc' = doc \cup {m}
             /\ seated' \in SUBSET seated
             /\ UNCHANGED <<sent, saved, phase>>

Spoil == /\ Playable /\ sent \cap Malformed # {}
         /\ doc' = Nil
         /\ UNCHANGED <<seated, sent, saved, phase>>

(* What was on the table at some moment, or less; of a spoilt encounter no *)
(* more is known than what it can have been made of.                       *)
Save == /\ phase = "open"
        /\ phase' = "saved"
        /\ saved' \in SUBSET (IF doc = Nil THEN sent \ Malformed ELSE doc)
        /\ UNCHANGED <<seated, sent, doc>>

Close == /\ phase = "saved"
         /\ phase' = "closed"
         /\ UNCHANGED <<seated, sent, doc, saved>>

ContractNext ==
  \/ Open \/ Depart \/ Spoil \/ Save \/ Close
  \/ \E u \in Users : Sit(u)
  \/ \E m \in Patches : Play(m) \/ Accept(m)

ContractSpec == ContractInit /\ [][ContractNext]_contractVars
=============================================================================
