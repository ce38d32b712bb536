-------------------------------- MODULE Shelf --------------------------------
(***************************************************************************)
(* What a store of users' documents promises: a document is put on the     *)
(* shelf once, by its owner, who never changes; only the owner's own       *)
(* content replaces its content; once taken away it never comes back.      *)
(* Encounters and Maps implement it, the one by soft, the other by hard    *)
(* deletion.                                                               *)
(***************************************************************************)
CONSTANTS Ids, Users, Data, None

VARIABLES
  owner,    \* who put a document on the shelf, None before that
  content,  \* what lies there, and by whom it was written, or None
  gone      \* the documents taken away

shelfVars == <<owner, content, gone>>

Written(u, d) == [by |-> u, data |-> d]

(* A shelf in order: on it lies what was put and not taken away.           *)
ShelfInit ==
  /\ owner \in [Ids -> Users \cup {None}]
  /\ gone \subseteq {i \in Ids : owner[i] # None}
  /\ content \in [Ids -> {Written(u, d) : u \in Users, d \in Data} \cup {None}]
  /\ \A i \in Ids :
       /\ content[i] = None <=> (owner[i] = None \/ i \in gone)
       /\ content[i] # None => content[i].by = owner[i]

Put(i, u, d) ==
  /\ owner[i] = None
  /\ owner' = [owner EXCEPT ![i] = u]
  /\ content' = [content EXCEPT ![i] = Written(u, d)]
  /\ UNCHANGED gone

Rewrite(i, d) ==
  /\ content[i] # None
  /\ content' = [content EXCEPT ![i] = Written(owner[i], d)]
  /\ UNCHANGED <<owner, gone>>

TakeAway(i) ==
  /\ content[i] # None
  /\ content' = [content EXCEPT ![i] = None]
  /\ gone' = gone \cup {i}
  /\ UNCHANGED owner

ShelfNext ==
  \E i \in Ids :
    \/ TakeAway(i)
    \/ \E d \in Data : Rewrite(i, d) \/ \E u \in Users : Put(i, u, d)

ShelfSpec == ShelfInit /\ [][ShelfNext]_shelfVars
=============================================================================
