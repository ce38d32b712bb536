------------------------------ MODULE MCLists ------------------------------
(* Lists on a small instance, for TLC.                                      *)
EXTENDS Lists, TLC

Doc(i, owner, names, book, size, speed, rank) ==
  [id |-> i, owner |-> owner, names |-> names, book |-> book,
   traits |-> [size |-> {size}], speed |-> {speed}, rank |-> rank]

(* Three documents of one user and one that is everybody's, which of maps   *)
(* and encounters is another user's; two of them tie when they are sorted.  *)
MCDocs == {Doc(1, "u1", {"name.rus"}, "MM", "big", "flying", 1),
           Doc(2, "u1", {"name.eng", "name.rus"}, "XX", "small", "flying", 2),
           Doc(3, "u1", {"name.eng"}, "DMG", "big", "swimming", 3),
           Doc(4, "*", {"name.eng"}, "MM", "big", "walking", 2)}

MCMoveNames == [flies |-> "flying", swims |-> "swimming"]

Plain == [user |-> "u1", start |-> 0, size |-> 1, search |-> "", books |-> {},
          in |-> [size |-> {}], moving |-> {}, sort |-> "none"]

MCQueries ==
  {Plain,
   [Plain EXCEPT !.size = 2, !.books = {"MM"}, !.sort = "asc"],
   [Plain EXCEPT !.start = 1, !.search = "latin", !.moving = {"hops"}, !.sort = "desc"],
   [Plain EXCEPT !.search = "two latin words", !.in = [size |-> {"big"}], !.sort = "asc"],
   [Plain EXCEPT !.search = "neither alphabet", !.moving = {"flies", "hops"}, !.sort = "asc"],
   [Plain EXCEPT !.search = "both alphabets"],
   [Plain EXCEPT !.sort = "sideways"],
   [Plain EXCEPT !.start = 1, !.size = 0],
   [Plain EXCEPT !.start = -1, !.size = 7]}

(* A filter or an order that a list does not have makes no difference to it,*)
(* nor does where documents lie that are not of the query. The user's maps, *)
(* and encounters, are alike to every query: they may as well be found in   *)
(* the order of their ids. A second document touched shows nothing that the *)
(* first does not.                                                          *)
Relevant ==
  /\ kind \notin CreatureLists => query.sort # "sideways" /\ query.books = {} /\ query.moving = {}
  /\ kind = "maps" => query.search = ""
  /\ Cardinality(touched) <= 1
  /\ LET Others == {d \in Docs : ~Matches(query, d)}
     IN  /\ touched \cap Others = {}
         /\ kind \in {"encounters", "maps"} =>
              /\ (Docs \ Others) \X (IF kind = "maps" THEN rows \cap Others ELSE Others) \subseteq order
              /\ pc = "idle" => \A d, e \in Docs : d.id < e.id => <<d, e>> \in order
=============================================================================
