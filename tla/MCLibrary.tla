------------------------------ MODULE MCLibrary ------------------------------
(* Library on small instances, for TLC.                                     *)
EXTENDS Library, FiniteSets, TLC

CONSTANTS u1, u2, r1, r2, r3, c1, c2

(* A map of one tile with one placement; another with a longer name and the *)
(* tile turned and moved; and one with no width.                            *)
Tile(x, y, rot) == [id |-> "p", tileId |-> "t", x |-> x, y |-> y, rot |-> rot]
Drawing(n, v, w, h, ps) == [name |-> n, schemaVersion |-> v, widthUnits |-> w,
                            heightUnits |-> h, placements |-> ps]
MCMapData == {Drawing(1, 1, 6, 6, <<Tile(0, 0, 0)>>),
              Drawing(255, 1, 12, 6, <<Tile(0, 0, 0), Tile(6, 0, 3)>>),
              Drawing(1, 1, 0, 6, <<>>)}

(* The validator demands what the notes on the API do and whole tiles, at   *)
(* and around every edge of it; a map eight units wide is not to its taste. *)
ASSUME ValidatorAccepts ==
  /\ \A n \in {0, 1, 255, 256}, v \in 0..2, w \in -7..13, h \in {-6, 0, 6, 7} :
       LET d == Drawing(n, v, w, h, <<>>) IN Valid(d) <=> WellFormed(d) /\ OnTiles(d)
  /\ LET d == Drawing(1, 1, 8, 8, <<Tile(0, 0, 0)>>) IN WellFormed(d) /\ ~Valid(d)
  /\ \A x \in -7..13, y \in {-6, 0, 6, 7}, rot \in -1..4, id \in {"", "p"}, tile \in {"", "t"} :
       LET d == Drawing(1, 1, 6, 6, <<Tile(0, 0, 0),
                  [Tile(x, y, rot) EXCEPT !.id = id, !.tileId = tile]>>)
       IN Valid(d) <=> WellFormed(d) /\ OnTiles(d)

(* Requests for different kinds of document share no table and no check:    *)
(* TLC takes those for one kind at a time, and a store nobody asks about    *)
(* may as well be empty.                                                    *)
Asked(ops) == \E r \in Requests : pc[r] # "idle" /\ req[r].op \in ops

OneKind ==
  /\ Asked(EncounterOps) \/ (\E i \in Encounters : row[i] # None) =>
       ~Asked(MapOps) /\ (\A i \in Maps : issuedTo[i] = None)
  /\ Asked(EncounterOps \cup MapOps) \/ (\E i \in Encounters : row[i] # None)
                                     \/ (\E i \in Maps : issuedTo[i] # None) =>
       /\ ~Asked(CreatureOps \cup CharacterOps)
       /\ \A i \in Creatures : image[i] = {}
       /\ \A i \in Characters : character[i] = None

(* Nor do requests for creatures of different ids, except that the driver   *)
(* may make an _id which somebody then adds under: that insert fails.       *)
OneCreature ==
  Cardinality({req[r].id : r \in {s \in Requests : pc[s] # "idle" /\ req[s].op \in CreatureOps}}
              \cup {i \in Creatures : image[i] # {}}) <= 1

Alike == Permutations(Requests) \cup Permutations({u1, u2}) \cup Permutations({c1, c2})
=============================================================================
