------------------------------- MODULE Library -------------------------------
(***************************************************************************)
(* The users' documents together: encounters and the tables opened on      *)
(* them, maps, creatures and characters, behind one pool of requests in    *)
(* one process.                                                            *)
(***************************************************************************)
EXTENDS Encounters, Maps, Creatures

vars == <<requestVars, encounterVars, mapVars, creatureVars>>

Ids  == Encounters \cup Maps \cup Creatures \cup Characters \cup {None}
Docs == Data \cup MapData \cup Users \cup {None}
Asks == [op : EncounterOps \cup MapOps \cup CreatureOps \cup CharacterOps,
         user : Users, id : Ids, doc : Docs]

ASSUME LibraryAssumption == None \notin Asks

TypeOK ==
  /\ EncountersTypeOK /\ MapsTypeOK /\ CreaturesTypeOK
  /\ pc \in [Requests -> Labels]
  /\ req \in [Requests -> Asks \cup {None}]
  /\ answer \in [Requests -> Answers \cup {None}]
  /\ \A r \in Requests :
       /\ pc[r] = "idle" <=> req[r] = None
       /\ pc[r] = "answered" <=> answer[r] # None

Init == RequestsInit /\ EncountersInit /\ MapsInit /\ CreaturesInit

(* The databases stay; requests and tables were the process's.             *)
Restart ==
  /\ CutOff
  /\ table' = [t \in Tables |-> None]
  /\ UNCHANGED <<row, mapVars, creatureVars>>

Next ==
  \/ \E r \in Requests :
       \/ EncounterStep(r) /\ UNCHANGED <<mapVars, creatureVars>>
       \/ MapStep(r) /\ UNCHANGED <<encounterVars, creatureVars>>
       \/ CreatureStep(r) /\ UNCHANGED <<encounterVars, mapVars>>
  \/ \E t \in Tables : Expire(t) /\ UNCHANGED <<mapVars, creatureVars>>
  \/ Restart

Spec == Init /\ [][Next]_vars
=============================================================================
