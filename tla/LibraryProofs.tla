---------------------------- MODULE LibraryProofs ----------------------------
(***************************************************************************)
(* Theorems about Library for every set of requests, users, documents and  *)
(* tables: what is stored and what requests are told, and that encounters  *)
(* and maps are shelves.                                                   *)
(***************************************************************************)
EXTENDS Library, TLAPS

(* What a request carries, by what it asks.                                *)
Carries(q) ==
  /\ q \in Asks
  /\ q.op \in EncounterOps \ {"save encounter"} => q.id \in Encounters
  /\ q.op \in {"save encounter", "update encounter"} => q.doc \in Data
  /\ q.op \in MapOps \ {"create map"} => q.id \in Maps
  /\ q.op \in {"create map", "update map"} => q.doc \in MapData
  /\ q.op \in CreatureOps => q.id \in Creatures
  /\ q.op = "add creature" => q.doc \in Users
  /\ q.op = "get character" => q.id \in Characters

WellAsked(r) == pc[r] # "idle" => Carries(req[r])

(* Once past the check a request for an encounter still has its row, which *)
(* is still its user's; so has a table.                                    *)
EncounterHeld(r) ==
  At(r, "act", {"get encounter", "update encounter", "remove encounter"}) =>
    row[req[r].id] # None /\ row[req[r].id].owner = req[r].user

TableHeld(t) == table[t] # None =>
  row[table[t].enc] # None /\ row[table[t].enc].owner = table[t].admin

OwnRow(i) == row[i] # None => row[i].by = row[i].owner

(* Once past the check a map was the user's, though it may be gone; what   *)
(* an update is about to write has been validated.                         *)
MapHeld(r) ==
  /\ At(r, "act", {"get map", "update map", "delete map"}) =>
       issuedTo[req[r].id] = req[r].user
  /\ At(r, "act", {"update map"}) => Valid(req[r].doc)

OwnMap(i) == mapRow[i] # None =>
  /\ mapRow[i].owner = issuedTo[i] /\ mapRow[i].by = issuedTo[i]
  /\ WellFormed(mapRow[i].data)

(* What 404 and 204 mean.                                                  *)
MapGone(r) == pc[r] = "answered" /\ answer[r].code \in {204, 404} =>
  req[r].id \in Maps /\ issuedTo[req[r].id] # None /\ mapRow[req[r].id] = None

(* The images a request has put are there when it makes its next store.    *)
ImagesPut(r) ==
  /\ At(r, "second", {"add creature"}) => "processed" \in image[req[r].id]
  /\ At(r, "store", {"add creature"}) => image[req[r].id] = Images

EncounterInv ==
  /\ EncountersTypeOK
  /\ \A r \in Requests : EncounterHeld(r)
  /\ \A t \in Tables : TableHeld(t)
  /\ \A i \in Encounters : OwnRow(i)

MapInv ==
  /\ MapsTypeOK
  /\ \A r \in Requests : MapHeld(r) /\ MapGone(r)
  /\ \A i \in Maps : OwnMap(i)
  /\ OneDeleteWins

(* A creature is asked for by its own id, or by the ObjectID of zeros.      *)
UrlOf(i) == url[i] \in IF creature[i] = None THEN {None} ELSE {i, NilObjectID}

CreatureInv ==
  /\ CreaturesTypeOK
  /\ \A i \in Creatures : UrlOf(i)
  /\ \A r \in Requests : ImagesPut(r)
  /\ ImagesPresent

RequestInv ==
  /\ pc \in [Requests -> Labels]
  /\ req \in [Requests -> Asks \cup {None}]
  /\ answer \in [Requests -> Answers \cup {None}]
  /\ \A r \in Requests :
       /\ pc[r] = "idle" <=> req[r] = None
       /\ pc[r] = "answered" <=> answer[r] # None
       /\ WellAsked(r)

IInv == RequestInv /\ EncounterInv /\ MapInv /\ CreatureInv /\ AnsweredToOwner

-----------------------------------------------------------------------------
(* What a step of request r does to the requests.                          *)
Only(r) == \A s \in Requests \ {r} :
  pc'[s] = pc[s] /\ req'[s] = req[s] /\ answer'[s] = answer[s]

(* A request that asks: what the handlers take is well asked.              *)
LEMMA AskStep ==
  ASSUME RequestInv, NEW r \in Requests, NEW q, Carries(q),
         NEW l \in {"check", "act"}, pc[r] = "idle",
         pc' = [pc EXCEPT ![r] = l], req' = [req EXCEPT ![r] = q], answer' = answer
  PROVE  RequestInv' /\ Only(r) /\ pc'[r] = l /\ req'[r] = q
<1>1. Only(r) /\ pc'[r] = l /\ req'[r] = q /\ answer'[r] = answer[r]
  BY DEF RequestInv, Only
<1>2. q \in Asks /\ q # None
  BY LibraryAssumption DEF Carries
<1> QED  BY <1>1, <1>2 DEF RequestInv, WellAsked, Only, Labels

(* A request that goes on to its next query.                               *)
LEMMA ContinueStep ==
  ASSUME RequestInv, NEW r \in Requests, NEW l \in {"act", "second", "store"},
         pc[r] \in {"check", "act", "second"}, Continue(r, l)
  PROVE  RequestInv' /\ Only(r) /\ pc'[r] = l /\ req'[r] = req[r]
<1>1. pc' = [pc EXCEPT ![r] = l] /\ req' = req /\ answer' = answer
  BY DEF Continue
<1>2. Only(r) /\ pc'[r] = l /\ req'[r] = req[r] /\ answer'[r] = answer[r]
  BY <1>1 DEF RequestInv, Only
<1> QED  BY <1>1, <1>2 DEF RequestInv, WellAsked, Only, Labels

(* A request that is answered.                                             *)
LEMMA SendStep ==
  ASSUME RequestInv, NEW r \in Requests, NEW code \in Codes, NEW owner \in Owners,
         pc[r] \in {"check", "act", "second", "store"}, Send(r, code, owner)
  PROVE  /\ RequestInv' /\ Only(r)
         /\ pc'[r] = "answered" /\ req'[r] = req[r]
         /\ answer'[r] = [code |-> code, owner |-> owner]
<1> DEFINE a == [code |-> code, owner |-> owner]
<1>1. pc' = [pc EXCEPT ![r] = "answered"] /\ req' = req /\ answer' = [answer EXCEPT ![r] = a]
  BY DEF Send
<1>2. Only(r) /\ pc'[r] = "answered" /\ req'[r] = req[r] /\ answer'[r] = a
  BY <1>1 DEF RequestInv, Only
<1>3. a \in Answers /\ a # None
  BY RequestsAssumption DEF Answers
<1> QED  BY <1>1, <1>2, <1>3 DEF RequestInv, WellAsked, Only, Labels

-----------------------------------------------------------------------------
(* A step of a request for another kind of document, which leaves the      *)
(* stores of this kind alone.                                              *)
LEMMA EncounterFrame ==
  ASSUME EncounterInv, UNCHANGED encounterVars, NEW r \in Requests, Only(r),
         req'[r].op \notin EncounterOps
  PROVE  EncounterInv'
<1>1. ASSUME NEW s \in Requests PROVE EncounterHeld(s)'
  <2>1. CASE s = r
    BY <2>1 DEF EncounterHeld, At, EncounterOps
  <2>2. CASE s # r
    BY <2>2 DEF EncounterInv, EncounterHeld, At, Only, encounterVars
  <2> QED  BY <2>1, <2>2
<1>2. EncountersTypeOK' /\ \A t \in Tables : TableHeld(t)'
  BY DEF EncounterInv, EncountersTypeOK, TableHeld, encounterVars
<1>3. \A i \in Encounters : OwnRow(i)'
  BY DEF EncounterInv, OwnRow, encounterVars
<1> QED  BY <1>1, <1>2, <1>3 DEF EncounterInv

LEMMA MapFrame ==
  ASSUME MapInv, UNCHANGED mapVars, NEW r \in Requests, Only(r),
         req'[r].op \notin MapOps,
         pc'[r] = "answered" => answer'[r].code \notin {204, 404}
  PROVE  MapInv'
<1>1. ASSUME NEW s \in Requests PROVE (MapHeld(s) /\ MapGone(s))'
  <2>1. CASE s = r
    BY <2>1 DEF MapHeld, MapGone, At, MapOps
  <2>2. CASE s # r
    <3>1. pc'[s] = pc[s] /\ req'[s] = req[s] /\ answer'[s] = answer[s]
      BY <2>2 DEF Only
    <3>2. MapHeld(s) /\ MapGone(s)
      BY DEF MapInv
    <3>3. MapHeld(s)'
      BY <3>1, <3>2, ZenonT(60) DEF MapHeld, At, mapVars
    <3>4. MapGone(s)'
      BY <3>1, <3>2 DEF MapGone, mapVars
    <3> QED  BY <3>3, <3>4
  <2> QED  BY <2>1, <2>2
<1>2. MapsTypeOK' /\ \A i \in Maps : OwnMap(i)'
  BY DEF MapInv, MapsTypeOK, OwnMap, mapVars
<1>3. OneDeleteWins'
  BY DEF MapInv, OneDeleteWins, Only, mapVars
<1> QED  BY <1>1, <1>2, <1>3 DEF MapInv

LEMMA CreatureFrame ==
  ASSUME CreatureInv, UNCHANGED creatureVars, NEW r \in Requests, Only(r),
         req'[r].op # "add creature"
  PROVE  CreatureInv'
<1>1. ASSUME NEW s \in Requests PROVE ImagesPut(s)'
  <2>1. CASE s = r
    BY <2>1 DEF ImagesPut, At
  <2>2. CASE s # r
    BY <2>2 DEF CreatureInv, ImagesPut, At, Only, creatureVars
  <2> QED  BY <2>1, <2>2
<1>2. CreaturesTypeOK' /\ ImagesPresent' /\ \A i \in Creatures : UrlOf(i)'
  BY DEF CreatureInv, CreaturesTypeOK, ImagesPresent, UrlOf, creatureVars
<1> QED  BY <1>1, <1>2 DEF CreatureInv

(* An answer that goes to the owner, or carries no document.               *)
LEMMA OwnerFrame ==
  ASSUME AnsweredToOwner, NEW r \in Requests, Only(r),
         pc'[r] = "answered" => answer'[r].owner \in {None, Public, req'[r].user}
  PROVE  AnsweredToOwner'
BY DEF AnsweredToOwner, Only

-----------------------------------------------------------------------------
(* A request for an encounter: what it does to the requests.               *)
EncounterMove(r) ==
  /\ RequestInv' /\ Only(r)
  /\ req'[r].op \in EncounterOps
  /\ pc[r] # "idle" => req'[r] = req[r]
  /\ pc'[r] = "answered" =>
       /\ answer'[r].code \notin {204, 404}
       /\ answer'[r].owner \in {None, req'[r].user}

LEMMA EncounterAsks ==
  ASSUME RequestInv, NEW r \in Requests, AskEncounter(r)
  PROVE  /\ EncounterMove(r)
         /\ pc'[r] # "check" => req'[r].op \in {"save encounter", "open table"}
<1>1. PICK u \in Users, d \in Data :
       \/ Ask(r, "save encounter", u, None, d, "act")
       \/ \E i \in Encounters :
            \/ Ask(r, "update encounter", u, i, d, "check")
            \/ \E op \in {"get encounter", "remove encounter"} :
                 Ask(r, op, u, i, None, "check")
            \/ Ask(r, "open table", u, i, None, "act")
  BY DEF AskEncounter
<1>0. pc[r] = "idle"
  BY <1>1 DEF Ask
<1>2. CASE Ask(r, "save encounter", u, None, d, "act")
  <2> DEFINE q == [op |-> "save encounter", user |-> u, id |-> None, doc |-> d]
  <2>1. Carries(q) /\ q.op = "save encounter"
    BY DEF Carries, Asks, Ids, Docs, EncounterOps, MapOps, CreatureOps
  <2>2. /\ pc' = [pc EXCEPT ![r] = "act"] /\ req' = [req EXCEPT ![r] = q]
        /\ answer' = answer
    BY <1>2 DEF Ask
  <2> HIDE DEF q
  <2>3. RequestInv' /\ Only(r) /\ pc'[r] = "act" /\ req'[r] = q
    BY <1>0, <2>1, <2>2, AskStep
  <2> QED  BY <1>0, <2>1, <2>3 DEF EncounterMove, EncounterOps
<1>3. ASSUME NEW i \in Encounters, NEW op \in EncounterOps \ {"save encounter"},
             NEW e \in Data \cup {None}, NEW l \in {"check", "act"},
             op = "update encounter" => e \in Data,
             op # "open table" => l = "check",
             Ask(r, op, u, i, e, l)
      PROVE  /\ EncounterMove(r)
             /\ pc'[r] # "check" => req'[r].op \in {"save encounter", "open table"}
  <2> DEFINE q == [op |-> op, user |-> u, id |-> i, doc |-> e]
  <2>1. Carries(q) /\ q.op = op
    BY <1>3 DEF Carries, Asks, Ids, Docs, EncounterOps, MapOps, CreatureOps
  <2>2. /\ pc' = [pc EXCEPT ![r] = l] /\ req' = [req EXCEPT ![r] = q]
        /\ answer' = answer
    BY <1>3 DEF Ask
  <2> HIDE DEF q
  <2>3. RequestInv' /\ Only(r) /\ pc'[r] = l /\ req'[r] = q
    BY <1>0, <2>1, <2>2, AskStep
  <2> QED  BY <1>0, <1>3, <2>1, <2>3 DEF EncounterMove, EncounterOps
<1> QED  BY <1>1, <1>2, <1>3 DEF EncounterOps

LEMMA EncounterMoves ==
  ASSUME RequestInv, EncounterInv, NEW r \in Requests, EncounterStep(r), ~AskEncounter(r)
  PROVE  EncounterMove(r) /\ req[r].op \in EncounterOps /\ pc[r] \in {"check", "act"}
<1>1. pc[r] \in {"check", "act"} /\ req[r].op \in EncounterOps
  BY ZenonT(60) DEF EncounterStep, CheckEncounter, GetEncounter, SaveEncounter, UpdateEncounter,
         RemoveEncounter, OpenTable, At, EncounterOps
<1> SUFFICES EncounterMove(r)
  BY <1>1
<1>2. req[r].user \in Users /\ {None, req[r].user} \subseteq Owners
  BY <1>1 DEF RequestInv, WellAsked, Carries, Asks, Owners
<1>3. ASSUME NEW code \in {200, 400, 403, 500}, NEW owner \in {None, req[r].user},
             Send(r, code, owner)
      PROVE  EncounterMove(r)
  <2>1. /\ RequestInv' /\ Only(r) /\ pc'[r] = "answered" /\ req'[r] = req[r]
        /\ answer'[r] = [code |-> code, owner |-> owner]
    BY <1>1, <1>2, <1>3, SendStep DEF Codes
  <2> QED  BY <1>1, <2>1 DEF EncounterMove
<1>4. ASSUME NEW code \in {200, 400, 403, 500}, Answer(r, code)
      PROVE  EncounterMove(r)
  BY <1>3, <1>4 DEF Answer
<1>5. CASE Continue(r, "act")
  <2>1. RequestInv' /\ Only(r) /\ pc'[r] = "act" /\ req'[r] = req[r]
    BY <1>1, <1>5, ContinueStep
  <2> QED  BY <1>1, <2>1 DEF EncounterMove
<1>6. CASE CheckEncounter(r)
  BY <1>4, <1>5, <1>6 DEF CheckEncounter
<1>7. CASE GetEncounter(r)
  <2>1. row[req[r].id].owner = req[r].user
    BY <1>7 DEF GetEncounter, EncounterInv, EncounterHeld, At
  <2>2. Send(r, 200, row[req[r].id].owner) => EncounterMove(r)
    BY <1>3, <2>1
  <2>3. Answer(r, 500) => EncounterMove(r)
    BY <1>4
  <2>4. Send(r, 200, row[req[r].id].owner) \/ Answer(r, 500)
    BY <1>7 DEF GetEncounter
  <2> QED  BY <2>2, <2>3, <2>4
<1>8. CASE SaveEncounter(r) \/ UpdateEncounter(r) \/ RemoveEncounter(r) \/ OpenTable(r)
  <2>1. Answer(r, 200) => EncounterMove(r)
    BY <1>4
  <2>2. Answer(r, 400) => EncounterMove(r)
    BY <1>4
  <2>3. Answer(r, 500) => EncounterMove(r)
    BY <1>4
  <2>4. Answer(r, 200) \/ Answer(r, 400) \/ Answer(r, 500)
    BY <1>8 DEF SaveEncounter, UpdateEncounter, RemoveEncounter, OpenTable
  <2> QED  BY <2>1, <2>2, <2>3, <2>4
<1> QED  BY <1>6, <1>7, <1>8 DEF EncounterStep

-----------------------------------------------------------------------------
(* What a query does to the rows: owners stay, and so does OwnRow.         *)
RowsKept ==
  /\ row' \in [Encounters -> EncounterRow \cup {None}]
  /\ \A i \in Encounters : OwnRow(i)'
  /\ \A i \in Encounters : row[i] # None => row'[i] # None /\ row'[i].owner = row[i].owner

LEMMA RowsUnchanged ==
  ASSUME EncounterInv, row' = row
  PROVE  RowsKept
BY DEF RowsKept, EncounterInv, EncountersTypeOK, OwnRow

LEMMA RowStored ==
  ASSUME EncounterInv, NEW i \in Encounters, row[i] # None,
         NEW q \in EncounterRow, q.owner = row[i].owner, q.by = q.owner,
         row' = [row EXCEPT ![i] = q]
  PROVE  RowsKept
<1>1. q # None
  BY EncountersAssumption
<1> QED  BY <1>1 DEF RowsKept, EncounterInv, EncountersTypeOK, OwnRow

LEMMA DataStored ==
  ASSUME EncounterInv, NEW i \in Encounters, NEW u, NEW d \in Data, row[i] # None,
         row[i].owner = u, StoreData(i, u, d)
  PROVE  RowsKept
<1> DEFINE q == [row[i] EXCEPT !.data = d, !.by = u]
<1>1. row[i] \in EncounterRow
  BY DEF EncounterInv, EncountersTypeOK
<1>2. q \in EncounterRow /\ q.owner = row[i].owner /\ q.by = q.owner
  BY <1>1 DEF EncounterRow
<1>3. row' = [row EXCEPT ![i] = q]
  BY DEF StoreData
<1> QED  BY <1>2, <1>3, RowStored

LEMMA RowInserted ==
  ASSUME RequestInv, EncounterInv, NEW r \in Requests, SaveEncounter(r)
  PROVE  RowsKept /\ UNCHANGED table
<1>1. req[r] \in Asks /\ req[r].doc \in Data
  BY DEF RequestInv, WellAsked, Carries, SaveEncounter, At
<1>2. CASE UNCHANGED row
  BY <1>2, RowsUnchanged DEF SaveEncounter
<1>3. ASSUME NEW i \in Encounters, InsertEncounter(r, i)
      PROVE  RowsKept
  <2> DEFINE q == [owner |-> req[r].user, data |-> req[r].doc,
                   by |-> req[r].user, deleted |-> FALSE]
  <2>1. q \in EncounterRow /\ q.by = q.owner
    BY <1>1 DEF EncounterRow, Asks
  <2>2. q # None
    BY <2>1, EncountersAssumption
  <2>3. row[i] = None /\ row' = [row EXCEPT ![i] = q]
    BY <1>3 DEF InsertEncounter
  <2> HIDE DEF q
  <2> QED  BY <2>1, <2>2, <2>3 DEF RowsKept, EncounterInv, EncountersTypeOK, OwnRow
<1> QED  BY <1>2, <1>3 DEF SaveEncounter

LEMMA RowUpdated ==
  ASSUME RequestInv, EncounterInv, NEW r \in Requests, UpdateEncounter(r)
  PROVE  RowsKept /\ UNCHANGED table
<1>1. req[r].id \in Encounters /\ req[r].doc \in Data
  BY DEF RequestInv, WellAsked, Carries, UpdateEncounter, At, EncounterOps
<1>2. row[req[r].id] # None /\ row[req[r].id].owner = req[r].user
  BY DEF EncounterInv, EncounterHeld, UpdateEncounter, At
<1>3. CASE StoreData(req[r].id, req[r].user, req[r].doc)
  BY <1>1, <1>2, <1>3, DataStored DEF UpdateEncounter
<1>4. CASE UNCHANGED row
  BY <1>4, RowsUnchanged DEF UpdateEncounter
<1> QED  BY <1>3, <1>4 DEF UpdateEncounter

LEMMA RowRemoved ==
  ASSUME RequestInv, EncounterInv, NEW r \in Requests, RemoveEncounter(r)
  PROVE  RowsKept /\ UNCHANGED table
<1> DEFINE i == req[r].id
           q == [row[i] EXCEPT !.deleted = TRUE]
<1>1. i \in Encounters
  BY DEF RequestInv, WellAsked, Carries, RemoveEncounter, At, EncounterOps
<1>2. row[i] # None /\ row[i] \in EncounterRow /\ row[i].by = row[i].owner
  BY <1>1 DEF EncounterInv, EncountersTypeOK, OwnRow, EncounterHeld, RemoveEncounter, At
<1>3. q \in EncounterRow /\ q.owner = row[i].owner /\ q.by = q.owner
  BY <1>2 DEF EncounterRow
<1>4. CASE row' = [row EXCEPT ![i].deleted = TRUE]
  <2>1. row' = [row EXCEPT ![i] = q]
    BY <1>4
  <2> QED  BY <1>1, <1>2, <1>3, <2>1, RowStored DEF RemoveEncounter
<1>5. CASE UNCHANGED row
  BY <1>5, RowsUnchanged DEF RemoveEncounter
<1> QED  BY <1>4, <1>5 DEF RemoveEncounter

(* A table's row is there and its admin's when it opens, and rows are kept *)
(* while it is open.                                                       *)
LEMMA TableOpened ==
  ASSUME RequestInv, EncounterInv, NEW r \in Requests, OpenTable(r)
  PROVE  /\ table' \in [Tables -> OpenTables \cup {None}]
         /\ \A t \in Tables : TableHeld(t)'
         /\ UNCHANGED row
<1>1. UNCHANGED row
  BY DEF OpenTable
<1>2. CASE UNCHANGED table
  BY <1>1, <1>2 DEF EncounterInv, EncountersTypeOK, TableHeld
<1>3. ASSUME NEW t \in Tables, Live(req[r].id), row[req[r].id].owner = req[r].user,
             table' = [table EXCEPT ![t] = [enc |-> req[r].id, admin |-> req[r].user]]
      PROVE  /\ table' \in [Tables -> OpenTables \cup {None}]
             /\ \A s \in Tables : TableHeld(s)'
  <2> DEFINE o == [enc |-> req[r].id, admin |-> req[r].user]
  <2>1. req[r].id \in Encounters /\ req[r].user \in Users
    BY DEF RequestInv, WellAsked, Carries, Asks, OpenTable, At, EncounterOps
  <2>2. o \in OpenTables /\ o.enc = req[r].id /\ o.admin = req[r].user
    BY <2>1 DEF OpenTables
  <2>3. table' = [table EXCEPT ![t] = o]
    BY <1>3
  <2> HIDE DEF o
  <2> QED  BY <1>1, <1>3, <2>2, <2>3 DEF EncounterInv, EncountersTypeOK, TableHeld, Live
<1> QED  BY <1>1, <1>2, <1>3 DEF OpenTable

LEMMA EncounterKept ==
  ASSUME RequestInv, EncounterInv, NEW r \in Requests, EncounterStep(r)
  PROVE  RowsKept /\ EncounterInv'
<1>1. CASE AskEncounter(r)
  <2>1. EncounterMove(r) /\ (pc'[r] # "check" => req'[r].op \in {"save encounter", "open table"})
    BY <1>1, EncounterAsks
  <2>2. UNCHANGED <<row, table>>
    BY <1>1 DEF AskEncounter, encounterVars
  <2>3. ASSUME NEW s \in Requests PROVE EncounterHeld(s)'
    <3>1. CASE s = r
      <4>1. pc'[r] = "act" => req'[r].op \in {"save encounter", "open table"}
        BY <2>1
      <4> QED  BY <3>1, <4>1 DEF EncounterHeld, At
    <3>2. CASE s # r
      <4>1. pc'[s] = pc[s] /\ req'[s] = req[s]
        BY <2>1, <3>2, ZenonT(60) DEF EncounterMove, Only
      <4>2. EncounterHeld(s) /\ row' = row
        BY <2>2 DEF EncounterInv
      <4> QED  BY <4>1, <4>2 DEF EncounterHeld, At
    <3> QED  BY <3>1, <3>2
  <2> QED  BY <2>2, <2>3, RowsUnchanged
           DEF EncounterInv, EncountersTypeOK, TableHeld, RowsKept
<1>2. CASE ~AskEncounter(r)
  <2>1. EncounterMove(r) /\ req[r].op \in EncounterOps /\ pc[r] \in {"check", "act"}
    BY <1>2, EncounterMoves
  <2>2. Only(r) /\ req'[r] = req[r] /\ RequestInv'
    BY <2>1 DEF EncounterMove
  <2>3. CASE CheckEncounter(r)
    <3>1. UNCHANGED <<row, table>>
      BY <2>3 DEF CheckEncounter, encounterVars
    <3>2. pc'[r] = "act" => EncounterPermission(req[r].id, req[r].user)
      BY <2>3 DEF CheckEncounter, Answer, Send, RequestInv
    <3>3. ASSUME NEW s \in Requests PROVE EncounterHeld(s)'
      <4>1. CASE s = r
        BY <2>2, <3>1, <3>2, <4>1 DEF EncounterHeld, At, EncounterPermission, Live
      <4>2. CASE s # r
        BY <2>2, <3>1, <4>2 DEF EncounterInv, EncounterHeld, At, Only
      <4> QED  BY <4>1, <4>2
    <3> QED  BY <3>1, <3>3, RowsUnchanged
             DEF EncounterInv, EncountersTypeOK, TableHeld, RowsKept
  <2>4. CASE ~CheckEncounter(r)
    <3>1. pc'[r] = "answered"
      BY <1>2, <2>4, ZenonT(60) DEF EncounterStep, GetEncounter, SaveEncounter, UpdateEncounter,
                        RemoveEncounter, OpenTable, Answer, Send, RequestInv
    <3>2. /\ RowsKept
          /\ table' \in [Tables -> OpenTables \cup {None}]
          /\ \A t \in Tables : TableHeld(t)'
      <4>1. CASE OpenTable(r)
        BY <4>1, TableOpened, RowsUnchanged
      <4>2. CASE ~OpenTable(r)
        <5>1. RowsKept /\ UNCHANGED table
          BY <1>2, <2>4, <4>2, RowsUnchanged, RowInserted, RowUpdated, RowRemoved
          DEF EncounterStep, GetEncounter, encounterVars
        <5> QED  BY <5>1 DEF RowsKept, EncounterInv, EncountersTypeOK, TableHeld, OpenTables
      <4> QED  BY <4>1, <4>2
    <3>3. \A s \in Requests : EncounterHeld(s)'
      <4>1. ASSUME NEW s \in Requests,
                   At(s, "act", {"get encounter", "update encounter", "remove encounter"})'
            PROVE  row'[req'[s].id] # None /\ row'[req'[s].id].owner = req'[s].user
        <5>1. s # r /\ pc'[s] = pc[s] /\ req'[s] = req[s]
          BY <2>2, <3>1, <4>1 DEF At, Only
        <5>2. row[req[s].id] # None /\ row[req[s].id].owner = req[s].user
          BY <4>1, <5>1 DEF EncounterInv, EncounterHeld, At
        <5>3. req[s].id \in Encounters
          BY <4>1, <5>1 DEF At, RequestInv, WellAsked, Carries, EncounterOps
        <5> QED  BY <3>2, <5>1, <5>2, <5>3 DEF RowsKept
      <4> QED  BY <4>1 DEF EncounterHeld
    <3> QED  BY <3>2, <3>3 DEF EncounterInv, EncountersTypeOK, RowsKept
  <2> QED  BY <2>3, <2>4
<1> QED  BY <1>1, <1>2

(* A table that expires.                                                   *)
LEMMA ExpireKept ==
  ASSUME RequestInv, EncounterInv, NEW t \in Tables, Expire(t)
  PROVE  RowsKept /\ EncounterInv' /\ RequestInv'
<1>1. table[t] \in OpenTables /\ table[t].enc \in Encounters
  BY DEF Expire, EncounterInv, EncountersTypeOK, OpenTables
<1>2. row[table[t].enc] # None /\ row[table[t].enc].owner = table[t].admin
  BY DEF Expire, EncounterInv, TableHeld
<1>3. RowsKept
  <2>1. CASE UNCHANGED row
    BY <2>1, RowsUnchanged
  <2>2. ASSUME NEW d \in Data, StoreData(table[t].enc, table[t].admin, d)
        PROVE  RowsKept
    BY <1>1, <1>2, <2>2, DataStored
  <2> QED  BY <2>1, <2>2 DEF Expire
<1>4. /\ table' \in [Tables -> OpenTables \cup {None}]
      /\ \A s \in Tables : table'[s] # None => table'[s] = table[s] /\ table[s] # None
  BY DEF Expire, EncounterInv, EncountersTypeOK
<1>5. \A s \in Tables : TableHeld(s)'
  BY <1>3, <1>4 DEF RowsKept, EncounterInv, EncountersTypeOK, TableHeld, OpenTables
<1>6. UNCHANGED <<pc, req, answer>>
  BY DEF Expire, requestVars
<1>7. ASSUME NEW s \in Requests PROVE EncounterHeld(s)'
  <2>1. SUFFICES ASSUME At(s, "act", {"get encounter", "update encounter", "remove encounter"})
                 PROVE  row'[req[s].id] # None /\ row'[req[s].id].owner = req[s].user
    BY <1>6 DEF EncounterHeld, At
  <2>2. req[s].id \in Encounters
    BY <2>1 DEF At, RequestInv, WellAsked, Carries, EncounterOps
  <2> QED  BY <1>3, <2>1, <2>2 DEF RowsKept, EncounterInv, EncounterHeld
<1>8. RequestInv'
  BY <1>6 DEF RequestInv, WellAsked
<1> QED  BY <1>3, <1>4, <1>5, <1>7, <1>8 DEF EncounterInv, EncountersTypeOK, RowsKept

-----------------------------------------------------------------------------
(* A request for a map: what it does to the requests.                      *)
MapMove(r) ==
  /\ RequestInv' /\ Only(r)
  /\ req'[r].op \in MapOps
  /\ pc[r] # "idle" => req'[r] = req[r]
  /\ pc'[r] = "answered" => answer'[r].owner \in {None, req'[r].user}

LEMMA MapAsks ==
  ASSUME RequestInv, NEW r \in Requests, AskMap(r)
  PROVE  MapMove(r) /\ (pc'[r] = "check" \/ (pc'[r] = "act" /\ req'[r].op = "create map"))
<1>1. PICK u \in Users, d \in MapData :
       \/ Ask(r, "create map", u, None, d, "act")
       \/ \E i \in Maps :
            \/ Ask(r, "update map", u, i, d, "check")
            \/ \E op \in {"get map", "delete map"} : Ask(r, op, u, i, None, "check")
  BY DEF AskMap
<1>2. pc[r] = "idle"
  BY <1>1 DEF Ask
<1>3. CASE Ask(r, "create map", u, None, d, "act")
  <2> DEFINE q == [op |-> "create map", user |-> u, id |-> None, doc |-> d]
  <2>1. Carries(q) /\ q.op = "create map"
    BY DEF Carries, Asks, Ids, Docs, EncounterOps, MapOps, CreatureOps
  <2>2. /\ pc' = [pc EXCEPT ![r] = "act"] /\ req' = [req EXCEPT ![r] = q]
        /\ answer' = answer
    BY <1>3 DEF Ask
  <2> HIDE DEF q
  <2>3. RequestInv' /\ Only(r) /\ pc'[r] = "act" /\ req'[r] = q
    BY <1>2, <2>1, <2>2, AskStep
  <2> QED  BY <1>2, <2>1, <2>3 DEF MapMove, MapOps
<1>4. ASSUME NEW i \in Maps, NEW op \in MapOps \ {"create map"}, NEW e \in MapData \cup {None},
             op = "update map" => e \in MapData, Ask(r, op, u, i, e, "check")
      PROVE  MapMove(r) /\ pc'[r] = "check"
  <2> DEFINE q == [op |-> op, user |-> u, id |-> i, doc |-> e]
  <2>1. Carries(q) /\ q.op = op
    BY <1>4 DEF Carries, Asks, Ids, Docs, EncounterOps, MapOps, CreatureOps
  <2>2. /\ pc' = [pc EXCEPT ![r] = "check"] /\ req' = [req EXCEPT ![r] = q]
        /\ answer' = answer
    BY <1>4 DEF Ask
  <2> HIDE DEF q
  <2>3. RequestInv' /\ Only(r) /\ pc'[r] = "check" /\ req'[r] = q
    BY <1>2, <2>1, <2>2, AskStep
  <2> QED  BY <1>2, <1>4, <2>1, <2>3 DEF MapMove
<1> QED  BY <1>1, <1>3, <1>4 DEF MapOps

(* The validator accepts only maps that the notes on the API allow.        *)
LEMMA ValidIsWellFormed ==
  ASSUME NEW d \in MapData, Valid(d)
  PROVE  WellFormed(d)
<1>1. /\ ~(d.name < 1 \/ d.name > 255) /\ d.schemaVersion = 1
      /\ d.widthUnits # 0 /\ ~OffGrid(d.widthUnits)
      /\ d.heightUnits # 0 /\ ~OffGrid(d.heightUnits)
      /\ \A p \in Placements(d) :
           p.id # "" /\ p.tileId # "" /\ ~OffGrid(p.x) /\ ~OffGrid(p.y) /\ p.rot \in 0..3
  BY DEF Valid, ValidateMapRequest
<1>2. /\ d.name \in Nat /\ d.widthUnits \in Int /\ d.heightUnits \in Int
      /\ \A p \in Placements(d) : p.x \in Int /\ p.y \in Int /\ p.rot \in Int
  BY MapsAssumption
<1>3. ASSUME NEW n \in Int, ~OffGrid(n)
      PROVE  n >= 0
  BY <1>3 DEF OffGrid, MapUnitsPerTile
<1>4. d.widthUnits > 0 /\ d.heightUnits > 0
  <2>1. d.widthUnits >= 0 /\ d.widthUnits # 0 /\ d.widthUnits \in Int
    BY <1>1, <1>2, <1>3
  <2>2. d.heightUnits >= 0 /\ d.heightUnits # 0 /\ d.heightUnits \in Int
    BY <1>1, <1>2, <1>3
  <2> QED  BY <2>1, <2>2
<1>5. ASSUME NEW p \in Placements(d)
      PROVE  p.x >= 0 /\ p.y >= 0 /\ p.rot \in {0, 1, 2, 3} /\ p.id # "" /\ p.tileId # ""
  <2>1. p.x >= 0 /\ p.y >= 0
    BY <1>1, <1>2, <1>3
  <2>2. p.rot \in {0, 1, 2, 3}
    <3>1. p.rot \in 0..3
      BY <1>1
    <3> QED  BY <3>1
  <2> QED  BY <1>1, <2>1, <2>2
<1>6. d.name \in 1..255
  <2>1. d.name \in Nat /\ ~(d.name < 1 \/ d.name > 255)
    BY <1>1, <1>2
  <2> QED  BY <2>1
<1> QED  BY <1>1, <1>4, <1>5, <1>6 DEF WellFormed

-----------------------------------------------------------------------------
(* What a query does to the maps: whom a map was created for stays, and a  *)
(* map that is gone stays away.                                            *)
MapsKept ==
  /\ mapRow' \in [Maps -> MapRows \cup {None}]
  /\ issuedTo' \in [Maps -> Users \cup {None}]
  /\ \A i \in Maps : OwnMap(i)'
  /\ \A i \in Maps : issuedTo[i] # None =>
       issuedTo'[i] = issuedTo[i] /\ (mapRow[i] = None => mapRow'[i] = None)

LEMMA MapsUnchanged ==
  ASSUME MapInv, UNCHANGED mapVars
  PROVE  MapsKept
BY DEF MapsKept, MapInv, MapsTypeOK, OwnMap, mapVars

LEMMA MapAsked ==
  ASSUME RequestInv, NEW r \in Requests, pc[r] # "idle", req[r].op \in MapOps
  PROVE  /\ req[r].user \in Users /\ req[r].user # None
         /\ req[r].op # "create map" => req[r].id \in Maps
         /\ req[r].op \in {"create map", "update map"} => req[r].doc \in MapData
BY RequestsAssumption DEF RequestInv, WellAsked, Carries, Asks

LEMMA MapCreated ==
  ASSUME RequestInv, MapInv, NEW r \in Requests, CreateMap(r)
  PROVE  MapsKept
<1>1. CASE UNCHANGED mapVars
  BY <1>1, MapsUnchanged
<1>2. ASSUME NEW i \in Maps, Valid(req[r].doc), issuedTo[i] = None,
             mapRow' = [mapRow EXCEPT ![i] = MapRow(r)],
             issuedTo' = [issuedTo EXCEPT ![i] = req[r].user]
      PROVE  MapsKept
  <2> DEFINE q == MapRow(r)
  <2>1. req[r].user \in Users /\ req[r].doc \in MapData
    BY MapAsked DEF CreateMap, At, MapOps
  <2>2. WellFormed(req[r].doc)
    BY <1>2, <2>1, ValidIsWellFormed
  <2>3. q \in MapRows /\ q.owner = req[r].user /\ q.by = req[r].user /\ q.data = req[r].doc
    BY <2>1 DEF MapRow, MapRows
  <2> HIDE DEF q
  <2>4. \A j \in Maps : mapRow'[j] = IF j = i THEN q ELSE mapRow[j]
    BY <1>2 DEF MapInv, MapsTypeOK, q
  <2>5. \A j \in Maps : issuedTo'[j] = IF j = i THEN req[r].user ELSE issuedTo[j]
    BY <1>2 DEF MapInv, MapsTypeOK
  <2>6. mapRow' \in [Maps -> MapRows \cup {None}] /\ issuedTo' \in [Maps -> Users \cup {None}]
    BY <1>2, <2>1, <2>3 DEF MapInv, MapsTypeOK, q
  <2>7. \A j \in Maps : OwnMap(j)'
    BY <2>2, <2>3, <2>4, <2>5 DEF MapInv, OwnMap
  <2>8. \A j \in Maps : issuedTo[j] # None => issuedTo'[j] = issuedTo[j] /\ mapRow'[j] = mapRow[j]
    BY <1>2, <2>4, <2>5
  <2> QED  BY <2>6, <2>7, <2>8 DEF MapsKept
<1> QED  BY <1>1, <1>2 DEF CreateMap

LEMMA MapUpdated ==
  ASSUME RequestInv, MapInv, NEW r \in Requests, UpdateMap(r)
  PROVE  MapsKept
<1> DEFINE i == req[r].id
           q == [mapRow[i] EXCEPT !.data = req[r].doc, !.by = req[r].user]
<1>1. i \in Maps /\ req[r].user \in Users /\ req[r].doc \in MapData
  BY MapAsked DEF UpdateMap, At, MapOps
<1>2. WellFormed(req[r].doc)
  BY <1>1, ValidIsWellFormed DEF MapInv, MapHeld, UpdateMap
<1>3. CASE UNCHANGED mapRow
  BY <1>3, MapsUnchanged DEF UpdateMap, mapVars
<1>4. ASSUME Found(r), mapRow' = [mapRow EXCEPT ![i].data = req[r].doc, ![i].by = req[r].user]
      PROVE  MapsKept
  <2>1. mapRow[i] \in MapRows /\ mapRow[i] # None /\ mapRow[i].owner = req[r].user
    BY <1>1, <1>4 DEF MapInv, MapsTypeOK, Found, MapPermission
  <2>2. /\ q \in MapRows /\ q.owner = mapRow[i].owner
        /\ q.by = mapRow[i].owner /\ q.data = req[r].doc
    BY <1>1, <2>1 DEF MapRows
  <2>3. mapRow' = [mapRow EXCEPT ![i] = q]
    BY <1>4
  <2> HIDE DEF q
  <2>4. issuedTo' = issuedTo
    BY DEF UpdateMap
  <2>5. \A j \in Maps : mapRow'[j] = IF j = i THEN q ELSE mapRow[j]
    BY <2>3 DEF MapInv, MapsTypeOK
  <2>6. mapRow' \in [Maps -> MapRows \cup {None}]
    BY <1>1, <2>2, <2>3 DEF MapInv, MapsTypeOK
  <2>7. OwnMap(i)
    BY <1>1 DEF MapInv
  <2>8. \A j \in Maps : OwnMap(j)'
    BY <1>2, <2>1, <2>2, <2>4, <2>5, <2>7 DEF MapInv, OwnMap
  <2> QED  BY <2>1, <2>4, <2>5, <2>6, <2>8 DEF MapsKept, MapInv, MapsTypeOK
<1> QED  BY <1>3, <1>4 DEF UpdateMap

LEMMA MapDeleted ==
  ASSUME RequestInv, MapInv, NEW r \in Requests, DeleteMap(r)
  PROVE  MapsKept
<1>1. CASE UNCHANGED mapRow
  BY <1>1, MapsUnchanged DEF DeleteMap, mapVars
<1>2. CASE mapRow' = [mapRow EXCEPT ![req[r].id] = None]
  BY <1>2 DEF DeleteMap, MapsKept, MapInv, MapsTypeOK, OwnMap
<1> QED  BY <1>1, <1>2 DEF DeleteMap

(* What a request past its first step is told, and when it goes on.        *)
MapTold(r) ==
  /\ pc'[r] = "act" =>
       /\ issuedTo[req[r].id] = req[r].user
       /\ req[r].op = "update map" => Valid(req[r].doc)
  /\ pc'[r] = "answered" /\ answer'[r].code \in {204, 404} =>
       /\ req[r].id \in Maps /\ issuedTo[req[r].id] # None
       /\ mapRow'[req[r].id] = None
       /\ answer'[r].code = 204 => mapRow[req[r].id] # None

LEMMA MapMoves ==
  ASSUME RequestInv, MapInv, NEW r \in Requests, MapStep(r), ~AskMap(r)
  PROVE  /\ MapMove(r) /\ MapTold(r) /\ MapsKept
         /\ pc[r] \in {"check", "act"} /\ req[r].op \in MapOps
<1> DEFINE i == req[r].id
<1>1. pc[r] \in {"check", "act"} /\ req[r].op \in MapOps
  BY ZenonT(60) DEF MapStep, CheckMap, GetMap, CreateMap, UpdateMap, DeleteMap, At, MapOps
<1>2. /\ req[r].user \in Users /\ req[r].user # None
      /\ req[r].op # "create map" => i \in Maps
      /\ {None, req[r].user} \subseteq Owners
  BY <1>1, MapAsked DEF Owners
<1>3. ASSUME NEW code \in Codes, NEW owner \in {None, req[r].user}, Send(r, code, owner)
      PROVE  MapMove(r) /\ pc'[r] = "answered" /\ answer'[r].code = code
  <2>1. /\ RequestInv' /\ Only(r) /\ pc'[r] = "answered" /\ req'[r] = req[r]
        /\ answer'[r] = [code |-> code, owner |-> owner]
    BY <1>1, <1>2, <1>3, SendStep
  <2> QED  BY <1>1, <2>1 DEF MapMove
<1>4. ASSUME NEW code \in Codes, Answer(r, code)
      PROVE  MapMove(r) /\ pc'[r] = "answered" /\ answer'[r].code = code
  BY <1>3, <1>4 DEF Answer
<1>5. ASSUME Continue(r, "act")
      PROVE  MapMove(r)
  <2>1. RequestInv' /\ Only(r) /\ pc'[r] = "act" /\ req'[r] = req[r]
    BY <1>1, <1>5, ContinueStep
  <2> QED  BY <1>1, <2>1 DEF MapMove
<1>6. i \in Maps /\ mapRow[i] # None => mapRow[i].owner = issuedTo[i]
  BY DEF MapInv, OwnMap
<1>7. ASSUME req[r].op # "create map", pc[r] = "act"
      PROVE  issuedTo[i] = req[r].user /\ (~Found(r) => mapRow[i] = None)
  <2>1. issuedTo[i] = req[r].user
    BY <1>1, <1>7 DEF MapInv, MapHeld, At, MapOps
  <2> QED  BY <1>2, <1>6, <1>7, <2>1 DEF Found, MapPermission
<1>8. ASSUME Answer(r, 403) \/ Answer(r, 422) \/ Answer(r, 500)
       PROVE  MapMove(r) /\ MapTold(r)
  <2>1. MapMove(r) /\ pc'[r] = "answered" /\ answer'[r].code \in {403, 422, 500}
    BY <1>4, <1>8 DEF Codes
  <2> QED  BY <2>1 DEF MapTold
<1>9. ASSUME Answer(r, 404), req[r].op # "create map", pc[r] = "act",
              ~Found(r), mapRow' = mapRow
       PROVE  MapMove(r) /\ MapTold(r)
  <2>1. MapMove(r) /\ pc'[r] = "answered" /\ answer'[r].code = 404
    BY <1>4, <1>9, ZenonT(60) DEF Codes
  <2>2. issuedTo[i] # None /\ mapRow'[i] = None /\ i \in Maps
    BY <1>2, <1>7, <1>9
  <2> QED  BY <2>1, <2>2 DEF MapTold
<1>10. CASE CheckMap(r)
  <2>1. MapsKept
    BY <1>10, MapsUnchanged DEF CheckMap
  <2>2. CASE Answer(r, 403) \/ Answer(r, 422)
    BY <1>1, <1>8, <2>1, <2>2
  <2>3. ASSUME MapPermission(i, req[r].user), Continue(r, "act"),
               ~(req[r].op = "update map" /\ ~Valid(req[r].doc))
        PROVE  MapMove(r) /\ MapTold(r)
    <3>1. pc'[r] = "act"
      BY <2>3 DEF Continue, RequestInv
    <3>2. issuedTo[i] = req[r].user
      <4>1. i \in Maps
        BY <1>2, <1>10 DEF CheckMap, At
      <4> QED  BY <1>6, <2>3, <4>1 DEF MapPermission
    <3> QED  BY <1>5, <2>3, <3>1, <3>2 DEF MapTold
  <2> QED  BY <1>1, <1>10, <2>1, <2>2, <2>3 DEF CheckMap
<1>11. CASE GetMap(r)
  <2>1. req[r].op # "create map" /\ pc[r] = "act" /\ UNCHANGED mapVars
    BY <1>11 DEF GetMap, At
  <2>2. MapsKept /\ mapRow' = mapRow
    BY <2>1, MapsUnchanged DEF mapVars
  <2>3. CASE Found(r) /\ Send(r, 200, mapRow[i].owner)
    <3>1. mapRow[i].owner = req[r].user
      BY <2>3 DEF Found, MapPermission
    <3>2. MapMove(r) /\ pc'[r] = "answered" /\ answer'[r].code = 200
      BY <1>3, <2>3, <3>1 DEF Codes
    <3> QED  BY <1>1, <2>2, <3>2 DEF MapTold
  <2>4. CASE ~Found(r) /\ Answer(r, 404)
    BY <1>1, <1>9, <2>1, <2>2, <2>4
  <2>5. CASE Answer(r, 500)
    BY <1>1, <1>8, <2>2, <2>5
  <2> QED  BY <1>11, <2>3, <2>4, <2>5 DEF GetMap
<1>12. CASE CreateMap(r)
  <2>1. MapsKept
    BY <1>12, MapCreated
  <2>2. CASE Send(r, 201, req[r].user)
    <3>1. MapMove(r) /\ pc'[r] = "answered" /\ answer'[r].code = 201
      BY <1>3, <2>2 DEF Codes
    <3> QED  BY <1>1, <2>1, <3>1 DEF MapTold
  <2>3. CASE Answer(r, 422) \/ Answer(r, 500)
    BY <1>1, <1>8, <2>1, <2>3
  <2> QED  BY <1>12, <2>2, <2>3, ZenonT(60) DEF CreateMap
<1>13. CASE UpdateMap(r)
  <2>1. MapsKept
    BY <1>13, MapUpdated
  <2>2. req[r].op # "create map" /\ pc[r] = "act"
    BY <1>13 DEF UpdateMap, At
  <2>3. CASE Found(r) /\ Send(r, 200, mapRow[i].owner)
    <3>1. mapRow[i].owner = req[r].user
      BY <2>3 DEF Found, MapPermission
    <3>2. MapMove(r) /\ pc'[r] = "answered" /\ answer'[r].code = 200
      BY <1>3, <2>3, <3>1 DEF Codes
    <3> QED  BY <1>1, <2>1, <3>2 DEF MapTold
  <2>4. CASE ~Found(r) /\ Answer(r, 404) /\ UNCHANGED mapRow
    BY <1>1, <1>9, <2>1, <2>2, <2>4
  <2>5. CASE Answer(r, 500)
    BY <1>1, <1>8, <2>1, <2>5
  <2> QED  BY <1>13, <2>3, <2>4, <2>5 DEF UpdateMap
<1>14. CASE DeleteMap(r)
  <2>1. MapsKept
    BY <1>14, MapDeleted
  <2>2. req[r].op # "create map" /\ pc[r] = "act"
    BY <1>14 DEF DeleteMap, At
  <2>3. CASE /\ Found(r) /\ Answer(r, 204)
             /\ mapRow' = [mapRow EXCEPT ![i] = None]
    <3>1. mapRow'[i] = None /\ mapRow[i] # None
      BY <1>2, <2>2, <2>3 DEF MapInv, MapsTypeOK, Found, MapPermission
    <3>2. MapMove(r) /\ pc'[r] = "answered" /\ answer'[r].code = 204
      BY <1>4, <2>3 DEF Codes
    <3>3. issuedTo[i] # None /\ i \in Maps
      BY <1>2, <1>7, <2>2
    <3> QED  BY <1>1, <2>1, <3>1, <3>2, <3>3 DEF MapTold
  <2>4. CASE ~Found(r) /\ Answer(r, 404) /\ UNCHANGED mapRow
    BY <1>1, <1>9, <2>1, <2>2, <2>4
  <2>5. CASE Answer(r, 500)
    BY <1>1, <1>8, <2>1, <2>5
  <2> QED  BY <1>14, <2>3, <2>4, <2>5 DEF DeleteMap
<1> QED  BY <1>10, <1>11, <1>12, <1>13, <1>14 DEF MapStep

LEMMA MapKept ==
  ASSUME RequestInv, MapInv, NEW r \in Requests, MapStep(r)
  PROVE  MapMove(r) /\ MapsKept /\ MapInv'
<1>1. CASE AskMap(r)
  <2>1. MapMove(r) /\ (pc'[r] = "check" \/ (pc'[r] = "act" /\ req'[r].op = "create map"))
    BY <1>1, MapAsks
  <2>2. UNCHANGED mapVars /\ MapsKept
    BY <1>1, MapsUnchanged DEF AskMap
  <2>3. ASSUME NEW s \in Requests PROVE MapHeld(s)' /\ MapGone(s)'
    <3>1. CASE s = r
      BY <2>1, <3>1 DEF MapHeld, MapGone, At
    <3>2. CASE s # r
      <4>1. pc'[s] = pc[s] /\ req'[s] = req[s] /\ answer'[s] = answer[s]
        BY <2>1, <3>2 DEF MapMove, Only
      <4>2. MapHeld(s) /\ MapGone(s)
        BY DEF MapInv
      <4>3. MapHeld(s)'
        BY <2>2, <4>1, <4>2 DEF MapHeld, At, mapVars
      <4>4. MapGone(s)'
        BY <2>2, <4>1, <4>2 DEF MapGone, mapVars
      <4> QED  BY <4>3, <4>4
    <3> QED  BY <3>1, <3>2
  <2>4. pc'[r] # "answered"
    BY <2>1
  <2>5. OneDeleteWins'
    <3>1. \A s \in Requests : pc'[s] = "answered" =>
            pc[s] = "answered" /\ req'[s] = req[s] /\ answer'[s] = answer[s]
      BY <2>1, <2>4 DEF MapMove, Only
    <3>2. OneDeleteWins /\ mapRow' = mapRow
      BY <2>2 DEF MapInv, mapVars
    <3> QED  BY <3>1, <3>2 DEF OneDeleteWins
  <2> QED  BY <2>1, <2>2, <2>3, <2>5 DEF MapInv, MapsTypeOK, MapsKept
<1>2. CASE ~AskMap(r)
  <2>1. /\ MapMove(r) /\ MapTold(r) /\ MapsKept
        /\ pc[r] \in {"check", "act"} /\ req[r].op \in MapOps
    BY <1>2, MapMoves
  <2>2. req'[r] = req[r] /\ Only(r)
    BY <2>1 DEF MapMove
  <2>3. ASSUME NEW s \in Requests \ {r}
        PROVE  /\ MapHeld(s)' /\ MapGone(s)'
    <3>1. pc'[s] = pc[s] /\ req'[s] = req[s] /\ answer'[s] = answer[s]
      BY <2>2 DEF Only
    <3>2. MapHeld(s) /\ MapGone(s)
      BY DEF MapInv
    <3>3. MapGone(s)'
      BY <2>1, <3>1, <3>2 DEF MapGone, MapsKept
    <3>4. CASE At(s, "act", {"get map", "update map", "delete map"})
      <4>1. req[s].id \in Maps /\ req[s].user # None
        BY <3>4, MapAsked DEF At, MapOps
      <4>2. issuedTo'[req[s].id] = req[s].user
        BY <2>1, <3>2, <3>4, <4>1 DEF MapHeld, MapsKept
      <4> QED  BY <3>1, <3>2, <3>3, <4>2 DEF MapHeld, At
    <3>5. CASE ~At(s, "act", {"get map", "update map", "delete map"})
      BY <3>1, <3>3, <3>5 DEF MapHeld, At
    <3> QED  BY <3>4, <3>5
  <2>4. MapGone(r)'
    <3>1. ASSUME pc'[r] = "answered", answer'[r].code \in {204, 404}
          PROVE  req[r].id \in Maps /\ issuedTo'[req[r].id] # None /\ mapRow'[req[r].id] = None
      BY <2>1, <3>1 DEF MapTold, MapsKept
    <3> QED  BY <2>2, <3>1 DEF MapGone
  <2>5. MapHeld(r)'
    <3>1. ASSUME pc'[r] = "act", req[r].op \in {"get map", "update map", "delete map"}
          PROVE  issuedTo'[req[r].id] = req[r].user
      <4>1. req[r].id \in Maps /\ req[r].user # None
        BY <2>1, <3>1, MapAsked
      <4> QED  BY <2>1, <3>1, <4>1 DEF MapTold, MapsKept
    <3>2. pc'[r] = "act" /\ req[r].op = "update map" => Valid(req[r].doc)
      BY <2>1 DEF MapTold
    <3> QED  BY <2>2, <3>1, <3>2 DEF MapHeld, At
  <2>6. ASSUME NEW s \in Requests, NEW t \in Requests \ {s},
               pc'[s] = "answered", answer'[s].code = 204,
               pc'[t] = "answered", answer'[t].code = 204
        PROVE  req'[t].id # req'[s].id
    <3>1. ASSUME NEW p \in Requests \ {r}, pc'[p] = "answered", answer'[p].code = 204,
                 pc'[r] = "answered", answer'[r].code = 204
          PROVE  req'[p].id # req'[r].id
      <4>1. mapRow[req[p].id] = None
        BY <2>2, <3>1 DEF Only, MapInv, MapGone
      <4>2. mapRow[req[r].id] # None
        BY <2>1, <3>1 DEF MapTold
      <4> QED  BY <2>2, <4>1, <4>2 DEF Only
    <3>2. CASE s # r /\ t # r
      BY <2>2, <2>6, <3>2 DEF Only, MapInv, OneDeleteWins
    <3> QED  BY <2>6, <3>1, <3>2
  <2>7. ASSUME NEW s \in Requests, pc'[s] = "answered", answer'[s].code = 204
        PROVE  mapRow'[req'[s].id] = None
    BY <2>3, <2>4, <2>7 DEF MapGone
  <2>8. OneDeleteWins'
    BY <2>6, <2>7 DEF OneDeleteWins
  <2> QED  BY <2>1, <2>3, <2>4, <2>5, <2>8 DEF MapInv, MapsTypeOK, MapsKept
<1> QED  BY <1>1, <1>2

-----------------------------------------------------------------------------
(* A request for a creature or a character.                                *)
CreatureMove(r) ==
  /\ RequestInv' /\ Only(r)
  /\ req'[r].op \in CreatureOps \cup CharacterOps
  /\ pc[r] # "idle" => req'[r] = req[r]
  /\ pc'[r] = "answered" =>
       /\ answer'[r].code \notin {204, 404}
       /\ answer'[r].owner \in {None, Public, req'[r].user}

LEMMA CreatureAsks ==
  ASSUME RequestInv, NEW r \in Requests, AskCreature(r) \/ AskCharacter(r)
  PROVE  CreatureMove(r) /\ pc'[r] = "act"
<1>1. ASSUME NEW op \in CreatureOps \cup CharacterOps, NEW u \in Users,
             NEW id \in Creatures \cup Characters \cup {None}, NEW e \in Users \cup {None},
             op \in CreatureOps => id \in Creatures,
             op = "add creature" => e \in Users,
             op = "get character" => id \in Characters,
             Ask(r, op, u, id, e, "act")
      PROVE  CreatureMove(r) /\ pc'[r] = "act"
  <2> DEFINE q == [op |-> op, user |-> u, id |-> id, doc |-> e]
  <2>1. Carries(q) /\ q.op = op
    BY <1>1 DEF Carries, Asks, Ids, Docs, EncounterOps, MapOps, CreatureOps, CharacterOps
  <2>2. /\ pc[r] = "idle" /\ pc' = [pc EXCEPT ![r] = "act"]
        /\ req' = [req EXCEPT ![r] = q] /\ answer' = answer
    BY <1>1 DEF Ask
  <2> HIDE DEF q
  <2>3. RequestInv' /\ Only(r) /\ pc'[r] = "act" /\ req'[r] = q
    BY <2>1, <2>2, AskStep
  <2> QED  BY <1>1, <2>1, <2>2, <2>3 DEF CreatureMove
<1>2. CASE AskCreature(r)
  BY <1>1, <1>2 DEF AskCreature, CreatureOps
<1>3. CASE AskCharacter(r)
  BY <1>1, <1>3 DEF AskCharacter, CreatureOps, CharacterOps
<1> QED  BY <1>2, <1>3

LEMMA CreatureMoves ==
  ASSUME RequestInv, NEW r \in Requests, CreatureStep(r), ~AskCreature(r), ~AskCharacter(r)
  PROVE  CreatureMove(r)
<1>1. pc[r] \in {"act", "second", "store"} /\ req[r].op \in CreatureOps \cup CharacterOps
  BY DEF CreatureStep, RefuseCreature, UploadRect, UploadToken, Upload, InsertCreature,
         GetCreature, AddCharacter, GetCharacter, At, CreatureOps, CharacterOps
<1>2. {None, Public, req[r].user} \subseteq Owners
  BY <1>1 DEF RequestInv, WellAsked, Carries, Asks, Owners
<1>3. ASSUME NEW code \in Codes \ {204, 404}, NEW owner \in {None, Public, req[r].user},
             Send(r, code, owner)
      PROVE  CreatureMove(r)
  <2>1. /\ RequestInv' /\ Only(r) /\ pc'[r] = "answered" /\ req'[r] = req[r]
        /\ answer'[r] = [code |-> code, owner |-> owner]
    BY <1>1, <1>2, <1>3, SendStep
  <2> QED  BY <1>1, <2>1 DEF CreatureMove
<1>4. ASSUME NEW code \in Codes \ {204, 404}, Answer(r, code)
      PROVE  CreatureMove(r)
  BY <1>3, <1>4 DEF Answer
<1>5. ASSUME Answer(r, 200) \/ Answer(r, 400) \/ Answer(r, 403) \/ Answer(r, 500)
      PROVE  CreatureMove(r)
  BY <1>4, <1>5 DEF Codes
<1>6. ASSUME NEW l \in {"second", "store"}, pc[r] \in {"act", "second"}, Continue(r, l)
      PROVE  CreatureMove(r)
  <2>1. RequestInv' /\ Only(r) /\ pc'[r] = l /\ req'[r] = req[r]
    BY <1>6, ContinueStep
  <2> QED  BY <1>1, <1>6, <2>1 DEF CreatureMove
<1>7. ASSUME NEW owner, NEW allowed \in SUBSET {Public, req[r].user}, Judge(r, owner, allowed)
      PROVE  CreatureMove(r)
  <2>1. CASE owner \in allowed /\ Send(r, 200, owner)
    BY <1>3, <1>7, <2>1 DEF Codes
  <2> QED  BY <1>5, <1>7, <2>1 DEF Judge
<1>8. CASE RefuseCreature(r) \/ InsertCreature(r) \/ AddCharacter(r)
  BY <1>5, <1>8 DEF RefuseCreature, InsertCreature, AddCharacter
<1>9. CASE UploadRect(r) \/ UploadToken(r)
  BY <1>5, <1>6, <1>9 DEF UploadRect, UploadToken, Upload, At
<1>10. CASE GetCreature(r) \/ GetCharacter(r)
  <2>1. CASE GetCreature(r)
    <3>1. PICK owner \in FindOne(req[r].id) : Judge(r, owner, {req[r].user})
      BY <2>1 DEF GetCreature
    <3> QED  BY <1>7, <3>1
  <2> QED  BY <1>5, <1>7, <1>10, <2>1 DEF GetCharacter
<1> QED  BY <1>8, <1>9, <1>10 DEF CreatureStep

(* What a step does to the collections and the bucket: nothing is taken    *)
(* away, and a creature that appears has its images.                       *)
StoredKept ==
  /\ CreaturesTypeOK'
  /\ \A i \in Creatures : UrlOf(i)'
  /\ \A i \in Creatures : image[i] \subseteq image'[i]
  /\ \A i \in Creatures : creature[i] # None => creature'[i] = creature[i] /\ url'[i] = url[i]
  /\ \A i \in Creatures : creature[i] = None /\ creature'[i] # None => image[url'[i]] = Images
  /\ \A i \in Characters : character[i] # None => character'[i] = character[i]

LEMMA StoresUnchanged ==
  ASSUME CreatureInv, UNCHANGED creatureVars
  PROVE  StoredKept
BY DEF CreatureInv, StoredKept, CreaturesTypeOK, UrlOf, creatureVars

LEMMA ImageStored ==
  ASSUME CreatureInv, RequestInv, NEW r \in Requests, NEW l \in {"act", "second"},
         NEW name \in Images, NEW next \in {"second", "store"}, Upload(r, l, name, next)
  PROVE  /\ StoredKept
         /\ pc'[r] \in {next, "answered"}
         /\ pc'[r] = next => name \in image'[req[r].id]
<1>1. req[r].id \in Creatures
  BY DEF RequestInv, WellAsked, Carries, Upload, At, CreatureOps
<1>2. CASE image' = [image EXCEPT ![req[r].id] = @ \cup {name}]
  <2>1. StoredKept
    BY <1>1, <1>2 DEF Upload, CreatureInv, CreaturesTypeOK, UrlOf, StoredKept
  <2>2. name \in image'[req[r].id]
    BY <1>1, <1>2 DEF CreatureInv, CreaturesTypeOK
  <2>3. pc'[r] \in {next, "answered"}
    BY DEF Upload, Continue, Answer, Send, RequestInv
  <2> QED  BY <2>1, <2>2, <2>3
<1>3. CASE UNCHANGED image /\ (Answer(r, 400) \/ Answer(r, 500))
  <2>1. StoredKept
    BY <1>3, StoresUnchanged DEF Upload, creatureVars
  <2>2. pc'[r] = "answered"
    BY <1>3 DEF Answer, Send, RequestInv
  <2> QED  BY <2>1, <2>2
<1> QED  BY <1>2, <1>3 DEF Upload

LEMMA CreatureInserted ==
  ASSUME CreatureInv, RequestInv, NEW r \in Requests, InsertCreature(r)
  PROVE  StoredKept
<1>1. req[r].id \in Creatures /\ req[r].doc \in Users /\ image[req[r].id] = Images
  BY DEF RequestInv, WellAsked, Carries, InsertCreature, At, CreatureOps, CreatureInv, ImagesPut
<1>2. ASSUME NEW i \in Creatures, creature[i] = None,
             i = req[r].id \/ req[r].id = NilObjectID, StoreCreature(r, i)
      PROVE  StoredKept
  <2>1. /\ \A j \in Creatures : creature'[j] = IF j = i THEN req[r].doc ELSE creature[j]
        /\ \A j \in Creatures : url'[j] = IF j = i THEN req[r].id ELSE url[j]
    BY <1>2 DEF StoreCreature, CreatureInv, CreaturesTypeOK
  <2>2. CreaturesTypeOK'
    BY <1>1, <1>2 DEF StoreCreature, InsertCreature, CreatureInv, CreaturesTypeOK, Owners
  <2>3. req[r].doc # None
    BY <1>1, RequestsAssumption
  <2>4. \A j \in Creatures : UrlOf(j)'
    BY <1>2, <2>1, <2>3 DEF CreatureInv, UrlOf
  <2>5. image' = image /\ character' = character
    BY DEF InsertCreature
  <2> QED  BY <1>1, <1>2, <2>1, <2>2, <2>4, <2>5 DEF StoredKept
<1>3. CASE UNCHANGED <<creature, url>>
  BY <1>3, StoresUnchanged DEF InsertCreature, creatureVars
<1> QED  BY <1>2, <1>3 DEF InsertCreature, Fresh

LEMMA CharacterInserted ==
  ASSUME CreatureInv, RequestInv, NEW r \in Requests, AddCharacter(r)
  PROVE  StoredKept
<1>1. req[r].user \in Users
  BY DEF RequestInv, WellAsked, Carries, AddCharacter, At, Asks
<1>2. ASSUME NEW i \in Characters, character[i] = None,
             character' = [character EXCEPT ![i] = req[r].user]
      PROVE  StoredKept
  BY <1>1, <1>2 DEF AddCharacter, CreatureInv, CreaturesTypeOK, UrlOf, StoredKept, Owners
<1>3. CASE UNCHANGED character
  BY <1>3, StoresUnchanged DEF AddCharacter, creatureVars
<1> QED  BY <1>2, <1>3 DEF AddCharacter

LEMMA CreatureKept ==
  ASSUME RequestInv, CreatureInv, NEW r \in Requests, CreatureStep(r)
  PROVE  CreatureMove(r) /\ StoredKept /\ CreatureInv'
<1>1. CreatureMove(r)
  BY CreatureAsks, CreatureMoves
<1>2. StoredKept /\ ImagesPut(r)'
  <2>1. CASE AskCreature(r) \/ AskCharacter(r)
    <3>1. pc'[r] = "act"
      BY <2>1, CreatureAsks
    <3>2. StoredKept
      BY <2>1, StoresUnchanged DEF AskCreature, AskCharacter
    <3> QED  BY <3>1, <3>2 DEF ImagesPut, At
  <2>2. CASE RefuseCreature(r) \/ GetCreature(r) \/ GetCharacter(r)
    <3>1. pc'[r] = "answered"
      BY <2>2, ZenonT(60) DEF RefuseCreature, GetCreature, GetCharacter, Judge, Answer, Send, RequestInv
    <3>2. StoredKept
      BY <2>2, StoresUnchanged DEF RefuseCreature, GetCreature, GetCharacter
    <3> QED  BY <3>1, <3>2 DEF ImagesPut, At
  <2>3. CASE UploadRect(r)
    <3>1. /\ StoredKept /\ pc'[r] \in {"second", "answered"}
          /\ pc'[r] = "second" => "processed" \in image'[req[r].id]
      BY <2>3, ImageStored DEF UploadRect, Images
    <3>2. req'[r] = req[r]
      BY <2>3 DEF UploadRect, Upload, Continue, Answer, Send
    <3> QED  BY <3>1, <3>2 DEF ImagesPut, At
  <2>4. CASE UploadToken(r)
    <3>1. /\ StoredKept /\ pc'[r] \in {"store", "answered"}
          /\ pc'[r] = "store" => "tokens" \in image'[req[r].id]
      BY <2>4, ImageStored DEF UploadToken, Images
    <3>2. req'[r] = req[r]
      BY <2>4 DEF UploadToken, Upload, Continue, Answer, Send
    <3>3. At(r, "second", {"add creature"}) /\ req[r].id \in Creatures
      BY <2>4 DEF UploadToken, Upload, At, RequestInv, WellAsked, Carries, CreatureOps
    <3>4. "processed" \in image'[req[r].id]
      BY <3>1, <3>3 DEF CreatureInv, ImagesPut, StoredKept
    <3>5. image'[req[r].id] \subseteq Images
      BY <3>1, <3>3 DEF StoredKept, CreaturesTypeOK
    <3>6. pc'[r] = "store" => image'[req[r].id] = Images
      BY <3>1, <3>4, <3>5 DEF Images
    <3> QED  BY <3>1, <3>2, <3>6 DEF ImagesPut, At
  <2>5. CASE InsertCreature(r) \/ AddCharacter(r)
    <3>1. pc'[r] = "answered"
      BY <2>5 DEF InsertCreature, AddCharacter, Answer, Send, RequestInv
    <3>2. StoredKept
      BY <2>5, CreatureInserted, CharacterInserted
    <3> QED  BY <3>1, <3>2 DEF ImagesPut, At
  <2> QED  BY <2>1, <2>2, <2>3, <2>4, <2>5 DEF CreatureStep
<1>3. ASSUME NEW s \in Requests PROVE ImagesPut(s)'
  <2>1. CASE s = r
    BY <1>2, <2>1
  <2>2. CASE s # r
    <3>1. pc'[s] = pc[s] /\ req'[s] = req[s]
      BY <1>1, <2>2 DEF CreatureMove, Only
    <3>2. At(s, "second", {"add creature"}) \/ At(s, "store", {"add creature"}) =>
            req[s].id \in Creatures
      BY DEF At, RequestInv, WellAsked, Carries, CreatureOps
    <3>3. ImagesPut(s)
      BY DEF CreatureInv
    <3>4. ASSUME req[s].id \in Creatures
          PROVE  image[req[s].id] \subseteq image'[req[s].id] /\ image'[req[s].id] \subseteq Images
      BY <1>2, <3>4 DEF StoredKept, CreaturesTypeOK
    <3>5. ASSUME pc[s] = "second", req[s].op = "add creature"
          PROVE  "processed" \in image'[req[s].id]
      BY <3>2, <3>3, <3>4, <3>5 DEF ImagesPut, At
    <3>6. ASSUME pc[s] = "store", req[s].op = "add creature"
          PROVE  image'[req[s].id] = Images
      BY <3>2, <3>3, <3>4, <3>6 DEF ImagesPut, At
    <3> QED  BY <3>1, <3>5, <3>6 DEF ImagesPut, At
  <2> QED  BY <2>1, <2>2
<1>4. ASSUME NEW i \in Creatures, creature'[i] # None PROVE image'[url'[i]] = Images
  <2>1. url'[i] \in Creatures
    BY <1>2, <1>4, CreaturesAssumption DEF StoredKept, UrlOf
  <2>2. image[url'[i]] = Images
    BY <1>2, <1>4 DEF StoredKept, CreatureInv, ImagesPresent
  <2>3. image[url'[i]] \subseteq image'[url'[i]] /\ image'[url'[i]] \subseteq Images
    BY <1>2, <2>1 DEF StoredKept, CreaturesTypeOK
  <2> QED  BY <2>2, <2>3
<1> QED  BY <1>1, <1>2, <1>3, <1>4 DEF CreatureInv, ImagesPresent, StoredKept

-----------------------------------------------------------------------------
(* The invariant is inductive.                                             *)

LEMMA InitInv == Init => IInv
<1> SUFFICES ASSUME Init PROVE IInv
  OBVIOUS
<1>1. \A r \in Requests : pc[r] = "idle" /\ req[r] = None /\ answer[r] = None
  BY DEF Init, RequestsInit
<1>2. RequestInv
  BY <1>1 DEF Init, RequestsInit, RequestInv, WellAsked, Labels
<1>3. EncounterInv
  <2>1. EncountersTypeOK /\ \A t \in Tables : table[t] = None
    BY DEF Init, EncountersInit, EncountersTypeOK
  <2>2. \A i \in Encounters : OwnRow(i)
    BY DEF Init, EncountersInit, OwnRow
  <2> QED  BY <1>1, <2>1, <2>2 DEF EncounterInv, EncounterHeld, TableHeld, At
<1>4. MapInv
  <2>1. ASSUME NEW i \in Maps
        PROVE  /\ mapRow[i] \in MapRows \cup {None}
               /\ OwnMap(i)
    <3>1. CASE mapRow[i] = None
      BY <3>1 DEF OwnMap
    <3>2. CASE mapRow[i] # None
      <4>1. PICK u \in Users, d \in MapData :
              mapRow[i] = [owner |-> u, data |-> d, by |-> u] /\ Valid(d) /\ issuedTo[i] = u
        BY <3>2 DEF Init, MapsInit
      <4>2. WellFormed(d)
        BY <4>1, ValidIsWellFormed
      <4> QED  BY <4>1, <4>2 DEF MapRows, OwnMap
    <3> QED  BY <3>1, <3>2
  <2>2. MapsTypeOK
    BY <2>1 DEF Init, MapsInit, MapsTypeOK
  <2> QED  BY <1>1, <2>1, <2>2, ZenonT(60) DEF MapInv, MapHeld, MapGone, OneDeleteWins, At
<1>5. CreatureInv
  <2>1. CreaturesTypeOK /\ ImagesPresent /\ \A i \in Creatures : UrlOf(i)
    BY DEF Init, CreaturesInit, CreaturesTypeOK, ImagesPresent, UrlOf, Owners
  <2> QED  BY <1>1, <2>1 DEF CreatureInv, ImagesPut, At
<1>6. AnsweredToOwner
  BY <1>1 DEF AnsweredToOwner
<1> QED  BY <1>2, <1>3, <1>4, <1>5, <1>6 DEF IInv

(* The requests as they were, or fewer of them under way.                  *)
Fewer == \A r \in Requests :
  /\ req'[r] = req[r] /\ answer'[r] = answer[r]
  /\ pc'[r] = pc[r] \/ (pc'[r] = "cut off" /\ pc[r] \notin {"idle", "answered"})

LEMMA FewerMaps ==
  ASSUME MapInv, Fewer, UNCHANGED mapVars
  PROVE  MapInv'
<1>1. ASSUME NEW r \in Requests PROVE MapHeld(r)' /\ MapGone(r)'
  <2>1. /\ req'[r] = req[r] /\ answer'[r] = answer[r] /\ (pc'[r] = pc[r] \/ pc'[r] = "cut off")
        /\ mapRow' = mapRow /\ issuedTo' = issuedTo
    BY DEF Fewer, mapVars
  <2>2. MapHeld(r) /\ MapGone(r)
    BY DEF MapInv
  <2>3. MapHeld(r)'
    BY <2>1, <2>2 DEF MapHeld, At
  <2>4. MapGone(r)'
    BY <2>1, <2>2 DEF MapGone
  <2> QED  BY <2>3, <2>4
<1>2. MapsTypeOK' /\ \A i \in Maps : OwnMap(i)'
  BY DEF MapInv, MapsTypeOK, OwnMap, mapVars
<1>3. OneDeleteWins'
  <2>1. \A s \in Requests : pc'[s] = "answered" =>
          pc[s] = "answered" /\ req'[s] = req[s] /\ answer'[s] = answer[s]
    BY DEF Fewer
  <2>2. OneDeleteWins /\ mapRow' = mapRow
    BY DEF MapInv, mapVars
  <2> QED  BY <2>1, <2>2 DEF OneDeleteWins
<1> QED  BY <1>1, <1>2, <1>3 DEF MapInv

LEMMA FewerCreatures ==
  ASSUME CreatureInv, Fewer, UNCHANGED creatureVars
  PROVE  CreatureInv'
<1>1. ASSUME NEW r \in Requests PROVE ImagesPut(r)'
  BY DEF CreatureInv, ImagesPut, At, Fewer, creatureVars
<1>2. CreaturesTypeOK' /\ ImagesPresent' /\ \A i \in Creatures : UrlOf(i)'
  BY DEF CreatureInv, CreaturesTypeOK, ImagesPresent, UrlOf, creatureVars
<1> QED  BY <1>1, <1>2 DEF CreatureInv

LEMMA FewerEncounters ==
  ASSUME EncounterInv, Fewer, row' = row,
         table' = table \/ table' = [t \in Tables |-> None]
  PROVE  EncounterInv'
<1>1. ASSUME NEW r \in Requests PROVE EncounterHeld(r)'
  BY DEF EncounterInv, EncounterHeld, At, Fewer
<1>2. EncountersTypeOK' /\ \A t \in Tables : TableHeld(t)'
  BY DEF EncounterInv, EncountersTypeOK, TableHeld
<1>3. \A i \in Encounters : OwnRow(i)'
  BY DEF EncounterInv, OwnRow
<1> QED  BY <1>1, <1>2, <1>3 DEF EncounterInv

(* What any step keeps, of the invariant and of the documents.             *)
LEMMA StepKept ==
  ASSUME IInv, [Next]_vars
  PROVE  IInv' /\ RowsKept /\ MapsKept /\ StoredKept
<1> USE DEF IInv
<1>1. ASSUME NEW r \in Requests, EncounterStep(r), UNCHANGED <<mapVars, creatureVars>>
      PROVE  IInv' /\ RowsKept /\ MapsKept /\ StoredKept
  <2>1. EncounterMove(r)
    BY <1>1, EncounterAsks, EncounterMoves
  <2>2. RowsKept /\ EncounterInv'
    BY <1>1, EncounterKept
  <2>3. Only(r) /\ req'[r].op \notin MapOps /\ req'[r].op # "add creature"
    BY <2>1, ZenonT(60) DEF EncounterMove, EncounterOps, MapOps
  <2>4. MapInv' /\ MapsKept
    BY <1>1, <2>1, <2>3, MapFrame, MapsUnchanged, ZenonT(60) DEF EncounterMove
  <2>5. CreatureInv' /\ StoredKept
    BY <1>1, <2>3, CreatureFrame, StoresUnchanged
  <2>6. AnsweredToOwner'
    BY <2>1, <2>3, OwnerFrame, ZenonT(60) DEF EncounterMove
  <2> QED  BY <2>1, <2>2, <2>4, <2>5, <2>6 DEF EncounterMove
<1>2. ASSUME NEW r \in Requests, MapStep(r), UNCHANGED <<encounterVars, creatureVars>>
      PROVE  IInv' /\ RowsKept /\ MapsKept /\ StoredKept
  <2>1. MapMove(r) /\ MapsKept /\ MapInv'
    BY <1>2, MapKept
  <2>2. Only(r) /\ req'[r].op \notin EncounterOps /\ req'[r].op # "add creature"
    BY <2>1 DEF MapMove, EncounterOps, MapOps
  <2>3. EncounterInv' /\ RowsKept
    BY <1>2, <2>2, EncounterFrame, RowsUnchanged DEF encounterVars
  <2>4. CreatureInv' /\ StoredKept
    BY <1>2, <2>2, CreatureFrame, StoresUnchanged
  <2>5. AnsweredToOwner'
    BY <2>1, <2>2, OwnerFrame DEF MapMove
  <2> QED  BY <2>1, <2>3, <2>4, <2>5 DEF MapMove
<1>3. ASSUME NEW r \in Requests, CreatureStep(r), UNCHANGED <<encounterVars, mapVars>>
      PROVE  IInv' /\ RowsKept /\ MapsKept /\ StoredKept
  <2>1. CreatureMove(r) /\ StoredKept /\ CreatureInv'
    BY <1>3, CreatureKept
  <2>2. Only(r) /\ req'[r].op \notin EncounterOps /\ req'[r].op \notin MapOps
    BY <2>1, ZenonT(60) DEF CreatureMove, CreatureOps, CharacterOps, EncounterOps, MapOps
  <2>3. EncounterInv' /\ RowsKept
    BY <1>3, <2>2, EncounterFrame, RowsUnchanged DEF encounterVars
  <2>4. MapInv' /\ MapsKept
    BY <1>3, <2>1, <2>2, MapFrame, MapsUnchanged DEF CreatureMove
  <2>5. AnsweredToOwner'
    BY <2>1, <2>2, OwnerFrame DEF CreatureMove
  <2> QED  BY <2>1, <2>3, <2>4, <2>5 DEF CreatureMove
<1>4. ASSUME NEW t \in Tables, Expire(t), UNCHANGED <<mapVars, creatureVars>>
      PROVE  IInv' /\ RowsKept /\ MapsKept /\ StoredKept
  <2>1. RowsKept /\ EncounterInv' /\ RequestInv'
    BY <1>4, ExpireKept
  <2>2. Fewer /\ AnsweredToOwner'
    BY <1>4 DEF Expire, requestVars, Fewer, AnsweredToOwner
  <2> QED  BY <1>4, <2>1, <2>2, FewerMaps, FewerCreatures, MapsUnchanged, StoresUnchanged
<1>5. ASSUME Restart \/ UNCHANGED vars
      PROVE  IInv' /\ RowsKept /\ MapsKept /\ StoredKept
  <2>1. /\ UNCHANGED <<row, mapVars, creatureVars, req, answer>>
        /\ table' = table \/ table' = [t \in Tables |-> None]
    BY <1>5 DEF Restart, CutOff, vars, encounterVars, requestVars
  <2>2. /\ pc' \in [Requests -> Labels]
        /\ \A r \in Requests :
             pc'[r] = pc[r] \/ (pc'[r] = "cut off" /\ pc[r] \notin {"idle", "answered"})
    BY <1>5 DEF Restart, CutOff, vars, requestVars, RequestInv, Labels
  <2>3. Fewer
    BY <2>1, <2>2 DEF Fewer
  <2>4. RequestInv'
    BY <2>1, <2>2 DEF RequestInv, WellAsked
  <2>5. AnsweredToOwner'
    BY <2>3 DEF Fewer, AnsweredToOwner
  <2> QED  BY <2>1, <2>3, <2>4, <2>5, FewerEncounters, FewerMaps, FewerCreatures,
              RowsUnchanged, MapsUnchanged, StoresUnchanged
<1> QED  BY <1>1, <1>2, <1>3, <1>4, <1>5 DEF Next

-----------------------------------------------------------------------------
(* The theorems.                                                           *)

(* Every reachable state satisfies the inductive invariant.                *)
THEOREM Inductive == Spec => []IInv
<1>1. IInv /\ [Next]_vars => IInv'
  BY StepKept
<1> QED  BY <1>1, InitInv, PTL DEF Spec

(* Requests, stores and tables hold what they may: in particular no row is *)
(* ever without a document, whoever writes it.                             *)
THEOREM TypeCorrect == Spec => []TypeOK
<1>1. IInv => TypeOK
  BY DEF IInv, RequestInv, EncounterInv, MapInv, CreatureInv, TypeOK
<1> QED  BY <1>1, Inductive, PTL

(* No request is answered with another user's document, though the owner   *)
(* is looked at in one query and the document read in another.             *)
THEOREM AnswersGoToOwners == Spec => []AnsweredToOwner
<1>1. IInv => AnsweredToOwner
  BY DEF IInv
<1> QED  BY <1>1, Inductive, PTL

(* Only what ValidateMapRequest accepts is stored, and that is a map which *)
(* the notes on the API allow.                                             *)
THEOREM MapsWellFormed == Spec => []StoredMapsWellFormed
<1>1. IInv => StoredMapsWellFormed
  BY DEF IInv, MapInv, OwnMap, StoredMapsWellFormed
<1> QED  BY <1>1, Inductive, PTL

(* "Not found" is said only of a map that is not there when it is said.    *)
THEOREM NotFoundIsTrue == Spec => NotFoundTruthful
<1>1. IInv /\ [Next]_vars =>
        [\A r \in Requests :
           pc[r] # "answered" /\ pc'[r] = "answered" /\ answer'[r].code = 404 =>
             mapRow'[req'[r].id] = None]_<<requestVars, mapVars>>
  <2> SUFFICES ASSUME IInv, [Next]_vars, NEW r \in Requests,
                      pc'[r] = "answered", answer'[r].code = 404
               PROVE  mapRow'[req'[r].id] = None
    OBVIOUS
  <2>1. MapInv'
    BY StepKept DEF IInv
  <2> QED  BY <2>1 DEF MapInv, MapGone
<1> QED  BY <1>1, Inductive, PTL DEF Spec, NotFoundTruthful

(* Of the requests that delete a map at most one is told that it did.      *)
THEOREM OneDelete == Spec => []OneDeleteWins
<1>1. IInv => OneDeleteWins
  BY DEF IInv, MapInv
<1> QED  BY <1>1, Inductive, PTL

(* A creature in the collection has the images of its url in the bucket.   *)
THEOREM CreaturesHaveImages == Spec => []ImagesPresent
<1>1. IInv => ImagesPresent
  BY DEF IInv, CreatureInv
<1> QED  BY <1>1, Inductive, PTL

(* Creatures and characters are added once and never change hands, and no  *)
(* id but the one of zeros is ever the url of two creatures.               *)
THEOREM DocumentsStay == Spec => DocumentsKept
<1>1. IInv /\ [Next]_vars =>
        [/\ \A i \in Creatures : creature[i] # None =>
              creature'[i] = creature[i] /\ url'[i] = url[i]
         /\ \A i, j \in Creatures :
              creature[i] # None /\ url'[j] = url[i] /\ url[i] # NilObjectID => i = j
         /\ \A i \in Characters : character[i] # None => character'[i] = character[i]]_creatureVars
  <2> SUFFICES ASSUME IInv, [Next]_vars
               PROVE  /\ \A i \in Creatures : creature[i] # None =>
                           creature'[i] = creature[i] /\ url'[i] = url[i]
                      /\ \A i, j \in Creatures :
                           creature[i] # None /\ url'[j] = url[i] /\ url[i] # NilObjectID => i = j
                      /\ \A i \in Characters : character[i] # None => character'[i] = character[i]
    OBVIOUS
  <2>1. StoredKept
    BY StepKept
  <2>2. ASSUME NEW i \in Creatures, NEW j \in Creatures,
               creature[i] # None, url'[j] = url[i], url[i] # NilObjectID
        PROVE  i = j
    <3>1. url[i] = i
      BY <2>2 DEF IInv, CreatureInv, UrlOf
    <3>2. url'[j] \in {None, j, NilObjectID}
      BY <2>1 DEF StoredKept, UrlOf
    <3> QED  BY <2>2, <3>1, <3>2, CreaturesAssumption
  <2> QED  BY <2>1, <2>2 DEF StoredKept
<1> QED  BY <1>1, Inductive, PTL DEF Spec, DocumentsKept

-----------------------------------------------------------------------------
(* Encounters implement Shelf.                                             *)

(* The shelf that the rows are.                                            *)
RowOwner   == [i \in Encounters |-> IF row[i] = None THEN None ELSE row[i].owner]
RowContent == [i \in Encounters |->
                 IF Live(i) THEN [by |-> row[i].by, data |-> row[i].data] ELSE None]
RowGone    == {i \in Encounters : row[i] # None /\ row[i].deleted}

(* How a row changes: it is inserted, written or marked deleted.           *)
Inserted(i, q) == row[i] = None /\ ~q.deleted
Rewritten(i, q) == row[i] # None /\ q.owner = row[i].owner /\ q.deleted = row[i].deleted
Marked(i, q) == row[i] # None /\ q = [row[i] EXCEPT !.deleted = TRUE]

RowChange(i, q) ==
  /\ q \in EncounterRow /\ q.by = q.owner
  /\ row' = [row EXCEPT ![i] = q]
  /\ Inserted(i, q) \/ Rewritten(i, q) \/ Marked(i, q)

LEMMA StoreChanges ==
  ASSUME EncounterInv, NEW i \in Encounters, NEW u, NEW d \in Data, row[i] # None,
         row[i].owner = u, StoreData(i, u, d)
  PROVE  \E q : RowChange(i, q)
<1> DEFINE q == [row[i] EXCEPT !.data = d, !.by = u]
<1>1. row[i] \in EncounterRow
  BY DEF EncounterInv, EncountersTypeOK
<1>2. /\ q \in EncounterRow /\ q.owner = row[i].owner /\ q.by = q.owner
      /\ q.deleted = row[i].deleted
  BY <1>1 DEF EncounterRow
<1>3. row' = [row EXCEPT ![i] = q]
  BY DEF StoreData
<1> HIDE DEF q
<1> QED  BY <1>2, <1>3 DEF RowChange, Rewritten

LEMMA RowChanges ==
  ASSUME IInv, [Next]_vars
  PROVE  row' = row \/ \E i \in Encounters : \E q : RowChange(i, q)
<1>0. RequestInv /\ EncounterInv
  BY DEF IInv
<1>1. ASSUME NEW r \in Requests, SaveEncounter(r)
      PROVE  row' = row \/ \E i \in Encounters : \E q : RowChange(i, q)
  <2>1. req[r].user \in Users /\ req[r].doc \in Data
    BY <1>0, <1>1 DEF RequestInv, WellAsked, Carries, SaveEncounter, At, Asks
  <2>2. ASSUME NEW i \in Encounters, InsertEncounter(r, i)
        PROVE  \E q : RowChange(i, q)
    <3> DEFINE q == [owner |-> req[r].user, data |-> req[r].doc,
                     by |-> req[r].user, deleted |-> FALSE]
    <3>1. q \in EncounterRow /\ q.by = q.owner /\ ~q.deleted
      BY <2>1 DEF EncounterRow
    <3>2. row[i] = None /\ row' = [row EXCEPT ![i] = q]
      BY <2>2 DEF InsertEncounter
    <3> HIDE DEF q
    <3> QED  BY <3>1, <3>2 DEF RowChange, Inserted
  <2> QED  BY <1>1, <2>2 DEF SaveEncounter
<1>2. ASSUME NEW r \in Requests, UpdateEncounter(r)
      PROVE  row' = row \/ \E i \in Encounters : \E q : RowChange(i, q)
  <2>1. req[r].id \in Encounters /\ req[r].doc \in Data
    BY <1>0, <1>2 DEF RequestInv, WellAsked, Carries, UpdateEncounter, At, EncounterOps
  <2>2. row[req[r].id] # None /\ row[req[r].id].owner = req[r].user
    BY <1>0, <1>2 DEF EncounterInv, EncounterHeld, UpdateEncounter, At
  <2> QED  BY <1>0, <1>2, <2>1, <2>2, StoreChanges DEF UpdateEncounter
<1>3. ASSUME NEW r \in Requests, RemoveEncounter(r)
      PROVE  row' = row \/ \E i \in Encounters : \E q : RowChange(i, q)
  <2> DEFINE i == req[r].id
             q == [row[i] EXCEPT !.deleted = TRUE]
  <2>1. i \in Encounters
    BY <1>0, <1>3 DEF RequestInv, WellAsked, Carries, RemoveEncounter, At, EncounterOps
  <2>2. row[i] # None /\ row[i] \in EncounterRow /\ row[i].by = row[i].owner
    BY <1>0, <1>3, <2>1
    DEF EncounterInv, EncountersTypeOK, OwnRow, EncounterHeld, RemoveEncounter, At
  <2>3. q \in EncounterRow /\ q.by = q.owner
    BY <2>2 DEF EncounterRow
  <2>4. ASSUME row' = [row EXCEPT ![i].deleted = TRUE] PROVE RowChange(i, q)
    BY <2>2, <2>3, <2>4 DEF RowChange, Marked
  <2> QED  BY <1>3, <2>1, <2>4 DEF RemoveEncounter
<1>4. ASSUME NEW t \in Tables, Expire(t)
      PROVE  row' = row \/ \E i \in Encounters : \E q : RowChange(i, q)
  <2>1. table[t].enc \in Encounters
    BY <1>0, <1>4 DEF Expire, EncounterInv, EncountersTypeOK, OpenTables
  <2>2. row[table[t].enc] # None /\ row[table[t].enc].owner = table[t].admin
    BY <1>0, <1>4 DEF Expire, EncounterInv, TableHeld
  <2> QED  BY <1>0, <1>4, <2>1, <2>2, StoreChanges DEF Expire
<1>5. ASSUME NEW r \in Requests, EncounterStep(r), ~SaveEncounter(r),
             ~UpdateEncounter(r), ~RemoveEncounter(r)
      PROVE  row' = row
  BY <1>5 DEF EncounterStep, AskEncounter, CheckEncounter, GetEncounter, OpenTable, encounterVars
<1>6. ASSUME Restart \/ UNCHANGED encounterVars \/ UNCHANGED vars
      PROVE  row' = row
  BY <1>6 DEF Restart, encounterVars, vars
<1> QED  BY <1>1, <1>2, <1>3, <1>4, <1>5, <1>6 DEF Next

LEMMA RowShelf ==
  ASSUME EncounterInv, NEW i \in Encounters, NEW q, RowChange(i, q)
  PROVE  [EncounterShelf!ShelfNext]_(EncounterShelf!shelfVars)
<1> DEFINE w == [by |-> q.by, data |-> q.data]
<1>1. /\ q \in EncounterRow /\ q.by = q.owner /\ q # None
      /\ q.by \in Users /\ q.data \in Data /\ q.deleted \in BOOLEAN
  BY EncountersAssumption DEF RowChange, EncounterRow
<1>2. \A j \in Encounters : row'[j] = IF j = i THEN q ELSE row[j]
  BY DEF RowChange, EncounterInv, EncountersTypeOK
<1>3. w # None
  BY <1>1, EncountersAssumption
<1>4. row[i] # None => row[i] \in EncounterRow /\ row[i].by = row[i].owner
  BY DEF EncounterInv, EncountersTypeOK, OwnRow
<1>5. CASE Inserted(i, q)
  <2>1. RowOwner[i] = None /\ RowOwner' = [RowOwner EXCEPT ![i] = q.by]
    BY <1>1, <1>2, <1>5 DEF RowOwner, Inserted
  <2>2. RowContent' = [RowContent EXCEPT ![i] = w]
    BY <1>1, <1>2, <1>5 DEF RowContent, Live, Inserted
  <2>3. RowGone' = RowGone
    BY <1>1, <1>2, <1>5 DEF RowGone, Inserted
  <2>4. EncounterShelf!Put(i, q.by, q.data)
    BY <2>1, <2>2, <2>3
    DEF EncounterShelf!Put, EncounterShelf!Written, RowOwner, RowContent, RowGone
  <2> QED  BY <1>1, <2>4 DEF EncounterShelf!ShelfNext
<1>6. CASE Rewritten(i, q)
  <2>1. RowOwner' = RowOwner
    BY <1>1, <1>2, <1>6 DEF RowOwner, Rewritten
  <2>2. RowGone' = RowGone
    BY <1>1, <1>2, <1>6 DEF RowGone, Rewritten
  <2>3. CASE Live(i)
    <3>1. RowContent' = [RowContent EXCEPT ![i] = w]
      BY <1>1, <1>2, <1>6, <2>3 DEF RowContent, Live, Rewritten
    <3>2. RowContent[i] # None
      BY <1>4, <2>3, EncountersAssumption DEF RowContent, Live, EncounterRow
    <3>3. RowOwner[i] = q.by
      BY <1>1, <1>6 DEF RowOwner, Rewritten
    <3>4. EncounterShelf!Rewrite(i, q.data)
      BY <2>1, <2>2, <3>1, <3>2, <3>3
      DEF EncounterShelf!Rewrite, EncounterShelf!Written, RowOwner, RowContent, RowGone
    <3> QED  BY <1>1, <3>4 DEF EncounterShelf!ShelfNext
  <2>4. CASE ~Live(i)
    <3>1. RowContent' = RowContent
      BY <1>1, <1>2, <1>6, <2>4 DEF RowContent, Live, Rewritten
    <3> QED  BY <2>1, <2>2, <3>1
             DEF EncounterShelf!shelfVars, RowOwner, RowContent, RowGone
  <2> QED  BY <2>3, <2>4
<1>7. CASE Marked(i, q)
  <2>1. q.owner = row[i].owner /\ q.deleted
    BY <1>4, <1>7 DEF Marked, EncounterRow
  <2>2. RowOwner' = RowOwner
    BY <1>1, <1>2, <1>7, <2>1 DEF RowOwner, Marked
  <2>3. RowGone' = RowGone \cup {i}
    BY <1>1, <1>2, <1>7, <2>1 DEF RowGone, Marked
  <2>4. RowContent' = [RowContent EXCEPT ![i] = None]
    BY <1>1, <1>2, <1>7, <2>1 DEF RowContent, Live, Marked
  <2>5. CASE Live(i)
    <3>1. RowContent[i] # None
      BY <1>4, <2>5, EncountersAssumption DEF RowContent, Live, EncounterRow
    <3>2. EncounterShelf!TakeAway(i)
      BY <2>2, <2>3, <2>4, <3>1
      DEF EncounterShelf!TakeAway, RowOwner, RowContent, RowGone
    <3> QED  BY <3>2 DEF EncounterShelf!ShelfNext
  <2>6. CASE ~Live(i)
    <3>1. RowGone' = RowGone
      BY <1>7, <2>3, <2>6 DEF RowGone, Live, Marked
    <3>2. RowContent' = RowContent
      BY <2>4, <2>6 DEF RowContent
    <3> QED  BY <2>2, <3>1, <3>2
             DEF EncounterShelf!shelfVars, RowOwner, RowContent, RowGone
  <2> QED  BY <2>5, <2>6
<1> QED  BY <1>5, <1>6, <1>7 DEF RowChange

(* Encounters are a shelf: their owners never change, only the owner's     *)
(* side writes, and what is removed stays removed.                         *)
THEOREM EncountersImplementShelf == Spec => EncountersShelved
<1>1. Init => EncounterShelf!ShelfInit
  <2> SUFFICES ASSUME Init PROVE EncounterShelf!ShelfInit
    OBVIOUS
  <2>1. \A i \in Encounters : row[i] # None => row[i] \in EncounterRow /\ row[i].by = row[i].owner
    BY DEF Init, EncountersInit
  <2>2. RowOwner \in [Encounters -> Users \cup {None}]
    BY <2>1 DEF RowOwner, EncounterRow
  <2>3. RowGone \subseteq {i \in Encounters : RowOwner[i] # None}
    BY <2>1, RequestsAssumption DEF RowOwner, RowGone, EncounterRow
  <2>4. RowContent \in [Encounters -> {[by |-> u, data |-> d] : u \in Users, d \in Data} \cup {None}]
    BY <2>1 DEF RowContent, Live, EncounterRow
  <2>5. ASSUME NEW i \in Encounters
        PROVE  /\ RowContent[i] = None <=> (RowOwner[i] = None \/ i \in RowGone)
               /\ RowContent[i] # None => RowContent[i].by = RowOwner[i]
    <3>1. CASE row[i] = None
      BY <3>1 DEF RowContent, RowOwner, Live
    <3>2. CASE row[i] # None
      <4>1. [by |-> row[i].by, data |-> row[i].data] # None /\ row[i].owner # None
        BY <2>1, <3>2, EncountersAssumption, RequestsAssumption DEF EncounterRow
      <4> QED  BY <2>1, <3>2, <4>1 DEF RowContent, RowOwner, RowGone, Live
    <3> QED  BY <3>1, <3>2
  <2> QED  BY <2>2, <2>3, <2>4, <2>5
           DEF EncounterShelf!ShelfInit, EncounterShelf!Written, RowOwner, RowContent, RowGone
<1>2. IInv /\ [Next]_vars => [EncounterShelf!ShelfNext]_(EncounterShelf!shelfVars)
  <2> SUFFICES ASSUME IInv, [Next]_vars
               PROVE  [EncounterShelf!ShelfNext]_(EncounterShelf!shelfVars)
    OBVIOUS
  <2>1. CASE row' = row
    BY <2>1 DEF EncounterShelf!shelfVars, Live
  <2> QED  BY <2>1, RowChanges, RowShelf DEF IInv
<1> QED  BY <1>1, <1>2, Inductive, PTL DEF Spec, EncountersShelved, EncounterShelf!ShelfSpec

-----------------------------------------------------------------------------
(* Maps implement Shelf.                                                   *)

MapContent == [i \in Maps |-> IF mapRow[i] = None THEN None
                              ELSE [by |-> mapRow[i].by, data |-> mapRow[i].data]]
MapsGone   == {i \in Maps : issuedTo[i] # None /\ mapRow[i] = None}

(* A step touches one map at most, and a map is not created without a row. *)
OnlyMap(i) ==
  /\ \A j \in Maps \ {i} : mapRow'[j] = mapRow[j] /\ issuedTo'[j] = issuedTo[j]
  /\ issuedTo'[i] # issuedTo[i] => mapRow'[i] # None

LEMMA MapChanges ==
  ASSUME IInv, [Next]_vars
  PROVE  UNCHANGED mapVars \/ \E i \in Maps : OnlyMap(i)
<1>0. RequestInv /\ MapInv
  BY DEF IInv
<1>1. ASSUME NEW r \in Requests, CreateMap(r)
      PROVE  UNCHANGED mapVars \/ \E i \in Maps : OnlyMap(i)
  <2>1. req[r].user \in Users /\ req[r].doc \in MapData
    BY <1>0, <1>1, MapAsked DEF CreateMap, At, MapOps
  <2>2. MapRow(r) \in MapRows
    BY <2>1 DEF MapRow, MapRows
  <2>3. MapRow(r) # None
    BY <2>2, MapsAssumption
  <2> QED  BY <1>0, <1>1, <2>3, ZenonT(60) DEF CreateMap, OnlyMap, MapInv, MapsTypeOK
<1>2. ASSUME NEW r \in Requests, UpdateMap(r) \/ DeleteMap(r)
      PROVE  \E i \in Maps : OnlyMap(i)
  <2>1. req[r].id \in Maps
    BY <1>0, <1>2, MapAsked DEF UpdateMap, DeleteMap, At, MapOps
  <2>2. issuedTo' = issuedTo /\ \A j \in Maps \ {req[r].id} : mapRow'[j] = mapRow[j]
    BY <1>0, <1>2 DEF UpdateMap, DeleteMap, MapInv, MapsTypeOK
  <2> QED  BY <2>1, <2>2 DEF OnlyMap
<1>3. ASSUME NEW r \in Requests, MapStep(r), ~CreateMap(r), ~UpdateMap(r), ~DeleteMap(r)
      PROVE  UNCHANGED mapVars
  BY <1>3 DEF MapStep, AskMap, CheckMap, GetMap
<1>4. ASSUME Restart \/ UNCHANGED vars
      PROVE  UNCHANGED mapVars
  BY <1>4 DEF Restart, vars
<1> QED  BY <1>1, <1>2, <1>3, <1>4 DEF Next

LEMMA MapShelfStep ==
  ASSUME MapInv, MapsKept, NEW i \in Maps, OnlyMap(i)
  PROVE  [MapShelf!ShelfNext]_(MapShelf!shelfVars)
<1>1. /\ mapRow[i] \in MapRows \cup {None} /\ mapRow'[i] \in MapRows \cup {None}
      /\ issuedTo \in [Maps -> Users \cup {None}] /\ issuedTo' \in [Maps -> Users \cup {None}]
  BY DEF MapInv, MapsTypeOK, MapsKept
<1>2. /\ \A j \in Maps \ {i} : mapRow'[j] = mapRow[j] /\ issuedTo'[j] = issuedTo[j]
      /\ issuedTo'[i] # issuedTo[i] => mapRow'[i] # None
  BY DEF OnlyMap
<1>3. /\ mapRow[i] # None => mapRow[i].by \in Users /\ mapRow[i].by = issuedTo[i]
      /\ mapRow'[i] # None => mapRow'[i].by \in Users /\ mapRow'[i].by = issuedTo'[i]
      /\ mapRow'[i] # None => mapRow'[i].data \in MapData
      /\ mapRow[i] # None => mapRow[i].data \in MapData
  BY <1>1 DEF MapInv, MapsKept, OwnMap, MapRows
<1>4. issuedTo[i] # None => issuedTo'[i] = issuedTo[i] /\ (mapRow[i] = None => mapRow'[i] = None)
  BY DEF MapsKept
<1>5. None \notin Users
  BY RequestsAssumption
<1>6. ASSUME issuedTo'[i] = issuedTo[i]
      PROVE  issuedTo' = issuedTo
  BY <1>1, <1>2, <1>6
<1>7. CASE issuedTo[i] = None /\ mapRow'[i] # None
  <2>0. PICK u \in Users, d \in MapData : u = mapRow'[i].by /\ d = mapRow'[i].data
    BY <1>3, <1>7
  <2>1. mapRow[i] = None
    BY <1>3, <1>5, <1>7
  <2>2. issuedTo' = [issuedTo EXCEPT ![i] = u]
    BY <1>1, <1>2, <1>3, <1>7, <2>0
  <2>3. MapContent' = [MapContent EXCEPT ![i] = [by |-> u, data |-> d]]
    BY <1>2, <1>7, <2>0 DEF MapContent
  <2>4. MapsGone' = MapsGone
    BY <1>2, <1>7 DEF MapsGone
  <2>5. MapShelf!Put(i, u, d)
    BY <1>7, <2>2, <2>3, <2>4 DEF MapShelf!Put, MapShelf!Written, MapContent, MapsGone
  <2> QED  BY <2>5 DEF MapShelf!ShelfNext
<1>8. CASE mapRow[i] # None /\ mapRow'[i] # None
  <2>0. PICK d \in MapData : d = mapRow'[i].data
    BY <1>3, <1>8
  <2>1. issuedTo[i] # None /\ issuedTo' = issuedTo /\ mapRow'[i].by = issuedTo[i]
    BY <1>3, <1>4, <1>5, <1>6, <1>8
  <2>2. MapContent' = [MapContent EXCEPT ![i] = [by |-> issuedTo[i], data |-> d]]
    BY <1>2, <1>8, <2>0, <2>1 DEF MapContent
  <2>3. MapsGone' = MapsGone
    BY <1>2, <1>8, <2>1 DEF MapsGone
  <2>4. MapContent[i] # None
    BY <1>3, <1>8, MapsAssumption DEF MapContent
  <2>5. MapShelf!Rewrite(i, d)
    BY <2>1, <2>2, <2>3, <2>4 DEF MapShelf!Rewrite, MapShelf!Written, MapContent, MapsGone
  <2> QED  BY <2>5 DEF MapShelf!ShelfNext
<1>9. CASE mapRow[i] # None /\ mapRow'[i] = None
  <2>1. issuedTo[i] # None /\ issuedTo' = issuedTo
    BY <1>3, <1>4, <1>5, <1>6, <1>9
  <2>2. MapContent' = [MapContent EXCEPT ![i] = None]
    BY <1>2, <1>9 DEF MapContent
  <2>3. MapsGone' = MapsGone \cup {i}
    BY <1>2, <1>9, <2>1 DEF MapsGone
  <2>4. MapContent[i] # None
    BY <1>3, <1>9, MapsAssumption DEF MapContent
  <2>5. MapShelf!TakeAway(i)
    BY <2>1, <2>2, <2>3, <2>4 DEF MapShelf!TakeAway, MapContent, MapsGone
  <2> QED  BY <2>5 DEF MapShelf!ShelfNext
<1>10. CASE mapRow[i] = None /\ mapRow'[i] = None
  <2>1. issuedTo' = issuedTo
    BY <1>2, <1>6, <1>10
  <2>2. MapContent' = MapContent
    BY <1>2, <1>10 DEF MapContent
  <2>3. MapsGone' = MapsGone
    BY <1>2, <1>10, <2>1 DEF MapsGone
  <2> QED  BY <2>1, <2>2, <2>3 DEF MapShelf!shelfVars, MapContent, MapsGone
<1> QED  BY <1>4, <1>7, <1>8, <1>9, <1>10

(* Maps are a shelf too: an update that was allowed before a deletion does *)
(* not bring the map back, and no map changes hands.                       *)
THEOREM MapsImplementShelf == Spec => MapsShelved
<1>1. Init => MapShelf!ShelfInit
  <2> SUFFICES ASSUME Init PROVE MapShelf!ShelfInit
    OBVIOUS
  <2>1. /\ issuedTo \in [Maps -> Users \cup {None}]
        /\ \A i \in Maps : mapRow[i] # None =>
             /\ mapRow[i].by \in Users /\ mapRow[i].data \in MapData
             /\ mapRow[i].by = issuedTo[i] /\ issuedTo[i] # None
    BY RequestsAssumption DEF Init, MapsInit
  <2>2. MapContent \in [Maps -> {[by |-> u, data |-> d] : u \in Users, d \in MapData} \cup {None}]
    BY <2>1 DEF MapContent
  <2>3. ASSUME NEW i \in Maps
        PROVE  /\ MapContent[i] = None <=> (issuedTo[i] = None \/ i \in MapsGone)
               /\ MapContent[i] # None => MapContent[i].by = issuedTo[i]
    <3>1. CASE mapRow[i] = None
      BY <3>1 DEF MapContent, MapsGone
    <3>2. CASE mapRow[i] # None
      <4>1. [by |-> mapRow[i].by, data |-> mapRow[i].data] # None
        BY <2>1, <3>2, MapsAssumption
      <4> QED  BY <2>1, <3>2, <4>1 DEF MapContent, MapsGone
    <3> QED  BY <3>1, <3>2
  <2> QED  BY <2>1, <2>2, <2>3
           DEF MapShelf!ShelfInit, MapShelf!Written, MapContent, MapsGone
<1>2. IInv /\ [Next]_vars => [MapShelf!ShelfNext]_(MapShelf!shelfVars)
  <2> SUFFICES ASSUME IInv, [Next]_vars
               PROVE  [MapShelf!ShelfNext]_(MapShelf!shelfVars)
    OBVIOUS
  <2>1. CASE UNCHANGED mapVars
    BY <2>1 DEF MapShelf!shelfVars, mapVars
  <2> QED  BY <2>1, MapChanges, StepKept, MapShelfStep DEF IInv
<1> QED  BY <1>1, <1>2, Inductive, PTL DEF Spec, MapsShelved, MapShelf!ShelfSpec

=============================================================================
