----------------------------- MODULE Encounters ------------------------------
(***************************************************************************)
(* The encounters of internal/pkg/encounter: rows of encounter_store that  *)
(* HTTP requests read and write, a permission check and then a query with  *)
(* no transaction around the two, and that tables opened on them overwrite *)
(* when they expire. A row is removed by marking it is_deleted; only the   *)
(* queries that read look at the mark.                                     *)
(*                                                                         *)
(* A table is here only what it holds of the row: its id and the admin on  *)
(* whose behalf it will write. TableSession is the rest of it, and shows   *)
(* that a table writes at most once and always a document (NilNeverStored, *)
(* SingleCloser).                                                          *)
(***************************************************************************)
EXTENDS Requests

CONSTANTS
  Encounters,  \* uuids
  Tables,      \* sessions that may be open at once
  Data         \* contents of an encounter

VARIABLES
  row,    \* encounter_store, and the user on whose behalf data was written
  table   \* the open tables

encounterVars == <<row, table>>

EncounterRow == [owner : Users, data : Data, by : Users, deleted : BOOLEAN]
OpenTables   == [enc : Encounters, admin : Users]

ASSUME EncountersAssumption ==
  None \notin Encounters \cup Data \cup EncounterRow \cup OpenTables
                \cup [by : Users, data : Data]

EncounterOps == {"get encounter", "save encounter", "update encounter",
                 "remove encounter", "open table"}

EncountersTypeOK ==
  /\ row \in [Encounters -> EncounterRow \cup {None}]
  /\ table \in [Tables -> OpenTables \cup {None}]

(* Rows may be there from an earlier life of the process; tables are not.  *)
EncountersInit ==
  /\ row \in [Encounters -> EncounterRow \cup {None}]
  /\ \A i \in Encounters : row[i] # None => row[i].by = row[i].owner
  /\ table = [t \in Tables |-> None]

Live(i) == row[i] # None /\ ~row[i].deleted

-----------------------------------------------------------------------------
(* What a request may ask. An id in it is any uuid.                        *)
AskEncounter(r) ==
  /\ UNCHANGED encounterVars
  /\ \E u \in Users, d \in Data :
       \/ Ask(r, "save encounter", u, None, d, "act")
       \/ \E i \in Encounters :
            \/ Ask(r, "update encounter", u, i, d, "check")
            \/ \E op \in {"get encounter", "remove encounter"} :
                 Ask(r, op, u, i, None, "check")
            \/ Ask(r, "open table", u, i, None, "act")

(* The owner is not looked at.                                             *)
EncounterPermissionBug(i, u) == Live(i)

(* CheckPermissionQuery.                                                   *)
EncounterPermission(i, u) == Live(i) /\ row[i].owner = u

(* CheckPermission says no also when its query fails.                      *)
CheckEncounter(r) ==
  /\ At(r, "check", EncounterOps)
  /\ \/ EncounterPermission(req[r].id, req[r].user) /\ Continue(r, "act")
     \/ Answer(r, 403)
  /\ UNCHANGED encounterVars

(* GetEncounterByID: no row, or a failure.                                 *)
GetEncounter(r) ==
  /\ At(r, "act", {"get encounter"})
  /\ \/ Live(req[r].id) /\ Send(r, 200, row[req[r].id].owner)
     \/ Answer(r, 500)
  /\ UNCHANGED encounterVars

(* The first query of a new uuid.                                          *)
InsertEncounter(r, i) ==
  /\ row[i] = None
  /\ row' = [row EXCEPT ![i] = [owner |-> req[r].user, data |-> req[r].doc,
                                by |-> req[r].user, deleted |-> FALSE]]

(* The name may be empty or too long.                                      *)
SaveEncounter(r) ==
  /\ At(r, "act", {"save encounter"})
  /\ \/ /\ \E i \in Encounters : InsertEncounter(r, i)
        /\ Answer(r, 200) \/ Answer(r, 500)
     \/ UNCHANGED row /\ (Answer(r, 400) \/ Answer(r, 500))
  /\ UNCHANGED table

(* UpdateEncounterQuery: neither the owner nor is_deleted is looked at.    *)
StoreData(i, u, d) == row' = [row EXCEPT ![i].data = d, ![i].by = u]

UpdateEncounter(r) ==
  /\ At(r, "act", {"update encounter"})
  /\ \/ /\ StoreData(req[r].id, req[r].user, req[r].doc)
        /\ Answer(r, 200) \/ Answer(r, 500)
     \/ UNCHANGED row /\ Answer(r, 500)
  /\ UNCHANGED table

RemoveEncounter(r) ==
  /\ At(r, "act", {"remove encounter"})
  /\ \/ /\ row' = [row EXCEPT ![req[r].id].deleted = TRUE]
        /\ Answer(r, 200) \/ Answer(r, 500)
     \/ UNCHANGED row /\ Answer(r, 500)
  /\ UNCHANGED table

-----------------------------------------------------------------------------
(* Tables.                                                                 *)

(* Anyone may open a table on anyone's encounter.                          *)
OpenTableBug(r) ==
  /\ At(r, "act", {"open table"})
  /\ \/ /\ Live(req[r].id)
        /\ \E t \in Tables :
             /\ table[t] = None
             /\ table' = [table EXCEPT ![t] = [enc |-> req[r].id, admin |-> req[r].user]]
        /\ Answer(r, 200)
     \/ UNCHANGED table /\ Answer(r, 400)
  /\ UNCHANGED row

(* CreateSession of the table usecase: another user's encounter is refused *)
(* like one that is not there, or a query that failed.                     *)
OpenTable(r) ==
  /\ At(r, "act", {"open table"})
  /\ \/ /\ Live(req[r].id) /\ row[req[r].id].owner = req[r].user
        /\ \E t \in Tables :
             /\ table[t] = None
             /\ table' = [table EXCEPT ![t] = [enc |-> req[r].id, admin |-> req[r].user]]
        /\ Answer(r, 200)
     \/ UNCHANGED table /\ Answer(r, 400)
  /\ UNCHANGED row

(* A table without data is stored as it is.                                *)
ExpireBug(t) ==
  /\ table[t] # None
  /\ \/ UNCHANGED row
     \/ \E d \in Data \cup {None} : StoreData(table[t].enc, table[t].admin, d)
  /\ table' = [table EXCEPT ![t] = None]
  /\ UNCHANGED requestVars

(* stopTimer: what was played is stored and the session is removed,        *)
(* whether or not the query failed.                                        *)
Expire(t) ==
  /\ table[t] # None
  /\ \/ UNCHANGED row
     \/ \E d \in Data : StoreData(table[t].enc, table[t].admin, d)
  /\ table' = [table EXCEPT ![t] = None]
  /\ UNCHANGED requestVars

EncounterStep(r) ==
  \/ AskEncounter(r) \/ CheckEncounter(r) \/ GetEncounter(r)
  \/ SaveEncounter(r) \/ UpdateEncounter(r) \/ RemoveEncounter(r)
  \/ OpenTable(r)

-----------------------------------------------------------------------------
(* Properties.                                                             *)

EncounterShelf == INSTANCE Shelf WITH
  Ids <- Encounters,
  owner <- [i \in Encounters |-> IF row[i] = None THEN None ELSE row[i].owner],
  content <- [i \in Encounters |->
                IF Live(i) THEN [by |-> row[i].by, data |-> row[i].data] ELSE None],
  gone <- {i \in Encounters : row[i] # None /\ row[i].deleted}

(* Encounters are a shelf of documents: whatever the order in which edits, *)
(* removals, tables that open and tables that expire come between the      *)
(* check of a handler and its query, an encounter changes only on its      *)
(* owner's behalf, and neither a late edit nor the last write of a table   *)
(* brings a removed one back.                                              *)
EncountersShelved == EncounterShelf!ShelfSpec
=============================================================================
