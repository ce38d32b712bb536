-------------------------------- MODULE Maps ---------------------------------
(***************************************************************************)
(* The maps of internal/pkg/maps: rows of the table maps, each request a   *)
(* permission check, the validator and one query that names the owner      *)
(* again. A row is deleted for good, so a query may find that the map it   *)
(* was allowed to touch is gone. ListMaps only reads.                      *)
(***************************************************************************)
EXTENDS Requests

CONSTANTS
  Maps,     \* the uuids PostgreSQL generates
  MapData   \* the names and data a request may carry

MapRows == [owner : Users, data : MapData, by : Users]

Placements(d) == {d.placements[k] : k \in 1..Len(d.placements)}

(* A placement as it is validated: [id, tileId, x, y, rot]. Of an id only  *)
(* whether it is empty matters, of a name only its length in bytes.        *)
ASSUME MapsAssumption ==
  /\ None \notin Maps \cup MapData \cup MapRows \cup [by : Users, data : MapData]
  /\ \A d \in MapData :
       /\ d.name \in Nat
       /\ {d.schemaVersion, d.widthUnits, d.heightUnits} \subseteq Int
       /\ \A p \in Placements(d) : p.x \in Int /\ p.y \in Int /\ p.rot \in Int

VARIABLES
  mapRow,   \* the table maps, and the user on whose behalf data was written
  issuedTo  \* whom a map was created for, None if it never was

mapVars == <<mapRow, issuedTo>>

MapOps == {"get map", "create map", "update map", "delete map"}

MapsTypeOK ==
  /\ mapRow \in [Maps -> MapRows \cup {None}]
  /\ issuedTo \in [Maps -> Users \cup {None}]

-----------------------------------------------------------------------------
(* ValidateMapRequest: the fields it complains of.                         *)
MapUnitsPerTile == 6

OffGrid(n) == n < 0 \/ n % MapUnitsPerTile # 0

ValidateMapRequest(d) ==
  {f \in {"name", "data.schemaVersion", "data.widthUnits", "data.heightUnits",
          "data.placements"} :
     \/ f = "name" /\ (d.name < 1 \/ d.name > 255)
     \/ f = "data.schemaVersion" /\ d.schemaVersion # 1
     \/ f = "data.widthUnits" /\ (d.widthUnits = 0 \/ OffGrid(d.widthUnits))
     \/ f = "data.heightUnits" /\ (d.heightUnits = 0 \/ OffGrid(d.heightUnits))
     \/ f = "data.placements" /\ \E p \in Placements(d) :
          p.id = "" \/ p.tileId = "" \/ OffGrid(p.x) \/ OffGrid(p.y) \/ p.rot \notin 0..3}

Valid(d) == ValidateMapRequest(d) = {}

(* What maps-api-implementation-notes.md says must be validated, a name of  *)
(* 1 to 255 bytes for one of as many characters.                            *)
WellFormed(d) ==
  /\ d.name \in 1..255 /\ d.schemaVersion = 1
  /\ d.widthUnits > 0 /\ d.heightUnits > 0
  /\ \A p \in Placements(d) :
       p.x >= 0 /\ p.y >= 0 /\ p.rot \in {0, 1, 2, 3} /\ p.id # "" /\ p.tileId # ""

(* What the code demands on top of it: whole tiles, and all on the grid.   *)
OnTiles(d) ==
  \A n \in {d.widthUnits, d.heightUnits} \cup UNION {{p.x, p.y} : p \in Placements(d)} :
    \E k \in 0..n : n = 6 * k

(* Maps may be there from an earlier life of the process.                  *)
MapsInit ==
  /\ issuedTo \in [Maps -> Users \cup {None}]
  /\ mapRow \in [Maps -> {[owner |-> u, data |-> d, by |-> u] :
                            u \in Users, d \in {m \in MapData : Valid(m)}} \cup {None}]
  /\ \A i \in Maps : mapRow[i] # None => mapRow[i].owner = issuedTo[i]

-----------------------------------------------------------------------------
AskMap(r) ==
  /\ UNCHANGED mapVars
  /\ \E u \in Users, d \in MapData :
       \/ Ask(r, "create map", u, None, d, "act")
       \/ \E i \in Maps :
            \/ Ask(r, "update map", u, i, d, "check")
            \/ \E op \in {"get map", "delete map"} : Ask(r, op, u, i, None, "check")

(* CheckMapPermissionQuery.                                                *)
MapPermission(i, u) == mapRow[i] # None /\ mapRow[i].owner = u

(* An update is not validated again.                                       *)
CheckMapBug(r) ==
  /\ At(r, "check", {"get map", "update map", "delete map"})
  /\ \/ MapPermission(req[r].id, req[r].user) /\ Continue(r, "act")
     \/ Answer(r, 403)
  /\ UNCHANGED mapVars

(* CheckPermission, false also when its query fails, and then what an      *)
(* update would write is validated.                                        *)
CheckMap(r) ==
  /\ At(r, "check", {"get map", "update map", "delete map"})
  /\ \/ /\ MapPermission(req[r].id, req[r].user)
        /\ IF req[r].op = "update map" /\ ~Valid(req[r].doc)
             THEN Answer(r, 422) ELSE Continue(r, "act")
     \/ Answer(r, 403)
  /\ UNCHANGED mapVars

(* WHERE id = $1 AND user_id = $2: what the later queries find.            *)
Found(r) == MapPermission(req[r].id, req[r].user)

(* Every failure is taken for a map that is not there.                     *)
GetMapBug(r) ==
  /\ At(r, "act", {"get map"})
  /\ \/ Found(r) /\ Send(r, 200, mapRow[req[r].id].owner)
     \/ Answer(r, 404)
  /\ UNCHANGED mapVars

GetMap(r) ==
  /\ At(r, "act", {"get map"})
  /\ \/ Found(r) /\ Send(r, 200, mapRow[req[r].id].owner)
     \/ ~Found(r) /\ Answer(r, 404)
     \/ Answer(r, 500)
  /\ UNCHANGED mapVars

MapRow(r) == [owner |-> req[r].user, data |-> req[r].doc, by |-> req[r].user]

CreateMap(r) ==
  /\ At(r, "act", {"create map"})
  /\ \/ ~Valid(req[r].doc) /\ Answer(r, 422) /\ UNCHANGED mapVars
     \/ /\ Valid(req[r].doc)
        /\ \/ \E i \in Maps :
                /\ issuedTo[i] = None
                /\ mapRow' = [mapRow EXCEPT ![i] = MapRow(r)]
                /\ issuedTo' = [issuedTo EXCEPT ![i] = req[r].user]
                /\ Send(r, 201, req[r].user) \/ Answer(r, 500)
           \/ UNCHANGED mapVars /\ Answer(r, 500)

(* INSERT ... ON CONFLICT DO UPDATE.                                       *)
UpdateMapBug(r) ==
  /\ At(r, "act", {"update map"})
  /\ \/ /\ mapRow' = [mapRow EXCEPT ![req[r].id] = MapRow(r)]
        /\ Send(r, 200, req[r].user) \/ Answer(r, 500)
     \/ Answer(r, 500) /\ UNCHANGED mapRow
  /\ UNCHANGED issuedTo

(* UPDATE ... RETURNING: no row returned is a map not found.               *)
UpdateMap(r) ==
  /\ At(r, "act", {"update map"})
  /\ \/ /\ Found(r)
        /\ mapRow' = [mapRow EXCEPT ![req[r].id].data = req[r].doc, ![req[r].id].by = req[r].user]
        /\ Send(r, 200, mapRow[req[r].id].owner) \/ Answer(r, 500)
     \/ ~Found(r) /\ Answer(r, 404) /\ UNCHANGED mapRow
     \/ Answer(r, 500) /\ UNCHANGED mapRow
  /\ UNCHANGED issuedTo

(* RowsAffected is not looked at.                                          *)
DeleteMapBug(r) ==
  /\ At(r, "act", {"delete map"})
  /\ \/ /\ mapRow' = [mapRow EXCEPT ![req[r].id] = None]
        /\ Answer(r, 204) \/ Answer(r, 500)
     \/ Answer(r, 500) /\ UNCHANGED mapRow
  /\ UNCHANGED issuedTo

DeleteMap(r) ==
  /\ At(r, "act", {"delete map"})
  /\ \/ /\ Found(r) /\ mapRow' = [mapRow EXCEPT ![req[r].id] = None]
        /\ Answer(r, 204) \/ Answer(r, 500)
     \/ ~Found(r) /\ Answer(r, 404) /\ UNCHANGED mapRow
     \/ Answer(r, 500) /\ UNCHANGED mapRow
  /\ UNCHANGED issuedTo

MapStep(r) ==
  \/ AskMap(r) \/ CheckMap(r) \/ GetMap(r) \/ CreateMap(r)
  \/ UpdateMap(r) \/ DeleteMap(r)

-----------------------------------------------------------------------------
(* Properties.                                                             *)

MapShelf == INSTANCE Shelf WITH
  Ids <- Maps, Data <- MapData,
  owner <- issuedTo,
  content <- [i \in Maps |-> IF mapRow[i] = None THEN None
                             ELSE [by |-> mapRow[i].by, data |-> mapRow[i].data]],
  gone <- {i \in Maps : issuedTo[i] # None /\ mapRow[i] = None}

(* Maps keep the promise of encounters, with rows that disappear: an       *)
(* update that was allowed before a deletion and runs after it must not    *)
(* create the map again.                                                   *)
MapsShelved == MapShelf!ShelfSpec

(* Every map stored is one the notes on the API allow, which say nothing   *)
(* of tiles: no update or creation reaches a row around ValidateMapRequest,*)
(* and its tests of zero, sign and remainder let nothing else pass.        *)
StoredMapsWellFormed ==
  \A i \in Maps : mapRow[i] # None => WellFormed(mapRow[i].data)

(* "Map not found" is said only when the map is not there: of one that was *)
(* deleted since the request was allowed to touch it, or never was.        *)
NotFoundTruthful ==
  [][\A r \in Requests :
       pc[r] # "answered" /\ pc'[r] = "answered" /\ answer'[r].code = 404 =>
         mapRow'[req'[r].id] = None]_<<requestVars, mapVars>>

(* Of several requests that delete a map at most one is told that it did,  *)
(* however their checks and deletions interleave, and then it is gone.     *)
OneDeleteWins ==
  \A r \in Requests : pc[r] = "answered" /\ answer[r].code = 204 =>
    /\ mapRow[req[r].id] = None
    /\ \A s \in Requests \ {r} :
         pc[s] = "answered" /\ answer[s].code = 204 => req[s].id # req[r].id
=============================================================================
