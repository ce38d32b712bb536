------------------------------ MODULE Creatures ------------------------------
(***************************************************************************)
(* Users' own documents in MongoDB: generated creatures (internal/pkg/     *)
(* bestiary), each of which has two images in S3, and characters           *)
(* (internal/pkg/character). Both are read first and their owner is looked *)
(* at afterwards. A document that is not there makes the usecase panic,    *)
(* which the recovery middleware answers with 500.                         *)
(*                                                                         *)
(* The collections are append-only: the code neither updates nor deletes.  *)
(***************************************************************************)
EXTENDS Requests

CONSTANTS
  Creatures,    \* ObjectIDs of creatures
  NilObjectID,  \* the one of twenty-four zeros
  Characters    \* ObjectIDs of characters

ASSUME CreaturesAssumption ==
  None \notin Creatures \cup Characters /\ NilObjectID \in Creatures

VARIABLES
  creature,    \* generated_creatures, by _id: the owner of a creature
  url,         \* the id in its url, by which it is asked for
  image,       \* by id, which of the two images are in the bucket
  character    \* characters: the owner of a character

creatureVars == <<creature, url, image, character>>

Images == {"processed", "tokens"}

CreatureOps  == {"get creature", "add creature"}
CharacterOps == {"get character", "add character"}

CreaturesTypeOK ==
  /\ creature \in [Creatures -> Owners]
  /\ url \in [Creatures -> Creatures \cup {None}]
  /\ image \in [Creatures -> SUBSET Images]
  /\ character \in [Characters -> Owners]

(* Documents may be there from an earlier life of the process, and images  *)
(* of creatures that were never added.                                     *)
CreaturesInit ==
  /\ creature \in {f \in [Creatures -> Users \cup {None}] : f[NilObjectID] = None}
  /\ url \in {f \in [Creatures -> Creatures \cup {None}] : \A i \in Creatures :
                f[i] \in IF creature[i] = None THEN {None} ELSE {i, NilObjectID}}
  /\ image \in {f \in [Creatures -> SUBSET Images] : \A i \in Creatures :
                  creature[i] # None => f[url[i]] = Images}
  /\ character \in [Characters -> Owners]

-----------------------------------------------------------------------------
(* AddGeneratedCreature: doc is the owner the creature will have. With the *)
(* id "current" the server makes both; otherwise both are the client's.    *)
(* An id that is not hexadecimal, or no name, is refused.                  *)
Fresh(i) ==
  /\ i # NilObjectID /\ creature[i] = None /\ image[i] = {}
  /\ \A s \in Requests : req[s] # None => req[s].op \notin CreatureOps \/ req[s].id # i

AskCreature(r) ==
  /\ UNCHANGED creatureVars
  /\ \E u \in Users, i \in Creatures :
       \/ Ask(r, "get creature", u, i, None, "act")
       \/ Fresh(i) /\ Ask(r, "add creature", u, i, u, "act")
       \/ \E owner \in Users : Ask(r, "add creature", u, i, owner, "act")

RefuseCreature(r) ==
  /\ At(r, "act", {"add creature"})
  /\ Answer(r, 400)
  /\ UNCHANGED creatureVars

(* A failed upload is passed over.                                         *)
UploadBug(r, l, name, next) ==
  /\ At(r, l, {"add creature"})
  /\ \/ image' = [image EXCEPT ![req[r].id] = @ \cup {name}]
     \/ UNCHANGED image
  /\ Continue(r, next)
  /\ UNCHANGED <<creature, url, character>>

(* UploadImage: the data may not be base64, and PutObject may fail with or *)
(* without the object in the bucket; the handler leaves what it has put.   *)
Upload(r, l, name, next) ==
  /\ At(r, l, {"add creature"})
  /\ \/ /\ image' = [image EXCEPT ![req[r].id] = @ \cup {name}]
        /\ Continue(r, next) \/ Answer(r, 500)
     \/ UNCHANGED image /\ (Answer(r, 400) \/ Answer(r, 500))
  /\ UNCHANGED <<creature, url, character>>

UploadRect(r)  == Upload(r, "act", "processed", "second")
UploadToken(r) == Upload(r, "second", "tokens", "store")

(* The document of request r, under the _id i.                             *)
StoreCreature(r, i) ==
  /\ creature' = [creature EXCEPT ![i] = req[r].doc]
  /\ url' = [url EXCEPT ![i] = req[r].id]

(* ReplaceOne with upsert.                                                 *)
InsertCreatureBug(r) ==
  /\ At(r, "store", {"add creature"})
  /\ \/ StoreCreature(r, req[r].id) /\ (Answer(r, 200) \/ Answer(r, 500))
     \/ UNCHANGED <<creature, url>> /\ Answer(r, 500)
  /\ UNCHANGED <<image, character>>

(* InsertOne: _id is unique. An ObjectID of zeros is omitted from the      *)
(* document, and the driver puts a new one in its place.                   *)
InsertCreature(r) ==
  /\ At(r, "store", {"add creature"})
  /\ \/ /\ \E i \in Creatures :
             /\ IF req[r].id = NilObjectID THEN Fresh(i)
                                           ELSE i = req[r].id /\ creature[i] = None
             /\ StoreCreature(r, i)
        /\ Answer(r, 200) \/ Answer(r, 500)
     \/ UNCHANGED <<creature, url>> /\ Answer(r, 500)
  /\ UNCHANGED <<image, character>>

(* What is read is judged by the owner it has; nothing there, or a failed  *)
(* query, is 500. A creature is asked for by its url, which only those     *)
(* added under the ObjectID of zeros share: any of them may be found.      *)
Judge(r, owner, allowed) ==
  \/ owner \in allowed /\ Send(r, 200, owner)
  \/ owner \notin allowed \cup {None} /\ Answer(r, 403)
  \/ Answer(r, 500)

FindOne(id) ==
  LET found == {i \in Creatures : creature[i] # None /\ url[i] = id}
  IN  IF found = {} THEN {None} ELSE {creature[i] : i \in found}

GetCreature(r) ==
  /\ At(r, "act", {"get creature"})
  /\ \E owner \in FindOne(req[r].id) : Judge(r, owner, {req[r].user})
  /\ UNCHANGED creatureVars

-----------------------------------------------------------------------------
(* Characters: those of the user "*" are everybody's.                      *)
AskCharacter(r) ==
  /\ UNCHANGED creatureVars
  /\ \E u \in Users :
       \/ Ask(r, "add character", u, None, None, "act")
       \/ \E i \in Characters : Ask(r, "get character", u, i, None, "act")

(* The file may not be a character; the ObjectID is a new one.             *)
AddCharacter(r) ==
  /\ At(r, "act", {"add character"})
  /\ \/ /\ \E i \in Characters :
             /\ character[i] = None
             /\ character' = [character EXCEPT ![i] = req[r].user]
        /\ Answer(r, 200) \/ Answer(r, 500)
     \/ UNCHANGED character /\ (Answer(r, 400) \/ Answer(r, 500))
  /\ UNCHANGED <<creature, url, image>>

(* An id that is not hexadecimal is 400.                                   *)
GetCharacter(r) ==
  /\ At(r, "act", {"get character"})
  /\ \/ Judge(r, character[req[r].id], {req[r].user, Public})
     \/ Answer(r, 400)
  /\ UNCHANGED creatureVars

CreatureStep(r) ==
  \/ AskCreature(r) \/ RefuseCreature(r) \/ UploadRect(r) \/ UploadToken(r)
  \/ InsertCreature(r) \/ GetCreature(r)
  \/ AskCharacter(r) \/ AddCharacter(r) \/ GetCharacter(r)

-----------------------------------------------------------------------------
(* Properties.                                                             *)

(* A creature in the collection has both images of its url in the bucket:  *)
(* of the three stores of AddGeneratedCreature any may fail and none is    *)
(* undone, so what keeps a creature from being seen without them is their  *)
(* order.                                                                  *)
ImagesPresent ==
  \A i \in Creatures : creature[i] # None => image[url[i]] = Images

(* A creature or character, once added, keeps its owner, and a creature    *)
(* its url, for good; and no creature is added under a url that another    *)
(* has: two requests that add one with the same id cannot both succeed,    *)
(* and the later does not replace the earlier. The ObjectID of zeros is    *)
(* the exception: every add under it succeeds.                             *)
DocumentsKept ==
  [][/\ \A i \in Creatures : creature[i] # None =>
          creature'[i] = creature[i] /\ url'[i] = url[i]
     /\ \A i, j \in Creatures :
          creature[i] # None /\ url'[j] = url[i] /\ url[i] # NilObjectID => i = j
     /\ \A i \in Characters : character[i] # None => character'[i] = character[i]]_creatureVars
=============================================================================
