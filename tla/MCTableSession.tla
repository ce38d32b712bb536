--------------------------- MODULE MCTableSession ---------------------------
(* TableSession on a small table, for TLC.                                  *)
EXTENDS TableSession, TLC

CONSTANTS gm, alice, bob, a1, a2, b1, g1, p1, p2, bad

MCUsers == {gm, alice, bob}
PartyUsers == {gm, alice}

(* One player with two connections, and another player: enough for a full  *)
(* table of one seat, for racing joins and for a seat that changes hands.  *)
RivalConns  == {a1, a2, b1}
RivalUserOf == (a1 :> alice) @@ (a2 :> alice) @@ (b1 :> bob)
RivalSymmetry == Permutations({a1, a2})

(* The admin and one player, one connection each: liveness needs no more    *)
(* than two connections, run and one closer competing for the table.        *)
PartyConns  == {g1, a1}
PartyUserOf == (g1 :> gm) @@ (a1 :> alice)

JSON == INSTANCE Merger

(* Documents of depth two over two keys, of which one is also a position.   *)
Keys == {"a", "0"}
Ways == UNION {[1..n -> Keys] : n \in 0..2}
ObjectsOf(vs) == {JSON!Object(f) : f \in UNION {[ks -> vs] : ks \in SUBSET Keys}}
ArraysOf(vs)  == {JSON!Array(s) : s \in {<<>>} \cup {<<v>> : v \in vs}}
Shallow(v)    == {JSON!Plain(v)} \cup ObjectsOf({JSON!Plain(v)}) \cup ArraysOf({JSON!Plain(v)})
Docs(v)       == ObjectsOf(Shallow(v)) \cup ArraysOf(Shallow(v)) \cup {JSON!Plain(v)}

(* Merge against its laws, for every document and every message.            *)
ASSUME MergeLaws ==
  \A doc \in Docs("old"), patch \in Docs("new") :
    IF \E path \in Ways \ {<<>>} : JSON!Conflict(doc, patch, path)
    THEN JSON!Merge(doc, patch) = JSON!Failed
    ELSE /\ JSON!Again(doc, patch)
         /\ \A path \in Ways \ {<<>>} :
              /\ JSON!Laid(doc, patch, path) => JSON!Overlaid(doc, patch, path)
              /\ JSON!Kept(doc, patch, path)
         /\ ~JSON!IsObject(patch) => JSON!Merge(doc, patch) = doc

(* The messages of the runs, for a table opened on Opened: those that Merge *)
(* rejects are Malformed, whichever others were merged before.              *)
Opened   == JSON!Object("hp" :> JSON!Object("a" :> JSON!Plain("7")))
PatchDoc == (p1 :> JSON!Object("hp" :> JSON!Object("a" :> JSON!Plain("5"))))
            @@ (p2 :> JSON!Object("hp" :> JSON!Object("b" :> JSON!Plain("3"))))
            @@ (bad :> JSON!Object("hp" :> JSON!Plain("4")))

ASSUME MalformedRejected ==
  \A s \in UNION {[1..n -> Patches \ Malformed] : n \in 0..2}, m \in Patches :
    LET doc == JSON!FoldLeft(LAMBDA d, p : JSON!Merge(d, PatchDoc[p]), Opened, s)
    IN (JSON!Merge(doc, PatchDoc[m]) = JSON!Failed) <=> m \in Malformed

(* What was nil is no document any more, nor is half a message.             *)
ASSUME NotJSONRejected ==
  JSON!Merge(JSON!NotJSON, Opened) = JSON!Failed /\ JSON!Merge(Opened, JSON!NotJSON) = JSON!Failed
=============================================================================
