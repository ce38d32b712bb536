------------------------- MODULE TableSessionProofs -------------------------
(***************************************************************************)
(* Safety of TableSession for any number of users, connections, messages   *)
(* and firings of the timer: types, the seat limit, what is stored when a  *)
(* table expires, and who holds the connections in the map.                *)
(*                                                                         *)
(* The limit is not inductive by itself: AddParticipant compares with      *)
(* playersNum, so one has to know that playersNum never falls below the    *)
(* number of seated players. SeatsCounted and TypeOK hold each other up:   *)
(* the counter stays a natural number because the player it is lowered     *)
(* for is one of those it counts. TypeOK also needs Held: a merge starts   *)
(* from encounterData that is not nil, because nil means s.mu is locked.   *)
(* What may be stored needs Expiry as well: a closer that found no session *)
(* comes too late for the watcher.                                         *)
(***************************************************************************)
EXTENDS TableSession, FiniteSetTheorems, TLAPS

(* What the goroutines have in hand is a message, and nil data is locked   *)
(* away.                                                                   *)
Held ==
  /\ data = Nil => mu # "free"
  /\ rpc = "merge" => inbox \in Patches
  /\ \A c \in Conns : pc[c] \in {"extend", "send"} => msg[c] \in Patches

(* The life of a table: created, watched by a timer, closed by one closer. *)
Expiry ==
  /\ creator # "ready" => ~watcher /\ timer = "off" /\ \A k \in Closers : spc[k] = "idle"
  /\ creator = "arm" => session = "present"
  /\ \A k \in Closers : spc[k] = "drop" /\ snap[k] = Nil => ~watcher
  /\ SingleCloser
  /\ NilNeverStored

(* The seated players are finitely many, whoever they are.                 *)
LEMMA PlayersFinite ==
  IsFiniteSet(Players) /\ Cardinality(Players) \in Nat
<1>1. Players \in SUBSET Users
  BY DEF Players, Seated
<1>2. IsFiniteSet(Players)
  BY <1>1, UsersAssumption, FS_Subset
<1> QED
  BY <1>2, FS_CardinalityType

(* A step that touches neither the map nor the counter.                    *)
LEMMA SeatsKept ==
  ASSUME SeatsCounted, seat' = seat, playersNum' = playersNum
  PROVE  SeatsCounted'
<1>1. Players' = Players
  BY DEF Players, Seated
<1> QED
  BY <1>1 DEF SeatsCounted

(* A user takes a seat, or takes over the one the user has: the counter    *)
(* goes up for a player in both cases.                                     *)
LEMMA SeatTaken ==
  ASSUME TypeOK, SeatsCounted, NEW u \in Users, NEW c \in Conns,
         seat' = [seat EXCEPT ![u] = c],
         playersNum' = IF Role(u) = "player" THEN playersNum + 1 ELSE playersNum
  PROVE  SeatsCounted'
<1> USE DEF Players, Seated, TypeOK
<1>1. Players' = IF Role(u) = "player" THEN Players \cup {u} ELSE Players
  BY ConnsAssumption
<1>2. Cardinality(Players \cup {u}) \in Nat
      /\ Cardinality(Players \cup {u}) <= Cardinality(Players) + 1
  <2> HIDE DEF Players
  <2>1. IsFiniteSet(Players) /\ Cardinality(Players) \in Nat
    BY PlayersFinite
  <2>2. Cardinality(Players \cup {u}) =
          IF u \in Players THEN Cardinality(Players) ELSE Cardinality(Players) + 1
    BY <2>1, FS_AddElement
  <2> QED
    BY <2>1, <2>2
<1> HIDE DEF Players
<1>3. playersNum \in Nat
  OBVIOUS
<1> QED
  BY <1>1, <1>2, <1>3, PlayersFinite DEF SeatsCounted

(* Seats given up without the counter being lowered.                       *)
LEMMA SeatsFreed ==
  ASSUME TypeOK, SeatsCounted, NEW F \in SUBSET Users, Unseat(F),
         playersNum' = playersNum
  PROVE  SeatsCounted'
<1>1. Players' \in SUBSET Players
  BY DEF Players, Seated, Unseat, TypeOK
<1>2. Cardinality(Players') <= Cardinality(Players) /\ Cardinality(Players') \in Nat
  BY <1>1, PlayersFinite, FS_Subset, FS_CardinalityType
<1> QED
  BY <1>2, PlayersFinite DEF SeatsCounted, TypeOK

(* Unseat keeps the types of what it changes.                              *)
LEMMA UnseatType ==
  ASSUME TypeOK, NEW F \in SUBSET Users, Unseat(F)
  PROVE  /\ seat' \in [Users -> Conns \cup {NoConn}]
         /\ conn' \in [Conns -> {"none", "open", "gone", "closed"}]
         /\ due' \in [Closers -> SUBSET Users]
  BY DEF Unseat, TypeOK

(* A broadcast frees the seats of some users, maybe of none.               *)
LEMMA BroadcastFrees ==
  ASSUME Broadcast
  PROVE  \E F \in SUBSET Users : Unseat(F)
  BY DEF Broadcast, FailedWrites, Seated

(* A player with a seat is among those the counter covers, so lowering it  *)
(* for that player keeps it a natural number and keeps it covering.        *)
LEMMA RemoveParticipantCounts ==
  ASSUME TypeOK, SeatsCounted, NEW u \in Users, RemoveParticipant(u)
  PROVE  /\ SeatsCounted'
         /\ playersNum' \in 0..MaxPlayers
         /\ mu' \in {"free", "AddParticipant", "RemoveParticipant", "run"}
         /\ seat' \in [Users -> Conns \cup {NoConn}]
         /\ conn' \in [Conns -> {"none", "open", "gone", "closed"}]
         /\ due' \in [Closers -> SUBSET Users]
<1>1. CASE seat[u] = NoConn
  <2>1. SeatsCounted'
    BY <1>1, SeatsKept DEF RemoveParticipant
  <2> QED
    BY <1>1, <2>1 DEF RemoveParticipant, TypeOK
<1>2. CASE seat[u] # NoConn /\ Role(u) = "player"
  <2>1. u \in Players
    BY <1>2 DEF Players, Seated
  <2>2. Players' = Players \ {u}
    BY <1>2 DEF RemoveParticipant, Unseat, Players, Seated, TypeOK
  <2>3. Cardinality(Players') = Cardinality(Players) - 1
    BY <2>1, <2>2, PlayersFinite, FS_RemoveElement
  <2>4. Cardinality(Players) >= 1
    BY <2>1, PlayersFinite, FS_EmptySet
  <2>5. playersNum' = playersNum - 1 /\ mu' = mu /\ Unseat({u})
    BY <1>2 DEF RemoveParticipant
  <2>6. playersNum \in 0..MaxPlayers /\ Cardinality(Players) <= playersNum
    BY DEF TypeOK, SeatsCounted
  <2>7. playersNum' \in 0..MaxPlayers /\ Cardinality(Players') <= playersNum'
    BY <2>3, <2>4, <2>5, <2>6, PlayersFinite, MaxPlayersAssumption
  <2> QED
    BY <2>5, <2>7, UnseatType DEF SeatsCounted, TypeOK
<1>3. CASE seat[u] # NoConn /\ Role(u) # "player"
  <2>1. playersNum' = playersNum /\ mu' = mu /\ Unseat({u})
    BY <1>3 DEF RemoveParticipant
  <2> QED
    BY <2>1, UnseatType, SeatsFreed DEF TypeOK
<1> QED
  BY <1>1, <1>2, <1>3

(* A reader that ends reports a panic or none.                             *)
LEMMA ExitType ==
  ASSUME TypeOK, NEW c \in Conns, Exit(c)
  PROVE  pc' \in [Conns -> ConnPCs] /\ crashed' \in BOOLEAN
<1>1. pc' \in [Conns -> ConnPCs]
  BY DEF Exit, Goto, TypeOK, ConnPCs
<1>2. crashed' \in BOOLEAN
  BY DEF Exit
<1> QED
  BY <1>1, <1>2

-----------------------------------------------------------------------------
(* Every step keeps the types and the count. First the steps that leave the *)
(* participants map and the counter alone.                                  *)
LEMMA OtherSteps ==
  ASSUME TypeOK
  PROVE  /\ ArmTimer \/ MergeError => TypeOK' /\ UNCHANGED <<seat, playersNum>>
         /\ \A u \in Users : CreateSession(u) => TypeOK' /\ UNCHANGED <<seat, playersNum>>
         /\ \A c \in Conns, m \in Patches :
              ReadMessage(c, m) => TypeOK' /\ UNCHANGED <<seat, playersNum>>
         /\ \A c \in Conns :
              \/ Dial(c) \/ CheckUser(c) \/ RefuseParticipant(c) \/ Refresh(c)
              \/ Drop(c) \/ ReadError(c) \/ Extend(c) \/ Send(c) \/ Leave(c)
              => TypeOK' /\ UNCHANGED <<seat, playersNum>>
         /\ \A k \in Closers :
              \/ Fire(k) \/ Fetch(k) \/ DropWatcher(k) \/ Save(k) \/ Lookup(k)
              \/ NextKey(k) \/ EndOfKeys(k) \/ DeleteSession(k) \/ ConcurrentMapFault(k)
              => TypeOK' /\ UNCHANGED <<seat, playersNum>>
<1> USE DEF TypeOK, ConnPCs, HandlerPCs, ReaderPCs, CloserPCs, Data, Goto, CloserGoto,
            At, CloserAt, RunAt, tableVars, runVars, expiryVars, connVars, closerVars
<1>1. ASSUME NEW u \in Users, CreateSession(u)
      PROVE  TypeOK' /\ UNCHANGED <<seat, playersNum>>
  BY <1>1 DEF CreateSession
<1>2. ASSUME ArmTimer
      PROVE  TypeOK' /\ UNCHANGED <<seat, playersNum>>
  BY <1>2 DEF ArmTimer
<1>3. ASSUME MergeError
      PROVE  TypeOK' /\ UNCHANGED <<seat, playersNum>>
  BY <1>3 DEF MergeError, Nil
<1>4. ASSUME NEW c \in Conns, Dial(c)
      PROVE  TypeOK' /\ UNCHANGED <<seat, playersNum>>
  BY <1>4 DEF Dial
<1>5. ASSUME NEW c \in Conns, CheckUser(c)
      PROVE  TypeOK' /\ UNCHANGED <<seat, playersNum>>
  BY <1>5 DEF CheckUser
<1>6. ASSUME NEW c \in Conns, RefuseParticipant(c)
      PROVE  TypeOK' /\ UNCHANGED <<seat, playersNum>>
  BY <1>6 DEF RefuseParticipant
<1>7. ASSUME NEW c \in Conns, Refresh(c)
      PROVE  TypeOK' /\ UNCHANGED <<seat, playersNum>>
  BY <1>7 DEF Refresh
<1>8. ASSUME NEW c \in Conns, ReadError(c)
      PROVE  TypeOK' /\ UNCHANGED <<seat, playersNum>>
  BY <1>8 DEF ReadError
<1>9. ASSUME NEW c \in Conns, Drop(c)
      PROVE  TypeOK' /\ UNCHANGED <<seat, playersNum>>
  BY <1>9 DEF Drop
<1>10. ASSUME NEW c \in Conns, NEW m \in Patches, ReadMessage(c, m)
      PROVE  TypeOK' /\ UNCHANGED <<seat, playersNum>>
  BY <1>10 DEF ReadMessage
<1>11. ASSUME NEW c \in Conns, Extend(c)
      PROVE  TypeOK' /\ UNCHANGED <<seat, playersNum>>
  BY <1>11 DEF Extend
<1>12. ASSUME NEW c \in Conns, Send(c)
      PROVE  TypeOK' /\ UNCHANGED <<seat, playersNum>>
  BY <1>12 DEF Send
<1>13. ASSUME NEW c \in Conns, Leave(c)
      PROVE  TypeOK' /\ UNCHANGED <<seat, playersNum>>
  BY <1>13, ExitType DEF Leave
<1>14. ASSUME NEW k \in Closers, Fire(k)
      PROVE  TypeOK' /\ UNCHANGED <<seat, playersNum>>
  BY <1>14 DEF Fire
<1>15. ASSUME NEW k \in Closers, Fetch(k)
      PROVE  TypeOK' /\ UNCHANGED <<seat, playersNum>>
  BY <1>15 DEF Fetch
<1>16. ASSUME NEW k \in Closers, DropWatcher(k)
      PROVE  TypeOK' /\ UNCHANGED <<seat, playersNum>>
  <2>1. crashed' \in BOOLEAN /\ watcher' \in BOOLEAN
    BY <1>16 DEF DropWatcher
  <2> QED
    BY <1>16, <2>1 DEF DropWatcher
<1>17. ASSUME NEW k \in Closers, Save(k)
      PROVE  TypeOK' /\ UNCHANGED <<seat, playersNum>>
  BY <1>17 DEF Save
<1>18. ASSUME NEW k \in Closers, Lookup(k)
      PROVE  TypeOK' /\ UNCHANGED <<seat, playersNum>>
  BY <1>18 DEF Lookup, Seated
<1>19. ASSUME NEW k \in Closers, NextKey(k)
      PROVE  TypeOK' /\ UNCHANGED <<seat, playersNum>>
  BY <1>19 DEF NextKey, Seated
<1>20. ASSUME NEW k \in Closers, EndOfKeys(k)
      PROVE  TypeOK' /\ UNCHANGED <<seat, playersNum>>
  BY <1>20 DEF EndOfKeys
<1>21. ASSUME NEW k \in Closers, DeleteSession(k)
      PROVE  TypeOK' /\ UNCHANGED <<seat, playersNum>>
  BY <1>21 DEF DeleteSession
<1>22. ASSUME NEW k \in Closers, ConcurrentMapFault(k)
      PROVE  TypeOK' /\ UNCHANGED <<seat, playersNum>>
  BY <1>22 DEF ConcurrentMapFault
<1> HIDE DEF TypeOK, ConnPCs, HandlerPCs, ReaderPCs, CloserPCs, Data, Goto, CloserGoto,
            At, CloserAt, RunAt, tableVars, runVars, expiryVars, connVars, closerVars
<1> QED
  BY <1>1, <1>2, <1>3, <1>4, <1>5, <1>6, <1>7, <1>8, <1>9, <1>10, <1>11, <1>12,
     <1>13, <1>14, <1>15, <1>16, <1>17, <1>18, <1>19, <1>20, <1>21, <1>22

(* Then those that move a seat.                                             *)
LEMMA SeatSteps ==
  ASSUME TypeOK, SeatsCounted, Held
  PROVE  /\ MergePatch => TypeOK' /\ SeatsCounted'
         /\ \A c \in Conns :
              \/ AddAdmin(c) \/ AddParticipant(c) \/ Announce(c) \/ WriteFirstMsg(c)
              \/ Remove(c) \/ SayGoodbye(c)
              => TypeOK' /\ SeatsCounted'
         /\ \A k \in Closers : Evict(k) \/ Tell(k) => TypeOK' /\ SeatsCounted'
<1> USE DEF ConnPCs, HandlerPCs, ReaderPCs, CloserPCs, Goto, CloserGoto,
            At, CloserAt, RunAt, tableVars, runVars, expiryVars, connVars, closerVars
<1>1. ASSUME NEW c \in Conns, AddAdmin(c)
      PROVE  TypeOK' /\ SeatsCounted'
  <2>1. UserOf[c] \in Users
    BY ConnsAssumption
  <2>2. SeatsCounted'
    BY <1>1, <2>1, SeatTaken DEF AddAdmin, Role
  <2> QED
    BY <1>1, <2>1, <2>2 DEF AddAdmin, TypeOK
<1>2. ASSUME NEW c \in Conns, AddParticipant(c)
      PROVE  TypeOK' /\ SeatsCounted'
  <2>1. UserOf[c] \in Users
    BY ConnsAssumption
  <2>2. SeatsCounted'
    BY <1>2, <2>1, SeatTaken DEF AddParticipant
  <2>3. playersNum' \in 0..MaxPlayers
    BY <1>2, MaxPlayersAssumption DEF AddParticipant, TypeOK
  <2> QED
    BY <1>2, <2>1, <2>2, <2>3 DEF AddParticipant, TypeOK
<1>3. ASSUME NEW c \in Conns, Announce(c)
      PROVE  TypeOK' /\ SeatsCounted'
  <2>1. PICK F \in SUBSET Users : Unseat(F)
    BY <1>3, BroadcastFrees DEF Announce
  <2>2. SeatsCounted'
    BY <1>3, <2>1, SeatsFreed DEF Announce
  <2> QED
    BY <1>3, <2>1, <2>2, UnseatType DEF Announce, TypeOK
<1>4. ASSUME NEW c \in Conns, WriteFirstMsg(c)
      PROVE  TypeOK' /\ SeatsCounted'
  <2>1. CASE seat[UserOf[c]] = NoConn
    <3>1. SeatsCounted'
      BY <1>4, <2>1, SeatsKept DEF WriteFirstMsg
    <3> QED
      BY <1>4, <2>1, <3>1 DEF WriteFirstMsg, TypeOK
  <2>2. CASE seat[UserOf[c]] # NoConn
    <3>1. PICK F \in SUBSET Users : Unseat(F)
      BY <1>4, <2>2, ConnsAssumption DEF WriteFirstMsg, FailedWrites
    <3>2. SeatsCounted'
      BY <1>4, <3>1, SeatsFreed DEF WriteFirstMsg
    <3> QED
      BY <1>4, <2>2, <3>1, <3>2, UnseatType DEF WriteFirstMsg, TypeOK
  <2> QED
    BY <2>1, <2>2
<1>5. ASSUME NEW c \in Conns, Remove(c)
      PROVE  TypeOK' /\ SeatsCounted'
  <2>1. UserOf[c] \in Users /\ RemoveParticipant(UserOf[c])
    BY <1>5, ConnsAssumption DEF Remove
  <2>2. pc' \in [Conns -> ConnPCs] /\ crashed' \in BOOLEAN
    BY <1>5, ExitType DEF Remove, TypeOK
  <2> QED
    BY <1>5, <2>1, <2>2, RemoveParticipantCounts DEF Remove, TypeOK
<1>6. ASSUME NEW c \in Conns, SayGoodbye(c)
      PROVE  TypeOK' /\ SeatsCounted'
  <2>1. PICK F \in SUBSET Users : Unseat(F)
    BY <1>6, BroadcastFrees DEF SayGoodbye
  <2>2. SeatsCounted'
    BY <1>6, <2>1, SeatsFreed DEF SayGoodbye
  <2>3. pc' \in [Conns -> ConnPCs] /\ crashed' \in BOOLEAN
    BY <1>6, ExitType DEF SayGoodbye
  <2> QED
    BY <1>6, <2>1, <2>2, <2>3, UnseatType DEF SayGoodbye, TypeOK
<1>7. ASSUME MergePatch
      PROVE  TypeOK' /\ SeatsCounted'
  <2>1. PICK F \in SUBSET Users : Unseat(F)
    BY <1>7, BroadcastFrees DEF MergePatch
  <2>2. SeatsCounted'
    BY <1>7, <2>1, SeatsFreed DEF MergePatch
  <2>3. data' \in Data
    BY <1>7 DEF MergePatch, Held, Data, TypeOK
  <2> QED
    BY <1>7, <2>1, <2>2, <2>3, UnseatType DEF MergePatch, TypeOK
<1>8. ASSUME NEW k \in Closers, Evict(k)
      PROVE  TypeOK' /\ SeatsCounted'
  <2>1. target[k] \in Users /\ RemoveParticipant(target[k])
    BY <1>8 DEF Evict, TypeOK
  <2> QED
    BY <1>8, <2>1, RemoveParticipantCounts, UsersAssumption DEF Evict, TypeOK
<1>9. ASSUME NEW k \in Closers, Tell(k)
      PROVE  TypeOK' /\ SeatsCounted'
  <2>1. PICK F \in SUBSET Users : Unseat(F)
    BY <1>9, BroadcastFrees DEF Tell
  <2>2. SeatsCounted'
    BY <1>9, <2>1, SeatsFreed DEF Tell
  <2> QED
    BY <1>9, <2>1, <2>2, UnseatType DEF Tell, TypeOK
<1> QED
  BY <1>1, <1>2, <1>3, <1>4, <1>5, <1>6, <1>7, <1>8, <1>9

LEMMA CountStep ==
  ASSUME TypeOK, SeatsCounted, Held, [Next]_vars
  PROVE  TypeOK' /\ SeatsCounted'
<1>1. ASSUME TypeOK', UNCHANGED <<seat, playersNum>>
      PROVE  SeatsCounted'
  BY <1>1, SeatsKept
<1>2. CASE ArmTimer \/ MergeError \/ \E u \in Users : CreateSession(u)
  BY <1>1, <1>2, OtherSteps
<1>3. CASE \E c \in Conns, m \in Patches : ReadMessage(c, m)
  BY <1>1, <1>3, OtherSteps
<1>4. CASE MergePatch
  BY <1>4, SeatSteps
<1>5. ASSUME NEW c \in Conns, Dial(c) \/ Handler(c) \/ Drop(c) \/ Reader(c)
      PROVE  TypeOK' /\ SeatsCounted'
  BY <1>1, <1>5, OtherSteps, SeatSteps DEF Handler, Reader
<1>6. ASSUME NEW k \in Closers, Fire(k) \/ Closer(k) \/ ConcurrentMapFault(k)
      PROVE  TypeOK' /\ SeatsCounted'
  BY <1>1, <1>6, OtherSteps, SeatSteps DEF Closer
<1>7. CASE UNCHANGED vars
  <2>1. TypeOK' /\ UNCHANGED <<seat, playersNum>>
    BY <1>7 DEF vars, tableVars, runVars, expiryVars, connVars, closerVars, TypeOK
  <2> QED
    BY <1>1, <2>1
<1> QED
  BY <1>2, <1>3, <1>4, <1>5, <1>6, <1>7 DEF Next, Run

-----------------------------------------------------------------------------
(* Every step keeps Held. Data turns nil only when the mutex is leaked, and *)
(* a leaked mutex is never free again.                                      *)
LEMMA HeldStep ==
  ASSUME TypeOK, Held, NilNeverStored, [Next]_vars
  PROVE  Held'
<1> USE DEF Held, TypeOK, Goto, CloserGoto, At, CloserAt, RunAt, tableVars, runVars,
            expiryVars, connVars, closerVars
<1>1. ASSUME NEW u \in Users, CreateSession(u)
      PROVE  Held'
  BY <1>1 DEF CreateSession, NilNeverStored
<1>2. CASE ArmTimer
  BY <1>2 DEF ArmTimer
<1>3. CASE MergePatch
  <2>1. inbox \in Patches /\ data # Nil
    BY <1>3 DEF MergePatch
  <2>2. data' # Nil
    BY <1>3, <2>1, PatchesAssumption DEF MergePatch, Nil, Data
  <2> QED
    BY <1>3, <2>2 DEF MergePatch
<1>4. CASE MergeError
  BY <1>4 DEF MergeError
<1>5. ASSUME NEW c \in Conns, NEW m \in Patches, ReadMessage(c, m)
      PROVE  Held'
  BY <1>5 DEF ReadMessage
<1>6. ASSUME NEW c \in Conns, Extend(c) \/ Send(c)
      PROVE  Held'
  BY <1>6 DEF Extend, Send
<1>7. ASSUME NEW c \in Conns, Dial(c) \/ Drop(c) \/ ReadError(c) \/ Leave(c)
      PROVE  Held'
  BY <1>7 DEF Dial, Drop, ReadError, Leave, Exit
<1>8. ASSUME NEW c \in Conns, Remove(c)
      PROVE  Held'
  BY <1>8 DEF Remove, RemoveParticipant, Exit
<1>9. ASSUME NEW c \in Conns, SayGoodbye(c)
      PROVE  Held'
  BY <1>9 DEF SayGoodbye, Exit
<1>10. ASSUME NEW c \in Conns, Handler(c)
       PROVE  Held'
  <2>1. CASE CheckUser(c) \/ AddAdmin(c) \/ AddParticipant(c) \/ RefuseParticipant(c)
    BY <2>1 DEF CheckUser, AddAdmin, AddParticipant, RefuseParticipant
  <2>2. CASE Announce(c) \/ Refresh(c)
    BY <2>2 DEF Announce, Refresh
  <2>3. CASE WriteFirstMsg(c)
    BY <2>3 DEF WriteFirstMsg
  <2> QED
    BY <1>10, <2>1, <2>2, <2>3 DEF Handler
<1>11. ASSUME NEW k \in Closers, Fire(k) \/ ConcurrentMapFault(k)
       PROVE  Held'
  BY <1>11 DEF Fire, ConcurrentMapFault
<1>12. ASSUME NEW k \in Closers, Closer(k)
       PROVE  Held'
  <2>1. CASE Fetch(k) \/ DropWatcher(k) \/ Save(k) \/ Lookup(k)
    BY <2>1 DEF Fetch, DropWatcher, Save, Lookup
  <2>2. CASE NextKey(k) \/ EndOfKeys(k) \/ DeleteSession(k)
    BY <2>2 DEF NextKey, EndOfKeys, DeleteSession
  <2>3. CASE Evict(k)
    BY <2>3 DEF Evict, RemoveParticipant
  <2>4. CASE Tell(k)
    BY <2>4 DEF Tell
  <2> QED
    BY <1>12, <2>1, <2>2, <2>3, <2>4 DEF Closer
<1>13. CASE UNCHANGED vars
  BY <1>13 DEF vars
<1> QED
  BY <1>1, <1>2, <1>3, <1>4, <1>5, <1>6, <1>7, <1>8, <1>9, <1>10, <1>11, <1>12, <1>13
     DEF Next, Run, Reader

-----------------------------------------------------------------------------
(* Every step keeps Expiry. Connections and run can only arm the timer of   *)
(* a table that has a watcher.                                              *)
LEMMA ExpiryUntouched ==
  ASSUME Expiry, UNCHANGED <<session, watcher, store, creator, spc, snap>>,
         timer' = timer \/ watcher
  PROVE  Expiry'
BY DEF Expiry, SingleCloser, NilNeverStored, Closing

LEMMA ConnSteps ==
  ASSUME NEW c \in Conns, Dial(c) \/ Handler(c) \/ Drop(c) \/ Reader(c)
  PROVE  /\ UNCHANGED <<session, watcher, store, creator, spc, snap>>
         /\ timer' = timer \/ watcher
<1> USE DEF expiryVars, closerVars
<1>1. CASE Dial(c) \/ Drop(c) \/ ReadError(c) \/ Extend(c) \/ Send(c) \/ Leave(c)
  BY <1>1 DEF Dial, Drop, ReadError, Extend, Send, Leave
<1>2. CASE Remove(c) \/ SayGoodbye(c)
  BY <1>2 DEF Remove, SayGoodbye
<1>3. CASE Handler(c)
  BY <1>3 DEF Handler, CheckUser, AddAdmin, AddParticipant, RefuseParticipant,
              Announce, Refresh, WriteFirstMsg
<1> QED
  BY <1>1, <1>2, <1>3 DEF Reader

LEMMA ExpiryStep ==
  ASSUME TypeOK, Held, Expiry, [Next]_vars
  PROVE  Expiry'
<1>1. ASSUME NEW u \in Users, CreateSession(u)
      PROVE  Expiry'
  BY <1>1 DEF CreateSession, Expiry, SingleCloser, NilNeverStored, Closing, closerVars
<1>2. CASE ArmTimer
  BY <1>2 DEF ArmTimer, Expiry, SingleCloser, NilNeverStored, Closing, closerVars
<1>3. CASE Run
  BY <1>3, ExpiryUntouched DEF Run, MergePatch, MergeError, expiryVars, closerVars
<1>4. ASSUME NEW c \in Conns, NEW m \in Patches, ReadMessage(c, m)
      PROVE  Expiry'
  BY <1>4, ExpiryUntouched DEF ReadMessage, expiryVars, closerVars
<1>5. ASSUME NEW c \in Conns, Dial(c) \/ Handler(c) \/ Drop(c) \/ Reader(c)
      PROVE  Expiry'
  BY <1>5, ConnSteps, ExpiryUntouched
<1>6. ASSUME NEW k \in Closers, ConcurrentMapFault(k)
      PROVE  Expiry'
  BY <1>6, ExpiryUntouched DEF ConcurrentMapFault, expiryVars, closerVars
<1>7. ASSUME NEW k \in Closers, Fire(k) \/ Closer(k)
      PROVE  Expiry'
  <2> USE DEF TypeOK, Expiry, SingleCloser, NilNeverStored, Closing, CloserAt, CloserGoto,
              expiryVars
  <2>1. CASE Fire(k)
    BY <2>1 DEF Fire
  <2>2. CASE Fetch(k)
    BY <2>2 DEF Fetch, Held, tableVars
  <2>3. CASE DropWatcher(k)
    BY <2>3 DEF DropWatcher
  <2>4. CASE Save(k)
    BY <2>4 DEF Save
  <2>5. CASE Lookup(k)
    BY <2>5 DEF Lookup
  <2>6. CASE NextKey(k) \/ EndOfKeys(k)
    BY <2>6 DEF NextKey, EndOfKeys
  <2>7. CASE Evict(k)
    BY <2>7 DEF Evict
  <2>8. CASE Tell(k)
    BY <2>8 DEF Tell
  <2>9. CASE DeleteSession(k)
    BY <2>9 DEF DeleteSession
  <2> QED
    BY <1>7, <2>1, <2>2, <2>3, <2>4, <2>5, <2>6, <2>7, <2>8, <2>9 DEF Closer
<1>8. CASE UNCHANGED vars
  BY <1>8, ExpiryUntouched DEF vars, expiryVars, closerVars
<1> QED
  BY <1>1, <1>2, <1>3, <1>4, <1>5, <1>6, <1>7, <1>8 DEF Next

-----------------------------------------------------------------------------
(* The inductive invariant, and what follows from it.                       *)
IInv == TypeOK /\ SeatsCounted /\ Held /\ Expiry

LEMMA InitIInv == Init => IInv
<1> SUFFICES ASSUME Init PROVE IInv
  OBVIOUS
<1>1. TypeOK
  <2>1. watcher \in BOOLEAN /\ crashed \in BOOLEAN
    BY DEF Init
  <2>2. data \in Data /\ store \in Data /\ snap \in [Closers -> Data]
    BY DEF Init, Data
  <2>3. playersNum \in 0..MaxPlayers
    BY MaxPlayersAssumption DEF Init
  <2>4. pc \in [Conns -> ConnPCs] /\ spc \in [Closers -> CloserPCs]
    BY DEF Init, ConnPCs, CloserPCs
  <2> QED
    BY <2>1, <2>2, <2>3, <2>4, UsersAssumption DEF Init, TypeOK
<1>2. SeatsCounted
  <2>1. Players = {}
    BY DEF Init, Players, Seated
  <2> QED
    BY <2>1, FS_EmptySet DEF SeatsCounted, Init
<1>3. Held
  BY DEF Init, Held, Nil
<1>4. Expiry
  BY DEF Init, Expiry, SingleCloser, NilNeverStored, Closing, Nil
<1> QED
  BY <1>1, <1>2, <1>3, <1>4 DEF IInv

LEMMA NextIInv == IInv /\ [Next]_vars => IInv'
BY CountStep, HeldStep, ExpiryStep DEF IInv, Expiry

THEOREM Inductive == Spec => []IInv
<1> QED
  BY InitIInv, NextIInv, PTL DEF Spec

(* The state stays within its types; in particular the seat counter stays   *)
(* between 0 and maxPlayersNum. (session.go: session)                       *)
THEOREM TypeCorrect == Spec => []TypeOK
<1>1. IInv => TypeOK
  BY DEF IInv
<1> QED
  BY <1>1, Inductive, PTL

(* The counter AddParticipant tests is never below the number of seated     *)
(* players. (participants.go: AddParticipant, RemoveParticipant)            *)
THEOREM CounterCoversSeats == Spec => []SeatsCounted
<1>1. IInv => SeatsCounted
  BY DEF IInv
<1> QED
  BY <1>1, Inductive, PTL

(* No interleaving of joins, removals, expiries and failed writes seats     *)
(* more than maxPlayersNum players. (participants.go: AddParticipant)       *)
THEOREM SeatLimitHolds == Spec => []SeatLimit
<1>1. IInv => SeatLimit
  BY PlayersFinite, MaxPlayersAssumption DEF IInv, TypeOK, SeatsCounted, SeatLimit
<1> QED
  BY <1>1, Inductive, PTL

(* The nil a failed merge leaves behind never reaches the database.         *)
(* (session.go: run; table.go: stopTimer)                                   *)
THEOREM NilStaysOutOfStore == Spec => []NilNeverStored
<1>1. IInv => NilNeverStored
  BY DEF IInv, Expiry
<1> QED
  BY <1>1, Inductive, PTL

(* However often the timer fires, one closer saves and removes the table.   *)
(* (table.go: stopTimer; table_manager.go: RemoveSession)                   *)
THEOREM OneCloser == Spec => []SingleCloser
<1>1. IInv => SingleCloser
  BY DEF IInv, Expiry
<1> QED
  BY <1>1, Inductive, PTL

-----------------------------------------------------------------------------
(* Who holds the connections in the map. A connection is alive and nobody's *)
(* until AddParticipant or AddAdmin seats it.                               *)
SeatInv ==
  /\ SeatedConnOpen
  /\ \A c \in Conns : pc[c] \in {"idle", "check", "add", "refused"}
                        => \A u \in Users : seat[u] # c
  /\ \A c \in Conns : pc[c] \in {"check", "add"} => conn[c] \in {"open", "gone"}

(* A seat belongs to one user, so closing the connections of F closes none  *)
(* of those that stay.                                                      *)
LEMMA UnseatKeeps ==
  ASSUME TypeOK, SeatInv, NEW F \in SUBSET Users, Unseat(F),
         \A c \in Conns : pc'[c] \in {"idle", "check", "add", "refused"} => pc'[c] = pc[c]
  PROVE  SeatInv'
<1>1. SeatedConnOpen'
  BY ConnsAssumption DEF SeatInv, SeatedConnOpen, Seated, Unseat, TypeOK
<1>2. ASSUME NEW c \in Conns, pc'[c] \in {"idle", "check", "add", "refused"}
      PROVE  \A u \in Users : seat'[u] # c /\ conn'[c] = conn[c]
  BY <1>2, ConnsAssumption DEF SeatInv, Unseat, TypeOK
<1>3. ASSUME NEW c \in Conns, pc'[c] \in {"check", "add"}
      PROVE  conn'[c] \in {"open", "gone"}
  BY <1>3, UsersAssumption, ConnsAssumption DEF SeatInv, Unseat, TypeOK
<1> QED
  BY <1>1, <1>2, <1>3 DEF SeatInv

LEMMA SeatInvStep ==
  ASSUME TypeOK, SeatInv, [Next]_vars
  PROVE  SeatInv'
<1> USE ConnsAssumption DEF TypeOK, Goto, CloserGoto, At, CloserAt, RunAt, tableVars,
        runVars, expiryVars, connVars, closerVars
<1>1. ASSUME UNCHANGED <<seat, conn>>,
             \A c \in Conns : pc'[c] \in {"idle", "check", "add", "refused"} =>
                               pc'[c] = pc[c] \/ (pc[c] = "check" /\ pc'[c] = "add")
      PROVE  SeatInv'
  BY <1>1 DEF SeatInv, SeatedConnOpen, Seated
<1>2. CASE ArmTimer \/ MergeError \/ \E u \in Users : CreateSession(u)
  BY <1>1, <1>2 DEF ArmTimer, MergeError, CreateSession
<1>3. CASE MergePatch
  <2>1. PICK F \in SUBSET Users : Unseat(F)
    BY <1>3, BroadcastFrees DEF MergePatch
  <2> QED
    BY <1>3, <2>1, UnseatKeeps DEF MergePatch
<1>4. ASSUME NEW c \in Conns, NEW m \in Patches, ReadMessage(c, m)
      PROVE  SeatInv'
  BY <1>1, <1>4 DEF ReadMessage
<1>5. ASSUME NEW c \in Conns, Dial(c) \/ Drop(c)
      PROVE  SeatInv'
  BY <1>5 DEF Dial, Drop, SeatInv, SeatedConnOpen, Seated
<1>6. ASSUME NEW c \in Conns, Handler(c)
      PROVE  SeatInv'
  <2>1. CASE CheckUser(c) \/ RefuseParticipant(c)
    BY <2>1 DEF CheckUser, RefuseParticipant, SeatInv, SeatedConnOpen, Seated
  <2>2. CASE AddAdmin(c) \/ AddParticipant(c)
    BY <2>2 DEF AddAdmin, AddParticipant, SeatInv, SeatedConnOpen, Seated
  <2>3. CASE Announce(c)
    <3>1. PICK F \in SUBSET Users : Unseat(F)
      BY <2>3, BroadcastFrees DEF Announce
    <3> QED
      BY <2>3, <3>1, UnseatKeeps DEF Announce
  <2>4. CASE Refresh(c)
    BY <1>1, <2>4 DEF Refresh
  <2>5. CASE WriteFirstMsg(c) /\ seat[UserOf[c]] = NoConn
    BY <1>1, <2>5 DEF WriteFirstMsg
  <2>6. CASE WriteFirstMsg(c) /\ seat[UserOf[c]] # NoConn
    <3>1. PICK F \in SUBSET Users : Unseat(F)
      BY <2>6 DEF WriteFirstMsg, FailedWrites
    <3> QED
      BY <2>6, <3>1, UnseatKeeps DEF WriteFirstMsg
  <2> QED
    BY <1>6, <2>1, <2>2, <2>3, <2>4, <2>5, <2>6 DEF Handler
<1>7. ASSUME NEW c \in Conns, Reader(c)
      PROVE  SeatInv'
  <2>1. CASE ReadError(c) \/ Extend(c) \/ Send(c) \/ Leave(c)
    BY <1>1, <2>1 DEF ReadError, Extend, Send, Leave, Exit
  <2>2. CASE Remove(c) /\ seat[UserOf[c]] = NoConn
    BY <1>1, <2>2 DEF Remove, RemoveParticipant, Exit
  <2>3. CASE Remove(c) /\ seat[UserOf[c]] # NoConn
    <3>1. Unseat({UserOf[c]}) /\ {UserOf[c]} \in SUBSET Users
      BY <2>3 DEF Remove, RemoveParticipant
    <3> QED
      BY <2>3, <3>1, UnseatKeeps DEF Remove
  <2>4. CASE SayGoodbye(c)
    <3>1. PICK F \in SUBSET Users : Unseat(F)
      BY <2>4, BroadcastFrees DEF SayGoodbye
    <3> QED
      BY <2>4, <3>1, UnseatKeeps DEF SayGoodbye, Exit
  <2> QED
    BY <1>7, <2>1, <2>2, <2>3, <2>4 DEF Reader
<1>8. ASSUME NEW k \in Closers, Fire(k) \/ Closer(k) \/ ConcurrentMapFault(k)
      PROVE  SeatInv'
  <2>1. CASE Fire(k) \/ Fetch(k) \/ DropWatcher(k) \/ Save(k) \/ ConcurrentMapFault(k)
    BY <1>1, <2>1 DEF Fire, Fetch, DropWatcher, Save, ConcurrentMapFault
  <2>2. CASE Lookup(k) \/ NextKey(k) \/ EndOfKeys(k) \/ DeleteSession(k)
    BY <1>1, <2>2 DEF Lookup, NextKey, EndOfKeys, DeleteSession
  <2>3. CASE Evict(k) /\ seat[target[k]] = NoConn
    BY <1>1, <2>3 DEF Evict, RemoveParticipant
  <2>4. CASE Evict(k) /\ seat[target[k]] # NoConn
    <3>1. Unseat({target[k]}) /\ {target[k]} \in SUBSET Users
      BY <2>4 DEF Evict, RemoveParticipant
    <3> QED
      BY <2>4, <3>1, UnseatKeeps DEF Evict
  <2>5. CASE Tell(k)
    <3>1. PICK F \in SUBSET Users : Unseat(F)
      BY <2>5, BroadcastFrees DEF Tell
    <3> QED
      BY <2>5, <3>1, UnseatKeeps DEF Tell
  <2> QED
    BY <1>8, <2>1, <2>2, <2>3, <2>4, <2>5 DEF Closer
<1>9. CASE UNCHANGED vars
  BY <1>1, <1>9 DEF vars
<1> QED
  BY <1>2, <1>3, <1>4, <1>5, <1>6, <1>7, <1>8, <1>9 DEF Next, Run

(* A connection in the participants map is its user's own and not closed by *)
(* the server. (participants.go and session.go: every Conn.Close)           *)
THEOREM SeatedConnsAreOpen == Spec => []SeatedConnOpen
<1>1. Init => SeatInv
  BY ConnsAssumption DEF Init, SeatInv, SeatedConnOpen, Seated
<1>2. TypeOK /\ SeatInv /\ [Next]_vars => SeatInv'
  BY SeatInvStep
<1>3. SeatInv => SeatedConnOpen
  BY DEF SeatInv
<1> QED
  BY <1>1, <1>2, <1>3, TypeCorrect, PTL DEF Spec
-----------------------------------------------------------------------------
(* Where the counter and the map part. What one step does to LostSeats.     *)
Accounted ==
  /\ LostSeats' >= LostSeats
  /\ LostSeats' > LostSeats =>
       \/ playersNum' = playersNum
          /\ \E u \in Players : conn[seat[u]] = "gone" /\ seat'[u] = NoConn
       \/ \E c \in Conns :
            pc[c] = "add" /\ pc'[c] = "announce" /\ UserOf[c] \in Players

LEMMA LostSeatsInt ==
  ASSUME TypeOK
  PROVE  LostSeats \in Int /\ playersNum \in Int /\ Cardinality(Players) \in Int
BY PlayersFinite, MaxPlayersAssumption DEF LostSeats, TypeOK

LEMMA NothingLost ==
  ASSUME TypeOK, Players' = Players, playersNum' = playersNum
  PROVE  Accounted
<1>1. LostSeats' = LostSeats
  BY DEF LostSeats
<1> QED
  BY <1>1, LostSeatsInt DEF Accounted

LEMMA SeatsUntouched ==
  ASSUME TypeOK, UNCHANGED <<seat, playersNum>>
  PROVE  Accounted
<1>1. Players' = Players
  BY DEF Players, Seated
<1> QED
  BY <1>1, NothingLost

(* A write fails on a seated connection only when its client is gone: the   *)
(* server has closed none of them.                                          *)
LEMMA WritesAccounted ==
  ASSUME TypeOK, SeatInv, NEW S \in SUBSET Seated, NEW F \in FailedWrites(S), Unseat(F),
         playersNum' = playersNum
  PROVE  Accounted
<1>1. F \in SUBSET Users /\ \A u \in F : u \in Seated /\ conn[seat[u]] = "gone" /\ seat'[u] = NoConn
  BY DEF FailedWrites, SeatInv, SeatedConnOpen, Seated, Unseat
<1>2. Players' = Players \ F
  BY <1>1 DEF Unseat, Players, Seated, TypeOK
<1>3. CASE F \cap Players = {}
  BY <1>2, <1>3, NothingLost
<1>4. CASE F \cap Players # {}
  <2>1. \E u \in Players : conn[seat[u]] = "gone" /\ seat'[u] = NoConn
    BY <1>1, <1>4
  <2>2. Cardinality(Players') <= Cardinality(Players) /\ Cardinality(Players') \in Int
    BY <1>2, PlayersFinite, FS_Subset, FS_CardinalityType
  <2>3. LostSeats' >= LostSeats
    BY <2>2, LostSeatsInt DEF LostSeats
  <2> QED
    BY <2>1, <2>3 DEF Accounted
<1> QED
  BY <1>3, <1>4

LEMMA BroadcastAccounted ==
  ASSUME TypeOK, SeatInv, Broadcast, playersNum' = playersNum
  PROVE  Accounted
BY WritesAccounted DEF Broadcast

(* A player who is let in costs a seat when the seat is the player's        *)
(* already.                                                                 *)
LEMMA JoinAccounted ==
  ASSUME TypeOK, NEW c \in Conns, AddParticipant(c)
  PROVE  Accounted
<1> DEFINE u == UserOf[c]
<1>1. /\ u \in Users /\ Role(u) = "player" /\ playersNum' = playersNum + 1
      /\ seat' = [seat EXCEPT ![u] = c] /\ pc[c] = "add" /\ pc'[c] = "announce"
  BY ConnsAssumption DEF AddParticipant, At, Goto, TypeOK
<1>2. Players' = Players \cup {u}
  BY <1>1, ConnsAssumption DEF Players, Seated, TypeOK
<1> HIDE DEF u
<1>3. Cardinality(Players') = IF u \in Players THEN Cardinality(Players) ELSE Cardinality(Players) + 1
  BY <1>2, PlayersFinite, FS_AddElement
<1>4. CASE u \in Players
  <2>1. LostSeats' = LostSeats + 1
    BY <1>1, <1>3, <1>4, LostSeatsInt DEF LostSeats
  <2> QED
    BY <1>1, <1>4, <2>1, LostSeatsInt DEF Accounted, u
<1>5. CASE u \notin Players
  <2>1. LostSeats' = LostSeats
    BY <1>1, <1>3, <1>5, LostSeatsInt DEF LostSeats
  <2> QED
    BY <2>1, LostSeatsInt DEF Accounted
<1> QED
  BY <1>4, <1>5

(* A player who is removed is uncounted: the departure costs no seat and    *)
(* gives none back.                                                         *)
LEMMA RemovalAccounted ==
  ASSUME TypeOK, NEW u \in Users, RemoveParticipant(u)
  PROVE  Accounted
<1>1. CASE seat[u] = NoConn
  BY <1>1, SeatsUntouched DEF RemoveParticipant
<1>2. CASE seat[u] # NoConn
  <2>1. Unseat({u}) /\ playersNum' = IF Role(u) = "player" THEN playersNum - 1 ELSE playersNum
    BY <1>2 DEF RemoveParticipant
  <2>2. CASE Role(u) = "player"
    <3>1. u \in Players /\ Players' = Players \ {u}
      BY <1>2, <2>1, <2>2 DEF Players, Seated, Unseat, TypeOK
    <3>2. Cardinality(Players') = Cardinality(Players) - 1
      BY <3>1, PlayersFinite, FS_RemoveElement
    <3>3. LostSeats' = LostSeats
      BY <2>1, <2>2, <3>2, LostSeatsInt DEF LostSeats
    <3> QED
      BY <3>3, LostSeatsInt DEF Accounted
  <2>3. CASE Role(u) # "player"
    <3>1. Players' = Players
      BY <2>1, <2>3 DEF Players, Seated, Unseat, TypeOK
    <3> QED
      BY <2>1, <2>3, <3>1, NothingLost
  <2> QED
    BY <2>2, <2>3
<1> QED
  BY <1>1, <1>2

LEMMA AccountedStep ==
  ASSUME TypeOK, SeatInv, [Next]_vars
  PROVE  Accounted
<1>1. CASE ArmTimer \/ MergeError \/ \E u \in Users : CreateSession(u)
  BY <1>1, OtherSteps, SeatsUntouched
<1>2. CASE MergePatch
  BY <1>2, BroadcastAccounted DEF MergePatch
<1>3. ASSUME NEW c \in Conns, NEW m \in Patches, ReadMessage(c, m) PROVE Accounted
  BY <1>3, OtherSteps, SeatsUntouched
<1>4. ASSUME NEW c \in Conns, Dial(c) \/ Drop(c) PROVE Accounted
  BY <1>4, OtherSteps, SeatsUntouched
<1>5. ASSUME NEW c \in Conns, AddAdmin(c) PROVE Accounted
  <2>1. Players' = Players
    BY <1>5 DEF AddAdmin, Role, Players, Seated, TypeOK
  <2> QED
    BY <1>5, <2>1, NothingLost DEF AddAdmin
<1>6. ASSUME NEW c \in Conns, WriteFirstMsg(c) PROVE Accounted
  <2>1. CASE seat[UserOf[c]] = NoConn
    BY <1>6, <2>1, SeatsUntouched DEF WriteFirstMsg
  <2>2. CASE seat[UserOf[c]] # NoConn
    <3>1. {UserOf[c]} \in SUBSET Seated
      BY <2>2, ConnsAssumption DEF Seated
    <3> QED
      BY <1>6, <2>2, <3>1, WritesAccounted DEF WriteFirstMsg
  <2> QED
    BY <2>1, <2>2
<1>7. ASSUME NEW c \in Conns, Announce(c) \/ SayGoodbye(c) PROVE Accounted
  BY <1>7, BroadcastAccounted DEF Announce, SayGoodbye
<1>8. ASSUME NEW c \in Conns, Handler(c) PROVE Accounted
  <2>1. CASE CheckUser(c) \/ RefuseParticipant(c) \/ Refresh(c)
    BY <2>1, OtherSteps, SeatsUntouched
  <2> QED
    BY <1>5, <1>6, <1>7, <1>8, <2>1, JoinAccounted DEF Handler
<1>9. ASSUME NEW c \in Conns, Reader(c) PROVE Accounted
  <2>1. CASE Remove(c)
    BY <2>1, RemovalAccounted, ConnsAssumption DEF Remove
  <2>2. CASE ReadError(c) \/ Extend(c) \/ Send(c) \/ Leave(c)
    BY <2>2, OtherSteps, SeatsUntouched
  <2> QED
    BY <1>7, <1>9, <2>1, <2>2 DEF Reader
<1>10. ASSUME NEW k \in Closers, Fire(k) \/ ConcurrentMapFault(k) PROVE Accounted
  BY <1>10, OtherSteps, SeatsUntouched
<1>11. ASSUME NEW k \in Closers, Closer(k) PROVE Accounted
  <2>1. CASE Evict(k)
    BY <2>1, RemovalAccounted DEF Evict, TypeOK
  <2>2. CASE Tell(k)
    BY <2>2, BroadcastAccounted DEF Tell
  <2>3. CASE \/ Fetch(k) \/ DropWatcher(k) \/ Save(k) \/ Lookup(k)
             \/ NextKey(k) \/ EndOfKeys(k) \/ DeleteSession(k)
    BY <2>3, OtherSteps, SeatsUntouched
  <2> QED
    BY <1>11, <2>1, <2>2, <2>3 DEF Closer
<1>12. CASE UNCHANGED vars
  BY <1>12, SeatsUntouched DEF vars, tableVars
<1> QED
  BY <1>1, <1>2, <1>3, <1>4, <1>8, <1>9, <1>10, <1>11, <1>12 DEF Next, Run

(* However joins, departures, reconnections and expiry interleave, the      *)
(* counter moves away from the map only by a player lost to a failed write  *)
(* or let in twice, and it never moves back.                                *)
(* (participants.go: AddParticipant, RemoveParticipant; every Broadcast)    *)
THEOREM LostSeatsAccounted == Spec => SeatsStayLost
<1>1. Init => SeatInv
  BY ConnsAssumption DEF Init, SeatInv, SeatedConnOpen, Seated
<1>2. TypeOK /\ SeatInv /\ [Next]_vars => SeatInv'
  BY SeatInvStep
<1>3. TypeOK /\ SeatInv /\ [Next]_vars =>
        [/\ LostSeats' >= LostSeats
         /\ LostSeats' > LostSeats =>
              \/ playersNum' = playersNum
                 /\ \E u \in Players : conn[seat[u]] = "gone" /\ seat'[u] = NoConn
              \/ \E c \in Conns :
                   pc[c] = "add" /\ pc'[c] = "announce" /\ UserOf[c] \in Players]_vars
  BY AccountedStep DEF Accounted
<1> QED
  BY <1>1, <1>2, <1>3, TypeCorrect, PTL DEF Spec, SeatsStayLost
=============================================================================
