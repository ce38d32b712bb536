------------------------- MODULE TableContractProofs -------------------------
(***************************************************************************)
(* TableSession implements TableContract, for any number of users,         *)
(* connections, messages and firings of the timer.                         *)
(*                                                                         *)
(* IInv of TableSessionProofs says what the mutex and the single closer    *)
(* guarantee. The contract also says where the data comes from, which      *)
(* takes two more invariants. Begun: nothing of the table runs before it   *)
(* is opened, so every later step finds a phase that is not "none".        *)
(* Traced: whatever a goroutine holds, on its way to the table or from it  *)
(* to the database, was sent by a client, and what is not nil was merged.  *)
(***************************************************************************)
EXTENDS TableSessionProofs

Begun ==
  /\ creator # "ready" => \A c \in Conns : pc[c] = "idle"
  /\ rpc # "off" => creator # "idle"
  /\ creator = "idle" => data = store

(* Edits that were merged, and that are still on the table unless it was   *)
(* spoilt.                                                                 *)
Merged(d) ==
  d # Nil => /\ d \subseteq sent \ Malformed
             /\ data # Nil => d \subseteq data

Traced ==
  /\ rpc = "merge" => inbox \in sent
  /\ \A c \in Conns : pc[c] \in {"extend", "send"} => msg[c] \in sent
  /\ Merged(data) /\ Merged(store)
  /\ \A k \in Closers : Merged(snap[k])

CInv == IInv /\ Begun /\ Traced

-----------------------------------------------------------------------------
(* Every step keeps Begun. Connections wait for a table that is ready, and *)
(* only Send and the end of a merge move run.                              *)
LEMMA ConnBegun ==
  ASSUME IInv, Begun, NEW c \in Conns, Dial(c) \/ Handler(c) \/ Drop(c) \/ Reader(c)
  PROVE  Begun'
<1> USE DEF IInv, TypeOK, Begun, At, Goto, expiryVars, runVars, tableVars
<1>1. CASE Dial(c) \/ Drop(c) \/ ReadError(c) \/ Extend(c) \/ Send(c) \/ Leave(c)
  BY <1>1 DEF Dial, Drop, ReadError, Extend, Send, Leave, Exit
<1>2. CASE Remove(c) \/ SayGoodbye(c)
  BY <1>2 DEF Remove, SayGoodbye, Exit
<1>3. CASE CheckUser(c) \/ AddAdmin(c) \/ AddParticipant(c) \/ RefuseParticipant(c)
  BY <1>3 DEF CheckUser, AddAdmin, AddParticipant, RefuseParticipant
<1>4. CASE Announce(c) \/ Refresh(c) \/ WriteFirstMsg(c)
  BY <1>4 DEF Announce, Refresh, WriteFirstMsg
<1> QED
  BY <1>1, <1>2, <1>3, <1>4 DEF Reader, Handler

LEMMA CloserBegun ==
  ASSUME IInv, Begun, NEW k \in Closers, Fire(k) \/ Closer(k) \/ ConcurrentMapFault(k)
  PROVE  Begun'
<1>1. creator = "ready"
  BY DEF IInv, TypeOK, Expiry, Fire, Closer, ConcurrentMapFault, CloserAt, Fetch,
         DropWatcher, Save, Lookup, NextKey, EndOfKeys, Evict, Tell, DeleteSession
<1>2. creator' = creator
  BY DEF Fire, Closer, ConcurrentMapFault, Fetch, DropWatcher, Save, Lookup, NextKey,
         EndOfKeys, Evict, Tell, DeleteSession, expiryVars
<1> QED
  BY <1>1, <1>2 DEF Begun

LEMMA BegunStep ==
  ASSUME IInv, Begun, [Next]_vars
  PROVE  Begun'
<1>1. CASE ArmTimer \/ \E u \in Users : CreateSession(u)
  BY <1>1 DEF ArmTimer, CreateSession, Begun, tableVars, runVars, connVars
<1>2. CASE Run
  BY <1>2 DEF Run, MergePatch, MergeError, RunAt, Begun, expiryVars, connVars
<1>3. ASSUME NEW c \in Conns, NEW m \in Patches, ReadMessage(c, m)
      PROVE  Begun'
  BY <1>3 DEF ReadMessage, IInv, TypeOK, Begun, At, Goto, expiryVars, runVars, tableVars
<1>4. CASE UNCHANGED vars
  BY <1>4 DEF vars, Begun, tableVars, runVars, expiryVars, connVars
<1> QED
  BY <1>1, <1>2, <1>3, <1>4, ConnBegun, CloserBegun DEF Next

-----------------------------------------------------------------------------
(* Every step keeps Traced. First those that hand nothing on.              *)
LEMMA TracedKept ==
  ASSUME Traced, UNCHANGED <<data, store, snap, sent, msg>>,
         rpc' = "merge" => rpc = "merge" /\ inbox' = inbox,
         \A c \in Conns : pc'[c] \in {"extend", "send"} => pc[c] \in {"extend", "send"}
  PROVE  Traced'
BY DEF Traced, Merged

LEMMA ConnTraced ==
  ASSUME IInv, Traced, NEW c \in Conns, Dial(c) \/ Handler(c) \/ Drop(c) \/ Reader(c)
  PROVE  Traced'
<1> USE DEF IInv, TypeOK, At, Goto, tableVars, runVars, expiryVars, closerVars
<1>1. CASE Send(c)
  <2>1. msg[c] \in sent
    BY <1>1 DEF Send, Traced
  <2>2. /\ rpc' = "merge" /\ inbox' = msg[c]
        /\ \A d \in Conns : pc'[d] \in {"extend", "send"} =>
                              pc[d] \in {"extend", "send"} /\ msg'[d] = msg[d]
        /\ UNCHANGED <<data, store, snap, sent>>
    BY <1>1 DEF Send
  <2> QED
    BY <2>1, <2>2 DEF Traced, Merged
<1>2. CASE Dial(c) \/ Drop(c) \/ ReadError(c) \/ Extend(c) \/ Leave(c)
  BY <1>2, TracedKept DEF Dial, Drop, ReadError, Extend, Leave, Exit
<1>3. CASE Remove(c) \/ SayGoodbye(c)
  BY <1>3, TracedKept DEF Remove, SayGoodbye, Exit
<1>4. CASE CheckUser(c) \/ AddAdmin(c) \/ AddParticipant(c) \/ RefuseParticipant(c)
  BY <1>4, TracedKept DEF CheckUser, AddAdmin, AddParticipant, RefuseParticipant
<1>5. CASE Announce(c) \/ Refresh(c) \/ WriteFirstMsg(c)
  BY <1>5, TracedKept DEF Announce, Refresh, WriteFirstMsg
<1> QED
  BY <1>1, <1>2, <1>3, <1>4, <1>5 DEF Reader, Handler

(* A closer copies the data to its snapshot and the snapshot to the row.   *)
LEMMA CloserTraced ==
  ASSUME IInv, Traced, NEW k \in Closers, Fire(k) \/ Closer(k) \/ ConcurrentMapFault(k)
  PROVE  Traced'
<1> USE DEF IInv, TypeOK, tableVars, runVars, expiryVars, connVars, closerVars
<1>1. CASE Fetch(k)
  <2>1. /\ UNCHANGED <<data, store, sent, msg, rpc, inbox, pc>>
        /\ \A l \in Closers : snap'[l] \in {snap[l], data, Nil}
    BY <1>1 DEF Fetch
  <2> QED
    BY <2>1 DEF Traced, Merged
<1>2. CASE Save(k)
  <2>1. /\ UNCHANGED <<data, sent, msg, rpc, inbox, pc>>
        /\ store' \in {store, snap[k]}
        /\ \A l \in Closers : snap'[l] \in {snap[l], {}}
    BY <1>2 DEF Save
  <2> QED
    BY <2>1 DEF Traced, Merged
<1>3. CASE Fire(k) \/ DropWatcher(k) \/ Lookup(k) \/ ConcurrentMapFault(k)
  BY <1>3, TracedKept DEF Fire, DropWatcher, Lookup, ConcurrentMapFault
<1>4. CASE NextKey(k) \/ EndOfKeys(k) \/ Evict(k) \/ Tell(k) \/ DeleteSession(k)
  BY <1>4, TracedKept DEF NextKey, EndOfKeys, Evict, Tell, DeleteSession
<1> QED
  BY <1>1, <1>2, <1>3, <1>4 DEF Closer

(* Opening copies the row to the table: Begun says they are the same.      *)
LEMMA TracedStep ==
  ASSUME CInv, [Next]_vars
  PROVE  Traced'
<1>0. IInv /\ Begun /\ Traced
  BY DEF CInv
<1> USE DEF tableVars, runVars, expiryVars, connVars, closerVars
<1>1. CASE ArmTimer \/ \E u \in Users : CreateSession(u)
  BY <1>0, <1>1, TracedKept DEF ArmTimer, CreateSession, Begun
<1>2. CASE MergePatch
  <2>1. inbox \in sent \ Malformed /\ data # Nil
    BY <1>0, <1>2 DEF MergePatch, RunAt, Traced, IInv, Held
  <2>2. /\ UNCHANGED <<store, snap, sent, msg, pc>> /\ rpc' = "wait"
        /\ data' = data \cup {inbox}
    BY <1>2 DEF MergePatch
  <2> QED
    BY <1>0, <2>1, <2>2 DEF Traced, Merged
<1>3. CASE MergeError
  BY <1>0, <1>3 DEF MergeError, Traced, Merged
<1>4. ASSUME NEW c \in Conns, NEW m \in Patches, ReadMessage(c, m)
      PROVE  Traced'
  <2>1. /\ UNCHANGED <<data, store, snap, rpc, inbox>>
        /\ sent \subseteq sent' /\ m \in sent'
        /\ \A d \in Conns : pc'[d] \in {"extend", "send"} =>
              msg'[d] = m \/ (pc[d] \in {"extend", "send"} /\ msg'[d] = msg[d])
    BY <1>0, <1>4 DEF ReadMessage, Goto, IInv, TypeOK
  <2> QED
    BY <1>0, <2>1 DEF Traced, Merged
<1>5. CASE UNCHANGED vars
  BY <1>0, <1>5, TracedKept DEF vars
<1> QED
  BY <1>0, <1>1, <1>2, <1>3, <1>4, <1>5, ConnTraced, CloserTraced DEF Next, Run

LEMMA InitCInv == Init => CInv
<1>1. ASSUME Init PROVE Begun /\ Traced
  BY <1>1 DEF Init, Begun, Traced, Merged
<1> QED
  BY <1>1, InitIInv DEF CInv

LEMMA NextCInv == CInv /\ [Next]_vars => CInv'
BY NextIInv, BegunStep, TracedStep DEF CInv

LEMMA ContractInvariant == Spec => []CInv
<1> QED
  BY InitCInv, NextCInv, PTL DEF Spec

-----------------------------------------------------------------------------
(* What the contract sees of a step. First the phase: it follows the       *)
(* closers that are past the watcher and have saved.                       *)
LEMMA PhaseKept ==
  ASSUME UNCHANGED <<creator, session>>, Saved' <=> Saved
  PROVE  Phase' = Phase
BY DEF Phase

LEMMA PhaseBegun ==
  ASSUME creator # "idle"
  PROVE  Phase # "none"
BY DEF Phase

(* Steps that the contract does not see.                                   *)
LEMMA Unseen ==
  ASSUME UNCHANGED <<seat, sent, data, store, creator, session>>, Saved' <=> Saved
  PROVE  UNCHANGED (Contract!contractVars)
<1>1. Seated' = Seated
  BY DEF Seated
<1> QED
  BY <1>1, PhaseKept DEF Contract!contractVars

(* A goroutine that holds s.mu finds a table that is not spoilt.           *)
LEMMA FreeIsPlayable ==
  ASSUME CInv, mu = "free", creator # "idle"
  PROVE  Contract!Playable
BY PhaseBegun DEF CInv, IInv, Held, Contract!Playable, Nil

(* Seats given up, all at once and nothing else.                           *)
LEMMA Departs ==
  ASSUME CInv, mu = "free", creator # "idle", NEW F \in SUBSET Users, Unseat(F),
         UNCHANGED <<sent, data, store, creator, session>>, Saved' <=> Saved
  PROVE  Contract!Depart
<1>1. Seated' \in SUBSET Seated
  BY DEF CInv, IInv, TypeOK, Seated, Unseat
<1> QED
  BY <1>1, FreeIsPlayable, PhaseKept DEF Contract!Depart

-----------------------------------------------------------------------------
(* Every step of the code is a step of the contract or none. Opening:      *)
LEMMA TableOpens ==
  ASSUME CInv, NEW u \in Users, CreateSession(u)
  PROVE  Contract!Open
<1>1. /\ creator = "idle" /\ creator' = "arm" /\ creator' # "idle"
      /\ session' = "present" /\ session' # "removed" /\ data' = store
  BY DEF CreateSession
<1>2. UNCHANGED <<seat, sent, store, spc>>
  BY DEF CreateSession, connVars, closerVars
<1>3. ~Saved' /\ Seated' = Seated
  BY <1>1, <1>2 DEF CInv, IInv, Expiry, Saved, Closing, Seated
<1>4. Phase = "none"
  BY <1>1 DEF Phase
<1>5. Phase' = "open"
  BY <1>1, <1>3 DEF Phase
<1> QED
  BY <1>1, <1>2, <1>3, <1>4, <1>5 DEF Contract!Open

(* The contract counts as the session does.                                *)
LEMMA SameCount == \A S : Contract!Cardinality(S) = Cardinality(S)
BY DEF Contract!Cardinality, Cardinality

(* A user sits down, or is seated anew at another connection.              *)
LEMMA UserSits ==
  ASSUME CInv, [Next]_vars, NEW c \in Conns, AddAdmin(c) \/ AddParticipant(c)
  PROVE  Contract!Sit(UserOf[c]) \/ UNCHANGED (Contract!contractVars)
<1> DEFINE u == UserOf[c]
<1>1. /\ u \in Users /\ pc[c] = "add" /\ mu = "free"
      /\ seat' = [seat EXCEPT ![u] = c]
      /\ UNCHANGED <<sent, data, store, creator, session, spc>>
  BY ConnsAssumption DEF AddAdmin, AddParticipant, At, expiryVars, closerVars
<1>2. Saved' <=> Saved
  BY <1>1 DEF Saved, Closing
<1>3. creator # "idle"
  BY <1>1 DEF CInv, Begun
<1>4. Seated' = Seated \cup {u}
  BY <1>1, ConnsAssumption DEF CInv, IInv, TypeOK, Seated
<1>5. Cardinality(Seated' \ {Admin}) <= MaxPlayers
  <2>1. CInv'
    BY NextCInv
  <2>2. Players' = Seated' \ {Admin} /\ Players' \in SUBSET Users
    BY DEF Players, Role, Seated
  <2>3. Cardinality(Players') \in Nat
    BY <2>2, UsersAssumption, FS_Subset, FS_CardinalityType
  <2>4. Cardinality(Players') <= playersNum' /\ playersNum' \in 0..MaxPlayers
    BY <2>1 DEF CInv, IInv, TypeOK, SeatsCounted
  <2> QED
    BY <2>2, <2>3, <2>4, MaxPlayersAssumption
<1>6. CASE u \in Seated
  BY <1>1, <1>2, <1>4, <1>6, PhaseKept DEF Contract!contractVars
<1>7. CASE u \notin Seated
  BY <1>1, <1>2, <1>3, <1>4, <1>5, <1>7, PhaseKept, FreeIsPlayable, SameCount
     DEF Contract!Sit
<1> QED
  BY <1>6, <1>7

LEMMA ConnRefines ==
  ASSUME CInv, [Next]_vars, NEW c \in Conns, Dial(c) \/ Handler(c) \/ Drop(c) \/ Reader(c)
  PROVE  [Contract!ContractNext]_(Contract!contractVars)
<1>1. ASSUME NEW F \in SUBSET Users, Unseat(F), mu = "free", pc[c] # "idle",
             UNCHANGED <<sent, data, store, creator, session, spc>>
      PROVE  Contract!Depart
  <2>1. creator # "idle"
    BY <1>1 DEF CInv, Begun
  <2>2. Saved' <=> Saved
    BY <1>1 DEF Saved, Closing
  <2> QED
    BY <1>1, <2>1, <2>2, Departs
<1>2. ASSUME UNCHANGED <<seat, sent, data, store, creator, session, spc>>
      PROVE  UNCHANGED (Contract!contractVars)
  <2>1. Saved' <=> Saved
    BY <1>2 DEF Saved, Closing
  <2> QED
    BY <1>2, <2>1, Unseen
<1> USE DEF At, tableVars, runVars, expiryVars, closerVars
<1>3. CASE \/ Dial(c) \/ Drop(c) \/ ReadError(c) \/ Extend(c) \/ Send(c) \/ Leave(c)
           \/ CheckUser(c) \/ RefuseParticipant(c) \/ Refresh(c)
  BY <1>2, <1>3 DEF Dial, Drop, ReadError, Extend, Send, Leave, CheckUser,
                    RefuseParticipant, Refresh
<1>4. CASE AddAdmin(c) \/ AddParticipant(c)
  BY <1>4, UserSits, ConnsAssumption DEF Contract!ContractNext
<1>5. CASE Announce(c) \/ SayGoodbye(c)
  <2>1. PICK F \in SUBSET Users : Unseat(F)
    BY <1>5, BroadcastFrees DEF Announce, SayGoodbye
  <2> QED
    BY <1>1, <1>5, <2>1 DEF Announce, SayGoodbye, Contract!ContractNext
<1>6. CASE (WriteFirstMsg(c) \/ Remove(c)) /\ seat[UserOf[c]] = NoConn
  BY <1>2, <1>6 DEF WriteFirstMsg, Remove, RemoveParticipant
<1>7. CASE WriteFirstMsg(c) /\ seat[UserOf[c]] # NoConn
  <2>1. PICK F \in SUBSET Users : Unseat(F)
    BY <1>7, ConnsAssumption DEF WriteFirstMsg, FailedWrites
  <2> QED
    BY <1>1, <1>7, <2>1 DEF WriteFirstMsg, Contract!ContractNext
<1>8. CASE Remove(c) /\ seat[UserOf[c]] # NoConn
  <2>1. Unseat({UserOf[c]}) /\ {UserOf[c]} \in SUBSET Users
    BY <1>8, ConnsAssumption DEF Remove, RemoveParticipant
  <2> QED
    BY <1>1, <1>8, <2>1 DEF Remove, Contract!ContractNext
<1> QED
  BY <1>3, <1>4, <1>5, <1>6, <1>7, <1>8 DEF Handler, Reader

(* Merging: a message that was sent is accepted, and a malformed one ends  *)
(* the table.                                                              *)
LEMMA RunRefines ==
  ASSUME CInv, Run
  PROVE  Contract!ContractNext
<1> USE DEF tableVars, runVars, expiryVars, connVars, closerVars
<1>1. /\ mu = "free" /\ inbox \in Patches /\ inbox \in sent /\ creator # "idle"
      /\ UNCHANGED <<sent, store, creator, session, spc>>
  BY DEF CInv, IInv, Held, Begun, Traced, Run, MergePatch, MergeError, RunAt
<1>2. Phase' = Phase
  <2>1. Saved' <=> Saved
    BY <1>1 DEF Saved, Closing
  <2> QED
    BY <1>1, <2>1, PhaseKept
<1>3. Contract!Playable
  BY <1>1, FreeIsPlayable
<1>4. CASE MergePatch
  <2>1. PICK F \in SUBSET Users : Unseat(F)
    BY <1>4, BroadcastFrees DEF MergePatch
  <2>2. Seated' \in SUBSET Seated
    BY <2>1 DEF CInv, IInv, TypeOK, Seated, Unseat
  <2>3. Contract!Accept(inbox)
    BY <1>1, <1>2, <1>3, <1>4, <2>2 DEF MergePatch, Contract!Accept
  <2> QED
    BY <1>1, <2>3 DEF Contract!ContractNext
<1>5. CASE MergeError
  <2>1. Seated' = Seated
    BY <1>5 DEF MergeError, Seated
  <2>2. Contract!Spoil
    BY <1>1, <1>2, <1>3, <1>5, <2>1 DEF MergeError, Contract!Spoil, Nil
  <2> QED
    BY <2>2 DEF Contract!ContractNext
<1> QED
  BY <1>4, <1>5 DEF Run

(* A closer that is past the watcher is alone, and the session is there    *)
(* until it deletes it: saving and closing come once and in this order.    *)
LEMMA SaveRefines ==
  ASSUME CInv, NEW k \in Closers, Save(k)
  PROVE  Contract!Save
<1> USE DEF CInv, IInv, TypeOK, CloserAt, CloserGoto, tableVars, runVars, connVars
<1>1. /\ spc[k] = "save" /\ spc' = [spc EXCEPT ![k] = "lookup"]
      /\ store' \in {store, snap[k]}
      /\ UNCHANGED <<seat, sent, data, creator, session>>
  BY DEF Save
<1>2. k \in Closing /\ creator # "idle" /\ session = "present" /\ ~Saved
  BY <1>1 DEF Expiry, SingleCloser, Closing, Saved
<1>3. Phase = "open" /\ Seated' = Seated
  BY <1>1, <1>2 DEF Phase, Seated
<1>4. Saved'
  <2>1. spc'[k] = "lookup"
    BY <1>1
  <2> QED
    BY <2>1 DEF Saved, Closing
<1>5. Phase' = "saved"
  BY <1>1, <1>2, <1>4 DEF Phase
<1>6. store # Nil /\ snap[k] # Nil
  BY <1>1 DEF Expiry, NilNeverStored
<1>7. store' \in SUBSET (IF data = Nil THEN sent \ Malformed ELSE data)
  BY <1>1, <1>6 DEF Traced, Merged
<1> QED
  BY <1>1, <1>3, <1>5, <1>7 DEF Contract!Save, Nil

LEMMA DeleteRefines ==
  ASSUME CInv, NEW k \in Closers, DeleteSession(k)
  PROVE  Contract!Close
<1> USE DEF CInv, IInv, TypeOK, CloserAt, CloserGoto, tableVars, runVars, connVars
<1>1. /\ spc[k] = "delete" /\ session' = "removed"
      /\ UNCHANGED <<seat, sent, data, store, creator>>
  BY DEF DeleteSession
<1>2. Saved /\ creator # "idle" /\ session = "present"
  BY <1>1 DEF Expiry, SingleCloser, Closing, Saved
<1>3. Phase = "saved" /\ Phase' = "closed" /\ Seated' = Seated
  BY <1>1, <1>2 DEF Phase, Seated
<1> QED
  BY <1>1, <1>3 DEF Contract!Close

LEMMA CloserRefines ==
  ASSUME CInv, NEW k \in Closers, Fire(k) \/ Closer(k) \/ ConcurrentMapFault(k)
  PROVE  [Contract!ContractNext]_(Contract!contractVars)
<1> USE DEF CInv, IInv, TypeOK, CloserAt, CloserGoto, tableVars, runVars, expiryVars,
            connVars, closerVars
<1>1. CASE Save(k) \/ DeleteSession(k)
  BY <1>1, SaveRefines, DeleteRefines DEF Contract!ContractNext
<1>2. CASE Fire(k) \/ Fetch(k) \/ ConcurrentMapFault(k)
  <2>1. UNCHANGED <<seat, sent, data, store, creator, session>>
    BY <1>2 DEF Fire, Fetch, ConcurrentMapFault
  <2>2. Saved' <=> Saved
    BY <1>2 DEF Fire, Fetch, ConcurrentMapFault, Saved, Closing
  <2> QED
    BY <2>1, <2>2, Unseen
<1>3. CASE DropWatcher(k)
  <2>1. UNCHANGED <<seat, sent, data, store, creator, session>>
    BY <1>3 DEF DropWatcher
  <2>2. Saved' <=> Saved
    BY <1>3 DEF DropWatcher, Saved, Closing
  <2> QED
    BY <2>1, <2>2, Unseen
<1>4. CASE Lookup(k)
  <2>1. UNCHANGED <<seat, sent, data, store, creator, session>>
    BY <1>4 DEF Lookup
  <2>2. session = "present"
    BY <1>4 DEF Lookup, Expiry, SingleCloser, Closing
  <2>3. Saved /\ Saved'
    BY <1>4, <2>2 DEF Lookup, Saved, Closing
  <2> QED
    BY <2>1, <2>3, Unseen
<1>5. CASE NextKey(k) \/ EndOfKeys(k)
  <2>1. UNCHANGED <<seat, sent, data, store, creator, session>>
    BY <1>5 DEF NextKey, EndOfKeys
  <2>2. Saved /\ Saved'
    BY <1>5 DEF NextKey, EndOfKeys, Saved, Closing
  <2> QED
    BY <2>1, <2>2, Unseen
<1>6. CASE Evict(k) \/ Tell(k)
  <2>1. /\ mu = "free" /\ creator # "idle"
        /\ UNCHANGED <<sent, data, store, creator, session>>
    BY <1>6 DEF Evict, Tell, Expiry
  <2>2. Saved
    BY <1>6 DEF Evict, Tell, Saved, Closing
  <2>3. spc'[k] \in {"iterate", "tell"}
    BY <1>6 DEF Evict, Tell
  <2>4. Saved'
    BY <2>3 DEF Saved, Closing
  <2>5. UNCHANGED seat \/ \E F \in SUBSET Users : Unseat(F)
    BY <1>6, BroadcastFrees DEF Evict, Tell, RemoveParticipant
  <2> QED
    BY <2>1, <2>2, <2>4, <2>5, Unseen, Departs DEF Contract!ContractNext
<1> QED
  BY <1>1, <1>2, <1>3, <1>4, <1>5, <1>6 DEF Closer

LEMMA StepRefines ==
  ASSUME CInv, [Next]_vars
  PROVE  [Contract!ContractNext]_(Contract!contractVars)
<1> USE DEF tableVars, runVars, expiryVars, connVars, closerVars
<1>1. CASE \E u \in Users : CreateSession(u)
  BY <1>1, TableOpens DEF Contract!ContractNext
<1>2. CASE ArmTimer
  <2>1. UNCHANGED <<seat, sent, data, store, session, spc>>
    BY <1>2 DEF ArmTimer
  <2>2. creator = "arm" /\ creator' = "ready"
    BY <1>2 DEF ArmTimer
  <2>3. Saved' <=> Saved
    BY <2>1 DEF Saved, Closing
  <2>4. Phase' = Phase /\ Seated' = Seated
    BY <2>1, <2>2, <2>3 DEF Phase, Seated
  <2> QED
    BY <2>1, <2>4 DEF Contract!contractVars
<1>3. ASSUME NEW c \in Conns, NEW m \in Patches, ReadMessage(c, m)
      PROVE  Contract!Play(m)
  <2>1. /\ creator # "idle" /\ m \notin sent /\ sent' = sent \cup {m}
        /\ UNCHANGED <<seat, data, store, creator, session, spc>>
    BY <1>3 DEF ReadMessage, At, CInv, Begun
  <2>2. Saved' <=> Saved
    BY <2>1 DEF Saved, Closing
  <2>3. Phase # "none" /\ Phase' = Phase /\ Seated' = Seated
    BY <2>1, <2>2, PhaseKept, PhaseBegun DEF Seated
  <2> QED
    BY <2>1, <2>3 DEF Contract!Play
<1>4. CASE UNCHANGED vars
  BY <1>4, Unseen DEF vars, Saved, Closing
<1> QED
  BY <1>1, <1>2, <1>3, <1>4, ConnRefines, RunRefines, CloserRefines
     DEF Next, Contract!ContractNext

(* The session, with its mutex, its goroutines and its timer, is a table   *)
(* as TableContract describes it: seats within the limit, an encounter     *)
(* that grows by well-formed messages or is spoilt and frozen, and one     *)
(* save of what was on it. (all of internal/pkg/table)                     *)
THEOREM SessionKeepsContract == Spec => KeepsContract
<1>1. Init => Contract!ContractInit
  BY DEF Init, Seated, Phase, Contract!ContractInit
<1>2. CInv /\ [Next]_vars => [Contract!ContractNext]_(Contract!contractVars)
  BY StepRefines
<1> QED
  BY <1>1, <1>2, ContractInvariant, PTL DEF Spec, KeepsContract, Contract!ContractSpec

-----------------------------------------------------------------------------
(* What it means for the database and for the players.                     *)

(* Every edit in the database was sent by a client, is well formed and, as *)
(* long as the table is not spoilt, is still on it. (session.go: run;      *)
(* table.go: stopTimer)                                                    *)
THEOREM StoredWasPlayed ==
  Spec => [](store \subseteq sent \ Malformed /\ (data # Nil => store \subseteq data))
<1>1. CInv => store \subseteq sent \ Malformed /\ (data # Nil => store \subseteq data)
  BY DEF CInv, IInv, Expiry, NilNeverStored, Traced, Merged
<1> QED
  BY <1>1, ContractInvariant, PTL

(* The phases come in order and the row is written between two of them, so *)
(* at most once, however often the timer fires. (table.go: stopTimer)      *)
THEOREM SavedAtMostOnce ==
  Spec => [][/\ store' # store => Phase = "open" /\ Phase' = "saved"
             /\ Phase = "saved" => Phase' \in {"saved", "closed"}
             /\ Phase = "closed" => Phase' = "closed"]_vars
<1>1. CInv /\ [Next]_vars =>
        [/\ store' # store => Phase = "open" /\ Phase' = "saved"
         /\ Phase = "saved" => Phase' \in {"saved", "closed"}
         /\ Phase = "closed" => Phase' = "closed"]_vars
  BY StepRefines
     DEF Contract!ContractNext, Contract!contractVars, Contract!Open, Contract!Depart,
         Contract!Spoil, Contract!Save, Contract!Close, Contract!Sit, Contract!Play,
         Contract!Accept
<1> QED
  BY <1>1, ContractInvariant, PTL DEF Spec

(* Whichever function left s.mu locked, nobody unlocks it and nobody gets  *)
(* past it: the seats and the encounter stay as they are. (participants.go: *)
(* AddParticipant, RemoveParticipant; session.go: run)                     *)
THEOREM LeaksAreFinal ==
  Spec => [][mu # "free" => UNCHANGED <<mu, seat, playersNum, data>>]_vars
<1>1. CInv /\ [Next]_vars => [mu # "free" => UNCHANGED <<mu, seat, playersNum, data>>]_vars
  <2> SUFFICES ASSUME CInv, [Next]_vars, mu # "free"
               PROVE  UNCHANGED <<mu, seat, playersNum, data>>
    OBVIOUS
  <2> USE DEF tableVars, closerVars, connVars
  <2>1. ASSUME NEW c \in Conns, Dial(c) \/ Handler(c) \/ Drop(c) \/ Reader(c)
        PROVE  UNCHANGED <<mu, seat, playersNum, data>>
    BY <2>1 DEF Handler, Reader, Dial, CheckUser, AddAdmin, AddParticipant, RefuseParticipant,
                Announce, Refresh, WriteFirstMsg, Drop, ReadError, Extend, Send, Leave,
                Remove, SayGoodbye
  <2>2. ASSUME NEW k \in Closers, Fire(k) \/ Closer(k) \/ ConcurrentMapFault(k)
        PROVE  UNCHANGED <<mu, seat, playersNum, data>>
    BY <2>2 DEF Closer, Fire, Fetch, DropWatcher, Save, Lookup, NextKey, EndOfKeys, Evict,
                Tell, DeleteSession, ConcurrentMapFault
  <2>3. ASSUME NEW u \in Users, CreateSession(u)
        PROVE  UNCHANGED <<mu, seat, playersNum, data>>
    BY <2>3 DEF CreateSession, CInv, Begun
  <2>4. CASE Run \/ ArmTimer \/ UNCHANGED vars
    BY <2>4 DEF Run, MergePatch, MergeError, ArmTimer, vars
  <2>5. ASSUME NEW c \in Conns, NEW m \in Patches, ReadMessage(c, m)
        PROVE  UNCHANGED <<mu, seat, playersNum, data>>
    BY <2>5 DEF ReadMessage
  <2> QED
    BY <2>1, <2>2, <2>3, <2>4, <2>5 DEF Next
<1> QED
  BY <1>1, ContractInvariant, PTL DEF Spec
=============================================================================
