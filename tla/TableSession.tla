---------------------------- MODULE TableSession ----------------------------
(***************************************************************************)
(* One WebSocket game session ("table") of internal/pkg/table: the session *)
(* object and its mutex, the entry of the table manager, the expiry timer  *)
(* of the usecase layer, and the goroutines that share them:               *)
(*                                                                         *)
(*   connection c   the HTTP handler (AddNewConnection) and, once it has   *)
(*                  returned, the reader goroutine it spawned (pc[c])      *)
(*   run            the session's merge-and-broadcast loop (rpc)           *)
(*   closer k       one goroutine per firing of the timer: stopTimer and   *)
(*                  the RemoveSession it calls (spc[k])                    *)
(*                                                                         *)
(* A critical section of s.mu is one step, so s.mu is only ever seen free  *)
(* or leaked: mu names the function that returned without unlocking it.    *)
(* Time is not modelled: an armed timer may fire at any moment.            *)
(***************************************************************************)
EXTENDS Naturals, FiniteSets

CONSTANTS
  Users,        \* user ids
  Admin,        \* the encounter's owner, who opens the table
  Conns,        \* WebSocket connections, each dialled at most once
  UserOf,       \* the logged-in user of each connection
  MaxPlayers,   \* maxPlayersNum
  Patches,      \* messages a client may send, each at most once
  Malformed,    \* those of them that merger.Merge rejects
  Closers,      \* bound: firings of the timer
  MayDrop,      \* connections whose client may go away
  NoConn,       \* no participant: the nil of the participants map
  NoMsg         \* no message

ASSUME UsersAssumption == IsFiniteSet(Users) /\ Admin \in Users
ASSUME ConnsAssumption == /\ UserOf \in [Conns -> Users]
                          /\ MayDrop \subseteq Conns
                          /\ NoConn \notin Conns
ASSUME PatchesAssumption == Malformed \subseteq Patches /\ NoMsg \notin Patches
ASSUME MaxPlayersAssumption == MaxPlayers \in Nat

VARIABLES
  \* the session object (repository/session.go)
  mu,           \* "free", or the function that left s.mu locked
  seat,         \* participants: the connection held for a user, or NoConn
  playersNum,
  data,         \* encounterData: the set of patches merged, or Nil
  rpc, inbox,   \* the run goroutine and the message it took from broadcast
  \* the manager's entry, the usecase's timer, the database row
  session, watcher, timer, store, creator,
  \* connections and their goroutines
  conn, pc, msg, doomed, sent,
  \* stopTimer goroutines
  spc, snap, target, due,
  crashed       \* an unrecovered panic has killed the process

tableVars  == <<mu, seat, playersNum, data>>
runVars    == <<rpc, inbox>>
expiryVars == <<session, watcher, timer, store, creator>>
connVars   == <<conn, pc, msg, doomed, sent>>
closerVars == <<spc, snap, target, due>>
vars == <<tableVars, runVars, expiryVars, connVars, closerVars, crashed>>

(* encounterData: the set of patches merged into it, or nil.               *)
Nil  == {NoMsg}
Data == (SUBSET Patches) \cup {Nil}

Role(u) == IF u = Admin THEN "admin" ELSE "player"

Seated  == {u \in Users : seat[u] # NoConn}
Players == {u \in Seated : Role(u) = "player"}

HandlerPCs == {"check", "add", "announce", "refresh", "first"}
ReaderPCs  == {"read", "extend", "send", "leave", "remove", "bye"}
ConnPCs    == {"idle", "refused", "done"} \cup HandlerPCs \cup ReaderPCs
CloserPCs  == {"idle", "fetch", "drop", "save", "lookup", "iterate", "evict",
               "tell", "delete", "done"}

TypeOK ==
  /\ mu \in {"free", "AddParticipant", "RemoveParticipant", "run"}
  /\ seat \in [Users -> Conns \cup {NoConn}]
  /\ playersNum \in 0..MaxPlayers
  /\ data \in Data
  /\ rpc \in {"off", "wait", "merge", "dead"}
  /\ inbox \in Patches \cup {NoMsg}
  /\ session \in {"absent", "present", "removed"}
  /\ watcher \in BOOLEAN
  /\ timer \in {"off", "armed"}
  /\ store \in Data
  /\ creator \in {"idle", "arm", "ready"}
  /\ conn \in [Conns -> {"none", "open", "gone", "closed"}]
  /\ pc \in [Conns -> ConnPCs]
  /\ msg \in [Conns -> Patches \cup {NoMsg}]
  /\ doomed \subseteq Conns
  /\ sent \subseteq Patches
  /\ spc \in [Closers -> CloserPCs]
  /\ snap \in [Closers -> Data]
  /\ target \in [Closers -> Users]
  /\ due \in [Closers -> SUBSET Users]
  /\ crashed \in BOOLEAN

Init ==
  /\ mu = "free"
  /\ seat = [u \in Users |-> NoConn]
  /\ playersNum = 0
  /\ data = {}
  /\ rpc = "off" /\ inbox = NoMsg
  /\ session = "absent" /\ watcher = FALSE /\ timer = "off"
  /\ store = {} /\ creator = "idle"
  /\ conn = [c \in Conns |-> "none"]
  /\ pc = [c \in Conns |-> "idle"]
  /\ msg = [c \in Conns |-> NoMsg]
  /\ doomed = {} /\ sent = {}
  /\ spc = [k \in Closers |-> "idle"]
  /\ snap = [k \in Closers |-> {}]
  /\ target = [k \in Closers |-> Admin]
  /\ due = [k \in Closers |-> {}]
  /\ crashed = FALSE

-----------------------------------------------------------------------------
(* Helpers: program counters, and the writes a critical section makes.     *)

At(c, l)       == ~crashed /\ pc[c] = l
CloserAt(k, l) == ~crashed /\ spc[k] = l
RunAt(l)       == ~crashed /\ rpc = l

Goto(c, l)       == pc' = [pc EXCEPT ![c] = l]
CloserGoto(k, l) == spc' = [spc EXCEPT ![k] = l]

(* A write fails on a connection closed by the server, and may fail on one *)
(* whose client is gone.                                                   *)
FailedWrites(S) ==
  {F \in SUBSET {u \in S : conn[seat[u]] # "open"} :
     \A u \in S : conn[seat[u]] = "closed" => u \in F}

(* conn.Close and delete(s.participants, id) for every user of F. An entry *)
(* deleted from the map is one that RemoveSession need not visit any more. *)
Unseat(F) ==
  /\ seat' = [u \in Users |-> IF u \in F THEN NoConn ELSE seat[u]]
  /\ conn' = [c \in Conns |-> IF \E u \in F : seat[u] = c THEN "closed" ELSE conn[c]]
  /\ due' = [k \in Closers |-> due[k] \ F]

(* Operators named *Bug are variants of the one they precede with one      *)
(* plausible mistake. No specification uses them: they are there to see    *)
(* each property fail.                                                     *)

(* The connection is closed and its entry left in the map.                 *)
BroadcastBug ==
  \E F \in FailedWrites(Seated) :
    /\ conn' = [c \in Conns |-> IF \E u \in F : seat[u] = c THEN "closed" ELSE conn[c]]
    /\ UNCHANGED <<seat, due>>

(* sendParticipantsInfo, and the loop of run: a participant whose write    *)
(* fails is closed and deleted, and playersNum is left as it was.          *)
Broadcast == \E F \in FailedWrites(Seated) : Unseat(F)

(* The counter goes down before the participant is known to be there.      *)
RemoveParticipantUncheckedBug(u) ==
  /\ playersNum' = IF Role(u) = "player" THEN playersNum - 1 ELSE playersNum
  /\ Unseat({u})
  /\ UNCHANGED mu

(* The counter goes down for the admin as well.                            *)
RemoveParticipantAdminBug(u) ==
  IF seat[u] = NoConn
  THEN /\ mu' = "RemoveParticipant"
       /\ UNCHANGED <<seat, conn, due, playersNum>>
  ELSE /\ playersNum' = playersNum - 1
       /\ Unseat({u})
       /\ UNCHANGED mu

(* The body of RemoveParticipant. A missing participant is a nil pointer   *)
(* dereference: the deferred recover() swallows it, s.mu stays locked.     *)
RemoveParticipant(u) ==
  IF seat[u] = NoConn
  THEN /\ mu' = "RemoveParticipant"
       /\ UNCHANGED <<seat, conn, due, playersNum>>
  ELSE /\ playersNum' = IF Role(u) = "player" THEN playersNum - 1 ELSE playersNum
       /\ Unseat({u})
       /\ UNCHANGED mu

-----------------------------------------------------------------------------
(* Opening the table: tableUsecases.CreateSession.                         *)

(* GetEncounterByID and the owner check, then tableManager.CreateSession:  *)
(* anyone but the owner is turned away before anything changes.            *)
CreateSession(u) ==
  /\ ~crashed /\ creator = "idle" /\ u = Admin
  /\ creator' = "arm"
  /\ session' = "present"
  /\ data' = store
  /\ rpc' = "wait"
  /\ UNCHANGED <<mu, seat, playersNum, inbox, watcher, timer, store, connVars,
                 closerVars, crashed>>

(* The timer is registered, and only then is the session id returned.      *)
ArmTimer ==
  /\ ~crashed /\ creator = "arm"
  /\ creator' = "ready"
  /\ watcher' = TRUE /\ timer' = "armed"
  /\ UNCHANGED <<tableVars, runVars, session, store, connVars, closerVars, crashed>>

-----------------------------------------------------------------------------
(* A connection: ServeWS and AddNewConnection.                             *)

(* The upgrade, and the lookup of the session in the manager's map.        *)
Dial(c) ==
  /\ At(c, "idle") /\ creator = "ready"
  /\ IF session = "present"
     THEN Goto(c, "check") /\ conn' = [conn EXCEPT ![c] = "open"]
     ELSE Goto(c, "refused") /\ conn' = [conn EXCEPT ![c] = "closed"]
  /\ UNCHANGED <<tableVars, runVars, expiryVars, msg, doomed, sent, closerVars, crashed>>

(* CheckUser: a user who holds a seat is refused.                          *)
CheckUser(c) ==
  /\ At(c, "check") /\ mu = "free"
  /\ IF seat[UserOf[c]] # NoConn
     THEN Goto(c, "refused") /\ conn' = [conn EXCEPT ![c] = "closed"]
     ELSE Goto(c, "add") /\ UNCHANGED conn
  /\ UNCHANGED <<tableVars, runVars, expiryVars, msg, doomed, sent, closerVars, crashed>>

(* AddAdmin returns without unlocking.                                     *)
AddAdminBug(c) ==
  /\ At(c, "add") /\ mu = "free" /\ Role(UserOf[c]) = "admin"
  /\ seat' = [seat EXCEPT ![UserOf[c]] = c]
  /\ mu' = "AddAdmin"
  /\ Goto(c, "announce")
  /\ UNCHANGED <<playersNum, data, runVars, expiryVars, conn, msg, doomed,
                 sent, closerVars, crashed>>

(* AddAdmin: the seat is taken, or taken over, whatever the counter says.  *)
AddAdmin(c) ==
  /\ At(c, "add") /\ mu = "free" /\ Role(UserOf[c]) = "admin"
  /\ seat' = [seat EXCEPT ![UserOf[c]] = c]
  /\ Goto(c, "announce")
  /\ UNCHANGED <<mu, playersNum, data, runVars, expiryVars, conn, msg, doomed,
                 sent, closerVars, crashed>>

(* The table is full when the counter has passed the limit.                *)
AddParticipantBug(c) ==
  /\ At(c, "add") /\ mu = "free" /\ Role(UserOf[c]) = "player"
  /\ playersNum <= MaxPlayers
  /\ playersNum' = playersNum + 1
  /\ seat' = [seat EXCEPT ![UserOf[c]] = c]
  /\ Goto(c, "announce")
  /\ UNCHANGED <<mu, data, runVars, expiryVars, conn, msg, doomed, sent,
                 closerVars, crashed>>

(* AddParticipant with a free seat.                                        *)
AddParticipant(c) ==
  /\ At(c, "add") /\ mu = "free" /\ Role(UserOf[c]) = "player"
  /\ playersNum # MaxPlayers
  /\ playersNum' = playersNum + 1
  /\ seat' = [seat EXCEPT ![UserOf[c]] = c]
  /\ Goto(c, "announce")
  /\ UNCHANGED <<mu, data, runVars, expiryVars, conn, msg, doomed, sent,
                 closerVars, crashed>>

(* AddParticipant at a full table: PlayersNumErr is returned between Lock  *)
(* and Unlock, and AddNewConnection closes the connection.                 *)
RefuseParticipant(c) ==
  /\ At(c, "add") /\ mu = "free" /\ Role(UserOf[c]) = "player"
  /\ playersNum = MaxPlayers
  /\ mu' = "AddParticipant"
  /\ Goto(c, "refused")
  /\ conn' = [conn EXCEPT ![c] = "closed"]
  /\ UNCHANGED <<seat, playersNum, data, runVars, expiryVars, msg, doomed, sent,
                 closerVars, crashed>>

(* sendParticipantsInfo, a critical section of its own after the seat.     *)
Announce(c) ==
  /\ At(c, "announce") /\ mu = "free"
  /\ Broadcast
  /\ Goto(c, "refresh")
  /\ UNCHANGED <<mu, playersNum, data, runVars, expiryVars, msg, doomed, sent,
                 spc, snap, target, crashed>>

(* refreshSession from the handler. Without a watcher the call on the nil  *)
(* timer panics: the middleware recovers it, the seat stays, no reader.    *)
Refresh(c) ==
  /\ At(c, "refresh")
  /\ IF watcher THEN timer' = "armed" /\ Goto(c, "first")
                ELSE UNCHANGED timer /\ Goto(c, "done")
  /\ UNCHANGED <<tableVars, runVars, session, watcher, store, creator, conn, msg,
                 doomed, sent, closerVars, crashed>>

(* WriteFirstMsg: to the connection the map now holds for the user; if it  *)
(* holds none the nil dereference is recovered above and no reader starts. *)
WriteFirstMsg(c) ==
  LET u == UserOf[c] IN
  /\ At(c, "first") /\ mu = "free"
  /\ IF seat[u] = NoConn
     THEN Goto(c, "done") /\ UNCHANGED <<seat, conn, due>>
     ELSE /\ \E F \in FailedWrites({u}) : Unseat(F)
          /\ Goto(c, "read")
  /\ UNCHANGED <<mu, playersNum, data, runVars, expiryVars, msg, doomed, sent,
                 spc, snap, target, crashed>>

Handler(c) ==
  \/ CheckUser(c) \/ AddAdmin(c) \/ AddParticipant(c) \/ RefuseParticipant(c)
  \/ Announce(c) \/ Refresh(c) \/ WriteFirstMsg(c)

-----------------------------------------------------------------------------
(* The reader goroutine.                                                   *)

(* The client goes away: reads fail from now on, writes may.               *)
Drop(c) ==
  /\ ~crashed /\ c \in MayDrop /\ conn[c] = "open"
  /\ conn' = [conn EXCEPT ![c] = "gone"]
  /\ UNCHANGED <<tableVars, runVars, expiryVars, pc, msg, doomed, sent,
                 closerVars, crashed>>

(* ReadMessage returns a message, perhaps one buffered before a drop.      *)
ReadMessage(c, m) ==
  /\ At(c, "read") /\ conn[c] \in {"open", "gone"} /\ m \notin sent
  /\ sent' = sent \cup {m}
  /\ msg' = [msg EXCEPT ![c] = m]
  /\ Goto(c, "extend")
  /\ UNCHANGED <<tableVars, runVars, expiryVars, conn, doomed, closerVars, crashed>>

ReadError(c) ==
  /\ At(c, "read") /\ conn[c] # "open"
  /\ Goto(c, "leave")
  /\ UNCHANGED <<tableVars, runVars, expiryVars, conn, msg, doomed, sent,
                 closerVars, crashed>>

(* refreshSession from the reader: the same panic as in Refresh, with no   *)
(* recover above it. The deferred clean-up still runs, then the process    *)
(* dies.                                                                   *)
Extend(c) ==
  /\ At(c, "extend")
  /\ IF watcher THEN timer' = "armed" /\ Goto(c, "send") /\ UNCHANGED doomed
                ELSE Goto(c, "leave") /\ doomed' = doomed \cup {c} /\ UNCHANGED timer
  /\ UNCHANGED <<tableVars, runVars, session, watcher, store, creator, conn, msg,
                 sent, closerVars, crashed>>

(* broadcast <- msg: the channel has no buffer, so run takes it or c waits. *)
Send(c) ==
  /\ At(c, "send") /\ rpc = "wait"
  /\ rpc' = "merge" /\ inbox' = msg[c]
  /\ msg' = [msg EXCEPT ![c] = NoMsg]
  /\ Goto(c, "read")
  /\ UNCHANGED <<tableVars, expiryVars, conn, doomed, sent, closerVars, crashed>>

Exit(c) == Goto(c, "done") /\ crashed' = (c \in doomed)

(* The deferred clean-up: CheckUser, then RemoveParticipant by user id,    *)
(* then the announcement of the departure.                                 *)
Leave(c) ==
  /\ At(c, "leave") /\ mu = "free"
  /\ IF seat[UserOf[c]] = NoConn THEN Exit(c)
                                 ELSE Goto(c, "remove") /\ UNCHANGED crashed
  /\ UNCHANGED <<tableVars, runVars, expiryVars, conn, msg, doomed, sent, closerVars>>

Remove(c) ==
  /\ At(c, "remove") /\ mu = "free"
  /\ RemoveParticipant(UserOf[c])
  /\ IF seat[UserOf[c]] = NoConn THEN Exit(c)
                                 ELSE Goto(c, "bye") /\ UNCHANGED crashed
  /\ UNCHANGED <<data, runVars, expiryVars, msg, doomed, sent, spc, snap, target>>

SayGoodbye(c) ==
  /\ At(c, "bye") /\ mu = "free"
  /\ Broadcast
  /\ Exit(c)
  /\ UNCHANGED <<mu, playersNum, data, runVars, expiryVars, msg, doomed, sent,
                 spc, snap, target>>

Reader(c) ==
  \/ ReadError(c) \/ Extend(c) \/ Send(c) \/ Leave(c) \/ Remove(c) \/ SayGoodbye(c)

-----------------------------------------------------------------------------
(* The session's run goroutine.                                            *)

(* A failed write ends the loop instead of the participant's seat alone.   *)
MergePatchBug ==
  /\ RunAt("merge") /\ mu = "free" /\ inbox \notin Malformed
  /\ data' = data \cup {inbox}
  /\ Broadcast
  /\ rpc' = (IF seat' = seat THEN "wait" ELSE "dead") /\ inbox' = NoMsg
  /\ UNCHANGED <<mu, playersNum, expiryVars, pc, msg, doomed, sent, spc, snap,
                 target, crashed>>

(* The new data is written to every participant under s.mu.                *)
MergePatch ==
  /\ RunAt("merge") /\ mu = "free" /\ inbox \notin Malformed
  /\ data' = data \cup {inbox}
  /\ Broadcast
  /\ rpc' = "wait" /\ inbox' = NoMsg
  /\ UNCHANGED <<mu, playersNum, expiryVars, pc, msg, doomed, sent, spc, snap,
                 target, crashed>>

(* The mutex is unlocked on the error path, and the loop goes on.          *)
MergeErrorBug ==
  /\ RunAt("merge") /\ mu = "free" /\ inbox \in Malformed
  /\ data' = Nil
  /\ rpc' = "wait" /\ inbox' = NoMsg
  /\ UNCHANGED <<mu, seat, playersNum, expiryVars, connVars, closerVars, crashed>>

(* Merge returned (nil, err), and its nil is already in s.encounterData    *)
(* when the goroutine returns, with s.mu locked.                           *)
MergeError ==
  /\ RunAt("merge") /\ mu = "free" /\ inbox \in Malformed
  /\ data' = Nil
  /\ mu' = "run"
  /\ rpc' = "dead" /\ inbox' = NoMsg
  /\ UNCHANGED <<seat, playersNum, expiryVars, connVars, closerVars, crashed>>

Run == MergePatch \/ MergeError

-----------------------------------------------------------------------------
(* Expiry: tableUsecases.stopTimer and tableManager.RemoveSession.         *)

(* The timer fires and starts a goroutine; Reset may arm it again while    *)
(* that goroutine still runs.                                              *)
Fire(k) ==
  /\ CloserAt(k, "idle") /\ timer = "armed"
  /\ timer' = "off"
  /\ CloserGoto(k, "fetch")
  /\ UNCHANGED <<tableVars, runVars, session, watcher, store, creator, connVars,
                 snap, target, due, crashed>>

(* GetEncounterData reads encounterData without s.mu.                      *)
FetchBug(k) ==
  /\ CloserAt(k, "fetch")
  /\ snap' = [snap EXCEPT ![k] = IF session = "present" THEN data ELSE Nil]
  /\ CloserGoto(k, "drop")
  /\ UNCHANGED <<tableVars, runVars, expiryVars, connVars, target, due, crashed>>

(* GetEncounterData: nil if the session is gone, else a read under s.mu.   *)
Fetch(k) ==
  /\ CloserAt(k, "fetch")
  /\ \/ session # "present" /\ snap' = [snap EXCEPT ![k] = Nil]
     \/ session = "present" /\ mu = "free" /\ snap' = [snap EXCEPT ![k] = data]
  /\ CloserGoto(k, "drop")
  /\ UNCHANGED <<tableVars, runVars, expiryVars, connVars, target, due, crashed>>

(* A watcher that is gone already is skipped over.                         *)
DropWatcherBug(k) ==
  /\ CloserAt(k, "drop")
  /\ watcher' = FALSE /\ timer' = "off"
  /\ CloserGoto(k, "save")
  /\ UNCHANGED <<tableVars, runVars, session, store, creator, connVars, snap,
                 target, due, crashed>>

(* Stop and delete the watcher. If another closer deleted it the call on   *)
(* the nil timer panics in a goroutine of its own: the process dies.       *)
DropWatcher(k) ==
  /\ CloserAt(k, "drop")
  /\ IF watcher THEN /\ watcher' = FALSE /\ timer' = "off"
                     /\ CloserGoto(k, "save") /\ UNCHANGED crashed
                ELSE /\ crashed' = TRUE
                     /\ UNCHANGED <<watcher, timer, spc>>
  /\ UNCHANGED <<tableVars, runVars, session, store, creator, connVars, snap,
                 target, due>>

(* stopTimer returns when UpdateEncounter fails.                           *)
SaveBug(k) ==
  /\ CloserAt(k, "save")
  /\ snap' = [snap EXCEPT ![k] = {}]
  /\ \/ store' = snap[k] /\ CloserGoto(k, "lookup")
     \/ UNCHANGED store /\ CloserGoto(k, "done")
  /\ UNCHANGED <<tableVars, runVars, session, watcher, timer, creator, connVars,
                 target, due, crashed>>

(* UpdateEncounter, whose error is ignored.                                *)
Save(k) ==
  /\ CloserAt(k, "save")
  /\ store' \in {store, snap[k]}
  /\ snap' = [snap EXCEPT ![k] = {}]
  /\ CloserGoto(k, "lookup")
  /\ UNCHANGED <<tableVars, runVars, session, watcher, timer, creator, connVars,
                 target, due, crashed>>

(* RemoveSession: look the session up and start ranging over participants. *)
Lookup(k) ==
  /\ CloserAt(k, "lookup")
  /\ IF session = "present"
     THEN CloserGoto(k, "iterate") /\ due' = [due EXCEPT ![k] = Seated]
     ELSE CloserGoto(k, "done") /\ UNCHANGED due
  /\ UNCHANGED <<tableVars, runVars, expiryVars, connVars, snap, target, crashed>>

(* The range statement, without s.mu: an entry there from the start is     *)
(* visited, one added since may be visited or not.                         *)
NextKey(k) ==
  /\ CloserAt(k, "iterate")
  /\ \E u \in Seated : /\ target' = [target EXCEPT ![k] = u]
                       /\ due' = [due EXCEPT ![k] = @ \ {u}]
  /\ CloserGoto(k, "evict")
  /\ UNCHANGED <<tableVars, runVars, expiryVars, connVars, snap, crashed>>

EndOfKeys(k) ==
  /\ CloserAt(k, "iterate") /\ due[k] = {}
  /\ CloserGoto(k, "delete")
  /\ UNCHANGED <<tableVars, runVars, expiryVars, connVars, snap, target, due, crashed>>

(* RemoveParticipant, recovered and skipped if the user has left meanwhile. *)
Evict(k) ==
  /\ CloserAt(k, "evict") /\ mu = "free"
  /\ RemoveParticipant(target[k])
  /\ CloserGoto(k, IF seat[target[k]] = NoConn THEN "iterate" ELSE "tell")
  /\ target' = [target EXCEPT ![k] = Admin]
  /\ UNCHANGED <<data, runVars, expiryVars, pc, msg, doomed, sent, snap, crashed>>

Tell(k) ==
  /\ CloserAt(k, "tell") /\ mu = "free"
  /\ Broadcast
  /\ CloserGoto(k, "iterate")
  /\ UNCHANGED <<mu, playersNum, data, runVars, expiryVars, pc, msg, doomed, sent,
                 snap, target, crashed>>

DeleteSession(k) ==
  /\ CloserAt(k, "delete")
  /\ session' = "removed"
  /\ CloserGoto(k, "done")
  /\ UNCHANGED <<tableVars, runVars, watcher, timer, store, creator, connVars, snap,
                 target, due, crashed>>

Closer(k) ==
  \/ Fetch(k) \/ DropWatcher(k) \/ Save(k) \/ Lookup(k) \/ NextKey(k)
  \/ EndOfKeys(k) \/ Evict(k) \/ Tell(k) \/ DeleteSession(k)

(* A goroutine that is about to write the participants map under s.mu.     *)
MapWriter ==
  /\ mu = "free"
  /\ \/ \E c \in Conns : pc[c] \in {"add", "remove"}
     \/ /\ \E u \in Seated : conn[seat[u]] # "open"
        /\ rpc = "merge" \/ \E c \in Conns : pc[c] \in {"announce", "first", "bye"}

(* The range of RemoveSession does not take s.mu: a write at the same time *)
(* is a data race that the runtime may detect and throw on, which nothing  *)
(* recovers.                                                               *)
ConcurrentMapFault(k) ==
  /\ CloserAt(k, "iterate") /\ MapWriter /\ Seated # {}
  /\ crashed' = TRUE
  /\ UNCHANGED <<tableVars, runVars, expiryVars, connVars, closerVars>>

-----------------------------------------------------------------------------
Next ==
  \/ ArmTimer
  \/ Run
  \/ \E u \in Users : CreateSession(u)
  \/ \E c \in Conns : Dial(c) \/ Handler(c) \/ Drop(c) \/ Reader(c)
  \/ \E c \in Conns, m \in Patches : ReadMessage(c, m)
  \/ \E k \in Closers : Fire(k) \/ Closer(k) \/ ConcurrentMapFault(k)

Spec == Init /\ [][Next]_vars

(* The Go scheduler runs every goroutine that can run. Nothing obliges a   *)
(* client to dial, to send or to go away, nor the timer to fire: each      *)
(* message received postpones it.                                          *)
Fairness ==
  /\ WF_vars(Run)
  /\ \A c \in Conns : WF_vars(Handler(c)) /\ WF_vars(Reader(c))
  /\ \A k \in Closers : WF_vars(Closer(k))

FairSpec == Spec /\ Fairness
-----------------------------------------------------------------------------
(* What the table promises.                                                *)

(* SeatsCounted: the counter AddParticipant tests is never below the number
   of players in the map. Racing joins of one user and failed writes make it
   too high, never too low. (participants.go: AddParticipant, RemoveParticipant) *)
SeatsCounted == Cardinality(Players) <= playersNum

(* SeatsStayLost: the counter exceeds the players in the map by the seats that
   were lost: to a write that failed on a player whose client was gone, or to a
   player who got past CheckUser twice. Nothing else costs a seat, and no
   departure, eviction or later join ever gives one back.
   (participants.go: AddParticipant, RemoveParticipant; every Broadcast) *)
LostSeats == playersNum - Cardinality(Players)

SeatsStayLost ==
  [][/\ LostSeats' >= LostSeats
     /\ LostSeats' > LostSeats =>
          \/ playersNum' = playersNum
             /\ \E u \in Players : conn[seat[u]] = "gone" /\ seat'[u] = NoConn
          \/ \E c \in Conns :
               pc[c] = "add" /\ pc'[c] = "announce" /\ UserOf[c] \in Players]_vars

(* SeatLimit: however joins, removals and failed writes interleave, no more
   than maxPlayersNum players hold a seat; the admin is not one of them.
   (participants.go: AddParticipant) *)
SeatLimit == Cardinality(Players) <= MaxPlayers

(* SeatedConnOpen: a connection in the participants map is one of that user's
   and has not been closed by the server: whoever closes it deletes it in the
   same critical section. (session.go and participants.go, every Conn.Close) *)
SeatedConnOpen ==
  \A u \in Seated : UserOf[seat[u]] = u /\ conn[seat[u]] \in {"open", "gone"}

(* NilNeverStored: a failed merge leaves nil in encounterData, and yet no
   closer ever writes nil over the encounter: it is the mutex left locked that
   keeps GetEncounterData from reading it. (session.go: run; table.go: stopTimer) *)
NilNeverStored ==
  /\ store # Nil
  /\ \A k \in Closers : spc[k] = "save" => snap[k] # Nil

(* SingleCloser: the timer may fire again while a closer runs, but only one
   closer gets past the watcher, and the table stays registered until that one
   deletes it. (table.go: stopTimer; table_manager.go: RemoveSession) *)
Closing == {k \in Closers : spc[k] \in {"save", "lookup", "iterate", "evict", "tell", "delete"}}
SingleCloser ==
  /\ \A k, l \in Closing : k = l
  /\ Closing # {} => ~watcher /\ session = "present"
  /\ watcher => session = "present"

(* The contract: phase follows the one closer that got past the watcher.   *)
Saved == \E k \in Closing : spc[k] # "save"

Phase ==
  IF creator = "idle" THEN "none"
  ELSE IF session = "removed" THEN "closed"
  ELSE IF Saved THEN "saved"
  ELSE "open"

Contract == INSTANCE TableContract
              WITH seated <- Seated, doc <- data, saved <- store, phase <- Phase

(* KeepsContract: the code implements TableContract: a table is saved once,
   with edits that were sent and were well formed, and frozen once spoilt.
   (all of internal/pkg/table) *)
KeepsContract == Contract!ContractSpec

(* Liveness, under FairSpec. Two ways out are the code's own: a process that
   died, and a mutex leaked by a second removal of the same participant.     *)
Lost == crashed \/ mu = "RemoveParticipant"

(* HandlerReturns: AddNewConnection never hangs: it refuses the connection,
   starts its reader or panics out. (table_manager.go: AddNewConnection) *)
HandlerReturns ==
  \A c \in Conns : pc[c] \in HandlerPCs ~> (pc[c] \notin HandlerPCs \/ Lost)

(* PatchMerged: a message a reader has handed to the unbuffered channel is
   merged, even while the session is being torn down: run outlives it.
   (table_manager.go: the reader; session.go: run) *)
PatchMerged ==
  \A c \in Conns, m \in Patches :
    (pc[c] = "send" /\ msg[c] = m) ~> (m \in data \/ Lost)

(* ExpiryFinishes: once the timer has fired, the session leaves the manager's
   map, whether or not the encounter could be saved, and whoever joins, plays
   or leaves meanwhile. (table.go: stopTimer; table_manager.go: RemoveSession) *)
ExpiryFinishes ==
  \A k \in Closers : spc[k] = "fetch" ~> (session = "removed" \/ Lost)

-----------------------------------------------------------------------------
(* What the code does not do, although its documents say so.               *)

(* ConnectAnswered: a connection request ends in an error or in the session
   data, as docs/WSConnect.jpg draws it. It does not once a player has been
   turned away from a full table: everyone after waits for s.mu for ever.
   (participants.go: AddParticipant) *)
ConnectAnswered ==
  \A c \in Conns : pc[c] = "check" ~> (pc[c] \in {"refused", "done", "read"} \/ crashed)

(* RemovalRecovered: a panic in RemoveParticipant that recover() has swallowed
   leaves the table usable, as its log line "recovered from panic after
   deleting participant" reads. (participants.go: RemoveParticipant) *)
RemovalRecovered == mu # "RemoveParticipant"

(* OneReaderPerUser: a user who is already at the table is refused with "user
   already exists". Two requests that both pass CheckUser are both let in.
   (table_manager.go: AddNewConnection) *)
OneReaderPerUser ==
  \A c, d \in Conns :
    c # d /\ UserOf[c] = UserOf[d] => ~(pc[c] = "read" /\ pc[d] = "read"
                                        /\ conn[c] = "open" /\ conn[d] = "open")

(* RefusedWhenFull: the players' limit turns a player away only when that many
   players are at the table. Seats lost to failed writes stay counted.
   (participants.go: sendParticipantsInfo) *)
RefusedWhenFull ==
  [][mu' = "AddParticipant" /\ mu = "free" => Cardinality(Players) = MaxPlayers]_vars

=============================================================================
