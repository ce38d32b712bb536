-------------------------------- MODULE Lists --------------------------------
(***************************************************************************)
(* The lists of documents: a client asks for one page after another, by    *)
(* start and size, while documents are added, written and removed by the   *)
(* handlers of Encounters, Maps and Creatures. Requests for lists write    *)
(* nothing and keep nothing between pages, so one client, its scroll, and  *)
(* one list are enough; which list it is, and the query, are chosen once.  *)
(*                                                                         *)
(* The databases are external: a query sees the documents of one instant,  *)
(* in the order it asks for, and in the order they are stored where it     *)
(* asks for none or leaves ties. Of a text only what a search makes of it  *)
(* is kept: the alphabets of the searched text, and the names of a         *)
(* document that it occurs in.                                             *)
(***************************************************************************)
EXTENDS Integers, FiniteSets

CONSTANTS
  Docs,          \* [id, owner, names, book, traits, speed, rank]
  Queries,       \* [user, start, size, search, books, in, moving, sort]
  Public,        \* the user id "*"
  DefaultBooks,  \* defaultBooks
  MoveNames,     \* the mapping of createMovingFilter, as a function
  DefaultSize, MaxSize

ASSUME ListsAssumption ==
  /\ IsFiniteSet(Docs)
  /\ DefaultSize \in Nat /\ MaxSize \in Nat /\ 0 < DefaultSize /\ DefaultSize <= MaxSize
  /\ \A d \in Docs : d.rank \in Int
  /\ \A q \in Queries : q.start \in Int /\ q.size \in Int

VARIABLES
  kind,      \* which list it is
  rows,      \* the documents in it
  gone,      \* those removed
  order,     \* <<d, e>>: d is stored before e; of maps, d was updated later
  query,     \* what the client asks for
  pc,        \* what its request does next, or how it was answered
  at,        \* the start of its next page
  page,      \* the documents of its last page
  total,     \* the number sent with a page of maps
  owed,      \* what the list held for it when it began
  shown,     \* what it was shown, on all pages
  again,     \* what it was shown on more than one
  events,    \* what became of documents of its query meanwhile
  touched,   \* those written or removed
  steady     \* none was added or removed since the count for this page

listVars   == <<rows, gone, order>>
scrollVars == <<pc, at, page, total, owed, shown, again>>
vars == <<kind, query, listVars, scrollVars, events, touched, steady>>

CreatureLists == {"creatures", "user creatures"}
Kinds == {"encounters", "maps", "characters", "tiles"} \cup CreatureLists

-----------------------------------------------------------------------------
(* The filters of a query.                                                 *)

Latin == {"latin", "two latin words"}

(* Neither alphabet counts as Russian; both, which it refuses, as None.    *)
detectLanguageField(s) ==
  CASE s = "both alphabets" -> "none" [] s \in Latin -> "name.eng" [] OTHER -> "name.rus"

excludeBooks(requested) == DefaultBooks \ requested

filterBook(requested, book) ==
  IF requested = {} THEN book \in DefaultBooks ELSE book \notin excludeBooks(requested)

filterIn(values, has) == values = {} \/ has \cap values # {}

(* Moves that the mapping does not know are left out, and with none left   *)
(* there is no filter.                                                     *)
filterMoving(moving, speed) ==
  filterIn({MoveNames[m] : m \in moving \cap DOMAIN MoveNames}, speed)

(* One filterIn for each of twelve fields: the ones that q.in lists.       *)
buildTypesFilters(q, d) ==
  /\ filterBook(q.books, d.book)
  /\ \A f \in DOMAIN q.in : filterIn(q.in[f], d.traits[f])
  /\ filterMoving(q.moving, d.speed)

(* What each list selects. A search in encounters or characters looks at   *)
(* their one name.                                                         *)
GetEncountersList(q, d) == d.owner = q.user

GetEncountersListWithSearch(q, d) == d.owner = q.user /\ d.names # {}

ListMaps(q, d) == d.owner = q.user

GetCategories(q, d) == d.owner \in {Public, q.user}

GetCharactersList(q, d) == d.owner \in {Public, q.user} /\ (q.search # "" => d.names # {})

GetCreaturesList(q, d) ==
  /\ buildTypesFilters(q, d)
  /\ q.search # "" => detectLanguageField(q.search) \in d.names

GetUserCreaturesList(q, d) == GetCreaturesList(q, d) /\ d.owner = q.user

Matches(q, d) ==
  CASE kind = "encounters" ->
         IF q.search = "" THEN GetEncountersList(q, d) ELSE GetEncountersListWithSearch(q, d)
    [] kind = "maps"       -> ListMaps(q, d)
    [] kind = "tiles"      -> GetCategories(q, d)
    [] kind = "characters" -> GetCharactersList(q, d)
    [] kind = "creatures"  -> GetCreaturesList(q, d)
    [] OTHER               -> GetUserCreaturesList(q, d)

Selected == {d \in rows : Matches(query, d)}

-----------------------------------------------------------------------------
(* Start, size and order.                                                  *)

Smaller(a, b) == IF a < b THEN a ELSE b

(* The handler of maps replaces what is not a position, or not a size; the *)
(* tiles are all sent at once.                                             *)
Start ==
  CASE kind = "maps" -> IF query.start >= 0 THEN query.start ELSE 0
    [] kind = "tiles" -> 0
    [] OTHER -> query.start

(* The size is taken as it comes.                                          *)
SizeBug ==
  CASE kind = "maps" -> IF query.size > 0 THEN query.size ELSE DefaultSize
    [] kind = "tiles" -> Cardinality(Docs) + 1
    [] OTHER -> query.size

Size ==
  CASE kind = "maps" -> IF query.size > 0 THEN Smaller(query.size, MaxSize) ELSE DefaultSize
    [] kind = "tiles" -> Cardinality(Docs) + 1
    [] OTHER -> query.size

Accepted == Start >= 0 /\ Size > 0

Sort == IF kind \in CreatureLists THEN query.sort ELSE "none"

(* buildFindOptions; maps are ordered by updated_at DESC.                  *)
Before(e, d) ==
  CASE Sort = "asc"  -> e.rank < d.rank
    [] Sort = "desc" -> d.rank < e.rank
    [] OTHER         -> <<e, d>> \in order

Prior(d) == {e \in Selected : Before(e, d)}

(* S may be the first n of the selected documents: of tied ones any.       *)
Firsts(S, n) ==
  /\ S \subseteq Selected
  /\ Cardinality(S) = Smaller(n, Cardinality(Selected))
  /\ \A e \in S, d \in Selected \ S : ~Before(d, e)

(* No two documents of the query are tied.                                 *)
Ranked ==
  Sort \in {"asc", "desc"} =>
    \A d, e \in Docs : Matches(query, d) /\ Matches(query, e) /\ d.rank = e.rank => d = e

-----------------------------------------------------------------------------

(* Total orders, each as the set of its pairs.                             *)
Orders == {o \in SUBSET (Docs \X Docs) :
  /\ \A d, e \in Docs : d # e => (<<d, e>> \in o <=> <<e, d>> \notin o)
  /\ \A d \in Docs : <<d, d>> \notin o
  /\ \A c, d, e \in Docs : <<c, d>> \in o /\ <<d, e>> \in o => <<c, e>> \in o}

Underway == {"count", "page", "failed"}

TypeOK ==
  /\ kind \in Kinds /\ query \in Queries
  /\ rows \subseteq Docs /\ gone \subseteq Docs \ rows /\ order \in Orders
  /\ pc \in {"idle", "refused", "nothing", "end"} \cup Underway
  /\ at \in Nat /\ total \in Nat
  /\ page \subseteq shown /\ again \subseteq shown /\ shown \subseteq Docs
  /\ owed \subseteq Docs /\ touched \subseteq Docs
  /\ events \subseteq {"added", "written", "removed", "cut"}
  /\ steady \in BOOLEAN
  /\ pc \in Underway => Accepted /\ (kind = "maps" => Size <= MaxSize)
  /\ pc = "count" => kind = "maps"

Init ==
  /\ order \in Orders
  /\ kind \in Kinds /\ query \in Queries
  /\ rows \in SUBSET Docs /\ gone = {}
  /\ pc = "idle" /\ at = 0 /\ total = 0
  /\ page = {} /\ owed = {} /\ shown = {} /\ again = {}
  /\ events = {} /\ touched = {} /\ steady = FALSE

-----------------------------------------------------------------------------
(* The client, and the handlers it reaches.                                *)

(* ListMaps counts before it reads a page.                                 *)
Begin == IF kind = "maps" THEN "count" ELSE "page"

Quiet == UNCHANGED <<kind, query, listVars, events, touched>>

(* Both alphabets are answered with no list at all, before the direction   *)
(* of the order is looked at.                                              *)
Nothing == kind \in CreatureLists /\ detectLanguageField(query.search) = "none"

BadDirection == Sort \notin {"none", "asc", "desc"}

Refuse ==
  /\ pc = "idle"
  /\ \/ ~Accepted /\ pc' = "refused"
     \/ Accepted /\ Nothing /\ pc' = "nothing"
     \/ Accepted /\ ~Nothing /\ BadDirection /\ pc' = "refused"
  /\ UNCHANGED <<at, page, total, owed, shown, again, steady>> /\ Quiet

Ask ==
  /\ pc = "idle" /\ Accepted /\ ~Nothing /\ ~BadDirection
  /\ pc' = Begin /\ at' = Start
  /\ owed' = {d \in Selected : Cardinality(Prior(d)) >= Start}
  /\ UNCHANGED <<page, total, shown, again, steady>> /\ Quiet

(* The maps of every user are counted.                                     *)
CountBug ==
  /\ pc = "count"
  /\ total' = Cardinality(rows)
  /\ steady' = TRUE /\ pc' = "page"
  /\ UNCHANGED <<at, page, owed, shown, again>> /\ Quiet

(* CountMapsQuery.                                                         *)
Count ==
  /\ pc = "count"
  /\ total' = Cardinality({d \in rows : d.owner = query.user})
  /\ steady' = TRUE /\ pc' = "page"
  /\ UNCHANGED <<at, page, owed, shown, again>> /\ Quiet

(* to_tsquery takes no two words with nothing between them, and says so    *)
(* when the rows are asked for, not when the query is sent.                *)
Searchable == ~(kind = "encounters" /\ query.search = "two latin words")

Show(p) ==
  /\ page' = p /\ shown' = shown \cup p /\ again' = again \cup (shown \cap p)
  /\ at' = at + Size
  /\ pc' = IF Cardinality(p) < Size THEN "end" ELSE Begin
  /\ UNCHANGED <<kind, query, listVars, total, owed, touched, steady>>

(* One row more is read, to see whether there is one, and is sent too.     *)
ReadBug(n) ==
  \E S \in SUBSET Selected :
    /\ Firsts(S, at)
    /\ \E T \in SUBSET Selected : S \subseteq T /\ Firsts(T, at + n + 1) /\ Show(T \ S)

(* Skip at, and limit n: OFFSET and LIMIT.                                 *)
Read(n) ==
  \E S \in SUBSET Selected :
    /\ Firsts(S, at)
    /\ \E T \in SUBSET Selected : S \subseteq T /\ Firsts(T, at + n) /\ Show(T \ S)

ShowPage ==
  /\ pc = "page" /\ Searchable
  /\ Read(Size)
  /\ UNCHANGED events

(* The rows stop coming after n of them: Next is false, nobody asks for    *)
(* the error, and the client is sent what there is.                        *)
CutPage ==
  /\ pc = "page"
  /\ \E n \in 0 .. Size - 1 : (Searchable \/ n = 0) /\ Read(n)
  /\ events' = events \cup {"cut"}

(* A query, or the decoding of a row, fails: 500.                          *)
Fail ==
  /\ pc \in {"count", "page"}
  /\ pc' = "failed" /\ steady' = FALSE
  /\ UNCHANGED <<at, page, total, owed, shown, again>> /\ Quiet

(* The client asks again for the page it did not get.                      *)
Retry ==
  /\ pc = "failed"
  /\ pc' = Begin
  /\ UNCHANGED <<at, page, total, owed, shown, again, steady>> /\ Quiet

-----------------------------------------------------------------------------
(* Others write. What is not of the query does not matter to it; nor does  *)
(* what was written before it, for the list it finds is any, or after it.  *)

Note(d, e) ==
  /\ pc \in Underway
  /\ events' = IF Matches(query, d) THEN events \cup {e} ELSE events
  /\ touched' = IF e # "added" THEN touched \cup {d} ELSE touched
  /\ UNCHANGED <<kind, query, scrollVars>>

Moved(d, S) ==
  {x \in order : x[1] # d /\ x[2] # d} \cup (S \X {d}) \cup ({d} \X (Docs \ (S \cup {d})))

(* ORDER BY updated_at: what is updated goes to the end.                   *)
LandingBug(d) ==
  CASE kind = "encounters" ->
         {S \in SUBSET (Docs \ {d}) : \A e \in S, c \in Docs \ {d} : <<c, e>> \in order => c \in S}
    [] OTHER -> {Docs \ {d}}

(* What d comes after when it is inserted or updated: a row of encounters  *)
(* where there is room, a map before all others, for its updated_at is     *)
(* now; Mongo's collections grow at the end.                               *)
Landing(d) ==
  CASE kind = "encounters" ->
         {S \in SUBSET (Docs \ {d}) : \A e \in S, c \in Docs \ {d} : <<c, e>> \in order => c \in S}
    [] kind = "maps" -> {{}}
    [] OTHER -> {Docs \ {d}}

Add(d) ==
  /\ kind \notin {"creatures", "tiles"}
  /\ d \notin rows \cup gone
  /\ rows' = rows \cup {d}
  /\ \E S \in Landing(d) : order' = Moved(d, S)
  /\ Note(d, "added")
  /\ steady' = FALSE /\ UNCHANGED gone

(* An update writes a new version of the row.                              *)
Touch(d) ==
  /\ kind \in {"encounters", "maps"}
  /\ d \in rows
  /\ \E S \in Landing(d) : order' = Moved(d, S)
  /\ Note(d, "written")
  /\ UNCHANGED <<rows, gone, steady>>

(* Soft or hard, the query no longer sees it.                              *)
Remove(d) ==
  /\ kind \in {"encounters", "maps"}
  /\ d \in rows
  /\ rows' = rows \ {d} /\ gone' = gone \cup {d}
  /\ Note(d, "removed")
  /\ steady' = FALSE /\ UNCHANGED order

Next ==
  \/ Refuse \/ Ask \/ Count \/ ShowPage \/ CutPage \/ Fail \/ Retry
  \/ \E d \in Docs : Add(d) \/ Touch(d) \/ Remove(d)

Spec == Init /\ [][Next]_vars

-----------------------------------------------------------------------------
(* Properties.                                                             *)

(* Whoever asks for page after page until one is short has been shown      *)
(* everything the list held for it, but what was itself written meanwhile, *)
(* unless something was removed or a page was cut. Offsets forgive what is *)
(* added, since it lands before or after everything, and the update of a   *)
(* map, which comes before all pages; of encounters, which are read in no  *)
(* stated order, they forgive additions only.                              *)
ScrollComplete ==
  /\ pc = "end" /\ Ranked /\ events \cap {"removed", "cut"} = {}
  /\ kind = "encounters" => "written" \notin events
  => owed \ touched \subseteq shown

(* No page shows a document again, whatever is removed, unless one was     *)
(* added or written; in a collection that grows at the end additions do no *)
(* harm either.                                                            *)
NoRepeats ==
  /\ Ranked
  /\ kind = "characters" \/ events \cap {"added", "written"} = {}
  => again = {}

(* The total of a page of maps counts what the pages show: unless a map    *)
(* was made or deleted between the two queries, the page is as long as the *)
(* total says, and empty beyond it.                                        *)
TotalHonest ==
  kind = "maps" /\ steady /\ pc \in {"count", "end"} /\ "cut" \notin events =>
    LET rest == total - (at - Size)
    IN  Cardinality(page) = IF rest <= 0 THEN 0 ELSE Smaller(rest, Size)
=============================================================================
