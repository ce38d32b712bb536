----------------------------- MODULE ListsProofs -----------------------------
(***************************************************************************)
(* Proofs about Lists, for any documents, queries, sizes of page and       *)
(* number of writes. The argument is about Prior(d), the documents of the  *)
(* query that come before d: what is still owed has at least as many       *)
(* before it as the pages have passed (Ahead), and what has been shown has *)
(* fewer (Behind).                                                         *)
(***************************************************************************)
EXTENDS Lists, FiniteSetTheorems, TLAPS

Undisturbed ==
  /\ Ranked /\ events \cap {"removed", "cut"} = {}
  /\ kind = "encounters" => "written" \notin events

Unrepeated == Ranked /\ (kind = "characters" \/ events \cap {"added", "written"} = {})

Ahead ==
  Undisturbed =>
    /\ pc \in Underway =>
         \A d \in owed \ (touched \cup shown) : d \in Selected /\ Cardinality(Prior(d)) >= at
    /\ pc = "end" => owed \ touched \subseteq shown

Behind ==
  Unrepeated =>
    /\ again = {}
    /\ pc \in Underway => \A d \in shown \cap Selected : Cardinality(Prior(d)) < at

Counted == kind = "maps" /\ steady /\ pc = "page" => total = Cardinality(Selected)

Fresh ==
  /\ pc = "idle" => shown = {} /\ again = {}
  /\ pc \in {"idle", "failed"} => ~steady
  /\ shown \subseteq rows \cup gone

IInv == TypeOK /\ Ahead /\ Behind /\ Counted /\ Fresh /\ TotalHonest

-----------------------------------------------------------------------------
(* Pages.                                                                  *)

LEMMA StartSize == TypeOK => Start \in Int /\ Size \in Int
<1> SUFFICES ASSUME TypeOK PROVE Start \in Int /\ Size \in Int
  OBVIOUS
<1>1. query.start \in Int /\ query.size \in Int
  BY ListsAssumption DEF TypeOK
<1>2. Start \in Int
  BY <1>1 DEF Start
<1>3. Cardinality(Docs) \in Nat
  BY FS_CardinalityType, ListsAssumption
<1> QED BY <1>1, <1>2, <1>3, ListsAssumption DEF Size, Smaller

LEMMA Finite ==
  ASSUME TypeOK, NEW S, S \subseteq Docs
  PROVE  IsFiniteSet(S) /\ Cardinality(S) \in Nat
  BY FS_Subset, FS_CardinalityType, ListsAssumption

(* Which documents come first is a strict order, and a total one unless    *)
(* some are tied.                                                          *)
LEMMA BeforeStrict ==
  ASSUME TypeOK, NEW d \in Docs, NEW e \in Docs
  PROVE  /\ ~Before(d, d)
         /\ Before(d, e) => ~Before(e, d)
<1>1. d.rank \in Int /\ e.rank \in Int
  BY ListsAssumption
<1>2. <<d, d>> \notin order /\ (d # e => (<<d, e>> \in order <=> <<e, d>> \notin order))
  BY DEF TypeOK, Orders
<1>3. CASE Sort = "asc"
  BY <1>1, <1>3 DEF Before
<1>4. CASE Sort = "desc"
  BY <1>1, <1>4 DEF Before
<1>5. CASE Sort \notin {"asc", "desc"}
  <2>1. \A x, y : Before(x, y) <=> <<x, y>> \in order
    BY <1>5 DEF Before
  <2> QED BY <1>2, <2>1
<1> QED BY <1>3, <1>4, <1>5

LEMMA BeforeTotal ==
  ASSUME TypeOK, Ranked, NEW d \in Selected, NEW e \in Selected, d # e
  PROVE  Before(d, e) \/ Before(e, d)
<1>1. d \in Docs /\ e \in Docs /\ Matches(query, d) /\ Matches(query, e)
  BY DEF TypeOK, Selected
<1>2. d.rank \in Int /\ e.rank \in Int
  BY <1>1, ListsAssumption
<1>3. CASE Sort \in {"asc", "desc"}
  <2>1. d.rank # e.rank
    BY <1>1, <1>3 DEF Ranked
  <2> QED BY <1>2, <1>3, <2>1 DEF Before
<1>4. CASE Sort \notin {"asc", "desc"}
  <2>1. \A x, y : Before(x, y) <=> <<x, y>> \in order
    BY <1>4 DEF Before
  <2> QED BY <1>1, <2>1 DEF TypeOK, Orders
<1> QED BY <1>3, <1>4

(* What is not among the first n has at least n before it.                 *)
LEMMA Later ==
  ASSUME TypeOK, Ranked, NEW S, NEW n \in Nat, Firsts(S, n), NEW d \in Selected, d \notin S
  PROVE  Cardinality(S) = n /\ Cardinality(Prior(d)) >= n
<1>1. S \subseteq Selected /\ Selected \subseteq Docs /\ Prior(d) \subseteq Docs
  BY DEF Firsts, Selected, Prior, TypeOK
<1>2. /\ IsFiniteSet(S) /\ Cardinality(S) \in Nat
      /\ IsFiniteSet(Selected) /\ Cardinality(Selected) \in Nat
      /\ IsFiniteSet(Prior(d)) /\ Cardinality(Prior(d)) \in Nat
  BY <1>1, Finite
<1>3. S \subseteq Prior(d)
  <2> SUFFICES ASSUME NEW e \in S PROVE e \in Prior(d)
    OBVIOUS
  <2>1. e \in Selected /\ e # d /\ ~Before(d, e)
    BY <1>1 DEF Firsts
  <2> QED BY <2>1, BeforeTotal DEF Prior
<1>4. Cardinality(S) <= Cardinality(Prior(d))
  BY <1>2, <1>3, FS_Subset
<1>5. Cardinality(S) < Cardinality(Selected)
  <2>1. Cardinality(S) <= Cardinality(Selected) /\ Cardinality(S) # Cardinality(Selected)
    BY <1>1, <1>2, FS_Subset
  <2> QED BY <1>2, <2>1
<1>6. Cardinality(S) = Smaller(n, Cardinality(Selected))
  BY DEF Firsts
<1>7. Cardinality(S) = n
  BY <1>2, <1>5, <1>6 DEF Smaller
<1> QED BY <1>2, <1>4, <1>7

(* What is among the first n has fewer before it.                          *)
LEMMA Earlier ==
  ASSUME TypeOK, NEW S, NEW n \in Nat, Firsts(S, n), NEW d \in S
  PROVE  Cardinality(Prior(d)) < n
<1>1. S \subseteq Selected /\ Selected \subseteq Docs /\ Prior(d) \subseteq Docs
  BY DEF Firsts, Selected, Prior, TypeOK
<1>2. /\ IsFiniteSet(S) /\ Cardinality(S) \in Nat /\ Cardinality(Selected) \in Nat
      /\ IsFiniteSet(Prior(d)) /\ Cardinality(Prior(d)) \in Nat
  BY <1>1, Finite
<1>3. Prior(d) \subseteq S
  BY DEF Prior, Firsts
<1>4. d \notin Prior(d)
  BY <1>1, BeforeStrict DEF Prior
<1>5. Cardinality(Prior(d)) <= Cardinality(S) /\ Cardinality(Prior(d)) # Cardinality(S)
  BY <1>2, <1>3, <1>4, FS_Subset
<1>6. Cardinality(S) <= n
  BY <1>2 DEF Firsts, Smaller
<1> QED BY <1>2, <1>5, <1>6

(* The page between two beginnings of the list.                            *)
LEMMA PageLength ==
  ASSUME TypeOK, NEW S, NEW T, S \subseteq T, T \subseteq Docs
  PROVE  Cardinality(T \ S) = Cardinality(T) - Cardinality(S)
<1>1. IsFiniteSet(T) /\ T \cap S = S
  BY Finite
<1> QED BY <1>1, FS_Difference

-----------------------------------------------------------------------------
(* What does not depend on the list's documents.                           *)

LEMMA Fixed ==
  ASSUME UNCHANGED <<kind, query>>
  PROVE  /\ Start' = Start /\ Size' = Size /\ Accepted' = Accepted /\ Sort' = Sort /\ Begin' = Begin
         /\ \A d : Matches(query, d)' <=> Matches(query, d)
         /\ Ranked' <=> Ranked
<1>1. Start' = Start /\ Size' = Size /\ Sort' = Sort /\ Begin' = Begin
  BY DEF Start, Size, Sort, Begin
<1>2. Accepted' = Accepted
  BY <1>1 DEF Accepted
<1>3. ASSUME NEW d PROVE Matches(query, d)' <=> Matches(query, d)
  BY DEF Matches
<1>4. Ranked' <=> Ranked
  BY <1>1, <1>3 DEF Ranked
<1> QED BY <1>1, <1>2, <1>3, <1>4

(* The list is as it was.                                                  *)
LEMMA SameList ==
  ASSUME UNCHANGED <<kind, query, listVars>>
  PROVE  /\ Selected' = Selected
         /\ \A d : Prior(d)' = Prior(d)
<1>1. Selected' = Selected
  BY Fixed DEF Selected, listVars
<1>2. ASSUME NEW d PROVE Prior(d)' = Prior(d)
  <2>1. \A e : Before(e, d)' <=> Before(e, d)
    BY Fixed DEF Before, listVars
  <2> QED BY <1>1, <2>1 DEF Prior
<1> QED BY <1>1, <1>2

-----------------------------------------------------------------------------
(* What the writes of others do to the list.                               *)

LEMMA MovedPairs ==
  ASSUME NEW d, NEW S, NEW a, NEW b
  PROVE  <<a, b>> \in Moved(d, S) <=>
           \/ <<a, b>> \in order /\ a # d /\ b # d
           \/ a \in S /\ b = d
           \/ a = d /\ b \in Docs \ (S \cup {d})
<1>1. <<a, b>>[1] = a /\ <<a, b>>[2] = b
  OBVIOUS
<1>2. <<a, b>> \in {x \in order : x[1] # d /\ x[2] # d} <=> <<a, b>> \in order /\ a # d /\ b # d
  BY <1>1
<1>3. <<a, b>> \in S \X {d} <=> a \in S /\ b = d
  OBVIOUS
<1>4. <<a, b>> \in {d} \X (Docs \ (S \cup {d})) <=> a = d /\ b \in Docs \ (S \cup {d})
  OBVIOUS
<1> QED BY <1>2, <1>3, <1>4 DEF Moved

(* What d comes after, it comes after with all that was before it.         *)
LEMMA Landed ==
  ASSUME NEW d \in Docs, NEW S \in Landing(d)
  PROVE  /\ S \subseteq Docs \ {d}
         /\ \A e \in S, c \in Docs \ {d} : <<c, e>> \in order => c \in S
<1>1. CASE kind = "encounters"
  BY <1>1 DEF Landing
<1>2. CASE kind = "maps"
  BY <1>2 DEF Landing
<1>3. CASE kind \notin {"encounters", "maps"}
  BY <1>3 DEF Landing
<1> QED BY <1>1, <1>2, <1>3

LEMMA MovedOrder ==
  ASSUME TypeOK, NEW d \in Docs, NEW S \in Landing(d)
  PROVE  Moved(d, S) \in Orders
<1> DEFINE o == Moved(d, S)
<1>1. S \subseteq Docs \ {d} /\ \A e \in S, c \in Docs \ {d} : <<c, e>> \in order => c \in S
  BY Landed
<1>2. \A a, b : <<a, b>> \in o <=> \/ <<a, b>> \in order /\ a # d /\ b # d
                                   \/ a \in S /\ b = d
                                   \/ a = d /\ b \in Docs \ (S \cup {d})
  BY MovedPairs
<1>3. order \in Orders
  BY DEF TypeOK
<1>4. o \subseteq Docs \X Docs
  BY <1>1, <1>3 DEF Moved, Orders
<1> HIDE DEF o
<1>5. ASSUME NEW a \in Docs, NEW b \in Docs, a # b PROVE <<a, b>> \in o <=> <<b, a>> \notin o
  <2>1. <<a, b>> \in order <=> <<b, a>> \notin order
    BY <1>3, <1>5 DEF Orders
  <2>2. CASE a # d /\ b # d
    BY <1>2, <2>1, <2>2
  <2>3. CASE a = d
    BY <1>1, <1>2, <1>5, <2>3
  <2>4. CASE b = d
    BY <1>1, <1>2, <1>5, <2>4
  <2> QED BY <2>2, <2>3, <2>4
<1>6. ASSUME NEW a \in Docs PROVE <<a, a>> \notin o
  <2>1. <<a, a>> \notin order
    BY <1>3 DEF Orders
  <2> QED BY <1>1, <1>2, <2>1
<1>7. ASSUME NEW a \in Docs, NEW b \in Docs, NEW c \in Docs, <<a, b>> \in o, <<b, c>> \in o
      PROVE  <<a, c>> \in o
  <2>1. <<a, b>> \in order /\ <<b, c>> \in order => <<a, c>> \in order
    BY <1>3 DEF Orders
  <2>2. b # c => (<<b, c>> \in order <=> <<c, b>> \notin order)
    BY <1>3 DEF Orders
  <2>3. CASE a # d /\ b # d /\ c # d
    BY <1>2, <1>7, <2>1, <2>3
  <2>4. CASE c = d
    BY <1>1, <1>2, <1>7, <2>4
  <2>5. CASE b = d /\ c # d
    <3>1. a \in S /\ c \in Docs \ (S \cup {d}) /\ a # c
      BY <1>1, <1>2, <1>7, <2>5
    <3>2. <<c, a>> \in order => c \in S
      BY <1>1, <3>1
    <3>3. <<a, c>> \in order
      BY <1>3, <3>1, <3>2 DEF Orders
    <3> QED BY <1>1, <1>2, <3>1, <3>3
  <2>6. CASE a = d /\ b # d /\ c # d
    <3>1. b \in Docs \ (S \cup {d}) /\ <<b, c>> \in order
      BY <1>1, <1>2, <1>7, <2>6
    <3>2. c \notin S
      BY <1>1, <3>1
    <3> QED BY <1>2, <2>6, <3>2
  <2> QED BY <2>3, <2>4, <2>5, <2>6
<1> QED BY <1>4, <1>5, <1>6, <1>7 DEF Orders, o

LEMMA MovedBefore ==
  ASSUME NEW d \in Docs, NEW S \in Landing(d), UNCHANGED <<kind, query>>, order' = Moved(d, S)
  PROVE  /\ \A x, y : x # d /\ y # d => (Before(x, y)' <=> Before(x, y))
         /\ kind \notin CreatureLists => \A x : x # d =>
              (Before(d, x)' <=> x \in Docs /\ x \notin S)
<1>1. Sort' = Sort
  BY Fixed
<1>2. \A x, y : x # d /\ y # d => (<<x, y>> \in order' <=> <<x, y>> \in order)
  BY MovedPairs
<1>3. \A x, y : x # d /\ y # d => (Before(x, y)' <=> Before(x, y))
  BY <1>1, <1>2 DEF Before
<1>4. ASSUME kind \notin CreatureLists, NEW x, x # d
      PROVE  Before(d, x)' <=> x \in Docs /\ x \notin S
  <2>1. Sort' = "none"
    BY <1>1, <1>4 DEF Sort
  <2>2. Before(d, x)' <=> <<d, x>> \in order'
    BY <2>1 DEF Before
  <2>3. d \notin S
    BY Landed
  <2> QED BY <1>4, <2>2, <2>3, MovedPairs
<1> QED BY <1>3, <1>4

(* An addition leaves no document with fewer before it, and one at the end *)
(* none with more.                                                         *)
LEMMA AddEffect ==
  ASSUME TypeOK, NEW d \in Docs, Add(d)
  PROVE  /\ d \notin Selected
         /\ Selected' = IF Matches(query, d) THEN Selected \cup {d} ELSE Selected
         /\ \A e \in Selected : Prior(e) \subseteq Prior(e)'
         /\ ~Matches(query, d) \/ kind = "characters" => \A e \in Selected : Prior(e)' = Prior(e)
<1>1. d \notin rows /\ rows' = rows \cup {d} /\ UNCHANGED <<kind, query>>
  BY DEF Add, Note
<1>2. PICK S \in Landing(d) : order' = Moved(d, S)
  BY DEF Add
<1>3. d \notin Selected
  BY <1>1 DEF Selected
<1>4. Selected' = IF Matches(query, d) THEN Selected \cup {d} ELSE Selected
  <2>1. Selected' = {e \in rows \cup {d} : Matches(query, e)}
    BY <1>1, Fixed DEF Selected
  <2> QED BY <2>1 DEF Selected
<1>5. \A x, y : x # d /\ y # d => (Before(x, y)' <=> Before(x, y))
  BY <1>1, <1>2, MovedBefore
<1>6. \A e \in Selected : Prior(e) \subseteq Prior(e)'
  BY <1>3, <1>4, <1>5 DEF Prior
<1>7. ASSUME ~Matches(query, d) \/ kind = "characters", NEW e \in Selected
      PROVE  Prior(e)' = Prior(e)
  <2>1. CASE ~Matches(query, d)
    BY <1>3, <1>4, <1>5, <2>1 DEF Prior
  <2>2. CASE kind = "characters"
    <3>1. S = Docs \ {d} /\ kind \notin CreatureLists
      BY <2>2 DEF Landing, CreatureLists
    <3>2. ~Before(d, e)'
      BY <1>1, <1>2, <1>3, <3>1, MovedBefore
    <3> QED BY <1>3, <1>4, <1>5, <3>2 DEF Prior
  <2> QED BY <1>7, <2>1, <2>2
<1> QED BY <1>3, <1>4, <1>6, <1>7

LEMMA TouchEffect ==
  ASSUME TypeOK, NEW d \in Docs, Touch(d)
  PROVE  /\ Selected' = Selected
         /\ kind = "maps" => \A e \in Selected \ {d} : Prior(e) \subseteq Prior(e)'
         /\ ~Matches(query, d) => \A e \in Selected : Prior(e)' = Prior(e)
<1>1. rows' = rows /\ UNCHANGED <<kind, query>>
  BY DEF Touch, Note
<1>2. PICK S \in Landing(d) : order' = Moved(d, S)
  BY DEF Touch
<1>3. Selected' = Selected
  BY <1>1, Fixed DEF Selected
<1>4. \A x, y : x # d /\ y # d => (Before(x, y)' <=> Before(x, y))
  BY <1>1, <1>2, MovedBefore
<1>5. ASSUME kind = "maps", NEW e \in Selected, e # d PROVE Prior(e) \subseteq Prior(e)'
  <2>1. S = {} /\ kind \notin CreatureLists /\ e \in Docs
    BY <1>5 DEF Landing, CreatureLists, Selected, TypeOK
  <2>2. Before(d, e)'
    BY <1>1, <1>2, <1>5, <2>1, MovedBefore
  <2> QED BY <1>3, <1>4, <1>5, <2>2 DEF Prior
<1>6. ASSUME ~Matches(query, d), NEW e \in Selected PROVE Prior(e)' = Prior(e)
  <2>1. d \notin Selected
    BY <1>6 DEF Selected
  <2> QED BY <1>3, <1>4, <2>1 DEF Prior
<1> QED BY <1>3, <1>5, <1>6

LEMMA RemoveEffect ==
  ASSUME TypeOK, NEW d \in Docs, Remove(d)
  PROVE  /\ Selected' = Selected \ {d}
         /\ \A e : Prior(e)' = Prior(e) \ {d}
         /\ ~Matches(query, d) => Selected' = Selected /\ \A e : Prior(e)' = Prior(e)
<1>1. rows' = rows \ {d} /\ order' = order /\ UNCHANGED <<kind, query>>
  BY DEF Remove, Note
<1>2. Selected' = Selected \ {d}
  BY <1>1, Fixed DEF Selected
<1>3. \A e : Prior(e)' = Prior(e) \ {d}
  <2>1. \A x, y : Before(x, y)' <=> Before(x, y)
    BY <1>1, Fixed DEF Before
  <2> QED BY <1>2, <2>1 DEF Prior
<1>4. ~Matches(query, d) => d \notin Selected /\ \A e : d \notin Prior(e)
  BY DEF Selected, Prior
<1> QED BY <1>2, <1>3, <1>4

-----------------------------------------------------------------------------
(* Type correctness.                                                       *)

LEMMA InitTypeOK == Init => TypeOK
<1> SUFFICES ASSUME Init PROVE TypeOK
  OBVIOUS
<1>1. /\ kind \in Kinds /\ query \in Queries
      /\ rows \subseteq Docs /\ gone \subseteq Docs \ rows /\ order \in Orders
  BY DEF Init
<1>2. /\ pc \in {"idle", "refused", "nothing", "end"} \cup Underway
      /\ pc \notin Underway /\ pc # "count"
  BY DEF Init, Underway
<1>3. /\ at \in Nat /\ total \in Nat
      /\ page \subseteq shown /\ again \subseteq shown /\ shown \subseteq Docs
      /\ owed \subseteq Docs /\ touched \subseteq Docs
      /\ events \subseteq {"added", "written", "removed", "cut"}
  BY DEF Init
<1>4. steady \in BOOLEAN
  BY DEF Init
<1> QED BY <1>1, <1>2, <1>3, <1>4 DEF TypeOK

(* What a client, and others, leave of the types as it was.                *)
LEMMA ClientTypeOK ==
  ASSUME TypeOK, UNCHANGED <<kind, query, listVars, touched>>,
         at' \in Nat, total' \in Nat, steady' \in BOOLEAN,
         page' \subseteq shown', again' \subseteq shown', shown' \subseteq Docs, owed' \subseteq Docs,
         events' \subseteq {"added", "written", "removed", "cut"},
         pc' \in {"idle", "refused", "nothing", "end"} \cup Underway,
         pc' \in Underway => Accepted,
         pc' = "count" => kind = "maps"
  PROVE  TypeOK'
<1>1. kind' \in Kinds /\ query' \in Queries
      /\ rows' \subseteq Docs /\ gone' \subseteq Docs \ rows' /\ order' \in Orders
      /\ touched' \subseteq Docs
  BY DEF TypeOK, listVars
<1>2. pc' \in Underway => Accepted'
  BY Fixed
<1>3. kind' = "maps" => Size' <= MaxSize
  <2>1. query.size \in Int
    BY ListsAssumption DEF TypeOK
  <2>2. kind = "maps" => Size <= MaxSize
    BY <2>1, ListsAssumption DEF Size, Smaller
  <2> QED BY <2>2, Fixed
<1>4. pc' = "count" => kind' = "maps"
  OBVIOUS
<1> QED BY <1>1, <1>2, <1>3, <1>4 DEF TypeOK

LEMMA OthersTypeOK ==
  ASSUME TypeOK, UNCHANGED <<kind, query, scrollVars>>,
         rows' \subseteq Docs, gone' \subseteq Docs \ rows', order' \in Orders, steady' \in BOOLEAN,
         events' \subseteq {"added", "written", "removed", "cut"}, touched' \subseteq Docs
  PROVE  TypeOK'
<1>1. UNCHANGED <<kind, query, pc, at, page, total, owed, shown, again>>
  BY DEF scrollVars
<1>2. (pc \in Underway => Accepted /\ (kind = "maps" => Size <= MaxSize))
       => (pc' \in Underway => Accepted' /\ (kind' = "maps" => Size' <= MaxSize))
  BY <1>1, Fixed
<1> QED BY <1>1, <1>2 DEF TypeOK

(* What a page shows, whole or cut.                                        *)
LEMMA ReadPage ==
  ASSUME TypeOK, pc = "page", NEW n \in Nat, Read(n)
  PROVE  \E S, T :
           /\ S \subseteq T /\ T \subseteq Selected
           /\ Firsts(S, at) /\ Firsts(T, at + n) /\ Show(T \ S)
  BY DEF Read

LEMMA ReadTypeOK ==
  ASSUME TypeOK, pc = "page", NEW n \in Nat, Read(n),
         events' \subseteq {"added", "written", "removed", "cut"}
  PROVE  TypeOK'
<1>1. PICK S, T : T \subseteq Selected /\ Show(T \ S)
  BY ReadPage
<1>2. Size \in Nat /\ Accepted
  BY StartSize DEF TypeOK, Underway, Accepted
<1>3. T \ S \subseteq Docs
  BY <1>1 DEF Selected, TypeOK
<1>4. /\ page' \subseteq shown' /\ again' \subseteq shown' /\ shown' \subseteq Docs
      /\ owed' \subseteq Docs /\ at' \in Nat /\ total' \in Nat /\ steady' \in BOOLEAN
      /\ UNCHANGED <<kind, query, listVars, touched>>
  BY <1>1, <1>2, <1>3 DEF Show, TypeOK
<1>5. pc' \in {"end"} \cup Underway /\ (pc' = "count" => kind = "maps")
  BY <1>1 DEF Show, Begin, Underway
<1> QED BY <1>2, <1>4, <1>5, ClientTypeOK

LEMMA StepTypeOK == TypeOK /\ [Next]_vars => TypeOK'
<1> SUFFICES ASSUME TypeOK, [Next]_vars PROVE TypeOK'
  OBVIOUS
<1> DEFINE Events == {"added", "written", "removed", "cut"}
<1>1. CASE UNCHANGED vars
  <2>1. UNCHANGED <<kind, query, listVars, scrollVars, events, touched, steady>>
    BY <1>1 DEF vars
  <2>2. UNCHANGED <<rows, gone, order>>
    BY <2>1 DEF listVars
  <2> QED BY <2>1, <2>2, OthersTypeOK DEF TypeOK
<1>2. CASE Refuse
  <2>1. /\ UNCHANGED <<at, page, total, owed, shown, again, steady, kind, query, listVars, events, touched>>
        /\ pc' \in {"refused", "nothing"}
    BY <1>2 DEF Refuse, Quiet
  <2>2. pc' \notin Underway /\ pc' # "count" /\ pc' \in {"idle", "refused", "nothing", "end"}
    BY <2>1 DEF Underway
  <2> QED BY <2>1, <2>2, ClientTypeOK DEF TypeOK
<1>3. CASE Ask
  <2>1. /\ UNCHANGED <<page, total, shown, again, steady, kind, query, listVars, events, touched>>
        /\ Accepted /\ pc' = Begin /\ at' = Start /\ owed' \subseteq Selected
    BY <1>3 DEF Ask, Quiet
  <2>2. at' \in Nat /\ owed' \subseteq Docs
    BY <2>1, StartSize DEF Accepted, Selected, TypeOK
  <2>3. pc' \in Underway /\ (pc' = "count" => kind = "maps")
    BY <2>1 DEF Begin, Underway
  <2> QED BY <2>1, <2>2, <2>3, ClientTypeOK DEF TypeOK
<1>4. CASE Count
  <2>1. /\ UNCHANGED <<at, page, owed, shown, again, kind, query, listVars, events, touched>>
        /\ total' = Cardinality({d \in rows : d.owner = query.user})
        /\ steady' = TRUE /\ pc = "count" /\ pc' = "page"
    BY <1>4 DEF Count, Quiet
  <2>2. total' \in Nat
    <3>1. {d \in rows : d.owner = query.user} \subseteq Docs
      BY DEF TypeOK
    <3> QED BY <2>1, <3>1, Finite
  <2>3. pc' \in Underway /\ pc' # "count" /\ Accepted
    BY <2>1 DEF Underway, TypeOK
  <2> QED BY <2>1, <2>2, <2>3, ClientTypeOK DEF TypeOK
<1>5. CASE ShowPage
  <2>1. events' \subseteq Events /\ pc = "page" /\ Size \in Nat /\ Read(Size)
    BY <1>5, StartSize DEF ShowPage, TypeOK, Accepted, Underway
  <2> QED BY <2>1, ReadTypeOK
<1>6. CASE CutPage
  <2>1. PICK n \in 0 .. Size - 1 : Read(n)
    BY <1>6 DEF CutPage
  <2>2. n \in Nat
    BY StartSize
  <2>3. events' \subseteq Events /\ pc = "page"
    BY <1>6 DEF CutPage, TypeOK
  <2> QED BY <2>1, <2>2, <2>3, ReadTypeOK
<1>7. CASE Fail
  <2>1. /\ UNCHANGED <<at, page, total, owed, shown, again, kind, query, listVars, events, touched>>
        /\ pc \in Underway /\ pc' = "failed" /\ steady' = FALSE
    BY <1>7 DEF Fail, Quiet, Underway
  <2>2. pc' \in Underway /\ pc' # "count" /\ Accepted
    BY <2>1 DEF Underway, TypeOK
  <2> QED BY <2>1, <2>2, ClientTypeOK DEF TypeOK
<1>8. CASE Retry
  <2>1. /\ UNCHANGED <<at, page, total, owed, shown, again, steady, kind, query, listVars, events, touched>>
        /\ pc \in Underway /\ pc' = Begin
    BY <1>8 DEF Retry, Quiet, Underway
  <2>2. pc' \in Underway /\ (pc' = "count" => kind = "maps") /\ Accepted
    BY <2>1 DEF Begin, Underway, TypeOK
  <2> QED BY <2>1, <2>2, ClientTypeOK DEF TypeOK
<1>9. ASSUME NEW d \in Docs, Add(d) PROVE TypeOK'
  <2>1. /\ UNCHANGED <<kind, query, scrollVars, gone>>
        /\ d \notin rows \cup gone /\ rows' = rows \cup {d} /\ steady' = FALSE
        /\ events' \subseteq events \cup {"added"} /\ touched' \subseteq touched \cup {d}
    BY <1>9 DEF Add, Note
  <2>2. order' \in Orders
    BY <1>9, MovedOrder DEF Add
  <2> QED BY <2>1, <2>2, OthersTypeOK DEF TypeOK
<1>10. ASSUME NEW d \in Docs, Touch(d) PROVE TypeOK'
  <2>1. /\ UNCHANGED <<kind, query, scrollVars, rows, gone, steady>>
        /\ events' \subseteq events \cup {"written"} /\ touched' \subseteq touched \cup {d}
    BY <1>10 DEF Touch, Note
  <2>2. order' \in Orders
    BY <1>10, MovedOrder DEF Touch
  <2> QED BY <2>1, <2>2, OthersTypeOK DEF TypeOK
<1>11. ASSUME NEW d \in Docs, Remove(d) PROVE TypeOK'
  <2>1. /\ UNCHANGED <<kind, query, scrollVars, order>>
        /\ rows' = rows \ {d} /\ gone' = gone \cup {d} /\ steady' = FALSE
        /\ events' \subseteq events \cup {"removed"} /\ touched' \subseteq touched \cup {d}
    BY <1>11 DEF Remove, Note
  <2> QED BY <2>1, OthersTypeOK DEF TypeOK
<1> QED BY <1>1, <1>2, <1>3, <1>4, <1>5, <1>6, <1>7, <1>8, <1>9, <1>10, <1>11 DEF Next

-----------------------------------------------------------------------------
(* What has not been shown is still ahead.                                 *)

(* Reading on, the first at + n documents begin where the first at ended.  *)
LEMMA ReadAhead ==
  ASSUME TypeOK, pc = "page", Ranked, Read(Size),
         \A d \in owed \ (touched \cup shown) : d \in Selected /\ Cardinality(Prior(d)) >= at
  PROVE  /\ \A d \in owed' \ (touched' \cup shown') :
               d \in Selected' /\ Cardinality(Prior(d)') >= at'
         /\ pc' = "end" => owed' \ touched' \subseteq shown'
<1>1. Size \in Nat /\ at \in Nat
  BY StartSize DEF TypeOK, Underway, Accepted
<1>2. PICK S, T : /\ S \subseteq T /\ T \subseteq Selected
                  /\ Firsts(S, at) /\ Firsts(T, at + Size) /\ Show(T \ S)
  BY <1>1, ReadPage
<1>3. /\ UNCHANGED <<kind, query, listVars, owed, touched>>
      /\ shown' = shown \cup (T \ S) /\ at' = at + Size
      /\ pc' = IF Cardinality(T \ S) < Size THEN "end" ELSE Begin
  BY <1>2 DEF Show
<1>4. ASSUME NEW d \in owed \ (touched \cup shown'), TRUE
      PROVE  /\ d \in Selected /\ Cardinality(Prior(d)) >= at + Size
             /\ Cardinality(T \ S) = Size
  <2>1. d \in Selected /\ Cardinality(Prior(d)) >= at /\ d \notin T \ S
    BY <1>3
  <2>2. d \notin S
    <3>1. ASSUME d \in S PROVE Cardinality(Prior(d)) < at
      BY <1>1, <1>2, <3>1, Earlier
    <3>2. Cardinality(Prior(d)) \in Nat
      BY Finite DEF Prior, Selected, TypeOK
    <3> QED BY <1>1, <2>1, <3>1, <3>2
  <2>3. Cardinality(S) = at
    BY <1>1, <1>2, <2>1, <2>2, Later
  <2>4. Cardinality(T) = at + Size /\ Cardinality(Prior(d)) >= at + Size
    BY <1>1, <1>2, <2>1, <2>2, Later
  <2>5. Cardinality(T \ S) = Cardinality(T) - Cardinality(S)
    BY <1>2, PageLength DEF Selected, TypeOK
  <2> QED BY <1>1, <2>1, <2>3, <2>4, <2>5
<1>5. pc' = "end" => Cardinality(T \ S) # Size
  <2>1. Begin # "end"
    BY DEF Begin
  <2> QED BY <1>1, <1>3, <2>1
<1> QED BY <1>3, <1>4, <1>5, SameList

LEMMA StepEvents ==
  ASSUME Next
  PROVE  UNCHANGED <<kind, query>> /\ events \subseteq events'
<1>1. CASE Refuse \/ Ask \/ Count \/ Fail \/ Retry
  BY <1>1 DEF Refuse, Ask, Count, Fail, Retry, Quiet
<1>2. CASE ShowPage \/ CutPage
  <2>1. ASSUME NEW n, Read(n) PROVE UNCHANGED <<kind, query>>
    BY <2>1 DEF Read, Show
  <2> QED BY <1>2, <2>1 DEF ShowPage, CutPage
<1>3. CASE \E d \in Docs : Add(d) \/ Touch(d) \/ Remove(d)
  BY <1>3 DEF Add, Touch, Remove, Note
<1> QED BY <1>1, <1>2, <1>3 DEF Next

LEMMA UndisturbedBefore ==
  ASSUME Next, Undisturbed'
  PROVE  Undisturbed
<1>1. (Ranked' <=> Ranked) /\ kind' = kind /\ events \subseteq events'
  BY StepEvents, Fixed
<1> QED BY <1>1 DEF Undisturbed

LEMMA UnrepeatedBefore ==
  ASSUME Next, Unrepeated'
  PROVE  Unrepeated
<1>1. (Ranked' <=> Ranked) /\ kind' = kind /\ events \subseteq events'
  BY StepEvents, Fixed
<1> QED BY <1>1 DEF Unrepeated

(* More come before a document, when none of them goes.                    *)
LEMMA MorePrior ==
  ASSUME TypeOK, NEW e, NEW d \in Docs, Selected' \subseteq Selected \cup {d},
         Prior(e) \subseteq Prior(e)'
  PROVE  Cardinality(Prior(e)) \in Nat /\ Cardinality(Prior(e)') \in Nat
         /\ Cardinality(Prior(e)) <= Cardinality(Prior(e)')
<1>1. Prior(e) \subseteq Docs /\ Prior(e)' \subseteq Docs
  BY DEF Prior, Selected, TypeOK
<1> QED BY <1>1, Finite, FS_Subset

LEMMA StepAhead == TypeOK /\ Ahead /\ [Next]_vars => Ahead'
<1> SUFFICES ASSUME TypeOK, Ahead, Next PROVE Ahead'
  <2>1. CASE UNCHANGED vars
    <3>1. UNCHANGED <<kind, query, rows, gone, order, pc, at, owed, shown, events, touched>>
      BY <2>1 DEF vars, listVars, scrollVars
    <3>2. UNCHANGED <<kind, query, listVars>>
      BY <3>1 DEF listVars
    <3>3. (Undisturbed' <=> Undisturbed) /\ Selected' = Selected /\ \A d : Prior(d)' = Prior(d)
      BY <3>1, <3>2, Fixed, SameList DEF Undisturbed
    <3> QED BY <3>1, <3>3 DEF Ahead
  <2> QED BY <2>1
<1> SUFFICES ASSUME Undisturbed'
             PROVE  /\ pc' \in Underway =>
                         \A d \in owed' \ (touched' \cup shown') :
                           d \in Selected' /\ Cardinality(Prior(d)') >= at'
                    /\ pc' = "end" => owed' \ touched' \subseteq shown'
  BY DEF Ahead
<1>1. /\ pc \in Underway =>
           \A d \in owed \ (touched \cup shown) : d \in Selected /\ Cardinality(Prior(d)) >= at
      /\ pc = "end" => owed \ touched \subseteq shown
  BY UndisturbedBefore DEF Ahead
<1>2. Ranked
  BY UndisturbedBefore DEF Undisturbed
<1>3. CASE Refuse
  BY <1>3 DEF Refuse, Underway
<1>4. CASE Ask
  <2>1. /\ pc' = Begin /\ at' = Start /\ UNCHANGED <<kind, query, listVars>>
        /\ owed' = {d \in Selected : Cardinality(Prior(d)) >= Start}
    BY <1>4 DEF Ask, Quiet
  <2> QED BY <2>1, SameList DEF Begin
<1>5. CASE Count \/ Fail \/ Retry
  <2>1. /\ UNCHANGED <<kind, query, listVars, at, owed, touched, shown>>
        /\ pc \in Underway /\ pc' # "end"
    BY <1>5 DEF Count, Fail, Retry, Quiet, Underway, Begin
  <2> QED BY <1>1, <2>1, SameList
<1>6. CASE ShowPage
  BY <1>1, <1>2, <1>6, ReadAhead DEF ShowPage, Underway
<1>7. CASE CutPage
  BY <1>7 DEF CutPage, Undisturbed
<1>8. ASSUME NEW d \in Docs, Add(d)
      PROVE  \A e \in owed' \ (touched' \cup shown') :
               e \in Selected' /\ Cardinality(Prior(e)') >= at'
  <2>1. UNCHANGED <<at, owed, touched, shown>> /\ pc \in Underway
    BY <1>8 DEF Add, Note, scrollVars
  <2>2. /\ Selected \subseteq Selected' /\ Selected' \subseteq Selected \cup {d}
        /\ \A e \in Selected : Prior(e) \subseteq Prior(e)'
    BY <1>8, AddEffect
  <2>3. \A e \in Selected : Cardinality(Prior(e)) \in Nat /\ Cardinality(Prior(e)') \in Nat
                            /\ Cardinality(Prior(e)) <= Cardinality(Prior(e)')
    BY <2>2, MorePrior
  <2>4. at \in Nat
    BY DEF TypeOK
  <2> QED BY <1>1, <2>1, <2>2, <2>3, <2>4
<1>9. ASSUME NEW d \in Docs, Touch(d)
      PROVE  \A e \in owed' \ (touched' \cup shown') :
               e \in Selected' /\ Cardinality(Prior(e)') >= at'
  <2>1. /\ UNCHANGED <<kind, at, owed, shown>> /\ pc \in Underway /\ touched' = touched \cup {d}
        /\ Matches(query, d) => "written" \in events'
        /\ kind \in {"encounters", "maps"}
    BY <1>9 DEF Touch, Note, scrollVars
  <2>2. ~Matches(query, d) \/ kind = "maps"
    BY <2>1 DEF Undisturbed
  <2>3. Selected' = Selected /\ \A e \in Selected \ {d} : Prior(e) \subseteq Prior(e)'
    BY <1>9, <2>2, TouchEffect
  <2>4. \A e \in Selected \ {d} : Cardinality(Prior(e)) \in Nat /\ Cardinality(Prior(e)') \in Nat
                                  /\ Cardinality(Prior(e)) <= Cardinality(Prior(e)')
    BY <2>3, MorePrior
  <2>5. at \in Nat
    BY DEF TypeOK
  <2> QED BY <1>1, <2>1, <2>3, <2>4, <2>5
<1>10. ASSUME NEW d \in Docs, Remove(d)
       PROVE  \A e \in owed' \ (touched' \cup shown') :
                e \in Selected' /\ Cardinality(Prior(e)') >= at'
  <2>1. /\ UNCHANGED <<at, owed, shown>> /\ pc \in Underway /\ touched' = touched \cup {d}
        /\ Matches(query, d) => "removed" \in events'
    BY <1>10 DEF Remove, Note, scrollVars
  <2>2. ~Matches(query, d)
    BY <2>1 DEF Undisturbed
  <2>3. Selected' = Selected /\ \A e : Prior(e)' = Prior(e)
    BY <1>10, <2>2, RemoveEffect
  <2> QED BY <1>1, <2>1, <2>3
<1>11. ASSUME NEW d \in Docs, Add(d) \/ Touch(d) \/ Remove(d) PROVE pc' # "end"
  BY <1>11 DEF Add, Touch, Remove, Note, scrollVars, Underway
<1> QED BY <1>3, <1>4, <1>5, <1>6, <1>7, <1>8, <1>9, <1>10, <1>11 DEF Next

-----------------------------------------------------------------------------
(* What has been shown is behind.                                          *)

LEMMA ReadBehind ==
  ASSUME TypeOK, pc = "page", Ranked, NEW n \in 0 .. Size, Read(n),
         again = {}, \A d \in shown \cap Selected : Cardinality(Prior(d)) < at
  PROVE  /\ again' = {}
         /\ \A d \in shown' \cap Selected' : Cardinality(Prior(d)') < at'
<1>1. Size \in Nat /\ n \in Nat /\ n <= Size /\ at \in Nat
  BY StartSize DEF TypeOK, Underway, Accepted
<1>2. PICK S, T : /\ S \subseteq T /\ T \subseteq Selected
                  /\ Firsts(S, at) /\ Firsts(T, at + n) /\ Show(T \ S)
  BY <1>1, ReadPage
<1>3. /\ UNCHANGED <<kind, query, listVars>>
      /\ shown' = shown \cup (T \ S) /\ again' = again \cup (shown \cap (T \ S)) /\ at' = at + Size
  BY <1>2 DEF Show
<1>4. \A d \in Selected : Cardinality(Prior(d)) \in Nat
  BY Finite DEF Prior, Selected, TypeOK
<1>5. ASSUME NEW d \in shown \cap (T \ S) PROVE FALSE
  <2>1. d \in Selected /\ Cardinality(Prior(d)) < at
    BY <1>2
  <2>2. Cardinality(Prior(d)) >= at
    BY <1>1, <1>2, <2>1, Later
  <2> QED BY <1>1, <1>4, <2>1, <2>2
<1>6. ASSUME NEW d \in shown' \cap Selected PROVE Cardinality(Prior(d)) < at + Size
  <2>1. CASE d \in shown
    BY <1>1, <1>4, <2>1
  <2>2. CASE d \in T \ S
    <3>1. Cardinality(Prior(d)) < at + n
      BY <1>1, <1>2, <2>2, Earlier
    <3> QED BY <1>1, <1>4, <3>1
  <2> QED BY <1>3, <1>6, <2>1, <2>2
<1> QED BY <1>3, <1>5, <1>6, SameList

LEMMA StepBehind == TypeOK /\ Behind /\ Fresh /\ [Next]_vars => Behind'
<1> SUFFICES ASSUME TypeOK, Behind, Fresh, Next PROVE Behind'
  <2>1. CASE UNCHANGED vars
    <3>1. UNCHANGED <<kind, query, rows, gone, order, pc, at, again, shown, events>>
      BY <2>1 DEF vars, listVars, scrollVars
    <3>2. UNCHANGED <<kind, query, listVars>>
      BY <3>1 DEF listVars
    <3>3. (Unrepeated' <=> Unrepeated) /\ Selected' = Selected /\ \A d : Prior(d)' = Prior(d)
      BY <3>1, <3>2, Fixed, SameList DEF Unrepeated
    <3> QED BY <3>1, <3>3 DEF Behind
  <2> QED BY <2>1
<1> SUFFICES ASSUME Unrepeated'
             PROVE  /\ again' = {}
                    /\ pc' \in Underway =>
                         \A d \in shown' \cap Selected' : Cardinality(Prior(d)') < at'
  BY DEF Behind
<1>1. /\ again = {}
      /\ pc \in Underway => \A d \in shown \cap Selected : Cardinality(Prior(d)) < at
  BY UnrepeatedBefore DEF Behind
<1>2. Ranked
  BY UnrepeatedBefore DEF Unrepeated
<1>3. CASE Refuse
  BY <1>1, <1>3 DEF Refuse, Underway
<1>4. CASE Ask
  BY <1>1, <1>4 DEF Ask, Fresh
<1>5. CASE Count \/ Fail \/ Retry
  <2>1. /\ UNCHANGED <<kind, query, listVars, at, shown, again>>
        /\ pc \in Underway
    BY <1>5 DEF Count, Fail, Retry, Quiet, Underway
  <2> QED BY <1>1, <2>1, SameList
<1>6. CASE ShowPage
  <2>1. Size \in 0 .. Size
    BY <1>6, StartSize DEF ShowPage, TypeOK, Accepted, Underway
  <2> QED BY <1>1, <1>2, <1>6, <2>1, ReadBehind DEF ShowPage, Underway
<1>7. CASE CutPage
  <2>1. PICK n \in 0 .. Size - 1 : Read(n)
    BY <1>7 DEF CutPage
  <2>2. n \in 0 .. Size /\ pc = "page"
    BY <1>7, StartSize DEF CutPage
  <2> QED BY <1>1, <1>2, <2>1, <2>2, ReadBehind DEF Underway
<1>8. ASSUME NEW d \in Docs, Add(d)
      PROVE  again' = {} /\ \A e \in shown' \cap Selected' : Cardinality(Prior(e)') < at'
  <2>1. /\ UNCHANGED <<kind, at, shown, again>> /\ pc \in Underway
        /\ Matches(query, d) => "added" \in events'
        /\ d \notin shown
    BY <1>8 DEF Add, Note, scrollVars, Fresh
  <2>2. ~Matches(query, d) \/ kind = "characters"
    BY <2>1 DEF Unrepeated
  <2>3. Selected' \subseteq Selected \cup {d} /\ \A e \in Selected : Prior(e)' = Prior(e)
    BY <1>8, <2>2, AddEffect
  <2> QED BY <1>1, <2>1, <2>3
<1>9. ASSUME NEW d \in Docs, Touch(d)
      PROVE  again' = {} /\ \A e \in shown' \cap Selected' : Cardinality(Prior(e)') < at'
  <2>1. /\ UNCHANGED <<kind, at, shown, again>> /\ pc \in Underway
        /\ Matches(query, d) => "written" \in events'
        /\ kind \in {"encounters", "maps"}
    BY <1>9 DEF Touch, Note, scrollVars
  <2>2. ~Matches(query, d)
    BY <2>1 DEF Unrepeated
  <2>3. Selected' = Selected /\ \A e \in Selected : Prior(e)' = Prior(e)
    BY <1>9, <2>2, TouchEffect
  <2> QED BY <1>1, <2>1, <2>3
<1>10. ASSUME NEW d \in Docs, Remove(d)
       PROVE  again' = {} /\ \A e \in shown' \cap Selected' : Cardinality(Prior(e)') < at'
  <2>1. UNCHANGED <<at, shown, again>> /\ pc \in Underway
    BY <1>10 DEF Remove, Note, scrollVars
  <2>2. Selected' \subseteq Selected /\ \A e : Prior(e)' \subseteq Prior(e)
    BY <1>10, RemoveEffect
  <2>3. \A e : /\ Cardinality(Prior(e)) \in Nat /\ Cardinality(Prior(e)') \in Nat
               /\ Cardinality(Prior(e)') <= Cardinality(Prior(e))
    <3>1. \A e : Prior(e) \subseteq Docs
      BY DEF Prior, Selected, TypeOK
    <3> QED BY <2>2, <3>1, Finite, FS_Subset
  <2>4. at \in Nat
    BY DEF TypeOK
  <2> QED BY <1>1, <2>1, <2>2, <2>3, <2>4
<1> QED BY <1>3, <1>4, <1>5, <1>6, <1>7, <1>8, <1>9, <1>10 DEF Next

-----------------------------------------------------------------------------
(* Totals.                                                                 *)

LEMMA StepFresh == TypeOK /\ Fresh /\ [Next]_vars => Fresh'
<1> SUFFICES ASSUME TypeOK, Fresh, [Next]_vars PROVE Fresh'
  OBVIOUS
<1>1. CASE UNCHANGED vars
  BY <1>1 DEF vars, listVars, scrollVars, Fresh
<1>2. CASE Refuse \/ Retry
  BY <1>2 DEF Refuse, Retry, Quiet, Fresh, Begin, listVars
<1>3. CASE Ask
  BY <1>3 DEF Ask, Quiet, Fresh, Begin, listVars
<1>4. CASE Count \/ Fail
  BY <1>4 DEF Count, Fail, Quiet, Fresh, listVars
<1>5. ASSUME NEW n \in Nat, Read(n), pc = "page" PROVE Fresh'
  <2>1. PICK S, T : S \subseteq T /\ T \subseteq Selected /\ Show(T \ S)
    BY <1>5, ReadPage
  <2>2. /\ rows' = rows /\ gone' = gone /\ shown' = shown \cup (T \ S)
        /\ pc' \notin {"idle", "failed"}
    BY <2>1 DEF Show, listVars, Begin
  <2>3. T \subseteq rows
    BY <2>1 DEF Selected
  <2> QED BY <2>2, <2>3 DEF Fresh
<1>6. CASE ShowPage
  <2>1. Size \in Nat
    BY <1>6, StartSize DEF ShowPage, TypeOK, Accepted, Underway
  <2> QED BY <1>5, <1>6, <2>1 DEF ShowPage
<1>7. CASE CutPage
  <2>1. PICK n \in 0 .. Size - 1 : Read(n)
    BY <1>7 DEF CutPage
  <2>2. n \in Nat
    BY StartSize
  <2> QED BY <1>5, <1>7, <2>1, <2>2 DEF CutPage
<1>8. ASSUME NEW d \in Docs, Add(d) PROVE Fresh'
  BY <1>8 DEF Add, Note, scrollVars, Fresh, Underway
<1>9. ASSUME NEW d \in Docs, Touch(d) PROVE Fresh'
  BY <1>9 DEF Touch, Note, scrollVars, Fresh, Underway
<1>10. ASSUME NEW d \in Docs, Remove(d) PROVE Fresh'
  BY <1>10 DEF Remove, Note, scrollVars, Fresh, Underway
<1> QED BY <1>1, <1>2, <1>3, <1>4, <1>6, <1>7, <1>8, <1>9, <1>10 DEF Next

(* The maps of the user are those of the query.                            *)
LEMMA MapsSelected ==
  ASSUME kind = "maps"
  PROVE  Selected = {d \in rows : d.owner = query.user}
<1>1. \A d : Matches(query, d) <=> d.owner = query.user
  BY DEF Matches, ListMaps
<1> QED BY <1>1 DEF Selected

LEMMA StepCounted == TypeOK /\ Counted /\ [Next]_vars => Counted'
<1> SUFFICES ASSUME TypeOK, Counted, [Next]_vars PROVE Counted'
  OBVIOUS
<1>1. CASE UNCHANGED vars
  <2>1. UNCHANGED <<kind, query, listVars, steady, pc, total>>
    BY <1>1 DEF vars, scrollVars
  <2> QED BY <2>1, SameList DEF Counted
<1>2. CASE Refuse \/ Ask \/ Fail \/ Retry
  BY <1>2 DEF Refuse, Ask, Fail, Retry, Quiet, Counted, Begin
<1>3. CASE Count
  <2>1. /\ total' = Cardinality({d \in rows : d.owner = query.user}) /\ kind = "maps"
        /\ UNCHANGED <<kind, query, listVars>>
    BY <1>3 DEF Count, Quiet, TypeOK
  <2>2. Selected' = {d \in rows : d.owner = query.user}
    BY <2>1, MapsSelected, SameList
  <2> QED BY <2>1, <2>2 DEF Counted
<1>4. CASE ShowPage \/ CutPage
  <2>1. ASSUME NEW n, Read(n) PROVE kind' = kind /\ (pc' = "page" => kind # "maps")
    BY <2>1 DEF Read, Show, Begin
  <2> QED BY <1>4, <2>1 DEF ShowPage, CutPage, Counted
<1>5. ASSUME NEW d \in Docs, Add(d) \/ Remove(d) PROVE Counted'
  BY <1>5 DEF Add, Remove, Counted
<1>6. ASSUME NEW d \in Docs, Touch(d) PROVE Counted'
  <2>1. UNCHANGED <<kind, pc, total, steady>>
    BY <1>6 DEF Touch, Note, scrollVars
  <2> QED BY <1>6, <2>1, TouchEffect DEF Counted
<1> QED BY <1>1, <1>2, <1>3, <1>4, <1>5, <1>6 DEF Next

LEMMA ReadTotal ==
  ASSUME TypeOK, pc = "page", Read(Size), total = Cardinality(Selected)
  PROVE  LET rest == total' - (at' - Size')
         IN  Cardinality(page') = IF rest <= 0 THEN 0 ELSE Smaller(rest, Size')
<1>1. Size \in Nat /\ at \in Nat
  BY StartSize DEF TypeOK, Underway, Accepted
<1>2. PICK S, T : /\ S \subseteq T /\ T \subseteq Selected
                  /\ Firsts(S, at) /\ Firsts(T, at + Size) /\ Show(T \ S)
  BY <1>1, ReadPage
<1>3. page' = T \ S /\ at' = at + Size /\ total' = total /\ UNCHANGED <<kind, query>>
  BY <1>2 DEF Show
<1>4. Size' = Size
  BY <1>3, Fixed
<1> DEFINE N == Cardinality(Selected)
<1>5. N \in Nat
  BY Finite DEF Selected, TypeOK
<1>6. Cardinality(S) = Smaller(at, N) /\ Cardinality(T) = Smaller(at + Size, N)
  BY <1>2 DEF Firsts
<1>7. Cardinality(page') = Cardinality(T) - Cardinality(S)
  BY <1>2, <1>3, PageLength DEF Selected, TypeOK
<1>8. total' = N
  BY <1>3
<1> HIDE DEF N
<1>9. Cardinality(page') =
        IF N - at <= 0 THEN 0 ELSE Smaller(N - at, Size)
  BY <1>1, <1>5, <1>6, <1>7 DEF Smaller
<1>10. total' - (at' - Size') = N - at
  BY <1>1, <1>3, <1>4, <1>5, <1>8
<1> QED BY <1>4, <1>9, <1>10

LEMMA StepTotal ==
  TypeOK /\ Counted /\ Fresh /\ TotalHonest /\ [Next]_vars => TotalHonest'
<1> SUFFICES ASSUME TypeOK, Counted, Fresh, TotalHonest, Next PROVE TotalHonest'
  <2>1. CASE UNCHANGED vars
    <3>1. UNCHANGED <<kind, query, steady, pc, total, at, page, events>>
      BY <2>1 DEF vars, scrollVars
    <3> QED BY <3>1, Fixed DEF TotalHonest
  <2> QED BY <2>1
<1> SUFFICES ASSUME kind' = "maps", steady', pc' \in {"count", "end"}, "cut" \notin events'
             PROVE  LET rest == total' - (at' - Size')
                    IN  Cardinality(page') = IF rest <= 0 THEN 0 ELSE Smaller(rest, Size')
  BY DEF TotalHonest
<1>1. CASE Refuse \/ Count \/ Fail
  BY <1>1 DEF Refuse, Count, Fail
<1>2. CASE Ask \/ Retry
  BY <1>2 DEF Ask, Retry, Fresh
<1>3. CASE ShowPage
  <2>1. kind = "maps" /\ steady /\ pc = "page" /\ Read(Size)
    <3>1. kind' = kind
      BY StepEvents
    <3>2. steady' = steady
      BY <1>3 DEF ShowPage, Read, Show
    <3> QED BY <1>3, <3>1, <3>2 DEF ShowPage
  <2>2. total = Cardinality(Selected)
    BY <2>1 DEF Counted
  <2> QED BY <2>1, <2>2, ReadTotal
<1>4. CASE CutPage
  BY <1>4 DEF CutPage
<1>5. ASSUME NEW d \in Docs, Add(d) \/ Remove(d) PROVE FALSE
  BY <1>5 DEF Add, Remove
<1>6. ASSUME NEW d \in Docs, Touch(d)
      PROVE  LET rest == total' - (at' - Size')
             IN  Cardinality(page') = IF rest <= 0 THEN 0 ELSE Smaller(rest, Size')
  <2>1. UNCHANGED <<kind, query, pc, total, at, page, steady>> /\ events \subseteq events'
    BY <1>6, StepEvents DEF Touch, Note, scrollVars
  <2>2. kind = "maps" /\ steady /\ pc \in {"count", "end"} /\ "cut" \notin events
    BY <2>1
  <2>3. Size' = Size
    BY <2>1, Fixed
  <2>4. LET rest == total - (at - Size)
        IN  Cardinality(page) = IF rest <= 0 THEN 0 ELSE Smaller(rest, Size)
    BY <2>2 DEF TotalHonest
  <2> QED BY <2>1, <2>3, <2>4
<1> QED BY <1>1, <1>2, <1>3, <1>4, <1>5, <1>6 DEF Next

-----------------------------------------------------------------------------
(* The theorems.                                                           *)

LEMMA InitIInv == Init => IInv
<1> SUFFICES ASSUME Init PROVE IInv
  OBVIOUS
<1>1. TypeOK
  BY InitTypeOK
<1>2. pc = "idle" /\ shown = {} /\ again = {} /\ ~steady
  BY DEF Init
<1>3. Ahead /\ Behind
  BY <1>2 DEF Ahead, Behind, Underway
<1>4. Counted /\ Fresh /\ TotalHonest
  BY <1>2 DEF Counted, Fresh, TotalHonest
<1> QED BY <1>1, <1>3, <1>4 DEF IInv

(* The inductive invariant: types, what is ahead, what is behind, what was *)
(* counted.                                                                *)
THEOREM Inductive == Spec => []IInv
<1>1. Init => IInv
  BY InitIInv
<1>2. IInv /\ [Next]_vars => IInv'
  <2> SUFFICES ASSUME IInv, [Next]_vars PROVE IInv'
    OBVIOUS
  <2>1. TypeOK /\ Ahead /\ Behind /\ Counted /\ Fresh /\ TotalHonest
    BY DEF IInv
  <2>2. TypeOK' /\ Ahead' /\ Behind'
    BY <2>1, StepTypeOK, StepAhead, StepBehind
  <2>3. Counted' /\ Fresh' /\ TotalHonest'
    BY <2>1, StepCounted, StepFresh, StepTotal
  <2> QED BY <2>2, <2>3 DEF IInv
<1> QED BY <1>1, <1>2, PTL DEF Spec

(* A request for a page that reaches the database has a start that is not  *)
(* negative and a positive size, and one for maps no more than MaxMapsSize.*)
THEOREM TypeCorrect == Spec => []TypeOK
<1>1. IInv => TypeOK
  BY DEF IInv
<1> QED BY <1>1, Inductive, PTL

(* A scroll to the end of a list has shown all that the list held for it   *)
(* and nobody wrote, unless something was removed or a page was cut.       *)
THEOREM ScrollsComplete == Spec => []ScrollComplete
<1>1. IInv => ScrollComplete
  BY DEF IInv, Ahead, Undisturbed, ScrollComplete
<1> QED BY <1>1, Inductive, PTL

(* Removals make no page repeat a document, nor do additions at the end.   *)
THEOREM PagesNeverRepeat == Spec => []NoRepeats
<1>1. IInv => NoRepeats
  BY DEF IInv, Behind, Unrepeated, NoRepeats
<1> QED BY <1>1, Inductive, PTL

(* The total sent with a page of maps, unless maps were made or deleted    *)
(* since it was counted, is what the pages add up to.                      *)
THEOREM TotalsHonest == Spec => []TotalHonest
<1>1. IInv => TotalHonest
  BY DEF IInv
<1> QED BY <1>1, Inductive, PTL
=============================================================================
