-------------------------- MODULE Pagination_proofs --------------------------
(***************************************************************************)
(* Theorems about Pagination for any rows, any limits a client asks for    *)
(* and any longest page: what an ordered walk may lose or repeat, how far  *)
(* an answer may contradict itself, and that each page leads on.           *)
(***************************************************************************)
EXTENDS Pagination, FiniteSetTheorems, TLAPS

LEMMA PagesAreOfTheTable ==
  ASSUME NEW skip, NEW limit, NEW items \in Pages(skip, limit)
  PROVE  items \subseteq table
BY DEF Pages

LEMMA TableIsFinite ==
  ASSUME TypeOK PROVE IsFiniteSet(table)
BY RowsAssumption, FS_Subset DEF TypeOK

LEMMA RowsAreFinite == Cardinality(Rows) \in Nat
BY RowsAssumption, FS_CardinalityType

LEMMA PositionType ==
  ASSUME TypeOK, NEW r PROVE Position(r) \in Nat
<1>1. IsFiniteSet({q \in table : q < r})
  BY TableIsFinite, FS_Subset
<1> QED
  BY <1>1, FS_CardinalityType DEF Position

(* A row that is counted is before the total.                              *)
LEMMA PositionBelowTotal ==
  ASSUME TypeOK, NEW r \in table PROVE Position(r) < Cardinality(table)
<1> DEFINE before == {q \in table : q < r}
<1>1. r \in Int /\ r \notin before /\ before \subseteq table
  BY RowsAssumption DEF TypeOK
<1>2. /\ Cardinality(before) <= Cardinality(table)
      /\ Cardinality(before) # Cardinality(table)
  BY <1>1, TableIsFinite, FS_Subset
<1>3. Cardinality(before) \in Nat /\ Cardinality(table) \in Nat
  BY <1>1, TableIsFinite, FS_Subset, FS_CardinalityType
<1> QED
  BY <1>2, <1>3 DEF Position

(* The rows of a table have positions of their own, in their order.        *)
LEMMA PositionGrows ==
  ASSUME TypeOK, NEW q \in table, NEW r \in table, q < r
  PROVE  Position(q) < Position(r)
<1> DEFINE below(x) == {y \in table : y < x}
<1>1. q \in Int /\ r \in Int /\ \A x \in table : x \in Int
  BY RowsAssumption DEF TypeOK
<1>2. q \in below(r) /\ q \notin below(q)
  BY <1>1
<1>3. below(q) \in SUBSET below(r)
  <2>1. ASSUME NEW x \in table, x < q PROVE x < r
    BY <1>1, <2>1
  <2> QED
    BY <2>1
<1>4. IsFiniteSet(below(r)) /\ IsFiniteSet(below(q))
  BY TableIsFinite, FS_Subset
<1>5. Position(q) = Cardinality(below(q)) /\ Position(r) = Cardinality(below(r))
  BY DEF Position
<1> HIDE DEF below
<1>6. /\ Cardinality(below(q)) <= Cardinality(below(r))
      /\ Cardinality(below(q)) # Cardinality(below(r))
  BY <1>2, <1>3, <1>4, FS_Subset
<1>7. Cardinality(below(q)) \in Nat /\ Cardinality(below(r)) \in Nat
  BY <1>4, FS_CardinalityType
<1> QED
  BY <1>5, <1>6, <1>7

LEMMA OneRowAPlace ==
  ASSUME TypeOK, NEW n PROVE \E y : {x \in table : Position(x) = n} \subseteq {y}
<1>1. ASSUME NEW q \in table, NEW r \in table, q # r PROVE Position(q) # Position(r)
  <2>1. q \in Int /\ r \in Int
    BY RowsAssumption DEF TypeOK
  <2>2. q < r \/ r < q
    BY <1>1, <2>1
  <2> QED
    BY <2>2, PositionGrows, PositionType
<1>2. CASE \E y \in table : Position(y) = n
  BY <1>1, <1>2
<1>3. CASE ~ \E y \in table : Position(y) = n
  BY <1>3
<1> QED
  BY <1>2, <1>3

(* Every place up to the last is taken.                                    *)
LEMMA EveryPlaceIsTaken ==
  ASSUME TypeOK, NEW n \in 0 .. Cardinality(table) - 1
  PROVE  \E r \in table : Position(r) = n
<1> DEFINE size == Cardinality(table)
           f == [r \in table |-> Position(r)]
           places == 0 .. size - 1
<1>1. size \in Nat /\ IsFiniteSet(table)
  BY TableIsFinite, FS_CardinalityType
<1>2. IsFiniteSet(places) /\ Cardinality(places) = size
  <2>1. 0 \in Int /\ size - 1 \in Int
    BY <1>1
  <2>2. IsFiniteSet(places) /\ Cardinality(places) = IF 0 > size - 1 THEN 0 ELSE size - 1 - 0 + 1
    BY <2>1, FS_Interval
  <2> QED
    BY <1>1, <2>2
<1>3. f \in [table -> places]
  <2>1. \A r \in table : Position(r) \in Nat /\ Position(r) < size
    BY PositionType, PositionBelowTotal
  <2> QED
    BY <1>1, <2>1
<1>4. \A q, r \in table : f[q] = f[r] => q = r
  <2> SUFFICES ASSUME NEW q \in table, NEW r \in table, q # r PROVE f[q] # f[r]
    OBVIOUS
  <2>1. PICK y : {x \in table : Position(x) = Position(q)} \subseteq {y}
    BY OneRowAPlace
  <2> QED
    BY <2>1
<1>5. f \in Injection(table, places)
  BY <1>3, <1>4 DEF Injection, IsInjective
<1>6. Cardinality(table) = Cardinality(places)
  BY <1>2
<1>7. n \in places /\ \A r \in table : f[r] = Position(r)
  OBVIOUS
<1> HIDE DEF f, places, size
<1>8. f \in Surjection(table, places)
  BY <1>2, <1>5, <1>6, FS_Injection
<1> QED
  BY <1>7, <1>8 DEF Surjection

-----------------------------------------------------------------------------
(* How much a set can grow.                                                *)

LEMMA SizeType ==
  ASSUME NEW S, IsFiniteSet(S) PROVE Cardinality(S) \in Nat
BY FS_CardinalityType

LEMMA NoLarger ==
  ASSUME NEW S, NEW T, IsFiniteSet(S), T \subseteq S
  PROVE  IsFiniteSet(T) /\ Cardinality(T) <= Cardinality(S)
BY FS_Subset

LEMMA OneLargerAtMost ==
  ASSUME NEW S, NEW T, NEW y, IsFiniteSet(S), T \subseteq S \cup {y}
  PROVE  IsFiniteSet(T) /\ Cardinality(T) <= Cardinality(S) + 1
<1>1. /\ IsFiniteSet(S \cup {y})
      /\ Cardinality(S \cup {y}) = IF y \in S THEN Cardinality(S) ELSE Cardinality(S) + 1
  BY FS_AddElement
<1>2. IsFiniteSet(T) /\ Cardinality(T) <= Cardinality(S \cup {y})
  BY <1>1, NoLarger
<1>3. Cardinality(S) \in Nat /\ Cardinality(T) \in Nat
  BY <1>2, SizeType
<1> QED
  BY <1>1, <1>2, <1>3

LEMMA UnionAddsAtMost ==
  ASSUME NEW S, NEW T, IsFiniteSet(S), IsFiniteSet(T), NEW U, U \subseteq S \cup T
  PROVE  Cardinality(U) <= Cardinality(S) + Cardinality(T)
<1>1. /\ IsFiniteSet(S \cup T) /\ IsFiniteSet(S \cap T)
      /\ Cardinality(S \cup T) = Cardinality(S) + Cardinality(T) - Cardinality(S \cap T)
  BY FS_Union, FS_Intersection
<1>2. IsFiniteSet(U) /\ Cardinality(U) <= Cardinality(S \cup T)
  BY <1>1, NoLarger
<1> QED
  BY <1>1, <1>2, SizeType

LEMMA PartsAddUp ==
  ASSUME NEW S, NEW T, NEW U, IsFiniteSet(U), S \subseteq U, T \subseteq U \ S
  PROVE  Cardinality(S) + Cardinality(T) <= Cardinality(U)
<1>1. IsFiniteSet(S) /\ IsFiniteSet(T) /\ IsFiniteSet(U \ S)
  BY FS_Subset, FS_Difference
<1>2. Cardinality(U \ S) = Cardinality(U) - Cardinality(U \cap S) /\ U \cap S = S
  BY FS_Difference
<1>3. Cardinality(T) <= Cardinality(U \ S)
  BY <1>1, NoLarger
<1>4. /\ Cardinality(S) \in Nat /\ Cardinality(T) \in Nat
      /\ Cardinality(U) \in Nat
  BY <1>1, SizeType
<1> QED
  BY <1>2, <1>3, <1>4

-----------------------------------------------------------------------------
(* What the pages hold.                                                    *)

LEMMA PartsAreFinite ==
  ASSUME TypeOK
  PROVE  /\ IsFiniteSet(table) /\ IsFiniteSet(seen) /\ IsFiniteSet(stayed)
         /\ IsFiniteSet(Missed) /\ IsFiniteSet(Returning) /\ IsFiniteSet(PushedOut)
         /\ \A n : IsFiniteSet(Behind(n))
<1>1. IsFiniteSet(table) /\ IsFiniteSet(seen) /\ IsFiniteSet(stayed)
  BY RowsAssumption, TableIsFinite, FS_Subset DEF TypeOK
<1>2. \A n : Behind(n) \subseteq table
  BY DEF Behind
<1>3. Missed \subseteq stayed /\ Returning \subseteq seen
  BY DEF Missed, Returning
<1>4. PushedOut \subseteq stayed
  BY DEF PushedOut
<1> QED
  BY <1>1, <1>2, <1>3, <1>4, FS_Subset

LEMMA SizeBehind ==
  ASSUME TypeOK, NEW n \in Nat
  PROVE  Cardinality(Behind(n)) = AtMost(n, Cardinality(table))
<1>1. Cardinality(table) \in Nat
  BY PartsAreFinite, SizeType
<1>2. CASE n < Cardinality(table)
  <2>1. n \in 0 .. Cardinality(table) - 1
    BY <1>1, <1>2
  <2>2. PICK r \in table : Position(r) = n
    BY <2>1, EveryPlaceIsTaken
  <2>3. ASSUME NEW q \in table PROVE Position(q) < n <=> q < r
    <3>1. q \in Int /\ r \in Int /\ Position(q) \in Nat
      BY RowsAssumption, PositionType DEF TypeOK
    <3>2. q < r \/ q = r \/ r < q
      BY <3>1
    <3>3. /\ q < r => Position(q) < n
          /\ q = r => Position(q) = n
          /\ r < q => n < Position(q)
      BY <2>2, PositionGrows
    <3> QED
      BY <3>1, <3>2, <3>3
  <2>4. Behind(n) = {q \in table : q < r}
    BY <2>3 DEF Behind
  <2> QED
    BY <1>1, <1>2, <2>2, <2>4 DEF Position, AtMost
<1>3. CASE ~(n < Cardinality(table))
  <2>1. ASSUME NEW r \in table PROVE Position(r) < n
    BY <1>1, <1>3, PositionType, PositionBelowTotal
  <2>2. Behind(n) = table
    BY <2>1 DEF Behind
  <2> QED
    BY <1>3, <2>2 DEF AtMost
<1> QED
  BY <1>2, <1>3

(* An ordered page is what lies between two places.                        *)
LEMMA SizeOfPage ==
  ASSUME TypeOK, NEW skip \in Nat, NEW limit \in Nat, NEW items \in Pages(skip, limit)
  PROVE  /\ IsFiniteSet(items)
         /\ Cardinality(items) = AtMost(limit, AtLeast(Cardinality(table) - skip, 0))
<1>1. IsFiniteSet(items)
  BY PagesAreOfTheTable, TableIsFinite, FS_Subset
<1>2. CASE ~ordered
  BY <1>1, <1>2 DEF Pages
<1>3. CASE ordered
  <2>1. items = Behind(skip + limit) \ Behind(skip)
    <3>1. items = {r \in table : skip <= Position(r) /\ Position(r) < skip + limit}
      BY <1>3 DEF Pages
    <3>2. \A r : Position(r) \in Nat
      BY PositionType
    <3> QED
      BY <3>1, <3>2 DEF Behind
  <2>2. Behind(skip + limit) \cap Behind(skip) = Behind(skip)
    <3>1. ASSUME NEW r, Position(r) < skip PROVE Position(r) < skip + limit
      BY <3>1, PositionType
    <3> QED
      BY <3>1 DEF Behind
  <2>3. Cardinality(items) = Cardinality(Behind(skip + limit)) - Cardinality(Behind(skip))
    BY <2>1, <2>2, PartsAreFinite, FS_Difference
  <2>4. /\ Cardinality(Behind(skip + limit)) = AtMost(skip + limit, Cardinality(table))
        /\ Cardinality(Behind(skip)) = AtMost(skip, Cardinality(table))
    BY SizeBehind
  <2>5. Cardinality(table) \in Nat
    BY PartsAreFinite, SizeType
  <2> QED
    BY <1>1, <2>3, <2>4, <2>5 DEF AtMost, AtLeast
<1> QED
  BY <1>2, <1>3

-----------------------------------------------------------------------------
(* What a change does to the places.                                       *)

LEMMA InsertionMoves ==
  ASSUME TypeOK, NEW r \in unborn, table' = table \cup {r}, NEW x \in table
  PROVE  Position(x)' = IF r < x THEN Position(x) + 1 ELSE Position(x)
<1> DEFINE before == {q \in table : q < x}
<1>1. IsFiniteSet(before) /\ r \notin before
  BY TableIsFinite, FS_Subset DEF TypeOK
<1>2. CASE r < x
  <2>1. {q \in table' : q < x} = before \cup {r}
    BY <1>2
  <2> QED
    BY <1>1, <1>2, <2>1, FS_AddElement DEF Position
<1>3. CASE ~(r < x)
  <2>1. {q \in table' : q < x} = before
    BY <1>3
  <2> QED
    BY <1>3, <2>1 DEF Position
<1> QED
  BY <1>2, <1>3

LEMMA DeletionMoves ==
  ASSUME TypeOK, NEW r \in table, table' = table \ {r}, NEW x \in table
  PROVE  Position(x)' = IF r < x THEN Position(x) - 1 ELSE Position(x)
<1> DEFINE before == {q \in table : q < x}
<1>1. IsFiniteSet(before)
  BY TableIsFinite, FS_Subset
<1>2. CASE r < x
  <2>1. {q \in table' : q < x} = before \ {r} /\ r \in before
    BY <1>2
  <2> QED
    BY <1>1, <1>2, <2>1, FS_RemoveElement DEF Position
<1>3. CASE ~(r < x)
  <2>1. {q \in table' : q < x} = before
    BY <1>3
  <2> QED
    BY <1>3, <2>1 DEF Position
<1> QED
  BY <1>2, <1>3

(* An insertion pushes one row at most past a place, and none of them when *)
(* it moves nothing.                                                       *)
LEMMA InsertionPushesOne ==
  ASSUME TypeOK, NEW r \in unborn, table' = table \cup {r}, NEW n \in Int
  PROVE  /\ Behind(n)' \cap table \subseteq Behind(n)
         /\ \E y : Behind(n) \subseteq Behind(n)' \cup {y}
         /\ ~Moves(r) => Behind(n) \subseteq Behind(n)'
<1>1. \A x \in table : /\ Position(x) \in Nat
                      /\ Position(x)' = IF r < x THEN Position(x) + 1 ELSE Position(x)
  BY PositionType, InsertionMoves
<1>2. Behind(n)' \cap table \subseteq Behind(n)
  BY <1>1 DEF Behind
<1>3. PICK y : {x \in table : Position(x) = n - 1} \subseteq {y}
  BY OneRowAPlace
<1>4. Behind(n) \subseteq Behind(n)' \cup {y}
  <2> SUFFICES ASSUME NEW x \in Behind(n), x # y PROVE x \in Behind(n)'
    OBVIOUS
  <2>1. x \in table /\ x \in table' /\ Position(x) < n /\ Position(x) # n - 1
    BY <1>3 DEF Behind
  <2>2. Position(x)' < n
    BY <1>1, <2>1
  <2> QED
    BY <2>1, <2>2 DEF Behind
<1>5. ~Moves(r) => Behind(n) \subseteq Behind(n)'
  BY <1>1 DEF Behind, Moves
<1> QED
  BY <1>2, <1>4, <1>5

(* A deletion pulls one row at most before a place.                        *)
LEMMA DeletionPullsOne ==
  ASSUME TypeOK, NEW r \in table, table' = table \ {r}, NEW n \in Int
  PROVE  /\ Behind(n) \cap table' \subseteq Behind(n)'
         /\ \E y : Behind(n)' \subseteq Behind(n) \cup {y}
         /\ ~Moves(r) => Behind(n)' \subseteq Behind(n)
<1>1. \A x \in table : /\ Position(x) \in Nat
                      /\ Position(x)' = IF r < x THEN Position(x) - 1 ELSE Position(x)
  BY PositionType, DeletionMoves
<1>2. Behind(n) \cap table' \subseteq Behind(n)'
  BY <1>1 DEF Behind
<1>3. PICK y : {x \in table : Position(x) = n} \subseteq {y}
  BY OneRowAPlace
<1>4. Behind(n)' \subseteq Behind(n) \cup {y}
  <2> SUFFICES ASSUME NEW x \in Behind(n)', x # y PROVE x \in Behind(n)
    OBVIOUS
  <2>1. x \in table /\ Position(x)' < n /\ Position(x) # n
    BY <1>3 DEF Behind
  <2>2. Position(x) < n
    BY <1>1, <2>1
  <2> QED
    BY <2>1, <2>2 DEF Behind
<1>5. ~Moves(r) => Behind(n)' \subseteq Behind(n)
  BY <1>1 DEF Behind, Moves
<1> QED
  BY <1>2, <1>4, <1>5

-----------------------------------------------------------------------------
LEMMA ParamsType ==
  ASSUME NEW skip \in Int, NEW limit \in Limits
  PROVE  /\ PaginationParams(skip, limit).skip = AtLeast(skip, 0)
         /\ AtLeast(skip, 0) \in Nat
         /\ PaginationParams(skip, limit).limit \in 1 .. MAX_LIMIT
BY LimitsAssumption DEF PaginationParams, AtLeast, AtMost

LEMMA InitIInv == Init => IInv
<1> SUFFICES ASSUME Init PROVE IInv
  OBVIOUS
<1>1. TypeOK
  <2>1. /\ next \in Int /\ churn \in Nat /\ repeats \in Nat /\ straddled \in Nat
        /\ request = None /\ answer = None
    BY DEF Init
  <2>2. /\ unborn \subseteq Rows /\ table \subseteq Rows \ unborn
        /\ seen \subseteq Rows \ unborn /\ stayed \subseteq table
    BY DEF Init
  <2>3. ordered \in BOOLEAN /\ done \in BOOLEAN
    BY DEF Init
  <2> QED
    BY <2>1, <2>2, <2>3 DEF TypeOK
<1>2. Behind(next) = {} /\ ~Counted
  BY <1>1, PositionType DEF Behind, Init, Counted
<1>3. Returning = {} /\ Missed = {} /\ PushedOut = {}
  BY <1>2 DEF Returning, Missed, PushedOut, Init
<1>4. ChangesPayForLosses
  BY <1>3, FS_EmptySet DEF ChangesPayForLosses, Init
<1> QED
  BY <1>1, <1>2, <1>4 DEF Init, IInv, RequestFollows, CountIsRecent, AnswerAddsUp

(* A step that leaves the rows and the walk alone, and what is counted,    *)
(* leaves what the changes have to pay for alone.                          *)
LEMMA SameWalkSamePay ==
  ASSUME TypeOK, ChangesPayForLosses,
         UNCHANGED <<ordered, table, next, seen, done, repeats, stayed, churn>>,
         PushedOut' \subseteq PushedOut
  PROVE  ChangesPayForLosses'
<1>1. Missed' = Missed /\ Returning' = Returning
  BY DEF Missed, Returning, Behind, Position
<1>2. Cardinality(PushedOut') <= Cardinality(PushedOut) /\ IsFiniteSet(PushedOut')
  BY PartsAreFinite, NoLarger
<1>3. /\ Cardinality(PushedOut') \in Nat /\ Cardinality(PushedOut) \in Nat
      /\ Cardinality(Missed) \in Nat /\ churn \in Nat
  BY <1>2, PartsAreFinite, SizeType DEF TypeOK
<1> QED
  BY <1>1, <1>2, <1>3 DEF ChangesPayForLosses

LEMMA AskKeepsIInv ==
  ASSUME IInv, NEW limit \in Limits, Ask(limit) PROVE IInv'
<1>1. /\ request' = [skip |-> AtLeast(next, 0),
             limit |-> PaginationParams(next, limit).limit, total |-> NotCounted]
      /\ UNCHANGED <<ordered, table, unborn, next, seen, done, answer, repeats,
                     stayed, churn, straddled>>
      /\ TypeOK
  BY ParamsType DEF Ask, walk, IInv, TypeOK
<1>2. request' \in Request
  BY <1>1, ParamsType, RowsAreFinite DEF Request, TypeOK, NotCounted
<1>3. TypeOK' /\ RequestFollows'
  BY <1>1, <1>2 DEF TypeOK, RequestFollows
<1>4. ~Counted' /\ PushedOut' = {}
  BY <1>1 DEF Counted, PushedOut
<1>5. ChangesPayForLosses'
  BY <1>1, <1>4, SameWalkSamePay DEF IInv
<1>6. AnswerAddsUp' /\ CountIsRecent'
  BY <1>1, <1>4 DEF AnswerAddsUp, CountIsRecent, IInv
<1> QED
  BY <1>3, <1>5, <1>6 DEF IInv

LEMMA CountKeepsIInv ==
  ASSUME IInv, Count PROVE IInv'
<1>1. /\ request # None /\ request \in Request /\ TypeOK
      /\ request' = [request EXCEPT !.total = Cardinality(table)]
      /\ UNCHANGED <<ordered, table, unborn, next, seen, done, answer, repeats,
                     stayed, churn, straddled>>
  BY DEF Count, Total, walk, IInv, TypeOK
<1>2. Cardinality(table) \in NotCounted .. Cardinality(Rows)
  <2>1. Cardinality(table) <= Cardinality(Rows) /\ Cardinality(table) \in Nat
    BY <1>1, TableIsFinite, SizeType, NoLarger, RowsAssumption DEF TypeOK
  <2> QED
    BY <2>1, RowsAreFinite DEF NotCounted
<1>3. /\ request' \in Request /\ request'.skip = request.skip
      /\ request'.total = Cardinality(table)
  BY <1>1, <1>2 DEF Request
<1>4. TypeOK' /\ RequestFollows'
  BY <1>1, <1>3 DEF IInv, TypeOK, RequestFollows
<1>5. stayed \subseteq Behind(Cardinality(table))
  BY <1>1, PositionBelowTotal DEF Behind, TypeOK
<1>6. PushedOut' = {}
  BY <1>1, <1>3, <1>5 DEF PushedOut, Behind, Position
<1>7. ChangesPayForLosses'
  BY <1>1, <1>6, SameWalkSamePay DEF IInv
<1>8. CountIsRecent'
  <2>1. Cardinality(table)' = Cardinality(table) /\ straddled' \in Nat
    BY <1>1 DEF TypeOK
  <2>2. Cardinality(table) \in Nat
    BY <1>1, TableIsFinite, SizeType
  <2> QED
    BY <1>3, <2>1, <2>2 DEF CountIsRecent
<1>9. AnswerAddsUp'
  BY <1>1 DEF AnswerAddsUp, IInv
<1> QED
  BY <1>4, <1>7, <1>8, <1>9 DEF IInv

LEMMA FailKeepsIInv ==
  ASSUME IInv, Fail PROVE IInv'
<1>1. /\ request' = None /\ straddled' = 0 /\ TypeOK
      /\ UNCHANGED <<ordered, table, unborn, next, seen, done, answer, repeats,
                     stayed, churn>>
  BY DEF Fail, walk, IInv
<1>2. ~Counted' /\ PushedOut' = {}
  BY <1>1 DEF Counted, PushedOut
<1>3. ChangesPayForLosses'
  BY <1>1, <1>2, SameWalkSamePay DEF IInv
<1>4. AnswerAddsUp' /\ CountIsRecent' /\ TypeOK' /\ RequestFollows'
  BY <1>1, <1>2 DEF AnswerAddsUp, CountIsRecent, TypeOK, RequestFollows, IInv
<1> QED
  BY <1>3, <1>4 DEF IInv

(* What page's step does, in numbers.                                      *)
LEMMA PageStep ==
  ASSUME IInv, Page
  PROVE  /\ TypeOK /\ Counted /\ request # None /\ request \in Request
         /\ request.skip \in Nat /\ request.limit \in Nat \ {0} /\ request.limit <= MAX_LIMIT
         /\ request.total \in Nat /\ request.total <= Cardinality(Rows)
         /\ request.skip = AtLeast(next, 0) /\ next' = request.skip + request.limit
         /\ done' = (next' >= request.total)
         /\ request' = None /\ straddled' = 0
         /\ UNCHANGED <<ordered, table, unborn, stayed, churn>>
<1>1. /\ TypeOK /\ Counted /\ request # None /\ request \in Request
      /\ request.skip = AtLeast(next, 0)
      /\ next' = request.skip + request.limit
      /\ done' = (next' >= request.total)
      /\ request' = None /\ straddled' = 0
      /\ UNCHANGED <<ordered, table, unborn, stayed, churn>>
  BY DEF Page, Counted, IInv, TypeOK, RequestFollows
<1>2. /\ request.skip \in Nat /\ request.limit \in 1 .. MAX_LIMIT
      /\ request.total \in NotCounted .. Cardinality(Rows) /\ request.total # NotCounted
  BY <1>1 DEF Request, Counted
<1>3. /\ request.limit \in Nat \ {0} /\ request.limit <= MAX_LIMIT
      /\ request.total \in Nat /\ request.total <= Cardinality(Rows)
  BY <1>2, LimitsAssumption, RowsAreFinite DEF NotCounted
<1> QED
  BY <1>1, <1>2, <1>3

LEMMA PageKeepsPay ==
  ASSUME IInv, Page, NEW items \in Pages(request.skip, request.limit),
         seen' = seen \cup items, repeats' = repeats + Cardinality(items \cap seen)
  PROVE  ChangesPayForLosses'
<1> SUFFICES ASSUME ordered PROVE ChangesPayForLosses'
  BY PageStep DEF ChangesPayForLosses
<1>1. /\ TypeOK /\ Counted
      /\ request.skip \in Nat /\ request.limit \in Nat
      /\ request.total \in Nat /\ request.skip = AtLeast(next, 0)
      /\ next' = request.skip + request.limit
      /\ done' = (next' >= request.total)
      /\ request' = None
      /\ UNCHANGED <<ordered, table, stayed, churn>>
  BY PageStep
<1>2. next \in Int /\ next <= request.skip /\ next' \in Nat /\ next <= next'
  BY <1>1 DEF TypeOK, AtLeast
<1>3. items = {r \in table : request.skip <= Position(r) /\ Position(r) < next'}
  BY <1>1 DEF Pages
<1>4. \A r : Position(r) \in Nat /\ Position(r)' = Position(r)
  BY <1>1, PositionType DEF Position
<1>5. Behind(next)' = {r \in table : Position(r) < next'}
  BY <1>1, <1>4 DEF Behind
<1>6. \A r \in table : Position(r) < next' => r \in items \/ r \in Behind(next)
  <2> SUFFICES ASSUME NEW r \in table, Position(r) < next', r \notin items
               PROVE  Position(r) < next
    BY DEF Behind
  <2>1. Position(r) < request.skip
    BY <1>1, <1>2, <1>3, <1>4
  <2> QED
    BY <1>1, <1>2, <1>4, <2>1 DEF AtLeast
<1>7. items \cap seen \subseteq Returning
  <2>1. \A r \in items : r \in table /\ ~(Position(r) < next)
    BY <1>1, <1>2, <1>3, <1>4
  <2> QED
    BY <2>1 DEF Returning, Behind
<1>8. Returning' \subseteq Returning \ (items \cap seen)
  <2>1. Returning' = ((seen \cup items) \cap table) \ Behind(next)'
    BY <1>1 DEF Returning
  <2>2. items \subseteq Behind(next)'
    BY <1>3, <1>5
  <2>3. Behind(next) \subseteq Behind(next)'
    <3>1. \A r : Position(r) < next => Position(r) < next'
      BY <1>2, <1>4
    <3> QED
      BY <3>1, <1>5 DEF Behind
  <2> QED
    BY <2>1, <2>2, <2>3 DEF Returning
<1>9. Missed' \subseteq Missed /\ PushedOut' = {}
  BY <1>1, <1>5, <1>6 DEF Missed, PushedOut, Counted
<1>10. done' => stayed' \ seen' \subseteq Missed \cup PushedOut
  <2> SUFFICES ASSUME next' >= request.total, NEW r \in stayed, r \notin seen, r \notin items,
                      r \notin PushedOut
               PROVE  r \in Missed
    BY <1>1
  <2>1. r \in table /\ Position(r) < request.total
    BY <1>1 DEF PushedOut, Behind, TypeOK
  <2>2. Position(r) < next'
    BY <1>1, <1>2, <1>4, <2>1
  <2> QED
    BY <1>6, <2>1, <2>2 DEF Missed
<1>11. /\ IsFiniteSet(Missed) /\ IsFiniteSet(PushedOut) /\ IsFiniteSet(Returning)
       /\ IsFiniteSet(Missed') /\ IsFiniteSet(Returning') /\ IsFiniteSet(items \cap seen)
       /\ IsFiniteSet(stayed' \ seen')
  BY <1>1, <1>7, <1>8, <1>9, PartsAreFinite, FS_Subset, FS_Difference
<1>12. Cardinality(items \cap seen) + Cardinality(Returning') <= Cardinality(Returning)
  BY <1>7, <1>8, <1>11, PartsAddUp
<1>13. Cardinality(Missed') <= Cardinality(Missed) /\ Cardinality(PushedOut') = 0
  BY <1>9, <1>11, NoLarger, FS_EmptySet
<1>14. done' => Cardinality(stayed' \ seen') <= Cardinality(Missed) + Cardinality(PushedOut)
  BY <1>10, <1>11, UnionAddsAtMost
<1>15. /\ Cardinality(Missed) \in Nat /\ Cardinality(PushedOut) \in Nat
       /\ Cardinality(Returning) \in Nat /\ Cardinality(Missed') \in Nat
       /\ Cardinality(Returning') \in Nat /\ Cardinality(items \cap seen) \in Nat
       /\ Cardinality(stayed' \ seen') \in Nat /\ repeats \in Nat /\ churn \in Nat
  BY <1>1, <1>11, SizeType DEF TypeOK
<1>16. /\ repeats + Cardinality(Returning) <= churn
       /\ Cardinality(Missed) + Cardinality(PushedOut) <= churn
  BY DEF IInv, ChangesPayForLosses
<1>17. /\ repeats' + Cardinality(Returning') <= churn
       /\ Cardinality(Missed') + Cardinality(PushedOut') <= churn
       /\ done' => Cardinality(stayed' \ seen') <= churn
  BY <1>12, <1>13, <1>14, <1>15, <1>16
<1> QED
  BY <1>1, <1>17 DEF ChangesPayForLosses

LEMMA PageAddsUp ==
  ASSUME IInv, NEW items \in Pages(request.skip, request.limit), Page,
         answer' = [skip |-> request.skip, limit |-> request.limit,
                    total |-> request.total, items |-> Cardinality(items),
                    straddled |-> straddled]
  PROVE  answer' \in Answer /\ AnswerAddsUp'
<1>1. /\ request.skip \in Nat /\ request.limit \in Nat \ {0} /\ request.limit <= MAX_LIMIT
      /\ request.total \in Nat /\ straddled \in Nat /\ TypeOK /\ Counted
  BY PageStep DEF TypeOK
<1>2. /\ IsFiniteSet(items)
      /\ Cardinality(items) = AtMost(request.limit, AtLeast(Cardinality(table) - request.skip, 0))
  BY <1>1, SizeOfPage
<1>3. Cardinality(items) \in Nat /\ Cardinality(table) \in Nat
  BY <1>1, <1>2, SizeType, PartsAreFinite
<1>4. answer' \in Answer
  BY <1>1, <1>3, LimitsAssumption DEF Answer
<1>5. Cardinality(table) - request.total \in -straddled .. straddled
  BY <1>1 DEF IInv, CountIsRecent
<1>6. Cardinality(items) - AtMost(request.limit, AtLeast(request.total - request.skip, 0))
        \in -straddled .. straddled
  BY <1>1, <1>2, <1>3, <1>5 DEF AtMost, AtLeast
<1> QED
  BY <1>4, <1>6 DEF AnswerAddsUp

LEMMA PageKeepsIInv ==
  ASSUME IInv, Page PROVE IInv'
<1>1. PICK items \in Pages(request.skip, request.limit) :
        /\ answer' = [skip |-> request.skip, limit |-> request.limit,
                      total |-> request.total, items |-> Cardinality(items),
                      straddled |-> straddled]
        /\ seen' = seen \cup items
        /\ repeats' = repeats + Cardinality(items \cap seen)
  BY DEF Page
<1>2. answer' \in Answer /\ AnswerAddsUp'
  BY <1>1, PageAddsUp
<1>3. ChangesPayForLosses'
  BY <1>1, PageKeepsPay
<1>4. ~Counted' /\ request' = None
  BY PageStep DEF Counted
<1>5. TypeOK'
  <2>1. TypeOK /\ items \subseteq table /\ IsFiniteSet(items \cap seen)
    BY PageStep, PagesAreOfTheTable, TableIsFinite, FS_Subset
  <2>2. repeats' \in Nat /\ seen' \subseteq Rows \ unborn
    BY <1>1, <2>1, SizeType DEF TypeOK
  <2>3. next' \in Int /\ done' \in BOOLEAN /\ straddled' \in Nat
    BY PageStep
  <2> QED
    BY PageStep, <1>2, <1>4, <2>2, <2>3 DEF TypeOK
<1> QED
  BY <1>2, <1>3, <1>4, <1>5 DEF IInv, RequestFollows, CountIsRecent

-----------------------------------------------------------------------------
LEMMA GrowsWithChurn ==
  ASSUME NEW S, NEW T, NEW moved \in BOOLEAN, IsFiniteSet(S),
         \E y : T \subseteq S \cup {y}, ~moved => T \subseteq S
  PROVE  Cardinality(T) <= Cardinality(S) + IF moved THEN 1 ELSE 0
<1>1. CASE moved
  BY <1>1, OneLargerAtMost
<1>2. CASE ~moved
  <2>1. Cardinality(T) <= Cardinality(S) /\ IsFiniteSet(T)
    BY <1>2, NoLarger
  <2>2. Cardinality(T) \in Nat /\ Cardinality(S) \in Nat
    BY <2>1, SizeType
  <2> QED
    BY <1>2, <2>1, <2>2
<1> QED
  BY <1>1, <1>2

LEMMA ChangeStep ==
  ASSUME TypeOK, NEW r, Changed(r)
  PROVE  /\ UNCHANGED <<ordered, request, next, seen, done, answer, repeats>>
         /\ churn' = churn + IF Moves(r) THEN 1 ELSE 0
         /\ straddled' = IF Counted THEN straddled + 1 ELSE 0
         /\ churn' \in Nat /\ straddled' \in Nat
         /\ Counted' = Counted /\ Moves(r) \in BOOLEAN
BY DEF TypeOK, Changed, walk, Counted, Moves

LEMMA InsertKeepsPay ==
  ASSUME IInv, TypeOK', NEW r \in unborn, Insert(r) PROVE ChangesPayForLosses'
<1> SUFFICES ASSUME ordered PROVE ChangesPayForLosses'
  BY ChangeStep DEF ChangesPayForLosses, Insert, IInv
<1>1. /\ TypeOK /\ table' = table \cup {r} /\ stayed' = stayed
      /\ r \notin seen /\ r \notin stayed /\ stayed \subseteq table
      /\ next \in Int /\ churn \in Nat /\ repeats \in Nat
  BY DEF IInv, TypeOK, Insert
<1>2. /\ UNCHANGED <<ordered, request, next, seen, done, repeats>>
      /\ churn' = churn + IF Moves(r) THEN 1 ELSE 0
      /\ Counted' = Counted /\ Moves(r) \in BOOLEAN
  BY <1>1, ChangeStep DEF Insert
<1>3. Missed' \subseteq Missed
  <2>1. Behind(next)' \cap table \subseteq Behind(next)
    BY <1>1, <1>2, InsertionPushesOne
  <2> QED
    BY <1>1, <1>2, <2>1 DEF Missed
<1>4. (\E y : Returning' \subseteq Returning \cup {y}) /\ (~Moves(r) => Returning' \subseteq Returning)
  <2>1. /\ \E y : Behind(next) \subseteq Behind(next)' \cup {y}
        /\ ~Moves(r) => Behind(next) \subseteq Behind(next)'
    BY <1>1, <1>2, InsertionPushesOne
  <2> QED
    BY <1>1, <1>2, <2>1 DEF Returning
<1>5. (\E y : PushedOut' \subseteq PushedOut \cup {y}) /\ (~Moves(r) => PushedOut' \subseteq PushedOut)
  <2>1. CASE Counted
    <3>1. request.total \in Int
      BY <1>1, <2>1, RowsAreFinite DEF TypeOK, Request, NotCounted, Counted
    <3>2. /\ \E y : Behind(request.total) \subseteq Behind(request.total)' \cup {y}
          /\ ~Moves(r) => Behind(request.total) \subseteq Behind(request.total)'
      BY <1>1, <1>2, <3>1, InsertionPushesOne
    <3> QED
      BY <1>1, <1>2, <2>1, <3>2 DEF PushedOut
  <2>2. CASE ~Counted
    BY <1>2, <2>2 DEF PushedOut
  <2> QED
    BY <2>1, <2>2
<1>6. /\ IsFiniteSet(Missed) /\ IsFiniteSet(PushedOut) /\ IsFiniteSet(Returning)
      /\ IsFiniteSet(Missed') /\ IsFiniteSet(PushedOut') /\ IsFiniteSet(Returning')
      /\ IsFiniteSet(stayed \ seen)
  BY <1>1, <1>3, <1>4, <1>5, PartsAreFinite, NoLarger, OneLargerAtMost, FS_Difference
<1>7. /\ Cardinality(Missed') <= Cardinality(Missed)
      /\ Cardinality(Returning') <= Cardinality(Returning) + IF Moves(r) THEN 1 ELSE 0
      /\ Cardinality(PushedOut') <= Cardinality(PushedOut) + IF Moves(r) THEN 1 ELSE 0
  BY <1>2, <1>3, <1>4, <1>5, <1>6, NoLarger, GrowsWithChurn
<1>8. /\ Cardinality(Missed) \in Nat /\ Cardinality(PushedOut) \in Nat
      /\ Cardinality(Returning) \in Nat /\ Cardinality(Missed') \in Nat
      /\ Cardinality(Returning') \in Nat /\ Cardinality(PushedOut') \in Nat
      /\ Cardinality(stayed \ seen) \in Nat
  BY <1>6, SizeType
<1>9. /\ repeats + Cardinality(Returning) <= churn
      /\ Cardinality(Missed) + Cardinality(PushedOut) <= churn
      /\ done => Cardinality(stayed \ seen) <= churn
  BY DEF IInv, ChangesPayForLosses
<1>10. /\ repeats + Cardinality(Returning') <= churn'
       /\ Cardinality(Missed') + Cardinality(PushedOut') <= churn'
       /\ done => Cardinality(stayed \ seen) <= churn'
  BY <1>1, <1>2, <1>7, <1>8, <1>9
<1> QED
  BY <1>1, <1>2, <1>10 DEF ChangesPayForLosses

LEMMA DeleteKeepsPay ==
  ASSUME IInv, TypeOK', NEW r \in table, Delete(r) PROVE ChangesPayForLosses'
<1> SUFFICES ASSUME ordered PROVE ChangesPayForLosses'
  BY ChangeStep DEF ChangesPayForLosses, Delete, IInv
<1>1. /\ TypeOK /\ table' = table \ {r} /\ stayed' = stayed \ {r}
      /\ stayed \subseteq table /\ stayed' \subseteq table'
      /\ next \in Int /\ churn \in Nat /\ repeats \in Nat
  BY DEF IInv, TypeOK, Delete
<1>2. /\ UNCHANGED <<ordered, request, next, seen, done, repeats>>
      /\ churn' = churn + IF Moves(r) THEN 1 ELSE 0
      /\ Counted' = Counted /\ Moves(r) \in BOOLEAN
  BY <1>1, ChangeStep DEF Delete
<1>3. (\E y : Missed' \subseteq Missed \cup {y}) /\ (~Moves(r) => Missed' \subseteq Missed)
  <2>1. /\ \E y : Behind(next)' \subseteq Behind(next) \cup {y}
        /\ ~Moves(r) => Behind(next)' \subseteq Behind(next)
    BY <1>1, <1>2, DeletionPullsOne
  <2> QED
    BY <1>1, <1>2, <2>1 DEF Missed
<1>4. Returning' \subseteq Returning
  <2>1. Behind(next) \cap table' \subseteq Behind(next)'
    BY <1>1, <1>2, DeletionPullsOne
  <2> QED
    BY <1>1, <1>2, <2>1 DEF Returning
<1>5. PushedOut' \subseteq PushedOut
  <2>1. CASE Counted
    <3>1. request.total \in Int
      BY <1>1, <2>1, RowsAreFinite DEF TypeOK, Request, NotCounted, Counted
    <3>2. Behind(request.total) \cap table' \subseteq Behind(request.total)'
      BY <1>1, <1>2, <3>1, DeletionPullsOne
    <3> QED
      BY <1>1, <1>2, <2>1, <3>2 DEF PushedOut
  <2>2. CASE ~Counted
    BY <1>2, <2>2 DEF PushedOut
  <2> QED
    BY <2>1, <2>2
<1>6. /\ IsFiniteSet(Missed) /\ IsFiniteSet(PushedOut) /\ IsFiniteSet(Returning)
      /\ IsFiniteSet(Missed') /\ IsFiniteSet(PushedOut') /\ IsFiniteSet(Returning')
      /\ IsFiniteSet(stayed \ seen) /\ stayed' \ seen \subseteq stayed \ seen
  BY <1>1, <1>3, <1>4, <1>5, PartsAreFinite, NoLarger, OneLargerAtMost, FS_Difference
<1>7. /\ Cardinality(Missed') <= Cardinality(Missed) + IF Moves(r) THEN 1 ELSE 0
      /\ Cardinality(Returning') <= Cardinality(Returning)
      /\ Cardinality(PushedOut') <= Cardinality(PushedOut)
      /\ Cardinality(stayed' \ seen) <= Cardinality(stayed \ seen)
      /\ IsFiniteSet(stayed' \ seen)
  BY <1>2, <1>3, <1>4, <1>5, <1>6, NoLarger, GrowsWithChurn
<1>8. /\ Cardinality(Missed) \in Nat /\ Cardinality(PushedOut) \in Nat
      /\ Cardinality(Returning) \in Nat /\ Cardinality(Missed') \in Nat
      /\ Cardinality(Returning') \in Nat /\ Cardinality(PushedOut') \in Nat
      /\ Cardinality(stayed \ seen) \in Nat /\ Cardinality(stayed' \ seen) \in Nat
  BY <1>6, <1>7, SizeType
<1>9. /\ repeats + Cardinality(Returning) <= churn
      /\ Cardinality(Missed) + Cardinality(PushedOut) <= churn
      /\ done => Cardinality(stayed \ seen) <= churn
  BY DEF IInv, ChangesPayForLosses
<1>10. /\ repeats + Cardinality(Returning') <= churn'
       /\ Cardinality(Missed') + Cardinality(PushedOut') <= churn'
       /\ done => Cardinality(stayed' \ seen) <= churn'
  BY <1>1, <1>2, <1>7, <1>8, <1>9
<1> QED
  BY <1>1, <1>2, <1>10 DEF ChangesPayForLosses

LEMMA ChangeKeepsCount ==
  ASSUME IInv, NEW r, Changed(r),
         (r \notin table /\ table' = table \cup {r}) \/ (r \in table /\ table' = table \ {r})
  PROVE  CountIsRecent'
<1> SUFFICES ASSUME Counted
             PROVE  Cardinality(table') - request.total \in -straddled' .. straddled'
  BY ChangeStep DEF CountIsRecent, IInv
<1>1. TypeOK /\ straddled \in Nat /\ straddled' = straddled + 1 /\ request.total \in Int
  BY ChangeStep, RowsAreFinite DEF IInv, TypeOK, Counted, Request, NotCounted
<1>2. /\ Cardinality(table) \in Nat
      /\ Cardinality(table') = Cardinality(table) + 1 \/ Cardinality(table') = Cardinality(table) - 1
  BY <1>1, TableIsFinite, SizeType, FS_AddElement, FS_RemoveElement
<1>3. Cardinality(table) - request.total \in -straddled .. straddled
  BY DEF IInv, CountIsRecent
<1> QED
  BY <1>1, <1>2, <1>3

LEMMA InsertKeepsIInv ==
  ASSUME IInv, NEW r \in unborn, Insert(r) PROVE IInv'
<1>1. /\ table' = table \cup {r} /\ unborn' = unborn \ {r} /\ stayed' = stayed
      /\ Changed(r) /\ TypeOK /\ r \notin table
  BY DEF Insert, IInv, TypeOK
<1>2. TypeOK' /\ RequestFollows' /\ AnswerAddsUp'
  BY <1>1, ChangeStep DEF TypeOK, RequestFollows, AnswerAddsUp, IInv
<1> QED
  BY <1>1, <1>2, InsertKeepsPay, ChangeKeepsCount DEF IInv

LEMMA DeleteKeepsIInv ==
  ASSUME IInv, NEW r \in table, Delete(r) PROVE IInv'
<1>1. /\ table' = table \ {r} /\ unborn' = unborn /\ stayed' = stayed \ {r}
      /\ Changed(r) /\ TypeOK
  BY DEF Delete, IInv
<1>2. TypeOK' /\ RequestFollows' /\ AnswerAddsUp'
  BY <1>1, ChangeStep DEF TypeOK, RequestFollows, AnswerAddsUp, IInv
<1> QED
  BY <1>1, <1>2, DeleteKeepsPay, ChangeKeepsCount DEF IInv

LEMMA NextIInv == IInv /\ [Next]_vars => IInv'
<1> SUFFICES ASSUME IInv, [Next]_vars PROVE IInv'
  OBVIOUS
<1>1. CASE UNCHANGED vars
  <2>1. UNCHANGED <<ordered, table, unborn, request, next, seen, done, answer,
                    repeats, stayed, churn, straddled>>
    BY <1>1 DEF vars, walk
  <2>2. ChangesPayForLosses'
    BY <2>1, SameWalkSamePay DEF IInv, PushedOut, Counted, Behind, Position
  <2> QED
    BY <2>1, <2>2 DEF IInv, TypeOK, RequestFollows, CountIsRecent, AnswerAddsUp, Counted
<1> QED
  BY <1>1, AskKeepsIInv, CountKeepsIInv, PageKeepsIInv, FailKeepsIInv,
     InsertKeepsIInv, DeleteKeepsIInv DEF Next

(* What an ordered walk has missed and will miss or repeat was moved, each *)
(* row of it by a change of its own, and what is counted is as old as the  *)
(* changes since.                                                          *)
THEOREM WalkInvariant == Spec => []IInv
BY InitIInv, NextIInv, PTL DEF Spec

(* For all rows, limits and failures: an ordered walk misses no more rows  *)
(* that stayed than changes have moved others, and repeats no more.        *)
THEOREM WalkLosesNoMoreThanMoved == Spec => []LossIsBounded
<1>1. IInv => LossIsBounded
  <2> SUFFICES ASSUME IInv, ordered PROVE repeats <= churn
    BY DEF IInv, ChangesPayForLosses, LossIsBounded
  <2>1. Cardinality(Returning) \in Nat /\ repeats \in Nat /\ churn \in Nat
    BY PartsAreFinite, SizeType DEF IInv, TypeOK
  <2> QED
    BY <2>1 DEF IInv, ChangesPayForLosses
<1> QED
  BY <1>1, WalkInvariant, PTL

(* One in which nothing moved gives every row that stayed, and none twice. *)
THEOREM UndisturbedWalkIsExact == Spec => []WalkIsExact
<1>1. IInv => WalkIsExact
  <2> SUFFICES ASSUME IInv, ordered, churn = 0
               PROVE  repeats = 0 /\ (done => stayed \subseteq seen)
    BY DEF WalkIsExact
  <2>1. /\ Cardinality(Returning) \in Nat /\ repeats \in Nat
        /\ IsFiniteSet(stayed \ seen) /\ Cardinality(stayed \ seen) \in Nat
    BY PartsAreFinite, SizeType, FS_Difference DEF IInv, TypeOK
  <2>2. /\ repeats + Cardinality(Returning) <= 0
        /\ done => Cardinality(stayed \ seen) <= 0
    BY DEF IInv, ChangesPayForLosses
  <2>3. repeats = 0 /\ (done => Cardinality(stayed \ seen) = 0)
    BY <2>1, <2>2
  <2>4. Cardinality(stayed \ seen) = 0 => stayed \ seen = {}
    BY <2>1, FS_EmptySet
  <2> QED
    BY <2>3, <2>4
<1> QED
  BY <1>1, WalkInvariant, PTL

(* The items, total, skip and limit of an answer disagree by no more than  *)
(* was committed between its two statements, ordered or not.               *)
THEOREM AnswerIsOffByChanges == Spec => []AnswerAddsUp
<1>1. IInv => AnswerAddsUp
  BY DEF IInv
<1> QED
  BY <1>1, WalkInvariant, PTL

(* A page leads on: the walk is never asked for the same page again, and   *)
(* ends where the rows do.                                                 *)
THEOREM EveryPageLeadsOn == Spec => PagesLeadOn
<1>1. ASSUME IInv, Page PROVE PageLeadsOn
  <2>1. /\ TypeOK /\ request.skip \in Nat /\ request.limit \in Nat \ {0}
        /\ request.total \in Nat /\ request.total <= Cardinality(Rows)
        /\ request.skip = AtLeast(next, 0) /\ next' = request.skip + request.limit
        /\ done' = (next' >= request.total)
    BY <1>1, PageStep
  <2>2. next < next' /\ (next' >= request.total \/ next' < Cardinality(Rows))
    BY <2>1, RowsAreFinite DEF AtLeast, TypeOK
  <2> QED
    BY <2>1, <2>2 DEF PageLeadsOn
<1>2. IInv /\ [Next]_vars => [PageLeadsOn]_vars
  BY <1>1 DEF PageLeadsOn
<1> QED
  BY <1>2, WalkInvariant, PTL DEF Spec, PagesLeadOn
=============================================================================
