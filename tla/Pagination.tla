----------------------------- MODULE Pagination -----------------------------
(***************************************************************************)
(* pagination.py: a client walks through the pages of a listing while      *)
(* others insert and delete rows.  paginate counts and then reads the page *)
(* in two statements of a read-committed transaction, so each sees what is *)
(* committed by then.  The client starts before the first row or at it,    *)
(* asks for any limit, goes on by the skip and limit of the answer, stops  *)
(* where the total ends and asks again when a request fails.               *)
(*                                                                         *)
(* A row is the number it is sorted by.  A statement without ORDER BY, as  *)
(* in the module's own example, gets its page in any order there is.       *)
(***************************************************************************)
EXTENDS Integers, FiniteSets

CONSTANTS Rows,        \* the sort keys of rows that may ever be listed
          Limits,      \* the limits the client asks for
          MAX_LIMIT,   \* the longest page
          None         \* no request, no answer

ASSUME RowsAssumption == Rows \subseteq Int /\ IsFiniteSet(Rows)
ASSUME LimitsAssumption == Limits \subseteq Int /\ MAX_LIMIT \in Nat \ {0}

VARIABLES ordered,    \* does the statement say ORDER BY
          table,      \* the rows the statement selects, as committed
          unborn,     \* the rows that have not been inserted yet
          request,    \* the request under way: its skip, limit and total
          next,       \* client: the skip of the next request
          seen,       \* client: the rows it was given
          done,       \* client: it has reached the total
          answer,     \* the latest answer, and the changes it straddled
          stayed,     \* history: the rows listed since the walk began
          churn,      \* history: the changes that moved another row
          straddled,  \* history: the changes since the request's count
          repeats     \* history: how often a row was given again

walk == <<next, seen, done, answer, repeats>>
vars == <<ordered, table, unborn, request, walk, stayed, churn, straddled>>

NotCounted == -1
AtMost(a, b) == IF a < b THEN a ELSE b
AtLeast(a, b) == IF a > b THEN a ELSE b
-----------------------------------------------------------------------------
(* Fault: a limit of 0 is left to the database.                            *)
ParamsOfAnyLowLimit(skip, limit) ==
  [skip |-> AtLeast(skip, 0), limit |-> AtMost(AtLeast(limit, 0), MAX_LIMIT)]

PaginationParams(skip, limit) ==
  [skip |-> AtLeast(skip, 0), limit |-> AtMost(AtLeast(limit, 1), MAX_LIMIT)]

Position(r) == Cardinality({q \in table : q < r})

(* Fault: a page begins behind the row it should begin with.               *)
PagesBehind(skip, limit) ==
  {{r \in table : skip < Position(r) /\ Position(r) <= skip + limit}}

(* Fault: the last row of a full page is dropped, as by a look-ahead.      *)
PagesShort(skip, limit) ==
  {{r \in table : skip <= Position(r) /\ Position(r) < skip + AtMost(limit, MAX_LIMIT - 1)}}

(* What offset and limit may make of the statement.                        *)
Pages(skip, limit) ==
  IF ordered
  THEN {{r \in table : skip <= Position(r) /\ Position(r) < skip + limit}}
  ELSE {page \in SUBSET table :
          Cardinality(page) = AtMost(limit, AtLeast(Cardinality(table) - skip, 0))}

(* Fault: the rows are counted behind the offset.                          *)
CountBehindOffset(skip) == AtLeast(Cardinality(table) - skip, 0)

(* select(func.count()) over the statement, wherever the page begins.       *)
Total(skip) == Cardinality(table)
-----------------------------------------------------------------------------
Init ==
  /\ ordered \in BOOLEAN
  /\ table \in SUBSET Rows /\ unborn = Rows \ table /\ stayed = table
  /\ next \in {-1, 0} /\ seen = {} /\ done = FALSE
  /\ request = None /\ answer = None
  /\ churn = 0 /\ straddled = 0 /\ repeats = 0

Counted == request # None /\ request.total # NotCounted

Ask(limit) ==
  /\ request = None /\ ~done
  /\ LET p == PaginationParams(next, limit)
     IN request' = [skip |-> p.skip, limit |-> p.limit, total |-> NotCounted]
  /\ UNCHANGED <<ordered, table, unborn, walk, stayed, churn, straddled>>

(* paginate's first statement.                                             *)
Count ==
  /\ request # None /\ ~Counted
  /\ request' = [request EXCEPT !.total = Total(request.skip)]
  /\ UNCHANGED <<ordered, table, unborn, walk, stayed, churn, straddled>>

(* paginate's second statement, its answer, and what the client does then. *)
Page ==
  /\ Counted
  /\ \E items \in Pages(request.skip, request.limit) :
       /\ answer' = [skip |-> request.skip, limit |-> request.limit,
                     total |-> request.total, items |-> Cardinality(items),
                     straddled |-> straddled]
       /\ seen' = seen \cup items
       /\ repeats' = repeats + Cardinality(items \cap seen)
  /\ next' = request.skip + request.limit
  /\ done' = (next' >= request.total)
  /\ request' = None /\ straddled' = 0
  /\ UNCHANGED <<ordered, table, unborn, stayed, churn>>

(* A statement fails, a row does not convert, or the answer is lost.       *)
Fail ==
  /\ request # None
  /\ request' = None /\ straddled' = 0
  /\ UNCHANGED <<ordered, table, unborn, walk, stayed, churn>>

Moves(r) == \E q \in table : r < q

Changed(r) ==
  /\ churn' = IF Moves(r) THEN churn + 1 ELSE churn
  /\ straddled' = IF Counted THEN straddled + 1 ELSE 0
  /\ UNCHANGED <<ordered, request, walk>>

Insert(r) ==
  /\ table' = table \cup {r} /\ unborn' = unborn \ {r}
  /\ Changed(r) /\ UNCHANGED stayed

Delete(r) ==
  /\ table' = table \ {r} /\ stayed' = stayed \ {r}
  /\ Changed(r) /\ UNCHANGED unborn

Next == \/ \E limit \in Limits : Ask(limit)
        \/ Count \/ Page \/ Fail
        \/ \E r \in unborn : Insert(r)
        \/ \E r \in table : Delete(r)

Spec == Init /\ [][Next]_vars

(* The client asks, a request is worked on, and not every one fails.       *)
FairSpec == /\ Spec
            /\ WF_vars(\E limit \in Limits : Ask(limit))
            /\ SF_vars(Count) /\ SF_vars(Page)
-----------------------------------------------------------------------------
Request == [skip : Nat, limit : 1 .. MAX_LIMIT, total : NotCounted .. Cardinality(Rows)]
Answer  == [skip : Nat, limit : 1 .. MAX_LIMIT, total : Nat, items : Nat,
            straddled : Nat]

TypeOK ==
  /\ ordered \in BOOLEAN /\ done \in BOOLEAN
  /\ unborn \subseteq Rows /\ table \subseteq Rows \ unborn
  /\ seen \subseteq Rows \ unborn /\ stayed \subseteq table
  /\ request = None \/ request \in Request
  /\ answer = None \/ answer \in Answer
  /\ next \in Int /\ churn \in Nat /\ straddled \in Nat /\ repeats \in Nat

(* An ordered walk in which nothing moved gives every row that was listed  *)
(* all the time, and none twice, whatever limits it asked for, however     *)
(* requests failed, and whatever was appended or cut off at the end.       *)
WalkIsExact ==
  ordered /\ churn = 0 => repeats = 0 /\ (done => stayed \subseteq seen)

(* By a change that moves rows an ordered walk misses one row at most and  *)
(* is given one again at most, be it between pages or between the two      *)
(* statements of one, where an insertion can do both.                      *)
LossIsBounded ==
  ordered => /\ repeats <= churn
             /\ done => Cardinality(stayed \ seen) <= churn

(* total, skip, limit and items of an answer contradict each other by no   *)
(* more than was committed between the two statements.                     *)
AnswerAddsUp ==
  answer # None =>
    LET due == AtMost(answer.limit, AtLeast(answer.total - answer.skip, 0))
    IN answer.items - due \in -answer.straddled .. answer.straddled

(* Every page takes a walk further, whatever limit it asks for, and a walk *)
(* that has come past the number of rows there may ever be has ended.      *)
PageLeadsOn == Page => next < next' /\ (done' \/ next' < Cardinality(Rows))
PagesLeadOn == [][PageLeadsOn]_vars

(* A walk ends, whatever limits it asks for.                               *)
EveryWalkEnds == <>done
-----------------------------------------------------------------------------
(* The inductive invariant behind the properties above.                    *)

Behind(n) == {r \in table : Position(r) < n}

(* What an ordered walk has lost and will repeat, as the changes so far    *)
(* left it: rows behind the client's place that it was never given, rows   *)
(* before it that it was given, and, once the total is counted, rows that  *)
(* were moved past it.                                                     *)
Missed    == (Behind(next) \cap stayed) \ seen
Returning == (seen \cap table) \ Behind(next)
PushedOut == IF Counted THEN stayed \ Behind(request.total) ELSE {}

(* Each of them was moved by a change of its own.                          *)
ChangesPayForLosses ==
  ordered =>
    /\ repeats + Cardinality(Returning) <= churn
    /\ Cardinality(Missed) + Cardinality(PushedOut) <= churn
    /\ done => Cardinality(stayed \ seen) <= churn

(* The count is off by no more than the changes since.                     *)
CountIsRecent ==
  Counted => Cardinality(table) - request.total \in -straddled .. straddled

RequestFollows ==
  request # None => request.skip = AtLeast(next, 0)

IInv == /\ TypeOK /\ RequestFollows
        /\ ChangesPayForLosses /\ CountIsRecent /\ AnswerAddsUp
=============================================================================
