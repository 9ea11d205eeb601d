----------------------------- MODULE UserPages -----------------------------
(***************************************************************************)
(* A client pages through the likes of a user (get_user_likes) while other *)
(* requests of the user add and remove likes; all of them draw on the      *)
(* user's bucket in RateLimit.  A row is its place in the order of         *)
(* (created_at, id).  The likes are those of the content type asked for.   *)
(***************************************************************************)
EXTENDS RateLimit, FiniteSets

CONSTANTS
    Places,     \* places a row may have
    MaxSigned,  \* i64::MAX
    PageSizes   \* page sizes that clients ask for, any usize

MaxSize == 2 * MaxSigned + 1    \* usize::MAX

ASSUME PagesAssumption ==
    /\ Places \subseteq Nat
    /\ MaxSigned \in Nat \ {0} /\ PageSizes \subseteq 0..MaxSize

VARIABLES
    rows,    \* the table: the places of the user's likes
    walk,    \* "idle", "on" or "done"
    cursor,  \* the cursor of the next request, NoCursor for none
    served,  \* the pages the client was given in this walk, each a set of rows
    kept,    \* history: the rows that were there during the whole walk
    cut      \* history: whether the walk was ended by a LIMIT of 0

pageVars == <<rows, walk, cursor, served, kept, cut>>
vars == <<rateVars, pageVars>>

NoCursor == -1

PagesInit ==
    /\ RateInit
    /\ rows \in SUBSET Places
    /\ walk = "idle" /\ cursor = NoCursor /\ served = <<>> /\ kept = {}
    /\ cut = FALSE

-----------------------------------------------------------------------------
Begin ==
    /\ walk # "on"
    /\ walk' = "on" /\ cursor' = NoCursor /\ served' = <<>> /\ kept' = rows
    /\ cut' = FALSE
    /\ UNCHANGED <<rateVars, rows>>

\* (created_at, id) < cursor
\* (Mutant: the row of the cursor is included.)
UpTo(c) == {r \in rows : c = NoCursor \/ r <= c}
Below(c) == {r \in rows : c = NoCursor \/ r < c}

\* The LIMIT of the statement, (limit + 1) as i64: in the release build the
\* sum wraps to 0 and the cast makes what i64 cannot hold negative.
Wrapped(n) == (n + 1) % (MaxSize + 1)
AsSigned(m) == IF m > MaxSigned THEN m - (MaxSize + 1) ELSE m
SqlLimit(n) == AsSigned(Wrapped(n))

\* LIMIT n + 1 finds no more than n rows: the last page, without a cursor.
\* LIMIT 0 finds none, which looks the same.
LastPage(n) ==
    /\ \/ SqlLimit(n) > 0 /\ Cardinality(Below(cursor)) <= n
       \/ SqlLimit(n) = 0
    /\ walk' = "done" /\ cursor' = NoCursor
    /\ cut' = (SqlLimit(n) = 0)
    /\ served' = Append(served, IF SqlLimit(n) = 0 THEN {} ELSE Below(cursor))

\* The cursor of the next page is the last row of this one.
\* (Mutant: the row fetched beyond it.)
RowBeyond(r) == CHOOSE q \in Below(r) : \A p \in Below(r) : p <= q
NextCursor(r) == r

FullPage(n) ==
    /\ SqlLimit(n) > 0
    /\ Cardinality(Below(cursor)) > n
    /\ \E r \in Below(cursor) :
         LET items == {q \in Below(cursor) : q >= r} IN
           /\ Cardinality(items) = n
           /\ served' = Append(served, items)
           /\ cursor' = NextCursor(r)
    /\ UNCHANGED <<walk, cut>>

\* A page of size 0 has no last row, limit - 1 underflows: the handler
\* panics if there are rows left, and the client gets no answer.
NoAnswer(n) ==
    /\ n = 0 /\ Below(cursor) # {}
    /\ UNCHANGED <<walk, cursor, served, cut>>

\* Postgres answers a negative LIMIT with an error, and the handler with 500.
LimitRefused(n) ==
    /\ SqlLimit(n) < 0
    /\ UNCHANGED <<walk, cursor, served, cut>>

Page(n) ==
    /\ walk = "on" /\ Passes
    /\ LastPage(n) \/ FullPage(n) \/ NoAnswer(n) \/ LimitRefused(n)
    /\ UNCHANGED <<rows, kept>>

\* created_at is read before the row is inserted: it need not be the newest.
Like(r) ==
    /\ r \notin rows /\ Passes
    /\ rows' = rows \cup {r}
    /\ UNCHANGED <<walk, cursor, served, kept, cut>>

Unlike(r) ==
    /\ r \in rows /\ Passes
    /\ rows' = rows \ {r}
    /\ kept' = kept \ {r}
    /\ UNCHANGED <<walk, cursor, served, cut>>

\* 429: the client keeps its cursor.
TooMany == Rejected /\ UNCHANGED pageVars

Limiter == (Expire \/ Forget \/ Tick) /\ UNCHANGED pageVars

PagesNext ==
    \/ Begin \/ TooMany \/ Limiter
    \/ \E n \in PageSizes : Page(n)
    \/ \E r \in Places : Like(r) \/ Unlike(r)

PagesSpec == PagesInit /\ [][PagesNext]_vars

-----------------------------------------------------------------------------
PagesTypeOK ==
    /\ RateTypeOK
    /\ rows \in SUBSET Places
    /\ walk \in {"idle", "on", "done"}
    /\ cursor \in Places \cup {NoCursor}
    /\ served \in Seq(SUBSET Places)
    /\ kept \in SUBSET rows
    /\ cut \in BOOLEAN

(***************************************************************************)
(* A client is given rows from the newest to the oldest and none of them   *)
(* twice, whatever is liked and unliked between two pages, the row of its  *)
(* cursor included, and whatever sizes it asks for.                        *)
(***************************************************************************)
NoRowTwice ==
    \A i, j \in 1..Len(served) :
        i < j => \A r \in served[i], q \in served[j] : q < r

(***************************************************************************)
(* A walk skips no row that was there all the time: such a row has been    *)
(* served or is still below the cursor, and has been served at the end,    *)
(* whatever page sizes were asked for and refused on the way, unless the   *)
(* walk ends with the one size whose limit + 1 wraps to 0.                 *)
(***************************************************************************)
GivenOut(r) == \E i \in 1..Len(served) : r \in served[i]

NothingSkipped ==
    walk # "idle" /\ ~cut =>
        \A r \in kept : GivenOut(r) \/ (walk = "on" /\ r \in Below(cursor))
=============================================================================
