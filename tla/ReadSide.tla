------------------------------- MODULE ReadSide -------------------------------
(****************************************************************************)
(* The read side of the service: GET /runs page by page, GET /runs/{id},    *)
(* GET /runs/{id}/trace and GET /summary, while runs are posted, imported,  *)
(* claimed, given back and landed.                                          *)
(*                                                                          *)
(* The handlers read in autocommit, so every statement sees the tables of   *)
(* its own moment: a page is read in two statements, a run in two, a trace  *)
(* in four.  The writers are seen through what they commit; a run lands     *)
(* with its children in one transaction, or is marked failed without any.   *)
(* One client asks one question per behaviour.  The arm and the model of a  *)
(* question only narrow the rows it can meet and are left out.              *)
(****************************************************************************)
EXTENDS Integers, Sequences, FiniteSets, Functions

CONSTANTS
    Null,
    Ids,         \* run ids, in the order of Postgres
    Times,       \* values of created_at
    CardOf,      \* per id, the card of the run
    Limit,       \* the limit parameter of GET /runs
    MaxMeanwhile \* bound: commits of writers while the request is answered

ASSUME ReadSideAssumption ==
    /\ Ids \subseteq Nat /\ IsFiniteSet(Ids) /\ Times \subseteq Nat
    /\ DOMAIN CardOf = Ids
    /\ Limit \in Nat \ {0} /\ MaxMeanwhile \in Nat

VARIABLES
    runs,      \* per id, its row or Null
    children,  \* per id, the tables that hold rows of the run
    req,       \* the client's request
    pages,     \* what was given so far; of a list, page by page.  A page is the
               \* set of its runs: ORDER BY puts them in their only order
    seen,      \* history: the rows the request is about, as it found them;
               \* of a list with a filter, those that match it all the time
    meanwhile  \* commits of writers since the request began

vars == <<runs, children, req, pages, seen, meanwhile>>

Tables == {"grades", "steps", "model_calls", "tool_calls"}
Finished == {"succeeded", "failed"}

\* A row; `batch` tells that its artefact lies in one of the directories a
\* published pick names.
Rows == [id : Ids, at : Times, card : Range(CardOf), batch : BOOLEAN,
         status : {"queued", "running"} \cup Finished]

ASSUME NullApart == Null \notin Rows \cup Finished \cup {"queued", "running"}

\* A run as a reply shows it: its row and the child tables found for it.
Shown == [row : Rows, of : SUBSET Tables]

(* -------------------------------- requests ----------------------------- *)

Kinds == {"list", "run", "trace", "latest", "run_ids", "published"}

\* After the first statement of `kind` come those of the tables in `todo`;
\* `got` are the runs in hand.  Of a list, `status` is the filter and `cursor`
\* the position; of the others `ids` are the runs asked for, and `left` those
\* the loop of compute() has not come to.
Idle == [pc |-> "idle", kind |-> "list", status |-> Null, cursor |-> Null,
         ids |-> {}, todo |-> <<>>, got |-> {}, left |-> {}]

\* The child tables a handler reads after the row, in its order.
ReadsStepsLast(kind) ==
    CASE kind \in {"list", "run"} -> <<"grades">>
      [] kind = "trace"           -> <<"model_calls", "tool_calls", "steps">>
      [] OTHER                    -> <<>>

Reads(kind) ==
    CASE kind \in {"list", "run"} -> <<"grades">>
      [] kind = "trace"           -> <<"steps", "model_calls", "tool_calls">>
      [] OTHER                    -> <<>>

Present == {i \in Ids : runs[i] # Null}
Table   == {runs[i] : i \in Present}

(* ------------------------------- statements ---------------------------- *)

\* ORDER BY created_at DESC, run_id DESC, and the row-value comparison.
Newer(r, s) == r.at > s.at \/ (r.at = s.at /\ r.id > s.id)

Matching(status) == {r \in Table : status = Null \/ r.status = status}

BelowTime(status, cursor) ==
    {r \in Matching(status) : cursor = Null \/ r.at < cursor.at}
FromCursor(status, cursor) ==
    {r \in Matching(status) : cursor = Null \/ ~Newer(r, cursor)}
BelowCursor(status, cursor) ==
    {r \in Matching(status) : cursor = Null \/ Newer(cursor, r)}

\* ORDER BY ... LIMIT n.
Limited(rows, n) ==
    CHOOSE top \in SUBSET rows :
      /\ Cardinality(top) = IF Cardinality(rows) < n THEN Cardinality(rows) ELSE n
      /\ \A r \in top, s \in rows \ top : Newer(r, s)

\* LIMIT limit + 1; the extra row only tells that there is a next page.
Fetched(status, cursor) == Limited(BelowCursor(status, cursor), Limit + 1)

Page(rows) == Limited(rows, Limit)

Oldest(rows) == CHOOSE r \in rows : \A s \in rows : ~Newer(r, s)

NextCursor(rows) == IF Cardinality(rows) > Limit THEN Oldest(Page(rows)) ELSE Null

\* SELECT DISTINCT ON (card_id) ... ORDER BY card_id, created_at DESC, run_id
\* DESC: of each card the first row in the order.
DistinctOn(rows) == {r \in rows : \A s \in rows : s.card = r.card => ~Newer(s, r)}

Succeeded(rows) == {r \in rows : r.status = "succeeded"}

LatestPerCard == DistinctOn(Succeeded(Table))

\* Failed runs of the batch count too, queued and running ones never.
InBatch(rows) == {r \in rows : r.batch /\ r.status \in Finished}

\* The loop of compute() over an explicit list: a run takes the place of the
\* one chosen before it for the card when it is newer.
OutdoneByTime(r, s) == r.at > s.at
Outdone(r, s) == Newer(r, s)

Choose(chosen, r) ==
    LET prev == {x \in chosen : x.row.card = r.card}
    IN  IF r.status # "succeeded" \/ \E x \in prev : ~Outdone(r, x.row) THEN chosen
        ELSE (chosen \ prev) \cup {[row |-> r, of |-> {}]}

(* -------------------------------- writers ------------------------------ *)

\* POST /runs; created_at of a concurrent transaction need not be the latest.
Post(i, at) ==
    /\ runs[i] = Null
    /\ runs' = [runs EXCEPT ![i] = [id |-> i, at |-> at, card |-> CardOf[i],
                                    batch |-> FALSE, status |-> "queued"]]
    /\ UNCHANGED <<children, req, pages, seen>>

\* A reimported run: row, grade and the rest of its bundle in one transaction.
Import(i, at, status) ==
    /\ runs[i] = Null
    /\ runs' = [runs EXCEPT ![i] = [id |-> i, at |-> at, card |-> CardOf[i],
                                    batch |-> TRUE, status |-> status]]
    /\ children' = [children EXCEPT ![i] = Tables]
    /\ UNCHANGED <<req, pages, seen>>

Becomes(i, from, to) ==
    /\ runs[i] # Null /\ runs[i].status = from
    /\ runs' = [runs EXCEPT ![i].status = to]
    /\ seen' = IF req.status = Null THEN seen ELSE {r \in seen : r.id # i}
    /\ UNCHANGED <<req, pages>>

Claim(i)   == Becomes(i, "queued", "running") /\ UNCHANGED children
Requeue(i) == Becomes(i, "running", "queued") /\ UNCHANGED children

\* finish_run(): children of an earlier attempt go, the row and the new
\* children come, all at once.
Land(i, status) ==
    /\ Becomes(i, "running", status)
    /\ children' = [children EXCEPT ![i] = Tables]

\* ... and as the fallback of execute() calls it, with no children.
LandEmpty(i) ==
    /\ Becomes(i, "running", "failed")
    /\ children' = [children EXCEPT ![i] = {}]

(* -------------------------------- handlers ----------------------------- *)

Begin(kind, status, ids) ==
    /\ req.pc = "idle"
    /\ req' = [Idle EXCEPT !.pc = "rows", !.kind = kind, !.status = status, !.ids = ids]
    /\ seen' = IF kind = "list" THEN Matching(status)
               ELSE {r \in Table : r.id \in ids}
    /\ UNCHANGED <<runs, children, pages>>

AsRead(rows) == {[row |-> r, of |-> {}] : r \in rows}

\* Where a request goes when its rows are in hand.
Read(rows, cursor) ==
    req' = [req EXCEPT !.got = AsRead(rows), !.cursor = cursor, !.todo = Reads(req.kind),
                       !.pc = IF Reads(req.kind) = <<>> THEN "done" ELSE "tables"]

\* list_runs(): the rows of the page.
ListRows ==
    /\ req.pc = "rows" /\ req.kind = "list"
    /\ LET rows == Fetched(req.status, req.cursor) IN
       Read(Page(rows), NextCursor(rows))
    /\ UNCHANGED <<runs, children, pages, seen>>

\* get_run() of /runs/{run_id} and of its trace; 404 when there is none.
GetRun ==
    /\ req.pc = "rows" /\ req.kind \in {"run", "trace"}
    /\ LET rows == {r \in Table : r.id \in req.ids} IN
       IF rows = {} THEN req' = [req EXCEPT !.pc = "done"] ELSE Read(rows, Null)
    /\ UNCHANGED <<runs, children, pages, seen>>

\* grades_for(), get_grade() and their like: which rows in hand have children.
Joined(got, table) ==
    {[x EXCEPT !.of = IF table \in children[x.row.id] THEN @ \cup {table} ELSE @] : x \in got}

\* The next child table, of all rows in hand in one statement.
ReadTable ==
    /\ req.pc = "tables"
    /\ req' = [req EXCEPT !.got = Joined(@, Head(req.todo)), !.todo = Tail(@),
                         !.pc = IF Len(req.todo) = 1 THEN "reply" ELSE @]
    /\ UNCHANGED <<runs, children, pages, seen>>

\* The reply; a page with a next_cursor is followed by another request.
Reply ==
    /\ req.pc = "reply"
    /\ pages' = Append(pages, req.got)
    /\ req' = [req EXCEPT !.pc = IF req.cursor = Null THEN "done" ELSE "rows", !.got = {}]
    /\ UNCHANGED <<runs, children, seen>>

\* compute() of one arm: one statement ...
Summarise ==
    /\ req.pc = "rows"
    /\ \/ req.kind = "latest"    /\ Read(LatestPerCard, Null)
       \/ req.kind = "published" /\ Read(DistinctOn(InBatch(Table)), Null)
    /\ UNCHANGED <<runs, children, pages, seen>>

\* ... or one and the loop over its rows, in whatever order they come.
FetchByIds ==
    /\ req.pc = "rows" /\ req.kind = "run_ids"
    /\ req' = [req EXCEPT !.left = {r \in Table : r.id \in req.ids}, !.pc = "choose"]
    /\ UNCHANGED <<runs, children, pages, seen>>

ChooseNext ==
    /\ req.pc = "choose" /\ req.left # {}
    /\ \E r \in req.left :
         req' = [req EXCEPT !.got = Choose(@, r), !.left = @ \ {r}]
    /\ UNCHANGED <<runs, children, pages, seen>>

Chosen ==
    /\ req.pc = "choose" /\ req.left = {}
    /\ req' = [req EXCEPT !.pc = "done"]
    /\ UNCHANGED <<runs, children, pages, seen>>

(* ----------------------------- specification --------------------------- *)

Init ==
    /\ runs = [i \in Ids |-> Null] /\ children = [i \in Ids |-> {}]
    /\ req = Idle /\ pages = <<>> /\ seen = {}
    /\ meanwhile = 0

\* Bound: what is written after the answer is of no interest.
Write ==
    /\ req.pc # "done" /\ meanwhile < MaxMeanwhile
    /\ meanwhile' = IF req.pc = "idle" THEN 0 ELSE meanwhile + 1
    /\ \E i \in Ids :
       \/ \E at \in Times : Post(i, at)
       \/ \E at \in Times, s \in Finished : Import(i, at, s)
       \/ Claim(i) \/ Requeue(i) \/ LandEmpty(i)
       \/ \E s \in Finished : Land(i, s)

Ask ==
    \/ \E s \in {Null, "queued"} : Begin("list", s, {})
    \/ \E k \in {"run", "trace"}, i \in Ids : Begin(k, Null, {i})
    \/ \E k \in {"latest", "published"} : Begin(k, Null, Ids)
    \/ \E ids \in SUBSET Ids \ {{}} : Begin("run_ids", Null, ids)

Answer ==
    \/ ListRows \/ GetRun \/ ReadTable \/ Reply
    \/ Summarise \/ FetchByIds \/ ChooseNext \/ Chosen

Next == Write \/ ((Ask \/ Answer) /\ UNCHANGED meanwhile)

Spec == Init /\ [][Next]_vars

(* ------------------------------ properties ----------------------------- *)

Given == UNION {pages[p] : p \in 1..Len(pages)}

\* A run that matched during the whole walk is given to the client, also where
\* the end of a page falls between runs of one created_at.
NoSkips ==
    req.pc = "done" /\ req.kind = "list" =>
       \A r \in seen : \E x \in Given : x.row.id = r.id

\* The pages put together go down one strict order, whatever is inserted and
\* changes between two requests: no run is given to the client twice.
OneOrder ==
    /\ \A q \in 1..Len(pages) : \A p \in 1..(q - 1) :
          \A x \in pages[p], y \in pages[q] : Newer(x.row, y.row)
    /\ \A p \in 1..Len(pages) : \A x, y \in pages[p] : x.row.id = y.row.id => x = y

\* Both at once: walking the pages of GET /runs gives every run that was there
\* to be given, and gives it once.
PagesAreExact == NoSkips /\ OneOrder

\* What a handler puts together from several statements fits together: a run
\* shown as succeeded has its grade or its steps and calls, and a step is shown
\* with the calls made in it, wherever the landing falls between the statements.
ShownWhole ==
    \A x \in Given :
       /\ x.row.status = "succeeded" => x.of = Range(Reads(req.kind))
       /\ "steps" \in x.of => {"model_calls", "tool_calls"} \subseteq x.of

Counts(r) == IF req.kind = "published" THEN r.batch /\ r.status \in Finished
             ELSE r.status = "succeeded"

\* A summary stands on one run of a card, of the kind its pick names, and on
\* none older than a run that counted when the question was asked: the SQL and
\* the loop of compute() mean the same by the newest run.
SummaryOfNewest ==
    req.pc = "done" /\ req.kind \in {"latest", "run_ids", "published"} =>
       /\ \A x \in req.got : /\ Counts(x.row)
                              /\ \A y \in req.got : y.row.card = x.row.card => y = x
       /\ \A s \in seen : Counts(s) =>
             \E x \in req.got : x.row.card = s.card /\ ~Newer(s, x.row)
=============================================================================
