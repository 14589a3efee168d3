---------------------------- MODULE ReadSideProofs ----------------------------
(****************************************************************************)
(* Proofs about ReadSide for every set of runs, cards and dates, every page *)
(* size and any number of commits between two statements.                   *)
(****************************************************************************)
EXTENDS ReadSide, SumLemmas, TLAPS

(* ----------------------- the inductive invariant ----------------------- *)

Statuses == {"queued", "running"} \cup Finished

\* A finished run keeps its row, and its children if it has any; a run has all
\* its children or none, and none before it is finished.
Kept ==
    /\ runs \in [Ids -> Rows \cup {Null}]
    /\ \A i \in Ids : runs[i] # Null => runs[i].id = i
    /\ children \in [Ids -> {{}, Tables}]
    /\ \A i \in Ids : children[i] = Tables => runs[i] # Null /\ runs[i].status \in Finished
    /\ \A i \in Ids : runs[i] # Null /\ runs[i].status = "succeeded" => children[i] = Tables

\* What a request holds, stage by stage.
InHand ==
    /\ req \in [pc : {"idle", "rows", "tables", "choose", "reply", "done"}, kind : Kinds,
                status : {Null} \cup Statuses, cursor : {Null} \cup Rows,
                ids : SUBSET Ids, todo : Seq(Tables), got : SUBSET Shown, left : SUBSET Rows]
    /\ pages \in Seq(SUBSET Shown) /\ seen \subseteq Rows
    /\ req.pc = "idle" => req = Idle /\ pages = <<>> /\ seen = {}
    /\ req.pc = "rows" => req.got = {} /\ req.todo = <<>>
    /\ req.pc # "choose" => req.left = {}
    /\ req.pc = "tables" =>
         \/ req.kind \in {"list", "run"} /\ req.todo = <<"grades">>
         \/ /\ req.kind = "trace"
            /\ req.todo \in {<<"steps", "model_calls", "tool_calls">>,
                             <<"model_calls", "tool_calls">>, <<"tool_calls">>}
    /\ req.pc = "reply" => req.kind \in {"list", "run", "trace"} /\ req.todo = <<>>
    /\ req.pc = "choose" => req.kind = "run_ids"
    /\ pages # <<>> => req.kind = "list" \/ (req.kind \in {"run", "trace"} /\ req.pc = "done")
    /\ req.kind # "list" => req.cursor = Null

\* The rows the request is about are still there, a finished one as it was.
StillThere ==
    \A s \in seen :
      /\ runs[s.id] # Null /\ runs[s.id].at = s.at
      /\ s.status \in Finished => runs[s.id] = s
      /\ req.status # Null => runs[s.id].status = req.status
      /\ req.kind # "list" => s.id \in req.ids

Told(r, given) == \E x \in given : x.row.id = r.id

\* Where a walk over the pages is: the cursor lies below what was given and
\* above what is still to come.
Walk ==
    req.kind = "list" =>
      /\ req.cursor # Null => \A x \in Given \cup req.got : ~Newer(req.cursor, x.row)
      /\ req.pc = "rows" /\ req.cursor = Null => pages = <<>>
      /\ \A x \in Given, y \in req.got : Newer(x.row, y.row)
      /\ req.pc = "rows" =>
           \A r \in seen : req.cursor = Null \/ Newer(req.cursor, r) \/ Told(r, Given)
      /\ req.pc \in {"tables", "reply"} =>
           \A r \in seen : \/ req.cursor # Null /\ Newer(req.cursor, r)
                           \/ Told(r, Given \cup req.got)

SoFar == Range(Reads(req.kind)) \ Range(req.todo)

\* The runs in hand with the child tables read so far.
Fits ==
    req.pc \in {"tables", "reply"} =>
      /\ \A x, y \in req.got : x.row.id = y.row.id => x = y
      /\ \A x \in req.got :
        /\ x.of \subseteq SoFar
        /\ x.row.status = "succeeded" => x.of = SoFar /\ children[x.row.id] = Tables
        /\ "steps" \in x.of => /\ children[x.row.id] = Tables
                               /\ SoFar \cap {"model_calls", "tool_calls"} \subseteq x.of

\* The loop of compute() has the newest of what it has come to.
Choosing ==
    req.pc = "choose" =>
      /\ \A x \in req.got : x.row.status = "succeeded"
      /\ \A x, y \in req.got : x.row.card = y.row.card => x = y
      /\ \A s \in seen : s.status = "succeeded" =>
           \/ s \in req.left
           \/ \E x \in req.got : x.row.card = s.card /\ ~Newer(s, x.row)

ReadInv ==
    /\ Kept /\ InHand /\ StillThere /\ Walk /\ Fits /\ Choosing
    /\ PagesAreExact /\ ShownWhole /\ SummaryOfNewest

(* -------------------------------- the order ---------------------------- *)

LEMMA RowTypes ==
  ASSUME NEW r \in Rows
  PROVE  r.at \in Nat /\ r.id \in Nat /\ r.id \in Ids /\ r # Null
         /\ r.status \in Statuses /\ Null \notin Statuses
  BY ReadSideAssumption, NullApart DEF Rows, Statuses

\* ORDER BY created_at DESC, run_id DESC is a strict order, total up to run_id.
LEMMA NewerOrder ==
  ASSUME NEW r, NEW s, NEW t, {r.at, r.id, s.at, s.id, t.at, t.id} \subseteq Nat
  PROVE  /\ ~Newer(r, r)
         /\ Newer(r, s) => ~Newer(s, r)
         /\ Newer(r, s) /\ Newer(s, t) => Newer(r, t)
         /\ ~Newer(r, s) /\ Newer(r, t) => Newer(s, t)
         /\ Newer(r, s) /\ ~Newer(t, s) => Newer(r, t)
         /\ ~Newer(r, s) /\ ~Newer(s, t) => ~Newer(r, t)
         /\ ~Newer(r, s) /\ ~Newer(s, r) => r.id = s.id
  BY DEF Newer

LEMMA RowOrder ==
  ASSUME NEW r \in Rows, NEW s \in Rows, NEW t \in Rows
  PROVE  /\ ~Newer(r, r)
         /\ Newer(r, s) => ~Newer(s, r)
         /\ Newer(r, s) /\ Newer(s, t) => Newer(r, t)
         /\ ~Newer(r, s) /\ Newer(r, t) => Newer(s, t)
         /\ Newer(r, s) /\ ~Newer(t, s) => Newer(r, t)
         /\ ~Newer(r, s) /\ ~Newer(s, t) => ~Newer(r, t)
         /\ ~Newer(r, s) /\ ~Newer(s, r) => r.id = s.id
  <1>1. {r.at, r.id, s.at, s.id, t.at, t.id} \subseteq Nat
    BY RowTypes
  <1>2. QED BY <1>1, NewerOrder

\* Some row of a finite set has none above it, some none below.
LEMMA HasNewest ==
  ASSUME NEW S \in SUBSET Rows, IsFiniteSet(S), S # {}
  PROVE  \E m \in S : \A s \in S : ~Newer(s, m)
  <1> DEFINE G == {T \in SUBSET S : T = {} \/ \E m \in T : \A s \in T : ~Newer(s, m)}
  <1>1. ASSUME NEW T \in SUBSET S, \A P \in SUBSET T : P # T => P \in G
        PROVE  T \in G
    <2> SUFFICES ASSUME T # {} PROVE \E m \in T : \A s \in T : ~Newer(s, m)
      OBVIOUS
    <2>1. PICK r : r \in T
      OBVIOUS
    <2>2. T \ {r} \in G
      BY <1>1, <2>1
    <2>3. CASE T \ {r} = {}
      BY <2>1, <2>3, RowOrder
    <2>4. CASE T \ {r} # {}
      <3>1. PICK m \in T \ {r} : \A s \in T \ {r} : ~Newer(s, m)
        BY <2>2, <2>4
      <3>2. r \in Rows /\ \A s \in T : s \in Rows
        BY <2>1
      <3>3. CASE Newer(r, m)
        <4>1. \A s \in T : ~Newer(s, r)
          BY <2>1, <3>1, <3>2, <3>3, RowOrder
        <4>2. QED BY <2>1, <4>1
      <3>4. CASE ~Newer(r, m)
        BY <2>1, <3>1, <3>4
      <3>5. QED BY <3>3, <3>4
    <2>5. QED BY <2>3, <2>4
  <1> HIDE DEF G
  <1>2. \A T \in SUBSET S : T \in G
    BY <1>1, SubsetInduction
  <1>3. S \in G
    BY <1>2
  <1>4. QED BY <1>3 DEF G

LEMMA HasOldest ==
  ASSUME NEW S \in SUBSET Rows, IsFiniteSet(S), S # {}
  PROVE  \E m \in S : \A s \in S : ~Newer(m, s)
  <1> DEFINE G == {T \in SUBSET S : T = {} \/ \E m \in T : \A s \in T : ~Newer(m, s)}
  <1>1. ASSUME NEW T \in SUBSET S, \A P \in SUBSET T : P # T => P \in G
        PROVE  T \in G
    <2> SUFFICES ASSUME T # {} PROVE \E m \in T : \A s \in T : ~Newer(m, s)
      OBVIOUS
    <2>1. PICK r : r \in T
      OBVIOUS
    <2>2. T \ {r} \in G
      BY <1>1, <2>1
    <2>3. CASE T \ {r} = {}
      BY <2>1, <2>3, RowOrder
    <2>4. CASE T \ {r} # {}
      <3>1. PICK m \in T \ {r} : \A s \in T \ {r} : ~Newer(m, s)
        BY <2>2, <2>4
      <3>2. r \in Rows /\ \A s \in T : s \in Rows
        BY <2>1
      <3>3. CASE Newer(m, r)
        <4>1. \A s \in T : ~Newer(r, s)
          BY <2>1, <3>1, <3>2, <3>3, RowOrder
        <4>2. QED BY <2>1, <4>1
      <3>4. CASE ~Newer(m, r)
        BY <2>1, <3>1, <3>4
      <3>5. QED BY <3>3, <3>4
    <2>5. QED BY <2>3, <2>4
  <1> HIDE DEF G
  <1>2. \A T \in SUBSET S : T \in G
    BY <1>1, SubsetInduction
  <1>3. S \in G
    BY <1>2
  <1>4. QED BY <1>3 DEF G

(* ------------------------------ the statements ------------------------- *)

OneEach(S) == \A r, s \in S : r.id = s.id => r = s

\* The table is finite and holds one row per run_id.
LEMMA TableRows ==
  ASSUME Kept
  PROVE  /\ IsFiniteSet(Table) /\ Table \in SUBSET Rows /\ OneEach(Table)
         /\ \A r \in Table : runs[r.id] = r /\ r.id \in Ids
         /\ \A i \in Ids : runs[i] # Null => runs[i] \in Table
  <1>1. \A r \in Table : r \in Rows /\ r.id \in Ids /\ runs[r.id] = r
    BY DEF Kept, Table, Present
  <1>2. OneEach(Table)
    BY <1>1 DEF OneEach
  <1>3. \A i \in Ids : runs[i] # Null => runs[i] \in Table
    BY DEF Table, Present
  <1>4. IsFiniteSet(Table)
    <2> DEFINE f == [i \in Present |-> runs[i]]
    <2>1. Present \in SUBSET Ids /\ IsFiniteSet(Ids)
      BY ReadSideAssumption DEF Present
    <2>2. IsFiniteSet(Present)
      BY <2>1, FS_Subset
    <2>3. f \in Surjection(Present, Table)
      BY DEF Surjection, Table
    <2>4. QED BY <2>2, <2>3, FS_Surjection
  <1>5. QED BY <1>1, <1>2, <1>3, <1>4

\* What ORDER BY and LIMIT give: there is such a set, and only such.
LEMMA LimitGives ==
  ASSUME NEW S \in SUBSET Rows, IsFiniteSet(S), OneEach(S), NEW n \in Nat
  PROVE  /\ Limited(S, n) \in SUBSET S
         /\ Cardinality(Limited(S, n)) = IF Cardinality(S) < n THEN Cardinality(S) ELSE n
         /\ \A r \in Limited(S, n), s \in S \ Limited(S, n) : Newer(r, s)
  <1> DEFINE Above(top) == \A r \in top, s \in S \ top : Newer(r, s)
             G == {k \in Nat : k <= Cardinality(S) =>
                                 \E top \in SUBSET S : Cardinality(top) = k /\ Above(top)}
  <1>1. Cardinality(S) \in Nat
    BY FS_CardinalityType
  <1>2. 0 \in G
    <2>1. Cardinality({}) = 0 /\ Above({}) /\ {} \in SUBSET S
      BY FS_EmptySet
    <2>2. QED BY <2>1
  <1>3. ASSUME NEW k \in Nat, k \in G PROVE k + 1 \in G
    <2> SUFFICES ASSUME k + 1 <= Cardinality(S)
                 PROVE  \E top \in SUBSET S : Cardinality(top) = k + 1 /\ Above(top)
      OBVIOUS
    <2>1. PICK top \in SUBSET S : Cardinality(top) = k /\ Above(top)
      BY <1>1, <1>3
    <2>2. IsFiniteSet(top) /\ IsFiniteSet(S \ top) /\ S \ top \in SUBSET Rows
      BY FS_Subset
    <2>3. S \ top # {}
      BY <1>1, <2>1
    <2>4. PICK m \in S \ top : \A s \in S \ top : ~Newer(s, m)
      BY <2>2, <2>3, HasNewest
    <2>5. Cardinality(top \cup {m}) = k + 1
      BY <2>1, <2>2, <2>4, FS_AddElement
    <2>6. ASSUME NEW s \in S \ (top \cup {m}) PROVE Newer(m, s)
      <3>1. s # m /\ ~Newer(s, m) /\ s \in Rows /\ m \in Rows
        BY <2>4
      <3>2. s.id # m.id
        BY <2>4, <3>1 DEF OneEach
      <3>3. QED BY <3>1, <3>2, RowOrder
    <2>7. Above(top \cup {m})
      BY <2>1, <2>6
    <2>8. QED BY <2>4, <2>5, <2>7
  <1>4. \A k \in Nat : k \in G
    <2> HIDE DEF G
    <2>1. QED BY <1>2, <1>3, NaturalInduction
  <1>5. PICK k \in Nat : k = (IF Cardinality(S) < n THEN Cardinality(S) ELSE n)
                         /\ k <= Cardinality(S)
    BY <1>1
  <1>6. \E top \in SUBSET S : Cardinality(top) = k /\ Above(top)
    BY <1>4, <1>5
  <1>7. QED BY <1>5, <1>6 DEF Limited

\* A page and its next_cursor cut the rows that were left in two.
LEMMA PageCuts ==
  ASSUME NEW S \in SUBSET Rows, IsFiniteSet(S), OneEach(S),
         NEW rows, rows = Limited(S, Limit + 1)
  PROVE  /\ Page(rows) \in SUBSET S
         /\ NextCursor(rows) = Null => Page(rows) = S
         /\ NextCursor(rows) # Null =>
              /\ NextCursor(rows) \in Page(rows)
              /\ \A x \in Page(rows) : ~Newer(NextCursor(rows), x)
              /\ \A s \in S \ Page(rows) : Newer(NextCursor(rows), s)
  <1>1. Limit \in Nat \ {0} /\ Limit + 1 \in Nat
    BY ReadSideAssumption
  <1>2. Cardinality(S) \in Nat
    BY FS_CardinalityType
  <1>3. /\ rows \in SUBSET S
        /\ Cardinality(rows) = IF Cardinality(S) < Limit + 1 THEN Cardinality(S) ELSE Limit + 1
        /\ \A r \in rows, s \in S \ rows : Newer(r, s)
    BY <1>1, LimitGives
  <1>4. rows \in SUBSET Rows /\ IsFiniteSet(rows) /\ OneEach(rows)
        /\ (Cardinality(rows) = Cardinality(S) => rows = S)
    BY <1>3, FS_Subset DEF OneEach
  <1>5. /\ Page(rows) \in SUBSET rows
        /\ Cardinality(Page(rows)) = IF Cardinality(rows) < Limit THEN Cardinality(rows) ELSE Limit
        /\ \A r \in Page(rows), s \in rows \ Page(rows) : Newer(r, s)
    BY <1>1, <1>4, LimitGives DEF Page
  <1>6. IsFiniteSet(Page(rows)) /\ Page(rows) \in SUBSET Rows
        /\ (Cardinality(Page(rows)) = Cardinality(rows) => Page(rows) = rows)
    BY <1>4, <1>5, FS_Subset
  <1>7. CASE ~(Cardinality(rows) > Limit)
    <2>1. Cardinality(rows) = Cardinality(S) /\ Cardinality(Page(rows)) = Cardinality(rows)
      BY <1>1, <1>2, <1>3, <1>5, <1>7
    <2>2. Page(rows) = S
      BY <1>4, <1>6, <2>1
    <2>3. NextCursor(rows) = Null
      BY <1>7 DEF NextCursor
    <2>4. QED BY <2>2, <2>3
  <1>8. CASE Cardinality(rows) > Limit
    <2>1. Cardinality(Page(rows)) = Limit
      BY <1>1, <1>2, <1>3, <1>5, <1>8
    <2>2. Page(rows) # {}
      BY <1>1, <2>1, FS_EmptySet
    <2>3. \E m \in Page(rows) : \A x \in Page(rows) : ~Newer(m, x)
      BY <1>6, <2>2, HasOldest
    <2>4. PICK c : c = NextCursor(rows)
      OBVIOUS
    <2>5. c \in Page(rows) /\ \A x \in Page(rows) : ~Newer(c, x)
      BY <1>8, <2>3, <2>4 DEF NextCursor, Oldest
    <2>6. c # Null
      BY <1>6, <2>5, RowTypes
    <2>7. \A s \in S \ Page(rows) : Newer(c, s)
      BY <1>3, <1>5, <2>5
    <2>8. QED BY <1>3, <1>5, <2>4, <2>5, <2>6, <2>7
  <1>9. QED BY <1>7, <1>8

\* DISTINCT ON keeps one row of every card, and none is newer.
LEMMA DistinctOnGives ==
  ASSUME NEW S \in SUBSET Rows, IsFiniteSet(S), OneEach(S)
  PROVE  /\ DistinctOn(S) \in SUBSET S
         /\ \A r, s \in DistinctOn(S) : r.card = s.card => r = s
         /\ \A s \in S : \E r \in DistinctOn(S) : r.card = s.card /\ ~Newer(s, r)
  <1>1. DistinctOn(S) \in SUBSET S
    BY DEF DistinctOn
  <1>2. ASSUME NEW r \in DistinctOn(S), NEW s \in DistinctOn(S), r.card = s.card
        PROVE  r = s
    <2>1. r \in S /\ s \in S /\ ~Newer(r, s) /\ ~Newer(s, r)
      BY <1>2 DEF DistinctOn
    <2>2. r.id = s.id
      BY <2>1, RowOrder
    <2>3. QED BY <2>1, <2>2 DEF OneEach
  <1>3. ASSUME NEW s \in S
        PROVE  \E r \in DistinctOn(S) : r.card = s.card /\ ~Newer(s, r)
    <2> DEFINE T == {r \in S : r.card = s.card}
    <2>1. T \in SUBSET S /\ s \in T
      OBVIOUS
    <2>2. IsFiniteSet(T) /\ T \in SUBSET Rows /\ T # {}
      BY <2>1, FS_Subset
    <2>3. PICK m \in T : \A x \in T : ~Newer(x, m)
      BY <2>2, HasNewest
    <2>4. m \in DistinctOn(S) /\ m.card = s.card /\ ~Newer(s, m)
      BY <2>1, <2>3 DEF DistinctOn
    <2>5. QED BY <2>4
  <1>4. QED BY <1>1, <1>2, <1>3

(* ------------------------------ the writers ---------------------------- *)

\* A row comes, queued and alone or finished with its bundle.
LEMMA RowComes ==
  ASSUME Kept, NEW i \in Ids, NEW row \in Rows, row.id = i, runs[i] = Null,
         runs' = [runs EXCEPT ![i] = row],
         \/ row.status = "queued" /\ children' = children
         \/ row.status \in Finished /\ children' = [children EXCEPT ![i] = Tables]
  PROVE  /\ Kept' /\ (\A j \in Ids : runs[j] # Null => runs'[j] = runs[j])
         /\ \A j \in Ids : children[j] = Tables => children'[j] = Tables
  <1>1. row # Null /\ "queued" \notin Finished /\ "queued" # "succeeded"
        /\ "succeeded" \in Finished
    BY RowTypes DEF Finished
  <1>2. runs' \in [Ids -> Rows \cup {Null}] /\ children' \in [Ids -> {{}, Tables}]
    BY DEF Kept
  <1>3. runs'[i] = row /\ \A j \in Ids \ {i} : runs'[j] = runs[j] /\ children'[j] = children[j]
    BY DEF Kept
  <1>4. (row.status = "queued" => children'[i] # Tables)
        /\ (row.status \in Finished => children'[i] = Tables)
    <2>1. children[i] # Tables
      BY DEF Kept
    <2>2. row.status = "queued" => row.status \notin Finished
      BY <1>1
    <2>3. QED BY <2>1, <2>2 DEF Kept
  <1>5. Kept'
    BY <1>1, <1>2, <1>3, <1>4 DEF Kept
  <1>6. \A j \in Ids : runs[j] # Null => runs'[j] = runs[j]
    BY <1>3
  <1>7. \A j \in Ids : children[j] = Tables => children'[j] = Tables
    BY <1>3 DEF Kept
  <1>8. QED BY <1>5, <1>6, <1>7

\* A row changes its state, which no finished one does.
LEMMA RowChanges ==
  ASSUME Kept, NEW i \in Ids, NEW from \in {"queued", "running"}, NEW to \in Statuses,
         Becomes(i, from, to),
         \/ to \in {"queued", "running"} /\ children' = children
         \/ to \in Finished /\ children' = [children EXCEPT ![i] = Tables]
         \/ to = "failed" /\ children' = [children EXCEPT ![i] = {}]
  PROVE  /\ Kept'
         /\ \A j \in Ids : runs[j] # Null => runs'[j] # Null /\ runs'[j].at = runs[j].at
         /\ \A j \in Ids : j # i => runs'[j] = runs[j]
         /\ \A j \in Ids : children[j] = Tables => children'[j] = Tables
         /\ runs[i].status \notin Finished
  <1>1. PICK row : row = [runs[i] EXCEPT !.status = to]
    OBVIOUS
  <1>2. runs[i] \in Rows /\ runs[i].id = i /\ runs[i].status = from /\ from \notin Finished
    BY DEF Becomes, Kept, Finished
  <1>3. row \in Rows /\ row.id = i /\ row.at = runs[i].at /\ row.status = to
    BY <1>1, <1>2 DEF Rows, Statuses
  <1>4. row # Null
    BY <1>3, RowTypes
  <1>5. runs' = [runs EXCEPT ![i] = row]
    BY <1>1 DEF Becomes
  <1>6. runs' \in [Ids -> Rows \cup {Null}] /\ children' \in [Ids -> {{}, Tables}]
    BY <1>3, <1>5 DEF Kept
  <1>7. runs'[i] = row /\ \A j \in Ids \ {i} : runs'[j] = runs[j] /\ children'[j] = children[j]
    BY <1>5 DEF Kept
  <1>8. children[i] # Tables /\ Tables # {}
    BY <1>2 DEF Kept, Tables
  <1>9. (children'[i] = Tables => to \in Finished) /\ (to = "succeeded" => children'[i] = Tables)
    BY <1>8 DEF Kept, Finished
  <1>10. Kept'
    BY <1>3, <1>4, <1>6, <1>7, <1>9 DEF Kept
  <1>11. \A j \in Ids : children[j] = Tables => children'[j] = Tables
    BY <1>7, <1>8
  <1>12. \A j \in Ids : runs[j] # Null => runs'[j] # Null /\ runs'[j].at = runs[j].at
    BY <1>3, <1>4, <1>7
  <1>13. QED BY <1>2, <1>7, <1>10, <1>11, <1>12

\* What a writer does to what a request holds: nothing but take from `seen`.
LEMMA WriterKeeps ==
  ASSUME ReadInv, Write
  PROVE  /\ Kept' /\ StillThere' /\ req' = req /\ pages' = pages /\ seen' \subseteq seen
         /\ (\A j \in Ids : children[j] = Tables => children'[j] = Tables)
         /\ req.pc # "done"
  <1>1. Kept /\ StillThere /\ InHand
    BY DEF ReadInv
  <1>2. /\ \A s \in seen : s \in Rows /\ s.id \in Ids
        /\ \A r \in Rows : r.status \in Statuses
    BY <1>1, RowTypes DEF InHand
  <1>3. ASSUME NEW i \in Ids, NEW at \in Times, Post(i, at) \/ \E s \in Finished : Import(i, at, s)
        PROVE  /\ Kept' /\ StillThere' /\ req' = req /\ pages' = pages /\ seen' \subseteq seen
               /\ \A j \in Ids : children[j] = Tables => children'[j] = Tables
    <2>1. CardOf[i] \in Range(CardOf)
      BY ReadSideAssumption DEF Range
    <2>2. PICK row \in Rows :
            /\ row.id = i /\ runs[i] = Null /\ runs' = [runs EXCEPT ![i] = row]
            /\ \/ row.status = "queued" /\ children' = children
               \/ row.status \in Finished /\ children' = [children EXCEPT ![i] = Tables]
      <3>1. CASE Post(i, at)
        <4>1. [id |-> i, at |-> at, card |-> CardOf[i], batch |-> FALSE, status |-> "queued"] \in Rows
          BY <2>1 DEF Rows
        <4>2. QED BY <3>1, <4>1 DEF Post
      <3>2. CASE \E s \in Finished : Import(i, at, s)
        <4>1. PICK s \in Finished : Import(i, at, s)
          BY <3>2
        <4>2. [id |-> i, at |-> at, card |-> CardOf[i], batch |-> TRUE, status |-> s] \in Rows
          BY <2>1 DEF Rows
        <4>3. QED BY <4>1, <4>2 DEF Import
      <3>3. QED BY <1>3, <3>1, <3>2
    <2>3. /\ Kept' /\ (\A j \in Ids : runs[j] # Null => runs'[j] = runs[j])
          /\ \A j \in Ids : children[j] = Tables => children'[j] = Tables
      BY <1>1, <2>2, RowComes
    <2>4. req' = req /\ pages' = pages /\ seen' = seen
      BY <1>3 DEF Post, Import
    <2>5. StillThere'
      BY <1>1, <1>2, <2>3, <2>4 DEF StillThere
    <2>6. QED BY <2>3, <2>4, <2>5
  <1>4. ASSUME NEW i \in Ids, NEW from \in {"queued", "running"}, NEW to \in Statuses,
               Becomes(i, from, to),
               \/ to \in {"queued", "running"} /\ children' = children
               \/ to \in Finished /\ children' = [children EXCEPT ![i] = Tables]
               \/ to = "failed" /\ children' = [children EXCEPT ![i] = {}]
        PROVE  /\ Kept' /\ StillThere' /\ req' = req /\ pages' = pages /\ seen' \subseteq seen
               /\ \A j \in Ids : children[j] = Tables => children'[j] = Tables
    <2>1. /\ Kept'
          /\ \A j \in Ids : runs[j] # Null => runs'[j] # Null /\ runs'[j].at = runs[j].at
          /\ \A j \in Ids : j # i => runs'[j] = runs[j]
          /\ \A j \in Ids : children[j] = Tables => children'[j] = Tables
          /\ runs[i].status \notin Finished
      BY <1>1, <1>4, RowChanges
    <2>2. /\ req' = req /\ pages' = pages /\ seen' \subseteq seen
          /\ req.status # Null => \A r \in seen' : r.id # i
      BY <1>4 DEF Becomes
    <2>3. ASSUME NEW s \in seen'
          PROVE  /\ runs'[s.id] # Null /\ runs'[s.id].at = s.at
                 /\ s.status \in Finished => runs'[s.id] = s
                 /\ req.status # Null => runs'[s.id].status = req.status
                 /\ req.kind # "list" => s.id \in req.ids
      <3>1. s \in seen /\ s.id \in Ids
        BY <1>2, <2>2
      <3>2. /\ runs[s.id] # Null /\ runs[s.id].at = s.at
            /\ s.status \in Finished => runs[s.id] = s
            /\ req.status # Null => runs[s.id].status = req.status
            /\ req.kind # "list" => s.id \in req.ids
        BY <1>1, <3>1 DEF StillThere
      <3>3. s.status \in Finished => s.id # i
        BY <2>1, <3>2
      <3>4. QED BY <2>1, <2>2, <3>1, <3>2, <3>3
    <2>4. StillThere'
      BY <2>2, <2>3 DEF StillThere
    <2>5. QED BY <2>1, <2>2, <2>4
  <1>5. PICK i \in Ids :
          \/ \E at \in Times : Post(i, at)
          \/ \E at \in Times, s \in Finished : Import(i, at, s)
          \/ Claim(i) \/ Requeue(i) \/ LandEmpty(i)
          \/ \E s \in Finished : Land(i, s)
    BY DEF Write
  <1>6. req.pc # "done"
    BY DEF Write
  <1>7. CASE Claim(i) \/ Requeue(i) \/ LandEmpty(i) \/ \E s \in Finished : Land(i, s)
    <2>1. \E from \in {"queued", "running"}, to \in Statuses :
            /\ Becomes(i, from, to)
            /\ \/ to \in {"queued", "running"} /\ children' = children
               \/ to \in Finished /\ children' = [children EXCEPT ![i] = Tables]
               \/ to = "failed" /\ children' = [children EXCEPT ![i] = {}]
      BY <1>7 DEF Claim, Requeue, LandEmpty, Land, Statuses, Finished
    <2>2. QED BY <1>4, <1>6, <2>1
  <1>8. CASE (\E at \in Times : Post(i, at)) \/ \E at \in Times, s \in Finished : Import(i, at, s)
    BY <1>3, <1>6, <1>8
  <1>9. QED BY <1>5, <1>7, <1>8

LEMMA WriteStep == ASSUME ReadInv, Write PROVE ReadInv'
  <1>1. /\ Kept' /\ StillThere' /\ req' = req /\ pages' = pages /\ seen' \subseteq seen
        /\ (\A j \in Ids : children[j] = Tables => children'[j] = Tables)
        /\ req.pc # "done"
    BY WriterKeeps
  <1>2. InHand'
    BY <1>1 DEF ReadInv, InHand
  <1>3. Given' = Given
    BY <1>1 DEF Given
  <1>4. Walk'
    BY <1>1, <1>3 DEF ReadInv, Walk, Told
  <1>5. Fits'
    <2>1. SoFar' = SoFar
      BY <1>1 DEF SoFar
    <2>2. \A x \in req.got : x.row.id \in Ids
      BY RowTypes DEF ReadInv, InHand, Shown
    <2>3. QED BY <1>1, <2>1, <2>2 DEF ReadInv, Fits
  <1>6. Choosing'
    BY <1>1 DEF ReadInv, Choosing
  <1>7. PagesAreExact' /\ ShownWhole' /\ SummaryOfNewest'
    BY <1>1, <1>3
       DEF ReadInv, PagesAreExact, NoSkips, OneOrder, ShownWhole, SummaryOfNewest
  <1>8. QED BY <1>1, <1>2, <1>4, <1>5, <1>6, <1>7 DEF ReadInv

(* ------------------------------ the requests --------------------------- *)

LEMMA Init0 == Init => ReadInv
  <1> SUFFICES ASSUME Init PROVE ReadInv
    OBVIOUS
  <1>1. Given = {}
    BY DEF Init, Given
  <1>2. Kept
    BY DEF Init, Kept, Tables
  <1>3. InHand
    <2>1. Idle \in [pc : {"idle", "rows", "tables", "choose", "reply", "done"}, kind : Kinds,
                status : {Null} \cup Statuses, cursor : {Null} \cup Rows,
                ids : SUBSET Ids, todo : Seq(Tables), got : SUBSET Shown, left : SUBSET Rows]
      BY DEF Idle, Kinds
    <2>2. QED BY <2>1 DEF Init, InHand, Idle
  <1>4. StillThere /\ Walk /\ Fits /\ Choosing
    BY <1>1 DEF Init, Idle, StillThere, Walk, Fits, Choosing
  <1>5. PagesAreExact /\ ShownWhole /\ SummaryOfNewest
    BY <1>1 DEF Init, Idle, PagesAreExact, NoSkips, OneOrder, ShownWhole, SummaryOfNewest
  <1>6. QED BY <1>2, <1>3, <1>4, <1>5 DEF ReadInv

LEMMA AskStep ==
  ASSUME ReadInv, NEW kind \in Kinds, NEW status \in {Null} \cup Statuses, NEW ids \in SUBSET Ids,
         kind # "list" => status = Null, Begin(kind, status, ids)
  PROVE  ReadInv'
  <1>1. Kept /\ InHand /\ req = Idle /\ pages = <<>> /\ Given = {}
    <2>1. req = Idle /\ pages = <<>>
      BY DEF ReadInv, InHand, Begin
    <2>2. QED BY <2>1 DEF ReadInv, Given
  <1>2. /\ req'.pc = "rows" /\ req'.kind = kind /\ req'.status = status /\ req'.ids = ids
        /\ req'.cursor = Null /\ req'.todo = <<>> /\ req'.got = {} /\ req'.left = {}
        /\ runs' = runs /\ children' = children /\ pages' = <<>>
    BY <1>1 DEF Begin, Idle
  <1>3. \A r \in seen' : /\ r \in Table /\ (status # Null => r.status = status)
                         /\ (kind # "list" => r.id \in ids)
    BY DEF Begin, Matching
  <1>4. Kept' /\ Given' = {}
    BY <1>1, <1>2 DEF Kept, Given
  <1>5. InHand'
    <2>1. req' \in [pc : {"idle", "rows", "tables", "choose", "reply", "done"}, kind : Kinds,
                status : {Null} \cup Statuses, cursor : {Null} \cup Rows,
                ids : SUBSET Ids, todo : Seq(Tables), got : SUBSET Shown, left : SUBSET Rows]
      BY <1>1 DEF InHand, Begin, Idle
    <2>2. seen' \subseteq Rows
      BY <1>1, <1>3, TableRows
    <2>3. QED BY <1>2, <2>1, <2>2 DEF InHand
  <1>6. StillThere'
    BY <1>1, <1>2, <1>3, TableRows, RowTypes DEF StillThere
  <1>7. Walk' /\ Fits' /\ Choosing'
    BY <1>2, <1>4 DEF Walk, Fits, Choosing
  <1>8. PagesAreExact' /\ ShownWhole' /\ SummaryOfNewest'
    BY <1>2, <1>4 DEF PagesAreExact, NoSkips, OneOrder, ShownWhole, SummaryOfNewest
  <1>9. QED BY <1>4, <1>5, <1>6, <1>7, <1>8 DEF ReadInv

(* ------------------------------ the handlers --------------------------- *)

\* The tables each handler reads, as a set and one by one.
LEMMA ReadsAre ==
  /\ Reads("list") = <<"grades">> /\ Reads("run") = <<"grades">>
  /\ Reads("trace") = <<"steps", "model_calls", "tool_calls">>
  /\ \A kind \in {"latest", "run_ids", "published"} : Reads(kind) = <<>>
  /\ Range(<<>>) = {} /\ Range(<<"grades">>) = {"grades"}
  /\ Range(<<"steps", "model_calls", "tool_calls">>) = {"steps", "model_calls", "tool_calls"}
  /\ Range(<<"model_calls", "tool_calls">>) = {"model_calls", "tool_calls"}
  /\ Range(<<"tool_calls">>) = {"tool_calls"}
  <1>1. /\ Reads("list") = <<"grades">> /\ Reads("run") = <<"grades">>
        /\ Reads("trace") = <<"steps", "model_calls", "tool_calls">>
        /\ \A kind \in {"latest", "run_ids", "published"} : Reads(kind) = <<>>
    BY DEF Reads
  <1>2. Range(<<>>) = {} /\ Range(<<"grades">>) = {"grades"} /\ Range(<<"tool_calls">>) = {"tool_calls"}
    BY DEF Range
  <1>3. Range(<<"model_calls", "tool_calls">>) = {"model_calls", "tool_calls"}
    <2>1. DOMAIN <<"model_calls", "tool_calls">> = {1, 2}
      OBVIOUS
    <2>2. QED BY <2>1 DEF Range
  <1>4. Range(<<"steps", "model_calls", "tool_calls">>) = {"steps", "model_calls", "tool_calls"}
    <2>1. DOMAIN <<"steps", "model_calls", "tool_calls">> = {1, 2, 3}
      OBVIOUS
    <2>2. QED BY <2>1 DEF Range
  <1>5. QED BY <1>1, <1>2, <1>3, <1>4

\* A handler that has its rows, and child tables to read for them.
LEMMA RowsRead ==
  ASSUME ReadInv, req.pc = "rows", req.kind \in {"list", "run", "trace"},
         NEW rows \in SUBSET Table, NEW c \in {Null} \cup Rows, Read(rows, c),
         req.kind # "list" => c = Null,
         UNCHANGED <<runs, children, pages, seen>>
  PROVE  /\ Kept' /\ InHand' /\ StillThere' /\ Fits' /\ Choosing' /\ Given' = Given
         /\ PagesAreExact' /\ ShownWhole' /\ SummaryOfNewest'
         /\ req'.pc = "tables" /\ req'.kind = req.kind /\ req'.cursor = c
         /\ \A x \in req'.got : x.row \in rows
         /\ \A r \in rows : \E x \in req'.got : x.row = r
  <1>1. Kept /\ InHand /\ StillThere
    BY DEF ReadInv
  <1>2. Reads(req.kind) # <<>> /\ Reads(req.kind) \in Seq(Tables)
    <2>1. /\ <<"grades">> \in Seq(Tables) /\ <<"grades">> # <<>>
          /\ <<"steps", "model_calls", "tool_calls">> \in Seq(Tables)
          /\ <<"steps", "model_calls", "tool_calls">> # <<>>
      BY DEF Tables
    <2>2. Reads(req.kind) \in {<<"grades">>, <<"steps", "model_calls", "tool_calls">>}
      BY ReadsAre
    <2>3. QED BY <2>1, <2>2
  <1>3. /\ req'.pc = "tables" /\ req'.kind = req.kind /\ req'.status = req.status
        /\ req'.cursor = c /\ req'.ids = req.ids /\ req'.left = {}
        /\ req'.todo = Reads(req.kind) /\ req'.got = AsRead(rows)
    BY <1>1, <1>2 DEF Read, InHand
  <1>4. /\ IsFiniteSet(Table) /\ Table \in SUBSET Rows /\ OneEach(Table)
        /\ \A r \in Table : runs[r.id] = r /\ r.id \in Ids
    BY <1>1, TableRows
  <1>5. /\ \A x \in AsRead(rows) : x.row \in rows /\ x.of = {} /\ x = [row |-> x.row, of |-> {}]
        /\ \A r \in rows : [row |-> r, of |-> {}] \in AsRead(rows)
    BY DEF AsRead
  <1>6. AsRead(rows) \subseteq Shown
    BY <1>4, <1>5 DEF Shown
  <1>7. Kept' /\ Given' = Given
    BY <1>1 DEF Kept, Given
  <1>8. InHand'
    <2>1. req' = [pc |-> "tables", kind |-> req.kind, status |-> req.status, cursor |-> c,
                  ids |-> req.ids, todo |-> Reads(req.kind), got |-> AsRead(rows), left |-> {}]
      BY <1>1, <1>2 DEF Read, InHand
    <2>2. req' \in [pc : {"idle", "rows", "tables", "choose", "reply", "done"}, kind : Kinds,
                status : {Null} \cup Statuses, cursor : {Null} \cup Rows,
                ids : SUBSET Ids, todo : Seq(Tables), got : SUBSET Shown, left : SUBSET Rows]
      BY <1>1, <1>2, <1>6, <2>1 DEF InHand
    <2>3. \/ req.kind \in {"list", "run"} /\ Reads(req.kind) = <<"grades">>
          \/ req.kind = "trace" /\ Reads(req.kind) = <<"steps", "model_calls", "tool_calls">>
      BY ReadsAre
    <2>4. pages' = pages /\ seen' = seen
      OBVIOUS
    <2>5. QED BY <1>1, <1>3, <2>2, <2>3, <2>4 DEF InHand
  <1>9. StillThere'
    BY <1>1, <1>3 DEF StillThere
  <1>10. Fits'
    <2>1. SoFar' = {}
      BY <1>3 DEF SoFar
    <2>2. ASSUME NEW x \in req'.got, x.row.status = "succeeded" PROVE children'[x.row.id] = Tables
      <3>1. x.row \in Table
        BY <1>3, <1>5, <2>2
      <3>2. runs[x.row.id] = x.row /\ x.row.id \in Ids /\ x.row # Null
        BY <1>4, <3>1, RowTypes
      <3>3. QED BY <1>1, <2>2, <3>2 DEF Kept
    <2>3. \A x \in req'.got : x.of = {}
      BY <1>3, <1>5
    <2>4. ASSUME NEW x \in req'.got, NEW y \in req'.got, x.row.id = y.row.id PROVE x = y
      <3>1. x.row = y.row
        BY <1>3, <1>4, <1>5, <2>4 DEF OneEach
      <3>2. QED BY <1>3, <1>5, <3>1
    <2>5. QED BY <2>1, <2>2, <2>3, <2>4 DEF Fits
  <1>11. Choosing' /\ PagesAreExact' /\ SummaryOfNewest'
    BY <1>3 DEF ReadInv, Choosing, PagesAreExact, NoSkips, OneOrder, SummaryOfNewest
  <1>12. ShownWhole'
    BY <1>3, <1>7 DEF ReadInv, ShownWhole
  <1>13. QED
    BY <1>3, <1>5, <1>7, <1>8, <1>9, <1>10, <1>11, <1>12

LEMMA ListStep == ASSUME ReadInv, ListRows PROVE ReadInv'
  <1> DEFINE S == BelowCursor(req.status, req.cursor)
             rows == Fetched(req.status, req.cursor)
             page == Page(rows)
             c == NextCursor(rows)
  <1>1. Kept /\ InHand /\ StillThere /\ Walk
    BY DEF ReadInv
  <1>2. req.pc = "rows" /\ req.kind = "list" /\ Read(page, c)
        /\ UNCHANGED <<runs, children, pages, seen>>
    BY DEF ListRows
  <1>3. /\ IsFiniteSet(Table) /\ Table \in SUBSET Rows /\ OneEach(Table)
        /\ \A i \in Ids : runs[i] # Null => runs[i] \in Table
    BY <1>1, TableRows
  <1>4. S \in SUBSET Table
    BY DEF BelowCursor, Matching
  <1>5. IsFiniteSet(S) /\ S \in SUBSET Rows /\ OneEach(S)
    BY <1>3, <1>4, FS_Subset DEF OneEach
  <1>6. rows = Limited(S, Limit + 1)
    BY DEF Fetched
  <1> HIDE DEF rows
  <1>7. /\ page \in SUBSET S
        /\ c = Null => page = S
        /\ c # Null => /\ c \in page
                       /\ \A x \in page : ~Newer(c, x)
                       /\ \A s \in S \ page : Newer(c, s)
    BY <1>5, <1>6, PageCuts
  <1> HIDE DEF page, c
  <1>8. c \in {Null} \cup Rows /\ page \in SUBSET Table
    BY <1>4, <1>5, <1>7
  <1>9. /\ Kept' /\ InHand' /\ StillThere' /\ Fits' /\ Choosing' /\ Given' = Given
        /\ PagesAreExact' /\ ShownWhole' /\ SummaryOfNewest'
        /\ req'.pc = "tables" /\ req'.kind = req.kind /\ req'.cursor = c
        /\ \A x \in req'.got : x.row \in page
        /\ \A r \in page : \E x \in req'.got : x.row = r
    BY <1>2, <1>8, RowsRead
  <1>10. ASSUME NEW x \in Given, NEW r \in S PROVE Newer(x.row, r)
    <2>1. x \in Shown /\ x.row \in Rows /\ r \in Rows
      BY <1>1, <1>5 DEF InHand, Given, Shown
    <2>2. req.cursor # Null
      <3>1. pages # <<>>
        BY DEF Given
      <3>2. QED BY <1>1, <1>2, <3>1 DEF Walk
    <2>3. ~Newer(req.cursor, x.row) /\ Newer(req.cursor, r) /\ req.cursor \in Rows
      BY <1>1, <1>2, <2>2 DEF Walk, BelowCursor, InHand
    <2>4. QED BY <2>1, <2>3, RowOrder
  <1>11. ASSUME c # Null, NEW x \in Given \cup req'.got PROVE ~Newer(c, x.row)
    <2>1. CASE x \in req'.got
      BY <1>7, <1>9, <1>11, <2>1
    <2>2. CASE x \in Given
      <3>1. Newer(x.row, c) /\ c \in Rows
        BY <1>5, <1>7, <1>10, <1>11, <2>2
      <3>2. x.row \in Rows
        BY <1>1, <2>2 DEF InHand, Given, Shown
      <3>3. QED BY <3>1, <3>2, RowOrder
    <2>3. QED BY <1>11, <2>1, <2>2
  <1>12. ASSUME NEW r \in seen
         PROVE  (c # Null /\ Newer(c, r)) \/ Told(r, Given \cup req'.got)
    <2>1. req.cursor = Null \/ Newer(req.cursor, r) \/ Told(r, Given)
      BY <1>1, <1>2 DEF Walk
    <2>2. r \in Rows /\ r.id \in Ids /\ runs[r.id] # Null /\ runs[r.id].at = r.at
          /\ (req.status # Null => runs[r.id].status = req.status)
      BY <1>1, RowTypes DEF InHand, StillThere
    <2>3. PICK q : q = runs[r.id]
      OBVIOUS
    <2>4. q \in Table /\ q.id = r.id /\ q.at = r.at /\ q \in Matching(req.status)
      BY <1>1, <1>3, <2>2, <2>3 DEF Kept, Matching
    <2>5. CASE Told(r, Given)
      BY <2>5 DEF Told
    <2>6. CASE req.cursor = Null \/ Newer(req.cursor, r)
      <3>1. q \in S
        BY <2>4, <2>6 DEF BelowCursor, Newer
      <3>2. CASE q \in page
        <4>1. PICK x \in req'.got : x.row = q
          BY <1>9, <3>2
        <4>2. QED BY <2>4, <4>1 DEF Told
      <3>3. CASE q \notin page
        <4>1. c # Null /\ Newer(c, q)
          BY <1>7, <3>1, <3>3
        <4>2. QED BY <2>4, <4>1 DEF Newer
      <3>4. QED BY <3>2, <3>3
    <2>7. QED BY <2>1, <2>5, <2>6
  <1>13. Walk'
    <2>1. \A x \in Given, y \in req'.got : Newer(x.row, y.row)
      BY <1>7, <1>9, <1>10
    <2>2. seen' = seen
      BY <1>2
    <2>3. QED BY <1>9, <1>11, <1>12, <2>1, <2>2 DEF Walk, Told
  <1>14. QED BY <1>9, <1>13 DEF ReadInv

LEMMA GetRunStep == ASSUME ReadInv, GetRun PROVE ReadInv'
  <1> DEFINE rows == {r \in Table : r.id \in req.ids}
  <1>1. req.pc = "rows" /\ req.kind \in {"run", "trace"}
        /\ UNCHANGED <<runs, children, pages, seen>> /\ InHand /\ Kept
    BY DEF GetRun, ReadInv
  <1>2. CASE rows = {}
    <2>1. req' = [req EXCEPT !.pc = "done"]
      BY <1>2 DEF GetRun
    <2>2. /\ req'.pc = "done" /\ req'.kind = req.kind /\ req'.status = req.status
          /\ req'.cursor = req.cursor /\ req'.ids = req.ids /\ req'.left = req.left
          /\ req'.todo = req.todo /\ req'.got = req.got
      BY <1>1, <2>1 DEF InHand
    <2>3. Kept' /\ Given' = Given /\ StillThere'
      BY <1>1, <2>2 DEF ReadInv, Kept, Given, StillThere
    <2>4. InHand'
      BY <1>1, <2>1, <2>2 DEF InHand
    <2>5. Walk' /\ Fits' /\ Choosing'
      BY <1>1, <2>2 DEF Walk, Fits, Choosing
    <2>6. PagesAreExact' /\ SummaryOfNewest'
      BY <1>1, <2>2 DEF ReadInv, PagesAreExact, NoSkips, OneOrder, SummaryOfNewest
    <2>7. ShownWhole'
      BY <2>2, <2>3 DEF ReadInv, ShownWhole
    <2>8. QED BY <2>3, <2>4, <2>5, <2>6, <2>7 DEF ReadInv
  <1>3. CASE rows # {}
    <2>1. Read(rows, Null)
      BY <1>3 DEF GetRun
    <2>2. rows \in SUBSET Table
      OBVIOUS
    <2> HIDE DEF rows
    <2>3. /\ Kept' /\ InHand' /\ StillThere' /\ Fits' /\ Choosing'
          /\ PagesAreExact' /\ ShownWhole' /\ SummaryOfNewest' /\ req'.kind = req.kind
      BY <1>1, <2>1, <2>2, RowsRead
    <2>4. Walk'
      BY <1>1, <2>3 DEF Walk
    <2>5. QED BY <2>3, <2>4 DEF ReadInv
  <1>4. QED BY <1>2, <1>3

\* The next table read: what it adds to those read so far.
LEMMA NextTable ==
  ASSUME InHand, ReadTable, NEW t, t = Head(req.todo)
  PROVE  /\ req'.kind = req.kind /\ req'.status = req.status /\ req'.cursor = req.cursor
         /\ req'.ids = req.ids /\ req'.left = req.left /\ req'.got = Joined(req.got, t)
         /\ req'.todo = Tail(req.todo) /\ req'.pc \in {"tables", "reply"}
         /\ req'.todo \in Seq(Tables)
         /\ req'.pc = "tables" =>
              req.kind = "trace" /\ req'.todo \in {<<"model_calls", "tool_calls">>, <<"tool_calls">>}
         /\ req'.pc = "reply" => req.kind \in {"list", "run", "trace"} /\ req'.todo = <<>>
         /\ t \in Tables /\ SoFar' = SoFar \cup {t} /\ SoFar \subseteq Tables
         /\ t = "steps" => SoFar = {}
  <1>1. req.pc = "tables" /\ req.todo \in Seq(Tables)
    BY DEF ReadTable, InHand
  <1>2. /\ req'.kind = req.kind /\ req'.status = req.status /\ req'.cursor = req.cursor
        /\ req'.ids = req.ids /\ req'.left = req.left /\ req'.got = Joined(req.got, t)
        /\ req'.todo = Tail(req.todo)
        /\ req'.pc = IF Len(req.todo) = 1 THEN "reply" ELSE "tables"
    BY <1>1 DEF ReadTable, InHand
  <1>3. SoFar = Range(Reads(req.kind)) \ Range(req.todo)
        /\ SoFar' = Range(Reads(req.kind)) \ Range(Tail(req.todo))
    BY <1>2 DEF SoFar
  <1>4. CASE req.kind \in {"list", "run"} /\ req.todo = <<"grades">>
    <2>1. t = "grades" /\ Tail(req.todo) = <<>> /\ Len(req.todo) = 1
      BY <1>4
    <2>2. Range(Reads(req.kind)) = {"grades"}
      BY <1>4, ReadsAre
    <2>3. SoFar = {} /\ SoFar' = {"grades"}
      BY <1>3, <1>4, <2>1, <2>2, ReadsAre
    <2>4. QED BY <1>2, <1>4, <2>1, <2>3 DEF Tables
  <1>5. CASE req.kind = "trace" /\ req.todo = <<"steps", "model_calls", "tool_calls">>
    <2>1. t = "steps" /\ Tail(req.todo) = <<"model_calls", "tool_calls">> /\ Len(req.todo) = 3
      BY <1>5
    <2>2. SoFar = {} /\ SoFar' = {"steps"}
      BY <1>3, <1>5, <2>1, ReadsAre
    <2>3. <<"model_calls", "tool_calls">> \in Seq(Tables)
      BY DEF Tables
    <2>4. QED BY <1>2, <1>5, <2>1, <2>2, <2>3 DEF Tables
  <1>6. CASE req.kind = "trace" /\ req.todo = <<"model_calls", "tool_calls">>
    <2>1. t = "model_calls" /\ Tail(req.todo) = <<"tool_calls">> /\ Len(req.todo) = 2
      BY <1>6
    <2>2. SoFar = {"steps"} /\ SoFar' = {"steps", "model_calls"}
      BY <1>3, <1>6, <2>1, ReadsAre
    <2>3. <<"tool_calls">> \in Seq(Tables)
      BY DEF Tables
    <2>4. QED BY <1>2, <1>6, <2>1, <2>2, <2>3 DEF Tables
  <1>7. CASE req.kind = "trace" /\ req.todo = <<"tool_calls">>
    <2>1. t = "tool_calls" /\ Tail(req.todo) = <<>> /\ Len(req.todo) = 1
      BY <1>7
    <2>2. SoFar = {"steps", "model_calls"} /\ SoFar' = {"steps", "model_calls", "tool_calls"}
      BY <1>3, <1>7, <2>1, ReadsAre
    <2>3. QED BY <1>2, <1>7, <2>1, <2>2 DEF Tables
  <1>8. QED BY <1>1, <1>4, <1>5, <1>6, <1>7 DEF InHand

LEMMA TableStep == ASSUME ReadInv, ReadTable PROVE ReadInv'
  <1>1. PICK t : t = Head(req.todo)
    OBVIOUS
  <1>2. Kept /\ InHand /\ StillThere /\ Walk /\ Fits /\ req.pc = "tables"
        /\ runs' = runs /\ children' = children /\ pages' = pages /\ seen' = seen
    BY DEF ReadInv, ReadTable
  <1>3. /\ req'.kind = req.kind /\ req'.status = req.status /\ req'.cursor = req.cursor
        /\ req'.ids = req.ids /\ req'.left = req.left /\ req'.got = Joined(req.got, t)
        /\ req'.pc \in {"tables", "reply"} /\ req'.todo \in Seq(Tables)
        /\ req'.pc = "tables" =>
             req.kind = "trace" /\ req'.todo \in {<<"model_calls", "tool_calls">>, <<"tool_calls">>}
        /\ req'.pc = "reply" => req.kind \in {"list", "run", "trace"} /\ req'.todo = <<>>
        /\ t \in Tables /\ SoFar' = SoFar \cup {t} /\ SoFar \subseteq Tables
        /\ t = "steps" => SoFar = {}
    BY <1>1, <1>2, NextTable
  <1> DEFINE With(x) == [x EXCEPT !.of = IF t \in children[x.row.id] THEN @ \cup {t} ELSE @]
  <1>4. \A x \in req.got :
          /\ x \in Shown /\ x.row \in Rows /\ x.row.id \in Ids
          /\ With(x) \in Shown /\ With(x).row = x.row
          /\ With(x).of = IF t \in children[x.row.id] THEN x.of \cup {t} ELSE x.of
    BY <1>2, <1>3, RowTypes DEF InHand, Shown
  <1>5. req'.got = {With(x) : x \in req.got}
    BY <1>3 DEF Joined
  <1> HIDE DEF With
  <1>6. \A y \in req'.got : \E x \in req.got : y = With(x) /\ y.row = x.row
    BY <1>4, <1>5
  <1>7. \A x \in req.got : With(x) \in req'.got
    BY <1>5
  <1>8. Kept' /\ Given' = Given /\ StillThere'
    BY <1>2, <1>3 DEF Kept, Given, StillThere
  <1>9. InHand'
    <2>1. req'.got \subseteq Shown
      BY <1>4, <1>5
    <2>2. req' = [req EXCEPT !.got = Joined(@, t), !.todo = Tail(@),
                         !.pc = IF Len(req.todo) = 1 THEN "reply" ELSE @]
      BY <1>1 DEF ReadTable
    <2>3. req' \in [pc : {"idle", "rows", "tables", "choose", "reply", "done"}, kind : Kinds,
                status : {Null} \cup Statuses, cursor : {Null} \cup Rows,
                ids : SUBSET Ids, todo : Seq(Tables), got : SUBSET Shown, left : SUBSET Rows]
      <3>1. req' = [pc |-> req'.pc, kind |-> req.kind, status |-> req.status,
                    cursor |-> req.cursor, ids |-> req.ids, todo |-> req'.todo,
                    got |-> req'.got, left |-> req.left]
        BY <1>2, <2>2 DEF InHand
      <3>2. QED BY <1>2, <1>3, <2>1, <3>1 DEF InHand
    <2>4. QED BY <1>2, <1>3, <2>3 DEF InHand
  <1>10. Walk'
    <2>1. \A r : Told(r, Given \cup req.got) => Told(r, Given \cup req'.got)
      <3> TAKE r
      <3> HAVE Told(r, Given \cup req.got)
      <3>1. PICK x \in Given \cup req.got : x.row.id = r.id
        BY DEF Told
      <3>2. CASE x \in req.got
        <4>1. With(x) \in req'.got /\ With(x).row.id = r.id
          BY <1>4, <1>7, <3>1, <3>2
        <4>2. QED BY <4>1 DEF Told
      <3>3. QED BY <3>1, <3>2 DEF Told
    <2>2. req.kind = "list" =>
            /\ req.cursor # Null => \A x \in Given \cup req'.got : ~Newer(req.cursor, x.row)
            /\ \A x \in Given, y \in req'.got : Newer(x.row, y.row)
      BY <1>2, <1>6 DEF Walk
    <2>3. QED BY <1>2, <1>3, <1>8, <2>1, <2>2 DEF Walk, Told
  <1>11. Fits'
    <2>1. ASSUME NEW x \in req.got
          PROVE  /\ With(x).of \subseteq SoFar'
                 /\ x.row.status = "succeeded" =>
                      With(x).of = SoFar' /\ children[x.row.id] = Tables
                 /\ "steps" \in With(x).of =>
                      /\ children[x.row.id] = Tables
                      /\ SoFar' \cap {"model_calls", "tool_calls"} \subseteq With(x).of
      <3>1. /\ x.of \subseteq SoFar
            /\ x.row.status = "succeeded" => x.of = SoFar /\ children[x.row.id] = Tables
            /\ "steps" \in x.of => /\ children[x.row.id] = Tables
                                   /\ SoFar \cap {"model_calls", "tool_calls"} \subseteq x.of
        BY <1>2, <2>1 DEF Fits
      <3>2. With(x).of = IF t \in children[x.row.id] THEN x.of \cup {t} ELSE x.of
        BY <1>4, <2>1
      <3>3. children[x.row.id] \in {{}, Tables}
        BY <1>2, <1>4, <2>1 DEF Kept
      <3>4. With(x).of \subseteq SoFar'
        BY <1>3, <3>1, <3>2
      <3>5. x.row.status = "succeeded" => With(x).of = SoFar' /\ children[x.row.id] = Tables
        BY <1>3, <3>1, <3>2
      <3>6. ASSUME "steps" \in With(x).of
            PROVE  /\ children[x.row.id] = Tables
                   /\ SoFar' \cap {"model_calls", "tool_calls"} \subseteq With(x).of
        <4>1. CASE "steps" \in x.of
          BY <1>3, <3>1, <3>2, <4>1
        <4>2. CASE "steps" \notin x.of
          <5>1. t = "steps" /\ t \in children[x.row.id]
            BY <3>2, <3>6, <4>2
          <5>2. SoFar' = {"steps"} /\ children[x.row.id] = Tables
            BY <1>3, <3>3, <5>1
          <5>3. QED BY <5>2
        <4>3. QED BY <4>1, <4>2
      <3>7. QED BY <3>4, <3>5, <3>6
    <2>2. \A x \in req'.got :
            /\ x.of \subseteq SoFar'
            /\ x.row.status = "succeeded" => x.of = SoFar' /\ children'[x.row.id] = Tables
            /\ "steps" \in x.of => /\ children'[x.row.id] = Tables
                                   /\ SoFar' \cap {"model_calls", "tool_calls"} \subseteq x.of
      <3> TAKE y \in req'.got
      <3>1. PICK x \in req.got : y = With(x) /\ y.row = x.row
        BY <1>6
      <3>2. children' = children
        BY <1>2
      <3>3. QED BY <2>1, <3>1, <3>2
    <2>3. \A x, y \in req'.got : x.row.id = y.row.id => x = y
      BY <1>2, <1>6 DEF Fits
    <2>4. QED BY <2>2, <2>3 DEF Fits
  <1>12. Choosing' /\ PagesAreExact' /\ SummaryOfNewest'
    BY <1>2, <1>3 DEF ReadInv, Choosing, PagesAreExact, NoSkips, OneOrder, SummaryOfNewest
  <1>13. ShownWhole'
    BY <1>3, <1>8 DEF ReadInv, ShownWhole
  <1>14. QED BY <1>8, <1>9, <1>10, <1>11, <1>12, <1>13 DEF ReadInv

LEMMA ReplyStep == ASSUME ReadInv, Reply PROVE ReadInv'
  <1>1. Kept /\ InHand /\ StillThere /\ Walk /\ Fits /\ req.pc = "reply"
        /\ runs' = runs /\ children' = children /\ seen' = seen
        /\ pages' = Append(pages, req.got)
    BY DEF ReadInv, Reply
  <1>2. /\ req'.kind = req.kind /\ req'.status = req.status /\ req'.cursor = req.cursor
        /\ req'.ids = req.ids /\ req'.left = {} /\ req'.got = {} /\ req'.todo = <<>>
        /\ req'.pc = IF req.cursor = Null THEN "done" ELSE "rows"
        /\ req.kind \in {"list", "run", "trace"} /\ req.todo = <<>>
    BY <1>1 DEF InHand, Reply
  <1>3. pages \in Seq(SUBSET Shown) /\ req.got \in SUBSET Shown
    BY <1>1 DEF InHand
  <1>4. PICK n \in Nat : n = Len(pages)
    BY <1>3
  <1>5. /\ pages' \in Seq(SUBSET Shown) /\ Len(pages') = n + 1 /\ pages'[n + 1] = req.got
        /\ \A p \in 1..n : pages'[p] = pages[p]
    BY <1>1, <1>3, <1>4
  <1>6. \A p : p \in 1..(n + 1) <=> p \in 1..n \/ p = n + 1
    OBVIOUS
  <1>7. Given' = Given \cup req.got
    BY <1>4, <1>5, <1>6 DEF Given
  <1>8. Kept' /\ StillThere'
    BY <1>1, <1>2 DEF Kept, StillThere
  <1>9. InHand'
    <2>1. req' = [pc |-> req'.pc, kind |-> req.kind, status |-> req.status,
                  cursor |-> req.cursor, ids |-> req.ids, todo |-> <<>>,
                  got |-> {}, left |-> {}]
      BY <1>1, <1>2 DEF Reply, InHand
    <2>2. req' \in [pc : {"idle", "rows", "tables", "choose", "reply", "done"}, kind : Kinds,
                status : {Null} \cup Statuses, cursor : {Null} \cup Rows,
                ids : SUBSET Ids, todo : Seq(Tables), got : SUBSET Shown, left : SUBSET Rows]
      BY <1>1, <1>2, <2>1 DEF InHand
    <2>3. req.kind # "list" => req.cursor = Null
      BY <1>1 DEF InHand
    <2>4. QED BY <1>1, <1>2, <1>5, <2>2, <2>3 DEF InHand
  <1>10. Walk'
    <2>1. req.kind = "list" =>
            /\ req.cursor # Null => \A x \in Given \cup req.got : ~Newer(req.cursor, x.row)
            /\ \A r \in seen : \/ req.cursor # Null /\ Newer(req.cursor, r)
                               \/ Told(r, Given \cup req.got)
      BY <1>1 DEF Walk
    <2>2. QED BY <1>1, <1>2, <1>7, <2>1 DEF Walk, Told
  <1>11. Fits' /\ Choosing' /\ SummaryOfNewest'
    BY <1>2 DEF Fits, Choosing, SummaryOfNewest
  <1>12. NoSkips'
    <2>1. req.kind = "list" /\ req.cursor = Null => \A r \in seen : Told(r, Given \cup req.got)
      BY <1>1 DEF Walk
    <2>2. QED BY <1>1, <1>2, <1>7, <2>1 DEF NoSkips, Told
  <1>13. OneOrder'
    <2>1. /\ \A q \in 1..n : \A p \in 1..(q - 1) :
               \A x \in pages[p], y \in pages[q] : Newer(x.row, y.row)
          /\ \A p \in 1..n : \A x, y \in pages[p] : x.row.id = y.row.id => x = y
      BY <1>4 DEF ReadInv, PagesAreExact, OneOrder
    <2>2. \A p \in 1..n : \A x \in pages[p], y \in req.got : Newer(x.row, y.row)
      <3>1. \A p \in 1..n : pages[p] \subseteq Given /\ pages # <<>>
        BY <1>4 DEF Given
      <3>2. pages # <<>> => req.kind = "list"
        BY <1>1 DEF InHand
      <3>3. QED BY <1>1, <3>1, <3>2 DEF Walk
    <2>3. \A x, y \in req.got : x.row.id = y.row.id => x = y
      BY <1>1 DEF Fits
    <2>4. ASSUME NEW q \in 1..(n + 1), NEW p \in 1..(q - 1),
                 NEW x \in pages'[p], NEW y \in pages'[q]
          PROVE  Newer(x.row, y.row)
      <3>1. p \in 1..n
        OBVIOUS
      <3>2. CASE q = n + 1
        BY <1>5, <2>2, <2>4, <3>1, <3>2
      <3>3. CASE q \in 1..n
        BY <1>5, <2>1, <2>4, <3>1, <3>3
      <3>4. QED BY <1>6, <3>2, <3>3
    <2>5. \A p \in 1..(n + 1) : \A x, y \in pages'[p] : x.row.id = y.row.id => x = y
      BY <1>5, <1>6, <2>1, <2>3
    <2>6. QED BY <1>5, <2>4, <2>5 DEF OneOrder
  <1>14. ShownWhole'
    <2>1. SoFar = Range(Reads(req.kind))
      BY <1>2, ReadsAre DEF SoFar
    <2>2. ASSUME NEW x \in req.got
          PROVE  /\ x.row.status = "succeeded" => x.of = Range(Reads(req.kind))
                 /\ "steps" \in x.of => {"model_calls", "tool_calls"} \subseteq x.of
      <3>1. /\ x.of \subseteq SoFar
            /\ x.row.status = "succeeded" => x.of = SoFar
            /\ "steps" \in x.of => SoFar \cap {"model_calls", "tool_calls"} \subseteq x.of
        BY <1>1, <2>2 DEF Fits
      <3>2. "steps" \in SoFar => SoFar = {"steps", "model_calls", "tool_calls"}
        BY <1>2, <2>1, ReadsAre
      <3>3. QED BY <2>1, <3>1, <3>2
    <2>3. QED BY <1>2, <1>7, <2>2 DEF ReadInv, ShownWhole
  <1>15. QED
    BY <1>8, <1>9, <1>10, <1>11, <1>12, <1>13, <1>14 DEF ReadInv, PagesAreExact

\* The runs of a summary taken from the rows that count.
LEMMA SummarisedBy ==
  ASSUME ReadInv, req.pc = "rows", req.kind \in {"latest", "published"},
         NEW S \in SUBSET Table, Read(DistinctOn(S), Null),
         \A r \in Table : Counts(r) <=> r \in S,
         UNCHANGED <<runs, children, pages, seen>>
  PROVE  ReadInv'
  <1>1. Kept /\ InHand /\ StillThere
    BY DEF ReadInv
  <1>2. /\ IsFiniteSet(Table) /\ Table \in SUBSET Rows /\ OneEach(Table)
        /\ \A i \in Ids : runs[i] # Null => runs[i] \in Table
    BY <1>1, TableRows
  <1>3. IsFiniteSet(S) /\ S \in SUBSET Rows /\ OneEach(S)
    BY <1>2, FS_Subset DEF OneEach
  <1>4. PICK D : D = DistinctOn(S)
    OBVIOUS
  <1>5. /\ D \in SUBSET S /\ (\A r, s \in D : r.card = s.card => r = s)
        /\ \A s \in S : \E r \in D : r.card = s.card /\ ~Newer(s, r)
    BY <1>3, <1>4, DistinctOnGives
  <1>6. Reads(req.kind) = <<>>
    BY ReadsAre
  <1>7. req' = [pc |-> "done", kind |-> req.kind, status |-> req.status, cursor |-> Null,
                ids |-> req.ids, todo |-> <<>>, got |-> AsRead(D), left |-> req.left]
    BY <1>1, <1>4, <1>6 DEF Read, InHand
  <1>8. /\ \A x \in AsRead(D) : x.row \in D /\ x = [row |-> x.row, of |-> {}]
        /\ \A r \in D : [row |-> r, of |-> {}] \in AsRead(D)
        /\ \A r \in D : [row |-> r, of |-> {}].row = r
    BY DEF AsRead
  <1>9. AsRead(D) \subseteq Shown
    BY <1>3, <1>5 DEF AsRead, Shown
  <1>10. Kept' /\ Given' = Given /\ StillThere'
    BY <1>1, <1>7 DEF Kept, Given, StillThere
  <1>11. InHand'
    <2>1. req' \in [pc : {"idle", "rows", "tables", "choose", "reply", "done"}, kind : Kinds,
                status : {Null} \cup Statuses, cursor : {Null} \cup Rows,
                ids : SUBSET Ids, todo : Seq(Tables), got : SUBSET Shown, left : SUBSET Rows]
      BY <1>1, <1>7, <1>9 DEF InHand
    <2>2. /\ req'.pc = "done" /\ req'.kind = req.kind /\ req'.left = req.left
          /\ req'.cursor = Null /\ pages' = pages /\ seen' = seen
      BY <1>7
    <2>3. QED BY <1>1, <2>1, <2>2 DEF InHand
  <1>12. Walk' /\ Fits' /\ Choosing'
    BY <1>7 DEF Walk, Fits, Choosing
  <1>13. PagesAreExact' /\ ShownWhole'
    BY <1>7, <1>10 DEF ReadInv, PagesAreExact, NoSkips, OneOrder, ShownWhole
  <1>14. SummaryOfNewest'
    <2>1. \A r : Counts(r)' <=> Counts(r)
      BY <1>7 DEF Counts
    <2>2. \A x \in req'.got : x.row \in D /\ x.row \in Table /\ Counts(x.row)'
      BY <1>5, <1>7, <1>8, <2>1
    <2>3. ASSUME NEW x \in req'.got, NEW y \in req'.got, y.row.card = x.row.card PROVE y = x
      <3>1. y.row = x.row
        BY <1>5, <2>2, <2>3
      <3>2. QED BY <1>7, <1>8, <3>1
    <2>4. ASSUME NEW s \in seen, Counts(s)'
          PROVE  \E x \in req'.got : x.row.card = s.card /\ ~Newer(s, x.row)
      <3>1. Counts(s) /\ s.status \in Finished /\ s \in Rows /\ s.id \in Ids /\ s # Null
        BY <1>1, <2>1, <2>4, RowTypes DEF Counts, Finished, InHand
      <3>2. runs[s.id] = s
        BY <1>1, <3>1 DEF StillThere
      <3>3. s \in S
        BY <1>2, <3>1, <3>2
      <3>4. PICK r \in D : r.card = s.card /\ ~Newer(s, r)
        BY <1>5, <3>3
      <3>5. PICK x : x = [row |-> r, of |-> {}]
        OBVIOUS
      <3>6. x \in req'.got /\ x.row = r
        BY <1>7, <1>8, <3>5
      <3>7. QED BY <3>4, <3>6
    <2>5. seen' = seen
      OBVIOUS
    <2>6. QED BY <2>2, <2>3, <2>4, <2>5 DEF SummaryOfNewest
  <1>15. QED BY <1>10, <1>11, <1>12, <1>13, <1>14 DEF ReadInv

LEMMA SummaryStep == ASSUME ReadInv, Summarise PROVE ReadInv'
  <1>1. req.pc = "rows" /\ UNCHANGED <<runs, children, pages, seen>>
    BY DEF Summarise
  <1>2. CASE req.kind = "latest" /\ Read(LatestPerCard, Null)
    <2>1. \A r \in Table : Counts(r) <=> r \in Succeeded(Table)
      BY <1>2 DEF Counts, Succeeded
    <2>2. Succeeded(Table) \in SUBSET Table
      BY DEF Succeeded
    <2>3. Read(DistinctOn(Succeeded(Table)), Null)
      BY <1>2 DEF LatestPerCard
    <2>4. QED BY <1>1, <1>2, <2>1, <2>2, <2>3, SummarisedBy
  <1>3. CASE req.kind = "published" /\ Read(DistinctOn(InBatch(Table)), Null)
    <2>1. \A r \in Table : Counts(r) <=> r \in InBatch(Table)
      BY <1>3 DEF Counts, InBatch
    <2>2. InBatch(Table) \in SUBSET Table
      BY DEF InBatch
    <2>3. QED BY <1>1, <1>3, <2>1, <2>2, SummarisedBy
  <1>4. QED BY <1>2, <1>3 DEF Summarise

\* A step of the loop over an explicit list leaves all but req.got and
\* req.left as they are.
LEMMA LoopStep ==
  ASSUME ReadInv, req.kind = "run_ids", NEW pc \in {"choose", "done"},
         NEW got \in SUBSET Shown, NEW left \in SUBSET Rows, pc = "choose" \/ left = {},
         req' = [req EXCEPT !.pc = pc, !.got = got, !.left = left],
         UNCHANGED <<runs, children, pages, seen>>, req.pc \in {"rows", "choose"}
  PROVE  /\ Kept' /\ InHand' /\ StillThere' /\ Walk' /\ Fits' /\ PagesAreExact' /\ ShownWhole'
         /\ req'.pc = pc /\ req'.kind = "run_ids" /\ req'.got = got /\ req'.left = left
  <1>1. Kept /\ InHand /\ StillThere
    BY DEF ReadInv
  <1>2. req' = [pc |-> pc, kind |-> "run_ids", status |-> req.status, cursor |-> req.cursor,
                ids |-> req.ids, todo |-> req.todo, got |-> got, left |-> left]
    BY <1>1 DEF InHand
  <1>3. /\ req'.pc = pc /\ req'.kind = "run_ids" /\ req'.got = got /\ req'.left = left
        /\ req'.status = req.status /\ req'.cursor = req.cursor /\ req'.ids = req.ids
    BY <1>2
  <1>4. Kept' /\ Given' = Given /\ StillThere'
    BY <1>1, <1>3 DEF Kept, Given, StillThere
  <1>5. InHand'
    <2>1. req' \in [pc : {"idle", "rows", "tables", "choose", "reply", "done"}, kind : Kinds,
                status : {Null} \cup Statuses, cursor : {Null} \cup Rows,
                ids : SUBSET Ids, todo : Seq(Tables), got : SUBSET Shown, left : SUBSET Rows]
      BY <1>1, <1>2 DEF InHand, Kinds
    <2>2. pages = <<>> /\ req.cursor = Null
      BY <1>1 DEF InHand
    <2>3. pages' = pages /\ seen' = seen
      OBVIOUS
    <2>4. QED BY <1>1, <1>3, <2>1, <2>2, <2>3 DEF InHand
  <1>6. Walk' /\ Fits'
    BY <1>3 DEF Walk, Fits
  <1>7. PagesAreExact' /\ ShownWhole'
    BY <1>3, <1>4 DEF ReadInv, PagesAreExact, NoSkips, OneOrder, ShownWhole
  <1>8. QED BY <1>3, <1>4, <1>5, <1>6, <1>7

LEMMA FetchStep == ASSUME ReadInv, FetchByIds PROVE ReadInv'
  <1> DEFINE left == {r \in Table : r.id \in req.ids}
  <1>1. Kept /\ InHand /\ StillThere /\ req.pc = "rows" /\ req.kind = "run_ids" /\ req.got = {}
        /\ UNCHANGED <<runs, children, pages, seen>>
    BY DEF ReadInv, FetchByIds, InHand
  <1>2. left \in SUBSET Rows /\ \A i \in Ids : runs[i] # Null => runs[i] \in Table
    BY <1>1, TableRows
  <1>3. req' = [req EXCEPT !.pc = "choose", !.got = {}, !.left = left]
    BY <1>1 DEF FetchByIds, InHand
  <1>4. \A s \in seen : s.status = "succeeded" => s \in left
    <2> TAKE s \in seen
    <2> HAVE s.status = "succeeded"
    <2>1. s \in Rows /\ s.id \in Ids /\ s # Null
      BY <1>1, RowTypes DEF InHand
    <2>2. runs[s.id] = s /\ s.id \in req.ids
      BY <1>1 DEF StillThere, Finished
    <2>3. QED BY <1>2, <2>1, <2>2
  <1> HIDE DEF left
  <1>5. /\ Kept' /\ InHand' /\ StillThere' /\ Walk' /\ Fits' /\ PagesAreExact' /\ ShownWhole'
        /\ req'.pc = "choose" /\ req'.kind = "run_ids" /\ req'.got = {} /\ req'.left = left
    BY <1>1, <1>2, <1>3, LoopStep
  <1>6. Choosing' /\ SummaryOfNewest'
    BY <1>1, <1>4, <1>5 DEF Choosing, SummaryOfNewest
  <1>7. QED BY <1>5, <1>6 DEF ReadInv

LEMMA ChooseStep == ASSUME ReadInv, ChooseNext PROVE ReadInv'
  <1>1. Kept /\ InHand /\ Choosing /\ req.pc = "choose" /\ req.kind = "run_ids"
        /\ UNCHANGED <<runs, children, pages, seen>>
    BY DEF ReadInv, ChooseNext, InHand
  <1>2. PICK r \in req.left :
          req' = [req EXCEPT !.got = Choose(@, r), !.left = @ \ {r}]
    BY DEF ChooseNext
  <1>3. r \in Rows /\ req.left \in SUBSET Rows /\ req.got \in SUBSET Shown
        /\ \A x \in req.got : x.row \in Rows
    BY <1>1 DEF InHand, Shown
  <1>4. PICK got, n : got = Choose(req.got, r) /\ n = [row |-> r, of |-> {}]
    OBVIOUS
  <1>5. n.row = r /\ n \in Shown
    BY <1>3, <1>4 DEF Shown
  <1>6. PICK prev : prev = {x \in req.got : x.row.card = r.card}
    OBVIOUS
  <1>7. got = IF r.status # "succeeded" \/ \E x \in prev : ~Newer(r, x.row) THEN req.got
              ELSE (req.got \ prev) \cup {n}
    BY <1>4, <1>6 DEF Choose, Outdone
  <1>8. got \in SUBSET Shown
    BY <1>3, <1>5, <1>7
  <1>9. PICK left \in SUBSET Rows : left = req.left \ {r}
    BY <1>3
  <1>9a. req' = [req EXCEPT !.pc = "choose", !.got = got, !.left = left]
    BY <1>1, <1>2, <1>4, <1>9 DEF InHand
  <1>10. /\ Kept' /\ InHand' /\ StillThere' /\ Walk' /\ Fits' /\ PagesAreExact' /\ ShownWhole'
         /\ req'.pc = "choose" /\ req'.got = got /\ req'.left = req.left \ {r}
    <2>1. /\ Kept' /\ InHand' /\ StillThere' /\ Walk' /\ Fits' /\ PagesAreExact' /\ ShownWhole'
          /\ req'.pc = "choose" /\ req'.got = got /\ req'.left = left
      BY <1>1, <1>8, <1>9, <1>9a, LoopStep
    <2>2. QED BY <1>9, <2>1
  <1>11. /\ \A x \in req.got : x.row.status = "succeeded"
         /\ \A x, y \in req.got : x.row.card = y.row.card => x = y
         /\ \A s \in seen : s.status = "succeeded" =>
              s \in req.left \/ \E x \in req.got : x.row.card = s.card /\ ~Newer(s, x.row)
         /\ seen \subseteq Rows
    BY <1>1 DEF Choosing, InHand
  <1>12. Choosing'
    <2>1. CASE r.status # "succeeded" \/ \E x \in prev : ~Newer(r, x.row)
      <3>1. got = req.got
        BY <1>7, <2>1
      <3>2. r.status = "succeeded" => \E x \in req.got : x.row.card = r.card /\ ~Newer(r, x.row)
        BY <1>6, <2>1
      <3>3. QED BY <1>1, <1>10, <1>11, <3>1, <3>2 DEF Choosing
    <2>2. CASE r.status = "succeeded" /\ \A x \in prev : Newer(r, x.row)
      <3>1. got = (req.got \ prev) \cup {n}
        BY <1>7, <2>2
      <3>2. \A x \in got : x.row.status = "succeeded"
        BY <1>5, <1>11, <2>2, <3>1
      <3>3. \A x, y \in got : x.row.card = y.row.card => x = y
        BY <1>5, <1>6, <1>11, <3>1
      <3>4. ASSUME NEW s \in seen, s.status = "succeeded"
            PROVE  \/ s \in req.left \ {r}
                   \/ \E x \in got : x.row.card = s.card /\ ~Newer(s, x.row)
        <4>1. s \in Rows
          BY <1>11
        <4>2. CASE s = r
          <5>1. ~Newer(s, n.row) /\ n.row.card = s.card
            BY <1>5, <4>1, <4>2, RowOrder
          <5>2. QED BY <3>1, <5>1
        <4>3. CASE \E x \in req.got : x.row.card = s.card /\ ~Newer(s, x.row)
          <5>1. PICK x \in req.got : x.row.card = s.card /\ ~Newer(s, x.row)
            BY <4>3
          <5>2. CASE x \in prev
            <6>1. Newer(r, x.row) /\ x.row \in Rows /\ x.row.card = r.card
              BY <1>3, <1>6, <2>2, <5>2
            <6>2. ~Newer(s, r)
              BY <1>3, <4>1, <5>1, <6>1, RowOrder
            <6>3. n.row.card = s.card /\ ~Newer(s, n.row)
              BY <1>5, <5>1, <6>1, <6>2
            <6>4. QED BY <3>1, <6>3
          <5>3. CASE x \notin prev
            BY <3>1, <5>1, <5>3
          <5>4. QED BY <5>2, <5>3
        <4>4. QED BY <1>11, <3>4, <4>2, <4>3
      <3>5. QED BY <1>1, <1>10, <3>2, <3>3, <3>4 DEF Choosing
    <2>3. QED BY <2>1, <2>2
  <1>13. SummaryOfNewest'
    BY <1>10 DEF SummaryOfNewest
  <1>14. QED BY <1>10, <1>12, <1>13 DEF ReadInv

LEMMA ChosenStep == ASSUME ReadInv, Chosen PROVE ReadInv'
  <1>1. InHand /\ Choosing /\ req.pc = "choose" /\ req.kind = "run_ids" /\ req.left = {}
        /\ UNCHANGED <<runs, children, pages, seen>>
    BY DEF ReadInv, Chosen, InHand
  <1>2. req' = [req EXCEPT !.pc = "done", !.got = req.got, !.left = {}] /\ req.got \in SUBSET Shown
    BY <1>1 DEF Chosen, InHand
  <1>3. /\ Kept' /\ InHand' /\ StillThere' /\ Walk' /\ Fits' /\ PagesAreExact' /\ ShownWhole'
        /\ req'.pc = "done" /\ req'.kind = "run_ids" /\ req'.got = req.got
    BY <1>1, <1>2, LoopStep
  <1>4. Choosing'
    BY <1>3 DEF Choosing
  <1>5. \A r : Counts(r)' <=> r.status = "succeeded"
    BY <1>3 DEF Counts
  <1>6. SummaryOfNewest'
    BY <1>1, <1>3, <1>5 DEF Choosing, SummaryOfNewest
  <1>7. QED BY <1>3, <1>4, <1>6 DEF ReadInv

(* ------------------------------- theorems ------------------------------ *)

\* Every commit and every statement keeps the invariant.
LEMMA ReadInvHolds == ReadInv /\ [Next]_vars => ReadInv'
  <1> SUFFICES ASSUME ReadInv, [Next]_vars PROVE ReadInv'
    OBVIOUS
  <1>1. CASE Write
    BY <1>1, WriteStep
  <1>2. CASE Ask
    <2>1. CASE \E s \in {Null, "queued"} : Begin("list", s, {})
      BY <2>1, AskStep DEF Kinds, Statuses
    <2>2. CASE \E k \in {"run", "trace"}, i \in Ids : Begin(k, Null, {i})
      BY <2>2, AskStep DEF Kinds
    <2>3. CASE \E k \in {"latest", "published"} : Begin(k, Null, Ids)
      BY <2>3, AskStep DEF Kinds
    <2>4. CASE \E ids \in SUBSET Ids \ {{}} : Begin("run_ids", Null, ids)
      BY <2>4, AskStep DEF Kinds
    <2>5. QED BY <1>2, <2>1, <2>2, <2>3, <2>4 DEF Ask
  <1>3. CASE Answer
    BY <1>3, ListStep, GetRunStep, TableStep, ReplyStep, SummaryStep, FetchStep, ChooseStep,
       ChosenStep DEF Answer
  <1>4. CASE UNCHANGED vars
    <2>1. /\ runs' = runs /\ children' = children /\ req' = req /\ pages' = pages
          /\ seen' = seen
      BY <1>4 DEF vars
    <2>2. Given' = Given /\ SoFar' = SoFar
      BY <2>1 DEF Given, SoFar
    <2>3. Kept' /\ InHand' /\ StillThere' /\ Choosing'
      BY <2>1 DEF ReadInv, Kept, InHand, StillThere, Choosing
    <2>4. Walk' /\ Fits'
      BY <2>1, <2>2 DEF ReadInv, Walk, Fits, Told
    <2>5. PagesAreExact' /\ ShownWhole' /\ SummaryOfNewest'
      BY <2>1, <2>2
         DEF ReadInv, PagesAreExact, NoSkips, OneOrder, ShownWhole, SummaryOfNewest, Counts
    <2>6. QED BY <2>3, <2>4, <2>5 DEF ReadInv
  <1>5. QED BY <1>1, <1>2, <1>3, <1>4 DEF Next

LEMMA ReadInvariant == Spec => []ReadInv
  BY Init0, ReadInvHolds, PTL DEF Spec

\* Walking GET /runs by its cursors gives every run that was there to be given,
\* and no run twice, whatever is written between two pages.
THEOREM PagesExact == Spec => []PagesAreExact
  <1>1. ReadInv => PagesAreExact
    BY DEF ReadInv
  <1>2. QED BY <1>1, ReadInvariant, PTL

\* A reply put together from several statements never shows a succeeded run
\* without its children, or a step without its calls.
THEOREM RepliesFit == Spec => []ShownWhole
  <1>1. ReadInv => ShownWhole
    BY DEF ReadInv
  <1>2. QED BY <1>1, ReadInvariant, PTL

\* Each pick of GET /summary stands on the newest run of a card that counts.
THEOREM SummariesOfNewest == Spec => []SummaryOfNewest
  <1>1. ReadInv => SummaryOfNewest
    BY DEF ReadInv
  <1>2. QED BY <1>1, ReadInvariant, PTL

===============================================================================
