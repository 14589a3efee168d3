---------------------------- MODULE CatalogProofs ----------------------------
(****************************************************************************)
(* Proofs about Catalog for every number of apis, migration files, cards,   *)
(* versions and faults.                                                     *)
(****************************************************************************)
EXTENDS Catalog, FiniteSetTheorems, TLAPS

(* ----------------------- the inductive invariant ----------------------- *)

\* What is in hand of a file read already: nothing is owed of one skipped.
InHand(s, c) == IF s.loaded[c] = Null THEN s.owed[c] = 0 ELSE s.owed[c] <= s.loaded[c]

Reading(s) == s.pc \in {"load", "upsert"}

\* A pass owes no more than the files say.
PassOk(s) ==
    /\ s.pc = "upsert" => s.todo = {}
    /\ Reading(s) => \A c \in Cards : IF c \in s.todo THEN s.owed[c] <= yaml[c]
                                                       ELSE InHand(s, c)

\* An api that nothing has excused has failed once at most for every file that
\* another has recorded: the attempts it has used up are not more than these.
RaceOk(s) ==
    /\ s.already \subseteq ledger
    /\ ~s.excused =>
         /\ s.pc = "ledger" => s.attempt - 1 <= Cardinality(ledger)
         /\ s.pc = "files"  => s.attempt - 1 <= Cardinality(s.already)
         /\ s.pc = "sleep"  => s.attempt <= Cardinality(ledger)
         /\ s.pc = "up"     => s.synced

ApiOk(s) == s \in Api /\ PassOk(s) /\ RaceOk(s)

CatalogInv ==
    /\ TypeOK /\ LedgerTells /\ SnapshotAsOfPass
    /\ \A a \in Apis : ApiOk(apis[a])

(* -------------------------------- lemmas ------------------------------- *)

\* The ledger is finite.
LEMMA FilesFinite == IsFiniteSet(Files) /\ Cardinality(Files) = NFiles
  BY FS_Interval, CatalogAssumption DEF Files

\* The others stand as well as before when the ledger and the files only grow.
LEMMA OthersKeep ==
  ASSUME ledger \subseteq ledger', ledger' \subseteq Files,
         \A c \in Cards : yaml[c] <= yaml'[c],
         yaml \in [Cards -> Versions], yaml' \in [Cards -> Versions],
         NEW s, ApiOk(s)
  PROVE  ApiOk(s)'
  <1>1. PassOk(s)'
    <2>1. \A c \in Cards : s.owed[c] \in Int /\ yaml[c] \in Int /\ yaml'[c] \in Int
      BY CatalogAssumption DEF ApiOk, Api, Versions
    <2>2. QED BY <2>1 DEF ApiOk, PassOk, Reading, InHand
  <1>2. Cardinality(ledger) <= Cardinality(ledger')
    BY FilesFinite, FS_Subset, FS_CardinalityType
  <1>3. Cardinality(ledger) \in Nat /\ Cardinality(ledger') \in Nat
    BY FilesFinite, FS_Subset, FS_CardinalityType
  <1>4. s.attempt \in Nat
    BY CatalogAssumption DEF ApiOk, Api
  <1>5. RaceOk(s)'
    BY <1>2, <1>3, <1>4 DEF ApiOk, RaceOk
  <1>6. QED BY <1>1, <1>5 DEF ApiOk, Api, Versions

\* An api without a pass or a ledger in hand.
LEMMA BareOk ==
  ASSUME NEW pc \in {"down", "ledger", "sleep", "up"}, NEW attempt \in 1..Attempts,
         NEW conn \in BOOLEAN, NEW synced \in BOOLEAN, NEW excused \in BOOLEAN,
         ~excused => /\ pc = "ledger" => attempt - 1 <= Cardinality(ledger)
                     /\ pc = "sleep"  => attempt <= Cardinality(ledger)
                     /\ pc = "up"     => synced
  PROVE  ApiOk(Bare(pc, attempt, conn, synced, excused))
  <1> DEFINE s == Bare(pc, attempt, conn, synced, excused)
  <1>1. /\ s.pc = pc /\ s.attempt = attempt /\ s.already = {} /\ s.excused = excused
        /\ s.synced = synced
    BY DEF Bare
  <1>2. s \in Api
    BY DEF Bare, Api, Nothing
  <1> HIDE DEF s
  <1>3. PassOk(s) /\ RaceOk(s)
    BY <1>1 DEF PassOk, Reading, RaceOk
  <1>4. QED BY <1>2, <1>3 DEF ApiOk, s

\* An attempt that fails for a reason, or because another api was faster.
LEMMA FailedOk ==
  ASSUME NEW s, ApiOk(s), NEW excuse \in BOOLEAN,
         ~excuse /\ ~s.excused => s.attempt <= Cardinality(ledger),
         ledger \subseteq Files
  PROVE  ApiOk(Failed(s, excuse))
  <1>1. s.attempt \in 1..Attempts /\ s.excused \in BOOLEAN
    BY DEF ApiOk, Api
  <1>2. Cardinality(ledger) \in Nat /\ Cardinality(ledger) <= NFiles
    BY FilesFinite, FS_Subset, FS_CardinalityType
  <1>3. (s.excused \/ excuse) \in BOOLEAN
    OBVIOUS
  <1>4. CASE GivesUp(s)
    <2>1. s.excused \/ excuse
      BY <1>1, <1>2, <1>4, CatalogAssumption DEF GivesUp
    <2>2. 1 \in 1..Attempts
      BY CatalogAssumption
    <2>3. ApiOk(Bare("up", 1, FALSE, FALSE, s.excused \/ excuse))
      BY <1>3, <2>1, <2>2, BareOk
    <2>4. QED BY <1>4, <2>3 DEF Failed
  <1>5. CASE ~GivesUp(s)
    <2>1. ApiOk(Bare("sleep", s.attempt, FALSE, FALSE, s.excused \/ excuse))
      BY <1>1, <1>3, BareOk
    <2>2. QED BY <1>5, <2>1 DEF Failed
  <1>6. QED BY <1>4, <1>5

\* The files and the tables only grow.
Grows ==
    /\ ledger \subseteq ledger' /\ ledger' \subseteq Files
    /\ yaml' \in [Cards -> Versions] /\ \A c \in Cards : yaml[c] <= yaml'[c]

\* A step that touches the state of no api.
LEMMA AllKeep ==
  ASSUME CatalogInv, Grows, UNCHANGED apis
  PROVE  \A a \in Apis : ApiOk(apis[a])'
  <1> TAKE a \in Apis
  <1>1. PICK s : s = apis[a]
    OBVIOUS
  <1>2. ApiOk(s)
    BY <1>1 DEF CatalogInv
  <1>3. ApiOk(s)'
    BY <1>2, OthersKeep DEF Grows, CatalogInv, TypeOK
  <1>4. apis'[a] = s
    BY <1>1
  <1>5. QED BY <1>3, <1>4 DEF ApiOk, PassOk, Reading, InHand, RaceOk

\* A step of one api into a state that stands.
LEMMA OneMoves ==
  ASSUME CatalogInv, Grows, NEW a \in Apis, NEW t,
         apis' = [apis EXCEPT ![a] = t], ApiOk(t)'
  PROVE  /\ apis' \in [Apis -> Api]
         /\ \A b \in Apis : ApiOk(apis[b])'
  <1>1. apis \in [Apis -> Api]
    BY DEF CatalogInv, TypeOK
  <1>2. t \in Api
    BY DEF ApiOk, Api, Versions
  <1>3. apis' \in [Apis -> Api]
    BY <1>1, <1>2
  <1>4. ASSUME NEW b \in Apis PROVE ApiOk(apis[b])'
    <2>1. CASE b = a
      <3>1. apis'[b] = t
        BY <1>1, <2>1
      <3>2. QED BY <3>1 DEF ApiOk, PassOk, Reading, InHand, RaceOk
    <2>2. CASE b # a
      <3>1. PICK s : s = apis[b]
        OBVIOUS
      <3>2. ApiOk(s)
        BY <3>1 DEF CatalogInv
      <3>3. ApiOk(s)'
        BY <3>2, OthersKeep DEF Grows, CatalogInv, TypeOK
      <3>4. apis'[b] = s
        BY <1>1, <2>2, <3>1
      <3>5. QED BY <3>3, <3>4 DEF ApiOk, PassOk, Reading, InHand, RaceOk
    <2>3. QED BY <2>1, <2>2
  <1>5. QED BY <1>3, <1>4

\* ... while the tables and the files stay as they are.
LEMMA OneMovesAlone ==
  ASSUME CatalogInv, NEW a \in Apis, NEW t, ApiOk(t),
         apis' = [apis EXCEPT ![a] = t],
         UNCHANGED <<db, tables, files>>, faults' \in 0..MaxFaults
  PROVE  CatalogInv'
  <1>1. Grows
    <2>1. \A c \in Cards : yaml[c] \in Int
      BY CatalogAssumption DEF CatalogInv, TypeOK, Versions
    <2>2. QED BY <2>1 DEF Grows, tables, files, CatalogInv, TypeOK
  <1>2. ApiOk(t)'
    BY <1>1, OthersKeep DEF Grows, CatalogInv, TypeOK
  <1>3. apis' \in [Apis -> Api] /\ \A b \in Apis : ApiOk(apis[b])'
    BY <1>1, <1>2, OneMoves
  <1>4. (TypeOK /\ LedgerTells /\ SnapshotAsOfPass)'
    BY <1>3 DEF CatalogInv, TypeOK, LedgerTells, SnapshotAsOfPass, tables, files, Api, Versions
  <1>5. QED BY <1>3, <1>4 DEF CatalogInv

(* -------------------------------- the steps ---------------------------- *)

\* What the invariant says of one api.
LEMMA ApiFacts ==
  ASSUME CatalogInv, NEW a \in Apis
  PROVE  ApiOk(apis[a]) /\ apis[a] \in Api /\ apis[a].attempt \in 1..Attempts
         /\ db \in BOOLEAN /\ Cardinality(ledger) \in Nat /\ ledger \subseteq Files
         /\ 1 \in 1..Attempts /\ faults \in 0..MaxFaults
  <1>1. Cardinality(ledger) \in Nat
    BY FilesFinite, FS_Subset, FS_CardinalityType DEF CatalogInv, TypeOK
  <1>2. ApiOk(apis[a]) /\ ledger \subseteq Files /\ db \in BOOLEAN
    BY DEF CatalogInv, TypeOK
  <1>3. apis[a] \in Api /\ apis[a].attempt \in 1..Attempts
    BY <1>2 DEF ApiOk, Api
  <1>4. faults \in 0..MaxFaults /\ 1 \in 1..Attempts
    BY CatalogAssumption DEF CatalogInv, TypeOK
  <1>5. QED BY <1>1, <1>2, <1>3, <1>4

\* lifespan() begins, sleeps, or loses its connection.
LEMMA AttemptsKeep ==
  ASSUME CatalogInv, NEW a \in Apis, Boot(a) \/ Sleep(a) \/ Lost(a) \/ Crash(a)
  PROVE  CatalogInv'
  <1>0. /\ ApiOk(apis[a]) /\ apis[a] \in Api /\ apis[a].attempt \in 1..Attempts
        /\ db \in BOOLEAN /\ Cardinality(ledger) \in Nat /\ ledger \subseteq Files
        /\ 1 \in 1..Attempts /\ faults \in 0..MaxFaults
    BY ApiFacts
  <1> USE <1>0
  <1>1. CASE Boot(a)
    <2>1. 1 - 1 <= Cardinality(ledger)
      OBVIOUS
    <2>2. ApiOk(Bare("ledger", 1, db, FALSE, FALSE))
      BY <2>1, BareOk
    <2>3. QED BY <1>1, <2>2, OneMovesAlone DEF Boot, Becomes
  <1>2. CASE Sleep(a)
    <2> DEFINE n == Smaller(apis[a].attempt + 1, Attempts)
    <2>1. n \in 1..Attempts /\ n <= apis[a].attempt + 1
      BY CatalogAssumption DEF Smaller
    <2>2. ~apis[a].excused => n - 1 <= Cardinality(ledger)
      BY <1>2, <2>1 DEF Sleep, ApiOk, RaceOk
    <2>3. apis[a].excused \in BOOLEAN
      BY DEF Api
    <2> HIDE DEF n
    <2>4. ApiOk(Bare("ledger", n, db, FALSE, apis[a].excused))
      BY <2>1, <2>2, <2>3, BareOk
    <2>5. QED BY <1>2, <2>4, OneMovesAlone DEF Sleep, Becomes, n
  <1>3. CASE Lost(a)
    <2>1. ApiOk(Failed(apis[a], TRUE))
      BY FailedOk
    <2>2. QED BY <1>3, <2>1, OneMovesAlone DEF Lost, Becomes
  <1>4. CASE Crash(a)
    <2>1. ApiOk(Down)
      BY BareOk DEF Down
    <2>2. faults' \in 0..MaxFaults
      BY <1>4, CatalogAssumption DEF Crash
    <2>3. QED BY <1>4, <2>1, <2>2, OneMovesAlone DEF Crash, Becomes
  <1>5. QED BY <1>1, <1>2, <1>3, <1>4

\* apply_pending(): what the ledger said, then file by file.
LEMMA MigrateKeeps ==
  ASSUME CatalogInv, NEW a \in Apis, ReadLedger(a) \/ Apply(a) \/ AllApplied(a)
  PROVE  CatalogInv'
  <1>0. /\ ApiOk(apis[a]) /\ apis[a] \in Api /\ apis[a].attempt \in 1..Attempts
        /\ Cardinality(ledger) \in Nat /\ ledger \subseteq Files
        /\ faults \in 0..MaxFaults
    BY ApiFacts
  <1>00. PICK s : s = apis[a]
    OBVIOUS
  <1> USE <1>0, <1>00
  <1>1. CASE ReadLedger(a)
    <2> DEFINE t == [s EXCEPT !.pc = "files", !.already = ledger]
    <2>1. /\ t \in Api /\ t.pc = "files" /\ t.already = ledger
          /\ t.attempt = s.attempt /\ t.excused = s.excused
      BY DEF Api
    <2>2. apis' = [apis EXCEPT ![a] = t] /\ s.pc = "ledger"
      BY <1>1 DEF ReadLedger, Becomes, Recorded
    <2> HIDE DEF t
    <2>3. PassOk(t) /\ RaceOk(t)
      BY <2>1, <2>2 DEF PassOk, Reading, RaceOk, ApiOk
    <2>4. ApiOk(t)
      BY <2>1, <2>3 DEF ApiOk
    <2>5. QED BY <1>1, <2>2, <2>4, OneMovesAlone DEF ReadLedger
  <1>2. CASE Apply(a)
    <2>1. PICK f \in Files :
            /\ Earliest(f, Files \ s.already)
            /\ IF f \in schema \cup ledger
                 THEN Becomes(a, Failed(apis[a], FALSE)) /\ UNCHANGED tables
                 ELSE /\ schema' = schema \cup {f} /\ ledger' = WithRow(f)
                      /\ Becomes(a, [apis[a] EXCEPT !.already = @ \cup {f}])
                      /\ UNCHANGED <<cards, asOf>>
      BY <1>2 DEF Apply
    <2>2. /\ UNCHANGED <<db, files, faults>> /\ s.pc = "files"
          /\ s.already \subseteq ledger /\ f \notin s.already
      BY <1>2, <2>1 DEF Apply, Earliest, ApiOk, RaceOk
    <2>3. CASE f \in schema \cup ledger
      <3>1. f \in ledger
        BY <2>3 DEF CatalogInv, LedgerTells
      <3>2. Cardinality(s.already) < Cardinality(ledger) /\ Cardinality(s.already) \in Nat
        BY <2>2, <3>1, FilesFinite, FS_Subset, FS_CardinalityType
      <3>3. ~s.excused => s.attempt <= Cardinality(ledger)
        BY <2>2, <3>2 DEF ApiOk, RaceOk
      <3>4. ApiOk(Failed(s, FALSE))
        BY <3>3, FailedOk
      <3>5. QED BY <2>1, <2>2, <2>3, <3>4, OneMovesAlone DEF Becomes
    <2>4. CASE f \notin schema \cup ledger
      <3> DEFINE t == [s EXCEPT !.already = @ \cup {f}]
      <3>1. /\ t \in Api /\ t.pc = "files" /\ t.already = s.already \cup {f}
            /\ t.attempt = s.attempt /\ t.excused = s.excused
        BY <2>2 DEF Api
      <3>2. /\ apis' = [apis EXCEPT ![a] = t] /\ ledger' = ledger \cup {f}
            /\ schema' = schema \cup {f} /\ UNCHANGED <<cards, asOf, db, yaml, saving, faults>>
        BY <2>1, <2>2, <2>4 DEF Becomes, WithRow, files
      <3> HIDE DEF t
      <3>3. \A g \in Files : g < f => g \in ledger
        BY <2>1, <2>2, CatalogAssumption DEF Earliest, Files
      <3>4. LedgerTells'
        BY <3>2, <3>3 DEF CatalogInv, LedgerTells
      <3>5. Grows
        <4>1. \A c \in Cards : yaml[c] \in Int
          BY CatalogAssumption DEF CatalogInv, TypeOK, Versions
        <4>2. QED BY <3>2, <4>1 DEF Grows, CatalogInv, TypeOK
      <3>6. /\ Cardinality(s.already) \in Nat
            /\ Cardinality(t.already) = Cardinality(s.already) + 1
        <4>1. IsFiniteSet(s.already)
          BY <2>2, FilesFinite, FS_Subset
        <4>2. Cardinality(s.already \cup {f}) = Cardinality(s.already) + 1
          BY <2>2, <4>1, FS_AddElement
        <4>3. QED BY <3>1, <4>1, <4>2, FS_CardinalityType
      <3>7. ApiOk(t)'
        <4>1. PassOk(t)'
          BY <3>1 DEF PassOk, Reading
        <4>2. RaceOk(t)'
          <5>1. t.already \subseteq ledger'
            BY <2>2, <3>1, <3>2
          <5>2. ~t.excused => t.attempt - 1 <= Cardinality(t.already)
            BY <2>2, <3>1, <3>6 DEF ApiOk, RaceOk
          <5>3. QED BY <3>1, <5>1, <5>2 DEF RaceOk
        <4>3. QED BY <3>1, <4>1, <4>2 DEF ApiOk, Api, Versions
      <3>8. apis' \in [Apis -> Api] /\ \A b \in Apis : ApiOk(apis[b])'
        BY <3>2, <3>5, <3>7, OneMoves
      <3>9. TypeOK'
        BY <3>2, <3>8 DEF CatalogInv, TypeOK, Api, Versions
      <3>10. SnapshotAsOfPass'
        BY <3>2 DEF CatalogInv, SnapshotAsOfPass
      <3>11. QED BY <3>4, <3>8, <3>9, <3>10 DEF CatalogInv
    <2>5. QED BY <2>3, <2>4
  <1>3. CASE AllApplied(a)
    <2> DEFINE t == [s EXCEPT !.pc = "load", !.todo = Cards, !.loaded = Nothing, !.owed = yaml]
    <2>1. /\ t \in Api /\ t.pc = "load" /\ t.already = s.already /\ t.todo = Cards
          /\ t.owed = yaml /\ t.excused = s.excused
      BY DEF Api, Nothing, CatalogInv, TypeOK
    <2>2. apis' = [apis EXCEPT ![a] = t]
      BY <1>3 DEF AllApplied, Becomes
    <2> HIDE DEF t
    <2>3. \A c \in Cards : yaml[c] \in Int
      BY CatalogAssumption DEF CatalogInv, TypeOK, Versions
    <2>4. PassOk(t) /\ RaceOk(t)
      BY <2>1, <2>3 DEF PassOk, Reading, RaceOk, ApiOk
    <2>5. ApiOk(t)
      BY <2>1, <2>4 DEF ApiOk
    <2>6. QED BY <1>3, <2>2, <2>5, OneMovesAlone DEF AllApplied
  <1>4. QED BY <1>1, <1>2, <1>3

\* load_cards() reads a file, or skips it and owes nothing of it.
LEMMA ReadsOk ==
  ASSUME CatalogInv, NEW s, ApiOk(s), s.pc = "load", NEW c \in s.todo,
         NEW row, NEW owed,
         \/ row = yaml[c] /\ owed = s.owed[c]
         \/ row = Null /\ owed = 0
  PROVE  ApiOk(Reads(s, c, row, owed))
  <1> DEFINE t == Reads(s, c, row, owed)
  <1>1. /\ s \in Api /\ c \in Cards /\ s.owed[c] \in Versions \cup {0}
        /\ yaml[c] \in Versions
    BY DEF ApiOk, Api, CatalogInv, TypeOK
  <1>2. row \in Versions \cup {Null} /\ owed \in Versions \cup {0}
    BY <1>1
  <1>3. [s.loaded EXCEPT ![c] = row] \in [Cards -> Versions \cup {Null}]
    BY <1>1, <1>2 DEF Api
  <1>4. [s.owed EXCEPT ![c] = owed] \in [Cards -> Versions \cup {0}]
    BY <1>1, <1>2 DEF Api
  <1>5. /\ t.todo = s.todo \ {c} /\ t.loaded = [s.loaded EXCEPT ![c] = row]
        /\ t.owed = [s.owed EXCEPT ![c] = owed]
        /\ t.pc = IF s.todo = {c} THEN "upsert" ELSE "load"
        /\ t.already = s.already /\ t.excused = s.excused
    BY <1>1 DEF Reads, Api
  <1>6. t \in Api
    BY <1>1, <1>3, <1>4 DEF Reads, Api
  <1> HIDE DEF t
  <1>7. \A d \in Cards : IF d \in t.todo THEN t.owed[d] <= yaml[d] ELSE InHand(t, d)
    <2> TAKE d \in Cards
    <2>1. CASE d = c
      <3>1. t.loaded[d] = row /\ t.owed[d] = owed /\ d \notin t.todo
        BY <1>1, <1>5, <2>1 DEF Api
      <3>2. s.owed[c] <= yaml[c] /\ Null \notin Versions
        BY <1>1, CatalogAssumption DEF ApiOk, PassOk, Reading, Versions
      <3>3. QED BY <1>1, <3>1, <3>2, <2>1 DEF InHand
    <2>2. CASE d # c
      <3>1. t.loaded[d] = s.loaded[d] /\ t.owed[d] = s.owed[d]
            /\ (d \in t.todo <=> d \in s.todo)
        BY <1>1, <1>5, <2>2 DEF Api
      <3>2. IF d \in s.todo THEN s.owed[d] <= yaml[d] ELSE InHand(s, d)
        BY DEF ApiOk, PassOk, Reading
      <3>3. QED BY <3>1, <3>2 DEF InHand
    <2>3. QED BY <2>1, <2>2
  <1>8. PassOk(t) /\ RaceOk(t)
    BY <1>5, <1>7 DEF PassOk, RaceOk, ApiOk
  <1>9. QED BY <1>6, <1>8 DEF ApiOk, t

\* load_cards() goes on by a file, or fails at one half written.
LEMMA LoadKeeps ==
  ASSUME CatalogInv, NEW a \in Apis, Load(a)
  PROVE  CatalogInv'
  <1>1. PICK s : s = apis[a]
    OBVIOUS
  <1>2. /\ ApiOk(s) /\ s.pc = "load" /\ ledger \subseteq Files /\ faults \in 0..MaxFaults
        /\ UNCHANGED <<db, tables, files, faults>>
    BY <1>1, ApiFacts DEF Load
  <1>3. PICK c \in Cards :
          /\ c \in s.todo
          /\ \/ Becomes(a, Reads(s, c, yaml[c], s.owed[c]))
             \/ Becomes(a, Reads(s, c, Null, 0))
             \/ Becomes(a, Failed(s, TRUE))
    BY <1>1 DEF Load, Earliest
  <1>4. /\ ApiOk(Reads(s, c, yaml[c], s.owed[c])) /\ ApiOk(Reads(s, c, Null, 0))
        /\ ApiOk(Failed(s, TRUE))
    <2>1. PICK v : v = yaml[c]
      OBVIOUS
    <2>2. ApiOk(Reads(s, c, v, s.owed[c]))
      BY <1>2, <1>3, <2>1, ReadsOk
    <2>3. ApiOk(Reads(s, c, Null, 0))
      BY <1>2, <1>3, ReadsOk
    <2>4. QED BY <1>2, <2>1, <2>2, <2>3, FailedOk
  <1>5. PICK t : apis' = [apis EXCEPT ![a] = t] /\ ApiOk(t)
    BY <1>3, <1>4 DEF Becomes
  <1>6. QED BY <1>2, <1>5, OneMovesAlone

\* The transaction of sync() leaves rows that are as new as what was owed.
LEMMA SyncKeeps ==
  ASSUME CatalogInv, NEW a \in Apis, Sync(a)
  PROVE  CatalogInv'
  <1>1. PICK s : s = apis[a]
    OBVIOUS
  <1>2. /\ ApiOk(s) /\ s \in Api /\ s.pc = "upsert" /\ UNCHANGED <<db, schema, ledger, files, faults>>
        /\ cards' = [c \in Cards |-> Upserted(cards[c], s.loaded[c])] /\ asOf' = s.owed
        /\ apis' = [apis EXCEPT ![a] = Bare("up", 1, FALSE, TRUE, FALSE)]
    BY <1>1, ApiFacts DEF Sync, Becomes
  <1>3. \A c \in Cards : InHand(s, c)
    BY <1>2 DEF ApiOk, PassOk, Reading
  <1>4. cards' \in [Cards -> Versions \cup {Null}] /\ asOf' \in [Cards -> Versions \cup {0}]
    BY <1>2 DEF Upserted, Api, CatalogInv, TypeOK
  <1>5. SnapshotAsOfPass'
    <2> SUFFICES ASSUME NEW c \in Cards, s.owed[c] > 0
                 PROVE  cards'[c] # Null /\ cards'[c] >= s.owed[c]
      BY <1>2 DEF SnapshotAsOfPass
    <2>1. s.loaded[c] # Null /\ s.owed[c] <= s.loaded[c]
      BY <1>3 DEF InHand
    <2>2. cards'[c] = s.loaded[c] /\ s.loaded[c] \in Versions
      BY <1>2, <2>1 DEF Upserted, Api
    <2>3. s.owed[c] \in Int /\ s.loaded[c] \in Int /\ Null \notin Versions
      BY <1>2, <2>2, CatalogAssumption DEF Api, Versions
    <2>4. QED BY <2>1, <2>2, <2>3
  <1>6. Grows
    <2>1. \A c \in Cards : yaml[c] \in Int
      BY CatalogAssumption DEF CatalogInv, TypeOK, Versions
    <2>2. QED BY <1>2, <2>1 DEF Grows, files, CatalogInv, TypeOK
  <1>7. PICK t : t = Bare("up", 1, FALSE, TRUE, FALSE)
    OBVIOUS
  <1>8. ApiOk(t)
    BY <1>7, BareOk, CatalogAssumption, 1 \in 1..Attempts
  <1>9. ApiOk(t)'
    BY <1>6, <1>8, OthersKeep DEF Grows, CatalogInv, TypeOK
  <1>10. apis' \in [Apis -> Api] /\ \A b \in Apis : ApiOk(apis[b])'
    BY <1>2, <1>6, <1>7, <1>9, OneMoves
  <1>11. TypeOK' /\ LedgerTells'
    BY <1>2, <1>4, <1>10 DEF CatalogInv, TypeOK, LedgerTells, files, Api, Versions
  <1>12. QED BY <1>5, <1>10, <1>11 DEF CatalogInv

\* Somebody saves a card, or the database goes away or comes back.
LEMMA SurroundingsKeep ==
  ASSUME CatalogInv,
         (\E c \in Cards : SaveStart(c) \/ SaveEnd(c)) \/ DbDown \/ DbUp
  PROVE  CatalogInv'
  <1>0. /\ \A c \in Cards : yaml[c] \in Versions /\ yaml[c] \in Int
        /\ MaxVersion \in Nat /\ MaxFaults \in Nat /\ ledger \subseteq Files
        /\ yaml \in [Cards -> Versions]
    BY CatalogAssumption DEF CatalogInv, TypeOK, Versions
  <1>1. ASSUME NEW c \in Cards, SaveStart(c) PROVE CatalogInv'
    <2>1. /\ yaml' = [yaml EXCEPT ![c] = @ + 1] /\ yaml[c] < MaxVersion
          /\ saving' = saving \cup {c} /\ UNCHANGED <<db, tables, apis, faults>>
      BY <1>1 DEF SaveStart
    <2>2. yaml[c] + 1 \in Versions
      BY <1>0, <2>1 DEF Versions
    <2>3. yaml' \in [Cards -> Versions]
      BY <1>0, <2>1, <2>2
    <2>4. \A d \in Cards : yaml[d] <= yaml'[d]
      BY <1>0, <2>1
    <2>5. Grows
      BY <1>0, <2>1, <2>3, <2>4 DEF Grows, tables
    <2>6. \A a \in Apis : ApiOk(apis[a])'
      BY <2>1, <2>5, AllKeep
    <2>7. (TypeOK /\ LedgerTells /\ SnapshotAsOfPass)'
      BY <2>1, <2>3 DEF CatalogInv, TypeOK, LedgerTells, SnapshotAsOfPass, tables, Api, Versions
    <2>8. QED BY <2>6, <2>7 DEF CatalogInv
  <1>2. ASSUME UNCHANGED <<yaml, tables, apis, faults>>, db' \in BOOLEAN,
               saving' \subseteq Cards
        PROVE  CatalogInv'
    <2>1. Grows
      BY <1>0, <1>2 DEF Grows, tables
    <2>2. \A a \in Apis : ApiOk(apis[a])'
      BY <1>2, <2>1, AllKeep
    <2>3. (TypeOK /\ LedgerTells /\ SnapshotAsOfPass)'
      BY <1>2 DEF CatalogInv, TypeOK, LedgerTells, SnapshotAsOfPass, tables, Api, Versions
    <2>4. QED BY <2>2, <2>3 DEF CatalogInv
  <1>3. ASSUME NEW c \in Cards, SaveEnd(c) PROVE CatalogInv'
    BY <1>2, <1>3 DEF SaveEnd, CatalogInv, TypeOK
  <1>4. CASE DbUp
    BY <1>2, <1>4 DEF DbUp, files, CatalogInv, TypeOK
  <1>5. CASE DbDown
    <2>1. /\ UNCHANGED <<tables, files>> /\ db' = FALSE /\ faults' \in 0..MaxFaults
          /\ apis' = [a \in Apis |-> [apis[a] EXCEPT !.conn = FALSE]]
      BY <1>0, <1>5 DEF DbDown, CatalogInv, TypeOK
    <2>2. Grows
      BY <1>0, <2>1 DEF Grows, tables, files
    <2>3. ASSUME NEW a \in Apis PROVE apis'[a] \in Api /\ ApiOk(apis[a])'
      <3>1. PICK s : s = apis[a]
        OBVIOUS
      <3>2. ApiOk(s) /\ s \in Api
        BY <3>1 DEF CatalogInv, ApiOk
      <3> DEFINE t == [s EXCEPT !.conn = FALSE]
      <3>3. /\ t \in Api /\ t.pc = s.pc /\ t.attempt = s.attempt /\ t.already = s.already
            /\ t.todo = s.todo /\ t.loaded = s.loaded /\ t.synced = s.synced
            /\ t.owed = s.owed /\ t.excused = s.excused
        BY <3>2 DEF Api
      <3>4. apis'[a] = t
        BY <2>1, <3>1
      <3> HIDE DEF t
      <3>5. ApiOk(t)
        BY <3>2, <3>3 DEF ApiOk, PassOk, Reading, InHand, RaceOk
      <3>6. ApiOk(t)'
        BY <2>2, <3>5, OthersKeep DEF Grows, CatalogInv, TypeOK
      <3>7. QED BY <3>3, <3>4, <3>6 DEF ApiOk, PassOk, Reading, InHand, RaceOk
    <2>4. apis' \in [Apis -> Api]
      BY <2>1, <2>3
    <2>5. (TypeOK /\ LedgerTells /\ SnapshotAsOfPass)'
      BY <2>1, <2>4 DEF CatalogInv, TypeOK, LedgerTells, SnapshotAsOfPass, tables, files, Api, Versions
    <2>6. QED BY <2>3, <2>5 DEF CatalogInv
  <1>6. QED BY <1>1, <1>3, <1>4, <1>5

\* No api runs before the first one boots.
LEMMA InitCatalogInv ==
  ASSUME Init PROVE CatalogInv
  <1>0. 1 \in 1..Attempts /\ 1 \in Versions
    BY CatalogAssumption DEF Versions
  <1>1. ApiOk(Down)
    BY <1>0, BareOk DEF Down
  <1>2. Down \in Api
    BY <1>1 DEF ApiOk
  <1>3. TypeOK
    <2>1. apis \in [Apis -> Api] /\ yaml \in [Cards -> Versions]
      BY <1>0, <1>2 DEF Init
    <2>2. cards \in [Cards -> Versions \cup {Null}] /\ asOf \in [Cards -> Versions \cup {0}]
      BY DEF Init, Nothing
    <2>3. QED BY <2>1, <2>2, CatalogAssumption DEF Init, TypeOK
  <1>4. LedgerTells /\ SnapshotAsOfPass
    BY DEF Init, LedgerTells, SnapshotAsOfPass
  <1>5. \A a \in Apis : ApiOk(apis[a])
    BY <1>1 DEF Init
  <1>6. QED BY <1>3, <1>4, <1>5 DEF CatalogInv

\* The invariant is inductive.
LEMMA CatalogInvHolds == Spec => []CatalogInv
  <1>1. Init => CatalogInv
    BY InitCatalogInv
  <1>2. CatalogInv /\ [Next]_vars => CatalogInv'
    <2> SUFFICES ASSUME CatalogInv, [Next]_vars PROVE CatalogInv'
      OBVIOUS
    <2>1. ASSUME NEW a \in Apis, Startup(a) PROVE CatalogInv'
      BY <2>1, AttemptsKeep, MigrateKeeps, LoadKeeps, SyncKeeps DEF Startup
    <2>2. ASSUME NEW a \in Apis, Crash(a) PROVE CatalogInv'
      BY <2>2, AttemptsKeep
    <2>3. CASE (\E c \in Cards : SaveStart(c) \/ SaveEnd(c)) \/ DbDown \/ DbUp
      BY <2>3, SurroundingsKeep
    <2>4. CASE UNCHANGED vars
      BY <2>4 DEF vars, CatalogInv, TypeOK, LedgerTells, SnapshotAsOfPass, ApiOk,
                  PassOk, Reading, InHand, RaceOk, Api, Versions
    <2>5. QED BY <2>1, <2>2, <2>3, <2>4 DEF Next
  <1>3. QED BY <1>1, <1>2, PTL DEF Spec

(* ------------------------------- theorems ------------------------------ *)

\* Every variable of the start-up stays within its type.
THEOREM CatalogTypeCorrect == Spec => []TypeOK
  BY CatalogInvHolds, PTL DEF CatalogInv

\* For any number of apis that migrate side by side and die anywhere: a file is
\* recorded in schema_migrations exactly when its DDL is in, in filename order.
THEOREM LedgerAlwaysTells == Spec => []LedgerTells
  BY CatalogInvHolds, PTL DEF CatalogInv

\* With fewer migration files than attempts, however many apis start side by
\* side: none serves without having synced unless the database or a half
\* written yaml has failed one of its attempts.
THEOREM RaceNeverExhaustsAttempts == Spec => []SyncedUnlessExcused
  <1>1. CatalogInv => SyncedUnlessExcused
    BY DEF CatalogInv, ApiOk, RaceOk, SyncedUnlessExcused
  <1>2. QED BY <1>1, CatalogInvHolds, PTL

\* No row of the snapshot is older than its file was when the pass that was
\* committed last began, save for a file that pass caught half written.
THEOREM SnapshotIsAsOfPass == Spec => []SnapshotAsOfPass
  BY CatalogInvHolds, PTL DEF CatalogInv
=============================================================================
