------------------------------- MODULE Catalog -------------------------------
(****************************************************************************)
(* How the api container comes up: lifespan() of service/app/main.py tries  *)
(* up to ten times to apply the pending migrations (migrate.py) and to      *)
(* bring the `cards` table up to date with scenarios/*.yaml                 *)
(* (cards_sync.py); then it serves, migrated or not.                        *)
(*                                                                          *)
(* The database goes away and comes back, an api dies and compose starts it *)
(* again, two of them may start side by side, and the batch runner saves    *)
(* cards meanwhile: save() truncates the yaml and fills it in later.        *)
(* A yaml is represented by the number of its version, higher when newer.   *)
(* Left out: what the columns of a card are, and the check of the eight     *)
(* files of its pack behind evidence_ok.                                    *)
(****************************************************************************)
EXTENDS Integers, FiniteSets

CONSTANTS
    Null,
    Apis,         \* api processes
    NFiles,       \* the migration files are 1..NFiles, in filename order
    Cards,        \* the scenario files, numbered in filename order
    Attempts,     \* how often lifespan() tries; ten in the code, with two files
    MaxVersion,   \* bound: versions of a yaml
    MaxFaults     \* bound: times an api dies or the database goes away

ASSUME CatalogAssumption ==
    /\ NFiles \in Nat \ {0} /\ Attempts \in Nat /\ NFiles < Attempts
    /\ Cards \subseteq Nat /\ IsFiniteSet(Cards) /\ Cards # {}
    /\ MaxVersion \in Nat \ {0} /\ MaxFaults \in Nat
    /\ Null \notin Nat

Files    == 1..NFiles
Versions == 1..MaxVersion

VARIABLES
    db,        \* does the database answer
    schema,    \* migration files whose DDL is in the database
    ledger,    \* versions recorded in schema_migrations
    cards,     \* the table: per card, the version snapshot or Null
    yaml,      \* per card, the version in the file
    saving,    \* cards whose yaml is truncated and being written
    apis,      \* per process
    faults,
    asOf       \* history: the files when the pass that was committed last began;
               \* zero for a file it had to skip

vars == <<db, schema, ledger, cards, yaml, saving, apis, faults, asOf>>

\* `conn`: the connection of the attempt is alive; `loaded`: rows of the yaml
\* files read so far, Null for a file skipped; `todo`: files still to read.
\* `owed` and `excused` are history: the files when the pass began, and whether
\* the database or a half written yaml has failed an attempt.
Api == [pc      : {"down", "ledger", "files", "load", "upsert", "sleep", "up"},
        attempt : 1..Attempts,
        conn    : BOOLEAN,
        already : SUBSET Files,
        todo    : SUBSET Cards,
        loaded  : [Cards -> Versions \cup {Null}],
        synced  : BOOLEAN,
        owed    : [Cards -> Versions \cup {0}],
        excused : BOOLEAN]

Nothing == [c \in Cards |-> Null]

\* An api with nothing in hand.
Bare(pc, attempt, conn, synced, excused) ==
    [pc |-> pc, attempt |-> attempt, conn |-> conn, already |-> {}, todo |-> {},
     loaded |-> Nothing, synced |-> synced, owed |-> [c \in Cards |-> 0],
     excused |-> excused]

Down == Bare("down", 1, FALSE, FALSE, FALSE)

TypeOK ==
    /\ db \in BOOLEAN /\ schema \subseteq Files /\ ledger \subseteq Files
    /\ cards \in [Cards -> Versions \cup {Null}]
    /\ yaml \in [Cards -> Versions] /\ saving \subseteq Cards
    /\ apis \in [Apis -> Api]
    /\ faults \in 0..MaxFaults /\ asOf \in [Cards -> Versions \cup {0}]

Becomes(a, state) == apis' = [apis EXCEPT ![a] = state]

files  == <<yaml, saving>>
tables == <<schema, ledger, cards, asOf>>

(* ------------------------------- lifespan ------------------------------ *)

Boot(a) ==
    /\ apis[a].pc = "down"
    /\ Becomes(a, Bare("ledger", 1, db, FALSE, FALSE))
    /\ UNCHANGED <<db, tables, files, faults>>

\* The except branch: another attempt after a second, or none.
GivesUpNever(s) == FALSE

GivesUp(s) == s.attempt = Attempts

Failed(s, excuse) ==
    IF GivesUp(s) THEN Bare("up", 1, FALSE, FALSE, s.excused \/ excuse)
                  ELSE Bare("sleep", s.attempt, FALSE, FALSE, s.excused \/ excuse)

Smaller(m, n) == IF m < n THEN m ELSE n

\* The loops go through the files in the order of their names.
Earliest(f, todo) == f \in todo /\ \A g \in todo : f <= g

Sleep(a) ==
    /\ apis[a].pc = "sleep"
    /\ Becomes(a, Bare("ledger", Smaller(apis[a].attempt + 1, Attempts), db, FALSE,
                       apis[a].excused))
    /\ UNCHANGED <<db, tables, files, faults>>

\* A statement, or the connect, that finds the database gone.
Lost(a) ==
    /\ apis[a].pc \in {"ledger", "files", "upsert"} /\ ~apis[a].conn
    /\ Becomes(a, Failed(apis[a], TRUE))
    /\ UNCHANGED <<db, tables, files, faults>>

NoneRecorded == {}

\* SELECT version FROM schema_migrations
Recorded == ledger

\* apply_pending(): the ledger is created and read in a transaction ...
ReadLedger(a) ==
    /\ apis[a].pc = "ledger" /\ apis[a].conn
    /\ Becomes(a, [apis[a] EXCEPT !.pc = "files", !.already = Recorded])
    /\ UNCHANGED <<db, tables, files, faults>>

\* ... and each file not in it is applied together with its row.  DDL that is
\* in the database already raises, as does a second row of one version.
WithoutRow(f) == ledger

WithRow(f) == ledger \cup {f}

Apply(a) ==
    /\ apis[a].pc = "files" /\ apis[a].conn
    /\ \E f \in Files :
         /\ Earliest(f, Files \ apis[a].already)
         /\ IF f \in schema \cup ledger
              THEN Becomes(a, Failed(apis[a], FALSE)) /\ UNCHANGED tables
              ELSE /\ schema' = schema \cup {f} /\ ledger' = WithRow(f)
                   /\ Becomes(a, [apis[a] EXCEPT !.already = @ \cup {f}])
                   /\ UNCHANGED <<cards, asOf>>
    /\ UNCHANGED <<db, files, faults>>

AllApplied(a) ==
    /\ apis[a].pc = "files" /\ apis[a].already = Files
    /\ Becomes(a, [apis[a] EXCEPT !.pc = "load", !.todo = Cards, !.loaded = Nothing,
                     !.owed = yaml])
    /\ UNCHANGED <<db, tables, files, faults>>

(* ------------------------------ cards_sync ----------------------------- *)

Reads(s, c, row, owed) ==
    [s EXCEPT !.todo = @ \ {c}, !.loaded = [@ EXCEPT ![c] = row],
              !.owed = [@ EXCEPT ![c] = owed],
              !.pc = IF s.todo = {c} THEN "upsert" ELSE @]

\* load_cards(), file by file: an empty file is no card and is skipped; of one
\* half written the parser may make a card, with the verdict at its head, or
\* raise.
Load(a) ==
    /\ apis[a].pc = "load"
    /\ \E c \in Cards :
         /\ Earliest(c, apis[a].todo)
         /\ \/ Becomes(a, Reads(apis[a], c, yaml[c], apis[a].owed[c]))
            \/ c \in saving /\ Becomes(a, Reads(apis[a], c, Null, 0))
            \/ c \in saving /\ Becomes(a, Failed(apis[a], TRUE))
    /\ UNCHANGED <<db, tables, files, faults>>

\* upsert_card(): a row that says something else is replaced; no row goes.
InsertedOnly(old, new) == IF old = Null THEN new ELSE old

Upserted(old, new) == IF new = Null THEN old ELSE new

\* All cards in one transaction, then the counts.
Sync(a) ==
    /\ apis[a].pc = "upsert" /\ apis[a].conn
    /\ cards' = [c \in Cards |-> Upserted(cards[c], apis[a].loaded[c])]
    /\ asOf' = apis[a].owed
    /\ Becomes(a, Bare("up", 1, FALSE, TRUE, FALSE))
    /\ UNCHANGED <<db, schema, ledger, files, faults>>

(* ------------------------------ surroundings --------------------------- *)

\* save() of scripts/scenarios/cards.py: open(path, "w"), then the text.
SaveStart(c) ==
    /\ c \notin saving /\ yaml[c] < MaxVersion
    /\ saving' = saving \cup {c}
    /\ yaml' = [yaml EXCEPT ![c] = @ + 1]
    /\ UNCHANGED <<db, tables, apis, faults>>

SaveEnd(c) ==
    /\ c \in saving
    /\ saving' = saving \ {c}
    /\ UNCHANGED <<db, tables, yaml, apis, faults>>

DbDown ==
    /\ db /\ faults < MaxFaults
    /\ db' = FALSE /\ faults' = faults + 1
    /\ apis' = [a \in Apis |-> [apis[a] EXCEPT !.conn = FALSE]]
    /\ UNCHANGED <<tables, files>>

DbUp == ~db /\ db' = TRUE /\ UNCHANGED <<tables, files, apis, faults>>

Crash(a) ==
    /\ apis[a].pc # "down" /\ faults < MaxFaults
    /\ Becomes(a, Down) /\ faults' = faults + 1
    /\ UNCHANGED <<db, tables, files>>

(* ----------------------------- specification --------------------------- *)

Init ==
    /\ db \in BOOLEAN /\ schema = {} /\ ledger = {} /\ cards = Nothing
    /\ yaml = [c \in Cards |-> 1] /\ saving = {}
    /\ apis = [a \in Apis |-> Down] /\ faults = 0 /\ asOf = [c \in Cards |-> 0]

Startup(a) ==
    \/ Boot(a) \/ Sleep(a) \/ Lost(a) \/ ReadLedger(a) \/ Apply(a)
    \/ AllApplied(a) \/ Load(a) \/ Sync(a)

Next ==
    \/ \E a \in Apis : Startup(a) \/ Crash(a)
    \/ \E c \in Cards : SaveStart(c) \/ SaveEnd(c)
    \/ DbDown \/ DbUp

Spec == Init /\ [][Next]_vars

\* compose starts a dead container again and an api never waits for anyone;
\* nothing is assumed of the database and of who saves cards.
FairSpec == Spec /\ \A a \in Apis : WF_vars(Startup(a))

(* ------------------------------ properties ----------------------------- *)

\* The ledger and the database agree whoever dies when: a file is recorded
\* exactly when its DDL is in, and none before the files in front of it.
LedgerTells ==
    /\ ledger = schema
    /\ \A f \in schema : \A g \in Files : g < f => g \in schema

\* An api that starts beside another, or after one that died half way, does not
\* use up its attempts on what the other has done: it serves without having
\* synced only when the database or a half written yaml failed an attempt.
SyncedUnlessExcused ==
    \A a \in Apis : apis[a].pc = "up" /\ ~apis[a].synced => apis[a].excused

\* GET /cards and the gate of POST /runs stand on rows of one pass at least: none
\* is older than its file was when the pass committed last began, save for a
\* file that pass caught while it was being saved.
SnapshotAsOfPass ==
    \A c \in Cards : asOf[c] > 0 => cards[c] # Null /\ cards[c] >= asOf[c]

\* Whatever the database does, a started api ends up answering requests.
EveryApiServes == \A a \in Apis : <>[](apis[a].pc = "up")
=============================================================================
