----------------------------- MODULE EvalService -----------------------------
(****************************************************************************)
(* The evaluation service of service/app: the POST /runs handler, the queue *)
(* table, the worker that executes claimed runs, and POST /admin/reimport.  *)
(*                                                                          *)
(* Every SQL statement the code commits on its own is one action, so two    *)
(* requests, a worker and a reimport interleave exactly at the statement    *)
(* boundaries of the code.  The evidence file is opened (truncated) and     *)
(* closed in two steps, because write_result() does not write atomically.   *)
(*                                                                          *)
(* Rows of the table `runs` are kept in two maps: those POST /runs created, *)
(* numbered in created_at order, and those reimport inserted, whose run_id  *)
(* is a hash of the artefact path and which are therefore indexed by it.    *)
(****************************************************************************)
EXTENDS Integers, FiniteSets, FiniteSetsExt, Functions

CONSTANTS
    Clients,      \* concurrent callers of POST /runs
    Keys,         \* idempotency keys
    Bodies,       \* request bodies up to their digest (card, arm, model)
    Workers,      \* worker processes; the deployment runs one
    Admins,       \* concurrent callers of POST /admin/reimport
    Null,         \* SQL NULL, Python None
    Torn,         \* content of a file opened or half written: not valid JSON
    Budget,       \* RCA_DAILY_BUDGET_USD
    MaxCost,      \* what one execution of an arm may cost at most
    MayOverrun,   \* may a live execution outlast RCA_RUN_TIMEOUT_S
    MaxRuns,      \* bound: rows POST /runs may create
    MaxDay,       \* bound: days 0..MaxDay pass
    MaxFaults     \* bound: crashes, lost connections and SIGTERMs of workers

ASSUME BoundsAssumption ==
    /\ Budget \in Nat
    /\ MaxCost \in Nat
    /\ MaxRuns \in Nat
    /\ MaxDay \in Nat
    /\ MaxFaults \in Nat
    /\ MayOverrun \in BOOLEAN

\* A single worker sweeps only between two executions, so how long one takes
\* cannot matter; several workers must each finish within the timeout.
ASSUME DeploymentAssumption ==
    MayOverrun => \A v, w \in Workers : v = w

RunIds == 1..MaxRuns
Days   == 0..MaxDay
Paths  == RunIds \X Days          \* service_<date>_<hex8>/<card>.json

VARIABLES
    runs,      \* rows of `runs` created by POST /runs
    imported,  \* rows of `runs` inserted by reimport
    disk,      \* artifacts/agent_runs
    today,     \* date_trunc('day', now())
    clients,   \* POST /runs requests in progress
    workers,   \* worker processes
    admins,    \* reimport calls in progress
    \* What happened, for the properties; no action reads these.
    answers,   \* 202 replies: which run a key and a body were told
    paid,      \* what the executions of a run have really cost, up to PaidCap
    faulted,   \* runs in hand when a worker or its connection was lost
    faults     \* crashes, lost connections and SIGTERMs so far

vars == <<runs, imported, disk, today, clients, workers, admins,
          answers, paid, faulted, faults>>

ghosts == <<answers, paid, faulted, faults>>

(* ------------------------------- types --------------------------------- *)

\* An arm's result dict: what it cost, whether it answered without error, and
\* the day it finished (its started_at field is stamped when it ends).
Results == [cost : 0..MaxCost, ok : BOOLEAN, day : Days]

ASSUME NullAssumption ==
    /\ Null \notin Keys \cup Bodies \cup RunIds \cup Paths \cup (0..MaxCost)
    /\ Null # Torn /\ {Null, Torn} \cap Results = {}

Statuses == {"absent", "queued", "running", "succeeded", "failed"}

Rows == [status : Statuses,
         key    : Keys \cup {Null},
         body   : Bodies \cup {Null},
         day    : Days,
         stale  : BOOLEAN,          \* started_at < now() - run_timeout_s
         cost   : 0..MaxCost \cup {Null},
         path   : Paths \cup {Null}]

NoRow == [status |-> "absent", key |-> Null, body |-> Null, day |-> 0,
          stale |-> FALSE, cost |-> Null, path |-> Null]

Requests == [pc   : {"idle", "gate", "lookup", "budget", "insert", "resolve"},
             key  : Keys \cup {Null},
             body : Bodies \cup {Null},
             known : BOOLEAN]       \* history: the key had a row on arrival

Idle == [pc |-> "idle", key |-> Null, body |-> Null, known |-> FALSE]

WorkerPcs == {"down", "poll", "sweep", "claim",
              "arm", "open", "close", "finish", "fallback"}

WorkerStates == [pc   : WorkerPcs,
                 stop : BOOLEAN,              \* SIGTERM seen
                 run  : RunIds \cup {Null},   \* the claimed row
                 day  : Days,                 \* date in the artefact directory
                 res  : Results \cup {Null},
                 path : Paths \cup {Null}]    \* artifact_path in execute()

ExecutingPcs == {"arm", "open", "close", "finish", "fallback"}

Executing(w) == workers[w].pc \in ExecutingPcs

\* What execute() has in hand: the claimed row and, once the arm has returned,
\* its result; once the file is closed, its path.
Consistent(s) ==
    /\ s.pc \in ExecutingPcs => s.run \in RunIds
    /\ s.pc \in {"open", "close", "finish"} => s.res \in Results
    /\ s.pc = "finish" => s.path # Null
    /\ s.path # Null => s.pc \in ExecutingPcs /\ s.path[1] = s.run

InHand == \A w \in Workers : Consistent(workers[w])

Fresh(pc) == [pc |-> pc, stop |-> FALSE, run |-> Null, day |-> 0,
              res |-> Null, path |-> Null]

\* Of a reimport call: the paths in the table when it began, the files listed
\* and not yet read, and the file it has read and is about to insert.
Calls ==
    [pc : {"idle", "list", "scan"}, seen : SUBSET Paths, todo : SUBSET Paths,
     at : {Null}, row : {Null}]
      \cup [pc : {"insert"}, seen : SUBSET Paths, todo : SUBSET Paths,
            at : Paths, row : Results \cup {Null}]

NoCall == [pc |-> "idle", seen |-> {}, todo |-> {}, at |-> Null, row |-> Null]

PaidCap == MaxCost * (MaxDay + 2)    \* all that the rows of one run can record

TypeOK ==
    /\ runs \in [RunIds -> Rows]
    /\ imported \in [Paths -> Results \cup {Null}]
    /\ disk \in [Paths -> Results \cup {Null, Torn}]
    /\ today \in Days
    /\ clients \in [Clients -> Requests]
    /\ workers \in [Workers -> WorkerStates]
    /\ InHand
    /\ admins \in [Admins -> Calls]
    /\ answers \subseteq [key : Keys \cup {Null}, body : Bodies \cup {Null}, run : RunIds]
    /\ paid \in [RunIds -> 0..PaidCap]
    /\ faulted \subseteq RunIds
    /\ faults \in 0..MaxFaults

Init ==
    /\ runs = [r \in RunIds |-> NoRow]
    /\ imported = [p \in Paths |-> Null]
    /\ disk = [p \in Paths |-> Null]
    /\ today = 0
    /\ clients = [c \in Clients |-> Idle]
    /\ workers = [w \in Workers |-> Fresh("poll")]
    /\ admins = [a \in Admins |-> NoCall]
    /\ answers = {}
    /\ paid = [r \in RunIds |-> 0]
    /\ faulted = {}
    /\ faults = 0

(* ------------------------------ the table ------------------------------ *)

Exists(r) == runs[r].status # "absent"

RowOfKey(k) == {r \in RunIds : Exists(r) /\ runs[r].key = k}

\* The partial unique index runs_idem: NULL keys never collide.
KeyTakenNoIndex(k) == FALSE
KeyTaken(k) == k # Null /\ RowOfKey(k) # {}

\* The unique index runs_artifact, as an insert or an update sees it that gives
\* path p to row r of POST /runs (or to an imported row, r = Null).
PathTakenNoIndex(p, r) == FALSE
PathTaken(p, r) ==
    /\ p # Null
    /\ \/ imported[p] # Null
       \/ \E s \in RunIds \ {r} : runs[s].path = p

\* artifact_run_id(): the run's own id is part of the directory name.
PathOfDay(r, d) == <<1, d>>
PathOfNextDay(r, d) == <<r, d + 1>>
PathOf(r, d) == <<r, d>>

CostOf(row) == IF row.cost = Null THEN 0 ELSE row.cost

\* spent_today(): the costs recorded on rows created today, both kinds.
SpentToday ==
    LET mine == {r \in RunIds : Exists(r) /\ runs[r].day = today}
        backfilled == {p \in Paths : imported[p] # Null /\ imported[p].day = today}
    IN  MapThenSumSet(LAMBDA r : CostOf(runs[r]), mine)
          + MapThenSumSet(LAMBDA p : imported[p].cost, backfilled)

(* ------------------------------ POST /runs ----------------------------- *)

serviceVars == <<imported, disk, today, workers, admins, paid, faulted, faults>>

Step(c, pc) == clients' = [clients EXCEPT ![c].pc = pc]

\* The handler returns (or raises an ApiError): the connection is closed.
Return(c) == clients' = [clients EXCEPT ![c] = Idle]

Post(c) ==
    /\ clients[c].pc = "idle"
    /\ \E k \in Keys \cup {Null}, b \in Bodies :
         /\ k = Null => \E r \in RunIds : ~Exists(r)      \* bound MaxRuns
         /\ clients' = [clients EXCEPT ![c] =
                          [pc |-> "gate", key |-> k, body |-> b, known |-> KeyTaken(k)]]
    /\ UNCHANGED <<runs, answers, serviceVars>>

\* 404 card_not_found, 422 evidence_leak or evidence_missing; also the request
\* dying with the api process at any statement.
Refuse(c) ==
    /\ clients[c].pc # "idle"
    /\ Return(c)
    /\ UNCHANGED <<runs, answers, serviceVars>>

\* After the card gates: requests without a key skip the lookup.
AfterGateToBudget(c) == "budget"
AfterGate(c) == IF clients[c].key = Null THEN "budget" ELSE "lookup"

PassGates(c) ==
    /\ clients[c].pc = "gate"
    /\ Step(c, AfterGate(c))
    /\ UNCHANGED <<runs, answers, serviceVars>>

\* _replay_or_conflict(): the same body is told the original run (202), any
\* other body 409.
Replay(c, r) ==
    IF runs[r].body = clients[c].body
      THEN {[key |-> clients[c].key, body |-> clients[c].body, run |-> r]}
      ELSE {}

Lookup(c) ==
    /\ clients[c].pc = "lookup"
    /\ \/ /\ RowOfKey(clients[c].key) = {}
          /\ Step(c, "budget")
          /\ UNCHANGED answers
       \/ \E r \in RowOfKey(clients[c].key) :
            /\ answers' = answers \cup Replay(c, r)
            /\ Return(c)
    /\ UNCHANGED <<runs, serviceVars>>

BudgetGate(c) ==
    /\ clients[c].pc = "budget"
    /\ IF SpentToday >= Budget
         THEN Return(c)                                 \* 429 budget_exceeded
         ELSE Step(c, "insert")
    /\ UNCHANGED <<runs, answers, serviceVars>>

NewRow(c) == [status |-> "queued", key |-> clients[c].key, body |-> clients[c].body,
              day |-> today, stale |-> FALSE, cost |-> Null, path |-> Null]

\* Rows are numbered in created_at order: the new row gets the next number.
NextRow(r) == ~Exists(r) /\ \A s \in 1..(r - 1) : Exists(s)

Insert(c) ==
    /\ clients[c].pc = "insert"
    /\ IF KeyTaken(clients[c].key)
         THEN /\ Step(c, "resolve")                     \* UniqueViolation
              /\ UNCHANGED <<runs, answers>>
         ELSE \E r \in RunIds :                         \* bound MaxRuns
              /\ NextRow(r)
              /\ runs' = [runs EXCEPT ![r] = NewRow(c)]
              /\ answers' = answers \cup
                   {[key |-> clients[c].key, body |-> clients[c].body, run |-> r]}
              /\ Return(c)
    /\ UNCHANGED serviceVars

\* Rows are never deleted, so the lookup after a UniqueViolation always finds
\* the row that won: the 409 "in flight; retry" of the code cannot happen.
Resolve(c) ==
    /\ clients[c].pc = "resolve"
    /\ \E r \in RowOfKey(clients[c].key) : answers' = answers \cup Replay(c, r)
    /\ Return(c)
    /\ UNCHANGED <<runs, serviceVars>>

(* ------------------------------ the worker ----------------------------- *)

requestVars == <<clients, answers, admins, imported, today>>

Goto(w, pc) == workers' = [workers EXCEPT ![w].pc = pc]

\* execute() returned; the loop sweeps, then looks at _stop and claims again.
Leave(w, pc) ==
    workers' = [workers EXCEPT ![w] = [Fresh(pc) EXCEPT !.stop = workers[w].stop]]

\* while not _stop: connect.
Poll(w) ==
    /\ workers[w].pc = "poll"
    /\ Goto(w, IF workers[w].stop THEN "down" ELSE "sweep")
    /\ UNCHANGED <<runs, disk, paid, faulted, faults, requestVars>>

\* REQUEUE_SQL.
RequeueRunning(r) == runs[r].status = "running"
RequeueUnfinished(r) == runs[r].status \in {"running", "failed"}
RequeueNone(r) == FALSE
Requeueable(r) == runs[r].status = "running" /\ runs[r].stale

Sweep(w) ==
    /\ workers[w].pc = "sweep"
    /\ runs' = [r \in RunIds |->
                  IF Requeueable(r)
                    THEN [runs[r] EXCEPT !.status = "queued", !.stale = FALSE]
                    ELSE runs[r]]
    /\ Goto(w, "claim")
    /\ UNCHANGED <<disk, paid, faulted, faults, requestVars>>

Queued == {r \in RunIds : runs[r].status = "queued"}

\* CLAIM_SQL: the oldest queued row, picked and marked in one statement.
ClaimRow(r) ==
    /\ r \in Queued
    /\ \A s \in Queued : r <= s
    /\ runs' = [runs EXCEPT ![r].status = "running", ![r].stale = FALSE]

Claim(w) ==
    /\ workers[w].pc = "claim"
    /\ \/ /\ workers[w].stop \/ Queued = {}
          /\ Goto(w, "poll")
          /\ UNCHANGED runs
       \/ /\ ~workers[w].stop
          /\ \E r \in RunIds :
               /\ ClaimRow(r)
               /\ workers' = [workers EXCEPT
                                ![w].pc = "arm", ![w].run = r, ![w].day = today]
    /\ UNCHANGED <<disk, paid, faulted, faults, requestVars>>

Charge(r, c) ==
    paid' = [paid EXCEPT ![r] = IF @ + c > PaidCap THEN PaidCap ELSE @ + c]

\* The arm returns a result, or raises after having spent something.
RunArm(w) ==
    /\ workers[w].pc = "arm"
    /\ \E c \in 0..MaxCost :
         /\ Charge(workers[w].run, c)
         /\ \/ \E ok \in BOOLEAN :
                 workers' = [workers EXCEPT
                               ![w].pc = "open",
                               ![w].res = [cost |-> c, ok |-> ok, day |-> today]]
            \/ Goto(w, "fallback")
    /\ UNCHANGED <<runs, disk, faulted, faults, requestVars>>

\* write_result(): open(path, "w") truncates, json.dump fills; either may raise.
OpenArtifact(w) ==
    /\ workers[w].pc = "open"
    /\ \/ /\ disk' = [disk EXCEPT ![PathOf(workers[w].run, workers[w].day)] = Torn]
          /\ Goto(w, "close")
       \/ /\ Goto(w, "fallback")
          /\ UNCHANGED disk
    /\ UNCHANGED <<runs, paid, faulted, faults, requestVars>>

CloseArtifact(w) ==
    LET p == PathOf(workers[w].run, workers[w].day)
    IN  /\ workers[w].pc = "close"
        /\ \/ /\ disk' = [disk EXCEPT ![p] = workers[w].res]
              /\ workers' = [workers EXCEPT ![w].pc = "finish", ![w].path = p]
           \/ /\ Goto(w, "fallback")
              /\ UNCHANGED disk
        /\ UNCHANGED <<runs, paid, faulted, faults, requestVars>>

\* The row as step 3 of execute() lands it, children and all, in one transaction.
Landed(w) ==
    [runs[workers[w].run] EXCEPT
       !.status = IF workers[w].res.ok THEN "succeeded" ELSE "failed",
       !.stale = FALSE,
       !.cost = workers[w].res.cost,
       !.path = workers[w].path]

\* The row as the except branch lands it: it leaves cost_usd alone.
Failed(w) ==
    [runs[workers[w].run] EXCEPT
       !.status = "failed", !.stale = FALSE, !.path = workers[w].path]

\* Grading, building the children or the transaction itself may raise.
Finish(w) ==
    /\ workers[w].pc = "finish"
    /\ \/ /\ ~PathTaken(workers[w].path, workers[w].run)
          /\ runs' = [runs EXCEPT ![workers[w].run] = Landed(w)]
          /\ Leave(w, "sweep")
       \/ /\ Goto(w, "fallback")
          /\ UNCHANGED runs
    /\ UNCHANGED <<disk, paid, faulted, faults, requestVars>>

\* The except branch of execute(): a second failure is swallowed.
FallbackOnlyWithPath(w) ==
    /\ workers[w].pc = "fallback"
    /\ IF workers[w].path = Null \/ PathTaken(workers[w].path, workers[w].run)
         THEN UNCHANGED runs
         ELSE runs' = [runs EXCEPT ![workers[w].run] = Failed(w)]
    /\ Leave(w, "sweep")
    /\ UNCHANGED <<disk, paid, faulted, faults, requestVars>>
Fallback(w) ==
    /\ workers[w].pc = "fallback"
    /\ IF PathTaken(workers[w].path, workers[w].run)
         THEN UNCHANGED runs
         ELSE runs' = [runs EXCEPT ![workers[w].run] = Failed(w)]
    /\ Leave(w, "sweep")
    /\ UNCHANGED <<disk, paid, faulted, faults, requestVars>>

\* SIGTERM: finish the run in hand, then exit.
Stop(w) ==
    /\ workers[w].pc # "down" /\ ~workers[w].stop
    /\ faults < MaxFaults
    /\ faults' = faults + 1
    /\ workers' = [workers EXCEPT ![w].stop = TRUE]
    /\ UNCHANGED <<runs, disk, paid, faulted, requestVars>>

\* compose starts a worker again.
Restart(w) ==
    /\ workers[w].pc = "down"
    /\ workers' = [workers EXCEPT ![w] = Fresh("poll")]
    /\ UNCHANGED <<runs, disk, paid, faulted, faults, requestVars>>

(* ----------------------------- lost workers ---------------------------- *)

\* SIGKILL, OOM, the VM going down: whatever the worker held in memory is gone.
Crash(w) ==
    /\ workers[w].pc # "down"
    /\ faults < MaxFaults
    /\ faults' = faults + 1
    /\ faulted' = IF Executing(w) THEN faulted \cup {workers[w].run} ELSE faulted
    /\ workers' = [workers EXCEPT ![w] = Fresh("down")]
    /\ UNCHANGED <<runs, disk, paid, requestVars>>

\* The database goes away under the worker.  At a sweep or a claim the outer
\* loop reconnects; a claim may have been committed all the same.  In execute()
\* both finish_run calls fail on the dead connection, then the sweep after it.
LoseConnection(w) ==
    /\ workers[w].pc \in {"sweep", "claim", "finish", "fallback"}
    /\ faults < MaxFaults
    /\ faults' = faults + 1
    /\ Leave(w, "poll")
    /\ \/ /\ faulted' = IF Executing(w) THEN faulted \cup {workers[w].run} ELSE faulted
          /\ UNCHANGED runs
       \/ /\ workers[w].pc = "claim" /\ ~workers[w].stop
          /\ \E r \in RunIds : ClaimRow(r) /\ faulted' = faulted \cup {r}
    /\ UNCHANGED <<disk, paid, requestVars>>

(* --------------------------------- time -------------------------------- *)

Held(r) == \E w \in Workers : Executing(w) /\ workers[w].run = r

\* RCA_RUN_TIMEOUT_S have passed since started_at.
Age(r) ==
    /\ runs[r].status = "running" /\ ~runs[r].stale
    /\ MayOverrun \/ ~Held(r)
    /\ runs' = [runs EXCEPT ![r].stale = TRUE]
    /\ UNCHANGED <<imported, disk, today, clients, workers, admins, ghosts>>

Midnight ==
    /\ today < MaxDay
    /\ today' = today + 1
    /\ UNCHANGED <<runs, imported, disk, clients, workers, admins, ghosts>>

(* -------------------------- POST /admin/reimport ----------------------- *)

reimportOutside == <<runs, disk, today, clients, workers, ghosts>>

\* artifact_paths(): read once, before the directory is listed.
Recorded == {p \in Paths : imported[p] # Null \/ \E r \in RunIds : runs[r].path = p}

ReimportSeen(a) ==
    /\ admins[a].pc = "idle"
    /\ admins' = [admins EXCEPT ![a] =
                    [pc |-> "list", seen |-> Recorded, todo |-> {},
                     at |-> Null, row |-> Null]]
    /\ UNCHANGED <<imported, reimportOutside>>

ReimportList(a) ==
    /\ admins[a].pc = "list"
    /\ admins' = [admins EXCEPT ![a].pc = "scan",
                                ![a].todo = {p \in Paths : disk[p] # Null}]
    /\ UNCHANGED <<imported, reimportOutside>>

\* One file: unreadable JSON is reported and a pair already seen is skipped;
\* what is read here is inserted later, whatever happens to the file meanwhile.
ReimportRead(a, p) ==
    /\ admins[a].pc = "scan" /\ p \in admins[a].todo
    /\ IF disk[p] = Torn \/ p \in admins[a].seen
         THEN admins' = [admins EXCEPT ![a].todo = @ \ {p}]
         ELSE admins' = [admins EXCEPT ![a].todo = @ \ {p}, ![a].pc = "insert",
                                       ![a].at = p, ![a].row = disk[p]]
    /\ UNCHANGED <<imported, reimportOutside>>

\* insert_run_bundle(): the row and its children, or a reported UniqueViolation.
ReimportInsert(a) ==
    LET p == admins[a].at
    IN  /\ admins[a].pc = "insert"
        /\ IF PathTaken(p, Null)
             THEN /\ admins' = [admins EXCEPT ![a].pc = "scan", ![a].at = Null, ![a].row = Null]
                  /\ UNCHANGED imported
             ELSE /\ imported' = [imported EXCEPT ![p] = admins[a].row]
                  /\ admins' = [admins EXCEPT ![a].pc = "scan", ![a].at = Null, ![a].row = Null,
                                              ![a].seen = @ \cup {p}]
        /\ UNCHANGED reimportOutside

\* The call returns, or its connection dies before the last row.
ReimportReturn(a) ==
    /\ admins[a].pc # "idle"
    /\ admins' = [admins EXCEPT ![a] = NoCall]
    /\ UNCHANGED <<imported, reimportOutside>>

(* ---------------------------- specification ---------------------------- *)

Request(c) ==
    Post(c) \/ Refuse(c) \/ PassGates(c) \/ Lookup(c) \/ BudgetGate(c)
      \/ Insert(c) \/ Resolve(c)

Work(w) ==
    Poll(w) \/ Sweep(w) \/ Claim(w) \/ RunArm(w) \/ OpenArtifact(w)
      \/ CloseArtifact(w) \/ Finish(w) \/ Fallback(w)

Fault(w) == Stop(w) \/ Crash(w) \/ LoseConnection(w)

Reimport(a) ==
    ReimportSeen(a) \/ ReimportList(a) \/ (\E p \in Paths : ReimportRead(a, p))
      \/ ReimportInsert(a) \/ ReimportReturn(a)

Next ==
    \/ \E c \in Clients : Request(c)
    \/ \E w \in Workers : Work(w) \/ Fault(w) \/ Restart(w)
    \/ \E a \in Admins : Reimport(a)
    \/ \E r \in RunIds : Age(r)
    \/ Midnight

Spec == Init /\ [][Next]_vars

\* compose keeps the worker process up and scheduled, and time passes.
Fairness ==
    /\ \A w \in Workers : WF_vars(Work(w)) /\ WF_vars(Restart(w))
    /\ \A r \in RunIds : WF_vars(Age(r))

FairSpec == Spec /\ Fairness

(* ------------------------------ properties ----------------------------- *)

\* An idempotency key names one run for good: no two rows carry it and no two
\* 202 replies to it name different runs or different bodies, however many
\* retries race between the lookup and the insert of create_run().
KeyNamesOneRun ==
    /\ \A r, s \in RunIds :
         runs[r].key = runs[s].key /\ runs[r].key # Null => r = s
    /\ \A x, y \in answers : x.key = y.key /\ x.key # Null => x = y

\* The daily breaker never withholds an existing run: a request whose key had
\* a row when it arrived is answered before it reaches the budget gate.
KnownKeyPassesNoBudgetGate ==
    \A c \in Clients : clients[c].known => clients[c].pc \notin {"budget", "insert"}

\* A claimed run is executed by one worker, and while it is being executed its
\* row says so: neither a second claim nor a sweep takes it away.
SoleExecution ==
    /\ \A w \in Workers : Executing(w) =>
         workers[w].run \in RunIds /\ runs[workers[w].run].status = "running"
    /\ \A v, w \in Workers :
         Executing(v) /\ Executing(w) /\ workers[v].run = workers[w].run => v = w

Terminal(r) == runs[r].status \in {"succeeded", "failed"}

\* A finished run is never reopened, re-billed or rewritten, although
\* finish_run() updates by run_id alone and does not look at the status.
TerminalIsFinal == [][\A r \in RunIds : Terminal(r) => runs'[r] = runs[r]]_vars

\* The service implements the ledger of RunLedger: through every interleaving
\* of statements, sweeps and crashes a run is accepted once under its key, only
\* a queued run starts, only a running one is given back or lands.
Ledger == INSTANCE RunLedger WITH
    Runs  <- RunIds,
    phase <- [r \in RunIds |-> runs[r].status],
    owner <- [r \in RunIds |-> [key |-> runs[r].key, body |-> runs[r].body]]

ImplementsLedger == Ledger!LedgerSpec

\* Every row that names an artefact can be audited: the file is there, whole,
\* and says what the row says the run cost (design 3: no row without its JSON).
EvidenceBehindRow ==
    /\ \A r \in RunIds : runs[r].path # Null =>
         /\ disk[runs[r].path] \notin {Null, Torn}
         /\ runs[r].cost # Null => disk[runs[r].path].cost = runs[r].cost
    /\ \A p \in Paths : imported[p] # Null =>
         /\ disk[p] \notin {Null, Torn}
         /\ imported[p].cost = disk[p].cost

\* One artefact is one row, whether the worker or reimport gets there first.
ArtifactInOneRow ==
    /\ \A r, s \in RunIds :
         runs[r].path = runs[s].path /\ runs[r].path # Null => r = s
    /\ \A r \in RunIds : runs[r].path # Null => imported[runs[r].path] = Null

\* The imported rows of run r, one for each day that has its artefact.
ImportedCosts(r) ==
    [d \in Days |-> IF imported[<<r, d>>] = Null THEN 0 ELSE imported[<<r, d>>].cost]

\* The table never shows more spending on a run than there was: /summary and
\* the breaker are not fed one execution twice.
RecordedWithinPaid ==
    \A r \in RunIds : CostOf(runs[r]) + SumFunction(ImportedCosts(r)) <= paid[r]

\* A running row that no live worker holds was lost with a worker or with its
\* connection (repo.py: "a run whose worker died mid-flight").
StrandedOnlyByFault ==
    \A r \in RunIds : runs[r].status = "running" => Held(r) \/ r \in faulted

\* Every accepted run lands: no crash, lost connection or SIGTERM leaves it
\* queued or running for good.
EveryRunLands ==
    \A r \in RunIds : runs[r].status = "queued" ~> Terminal(r)

(* --------- what the documents say and the code does not do ------------- *)

\* runner.py: after a failed step 3 "the JSON stays on disk ... POST
\* /admin/reimport reads it back".  What a finished scan skipped as already in
\* the table has its result there.
ReimportReadsBack ==
    \A a \in Admins : admins[a].pc = "scan" /\ admins[a].todo = {} =>
      \A p \in admins[a].seen : disk[p] # Torn =>
        \/ imported[p] # Null
        \/ \E r \in RunIds : runs[r].path = p /\ runs[r].cost # Null
=============================================================================
