-------------------------- MODULE EvalServiceProofs --------------------------
(****************************************************************************)
(* Proofs about EvalService for every number of clients, keys, bodies,      *)
(* workers, reimports, runs, days and faults: types; the promises about the *)
(* queue (one worker per run, finished runs left alone, one run per key,    *)
(* the ledger of RunLedger implemented); rows and artefacts (one artefact   *)
(* is one row, a known key meets no budget gate, rows keep their evidence,  *)
(* only a fault strands a run, no spending is counted twice).               *)
(****************************************************************************)
EXTENDS EvalService, FiniteSetTheorems, SumLemmas, TLAPS

(* -------------------------------- types -------------------------------- *)

\* The state space is closed: no handler, crash or lost connection leaves a
\* variable outside its type.
LEMMA InitTypeOK == Init => TypeOK
  BY BoundsAssumption DEF Init, TypeOK, NoRow, Rows, Idle, Requests,
     Fresh, WorkerStates, WorkerPcs, InHand, Consistent, ExecutingPcs, NoCall, Calls, Statuses, Days, RunIds, PaidCap

LEMMA RequestTypeOK ==
  ASSUME TypeOK, NEW c \in Clients, Request(c)
  PROVE  TypeOK'
  <1> USE DEF TypeOK, serviceVars
  <1>0. UNCHANGED workers => InHand'
    BY DEF InHand
  <1>1. ASSUME NEW pc \in {"idle", "gate", "lookup", "budget", "insert", "resolve"},
               Step(c, pc)
        PROVE  clients' \in [Clients -> Requests]
    BY <1>1 DEF Step, Requests
  <1>2. Return(c) => clients' \in [Clients -> Requests]
    BY DEF Return, Requests, Idle
  <1>3. \A r \in RunIds : Replay(c, r) \subseteq
          [key : Keys \cup {Null}, body : Bodies \cup {Null}, run : RunIds]
    BY DEF Replay, Requests
  <1>4. CASE Post(c)
    BY <1>0, <1>4 DEF Post, KeyTaken, Requests
  <1>5. CASE Refuse(c)
    BY <1>0, <1>5, <1>2 DEF Refuse
  <1>6. CASE PassGates(c)
    BY <1>0, <1>6, <1>1 DEF PassGates, AfterGate
  <1>7. CASE Lookup(c)
    BY <1>0, <1>7, <1>1, <1>2, <1>3 DEF Lookup, RowOfKey
  <1>8. CASE BudgetGate(c)
    BY <1>0, <1>8, <1>1, <1>2 DEF BudgetGate
  <1>9. CASE Insert(c)
    <2>1. CASE KeyTaken(clients[c].key)
      BY <1>0, <1>9, <2>1, <1>1 DEF Insert
    <2>2. CASE ~KeyTaken(clients[c].key)
      <3>1. PICK r \in RunIds :
              /\ runs' = [runs EXCEPT ![r] = NewRow(c)]
              /\ answers' = answers \cup
                   {[key |-> clients[c].key, body |-> clients[c].body, run |-> r]}
              /\ Return(c)
        BY <1>9, <2>2 DEF Insert
      <3>2. runs' \in [RunIds -> Rows]
        BY <3>1 DEF NewRow, Rows, Statuses, Requests
      <3>3. answers' \subseteq
              [key : Keys \cup {Null}, body : Bodies \cup {Null}, run : RunIds]
        BY <3>1 DEF Requests
      <3>4. QED BY <1>0, <1>9, <1>2, <3>1, <3>2, <3>3 DEF Insert
    <2>3. QED BY <2>1, <2>2
  <1>10. CASE Resolve(c)
    BY <1>0, <1>10, <1>2, <1>3 DEF Resolve, RowOfKey
  <1>11. QED BY <1>4, <1>5, <1>6, <1>7, <1>8, <1>9, <1>10 DEF Request

LEMMA WorkerUpdate ==
  ASSUME TypeOK, NEW w \in Workers, NEW s \in WorkerStates, Consistent(s),
         workers' = [workers EXCEPT ![w] = s]
  PROVE  workers' \in [Workers -> WorkerStates] /\ InHand'
  <1>1. workers' \in [Workers -> WorkerStates]
    BY DEF TypeOK
  <1>2. \A v \in Workers : workers'[v] = IF v = w THEN s ELSE workers[v]
    BY DEF TypeOK
  <1>3. \A v \in Workers : Consistent(workers'[v])
    BY <1>2 DEF TypeOK, InHand
  <1>4. QED BY <1>1, <1>3 DEF InHand

LEMMA RunUpdate ==
  ASSUME TypeOK, NEW r \in RunIds, NEW row \in Rows, runs' = [runs EXCEPT ![r] = row]
  PROVE  runs' \in [RunIds -> Rows]
  BY DEF TypeOK

\* Where a worker may go with what it holds.
LEMMA WorkerMoves ==
  ASSUME TypeOK, NEW w \in Workers
  PROVE  /\ \A pc \in {"down", "poll", "sweep", "claim"} :
              /\ ~Executing(w) /\ Goto(w, pc) => workers' \in [Workers -> WorkerStates] /\ InHand'
              /\ Leave(w, pc) => workers' \in [Workers -> WorkerStates] /\ InHand'
         /\ \A pc \in {"close", "fallback"} :
              workers[w].pc \in ExecutingPcs /\ (pc = "close" => workers[w].pc = "open") /\ Goto(w, pc)
                => workers' \in [Workers -> WorkerStates] /\ InHand'
  <1> DEFINE go(pc) == [workers[w] EXCEPT !.pc = pc]
             left(pc) == [Fresh(pc) EXCEPT !.stop = workers[w].stop]
  <1>1. workers[w] \in WorkerStates /\ Consistent(workers[w])
    BY DEF TypeOK, InHand
  <1>2. ASSUME NEW pc \in {"down", "poll", "sweep", "claim"}
        PROVE  /\ ~Executing(w) => go(pc) \in WorkerStates /\ Consistent(go(pc))
               /\ left(pc) \in WorkerStates /\ Consistent(left(pc))
    BY <1>1, BoundsAssumption
       DEF WorkerStates, WorkerPcs, Consistent, Executing, ExecutingPcs, Fresh, Days
  <1>3. ASSUME NEW pc \in {"close", "fallback"}, workers[w].pc \in ExecutingPcs,
               pc = "close" => workers[w].pc = "open"
        PROVE  go(pc) \in WorkerStates /\ Consistent(go(pc))
    BY <1>1, <1>3 DEF WorkerStates, WorkerPcs, Consistent, ExecutingPcs
  <1>4. \A pc : /\ Goto(w, pc) => workers' = [workers EXCEPT ![w] = go(pc)]
                /\ Leave(w, pc) => workers' = [workers EXCEPT ![w] = left(pc)]
    BY DEF Goto, Leave
  <1> HIDE DEF go, left
  <1>5. QED BY <1>2, <1>3, <1>4, WorkerUpdate

LEMMA ClaimRowTyped ==
  ASSUME TypeOK, NEW r \in RunIds, ClaimRow(r)
  PROVE  runs' \in [RunIds -> Rows]
  <1> DEFINE row == [runs[r] EXCEPT !.status = "running", !.stale = FALSE]
  <1>1. runs[r] \in Rows => row \in Rows
    BY DEF Rows, Statuses
  <1>2. runs' = [runs EXCEPT ![r] = row]
    BY DEF ClaimRow
  <1> HIDE DEF row
  <1>3. QED BY <1>1, <1>2, RunUpdate DEF TypeOK

LEMMA ChargeTyped ==
  ASSUME TypeOK, NEW r \in RunIds, NEW c \in 0..MaxCost, Charge(r, c)
  PROVE  paid' \in [RunIds -> 0..PaidCap]
  <1>1. PaidCap \in Nat
    BY BoundsAssumption DEF PaidCap
  <1> DEFINE sum == IF paid[r] + c > PaidCap THEN PaidCap ELSE paid[r] + c
  <1>2. sum \in 0..PaidCap
    BY <1>1, BoundsAssumption DEF TypeOK
  <1>3. paid' = [paid EXCEPT ![r] = sum]
    BY DEF Charge
  <1> HIDE DEF sum
  <1>4. QED BY <1>2, <1>3 DEF TypeOK

\* The rows that Finish and Fallback write.
LEMMA LandedTyped ==
  ASSUME TypeOK, NEW w \in Workers, workers[w].run \in RunIds, workers[w].res \in Results
  PROVE  Landed(w) \in Rows
  <1>1. runs[workers[w].run] \in Rows /\ workers[w].path \in Paths \cup {Null}
    BY DEF TypeOK, WorkerStates
  <1>2. workers[w].res.cost \in 0..MaxCost
    BY DEF Results
  <1>3. QED BY <1>1, <1>2 DEF Landed, Rows, Statuses

LEMMA FailedTyped ==
  ASSUME TypeOK, NEW w \in Workers, workers[w].run \in RunIds
  PROVE  Failed(w) \in Rows
  <1>1. runs[workers[w].run] \in Rows /\ workers[w].path \in Paths \cup {Null}
    BY DEF TypeOK, WorkerStates
  <1>2. QED BY <1>1 DEF Failed, Rows, Statuses

LEMMA WorkTypeOK ==
  ASSUME TypeOK, NEW w \in Workers, Work(w)
  PROVE  TypeOK'
  <1> DEFINE Typed == workers' \in [Workers -> WorkerStates] /\ InHand'
  <1>1. workers[w] \in WorkerStates /\ Consistent(workers[w])
    BY DEF TypeOK, InHand
  <1>2. ASSUME NEW pc \in {"down", "poll", "sweep", "claim"},
               (~Executing(w) /\ Goto(w, pc)) \/ Leave(w, pc)
        PROVE  Typed
    BY <1>2, WorkerMoves
  <1>3. Executing(w) /\ Goto(w, "fallback") => Typed
    BY WorkerMoves DEF Executing
  <1>4. Executing(w) => workers[w].run \in RunIds /\ workers[w].day \in Days
    BY <1>1 DEF Executing, Consistent, WorkerStates
  <1> USE DEF requestVars
  <1> HIDE DEF Typed
  <1>5. CASE Poll(w)
    <2>1. Typed
      BY <1>5, <1>2 DEF Poll, Executing, ExecutingPcs
    <2>2. QED BY <1>5, <2>1 DEF Poll, TypeOK, Typed
  <1>6. CASE Sweep(w)
    <2> DEFINE requeued(r) == [runs[r] EXCEPT !.status = "queued", !.stale = FALSE]
    <2>1. \A r \in RunIds : runs[r] \in Rows => requeued(r) \in Rows
      BY DEF Rows, Statuses
    <2>2. runs' \in [RunIds -> Rows]
      <3>1. runs' = [r \in RunIds |-> IF Requeueable(r) THEN requeued(r) ELSE runs[r]]
        BY <1>6 DEF Sweep
      <3> HIDE DEF requeued
      <3>2. QED BY <2>1, <3>1 DEF TypeOK
    <2>3. Typed
      BY <1>6, <1>2 DEF Sweep, Executing, ExecutingPcs
    <2>4. QED BY <1>6, <2>2, <2>3 DEF Sweep, TypeOK, Typed
  <1>7. CASE Claim(w)
    <2>1. CASE Goto(w, "poll") /\ UNCHANGED runs
      <3>1. Typed
        BY <1>7, <2>1, <1>2 DEF Claim, Executing, ExecutingPcs
      <3>2. QED BY <1>7, <2>1, <3>1 DEF Claim, TypeOK, Typed
    <2>2. ASSUME NEW r \in RunIds, ClaimRow(r),
                 workers' = [workers EXCEPT
                               ![w].pc = "arm", ![w].run = r, ![w].day = today]
          PROVE  TypeOK'
      <3>1. runs' \in [RunIds -> Rows]
        BY <2>2, ClaimRowTyped
      <3> DEFINE s == [workers[w] EXCEPT !.pc = "arm", !.run = r, !.day = today]
      <3>2. s \in WorkerStates /\ Consistent(s)
        BY <1>1, <1>7 DEF Claim, TypeOK, WorkerStates, WorkerPcs, Consistent, ExecutingPcs
      <3>3. workers' = [workers EXCEPT ![w] = s]
        BY <2>2
      <3> HIDE DEF s
      <3>4. Typed
        BY <3>2, <3>3, WorkerUpdate DEF Typed
      <3>5. QED BY <1>7, <3>1, <3>4 DEF Claim, TypeOK, Typed
    <2>3. QED BY <1>7, <2>1, <2>2 DEF Claim
  <1>8. CASE RunArm(w)
    <2>1. PICK c \in 0..MaxCost :
            /\ Charge(workers[w].run, c)
            /\ \/ \E ok \in BOOLEAN :
                    workers' = [workers EXCEPT
                                  ![w].pc = "open",
                                  ![w].res = [cost |-> c, ok |-> ok, day |-> today]]
               \/ Goto(w, "fallback")
      BY <1>8 DEF RunArm
    <2>2. Executing(w)
      BY <1>8 DEF RunArm, Executing, ExecutingPcs
    <2>3. paid' \in [RunIds -> 0..PaidCap]
      BY <2>1, <2>2, <1>4, ChargeTyped
    <2>4. Typed
      <3>1. ASSUME NEW ok \in BOOLEAN,
                   workers' = [workers EXCEPT
                                 ![w].pc = "open",
                                 ![w].res = [cost |-> c, ok |-> ok, day |-> today]]
            PROVE  Typed
        <4> DEFINE res == [cost |-> c, ok |-> ok, day |-> today]
                   s == [workers[w] EXCEPT !.pc = "open", !.res = res]
        <4>1. res \in Results
          BY <2>1 DEF Results, TypeOK
        <4>2. workers' = [workers EXCEPT ![w] = s]
          BY <3>1
        <4> HIDE DEF res
        <4>3. s \in WorkerStates /\ Consistent(s)
          BY <4>1, <1>1, <1>8 DEF RunArm, WorkerStates, WorkerPcs, Consistent, ExecutingPcs
        <4> HIDE DEF s
        <4>4. QED BY <4>2, <4>3, WorkerUpdate DEF Typed
      <3>2. QED BY <2>1, <2>2, <3>1, <1>3
    <2>5. QED BY <1>8, <2>3, <2>4 DEF RunArm, TypeOK, Typed
  <1>9. CASE OpenArtifact(w)
    <2>1. Executing(w) /\ Torn \in Results \cup {Null, Torn}
      BY <1>9 DEF OpenArtifact, Executing, ExecutingPcs
    <2>2. Typed
      BY <1>9, <2>1, <1>3, WorkerMoves DEF OpenArtifact, Executing, Typed
    <2>3. disk' \in [Paths -> Results \cup {Null, Torn}]
      BY <1>9, <2>1 DEF OpenArtifact, TypeOK
    <2>4. QED BY <1>9, <2>2, <2>3 DEF OpenArtifact, TypeOK, Typed
  <1>10. CASE CloseArtifact(w)
    <2> DEFINE p == PathOf(workers[w].run, workers[w].day)
               s == [workers[w] EXCEPT !.pc = "finish", !.path = p]
    <2>1. Executing(w) /\ workers[w].pc = "close"
      BY <1>10 DEF CloseArtifact, Executing, ExecutingPcs
    <2>2. p \in Paths /\ p[1] = workers[w].run /\ workers[w].res \in Results
      BY <2>1, <1>4, <1>1 DEF Paths, PathOf, Consistent
    <2>3. CASE Goto(w, "fallback") /\ UNCHANGED disk
      BY <1>10, <2>1, <2>3, <1>3 DEF CloseArtifact, TypeOK, Typed
    <2>4. CASE /\ disk' = [disk EXCEPT ![p] = workers[w].res]
               /\ workers' = [workers EXCEPT ![w] = s]
      <3>1. p # Null
        BY <2>2, NullAssumption
      <3> HIDE DEF p
      <3>2. s \in WorkerStates /\ Consistent(s)
        BY <2>1, <2>2, <3>1, <1>1 DEF WorkerStates, WorkerPcs, Consistent, ExecutingPcs
      <3>3. disk' \in [Paths -> Results \cup {Null, Torn}]
        BY <2>2, <2>4 DEF TypeOK
      <3> HIDE DEF s
      <3>4. Typed
        BY <2>4, <3>2, WorkerUpdate DEF Typed
      <3>5. QED BY <1>10, <3>3, <3>4 DEF CloseArtifact, TypeOK, Typed
    <2>5. QED BY <1>10, <2>3, <2>4 DEF CloseArtifact
  <1>11. CASE Finish(w)
    <2>1. Executing(w) /\ workers[w].res \in Results
      BY <1>11, <1>1 DEF Finish, Executing, ExecutingPcs, Consistent
    <2>2. Typed
      BY <1>11, <2>1, <1>2, <1>3 DEF Finish
    <2>3. runs' \in [RunIds -> Rows]
      <3>1. Landed(w) \in Rows
        BY <2>1, <1>4, LandedTyped
      <3>2. QED BY <1>11, <2>1, <1>4, <3>1, RunUpdate DEF Finish, TypeOK
    <2>4. QED BY <1>11, <2>2, <2>3 DEF Finish, TypeOK, Typed
  <1>12. CASE Fallback(w)
    <2>1. Executing(w)
      BY <1>12 DEF Fallback, Executing, ExecutingPcs
    <2>2. Typed
      BY <1>12, <1>2 DEF Fallback
    <2>3. runs' \in [RunIds -> Rows]
      <3>1. Failed(w) \in Rows
        BY <2>1, <1>4, FailedTyped
      <3>2. QED BY <1>12, <2>1, <1>4, <3>1, RunUpdate DEF Fallback, TypeOK
    <2>4. QED BY <1>12, <2>2, <2>3 DEF Fallback, TypeOK, Typed
  <1>13. QED BY <1>5, <1>6, <1>7, <1>8, <1>9, <1>10, <1>11, <1>12 DEF Work

LEMMA FaultTypeOK ==
  ASSUME TypeOK, NEW w \in Workers, Fault(w) \/ Restart(w)
  PROVE  TypeOK'
  <1> DEFINE Typed == workers' \in [Workers -> WorkerStates] /\ InHand'
  <1>1. workers[w] \in WorkerStates /\ Consistent(workers[w])
    BY DEF TypeOK, InHand
  <1>2. ASSUME NEW pc \in {"down", "poll"}, workers' = [workers EXCEPT ![w] = Fresh(pc)]
        PROVE  Typed
    <2>1. Fresh(pc) \in WorkerStates /\ Consistent(Fresh(pc))
      BY BoundsAssumption DEF Fresh, WorkerStates, WorkerPcs, Consistent, ExecutingPcs, Days
    <2>2. QED BY <1>2, <2>1, WorkerUpdate
  <1>3. Executing(w) => workers[w].run \in RunIds
    BY <1>1 DEF Executing, Consistent
  <1>4. faults < MaxFaults => faults + 1 \in 0..MaxFaults
    BY BoundsAssumption DEF TypeOK
  <1> USE DEF requestVars
  <1>5. CASE Stop(w)
    <2> DEFINE s == [workers[w] EXCEPT !.stop = TRUE]
    <2>1. s \in WorkerStates /\ Consistent(s)
      BY <1>1 DEF WorkerStates, WorkerPcs, Consistent, ExecutingPcs
    <2>2. workers' = [workers EXCEPT ![w] = s]
      BY <1>5 DEF Stop
    <2> HIDE DEF s
    <2>3. Typed
      BY <2>1, <2>2, WorkerUpdate
    <2>4. QED BY <1>5, <1>4, <2>3 DEF Stop, TypeOK
  <1>6. CASE Crash(w)
    <2>1. Typed
      BY <1>6, <1>2 DEF Crash
    <2>2. QED BY <1>6, <1>3, <1>4, <2>1 DEF Crash, TypeOK
  <1>7. CASE LoseConnection(w)
    <2>1. Typed
      BY <1>7, WorkerMoves DEF LoseConnection
    <2>2. runs' \in [RunIds -> Rows] /\ faulted' \subseteq RunIds
      BY <1>7, <1>3, ClaimRowTyped DEF LoseConnection, TypeOK
    <2>3. QED BY <1>7, <1>4, <2>1, <2>2 DEF LoseConnection, TypeOK
  <1>8. CASE Restart(w)
    <2>1. Typed
      BY <1>8, <1>2 DEF Restart
    <2>2. QED BY <1>8, <2>1 DEF Restart, TypeOK
  <1>9. QED BY <1>5, <1>6, <1>7, <1>8 DEF Fault

LEMMA ReimportTypeOK ==
  ASSUME TypeOK, NEW a \in Admins, Reimport(a)
  PROVE  TypeOK'
  <1>1. UNCHANGED workers => InHand'
    BY DEF TypeOK, InHand
  <1>2. admins[a] \in Calls
    BY DEF TypeOK
  <1>3. ASSUME NEW call \in Calls, admins' = [admins EXCEPT ![a] = call]
        PROVE  admins' \in [Admins -> Calls]
    BY <1>3 DEF TypeOK
  <1> USE DEF reimportOutside, ghosts
  <1>4. CASE ReimportSeen(a)
    <2>1. admins' \in [Admins -> Calls]
      BY <1>4, <1>3 DEF ReimportSeen, Calls, Recorded
    <2>2. QED BY <1>1, <1>4, <2>1 DEF ReimportSeen, TypeOK
  <1>5. CASE ReimportList(a)
    <2> DEFINE call == [admins[a] EXCEPT !.pc = "scan", !.todo = {p \in Paths : disk[p] # Null}]
    <2>1. call \in Calls
      BY <1>2, <1>5 DEF ReimportList, Calls
    <2>2. admins' = [admins EXCEPT ![a] = call]
      BY <1>5 DEF ReimportList
    <2> HIDE DEF call
    <2>3. admins' \in [Admins -> Calls]
      BY <2>1, <2>2, <1>3
    <2>4. QED BY <1>1, <1>5, <2>3 DEF ReimportList, TypeOK
  <1>6. ASSUME NEW p \in Paths, ReimportRead(a, p)
        PROVE  TypeOK'
    <2>1. disk[p] # Torn => disk[p] \in Results \cup {Null}
      BY DEF TypeOK
    <2> DEFINE skipped == [admins[a] EXCEPT !.todo = @ \ {p}]
               read == [admins[a] EXCEPT !.todo = @ \ {p}, !.pc = "insert",
                                         !.at = p, !.row = disk[p]]
    <2>2. skipped \in Calls /\ (disk[p] # Torn => read \in Calls)
      BY <1>2, <2>1 DEF Calls
    <2>3. \/ admins' = [admins EXCEPT ![a] = skipped]
          \/ disk[p] # Torn /\ admins' = [admins EXCEPT ![a] = read]
      BY <1>6 DEF ReimportRead
    <2> HIDE DEF skipped, read
    <2>4. admins' \in [Admins -> Calls]
      BY <2>2, <2>3, <1>3
    <2>5. QED BY <1>1, <1>6, <2>4 DEF ReimportRead, TypeOK
  <1>7. CASE ReimportInsert(a)
    <2> DEFINE p == admins[a].at
               skipped == [admins[a] EXCEPT !.pc = "scan", !.at = Null, !.row = Null]
               added == [admins[a] EXCEPT !.pc = "scan", !.at = Null, !.row = Null,
                                          !.seen = @ \cup {p}]
    <2>1. /\ skipped \in Calls /\ admins[a].row \in Results \cup {Null}
          /\ p \in Paths => added \in Calls
      BY <1>2 DEF Calls
    <2>2. \/ UNCHANGED imported /\ admins' = [admins EXCEPT ![a] = skipped]
          \/ /\ imported' = [imported EXCEPT ![p] = admins[a].row]
             /\ admins' = [admins EXCEPT ![a] = added]
      BY <1>7 DEF ReimportInsert
    <2>3. imported' \in [Paths -> Results \cup {Null}]
      BY <2>1, <2>2 DEF TypeOK
    <2>4. p \in Paths
      BY <1>7 DEF ReimportInsert, TypeOK, Calls
    <2> HIDE DEF skipped, added
    <2>5. admins' \in [Admins -> Calls]
      BY <2>1, <2>2, <2>4, <1>3
    <2>6. QED BY <1>1, <1>7, <2>3, <2>5 DEF ReimportInsert, TypeOK
  <1>8. CASE ReimportReturn(a)
    <2>1. admins' \in [Admins -> Calls]
      BY <1>8, <1>3 DEF ReimportReturn, Calls, NoCall
    <2>2. QED BY <1>1, <1>8, <2>1 DEF ReimportReturn, TypeOK
  <1>9. QED BY <1>4, <1>5, <1>6, <1>7, <1>8 DEF Reimport

LEMMA TimeTypeOK ==
  ASSUME TypeOK, Midnight \/ \E r \in RunIds : Age(r)
  PROVE  TypeOK'
  <1>1. UNCHANGED workers => InHand'
    BY DEF TypeOK, InHand
  <1>2. CASE Midnight
    BY <1>1, <1>2, BoundsAssumption DEF Midnight, ghosts, TypeOK, Days
  <1>3. ASSUME NEW r \in RunIds, Age(r)
        PROVE  TypeOK'
    <2> DEFINE row == [runs[r] EXCEPT !.stale = TRUE]
    <2>1. runs[r] \in Rows => row \in Rows
      BY DEF Rows
    <2>2. runs' = [runs EXCEPT ![r] = row]
      BY <1>3 DEF Age
    <2> HIDE DEF row
    <2>3. runs' \in [RunIds -> Rows]
      BY <2>1, <2>2, RunUpdate DEF TypeOK
    <2>4. QED BY <1>1, <1>3, <2>3 DEF Age, ghosts, TypeOK
  <1>4. QED BY <1>2, <1>3

LEMMA NextTypeOK == TypeOK /\ [Next]_vars => TypeOK'
  <1> SUFFICES ASSUME TypeOK, [Next]_vars PROVE TypeOK'
    OBVIOUS
  <1>1. CASE UNCHANGED vars
    BY <1>1 DEF vars, TypeOK, InHand
  <1>2. CASE Next
    BY <1>2, RequestTypeOK, WorkTypeOK, FaultTypeOK, ReimportTypeOK, TimeTypeOK DEF Next
  <1>3. QED BY <1>1, <1>2

\* Every reachable state is well typed, and what a worker holds in execute() is
\* a claimed row, its result and its path: the type invariant of EvalService.
THEOREM TypeCorrect == Spec => []TypeOK
  <1>1. QED BY InitTypeOK, NextTypeOK, PTL DEF Spec

(* ------------------- the execution of a claimed run -------------------- *)

\* SoleExecution is not inductive: a sweep gives back any stale row, so it has
\* to be known that no row is stale while a worker holds it, or else that the
\* only worker there is cannot sweep while it executes.
NoStaleRunHeld == ~MayOverrun => \A r \in RunIds : runs[r].stale => ~Held(r)

ExecutionInv == TypeOK /\ SoleExecution /\ NoStaleRunHeld

\* The rows may move as they like as long as what workers hold stays running
\* and fresh, and nobody takes up a run.
LEMMA SameHolders ==
  ASSUME ExecutionInv, TypeOK',
         \A w \in Workers : Executing(w)' =>
            /\ Executing(w) /\ workers'[w].run = workers[w].run
            /\ runs'[workers[w].run].status = "running"
            /\ runs'[workers[w].run].stale => runs[workers[w].run].stale \/ MayOverrun
  PROVE  SoleExecution' /\ NoStaleRunHeld'
  <1>1. SoleExecution'
    BY DEF ExecutionInv, SoleExecution
  <1>2. NoStaleRunHeld'
    <2> SUFFICES ASSUME ~MayOverrun, NEW r \in RunIds, runs'[r].stale,
                        NEW w \in Workers, Executing(w)', workers'[w].run = r
                 PROVE  FALSE
      BY DEF NoStaleRunHeld, Held
    <2>1. Executing(w) /\ workers[w].run = r /\ runs[r].stale
      OBVIOUS
    <2>2. QED BY <2>1 DEF ExecutionInv, NoStaleRunHeld, Held
  <1>3. QED BY <1>1, <1>2

\* A worker that is not executing a run changes its place in the loop.
LEMMA OtherHolders ==
  ASSUME TypeOK, NEW w \in Workers, NEW s \in WorkerStates,
         workers' = [workers EXCEPT ![w] = s]
  PROVE  /\ \A v \in Workers \ {w} : workers'[v] = workers[v]
         /\ workers'[w] = s
  BY DEF TypeOK

LEMMA RequestKeepsExecution ==
  ASSUME ExecutionInv, TypeOK', NEW c \in Clients, Request(c)
  PROVE  SoleExecution' /\ NoStaleRunHeld'
  <1>1. UNCHANGED workers
    BY DEF Request, Post, Refuse, PassGates, Lookup, BudgetGate, Insert, Resolve, serviceVars
  <1>2. ASSUME NEW w \in Workers, Executing(w)
        PROVE  runs'[workers[w].run] = runs[workers[w].run]
    <2>1. workers[w].run \in RunIds /\ Exists(workers[w].run)
      BY <1>2 DEF ExecutionInv, SoleExecution, Exists
    <2>2. CASE UNCHANGED runs
      BY <2>2
    <2>3. ASSUME NEW r \in RunIds, NextRow(r), runs' = [runs EXCEPT ![r] = NewRow(c)]
          PROVE  runs'[workers[w].run] = runs[workers[w].run]
      BY <2>1, <2>3 DEF NextRow, ExecutionInv, TypeOK
    <2>4. QED
      BY <2>2, <2>3 DEF Request, Post, Refuse, PassGates, Lookup, BudgetGate, Insert, Resolve
  <1>3. \A w \in Workers : Executing(w)' => Executing(w)
    BY <1>1 DEF Executing
  <1>4. \A w \in Workers : Executing(w) => runs[workers[w].run].status = "running"
    BY DEF ExecutionInv, SoleExecution
  <1>5. QED BY <1>1, <1>2, <1>3, <1>4, SameHolders

\* What the loop and execute() do to the pc and the run of the worker itself.
LEMMA WorkerEffect ==
  ASSUME TypeOK, NEW w \in Workers
  PROVE  /\ \A pc : Goto(w, pc) =>
              /\ workers'[w].pc = pc /\ workers'[w].run = workers[w].run
              /\ \A v \in Workers \ {w} : workers'[v] = workers[v]
         /\ \A pc : Leave(w, pc) =>
              /\ workers'[w].pc = pc
              /\ \A v \in Workers \ {w} : workers'[v] = workers[v]
  <1>1. workers[w] \in WorkerStates
    BY DEF TypeOK
  <1>2. ASSUME NEW pc, Goto(w, pc)
        PROVE  /\ workers'[w].pc = pc /\ workers'[w].run = workers[w].run
               /\ \A v \in Workers \ {w} : workers'[v] = workers[v]
    BY <1>1, <1>2 DEF Goto, TypeOK, WorkerStates
  <1>3. ASSUME NEW pc, Leave(w, pc)
        PROVE  /\ workers'[w].pc = pc
               /\ \A v \in Workers \ {w} : workers'[v] = workers[v]
    BY <1>1, <1>3 DEF Leave, Fresh, TypeOK, WorkerStates
  <1>4. QED BY <1>2, <1>3

\* A claim takes a queued row, which no worker holds, and leaves the others.
LEMMA ClaimEffect ==
  ASSUME ExecutionInv, NEW r \in RunIds, ClaimRow(r)
  PROVE  /\ ~Held(r)
         /\ runs'[r].status = "running" /\ ~runs'[r].stale
         /\ \A s \in RunIds \ {r} : runs'[s] = runs[s]
  <1>1. runs[r].status = "queued"
    BY DEF ClaimRow, Queued
  <1>2. ~Held(r)
    BY <1>1 DEF ExecutionInv, SoleExecution, Held
  <1>3. runs[r] \in Rows
    BY DEF ExecutionInv, TypeOK
  <1>4. QED BY <1>2, <1>3 DEF ClaimRow, ExecutionInv, TypeOK, Rows

LEMMA WorkKeepsExecution ==
  ASSUME ExecutionInv, TypeOK', NEW w \in Workers, Work(w)
  PROVE  SoleExecution' /\ NoStaleRunHeld'
  <1> DEFINE Kept(v) ==
        Executing(v)' =>
            /\ Executing(v) /\ workers'[v].run = workers[v].run
            /\ runs'[workers[v].run].status = "running"
            /\ runs'[workers[v].run].stale => runs[workers[v].run].stale \/ MayOverrun
  <1>1. (\A v \in Workers : Kept(v)) => SoleExecution' /\ NoStaleRunHeld'
    BY SameHolders
  <1>2. \A v \in Workers : Executing(v) =>
            workers[v].run \in RunIds /\ runs[workers[v].run].status = "running"
    BY DEF ExecutionInv, SoleExecution
  <1>3. TypeOK
    BY DEF ExecutionInv
  <1>4. \A v \in Workers : Executing(v)' <=> workers'[v].pc \in ExecutingPcs
    BY DEF Executing
  <1>5. CASE UNCHANGED runs /\ \E pc : (pc \in ExecutingPcs => Executing(w)) /\ Goto(w, pc)
    BY <1>1, <1>2, <1>3, <1>4, <1>5, WorkerEffect DEF Executing
  <1>6. CASE Poll(w)
    BY <1>5, <1>6 DEF Poll, ExecutingPcs
  <1>7. CASE Sweep(w)
    <2>1. /\ workers'[w].pc = "claim"
          /\ \A v \in Workers \ {w} : workers'[v] = workers[v]
      BY <1>3, <1>7, WorkerEffect DEF Sweep
    <2>2. \A v \in Workers : Executing(v) => ~runs[workers[v].run].stale \/ v = w
      BY <1>2, DeploymentAssumption DEF ExecutionInv, NoStaleRunHeld, Held
    <2>3. ~Executing(w) /\ ~Executing(w)'
      BY <1>7, <2>1 DEF Sweep, Executing, ExecutingPcs
    <2>4. \A r \in RunIds : ~runs[r].stale => runs'[r] = runs[r]
      BY <1>7 DEF Sweep, Requeueable
    <2>5. \A v \in Workers : Kept(v)
      BY <1>2, <1>4, <2>1, <2>2, <2>3, <2>4 DEF Executing
    <2>6. QED BY <1>1, <2>5
  <1>8. CASE Claim(w)
    <2>1. CASE Goto(w, "poll") /\ UNCHANGED runs
      BY <1>5, <2>1 DEF ExecutingPcs
    <2>2. ASSUME NEW r \in RunIds, ClaimRow(r),
                 workers' = [workers EXCEPT
                               ![w].pc = "arm", ![w].run = r, ![w].day = today]
          PROVE  SoleExecution' /\ NoStaleRunHeld'
      <3>1. /\ ~Held(r)
            /\ runs'[r].status = "running" /\ ~runs'[r].stale
            /\ \A s \in RunIds \ {r} : runs'[s] = runs[s]
        BY <2>2, ClaimEffect
      <3>2. workers'[w].run = r /\ \A v \in Workers \ {w} : workers'[v] = workers[v]
        BY <2>2, <1>3 DEF TypeOK, WorkerStates
      <3>3. \A v \in Workers \ {w} : Executing(v)' => Executing(v) /\ workers[v].run # r
        BY <1>4, <3>1, <3>2 DEF Held, Executing
      <3>4. \A v \in Workers : Executing(v)' =>
               workers'[v].run \in RunIds /\ runs'[workers'[v].run].status = "running"
        BY <1>2, <3>1, <3>2, <3>3
      <3>5. \A u, v \in Workers :
               Executing(u)' /\ Executing(v)' /\ workers'[u].run = workers'[v].run => u = v
        BY <3>2, <3>3 DEF ExecutionInv, SoleExecution
      <3>6. ~MayOverrun => \A v \in Workers : Executing(v)' => ~runs'[workers'[v].run].stale
        BY <1>2, <3>1, <3>2, <3>3 DEF ExecutionInv, NoStaleRunHeld, Held
      <3>7. SoleExecution'
        BY <3>4, <3>5 DEF SoleExecution
      <3>8. NoStaleRunHeld'
        BY <3>6 DEF NoStaleRunHeld, Held
      <3>9. QED BY <3>7, <3>8
    <2>3. QED BY <1>8, <2>1, <2>2 DEF Claim
  <1>9. CASE RunArm(w)
    <2>1. Executing(w) /\ UNCHANGED runs
      BY <1>9 DEF RunArm, Executing, ExecutingPcs
    <2>2. ASSUME NEW res, workers' = [workers EXCEPT ![w].pc = "open", ![w].res = res]
          PROVE  \A v \in Workers : Kept(v)
      <3>1. /\ workers'[w].run = workers[w].run
            /\ \A v \in Workers \ {w} : workers'[v] = workers[v]
        BY <1>3, <2>2 DEF TypeOK, WorkerStates
      <3>2. QED BY <1>2, <1>4, <2>1, <3>1 DEF Executing
    <2>3. QED BY <1>1, <1>5, <1>9, <2>1, <2>2 DEF RunArm
  <1>10. CASE OpenArtifact(w)
    <2>1. Executing(w) /\ UNCHANGED runs
      BY <1>10 DEF OpenArtifact, Executing, ExecutingPcs
    <2>2. QED BY <1>5, <1>10, <2>1 DEF OpenArtifact
  <1>11. CASE CloseArtifact(w)
    <2>1. Executing(w) /\ UNCHANGED runs
      BY <1>11 DEF CloseArtifact, Executing, ExecutingPcs
    <2>2. ASSUME NEW p, workers' = [workers EXCEPT ![w].pc = "finish", ![w].path = p]
          PROVE  \A v \in Workers : Kept(v)
      <3>1. /\ workers'[w].run = workers[w].run
            /\ \A v \in Workers \ {w} : workers'[v] = workers[v]
        BY <1>3, <2>2 DEF TypeOK, WorkerStates
      <3>2. QED BY <1>2, <1>4, <2>1, <3>1 DEF Executing
    <2>3. QED BY <1>1, <1>5, <1>11, <2>1, <2>2 DEF CloseArtifact
  <1>12. ASSUME Leave(w, "sweep"), Executing(w),
                NEW row, UNCHANGED runs \/ runs' = [runs EXCEPT ![workers[w].run] = row]
         PROVE  SoleExecution' /\ NoStaleRunHeld'
    <2>1. /\ ~Executing(w)'
          /\ \A v \in Workers \ {w} : workers'[v] = workers[v]
      BY <1>3, <1>4, <1>12, WorkerEffect DEF ExecutingPcs
    <2>2. \A v \in Workers \ {w} : Executing(v) => workers[v].run # workers[w].run
      BY <1>12 DEF ExecutionInv, SoleExecution
    <2>3. \A r \in RunIds : r # workers[w].run => runs'[r] = runs[r]
      BY <1>12, <1>3 DEF TypeOK
    <2>4. \A v \in Workers : Kept(v)
      BY <1>2, <1>4, <2>1, <2>2, <2>3 DEF Executing
    <2>5. QED BY <1>1, <2>4
  <1>13. CASE Finish(w)
    <2>1. Executing(w)
      BY <1>13 DEF Finish, Executing, ExecutingPcs
    <2>2. QED BY <1>5, <1>12, <1>13, <2>1 DEF Finish
  <1>14. CASE Fallback(w)
    <2>1. Executing(w)
      BY <1>14 DEF Fallback, Executing, ExecutingPcs
    <2>2. QED BY <1>12, <1>14, <2>1 DEF Fallback
  <1>15. QED BY <1>6, <1>7, <1>8, <1>9, <1>10, <1>11, <1>13, <1>14 DEF Work

LEMMA FaultKeepsExecution ==
  ASSUME ExecutionInv, TypeOK', NEW w \in Workers, Fault(w) \/ Restart(w)
  PROVE  SoleExecution' /\ NoStaleRunHeld'
  <1>1. \A v \in Workers : Executing(v) =>
            workers[v].run \in RunIds /\ runs[workers[v].run].status = "running"
    BY DEF ExecutionInv, SoleExecution
  <1>2. TypeOK
    BY DEF ExecutionInv
  <1>3. \A v \in Workers : Executing(v)' <=> workers'[v].pc \in ExecutingPcs
    BY DEF Executing
  <1>4. CASE Stop(w)
    <2>1. \A v \in Workers : workers'[v].pc = workers[v].pc /\ workers'[v].run = workers[v].run
      BY <1>2, <1>4 DEF Stop, TypeOK, WorkerStates
    <2>2. QED BY <1>1, <1>3, <1>4, <2>1, SameHolders DEF Stop, Executing
  <1>5. ASSUME ~Executing(w)', \A v \in Workers \ {w} : workers'[v] = workers[v],
               UNCHANGED runs \/ \E r \in RunIds : ClaimRow(r)
        PROVE  SoleExecution' /\ NoStaleRunHeld'
    <2>1. \A v \in Workers : Executing(v)' => Executing(v) /\ workers'[v].run = workers[v].run
      BY <1>3, <1>5 DEF Executing
    <2>2. \A v \in Workers : Executing(v) => runs'[workers[v].run] = runs[workers[v].run]
      BY <1>1, <1>5, ClaimEffect DEF Held
    <2>3. QED BY <1>1, <2>1, <2>2, SameHolders
  <1>6. CASE Crash(w)
    <2>1. /\ ~Executing(w)'
          /\ \A v \in Workers \ {w} : workers'[v] = workers[v]
      BY <1>2, <1>3, <1>6 DEF Crash, Fresh, ExecutingPcs, TypeOK
    <2>2. QED BY <1>5, <1>6, <2>1 DEF Crash
  <1>7. CASE LoseConnection(w)
    <2>1. /\ ~Executing(w)'
          /\ \A v \in Workers \ {w} : workers'[v] = workers[v]
      BY <1>2, <1>3, <1>7, WorkerEffect DEF LoseConnection, ExecutingPcs
    <2>2. QED BY <1>5, <1>7, <2>1 DEF LoseConnection
  <1>8. CASE Restart(w)
    <2>1. /\ ~Executing(w)'
          /\ \A v \in Workers \ {w} : workers'[v] = workers[v]
      BY <1>2, <1>3, <1>8 DEF Restart, Fresh, ExecutingPcs, TypeOK
    <2>2. QED BY <1>5, <1>8, <2>1 DEF Restart
  <1>9. QED BY <1>4, <1>6, <1>7, <1>8 DEF Fault

LEMMA AgeKeepsExecution ==
  ASSUME ExecutionInv, TypeOK', NEW r \in RunIds, Age(r)
  PROVE  SoleExecution' /\ NoStaleRunHeld'
  <1>1. /\ UNCHANGED workers
        /\ MayOverrun \/ ~Held(r)
        /\ \A s \in RunIds \ {r} : runs'[s] = runs[s]
    BY DEF Age, ExecutionInv, TypeOK, Rows
  <1>2. runs'[r].status = "running"
    BY DEF Age, ExecutionInv, TypeOK, Rows
  <1>3. \A v \in Workers : Executing(v)' <=> Executing(v)
    BY <1>1 DEF Executing
  <1>4. \A v \in Workers : Executing(v) =>
            workers[v].run \in RunIds /\ runs[workers[v].run].status = "running"
    BY DEF ExecutionInv, SoleExecution
  <1>5. QED BY <1>1, <1>2, <1>3, <1>4, SameHolders DEF Held

LEMMA InitExecution == Init => ExecutionInv
  BY InitTypeOK DEF Init, ExecutionInv, SoleExecution, NoStaleRunHeld, Executing,
     ExecutingPcs, Fresh, NoRow

LEMMA NextExecution == ExecutionInv /\ [Next]_vars => ExecutionInv'
  <1> SUFFICES ASSUME ExecutionInv, [Next]_vars PROVE ExecutionInv'
    OBVIOUS
  <1>1. TypeOK'
    BY NextTypeOK DEF ExecutionInv
  <1>2. CASE UNCHANGED <<runs, workers>>
    BY <1>1, <1>2 DEF ExecutionInv, SoleExecution, NoStaleRunHeld, Held, Executing
  <1>3. CASE UNCHANGED vars
    BY <1>2, <1>3 DEF vars
  <1>4. CASE Midnight \/ \E a \in Admins : Reimport(a)
    BY <1>2, <1>4 DEF Midnight, Reimport, ReimportSeen, ReimportList, ReimportRead, ReimportInsert,
       ReimportReturn, reimportOutside
  <1>5. CASE (\E c \in Clients : Request(c)) \/ \E r \in RunIds : Age(r)
    BY <1>1, <1>5, RequestKeepsExecution, AgeKeepsExecution DEF ExecutionInv
  <1>6. CASE \E w \in Workers : Work(w) \/ Fault(w) \/ Restart(w)
    BY <1>1, <1>6, WorkKeepsExecution, FaultKeepsExecution DEF ExecutionInv
  <1>7. QED BY <1>3, <1>4, <1>5, <1>6 DEF Next

\* A claimed run is executed by one worker at a time, and its row says running
\* until that worker lands it, whatever sweeps, crashes and other workers do.
THEOREM OneExecution == Spec => []SoleExecution
  <1>1. ExecutionInv => SoleExecution
    BY DEF ExecutionInv
  <1>2. QED BY <1>1, InitExecution, NextExecution, PTL DEF Spec

(* -------------------------- the life of a row --------------------------- *)

Moved(r, from, to) ==
    /\ runs[r].status \in from
    /\ runs'[r].status \in to
    /\ runs'[r].key = runs[r].key /\ runs'[r].body = runs[r].body
    /\ \A s \in RunIds \ {r} : runs'[s] = runs[s]

\* All that a step other than an insert does to the table: one queued row is
\* started, one running row lands, or running rows are given back or age.
LEMMA TableSteps ==
  ASSUME ExecutionInv, NEW w \in Workers, Work(w) \/ Fault(w) \/ Restart(w)
  PROVE  \/ UNCHANGED runs
         \/ \E r \in RunIds : Moved(r, {"queued"}, {"running"})
         \/ \E r \in RunIds : Moved(r, {"running"}, {"succeeded", "failed"})
         \/ Sweep(w)
  <1>1. TypeOK
    BY DEF ExecutionInv
  <1>2. \A r \in RunIds : runs[r] \in Rows
    BY <1>1 DEF TypeOK
  <1>3. ASSUME NEW r \in RunIds, ClaimRow(r)
        PROVE  Moved(r, {"queued"}, {"running"})
    BY <1>1, <1>2, <1>3 DEF ClaimRow, Queued, Moved, TypeOK, Rows
  <1>4. ASSUME Executing(w)
        PROVE  workers[w].run \in RunIds /\ runs[workers[w].run].status = "running"
    BY <1>4 DEF ExecutionInv, SoleExecution
  <1>5. CASE Finish(w)
    <2>1. Executing(w)
      BY <1>5 DEF Finish, Executing, ExecutingPcs
    <2>2. CASE runs' = [runs EXCEPT ![workers[w].run] = Landed(w)]
      <3>1. /\ Landed(w).status \in {"succeeded", "failed"}
            /\ Landed(w).key = runs[workers[w].run].key
            /\ Landed(w).body = runs[workers[w].run].body
        BY <1>2, <1>4, <2>1 DEF Landed, Rows
      <3> HIDE DEF Landed
      <3>2. Moved(workers[w].run, {"running"}, {"succeeded", "failed"})
        BY <1>1, <1>4, <2>1, <2>2, <3>1 DEF Moved, TypeOK
      <3>3. QED BY <1>4, <2>1, <3>2
    <2>3. QED BY <1>5, <2>2 DEF Finish
  <1>6. CASE Fallback(w)
    <2>1. Executing(w)
      BY <1>6 DEF Fallback, Executing, ExecutingPcs
    <2>2. CASE runs' = [runs EXCEPT ![workers[w].run] = Failed(w)]
      <3>1. /\ Failed(w).status \in {"succeeded", "failed"}
            /\ Failed(w).key = runs[workers[w].run].key
            /\ Failed(w).body = runs[workers[w].run].body
        BY <1>2, <1>4, <2>1 DEF Failed, Rows
      <3> HIDE DEF Failed
      <3>2. Moved(workers[w].run, {"running"}, {"succeeded", "failed"})
        BY <1>1, <1>4, <2>1, <2>2, <3>1 DEF Moved, TypeOK
      <3>3. QED BY <1>4, <2>1, <3>2
    <2>3. QED BY <1>6, <2>2 DEF Fallback
  <1>7. CASE Claim(w) \/ LoseConnection(w)
    BY <1>3, <1>7 DEF Claim, LoseConnection
  <1>8. CASE Poll(w) \/ RunArm(w) \/ OpenArtifact(w) \/ CloseArtifact(w)
               \/ Stop(w) \/ Crash(w) \/ Restart(w)
    BY <1>8 DEF Poll, RunArm, OpenArtifact, CloseArtifact, Stop, Crash, Restart
  <1>9. QED BY <1>5, <1>6, <1>7, <1>8 DEF Work, Fault

LEMMA InsertSteps ==
  ASSUME NEW c \in Clients, Request(c)
  PROVE  \/ UNCHANGED runs
         \/ \E r \in RunIds :
              /\ clients[c].pc = "insert" /\ ~KeyTaken(clients[c].key)
              /\ NextRow(r) /\ runs' = [runs EXCEPT ![r] = NewRow(c)]
              /\ answers' = answers \cup
                   {[key |-> clients[c].key, body |-> clients[c].body, run |-> r]}
  BY DEF Request, Post, Refuse, PassGates, Lookup, BudgetGate, Insert, Resolve

LEMMA StillRows ==
  ASSUME UNCHANGED vars \/ Midnight \/ \E a \in Admins : Reimport(a)
  PROVE  UNCHANGED <<runs, clients, answers>>
  BY DEF vars, Midnight, Reimport, ReimportSeen, ReimportList, ReimportRead, ReimportInsert,
     ReimportReturn, reimportOutside, ghosts

\* The row of a finished run is not written again.
LEMMA FinishedStays ==
  ASSUME ExecutionInv, [Next]_vars, NEW r \in RunIds, Terminal(r)
  PROVE  runs'[r] = runs[r]
  <1>1. TypeOK /\ runs[r].status \notin {"absent", "queued", "running"}
    BY DEF ExecutionInv, Terminal
  <1>2. ASSUME NEW c \in Clients, Request(c)
        PROVE  runs'[r] = runs[r]
    BY <1>1, <1>2, InsertSteps DEF NextRow, Exists, TypeOK
  <1>3. ASSUME NEW w \in Workers, Work(w) \/ Fault(w) \/ Restart(w)
        PROVE  runs'[r] = runs[r]
    <2>1. CASE Sweep(w)
      BY <1>1, <2>1 DEF Sweep, Requeueable
    <2>2. QED BY <1>1, <1>3, <2>1, TableSteps DEF Moved
  <1>4. ASSUME NEW s \in RunIds, Age(s)
        PROVE  runs'[r] = runs[r]
    BY <1>1, <1>4 DEF Age, TypeOK
  <1>5. QED BY <1>2, <1>3, <1>4, StillRows DEF Next

\* A finished run is final: no statement of the service changes its row again.
THEOREM FinishedIsFinal == Spec => TerminalIsFinal
  <1>1. ExecutionInv /\ [Next]_vars
          => [\A r \in RunIds : Terminal(r) => runs'[r] = runs[r]]_vars
    BY FinishedStays
  <1>2. QED BY <1>1, InitExecution, NextExecution, PTL DEF Spec, TerminalIsFinal

(* --------------------------- one run per key ---------------------------- *)

\* KeyNamesOneRun speaks of replies and of rows apart; what ties them is that a
\* reply names a row with its key and its body, which no statement changes.
AnswersNameRows ==
    \A x \in answers : Exists(x.run) /\ runs[x.run].key = x.key /\ runs[x.run].body = x.body

AcceptanceInv ==
    /\ ExecutionInv
    /\ KeyNamesOneRun
    /\ AnswersNameRows
    /\ \A r \in RunIds : ~Exists(r) => runs[r] = NoRow
    /\ \A c \in Clients : clients[c].pc # "idle" => clients[c].body \in Bodies

\* Except for an insert, no step touches the key, the body or the existence of
\* a row.
SameOwners ==
    \A r \in RunIds : /\ runs'[r].key = runs[r].key /\ runs'[r].body = runs[r].body
                      /\ Exists(r)' <=> Exists(r)
                      /\ ~Exists(r) => runs'[r] = runs[r]

LEMMA WorkersKeepOwners ==
  ASSUME ExecutionInv, NEW w \in Workers, Work(w) \/ Fault(w) \/ Restart(w)
  PROVE  SameOwners
  <1>1. CASE Sweep(w)
    <2>1. \A r \in RunIds : runs[r] \in Rows
      BY DEF ExecutionInv, TypeOK
    <2> DEFINE requeued(r) == [runs[r] EXCEPT !.status = "queued", !.stale = FALSE]
    <2>2. \A r \in RunIds : /\ requeued(r).key = runs[r].key /\ requeued(r).body = runs[r].body
                            /\ requeued(r).status = "queued"
      BY <2>1 DEF Rows
    <2>3. \A r \in RunIds : runs'[r] = IF Requeueable(r) THEN requeued(r) ELSE runs[r]
      BY <1>1 DEF Sweep
    <2> HIDE DEF requeued
    <2>4. QED BY <2>2, <2>3 DEF SameOwners, Exists, Requeueable
  <1>2. ASSUME NEW r \in RunIds, NEW from, NEW to, Moved(r, from, to),
               "absent" \notin from \cup to
        PROVE  SameOwners
    BY <1>2 DEF Moved, SameOwners, Exists
  <1>3. CASE UNCHANGED runs
    BY <1>3 DEF SameOwners, Exists
  <1>4. QED BY <1>1, <1>2, <1>3, TableSteps

LEMMA AgeKeepsOwners ==
  ASSUME ExecutionInv, NEW r \in RunIds, Age(r)
  PROVE  SameOwners
  <1>1. runs[r] \in Rows
    BY DEF ExecutionInv, TypeOK
  <1>2. QED BY <1>1 DEF Age, SameOwners, Exists, ExecutionInv, TypeOK, Rows

LEMMA OwnersKeepAcceptance ==
  ASSUME AcceptanceInv, ExecutionInv', SameOwners, UNCHANGED <<clients, answers>>
  PROVE  AcceptanceInv'
  <1>1. KeyNamesOneRun'
    BY DEF AcceptanceInv, KeyNamesOneRun, SameOwners
  <1>2. AnswersNameRows'
    <2>1. \A x \in answers : x.run \in RunIds
      BY DEF AcceptanceInv, ExecutionInv, TypeOK
    <2>2. QED BY <2>1 DEF AcceptanceInv, AnswersNameRows, SameOwners
  <1>3. \A r \in RunIds : ~Exists(r)' => runs'[r] = NoRow
    BY DEF AcceptanceInv, SameOwners
  <1>4. QED BY <1>1, <1>2, <1>3 DEF AcceptanceInv

LEMMA RequestKeepsAcceptance ==
  ASSUME AcceptanceInv, ExecutionInv', NEW c \in Clients, Request(c)
  PROVE  AcceptanceInv'
  <1>1. TypeOK /\ AnswersNameRows
    BY DEF AcceptanceInv, ExecutionInv
  <1>2. \A d \in Clients : clients'[d].pc # "idle" => clients'[d].body \in Bodies
    <2>1. \A d \in Clients : clients[d] \in Requests
      BY <1>1 DEF TypeOK
    <2>2. ASSUME NEW pc, Step(c, pc), clients[c].pc # "idle"
          PROVE  \A d \in Clients : clients'[d].pc # "idle" => clients'[d].body \in Bodies
      BY <1>1, <2>1, <2>2 DEF Step, AcceptanceInv, TypeOK, Requests
    <2>3. ASSUME Return(c)
          PROVE  \A d \in Clients : clients'[d].pc # "idle" => clients'[d].body \in Bodies
      BY <1>1, <2>3 DEF Return, Idle, AcceptanceInv, TypeOK
    <2>4. CASE Post(c)
      BY <1>1, <2>4 DEF Post, AcceptanceInv, TypeOK
    <2>5. QED
      BY <2>2, <2>3, <2>4
         DEF Request, Refuse, PassGates, Lookup, BudgetGate, Insert, Resolve
  <1>3. CASE UNCHANGED runs
    <2>1. \A x \in answers' \ answers :
            x.run \in RunIds /\ Exists(x.run) /\ runs[x.run].key = x.key /\ runs[x.run].body = x.body
      <3>1. \A r \in RowOfKey(clients[c].key) : \A x \in Replay(c, r) :
              x.run \in RunIds /\ Exists(x.run) /\ runs[x.run].key = x.key /\ runs[x.run].body = x.body
        BY DEF RowOfKey, Replay
      <3>2. CASE Insert(c)
        <4>1. \/ UNCHANGED answers
              \/ \E r \in RunIds : NextRow(r) /\ runs' = [runs EXCEPT ![r] = NewRow(c)]
          BY <3>2 DEF Insert
        <4>2. ASSUME NEW r \in RunIds, NextRow(r), runs' = [runs EXCEPT ![r] = NewRow(c)]
              PROVE  FALSE
          BY <1>1, <1>3, <4>2 DEF NextRow, Exists, NewRow, TypeOK
        <4>3. QED BY <4>1, <4>2
      <3>3. QED BY <3>1, <3>2
              DEF Request, Post, Refuse, PassGates, Lookup, BudgetGate, Resolve
    <2>2. answers \subseteq answers'
      BY DEF Request, Post, Refuse, PassGates, Lookup, BudgetGate, Insert, Resolve
    <2>3. AnswersNameRows'
      BY <1>1, <1>3, <2>1, <2>2 DEF AnswersNameRows, Exists
    <2>4. KeyNamesOneRun'
      <3>1. \A r, s \in RunIds : runs[r].key = runs[s].key /\ runs[r].key # Null => r = s
        BY DEF AcceptanceInv, KeyNamesOneRun
      <3>2. answers' \subseteq [key : Keys \cup {Null}, body : Bodies \cup {Null}, run : RunIds]
        BY DEF ExecutionInv, TypeOK
      <3>3. \A x, y \in answers' : x.key = y.key /\ x.key # Null => x.run = y.run /\ x.body = y.body
        BY <1>3, <2>3, <3>1, <3>2 DEF AnswersNameRows
      <3>4. \A x, y \in answers' : x.key = y.key /\ x.run = y.run /\ x.body = y.body => x = y
        BY <3>2
      <3>5. QED BY <1>3, <3>1, <3>3, <3>4 DEF KeyNamesOneRun
    <2>5. QED BY <1>2, <1>3, <2>3, <2>4 DEF AcceptanceInv, Exists
  <1>4. ASSUME NEW r \in RunIds, clients[c].pc = "insert", ~KeyTaken(clients[c].key),
               NextRow(r), runs' = [runs EXCEPT ![r] = NewRow(c)],
               answers' = answers \cup
                 {[key |-> clients[c].key, body |-> clients[c].body, run |-> r]}
        PROVE  AcceptanceInv'
    <2>1. /\ runs'[r].status = "queued" /\ runs'[r].key = clients[c].key
          /\ runs'[r].body = clients[c].body
          /\ \A s \in RunIds \ {r} : runs'[s] = runs[s]
      BY <1>1, <1>4 DEF NewRow, TypeOK
    <2>2. ~Exists(r)
      BY <1>4 DEF NextRow
    <2>3. \A s \in RunIds : clients[c].key # Null => runs[s].key # clients[c].key
      BY <1>4 DEF KeyTaken, RowOfKey, AcceptanceInv, NoRow
    <2>4. \A s, t \in RunIds : runs'[s].key = runs'[t].key /\ runs'[s].key # Null => s = t
      BY <2>1, <2>3 DEF AcceptanceInv, KeyNamesOneRun
    <2>5. answers' \subseteq [key : Keys \cup {Null}, body : Bodies \cup {Null}, run : RunIds]
      BY DEF ExecutionInv, TypeOK
    <2>6. AnswersNameRows'
      <3>1. \A x \in answers : x.run \in RunIds \ {r}
        BY <1>1, <2>2 DEF AnswersNameRows, TypeOK
      <3>2. QED BY <1>1, <1>4, <2>1, <3>1 DEF AnswersNameRows, Exists
    <2>7. \A x, y \in answers' : x.key = y.key /\ x.key # Null => x = y
      <3>1. \A x, y \in answers' : x.key = y.key /\ x.key # Null => x.run = y.run /\ x.body = y.body
        BY <2>4, <2>5, <2>6 DEF AnswersNameRows
      <3>2. \A x, y \in answers' : x.key = y.key /\ x.run = y.run /\ x.body = y.body => x = y
        BY <2>5
      <3>3. QED BY <3>1, <3>2
    <2>8. \A s \in RunIds : ~Exists(s)' => runs'[s] = NoRow
      BY <2>1 DEF AcceptanceInv, Exists
    <2>9. QED BY <1>2, <2>4, <2>6, <2>7, <2>8 DEF AcceptanceInv, KeyNamesOneRun
  <1>5. QED BY <1>3, <1>4, InsertSteps

LEMMA InitAcceptance == Init => AcceptanceInv
  BY InitExecution DEF Init, AcceptanceInv, KeyNamesOneRun, AnswersNameRows, NoRow, Idle

LEMMA NextAcceptance == AcceptanceInv /\ [Next]_vars => AcceptanceInv'
  <1> SUFFICES ASSUME AcceptanceInv, [Next]_vars PROVE AcceptanceInv'
    OBVIOUS
  <1>1. ExecutionInv'
    BY NextExecution DEF AcceptanceInv
  <1>2. CASE UNCHANGED <<runs, clients, answers>>
    BY <1>1, <1>2 DEF AcceptanceInv, KeyNamesOneRun, AnswersNameRows, Exists
  <1>3. ASSUME NEW w \in Workers, Work(w) \/ Fault(w) \/ Restart(w)
        PROVE  AcceptanceInv'
    <2>1. UNCHANGED <<clients, answers>>
      BY <1>3 DEF Work, Fault, Poll, Sweep, Claim, RunArm, OpenArtifact, CloseArtifact,
         Finish, Fallback, Stop, Crash, LoseConnection, Restart, requestVars
    <2>2. QED BY <1>1, <1>3, <2>1, WorkersKeepOwners, OwnersKeepAcceptance DEF AcceptanceInv
  <1>4. ASSUME NEW r \in RunIds, Age(r)
        PROVE  AcceptanceInv'
    <2>1. UNCHANGED <<clients, answers>>
      BY <1>4 DEF Age, ghosts
    <2>2. QED BY <1>1, <1>4, <2>1, AgeKeepsOwners, OwnersKeepAcceptance DEF AcceptanceInv
  <1>5. QED BY <1>1, <1>2, <1>3, <1>4, StillRows, RequestKeepsAcceptance DEF Next

\* However many retries race between the lookup and the insert of create_run(),
\* an idempotency key is one row and every 202 reply to it tells the same run.
THEOREM OneRunPerKey == Spec => []KeyNamesOneRun
  <1>1. AcceptanceInv => KeyNamesOneRun
    BY DEF AcceptanceInv
  <1>2. QED BY <1>1, InitAcceptance, NextAcceptance, PTL DEF Spec

(* ---------------------------- the refinement ---------------------------- *)

phaseBar == [r \in RunIds |-> runs[r].status]
ownerBar == [r \in RunIds |-> [key |-> runs[r].key, body |-> runs[r].body]]

LEMMA SameLedger ==
  ASSUME \A r \in RunIds : /\ runs'[r].status = runs[r].status
                           /\ runs'[r].key = runs[r].key /\ runs'[r].body = runs[r].body
  PROVE  UNCHANGED <<phaseBar, ownerBar>>
  BY DEF phaseBar, ownerBar

LEMMA SameOwnerBar ==
  ASSUME SameOwners
  PROVE  UNCHANGED ownerBar
  BY DEF ownerBar, SameOwners

LEMMA MovedPhase ==
  ASSUME NEW r \in RunIds, NEW from, NEW to, Moved(r, from, to)
  PROVE  /\ phaseBar[r] \in from
         /\ \E t \in to : phaseBar' = [phaseBar EXCEPT ![r] = t]
         /\ UNCHANGED ownerBar
  BY DEF Moved, phaseBar, ownerBar

LEMMA InsertAccepts ==
  ASSUME AcceptanceInv, NEW c \in Clients, Request(c)
  PROVE  [Ledger!LedgerNext]_<<phaseBar, ownerBar>>
  <1>1. CASE UNCHANGED runs
    BY <1>1 DEF phaseBar, ownerBar
  <1>2. ASSUME NEW r \in RunIds, clients[c].pc = "insert", ~KeyTaken(clients[c].key),
               NextRow(r), runs' = [runs EXCEPT ![r] = NewRow(c)]
        PROVE  Ledger!LedgerNext
    <2>1. TypeOK
      BY DEF AcceptanceInv, ExecutionInv
    <2>2. clients[c].key \in Keys \cup {Null} /\ clients[c].body \in Bodies
      BY <1>2, <2>1 DEF AcceptanceInv, TypeOK, Requests
    <2>3. /\ runs'[r].status = "queued" /\ runs'[r].key = clients[c].key
          /\ runs'[r].body = clients[c].body
          /\ \A s \in RunIds \ {r} : runs'[s] = runs[s]
      BY <1>2, <2>1 DEF NewRow, TypeOK
    <2>4. phaseBar[r] = "absent"
      BY <1>2 DEF NextRow, Exists, phaseBar
    <2>5. clients[c].key # Null =>
            \A s \in RunIds : phaseBar[s] # "absent" => ownerBar[s].key # clients[c].key
      BY <1>2 DEF KeyTaken, RowOfKey, Exists, phaseBar, ownerBar
    <2>6. phaseBar' = [phaseBar EXCEPT ![r] = "queued"]
      BY <2>3 DEF phaseBar
    <2>7. PICK k \in Keys \cup {Null}, b \in Bodies : k = clients[c].key /\ b = clients[c].body
      BY <2>2
    <2>8. ownerBar' = [ownerBar EXCEPT ![r] = [key |-> k, body |-> b]]
      BY <2>3, <2>7 DEF ownerBar
    <2>9. Ledger!Accept(r, k, b)
      BY <2>4, <2>5, <2>6, <2>7, <2>8 DEF Ledger!Accept, phaseBar, ownerBar
    <2>10. QED BY <2>9 DEF Ledger!LedgerNext
  <1>3. QED BY <1>1, <1>2, InsertSteps

LEMMA WorkerStartsAndLands ==
  ASSUME AcceptanceInv, NEW w \in Workers, Work(w) \/ Fault(w) \/ Restart(w)
  PROVE  [Ledger!LedgerNext]_<<phaseBar, ownerBar>>
  <1>1. CASE UNCHANGED runs
    BY <1>1 DEF phaseBar, ownerBar
  <1>2. ASSUME NEW r \in RunIds, Moved(r, {"queued"}, {"running"})
        PROVE  Ledger!LedgerNext
    <2>1. /\ phaseBar[r] = "queued"
          /\ phaseBar' = [phaseBar EXCEPT ![r] = "running"]
          /\ UNCHANGED ownerBar
      BY <1>2, MovedPhase
    <2>2. Ledger!Start(r)
      BY <2>1 DEF Ledger!Start, phaseBar, ownerBar
    <2>3. QED BY <2>2 DEF Ledger!LedgerNext
  <1>3. ASSUME NEW r \in RunIds, Moved(r, {"running"}, {"succeeded", "failed"})
        PROVE  Ledger!LedgerNext
    <2>1. PICK outcome \in {"succeeded", "failed"} :
            /\ phaseBar[r] = "running"
            /\ phaseBar' = [phaseBar EXCEPT ![r] = outcome]
            /\ UNCHANGED ownerBar
      BY <1>3, MovedPhase
    <2>2. Ledger!Land(r, outcome)
      BY <2>1 DEF Ledger!Land, phaseBar, ownerBar
    <2>3. QED BY <2>2 DEF Ledger!LedgerNext
  <1>4. CASE Sweep(w)
    <2> DEFINE given == {r \in RunIds : Requeueable(r)}
    <2>1. \A r \in RunIds : runs[r] \in Rows
      BY DEF AcceptanceInv, ExecutionInv, TypeOK
    <2>2. UNCHANGED ownerBar
      BY <1>4, WorkersKeepOwners, SameOwnerBar DEF AcceptanceInv
    <2>3. \A r \in RunIds : runs'[r].status = IF r \in given THEN "queued" ELSE runs[r].status
      BY <1>4, <2>1 DEF Sweep, Rows
    <2>4. \A r \in given : phaseBar[r] = "running"
      BY DEF Requeueable, phaseBar
    <2>5. phaseBar' = [r \in RunIds |-> IF r \in given THEN "queued" ELSE phaseBar[r]]
      BY <2>3 DEF phaseBar
    <2>6. PICK S \in SUBSET RunIds : S = given
      OBVIOUS
    <2> HIDE DEF given
    <2>7. Ledger!GiveBack(S)
      BY <2>2, <2>4, <2>5, <2>6 DEF Ledger!GiveBack, phaseBar, ownerBar
    <2>8. QED BY <2>7 DEF Ledger!LedgerNext
  <1>5. QED BY <1>1, <1>2, <1>3, <1>4, TableSteps DEF AcceptanceInv

LEMMA AgeStutters ==
  ASSUME AcceptanceInv, NEW r \in RunIds, Age(r)
  PROVE  UNCHANGED <<phaseBar, ownerBar>>
  <1>1. runs[r] \in Rows
    BY DEF AcceptanceInv, ExecutionInv, TypeOK
  <1>2. \A s \in RunIds : /\ runs'[s].status = runs[s].status
                          /\ runs'[s].key = runs[s].key /\ runs'[s].body = runs[s].body
    BY <1>1 DEF Age, Rows, AcceptanceInv, ExecutionInv, TypeOK
  <1>3. QED BY <1>2, SameLedger

\* The service implements the ledger: every statement is an acceptance, a start,
\* a giving back, a landing or no step at all of RunLedger.
THEOREM ServiceImplementsLedger == Spec => ImplementsLedger
  <1>1. Init => Ledger!LedgerInit
    BY DEF Init, NoRow, Ledger!LedgerInit, Ledger!Nobody
  <1>2. AcceptanceInv /\ [Next]_vars => [Ledger!LedgerNext]_<<phaseBar, ownerBar>>
    <2> SUFFICES ASSUME AcceptanceInv, [Next]_vars
                 PROVE  [Ledger!LedgerNext]_<<phaseBar, ownerBar>>
      OBVIOUS
    <2>1. CASE UNCHANGED runs
      BY <2>1 DEF phaseBar, ownerBar
    <2>2. QED BY <2>1, StillRows, InsertAccepts, WorkerStartsAndLands, AgeStutters DEF Next
  <1>3. AcceptanceInv /\ [Next]_vars => [Ledger!LedgerNext]_Ledger!ledgerVars
    BY <1>2 DEF phaseBar, ownerBar, Ledger!ledgerVars
  <1>4. QED
    BY <1>1, <1>3, InitAcceptance, NextAcceptance, PTL
       DEF Spec, ImplementsLedger, Ledger!LedgerSpec

(* ------------------- what a step does to a row, a file ------------------ *)

\* The row is left alone, or changes its status and its age only.
Untouched(r) ==
    /\ runs'[r].path = runs[r].path /\ runs'[r].cost = runs[r].cost
    /\ Terminal(r)' <=> Terminal(r)
    /\ runs'[r].status = "running" => runs[r].status = "running" \/ runs[r].status = "queued"

Inserted(r) ==
    runs'[r].path = Null /\ runs'[r].cost = Null /\ runs'[r].status = "queued"

\* Worker w lands row r, in the third write or in the except branch.
LandedBy(w, r) ==
    /\ workers[w].run = r /\ workers[w].pc \in {"finish", "fallback"}
    /\ ~PathTaken(workers[w].path, r)
    /\ runs'[r].path = workers[w].path /\ Terminal(r)'
    /\ \/ workers[w].pc = "finish" /\ runs'[r].cost = workers[w].res.cost
       \/ workers[w].pc = "fallback" /\ runs'[r].cost = runs[r].cost

\* An update of one row.
LEMMA OneRow ==
  ASSUME TypeOK, NEW r \in RunIds, NEW row, runs' = [runs EXCEPT ![r] = row]
  PROVE  runs'[r] = row /\ \A s \in RunIds \ {r} : runs'[s] = runs[s]
  BY DEF TypeOK

LEMMA SameRow ==
  ASSUME NEW r \in RunIds, runs'[r] = runs[r]
  PROVE  Untouched(r)
  BY DEF Untouched, Terminal

\* Every step leaves a row alone, makes it, or lands it.
LEMMA RowSteps ==
  ASSUME ExecutionInv, [Next]_vars, NEW r \in RunIds
  PROVE  Untouched(r) \/ Inserted(r) \/ \E w \in Workers : LandedBy(w, r)
  <1>1. TypeOK /\ runs[r] \in Rows /\ \A s \in RunIds : runs[s] \in Rows
    BY DEF ExecutionInv, TypeOK
  <1>2. ASSUME UNCHANGED runs PROVE Untouched(r)
    BY <1>2, SameRow
  <1>3. ASSUME NEW c \in Clients, Request(c)
        PROVE  Untouched(r) \/ Inserted(r)
    <2>1. ASSUME NEW s \in RunIds, NextRow(s), runs' = [runs EXCEPT ![s] = NewRow(c)]
          PROVE  Untouched(r) \/ Inserted(r)
      <3>1. NewRow(c).status = "queued" /\ NewRow(c).path = Null /\ NewRow(c).cost = Null
        BY DEF NewRow
      <3>2. r = s \/ runs'[r] = runs[r]
        BY <1>1, <2>1, OneRow
      <3>3. runs'[s] = NewRow(c)
        BY <1>1, <2>1, OneRow
      <3>4. QED BY <3>1, <3>2, <3>3, SameRow DEF Inserted
    <2>2. \/ UNCHANGED runs
          \/ \E s \in RunIds : NextRow(s) /\ runs' = [runs EXCEPT ![s] = NewRow(c)]
      BY <1>3 DEF Request, Post, Refuse, PassGates, Lookup, BudgetGate, Insert, Resolve
    <2>3. QED BY <1>2, <2>1, <2>2
  <1>4. ASSUME NEW s \in RunIds, ClaimRow(s)
        PROVE  Untouched(r)
    <2> DEFINE row == [runs[s] EXCEPT !.status = "running", !.stale = FALSE]
    <2>1. row.status = "running" /\ row.path = runs[s].path /\ row.cost = runs[s].cost
      BY <1>1 DEF Rows
    <2>2. runs' = [runs EXCEPT ![s] = row] /\ runs[s].status = "queued"
      BY <1>4 DEF ClaimRow, Queued
    <2> HIDE DEF row
    <2>3. runs'[s] = row /\ (r = s \/ runs'[r] = runs[r])
      BY <1>1, <2>2, OneRow
    <2>4. QED BY <2>1, <2>2, <2>3, SameRow DEF Untouched, Terminal
  <1>5. ASSUME NEW w \in Workers, Sweep(w)
        PROVE  Untouched(r)
    <2> DEFINE row == [runs[r] EXCEPT !.status = "queued", !.stale = FALSE]
    <2>1. row.status = "queued" /\ row.path = runs[r].path /\ row.cost = runs[r].cost
      BY <1>1 DEF Rows
    <2>2. runs'[r] = IF Requeueable(r) THEN row ELSE runs[r]
      BY <1>5 DEF Sweep
    <2> HIDE DEF row
    <2>3. QED BY <2>1, <2>2, SameRow DEF Untouched, Terminal, Requeueable
  <1>6. ASSUME NEW s \in RunIds, Age(s)
        PROVE  Untouched(r)
    <2> DEFINE row == [runs[s] EXCEPT !.stale = TRUE]
    <2>1. row.status = runs[s].status /\ row.path = runs[s].path /\ row.cost = runs[s].cost
      BY <1>1 DEF Rows
    <2>2. runs' = [runs EXCEPT ![s] = row]
      BY <1>6 DEF Age
    <2> HIDE DEF row
    <2>3. runs'[s] = row /\ (r = s \/ runs'[r] = runs[r])
      BY <1>1, <2>2, OneRow
    <2>4. QED BY <2>1, <2>3, SameRow DEF Untouched, Terminal
  <1>7. ASSUME NEW w \in Workers, Finish(w), ~(UNCHANGED runs)
        PROVE  Untouched(r) \/ \E v \in Workers : LandedBy(v, r)
    <2>1. workers[w].pc = "finish" /\ workers[w].run \in RunIds
          /\ ~PathTaken(workers[w].path, workers[w].run)
          /\ runs' = [runs EXCEPT ![workers[w].run] = Landed(w)]
      BY <1>7 DEF Finish, ExecutionInv, SoleExecution, Executing, ExecutingPcs
    <2>2. Landed(w).status \in {"succeeded", "failed"} /\ Landed(w).path = workers[w].path
          /\ Landed(w).cost = workers[w].res.cost
      BY <1>1, <2>1 DEF Landed, Rows
    <2> HIDE DEF Landed
    <2>3. runs'[workers[w].run] = Landed(w) /\ (r = workers[w].run \/ runs'[r] = runs[r])
      BY <1>1, <2>1, OneRow
    <2>4. QED BY <2>1, <2>2, <2>3, SameRow DEF LandedBy, Terminal
  <1>8. ASSUME NEW w \in Workers, Fallback(w), ~(UNCHANGED runs)
        PROVE  Untouched(r) \/ \E v \in Workers : LandedBy(v, r)
    <2>1. workers[w].pc = "fallback" /\ workers[w].run \in RunIds
          /\ ~PathTaken(workers[w].path, workers[w].run)
          /\ runs' = [runs EXCEPT ![workers[w].run] = Failed(w)]
      BY <1>8 DEF Fallback, ExecutionInv, SoleExecution, Executing, ExecutingPcs
    <2>2. Failed(w).status \in {"succeeded", "failed"} /\ Failed(w).path = workers[w].path
          /\ Failed(w).cost = runs[workers[w].run].cost
      BY <1>1, <2>1 DEF Failed, Rows
    <2> HIDE DEF Failed
    <2>3. runs'[workers[w].run] = Failed(w) /\ (r = workers[w].run \/ runs'[r] = runs[r])
      BY <1>1, <2>1, OneRow
    <2>4. QED BY <2>1, <2>2, <2>3, SameRow DEF LandedBy, Terminal
  <1>9. ASSUME NEW w \in Workers, Work(w) \/ Fault(w) \/ Restart(w)
        PROVE  \/ UNCHANGED runs \/ Sweep(w) \/ Finish(w) \/ Fallback(w)
               \/ \E s \in RunIds : ClaimRow(s)
    BY <1>9 DEF Work, Fault, Poll, Claim, RunArm, OpenArtifact, CloseArtifact, Stop, Crash,
       LoseConnection, Restart
  <1>10. ASSUME NEW w \in Workers, Work(w) \/ Fault(w) \/ Restart(w)
         PROVE  Untouched(r) \/ Inserted(r) \/ \E v \in Workers : LandedBy(v, r)
    BY <1>2, <1>4, <1>5, <1>7, <1>8, <1>9, <1>10
  <1>11. QED BY <1>2, <1>3, <1>6, <1>10, StillRows DEF Next

(* ------------------------- one artefact, one row ------------------------ *)

\* A row names an artefact of its own run, and only once it has landed.
PathsOwn ==
    \A r \in RunIds :
      /\ runs[r].path # Null => runs[r].path[1] = r
      /\ ~Terminal(r) => runs[r].path = Null /\ runs[r].cost = Null

ArtifactInv == ExecutionInv /\ PathsOwn /\ ArtifactInOneRow

\* A step of reimport or of a worker inserts or lands under a free path.
LEMMA ImportSteps ==
  ASSUME TypeOK, [Next]_vars, NEW p \in Paths
  PROVE  imported'[p] = imported[p] \/ (~PathTaken(p, Null) /\ UNCHANGED runs)
  <1>1. ASSUME NEW a \in Admins, ReimportInsert(a)
        PROVE  imported'[p] = imported[p] \/ (~PathTaken(p, Null) /\ UNCHANGED runs)
    <2>1. \/ UNCHANGED imported
          \/ /\ ~PathTaken(admins[a].at, Null) /\ UNCHANGED runs
             /\ imported' = [imported EXCEPT ![admins[a].at] = admins[a].row]
      BY <1>1 DEF ReimportInsert, reimportOutside
    <2>2. QED BY <2>1 DEF TypeOK
  <1>2. CASE UNCHANGED imported
    BY <1>2
  <1>3. ASSUME NEW c \in Clients, Request(c)
        PROVE  UNCHANGED imported
    BY <1>3 DEF Request, Post, Refuse, PassGates, Lookup, BudgetGate, Insert, Resolve, serviceVars
  <1>4. ASSUME NEW w \in Workers, Work(w) \/ Fault(w) \/ Restart(w)
        PROVE  UNCHANGED imported
    BY <1>4 DEF Work, Fault, Poll, Sweep, Claim, RunArm, OpenArtifact, CloseArtifact, Finish,
       Fallback, Stop, Crash, LoseConnection, Restart, requestVars
  <1>5. ASSUME NEW r \in RunIds, Age(r)
        PROVE  UNCHANGED imported
    BY <1>5 DEF Age
  <1>6. ASSUME Midnight \/ UNCHANGED vars
        PROVE  UNCHANGED imported
    BY <1>6 DEF Midnight, vars
  <1>7. ASSUME NEW a \in Admins, Reimport(a)
        PROVE  ReimportInsert(a) \/ UNCHANGED imported
    BY <1>7 DEF Reimport, ReimportSeen, ReimportList, ReimportRead, ReimportReturn
  <1>8. QED BY <1>1, <1>2, <1>3, <1>4, <1>5, <1>6, <1>7 DEF Next

LEMMA InitArtifact == Init => ArtifactInv
  <1> SUFFICES ASSUME Init PROVE ArtifactInv
    OBVIOUS
  <1>1. \A r \in RunIds : runs[r] = NoRow
    BY DEF Init
  <1>2. \A r \in RunIds : runs[r].path = Null /\ runs[r].cost = Null
    BY <1>1 DEF NoRow
  <1>3. QED BY <1>2, InitExecution DEF ArtifactInv, PathsOwn, ArtifactInOneRow

LEMMA NextArtifact == ArtifactInv /\ [Next]_vars => ArtifactInv'
  <1> SUFFICES ASSUME ArtifactInv, [Next]_vars PROVE ArtifactInv'
    OBVIOUS
  <1>1. ExecutionInv /\ ExecutionInv' /\ TypeOK /\ TypeOK' /\ PathsOwn /\ ArtifactInOneRow
    BY NextExecution DEF ArtifactInv, ExecutionInv
  <1>2. \A w \in Workers : workers[w].path # Null => workers[w].path[1] = workers[w].run
    BY <1>1 DEF TypeOK, InHand, Consistent
  <1>3. PathsOwn'
    <2> SUFFICES ASSUME NEW r \in RunIds
                 PROVE  /\ runs'[r].path # Null => runs'[r].path[1] = r
                        /\ ~Terminal(r)' => runs'[r].path = Null /\ runs'[r].cost = Null
      BY DEF PathsOwn
    <2>1. CASE Untouched(r)
      BY <1>1, <2>1 DEF Untouched, PathsOwn
    <2>2. CASE Inserted(r)
      BY <2>2 DEF Inserted, PathsOwn
    <2>3. ASSUME NEW w \in Workers, LandedBy(w, r)
          PROVE  /\ runs'[r].path # Null => runs'[r].path[1] = r
                 /\ ~Terminal(r)' => runs'[r].path = Null /\ runs'[r].cost = Null
      BY <1>2, <2>3 DEF LandedBy
    <2>4. QED BY <1>1, <2>1, <2>2, <2>3, RowSteps DEF PathsOwn
  <1>4. ASSUME NEW r \in RunIds, runs'[r].path # Null
        PROVE  imported'[runs'[r].path] = Null
    <2> DEFINE p == runs'[r].path
    <2>1. p \in Paths
      BY <1>1, <1>4 DEF TypeOK, Rows
    <2>2. runs[r].path = p => imported[p] = Null
      BY <1>1, <1>4 DEF ArtifactInOneRow
    <2>3. CASE UNCHANGED runs
      <3>1. runs[r].path = p /\ r \in RunIds \ {Null}
        BY <2>3, NullAssumption
      <3>2. PathTaken(p, Null)
        BY <1>4, <3>1 DEF PathTaken
      <3>3. QED BY <1>1, <2>1, <2>2, <3>1, <3>2, ImportSteps
    <2>4. CASE ~(UNCHANGED runs)
      <3>1. imported'[p] = imported[p]
        BY <1>1, <2>1, <2>4, ImportSteps
      <3>2. CASE Untouched(r)
        BY <2>2, <3>1, <3>2 DEF Untouched
      <3>3. ASSUME NEW w \in Workers, LandedBy(w, r)
            PROVE  imported[p] = Null
        BY <1>4, <3>3 DEF LandedBy, PathTaken
      <3>4. QED BY <1>1, <1>4, <3>1, <3>2, <3>3, RowSteps DEF Inserted
    <2>5. QED BY <2>3, <2>4
  <1>5. ArtifactInOneRow'
    BY <1>3, <1>4 DEF ArtifactInOneRow, PathsOwn
  <1>6. QED BY <1>1, <1>3, <1>5 DEF ArtifactInv

\* One artefact is one row, whichever of worker and reimport comes first, and
\* however they, crashes and later executions interleave.
THEOREM OneRowPerArtifact == Spec => []ArtifactInOneRow
  <1>1. ArtifactInv => ArtifactInOneRow
    BY DEF ArtifactInv
  <1>2. QED BY <1>1, InitArtifact, NextArtifact, PTL DEF Spec

(* ------------------- a known key and the budget gate -------------------- *)

\* What a request took for known is known still, and its lookup finds the row.
KnownInv ==
    /\ ExecutionInv
    /\ \A c \in Clients :
         clients[c].known => /\ KeyTaken(clients[c].key)
                             /\ clients[c].pc \notin {"budget", "insert"}

TakenAfter(k) == k # Null /\ \E r \in RunIds : runs'[r].status # "absent" /\ runs'[r].key = k

\* Rows are never deleted and keep their keys.
LEMMA KeysStay ==
  ASSUME ExecutionInv, [Next]_vars, NEW k, KeyTaken(k)
  PROVE  TakenAfter(k)
  <1>1. PICK r \in RunIds : Exists(r) /\ runs[r].key = k /\ k # Null
    BY DEF KeyTaken, RowOfKey
  <1>2. TypeOK
    BY DEF ExecutionInv
  <1>3. ASSUME NEW c \in Clients, Request(c)
        PROVE  runs'[r] = runs[r]
    <2>1. \/ UNCHANGED runs
          \/ \E s \in RunIds : NextRow(s) /\ runs' = [runs EXCEPT ![s] = NewRow(c)]
      BY <1>3 DEF Request, Post, Refuse, PassGates, Lookup, BudgetGate, Insert, Resolve
    <2>2. ASSUME NEW s \in RunIds, NextRow(s), runs' = [runs EXCEPT ![s] = NewRow(c)]
          PROVE  runs'[r] = runs[r]
      BY <1>1, <1>2, <2>2, OneRow DEF NextRow
    <2>3. QED BY <2>1, <2>2
  <1>4. ASSUME SameOwners PROVE Exists(r)' /\ runs'[r].key = k
    BY <1>1, <1>4 DEF SameOwners
  <1>5. Exists(r)' /\ runs'[r].key = k
    BY <1>1, <1>3, <1>4, WorkersKeepOwners, AgeKeepsOwners, StillRows DEF Next, Exists
  <1>6. QED BY <1>1, <1>5 DEF TakenAfter, Exists

LEMMA NextKnown == KnownInv /\ [Next]_vars => KnownInv'
  <1> SUFFICES ASSUME KnownInv, [Next]_vars PROVE KnownInv'
    OBVIOUS
  <1>1. ExecutionInv /\ ExecutionInv' /\ TypeOK
    BY NextExecution DEF KnownInv, ExecutionInv
  <1>2. \A c \in Clients : clients[c] \in Requests
    BY <1>1 DEF TypeOK
  <1>3. ASSUME \A c \in Clients : clients'[c].known =>
                 TakenAfter(clients'[c].key) /\ clients'[c].pc \notin {"budget", "insert"}
        PROVE  KnownInv'
    BY <1>1, <1>3 DEF KnownInv, KeyTaken, RowOfKey, Exists, TakenAfter
  <1>4. \A c \in Clients : clients[c].known =>
          /\ KeyTaken(clients[c].key) /\ TakenAfter(clients[c].key)
          /\ clients[c].pc \notin {"budget", "insert"}
    <2> TAKE c \in Clients
    <2>1. clients[c].known => KeyTaken(clients[c].key) /\ clients[c].pc \notin {"budget", "insert"}
      BY DEF KnownInv
    <2>2. KeyTaken(clients[c].key) => TakenAfter(clients[c].key)
      BY <1>1, KeysStay
    <2>3. QED BY <2>1, <2>2
  <1>5. CASE UNCHANGED clients
    BY <1>3, <1>4, <1>5
  <1>6. ASSUME NEW c \in Clients, Request(c) PROVE KnownInv'
    <2>1. \A d \in Clients \ {c} : clients'[d] = clients[d]
      BY <1>1, <1>6 DEF Request, Post, Refuse, PassGates, Lookup, BudgetGate, Insert, Resolve,
         Step, Return, TypeOK
    <2>2. ASSUME NEW pc, Step(c, pc)
          PROVE  clients'[c].known = clients[c].known /\ clients'[c].key = clients[c].key
                 /\ clients'[c].pc = pc
      BY <1>1, <1>2, <2>2 DEF Step, TypeOK, Requests
    <2>3. Return(c) => ~clients'[c].known
      BY <1>1 DEF Return, Idle, TypeOK
    <2> DEFINE Safe == clients'[c].known =>
                         TakenAfter(clients'[c].key) /\ clients'[c].pc \notin {"budget", "insert"}
    <2>4. Return(c) => Safe
      BY <2>3
    <2>5. \A pc : Step(c, pc) /\ (clients[c].known => pc \notin {"budget", "insert"}) => Safe
      BY <1>4, <2>2
    <2>6. ASSUME Post(c) PROVE Safe
      <3>1. UNCHANGED runs
        BY <2>6 DEF Post
      <3>2. PICK k \in Keys \cup {Null}, b \in Bodies :
              clients' = [clients EXCEPT ![c] =
                            [pc |-> "gate", key |-> k, body |-> b, known |-> KeyTaken(k)]]
        BY <2>6 DEF Post
      <3>3. clients'[c] = [pc |-> "gate", key |-> k, body |-> b, known |-> KeyTaken(k)]
        BY <1>1, <3>2 DEF TypeOK
      <3>4. clients'[c].key = k /\ clients'[c].pc = "gate" /\ clients'[c].known = KeyTaken(k)
        BY <3>3
      <3>5. KeyTaken(k) => TakenAfter(k)
        BY <3>1 DEF KeyTaken, RowOfKey, Exists, TakenAfter
      <3>6. QED BY <3>4, <3>5
    <2>7. ASSUME PassGates(c) PROVE Safe
      <3>1. clients[c].known => AfterGate(c) = "lookup"
        BY <1>4 DEF AfterGate, KeyTaken
      <3>2. Step(c, AfterGate(c))
        BY <2>7 DEF PassGates
      <3>3. QED BY <2>5, <3>1, <3>2
    <2>8. ASSUME Lookup(c) PROVE Safe
      <3>1. clients[c].known => RowOfKey(clients[c].key) # {}
        BY <1>4 DEF KeyTaken
      <3>2. (RowOfKey(clients[c].key) = {} /\ Step(c, "budget")) \/ Return(c)
        BY <2>8 DEF Lookup
      <3>3. QED BY <2>4, <2>5, <3>1, <3>2
    <2>9. ASSUME BudgetGate(c) PROVE Safe
      <3>1. ~clients[c].known /\ (Return(c) \/ Step(c, "insert"))
        BY <1>4, <2>9 DEF BudgetGate
      <3>2. QED BY <2>4, <2>5, <3>1
    <2>10. ASSUME Insert(c) PROVE Safe
      <3>1. Step(c, "resolve") \/ Return(c)
        BY <2>10 DEF Insert
      <3>2. QED BY <2>4, <2>5, <3>1
    <2>11. ASSUME Resolve(c) \/ Refuse(c) PROVE Safe
      BY <2>4, <2>11 DEF Resolve, Refuse
    <2>12. Safe
      BY <1>6, <2>6, <2>7, <2>8, <2>9, <2>10, <2>11 DEF Request
    <2>13. QED BY <1>3, <1>4, <2>1, <2>12
  <1>7. ASSUME NEW w \in Workers, Work(w) \/ Fault(w) \/ Restart(w) PROVE UNCHANGED clients
    BY <1>7 DEF Work, Fault, Poll, Sweep, Claim, RunArm, OpenArtifact, CloseArtifact, Finish,
       Fallback, Stop, Crash, LoseConnection, Restart, requestVars
  <1>8. ASSUME NEW r \in RunIds, Age(r) PROVE UNCHANGED clients
    BY <1>8 DEF Age
  <1>9. QED BY <1>5, <1>6, <1>7, <1>8, StillRows DEF Next

\* A retry whose key had a row when it arrived never reaches the budget gate,
\* however the row's run and other requests move meanwhile.
THEOREM RetryMeetsNoBreaker == Spec => []KnownKeyPassesNoBudgetGate
  <1>1. Init => KnownInv
    BY InitExecution DEF Init, KnownInv, Idle
  <1>2. KnownInv => KnownKeyPassesNoBudgetGate
    BY DEF KnownInv, KnownKeyPassesNoBudgetGate
  <1>3. QED BY <1>1, <1>2, NextKnown, PTL DEF Spec

(* -------------------- evidence and stranded runs ------------------------ *)

\* Where nobody calls reimport: no row is an import, and a worker past the second write
\* holds the path of a file that says what its result says.
AuditInv ==
    /\ ArtifactInv
    /\ \A p \in Paths : imported[p] = Null
    /\ \A w \in Workers : workers[w].path # Null =>
         /\ workers[w].pc \in {"finish", "fallback"}
         /\ workers[w].res \in Results
         /\ disk[workers[w].path] = workers[w].res
    /\ EvidenceBehindRow
    /\ StrandedOnlyByFault

\* A worker that is not between the second write and its landing holds no path;
\* and one that is there keeps what it holds, or has just closed its file.
LEMMA PathSteps ==
  ASSUME AuditInv, [Next]_vars, NEW w \in Workers, workers'[w].path # Null
  PROVE  /\ workers'[w].pc \in {"finish", "fallback"}
         /\ \/ /\ workers[w].path # Null /\ workers'[w].path = workers[w].path
               /\ workers'[w].res = workers[w].res /\ workers'[w].run = workers[w].run
            \/ /\ workers[w].pc = "close" /\ CloseArtifact(w)
               /\ workers'[w].path = PathOf(workers[w].run, workers[w].day)
               /\ workers'[w].res = workers[w].res
               /\ disk' = [disk EXCEPT ![workers'[w].path] = workers[w].res]
  <1>1. TypeOK /\ \A v \in Workers : workers[v] \in WorkerStates
    BY DEF AuditInv, ArtifactInv, ExecutionInv, TypeOK
  <1>2. workers[w].path # Null => workers[w].pc \in {"finish", "fallback"}
    BY DEF AuditInv
  <1>3. CASE workers'[w] = workers[w]
    BY <1>2, <1>3
  <1>4. CASE UNCHANGED workers
    BY <1>2, <1>4
  <1>5. ASSUME NEW v \in Workers, Work(v) \/ Fault(v) \/ Restart(v)
        PROVE  v = w \/ workers'[w] = workers[w]
    BY <1>1, <1>5 DEF Work, Fault, Poll, Sweep, Claim, RunArm, OpenArtifact, CloseArtifact, Finish,
       Fallback, Stop, Crash, LoseConnection, Restart, Goto, Leave, TypeOK
  <1>6. ASSUME NEW c \in Clients, Request(c) PROVE UNCHANGED workers
    BY <1>6 DEF Request, Post, Refuse, PassGates, Lookup, BudgetGate, Insert, Resolve, serviceVars
  <1>7. ASSUME Midnight \/ (\E a \in Admins : Reimport(a)) \/ (\E r \in RunIds : Age(r))
               \/ UNCHANGED vars
        PROVE  UNCHANGED workers
    BY <1>7 DEF Midnight, Reimport, ReimportSeen, ReimportList, ReimportRead, ReimportInsert,
       ReimportReturn, reimportOutside, Age, vars
  <1>8. ASSUME NEW pc, Leave(w, pc) PROVE FALSE
    <2>1. workers'[w] = [Fresh(pc) EXCEPT !.stop = workers[w].stop]
      BY <1>1, <1>8 DEF Leave, TypeOK
    <2>2. QED BY <2>1 DEF Fresh
  <1>9. ASSUME NEW pc, Goto(w, pc)
        PROVE  workers'[w].pc = pc /\ workers'[w].path = workers[w].path
               /\ workers'[w].res = workers[w].res /\ workers'[w].run = workers[w].run
    BY <1>1, <1>9 DEF Goto, TypeOK, WorkerStates
  <1>10. ASSUME NEW pc, workers' = [workers EXCEPT ![w] = Fresh(pc)] PROVE FALSE
    <2>1. workers'[w] = Fresh(pc)
      BY <1>1, <1>10 DEF TypeOK
    <2>2. QED BY <2>1 DEF Fresh
  <1>11. CASE Poll(w) \/ Sweep(w)
    <2>1. workers[w].pc \in {"poll", "sweep"} /\ \E pc : Goto(w, pc)
      BY <1>11 DEF Poll, Sweep
    <2>2. QED BY <1>2, <1>9, <2>1
  <1>12. CASE Claim(w)
    <2>1. workers[w].pc = "claim" /\ workers[w].path = Null
      BY <1>2, <1>12 DEF Claim
    <2>2. ASSUME NEW n, workers' = [workers EXCEPT ![w].pc = "arm", ![w].run = n, ![w].day = today]
          PROVE  workers'[w].path = workers[w].path
      BY <1>1, <2>2 DEF TypeOK, WorkerStates
    <2>3. workers'[w].path = workers[w].path
      BY <1>9, <1>12, <2>2 DEF Claim
    <2>4. QED BY <2>1, <2>3
  <1>13. CASE RunArm(w)
    <2>1. workers[w].pc = "arm" /\ workers[w].path = Null
      BY <1>2, <1>13 DEF RunArm
    <2>2. ASSUME NEW res, workers' = [workers EXCEPT ![w].pc = "open", ![w].res = res]
          PROVE  workers'[w].path = workers[w].path
      BY <1>1, <2>2 DEF TypeOK, WorkerStates
    <2>4. workers'[w].path = workers[w].path
      BY <1>9, <1>13, <2>2 DEF RunArm
    <2>3. QED BY <2>1, <2>4
  <1>14. CASE OpenArtifact(w)
    <2>1. workers[w].pc = "open" /\ workers[w].path = Null /\ \E pc : Goto(w, pc)
      BY <1>2, <1>14 DEF OpenArtifact
    <2>2. QED BY <1>9, <2>1
  <1>15. CASE CloseArtifact(w)
    <2>1. workers[w].pc = "close" /\ workers[w].path = Null
      BY <1>2, <1>15 DEF CloseArtifact
    <2>2. CASE Goto(w, "fallback")
      BY <1>9, <2>1, <2>2
    <2>3. CASE /\ disk' = [disk EXCEPT ![PathOf(workers[w].run, workers[w].day)] = workers[w].res]
               /\ workers' = [workers EXCEPT ![w].pc = "finish",
                                ![w].path = PathOf(workers[w].run, workers[w].day)]
      <3>1. PICK p : p = PathOf(workers[w].run, workers[w].day)
        OBVIOUS
      <3>2. workers' = [workers EXCEPT ![w].pc = "finish", ![w].path = p]
        BY <2>3, <3>1
      <3>3. workers'[w].pc = "finish" /\ workers'[w].path = p /\ workers'[w].res = workers[w].res
        BY <1>1, <3>2 DEF TypeOK, WorkerStates
      <3>4. disk' = [disk EXCEPT ![p] = workers[w].res]
        BY <2>3, <3>1
      <3>5. QED BY <1>15, <2>1, <3>1, <3>3, <3>4
    <2>4. QED BY <1>15, <2>2, <2>3 DEF CloseArtifact
  <1>16. CASE Finish(w)
    <2>1. workers[w].pc = "finish" /\ Goto(w, "fallback")
      BY <1>8, <1>16 DEF Finish
    <2>2. QED BY <1>9, <2>1
  <1>17. CASE Fallback(w) \/ LoseConnection(w)
    BY <1>8, <1>17 DEF Fallback, LoseConnection
  <1>18. CASE Crash(w) \/ Restart(w)
    BY <1>10, <1>18 DEF Crash, Restart
  <1>19. CASE Stop(w)
    <2>1. workers'[w].pc = workers[w].pc /\ workers'[w].path = workers[w].path
          /\ workers'[w].res = workers[w].res /\ workers'[w].run = workers[w].run
      BY <1>1, <1>19 DEF Stop, TypeOK, WorkerStates
    <2>2. QED BY <1>2, <2>1
  <1>20. CASE Work(w) \/ Fault(w) \/ Restart(w)
    BY <1>11, <1>12, <1>13, <1>14, <1>15, <1>16, <1>17, <1>18, <1>19, <1>20 DEF Work, Fault
  <1>21. QED BY <1>3, <1>4, <1>5, <1>6, <1>7, <1>20 DEF Next

\* Only the worker that executes a run writes its artefacts.
LEMMA DiskSteps ==
  ASSUME TypeOK, [Next]_vars, NEW p \in Paths
  PROVE  \/ disk'[p] = disk[p]
         \/ \E w \in Workers : /\ workers[w].pc \in {"open", "close"}
                               /\ p = PathOf(workers[w].run, workers[w].day)
  <1>1. CASE UNCHANGED disk
    BY <1>1
  <1>2. ASSUME NEW w \in Workers, OpenArtifact(w) \/ CloseArtifact(w)
        PROVE  disk'[p] = disk[p] \/ ( /\ workers[w].pc \in {"open", "close"}
                                       /\ p = PathOf(workers[w].run, workers[w].day))
    <2>1. PICK q : q = PathOf(workers[w].run, workers[w].day)
      OBVIOUS
    <2>2. workers[w].pc \in {"open", "close"}
          /\ (UNCHANGED disk \/ \E x : disk' = [disk EXCEPT ![q] = x])
      BY <1>2, <2>1 DEF OpenArtifact, CloseArtifact
    <2>3. disk \in [Paths -> Results \cup {Null, Torn}]
      BY DEF TypeOK
    <2>4. p = q \/ disk'[p] = disk[p]
      BY <2>2, <2>3
    <2>5. QED BY <2>1, <2>2, <2>4
  <1>3. ASSUME NEW w \in Workers, Work(w) \/ Fault(w) \/ Restart(w)
        PROVE  UNCHANGED disk \/ OpenArtifact(w) \/ CloseArtifact(w)
    BY <1>3 DEF Work, Fault, Poll, Sweep, Claim, RunArm, Finish, Fallback, Stop, Crash,
       LoseConnection, Restart
  <1>4. ASSUME NEW c \in Clients, Request(c) PROVE UNCHANGED disk
    BY <1>4 DEF Request, Post, Refuse, PassGates, Lookup, BudgetGate, Insert, Resolve, serviceVars
  <1>5. ASSUME Midnight \/ (\E a \in Admins : Reimport(a)) \/ (\E r \in RunIds : Age(r))
               \/ UNCHANGED vars
        PROVE  UNCHANGED disk
    BY <1>5 DEF Midnight, Reimport, ReimportSeen, ReimportList, ReimportRead, ReimportInsert,
       ReimportReturn, reimportOutside, Age, vars
  <1>6. QED BY <1>1, <1>2, <1>3, <1>4, <1>5 DEF Next

\* Where no row is an import, the path of a worker is free for its row: the rows
\* of the other runs name artefacts of their own.
LEMMA PathFree ==
  ASSUME AuditInv, NEW w \in Workers, workers[w].run \in RunIds
  PROVE  ~PathTaken(workers[w].path, workers[w].run)
  <1>1. workers[w].path # Null => workers[w].path \in Paths /\ workers[w].path[1] = workers[w].run
    BY DEF AuditInv, ArtifactInv, ExecutionInv, TypeOK, InHand, Consistent, WorkerStates
  <1>2. \A s \in RunIds : runs[s].path # Null => runs[s].path[1] = s
    BY DEF AuditInv, ArtifactInv, PathsOwn
  <1>3. \A p \in Paths : imported[p] = Null
    BY DEF AuditInv
  <1>4. QED BY <1>1, <1>2, <1>3 DEF PathTaken

LEMMA EvidenceKept ==
  ASSUME AuditInv, [Next]_vars, ArtifactInv', \A p \in Paths : imported'[p] = Null
  PROVE  /\ \A w \in Workers : workers'[w].path # Null =>
              /\ workers'[w].pc \in {"finish", "fallback"}
              /\ workers'[w].res \in Results
              /\ disk'[workers'[w].path] = workers'[w].res
         /\ EvidenceBehindRow'
  <1>1. /\ TypeOK /\ TypeOK' /\ ExecutionInv /\ SoleExecution /\ PathsOwn /\ EvidenceBehindRow
        /\ PathsOwn'
    BY DEF AuditInv, ArtifactInv, ExecutionInv
  <1>2. \A w \in Workers : Executing(w) =>
          workers[w].run \in RunIds /\ runs[workers[w].run].status = "running"
    BY <1>1 DEF SoleExecution
  <1>3. ASSUME NEW v \in Workers, NEW w \in Workers, Executing(v), workers[w].path # Null,
               workers[w].path = PathOf(workers[v].run, workers[v].day)
        PROVE  v = w
    <2>1. Executing(w) /\ workers[w].path[1] = workers[w].run
      BY <1>1, <1>3 DEF TypeOK, InHand, Consistent, Executing
    <2>2. workers[w].path[1] = workers[v].run
      BY <1>3 DEF PathOf
    <2>3. QED BY <1>1, <1>3, <2>1, <2>2 DEF SoleExecution
  <1>4. ASSUME NEW w \in Workers, workers'[w].path # Null
        PROVE  /\ workers'[w].pc \in {"finish", "fallback"}
               /\ workers'[w].res \in Results
               /\ disk'[workers'[w].path] = workers'[w].res
    <2>1. CASE /\ workers[w].path # Null /\ workers'[w].path = workers[w].path
               /\ workers'[w].res = workers[w].res /\ workers'[w].run = workers[w].run
      <3>1. /\ workers[w].pc \in {"finish", "fallback"} /\ workers[w].res \in Results
            /\ disk[workers[w].path] = workers[w].res
        BY <2>1 DEF AuditInv
      <3>2. workers[w].path \in Paths
        BY <1>1, <2>1 DEF TypeOK, WorkerStates
      <3>3. ASSUME NEW v \in Workers, workers[v].pc \in {"open", "close"},
                   workers[w].path = PathOf(workers[v].run, workers[v].day)
            PROVE  FALSE
        <4>1. Executing(v)
          BY <3>3 DEF Executing, ExecutingPcs
        <4>2. v = w
          BY <1>3, <2>1, <3>3, <4>1
        <4>3. QED BY <3>1, <3>3, <4>2
      <3>4. disk'[workers[w].path] = disk[workers[w].path]
        BY <1>1, <3>2, <3>3, DiskSteps
      <3>5. QED BY <1>4, <2>1, <3>1, <3>4, PathSteps
    <2>2. CASE /\ workers[w].pc = "close"
               /\ workers'[w].path = PathOf(workers[w].run, workers[w].day)
               /\ workers'[w].res = workers[w].res
               /\ disk' = [disk EXCEPT ![workers'[w].path] = workers[w].res]
      <3>1. workers[w].res \in Results
        BY <1>1, <2>2 DEF TypeOK, InHand, Consistent
      <3>2. workers'[w].path \in Paths
        BY <1>1, <1>4 DEF TypeOK, WorkerStates
      <3>3. PICK q \in Paths : q = workers'[w].path
        BY <3>2
      <3>4. disk' = [disk EXCEPT ![q] = workers[w].res]
        BY <2>2, <3>3
      <3>5. disk'[q] = workers[w].res
        BY <1>1, <3>4 DEF TypeOK
      <3>6. QED BY <1>4, <2>2, <3>1, <3>3, <3>5, PathSteps
    <2>3. QED BY <1>4, <2>1, <2>2, PathSteps
  <1>5. ASSUME NEW r \in RunIds, runs'[r].path # Null
        PROVE  /\ disk'[runs'[r].path] \notin {Null, Torn}
               /\ runs'[r].cost # Null => disk'[runs'[r].path].cost = runs'[r].cost
    <2>1. CASE Untouched(r)
      <3>1. runs'[r].path = runs[r].path /\ runs'[r].cost = runs[r].cost /\ runs[r].path # Null
        BY <1>5, <2>1 DEF Untouched
      <3>2. runs[r].path \in Paths /\ Terminal(r) /\ runs[r].path[1] = r
        BY <1>1, <3>1 DEF PathsOwn, TypeOK, Rows
      <3>3. ASSUME NEW v \in Workers, workers[v].pc \in {"open", "close"},
                   runs[r].path = PathOf(workers[v].run, workers[v].day)
            PROVE  FALSE
        <4>1. Executing(v) /\ workers[v].run = r
          BY <3>2, <3>3 DEF Executing, ExecutingPcs, PathOf
        <4>2. QED BY <1>2, <3>2, <4>1 DEF Terminal
      <3>4. disk'[runs[r].path] = disk[runs[r].path]
        BY <1>1, <3>2, <3>3, DiskSteps
      <3>5. QED BY <1>1, <3>1, <3>4 DEF EvidenceBehindRow
    <2>2. ASSUME NEW w \in Workers, LandedBy(w, r)
          PROVE  /\ disk'[runs'[r].path] \notin {Null, Torn}
                 /\ runs'[r].cost # Null => disk'[runs'[r].path].cost = runs'[r].cost
      <3>1. /\ runs'[r].path = workers[w].path /\ workers[w].path # Null
            /\ workers[w].run = r /\ workers[w].pc \in {"finish", "fallback"}
        BY <1>5, <2>2 DEF LandedBy
      <3>2. workers[w].path \in Paths /\ workers[w].res \in Results
            /\ disk[workers[w].path] = workers[w].res
        BY <1>1, <3>1 DEF AuditInv, TypeOK, WorkerStates
      <3>3. Executing(w)
        BY <3>1 DEF Executing, ExecutingPcs
      <3>4. runs[r].status = "running" /\ runs[r].cost = Null
        BY <1>1, <1>2, <3>1, <3>3 DEF PathsOwn, Terminal
      <3>5. runs'[r].cost # Null => runs'[r].cost = workers[w].res.cost
        BY <2>2, <3>4 DEF LandedBy
      <3>6. ASSUME NEW v \in Workers, workers[v].pc \in {"open", "close"},
                   workers[w].path = PathOf(workers[v].run, workers[v].day)
            PROVE  FALSE
        <4>1. Executing(v)
          BY <3>6 DEF Executing, ExecutingPcs
        <4>2. v = w
          BY <1>3, <3>1, <3>6, <4>1
        <4>3. QED BY <3>1, <3>6, <4>2
      <3>7. disk'[workers[w].path] = disk[workers[w].path]
        BY <1>1, <3>2, <3>6, DiskSteps
      <3>8. workers[w].res \notin {Null, Torn}
        BY <3>2, NullAssumption
      <3>9. QED BY <3>1, <3>2, <3>5, <3>7, <3>8
    <2>3. ~Inserted(r)
      BY <1>5 DEF Inserted
    <2>4. QED BY <1>1, <2>1, <2>2, <2>3, RowSteps
  <1>6. EvidenceBehindRow'
    BY <1>5 DEF EvidenceBehindRow
  <1>7. QED BY <1>4, <1>6

\* A running row is held, or was lost with a worker or its connection.
LEMMA StrandedKept ==
  ASSUME AuditInv, [Next]_vars, NEW r \in RunIds, runs'[r].status = "running"
  PROVE  Held(r)' \/ r \in faulted'
  <1>1. TypeOK /\ ExecutionInv /\ \A v \in Workers : workers[v] \in WorkerStates
    BY DEF AuditInv, ArtifactInv, ExecutionInv, TypeOK
  <1>2. runs[r].status = "running" => Held(r) \/ r \in faulted
    BY DEF AuditInv, StrandedOnlyByFault
  <1>3. CASE UNCHANGED <<workers, faulted>> /\ runs[r].status = "running"
    BY <1>2, <1>3 DEF Held, Executing
  <1>4. ASSUME NEW c \in Clients, Request(c)
        PROVE  UNCHANGED <<workers, faulted>> /\ runs[r].status = "running"
    <2>1. UNCHANGED <<workers, faulted>>
      BY <1>4 DEF Request, Post, Refuse, PassGates, Lookup, BudgetGate, Insert, Resolve, serviceVars
    <2>2. \/ UNCHANGED runs
          \/ \E s \in RunIds : NextRow(s) /\ runs' = [runs EXCEPT ![s] = NewRow(c)]
      BY <1>4 DEF Request, Post, Refuse, PassGates, Lookup, BudgetGate, Insert, Resolve
    <2>3. ASSUME NEW s \in RunIds, runs' = [runs EXCEPT ![s] = NewRow(c)]
          PROVE  runs'[r] = runs[r]
      <3>1. runs'[s] = NewRow(c) /\ (r = s \/ runs'[r] = runs[r])
        BY <1>1, <2>3, OneRow
      <3>2. NewRow(c).status = "queued"
        BY DEF NewRow
      <3>3. QED BY <3>1, <3>2
    <2>4. QED BY <2>1, <2>2, <2>3
  <1>5. ASSUME NEW s \in RunIds, Age(s)
        PROVE  UNCHANGED <<workers, faulted>> /\ runs[r].status = "running"
    <2>1. UNCHANGED <<workers, faulted>> /\ runs[s].status = "running"
          /\ \E row : runs' = [runs EXCEPT ![s] = row]
      BY <1>5 DEF Age, ghosts
    <2>2. r = s \/ runs'[r] = runs[r]
      BY <1>1, <2>1, OneRow
    <2>3. QED BY <2>1, <2>2
  <1>6. ASSUME Midnight \/ (\E a \in Admins : Reimport(a)) \/ UNCHANGED vars
        PROVE  UNCHANGED <<workers, faulted>> /\ runs[r].status = "running"
    BY <1>6 DEF Midnight, Reimport, ReimportSeen, ReimportList, ReimportRead, ReimportInsert,
       ReimportReturn, reimportOutside, ghosts, vars
  <1>7. ASSUME NEW w \in Workers, Work(w) \/ Fault(w) \/ Restart(w)
        PROVE  Held(r)' \/ r \in faulted'
    <2>1. \A v \in Workers \ {w} : workers'[v] = workers[v]
      BY <1>1, <1>7 DEF Work, Fault, Poll, Sweep, Claim, RunArm, OpenArtifact, CloseArtifact, Finish,
         Fallback, Stop, Crash, LoseConnection, Restart, Goto, Leave, TypeOK
    <2>2. ASSUME NEW v \in Workers \ {w}, Executing(v), workers[v].run = r PROVE Held(r)'
      BY <2>1, <2>2 DEF Held, Executing
    <2>3. ASSUME workers'[w].pc \in ExecutingPcs, workers'[w].run = workers[w].run,
                 Executing(w), runs[r].status = "running", faulted \subseteq faulted'
          PROVE  Held(r)' \/ r \in faulted'
      BY <1>2, <2>2, <2>3 DEF Held, Executing
    <2>4. ASSUME ~Executing(w) \/ workers[w].run # r \/ r \in faulted',
                 runs[r].status = "running", faulted \subseteq faulted'
          PROVE  Held(r)' \/ r \in faulted'
      BY <1>2, <2>2, <2>4 DEF Held
    <2>5. ASSUME NEW pc, Goto(w, pc)
          PROVE  workers'[w].pc = pc /\ workers'[w].run = workers[w].run
      BY <1>1, <2>5 DEF Goto, TypeOK, WorkerStates
    <2>6. \A s \in RunIds : ClaimRow(s) => r = s \/ runs'[r] = runs[r]
      <3> TAKE s \in RunIds
      <3>1. ClaimRow(s) => \E row : runs' = [runs EXCEPT ![s] = row]
        BY DEF ClaimRow
      <3>2. QED BY <1>1, <3>1, OneRow
    <2>7. CASE Poll(w) \/ Restart(w)
      <3>1. ~Executing(w) /\ UNCHANGED <<runs, faulted>>
        BY <2>7 DEF Poll, Restart, Executing, ExecutingPcs
      <3>2. QED BY <2>4, <3>1
    <2>8. CASE Sweep(w)
      <3>1. ~Executing(w) /\ UNCHANGED faulted
        BY <2>8 DEF Sweep, Executing, ExecutingPcs
      <3>2. runs[r].status = "running"
        <4>1. Requeueable(r) => runs[r].status = "running"
          BY DEF Requeueable
        <4>2. ~Requeueable(r) => runs'[r] = runs[r]
          BY <2>8 DEF Sweep
        <4>3. QED BY <4>1, <4>2
      <3>3. QED BY <2>4, <3>1, <3>2
    <2>9. CASE Claim(w)
      <3>1. ~Executing(w) /\ UNCHANGED faulted
        BY <2>9 DEF Claim, Executing, ExecutingPcs
      <3>2. ASSUME NEW s \in RunIds, ClaimRow(s),
                   workers' = [workers EXCEPT ![w].pc = "arm", ![w].run = s, ![w].day = today]
            PROVE  Held(r)' \/ r \in faulted'
        <4>1. workers'[w].pc = "arm" /\ workers'[w].run = s
          BY <1>1, <3>2 DEF TypeOK, WorkerStates
        <4>2. CASE r = s
          BY <4>1, <4>2 DEF Held, Executing, ExecutingPcs
        <4>3. CASE runs'[r] = runs[r]
          BY <2>4, <3>1, <4>3
        <4>4. QED BY <2>6, <3>2, <4>2, <4>3
      <3>3. CASE UNCHANGED runs
        BY <2>4, <3>1, <3>3
      <3>4. QED BY <2>9, <3>2, <3>3 DEF Claim
    <2>10. CASE RunArm(w) \/ OpenArtifact(w) \/ CloseArtifact(w)
      <3>1. Executing(w) /\ UNCHANGED <<runs, faulted>>
        BY <2>10 DEF RunArm, OpenArtifact, CloseArtifact, Executing, ExecutingPcs
      <3>2. workers'[w].pc \in ExecutingPcs /\ workers'[w].run = workers[w].run
        <4>1. ASSUME NEW res, workers' = [workers EXCEPT ![w].pc = "open", ![w].res = res]
              PROVE  workers'[w].pc = "open" /\ workers'[w].run = workers[w].run
          BY <1>1, <4>1 DEF TypeOK, WorkerStates
        <4>2. ASSUME NEW p, workers' = [workers EXCEPT ![w].pc = "finish", ![w].path = p]
              PROVE  workers'[w].pc = "finish" /\ workers'[w].run = workers[w].run
          BY <1>1, <4>2 DEF TypeOK, WorkerStates
        <4>3. \/ \E pc \in {"fallback", "close"} : Goto(w, pc)
              \/ \E res : workers' = [workers EXCEPT ![w].pc = "open", ![w].res = res]
              \/ \E p : workers' = [workers EXCEPT ![w].pc = "finish", ![w].path = p]
          BY <2>10 DEF RunArm, OpenArtifact, CloseArtifact
        <4>4. QED BY <2>5, <4>1, <4>2, <4>3 DEF ExecutingPcs
      <3>3. QED BY <2>3, <3>1, <3>2
    <2>11. Executing(w) => workers[w].run \in RunIds /\ ~PathTaken(workers[w].path, workers[w].run)
      BY <1>1, PathFree DEF ExecutionInv, SoleExecution
    <2>12. CASE Finish(w)
      <3>1. Executing(w) /\ UNCHANGED faulted
        BY <2>12 DEF Finish, Executing, ExecutingPcs
      <3>2. CASE Goto(w, "fallback") /\ UNCHANGED runs
        BY <2>3, <2>5, <3>1, <3>2 DEF ExecutingPcs
      <3>3. CASE runs' = [runs EXCEPT ![workers[w].run] = Landed(w)]
        <4>1. runs'[workers[w].run].status # "running"
          BY <1>1, <2>11, <3>1, <3>3, OneRow DEF Landed, TypeOK, Rows
        <4>2. workers[w].run # r /\ runs'[r] = runs[r]
          BY <1>1, <2>11, <3>1, <3>3, <4>1, OneRow
        <4>3. QED BY <2>4, <3>1, <4>2
      <3>4. QED BY <2>12, <3>2, <3>3 DEF Finish
    <2>13. CASE Fallback(w)
      <3>1. Executing(w) /\ UNCHANGED faulted
        BY <2>13 DEF Fallback, Executing, ExecutingPcs
      <3>2. runs' = [runs EXCEPT ![workers[w].run] = Failed(w)]
        BY <2>11, <2>13, <3>1 DEF Fallback
      <3>3. runs'[workers[w].run].status # "running"
        BY <1>1, <2>11, <3>1, <3>2, OneRow DEF Failed, TypeOK, Rows
      <3>4. workers[w].run # r /\ runs'[r] = runs[r]
        BY <1>1, <2>11, <3>1, <3>2, <3>3, OneRow
      <3>5. QED BY <2>4, <3>1, <3>4
    <2>14. CASE Stop(w)
      <3>1. workers'[w].pc = workers[w].pc /\ workers'[w].run = workers[w].run
            /\ UNCHANGED <<runs, faulted>>
        BY <1>1, <2>14 DEF Stop, TypeOK, WorkerStates
      <3>2. QED BY <2>3, <2>4, <3>1 DEF Executing
    <2>15. CASE Crash(w)
      <3>1. UNCHANGED runs
            /\ faulted' = IF Executing(w) THEN faulted \cup {workers[w].run} ELSE faulted
        BY <2>15 DEF Crash
      <3>2. QED BY <2>4, <3>1
    <2>16. CASE LoseConnection(w)
      <3>1. CASE /\ faulted' = IF Executing(w) THEN faulted \cup {workers[w].run} ELSE faulted
                 /\ UNCHANGED runs
        BY <2>4, <3>1
      <3>2. ASSUME NEW s \in RunIds, ClaimRow(s), faulted' = faulted \cup {s},
                   workers[w].pc = "claim"
            PROVE  Held(r)' \/ r \in faulted'
        <4>1. ~Executing(w)
          BY <3>2 DEF Executing, ExecutingPcs
        <4>2. QED BY <2>4, <2>6, <3>2, <4>1
      <3>3. QED BY <2>16, <3>1, <3>2 DEF LoseConnection
    <2>17. QED
      BY <1>7, <2>7, <2>8, <2>9, <2>10, <2>12, <2>13, <2>14, <2>15, <2>16 DEF Work, Fault
  <1>8. QED BY <1>3, <1>4, <1>5, <1>6, <1>7 DEF Next

LEMMA InitAudit == Init => AuditInv
  <1> SUFFICES ASSUME Init PROVE AuditInv
    OBVIOUS
  <1>1. \A r \in RunIds : runs[r].path = Null /\ runs[r].status = "absent"
    BY DEF Init, NoRow
  <1>2. \A p \in Paths : imported[p] = Null
    BY DEF Init
  <1>3. \A w \in Workers : workers[w].path = Null
    BY DEF Init, Fresh
  <1>4. QED
    BY <1>1, <1>2, <1>3, InitArtifact DEF AuditInv, EvidenceBehindRow, StrandedOnlyByFault

LEMMA NextAudit ==
  ASSUME Admins = {}
  PROVE  AuditInv /\ [Next]_vars => AuditInv'
  <1> SUFFICES ASSUME AuditInv, [Next]_vars PROVE AuditInv'
    OBVIOUS
  <1>1. ArtifactInv /\ ArtifactInv' /\ TypeOK
    BY NextArtifact DEF AuditInv, ArtifactInv, ExecutionInv
  <1>2. UNCHANGED imported
    BY DEF Next, Request, Post, Refuse, PassGates, Lookup, BudgetGate, Insert, Resolve, serviceVars,
       Work, Fault, Poll, Sweep, Claim, RunArm, OpenArtifact, CloseArtifact, Finish,
       Fallback, Stop, Crash, LoseConnection, Restart, requestVars, Age, Midnight, vars
  <1>3. \A p \in Paths : imported'[p] = Null
    BY <1>2 DEF AuditInv
  <1>4. /\ \A w \in Workers : workers'[w].path # Null =>
              /\ workers'[w].pc \in {"finish", "fallback"}
              /\ workers'[w].res \in Results
              /\ disk'[workers'[w].path] = workers'[w].res
        /\ EvidenceBehindRow'
    BY <1>1, <1>3, EvidenceKept
  <1>5. StrandedOnlyByFault'
    BY StrandedKept DEF StrandedOnlyByFault
  <1>6. QED BY <1>1, <1>3, <1>4, <1>5 DEF AuditInv

\* Unless reimport is called meanwhile, a row that names an artefact has it whole and
\* with the cost it records, through crashes and later executions.
THEOREM EvidenceIsKept ==
  ASSUME Admins = {}
  PROVE  Spec => []EvidenceBehindRow
  <1>1. AuditInv /\ [Next]_vars => AuditInv'
    BY NextAudit
  <1>2. AuditInv => EvidenceBehindRow
    BY DEF AuditInv
  <1>3. QED BY <1>1, <1>2, InitAudit, PTL DEF Spec

\* Unless reimport is called meanwhile, a run is left running by nobody only if its
\* worker or its connection was lost.
THEOREM StrandedByFaultAlone ==
  ASSUME Admins = {}
  PROVE  Spec => []StrandedOnlyByFault
  <1>1. AuditInv /\ [Next]_vars => AuditInv'
    BY NextAudit
  <1>2. AuditInv => StrandedOnlyByFault
    BY DEF AuditInv
  <1>3. QED BY <1>1, <1>2, InitAudit, PTL DEF Spec

(* ------------------------ no spending told twice ------------------------ *)

\* RecordedWithinPaid is not inductive: a result can still be in a worker's hand,
\* in a file or in what a reimport has read.  best[r][d] is the dearest execution
\* of r among those claimed on day d: executions of one day share a file, those
\* of different days have one each, and all of them are in paid[r].
PaidFor(best) ==
    /\ best \in [RunIds -> [Days -> 0..MaxCost]]
    /\ \A r \in RunIds : SumFunctionOnSet(best[r], Days) <= paid[r]

FilesWithin(best) ==
    \A p \in Paths :
      /\ disk[p] \in Results => disk[p].cost <= best[p[1]][p[2]]
      /\ imported[p] # Null => imported[p].cost <= best[p[1]][p[2]]

RowsWithin(best) ==
    \A r \in RunIds : runs[r].cost # Null =>
      runs[r].path # Null /\ runs[r].cost <= best[r][runs[r].path[2]]

ReimportsWithin(best) ==
    \A a \in Admins : admins[a].row # Null =>
      admins[a].row.cost <= best[admins[a].at[1]][admins[a].at[2]]

\* A result is in hand from the arm's return to its landing, a path from the
\* closing of the file on.
HandsWithin(best) ==
    \A w \in Workers :
      /\ workers[w].res # Null =>
           /\ workers[w].pc \in {"open", "close", "finish", "fallback"}
           /\ workers[w].res.cost <= best[workers[w].run][workers[w].day]
      /\ workers[w].path # Null =>
           /\ workers[w].pc \in {"finish", "fallback"} /\ workers[w].res # Null
           /\ workers[w].path = PathOf(workers[w].run, workers[w].day)

Within(best) ==
    FilesWithin(best) /\ RowsWithin(best) /\ ReimportsWithin(best) /\ HandsWithin(best)

SpendingInv == ArtifactInv /\ \E best : PaidFor(best) /\ Within(best)

\* What worker w holds after a step.
LEMMA HandSteps ==
  ASSUME TypeOK, [Next]_vars, NEW w \in Workers,
         workers[w].res # Null => workers[w].pc \in {"open", "close", "finish", "fallback"},
         workers[w].path # Null => workers[w].pc \in {"finish", "fallback"}
  PROVE  \/ workers'[w].res = Null /\ workers'[w].path = Null
         \/ /\ workers'[w].run = workers[w].run /\ workers'[w].day = workers[w].day
            /\ \/ /\ workers'[w].res = workers[w].res /\ workers'[w].path = workers[w].path
                  /\ \/ workers'[w].pc = workers[w].pc
                     \/ workers'[w].pc = "close" /\ workers[w].pc = "open"
                     \/ workers'[w].pc = "fallback"
               \/ /\ workers[w].pc = "close" /\ workers'[w].pc = "finish"
                  /\ workers'[w].res = workers[w].res
                  /\ workers'[w].path = PathOf(workers[w].run, workers[w].day)
               \/ /\ RunArm(w) /\ workers'[w].pc = "open"
                  /\ workers'[w].path = workers[w].path
                  /\ \E c \in 0..MaxCost :
                       workers'[w].res.cost = c /\ Charge(workers[w].run, c)
  <1> DEFINE Empty == workers'[w].res = Null /\ workers'[w].path = Null
             Same  == /\ workers'[w].run = workers[w].run /\ workers'[w].day = workers[w].day
                      /\ workers'[w].res = workers[w].res /\ workers'[w].path = workers[w].path
  <1>1. workers \in [Workers -> WorkerStates] /\ workers[w] \in WorkerStates
    BY DEF TypeOK
  <1>2. ASSUME NEW pc, Goto(w, pc)
        PROVE  workers'[w].pc = pc /\ Same
    BY <1>1, <1>2 DEF Goto, WorkerStates
  <1>3. ASSUME NEW pc, Leave(w, pc) PROVE Empty
    <2>1. workers'[w] = [Fresh(pc) EXCEPT !.stop = workers[w].stop]
      BY <1>1, <1>3 DEF Leave
    <2>2. QED BY <2>1 DEF Fresh
  <1>4. ASSUME NEW pc, workers' = [workers EXCEPT ![w] = Fresh(pc)] PROVE Empty
    <2>1. workers'[w] = Fresh(pc)
      BY <1>1, <1>4
    <2>2. QED BY <2>1 DEF Fresh
  <1>5. CASE workers'[w] = workers[w]
    BY <1>5
  <1>6. ASSUME NEW v \in Workers \ {w}, Work(v) \/ Fault(v) \/ Restart(v)
        PROVE  workers'[w] = workers[w]
    BY <1>1, <1>6 DEF Work, Fault, Poll, Sweep, Claim, RunArm, OpenArtifact, CloseArtifact, Finish,
       Fallback, Stop, Crash, LoseConnection, Restart, Goto, Leave
  <1>7. ASSUME NEW c \in Clients, Request(c) PROVE UNCHANGED workers
    BY <1>7 DEF Request, Post, Refuse, PassGates, Lookup, BudgetGate, Insert, Resolve, serviceVars
  <1>8. ASSUME Midnight \/ (\E a \in Admins : Reimport(a)) \/ (\E r \in RunIds : Age(r))
               \/ UNCHANGED vars
        PROVE  UNCHANGED workers
    BY <1>8 DEF Midnight, Reimport, ReimportSeen, ReimportList, ReimportRead, ReimportInsert,
       ReimportReturn, reimportOutside, Age, vars
  <1>9. CASE Poll(w) \/ Sweep(w)
    <2>1. workers[w].pc \in {"poll", "sweep"} /\ \E pc : Goto(w, pc)
      BY <1>9 DEF Poll, Sweep
    <2>2. QED BY <1>2, <2>1
  <1>10. CASE Claim(w)
    <2>1. workers[w].pc = "claim" /\ workers[w].path = Null /\ workers[w].res = Null
      BY <1>10 DEF Claim
    <2>2. ASSUME NEW n, workers' = [workers EXCEPT ![w].pc = "arm", ![w].run = n, ![w].day = today]
          PROVE  workers'[w].path = workers[w].path /\ workers'[w].res = workers[w].res
      BY <1>1, <2>2 DEF WorkerStates
    <2>3. workers'[w].path = workers[w].path /\ workers'[w].res = workers[w].res
      BY <1>2, <1>10, <2>2 DEF Claim
    <2>4. QED BY <2>1, <2>3
  <1>11. CASE RunArm(w)
    <2>1. PICK c \in 0..MaxCost :
            /\ Charge(workers[w].run, c)
            /\ \/ \E ok \in BOOLEAN :
                    workers' = [workers EXCEPT ![w].pc = "open",
                                               ![w].res = [cost |-> c, ok |-> ok, day |-> today]]
               \/ Goto(w, "fallback")
      BY <1>11 DEF RunArm
    <2>2. CASE Goto(w, "fallback")
      BY <1>2, <2>2
    <2>3. ASSUME NEW res, res.cost = c, workers' = [workers EXCEPT ![w].pc = "open", ![w].res = res]
          PROVE  /\ workers'[w].run = workers[w].run /\ workers'[w].day = workers[w].day
                 /\ workers'[w].path = workers[w].path /\ workers'[w].pc = "open"
                 /\ workers'[w].res.cost = c
      BY <1>1, <2>3 DEF WorkerStates
    <2>4. CASE \E ok \in BOOLEAN :
                 workers' = [workers EXCEPT ![w].pc = "open",
                                            ![w].res = [cost |-> c, ok |-> ok, day |-> today]]
      <3>1. PICK ok \in BOOLEAN :
                 workers' = [workers EXCEPT ![w].pc = "open",
                                            ![w].res = [cost |-> c, ok |-> ok, day |-> today]]
        BY <2>4
      <3> DEFINE res == [cost |-> c, ok |-> ok, day |-> today]
      <3>2. res.cost = c
        OBVIOUS
      <3> HIDE DEF res
      <3>3. workers' = [workers EXCEPT ![w].pc = "open", ![w].res = res]
        BY <3>1 DEF res
      <3>4. /\ workers'[w].run = workers[w].run /\ workers'[w].day = workers[w].day
            /\ workers'[w].path = workers[w].path /\ workers'[w].pc = "open"
            /\ workers'[w].res.cost = c
        BY <2>3, <3>2, <3>3
      <3>5. QED BY <1>11, <2>1, <3>4
    <2>5. QED BY <2>1, <2>2, <2>4
  <1>12. CASE OpenArtifact(w)
    BY <1>2, <1>12 DEF OpenArtifact
  <1>13. CASE CloseArtifact(w)
    <2>1. workers[w].pc = "close"
      BY <1>13 DEF CloseArtifact
    <2>2. CASE Goto(w, "fallback")
      BY <1>2, <2>2
    <2>3. ASSUME NEW p, workers' = [workers EXCEPT ![w].pc = "finish", ![w].path = p]
          PROVE  /\ workers'[w].run = workers[w].run /\ workers'[w].day = workers[w].day
                 /\ workers'[w].res = workers[w].res /\ workers'[w].pc = "finish"
                 /\ workers'[w].path = p
      BY <1>1, <2>3 DEF WorkerStates
    <2>4. \/ Goto(w, "fallback")
          \/ \E p : /\ p = PathOf(workers[w].run, workers[w].day)
                    /\ workers' = [workers EXCEPT ![w].pc = "finish", ![w].path = p]
      BY <1>13 DEF CloseArtifact
    <2>5. QED BY <2>1, <2>2, <2>3, <2>4
  <1>14. CASE Finish(w)
    <2>1. (\E pc : Leave(w, pc)) \/ Goto(w, "fallback")
      BY <1>14 DEF Finish
    <2>2. QED BY <1>2, <1>3, <2>1
  <1>15. CASE Fallback(w) \/ LoseConnection(w)
    BY <1>3, <1>15 DEF Fallback, LoseConnection
  <1>16. CASE Crash(w) \/ Restart(w)
    BY <1>4, <1>16 DEF Crash, Restart
  <1>17. CASE Stop(w)
    <2>1. workers'[w].pc = workers[w].pc /\ Same
      BY <1>1, <1>17 DEF Stop, WorkerStates
    <2>2. QED BY <2>1
  <1>18. CASE Work(w) \/ Fault(w) \/ Restart(w)
    BY <1>9, <1>10, <1>11, <1>12, <1>13, <1>14, <1>15, <1>16, <1>17, <1>18 DEF Work, Fault
  <1>19. QED BY <1>5, <1>6, <1>7, <1>8, <1>18 DEF Next

\* A file is torn, or says what the worker that closes it has in hand.
LEMMA WriteSteps ==
  ASSUME TypeOK, [Next]_vars, NEW p \in Paths
  PROVE  \/ disk'[p] = disk[p] \/ disk'[p] = Torn
         \/ \E w \in Workers : /\ workers[w].pc = "close" /\ disk'[p] = workers[w].res
                               /\ p = PathOf(workers[w].run, workers[w].day)
  <1>1. disk \in [Paths -> Results \cup {Null, Torn}]
    BY DEF TypeOK
  <1>2. ASSUME NEW w \in Workers, OpenArtifact(w)
        PROVE  disk'[p] = disk[p] \/ disk'[p] = Torn
    BY <1>1, <1>2 DEF OpenArtifact
  <1>3. ASSUME NEW w \in Workers, CloseArtifact(w)
        PROVE  \/ disk'[p] = disk[p]
               \/ /\ workers[w].pc = "close" /\ disk'[p] = workers[w].res
                  /\ p = PathOf(workers[w].run, workers[w].day)
    BY <1>1, <1>3 DEF CloseArtifact
  <1>4. ASSUME NEW w \in Workers, Work(w) \/ Fault(w) \/ Restart(w)
        PROVE  UNCHANGED disk \/ OpenArtifact(w) \/ CloseArtifact(w)
    BY <1>4 DEF Work, Fault, Poll, Sweep, Claim, RunArm, Finish, Fallback, Stop, Crash,
       LoseConnection, Restart
  <1>5. ASSUME NEW c \in Clients, Request(c) PROVE UNCHANGED disk
    BY <1>5 DEF Request, Post, Refuse, PassGates, Lookup, BudgetGate, Insert, Resolve, serviceVars
  <1>6. ASSUME Midnight \/ (\E a \in Admins : Reimport(a)) \/ (\E r \in RunIds : Age(r))
               \/ UNCHANGED vars
        PROVE  UNCHANGED disk
    BY <1>6 DEF Midnight, Reimport, ReimportSeen, ReimportList, ReimportRead, ReimportInsert,
       ReimportReturn, reimportOutside, Age, vars
  <1>7. QED BY <1>2, <1>3, <1>4, <1>5, <1>6 DEF Next

\* A row that reimport inserts is what it read, and it reads what is on disk.
LEMMA ReimportSteps ==
  ASSUME TypeOK, [Next]_vars
  PROVE  /\ \A p \in Paths : \/ imported'[p] = imported[p]
                             \/ \E a \in Admins : admins[a].at = p /\ imported'[p] = admins[a].row
         /\ \A a \in Admins :
              \/ admins'[a].row = Null
              \/ admins'[a].row = admins[a].row /\ admins'[a].at = admins[a].at
              \/ admins'[a].at \in Paths /\ admins'[a].row = disk[admins'[a].at]
                 /\ admins'[a].row # Torn
  <1> DEFINE Imports == \A p \in Paths :
                \/ imported'[p] = imported[p]
                \/ \E a \in Admins : admins[a].at = p /\ imported'[p] = admins[a].row
             Reads == \A a \in Admins :
                \/ admins'[a].row = Null
                \/ admins'[a].row = admins[a].row /\ admins'[a].at = admins[a].at
                \/ admins'[a].at \in Paths /\ admins'[a].row = disk[admins'[a].at]
                   /\ admins'[a].row # Torn
  <1>1. admins \in [Admins -> Calls] /\ imported \in [Paths -> Results \cup {Null}]
    BY DEF TypeOK
  <1>2. ASSUME UNCHANGED <<imported, admins>> PROVE Imports /\ Reads
    BY <1>2
  <1>3. ASSUME NEW a \in Admins, NEW call, admins' = [admins EXCEPT ![a] = call],
               call.row = Null
        PROVE  Reads
    BY <1>1, <1>3
  <1>4. ASSUME NEW a \in Admins, ReimportSeen(a) \/ ReimportReturn(a) PROVE Imports /\ Reads
    <2>1. UNCHANGED imported /\ \E call : call.row = Null /\ admins' = [admins EXCEPT ![a] = call]
      BY <1>4 DEF ReimportSeen, ReimportReturn, NoCall
    <2>2. QED BY <1>3, <2>1
  <1>5. ASSUME NEW a \in Admins, ReimportList(a) PROVE Imports /\ Reads
    <2>1. UNCHANGED imported
          /\ admins' = [admins EXCEPT ![a].pc = "scan", ![a].todo = {p \in Paths : disk[p] # Null}]
      BY <1>5 DEF ReimportList
    <2>2. admins'[a].row = admins[a].row /\ admins'[a].at = admins[a].at
      BY <1>1, <2>1 DEF Calls
    <2>3. \A b \in Admins \ {a} : admins'[b] = admins[b]
      BY <1>1, <2>1
    <2>4. QED BY <2>1, <2>2, <2>3
  <1>6. ASSUME NEW a \in Admins, NEW p \in Paths, ReimportRead(a, p) PROVE Imports /\ Reads
    <2>1. UNCHANGED imported
      BY <1>6 DEF ReimportRead
    <2>2. \A b \in Admins \ {a} : admins'[b] = admins[b]
      BY <1>1, <1>6 DEF ReimportRead
    <2>3. CASE disk[p] = Torn \/ p \in admins[a].seen
      <3>1. admins' = [admins EXCEPT ![a].todo = @ \ {p}]
        BY <1>6, <2>3 DEF ReimportRead
      <3>2. admins'[a].row = admins[a].row /\ admins'[a].at = admins[a].at
        BY <1>1, <3>1 DEF Calls
      <3>3. QED BY <2>1, <2>2, <3>2
    <2>4. CASE disk[p] # Torn /\ p \notin admins[a].seen
      <3>1. admins' = [admins EXCEPT ![a].todo = @ \ {p}, ![a].pc = "insert",
                                     ![a].at = p, ![a].row = disk[p]]
        BY <1>6, <2>4 DEF ReimportRead
      <3>2. admins'[a].row = disk[p] /\ admins'[a].at = p
        BY <1>1, <3>1 DEF Calls
      <3>3. QED BY <2>1, <2>2, <2>4, <3>2
    <2>5. QED BY <2>3, <2>4
  <1>7. ASSUME NEW a \in Admins, ReimportInsert(a) PROVE Imports /\ Reads
    <2>1. \/ UNCHANGED imported
          \/ imported' = [imported EXCEPT ![admins[a].at] = admins[a].row]
      BY <1>7 DEF ReimportInsert
    <2>2. Imports
      BY <1>1, <2>1
    <2>3. \A b \in Admins \ {a} : admins'[b] = admins[b]
      BY <1>1, <1>7 DEF ReimportInsert
    <2>4. admins'[a].row = Null
      BY <1>1, <1>7 DEF ReimportInsert, Calls
    <2>5. QED BY <2>2, <2>3, <2>4
  <1>8. ASSUME NEW c \in Clients, Request(c) PROVE UNCHANGED <<imported, admins>>
    BY <1>8 DEF Request, Post, Refuse, PassGates, Lookup, BudgetGate, Insert, Resolve, serviceVars
  <1>9. ASSUME NEW w \in Workers, Work(w) \/ Fault(w) \/ Restart(w)
        PROVE  UNCHANGED <<imported, admins>>
    BY <1>9 DEF Work, Fault, Poll, Sweep, Claim, RunArm, OpenArtifact, CloseArtifact, Finish,
       Fallback, Stop, Crash, LoseConnection, Restart, requestVars
  <1>10. ASSUME Midnight \/ (\E r \in RunIds : Age(r)) \/ UNCHANGED vars
         PROVE  UNCHANGED <<imported, admins>>
    BY <1>10 DEF Midnight, Age, vars
  <1> HIDE DEF Imports, Reads
  <1>11. Imports /\ Reads
    <2>1. ASSUME NEW a \in Admins, Reimport(a) PROVE Imports /\ Reads
      BY <1>4, <1>5, <1>6, <1>7, <2>1 DEF Reimport
    <2>2. QED BY <1>2, <1>8, <1>9, <1>10, <2>1 DEF Next
  <1>12. QED BY <1>11 DEF Imports, Reads

\* Only an arm is paid.
LEMMA PaidSteps ==
  ASSUME [Next]_vars
  PROVE  UNCHANGED paid \/ \E w \in Workers : RunArm(w)
  <1>1. ASSUME NEW w \in Workers, Work(w) \/ Fault(w) \/ Restart(w)
        PROVE  UNCHANGED paid \/ RunArm(w)
    BY <1>1 DEF Work, Fault, Poll, Sweep, Claim, OpenArtifact, CloseArtifact, Finish,
       Fallback, Stop, Crash, LoseConnection, Restart
  <1>2. ASSUME NEW c \in Clients, Request(c) PROVE UNCHANGED paid
    BY <1>2 DEF Request, Post, Refuse, PassGates, Lookup, BudgetGate, Insert, Resolve, serviceVars
  <1>3. ASSUME Midnight \/ (\E a \in Admins : Reimport(a)) \/ (\E r \in RunIds : Age(r))
               \/ UNCHANGED vars
        PROVE  UNCHANGED paid
    BY <1>3 DEF Midnight, Reimport, ReimportSeen, ReimportList, ReimportRead, ReimportInsert,
       ReimportReturn, reimportOutside, Age, vars, ghosts
  <1>4. QED BY <1>1, <1>2, <1>3 DEF Next

LEMMA DaysFinite == IsFiniteSet(Days) /\ Cardinality(Days) = MaxDay + 1
  <1>1. 0 \in Int /\ MaxDay \in Int /\ 0 <= MaxDay
    BY BoundsAssumption
  <1>2. QED BY <1>1, FS_Interval DEF Days

\* An execution is paid: the dearest of its day may be this one.
LEMMA ArmRaises ==
  ASSUME TypeOK, NEW best, PaidFor(best), NEW r \in RunIds, NEW d \in Days,
         NEW c \in 0..MaxCost, Charge(r, c)
  PROVE  \E new : /\ PaidFor(new)' /\ c <= new[r][d]
                  /\ \A s \in RunIds : \A e \in Days : best[s][e] <= new[s][e]
  <1> DEFINE dear == IF c > best[r][d] THEN c ELSE best[r][d]
             f    == best[r]
             g    == [best[r] EXCEPT ![d] = dear]
             new  == [best EXCEPT ![r] = g]
  <1>1. MaxCost \in Nat /\ MaxDay \in Nat /\ c \in Nat /\ c <= MaxCost
    BY BoundsAssumption
  <1>2. best \in [RunIds -> [Days -> 0..MaxCost]] /\ f \in [Days -> 0..MaxCost]
    BY DEF PaidFor
  <1>3. dear \in 0..MaxCost /\ c <= dear /\ f[d] <= dear /\ dear <= f[d] + c
    BY <1>1, <1>2
  <1> HIDE DEF dear
  <1>4. g \in [Days -> 0..MaxCost] /\ g[d] = dear /\ \A e \in Days \ {d} : g[e] = f[e]
    BY <1>2, <1>3
  <1>5. new \in [RunIds -> [Days -> 0..MaxCost]] /\ new[r] = g
        /\ \A s \in RunIds \ {r} : new[s] = best[s]
    BY <1>2, <1>4
  <1> HIDE DEF f, g, new
  <1>6. SumFunctionOnSet(g, Days) = SumFunctionOnSet(f, Days) + g[d] - f[d]
    <2>1. \A y \in Days : f[y] \in Nat /\ g[y] \in Nat
      BY <1>2, <1>4
    <2>2. QED BY <1>4, <2>1, DaysFinite, SumChanged
  <1>7. SumFunctionOnSet(f, Days) \in Nat /\ SumFunctionOnSet(g, Days) \in Nat
    <2>1. \A y \in Days : f[y] \in Nat /\ g[y] \in Nat
      BY <1>2, <1>4
    <2>2. QED BY <2>1, DaysFinite, SumIsNat
  <1>8. SumFunctionOnSet(g, Days) <= PaidCap
    <2>1. SumFunctionOnSet(g, Days) <= MaxCost * Cardinality(Days)
      BY <1>1, <1>4, DaysFinite, SumAtMost
    <2>2. MaxCost * (MaxDay + 1) \in Nat /\ MaxCost * (MaxDay + 2) = MaxCost * (MaxDay + 1) + MaxCost
      BY <1>1
    <2>3. QED BY <1>1, <1>7, <2>1, <2>2, DaysFinite DEF PaidCap
  <1>9. SumFunctionOnSet(f, Days) <= paid[r]
    BY DEF PaidFor, f
  <1>10. /\ paid'[r] = (IF paid[r] + c > PaidCap THEN PaidCap ELSE paid[r] + c)
         /\ \A s \in RunIds \ {r} : paid'[s] = paid[s]
         /\ paid[r] \in Nat
    BY <1>1 DEF Charge, TypeOK
  <1>11. SumFunctionOnSet(g, Days) <= paid'[r]
    <2>1. SumFunctionOnSet(g, Days) <= paid[r] + c
      BY <1>1, <1>2, <1>3, <1>4, <1>6, <1>7, <1>9, <1>10
    <2>2. QED BY <1>8, <1>10, <2>1
  <1>12. \A s \in RunIds : SumFunctionOnSet(new[s], Days) <= paid'[s]
    BY <1>5, <1>10, <1>11 DEF PaidFor
  <1>13. PaidFor(new)'
    BY <1>5, <1>12 DEF PaidFor
  <1>14. \A s \in RunIds : \A e \in Days : best[s][e] <= new[s][e]
    <2> SUFFICES ASSUME NEW s \in RunIds, NEW e \in Days PROVE best[s][e] <= new[s][e]
      OBVIOUS
    <2>1. best[s][e] \in Nat
      BY <1>1, <1>2
    <2>2. QED BY <1>3, <1>4, <1>5, <2>1 DEF f
  <1>15. QED BY <1>3, <1>4, <1>5, <1>13, <1>14

\* What was within best stays within anything that is no smaller.
LEMMA WithinMore ==
  ASSUME TypeOK, NEW best \in [RunIds -> [Days -> 0..MaxCost]],
         NEW new \in [RunIds -> [Days -> 0..MaxCost]],
         \A s \in RunIds : \A e \in Days : best[s][e] <= new[s][e], Within(best)
  PROVE  Within(new)
  <1>1. ASSUME NEW s \in RunIds, NEW e \in Days, NEW x \in 0..MaxCost, x <= best[s][e]
        PROVE  x <= new[s][e]
    <2>1. best[s][e] \in 0..MaxCost /\ new[s][e] \in 0..MaxCost /\ best[s][e] <= new[s][e]
      OBVIOUS
    <2>2. QED BY <1>1, <2>1, BoundsAssumption
  <1>2. \A x \in Results : x.cost \in 0..MaxCost
    BY DEF Results
  <1>3. \A p \in Paths : p[1] \in RunIds /\ p[2] \in Days
    BY DEF Paths
  <1>4. FilesWithin(new)
    BY <1>1, <1>2, <1>3 DEF TypeOK, Within, FilesWithin
  <1>5. RowsWithin(new)
    <2> SUFFICES ASSUME NEW r \in RunIds, runs[r].cost # Null
                 PROVE  runs[r].path # Null /\ runs[r].cost <= new[r][runs[r].path[2]]
      BY DEF RowsWithin
    <2>1. runs[r].path # Null /\ runs[r].cost <= best[r][runs[r].path[2]]
      BY DEF Within, RowsWithin
    <2>2. runs[r].cost \in 0..MaxCost /\ runs[r].path \in Paths
      BY <2>1 DEF TypeOK, Rows
    <2>3. QED BY <1>1, <1>3, <2>1, <2>2
  <1>6. ReimportsWithin(new)
    <2> SUFFICES ASSUME NEW a \in Admins, admins[a].row # Null
                 PROVE  admins[a].row.cost <= new[admins[a].at[1]][admins[a].at[2]]
      BY DEF ReimportsWithin
    <2>1. admins[a].row \in Results /\ admins[a].at \in Paths
      BY DEF TypeOK, Calls
    <2>2. QED BY <1>1, <1>2, <1>3, <2>1 DEF Within, ReimportsWithin
  <1>7. HandsWithin(new)
    <2> SUFFICES ASSUME NEW w \in Workers, workers[w].res # Null
                 PROVE  workers[w].res.cost <= new[workers[w].run][workers[w].day]
      BY DEF HandsWithin, Within
    <2>1. workers[w].pc \in {"open", "close", "finish", "fallback"}
          /\ workers[w].res.cost <= best[workers[w].run][workers[w].day]
      BY DEF Within, HandsWithin
    <2>2. workers[w].res \in Results /\ workers[w].run \in RunIds /\ workers[w].day \in Days
      BY <2>1 DEF TypeOK, InHand, Consistent, ExecutingPcs, WorkerStates
    <2>3. QED BY <1>1, <1>2, <2>1, <2>2
  <1>8. QED BY <1>4, <1>5, <1>6, <1>7 DEF Within

\* No step makes more of an execution than it cost: what is landed, closed, read
\* and inserted is a result that was there before, or that of the arm which is
\* being paid.
LEMMA WithinStays ==
  ASSUME ArtifactInv, [Next]_vars, NEW best, NEW new, Within(best), Within(new),
         new = best \/ \E w \in Workers : RunArm(w),
         \A w \in Workers : RunArm(w) /\ workers'[w].pc = "open" =>
           workers'[w].res.cost <= new[workers[w].run][workers[w].day]
  PROVE  Within(new)'
  <1>1. ExecutionInv /\ TypeOK /\ TypeOK' /\ PathsOwn
    BY NextExecution DEF ArtifactInv, ExecutionInv
  <1>2. FilesWithin(new)'
    <2> SUFFICES ASSUME NEW p \in Paths
                 PROVE  /\ disk'[p] \in Results => disk'[p].cost <= new[p[1]][p[2]]
                        /\ imported'[p] # Null => imported'[p].cost <= new[p[1]][p[2]]
      BY DEF FilesWithin
    <2>1. disk'[p] \in Results => disk'[p].cost <= new[p[1]][p[2]]
      <3> HAVE disk'[p] \in Results
      <3>1. CASE disk'[p] = disk[p]
        BY <3>1 DEF Within, FilesWithin
      <3>2. ASSUME NEW w \in Workers, workers[w].pc = "close", disk'[p] = workers[w].res,
                   p = PathOf(workers[w].run, workers[w].day)
            PROVE  disk'[p].cost <= new[p[1]][p[2]]
        <4>1. workers[w].res # Null
          BY <3>2, NullAssumption
        <4>2. workers[w].res.cost <= new[workers[w].run][workers[w].day]
          BY <4>1 DEF Within, HandsWithin
        <4>3. p[1] = workers[w].run /\ p[2] = workers[w].day
          BY <3>2 DEF PathOf
        <4>4. QED BY <3>2, <4>2, <4>3
      <3>3. disk'[p] # Torn
        BY NullAssumption
      <3>4. QED BY <1>1, <3>1, <3>2, <3>3, WriteSteps
    <2>2. imported'[p] # Null => imported'[p].cost <= new[p[1]][p[2]]
      <3>1. CASE imported'[p] = imported[p]
        BY <3>1 DEF Within, FilesWithin
      <3>2. CASE \E a \in Admins : admins[a].at = p /\ imported'[p] = admins[a].row
        BY <3>2 DEF Within, ReimportsWithin
      <3>3. QED BY <1>1, <3>1, <3>2, ReimportSteps
    <2>3. QED BY <2>1, <2>2
  <1>3. RowsWithin(new)'
    <2> SUFFICES ASSUME NEW r \in RunIds, runs'[r].cost # Null
                 PROVE  runs'[r].path # Null /\ runs'[r].cost <= new[r][runs'[r].path[2]]
      BY DEF RowsWithin
    <2>1. CASE Untouched(r)
      BY <2>1 DEF Untouched, Within, RowsWithin
    <2>2. ASSUME NEW w \in Workers, LandedBy(w, r)
          PROVE  runs'[r].path # Null /\ runs'[r].cost <= new[r][runs'[r].path[2]]
      <3>1. runs[r].status = "running" /\ workers[w].run = r /\ r \in RunIds
        BY <1>1, <2>2 DEF LandedBy, ExecutionInv, SoleExecution, Executing, ExecutingPcs
      <3>2. runs[r].cost = Null
        BY <1>1, <3>1 DEF PathsOwn, Terminal
      <3>3. /\ workers[w].pc = "finish" /\ runs'[r].cost = workers[w].res.cost
            /\ runs'[r].path = workers[w].path
        BY <2>2, <3>2 DEF LandedBy
      <3>4. workers[w].path # Null /\ workers[w].res \in Results
        BY <1>1, <3>3 DEF TypeOK, InHand, Consistent
      <3>5. workers[w].res # Null
        BY <3>4, NullAssumption
      <3>6. /\ workers[w].res.cost <= new[workers[w].run][workers[w].day]
            /\ workers[w].path = PathOf(workers[w].run, workers[w].day)
        BY <3>4, <3>5 DEF Within, HandsWithin
      <3>7. workers[w].path[2] = workers[w].day
        BY <3>6 DEF PathOf
      <3>8. QED BY <3>1, <3>3, <3>4, <3>6, <3>7
    <2>3. QED BY <1>1, <2>1, <2>2, RowSteps DEF Inserted
  <1>4. ReimportsWithin(new)'
    <2> SUFFICES ASSUME NEW a \in Admins, admins'[a].row # Null
                 PROVE  admins'[a].row.cost <= new[admins'[a].at[1]][admins'[a].at[2]]
      BY DEF ReimportsWithin
    <2>1. CASE admins'[a].row = admins[a].row /\ admins'[a].at = admins[a].at
      BY <2>1 DEF Within, ReimportsWithin
    <2>2. CASE /\ admins'[a].at \in Paths /\ admins'[a].row = disk[admins'[a].at]
               /\ admins'[a].row # Torn
      <3>1. disk[admins'[a].at] \in Results
        BY <1>1, <2>2 DEF TypeOK
      <3>2. QED BY <2>2, <3>1 DEF Within, FilesWithin
    <2>3. QED BY <1>1, <2>1, <2>2, ReimportSteps
  <1>5. HandsWithin(new)'
    <2> SUFFICES ASSUME NEW w \in Workers
                 PROVE  /\ workers'[w].res # Null =>
                             /\ workers'[w].pc \in {"open", "close", "finish", "fallback"}
                             /\ workers'[w].res.cost <= new[workers'[w].run][workers'[w].day]
                        /\ workers'[w].path # Null =>
                             /\ workers'[w].pc \in {"finish", "fallback"} /\ workers'[w].res # Null
                             /\ workers'[w].path = PathOf(workers'[w].run, workers'[w].day)
      BY DEF HandsWithin, PathOf
    <2>1. /\ workers[w].res # Null =>
               /\ workers[w].pc \in {"open", "close", "finish", "fallback"}
               /\ workers[w].res.cost <= new[workers[w].run][workers[w].day]
          /\ workers[w].path # Null =>
               /\ workers[w].pc \in {"finish", "fallback"} /\ workers[w].res # Null
               /\ workers[w].path = PathOf(workers[w].run, workers[w].day)
      BY DEF Within, HandsWithin
    <2>2. workers[w].pc = "close" => workers[w].res # Null
      <3>1. workers[w].pc = "close" => workers[w].res \in Results
        BY <1>1 DEF TypeOK, InHand, Consistent
      <3>2. QED BY <3>1, NullAssumption
    <2>3. CASE workers'[w].res = Null /\ workers'[w].path = Null
      BY <2>3
    <2>4. CASE /\ workers'[w].run = workers[w].run /\ workers'[w].day = workers[w].day
               /\ workers'[w].res = workers[w].res /\ workers'[w].path = workers[w].path
               /\ \/ workers'[w].pc = workers[w].pc
                  \/ workers'[w].pc = "close" /\ workers[w].pc = "open"
                  \/ workers'[w].pc = "fallback"
      BY <2>1, <2>4
    <2>5. CASE /\ workers'[w].run = workers[w].run /\ workers'[w].day = workers[w].day
               /\ workers[w].pc = "close" /\ workers'[w].pc = "finish"
               /\ workers'[w].res = workers[w].res
               /\ workers'[w].path = PathOf(workers[w].run, workers[w].day)
      BY <2>1, <2>2, <2>5
    <2>6. CASE /\ workers'[w].run = workers[w].run /\ workers'[w].day = workers[w].day
               /\ RunArm(w) /\ workers'[w].pc = "open" /\ workers'[w].path = workers[w].path
      <3>1. workers[w].pc = "arm"
        BY <2>6 DEF RunArm
      <3>2. QED BY <2>1, <2>6, <3>1
    <2>7. QED BY <1>1, <2>1, <2>3, <2>4, <2>5, <2>6, HandSteps
  <1>6. QED BY <1>2, <1>3, <1>4, <1>5 DEF Within

LEMMA NextSpending == SpendingInv /\ [Next]_vars => SpendingInv'
  <1> SUFFICES ASSUME SpendingInv, [Next]_vars PROVE SpendingInv'
    OBVIOUS
  <1>1. ArtifactInv /\ ArtifactInv' /\ TypeOK
    BY NextArtifact DEF SpendingInv, ArtifactInv, ExecutionInv
  <1>2. PICK best : PaidFor(best) /\ Within(best)
    BY DEF SpendingInv
  <1>3. CASE \E w \in Workers : RunArm(w)
    <2>1. PICK w \in Workers : RunArm(w)
      BY <1>3
    <2>2. PICK c \in 0..MaxCost :
            /\ Charge(workers[w].run, c)
            /\ \/ \E ok \in BOOLEAN :
                    workers' = [workers EXCEPT ![w].pc = "open",
                                               ![w].res = [cost |-> c, ok |-> ok, day |-> today]]
               \/ Goto(w, "fallback")
      BY <2>1 DEF RunArm
    <2>3. workers[w].run \in RunIds /\ workers[w].day \in Days /\ workers[w].pc = "arm"
      BY <1>1, <2>1 DEF RunArm, TypeOK, InHand, Consistent, ExecutingPcs, WorkerStates
    <2>4. PICK new : /\ PaidFor(new)' /\ c <= new[workers[w].run][workers[w].day]
                     /\ \A s \in RunIds : \A e \in Days : best[s][e] <= new[s][e]
      BY <1>1, <1>2, <2>2, <2>3, ArmRaises
    <2>5. Within(new)
      BY <1>1, <1>2, <2>4, WithinMore DEF PaidFor
    <2>6. ASSUME NEW v \in Workers, RunArm(v), workers'[v].pc = "open"
          PROVE  workers'[v].res.cost <= new[workers[v].run][workers[v].day]
      <3>1. workers[v].pc = "arm"
        BY <2>6 DEF RunArm
      <3>2. v = w
        <4>1. v # w => workers'[v] = workers[v]
          BY <1>1, <2>2 DEF Goto, TypeOK
        <4>2. QED BY <2>6, <3>1, <4>1
      <3>3. ~Goto(w, "fallback")
        <4>1. Goto(w, "fallback") => workers'[w].pc = "fallback"
          BY <1>1 DEF Goto, TypeOK, WorkerStates
        <4>2. QED BY <2>6, <3>2, <4>1
      <3>4. PICK ok \in BOOLEAN :
                 workers' = [workers EXCEPT ![w].pc = "open",
                                            ![w].res = [cost |-> c, ok |-> ok, day |-> today]]
        BY <2>2, <3>3
      <3> DEFINE res == [cost |-> c, ok |-> ok, day |-> today]
      <3>5. res.cost = c
        OBVIOUS
      <3> HIDE DEF res
      <3>6. workers' = [workers EXCEPT ![w].pc = "open", ![w].res = res]
        BY <3>4 DEF res
      <3>7. workers'[w].res = res
        BY <1>1, <3>6 DEF TypeOK, WorkerStates
      <3>8. QED BY <2>4, <3>2, <3>5, <3>7
    <2>7. Within(new)'
      BY <1>1, <1>2, <2>1, <2>5, <2>6, WithinStays
    <2>8. QED BY <1>1, <2>4, <2>7 DEF SpendingInv
  <1>4. CASE ~(\E w \in Workers : RunArm(w))
    <2>1. UNCHANGED paid
      BY <1>4, PaidSteps
    <2>2. PaidFor(best)'
      BY <1>2, <2>1 DEF PaidFor
    <2>3. Within(best)'
      BY <1>1, <1>2, <1>4, WithinStays
    <2>4. QED BY <1>1, <2>2, <2>3 DEF SpendingInv
  <1>5. QED BY <1>3, <1>4

LEMMA InitSpending == Init => SpendingInv
  <1> SUFFICES ASSUME Init PROVE SpendingInv
    OBVIOUS
  <1> DEFINE zero == [d \in Days |-> 0]
             best == [r \in RunIds |-> zero]
  <1>1. SumFunctionOnSet(zero, Days) <= 0
    <2>1. \A d \in Days : zero[d] \in 0..0
      OBVIOUS
    <2> HIDE DEF zero
    <2>2. SumFunctionOnSet(zero, Days) <= 0 * Cardinality(Days)
      BY <2>1, DaysFinite, SumAtMost
    <2>3. 0 * Cardinality(Days) = 0
      BY DaysFinite, BoundsAssumption
    <2>4. QED BY <2>2, <2>3
  <1>2. PaidFor(best)
    <2>1. best \in [RunIds -> [Days -> 0..MaxCost]]
      BY BoundsAssumption
    <2>2. \A r \in RunIds : best[r] = zero /\ paid[r] = 0
      BY DEF Init
    <2> HIDE DEF best, zero
    <2>3. QED BY <1>1, <2>1, <2>2 DEF PaidFor
  <1> HIDE DEF best, zero
  <1>3. /\ \A p \in Paths : disk[p] = Null /\ imported[p] = Null
        /\ \A r \in RunIds : runs[r].cost = Null
        /\ \A a \in Admins : admins[a].row = Null
        /\ \A w \in Workers : workers[w].res = Null /\ workers[w].path = Null
    BY DEF Init, NoRow, NoCall, Fresh
  <1>4. Within(best)
    BY <1>3, NullAssumption DEF Within, FilesWithin, RowsWithin, ReimportsWithin, HandsWithin
  <1>5. QED BY <1>2, <1>4, InitArtifact DEF SpendingInv

\* The costs of the row and of the imports of a run are of different days.
LEMMA SpendingTold == SpendingInv => RecordedWithinPaid
  <1> SUFFICES ASSUME SpendingInv, NEW r \in RunIds
               PROVE  CostOf(runs[r]) + SumFunction(ImportedCosts(r)) <= paid[r]
    BY DEF RecordedWithinPaid
  <1>1. TypeOK /\ PathsOwn /\ ArtifactInOneRow
    BY DEF SpendingInv, ArtifactInv, ExecutionInv
  <1>2. PICK best : PaidFor(best) /\ Within(best)
    BY DEF SpendingInv
  <1> DEFINE f == ImportedCosts(r)
             g == best[r]
  <1>3. SumFunction(f) = SumFunctionOnSet(f, Days)
    BY DEF SumFunction, ImportedCosts
  <1>4. /\ \A d \in Days : f[d] \in Nat /\ f[d] <= g[d]
        /\ \A d \in Days : imported[<<r, d>>] = Null => f[d] = 0
        /\ g \in [Days -> 0..MaxCost]
    <2>1. g \in [Days -> 0..MaxCost]
      BY <1>2 DEF PaidFor
    <2>2. ASSUME NEW d \in Days
          PROVE  /\ f[d] \in Nat /\ f[d] <= g[d]
                 /\ imported[<<r, d>>] = Null => f[d] = 0
      <3>1. <<r, d>> \in Paths /\ g[d] \in 0..MaxCost
        BY <2>1 DEF Paths
      <3>2. f[d] = IF imported[<<r, d>>] = Null THEN 0 ELSE imported[<<r, d>>].cost
        BY DEF ImportedCosts
      <3>3. imported[<<r, d>>] # Null =>
              imported[<<r, d>>].cost \in 0..MaxCost /\ imported[<<r, d>>].cost <= best[r][d]
        BY <1>1, <1>2, <3>1 DEF TypeOK, Results, Within, FilesWithin
      <3>4. QED BY <3>1, <3>2, <3>3, BoundsAssumption
    <2>3. QED BY <2>1, <2>2
  <1>5. SumFunctionOnSet(g, Days) <= paid[r] /\ paid[r] \in Nat
    BY <1>1, <1>2, BoundsAssumption DEF PaidFor, TypeOK, PaidCap
  <1> HIDE DEF f, g
  <1>6. \A d \in Days : g[d] \in Nat
    BY <1>4, BoundsAssumption
  <1>7. SumFunctionOnSet(f, Days) \in Nat /\ SumFunctionOnSet(g, Days) \in Nat
    BY <1>4, <1>6, DaysFinite, SumIsNat
  <1>8. CASE runs[r].cost = Null
    <2>1. SumFunctionOnSet(f, Days) <= SumFunctionOnSet(g, Days)
      BY <1>4, <1>6, DaysFinite, SumMonotonic
    <2>2. QED BY <1>3, <1>5, <1>7, <1>8, <2>1 DEF CostOf, f
  <1>9. CASE runs[r].cost # Null
    <2>1. runs[r].path # Null /\ runs[r].cost <= best[r][runs[r].path[2]]
      BY <1>2, <1>9 DEF Within, RowsWithin
    <2>2. runs[r].path \in Paths /\ runs[r].cost \in Nat /\ runs[r].path[1] = r
      BY <1>1, <1>9, <2>1, BoundsAssumption DEF TypeOK, Rows, PathsOwn
    <2> DEFINE d == runs[r].path[2]
               h == [f EXCEPT ![d] = runs[r].cost]
    <2>3. d \in Days /\ runs[r].path = <<r, d>>
      BY <2>2 DEF Paths
    <2>4. f[d] = 0
      BY <1>1, <1>4, <2>1, <2>3 DEF ArtifactInOneRow
    <2>5. f = [e \in Days |-> f[e]]
      BY DEF f, ImportedCosts
    <2>6. h[d] = runs[r].cost /\ \A e \in Days \ {d} : h[e] = f[e]
      BY <2>3, <2>5
    <2>7. runs[r].cost <= g[d]
      BY <2>1 DEF g
    <2> HIDE DEF d, h
    <2>8. SumFunctionOnSet(h, Days) = SumFunctionOnSet(f, Days) + h[d] - f[d]
      <3>1. \A e \in Days : f[e] \in Nat /\ h[e] \in Nat
        BY <1>4, <2>2, <2>6
      <3>2. QED BY <2>3, <2>6, <3>1, DaysFinite, SumChanged
    <2>9. SumFunctionOnSet(h, Days) <= SumFunctionOnSet(g, Days)
      <3>1. \A e \in Days : h[e] \in Nat /\ g[e] \in Nat /\ h[e] <= g[e]
        BY <1>4, <1>6, <2>2, <2>6, <2>7
      <3>2. QED BY <3>1, DaysFinite, SumMonotonic
    <2>10. SumFunctionOnSet(f, Days) + runs[r].cost <= paid[r]
      BY <1>5, <1>7, <2>2, <2>4, <2>6, <2>8, <2>9
    <2>11. QED BY <1>3, <1>7, <1>9, <2>2, <2>10 DEF CostOf, f
  <1>10. QED BY <1>8, <1>9

\* No execution is counted twice: what the table shows for a run, in its own row
\* and in those that reimport made of its files, is never more than its
\* executions cost, however sweeps, crashes and reimports interleave.
THEOREM NothingToldTwice == Spec => []RecordedWithinPaid
  <1>1. QED BY InitSpending, NextSpending, SpendingTold, PTL DEF Spec

=============================================================================
