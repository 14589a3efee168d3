----------------------------- MODULE BatchProofs -----------------------------
(****************************************************************************)
(* Proofs about BatchLock, for every set of runners and probes and any      *)
(* number of starts and deaths, and about Primitives and BatchRunner, for   *)
(* any services, tools that may fail, lists of cycles or cards, limits,     *)
(* batches and stops.                                                       *)
(****************************************************************************)
EXTENDS BatchRunner, BatchLock, FiniteSetTheorems, SequenceTheorems, TLAPS

(* -------------------------------- types -------------------------------- *)

\* The pcs at which main() is inside a cycle.
InCycle == batch.pc \notin {"off", "next", "end"}

TypeInv == RunnerTypeOK /\ (InCycle => batch.i >= 1)

LEMMA PlanTypes ==
  ASSUME batch \in Batches
  PROVE  /\ Cycles \in Seq(Targets) /\ Len(Cycles) \in Nat /\ Cards = 1..Len(Cycles)
         /\ CardMode \in BOOLEAN /\ ObserveOnly \in BOOLEAN
  <1>1. batch.plan \in [cycles : Seq(Targets), cards : BOOLEAN, observe : BOOLEAN]
    BY RunnerAssumption DEF Batches
  <1>2. Cycles \in Seq(Targets) /\ CardMode \in BOOLEAN /\ ObserveOnly \in BOOLEAN
    BY <1>1 DEF Cycles, CardMode, ObserveOnly
  <1>3. QED BY <1>2, LenProperties DEF Cards

LEMMA TargetTypes ==
  ASSUME RunnerTypeOK, batch.i >= 1
  PROVE  batch.i \in Cards /\ Target \in Targets
  <1>1. Cycles \in Seq(Targets) /\ Cards = 1..Len(Cycles) /\ Len(Cycles) \in Nat
    BY PlanTypes DEF RunnerTypeOK
  <1>2. batch.i \in 1..Len(Cycles)
    BY <1>1 DEF RunnerTypeOK, Batches
  <1>3. Target \in Targets
    BY <1>1, <1>2, ElementOfSeq DEF Target
  <1>4. QED BY <1>1, <1>2, <1>3

LEMMA ScriptTarget ==
  ASSUME PrimTypeOK
  PROVE  T \in Targets /\ T.svc \in Services /\ T.prim \in Prims /\ fault[T] \in Nat
  <1>1. T \in Targets
    BY DEF PrimTypeOK, Scripts, T
  <1>2. QED BY <1>1 DEF PrimTypeOK, Targets

LEMMA ScriptTypes == PrimTypeOK /\ ScriptStep => PrimTypeOK'
  <1> SUFFICES ASSUME PrimTypeOK, ScriptStep PROVE PrimTypeOK'
    OBVIOUS
  <1>a. T \in Targets /\ T.svc \in Services /\ T.prim \in Prims /\ fault[T] \in Nat
    BY ScriptTarget
  <1>b. script' \in Scripts /\ failed' \subseteq Fallible
    BY DEF ScriptStep, PrimTypeOK, Scripts, Cmds, Exit, Goto, Say, Works, Fails, CannotStart,
           KillApplySave, KillApplyKill, KillRevertStart, KillRevertRestore, KillRevertUnmark,
           KillProbe, DropApplyInsert, DropRevertDelete, DropRevertUnmark,
           DropProbe, DelayApplyInstall, DelayRevertDelete, DelayRevertUnmark,
           DelayRevertCheck, DelayProbe, ApplyMark, FlagApplyBackup, FlagApplySwitch,
           FlagRevertRestore, FlagRevertUnmark, FlagProbe
  <1>c. saved' \in [Services -> {"own", "no"}]
    BY <1>a DEF ScriptStep, PrimTypeOK, KeepFiles, CannotStart,
           KillApplySave, KillApplyKill, KillRevertStart, KillRevertRestore, KillRevertUnmark,
           KillProbe, DropApplyInsert, DropRevertDelete, DropRevertUnmark,
           DropProbe, DelayApplyInstall, DelayRevertDelete, DelayRevertUnmark,
           DelayRevertCheck, DelayProbe, ApplyMark, FlagApplyBackup, FlagApplySwitch,
           FlagRevertRestore, FlagRevertUnmark, FlagProbe
  <1> USE <1>a, <1>b, <1>c DEF PrimTypeOK, KeepBed, KeepFiles, Heal, Inject
  <1>1. CASE CannotStart BY <1>1 DEF CannotStart
  <1>2. CASE KillApplySave BY <1>2 DEF KillApplySave
  <1>3. CASE KillApplyKill BY <1>3 DEF KillApplyKill
  <1>4. CASE KillRevertStart BY <1>4 DEF KillRevertStart
  <1>5. CASE KillRevertRestore BY <1>5 DEF KillRevertRestore
  <1>6. CASE KillRevertUnmark BY <1>6 DEF KillRevertUnmark
  <1>7. CASE KillProbe BY <1>7 DEF KillProbe
  <1>8. CASE DropApplyInsert BY <1>8 DEF DropApplyInsert
  <1>9. CASE DropRevertDelete BY <1>9 DEF DropRevertDelete
  <1>10. CASE DropRevertUnmark BY <1>10 DEF DropRevertUnmark
  <1>11. CASE DropProbe BY <1>11 DEF DropProbe
  <1>12. CASE DelayApplyInstall BY <1>12 DEF DelayApplyInstall
  <1>13. CASE DelayRevertDelete BY <1>13 DEF DelayRevertDelete
  <1>14. CASE DelayRevertUnmark BY <1>14 DEF DelayRevertUnmark
  <1>15. CASE DelayRevertCheck BY <1>15 DEF DelayRevertCheck
  <1>16. CASE DelayProbe BY <1>16 DEF DelayProbe
  <1>17. CASE ApplyMark BY <1>17 DEF ApplyMark
  <1>18. CASE FlagApplyBackup BY <1>18 DEF FlagApplyBackup
  <1>19. CASE FlagApplySwitch BY <1>19 DEF FlagApplySwitch
  <1>20. CASE FlagRevertRestore BY <1>20 DEF FlagRevertRestore
  <1>21. CASE FlagRevertUnmark BY <1>21 DEF FlagRevertUnmark
  <1>22. CASE FlagProbe BY <1>22 DEF FlagProbe
  <1>23. QED
    BY <1>1, <1>2, <1>3, <1>4, <1>5, <1>6, <1>7, <1>8, <1>9, <1>10, <1>11, <1>12, <1>13,
       <1>14, <1>15, <1>16, <1>17, <1>18, <1>19, <1>20, <1>21, <1>22 DEF ScriptStep

\* The runner's own steps leave the testbed alone.
LEMMA RunnerSteps ==
  ASSUME TypeInv, Next, ~RunScript
  PROVE  /\ KeepTestbed
         /\ \/ UNCHANGED script
            \/ script'.pc = "none"
            \/ CallScript
         /\ script' \in Scripts /\ failed' \subseteq Fallible /\ failed \subseteq failed'
         /\ stops \in Nat /\ stops' \in Nat /\ stops' >= stops
  <1>1. script \in Scripts /\ batch \in Batches /\ stops \in 0..MaxStops /\ MaxStops \in Nat
        /\ failed \subseteq Fallible
    BY RunnerAssumption DEF TypeInv, RunnerTypeOK, PrimTypeOK
  <1>2. CASE CallScript
    <2>1. batch.i >= 1
      BY <1>2 DEF CallScript, TypeInv, InCycle, CmdOf
    <2>2. Target \in Targets
      BY <2>1, TargetTypes DEF TypeInv
    <2>3. CmdOf[batch.pc] \in Cmds
      BY <1>2 DEF CallScript, CmdOf, Cmds
    <2>4. QED BY <1>1, <1>2, <2>2, <2>3 DEF CallScript, Call, Scripts, Works, runnerVars
  <1>a. Collect => script' \in Scripts /\ script'.pc = "none"
    BY <1>1 DEF Collect, Scripts
  <1> USE <1>1, <1>a DEF NoScript, Returns, Works, Fails, KeepBooks, KeepTestbed
  <1>3. CASE StartBatch BY <1>3 DEF StartBatch
  <1>4. CASE StartCycle BY <1>4 DEF StartCycle
  <1>5. CASE Applied BY <1>5 DEF Applied
  <1>6. CASE Undone BY <1>6 DEF Undone
  <1>7. CASE Probed BY <1>7 DEF Probed
  <1>8. CASE Reverted BY <1>8 DEF Reverted
  <1>9. CASE Snapshot BY <1>9 DEF Snapshot
  <1>10. CASE Reprobed BY <1>10 DEF Reprobed
  <1>11. CASE CheckResidue BY <1>11 DEF CheckResidue, ResidueSays
  <1>12. CASE Harvest
    <2>1. NoScript /\ (Works \/ Fails("backend")) /\ KeepBooks
      BY <1>12, Zenon DEF Harvest
    <2>2. QED BY <2>1
  <1>13. CASE Gate BY <1>13 DEF Gate
  <1>14. CASE Fail BY <1>14 DEF Fail
  <1>15. CASE Pack BY <1>15 DEF Pack
  <1>16. CASE Detect BY <1>16 DEF Detect
  <1>17. CASE Save BY <1>17 DEF Save
  <1>18. CASE View BY <1>18 DEF View
  <1>19. CASE SavePacked BY <1>19 DEF SavePacked
  <1>20. CASE Book BY <1>20 DEF Book
  <1>21. CASE EndBatch BY <1>21 DEF EndBatch
  <1>22. CASE Stop BY <1>22 DEF Stop
  <1>23. QED BY <1>2, <1>3, <1>4, <1>5, <1>6, <1>7, <1>8, <1>9, <1>10, <1>11, <1>12, <1>13, <1>14, <1>15, <1>16, <1>17, <1>18, <1>19, <1>20, <1>21, <1>22 DEF Next

LEMMA BatchTypes ==
  ASSUME TypeInv, Next
  PROVE  /\ batch' \in Batches /\ batch'.plan = batch.plan
         /\ batch'.i <= Len(Cycles) /\ (InCycle' => batch'.i >= 1)
  <1>1. batch \in Batches /\ MaxBatches \in Nat /\ batch.i <= Len(Cycles)
    BY RunnerAssumption DEF TypeInv, RunnerTypeOK
  <1>2. Len(Cycles) \in Nat
    BY <1>1, PlanTypes
  <1>3. InCycle => batch.i >= 1
    BY DEF TypeInv
  <1> USE <1>1, <1>2, <1>3 DEF At, To, InCycle, Batches, BatchPcs, CmdOf, Verdicts, Bool
  <1>4. CASE StartBatch
    <2>1. batch.n + 1 \in 0..MaxBatches
      BY <1>4 DEF StartBatch
    <2>2. batch' = [batch EXCEPT !.pc = "next", !.n = batch.n + 1, !.i = 0, !.streak = 0]
      BY <1>4 DEF StartBatch
    <2>3. batch' \in Batches
      BY <2>1, <2>2
    <2>4. QED BY <2>2, <2>3
  <1>5. CASE StartCycle
    <2>1. CASE MoreCycles
      <3>1. batch.i + 1 \in Nat /\ batch.i + 1 <= Len(Cycles) /\ batch.i + 1 >= 1
        BY <2>1 DEF MoreCycles
      <3>2. QED BY <1>5, <2>1, <3>1 DEF StartCycle
    <2>2. CASE ~MoreCycles
      BY <1>5, <2>2 DEF StartCycle
    <2>3. QED BY <2>1, <2>2
  <1>6. CASE Applied BY <1>6 DEF Applied
  <1>7. CASE Undone BY <1>7 DEF Undone
  <1>8. CASE Probed BY <1>8 DEF Probed
  <1>9. CASE Reverted BY <1>9 DEF Reverted
  <1>10. CASE Snapshot BY <1>10 DEF Snapshot
  <1>11. CASE Reprobed BY <1>11 DEF Reprobed
  <1>12. CASE CheckResidue BY <1>12 DEF CheckResidue
  <1>13. CASE Harvest
    <2>1. \/ \E symptom, recovered \in Verdicts, pc \in {"gate", "book"} :
               batch' = [batch EXCEPT !.pc = pc, !.symptom = symptom, !.recovered = recovered]
          \/ To("failed")
      <3>1. \A symptom, recovered \in IF ObserveOnly THEN {"none"} ELSE Verdicts :
              symptom \in Verdicts /\ recovered \in Verdicts
        OBVIOUS
      <3>2. (IF CardMode THEN "gate" ELSE "book") \in {"gate", "book"}
        OBVIOUS
      <3>3. QED BY <1>13, <3>1, <3>2, Zenon DEF Harvest
    <2>2. At("harvest")
      BY <1>13, Zenon DEF Harvest
    <2>3. QED BY <2>1, <2>2
  <1>14. CASE Gate BY <1>14 DEF Gate
  <1>15. CASE Fail BY <1>15 DEF Fail
  <1>16. CASE Pack BY <1>16 DEF Pack
  <1>17. CASE Detect BY <1>17 DEF Detect
  <1>18. CASE Save BY <1>18 DEF Save
  <1>19. CASE View BY <1>19 DEF View
  <1>20. CASE SavePacked BY <1>20 DEF SavePacked
  <1>21. CASE Book
    <2>1. Streak \in Nat
      BY DEF Streak
    <2>2. QED BY <1>21, <2>1 DEF Book
  <1>22. CASE EndBatch BY <1>22 DEF EndBatch
  <1>23. CASE Stop BY <1>23 DEF Stop
  <1>24. CASE CallScript \/ RunScript BY <1>24 DEF CallScript, RunScript, runnerVars
  <1>25. QED BY <1>4, <1>5, <1>6, <1>7, <1>8, <1>9, <1>10, <1>11, <1>12, <1>13, <1>14, <1>15, <1>16, <1>17, <1>18, <1>19, <1>20, <1>21, <1>22, <1>23, <1>24 DEF Next

LEMMA BookTypes ==
  ASSUME TypeInv, Next
  PROVE  /\ rows' \in Seq(Rows) /\ production' \in [Cards -> Books]
         /\ evidence' \in [Cards -> [{"pack", "alerts", "view"} -> 0..MaxBatches]]
         /\ stops' \in 0..MaxStops
  <1>1. /\ batch \in Batches /\ MaxBatches \in Nat /\ rows \in Seq(Rows)
        /\ production \in [Cards -> Books] /\ stops \in 0..MaxStops /\ MaxStops \in Nat
        /\ evidence \in [Cards -> [{"pack", "alerts", "view"} -> 0..MaxBatches]]
    BY RunnerAssumption DEF TypeInv, RunnerTypeOK
  <1>2. InCycle => batch.i \in Cards
    BY TargetTypes DEF TypeInv
  <1>3. \A verdict \in {"passed", "failed"}, packed \in BOOLEAN :
          Booked(verdict, packed) \in [Cards -> Books]
    BY <1>1 DEF Booked, Books, Batches
  <1>4. ASSUME NEW part \in {"pack", "alerts", "view"}, NEW n \in 0..MaxBatches, InCycle
        PROVE  [evidence EXCEPT ![batch.i][part] = n]
                 \in [Cards -> [{"pack", "alerts", "view"} -> 0..MaxBatches]]
    BY <1>1, <1>2, <1>4
  <1>5. batch.n \in 0..MaxBatches /\ 0 \in 0..MaxBatches
    BY <1>1 DEF Batches
  <1>6. CASE Book
    <2>1. Row \in Rows
      <3>1. (production[batch.i].verdict = "failed") \in BOOLEAN
        OBVIOUS
      <3>2. QED BY <1>1, PlanTypes DEF Row, Rows, Batches
    <2>2. QED BY <1>1, <1>6, <2>1, AppendProperties DEF Book
  <1>7. CASE Gate \/ Fail \/ Save \/ SavePacked
    BY <1>1, <1>3, <1>7 DEF Gate, Fail, Save, SavePacked, SaveEarly
  <1>8. CASE Pack \/ Detect \/ View
    <2>1. InCycle
      BY <1>8 DEF Pack, Detect, View, At, InCycle
    <2>2. \E part \in {"pack", "alerts", "view"}, n \in {0, batch.n} : Write(part, n)
      BY <1>8 DEF Pack, Detect, View
    <2>3. evidence' \in [Cards -> [{"pack", "alerts", "view"} -> 0..MaxBatches]]
      <3>1. PICK part \in {"pack", "alerts", "view"}, n \in {0, batch.n} : Write(part, n)
        BY <2>2
      <3>2. n \in 0..MaxBatches
        BY <1>5
      <3>3. QED BY <1>4, <2>1, <3>1, <3>2 DEF Write
    <2>4. QED BY <1>1, <1>8, <2>3 DEF Pack, Detect, View
  <1>9. CASE Stop
    <2>1. At("pack") => InCycle
      BY DEF At, InCycle
    <2>2. InCycle => [evidence EXCEPT ![batch.i].pack = 0]
                       \in [Cards -> [{"pack", "alerts", "view"} -> 0..MaxBatches]]
      BY <1>4, <1>5
    <2>3. evidence' = evidence \/ (At("pack") /\ evidence' = [evidence EXCEPT ![batch.i].pack = 0])
      BY <1>9 DEF Stop
    <2>5. evidence' \in [Cards -> [{"pack", "alerts", "view"} -> 0..MaxBatches]]
      BY <1>1, <2>1, <2>2, <2>3
    <2>6. QED BY <1>1, <1>9, <2>5 DEF Stop
  <1>10. CASE StartBatch
    BY <1>1, <1>10 DEF StartBatch
  <1>11. CASE UNCHANGED <<rows, production, evidence, stops>>
    BY <1>1, <1>11
  <1>12. QED
    BY <1>6, <1>7, <1>8, <1>9, <1>10, <1>11 DEF Next, StartCycle, CallScript, RunScript, runnerVars,
       Applied, Undone, Probed, Reverted, Snapshot, Reprobed, CheckResidue, Harvest, EndBatch,
       KeepBooks

LEMMA InitTypes == Init => TypeInv
  <1> SUFFICES ASSUME Init PROVE TypeInv
    OBVIOUS
  <1>1. PrimTypeOK
    BY DEF Init, PrimInit, PrimTypeOK, Scripts, Cmds
  <1>2. batch \in Batches /\ batch.i = 0 /\ batch.pc = "off"
    BY RunnerAssumption DEF Init, Batches, BatchPcs, Verdicts
  <1>3. Len(Cycles) \in Nat
    BY <1>2, PlanTypes
  <1>4. QED BY <1>1, <1>2, <1>3, RunnerAssumption
            DEF Init, TypeInv, InCycle, RunnerTypeOK, Books, Verdicts

LEMMA NextTypes == TypeInv /\ [Next]_vars => TypeInv'
  <1> SUFFICES ASSUME TypeInv, [Next]_vars PROVE TypeInv'
    OBVIOUS
  <1>1. CASE UNCHANGED vars
    BY <1>1 DEF vars, runnerVars, primVars, TypeInv, InCycle, RunnerTypeOK, PrimTypeOK, Cards, Cycles
  <1>2. CASE Next
    <2>1. batch'.plan = batch.plan
      BY <1>2, BatchTypes
    <2>2. PrimTypeOK'
      <3>1. CASE RunScript
        BY <3>1, ScriptTypes DEF RunScript, TypeInv, RunnerTypeOK
      <3>2. CASE ~RunScript
        BY <1>2, <3>2, RunnerSteps DEF TypeInv, RunnerTypeOK, PrimTypeOK, KeepTestbed
      <3>3. QED BY <3>1, <3>2
    <2>3. QED BY <1>2, <2>1, <2>2, BatchTypes, BookTypes DEF TypeInv, RunnerTypeOK, Cards, Cycles
  <1>3. QED BY <1>1, <1>2

\* Every variable of the scripts and of the runner stays within its type.
THEOREM BatchTypeCorrect == Spec => []RunnerTypeOK
  <1>1. TypeInv => RunnerTypeOK
    BY DEF TypeInv
  <1>2. QED BY <1>1, InitTypes, NextTypes, PTL DEF Spec

(* ------------------------------- scripts ------------------------------- *)

\* The script that runs is `prim cmd`, at one of pcs.
In(prim, cmd, pcs) == T.prim = prim /\ script.cmd = cmd /\ script.pc \in pcs

Stages ==
    /\ script.pc \in {"switch", "mark"} => script.cmd = "apply"
    /\ script.pc \in {"unmark", "check"} => script.cmd = "revert"
    /\ script.pc = "mark" => T.prim # "kill_container"

Kill(svc) == [prim |-> "kill_container", svc |-> svc]

\* The first apply saves the service's own policy; what is saved stays so until
\* the policy is back.
PolicyInv ==
    /\ \A s \in Services : saved[s] = "own"
    /\ \A s \in restart : Kill(s) \in mark
    /\ In("kill_container", "apply", {"switch"}) => T \in mark
    /\ In("kill_container", "revert", {"check"}) => T.svc \notin restart

\* A killed container is marked, a switched flag marked or backed up, at every
\* command of their scripts.
CoveredInv ==
    /\ \A t \in Targets : t.prim = "kill_container" /\ fault[t] > 0 => t \in mark
    /\ In("kill_container", "revert", {"unmark", "check"}) => fault[T] = 0
    /\ \A t \in Targets : t.prim = "set_flag" /\ fault[t] > 0 => t \in mark \/ t.svc \in backup
    /\ In("set_flag", "apply", {"switch", "mark"}) => T.svc \in backup
    /\ In("set_flag", "apply", {"switch"}) => fault[T] = 0
    /\ In("set_flag", "revert", {"unmark"}) => fault[T] = 0

PrimInv == Stages /\ PolicyInv /\ CoveredInv

LEMMA SameTarget ==
  ASSUME NEW s \in Targets, NEW t \in Targets
  PROVE  /\ s.prim = t.prim /\ s.svc = t.svc => s = t
         /\ s.prim = "kill_container" => s = Kill(s.svc)
         /\ s.svc \in Services
  BY DEF Targets, Kill

LEMMA KillIsTarget ==
  ASSUME NEW s \in Services
  PROVE  Kill(s) \in Targets /\ Kill(s).svc = s /\ Kill(s).prim = "kill_container"
  BY DEF Kill, Targets, Prims

LEMMA StagesKept == PrimTypeOK /\ Stages /\ ScriptStep => Stages'
  <1> SUFFICES ASSUME PrimTypeOK, Stages, ScriptStep PROVE Stages'
    OBVIOUS
  <1> USE DEF Stages, PrimTypeOK, Scripts, T, Runs, Started, Exit, Goto, Say
  <1>1. CASE CannotStart BY <1>1 DEF CannotStart
  <1>2. CASE KillApplySave BY <1>2 DEF KillApplySave
  <1>3. CASE KillApplyKill BY <1>3 DEF KillApplyKill
  <1>4. CASE KillRevertStart BY <1>4 DEF KillRevertStart
  <1>5. CASE KillRevertRestore BY <1>5 DEF KillRevertRestore
  <1>6. CASE KillRevertUnmark BY <1>6 DEF KillRevertUnmark
  <1>7. CASE KillProbe BY <1>7 DEF KillProbe
  <1>8. CASE DropApplyInsert BY <1>8 DEF DropApplyInsert
  <1>9. CASE DropRevertDelete BY <1>9 DEF DropRevertDelete
  <1>10. CASE DropRevertUnmark BY <1>10 DEF DropRevertUnmark
  <1>11. CASE DropProbe BY <1>11 DEF DropProbe
  <1>12. CASE DelayApplyInstall BY <1>12 DEF DelayApplyInstall
  <1>13. CASE DelayRevertDelete BY <1>13 DEF DelayRevertDelete
  <1>14. CASE DelayRevertUnmark BY <1>14 DEF DelayRevertUnmark
  <1>15. CASE DelayRevertCheck BY <1>15 DEF DelayRevertCheck
  <1>16. CASE DelayProbe BY <1>16 DEF DelayProbe
  <1>17. CASE ApplyMark BY <1>17 DEF ApplyMark
  <1>18. CASE FlagApplyBackup BY <1>18 DEF FlagApplyBackup
  <1>19. CASE FlagApplySwitch BY <1>19 DEF FlagApplySwitch
  <1>20. CASE FlagRevertRestore BY <1>20 DEF FlagRevertRestore
  <1>21. CASE FlagRevertUnmark BY <1>21 DEF FlagRevertUnmark
  <1>22. CASE FlagProbe BY <1>22 DEF FlagProbe
  <1>23. QED
    BY <1>1, <1>2, <1>3, <1>4, <1>5, <1>6, <1>7, <1>8, <1>9, <1>10, <1>11, <1>12,
       <1>13, <1>14, <1>15, <1>16, <1>17, <1>18, <1>19, <1>20, <1>21, <1>22 DEF ScriptStep

LEMMA PolicyKept == PrimTypeOK /\ Stages /\ PolicyInv /\ ScriptStep => PolicyInv'
  <1> SUFFICES ASSUME PrimTypeOK, Stages, PolicyInv, ScriptStep PROVE PolicyInv'
    OBVIOUS
  <1>a. T \in Targets /\ T.svc \in Services
    BY ScriptTarget
  <1>b. T.prim = "kill_container" => T = Kill(T.svc)
    BY <1>a, SameTarget
  <1>c. \A s \in Services : Kill(s).prim = "kill_container" /\ Kill(s).svc = s
    BY KillIsTarget
  <1> USE <1>a, <1>b, <1>c DEF Stages, PolicyInv, In, PrimTypeOK, Scripts, T, Runs, Started, Exit,
        Goto, Say, KeepBed, KeepFiles, Works, Fails, SavesPolicy
  <1>1. CASE CannotStart BY <1>1 DEF CannotStart
  <1>2. CASE KillApplySave BY <1>2 DEF KillApplySave
  <1>3. CASE KillApplyKill
    <2>1. /\ T \in mark /\ UNCHANGED <<mark, saved>> /\ script'.pc = "exited"
          /\ restart' \subseteq restart \cup {T.svc}
      BY <1>3 DEF KillApplyKill
    <2>2. T = Kill(T.svc)
      BY <1>3 DEF KillApplyKill
    <2>3. QED BY <2>1, <2>2
  <1>4. CASE KillRevertStart BY <1>4 DEF KillRevertStart
  <1>5. CASE KillRevertRestore
    <2>a. saved[T.svc] = "own"
      BY DEF PolicyInv
    <2>b. restart' = restart \/ restart' = restart \ {T.svc}
      BY <1>5, <2>a DEF KillRevertRestore
    <2>1. UNCHANGED <<mark, saved>> /\ restart' \subseteq restart
      BY <1>5, <2>b DEF KillRevertRestore
    <2>c. script'.pc = "exited" \/ (Goto("check") /\ restart' = restart \ {T.svc})
      BY <1>5, <2>a DEF KillRevertRestore
    <2>2. script'.pc = "exited" \/ (script'.pc = "check" /\ script'.target = T /\ T.svc \notin restart')
      BY <2>c
    <2>3. QED BY <2>1, <2>2
  <1>6. CASE KillRevertUnmark BY <1>6 DEF KillRevertUnmark
  <1>7. CASE KillProbe BY <1>7 DEF KillProbe
  <1>8. CASE DropApplyInsert BY <1>8 DEF DropApplyInsert
  <1>9. CASE DropRevertDelete BY <1>9 DEF DropRevertDelete
  <1>10. CASE DropRevertUnmark BY <1>10 DEF DropRevertUnmark
  <1>11. CASE DropProbe BY <1>11 DEF DropProbe
  <1>12. CASE DelayApplyInstall BY <1>12 DEF DelayApplyInstall
  <1>13. CASE DelayRevertDelete BY <1>13 DEF DelayRevertDelete
  <1>14. CASE DelayRevertUnmark BY <1>14 DEF DelayRevertUnmark
  <1>15. CASE DelayRevertCheck BY <1>15 DEF DelayRevertCheck
  <1>16. CASE DelayProbe BY <1>16 DEF DelayProbe
  <1>17. CASE ApplyMark BY <1>17 DEF ApplyMark
  <1>18. CASE FlagApplyBackup BY <1>18 DEF FlagApplyBackup
  <1>19. CASE FlagApplySwitch BY <1>19 DEF FlagApplySwitch
  <1>20. CASE FlagRevertRestore BY <1>20 DEF FlagRevertRestore
  <1>21. CASE FlagRevertUnmark BY <1>21 DEF FlagRevertUnmark
  <1>22. CASE FlagProbe BY <1>22 DEF FlagProbe
  <1>23. QED
    BY <1>1, <1>2, <1>3, <1>4, <1>5, <1>6, <1>7, <1>8, <1>9, <1>10, <1>11, <1>12,
       <1>13, <1>14, <1>15, <1>16, <1>17, <1>18, <1>19, <1>20, <1>21, <1>22 DEF ScriptStep

LEMMA CoveredKept ==
  PrimTypeOK /\ Stages /\ PolicyInv /\ CoveredInv /\ ScriptStep => CoveredInv'
  <1> SUFFICES ASSUME PrimTypeOK, Stages, PolicyInv, CoveredInv, ScriptStep PROVE CoveredInv'
    OBVIOUS
  <1>a. T \in Targets /\ T.svc \in Services /\ fault[T] \in Nat /\ DOMAIN fault = Targets
    BY ScriptTarget DEF PrimTypeOK
  <1>b. \A t \in Targets : t.prim = T.prim /\ t.svc = T.svc => t = T
    BY <1>a, SameTarget
  <1>c. In("kill_container", "apply", {"switch"}) => T \in mark
    BY DEF PolicyInv
  <1>d. \A t \in Targets : fault[t] \in Nat
    BY DEF PrimTypeOK
  <1>e. script \in Scripts
    BY DEF PrimTypeOK
  <1> USE <1>a, <1>b, <1>c, <1>d, <1>e DEF Stages, CoveredInv, In, Scripts, T, Runs, Started, Exit,
        Goto, Say, KeepBed, KeepFiles, Heal, Inject, InNetns
  <1>1. CASE CannotStart BY <1>1 DEF CannotStart
  <1>2. CASE KillApplySave BY <1>2 DEF KillApplySave
  <1>3. CASE KillApplyKill BY <1>3 DEF KillApplyKill
  <1>4. CASE KillRevertStart
    <2>1. UNCHANGED <<mark, backup>> /\ script'.target = T /\ script'.cmd = "revert"
      BY <1>4 DEF KillRevertStart
    <2>2. T.prim = "kill_container"
      BY <1>4 DEF KillRevertStart
    <2>3. CASE fault' = [fault EXCEPT ![T] = 0]
      BY <2>1, <2>2, <2>3
    <2>4. CASE UNCHANGED fault /\ script'.pc = "exited"
      BY <2>1, <2>2, <2>4
    <2>5. QED BY <1>4, <2>3, <2>4 DEF KillRevertStart
  <1>5. CASE KillRevertRestore BY <1>5 DEF KillRevertRestore
  <1>6. CASE KillRevertUnmark BY <1>6 DEF KillRevertUnmark
  <1>7. CASE KillProbe BY <1>7 DEF KillProbe
  <1>8. CASE DropApplyInsert BY <1>8 DEF DropApplyInsert
  <1>9. CASE DropRevertDelete BY <1>9 DEF DropRevertDelete
  <1>10. CASE DropRevertUnmark BY <1>10 DEF DropRevertUnmark
  <1>11. CASE DropProbe BY <1>11 DEF DropProbe
  <1>12. CASE DelayApplyInstall BY <1>12 DEF DelayApplyInstall
  <1>13. CASE DelayRevertDelete BY <1>13 DEF DelayRevertDelete
  <1>14. CASE DelayRevertUnmark BY <1>14 DEF DelayRevertUnmark
  <1>15. CASE DelayRevertCheck BY <1>15 DEF DelayRevertCheck
  <1>16. CASE DelayProbe BY <1>16 DEF DelayProbe
  <1>17. CASE ApplyMark BY <1>17 DEF ApplyMark
  <1>18. CASE FlagApplyBackup BY <1>18 DEF FlagApplyBackup
  <1>19. CASE FlagApplySwitch
    <2>1. UNCHANGED mark /\ script'.target = T /\ script'.cmd = "apply" /\ T.prim = "set_flag"
      BY <1>19 DEF FlagApplySwitch
    <2>2. T.svc \in backup /\ fault[T] = 0
      BY <1>19 DEF FlagApplySwitch
    <2>3. CASE fault' = [fault EXCEPT ![T] = 1] /\ script'.pc = "mark" /\ UNCHANGED backup
      BY <2>1, <2>2, <2>3
    <2>4. CASE UNCHANGED fault /\ script'.pc = "exited" /\ backup' = backup \ {T.svc}
      BY <2>1, <2>2, <2>4
    <2>5. QED BY <1>19, <2>3, <2>4 DEF FlagApplySwitch
  <1>20. CASE FlagRevertRestore BY <1>20 DEF FlagRevertRestore
  <1>21. CASE FlagRevertUnmark BY <1>21 DEF FlagRevertUnmark
  <1>22. CASE FlagProbe BY <1>22 DEF FlagProbe
  <1>23. QED
    BY <1>1, <1>2, <1>3, <1>4, <1>5, <1>6, <1>7, <1>8, <1>9, <1>10, <1>11, <1>12,
       <1>13, <1>14, <1>15, <1>16, <1>17, <1>18, <1>19, <1>20, <1>21, <1>22 DEF ScriptStep

\* No step of the runner disturbs what the scripts keep.
LEMMA PrimKept ==
  ASSUME TypeInv, PrimInv, [Next]_vars
  PROVE  PrimInv'
  <1>1. CASE RunScript
    BY <1>1, StagesKept, PolicyKept, CoveredKept DEF RunScript, PrimInv, TypeInv, RunnerTypeOK
  <1>2. CASE UNCHANGED vars
    BY <1>2 DEF vars, primVars, PrimInv, Stages, PolicyInv, CoveredInv, In, T
  <1>3. CASE Next /\ ~RunScript
    <2>1. UNCHANGED <<fault, restart, mark, saved, backup>>
      BY <1>3, RunnerSteps DEF KeepTestbed
    <2>2. UNCHANGED script \/ script'.pc \in {"none", "start"}
      BY <1>3, RunnerSteps DEF CallScript, Call
    <2>3. QED BY <2>1, <2>2 DEF PrimInv, Stages, PolicyInv, CoveredInv, In, T
  <1>4. QED BY <1>1, <1>2, <1>3

LEMMA InitPrim == Init => PrimInv
  BY DEF Init, PrimInit, PrimInv, Stages, PolicyInv, CoveredInv, In, T

LEMMA PrimInvariant == Spec => [](TypeInv /\ PrimInv)
  <1>1. TypeInv /\ PrimInv /\ [Next]_vars => (TypeInv /\ PrimInv)'
    BY NextTypes, PrimKept
  <1>2. QED BY <1>1, InitTypes, InitPrim, PTL DEF Spec

\* Whatever fails and wherever a batch is stopped, a service whose restart policy
\* was taken away has it in its state file.
THEOREM PolicyCanBeRestored == Spec => []RestartPolicyKept
  <1>1. TypeInv /\ PrimInv => RestartPolicyKept
    BY DEF PrimInv, PolicyInv, RestartPolicyKept, Kill, TypeInv, RunnerTypeOK, PrimTypeOK
  <1>2. QED BY <1>1, PrimInvariant, PTL

(* ------------------------------- residue ------------------------------- *)

\* What lets a fault go unaccounted for.
Excused(t) ==
    \/ stops > 0
    \/ t.prim = "drop_inbound" /\ "iptables" \in failed
    \/ t.prim = "delay_outbound" /\ "tc" \in failed
    \/ DropsTwice(t)

BadBooked == CardMode /\ \E r \in 1..Len(rows) : rows[r].bad

\* Where the cycle's own fault may be live.
Injecting ==
    \/ batch.pc \in {"probe", "undo", "failed", "end", "off"}
    \/ At("apply") /\ script.pc \notin {"none", "start"}
    \/ At("revert") /\ ~(script.pc = "exited" /\ script.rc = 0)
    \/ At("book") /\ batch.failed

\* The cycles whose apply has done something.
Entered == IF At("apply") /\ script.pc \in {"none", "start"} THEN batch.i - 1 ELSE batch.i

Marked(t) == t \in mark \/ (script.pc = "mark" /\ T = t)
Named(t)  == ~At("off") => \E k \in 1..Entered : Cycles[k] = t
Known(t)  == BadBooked \/ (Injecting /\ t = Target)
Single(t) == t.prim = "drop_inbound" => fault[t] = 1

Accounted(t) == Single(t) /\ Marked(t) /\ Named(t) /\ Known(t)

\* revert has done its work: it is past the command that heals, or said so.
Healed ==
    /\ script.cmd = "revert"
    /\ script.pc \in {"unmark", "check"} \/ (script.pc = "exited" /\ script.rc = 0)

\* The runner waits for the script it has called.
Called ==
    stops = 0 /\ script.pc # "none" =>
      batch.pc \in DOMAIN CmdOf /\ T = Target /\ script.cmd = CmdOf[batch.pc]

AccountInv ==
    /\ \A t \in Targets : fault[t] > 0 /\ ~Excused(t) => Accounted(t)
    /\ Healed /\ ~Excused(T) => fault[T] = 0
    /\ Called

BatchInv == TypeInv /\ PrimInv /\ AccountInv

LEMMA ExcusesStay ==
  ASSUME TypeInv, Next, NEW t, Excused(t)
  PROVE  Excused(t)'
  <1>1. batch'.plan = batch.plan
    BY BatchTypes
  <1>2. failed \subseteq failed' /\ stops' >= stops /\ stops \in Nat /\ stops' \in Nat
    <2>1. CASE RunScript
      <3>1. failed \subseteq failed'
        BY <2>1 DEF RunScript, ScriptStep, Works, Fails, CannotStart, KillApplySave, KillApplyKill, KillRevertStart, KillRevertRestore,
           KillRevertUnmark, KillProbe, DropApplyInsert, DropRevertDelete,
           DropRevertUnmark, DropProbe, DelayApplyInstall, DelayRevertDelete,
           DelayRevertUnmark, DelayRevertCheck, DelayProbe, ApplyMark, FlagApplyBackup,
           FlagApplySwitch, FlagRevertRestore, FlagRevertUnmark, FlagProbe
      <3>2. QED BY <2>1, <3>1, RunnerAssumption DEF RunScript, runnerVars, TypeInv, RunnerTypeOK
    <2>2. CASE ~RunScript
      BY <2>2, RunnerSteps
    <2>3. QED BY <2>1, <2>2
  <1>3. DropsTwice(t) => DropsTwice(t)'
    BY <1>1 DEF DropsTwice, CardMode, Cycles
  <1>4. QED BY <1>2, <1>3 DEF Excused

\* A command of a script touches its target, and heals what a kill takes along.
LEMMA ScriptReach ==
  ASSUME PrimTypeOK, ScriptStep
  PROVE  /\ script'.target = T /\ script'.cmd = script.cmd /\ script'.pc \notin {"none", "start"}
         /\ script.pc \notin {"none", "exited"}
         /\ \A t \in Targets \ {T} : (fault'[t] = fault[t] \/ fault'[t] = 0)
                                      /\ (t \in mark' <=> t \in mark)
  <1>a. T \in Targets /\ DOMAIN fault = Targets
    BY ScriptTarget DEF PrimTypeOK
  <1> USE <1>a DEF PrimTypeOK, Scripts, T, Runs, Started, Exit, Goto, Say, KeepBed, KeepFiles,
        Heal, Inject
  <1>1. CASE CannotStart BY <1>1 DEF CannotStart
  <1>2. CASE KillApplySave BY <1>2 DEF KillApplySave
  <1>3. CASE KillApplyKill
    <2>1. UNCHANGED mark /\ script'.target = T /\ script'.cmd = "apply" /\ script'.pc = "exited"
          /\ script.cmd = "apply" /\ script.pc = "switch"
      BY <1>3 DEF KillApplyKill
    <2>2. \A t \in Targets \ {T} : fault'[t] = fault[t] \/ fault'[t] = 0
      BY <1>3 DEF KillApplyKill
    <2>3. QED BY <2>1, <2>2
  <1>4. CASE KillRevertStart BY <1>4 DEF KillRevertStart
  <1>5. CASE KillRevertRestore BY <1>5 DEF KillRevertRestore
  <1>6. CASE KillRevertUnmark BY <1>6 DEF KillRevertUnmark
  <1>7. CASE KillProbe BY <1>7 DEF KillProbe
  <1>8. CASE DropApplyInsert BY <1>8 DEF DropApplyInsert
  <1>9. CASE DropRevertDelete BY <1>9 DEF DropRevertDelete
  <1>10. CASE DropRevertUnmark BY <1>10 DEF DropRevertUnmark
  <1>11. CASE DropProbe BY <1>11 DEF DropProbe
  <1>12. CASE DelayApplyInstall BY <1>12 DEF DelayApplyInstall
  <1>13. CASE DelayRevertDelete BY <1>13 DEF DelayRevertDelete
  <1>14. CASE DelayRevertUnmark BY <1>14 DEF DelayRevertUnmark
  <1>15. CASE DelayRevertCheck BY <1>15 DEF DelayRevertCheck
  <1>16. CASE DelayProbe BY <1>16 DEF DelayProbe
  <1>17. CASE ApplyMark BY <1>17 DEF ApplyMark
  <1>18. CASE FlagApplyBackup BY <1>18 DEF FlagApplyBackup
  <1>19. CASE FlagApplySwitch BY <1>19 DEF FlagApplySwitch
  <1>20. CASE FlagRevertRestore BY <1>20 DEF FlagRevertRestore
  <1>21. CASE FlagRevertUnmark BY <1>21 DEF FlagRevertUnmark
  <1>22. CASE FlagProbe BY <1>22 DEF FlagProbe
  <1>23. QED
    BY <1>1, <1>2, <1>3, <1>4, <1>5, <1>6, <1>7, <1>8, <1>9, <1>10, <1>11, <1>12,
       <1>13, <1>14, <1>15, <1>16, <1>17, <1>18, <1>19, <1>20, <1>21, <1>22 DEF ScriptStep

\* Of its own target: what is live is marked or about to be, after a revert nothing.
LEMMA ScriptAccounts ==
  ASSUME TypeInv, PrimInv, AccountInv, RunScript, ~Excused(T), ~Excused(T)'
  PROVE  /\ fault'[T] > 0 => /\ T.prim = "drop_inbound" => fault'[T] = 1
                             /\ T \in mark' \/ script'.pc = "mark"
                             /\ fault[T] > 0 \/ script.cmd = "apply"
         /\ Healed' => fault'[T] = 0
  <1>a. T \in Targets /\ fault[T] \in Nat /\ DOMAIN fault = Targets /\ ScriptStep
    BY ScriptTarget DEF RunScript, TypeInv, RunnerTypeOK, PrimTypeOK
  <1>b. T' = T
    BY <1>a, ScriptReach DEF TypeInv, RunnerTypeOK, T
  <1>c. fault[T] > 0 => /\ T.prim = "drop_inbound" => fault[T] = 1
                        /\ T \in mark \/ script.pc = "mark"
    BY <1>a DEF AccountInv, Accounted, Single, Marked
  <1>d. Started("drop_inbound", "apply") => fault[T] = 0
    <2> SUFFICES ASSUME Started("drop_inbound", "apply"), fault[T] > 0 PROVE FALSE
      BY <1>a
    <2>1. T.prim = "drop_inbound" /\ script.cmd = "apply" /\ script.pc = "start"
      BY DEF Started, Runs
    <2>2. stops = 0 /\ batch \in Batches
      BY RunnerAssumption DEF Excused, TypeInv, RunnerTypeOK
    <2>3. At("apply") /\ T = Target
      BY <2>1, <2>2 DEF AccountInv, Called, CmdOf, At
    <2>4. BadBooked /\ Named(T)
      BY <1>a, <2>1, <2>3 DEF AccountInv, Accounted, Known, Injecting, At
    <2>5. PICK k \in 1..(batch.i - 1) : Cycles[k] = T
      BY <2>1, <2>3, <2>4 DEF Named, Entered, At
    <2>6. batch.i >= 1 /\ batch.i \in Cards
      BY <2>3, TargetTypes DEF TypeInv, InCycle, At
    <2>7. k \in DOMAIN Cycles /\ k < batch.i /\ Cycles[batch.i] = T /\ CardMode
      BY <2>2, <2>3, <2>4, <2>5, <2>6, PlanTypes DEF Target, BadBooked, Batches, Cards
    <2>8. DropsTwice(T)
      <3>1. batch.i \in DOMAIN Cycles
        BY <2>6 DEF Cards
      <3>2. Cycles[k] = T
        BY <2>5
      <3>3. QED BY <2>1, <2>7, <3>1, <3>2 DEF DropsTwice
    <2>9. QED BY <2>8 DEF Excused
  <1>e. /\ In("kill_container", "apply", {"switch"}) => T \in mark
        /\ In("kill_container", "revert", {"unmark", "check"}) => fault[T] = 0
        /\ script.pc \in {"unmark", "check"} => script.cmd = "revert"
        /\ script.pc \in {"switch", "mark"} => script.cmd = "apply"
        /\ Healed => fault[T] = 0
    BY DEF PrimInv, Stages, PolicyInv, CoveredInv, AccountInv
  <1>f. /\ T.prim = "drop_inbound" => "iptables" \notin failed'
        /\ T.prim = "delay_outbound" => "tc" \notin failed'
    BY <1>b DEF Excused
  <1>g. script \in Scripts
    BY DEF TypeInv, RunnerTypeOK, PrimTypeOK
  <1>h. script'.cmd = script.cmd
    BY <1>a, ScriptReach DEF TypeInv, RunnerTypeOK
  <1> USE <1>a, <1>c, <1>d, <1>e, <1>f, <1>g, <1>h DEF Healed, In, Scripts, T, Runs, Started, Exit, Goto, Say, KeepBed,
        KeepFiles, Heal, Inject, Fails
  <1>1. CASE CannotStart BY <1>1 DEF CannotStart
  <1>2. CASE KillApplySave BY <1>2 DEF KillApplySave
  <1>3. CASE KillApplyKill BY <1>3 DEF KillApplyKill
  <1>4. CASE KillRevertStart
    <2>1. script.cmd = "revert" /\ script.pc = "start" /\ UNCHANGED mark
      BY <1>4 DEF KillRevertStart
    <2>2. CASE fault' = [fault EXCEPT ![T] = 0]
      BY <2>1, <2>2
    <2>3. CASE UNCHANGED fault /\ script'.pc = "exited" /\ script'.rc = 1
      BY <2>1, <2>3
    <2>4. QED BY <1>4, <2>2, <2>3 DEF KillRevertStart
  <1>5. CASE KillRevertRestore BY <1>5 DEF KillRevertRestore
  <1>6. CASE KillRevertUnmark BY <1>6 DEF KillRevertUnmark
  <1>7. CASE KillProbe BY <1>7 DEF KillProbe
  <1>8. CASE DropApplyInsert BY <1>8 DEF DropApplyInsert
  <1>9. CASE DropRevertDelete BY <1>9 DEF DropRevertDelete
  <1>10. CASE DropRevertUnmark BY <1>10 DEF DropRevertUnmark
  <1>11. CASE DropProbe BY <1>11 DEF DropProbe
  <1>12. CASE DelayApplyInstall BY <1>12 DEF DelayApplyInstall
  <1>13. CASE DelayRevertDelete BY <1>13 DEF DelayRevertDelete
  <1>14. CASE DelayRevertUnmark BY <1>14 DEF DelayRevertUnmark
  <1>15. CASE DelayRevertCheck BY <1>15 DEF DelayRevertCheck
  <1>16. CASE DelayProbe BY <1>16 DEF DelayProbe
  <1>17. CASE ApplyMark BY <1>17 DEF ApplyMark
  <1>18. CASE FlagApplyBackup BY <1>18 DEF FlagApplyBackup
  <1>19. CASE FlagApplySwitch BY <1>19 DEF FlagApplySwitch
  <1>20. CASE FlagRevertRestore
    <2>1. script.cmd = "revert" /\ script.pc = "start" /\ UNCHANGED mark
      BY <1>20 DEF FlagRevertRestore
    <2>2. CASE fault' = [fault EXCEPT ![T] = 0]
      BY <2>1, <2>2
    <2>3. CASE UNCHANGED fault /\ script'.pc = "exited" /\ script'.rc = 1
      BY <2>1, <2>3
    <2>4. CASE UNCHANGED fault /\ T \notin mark
      BY <2>1, <2>4
    <2>5. QED BY <1>20, <2>2, <2>3, <2>4 DEF FlagRevertRestore
  <1>21. CASE FlagRevertUnmark BY <1>21 DEF FlagRevertUnmark
  <1>22. CASE FlagProbe BY <1>22 DEF FlagProbe
  <1>23. QED
    BY <1>1, <1>2, <1>3, <1>4, <1>5, <1>6, <1>7, <1>8, <1>9, <1>10, <1>11, <1>12,
       <1>13, <1>14, <1>15, <1>16, <1>17, <1>18, <1>19, <1>20, <1>21, <1>22 DEF ScriptStep

LEMMA AccountScript ==
  ASSUME TypeInv, PrimInv, AccountInv, RunScript
  PROVE  AccountInv'
  <1>1. /\ script'.target = T /\ T' = T /\ script'.cmd = script.cmd /\ ScriptStep
        /\ script'.pc \notin {"none", "start"} /\ script.pc # "none"
        /\ \A t \in Targets \ {T} : (fault'[t] = fault[t] \/ fault'[t] = 0)
                                     /\ (t \in mark' <=> t \in mark)
    BY ScriptReach DEF RunScript, TypeInv, RunnerTypeOK, T
  <1>2. /\ UNCHANGED <<batch, rows, stops>> /\ Next
        /\ batch \in Batches /\ fault \in [Targets -> Nat]
    BY DEF RunScript, runnerVars, Next, TypeInv, RunnerTypeOK, PrimTypeOK
  <1>3. Called'
    BY <1>1, <1>2 DEF AccountInv, Called, T, Target, Cycles
  <1>4. ASSUME Healed', ~Excused(T)' PROVE fault'[T] = 0
    BY <1>1, <1>2, <1>4, ExcusesStay, ScriptAccounts
  <1>5. ASSUME NEW t \in Targets, fault'[t] > 0, ~Excused(t)'
        PROVE  Accounted(t)'
    <2>1. ~Excused(t) /\ stops = 0
      BY <1>2, <1>5, ExcusesStay, RunnerAssumption DEF Excused, TypeInv, RunnerTypeOK
    <2>2. /\ batch.pc \in DOMAIN CmdOf /\ T = Target /\ script.cmd = CmdOf[batch.pc]
          /\ batch.pc \in {"apply", "undo", "probe", "revert", "reprobe"}
      BY <1>1, <2>1 DEF AccountInv, Called, CmdOf
    <2>3. batch.i >= 1 /\ batch.i \in Nat /\ Entered' = batch.i
      BY <1>1, <1>2, <2>2 DEF TypeInv, InCycle, Batches, Entered
    <2>4. CASE t # T
      <3>1. fault'[t] = fault[t] /\ fault[t] > 0 /\ (t \in mark' <=> t \in mark)
        BY <1>1, <1>5, <2>4
      <3>2. Accounted(t)
        BY <2>1, <3>1 DEF AccountInv
      <3>3. Single(t)' /\ Marked(t)'
        BY <2>4, <3>1, <3>2 DEF Accounted, Single, Marked
      <3>4. Named(t)'
        <4>1. PICK k \in 1..Entered : Cycles[k] = t
          BY <2>2, <3>2 DEF Accounted, Named, At
        <4>2. k \in 1..batch.i
          BY <2>3, <4>1 DEF Entered
        <4>3. QED BY <1>2, <2>3, <4>1, <4>2 DEF Named, Cycles
      <3>5. BadBooked
        BY <2>2, <2>4, <3>2 DEF Accounted, Known
      <3>6. QED BY <1>2, <3>3, <3>4, <3>5 DEF Accounted, Known, BadBooked, CardMode
    <2>5. CASE t = T
      <3>1. /\ T.prim = "drop_inbound" => fault'[T] = 1
            /\ T \in mark' \/ script'.pc = "mark"
            /\ fault[T] > 0 \/ script.cmd = "apply"
            /\ ~Healed'
        <4>1. ~Excused(T)'
          BY <1>1, <1>5, <2>5 DEF Excused, DropsTwice
        <4>2. QED BY <1>5, <2>1, <2>5, <4>1, ScriptAccounts
      <3>2. Single(t)' /\ Marked(t)'
        BY <1>1, <2>5, <3>1 DEF Single, Marked
      <3>3. Named(t)'
        <4>1. batch.i \in 1..batch.i /\ Cycles[batch.i] = t
          BY <2>2, <2>3, <2>5 DEF Target
        <4>2. QED BY <1>2, <2>3, <4>1 DEF Named, Cycles
      <3>4. CASE batch.pc = "reprobe"
        <4>1. fault[T] > 0
          BY <2>2, <3>1, <3>4 DEF CmdOf
        <4>2. Known(T)
          BY <2>1, <2>5, <4>1 DEF AccountInv, Accounted
        <4>3. BadBooked
          BY <3>4, <4>2 DEF Known, Injecting, At
        <4>4. QED BY <1>2, <3>2, <3>3, <4>3 DEF Accounted, Known, BadBooked, CardMode
      <3>5. CASE batch.pc # "reprobe"
        <4>1. Injecting'
          BY <1>1, <1>2, <2>2, <3>1, <3>5 DEF Injecting, Healed, At, CmdOf
        <4>2. t = Target'
          BY <1>2, <2>2, <2>5 DEF Target, Cycles
        <4>3. QED BY <3>2, <3>3, <4>1, <4>2 DEF Accounted, Known
      <3>6. QED BY <3>4, <3>5
    <2>6. QED BY <2>4, <2>5
  <1>6. QED BY <1>1, <1>3, <1>4, <1>5 DEF AccountInv

\* Unless it is stopped, the runner acts when no script is running.
LEMMA RunnerWaits ==
  ASSUME TypeInv, AccountInv, Next, ~RunScript, stops' = 0
  PROVE  /\ stops = 0 /\ ~Stop /\ script.pc \in {"none", "exited"}
         /\ CallScript \/ script'.pc = "none"
  <1>1. stops = 0 /\ ~Stop
    BY RunnerSteps DEF Stop
  <1>2. batch.pc \notin DOMAIN CmdOf => script.pc = "none"
    BY <1>1 DEF AccountInv, Called
  <1>3. Collect => script'.pc = "none"
    BY DEF Collect, TypeInv, RunnerTypeOK, PrimTypeOK, Scripts
  <1>4. CASE CallScript
    BY <1>1, <1>4 DEF CallScript
  <1>5. CASE StartBatch \/ Applied \/ Undone \/ Probed \/ Reverted \/ Reprobed
    BY <1>1, <1>3, <1>5 DEF StartBatch, Applied, Undone, Probed, Reverted, Reprobed, Returns
  <1>6. CASE Harvest
    <2>1. At("harvest") /\ UNCHANGED script
      BY <1>6, Zenon DEF Harvest, NoScript
    <2>2. QED BY <1>1, <1>2, <2>1 DEF At, CmdOf
  <1>7. CASE \/ StartCycle \/ Snapshot \/ CheckResidue \/ Gate \/ Fail \/ Pack \/ Detect
             \/ Save \/ View \/ SavePacked \/ Book \/ EndBatch
    BY <1>1, <1>2, <1>7 DEF StartCycle, Snapshot, CheckResidue, Gate, Fail, Pack, Detect, Save, View,
       SavePacked, Book, EndBatch, NoScript, At, CmdOf
  <1>8. QED BY <1>1, <1>4, <1>5, <1>6, <1>7 DEF Next

\* A batch does not start over an unexcused fault.
LEMMA StartsClean ==
  ASSUME TypeInv, AccountInv, StartBatch, stops = 0, NEW t \in Targets, fault[t] > 0
  PROVE  Excused(t)
  BY DEF AccountInv, Accounted, Marked, StartBatch, MayStart, StateFiles

LEMMA NamedKept ==
  ASSUME TypeInv, AccountInv, Next, ~RunScript, stops' = 0, NEW t \in Targets,
         fault[t] > 0, ~Excused(t)
  PROVE  Named(t)'
  <1>1. Named(t)
    BY DEF AccountInv, Accounted
  <1>2. stops = 0 /\ ~Stop /\ batch \in Batches /\ batch' \in Batches /\ Cycles' = Cycles
        /\ script \in Scripts /\ ~StartBatch
    BY RunnerWaits, BatchTypes, StartsClean DEF TypeInv, RunnerTypeOK, PrimTypeOK, Cycles
  <1>3. CASE EndBatch
    BY <1>2, <1>3 DEF EndBatch, Named, At, To, Batches
  <1>4. ASSUME ~EndBatch PROVE ~At("off") /\ Entered' >= Entered
    <2>1. CASE StartCycle
      <3>1. At("next") /\ script.pc = "none" /\ UNCHANGED script
        BY <1>2, <2>1 DEF StartCycle, NoScript, AccountInv, Called, At, CmdOf
      <3>2. \/ batch'.pc = "apply" /\ batch'.i = batch.i + 1
            \/ batch'.pc = "end" /\ batch'.i = batch.i
        BY <1>2, <2>1 DEF StartCycle, Batches
      <3>3. QED BY <1>2, <3>1, <3>2 DEF Entered, At, Batches
    <2>2. CASE CallScript
      BY <1>2, <2>2 DEF CallScript, Call, Entered, At, Scripts, runnerVars, Batches, CmdOf
    <2>3. CASE Harvest
      <3>1. At("harvest") /\ batch'.i = batch.i /\ batch'.pc # "apply"
        BY <1>2, <2>3 DEF Harvest, To, At, Batches
      <3>2. QED BY <1>2, <3>1 DEF Entered, At, Batches
    <2>4. CASE \/ Applied \/ Undone \/ Probed \/ Reverted \/ Snapshot \/ Reprobed \/ CheckResidue
               \/ Gate \/ Fail \/ Pack \/ Detect \/ Save \/ View \/ SavePacked \/ Book
      <3>1. batch.pc # "off" /\ batch'.i = batch.i /\ batch'.pc # "apply"
        BY <1>2, <2>4 DEF Applied, Undone, Probed, Reverted, Snapshot, Reprobed, CheckResidue, Gate, Fail,
           Pack, Detect, Save, View, SavePacked, Book, To, At, Batches
      <3>2. QED BY <1>2, <3>1 DEF Entered, At, Batches
    <2>5. QED BY <1>2, <1>4, <2>1, <2>2, <2>3, <2>4 DEF Next
  <1>5. CASE ~EndBatch
    <2>1. PICK k \in 1..Entered : Cycles[k] = t
      BY <1>1, <1>4, <1>5 DEF Named
    <2>2. k \in 1..Entered'
      BY <1>2, <1>4, <1>5, <2>1 DEF Entered, Batches
    <2>3. QED BY <1>2, <2>1, <2>2 DEF Named
  <1>6. QED BY <1>3, <1>5

LEMMA KnownKept ==
  ASSUME TypeInv, AccountInv, Next, ~RunScript, stops' = 0, NEW t \in Targets,
         fault[t] > 0, ~Excused(t)
  PROVE  Known(t)'
  <1>1. Known(t)
    BY DEF AccountInv, Accounted
  <1>2. /\ stops = 0 /\ ~Stop /\ batch \in Batches /\ batch' \in Batches /\ rows \in Seq(Rows)
        /\ batch'.plan = batch.plan /\ script \in Scripts /\ ~StartBatch
    BY RunnerWaits, BatchTypes, StartsClean DEF TypeInv, RunnerTypeOK, PrimTypeOK
  <1>3. CardMode' = CardMode /\ Cycles' = Cycles
    BY <1>2 DEF CardMode, Cycles
  <1>4. CASE Book
    <2>1. rows' = Append(rows, Row) /\ Len(rows') = Len(rows) + 1 /\ Len(rows) \in Nat
          /\ rows'[Len(rows) + 1] = Row /\ \A r \in 1..Len(rows) : rows'[r] = rows[r]
      BY <1>2, <1>4, LenProperties, AppendProperties DEF Book
    <2>2. CASE BadBooked
      BY <1>3, <2>1, <2>2 DEF BadBooked, Known
    <2>3. CASE ~BadBooked
      <3>1. batch.failed /\ t = Target
        BY <1>1, <1>4, <2>3 DEF Known, Injecting, Book, At
      <3>2. CASE CardMode
        <4>1. rows'[Len(rows) + 1].bad
          <5>1. Row.bad
            BY <3>1 DEF Row
          <5>2. QED BY <2>1, <5>1
        <4>2. QED BY <1>3, <2>1, <3>2, <4>1 DEF BadBooked, Known
      <3>3. CASE ~CardMode
        <4>1. batch'.pc = "end" /\ batch'.i = batch.i
          BY <1>2, <1>4, <3>1, <3>3 DEF Book, Stops, Batches
        <4>2. QED BY <1>3, <3>1, <4>1 DEF Known, Injecting, Target
      <3>4. QED BY <3>2, <3>3
    <2>4. QED BY <2>2, <2>3
  <1>5. ASSUME ~Book, BadBooked PROVE BadBooked'
    <2>1. rows' = rows
      BY <1>2, <1>5 DEF Next, StartCycle, CallScript, RunScript, runnerVars, Applied, Undone, Probed, Reverted,
         Snapshot, Reprobed, CheckResidue, Harvest, Gate, Fail, Pack, Detect, Save, View, SavePacked,
         EndBatch, KeepBooks
    <2>2. QED BY <1>3, <1>5, <2>1 DEF BadBooked
  <1>6. CASE ~Book /\ ~BadBooked
    <2>1. Injecting /\ t = Target
      BY <1>1, <1>6 DEF Known
    <2>2. batch'.i = batch.i /\ Injecting'
      <3> USE <1>2, <2>1 DEF Injecting, At, Batches
      <3>1. CASE CallScript
        BY <3>1 DEF CallScript, Call, runnerVars, Scripts
      <3>2. CASE Applied \/ Undone
        BY <3>2 DEF Applied, Undone, To
      <3>3. CASE Probed
        <4>1. Collect
          BY <3>3 DEF Probed, Returns
        <4>2. script'.pc = "none"
          BY <4>1 DEF Collect, Scripts
        <4>3. QED BY <3>3, <4>2 DEF Probed
      <3>4. CASE Reverted
        <4>1. script.pc = "exited" /\ script.rc # 0
          BY <3>4 DEF Reverted, Returns
        <4>2. QED BY <3>4, <4>1 DEF Reverted, RevertFailed, To
      <3>5. CASE Fail
        BY <3>5 DEF Fail
      <3>6. CASE EndBatch
        BY <3>6 DEF EndBatch, To
      <3>7. CASE Harvest
        BY <3>7 DEF Harvest
      <3>8. CASE \/ StartCycle \/ Snapshot \/ Reprobed \/ CheckResidue \/ Gate \/ Pack \/ Detect
                 \/ Save \/ View \/ SavePacked
        BY <3>8 DEF StartCycle, Snapshot, Reprobed, CheckResidue, Gate, Pack, Detect, Save, View, SavePacked
      <3>9. QED BY <1>6, <3>1, <3>2, <3>3, <3>4, <3>5, <3>6, <3>7, <3>8 DEF Next
    <2>3. QED BY <1>3, <2>1, <2>2 DEF Known, Target
  <1>7. QED BY <1>4, <1>5, <1>6 DEF Known

LEMMA AccountRunner ==
  ASSUME TypeInv, AccountInv, Next, ~RunScript
  PROVE  AccountInv'
  <1>1. UNCHANGED <<fault, mark>> /\ script \in Scripts /\ stops \in Nat /\ stops' \in Nat
        /\ stops' >= stops
    BY RunnerSteps DEF KeepTestbed, TypeInv, RunnerTypeOK, PrimTypeOK
  <1>2. ASSUME NEW t \in Targets, fault'[t] > 0, ~Excused(t)' PROVE Accounted(t)'
    <2>1. ~Excused(t) /\ stops' = 0 /\ fault[t] > 0
      BY <1>1, <1>2, ExcusesStay DEF Excused
    <2>2. Accounted(t) /\ script.pc # "mark"
      BY <2>1, RunnerWaits DEF AccountInv
    <2>3. Single(t)' /\ Marked(t)'
      BY <1>1, <2>2 DEF Accounted, Single, Marked
    <2>4. QED BY <2>1, <2>3, NamedKept, KnownKept DEF Accounted
  <1>3. ASSUME Healed', ~Excused(T)' PROVE (fault[T])' = 0
    <2>1. UNCHANGED script
      BY <1>3, RunnerSteps DEF Healed, CallScript, Call
    <2>2. T' = T /\ Healed /\ fault'[T'] = fault[T]
      BY <1>1, <1>3, <2>1 DEF T, Healed
    <2>3. ~Excused(T)
      <3>1. Excused(T) => Excused(T)'
        <4>1. ASSUME NEW t, t = T, Excused(t) PROVE Excused(T)'
          <5>1. Excused(t)'
            BY <4>1, ExcusesStay
          <5>2. QED BY <2>2, <4>1, <5>1 DEF Excused, DropsTwice
        <4>2. QED BY <4>1
      <3>2. QED BY <1>3, <3>1
    <2>4. QED BY <2>2, <2>3 DEF AccountInv
  <1>4. Called'
    <2>1. CASE stops' = 0 /\ CallScript
      BY <2>1 DEF CallScript, Call, runnerVars, Called, T, Target, Cycles
    <2>2. CASE ~(stops' = 0 /\ CallScript)
      BY <2>2, RunnerWaits DEF Called
    <2>3. QED BY <2>1, <2>2
  <1>5. QED BY <1>2, <1>3, <1>4 DEF AccountInv

LEMMA NextBatch == BatchInv /\ [Next]_vars => BatchInv'
  <1> SUFFICES ASSUME BatchInv, [Next]_vars PROVE BatchInv'
    OBVIOUS
  <1>1. TypeInv /\ PrimInv /\ AccountInv
    BY DEF BatchInv
  <1>2. AccountInv'
    <2>1. CASE UNCHANGED vars
      BY <1>1, <2>1 DEF vars, primVars, runnerVars, AccountInv, Accounted, Excused, DropsTwice, CardMode,
         Cycles, Single, Marked, Named, Known, Entered, Injecting, BadBooked, Target, At, Healed, Called, T
    <2>2. CASE RunScript
      BY <1>1, <2>2, AccountScript
    <2>3. CASE Next /\ ~RunScript
      BY <1>1, <2>3, AccountRunner
    <2>4. QED BY <2>1, <2>2, <2>3
  <1>3. QED BY <1>1, <1>2, NextTypes, PrimKept DEF BatchInv

LEMMA InitBatch == Init => BatchInv
  <1> SUFFICES ASSUME Init PROVE BatchInv
    OBVIOUS
  <1>1. AccountInv
    BY DEF Init, PrimInit, AccountInv, Healed, Called
  <1>2. QED BY <1>1, InitTypes, InitPrim DEF BatchInv

LEMMA BatchInvariant == Spec => []BatchInv
  BY InitBatch, NextBatch, PTL DEF Spec

\* A fault that is left when no batch and no script runs has a state file, but for
\* a stop, a failure of iptables or tc, and rules that two cards have added.
THEOREM ResidueIsMarked == Spec => []NoSilentResidue
  <1>1. BatchInv => NoSilentResidue
    <2> SUFFICES ASSUME BatchInv, Quiet, NEW t \in Targets, fault[t] > 0
                 PROVE  \/ t \in mark \/ t.svc \in backup
                        \/ t.prim = "drop_inbound" /\ (stops > 0 \/ "iptables" \in failed)
                        \/ DropsTwice(t)
                        \/ t.prim = "delay_outbound" /\ (stops > 0 \/ "tc" \in failed)
      BY DEF NoSilentResidue, Live
    <2>1. t.prim \in Prims /\ stops \in Nat
      BY RunnerAssumption DEF Targets, BatchInv, TypeInv, RunnerTypeOK
    <2>2. t.prim = "kill_container" => t \in mark
      BY DEF BatchInv, PrimInv, CoveredInv
    <2>3. t.prim = "set_flag" => t \in mark \/ t.svc \in backup
      BY DEF BatchInv, PrimInv, CoveredInv
    <2>4. ~Excused(t) => t \in mark
      BY DEF BatchInv, AccountInv, Accounted, Marked, Quiet
    <2>5. QED BY <2>1, <2>2, <2>3, <2>4 DEF Excused, Prims
  <1>2. QED BY <1>1, BatchInvariant, PTL

\* While iptables and tc work and nobody stops a batch, two faults are live at once
\* only in a batch of cards, and its books say so or two cards have added rules.
THEOREM NeverTwoFaults == Spec => []OneFault
  <1>1. BatchInv => OneFault
    <2> SUFFICES ASSUME BatchInv, stops = 0, NetworkToolsWork, Cardinality(Live) > 1,
                        ~(CardMode /\ \E t \in Live : DropsTwice(t))
                 PROVE  BadBooked
      BY DEF OneFault, BadBooked
    <2>1. \A t \in Live : ~Excused(t) /\ t \in Targets /\ fault[t] > 0
      BY DEF Excused, NetworkToolsWork, Live, DropsTwice
    <2>2. \A t \in Live : BadBooked \/ t = Target
      BY <2>1 DEF BatchInv, AccountInv, Accounted, Known
    <2>3. ASSUME ~BadBooked PROVE FALSE
      <3>1. Live \subseteq {Target}
        BY <2>2, <2>3
      <3>2. Cardinality({Target}) = 1 /\ IsFiniteSet({Target})
        BY FS_Singleton
      <3>3. Cardinality(Live) <= 1
        BY <3>1, <3>2, FS_Subset
      <3>4. Cardinality(Live) \in Nat
        BY <3>1, <3>2, FS_Subset, FS_CardinalityType
      <3>5. QED BY <3>3, <3>4
    <2>4. QED BY <2>3
  <1>2. QED BY <1>1, BatchInvariant, PTL

(* ------------------------------ the books ------------------------------ *)

Unbooked == batch.pc \in {"apply", "undo", "probe", "revert", "reprobe", "snapshot", "residue",
                          "harvest", "failed", "gate", "pack", "alerts", "save"}

RowsInv ==
    /\ ~At("off") => batch.n >= 1
    /\ Len(rows) <= batch.i
    /\ At("next") => Len(rows) = batch.i
    /\ InCycle => Len(rows) = batch.i - 1
    /\ InCycle /\ ~At("book") => ~batch.failed
    /\ batch.pc \in {"gate", "pack", "alerts", "save", "view", "saved"} => CardMode

\* The card of the cycle is as its row will say.
AgreesWithRow ==
    /\ production[batch.i].batch = batch.n
    /\ production[batch.i].verdict = (IF Row.bad THEN "failed" ELSE "passed")
    /\ production[batch.i].packed = ~Row.bad

CardInv ==
    /\ At("book") /\ CardMode => AgreesWithRow
    /\ CardsBooked

PackInv ==
    /\ \A c \in Cards :
         /\ production[c].batch <= batch.n
         /\ production[c].batch = batch.n /\ batch.n >= 1 => c <= batch.i
         /\ production[c].packed => production[c].verdict = "passed" /\ production[c].batch >= 1
    /\ Unbooked => production[batch.i].batch < batch.n
    /\ At("view") => ~production[batch.i].packed
    /\ batch.pc \in {"alerts", "save", "view", "saved"} => evidence[batch.i]["pack"] = batch.n
    /\ batch.pc \in {"save", "view", "saved"} => evidence[batch.i]["alerts"] = batch.n
    /\ At("saved") => evidence[batch.i]["view"] = batch.n
    /\ PackedIsWhole

BookInv == TypeInv /\ RowsInv /\ CardInv /\ PackInv

LEMMA RowsKept ==
  ASSUME TypeInv, RowsInv, Next
  PROVE  RowsInv'
  <1>1. /\ batch \in Batches /\ batch' \in Batches /\ batch'.plan = batch.plan /\ rows \in Seq(Rows)
        /\ Len(rows) \in Nat /\ batch.i \in Nat /\ batch.n \in Nat /\ MaxBatches \in Nat
    BY BatchTypes, LenProperties, RunnerAssumption DEF TypeInv, RunnerTypeOK, Batches
  <1>2. CardMode' = CardMode
    BY <1>1 DEF CardMode
  <1> USE <1>1, <1>2 DEF RowsInv, At, To, InCycle, Batches
  <1>3. CASE StartBatch BY <1>3 DEF StartBatch
  <1>4. CASE StartCycle BY <1>4 DEF StartCycle, KeepBooks
  <1>5. CASE Book
    <2>1. Len(rows') = Len(rows) + 1
      BY <1>5, LenProperties, AppendProperties DEF Book
    <2>2. QED BY <1>5, <2>1 DEF Book
  <1>6. CASE Harvest BY <1>6 DEF Harvest, KeepBooks
  <1>7. CASE CallScript \/ RunScript
    BY <1>7 DEF CallScript, RunScript, runnerVars
  <1>8. CASE Applied \/ Undone \/ Probed \/ Reverted \/ Snapshot \/ Reprobed \/ CheckResidue
    BY <1>8 DEF Applied, Undone, Probed, Reverted, Snapshot, Reprobed, CheckResidue, KeepBooks
  <1>9. CASE Gate \/ Fail \/ Pack \/ Detect \/ Save \/ View \/ SavePacked
    BY <1>9 DEF Gate, Fail, Pack, Detect, Save, View, SavePacked
  <1>10. CASE EndBatch \/ Stop BY <1>10 DEF EndBatch, Stop, KeepBooks
  <1>11. QED BY <1>3, <1>4, <1>5, <1>6, <1>7, <1>8, <1>9, <1>10 DEF Next

LEMMA CardKept ==
  ASSUME BookInv, Next
  PROVE  CardInv'
  <1>1. /\ batch \in Batches /\ batch' \in Batches /\ batch'.plan = batch.plan /\ rows \in Seq(Rows)
        /\ Len(rows) \in Nat /\ production \in [Cards -> Books] /\ TypeInv /\ RowsInv /\ CardInv
        /\ Cards = 1..Len(Cycles) /\ Len(Cycles) \in Nat /\ batch.i \in Nat
    BY BatchTypes, PlanTypes, LenProperties DEF BookInv, TypeInv, RunnerTypeOK, Batches
  <1>2. CardMode' = CardMode
    BY <1>1 DEF CardMode
  <1>3. InCycle => batch.i \in Cards
    BY <1>1, TargetTypes DEF TypeInv
  <1>5. ASSUME InCycle, UNCHANGED rows, batch'.n = batch.n,
               \A c \in Cards \ {batch.i} : production'[c] = production[c]
        PROVE  CardsBooked'
    <2>1. \A c \in 1..Len(rows) : c \in Cards \ {batch.i}
      BY <1>1, <1>3, <1>5 DEF RowsInv
    <2>2. QED BY <1>1, <1>2, <1>5, <2>1 DEF CardInv, CardsBooked
  <1>6. CASE StartBatch
    <2>1. Len(rows') = 0 /\ batch'.pc = "next"
      BY <1>1, <1>6 DEF StartBatch, Batches
    <2>2. QED BY <2>1 DEF CardInv, CardsBooked, At
  <1>7. CASE Book
    <2>1. /\ rows' = Append(rows, Row) /\ Len(rows') = Len(rows) + 1 /\ rows'[Len(rows) + 1] = Row
          /\ \A r \in 1..Len(rows) : rows'[r] = rows[r]
      BY <1>1, <1>7, LenProperties, AppendProperties DEF Book
    <2>2. /\ batch'.pc # "book" /\ batch'.n = batch.n /\ UNCHANGED production
          /\ batch.i = Len(rows) + 1 /\ At("book")
      BY <1>1, <1>7 DEF Book, Batches, RowsInv, InCycle, At
    <2>3. CardMode => AgreesWithRow
      BY <1>1, <2>2 DEF CardInv
    <2>4. QED BY <1>1, <1>2, <2>1, <2>2, <2>3 DEF CardInv, CardsBooked, AgreesWithRow, At
  <1>8. CASE Gate
    <2>1. InCycle /\ UNCHANGED rows /\ At("gate") /\ CardMode /\ ~batch.failed
      BY <1>1, <1>8 DEF Gate, InCycle, At, RowsInv
    <2>2. CASE Admits
      BY <1>1, <1>2, <1>5, <1>8, <2>1, <2>2 DEF Gate, To, CardInv, At, Batches
    <2>3. CASE ~Admits
      <3>1. production' = Booked("failed", FALSE) /\ batch' = [batch EXCEPT !.pc = "book"]
        BY <1>8, <2>3 DEF Gate, To
      <3>a. /\ production'[batch.i].batch = batch.n /\ production'[batch.i].verdict = "failed"
            /\ production'[batch.i].packed = FALSE
            /\ \A c \in Cards \ {batch.i} : production'[c] = production[c]
        BY <1>1, <1>3, <2>1, <3>1 DEF Booked
      <3>2. Row'.bad
        BY <1>1, <1>2, <2>1, <3>1, <3>a DEF Row, Batches
      <3>3. QED BY <1>1, <1>5, <2>1, <3>1, <3>2, <3>a DEF CardInv, AgreesWithRow, Batches
    <2>4. QED BY <2>2, <2>3
  <1>9. CASE Fail
    <2>1. InCycle /\ UNCHANGED rows /\ batch' = [batch EXCEPT !.pc = "book", !.failed = TRUE]
      BY <1>9 DEF Fail, InCycle, At
    <2>2. CASE ~CardMode
      BY <1>2, <2>2 DEF CardInv, CardsBooked
    <2>3. CASE CardMode
      <3>1. production' = Booked("failed", FALSE)
        BY <1>9, <2>3 DEF Fail
      <3>a. /\ production'[batch.i].batch = batch.n /\ production'[batch.i].verdict = "failed"
            /\ production'[batch.i].packed = FALSE
            /\ \A c \in Cards \ {batch.i} : production'[c] = production[c]
        BY <1>1, <1>3, <2>1, <3>1 DEF Booked
      <3>2. Row'.bad
        BY <1>1, <2>1 DEF Row, Batches
      <3>3. QED BY <1>1, <1>5, <2>1, <3>2, <3>a DEF CardInv, AgreesWithRow, Batches
    <2>4. QED BY <2>2, <2>3
  <1>10. CASE Save
    <2>1. InCycle /\ UNCHANGED rows /\ batch' = [batch EXCEPT !.pc = "view"]
          /\ production' = Booked("passed", FALSE)
      BY <1>10 DEF Save, SaveEarly, InCycle, At, To
    <2>a. /\ production'[batch.i].batch = batch.n /\ production'[batch.i].verdict = "passed"
          /\ production'[batch.i].packed = FALSE
          /\ \A c \in Cards \ {batch.i} : production'[c] = production[c]
      BY <1>1, <1>3, <2>1 DEF Booked
    <2>2. QED BY <1>1, <1>5, <2>1, <2>a DEF CardInv, At, Batches
  <1>11. CASE SavePacked
    <2>1. InCycle /\ UNCHANGED rows /\ batch' = [batch EXCEPT !.pc = "book"] /\ ~batch.failed
          /\ production' = Booked("passed", TRUE)
      BY <1>1, <1>11 DEF SavePacked, InCycle, At, To, RowsInv
    <2>a. /\ production'[batch.i].batch = batch.n /\ production'[batch.i].verdict = "passed"
          /\ production'[batch.i].packed = TRUE
          /\ \A c \in Cards \ {batch.i} : production'[c] = production[c]
      BY <1>1, <1>3, <2>1 DEF Booked
    <2>2. ~Row'.bad
      BY <1>1, <2>1, <2>a DEF Row, Batches
    <2>3. QED BY <1>1, <1>5, <2>1, <2>2, <2>a DEF CardInv, AgreesWithRow, Batches
  <1>12. CASE Harvest
    <2>1. UNCHANGED <<rows, production>> /\ batch'.n = batch.n /\ (CardMode => batch'.pc # "book")
      BY <1>1, <1>12 DEF Harvest, KeepBooks, To, Batches
    <2>2. QED BY <1>1, <1>2, <2>1 DEF CardInv, CardsBooked, At
  <1>13. CASE \/ StartCycle \/ Applied \/ Undone \/ Probed \/ Reverted \/ Snapshot \/ Reprobed
              \/ CheckResidue \/ Pack \/ Detect \/ View \/ EndBatch \/ Stop
    <2>1. UNCHANGED <<rows, production>> /\ batch'.n = batch.n /\ batch'.pc # "book"
      BY <1>1, <1>13 DEF StartCycle, Applied, Undone, Probed, Reverted, Snapshot, Reprobed,
         CheckResidue, Pack, Detect, View, EndBatch, Stop, KeepBooks, To, Batches
    <2>2. QED BY <1>1, <1>2, <2>1 DEF CardInv, CardsBooked, At
  <1>14. CASE CallScript \/ RunScript
    <2>1. UNCHANGED <<rows, production, batch>>
      BY <1>14 DEF CallScript, RunScript, runnerVars
    <2>2. QED BY <1>1, <1>2, <2>1 DEF CardInv, CardsBooked, At, AgreesWithRow, Row
  <1>15. QED
    BY <1>6, <1>7, <1>8, <1>9, <1>10, <1>11, <1>12, <1>13, <1>14 DEF Next

\* The pack of a card that is not the cycle's stays, and so does what its card says.
LEMMA PackKept ==
  ASSUME BookInv, Next
  PROVE  PackInv'
  <1>1. /\ batch \in Batches /\ batch' \in Batches /\ batch'.plan = batch.plan /\ Cards' = Cards
        /\ production \in [Cards -> Books] /\ RowsInv /\ PackInv
        /\ evidence \in [Cards -> [{"pack", "alerts", "view"} -> 0..MaxBatches]]
        /\ batch.i \in Nat /\ batch.n \in Nat /\ MaxBatches \in Nat
        /\ \A c \in Cards : production[c].batch \in Nat /\ c \in Nat
    BY BatchTypes, PlanTypes, RunnerAssumption
       DEF BookInv, TypeInv, RunnerTypeOK, Batches, Books, Cards, Cycles
  <1>2. InCycle => batch.i \in Cards
    BY TargetTypes DEF BookInv, TypeInv
  <1>3. ASSUME UNCHANGED <<production, evidence>>, batch'.n = batch.n, batch'.i = batch.i,
               Unbooked' => Unbooked,
               batch'.pc \notin {"alerts", "save", "view", "saved"}
        PROVE  PackInv'
    BY <1>1, <1>3 DEF PackInv, PackedIsWhole, At
  <1>4. CASE StartBatch
    <2>1. /\ UNCHANGED <<production, evidence>> /\ batch'.pc = "next" /\ batch'.n = batch.n + 1
          /\ batch'.i = 0
      BY <1>1, <1>4 DEF StartBatch, Batches
    <2>2. \A c \in Cards : production[c].batch < batch'.n
      BY <1>1, <2>1 DEF PackInv
    <2>3. PackedIsWhole'
      BY <1>1, <2>1, <2>2 DEF PackInv, PackedIsWhole
    <2>4. QED BY <1>1, <2>1, <2>2, <2>3 DEF PackInv, At, Unbooked
  <1>5. CASE StartCycle
    <2>1. /\ UNCHANGED <<production, evidence>> /\ batch'.n = batch.n /\ batch.n >= 1
          /\ \/ batch'.pc = "apply" /\ batch'.i = batch.i + 1 /\ batch.i < Len(Cycles)
             \/ batch'.pc = "end" /\ batch'.i = batch.i
      BY <1>1, <1>5 DEF StartCycle, MoreCycles, KeepBooks, RowsInv, At, Batches
    <2>2. CASE batch'.pc = "end"
      BY <1>1, <1>3, <2>1, <2>2 DEF Unbooked
    <2>3. CASE batch'.pc = "apply"
      <3>1. batch.i + 1 \in Cards
        BY <1>1, <2>1, <2>3, PlanTypes
      <3>2. production[batch.i + 1].batch < batch.n
        BY <1>1, <2>1, <3>1 DEF PackInv
      <3>3. QED BY <1>1, <2>1, <2>3, <3>2 DEF PackInv, PackedIsWhole, At
    <2>4. QED BY <2>1, <2>2, <2>3
  <1>6. CASE \/ Applied \/ Undone \/ Probed \/ Reverted \/ Snapshot \/ Reprobed \/ CheckResidue
             \/ EndBatch \/ Book
    <2>1. /\ UNCHANGED <<production, evidence>> /\ batch'.n = batch.n /\ batch'.i = batch.i
          /\ Unbooked' => Unbooked
          /\ batch'.pc \notin {"alerts", "save", "view", "saved"}
      BY <1>1, <1>6 DEF Applied, Undone, Probed, Reverted, Snapshot, Reprobed, CheckResidue, EndBatch,
         Book, KeepBooks, At, To, Batches, Unbooked
    <2>2. QED BY <1>3, <2>1
  <1>7. CASE Harvest
    <2>1. /\ UNCHANGED <<production, evidence>> /\ batch'.n = batch.n /\ batch'.i = batch.i
          /\ At("harvest")
          /\ batch'.pc \notin {"alerts", "save", "view", "saved"}
      BY <1>1, <1>7 DEF Harvest, KeepBooks, At, To, Batches
    <2>2. QED BY <1>3, <2>1 DEF Unbooked, At
  <1>8. CASE CallScript \/ RunScript
    <2>1. UNCHANGED <<production, evidence, batch>>
      BY <1>8 DEF CallScript, RunScript, runnerVars
    <2>2. QED BY <1>1, <2>1 DEF PackInv, PackedIsWhole, At, Unbooked
  <1>9. ASSUME InCycle, UNCHANGED evidence, batch'.n = batch.n, batch'.i = batch.i, ~Unbooked',
               production'[batch.i].batch = batch.n,
               production'[batch.i].packed =>
                 /\ production'[batch.i].verdict = "passed"
                 /\ \A part \in {"pack", "alerts", "view"} : evidence[batch.i][part] = batch.n,
               \A c \in Cards \ {batch.i} : production'[c] = production[c],
               batch'.pc \in {"view", "saved"} => ~production'[batch.i].packed,
               batch'.pc \in {"alerts", "save", "view", "saved"} =>
                 evidence[batch.i]["pack"] = batch.n /\ evidence[batch.i]["alerts"] = batch.n,
               batch'.pc # "saved"
        PROVE  PackInv'
    <2>1. batch.n >= 1 /\ batch.i \in Cards
      BY <1>1, <1>2, <1>9 DEF RowsInv, InCycle, At
    <2>2. PackedIsWhole'
      BY <1>1, <1>9, <2>1 DEF PackInv, PackedIsWhole
    <2>3. QED BY <1>1, <1>9, <2>1, <2>2 DEF PackInv, At
  <1>10. CASE Gate
    <2>1. InCycle /\ At("gate") /\ UNCHANGED evidence
      BY <1>10 DEF Gate, InCycle, At
    <2>2. CASE Admits
      <3>1. UNCHANGED production /\ batch' = [batch EXCEPT !.pc = "pack"]
        BY <1>10, <2>2 DEF Gate, To
      <3>2. QED BY <1>1, <1>3, <2>1, <3>1 DEF Unbooked, At, Batches
    <2>3. CASE ~Admits
      <3>1. production' = Booked("failed", FALSE) /\ batch' = [batch EXCEPT !.pc = "book"]
        BY <1>10, <2>3 DEF Gate, To
      <3>2. /\ production'[batch.i].batch = batch.n /\ ~production'[batch.i].packed
            /\ \A c \in Cards \ {batch.i} : production'[c] = production[c]
        BY <1>1, <1>2, <2>1, <3>1 DEF Booked
      <3>3. QED BY <1>1, <1>9, <2>1, <3>1, <3>2 DEF Unbooked, Batches
    <2>4. QED BY <2>2, <2>3
  <1>11. CASE Fail
    <2>1. /\ InCycle /\ At("failed") /\ UNCHANGED evidence
          /\ batch' = [batch EXCEPT !.pc = "book", !.failed = TRUE]
      BY <1>11 DEF Fail, InCycle, At
    <2>2. CASE ~CardMode
      <3>1. UNCHANGED production
        BY <1>11, <2>2 DEF Fail
      <3>2. QED BY <1>1, <1>3, <2>1, <3>1 DEF Unbooked, At, Batches
    <2>3. CASE CardMode
      <3>1. production' = Booked("failed", FALSE)
        BY <1>11, <2>3 DEF Fail
      <3>2. /\ production'[batch.i].batch = batch.n /\ ~production'[batch.i].packed
            /\ \A c \in Cards \ {batch.i} : production'[c] = production[c]
        BY <1>1, <1>2, <2>1, <3>1 DEF Booked
      <3>3. QED BY <1>1, <1>9, <2>1, <3>2 DEF Unbooked, Batches
    <2>4. QED BY <2>2, <2>3
  <1>12. CASE Save
    <2>1. /\ InCycle /\ At("save") /\ UNCHANGED evidence /\ batch' = [batch EXCEPT !.pc = "view"]
          /\ production' = Booked("passed", FALSE)
      BY <1>12 DEF Save, SaveEarly, InCycle, At, To
    <2>2. /\ production'[batch.i].batch = batch.n /\ ~production'[batch.i].packed
          /\ \A c \in Cards \ {batch.i} : production'[c] = production[c]
      BY <1>1, <1>2, <2>1 DEF Booked
    <2>3. evidence[batch.i]["pack"] = batch.n /\ evidence[batch.i]["alerts"] = batch.n
      BY <1>1, <2>1 DEF PackInv, At
    <2>4. QED BY <1>1, <1>9, <2>1, <2>2, <2>3 DEF Unbooked, Batches
  <1>13. CASE SavePacked
    <2>1. /\ InCycle /\ At("saved") /\ UNCHANGED evidence /\ batch' = [batch EXCEPT !.pc = "book"]
          /\ production' = Booked("passed", TRUE)
      BY <1>13 DEF SavePacked, InCycle, At, To
    <2>2. /\ production'[batch.i].batch = batch.n /\ production'[batch.i].verdict = "passed"
          /\ \A c \in Cards \ {batch.i} : production'[c] = production[c]
      BY <1>1, <1>2, <2>1 DEF Booked
    <2>3. \A part \in {"pack", "alerts", "view"} : evidence[batch.i][part] = batch.n
      BY <1>1, <2>1 DEF PackInv, At
    <2>4. QED BY <1>1, <1>9, <2>1, <2>2, <2>3 DEF Unbooked, Batches
  <1>14. CASE Pack
    <2>1. InCycle /\ At("pack") /\ UNCHANGED production
      BY <1>14 DEF Pack, InCycle, At
    <2>2. production[batch.i].batch < batch.n
      BY <1>1, <2>1 DEF PackInv, Unbooked, At
    <2>3. \/ Write("pack", batch.n) /\ batch' = [batch EXCEPT !.pc = "alerts"]
          \/ Write("pack", 0) /\ batch' = [batch EXCEPT !.pc = "end"]
      BY <1>14 DEF Pack, To
    <2>4. \A c \in Cards \ {batch.i} : evidence'[c] = evidence[c]
      BY <1>1, <2>3 DEF Write
    <2>5. evidence'[batch.i]["pack"] \in {0, batch.n}
          /\ (batch'.pc = "alerts" => evidence'[batch.i]["pack"] = batch.n)
      BY <1>1, <1>2, <2>1, <2>3 DEF Write, Batches
    <2>6. /\ batch'.n = batch.n /\ batch'.i = batch.i /\ batch'.pc \in {"alerts", "end"}
      BY <1>1, <2>3 DEF Batches
    <2>7. PackedIsWhole'
      BY <1>1, <2>1, <2>2, <2>4, <2>5, <2>6 DEF PackInv, PackedIsWhole
    <2>8. QED BY <1>1, <2>1, <2>2, <2>5, <2>6, <2>7 DEF PackInv, At, Unbooked
  <1>15. CASE Detect \/ View
    <2>1. InCycle /\ UNCHANGED production /\ batch.pc \in {"alerts", "view"}
      BY <1>15 DEF Detect, View, InCycle, At
    <2>2. ~production[batch.i].packed \/ production[batch.i].batch < batch.n
      BY <1>1, <2>1 DEF PackInv, Unbooked, At
    <2>3. \/ Write("alerts", batch.n) /\ batch' = [batch EXCEPT !.pc = "save"] /\ At("alerts")
          \/ Write("view", batch.n) /\ batch' = [batch EXCEPT !.pc = "saved"] /\ At("view")
      BY <1>15 DEF Detect, View, To
    <2>4. \A c \in Cards \ {batch.i} : evidence'[c] = evidence[c]
      BY <1>1, <2>3 DEF Write
    <2>5. evidence[batch.i]["pack"] = batch.n
      BY <1>1, <2>1 DEF PackInv
    <2>6. /\ evidence'[batch.i]["pack"] = batch.n /\ evidence'[batch.i]["alerts"] = batch.n
          /\ batch'.pc = "saved" => evidence'[batch.i]["view"] = batch.n
      <3>1. At("view") => evidence[batch.i]["alerts"] = batch.n
        BY <1>1 DEF PackInv, At
      <3>2. QED BY <1>1, <1>2, <2>1, <2>3, <2>5, <3>1 DEF Write, Batches
    <2>7. /\ batch'.n = batch.n /\ batch'.i = batch.i /\ batch'.pc \in {"save", "saved"}
          /\ batch'.pc = "save" => At("alerts")
      BY <1>1, <2>3 DEF Batches, At
    <2>8. PackedIsWhole'
      BY <1>1, <2>1, <2>2, <2>4, <2>6, <2>7 DEF PackInv, PackedIsWhole
    <2>9. QED BY <1>1, <2>1, <2>6, <2>7, <2>8 DEF PackInv, At, Unbooked
  <1>16. CASE Stop
    <2>1. UNCHANGED production /\ batch' = [batch EXCEPT !.pc = "off"]
      BY <1>16 DEF Stop, To
    <2>2. /\ batch'.n = batch.n /\ batch'.i = batch.i /\ batch'.pc = "off"
      BY <1>1, <2>1 DEF Batches
    <2>3. CASE UNCHANGED evidence
      BY <1>1, <1>3, <2>1, <2>2, <2>3 DEF Unbooked
    <2>4. CASE At("pack") /\ evidence' = [evidence EXCEPT ![batch.i].pack = 0]
      <3>1. production[batch.i].batch < batch.n /\ InCycle
        BY <1>1, <2>4 DEF PackInv, Unbooked, At, InCycle
      <3>2. \A c \in Cards \ {batch.i} : evidence'[c] = evidence[c]
        BY <1>1, <2>4
      <3>3. evidence'[batch.i]["pack"] = 0
        BY <1>1, <1>2, <2>4, <3>1
      <3>4. PackedIsWhole'
        BY <1>1, <2>1, <2>2, <3>1, <3>2, <3>3 DEF PackInv, PackedIsWhole
      <3>5. QED BY <1>1, <2>1, <2>2, <3>4 DEF PackInv, At, Unbooked
    <2>5. QED BY <1>16, <2>3, <2>4 DEF Stop
  <1>17. QED
    BY <1>4, <1>5, <1>6, <1>7, <1>8, <1>10, <1>11, <1>12, <1>13, <1>14, <1>15, <1>16 DEF Next

LEMMA NextBook == BookInv /\ [Next]_vars => BookInv'
  <1> SUFFICES ASSUME BookInv, [Next]_vars PROVE BookInv'
    OBVIOUS
  <1>1. CASE UNCHANGED vars
    BY <1>1, NextTypes DEF vars, runnerVars, BookInv, RowsInv, CardInv, CardsBooked, AgreesWithRow, Row, PackInv,
       PackedIsWhole, Unbooked, InCycle, At, Cards, Cycles, CardMode
  <1>2. CASE Next
    BY <1>2, NextTypes, RowsKept, CardKept, PackKept DEF BookInv
  <1>3. QED BY <1>1, <1>2

LEMMA InitBook == Init => BookInv
  <1> SUFFICES ASSUME Init PROVE BookInv
    OBVIOUS
  <1>1. RowsInv /\ CardInv
    BY InitTypes DEF Init, RowsInv, CardInv, CardsBooked, InCycle, At
  <1>2. PackInv
    BY InitTypes DEF Init, PackInv, PackedIsWhole, Unbooked, At
  <1>3. QED BY <1>1, <1>2, InitTypes DEF BookInv

LEMMA BookInvariant == Spec => []BookInv
  BY InitBook, NextBook, PTL DEF Spec

\* A card that says "packed" has a whole pack of the batch that admitted it.
THEOREM PacksAreWhole == Spec => []PackedIsWhole
  <1>1. BookInv => PackedIsWhole
    BY DEF BookInv, PackInv
  <1>2. QED BY <1>1, BookInvariant, PTL

\* Every card a batch is past is booked by it as its row in the summary says.
THEOREM CardsFollowRows == Spec => []CardsBooked
  <1>1. BookInv => CardsBooked
    BY DEF BookInv, CardInv
  <1>2. QED BY <1>1, BookInvariant, PTL

(* -------------------------------- limits ------------------------------- *)

\* Failed recoveries since one that worked.
Failing(rs) ==
    {k \in 1..Len(rs) : rs[k].recovered = "false"
                        /\ \A j \in k..Len(rs) : rs[j].recovered # "true"}

\* As many failed cards in a row as stop a batch.
Window(rs) ==
    \E k \in 1..Len(rs) : /\ k + AbortGate - 1 <= Len(rs)
                          /\ \A j \in k..(k + AbortGate - 1) : rs[j].bad

\* The streak counts the failed cards at the end of the rows, ...
TailIsBad(rs, n) ==
    /\ n < AbortGate /\ n <= Len(rs)
    /\ n < Len(rs) => ~rs[Len(rs) - n].bad
    /\ ~Window(rs)

\* ... or the failed recoveries.
RecoveriesCounted(rs, n) ==
    /\ n < AbortRecovered
    /\ IsFiniteSet(Failing(rs)) /\ Cardinality(Failing(rs)) = n
    /\ \A k \in 1..Len(rs) : ~rs[k].bad

LimitInv ==
    /\ ~At("off") /\ ~At("end") =>
         IF CardMode THEN TailIsBad(rows, batch.streak) ELSE RecoveriesCounted(rows, batch.streak)
    /\ ObserveOnly => batch.recovered = "none"

LEMMA WindowGrows ==
  ASSUME NEW rs \in Seq(Rows), NEW r \in Rows, NEW n \in Nat, TailIsBad(rs, n)
  PROVE  /\ ~r.bad => TailIsBad(Append(rs, r), 0)
         /\ r.bad /\ n + 1 < AbortGate => TailIsBad(Append(rs, r), n + 1)
  <1> DEFINE rt == Append(rs, r)
  <1>1. /\ Len(rs) \in Nat /\ Len(rt) = Len(rs) + 1 /\ rt[Len(rs) + 1] = r
        /\ \A k \in 1..Len(rs) : rt[k] = rs[k]
    BY LenProperties, AppendProperties
  <1>2. AbortGate \in Nat \ {0}
    BY RunnerAssumption
  <1> HIDE DEF rt
  <1>3. ASSUME Window(rt)
        PROVE  \E k \in 1..(Len(rs) + 1) : /\ k + AbortGate - 1 = Len(rs) + 1
                                           /\ \A j \in k..(Len(rs) + 1) : rt[j].bad
    <2>1. PICK k \in 1..Len(rt) : /\ k + AbortGate - 1 <= Len(rt)
                                  /\ \A j \in k..(k + AbortGate - 1) : rt[j].bad
      BY <1>3 DEF Window
    <2>2. CASE k + AbortGate - 1 <= Len(rs)
      <3>1. k \in 1..Len(rs) /\ \A j \in k..(k + AbortGate - 1) : j \in 1..Len(rs)
        BY <1>1, <1>2, <2>1, <2>2
      <3>2. Window(rs)
        BY <1>1, <2>1, <2>2, <3>1 DEF Window
      <3>3. QED BY <3>2 DEF TailIsBad
    <2>3. CASE k + AbortGate - 1 > Len(rs)
      <3>1. k + AbortGate - 1 = Len(rs) + 1 /\ k \in 1..(Len(rs) + 1)
        BY <1>1, <1>2, <2>1, <2>3
      <3>2. QED BY <2>1, <3>1
    <2>4. QED BY <1>1, <1>2, <2>1, <2>2, <2>3
  <1>4. ASSUME ~r.bad PROVE TailIsBad(rt, 0)
    <2>1. ~Window(rt)
      BY <1>1, <1>2, <1>3, <1>4
    <2>2. QED BY <1>1, <1>2, <1>4, <2>1 DEF TailIsBad
  <1>5. ASSUME r.bad, n + 1 < AbortGate PROVE TailIsBad(rt, n + 1)
    <2>1. n + 1 < Len(rt) => ~rt[Len(rt) - (n + 1)].bad
      BY <1>1 DEF TailIsBad
    <2>2. ASSUME Window(rt) PROVE FALSE
      <3>1. PICK k \in 1..(Len(rs) + 1) : /\ k + AbortGate - 1 = Len(rs) + 1
                                          /\ \A j \in k..(Len(rs) + 1) : rt[j].bad
        BY <1>3, <2>2
      <3>2. Len(rs) - n >= k /\ n < Len(rs) /\ Len(rs) - n \in k..(Len(rs) + 1)
            /\ Len(rt) - (n + 1) = Len(rs) - n
        BY <1>1, <1>2, <1>5, <3>1
      <3>3. QED BY <1>1, <2>1, <3>1, <3>2
    <2>3. QED BY <1>1, <1>5, <2>1, <2>2 DEF TailIsBad
  <1>6. QED BY <1>4, <1>5 DEF rt

LEMMA FailingGrows ==
  ASSUME NEW rs \in Seq(Rows), NEW r \in Rows
  PROVE  /\ r.recovered = "none" => Failing(Append(rs, r)) = Failing(rs)
         /\ r.recovered = "true" => Failing(Append(rs, r)) = {}
         /\ r.recovered = "false" => Failing(Append(rs, r)) = Failing(rs) \cup {Len(rs) + 1}
         /\ Len(rs) + 1 \notin Failing(rs)
  <1> DEFINE rt == Append(rs, r)
  <1>1. /\ Len(rs) \in Nat /\ Len(rt) = Len(rs) + 1 /\ rt[Len(rs) + 1] = r
        /\ \A k \in 1..Len(rs) : rt[k] = rs[k]
    BY LenProperties, AppendProperties
  <1> HIDE DEF rt
  <1>2. r.recovered = "true" => Failing(rt) = {}
    <2> SUFFICES ASSUME r.recovered = "true", NEW k \in Failing(rt) PROVE FALSE
      OBVIOUS
    <2>1. k \in 1..Len(rt) /\ \A j \in k..Len(rt) : rt[j].recovered # "true"
      BY DEF Failing
    <2>2. Len(rt) \in k..Len(rt)
      BY <1>1, <2>1
    <2>3. QED BY <1>1, <2>1, <2>2
  <1>3. ASSUME r.recovered # "true", NEW k \in 1..Len(rs)
        PROVE  k \in Failing(rt) <=> k \in Failing(rs)
    <2>1. \A j \in k..Len(rt) : j \in k..Len(rs) \/ j = Len(rs) + 1
      BY <1>1
    <2>2. \A j \in k..Len(rs) : j \in k..Len(rt) /\ j \in 1..Len(rs)
      BY <1>1
    <2>3. k \in 1..Len(rt) /\ rt[k] = rs[k]
      BY <1>1
    <2>4. (\A j \in k..Len(rt) : rt[j].recovered # "true")
            <=> (\A j \in k..Len(rs) : rs[j].recovered # "true")
      BY <1>1, <1>3, <2>1, <2>2
    <2>5. QED BY <2>3, <2>4 DEF Failing
  <1>4. r.recovered # "true" => (Len(rs) + 1 \in Failing(rt) <=> r.recovered = "false")
    <2>1. \A j \in (Len(rs) + 1)..Len(rt) : j = Len(rs) + 1
      BY <1>1
    <2>2. QED BY <1>1, <2>1 DEF Failing
  <1>5. Failing(rt) \subseteq 1..(Len(rs) + 1) /\ Failing(rs) \subseteq 1..Len(rs)
    BY <1>1 DEF Failing
  <1>6. \A k \in 1..(Len(rs) + 1) : k \in 1..Len(rs) \/ k = Len(rs) + 1
    BY <1>1
  <1>7. Len(rs) + 1 \notin Failing(rs)
    BY <1>1, <1>5
  <1>8. r.recovered = "none" => Failing(rt) = Failing(rs)
    BY <1>3, <1>4, <1>5, <1>6, <1>7
  <1>9. r.recovered = "false" => Failing(rt) = Failing(rs) \cup {Len(rs) + 1}
    BY <1>1, <1>3, <1>4, <1>5, <1>6
  <1>10. QED BY <1>2, <1>7, <1>8, <1>9 DEF rt

LEMMA RowType ==
  ASSUME TypeInv, At("book")
  PROVE  Row \in Rows /\ Row.recovered = batch.recovered
  <1>1. batch \in Batches /\ production \in [Cards -> Books] /\ batch.i \in Cards
    BY TargetTypes DEF TypeInv, RunnerTypeOK, At, InCycle
  <1>2. CardMode \in BOOLEAN
    BY <1>1, PlanTypes
  <1>3. QED BY <1>1, <1>2 DEF Row, Rows, Batches

LEMMA LimitBook ==
  ASSUME TypeInv, LimitInv, Book, ~Stops
  PROVE  IF CardMode THEN TailIsBad(rows', batch'.streak) ELSE RecoveriesCounted(rows', batch'.streak)
  <1>1. /\ batch \in Batches /\ rows \in Seq(Rows) /\ Row \in Rows /\ Row.recovered = batch.recovered
        /\ batch.streak \in Nat /\ batch.recovered \in Verdicts /\ At("book")
    BY RowType DEF TypeInv, RunnerTypeOK, Book, Batches
  <1>2. rows' = Append(rows, Row) /\ batch'.streak = Streak
    BY <1>1 DEF Book, Batches
  <1>3. CASE CardMode
    <2>1. TailIsBad(rows, batch.streak)
      BY <1>1, <1>3 DEF LimitInv, At
    <2>2. Streak = (IF Row.bad THEN batch.streak + 1 ELSE 0) /\ ~(Streak >= AbortGate)
      BY <1>3 DEF Streak, Stops
    <2>3. Row.bad => batch.streak + 1 < AbortGate
      BY <1>1, <2>2, RunnerAssumption
    <2>4. TailIsBad(Append(rows, Row), Streak)
      <3>1. Row.bad \/ ~Row.bad
        OBVIOUS
      <3> DEFINE row == Row
      <3>2. row \in Rows /\ (row.bad => batch.streak + 1 < AbortGate)
            /\ Streak = (IF row.bad THEN batch.streak + 1 ELSE 0)
        BY <1>1, <2>2, <2>3
      <3> HIDE DEF row
      <3>3. TailIsBad(Append(rows, row), Streak)
        BY <1>1, <2>1, <3>2, WindowGrows
      <3>4. QED BY <3>3 DEF row
    <2>5. QED BY <1>2, <1>3, <2>4
  <1>4. CASE ~CardMode
    <2>1. RecoveriesCounted(rows, batch.streak) /\ (ObserveOnly => batch.recovered = "none")
      BY <1>1, <1>4 DEF LimitInv, At
    <2>2. ~batch.failed /\ ~Row.bad /\ ~(Streak >= AbortRecovered)
      BY <1>4 DEF Stops, Row
    <2>3. Streak = CASE batch.recovered = "false" -> batch.streak + 1
                     [] batch.recovered = "true"  -> 0
                     [] OTHER                     -> batch.streak
      BY <1>4, <2>1 DEF Streak
    <2> DEFINE row == Row
               fs  == Failing(rows)
    <2>4. row \in Rows /\ ~row.bad /\ row.recovered = batch.recovered
      BY <1>1, <2>2
    <2> HIDE DEF row
    <2>5. /\ row.recovered = "none" => Failing(Append(rows, row)) = fs
          /\ row.recovered = "true" => Failing(Append(rows, row)) = {}
          /\ row.recovered = "false" => Failing(Append(rows, row)) = fs \cup {Len(rows) + 1}
          /\ Len(rows) + 1 \notin fs
      BY <1>1, <2>4, FailingGrows
    <2>6. IsFiniteSet(fs) /\ Cardinality(fs) = batch.streak
      BY <2>1 DEF RecoveriesCounted
    <2> HIDE DEF fs
    <2>7. IsFiniteSet(Failing(Append(rows, row))) /\ Cardinality(Failing(Append(rows, row))) = Streak
      <3>1. CASE batch.recovered = "none"
        BY <2>3, <2>4, <2>5, <2>6, <3>1
      <3>2. CASE batch.recovered = "true"
        BY <2>3, <2>4, <2>5, <3>2, FS_EmptySet
      <3>3. CASE batch.recovered = "false"
        BY <2>3, <2>4, <2>5, <2>6, <3>3, FS_AddElement
      <3>4. QED BY <1>1, <3>1, <3>2, <3>3 DEF Verdicts
    <2>8. Streak \in Nat /\ Streak < AbortRecovered
      BY <1>1, <2>2, <2>3, RunnerAssumption
    <2>9. \A k \in 1..Len(Append(rows, row)) : ~Append(rows, row)[k].bad
      <3>1. /\ Len(rows) \in Nat /\ Len(Append(rows, row)) = Len(rows) + 1
            /\ Append(rows, row)[Len(rows) + 1] = row
            /\ \A k \in 1..Len(rows) : Append(rows, row)[k] = rows[k]
        BY <1>1, <2>4, LenProperties, AppendProperties
      <3>2. \A k \in 1..(Len(rows) + 1) : k \in 1..Len(rows) \/ k = Len(rows) + 1
        BY <3>1
      <3>3. QED BY <2>1, <2>4, <3>1, <3>2 DEF RecoveriesCounted
    <2>10. RecoveriesCounted(Append(rows, row), Streak)
      BY <2>7, <2>8, <2>9 DEF RecoveriesCounted
    <2>11. QED BY <1>2, <1>4, <2>10 DEF row
  <1>5. QED BY <1>3, <1>4

LEMMA NoRows ==
  /\ TailIsBad(<<>>, 0) /\ RecoveriesCounted(<<>>, 0)
  <1>1. Len(<<>>) = 0 /\ 1..0 = {}
    OBVIOUS
  <1>2. ~Window(<<>>) /\ Failing(<<>>) = {}
    BY <1>1 DEF Window, Failing
  <1>3. AbortGate \in Nat /\ AbortRecovered \in Nat /\ AbortGate > 0 /\ AbortRecovered > 0
    BY RunnerAssumption
  <1>4. TailIsBad(<<>>, 0)
    BY <1>1, <1>2, <1>3 DEF TailIsBad
  <1>5. IsFiniteSet(Failing(<<>>)) /\ Cardinality(Failing(<<>>)) = 0
    BY <1>2, FS_EmptySet
  <1>6. RecoveriesCounted(<<>>, 0)
    BY <1>1, <1>3, <1>5 DEF RecoveriesCounted
  <1>7. QED BY <1>4, <1>6

LEMMA LimitKept ==
  ASSUME TypeInv, LimitInv, Next
  PROVE  LimitInv'
  <1>1. /\ batch \in Batches /\ batch' \in Batches /\ batch'.plan = batch.plan
    BY BatchTypes DEF TypeInv, RunnerTypeOK
  <1>2. CardMode' = CardMode /\ ObserveOnly' = ObserveOnly
    BY <1>1 DEF CardMode, ObserveOnly
  <1>3. ASSUME UNCHANGED rows, batch'.streak = batch.streak, ~At("off"), ~At("end"),
               batch'.recovered = batch.recovered
        PROVE  LimitInv'
    BY <1>2, <1>3 DEF LimitInv
  <1>4. CASE StartBatch
    <2>1. rows' = <<>> /\ batch'.streak = 0 /\ batch'.recovered = batch.recovered
      BY <1>1, <1>4 DEF StartBatch, Batches
    <2>2. QED BY <1>2, <2>1, NoRows DEF LimitInv
  <1>5. CASE Book
    <2>1. batch'.pc = (IF Stops THEN "end" ELSE "next") /\ batch'.recovered = batch.recovered
      BY <1>1, <1>5 DEF Book, Batches
    <2>2. CASE Stops
      BY <1>2, <2>1, <2>2 DEF LimitInv, At
    <2>3. CASE ~Stops
      BY <1>2, <1>5, <2>1, <2>3, LimitBook DEF LimitInv
    <2>4. QED BY <2>2, <2>3
  <1>6. CASE Harvest \/ StartCycle
    <2>1. /\ UNCHANGED rows /\ batch'.streak = batch.streak /\ ~At("off") /\ ~At("end")
          /\ batch'.recovered = batch.recovered \/ (ObserveOnly => batch'.recovered = "none")
      BY <1>1, <1>6 DEF Harvest, StartCycle, To, At, KeepBooks, Batches
    <2>2. QED BY <1>2, <2>1 DEF LimitInv
  <1>7. CASE EndBatch \/ Stop
    <2>1. batch'.pc = "off" /\ batch'.recovered = batch.recovered
      BY <1>1, <1>7 DEF EndBatch, Stop, To, Batches
    <2>2. QED BY <1>2, <2>1 DEF LimitInv, At
  <1>8. CASE CallScript \/ RunScript
    BY <1>2, <1>8 DEF CallScript, RunScript, runnerVars, LimitInv, At
  <1>9. CASE Applied \/ Undone \/ Probed \/ Reverted \/ Snapshot \/ Reprobed \/ CheckResidue
    BY <1>1, <1>3, <1>9 DEF Applied, Undone, Probed, Reverted, Snapshot, Reprobed, CheckResidue,
                            KeepBooks, To, At, Batches
  <1>10. CASE Gate \/ Fail \/ Pack \/ Detect \/ Save \/ View \/ SavePacked
    BY <1>1, <1>3, <1>10 DEF Gate, Fail, Pack, Detect, Save, View, SavePacked, To, At, Batches
  <1>11. QED BY <1>4, <1>5, <1>6, <1>7, <1>8, <1>9, <1>10 DEF Next

LEMMA LimitInvariant == Spec => [](TypeInv /\ LimitInv)
  <1>1. Init => TypeInv /\ LimitInv
    <2>1. Init => LimitInv
      BY DEF Init, LimitInv, At
    <2>2. QED BY <2>1, InitTypes
  <1>2. TypeInv /\ LimitInv /\ [Next]_vars => TypeInv' /\ LimitInv'
    <2>1. LimitInv /\ UNCHANGED vars => LimitInv'
      BY DEF vars, runnerVars, LimitInv, At, CardMode, ObserveOnly
    <2>2. QED BY <2>1, NextTypes, LimitKept
  <1>3. QED BY <1>1, <1>2, PTL DEF Spec

\* A batch goes on after failures just as far as its limits say.
THEOREM GoesNoFurther == Spec => []GoesOnWithinLimits
  <1>1. LimitInv => GoesOnWithinLimits
    BY DEF LimitInv, GoesOnWithinLimits, TailIsBad, RecoveriesCounted, Window, Failing, At
  <1>2. QED BY <1>1, LimitInvariant, PTL

(* ------------------------------- the lock ------------------------------ *)

\* A process that was never started has no inode to create.
WasStarted == \A p \in Procs : procs[p].pc # "idle" => procs[p].starts \in 1..MaxStarts

\* Until a name is removed under somebody's hands, every open file is the one
\* the name means.
Pinned == ~stolen => \A p \in Procs : procs[p].fd # Null => procs[p].fd = name

LockInv == LockTypeOK /\ WasStarted /\ Pinned

\* What the parameters say of Null.
LEMMA LockNullApart == Null \notin Procs /\ Null \notin Inodes
  BY LockAssumption DEF Procs, Inodes

\* Nobody works at the start.
LEMMA LockInitInv == LockInit => LockInv
  <1> SUFFICES ASSUME LockInit PROVE LockInv
    OBVIOUS
  <1>1. /\ name = Null /\ deaths = 0 /\ stolen = FALSE
        /\ flock = [i \in Inodes |-> Null]
        /\ procs = [p \in Procs |-> [pc |-> "idle", fd |-> Null, starts |-> 0]]
    BY DEF LockInit
  <1>2. \A p \in Procs : procs[p] = [pc |-> "idle", fd |-> Null, starts |-> 0]
    BY <1>1
  <1>3. procs \in [Procs -> Processes]
    BY <1>1, LockAssumption DEF Processes
  <1>4. LockTypeOK
    BY <1>1, <1>2, <1>3, LockAssumption, 0 \in 0..MaxDeaths DEF LockTypeOK
  <1>5. WasStarted /\ Pinned
    BY <1>2 DEF WasStarted, Pinned
  <1>6. QED BY <1>4, <1>5 DEF LockInv

\* Starting opens nothing.
LEMMA StartKeeps ==
  ASSUME LockInv, NEW p \in Procs, Start(p)
  PROVE  LockInv'
  BY LockAssumption DEF LockInv, LockTypeOK, WasStarted, Pinned, Processes, Start

\* A process that lets go takes the lock from nobody else.
LEMMA UnlockedKeeps ==
  ASSUME LockTypeOK, NEW p \in Procs
  PROVE  /\ Unlocked(p) \in [Inodes -> Procs \cup {Null}]
         /\ \A q \in Procs \ {p} : procs[q].pc = "work" => Unlocked(p)[procs[q].fd] = q
  <1>1. Unlocked(p) \in [Inodes -> Procs \cup {Null}]
    BY DEF Unlocked, LockTypeOK
  <1>2. ASSUME NEW q \in Procs \ {p}, procs[q].pc = "work"
        PROVE  Unlocked(p)[procs[q].fd] = q
    <2>1. procs[q].fd \in Inodes /\ flock[procs[q].fd] = q
      BY <1>2 DEF LockTypeOK, Processes
    <2>2. QED BY <1>2, <2>1 DEF Unlocked
  <1>3. QED BY <1>1, <1>2

\* What a started process does: its open file is the named one until a removal
\* takes the name from under another.
LEMMA RunKeeps ==
  ASSUME LockInv, NEW p \in Procs, Run(p)
  PROVE  LockInv'
  <1> USE LockAssumption, LockNullApart DEF LockInv, LockTypeOK, WasStarted, Pinned, Processes
  <1>1. CASE Poll(p)
    BY <1>1 DEF Poll, Moves
  <1>2. CASE Open(p)
    <2> DEFINE inode == IF name = Null THEN <<p, procs[p].starts>> ELSE name
    <2>1. inode \in Inodes
      BY <1>2 DEF Open, Inodes
    <2>2. procs[p].fd = Null
      BY <1>2 DEF Open
    <2>3. /\ name' = inode /\ UNCHANGED <<flock, deaths, stolen>>
          /\ procs' = [procs EXCEPT ![p].pc = "flock", ![p].fd = inode]
      BY <1>2 DEF Open
    <2>4. procs[p].pc = "open"
      BY <1>2 DEF Open
    <2> HIDE DEF inode
    <2>5. LockTypeOK'
      BY <2>1, <2>3, <2>4
    <2>6. WasStarted'
      BY <2>3, <2>4
    <2>7. name # Null => inode = name
      BY DEF inode
    <2>8. Pinned'
      BY <2>1, <2>3, <2>7
    <2>9. QED BY <2>5, <2>6, <2>8
  <1>3. CASE Flock(p)
    <2>1. procs[p].fd \in Inodes
      BY <1>3 DEF Flock
    <2>2. CASE Free(procs[p].fd)
      <3>1. /\ flock' = [flock EXCEPT ![procs[p].fd] = p]
            /\ procs' = [procs EXCEPT ![p].pc = "work"]
            /\ UNCHANGED <<name, deaths, stolen>>
            /\ procs[p].pc = "flock"
        BY <1>3, <2>2 DEF Flock, Moves
      <3>2. \A q \in Procs : procs[q].pc = "work" => procs[q].fd # procs[p].fd
        BY <2>2 DEF Free
      <3>3. QED BY <2>1, <3>1, <3>2
    <2>3. CASE ~Free(procs[p].fd)
      BY <1>3, <2>3 DEF Flock
    <2>4. QED BY <2>2, <2>3
  <1>4. CASE Unlock(p)
    <2>1. /\ flock' = Unlocked(p) /\ UNCHANGED <<name, deaths, stolen>>
          /\ procs' = [procs EXCEPT ![p].pc = "remove", ![p].fd = Null]
          /\ procs[p].pc = "work"
      BY <1>4 DEF Unlock
    <2>2. QED BY <2>1, UnlockedKeeps
  <1>5. CASE Remove(p)
    <2>1. /\ procs' = [procs EXCEPT ![p].pc = "idle"] /\ name' = Null
          /\ procs[p].pc = "remove" /\ UNCHANGED <<flock, deaths>>
      BY <1>5 DEF Remove, Moves
    <2>2. stolen' = (stolen \/ \E q \in Procs : name # Null /\ procs[q].fd = name)
      BY <1>5 DEF Remove
    <2>3. stolen' \in BOOLEAN
      BY <2>2, ZenonT(20)
    <2>4. LockTypeOK' /\ WasStarted'
      BY <2>1, <2>3
    <2>5. Pinned'
      <3> SUFFICES ASSUME ~stolen', NEW q \in Procs, procs'[q].fd # Null
                   PROVE  FALSE
        BY DEF Pinned
      <3>1. procs[q].fd # Null /\ procs[q].fd = procs'[q].fd
        BY <2>1
      <3>2. ~stolen /\ ~(name # Null /\ procs[q].fd = name)
        BY <2>2
      <3>3. QED BY <3>1, <3>2
    <2>6. QED BY <2>4, <2>5
  <1>6. QED BY <1>1, <1>2, <1>3, <1>4, <1>5 DEF Run

\* Death unlocks and leaves the name.
LEMMA DieKeeps ==
  ASSUME LockInv, NEW p \in Procs, Die(p)
  PROVE  LockInv'
  <1>1. /\ flock' = Unlocked(p) /\ UNCHANGED <<name, stolen>>
        /\ procs' = [procs EXCEPT ![p].pc = "idle", ![p].fd = Null]
        /\ deaths' = deaths + 1 /\ deaths < MaxDeaths
    BY DEF Die
  <1>2. deaths' \in 0..MaxDeaths
    BY <1>1, LockAssumption DEF LockInv, LockTypeOK
  <1>3. procs' \in [Procs -> Processes]
    <2>1. procs[p] \in Processes
      BY DEF LockInv, LockTypeOK
    <2>2. [procs[p] EXCEPT !.pc = "idle", !.fd = Null] \in Processes
      BY <2>1 DEF Processes
    <2>3. procs' = [procs EXCEPT ![p] = [procs[p] EXCEPT !.pc = "idle", !.fd = Null]]
      BY <1>1 DEF LockInv, LockTypeOK
    <2>4. QED BY <2>2, <2>3 DEF LockInv, LockTypeOK
  <1>4. \A q \in Procs : /\ procs'[q].pc \in {"flock", "work"} <=> procs'[q].fd # Null
                         /\ procs'[q].pc = "work" => flock'[procs'[q].fd] = q
    <2> TAKE q \in Procs
    <2>1. CASE q = p
      BY <1>1, <2>1 DEF LockInv, LockTypeOK, Processes
    <2>2. CASE q # p
      BY <1>1, <2>2, UnlockedKeeps DEF LockInv, LockTypeOK, Processes
    <2>3. QED BY <2>1, <2>2
  <1>5. LockTypeOK'
    BY <1>1, <1>2, <1>3, <1>4, UnlockedKeeps DEF LockInv, LockTypeOK
  <1>6. WasStarted' /\ Pinned'
    BY <1>1 DEF LockInv, LockTypeOK, WasStarted, Pinned, Processes
  <1>7. QED BY <1>5, <1>6 DEF LockInv

\* The strengthened invariant holds in every behaviour.
LEMMA LockInvHolds == LockSpec => []LockInv
  <1>1. ASSUME LockInv, [LockNext]_lockVars PROVE LockInv'
    <2>1. CASE UNCHANGED lockVars
      BY <1>1, <2>1 DEF LockInv, LockTypeOK, WasStarted, Pinned, lockVars
    <2>2. CASE LockNext
      BY <1>1, <2>2, StartKeeps, RunKeeps, DieKeeps DEF LockNext
    <2>3. QED BY <1>1, <2>1, <2>2
  <1>2. QED BY LockInitInv, <1>1, PTL DEF LockSpec

\* The processes of scripts/state/runner.lock stay within their types, and who
\* works holds the flock of the file it has open.
THEOREM LockTypeCorrect == LockSpec => []LockTypeOK
  <1>1. LockInv => LockTypeOK
    BY DEF LockInv
  <1>2. QED BY LockInvHolds, <1>1, PTL

\* Two batches, or a batch and the probe, work at once only after the name was
\* removed that somebody had open: neither deaths nor lost races do it.
THEOREM OnlyStolenLocksCollide == LockSpec => []ExclusiveUnlessStolen
  <1>1. LockInv => ExclusiveUnlessStolen
    <2> SUFFICES ASSUME LockInv, ~stolen, NEW p \in Procs, NEW q \in Procs,
                        procs[p].pc = "work", procs[q].pc = "work"
                 PROVE  p = q
      BY DEF ExclusiveUnlessStolen, Exclusive
    <2>1. procs[p].fd = name /\ procs[q].fd = name
      BY DEF LockInv, LockTypeOK, Pinned
    <2>2. flock[name] = p /\ flock[name] = q
      BY <2>1 DEF LockInv, LockTypeOK
    <2>3. QED BY <2>2
  <1>2. QED BY LockInvHolds, <1>1, PTL

=============================================================================
