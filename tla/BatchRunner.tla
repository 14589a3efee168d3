---------------------------- MODULE BatchRunner -----------------------------
(****************************************************************************)
(* scripts/runner/run_batch.py: the batch that injects one fault after      *)
(* another, judges each cycle and books the card, above the injection       *)
(* scripts of Primitives.  BatchLock shows when a batch is alone on the     *)
(* testbed; here one batch runs at a time.                                  *)
(*                                                                          *)
(* The runner waits for each script it calls.  A verdict that the judges    *)
(* compute from telemetry is any verdict they can return.                   *)
(****************************************************************************)
EXTENDS Primitives, Sequences

CONSTANTS
    Plans,          \* what batches are started with: the targets in order,
                    \* --batch and --scenarios or --cycles, --observe-only
    AbortGate,      \* --abort-after-gate-failures
    AbortRecovered, \* --abort-after-recovered-failures
    MaxBatches,     \* bound: batches started
    MaxStops        \* bound: Ctrl-C and kill

ASSUME RunnerAssumption ==
    /\ Plans \subseteq [cycles : Seq(Targets), cards : BOOLEAN, observe : BOOLEAN]
    /\ AbortGate \in Nat \ {0} /\ AbortRecovered \in Nat \ {0}
    /\ MaxBatches \in Nat /\ MaxStops \in Nat

VARIABLES
    batch,       \* main() and run_cycle()
    rows,        \* the rows of summary.json
    production,  \* per card, the block of that name in its yaml
    evidence,    \* per card, the batch each part of its pack is from, 0 when torn
    stops

runnerVars == <<batch, rows, production, evidence, stops>>
vars == <<primVars, runnerVars>>

Verdicts == {"true", "false", "none"}

Cycles      == batch.plan.cycles
CardMode    == batch.plan.cards
ObserveOnly == batch.plan.observe
Cards       == DOMAIN Cycles

CmdOf == [apply |-> "apply", undo |-> "revert", probe |-> "probe",
          revert |-> "revert", reprobe |-> "probe"]

BatchPcs == DOMAIN CmdOf \cup
  {"off", "next", "snapshot", "residue", "harvest", "failed", "gate", "pack",
   "alerts", "save", "view", "saved", "book", "end"}

Batches == [plan : Plans, pc : BatchPcs, n : 0..MaxBatches, i : Nat,
            injected : Verdicts, symptom : Verdicts, recovered : Verdicts,
            clean : Verdicts, failed : BOOLEAN, streak : Nat]

Rows  == [bad : BOOLEAN, recovered : Verdicts, clean : Verdicts]
Books == [batch : 0..MaxBatches, verdict : {"none", "passed", "failed"},
          clean : Verdicts, packed : BOOLEAN]

RunnerTypeOK ==
    /\ PrimTypeOK
    /\ batch \in Batches /\ batch.i <= Len(Cycles)
    /\ rows \in Seq(Rows)
    /\ production \in [Cards -> Books]
    /\ evidence \in [Cards -> [{"pack", "alerts", "view"} -> 0..MaxBatches]]
    /\ stops \in 0..MaxStops

Init ==
    /\ PrimInit
    /\ \E plan \in Plans :
         batch = [plan |-> plan, pc |-> "off", n |-> 0, i |-> 0, injected |-> "none",
                  symptom |-> "none", recovered |-> "none", clean |-> "none",
                  failed |-> FALSE, streak |-> 0]
    /\ rows = <<>>
    /\ production = [c \in Cards |-> [batch |-> 0, verdict |-> "none", clean |-> "none",
                                      packed |-> FALSE]]
    /\ evidence = [c \in Cards |-> [part \in {"pack", "alerts", "view"} |-> 0]]
    /\ stops = 0

(* ------------------------------ vocabulary ----------------------------- *)

At(pc) == batch.pc = pc
To(pc) == batch' = [batch EXCEPT !.pc = pc]

Target == Cycles[batch.i]

KeepTestbed == UNCHANGED <<fault, restart, mark, saved, backup>>
KeepBooks   == UNCHANGED <<rows, production, evidence, stops>>
NoScript    == UNCHANGED script /\ KeepTestbed

\* The script called has exited; what it said and its code are read.
Returns == script.pc = "exited" /\ Collect /\ KeepTestbed /\ Works

Bool(b) == IF b THEN "true" ELSE "false"

(* -------------------------------- a cycle ------------------------------ *)

\* The lock is taken; a batch does not start over primitive state files.
MayStart == ~StateFiles

StartBatch ==
    /\ At("off") /\ script.pc \in {"none", "exited"}
    /\ batch.n < MaxBatches /\ MayStart
    /\ batch' = [batch EXCEPT !.pc = "next", !.n = @ + 1, !.i = 0, !.streak = 0]
    /\ rows' = <<>>
    /\ Collect
    /\ KeepTestbed /\ Works /\ UNCHANGED <<production, evidence, stops>>

MoreCyclesOrOne == batch.i <= Len(Cycles)
MoreCycles      == batch.i < Len(Cycles)

StartCycle ==
    /\ At("next")
    /\ batch' = IF MoreCycles
                  THEN [batch EXCEPT !.pc = "apply", !.i = @ + 1, !.injected = "none",
                          !.symptom = "none", !.recovered = "none", !.clean = "none",
                          !.failed = FALSE]
                  ELSE [batch EXCEPT !.pc = "end"]
    /\ NoScript /\ Works /\ KeepBooks

CallScript ==
    /\ batch.pc \in DOMAIN CmdOf /\ script.pc = "none"
    /\ Call(CmdOf[batch.pc], Target)
    /\ KeepTestbed /\ Works /\ UNCHANGED runnerVars

Applied ==
    /\ At("apply") /\ Returns
    /\ To(IF script.rc = 0 THEN "probe" ELSE "undo")
    /\ KeepBooks

\* Whether the revert of a failed cycle worked is not looked at.
Undone ==
    /\ At("undo") /\ Returns
    /\ To("failed")
    /\ KeepBooks

\* Half way: an injection that does not show ends the cycle, unless observing.
Probed ==
    /\ At("probe") /\ Returns
    /\ LET injected == script.out = "true"
       IN  batch' = [batch EXCEPT !.injected = Bool(injected),
                       !.pc = IF injected \/ ObserveOnly THEN "revert" ELSE "undo"]
    /\ KeepBooks

RevertNeverFails == FALSE
RevertFailed     == script.rc # 0

Reverted ==
    /\ At("revert") /\ Returns
    /\ To(IF RevertFailed THEN "failed" ELSE "snapshot")
    /\ KeepBooks

\* probe_signals on the backends: immediately, and three more after settling.
Snapshot ==
    /\ At("snapshot")
    /\ \/ To("reprobe") /\ Works
       \/ To("failed") /\ Fails("backend")
    /\ NoScript /\ KeepBooks

Reprobed ==
    /\ At("reprobe") /\ Returns
    /\ batch' = [batch EXCEPT !.pc = "residue", !.clean = Bool(script.out = "false")]
    /\ KeepBooks

FlagFilesClean ==
    /\ \A t \in Targets : t.prim = "set_flag" => fault[t] = 0
    /\ [prim |-> "set_flag", svc |-> Target.svc] \notin mark
    /\ Target.svc \notin backup

\* Each class in its own way; of iptables and tc only the output counts.
ResidueSays(clean) ==
    CASE Target.prim = "set_flag" -> clean = FlagFilesClean /\ Works
      [] Target.prim = "kill_container" ->
           \/ clean = Up(Target.svc) /\ Works
           \/ ~clean /\ Fails("docker")
      [] OTHER ->
           \/ clean = (Up(Target.svc) /\ fault[Target] = 0) /\ Works
           \/ ~clean /\ Fails("docker")
           \/ clean /\ Up(Target.svc)
                    /\ Fails(IF Target.prim = "drop_inbound" THEN "iptables" ELSE "tc")

CheckResidue ==
    /\ At("residue")
    /\ \E clean \in BOOLEAN :
         /\ ResidueSays(clean)
         /\ batch' = [batch EXCEPT !.pc = "harvest",
                        !.clean = Bool(batch.clean = "true" /\ clean)]
    /\ NoScript /\ KeepBooks

\* judge_symptom and judge_recovered answer True, False or None; a recovery
\* window that is empty (debug tier) is not judged.
Harvest ==
    /\ At("harvest")
    /\ \/ /\ \E symptom, recovered \in IF ObserveOnly THEN {"none"} ELSE Verdicts :
               batch' = [batch EXCEPT !.pc = IF CardMode THEN "gate" ELSE "book",
                           !.symptom = symptom, !.recovered = recovered]
          /\ Works
       \/ To("failed") /\ Fails("backend")
    /\ NoScript /\ KeepBooks

(* --------------------------- pack_and_view ----------------------------- *)

\* probe_gate
Admits ==
    IF ObserveOnly THEN batch.injected # "false"
    ELSE batch.injected = "true" /\ batch.symptom # "false" /\ batch.recovered # "false"

Booked(verdict, packed) ==
    [production EXCEPT ![batch.i] =
       [batch |-> batch.n, verdict |-> verdict, clean |-> batch.clean, packed |-> packed]]

\* A card that fails keeps whatever pack an earlier batch left.
Gate ==
    /\ At("gate")
    /\ IF Admits
         THEN To("pack") /\ UNCHANGED production
         ELSE To("book") /\ production' = Booked("failed", FALSE)
    /\ NoScript /\ Works /\ UNCHANGED <<rows, evidence, stops>>

FailUnbooked ==
    /\ At("failed")
    /\ batch' = [batch EXCEPT !.pc = "book", !.failed = TRUE]
    /\ NoScript /\ Works /\ KeepBooks

\* A cycle that ended early: the card fails, a hand-written cycle stops the
\* batch.
Fail ==
    /\ At("failed")
    /\ batch' = [batch EXCEPT !.pc = "book", !.failed = TRUE]
    /\ production' = IF CardMode THEN Booked("failed", FALSE) ELSE production
    /\ NoScript /\ Works /\ UNCHANGED <<rows, evidence, stops>>

Write(part, n) == evidence' = [evidence EXCEPT ![batch.i][part] = n]

\* pack.pack writes file after file; an exception leaves it torn and ends the
\* batch through the finally of main().
Pack ==
    /\ At("pack")
    /\ \/ Write("pack", batch.n) /\ To("alerts") /\ Works
       \/ Write("pack", 0) /\ To("end") /\ Fails("backend")
    /\ NoScript /\ UNCHANGED <<rows, production, stops>>

Detect ==
    /\ At("alerts")
    /\ Write("alerts", batch.n) /\ To("save")
    /\ NoScript /\ Works /\ UNCHANGED <<rows, production, stops>>

\* The first save passes the card, not packed yet: write_symptom reads it back.
SavePackedEarly == Booked("passed", TRUE)
SaveEarly       == Booked("passed", FALSE)

Save ==
    /\ At("save")
    /\ production' = SaveEarly /\ To("view")
    /\ NoScript /\ Works /\ UNCHANGED <<rows, evidence, stops>>

View ==
    /\ At("view")
    /\ Write("view", batch.n) /\ To("saved")
    /\ NoScript /\ Works /\ UNCHANGED <<rows, production, stops>>

SavePacked ==
    /\ At("saved")
    /\ production' = Booked("passed", TRUE) /\ To("book")
    /\ NoScript /\ Works /\ UNCHANGED <<rows, evidence, stops>>

(* ------------------------------ the books ------------------------------ *)

Row == [bad |-> batch.failed \/ (CardMode /\ production[batch.i].verdict = "failed"),
        recovered |-> batch.recovered, clean |-> batch.clean]

\* The streak after this cycle: failed cards, or failed recoveries.
Streak ==
    IF CardMode THEN IF Row.bad THEN batch.streak + 1 ELSE 0
    ELSE CASE ~ObserveOnly /\ batch.recovered = "false" -> batch.streak + 1
           [] ~ObserveOnly /\ batch.recovered = "true"  -> 0
           [] OTHER                                     -> batch.streak

StopsAtStreakOnly == Streak >= (IF CardMode THEN AbortGate ELSE AbortRecovered)

Stops ==
    \/ ~CardMode /\ batch.failed
    \/ Streak >= (IF CardMode THEN AbortGate ELSE AbortRecovered)

Book ==
    /\ At("book")
    /\ rows' = Append(rows, Row)
    /\ batch' = [batch EXCEPT !.streak = Streak, !.pc = IF Stops THEN "end" ELSE "next"]
    /\ NoScript /\ Works /\ UNCHANGED <<production, evidence, stops>>

\* The finally: the summary is written, the lock released.
EndBatch ==
    /\ At("end")
    /\ To("off")
    /\ NoScript /\ Works /\ KeepBooks

\* Ctrl-C takes the script with it, a kill of the runner leaves the script to
\* itself.  Neither reverts what is applied.
Stop ==
    /\ ~At("off") /\ stops < MaxStops
    /\ stops' = stops + 1
    /\ To("off")
    /\ Collect \/ UNCHANGED script
    /\ KeepTestbed /\ Works
    /\ evidence' \in {evidence} \cup
         (IF At("pack") THEN {[evidence EXCEPT ![batch.i].pack = 0]} ELSE {})
    /\ UNCHANGED <<rows, production>>

RunScript == ScriptStep /\ UNCHANGED runnerVars

Next ==
    \/ StartBatch \/ StartCycle \/ CallScript \/ RunScript
    \/ Applied \/ Undone \/ Probed \/ Reverted \/ Snapshot \/ Reprobed
    \/ CheckResidue \/ Harvest
    \/ Gate \/ Fail \/ Pack \/ Detect \/ Save \/ View \/ SavePacked
    \/ Book \/ EndBatch \/ Stop

Spec == Init /\ [][Next]_vars

(* ------------------------------ properties ----------------------------- *)

Quiet == At("off") /\ script.pc \in {"none", "exited"}

\* What iptables and tc could not undo is not always an error.
NetworkToolsWork == failed \cap {"iptables", "tc"} = {}

\* Two cards drop the packets of one service: the second adds its rule over that
\* of a first that could not be reverted, and one revert unmarks both.
DropsTwice(t) ==
    /\ t.prim = "drop_inbound" /\ CardMode
    /\ \E i, j \in DOMAIN Cycles : i < j /\ Cycles[i] = t /\ Cycles[j] = t

\* No two faults are live at once: a cycle starts only on a testbed that the
\* one before it has left as it was (workflow.md 5), whatever docker, flagd and
\* the backends do.  A batch of cards goes on after a revert that failed; the
\* books then show it, the card is among the failed ones, unless the rules that
\* are left carry no state file and outlive the books.
OneFault ==
    stops = 0 /\ NetworkToolsWork /\ Cardinality(Live) > 1 =>
      /\ CardMode
      /\ (\E r \in 1..Len(rows) : rows[r].bad) \/ (\E t \in Live : DropsTwice(t))

\* A fault left behind is not silent: when no batch and no script runs, it has
\* a state file, so that the next batch refuses to start.  For a killed
\* container and a switched flag that holds whatever failed and wherever the
\* batch was stopped; DROP rules and delays, which are marked after they are
\* live and unmarked before it is sure that they are gone, escape by a stop, by
\* a failure of their own tool or, rules, by a second card, and by nothing else.
NoSilentResidue ==
    Quiet => \A t \in Live :
      \/ t \in mark \/ t.svc \in backup
      \/ t.prim = "drop_inbound" /\ (stops > 0 \/ "iptables" \in failed)
      \/ DropsTwice(t)
      \/ t.prim = "delay_outbound" /\ (stops > 0 \/ "tc" \in failed)

\* A changed restart policy can be put back: while a service has "no", its
\* state file holds the service's own policy, whatever failed or was repeated.
RestartPolicyKept ==
    \A s \in restart :
      /\ [prim |-> "kill_container", svc |-> s] \in mark
      /\ saved[s] = "own"

\* A card that says "packed" has a whole pack, of the batch that admitted it,
\* until a later batch begins to pack it again (which does not take the card
\* back first: stopped there, it leaves a card that says more than there is).
PackedIsWhole ==
    \A c \in Cards :
      LET book == production[c]
      IN  book.packed /\ (book.batch = batch.n \/ evidence[c].pack = book.batch) =>
            /\ book.verdict = "passed"
            /\ \A part \in {"pack", "alerts", "view"} : evidence[c][part] = book.batch

\* Every card the batch is past is booked by this batch, and as its row says.
CardsBooked ==
    CardMode => \A c \in 1..Len(rows) :
      /\ production[c].batch = batch.n
      /\ production[c].verdict = (IF rows[c].bad THEN "failed" ELSE "passed")
      /\ production[c].packed = ~rows[c].bad

\* A batch goes on after failures just as far as its limits say: a hand-written
\* one not past a failed cycle or the limit of failed recoveries since one that
\* worked, one of cards not past the limit of failed cards in a row.
GoesOnWithinLimits ==
    At("next") =>
      IF CardMode
        THEN ~\E k \in 1..Len(rows) : /\ k + AbortGate - 1 <= Len(rows)
                                      /\ \A j \in k..(k + AbortGate - 1) : rows[j].bad
        ELSE /\ \A k \in 1..Len(rows) : ~rows[k].bad
             /\ Cardinality({k \in 1..Len(rows) :
                  /\ rows[k].recovered = "false"
                  /\ \A j \in k..Len(rows) : rows[j].recovered # "true"}) < AbortRecovered

=============================================================================
