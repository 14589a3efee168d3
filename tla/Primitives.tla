----------------------------- MODULE Primitives ------------------------------
(****************************************************************************)
(* The injection scripts of scripts/primitives: apply, revert and probe of  *)
(* kill_container, drop_inbound, delay_outbound and set_flag, on a testbed  *)
(* whose docker, iptables, tc and flagd may fail under them.                *)
(*                                                                          *)
(* One script runs at a time, a few commands long; each command that        *)
(* changes the testbed or scripts/state is a step of its own, so a script   *)
(* may fail or be killed between any two of them.                           *)
(****************************************************************************)
EXTENDS Integers, FiniteSets

CONSTANTS
    Services,      \* compose services that are targets
    Fallible       \* what may fail, any number of times: subset of Tools

Tools == {"docker", "iptables", "tc", "flagd", "backend"}

ASSUME PrimitivesAssumption == Fallible \subseteq Tools

Prims   == {"kill_container", "drop_inbound", "delay_outbound", "set_flag"}
Targets == [prim : Prims, svc : Services]

VARIABLES
    fault,     \* per target: 1 when its fault is live; DROP rules are counted
    restart,   \* services whose restart policy is "no"
    mark,      \* state files <svc>.restart, .dport, .delay, .flag
    saved,     \* the policy <svc>.restart holds: the service's own, or "no"
    backup,    \* state files <svc>.flag.bak.json
    script,    \* the script that runs
    failed     \* the tools that have failed so far; history

primVars == <<fault, restart, mark, saved, backup, script, failed>>

Cmds == {"apply", "revert", "probe"}

Scripts == [pc : {"none", "start", "switch", "mark", "unmark", "check", "exited"},
            cmd : Cmds, target : Targets, rc : {0, 1},
            out : {"true", "false", "none"}]        \* injected=...

PrimTypeOK ==
    /\ fault \in [Targets -> Nat]
    /\ restart \subseteq Services
    /\ mark \subseteq Targets
    /\ saved \in [Services -> {"own", "no"}]
    /\ backup \subseteq Services
    /\ script \in Scripts
    /\ failed \subseteq Fallible

Live == {t \in Targets : fault[t] > 0}

StateFiles == mark # {} \/ backup # {}

PrimInit ==
    /\ fault = [t \in Targets |-> 0]
    /\ restart = {} /\ saved = [s \in Services |-> "own"]
    /\ mark = {} /\ backup = {}
    /\ \E t \in Targets :
         script = [pc |-> "none", cmd |-> "probe", target |-> t, rc |-> 0, out |-> "none"]
    /\ failed = {}

(* ------------------------------ vocabulary ----------------------------- *)

T == script.target

Runs(prim, cmd, pc) == T.prim = prim /\ script.cmd = cmd /\ script.pc = pc

Goto(pc) == script' = [script EXCEPT !.pc = pc]
Exit(rc) == script' = [script EXCEPT !.pc = "exited", !.rc = rc, !.out = "none"]
Say(injected) ==
    script' = [script EXCEPT !.pc = "exited", !.rc = 0,
                             !.out = IF injected THEN "true" ELSE "false"]

Works == UNCHANGED failed
Fails(tool) ==
    tool \in Fallible /\ failed' = failed \cup {tool}

Inject    == fault' = [fault EXCEPT ![T] = 1]
Heal      == fault' = [fault EXCEPT ![T] = 0]
KeepBed   == UNCHANGED <<fault, restart>>
KeepFiles == UNCHANGED <<mark, saved, backup>>

Up(svc) == fault[[prim |-> "kill_container", svc |-> svc]] = 0

\* drop_inbound and delay_outbound work in the network namespace of the
\* container: they stop at once when it does not run, and their rules vanish
\* with it.
InNetns(t) == t.prim \in {"drop_inbound", "delay_outbound"}

\* resolve(): docker does not answer, or there is no process to enter.
CannotStart ==
    /\ script.pc = "start"
    /\ \/ T.prim # "set_flag" /\ Fails("docker")
       \/ InNetns(T) /\ ~Up(T.svc) /\ Works
    /\ Exit(1)
    /\ KeepBed /\ KeepFiles

Started(prim, cmd) ==
    Runs(prim, cmd, "start") /\ (InNetns(T) => Up(T.svc))

(* ---------------------------- kill_container --------------------------- *)

\* The restart policy is saved first, and only by the first apply.
SavesAnyway == TRUE
SavesPolicy == T \notin mark

KillApplySave ==
    /\ Started("kill_container", "apply")
    /\ mark' = mark \cup {T}
    /\ saved' = IF SavesPolicy
                  THEN [saved EXCEPT ![T.svc] = IF T.svc \in restart THEN "no" ELSE "own"]
                  ELSE saved
    /\ Goto("switch") /\ Works
    /\ KeepBed /\ UNCHANGED backup

\* docker update --restart=no, docker kill: an error if it does not run.
KillApplyKill ==
    /\ Runs("kill_container", "apply", "switch")
    /\ \/ /\ Up(T.svc) /\ Works
          /\ restart' = restart \cup {T.svc}
          /\ fault' = [t \in Targets |->
                         IF t = T THEN 1
                         ELSE IF t.svc = T.svc /\ InNetns(t) THEN 0 ELSE fault[t]]
          /\ Exit(0)
       \/ /\ \/ ~Up(T.svc) /\ Works /\ restart' = restart \cup {T.svc}
             \/ Fails("docker") /\ restart' \in {restart, restart \cup {T.svc}}
          /\ Exit(1)
          /\ UNCHANGED fault
    /\ KeepFiles

KillRevertForgets ==
    /\ Started("kill_container", "revert")
    /\ \/ Heal /\ Goto("unmark") /\ Works /\ UNCHANGED mark
       \/ Fails("docker") /\ Exit(1) /\ UNCHANGED fault /\ mark' = mark \ {T}
    /\ UNCHANGED <<restart, saved, backup>>

KillRevertStart ==
    /\ Started("kill_container", "revert")
    /\ \/ Heal /\ Goto("unmark") /\ Works
       \/ Fails("docker") /\ Exit(1) /\ UNCHANGED fault
    /\ UNCHANGED restart
    /\ KeepFiles

\* Without its state file the policy is left as it is.
KillRevertRestore ==
    /\ Runs("kill_container", "revert", "unmark")
    /\ \/ T \notin mark /\ Exit(0) /\ Works /\ UNCHANGED restart
       \/ /\ T \in mark /\ Goto("check") /\ Works
          /\ restart' = IF saved[T.svc] = "own" THEN restart \ {T.svc}
                                                ELSE restart \cup {T.svc}
       \/ T \in mark /\ Fails("docker") /\ Exit(1) /\ UNCHANGED restart
    /\ UNCHANGED fault
    /\ KeepFiles

KillRevertUnmark ==
    /\ Runs("kill_container", "revert", "check")
    /\ mark' = mark \ {T} /\ Exit(0) /\ Works
    /\ KeepBed /\ UNCHANGED <<saved, backup>>

KillProbe ==
    /\ Started("kill_container", "probe")
    /\ Say(~Up(T.svc)) /\ Works
    /\ KeepBed /\ KeepFiles

(* ----------------------------- drop_inbound ---------------------------- *)

\* iptables -I adds a rule each time; the state file is written after it.
DropApplyInsert ==
    /\ Started("drop_inbound", "apply")
    /\ \/ fault' = [fault EXCEPT ![T] = @ + 1] /\ Goto("mark") /\ Works
       \/ Fails("iptables") /\ Exit(1) /\ UNCHANGED fault
    /\ UNCHANGED restart /\ KeepFiles

\* iptables -D takes one rule away; that it could not is a warning, no error.
DropRevertDelete ==
    /\ Started("drop_inbound", "revert")
    /\ \/ fault' = [fault EXCEPT ![T] = IF @ > 0 THEN @ - 1 ELSE 0] /\ Works
       \/ fault[T] > 0 /\ Fails("iptables") /\ UNCHANGED fault
    /\ Goto("unmark")
    /\ UNCHANGED restart /\ KeepFiles

DropRevertUnmark ==
    /\ Runs("drop_inbound", "revert", "unmark")
    /\ mark' = mark \ {T} /\ Exit(0) /\ Works
    /\ KeepBed /\ UNCHANGED <<saved, backup>>

\* iptables -S that cannot be run greps as no rule.
DropProbe ==
    /\ Started("drop_inbound", "probe")
    /\ \/ Say(fault[T] > 0) /\ Works
       \/ Say(FALSE) /\ Fails("iptables")
    /\ KeepBed /\ KeepFiles

(* ---------------------------- delay_outbound --------------------------- *)

\* The fault is live with the last tc command, the u32 filter; an earlier one
\* that fails is rolled back.
DelayApplyInstall ==
    /\ Started("delay_outbound", "apply")
    /\ \/ fault[T] > 0 /\ Exit(1) /\ UNCHANGED fault /\ Works  \* a root qdisc is there
       \/ fault[T] = 0 /\ Inject /\ Goto("mark") /\ Works
       \/ fault[T] = 0 /\ Fails("tc") /\ Exit(1) /\ UNCHANGED fault
    /\ UNCHANGED restart /\ KeepFiles

\* Without its state file revert does nothing and succeeds.
DelayRevertDelete ==
    /\ Started("delay_outbound", "revert")
    /\ \/ T \notin mark /\ Exit(0) /\ UNCHANGED fault /\ Works
       \/ T \in mark /\ Heal /\ Goto("unmark") /\ Works
       \/ T \in mark /\ Fails("tc") /\ Goto("unmark") /\ UNCHANGED fault
    /\ UNCHANGED restart /\ KeepFiles

DelayRevertUnmark ==
    /\ Runs("delay_outbound", "revert", "unmark")
    /\ mark' = mark \ {T} /\ Goto("check") /\ Works
    /\ KeepBed /\ UNCHANGED <<saved, backup>>

\* A residual qdisc is an error, the state file being gone already; a tc that
\* cannot be run counts as none.
DelayRevertCheck ==
    /\ Runs("delay_outbound", "revert", "check")
    /\ \/ Exit(IF fault[T] > 0 THEN 1 ELSE 0) /\ Works
       \/ fault[T] > 0 /\ Fails("tc") /\ Exit(0)
    /\ KeepBed /\ KeepFiles

DelayProbe ==
    /\ Started("delay_outbound", "probe")
    /\ \/ Say(T \in mark /\ fault[T] > 0) /\ Works
       \/ Say(FALSE) /\ Fails("tc")
    /\ KeepBed /\ KeepFiles

\* printf > "$STATE_FILE" after the fault is live, of the three that do so.
ApplyMark ==
    /\ script.cmd = "apply" /\ script.pc = "mark"
    /\ mark' = mark \cup {T} /\ Exit(0) /\ Works
    /\ KeepBed /\ UNCHANGED <<saved, backup>>

(* ------------------------------- set_flag ------------------------------ *)

FlagApplyBackup ==
    /\ Started("set_flag", "apply")
    /\ \/ /\ T \in mark \/ fault[T] > 0             \* already applied, or set
          /\ Exit(1) /\ Works /\ UNCHANGED backup
       \/ /\ T \notin mark /\ fault[T] = 0
          /\ \/ backup' = backup \cup {T.svc} /\ Goto("switch") /\ Works
             \/ Fails("flagd") /\ Exit(1) /\ UNCHANGED backup
    /\ KeepBed /\ UNCHANGED <<mark, saved>>

\* The new variant is in force, or flagd did not pick it up and the backup is
\* put back.
FlagApplySwitch ==
    /\ Runs("set_flag", "apply", "switch")
    /\ \/ Inject /\ Goto("mark") /\ Works /\ UNCHANGED backup
       \/ Fails("flagd") /\ Exit(1) /\ UNCHANGED fault /\ backup' = backup \ {T.svc}
    /\ UNCHANGED <<restart, mark, saved>>

\* Without its state file revert does nothing and succeeds.
FlagRevertRestore ==
    /\ Started("set_flag", "revert")
    /\ \/ T \notin mark /\ Exit(0) /\ UNCHANGED fault /\ Works
       \/ T \in mark /\ Heal /\ Goto("unmark") /\ Works
       \/ T \in mark /\ Fails("flagd") /\ Exit(1) /\ UNCHANGED fault
    /\ UNCHANGED restart /\ KeepFiles

FlagRevertUnmark ==
    /\ Runs("set_flag", "revert", "unmark")
    /\ mark' = mark \ {T} /\ backup' = backup \ {T.svc}
    /\ Exit(0) /\ Works
    /\ KeepBed /\ UNCHANGED saved

FlagProbe ==
    /\ Started("set_flag", "probe")
    /\ \/ Say(T \in mark /\ fault[T] > 0) /\ Works
       \/ Say(FALSE) /\ Fails("flagd")
    /\ KeepBed /\ KeepFiles

(* -------------------------------- scripts ------------------------------ *)

ScriptStep ==
    \/ CannotStart
    \/ KillApplySave \/ KillApplyKill \/ KillRevertStart \/ KillRevertRestore
    \/ KillRevertUnmark \/ KillProbe
    \/ DropApplyInsert \/ DropRevertDelete \/ DropRevertUnmark \/ DropProbe
    \/ DelayApplyInstall \/ DelayRevertDelete \/ DelayRevertUnmark \/ DelayRevertCheck
    \/ DelayProbe \/ ApplyMark
    \/ FlagApplyBackup \/ FlagApplySwitch \/ FlagRevertRestore \/ FlagRevertUnmark
    \/ FlagProbe

Call(cmd, target) ==
    script' = [pc |-> "start", cmd |-> cmd, target |-> target, rc |-> 0, out |-> "none"]

Collect == script' = [script EXCEPT !.pc = "none", !.rc = 0, !.out = "none"]

=============================================================================
