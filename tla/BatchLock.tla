------------------------------ MODULE BatchLock ------------------------------
(****************************************************************************)
(* scripts/state/runner.lock: the flock and the lock file that keep two     *)
(* batches, and a batch and the WAL probe (prom_wal_restart_probe.sh), from *)
(* working on the testbed at the same time.                                 *)
(*                                                                          *)
(* A flock belongs to an inode and dies with its process; the name          *)
(* runner.lock is created by whoever opens it and removed by whoever lets   *)
(* go, so the name may come to mean another inode.                          *)
(****************************************************************************)
EXTENDS Integers

CONSTANTS
    Null,
    Runners,      \* callers of run_batch.py, one batch after the other each
    Probes,       \* callers of prom_wal_restart_probe.sh
    MaxStarts,    \* bound: times each of them is started
    MaxDeaths     \* bound: processes killed, and pre-batch hooks that fail

ASSUME LockAssumption ==
    /\ Runners \cap Probes = {}
    /\ MaxStarts \in Nat /\ MaxDeaths \in Nat
    /\ Null \notin Runners \cup Probes
    /\ Null \notin (Runners \cup Probes) \X (1..MaxStarts)

Procs  == Runners \cup Probes
Inodes == Procs \X (1..MaxStarts)      \* who created it, in which start

VARIABLES
    name,      \* the inode runner.lock names, Null when there is no such file
    flock,     \* per inode, the process that holds its exclusive lock
    procs,
    deaths,
    stolen     \* history: a name was removed that another process had opened

lockVars == <<name, flock, procs, deaths, stolen>>

Processes == [pc : {"idle", "poll", "open", "flock", "work", "remove"},
              fd : Inodes \cup {Null},
              starts : 0..MaxStarts]

LockTypeOK ==
    /\ name \in Inodes \cup {Null}
    /\ flock \in [Inodes -> Procs \cup {Null}]
    /\ procs \in [Procs -> Processes]
    /\ \A p \in Procs :
         /\ procs[p].pc \in {"flock", "work"} <=> procs[p].fd # Null
         /\ procs[p].pc = "work" => flock[procs[p].fd] = p
    /\ deaths \in 0..MaxDeaths
    /\ stolen \in BOOLEAN

LockInit ==
    /\ name = Null
    /\ flock = [i \in Inodes |-> Null]
    /\ procs = [p \in Procs |-> [pc |-> "idle", fd |-> Null, starts |-> 0]]
    /\ deaths = 0
    /\ stolen = FALSE

Moves(p, pc) == procs' = [procs EXCEPT ![p].pc = pc]

\* The file is closed: what was locked through it is unlocked.
Unlocked(p) == [i \in Inodes |-> IF flock[i] = p THEN Null ELSE flock[i]]

Start(p) ==
    /\ procs[p].pc = "idle" /\ procs[p].starts < MaxStarts
    /\ procs' = [procs EXCEPT
                   ![p].pc = IF p \in Probes THEN "poll" ELSE "open",
                   ![p].starts = @ + 1]
    /\ UNCHANGED <<name, flock, deaths, stolen>>

\* The probe looks for the file first, every POLL_SEC.
FileMissing == name = Null

Poll(p) ==
    /\ p \in Probes /\ procs[p].pc = "poll" /\ FileMissing
    /\ Moves(p, "open")
    /\ UNCHANGED <<name, flock, deaths, stolen>>

\* open(LOCK, "a+"), exec 9>"$LOCK": creates the file when it is not there.
Open(p) ==
    LET inode == IF name = Null THEN <<p, procs[p].starts>> ELSE name
    IN  /\ procs[p].pc = "open"
        /\ name' = inode
        /\ procs' = [procs EXCEPT ![p].pc = "flock", ![p].fd = inode]
        /\ UNCHANGED <<flock, deaths, stolen>>

\* LOCK_EX | LOCK_NB: a runner that does not get it exits, a probe polls on.
LockAnyway(i) == TRUE
Free(i)       == flock[i] = Null

Flock(p) ==
    LET inode == procs[p].fd
    IN  /\ procs[p].pc = "flock"
        /\ IF Free(inode)
             THEN /\ flock' = [flock EXCEPT ![inode] = p]
                  /\ Moves(p, "work")
             ELSE /\ procs' = [procs EXCEPT
                                 ![p].pc = IF p \in Probes THEN "poll" ELSE "idle",
                                 ![p].fd = Null]
                  /\ UNCHANGED flock
        /\ UNCHANGED <<name, deaths, stolen>>

\* release_lock(), release(): unlock and close first, then remove by name.
Unlock(p) ==
    /\ procs[p].pc = "work"
    /\ flock' = Unlocked(p)
    /\ procs' = [procs EXCEPT ![p].pc = "remove", ![p].fd = Null]
    /\ UNCHANGED <<name, deaths, stolen>>

LeaveFile(p) ==
    /\ procs[p].pc = "remove"
    /\ Moves(p, "idle")
    /\ UNCHANGED <<name, flock, deaths, stolen>>

Remove(p) ==
    /\ procs[p].pc = "remove"
    /\ name' = Null
    /\ stolen' = (stolen \/ \E q \in Procs : name # Null /\ procs[q].fd = name)
    /\ Moves(p, "idle")
    /\ UNCHANGED <<flock, deaths>>

\* A kill anywhere, or the SystemExit of a failed pre-batch hook, which is
\* raised outside the try: the kernel unlocks, the file stays.
Die(p) ==
    /\ procs[p].pc # "idle"
    /\ deaths < MaxDeaths
    /\ deaths' = deaths + 1
    /\ flock' = Unlocked(p)
    /\ procs' = [procs EXCEPT ![p].pc = "idle", ![p].fd = Null]
    /\ UNCHANGED <<name, stolen>>

Run(p) == Poll(p) \/ Open(p) \/ Flock(p) \/ Unlock(p) \/ Remove(p)

LockNext == \E p \in Procs : Start(p) \/ Run(p) \/ Die(p)

LockSpec == LockInit /\ [][LockNext]_lockVars

\* A started process runs on; the work under the lock ends.
FairLockSpec == LockSpec /\ \A p \in Procs : WF_lockVars(Run(p))

(* ------------------------------ properties ----------------------------- *)

\* A batch and the probe never work at once (workflow.md 7.5).
Exclusive ==
    \A p, q \in Procs : procs[p].pc = "work" /\ procs[q].pc = "work" => p = q

\* Nothing but the removal of a name that another process has opened lets two
\* of them work at once; deaths and lost races for the lock do not.
ExclusiveUnlessStolen == ~stolen => Exclusive

\* A probe that waits for the lock gets it in the end, unless somebody is
\* killed: the file a killed batch leaves keeps every probe polling.
ProbeGetsIn ==
    \A p \in Probes :
      procs[p].pc = "poll" ~> procs[p].pc \in {"work", "idle"} \/ deaths > 0

=============================================================================
