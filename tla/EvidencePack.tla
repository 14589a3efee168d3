---------------------------- MODULE EvidencePack ----------------------------
(****************************************************************************)
(* scripts/evidence/pack.py: pack(), --rebuild-topology and                 *)
(* --refresh-metrics, each a process of its own.  A batch packs one card    *)
(* after another; an operator may repack or refresh at the same time, since *)
(* pack.py takes no lock.                                                   *)
(*                                                                          *)
(* Every file is written in place: opened, which empties it, then written.  *)
(* A version is j for what job j wrote, -j while it is torn, 0 for no file; *)
(* a digest is the version it was taken of.                                 *)
(****************************************************************************)
EXTENDS Integers, Sequences, FiniteSets

CONSTANTS
    Cards,
    MaxJobs,       \* bound: jobs started
    MaxOverlaps,   \* bound: jobs started while others are at work
    MaxStops       \* bound: jobs killed, or ended by a backend

ASSUME PackAssumption ==
    MaxJobs \in Nat /\ MaxOverlaps \in Nat /\ MaxStops \in Nat

VARIABLES
    files,     \* evidence/<card_id>/
    shared,    \* evidence/_baseline/ and evidence/_shared/
    jobs       \* what every job has read and where it is; kept when it ends

vars == <<files, shared, jobs>>

FIVE   == {"logs", "metrics", "traces", "config_diff", "topology"}
Names  == FIVE \cup {"manifest"}
Shared == {"flagd", "env", "snapshot", "graph"}
Kinds  == {"pack", "rebuild", "refresh"}

Versions == -MaxJobs..MaxJobs
Ids      == 1..Len(jobs)

Ends == {"done", "stopped", "raised"}
Pcs  == Names \cup Shared \cup Ends \cup
        {"read", "ensure", "against", "exists", "digest", "load", "again", "hash"}

Job == [kind : Kinds, card : Cards, pc : Pcs, writing : BOOLEAN,
        with : SUBSET (1..MaxJobs),        \* the jobs it found at work; history
        snaps : BOOLEAN,                   \* it took the snapshot; history
        base : [{"flagd", "env"} -> Versions],
        ref : Versions, sums : [FIVE -> Versions]]

Live == {j \in Ids : jobs[j].pc \notin Ends}

\* A torn file is one being written, or one whose writer was stopped there.
Torn(version, name) ==
    version < 0 =>
      LET writer == jobs[-version]
      IN  writer.pc = "stopped" \/ (writer.pc = name /\ writer.writing)

TypeOK ==
    /\ files \in [Cards -> [Names -> Versions]]
    /\ shared \in [Shared -> Versions]
    /\ jobs \in Seq(Job) /\ Len(jobs) <= MaxJobs
    /\ \A c \in Cards, n \in Names : Torn(files[c][n], n)
    /\ \A n \in Shared : Torn(shared[n], n)

Init ==
    /\ files = [c \in Cards |-> [n \in Names |-> 0]]
    /\ shared = [n \in Shared |-> 0]
    /\ jobs = <<>>

(* ------------------------------ vocabulary ----------------------------- *)

At(j, pc) == jobs[j].pc = pc
To(j, pc) == jobs' = [jobs EXCEPT ![j].pc = pc]
Raise(j)  == To(j, "raised")
KeepFiles == UNCHANGED <<files, shared>>

Card(j) == jobs[j].card

Put(j, name, version) ==
    IF name \in Shared
      THEN shared' = [shared EXCEPT ![name] = version] /\ UNCHANGED files
      ELSE files' = [files EXCEPT ![Card(j)][name] = version] /\ UNCHANGED shared

\* Where a job goes from a file it has written.
After(j) ==
    [logs |-> "metrics", traces |-> "ensure",
     metrics |-> IF jobs[j].kind = "refresh" THEN "hash" ELSE "traces",
     flagd |-> "env", env |-> "snapshot", snapshot |-> "against",
     config_diff |-> "exists", graph |-> "digest", topology |-> "again",
     manifest |-> "done"][jobs[j].pc]

(* ------------------------------- the jobs ------------------------------ *)

\* Two packs of one card at once are left out: a batch runs a card once at a
\* time, and nothing holds of what both would write.
Start(kind, card) ==
    /\ Len(jobs) < MaxJobs
    /\ Live # {} => Cardinality({j \in Ids : jobs[j].with # {}}) < MaxOverlaps
    /\ kind = "refresh" \/ \A j \in Live : Card(j) = card => jobs[j].kind = "refresh"
    /\ jobs' = Append(jobs,
         [kind |-> kind, card |-> card, writing |-> FALSE, with |-> Live, snaps |-> FALSE,
          pc |-> IF kind = "refresh" THEN "read" ELSE "logs",
          base |-> [n \in {"flagd", "env"} |-> 0], ref |-> 0,
          sums |-> [n \in FIVE |-> 0]])
    /\ KeepFiles

\* open(path, "w")
Open(j) ==
    /\ jobs[j].pc \in Names \cup Shared /\ ~jobs[j].writing
    /\ Put(j, jobs[j].pc, -j)
    /\ jobs' = [jobs EXCEPT ![j].writing = TRUE]

CloseUnflushed(j) ==
    /\ jobs[j].writing
    /\ jobs' = [jobs EXCEPT ![j].writing = FALSE, ![j].pc = After(j)]
    /\ KeepFiles

Close(j) ==
    /\ jobs[j].writing
    /\ Put(j, jobs[j].pc, j)
    /\ jobs' = [jobs EXCEPT ![j].writing = FALSE, ![j].pc = After(j)]

FlagdIsThere     == shared["flagd"] # 0
BaselineIsThere  == shared["snapshot"] # 0
BaselineIsBroken == shared["snapshot"] < 0

\* ensure_baseline: the stamp, written last, says that the two files are there;
\* one that is torn cannot be parsed.
EnsureBaseline(j) ==
    /\ At(j, "ensure") /\ KeepFiles
    /\ \/ /\ ~BaselineIsThere
          /\ jobs' = [jobs EXCEPT ![j].pc = "flagd", ![j].snaps = TRUE]
       \/ BaselineIsThere /\ BaselineIsBroken /\ Raise(j)
       \/ BaselineIsThere /\ ~BaselineIsBroken /\ To(j, "against")

\* The baseline files are read for the diff, as text.
ReadBaseline(j) ==
    /\ At(j, "against") /\ KeepFiles
    /\ jobs' = [jobs EXCEPT ![j].pc = "config_diff",
                  ![j].base = [flagd |-> shared["flagd"], env |-> shared["env"]]]

BuildsAnyway(j) == TRUE
Builds(j)       == jobs[j].kind = "rebuild" \/ shared["graph"] = 0

\* pack_topology: the shared graph is built if there is none, or on demand,
EnsureTopology(j) ==
    /\ At(j, "exists") /\ KeepFiles
    /\ To(j, IF Builds(j) THEN "graph" ELSE "digest")

\* hashed,
DigestTopology(j) ==
    /\ At(j, "digest") /\ KeepFiles
    /\ jobs' = [jobs EXCEPT ![j].pc = "load", ![j].ref = shared["graph"]]

\* and opened once more to be parsed.
LoadTopology(j) ==
    /\ At(j, "load") /\ KeepFiles
    /\ IF shared["graph"] < 0 THEN Raise(j) ELSE To(j, "topology")

\* The stamp is read a second time for the manifest.
RereadBaseline(j) ==
    /\ At(j, "again") /\ KeepFiles
    /\ IF BaselineIsBroken THEN Raise(j) ELSE To(j, "hash")

\* refresh_metrics starts from the manifest.
ReadManifest(j) ==
    /\ At(j, "read") /\ KeepFiles
    /\ LET manifest == files[Card(j)]["manifest"]
       IN  IF manifest <= 0 THEN Raise(j)
           ELSE jobs' = [jobs EXCEPT ![j].pc = "metrics",
                                     ![j].sums = jobs[manifest].sums]

SumsAsRead(j) ==
    IF jobs[j].kind = "refresh" THEN jobs[j].sums
    ELSE [n \in FIVE |-> files[Card(j)][n]]

\* A pack hashes its five files, a refresh the one it has written.
Sums(j) ==
    IF jobs[j].kind = "refresh"
      THEN [jobs[j].sums EXCEPT !["metrics"] = files[Card(j)]["metrics"]]
      ELSE [n \in FIVE |-> files[Card(j)][n]]

Hash(j) ==
    /\ At(j, "hash") /\ KeepFiles
    /\ jobs' = [jobs EXCEPT ![j].pc = "manifest", ![j].sums = Sums(j)]

\* Killed, or Prometheus, Jaeger or OpenSearch did not answer.
Stop(j) ==
    /\ j \in Live
    /\ Cardinality({i \in Ids : At(i, "stopped")}) < MaxStops
    /\ To(j, "stopped") /\ KeepFiles

Next ==
    \/ \E kind \in Kinds, card \in Cards : Start(kind, card)
    \/ \E j \in Live :
         \/ Open(j) \/ Close(j)
         \/ EnsureBaseline(j) \/ ReadBaseline(j) \/ RereadBaseline(j)
         \/ EnsureTopology(j) \/ DigestTopology(j) \/ LoadTopology(j)
         \/ ReadManifest(j) \/ Hash(j) \/ Stop(j)

Spec == Init /\ [][Next]_vars

(* ------------------------------ properties ----------------------------- *)

Met(i, j) == i \in jobs[j].with \/ j \in jobs[i].with

JobsOf(card)  == {j \in Ids : Card(j) = card}
PacksOf(card) == {j \in JobsOf(card) : jobs[j].kind # "refresh"}
IsLast(j, ids) == j \in ids /\ \A i \in ids : i <= j

\* The manifest of a card tells the truth about its five files once the last
\* pack and the last job on it came to their ends, whatever was stopped before:
\* another refresh repairs one that was stopped between metrics.json and the
\* manifest, but only another pack repairs a pack.  Jobs that meet on one card
\* promise nothing.
ManifestTells ==
    \A c \in Cards, p, l \in Ids :
      /\ IsLast(p, PacksOf(c)) /\ At(p, "done")
      /\ IsLast(l, JobsOf(c)) /\ At(l, "done")
      /\ ~\E i, j \in JobsOf(c) : Met(i, j)
      => /\ files[c]["manifest"] > 0
         /\ jobs[files[c]["manifest"]].sums = [n \in FIVE |-> files[c][n]]
         /\ \A n \in FIVE : files[c][n] > 0

\* The hash in topology.json is that of the graph it refers to, unless the
\* graph was rebuilt on demand later, or built by a job it met.
RefTells ==
    \A c \in Cards :
      LET j == files[c]["topology"]
          i == IF shared["graph"] < 0 THEN -shared["graph"] ELSE shared["graph"]
      IN  j > 0 /\ jobs[j].ref # shared["graph"] =>
            \/ i > j /\ jobs[i].kind = "rebuild"
            \/ Met(i, j)

\* Every config_diff.txt is against the baseline that is there, two whole files
\* of one snapshot, wherever an earlier snapshot was stopped and whoever packs
\* beside the one that takes it; only two snapshots at once may mix.
DiffAgainstBaseline ==
    \A c \in Cards :
      LET j == files[c]["config_diff"]
      IN  j > 0 /\ ~(\E i, k \in Ids : Met(i, k) /\ jobs[i].snaps /\ jobs[k].snaps) =>
            /\ shared["snapshot"] > 0
            /\ \A n \in {"flagd", "env"} :
                 jobs[j].base[n] = shared[n] /\ shared[n] = shared["snapshot"]

=============================================================================
