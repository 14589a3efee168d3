------------------------- MODULE EvidencePackProofs -------------------------
(****************************************************************************)
(* Proofs about the packs of a card and about the gate that admits it.      *)
(*                                                                          *)
(* EvidencePack, for any number of cards, jobs, overlaps and stops.  Jobs   *)
(* are only appended, and a job changes nothing of another; most of the     *)
(* argument is what one job knows of the files while others write them.     *)
(*                                                                          *)
(* ProbeGate, for any windows as long as InHalfMinutes says and any queries *)
(* that fail: what a snapshot shows is what the whole window does, or less, *)
(* so a verdict is carried over to the whole windows and argued about       *)
(* there.                                                                   *)
(****************************************************************************)
EXTENDS EvidencePack, ProbeGate, SequenceTheorems, TLAPS

Written == Names \cup Shared

By(version) == IF version < 0 THEN -version ELSE version

(* -------------------------------- types -------------------------------- *)

\* What a job can be doing.
Fits(job) ==
    /\ job.writing => job.pc \in Written \cup {"stopped"}
    /\ job.kind = "refresh" => job.pc \in {"read", "metrics", "hash", "manifest"} \cup Ends
    /\ job.kind # "refresh" => job.pc # "read"
    /\ job.pc \in {"flagd", "env", "snapshot"} => job.snaps

\* A job that is at work was met by all that started after it.
Meetings == \A i \in Live, j \in Ids : i < j => i \in jobs[j].with

\* Every version of a file is a job's, of a card's file a job's of the card.
Owned ==
    /\ \A c \in Cards, n \in Names : files[c][n] # 0 =>
         By(files[c][n]) \in Ids /\ Card(By(files[c][n])) = c
    /\ \A n \in Shared : shared[n] # 0 => By(shared[n]) \in Ids

TypeInv == TypeOK /\ (\A j \in Ids : Fits(jobs[j])) /\ Meetings /\ Owned

\* Job j becomes job, every other stays as it is.
Becomes(j, job) ==
    /\ job \in Job /\ jobs' \in Seq(Job) /\ Len(jobs') = Len(jobs)
    /\ jobs'[j] = job
    /\ \A i \in Ids : i # j => jobs'[i] = jobs[i]

Step(j) ==
    \/ Open(j) \/ Close(j)
    \/ EnsureBaseline(j) \/ ReadBaseline(j) \/ RereadBaseline(j)
    \/ EnsureTopology(j) \/ DigestTopology(j) \/ LoadTopology(j)
    \/ ReadManifest(j) \/ Hash(j) \/ Stop(j)

LEMMA BecomesIt ==
  ASSUME jobs \in Seq(Job), NEW j \in Ids, NEW job \in Job, jobs' = [jobs EXCEPT ![j] = job]
  PROVE  Becomes(j, job)
  BY ExceptSeq DEF Becomes, Ids

LEMMA JobTypes ==
  ASSUME TypeInv, NEW j \in Ids
  PROVE  /\ jobs[j] \in Job /\ Fits(jobs[j]) /\ j \in Nat /\ j >= 1 /\ j <= MaxJobs
         /\ j \in Versions /\ -j \in Versions /\ DOMAIN jobs = Ids
  <1>1. jobs \in Seq(Job) /\ Len(jobs) \in Nat /\ DOMAIN jobs = Ids /\ MaxJobs \in Nat
    BY PackAssumption, LenProperties DEF TypeInv, TypeOK, Ids
  <1>2. jobs[j] \in Job
    BY <1>1, ElementOfSeq DEF Ids
  <1>3. QED BY <1>1, <1>2 DEF TypeInv, TypeOK, Ids, Versions

LEMMA AfterTypes ==
  ASSUME TypeInv, NEW j \in Ids, jobs[j].pc \in Written
  PROVE  After(j) \in Pcs
  <1>1. jobs[j].pc \in {"logs", "metrics", "traces", "config_diff", "topology", "manifest",
                        "flagd", "env", "snapshot", "graph"}
    BY DEF Written, Names, Shared, FIVE
  <1>2. QED BY <1>1 DEF After, Pcs, Names, Shared, FIVE, Ends

LEMMA SumsTypes ==
  ASSUME TypeInv, NEW j \in Ids
  PROVE  /\ Sums(j) \in [FIVE -> Versions]
         /\ files[Card(j)]["manifest"] > 0 =>
              jobs[files[Card(j)]["manifest"]].sums \in [FIVE -> Versions]
  <1>1. jobs[j].sums \in [FIVE -> Versions] /\ jobs[j].card \in Cards
    BY JobTypes DEF Job
  <1>2. \A n \in Names : files[Card(j)][n] \in Versions
    BY <1>1 DEF TypeInv, TypeOK, Card
  <1>3. "metrics" \in FIVE /\ FIVE \subseteq Names /\ "manifest" \in Names
    BY DEF FIVE, Names
  <1>4. Sums(j) \in [FIVE -> Versions]
    BY <1>1, <1>2, <1>3 DEF Sums
  <1>5. files[Card(j)]["manifest"] > 0 => files[Card(j)]["manifest"] \in Ids
    BY <1>1, <1>2, <1>3, PackAssumption DEF TypeInv, Owned, By, Card, Versions
  <1>6. QED BY <1>4, <1>5, JobTypes DEF Job

LEMMA StepJob ==
  ASSUME TypeInv, NEW j \in Live
  PROVE  /\ Open(j) => Becomes(j, [jobs[j] EXCEPT !.writing = TRUE])
         /\ Close(j) => Becomes(j, [jobs[j] EXCEPT !.writing = FALSE, !.pc = After(j)])
         /\ EnsureBaseline(j) =>
              \/ shared["snapshot"] = 0 /\ Becomes(j, [jobs[j] EXCEPT !.pc = "flagd", !.snaps = TRUE])
              \/ Becomes(j, [jobs[j] EXCEPT !.pc = "raised"])
              \/ shared["snapshot"] > 0 /\ Becomes(j, [jobs[j] EXCEPT !.pc = "against"])
         /\ ReadBaseline(j) =>
              Becomes(j, [jobs[j] EXCEPT !.pc = "config_diff",
                            !.base = [flagd |-> shared["flagd"], env |-> shared["env"]]])
         /\ RereadBaseline(j) => \/ Becomes(j, [jobs[j] EXCEPT !.pc = "raised"])
                                 \/ Becomes(j, [jobs[j] EXCEPT !.pc = "hash"])
         /\ EnsureTopology(j) => Becomes(j, [jobs[j] EXCEPT !.pc = IF Builds(j) THEN "graph" ELSE "digest"])
         /\ DigestTopology(j) => Becomes(j, [jobs[j] EXCEPT !.pc = "load", !.ref = shared["graph"]])
         /\ LoadTopology(j) => \/ Becomes(j, [jobs[j] EXCEPT !.pc = "raised"])
                               \/ Becomes(j, [jobs[j] EXCEPT !.pc = "topology"])
         /\ ReadManifest(j) =>
              \/ Becomes(j, [jobs[j] EXCEPT !.pc = "raised"])
              \/ /\ files[Card(j)]["manifest"] > 0
                 /\ Becomes(j, [jobs[j] EXCEPT !.pc = "metrics",
                                  !.sums = jobs[files[Card(j)]["manifest"]].sums])
         /\ Hash(j) => Becomes(j, [jobs[j] EXCEPT !.pc = "manifest", !.sums = Sums(j)])
         /\ Stop(j) => Becomes(j, [jobs[j] EXCEPT !.pc = "stopped"])
  <1>1. jobs \in Seq(Job) /\ j \in Ids /\ jobs[j] \in Job /\ Fits(jobs[j]) /\ DOMAIN jobs = Ids
        /\ jobs[j].pc \notin Ends
    BY JobTypes DEF TypeInv, TypeOK, Live
  <1>2. \A n \in Shared : shared[n] \in Versions
    BY DEF TypeInv, TypeOK
  <1>3. \A v \in Versions : v \in Int
    BY PackAssumption DEF Versions
  <1>4. \A n \in Names : files[Card(j)][n] \in Versions
    BY <1>1 DEF TypeInv, TypeOK, Card, Job
  <1>5. \A p \in Pcs : [jobs[j] EXCEPT !.pc = p] \in Job
    BY <1>1 DEF Job
  <1>6. {"flagd", "raised", "against", "config_diff", "hash", "graph", "digest", "load", "topology",
         "metrics", "manifest", "stopped"} \subseteq Pcs
    BY DEF Pcs, Names, Shared, FIVE, Ends
  <1>7. \A p \in Pcs : To(j, p) => Becomes(j, [jobs[j] EXCEPT !.pc = p])
    BY <1>1, <1>5, BecomesIt DEF To
  <1>8. Raise(j) => Becomes(j, [jobs[j] EXCEPT !.pc = "raised"])
    BY <1>6, <1>7 DEF Raise
  <1>9. Open(j) => Becomes(j, [jobs[j] EXCEPT !.writing = TRUE])
    BY <1>1, BecomesIt DEF Open, Job
  <1>10. Close(j) => Becomes(j, [jobs[j] EXCEPT !.writing = FALSE, !.pc = After(j)])
    <2>1. jobs[j].writing => jobs[j].pc \in Written
      BY <1>1 DEF Fits, Ends
    <2> DEFINE job == [jobs[j] EXCEPT !.writing = FALSE, !.pc = After(j)]
    <2>2. Close(j) => job \in Job
      BY <1>1, <2>1, AfterTypes DEF Close, Job
    <2>3. Close(j) => jobs' = [jobs EXCEPT ![j] = job]
      BY <1>1 DEF Close
    <2>4. QED BY <1>1, <2>2, <2>3, BecomesIt
  <1>11. EnsureBaseline(j) =>
           \/ shared["snapshot"] = 0 /\ Becomes(j, [jobs[j] EXCEPT !.pc = "flagd", !.snaps = TRUE])
           \/ Becomes(j, [jobs[j] EXCEPT !.pc = "raised"])
           \/ shared["snapshot"] > 0 /\ Becomes(j, [jobs[j] EXCEPT !.pc = "against"])
    <2> DEFINE job == [jobs[j] EXCEPT !.pc = "flagd", !.snaps = TRUE]
    <2>1. job \in Job
      BY <1>1, <1>6 DEF Job
    <2>2. jobs' = [jobs EXCEPT ![j].pc = "flagd", ![j].snaps = TRUE] => Becomes(j, job)
      BY <1>1, <2>1, BecomesIt
    <2>3. shared["snapshot"] \in Int
      BY <1>2, <1>3 DEF Shared
    <2>4. QED BY <1>6, <1>7, <1>8, <2>2, <2>3 DEF EnsureBaseline, BaselineIsThere, BaselineIsBroken
  <1>12. ReadBaseline(j) =>
           Becomes(j, [jobs[j] EXCEPT !.pc = "config_diff",
                         !.base = [flagd |-> shared["flagd"], env |-> shared["env"]]])
    <2> DEFINE base == [flagd |-> shared["flagd"], env |-> shared["env"]]
               job  == [jobs[j] EXCEPT !.pc = "config_diff", !.base = base]
    <2>1. base \in [{"flagd", "env"} -> Versions]
      BY <1>2 DEF Shared
    <2>2. job \in Job
      BY <1>1, <1>6, <2>1 DEF Job
    <2>3. ReadBaseline(j) => jobs' = [jobs EXCEPT ![j] = job]
      BY <1>1 DEF ReadBaseline
    <2>4. QED BY <1>1, <2>2, <2>3, BecomesIt
  <1>13. DigestTopology(j) => Becomes(j, [jobs[j] EXCEPT !.pc = "load", !.ref = shared["graph"]])
    <2> DEFINE job == [jobs[j] EXCEPT !.pc = "load", !.ref = shared["graph"]]
    <2>1. job \in Job
      BY <1>1, <1>2, <1>6 DEF Job, Shared
    <2>2. DigestTopology(j) => jobs' = [jobs EXCEPT ![j] = job]
      BY <1>1 DEF DigestTopology
    <2>3. QED BY <1>1, <2>1, <2>2, BecomesIt
  <1>14. ReadManifest(j) =>
           \/ Becomes(j, [jobs[j] EXCEPT !.pc = "raised"])
           \/ /\ files[Card(j)]["manifest"] > 0
              /\ Becomes(j, [jobs[j] EXCEPT !.pc = "metrics",
                               !.sums = jobs[files[Card(j)]["manifest"]].sums])
    <2> DEFINE m   == files[Card(j)]["manifest"]
               job == [jobs[j] EXCEPT !.pc = "metrics", !.sums = jobs[m].sums]
    <2>1. m > 0 => job \in Job
      BY <1>1, <1>6, SumsTypes DEF Job
    <2>2. ReadManifest(j) => (m <= 0 /\ Raise(j)) \/ (~(m <= 0) /\ jobs' = [jobs EXCEPT ![j] = job])
      BY <1>1 DEF ReadManifest
    <2>3. ~(m <= 0) <=> m > 0
      BY <1>3, <1>4 DEF Names
    <2>4. QED BY <1>1, <1>8, <2>1, <2>2, <2>3, BecomesIt
  <1>15. Hash(j) => Becomes(j, [jobs[j] EXCEPT !.pc = "manifest", !.sums = Sums(j)])
    <2> DEFINE job == [jobs[j] EXCEPT !.pc = "manifest", !.sums = Sums(j)]
    <2>1. job \in Job
      BY <1>1, <1>6, SumsTypes DEF Job
    <2>2. Hash(j) => jobs' = [jobs EXCEPT ![j] = job]
      BY <1>1 DEF Hash
    <2>3. QED BY <1>1, <2>1, <2>2, BecomesIt
  <1>16. EnsureTopology(j) => Becomes(j, [jobs[j] EXCEPT !.pc = IF Builds(j) THEN "graph" ELSE "digest"])
    BY <1>6, <1>7 DEF EnsureTopology
  <1>17. /\ RereadBaseline(j) => \/ Becomes(j, [jobs[j] EXCEPT !.pc = "raised"])
                                 \/ Becomes(j, [jobs[j] EXCEPT !.pc = "hash"])
         /\ LoadTopology(j) => \/ Becomes(j, [jobs[j] EXCEPT !.pc = "raised"])
                               \/ Becomes(j, [jobs[j] EXCEPT !.pc = "topology"])
         /\ Stop(j) => Becomes(j, [jobs[j] EXCEPT !.pc = "stopped"])
    BY <1>6, <1>7, <1>8 DEF RereadBaseline, LoadTopology, Stop
  <1>18. QED BY <1>9, <1>10, <1>11, <1>12, <1>13, <1>14, <1>15, <1>16, <1>17

NewJob(kind, card) ==
    [kind |-> kind, card |-> card, writing |-> FALSE, with |-> Live, snaps |-> FALSE,
     pc |-> IF kind = "refresh" THEN "read" ELSE "logs",
     base |-> [n \in {"flagd", "env"} |-> 0], ref |-> 0,
     sums |-> [n \in FIVE |-> 0]]

LEMMA StartJob ==
  ASSUME TypeInv, NEW kind \in Kinds, NEW card \in Cards, Start(kind, card)
  PROVE  /\ NewJob(kind, card) \in Job /\ Fits(NewJob(kind, card))
         /\ jobs' \in Seq(Job) /\ Len(jobs') = Len(jobs) + 1 /\ Len(jobs') <= MaxJobs
         /\ Ids' = Ids \cup {Len(jobs) + 1} /\ Len(jobs) + 1 \notin Ids
         /\ jobs'[Len(jobs) + 1] = NewJob(kind, card)
         /\ \A i \in Ids : jobs'[i] = jobs[i]
         /\ UNCHANGED <<files, shared>>
  <1>1. jobs \in Seq(Job) /\ Len(jobs) \in Nat /\ MaxJobs \in Nat /\ Len(jobs) + 1 <= MaxJobs
    BY LenProperties, PackAssumption DEF TypeInv, TypeOK, Start
  <1>2. Live \in SUBSET (1..MaxJobs) /\ 0 \in Versions
    BY <1>1 DEF Live, Ids, Versions
  <1>3. {"read", "logs"} \subseteq Pcs
    BY DEF Pcs, Names, FIVE
  <1>4. NewJob(kind, card) \in Job
    BY <1>2, <1>3 DEF NewJob, Job
  <1>5. Fits(NewJob(kind, card))
    BY DEF NewJob, Fits, Kinds, Ends
  <1>6. jobs' = Append(jobs, NewJob(kind, card)) /\ UNCHANGED <<files, shared>>
    BY DEF Start, NewJob, KeepFiles
  <1>7. /\ jobs' \in Seq(Job) /\ Len(jobs') = Len(jobs) + 1
        /\ jobs'[Len(jobs) + 1] = NewJob(kind, card)
        /\ \A i \in Ids : jobs'[i] = jobs[i]
    BY <1>1, <1>4, <1>6, AppendProperties DEF Ids
  <1>8. Ids' = Ids \cup {Len(jobs) + 1} /\ Len(jobs) + 1 \notin Ids
    BY <1>1, <1>7 DEF Ids
  <1>9. QED BY <1>1, <1>4, <1>5, <1>6, <1>7, <1>8

LEMMA AfterIs ==
  ASSUME NEW j \in Ids
  PROVE  /\ jobs[j].pc = "logs" => After(j) = "metrics"
         /\ jobs[j].pc = "metrics" => After(j) = (IF jobs[j].kind = "refresh" THEN "hash" ELSE "traces")
         /\ jobs[j].pc = "traces" => After(j) = "ensure"
         /\ jobs[j].pc = "flagd" => After(j) = "env"
         /\ jobs[j].pc = "env" => After(j) = "snapshot"
         /\ jobs[j].pc = "snapshot" => After(j) = "against"
         /\ jobs[j].pc = "config_diff" => After(j) = "exists"
         /\ jobs[j].pc = "graph" => After(j) = "digest"
         /\ jobs[j].pc = "topology" => After(j) = "again"
         /\ jobs[j].pc = "manifest" => After(j) = "done"
  BY DEF After

\* A step that touches no file: from where to where, and what it leaves alone.
LEMMA ThinkKeeps ==
  ASSUME TypeInv, NEW j \in Live, Step(j), ~Open(j), ~Close(j), ~Stop(j)
  PROVE  /\ jobs[j].pc \notin Written /\ ~jobs[j].writing /\ ~jobs'[j].writing
         /\ jobs'[j].kind = jobs[j].kind /\ jobs'[j].card = jobs[j].card
         /\ jobs'[j].with = jobs[j].with /\ (jobs[j].snaps => jobs'[j].snaps)
         /\ jobs'[j].pc = "flagd" => jobs'[j].snaps
         /\ jobs'[j].pc \in {"flagd", "raised", "against", "config_diff", "hash", "graph", "digest",
                             "load", "topology", "metrics", "manifest"}
         /\ jobs[j].kind = "refresh" => jobs'[j].pc \in {"raised", "metrics", "manifest"}
  <1>1. jobs[j] \in Job /\ Fits(jobs[j]) /\ jobs[j].pc \notin Ends
    BY JobTypes DEF Live
  <1>2. CASE EnsureBaseline(j)
    <2>1. jobs[j].pc \notin Written /\ ~jobs[j].writing /\ jobs[j].kind # "refresh"
      BY <1>1, <1>2 DEF EnsureBaseline, At, Fits, Written, Names, Shared, FIVE, Ends
    <2>2. \/ Becomes(j, [jobs[j] EXCEPT !.pc = "flagd", !.snaps = TRUE])
            \/ Becomes(j, [jobs[j] EXCEPT !.pc = "raised"])
            \/ Becomes(j, [jobs[j] EXCEPT !.pc = "against"])
      BY <1>2, StepJob
    <2>3. QED BY <1>1, <2>1, <2>2 DEF Becomes, Job
  <1>3. CASE ReadBaseline(j)
    <2>1. jobs[j].pc \notin Written /\ ~jobs[j].writing /\ jobs[j].kind # "refresh"
      BY <1>1, <1>3 DEF ReadBaseline, At, Fits, Written, Names, Shared, FIVE, Ends
    <2>2. Becomes(j, [jobs[j] EXCEPT !.pc = "config_diff",
                         !.base = [flagd |-> shared["flagd"], env |-> shared["env"]]])
      BY <1>3, StepJob
    <2>3. QED BY <1>1, <2>1, <2>2 DEF Becomes, Job
  <1>4. CASE RereadBaseline(j)
    <2>1. jobs[j].pc \notin Written /\ ~jobs[j].writing /\ jobs[j].kind # "refresh"
      BY <1>1, <1>4 DEF RereadBaseline, At, Fits, Written, Names, Shared, FIVE, Ends
    <2>2. \/ Becomes(j, [jobs[j] EXCEPT !.pc = "raised"])
            \/ Becomes(j, [jobs[j] EXCEPT !.pc = "hash"])
      BY <1>4, StepJob
    <2>3. QED BY <1>1, <2>1, <2>2 DEF Becomes, Job
  <1>5. CASE EnsureTopology(j)
    <2>1. jobs[j].pc \notin Written /\ ~jobs[j].writing /\ jobs[j].kind # "refresh"
      BY <1>1, <1>5 DEF EnsureTopology, At, Fits, Written, Names, Shared, FIVE, Ends
    <2>2. Becomes(j, [jobs[j] EXCEPT !.pc = IF Builds(j) THEN "graph" ELSE "digest"])
      BY <1>5, StepJob
    <2>3. QED BY <1>1, <2>1, <2>2 DEF Becomes, Job
  <1>6. CASE DigestTopology(j)
    <2>1. jobs[j].pc \notin Written /\ ~jobs[j].writing /\ jobs[j].kind # "refresh"
      BY <1>1, <1>6 DEF DigestTopology, At, Fits, Written, Names, Shared, FIVE, Ends
    <2>2. Becomes(j, [jobs[j] EXCEPT !.pc = "load", !.ref = shared["graph"]])
      BY <1>6, StepJob
    <2>3. QED BY <1>1, <2>1, <2>2 DEF Becomes, Job
  <1>7. CASE LoadTopology(j)
    <2>1. jobs[j].pc \notin Written /\ ~jobs[j].writing /\ jobs[j].kind # "refresh"
      BY <1>1, <1>7 DEF LoadTopology, At, Fits, Written, Names, Shared, FIVE, Ends
    <2>2. \/ Becomes(j, [jobs[j] EXCEPT !.pc = "raised"])
            \/ Becomes(j, [jobs[j] EXCEPT !.pc = "topology"])
      BY <1>7, StepJob
    <2>3. QED BY <1>1, <2>1, <2>2 DEF Becomes, Job
  <1>8. CASE ReadManifest(j)
    <2>1. jobs[j].pc \notin Written /\ ~jobs[j].writing /\ jobs[j].kind = "refresh"
      BY <1>1, <1>8 DEF ReadManifest, At, Fits, Written, Names, Shared, FIVE, Ends
    <2>2. \/ Becomes(j, [jobs[j] EXCEPT !.pc = "raised"])
            \/ Becomes(j, [jobs[j] EXCEPT !.pc = "metrics",
                           !.sums = jobs[files[Card(j)]["manifest"]].sums])
      BY <1>8, StepJob
    <2>3. QED BY <1>1, <2>1, <2>2 DEF Becomes, Job
  <1>9. CASE Hash(j)
    <2>1. jobs[j].pc \notin Written /\ ~jobs[j].writing /\ TRUE
      BY <1>1, <1>9 DEF Hash, At, Fits, Written, Names, Shared, FIVE, Ends
    <2>2. Becomes(j, [jobs[j] EXCEPT !.pc = "manifest", !.sums = Sums(j)])
      BY <1>9, StepJob
    <2>3. QED BY <1>1, <2>1, <2>2 DEF Becomes, Job
  <1>10. QED BY <1>2, <1>3, <1>4, <1>5, <1>6, <1>7, <1>8, <1>9 DEF Step

\* What no step of a job changes.
LEMMA StepKeeps ==
  ASSUME TypeInv, NEW j \in Live, Step(j)
  PROVE  /\ jobs' \in Seq(Job) /\ Len(jobs') = Len(jobs) /\ Ids' = Ids
         /\ \A i \in Ids : i # j => jobs'[i] = jobs[i]
         /\ jobs'[j].kind = jobs[j].kind /\ jobs'[j].card = jobs[j].card
         /\ jobs'[j].with = jobs[j].with /\ (jobs[j].snaps => jobs'[j].snaps)
         /\ jobs'[j] \in Job /\ Fits(jobs'[j])
  <1>1. jobs[j] \in Job /\ Fits(jobs[j]) /\ j \in Ids /\ jobs[j].pc \notin Ends
    BY JobTypes DEF Live
  <1>2. \E job : Becomes(j, job)
    BY StepJob DEF Step
  <1>3. CASE Open(j)
    <2>1. Becomes(j, [jobs[j] EXCEPT !.writing = TRUE]) /\ jobs[j].pc \in Written
      BY <1>3, StepJob DEF Open, Written
    <2>2. QED BY <1>1, <2>1 DEF Fits, Job, Becomes, Ids
  <1>4. CASE Close(j)
    <2>1. Becomes(j, [jobs[j] EXCEPT !.writing = FALSE, !.pc = After(j)]) /\ jobs[j].writing
      BY <1>4, StepJob DEF Close
    <2>2. jobs[j].pc \in {"logs", "metrics", "traces", "config_diff", "topology", "manifest",
                          "flagd", "env", "snapshot", "graph"}
      BY <1>1, <2>1 DEF Fits, Written, Names, Shared, FIVE, Ends
    <2>3. /\ jobs'[j].pc = After(j) /\ ~jobs'[j].writing /\ jobs'[j].kind = jobs[j].kind
          /\ jobs'[j].snaps = jobs[j].snaps /\ jobs'[j].card = jobs[j].card
          /\ jobs'[j].with = jobs[j].with
      BY <1>1, <2>1 DEF Job, Becomes
    <2>4. Fits(jobs'[j])
      BY <1>1, <2>2, <2>3, AfterIs DEF Fits, Ends
    <2>5. QED BY <2>1, <2>3, <2>4 DEF Becomes, Ids
  <1>5. CASE Stop(j)
    <2>1. Becomes(j, [jobs[j] EXCEPT !.pc = "stopped"])
      BY <1>5, StepJob
    <2>2. QED BY <1>1, <2>1 DEF Fits, Job, Ends, Becomes, Ids
  <1>6. CASE ~Open(j) /\ ~Close(j) /\ ~Stop(j)
    <2>1. Fits(jobs'[j])
      BY <1>1, <1>6, ThinkKeeps DEF Fits, Ends
    <2>2. QED BY <1>2, <1>6, <2>1, ThinkKeeps DEF Becomes, Ids
  <1>7. QED BY <1>3, <1>4, <1>5, <1>6

LEMMA PutIs ==
  ASSUME TypeInv, NEW j \in Ids, NEW name \in Written, NEW v \in Versions, Put(j, name, v)
  PROVE  /\ files' \in [Cards -> [Names -> Versions]] /\ shared' \in [Shared -> Versions]
         /\ name \in Shared => shared'[name] = v /\ UNCHANGED files
         /\ name \notin Shared => files'[Card(j)][name] = v /\ UNCHANGED shared
         /\ \A n \in Shared : n # name => shared'[n] = shared[n]
         /\ \A c \in Cards, n \in Names : c # Card(j) \/ n # name => files'[c][n] = files[c][n]
  <1>1. /\ files \in [Cards -> [Names -> Versions]] /\ shared \in [Shared -> Versions]
        /\ Card(j) \in Cards
    BY JobTypes DEF TypeInv, TypeOK, Card, Job
  <1>2. CASE name \in Shared
    BY <1>1, <1>2 DEF Put
  <1>3. CASE name \notin Shared
    <2>1. name \in Names /\ files' = [files EXCEPT ![Card(j)][name] = v] /\ UNCHANGED shared
      BY <1>3 DEF Put, Written
    <2>2. QED BY <1>1, <1>3, <2>1
  <1>4. QED BY <1>2, <1>3

LEMMA StepFiles ==
  ASSUME TypeInv, NEW j \in Live, Step(j)
  PROVE  \/ KeepFiles /\ ~Open(j) /\ ~Close(j)
         \/ jobs[j].pc \in Written /\ ~jobs[j].writing /\ Put(j, jobs[j].pc, -j) /\ Open(j)
         \/ jobs[j].pc \in Written /\ jobs[j].writing /\ Put(j, jobs[j].pc, j) /\ Close(j)
  <1>1. Fits(jobs[j]) /\ jobs[j].pc \notin Ends
    BY JobTypes DEF Live
  <1>2. CASE Open(j)
    BY <1>2 DEF Open, Written
  <1>3. CASE Close(j)
    BY <1>1, <1>3 DEF Close, Fits, Ends
  <1>4. QED BY <1>2, <1>3 DEF Step, EnsureBaseline, ReadBaseline, RereadBaseline, EnsureTopology,
               DigestTopology, LoadTopology, ReadManifest, Hash, Stop

LEMMA MeetingsKept ==
  ASSUME TypeInv, Next
  PROVE  Meetings'
  <1>1. Len(jobs) \in Nat
    BY LenProperties DEF TypeInv, TypeOK
  <1>2. ASSUME NEW kind \in Kinds, NEW card \in Cards, Start(kind, card)
        PROVE  Meetings'
    <2>1. \A i \in Ids : i < Len(jobs) + 1
      BY <1>1 DEF Ids
    <2>2. \A i \in Ids : i \in Live' <=> i \in Live
      BY <1>2, StartJob DEF Live, At
    <2>3. jobs'[Len(jobs) + 1].with = Live
      <3>1. NewJob(kind, card).with = Live
        BY DEF NewJob
      <3>2. QED BY <1>2, <3>1, StartJob
    <2>4. \A i \in Ids, j \in Ids : i \in Live /\ i < j => i \in jobs'[j].with
      BY <1>2, StartJob DEF TypeInv, Meetings
    <2>5. \A j \in Ids' : ~(Len(jobs) + 1 < j)
      <3>1. \A j \in Ids' : j \in Ids \/ j = Len(jobs) + 1
        BY <1>2, StartJob
      <3>2. QED BY <1>1, <2>1, <3>1 DEF Ids
    <2>6. Ids' = Ids \cup {Len(jobs) + 1} /\ Live' \subseteq Ids'
      BY <1>2, StartJob DEF Live
    <2>7. QED BY <2>2, <2>3, <2>4, <2>5, <2>6 DEF Meetings
  <1>3. ASSUME NEW j \in Live, Step(j)
        PROVE  Meetings'
    <2>1. Ids' = Ids /\ \A i \in Ids : jobs'[i].with = jobs[i].with
      BY <1>3, StepKeeps
    <2>2. Live' \subseteq Live
      BY <1>3, StepKeeps DEF Live
    <2>3. QED BY <2>1, <2>2 DEF Meetings, TypeInv
  <1>4. QED BY <1>2, <1>3 DEF Next, Step

\* A version a step of j leaves, or makes, of a file.
LEMMA VersionKept ==
  ASSUME TypeInv, NEW j \in Live, Step(j), NEW n \in Written, NEW v \in Versions, NEW w \in Versions,
         v # 0 => By(v) \in Ids, Torn(v, n),
         \/ w = v /\ ~(Close(j) /\ jobs[j].pc = n /\ v = -j)
         \/ w = -j /\ Open(j) /\ jobs[j].pc = n
         \/ w = j
  PROVE  w < 0 => \/ jobs'[-w].pc = "stopped"
                  \/ jobs'[-w].pc = n /\ jobs'[-w].writing
  <1> SUFFICES ASSUME w < 0
               PROVE  \/ jobs'[-w].pc = "stopped"
                      \/ jobs'[-w].pc = n /\ jobs'[-w].writing
    OBVIOUS
  <1>1. j \in Ids /\ j \in Nat /\ j >= 1 /\ v \in Int /\ w \in Int /\ jobs[j] \in Job
    BY JobTypes, PackAssumption DEF Live, Versions
  <1>2. CASE w = v /\ ~(Close(j) /\ jobs[j].pc = n /\ v = -j)
    <2>1. -v \in Ids /\ (jobs[-v].pc = "stopped" \/ (jobs[-v].pc = n /\ jobs[-v].writing))
      BY <1>1, <1>2 DEF By, Torn
    <2>2. CASE -v # j
      BY <1>1, <1>2, <2>1, <2>2, StepKeeps
    <2>3. CASE -v = j
      <3>1. jobs[j].pc = n /\ jobs[j].writing /\ v = -j
        BY <1>1, <2>1, <2>3 DEF Live, Ends
      <3>2. Stop(j)
        BY <1>2, <3>1, ThinkKeeps DEF Open
      <3>3. Becomes(j, [jobs[j] EXCEPT !.pc = "stopped"])
        BY <3>2, StepJob
      <3>4. QED BY <1>1, <1>2, <2>3, <3>3 DEF Becomes, Job
    <2>4. QED BY <2>2, <2>3
  <1>3. CASE w = -j /\ Open(j) /\ jobs[j].pc = n
    <2>1. Becomes(j, [jobs[j] EXCEPT !.writing = TRUE])
      BY <1>3, StepJob
    <2>2. -w = j
      BY <1>1, <1>3
    <2>3. QED BY <1>1, <1>3, <2>1, <2>2 DEF Becomes, Job
  <1>4. CASE w = j
    BY <1>1, <1>4
  <1>5. QED BY <1>2, <1>3, <1>4

LEMMA FilesKept ==
  ASSUME TypeInv, Next
  PROVE  /\ files' \in [Cards -> [Names -> Versions]] /\ shared' \in [Shared -> Versions]
         /\ \A c \in Cards, n \in Names : Torn(files[c][n], n)'
         /\ \A n \in Shared : Torn(shared[n], n)'
         /\ Owned'
  <1>1. /\ files \in [Cards -> [Names -> Versions]] /\ shared \in [Shared -> Versions]
        /\ \A c \in Cards, n \in Names : Torn(files[c][n], n)
        /\ \A n \in Shared : Torn(shared[n], n)
        /\ Owned
    BY DEF TypeInv, TypeOK
  <1>2. \A c \in Cards, n \in Names : files[c][n] \in Versions /\ files[c][n] \in Int
    BY <1>1, PackAssumption DEF Versions
  <1>3. \A n \in Shared : shared[n] \in Versions /\ shared[n] \in Int
    BY <1>1, PackAssumption DEF Versions
  <1>4. ASSUME NEW kind \in Kinds, NEW card \in Cards, Start(kind, card)
        PROVE  /\ files' \in [Cards -> [Names -> Versions]] /\ shared' \in [Shared -> Versions]
               /\ \A c \in Cards, n \in Names : Torn(files[c][n], n)'
               /\ \A n \in Shared : Torn(shared[n], n)'
               /\ Owned'
    <2>1. /\ UNCHANGED <<files, shared>> /\ \A i \in Ids : i \in Ids' /\ jobs'[i] = jobs[i]
      BY <1>4, StartJob
    <2>2. \A v \in Int : v < 0 => By(v) = -v
      BY DEF By
    <2>3. QED BY <1>1, <1>2, <1>3, <2>1, <2>2 DEF Torn, Owned, Card
  <1>5. ASSUME NEW j \in Live, Step(j)
        PROVE  /\ files' \in [Cards -> [Names -> Versions]] /\ shared' \in [Shared -> Versions]
               /\ \A c \in Cards, n \in Names : Torn(files[c][n], n)'
               /\ \A n \in Shared : Torn(shared[n], n)'
               /\ Owned'
    <2>1. /\ j \in Ids /\ j \in Versions /\ -j \in Versions /\ j \in Nat /\ j >= 1
          /\ Names \subseteq Written /\ Shared \subseteq Written
          /\ \A n \in Names : n \notin Shared
      BY JobTypes DEF Live, Written, Names, Shared, FIVE
    <2>2. /\ files' \in [Cards -> [Names -> Versions]] /\ shared' \in [Shared -> Versions]
      BY <1>1, <1>5, <2>1, StepFiles, PutIs DEF KeepFiles
    <2>3. ASSUME NEW c \in Cards, NEW n \in Names
          PROVE  \/ files'[c][n] = files[c][n] /\ ~(Close(j) /\ jobs[j].pc = n /\ files[c][n] = -j)
                 \/ files'[c][n] = -j /\ Open(j) /\ jobs[j].pc = n /\ c = Card(j)
                 \/ files'[c][n] = j /\ c = Card(j)
      <3>1. files[c][n] = -j => c = Card(j)
        BY <1>1, <2>1 DEF Owned, By
      <3>2. CASE KeepFiles /\ ~Close(j)
        BY <3>2 DEF KeepFiles
      <3>3. CASE jobs[j].pc \in Written /\ Put(j, jobs[j].pc, -j) /\ Open(j) /\ ~jobs[j].writing
        <4>1. ~Close(j)
          BY <3>3 DEF Close
        <4>2. QED BY <2>1, <3>3, <4>1, PutIs
      <3>4. CASE jobs[j].pc \in Written /\ Put(j, jobs[j].pc, j) /\ Close(j)
        BY <2>1, <3>1, <3>4, PutIs
      <3>5. QED BY <1>5, <3>2, <3>3, <3>4, StepFiles
    <2>4. ASSUME NEW n \in Shared
          PROVE  \/ shared'[n] = shared[n] /\ ~(Close(j) /\ jobs[j].pc = n /\ shared[n] = -j)
                 \/ shared'[n] = -j /\ Open(j) /\ jobs[j].pc = n
                 \/ shared'[n] = j
      <3>2. CASE KeepFiles /\ ~Close(j)
        BY <3>2 DEF KeepFiles
      <3>3. CASE jobs[j].pc \in Written /\ Put(j, jobs[j].pc, -j) /\ Open(j) /\ ~jobs[j].writing
        <4>1. ~Close(j)
          BY <3>3 DEF Close
        <4>2. QED BY <2>1, <3>3, <4>1, PutIs
      <3>4. CASE jobs[j].pc \in Written /\ Put(j, jobs[j].pc, j) /\ Close(j)
        BY <2>1, <3>4, PutIs
      <3>5. QED BY <1>5, <3>2, <3>3, <3>4, StepFiles
    <2>5. \A c \in Cards, n \in Names : Torn(files[c][n], n)'
      <3> SUFFICES ASSUME NEW c \in Cards, NEW n \in Names
                   PROVE  Torn(files[c][n], n)'
        OBVIOUS
      <3>1. files'[c][n] \in Versions /\ (files[c][n] # 0 => By(files[c][n]) \in Ids)
        BY <1>1, <2>2 DEF Owned
      <3>2. files'[c][n] < 0 => \/ jobs'[-files'[c][n]].pc = "stopped"
                                \/ jobs'[-files'[c][n]].pc = n /\ jobs'[-files'[c][n]].writing
        BY <1>1, <1>2, <1>5, <2>1, <2>3, <3>1, VersionKept
      <3>3. QED BY <3>2 DEF Torn
    <2>6. \A n \in Shared : Torn(shared[n], n)'
      <3> SUFFICES ASSUME NEW n \in Shared
                   PROVE  Torn(shared[n], n)'
        OBVIOUS
      <3>1. shared'[n] \in Versions /\ (shared[n] # 0 => By(shared[n]) \in Ids)
        BY <1>1, <2>2 DEF Owned
      <3>2. shared'[n] < 0 => \/ jobs'[-shared'[n]].pc = "stopped"
                              \/ jobs'[-shared'[n]].pc = n /\ jobs'[-shared'[n]].writing
        BY <1>1, <1>3, <1>5, <2>1, <2>4, <3>1, VersionKept
      <3>3. QED BY <3>2 DEF Torn
    <2>7. Owned'
      <3>1. Ids' = Ids /\ \A i \in Ids : jobs'[i].card = jobs[i].card
        BY <1>5, StepKeeps
      <3>2. By(j) = j /\ By(-j) = j
        BY <2>1 DEF By
      <3>3. \A c \in Cards, n \in Names : files'[c][n] # 0 =>
              By(files'[c][n]) \in Ids /\ jobs[By(files'[c][n])].card = c
        BY <1>1, <2>1, <2>3, <3>2 DEF Owned, Card
      <3>4. \A n \in Shared : shared'[n] # 0 => By(shared'[n]) \in Ids
        BY <1>1, <2>1, <2>4, <3>2 DEF Owned
      <3>5. QED BY <3>1, <3>3, <3>4 DEF Owned, Card
    <2>8. QED BY <2>2, <2>5, <2>6, <2>7
  <1>6. QED BY <1>4, <1>5 DEF Next, Step

LEMMA NextTypes == TypeInv /\ [Next]_vars => TypeInv'
  <1> SUFFICES ASSUME TypeInv, [Next]_vars PROVE TypeInv'
    OBVIOUS
  <1>1. CASE UNCHANGED vars
    BY <1>1 DEF vars, TypeInv, TypeOK, Ids, Live, Torn, Meetings, Owned, Card
  <1>2. CASE Next
    <2>1. jobs' \in Seq(Job) /\ Len(jobs') <= MaxJobs /\ \A i \in Ids' : Fits(jobs'[i])
      <3>1. ASSUME NEW kind \in Kinds, NEW card \in Cards, Start(kind, card)
            PROVE  jobs' \in Seq(Job) /\ Len(jobs') <= MaxJobs /\ \A i \in Ids' : Fits(jobs'[i])
        BY <3>1, StartJob DEF TypeInv
      <3>2. ASSUME NEW j \in Live, Step(j)
            PROVE  jobs' \in Seq(Job) /\ Len(jobs') <= MaxJobs /\ \A i \in Ids' : Fits(jobs'[i])
        BY <3>2, StepKeeps DEF TypeInv, TypeOK
      <3>3. QED BY <1>2, <3>1, <3>2 DEF Next, Step
    <2>2. QED BY <1>2, <2>1, MeetingsKept, FilesKept DEF TypeInv, TypeOK
  <1>3. QED BY <1>1, <1>2

LEMMA InitTypes == Init => TypeInv
  <1> SUFFICES ASSUME Init PROVE TypeInv
    OBVIOUS
  <1>1. Len(jobs) = 0 /\ Ids = {} /\ jobs \in Seq(Job) /\ 0 \in Versions /\ MaxJobs \in Nat
    BY PackAssumption DEF Init, Ids, Versions
  <1>2. QED BY <1>1 DEF Init, TypeInv, TypeOK, Torn, Meetings, Owned, Live

LEMMA TypeInvariant == Spec => []TypeInv
  BY InitTypes, NextTypes, PTL DEF Spec

\* Every file is of a job, and a torn one of a job that writes it or was stopped
\* there, however many jobs are at work.
THEOREM PackTypeCorrect == Spec => []TypeOK
  <1>1. TypeInv => TypeOK
    BY DEF TypeInv
  <1>2. QED BY <1>1, TypeInvariant, PTL

(* ------------------------------ the baseline --------------------------- *)

\* Two snapshots were taken at once.
Mixed == \E i, k \in Ids : Met(i, k) /\ jobs[i].snaps /\ jobs[k].snaps

\* The stamp is written by the one job that took the snapshot, after its files.
StampLast ==
    /\ \A j \in Live : jobs[j].pc \in {"flagd", "env", "snapshot"} =>
         \/ shared["snapshot"] = 0
         \/ shared["snapshot"] = -j /\ jobs[j].pc = "snapshot" /\ jobs[j].writing
    /\ \A j \in Live : /\ jobs[j].pc \in {"env", "snapshot"} => shared["flagd"] = j
                       /\ jobs[j].pc = "snapshot" => shared["env"] = j
    /\ shared["snapshot"] > 0 =>
         shared["flagd"] = shared["snapshot"] /\ shared["env"] = shared["snapshot"]

\* Who goes by the baseline has seen a stamp.
SawStamp ==
    /\ \A j \in Live : jobs[j].pc = "against" => shared["snapshot"] > 0
    /\ \A j \in Ids : jobs[j].pc = "config_diff" \/ (\E c \in Cards : files[c]["config_diff"] = j) =>
         /\ shared["snapshot"] > 0
         /\ jobs[j].base["flagd"] = shared["snapshot"] /\ jobs[j].base["env"] = shared["snapshot"]

BaseInv == ~Mixed => StampLast /\ SawStamp

LEMMA MixedStays ==
  ASSUME TypeInv, Next, ~Mixed'
  PROVE  ~Mixed
  <1>1. ASSUME NEW kind \in Kinds, NEW card \in Cards, Start(kind, card)
        PROVE  ~Mixed
    BY <1>1, StartJob DEF Mixed, Met
  <1>2. ASSUME NEW j \in Live, Step(j)
        PROVE  ~Mixed
    <2>1. \A i \in Ids : /\ jobs'[i].with = jobs[i].with /\ (jobs[i].snaps => jobs'[i].snaps)
      BY <1>2, StepKeeps
    <2>2. Ids' = Ids
      BY <1>2, StepKeeps
    <2>3. QED BY <2>1, <2>2 DEF Mixed, Met
  <1>3. QED BY <1>1, <1>2 DEF Next, Step

LEMMA OneSnapshot ==
  ASSUME TypeInv, ~Mixed, NEW i \in Live, NEW j \in Live, i # j, jobs[i].snaps
  PROVE  ~jobs[j].snaps /\ jobs[j].pc \notin {"flagd", "env", "snapshot"}
  <1>1. i \in Ids /\ j \in Ids /\ (i < j \/ j < i)
    BY JobTypes DEF Live
  <1>2. Met(i, j)
    BY <1>1 DEF TypeInv, Meetings, Met
  <1>3. QED BY <1>1, <1>2 DEF Mixed, TypeInv, Fits

\* Steps that neither take the snapshot nor look at it.
LEMMA OtherSteps ==
  ASSUME TypeInv, NEW j \in Live,
         \/ RereadBaseline(j) \/ EnsureTopology(j) \/ DigestTopology(j) \/ LoadTopology(j)
         \/ ReadManifest(j) \/ Hash(j) \/ Stop(j)
  PROVE  /\ KeepFiles /\ jobs'[j].base = jobs[j].base /\ jobs'[j].snaps = jobs[j].snaps
         /\ jobs'[j].pc \in {"raised", "hash", "graph", "digest", "load", "topology", "metrics",
                             "manifest", "stopped"}
  <1>1. jobs[j] \in Job
    BY JobTypes DEF Live
  <1>2. CASE RereadBaseline(j)
    <2>1. \/ Becomes(j, [jobs[j] EXCEPT !.pc = "raised"])
          \/ Becomes(j, [jobs[j] EXCEPT !.pc = "hash"])
      BY <1>2, StepJob
    <2>2. QED BY <1>1, <1>2, <2>1 DEF RereadBaseline, Becomes, Job
  <1>3. CASE EnsureTopology(j)
    <2>1. Becomes(j, [jobs[j] EXCEPT !.pc = IF Builds(j) THEN "graph" ELSE "digest"])
      BY <1>3, StepJob
    <2>2. QED BY <1>1, <1>3, <2>1 DEF EnsureTopology, Becomes, Job
  <1>4. CASE DigestTopology(j)
    <2>1. Becomes(j, [jobs[j] EXCEPT !.pc = "load", !.ref = shared["graph"]])
      BY <1>4, StepJob
    <2>2. QED BY <1>1, <1>4, <2>1 DEF DigestTopology, Becomes, Job
  <1>5. CASE LoadTopology(j)
    <2>1. \/ Becomes(j, [jobs[j] EXCEPT !.pc = "raised"])
          \/ Becomes(j, [jobs[j] EXCEPT !.pc = "topology"])
      BY <1>5, StepJob
    <2>2. QED BY <1>1, <1>5, <2>1 DEF LoadTopology, Becomes, Job
  <1>6. CASE ReadManifest(j)
    <2>1. \/ Becomes(j, [jobs[j] EXCEPT !.pc = "raised"])
          \/ Becomes(j, [jobs[j] EXCEPT !.pc = "metrics",
                           !.sums = jobs[files[Card(j)]["manifest"]].sums])
      BY <1>6, StepJob
    <2>2. QED BY <1>1, <1>6, <2>1 DEF ReadManifest, Becomes, Job
  <1>7. CASE Hash(j)
    <2>1. Becomes(j, [jobs[j] EXCEPT !.pc = "manifest", !.sums = Sums(j)])
      BY <1>7, StepJob
    <2>2. QED BY <1>1, <1>7, <2>1 DEF Hash, Becomes, Job
  <1>8. CASE Stop(j)
    <2>1. Becomes(j, [jobs[j] EXCEPT !.pc = "stopped"])
      BY <1>8, StepJob
    <2>2. QED BY <1>1, <1>8, <2>1 DEF Stop, Becomes, Job
  <1>9. QED BY <1>2, <1>3, <1>4, <1>5, <1>6, <1>7, <1>8

LEMMA BaseKept ==
  ASSUME TypeInv, BaseInv, Next
  PROVE  BaseInv'
  <1> SUFFICES ASSUME ~Mixed' PROVE StampLast' /\ SawStamp'
    BY DEF BaseInv
  <1>1. ~Mixed /\ StampLast /\ SawStamp
    BY MixedStays DEF BaseInv
  <1>2. /\ \A n \in Shared : shared[n] \in Int
        /\ \A c \in Cards : files[c]["config_diff"] \in Int
    BY PackAssumption DEF TypeInv, TypeOK, Versions, Names, FIVE
  <1>3. ASSUME NEW kind \in Kinds, NEW card \in Cards, Start(kind, card)
        PROVE  StampLast' /\ SawStamp'
    <2> DEFINE n == Len(jobs) + 1
    <2>1. jobs'[n].pc \in {"read", "logs"}
      <3>1. NewJob(kind, card).pc \in {"read", "logs"}
        BY DEF NewJob
      <3>2. QED BY <1>3, <3>1, StartJob
    <2>2. /\ Ids' = Ids \cup {n} /\ n \notin Ids /\ UNCHANGED <<files, shared>>
          /\ \A i \in Ids : jobs'[i] = jobs[i]
      BY <1>3, StartJob
    <2>3. \A c \in Cards : files[c]["config_diff"] # n
      <3>1. "config_diff" \in Names /\ n \in Nat /\ n >= 1
        BY LenProperties DEF Names, FIVE, TypeInv, TypeOK
      <3>2. QED BY <2>2, <3>1 DEF TypeInv, Owned, By
    <2> HIDE DEF n
    <2>4. \A i \in Live' : i # n => i \in Live
      BY <2>2 DEF Live, At
    <2>5. StampLast'
      BY <1>1, <2>1, <2>2, <2>4 DEF StampLast, Live
    <2>6. SawStamp'
      BY <1>1, <2>1, <2>2, <2>3, <2>4 DEF SawStamp, Live
    <2>7. QED BY <2>5, <2>6
  <1>4. ASSUME NEW j \in Live, Step(j)
        PROVE  StampLast' /\ SawStamp'
    <2>1. /\ j \in Ids /\ j \in Nat /\ j >= 1 /\ jobs[j] \in Job /\ Fits(jobs[j])
          /\ j \in Versions /\ -j \in Versions
      BY JobTypes DEF Live
    <2>2. /\ Ids' = Ids /\ \A i \in Ids : i # j => jobs'[i] = jobs[i]
          /\ Live \subseteq Ids /\ Live' \subseteq Live /\ j \in Live
      BY <1>4, StepKeeps DEF Live
    <2>3. ASSUME jobs[j].pc \in {"flagd", "env", "snapshot"}
          PROVE  \A i \in Live : i # j => jobs[i].pc \notin {"flagd", "env", "snapshot"}
      BY <1>1, <2>1, <2>3, OneSnapshot DEF Fits
    <2>4. /\ {"flagd", "env", "snapshot", "graph"} = Shared /\ "config_diff" \in Names
          /\ "config_diff" \notin Shared
      BY DEF Shared, Names, FIVE
    <2>5. CASE Open(j)
      <3>1. jobs[j].pc \in Written /\ Put(j, jobs[j].pc, -j) /\ ~jobs[j].writing
        BY <2>5 DEF Open, Written
      <3>2. /\ jobs'[j].pc = jobs[j].pc /\ jobs'[j].base = jobs[j].base /\ jobs'[j].writing
        <4>1. Becomes(j, [jobs[j] EXCEPT !.writing = TRUE])
          BY <2>5, StepJob
        <4>2. QED BY <2>1, <4>1 DEF Becomes, Job
      <3>3. CASE jobs[j].pc \in {"flagd", "env", "snapshot"}
        <4>1. shared["snapshot"] = 0 /\ j \in Live
          BY <1>1, <3>1, <3>3 DEF StampLast
        <4>2. /\ UNCHANGED files /\ shared'[jobs[j].pc] = -j
              /\ \A n \in Shared : n # jobs[j].pc => shared'[n] = shared[n]
          BY <2>1, <2>4, <3>1, <3>3, PutIs
        <4>3. StampLast'
          BY <1>1, <2>1, <2>2, <2>3, <2>4, <3>2, <3>3, <4>1, <4>2 DEF StampLast
        <4>4. SawStamp'
          BY <1>1, <2>2, <3>2, <3>3, <4>1, <4>2 DEF SawStamp
        <4>5. QED BY <4>3, <4>4
      <3>4. CASE jobs[j].pc \notin {"flagd", "env", "snapshot"}
        <4>1. /\ \A n \in {"flagd", "env", "snapshot"} : shared'[n] = shared[n]
              /\ \A c \in Cards : \/ files'[c]["config_diff"] = files[c]["config_diff"]
                                  \/ files'[c]["config_diff"] = -j
          BY <2>1, <2>4, <3>1, <3>4, PutIs
        <4>2. StampLast'
          BY <1>1, <2>2, <3>2, <3>4, <4>1 DEF StampLast
        <4>3. \A i \in Ids, c \in Cards : files'[c]["config_diff"] = i => files[c]["config_diff"] = i
          BY <2>1, <4>1, JobTypes
        <4>4. SawStamp'
          BY <1>1, <2>2, <3>2, <4>1, <4>3 DEF SawStamp
        <4>5. QED BY <4>2, <4>4
      <3>5. QED BY <3>3, <3>4
    <2>6. CASE Close(j)
      <3>1. jobs[j].pc \in Written /\ Put(j, jobs[j].pc, j)
        BY <1>4, <2>6, StepFiles DEF Close, Open
      <3>2. /\ jobs'[j].pc = After(j) /\ jobs'[j].base = jobs[j].base /\ ~jobs'[j].writing
        <4>1. Becomes(j, [jobs[j] EXCEPT !.writing = FALSE, !.pc = After(j)])
          BY <2>6, StepJob
        <4>2. QED BY <2>1, <4>1 DEF Becomes, Job
      <3>3. CASE jobs[j].pc \in {"flagd", "env", "snapshot"}
        <4>1. /\ UNCHANGED files /\ shared'[jobs[j].pc] = j
              /\ \A n \in Shared : n # jobs[j].pc => shared'[n] = shared[n]
          BY <2>1, <2>4, <3>1, <3>3, PutIs
        <4>2. shared["snapshot"] = 0 \/ (shared["snapshot"] = -j /\ jobs[j].pc = "snapshot")
          BY <1>1, <3>3 DEF StampLast
        <4>3. StampLast'
          BY <1>1, <2>1, <2>2, <2>3, <2>4, <3>2, <3>3, <4>1, <4>2, AfterIs DEF StampLast
        <4>4. \A i \in Live : jobs[i].pc # "against"
          BY <1>1, <2>1, <4>2 DEF SawStamp
        <4>5. \A i \in Ids : jobs[i].pc # "config_diff" /\ \A c \in Cards : files[c]["config_diff"] # i
          BY <1>1, <2>1, <4>2 DEF SawStamp
        <4>6. \A i \in Live' : jobs'[i].pc = "against" => shared'["snapshot"] > 0
          <5>1. \A i \in Live' : jobs'[i].pc = "against" => i = j
            BY <2>2, <4>4
          <5>2. jobs'[j].pc = "against" => jobs[j].pc = "snapshot"
            BY <2>1, <3>2, <3>3, AfterIs
          <5>3. jobs[j].pc = "snapshot" => shared'["snapshot"] = j
            BY <4>1
          <5>4. QED BY <2>1, <5>1, <5>2, <5>3
        <4>7. \A i \in Ids' : jobs'[i].pc # "config_diff"
          BY <2>1, <2>2, <3>2, <3>3, <4>5, AfterIs
        <4>8. SawStamp'
          BY <2>2, <4>1, <4>5, <4>6, <4>7 DEF SawStamp
        <4>9. QED BY <4>3, <4>8
      <3>4. CASE jobs[j].pc \notin {"flagd", "env", "snapshot"}
        <4>1. /\ \A n \in {"flagd", "env", "snapshot"} : shared'[n] = shared[n]
              /\ \A c \in Cards : \/ files'[c]["config_diff"] = files[c]["config_diff"]
                                  \/ files'[c]["config_diff"] = j /\ jobs[j].pc = "config_diff"
          BY <2>1, <2>4, <3>1, <3>4, PutIs
        <4>2. jobs'[j].pc \notin {"flagd", "env", "snapshot", "against", "config_diff"}
          BY <2>1, <3>1, <3>2, <3>4, AfterIs DEF Written, Names, Shared, FIVE
        <4>3. StampLast'
          BY <1>1, <2>2, <4>1, <4>2 DEF StampLast
        <4>4. SawStamp'
          BY <1>1, <2>1, <2>2, <3>2, <4>1, <4>2 DEF SawStamp
        <4>5. QED BY <4>3, <4>4
      <3>5. QED BY <3>3, <3>4
    <2>7. CASE EnsureBaseline(j)
      <3>1. \/ /\ shared["snapshot"] = 0
               /\ Becomes(j, [jobs[j] EXCEPT !.pc = "flagd", !.snaps = TRUE])
            \/ Becomes(j, [jobs[j] EXCEPT !.pc = "raised"])
            \/ shared["snapshot"] > 0 /\ Becomes(j, [jobs[j] EXCEPT !.pc = "against"])
        BY <2>7, StepJob
      <3>2. /\ jobs'[j].base = jobs[j].base /\ UNCHANGED <<files, shared>>
            /\ \/ jobs'[j].pc = "flagd" /\ shared["snapshot"] = 0
               \/ jobs'[j].pc = "raised"
               \/ jobs'[j].pc = "against" /\ shared["snapshot"] > 0
        BY <2>1, <2>7, <3>1 DEF EnsureBaseline, KeepFiles, Becomes, Job
      <3>3. StampLast'
        BY <1>1, <2>2, <3>2 DEF StampLast
      <3>4. SawStamp'
        BY <1>1, <2>2, <3>2 DEF SawStamp
      <3>5. QED BY <3>3, <3>4
    <2>8. CASE ReadBaseline(j)
      <3>1. Becomes(j, [jobs[j] EXCEPT !.pc = "config_diff",
                          !.base = [flagd |-> shared["flagd"], env |-> shared["env"]]])
        BY <2>8, StepJob
      <3>2. /\ UNCHANGED <<files, shared>> /\ jobs[j].pc = "against" /\ jobs'[j].pc = "config_diff"
            /\ jobs'[j].base["flagd"] = shared["flagd"] /\ jobs'[j].base["env"] = shared["env"]
        BY <2>1, <2>8, <3>1 DEF ReadBaseline, At, KeepFiles, Becomes, Job
      <3>3. StampLast'
        BY <1>1, <2>2, <3>2 DEF StampLast
      <3>4. shared["snapshot"] > 0 /\ shared["flagd"] = shared["snapshot"]
            /\ shared["env"] = shared["snapshot"]
        BY <1>1, <3>2 DEF StampLast, SawStamp
      <3>5. SawStamp'
        BY <1>1, <2>2, <3>2, <3>4 DEF SawStamp
      <3>6. QED BY <3>3, <3>5
    <2>9. CASE \/ RereadBaseline(j) \/ EnsureTopology(j) \/ DigestTopology(j) \/ LoadTopology(j)
               \/ ReadManifest(j) \/ Hash(j) \/ Stop(j)
      <3>1. /\ UNCHANGED <<files, shared>> /\ jobs'[j].base = jobs[j].base
            /\ jobs'[j].pc \in {"raised", "hash", "graph", "digest", "load", "topology", "metrics",
                                "manifest", "stopped"}
        BY <2>9, OtherSteps DEF KeepFiles
      <3>2. StampLast'
        BY <1>1, <2>2, <3>1 DEF StampLast
      <3>3. SawStamp'
        BY <1>1, <2>2, <3>1 DEF SawStamp
      <3>4. QED BY <3>2, <3>3
    <2>10. QED BY <1>4, <2>5, <2>6, <2>7, <2>8, <2>9 DEF Step
  <1>5. QED BY <1>3, <1>4 DEF Next, Step

LEMMA BaseInvariant == Spec => [](TypeInv /\ BaseInv)
  <1>1. Init => TypeInv /\ BaseInv
    <2>1. Init => Ids = {} /\ Live = {} /\ shared["snapshot"] = 0
      BY DEF Init, Ids, Live, Shared
    <2>2. QED BY <2>1, InitTypes DEF BaseInv, StampLast, SawStamp
  <1>2. TypeInv /\ BaseInv /\ [Next]_vars => TypeInv' /\ BaseInv'
    <2>1. BaseInv /\ UNCHANGED vars => BaseInv'
      BY DEF vars, BaseInv, StampLast, SawStamp, Mixed, Met, Live, Ids, At
    <2>2. QED BY <2>1, NextTypes, BaseKept
  <1>3. QED BY <1>1, <1>2, PTL DEF Spec

\* Every config_diff.txt is against the one baseline, two whole files of one
\* snapshot, unless two snapshots were taken at once.
THEOREM DiffsAreAgainstBaseline == Spec => []DiffAgainstBaseline
  <1>1. TypeInv /\ BaseInv => DiffAgainstBaseline
    <2> SUFFICES ASSUME TypeInv, BaseInv, NEW c \in Cards, files[c]["config_diff"] > 0, ~Mixed
                 PROVE  LET j == files[c]["config_diff"]
                        IN  /\ shared["snapshot"] > 0
                            /\ \A n \in {"flagd", "env"} :
                                 jobs[j].base[n] = shared[n] /\ shared[n] = shared["snapshot"]
      BY DEF DiffAgainstBaseline, Mixed
    <2>1. files[c]["config_diff"] \in Ids
      <3>1. "config_diff" \in Names /\ files[c]["config_diff"] \in Int
        BY PackAssumption DEF Names, FIVE, TypeInv, TypeOK, Versions
      <3>2. QED BY <3>1 DEF TypeInv, Owned, By
    <2>2. QED BY <2>1 DEF BaseInv, StampLast, SawStamp
  <1>2. QED BY <1>1, BaseInvariant, PTL

(* ------------------------------- the graph ----------------------------- *)

\* Where a job whose topology.json is there can be.
Past == {"topology", "again", "hash", "manifest"} \cup Ends

\* The job has hashed the graph for its topology.json.
Reffed(j) == \/ jobs[j].pc \in {"load", "topology"}
             \/ \E c \in Cards : By(files[c]["topology"]) = j

\* Job i may build the graph although j has hashed it.
Blamed(i, j) == Met(i, j) \/ (i > j /\ jobs[i].kind = "rebuild")

GraphInv ==
    /\ \A j \in Ids : (\E c \in Cards : By(files[c]["topology"]) = j) => jobs[j].pc \in Past
    /\ \A j \in Ids : jobs[j].pc = "digest" \/ Reffed(j) => shared["graph"] # 0
    /\ \A j \in Ids : Reffed(j) /\ jobs[j].ref # shared["graph"] => Blamed(By(shared["graph"]), j)
    /\ \A i \in Live, j \in Ids : jobs[i].pc = "graph" /\ Reffed(j) => Blamed(i, j)

\* Steps that have nothing to do with the graph.
LEMMA QuietSteps ==
  ASSUME TypeInv, NEW j \in Live, Step(j),
         ~EnsureTopology(j), ~DigestTopology(j), ~LoadTopology(j),
         ~((Open(j) \/ Close(j)) /\ jobs[j].pc \in {"graph", "topology"})
  PROVE  /\ jobs'[j].ref = jobs[j].ref
         /\ jobs'[j].pc \notin {"digest", "load", "topology", "graph"}
         /\ jobs[j].pc \in Past => jobs'[j].pc \in Past
         /\ shared'["graph"] = shared["graph"]
         /\ \A c \in Cards : files'[c]["topology"] = files[c]["topology"]
  <1>1. /\ jobs[j] \in Job /\ Fits(jobs[j]) /\ jobs[j].pc \notin Ends /\ j \in Ids
        /\ j \in Versions /\ -j \in Versions
        /\ "topology" \in Names /\ "graph" \in Shared
    BY JobTypes DEF Live, Names, FIVE, Shared
  <1>2. CASE Open(j)
    <2>1. jobs[j].pc \in Written /\ Put(j, jobs[j].pc, -j) /\ jobs[j].pc \notin {"digest", "load"}
      BY <1>2 DEF Open, Written, Names, Shared, FIVE
    <2>2. Becomes(j, [jobs[j] EXCEPT !.writing = TRUE])
      BY <1>2, StepJob
    <2>3. jobs'[j].ref = jobs[j].ref /\ jobs'[j].pc = jobs[j].pc
      BY <1>1, <2>2 DEF Becomes, Job
    <2>4. QED BY <1>1, <1>2, <2>1, <2>3, PutIs DEF Shared
  <1>3. CASE Close(j)
    <2>1. jobs[j].pc \in Written /\ Put(j, jobs[j].pc, j)
      BY <1>3, StepFiles DEF Close, Open
    <2>2. Becomes(j, [jobs[j] EXCEPT !.writing = FALSE, !.pc = After(j)])
      BY <1>3, StepJob
    <2>3. jobs'[j].ref = jobs[j].ref /\ jobs'[j].pc = After(j)
      BY <1>1, <2>2 DEF Becomes, Job
    <2>4. /\ shared'["graph"] = shared["graph"]
          /\ \A c \in Cards : files'[c]["topology"] = files[c]["topology"]
      BY <1>1, <1>3, <2>1, PutIs DEF Shared
    <2>5. /\ jobs'[j].pc \notin {"digest", "load", "topology", "graph"}
          /\ jobs[j].pc \in Past => jobs'[j].pc \in Past
      BY <1>1, <1>3, <2>1, <2>3, AfterIs DEF Written, Names, Shared, FIVE, Past, Ends
    <2>6. QED BY <2>3, <2>4, <2>5
  <1>4. CASE EnsureBaseline(j)
    <2>1. \/ Becomes(j, [jobs[j] EXCEPT !.pc = "flagd", !.snaps = TRUE])
          \/ Becomes(j, [jobs[j] EXCEPT !.pc = "raised"])
          \/ Becomes(j, [jobs[j] EXCEPT !.pc = "against"])
      BY <1>4, StepJob
    <2>2. QED BY <1>1, <1>4, <2>1 DEF EnsureBaseline, At, KeepFiles, Becomes, Job, Past, Ends
  <1>5. CASE ReadBaseline(j)
    <2>1. Becomes(j, [jobs[j] EXCEPT !.pc = "config_diff",
                        !.base = [flagd |-> shared["flagd"], env |-> shared["env"]]])
      BY <1>5, StepJob
    <2>2. QED BY <1>1, <1>5, <2>1 DEF ReadBaseline, At, KeepFiles, Becomes, Job, Past, Ends
  <1>6. CASE RereadBaseline(j)
    <2>1. \/ Becomes(j, [jobs[j] EXCEPT !.pc = "raised"])
          \/ Becomes(j, [jobs[j] EXCEPT !.pc = "hash"])
      BY <1>6, StepJob
    <2>2. QED BY <1>1, <1>6, <2>1 DEF RereadBaseline, KeepFiles, Becomes, Job, Past, Ends
  <1>7. CASE ReadManifest(j)
    <2>1. \/ Becomes(j, [jobs[j] EXCEPT !.pc = "raised"])
          \/ Becomes(j, [jobs[j] EXCEPT !.pc = "metrics",
                           !.sums = jobs[files[Card(j)]["manifest"]].sums])
      BY <1>7, StepJob
    <2>2. QED BY <1>1, <1>7, <2>1 DEF ReadManifest, At, KeepFiles, Becomes, Job, Past, Ends
  <1>8. CASE Hash(j)
    <2>1. Becomes(j, [jobs[j] EXCEPT !.pc = "manifest", !.sums = Sums(j)])
      BY <1>8, StepJob
    <2>2. QED BY <1>1, <1>8, <2>1 DEF Hash, KeepFiles, Becomes, Job, Past, Ends
  <1>9. CASE Stop(j)
    <2>1. Becomes(j, [jobs[j] EXCEPT !.pc = "stopped"])
      BY <1>9, StepJob
    <2>2. QED BY <1>1, <1>9, <2>1 DEF Stop, KeepFiles, Becomes, Job, Past, Ends
  <1>10. QED BY <1>2, <1>3, <1>4, <1>5, <1>6, <1>7, <1>8, <1>9 DEF Step

\* Whoever is at work has met everyone that started after it.
LEMMA LiveMeets ==
  ASSUME TypeInv, NEW i \in Live, NEW j \in Ids, i < j \/ (i # j /\ j \in Live)
  PROVE  Met(i, j)
  <1>1. i \in Ids /\ (i < j \/ (j < i /\ j \in Live))
    BY JobTypes DEF Live
  <1>2. QED BY <1>1 DEF TypeInv, Meetings, Met

LEMMA GraphKept ==
  ASSUME TypeInv, GraphInv, Next
  PROVE  GraphInv'
  <1>1. /\ \A n \in Shared : shared[n] \in Int
        /\ \A c \in Cards : files[c]["topology"] \in Int
        /\ "graph" \in Shared /\ "topology" \in Names /\ "topology" \notin Shared
    BY PackAssumption DEF TypeInv, TypeOK, Versions, Names, FIVE, Shared
  <1>2. shared["graph"] # 0 => By(shared["graph"]) \in Ids
    BY <1>1 DEF TypeInv, Owned
  <1>3. ASSUME NEW kind \in Kinds, NEW card \in Cards, Start(kind, card)
        PROVE  GraphInv'
    <2>0. PICK n : n = Len(jobs) + 1
      OBVIOUS
    <2>1. jobs'[n].pc \in {"read", "logs"}
      <3>1. NewJob(kind, card).pc \in {"read", "logs"}
        BY DEF NewJob
      <3>2. QED BY <1>3, <2>0, <3>1, StartJob
    <2>2. /\ Ids' = Ids \cup {n} /\ n \notin Ids /\ UNCHANGED <<files, shared>>
          /\ \A i \in Ids : jobs'[i] = jobs[i]
      BY <1>3, <2>0, StartJob
    <2>3. \A c \in Cards : By(files[c]["topology"]) # n
      <3>1. n \in Nat /\ n >= 1 /\ By(0) = 0
        BY <2>0, LenProperties DEF TypeInv, TypeOK, By
      <3>2. QED BY <1>1, <2>2, <3>1 DEF TypeInv, Owned
    <2>4. \A j \in Ids : Reffed(j)' <=> Reffed(j)
      BY <2>2 DEF Reffed
    <2>5. ~Reffed(n)'
      <3>1. \A c \in Cards : By(files[c]["topology"])' = By(files[c]["topology"])
        BY <2>2 DEF By
      <3>2. QED BY <2>1, <2>3, <3>1 DEF Reffed
    <2>6. \A i \in Ids, j \in Ids : Blamed(i, j) => Blamed(i, j)'
      BY <2>2 DEF Blamed, Met
    <2>7. \A i \in Live' : i # n => i \in Live /\ i \in Ids
      BY <2>2 DEF Live, At
    <2>8. \A j \in Ids' : Reffed(j)' => j \in Ids /\ Reffed(j)
      BY <2>2, <2>4, <2>5
    <2>9. \A j \in Ids' : (\E c \in Cards : By(files'[c]["topology"]) = j) => jobs'[j].pc \in Past
      BY <2>2, <2>3 DEF GraphInv
    <2>10. \A j \in Ids' : jobs'[j].pc = "digest" \/ Reffed(j)' => shared'["graph"] # 0
      BY <2>1, <2>2, <2>8 DEF GraphInv
    <2>11. \A j \in Ids' : Reffed(j)' /\ jobs'[j].ref # shared'["graph"] => Blamed(By(shared["graph"]), j)'
      <3>1. ASSUME NEW j \in Ids', Reffed(j)', jobs'[j].ref # shared'["graph"]
            PROVE  Blamed(By(shared["graph"]), j)'
        <4>0. PICK b : b = By(shared["graph"])
          OBVIOUS
        <4>1. j \in Ids /\ Reffed(j) /\ jobs[j].ref # shared["graph"]
          BY <2>2, <2>8, <3>1
        <4>2. By(shared["graph"]) \in Ids /\ Blamed(By(shared["graph"]), j)
          BY <1>2, <4>1 DEF GraphInv
        <4>3. By(shared["graph"])' = By(shared["graph"])
          BY <2>2 DEF By
        <4>4. Blamed(b, j)'
          BY <2>6, <4>0, <4>1, <4>2
        <4>5. QED BY <4>0, <4>3, <4>4 DEF Blamed, Met
      <3>2. QED BY <3>1
    <2>12. \A i \in Live', j \in Ids' : jobs'[i].pc = "graph" /\ Reffed(j)' => Blamed(i, j)'
      BY <2>1, <2>2, <2>6, <2>7, <2>8 DEF GraphInv
    <2>13. QED BY <2>9, <2>10, <2>11, <2>12 DEF GraphInv
  <1>4. ASSUME NEW j \in Live, Step(j)
        PROVE  GraphInv'
    <2>1. /\ j \in Ids /\ j \in Nat /\ j >= 1 /\ jobs[j] \in Job /\ Fits(jobs[j])
          /\ j \in Versions /\ -j \in Versions /\ By(j) = j /\ By(-j) = j
      BY JobTypes DEF Live, By
    <2>2. /\ Ids' = Ids /\ \A i \in Ids : i # j => jobs'[i] = jobs[i]
          /\ Live \subseteq Ids /\ Live' \subseteq Live /\ j \in Live
      BY <1>4, StepKeeps DEF Live
    <2>3. \A i \in Ids, k \in Ids : Blamed(i, k) => Blamed(i, k)'
      <3>1. \A i \in Ids : jobs'[i].with = jobs[i].with /\ jobs'[i].kind = jobs[i].kind
        BY <1>4, StepKeeps
      <3>2. QED BY <3>1 DEF Blamed, Met
    <2>4. ASSUME shared'["graph"] = shared["graph"], \A k \in Ids : Reffed(k)' => Reffed(k),
                 jobs'[j].ref = jobs[j].ref
          PROVE  \A k \in Ids : Reffed(k)' /\ jobs'[k].ref # shared'["graph"] =>
                   Blamed(By(shared["graph"]), k)'
      <3>1. ASSUME NEW k \in Ids, Reffed(k)', jobs'[k].ref # shared'["graph"]
            PROVE  Blamed(By(shared["graph"]), k)'
        <4>0. PICK b : b = By(shared["graph"])
          OBVIOUS
        <4>1. Reffed(k) /\ jobs[k].ref # shared["graph"]
          BY <2>2, <2>4, <3>1
        <4>2. By(shared["graph"]) \in Ids /\ Blamed(By(shared["graph"]), k)
          BY <1>2, <4>1 DEF GraphInv
        <4>3. By(shared["graph"])' = By(shared["graph"])
          BY <2>4 DEF By
        <4>4. Blamed(b, k)'
          BY <2>3, <4>0, <4>2
        <4>5. QED BY <4>0, <4>3, <4>4 DEF Blamed, Met
      <3>2. QED BY <3>1
    <2>5. CASE /\ ~EnsureTopology(j) /\ ~DigestTopology(j) /\ ~LoadTopology(j)
               /\ ~((Open(j) \/ Close(j)) /\ jobs[j].pc \in {"graph", "topology"})
      <3>1. /\ jobs'[j].ref = jobs[j].ref
            /\ jobs'[j].pc \notin {"digest", "load", "topology", "graph"}
            /\ jobs[j].pc \in Past => jobs'[j].pc \in Past
            /\ shared'["graph"] = shared["graph"]
            /\ \A c \in Cards : files'[c]["topology"] = files[c]["topology"]
        BY <1>4, <2>5, QuietSteps
      <3>2. \A c \in Cards : By(files[c]["topology"])' = By(files[c]["topology"])
        BY <3>1 DEF By
      <3>3. \A k \in Ids : Reffed(k)' => Reffed(k)
        BY <2>2, <3>1, <3>2 DEF Reffed
      <3>4. \A k \in Ids : Reffed(k)' /\ jobs'[k].ref # shared'["graph"] => Blamed(By(shared["graph"]), k)'
        BY <2>4, <3>1, <3>3
      <3>5. \A k \in Ids : (\E c \in Cards : By(files[c]["topology"])' = k) => jobs'[k].pc \in Past
        BY <2>2, <3>1, <3>2 DEF GraphInv
      <3>6. \A k \in Ids : jobs'[k].pc = "digest" \/ Reffed(k)' => shared'["graph"] # 0
        BY <2>2, <3>1, <3>3 DEF GraphInv
      <3>7. \A i \in Live', k \in Ids : jobs'[i].pc = "graph" /\ Reffed(k)' => Blamed(i, k)'
        BY <2>2, <2>3, <3>1, <3>3 DEF GraphInv
      <3>8. QED BY <2>2, <3>4, <3>5, <3>6, <3>7 DEF GraphInv
    <2>6. CASE (Open(j) \/ Close(j)) /\ jobs[j].pc = "graph"
      <3>1. /\ \/ shared'["graph"] = -j /\ jobs'[j].pc = "graph"
               \/ shared'["graph"] = j /\ jobs'[j].pc = "digest"
            /\ UNCHANGED files /\ jobs'[j].ref = jobs[j].ref
        <4>1. CASE Open(j)
          <5>1. jobs[j].pc \in Written /\ Put(j, jobs[j].pc, -j)
            BY <4>1 DEF Open, Written
          <5>2. Becomes(j, [jobs[j] EXCEPT !.writing = TRUE])
            BY <4>1, StepJob
          <5>3. jobs'[j].ref = jobs[j].ref /\ jobs'[j].pc = jobs[j].pc
            BY <2>1, <5>2 DEF Becomes, Job
          <5>4. QED BY <1>1, <2>1, <2>6, <5>1, <5>3, PutIs
        <4>2. CASE Close(j)
          <5>1. jobs[j].pc \in Written /\ Put(j, jobs[j].pc, j)
            BY <1>4, <4>2, StepFiles DEF Close, Open
          <5>2. Becomes(j, [jobs[j] EXCEPT !.writing = FALSE, !.pc = After(j)])
            BY <4>2, StepJob
          <5>3. jobs'[j].ref = jobs[j].ref /\ jobs'[j].pc = "digest"
            BY <2>1, <2>6, <5>2, AfterIs DEF Becomes, Job
          <5>4. QED BY <1>1, <2>1, <2>6, <5>1, <5>3, PutIs
        <4>3. QED BY <2>6, <4>1, <4>2
      <3>2. By(shared["graph"])' = j /\ shared'["graph"] # 0
        BY <2>1, <3>1 DEF By
      <3>3. \A c \in Cards : By(files[c]["topology"])' = By(files[c]["topology"])
        BY <3>1 DEF By
      <3>4. \A k \in Ids : Reffed(k)' => Reffed(k)
        BY <2>2, <2>6, <3>1, <3>3 DEF Reffed
      <3>5. \A k \in Ids : Reffed(k)' => Blamed(By(shared["graph"]), k)'
        <4>1. \A k \in Ids : Reffed(k)' => Blamed(j, k)'
          BY <2>1, <2>2, <2>3, <2>6, <3>4 DEF GraphInv
        <4>2. QED BY <3>2, <4>1 DEF Blamed, Met
      <3>6. \A k \in Ids : (\E c \in Cards : By(files[c]["topology"])' = k) => jobs'[k].pc \in Past
        <4>1. jobs[j].pc \notin Past
          BY <2>6 DEF Past, Ends
        <4>2. QED BY <2>2, <3>3, <4>1 DEF GraphInv
      <3>7. \A i \in Live', k \in Ids : jobs'[i].pc = "graph" /\ Reffed(k)' => Blamed(i, k)'
        BY <2>2, <2>3, <2>6, <3>4 DEF GraphInv
      <3>8. QED BY <2>2, <3>2, <3>5, <3>6, <3>7 DEF GraphInv
    <2>7. CASE (Open(j) \/ Close(j)) /\ jobs[j].pc = "topology"
      <3>1. /\ \A c \in Cards : \/ files'[c]["topology"] = files[c]["topology"]
                                \/ files'[c]["topology"] \in {j, -j}
            /\ UNCHANGED shared /\ jobs'[j].ref = jobs[j].ref /\ jobs'[j].pc \in {"topology", "again"}
        <4>1. CASE Open(j)
          <5>1. jobs[j].pc \in Written /\ Put(j, jobs[j].pc, -j)
            BY <4>1 DEF Open, Written
          <5>2. Becomes(j, [jobs[j] EXCEPT !.writing = TRUE])
            BY <4>1, StepJob
          <5>3. jobs'[j].ref = jobs[j].ref /\ jobs'[j].pc = jobs[j].pc
            BY <2>1, <5>2 DEF Becomes, Job
          <5>4. QED BY <1>1, <2>1, <2>7, <5>1, <5>3, PutIs
        <4>2. CASE Close(j)
          <5>1. jobs[j].pc \in Written /\ Put(j, jobs[j].pc, j)
            BY <1>4, <4>2, StepFiles DEF Close, Open
          <5>2. Becomes(j, [jobs[j] EXCEPT !.writing = FALSE, !.pc = After(j)])
            BY <4>2, StepJob
          <5>3. jobs'[j].ref = jobs[j].ref /\ jobs'[j].pc = "again"
            BY <2>1, <2>7, <5>2, AfterIs DEF Becomes, Job
          <5>4. QED BY <1>1, <2>1, <2>7, <5>1, <5>3, PutIs
        <4>3. QED BY <2>7, <4>1, <4>2
      <3>2. \A c \in Cards : By(files[c]["topology"])' = j
                             \/ By(files[c]["topology"])' = By(files[c]["topology"])
        BY <2>1, <3>1 DEF By
      <3>3. \A k \in Ids : Reffed(k)' => Reffed(k)
        BY <2>2, <2>7, <3>2 DEF Reffed
      <3>4. \A k \in Ids : Reffed(k)' /\ jobs'[k].ref # shared'["graph"] => Blamed(By(shared["graph"]), k)'
        BY <2>4, <3>1, <3>3
      <3>5. \A k \in Ids : (\E c \in Cards : By(files[c]["topology"])' = k) => jobs'[k].pc \in Past
        BY <2>2, <3>1, <3>2 DEF GraphInv, Past
      <3>6. \A k \in Ids : jobs'[k].pc = "digest" \/ Reffed(k)' => shared'["graph"] # 0
        BY <2>2, <3>1, <3>3 DEF GraphInv
      <3>7. \A i \in Live', k \in Ids : jobs'[i].pc = "graph" /\ Reffed(k)' => Blamed(i, k)'
        BY <2>2, <2>3, <3>1, <3>3 DEF GraphInv
      <3>8. QED BY <2>2, <3>4, <3>5, <3>6, <3>7 DEF GraphInv
    <2>8. CASE EnsureTopology(j)
      <3>1. Becomes(j, [jobs[j] EXCEPT !.pc = IF Builds(j) THEN "graph" ELSE "digest"])
        BY <2>8, StepJob
      <3>2. /\ jobs[j].pc = "exists" /\ UNCHANGED <<files, shared>> /\ jobs'[j].ref = jobs[j].ref
            /\ \/ jobs'[j].pc = "graph" /\ (jobs[j].kind = "rebuild" \/ shared["graph"] = 0)
               \/ jobs'[j].pc = "digest" /\ shared["graph"] # 0
        BY <2>1, <2>8, <3>1 DEF EnsureTopology, At, KeepFiles, Becomes, Job, Builds
      <3>3. \A c \in Cards : By(files[c]["topology"])' = By(files[c]["topology"])
        BY <3>2 DEF By
      <3>4. \A k \in Ids : Reffed(k)' => Reffed(k)
        BY <2>2, <3>2, <3>3 DEF Reffed
      <3>5. ~Reffed(j) /\ jobs[j].pc \notin Past
        BY <2>1, <3>2 DEF Reffed, GraphInv, Past, Ends
      <3>6. \A k \in Ids : Reffed(k)' /\ jobs'[k].ref # shared'["graph"] => Blamed(By(shared["graph"]), k)'
        BY <2>4, <3>2, <3>4
      <3>7. \A k \in Ids : (\E c \in Cards : By(files[c]["topology"])' = k) => jobs'[k].pc \in Past
        BY <2>2, <3>3, <3>5 DEF GraphInv
      <3>8. \A k \in Ids : jobs'[k].pc = "digest" \/ Reffed(k)' => shared'["graph"] # 0
        BY <2>2, <3>2, <3>4 DEF GraphInv
      <3>9. ASSUME NEW k \in Ids, jobs'[j].pc = "graph", Reffed(k)
            PROVE  Blamed(j, k)
        <4>1. jobs[j].kind = "rebuild" /\ k # j
          BY <3>2, <3>5, <3>9 DEF GraphInv
        <4>2. j < k \/ j > k
          BY <2>1, <4>1, JobTypes
        <4>3. QED BY <4>1, <4>2, LiveMeets DEF Blamed
      <3>10. \A i \in Live', k \in Ids : jobs'[i].pc = "graph" /\ Reffed(k)' => Blamed(i, k)'
        BY <2>1, <2>2, <2>3, <3>4, <3>9 DEF GraphInv
      <3>11. QED BY <2>2, <3>6, <3>7, <3>8, <3>10 DEF GraphInv
    <2>9. CASE DigestTopology(j)
      <3>1. Becomes(j, [jobs[j] EXCEPT !.pc = "load", !.ref = shared["graph"]])
        BY <2>9, StepJob
      <3>2. /\ jobs[j].pc = "digest" /\ UNCHANGED <<files, shared>>
            /\ jobs'[j].ref = shared["graph"] /\ jobs'[j].pc = "load"
        BY <2>1, <2>9, <3>1 DEF DigestTopology, At, KeepFiles, Becomes, Job
      <3>3. \A c \in Cards : By(files[c]["topology"])' = By(files[c]["topology"])
        BY <3>2 DEF By
      <3>4. \A k \in Ids : k # j /\ Reffed(k)' => Reffed(k)
        BY <2>2, <3>3 DEF Reffed
      <3>5. jobs[j].pc \notin Past
        BY <3>2 DEF Past, Ends
      <3>6. \A k \in Ids : Reffed(k)' /\ jobs'[k].ref # shared'["graph"] => Blamed(By(shared["graph"]), k)'
        <4>1. ASSUME NEW k \in Ids, Reffed(k)', jobs'[k].ref # shared'["graph"]
              PROVE  Blamed(By(shared["graph"]), k)'
          <5>0. PICK b : b = By(shared["graph"])
            OBVIOUS
          <5>1. k # j /\ Reffed(k) /\ jobs[k].ref # shared["graph"]
            BY <2>2, <3>2, <3>4, <4>1
          <5>2. By(shared["graph"]) \in Ids /\ Blamed(By(shared["graph"]), k)
            BY <1>2, <5>1 DEF GraphInv
          <5>3. By(shared["graph"])' = By(shared["graph"])
            BY <3>2 DEF By
          <5>4. Blamed(b, k)'
            BY <2>3, <5>0, <5>2
          <5>5. QED BY <5>0, <5>3, <5>4 DEF Blamed, Met
        <4>2. QED BY <4>1
      <3>7. \A k \in Ids : (\E c \in Cards : By(files[c]["topology"])' = k) => jobs'[k].pc \in Past
        BY <2>2, <3>3, <3>5 DEF GraphInv
      <3>8. \A k \in Ids : jobs'[k].pc = "digest" \/ Reffed(k)' => shared'["graph"] # 0
        BY <2>1, <2>2, <3>2, <3>4 DEF GraphInv
      <3>9. \A i \in Live' : jobs'[i].pc = "graph" => i # j /\ i \in Live /\ Blamed(i, j)'
        <4>1. \A i \in Live' : jobs'[i].pc = "graph" => i # j /\ i \in Live
          BY <2>2, <3>2
        <4>2. QED BY <2>1, <2>2, <2>3, <4>1, LiveMeets DEF Blamed
      <3>10. \A i \in Live', k \in Ids : jobs'[i].pc = "graph" /\ Reffed(k)' => Blamed(i, k)'
        BY <2>2, <2>3, <3>4, <3>9 DEF GraphInv
      <3>11. QED BY <2>2, <3>6, <3>7, <3>8, <3>10 DEF GraphInv
    <2>10. CASE LoadTopology(j)
      <3>1. \/ Becomes(j, [jobs[j] EXCEPT !.pc = "raised"])
            \/ Becomes(j, [jobs[j] EXCEPT !.pc = "topology"])
        BY <2>10, StepJob
      <3>2. /\ jobs[j].pc = "load" /\ UNCHANGED <<files, shared>>
            /\ jobs'[j].ref = jobs[j].ref /\ jobs'[j].pc \in {"raised", "topology"}
        BY <2>1, <2>10, <3>1 DEF LoadTopology, At, KeepFiles, Becomes, Job
      <3>3. \A c \in Cards : By(files[c]["topology"])' = By(files[c]["topology"])
        BY <3>2 DEF By
      <3>4. \A k \in Ids : Reffed(k)' => Reffed(k)
        BY <2>2, <3>2, <3>3 DEF Reffed
      <3>5. jobs'[j].pc \in Past
        BY <3>2 DEF Past, Ends
      <3>6. \A k \in Ids : Reffed(k)' /\ jobs'[k].ref # shared'["graph"] => Blamed(By(shared["graph"]), k)'
        BY <2>4, <3>2, <3>4
      <3>7. \A k \in Ids : (\E c \in Cards : By(files[c]["topology"])' = k) => jobs'[k].pc \in Past
        BY <2>2, <3>3, <3>5 DEF GraphInv
      <3>8. \A k \in Ids : jobs'[k].pc = "digest" \/ Reffed(k)' => shared'["graph"] # 0
        BY <2>2, <3>2, <3>4 DEF GraphInv
      <3>9. \A i \in Live', k \in Ids : jobs'[i].pc = "graph" /\ Reffed(k)' => Blamed(i, k)'
        BY <2>2, <2>3, <3>2, <3>4 DEF GraphInv
      <3>10. QED BY <2>2, <3>6, <3>7, <3>8, <3>9 DEF GraphInv
    <2>11. QED BY <1>4, <2>5, <2>6, <2>7, <2>8, <2>9, <2>10
  <1>5. QED BY <1>3, <1>4 DEF Next, Step

LEMMA GraphInvariant == Spec => [](TypeInv /\ GraphInv)
  <1>1. Init => TypeInv /\ GraphInv
    <2>1. Init => Ids = {} /\ Live = {}
      BY DEF Init, Ids, Live
    <2>2. QED BY <2>1, InitTypes DEF GraphInv
  <1>2. TypeInv /\ GraphInv /\ [Next]_vars => TypeInv' /\ GraphInv'
    <2>1. GraphInv /\ UNCHANGED vars => GraphInv'
      BY DEF vars, GraphInv, Reffed, Blamed, Met, Live, Ids, At, By
    <2>2. QED BY <2>1, NextTypes, GraphKept
  <1>3. QED BY <1>1, <1>2, PTL DEF Spec

\* The hash in topology.json is that of the graph, unless the graph was rebuilt
\* on demand since, or built by a job it met.
THEOREM RefsTell == Spec => []RefTells
  <1>1. TypeInv /\ GraphInv => RefTells
    <2> SUFFICES ASSUME TypeInv, GraphInv, NEW c \in Cards, files[c]["topology"] > 0,
                        jobs[files[c]["topology"]].ref # shared["graph"]
                 PROVE  LET i == By(shared["graph"])
                            j == files[c]["topology"]
                        IN  (i > j /\ jobs[i].kind = "rebuild") \/ Met(i, j)
      BY DEF RefTells, By
    <2>1. files[c]["topology"] \in Ids /\ By(files[c]["topology"]) = files[c]["topology"]
      <3>1. "topology" \in Names /\ files[c]["topology"] \in Int
        BY PackAssumption DEF Names, FIVE, TypeInv, TypeOK, Versions
      <3>2. QED BY <3>1 DEF TypeInv, Owned, By
    <2>2. Reffed(files[c]["topology"])
      BY <2>1 DEF Reffed
    <2>3. QED BY <2>1, <2>2 DEF GraphInv, Blamed
  <1>2. QED BY <1>1, GraphInvariant, PTL

(* ------------------------------ the manifest --------------------------- *)

\* No two jobs met on the card.
Apart(c) == ~\E i, j \in JobsOf(c) : Met(i, j)

Packing == {"logs", "metrics", "traces", "ensure", "flagd", "env", "snapshot", "against",
            "config_diff"}
Mapping == Packing \cup {"exists", "graph", "digest", "load", "topology"}

FOUR == FIVE \ {"metrics"}

\* What the last pack of the card has written is there as it left it, but for
\* metrics.json, which a refresh may have written over.
PackSays(c, p) ==
    jobs[p].pc \notin {"stopped", "raised"} =>
      /\ jobs[p].pc # "logs" => files[c]["logs"] = p
      /\ jobs[p].pc \notin {"logs", "metrics", "done"} => files[c]["metrics"] = p
      /\ jobs[p].pc \notin {"logs", "metrics", "traces"} => files[c]["traces"] = p
      /\ jobs[p].pc \notin Packing => files[c]["config_diff"] = p
      /\ jobs[p].pc \notin Mapping => files[c]["topology"] = p
      /\ jobs[p].pc = "manifest" => \A n \in FIVE : jobs[p].sums[n] = p

\* A manifest after it has its four files,
FoursKept(c, p) ==
    files[c]["manifest"] > 0 => \A n \in FOUR : jobs[files[c]["manifest"]].sums[n] = p

\* and the last job carries them over to its own.
LastSays(c, p, l) ==
    /\ l # p /\ jobs[l].pc \in {"metrics", "hash", "manifest"} => \A n \in FOUR : jobs[l].sums[n] = p
    /\ l # p /\ jobs[l].pc \in {"hash", "manifest"} => files[c]["metrics"] = l
    /\ l # p /\ jobs[l].pc = "manifest" => jobs[l].sums["metrics"] = l
    /\ jobs[l].pc = "done" =>
         /\ files[c]["manifest"] = l /\ files[c]["metrics"] = l
         /\ jobs[l].sums["metrics"] = l

CardSays(c) ==
    \A p \in Ids : IsLast(p, PacksOf(c)) =>
      /\ PackSays(c, p)
      /\ jobs[p].pc = "done" =>
           /\ FoursKept(c, p)
           /\ \A l \in Ids : IsLast(l, JobsOf(c)) => LastSays(c, p, l)

ManifestInv == \A c \in Cards : Apart(c) => CardSays(c)

LEMMA LiveIsLast ==
  ASSUME TypeInv, NEW j \in Live, Apart(Card(j))
  PROVE  /\ IsLast(j, JobsOf(Card(j)))
         /\ \A i \in JobsOf(Card(j)) : i # j => i \notin Live
         /\ jobs[j].kind # "refresh" => IsLast(j, PacksOf(Card(j)))
  <1>1. j \in JobsOf(Card(j)) /\ j \in Ids
    BY DEF Live, JobsOf
  <1>2. ASSUME NEW i \in JobsOf(Card(j)), i # j
        PROVE  i < j /\ i \notin Live
    <2>1. i \in Ids /\ ~Met(j, i)
      BY <1>1, <1>2 DEF JobsOf, Apart
    <2>2. ~(j < i) /\ i \notin Live
      BY <1>2, <2>1, LiveMeets
    <2>3. QED BY <1>1, <1>2, <2>1, <2>2, JobTypes
  <1>3. IsLast(j, JobsOf(Card(j)))
    <2>1. \A i \in JobsOf(Card(j)) : i \in Nat /\ j \in Nat /\ (i = j \/ i < j)
      BY <1>1, <1>2, JobTypes DEF JobsOf
    <2>2. QED BY <1>1, <2>1 DEF IsLast
  <1>4. QED BY <1>2, <1>3 DEF IsLast, PacksOf

LEMMA LastIsOne ==
  ASSUME TypeInv, NEW ids \in SUBSET Ids, NEW i, NEW j, IsLast(i, ids), IsLast(j, ids)
  PROVE  i = j
  <1>1. i \in Ids /\ j \in Ids /\ i <= j /\ j <= i
    BY DEF IsLast
  <1>2. QED BY <1>1, JobTypes

\* From where a pack goes where without writing.
LEMMA PackThinks ==
  ASSUME TypeInv, NEW j \in Live, Step(j), ~Open(j), ~Close(j), jobs[j].kind # "refresh",
         jobs'[j].pc \notin {"stopped", "raised"}
  PROVE  /\ UNCHANGED files
         /\ jobs[j].pc \notin {"logs", "metrics", "traces"} /\ jobs'[j].pc # "done"
         /\ jobs'[j].pc \notin Packing => jobs[j].pc \notin Packing
         /\ jobs'[j].pc \notin Mapping => jobs[j].pc \notin Mapping
         /\ jobs'[j].pc = "manifest" =>
              jobs[j].pc = "hash" /\ \A n \in FIVE : jobs'[j].sums[n] = files[Card(j)][n]
  <1>1. jobs[j] \in Job /\ Fits(jobs[j])
    BY JobTypes DEF Live
  <1>2. CASE EnsureBaseline(j)
    <2>1. \/ Becomes(j, [jobs[j] EXCEPT !.pc = "flagd", !.snaps = TRUE])
          \/ Becomes(j, [jobs[j] EXCEPT !.pc = "raised"])
          \/ Becomes(j, [jobs[j] EXCEPT !.pc = "against"])
      BY <1>2, StepJob
    <2>2. QED BY <1>1, <1>2, <2>1 DEF EnsureBaseline, At, KeepFiles, Becomes, Job, Packing, Mapping
  <1>3. CASE ReadBaseline(j)
    <2>1. Becomes(j, [jobs[j] EXCEPT !.pc = "config_diff",
                        !.base = [flagd |-> shared["flagd"], env |-> shared["env"]]])
      BY <1>3, StepJob
    <2>2. QED BY <1>1, <1>3, <2>1 DEF ReadBaseline, At, KeepFiles, Becomes, Job, Packing, Mapping
  <1>4. CASE RereadBaseline(j)
    <2>1. \/ Becomes(j, [jobs[j] EXCEPT !.pc = "raised"])
          \/ Becomes(j, [jobs[j] EXCEPT !.pc = "hash"])
      BY <1>4, StepJob
    <2>2. QED BY <1>1, <1>4, <2>1 DEF RereadBaseline, At, KeepFiles, Becomes, Job, Packing, Mapping
  <1>5. CASE EnsureTopology(j)
    <2>1. Becomes(j, [jobs[j] EXCEPT !.pc = IF Builds(j) THEN "graph" ELSE "digest"])
      BY <1>5, StepJob
    <2>2. QED BY <1>1, <1>5, <2>1 DEF EnsureTopology, At, KeepFiles, Becomes, Job, Packing, Mapping
  <1>6. CASE DigestTopology(j)
    <2>1. Becomes(j, [jobs[j] EXCEPT !.pc = "load", !.ref = shared["graph"]])
      BY <1>6, StepJob
    <2>2. QED BY <1>1, <1>6, <2>1 DEF DigestTopology, At, KeepFiles, Becomes, Job, Packing, Mapping
  <1>7. CASE LoadTopology(j)
    <2>1. \/ Becomes(j, [jobs[j] EXCEPT !.pc = "raised"])
          \/ Becomes(j, [jobs[j] EXCEPT !.pc = "topology"])
      BY <1>7, StepJob
    <2>2. QED BY <1>1, <1>7, <2>1 DEF LoadTopology, At, KeepFiles, Becomes, Job, Packing, Mapping
  <1>8. CASE ReadManifest(j)
    BY <1>1, <1>8 DEF ReadManifest, At, Fits
  <1>9. CASE Hash(j)
    <2>1. Becomes(j, [jobs[j] EXCEPT !.pc = "manifest", !.sums = Sums(j)])
      BY <1>9, StepJob
    <2>2. jobs'[j].pc = "manifest" /\ jobs'[j].sums = [n \in FIVE |-> files[Card(j)][n]]
      BY <1>1, <2>1 DEF Becomes, Job, Sums
    <2>3. QED BY <1>9, <2>2 DEF Hash, At, KeepFiles, Packing, Mapping
  <1>10. CASE Stop(j)
    <2>1. Becomes(j, [jobs[j] EXCEPT !.pc = "stopped"])
      BY <1>10, StepJob
    <2>2. QED BY <1>1, <2>1 DEF Becomes, Job
  <1>11. QED BY <1>2, <1>3, <1>4, <1>5, <1>6, <1>7, <1>8, <1>9, <1>10 DEF Step

\* The writing steps on the card's own files.
LEMMA WriteCard ==
  ASSUME TypeInv, NEW j \in Live, Step(j), Open(j) \/ Close(j)
  PROVE  /\ jobs[j].pc \in Written /\ jobs'[j].sums = jobs[j].sums
         /\ Open(j) => jobs'[j].pc = jobs[j].pc
         /\ Close(j) => jobs'[j].pc = After(j)
         /\ \A n \in Names : \/ n # jobs[j].pc /\ files'[Card(j)][n] = files[Card(j)][n]
                             \/ n = jobs[j].pc /\ Open(j) /\ files'[Card(j)][n] = -j
                             \/ n = jobs[j].pc /\ Close(j) /\ files'[Card(j)][n] = j
         /\ \A c \in Cards, n \in Names : c # Card(j) => files'[c][n] = files[c][n]
  <1>1. jobs[j] \in Job /\ j \in Ids /\ j \in Versions /\ -j \in Versions /\ Card(j) \in Cards
    BY JobTypes DEF Live, Card, Job
  <1>2. \A n \in Names : n \notin Shared
    BY DEF Names, Shared, FIVE
  <1>3. CASE Open(j)
    <2>1. jobs[j].pc \in Written /\ Put(j, jobs[j].pc, -j) /\ ~Close(j)
      BY <1>3 DEF Open, Close, Written
    <2>2. Becomes(j, [jobs[j] EXCEPT !.writing = TRUE])
      BY <1>3, StepJob
    <2>3. jobs'[j].pc = jobs[j].pc /\ jobs'[j].sums = jobs[j].sums
      BY <1>1, <2>2 DEF Becomes, Job
    <2>4. QED BY <1>1, <1>2, <1>3, <2>1, <2>3, PutIs
  <1>4. CASE Close(j)
    <2>1. jobs[j].pc \in Written /\ Put(j, jobs[j].pc, j) /\ ~Open(j)
      BY <1>4, StepFiles DEF Close, Open
    <2>2. Becomes(j, [jobs[j] EXCEPT !.writing = FALSE, !.pc = After(j)])
      BY <1>4, StepJob
    <2>3. jobs'[j].pc = After(j) /\ jobs'[j].sums = jobs[j].sums
      BY <1>1, <2>2 DEF Becomes, Job
    <2>4. QED BY <1>1, <1>2, <1>4, <2>1, <2>3, PutIs
  <1>5. QED BY <1>3, <1>4

LEMMA PackGoesOn ==
  ASSUME TypeInv, NEW j \in Live, Step(j), jobs[j].kind # "refresh", PackSays(Card(j), j)
  PROVE  /\ PackSays(Card(j), j)'
         /\ jobs'[j].pc = "done" =>
              /\ files'[Card(j)]["manifest"] = j /\ files'[Card(j)]["metrics"] = j
              /\ \A n \in FIVE : jobs'[j].sums[n] = j
  <1> DEFINE c == Card(j)
  <1>1. jobs[j] \in Job /\ Fits(jobs[j]) /\ jobs[j].pc \notin Ends /\ Card(j)' = c
        /\ FIVE = {"logs", "metrics", "traces", "config_diff", "topology"} /\ FIVE \subseteq Names
        /\ "manifest" \in Names
    BY JobTypes, StepKeeps DEF Live, Card, FIVE, Names
  <1>2. CASE Open(j)
    <2>1. /\ jobs'[j].pc = jobs[j].pc /\ jobs'[j].sums = jobs[j].sums
          /\ \A n \in Names : n # jobs[j].pc => files'[c][n] = files[c][n]
      BY <1>2, WriteCard
    <2>2. jobs'[j].pc # "done"
      BY <1>1, <2>1 DEF Ends
    <2>3. QED BY <1>1, <2>1, <2>2 DEF PackSays, Packing, Mapping, Ends
  <1>3. CASE Close(j)
    <2>1. /\ jobs[j].pc \in Written /\ jobs'[j].pc = After(j) /\ jobs'[j].sums = jobs[j].sums
          /\ \A n \in Names : n # jobs[j].pc => files'[c][n] = files[c][n]
          /\ \A n \in Names : n = jobs[j].pc => files'[c][n] = j
      BY <1>3, WriteCard DEF Open, Close
    <2>2. jobs[j].pc \in {"logs", "metrics", "traces", "config_diff", "topology", "manifest",
                          "flagd", "env", "snapshot", "graph"}
      BY <2>1 DEF Written, Names, Shared, FIVE
    <2>3. CASE jobs[j].pc \in {"logs", "metrics", "traces"}
      <3>1. /\ jobs[j].pc = "logs" => jobs'[j].pc = "metrics"
            /\ jobs[j].pc = "metrics" => jobs'[j].pc = "traces"
            /\ jobs[j].pc = "traces" => jobs'[j].pc = "ensure"
        BY <1>1, <2>1, AfterIs DEF Live
      <3>2. QED BY <1>1, <2>1, <2>3, <3>1 DEF PackSays, Packing, Mapping
    <2>4. CASE jobs[j].pc \in {"config_diff", "topology", "graph"}
      <3>1. /\ jobs[j].pc = "config_diff" => jobs'[j].pc = "exists"
            /\ jobs[j].pc = "topology" => jobs'[j].pc = "again"
            /\ jobs[j].pc = "graph" => jobs'[j].pc = "digest"
        BY <1>1, <2>1, AfterIs DEF Live
      <3>2. QED BY <1>1, <2>1, <2>4, <3>1 DEF PackSays, Packing, Mapping
    <2>5. CASE jobs[j].pc \in {"flagd", "env", "snapshot"}
      <3>1. jobs'[j].pc \in {"env", "snapshot", "against"}
        BY <1>1, <2>1, <2>5, AfterIs DEF Live
      <3>2. QED BY <1>1, <2>1, <2>5, <3>1 DEF PackSays, Packing, Mapping
    <2>6. CASE jobs[j].pc = "manifest"
      <3>1. jobs'[j].pc = "done"
        BY <1>1, <2>1, <2>6, AfterIs DEF Live
      <3>2. QED BY <1>1, <2>1, <2>6, <3>1 DEF PackSays, Packing, Mapping
    <2>7. QED BY <2>2, <2>3, <2>4, <2>5, <2>6
  <1>4. CASE ~Open(j) /\ ~Close(j)
    <2>1. CASE jobs'[j].pc \in {"stopped", "raised"}
      BY <2>1 DEF PackSays
    <2>2. CASE jobs'[j].pc \notin {"stopped", "raised"}
      <3>1. /\ UNCHANGED files
            /\ jobs[j].pc \notin {"logs", "metrics", "traces"} /\ jobs'[j].pc # "done"
            /\ jobs'[j].pc \notin Packing => jobs[j].pc \notin Packing
            /\ jobs'[j].pc \notin Mapping => jobs[j].pc \notin Mapping
            /\ jobs'[j].pc = "manifest" =>
                 jobs[j].pc = "hash" /\ \A n \in FIVE : jobs'[j].sums[n] = files[Card(j)][n]
        BY <1>4, <2>2, PackThinks
      <3>2. jobs'[j].pc = "manifest" => \A n \in FIVE : jobs'[j].sums[n] = j
        BY <1>1, <3>1 DEF PackSays, Packing, Mapping, Ends
      <3>3. QED BY <1>1, <3>1, <3>2 DEF PackSays, Ends
    <2>3. QED BY <2>1, <2>2
  <1>5. QED BY <1>2, <1>3, <1>4

\* A refresh writes metrics.json and the manifest only.
LEMMA RefreshGoesOn ==
  ASSUME TypeInv, NEW j \in Live, Step(j), jobs[j].kind = "refresh", NEW p \in Ids, p # j,
         PackSays(Card(j), p), jobs[p].pc \in Ends, FoursKept(Card(j), p), LastSays(Card(j), p, j),
         jobs[p].pc = "done"
  PROVE  /\ PackSays(Card(j), p)' /\ FoursKept(Card(j), p)' /\ LastSays(Card(j), p, j)'
  <1> DEFINE c == Card(j)
  <1>1. /\ jobs[j] \in Job /\ Fits(jobs[j]) /\ jobs[j].pc \notin Ends /\ Card(j)' = c /\ j \in Ids
        /\ c \in Cards /\ FOUR \subseteq Names /\ "manifest" \in Names /\ "metrics" \in Names
        /\ FOUR = {"logs", "traces", "config_diff", "topology"} /\ FOUR \subseteq FIVE
        /\ "metrics" \in FIVE /\ "metrics" \notin FOUR /\ j \in Nat /\ j >= 1
        /\ jobs'[p] = jobs[p] /\ files[c]["manifest"] \in Int
        /\ jobs[j].pc \in {"read", "metrics", "hash", "manifest"}
    <2>1. /\ jobs[j] \in Job /\ Fits(jobs[j]) /\ jobs[j].pc \notin Ends /\ j \in Ids
          /\ j \in Nat /\ j >= 1
      BY JobTypes DEF Live
    <2>2. Card(j)' = c /\ jobs'[p] = jobs[p]
      BY StepKeeps DEF Card
    <2>3. c \in Cards /\ jobs[j].pc \in {"read", "metrics", "hash", "manifest"}
      BY <2>1 DEF Card, Job, Fits
    <2>4. /\ FOUR \subseteq Names /\ "manifest" \in Names /\ "metrics" \in Names
          /\ FOUR = {"logs", "traces", "config_diff", "topology"} /\ FOUR \subseteq FIVE
          /\ "metrics" \in FIVE /\ "metrics" \notin FOUR
      BY DEF FOUR, FIVE, Names
    <2>5. files[c]["manifest"] \in Int
      BY <2>3, <2>4, PackAssumption DEF TypeInv, TypeOK, Versions
    <2>6. QED BY <2>1, <2>2, <2>3, <2>4, <2>5
  <1>2. CASE Open(j) \/ Close(j)
    <2>1. /\ jobs[j].pc \in {"metrics", "manifest"} /\ jobs'[j].sums = jobs[j].sums
          /\ Open(j) => jobs'[j].pc = jobs[j].pc
          /\ Close(j) /\ jobs[j].pc = "metrics" => jobs'[j].pc = "hash"
          /\ Close(j) /\ jobs[j].pc = "manifest" => jobs'[j].pc = "done"
          /\ \A n \in Names : \/ n # jobs[j].pc /\ files'[c][n] = files[c][n]
                              \/ n = jobs[j].pc /\ Open(j) /\ files'[c][n] = -j
                              \/ n = jobs[j].pc /\ Close(j) /\ files'[c][n] = j
      BY <1>1, <1>2, WriteCard, AfterIs DEF Written, Names, Shared, FIVE
    <2>2. \A n \in FOUR : files'[c][n] = files[c][n]
      BY <1>1, <2>1
    <2>3. PackSays(c, p)'
      BY <1>1, <2>2 DEF PackSays, Packing, Mapping
    <2>4. CASE Open(j) /\ ~Close(j)
      <3>1. FoursKept(c, p)'
        <4>1. CASE jobs[j].pc = "metrics"
          <5>1. files'[c]["manifest"] = files[c]["manifest"]
            BY <1>1, <2>1, <4>1
          <5>2. \A i \in Ids : jobs'[i].sums = jobs[i].sums
            BY <1>1, <2>1, StepKeeps
          <5>3. files[c]["manifest"] > 0 => files[c]["manifest"] \in Ids
            BY <1>1 DEF TypeInv, Owned, By
          <5>4. QED BY <1>1, <5>1, <5>2, <5>3 DEF FoursKept
        <4>2. CASE jobs[j].pc = "manifest"
          <5>1. files'[c]["manifest"] = -j
            BY <1>1, <2>1, <2>4, <4>2
          <5>2. ~(-j > 0)
            BY <1>1
          <5>3. QED BY <1>1, <5>1, <5>2 DEF FoursKept
        <4>3. QED BY <2>1, <4>1, <4>2
      <3>2. LastSays(c, p, j)'
        BY <1>1, <2>1, <2>4 DEF LastSays, Ends
      <3>3. QED BY <2>3, <3>1, <3>2
    <2>5. CASE Close(j) /\ ~Open(j)
      <3>1. CASE jobs[j].pc = "metrics"
        <4>1. files'[c]["manifest"] = files[c]["manifest"] /\ files'[c]["metrics"] = j
          BY <1>1, <2>1, <2>5, <3>1
        <4>2. \A i \in Ids : jobs'[i].sums = jobs[i].sums
          BY <1>1, <2>1, StepKeeps
        <4>3. files[c]["manifest"] > 0 => files[c]["manifest"] \in Ids
          BY <1>1 DEF TypeInv, Owned, By
        <4>4. FoursKept(c, p)'
          BY <1>1, <4>1, <4>2, <4>3 DEF FoursKept
        <4>5. LastSays(c, p, j)'
          BY <1>1, <2>1, <2>5, <3>1, <4>1 DEF LastSays
        <4>6. QED BY <2>3, <4>4, <4>5
      <3>2. CASE jobs[j].pc = "manifest"
        <4>1. /\ files'[c]["manifest"] = j /\ files'[c]["metrics"] = files[c]["metrics"]
              /\ jobs'[j].pc = "done"
          BY <1>1, <2>1, <2>5, <3>2
        <4>2. \A n \in FOUR : jobs'[j].sums[n] = p
          BY <2>1, <3>2 DEF LastSays
        <4>3. FoursKept(c, p)'
          BY <1>1, <4>1, <4>2 DEF FoursKept
        <4>4. LastSays(c, p, j)'
          BY <1>1, <2>1, <3>2, <4>1 DEF LastSays
        <4>5. QED BY <2>3, <4>3, <4>4
      <3>3. QED BY <2>1, <3>1, <3>2
    <2>6. QED BY <1>2, <2>4, <2>5 DEF Open, Close
  <1>3. CASE ReadManifest(j)
    <2> DEFINE m == files[c]["manifest"]
    <2>1. /\ UNCHANGED files /\ jobs[j].pc = "read"
          /\ \/ Becomes(j, [jobs[j] EXCEPT !.pc = "raised"])
             \/ m > 0 /\ Becomes(j, [jobs[j] EXCEPT !.pc = "metrics", !.sums = jobs[m].sums])
      BY <1>3, StepJob DEF ReadManifest, At, KeepFiles
    <2>2. \/ jobs'[j].pc = "raised" /\ jobs'[j].sums = jobs[j].sums
          \/ m > 0 /\ jobs'[j].pc = "metrics" /\ jobs'[j].sums = jobs[m].sums
      BY <1>1, <2>1 DEF Becomes, Job
    <2>3. m > 0 => m \in Ids
      BY <1>1 DEF TypeInv, Owned, By
    <2>4. m > 0 => jobs'[m].sums = jobs[m].sums
      BY <2>2, <2>3, StepKeeps
    <2>5. FoursKept(c, p)'
      BY <1>1, <2>1, <2>4 DEF FoursKept
    <2>6. LastSays(c, p, j)'
      BY <1>1, <2>1, <2>2 DEF LastSays, FoursKept
    <2>7. PackSays(c, p)'
      BY <1>1, <2>1 DEF PackSays
    <2>8. QED BY <2>5, <2>6, <2>7
  <1>4. CASE Hash(j)
    <2>1. Becomes(j, [jobs[j] EXCEPT !.pc = "manifest", !.sums = Sums(j)])
      BY <1>4, StepJob
    <2>2. /\ UNCHANGED files /\ jobs[j].pc = "hash" /\ jobs'[j].pc = "manifest"
          /\ jobs'[j].sums = Sums(j) /\ Sums(j) = [jobs[j].sums EXCEPT !["metrics"] = files[c]["metrics"]]
      BY <1>1, <1>4, <2>1 DEF Hash, At, KeepFiles, Becomes, Job, Sums
    <2>3. jobs[j].sums \in [FIVE -> Versions]
      BY <1>1 DEF Job
    <2>4. /\ \A n \in FOUR : jobs'[j].sums[n] = jobs[j].sums[n]
          /\ jobs'[j].sums["metrics"] = files[c]["metrics"]
      BY <1>1, <2>2, <2>3
    <2>5. \A i \in Ids, n \in FOUR : jobs'[i].sums[n] = jobs[i].sums[n]
      BY <2>4, StepKeeps
    <2>6. files[c]["manifest"] > 0 => files[c]["manifest"] \in Ids
      BY <1>1 DEF TypeInv, Owned, By
    <2>7. FoursKept(c, p)'
      BY <1>1, <2>2, <2>5, <2>6 DEF FoursKept
    <2>8. LastSays(c, p, j)'
      BY <1>1, <2>2, <2>4 DEF LastSays
    <2>9. PackSays(c, p)'
      BY <1>1, <2>2 DEF PackSays
    <2>10. QED BY <2>7, <2>8, <2>9
  <1>5. CASE Stop(j)
    <2>1. Becomes(j, [jobs[j] EXCEPT !.pc = "stopped"])
      BY <1>5, StepJob
    <2>2. UNCHANGED files /\ jobs'[j].pc = "stopped" /\ jobs'[j].sums = jobs[j].sums
      BY <1>1, <1>5, <2>1 DEF Stop, KeepFiles, Becomes, Job
    <2>3. \A i \in Ids : jobs'[i].sums = jobs[i].sums
      BY <2>2, StepKeeps
    <2>4. files[c]["manifest"] > 0 => files[c]["manifest"] \in Ids
      BY <1>1 DEF TypeInv, Owned, By
    <2>5. FoursKept(c, p)'
      BY <1>1, <2>2, <2>3, <2>4 DEF FoursKept
    <2>6. LastSays(c, p, j)' /\ PackSays(c, p)'
      BY <1>1, <2>2 DEF LastSays, PackSays
    <2>7. QED BY <2>5, <2>6
  <1>6. QED BY <1>1, <1>2, <1>3, <1>4, <1>5
            DEF Step, EnsureBaseline, ReadBaseline, RereadBaseline, EnsureTopology, DigestTopology,
                LoadTopology, At

LEMMA ManifestKept ==
  ASSUME TypeInv, ManifestInv, Next
  PROVE  ManifestInv'
  <1> SUFFICES ASSUME NEW c \in Cards, Apart(c)' PROVE CardSays(c)'
    BY DEF ManifestInv
  <1>1. /\ \A n \in Names : files[c][n] \in Int
        /\ "manifest" \in Names /\ FIVE \subseteq Names
    BY PackAssumption DEF TypeInv, TypeOK, Versions, Names
  <1>2. files[c]["manifest"] > 0 => files[c]["manifest"] \in Ids /\ Card(files[c]["manifest"]) = c
    BY <1>1 DEF TypeInv, Owned, By
  <1>3. JobsOf(c) \subseteq Ids /\ PacksOf(c) \subseteq Ids
    BY DEF JobsOf, PacksOf
  <1>4. ASSUME NEW kind \in Kinds, NEW card \in Cards, Start(kind, card)
        PROVE  CardSays(c)'
    <2>1. PICK n : n = Len(jobs) + 1
      OBVIOUS
    <2>2. /\ Ids' = Ids \cup {n} /\ n \notin Ids /\ UNCHANGED <<files, shared>>
          /\ \A i \in Ids : jobs'[i] = jobs[i]
          /\ jobs'[n] = NewJob(kind, card)
      BY <1>4, <2>1, StartJob
    <2>3. /\ jobs'[n].kind = kind /\ jobs'[n].card = card
          /\ jobs'[n].pc = IF kind = "refresh" THEN "read" ELSE "logs"
      BY <2>2 DEF NewJob
    <2>4. n \in Nat /\ \A i \in Ids : i < n
      BY <2>1, LenProperties DEF TypeInv, TypeOK, Ids
    <2>5. /\ \A i \in Ids : i \in JobsOf(c)' <=> i \in JobsOf(c)
          /\ \A i \in Ids : i \in PacksOf(c)' <=> i \in PacksOf(c)
          /\ n \in JobsOf(c)' <=> card = c
          /\ n \in PacksOf(c)' <=> card = c /\ kind # "refresh"
      BY <2>2, <2>3 DEF JobsOf, PacksOf, Card
    <2>6. Apart(c)
      BY <1>3, <2>2, <2>5 DEF Apart, Met
    <2>7. CardSays(c)
      BY <2>6 DEF ManifestInv
    <2>8. ASSUME NEW p \in Ids', IsLast(p, PacksOf(c))'
          PROVE  /\ PackSays(c, p)'
                 /\ jobs'[p].pc = "done" =>
                      /\ FoursKept(c, p)'
                      /\ \A l \in Ids' : IsLast(l, JobsOf(c))' => LastSays(c, p, l)'
      <3>1. CASE p = n
        <4>1. jobs'[p].pc = "logs"
          BY <2>3, <2>5, <2>8, <3>1 DEF IsLast
        <4>2. QED BY <4>1 DEF PackSays, Packing, Mapping
      <3>2. CASE p # n
        <4>1. p \in Ids /\ IsLast(p, PacksOf(c)) /\ jobs'[p] = jobs[p]
          BY <1>3, <2>2, <2>5, <2>8, <3>2 DEF IsLast
        <4>2. PackSays(c, p)'
          BY <2>2, <2>7, <4>1 DEF CardSays, PackSays
        <4>3. jobs[p].pc = "done" => FoursKept(c, p)'
          BY <1>2, <2>2, <2>7, <4>1 DEF CardSays, FoursKept
        <4>4. ASSUME jobs[p].pc = "done", NEW l \in Ids', IsLast(l, JobsOf(c))'
              PROVE  LastSays(c, p, l)'
          <5>1. CASE l = n
            <6>1. jobs'[l].pc \in {"read", "logs"}
              BY <2>3, <5>1
            <6>2. QED BY <6>1 DEF LastSays
          <5>2. CASE l # n
            <6>1. l \in Ids /\ IsLast(l, JobsOf(c)) /\ jobs'[l] = jobs[l]
              BY <1>3, <2>2, <2>5, <4>4, <5>2 DEF IsLast
            <6>2. QED BY <2>2, <2>7, <4>1, <4>4, <6>1 DEF CardSays, LastSays
          <5>3. QED BY <5>1, <5>2
        <4>5. QED BY <4>1, <4>2, <4>3, <4>4
      <3>3. QED BY <3>1, <3>2
    <2>9. QED BY <2>8 DEF CardSays
  <1>5. ASSUME NEW j \in Live, Step(j)
        PROVE  CardSays(c)'
    <2>1. /\ Ids' = Ids /\ j \in Ids /\ \A i \in Ids : i # j => jobs'[i] = jobs[i]
          /\ jobs'[j].kind = jobs[j].kind /\ jobs'[j].card = jobs[j].card
          /\ jobs'[j].with = jobs[j].with
      BY <1>5, StepKeeps DEF Live
    <2>2. JobsOf(c)' = JobsOf(c) /\ PacksOf(c)' = PacksOf(c)
      BY <2>1 DEF JobsOf, PacksOf, Card
    <2>3. Apart(c)
      BY <1>3, <2>1, <2>2 DEF Apart, Met
    <2>4. CardSays(c) /\ \A l \in Ids : IsLast(l, JobsOf(c))' <=> IsLast(l, JobsOf(c))
      BY <2>2, <2>3 DEF ManifestInv, IsLast
    <2>5. ASSUME NEW p \in Ids, IsLast(p, PacksOf(c))
          PROVE  /\ PackSays(c, p)'
                 /\ jobs'[p].pc = "done" =>
                      /\ FoursKept(c, p)'
                      /\ \A l \in Ids : IsLast(l, JobsOf(c)) => LastSays(c, p, l)'
      <3>1. CASE Card(j) # c
        <4>1. \A n \in Names : files'[c][n] = files[c][n]
          BY <1>5, <3>1, StepFiles, WriteCard DEF KeepFiles
        <4>2. \A i \in JobsOf(c) : jobs'[i] = jobs[i] /\ i \in Ids
          BY <2>1, <3>1 DEF JobsOf
        <4>3. p \in JobsOf(c) /\ (files[c]["manifest"] > 0 => files[c]["manifest"] \in JobsOf(c))
          BY <1>2, <2>5 DEF IsLast, PacksOf, JobsOf
        <4>4. PackSays(c, p)'
          <5>1. jobs'[p] = jobs[p] /\ PackSays(c, p)
            BY <2>4, <2>5, <4>2, <4>3 DEF CardSays
          <5>2. {"logs", "metrics", "traces", "config_diff", "topology"} \subseteq Names
            BY DEF Names, FIVE
          <5>3. QED BY <4>1, <5>1, <5>2 DEF PackSays
        <4>5. jobs[p].pc = "done" => FoursKept(c, p)'
          BY <1>1, <2>4, <2>5, <4>1, <4>2, <4>3 DEF CardSays, FoursKept
        <4>6. jobs[p].pc = "done" => \A l \in Ids : IsLast(l, JobsOf(c)) => LastSays(c, p, l)'
          <5>1. "metrics" \in Names
            BY DEF Names, FIVE
          <5>2. QED BY <1>1, <2>4, <2>5, <4>1, <4>2, <5>1 DEF CardSays, LastSays, IsLast
        <4>7. QED BY <4>2, <4>3, <4>4, <4>5, <4>6
      <3>2. CASE Card(j) = c
        <4>1. /\ IsLast(j, JobsOf(c)) /\ \A i \in JobsOf(c) : i # j => i \notin Live
              /\ jobs[j].kind # "refresh" => IsLast(j, PacksOf(c))
          BY <2>3, <3>2, LiveIsLast
        <4>2. \A l \in Ids : IsLast(l, JobsOf(c)) => l = j
          BY <1>3, <4>1, LastIsOne
        <4>3. Card(j)' = c
          BY <2>1, <3>2 DEF Card
        <4>4. CASE jobs[j].kind # "refresh"
          <5>1. p = j /\ PackSays(Card(j), j)
            BY <1>3, <2>4, <2>5, <3>2, <4>1, <4>4, LastIsOne DEF CardSays
          <5>2. /\ PackSays(Card(j), j)'
                /\ jobs'[j].pc = "done" =>
                     /\ files'[Card(j)]["manifest"] = j /\ files'[Card(j)]["metrics"] = j
                     /\ \A n \in FIVE : jobs'[j].sums[n] = j
            BY <1>5, <4>4, <5>1, PackGoesOn
          <5>3. PackSays(c, p)'
            BY <3>2, <4>3, <5>1, <5>2 DEF PackSays
          <5>4. jobs'[p].pc = "done" => FoursKept(c, p)'
            BY <3>2, <5>1, <5>2 DEF FoursKept, FOUR
          <5>5. jobs'[p].pc = "done" => LastSays(c, p, j)'
            <6>1. "metrics" \in FIVE
              BY DEF FIVE
            <6>2. QED BY <3>2, <5>1, <5>2, <6>1 DEF LastSays
          <5>6. QED BY <4>2, <5>3, <5>4, <5>5
        <4>5. CASE jobs[j].kind = "refresh"
          <5>1. p # j /\ p \notin Live /\ jobs[p].pc \in Ends /\ jobs'[p] = jobs[p]
            BY <2>1, <2>5, <4>1, <4>5 DEF IsLast, PacksOf, Live
          <5>2. CASE jobs[p].pc # "done"
            BY <5>1, <5>2 DEF PackSays, Ends
          <5>3. CASE jobs[p].pc = "done"
            <6>1. PackSays(Card(j), p) /\ FoursKept(Card(j), p) /\ LastSays(Card(j), p, j)
              BY <2>1, <2>4, <2>5, <3>2, <4>1, <5>3 DEF CardSays
            <6>2. PackSays(Card(j), p)' /\ FoursKept(Card(j), p)' /\ LastSays(Card(j), p, j)'
              BY <1>5, <4>5, <5>1, <5>3, <6>1, RefreshGoesOn
            <6>3. PackSays(c, p)' /\ FoursKept(c, p)' /\ LastSays(c, p, j)'
              BY <3>2, <4>3, <6>2 DEF PackSays, FoursKept, LastSays
            <6>4. QED BY <4>2, <6>3
          <5>4. QED BY <5>2, <5>3
        <4>6. QED BY <4>4, <4>5
      <3>3. QED BY <3>1, <3>2
    <2>6. QED BY <2>1, <2>2, <2>4, <2>5 DEF CardSays, IsLast
  <1>6. QED BY <1>4, <1>5 DEF Next, Step

LEMMA ManifestInvariant == Spec => [](TypeInv /\ ManifestInv)
  <1>1. Init => TypeInv /\ ManifestInv
    <2>1. Init => Ids = {}
      BY DEF Init, Ids
    <2>2. QED BY <2>1, InitTypes DEF ManifestInv, CardSays
  <1>2. TypeInv /\ ManifestInv /\ [Next]_vars => TypeInv' /\ ManifestInv'
    <2>1. ManifestInv /\ UNCHANGED vars => ManifestInv'
      BY DEF vars, ManifestInv, Apart, CardSays, PackSays, FoursKept, LastSays, IsLast, JobsOf,
             PacksOf, Card, Met, Ids
    <2>2. QED BY <2>1, NextTypes, ManifestKept
  <1>3. QED BY <1>1, <1>2, PTL DEF Spec

\* The manifest of a card tells the truth about its five files once the last pack
\* and the last job on it came to their ends, whatever was stopped before.
THEOREM ManifestsTell == Spec => []ManifestTells
  <1>1. TypeInv /\ ManifestInv => ManifestTells
    <2> SUFFICES ASSUME TypeInv, ManifestInv, NEW c \in Cards, NEW p \in Ids, NEW l \in Ids,
                        IsLast(p, PacksOf(c)), At(p, "done"), IsLast(l, JobsOf(c)), At(l, "done"),
                        Apart(c)
                 PROVE  /\ files[c]["manifest"] > 0
                        /\ jobs[files[c]["manifest"]].sums = [n \in FIVE |-> files[c][n]]
                        /\ \A n \in FIVE : files[c][n] > 0
      BY DEF ManifestTells, Apart
    <2>1. /\ PackSays(c, p) /\ FoursKept(c, p) /\ LastSays(c, p, l)
          /\ jobs[p].pc = "done" /\ jobs[l].pc = "done"
      BY DEF ManifestInv, CardSays, At
    <2>2. l \in Nat /\ l >= 1 /\ p \in Nat /\ p >= 1 /\ jobs[l].sums \in [FIVE -> Versions]
      BY JobTypes DEF Job
    <2>3. /\ files[c]["manifest"] = l /\ files[c]["metrics"] = l /\ jobs[l].sums["metrics"] = l
          /\ \A n \in FOUR : jobs[l].sums[n] = p
      BY <2>1, <2>2 DEF LastSays, FoursKept
    <2>4. \A n \in FOUR : files[c][n] = p
      BY <2>1 DEF PackSays, FOUR, FIVE, Packing, Mapping
    <2>5. \A n \in FIVE : n = "metrics" \/ n \in FOUR
      BY DEF FOUR
    <2>6. QED BY <2>2, <2>3, <2>4, <2>5
  <1>2. QED BY <1>1, ManifestInvariant, PTL

(* ----------------------- the judges of a cycle ------------------------ *)

GateTypeInv ==
    /\ cls \in AllClasses /\ sdk \in BOOLEAN
    /\ \E s \in Afters : seconds = [base |-> BaseS, during |-> InjectS, after |-> s]
    /\ truth \in [Windows -> Truths(cls)]
    /\ lost \subseteq Queries
    /\ DOMAIN verdict = {"symptom", "recovered", "gate"}

SymptomSeen  == Symptom(Snapshot("base"), Snapshot("during"))
RecoverySeen == Recovered(Snapshot("base"), Snapshot("after"))

\* A verdict that has been given is what the judge makes of the snapshots, and
\* the gate passes where neither is a no.
JudgedInv ==
    /\ pc \in {"harvest", "symptom"} => verdict.symptom = "none"
    /\ pc \in {"harvest", "symptom", "recovered"} => verdict.recovered = "none"
    /\ verdict.symptom \in {"none", SymptomSeen}
    /\ verdict.recovered \in {"none", RecoverySeen}
    /\ pc \in {"recovered", "gate"} => verdict.symptom = SymptomSeen
    /\ pc = "gate" => verdict.recovered = RecoverySeen
    /\ pc # "done" => verdict.gate # "passed"
    /\ verdict.gate = "passed" => SymptomSeen # "false" /\ RecoverySeen # "false"

GateInv == GateTypeInv /\ JudgedInv

\* What is seen depends on the cycle and on what was lost.
LEMMA SeenAgain ==
  ASSUME UNCHANGED <<cycle, lost>>
  PROVE  SymptomSeen' = SymptomSeen /\ RecoverySeen' = RecoverySeen
  <1> USE DEF cycle
  <1> DEFINE b == Snapshot("base")
             d == Snapshot("during")
             a == Snapshot("after")
  <1>1. b' = b /\ d' = d /\ a' = a
    BY DEF Snapshot, Window, Traces, ServerRate, Times
  <1> HIDE DEF b, d, a
  <1> USE DEF Symptom, CrashArm, TargetArm, NoSdkArms, BlackholeArm, Misconfig, Targeting, MemLeak, Latency
  <1>2. Symptom(b, d)' = Symptom(b, d)
    BY <1>1
  <1>3. Recovered(b, a)' = Recovered(b, a)
    BY <1>1 DEF Recovered, NoErrors, MemSettled, QuietAndBack, SpansBack
  <1>4. QED BY <1>2, <1>3 DEF b, d, a, SymptomSeen, RecoverySeen

LEMMA GateInvInductive ==
  /\ GateInit => GateInv
  /\ GateInv /\ [GateNext]_gateVars => GateInv'
  <1>1. ASSUME GateInit PROVE GateInv
    BY <1>1, GateAssumption, NullIsNoReading DEF GateInit, GateInv, GateTypeInv, JudgedInv
  <1>2. ASSUME GateInv, [GateNext]_gateVars PROVE GateInv'
    <2> USE <1>2 DEF GateInv, GateTypeInv, JudgedInv
    <2>1. CASE UNCHANGED gateVars
      BY <2>1, SeenAgain DEF gateVars, cycle
    <2>2. CASE Harvest
      <3>1. lost' \subseteq Queries
        BY <2>2, GateAssumption DEF Harvest
      <3>2. QED BY <2>2, <3>1 DEF Harvest, cycle
    <2>3. CASE JudgeSymptom
      BY <2>3, SeenAgain DEF JudgeSymptom, cycle, SymptomSeen
    <2>4. CASE JudgeRecovered
      BY <2>4, SeenAgain DEF JudgeRecovered, cycle, RecoverySeen
    <2>5. CASE Gate
      BY <2>5, SeenAgain DEF Gate, Admits, cycle
    <2>6. QED BY <2>1, <2>2, <2>3, <2>4, <2>5 DEF GateNext, Booked
  <1>3. QED BY <1>1, <1>2

(* ------------------------- what a loss leaves --------------------------- *)

\* A baseline and an injection of whole half minutes, the injection no shorter,
\* and a recovery window of at least half a minute and less than ten minutes; one
\* as long as the injection or longer is of whole half minutes too.
InHalfMinutes ==
    /\ \A s \in {BaseS, InjectS} : s % 30 = 0
    /\ BaseS <= InjectS
    /\ \A s \in Afters : 30 <= s /\ s < 600 /\ (s >= InjectS => s % 30 = 0)

LEMMA HalfMinutes ==
  ASSUME GateTypeInv, InHalfMinutes
  PROVE  /\ \A w \in Windows : /\ Times(w) \in Nat \ {0} /\ seconds[w] \in Nat \ {0}
                                /\ 30 * Times(w) <= seconds[w] /\ seconds[w] < 30 * Times(w) + 30
         /\ seconds["base"] = 30 * Times("base") /\ seconds["during"] = 30 * Times("during")
         /\ Times("base") <= Times("during") /\ seconds["after"] < 600
         /\ seconds["after"] >= seconds["during"] =>
              seconds["after"] = 30 * Times("after") /\ Times("during") <= Times("after")
  <1>1. PICK s \in Afters : seconds = [base |-> BaseS, during |-> InjectS, after |-> s]
    BY DEF GateTypeInv
  <1>2. \A n \in Nat \ {0} : /\ n % 30 = 0 => n >= 30 /\ n = 30 * (n \div 30)
                             /\ n >= 30 => n \div 30 \in Nat \ {0}
                             /\ 30 * (n \div 30) <= n /\ n < 30 * (n \div 30) + 30
    OBVIOUS
  <1>3. BaseS \in Nat \ {0} /\ InjectS \in Nat \ {0} /\ s \in Nat \ {0}
    BY GateAssumption
  <1>4. QED BY <1>1, <1>2, <1>3 DEF InHalfMinutes, Times, Windows

LEMMA TruthTypes ==
  ASSUME cls \in AllClasses, NEW t \in Truths(cls)
  PROVE  /\ t.edge \in EdgeReading /\ t.own \in OwnReading
         /\ t.memory \in [first : Nat, last : Nat] /\ t.rate \in Nat
  BY DEF AllClasses, Truths, EdgeReading, OwnReading, Edge, Idle

LEMMA HeardIsLess ==
  ASSUME NEW e \in EdgeReading, NEW missing
  PROVE  LET h == Heard(e, missing)
         IN  /\ h \in EdgeReading /\ h.spans <= e.spans /\ h.errors <= e.errors
             /\ h.p50 \in {Null, 1, e.p50}
             /\ missing \cap Callers = {} => h = e
  <1> DEFINE half   == e.spans - e.spans \div 2
             failed == IF e.errors < half THEN e.errors ELSE half
  <1>1. e.spans \in Nat /\ e.errors \in Nat /\ e.p50 \in Nat \cup {Null}
    BY DEF EdgeReading
  <1>2. e.spans \div 2 \in Nat /\ e.spans \div 2 <= e.spans /\ half \in Nat /\ half <= e.spans
    BY <1>1
  <1> HIDE DEF half
  <1>3. failed \in Nat /\ failed <= e.errors
    BY <1>1, <1>2
  <1>4. Heard(e, missing) \in {Idle.edge, e, Edge(half, failed, e.p50),
          Edge(e.spans \div 2, e.errors - failed, IF e.spans < 2 THEN Null ELSE 1)}
    BY DEF Heard, half
  <1>5. missing \cap Callers = {} => Heard(e, missing) = e
    BY DEF Heard, Callers
  <1> HIDE DEF failed
  <1>6. QED BY <1>1, <1>2, <1>3, <1>4, <1>5 DEF EdgeReading, Edge, Idle

\* What a window shows, whatever is missing.
LEMMA WindowShows ==
  ASSUME GateTypeInv, InHalfMinutes, NEW w \in Windows, NEW missing
  PROVE  LET s == Window(w, missing)
             n == Times(w)
         IN  /\ s.traces = Null <=> "services" \in missing
             /\ EdgeOf(s) = IF "services" \in missing THEN Idle.edge
                              ELSE EdgeIn(Heard(truth[w].edge, missing), n)
             /\ OwnOf(s) = IF missing \cap {"services", "own"} # {} THEN Idle.own
                             ELSE OwnIn(truth[w].own, n)
             /\ s.memory = IF "memory" \in missing THEN Null ELSE truth[w].memory
             /\ s.rate = IF "rate" \in missing \/ ~sdk THEN Null ELSE [calls |-> truth[w].rate, per |-> 30]
             /\ s.seconds = seconds[w]
             /\ truth[w].memory # Null /\ [calls |-> truth[w].rate, per |-> 30] # Null
  <1> DEFINE n == Times(w)
             t == truth[w]
             h == Heard(t.edge, missing)
             o == IF "own" \in missing THEN Idle.own ELSE t.own
  <1>1. n \in Nat
    BY HalfMinutes
  <1>2. /\ t.edge \in EdgeReading /\ t.own \in OwnReading
        /\ t.memory \in [first : Nat, last : Nat] /\ t.rate \in Nat
    BY TruthTypes DEF GateTypeInv
  <1>3. h \in EdgeReading
    BY <1>2, HeardIsLess
  <1>4. o \in OwnReading
    BY <1>2 DEF OwnReading, Idle
  <1> HIDE DEF n, t, h
  <1>5. EdgeIn(h, n) \in EdgeReading /\ OwnIn(o, n) \in OwnReading
    BY <1>1, <1>3, <1>4 DEF EdgeReading, OwnReading, EdgeIn, OwnIn
  <1>6. Traces(w, missing) = IF "services" \in missing THEN Null ELSE [edge |-> EdgeIn(h, n), own |-> OwnIn(o, n)]
    BY DEF Traces, h, n, t
  <1>7. Traces(w, missing) = Null <=> "services" \in missing
    BY <1>5, <1>6, NullIsNoReading
  <1>8. "own" \in missing => OwnIn(o, n) = Idle.own
    BY <1>1 DEF OwnIn, Idle
  <1>9. [calls |-> t.rate, per |-> 30] # Null /\ t.memory # Null
    BY <1>2, NullIsNoReading
  <1>10. ServerRate(w, missing) = IF "rate" \in missing \/ ~sdk THEN Null ELSE [calls |-> t.rate, per |-> 30]
    BY DEF ServerRate, t
  <1>11. Window(w, missing) = [traces |-> Traces(w, missing), rate |-> ServerRate(w, missing), seconds |-> seconds[w],
                               memory |-> IF "memory" \in missing THEN Null ELSE t.memory]
    BY DEF Window, t
  <1> DEFINE s == Window(w, missing)
  <1>12. EdgeOf(s) = IF "services" \in missing THEN Idle.edge ELSE EdgeIn(h, n)
    BY <1>6, <1>7, <1>11 DEF EdgeOf
  <1>13. OwnOf(s) = IF missing \cap {"services", "own"} # {} THEN Idle.own ELSE OwnIn(t.own, n)
    BY <1>6, <1>7, <1>8, <1>11 DEF OwnOf
  <1>14. QED BY <1>7, <1>9, <1>10, <1>11, <1>12, <1>13 DEF n, t, h

\* A snapshot shows what the whole window does, or less.
Less(s, whole, w) ==
    /\ s.seconds = whole.seconds /\ whole.traces # Null
    /\ s.memory \in {Null, whole.memory} /\ s.rate \in {Null, whole.rate}
    /\ <<w, "rate">> \notin lost => s.rate = whole.rate
    /\ s.traces = Null <=> <<w, "services">> \in lost
    /\ s.traces = Null => EdgeOf(s) = Idle.edge
    /\ OwnOf(s) \in {Idle.own, OwnOf(whole)}
    /\ <<w, "own">> \notin lost /\ s.traces # Null => OwnOf(s) = OwnOf(whole)
    /\ EdgeOf(s) \in EdgeReading /\ EdgeOf(whole) \in EdgeReading
    /\ EdgeOf(s).spans <= EdgeOf(whole).spans /\ EdgeOf(s).errors <= EdgeOf(whole).errors
    /\ EdgeOf(s).p50 \in {Null, 1, EdgeOf(whole).p50}
    /\ Answered({w} \X Callers) /\ s.traces # Null => EdgeOf(s) = EdgeOf(whole)

LEMMA NothingIsAdded ==
  ASSUME GateTypeInv, InHalfMinutes, NEW w \in Windows
  PROVE  Less(Snapshot(w), Complete(w), w)
  <1> DEFINE missing == {q[2] : q \in {l \in lost : l[1] = w}}
             s == Window(w, missing)
             W == Window(w, {})
             e == truth[w].edge
             h == Heard(e, missing)
             n == Times(w)
  <1>1. \A q : q \in missing <=> <<w, q>> \in lost
    BY DEF GateTypeInv, Queries
  <1>2. e \in EdgeReading /\ n \in Nat
    BY TruthTypes, HalfMinutes DEF GateTypeInv
  <1>3. /\ h \in EdgeReading /\ h.spans <= e.spans /\ h.errors <= e.errors
        /\ h.p50 \in {Null, 1, e.p50} /\ (missing \cap Callers = {} => h = e)
    BY <1>2, HeardIsLess
  <1>4. Heard(e, {}) = e
    BY <1>2, HeardIsLess
  <1>5. Answered({w} \X Callers) => missing \cap Callers = {}
    <2>1. ASSUME Answered({w} \X Callers), NEW q \in missing \cap Callers PROVE FALSE
      <3>1. <<w, q>> \in lost /\ <<w, q>> \in {w} \X Callers
        BY <1>1, <2>1
      <3>2. QED BY <2>1, <3>1 DEF Answered
    <2>2. QED BY <2>1
  <1> HIDE DEF missing, e, h, n
  <1>6. /\ s.traces = Null <=> "services" \in missing
        /\ EdgeOf(s) = IF "services" \in missing THEN Idle.edge ELSE EdgeIn(h, n)
        /\ OwnOf(s) = IF missing \cap {"services", "own"} # {} THEN Idle.own ELSE OwnIn(truth[w].own, n)
        /\ s.memory = IF "memory" \in missing THEN Null ELSE truth[w].memory
        /\ s.rate = IF "rate" \in missing \/ ~sdk THEN Null ELSE [calls |-> truth[w].rate, per |-> 30]
        /\ s.seconds = seconds[w]
    BY WindowShows DEF h, e, n
  <1>7. /\ W.traces # Null /\ EdgeOf(W) = EdgeIn(e, n) /\ OwnOf(W) = OwnIn(truth[w].own, n)
        /\ W.memory = truth[w].memory /\ W.seconds = seconds[w]
        /\ W.rate = IF ~sdk THEN Null ELSE [calls |-> truth[w].rate, per |-> 30]
    BY <1>4, WindowShows DEF e, n
  <1>8. /\ e.spans \in Nat /\ e.errors \in Nat /\ e.p50 \in Nat \cup {Null}
        /\ h.spans \in Nat /\ h.errors \in Nat /\ h.p50 \in Nat \cup {Null}
    BY <1>2, <1>3 DEF EdgeReading
  <1>9. /\ e.spans * n \in Nat /\ e.errors * n \in Nat /\ h.spans * n \in Nat /\ h.errors * n \in Nat
        /\ h.spans * n <= e.spans * n /\ h.errors * n <= e.errors * n
    BY <1>2, <1>3, <1>8
  <1>10. /\ EdgeIn(e, n) \in EdgeReading /\ EdgeIn(h, n) \in EdgeReading /\ Idle.edge \in EdgeReading
         /\ EdgeIn(h, n).spans <= EdgeIn(e, n).spans /\ EdgeIn(h, n).errors <= EdgeIn(e, n).errors
         /\ Idle.edge.spans <= EdgeIn(e, n).spans /\ Idle.edge.errors <= EdgeIn(e, n).errors
         /\ EdgeIn(h, n).p50 \in {Null, 1, EdgeIn(e, n).p50} /\ Idle.edge.p50 = Null
    BY <1>3, <1>8, <1>9 DEF EdgeIn, EdgeReading, Idle, Edge
  <1>11. Snapshot(w) = s /\ Complete(w) = W
    BY DEF Snapshot, Complete, missing
  <1> HIDE DEF s, W
  <1>12. QED BY <1>1, <1>3, <1>5, <1>6, <1>7, <1>10, <1>11 DEF Less

LEMMA CeilDivType ==
  ASSUME NEW a \in Int, NEW b \in Nat \ {0}
  PROVE  CeilDiv(a, b) \in Int
  BY DEF CeilDiv

LEMMA MaxOfTwo ==
  ASSUME NEW a \in Int, NEW b \in Int
  PROVE  Max({a, b}) \in {a, b} /\ Max({a, b}) >= a /\ Max({a, b}) >= b
  <1>1. \E x \in {a, b} : \A y \in {a, b} : x >= y
    <2>1. CASE a >= b
      BY <2>1
    <2>2. CASE b >= a
      BY <2>2
    <2>3. QED BY <2>1, <2>2
  <1>2. QED BY <1>1 DEF Max

LEMMA CrashNAtLeast5 ==
  ASSUME NEW b, NEW d, d.seconds \in Nat, b.seconds \in Nat \ {0}, EdgeOf(b).spans \in Nat,
         b.rate = Null \/ (b.rate.calls \in Nat /\ b.rate.per \in Nat \ {0})
  PROVE  CrashN(b, d) \in Int /\ CrashN(b, d) >= 5
  <1> DEFINE r == IF b.rate = Null THEN EdgeRate(b) ELSE b.rate
             c == CeilDiv(r.calls * d.seconds, 4 * r.per)
  <1>1. r.calls \in Nat /\ r.per \in Nat \ {0}
    BY DEF EdgeRate
  <1> HIDE DEF r
  <1>2. r.calls * d.seconds \in Int /\ 4 * r.per \in Nat \ {0}
    BY <1>1
  <1>3. c \in Int /\ 5 \in Int
    BY <1>2, CeilDivType
  <1>4. CrashN(b, d) = Max({5, c})
    BY DEF CrashN, r
  <1> HIDE DEF c
  <1>5. QED BY <1>3, <1>4, MaxOfTwo

(* ----------------------- a yes of what was seen ----------------------- *)

LEMMA WholeWindow ==
  ASSUME GateTypeInv, InHalfMinutes, NEW w \in Windows
  PROVE  LET s == Complete(w)
             n == Times(w)
         IN  /\ s.traces # Null
             /\ EdgeOf(s) = EdgeIn(truth[w].edge, n) /\ OwnOf(s) = OwnIn(truth[w].own, n)
             /\ s.memory = truth[w].memory /\ s.memory # Null
             /\ s.rate = IF ~sdk THEN Null ELSE [calls |-> truth[w].rate, per |-> 30]
             /\ [calls |-> truth[w].rate, per |-> 30] # Null
             /\ s.seconds = seconds[w]
  <1> DEFINE n == Times(w)
             t == truth[w]
             W == Window(w, {})
  <1>1. t.edge \in EdgeReading
    BY TruthTypes DEF GateTypeInv
  <1>2. Heard(t.edge, {}) = t.edge
    BY <1>1, HeardIsLess
  <1>3. Complete(w) = W
    BY DEF Complete
  <1> HIDE DEF n, t
  <1>4. /\ W.traces # Null /\ EdgeOf(W) = EdgeIn(t.edge, n) /\ OwnOf(W) = OwnIn(t.own, n)
        /\ W.memory = t.memory /\ W.seconds = seconds[w]
        /\ W.rate = IF ~sdk THEN Null ELSE [calls |-> t.rate, per |-> 30]
        /\ t.memory # Null /\ [calls |-> t.rate, per |-> 30] # Null
    BY <1>2, WindowShows DEF n, t
  <1> HIDE DEF W
  <1>5. QED BY <1>3, <1>4 DEF n, t

\* A target without an SDK has no counter.
LEMMA NoCounter ==
  ASSUME GateTypeInv, InHalfMinutes, NEW w \in Windows
  PROVE  /\ ~sdk => Complete(w).rate = Null
         /\ sdk => Complete(w).rate = [calls |-> truth[w].rate, per |-> 30] /\ Complete(w).rate # Null
         /\ Complete(w).seconds \in Nat \ {0}
  BY WholeWindow, HalfMinutes

LEMMA WholeOwn ==
  ASSUME GateTypeInv, InHalfMinutes, NEW w \in Windows
  PROVE  /\ OwnOf(Complete(w)) = OwnIn(truth[w].own, Times(w))
         /\ OwnOf(Complete(w)) \in OwnReading
  <1>1. truth[w].own \in OwnReading /\ Times(w) \in Nat
    BY TruthTypes, HalfMinutes DEF GateTypeInv
  <1>2. OwnOf(Complete(w)) = OwnIn(truth[w].own, Times(w))
    BY WholeWindow
  <1>3. QED BY <1>1, <1>2 DEF OwnIn, OwnReading

\* A yes of judge_symptom() that no failure fooled it into is a yes of all answers.
LEMMA SymptomIsSo ==
  ASSUME GateTypeInv, InHalfMinutes, SymptomSeen = "true", Answered(SymptomFooledBy)
  PROVE  WholeSymptom = "true"
  <1> DEFINE b == Snapshot("base")
             B == Complete("base")
             d == Snapshot("during")
             D == Complete("during")
  <1>1. {"base", "during"} \subseteq Windows
    BY DEF Windows
  <1>2. Less(b, B, "base") /\ Less(d, D, "during")
    BY <1>1, NothingIsAdded
  <1>3. ~sdk => B.rate = Null /\ D.rate = Null
    BY <1>1, NoCounter
  <1>4. cls \in AllClasses /\ sdk \in BOOLEAN
    BY DEF GateTypeInv
  <1>5. D.seconds \in Nat
    BY <1>1, NoCounter
  <1>6. Symptom(b, d) = "true"
    BY DEF SymptomSeen
  <1> HIDE DEF b, B, d, D
  <1>7. b.traces # Null /\ Answered({"base"} \X Callers) => EdgeOf(b) = EdgeOf(B)
    BY <1>2 DEF Less
  <1>8. d.traces # Null /\ Answered({"during"} \X Callers) => EdgeOf(d) = EdgeOf(D)
    BY <1>2 DEF Less
  <1>9. TargetArm(b, d) \in {"none", TargetArm(B, D)}
    BY <1>2 DEF TargetArm, Less
  <1>10. CASE cls = "crash" /\ sdk
    <2>1. b.rate = B.rate
      BY <1>2, <1>10 DEF SymptomFooledBy, Answered, Less
    <2>2. B.rate # Null
      BY <1>1, <1>10, NoCounter DEF B
    <2>3. CrashN(b, d) = CrashN(B, D)
      BY <1>2, <2>1, <2>2 DEF CrashN, Less
    <2>4. CrashN(B, D) \in Int
      <3>1. B.rate.calls \in Nat /\ B.rate.per \in Nat \ {0} /\ B.seconds \in Nat \ {0}
        <4>1. B.rate = [calls |-> truth["base"].rate, per |-> 30] /\ B.seconds \in Nat \ {0}
          BY <1>1, <1>10, NoCounter DEF B
        <4>2. truth["base"].rate \in Nat
          BY <1>1, TruthTypes DEF GateTypeInv
        <4>3. QED BY <4>1, <4>2
      <3>2. EdgeOf(B).spans \in Nat
        BY <1>2 DEF Less, EdgeReading
      <3>3. QED BY <1>5, <3>1, <3>2, CrashNAtLeast5
    <2>5. CrashArm(b, d) = "true" => CrashArm(B, D) = "true"
      BY <1>2, <2>3, <2>4 DEF CrashArm, Bool, Less, EdgeReading
    <2>6. QED BY <1>6, <1>9, <1>10, <2>5 DEF Symptom, Any, NoSdkArms, WholeSymptom, B, D
  <1>11. CASE cls = "crash" /\ ~sdk
    <2>1. /\ <<"base", "services">> \notin lost /\ <<"during", "services">> \notin lost
          /\ Answered({"base"} \X Callers) /\ Answered({"during"} \X Callers)
      BY <1>11 DEF SymptomFooledBy, Answered, Both
    <2>2. b.traces # Null /\ d.traces # Null /\ B.traces # Null /\ D.traces # Null
      BY <1>2, <2>1 DEF Less
    <2>3. EdgeOf(b) = EdgeOf(B) /\ EdgeOf(d) = EdgeOf(D) /\ b.seconds = B.seconds /\ d.seconds = D.seconds
      BY <1>2, <1>7, <1>8, <2>1, <2>2 DEF Less
    <2>4. b.rate = B.rate
      BY <1>2, <1>3, <1>11 DEF Less
    <2>5. CrashArm(b, d) = CrashArm(B, D) /\ NoSdkArms(b, d) = NoSdkArms(B, D)
      BY <2>2, <2>3, <2>4 DEF CrashArm, CrashN, NoSdkArms, StepArm, SilenceArm, EdgeRate
    <2>6. QED BY <1>6, <1>9, <1>11, <2>5 DEF Symptom, Any, WholeSymptom, B, D
  <1>12. CASE cls = "blackhole" /\ sdk
    <2>1. Answered({"during"} \X Callers)
      BY <1>12 DEF SymptomFooledBy
    <2>2. BlackholeArm(b, d) = "true" => BlackholeArm(B, D) = "true"
      BY <1>2, <1>8, <2>1 DEF BlackholeArm, Bool, Less, EdgeReading
    <2>3. QED BY <1>6, <1>9, <1>12, <2>2 DEF Symptom, Any, NoSdkArms, WholeSymptom, B, D
  <1>13. CASE cls = "blackhole" /\ ~sdk
    <2>1. <<"during", "services">> \notin lost /\ Answered({"base"} \X Callers) /\ Answered({"during"} \X Callers)
      BY <1>13 DEF SymptomFooledBy, Answered, Both
    <2>2. d.traces # Null /\ EdgeOf(d) = EdgeOf(D)
      BY <1>2, <1>8, <2>1 DEF Less
    <2>3. CASE b.traces # Null
      <3>1. EdgeOf(b) = EdgeOf(B) /\ b.seconds = B.seconds /\ d.seconds = D.seconds
        BY <1>2, <1>7, <2>1, <2>3 DEF Less
      <3>2. BlackholeArm(b, d) = BlackholeArm(B, D)
        BY <1>2, <2>2, <2>3, <3>1 DEF BlackholeArm, Less
      <3>3. NoSdkArms(b, d) = NoSdkArms(B, D)
        BY <2>2, <3>1 DEF NoSdkArms, StepArm, SilenceArm, EdgeRate
      <3>4. QED BY <1>6, <1>9, <1>13, <3>2, <3>3 DEF Symptom, Any, WholeSymptom, B, D
    <2>4. CASE b.traces = Null
      <3>1. EdgeOf(b).spans = 0 /\ EdgeOf(b).p50 = Null
        BY <1>2, <2>4 DEF Less, Idle, Edge
      <3>2. NoSdkArms(b, d) = "true" => NoSdkArms(B, D) = "true"
        BY <2>2, <3>1 DEF NoSdkArms, StepArm, SilenceArm, Bool
      <3>3. BlackholeArm(b, d) = "none"
        BY <2>4 DEF BlackholeArm
      <3>4. QED BY <1>6, <1>9, <1>13, <3>2, <3>3 DEF Symptom, Any, WholeSymptom, B, D
    <2>5. QED BY <2>3, <2>4
  <1>14. CASE cls = "latency"
    <2>1. Answered({"base"} \X Callers) /\ Answered({"during"} \X Callers)
      BY <1>14 DEF SymptomFooledBy, Answered, Both
    <2>2. EdgeOf(b).p50 # Null /\ EdgeOf(d).p50 # Null
      BY <1>6, <1>14 DEF Symptom, Latency, Bool
    <2>3. b.traces # Null /\ d.traces # Null
      BY <1>2, <2>2 DEF Less, Idle, Edge
    <2>4. EdgeOf(b) = EdgeOf(B) /\ EdgeOf(d) = EdgeOf(D)
      BY <1>7, <1>8, <2>1, <2>3
    <2>5. QED BY <1>6, <1>14, <2>4 DEF Symptom, Latency, Bool, WholeSymptom, B, D
  <1>15. CASE cls \in {"misconfig", "targeting"}
    <2>1. OwnOf(b) = OwnOf(B)
      BY <1>2, <1>15 DEF SymptomFooledBy, Answered, Less
    <2>2. OwnOf(d) = OwnOf(D) \/ OwnOf(d) = Idle.own
      BY <1>2 DEF Less
    <2>3. OwnOf(d).errors # 0
      <3>1. CASE cls = "targeting"
        BY <1>6, <3>1 DEF Symptom, Targeting, Bool
      <3>2. CASE cls = "misconfig"
        <4> SUFFICES ASSUME OwnOf(d).errors = 0 PROVE FALSE
          OBVIOUS
        <4> DEFINE c == CeilDiv(OwnOf(d).calls, 2)
        <4>1. OwnOf(d).errors >= Max({2, c})
          BY <1>6, <3>2 DEF Symptom, Misconfig, Bool
        <4>2. OwnOf(d).calls \in Nat
          BY <1>1, <2>2, WholeOwn DEF D, Idle, OwnReading
        <4>3. c \in Int /\ 2 \in Int
          BY <4>2, CeilDivType
        <4> HIDE DEF c
        <4>4. Max({2, c}) \in Int /\ Max({2, c}) >= 2
          BY <4>3, MaxOfTwo
        <4>5. QED BY <4>1, <4>4
      <3>3. QED BY <1>15, <3>1, <3>2
    <2>4. OwnOf(d) = OwnOf(D) /\ D.traces # Null
      BY <1>2, <2>2, <2>3 DEF Idle, Less
    <2>5. QED BY <1>6, <1>15, <2>1, <2>4 DEF Symptom, Misconfig, Targeting, WholeSymptom, B, D
  <1>16. CASE cls = "mem_leak"
    <2>1. d.memory = D.memory
      BY <1>2, <1>6, <1>16 DEF Symptom, MemLeak, Bool, Less
    <2>2. QED BY <1>6, <1>16, <2>1 DEF Symptom, MemLeak, Growth, WholeSymptom, B, D
  <1>17. QED BY <1>4, <1>10, <1>11, <1>12, <1>13, <1>14, <1>15, <1>16 DEF AllClasses

\* A yes of judge_recovered() that no failure fooled it into is a yes of all answers.
LEMMA RecoveryIsSo ==
  ASSUME GateTypeInv, InHalfMinutes, RecoverySeen = "true", Answered(RecoveryFooledBy)
  PROVE  WholeRecovery = "true"
  <1> DEFINE b == Snapshot("base")
             B == Complete("base")
             a == Snapshot("after")
             A == Complete("after")
  <1>1. {"base", "after"} \subseteq Windows
    BY DEF Windows
  <1>2. Less(b, B, "base") /\ Less(a, A, "after")
    BY <1>1, NothingIsAdded
  <1>3. ~sdk => B.rate = Null /\ A.rate = Null
    BY <1>1, NoCounter
  <1>4. cls \in AllClasses /\ sdk \in BOOLEAN
    BY DEF GateTypeInv
  <1>5. Recovered(b, a) = "true"
    BY DEF RecoverySeen
  <1>6. cls = "latency" /\ sdk => B.rate.calls = 0
    <2>1. cls = "latency" => truth["base"].rate = 0
      BY <1>1 DEF GateTypeInv, Truths
    <2>2. sdk => B.rate = [calls |-> truth["base"].rate, per |-> 30]
      BY <1>1, NoCounter
    <2> HIDE DEF B
    <2>3. QED BY <2>1, <2>2
  <1> HIDE DEF b, B, a, A
  <1>7. b.traces # Null /\ Answered({"base"} \X Callers) => EdgeOf(b) = EdgeOf(B)
    BY <1>2 DEF Less
  <1>8. a.traces # Null /\ Answered({"after"} \X Callers) => EdgeOf(a) = EdgeOf(A)
    BY <1>2 DEF Less
  <1>9. a.seconds = A.seconds /\ b.seconds = B.seconds
    BY <1>2 DEF Less
  <1>10. CASE cls \in {"misconfig", "targeting"}
    <2>1. a.traces # Null
      BY <1>5, <1>10 DEF Recovered, NoErrors
    <2>2. OwnOf(a) = OwnOf(A) /\ A.traces # Null
      BY <1>2, <1>10, <2>1 DEF RecoveryFooledBy, Answered, Less
    <2>3. QED BY <1>5, <1>10, <2>1, <2>2 DEF Recovered, NoErrors, Bool, WholeRecovery, B, A
  <1>11. CASE cls = "mem_leak"
    <2>1. b.memory # Null /\ a.memory # Null
      BY <1>5, <1>11 DEF Recovered, MemSettled, Bool
    <2>2. b.memory = B.memory /\ a.memory = A.memory
      BY <1>2, <2>1 DEF Less
    <2>3. QED BY <1>5, <1>9, <1>11, <2>2 DEF Recovered, MemSettled, Growth, Bool, WholeRecovery, B, A
  <1>12. CASE BySpans \/ cls = "latency"
    <2>1. Symptom(b, a) = "false" /\ SpansBack(b, a) = "true" /\ Recovered(B, A) = QuietAndBack(B, A)
      BY <1>5, <1>12 DEF Recovered, QuietAndBack, Bool, BySpans
    <2>2. Answered({"base"} \X Callers) /\ Answered({"after"} \X Callers)
      BY <1>12 DEF RecoveryFooledBy, Answered, Both, BySpans
    <2>3. CASE cls = "latency" \/ ~sdk
      <3>1. ~ (b.rate # Null /\ b.rate.calls > 0) /\ ~ (B.rate # Null /\ B.rate.calls > 0)
        BY <1>2, <1>3, <1>4, <1>6, <2>3 DEF Less
      <3>2. EdgeBack(b, a) = "true"
        BY <2>1, <3>1 DEF SpansBack
      <3>3. b.traces # Null /\ a.traces # Null /\ B.traces # Null /\ A.traces # Null
        BY <1>2, <3>2 DEF EdgeBack, Less
      <3>4. EdgeOf(b) = EdgeOf(B) /\ EdgeOf(a) = EdgeOf(A)
        BY <1>7, <1>8, <2>2, <3>3
      <3>5. EdgeBack(B, A) = "true"
        BY <1>9, <3>2, <3>3, <3>4 DEF EdgeBack, EdgeRate
      <3>6. SpansBack(B, A) = "true"
        BY <3>5 DEF SpansBack
      <3>7. Symptom(B, A) = "false"
        <4>1. CASE cls = "latency"
          BY <2>1, <3>4, <4>1 DEF Symptom, Latency, Bool
        <4>2. CASE cls # "latency" /\ ~sdk
          <5>1. b.rate = Null /\ B.rate = Null
            BY <1>2, <1>3, <4>2 DEF Less
          <5>2. /\ CrashArm(b, a) = CrashArm(B, A) /\ BlackholeArm(b, a) = BlackholeArm(B, A)
                /\ NoSdkArms(b, a) = NoSdkArms(B, A)
            BY <1>9, <3>3, <3>4, <5>1
              DEF CrashArm, CrashN, BlackholeArm, NoSdkArms, StepArm, SilenceArm, EdgeRate
          <5>3. TargetArm(b, a) = TargetArm(B, A)
            BY <4>2 DEF TargetArm
          <5>4. QED BY <1>12, <2>1, <4>2, <5>2, <5>3 DEF Symptom, BySpans
        <4>3. QED BY <2>3, <4>1, <4>2
      <3>8. QED BY <2>1, <3>6, <3>7 DEF QuietAndBack, Bool, WholeRecovery, B, A
    <2>4. CASE BySpans /\ sdk
      <3>1. /\ <<"base", "services">> \notin lost /\ <<"base", "rate">> \notin lost /\ <<"after", "rate">> \notin lost
            /\ cls = "crash" => <<"after", "services">> \notin lost
        BY <2>4 DEF RecoveryFooledBy, Answered, Both, BySpans
      <3>2. b.traces # Null /\ B.traces # Null /\ A.traces # Null /\ (cls = "crash" => a.traces # Null)
        BY <1>2, <3>1 DEF Less
      <3>3. EdgeOf(b) = EdgeOf(B) /\ b.rate = B.rate /\ a.rate = A.rate
        BY <1>2, <1>7, <2>2, <3>1, <3>2 DEF Less
      <3>4. TargetArm(b, a) = TargetArm(B, A) /\ NoSdkArms(b, a) = NoSdkArms(B, A)
        BY <1>9, <2>4, <3>3 DEF TargetArm, NoSdkArms
      <3>5. CASE a.traces # Null
        <4>1. EdgeOf(a) = EdgeOf(A)
          BY <1>8, <2>2, <3>5
        <4>2. /\ CrashArm(b, a) = CrashArm(B, A) /\ BlackholeArm(b, a) = BlackholeArm(B, A)
              /\ EdgeBack(b, a) = EdgeBack(B, A)
          BY <1>9, <3>2, <3>3, <3>5, <4>1 DEF CrashArm, CrashN, BlackholeArm, EdgeBack, EdgeRate
        <4>3. SpansBack(b, a) = SpansBack(B, A)
          BY <3>3, <4>2 DEF SpansBack
        <4>4. Symptom(b, a) = Symptom(B, A)
          BY <2>4, <3>4, <4>2 DEF Symptom, BySpans
        <4>5. QED BY <2>1, <4>3, <4>4 DEF QuietAndBack, Bool, WholeRecovery, B, A
      <3>6. CASE a.traces = Null
        <4>1. cls = "blackhole"
          BY <2>4, <3>2, <3>6 DEF BySpans
        <4>2. EdgeBack(b, a) = "none"
          BY <3>6 DEF EdgeBack
        <4>3. EdgeOf(b).spans = 0
          BY <2>1, <4>2 DEF SpansBack
        <4>4. EdgeOf(B).spans = 0
          BY <3>3, <4>3
        <4>5. EdgeBack(B, A) = "false"
          BY <3>2, <4>4 DEF EdgeBack, Bool
        <4>6. SpansBack(B, A) = SpansBack(b, a)
          BY <2>1, <3>3, <4>2, <4>4, <4>5 DEF SpansBack
        <4>7. BlackholeArm(b, a) = "none" /\ BlackholeArm(B, A) = "none"
          BY <4>3, <4>4 DEF BlackholeArm
        <4>8. Symptom(b, a) = Symptom(B, A)
          BY <3>4, <4>1, <4>7 DEF Symptom
        <4>9. QED BY <2>1, <4>6, <4>8 DEF QuietAndBack, Bool, WholeRecovery, B, A
      <3>7. QED BY <3>5, <3>6
    <2>5. QED BY <1>4, <1>12, <2>3, <2>4
  <1>13. QED BY <1>4, <1>10, <1>11, <1>12 DEF AllClasses, BySpans

\* A verdict that no failure left open is open for all answers too.
LEMMA SymptomIsOpen ==
  ASSUME GateTypeInv, InHalfMinutes, SymptomSeen = "none", Answered(SymptomLeftOpenBy)
  PROVE  WholeSymptom # "false"
  <1> DEFINE b == Snapshot("base")
             B == Complete("base")
             d == Snapshot("during")
             D == Complete("during")
  <1>1. {"base", "during"} \subseteq Windows
    BY DEF Windows
  <1>2. Less(b, B, "base") /\ Less(d, D, "during")
    BY <1>1, NothingIsAdded
  <1>3. Symptom(b, d) = "none" /\ cls \in AllClasses /\ sdk \in BOOLEAN
    BY DEF SymptomSeen, GateTypeInv
  <1> HIDE DEF b, B, d, D
  <1>4. cls \notin {"latency", "targeting", "mem_leak"}
    BY <1>3 DEF Symptom, Latency, Targeting, MemLeak, Bool
  <1>5. BySpans => sdk
    <2>1. ~sdk => NoSdkArms(b, d) # "none"
      BY DEF NoSdkArms, Bool
    <2>2. QED BY <1>3, <2>1 DEF Symptom, Any, BySpans
  <1>6. cls = "blackhole"
    <2>1. cls \in {"misconfig", "crash"} => d.traces # Null
      BY <1>2, <1>5 DEF SymptomLeftOpenBy, Answered, Less, BySpans
    <2>2. d.traces # Null => Misconfig(b, d) # "none" /\ CrashArm(b, d) # "none"
      BY DEF Misconfig, CrashArm, Bool
    <2>3. cls # "misconfig"
      BY <1>3, <2>1, <2>2 DEF Symptom
    <2>4. cls # "crash"
      BY <1>3, <2>1, <2>2 DEF Symptom, Any
    <2>5. QED BY <1>3, <1>4, <2>3, <2>4 DEF AllClasses
  <1>7. /\ <<"base", "services">> \notin lost /\ <<"during", "services">> \notin lost
        /\ <<"base", "rate">> \notin lost /\ <<"during", "rate">> \notin lost /\ Answered({"base"} \X Callers)
    BY <1>5, <1>6 DEF SymptomLeftOpenBy, Answered, Both, BySpans
  <1>8. /\ b.traces # Null /\ d.traces # Null /\ EdgeOf(b) = EdgeOf(B)
        /\ b.rate = B.rate /\ d.rate = D.rate /\ d.seconds = D.seconds
    BY <1>2, <1>7 DEF Less
  <1>9. TargetArm(b, d) = TargetArm(B, D)
    BY <1>8 DEF TargetArm
  <1>10. BlackholeArm(b, d) = "none" /\ TargetArm(b, d) = "none"
    BY <1>3, <1>6 DEF Symptom, Any
  <1>11. BlackholeArm(B, D) = "none"
    BY <1>8, <1>10 DEF BlackholeArm, Bool
  <1>12. NoSdkArms(B, D) = "none"
    BY <1>5, <1>6 DEF NoSdkArms, BySpans
  <1>13. QED BY <1>6, <1>9, <1>10, <1>11, <1>12 DEF Symptom, Any, WholeSymptom, B, D

LEMMA RecoveryIsOpen ==
  ASSUME GateTypeInv, InHalfMinutes, RecoverySeen = "none", Answered(RecoveryLeftOpenBy)
  PROVE  WholeRecovery # "false"
  <1> DEFINE b == Snapshot("base")
             B == Complete("base")
             a == Snapshot("after")
             A == Complete("after")
  <1>1. {"base", "after"} \subseteq Windows
    BY DEF Windows
  <1>2. Less(b, B, "base") /\ Less(a, A, "after")
    BY <1>1, NothingIsAdded
  <1>3. Recovered(b, a) = "none" /\ cls \in AllClasses /\ sdk \in BOOLEAN
    BY DEF RecoverySeen, GateTypeInv
  <1>4. ~sdk => B.rate = Null /\ A.rate = Null
    BY <1>1, NoCounter
  <1>5. sdk => A.rate # Null
    BY <1>1, NoCounter
  <1>6. cls = "latency" /\ sdk => B.rate.calls = 0
    <2>1. cls = "latency" => truth["base"].rate = 0
      BY <1>1 DEF GateTypeInv, Truths
    <2>2. sdk => B.rate = [calls |-> truth["base"].rate, per |-> 30]
      BY <1>1, NoCounter
    <2> HIDE DEF B
    <2>3. QED BY <2>1, <2>2
  <1> HIDE DEF b, B, a, A
  <1>7. cls # "mem_leak"
    BY <1>3 DEF Recovered, Bool
  <1>8. ASSUME cls \in {"misconfig", "targeting"} PROVE FALSE
    <2>1. a.traces # Null
      BY <1>2, <1>8 DEF RecoveryLeftOpenBy, Answered, Less
    <2>2. QED BY <1>3, <1>8, <2>1 DEF Recovered, NoErrors, Bool
  <1>9. BySpans \/ cls = "latency"
    BY <1>3, <1>7, <1>8 DEF AllClasses, BySpans
  <1>10. Symptom(b, a) = "none" \/ SpansBack(b, a) = "none"
    BY <1>3, <1>9 DEF Recovered, QuietAndBack, Bool, BySpans
  <1>11. /\ <<"base", "services">> \notin lost /\ <<"after", "services">> \notin lost
         /\ BySpans /\ sdk => <<"after", "rate">> \notin lost
    BY <1>9 DEF RecoveryLeftOpenBy, Answered, Both, BySpans
  <1>12. b.traces # Null /\ a.traces # Null
    BY <1>2, <1>11 DEF Less
  <1>13. SpansBack(b, a) # "none"
    <2>1. EdgeBack(b, a) # "none"
      BY <1>12 DEF EdgeBack, Bool
    <2>2. b.rate # Null /\ b.rate.calls > 0 => a.rate # Null
      BY <1>2, <1>3, <1>4, <1>5, <1>6, <1>9, <1>11 DEF Less
    <2>3. QED BY <2>1, <2>2 DEF SpansBack, Bool
  <1>14. Symptom(b, a) = "none"
    BY <1>10, <1>13
  <1>15. cls = "blackhole" /\ sdk
    <2>1. cls # "latency"
      BY <1>14 DEF Symptom, Latency, Bool
    <2>2. ~sdk => NoSdkArms(b, a) # "none"
      BY DEF NoSdkArms, Bool
    <2>3. CrashArm(b, a) # "none"
      BY <1>12 DEF CrashArm, Bool
    <2>4. cls # "crash"
      BY <1>14, <2>3 DEF Symptom, Any
    <2>5. cls = "blackhole"
      BY <1>9, <2>1, <2>4 DEF BySpans
    <2>6. QED BY <1>14, <2>2, <2>5 DEF Symptom, Any
  <1>16. /\ <<"base", "rate">> \notin lost /\ Answered({"base"} \X Callers)
    BY <1>15 DEF RecoveryLeftOpenBy, Answered, Both
  <1>17. EdgeOf(b) = EdgeOf(B) /\ b.rate = B.rate /\ a.rate = A.rate /\ a.seconds = A.seconds
    BY <1>2, <1>11, <1>12, <1>15, <1>16 DEF Less, BySpans
  <1>18. BlackholeArm(b, a) = "none" /\ TargetArm(b, a) = "none"
    BY <1>14, <1>15 DEF Symptom, Any
  <1>19. BlackholeArm(B, A) = "none"
    BY <1>12, <1>17, <1>18 DEF BlackholeArm, Bool
  <1>20. TargetArm(B, A) = "none" /\ NoSdkArms(B, A) = "none"
    BY <1>15, <1>17, <1>18 DEF TargetArm, NoSdkArms
  <1>21. Symptom(B, A) = "none"
    BY <1>15, <1>19, <1>20 DEF Symptom, Any
  <1>22. QED BY <1>15, <1>21 DEF Recovered, QuietAndBack, WholeRecovery, B, A

(* ------------------------- quiet and ongoing -------------------------- *)

\* A target to which nothing happened shows no symptom.
LEMMA NothingNoSymptom ==
  ASSUME GateTypeInv, InHalfMinutes, Quiet("base"), truth["during"] = truth["base"],
         Answered(TakenForSilence)
  PROVE  SymptomSeen # "true"
  <1> DEFINE b == Snapshot("base")
             B == Complete("base")
             d == Snapshot("during")
             D == Complete("during")
             t == truth["base"]
             m == Times("base")
             n == Times("during")
  <1>1. "base" \in Windows /\ "during" \in Windows
    BY DEF Windows
  <1>2. Less(b, B, "base") /\ Less(d, D, "during")
    BY <1>1, NothingIsAdded
  <1>3. /\ EdgeOf(B) = EdgeIn(t.edge, m) /\ OwnOf(B) = OwnIn(t.own, m)
        /\ EdgeOf(D) = EdgeIn(t.edge, n) /\ OwnOf(D) = OwnIn(t.own, n) /\ D.memory = t.memory
        /\ D.traces # Null
    BY <1>1, WholeWindow
  <1>4. /\ B.rate = IF ~sdk THEN Null ELSE [calls |-> t.rate, per |-> 30]
        /\ D.rate = B.rate
    BY <1>1, WholeWindow
  <1>5. /\ m \in Nat \ {0} /\ n \in Nat \ {0} /\ m <= n
        /\ B.seconds = 30 * m /\ D.seconds = 30 * n
    BY <1>1, HalfMinutes, WholeWindow
  <1>6. /\ t.edge \in EdgeReading /\ t.own \in OwnReading /\ t.memory \in [first : Nat, last : Nat]
        /\ t.rate \in Nat
    BY <1>1, TruthTypes DEF GateTypeInv
  <1>7. /\ t.edge.errors = 0 /\ t.own.errors = 0 /\ t.edge.p50 \in {Null, 1}
        /\ t.memory.first = t.memory.last
    BY DEF Quiet
  <1>8. cls \in AllClasses /\ sdk \in BOOLEAN
    BY DEF GateTypeInv
  <1> HIDE DEF b, B, d, D, t, m, n
  <1>9. t.edge.spans \in Nat /\ t.edge.spans * m \in Nat /\ t.edge.spans * n \in Nat
    BY <1>5, <1>6 DEF EdgeReading
  <1>10. /\ EdgeOf(d) \in EdgeReading /\ EdgeOf(b) \in EdgeReading
         /\ EdgeOf(d).errors = 0 /\ EdgeOf(b).p50 \in {Null, 1} /\ EdgeOf(d).p50 \in {Null, 1}
         /\ EdgeOf(b).spans \in Nat /\ EdgeOf(b).spans <= t.edge.spans * m
    <2>1. EdgeOf(D).errors = 0 /\ EdgeOf(D).p50 \in {Null, 1} /\ EdgeOf(B).p50 \in {Null, 1}
          /\ EdgeOf(B).spans = t.edge.spans * m
      BY <1>3, <1>5, <1>7 DEF EdgeIn
    <2>2. QED BY <1>2, <2>1 DEF Less, EdgeReading
  <1>11. d.traces # Null /\ Answered({"during"} \X Callers) => EdgeOf(d).spans = t.edge.spans * n
    BY <1>2, <1>3 DEF Less, EdgeIn
  <1>12. d.seconds = 30 * n /\ b.seconds = 30 * m
    BY <1>2, <1>5 DEF Less
  <1>13. TargetArm(b, d) # "true"
    <2> SUFFICES ASSUME TargetArm(b, d) = "true" PROVE FALSE
      OBVIOUS
    <2>1. b.rate # Null /\ d.rate # Null /\ Expected5(b.rate, d.seconds) /\ AtMostTenth(d.rate, b.rate)
      BY DEF TargetArm, Bool
    <2>2. b.rate = B.rate /\ d.rate = B.rate /\ B.rate # Null
      BY <1>2, <1>4, <2>1 DEF Less
    <2>3. B.rate = [calls |-> t.rate, per |-> 30]
      BY <1>4, <2>2
    <2>4. t.rate * (30 * n) >= 150 /\ 10 * t.rate * 30 <= t.rate * 30
      BY <1>12, <2>1, <2>2, <2>3 DEF Expected5, AtMostTenth
    <2>5. t.rate = 0
      BY <1>6, <2>4
    <2>6. QED BY <1>5, <2>4, <2>5
  <1>14. ASSUME d.traces # Null, Answered({"during"} \X Callers), EdgeOf(b).spans > 0
         PROVE  ~ 10 * EdgeOf(d).spans < EdgeOf(b).spans /\ ~ AtMostTenth(EdgeRate(d), EdgeRate(b))
    <2> DEFINE x == t.edge.spans
               y == EdgeOf(b).spans
    <2>1. x \in Nat /\ y \in Nat /\ y > 0 /\ y <= x * m /\ x * m <= x * n
      <3>1. x * m <= x * n
        BY <1>5, <1>9
      <3>2. QED BY <1>9, <1>10, <1>14, <3>1
    <2>2. EdgeOf(d).spans = x * n
      BY <1>11, <1>14
    <2> HIDE DEF x, y
    <2>3. ~ 10 * (x * n) < y
      BY <1>5, <2>1
    <2>4. ~ 10 * (x * n) * (30 * m) <= y * (30 * n)
      <3> DEFINE p == x * m * n
      <3>1. y * n <= (x * m) * n /\ y * n \in Nat /\ y * n > 0
        BY <1>5, <2>1
      <3>2. (x * m) * n = p /\ 10 * (x * n) * (30 * m) = 300 * p /\ y * (30 * n) = 30 * (y * n) /\ p \in Nat
        BY <1>5, <2>1
      <3> HIDE DEF p
      <3>3. QED BY <3>1, <3>2
    <2>5. EdgeRate(d).calls = x * n /\ EdgeRate(d).per = 30 * n /\ EdgeRate(b).calls = y /\ EdgeRate(b).per = 30 * m
      BY <1>12, <2>2 DEF EdgeRate, y
    <2>6. QED BY <2>2, <2>3, <2>4, <2>5 DEF AtMostTenth, y
  <1>15. ASSUME NoSdkArms(b, d) = "true", BySpans PROVE FALSE
    <2>1. ~sdk /\ (StepArm(b, d) \/ SilenceArm(b, d))
      BY <1>15 DEF NoSdkArms, Bool
    <2>2. ~ StepArm(b, d)
      BY <1>10, NullIsNoReading DEF StepArm
    <2>3. d.traces # Null /\ Answered({"during"} \X Callers)
      BY <1>2, <1>15, <2>1 DEF TakenForSilence, Answered, Less
    <2>4. SilenceArm(b, d) => EdgeOf(b).spans > 0 /\ AtMostTenth(EdgeRate(d), EdgeRate(b))
      BY DEF SilenceArm
    <2>5. QED BY <1>14, <2>1, <2>2, <2>3, <2>4
  <1>16. cls = "crash" => CrashArm(b, d) # "true"
    <2>1. b.rate = Null \/ (b.rate.calls \in Nat /\ b.rate.per \in Nat \ {0})
      <3>1. b.rate = Null \/ b.rate = [calls |-> t.rate, per |-> 30]
        BY <1>2, <1>4 DEF Less
      <3>2. QED BY <1>6, <3>1
    <2>2. CrashN(b, d) \in Int /\ CrashN(b, d) >= 5
      BY <1>5, <1>10, <1>12, <2>1, CrashNAtLeast5
    <2>3. QED BY <1>10, <2>2 DEF CrashArm, Bool
  <1>17. cls = "blackhole" => BlackholeArm(b, d) # "true"
    <2> SUFFICES ASSUME cls = "blackhole", BlackholeArm(b, d) = "true" PROVE FALSE
      OBVIOUS
    <2>1. Answered({"during"} \X Callers)
      BY <1>8 DEF TakenForSilence, Answered, BySpans
    <2>2. d.traces # Null /\ EdgeOf(b).spans # 0 /\ 10 * EdgeOf(d).spans < EdgeOf(b).spans
      BY DEF BlackholeArm, Bool
    <2>3. QED BY <1>10, <1>14, <2>1, <2>2
  <1>18. OwnOf(d).errors = 0 /\ OwnOf(d).calls \in Nat
    <2>1. OwnOf(D).errors = 0 /\ OwnOf(D).calls \in Nat
      BY <1>3, <1>5, <1>6, <1>7 DEF OwnIn, OwnReading
    <2>2. QED BY <1>2, <2>1 DEF Less, Idle
  <1>19. CASE BySpans
    BY <1>13, <1>15, <1>16, <1>17, <1>19 DEF Symptom, Any, BySpans, SymptomSeen, b, d
  <1>20. CASE cls = "misconfig"
    <2> DEFINE c == CeilDiv(OwnOf(d).calls, 2)
    <2>1. c \in Int /\ 2 \in Int
      BY <1>18, CeilDivType
    <2> HIDE DEF c
    <2>2. Max({2, c}) \in Int /\ Max({2, c}) >= 2
      BY <2>1, MaxOfTwo
    <2>3. QED BY <1>18, <1>20, <2>2 DEF Symptom, Misconfig, Bool, SymptomSeen, b, d, c
  <1>21. CASE cls = "targeting"
    BY <1>18, <1>21 DEF Symptom, Targeting, Bool, SymptomSeen, d
  <1>22. CASE cls = "mem_leak"
    <2>1. d.memory = Null \/ Growth(d) = 0
      BY <1>2, <1>3, <1>6, <1>7 DEF Growth, Less
    <2>2. QED BY <1>22, <2>1 DEF Symptom, MemLeak, Bool, SymptomSeen, d
  <1>23. CASE cls = "latency"
    <2>1. ~ (EdgeOf(b).p50 # Null /\ EdgeOf(d).p50 # Null /\ EdgeOf(d).p50 - EdgeOf(b).p50 >= 640)
      BY <1>10
    <2>2. Latency(b, d) # "true"
      BY <2>1 DEF Latency, Bool
    <2>3. QED BY <1>23, <2>2 DEF Symptom, SymptomSeen, b, d
  <1>24. QED BY <1>8, <1>19, <1>20, <1>21, <1>22, <1>23 DEF AllClasses, BySpans

LEMMA Cancel ==
  ASSUME NEW u \in Int, NEW v \in Int, NEW p \in Nat \ {0}
  PROVE  u * p <= v * p <=> u <= v
  <1>1. ASSUME u <= v PROVE u * p <= v * p
    BY <1>1
  <1>2. ASSUME v + 1 <= u PROVE v * p < u * p
    <2>1. (v + 1) * p <= u * p
      BY <1>2
    <2>2. QED BY <2>1
  <1>3. QED BY <1>1, <1>2

LEMMA CeilDivAtMost ==
  ASSUME NEW a \in Nat, NEW b \in Nat \ {0}, NEW k \in Int
  PROVE  CeilDiv(a, b) <= k <=> a <= k * b
  <1> DEFINE q == (a + b - 1) \div b
  <1>1. q \in Int /\ q * b <= a + b - 1 /\ a + b - 1 < (q + 1) * b
    OBVIOUS
  <1>2. (q + 1) * b = q * b + b /\ q * b \in Int /\ k * b \in Int
    BY <1>1
  <1> HIDE DEF q
  <1>3. a <= q * b
    BY <1>1, <1>2
  <1>4. q <= k => q * b <= k * b
    BY <1>1, Cancel
  <1>5. ASSUME a <= k * b PROVE q <= k
    <2>1. q * b < (k + 1) * b
      BY <1>1, <1>2, <1>5
    <2>2. ~ (k + 1) * b <= q * b
      BY <1>1, <2>1
    <2>3. ~ k + 1 <= q
      BY <1>1, <2>2, Cancel
    <2>4. QED BY <1>1, <2>3
  <1>6. CeilDiv(a, b) = q
    BY DEF CeilDiv, q
  <1>7. QED BY <1>2, <1>3, <1>4, <1>5, <1>6

\* Errors above a quarter of the calls stay above it in a window k, n <= k.
LEMMA QuarterOfLonger ==
  ASSUME NEW c \in Nat, NEW q \in Nat \ {0}, NEW e \in Nat,
         NEW n \in Nat \ {0}, NEW k \in Nat \ {0}, n <= k,
         e * n > CeilDiv(c * (30 * n), q)
  PROVE  e * k > CeilDiv(c * (30 * k), q)
  <1> DEFINE g == e * q - 30 * c
  <1>1. /\ c * (30 * n) \in Nat /\ c * (30 * k) \in Nat /\ e * n \in Nat /\ e * k \in Nat
        /\ CeilDiv(c * (30 * n), q) \in Int /\ CeilDiv(c * (30 * k), q) \in Int
    BY CeilDivType
  <1>2. CeilDiv(c * (30 * n), q) <= e * n - 1
    BY <1>1
  <1>3. c * (30 * n) <= (e * n - 1) * q
    <2> DEFINE a == c * (30 * n)
               x == e * n - 1
    <2>1. a \in Nat /\ x \in Int /\ CeilDiv(a, q) <= x
      BY <1>1, <1>2
    <2> HIDE DEF a, x
    <2>2. a <= x * q
      BY <2>1, CeilDivAtMost
    <2>3. QED BY <2>2 DEF a, x
  <1>4. g \in Int /\ g * n = (e * n - 1) * q + q - c * (30 * n) /\ g * k = (e * k - 1) * q + q - c * (30 * k)
    BY <1>1
  <1> HIDE DEF g
  <1>5. g * n \in Int /\ g * k \in Int /\ (e * n - 1) * q \in Int /\ (e * k - 1) * q \in Int
    BY <1>1, <1>4
  <1>6. g * n >= q
    BY <1>1, <1>3, <1>4, <1>5
  <1>7. g >= 1
    BY <1>4, <1>6
  <1>8. g * n <= g * k
    <2>1. n * g <= k * g
      BY <1>4, <1>7, Cancel
    <2>2. QED BY <1>4, <2>1
  <1>9. c * (30 * k) <= (e * k - 1) * q
    BY <1>1, <1>4, <1>5, <1>6, <1>8
  <1>10. CeilDiv(c * (30 * k), q) <= e * k - 1
    <2> DEFINE a == c * (30 * k)
               x == e * k - 1
    <2>1. a \in Nat /\ x \in Int /\ a <= x * q
      BY <1>1, <1>9
    <2> HIDE DEF a, x
    <2>2. CeilDiv(a, q) <= x
      BY <2>1, CeilDivAtMost
    <2>3. QED BY <2>2 DEF a, x
  <1>11. QED BY <1>1, <1>10

\* Rates of windows of whole half minutes compare as what happens in 30 seconds.
LEMMA RatesCompare ==
  ASSUME NEW x \in Nat, NEW y \in Nat, NEW s \in Nat \ {0}, NEW t \in Nat \ {0}
  PROVE  /\ 10 * (x * s) * (30 * t) <= (y * t) * (30 * s) <=> 10 * x <= y
         /\ 2 * (x * s) * (30 * t) >= (y * t) * (30 * s) <=> 2 * x >= y
  <1> DEFINE p == s * t
  <1>1. p \in Nat \ {0}
    OBVIOUS
  <1>2. /\ 10 * (x * s) * (30 * t) = (300 * x) * p /\ 2 * (x * s) * (30 * t) = (60 * x) * p
        /\ (y * t) * (30 * s) = (30 * y) * p
    OBVIOUS
  <1> HIDE DEF p
  <1>3. QED BY <1>1, <1>2, Cancel

\* A fault that goes on as long again, or longer, is not recovered from.
LEMMA OngoingNotBack ==
  ASSUME GateTypeInv, InHalfMinutes, Growth(Complete("base")) = 0, WholeSymptom = "true",
         truth["after"] = truth["during"], seconds["after"] >= seconds["during"]
  PROVE  WholeRecovery = "false"
  <1> DEFINE B == Complete("base")
             D == Complete("during")
             A == Complete("after")
             t == truth["during"]
             y == truth["base"].edge.spans
             n == Times("during")
             k == Times("after")
             m == Times("base")
  <1>1. "base" \in Windows /\ "during" \in Windows /\ "after" \in Windows
    BY DEF Windows
  <1>2. /\ n \in Nat \ {0} /\ k \in Nat \ {0} /\ m \in Nat \ {0} /\ m <= n /\ n <= k
        /\ seconds["base"] = 30 * m /\ seconds["during"] = 30 * n /\ seconds["after"] = 30 * k
        /\ 30 * k < 600
    BY <1>1, HalfMinutes
  <1>3. cls \in AllClasses /\ sdk \in BOOLEAN /\ t \in Truths(cls) /\ truth["base"] \in Truths(cls)
    BY <1>1 DEF GateTypeInv
  <1>4. /\ t.edge \in EdgeReading /\ t.own \in OwnReading /\ t.memory \in [first : Nat, last : Nat]
        /\ truth["base"].edge \in EdgeReading /\ truth["base"].rate \in Nat
        /\ truth["base"].memory \in [first : Nat, last : Nat]
    BY <1>3, TruthTypes
  <1>5. /\ B.traces # Null /\ D.traces # Null /\ A.traces # Null
        /\ EdgeOf(D) = EdgeIn(t.edge, n) /\ EdgeOf(A) = EdgeIn(t.edge, k)
        /\ EdgeOf(B) = EdgeIn(truth["base"].edge, m)
        /\ OwnOf(D) = OwnIn(t.own, n) /\ OwnOf(A) = OwnIn(t.own, k)
        /\ D.memory = t.memory /\ A.memory = t.memory /\ A.memory # Null
        /\ B.seconds = 30 * m /\ D.seconds = 30 * n /\ A.seconds = 30 * k
    <2>1. /\ B.traces # Null /\ B.seconds = 30 * m /\ EdgeOf(B) = EdgeIn(truth["base"].edge, m)
      BY <1>1, <1>2, WholeWindow
    <2>2. /\ D.traces # Null /\ D.seconds = 30 * n /\ EdgeOf(D) = EdgeIn(t.edge, n)
          /\ OwnOf(D) = OwnIn(t.own, n) /\ D.memory = t.memory
      BY <1>1, <1>2, WholeWindow
    <2>3. /\ A.traces # Null /\ A.seconds = 30 * k /\ EdgeOf(A) = EdgeIn(t.edge, k)
          /\ OwnOf(A) = OwnIn(t.own, k) /\ A.memory = t.memory /\ A.memory # Null
      <3> DEFINE u == truth["after"]
      <3>1. /\ A.traces # Null /\ A.seconds = 30 * k /\ EdgeOf(A) = EdgeIn(u.edge, k)
            /\ OwnOf(A) = OwnIn(u.own, k) /\ A.memory = u.memory /\ A.memory # Null
        BY <1>1, <1>2, WholeWindow
      <3>2. u = t
        OBVIOUS
      <3> HIDE DEF A, u
      <3>3. QED BY <3>1, <3>2
    <2>4. QED BY <2>1, <2>2, <2>3
  <1>6. D.rate = A.rate /\ (D.rate = Null <=> ~sdk) /\ (B.rate = Null <=> ~sdk)
    <2> DEFINE of(w) == [calls |-> truth[w].rate, per |-> 30]
    <2>1. B.rate = (IF ~sdk THEN Null ELSE of("base")) /\ of("base") # Null
      BY <1>1, WholeWindow
    <2>2. /\ D.rate = (IF ~sdk THEN Null ELSE of("during")) /\ of("during") # Null
          /\ A.rate = (IF ~sdk THEN Null ELSE of("after"))
      BY <1>1, WholeWindow
    <2>3. of("during") = of("after")
      OBVIOUS
    <2> HIDE DEF B, D, A, of
    <2>4. QED BY <2>1, <2>2, <2>3
  <1>7. B.rate = Null \/ (B.rate.calls \in Nat /\ B.rate.per = 30)
    <2>1. B.rate = Null \/ B.rate = [calls |-> truth["base"].rate, per |-> 30]
      BY <1>1, WholeWindow
    <2> HIDE DEF B
    <2>2. QED BY <1>4, <2>1
  <1>8. WholeSymptom = Symptom(B, D) /\ WholeRecovery = Recovered(B, A)
    BY DEF WholeSymptom, WholeRecovery
  <1>9. Growth(B) = 0
    OBVIOUS
  <1> HIDE DEF B, D, A, t, y, n, k, m
  <1>10. /\ EdgeOf(D).spans = t.edge.spans * n /\ EdgeOf(D).errors = t.edge.errors * n /\ EdgeOf(D).p50 = t.edge.p50
         /\ EdgeOf(A).spans = t.edge.spans * k /\ EdgeOf(A).errors = t.edge.errors * k /\ EdgeOf(A).p50 = t.edge.p50
         /\ EdgeOf(B).spans = y * m
         /\ OwnOf(D).errors = t.own.errors * n /\ OwnOf(A).errors = t.own.errors * k
         /\ OwnOf(D).calls = t.own.calls * n
    BY <1>5 DEF EdgeIn, OwnIn, y
  <1>11. t.edge.spans \in Nat /\ t.edge.errors \in Nat /\ y \in Nat /\ t.own.errors \in Nat /\ t.own.calls \in Nat
    BY <1>4 DEF EdgeReading, OwnReading, y
  <1>12. /\ AtMostTenth(EdgeRate(D), EdgeRate(B)) => AtMostTenth(EdgeRate(A), EdgeRate(B))
         /\ AtLeastHalf(EdgeRate(A), EdgeRate(B)) => 2 * t.edge.spans >= y
    <2>1. /\ EdgeRate(D) = [calls |-> t.edge.spans * n, per |-> 30 * n]
          /\ EdgeRate(A) = [calls |-> t.edge.spans * k, per |-> 30 * k]
          /\ EdgeRate(B) = [calls |-> y * m, per |-> 30 * m]
      BY <1>5, <1>10 DEF EdgeRate
    <2>2. QED BY <1>2, <1>11, <2>1, RatesCompare DEF AtMostTenth, AtLeastHalf
  <1>13. CASE BySpans
    <2>1. Recovered(B, A) = QuietAndBack(B, A)
      BY <1>13 DEF Recovered, BySpans
    <2>2. ASSUME TargetArm(B, D) = "true" PROVE TargetArm(B, A) = "true"
      <3>1. /\ sdk /\ B.rate # Null /\ D.rate # Null /\ Expected5(B.rate, D.seconds) /\ D.seconds >= 60
            /\ AtMostTenth(D.rate, B.rate)
        BY <1>2, <1>5, <2>2 DEF TargetArm, Bool
      <3>2. Expected5(B.rate, A.seconds)
        <4>1. B.rate.calls * (30 * n) <= B.rate.calls * (30 * k)
          BY <1>2, <1>7, <3>1
        <4>2. B.rate.calls * (30 * n) \in Nat /\ B.rate.calls * (30 * k) \in Nat
          BY <1>2, <1>7, <3>1
        <4>3. QED BY <1>5, <1>7, <3>1, <4>1, <4>2 DEF Expected5
      <3>3. A.seconds >= 60
        BY <1>2, <1>5, <3>1
      <3>4. QED BY <1>2, <1>5, <1>6, <3>1, <3>2, <3>3 DEF TargetArm, Bool
    <2>3. ASSUME NoSdkArms(B, D) = "true" PROVE NoSdkArms(B, A) = "true"
      <3>1. ~sdk /\ (StepArm(B, D) \/ SilenceArm(B, D))
        BY <2>3 DEF NoSdkArms, Bool
      <3>2. StepArm(B, D) => StepArm(B, A)
        BY <1>10 DEF StepArm
      <3>3. SilenceArm(B, D) => SilenceArm(B, A)
        <4>1. EdgeRate(B).calls \in Nat /\ EdgeRate(B).per \in Nat
          BY <1>2, <1>5, <1>10, <1>11 DEF EdgeRate
        <4>2. Expected5(EdgeRate(B), D.seconds) => Expected5(EdgeRate(B), A.seconds)
          <5> DEFINE c == EdgeRate(B).calls
          <5>1. c \in Nat
            BY <4>1
          <5> HIDE DEF c
          <5>2. c * (30 * n) <= c * (30 * k) /\ c * (30 * n) \in Nat /\ c * (30 * k) \in Nat
            BY <1>2, <5>1
          <5>3. QED BY <1>5, <4>1, <5>2 DEF Expected5, c
        <4>3. QED BY <1>12, <4>2 DEF SilenceArm
      <3>4. QED BY <3>1, <3>2, <3>3 DEF NoSdkArms, Bool
    <2>4. ASSUME cls = "crash", CrashArm(B, D) = "true" PROVE CrashArm(B, A) = "true"
      <3> DEFINE r == IF B.rate = Null THEN EdgeRate(B) ELSE B.rate
                 c(w) == CeilDiv(r.calls * w.seconds, 4 * r.per)
      <3>1. r.calls \in Nat /\ r.per \in Nat \ {0}
        BY <1>2, <1>5, <1>7, <1>10, <1>11 DEF EdgeRate
      <3>2. CrashN(B, D) = Max({5, c(D)}) /\ CrashN(B, A) = Max({5, c(A)})
        BY DEF CrashN
      <3>3. t.edge.errors * n > CrashN(B, D)
        BY <1>10, <2>4 DEF CrashArm, Bool
      <3> HIDE DEF r
      <3>4. /\ r.calls * (30 * n) \in Nat /\ r.calls * (30 * k) \in Nat
            /\ 4 * r.per \in Nat \ {0} /\ r.calls * D.seconds = r.calls * (30 * n) /\ r.calls * A.seconds = r.calls * (30 * k)
        BY <1>2, <1>5, <3>1
      <3>5. c(D) = CeilDiv(r.calls * (30 * n), 4 * r.per) /\ c(A) = CeilDiv(r.calls * (30 * k), 4 * r.per)
        BY <3>4
      <3>6. c(D) \in Int /\ c(A) \in Int /\ 5 \in Int
        BY <3>4, <3>5, CeilDivType
      <3>7. t.edge.errors * n > CeilDiv(r.calls * (30 * n), 4 * r.per) => t.edge.errors * k > CeilDiv(r.calls * (30 * k), 4 * r.per)
        BY <1>2, <1>11, <3>1, <3>4, QuarterOfLonger
      <3> HIDE DEF c
      <3>8. /\ Max({5, c(D)}) \in {5, c(D)} /\ Max({5, c(D)}) >= 5 /\ Max({5, c(D)}) >= c(D)
            /\ Max({5, c(A)}) \in {5, c(A)}
        BY <3>6, MaxOfTwo
      <3>9. t.edge.errors * n <= t.edge.errors * k /\ t.edge.errors * n \in Nat /\ t.edge.errors * k \in Nat
        BY <1>2, <1>11
      <3>10. t.edge.errors * k > CrashN(B, A)
        BY <3>2, <3>3, <3>5, <3>6, <3>7, <3>8, <3>9
      <3>11. QED BY <1>5, <1>10, <3>10 DEF CrashArm, Bool
    <2>5. ASSUME cls = "blackhole", BlackholeArm(B, D) = "true"
          PROVE  SpansBack(B, A) = "false" /\ BlackholeArm(B, A) # "none"
      <3>1. y * m # 0 /\ 10 * (t.edge.spans * n) < y * m
        BY <1>10, <2>5 DEF BlackholeArm, Bool
      <3>2. y * m <= y * n
        BY <1>2, <1>11
      <3>3. ~ 2 * t.edge.spans >= y
        <4> SUFFICES ASSUME 2 * t.edge.spans >= y PROVE FALSE
          OBVIOUS
        <4>1. y * n <= (2 * t.edge.spans) * n
          BY <1>2, <1>11
        <4>2. /\ (2 * t.edge.spans) * n = 2 * (t.edge.spans * n) /\ t.edge.spans * n \in Nat
              /\ y * n \in Nat /\ y * m \in Nat
          BY <1>2, <1>11
        <4>3. QED BY <3>1, <3>2, <4>1, <4>2
      <3>4. EdgeBack(B, A) = "false"
        BY <1>5, <1>12, <3>3 DEF EdgeBack, Bool
      <3>5. EdgeOf(B).spans # 0
        BY <1>10, <3>1
      <3>6. QED BY <1>5, <3>4, <3>5 DEF SpansBack, BlackholeArm, Bool
    <2>6. SpansBack(B, A) \in {"true", "false"}
      <3>1. EdgeBack(B, A) \in {"true", "false"}
        BY <1>5 DEF EdgeBack, Bool
      <3>2. QED BY <1>6, <3>1 DEF SpansBack, Bool
    <2>7. Symptom(B, A) = "true" \/ (Symptom(B, A) # "none" /\ SpansBack(B, A) = "false")
      <3>1. CASE cls = "crash"
        BY <1>8, <2>2, <2>3, <2>4, <3>1 DEF Symptom, Any
      <3>2. CASE cls = "blackhole"
        BY <1>8, <2>2, <2>3, <2>5, <3>2 DEF Symptom, Any
      <3>3. QED BY <1>13, <3>1, <3>2 DEF BySpans
    <2>8. QED BY <1>8, <2>1, <2>6, <2>7 DEF QuietAndBack, Bool
  <1>14. CASE cls \in {"misconfig", "targeting"}
    <2>1. OwnOf(D).errors # 0
      <3>1. CASE cls = "targeting"
        BY <1>8, <3>1 DEF Symptom, Targeting, Bool
      <3>2. CASE cls = "misconfig"
        <4> DEFINE c == CeilDiv(OwnOf(D).calls, 2)
        <4>1. OwnOf(D).calls \in Nat
          BY <1>2, <1>10, <1>11
        <4>2. c \in Int /\ 2 \in Int
          BY <4>1, CeilDivType
        <4>3. OwnOf(D).errors >= Max({2, c})
          BY <1>5, <1>8, <3>2 DEF Symptom, Misconfig, Bool
        <4> HIDE DEF c
        <4>4. Max({2, c}) \in Int /\ Max({2, c}) >= 2
          BY <4>2, MaxOfTwo
        <4>5. QED BY <4>3, <4>4
      <3>3. QED BY <1>14, <3>1, <3>2
    <2>2. t.own.errors # 0
      BY <1>2, <1>10, <2>1
    <2>3. OwnOf(A).errors # 0
      BY <1>2, <1>10, <1>11, <2>2
    <2>4. QED BY <1>5, <1>8, <1>14, <2>3 DEF Recovered, NoErrors, Bool
  <1>15. CASE cls = "mem_leak"
    <2>1. Growth(D) = Growth(A) /\ Growth(A) \in Int
      BY <1>4, <1>5 DEF Growth
    <2>2. Growth(A) >= 10
      BY <1>8, <1>15, <2>1 DEF Symptom, MemLeak, Bool
    <2>3. ~ 60 * Growth(A) * (30 * m) <= 60 * 0 * (30 * k) + (30 * k) * (30 * m)
      <3> DEFINE g == 60 * Growth(A)
                 s == 30 * k
      <3>1. g \in Int /\ s \in Nat /\ s + 1 <= g
        BY <1>2, <2>1, <2>2
      <3> HIDE DEF g, s
      <3>2. ~ g * (30 * m) <= s * (30 * m)
        BY <1>2, <3>1, Cancel
      <3>3. s * (30 * m) \in Int
        BY <1>2, <3>1
      <3>4. QED BY <3>1, <3>2, <3>3 DEF g, s
    <2>4. ~ MemSettled(B, A)
      BY <1>5, <1>9, <2>3 DEF MemSettled
    <2>5. QED BY <1>8, <1>15, <2>4 DEF Recovered, Bool
  <1>16. CASE cls = "latency"
    <2>1. t.edge.errors \in {0, 2} /\ (t.edge.errors = 2 => t.edge.spans = 8)
      BY <1>3, <1>16 DEF Truths, Edge
    <2>2. Latency(B, D) = "true"
      BY <1>8, <1>16 DEF Symptom
    <2>3. t.edge.errors = 0
      BY <1>2, <1>10, <2>1, <2>2 DEF Latency, Bool
    <2>4. Latency(B, A) = "true"
      BY <1>2, <1>10, <2>2, <2>3 DEF Latency, Bool
    <2>5. Symptom(B, A) = "true"
      BY <1>16, <2>4 DEF Symptom
    <2>6. SpansBack(B, A) \in {"true", "false"}
      BY <1>5, <1>6 DEF SpansBack, EdgeBack, Bool
    <2>7. QED BY <1>8, <1>16, <2>5, <2>6 DEF Recovered, QuietAndBack, Bool
  <1>17. QED BY <1>3, <1>13, <1>14, <1>15, <1>16 DEF AllClasses, BySpans

(* ------------------------------ the gate ------------------------------ *)

LEMMA JudgesSay ==
  ASSUME GateTypeInv
  PROVE  SymptomSeen \in Verdicts /\ RecoverySeen \in Verdicts
  <1>1. cls \in AllClasses
    BY DEF GateTypeInv
  <1>2. \A b, d : Symptom(b, d) \in Verdicts
    BY <1>1 DEF AllClasses, Symptom, Any, Misconfig, Targeting, MemLeak, Latency, Bool, Verdicts
  <1>3. \A b, a : Recovered(b, a) \in Verdicts
    BY DEF Recovered, QuietAndBack, NoErrors, Bool, Verdicts
  <1>4. QED BY <1>2, <1>3 DEF SymptomSeen, RecoverySeen

\* The failure of queries, whichever and however many, makes no card but for
\* those the property names: judge_symptom() and judge_recovered() say yes of
\* what all answers show, and probe_gate() passes what all answers would pass.
THEOREM LossNeverMakesCards ==
  ASSUME InHalfMinutes
  PROVE  GateSpec => []LossNeverPasses
  <1>1. GateInv => LossNeverPasses
    <2> SUFFICES ASSUME GateInv PROVE LossNeverPasses
      OBVIOUS
    <2>1. GateTypeInv /\ SymptomSeen \in Verdicts /\ RecoverySeen \in Verdicts
      BY JudgesSay DEF GateInv
    <2>2. SymptomSeen = "true" /\ Answered(SymptomFooledBy) => WholeSymptom = "true"
      BY <2>1, SymptomIsSo
    <2>3. RecoverySeen = "true" /\ Answered(RecoveryFooledBy) => WholeRecovery = "true"
      BY <2>1, RecoveryIsSo
    <2>4. SymptomSeen = "none" /\ Answered(SymptomLeftOpenBy) => WholeSymptom # "false"
      BY <2>1, SymptomIsOpen
    <2>5. RecoverySeen = "none" /\ Answered(RecoveryLeftOpenBy) => WholeRecovery # "false"
      BY <2>1, RecoveryIsOpen
    <2>6. /\ verdict.symptom = "true" => SymptomSeen = "true"
          /\ verdict.recovered = "true" => RecoverySeen = "true"
          /\ verdict.gate = "passed" => SymptomSeen # "false" /\ RecoverySeen # "false"
      BY DEF GateInv, JudgedInv
    <2>7. QED BY <2>1, <2>2, <2>3, <2>4, <2>5, <2>6 DEF LossNeverPasses, Verdicts
  <1>2. QED BY <1>1, GateInvInductive, PTL DEF GateSpec

\* judge_symptom() says yes of no target that is the same, and quiet, before and
\* during the injection, whichever queries failed but those of TakenForSilence.
THEOREM QuietIsNoCard ==
  ASSUME InHalfMinutes
  PROVE  GateSpec => []QuietHasNoSymptom
  <1>1. GateInv => QuietHasNoSymptom
    <2> SUFFICES ASSUME GateInv, Quiet("base"), truth["during"] = truth["base"], Answered(TakenForSilence)
                 PROVE  verdict.symptom # "true"
      BY DEF QuietHasNoSymptom
    <2>1. SymptomSeen # "true"
      BY NothingNoSymptom DEF GateInv
    <2>2. QED BY <2>1 DEF GateInv, JudgedInv
  <1>2. QED BY <1>1, GateInvInductive, PTL DEF GateSpec

\* judge_recovered() says yes of no fault that goes on through a recovery window
\* as long as the injection or longer, whichever queries failed but those of
\* RecoveryFooledBy, and probe_gate() passes none, but for RecoveryLeftOpenBy.
THEOREM OngoingIsNoCard ==
  ASSUME InHalfMinutes
  PROVE  GateSpec => []OngoingIsNotRecovered
  <1>1. GateInv => OngoingIsNotRecovered
    <2> SUFFICES ASSUME GateInv, Growth(Complete("base")) = 0, WholeSymptom = "true",
                        truth["after"] = truth["during"], seconds["after"] >= seconds["during"],
                        Answered(RecoveryFooledBy)
                 PROVE  /\ verdict.recovered # "true"
                        /\ Answered(RecoveryLeftOpenBy) => verdict.gate # "passed"
      BY DEF OngoingIsNotRecovered
    <2>1. GateTypeInv /\ RecoverySeen \in Verdicts
      BY JudgesSay DEF GateInv
    <2>2. WholeRecovery = "false"
      BY <2>1, OngoingNotBack
    <2>3. RecoverySeen # "true"
      BY <2>1, <2>2, RecoveryIsSo
    <2>4. Answered(RecoveryLeftOpenBy) => RecoverySeen = "false"
      BY <2>1, <2>2, <2>3, RecoveryIsOpen DEF Verdicts
    <2>5. QED BY <2>3, <2>4 DEF GateInv, JudgedInv
  <1>2. QED BY <1>1, GateInvInductive, PTL DEF GateSpec

=============================================================================
