------------------------------ MODULE RunLedger ------------------------------
(****************************************************************************)
(* What the queue of service/app promises its callers, without requests,    *)
(* workers, clocks or files: a run is accepted once under its idempotency   *)
(* key, is started and perhaps given back, and lands for good.              *)
(****************************************************************************)
CONSTANTS Runs, Keys, Bodies, Null

VARIABLES phase,     \* runs.status
          owner      \* the key and the body a run was accepted for

ledgerVars == <<phase, owner>>

Nobody == [key |-> Null, body |-> Null]

LedgerInit ==
    /\ phase = [r \in Runs |-> "absent"]
    /\ owner = [r \in Runs |-> Nobody]

Accept(r, k, b) ==
    /\ phase[r] = "absent"
    /\ k # Null => \A s \in Runs : phase[s] # "absent" => owner[s].key # k
    /\ phase' = [phase EXCEPT ![r] = "queued"]
    /\ owner' = [owner EXCEPT ![r] = [key |-> k, body |-> b]]

Start(r) ==
    /\ phase[r] = "queued"
    /\ phase' = [phase EXCEPT ![r] = "running"]
    /\ UNCHANGED owner

\* One sweep gives back any number of runs.
GiveBack(S) ==
    /\ \A r \in S : phase[r] = "running"
    /\ phase' = [r \in Runs |-> IF r \in S THEN "queued" ELSE phase[r]]
    /\ UNCHANGED owner

Land(r, outcome) ==
    /\ phase[r] = "running"
    /\ phase' = [phase EXCEPT ![r] = outcome]
    /\ UNCHANGED owner

LedgerNext ==
    \/ \E r \in Runs, k \in Keys \cup {Null}, b \in Bodies : Accept(r, k, b)
    \/ \E r \in Runs : Start(r)
    \/ \E S \in SUBSET Runs : GiveBack(S)
    \/ \E r \in Runs, outcome \in {"succeeded", "failed"} : Land(r, outcome)

LedgerSpec == LedgerInit /\ [][LedgerNext]_ledgerVars
=============================================================================
