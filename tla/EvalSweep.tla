------------------------------ MODULE EvalSweep ------------------------------
(****************************************************************************)
(* main() of scripts/harness/run_eval.py: the agent over a list of cards,   *)
(* one run_card() after the other, each result written to its own file and  *)
(* a report over all of them at the end.                                    *)
(****************************************************************************)
EXTENDS AgentLoop

CONSTANT NumCards      \* the card list is 1..NumCards, in the order it is run

ASSUME SweepAssumption == NumCards \in Nat

VARIABLES
    sweep,     \* how far main() is
    rows,      \* one per card so far, for the report
    written,   \* <runs-root>/<run-id>/<card>.json of this run
    billed     \* what the cards before the current one were charged; history

sweepVars == <<loop, paid, sweep, rows, written, billed>>

Rows == [card : 1..NumCards, terminated : Endings \cup {"refused"}, cost : Nat]

SweepTypeOK ==
    /\ LoopTypeOK
    /\ sweep \in {"next", "card", "reported", "died"}
    /\ rows \in Seq(Rows)
    /\ written \subseteq 1..NumCards
    /\ billed \in Nat

SweepInit ==
    /\ LoopInit
    /\ sweep = "next" /\ rows = <<>> /\ written = {} /\ billed = 0

Card == Len(rows) + 1

Row(terminated, cost) == [card |-> Card, terminated |-> terminated, cost |-> cost]

StartCard ==
    /\ sweep = "next" /\ Card <= NumCards
    /\ sweep' = "card"
    /\ UNCHANGED <<loop, paid, rows, written, billed>>

RefuseUntold ==
    /\ sweep = "next" /\ Card <= NumCards
    /\ rows' = Append(rows, Row("", 0))
    /\ UNCHANGED <<loop, paid, sweep, written, billed>>

\* The pack is missing or leak_check raises, before the first request: the row
\* keeps the error and the sweep goes on.
RefuseCard ==
    /\ sweep = "next" /\ Card <= NumCards
    /\ rows' = Append(rows, Row("refused", 0))
    /\ UNCHANGED <<loop, paid, sweep, written, billed>>

RunCard ==
    /\ sweep = "card" /\ Turn
    /\ UNCHANGED <<sweep, rows, written, billed>>

\* The next card begins with a loop of its own.
CardOver(row) ==
    /\ sweep = "card" /\ loop.pc = "done"
    /\ sweep' = "next" /\ rows' = Append(rows, row)
    /\ billed' = billed + paid
    /\ loop' = FreshLoop(loop.priced) /\ paid' = 0

RaisedIsRunAgain ==
    /\ loop.terminated = "raised"
    /\ sweep = "card" /\ loop.pc = "done"
    /\ sweep' = "next" /\ billed' = billed + paid
    /\ loop' = FreshLoop(loop.priced) /\ paid' = 0
    /\ UNCHANGED <<rows, written>>

CardRaised ==
    /\ loop.terminated = "raised"
    /\ CardOver(Row("raised", 0))
    /\ UNCHANGED written

WrittenIfSubmitted ==
    /\ loop.terminated # "raised"
    /\ CardOver(Row(loop.terminated, loop.cost))
    /\ written' = IF loop.terminated = "submit" THEN written \cup {Card} ELSE written

CardReturned ==
    /\ loop.terminated # "raised"
    /\ CardOver(Row(loop.terminated, loop.cost))
    /\ written' = written \cup {Card}

\* Outside the try: ground_truth() of a card that is not there, write_result()
\* on a full disk, the files of the report.  The sweep ends unreported.
Die ==
    /\ \/ sweep = "next"
       \/ sweep = "card" /\ loop.pc = "done" /\ loop.terminated # "raised"
    /\ sweep' = "died"
    /\ UNCHANGED <<loop, paid, rows, written, billed>>

Report ==
    /\ sweep = "next" /\ Card > NumCards
    /\ sweep' = "reported"
    /\ UNCHANGED <<loop, paid, rows, written, billed>>

SweepOver == sweep \in {"reported", "died"} /\ UNCHANGED sweepVars

SweepNext ==
    \/ StartCard \/ RefuseCard \/ RunCard \/ CardRaised \/ CardReturned
    \/ Die \/ Report \/ SweepOver

SweepSpec == SweepInit /\ [][SweepNext]_sweepVars

(* ------------------------------ properties ----------------------------- *)

\* What a sweep may really cost: every card up to the cap and less than one
\* call beyond it, whatever the replies, the refused and the raised cards do.
SweepCostBound ==
    billed + paid <= NumCards * (CostCap + MaxCallCost - 1)

SumOfCosts == SumFunction([i \in 1..Len(rows) |-> rows[i].cost])

\* A report covers every card once, in order, a card that failed in between
\* included, and rests on the files on disk; with a priced model its total is
\* what the sweep was charged.
ReportTellsAll ==
    sweep = "reported" =>
      /\ Len(rows) = NumCards
      /\ \A i \in 1..NumCards :
           /\ rows[i].card = i
           /\ i \in written <=> rows[i].terminated \notin {"refused", "raised"}
      /\ loop.priced => SumOfCosts = billed

=============================================================================
