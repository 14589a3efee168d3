------------------------------ MODULE AgentLoop ------------------------------
(****************************************************************************)
(* run_card() of scripts/agent/run_agent.py: the function-calling loop that *)
(* diagnoses one card, with its five guards.                                *)
(*                                                                          *)
(* The model is free: a reply calls any sequence of tools, well or badly,   *)
(* and costs anything up to MaxCallCost.  A tool call is known by the step  *)
(* and the position of its tool_use block.  The local variables of one call *)
(* of run_card() are the fields of the record `loop`.                       *)
(****************************************************************************)
EXTENDS Integers, Sequences, FiniteSets, SequencesExt

CONSTANTS
    Null,
    MaxSteps,      \* config.yaml run.max_steps
    CostCap,       \* run.max_usd_per_card
    ToolRetries,   \* run.tool_retries
    MaxNudges,     \* MAX_NUDGES
    MaxCallCost,   \* what one response may cost at most
    MaxBlocks      \* bound: tool_use blocks in one response

ASSUME LoopAssumption ==
    /\ MaxSteps \in Nat /\ ToolRetries \in Nat /\ MaxNudges \in Nat
    /\ MaxCallCost \in Nat /\ MaxBlocks \in Nat
    /\ CostCap \in Nat \ {0}

VARIABLES
    loop,    \* the local variables of run_card()
    paid     \* what the API has charged this card; no action reads it

loopVars == <<loop, paid>>

(* ------------------------------- types --------------------------------- *)

\* A tool_use block: a submit or a read tool, with good or bad parameters.
Blocks   == {"submit", "bad_submit", "read", "bad_read"}
Outcomes == {"ok", "rejected", "error"}

BlockIds == (1..MaxSteps) \X (1..MaxBlocks)

\* tool_result: which block it answers and how the call went.
ToolResults == [use : BlockIds, outcome : Outcomes]

Messages ==
    [kind : {"prompt", "nudge"}, body : {<<>>}]
      \cup [kind : {"reply"},   body : Seq(Blocks)]
      \cup [kind : {"results"}, body : Seq(ToolResults)]

Prompt == [kind |-> "prompt", body |-> <<>>]

Endings == {"submit", "max_steps", "api_error", "cost_cap", "no_submit", "raised"}

ASSUME NullApart == Null \notin Endings /\ Null \notin BlockIds

Loops ==
    [pc         : {"call", "blocks", "tool", "after", "done"},
     messages   : Seq(Messages),
     at         : Nat \ {0},              \* block of the reply being handled
     attempt    : 0..ToolRetries,
     results    : Seq(ToolResults),       \* tool_results of this step, unsent
     answer     : BlockIds \cup {Null},   \* the submit that was accepted
     terminated : Endings \cup {Null},
     steps      : 0..MaxSteps,
     priced     : BOOLEAN,                \* the model is listed in prices.yaml
     cost       : Nat,
     tool_calls : Nat, validation_rejects : Nat, tool_retries : Nat, nudges : Nat]

FreshLoop(priced) ==
    [pc |-> "call", priced |-> priced, messages |-> <<Prompt>>, at |-> 1, attempt |-> 0,
     results |-> <<>>, answer |-> Null, terminated |-> Null, steps |-> 0, cost |-> 0,
     tool_calls |-> 0, validation_rejects |-> 0, tool_retries |-> 0, nudges |-> 0]

LoopTypeOK == loop \in Loops /\ paid \in Nat

LoopInit == (\E priced \in BOOLEAN : loop = FreshLoop(priced)) /\ paid = 0

(* ---------------------------- one model call --------------------------- *)

\* The result is priced once more on the way out, which raises for a model that
\* prices.yaml does not list.
Terminate(why) ==
    loop' = [loop EXCEPT !.pc = "done",
                         !.terminated = IF loop.priced THEN why ELSE "raised"]

MaxStepsReached ==
    /\ loop.pc = "call" /\ loop.steps >= MaxSteps
    /\ Terminate("max_steps")
    /\ UNCHANGED paid

\* The SDK's own retries (api_max_retries) are inside this one call.
ApiError ==
    /\ loop.pc = "call" /\ loop.steps < MaxSteps
    /\ Terminate("api_error")
    /\ UNCHANGED paid

Replies == UNION {[1..n -> Blocks] : n \in 0..MaxBlocks}

\* price_usd() raises for such a model, after the response is paid.
Respond ==
    /\ loop.pc = "call" /\ loop.steps < MaxSteps
    /\ \E reply \in Replies, c \in 0..MaxCallCost :
         /\ paid' = paid + c
         /\ IF loop.priced
              THEN loop' = [loop EXCEPT
                     !.pc = "blocks", !.at = 1, !.steps = @ + 1, !.cost = @ + c,
                     !.messages = Append(@, [kind |-> "reply", body |-> reply])]
              ELSE Terminate("raised")

(* ------------------------- the blocks of a reply ----------------------- *)

Reply == loop.messages[Len(loop.messages)].body

ThisBlock == <<loop.steps, loop.at>>

Handling(block) ==
    loop.pc = "blocks" /\ loop.at <= Len(Reply) /\ Reply[loop.at] = block

Result(outcome) == [use |-> ThisBlock, outcome |-> outcome]

RejectSubmitUnanswered ==
    /\ Handling("bad_submit")
    /\ loop' = [loop EXCEPT
         !.tool_calls = @ + 1, !.validation_rejects = @ + 1, !.at = @ + 1]
    /\ UNCHANGED paid

\* A submit with an answer outside the enums is fed back, not executed.
RejectSubmit ==
    /\ Handling("bad_submit")
    /\ loop' = [loop EXCEPT
         !.tool_calls = @ + 1, !.validation_rejects = @ + 1, !.at = @ + 1,
         !.results = Append(@, Result("rejected"))]
    /\ UNCHANGED paid

\* A good one ends the loop; the blocks after it are not looked at.
AcceptSubmit ==
    /\ Handling("submit")
    /\ loop' = [loop EXCEPT
         !.tool_calls = @ + 1, !.answer = ThisBlock, !.terminated = "submit",
         !.pc = "after"]
    /\ UNCHANGED paid

CallTool ==
    /\ Handling("read") \/ Handling("bad_read")
    /\ loop' = [loop EXCEPT !.pc = "tool", !.tool_calls = @ + 1, !.attempt = 0]
    /\ UNCHANGED paid

\* The call is over: its result is queued and the next block is next.
Answered(outcome) ==
    [loop EXCEPT !.pc = "blocks", !.at = @ + 1,
                 !.results = Append(@, Result(outcome))]

ToolAnswers ==
    /\ loop.pc = "tool" /\ Reply[loop.at] = "read"
    /\ loop' = Answered("ok")
    /\ UNCHANGED paid

ToolRejectsUncounted ==
    /\ loop.pc = "tool" /\ Reply[loop.at] = "bad_read"
    /\ loop' = Answered("rejected")
    /\ UNCHANGED paid

\* ToolError: the model's mistake, not retried.
ToolRejects ==
    /\ loop.pc = "tool" /\ Reply[loop.at] = "bad_read"
    /\ loop' = [Answered("rejected") EXCEPT !.validation_rejects = @ + 1]
    /\ UNCHANGED paid

\* Any other exception: tried again, tool_retries times.
MayRetry == loop.attempt < ToolRetries

ToolThrows ==
    /\ loop.pc = "tool" /\ Reply[loop.at] = "read"
    /\ loop' = IF MayRetry
                 THEN [loop EXCEPT !.attempt = @ + 1, !.tool_retries = @ + 1]
                 ELSE Answered("error")
    /\ UNCHANGED paid

BlocksDone ==
    /\ loop.pc = "blocks" /\ loop.at > Len(Reply)
    /\ loop' = [loop EXCEPT !.pc = "after"]
    /\ UNCHANGED paid

(* --------------------------- after the blocks -------------------------- *)

Submitted ==
    /\ loop.pc = "after" /\ loop.terminated = "submit"
    /\ Terminate("submit")
    /\ UNCHANGED paid

CapBeforeSubmit ==
    /\ loop.pc = "after" /\ loop.cost >= CostCap
    /\ Terminate("cost_cap")
    /\ UNCHANGED paid

CapReached ==
    /\ loop.pc = "after" /\ loop.terminated = Null
    /\ loop.cost >= CostCap
    /\ Terminate("cost_cap")
    /\ UNCHANGED paid

GoesOnAtCap == loop.pc = "after" /\ loop.terminated = Null /\ loop.cost <= CostCap
GoesOn == loop.pc = "after" /\ loop.terminated = Null /\ loop.cost < CostCap

SendResults ==
    /\ GoesOn /\ loop.results # <<>>
    /\ loop' = [loop EXCEPT
         !.pc = "call", !.results = <<>>,
         !.messages = Append(@, [kind |-> "results", body |-> loop.results])]
    /\ UNCHANGED paid

\* The reply called no tool.
GiveUp ==
    /\ GoesOn /\ loop.results = <<>> /\ loop.nudges >= MaxNudges
    /\ Terminate("no_submit")
    /\ UNCHANGED paid

Nudge ==
    /\ GoesOn /\ loop.results = <<>> /\ loop.nudges < MaxNudges
    /\ loop' = [loop EXCEPT
         !.pc = "call", !.nudges = @ + 1,
         !.messages = Append(@, [kind |-> "nudge", body |-> <<>>])]
    /\ UNCHANGED paid

Turn ==
    \/ MaxStepsReached \/ ApiError \/ Respond
    \/ RejectSubmit \/ AcceptSubmit
    \/ CallTool \/ ToolAnswers \/ ToolRejects \/ ToolThrows \/ BlocksDone
    \/ Submitted \/ CapReached \/ SendResults \/ GiveUp \/ Nudge

\* run_card() has returned.
Returned == loop.pc = "done" /\ UNCHANGED loopVars

LoopSpec == LoopInit /\ [][Turn \/ Returned]_loopVars

(* ------------------------------ properties ----------------------------- *)

\* Every request the loop sends is one the API accepts: replies alternate with
\* user turns, and each tool_use of a reply, whether it was executed, rejected,
\* retried or failed, is answered once, in order, before the model is asked again.
RequestsWellFormed ==
    loop.pc = "call" =>
      /\ Len(loop.messages) = 2 * loop.steps + 1
      /\ \A s \in 1..loop.steps :
           LET reply  == loop.messages[2 * s]
               answer == loop.messages[2 * s + 1]
           IN  /\ reply.kind = "reply"
               /\ IF reply.body = <<>>
                    THEN answer.kind = "nudge"
                    ELSE /\ answer.kind = "results"
                         /\ Len(answer.body) = Len(reply.body)
                         /\ \A i \in 1..Len(reply.body) : answer.body[i].use = <<s, i>>

\* The valid submits among the replies paid for.
Submits ==
    {b \in (1..loop.steps) \X (1..MaxBlocks) :
       LET reply == loop.messages[2 * b[1]].body
       IN  b[2] <= Len(reply) /\ reply[b[2]] = "submit"}

Precedes(b, c) == b[1] < c[1] \/ (b[1] = c[1] /\ b[2] <= c[2])

\* No guard throws away an answer that was paid for: when run_card() returns,
\* the answer is the first valid submit of the conversation if there is one,
\* even in the reply that exhausts the steps or the budget.
FirstSubmitIsTheAnswer ==
    loop.pc = "done" =>
      /\ loop.terminated = "submit" <=> Submits # {}
      /\ loop.answer = Null <=> Submits = {}
      /\ loop.answer # Null =>
           loop.answer \in Submits /\ \A b \in Submits : Precedes(loop.answer, b)

ResultTurns == {i \in DOMAIN loop.messages : loop.messages[i].kind = "results"}

ResultsSoFar ==
    ToSet(loop.results) \cup UNION {ToSet(loop.messages[i].body) : i \in ResultTurns}

With(outcome) == {r \in ResultsSoFar : r.outcome = outcome}

\* "5 guards, each recorded per run" (README): the counters of the result say
\* what the conversation shows happened, also for the last, unsent results.
GuardsRecorded ==
    /\ loop.validation_rejects = Cardinality(With("rejected"))
    /\ loop.tool_calls = Cardinality(ResultsSoFar)
         + (IF loop.answer # Null THEN 1 ELSE 0) + (IF loop.pc = "tool" THEN 1 ELSE 0)
    /\ loop.tool_retries >= ToolRetries * Cardinality(With("error"))
    /\ loop.tool_retries <= ToolRetries * loop.tool_calls
    /\ loop.nudges = Cardinality({i \in DOMAIN loop.messages : loop.messages[i].kind = "nudge"})

\* The breaker: no request is sent once the card has cost CostCap, so it costs
\* less than one call more than that, and the result says what it really cost.
CostCapHolds ==
    /\ loop.pc = "call" => loop.cost < CostCap
    /\ paid < CostCap + MaxCallCost
    /\ loop.terminated # "raised" => loop.cost = paid

=============================================================================
