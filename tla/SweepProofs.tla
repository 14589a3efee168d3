----------------------------- MODULE SweepProofs -----------------------------
(****************************************************************************)
(* Proofs about AgentLoop and EvalSweep for every number of cards, steps,   *)
(* blocks, retries and nudges, and every cap and price.                     *)
(****************************************************************************)
EXTENDS EvalSweep, SequenceTheorems, FiniteSetTheorems, SumLemmas, TLAPS

(* ----------------------- the inductive invariant ----------------------- *)

ReplyAt(l, s) == l.messages[2 * s].body

\* The first n replies are answered block by block, or by a nudge.
Exchanged(l, n) ==
    \A s \in 1..n :
      LET reply  == l.messages[2 * s]
          answer == l.messages[2 * s + 1]
      IN  /\ reply.kind = "reply"
          /\ IF reply.body = <<>>
               THEN answer.kind = "nudge"
               ELSE /\ answer.kind = "results"
                    /\ Len(answer.body) = Len(reply.body)
                    /\ \A i \in 1..Len(reply.body) : answer.body[i].use = <<s, i>>

\* None of the first n replies holds a valid submit.
Unsubmitted(l, n) ==
    \A s \in 1..n : \A i \in 1..Len(ReplyAt(l, s)) : ReplyAt(l, s)[i] # "submit"

\* Before the next request.
Between(l) ==
    /\ Len(l.messages) = 2 * l.steps + 1
    /\ l.results = <<>> /\ l.answer = Null /\ l.terminated = Null
    /\ Exchanged(l, l.steps) /\ Unsubmitted(l, l.steps)

\* A reply is in hand, no block of which before `at` is a submit.
Holds(l) ==
    /\ l.steps >= 1 /\ Len(l.messages) = 2 * l.steps
    /\ l.messages[2 * l.steps].kind = "reply"
    /\ Len(ReplyAt(l, l.steps)) <= MaxBlocks
    /\ l.at <= Len(ReplyAt(l, l.steps)) + 1
    /\ Exchanged(l, l.steps - 1) /\ Unsubmitted(l, l.steps - 1)
    /\ \A i \in 1..(l.at - 1) : ReplyAt(l, l.steps)[i] # "submit"

\* The blocks before `at` have their results.
Unanswered(l) ==
    /\ Holds(l) /\ l.answer = Null /\ l.terminated = Null
    /\ Len(l.results) = l.at - 1
    /\ \A i \in 1..Len(l.results) : l.results[i].use = <<l.steps, i>>

Accepted(l) ==
    /\ Holds(l) /\ l.terminated = "submit" /\ l.answer = <<l.steps, l.at>>
    /\ l.at <= Len(ReplyAt(l, l.steps)) /\ ReplyAt(l, l.steps)[l.at] = "submit"

Talk(l) ==
    /\ l.pc = "call"   => Between(l)
    /\ l.pc = "blocks" => Unanswered(l)
    /\ l.pc = "tool"   => /\ Unanswered(l) /\ l.at <= Len(ReplyAt(l, l.steps))
                          /\ ReplyAt(l, l.steps)[l.at] # "submit"
    /\ l.pc = "after"  => \/ Unanswered(l) /\ l.at = Len(ReplyAt(l, l.steps)) + 1
                          \/ Accepted(l)
    /\ l.pc = "done"   => \/ /\ l.terminated # "submit" /\ l.answer = Null
                             /\ Unsubmitted(l, l.steps)
                          \/ Accepted(l)

\* What is priced is what was charged, and the cap was looked at.
Costs(l, p) ==
    /\ p \in Nat /\ p < CostCap + MaxCallCost
    /\ l.pc = "call" => l.cost < CostCap
    /\ l.pc # "done" \/ l.terminated # "raised" => l.cost = p
    /\ l.pc \in {"blocks", "tool", "after"} => l.priced
    /\ l.pc = "done" => l.terminated \in Endings

Good(l, p) == l \in Loops /\ Talk(l) /\ Costs(l, p)

Most == CostCap + MaxCallCost - 1

SweepInv ==
    /\ Good(loop, paid) /\ SweepTypeOK
    /\ Len(rows) <= NumCards /\ billed <= Len(rows) * Most
    /\ sweep = "next" => loop.pc = "call"
    /\ sweep \in {"next", "reported"} => paid = 0
    /\ sweep = "card" \/ paid > 0 => Len(rows) < NumCards

(* -------------------------------- lemmas ------------------------------- *)

\* A reply is a sequence of blocks.
LEMMA ReplyIsBlocks ==
  ASSUME NEW l \in Loops, Holds(l)
  PROVE  /\ ReplyAt(l, l.steps) \in Seq(Blocks)
         /\ Len(ReplyAt(l, l.steps)) \in Nat
         /\ l.messages \in Seq(Messages) /\ l.steps \in 1..MaxSteps
         /\ l.at \in Nat \ {0}
         /\ l.at <= Len(ReplyAt(l, l.steps)) => <<l.steps, l.at>> \in BlockIds
  <1>1. l.messages \in Seq(Messages) /\ l.steps \in 0..MaxSteps /\ l.at \in Nat \ {0}
    BY DEF Loops
  <1>2. l.steps \in 1..MaxSteps /\ 2 * l.steps \in 1..Len(l.messages)
    BY <1>1, LoopAssumption DEF Holds
  <1>3. l.messages[2 * l.steps] \in Messages
    BY <1>1, <1>2, ElementOfSeq
  <1>4. ReplyAt(l, l.steps) \in Seq(Blocks)
    BY <1>3 DEF Holds, Messages, ReplyAt
  <1>5. Len(ReplyAt(l, l.steps)) \in Nat
    BY <1>4, LenProperties
  <1>6. l.at <= Len(ReplyAt(l, l.steps)) => <<l.steps, l.at>> \in BlockIds
    BY <1>1, <1>2, <1>5, LoopAssumption DEF Holds, BlockIds
  <1>7. QED BY <1>1, <1>2, <1>4, <1>5, <1>6

\* What is said stays said.
LEMMA SaidStays ==
  ASSUME NEW l, NEW t, NEW n \in Nat,
         \A i \in 1..(2 * n + 1) : t.messages[i] = l.messages[i]
  PROVE  /\ Exchanged(l, n) => Exchanged(t, n)
         /\ Unsubmitted(l, n) => Unsubmitted(t, n)
  <1>1. \A s \in 1..n : t.messages[2 * s] = l.messages[2 * s]
                        /\ t.messages[2 * s + 1] = l.messages[2 * s + 1]
    <2> TAKE s \in 1..n
    <2>1. 2 * s \in 1..(2 * n + 1) /\ 2 * s + 1 \in 1..(2 * n + 1)
      OBVIOUS
    <2>2. QED BY <2>1
  <1>2. Exchanged(l, n) => Exchanged(t, n)
    BY <1>1 DEF Exchanged
  <1>3. Unsubmitted(l, n) => Unsubmitted(t, n)
    BY <1>1 DEF Unsubmitted, ReplyAt
  <1>4. QED BY <1>2, <1>3

\* A step that adds no message and no step.
LEMMA HoldsStays ==
  ASSUME NEW l, NEW t, Holds(l), l.steps \in Nat,
         t.messages = l.messages, t.steps = l.steps,
         t.at <= Len(ReplyAt(l, l.steps)) + 1,
         \A i \in 1..(t.at - 1) : ReplyAt(l, l.steps)[i] # "submit"
  PROVE  Holds(t) /\ ReplyAt(t, t.steps) = ReplyAt(l, l.steps)
  <1>1. l.steps - 1 \in Nat
    BY DEF Holds
  <1>2. Exchanged(t, l.steps - 1) /\ Unsubmitted(t, l.steps - 1)
    BY <1>1, SaidStays DEF Holds
  <1>3. QED BY <1>2 DEF Holds, ReplyAt

\* run_card() returns.
LEMMA TerminateGood ==
  ASSUME NEW l, NEW p, Good(l, p), l.pc # "done", NEW why \in Endings, NEW q \in Nat,
         q < CostCap + MaxCallCost,
         IF l.priced THEN q = p ELSE q >= p,
         IF why = "submit" THEN Accepted(l) ELSE l.answer = Null /\ Unsubmitted(l, l.steps)
  PROVE  Good([l EXCEPT !.pc = "done",
                        !.terminated = IF l.priced THEN why ELSE "raised"], q)
  <1> DEFINE t == [l EXCEPT !.pc = "done",
                            !.terminated = IF l.priced THEN why ELSE "raised"]
  <1>1. /\ t \in Loops /\ t.pc = "done" /\ t.messages = l.messages /\ t.steps = l.steps
        /\ t.answer = l.answer /\ t.at = l.at /\ t.cost = l.cost
        /\ t.terminated = (IF l.priced THEN why ELSE "raised") /\ t.terminated \in Endings
    BY DEF Good, Loops, Endings
  <1>2. l.steps \in Nat /\ l.at \in Nat /\ l.priced \in BOOLEAN
    BY LoopAssumption DEF Good, Loops
  <1> HIDE DEF t
  <1>3. Costs(t, q)
    BY <1>1, <1>2 DEF Good, Costs
  <1>4. Unsubmitted(l, l.steps) => Unsubmitted(t, t.steps)
    BY <1>1 DEF Unsubmitted, ReplyAt
  <1>5. Accepted(l) => l.priced
    BY NullApart DEF Good, Talk, Between, Unanswered, Accepted, Costs, Loops, Endings
  <1>6. Accepted(l) /\ l.priced /\ why = "submit" => Accepted(t)
    <2> SUFFICES ASSUME Accepted(l), l.priced, why = "submit" PROVE Accepted(t)
      OBVIOUS
    <2>1. Holds(t) /\ ReplyAt(t, t.steps) = ReplyAt(l, l.steps)
      BY <1>1, <1>2, HoldsStays DEF Accepted, Holds
    <2>2. QED BY <1>1, <2>1 DEF Accepted
  <1>7. Talk(t)
    BY <1>1, <1>4, <1>5, <1>6 DEF Talk
  <1>8. QED BY <1>1, <1>3, <1>7 DEF Good, t

(* --------------------------- the steps of a card ----------------------- *)

\* A reply is asked for, or the loop ends without one.
LEMMA AskGood ==
  ASSUME Good(loop, paid), MaxStepsReached \/ ApiError \/ Respond
  PROVE  Good(loop, paid)'
  <1>1. PICK l : l = loop
    OBVIOUS
  <1>2. PICK p : p = paid
    OBVIOUS
  <1>3. /\ Good(l, p) /\ l \in Loops /\ l.pc = "call" /\ l.pc # "done" /\ Between(l)
        /\ l.cost = p /\ p \in Nat /\ p < CostCap
    BY <1>1, <1>2 DEF Good, Talk, Costs, MaxStepsReached, ApiError, Respond
  <1>4. l.answer = Null /\ Unsubmitted(l, l.steps) /\ p < CostCap + MaxCallCost
    BY <1>3, LoopAssumption DEF Between
  <1>5. ASSUME NEW why \in {"max_steps", "api_error", "raised"},
               NEW q \in Nat, q < CostCap + MaxCallCost, Terminate(why), paid' = q,
               IF l.priced THEN q = p ELSE q >= p
        PROVE  Good(loop, paid)'
    <2>1. why \in Endings /\ why # "submit"
      BY DEF Endings
    <2>2. Good([l EXCEPT !.pc = "done",
                  !.terminated = IF l.priced THEN why ELSE "raised"], q)
      BY <1>3, <1>4, <1>5, <2>1, TerminateGood
    <2>3. QED BY <1>1, <1>5, <2>2 DEF Terminate, Good, Talk, Costs
  <1>6. CASE MaxStepsReached
    BY <1>2, <1>3, <1>4, <1>5, <1>6 DEF MaxStepsReached
  <1>7. CASE ApiError
    BY <1>2, <1>3, <1>4, <1>5, <1>7 DEF ApiError
  <1>8. CASE Respond
    <2>1. PICK reply \in Replies, c \in 0..MaxCallCost :
            /\ paid' = p + c
            /\ IF l.priced
                 THEN loop' = [l EXCEPT
                        !.pc = "blocks", !.at = 1, !.steps = @ + 1, !.cost = @ + c,
                        !.messages = Append(@, [kind |-> "reply", body |-> reply])]
                 ELSE Terminate("raised")
      BY <1>1, <1>2, <1>8 DEF Respond
    <2>2. p + c \in Nat /\ p + c < CostCap + MaxCallCost /\ p + c >= p /\ l.steps < MaxSteps
      <3>1. l.steps < MaxSteps /\ MaxCallCost \in Nat /\ CostCap \in Nat
        BY <1>1, <1>8, LoopAssumption DEF Respond
      <3>2. QED BY <1>3, <3>1
    <2>3. CASE ~l.priced
      BY <1>5, <2>1, <2>2, <2>3
    <2>4. CASE l.priced
      <3> DEFINE m == [kind |-> "reply", body |-> reply]
                 t == [l EXCEPT !.pc = "blocks", !.at = 1, !.steps = @ + 1,
                                !.cost = @ + c, !.messages = Append(@, m)]
      <3>1. reply \in Seq(Blocks) /\ Len(reply) \in 0..MaxBlocks
        BY LoopAssumption DEF Replies
      <3>2. m \in Messages /\ m.kind = "reply" /\ m.body = reply
        BY <3>1 DEF Messages
      <3> HIDE DEF m
      <3>3. Append(l.messages, m) \in Seq(Messages)
        BY <1>3, <3>2 DEF Loops
      <3>4. /\ t \in Loops /\ t.pc = "blocks" /\ t.at = 1 /\ t.steps = l.steps + 1
            /\ t.cost = l.cost + c /\ t.messages = Append(l.messages, m)
            /\ t.results = l.results /\ t.answer = l.answer
            /\ t.terminated = l.terminated /\ t.priced = l.priced
        <4>1. l.steps + 1 \in 0..MaxSteps /\ l.cost + c \in Nat
          BY <1>3, <2>2, LoopAssumption DEF Loops
        <4>2. 1 \in Nat \ {0} /\ "blocks" \in {"call", "blocks", "tool", "after", "done"}
          OBVIOUS
        <4>3. QED BY <1>3, <3>3, <4>1, <4>2 DEF Loops
      <3>5. loop' = t
        BY <2>1, <2>4 DEF m
      <3> HIDE DEF t
      <3>6. l.messages \in Seq(Messages) /\ l.steps \in Nat /\ Len(l.messages) = 2 * l.steps + 1
        BY <1>3, LoopAssumption DEF Loops, Between
      <3>7. /\ Len(t.messages) = 2 * t.steps /\ t.messages[2 * t.steps] = m
            /\ \A i \in 1..(2 * l.steps + 1) : t.messages[i] = l.messages[i]
        <4>1. 2 * t.steps = Len(l.messages) + 1
          BY <3>4, <3>6
        <4>2. QED BY <3>2, <3>4, <3>6, <4>1
      <3>8. Exchanged(t, l.steps) /\ Unsubmitted(t, l.steps)
        BY <1>3, <3>6, <3>7, SaidStays DEF Between
      <3>9. Holds(t)
        <4>1. t.steps - 1 = l.steps /\ t.steps >= 1 /\ t.at - 1 = 0
          BY <3>4, <3>6
        <4>2. ReplyAt(t, t.steps) = reply /\ t.messages[2 * t.steps].kind = "reply"
          BY <3>2, <3>7 DEF ReplyAt
        <4>3. QED BY <3>1, <3>4, <3>7, <3>8, <4>1, <4>2 DEF Holds
      <3>10. Unanswered(t)
        BY <1>3, <3>4, <3>9 DEF Unanswered, Between
      <3>11. Talk(t)
        BY <3>4, <3>10 DEF Talk
      <3>12. Costs(t, p + c)
        BY <1>3, <2>2, <2>4, <3>4 DEF Costs
      <3>13. QED BY <2>1, <3>4, <3>5, <3>11, <3>12 DEF Good
    <2>5. QED BY <1>3, <2>3, <2>4 DEF Loops
  <1>9. QED BY <1>6, <1>7, <1>8

\* A block gets its result.
LEMMA AnsweredGood ==
  ASSUME NEW l, NEW p, Good(l, p), l.pc \in {"blocks", "tool"},
         l.at <= Len(ReplyAt(l, l.steps)), ReplyAt(l, l.steps)[l.at] # "submit",
         NEW t \in Loops, NEW outcome \in Outcomes,
         t.pc = "blocks", t.at = l.at + 1, t.steps = l.steps, t.messages = l.messages,
         t.results = Append(l.results, [use |-> <<l.steps, l.at>>, outcome |-> outcome]),
         t.answer = l.answer, t.terminated = l.terminated,
         t.cost = l.cost, t.priced = l.priced
  PROVE  Good(t, p)
  <1>1. l \in Loops /\ Unanswered(l) /\ Holds(l)
    BY DEF Good, Talk, Unanswered
  <1>2. l.results \in Seq(ToolResults) /\ Len(l.results) \in Nat /\ l.at \in Nat \ {0}
        /\ l.steps \in Nat
    BY <1>1, LoopAssumption DEF Loops
  <1>3. <<l.steps, l.at>> \in BlockIds
    BY <1>1, ReplyIsBlocks
  <1> DEFINE r == [use |-> <<l.steps, l.at>>, outcome |-> outcome]
  <1>4. r \in ToolResults /\ r.use = <<l.steps, l.at>>
    BY <1>3 DEF ToolResults
  <1> HIDE DEF r
  <1>5. t.results = Append(l.results, r)
    BY DEF r
  <1>6. /\ Len(t.results) = Len(l.results) + 1
        /\ t.results[Len(l.results) + 1] = r
        /\ \A i \in 1..Len(l.results) : t.results[i] = l.results[i]
    BY <1>2, <1>4, <1>5
  <1>7. Holds(t)
    <2>1. t.at <= Len(ReplyAt(l, l.steps)) + 1 /\ t.at - 1 = l.at
      BY <1>1, <1>2, ReplyIsBlocks
    <2>2. \A i \in 1..(t.at - 1) : ReplyAt(l, l.steps)[i] # "submit"
      BY <1>1, <1>2, <2>1 DEF Holds
    <2>3. QED BY <1>1, <1>2, <2>1, <2>2, HoldsStays
  <1>8. Len(t.results) = t.at - 1 /\ \A i \in 1..Len(t.results) : t.results[i].use = <<t.steps, i>>
    <2>1. Len(l.results) = l.at - 1 /\ \A i \in 1..Len(l.results) : l.results[i].use = <<l.steps, i>>
      BY <1>1 DEF Unanswered
    <2>2. Len(t.results) = l.at /\ t.at - 1 = l.at
      BY <1>2, <1>6, <2>1
    <2>3. ASSUME NEW i \in 1..l.at PROVE t.results[i].use = <<l.steps, i>>
      <3>1. CASE i = l.at
        <4>1. i = Len(l.results) + 1
          BY <1>2, <2>1, <3>1
        <4>2. QED BY <1>4, <1>6, <3>1, <4>1
      <3>2. CASE i # l.at
        <4>1. i \in 1..Len(l.results)
          BY <1>2, <2>1, <3>2
        <4>2. QED BY <1>6, <2>1, <4>1
      <3>3. QED BY <3>1, <3>2
    <2>4. QED BY <2>2, <2>3
  <1>9. Talk(t)
    BY <1>1, <1>7, <1>8 DEF Talk, Unanswered
  <1>10. Costs(t, p)
    BY DEF Good, Costs
  <1>11. QED BY <1>9, <1>10 DEF Good

\* The blocks of a reply, one by one.
LEMMA BlocksGood ==
  ASSUME Good(loop, paid),
         \/ RejectSubmit \/ AcceptSubmit \/ CallTool \/ ToolAnswers \/ ToolRejects
         \/ ToolThrows \/ BlocksDone
  PROVE  Good(loop, paid)'
  <1>1. PICK l : l = loop
    OBVIOUS
  <1>2. PICK p : p = paid
    OBVIOUS
  <1>3. /\ Good(l, p) /\ l \in Loops /\ l.pc \in {"blocks", "tool"} /\ Unanswered(l) /\ Holds(l)
        /\ paid' = p
    BY <1>1, <1>2 DEF Good, Talk, Unanswered, RejectSubmit, AcceptSubmit, CallTool,
       ToolAnswers, ToolRejects, ToolThrows, BlocksDone, Handling
  <1>4. PICK reply : reply = ReplyAt(l, l.steps)
    OBVIOUS
  <1>5. /\ reply \in Seq(Blocks) /\ Len(reply) \in Nat /\ l.at \in Nat \ {0}
        /\ l.steps \in Nat /\ l.attempt \in Nat /\ l.tool_calls \in Nat
        /\ l.validation_rejects \in Nat /\ l.tool_retries \in Nat
        /\ l.at <= Len(reply) => <<l.steps, l.at>> \in BlockIds
        /\ l.at + 1 \in Nat \ {0} /\ l.tool_calls + 1 \in Nat
        /\ l.validation_rejects + 1 \in Nat /\ l.tool_retries + 1 \in Nat
    <2>1. /\ l.steps \in 0..MaxSteps /\ l.attempt \in 0..ToolRetries /\ l.tool_calls \in Nat
          /\ l.validation_rejects \in Nat /\ l.tool_retries \in Nat
      BY <1>3 DEF Loops
    <2>2. /\ reply \in Seq(Blocks) /\ Len(reply) \in Nat /\ l.at \in Nat \ {0}
          /\ l.at <= Len(reply) => <<l.steps, l.at>> \in BlockIds
      BY <1>3, <1>4, ReplyIsBlocks
    <2>3. l.steps \in Nat /\ l.attempt \in Nat /\ l.tool_calls + 1 \in Nat
          /\ l.validation_rejects + 1 \in Nat /\ l.tool_retries + 1 \in Nat
      BY <2>1, LoopAssumption
    <2>4. l.at + 1 \in Nat \ {0}
      BY <2>2
    <2>5. QED BY <2>1, <2>2, <2>3, <2>4
  <1>6. Reply = reply
    BY <1>1, <1>3, <1>4 DEF Reply, ReplyAt, Holds
  <1>7. l.at <= Len(reply) =>
          \A o \in Outcomes : Append(l.results, [use |-> <<l.steps, l.at>>, outcome |-> o]) \in Seq(ToolResults)
    BY <1>3, <1>5 DEF Loops, ToolResults
  <1>8. ASSUME NEW t, loop' = t, Good(t, p) PROVE Good(loop, paid)'
    BY <1>3, <1>8 DEF Good, Talk, Costs
  <1>9. CASE RejectSubmit
    <2> DEFINE t == [l EXCEPT
         !.tool_calls = @ + 1, !.validation_rejects = @ + 1, !.at = @ + 1,
         !.results = Append(@, [use |-> <<l.steps, l.at>>, outcome |-> "rejected"])]
    <2>1. loop' = t /\ l.pc = "blocks" /\ l.at <= Len(reply) /\ reply[l.at] = "bad_submit"
      BY <1>1, <1>6, <1>9 DEF RejectSubmit, Handling, Result, ThisBlock
    <2>2. "rejected" \in Outcomes
      BY DEF Outcomes
    <2>3. /\ t \in Loops /\ t.pc = "blocks" /\ t.at = l.at + 1 /\ t.steps = l.steps
          /\ t.messages = l.messages
          /\ t.results = Append(l.results, [use |-> <<l.steps, l.at>>, outcome |-> "rejected"])
          /\ t.answer = l.answer /\ t.terminated = l.terminated
          /\ t.cost = l.cost /\ t.priced = l.priced
      <3>1. Append(l.results, [use |-> <<l.steps, l.at>>, outcome |-> "rejected"]) \in Seq(ToolResults)
        BY <1>7, <2>1, <2>2
      <3>2. QED BY <1>3, <1>5, <2>1, <3>1 DEF Loops
    <2> HIDE DEF t
    <2>4. Good(t, p)
      BY <1>3, <1>4, <2>1, <2>2, <2>3, AnsweredGood
    <2>5. QED BY <1>8, <2>1, <2>4
  <1>10. CASE AcceptSubmit
    <2> DEFINE t == [l EXCEPT
         !.tool_calls = @ + 1, !.answer = <<l.steps, l.at>>, !.terminated = "submit",
         !.pc = "after"]
    <2>1. loop' = t /\ l.pc = "blocks" /\ l.at <= Len(reply) /\ reply[l.at] = "submit"
      BY <1>1, <1>6, <1>10 DEF AcceptSubmit, Handling, ThisBlock
    <2>2. /\ t \in Loops /\ t.pc = "after" /\ t.at = l.at /\ t.steps = l.steps
          /\ t.messages = l.messages /\ t.answer = <<l.steps, l.at>>
          /\ t.terminated = "submit" /\ t.cost = l.cost /\ t.priced = l.priced
      <3>1. <<l.steps, l.at>> \in BlockIds \cup {Null} /\ "submit" \in Endings \cup {Null}
            /\ "after" \in {"call", "blocks", "tool", "after", "done"}
        BY <1>5, <2>1 DEF Endings
      <3>2. QED BY <1>3, <1>5, <3>1 DEF Loops
    <2> HIDE DEF t
    <2>3. Holds(t) /\ ReplyAt(t, t.steps) = reply
      BY <1>3, <1>4, <1>5, <2>2, HoldsStays DEF Holds
    <2>4. Talk(t)
      BY <2>1, <2>2, <2>3 DEF Talk, Accepted
    <2>5. Costs(t, p)
      BY <1>3, <2>2 DEF Good, Costs
    <2>6. QED BY <1>8, <2>1, <2>2, <2>4, <2>5 DEF Good
  <1>11. CASE CallTool
    <2> DEFINE t == [l EXCEPT !.pc = "tool", !.tool_calls = @ + 1, !.attempt = 0]
    <2>1. loop' = t /\ l.at <= Len(reply) /\ reply[l.at] # "submit"
      BY <1>1, <1>6, <1>11 DEF CallTool, Handling
    <2>2. /\ t \in Loops /\ t.pc = "tool" /\ t.at = l.at /\ t.steps = l.steps
          /\ t.messages = l.messages /\ t.answer = l.answer /\ t.results = l.results
          /\ t.terminated = l.terminated /\ t.cost = l.cost /\ t.priced = l.priced
      <3>1. 0 \in 0..ToolRetries /\ "tool" \in {"call", "blocks", "tool", "after", "done"}
        BY LoopAssumption
      <3>2. QED BY <1>3, <1>5, <3>1 DEF Loops
    <2> HIDE DEF t
    <2>3. Holds(t) /\ ReplyAt(t, t.steps) = reply
      BY <1>3, <1>4, <1>5, <2>2, HoldsStays DEF Holds
    <2>4. Talk(t)
      BY <1>3, <2>1, <2>2, <2>3 DEF Talk, Unanswered
    <2>5. Costs(t, p)
      BY <1>3, <2>2 DEF Good, Costs
    <2>6. QED BY <1>8, <2>1, <2>2, <2>4, <2>5 DEF Good
  <1>12. ASSUME NEW o \in Outcomes, NEW n \in {l.validation_rejects, l.validation_rejects + 1},
               l.pc = "tool",
               loop' = [l EXCEPT !.pc = "blocks", !.at = @ + 1,
                          !.results = Append(@, [use |-> <<l.steps, l.at>>, outcome |-> o]),
                          !.validation_rejects = n]
        PROVE  Good(loop, paid)'
    <2> DEFINE t == [l EXCEPT !.pc = "blocks", !.at = @ + 1,
                       !.results = Append(@, [use |-> <<l.steps, l.at>>, outcome |-> o]),
                       !.validation_rejects = n]
    <2>1. l.at <= Len(reply) /\ reply[l.at] # "submit"
      BY <1>3, <1>4, <1>12 DEF Good, Talk
    <2>2. /\ t \in Loops /\ t.pc = "blocks" /\ t.at = l.at + 1 /\ t.steps = l.steps
          /\ t.messages = l.messages
          /\ t.results = Append(l.results, [use |-> <<l.steps, l.at>>, outcome |-> o])
          /\ t.answer = l.answer /\ t.terminated = l.terminated
          /\ t.cost = l.cost /\ t.priced = l.priced
      <3>1. Append(l.results, [use |-> <<l.steps, l.at>>, outcome |-> o]) \in Seq(ToolResults)
        BY <1>7, <2>1
      <3>2. n \in Nat /\ "blocks" \in {"call", "blocks", "tool", "after", "done"}
        BY <1>5, <1>12
      <3>3. QED BY <1>3, <1>5, <3>1, <3>2 DEF Loops
    <2>3. loop' = t
      BY <1>12
    <2> HIDE DEF t
    <2>4. Good(t, p)
      BY <1>3, <1>4, <2>1, <2>2, AnsweredGood
    <2>5. QED BY <1>8, <2>3, <2>4
  <1>13. ASSUME NEW o \in Outcomes, l.pc = "tool", loop' = Answered(o)
         PROVE  Good(loop, paid)'
    <2>1. Answered(o) = [l EXCEPT !.pc = "blocks", !.at = @ + 1,
                   !.results = Append(@, [use |-> <<l.steps, l.at>>, outcome |-> o])]
      BY <1>1 DEF Answered, Result, ThisBlock
    <2>2. @ = [l EXCEPT !.pc = "blocks", !.at = @ + 1,
                   !.results = Append(@, [use |-> <<l.steps, l.at>>, outcome |-> o]),
                   !.validation_rejects = l.validation_rejects]
      BY <1>3 DEF Loops
    <2>3. QED BY <1>12, <1>13, <2>1, <2>2
  <1>14. CASE ToolAnswers
    BY <1>1, <1>13, <1>14 DEF ToolAnswers, Outcomes
  <1>15. CASE ToolRejects
    <2>1. loop' = [l EXCEPT !.pc = "blocks", !.at = @ + 1,
                   !.results = Append(@, [use |-> <<l.steps, l.at>>, outcome |-> "rejected"]),
                   !.validation_rejects = l.validation_rejects + 1]
      BY <1>1, <1>3, <1>15 DEF ToolRejects, Answered, Result, ThisBlock, Loops
    <2>2. QED BY <1>1, <1>12, <1>15, <2>1 DEF ToolRejects, Outcomes
  <1>16. CASE ToolThrows
    <2>1. CASE MayRetry
      <3> DEFINE t == [l EXCEPT !.attempt = @ + 1, !.tool_retries = @ + 1]
      <3>1. loop' = t /\ l.pc = "tool" /\ l.attempt < ToolRetries
        BY <1>1, <1>16, <2>1 DEF ToolThrows, MayRetry
      <3>8. l.attempt + 1 \in 0..ToolRetries
        <4>1. l.attempt < ToolRetries
          BY <3>1
        <4>2. l.attempt \in Nat /\ ToolRetries \in Nat
          BY <1>5, LoopAssumption
        <4>3. QED BY <4>1, <4>2
      <3>2. /\ t \in Loops /\ t.pc = "tool" /\ t.at = l.at /\ t.steps = l.steps
            /\ t.messages = l.messages /\ t.answer = l.answer /\ t.results = l.results
            /\ t.terminated = l.terminated /\ t.cost = l.cost /\ t.priced = l.priced
        BY <1>3, <1>5, <3>1, <3>8 DEF Loops
      <3> HIDE DEF t
      <3>3. l.at <= Len(reply) /\ reply[l.at] # "submit"
        BY <1>3, <1>4, <3>1 DEF Good, Talk
      <3>4. Holds(t) /\ ReplyAt(t, t.steps) = reply
        BY <1>3, <1>4, <1>5, <3>2, HoldsStays DEF Holds
      <3>5. Talk(t)
        BY <1>3, <3>2, <3>3, <3>4 DEF Talk, Unanswered
      <3>6. Costs(t, p)
        BY <1>3, <3>1, <3>2 DEF Good, Costs
      <3>7. QED BY <1>8, <3>1, <3>2, <3>5, <3>6 DEF Good
    <2>2. CASE ~MayRetry
      BY <1>1, <1>13, <1>16, <2>2 DEF ToolThrows, Outcomes
    <2>3. QED BY <2>1, <2>2
  <1>17. CASE BlocksDone
    <2> DEFINE t == [l EXCEPT !.pc = "after"]
    <2>1. loop' = t /\ l.pc = "blocks" /\ l.at > Len(reply)
      BY <1>1, <1>6, <1>17 DEF BlocksDone
    <2>2. /\ t \in Loops /\ t.pc = "after" /\ t.at = l.at /\ t.steps = l.steps
          /\ t.messages = l.messages /\ t.answer = l.answer /\ t.results = l.results
          /\ t.terminated = l.terminated /\ t.cost = l.cost /\ t.priced = l.priced
      BY <1>3 DEF Loops
    <2> HIDE DEF t
    <2>3. Holds(t) /\ ReplyAt(t, t.steps) = reply
      BY <1>3, <1>4, <1>5, <2>2, HoldsStays DEF Holds
    <2>4. Unanswered(t) /\ t.at = Len(reply) + 1
      <3>1. t.at = Len(reply) + 1
        BY <1>3, <1>4, <1>5, <2>1, <2>2 DEF Holds
      <3>2. QED BY <1>3, <2>2, <2>3, <3>1 DEF Unanswered
    <2>5. Talk(t) /\ Costs(t, p)
      BY <1>3, <2>1, <2>2, <2>3, <2>4 DEF Good, Talk, Costs
    <2>6. QED BY <1>8, <2>1, <2>2, <2>5 DEF Good
  <1>18. QED BY <1>9, <1>10, <1>11, <1>14, <1>15, <1>16, <1>17

\* The breaker, the request with the results, the nudge and the ways out.
LEMMA AfterGood ==
  ASSUME Good(loop, paid), Submitted \/ CapReached \/ SendResults \/ GiveUp \/ Nudge
  PROVE  Good(loop, paid)'
  <1>1. PICK l : l = loop
    OBVIOUS
  <1>2. PICK p : p = paid
    OBVIOUS
  <1>3. /\ Good(l, p) /\ l \in Loops /\ l.pc = "after" /\ paid' = p /\ l.cost = p
        /\ p \in Nat /\ p < CostCap + MaxCallCost /\ l.priced
        /\ Holds(l) /\ l.messages \in Seq(Messages)
    BY <1>1, <1>2 DEF Good, Talk, Costs, Unanswered, Accepted, Loops,
       Submitted, CapReached, SendResults, GiveUp, Nudge, GoesOn
  <1>4. PICK reply : reply = ReplyAt(l, l.steps)
    OBVIOUS
  <1>5. /\ reply \in Seq(Blocks) /\ Len(reply) \in Nat /\ l.at \in Nat \ {0}
        /\ l.steps \in 1..MaxSteps /\ l.steps \in Nat /\ l.steps >= 1
    <2>1. /\ reply \in Seq(Blocks) /\ Len(reply) \in Nat /\ l.at \in Nat \ {0}
          /\ l.steps \in 1..MaxSteps
      BY <1>3, <1>4, ReplyIsBlocks
    <2>2. QED BY <2>1, LoopAssumption
  <1>6. l.terminated = Null =>
          /\ Unanswered(l) /\ l.at = Len(reply) + 1 /\ l.answer = Null
          /\ Unsubmitted(l, l.steps)
    <2> SUFFICES ASSUME l.terminated = Null
                 PROVE  /\ Unanswered(l) /\ l.at = Len(reply) + 1 /\ l.answer = Null
                        /\ Unsubmitted(l, l.steps)
      OBVIOUS
    <2>1. Unanswered(l) /\ l.at = Len(reply) + 1 /\ l.answer = Null
      BY <1>3, <1>4, NullApart DEF Good, Talk, Accepted, Unanswered, Endings
    <2>2. \A i \in 1..Len(reply) : reply[i] # "submit"
      BY <1>3, <1>4, <1>5, <2>1 DEF Holds
    <2>3. \A s \in 1..l.steps : s \in 1..(l.steps - 1) \/ s = l.steps
      BY <1>5
    <2>4. Unsubmitted(l, l.steps)
      BY <1>3, <1>4, <2>2, <2>3 DEF Holds, Unsubmitted
    <2>5. QED BY <2>1, <2>4
  <1>7. ASSUME NEW why \in Endings, Terminate(why),
               IF why = "submit" THEN Accepted(l) ELSE l.answer = Null /\ Unsubmitted(l, l.steps)
        PROVE  Good(loop, paid)'
    <2>1. Good([l EXCEPT !.pc = "done",
                  !.terminated = IF l.priced THEN why ELSE "raised"], p)
      BY <1>3, <1>7, TerminateGood
    <2>2. QED BY <1>1, <1>3, <1>7, <2>1 DEF Terminate, Good, Talk, Costs
  <1>8. CASE Submitted
    <2>1. Accepted(l)
      BY <1>1, <1>3, <1>8, NullApart DEF Submitted, Good, Talk, Unanswered, Endings
    <2>2. QED BY <1>7, <1>8, <2>1 DEF Submitted, Endings
  <1>9. CASE CapReached
    BY <1>1, <1>6, <1>7, <1>9 DEF CapReached, Endings
  <1>10. CASE GiveUp
    BY <1>1, <1>6, <1>7, <1>10 DEF GiveUp, GoesOn, Endings
  <1>11. ASSUME NEW m \in Messages, NEW n \in Nat,
                l.terminated = Null, l.cost < CostCap,
                IF reply = <<>> THEN m.kind = "nudge" /\ l.results = <<>>
                                ELSE m.kind = "results" /\ m.body = l.results,
                loop' = [l EXCEPT !.pc = "call", !.results = <<>>, !.nudges = n,
                                  !.messages = Append(@, m)]
         PROVE  Good(loop, paid)'
    <2> DEFINE t == [l EXCEPT !.pc = "call", !.results = <<>>, !.nudges = n,
                              !.messages = Append(@, m)]
    <2>1. loop' = t
      BY <1>11
    <2>2. Append(l.messages, m) \in Seq(Messages) /\ <<>> \in Seq(ToolResults)
          /\ "call" \in {"call", "blocks", "tool", "after", "done"}
      BY <1>3
    <2>3. /\ t \in Loops /\ t.pc = "call" /\ t.steps = l.steps /\ t.results = <<>>
          /\ t.messages = Append(l.messages, m) /\ t.answer = l.answer
          /\ t.terminated = l.terminated /\ t.cost = l.cost /\ t.priced = l.priced
      BY <1>3, <2>2 DEF Loops
    <2> HIDE DEF t
    <2>4. Len(l.messages) = 2 * l.steps
      BY <1>3 DEF Holds
    <2>5. /\ Len(t.messages) = 2 * t.steps + 1 /\ t.messages[2 * t.steps + 1] = m
          /\ \A i \in 1..(2 * l.steps) : t.messages[i] = l.messages[i]
      BY <1>3, <1>5, <2>3, <2>4
    <2>6. 2 * (l.steps - 1) + 1 <= 2 * l.steps /\ l.steps - 1 \in Nat
          /\ 2 * l.steps \in 1..(2 * l.steps)
      BY <1>5
    <2>7. \A i \in 1..(2 * (l.steps - 1) + 1) : t.messages[i] = l.messages[i]
      BY <1>5, <2>5, <2>6
    <2>8. Exchanged(t, l.steps - 1) /\ Unsubmitted(t, l.steps - 1)
      <3>1. Exchanged(l, l.steps - 1) /\ Unsubmitted(l, l.steps - 1)
        BY <1>3 DEF Holds
      <3>2. PICK k : k = l.steps - 1
        OBVIOUS
      <3>3. k \in Nat /\ \A i \in 1..(2 * k + 1) : t.messages[i] = l.messages[i]
        BY <2>6, <2>7, <3>2
      <3>4. QED BY <3>1, <3>2, <3>3, SaidStays
    <2>9. \A s \in 1..l.steps : s \in 1..(l.steps - 1) \/ s = l.steps
      BY <1>5
    <2>10. t.messages[2 * l.steps] = l.messages[2 * l.steps] /\ ReplyAt(t, l.steps) = reply
           /\ t.messages[2 * l.steps].kind = "reply" /\ t.messages[2 * l.steps].body = reply
      BY <1>3, <1>4, <2>5, <2>6 DEF ReplyAt, Holds
    <2>11. Unsubmitted(t, l.steps)
      <3>1. \A i \in 1..Len(reply) : reply[i] # "submit"
        BY <1>4, <1>5, <1>6, <1>11 DEF Unsubmitted
      <3>2. QED BY <2>8, <2>9, <2>10, <3>1 DEF Unsubmitted
    <2>12. Exchanged(t, l.steps)
      <3>1. IF reply = <<>>
              THEN m.kind = "nudge"
              ELSE /\ m.kind = "results" /\ Len(m.body) = Len(reply)
                   /\ \A i \in 1..Len(reply) : m.body[i].use = <<l.steps, i>>
        <4>1. Unanswered(l) /\ l.at = Len(reply) + 1
          BY <1>6, <1>11
        <4>2. Len(l.results) = Len(reply) /\ \A i \in 1..Len(l.results) : l.results[i].use = <<l.steps, i>>
          BY <1>5, <4>1 DEF Unanswered
        <4>3. QED BY <1>11, <4>2
      <3>2. t.messages[2 * l.steps + 1] = m
        BY <2>3, <2>5
      <3>3. QED BY <2>8, <2>9, <2>10, <3>1, <3>2 DEF Exchanged
    <2>13. Between(t)
      BY <1>6, <1>11, <2>3, <2>5, <2>11, <2>12 DEF Between
    <2>14. Talk(t) /\ Costs(t, p)
      BY <1>3, <1>11, <2>3, <2>13 DEF Talk, Costs
    <2>15. QED BY <1>3, <2>1, <2>3, <2>14 DEF Good
  <1>12. l.results \in Seq(ToolResults) /\ Len(l.results) \in Nat /\ l.nudges \in Nat
    BY <1>3 DEF Loops
  <1>13. l.terminated = Null => (l.results = <<>> <=> reply = <<>>)
    <2>1. l.terminated = Null => Len(l.results) = Len(reply)
      BY <1>5, <1>6 DEF Unanswered
    <2>2. (Len(reply) = 0 <=> reply = <<>>) /\ (Len(l.results) = 0 <=> l.results = <<>>)
      BY <1>5, <1>12, EmptySeq
    <2>3. QED BY <2>1, <2>2
  <1>14. CASE SendResults
    <2> DEFINE m == [kind |-> "results", body |-> l.results]
    <2>1. m \in Messages /\ m.kind = "results" /\ m.body = l.results
      BY <1>12 DEF Messages
    <2>2. l.terminated = Null /\ l.cost < CostCap /\ l.results # <<>>
      BY <1>1, <1>14 DEF SendResults, GoesOn
    <2>3. loop' = [l EXCEPT !.pc = "call", !.results = <<>>, !.messages = Append(@, m)]
      BY <1>1, <1>14 DEF SendResults
    <2> HIDE DEF m
    <2>4. loop' = [l EXCEPT !.pc = "call", !.results = <<>>, !.nudges = l.nudges,
                            !.messages = Append(@, m)]
      BY <1>3, <2>3 DEF Loops
    <2>5. QED BY <1>11, <1>12, <1>13, <2>1, <2>2, <2>3, <2>4
  <1>15. CASE Nudge
    <2> DEFINE m == [kind |-> "nudge", body |-> <<>>]
    <2>1. m \in Messages /\ m.kind = "nudge"
      BY DEF Messages
    <2>2. l.terminated = Null /\ l.cost < CostCap /\ l.results = <<>>
      BY <1>1, <1>15 DEF Nudge, GoesOn
    <2>3. loop' = [l EXCEPT !.pc = "call", !.nudges = @ + 1, !.messages = Append(@, m)]
      BY <1>1, <1>15 DEF Nudge
    <2> HIDE DEF m
    <2>4. loop' = [l EXCEPT !.pc = "call", !.results = <<>>, !.nudges = l.nudges + 1,
                            !.messages = Append(@, m)]
      BY <1>3, <2>2, <2>3 DEF Loops
    <2>5. l.nudges + 1 \in Nat
      BY <1>12
    <2>6. QED BY <1>11, <1>13, <2>1, <2>2, <2>3, <2>4, <2>5
  <1>16. QED BY <1>8, <1>9, <1>10, <1>14, <1>15

\* A card begins with the prompt alone.
LEMMA FreshGood ==
  ASSUME NEW priced \in BOOLEAN
  PROVE  Good(FreshLoop(priced), 0) /\ FreshLoop(priced).pc = "call"
  <1> DEFINE t == FreshLoop(priced)
  <1>1. Prompt \in Messages /\ <<Prompt>> \in Seq(Messages) /\ Len(<<Prompt>>) = 1
    BY DEF Prompt, Messages
  <1>2. /\ t.pc = "call" /\ t.messages = <<Prompt>> /\ t.results = <<>> /\ t.answer = Null
        /\ t.terminated = Null /\ t.steps = 0 /\ t.cost = 0 /\ t.priced = priced
    BY DEF FreshLoop
  <1>3. t \in Loops
    <2>1. 0 \in 0..ToolRetries /\ 0 \in 0..MaxSteps /\ 0 \in Nat /\ 1 \in Nat \ {0}
      BY LoopAssumption
    <2>2. <<>> \in Seq(ToolResults)
      OBVIOUS
    <2>3. QED BY <1>1, <2>1, <2>2 DEF FreshLoop, Loops
  <1> HIDE DEF t
  <1>4. Between(t)
    BY <1>1, <1>2 DEF Between, Exchanged, Unsubmitted
  <1>5. Talk(t)
    BY <1>2, <1>4 DEF Talk
  <1>6. Costs(t, 0)
    BY <1>2, LoopAssumption DEF Costs
  <1>7. QED BY <1>2, <1>3, <1>5, <1>6 DEF Good, t

\* A step of the loop, whichever it is.
LEMMA TurnGood ==
  ASSUME Good(loop, paid), Turn
  PROVE  Good(loop, paid)'
  BY AskGood, BlocksGood, AfterGood DEF Turn

(* -------------------------- the steps of a sweep ----------------------- *)

\* The sweep has not begun.
LEMMA InitSweepInv == SweepInit => SweepInv
  <1> SUFFICES ASSUME SweepInit PROVE SweepInv
    OBVIOUS
  <1>1. PICK priced \in BOOLEAN : loop = FreshLoop(priced)
    BY DEF SweepInit, LoopInit
  <1>2. Good(loop, paid) /\ loop.pc = "call" /\ paid = 0
    BY <1>1, FreshGood DEF SweepInit, LoopInit
  <1>3. rows = <<>> /\ rows \in Seq(Rows) /\ Len(rows) = 0 /\ written = {} /\ billed = 0
        /\ sweep = "next"
    BY DEF SweepInit
  <1>4. SweepTypeOK
    BY <1>2, <1>3 DEF SweepTypeOK, LoopTypeOK, Good, Costs
  <1>5. Most \in Nat
    BY LoopAssumption DEF Most
  <1>6. billed <= Len(rows) * Most
    BY <1>3, <1>5
  <1>7. QED BY <1>2, <1>3, <1>4, <1>6, SweepAssumption DEF SweepInv

\* A row of the report and what its card was charged: one card more, at most
\* Most of it.
LEMMA RowAdded ==
  ASSUME SweepInv, NEW row \in Rows, Len(rows) < NumCards, rows' = Append(rows, row),
         NEW c \in Nat, c <= Most, billed' = billed + c
  PROVE  /\ rows' \in Seq(Rows) /\ billed' \in Nat
         /\ Len(rows') <= NumCards /\ billed' <= Len(rows') * Most
  <1>1. rows \in Seq(Rows) /\ billed \in Nat /\ billed <= Len(rows) * Most
    BY DEF SweepInv, SweepTypeOK
  <1>2. Most \in Nat /\ NumCards \in Nat /\ Len(rows) \in Nat
    BY <1>1, LoopAssumption, SweepAssumption DEF Most
  <1>3. rows' \in Seq(Rows) /\ Len(rows') = Len(rows) + 1
    BY <1>1
  <1>4. (Len(rows) + 1) * Most = Len(rows) * Most + Most
    BY <1>2
  <1>5. Len(rows) * Most \in Nat
    BY <1>2
  <1>6. billed + c <= Len(rows) * Most + Most
    BY <1>1, <1>2, <1>5
  <1>7. QED BY <1>1, <1>2, <1>3, <1>4, <1>6

\* Every step of the sweep keeps its invariant.
LEMMA SweepInvHolds == SweepInv /\ [SweepNext]_sweepVars => SweepInv'
  <1> SUFFICES ASSUME SweepInv, [SweepNext]_sweepVars PROVE SweepInv'
    OBVIOUS
  <1>1. /\ Good(loop, paid) /\ SweepTypeOK /\ rows \in Seq(Rows) /\ Len(rows) \in Nat
        /\ NumCards \in Nat /\ Most \in Nat /\ paid \in Nat /\ billed \in Nat
        /\ paid <= Most
    BY LoopAssumption, SweepAssumption DEF SweepInv, SweepTypeOK, Good, Costs, Most
  <1>2. CASE StartCard
    <2>1. Good(loop, paid)'
      BY <1>1, <1>2 DEF StartCard, Good, Talk, Costs
    <2>2. SweepTypeOK'
      BY <1>1, <1>2 DEF StartCard, SweepTypeOK, LoopTypeOK
    <2>3. Len(rows) < NumCards
      BY <1>1, <1>2 DEF StartCard, Card
    <2>4. QED BY <1>2, <2>1, <2>2, <2>3 DEF StartCard, SweepInv
  <1>3. CASE RefuseCard
    <2>1. Good(loop, paid)'
      BY <1>1, <1>3 DEF RefuseCard, Good, Talk, Costs
    <2>2. Len(rows) < NumCards /\ Card \in 1..NumCards
      BY <1>1, <1>3 DEF RefuseCard, Card
    <2>3. Row("refused", 0) \in Rows
      BY <2>2 DEF Row, Rows
    <2>4. billed' = billed + 0 /\ 0 <= Most
      BY <1>1, <1>3 DEF RefuseCard
    <2>5. rows' = Append(rows, Row("refused", 0))
      BY <1>3 DEF RefuseCard
    <2>6. /\ rows' \in Seq(Rows) /\ billed' \in Nat
          /\ Len(rows') <= NumCards /\ billed' <= Len(rows') * Most
      BY <2>2, <2>3, <2>4, <2>5, RowAdded
    <2>7. SweepTypeOK'
      BY <1>1, <1>3, <2>6 DEF RefuseCard, SweepTypeOK, LoopTypeOK
    <2>8. sweep' = "next" /\ loop' = loop /\ paid' = 0 /\ loop.pc = "call"
      BY <1>3 DEF RefuseCard, SweepInv
    <2>9. QED BY <2>1, <2>6, <2>7, <2>8 DEF SweepInv
  <1>4. CASE RunCard
    <2>1. Good(loop, paid)'
      BY <1>1, <1>4, TurnGood DEF RunCard
    <2>2. SweepTypeOK'
      BY <1>1, <1>4, <2>1 DEF RunCard, SweepTypeOK, LoopTypeOK, Good, Costs
    <2>3. sweep' = "card" /\ rows' = rows /\ billed' = billed /\ Len(rows) < NumCards
      BY <1>4 DEF RunCard, SweepInv
    <2>4. QED BY <2>1, <2>2, <2>3 DEF SweepInv
  <1>5. ASSUME NEW row \in Rows, CardOver(row), written' \subseteq 1..NumCards
        PROVE  SweepInv'
    <2>1. PICK t : t = FreshLoop(loop.priced)
      OBVIOUS
    <2>2. Good(t, 0) /\ t.pc = "call"
      BY <1>1, <2>1, FreshGood DEF Good, Loops
    <2>3. loop' = t /\ paid' = 0 /\ sweep' = "next" /\ rows' = Append(rows, row)
          /\ billed' = billed + paid /\ Len(rows) < NumCards
      BY <1>5, <2>1 DEF CardOver, SweepInv
    <2>4. Good(loop, paid)'
      BY <2>2, <2>3 DEF Good, Talk, Costs
    <2>5. /\ rows' \in Seq(Rows) /\ billed' \in Nat
          /\ Len(rows') <= NumCards /\ billed' <= Len(rows') * Most
      BY <1>1, <2>3, RowAdded
    <2>6. SweepTypeOK'
      BY <1>5, <2>3, <2>4, <2>5 DEF SweepTypeOK, LoopTypeOK, Good, Costs
    <2>7. QED BY <2>2, <2>3, <2>4, <2>5, <2>6 DEF SweepInv
  <1>6. sweep = "card" => Card \in 1..NumCards
    BY <1>1 DEF SweepInv, Card
  <1>7. CASE CardRaised
    <2>1. Row("raised", 0) \in Rows
      BY <1>6, <1>7 DEF CardRaised, CardOver, Row, Rows, Endings
    <2>2. QED BY <1>1, <1>5, <1>7, <2>1 DEF CardRaised, SweepTypeOK
  <1>8. CASE CardReturned
    <2>1. loop.terminated \in Endings /\ loop.cost \in Nat
      BY <1>1, <1>8 DEF CardReturned, CardOver, Good, Costs, Loops
    <2>2. Row(loop.terminated, loop.cost) \in Rows
      BY <1>6, <1>8, <2>1 DEF CardReturned, CardOver, Row, Rows
    <2>3. QED BY <1>1, <1>5, <1>6, <1>8, <2>2 DEF CardReturned, CardOver, SweepTypeOK
  <1>9. CASE Die
    <2>1. Good(loop, paid)'
      BY <1>1, <1>9 DEF Die, Good, Talk, Costs
    <2>2. SweepTypeOK'
      BY <1>1, <1>9 DEF Die, SweepTypeOK, LoopTypeOK
    <2>3. sweep' = "died" /\ rows' = rows /\ billed' = billed /\ paid' = paid /\ loop' = loop
          /\ (paid > 0 => Len(rows) < NumCards)
      BY <1>9 DEF Die, SweepInv
    <2>4. QED BY <2>1, <2>2, <2>3 DEF SweepInv
  <1>10. CASE Report
    <2>1. Good(loop, paid)'
      BY <1>1, <1>10 DEF Report, Good, Talk, Costs
    <2>2. SweepTypeOK'
      BY <1>1, <1>10 DEF Report, SweepTypeOK, LoopTypeOK
    <2>3. sweep' = "reported" /\ rows' = rows /\ billed' = billed /\ paid' = paid /\ loop' = loop
          /\ paid = 0
      BY <1>10 DEF Report, SweepInv
    <2>4. QED BY <2>1, <2>2, <2>3 DEF SweepInv
  <1>11. CASE UNCHANGED sweepVars
    <2>1. Good(loop, paid)'
      BY <1>1, <1>11 DEF sweepVars, Good, Talk, Costs
    <2>2. SweepTypeOK'
      BY <1>1, <1>11 DEF sweepVars, SweepTypeOK, LoopTypeOK
    <2>3. QED BY <1>11, <2>1, <2>2 DEF sweepVars, SweepInv
  <1>12. QED
    BY <1>2, <1>3, <1>4, <1>7, <1>8, <1>9, <1>10, <1>11 DEF SweepNext, SweepOver

\* The invariant holds in every state of a sweep.
LEMMA SweepInvariant == SweepSpec => []SweepInv
  BY InitSweepInv, SweepInvHolds, PTL DEF SweepSpec

(* ------------------------------- theorems ------------------------------ *)

\* The loop, its messages, the rows of the report and the written files keep
\* their types through any number of cards.
THEOREM SweepTypeCorrect == SweepSpec => []SweepTypeOK
  <1>1. SweepInv => SweepTypeOK
    BY DEF SweepInv
  <1>2. QED BY <1>1, SweepInvariant, PTL

\* No request is sent at the cap, and a card costs less than one call beyond it.
THEOREM CapIsKept == SweepSpec => []CostCapHolds
  <1>1. SweepInv => CostCapHolds
    BY DEF SweepInv, Good, Costs, CostCapHolds
  <1>2. QED BY <1>1, SweepInvariant, PTL

\* Every tool_use is answered once, in order, before the next request.
THEOREM RequestsAreWellFormed == SweepSpec => []RequestsWellFormed
  <1>1. SweepInv => RequestsWellFormed
    BY DEF SweepInv, Good, Talk, Between, Exchanged, RequestsWellFormed
  <1>2. QED BY <1>1, SweepInvariant, PTL

\* What run_card() returns is the first valid submit of the conversation.
THEOREM AnswerIsFirstSubmit == SweepSpec => []FirstSubmitIsTheAnswer
  <1>1. ASSUME SweepInv, loop.pc = "done" PROVE FirstSubmitIsTheAnswer
    <2>1. loop \in Loops /\ loop.steps \in 0..MaxSteps /\ loop.steps \in Nat
      BY <1>1, LoopAssumption DEF SweepInv, Good, Loops
    <2>2. CASE loop.terminated # "submit" /\ loop.answer = Null /\ Unsubmitted(loop, loop.steps)
      <3>1. ASSUME NEW b \in Submits PROVE FALSE
        <4>1. b[1] \in 1..loop.steps /\ b[2] \in 1..MaxBlocks
              /\ b[2] <= Len(ReplyAt(loop, b[1])) /\ ReplyAt(loop, b[1])[b[2]] = "submit"
          BY <3>1 DEF Submits, ReplyAt
        <4>2. PICK n : n = Len(ReplyAt(loop, b[1]))
          OBVIOUS
        <4>3. b[2] \in 1..n
          BY <4>1, <4>2
        <4>4. QED BY <2>2, <4>1, <4>2, <4>3 DEF Unsubmitted
      <3>2. QED BY <2>2, <3>1 DEF FirstSubmitIsTheAnswer
    <2>3. CASE Accepted(loop)
      <3>1. Holds(loop) /\ Len(ReplyAt(loop, loop.steps)) \in Nat /\ loop.at \in Nat \ {0}
            /\ loop.steps \in 1..MaxSteps /\ <<loop.steps, loop.at>> \in BlockIds
        BY <2>1, <2>3, ReplyIsBlocks DEF Accepted
      <3>2. loop.answer = <<loop.steps, loop.at>> /\ loop.terminated = "submit"
            /\ loop.answer # Null
        BY <2>3, <3>1, NullApart DEF Accepted
      <3>3. <<loop.steps, loop.at>> \in Submits
        BY <2>3, <3>1 DEF Accepted, Submits, ReplyAt, BlockIds
      <3>4. ASSUME NEW b \in Submits PROVE Precedes(<<loop.steps, loop.at>>, b)
        <4>1. b[1] \in 1..loop.steps /\ b[2] \in 1..MaxBlocks
              /\ b[2] <= Len(ReplyAt(loop, b[1])) /\ ReplyAt(loop, b[1])[b[2]] = "submit"
          BY <3>4 DEF Submits, ReplyAt
        <4>2. b[1] = loop.steps
          BY <2>1, <3>1, <4>1 DEF Holds, Unsubmitted
        <4>3. loop.at <= b[2]
          BY <3>1, <4>1, <4>2 DEF Holds
        <4>4. QED BY <4>2, <4>3 DEF Precedes
      <3>5. QED BY <3>2, <3>3, <3>4 DEF FirstSubmitIsTheAnswer
    <2>4. QED BY <1>1, <2>2, <2>3 DEF SweepInv, Good, Talk
  <1>2. SweepInv => FirstSubmitIsTheAnswer
    BY <1>1 DEF FirstSubmitIsTheAnswer
  <1>3. QED BY <1>2, SweepInvariant, PTL

\* A sweep of NumCards cards is charged at most Most for each of them.
THEOREM SweepCostBounded == SweepSpec => []SweepCostBound
  <1>1. ASSUME SweepInv PROVE SweepCostBound
    <2>1. /\ rows \in Seq(Rows) /\ Len(rows) \in Nat /\ NumCards \in Nat /\ Most \in Nat
          /\ paid \in Nat /\ billed \in Nat /\ paid <= Most
      BY <1>1, LoopAssumption, SweepAssumption DEF SweepInv, SweepTypeOK, Good, Costs, Most
    <2>2. PICK n \in Nat : n = Len(rows)
      BY <2>1
    <2>3. billed <= n * Most /\ n <= NumCards /\ (paid > 0 => n < NumCards)
      BY <1>1, <2>2 DEF SweepInv
    <2>4. \A k \in Nat : k <= NumCards => k * Most <= NumCards * Most
      BY <2>1
    <2>5. CASE paid = 0
      <3>1. n * Most <= NumCards * Most /\ n * Most \in Nat /\ NumCards * Most \in Nat
        BY <2>1, <2>3, <2>4
      <3>2. QED BY <2>1, <2>3, <2>5, <3>1 DEF SweepCostBound, Most
    <2>6. CASE paid > 0
      <3>1. (n + 1) * Most <= NumCards * Most
        BY <2>1, <2>3, <2>4, <2>6
      <3>2. (n + 1) * Most = n * Most + Most /\ n * Most \in Nat /\ NumCards * Most \in Nat
        BY <2>1
      <3>3. billed + paid <= NumCards * Most
        BY <2>1, <2>3, <3>1, <3>2
      <3>4. QED BY <3>3 DEF SweepCostBound, Most
    <2>7. QED BY <2>1, <2>5, <2>6
  <1>2. QED BY <1>1, SweepInvariant, PTL

(* ------------------------- what the counters say ----------------------- *)

\* The tool_results of the conversation l, sent or not.
ResultsOf(l) ==
    ToSet(l.results)
      \cup UNION {ToSet(l.messages[i].body) :
                   i \in {k \in DOMAIN l.messages : l.messages[k].kind = "results"}}

Having(l, outcome) == {r \in ResultsOf(l) : r.outcome = outcome}

Nudges(l) == {i \in DOMAIN l.messages : l.messages[i].kind = "nudge"}

\* Retries of the call in hand, which is counted but has no result yet.
InHand(l) == IF l.pc = "tool" THEN 1 ELSE 0
Tried(l) == IF l.pc = "tool" THEN l.attempt ELSE 0

\* GuardsRecorded with what keeps it: the block in hand has no result yet, and
\* the retries are told apart by call.
Counted(l) ==
    /\ IsFiniteSet(ResultsOf(l))
    /\ \A r \in ResultsOf(l) :
         \/ r.use[1] < l.steps
         \/ r.use[1] = l.steps /\ (l.pc \in {"blocks", "tool"} => r.use[2] < l.at)
    /\ l.validation_rejects = Cardinality(Having(l, "rejected"))
    /\ l.tool_calls = Cardinality(ResultsOf(l)) + (IF l.answer # Null THEN 1 ELSE 0) + InHand(l)
    /\ l.tool_retries >= ToolRetries * Cardinality(Having(l, "error")) + Tried(l)
    /\ l.tool_retries <= ToolRetries * (l.tool_calls - InHand(l)) + Tried(l)
    /\ IsFiniteSet(Nudges(l)) /\ l.nudges = Cardinality(Nudges(l))

LEMMA CountTypes ==
  ASSUME NEW l \in Loops
  PROVE  /\ l.messages \in Seq(Messages) /\ l.results \in Seq(ToolResults)
         /\ Len(l.messages) \in Nat /\ Len(l.results) \in Nat
         /\ l.steps \in Nat /\ l.at \in Nat \ {0} /\ l.attempt \in 0..ToolRetries
         /\ l.attempt \in Nat /\ ToolRetries \in Nat
         /\ l.tool_calls \in Nat /\ l.validation_rejects \in Nat
         /\ l.tool_retries \in Nat /\ l.nudges \in Nat
  BY LoopAssumption DEF Loops

\* A conversation without a word more has the results it had.
LEMMA SameTalk ==
  ASSUME NEW l, NEW t, t.messages = l.messages, t.results = l.results
  PROVE  /\ ResultsOf(t) = ResultsOf(l) /\ Nudges(t) = Nudges(l)
         /\ \A outcome : Having(t, outcome) = Having(l, outcome)
  BY DEF ResultsOf, Having, Nudges

\* Queueing a result adds it; sending the queue adds nothing.
LEMMA ResultQueued ==
  ASSUME NEW l \in Loops, NEW t, NEW r,
         t.messages = l.messages, t.results = Append(l.results, r)
  PROVE  ResultsOf(t) = ResultsOf(l) \cup {r} /\ Nudges(t) = Nudges(l)
  <1>1. l.results \in Seq(ToolResults) /\ Len(l.results) \in Nat
    BY CountTypes
  <1>2. DOMAIN t.results = 1..(Len(l.results) + 1) /\ DOMAIN l.results = 1..Len(l.results)
    BY <1>1
  <1>3. \A i \in 1..(Len(l.results) + 1) :
          t.results[i] = IF i = Len(l.results) + 1 THEN r ELSE l.results[i]
    BY <1>1
  <1>4. ToSet(t.results) = ToSet(l.results) \cup {r}
    BY <1>1, <1>2, <1>3 DEF ToSet
  <1>5. QED BY <1>4 DEF ResultsOf, Nudges

LEMMA MessageAdded ==
  ASSUME NEW l \in Loops, NEW t, NEW m, t.messages = Append(l.messages, m)
  PROVE  /\ m.kind # "results" /\ t.results = l.results => ResultsOf(t) = ResultsOf(l)
         /\ m.kind = "results" /\ m.body = l.results /\ t.results = <<>> =>
              ResultsOf(t) = ResultsOf(l)
         /\ m.kind # "nudge" => Nudges(t) = Nudges(l)
         /\ m.kind = "nudge" => Nudges(t) = Nudges(l) \cup {Len(l.messages) + 1}
         /\ Len(l.messages) + 1 \notin Nudges(l)
  <1> DEFINE n == Len(l.messages)
             turns == {k \in DOMAIN l.messages : l.messages[k].kind = "results"}
             later == {k \in DOMAIN t.messages : t.messages[k].kind = "results"}
             sent == UNION {ToSet(l.messages[i].body) : i \in turns}
             now == UNION {ToSet(t.messages[i].body) : i \in later}
  <1>1. l.messages \in Seq(Messages) /\ n \in Nat
    BY CountTypes
  <1>2. DOMAIN t.messages = 1..(n + 1) /\ DOMAIN l.messages = 1..n
        /\ t.messages[n + 1] = m /\ \A i \in 1..n : t.messages[i] = l.messages[i]
    BY <1>1
  <1>3. ResultsOf(t) = ToSet(t.results) \cup now /\ ResultsOf(l) = ToSet(l.results) \cup sent
    BY DEF ResultsOf
  <1> HIDE DEF n
  <1>4. \A i : i \in 1..(n + 1) <=> i \in 1..n \/ i = n + 1
    BY <1>1
  <1>5. n + 1 \notin 1..n
    BY <1>1
  <1>6. m.kind # "results" => later = turns /\ now = sent
    <2> HAVE m.kind # "results"
    <2>1. later = turns
      BY <1>2, <1>4
    <2>2. \A i \in turns : t.messages[i] = l.messages[i]
      BY <1>2
    <2> HIDE DEF later, turns
    <2>3. now = sent
      BY <2>1, <2>2
    <2>4. QED BY <2>1, <2>3
  <1>7. m.kind = "results" => now = sent \cup ToSet(m.body)
    <2> HAVE m.kind = "results"
    <2>1. later = turns \cup {n + 1}
      BY <1>2, <1>4
    <2>2. \A i \in turns : t.messages[i] = l.messages[i]
      BY <1>2
    <2> HIDE DEF later, turns
    <2>3. QED BY <1>2, <2>1, <2>2
  <1>8. ToSet(<<>>) = {}
    BY DEF ToSet
  <1>9. m.kind # "nudge" => Nudges(t) = Nudges(l)
    BY <1>2, <1>4 DEF Nudges
  <1>10. m.kind = "nudge" => Nudges(t) = Nudges(l) \cup {n + 1}
    BY <1>2, <1>4 DEF Nudges
  <1>11. n + 1 \notin Nudges(l)
    BY <1>2, <1>5 DEF Nudges
  <1> HIDE DEF now, sent
  <1>12. QED BY <1>3, <1>6, <1>7, <1>8, <1>9, <1>10, <1>11 DEF n

LEMMA ResultsTyped ==
  ASSUME NEW l \in Loops, NEW r \in ResultsOf(l)
  PROVE  r.use[1] \in Int /\ r.use[2] \in Int
  <1>1. l.results \in Seq(ToolResults) /\ l.messages \in Seq(Messages)
    BY CountTypes
  <1>2. r \in ToolResults
    BY <1>1 DEF ResultsOf, ToSet, Messages
  <1>3. QED BY <1>2, LoopAssumption DEF ToolResults, BlockIds

LEMMA TimesNext ==
  ASSUME NEW a \in Nat, NEW b \in Nat
  PROVE  a * (b + 1) = a * b + a /\ a * b \in Nat
  OBVIOUS

\* No block is in hand after the step, and none was.
LEMMA CountsKept ==
  ASSUME NEW l \in Loops, Counted(l), l.pc # "tool", NEW t,
         t.pc \in {"after", "done"}, t.steps = l.steps,
         t.messages = l.messages, t.results = l.results, t.answer = l.answer,
         t.validation_rejects = l.validation_rejects, t.tool_calls = l.tool_calls,
         t.tool_retries = l.tool_retries, t.nudges = l.nudges
  PROVE  Counted(t)
  <1>1. /\ ResultsOf(t) = ResultsOf(l) /\ Nudges(t) = Nudges(l)
        /\ \A outcome : Having(t, outcome) = Having(l, outcome)
    BY SameTalk
  <1>2. InHand(t) = 0 /\ Tried(t) = 0 /\ InHand(l) = 0 /\ Tried(l) = 0
    BY DEF InHand, Tried
  <1>3. QED BY <1>1, <1>2 DEF Counted

\* The block in hand gets its result.
LEMMA CountsResult ==
  ASSUME NEW l \in Loops, Counted(l), l.pc \in {"blocks", "tool"}, l.answer = Null,
         NEW t, NEW outcome,
         t.pc = "blocks", t.at = l.at + 1, t.steps = l.steps, t.answer = Null,
         t.messages = l.messages,
         t.results = Append(l.results, [use |-> <<l.steps, l.at>>, outcome |-> outcome]),
         t.validation_rejects = l.validation_rejects + (IF outcome = "rejected" THEN 1 ELSE 0),
         t.tool_calls = l.tool_calls + (IF l.pc = "tool" THEN 0 ELSE 1),
         t.tool_retries = l.tool_retries, t.nudges = l.nudges,
         outcome = "error" => l.pc = "tool" /\ l.attempt >= ToolRetries
  PROVE  Counted(t)
  <1> DEFINE r == [use |-> <<l.steps, l.at>>, outcome |-> outcome]
             R == ResultsOf(l)
             rejects == Cardinality(Having(l, "rejected"))
             errors == Cardinality(Having(l, "error"))
  <1>1. r.use[1] = l.steps /\ r.use[2] = l.at /\ r.outcome = outcome
    OBVIOUS
  <1>2. t.results = Append(l.results, r)
    OBVIOUS
  <1> HIDE DEF r
  <1>3. /\ l.steps \in Nat /\ l.at \in Nat \ {0} /\ l.attempt \in 0..ToolRetries
        /\ l.attempt \in Nat /\ ToolRetries \in Nat
        /\ l.tool_calls \in Nat /\ l.validation_rejects \in Nat /\ l.tool_retries \in Nat
    BY CountTypes
  <1>4. ResultsOf(t) = R \cup {r} /\ Nudges(t) = Nudges(l)
    BY <1>2, ResultQueued
  <1>5. IsFiniteSet(R) /\ r \notin R
    <2>1. \A x \in R : x.use[1] < l.steps \/ (x.use[1] = l.steps /\ x.use[2] < l.at)
      BY DEF Counted
    <2>2. ~(l.steps < l.steps) /\ ~(l.at < l.at)
      BY <1>3
    <2>3. QED BY <1>1, <2>1, <2>2 DEF Counted
  <1>6. IsFiniteSet(R \cup {r}) /\ Cardinality(R \cup {r}) = Cardinality(R) + 1
        /\ Cardinality(R) \in Nat
    BY <1>5, FS_AddElement, FS_CardinalityType
  <1>7. \A o : /\ o = outcome => Having(t, o) = Having(l, o) \cup {r}
               /\ o # outcome => Having(t, o) = Having(l, o)
               /\ r \notin Having(l, o) /\ Having(l, o) \subseteq R
    BY <1>1, <1>4, <1>5 DEF Having
  <1>8. \A o : /\ IsFiniteSet(Having(l, o)) /\ Cardinality(Having(l, o)) \in Nat
               /\ Cardinality(Having(t, o)) =
                    Cardinality(Having(l, o)) + (IF o = outcome THEN 1 ELSE 0)
    <2> TAKE o
    <2>1. IsFiniteSet(Having(l, o))
      BY <1>5, <1>7, FS_Subset
    <2>2. Cardinality(Having(l, o)) \in Nat
      BY <2>1, FS_CardinalityType
    <2>3. Cardinality(Having(l, o) \cup {r}) = Cardinality(Having(l, o)) + 1
      BY <1>7, <2>1, FS_AddElement
    <2>4. CASE o = outcome
      <3>1. Having(t, o) = Having(l, o) \cup {r}
        BY <1>7, <2>4
      <3>2. QED BY <2>1, <2>2, <2>3, <2>4, <3>1
    <2>5. CASE o # outcome
      <3>1. Having(t, o) = Having(l, o)
        BY <1>7, <2>5
      <3>2. QED BY <2>1, <2>2, <2>5, <3>1
    <2>6. QED BY <2>4, <2>5
  <1>9. \A x \in ResultsOf(t) :
          \/ x.use[1] < t.steps
          \/ x.use[1] = t.steps /\ (t.pc \in {"blocks", "tool"} => x.use[2] < t.at)
    <2> TAKE x \in ResultsOf(t)
    <2>1. CASE x = r
      BY <1>1, <1>3, <2>1
    <2>2. CASE x \in R
      <3>1. x.use[1] < l.steps \/ (x.use[1] = l.steps /\ x.use[2] < l.at)
        BY <2>2 DEF Counted
      <3>2. CASE x.use[1] < l.steps
        BY <3>2
      <3>3. CASE x.use[1] = l.steps /\ x.use[2] < l.at
        <4>1. x.use[2] < l.at + 1
          <5>1. x.use[2] \in Int
            BY <2>2, ResultsTyped
          <5>2. QED BY <1>3, <3>3, <5>1
        <4>2. QED BY <3>3, <4>1
      <3>4. QED BY <3>1, <3>2, <3>3
    <2>3. QED BY <1>4, <2>1, <2>2
  <1>10. /\ l.validation_rejects = rejects
         /\ l.tool_calls = Cardinality(R) + InHand(l)
         /\ l.tool_retries >= ToolRetries * errors + Tried(l)
         /\ l.tool_retries <= ToolRetries * (l.tool_calls - InHand(l)) + Tried(l)
         /\ IsFiniteSet(Nudges(l)) /\ l.nudges = Cardinality(Nudges(l))
         /\ rejects \in Nat /\ errors \in Nat
    <2>1. l.tool_calls = Cardinality(R) + 0 + InHand(l)
      BY DEF Counted
    <2>2. InHand(l) \in {0, 1}
      BY DEF InHand
    <2>3. QED BY <1>6, <1>8, <2>1, <2>2 DEF Counted
  <1>11. InHand(t) = 0 /\ Tried(t) = 0
    BY DEF InHand, Tried
  <1>12. t.validation_rejects = Cardinality(Having(t, "rejected"))
    BY <1>8, <1>10
  <1>13. t.tool_calls = Cardinality(ResultsOf(t)) + (IF t.answer # Null THEN 1 ELSE 0) + InHand(t)
    <2>1. t.tool_calls = Cardinality(R) + 1
      BY <1>6, <1>10 DEF InHand
    <2>2. QED BY <1>4, <1>6, <1>11, <2>1
  <1>14. t.tool_retries >= ToolRetries * Cardinality(Having(t, "error")) + Tried(t)
    <2> DEFINE n == Cardinality(Having(t, "error"))
    <2>1. n = errors + (IF outcome = "error" THEN 1 ELSE 0)
      BY <1>8
    <2>2. ToolRetries * (errors + 1) = ToolRetries * errors + ToolRetries
          /\ ToolRetries * errors \in Nat
      BY <1>3, <1>10
    <2>3. Tried(l) \in Nat /\ (outcome = "error" => Tried(l) >= ToolRetries)
      BY <1>3 DEF Tried
    <2> HIDE DEF n, errors
    <2>4. t.tool_retries >= ToolRetries * n
      BY <1>3, <1>10, <2>1, <2>2, <2>3
    <2>5. n \in Nat /\ ToolRetries * n \in Nat
      BY <1>3, <1>10, <2>1
    <2>6. QED BY <1>11, <2>4, <2>5 DEF n
  <1>15. t.tool_retries <= ToolRetries * (t.tool_calls - InHand(t)) + Tried(t)
    <2>1. CASE l.pc = "tool"
      <3>1. l.tool_calls = Cardinality(R) + 1
        BY <1>10, <2>1 DEF InHand
      <3>2. l.tool_calls - 1 \in Nat /\ l.tool_calls - InHand(l) = l.tool_calls - 1
        BY <1>6, <3>1, <2>1 DEF InHand
      <3>3. ToolRetries * l.tool_calls = ToolRetries * (l.tool_calls - 1) + ToolRetries
            /\ ToolRetries * (l.tool_calls - 1) \in Nat
        <4>1. PICK k \in Nat : k = l.tool_calls - 1
          BY <3>2
        <4>2. l.tool_calls = k + 1
          BY <1>3, <4>1
        <4>3. ToolRetries * (k + 1) = ToolRetries * k + ToolRetries /\ ToolRetries * k \in Nat
          BY <1>3, TimesNext
        <4>4. QED BY <4>1, <4>2, <4>3
      <3>4. l.tool_retries <= ToolRetries * (l.tool_calls - 1) + l.attempt
        BY <1>10, <2>1, <3>2 DEF Tried
      <3>5. t.tool_calls = l.tool_calls /\ t.tool_calls - InHand(t) = l.tool_calls
        BY <1>3, <1>11, <2>1
      <3>6. l.attempt <= ToolRetries
        BY <1>3
      <3>7. t.tool_retries <= ToolRetries * l.tool_calls
        BY <1>3, <3>3, <3>4, <3>6
      <3>8. ToolRetries * l.tool_calls \in Nat
        BY <1>3
      <3>9. QED BY <1>11, <3>5, <3>7, <3>8
    <2>2. CASE l.pc = "blocks"
      <3>1. l.tool_retries <= ToolRetries * l.tool_calls
        <4>1. l.tool_calls - InHand(l) = l.tool_calls /\ Tried(l) = 0
          BY <1>3, <2>2 DEF InHand, Tried
        <4>2. ToolRetries * l.tool_calls \in Nat
          BY <1>3
        <4>3. QED BY <1>10, <4>1, <4>2
      <3>2. t.tool_calls - InHand(t) = l.tool_calls + 1
        BY <1>3, <1>11, <2>2
      <3>3. ToolRetries * (l.tool_calls + 1) = ToolRetries * l.tool_calls + ToolRetries
            /\ ToolRetries * l.tool_calls \in Nat
        BY <1>3, TimesNext
      <3>4. QED BY <1>3, <1>11, <3>1, <3>2, <3>3
    <2>3. QED BY <2>1, <2>2
  <1>16. QED BY <1>4, <1>6, <1>9, <1>10, <1>12, <1>13, <1>14, <1>15 DEF Counted

\* Every step of the loop keeps the counts.
LEMMA CountsTurn ==
  ASSUME Good(loop, paid), Counted(loop), Turn
  PROVE  Counted(loop)'
  <1>1. PICK l : l = loop
    OBVIOUS
  <1>2. /\ l \in Loops /\ Counted(l) /\ (l.pc \in {"call", "blocks", "tool"} => l.answer = Null)
    BY <1>1 DEF Good, Talk, Between, Unanswered
  <1>3. /\ l.messages \in Seq(Messages) /\ l.results \in Seq(ToolResults)
        /\ l.steps \in Nat /\ l.at \in Nat \ {0} /\ l.attempt \in Nat /\ ToolRetries \in Nat
        /\ l.tool_calls \in Nat /\ l.validation_rejects \in Nat
        /\ l.tool_retries \in Nat /\ l.nudges \in Nat
    BY <1>2, CountTypes
  <1>4. ASSUME NEW t, loop' = t, Counted(t) PROVE Counted(loop)'
    BY <1>4 DEF Counted, ResultsOf, Having, Nudges, InHand, Tried
  <1>5. /\ IsFiniteSet(ResultsOf(l)) /\ Cardinality(ResultsOf(l)) \in Nat
        /\ IsFiniteSet(Nudges(l)) /\ Cardinality(Nudges(l)) \in Nat
        /\ \A o : IsFiniteSet(Having(l, o)) /\ Cardinality(Having(l, o)) \in Nat
    <2>1. IsFiniteSet(ResultsOf(l)) /\ IsFiniteSet(Nudges(l))
      BY <1>2 DEF Counted
    <2>2. \A o : Having(l, o) \in SUBSET ResultsOf(l)
      BY DEF Having
    <2>3. \A o : IsFiniteSet(Having(l, o))
      BY <2>1, <2>2, FS_Subset
    <2>4. QED BY <2>1, <2>3, FS_CardinalityType
  <1>6. ASSUME NEW why, Terminate(why), l.pc # "tool" PROVE Counted(loop)'
    <2> DEFINE t == [l EXCEPT !.pc = "done",
                              !.terminated = IF l.priced THEN why ELSE "raised"]
    <2>1. /\ t.pc = "done" /\ t.messages = l.messages /\ t.steps = l.steps
          /\ t.answer = l.answer /\ t.results = l.results
          /\ t.validation_rejects = l.validation_rejects /\ t.tool_calls = l.tool_calls
          /\ t.tool_retries = l.tool_retries /\ t.nudges = l.nudges
      BY <1>2 DEF Loops
    <2>2. loop' = t
      BY <1>1, <1>6 DEF Terminate
    <2> HIDE DEF t
    <2>3. Counted(t)
      BY <1>2, <1>6, <2>1, CountsKept
    <2>4. QED BY <1>4, <2>2, <2>3
  <1>7. CASE MaxStepsReached \/ ApiError \/ Submitted \/ CapReached \/ GiveUp
    <2>1. l.pc # "tool" /\ \E why : Terminate(why)
      BY <1>1, <1>7 DEF MaxStepsReached, ApiError, Submitted, CapReached, GiveUp, GoesOn
    <2>2. QED BY <1>6, <2>1
  <1>8. CASE Respond
    <2>1. PICK reply, c :
            /\ l.pc = "call"
            /\ IF l.priced
                 THEN loop' = [l EXCEPT
                        !.pc = "blocks", !.at = 1, !.steps = @ + 1, !.cost = @ + c,
                        !.messages = Append(@, [kind |-> "reply", body |-> reply])]
                 ELSE Terminate("raised")
      BY <1>1, <1>8 DEF Respond
    <2>2. CASE ~l.priced
      BY <1>6, <2>1, <2>2
    <2>3. CASE l.priced
      <3> DEFINE m == [kind |-> "reply", body |-> reply]
                 t == [l EXCEPT !.pc = "blocks", !.at = 1, !.steps = @ + 1,
                                !.cost = @ + c, !.messages = Append(@, m)]
      <3>1. m.kind # "results" /\ m.kind # "nudge"
        OBVIOUS
      <3>2. loop' = t
        BY <2>1, <2>3
      <3> HIDE DEF m
      <3>3. /\ t.pc = "blocks" /\ t.messages = Append(l.messages, m) /\ t.steps = l.steps + 1
            /\ t.answer = l.answer /\ t.results = l.results
            /\ t.validation_rejects = l.validation_rejects /\ t.tool_calls = l.tool_calls
            /\ t.tool_retries = l.tool_retries /\ t.nudges = l.nudges
        BY <1>2 DEF Loops
      <3> HIDE DEF t
      <3>4. ResultsOf(t) = ResultsOf(l) /\ Nudges(t) = Nudges(l)
        BY <1>2, <3>1, <3>3, MessageAdded
      <3>5. \A o : Having(t, o) = Having(l, o)
        BY <3>4 DEF Having
      <3>6. \A r \in ResultsOf(t) : r.use[1] < t.steps
        <4> TAKE r \in ResultsOf(t)
        <4>1. r.use[1] < l.steps \/ r.use[1] = l.steps
          BY <1>2, <3>4 DEF Counted
        <4>3. r.use[1] \in Int
          BY <1>2, <3>4, ResultsTyped
        <4>4. QED BY <1>3, <3>3, <4>1, <4>3
      <3>7. InHand(t) = 0 /\ Tried(t) = 0 /\ InHand(l) = 0 /\ Tried(l) = 0
        BY <2>1, <3>3 DEF InHand, Tried
      <3>8. Counted(t)
        BY <1>2, <3>3, <3>4, <3>5, <3>6, <3>7 DEF Counted
      <3>9. QED BY <1>4, <3>2, <3>8
    <2>4. QED BY <2>2, <2>3
  <1>9. CASE RejectSubmit
    <2> DEFINE t == [l EXCEPT
         !.tool_calls = @ + 1, !.validation_rejects = @ + 1, !.at = @ + 1,
         !.results = Append(@, [use |-> <<l.steps, l.at>>, outcome |-> "rejected"])]
    <2>1. loop' = t /\ l.pc = "blocks"
      BY <1>1, <1>9 DEF RejectSubmit, Handling, Result, ThisBlock
    <2>2. /\ t.pc = "blocks" /\ t.at = l.at + 1 /\ t.steps = l.steps /\ t.answer = Null
          /\ t.messages = l.messages
          /\ t.results = Append(l.results, [use |-> <<l.steps, l.at>>, outcome |-> "rejected"])
          /\ t.validation_rejects = l.validation_rejects + 1 /\ t.tool_calls = l.tool_calls + 1
          /\ t.tool_retries = l.tool_retries /\ t.nudges = l.nudges
      BY <1>2, <2>1 DEF Loops
    <2> HIDE DEF t
    <2>3. Counted(t)
      BY <1>2, <2>1, <2>2, CountsResult
    <2>4. QED BY <1>4, <2>1, <2>3
  <1>10. CASE AcceptSubmit
    <2> DEFINE t == [l EXCEPT
         !.tool_calls = @ + 1, !.answer = <<l.steps, l.at>>, !.terminated = "submit",
         !.pc = "after"]
    <2>1. loop' = t /\ l.pc = "blocks" /\ l.at <= Len(Reply)
      BY <1>1, <1>10 DEF AcceptSubmit, Handling, ThisBlock
    <2>2. <<l.steps, l.at>> # Null
      <3>1. Good(l, paid) /\ Holds(l) /\ Reply = ReplyAt(l, l.steps)
        BY <1>1, <2>1 DEF Good, Talk, Unanswered, Reply, ReplyAt, Holds
      <3>2. <<l.steps, l.at>> \in BlockIds
        BY <1>2, <2>1, <3>1, ReplyIsBlocks
      <3>3. QED BY <3>2, NullApart
    <2>3. /\ t.pc = "after" /\ t.steps = l.steps /\ t.answer = <<l.steps, l.at>>
          /\ t.messages = l.messages /\ t.results = l.results
          /\ t.validation_rejects = l.validation_rejects /\ t.tool_calls = l.tool_calls + 1
          /\ t.tool_retries = l.tool_retries /\ t.nudges = l.nudges
      BY <1>2 DEF Loops
    <2> HIDE DEF t
    <2>4. /\ ResultsOf(t) = ResultsOf(l) /\ Nudges(t) = Nudges(l)
          /\ \A o : Having(t, o) = Having(l, o)
      BY <2>3, SameTalk
    <2>5. InHand(t) = 0 /\ Tried(t) = 0 /\ InHand(l) = 0 /\ Tried(l) = 0
      BY <2>1, <2>3 DEF InHand, Tried
    <2>6. t.tool_calls = Cardinality(ResultsOf(t)) + (IF t.answer # Null THEN 1 ELSE 0) + InHand(t)
      <3>1. l.tool_calls = Cardinality(ResultsOf(l)) + 0 + 0
        BY <1>2, <2>1, <2>5 DEF Counted
      <3>2. QED BY <1>5, <2>2, <2>3, <2>4, <2>5, <3>1
    <2>7. t.tool_retries <= ToolRetries * (t.tool_calls - InHand(t)) + Tried(t)
      <3>1. l.tool_retries <= ToolRetries * (l.tool_calls - 0) + 0
        BY <1>2, <2>5 DEF Counted
      <3>2. /\ ToolRetries * (l.tool_calls + 1) = ToolRetries * l.tool_calls + ToolRetries
            /\ ToolRetries * l.tool_calls \in Nat
        BY <1>3, TimesNext
      <3>3. l.tool_calls - 0 = l.tool_calls /\ t.tool_calls - InHand(t) = l.tool_calls + 1
        BY <1>3, <2>3, <2>5
      <3>4. QED BY <1>3, <2>3, <2>5, <3>1, <3>2, <3>3
    <2>8. Counted(t)
      BY <1>2, <2>3, <2>4, <2>5, <2>6, <2>7 DEF Counted
    <2>9. QED BY <1>4, <2>1, <2>8
  <1>11. CASE CallTool
    <2> DEFINE t == [l EXCEPT !.pc = "tool", !.tool_calls = @ + 1, !.attempt = 0]
    <2>1. loop' = t /\ l.pc = "blocks"
      BY <1>1, <1>11 DEF CallTool, Handling
    <2>2. /\ t.pc = "tool" /\ t.steps = l.steps /\ t.answer = l.answer /\ t.attempt = 0
          /\ t.messages = l.messages /\ t.results = l.results /\ t.at = l.at
          /\ t.validation_rejects = l.validation_rejects /\ t.tool_calls = l.tool_calls + 1
          /\ t.tool_retries = l.tool_retries /\ t.nudges = l.nudges
      BY <1>2 DEF Loops
    <2> HIDE DEF t
    <2>3. /\ ResultsOf(t) = ResultsOf(l) /\ Nudges(t) = Nudges(l)
          /\ \A o : Having(t, o) = Having(l, o)
      BY <2>2, SameTalk
    <2>4. InHand(t) = 1 /\ Tried(t) = 0 /\ InHand(l) = 0 /\ Tried(l) = 0
      BY <2>1, <2>2 DEF InHand, Tried
    <2>5. t.tool_calls - InHand(t) = l.tool_calls - InHand(l)
      BY <1>3, <2>2, <2>4
    <2>6. t.tool_calls = Cardinality(ResultsOf(t)) + (IF t.answer # Null THEN 1 ELSE 0) + InHand(t)
      <3>1. l.tool_calls = Cardinality(ResultsOf(l)) + 0 + 0
        BY <1>2, <2>1, <2>4 DEF Counted
      <3>2. QED BY <1>2, <1>5, <2>1, <2>2, <2>3, <2>4, <3>1
    <2>7. \A r \in ResultsOf(t) :
            \/ r.use[1] < t.steps
            \/ r.use[1] = t.steps /\ (t.pc \in {"blocks", "tool"} => r.use[2] < t.at)
      BY <1>2, <2>1, <2>2, <2>3 DEF Counted
    <2>8. Counted(t)
      BY <1>2, <2>2, <2>3, <2>4, <2>5, <2>6, <2>7 DEF Counted
    <2>9. QED BY <1>4, <2>1, <2>8
  <1>13. CASE ToolAnswers
    <2>0. l.pc = "tool"
      BY <1>1, <1>13 DEF ToolAnswers
    <2> DEFINE t == [l EXCEPT !.pc = "blocks", !.at = @ + 1,
                    !.results = Append(@, [use |-> <<l.steps, l.at>>, outcome |-> "ok"])]
    <2>1. loop' = t
      BY <1>1, <1>13 DEF ToolAnswers, Answered, Result, ThisBlock
    <2>2. /\ t.pc = "blocks" /\ t.at = l.at + 1 /\ t.steps = l.steps /\ t.answer = Null
          /\ t.messages = l.messages
          /\ t.results = Append(l.results, [use |-> <<l.steps, l.at>>, outcome |-> "ok"])
          /\ t.validation_rejects = l.validation_rejects + 0
          /\ t.tool_calls = l.tool_calls + 0
          /\ t.tool_retries = l.tool_retries /\ t.nudges = l.nudges
      BY <1>2, <1>3, <2>0 DEF Loops
    <2> HIDE DEF t
    <2>3. Counted(t)
      BY <1>2, <2>0, <2>2, CountsResult
    <2>4. QED BY <1>4, <2>1, <2>3
  <1>14. CASE ToolRejects
    <2>0. l.pc = "tool"
      BY <1>1, <1>14 DEF ToolRejects
    <2> DEFINE t == [l EXCEPT !.pc = "blocks", !.at = @ + 1, !.validation_rejects = @ + 1,
                    !.results = Append(@, [use |-> <<l.steps, l.at>>, outcome |-> "rejected"])]
    <2>1. loop' = t
      BY <1>1, <1>2, <1>14 DEF ToolRejects, Answered, Result, ThisBlock, Loops
    <2>2. /\ t.pc = "blocks" /\ t.at = l.at + 1 /\ t.steps = l.steps /\ t.answer = Null
          /\ t.messages = l.messages
          /\ t.results = Append(l.results, [use |-> <<l.steps, l.at>>, outcome |-> "rejected"])
          /\ t.validation_rejects = l.validation_rejects + 1
          /\ t.tool_calls = l.tool_calls + 0
          /\ t.tool_retries = l.tool_retries /\ t.nudges = l.nudges
      BY <1>2, <1>3, <2>0 DEF Loops
    <2> HIDE DEF t
    <2>3. Counted(t)
      BY <1>2, <2>0, <2>2, CountsResult
    <2>4. QED BY <1>4, <2>1, <2>3
  <1>15. CASE ToolThrows
    <2>1. l.pc = "tool"
      BY <1>1, <1>15 DEF ToolThrows
    <2>2. CASE l.attempt < ToolRetries
      <3> DEFINE t == [l EXCEPT !.attempt = @ + 1, !.tool_retries = @ + 1]
      <3>1. loop' = t
        BY <1>1, <1>15, <2>2 DEF ToolThrows, MayRetry
      <3>2. /\ t.pc = "tool" /\ t.steps = l.steps /\ t.answer = l.answer
            /\ t.attempt = l.attempt + 1
            /\ t.messages = l.messages /\ t.results = l.results /\ t.at = l.at
            /\ t.validation_rejects = l.validation_rejects /\ t.tool_calls = l.tool_calls
            /\ t.tool_retries = l.tool_retries + 1 /\ t.nudges = l.nudges
        BY <1>2, <2>1 DEF Loops
      <3> HIDE DEF t
      <3>3. /\ ResultsOf(t) = ResultsOf(l) /\ Nudges(t) = Nudges(l)
            /\ \A o : Having(t, o) = Having(l, o)
        BY <3>2, SameTalk
      <3>4. /\ InHand(t) = InHand(l) /\ InHand(l) = 1
            /\ Tried(t) = l.attempt + 1 /\ Tried(l) = l.attempt
        BY <2>1, <3>2 DEF InHand, Tried
      <3>5. t.tool_retries >= ToolRetries * Cardinality(Having(t, "error")) + Tried(t)
        <4> DEFINE e == Cardinality(Having(l, "error"))
        <4>1. l.tool_retries >= ToolRetries * e + l.attempt /\ e \in Nat
          BY <1>2, <1>5, <3>4 DEF Counted
        <4> HIDE DEF e
        <4>2. ToolRetries * e \in Nat
          BY <1>3, <4>1
        <4>3. l.tool_retries + 1 >= ToolRetries * e + (l.attempt + 1)
          BY <1>3, <4>1, <4>2
        <4>4. QED BY <3>2, <3>3, <3>4, <4>3 DEF e
      <3>6. t.tool_retries <= ToolRetries * (t.tool_calls - InHand(t)) + Tried(t)
        <4>1. PICK k : k = l.tool_calls - InHand(l)
          OBVIOUS
        <4>2. k \in Int /\ l.tool_retries <= ToolRetries * k + l.attempt
          BY <1>2, <1>3, <3>4, <4>1 DEF Counted
        <4>3. ToolRetries * k \in Int
          BY <1>3, <4>2
        <4>4. l.tool_retries + 1 <= ToolRetries * k + (l.attempt + 1)
          BY <1>3, <4>2, <4>3
        <4>5. QED BY <3>2, <3>4, <4>1, <4>4
      <3>7. \A r \in ResultsOf(t) :
              \/ r.use[1] < t.steps
              \/ r.use[1] = t.steps /\ (t.pc \in {"blocks", "tool"} => r.use[2] < t.at)
        BY <1>2, <2>1, <3>2, <3>3 DEF Counted
      <3>8. t.tool_calls = Cardinality(ResultsOf(t)) + (IF t.answer # Null THEN 1 ELSE 0) + InHand(t)
        BY <1>2, <3>2, <3>3, <3>4 DEF Counted
      <3>9. Counted(t)
        BY <1>2, <3>2, <3>3, <3>5, <3>6, <3>7, <3>8 DEF Counted
      <3>10. QED BY <1>4, <3>1, <3>9
    <2>3. CASE ~(l.attempt < ToolRetries)
      <3>0. l.pc = "tool" /\ l.attempt >= ToolRetries
        BY <1>3, <2>1, <2>3
      <3> DEFINE t == [l EXCEPT !.pc = "blocks", !.at = @ + 1,
                      !.results = Append(@, [use |-> <<l.steps, l.at>>, outcome |-> "error"])]
      <3>1. loop' = t
        BY <1>1, <1>15, <2>3 DEF ToolThrows, MayRetry, Answered, Result, ThisBlock
      <3>2. /\ t.pc = "blocks" /\ t.at = l.at + 1 /\ t.steps = l.steps /\ t.answer = Null
            /\ t.messages = l.messages
            /\ t.results = Append(l.results, [use |-> <<l.steps, l.at>>, outcome |-> "error"])
            /\ t.validation_rejects = l.validation_rejects + 0
            /\ t.tool_calls = l.tool_calls + 0
            /\ t.tool_retries = l.tool_retries /\ t.nudges = l.nudges
        BY <1>2, <1>3, <3>0 DEF Loops
      <3> HIDE DEF t
      <3>3. Counted(t)
        BY <1>2, <3>0, <3>2, CountsResult
      <3>4. QED BY <1>4, <3>1, <3>3
    <2>4. QED BY <2>2, <2>3
  <1>16. CASE BlocksDone
    <2> DEFINE t == [l EXCEPT !.pc = "after"]
    <2>1. /\ t.pc = "after" /\ t.messages = l.messages /\ t.steps = l.steps
          /\ t.answer = l.answer /\ t.results = l.results
          /\ t.validation_rejects = l.validation_rejects /\ t.tool_calls = l.tool_calls
          /\ t.tool_retries = l.tool_retries /\ t.nudges = l.nudges
      BY <1>2 DEF Loops
    <2>2. loop' = t /\ l.pc # "tool"
      BY <1>1, <1>16 DEF BlocksDone
    <2> HIDE DEF t
    <2>3. Counted(t)
      BY <1>2, <2>1, <2>2, CountsKept
    <2>4. QED BY <1>4, <2>2, <2>3
  <1>17. ASSUME NEW m, NEW n, l.pc = "after",
                \/ m.kind = "nudge" /\ l.results = <<>> /\ n = l.nudges + 1
                \/ m.kind = "results" /\ m.body = l.results /\ n = l.nudges,
                loop' = [l EXCEPT !.pc = "call", !.results = <<>>, !.nudges = n,
                                  !.messages = Append(@, m)]
         PROVE  Counted(loop)'
    <2> DEFINE t == [l EXCEPT !.pc = "call", !.results = <<>>, !.nudges = n,
                              !.messages = Append(@, m)]
    <2>1. loop' = t
      BY <1>17
    <2>2. /\ t.pc = "call" /\ t.messages = Append(l.messages, m) /\ t.steps = l.steps
          /\ t.answer = l.answer /\ t.results = <<>> /\ t.nudges = n
          /\ t.validation_rejects = l.validation_rejects /\ t.tool_calls = l.tool_calls
          /\ t.tool_retries = l.tool_retries
      BY <1>2 DEF Loops
    <2> HIDE DEF t
    <2>3. /\ ResultsOf(t) = ResultsOf(l) /\ Len(l.messages) + 1 \notin Nudges(l)
          /\ m.kind # "nudge" => Nudges(t) = Nudges(l)
          /\ m.kind = "nudge" => Nudges(t) = Nudges(l) \cup {Len(l.messages) + 1}
      BY <1>2, <1>17, <2>2, MessageAdded
    <2>4. \A o : Having(t, o) = Having(l, o)
      BY <2>3 DEF Having
    <2>5. IsFiniteSet(Nudges(t)) /\ t.nudges = Cardinality(Nudges(t))
      <3>1. IsFiniteSet(Nudges(l)) /\ l.nudges = Cardinality(Nudges(l))
        BY <1>2 DEF Counted
      <3>2. CASE m.kind = "nudge"
        BY <1>17, <2>2, <2>3, <3>1, <3>2, FS_AddElement
      <3>3. CASE m.kind = "results"
        BY <1>17, <2>2, <2>3, <3>1, <3>3
      <3>4. QED BY <1>17, <3>2, <3>3
    <2>6. InHand(t) = 0 /\ Tried(t) = 0 /\ InHand(l) = 0 /\ Tried(l) = 0
      BY <1>17, <2>2 DEF InHand, Tried
    <2>7. \A r \in ResultsOf(t) :
            \/ r.use[1] < t.steps
            \/ r.use[1] = t.steps /\ (t.pc \in {"blocks", "tool"} => r.use[2] < t.at)
      BY <1>2, <2>2, <2>3 DEF Counted
    <2>8. Counted(t)
      BY <1>2, <2>2, <2>3, <2>4, <2>5, <2>6, <2>7 DEF Counted
    <2>9. QED BY <1>4, <2>1, <2>8
  <1>18. CASE SendResults
    <2> DEFINE m == [kind |-> "results", body |-> l.results]
    <2>1. m.kind = "results" /\ m.body = l.results /\ l.pc = "after"
      BY <1>1, <1>18 DEF SendResults, GoesOn
    <2>2. loop' = [l EXCEPT !.pc = "call", !.results = <<>>, !.nudges = l.nudges,
                            !.messages = Append(@, m)]
      BY <1>1, <1>2, <1>18 DEF SendResults, Loops
    <2> HIDE DEF m
    <2>3. QED BY <1>17, <2>1, <2>2
  <1>19. CASE Nudge
    <2> DEFINE m == [kind |-> "nudge", body |-> <<>>]
    <2>1. m.kind = "nudge" /\ l.results = <<>> /\ l.pc = "after"
      BY <1>1, <1>19 DEF Nudge, GoesOn
    <2>2. loop' = [l EXCEPT !.pc = "call", !.results = <<>>, !.nudges = l.nudges + 1,
                            !.messages = Append(@, m)]
      BY <1>1, <1>2, <1>19, <2>1 DEF Nudge, Loops
    <2> HIDE DEF m
    <2>3. QED BY <1>17, <2>1, <2>2
  <1>20. QED
    BY <1>7, <1>8, <1>9, <1>10, <1>11, <1>13, <1>14, <1>15, <1>16, <1>18, <1>19 DEF Turn

\* Nothing is counted before the first request.
LEMMA CountsFresh ==
  ASSUME NEW priced \in BOOLEAN
  PROVE  Counted(FreshLoop(priced))
  <1> DEFINE l == FreshLoop(priced)
  <1>1. l.results = <<>> /\ l.messages = <<Prompt>> /\ l.pc = "call" /\ l.answer = Null
        /\ l.validation_rejects = 0 /\ l.tool_calls = 0 /\ l.tool_retries = 0 /\ l.nudges = 0
    BY DEF FreshLoop
  <1> HIDE DEF l
  <1>2. DOMAIN l.messages = {1} /\ l.messages[1].kind = "prompt"
    BY <1>1 DEF Prompt
  <1>3. ResultsOf(l) = {} /\ Nudges(l) = {}
    BY <1>1, <1>2 DEF ResultsOf, ToSet, Nudges
  <1>4. \A o : Having(l, o) = {}
    BY <1>3 DEF Having
  <1>5. InHand(l) = 0 /\ Tried(l) = 0
    BY <1>1 DEF InHand, Tried
  <1>6. IsFiniteSet({}) /\ Cardinality({}) = 0
    BY FS_EmptySet
  <1>7. ToolRetries * 0 = 0
    BY LoopAssumption
  <1>8. Cardinality(ResultsOf(l)) = 0 /\ Cardinality(Nudges(l)) = 0
        /\ Cardinality(Having(l, "rejected")) = 0 /\ Cardinality(Having(l, "error")) = 0
    BY <1>3, <1>4, <1>6
  <1>9. l.tool_calls - InHand(l) = 0
    BY <1>1, <1>5
  <1>10. Counted(l)
    BY <1>1, <1>3, <1>5, <1>6, <1>7, <1>8, <1>9 DEF Counted
  <1>11. QED BY <1>10 DEF l

\* A model the price list has never makes run_card() raise.
LEMMA RaisedTurn ==
  ASSUME loop \in Loops, Turn, loop.terminated = "raised" => ~loop.priced
  PROVE  (loop.terminated = "raised" => ~loop.priced)' /\ loop'.priced = loop.priced
  <1>1. ASSUME NEW why, why # "raised", Terminate(why)
        PROVE  (loop.terminated = "raised" => ~loop.priced)' /\ loop'.priced = loop.priced
    <2>1. loop'.priced = loop.priced
          /\ loop'.terminated = IF loop.priced THEN why ELSE "raised"
      BY <1>1 DEF Terminate, Loops
    <2>2. QED BY <1>1, <2>1
  <1>2. CASE MaxStepsReached \/ ApiError \/ Submitted \/ CapReached \/ GiveUp
    BY <1>1, <1>2 DEF MaxStepsReached, ApiError, Submitted, CapReached, GiveUp
  <1>3. CASE Respond
    <2>1. CASE loop.priced
      BY <1>3, <2>1 DEF Respond, Loops
    <2>2. CASE ~loop.priced
      BY <1>3, <2>2 DEF Respond, Terminate, Loops
    <2>3. QED BY <2>1, <2>2
  <1>4. CASE AcceptSubmit
    BY <1>4 DEF AcceptSubmit, Loops
  <1>5. ASSUME loop'.priced = loop.priced, loop'.terminated = loop.terminated
        PROVE  (loop.terminated = "raised" => ~loop.priced)' /\ loop'.priced = loop.priced
    BY <1>5
  <1>6. CASE RejectSubmit \/ CallTool \/ BlocksDone \/ SendResults \/ Nudge
    BY <1>5, <1>6 DEF RejectSubmit, CallTool, BlocksDone, SendResults, Nudge, Loops
  <1>7. CASE ToolAnswers \/ ToolRejects
    BY <1>5, <1>7 DEF ToolAnswers, ToolRejects, Answered, Loops
  <1>8. CASE ToolThrows
    BY <1>5, <1>8 DEF ToolThrows, Answered, Loops
  <1>9. QED BY <1>2, <1>3, <1>4, <1>6, <1>7, <1>8 DEF Turn

(* --------------------------- what a report tells ------------------------ *)

\* The rows so far, the files and what was charged agree.
Told ==
    /\ \A i \in 1..Len(rows) :
         /\ rows[i].card = i
         /\ i \in written <=> rows[i].terminated \notin {"refused", "raised"}
    /\ written \subseteq 1..Len(rows)
    /\ loop.priced => SumOfCosts = billed
    /\ loop.terminated = "raised" => ~loop.priced
    /\ sweep = "reported" => Len(rows) = NumCards

TellInv == SweepInv /\ Counted(loop) /\ Told

\* The total over the rows grows by what the row says.
LEMMA RowTold ==
  ASSUME NEW before \in Seq(Rows), NEW row \in Rows, NEW after,
         after = Append(before, row)
  PROVE  SumFunction([i \in 1..Len(after) |-> after[i].cost]) =
           SumFunction([i \in 1..Len(before) |-> before[i].cost]) + row.cost
  <1> DEFINE n == Len(before)
             f == [i \in 1..n |-> before[i].cost]
             g == [i \in 1..(n + 1) |-> after[i].cost]
  <1>1. n \in Nat /\ Len(after) = n + 1 /\ after[n + 1] = row
        /\ \A i \in 1..n : after[i] = before[i]
    OBVIOUS
  <1>2. \A i \in 1..n : before[i] \in Rows
    OBVIOUS
  <1>3. row.cost \in Nat /\ \A r \in Rows : r.cost \in Nat
    BY DEF Rows
  <1> HIDE DEF n
  <1>4. \A i : i \in 1..(n + 1) <=> i \in 1..n \/ i = n + 1
    BY <1>1
  <1>5. DOMAIN f = 1..n /\ DOMAIN g = 1..(n + 1) /\ g[n + 1] = row.cost
        /\ (\A i \in 1..n : f[i] \in Nat /\ g[i] = f[i])
        /\ \A i \in 1..(n + 1) : g[i] \in Nat
    BY <1>1, <1>2, <1>3, <1>4
  <1> HIDE DEF f, g
  <1>6. PICK S, T : S = 1..(n + 1) /\ T = 1..n
    OBVIOUS
  <1>7. IsFiniteSet(S) /\ IsFiniteSet(T)
    BY <1>1, <1>6, FS_Interval
  <1>8. n + 1 \in S /\ S \ {n + 1} = T
    <2>1. n + 1 \in S /\ n + 1 \notin T
      BY <1>1, <1>6
    <2>2. QED BY <1>4, <1>6, <2>1
  <1>9. SumFunctionOnSet(g, S) = SumFunctionOnSet(f, T) + row.cost
    <2>1. (\A i \in S : g[i] \in Nat) /\ (\A i \in T : f[i] \in Nat /\ g[i] = f[i])
      BY <1>5, <1>6
    <2>2. SumFunctionOnSet(g, S) = g[n + 1] + SumFunctionOnSet(g, S \ {n + 1})
      BY <1>7, <1>8, <2>1, SumWithout
    <2>3. SumFunctionOnSet(g, T) = SumFunctionOnSet(f, T)
      BY <1>7, <2>1, SumOfSameTerms
    <2>4. SumFunctionOnSet(f, T) \in Nat
      BY <1>7, <2>1, SumIsNat
    <2>5. PICK a \in Nat : a = SumFunctionOnSet(f, T)
      BY <2>4
    <2>6. SumFunctionOnSet(g, S) = row.cost + a
      BY <1>5, <1>8, <2>2, <2>3, <2>5
    <2>7. row.cost + a = a + row.cost
      BY <1>3, <2>5
    <2>8. QED BY <2>5, <2>6, <2>7
  <1>10. SumFunction(g) = SumFunction(f) + row.cost
    BY <1>5, <1>6, <1>9 DEF SumFunction
  <1>11. QED BY <1>1, <1>10 DEF f, g, n

LEMMA InitTellInv == SweepInit => TellInv
  <1> SUFFICES ASSUME SweepInit PROVE TellInv
    OBVIOUS
  <1>1. SweepInv
    BY InitSweepInv
  <1>2. PICK priced \in BOOLEAN : loop = FreshLoop(priced)
    BY DEF SweepInit, LoopInit
  <1>3. Counted(loop)
    BY <1>2, CountsFresh
  <1>4. loop.terminated = Null /\ "raised" # Null
    BY <1>2, NullApart DEF FreshLoop, Endings
  <1>5. Len(rows) = 0 /\ rows = <<>> /\ written = {} /\ sweep = "next" /\ billed = 0
    BY DEF SweepInit
  <1>6. 1..Len(rows) = {}
    BY <1>5
  <1>7. SumOfCosts = 0
    BY <1>6, SumOfNothing DEF SumOfCosts, SumFunction
  <1>8. QED BY <1>1, <1>3, <1>4, <1>5, <1>6, <1>7 DEF TellInv, Told

\* A row of its own for the next card keeps the report true.
LEMMA RowKeepsTold ==
  ASSUME SweepInv, Told, NEW row \in Rows, rows' = Append(rows, row),
         row.card = Len(rows) + 1,
         written' = IF row.terminated \in {"refused", "raised"}
                      THEN written ELSE written \cup {Len(rows) + 1},
         loop'.priced = loop.priced, loop'.terminated # "raised", sweep' = "next",
         loop.priced => billed' = billed + row.cost
  PROVE  Told'
  <1>1. rows \in Seq(Rows) /\ Len(rows) \in Nat /\ billed \in Nat
    BY DEF SweepInv, SweepTypeOK
  <1>2. PICK n \in Nat : n = Len(rows)
    BY <1>1
  <1>3. Len(rows') = n + 1 /\ rows'[n + 1] = row /\ \A i \in 1..n : rows'[i] = rows[i]
    BY <1>1, <1>2
  <1>4. (\A i : i \in 1..(n + 1) <=> i \in 1..n \/ i = n + 1) /\ n + 1 \notin 1..n
    OBVIOUS
  <1>5. /\ \A i \in 1..n : /\ rows[i].card = i
                           /\ i \in written <=> rows[i].terminated \notin {"refused", "raised"}
        /\ written \subseteq 1..n
    BY <1>2 DEF Told
  <1>6. written' \subseteq 1..(n + 1) /\ (\A i \in 1..n : i \in written' <=> i \in written)
        /\ (n + 1 \in written' <=> row.terminated \notin {"refused", "raised"})
    BY <1>2, <1>4, <1>5
  <1>7. \A i \in 1..(n + 1) :
          /\ rows'[i].card = i
          /\ i \in written' <=> rows'[i].terminated \notin {"refused", "raised"}
    BY <1>2, <1>3, <1>4, <1>5, <1>6
  <1>8. SumOfCosts' = SumOfCosts + row.cost
    BY <1>1, RowTold DEF SumOfCosts
  <1>9. loop'.priced => SumOfCosts' = billed'
    BY <1>8 DEF Told
  <1>10. QED BY <1>3, <1>6, <1>7, <1>9 DEF Told

LEMMA TellInvHolds == TellInv /\ [SweepNext]_sweepVars => TellInv'
  <1> SUFFICES ASSUME TellInv, [SweepNext]_sweepVars PROVE TellInv'
    OBVIOUS
  <1>1. SweepInv /\ SweepInv' /\ Counted(loop) /\ Told
    BY SweepInvHolds DEF TellInv
  <1>2. rows \in Seq(Rows) /\ Len(rows) \in Nat /\ NumCards \in Nat /\ Len(rows) <= NumCards
        /\ loop \in Loops /\ Good(loop, paid)
    BY <1>1, SweepAssumption DEF SweepInv, SweepTypeOK, LoopTypeOK
  <1>3. ASSUME loop' = loop, rows' = rows, written' = written, billed' = billed,
               sweep' # "reported" \/ Len(rows) = NumCards
        PROVE  TellInv'
    <2>1. Counted(loop)'
      BY <1>1, <1>3 DEF Counted, ResultsOf, Having, Nudges, InHand, Tried
    <2>2. Told'
      BY <1>1, <1>3 DEF Told, SumOfCosts
    <2>3. QED BY <1>1, <2>1, <2>2 DEF TellInv
  <1>4. CASE StartCard \/ Die \/ Report \/ UNCHANGED sweepVars
    <2>1. CASE StartCard \/ Die
      BY <1>3, <2>1 DEF StartCard, Die
    <2>2. CASE Report
      BY <1>2, <1>3, <2>2 DEF Report, Card
    <2>3. CASE UNCHANGED sweepVars
      BY <1>1, <1>3, <2>3 DEF sweepVars, Told
    <2>4. QED BY <1>4, <2>1, <2>2, <2>3
  <1>5. CASE RefuseCard
    <2>1. Card \in 1..NumCards /\ Card = Len(rows) + 1
      BY <1>2, <1>5 DEF RefuseCard, Card
    <2>2. PICK row : row = Row("refused", 0)
      OBVIOUS
    <2>3. row \in Rows /\ row.card = Len(rows) + 1 /\ row.terminated = "refused" /\ row.cost = 0
      BY <2>1, <2>2 DEF Row, Rows
    <2>4. /\ rows' = Append(rows, row) /\ written' = written /\ loop' = loop /\ sweep' = "next"
          /\ billed' = billed + 0 /\ loop.terminated # "raised"
      <3>1. billed \in Nat /\ loop.pc = "call"
        BY <1>1, <1>5 DEF SweepInv, SweepTypeOK, RefuseCard
      <3>2. loop.terminated # "raised"
        BY <1>2, <3>1, NullApart DEF Good, Talk, Between, Unanswered, Endings
      <3>3. QED BY <1>5, <2>2, <3>1, <3>2 DEF RefuseCard
    <2>5. Told'
      BY <1>1, <2>3, <2>4, RowKeepsTold
    <2>6. Counted(loop)'
      BY <1>1, <2>4 DEF Counted, ResultsOf, Having, Nudges, InHand, Tried
    <2>7. QED BY <1>1, <2>5, <2>6 DEF TellInv
  <1>6. CASE RunCard
    <2>1. Counted(loop)'
      BY <1>1, <1>2, <1>6, CountsTurn DEF RunCard
    <2>2. (loop.terminated = "raised" => ~loop.priced)' /\ loop'.priced = loop.priced
      BY <1>1, <1>2, <1>6, RaisedTurn DEF RunCard, Told
    <2>3. Told'
      BY <1>1, <1>6, <2>2 DEF RunCard, Told, SumOfCosts
    <2>4. QED BY <1>1, <2>1, <2>3 DEF TellInv
  <1>7. ASSUME NEW row \in Rows, row.card = Len(rows) + 1, CardOver(row),
               written' = IF row.terminated \in {"refused", "raised"}
                            THEN written ELSE written \cup {Len(rows) + 1},
               loop.priced => row.cost = paid
        PROVE  TellInv'
    <2>1. PICK t : t = FreshLoop(loop.priced)
      OBVIOUS
    <2>2. loop' = t /\ loop.priced \in BOOLEAN
      BY <1>2, <1>7, <2>1 DEF CardOver, Loops
    <2>3. Counted(t)
      BY <2>1, <2>2, CountsFresh
    <2>4. Counted(loop)'
      BY <2>2, <2>3 DEF Counted, ResultsOf, Having, Nudges, InHand, Tried
    <2>5. t.priced = loop.priced /\ t.terminated # "raised"
      BY <2>1, NullApart DEF FreshLoop, Endings
    <2>6. Told'
      BY <1>1, <1>7, <2>2, <2>5, RowKeepsTold DEF CardOver
    <2>7. QED BY <1>1, <2>4, <2>6 DEF TellInv
  <1>8. sweep = "card" => Card \in 1..NumCards /\ Card = Len(rows) + 1
    BY <1>1, <1>2 DEF SweepInv, Card
  <1>9. CASE CardRaised
    <2>1. PICK row : row = Row("raised", 0)
      OBVIOUS
    <2>2. row \in Rows /\ row.card = Len(rows) + 1 /\ row.terminated = "raised"
      BY <1>8, <1>9, <2>1 DEF CardRaised, CardOver, Row, Rows, Endings
    <2>3. CardOver(row) /\ written' = written /\ ~loop.priced
      BY <1>1, <1>9, <2>1 DEF CardRaised, Told
    <2>4. QED BY <1>7, <2>2, <2>3
  <1>10. CASE CardReturned
    <2>1. PICK row : row = Row(loop.terminated, loop.cost)
      OBVIOUS
    <2>2. loop.pc = "done" /\ loop.terminated # "raised" /\ sweep = "card"
      BY <1>10 DEF CardReturned, CardOver
    <2>3. loop.terminated \in Endings /\ loop.cost \in Nat /\ loop.cost = paid
      BY <1>2, <2>2 DEF Good, Costs, Loops
    <2>4. row \in Rows /\ row.card = Len(rows) + 1 /\ row.terminated = loop.terminated
          /\ row.cost = paid
      BY <1>8, <2>1, <2>2, <2>3 DEF Row, Rows
    <2>5. row.terminated \notin {"refused", "raised"}
      BY <2>2, <2>3, <2>4 DEF Endings
    <2>6. CardOver(row) /\ written' = written \cup {Len(rows) + 1}
      BY <1>8, <1>10, <2>1, <2>2 DEF CardReturned
    <2>7. QED BY <1>7, <2>4, <2>5, <2>6
  <1>11. QED
    BY <1>4, <1>5, <1>6, <1>9, <1>10 DEF SweepNext, SweepOver

LEMMA TellInvariant == SweepSpec => []TellInv
  BY InitTellInv, TellInvHolds, PTL DEF SweepSpec

\* The five counters of a result say what its conversation shows, at every
\* step of every card.
THEOREM GuardsAreRecorded == SweepSpec => []GuardsRecorded
  <1>1. ASSUME TellInv PROVE GuardsRecorded
    <2>1. loop \in Loops /\ Counted(loop)
      BY <1>1 DEF TellInv, SweepInv, SweepTypeOK, LoopTypeOK
    <2>2. ResultsSoFar = ResultsOf(loop) /\ (\A o : With(o) = Having(loop, o))
      BY DEF ResultsSoFar, ResultTurns, ResultsOf, With, Having
    <2>3. /\ loop.tool_calls \in Nat /\ loop.tool_retries \in Nat /\ ToolRetries \in Nat
          /\ loop.attempt \in 0..ToolRetries
      BY <2>1, CountTypes
    <2>4. Tried(loop) \in Nat /\ (loop.pc # "tool" => Tried(loop) = 0)
          /\ (loop.pc = "tool" => Tried(loop) <= ToolRetries)
      BY <2>3 DEF Tried
    <2>5. IsFiniteSet(Having(loop, "error")) /\ Cardinality(Having(loop, "error")) \in Nat
          /\ Cardinality(ResultsOf(loop)) \in Nat
      BY <2>1, FS_Subset, FS_CardinalityType DEF Counted, Having
    <2>6. loop.tool_retries >= ToolRetries * Cardinality(Having(loop, "error"))
      <3>1. PICK e \in Nat : e = Cardinality(Having(loop, "error"))
        BY <2>5
      <3>2. loop.tool_retries >= ToolRetries * e + Tried(loop) /\ ToolRetries * e \in Nat
        BY <2>1, <2>3, <3>1 DEF Counted
      <3>3. QED BY <2>3, <2>4, <3>1, <3>2
    <2>7. loop.tool_retries <= ToolRetries * loop.tool_calls
      <3>1. loop.tool_retries <= ToolRetries * (loop.tool_calls - InHand(loop)) + Tried(loop)
        BY <2>1 DEF Counted
      <3>2. CASE loop.pc # "tool"
        <4>1. loop.tool_calls - InHand(loop) = loop.tool_calls
          BY <2>3, <3>2 DEF InHand
        <4>2. ToolRetries * loop.tool_calls \in Nat
          BY <2>3
        <4>3. QED BY <2>3, <2>4, <3>1, <3>2, <4>1, <4>2
      <3>3. CASE loop.pc = "tool"
        <4>1. InHand(loop) = 1
          BY <3>3 DEF InHand
        <4>2. loop.tool_calls >= 1
          BY <2>1, <2>5, <4>1 DEF Counted
        <4>3. PICK k \in Nat : k = loop.tool_calls - 1
          BY <2>3, <4>2
        <4>4. loop.tool_calls = k + 1 /\ loop.tool_calls - InHand(loop) = k
          BY <2>3, <4>1, <4>3
        <4>5. ToolRetries * (k + 1) = ToolRetries * k + ToolRetries /\ ToolRetries * k \in Nat
          BY <2>3, TimesNext
        <4>6. loop.tool_retries <= ToolRetries * k + Tried(loop)
          BY <3>1, <4>4
        <4>7. loop.tool_retries <= ToolRetries * (k + 1)
          BY <2>3, <2>4, <3>3, <4>5, <4>6
        <4>8. QED BY <4>4, <4>7
      <3>4. QED BY <3>2, <3>3
    <2>8. loop.tool_calls = Cardinality(ResultsOf(loop))
             + (IF loop.answer # Null THEN 1 ELSE 0) + (IF loop.pc = "tool" THEN 1 ELSE 0)
      BY <2>1 DEF Counted, InHand
    <2>9. QED BY <2>1, <2>2, <2>6, <2>7, <2>8 DEF GuardsRecorded, Counted, Nudges
  <1>2. QED BY <1>1, TellInvariant, PTL

\* A report has one row per card, rests on the files on disk and adds up to
\* what a priced sweep was charged.
THEOREM ReportsTellAll == SweepSpec => []ReportTellsAll
  <1>1. TellInv => ReportTellsAll
    BY DEF TellInv, Told, ReportTellsAll
  <1>2. QED BY <1>1, TellInvariant, PTL

=============================================================================
