--------------------------- MODULE MCBatchRunner ----------------------------
(* Batches for TLC: each list is what one batch of cards, or one cycles file, *)
(* would inject.                                                              *)
EXTENDS BatchRunner

On(prim, svc) == [prim |-> prim, svc |-> svc]

\* Each primitive once, on one service.
EachOnce == <<On("drop_inbound", "cart"), On("delay_outbound", "cart"),
              On("kill_container", "cart"), On("set_flag", "cart")>>

\* The same service is crashed twice, then a flag of its neighbour is switched.
CrashTwice == <<On("kill_container", "cart"), On("kill_container", "cart"),
                On("set_flag", "email")>>

\* Two cards with a rule for the same service.
DropTwice == <<On("drop_inbound", "cart"), On("drop_inbound", "cart")>>

\* Two cycles that are only looked at.
Watched == <<On("delay_outbound", "cart"), On("kill_container", "cart")>>

MCPlans == {
    [cycles |-> EachOnce,   cards |-> FALSE, observe |-> FALSE],
    [cycles |-> DropTwice,  cards |-> TRUE,  observe |-> FALSE],
    [cycles |-> CrashTwice, cards |-> TRUE,  observe |-> FALSE],
    [cycles |-> Watched,    cards |-> FALSE, observe |-> TRUE],
    [cycles |-> Watched,    cards |-> TRUE,  observe |-> TRUE]}

=============================================================================
