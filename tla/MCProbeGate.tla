---------------------------- MODULE MCProbeGate -----------------------------
(* What may be lost, for TLC: any one query, those of several services in    *)
(* one window, or backends that are down through some of the windows.        *)
EXTENDS ProbeGate

Outages == {down \X backends : down \in SUBSET Windows,
                               backends \in SUBSET {"services", "memory", "rate"}}
Gaps == {{w} \X services : w \in Windows, services \in SUBSET {"ailing", "well", "own"}}
SomeLosses == {{q} : q \in Queries} \cup Gaps \cup Outages

=============================================================================
