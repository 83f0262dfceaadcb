---------------------------- MODULE DurableStore ----------------------------
(***************************************************************************)
(* What the persistence layer promises, without files: a store of writes   *)
(* with a volatile part and a durable part.  The durable part never        *)
(* shrinks, and a start restores exactly the durable part.                 *)
(***************************************************************************)
CONSTANT Write

VARIABLES
    live,     \* the writes the running process has applied
    durable,  \* the writes a start would restore
    running   \* the process serves requests

vars == <<live, durable, running>>

Init == live = {} /\ durable = {} /\ running = FALSE

\* A write is logged before it is applied; one applied without a log entry is
\* volatile until the next Harden.
Log(w) ==
    /\ running /\ w \notin live \cup durable
    /\ durable' = durable \cup {w}
    /\ UNCHANGED <<live, running>>

Apply(w) ==
    /\ running /\ w \notin live
    /\ live' = live \cup {w}
    /\ UNCHANGED <<durable, running>>

\* A persist makes writes durable that were not, and forgets none.
Harden ==
    /\ running
    /\ \E S \in SUBSET live : durable' = durable \cup S
    /\ UNCHANGED <<live, running>>

Fail == live' = {} /\ running' = FALSE /\ UNCHANGED durable

Start ==
    /\ ~running
    /\ live' = durable /\ running' = TRUE
    /\ UNCHANGED durable

Next ==
    \/ \E w \in Write : Log(w) \/ Apply(w)
    \/ Harden \/ Fail \/ Start

Spec == Init /\ [][Next]_vars
=============================================================================
