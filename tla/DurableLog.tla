------------------------------ MODULE DurableLog ------------------------------
(***************************************************************************)
(* What a streaming writer promises (streamingwriter.h, DECISIONS section  *)
(* 7), without blocks, chunks or system calls: a log of samples 1, 2, 3... *)
(* that grows in the order the application hands them over, of which some  *)
(* beginning is durable.  A power loss takes the end of the log and leaves *)
(* what is durable; a sample is acknowledged only once it is.              *)
(***************************************************************************)
EXTENDS Integers

VARIABLES
    offered,   \* samples handed over
    written,   \* the log is 1, ..., written
    durable,   \* its durable beginning is 1, ..., durable
    acked,     \* the samples the application may rely on
    up         \* the writer takes samples

vars == <<offered, written, durable, acked, up>>

Init ==
    /\ offered = 0
    /\ written = 0
    /\ durable = 0
    /\ acked = {}
    /\ up \in BOOLEAN

Offer ==
    /\ up
    /\ offered' \in Nat /\ offered' > offered
    /\ UNCHANGED <<written, durable, acked, up>>

\* The next samples, as many as one likes, reach the log together.
Write ==
    /\ up
    /\ written' \in (written + 1)..offered
    /\ UNCHANGED <<offered, durable, acked, up>>

\* The log becomes durable up to its end; a call whose last sample that is may
\* then be acknowledged.
Sync ==
    /\ up
    /\ durable' = written
    /\ \/ UNCHANGED acked
       \/ \E first \in 1..written : acked' = acked \cup first..written
    /\ UNCHANGED <<offered, written, up>>

\* An error, the end of the recording, or a power loss: nothing is added any
\* more, and what is not durable may be lost.
Down ==
    /\ up' = FALSE
    /\ written' \in durable..written
    /\ UNCHANGED <<offered, durable, acked>>

Next == Offer \/ Write \/ Sync \/ Down

Spec == Init /\ [][Next]_vars
---------------------------------------------------------------------------
\* The promise: an acknowledged sample is durable, and what is durable is in the
\* log, in front of what is not.
Promise ==
    /\ acked \subseteq 1..durable
    /\ durable <= written /\ written <= offered
=============================================================================
