----------------------------- MODULE SpeakerLife -----------------------------
(***************************************************************************)
(* What the server promises of a speaker's connection, without threads,    *)
(* beacons or descriptor numbers.  A speaker is found once; while it is    *)
(* being found it gets a socket of its own, the shared one, or none, and   *)
(* that is its only chance.  A socket of its own can be lost at any time,  *)
(* one speaker's at a time, and nothing takes its place; the shared one is *)
(* lost by all at once, or, if SharedStays, never.                         *)
(***************************************************************************)
CONSTANTS Speakers, SharedStays

VARIABLES
    phase,   \* how far the server knows a speaker
    link,    \* the socket it can be sent audio on
    up       \* the process runs

lifeVars == <<phase, link, up>>

Init ==
    /\ phase = [s \in Speakers |-> "unknown"]
    /\ link = [s \in Speakers |-> "none"]
    /\ up = TRUE

\* One speaker is found at a time.
Find(s) ==
    /\ phase[s] = "unknown"
    /\ \A t \in Speakers : phase[t] # "finding"
    /\ phase' = [phase EXCEPT ![s] = "finding"]
    /\ UNCHANGED <<link, up>>

Settle(s) ==
    /\ phase[s] = "finding"
    /\ phase' = [phase EXCEPT ![s] = "settled"]
    /\ \E l \in {"none", "own", "shared"} : link' = [link EXCEPT ![s] = l]
    /\ UNCHANGED up

Lose(s) ==
    /\ link[s] = "own"
    /\ link' = [link EXCEPT ![s] = "none"]
    /\ UNCHANGED <<phase, up>>

LoseShared ==
    /\ ~SharedStays
    /\ link' = [s \in Speakers |-> IF link[s] = "shared" THEN "none" ELSE link[s]]
    /\ UNCHANGED <<phase, up>>

Die ==
    /\ up' = FALSE
    /\ UNCHANGED <<phase, link>>

Next ==
    /\ up
    /\ \/ \E s \in Speakers : Find(s) \/ Settle(s) \/ Lose(s)
       \/ LoseShared
       \/ Die

Spec == Init /\ [][Next]_lifeVars
=============================================================================
