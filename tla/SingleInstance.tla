--------------------------- MODULE SingleInstance ---------------------------
(***************************************************************************)
(* What castserver processes achieve by asking the network before they     *)
(* start, without the asking: no datagrams, no timeouts, no control path.  *)
(* A process that starts has to outlast every server that was up when it   *)
(* started; of its own host it has to outlast all.  Of processes that      *)
(* start before each other's coming up it says nothing: they may all come  *)
(* up.                                                                     *)
(***************************************************************************)
CONSTANTS Servers, HostOf

VARIABLES
    starting,   \* processes between their probe and their end or coming up
    up,         \* servers
    before      \* per process: the servers that were up when it started and
                \* have been up ever since

instanceVars == <<starting, up, before>>

Init ==
    /\ starting = {}
    /\ up = {}
    /\ before = [i \in Servers |-> {}]

Start(i) ==
    /\ i \notin starting \cup up
    /\ starting' = starting \cup {i}
    /\ before' = [before EXCEPT ![i] = up]
    /\ UNCHANGED up

ComeUp(i) ==
    /\ i \in starting
    /\ before[i] = {}
    /\ \A j \in up : HostOf[j] # HostOf[i]
    /\ starting' = starting \ {i}
    /\ up' = up \cup {i}
    /\ UNCHANGED before

End(i) ==
    /\ i \in starting \cup up
    /\ starting' = starting \ {i}
    /\ up' = up \ {i}
    /\ before' = [k \in Servers |-> IF k = i THEN {} ELSE before[k] \ {i}]

Next == \E i \in Servers : Start(i) \/ ComeUp(i) \/ End(i)

Spec == Init /\ [][Next]_instanceVars
=============================================================================
