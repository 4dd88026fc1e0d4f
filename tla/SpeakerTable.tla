---------------------------- MODULE SpeakerTable ----------------------------
(***************************************************************************)
(* The state the threads of the server share without a lock: the speaker   *)
(* list (speaker_t of the common library, not in this repository) and the  *)
(* process's descriptor table.  The fields kept are the ones server code   *)
(* branches on.  The line, channel and address of a speaker never change   *)
(* once it is added and play no part here; every speaker has a data port.  *)
(***************************************************************************)
EXTENDS Integers, FiniteSets

CONSTANTS
    Speakers,        \* ids that beacons may carry
    Nobody,          \* "no speaker": the speaker pointer of an idle thread
    SpeakerTimeout,  \* passes of the online thread a beacon is good for
    UnsetFd,         \* speaker->fd as add_speaker leaves it: -1 or 0
    BaseFds,         \* the sockets the server opens before its event loop
    PushFd,          \* the pusher's own one among them
    MaxFd            \* the process's highest descriptor number

Fds == 0..MaxFd

\* What a descriptor number denotes.  A speaker stands for the UDP socket
\* that server_sppush_connect opened for it.
Holders == {"free", "std", "base", "client", "http", "file"} \cup Speakers

ASSUME TableAssumption ==
    /\ IsFiniteSet(Speakers)
    /\ Nobody \notin Speakers
    /\ Speakers \cap {"free", "std", "base", "client", "http", "file"} = {}
    /\ SpeakerTimeout \in Nat \ {0}
    /\ UnsetFd \in {-1, 0}
    /\ MaxFd \in Nat
    /\ BaseFds \subseteq 3..MaxFd
    /\ PushFd \in BaseFds

VARIABLES
    listed,     \* speakers add_speaker has put in the list
    state,      \* speaker->state
    supported,  \* speaker->supported
    timeout,    \* speaker->timeout
    fd,         \* speaker->fd: -1, 0 or the number socket() returned
    kern        \* the kernel's descriptor table

tableVars == <<listed, state, supported, timeout, fd, kern>>

\* timeout is only ever tested with "<= 0", so every negative value behaves
\* as -1; the countdown stops there instead of running to INT_MIN.
TimeoutFloor == -1

TableTypeOK ==
    /\ listed \subseteq Speakers
    /\ state \in [Speakers -> {"none", "online", "offline"}]
    /\ supported \in [Speakers -> BOOLEAN]
    /\ timeout \in [Speakers -> TimeoutFloor..SpeakerTimeout]
    /\ fd \in [Speakers -> {-1} \cup Fds]
    /\ kern \in [Fds -> Holders]

TableInit ==
    /\ listed = {}
    /\ state = [s \in Speakers |-> "none"]
    /\ supported = [s \in Speakers |-> FALSE]
    /\ timeout = [s \in Speakers |-> 0]
    /\ fd = [s \in Speakers |-> UnsetFd]
    /\ kern = [f \in Fds |-> IF f <= 2 THEN "std"
                             ELSE IF f \in BaseFds THEN "base" ELSE "free"]

(***************************************************************************)
(* The common library.                                                     *)
(***************************************************************************)

\* speaker_check_online(sp) as srv_detect_read needs it: nothing else brings
\* a known speaker back, and a new one must be online for the connect that
\* follows, so the call sets the state and rearms the countdown.
speaker_check_online(s) ==
    /\ state' = [state EXCEPT ![s] = "online"]
    /\ timeout' = [timeout EXCEPT ![s] = SpeakerTimeout]

\* The same call made by the pusher, for a speaker it has no news of: what
\* the library decides then cannot be read from this code, so it may rearm
\* the speaker or leave it alone.
speaker_recheck_online(s) ==
    \/ speaker_check_online(s)
    \/ UNCHANGED <<state, timeout>>

\* What a call that returns a descriptor returns when there is none.
NoFd == -1

\* POSIX: a new descriptor is the lowest number not in use.
FreeFds == {f \in Fds : kern[f] = "free"}
IsNextFd(f) == f \in FreeFds /\ \A g \in FreeFds : f <= g

\* close(2) by number: it fails, and changes nothing, if none is open there.
CloseNumber(f) == kern' = [g \in Fds |-> IF g = f THEN "free" ELSE kern[g]]
=============================================================================
