------------------------------- MODULE Pusher -------------------------------
(***************************************************************************)
(* server_speaker_pusher.c: the socket pre-connected for a speaker, its    *)
(* closing, and what the pusher does for one speaker of one PCM chunk.     *)
(* These are fragments of actions, each one access of shared state: the    *)
(* thread that runs them conjoins its own program counter.                 *)
(***************************************************************************)
EXTENDS SpeakerTable

\* The two tests at the head of server_sppush_connect.
ConnectAdmitted(s) == supported[s] /\ state[s] = "online"

\* speaker->fd = socket(...) is a call and a store; n is what the call returns
\* when it makes a socket for s, or finds no descriptor left.
NewSocket(s, n) ==
    \/ /\ IsNextFd(n)
       /\ kern' = [kern EXCEPT ![n] = s]
    \/ /\ FreeFds = {}
       /\ n = NoFd
       /\ UNCHANGED kern

StoreFd(s, n) == fd' = [fd EXCEPT ![s] = n]

\* MUTANT of Spared: the shared socket is closed like any other.
SparedUnset(s) == fd[s] < 0

\* The test at the head of server_sppush_disconnect.  Behind it speaker->fd is
\* read again, for close; shutdown comes first and concerns receiving only,
\* which nobody does on a speaker's socket.  speaker->fd keeps its number.
Spared(s) == fd[s] < 0 \/ fd[s] = PushFd

\* Where a call of server_sppush_disconnect is: nothing behind the test yet.
NoCall == [tested |-> NoFd, num |-> NoFd]
DisconnectCalls == [tested : {NoFd} \cup Fds, num : {NoFd} \cup Fds]

\* The conditions under which pusher_sendto_speaker refuses to send.
Unreachable(s) == state[s] # "online" \/ fd[s] <= 0
SendRefused(s) == Unreachable(s) \/ ~supported[s]
=============================================================================
