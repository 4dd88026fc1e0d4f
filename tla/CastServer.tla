----------------------------- MODULE CastServer -----------------------------
(***************************************************************************)
(* The running server: the event loop, the online-detect thread, the       *)
(* control-socket thread and the HTTP thread, interleaved over the speaker *)
(* table and the descriptor table they share without a lock.               *)
(***************************************************************************)
EXTENDS Detect, CommandControl, Http

vars == <<tableVars, detectVars, ctl, http>>

Init == TableInit /\ DetectInit /\ CommandInit /\ HttpInit

\* The threads run until one of them aborts the process.
Next ==
    /\ ~Aborted
    /\ \/ DetectNext /\ UNCHANGED <<ctl, http>>
       \/ CommandNext /\ UNCHANGED <<detectVars, http>>
       \/ HttpNext /\ UNCHANGED <<detectVars, ctl>>

Spec == Init /\ [][Next]_vars

\* The kernel schedules every runnable thread: a callback that has begun, the
\* pass of the online thread and a command that has begun all go on.  Nothing
\* makes a beacon, a client, its next chunk or the end of its stream arrive.
Fairness ==
    /\ WF_vars(/\ ~Aborted
               /\ \/ BeaconCheckOnline \/ BeaconConnect
                  \/ BeaconSocket \/ BeaconStore \/ BeaconShare
               /\ UNCHANGED <<ctl, http>>)
    /\ WF_vars(~Aborted /\ OnlineStep /\ UNCHANGED <<ctl, http>>)
    /\ WF_vars(~Aborted /\ CommandStep /\ UNCHANGED <<detectVars, http>>)

FairSpec == Spec /\ Fairness

(***************************************************************************)
(* Safety                                                                  *)
(***************************************************************************)

\* speaker->fd denotes the socket opened for this speaker, and it is open.
HasOwnSocket(s) == fd[s] \in Fds /\ kern[fd[s]] = s

\* The pointers the threads hold are of speakers in the list.
InHandListed ==
    /\ main.pc # "idle" => main.sp \in listed
    /\ online.pc \notin {"sleep", "walk"} => online.sp \in listed
    /\ ctl.pc \in {"test", "reload", "close"} => ctl.sp \in listed

TypeOK ==
    /\ TableTypeOK
    /\ DetectTypeOK
    /\ CommandTypeOK
    /\ HttpTypeOK
    /\ InHandListed

\* However often stale descriptor numbers are closed, and whatever changes
\* between the test of server_sppush_disconnect and its close, the sockets the
\* server itself listens and sends on stay open; but for the pusher's own one
\* if add_speaker leaves speaker->fd 0.
BaseSocketsOpen ==
    \A f \in BaseFds : kern[f] = "base" \/ (f = PushFd /\ UnsetFd = 0)

\* That one is closed in a single way: by a call of server_sppush_disconnect
\* that had tested speaker->fd before the speaker's first connect, when it was
\* 0, and read it again after the connect had fallen back to the pusher's
\* socket.  No call that finds its number in the test closes it.
SharedSocketSpared ==
    [][kern[PushFd] = "base" /\ kern'[PushFd] # "base"
         => \/ online.pc = "close" /\ online.call = [tested |-> 0, num |-> PushFd]
            \/ ctl.pc = "close" /\ ctl.call = [tested |-> 0, num |-> PushFd]]_vars

\* Every socket server_sppush_connect opened and nobody closed is still the
\* one its speaker holds the number of, or about to be stored there, so the
\* server does not lose track of it: speakers that come and go leak no socket,
\* whatever the threads interleave.
NoSocketLeak ==
    \A f \in Fds :
        kern[f] \in Speakers
          => \/ fd[kern[f]] = f
             \/ main.pc = "store" /\ main.sp = kern[f] /\ main.num = f

\* thread_online_detect against speaker_check_online: the countdown and the
\* state are written by separate, unlocked steps of two threads, yet a
\* speaker shown online has passes left unless the online thread is at that
\* moment about to take it offline.
OnlineHasTimeLeft ==
    \A s \in Speakers :
        state[s] = "online" /\ timeout[s] < 0
          => online.pc = "offline" /\ online.sp = s

\* How often the online thread must still visit a speaker to take it offline.
PassesLeft(s) ==
    IF state[s] # "online" \/ (online.pc = "offline" /\ online.sp = s)
    THEN 0 ELSE timeout[s] + 1

\* Only these may bring a speaker back: its beacon, and the pusher when it
\* finds the speaker unreachable.
News(s) == (BeaconCheckOnline /\ main.sp = s) \/ PushRefused(s)

\* A step of the online thread that ends its  sp->timeout-- <= 0  for s.
Visited(s) == online.pc = "store" /\ online.sp = s /\ online' # online

\* timeout-- is a read and a later write, and a beacon may come between: still
\* no step but news of a speaker gives it more passes, and each visit takes at
\* least one away, so that a silent speaker is visited SpeakerTimeout + 1 times
\* at most before it goes offline.
QuietCountsDown ==
    [][\A s \in Speakers :
         /\ ~News(s) => PassesLeft(s)' <= PassesLeft(s)
         /\ Visited(s) /\ PassesLeft(s) > 0
              => PassesLeft(s)' < PassesLeft(s)]_vars

\* A socket of its own the server will close: once the pusher's is lost its
\* number may become a speaker's, and is spared like before.
HasCloseable(s) == HasOwnSocket(s) /\ fd[s] # PushFd

\* The online thread has begun to close it, with no other number in hand.
ClosingNow(s) ==
    /\ online.sp = s
    /\ \/ online.pc \in {"offline", "test", "reload"}
       \/ online.pc = "close" /\ online.call.num = fd[s]

\* How often the online thread must still come by to close a speaker's socket:
\* once when it has begun to, else for each pass left and twice more.
VisitsToClose(s) ==
    IF ~HasCloseable(s) THEN 0
    ELSE IF ClosingNow(s) THEN 1
    ELSE IF timeout[s] > 0 THEN timeout[s] + 2 ELSE 2

Connects(s) == (BeaconSocket \/ BeaconStore) /\ main.sp = s

\* The socket of a silent speaker is closed for good within so many visits,
\* online or not, even one that valid_speaker opened after the online thread
\* had taken the speaker offline and closed, or read, its number.
SilentSocketCloses ==
    [][\A s \in Speakers :
         /\ ~News(s) /\ ~Connects(s) => VisitsToClose(s)' <= VisitsToClose(s)
         /\ Visited(s) /\ VisitsToClose(s) > 0
              => VisitsToClose(s)' < VisitsToClose(s)]_vars

\* cmd_speakers sends the client as many entries as it counted, though it
\* skips speakers still in their first beacon and the list may grow and change
\* state meanwhile: of the entries counted, at most one is sent unset.
OneEntryUnset ==
    ctl.pc = "copy" /\ listed \subseteq ctl.done
      => \A s, t \in ctl.counted \ ctl.copied : s = t

(***************************************************************************)
(* The life of a speaker: what a sequence of beacons, timeouts, refused    *)
(* pushes and stale closes can do to its connection.                       *)
(***************************************************************************)
Finding(s) == main.pc # "idle" /\ main.new /\ main.sp = s

PhaseOf(s) == IF s \notin listed THEN "unknown"
              ELSE IF Finding(s) THEN "finding" ELSE "settled"

\* What becomes of the socket is settled with speaker->fd.
LinkOf(s) == IF PhaseOf(s) # "settled" THEN "none"
             ELSE IF HasOwnSocket(s) THEN "own"
             ELSE IF fd[s] = PushFd /\ kern[PushFd] = "base" THEN "shared"
             ELSE "none"

Life == INSTANCE SpeakerLife WITH
            phase <- [s \in Speakers |-> PhaseOf(s)],
            link <- [s \in Speakers |-> LinkOf(s)],
            SharedStays <- UnsetFd # 0,
            up <- ~Aborted

\* Through every interleaving a speaker has one chance at a socket, its first
\* beacon; a socket lost, to a timeout or to the close of a number that had
\* become its own, is never replaced; sharing the pusher's is for good, as far
\* as that one is.
ImplementsLife == Life!Spec

(***************************************************************************)
(* Liveness                                                                *)
(***************************************************************************)

\* "Clients that time out go offline by themselves" (thread_online_detect): a
\* speaker that is heard no more, while no chunk is pushed, ends offline for
\* good however its last beacon raced with the countdown, if the server lives.
SilentGoesOffline ==
    \A s \in Speakers :
        <>[](main.sp # s /\ ctl.pc # "push") /\ []~Aborted
          => <>[](state[s] # "online")

\* The socket of a speaker that has gone offline is closed, or the speaker is
\* back online first, even when a racing beacon rearmed the countdown.
OfflineReleasesSocket ==
    \A s \in Speakers :
        state[s] = "offline"
          ~> (state[s] # "offline" \/ ~HasCloseable(s) \/ Aborted)

(***************************************************************************)
(* What comments and documents of the repository say and the code does not *)
(* do.  A run of its own finds each of them violated.                      *)
(***************************************************************************)

\* "if (0 != close(fd)) abort();" (ahc_echo): closing the file it has just
\* opened never fails.
HttpNeverAborts == ~Aborted

\* "speakers are discovered automatically" (README): a supported speaker that
\* stays online gets a socket to be sent audio on.  valid_speaker connects
\* new speakers only, not one that comes back or becomes supported later.
DiscoveredIsConnected ==
    \A s \in Speakers :
        (state[s] = "online" /\ supported[s])
          ~> (\/ state[s] # "online" \/ ~supported[s]
              \/ HasOwnSocket(s) \/ fd[s] = PushFd \/ Aborted)
=============================================================================
