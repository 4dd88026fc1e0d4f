------------------------------- MODULE Detect -------------------------------
(***************************************************************************)
(* server_detect.c: the main thread handling a speaker's beacon and the    *)
(* online-detect thread counting speakers down.  Neither takes a lock, so  *)
(* a step is what one thread does between two accesses of a field that the *)
(* other reads or writes.                                                  *)
(* A beacon that is malformed, has an empty mask or finds add_speaker      *)
(* failing returns before it changes anything and is not an action; nor is *)
(* the answer to the speaker, which changes no state of the server.        *)
(***************************************************************************)
EXTENDS Pusher

VARIABLES
    main,    \* the event loop inside srv_detect_read
    online   \* thread_online_detect

detectVars == <<main, online>>

\* num is what socket() returned.
MainIdle == [pc |-> "idle", sp |-> Nobody, new |-> FALSE, num |-> NoFd]

DetectTypeOK ==
    /\ main \in [pc : {"idle", "check", "connect", "socket", "store", "share"},
                 sp : Speakers \cup {Nobody}, new : BOOLEAN,
                 num : {NoFd} \cup Fds]
    /\ main.pc # "idle" => main.sp \in Speakers
    /\ online \in [pc : {"sleep", "walk", "store", "offline", "test",
                         "reload", "close"},
                   sp : Speakers \cup {Nobody},
                   loaded : TimeoutFloor..SpeakerTimeout,
                   seen : SUBSET Speakers, call : DisconnectCalls]
    /\ online.pc \notin {"sleep", "walk"} => online.sp \in Speakers

\* The online thread between two speakers, and between two passes.
Walking(seen) == [pc |-> "walk", sp |-> Nobody, loaded |-> 0, seen |-> seen,
                  call |-> NoCall]
Sleeping == [Walking({}) EXCEPT !.pc = "sleep"]

DetectInit ==
    /\ main = MainIdle
    /\ online = Sleeping

(***************************************************************************)
(* srv_detect_read -> valid_speaker                                        *)
(***************************************************************************)

\* A beacon of a speaker already in the list: its support is overwritten.
BeaconKnown(s, support) ==
    /\ main.pc = "idle"
    /\ s \in listed
    /\ supported' = [supported EXCEPT ![s] = support]
    /\ main' = [MainIdle EXCEPT !.pc = "check", !.sp = s]
    /\ UNCHANGED <<listed, state, timeout, fd, kern, online>>

\* MUTANT of BeaconNew: the speaker is not linked into the list.
BeaconUnlisted(s, support) ==
    /\ main.pc = "idle"
    /\ s \notin listed
    /\ supported' = [supported EXCEPT ![s] = support]
    /\ main' = [MainIdle EXCEPT !.pc = "check", !.sp = s, !.new = TRUE]
    /\ UNCHANGED <<listed, state, timeout, fd, kern, online>>

\* A beacon of a speaker find_speaker_by_id does not know.  From here on the
\* other threads meet the speaker in the list, still neither on- nor offline;
\* as long as it is not online none of them looks at its support.
BeaconNew(s, support) ==
    /\ main.pc = "idle"
    /\ s \notin listed
    /\ listed' = listed \cup {s}
    /\ supported' = [supported EXCEPT ![s] = support]
    /\ main' = [MainIdle EXCEPT !.pc = "check", !.sp = s, !.new = TRUE]
    /\ UNCHANGED <<state, timeout, fd, kern, online>>

\* MUTANT of BeaconCheckOnline: a known speaker is connected again.
BeaconReconnectKnown ==
    /\ main.pc = "check"
    /\ speaker_check_online(main.sp)
    /\ main' = [main EXCEPT !.pc = "connect"]
    /\ UNCHANGED <<listed, supported, fd, kern, online>>

\* speaker_check_online; only a new speaker goes on to be connected.
BeaconCheckOnline ==
    /\ main.pc = "check"
    /\ speaker_check_online(main.sp)
    /\ main' = IF main.new THEN [main EXCEPT !.pc = "connect"] ELSE MainIdle
    /\ UNCHANGED <<listed, supported, fd, kern, online>>

BeaconConnect ==
    /\ main.pc = "connect"
    /\ main' = IF ConnectAdmitted(main.sp)
               THEN [main EXCEPT !.pc = "socket"] ELSE MainIdle
    /\ UNCHANGED <<tableVars, online>>

\* server_sppush_connect behind its tests: socket() ...
BeaconSocket ==
    /\ main.pc = "socket"
    /\ \E n \in {NoFd} \cup Fds :
         /\ NewSocket(main.sp, n)
         /\ main' = [main EXCEPT !.pc = "store", !.num = n]
    /\ UNCHANGED <<listed, state, supported, timeout, fd, online>>

\* ... its result put into speaker->fd ...
BeaconStore ==
    /\ main.pc = "store"
    /\ StoreFd(main.sp, main.num)
    /\ main' = IF main.num < 0 THEN [main EXCEPT !.pc = "share"] ELSE MainIdle
    /\ UNCHANGED <<listed, state, supported, timeout, kern, online>>

\* MUTANT of BeaconShare: the conn of another file's socket is taken.
BeaconShareOther ==
    /\ main.pc = "share"
    /\ \E n \in BaseFds \ {PushFd} : StoreFd(main.sp, n)
    /\ main' = MainIdle
    /\ UNCHANGED <<listed, state, supported, timeout, kern, online>>

\* ... and replaced by the number of the pusher's own socket if it is none.
\* connect() may fail: its result is ignored by the caller, nothing is undone.
BeaconShare ==
    /\ main.pc = "share"
    /\ StoreFd(main.sp, PushFd)
    /\ main' = MainIdle
    /\ UNCHANGED <<listed, state, supported, timeout, kern, online>>

(***************************************************************************)
(* thread_online_detect: for each speaker  if (sp->timeout-- <= 0)         *)
(* { SPEAKER_OFFLINE(sp); server_sppush_disconnect(sp); }  then sleep(5).  *)
(***************************************************************************)

OnlineWake ==
    /\ online.pc = "sleep"
    /\ online' = Walking({})
    /\ UNCHANGED <<tableVars, main>>

\* The read half of timeout--.
OnlineLoad(s) ==
    /\ online.pc = "walk"
    /\ s \in listed \ online.seen
    /\ online' = [Walking(online.seen \cup {s}) EXCEPT
                    !.pc = "store", !.sp = s, !.loaded = timeout[s]]
    /\ UNCHANGED <<tableVars, main>>

\* MUTANT of OnlineStore: the test is "< 0".
OnlineStoreOneLate ==
    /\ online.pc = "store"
    /\ timeout' = [timeout EXCEPT ![online.sp] =
                     IF online.loaded > TimeoutFloor
                     THEN online.loaded - 1 ELSE TimeoutFloor]
    /\ online' = IF online.loaded < 0
                 THEN [online EXCEPT !.pc = "offline", !.loaded = 0]
                 ELSE Walking(online.seen)
    /\ UNCHANGED <<listed, state, supported, fd, kern, main>>

\* MUTANT of OnlineStore: the decremented value is not written back.
OnlineStoreLost ==
    /\ online.pc = "store"
    /\ online' = IF online.loaded <= 0
                 THEN [online EXCEPT !.pc = "offline", !.loaded = 0]
                 ELSE Walking(online.seen)
    /\ UNCHANGED <<tableVars, main>>

\* The write half, and the test of the value that was read.
OnlineStore ==
    /\ online.pc = "store"
    /\ timeout' = [timeout EXCEPT ![online.sp] =
                     IF online.loaded > TimeoutFloor
                     THEN online.loaded - 1 ELSE TimeoutFloor]
    /\ online' = IF online.loaded <= 0
                 THEN [online EXCEPT !.pc = "offline", !.loaded = 0]
                 ELSE Walking(online.seen)
    /\ UNCHANGED <<listed, state, supported, fd, kern, main>>

OnlineOffline ==
    /\ online.pc = "offline"
    /\ state' = [state EXCEPT ![online.sp] = "offline"]
    /\ online' = [online EXCEPT !.pc = "test"]
    /\ UNCHANGED <<listed, supported, timeout, fd, kern, main>>

\* server_sppush_disconnect(sp): the test, and the number it has tested.
OnlineTest ==
    /\ online.pc = "test"
    /\ online' = IF Spared(online.sp) THEN Walking(online.seen)
                 ELSE [online EXCEPT !.pc = "reload",
                                     !.call.tested = fd[online.sp]]
    /\ UNCHANGED <<tableVars, main>>

\* The number it is going to close.
OnlineReload ==
    /\ online.pc = "reload"
    /\ online' = [online EXCEPT !.pc = "close", !.call.num = fd[online.sp]]
    /\ UNCHANGED <<tableVars, main>>

\* MUTANT of OnlineClose: the socket is kept.
OnlineKeep ==
    /\ online.pc = "close"
    /\ online' = Walking(online.seen)
    /\ UNCHANGED <<tableVars, main>>

OnlineClose ==
    /\ online.pc = "close"
    /\ CloseNumber(online.call.num)
    /\ online' = Walking(online.seen)
    /\ UNCHANGED <<listed, state, supported, timeout, fd, main>>

\* The list is exhausted, speakers appended during the pass included.
OnlineSleep ==
    /\ online.pc = "walk"
    /\ listed \subseteq online.seen
    /\ online' = Sleeping
    /\ UNCHANGED <<tableVars, main>>

MainStep ==
    \/ \E s \in Speakers, support \in BOOLEAN :
         BeaconKnown(s, support) \/ BeaconNew(s, support)
    \/ BeaconCheckOnline
    \/ BeaconConnect
    \/ BeaconSocket
    \/ BeaconStore
    \/ BeaconShare

OnlineStep ==
    \/ OnlineWake
    \/ \E s \in Speakers : OnlineLoad(s)
    \/ OnlineStore
    \/ OnlineOffline
    \/ OnlineTest
    \/ OnlineReload
    \/ OnlineClose
    \/ OnlineSleep

DetectNext == MainStep \/ OnlineStep
=============================================================================
