-------------------------- MODULE ServerLifecycle --------------------------
(***************************************************************************)
(* One process from main to its end: the order of initialisation, the      *)
(* notices of server_detect.c, and server_deinit, which a signal handler,  *)
(* xexit or main itself runs.  A handler interrupts whatever its thread is *)
(* doing, another server_deinit included, and ends in exit: what it has    *)
(* interrupted never goes on.  A signal is blocked on a thread only while  *)
(* that thread handles it, so threads may be in server_deinit at once.     *)
(* server_deinit cancels the thread that watches the speakers; cancelled,  *)
(* a thread goes on to its next cancellation point and ends there, within  *)
(* a handler too.  The daemon's own thread is not modelled.                *)
(***************************************************************************)
EXTENDS Naturals

CONSTANTS
    Signals,   \* those signal_handle is installed for and can catch
    MaxRuns    \* bound: no signal arrives after as many server_deinit have begun

\* ctrl and online are started by server_cmdctrl_init and server_detect_init.
Threads == {"main", "ctrl", "online"}

VARIABLES
    at,        \* where a thread is
    handling,  \* the signals a thread handles, the innermost last
    http,      \* MHD_Daemon *d: NULL, running, being stopped, freed
    path,      \* the control path exists, and is this process's
    detect,    \* conn.read_fd of server_detect.c
    online_detect_thread,  \* it is not 0
    cancelled, \* the online thread has a cancellation pending
    type,      \* server_notify_resp.type
    last,      \* ghost: the type of the last notice sent to speakers
    bye,       \* ghost: an EXIT notice has been sent
    runs,      \* ghost: how often server_deinit was entered
    aside,     \* ghost: a signal met main neither handling one nor ending
    end        \* how the process ended: crashed, in a second server_deinit;
               \* stray, in a pthread call for a thread that is not there

watch == <<online_detect_thread, cancelled>>
notices == <<type, last, bye>>
tally == <<runs, aside>>
cycleVars == <<at, handling, http, path, detect, watch, notices, tally, end>>

Starting == {"mutex", "control", "detect", "hello", "greeted", "watch", "detach",
             "spctrl", "sppush", "http"}
Working == {"loop", "answer", "busy"}
Ending == {"stop", "stopping", "unlink", "cancel", "kill", "reset", "goodbye",
           "send", "sent", "close", "exit", "hung"}

\* A notice is made and sent only once there is a socket to send it on, and
\* only what was started is cancelled.
TypeOK ==
    /\ at \in [Threads -> Starting \cup Working \cup Ending \cup {"none", "gone"}]
    /\ handling \in [Threads -> SUBSET Signals]
    /\ http \in {"none", "running", "stopping", "stopped"}
    /\ path \in BOOLEAN
    /\ detect \in {"none", "open", "closed"}
    /\ online_detect_thread \in BOOLEAN /\ cancelled \in BOOLEAN
    /\ type \in {"none", "FIRST_RUN", "EXIT"}
    /\ last \in {"nothing", "none", "FIRST_RUN", "EXIT"}
    /\ bye \in BOOLEAN
    /\ runs \in Nat
    /\ aside \in BOOLEAN
    /\ end \in {"running", "exit", "bare", "crashed", "stray"}
    /\ detect = "none" => type = "none" /\ last = "nothing"
    /\ online_detect_thread \/ cancelled => at.online # "none"

Init ==
    /\ at = [t \in Threads |-> IF t = "main" THEN "mutex" ELSE "none"]
    /\ handling = [t \in Threads |-> {}]
    /\ http = "none"
    /\ path = FALSE
    /\ detect = "none"
    /\ online_detect_thread = FALSE
    /\ cancelled = FALSE
    /\ type = "none"
    /\ last = "nothing"
    /\ bye = FALSE
    /\ runs = 0
    /\ aside = FALSE
    /\ end = "running"

Goes(t, from, to) == at[t] = from /\ at' = [at EXCEPT ![t] = to]

Doomed(t) == t = "online" /\ cancelled

(***************************************************************************)
(* main.  A step that fails calls xexit, or exit itself.                   *)
(***************************************************************************)
xexit ==
    /\ at.main \in {"mutex", "control", "detect", "spctrl", "sppush"}
    /\ at' = [at EXCEPT !.main = "stop"]
    /\ runs' = runs + 1
    /\ \/ UNCHANGED path
       \/ at.main = "control" /\ path' = TRUE
    /\ UNCHANGED <<handling, http, detect, watch, notices, aside, end>>

ExitBare ==
    /\ at.main \in {"mutex", "control", "detect"}
    /\ end' = "bare"
    /\ UNCHANGED <<at, handling, http, path, detect, watch, notices, tally>>

mutex_init ==
    /\ Goes("main", "mutex", "control")
    /\ UNCHANGED <<handling, http, path, detect, watch, notices, tally, end>>

server_cmdctrl_init ==
    /\ at.main = "control"
    /\ at' = [at EXCEPT !.main = "detect", !.ctrl = "busy"]
    /\ path' = TRUE
    /\ UNCHANGED <<handling, http, detect, watch, notices, tally, end>>

\* MUTANT of server_detect_init: conn keeps the number it had.
DetectUnbound ==
    /\ Goes("main", "detect", "hello")
    /\ type' = "FIRST_RUN"
    /\ UNCHANGED <<handling, http, path, detect, watch, last, bye, tally, end>>

server_detect_init ==
    /\ Goes("main", "detect", "hello")
    /\ detect' = "open"
    /\ type' = "FIRST_RUN"
    /\ UNCHANGED <<handling, http, path, watch, last, bye, tally, end>>

\* sendto on conn.read_fd, and the type being reset after it.
SendNotice ==
    IF detect = "open" THEN last' = type /\ bye' = (bye \/ type = "EXIT")
                       ELSE UNCHANGED <<last, bye>>

\* sendto is a cancellation point: a thread that is cancelled ends in it.
Multicast(t, before, after) ==
    /\ ~Doomed(t)
    /\ Goes(t, before, after)
    /\ SendNotice
    /\ UNCHANGED <<handling, http, path, detect, watch, type, tally, end>>

ResetType(t, before, after) ==
    /\ Goes(t, before, after)
    /\ type' = "none"
    /\ UNCHANGED <<handling, http, path, detect, watch, last, bye, tally, end>>

\* server_detect_init ends with the thread that watches the speakers, ...
WatchSpeakers ==
    /\ at.main = "watch"
    /\ at' = [at EXCEPT !.main = "detach", !.online = "busy"]
    /\ online_detect_thread' = TRUE
    /\ UNCHANGED <<handling, http, path, detect, cancelled, notices, tally, end>>

\* ... which is detached, unless a handler elsewhere has forgotten it: the
\* detaching of thread 0 reads through a NULL pointer.
DetachOnline ==
    /\ Goes("main", "detach", "spctrl")
    /\ end' = IF online_detect_thread THEN end ELSE "stray"
    /\ UNCHANGED <<handling, http, path, detect, watch, notices, tally>>

\* A socket each, which no notice uses.
server_spctrl_init ==
    /\ Goes("main", "spctrl", "sppush")
    /\ UNCHANGED <<handling, http, path, detect, watch, notices, tally, end>>

server_sppush_init ==
    /\ Goes("main", "sppush", "http")
    /\ UNCHANGED <<handling, http, path, detect, watch, notices, tally, end>>

\* MUTANT of server_http_init: d is set although the daemon did not start.
HttpInitDangling ==
    /\ Goes("main", "http", "loop")
    /\ http' \in {"stopped", "running"}
    /\ UNCHANGED <<handling, path, detect, watch, notices, tally, end>>

\* A daemon that does not start goes unnoticed.
server_http_init ==
    /\ Goes("main", "http", "loop")
    /\ http' \in {"none", "running"}
    /\ UNCHANGED <<handling, path, detect, watch, notices, tally, end>>

\* A beacon is answered with the same server_notify_resp.
Answer ==
    \/ ResetType("main", "loop", "answer")
    \/ Multicast("main", "answer", "loop")

\* exit_thread_flag, set in another thread, ends the loop.
LoopEnds ==
    /\ runs > 0
    /\ Goes("main", "loop", "stop")
    /\ runs' = runs + 1
    /\ UNCHANGED <<handling, http, path, detect, watch, notices, aside, end>>

Main ==
    \/ xexit
    \/ ExitBare
    \/ mutex_init
    \/ server_cmdctrl_init
    \/ server_detect_init
    \/ Multicast("main", "hello", "greeted")
    \/ ResetType("main", "greeted", "watch")
    \/ WatchSpeakers
    \/ DetachOnline
    \/ server_spctrl_init
    \/ server_sppush_init
    \/ server_http_init
    \/ Answer
    \/ LoopEnds

(***************************************************************************)
(* signal_handle.                                                          *)
(***************************************************************************)
signal_handle(g, t) ==
    /\ runs < MaxRuns
    /\ at[t] \notin {"none", "gone"}
    /\ g \notin handling[t]
    /\ handling' = [handling EXCEPT ![t] = @ \cup {g}]
    /\ at' = [at EXCEPT ![t] = "stop"]
    /\ runs' = runs + 1
    /\ aside' = (aside \/ (t # "main" /\ at.main \notin Ending))
    /\ UNCHANGED <<http, path, detect, watch, notices, end>>

(***************************************************************************)
(* server_deinit, by thread t.                                             *)
(***************************************************************************)

\* MUTANT of server_http_deinit: exit_thread_flag also keeps later callers of
\* server_deinit from doing it again.
DeinitOnce(t) ==
    /\ at[t] = "stop"
    /\ at' = [at EXCEPT ![t] = IF runs > 1 THEN "exit" ELSE "unlink"]
    /\ UNCHANGED <<handling, http, path, detect, watch, notices, tally, end>>

\* if (d) MHD_stop_daemon(d): d is not reset, and nothing defines what a second
\* call of it does.
server_http_deinit(t) ==
    /\ \/ /\ http = "none"
          /\ Goes(t, "stop", "unlink")
          /\ UNCHANGED <<http, end>>
       \/ /\ http = "running"
          /\ Goes(t, "stop", "stopping")
          /\ http' = "stopping"
          /\ UNCHANGED end
       \/ /\ Goes(t, "stopping", "unlink")
          /\ http' = "stopped"
          /\ UNCHANGED end
       \/ /\ http \in {"stopping", "stopped"}
          /\ \/ Goes(t, "stop", "unlink") /\ UNCHANGED end
             \/ Goes(t, "stop", "hung") /\ end' \in {"running", "crashed"}
          /\ UNCHANGED http
    /\ UNCHANGED <<handling, path, detect, watch, notices, tally>>

server_cmdctrl_deinit(t) ==
    /\ Goes(t, "unlink", "cancel")
    /\ path' = FALSE
    /\ UNCHANGED <<handling, http, detect, watch, notices, tally, end>>

\* server_detect_deinit: online_detect_thread is tested, ...
TestOnline(t) ==
    /\ Goes(t, "cancel", IF online_detect_thread THEN "kill" ELSE "goodbye")
    /\ UNCHANGED <<handling, http, path, detect, watch, notices, tally, end>>

\* MUTANT of CancelOnline: no thread cancels itself.
CancelOther(t) ==
    /\ Goes(t, "kill", "reset")
    /\ IF ~online_detect_thread
          THEN end' = "crashed" /\ UNCHANGED cancelled
          ELSE cancelled' = (cancelled \/ t # "online") /\ UNCHANGED end
    /\ UNCHANGED <<handling, http, path, detect, online_detect_thread, notices, tally>>

\* ... read again and cancelled, be it the thread that runs this, ...  Nothing
\* defines the cancelling of a thread that has ended: it goes unnoticed, or the
\* memory is no longer there.  That of thread 0 reads through a NULL pointer.
CancelOnline(t) ==
    /\ Goes(t, "kill", "reset")
    /\ IF ~online_detect_thread
          THEN end' = "crashed" /\ UNCHANGED cancelled
          ELSE IF at.online = "gone"
                 THEN end' \in {"running", "stray"} /\ UNCHANGED cancelled
                 ELSE cancelled' = TRUE /\ UNCHANGED end
    /\ UNCHANGED <<handling, http, path, detect, online_detect_thread, notices, tally>>

\* ... and set to 0.
ForgetOnline(t) ==
    /\ Goes(t, "reset", "goodbye")
    /\ online_detect_thread' = FALSE
    /\ UNCHANGED <<handling, http, path, detect, cancelled, notices, tally, end>>

\* MUTANT of Goodbye: only the first sets the type.
GoodbyeOnce(t) ==
    /\ Goes(t, "goodbye", "send")
    /\ type' = IF bye \/ detect = "none" THEN type ELSE "EXIT"
    /\ UNCHANGED <<handling, http, path, detect, watch, last, bye, tally, end>>

\* if (conn.read_fd): the notice, up to its sending.
Goodbye(t) ==
    /\ Goes(t, "goodbye", "send")
    /\ type' = IF detect = "none" THEN type ELSE "EXIT"
    /\ UNCHANGED <<handling, http, path, detect, watch, last, bye, tally, end>>

\* close is a cancellation point too.
Close(t) ==
    /\ ~Doomed(t)
    /\ Goes(t, "close", "exit")
    /\ detect' = IF detect = "open" THEN "closed" ELSE detect
    /\ UNCHANGED <<handling, http, path, watch, notices, tally, end>>

\* MUTANT of Exit: signal_handle returns.
ExitReturn(t) ==
    /\ Goes(t, "exit", IF t = "main" THEN "loop" ELSE "busy")
    /\ UNCHANGED <<handling, http, path, detect, watch, notices, tally, end>>

\* exit(0), or the end of main.
Exit(t) ==
    /\ at[t] = "exit"
    /\ end' = "exit"
    /\ UNCHANGED <<at, handling, http, path, detect, watch, notices, tally>>

server_deinit(t) ==
    \/ server_http_deinit(t)
    \/ server_cmdctrl_deinit(t)
    \/ TestOnline(t)
    \/ CancelOnline(t)
    \/ ForgetOnline(t)
    \/ Goodbye(t)
    \/ Multicast(t, "send", "sent")
    \/ ResetType(t, "sent", "close")
    \/ Close(t)
    \/ Exit(t)

(***************************************************************************)
(* The online thread ends: at a cancellation point, wherever it meets one  *)
(* (all but the statements between pthread_cancel and the notice, or       *)
(* between the notice and close, have one), or because its loop sees       *)
(* exit_thread_flag.                                                       *)
(***************************************************************************)
OnlineEnds ==
    /\ \/ cancelled /\ at.online \notin {"kill", "reset", "goodbye", "sent", "gone"}
       \/ runs > 0 /\ at.online = "busy"
    /\ at' = [at EXCEPT !.online = "gone"]
    /\ UNCHANGED <<handling, http, path, detect, watch, notices, tally, end>>

Next ==
    /\ end = "running"
    /\ \/ Main
       \/ OnlineEnds
       \/ \E t \in Threads :
            \/ server_deinit(t)
            \/ \E g \in Signals : signal_handle(g, t)

Spec == Init /\ [][Next]_cycleVars

\* A thread in server_deinit is scheduled.  Nobody has to send a signal.
FairSpec ==
    /\ Spec
    /\ \A t \in Threads : WF_cycleVars(end = "running" /\ server_deinit(t))

(***************************************************************************)
(* Properties                                                              *)
(***************************************************************************)

\* A server that has announced itself does not end through server_deinit
\* without an EXIT notice, however signals interrupt it and each other, on
\* several threads or one; unless the first signal met another thread than main, which
\* could then overwrite the notice's type with a beacon's answer.
GoodbyeSaid ==
    end = "exit" /\ last # "nothing" /\ ~aside => bye

\* While only the main thread handles signals, nothing but EXIT is sent after
\* EXIT.  With two threads in server_deinit one may reset the type the other
\* is about to send.
GoodbyeIsLast ==
    bye /\ handling.ctrl = {} /\ handling.online = {} => last = "EXIT"

\* Whatever interrupts it, an end through server_deinit removes the control
\* path; the exits that leave it are the others.
PathRemoved == end = "exit" => ~path

\* The first server_deinit is caught neither in the HTTP daemon nor in the
\* cancelling of thread 0, wherever in the initialisation it begins and on
\* whichever thread: both take a second one, begun before or after the first
\* has got past the place.
OnlyRepeatHangs ==
    end = "crashed" \/ (\E t \in Threads : at[t] = "hung") => runs > 1

\* A handler on the online thread neither says goodbye nor exits, whoever
\* cancels that thread: online_detect_thread is 0 only when it is cancelled, and
\* the first cancellation point behind that test is before the notice is sent.
OnlineNeverExits == at.online \notin {"sent", "close", "exit"}

\* A server_deinit that no signal interrupts or repeats ends the process, by
\* exit or by a pthread call for a thread that is not there; unless the online
\* thread runs it, after which main or another signal has to end the process.
OneDeinitEnds ==
    <>[](runs = 1 /\ handling.online = {}) => <>(end # "running")
=============================================================================
