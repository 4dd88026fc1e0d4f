----------------------- MODULE ServerLifecycleProofs -----------------------
(***************************************************************************)
(* Proofs about ServerLifecycle: what holds of an end through              *)
(* server_deinit for any set of signals, arriving in any order.            *)
(***************************************************************************)
EXTENDS ServerLifecycle, TLAPS

USE DEF Threads, watch, notices, tally

Unlinked == {"cancel", "kill", "reset", "goodbye", "send", "sent", "close", "exit"}
Notified == {"sent", "close", "exit"}

\* Who may be where: the other threads exist once main has started them, and
\* end the process only in a handler; main, once it ends, does not come back.
PlaceInv ==
    /\ at.main \notin {"none", "gone"}
    /\ at.main \in {"mutex", "control"} => at.ctrl = "none"
    /\ at.main \in {"mutex", "control", "detect", "hello", "greeted", "watch"}
         => at.online = "none"
    /\ \A t \in {"ctrl", "online"} :
         /\ at[t] \in Ending \cup {"none", "busy", "gone"}
         /\ at[t] \in Ending => handling[t] # {}
         /\ ~aside /\ handling[t] # {} => at.main \in Ending

\* A thread past the unlink leaves no path, and nobody takes it again.
PathInv ==
    /\ \A t \in Threads : at[t] \in Unlinked => ~path
    /\ PathRemoved

\* Without a signal aside, the first notice of an ending server is EXIT: the
\* type is reset only behind a notice.
ByeInv ==
    ~aside =>
        /\ detect = "closed" => bye
        /\ \A t \in Threads :
             /\ at[t] \in Notified /\ detect # "none" => bye
             /\ at[t] = "send" /\ detect = "open" /\ ~bye => type = "EXIT"

\* On a single thread the type is EXIT whenever a notice of the end is sent.
LastInv ==
    handling.ctrl = {} /\ handling.online = {} =>
        /\ bye \/ type = "EXIT" => at.main \in Ending
        /\ at.main = "send" /\ detect # "none" => type = "EXIT"
        /\ bye => last = "EXIT"

CycleInv ==
    /\ TypeOK
    /\ PlaceInv
    /\ PathInv
    /\ ByeInv
    /\ GoodbyeSaid
    /\ LastInv

LEMMA MainKeeps ==
    ASSUME CycleInv, end = "running", Main
    PROVE  CycleInv'
<1> USE DEF CycleInv, TypeOK, PlaceInv, PathInv, PathRemoved, ByeInv,
      GoodbyeSaid, LastInv, Starting, Working, Ending, Unlinked, Notified
<1>1. CASE xexit
  <2>1. TypeOK'
    <3>1. path' = path \/ path' = TRUE
      BY <1>1 DEF xexit
    <3>2. path' \in BOOLEAN
      BY <3>1
    <3> QED
      BY <1>1, <3>2 DEF xexit
  <2>2. PlaceInv'
    BY <1>1 DEF xexit
  <2>3. PathInv'
    BY <1>1 DEF xexit
  <2>4. ByeInv'
    BY <1>1 DEF xexit
  <2>5. GoodbyeSaid'
    BY <1>1 DEF xexit
  <2>6. LastInv'
    BY <1>1 DEF xexit
  <2> QED
    BY <2>1, <2>2, <2>3, <2>4, <2>5, <2>6
<1>2. CASE ExitBare
  BY <1>2 DEF ExitBare
<1>3. CASE mutex_init
  BY <1>3 DEF mutex_init, Goes
<1>4. CASE server_cmdctrl_init
  BY <1>4 DEF server_cmdctrl_init
<1>5. CASE server_detect_init
  BY <1>5 DEF server_detect_init, Goes
<1>6. CASE Multicast("main", "hello", "greeted")
  BY <1>6 DEF Multicast, SendNotice, Goes
<1>7. CASE ResetType("main", "greeted", "watch")
  BY <1>7 DEF ResetType, Goes
<1>14. CASE WatchSpeakers
  <2>1. TypeOK'
    BY <1>14 DEF WatchSpeakers
  <2>2. PlaceInv'
    BY <1>14 DEF WatchSpeakers
  <2>3. PathInv'
    BY <1>14 DEF WatchSpeakers
  <2>4. ByeInv'
    BY <1>14 DEF WatchSpeakers
  <2>5. GoodbyeSaid'
    BY <1>14 DEF WatchSpeakers
  <2>6. LastInv'
    BY <1>14 DEF WatchSpeakers
  <2> QED
    BY <2>1, <2>2, <2>3, <2>4, <2>5, <2>6
<1>8. CASE server_spctrl_init
  BY <1>8 DEF server_spctrl_init, Goes
<1>15. CASE DetachOnline
  BY <1>15 DEF DetachOnline, Goes
<1>13. CASE server_sppush_init
  BY <1>13 DEF server_sppush_init, Goes
<1>9. CASE server_http_init
  BY <1>9 DEF server_http_init, Goes
<1>10. CASE ResetType("main", "loop", "answer")
  BY <1>10 DEF ResetType, Goes
<1>11. CASE Multicast("main", "answer", "loop")
  BY <1>11 DEF Multicast, SendNotice, Goes
<1>12. CASE LoopEnds
  BY <1>12 DEF LoopEnds, Goes
<1> QED
  BY <1>1, <1>2, <1>3, <1>4, <1>5, <1>6, <1>7, <1>8, <1>9, <1>10, <1>11, <1>12, <1>13,
     <1>14, <1>15
  DEF Main, Answer

LEMMA GoesPlaced ==
    ASSUME TypeOK, NEW t \in Threads, NEW from, NEW to \in Starting \cup Working \cup Ending,
           Goes(t, from, to)
    PROVE  /\ at' \in [Threads -> Starting \cup Working \cup Ending \cup {"none", "gone"}]
           /\ at.online # "none" => at'.online # "none"
BY DEF TypeOK, Goes, Starting, Working, Ending

LEMMA DeinitTypes ==
    ASSUME TypeOK, NEW t \in Threads, server_deinit(t)
    PROVE  TypeOK'
<1> USE DEF TypeOK, Starting, Working, Ending
<1>1. CASE server_http_deinit(t)
  BY <1>1 DEF server_http_deinit, Goes
<1>2. CASE server_cmdctrl_deinit(t)
  <2>1. Goes(t, "unlink", "cancel")
    BY <1>2 DEF server_cmdctrl_deinit
  <2>2. /\ at' \in [Threads -> Starting \cup Working \cup Ending \cup {"none", "gone"}]
        /\ at.online # "none" => at'.online # "none"
    BY <2>1, GoesPlaced
  <2>3. /\ UNCHANGED <<handling, http, detect, type, last, bye, runs, aside, end>>
        /\ UNCHANGED <<online_detect_thread, cancelled>>
    BY <1>2 DEF server_cmdctrl_deinit
  <2>4. path' \in BOOLEAN
    BY <1>2 DEF server_cmdctrl_deinit
  <2> QED
    BY <2>2, <2>3, <2>4
<1>3. CASE Goodbye(t)
  <2>1. Goes(t, "goodbye", "send")
    BY <1>3 DEF Goodbye
  <2>2. /\ at' \in [Threads -> Starting \cup Working \cup Ending \cup {"none", "gone"}]
        /\ at.online # "none" => at'.online # "none"
    BY <2>1, GoesPlaced
  <2>3. /\ type' \in {"none", "FIRST_RUN", "EXIT"}
        /\ detect = "none" => type' = type
        /\ UNCHANGED <<handling, http, path, detect, last, bye, runs, aside, end>>
        /\ UNCHANGED <<online_detect_thread, cancelled>>
    BY <1>3 DEF Goodbye
  <2> QED
    BY <2>2, <2>3
<1>4. CASE Multicast(t, "send", "sent")
  <2>1. Goes(t, "send", "sent")
    BY <1>4 DEF Multicast
  <2>2. /\ at' \in [Threads -> Starting \cup Working \cup Ending \cup {"none", "gone"}]
        /\ at.online # "none" => at'.online # "none"
    BY <2>1, GoesPlaced
  <2>3. /\ last' \in {"nothing", "none", "FIRST_RUN", "EXIT"}
        /\ detect = "none" => last' = last
    BY <1>4 DEF Multicast, SendNotice
  <2>4. bye' \in BOOLEAN
    BY <1>4 DEF Multicast, SendNotice
  <2>5. /\ UNCHANGED <<handling, http, path, detect, type, runs, aside, end>>
        /\ UNCHANGED <<online_detect_thread, cancelled>>
    BY <1>4 DEF Multicast
  <2> QED
    BY <2>2, <2>3, <2>4, <2>5
<1>5. CASE ResetType(t, "sent", "close")
  <2>1. Goes(t, "sent", "close")
    BY <1>5 DEF ResetType
  <2>2. /\ at' \in [Threads -> Starting \cup Working \cup Ending \cup {"none", "gone"}]
        /\ at.online # "none" => at'.online # "none"
    BY <2>1, GoesPlaced
  <2>3. /\ type' = "none"
        /\ UNCHANGED <<handling, http, path, detect, last, bye, runs, aside, end>>
        /\ UNCHANGED <<online_detect_thread, cancelled>>
    BY <1>5 DEF ResetType
  <2> QED
    BY <2>2, <2>3
<1>6. CASE Close(t)
  <2>1. Goes(t, "close", "exit")
    BY <1>6 DEF Close
  <2>2. /\ at' \in [Threads -> Starting \cup Working \cup Ending \cup {"none", "gone"}]
        /\ at.online # "none" => at'.online # "none"
    BY <2>1, GoesPlaced
  <2>3. /\ detect' \in {"none", "open", "closed"}
        /\ detect' = "none" => detect = "none"
        /\ UNCHANGED <<handling, http, path, type, last, bye, runs, aside, end>>
        /\ UNCHANGED <<online_detect_thread, cancelled>>
    BY <1>6 DEF Close
  <2> QED
    BY <2>2, <2>3
<1>7. CASE Exit(t)
  BY <1>7 DEF Exit
<1>8. CASE TestOnline(t)
  BY <1>8 DEF TestOnline, Goes
<1>9. CASE CancelOnline(t)
  <2>1. Goes(t, "kill", "reset")
    BY <1>9 DEF CancelOnline
  <2>2. /\ at' \in [Threads -> Starting \cup Working \cup Ending \cup {"none", "gone"}]
        /\ at.online # "none" => at'.online # "none"
    BY <2>1, GoesPlaced
  <2>3. /\ end' \in {"running", "exit", "bare", "crashed", "stray"}
        /\ cancelled' = cancelled \/ cancelled' = TRUE
        /\ cancelled' => at.online # "none"
    BY <1>9 DEF CancelOnline
  <2>4. cancelled' \in BOOLEAN
    BY <2>3
  <2>5. /\ UNCHANGED <<handling, http, path, detect, online_detect_thread>>
        /\ UNCHANGED <<type, last, bye, runs, aside>>
    BY <1>9 DEF CancelOnline
  <2> QED
    BY <2>2, <2>3, <2>4, <2>5
<1>10. CASE ForgetOnline(t)
  <2>1. Goes(t, "reset", "goodbye")
    BY <1>10 DEF ForgetOnline
  <2>2. /\ at' \in [Threads -> Starting \cup Working \cup Ending \cup {"none", "gone"}]
        /\ at.online # "none" => at'.online # "none"
    BY <2>1, GoesPlaced
  <2>3. /\ UNCHANGED <<handling, http, path, detect, type, last, bye, runs, aside, end>>
        /\ UNCHANGED <<cancelled>>
    BY <1>10 DEF ForgetOnline
  <2>4. ~online_detect_thread' /\ online_detect_thread' \in BOOLEAN
    BY <1>10 DEF ForgetOnline
  <2> QED
    BY <2>2, <2>3, <2>4
<1> QED
  BY <1>1, <1>2, <1>3, <1>4, <1>5, <1>6, <1>7, <1>8, <1>9, <1>10
  DEF server_deinit

LEMMA DeinitKeeps ==
    ASSUME CycleInv, end = "running",
           NEW t \in Threads, server_deinit(t)
    PROVE  CycleInv'
<1> USE DEF CycleInv, TypeOK, PlaceInv, PathInv, PathRemoved, ByeInv,
      GoodbyeSaid, LastInv, Starting, Working, Ending, Unlinked, Notified
<1>1. CASE server_http_deinit(t)
  BY <1>1 DEF server_http_deinit, Goes
<1>2. CASE server_cmdctrl_deinit(t)
  <2>1. TypeOK'
    BY DeinitTypes
  <2>2. PlaceInv'
    BY <1>2 DEF server_cmdctrl_deinit, Goes
  <2>3. PathInv'
    BY <1>2 DEF server_cmdctrl_deinit, Goes
  <2>4. ByeInv'
    BY <1>2 DEF server_cmdctrl_deinit, Goes
  <2>5. GoodbyeSaid'
    BY <1>2 DEF server_cmdctrl_deinit, Goes
  <2>6. LastInv'
    BY <1>2 DEF server_cmdctrl_deinit, Goes
  <2> QED
    BY <2>1, <2>2, <2>3, <2>4, <2>5, <2>6
<1>8. CASE TestOnline(t)
  BY <1>8 DEF TestOnline, Goes
<1>9. CASE CancelOnline(t)
  <2>1. TypeOK'
    BY DeinitTypes
  <2>2. PlaceInv'
    BY <1>9 DEF CancelOnline, Goes
  <2>3. PathInv'
    BY <1>9 DEF CancelOnline, Goes
  <2>4. ByeInv'
    BY <1>9 DEF CancelOnline, Goes
  <2>5. GoodbyeSaid'
    BY <1>9 DEF CancelOnline, Goes
  <2>6. LastInv'
    BY <1>9 DEF CancelOnline, Goes
  <2> QED
    BY <2>1, <2>2, <2>3, <2>4, <2>5, <2>6
<1>10. CASE ForgetOnline(t)
  <2>1. TypeOK'
    BY DeinitTypes
  <2>2. PlaceInv'
    BY <1>10 DEF ForgetOnline, Goes
  <2>3. PathInv'
    BY <1>10 DEF ForgetOnline, Goes
  <2>4. ByeInv'
    BY <1>10 DEF ForgetOnline, Goes
  <2>5. GoodbyeSaid'
    BY <1>10 DEF ForgetOnline, Goes
  <2>6. LastInv'
    BY <1>10 DEF ForgetOnline, Goes
  <2> QED
    BY <2>1, <2>2, <2>3, <2>4, <2>5, <2>6
<1>3. CASE Goodbye(t)
  <2>1. TypeOK'
    BY DeinitTypes
  <2>2. PlaceInv'
    BY <1>3 DEF Goodbye, Goes
  <2>3. PathInv'
    BY <1>3 DEF Goodbye, Goes
  <2>4. ByeInv'
    BY <1>3 DEF Goodbye, Goes
  <2>5. GoodbyeSaid'
    BY <1>3 DEF Goodbye, Goes
  <2>6. LastInv'
    BY <1>3 DEF Goodbye, Goes
  <2> QED
    BY <2>1, <2>2, <2>3, <2>4, <2>5, <2>6
<1>4. CASE Multicast(t, "send", "sent")
  <2>1. TypeOK'
    BY DeinitTypes
  <2>2. PlaceInv'
    BY <1>4 DEF Multicast, SendNotice, Goes
  <2>3. PathInv'
    BY <1>4 DEF Multicast, SendNotice, Goes
  <2>4. ByeInv'
    BY <1>4 DEF Multicast, SendNotice, Goes
  <2>5. GoodbyeSaid'
    BY <1>4 DEF Multicast, SendNotice, Goes
  <2>6. LastInv'
    BY <1>4 DEF Multicast, SendNotice, Goes
  <2> QED
    BY <2>1, <2>2, <2>3, <2>4, <2>5, <2>6
<1>5. CASE ResetType(t, "sent", "close")
  <2>1. TypeOK'
    BY DeinitTypes
  <2>2. PlaceInv'
    BY <1>5 DEF ResetType, Goes
  <2>3. PathInv'
    BY <1>5 DEF ResetType, Goes
  <2>4. ByeInv'
    BY <1>5 DEF ResetType, Goes
  <2>5. GoodbyeSaid'
    BY <1>5 DEF ResetType, Goes
  <2>6. LastInv'
    BY <1>5 DEF ResetType, Goes
  <2> QED
    BY <2>1, <2>2, <2>3, <2>4, <2>5, <2>6
<1>6. CASE Close(t)
  <2>1. TypeOK'
    BY DeinitTypes
  <2>2. PlaceInv'
    BY <1>6 DEF Close, Goes
  <2>3. PathInv'
    BY <1>6 DEF Close, Goes
  <2>4. ByeInv'
    BY <1>6 DEF Close, Goes
  <2>5. GoodbyeSaid'
    BY <1>6 DEF Close, Goes
  <2>6. LastInv'
    BY <1>6 DEF Close, Goes
  <2> QED
    BY <2>1, <2>2, <2>3, <2>4, <2>5, <2>6
<1>7. CASE Exit(t)
  BY <1>7 DEF Exit
<1> QED
  BY <1>1, <1>2, <1>3, <1>4, <1>5, <1>6, <1>7, <1>8, <1>9, <1>10
  DEF server_deinit

LEMMA SignalKeeps ==
    ASSUME CycleInv, end = "running",
           NEW g \in Signals, NEW t \in Threads, signal_handle(g, t)
    PROVE  CycleInv'
<1> USE DEF CycleInv, TypeOK, PlaceInv, PathInv, PathRemoved, ByeInv,
      GoodbyeSaid, LastInv, Starting, Working, Ending, Unlinked, Notified
<1>1. CASE t = "main"
  BY <1>1 DEF signal_handle
<1>2. CASE t # "main"
  <2>1. TypeOK'
    BY <1>2 DEF signal_handle
  <2>2. PlaceInv'
    BY <1>2 DEF signal_handle
  <2>3. PathInv'
    BY <1>2 DEF signal_handle
  <2>4. ByeInv'
    BY <1>2 DEF signal_handle
  <2>5. GoodbyeSaid'
    BY <1>2 DEF signal_handle
  <2>6. LastInv'
    BY <1>2 DEF signal_handle
  <2> QED
    BY <2>1, <2>2, <2>3, <2>4, <2>5, <2>6
<1> QED
  BY <1>1, <1>2 DEF signal_handle

LEMMA OnlineEndKeeps ==
    ASSUME CycleInv, end = "running", OnlineEnds
    PROVE  CycleInv'
BY DEF OnlineEnds, CycleInv, TypeOK, PlaceInv, PathInv, PathRemoved, ByeInv,
       GoodbyeSaid, LastInv, Starting, Working, Ending, Unlinked, Notified

THEOREM CycleInvCorrect == Spec => []CycleInv
<1>1. Init => CycleInv
  <2> SUFFICES ASSUME Init PROVE CycleInv
    OBVIOUS
  <2>1. at.main = "mutex" /\ at.ctrl = "none" /\ at.online = "none"
    BY DEF Init
  <2>2. TypeOK
    BY DEF Init, TypeOK, Starting
  <2> QED
    BY <2>1, <2>2
    DEF Init, CycleInv, PlaceInv, PathInv, PathRemoved, ByeInv, GoodbyeSaid,
        LastInv, Ending, Unlinked, Notified
<1>2. CycleInv /\ [Next]_cycleVars => CycleInv'
  <2> SUFFICES ASSUME CycleInv, [Next]_cycleVars PROVE CycleInv'
    OBVIOUS
  <2>1. CASE UNCHANGED cycleVars
    BY <2>1
    DEF cycleVars, CycleInv, TypeOK, PlaceInv, PathInv, PathRemoved, ByeInv,
        GoodbyeSaid, LastInv
  <2> QED
    BY <2>1, MainKeeps, OnlineEndKeeps, DeinitKeeps, SignalKeeps DEF Next
<1> QED
  BY <1>1, <1>2, PTL DEF Spec

\* TypeOK, about server_detect_init: no notice before the socket exists.
THEOREM TypeCorrect == Spec => []TypeOK
<1>1. CycleInv => TypeOK
  BY DEF CycleInv
<1> QED
  BY <1>1, CycleInvCorrect, PTL

(***************************************************************************)
(* GoodbyeSaid, about server_deinit being interrupted and run in parallel: *)
(* a server announced is a server whose end is announced.                  *)
(***************************************************************************)
THEOREM GoodbyeIsSaid == Spec => []GoodbyeSaid
<1>1. CycleInv => GoodbyeSaid
  BY DEF CycleInv
<1> QED
  BY <1>1, CycleInvCorrect, PTL

\* GoodbyeIsLast, about server_notify_resp.type and nested handlers.
THEOREM GoodbyeStaysLast == Spec => []GoodbyeIsLast
<1>1. CycleInv => GoodbyeIsLast
  BY DEF CycleInv, LastInv, GoodbyeIsLast
<1> QED
  BY <1>1, CycleInvCorrect, PTL

\* PathRemoved, about server_cmdctrl_deinit and the exits around it.
THEOREM PathIsRemoved == Spec => []PathRemoved
<1>1. CycleInv => PathRemoved
  BY DEF CycleInv, PathInv
<1> QED
  BY <1>1, CycleInvCorrect, PTL

(***************************************************************************)
(* OnlyRepeatHangs, about MHD_stop_daemon and d, which nobody resets, and  *)
(* about online_detect_thread between its test and its use.  It needs that *)
(* nobody is in server_deinit before it is entered, that a thread at its   *)
(* head for the first time finds the daemon as main left it, and that one  *)
(* alone in it cancels what it has tested.                                 *)
(***************************************************************************)
FirstInv ==
    /\ runs = 0 => /\ http \in {"none", "running"}
                   /\ \A t \in Threads : at[t] \notin Ending
    /\ runs = 1 => \A t \in Threads :
                     /\ at[t] = "stop" => http \in {"none", "running"}
                     /\ at[t] = "kill" => online_detect_thread
                     /\ at[t] \in Ending =>
                          \A u \in Threads \ {t} : at[u] \notin Ending
    /\ OnlyRepeatHangs

THEOREM FirstDeinitPasses == Spec => []OnlyRepeatHangs
<1> USE DEF FirstInv, OnlyRepeatHangs, Ending
<1>1. Init => FirstInv
  BY DEF Init
<1>2. TypeOK /\ FirstInv /\ [Next]_cycleVars => FirstInv'
  <2> SUFFICES ASSUME TypeOK, FirstInv, [Next]_cycleVars PROVE FirstInv'
    OBVIOUS
  <2>1. /\ at \in [Threads -> Starting \cup Working \cup Ending \cup {"none", "gone"}]
        /\ runs \in Nat /\ http \in {"none", "running", "stopping", "stopped"}
        /\ online_detect_thread \in BOOLEAN
    BY DEF TypeOK
  <2>2. ASSUME end = "running", Main PROVE FirstInv'
    <3> USE DEF Starting, Working
    <3>1. CASE xexit
      BY <2>1, <2>2, <3>1 DEF xexit
    <3>2. CASE ExitBare
      BY <2>1, <2>2, <3>2 DEF ExitBare
    <3>3. CASE server_cmdctrl_init
      BY <2>1, <2>2, <3>3 DEF server_cmdctrl_init
    <3>4. CASE server_http_init
      BY <2>1, <2>2, <3>4 DEF server_http_init, Goes
    <3>5. CASE LoopEnds
      BY <2>1, <2>2, <3>5 DEF LoopEnds, Goes
    <3>6. CASE WatchSpeakers
      BY <2>1, <2>2, <3>6 DEF WatchSpeakers
    <3>8. CASE DetachOnline
      BY <2>1, <2>2, <3>8 DEF DetachOnline, Goes
    <3>7. CASE \/ mutex_init \/ server_detect_init
               \/ Multicast("main", "hello", "greeted")
               \/ ResetType("main", "greeted", "watch")
               \/ server_spctrl_init \/ server_sppush_init \/ Answer
      <4>1. /\ UNCHANGED <<runs, http, online_detect_thread, end>>
            /\ at.main \notin Ending /\ at'.main \notin Ending
            /\ at'.ctrl = at.ctrl /\ at'.online = at.online
        BY <2>1, <3>7
        DEF mutex_init, server_detect_init, Multicast, ResetType,
            server_spctrl_init, server_sppush_init, Answer, Goes
      <4> QED
        BY <2>1, <4>1
    <3> QED
      BY <2>2, <3>1, <3>2, <3>3, <3>4, <3>5, <3>6, <3>7, <3>8 DEF Main
  <2>3. ASSUME end = "running", NEW t \in Threads, server_deinit(t)
        PROVE  FirstInv'
    <3>1. CASE server_http_deinit(t)
      BY <2>1, <2>3, <3>1 DEF server_http_deinit, Goes
    <3>2. CASE TestOnline(t)
      BY <2>1, <2>3, <3>2 DEF TestOnline, Goes
    <3>3. CASE CancelOnline(t)
      BY <2>1, <2>3, <3>3 DEF CancelOnline, Goes
    <3>4. CASE ForgetOnline(t)
      BY <2>1, <2>3, <3>4 DEF ForgetOnline, Goes
    <3>5. CASE \/ server_cmdctrl_deinit(t) \/ Goodbye(t)
               \/ Multicast(t, "send", "sent") \/ ResetType(t, "sent", "close")
               \/ Close(t) \/ Exit(t)
      <4>1. /\ UNCHANGED <<runs, http, online_detect_thread>> /\ end' # "crashed"
            /\ at[t] \in Ending
            /\ at'[t] \in Ending \ {"stop", "kill", "hung"}
            /\ \A u \in Threads \ {t} : at'[u] = at[u]
        BY <2>1, <2>3, <3>5
        DEF server_cmdctrl_deinit, Goodbye, Multicast, ResetType, Close, Exit, Goes
      <4> QED
        BY <2>1, <4>1
    <3> QED
      BY <2>3, <3>1, <3>2, <3>3, <3>4, <3>5 DEF server_deinit
  <2>4. ASSUME end = "running", NEW g \in Signals, NEW t \in Threads,
               signal_handle(g, t)
        PROVE  FirstInv'
    BY <2>1, <2>4 DEF signal_handle
  <2>5. CASE OnlineEnds
    BY <2>1, <2>5 DEF OnlineEnds
  <2>6. CASE UNCHANGED cycleVars
    BY <2>6 DEF cycleVars
  <2> QED
    BY <2>2, <2>3, <2>4, <2>5, <2>6 DEF Next
<1>3. FirstInv => OnlyRepeatHangs
  OBVIOUS
<1> QED
  BY <1>1, <1>2, <1>3, TypeCorrect, PTL DEF Spec

(***************************************************************************)
(* OnlineNeverExits, about server_detect_deinit on the thread it cancels.  *)
(* Where online_detect_thread is 0, the thread is cancelled or has ended:  *)
(* whoever sets it to 0 has cancelled it, and only after testing it.       *)
(***************************************************************************)
CancelInv ==
    /\ ~online_detect_thread => cancelled \/ at.online \in {"none", "gone"}
    /\ \A t \in Threads :
         /\ at[t] \in {"kill", "reset"} => at.online # "none"
         /\ at[t] = "reset" => cancelled \/ at.online = "gone"
    /\ at.online \in {"goodbye", "send"} => cancelled
    /\ OnlineNeverExits

THEOREM OnlineHandlerEnds == Spec => []OnlineNeverExits
<1> USE DEF CancelInv, OnlineNeverExits
<1>1. Init => CancelInv
  BY DEF Init
<1>2. CycleInv /\ CancelInv /\ [Next]_cycleVars => CancelInv'
  <2> SUFFICES ASSUME CycleInv, CancelInv, [Next]_cycleVars PROVE CancelInv'
    OBVIOUS
  <2>1. /\ at \in [Threads -> Starting \cup Working \cup Ending \cup {"none", "gone"}]
        /\ online_detect_thread \in BOOLEAN /\ cancelled \in BOOLEAN
        /\ PlaceInv
        /\ online_detect_thread => at.online # "none"
    BY DEF CycleInv, TypeOK
  <2>2. ASSUME end = "running", Main PROVE CancelInv'
    <3>1. CASE WatchSpeakers
      BY <2>1, <3>1 DEF WatchSpeakers, PlaceInv
    <3>2. CASE ~WatchSpeakers
      <4>1. /\ UNCHANGED <<online_detect_thread, cancelled>>
            /\ at'.online = at.online
            /\ \A t \in Threads : at'[t] # at[t] => at'[t] \notin {"kill", "reset"}
        BY <2>1, <2>2, <3>2
        DEF Main, DetachOnline, xexit, ExitBare, mutex_init, server_cmdctrl_init,
            server_detect_init, Multicast, ResetType, server_spctrl_init,
            server_sppush_init, server_http_init, Answer, LoopEnds, Goes
      <4> QED
        BY <2>1, <4>1
    <3> QED
      BY <3>1, <3>2
  <2>3. ASSUME end = "running", NEW t \in Threads, server_deinit(t)
        PROVE  CancelInv'
    <3>1. CASE TestOnline(t)
      BY <2>1, <3>1 DEF TestOnline, Goes
    <3>2. CASE CancelOnline(t)
      BY <2>1, <3>2 DEF CancelOnline, Goes
    <3>3. CASE ForgetOnline(t)
      BY <2>1, <3>3 DEF ForgetOnline, Goes
    <3>4. CASE Multicast(t, "send", "sent")
      BY <2>1, <3>4 DEF Multicast, Doomed, Goes
    <3>5. CASE Goodbye(t)
      BY <2>1, <3>5 DEF Goodbye, Goes
    <3>6. CASE server_http_deinit(t) \/ server_cmdctrl_deinit(t)
      BY <2>1, <3>6 DEF server_http_deinit, server_cmdctrl_deinit, Goes
    <3>7. CASE ResetType(t, "sent", "close") \/ Close(t)
      BY <2>1, <3>7 DEF ResetType, Close, Goes
    <3>8. CASE Exit(t)
      BY <3>8 DEF Exit
    <3> QED
      BY <2>3, <3>1, <3>2, <3>3, <3>4, <3>5, <3>6, <3>7, <3>8 DEF server_deinit
  <2>4. ASSUME end = "running", NEW g \in Signals, NEW t \in Threads,
               signal_handle(g, t)
        PROVE  CancelInv'
    BY <2>1, <2>4 DEF signal_handle
  <2>5. CASE OnlineEnds
    BY <2>1, <2>5 DEF OnlineEnds
  <2>6. CASE UNCHANGED cycleVars
    BY <2>6 DEF cycleVars
  <2> QED
    BY <2>2, <2>3, <2>4, <2>5, <2>6 DEF Next
<1>3. CancelInv => OnlineNeverExits
  OBVIOUS
<1> QED
  BY <1>1, <1>2, <1>3, CycleInvCorrect, PTL DEF Spec
=============================================================================
