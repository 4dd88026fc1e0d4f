------------------------- MODULE ServerMutexProofs -------------------------
(***************************************************************************)
(* Proofs about ServerMutex for any set of processes: the one guarantee    *)
(* the probe gives (LateComerYields) and the reachability of the control   *)
(* socket, for any distribution of the processes over hosts.               *)
(***************************************************************************)
EXTENDS ServerMutex, TLAPS

USE DEF Phases, NotRunning, Coming, Up, HoldsPort, HoldsPath, PastProbe, Tag, Answer, Messages

\* The actions as the proofs below split the step into them.
LEMMA NextCases ==
    ASSUME Next
    PROVE  \/ \E i \in Servers : Probe(i)
           \/ \E i, j \in Servers : Yield(i, j)
           \/ \E i \in Servers : NoAnswer(i)
           \/ \E i \in Servers : server_cmdctrl_init(i)
           \/ \E i \in Servers : server_detect_init(i)
           \/ \E i \in Servers : DetectBindFails(i)
           \/ \E i \in Servers : Serve(i)
           \/ \E i \in Servers : server_detect_deinit(i)
           \/ \E i, j \in Servers : AnswerTag(i, j)
           \/ \E i \in Servers : SignalEarly(i)
           \/ \E i \in Servers : server_cmdctrl_deinit(i)
           \/ \E i \in Servers : Crash(i)
           \/ \E m \in Messages : Lose(m)
BY Zenon DEF Next, Advance

(***************************************************************************)
(* The types, and the datagrams: they travel only while their probe waits. *)
(***************************************************************************)
THEOREM TypeCorrect == Spec => []TypeOK
<1>1. Init => TypeOK
  BY MutexAssumption DEF Init, TypeOK
<1>2. TypeOK /\ [Next]_mutexVars => TypeOK'
  <2> SUFFICES ASSUME TypeOK, [Next]_mutexVars PROVE TypeOK'
    OBVIOUS
  <2> USE MutexAssumption DEF TypeOK
  <2>1. CASE \E i \in Servers : Probe(i)
    BY <2>1 DEF Probe, Hearing
  <2>2. CASE \E i, j \in Servers : Yield(i, j)
    BY <2>2 DEF Yield, Leaves, SocketsGone
  <2>3. CASE \E i \in Servers : NoAnswer(i)
    BY <2>3 DEF NoAnswer, SocketsGone
  <2>4. CASE \E i \in Servers : server_cmdctrl_init(i)
    BY <2>4 DEF server_cmdctrl_init, MeetsNeighbours, Neighbours
  <2>5. CASE \E i \in Servers : server_detect_init(i)
    BY <2>5 DEF server_detect_init
  <2>6. CASE \E i \in Servers : DetectBindFails(i)
    BY <2>6 DEF DetectBindFails, Leaves, SocketsGone
  <2>7. CASE \E i \in Servers : Serve(i)
    BY <2>7 DEF Serve
  <2>8. CASE \E i \in Servers : server_detect_deinit(i)
    BY <2>8 DEF server_detect_deinit
  <2>9. CASE \E i, j \in Servers : AnswerTag(i, j)
    BY <2>9 DEF AnswerTag
  <2>10. CASE \E i \in Servers : SignalEarly(i)
    BY <2>10 DEF SignalEarly, Leaves, SocketsGone
  <2>11. CASE \E i \in Servers : server_cmdctrl_deinit(i)
    BY <2>11 DEF server_cmdctrl_deinit, Leaves, SocketsGone
  <2>12. CASE \E i \in Servers : Crash(i)
    BY <2>12 DEF Crash, Leaves, SocketsGone
  <2>13. CASE \E m \in Messages : Lose(m)
    BY <2>13 DEF Lose
  <2>14. CASE UNCHANGED mutexVars
    BY <2>14 DEF mutexVars
  <2> QED
    BY <2>1, <2>2, <2>3, <2>4, <2>5, <2>6, <2>7, <2>8, <2>9, <2>10, <2>11,
       <2>12, <2>13, <2>14, NextCases
<1> QED
  BY <1>1, <1>2, PTL DEF Spec

\* Why a probe that hears nothing is alone: each server of another host it
\* could owe an answer to is still up, and its tag or the answer is still
\* under way; one of its own host holds the port it will need.
ProbeInv ==
    \A i, j \in Servers : j \in witness[i] =>
        /\ phase[i] \in Coming
        /\ phase[j] \in Up
        /\ HostOf[j] # HostOf[i]
             => /\ phase[i] = "probe"
                /\ Tag(i, j) \in net \/ Answer(j, i) \in net

LEMMA ProbeInvCorrect ==
    ASSUME Reliable
    PROVE  Spec => []ProbeInv
<1>1. Init => ProbeInv
  BY DEF Init, ProbeInv
<1>2. TypeOK /\ ProbeInv /\ [Next]_mutexVars => ProbeInv'
  <2> SUFFICES ASSUME TypeOK, ProbeInv, [Next]_mutexVars PROVE ProbeInv'
    OBVIOUS
  <2> USE DEF TypeOK, ProbeInv
  <2>1. CASE \E i \in Servers : Probe(i)
    BY <2>1 DEF Probe, Hearing
  <2>2. CASE \E i, j \in Servers : Yield(i, j)
    BY <2>2 DEF Yield, Leaves, SocketsGone
  <2>3. CASE \E i \in Servers : NoAnswer(i)
    BY <2>3 DEF NoAnswer, NothingPending, SocketsGone
  <2>4. CASE \E i \in Servers : server_cmdctrl_init(i)
    BY <2>4 DEF server_cmdctrl_init
  <2>5. CASE \E i \in Servers : server_detect_init(i)
    BY <2>5 DEF server_detect_init, PortTaken
  <2>6. CASE \E i \in Servers : DetectBindFails(i)
    BY <2>6 DEF DetectBindFails, Leaves, SocketsGone
  <2>7. CASE \E i \in Servers : Serve(i)
    BY <2>7 DEF Serve
  <2>8. CASE \E i \in Servers : server_detect_deinit(i)
    BY <2>8 DEF server_detect_deinit
  <2>9. CASE \E i, j \in Servers : AnswerTag(i, j)
    BY <2>9 DEF AnswerTag
  <2>10. CASE \E i \in Servers : SignalEarly(i)
    BY <2>10 DEF SignalEarly, Leaves, SocketsGone
  <2>11. CASE \E i \in Servers : server_cmdctrl_deinit(i)
    BY <2>11 DEF server_cmdctrl_deinit, Leaves, SocketsGone
  <2>12. CASE \E i \in Servers : Crash(i)
    BY <2>12 DEF Crash, Leaves, SocketsGone
  <2>13. CASE \E m \in Messages : Lose(m)
    BY <2>13 DEF Lose
  <2>14. CASE UNCHANGED mutexVars
    BY <2>14 DEF mutexVars
  <2> QED
    BY <2>1, <2>2, <2>3, <2>4, <2>5, <2>6, <2>7, <2>8, <2>9, <2>10, <2>11,
       <2>12, <2>13, <2>14, NextCases
<1> QED
  BY <1>1, <1>2, TypeCorrect, PTL DEF Spec

(***************************************************************************)
(* LateComerYields, about create_mutex and the bind of the detect port: on *)
(* a network that delivers within the second, nobody goes on after its     *)
(* probe while a server of another host runs that already ran when it      *)
(* probed, and nobody comes up while any such server runs.                 *)
(***************************************************************************)
THEOREM LateComersYield ==
    ASSUME Reliable
    PROVE  Spec => []LateComerYields
<1>1. TypeOK /\ ProbeInv => LateComerYields
  BY DEF TypeOK, ProbeInv, LateComerYields
<1> QED
  BY <1>1, TypeCorrect, ProbeInvCorrect, PTL

(***************************************************************************)
(* The refinement: each step as SingleInstance sees it.                    *)
(***************************************************************************)
comingBar == {i \in Servers : phase[i] \in Coming}
upBar == {i \in Servers : phase[i] \in Up}

InstanceStep == [Instance!Next]_(Instance!instanceVars)

\* Steps of the network, and of a process between its probe and its bind or
\* after its control path is gone.
LEMMA Unseen ==
    ASSUME comingBar' = comingBar, upBar' = upBar, witness' = witness
    PROVE  InstanceStep
BY DEF InstanceStep, Instance!instanceVars, comingBar, upBar

LEMMA Ends ==
    ASSUME NEW i \in Servers, phase[i] \in Coming \cup Up,
           TypeOK, phase'[i] \notin Coming \cup Up,
           \A k \in Servers : k # i => phase'[k] = phase[k],
           Leaves(i)
    PROVE  InstanceStep
<1>1. i \in comingBar \cup upBar
  BY DEF comingBar, upBar
<1>2. comingBar' = comingBar \ {i} /\ upBar' = upBar \ {i}
  BY DEF comingBar, upBar
<1>3. Instance!End(i)
  BY <1>1, <1>2 DEF Instance!End, Leaves, comingBar, upBar
<1> QED
  BY <1>3 DEF InstanceStep, Instance!Next

(***************************************************************************)
(* ImplementsInstance, about create_mutex, srv_detect_read's answer and    *)
(* the bind of server_detect_init: they amount to SingleInstance.          *)
(***************************************************************************)
THEOREM MutexImplementsInstance ==
    ASSUME Reliable
    PROVE  Spec => ImplementsInstance
<1>1. Init => Instance!Init
  BY DEF Init, Instance!Init
<1>2. TypeOK /\ ProbeInv /\ [Next]_mutexVars => InstanceStep
  <2> SUFFICES ASSUME TypeOK, ProbeInv, [Next]_mutexVars PROVE InstanceStep
    OBVIOUS
  <2>1. ASSUME NEW i \in Servers, Probe(i) PROVE InstanceStep
    <3>1. comingBar' = comingBar \cup {i} /\ upBar' = upBar
      BY <2>1 DEF Probe, TypeOK, comingBar, upBar
    <3>2. i \notin comingBar \cup upBar
      BY <2>1 DEF Probe, comingBar, upBar
    <3>3. witness' = [witness EXCEPT ![i] = upBar]
      BY <2>1 DEF Probe, upBar
    <3>4. Instance!Start(i)
      BY <3>1, <3>2, <3>3 DEF Instance!Start, comingBar, upBar
    <3> QED
      BY <3>4 DEF InstanceStep, Instance!Next
  <2>2. ASSUME NEW i \in Servers, server_detect_init(i) PROVE InstanceStep
    <3>1. comingBar' = comingBar \ {i} /\ upBar' = upBar \cup {i}
      BY <2>2 DEF server_detect_init, TypeOK, comingBar, upBar
    <3>2. i \in comingBar /\ \A j \in upBar : HostOf[j] # HostOf[i]
      BY <2>2 DEF server_detect_init, PortTaken, comingBar, upBar
    <3>3. witness[i] = {} /\ witness' = witness
      BY <2>2 DEF server_detect_init, PortTaken, TypeOK, ProbeInv
    <3>4. Instance!ComeUp(i)
      BY <3>1, <3>2, <3>3 DEF Instance!ComeUp, comingBar, upBar
    <3> QED
      BY <3>4 DEF InstanceStep, Instance!Next
  <2>3. ASSUME NEW i \in Servers, NEW j \in Servers, Yield(i, j)
        PROVE  InstanceStep
    BY <2>3, Ends DEF Yield, TypeOK
  <2>4. ASSUME NEW i \in Servers,
               \/ DetectBindFails(i)
               \/ SignalEarly(i)
               \/ server_cmdctrl_deinit(i)
        PROVE  InstanceStep
    BY <2>4, Ends DEF DetectBindFails, SignalEarly, server_cmdctrl_deinit, TypeOK
  <2>5. ASSUME NEW i \in Servers, Crash(i) PROVE InstanceStep
    <3>1. CASE phase[i] \in Coming \cup Up
      BY <2>5, <3>1, Ends DEF Crash, TypeOK
    <3>2. CASE phase[i] = "closing"
      <4>1. comingBar' = comingBar /\ upBar' = upBar
        BY <2>5, <3>2 DEF Crash, TypeOK, comingBar, upBar
      <4>2. \A k \in Servers : i \notin witness[k]
        BY <3>2 DEF ProbeInv
      <4>3. witness[i] = {}
        BY <3>2 DEF ProbeInv, TypeOK
      <4>4. witness' = witness
        BY <2>5, <4>2, <4>3 DEF Crash, Leaves, TypeOK
      <4> QED
        BY <4>1, <4>4, Unseen
    <3> QED
      BY <2>5, <3>1, <3>2 DEF Crash, TypeOK
  <2>6. ASSUME NEW i \in Servers,
               \/ NoAnswer(i)
               \/ server_cmdctrl_init(i)
               \/ Serve(i)
               \/ server_detect_deinit(i)
        PROVE  InstanceStep
    <3>1. comingBar' = comingBar /\ upBar' = upBar
      BY <2>6
      DEF NoAnswer, server_cmdctrl_init, Serve, server_detect_deinit, TypeOK,
          comingBar, upBar
    <3> QED
      BY <2>6, <3>1, Unseen
      DEF NoAnswer, server_cmdctrl_init, Serve, server_detect_deinit
  <2>7. CASE UNCHANGED <<phase, witness>>
    BY <2>7, Unseen DEF comingBar, upBar
  <2> QED
    BY <2>1, <2>2, <2>3, <2>4, <2>5, <2>6, <2>7, NextCases
    DEF mutexVars, AnswerTag, Lose
<1> QED
  BY <1>1, <1>2, TypeCorrect, ProbeInvCorrect, PTL
  DEF Spec, ImplementsInstance, Instance!Spec, InstanceStep

\* The path is a process's own from its bind on, before it is up.
\* Two processes of a host that have a control socket are known to have met.
PathInv ==
    /\ \A i \in Servers \ company : phase[i] \in HoldsPath => path[HostOf[i]] = i
    /\ \A i, k \in Servers :
         /\ i # k /\ HostOf[i] = HostOf[k]
         /\ phase[i] \in HoldsPath /\ phase[k] \in HoldsPath
         => i \in company

\* A step that has to do with no path, and with no process that holds one.
Apart ==
    /\ UNCHANGED path
    /\ \A i \in Servers :
         phase'[i] \in HoldsPath =>
           phase[i] \in HoldsPath /\ (i \in company' <=> i \in company)

(***************************************************************************)
(* ControlReachable, about server_cmdctrl_init and the unlinks of xexit    *)
(* and server_cmdctrl_deinit: a path left behind by a crash never stands   *)
(* in the way of the next server, and only a process that has a control    *)
(* socket on the same host meanwhile can take the path away.               *)
(***************************************************************************)
THEOREM ControlStaysReachable == Spec => []ControlReachable
<1>1. Init => PathInv
  BY DEF Init, PathInv
<1>2. TypeOK /\ PathInv /\ [Next]_mutexVars => PathInv'
  <2> SUFFICES ASSUME TypeOK, PathInv, [Next]_mutexVars PROVE PathInv'
    OBVIOUS
  <2> USE MutexAssumption DEF TypeOK, PathInv
  <2>1. ASSUME NEW k \in Servers, server_cmdctrl_init(k) PROVE PathInv'
    <3>1. ASSUME NEW i \in Servers, i \notin company', phase'[i] \in HoldsPath
          PROVE  path'[HostOf[i]] = i
      <4>1. CASE k = i
        BY <2>1, <4>1 DEF server_cmdctrl_init
      <4>2. CASE k # i
        <5>1. phase[i] \in HoldsPath
          BY <2>1, <3>1, <4>2 DEF server_cmdctrl_init
        <5>2. i \notin company /\ i \notin Neighbours(k)
          BY <2>1, <3>1 DEF server_cmdctrl_init, MeetsNeighbours
        <5>3. HostOf[k] # HostOf[i]
          BY <4>2, <5>1, <5>2 DEF Neighbours
        <5> QED
          BY <2>1, <5>1, <5>2, <5>3 DEF server_cmdctrl_init
      <4> QED
        BY <4>1, <4>2
    <3>2. ASSUME NEW i \in Servers, NEW m \in Servers,
                 i # m, HostOf[i] = HostOf[m],
                 phase'[i] \in HoldsPath, phase'[m] \in HoldsPath
          PROVE  i \in company'
      <4>1. CASE i = k
        <5>1. m \in Neighbours(k)
          BY <2>1, <3>2, <4>1 DEF server_cmdctrl_init, Neighbours
        <5> QED
          BY <2>1, <4>1, <5>1 DEF server_cmdctrl_init, MeetsNeighbours
      <4>2. CASE m = k
        <5>1. i \in Neighbours(k)
          BY <2>1, <3>2, <4>2 DEF server_cmdctrl_init, Neighbours
        <5> QED
          BY <2>1, <5>1 DEF server_cmdctrl_init, MeetsNeighbours
      <4>3. CASE i # k /\ m # k
        BY <2>1, <3>2, <4>3 DEF server_cmdctrl_init, MeetsNeighbours
      <4> QED
        BY <4>1, <4>2, <4>3
    <3> QED
      BY <3>1, <3>2
  <2>2. ASSUME NEW k \in Servers, DetectBindFails(k) PROVE PathInv'
    BY <2>2 DEF DetectBindFails, Leaves
  <2>3. ASSUME NEW k \in Servers, server_cmdctrl_deinit(k) PROVE PathInv'
    BY <2>3 DEF server_cmdctrl_deinit, Leaves
  <2>4. ASSUME NEW k \in Servers, Crash(k) PROVE PathInv'
    BY <2>4 DEF Crash, Leaves
  <2>5. CASE Apart
    BY <2>5 DEF Apart
  <2>6. \/ \E k \in Servers : \/ server_cmdctrl_init(k)
                              \/ DetectBindFails(k)
                              \/ server_cmdctrl_deinit(k)
                              \/ Crash(k)
        \/ Apart
    <3>1. ASSUME NEW k \in Servers,
                 \/ Probe(k)
                 \/ NoAnswer(k)
                 \/ server_detect_init(k)
                 \/ Serve(k)
                 \/ server_detect_deinit(k)
          PROVE  Apart
      BY <3>1
      DEF Apart, Probe, NoAnswer, server_detect_init, Serve, server_detect_deinit
    <3>2. ASSUME NEW k \in Servers, NEW j \in Servers, Yield(k, j) \/ SignalEarly(k)
          PROVE  Apart
      BY <3>2 DEF Apart, Yield, SignalEarly, Leaves
    <3>3. CASE UNCHANGED <<phase, path, company>>
      BY <3>3 DEF Apart
    <3> QED
      BY <3>1, <3>2, <3>3, NextCases DEF mutexVars, AnswerTag, Lose
  <2> QED
    BY <2>1, <2>2, <2>3, <2>4, <2>5, <2>6
<1>3. PathInv => ControlReachable
  BY DEF PathInv, ControlReachable
<1> QED
  BY <1>1, <1>2, <1>3, TypeCorrect, PTL DEF Spec
=============================================================================
