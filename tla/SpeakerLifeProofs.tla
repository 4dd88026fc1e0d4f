------------------------- MODULE SpeakerLifeProofs -------------------------
(***************************************************************************)
(* Proof that the running server implements SpeakerLife: under the mapping *)
(* of CastServer every step of a thread is a step of the abstract          *)
(* specification or changes nothing it sees.                               *)
(***************************************************************************)
EXTENDS CastServerProofs

USE DEF Fds, Holders, NoFile, NoFd

phaseBar == [s \in Speakers |-> PhaseOf(s)]
linkBar == [s \in Speakers |-> LinkOf(s)]

LifeInv == TypeOK /\ ConnectInv /\ LeakInv

\* Phases depend on the list and the event loop only.
LEMMA PhaseKept ==
    ASSUME UNCHANGED <<listed, main>>
    PROVE  /\ phaseBar' = phaseBar
           /\ \A s \in Speakers : PhaseOf(s)' = PhaseOf(s)
BY DEF phaseBar, PhaseOf, Finding

\* Links depend on the phase, the numbers and what they denote only.
LEMMA LinkKept ==
    ASSUME UNCHANGED <<fd, kern>>, NEW s \in Speakers, PhaseOf(s)' = PhaseOf(s)
    PROVE  LinkOf(s)' = LinkOf(s)
BY DEF LinkOf, HasOwnSocket

LEMMA LinksKept ==
    ASSUME UNCHANGED <<fd, kern, listed, main>>
    PROVE  linkBar' = linkBar
BY PhaseKept, LinkKept DEF linkBar

\* A free number taken for anything but a speaker is nobody's socket.
LEMMA TakenByOthers ==
    ASSUME LifeInv, UNCHANGED <<fd, listed, main>>,
           NEW f \in Fds, NEW h \in Holders \ (Speakers \cup {"base"}),
           kern[f] = "free", kern' = [kern EXCEPT ![f] = h]
    PROVE  linkBar' = linkBar
<1>1. /\ kern \in [Fds -> Holders]
      /\ "free" \notin Speakers
      /\ PushFd \in Fds
  BY TableAssumption DEF LifeInv, TypeOK, TableTypeOK
<1>2. \A s \in Speakers : HasOwnSocket(s)' <=> HasOwnSocket(s)
  BY <1>1 DEF HasOwnSocket
<1>3. kern'[PushFd] = "base" <=> kern[PushFd] = "base"
  BY <1>1
<1> QED
  BY <1>2, <1>3, PhaseKept DEF linkBar, LinkOf

\* What closing a number, stale or not, can cost: one speaker's own socket or,
\* where that may be lost, everybody's shared one.
Losses ==
    \/ linkBar' = linkBar
    \/ \E t \in Speakers : /\ linkBar[t] = "own"
                          /\ linkBar' = [linkBar EXCEPT ![t] = "none"]
    \/ /\ UnsetFd = 0
       /\ linkBar' = [s \in Speakers |->
                        IF linkBar[s] = "shared" THEN "none" ELSE linkBar[s]]

LEMMA CloseLoses ==
    ASSUME LifeInv, BaseSocketsOpen', UNCHANGED <<fd, listed, main>>,
           NEW g \in {NoFd} \cup Fds, CloseNumber(g)
    PROVE  Losses
<1>1. /\ fd \in [Speakers -> {-1} \cup Fds]
      /\ kern \in [Fds -> Holders]
      /\ "free" \notin Speakers /\ "base" \notin Speakers
      /\ PushFd \in Fds /\ PushFd \in BaseFds
      /\ \A s \in Speakers : PhaseOf(s)' = PhaseOf(s)
  BY TableAssumption, PhaseKept DEF LifeInv, TypeOK, TableTypeOK
<1>2. /\ \A f \in Fds : f # g => kern'[f] = kern[f]
      /\ g \in Fds => kern'[g] = "free"
  BY <1>1 DEF CloseNumber
<1>3. CASE g \in Fds /\ kern[g] \in Speakers
  <2> PICK t \in Speakers : t = kern[g]
    BY <1>3
  <2>1. ASSUME NEW s \in Speakers, s # t PROVE LinkOf(s)' = LinkOf(s)
    BY <1>1, <1>2, <1>3, <2>1 DEF LinkOf, HasOwnSocket
  <2>2. CASE PhaseOf(t) # "settled"
    <3>1. LinkOf(t)' = LinkOf(t)
      BY <1>1, <2>2 DEF LinkOf
    <3> QED
      BY <2>1, <3>1 DEF linkBar, Losses
  <2>3. CASE PhaseOf(t) = "settled"
    <3>1. fd[t] = g
      BY <1>3, <2>3
      DEF LifeInv, ConnectInv, LeakInv, NoSocketLeak, PhaseOf, Finding
    <3>2. LinkOf(t) = "own" /\ LinkOf(t)' = "none"
      BY <1>1, <1>2, <1>3, <2>3, <3>1 DEF LinkOf, HasOwnSocket
    <3> QED
      BY <2>1, <3>2 DEF linkBar, Losses
  <2> QED
    BY <2>2, <2>3
<1>4. CASE g \notin Fds \/ kern[g] \notin Speakers
  <2>1. \A s \in Speakers : HasOwnSocket(s)' <=> HasOwnSocket(s)
    BY <1>1, <1>2, <1>4 DEF HasOwnSocket
  <2>2. CASE kern'[PushFd] = "base" <=> kern[PushFd] = "base"
    BY <1>1, <2>1, <2>2 DEF linkBar, LinkOf, Losses
  <2>3. CASE kern[PushFd] = "base" /\ kern'[PushFd] # "base"
    <3>1. UnsetFd = 0
      BY <1>1, <2>3 DEF BaseSocketsOpen
    <3>2. ASSUME NEW s \in Speakers
          PROVE  LinkOf(s)' = IF LinkOf(s) = "shared" THEN "none" ELSE LinkOf(s)
      BY <1>1, <2>1, <2>3 DEF LinkOf
    <3> QED
      BY <3>1, <3>2 DEF linkBar, Losses
  <2>4. kern'[PushFd] = "base" => kern[PushFd] = "base"
    BY <1>1, <1>2
  <2> QED
    BY <2>2, <2>3, <2>4
<1> QED
  BY <1>3, <1>4

(***************************************************************************)
(* The steps of each thread.                                               *)
(***************************************************************************)
LifeStep == [Life!Next]_(Life!lifeVars)

LEMMA Frozen ==
    ASSUME phaseBar' = phaseBar, linkBar' = linkBar, Aborted' = Aborted
    PROVE  LifeStep
BY DEF LifeStep, Life!lifeVars, phaseBar, linkBar

LEMMA Loses ==
    ASSUME phaseBar' = phaseBar, ~Aborted, ~Aborted', Losses
    PROVE  LifeStep
<1>1. CASE linkBar' = linkBar
  BY <1>1, Frozen DEF Aborted
<1>2. CASE \E t \in Speakers : /\ linkBar[t] = "own"
                              /\ linkBar' = [linkBar EXCEPT ![t] = "none"]
  BY <1>2 DEF LifeStep, Life!Next, Life!Lose, phaseBar, linkBar
<1>3. CASE /\ UnsetFd = 0
           /\ linkBar' = [s \in Speakers |->
                        IF linkBar[s] = "shared" THEN "none" ELSE linkBar[s]]
  BY <1>3 DEF LifeStep, Life!Next, Life!LoseShared, phaseBar, linkBar
<1> QED
  BY <1>1, <1>2, <1>3 DEF Losses

LEMMA Finds ==
    ASSUME LifeInv, NEW s \in Speakers, NEW b \in BOOLEAN, BeaconNew(s, b),
           ~Aborted, UNCHANGED http
    PROVE  LifeStep
<1>1. PhaseOf(s) = "unknown" /\ PhaseOf(s)' = "finding"
  BY DEF BeaconNew, MainIdle, PhaseOf, Finding
<1>2. \A t \in Speakers : PhaseOf(t) # "finding"
  BY DEF BeaconNew, PhaseOf, Finding
<1>3. ASSUME NEW t \in Speakers, t # s PROVE PhaseOf(t)' = PhaseOf(t)
  BY <1>3 DEF BeaconNew, MainIdle, PhaseOf, Finding
<1>4. phaseBar' = [phaseBar EXCEPT ![s] = "finding"]
  BY <1>1, <1>3 DEF phaseBar
<1>5. linkBar' = linkBar
  <2>1. LinkOf(s)' = LinkOf(s)
    BY <1>1 DEF LinkOf
  <2>2. ASSUME NEW t \in Speakers, t # s PROVE LinkOf(t)' = LinkOf(t)
    BY <1>3, <2>2, LinkKept DEF BeaconNew
  <2> QED
    BY <2>1, <2>2 DEF linkBar
<1>6. Aborted' = Aborted
  BY DEF Aborted
<1>7. Life!Find(s)
  BY <1>1, <1>2, <1>4, <1>5, <1>6 DEF Life!Find, phaseBar, linkBar
<1> QED
  BY <1>7 DEF LifeStep, Life!Next

\* A step of the first beacon that touches no other speaker's number: it goes
\* on, or ends with whatever socket the speaker then has.
LEMMA Settles ==
    ASSUME LifeInv, UNCHANGED <<listed, http>>, ~Aborted,
           main.pc # "idle", main.new,
           \/ main'.pc = "idle"
           \/ main'.pc # "idle" /\ main'.new /\ main'.sp = main.sp,
           \A t \in Speakers \ {main.sp} :
              /\ HasOwnSocket(t)' <=> HasOwnSocket(t)
              /\ fd'[t] = fd[t],
           kern'[PushFd] = "base" <=> kern[PushFd] = "base"
    PROVE  LifeStep
<1> PICK s \in Speakers : s = main.sp
  BY DEF LifeInv, TypeOK, DetectTypeOK
<1>1. s \in listed
  BY DEF LifeInv, TypeOK, InHandListed
<1>2. PhaseOf(s) = "finding" /\ LinkOf(s) = "none"
  BY <1>1 DEF PhaseOf, Finding, LinkOf
<1>3. Aborted' = Aborted
  BY DEF Aborted
<1>4. ASSUME NEW t \in Speakers, t # s
      PROVE  PhaseOf(t)' = PhaseOf(t) /\ LinkOf(t)' = LinkOf(t)
  BY <1>4 DEF PhaseOf, Finding, LinkOf
<1>5. CASE main'.pc = "idle"
  <2>1. PhaseOf(s)' = "settled" /\ LinkOf(s)' \in {"none", "own", "shared"}
    BY <1>1, <1>5 DEF PhaseOf, Finding, LinkOf
  <2>2. /\ phaseBar' = [phaseBar EXCEPT ![s] = "settled"]
        /\ linkBar' = [linkBar EXCEPT ![s] = LinkOf(s)']
    BY <1>4, <2>1 DEF phaseBar, linkBar
  <2>3. Life!Settle(s)
    BY <1>2, <1>3, <2>1, <2>2 DEF Life!Settle, phaseBar, linkBar
  <2> QED
    BY <2>3 DEF LifeStep, Life!Next
<1>6. CASE main'.pc # "idle" /\ main'.new /\ main'.sp = main.sp
  <2>1. PhaseOf(s)' = "finding" /\ LinkOf(s)' = "none"
    BY <1>1, <1>6 DEF PhaseOf, Finding, LinkOf
  <2>2. phaseBar' = phaseBar /\ linkBar' = linkBar
    BY <1>2, <1>4, <2>1 DEF phaseBar, linkBar
  <2> QED
    BY <1>3, <2>2, Frozen
<1> QED
  BY <1>5, <1>6

LEMMA BeaconSteps ==
    ASSUME LifeInv, MainStep, UNCHANGED http, ~Aborted
    PROVE  LifeStep
<1>1. /\ Aborted' = Aborted
      /\ fd \in [Speakers -> {-1} \cup Fds]
      /\ kern \in [Fds -> Holders]
      /\ "free" \notin Speakers /\ "base" \notin Speakers /\ PushFd \in Fds
      /\ main \in [pc : {"idle", "check", "connect", "socket", "store",
                         "share"},
                   sp : Speakers \cup {Nobody}, new : BOOLEAN,
                   num : {NoFd} \cup Fds]
      /\ main.pc # "idle" => main.sp \in Speakers
      /\ main.pc \in {"connect", "socket", "store", "share"} => main.new
  BY TableAssumption
  DEF Aborted, LifeInv, TypeOK, TableTypeOK, DetectTypeOK, ConnectInv
<1>2. CASE \E s \in Speakers, b \in BOOLEAN : BeaconKnown(s, b)
  <2>1. /\ UNCHANGED <<listed, fd, kern>>
        /\ main.pc = "idle" /\ ~main'.new
    BY <1>2 DEF BeaconKnown, MainIdle
  <2>2. \A s \in Speakers : PhaseOf(s)' = PhaseOf(s)
    BY <2>1 DEF PhaseOf, Finding
  <2>3. phaseBar' = phaseBar /\ linkBar' = linkBar
    BY <2>1, <2>2, LinkKept DEF phaseBar, linkBar
  <2> QED
    BY <1>1, <2>3, Frozen
<1>3. CASE \E s \in Speakers, b \in BOOLEAN : BeaconNew(s, b)
  BY <1>3, Finds
<1>4. CASE (BeaconCheckOnline \/ BeaconConnect) /\ main.new
  <2>1. /\ UNCHANGED <<listed, fd, kern>>
        /\ main.pc # "idle"
        /\ \/ main'.pc = "idle"
           \/ main'.pc # "idle" /\ main'.new /\ main'.sp = main.sp
    BY <1>1, <1>4 DEF BeaconCheckOnline, BeaconConnect, MainIdle, tableVars
  <2>2. \A t \in Speakers : HasOwnSocket(t)' <=> HasOwnSocket(t)
    BY <2>1 DEF HasOwnSocket
  <2> QED
    BY <1>4, <2>1, <2>2, Settles
<1>5. CASE BeaconCheckOnline /\ ~main.new
  <2>1. /\ UNCHANGED <<listed, fd, kern>>
        /\ main'.pc = "idle"
    BY <1>5 DEF BeaconCheckOnline, MainIdle
  <2>2. \A s \in Speakers : PhaseOf(s)' = PhaseOf(s)
    BY <1>5, <2>1 DEF PhaseOf, Finding
  <2>3. phaseBar' = phaseBar /\ linkBar' = linkBar
    BY <2>1, <2>2, LinkKept DEF phaseBar, linkBar
  <2> QED
    BY <1>1, <2>3, Frozen
<1>6. CASE BeaconSocket
  <2>1. /\ UNCHANGED <<listed, fd>>
        /\ main.pc = "socket" /\ main.new /\ main.sp \in Speakers
        /\ main'.pc = "store" /\ main'.new /\ main'.sp = main.sp
        /\ NewSocket(main.sp, main'.num)
    BY <1>1, <1>6 DEF BeaconSocket
  <2>2. \A f \in Fds : kern'[f] = kern[f]
                       \/ (kern[f] = "free" /\ kern'[f] = main.sp)
    BY <1>1, <2>1 DEF NewSocket, IsNextFd, FreeFds
  <2>3. \A t \in Speakers \ {main.sp} : HasOwnSocket(t)' <=> HasOwnSocket(t)
    BY <1>1, <2>1, <2>2 DEF HasOwnSocket
  <2>4. kern'[PushFd] = "base" <=> kern[PushFd] = "base"
    BY <1>1, <2>1, <2>2
  <2> QED
    BY <2>1, <2>3, <2>4, Settles
<1>7. CASE BeaconStore \/ BeaconShare
  <2>1. /\ UNCHANGED <<listed, kern>>
        /\ main.pc # "idle" /\ main.new
        /\ \/ main'.pc = "idle"
           \/ main'.pc # "idle" /\ main'.new /\ main'.sp = main.sp
        /\ \A t \in Speakers \ {main.sp} : fd'[t] = fd[t]
    BY <1>1, <1>7 DEF BeaconStore, BeaconShare, StoreFd, MainIdle
  <2>2. \A t \in Speakers \ {main.sp} : HasOwnSocket(t)' <=> HasOwnSocket(t)
    BY <2>1 DEF HasOwnSocket
  <2> QED
    BY <2>1, <2>2, Settles
<1> QED
  BY <1>1, <1>2, <1>3, <1>4, <1>5, <1>6, <1>7 DEF MainStep, BeaconConnect

LEMMA OnlineSteps ==
    ASSUME LifeInv, BaseSocketsOpen', OnlineStep, UNCHANGED http, ~Aborted
    PROVE  LifeStep
<1>1. Aborted' = Aborted /\ UNCHANGED <<listed, main, fd>>
  BY DEF Aborted, OnlineStep, OnlineWake, OnlineLoad, OnlineStore,
         OnlineOffline, OnlineTest, OnlineReload, OnlineClose, OnlineSleep,
         tableVars
<1>2. CASE UNCHANGED kern
  BY <1>1, <1>2, PhaseKept, LinksKept, Frozen
<1>3. CASE OnlineClose
  <2>1. online.call.num \in {NoFd} \cup Fds /\ CloseNumber(online.call.num)
    BY <1>3 DEF OnlineClose, LifeInv, TypeOK, DetectTypeOK, DisconnectCalls
  <2>2. Losses
    BY <1>1, <2>1, CloseLoses
  <2> QED
    BY <1>1, <2>2, PhaseKept, Loses
<1> QED
  BY <1>2, <1>3
  DEF OnlineStep, OnlineWake, OnlineLoad, OnlineStore, OnlineOffline,
      OnlineTest, OnlineReload, OnlineSleep, tableVars

LEMMA CommandSteps ==
    ASSUME LifeInv, BaseSocketsOpen', CommandNext,
           UNCHANGED <<detectVars, http>>, ~Aborted
    PROVE  LifeStep
<1>1. Aborted' = Aborted /\ UNCHANGED <<listed, main, fd>>
  BY DEF Aborted, detectVars, CommandNext, CommandStep, AcceptCommand,
         PushChunk, StreamEnd, CopySpeaker, CopyStep, PushSent, PushRefused,
         CopyDone, PushTest, PushReload, PushClose, PushChunkDone, tableVars
<1>2. CASE UNCHANGED kern
  BY <1>1, <1>2, PhaseKept, LinksKept, Frozen
<1>3. CASE AcceptCommand
  <2> PICK f \in Fds : kern[f] = "free" /\ kern' = [kern EXCEPT ![f] = "client"]
    BY <1>3 DEF AcceptCommand, IsNextFd, FreeFds
  <2>1. "client" \in Holders \ (Speakers \cup {"base"})
    BY TableAssumption
  <2> QED
    BY <1>1, <2>1, PhaseKept, TakenByOthers, Frozen
<1>4. CASE PushClose
  <2>1. ctl.call.num \in {NoFd} \cup Fds /\ CloseNumber(ctl.call.num)
    BY <1>4 DEF PushClose, LifeInv, TypeOK, CommandTypeOK, DisconnectCalls
  <2>2. Losses
    BY <1>1, <2>1, CloseLoses
  <2> QED
    BY <1>1, <2>2, PhaseKept, Loses
<1> QED
  BY <1>2, <1>3, <1>4
  DEF CommandNext, CommandStep, PushChunk, StreamEnd, CopySpeaker, CopyStep,
      PushSent, PushRefused, CopyDone, PushTest, PushReload, PushChunkDone,
      tableVars

LEMMA HttpLifeSteps ==
    ASSUME LifeInv, BaseSocketsOpen', HttpNext, UNCHANGED <<detectVars, ctl>>,
           ~Aborted
    PROVE  LifeStep
<1>1. UNCHANGED <<listed, main, fd>>
  BY HttpSteps DEF detectVars
<1>2. Losses
  <2>1. CASE UNCHANGED kern
    BY <1>1, <2>1, LinksKept DEF Losses
  <2>2. CASE \E f \in Fds, h \in {"http", "file"} :
               kern[f] = "free" /\ kern' = [kern EXCEPT ![f] = h]
    <3>1. {"http", "file"} \subseteq Holders \ (Speakers \cup {"base"})
      BY TableAssumption
    <3> QED
      BY <1>1, <2>2, <3>1, TakenByOthers DEF Losses
  <2>3. CASE \E g \in {NoFd} \cup Fds : CloseNumber(g)
    BY <1>1, <2>3, CloseLoses
  <2>4. \A c \in Conns : /\ http[c].conn \in {NoFile} \cup Fds
                         /\ http[c].file \in {NoFile} \cup Fds
    BY DEF LifeInv, TypeOK, HttpTypeOK
  <2> QED
    BY <2>1, <2>2, <2>3, <2>4, HttpSteps
<1>3. CASE ~Aborted'
  BY <1>1, <1>2, <1>3, PhaseKept, Loses
<1>4. CASE Aborted'
  <2>1. UNCHANGED kern
    <3> PICK c \in Conns : HttpStep(c)
      BY DEF HttpNext
    <3>1. CASE HttpDiscard(c) /\ kern[http[c].file] = "free"
      BY <3>1
      DEF HttpDiscard, CloseNumber, LifeInv, TypeOK, TableTypeOK, HttpTypeOK
    <3>2. CASE HttpDiscard(c) /\ kern[http[c].file] # "free"
      BY <1>4, <3>2 DEF HttpDiscard, Aborted, LifeInv, TypeOK, HttpTypeOK
    <3>3. CASE HttpAccept(c) \/ HttpClose(c)
      BY <1>4, <3>3
      DEF HttpAccept, HttpClose, HttpClosed, Aborted, LifeInv, TypeOK,
          HttpTypeOK
    <3>5. CASE HttpOpen(c)
      <4> PICK f \in Fds, next \in {"send", "stat"} :
             http' = [http EXCEPT ![c].file = f, ![c].pc = next]
        BY <3>5 DEF HttpOpen
      <4> QED
        BY <1>4 DEF Aborted, LifeInv, TypeOK, HttpTypeOK
    <3>4. CASE HttpStat(c) \/ HttpSent(c)
      BY <1>4, <3>4
      DEF HttpStat, HttpSent, Aborted, LifeInv, TypeOK, HttpTypeOK
    <3> QED
      BY <3>1, <3>2, <3>3, <3>4, <3>5 DEF HttpStep
  <2>2. linkBar' = linkBar /\ phaseBar' = phaseBar
    BY <1>1, <2>1, LinksKept, PhaseKept
  <2> QED
    BY <1>4, <2>2 DEF LifeStep, Life!Next, Life!Die, phaseBar, linkBar
<1> QED
  BY <1>3, <1>4

(***************************************************************************)
(* The server implements SpeakerLife: ImplementsLife, about valid_speaker  *)
(* connecting a speaker in its first beacon only and every close by number *)
(* in server_sppush_disconnect, ahc_echo and libmicrohttpd.                *)
(***************************************************************************)
THEOREM ServerImplementsLife == Spec => ImplementsLife
<1>1. Init => Life!Init
  <2> SUFFICES ASSUME Init PROVE Life!Init
    OBVIOUS
  <2>1. ~Aborted
    BY DEF Init, HttpInit, HttpClosed, Aborted
  <2>2. ASSUME NEW s \in Speakers
        PROVE  PhaseOf(s) = "unknown" /\ LinkOf(s) = "none"
    BY DEF Init, TableInit, PhaseOf, LinkOf
  <2> QED
    BY <2>1, <2>2 DEF Life!Init
<1>2. LifeInv /\ BaseSocketsOpen' /\ [Next]_vars => LifeStep
  <2> SUFFICES ASSUME LifeInv, BaseSocketsOpen', [Next]_vars PROVE LifeStep
    OBVIOUS
  <2>1. CASE Next
    BY <2>1, BeaconSteps, OnlineSteps, CommandSteps, HttpLifeSteps
    DEF Next, DetectNext
  <2>2. CASE UNCHANGED vars
    BY <2>2, PhaseKept, LinksKept, Frozen
    DEF vars, tableVars, detectVars, Aborted
  <2> QED
    BY <2>1, <2>2
<1>3. LifeInv <=> TypeOK /\ ConnectInv /\ LeakInv
  BY DEF LifeInv
<1> QED
  BY <1>1, <1>2, <1>3, TypeCorrect, ConnectInvCorrect, LeakInvCorrect,
     BaseSocketsStayOpen, PTL
  DEF Spec, ImplementsLife, Life!Spec, LifeStep
=============================================================================
