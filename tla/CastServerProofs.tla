-------------------------- MODULE CastServerProofs --------------------------
(***************************************************************************)
(* Proofs that the invariants CastServer_safety checks on two speakers and *)
(* eight descriptors hold for any finite set of speakers, any descriptor   *)
(* table and any number of passes.  Each has its inductive invariant; all  *)
(* of them rest on TypeCorrect.                                            *)
(***************************************************************************)
EXTENDS CastServer, TLAPS

USE DEF TimeoutFloor, Fds, Holders, NoFile, NoFd

\* The actions, one disjunct each, that the step of every proof below is
\* split into.
LEMMA NextCases ==
    ASSUME Next
    PROVE  \/ \E s \in Speakers, b \in BOOLEAN : BeaconKnown(s, b) /\ UNCHANGED <<ctl, http>>
           \/ \E s \in Speakers, b \in BOOLEAN : BeaconNew(s, b) /\ UNCHANGED <<ctl, http>>
           \/ BeaconCheckOnline /\ UNCHANGED <<ctl, http>>
           \/ BeaconConnect /\ UNCHANGED <<ctl, http>>
           \/ BeaconSocket /\ UNCHANGED <<ctl, http>>
           \/ BeaconStore /\ UNCHANGED <<ctl, http>>
           \/ BeaconShare /\ UNCHANGED <<ctl, http>>
           \/ OnlineWake /\ UNCHANGED <<ctl, http>>
           \/ \E s \in Speakers : OnlineLoad(s) /\ UNCHANGED <<ctl, http>>
           \/ OnlineStore /\ UNCHANGED <<ctl, http>>
           \/ OnlineOffline /\ UNCHANGED <<ctl, http>>
           \/ OnlineTest /\ UNCHANGED <<ctl, http>>
           \/ OnlineReload /\ UNCHANGED <<ctl, http>>
           \/ OnlineClose /\ UNCHANGED <<ctl, http>>
           \/ OnlineSleep /\ UNCHANGED <<ctl, http>>
           \/ AcceptCommand /\ UNCHANGED <<detectVars, http>>
           \/ PushChunk /\ UNCHANGED <<detectVars, http>>
           \/ StreamEnd /\ UNCHANGED <<detectVars, http>>
           \/ \E s \in Speakers : CopySpeaker(s) /\ UNCHANGED <<detectVars, http>>
           \/ \E s \in Speakers : PushSent(s) /\ UNCHANGED <<detectVars, http>>
           \/ \E s \in Speakers : PushRefused(s) /\ UNCHANGED <<detectVars, http>>
           \/ CopyDone /\ UNCHANGED <<detectVars, http>>
           \/ PushTest /\ UNCHANGED <<detectVars, http>>
           \/ PushReload /\ UNCHANGED <<detectVars, http>>
           \/ PushClose /\ UNCHANGED <<detectVars, http>>
           \/ PushChunkDone /\ UNCHANGED <<detectVars, http>>
           \/ HttpNext /\ UNCHANGED <<detectVars, ctl>>
BY Zenon DEF Next, DetectNext, MainStep, OnlineStep, CommandNext, CommandStep

\* What a step of the HTTP thread does to the table: it takes a free number,
\* closes one it holds, or nothing.
LEMMA HttpSteps ==
    ASSUME HttpNext
    PROVE  /\ UNCHANGED <<listed, state, supported, timeout, fd>>
           /\ \/ UNCHANGED kern
              \/ \E f \in Fds, h \in {"http", "file"} :
                   kern[f] = "free" /\ kern' = [kern EXCEPT ![f] = h]
              \/ \E c \in Conns : CloseNumber(http[c].conn)
              \/ \E c \in Conns : CloseNumber(http[c].file)
BY DEF HttpNext, HttpStep, HttpAccept, HttpOpen, HttpStat, HttpDiscard,
       HttpSent, HttpClose, IsNextFd, FreeFds, tableVars

LEMMA HttpTypesCorrect == Spec => []HttpTypeOK
<1>1. Init => HttpTypeOK
  BY DEF Init, HttpInit, HttpClosed, HttpTypeOK
<1>2. HttpTypeOK /\ [Next]_vars => HttpTypeOK'
  <2> SUFFICES ASSUME HttpTypeOK, [Next]_vars PROVE HttpTypeOK'
    OBVIOUS
  <2>1. CASE UNCHANGED http
    BY <2>1 DEF HttpTypeOK
  <2>2. CASE HttpNext
    <3> PICK c \in Conns : HttpStep(c)
      BY <2>2 DEF HttpNext
    <3>1. CASE HttpAccept(c)
      BY <3>1 DEF HttpAccept, HttpTypeOK
    <3>2. CASE HttpOpen(c)
      BY <3>2 DEF HttpOpen, HttpTypeOK
    <3>3. CASE HttpStat(c)
      BY <3>3 DEF HttpStat, HttpTypeOK
    <3>4. CASE HttpDiscard(c)
      <4>1. CASE http' = [http EXCEPT ![c].pc = "aborted"]
        BY <4>1 DEF HttpTypeOK
      <4>2. CASE \E next \in {"request", "close"} :
                   http' = [http EXCEPT ![c].pc = next, ![c].file = NoFile]
        BY <3>4, <4>2 DEF HttpDiscard, HttpTypeOK
      <4> QED
        BY <3>4, <4>1, <4>2 DEF HttpDiscard
    <3>5. CASE HttpSent(c)
      BY <3>5 DEF HttpSent, HttpTypeOK
    <3>6. CASE HttpClose(c)
      BY <3>6 DEF HttpClose, HttpClosed, HttpTypeOK
    <3> QED
      BY <3>1, <3>2, <3>3, <3>4, <3>5, <3>6 DEF HttpStep
  <2> QED
    BY <2>1, <2>2 DEF Next, vars
<1> QED
  BY <1>1, <1>2, PTL DEF Spec

\* The types proper: the countdown never leaves -1..timeout, a descriptor
\* number stored for a speaker is one the process can have.
Types == TableTypeOK /\ DetectTypeOK /\ CommandTypeOK

\* A thread that is not in a call.
LEMMA IdleTypes ==
    /\ \A seen \in SUBSET Speakers :
         Walking(seen) \in [pc : {"walk"}, sp : Speakers \cup {Nobody},
                            loaded : TimeoutFloor..SpeakerTimeout,
                            seen : SUBSET Speakers, call : DisconnectCalls]
    /\ Sleeping \in [pc : {"sleep"}, sp : Speakers \cup {Nobody},
                     loaded : TimeoutFloor..SpeakerTimeout,
                     seen : SUBSET Speakers, call : DisconnectCalls]
    /\ CtlAccepting \in [pc : {"accept"}, sp : Speakers \cup {Nobody},
                         done : SUBSET Speakers, counted : SUBSET Speakers,
                         copied : SUBSET Speakers, call : DisconnectCalls]
    /\ CtlStreaming \in [pc : {"stream"}, sp : Speakers \cup {Nobody},
                         done : SUBSET Speakers, counted : SUBSET Speakers,
                         copied : SUBSET Speakers, call : DisconnectCalls]
<1>1. NoCall \in DisconnectCalls
  BY DEF NoCall, DisconnectCalls
<1>2. 0 \in TimeoutFloor..SpeakerTimeout
  BY TableAssumption
<1> QED
  BY <1>1, <1>2 DEF Sleeping, Walking, CtlAccepting, CtlStreaming

LEMMA TypesCorrect == Spec => []Types
<1>1. Init => Types
  <2> SUFFICES ASSUME Init PROVE Types
    OBVIOUS
  <2>1. TableTypeOK
    BY TableAssumption DEF Init, TableInit, TableTypeOK
  <2>2. DetectTypeOK
    BY IdleTypes DEF Init, DetectInit, MainIdle, DetectTypeOK
  <2>3. CommandTypeOK
    BY IdleTypes DEF Init, CommandInit, CommandTypeOK
  <2> QED
    BY <2>1, <2>2, <2>3 DEF Types
<1>2. Types /\ [Next]_vars => Types'
  <2> SUFFICES ASSUME Types, [Next]_vars PROVE Types'
    OBVIOUS
  <2> USE TableAssumption
  <2>1. CASE \E s \in Speakers, b \in BOOLEAN : BeaconKnown(s, b) /\ UNCHANGED <<ctl, http>>
    <3>1. TableTypeOK'
      BY <2>1 DEF BeaconKnown, Types, TableTypeOK
    <3>2. DetectTypeOK'
      BY <2>1 DEF BeaconKnown, MainIdle, Types, DetectTypeOK
    <3>3. CommandTypeOK'
      BY <2>1 DEF Types, CommandTypeOK
    <3> QED
      BY <3>1, <3>2, <3>3 DEF Types
  <2>2. CASE \E s \in Speakers, b \in BOOLEAN : BeaconNew(s, b) /\ UNCHANGED <<ctl, http>>
    <3>1. TableTypeOK'
      BY <2>2 DEF BeaconNew, Types, TableTypeOK
    <3>2. DetectTypeOK'
      BY <2>2 DEF BeaconNew, MainIdle, Types, DetectTypeOK
    <3>3. CommandTypeOK'
      BY <2>2 DEF Types, CommandTypeOK
    <3> QED
      BY <3>1, <3>2, <3>3 DEF Types
  <2>3. CASE BeaconCheckOnline /\ UNCHANGED <<ctl, http>>
    <3>1. TableTypeOK'
      BY <2>3 DEF Types, TableTypeOK, DetectTypeOK, BeaconCheckOnline, speaker_check_online
    <3>2. DetectTypeOK'
      BY <2>3 DEF Types, DetectTypeOK, BeaconCheckOnline, MainIdle
    <3>3. CommandTypeOK'
      BY <2>3 DEF Types, CommandTypeOK
    <3> QED
      BY <3>1, <3>2, <3>3 DEF Types
  <2>4. CASE BeaconConnect /\ UNCHANGED <<ctl, http>>
    BY <2>4 DEF BeaconConnect, MainIdle, Types, TableTypeOK, DetectTypeOK, CommandTypeOK,
         tableVars, detectVars
  <2>5. CASE BeaconSocket /\ UNCHANGED <<ctl, http>>
    <3>1. TableTypeOK'
      BY <2>5 DEF Types, TableTypeOK, DetectTypeOK, BeaconSocket, NewSocket
    <3>2. DetectTypeOK'
      BY <2>5 DEF Types, DetectTypeOK, BeaconSocket
    <3>3. CommandTypeOK'
      BY <2>5 DEF Types, CommandTypeOK
    <3> QED
      BY <3>1, <3>2, <3>3 DEF Types
  <2>6. CASE OnlineWake /\ UNCHANGED <<ctl, http>>
    BY <2>6, IdleTypes DEF OnlineWake, Types, TableTypeOK, DetectTypeOK,
         CommandTypeOK, tableVars, detectVars
  <2>7. CASE \E s \in Speakers : OnlineLoad(s) /\ UNCHANGED <<ctl, http>>
    <3> PICK s \in Speakers : OnlineLoad(s) /\ UNCHANGED <<ctl, http>>
      BY <2>7
    <3>1. /\ timeout[s] \in TimeoutFloor..SpeakerTimeout
          /\ online.seen \cup {s} \in SUBSET Speakers
      BY DEF Types, TableTypeOK, DetectTypeOK
    <3>2. DetectTypeOK'
      BY <3>1, IdleTypes DEF OnlineLoad, Types, DetectTypeOK
    <3> QED
      BY <3>2 DEF OnlineLoad, Types, TableTypeOK, CommandTypeOK, tableVars
  <2>8. CASE OnlineStore /\ UNCHANGED <<ctl, http>>
    <3>1. TableTypeOK'
      BY <2>8 DEF Types, TableTypeOK, DetectTypeOK, OnlineStore
    <3>2. DetectTypeOK'
      <4>1. CASE online.loaded <= 0
        <5>1. online' = [online EXCEPT !.pc = "offline", !.loaded = 0]
          BY <2>8, <4>1 DEF OnlineStore
        <5>2. 0 \in TimeoutFloor..SpeakerTimeout /\ online.sp \in Speakers
          BY <2>8 DEF Types, DetectTypeOK, OnlineStore
        <5> QED
          BY <2>8, <5>1, <5>2 DEF Types, DetectTypeOK, OnlineStore
      <4>2. CASE ~(online.loaded <= 0)
        BY <2>8, <4>2, IdleTypes DEF Types, DetectTypeOK, OnlineStore
      <4> QED
        BY <4>1, <4>2
    <3>3. CommandTypeOK'
      BY <2>8 DEF Types, CommandTypeOK
    <3> QED
      BY <3>1, <3>2, <3>3 DEF Types
  <2>9. CASE OnlineOffline /\ UNCHANGED <<ctl, http>>
    BY <2>9 DEF OnlineOffline, Types, TableTypeOK, DetectTypeOK, CommandTypeOK,
         tableVars, detectVars
  <2>10. CASE OnlineClose /\ UNCHANGED <<ctl, http>>
    <3>1. TableTypeOK'
      BY <2>10 DEF Types, TableTypeOK, OnlineClose, CloseNumber
    <3>2. DetectTypeOK'
      BY <2>10, IdleTypes DEF Types, DetectTypeOK, OnlineClose
    <3>3. CommandTypeOK'
      BY <2>10 DEF Types, CommandTypeOK
    <3> QED
      BY <3>1, <3>2, <3>3 DEF Types
  <2>11. CASE OnlineSleep /\ UNCHANGED <<ctl, http>>
    BY <2>11, IdleTypes DEF OnlineSleep, Types, TableTypeOK, DetectTypeOK,
         CommandTypeOK, tableVars, detectVars
  <2>12. CASE AcceptCommand /\ UNCHANGED <<detectVars, http>>
    <3>1. TableTypeOK'
      BY <2>12 DEF Types, TableTypeOK, AcceptCommand
    <3>2. DetectTypeOK'
      BY <2>12 DEF Types, DetectTypeOK, detectVars
    <3>3. CommandTypeOK'
      <4>1. CASE UNCHANGED ctl
        BY <4>1 DEF Types, CommandTypeOK
      <4>2. CASE ctl' = CtlStreaming
        BY <4>2, IdleTypes DEF CommandTypeOK
      <4>3. CASE ctl' = [CtlAccepting EXCEPT !.pc = "copy",
                                             !.counted = listed]
        BY <4>3, IdleTypes DEF CommandTypeOK, Types, TableTypeOK
      <4> QED
        BY <2>12, <4>1, <4>2, <4>3, Zenon DEF AcceptCommand
    <3> QED
      BY <3>1, <3>2, <3>3 DEF Types
  <2>13. CASE PushChunk /\ UNCHANGED <<detectVars, http>>
    BY <2>13 DEF PushChunk, Types, TableTypeOK, DetectTypeOK, CommandTypeOK,
         tableVars, detectVars
  <2>14. CASE StreamEnd /\ UNCHANGED <<detectVars, http>>
    BY <2>14, IdleTypes DEF StreamEnd, Types, TableTypeOK, DetectTypeOK,
         CommandTypeOK, tableVars, detectVars
  <2>15. CASE \E s \in Speakers : CopySpeaker(s) /\ UNCHANGED <<detectVars, http>>
    <3>1. TableTypeOK'
      BY <2>15 DEF Types, TableTypeOK, tableVars, CopySpeaker, CopyStep
    <3>2. DetectTypeOK'
      BY <2>15 DEF Types, DetectTypeOK, detectVars
    <3>3. CommandTypeOK'
      <4> PICK s \in Speakers : CopySpeaker(s)
        BY <2>15
      <4>1. CASE state[s] = "none"
        BY <4>1 DEF Types, CommandTypeOK, CopySpeaker, CopyStep
      <4>2. CASE state[s] # "none"
        <5>1. ctl' = [ctl EXCEPT !.done = ctl.done \cup {s},
                                 !.copied = ctl.copied \cup {s}]
          BY <4>2 DEF CopySpeaker, CopyStep
        <5> QED
          BY <5>1 DEF Types, CommandTypeOK
      <4> QED
        BY <4>1, <4>2
    <3> QED
      BY <3>1, <3>2, <3>3 DEF Types
  <2>16. CASE \E s \in Speakers : PushSent(s) /\ UNCHANGED <<detectVars, http>>
    <3>1. TableTypeOK'
      BY <2>16 DEF Types, TableTypeOK, tableVars, PushSent
    <3>2. DetectTypeOK'
      BY <2>16 DEF Types, DetectTypeOK, detectVars
    <3>3. CommandTypeOK'
      BY <2>16 DEF Types, CommandTypeOK, PushSent
    <3> QED
      BY <3>1, <3>2, <3>3 DEF Types
  <2>17. CASE \E s \in Speakers : PushRefused(s) /\ UNCHANGED <<detectVars, http>>
    <3>1. TableTypeOK'
      <4> PICK s \in Speakers : PushRefused(s)
        BY <2>17
      <4>1. CASE UNCHANGED <<state, timeout>>
        BY <4>1 DEF Types, TableTypeOK, PushRefused
      <4>2. CASE speaker_check_online(s)
        BY <4>2 DEF Types, TableTypeOK, PushRefused, speaker_check_online
      <4> QED
        BY <4>1, <4>2 DEF PushRefused, speaker_recheck_online
    <3>2. DetectTypeOK'
      BY <2>17 DEF Types, DetectTypeOK, detectVars
    <3>3. CommandTypeOK'
      <4> PICK s \in Speakers : PushRefused(s)
        BY <2>17
      <4> HIDE TableAssumption
      <4> QED
        BY DEF Types, CommandTypeOK, PushRefused
    <3> QED
      BY <3>1, <3>2, <3>3 DEF Types
  <2>18. CASE CopyDone /\ UNCHANGED <<detectVars, http>>
    BY <2>18, IdleTypes DEF CopyDone, Types, TableTypeOK, DetectTypeOK,
         CommandTypeOK, tableVars, detectVars
  <2>19. CASE PushClose /\ UNCHANGED <<detectVars, http>>
    <3>1. TableTypeOK'
      BY <2>19 DEF Types, TableTypeOK, PushClose, CloseNumber
    <3>2. CommandTypeOK'
      BY <2>19
      DEF Types, CommandTypeOK, PushClose, Pushing, NoCall, DisconnectCalls
    <3>3. DetectTypeOK'
      BY <2>19 DEF Types, DetectTypeOK, detectVars
    <3> QED
      BY <3>1, <3>2, <3>3 DEF Types
  <2>20. CASE PushChunkDone /\ UNCHANGED <<detectVars, http>>
    BY <2>20, IdleTypes DEF PushChunkDone, Types, TableTypeOK, DetectTypeOK,
         CommandTypeOK, tableVars, detectVars
  <2>21. CASE UNCHANGED vars
    BY <2>21 DEF vars, Types, TableTypeOK, DetectTypeOK, CommandTypeOK,
         tableVars, detectVars
  <2>22. CASE HttpNext /\ UNCHANGED <<detectVars, ctl>>
    <3>1. TableTypeOK'
      BY <2>22, HttpSteps DEF Types, TableTypeOK, CloseNumber
    <3> QED
      BY <2>22, <3>1 DEF Types, DetectTypeOK, CommandTypeOK, detectVars
  <2>23. CASE BeaconStore /\ UNCHANGED <<ctl, http>>
    <3>1. main.sp \in Speakers /\ main.num \in {NoFd} \cup Fds
      BY <2>23 DEF Types, DetectTypeOK, BeaconStore
    <3>2. TableTypeOK'
      BY <2>23, <3>1 DEF Types, TableTypeOK, BeaconStore, StoreFd
    <3>3. DetectTypeOK'
      BY <2>23 DEF Types, DetectTypeOK, BeaconStore, MainIdle
    <3>4. CommandTypeOK'
      BY <2>23 DEF Types, CommandTypeOK
    <3> QED
      BY <3>2, <3>3, <3>4 DEF Types
  <2>24. CASE BeaconShare /\ UNCHANGED <<ctl, http>>
    <3>1. TableTypeOK'
      <4>1. PushFd \in Fds
        OBVIOUS
      <4> QED
        BY <2>24, <4>1 DEF Types, TableTypeOK, BeaconShare, StoreFd
    <3>2. DetectTypeOK'
      BY <2>24 DEF Types, DetectTypeOK, BeaconShare, MainIdle
    <3>3. CommandTypeOK'
      BY <2>24 DEF Types, CommandTypeOK
    <3> QED
      BY <3>1, <3>2, <3>3 DEF Types
  <2>25. CASE (OnlineTest \/ OnlineReload) /\ UNCHANGED <<ctl, http>>
    <3>1. fd[online.sp] \in {NoFd} \cup Fds
      BY <2>25 DEF Types, TableTypeOK, DetectTypeOK, OnlineTest, OnlineReload
    <3>2. DetectTypeOK'
      <4>1. CASE online' = Walking(online.seen)
        BY <2>25, <4>1, IdleTypes
        DEF OnlineTest, OnlineReload, Types, DetectTypeOK
      <4>2. CASE online' = [online EXCEPT !.pc = "reload",
                                          !.call.tested = fd[online.sp]]
        BY <2>25, <3>1, <4>2 DEF OnlineTest, OnlineReload, Types, DetectTypeOK,
                                 DisconnectCalls
      <4>3. CASE online' = [online EXCEPT !.pc = "close",
                                          !.call.num = fd[online.sp]]
        BY <2>25, <3>1, <4>3 DEF OnlineTest, OnlineReload, Types, DetectTypeOK,
                                 DisconnectCalls
      <4> QED
        BY <2>25, <4>1, <4>2, <4>3 DEF OnlineTest, OnlineReload
    <3> QED
      BY <2>25, <3>2
      DEF OnlineTest, OnlineReload, tableVars, Types, TableTypeOK, CommandTypeOK
  <2>26. CASE (PushTest \/ PushReload) /\ UNCHANGED <<detectVars, http>>
    <3>1. fd[ctl.sp] \in {NoFd} \cup Fds
      BY <2>26 DEF Types, TableTypeOK, CommandTypeOK, PushTest, PushReload
    <3>2. CommandTypeOK'
      <4>1. CASE ctl' = Pushing
        BY <4>1 DEF Types, CommandTypeOK, Pushing, NoCall, DisconnectCalls
      <4>2. CASE ctl' = [ctl EXCEPT !.pc = "reload", !.call.tested = fd[ctl.sp]]
        BY <2>26, <3>1, <4>2
        DEF PushTest, PushReload, Types, CommandTypeOK, DisconnectCalls
      <4>3. CASE ctl' = [ctl EXCEPT !.pc = "close", !.call.num = fd[ctl.sp]]
        BY <2>26, <3>1, <4>3
        DEF PushTest, PushReload, Types, CommandTypeOK, DisconnectCalls
      <4> QED
        BY <2>26, <4>1, <4>2, <4>3 DEF PushTest, PushReload
    <3> QED
      BY <2>26, <3>2
      DEF PushTest, PushReload, tableVars, detectVars, Types, TableTypeOK,
          DetectTypeOK
  <2> QED
    BY <2>1, <2>2, <2>3, <2>4, <2>5, <2>6, <2>7, <2>8, <2>9, <2>10, <2>11,
       <2>12, <2>13, <2>14, <2>15, <2>16, <2>17, <2>18, <2>19, <2>20, <2>21,
       <2>22, <2>23, <2>24, <2>25, <2>26, NextCases
<1> QED
  BY <1>1, <1>2, PTL DEF Spec

(***************************************************************************)
(* TypeOK: besides the types, the speakers the event loop, the online      *)
(* thread and the control-socket thread have in hand are in the list.      *)
(***************************************************************************)
THEOREM TypeCorrect == Spec => []TypeOK
<1>1. Init => InHandListed
  BY DEF Init, DetectInit, CommandInit, MainIdle, Sleeping, Walking,
         CtlAccepting, InHandListed
<1>2. Types /\ InHandListed /\ [Next]_vars => InHandListed'
  <2> SUFFICES ASSUME Types, InHandListed, [Next]_vars PROVE InHandListed'
    OBVIOUS
  <2>1. CASE \E s \in Speakers, b \in BOOLEAN : BeaconKnown(s, b) /\ UNCHANGED <<ctl, http>>
    BY <2>1 DEF BeaconKnown, InHandListed
  <2>2. CASE \E s \in Speakers, b \in BOOLEAN : BeaconNew(s, b) /\ UNCHANGED <<ctl, http>>
    BY <2>2 DEF BeaconNew, InHandListed
  <2>3. CASE BeaconCheckOnline /\ UNCHANGED <<ctl, http>>
    BY <2>3 DEF BeaconCheckOnline, MainIdle, InHandListed, Types, DetectTypeOK
  <2>4. CASE BeaconConnect /\ UNCHANGED <<ctl, http>>
    BY <2>4 DEF BeaconConnect, MainIdle, InHandListed, Types, DetectTypeOK,
         tableVars
  <2>5. CASE (BeaconSocket \/ BeaconStore \/ BeaconShare) /\ UNCHANGED <<ctl, http>>
    <3>1. main'.pc = "idle" \/ (main.pc # "idle" /\ main'.sp = main.sp)
      <4>1. CASE BeaconSocket
        BY <4>1 DEF BeaconSocket, Types, DetectTypeOK
      <4>2. CASE BeaconStore
        BY <4>2 DEF BeaconStore, MainIdle, Types, DetectTypeOK
      <4>3. CASE BeaconShare
        BY <4>3 DEF BeaconShare, MainIdle
      <4> QED
        BY <2>5, <4>1, <4>2, <4>3
    <3> QED
      BY <2>5, <3>1 DEF BeaconSocket, BeaconStore, BeaconShare, InHandListed
  <2>6. CASE OnlineStep /\ UNCHANGED <<ctl, http>>
    <3>1. UNCHANGED <<main, listed, ctl>>
      BY <2>6
      DEF OnlineStep, OnlineWake, OnlineLoad, OnlineStore, OnlineOffline,
          OnlineTest, OnlineReload, OnlineClose, OnlineSleep, tableVars
    <3>2. CASE \E s \in Speakers : OnlineLoad(s)
      BY <3>1, <3>2 DEF OnlineLoad, Walking, InHandListed
    <3>3. CASE OnlineStore \/ OnlineOffline \/ OnlineTest \/ OnlineReload
      <4>1. online.sp \in listed
        BY <3>3
        DEF OnlineStore, OnlineOffline, OnlineTest, OnlineReload, InHandListed
      <4>2. \/ online' = [online EXCEPT !.pc = "offline", !.loaded = 0]
            \/ online' = [online EXCEPT !.pc = "test"]
            \/ online' = [online EXCEPT !.pc = "reload",
                                        !.call.tested = fd[online.sp]]
            \/ online' = [online EXCEPT !.pc = "close",
                                        !.call.num = fd[online.sp]]
            \/ online' = Walking(online.seen)
        BY <3>3, Zenon DEF OnlineStore, OnlineOffline, OnlineTest, OnlineReload
      <4>3. online'.sp = online.sp \/ online'.pc = "walk"
        <5>1. CASE online' = [online EXCEPT !.pc = "offline", !.loaded = 0]
          BY <5>1 DEF Types, DetectTypeOK
        <5>2. CASE online' = [online EXCEPT !.pc = "test"]
          BY <5>2 DEF Types, DetectTypeOK
        <5>3. CASE online' = [online EXCEPT !.pc = "reload",
                                            !.call.tested = fd[online.sp]]
          BY <5>3 DEF Types, DetectTypeOK
        <5>4. CASE online' = [online EXCEPT !.pc = "close",
                                            !.call.num = fd[online.sp]]
          BY <5>4 DEF Types, DetectTypeOK
        <5>5. CASE online' = Walking(online.seen)
          BY <5>5 DEF Walking
        <5> QED
          BY <4>2, <5>1, <5>2, <5>3, <5>4, <5>5
      <4> QED
        BY <3>1, <4>1, <4>3 DEF InHandListed
    <3>4. CASE OnlineWake \/ OnlineClose \/ OnlineSleep
      BY <3>1, <3>4
      DEF OnlineWake, OnlineClose, OnlineSleep, Walking, Sleeping, InHandListed
    <3> QED
      BY <2>6, <3>2, <3>3, <3>4 DEF OnlineStep
  <2>7. CASE CommandNext /\ UNCHANGED <<detectVars, http>>
    <3>1. UNCHANGED <<main, online, listed>>
      BY <2>7
      DEF CommandNext, CommandStep, AcceptCommand, PushChunk, StreamEnd,
          CopySpeaker, CopyStep, PushSent, PushRefused, CopyDone, PushTest,
          PushReload, PushClose, PushChunkDone, tableVars, detectVars
    <3> DEFINE Calling(pc) == pc \in {"test", "reload", "close"}
    <3>2. CASE \E s \in Speakers : PushRefused(s)
      BY <3>1, <3>2 DEF PushRefused, InHandListed, Types, CommandTypeOK
    <3>3. CASE \E s \in Speakers : CopySpeaker(s) \/ PushSent(s)
      <4>1. ~Calling(ctl'.pc)
        BY <3>3 DEF CopySpeaker, CopyStep, PushSent, Types, CommandTypeOK
      <4> QED
        BY <3>1, <4>1 DEF InHandListed
    <3>4. CASE AcceptCommand \/ StreamEnd \/ CopyDone \/ PushChunkDone
      <4>1. \/ ctl' = ctl
            \/ ctl' = CtlStreaming
            \/ ctl' = [CtlAccepting EXCEPT !.pc = "copy",
                                           !.counted = listed]
            \/ ctl' = CtlAccepting
        BY <3>4, Zenon DEF AcceptCommand, StreamEnd, CopyDone, PushChunkDone
      <4>2. ctl' = ctl \/ ~Calling(ctl'.pc)
        <5>1. CASE ctl' = CtlStreaming
          BY <5>1 DEF CtlAccepting, CtlStreaming
        <5>2. CASE ctl' = [CtlAccepting EXCEPT !.pc = "copy",
                                               !.counted = listed]
          BY <5>2 DEF CtlAccepting
        <5>3. CASE ctl' = CtlAccepting
          BY <5>3 DEF CtlAccepting
        <5> QED
          BY <4>1, <5>1, <5>2, <5>3
      <4> QED
        BY <3>1, <4>2 DEF InHandListed
    <3>5. CASE PushChunk \/ PushTest \/ PushReload \/ PushClose
      <4>1. \/ ~Calling(ctl'.pc)
            \/ Calling(ctl.pc) /\ ctl'.sp = ctl.sp
        BY <3>5
        DEF PushChunk, PushTest, PushReload, PushClose, Pushing, Types,
            CommandTypeOK
      <4> QED
        BY <3>1, <4>1 DEF InHandListed
    <3> QED
      BY <2>7, <3>2, <3>3, <3>4, <3>5 DEF CommandNext, CommandStep
  <2>8. CASE UNCHANGED vars
    BY <2>8 DEF vars, tableVars, detectVars, InHandListed
  <2>9. CASE HttpNext /\ UNCHANGED <<detectVars, ctl>>
    BY <2>9, HttpSteps DEF detectVars, InHandListed
  <2> QED
    BY <2>1, <2>2, <2>3, <2>4, <2>5, <2>6, <2>7, <2>8, <2>9, Zenon
    DEF Next, DetectNext, MainStep
<1>3. Types /\ HttpTypeOK /\ InHandListed => TypeOK
  BY DEF Types, TypeOK
<1> QED
  BY <1>1, <1>2, <1>3, TypesCorrect, HttpTypesCorrect, PTL DEF Spec

(***************************************************************************)
(* Descriptors.  Few actions touch the descriptor table or the numbers the *)
(* speakers hold; every other step leaves both, and the event loop, alone, *)
(* or is one of its two first steps.                                       *)
(***************************************************************************)
LEMMA DescriptorSteps ==
    ASSUME [Next]_vars
    PROVE  \/ UNCHANGED <<fd, kern, http>>
           \/ BeaconSocket /\ UNCHANGED <<online, ctl, http>>
           \/ BeaconStore /\ UNCHANGED <<online, ctl, http>>
           \/ BeaconShare /\ UNCHANGED <<online, ctl, http>>
           \/ OnlineClose /\ UNCHANGED <<main, ctl, http>>
           \/ PushClose /\ UNCHANGED <<main, online, http>>
           \/ AcceptCommand /\ UNCHANGED <<main, online, http>>
           \/ HttpNext /\ UNCHANGED <<main, online, ctl>>
<1>1. CASE Next
  BY <1>1, NextCases
     DEF BeaconKnown, BeaconNew, BeaconCheckOnline, BeaconConnect, BeaconSocket,
         BeaconStore, BeaconShare, OnlineWake, OnlineLoad, OnlineStore,
         OnlineOffline, OnlineTest, OnlineReload, OnlineClose, OnlineSleep,
         PushChunk, StreamEnd, CopySpeaker, CopyStep, PushSent, PushRefused,
         CopyDone, PushTest, PushReload, PushChunkDone, tableVars, detectVars
<1>2. CASE UNCHANGED vars
  BY <1>2 DEF vars, tableVars
<1> QED
  BY <1>1, <1>2

(***************************************************************************)
(* speaker->fd is written by the first connect of a speaker only: until    *)
(* then it is as add_speaker left it, afterwards it never changes.         *)
(***************************************************************************)
ConnectInv ==
    /\ \A s \in Speakers \ listed : fd[s] = UnsetFd
    /\ main.pc \in {"connect", "socket", "store", "share"} => main.new
    /\ main.pc \in {"check", "connect", "socket", "store"} /\ main.new
         => fd[main.sp] = UnsetFd
    /\ main.pc = "share" => fd[main.sp] = NoFd

LEMMA ConnectInvCorrect == Spec => []ConnectInv
<1>1. Init => ConnectInv
  BY DEF Init, TableInit, DetectInit, MainIdle, ConnectInv
<1>2. TypeOK /\ ConnectInv /\ [Next]_vars => ConnectInv'
  <2> SUFFICES ASSUME TypeOK, ConnectInv, [Next]_vars PROVE ConnectInv'
    OBVIOUS
  <2>1. /\ fd \in [Speakers -> {-1} \cup Fds]
        /\ main \in [pc : {"idle", "check", "connect", "socket", "store",
                           "share"},
                     sp : Speakers \cup {Nobody}, new : BOOLEAN,
                     num : {NoFd} \cup Fds]
        /\ main.pc # "idle" => main.sp \in listed /\ main.sp \in Speakers
    BY DEF TypeOK, TableTypeOK, DetectTypeOK, InHandListed
  <2>2. CASE UNCHANGED <<listed, fd, main>>
    BY <2>2 DEF ConnectInv
  <2>3. CASE \E s \in Speakers, b \in BOOLEAN : BeaconKnown(s, b)
    BY <2>3 DEF BeaconKnown, MainIdle, ConnectInv
  <2>4. CASE \E s \in Speakers, b \in BOOLEAN : BeaconNew(s, b)
    BY <2>4 DEF BeaconNew, MainIdle, ConnectInv
  <2>5. CASE BeaconCheckOnline
    BY <2>1, <2>5 DEF BeaconCheckOnline, MainIdle, ConnectInv
  <2>6. CASE BeaconConnect
    BY <2>1, <2>6 DEF BeaconConnect, MainIdle, ConnectInv, tableVars
  <2>7. CASE BeaconSocket
    BY <2>1, <2>7 DEF BeaconSocket, ConnectInv
  <2>8. CASE BeaconStore
    <3>1. /\ main.sp \in Speakers /\ main.sp \in listed /\ main.new
          /\ UNCHANGED listed
          /\ fd' = [fd EXCEPT ![main.sp] = main.num]
          /\ \/ main'.pc = "share" /\ main'.sp = main.sp /\ main'.new
                /\ main.num = -1
             \/ main'.pc = "idle"
      BY <2>1, <2>8 DEF BeaconStore, StoreFd, MainIdle, ConnectInv
    <3> QED
      BY <2>1, <3>1 DEF ConnectInv
  <2>9. CASE BeaconShare
    BY <2>1, <2>9 DEF BeaconShare, StoreFd, MainIdle, ConnectInv
  <2>10. \/ UNCHANGED <<listed, fd, main>>
         \/ \E s \in Speakers, b \in BOOLEAN : BeaconKnown(s, b)
         \/ \E s \in Speakers, b \in BOOLEAN : BeaconNew(s, b)
         \/ BeaconCheckOnline
         \/ BeaconConnect
         \/ BeaconSocket
         \/ BeaconStore
         \/ BeaconShare
    <3>1. CASE Next
      BY <3>1, NextCases, HttpSteps
      DEF OnlineWake, OnlineLoad, OnlineStore, OnlineOffline, OnlineTest,
          OnlineReload, OnlineClose, OnlineSleep, AcceptCommand, PushChunk,
          StreamEnd, CopySpeaker, CopyStep, PushSent, PushRefused, CopyDone,
          PushTest, PushReload, PushClose, PushChunkDone, tableVars, detectVars
    <3>2. CASE UNCHANGED vars
      BY <3>2 DEF vars, tableVars, detectVars
    <3> QED
      BY <3>1, <3>2
  <2> QED
    BY <2>2, <2>3, <2>4, <2>5, <2>6, <2>7, <2>8, <2>9, <2>10
<1> QED
  BY <1>1, <1>2, TypeCorrect, PTL DEF Spec

(***************************************************************************)
(* A call of server_sppush_disconnect behind its test: the number it found *)
(* there is not the pusher's, and is still the speaker's or the one from   *)
(* before its connect.  So the number read again for close is the pusher's *)
(* only if the one tested was 0, from before a connect that came between.  *)
(***************************************************************************)
CallOK(s, pc, call) ==
    /\ pc \in {"reload", "close"}
         => call.tested \in Fds \ {PushFd} /\ call.tested \in {fd[s], UnsetFd}
    /\ pc = "close" /\ call.num = PushFd => call.tested = 0 /\ UnsetFd = 0

CallInv ==
    /\ CallOK(online.sp, online.pc, online.call)
    /\ CallOK(ctl.sp, ctl.pc, ctl.call)

\* The event loop storing a number meanwhile does not spoil a call.
LEMMA StoredMeanwhile ==
    ASSUME NEW s, NEW pc, NEW call, CallOK(s, pc, call),
           pc \in {"reload", "close"}
             => fd'[s] = fd[s] \/ fd[s] \in {UnsetFd, NoFd}
    PROVE  CallOK(s, pc, call)'
BY TableAssumption DEF CallOK

LEMMA CallInvCorrect == Spec => []CallInv
<1>1. Init => CallInv
  BY DEF Init, DetectInit, CommandInit, Sleeping, Walking, CtlAccepting,
         CallInv, CallOK
<1>2. TypeOK /\ ConnectInv /\ CallInv /\ [Next]_vars => CallInv'
  <2> SUFFICES ASSUME TypeOK, ConnectInv, CallInv, [Next]_vars PROVE CallInv'
    OBVIOUS
  <2> DEFINE Behind(pc) == pc \in {"reload", "close"}
  <2>1. /\ fd \in [Speakers -> {-1} \cup Fds]
        /\ Behind(online.pc) => online.sp \in Speakers
        /\ Behind(ctl.pc) => ctl.sp \in Speakers
    BY DEF TypeOK, TableTypeOK, DetectTypeOK, CommandTypeOK
  <2>2. CASE UNCHANGED <<fd, online, ctl>>
    BY <2>2 DEF CallInv, CallOK
  <2>3. CASE (BeaconStore \/ BeaconShare) /\ UNCHANGED <<online, ctl>>
    <3>1. main.sp \in Speakers /\ fd[main.sp] \in {UnsetFd, NoFd}
      BY <2>3
      DEF BeaconStore, BeaconShare, ConnectInv, TypeOK, DetectTypeOK
    <3>2. \A s \in Speakers : fd'[s] = fd[s] \/ fd[s] \in {UnsetFd, NoFd}
      BY <2>1, <2>3, <3>1 DEF BeaconStore, BeaconShare, StoreFd
    <3>3. CallOK(online.sp, online.pc, online.call)'
      BY <2>1, <2>3, <3>2, StoredMeanwhile DEF CallInv
    <3>4. CallOK(ctl.sp, ctl.pc, ctl.call)'
      BY <2>1, <2>3, <3>2, StoredMeanwhile DEF CallInv
    <3> QED
      BY <3>3, <3>4 DEF CallInv
  <2>4. CASE UNCHANGED <<fd, ctl>> /\ ~Behind(online'.pc)
    BY <2>4 DEF CallInv, CallOK
  <2>5. CASE OnlineTest /\ UNCHANGED ctl
    <3>1. CASE Spared(online.sp)
      BY <2>4, <2>5, <3>1 DEF OnlineTest, Walking, tableVars
    <3>2. CASE ~Spared(online.sp)
      <4>1. /\ online'.pc = "reload" /\ online'.sp = online.sp
            /\ online'.call.tested = fd[online.sp]
            /\ online.sp \in Speakers
            /\ UNCHANGED fd
        BY <2>5, <3>2
        DEF OnlineTest, tableVars, TypeOK, DetectTypeOK, DisconnectCalls
      <4>2. fd[online.sp] \in Fds \ {PushFd}
        BY <2>1, <3>2, <4>1, TableAssumption DEF Spared
      <4> QED
        BY <2>5, <4>1, <4>2 DEF CallInv, CallOK
    <3> QED
      BY <3>1, <3>2
  <2>6. CASE OnlineReload /\ UNCHANGED ctl
    <3>1. /\ online.pc = "reload" /\ online'.pc = "close"
          /\ online'.sp = online.sp
          /\ online'.call.tested = online.call.tested
          /\ online'.call.num = fd[online.sp]
          /\ UNCHANGED fd
      BY <2>6 DEF OnlineReload, tableVars, TypeOK, DetectTypeOK, DisconnectCalls
    <3> QED
      BY <2>6, <3>1, TableAssumption DEF CallInv, CallOK
  <2>7. CASE UNCHANGED <<fd, online>> /\ ~Behind(ctl'.pc)
    BY <2>7 DEF CallInv, CallOK
  <2>8. CASE PushTest /\ UNCHANGED online
    <3>1. CASE Spared(ctl.sp)
      BY <2>7, <2>8, <3>1
      DEF PushTest, Pushing, tableVars, TypeOK, CommandTypeOK
    <3>2. CASE ~Spared(ctl.sp)
      <4>1. /\ ctl'.pc = "reload" /\ ctl'.sp = ctl.sp
            /\ ctl'.call.tested = fd[ctl.sp]
            /\ ctl.sp \in Speakers
            /\ UNCHANGED fd
        BY <2>8, <3>2
        DEF PushTest, tableVars, TypeOK, CommandTypeOK, DisconnectCalls
      <4>2. fd[ctl.sp] \in Fds \ {PushFd}
        BY <2>1, <3>2, <4>1, TableAssumption DEF Spared
      <4> QED
        BY <2>8, <4>1, <4>2 DEF CallInv, CallOK
    <3> QED
      BY <3>1, <3>2
  <2>9. CASE PushReload /\ UNCHANGED online
    <3>1. /\ ctl.pc = "reload" /\ ctl'.pc = "close" /\ ctl'.sp = ctl.sp
          /\ ctl'.call.tested = ctl.call.tested
          /\ ctl'.call.num = fd[ctl.sp]
          /\ UNCHANGED fd
      BY <2>9 DEF PushReload, tableVars, TypeOK, CommandTypeOK, DisconnectCalls
    <3> QED
      BY <2>9, <3>1, TableAssumption DEF CallInv, CallOK
  <2>10. ASSUME OnlineWake \/ OnlineStore \/ OnlineOffline \/ OnlineClose
                \/ OnlineSleep \/ \E s \in Speakers : OnlineLoad(s)
         PROVE  UNCHANGED fd /\ ~Behind(online'.pc)
    <3>1. CASE OnlineWake \/ OnlineClose \/ OnlineSleep
      BY <3>1
      DEF OnlineWake, OnlineClose, OnlineSleep, Walking, Sleeping, tableVars
    <3>2. CASE OnlineStore
      BY <3>2 DEF OnlineStore, Walking, TypeOK, DetectTypeOK
    <3>3. CASE OnlineOffline
      BY <3>3 DEF OnlineOffline, TypeOK, DetectTypeOK
    <3>4. CASE \E s \in Speakers : OnlineLoad(s)
      BY <3>4 DEF OnlineLoad, Walking, tableVars
    <3> QED
      BY <2>10, <3>1, <3>2, <3>3, <3>4
  <2>11. ASSUME AcceptCommand
         PROVE  \/ UNCHANGED fd /\ ~Behind(ctl'.pc)
                \/ UNCHANGED <<fd, ctl>>
    BY <2>11 DEF AcceptCommand, CtlStreaming, CtlAccepting
  <2>12. ASSUME PushChunk \/ StreamEnd \/ CopyDone \/ PushClose \/ PushChunkDone
                \/ \E s \in Speakers : CopySpeaker(s) \/ PushSent(s) \/ PushRefused(s)
         PROVE  UNCHANGED fd /\ ~Behind(ctl'.pc)
    <3>1. CASE StreamEnd \/ CopyDone \/ PushChunkDone
      BY <3>1
      DEF StreamEnd, CopyDone, PushChunkDone, CtlStreaming, CtlAccepting,
          tableVars
    <3>2. CASE PushChunk \/ PushClose
      BY <3>2
      DEF PushChunk, PushClose, Pushing, tableVars, TypeOK, CommandTypeOK
    <3>3. CASE \E s \in Speakers : CopySpeaker(s)
      BY <3>3 DEF CopySpeaker, CopyStep, tableVars, TypeOK, CommandTypeOK
    <3>4. CASE \E s \in Speakers : PushSent(s)
      BY <3>4 DEF PushSent, tableVars, TypeOK, CommandTypeOK
    <3>5. CASE \E s \in Speakers : PushRefused(s)
      BY <3>5 DEF PushRefused, TypeOK, CommandTypeOK
    <3> QED
      BY <2>12, <3>1, <3>2, <3>3, <3>4, <3>5
  <2>13. CASE Next
    <3>1. CASE OnlineStep /\ UNCHANGED <<ctl, http>>
      BY <2>4, <2>5, <2>6, <2>10, <3>1 DEF OnlineStep
    <3>2. CASE CommandNext /\ UNCHANGED <<detectVars, http>>
      <4>1. UNCHANGED online
        BY <3>2 DEF detectVars
      <4> QED
        BY <2>2, <2>7, <2>8, <2>9, <2>11, <2>12, <3>2, <4>1
        DEF CommandNext, CommandStep
    <3>3. CASE MainStep /\ UNCHANGED <<ctl, http>>
      <4>1. \/ (BeaconStore \/ BeaconShare) /\ UNCHANGED <<online, ctl>>
            \/ UNCHANGED <<fd, online, ctl>>
        BY <3>3
        DEF MainStep, BeaconKnown, BeaconNew, BeaconCheckOnline,
            BeaconConnect, BeaconSocket, BeaconStore, BeaconShare, tableVars
      <4> QED
        BY <2>2, <2>3, <4>1
    <3>4. CASE HttpNext /\ UNCHANGED <<detectVars, ctl>>
      BY <2>2, <3>4, HttpSteps DEF detectVars
    <3> QED
      BY <2>13, <3>1, <3>2, <3>3, <3>4 DEF Next, DetectNext
  <2>14. CASE UNCHANGED vars
    BY <2>2, <2>14 DEF vars, tableVars, detectVars
  <2> QED
    BY <2>13, <2>14
<1> QED
  BY <1>1, <1>2, TypeCorrect, ConnectInvCorrect, PTL DEF Spec

(***************************************************************************)
(* The sockets of the server's own.  Closing by number is harmless because *)
(* no number a thread is going to close is one of theirs: a speaker may    *)
(* have the pusher's, which CallInv says when it is closed.  A descriptor  *)
(* once lost does not become one of these again.                           *)
(***************************************************************************)
Foreign(f) == f \in BaseFds => kern[f] # "base"

BaseInv ==
    /\ BaseSocketsOpen
    /\ \A s \in Speakers : fd[s] \notin BaseFds \ {PushFd}
    /\ main.pc = "store" => Foreign(main.num)
    /\ \A c \in Conns : Foreign(http[c].conn) /\ Foreign(http[c].file)
    /\ online.pc = "close" => online.call.num \notin BaseFds \ {PushFd}
    /\ ctl.pc = "close" => ctl.call.num \notin BaseFds \ {PushFd}

\* What a step does to the descriptor table: nothing, or a free number is
\* taken, or a number closed that a thread has in hand.
LEMMA KernSteps ==
    ASSUME TypeOK, [Next]_vars
    PROVE  \/ UNCHANGED kern
           \/ \E f \in Fds, h \in Holders \ {"free", "base"} :
                kern[f] = "free" /\ kern' = [kern EXCEPT ![f] = h]
           \/ OnlineClose /\ online.pc = "close" /\ CloseNumber(online.call.num)
           \/ PushClose /\ ctl.pc = "close" /\ CloseNumber(ctl.call.num)
           \/ \E c \in Conns : CloseNumber(http[c].conn)
           \/ \E c \in Conns : CloseNumber(http[c].file)
<1>1. {"http", "file", "client"} \cup Speakers \subseteq Holders \ {"free", "base"}
  BY TableAssumption
<1>2. CASE BeaconSocket
  <2>1. main.sp \in Speakers
    BY <1>2 DEF BeaconSocket, TypeOK, DetectTypeOK
  <2> QED
    BY <1>1, <1>2, <2>1 DEF BeaconSocket, NewSocket, IsNextFd, FreeFds
<1>3. CASE AcceptCommand
  BY <1>1, <1>3 DEF AcceptCommand, IsNextFd, FreeFds
<1>4. CASE HttpNext
  BY <1>1, <1>4, HttpSteps
<1>5. CASE BeaconStore \/ BeaconShare
  BY <1>5 DEF BeaconStore, BeaconShare
<1>6. CASE OnlineClose \/ PushClose
  BY <1>6 DEF OnlineClose, PushClose
<1> QED
  BY <1>2, <1>3, <1>4, <1>5, <1>6, DescriptorSteps

LEMMA ForeignStays ==
    ASSUME TypeOK, [Next]_vars, NEW f, Foreign(f)
    PROVE  Foreign(f)'
<1>1. kern \in [Fds -> Holders] /\ BaseFds \subseteq Fds
  BY TableAssumption DEF TypeOK, TableTypeOK
<1> QED
  BY <1>1, KernSteps DEF Foreign, CloseNumber

\* The numbers the threads remember.
LEMMA NumbersForeign ==
    ASSUME TypeOK, BaseInv, [Next]_vars
    PROVE  /\ \A s \in Speakers : fd'[s] \notin BaseFds \ {PushFd}
           /\ main'.pc = "store" => Foreign(main.num)'
           /\ online'.pc = "close" => online'.call.num \notin BaseFds \ {PushFd}
           /\ ctl'.pc = "close" => ctl'.call.num \notin BaseFds \ {PushFd}
<1>1. /\ fd \in [Speakers -> {-1} \cup Fds]
      /\ main.pc # "idle" => main.sp \in Speakers
      /\ \A s \in Speakers : fd[s] \notin BaseFds \ {PushFd}
      /\ NoFd \notin BaseFds
      /\ kern \in [Fds -> Holders] /\ BaseFds \subseteq Fds
  BY TableAssumption DEF TypeOK, TableTypeOK, DetectTypeOK, BaseInv
<1>2. \A s \in Speakers : fd'[s] \notin BaseFds \ {PushFd}
  <2>1. CASE UNCHANGED fd
    BY <1>1, <2>1
  <2>2. CASE BeaconStore
    <3>1. main.num \notin BaseFds \ {PushFd}
      BY <2>2 DEF BeaconStore, BaseInv, BaseSocketsOpen, Foreign
    <3> QED
      BY <1>1, <2>2, <3>1 DEF BeaconStore, StoreFd
  <2>3. CASE BeaconShare
    BY <1>1, <2>3 DEF BeaconShare, StoreFd
  <2> QED
    BY <2>1, <2>2, <2>3, DescriptorSteps, HttpSteps
    DEF BeaconSocket, OnlineClose, PushClose, AcceptCommand
<1>3. main'.pc = "store" => Foreign(main.num)'
  <2>1. CASE BeaconSocket
    <3>1. main'.num = NoFd \/ (main'.num \in Fds /\ kern[main'.num] = "free")
      BY <2>1
      DEF BeaconSocket, NewSocket, IsNextFd, FreeFds, TypeOK, DetectTypeOK
    <3>2. Foreign(main'.num)
      BY <1>1, <3>1 DEF Foreign
    <3>3. ASSUME main'.num \in BaseFds PROVE kern'[main'.num] # "base"
      BY <1>1, <2>1, <3>2, <3>3, TableAssumption
      DEF BeaconSocket, NewSocket, Foreign
    <3> QED
      BY <3>3 DEF Foreign
  <2>2. CASE main'.pc # "store"
    BY <2>2
  <2>3. CASE UNCHANGED main
    <3>1. main.pc = "store" => Foreign(main.num)
      BY DEF BaseInv
    <3>2. main.pc = "store"
            => (main.num \in BaseFds => kern'[main.num] # "base")
      BY <3>1, ForeignStays DEF Foreign
    <3> QED
      BY <2>3, <3>2 DEF Foreign
  <2>4. ASSUME BeaconStore \/ BeaconShare \/ BeaconConnect
               \/ BeaconCheckOnline
               \/ \E s \in Speakers, b \in BOOLEAN :
                    BeaconKnown(s, b) \/ BeaconNew(s, b)
        PROVE  main'.pc # "store"
    <3>1. CASE BeaconConnect
      BY <3>1 DEF BeaconConnect, MainIdle, TypeOK, DetectTypeOK
    <3>2. CASE BeaconCheckOnline
      BY <3>2 DEF BeaconCheckOnline, MainIdle, TypeOK, DetectTypeOK
    <3>3. CASE BeaconStore \/ BeaconShare
      BY <3>3 DEF BeaconStore, BeaconShare, MainIdle, TypeOK, DetectTypeOK
    <3>4. CASE \E s \in Speakers, b \in BOOLEAN :
                 BeaconKnown(s, b) \/ BeaconNew(s, b)
      BY <3>4 DEF BeaconKnown, BeaconNew, MainIdle
    <3> QED
      BY <2>4, <3>1, <3>2, <3>3, <3>4
  <2>5. CASE Next
    <3>1. CASE MainStep
      BY <2>1, <2>2, <2>4, <3>1 DEF MainStep
    <3>2. CASE OnlineStep
      BY <2>3, <3>2
      DEF OnlineStep, OnlineWake, OnlineLoad, OnlineStore, OnlineOffline,
          OnlineTest, OnlineReload, OnlineClose, OnlineSleep
    <3> QED
      BY <2>3, <2>5, <3>1, <3>2 DEF Next, DetectNext, detectVars
  <2> QED
    BY <2>3, <2>5 DEF vars, detectVars
<1>4. online'.pc = "close" => online'.call.num \notin BaseFds \ {PushFd}
  <2>1. CASE OnlineReload
    <3>1. online'.call.num = fd[online.sp] /\ online.sp \in Speakers
      BY <2>1 DEF OnlineReload, TypeOK, DetectTypeOK, DisconnectCalls
    <3> QED
      BY <1>1, <3>1
  <2>2. CASE UNCHANGED online
    BY <2>2 DEF BaseInv
  <2>3. CASE online'.pc # "close"
    BY <2>3
  <2>4. ASSUME OnlineStep PROVE OnlineReload \/ online'.pc # "close"
    <3>1. CASE OnlineWake \/ OnlineClose \/ OnlineSleep
      BY <3>1 DEF OnlineWake, OnlineClose, OnlineSleep, Walking, Sleeping
    <3>2. CASE OnlineStore
      BY <3>2 DEF OnlineStore, Walking, TypeOK, DetectTypeOK
    <3>3. CASE OnlineOffline
      BY <3>3 DEF OnlineOffline, TypeOK, DetectTypeOK
    <3>4. CASE \E s \in Speakers : OnlineLoad(s)
      BY <3>4 DEF OnlineLoad, Walking
    <3>5. CASE OnlineTest
      BY <3>5 DEF OnlineTest, Walking, TypeOK, DetectTypeOK
    <3> QED
      BY <2>4, <3>1, <3>2, <3>3, <3>4, <3>5 DEF OnlineStep
  <2>5. CASE Next
    <3>1. CASE MainStep
      BY <2>2, <3>1
      DEF MainStep, BeaconKnown, BeaconNew, BeaconCheckOnline, BeaconConnect,
          BeaconSocket, BeaconStore, BeaconShare
    <3> QED
      BY <2>1, <2>2, <2>3, <2>4, <2>5, <3>1 DEF Next, DetectNext, detectVars
  <2> QED
    BY <2>2, <2>5 DEF vars, detectVars
<1>5. ctl'.pc = "close" => ctl'.call.num \notin BaseFds \ {PushFd}
  <2>1. CASE PushReload
    <3>1. ctl'.call.num = fd[ctl.sp] /\ ctl.sp \in Speakers
      BY <2>1 DEF PushReload, TypeOK, CommandTypeOK, DisconnectCalls
    <3> QED
      BY <1>1, <3>1
  <2>2. CASE UNCHANGED ctl
    BY <2>2 DEF BaseInv
  <2>3. CASE ctl'.pc # "close"
    BY <2>3
  <2>4. ASSUME CommandNext
        PROVE  PushReload \/ ctl'.pc # "close" \/ UNCHANGED ctl
    <3>1. CASE StreamEnd \/ CopyDone \/ PushChunkDone
      BY <3>1
      DEF StreamEnd, CopyDone, PushChunkDone, CtlStreaming, CtlAccepting
    <3>7. CASE AcceptCommand
      BY <3>7 DEF AcceptCommand, CtlStreaming, CtlAccepting
    <3>2. CASE PushChunk \/ PushClose
      BY <3>2 DEF PushChunk, PushClose, Pushing, TypeOK, CommandTypeOK
    <3>3. CASE \E s \in Speakers : CopySpeaker(s)
      BY <3>3 DEF CopySpeaker, CopyStep, TypeOK, CommandTypeOK
    <3>4. CASE \E s \in Speakers : PushSent(s)
      BY <3>4 DEF PushSent, TypeOK, CommandTypeOK
    <3>5. CASE \E s \in Speakers : PushRefused(s)
      BY <3>5 DEF PushRefused, TypeOK, CommandTypeOK
    <3>6. CASE PushTest
      BY <3>6 DEF PushTest, Pushing, TypeOK, CommandTypeOK
    <3> QED
      BY <2>4, <3>1, <3>2, <3>3, <3>4, <3>5, <3>6, <3>7
      DEF CommandNext, CommandStep
  <2> QED
    BY <2>1, <2>2, <2>3, <2>4 DEF Next, vars
<1> QED
  BY <1>2, <1>3, <1>4, <1>5

LEMMA HttpForeign ==
    ASSUME TypeOK, BaseInv, [Next]_vars, NEW d \in Conns
    PROVE  Foreign(http[d].conn)' /\ Foreign(http[d].file)'
<1>1. /\ http \in [Conns -> [pc : {"closed", "request", "stat", "discard",
                                 "send", "close", "aborted"},
                           conn : {NoFile} \cup Fds, file : {NoFile} \cup Fds]]
      /\ kern \in [Fds -> Holders]
      /\ BaseFds \subseteq Fds /\ NoFile \notin BaseFds
      /\ Foreign(http[d].conn) /\ Foreign(http[d].file)
  BY TableAssumption DEF TypeOK, TableTypeOK, HttpTypeOK, BaseInv
<1> DEFINE Gone(f) == f \in BaseFds => kern'[f] # "base"
<1>2. Gone(http[d].conn) /\ Gone(http[d].file) /\ Gone(NoFile)
  BY <1>1, ForeignStays DEF Foreign
<1>3. Gone(http'[d].conn) /\ Gone(http'[d].file)
  <2>1. CASE UNCHANGED http
    BY <1>2, <2>1
  <2>2. CASE HttpNext
    <3> PICK c \in Conns : HttpStep(c)
      BY <2>2 DEF HttpNext
    <3>1. CASE HttpAccept(c)
      <4> PICK f \in Fds : /\ kern' = [kern EXCEPT ![f] = "http"]
                          /\ http' = [http EXCEPT ![c] =
                               [pc |-> "request", conn |-> f, file |-> NoFile]]
        BY <3>1 DEF HttpAccept
      <4>1. Gone(f)
        BY <1>1
      <4> QED
        BY <1>1, <1>2, <4>1
    <3>2. CASE HttpOpen(c)
      <4> PICK f \in Fds : /\ kern' = [kern EXCEPT ![f] = "file"]
                          /\ http' = [http EXCEPT ![c].file = f, ![c].pc = "stat"]
        BY <3>2 DEF HttpOpen
      <4>1. Gone(f)
        BY <1>1
      <4> QED
        BY <1>1, <1>2, <4>1
    <3>3. CASE HttpStat(c)
      <4>1. \E pc : http' = [http EXCEPT ![c].pc = pc]
        BY <3>3 DEF HttpStat
      <4> QED
        BY <1>1, <1>2, <4>1
    <3>4. CASE HttpDiscard(c)
      <4>1. CASE http' = [http EXCEPT ![c].pc = "aborted"]
        BY <1>1, <1>2, <4>1
      <4>2. CASE \E next \in {"request", "close"} :
                   http' = [http EXCEPT ![c].pc = next, ![c].file = NoFile]
        BY <1>1, <1>2, <4>2
      <4> QED
        BY <3>4, <4>1, <4>2 DEF HttpDiscard
    <3>5. CASE HttpSent(c)
      BY <1>1, <1>2, <3>5 DEF HttpSent
    <3>6. CASE HttpClose(c)
      BY <1>1, <1>2, <3>6 DEF HttpClose, HttpClosed
    <3> QED
      BY <3>1, <3>2, <3>3, <3>4, <3>5, <3>6 DEF HttpStep
  <2> QED
    BY <2>1, <2>2 DEF Next, vars
<1> QED
  BY <1>3 DEF Foreign

LEMMA BaseInvCorrect == Spec => []BaseInv
<1>1. Init => BaseInv
  BY TableAssumption
  DEF Init, TableInit, HttpInit, HttpClosed, DetectInit, MainIdle, Sleeping,
      Walking, CommandInit, CtlAccepting, BaseInv, BaseSocketsOpen, Foreign
<1>2. TypeOK /\ CallInv /\ BaseInv /\ [Next]_vars => BaseInv'
  <2> SUFFICES ASSUME TypeOK, CallInv, BaseInv, [Next]_vars PROVE BaseInv'
    OBVIOUS
  <2>1. BaseSocketsOpen'
    <3>1. kern \in [Fds -> Holders] /\ BaseFds \subseteq Fds /\ BaseSocketsOpen
      BY TableAssumption DEF TypeOK, TableTypeOK, BaseInv
    <3>2. CASE \E g : /\ CloseNumber(g)
                      /\ \/ Foreign(g)
                         \/ /\ g \notin BaseFds \ {PushFd}
                            /\ g = PushFd => UnsetFd = 0
      BY <3>1, <3>2 DEF BaseSocketsOpen, CloseNumber, Foreign
    <3>3. CASE UNCHANGED kern \/ \E f \in Fds, h \in Holders \ {"free", "base"} :
                 kern[f] = "free" /\ kern' = [kern EXCEPT ![f] = h]
      BY <3>1, <3>3 DEF BaseSocketsOpen
    <3> QED
      BY <3>2, <3>3, KernSteps DEF BaseInv, CallInv, CallOK
  <2> QED
    BY <2>1, NumbersForeign, HttpForeign DEF BaseInv
<1> QED
  BY <1>1, <1>2, TypeCorrect, CallInvCorrect, PTL DEF Spec

(***************************************************************************)
(* The sockets the server listens and sends on stay open: BaseSocketsOpen, *)
(* about server_sppush_disconnect, which tests speaker->fd, reads it again *)
(* and closes what it read, in two threads at any moment.                  *)
(***************************************************************************)
THEOREM BaseSocketsStayOpen == Spec => []BaseSocketsOpen
<1>1. BaseInv => BaseSocketsOpen
  BY DEF BaseInv
<1> QED
  BY <1>1, BaseInvCorrect, PTL

(***************************************************************************)
(* The pusher's own socket is closed in one way only: SharedSocketSpared,  *)
(* about the test of server_sppush_disconnect made before, and its close   *)
(* made after, the fallback of server_sppush_connect.                      *)
(***************************************************************************)
THEOREM SharedSocketKept == Spec => SharedSocketSpared
<1>1. TypeOK /\ CallInv /\ BaseInv /\ [Next]_vars
        => (kern[PushFd] = "base" /\ kern'[PushFd] # "base"
              => \/ /\ online.pc = "close"
                    /\ online.call = [tested |-> 0, num |-> PushFd]
                 \/ /\ ctl.pc = "close"
                    /\ ctl.call = [tested |-> 0, num |-> PushFd])
  <2> SUFFICES ASSUME TypeOK, CallInv, BaseInv, [Next]_vars,
                      kern[PushFd] = "base", kern'[PushFd] # "base"
               PROVE  \/ /\ online.pc = "close"
                         /\ online.call = [tested |-> 0, num |-> PushFd]
                      \/ /\ ctl.pc = "close"
                         /\ ctl.call = [tested |-> 0, num |-> PushFd]
    OBVIOUS
  <2>1. /\ kern \in [Fds -> Holders] /\ PushFd \in Fds /\ PushFd \in BaseFds
        /\ online.call \in DisconnectCalls /\ ctl.call \in DisconnectCalls
    BY TableAssumption
    DEF TypeOK, TableTypeOK, DetectTypeOK, CommandTypeOK
  <2>2. \A c \in Conns : http[c].conn # PushFd /\ http[c].file # PushFd
    BY <2>1 DEF BaseInv, Foreign
  <2>3. CASE online.pc = "close" /\ CloseNumber(online.call.num)
    <3>1. online.call.num = PushFd
      BY <2>1, <2>3 DEF CloseNumber
    <3>2. online.call.tested = 0
      BY <2>3, <3>1 DEF CallInv, CallOK
    <3> QED
      BY <2>1, <2>3, <3>1, <3>2 DEF DisconnectCalls
  <2>4. CASE ctl.pc = "close" /\ CloseNumber(ctl.call.num)
    <3>1. ctl.call.num = PushFd
      BY <2>1, <2>4 DEF CloseNumber
    <3>2. ctl.call.tested = 0
      BY <2>4, <3>1 DEF CallInv, CallOK
    <3> QED
      BY <2>1, <2>4, <3>1, <3>2 DEF DisconnectCalls
  <2>5. ~(\/ UNCHANGED kern
          \/ \E f \in Fds, h \in Holders \ {"free", "base"} :
               kern[f] = "free" /\ kern' = [kern EXCEPT ![f] = h]
          \/ \E c \in Conns : CloseNumber(http[c].conn)
          \/ \E c \in Conns : CloseNumber(http[c].file))
    BY <2>1, <2>2 DEF CloseNumber
  <2> QED
    BY <2>3, <2>4, <2>5, KernSteps
<1> QED
  BY <1>1, TypeCorrect, CallInvCorrect, BaseInvCorrect, PTL
  DEF Spec, SharedSocketSpared


(***************************************************************************)
(* A socket is opened for a speaker once, after its first beacon: until    *)
(* then none exists for it, and until its number is stored only the event  *)
(* loop knows it, so the store overwrites the number of no open socket.    *)
(***************************************************************************)
Unconnected(s) == \A f \in Fds : kern[f] # s

LeakInv ==
    /\ NoSocketLeak
    /\ \A s \in Speakers \ listed : Unconnected(s)
    /\ main.pc \in {"check", "connect", "socket", "share"} /\ main.new
         => Unconnected(main.sp)
    /\ main.pc = "store" => \A f \in Fds : kern[f] = main.sp => f = main.num

\* Only BeaconSocket makes a descriptor denote a speaker's socket.
LEMMA SpeakersSockets ==
    ASSUME TypeOK, [Next]_vars, ~BeaconSocket, NEW f \in Fds,
           kern'[f] \in Speakers
    PROVE  kern[f] = kern'[f]
<1>1. /\ kern \in [Fds -> Holders]
      /\ Speakers \cap {"free", "base", "client", "http", "file"} = {}
  BY TableAssumption DEF TypeOK, TableTypeOK
<1>2. CASE \E g \in Fds : kern' = [kern EXCEPT ![g] = "client"]
  BY <1>1, <1>2
<1>3. CASE \E g \in Fds, h \in {"http", "file"} : kern' = [kern EXCEPT ![g] = h]
  BY <1>1, <1>3
<1>4. CASE \E g : CloseNumber(g)
  BY <1>1, <1>4 DEF CloseNumber
<1>5. CASE UNCHANGED kern
  BY <1>5
<1> QED
  BY <1>2, <1>3, <1>4, <1>5, DescriptorSteps, HttpSteps
  DEF OnlineClose, PushClose, AcceptCommand, BeaconStore, BeaconShare

LEMMA LeakInvCorrect == Spec => []LeakInv
<1>1. Init => LeakInv
  BY TableAssumption
  DEF Init, TableInit, DetectInit, MainIdle, LeakInv, NoSocketLeak, Unconnected
<1>2. TypeOK /\ ConnectInv /\ LeakInv /\ [Next]_vars => LeakInv'
  <2> SUFFICES ASSUME TypeOK, ConnectInv, LeakInv, [Next]_vars PROVE LeakInv'
    OBVIOUS
  <2>1. /\ fd \in [Speakers -> {-1} \cup Fds]
        /\ kern \in [Fds -> Holders]
        /\ main \in [pc : {"idle", "check", "connect", "socket", "store",
                           "share"},
                     sp : Speakers \cup {Nobody}, new : BOOLEAN,
                     num : {NoFd} \cup Fds]
        /\ main.pc # "idle" => main.sp \in Speakers /\ main.sp \in listed
        /\ "free" \notin Speakers
    BY TableAssumption DEF TypeOK, TableTypeOK, DetectTypeOK, InHandListed
  <2>2. CASE BeaconSocket
    <3>1. /\ main.pc = "socket" /\ main.new /\ Unconnected(main.sp)
          /\ main'.pc = "store" /\ main'.sp = main.sp /\ main'.num \in {NoFd} \cup Fds
          /\ NewSocket(main.sp, main'.num)
          /\ UNCHANGED <<fd, listed>>
      BY <2>1, <2>2 DEF BeaconSocket, ConnectInv, LeakInv
    <3>2. \A f \in Fds : kern'[f] = kern[f] \/ (kern'[f] = main.sp /\ f = main'.num)
      BY <2>1, <3>1 DEF NewSocket
    <3>3. \A f \in Fds : kern[f] \in Speakers => fd[kern[f]] = f
      BY <2>1, <3>1 DEF LeakInv, NoSocketLeak
    <3>4. NoSocketLeak'
      BY <3>1, <3>2, <3>3 DEF NoSocketLeak
    <3>5. \A s \in Speakers \ listed : Unconnected(s)'
      BY <2>1, <3>1, <3>2 DEF LeakInv, Unconnected
    <3>6. \A f \in Fds : kern'[f] = main.sp => f = main'.num
      BY <3>1, <3>2 DEF Unconnected
    <3> QED
      BY <3>1, <3>4, <3>5, <3>6 DEF LeakInv
  <2>3. CASE ~BeaconSocket
    <3>1. \A f \in Fds : kern'[f] \in Speakers => kern[f] = kern'[f]
      BY <2>3, SpeakersSockets
    <3>2. \A s \in Speakers : Unconnected(s) => Unconnected(s)'
      BY <3>1 DEF Unconnected
    <3>3. CASE UNCHANGED <<fd, main, listed>>
      <4>1. NoSocketLeak'
        BY <3>1, <3>3 DEF LeakInv, NoSocketLeak
      <4>2. main.pc = "store" => \A f \in Fds : kern'[f] = main.sp => f = main.num
        BY <2>1, <3>1 DEF LeakInv
      <4> QED
        BY <2>1, <3>2, <3>3, <4>1, <4>2 DEF LeakInv
    <3>4. CASE BeaconStore
      <4>1. /\ main.pc = "store" /\ main.sp \in Speakers /\ main.sp \in listed
            /\ fd' = [fd EXCEPT ![main.sp] = main.num]
            /\ main'.pc = "idle" \/ (main'.pc = "share" /\ main'.sp = main.sp
                                     /\ main.num = -1)
            /\ UNCHANGED <<kern, listed>>
        BY <2>1, <3>4 DEF BeaconStore, StoreFd, MainIdle
      <4>2. NoSocketLeak'
        BY <2>1, <4>1 DEF LeakInv, NoSocketLeak
      <4>3. main.num = -1 => Unconnected(main.sp)
        BY <4>1 DEF LeakInv, Unconnected
      <4>4. main'.pc = "share" => Unconnected(main.sp)'
        BY <3>2, <4>1, <4>3
      <4> QED
        BY <3>2, <4>1, <4>2, <4>4 DEF LeakInv, Unconnected
    <3>5. CASE BeaconShare
      <4>1. /\ main.pc = "share" /\ main.new /\ main.sp \in Speakers
            /\ fd' = [fd EXCEPT ![main.sp] = PushFd]
            /\ main'.pc = "idle"
            /\ UNCHANGED <<kern, listed>>
        BY <2>1, <3>5 DEF BeaconShare, StoreFd, MainIdle, ConnectInv
      <4>2. Unconnected(main.sp)
        BY <4>1 DEF LeakInv
      <4>3. NoSocketLeak'
        BY <2>1, <4>1, <4>2 DEF LeakInv, NoSocketLeak, Unconnected
      <4> QED
        BY <3>2, <4>1, <4>3 DEF LeakInv
    <3>6. CASE BeaconCheckOnline \/ BeaconConnect
      <4>1. /\ main.pc \in {"check", "connect"}
            /\ UNCHANGED <<fd, kern, listed>>
            /\ \/ main'.pc = "idle"
               \/ /\ main'.pc \in {"connect", "socket"} /\ main.new
                  /\ main'.sp = main.sp
        BY <2>1, <3>6
        DEF BeaconCheckOnline, BeaconConnect, MainIdle, ConnectInv, tableVars
      <4> QED
        BY <3>2, <4>1 DEF LeakInv, NoSocketLeak, Unconnected
    <3>7. CASE \E s \in Speakers, b \in BOOLEAN : BeaconKnown(s, b)
      BY <3>7 DEF BeaconKnown, MainIdle, LeakInv, NoSocketLeak, Unconnected
    <3>8. CASE \E s \in Speakers, b \in BOOLEAN : BeaconNew(s, b)
      BY <3>8 DEF BeaconNew, MainIdle, LeakInv, NoSocketLeak, Unconnected
    <3>9. \/ UNCHANGED <<fd, main, listed>>
          \/ MainStep
      <4>1. CASE Next
        BY <4>1, NextCases, HttpSteps
        DEF OnlineWake, OnlineLoad, OnlineStore, OnlineOffline, OnlineTest,
            OnlineReload, OnlineClose, OnlineSleep, AcceptCommand, PushChunk,
            StreamEnd, CopySpeaker, CopyStep, PushSent, PushRefused, CopyDone,
            PushTest, PushReload, PushClose, PushChunkDone, tableVars,
            detectVars, MainStep
      <4> QED
        BY <4>1 DEF vars, tableVars, detectVars
    <3> QED
      BY <2>3, <3>3, <3>4, <3>5, <3>6, <3>7, <3>8, <3>9 DEF MainStep
  <2> QED
    BY <2>2, <2>3
<1> QED
  BY <1>1, <1>2, TypeCorrect, ConnectInvCorrect, PTL DEF Spec

(***************************************************************************)
(* No socket opened for a speaker is ever lost: NoSocketLeak, about        *)
(* server_sppush_connect and server_sppush_disconnect under every          *)
(* interleaving of the three threads that run them.                        *)
(***************************************************************************)
THEOREM SocketsNeverLeak == Spec => []NoSocketLeak
<1>1. LeakInv => NoSocketLeak
  BY DEF LeakInv
<1> QED
  BY <1>1, LeakInvCorrect, PTL


(***************************************************************************)
(* The countdown against the beacons: OnlineHasTimeLeft, about the two     *)
(* halves of  timeout--  in thread_online_detect and the unlocked          *)
(* speaker_check_online of the event loop and of the pusher.  It is        *)
(* inductive given TypeOK.                                                 *)
(***************************************************************************)
THEOREM OnlineKeepsTimeLeft == Spec => []OnlineHasTimeLeft
<1>1. Init => OnlineHasTimeLeft
  BY DEF Init, TableInit, OnlineHasTimeLeft
<1>2. TypeOK /\ OnlineHasTimeLeft /\ [Next]_vars => OnlineHasTimeLeft'
  <2> SUFFICES ASSUME TypeOK, OnlineHasTimeLeft, [Next]_vars
               PROVE  OnlineHasTimeLeft'
    OBVIOUS
  <2>1. CASE BeaconCheckOnline
    BY <2>1, TableAssumption
    DEF BeaconCheckOnline, speaker_check_online, OnlineHasTimeLeft, TypeOK,
        TableTypeOK, DetectTypeOK
  <2>2. CASE OnlineStore
    BY <2>2, TableAssumption
    DEF OnlineStore, Walking, OnlineHasTimeLeft, TypeOK, TableTypeOK,
        DetectTypeOK
  <2>3. CASE OnlineOffline
    BY <2>3
    DEF OnlineOffline, OnlineHasTimeLeft, TypeOK, TableTypeOK, DetectTypeOK
  <2>4. CASE \E s \in Speakers : PushRefused(s) /\ UNCHANGED <<detectVars, http>>
    BY <2>4, TableAssumption
    DEF PushRefused, speaker_recheck_online, speaker_check_online, detectVars,
        OnlineHasTimeLeft, TypeOK, TableTypeOK
  <2>5. CASE UNCHANGED <<state, timeout>> /\ (online.pc = "offline" => UNCHANGED online)
    BY <2>5 DEF OnlineHasTimeLeft
  <2>6. \/ BeaconCheckOnline
        \/ OnlineStore
        \/ OnlineOffline
        \/ \E s \in Speakers : PushRefused(s) /\ UNCHANGED <<detectVars, http>>
        \/ UNCHANGED <<state, timeout>> /\ (online.pc = "offline" => UNCHANGED online)
    <3>1. CASE Next
      BY <3>1, NextCases, HttpSteps
      DEF BeaconKnown, BeaconNew, BeaconConnect, BeaconSocket, BeaconStore,
          BeaconShare, OnlineWake, OnlineLoad, OnlineTest, OnlineReload,
          OnlineClose, OnlineSleep, AcceptCommand, PushChunk, StreamEnd,
          CopySpeaker, CopyStep, PushSent, CopyDone, PushTest, PushReload,
          PushClose, PushChunkDone, tableVars, detectVars
    <3>2. CASE UNCHANGED vars
      BY <3>2 DEF vars, tableVars, detectVars
    <3> QED
      BY <3>1, <3>2
  <2> QED
    BY <2>1, <2>2, <2>3, <2>4, <2>5, <2>6
<1> QED
  BY <1>1, <1>2, TypeCorrect, PTL DEF Spec

(***************************************************************************)
(* QuietCountsDown, about the value thread_online_detect holds between the *)
(* read and the write of  timeout--.  Whatever was written meanwhile, what *)
(* it holds is not more than what it overwrites, so the write never        *)
(* lengthens a countdown.                                                  *)
(***************************************************************************)
HeldInv == online.pc = "store" => online.loaded <= timeout[online.sp]

\* The steps that write a state or a countdown, or move the online thread to
\* or from the places HeldInv and PassesLeft look at.
LEMMA CountdownSteps ==
    ASSUME [Next]_vars
    PROVE  \/ BeaconCheckOnline
           \/ \E s \in Speakers : OnlineLoad(s)
           \/ OnlineStore
           \/ OnlineOffline
           \/ \E s \in Speakers : PushRefused(s) /\ UNCHANGED <<detectVars, http>>
           \/ /\ UNCHANGED <<state, timeout>>
              /\ \/ UNCHANGED online
                 \/ online.pc \in {"sleep", "walk"}
                    /\ online'.pc \in {"sleep", "walk"}
                 \/ OnlineTest \/ OnlineReload \/ OnlineClose
<1>1. CASE Next
  <2>1. CASE (OnlineWake \/ OnlineSleep) /\ UNCHANGED <<ctl, http>>
    BY <2>1 DEF OnlineWake, OnlineSleep, Walking, Sleeping, tableVars
  <2>3. CASE (OnlineTest \/ OnlineReload \/ OnlineClose) /\ UNCHANGED <<ctl, http>>
    BY <2>3 DEF OnlineTest, OnlineReload, OnlineClose, tableVars
  <2>2. CASE HttpNext /\ UNCHANGED <<detectVars, ctl>>
    BY <2>2, HttpSteps DEF detectVars
  <2> QED
    BY <1>1, <2>1, <2>2, <2>3, NextCases
    DEF BeaconKnown, BeaconNew, BeaconConnect, BeaconSocket, BeaconStore,
        BeaconShare, AcceptCommand, PushChunk, StreamEnd, CopySpeaker,
        CopyStep, PushSent, CopyDone, PushTest, PushReload, PushClose,
        PushChunkDone, tableVars, detectVars
<1>2. CASE UNCHANGED vars
  BY <1>2 DEF vars, tableVars, detectVars
<1> QED
  BY <1>1, <1>2

\* Where the online thread is in a call of server_sppush_disconnect.
LEMMA OnlineCallSteps ==
    ASSUME TypeOK, OnlineTest \/ OnlineReload \/ OnlineClose
    PROVE  /\ online.pc \in {"test", "reload", "close"}
           /\ \/ online'.pc = "walk"
              \/ online'.pc \in {"reload", "close"} /\ online'.sp = online.sp
<1>1. CASE OnlineTest
  BY <1>1 DEF OnlineTest, Walking, TypeOK, DetectTypeOK
<1>2. CASE OnlineReload
  BY <1>2 DEF OnlineReload, TypeOK, DetectTypeOK
<1>3. CASE OnlineClose
  BY <1>3 DEF OnlineClose, Walking
<1> QED
  BY <1>1, <1>2, <1>3

LEMMA HeldInvCorrect == Spec => []HeldInv
<1>1. Init => HeldInv
  BY DEF Init, DetectInit, Sleeping, HeldInv
<1>2. TypeOK /\ HeldInv /\ [Next]_vars => HeldInv'
  <2> SUFFICES ASSUME TypeOK, HeldInv, [Next]_vars PROVE HeldInv'
    OBVIOUS
  <2>1. /\ timeout \in [Speakers -> TimeoutFloor..SpeakerTimeout]
        /\ state \in [Speakers -> {"none", "online", "offline"}]
        /\ online.loaded \in TimeoutFloor..SpeakerTimeout
        /\ online.pc = "store" => online.sp \in Speakers
    BY DEF TypeOK, TableTypeOK, DetectTypeOK
  <2>2. CASE BeaconCheckOnline
    BY <2>1, <2>2, TableAssumption
    DEF BeaconCheckOnline, speaker_check_online, HeldInv, TypeOK, DetectTypeOK
  <2>3. CASE \E s \in Speakers : OnlineLoad(s)
    BY <2>1, <2>3, TableAssumption DEF OnlineLoad, HeldInv, tableVars
  <2>4. CASE OnlineStore
    <3>1. online'.pc # "store"
      BY <2>4 DEF OnlineStore, Walking, TypeOK, DetectTypeOK
    <3> QED
      BY <3>1 DEF HeldInv
  <2>5. CASE OnlineOffline
    <3>1. online'.pc # "store"
      BY <2>5 DEF OnlineOffline, TypeOK, DetectTypeOK
    <3> QED
      BY <3>1 DEF HeldInv
  <2>6. CASE \E s \in Speakers : PushRefused(s) /\ UNCHANGED <<detectVars, http>>
    BY <2>1, <2>6, TableAssumption
    DEF PushRefused, speaker_recheck_online, speaker_check_online, detectVars,
        HeldInv
  <2>7. CASE /\ UNCHANGED <<state, timeout>>
             /\ \/ UNCHANGED online
                \/ online.pc \in {"sleep", "walk"}
                   /\ online'.pc \in {"sleep", "walk"}
                \/ OnlineTest \/ OnlineReload \/ OnlineClose
    BY <2>7, OnlineCallSteps DEF HeldInv
  <2> QED
    BY <2>2, <2>3, <2>4, <2>5, <2>6, <2>7, CountdownSteps
<1> QED
  BY <1>1, <1>2, TypeCorrect, PTL DEF Spec

\* A speaker that sends nothing is taken offline after SpeakerTimeout + 1
\* visits of thread_online_detect at most, however its last beacon, or the
\* pusher, raced with the countdown: what SilentGoesOffline needs besides the
\* thread being scheduled.
THEOREM SilentCountDown == Spec => QuietCountsDown
<1>1. TypeOK /\ OnlineHasTimeLeft /\ HeldInv /\ [Next]_vars
        => \A s \in Speakers :
             /\ ~News(s) => PassesLeft(s)' <= PassesLeft(s)
             /\ Visited(s) /\ PassesLeft(s) > 0
                  => PassesLeft(s)' < PassesLeft(s)
  <2> SUFFICES ASSUME TypeOK, OnlineHasTimeLeft, HeldInv, [Next]_vars,
                      NEW s \in Speakers
               PROVE  /\ ~News(s) => PassesLeft(s)' <= PassesLeft(s)
                      /\ Visited(s) /\ PassesLeft(s) > 0
                           => PassesLeft(s)' < PassesLeft(s)
    OBVIOUS
  <2>1. /\ timeout \in [Speakers -> TimeoutFloor..SpeakerTimeout]
        /\ state \in [Speakers -> {"none", "online", "offline"}]
        /\ online \in [pc : {"sleep", "walk", "store", "offline", "test",
                             "reload", "close"},
                       sp : Speakers \cup {Nobody},
                       loaded : TimeoutFloor..SpeakerTimeout,
                       seen : SUBSET Speakers, call : DisconnectCalls]
        /\ online.pc \in {"store", "offline"} => online.sp \in Speakers
        /\ timeout[s] \in Int /\ timeout[s] >= -1
    BY DEF TypeOK, TableTypeOK, DetectTypeOK
  <2>2. PassesLeft(s) \in Nat
    BY <2>1 DEF PassesLeft, OnlineHasTimeLeft
  <2>3. CASE BeaconCheckOnline
    <3>1. ~Visited(s)
      BY <2>3 DEF BeaconCheckOnline, Visited
    <3>2. CASE main.sp = s
      BY <2>3, <3>1, <3>2 DEF News
    <3>3. CASE main.sp # s
      <4>1. PassesLeft(s)' = PassesLeft(s)
        BY <2>1, <2>3, <3>3
        DEF BeaconCheckOnline, speaker_check_online, PassesLeft
      <4> QED
        BY <2>2, <3>1, <4>1
    <3> QED
      BY <3>2, <3>3
  <2>4. CASE \E t \in Speakers : OnlineLoad(t)
    <3>1. PassesLeft(s)' = PassesLeft(s) /\ ~Visited(s)
      BY <2>1, <2>4 DEF OnlineLoad, Walking, PassesLeft, Visited, tableVars
    <3> QED
      BY <2>2, <3>1
  <2>5. CASE OnlineStore
    <3>1. /\ online.sp \in Speakers /\ online.loaded \in Int
          /\ online.loaded <= timeout[online.sp] /\ online.loaded >= -1
          /\ online.pc = "store" /\ UNCHANGED state
          /\ timeout' = [timeout EXCEPT ![online.sp] =
                           IF online.loaded > -1 THEN online.loaded - 1 ELSE -1]
      BY <2>1, <2>5 DEF OnlineStore, HeldInv
    <3>2. /\ online.loaded <= 0
               => online'.pc = "offline" /\ online'.sp = online.sp
          /\ online.loaded > 0 => online'.pc = "walk"
      BY <2>1, <2>5, <3>1 DEF OnlineStore, Walking
    <3>3. CASE online.sp # s
      <4>1. PassesLeft(s)' = PassesLeft(s) /\ ~Visited(s)
        BY <2>1, <3>1, <3>2, <3>3 DEF PassesLeft, Visited
      <4> QED
        BY <2>2, <4>1
    <3>4. CASE online.sp = s /\ state[s] # "online"
      <4>1. PassesLeft(s) = 0 /\ PassesLeft(s)' = 0
        BY <3>1, <3>4 DEF PassesLeft
      <4> QED
        BY <4>1
    <3>5. CASE online.sp = s /\ state[s] = "online" /\ online.loaded <= 0
      <4>1. PassesLeft(s)' = 0
        BY <3>1, <3>2, <3>5 DEF PassesLeft
      <4> QED
        BY <2>2, <4>1
    <3>6. CASE online.sp = s /\ state[s] = "online" /\ online.loaded > 0
      <4>1. PassesLeft(s) = timeout[s] + 1
        BY <3>1, <3>6 DEF PassesLeft
      <4>2. timeout'[s] = online.loaded - 1
        BY <2>1, <3>1, <3>6
      <4>3. PassesLeft(s)' = online.loaded - 1 + 1
        BY <3>1, <3>2, <3>6, <4>2 DEF PassesLeft
      <4> QED
        BY <2>1, <3>1, <3>6, <4>1, <4>3
    <3> QED
      BY <3>1, <3>3, <3>4, <3>5, <3>6
  <2>6. CASE OnlineOffline
    <3>1. /\ online.pc = "offline" /\ online'.pc = "test"
          /\ online.sp \in Speakers /\ UNCHANGED timeout
          /\ state' = [state EXCEPT ![online.sp] = "offline"]
      BY <2>1, <2>6 DEF OnlineOffline
    <3>2. ~Visited(s)
      BY <3>1 DEF Visited
    <3>3. CASE online.sp = s
      <4>1. PassesLeft(s)' = 0
        BY <2>1, <3>1, <3>3 DEF PassesLeft
      <4> QED
        BY <2>2, <3>2, <4>1
    <3>4. CASE online.sp # s
      <4>1. PassesLeft(s)' = PassesLeft(s)
        BY <2>1, <3>1, <3>4 DEF PassesLeft
      <4> QED
        BY <2>2, <3>2, <4>1
    <3> QED
      BY <3>3, <3>4
  <2>7. CASE \E t \in Speakers : PushRefused(t) /\ UNCHANGED <<detectVars, http>>
    <3> PICK t \in Speakers : PushRefused(t) /\ UNCHANGED <<detectVars, http>>
      BY <2>7
    <3>1. ~Visited(s)
      BY DEF detectVars, Visited
    <3>2. CASE t = s
      BY <3>1, <3>2 DEF News
    <3>3. CASE t # s
      <4>1. state'[s] = state[s] /\ timeout'[s] = timeout[s]
        BY <2>1, <3>3
        DEF PushRefused, speaker_recheck_online, speaker_check_online
      <4>2. PassesLeft(s)' = PassesLeft(s)
        BY <4>1 DEF PassesLeft, detectVars
      <4> QED
        BY <2>2, <3>1, <4>2
    <3> QED
      BY <3>2, <3>3
  <2>8. CASE /\ UNCHANGED <<state, timeout>>
             /\ \/ UNCHANGED online
                \/ online.pc \in {"sleep", "walk"}
                   /\ online'.pc \in {"sleep", "walk"}
                \/ OnlineTest \/ OnlineReload \/ OnlineClose
    <3>1. PassesLeft(s)' = PassesLeft(s) /\ ~Visited(s)
      BY <2>8, OnlineCallSteps DEF PassesLeft, Visited
    <3> QED
      BY <2>2, <3>1
  <2> QED
    BY <2>3, <2>4, <2>5, <2>6, <2>7, <2>8, CountdownSteps
<1> QED
  BY <1>1, TypeCorrect, OnlineKeepsTimeLeft, HeldInvCorrect, PTL
  DEF Spec, QuietCountsDown


\* A speaker's number changes, and it gets a socket of its own to close, by
\* its connect only.
LEMMA SameNumber ==
    ASSUME TypeOK, [Next]_vars, NEW s \in Speakers, ~Connects(s),
           HasCloseable(s)'
    PROVE  fd'[s] = fd[s] /\ HasCloseable(s)
<1>1. /\ kern \in [Fds -> Holders] /\ fd \in [Speakers -> {-1} \cup Fds]
      /\ main.pc # "idle" => main.sp \in Speakers
  BY DEF TypeOK, TableTypeOK, DetectTypeOK
<1>2. fd'[s] \in Fds /\ kern'[fd'[s]] = s /\ fd'[s] # PushFd
  BY DEF HasCloseable, HasOwnSocket
<1>3. fd'[s] = fd[s]
  <2>1. CASE BeaconStore
    BY <1>1, <2>1 DEF BeaconStore, StoreFd, Connects
  <2>2. CASE BeaconShare
    BY <1>1, <1>2, <2>2 DEF BeaconShare, StoreFd
  <2> QED
    BY <2>1, <2>2, DescriptorSteps, HttpSteps
    DEF BeaconSocket, OnlineClose, PushClose, AcceptCommand
<1>4. kern[fd[s]] = s
  <2>1. CASE BeaconSocket
    BY <1>1, <1>2, <1>3, <2>1 DEF BeaconSocket, NewSocket, Connects
  <2>2. CASE ~BeaconSocket
    BY <1>2, <1>3, <2>2, SpeakersSockets
  <2> QED
    BY <2>1, <2>2
<1> QED
  BY <1>2, <1>3, <1>4 DEF HasCloseable, HasOwnSocket

\* What server_sppush_disconnect closes stays closed.
LEMMA ClosedForGood ==
    ASSUME TypeOK, OnlineClose,
           NEW s \in Speakers, ClosingNow(s), HasCloseable(s)
    PROVE  ~HasCloseable(s)'
<1>1. /\ kern \in [Fds -> Holders] /\ fd[s] \in Fds /\ s # "free"
      /\ UNCHANGED fd
      /\ CloseNumber(fd[s])
  BY TableAssumption
  DEF TypeOK, TableTypeOK, HasCloseable, HasOwnSocket, ClosingNow, OnlineClose
<1>2. kern'[fd[s]] = "free"
  BY <1>1 DEF CloseNumber
<1> QED
  BY <1>1, <1>2 DEF HasCloseable, HasOwnSocket

\* A call of server_sppush_disconnect that finds a socket to close goes on to
\* close it, and one that does not close it leaves the measure alone.
LEMMA ClosingGoesOn ==
    ASSUME TypeOK, OnlineTest \/ OnlineReload \/ OnlineClose,
           NEW s \in Speakers, HasCloseable(s), HasCloseable(s)',
           fd'[s] = fd[s]
    PROVE  ClosingNow(s)' <=> ClosingNow(s)
<1>1. fd[s] \in Fds /\ fd[s] # PushFd /\ fd[s] >= 0
  BY DEF HasCloseable, HasOwnSocket
<1>2. CASE OnlineTest
  <2>1. CASE Spared(online.sp)
    <3>1. online.sp # s /\ online'.sp # s
      BY <1>1, <1>2, <2>1, TableAssumption DEF OnlineTest, Spared, Walking
    <3> QED
      BY <3>1 DEF ClosingNow
  <2>2. CASE ~Spared(online.sp)
    <3>1. online.pc = "test" /\ online'.pc = "reload" /\ online'.sp = online.sp
      BY <1>2, <2>2 DEF OnlineTest, TypeOK, DetectTypeOK
    <3> QED
      BY <3>1 DEF ClosingNow
  <2> QED
    BY <2>1, <2>2
<1>3. CASE OnlineReload
  <2>1. /\ online.pc = "reload" /\ online'.pc = "close"
        /\ online'.sp = online.sp /\ online'.call.num = fd[online.sp]
    BY <1>3 DEF OnlineReload, TypeOK, DetectTypeOK, DisconnectCalls
  <2> QED
    BY <2>1 DEF ClosingNow
<1>4. CASE OnlineClose
  <2>1. ~ClosingNow(s)
    BY <1>4, ClosedForGood
  <2>2. ~ClosingNow(s)'
    BY <1>4, TableAssumption DEF OnlineClose, Walking, ClosingNow
  <2> QED
    BY <2>1, <2>2
<1> QED
  BY <1>2, <1>3, <1>4

\* The visits left depend on a speaker's countdown and on the online thread
\* only, while there is a socket to close.
LEMMA SameVisits ==
    ASSUME NEW s \in Speakers,
           HasCloseable(s), timeout'[s] = timeout[s],
           ClosingNow(s)' <=> ClosingNow(s)
    PROVE  HasCloseable(s)' => VisitsToClose(s)' = VisitsToClose(s)
BY DEF VisitsToClose

\* The socket of a speaker that sends nothing is closed, for good, after as
\* many visits of thread_online_detect as the countdown needs and two more at
\* most: what OfflineReleasesSocket needs besides the thread being scheduled.
THEOREM SilentSocketsClose == Spec => SilentSocketCloses
<1>1. TypeOK /\ HeldInv /\ [Next]_vars
        => \A s \in Speakers :
             /\ ~News(s) /\ ~Connects(s)
                  => VisitsToClose(s)' <= VisitsToClose(s)
             /\ Visited(s) /\ VisitsToClose(s) > 0
                  => VisitsToClose(s)' < VisitsToClose(s)
  <2> SUFFICES ASSUME TypeOK, HeldInv, [Next]_vars, NEW s \in Speakers
               PROVE  /\ ~News(s) /\ ~Connects(s)
                           => VisitsToClose(s)' <= VisitsToClose(s)
                      /\ Visited(s) /\ VisitsToClose(s) > 0
                           => VisitsToClose(s)' < VisitsToClose(s)
    OBVIOUS
  <2>1. /\ timeout \in [Speakers -> TimeoutFloor..SpeakerTimeout]
        /\ online \in [pc : {"sleep", "walk", "store", "offline", "test",
                             "reload", "close"},
                       sp : Speakers \cup {Nobody},
                       loaded : TimeoutFloor..SpeakerTimeout,
                       seen : SUBSET Speakers, call : DisconnectCalls]
        /\ online.pc \in {"store", "offline"} => online.sp \in Speakers
        /\ timeout[s] \in Int
    BY DEF TypeOK, TableTypeOK, DetectTypeOK
  <2>2. VisitsToClose(s) \in Nat
    BY <2>1 DEF VisitsToClose
  <2>3. CASE ~HasCloseable(s)'
    <3>1. VisitsToClose(s)' = 0
      BY <2>3 DEF VisitsToClose
    <3> QED
      BY <2>2, <3>1
  <2>4. CASE Connects(s)
    <3>1. ~Visited(s)
      BY <2>4 DEF Connects, BeaconSocket, BeaconStore, Visited
    <3> QED
      BY <2>4, <3>1
  <2>5. CASE HasCloseable(s)' /\ ~Connects(s)
    <3>1. HasCloseable(s) /\ fd'[s] = fd[s]
      BY <2>5, SameNumber
    <3>2. ASSUME timeout'[s] = timeout[s], ~Visited(s),
                 ClosingNow(s)' <=> ClosingNow(s)
          PROVE  VisitsToClose(s)' <= VisitsToClose(s) /\ ~Visited(s)
      BY <2>2, <2>5, <3>1, <3>2, SameVisits
    <3>9. ASSUME online'.pc = online.pc, online'.sp = online.sp,
                 online'.call = online.call
          PROVE  ClosingNow(s)' <=> ClosingNow(s)
      BY <3>1, <3>9 DEF ClosingNow
    <3>3. CASE BeaconCheckOnline
      <4>1. ~Visited(s) /\ UNCHANGED online
        BY <3>3 DEF BeaconCheckOnline, Visited
      <4>2. CASE main.sp = s
        BY <3>3, <4>1, <4>2 DEF News
      <4>3. CASE main.sp # s
        BY <2>1, <3>2, <3>3, <3>9, <4>1, <4>3
        DEF BeaconCheckOnline, speaker_check_online
      <4> QED
        BY <4>2, <4>3
    <3>4. CASE \E t \in Speakers : OnlineLoad(t)
      <4>1. /\ timeout'[s] = timeout[s] /\ ~Visited(s)
            /\ online.pc = "walk" /\ online'.pc = "store"
        BY <2>1, <3>4 DEF OnlineLoad, Walking, Visited, tableVars
      <4>2. ~ClosingNow(s) /\ ~ClosingNow(s)'
        BY <4>1 DEF ClosingNow
      <4> QED
        BY <3>2, <4>1, <4>2
    <3>5. CASE OnlineStore
      <4>1. /\ online.sp \in Speakers /\ online.loaded \in Int
            /\ online.loaded <= timeout[online.sp]
            /\ online.pc = "store" /\ ~ClosingNow(s)
            /\ timeout' = [timeout EXCEPT ![online.sp] =
                         IF online.loaded > -1 THEN online.loaded - 1 ELSE -1]
        BY <2>1, <3>5 DEF OnlineStore, HeldInv, ClosingNow
      <4>2. /\ online.loaded <= 0
                 => online'.pc = "offline" /\ online'.sp = online.sp
            /\ online.loaded > 0 => online'.pc = "walk"
        BY <2>1, <3>5, <4>1 DEF OnlineStore, Walking
      <4>3. CASE online.sp # s
        <5>1. timeout'[s] = timeout[s] /\ ~Visited(s)
          BY <2>1, <4>1, <4>3 DEF Visited
        <5>2. ~ClosingNow(s)'
          BY <2>1, <4>1, <4>2, <4>3 DEF ClosingNow
        <5> QED
          BY <3>2, <4>1, <5>1, <5>2
      <4>4. CASE online.sp = s /\ online.loaded <= 0
        <5>1. VisitsToClose(s)' = 1
          BY <2>5, <4>2, <4>4 DEF VisitsToClose, ClosingNow
        <5>2. VisitsToClose(s) >= 2
          BY <2>1, <3>1, <4>1 DEF VisitsToClose
        <5> QED
          BY <5>1, <5>2, <2>2
      <4>5. CASE online.sp = s /\ online.loaded > 0
        <5>1. VisitsToClose(s) = timeout[s] + 2
          BY <2>1, <3>1, <4>1, <4>5 DEF VisitsToClose
        <5>2. timeout'[s] = online.loaded - 1 /\ ~ClosingNow(s)'
          BY <2>1, <4>1, <4>2, <4>5 DEF ClosingNow
        <5>3. VisitsToClose(s)' = IF online.loaded - 1 > 0
                                  THEN online.loaded - 1 + 2 ELSE 2
          BY <2>5, <5>2 DEF VisitsToClose
        <5> QED
          BY <2>1, <4>1, <4>5, <5>1, <5>3
      <4> QED
        BY <4>1, <4>3, <4>4, <4>5
    <3>6. CASE OnlineOffline
      <4>1. /\ timeout'[s] = timeout[s] /\ ~Visited(s)
            /\ online.pc = "offline" /\ online'.pc = "test"
            /\ online'.sp = online.sp
        BY <2>1, <3>6 DEF OnlineOffline, Visited
      <4>2. ClosingNow(s)' <=> ClosingNow(s)
        BY <4>1 DEF ClosingNow
      <4> QED
        BY <3>2, <4>1, <4>2
    <3>7. CASE \E t \in Speakers :
                 PushRefused(t) /\ UNCHANGED <<detectVars, http>>
      <4> PICK t \in Speakers :
                 PushRefused(t) /\ UNCHANGED <<detectVars, http>>
        BY <3>7
      <4>1. ~Visited(s) /\ UNCHANGED online
        BY DEF detectVars, Visited
      <4>2. CASE t = s
        BY <4>1, <4>2 DEF News
      <4>3. CASE t # s
        <5>1. timeout'[s] = timeout[s]
          BY <2>1, <4>3
          DEF PushRefused, speaker_recheck_online, speaker_check_online
        <5> QED
          BY <3>2, <3>9, <4>1, <5>1
      <4> QED
        BY <4>2, <4>3
    <3>8. CASE UNCHANGED <<state, timeout>>
      <4>1. timeout'[s] = timeout[s]
        BY <3>8
      <4>2. CASE UNCHANGED online
        BY <3>2, <3>9, <4>1, <4>2 DEF Visited
      <4>3. CASE online.pc \in {"sleep", "walk"} /\ online'.pc \in {"sleep", "walk"}
        <5>1. ~Visited(s) /\ ~ClosingNow(s) /\ ~ClosingNow(s)'
          BY <4>3 DEF Visited, ClosingNow
        <5> QED
          BY <3>2, <4>1, <5>1
      <4>4. CASE OnlineTest \/ OnlineReload \/ OnlineClose
        <5>1. ~Visited(s)
          BY <4>4, OnlineCallSteps DEF Visited
        <5>2. ClosingNow(s)' <=> ClosingNow(s)
          BY <2>5, <3>1, <4>4, ClosingGoesOn
        <5> QED
          BY <3>2, <4>1, <5>1, <5>2
      <4>5. \/ UNCHANGED online
            \/ online.pc \in {"sleep", "walk"} /\ online'.pc \in {"sleep", "walk"}
            \/ OnlineTest \/ OnlineReload \/ OnlineClose
            \/ BeaconCheckOnline \/ OnlineStore \/ OnlineOffline
            \/ \E t \in Speakers : OnlineLoad(t)
            \/ \E t \in Speakers : PushRefused(t) /\ UNCHANGED <<detectVars, http>>
        BY CountdownSteps
      <4> QED
        BY <3>3, <3>4, <3>5, <3>6, <3>7, <4>2, <4>3, <4>4, <4>5
    <3> QED
      BY <3>3, <3>4, <3>5, <3>6, <3>7, <3>8, CountdownSteps
  <2> QED
    BY <2>3, <2>4, <2>5
<1> QED
  BY <1>1, TypeCorrect, HeldInvCorrect, PTL DEF Spec, SilentSocketCloses


\* A listed speaker has the state add_speaker left it in only during its first
\* beacon, so the counted speakers that are or were skipped are at most one.
Skipped == {s \in ctl.counted \ ctl.copied : s \in ctl.done \/ state[s] = "none"}

CopyInv ==
    /\ \A s \in listed : state[s] = "none" => main.pc = "check" /\ main.sp = s
    /\ ctl.pc = "copy" => /\ ctl.counted \subseteq listed
                          /\ ctl.copied \subseteq ctl.done
                          /\ \A s, t \in Skipped : s = t

\* The steps of the control-socket thread that are not of the copy.
CtlElsewhere ==
    \/ PushChunk
    \/ StreamEnd
    \/ \E s \in Speakers : PushSent(s) \/ PushRefused(s)
    \/ CopyDone
    \/ PushTest
    \/ PushReload
    \/ PushClose
    \/ PushChunkDone

LEMMA StateStays ==
    ASSUME CopyInv, UNCHANGED ctl, listed \subseteq listed',
           \A s \in listed : state'[s] = "none" => state[s] = "none",
           \A s \in listed' : state'[s] = "none" => main'.pc = "check" /\ main'.sp = s
    PROVE  CopyInv'
BY DEF CopyInv, Skipped

(***************************************************************************)
(* The entries cmd_speakers sends: OneEntryUnset, about its count, its     *)
(* unlocked walk, and valid_speaker adding a speaker meanwhile.            *)
(***************************************************************************)
THEOREM OneUnset == Spec => []OneEntryUnset
<1>1. Init => CopyInv
  BY DEF Init, TableInit, CommandInit, CtlAccepting, CopyInv
<1>2. TypeOK /\ CopyInv /\ [Next]_vars => CopyInv'
  <2> SUFFICES ASSUME TypeOK, CopyInv, [Next]_vars PROVE CopyInv'
    OBVIOUS
  <2>1. CASE UNCHANGED <<ctl, listed, state, main>>
    BY <2>1, StateStays DEF CopyInv
  <2>2. CASE \E s \in Speakers, b \in BOOLEAN :
               BeaconKnown(s, b) /\ UNCHANGED <<ctl, http>>
    BY <2>2, StateStays DEF BeaconKnown, CopyInv
  <2>3. CASE \E s \in Speakers, b \in BOOLEAN :
               BeaconNew(s, b) /\ UNCHANGED <<ctl, http>>
    BY <2>3, StateStays DEF BeaconNew, CopyInv
  <2>4. CASE BeaconCheckOnline /\ UNCHANGED <<ctl, http>>
    <3>1. main.sp \in listed /\ UNCHANGED <<listed, ctl>>
      BY <2>4 DEF BeaconCheckOnline, TypeOK, InHandListed
    <3>2. /\ \A s \in listed : state[s] = "none" => s = main.sp
          /\ state' = [state EXCEPT ![main.sp] = "online"]
      BY <2>4 DEF BeaconCheckOnline, speaker_check_online, CopyInv
    <3>3. \A s \in listed : state'[s] # "none"
      BY <3>1, <3>2 DEF TypeOK, TableTypeOK
    <3> QED
      BY <3>1, <3>3, StateStays
  <2>5. CASE BeaconConnect /\ UNCHANGED <<ctl, http>>
    BY <2>5, StateStays DEF BeaconConnect, MainIdle, CopyInv, tableVars
  <2>6. CASE (BeaconSocket \/ BeaconStore \/ BeaconShare) /\ UNCHANGED <<ctl, http>>
    BY <2>6, StateStays DEF BeaconSocket, BeaconStore, BeaconShare, CopyInv
  <2>7. CASE OnlineOffline /\ UNCHANGED <<ctl, http>>
    <3>1. \A s \in listed : state'[s] = "none" => state[s] = "none"
      BY <2>7 DEF OnlineOffline, TypeOK, TableTypeOK
    <3> QED
      BY <2>7, <3>1, StateStays DEF OnlineOffline, CopyInv
  <2>8. CASE ctl'.pc # "copy" /\ UNCHANGED <<listed, main>>
             /\ \A s \in listed : state'[s] = "none" => state[s] = "none"
    BY <2>8 DEF CopyInv
  <2>9. CASE AcceptCommand /\ UNCHANGED <<detectVars, http>>
    <3>1. CASE UNCHANGED ctl
      BY <2>9, <3>1, StateStays DEF AcceptCommand, detectVars, CopyInv
    <3>2. CASE ctl' = CtlStreaming
      BY <2>9, <3>2
      DEF AcceptCommand, detectVars, CtlStreaming, CtlAccepting, CopyInv
    <3>3. CASE ctl' = [CtlAccepting EXCEPT !.pc = "copy", !.counted = listed]
      BY <2>9, <3>3
      DEF AcceptCommand, detectVars, CtlAccepting, CopyInv, Skipped
    <3> QED
      BY <2>9, <3>1, <3>2, <3>3, Zenon DEF AcceptCommand
  <2>10. CASE \E s \in Speakers : CopySpeaker(s) /\ UNCHANGED <<detectVars, http>>
    <3> PICK s \in Speakers : CopySpeaker(s)
      BY <2>10
    <3>1. UNCHANGED <<listed, state, main>> /\ s \in listed \ ctl.done
      BY <2>10 DEF CopySpeaker, CopyStep, tableVars, detectVars
    <3>2. /\ ctl.pc = "copy"
          /\ ctl'.pc = "copy"
          /\ ctl'.counted = ctl.counted
          /\ ctl'.done = ctl.done \cup {s}
          /\ ctl'.copied = IF state[s] # "none" THEN ctl.copied \cup {s}
                                                ELSE ctl.copied
      BY DEF CopySpeaker, CopyStep, TypeOK, CommandTypeOK
    <3>3. Skipped' \subseteq Skipped
      <4> SUFFICES ASSUME NEW t \in Skipped' PROVE t \in Skipped
        OBVIOUS
      <4>1. CASE t = s
        BY <3>1, <3>2, <4>1 DEF Skipped, CopyInv
      <4>2. CASE t # s
        BY <3>1, <3>2, <4>2 DEF Skipped, CopyInv
      <4> QED
        BY <4>1, <4>2
    <3> QED
      BY <3>1, <3>2, <3>3 DEF CopyInv
  <2>11. \/ UNCHANGED <<ctl, listed, state, main>>
         \/ \E s \in Speakers, b \in BOOLEAN :
               BeaconKnown(s, b) /\ UNCHANGED <<ctl, http>>
         \/ \E s \in Speakers, b \in BOOLEAN :
               BeaconNew(s, b) /\ UNCHANGED <<ctl, http>>
         \/ BeaconCheckOnline /\ UNCHANGED <<ctl, http>>
         \/ BeaconConnect /\ UNCHANGED <<ctl, http>>
         \/ (BeaconSocket \/ BeaconStore \/ BeaconShare) /\ UNCHANGED <<ctl, http>>
         \/ OnlineOffline /\ UNCHANGED <<ctl, http>>
         \/ CtlElsewhere /\ UNCHANGED <<detectVars, http>>
         \/ AcceptCommand /\ UNCHANGED <<detectVars, http>>
         \/ \E s \in Speakers : CopySpeaker(s) /\ UNCHANGED <<detectVars, http>>
    <3>1. CASE Next
      BY <3>1, NextCases, HttpSteps
      DEF OnlineWake, OnlineLoad, OnlineStore, OnlineTest, OnlineReload,
          OnlineClose, OnlineSleep, tableVars, detectVars, CtlElsewhere
    <3>2. CASE UNCHANGED vars
      BY <3>2 DEF vars, tableVars, detectVars
    <3> QED
      BY <3>1, <3>2
  <2>12. CASE CtlElsewhere /\ UNCHANGED <<detectVars, http>>
    <3>1. ctl'.pc # "copy"
      <4>1. CASE StreamEnd \/ CopyDone \/ PushChunkDone
        BY <4>1
        DEF StreamEnd, CopyDone, PushChunkDone, CtlAccepting, CtlStreaming
      <4>2. CASE PushChunk
        BY <4>2 DEF PushChunk, TypeOK, CommandTypeOK
      <4>3. CASE PushTest \/ PushReload \/ PushClose
        BY <4>3 DEF PushTest, PushReload, PushClose, Pushing, TypeOK, CommandTypeOK
      <4>4. CASE \E s \in Speakers : PushSent(s)
        BY <4>4 DEF PushSent, TypeOK, CommandTypeOK
      <4>5. CASE \E s \in Speakers : PushRefused(s)
        BY <4>5 DEF PushRefused, TypeOK, CommandTypeOK
      <4> QED
        BY <2>12, <4>1, <4>2, <4>3, <4>4, <4>5 DEF CtlElsewhere
    <3>2. \A s \in listed : state'[s] = "none" => state[s] = "none"
      BY <2>12
      DEF CtlElsewhere, PushChunk, StreamEnd, PushSent, PushRefused, CopyDone,
          PushTest, PushReload, PushClose, PushChunkDone, speaker_recheck_online,
          speaker_check_online, tableVars, TypeOK, TableTypeOK
    <3>3. UNCHANGED <<listed, main>>
      BY <2>12
      DEF CtlElsewhere, PushChunk, StreamEnd, PushSent, PushRefused, CopyDone,
          PushTest, PushReload, PushClose, PushChunkDone, tableVars, detectVars
    <3> QED
      BY <2>8, <3>1, <3>2, <3>3
  <2> QED
    BY <2>1, <2>2, <2>3, <2>4, <2>5, <2>6, <2>7, <2>9, <2>10, <2>11, <2>12
<1>3. TypeOK /\ CopyInv => OneEntryUnset
  BY DEF OneEntryUnset, CopyInv, Skipped
<1> QED
  BY <1>1, <1>2, <1>3, TypeCorrect, PTL DEF Spec
=============================================================================
