------------------------ MODULE SpeakerControlProofs ------------------------
(***************************************************************************)
(* Proofs about SpeakerControl, for any speakers and formats: while the    *)
(* two threads do not overlap, the static buffer belongs to the call in    *)
(* progress, and the walk's calls reach whom they are for.                 *)
(***************************************************************************)
EXTENDS SpeakerControl, TLAPS

InStream == wave.pc \in {"walk", "stream"}

\* The speakers the walk has come past.
Walked == IF wave.pc = "stream" THEN Speakers ELSE wave.done

\* Those of them that server_spctrl_format owes the format.
Owed == (listed \ missed) \cap Walked

\* A call of the walk is for the format of the stream.
WaveCallInv ==
    wave.call.pc # "none" =>
        /\ wave.call.sp \in Speakers
        /\ wave.call.cmd = "SAMPLE"
        /\ wave.call.body = Body(wave.call.sp, wave.format)

\* As far as call c has written the buffer, it is in there.
BufferHolds(c) ==
    /\ c.pc \in {"body", "send"} => buffer.cmd = c.cmd
    /\ c.pc = "send" => buffer.body = c.body

\* A call of the event loop harms nobody: either it began before the stream,
\* and then nobody is owed anything yet, or what it will send is known.
MainHarmless ==
    main.pc # "none" =>
        \/ Owed = {}
        \/ /\ wave.call.pc = "none"
           /\ BufferHolds(main)
           /\ main.cmd = "TIME" \/ main.sp \notin Owed

\* Without overlap the walk has the buffer to itself.
WaveAlone ==
    wave.call.pc # "none" => main.pc = "none" /\ BufferHolds(wave.call)

OwedAreTold ==
    \A s \in Owed : \/ told[s] = Body(s, wave.format)
                    \/ wave.call.pc # "none" /\ wave.call.sp = s

ControlInv ==
    /\ TypeOK
    /\ WaveCallInv
    /\ InStream /\ ~overlap => MainHarmless /\ WaveAlone /\ OwedAreTold

(***************************************************************************)
(* The types, and what a call of the walk is for.                          *)
(***************************************************************************)
LEMMA CallTypes ==
    /\ NoCall \in Calls
    /\ \A s \in Speakers, cmd \in Commands, what \in Formats \cup {"clock"} :
         Call(s, cmd, what) \in Calls
    /\ \A c \in Calls : After(c) \in Calls
<1>1. NoCall \in Calls
  BY DEF NoCall, Calls, Body, Bodies, Commands
<1>2. \A s \in Speakers, cmd \in Commands, what \in Formats \cup {"clock"} :
        Call(s, cmd, what) \in Calls
  BY DEF Call, Calls, Body, Bodies, Commands
<1>3. ASSUME NEW c \in Calls PROVE After(c) \in Calls
  BY <1>1 DEF After, Calls
<1> QED
  BY <1>1, <1>2, <1>3

LEMMA AdvanceTypes ==
    ASSUME TypeOK, NEW c \in Calls, Advance(c)
    PROVE  /\ told' \in [Speakers -> Bodies]
           /\ buffer' \in [cmd : Commands, body : Bodies]
<1>1. /\ told \in [Speakers -> Bodies]
      /\ buffer \in [cmd : Commands, body : Bodies]
      /\ buffer.body \in Bodies
      /\ c.cmd \in Commands /\ c.body \in Bodies
  BY DEF TypeOK, Calls
<1>2. CASE (EncodeCommand(c) \/ EncodeBody(c)) /\ UNCHANGED told
  BY <1>1, <1>2 DEF EncodeCommand, EncodeBody
<1>3. CASE SendTo(c) /\ UNCHANGED buffer
  BY <1>1, <1>3 DEF SendTo
<1> QED
  BY <1>2, <1>3 DEF Advance

LEMMA TypesKept ==
    ASSUME TypeOK, WaveCallInv, [Next]_controlVars
    PROVE  TypeOK'
<1> USE CallTypes, ControlAssumption
<1>1. ASSUME NEW s \in Speakers, NEW support \in BOOLEAN,
             BeaconNew(s, support)
      PROVE  TypeOK'
  <2>1. Call(s, "SAMPLE", ConfigFormat) \in Calls
    BY DEF Commands
  <2> QED
    BY <1>1, <2>1 DEF TypeOK, BeaconNew, Supports, MainCall
<1>2. ASSUME NEW s \in Speakers, NEW support \in BOOLEAN,
             BeaconKnown(s, support)
      PROVE  TypeOK'
  BY <1>2 DEF TypeOK, BeaconKnown, Supports
<1>3. ASSUME NEW s \in Speakers, spctrl_time(s) PROVE TypeOK'
  <2>1. Call(s, "TIME", "clock") \in Calls
    BY DEF Commands
  <2> QED
    BY <1>3, <2>1 DEF TypeOK, spctrl_time, MainCall
<1>4. ASSUME NEW s \in Speakers, GoOffline(s) PROVE TypeOK'
  BY <1>4 DEF TypeOK, GoOffline
<1>5. ASSUME NEW s \in Speakers, FormatNext(s) PROVE TypeOK'
  <2>1. Call(s, "SAMPLE", wave.format) \in Calls
    BY DEF TypeOK, Commands
  <2>2. wave'.pc = "walk"
    BY <1>5 DEF FormatNext, WalkCall, TypeOK
  <2> QED
    BY <1>5, <2>1, <2>2 DEF TypeOK, FormatNext, WalkCall
<1>6. CASE MainAdvance
  BY <1>6, AdvanceTypes DEF TypeOK, MainAdvance
<1>7. ASSUME NEW f \in Formats, server_spctrl_set_format(f) PROVE TypeOK'
  BY <1>7 DEF TypeOK, server_spctrl_set_format, NoCall
<1>8. CASE FormatAdvance
  <2>1. wave.call \in Calls /\ wave.call.pc # "none"
    BY <1>8 DEF TypeOK, FormatAdvance, Advance, EncodeCommand, EncodeBody, SendTo
  <2>2. wave'.pc = "walk"
    BY <1>8, <2>1 DEF TypeOK, FormatAdvance
  <2>3. /\ told' \in [Speakers -> Bodies]
        /\ buffer' \in [cmd : Commands, body : Bodies]
    BY <1>8, <2>1, AdvanceTypes DEF FormatAdvance
  <2>4. missed' \subseteq Speakers
    BY <1>8, <2>1 DEF TypeOK, FormatAdvance, WaveCallInv
  <2>5. After(wave.call) \in Calls
    BY <2>1
  <2> QED
    BY <1>8, <2>2, <2>3, <2>4, <2>5 DEF TypeOK, FormatAdvance
<1>9. CASE FormatDone
  BY <1>9 DEF TypeOK, FormatDone
<1>10. CASE StreamEnd
  BY <1>10 DEF TypeOK, StreamEnd, WaveIdle, NoCall
<1>11. CASE UNCHANGED controlVars
  BY <1>11 DEF TypeOK, controlVars
<1> QED
  BY <1>1, <1>2, <1>3, <1>4, <1>5, <1>6, <1>7, <1>8, <1>9, <1>10, <1>11
  DEF Next

LEMMA WaveCallKept ==
    ASSUME TypeOK, WaveCallInv, [Next]_controlVars
    PROVE  WaveCallInv'
<1>1. CASE UNCHANGED wave
  BY <1>1 DEF WaveCallInv
<1>2. ASSUME NEW s \in Speakers, FormatNext(s) PROVE WaveCallInv'
  <2>1. wave'.format = wave.format
    BY <1>2 DEF TypeOK, FormatNext, WalkCall
  <2>2. wave'.call = IF s \in active THEN Call(s, "SAMPLE", wave.format)
                                     ELSE NoCall
    BY <1>2 DEF TypeOK, FormatNext, WalkCall
  <2> QED
    BY <2>1, <2>2 DEF WaveCallInv, Call, NoCall
<1>3. ASSUME NEW f \in Formats, server_spctrl_set_format(f)
      PROVE  WaveCallInv'
  BY <1>3 DEF server_spctrl_set_format, WaveCallInv, NoCall
<1>4. CASE FormatAdvance
  <2>1. wave.call \in Calls /\ wave.call.pc # "none"
    BY <1>4 DEF TypeOK, FormatAdvance, Advance, EncodeCommand, EncodeBody, SendTo
  <2>2. wave'.format = wave.format /\ wave'.call = After(wave.call)
    BY <1>4 DEF TypeOK, FormatAdvance
  <2> QED
    BY <2>1, <2>2 DEF WaveCallInv, After, NoCall, Calls
<1>5. CASE FormatDone
  BY <1>5 DEF WaveCallInv, FormatDone, TypeOK
<1>6. CASE StreamEnd
  BY <1>6 DEF WaveCallInv, StreamEnd, WaveIdle, NoCall
<1> QED
  BY <1>1, <1>2, <1>3, <1>4, <1>5, <1>6
  DEF Next, controlVars, BeaconNew, BeaconKnown, spctrl_time, GoOffline,
      MainAdvance

(***************************************************************************)
(* The buffer and the packages, while the threads do not overlap.          *)
(***************************************************************************)
Apart == InStream /\ ~overlap
Calm == MainHarmless /\ WaveAlone /\ OwedAreTold

\* A step of the event loop that begins no call and adds to nobody's due.
LEMMA OwedShrinks ==
    ASSUME Calm, Owed' \subseteq Owed,
           UNCHANGED <<told, buffer, main, wave>>
    PROVE  Calm'
BY DEF Calm, MainHarmless, WaveAlone, OwedAreTold, BufferHolds

\* A call begins: nothing is written yet.
LEMMA MainBegins ==
    ASSUME TypeOK, Calm, Owed' \subseteq Owed, wave.call.pc = "none",
           UNCHANGED <<told, buffer, wave>>, main'.pc = "command",
           main'.cmd = "TIME" \/ main'.sp \notin Owed'
    PROVE  Calm'
BY DEF Calm, MainHarmless, WaveAlone, OwedAreTold, BufferHolds

LEMMA BeaconsCalm ==
    ASSUME ControlInv, Apart => Calm, Apart', NEW s \in Speakers,
           \/ \E support \in BOOLEAN :
                BeaconNew(s, support) \/ BeaconKnown(s, support)
           \/ spctrl_time(s)
           \/ GoOffline(s)
    PROVE  Calm'
<1>1. UNCHANGED <<told, buffer, wave>>
  BY DEF BeaconNew, BeaconKnown, spctrl_time, GoOffline
<1>2. Walked' = Walked /\ InStream
  BY <1>1 DEF Walked, Apart, InStream
<1>3. CASE UNCHANGED <<main, overlap>>
  <2>1. Owed' \subseteq Owed
    BY <1>2 DEF Owed, BeaconNew, BeaconKnown, spctrl_time, GoOffline
  <2> QED
    BY <1>1, <1>2, <1>3, <2>1, OwedShrinks DEF Apart
<1>4. ASSUME NEW support \in BOOLEAN, BeaconNew(s, support), support
      PROVE  Calm'
  <2>1. /\ main' = Call(s, "SAMPLE", ConfigFormat)
        /\ overlap' = (overlap \/ wave.call.pc # "none")
    BY <1>4 DEF BeaconNew, MainCall
  <2>2. Owed' \subseteq Owed /\ s \notin Owed'
    BY <1>1, <1>4 DEF Owed, Walked, BeaconNew, ControlInv, TypeOK, Apart, InStream
  <2>3. main'.pc = "command" /\ main'.sp = s
    BY <2>1 DEF Call
  <2>4. ~overlap /\ wave.call.pc = "none"
    BY <2>1 DEF Apart
  <2> QED
    BY <1>1, <1>2, <2>2, <2>3, <2>4, MainBegins DEF Apart, ControlInv
<1>5. CASE spctrl_time(s)
  <2>1. /\ main' = Call(s, "TIME", "clock")
        /\ overlap' = (overlap \/ wave.call.pc # "none")
    BY <1>5 DEF spctrl_time, MainCall
  <2>2. Owed' \subseteq Owed
    BY <1>2, <1>5 DEF Owed, spctrl_time
  <2>3. main'.pc = "command" /\ main'.cmd = "TIME"
    BY <2>1 DEF Call
  <2>4. ~overlap /\ wave.call.pc = "none"
    BY <2>1 DEF Apart
  <2> QED
    BY <1>1, <1>2, <2>2, <2>3, <2>4, MainBegins DEF Apart, ControlInv
<1> QED
  BY <1>3, <1>4, <1>5 DEF BeaconNew, BeaconKnown, GoOffline

LEMMA MainAdvanceCalm ==
    ASSUME ControlInv, Apart => Calm, Apart', MainAdvance
    PROVE  Calm'
<1>1. /\ main \in Calls /\ main.pc # "none"
      /\ main' = After(main) /\ Advance(main)
      /\ UNCHANGED <<listed, wave, missed, overlap>>
  BY DEF ControlInv, TypeOK, MainAdvance, Advance, EncodeCommand, EncodeBody,
         SendTo
<1>2. Owed' = Owed /\ Calm
  BY <1>1 DEF Owed, Walked, Apart, InStream
<1>3. wave.call.pc = "none"
  BY <1>1, <1>2 DEF Calm, WaveAlone
<1>4. WaveAlone'
  BY <1>1, <1>3 DEF WaveAlone
<1>5. MainHarmless'
  <2>1. CASE Owed = {}
    BY <1>2, <2>1 DEF MainHarmless
  <2>2. CASE BufferHolds(main) /\ (main.cmd = "TIME" \/ main.sp \notin Owed)
    <3>1. main'.pc # "none" => main'.cmd = main.cmd /\ main'.sp = main.sp
      BY <1>1 DEF After, Calls, NoCall
    <3>2. BufferHolds(main)'
      BY <1>1, <2>2
      DEF BufferHolds, After, Calls, NoCall, Advance, EncodeCommand,
          EncodeBody, SendTo, ControlInv, TypeOK
    <3> QED
      BY <1>1, <1>2, <1>3, <2>2, <3>1, <3>2 DEF MainHarmless
  <2> QED
    BY <1>1, <1>2, <2>1, <2>2 DEF Calm, MainHarmless
<1>6. OwedAreTold'
  <2>1. \A s \in Owed : told'[s] = told[s]
    <3>1. CASE UNCHANGED told
      BY <3>1
    <3>2. CASE SendTo(main)
      <4>1. CASE Owed = {}
        BY <4>1
      <4>2. CASE BufferHolds(main) /\ main.cmd = "TIME"
        BY <3>2, <4>2 DEF SendTo, BufferHolds
      <4>3. CASE main.sp \notin Owed
        BY <3>2, <4>3 DEF SendTo, ControlInv, TypeOK, Owed
      <4> QED
        BY <1>1, <1>2, <4>1, <4>2, <4>3 DEF Calm, MainHarmless
    <3> QED
      BY <1>1, <3>1, <3>2 DEF Advance
  <2> QED
    BY <1>1, <1>2, <2>1 DEF Calm, OwedAreTold
<1> QED
  BY <1>4, <1>5, <1>6 DEF Calm

LEMMA FormatNextCalm ==
    ASSUME ControlInv, Apart => Calm, Apart', NEW s \in Speakers, FormatNext(s)
    PROVE  Calm'
<1>1. /\ wave.pc = "walk" /\ wave.call.pc = "none" /\ s \notin wave.done
      /\ wave'.pc = "walk" /\ wave'.format = wave.format
      /\ wave'.done = wave.done \cup {s}
      /\ wave'.call = IF s \in active THEN Call(s, "SAMPLE", wave.format)
                                       ELSE NoCall
      /\ overlap' = (overlap \/ (s \in active /\ main.pc # "none"))
      /\ missed' = IF s \in active THEN missed ELSE missed \cup {s}
      /\ UNCHANGED <<listed, told, buffer, main>>
  BY DEF ControlInv, TypeOK, FormatNext, WalkCall
<1>2. Calm
  BY <1>1 DEF Apart, InStream
<1>3. CASE s \notin active
  <2>1. wave'.call.pc = "none" /\ Owed' = Owed
    BY <1>1, <1>3 DEF NoCall, Owed, Walked
  <2> QED
    BY <1>1, <1>2, <2>1
    DEF Calm, MainHarmless, WaveAlone, OwedAreTold, BufferHolds
<1>4. CASE s \in active
  <2>1. main.pc = "none" /\ Owed' \subseteq Owed \cup {s}
    BY <1>1, <1>4 DEF Apart, Owed, Walked
  <2>2. wave'.call.pc = "command" /\ wave'.call.sp = s
    BY <1>1, <1>4 DEF Call
  <2> QED
    BY <1>1, <1>2, <2>1, <2>2
    DEF Calm, MainHarmless, WaveAlone, OwedAreTold, BufferHolds
<1> QED
  BY <1>3, <1>4

LEMMA FormatAdvanceCalm ==
    ASSUME ControlInv, Apart => Calm, Apart', FormatAdvance
    PROVE  Calm'
<1>1. /\ wave.call \in Calls /\ wave.call.pc # "none"
      /\ wave.pc = "walk" /\ wave'.pc = "walk"
      /\ wave'.format = wave.format /\ wave'.done = wave.done
      /\ wave'.call = After(wave.call) /\ Advance(wave.call)
      /\ missed' = IF wave.call.pc = "send" /\ wave.call.sp \notin active
                   THEN missed \cup {wave.call.sp} ELSE missed
      /\ UNCHANGED <<listed, main, overlap>>
  BY DEF ControlInv, TypeOK, FormatAdvance, Advance, EncodeCommand,
         EncodeBody, SendTo
<1>2. Owed' \subseteq Owed /\ Calm
  BY <1>1 DEF Owed, Walked, Apart, InStream
<1>3. main.pc = "none" /\ BufferHolds(wave.call)
  BY <1>1, <1>2 DEF Calm, WaveAlone
<1>4. BufferHolds(wave.call)'
  BY <1>1, <1>3
  DEF BufferHolds, After, Calls, NoCall, Advance, EncodeCommand, EncodeBody,
      SendTo, ControlInv, TypeOK
<1>5. OwedAreTold'
  <2>1. CASE SendTo(wave.call)
    <3>1. buffer.cmd = "SAMPLE"
          /\ buffer.body = Body(wave.call.sp, wave.format)
      BY <1>1, <1>3, <2>1 DEF SendTo, BufferHolds, ControlInv, WaveCallInv
    <3>2. \A s \in Owed' :
            told'[s] = IF s = wave.call.sp THEN Body(s, wave.format)
                                           ELSE told[s]
      <4>1. wave.call.sp \in active \/ wave.call.sp \notin Owed'
        BY <1>1, <2>1 DEF SendTo, Owed
      <4>2. \A s \in Owed' : s \in Speakers
        BY <1>2 DEF Owed, ControlInv, TypeOK
      <4>3. told \in [Speakers -> Bodies]
        BY DEF ControlInv, TypeOK
      <4> QED
        BY <2>1, <3>1, <4>1, <4>2, <4>3 DEF SendTo
    <3> QED
      BY <1>1, <1>2, <3>2 DEF Calm, OwedAreTold
  <2>2. CASE UNCHANGED told /\ wave'.call.pc # "none"
    <3>1. wave'.call.sp = wave.call.sp
      BY <1>1, <2>2 DEF After, Calls, NoCall
    <3> QED
      BY <1>1, <1>2, <2>2, <3>1 DEF Calm, OwedAreTold
  <2> QED
    BY <1>1, <2>1, <2>2
    DEF Advance, EncodeCommand, EncodeBody, After, Calls
<1> QED
  BY <1>1, <1>3, <1>4, <1>5 DEF Calm, MainHarmless, WaveAlone

LEMMA FormatDoneCalm ==
    ASSUME ControlInv, Apart => Calm, Apart', FormatDone
    PROVE  Calm'
<1>1. /\ wave.pc = "walk" /\ wave.call.pc = "none" /\ listed \subseteq wave.done
      /\ wave'.pc = "stream" /\ wave'.call = wave.call
      /\ wave'.format = wave.format
      /\ UNCHANGED <<listed, told, buffer, main, missed, overlap>>
  BY DEF ControlInv, TypeOK, FormatDone
<1>2. Owed' = Owed /\ Calm
  BY <1>1 DEF Owed, Walked, Apart, InStream, ControlInv, TypeOK
<1> QED
  BY <1>1, <1>2 DEF Calm, MainHarmless, WaveAlone, OwedAreTold, BufferHolds

LEMMA CalmKept ==
    ASSUME ControlInv, Apart => Calm, [Next]_controlVars, Apart'
    PROVE  Calm'
<1>1. ASSUME NEW f \in Formats, server_spctrl_set_format(f) PROVE Calm'
  <2>1. wave'.call.pc = "none" /\ Owed' = {}
    BY <1>1 DEF server_spctrl_set_format, NoCall, Owed, Walked
  <2> QED
    BY <2>1 DEF Calm, MainHarmless, WaveAlone, OwedAreTold
<1>2. ~StreamEnd
  BY DEF StreamEnd, WaveIdle, Apart, InStream
<1>3. CASE UNCHANGED controlVars
  BY <1>3
  DEF controlVars, Apart, InStream, Calm, MainHarmless, WaveAlone,
      OwedAreTold, BufferHolds, Owed, Walked
<1> QED
  BY <1>1, <1>2, <1>3, BeaconsCalm, MainAdvanceCalm, FormatNextCalm,
     FormatAdvanceCalm, FormatDoneCalm
  DEF Next

THEOREM ControlInvCorrect == Spec => []ControlInv
<1>1. Init => ControlInv
  <2> SUFFICES ASSUME Init PROVE ControlInv
    OBVIOUS
  <2>1. Body(Nobody, "clock") \in Bodies /\ "TIME" \in Commands
    BY DEF Body, Bodies, Commands
  <2>2. WaveIdle.pc = "idle" /\ WaveIdle.call = NoCall /\ NoCall.pc = "none"
          /\ WaveIdle.done = {}
    BY DEF WaveIdle, NoCall
  <2>3. WaveIdle \in [pc : {"idle", "walk", "stream"}, format : Formats,
                      done : SUBSET Speakers, call : Calls]
    BY CallTypes, ControlAssumption DEF WaveIdle
  <2>4. TypeOK
    <3>1. NoCall \in Calls
      BY CallTypes
    <3>2. wave \in [pc : {"idle", "walk", "stream"}, format : Formats,
                    done : SUBSET Speakers, call : Calls]
          /\ wave.call.pc = "none" /\ wave.done = {}
      BY <2>2, <2>3 DEF Init
    <3>3. /\ told \in [Speakers -> Bodies]
          /\ buffer \in [cmd : Commands, body : Bodies]
      BY <2>1 DEF Init
    <3> QED
      BY <3>1, <3>2, <3>3 DEF Init, TypeOK
  <2> QED
    BY <2>2, <2>4 DEF Init, ControlInv, WaveCallInv, InStream
<1>2. ControlInv /\ [Next]_controlVars => ControlInv'
  <2> SUFFICES ASSUME ControlInv, [Next]_controlVars PROVE ControlInv'
    OBVIOUS
  <2>1. Apart => Calm
    BY DEF ControlInv, Apart, Calm
  <2>2. TypeOK' /\ WaveCallInv'
    BY TypesKept, WaveCallKept DEF ControlInv
  <2>3. Apart' => Calm'
    BY <2>1, CalmKept
  <2> QED
    BY <2>2, <2>3 DEF ControlInv, Apart, Calm
<1> QED
  BY <1>1, <1>2, PTL DEF Spec

\* TypeOK, about server_speaker_control.c: calls of the walk exist only in it.
THEOREM TypeCorrect == Spec => []TypeOK
<1>1. ControlInv => TypeOK
  BY DEF ControlInv
<1> QED
  BY <1>1, ControlInvCorrect, PTL

(***************************************************************************)
(* FormatReached, about server_spctrl_format: a speaker online when the    *)
(* walk came to it has been told the format, and nothing else since,       *)
(* unless the threads overlapped.                                          *)
(***************************************************************************)
THEOREM FormatIsReached == Spec => []FormatReached
<1>1. ControlInv => FormatReached
  <2> SUFFICES ASSUME ControlInv, wave.pc = "stream", ~overlap,
                      NEW s \in listed \ missed
               PROVE  told[s] = Body(s, wave.format)
    BY DEF FormatReached
  <2>1. OwedAreTold /\ wave.call.pc = "none"
    BY DEF ControlInv, InStream, TypeOK
  <2>2. s \in Owed
    BY DEF Owed, Walked, ControlInv, TypeOK
  <2> QED
    BY <2>1, <2>2 DEF OwedAreTold
<1> QED
  BY <1>1, ControlInvCorrect, PTL
=============================================================================
