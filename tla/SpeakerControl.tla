--------------------------- MODULE SpeakerControl ---------------------------
(***************************************************************************)
(* server_speaker_control.c: the packages that tell speakers the audio     *)
(* format and the time.  Two threads send them, the event loop (to a       *)
(* speaker just found, and in answer to its TIME requests) and the         *)
(* control-socket thread (the format of a stream, to all speakers), and    *)
(* both encode into the one static buffer, without a lock.                 *)
(* A package is a command and a body; encoding one writes them one after   *)
(* the other.  What sendto is given is taken to arrive.                    *)
(***************************************************************************)
EXTENDS Naturals

CONSTANTS
    Speakers,
    Nobody,        \* no speaker
    Formats,       \* rate and bits of a stream
    ConfigFormat   \* config_speaker_rate and config_speaker_bits

ASSUME ControlAssumption ==
    /\ Nobody \notin Speakers
    /\ ConfigFormat \in Formats
    /\ "clock" \notin Formats

VARIABLES
    listed,    \* speakers in the list
    active,    \* those whose state is online
    supported, \* those that can play the configured format
    told,      \* the body of the last SAMPLE package a speaker was sent
    buffer,    \* the static buffer
    main,      \* the event loop's call of server_spctrl_speaker
    wave,      \* cmd_wave: server_spctrl_set_format, then the stream
    missed,    \* ghost: speakers that were offline when the walk came to them
               \* or sent to them, or were found after it
    overlap    \* ghost: since its start both threads have had a package unsent

controlVars == <<listed, active, supported, told, buffer, main, wave, missed, overlap>>

\* A body names the speaker it is for: its channel, or the clock it is for.
Body(s, what) == [for |-> s, what |-> what]
Bodies == [for : Speakers \cup {Nobody}, what : Formats \cup {"clock"}]
Commands == {"SAMPLE", "TIME"}

\* A call of server_spctrl_speaker: the package, and how far it has got.
Call(s, cmd, what) ==
    [pc |-> "command", sp |-> s, cmd |-> cmd, body |-> Body(s, what)]
NoCall == [pc |-> "none", sp |-> Nobody, cmd |-> "TIME",
           body |-> Body(Nobody, "clock")]
Calls == [pc : {"none", "command", "body", "send"},
          sp : Speakers \cup {Nobody}, cmd : Commands, body : Bodies]

WaveIdle == [pc |-> "idle", format |-> ConfigFormat, done |-> {},
             call |-> NoCall]

TypeOK ==
    /\ listed \subseteq Speakers
    /\ active \subseteq listed
    /\ supported \subseteq listed
    /\ told \in [Speakers -> Bodies]
    /\ buffer \in [cmd : Commands, body : Bodies]
    /\ main \in Calls
    /\ wave \in [pc : {"idle", "walk", "stream"}, format : Formats,
                 done : SUBSET Speakers, call : Calls]
    /\ wave.call.pc # "none" => wave.pc = "walk"
    /\ wave.done \subseteq listed
    /\ missed \subseteq Speakers
    /\ overlap \in BOOLEAN

Init ==
    /\ listed = {}
    /\ active = {}
    /\ supported = {}
    /\ told = [s \in Speakers |-> Body(Nobody, "clock")]
    /\ buffer = [cmd |-> "TIME", body |-> Body(Nobody, "clock")]
    /\ main = NoCall
    /\ wave = WaveIdle
    /\ missed = {}
    /\ overlap = FALSE

(***************************************************************************)
(* server_spctrl_speaker and server_spctrl_sendto_speaker, for a call c.   *)
(***************************************************************************)
EncodeCommand(c) == c.pc = "command" /\ buffer' = [buffer EXCEPT !.cmd = c.cmd]
EncodeBody(c) == c.pc = "body" /\ buffer' = [buffer EXCEPT !.body = c.body]

\* The buffer goes to the speaker, whatever it holds by now.
SendTo(c) ==
    /\ c.pc = "send"
    /\ told' = IF c.sp \in active /\ buffer.cmd = "SAMPLE"
               THEN [told EXCEPT ![c.sp] = buffer.body] ELSE told

After(c) == CASE c.pc = "command" -> [c EXCEPT !.pc = "body"]
              [] c.pc = "body" -> [c EXCEPT !.pc = "send"]
              [] OTHER -> NoCall

\* One step of a call: its effect on the buffer or on the speaker.
Advance(c) ==
    \/ (EncodeCommand(c) \/ EncodeBody(c)) /\ UNCHANGED told
    \/ SendTo(c) /\ UNCHANGED buffer

(***************************************************************************)
(* The event loop.                                                         *)
(***************************************************************************)
MainCall(c) ==
    /\ main' = c
    /\ overlap' = (overlap \/ wave.call.pc # "none")

\* sp->supported = support.
Supports(s, support) ==
    supported' = IF support THEN supported \cup {s} ELSE supported \ {s}

\* MUTANT of BeaconNew: the speaker is not linked into the list.
BeaconUnlisted(s, support) ==
    /\ main.pc = "none"
    /\ s \notin listed
    /\ active' = active \cup {s}
    /\ Supports(s, support)
    /\ missed' = IF wave.pc = "stream" THEN missed \cup {s} ELSE missed
    /\ IF support THEN MainCall(Call(s, "SAMPLE", ConfigFormat))
                  ELSE UNCHANGED <<main, overlap>>
    /\ UNCHANGED <<listed, told, buffer, wave>>

\* valid_speaker, a new speaker: one that is not supported is only added.
BeaconNew(s, support) ==
    /\ main.pc = "none"
    /\ s \notin listed
    /\ listed' = listed \cup {s}
    /\ active' = active \cup {s}
    /\ Supports(s, support)
    /\ missed' = IF wave.pc = "stream" THEN missed \cup {s} ELSE missed
    /\ IF support THEN MainCall(Call(s, "SAMPLE", ConfigFormat))
                  ELSE UNCHANGED <<main, overlap>>
    /\ UNCHANGED <<told, buffer, wave>>

\* valid_speaker, a known speaker: nothing is sent to it.
BeaconKnown(s, support) ==
    /\ main.pc = "none"
    /\ s \in listed
    /\ active' = active \cup {s}
    /\ Supports(s, support)
    /\ UNCHANGED <<listed, told, buffer, main, wave, missed, overlap>>

\* srv_spctrl_read, spctrl_time.
spctrl_time(s) ==
    /\ main.pc = "none"
    /\ s \in listed
    /\ MainCall(Call(s, "TIME", "clock"))
    /\ UNCHANGED <<listed, active, supported, told, buffer, wave, missed>>

MainAdvance ==
    /\ Advance(main)
    /\ main' = After(main)
    /\ UNCHANGED <<listed, active, supported, wave, missed, overlap>>

\* thread_online_detect.
GoOffline(s) ==
    /\ s \in active
    /\ active' = active \ {s}
    /\ UNCHANGED <<listed, supported, told, buffer, main, wave, missed, overlap>>

(***************************************************************************)
(* The control-socket thread.                                              *)
(***************************************************************************)

\* cmd_wave calls server_spctrl_set_format with the format of the file.
server_spctrl_set_format(f) ==
    /\ wave.pc = "idle"
    /\ wave' = [pc |-> "walk", format |-> f, done |-> {}, call |-> NoCall]
    /\ missed' = {}
    /\ overlap' = FALSE
    /\ UNCHANGED <<listed, active, supported, told, buffer, main>>

\* The walk's call for speaker s, which the list yields next.
WalkCall(s, f) ==
    /\ wave.pc = "walk"
    /\ wave.call.pc = "none"
    /\ s \in listed \ wave.done
    /\ wave' = [wave EXCEPT !.done = @ \cup {s},
                            !.call = IF s \in active THEN Call(s, "SAMPLE", f)
                                                     ELSE NoCall]
    /\ overlap' = (overlap \/ (s \in active /\ main.pc # "none"))
    /\ missed' = IF s \in active THEN missed ELSE missed \cup {s}
    /\ UNCHANGED <<listed, active, supported, told, buffer, main>>

\* MUTANT of FormatNext: the configured format is sent, not the stream's.
FormatNextConfig(s) == WalkCall(s, ConfigFormat)

\* server_spctrl_format: a package for the next speaker, if it is online.
FormatNext(s) == WalkCall(s, wave.format)

FormatAdvance ==
    /\ Advance(wave.call)
    /\ wave' = [wave EXCEPT !.call = After(@)]
    /\ missed' = IF wave.call.pc = "send" /\ wave.call.sp \notin active
                 THEN missed \cup {wave.call.sp} ELSE missed
    /\ UNCHANGED <<listed, active, supported, main, overlap>>

\* The list is exhausted and the stream begins.
FormatDone ==
    /\ wave.pc = "walk"
    /\ wave.call.pc = "none"
    /\ listed \subseteq wave.done
    /\ wave' = [wave EXCEPT !.pc = "stream", !.done = {}]
    /\ UNCHANGED <<listed, active, supported, told, buffer, main, missed, overlap>>

StreamEnd ==
    /\ wave.pc = "stream"
    /\ wave' = WaveIdle
    /\ UNCHANGED <<listed, active, supported, told, buffer, main, missed, overlap>>

Next ==
    \/ \E s \in Speakers :
         \/ \E support \in BOOLEAN :
              BeaconNew(s, support) \/ BeaconKnown(s, support)
         \/ spctrl_time(s)
         \/ GoOffline(s)
         \/ FormatNext(s)
    \/ MainAdvance
    \/ \E f \in Formats : server_spctrl_set_format(f)
    \/ FormatAdvance
    \/ FormatDone
    \/ StreamEnd

Spec == Init /\ [][Next]_controlVars

(***************************************************************************)
(* Properties                                                              *)
(***************************************************************************)

\* What server_spctrl_format does achieve: while a stream runs, a speaker was
\* last told its format, on its own channel, if it was online when the walk came
\* to it; be it found during the walk, and told the configured format then, or
\* gone and back since.  The exception is that the event loop used the static
\* buffer at the same time.
FormatReached ==
    wave.pc = "stream" /\ ~overlap
      => \A s \in listed \ missed : told[s] = Body(s, wave.format)

\* "sample rate and bit width are matched automatically" (README): a supported
\* speaker online when the stream's format was sent has been told it.  A package
\* the event loop encodes between an encoding and its sendto goes out instead.
EarlySpeakersMatch ==
    wave.pc = "stream"
      => \A s \in (active \cap supported) \ missed :
            told[s] = Body(s, wave.format)
=============================================================================
