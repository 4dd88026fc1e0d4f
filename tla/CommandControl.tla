--------------------------- MODULE CommandControl ---------------------------
(***************************************************************************)
(* The control-socket thread: command_control.c accepts a client, reads    *)
(* one command and runs it to the end, command/speakers.c and              *)
(* command/pushwave.c are the commands.  Only what they do to the speaker  *)
(* table and to the descriptors is here; the audio stream itself is not.   *)
(***************************************************************************)
EXTENDS Pusher

VARIABLE ctl   \* thread_control_socket

CtlAccepting == [pc |-> "accept", sp |-> Nobody, done |-> {},
                 counted |-> {}, copied |-> {}, call |-> NoCall]
CtlStreaming == [CtlAccepting EXCEPT !.pc = "stream"]

CommandTypeOK ==
    /\ ctl \in [pc : {"accept", "copy", "stream", "push", "test", "reload",
                      "close"},
                sp : Speakers \cup {Nobody}, done : SUBSET Speakers,
                counted : SUBSET Speakers, copied : SUBSET Speakers,
                call : DisconnectCalls]
    /\ ctl.pc \in {"test", "reload", "close"} => ctl.sp \in Speakers

CommandInit == ctl = CtlAccepting

(***************************************************************************)
(* thread_control_socket and call_command.  Nothing closes the connection  *)
(* after the command, or when it is empty or not understood, so each       *)
(* client leaves a descriptor behind; with none left accept() fails and    *)
(* the thread retries for ever.                                            *)
(***************************************************************************)

\* accept, recv and the dispatch.  cmd_speakers counts the speakers in the
\* list here, once, sizes its array with it and is done when there are none.
AcceptCommand ==
    /\ ctl.pc = "accept"
    /\ \E f \in Fds : IsNextFd(f) /\ kern' = [kern EXCEPT ![f] = "client"]
    /\ \/ UNCHANGED ctl
       \/ ctl' = CtlStreaming
       \/ /\ listed # {}
          /\ ctl' = [CtlAccepting EXCEPT !.pc = "copy",
                                         !.counted = listed]
    /\ UNCHANGED <<listed, state, supported, timeout, fd>>

(***************************************************************************)
(* cmd_speakers: the list is walked without a lock.  idx, the number of    *)
(* array entries filled, is the size of copied; count that of counted.     *)
(***************************************************************************)
CopyStep(s, wanted) ==
    /\ ctl.pc = "copy"
    /\ s \in listed \ ctl.done
    /\ ctl' = [ctl EXCEPT !.done = @ \cup {s},
                          !.copied = IF wanted THEN @ \cup {s} ELSE @]
    /\ UNCHANGED tableVars

\* MUTANT of CopySpeaker: only speakers that are online are copied.
CopyOnline(s) == CopyStep(s, state[s] = "online")

CopySpeaker(s) == CopyStep(s, state[s] # "none")

CopyDone ==
    /\ ctl.pc = "copy"
    /\ listed \subseteq ctl.done
    /\ ctl' = CtlAccepting
    /\ UNCHANGED tableVars

(***************************************************************************)
(* cmd_wave: any number of chunks, each handed to every speaker of the     *)
(* line by server_sppush_push, then the end of the client's stream.        *)
(***************************************************************************)

PushChunk ==
    /\ ctl.pc = "stream"
    /\ ctl' = [ctl EXCEPT !.pc = "push"]
    /\ UNCHANGED tableVars

\* pusher_sendto_speaker for a speaker it sends to: nothing changes but the
\* walk, whatever sendto returns (its result is stored in a size_t and
\* compared with "< 0").
PushSent(s) ==
    /\ ctl.pc = "push"
    /\ s \in listed \ ctl.done
    /\ ~SendRefused(s)
    /\ ctl' = [ctl EXCEPT !.done = @ \cup {s}]
    /\ UNCHANGED tableVars

\* ... and for one it refuses: an unreachable speaker is checked again, and
\* in both cases its socket is closed in the steps after.
PushRefused(s) ==
    /\ ctl.pc = "push"
    /\ s \in listed \ ctl.done
    /\ SendRefused(s)
    /\ IF Unreachable(s) THEN speaker_recheck_online(s)
                         ELSE UNCHANGED <<state, timeout>>
    /\ ctl' = [ctl EXCEPT !.pc = "test", !.sp = s, !.done = @ \cup {s}]
    /\ UNCHANGED <<listed, supported, fd, kern>>

Pushing == [ctl EXCEPT !.pc = "push", !.sp = Nobody, !.call = NoCall]

\* server_sppush_disconnect, as the online thread calls it.
PushTest ==
    /\ ctl.pc = "test"
    /\ ctl' = IF Spared(ctl.sp) THEN Pushing
              ELSE [ctl EXCEPT !.pc = "reload", !.call.tested = fd[ctl.sp]]
    /\ UNCHANGED tableVars

PushReload ==
    /\ ctl.pc = "reload"
    /\ ctl' = [ctl EXCEPT !.pc = "close", !.call.num = fd[ctl.sp]]
    /\ UNCHANGED tableVars

PushClose ==
    /\ ctl.pc = "close"
    /\ CloseNumber(ctl.call.num)
    /\ ctl' = Pushing
    /\ UNCHANGED <<listed, state, supported, timeout, fd>>

PushChunkDone ==
    /\ ctl.pc = "push"
    /\ listed \subseteq ctl.done
    /\ ctl' = CtlStreaming
    /\ UNCHANGED tableVars

StreamEnd ==
    /\ ctl.pc = "stream"
    /\ ctl' = CtlAccepting
    /\ UNCHANGED tableVars

\* The steps the thread takes by itself: it waits for no client.
CommandStep ==
    \/ \E s \in Speakers : CopySpeaker(s) \/ PushSent(s) \/ PushRefused(s)
    \/ CopyDone
    \/ PushTest
    \/ PushReload
    \/ PushClose
    \/ PushChunkDone

CommandNext == AcceptCommand \/ PushChunk \/ StreamEnd \/ CommandStep
=============================================================================
