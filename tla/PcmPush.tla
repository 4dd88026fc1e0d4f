------------------------------ MODULE PcmPush ------------------------------
(***************************************************************************)
(* server_sppush_push: a chunk of interleaved samples is taken apart into  *)
(* one package per channel.  A channel's samples are copied, one by one,   *)
(* into the static channel_buffer, which goes out whole; nothing clears it *)
(* between channels or chunks.  Lengths and positions are in samples; a    *)
(* sample is its position in the chunk, which is the place of channel i in *)
(* frame k if it is i + k * chlen.                                         *)
(***************************************************************************)
EXTENDS Integers

CONSTANTS
    MaxChannels,   \* bound on chlist->len
    MaxChunk,      \* bound on the samples of a chunk
    Room           \* samples channel_buffer has room for after its header

ASSUME PcmAssumption ==
    /\ MaxChannels \in Nat \ {0}
    /\ MaxChunk \in Nat
    /\ Room \in Nat \ {0}

Stale == -1   \* what the buffer holds from before this chunk
Positions == 0..(Room - 1)

VARIABLES
    pc,       \* server_sppush_push: not called, copying, sending a package
    chlen,    \* chlist->len
    len,      \* the parameter: samples per channel, by cmd_wave's division
    i,        \* the channel in the list
    src,      \* the next sample to copy
    dst,      \* and its place in the buffer
    buffer    \* channel_buffer

pcmVars == <<pc, chlen, len, i, src, dst, buffer>>

\* Every sample copied is one of the first len of the chunk, into the buffer.
TypeOK ==
    /\ pc \in {"idle", "copy", "send"}
    /\ chlen \in 1..MaxChannels
    /\ len \in 0..Room
    /\ i \in 0..(chlen - 1)
    /\ src \in Nat
    /\ dst \in 0..Room
    /\ buffer \in [Positions -> {Stale} \cup 0..(len - 1)]

Init ==
    /\ pc = "idle"
    /\ chlen = 1
    /\ len = 0
    /\ i = 0
    /\ src = 0
    /\ dst = 0
    /\ buffer = [k \in Positions |-> Stale]

\* cmd_wave hands over a chunk of n samples of c channels and gives its length
\* as n / c; the first assertion keeps that within the buffer.  The chunk
\* before is from now on as stale as any.
Push(n, c) ==
    /\ pc = "idle"
    /\ n \div c \in 1..Room
    /\ pc' = "copy"
    /\ chlen' = c
    /\ len' = n \div c
    /\ i' = 0
    /\ src' = 0
    /\ dst' = 0
    /\ buffer' = [k \in Positions |-> Stale]

\* The body of the loop, that stops at bound and advances src by step.
Copy(bound, step) ==
    /\ pc = "copy"
    /\ src < bound
    /\ buffer' = [buffer EXCEPT ![dst] = src]
    /\ dst' = dst + 1
    /\ src' = src + step
    /\ UNCHANGED <<pc, chlen, len, i>>

\* MUTANT of CopySample: the samples of the channel are taken to lie together.
CopyAdjacent == Copy(len, 1)

\* MUTANT of CopySample: the loop runs one sample too far.
CopyOneMore == Copy(len + 1, chlen)

\* while (src <= end), where end is the last of the first len samples.
CopySample == Copy(len, chlen)

CopyEnd ==
    /\ pc = "copy"
    /\ src >= len
    /\ pc' = "send"
    /\ UNCHANGED <<chlen, len, i, src, dst, buffer>>

\* The package is sent, and the next channel begins at place at.
Send(at) ==
    /\ pc = "send"
    /\ IF i + 1 < chlen
       THEN pc' = "copy" /\ i' = i + 1 /\ src' = i + 1 /\ dst' = at
       ELSE pc' = "idle" /\ UNCHANGED <<i, src, dst>>
    /\ UNCHANGED <<chlen, len, buffer>>

\* MUTANT of SendChannel: dst is not set back to the head of the buffer.
SendChannelOn == Send(dst)

\* server_sppush_push_channel: len samples of the buffer go to every speaker of
\* the channel, if it has any.
SendChannel == Send(0)

Next ==
    \/ \E n \in 1..MaxChunk, c \in 1..MaxChannels : Push(n, c)
    \/ CopySample
    \/ CopyEnd
    \/ SendChannel

Spec == Init /\ [][Next]_pcmVars

(***************************************************************************)
(* Properties of a package that is about to be sent.                       *)
(***************************************************************************)
Own(k) == i + k * chlen
Package == 0..(len - 1)

\* What place k carries when the channels up to h have been copied: the last of
\* their samples at frame k that is among the first len samples of the chunk.
Carried(h, k) ==
    IF h < 0 \/ k * chlen >= len THEN Stale
    ELSE IF h + k * chlen < len THEN h + k * chlen ELSE len - 1

\* The whole loop, BITS_CPY and the two pointers, channel after channel over one
\* buffer, in closed form: what is at each place of the package of each channel.
\* The properties below say what this means for a listener.
PackageExact ==
    pc = "send" => \A k \in Package : buffer[k] = Carried(i, k)

\* Samples of this chunk and of another channel that the package carries.
Strays == {k \in Package : buffer[k] # Stale /\ buffer[k] # Own(k)}

\* The buffer is not cleared between channels, so a later channel's package
\* may end with a sample an earlier one left there: one at most, and none if
\* len holds whole frames, which is what the second assertion demands.
AtMostOneStray ==
    pc = "send" =>
        /\ \A k, l \in Strays : k = l
        /\ \A m \in 0..Room : len = m * chlen => Strays = {}

\* end is computed from the length of one channel, though src runs over all of
\* them: with several channels only the first len / chlen frames of a chunk are
\* ever sent, and the rest of each package is from before the chunk.
OnlyFirstFrames ==
    pc = "send" => \A k \in Package : buffer[k] # Stale => k * chlen < len
=============================================================================
