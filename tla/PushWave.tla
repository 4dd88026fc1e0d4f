------------------------------ MODULE PushWave ------------------------------
(***************************************************************************)
(* One audio file pushed through the control socket: pipe_init of          *)
(* client/pipe.c against cmd_wave of command/pushwave.c.  The stream is a  *)
(* number of bytes in the socket each way; what the bytes are does not     *)
(* matter here.  The client's first message (command, WAV header and the   *)
(* first audio bytes) has been received: the model starts with cmd_wave's  *)
(* receive loop.                                                           *)
(***************************************************************************)
EXTENDS Naturals

CONSTANTS
    Chunk,      \* bytes of a chunk: get_chunksize, the same on both sides
    MaxFirst,   \* bound on the audio bytes of the first message
    MaxChunks   \* bound on the chunks the client's loop reads

ASSUME PushAssumption ==
    /\ Chunk \in Nat \ {0}
    /\ MaxFirst \in Nat
    /\ MaxChunks \in Nat

VARIABLES
    chunks,       \* how often the client's fread returns something
    rest,         \* bytes of the first message that fill no chunk: "offset"
    client,       \* pipe_init
    sent,         \* chunks the client has sent
    server,       \* cmd_wave
    room,         \* what the next recv may return at most: chunk - offset
    queue,        \* bytes in the socket, client to server
    acks,         \* acknowledgements in the socket, server to client
    short,        \* ghost: receives that did not fill the chunk they were for
    interrupted   \* ghost: the client was stopped by a signal

pushVars == <<chunks, rest, client, sent, server, room, queue, acks, short,
              interrupted>>

TypeOK ==
    /\ chunks \in 0..MaxChunks
    /\ rest \in 0..(Chunk - 1)
    /\ client \in {"read", "ack", "last", "closed"}
    /\ sent \in 0..chunks
    /\ server \in {"recv", "push", "done", "killed"}
    /\ room \in 1..Chunk
    /\ queue \in 0..(2 * Chunk)
    /\ acks \in Nat
    /\ short \in Nat
    /\ interrupted \in BOOLEAN

\* The audio bytes pipe_init sends with the command: what its first fread
\* leaves of the buffer once the file's header is taken off.
FirstLengths == 0..MaxFirst

\* cmd_wave pushes the whole chunks of the first message and keeps the rest at
\* the head of its buffer.
Init ==
    /\ chunks \in 0..MaxChunks
    /\ \E first \in FirstLengths : rest = first % Chunk
    /\ client = "read"
    /\ sent = 0
    /\ server = "recv"
    /\ room = Chunk - rest
    /\ queue = 0
    /\ acks = 0
    /\ short = 0
    /\ interrupted = FALSE

(***************************************************************************)
(* pipe_init                                                               *)
(***************************************************************************)

\* Whatever fread returned, a whole chunk is sent.
ClientSend ==
    /\ client = "read"
    /\ sent < chunks
    /\ sent' = sent + 1
    /\ queue' = queue + Chunk
    /\ client' = "ack"
    /\ UNCHANGED <<chunks, rest, server, room, acks, short, interrupted>>

ClientAck ==
    /\ client = "ack"
    /\ acks > 0
    /\ acks' = acks - 1
    /\ client' = "read"
    /\ UNCHANGED <<chunks, rest, sent, server, room, queue, short, interrupted>>

\* MUTANT of ClientEof: nothing more is waited for.
ClientEofClose ==
    /\ client = "read"
    /\ sent = chunks
    /\ client' = "closed"
    /\ UNCHANGED <<chunks, rest, sent, server, room, queue, acks, short,
                   interrupted>>

\* The end of the file: one more acknowledgement is waited for.
ClientEof ==
    /\ client = "read"
    /\ sent = chunks
    /\ client' = "last"
    /\ UNCHANGED <<chunks, rest, sent, server, room, queue, acks, short,
                   interrupted>>

ClientClose ==
    /\ client = "last"
    /\ acks > 0
    /\ acks' = acks - 1
    /\ client' = "closed"
    /\ UNCHANGED <<chunks, rest, sent, server, room, queue, short, interrupted>>

\* client.c, signal_handle: the socket is closed wherever the client is.
Interrupt ==
    /\ client # "closed"
    /\ client' = "closed"
    /\ interrupted' = TRUE
    /\ UNCHANGED <<chunks, rest, sent, server, room, queue, acks, short>>

(***************************************************************************)
(* cmd_wave                                                                *)
(***************************************************************************)

Least(a, b) == IF a <= b THEN a ELSE b

\* MUTANT of ServerRecv: recv is taken to return all it was asked for.
ServerRecvAll ==
    /\ server = "recv"
    /\ queue > 0
    /\ queue' = queue - room
    /\ short' = IF queue < room THEN short + 1 ELSE short
    /\ room' = Chunk
    /\ server' = "push"
    /\ UNCHANGED <<chunks, rest, client, sent, acks, interrupted>>

\* MUTANT of ServerRecv: offset is not reset.
ServerRecvKeepOffset ==
    /\ server = "recv"
    /\ queue > 0
    /\ queue' = queue - Least(queue, room)
    /\ short' = IF queue < room THEN short + 1 ELSE short
    /\ server' = "push"
    /\ UNCHANGED <<chunks, rest, client, sent, room, acks, interrupted>>

\* recv returns what there is, up to room; the chunk is pushed whether or not
\* that filled it, and the next recv is for a whole chunk.
ServerRecv ==
    /\ server = "recv"
    /\ queue > 0
    /\ queue' = queue - Least(queue, room)
    /\ short' = IF queue < room THEN short + 1 ELSE short
    /\ room' = Chunk
    /\ server' = "push"
    /\ UNCHANGED <<chunks, rest, client, sent, acks, interrupted>>

\* The client has gone and its bytes are used up.  If it left acknowledgements
\* unread, recv fails, and -1 in a uint32_t counts as bytes received.
ServerRecvEnd ==
    /\ server = "recv"
    /\ queue = 0
    /\ client = "closed"
    /\ server' = IF acks = 0 THEN "done" ELSE "push"
    /\ UNCHANGED <<chunks, rest, client, sent, room, queue, acks, short,
                   interrupted>>

\* MUTANT of ServerAck: only a full chunk is acknowledged.
ServerAckFull ==
    /\ server = "push"
    /\ client # "closed"
    /\ server' = "recv"
    /\ acks' = IF short > 0 THEN acks ELSE acks + 1
    /\ UNCHANGED <<chunks, rest, client, sent, room, queue, short, interrupted>>

\* MUTANT of ServerAck: SIGPIPE is ignored, and so is what send returns.
ServerAckAnyway ==
    /\ server = "push"
    /\ server' = "recv"
    /\ acks' = acks + 1
    /\ UNCHANGED <<chunks, rest, client, sent, room, queue, short, interrupted>>

\* server_sppush_push, then the acknowledgement.
ServerAck ==
    /\ server = "push"
    /\ client # "closed"
    /\ server' = "recv"
    /\ acks' = acks + 1
    /\ UNCHANGED <<chunks, rest, client, sent, room, queue, short, interrupted>>

\* No one handles the SIGPIPE of a send to a client that has gone: the whole
\* server dies of it.
ServerBrokenPipe ==
    /\ server = "push"
    /\ client = "closed"
    /\ server' = "killed"
    /\ UNCHANGED <<chunks, rest, client, sent, room, queue, acks, short,
                   interrupted>>

ClientStep == ClientSend \/ ClientAck \/ ClientEof \/ ClientClose
ServerStep == ServerRecv \/ ServerRecvEnd \/ ServerAck \/ ServerBrokenPipe

Next == ClientStep \/ ServerStep \/ Interrupt

Spec == Init /\ [][Next]_pushVars

\* Both processes run; nobody has to press ^C.
FairSpec == Spec /\ WF_pushVars(ClientStep) /\ WF_pushVars(ServerStep)

(***************************************************************************)
(* Properties                                                              *)
(***************************************************************************)

\* cmd_wave pushes a chunk with stale bytes at most once in a stream, and not
\* at all when the first message ends on a chunk boundary: after the one short
\* receive the stream is aligned, however client and server interleave.
AtMostOneShortRead == short <= 1 /\ (rest = 0 => short = 0)

\* A client that is left to run never kills the server: it reads exactly the
\* acknowledgements cmd_wave sends, so none is sent after it has closed.
BrokenPipeOnlyByInterrupt == server = "killed" => interrupted

\* The acknowledgement pipe_init waits for at the end of the file exists only
\* if the first message left a rest for a further chunk to complete.
Completes == rest > 0 /\ chunks > 0
HangsWithoutRest == ~Completes /\ ~interrupted => client # "closed"

\* In every other case pipe_init and cmd_wave never both wait: if the client
\* waits for an acknowledgement, one is in the socket, or the server has bytes
\* to receive or is about to send one.
NoMutualWait ==
    client = "ack" \/ (client = "last" /\ Completes)
      => server = "push" \/ acks > 0 \/ queue > 0

\* What is left to do: bytes to send and receive, chunks to read, and the last
\* steps of each side.  A closed client leaves the server at most one more
\* receive that is none (ServerRecvEnd) and one send.
ClientLeft == [read |-> 5, ack |-> 6, last |-> 4, closed |-> 0][client]
ServerLeft ==
    IF client = "closed"
      THEN [recv |-> 2, push |-> 1, done |-> 0, killed |-> 0][server]
      ELSE IF server = "push" THEN 1 ELSE 0
Left == 2 * ((chunks - sent) * Chunk + queue) + 3 * (chunks - sent)
          + ClientLeft + ServerLeft

\* Client and server never keep each other busy for nothing: each receive, each
\* acknowledgement and each failing recv of cmd_wave, and each step of
\* pipe_init, brings the end of the stream nearer.
WindsDown == [][Left' \in 0..(Left - 1)]_pushVars

\* So the stream ends.
StreamEnds == Completes => <>(server = "done" \/ interrupted)
=============================================================================
