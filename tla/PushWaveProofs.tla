--------------------------- MODULE PushWaveProofs ---------------------------
(***************************************************************************)
(* Proofs about one pushed file, for every chunk size, every length of the *)
(* file and every length of its first message.                             *)
(***************************************************************************)
EXTENDS PushWave, Integers, TLAPS

\* Acknowledgements under way: sent, or owed for what has been received.
Owed == IF server = "push" THEN acks + 1 ELSE acks
\* Chunks the client has sent and not had acknowledged.
Open == IF client = "ack" THEN 1 ELSE 0

(***************************************************************************)
(* The bytes in the socket follow from the acknowledgements under way.     *)
(* While client and server run, a stream is in one of four stages: without *)
(* a rest all receives are whole chunks; with one, nothing is received     *)
(* yet, then each receive leaves the rest behind, until one finds only the *)
(* rest and the stream is aligned, an acknowledgement ahead.               *)
(***************************************************************************)
NoRest ==
    /\ rest = 0 /\ room = Chunk /\ short = 0
    /\ \/ Open = 1 /\ Owed = 0 /\ queue = Chunk
       \/ Open = Owed /\ queue = 0
Fresh ==
    /\ rest > 0 /\ room = Chunk - rest /\ short = 0 /\ Owed = 0
    /\ \/ Open = 1 /\ queue = Chunk /\ sent > 0
       \/ Open = 0 /\ queue = 0 /\ sent = 0
Behind ==
    /\ rest > 0 /\ room = Chunk /\ short = 0 /\ sent > 0
    /\ \/ Open = 1 /\ Owed = 0 /\ queue = Chunk + rest
       \/ Open = Owed /\ queue = rest
Aligned ==
    /\ rest > 0 /\ room = Chunk /\ short = 1 /\ sent > 0
    /\ \/ Open = 1 /\ Owed = 0 /\ queue = 2 * Chunk
       \/ Open = Owed /\ queue = Chunk
       \/ Owed = Open + 1 /\ queue = 0

Running == NoRest \/ Fresh \/ Behind \/ Aligned

\* The client has read its last acknowledgement.
Finished ==
    /\ rest > 0 /\ sent > 0 /\ short = 1
    /\ server \in {"recv", "done"} /\ acks = 0 /\ queue = 0

\* The client was stopped: the server receives at most once more.
Stopped ==
    /\ client = "closed"
    /\ short <= 1 /\ (rest = 0 => short = 0)
    /\ server = "recv" /\ (rest = 0 \/ short = 1) => queue = 0 \/ queue >= room

StreamInv ==
    /\ interrupted => Stopped
    /\ ~interrupted /\ client # "closed"
         => Running /\ server \in {"recv", "push"}
    /\ ~interrupted /\ client = "closed" => Finished
    /\ client = "last" => sent = chunks

USE PushAssumption

(***************************************************************************)
(* The types: no more than two chunks are ever in the socket.  Needs the   *)
(* stages above, so both are shown together.                               *)
(***************************************************************************)
LEMMA StreamInvariant == Spec => [](TypeOK /\ StreamInv)
<1>1. Init => TypeOK /\ StreamInv
  <2> SUFFICES ASSUME Init PROVE TypeOK /\ StreamInv
    OBVIOUS
  <2>1. rest \in 0..(Chunk - 1)
    <3> PICK first \in 0..MaxFirst : rest = first % Chunk
      BY DEF Init, FirstLengths
    <3> QED
      OBVIOUS
  <2>2. /\ chunks \in 0..MaxChunks /\ client = "read" /\ sent = 0
        /\ server = "recv" /\ room = Chunk - rest /\ queue = 0 /\ acks = 0
        /\ short = 0 /\ interrupted = FALSE
    BY Zenon DEF Init
  <2>3. TypeOK
    <3>1. room \in 1..Chunk /\ queue \in 0..(2 * Chunk) /\ sent \in 0..chunks
      BY <2>1, <2>2
    <3> QED
      BY <2>1, <2>2, <3>1 DEF TypeOK
  <2>4. Running
    BY <2>1, <2>2 DEF Running, NoRest, Fresh, Open, Owed
  <2> QED
    BY <2>2, <2>3, <2>4 DEF StreamInv
<1>2. TypeOK /\ StreamInv /\ [Next]_pushVars => (TypeOK /\ StreamInv)'
  <2> SUFFICES ASSUME TypeOK, StreamInv, [Next]_pushVars
               PROVE  (TypeOK /\ StreamInv)'
    OBVIOUS
  <2> USE DEF TypeOK, StreamInv, Running, NoRest, Fresh, Behind, Aligned,
              Finished, Stopped, Open, Owed
  <2>1. CASE ClientSend
    BY <2>1 DEF ClientSend
  <2>2. CASE ClientAck
    BY <2>2 DEF ClientAck
  <2>3. CASE ClientEof
    BY <2>3 DEF ClientEof
  <2>4. CASE ClientClose
    BY <2>4 DEF ClientClose
  <2>5. CASE Interrupt
    BY <2>5 DEF Interrupt
  <2>6. CASE ServerRecv
    <3>1. CASE queue < room
      <4>1. queue' = 0 /\ short' = short + 1
        BY <2>6, <3>1 DEF ServerRecv, Least
      <4> QED
        BY <2>6, <3>1, <4>1 DEF ServerRecv
    <3>2. CASE queue >= room
      <4>1. queue' = queue - room /\ short' = short
        BY <2>6, <3>2 DEF ServerRecv, Least
      <4>2. server = "recv" /\ server' = "push" /\ room' = Chunk /\ queue > 0
        BY <2>6 DEF ServerRecv
      <4>3. UNCHANGED <<chunks, rest, client, sent, acks, interrupted>>
        BY <2>6 DEF ServerRecv
      <4>4. TypeOK'
        BY <4>1, <4>2, <4>3, <3>2
      <4>5. CASE interrupted
        <5>1. Stopped'
          BY <4>1, <4>2, <4>3, <4>5
        <5>2. interrupted' /\ client' = "closed"
          BY <4>3, <4>5
        <5> HIDE DEF Running, Finished, Stopped
        <5> QED
          BY <4>4, <5>1, <5>2
      <4>6. CASE ~interrupted /\ client = "closed"
        BY <4>2, <4>6
      <4>7. CASE ~interrupted /\ client # "closed"
        <5>1. CASE NoRest
          BY <5>1, <4>1, <4>2, <4>3, <4>7, <3>2
        <5>2. CASE Fresh
          BY <5>2, <4>1, <4>2, <4>3, <4>7, <3>2
        <5>3. CASE Behind
          BY <5>3, <4>1, <4>2, <4>3, <4>7, <3>2
        <5>4. CASE Aligned
          BY <5>4, <4>1, <4>2, <4>3, <4>7, <3>2
        <5> QED
          BY <5>1, <5>2, <5>3, <5>4, <4>7
      <4> QED
        BY <4>4, <4>5, <4>6, <4>7
    <3> QED
      BY <3>1, <3>2
  <2>7. CASE ServerRecvEnd
    BY <2>7 DEF ServerRecvEnd
  <2>8. CASE ServerAck
    BY <2>8 DEF ServerAck
  <2>9. CASE ServerBrokenPipe
    BY <2>9 DEF ServerBrokenPipe
  <2>10. CASE UNCHANGED pushVars
    BY <2>10 DEF pushVars
  <2> QED
    BY <2>1, <2>2, <2>3, <2>4, <2>5, <2>6, <2>7, <2>8, <2>9, <2>10
    DEF Next, ClientStep, ServerStep
<1> QED
  BY <1>1, <1>2, PTL DEF Spec

\* No more than two chunks are ever in the socket, and every counter keeps its
\* range, whatever client and server interleave (pipe_init, cmd_wave).
THEOREM TypeCorrect == Spec => []TypeOK
BY StreamInvariant, PTL

\* At most one chunk of a stream is pushed with stale bytes (cmd_wave).
THEOREM StaleAtMostOnce == Spec => []AtMostOneShortRead
<1>1. TypeOK /\ StreamInv => AtMostOneShortRead
  BY DEF TypeOK, StreamInv, Running, NoRest, Fresh, Behind, Aligned, Finished,
         Stopped, AtMostOneShortRead
<1> QED
  BY <1>1, StreamInvariant, PTL

\* Only a client that is interrupted kills the server (cmd_wave's send).
THEOREM OnlyInterruptKills == Spec => []BrokenPipeOnlyByInterrupt
<1>1. TypeOK /\ StreamInv => BrokenPipeOnlyByInterrupt
  BY DEF TypeOK, StreamInv, Finished, BrokenPipeOnlyByInterrupt
<1> QED
  BY <1>1, StreamInvariant, PTL

\* Without a rest, or with a file the first message holds, pipe_init never
\* returns from its last recv.
THEOREM ClientHangsWithoutRest == Spec => []HangsWithoutRest
<1>1. TypeOK /\ StreamInv => HangsWithoutRest
  BY DEF TypeOK, StreamInv, Finished, HangsWithoutRest, Completes
<1> QED
  BY <1>1, StreamInvariant, PTL

\* Wherever a stream can complete, client and server are never both waiting
\* (pipe_init's recv, cmd_wave's recv): the stages leave bytes in the socket
\* whenever no acknowledgement is under way.
THEOREM NeverBothWait == Spec => []NoMutualWait
<1>1. TypeOK /\ StreamInv => NoMutualWait
  BY DEF TypeOK, StreamInv, Running, NoRest, Fresh, Behind, Aligned, Finished,
         Stopped, Open, Owed, NoMutualWait, Completes
<1> QED
  BY <1>1, StreamInvariant, PTL

\* The bytes of the chunks that are still to be sent.
Unsent == (chunks - sent) * Chunk

LEMMA OneChunkLess ==
    ASSUME NEW n \in Nat, n > 0
    PROVE  /\ n * Chunk \in Nat
           /\ (n - 1) * Chunk \in Nat
           /\ n * Chunk = (n - 1) * Chunk + Chunk
OBVIOUS

\* What the ranking is made of, the product kept apart.
LeftParts ==
    /\ Unsent \in Nat
    /\ ClientLeft \in Nat
    /\ ServerLeft \in {0, 1, 2}
    /\ Left = 2 * (Unsent + queue) + 3 * (chunks - sent)
                + ClientLeft + ServerLeft

LEMMA LeftInParts == TypeOK => LeftParts
<1> SUFFICES ASSUME TypeOK PROVE LeftParts
  OBVIOUS
<1>1. Unsent \in Nat
  <2>1. chunks - sent \in Nat
    BY DEF TypeOK
  <2> QED
    BY <2>1 DEF Unsent
<1>2. ClientLeft \in Nat
  BY DEF TypeOK, ClientLeft
<1>3. ServerLeft \in {0, 1, 2}
  BY DEF TypeOK, ServerLeft
<1>4. Left = 2 * (Unsent + queue) + 3 * (chunks - sent)
               + ClientLeft + ServerLeft
  BY DEF Left, Unsent
<1> QED
  BY <1>1, <1>2, <1>3, <1>4 DEF LeftParts

\* Every step of pipe_init and of cmd_wave brings the end of the stream nearer,
\* for every chunk size and length, interrupted or not: with NeverBothWait,
\* what StreamEnds needs beside fairness.
THEOREM AlwaysWindsDown == Spec => WindsDown
<1>1. TypeOK /\ TypeOK' /\ [Next]_pushVars => [Left' \in 0..(Left - 1)]_pushVars
  <2> SUFFICES ASSUME TypeOK, TypeOK', Next
               PROVE  Left' \in 0..(Left - 1)
    BY DEF pushVars
  <2>10. /\ chunks \in Nat /\ sent \in Nat /\ sent <= chunks
         /\ queue \in Nat /\ room \in Nat /\ room > 0
         /\ Chunk \in Nat /\ Chunk > 0
    BY DEF TypeOK
  <2>11. /\ Unsent \in Nat
         /\ ClientLeft \in Nat /\ ServerLeft \in Nat /\ ServerLeft <= 2
         /\ Left = 2 * (Unsent + queue) + 3 * (chunks - sent)
                     + ClientLeft + ServerLeft
    BY LeftInParts DEF LeftParts
  <2>12. /\ ServerLeft' = 0 \/ ServerLeft' = 1 \/ ServerLeft' = 2
         /\ Left' = 2 * (Unsent' + queue') + 3 * (chunks' - sent')
                      + ClientLeft' + ServerLeft'
    <3>1. (TypeOK => LeftParts)'
      BY LeftInParts, PTL
    <3> QED
      BY <3>1 DEF LeftParts
  \* The bytes unsent change only with sent.
  <2>13. chunks' = chunks /\ sent' = sent => Unsent' = Unsent
    BY DEF Unsent
  <2>1. CASE ClientSend
    <3>1. chunks' = chunks /\ sent' = sent + 1 /\ sent < chunks
      BY <2>1 DEF ClientSend
    <3>2. Unsent' = Unsent - Chunk /\ Unsent - Chunk \in Nat
      <4>1. chunks - sent \in Nat /\ chunks - sent > 0
        BY <3>1, <2>10
      <4>2. chunks' - sent' = (chunks - sent) - 1
        BY <3>1, <2>10
      <4>3. Unsent' = ((chunks - sent) - 1) * Chunk
        BY <4>2 DEF Unsent
      <4> HIDE DEF Unsent
      <4>4. /\ (chunks - sent) * Chunk = ((chunks - sent) - 1) * Chunk + Chunk
            /\ ((chunks - sent) - 1) * Chunk \in Nat
        BY <4>1, OneChunkLess
      <4>5. Unsent = (chunks - sent) * Chunk
        BY DEF Unsent
      <4> QED
        BY <4>3, <4>4, <4>5, <2>10
    <3>3. queue' = queue + Chunk
      BY <2>1 DEF ClientSend
    <3>4. ClientLeft = 5 /\ ClientLeft' = 6 /\ ServerLeft' = ServerLeft
      BY <2>1 DEF ClientSend, ClientLeft, ServerLeft
    <3> QED
      BY <3>1, <3>2, <3>3, <3>4, <2>10, <2>11, <2>12
  <2>2. CASE ClientAck
    <3>1. /\ ClientLeft = 6 /\ ClientLeft' = 5 /\ ServerLeft' = ServerLeft
          /\ chunks' = chunks /\ sent' = sent /\ queue' = queue
      BY <2>2 DEF ClientAck, ClientLeft, ServerLeft
    <3> QED
      BY <3>1, <2>10, <2>11, <2>12, <2>13
  <2>3. CASE ClientEof
    <3>1. /\ ClientLeft = 5 /\ ClientLeft' = 4 /\ ServerLeft' = ServerLeft
          /\ chunks' = chunks /\ sent' = sent /\ queue' = queue
      BY <2>3 DEF ClientEof, ClientLeft, ServerLeft
    <3> QED
      BY <3>1, <2>10, <2>11, <2>12, <2>13
  \* A client that closes has four steps less; the server gains two at most.
  <2>4. CASE ClientClose \/ Interrupt
    <3>1. /\ ClientLeft >= 4 /\ ClientLeft' = 0
          /\ chunks' = chunks /\ sent' = sent /\ queue' = queue
      BY <2>4 DEF ClientClose, Interrupt, ClientLeft, TypeOK
    <3> QED
      BY <3>1, <2>10, <2>11, <2>12, <2>13
  <2>6. CASE ServerRecv
    <3>1. PICK n \in Nat : n > 0 /\ n <= queue /\ queue' = queue - n
      <4>1. /\ Least(queue, room) \in Nat /\ Least(queue, room) > 0
            /\ Least(queue, room) <= queue
        BY <2>6, <2>10 DEF ServerRecv, Least
      <4> QED
        BY <4>1, <2>6 DEF ServerRecv
    <3>2. /\ \/ ServerLeft' = ServerLeft + 1
             \/ ServerLeft' = ServerLeft - 1
          /\ ClientLeft' = ClientLeft /\ chunks' = chunks /\ sent' = sent
      BY <2>6 DEF ServerRecv, ServerLeft, ClientLeft
    <3> QED
      BY <3>1, <3>2, <2>10, <2>11, <2>12, <2>13
  <2>7. CASE ServerRecvEnd \/ ServerAck \/ ServerBrokenPipe
    <3>1. /\ \/ ServerLeft' = ServerLeft - 1
             \/ ServerLeft' = ServerLeft - 2
          /\ ClientLeft' = ClientLeft
          /\ chunks' = chunks /\ sent' = sent /\ queue' = queue
      BY <2>7
      DEF ServerRecvEnd, ServerAck, ServerBrokenPipe, ServerLeft, ClientLeft
    <3> QED
      BY <3>1, <2>10, <2>11, <2>12, <2>13
  <2> QED
    BY <2>1, <2>2, <2>3, <2>4, <2>6, <2>7
    DEF Next, ClientStep, ServerStep
<1> QED
  BY <1>1, TypeCorrect, PTL DEF Spec, WindsDown
=============================================================================
