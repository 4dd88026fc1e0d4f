-------------------------------- MODULE Http --------------------------------
(***************************************************************************)
(* server_http.c on libmicrohttpd: one internal thread accepts             *)
(* connections and runs ahc_echo for each request.  It shares nothing with *)
(* the other threads but the descriptor table; it remembers descriptor     *)
(* numbers, of the connection and of the file it serves, and closes them   *)
(* by number.  What a request asks for is left out: whether it is served   *)
(* from a file or from the built-in page is any of the outcomes.           *)
(***************************************************************************)
EXTENDS SpeakerTable

CONSTANT Conns   \* connections libmicrohttpd keeps at a time; bounds the model

VARIABLE http    \* per connection: the thread's progress, its two numbers

NoFile == -1
HttpClosed == [pc |-> "closed", conn |-> NoFile, file |-> NoFile]

HttpTypeOK ==
    /\ http \in [Conns -> [pc : {"closed", "request", "stat", "discard",
                                 "send", "close", "aborted"},
                           conn : {NoFile} \cup Fds, file : {NoFile} \cup Fds]]
    /\ \A c \in Conns :
         /\ http[c].pc \in {"request", "close"} => http[c].conn \in Fds
         /\ http[c].pc \in {"stat", "discard", "send"} => http[c].file \in Fds

HttpInit == http = [c \in Conns |-> HttpClosed]

\* abort() ends the process with all its threads.
Aborted == \E c \in Conns : http[c].pc = "aborted"

\* A call of ahc_echo is not interrupted by another connection's.
ThreadFree == \A c \in Conns : http[c].pc \notin {"stat", "discard"}

HttpAccept(c) ==
    /\ ThreadFree
    /\ http[c].pc = "closed"
    /\ \E f \in Fds :
         /\ IsNextFd(f)
         /\ kern' = [kern EXCEPT ![f] = "http"]
         /\ http' = [http EXCEPT ![c] = [pc |-> "request", conn |-> f,
                                         file |-> NoFile]]
    /\ UNCHANGED <<listed, state, supported, timeout, fd>>

\* MUTANT of HttpOpen: a failed open is not told from a good one.
HttpOpenUnchecked(c) ==
    /\ ThreadFree
    /\ http[c].pc = "request"
    /\ \/ /\ FreeFds = {}
          /\ http' = [http EXCEPT ![c].pc = "send"]
          /\ UNCHANGED kern
       \/ \E f \in Fds :
            /\ IsNextFd(f)
            /\ kern' = [kern EXCEPT ![f] = "file"]
            /\ http' = [http EXCEPT ![c].file = f, ![c].pc = "stat"]
    /\ UNCHANGED <<listed, state, supported, timeout, fd>>

\* A request whose path opens.  One that opens nothing, because of "./" or
\* because open fails, is answered with the page and changes nothing here.
HttpOpen(c) ==
    /\ ThreadFree
    /\ http[c].pc = "request"
    /\ \E f \in Fds :
         /\ IsNextFd(f)
         /\ kern' = [kern EXCEPT ![f] = "file"]
         /\ http' = [http EXCEPT ![c].file = f, ![c].pc = "stat"]
    /\ UNCHANGED <<listed, state, supported, timeout, fd>>

\* fstat, and the response made from the number.  By now it may denote nothing
\* or another thread's socket; a file may be a directory, and libmicrohttpd
\* may have no memory for a response.  Only numbers above 0 are examined:
\* number 0, free once it was closed for a speaker, goes on as it is.
HttpStat(c) ==
    /\ http[c].pc = "stat"
    /\ \/ /\ http[c].file = 0 \/ kern[http[c].file] = "file"
          /\ http' = [http EXCEPT ![c].pc = "send"]
       \/ http' = [http EXCEPT ![c].pc = "discard"]
    /\ UNCHANGED tableVars

\* if (0 != close(fd)) abort();  then the page, and the connection is kept for
\* another request, or MHD_NO, and it is closed.
HttpDiscard(c) ==
    /\ http[c].pc = "discard"
    /\ IF kern[http[c].file] = "free"
       THEN http' = [http EXCEPT ![c].pc = "aborted"]
       ELSE \E next \in {"request", "close"} :
              http' = [http EXCEPT ![c].pc = next, ![c].file = NoFile]
    /\ CloseNumber(http[c].file)
    /\ UNCHANGED <<listed, state, supported, timeout, fd>>

\* The response is sent, or its client gone: libmicrohttpd closes its file.
HttpSent(c) ==
    /\ ThreadFree
    /\ http[c].pc = "send"
    /\ CloseNumber(http[c].file)
    /\ http' = [http EXCEPT ![c].pc = "request", ![c].file = NoFile]
    /\ UNCHANGED <<listed, state, supported, timeout, fd>>

\* The connection ends: its client goes, or ahc_echo returned MHD_NO, for a
\* method other than GET and HEAD or for a body to begin with.
HttpClose(c) ==
    /\ ThreadFree
    /\ http[c].pc \in {"request", "close"}
    /\ CloseNumber(http[c].conn)
    /\ http' = [http EXCEPT ![c] = HttpClosed]
    /\ UNCHANGED <<listed, state, supported, timeout, fd>>

HttpStep(c) ==
    \/ HttpAccept(c)
    \/ HttpOpen(c)
    \/ HttpStat(c)
    \/ HttpDiscard(c)
    \/ HttpSent(c)
    \/ HttpClose(c)

HttpNext == \E c \in Conns : HttpStep(c)
=============================================================================
