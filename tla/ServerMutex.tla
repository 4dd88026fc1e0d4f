---------------------------- MODULE ServerMutex ----------------------------
(***************************************************************************)
(* How castserver processes keep each other off a LAN: the tag multicast   *)
(* of server_mutex.c, the answer srv_detect_read gives to it, and the two  *)
(* names a process takes while main() brings it up, the path of its        *)
(* control socket and the port of its detect socket.  Every process runs   *)
(* with the default group and port.                                        *)
(***************************************************************************)
EXTENDS Naturals

CONSTANTS
    Servers,     \* the processes that may run castserver
    Hosts,
    HostOf,      \* [Servers -> Hosts]
    Nobody,      \* the path does not exist
    Stale,       \* the path names a socket whose process has crashed
    Reliable     \* datagrams arrive, and within the second a probe waits

ASSUME MutexAssumption ==
    /\ HostOf \in [Servers -> Hosts]
    /\ Nobody \notin Servers /\ Stale \notin Servers /\ Nobody # Stale
    /\ Reliable \in BOOLEAN

VARIABLES
    phase,    \* where main() is, or how the process ended
    path,     \* whose control socket the path names on a host
    net,      \* tags and answers in flight or in a socket's queue
    witness,  \* ghost: the servers that were up when a process probed, and
              \* have been up ever since
    company   \* ghost: the processes beside which, since they bound the path,
              \* another of their host has had a control socket of its own

mutexVars == <<phase, path, net, witness, company>>

\* down: not running.  probe: in create_mutex, waiting for an answer.
\* control, detect: before server_cmdctrl_init, server_detect_init.
\* bound: the detect socket is bound and queues what arrives.
\* serving: in the event loop.  closing: inside server_deinit.
\* yielded, failed: ended by an answer, by a port already in use.
Phases == {"down", "probe", "control", "detect", "bound", "serving",
           "closing", "yielded", "failed"}
NotRunning == {"down", "yielded", "failed"}
Coming == {"probe", "control", "detect"}
Up == {"bound", "serving"}
HoldsPort == Up \cup {"closing"}
HoldsPath == Up \cup {"detect"}

Tag(i, j) == [type |-> "tag", from |-> i, to |-> j]
Answer(j, i) == [type |-> "answer", from |-> j, to |-> i]
Messages == [type : {"tag", "answer"}, from : Servers, to : Servers]

\* Only a probing process has datagrams on their way to or from it, and a tag
\* waits only in a socket that exists.  A path names a process of its host that
\* has a control socket, or else nobody listens on it.
TypeOK ==
    /\ phase \in [Servers -> Phases]
    /\ path \in [Hosts -> Servers \cup {Nobody, Stale}]
    /\ \A h \in Hosts :
         path[h] \in Servers => HostOf[path[h]] = h /\ phase[path[h]] \in HoldsPath
    /\ company \subseteq {i \in Servers : phase[i] \in HoldsPath}
    /\ net \subseteq Messages
    /\ witness \in [Servers -> SUBSET Servers]
    /\ \A m \in net : \/ m.type = "tag" /\ phase[m.from] = "probe"
                                        /\ phase[m.to] \in Up
                      \/ m.type = "answer" /\ phase[m.to] = "probe"

Init ==
    /\ phase = [i \in Servers |-> "down"]
    /\ path = [h \in Hosts |-> Nobody]
    /\ net = {}
    /\ witness = [i \in Servers |-> {}]
    /\ company = {}

(***************************************************************************)
(* The sockets of a process are gone: what they queued, and any answer to  *)
(* a tag it sent, reaches nobody.                                          *)
(***************************************************************************)
SocketsGone(i) == net' = {m \in net : m.to # i /\ m # Tag(i, m.to)}

\* ... and the process is no longer up, nor waiting for those that were.
Leaves(i) ==
    /\ SocketsGone(i)
    /\ witness' = [k \in Servers |-> IF k = i THEN {} ELSE witness[k] \ {i}]
    /\ company' = company \ {i}

(***************************************************************************)
(* create_mutex: the tag is multicast from a socket that does not loop it  *)
(* back to its own host.                                                   *)
(***************************************************************************)
Hearing(i) == {j \in Servers : phase[j] \in Up /\ HostOf[j] # HostOf[i]}

Probe(i) ==
    /\ phase[i] \in NotRunning
    /\ phase' = [phase EXCEPT ![i] = "probe"]
    /\ net' = net \cup {Tag(i, j) : j \in Hearing(i)}
    /\ witness' = [witness EXCEPT ![i] = {j \in Servers : phase[j] \in Up}]
    /\ UNCHANGED <<path, company>>

\* MUTANT of AnswerTag: the tag is taken for a beacon that is too short.
DropTag(i, j) ==
    /\ phase[j] = "serving"
    /\ Tag(i, j) \in net
    /\ net' = net \ {Tag(i, j)}
    /\ UNCHANGED <<phase, path, witness, company>>

\* srv_detect_read: a tag is answered, whoever sent it.
AnswerTag(i, j) ==
    /\ phase[j] = "serving"
    /\ Tag(i, j) \in net
    /\ net' = (net \ {Tag(i, j)}) \cup {Answer(j, i)}
    /\ UNCHANGED <<phase, path, witness, company>>

\* MUTANT of Yield: the process ends without its sockets being closed.
YieldLingering(i, j) ==
    /\ phase[i] = "probe"
    /\ Answer(j, i) \in net
    /\ phase' = [phase EXCEPT ![i] = "yielded"]
    /\ witness' = [witness EXCEPT ![i] = {}]
    /\ UNCHANGED <<path, net, company>>

\* create_mutex reads an answer: exit(1), which leaves the path alone.
Yield(i, j) ==
    /\ phase[i] = "probe"
    /\ Answer(j, i) \in net
    /\ phase' = [phase EXCEPT ![i] = "yielded"]
    /\ Leaves(i)
    /\ UNCHANGED path

\* Nothing more can arrive for i: no answer, and no tag to be answered.
NothingPending(i) == \A m \in net : m.to # i /\ m # Tag(i, m.to)

\* The second is over with nothing to read: "no other server".
NoAnswer(i) ==
    /\ phase[i] = "probe"
    /\ Reliable => NothingPending(i)
    /\ phase' = [phase EXCEPT ![i] = "control"]
    /\ SocketsGone(i)
    /\ UNCHANGED <<path, witness, company>>

\* A datagram is lost.
Lose(m) ==
    /\ ~Reliable
    /\ m \in net
    /\ net' = net \ {m}
    /\ UNCHANGED <<phase, path, witness, company>>

(***************************************************************************)
(* server_cmdctrl_init, server_detect_init, the event loop.                *)
(***************************************************************************)

Neighbours(i) ==
    {j \in Servers \ {i} : HostOf[j] = HostOf[i] /\ phase[j] \in HoldsPath}

MeetsNeighbours(i) ==
    company' = IF Neighbours(i) = {} THEN company
                                     ELSE company \cup Neighbours(i) \cup {i}

\* MUTANT of server_cmdctrl_init: the path is unlinked after the bind.
BindThenUnlink(i) ==
    /\ phase[i] = "control"
    /\ phase' = [phase EXCEPT ![i] = "detect"]
    /\ path' = [path EXCEPT ![HostOf[i]] = Nobody]
    /\ MeetsNeighbours(i)
    /\ UNCHANGED <<net, witness>>

\* MUTANT of server_cmdctrl_init: nothing is unlinked, and the bind fails on
\* a path that exists.
BindOnly(i) ==
    /\ phase[i] = "control"
    /\ IF path[HostOf[i]] = Nobody
          THEN /\ phase' = [phase EXCEPT ![i] = "detect"]
               /\ path' = [path EXCEPT ![HostOf[i]] = i]
               /\ MeetsNeighbours(i)
               /\ UNCHANGED <<net, witness>>
          ELSE /\ phase' = [phase EXCEPT ![i] = "failed"]
               /\ Leaves(i)
               /\ UNCHANGED path

\* unlink whatever is there, be it stale or another's, then bind.
server_cmdctrl_init(i) ==
    /\ phase[i] = "control"
    /\ phase' = [phase EXCEPT ![i] = "detect"]
    /\ path' = [path EXCEPT ![HostOf[i]] = i]
    /\ MeetsNeighbours(i)
    /\ UNCHANGED <<net, witness>>

PortTaken(i) ==
    \E j \in Servers \ {i} : HostOf[j] = HostOf[i] /\ phase[j] \in HoldsPort

server_detect_init(i) ==
    /\ phase[i] = "detect"
    /\ ~PortTaken(i)
    /\ phase' = [phase EXCEPT ![i] = "bound"]
    /\ UNCHANGED <<path, net, witness, company>>

\* bind fails: xexit, whose server_deinit unlinks the path, whoever's it is.
DetectBindFails(i) ==
    /\ phase[i] = "detect"
    /\ PortTaken(i)
    /\ phase' = [phase EXCEPT ![i] = "failed"]
    /\ path' = [path EXCEPT ![HostOf[i]] = Nobody]
    /\ Leaves(i)

Serve(i) ==
    /\ phase[i] = "bound"
    /\ phase' = [phase EXCEPT ![i] = "serving"]
    /\ UNCHANGED <<path, net, witness, company>>

(***************************************************************************)
(* A signal runs server_deinit, which unlinks the path (none is known      *)
(* before server_cmdctrl_init) and then closes the detect socket.          *)
(***************************************************************************)
SignalEarly(i) ==
    /\ phase[i] \in {"probe", "control"}
    /\ phase' = [phase EXCEPT ![i] = "down"]
    /\ Leaves(i)
    /\ UNCHANGED path

server_cmdctrl_deinit(i) ==
    /\ phase[i] \in {"detect", "bound", "serving"}
    /\ phase' = [phase EXCEPT ![i] = IF phase[i] = "detect" THEN "down"
                                                            ELSE "closing"]
    /\ path' = [path EXCEPT ![HostOf[i]] = Nobody]
    /\ Leaves(i)

server_detect_deinit(i) ==
    /\ phase[i] = "closing"
    /\ phase' = [phase EXCEPT ![i] = "down"]
    /\ UNCHANGED <<path, net, witness, company>>

\* A crash leaves the path behind, naming a socket nobody listens on.
Crash(i) ==
    /\ phase[i] \notin NotRunning
    /\ phase' = [phase EXCEPT ![i] = "down"]
    /\ path' = [path EXCEPT ![HostOf[i]] = IF @ = i THEN Stale ELSE @]
    /\ Leaves(i)

\* What main() does by itself once started.
Advance(i) ==
    \/ \E j \in Servers : Yield(i, j)
    \/ NoAnswer(i)
    \/ server_cmdctrl_init(i)
    \/ server_detect_init(i)
    \/ DetectBindFails(i)
    \/ Serve(i)
    \/ server_detect_deinit(i)

Next ==
    \/ \E i \in Servers :
         \/ Probe(i)
         \/ Advance(i)
         \/ \E j \in Servers : AnswerTag(i, j)
         \/ SignalEarly(i)
         \/ server_cmdctrl_deinit(i)
         \/ Crash(i)
    \/ \E m \in Messages : Lose(m)

Spec == Init /\ [][Next]_mutexVars

\* main() goes on, a probe's timeout included, and the event loop reads what
\* its socket holds.  Nothing starts, stops or crashes a process.
FairSpec ==
    /\ Spec
    /\ \A i \in Servers :
         /\ WF_mutexVars(Advance(i))
         /\ WF_mutexVars(\E j \in Servers : AnswerTag(j, i))

(***************************************************************************)
(* Properties                                                              *)
(***************************************************************************)

\* "timeout or unknown response. no other server" (create_mutex): a server up
\* when a process probes has answered before it goes on, unless it went down
\* meanwhile.  Only a server of its own host is not asked, for the tag is not
\* looped back, and that one's port stops it: no process comes up while a
\* server is up that was up when it probed.
PastProbe == {"control", "detect", "bound", "serving"}
LateComerYields ==
    \A i \in Servers :
        /\ phase[i] \in PastProbe
             => \A j \in witness[i] : HostOf[j] = HostOf[i]
        /\ phase[i] \in Up => witness[i] = {}

\* A server loses its control path only to another process of its host that
\* passes its probe, which asks no server of the same host, and binds or has
\* bound a control socket beside it.  Otherwise the path names it for as long as
\* it is up, whatever crashed on its host and left the path behind, whichever
\* processes yielded or ended there before, and whatever other hosts do.
ControlReachable ==
    \A i \in Servers \ company : phase[i] \in Up => path[HostOf[i]] = i

\* Probe, answer, timeout and bind together keep processes apart as far as
\* SingleInstance says, through crashes and restarts, if datagrams arrive in
\* time: the network and the order of initialisation cannot be told from it.
Instance == INSTANCE SingleInstance WITH
                starting <- {i \in Servers : phase[i] \in Coming},
                up <- {i \in Servers : phase[i] \in Up},
                before <- witness
ImplementsInstance == Instance!Spec

\* Processes never rule each other out for good, whatever is lost: if they are
\* started again and again, and from some time on none is stopped, then from
\* some time on one serves.  (A single start may well leave none: the server
\* that answered can crash before its answer is read.)
SomebodyServes ==
    (/\ []<>(\E i \in Servers : phase[i] = "probe")
     /\ <>[][\A i \in Servers : phase'[i] = "down" => phase[i] = "down"]_mutexVars)
      => <>[](\E i \in Servers : phase[i] = "serving")

\* "server singleton" (srv_detect_read): one server at a time.  Two processes
\* whose probes overlap hear no answer, and both come up.
SingleServer ==
    \A i, j \in Servers : phase[i] \in Up /\ phase[j] \in Up => i = j
=============================================================================
