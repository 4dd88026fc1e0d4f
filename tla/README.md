# castserver: a verification project

castserver sends audio to speakers on a LAN. It is a C program of four threads that share
its state without a single lock, closes sockets by remembered numbers and keeps to itself by
asking the network who else is there. These modules model that core; TLC checks it on
small instances and TLAPS proves all of its safety properties, and the countdowns and deadlock freedoms
beneath its liveness, for every size. Paths are relative to the
repository's `src/`.

    server ── event loop (main thread) ── server_detect.c            beacons, tags
           │                             └ server_speaker_control.c  TIME requests, SAMPLE
           ├─ online thread ───────────── server_detect.c            countdown, going offline
           ├─ control-socket thread ───── command_control.c          accept, commands
           │                             ├ command/speakers.c        list the speakers
           │                             └ command/pushwave.c        play a file
           │                                └ server_speaker_pusher.c, server_speaker_control.c
           ├─ libmicrohttpd's thread ──── server_http.c              files
           └─ signal handlers ─────────── server.c                   server_deinit
    client ── client/client.c, client/pipe.c                         one file, chunk by chunk

## 1. Inventory

| part | state | operations | shared with |
|---|---|---|---|
| speaker table (`speaker_t`, common library) | list; `state`, `supported`, `timeout`, `fd`, address, `conn_time` | `add_speaker`, `find_speaker_by_id`, `speaker_check_online`, `SPEAKER_FOREACH` | every thread, no lock |
| detection (`server_detect.c`) | detect socket, `server_notify_resp` | beacon (`srv_detect_read`, `valid_speaker`), tag, online thread | table, pusher, speaker control |
| pusher (`server_speaker_pusher.c`) | its own socket, `channel_buffer`, `package_seq` | `server_sppush_connect`, `_disconnect`, `_push`, `pusher_sendto_speaker` | table, descriptor numbers |
| control socket (`command_control.c`) | listening socket, path, `socket_buffer` | accept, `call_command` | clients; table through its commands |
| commands (`command/`) | `pushwave.c`'s globals, array on `speakers.c`'s stack | `cmd_speakers`, `cmd_wave` | table, pusher, speaker control |
| speaker control (`server_speaker_control.c`) | one static `buffer`, `server_channel_list` | `server_spctrl_speaker`, `_format`, `_set_time`, `spctrl_time` | event loop and control-socket thread |
| single instance (`server_mutex.c`) | none that lasts | `create_mutex` | other processes, through the network |
| start and end (`server.c`) | `exit_thread_flag`, init order | `main`, `signal_handle`, `server_deinit`, `xexit` | all; `server_notify_resp` with detection |
| client (`client/`) | socket, file | `pipe_init`, `signal_handle` | server, through the control socket |
| HTTP (`server_http.c`) | daemon handle, never reset; number of each connection and of the file it is sent | `ahc_echo`, and libmicrohttpd's closes by number | descriptor numbers |

What makes this hard to test:

* **Unlocked sharing.** `sp->timeout-- <= 0`, `SPEAKER_OFFLINE`, `speaker_check_online` and
  `speaker->fd` are accessed from three threads in every order.
* **Stale numbers.** `server_sppush_disconnect` closes `speaker->fd` and keeps it; each pass of
  the online thread closes the same number again, whatever it denotes by then. It also reads the field anew
  between its test and its close, while another thread may be storing a number there.
* **Limits.** Accepted connections are never closed, so descriptors run out; a speaker then
  gets the pusher's own socket, which must not be closed with it.
* **Lengths.** `server_sppush_push` is given the length of one channel and uses it as that of all of them;
  its buffer keeps what it held.
* **Signals.** A handler may interrupt any step of start, service or shutdown, another handler's
  `server_deinit` included, on any thread; `server_deinit` cancels a thread that may be running it.
* **Processes.** Two servers may start at once, lose each other's datagrams, crash and leave a
  path behind, or fail half-way and clean up what is not theirs.
* **A stream protocol of lengths.** Client and server count chunks; a short `recv` puts them out
  of step, and both sides block.

What makes each part correct, as properties:

| part | property |
|---|---|
| table, pusher | the server's own sockets are never closed (`BaseSocketsOpen`), but for the pusher's, and that one only by a call that tested `speaker->fd` when it was 0 and read it again after the fallback (`SharedSocketSpared`); no speaker socket leaks, from `socket()` to its close (`NoSocketLeak`); one chance at a socket per speaker, and a lost one is never replaced (`ImplementsLife`) |
| detection | a speaker shown online has passes left (`OnlineHasTimeLeft`); a silent one ends offline (`SilentGoesOffline`) and its socket is closed (`OfflineReleasesSocket`), both within a bounded number of passes (`QuietCountsDown`, `SilentSocketCloses`); a speaker found is connected (`DiscoveredIsConnected`, **fails**) |
| commands | of the entries `cmd_speakers` counted at most one is sent unset (`OneEntryUnset`) |
| HTTP | the close of a file just opened succeeds (`HttpNeverAborts`, **fails**); its closes harm no other socket of the server (the rows above, with its thread running) |
| pushed samples | what every place of every package holds (`PackageExact`): of the frames the loop looks at, the channel's own sample, each in its place; besides these at most one of another channel (`AtMostOneStray`), and how much of a chunk is sent (`OnlyFirstFrames`) |
| speaker control | a speaker the walk finds online, one found during the walk or gone since included, is told the stream's format on its own channel (`FormatReached`); not so when both threads use the buffer (`EarlySpeakersMatch`, **fails**) |
| single instance | a late-comer yields (`LateComerYields`); somebody serves (`SomebodyServes`); the path leads to a server as long as no other process of its host has had a control socket beside it, whatever was left there before (`ControlReachable`); together, processes are kept apart as without a network, by asking who is up (`ImplementsInstance`); one server only (`SingleServer`, **fails**) |
| start and end | a server announced says goodbye (`GoodbyeSaid`), and says nothing after it (`GoodbyeIsLast`); the control path is removed (`PathRemoved`); a handler on the online thread, which cancels itself, never gets to its end (`OnlineNeverExits`); anywhere else an undisturbed `server_deinit` ends the process (`OneDeinitEnds`), and only a second one can hang in the daemon or cancel a thread that is none (`OnlyRepeatHangs`) |
| stream | at most one short receive (`AtMostOneShortRead`); only an interrupt kills the server (`BrokenPipeOnlyByInterrupt`); client and server never wait for each other while the stream goes on (`NoMutualWait`), and each step brings its end nearer (`WindsDown`); which files end and which hang (`StreamEnds`, `HangsWithoutRest`) |

`PROJECT.json` lists each hazard at its line with the properties that watch it.

## 2. The modules

    SpeakerTable ─┬─ Pusher ─┬─ Detect ─────────┐
                  │          └─ CommandControl ─┼─ CastServer ─┬─ MCCastServer
                  └─ Http ──────────────────────┘       ┊      └─ CastServerProofs ── SpeakerLifeProofs
                                                   SpeakerLife
    ServerMutex ─┬─ MCServerMutex        SpeakerControl ─┬─ MCSpeakerControl
         ┊       └─ ServerMutexProofs                    └─ SpeakerControlProofs
    SingleInstance
    PushWave ── PushWaveProofs           PcmPush ── PcmPushProofs
    ServerLifecycle ── ServerLifecycleProofs

A line is `EXTENDS`, the dotted one `INSTANCE ... WITH`. Operators commented `MUTANT of X` are plausible bugs of `X`; they are used
nowhere but in the sensitivity check of section 6.

### The running server: SpeakerTable, Pusher, Detect, CommandControl, Http, CastServer

`SpeakerTable` has the shared state. `listed`, `state`, `supported`, `timeout` and `fd` are
the list and the fields of `speaker_t` the code branches on. `kern` is the process's descriptor table:
a number is free, one of stdio, one of the server's own sockets (`BaseFds`: control, detect,
speaker-control and pusher sockets), a client's connection, a connection or file of the HTTP thread, or the socket of a certain speaker. The last
is what makes "this number is not yours any more" expressible. New descriptors take
the lowest free number, as POSIX says.

`Pusher` has the fragments the event loop, the online thread and the control-socket thread share: the tests, the call and the
stores of `server_sppush_connect` (lines 65-91), the test of `server_sppush_disconnect` (93-104) and
those of `pusher_sendto_speaker` (106-118).

`Detect` is one program counter for the event loop in a beacon (`main`) and one for the online
thread (`online`). A step is what a thread does between two accesses of a field another
thread reads or writes:

| code | actions |
|---|---|
| `valid_speaker`, known id (79-85) | `BeaconKnown`, `BeaconCheckOnline` |
| `valid_speaker`, new id (87-101) | `BeaconNew`, `BeaconCheckOnline`, then `server_sppush_connect`: `BeaconConnect` (tests), `BeaconSocket` (`socket()`), `BeaconStore` (line 80), `BeaconShare` (the fallback, 82) |
| `sp->timeout-- <= 0` (306) | `OnlineLoad`, `OnlineStore` |
| `SPEAKER_OFFLINE` (307) | `OnlineOffline` |
| `server_sppush_disconnect` (308) | `OnlineTest` (its line 97), `OnlineReload` (the read of `speaker->fd` for the close), `OnlineClose` |
| `sleep(5)` and the loop | `OnlineSleep`, `OnlineWake` |

`CommandControl` is the control-socket thread: `AcceptCommand` (accept, recv, dispatch),
`CopySpeaker`/`CopyDone` (`cmd_speakers`: `counted` is the list when `SPEAKER_COUNT()` sized the array, `copied` the
speakers that got an entry), `PushChunk`, `PushSent`, `PushRefused`, `PushChunkDone` and `StreamEnd` (`cmd_wave` and the pusher), with
`PushTest`, `PushReload` and `PushClose` for its calls of `server_sppush_disconnect`.

A call of `server_sppush_disconnect` keeps two numbers: `tested`, what line 97 read, and `num`, what it read again and closes. Line 97's
own two reads are one step: a second read that finds another number spares the socket if that is the pusher's, and is
otherwise followed by the re-read anyway. The read for `shutdown(fd, 0)` is left out, for that call stops
receiving only, and no speaker socket is ever read.

`Http` is libmicrohttpd's thread with `ahc_echo`: `HttpAccept`, `HttpOpen`, `HttpStat` (`fstat` and the response made
from the number), `HttpDiscard` (`close` or `abort`), `HttpSent`, `HttpClose`. It holds numbers of its own across steps of
the other threads, and number 0 escapes its `fstat`, as in the code. `abort` ends the process: no thread
moves after it. libmicrohttpd is external; the model takes from it that one internal thread runs the
handler, that it closes what it accepted and what a response was made from, and nothing else.

`CastServer` interleaves the four and states the properties.

`SpeakerLife` is what they promise of a speaker's connection, without threads or numbers: a speaker is unknown, being found,
or settled; on settling it gets a socket of its own, the shared one, or none; its own can only be lost; the shared one is never lost if `SharedStays`, else by all
at once. The refinement mapping
(`PhaseOf`, `LinkOf` in `CastServer`) reads the phase from the list and the beacon in progress, and the link from what the number
in `fd` denotes: this speaker's open socket, or the pusher's, if that one is still open. `SharedStays` is `UnsetFd # 0`: see section 4. A stale number that comes to denote a new socket of the *same* speaker
would be a link regained; `ImplementsLife` excludes it.

Assumptions, all about code outside the repository or left to the kernel:

* `speaker_check_online` sets a speaker online and rearms its countdown in one step. The
  library is a submodule that is not included; `srv_detect_read` has no other means to bring a
  speaker back, and connects only online ones. When the pusher calls it, for a speaker it has
  no news of, it may also do nothing (`speaker_recheck_online`); the properties hold either way.
* `add_speaker` leaves `fd` unset: -1 or 0 (`UnsetFd`). Which it is decides whether the pusher's own socket can be lost. Both are
  covered: -1 with two speakers in `core_safety`, 0 with the HTTP thread in `core_live`, either in the proofs.
* A walk of the list visits every speaker, in any order, those appended meanwhile included.
* `Conns` bounds the connections libmicrohttpd has at a time.
* All speakers have a data port and the default line and channel.
* Reads and writes of an `int` field are atomic. The races are undefined behaviour in C; the model
  takes the outcomes that word-sized accesses give.

### Several processes: ServerMutex

`phase` is where `main()` of each process is; `path` is the control path of each host, `net` the tags and
answers under way. `Probe` multicasts the tag to the detect sockets of other hosts (the sending
socket has `IP_MULTICAST_LOOP` off); `AnswerTag` is the branch at `server_detect.c:247`; `Yield` and
`NoAnswer` are the two ends of `create_mutex`. Then `server_cmdctrl_init` (unlink, bind),
`server_detect_init` or `DetectBindFails` (port in use, `xexit`), `Serve`; `SignalEarly`,
`server_cmdctrl_deinit` and `server_detect_deinit` are `server_deinit` as far as path and
port see it, and `Crash` is an end without it, after which the path is `Stale`: it names a
socket nobody listens on, and neither the crashed process nor its next incarnation. `Reliable` says whether datagrams may be lost or late;
all processes use the default group and port. `witness` is a ghost: the servers up when a process
probed, and up ever since. `company` is another: the processes beside which a second one of their host has had a control socket since they
bound theirs, which are those that may lose the path to it. `HostOf` distributes the processes over the hosts in any way; those of one host never
hear each other's tag and are kept apart by the detect port.

`SingleInstance` is what the probe, the answers, the timeout and the order of initialisation achieve, without any of them: a
process that starts must outlast every server up at that moment, and all of its own host, before it comes up. The refinement
mapping in `ServerMutex` reads who is starting and who is up from `phase`, and whom a process waits for from `witness`.

### The format: SpeakerControl

Both threads run `server_spctrl_speaker`: `EncodeCommand`, `EncodeBody`, `SendTo`. The encoding writes
into one static buffer (line 38), and `SendTo` delivers what the buffer holds by then. `told` is the
last SAMPLE package a speaker was sent. The event loop calls it for a speaker just found and for TIME requests, the
control-socket thread walks the list in `server_spctrl_format`. What is sent arrives. `missed` (speakers the walk found or
left offline, and those added behind it) and `overlap` (both threads have had an unsent package) are ghosts: `missed` says
whom `server_spctrl_format` does not try to tell, `overlap` is the one exception among the others. A speaker found during the walk counts: the configured
format the event loop sends it must not be the last it hears.

### One file: PushWave

`pipe_init` against the receive loop of `cmd_wave`, in bytes: `queue` and `acks` are the two
directions of the socket, `room` is `chunk - offset`, and `rest` the bytes of the first
message that fill no chunk. The first message is taken to be received whole (`command_control.c:95`
has one `recv` for it); its length is Init's choice. `Interrupt` is the client's signal handler.
Linux semantics: `recv` returns what there is up to `room`; after the client closed with unread
acknowledgements it fails once, which the `uint32_t` result turns into "data"; a `send` to a closed
client raises SIGPIPE, which nobody handles. `command/pushwave.c:77` calls
`server_sppush_push` with four of its five arguments and does not compile as it stands; it is
read as the call at line 67.

### One chunk: PcmPush

`server_sppush_push` in samples: a sample is its position in the chunk, so `i + k * chlen` is frame `k` of channel `i`, and the
package of a channel is a function from positions to samples. `Push` takes what `cmd_wave` gives: a
chunk of `n` samples and, as its length, `n / c`; `CopySample`, `CopyEnd` and `SendChannel` are the loop,
its end and `server_sppush_push_channel`. What is in the buffer from an earlier chunk is `Stale`. A chunk is a
whole number of samples and a channel's part fits the buffer, which the assertions at lines 151 and
152 would check if they were compiled in; they are not outside Debug builds. Of the second only its meaning for the
properties is used: `AtMostOneStray` says what holds with it and what without. Which speakers get a package is
`CommandControl`'s; the header is the common library's.

### One process: ServerLifecycle

`at` is where each of three threads is: `main` in its initialisation, its loop or `server_deinit`, and the ones that
`server_cmdctrl_init` and `server_detect_init` start. `xexit` and `ExitBare` are the two ways a failing step ends;
`server_http_deinit` to `Exit` are `server_deinit` in the order of the calls. `server_detect_deinit` is `TestOnline`, `CancelOnline` and
`ForgetOnline` (`online_detect_thread` tested, used and reset, lines 354-357), then the notice in the three steps in which another
thread or a handler may come between (type, `sendto`, reset), and `Close`. `signal_handle` begins `server_deinit` on whatever thread takes the
signal, whatever that thread was doing, and nothing it interrupted goes on, since the handler ends in `exit`; a signal is blocked only on the
thread that handles it. Linux gives a signal to `main` if `main` does not block it; the model lets any thread take it, and
the ghost `aside` marks that another one did while `main` was free, for the one property that then fails.

A cancelled thread runs on to a cancellation point and ends there (`OnlineEnds`), a handler on it included: that handler has passed
`pthread_cancel` on its own thread, and what comes next is `sendto` (`Multicast` waits for `~Doomed`). `pthread_detach` and
`pthread_cancel` of thread 0 read through a NULL pointer (`stray`, `crashed`); the cancelling of a thread that has ended is
undefined, and taken to do nothing or to crash. `MHD_stop_daemon` on a daemon already stopped is undefined too: it returns, hangs, or crashes.
`runs`, `bye` and `last` are ghosts. A notice needs the detect socket; before it exists, the descriptor variable's initial
value leads to no notice a speaker could receive. A signal taken by libmicrohttpd's own thread is not modelled: its handler
would wait in `MHD_stop_daemon` for the thread it runs on.

## 3. The runs

| run | question | instance |
|---|---|---|
| `core_safety` | Do stale closes, races and exhaustion spare the server's sockets, leak none, leave no speaker online without passes and at most one entry of a list unset? Is all of it a `SpeakerLife`? | 2 speakers, no HTTP, one free descriptor, `UnsetFd` -1, 1 pass; 1.7 M states |
| `core_live` | Does silence lead offline, and offline to a closed socket, and does each pass bring both nearer? Do sockets and refinement survive an HTTP thread that opens and closes numbers? Is the pusher's own socket lost in one way only? | 1 speaker, 1 HTTP connection, `UnsetFd` 0, 2 passes, one free descriptor beside 0, fair; 1.0 M states |
| `core_connected` | Is a speaker found for good connected? *(no)* | 1 speaker, no HTTP, fair |
| `core_http_abort` | Does the HTTP thread's `close` always succeed? *(no)* | 1 speaker, 1 HTTP connection |
| `mutex_lan` | Does a late-comer yield, does the path lead to a server whatever crashed or yielded on its host before, until a second one binds there? Is all of it a `SingleInstance`? | 4 processes, 2 of them on one host, reliable; 210 k states |
| `mutex_lossy` | Does somebody serve in spite of losses, conflicts and crashes? | 3 processes, 2 on one host, losses, fair; 6.6 k states |
| `mutex_singleton` | Is there only one server? *(no)* | 2 hosts |
| `control_format` | Who is told the format of a stream? | 2 speakers, 2 formats; 1.4 M states |
| `control_buffer` | Everybody online at the start? *(no)* | the same |
| `push_wave` | Short receives, deaths, hangs, waits and the end's approach, for each length | chunk 3, first message up to 5 bytes, file up to 4 chunks; 734 states |
| `pcm_push` | Which samples does each package carry? | 4 channels, chunks up to 40 samples, 12 per package; 560 states |
| `lifecycle` | What do signals at any moment leave undone? | 3 signals, 3 threads, 3 runs of `server_deinit` (`MaxRuns`), fair; 2.4 M states |

Why the bounds are enough. A descriptor number is confused when one speaker's is
closed and another's opened: two speakers and one free number make every such exchange happen, and the one number
also runs out, so the fallback to the pusher's socket and clients that take the last number
occur. With `UnsetFd` 0 the first close frees number 0, so one speaker and one HTTP connection have two numbers, 0 and 7, on which the connection, its file
and the speaker's socket displace each other in every order, and a connect that finds none, which is what the loss of the pusher's socket takes. Countdown values matter only as positive, zero and negative, and
`TimeoutFloor` stops the countdown at -1, which no test in the code tells from a lower value. For
`ServerMutex` a third process is what a pair may leave behind, or come between; the two that share a host meet both each other and servers elsewhere. A PushWave chunk of 3 gives rests 0, 1 and
2; with four chunks each stage of a stream (fresh, behind, aligned, finished) lasts for more than one step. In
`pcm_push` `len` takes every residue for each number of channels, with and without whole frames. In `lifecycle` three signals are
all that can be caught; each can nest once per thread, and `MaxRuns` bounds how many arrive in all: with three runs of `server_deinit` all three threads
are in it at once, or two of them with one interrupted, or one interrupted twice. The
proofs below cover all other sizes.

Deadlock is checked everywhere but where the program stops: `push_wave` (a stream that is over, or one that
hangs; which of them hang is what `HangsWithoutRest` and `StreamEnds` say), `core_live` (after an `abort`) and
`lifecycle` (after `exit`, or with all threads ended or hung).

**Fairness.** `core_live` and `core_connected`: a callback, the online thread's pass and a
command that has begun go on, because the kernel schedules runnable threads and none of
them waits. Beacons, clients, chunks and the ends of streams come from outside and are not fair, nor is the HTTP thread, which the
properties do not wait for. They are claimed of a server that does not abort.
`SilentGoesOffline` has "no chunk is being pushed" in its premise, since a pusher that finds a
speaker offline may put it back online at every chunk. `mutex_lossy`: a started process goes on, the one-second timeout included, and a server reads its socket. That
processes are restarted is the property's premise, not the model's assumption. `push_wave`:
client and server run; the user need not press ^C. `lifecycle`: a thread
in `server_deinit` is scheduled; nobody need send a signal.

## 4. What the code does otherwise than it says

Each of these has a run that TLC finds violated, with the shortest trace.

1. `DiscoveredIsConnected`. `valid_speaker` connects only on the first beacon. A speaker that times out once is
   online ever after without a socket of its own; `ImplementsLife` says that no other sequence of events helps it.
2. `HttpNeverAborts`. The online thread or the pusher closes a stale speaker number on which `ahc_echo` has just
   opened a file; the `close` there fails and `abort()` ends the server.
3. `SingleServer`. Two processes that probe within the same second both serve.
4. `EarlySpeakersMatch`. Both threads encode into one buffer before sending.

Seen while modelling, without a run, because no text of the repository denies it or because
a property above already states what is left:

* A speaker's number is closed and reused; when the first speaker comes back, its `fd` names the second's socket, and audio
  for both goes out on it.
* If `add_speaker` leaves `fd` 0, the server can close the pusher's own socket: the online thread passes line 97 of
  `server_sppush_disconnect` with 0, the event loop's first connect of that speaker finds no descriptor and stores `conn.read_fd` at line 82,
  and line 101 closes what `speaker->fd` is by then. Every speaker sharing that socket loses it. `SharedSocketSpared` says that this
  is the only way; with -1 there is none.
* The list may outgrow the array of `cmd_speakers` between the count and the walk.
* A speaker found during a stream is sent the configured format, one that returns is sent none (`missed` in `SpeakerControl`).
* Two processes on one host never
  hear each other's tag, so the second goes as far as the bind of the detect port, which fails, and its `xexit`
  removes the control path of the first. That is why a late-comer outlasts servers of other hosts at its probe but those of
  its own only at its bind (`LateComerYields`), and why a server keeps its path only until such company arrives (`ControlReachable`).
* A beacon handled between the online thread's read of the countdown and `SPEAKER_OFFLINE` is overruled.
* A file whose first message leaves no rest hangs its client
  (`HangsWithoutRest`), and a client killed in a stream takes the server with it (`BrokenPipeOnlyByInterrupt`).
* Of a chunk for `C` channels only the first `len / C` frames are sent (`OnlyFirstFrames`); the rest of a package is old,
  and if `len` is no multiple of `C` one sample may be another channel's (`AtMostOneStray`).
* `package_seq` is counted and never sent.
* `d` keeps its value when the daemon is stopped, so a second `server_deinit`, begun by another signal, stops it again. That is why
  `OneDeinitEnds` is about one run of it; `OnlyRepeatHangs` says that the daemon takes a second one to hang or crash.
* `server_detect_deinit` cancels the thread it may be running on: a handler on the online thread dies in `sendto`, before the EXIT notice and
  `exit(0)` (`OnlineNeverExits`). With that thread gone and `main` in `event_start`, where `exit_thread_flag` is not looked at before the next event, the
  process runs on, without control path, HTTP and countdown; hence the exception in `OneDeinitEnds`.
* Two threads in `server_detect_deinit` may both pass line 354, and one cancel thread 0 after the other's line 356; likewise
  `pthread_detach` in `server_detect_init`, when a handler elsewhere has reset `online_detect_thread` in between.
* The exits that bypass `server_deinit`, `server_detect.c:150` among them, leave the control path (`PathRemoved` is
  about the others).
* Two threads in `server_deinit` may undo each other's notice type (the premises of `GoodbyeSaid` and `GoodbyeIsLast`).

## 5. The proofs

All are checked by tlapm; sets of speakers and processes, numbers of descriptors, countdown, chunk
and file length are arbitrary, under the named assumptions of the modules.

**CastServerProofs.** `TypeCorrect` (the types first, then that the speaker each thread has in hand is in the
list), then what rests on it.
* `SharedSocketKept` (`SharedSocketSpared`). `ConnectInv`: until a speaker's first connect stores a number its `fd` is as `add_speaker` left it, and
  that connect is the only one. `CallInv` follows what a call of `server_sppush_disconnect` has read: behind its test it holds
  a number that is not the pusher's and is either still the speaker's or the unset one, and if the number it read again is the
  pusher's, then the tested one was unset, hence 0, since -1 does not pass the test.
* `BaseSocketsStayOpen`. "`kern[f] = "base"`" is not inductive: a close goes by number, so what must be
  excluded is that a thread is ever about to close the number of a base socket. `BaseInv` says so of every number in some hand, the ones read by
  a disconnect and the one `socket()` returned but not stored included: unset, the pusher's, or `Foreign`, which means that it denotes
  none of the server's sockets, and stays true because a number once closed is never one of theirs again. `CallInv` covers the pusher's.
* `SocketsNeverLeak`. A speaker is connected only once, by the beacon that adds it. `LeakInv` therefore says that no socket
  is a speaker's before that beacon reaches `socket()`, and that until its number is stored only `main` knows it. The
  assignment of `fd` then loses no earlier number.
* `OnlineKeepsTimeLeft`. A beacon's rearming sets state and countdown together, and the online thread's write may make the
  countdown negative only if it read 0 or less, which takes it to `OnlineOffline` with that speaker; no other thread
  writes a negative value.
* `OneUnset`. Beside the speaker in its first beacon every listed speaker has a state, and there is one such speaker at a
  time. What the walk has skipped of those counted is therefore that speaker, or one that was in its first beacon when it was passed.
* `SilentCountDown` (`QuietCountsDown`) and `SilentSocketsClose` (`SilentSocketCloses`): a count of the visits of the online
  thread still needed, which no step but news of the speaker (or the opening of its socket) raises and each visit lowers. The thread writes back what it read
  a step earlier; that the count still falls needs `HeldInv`, which says that the value it holds is never above the one in
  memory, since others only rearm. `CountdownSteps` sorts the steps of all threads by what they do to countdown and state, once for
  both. For the socket, only `server_sppush_connect` gives a speaker one (`BeaconSocket` and `BeaconStore`, the steps named in `Connects`); `ClosedForGood` says
  that the close of a number ends whatever socket it was, and `ClosingGoesOn` that a call on its way to a close keeps being so. A call that read the old number
  before the connect does not count as one that has begun to close the new socket (`ClosingNow`), so its end raises no count either.

**SpeakerLifeProofs.** `ServerImplementsLife`: initial states map to initial states, and each thread's steps to steps
of `SpeakerLife` or stutters, one lemma per thread, under `LifeInv`: the types, `ConnectInv` and `LeakInv`. `LeakInv` is what makes the mapping work: a
new socket is opened only for the speaker being found, so no step of a settled one can turn "none" into "own". A close by number costs one speaker its own socket,
because a number denotes one socket, or all of them the shared one, and that only if `UnsetFd` is 0 (`Losses`, `CloseLoses`).

**ServerMutexProofs.** Any number of processes on any hosts.
* `LateComersYield` assumes `Reliable`. `ProbeInv` strengthens it by what holds during the
  probe: for each witness of another host the tag waits in its socket or the answer is under way, so nothing-pending
  implies that no such witness is left. A witness of the same host holds the detect port, so the bind fails while it is up.
  Type correctness carries the rest: datagrams exist only for a probe that waits.
* `ControlStaysReachable` assumes nothing. `PathInv` extends the path's owner to
  the phases from `server_cmdctrl_init` on, and adds that two processes of a host that both have a control socket are both in `company`: the unlink
  of one is then of a path claimed for neither. A stale path is no owner's, and the next bind replaces it.
* `MutexImplementsInstance` assumes `Reliable`. Initial states map to initial states and each action to a step of `SingleInstance` or a
  stutter; that `ComeUp`'s two conditions hold when the detect socket is bound is `LateComersYield`'s invariant and the
  port's being free.

**PushWaveProofs.** `StreamInv` is the stream's stages: without a rest every receive is a whole chunk; with one
the stream is fresh (nothing received), behind (a rest stays in the socket after each receive), or aligned (one
acknowledgement ahead, after the single short receive), then finished, or stopped by an interrupt. Each
stage fixes `queue` as a function of the acknowledgements under way, which none of the properties
mentions; from it follow `TypeCorrect` (the socket never holds more than two chunks), `StaleAtMostOnce`,
`OnlyInterruptKills`, `ClientHangsWithoutRest` and `NeverBothWait`. `AlwaysWindsDown` proves the ranking `Left` of `WindsDown`: chunks unsent and unread, and the last steps of each side, so weighed that
every step of client, server or user lowers the sum (`LeftParts`, `LeftInParts`, `OneChunkLess`).

**SpeakerControlProofs.** `TypeCorrect` and `FormatIsReached`. During a stream without overlap, `ControlInv` says that a call
of the walk carries the stream's format (`WaveCallInv`), that the buffer holds the package of the call in progress as far as it is
written (`WaveAlone`), that a call of the event loop is for a speaker nothing is owed to, or sends
what it owes (`MainHarmless`), and that every listed speaker walked and not missed has been told, or is the one being told
(`OwedAreTold`).

**PcmPushProofs.** `TypeCorrect`, and `PackagesExact` from `PcmInv`: during a copy the places below `dst` hold this channel's own
samples and those from `dst` on what the channels before it left (`LoopInv`), and what a channel leaves, on top of what the
earlier ones did, has a closed form, `Carried`. `OneStray` and `FirstFramesOnly` are corollaries, place by
place (`PlaceOfPackage`). The products are kept to one lemma, `TimesMonotone`.

**ServerLifecycleProofs.** `TypeCorrect`, `GoodbyeIsSaid`, `GoodbyeStaysLast`, `PathIsRemoved`, from `CycleInv`: who may be where
(`PlaceInv`), no path once a thread is past the unlink (`PathInv`), the notice's type while nothing has been said yet (`ByeInv`) and with one
thread (`LastInv`). `FirstDeinitPasses` (`OnlyRepeatHangs`), from `FirstInv`: before any `server_deinit`, and while a single one has yet
to reach the daemon, the handle is unset or a running daemon's; with one `server_deinit` only one thread is in it, and what it has tested in line 354 it still
finds in line 355. `OnlineHandlerEnds` (`OnlineNeverExits`), from `CancelInv`: `online_detect_thread` is 0 only when the thread has not been
started, is cancelled, or is gone, since who resets it has cancelled it. The numbers of signals and of runs are arbitrary.

Only model-checked: liveness (`SilentGoesOffline`, `OfflineReleasesSocket`, `SomebodyServes`, `StreamEnds`, `OneDeinitEnds`),
which needs fairness and ENABLED, out of the prover's reach; and what is violated. Of four of them the part that does not need a
scheduler is proved: the counts that fall (`QuietCountsDown`, `SilentSocketCloses`, `WindsDown`) and the waits that do not
occur (`NoMutualWait`, `OnlyRepeatHangs`). What is left to TLC is that a thread that may run does.

## 6. Sensitivity

Every property of a passing run is broken by a plausible bug in the code it is about (`mutants` in `PROJECT.json`): closing the shared socket
too, connecting a known speaker again, testing `< 0` for `<= 0`, losing the decrement, unlinking the path after
the bind, or not at all, taking the tag for a malformed beacon, sending the configured format, not
resetting `offset`, acknowledging only full chunks, taking a failed `open` for a good one, falling back to another file's socket, not setting `dst` back, copying
adjacent samples, a `server_deinit` that runs only once, a thread that does not cancel itself, a handler that returns, acknowledging when there is nothing to
acknowledge, a daemon handle left dangling by a failed start, a store or a close of the online thread left out, and so on.

## 7. Not modelled

* The common library (lists, events, codecs): not in the repository; modelled as used.
* `conn_time` and TIME offsets; unknown commands, which run past the two entries of the command table; the exit
  command of the common library's macros.
* What HTTP serves, and which file a request names; number 0's unexamined size.
* libmicrohttpd's thread as the one that takes a signal, in `ServerLifecycle`.
* `speaker_deinit` and the closing of the pusher's and speaker-control sockets against threads still at work: the list's memory is
  the common library's, and the process is about to exit.
* `server_receiver.c` (a stub nobody calls), `client/list_speakers.c` (called
  from nowhere), `daemon.c`, configuration files, option parsing, logging: no state the rest depends on, or I/O.

## 8. Plan

Order chosen by what the rest depends on; the first ten are done.

1. The running server (`CastServer`) with its proofs. *done*
2. Processes (`ServerMutex`) with their proofs. *done*
3. The format (`SpeakerControl`). *done*
4. The stream (`PushWave`) with its proofs. *done*
5. `ServerLifecycle`: initialisation, signals and `server_deinit`, with its proofs. *done*
6. `PcmPush`: the deinterleaving loop, with its proofs. *done*
7. HTTP connections as another actor on the descriptor table; the abstract life of a speaker (`SpeakerLife`) and the
   refinement, proved. *done*
8. Proof of `FormatReached`. *done*
9. Processes on any hosts; `SingleInstance` and its refinement, proved. *done*
10. The safety beneath liveness: countdowns, rankings and waits, proved. *done*
11. `conn_time` with a clock in `SpeakerControl`: which speakers a TIME answer is right for.
12. The control-socket thread's dispatch, unknown commands included.
13. Shutdown composed with the threads of `CastServer`, and `ServerLifecycle`'s signals inside `ServerMutex`.
