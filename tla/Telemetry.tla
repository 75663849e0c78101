----------------------------- MODULE Telemetry -----------------------------
(***************************************************************************)
(* How titan-hwm shows itself: the state file that titan-sysmon reads every      *)
(* second, and the command socket that the titan-hwm CLI asks.                      *)
(*                                                                          *)
(* A snapshot is the number of the tick that made it.  The daemon crashes and is     *)
(* started again by its unit; SIGPIPE is ignored for it, so that a client that left   *)
(* costs it nothing.  Only the CLI connects: it sends a command at once, and it may     *)
(* be killed at any moment.  The wording of the answers is left out.                     *)
(***************************************************************************)
EXTENDS Integers, Sequences

CONSTANTS
  Clients,   \* the runs of the CLI
  MaxTicks   \* bound on the ticks of a behaviour, over all lives of the daemon

VARIABLES
  daemon,    \* the tick thread: "off", "tick", "write", "rename", "fallback", "share" or "join"
  ticks,     \* the last tick, which names its snapshot
  tmp, stateFile, \* the temporary file and the state file: a snapshot, Absent or Torn
  shared,    \* shared_snap of the handler
  running,   \* running_ of the command server
  server,    \* its thread: "off", "poll", or the client it has accepted
  queue,     \* the connections that wait to be accepted
  client,    \* each client: [pc, answer]
  sysmon,    \* titan-sysmon: [shows, last], what it shows, Absent for not available, and
             \* (history) the last snapshot it showed
  log        \* history: [published, failed, inPlace], the ticks whose snapshot was whole in
             \* the state file, those at which publish met an error, whether a rename failed

telemetryVars == <<daemon, ticks, tmp, stateFile, shared, running, server, queue, client, sysmon, log>>
fileVars == <<tmp, stateFile, log>>
serverVars == <<shared, running, server, queue>>

Absent == 0
Torn == -1
Quiet == [pc |-> "off", answer |-> Absent]

TelemetryInit ==
  /\ daemon = "off" /\ ticks = 0
  /\ tmp = Absent /\ stateFile = Absent
  /\ shared = Absent /\ running = FALSE /\ server = "off" /\ queue = <<>>
  /\ client = [c \in Clients |-> Quiet]
  /\ sysmon = [shows |-> Absent, last |-> Absent]
  /\ log = [published |-> {}, failed |-> {}, inPlace |-> FALSE]

-----------------------------------------------------------------------------
\* The daemon

\* start(): a stale socket is removed and the thread listens.
StartServer ==
  /\ daemon = "off"
  /\ daemon' = "tick" /\ shared' = Absent /\ running' = TRUE /\ server' = "poll"
  /\ UNCHANGED <<ticks, fileVars, queue, client, sysmon>>

\* The tick builds its snapshot.
BuildSnapshot ==
  /\ daemon = "tick" /\ ticks < MaxTicks
  /\ daemon' = "write" /\ ticks' = ticks + 1
  /\ UNCHANGED <<fileVars, serverVars, client, sysmon>>

Succeeds == log' = [log EXCEPT !.published = @ \cup {ticks}]
Fails    == log' = [log EXCEPT !.failed = @ \cup {ticks}]

\* Were the state file written in place.
WriteInPlace ==
  /\ daemon = "write"
  /\ \/ stateFile # Torn /\ stateFile' = Torn /\ daemon' = daemon /\ UNCHANGED <<tmp, log>>
     \/ stateFile = Torn /\ stateFile' = ticks /\ tmp' = ticks /\ daemon' = "rename" /\ Succeeds
  /\ UNCHANGED <<ticks, serverVars, client, sysmon>>

\* publish(): the temporary file is truncated, then written whole; it returns early when the
\* file cannot be opened or written.
WriteTmp ==
  /\ daemon = "write"
  /\ \/ tmp # Torn /\ tmp' = Torn /\ UNCHANGED <<daemon, log>>
     \/ tmp = Torn /\ tmp' = ticks /\ daemon' = "rename" /\ UNCHANGED log
     \/ tmp' = tmp /\ daemon' = "share" /\ Fails
  /\ UNCHANGED <<ticks, stateFile, serverVars, client, sysmon>>

Rename ==
  /\ daemon = "rename"
  /\ \/ daemon' = "share" /\ stateFile' = tmp /\ tmp' = Absent /\ Succeeds
     \/ daemon' = "fallback" /\ log' = [log EXCEPT !.inPlace = TRUE] /\ UNCHANGED <<tmp, stateFile>>
  /\ UNCHANGED <<ticks, serverVars, client, sysmon>>

\* rec is set: the state file itself is truncated and written, and nobody looks whether that
\* worked.
FallBack ==
  /\ daemon = "fallback"
  /\ \/ stateFile # Torn /\ stateFile' = Torn /\ UNCHANGED <<daemon, log>>
     \/ stateFile = Torn /\ stateFile' = ticks /\ daemon' = "share" /\ Succeeds
     \/ stateFile' = stateFile /\ daemon' = "share" /\ Fails
  /\ UNCHANGED <<ticks, tmp, serverVars, client, sysmon>>

\* The same snapshot for the handler, under snap_mutex.
Share ==
  /\ daemon = "share"
  /\ daemon' = "tick" /\ shared' = ticks
  /\ UNCHANGED <<ticks, fileVars, running, server, queue, client, sysmon>>

\* SIGTERM, seen between two ticks: stop() clears running_ and joins the thread.
Stop ==
  /\ daemon = "tick"
  /\ daemon' = "join" /\ running' = FALSE
  /\ UNCHANGED <<ticks, fileVars, shared, server, queue, client, sysmon>>

Closed(who) == [c \in Clients |-> IF c \in who THEN [client[c] EXCEPT !.pc = "off"] ELSE client[c]]
Waiting == {queue[i] : i \in DOMAIN queue} \cup ({server} \cap Clients)

Joined ==
  /\ daemon = "join" /\ server = "off"
  /\ daemon' = "off" /\ queue' = <<>> /\ client' = Closed(Waiting)
  /\ UNCHANGED <<ticks, fileVars, shared, running, server, sysmon>>

DaemonCrash ==
  /\ daemon # "off"
  /\ daemon' = "off" /\ running' = FALSE /\ server' = "off" /\ queue' = <<>>
  /\ client' = Closed(Waiting)
  /\ UNCHANGED <<ticks, fileVars, shared, sysmon>>

-----------------------------------------------------------------------------
\* The command server's thread

\* Were poll to have no timeout.
PollForever ==
  /\ server = "poll"
  /\ queue # <<>> /\ server' = Head(queue) /\ queue' = Tail(queue)
  /\ UNCHANGED <<daemon, ticks, fileVars, shared, running, client, sysmon>>

\* loop(): poll returns with a connection or after 500 ms, when running_ is read again.
PollReturns ==
  /\ server = "poll"
  /\ \/ queue # <<>> /\ server' = Head(queue) /\ queue' = Tail(queue)
     \/ queue = <<>> /\ ~running /\ server' = "off" /\ UNCHANGED queue
  /\ UNCHANGED <<daemon, ticks, fileVars, shared, running, client, sysmon>>

\* The handler: "ping" needs no snapshot, any other command reads shared_snap; the answer is
\* written, if the client is still there, and the connection closed.
ServeClient ==
  /\ server \in Clients
  /\ client[server].pc \in {"sent", "gone"}
  /\ client' = [client EXCEPT ![server] =
       IF @.pc = "gone" THEN Quiet ELSE [@ EXCEPT !.pc = "off", !.answer = shared]]
  /\ server' = IF running THEN "poll" ELSE "off"
  /\ UNCHANGED <<daemon, ticks, fileVars, shared, running, queue, sysmon>>

-----------------------------------------------------------------------------
\* The CLI and titan-sysmon

\* daemon_connect.
Connect(c) ==
  /\ client[c].pc = "off" /\ running
  /\ client' = [client EXCEPT ![c] = [pc |-> "connected", answer |-> Absent]]
  /\ queue' = Append(queue, c)
  /\ UNCHANGED <<daemon, ticks, fileVars, shared, running, server, sysmon>>

\* query_daemon.
Send(c) ==
  /\ client[c].pc = "connected"
  /\ client' = [client EXCEPT ![c] = [@ EXCEPT !.pc = "sent"]]
  /\ UNCHANGED <<daemon, ticks, fileVars, serverVars, sysmon>>

ClientKilled(c) ==
  /\ client[c].pc \in {"connected", "sent"}
  /\ client' = [client EXCEPT ![c].pc = "gone"]
  /\ UNCHANGED <<daemon, ticks, fileVars, serverVars, sysmon>>

\* sampleThm: a file that is missing or does not parse is not available.
SampleThm ==
  /\ sysmon' = IF stateFile = Torn THEN [sysmon EXCEPT !.shows = Absent]
               ELSE [shows |-> stateFile, last |-> stateFile]
  /\ UNCHANGED <<daemon, ticks, fileVars, serverVars, client>>

TelemetryNext ==
  \/ StartServer \/ BuildSnapshot \/ WriteTmp \/ Rename \/ FallBack \/ Share \/ Stop \/ Joined
  \/ DaemonCrash \/ PollReturns \/ ServeClient \/ SampleThm
  \/ \E c \in Clients : Connect(c) \/ Send(c) \/ ClientKilled(c)

\* The daemon's threads run, and the CLI sends what it connected for.
TelemetryFairness ==
  /\ WF_telemetryVars(WriteTmp \/ Rename \/ FallBack \/ Share \/ Joined)
  /\ WF_telemetryVars(PollReturns)
  /\ WF_telemetryVars(ServeClient)
  /\ \A c \in Clients : WF_telemetryVars(Send(c))

TelemetrySpec == TelemetryInit /\ [][TelemetryNext]_telemetryVars /\ TelemetryFairness

-----------------------------------------------------------------------------
\* Properties

\* Whenever it reads and wherever the daemon crashes or publish fails, the monitor never goes
\* back to an older snapshot.  As long as no rename failed, the state file, once there, always
\* holds a whole snapshot, and the monitor never loses it.  And every answer of the socket was
\* in the file before, but for the ticks at which publish met an error, which are shared all
\* the same (publish, ThmReader::read, the handler).
SnapshotsAdvance ==
  [][/\ sysmon'.last >= sysmon.last
     /\ ~log'.inPlace => stateFile' >= stateFile /\ sysmon'.shows >= sysmon.shows
     /\ \A c \in Clients :
          client'[c].answer \in log'.published \cup log'.failed \cup {Absent}]_telemetryVars

\* A client that sent a command is answered or sees the connection close, and a daemon that
\* stops ends, with clients that wait or were killed (loop, stop, query_daemon).
ServerAnswers ==
  /\ \A c \in Clients : []<>(client[c].pc # "sent")
  /\ []<>(daemon # "join")
=============================================================================
