------------------------------- MODULE Daemon -------------------------------
(***************************************************************************)
(* The life of the daemon process and its control socket: bootstrap with   *)
(* its check for a daemon that already runs, stale socket files of         *)
(* processes that ended, shutdown, restart by re-execution, and the CLI's  *)
(* stop and restart, which learn how it went only from the socket.         *)
(***************************************************************************)
EXTENDS Integers, FiniteSets

CONSTANTS
    Procs,      \* processes that may be started as the daemon
    Permissions,  \* sets of candidate paths the user who starts it may use
    Clis,       \* CLI invocations
    Commands,   \* what one of them may be: "stop", "restart"
    MaxImages   \* bound: images executed, first starts and re-executions

Paths == 1..2    \* SOCKET_PATH_CANDIDATES in order

VARIABLES
    proc,      \* process -> [pc, image, path, can], can the paths its user may use
    file,      \* path -> the image whose socket file is there, 0 for none
    apiPort,   \* the image bound to the HTTP API's address, 0 for none
    control,   \* process -> transitions requested of its main loop
    cli,       \* CLI -> [cmd, pc, before, asked, unread, result, alone]: unread, the image
               \* asked has not handled the request yet; alone is history: no image but the
               \* one asked for its status listened, or came to, while that one was up
    images,    \* images executed so far; an image's number is its started_at_ms
    exposed    \* history: images that bound a path where another process had found a
               \* stale file that it had still to remove

daemonVars == <<proc, file, apiPort, control, cli, images, exposed>>

Off == [pc |-> "off", image |-> 0, path |-> 0, can |-> {}]

Alive(image) == image # 0 /\ \E p \in Procs : proc[p].image = image

\* An image that has bound its socket answers on it, also before the API is up.
Listening(image) == image # 0 /\ \E p \in Procs : proc[p].image = image /\ proc[p].pc \in {"api", "run"}

\* UnixStream::connect at a path: a stale file refuses, like no file.
Connects(path) == Listening(file[path])

-----------------------------------------------------------------------------
(* bootstrap                                                               *)

\* A process image starts (config, database and DNS come first) and reaches
\* socket::server::initialize.
Execute(p, can) ==
    /\ images < MaxImages
    /\ images' = images + 1
    /\ proc' = [proc EXCEPT ![p] = [pc |-> "check", image |-> images + 1, path |-> 1, can |-> can]]
    /\ control' = [control EXCEPT ![p] = {}]

Start(p) ==
    /\ proc[p] = Off
    /\ \E can \in Permissions : Execute(p, can)
    /\ UNCHANGED <<file, apiPort, cli, exposed>>

Goto(p, pc, path) == proc' = [proc EXCEPT ![p] = [pc |-> pc, image |-> @.image, path |-> path, can |-> @.can]]

SetPc(p, pc) == Goto(p, pc, proc[p].path)

Quit(p) == proc' = [proc EXCEPT ![p] = Off]

\* bind_daemon_socket after an error: the next candidate, if there is one.
NextCandidate(p) == IF proc[p].path = 2 THEN Quit(p) ELSE Goto(p, "check", 2)

CheckPathUnconnected(p) ==
    /\ proc[p].pc = "check"
    /\ IF proc[p].path \notin proc[p].can THEN NextCandidate(p)
       ELSE SetPc(p, IF file[proc[p].path] = 0 THEN "bind" ELSE "remove")
    /\ UNCHANGED <<file, apiPort, control, cli, images, exposed>>

\* prepare_socket_path up to its decision: another daemon listens here
\* (AddrInUse ends the process), the file is stale, or there is none.
CheckPath(p) ==
    /\ proc[p].pc = "check"
    /\ LET path == proc[p].path IN
       IF path \notin proc[p].can THEN NextCandidate(p)
       ELSE IF Connects(path) THEN Quit(p)
       ELSE SetPc(p, IF file[path] = 0 THEN "bind" ELSE "remove")
    /\ UNCHANGED <<file, apiPort, control, cli, images, exposed>>

\* remove_file, of whatever is there by now; NotFound is an error like others.
RemoveStale(p) ==
    /\ proc[p].pc = "remove"
    /\ IF file[proc[p].path] = 0 THEN NextCandidate(p) /\ UNCHANGED file
       ELSE SetPc(p, "bind") /\ file' = [file EXCEPT ![proc[p].path] = 0]
    /\ UNCHANGED <<apiPort, control, cli, images, exposed>>

\* UnixListener::bind fails with AddrInUse where a file is.
BindSocket(p) ==
    /\ proc[p].pc = "bind"
    /\ \/ file[proc[p].path] # 0 /\ Quit(p) /\ UNCHANGED <<file, cli, exposed>>
       \/ /\ file[proc[p].path] = 0
          /\ SetPc(p, "api")
          /\ file' = [file EXCEPT ![proc[p].path] = proc[p].image]
          /\ cli' = [c \in Clis |-> [cli[c] EXCEPT !.alone = @ /\ ~Alive(cli[c].before)]]
          /\ exposed' = IF \E q \in Procs : proc[q].pc = "remove" /\ proc[q].path = proc[p].path
                         THEN exposed \cup {proc[p].image} ELSE exposed
    /\ UNCHANGED <<apiPort, control, images>>

\* api::initialize: the address taken ends bootstrap with an error.
BindApi(p) ==
    /\ proc[p].pc = "api"
    /\ IF apiPort # 0 THEN Quit(p) /\ UNCHANGED apiPort
       ELSE SetPc(p, "run") /\ apiPort' = proc[p].image
    /\ UNCHANGED <<file, control, cli, images, exposed>>

-----------------------------------------------------------------------------
(* The main loop                                                           *)

ApiPortAfter(p) == IF apiPort = proc[p].image THEN 0 ELSE apiPort

\* Ctrl+C, or the process is killed; its socket file stays.
End(p) ==
    /\ proc[p] # Off
    /\ Quit(p)
    /\ apiPort' = ApiPortAfter(p)
    /\ control' = [control EXCEPT ![p] = {}]
    /\ UNCHANGED <<file, cli, images, exposed>>

Shutdown(p) ==
    /\ proc[p].pc = "run" /\ "shutdown" \in control[p]
    /\ End(p)

\* reexec: the listeners close with the image, what else was requested of it is
\* lost; or exec fails and the process goes on serving.
Restart(p) ==
    /\ proc[p].pc = "run" /\ "restart" \in control[p]
    /\ \/ Execute(p, proc[p].can) /\ apiPort' = ApiPortAfter(p)
       \/ /\ control' = [control EXCEPT ![p] = @ \ {"restart"}]
          /\ UNCHANGED <<proc, apiPort, images>>
    /\ UNCHANGED <<file, cli, exposed>>

-----------------------------------------------------------------------------
(* The CLI                                                                 *)

\* try_connect_daemon_socket: the image that answers, 0 if none does.
Reached == IF Connects(1) THEN file[1] ELSE IF Connects(2) THEN file[2] ELSE 0

\* daemon_socket_gone.
SocketGone == Reached = 0

Finish(c, result) == cli' = [cli EXCEPT ![c].pc = "done", ![c].result = result]

\* restart asks for the status before it asks for the restart.
AskStatus(c) ==
    /\ cli[c].pc = "status"
    /\ IF Reached = 0 THEN Finish(c, "failed")
       ELSE cli' = [cli EXCEPT ![c].pc = "send", ![c].before = Reached,
                                 ![c].alone = \A p \in Procs : Listening(proc[p].image) => proc[p].image = Reached]
    /\ UNCHANGED <<proc, file, apiPort, control, images, exposed>>

\* control::request: the main loop of the image gets it a little later.
Requested(image, what) ==
    [p \in Procs |-> IF proc[p].image = image THEN control[p] \cup {what} ELSE control[p]]

\* send_control_command, up to the wait for the answer.
SendCommand(c) ==
    /\ cli[c].pc = "send"
    /\ IF Reached = 0 THEN Finish(c, "failed")
       ELSE cli' = [cli EXCEPT ![c].pc = "sent", ![c].asked = Reached, ![c].unread = TRUE]
    /\ UNCHANGED <<proc, file, apiPort, control, images, exposed>>

\* handle_client, in a task of its own: the request takes effect also when the
\* CLI no longer waits; it is lost with the image.
HandleClient(c) ==
    /\ cli[c].unread /\ Listening(cli[c].asked)
    /\ cli' = [cli EXCEPT ![c].unread = FALSE, ![c].pc = IF @ = "sent" THEN "poll" ELSE @]
    /\ control' = Requested(cli[c].asked, IF cli[c].cmd = "stop" THEN "shutdown" ELSE "restart")
    /\ UNCHANGED <<proc, file, apiPort, images, exposed>>

ReplacedOnceReached(c) == Reached # 0

\* A status whose start time differs from the one before.
Replaced(c) == Reached # 0 /\ Reached # cli[c].before

\* The turn of its poll_with_deadline that ends stop.
PollStop(c) ==
    /\ cli[c].pc = "poll" /\ cli[c].cmd = "stop"
    /\ SocketGone
    /\ Finish(c, "stopped")
    /\ UNCHANGED <<proc, file, apiPort, control, images, exposed>>

\* The one that ends restart.
PollRestart(c) ==
    /\ cli[c].pc = "poll" /\ cli[c].cmd = "restart"
    /\ Replaced(c)
    /\ Finish(c, "restarted")
    /\ UNCHANGED <<proc, file, apiPort, control, images, exposed>>

\* CONTROL_TIMEOUT, STOP_DEADLINE or RESTART_DEADLINE; or the connection closes
\* before the answer.
Timeout(c) ==
    /\ cli[c].pc # "done"
    /\ Finish(c, "failed")
    /\ UNCHANGED <<proc, file, apiPort, control, images, exposed>>

\* Nothing runs, and the bound on starts is reached.
AllStopped ==
    /\ images = MaxImages /\ \A p \in Procs : proc[p] = Off
    /\ \A c \in Clis : cli[c].pc = "done"
    /\ UNCHANGED daemonVars

\* Nothing runs, a daemon that ended before may have left its socket file; the
\* CLI c is to do commands[c].
DaemonFrom(commands, left) ==
    /\ proc = [p \in Procs |-> Off]
    /\ file = left
    /\ apiPort = 0
    /\ control = [p \in Procs |-> {}]
    /\ cli = [c \in Clis |-> [cmd |-> commands[c], pc |-> IF commands[c] = "stop" THEN "send" ELSE "status",
                               before |-> 0, asked |-> 0, unread |-> FALSE, result |-> "", alone |-> TRUE]]
    /\ images = 1
    /\ exposed = {}

DaemonInit == \E commands \in [Clis -> Commands], left \in [Paths -> {0, 1}] : DaemonFrom(commands, left)

DaemonNext ==
    \/ \E p \in Procs : Start(p) \/ CheckPath(p) \/ RemoveStale(p) \/ BindSocket(p) \/ BindApi(p)
                        \/ End(p) \/ Shutdown(p) \/ Restart(p)
    \/ \E c \in Clis : AskStatus(c) \/ SendCommand(c) \/ HandleClient(c) \/ PollStop(c) \/ PollRestart(c) \/ Timeout(c)
    \/ AllStopped

DaemonSpec == DaemonInit /\ [][DaemonNext]_daemonVars

-----------------------------------------------------------------------------
(* Properties                                                              *)

\* A daemon that listens can be reached: its socket file is still the one it
\* bound, through crashes, stale files, re-executions and starts of further
\* processes. The exception is the one race of prepare_socket_path: an image that
\* binds between another process's failed connect and its remove_file loses its
\* file, which was no longer "safe to remove".
RunningReachable ==
    \A p \in Procs :
        proc[p].pc \in {"api", "run"} /\ proc[p].image \notin exposed => file[proc[p].path] = proc[p].image

\* When stop prints "Bindizr stopped." the image that took the request is gone and
\* no daemon listens, on either path, but for one exposed to the race above. A
\* process may still be on its way to its socket: one started meanwhile, or a
\* daemon that re-executes for another CLI's restart, which drops the shutdown.
StopReport(c) ==
    /\ Alive(cli[c].asked) => cli[c].asked \in exposed
    /\ \A p \in Procs : Listening(proc[p].image) => proc[p].image \in exposed

\* When restart prints "Bindizr restarted" the image that ran before is gone: the
\* answer of the old one, which serves until it re-executes, is not taken for the
\* new one's. (The exception: another process answered, or came to, while the old
\* image was up, on the other path or after its file was lost.)
RestartReport(c) == cli[c].alone => ~Alive(cli[c].before)

\* The two reports, at the moment they are printed.
ReportsTrue ==
    [][\A c \in Clis : cli'[c].result # cli[c].result =>
          /\ cli'[c].result = "stopped" => StopReport(c)
          /\ cli'[c].result = "restarted" => RestartReport(c)]_daemonVars
=============================================================================
