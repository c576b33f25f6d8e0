------------------------------- MODULE Listen -------------------------------
(***************************************************************************)
(* Listen and the socket file it leaves (pkg/protocol): daemons start,     *)
(* stop and crash on one path.  A crashed daemon leaves its file, which    *)
(* the next one removes before it binds; a listener that is closed removes *)
(* what is at its path, whoever's it is (net.UnixListener).                *)
(***************************************************************************)
CONSTANTS
  Daemons,
  NoFile     \* there is no file at the path

ASSUME ListenAssumption == NoFile \notin Daemons

VARIABLES
  path,    \* whose socket the path names; that daemon may be gone
  daemon,  \* per daemon: where it is in Listen
  met      \* history: the daemons that ran beside another one

socketVars == <<path, daemon, met>>

Running(d) == daemon[d] \in {"clearing", "binding", "permitting", "serving"}

SocketTypeOK ==
  /\ path \in Daemons \cup {NoFile}
  /\ daemon \in [Daemons -> {"stopped", "clearing", "binding", "permitting",
                             "serving", "in use"}]
  /\ met \subseteq Daemons

SocketInit ==
  /\ path \in Daemons \cup {NoFile}
  /\ daemon = [d \in Daemons |-> "stopped"]
  /\ met = {}

MoveTo(d, where) == daemon' = [daemon EXCEPT ![d] = where]

-----------------------------------------------------------------------------

\* The daemon calls Listen: MkdirAll and Chmod of the directory.
Start(d) ==
  /\ ~Running(d)
  /\ MoveTo(d, "clearing")
  /\ LET others == {e \in Daemons \ {d} : Running(e)} IN
       met' = IF others = {} THEN met \ {d} ELSE met \cup others \cup {d}
  /\ UNCHANGED path

\* Slip: a stale file is left where it is.
ClearNothing(d) ==
  /\ daemon[d] = "clearing"
  /\ MoveTo(d, "binding")
  /\ UNCHANGED <<path, met>>

\* os.Remove of a file a crashed daemon left, or of a running daemon's.
Clear(d) ==
  /\ daemon[d] = "clearing"
  /\ path' = NoFile
  /\ MoveTo(d, "binding")
  /\ UNCHANGED met

\* net.Listen: the file must not exist.
Bind(d) ==
  /\ daemon[d] = "binding"
  /\ IF path = NoFile
       THEN path' = d /\ MoveTo(d, "permitting")
       ELSE MoveTo(d, "in use") /\ UNCHANGED path
  /\ UNCHANGED met

\* Chmod of the file; it fails when another daemon has just removed it.
Permit(d) ==
  /\ daemon[d] = "permitting" /\ path # NoFile
  /\ MoveTo(d, "serving")
  /\ UNCHANGED <<path, met>>

\* The listener is closed, at the end of ServeContext or when Chmod fails.
CloseSocket(d) ==
  /\ daemon[d] \in {"permitting", "serving"}
  /\ path' = NoFile
  /\ MoveTo(d, "stopped")
  /\ UNCHANGED met

\* The daemon is killed, or an earlier step of Listen fails.
Crash(d) ==
  /\ Running(d)
  /\ MoveTo(d, "stopped")
  /\ UNCHANGED <<path, met>>

Daemon(d) ==
  Start(d) \/ Clear(d) \/ Bind(d) \/ Permit(d) \/ CloseSocket(d) \/ Crash(d)

SocketNext == \E d \in Daemons : Daemon(d)

SocketSpec == SocketInit /\ [][SocketNext]_socketVars

-----------------------------------------------------------------------------

\* A daemon that starts after any crash gets its socket, and as long as no other
\* daemon runs beside it, clients reach it: ErrDaemonUnreachable then means that
\* none is running (protocol.go:759).  A second daemon takes the socket from the
\* first, and the first removes the second's when it stops.
AloneIsReachable ==
  \A d \in Daemons \ met :
    /\ daemon[d] = "serving" => path = d
    /\ daemon[d] # "in use"

=============================================================================
