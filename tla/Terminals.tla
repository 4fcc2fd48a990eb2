------------------------------- MODULE Terminals -------------------------------
(***************************************************************************)
(* Terminals in the browser (src/lib/pty-websocket.ts, pty-manager.ts):    *)
(* every WebSocket gets a PTY of its own, started under an await. Sockets, *)
(* processes and timers end in any order, and each of the three handlers   *)
(* has to leave nothing of the other two behind.                           *)
(***************************************************************************)
EXTENDS Naturals

CONSTANT Connections  \* the WebSocket connections to /ws/pty

VARIABLES
  socket,   \* the browser's socket
  pty,      \* the process of its PtySession
  pool,     \* ptyPool
  clients,  \* the sessions whose client map holds their connection
  idleTimer, \* the sessions with an armed idleTimer
  early     \* history: connections that were closed while their PTY started

terminalVars == <<socket, pty, pool, clients, idleTimer, early>>

(* ended: the process is gone, but onExit has not run yet.                 *)
TerminalTypeOK ==
  /\ socket \in [Connections -> {"none", "open", "closing", "closed"}]
  /\ pty \in [Connections -> {"none", "starting", "live", "ended", "disposed"}]
  /\ pool \subseteq Connections /\ clients \subseteq Connections
  /\ idleTimer \subseteq Connections /\ early \subseteq Connections

TerminalInit ==
  /\ socket = [c \in Connections |-> "none"]
  /\ pty = [c \in Connections |-> "none"]
  /\ pool = {} /\ clients = {} /\ idleTimer = {} /\ early = {}

(* A client's close() closes the socket if it is open.                     *)
Closing(c) == IF socket[c] = "open" THEN [socket EXCEPT ![c] = "closing"] ELSE socket

-----------------------------------------------------------------------------
(* The connection handler, up to the await in start(): the request was     *)
(* validated, tmux and its session are there.                              *)
OpenTerminal(c) ==
  /\ socket[c] = "none"
  /\ socket' = [socket EXCEPT ![c] = "open"]
  /\ pty' = [pty EXCEPT ![c] = "starting"]
  /\ UNCHANGED <<pool, clients, idleTimer, early>>

(* No tmux, no such session, or the spawn failed: the socket is closed.    *)
StartFails(c) ==
  /\ pty[c] = "starting"
  /\ pty' = [pty EXCEPT ![c] = "none"]
  /\ socket' = Closing(c)
  /\ UNCHANGED <<pool, clients, idleTimer, early>>

(* start() arms the timer; addClient, which follows without another event  *)
(* in between, disarms it, whether or not the socket is still open.        *)
Attach(c) ==
  /\ pty[c] = "starting"
  /\ pty' = [pty EXCEPT ![c] = "live"]
  /\ pool' = pool \cup {c}
  /\ clients' = clients \cup {c}
  /\ UNCHANGED <<socket, idleTimer, early>>

(* ws.on('close'): only a connection that knows its ptyId leaves it.       *)
RemoveClient_Only(c) == clients' = clients \ {c} /\ idleTimer' = idleTimer
RemoveClient(c) == clients' = clients \ {c} /\ idleTimer' = idleTimer \cup {c}

SocketCloses(c) ==
  /\ socket[c] \in {"open", "closing"}
  /\ socket' = [socket EXCEPT ![c] = "closed"]
  /\ IF c \in pool THEN RemoveClient(c) ELSE UNCHANGED <<clients, idleTimer>>
  /\ early' = IF pty[c] = "starting" THEN early \cup {c} ELSE early
  /\ UNCHANGED <<pty, pool>>

(* The tmux client detaches, its session is killed, or it was killed by    *)
(* dispose(), whose exit is reported, too.                                 *)
ProcessEnds(c) ==
  /\ pty[c] = "live"
  /\ pty' = [pty EXCEPT ![c] = "ended"]
  /\ UNCHANGED <<socket, pool, clients, idleTimer, early>>

OnExit(c) ==
  /\ pty[c] = "ended"
  /\ pty' = [pty EXCEPT ![c] = "disposed"]
  /\ socket' = IF c \in clients THEN Closing(c) ELSE socket
  /\ clients' = clients \ {c}
  /\ pool' = pool \ {c}
  /\ UNCHANGED <<idleTimer, early>>

(* dispose(): it does nothing for a session that is disposed already.      *)
Dispose(c) ==
  IF pty[c] = "disposed" THEN UNCHANGED <<socket, pty, pool, clients>>
  ELSE /\ pty' = [pty EXCEPT ![c] = "disposed"]
       /\ socket' = IF c \in clients THEN Closing(c) ELSE socket
       /\ clients' = clients \ {c}
       /\ pool' = pool \ {c}

IdleTimeout(c) ==
  /\ c \in idleTimer
  /\ idleTimer' = idleTimer \ {c}
  /\ Dispose(c)
  /\ UNCHANGED early

TerminalNext ==
  \E c \in Connections :
    \/ OpenTerminal(c) \/ StartFails(c) \/ Attach(c) \/ SocketCloses(c)
    \/ ProcessEnds(c) \/ OnExit(c) \/ IdleTimeout(c)

TerminalSpec == TerminalInit /\ [][TerminalNext]_terminalVars

-----------------------------------------------------------------------------
(* A process that runs is watched: somebody with an open socket looks at   *)
(* it, or the timer that disposes it is armed. A session that ended keeps  *)
(* neither a client nor a socket that stays open. The connections that     *)
(* were closed under the await of their start are the exception: their     *)
(* client is added afterwards and nothing removes it.                      *)
PtyIsWatched ==
  \A c \in Connections \ early :
    /\ pty[c] = "live" =>
         \/ c \in idleTimer
         \/ c \in clients /\ socket[c] \in {"open", "closing"}
    /\ pty[c] = "disposed" => c \notin (clients \cup pool) /\ socket[c] # "open"

=============================================================================
