----------------------------- MODULE GatewaySocket -----------------------------
(***************************************************************************)
(* The browser's connection to the gateway (src/lib/websocket.ts). One     *)
(* set of module variables serves every socket there ever was: the socket  *)
(* that is current, whether its handshake is complete, the heartbeat, the  *)
(* timer of the next attempt. The handlers of an earlier socket write the  *)
(* same variables, and its close may be reported long after it was asked   *)
(* for.                                                                    *)
(***************************************************************************)
EXTENDS Naturals, FiniteSets

CONSTANTS
  LastSocket,  \* bound: sockets that are opened
  MaxAttempts, \* maxReconnectAttempts
  MaxMissed,   \* MAX_MISSED_PONGS
  MaxStrays,   \* bound: reconnections asked for before the timer of the last has fired
  PathsToTry,  \* the paths to try when the root path gives no handshake
  Optional     \* NEXT_PUBLIC_GATEWAY_OPTIONAL

ASSUME SocketAssumption ==
  /\ {LastSocket, MaxAttempts, MaxMissed, MaxStrays, PathsToTry} \subseteq Nat
  /\ MaxMissed > 0 /\ Optional \in BOOLEAN

VARIABLES
  ws,         \* readyState of each socket, and whether its URL has the root path
  active,     \* wsRef; 0 stands for null
  handshake,  \* handshakeCompleteRef
  shown,      \* connection.isConnected of the store
  beating,    \* pingIntervalRef
  missed,     \* missedPongsRef
  pings,      \* gatewaySupportsPingRef
  manual,     \* manualDisconnectRef
  blocked,    \* nonRetryableErrorRef
  tokenOnly,  \* tokenOnlyFallbackTriedRef
  attempts,   \* reconnectAttemptsRef
  url,        \* reconnectUrl: 'none', 'root', 'path' or 'bad', which the browser takes no socket for
  tried,      \* wsPathFallbackTriedRef
  timer,      \* the pending timer in reconnectTimeoutRef
  strays,     \* pending timers that no variable holds
  pairing,    \* the sockets for which a pairing is being approved
  crossed     \* history: a handler of one socket ran while another was current

socketVars == <<ws, active, handshake, shown, beating, missed, pings, manual, blocked, tokenOnly,
                attempts, url, tried, timer, strays, pairing, crossed>>

Sockets == 1..LastSocket
Urls == {"root", "path"}
Addresses == Urls \cup {"bad"}
(* A timer connects to a path it was set with, or to reconnectUrl.         *)
Timers == {"path", "latest"}

SocketTypeOK ==
  /\ ws \in [Sockets -> [state : {"none", "connecting", "open", "closing", "closed"}, url : Urls]]
  /\ active \in 0..LastSocket
  /\ handshake \in BOOLEAN /\ shown \in BOOLEAN /\ beating \in BOOLEAN /\ pings \in BOOLEAN
  /\ missed \in 0..MaxMissed
  /\ manual \in BOOLEAN /\ blocked \in BOOLEAN /\ tokenOnly \in BOOLEAN /\ crossed \in BOOLEAN
  /\ attempts \in 0..MaxAttempts
  /\ url \in Addresses \cup {"none"}
  /\ tried \in 0..PathsToTry
  /\ timer \in Timers \cup {"none"}
  /\ strays \in [Timers -> Nat]
  /\ pairing \subseteq Sockets

SocketInit ==
  /\ ws = [n \in Sockets |-> [state |-> "none", url |-> "root"]]
  /\ active = 0
  /\ handshake = FALSE /\ shown = FALSE /\ beating = FALSE /\ pings = TRUE
  /\ missed = 0
  /\ manual = FALSE /\ blocked = FALSE /\ tokenOnly = FALSE /\ crossed = FALSE
  /\ attempts = 0
  /\ url = "none"
  /\ tried = 0
  /\ timer = "none"
  /\ strays = [k \in Timers |-> 0]
  /\ pairing = {}

Is(n, states) == n # 0 /\ ws[n].state \in states
IsLive(n) == Is(n, {"connecting", "open"})
Unused(n) == ws[n].state = "none" /\ \A k \in Sockets : k < n => ws[k].state # "none"
StopHeartbeat == beating' = FALSE /\ missed' = 0

-----------------------------------------------------------------------------
(* connect                                                                 *)
AlreadyConnected_Never == FALSE
AlreadyConnected == IsLive(active)

(* The constructor of WebSocket throws for a bad address, which leaves the *)
(* socket that was there in wsRef and sets no timer.                       *)
Connect(to) ==
  IF AlreadyConnected
  THEN UNCHANGED <<ws, active, handshake, shown, manual, blocked, url, tried, crossed>>
  ELSE /\ handshake' = FALSE /\ manual' = FALSE /\ blocked' = FALSE
       /\ url' = to
       /\ tried' = IF url = to THEN tried ELSE 0
       /\ IF to = "bad" THEN shown' = FALSE /\ UNCHANGED <<ws, active, crossed>>
          ELSE /\ \E n \in Sockets :
                    /\ Unused(n)
                    /\ ws' = [ws EXCEPT ![n] = [state |-> "connecting", url |-> to]]
                    /\ active' = n
               /\ crossed' = (crossed \/ \E k \in Sockets : Is(k, {"connecting", "open", "closing"}))
               /\ UNCHANGED shown

(* The page, or the panel of gateways.                                     *)
UserConnects(to) ==
  /\ Connect(to)
  /\ UNCHANGED <<beating, missed, pings, tokenOnly, attempts, timer, strays, pairing>>

TimerFires ==
  /\ timer # "none"
  /\ Connect(IF timer = "path" THEN "path" ELSE url)
  /\ timer' = "none"
  /\ UNCHANGED <<beating, missed, pings, tokenOnly, attempts, strays, pairing>>

StrayFires(k) ==
  /\ strays[k] > 0
  /\ Connect(IF k = "path" THEN "path" ELSE url)
  /\ strays' = [strays EXCEPT ![k] = @ - 1]
  /\ UNCHANGED <<beating, missed, pings, tokenOnly, attempts, timer, pairing>>

-----------------------------------------------------------------------------
(* What the gateway sends on an open socket.                               *)

SocketOpens(n) ==
  /\ Is(n, {"connecting"})
  /\ ws' = [ws EXCEPT ![n].state = "open"]
  /\ UNCHANGED <<active, handshake, shown, beating, missed, pings, manual, blocked, tokenOnly,
                 attempts, url, tried, timer, strays, pairing, crossed>>

(* The connect request was answered.                                       *)
HandshakeDone(n) ==
  /\ Is(n, {"open"}) /\ ~handshake
  /\ handshake' = TRUE /\ shown' = TRUE /\ beating' = TRUE
  /\ attempts' = 0
  /\ UNCHANGED <<ws, active, missed, pings, manual, blocked, tokenOnly, url, tried, timer, strays,
                 pairing, crossed>>

CloseSocket(n) == ws' = IF IsLive(n) THEN [ws EXCEPT ![n].state = "closing"] ELSE ws

(* The device is rejected and there is a token: once it is tried alone.    *)
FallBackToToken(n) ==
  /\ Is(n, {"open"}) /\ ~tokenOnly
  /\ tokenOnly' = TRUE
  /\ StopHeartbeat
  /\ CloseSocket(n)
  /\ UNCHANGED <<active, handshake, shown, pings, manual, blocked, attempts, url, tried, timer,
                 strays, pairing, crossed>>

(* An error that no retry helps.                                           *)
Refused(n) ==
  /\ Is(n, {"open"})
  /\ blocked' = TRUE
  /\ StopHeartbeat
  /\ CloseSocket(n)
  /\ UNCHANGED <<active, handshake, shown, pings, manual, tokenOnly, attempts, url, tried, timer,
                 strays, pairing, crossed>>

(* 'pairing required': the approval awaits two requests, and then closes   *)
(* the socket it was asked on, whatever became of it.                      *)
PairingRequired(n) ==
  /\ Is(n, {"open"}) /\ n \notin pairing
  /\ pairing' = pairing \cup {n}
  /\ UNCHANGED <<ws, active, handshake, shown, beating, missed, pings, manual, blocked, tokenOnly,
                 attempts, url, tried, timer, strays, crossed>>

PairingEnds(n, approved) ==
  /\ n \in pairing
  /\ pairing' = pairing \ {n}
  /\ IF approved THEN StopHeartbeat /\ CloseSocket(n) ELSE UNCHANGED <<ws, beating, missed>>
  /\ crossed' = (crossed \/ (approved /\ active # n))
  /\ UNCHANGED <<active, handshake, shown, pings, manual, blocked, tokenOnly, attempts, url, tried,
                 timer, strays>>

-----------------------------------------------------------------------------
(* Heartbeat.                                                              *)

Ping ==
  /\ beating /\ Is(active, {"open"}) /\ handshake /\ pings
  /\ IF missed >= MaxMissed THEN CloseSocket(active) /\ UNCHANGED missed
     ELSE missed' = missed + 1 /\ UNCHANGED ws
  /\ UNCHANGED <<active, handshake, shown, beating, pings, manual, blocked, tokenOnly, attempts,
                 url, tried, timer, strays, pairing, crossed>>

(* The answer, or one that says there is no such method.                   *)
Pong(supported) ==
  /\ Is(active, {"open"}) /\ missed > 0
  /\ supported => handshake
  /\ missed' = 0
  /\ pings' = (pings /\ supported)
  /\ UNCHANGED <<ws, active, handshake, shown, beating, manual, blocked, tokenOnly, attempts, url,
                 tried, timer, strays, pairing, crossed>>

-----------------------------------------------------------------------------
(* onclose                                                                 *)

(* Assigning reconnectTimeoutRef forgets a timer that is still pending.    *)
SetTimer(k) ==
  /\ timer' = k
  /\ strays' = IF timer = "none" THEN strays ELSE [strays EXCEPT ![timer] = @ + 1]

NoRetry == UNCHANGED <<attempts, url, tried, timer, strays>>

RetriesByPath(n) == ~handshake /\ ws[n].url = "root" /\ tried < PathsToTry

RetryByPath(n) ==
  /\ tried' = tried + 1
  /\ url' = "path"
  /\ SetTimer("path")
  /\ UNCHANGED attempts

Retry_OnceLess(n) ==
  IF manual THEN NoRetry
  ELSE IF RetriesByPath(n) THEN RetryByPath(n)
  ELSE IF blocked \/ Optional \/ attempts + 1 >= MaxAttempts THEN NoRetry
  ELSE attempts' = attempts + 1 /\ SetTimer("latest") /\ UNCHANGED <<url, tried>>
Retry_OnceMore(n) ==
  IF manual THEN NoRetry
  ELSE IF RetriesByPath(n) THEN RetryByPath(n)
  ELSE IF blocked \/ Optional \/ attempts > MaxAttempts THEN NoRetry
  ELSE attempts' = attempts + 1 /\ SetTimer("latest") /\ UNCHANGED <<url, tried>>
Retry(n) ==
  IF manual THEN NoRetry
  ELSE IF RetriesByPath(n) THEN RetryByPath(n)
  ELSE IF blocked \/ Optional \/ attempts = MaxAttempts THEN NoRetry
  ELSE attempts' = attempts + 1 /\ SetTimer("latest") /\ UNCHANGED <<url, tried>>

GatewayCloses_Shown(n) ==
  /\ Is(n, {"connecting", "open", "closing"})
  /\ ws' = [ws EXCEPT ![n].state = "closed"]
  /\ handshake' = FALSE
  /\ StopHeartbeat
  /\ Retry(n)
  /\ crossed' = (crossed \/ active \notin {0, n})
  /\ UNCHANGED <<active, shown, pings, manual, blocked, tokenOnly, pairing>>
GatewayCloses(n) ==
  /\ Is(n, {"connecting", "open", "closing"})
  /\ ws' = [ws EXCEPT ![n].state = "closed"]
  /\ handshake' = FALSE /\ shown' = FALSE
  /\ StopHeartbeat
  /\ Retry(n)
  /\ crossed' = (crossed \/ active \notin {0, n})
  /\ UNCHANGED <<active, pings, manual, blocked, tokenOnly, pairing>>

-----------------------------------------------------------------------------
(* disconnect, alone and as the first half of reconnect.                   *)
Disconnect ==
  /\ manual' = TRUE
  /\ attempts' = 0 /\ tried' = 0
  /\ timer' = "none"
  /\ StopHeartbeat
  /\ CloseSocket(active)
  /\ active' = 0
  /\ handshake' = FALSE /\ shown' = FALSE
  /\ UNCHANGED <<pings, blocked, tokenOnly, url, pairing, crossed>>

(* The timer of a second that follows is in no variable.                   *)
UserReconnects ==
  /\ strays["latest"] < MaxStrays
  /\ Disconnect
  /\ strays' = IF url = "none" THEN strays ELSE [strays EXCEPT !["latest"] = @ + 1]

SocketNext ==
  \/ \E to \in Addresses : UserConnects(to)
  \/ TimerFires \/ \E k \in Timers : StrayFires(k)
  \/ \E n \in Sockets :
       \/ SocketOpens(n) \/ HandshakeDone(n) \/ FallBackToToken(n) \/ Refused(n)
       \/ PairingRequired(n) \/ GatewayCloses(n)
       \/ \E approved \in BOOLEAN : PairingEnds(n, approved)
  \/ Ping \/ \E supported \in BOOLEAN : Pong(supported)
  \/ UserReconnects

SocketSpec == SocketInit /\ [][SocketNext]_socketVars

-----------------------------------------------------------------------------
(* However timers, clicks and closes come together, there is one live      *)
(* socket at most, and it is the one that messages are sent on.            *)
OneLiveSocket == \A n \in Sockets : IsLive(n) => n = active

(* A gateway that is shown as connected has a heartbeat that would notice  *)
(* if it fell silent, until its socket is closing. Only if the handlers of *)
(* an earlier socket come late can it be shown without one.                *)
ShownIsGuarded ==
  ~crossed =>
    /\ shown <=> handshake
    /\ handshake => \/ Is(active, {"open"}) /\ beating
                    \/ Is(active, {"closing"})

(* A connection that was lost is tried again until the attempts are used   *)
(* up: it never just ends, unless at an address that the browser refuses.  *)
LostIsRetried ==
  url \in Urls /\ ~manual /\ ~blocked /\ ~Optional /\ attempts < MaxAttempts =>
    \/ \E n \in Sockets : Is(n, {"connecting", "open", "closing"})
    \/ timer # "none" \/ \E k \in Timers : strays[k] > 0

=============================================================================
