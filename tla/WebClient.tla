------------------------------ MODULE WebClient ------------------------------
(***************************************************************************)
(* The reconnecting WebSocket of the web trader: one WebSocketService      *)
(* (services/ws.ts) under the effect of App.tsx, which connects when it    *)
(* runs and disconnects when it is cleaned up.  React's StrictMode runs    *)
(* the effect, cleans it up and runs it again, in one go.                  *)
(*                                                                         *)
(* The callbacks of a socket belong to that socket, but what they do, they *)
(* do to the fields of the service, which may belong to a later one by     *)
(* then.  JavaScript runs a callback to its end: each is one step.  A      *)
(* service has one endpoint, since no code calls setMarket.                *)
(***************************************************************************)
EXTENDS Integers, FiniteSets

CONSTANTS
  Socket,                \* the sockets of the browser; a closed one is used again
  maxReconnectAttempts,
  NoSocket,              \* the service has no socket
  MaxMounts              \* bound: times the effect runs

ASSUME SocketAssumption == NoSocket \notin Socket
ASSUME BoundsAssumption == maxReconnectAttempts \in Nat /\ MaxMounts \in Nat

VARIABLES
  \* The service:
  ws,                 \* this.ws, also when that socket is closed
  reconnectAttempts,
  scheduled,          \* timeouts that will connect
  \* The browser and the gateway:
  readyState,         \* readyState[s]: "closed" also before it is used
  subscribed,         \* subscribed[s]: messages subscribe sent on s
  up,                 \* the gateway can be reached
  \* The application:
  mounted,            \* the effect has run and was not cleaned up
  mounts              \* times that it has run

vars == <<ws, reconnectAttempts, scheduled, readyState, subscribed, up,
          mounted, mounts>>

Alive == {s \in Socket : readyState[s] # "closed"}

-----------------------------------------------------------------------------
(* Slips: plausible mistakes, used by no action.                           *)

\* onerror schedules a reconnect as onclose does.
RetryTwice ==
  /\ reconnectAttempts' = reconnectAttempts + 1
  /\ scheduled' = scheduled + 2
\* onclose retries however often it has.
RetryAlways ==
  /\ reconnectAttempts' = reconnectAttempts + 1
  /\ scheduled' = scheduled + 1
\* subscribe is sent by connect, before the socket is open.
SendEarly(state) == subscribed

-----------------------------------------------------------------------------
(* services/ws.ts                                                          *)

\* connect(): a new socket takes the place of the one there is.
Connect ==
  \E s \in Socket :
    /\ readyState[s] = "closed"
    /\ readyState' = [readyState EXCEPT ![s] = "connecting"]
    /\ subscribed' = [subscribed EXCEPT ![s] = 0]
    /\ ws' = s

\* send(): on this.ws, if that is open in state; dropped otherwise.
Send(state) ==
  IF ws # NoSocket /\ state[ws] = "open"
  THEN [subscribed EXCEPT ![ws] = @ + 1] ELSE subscribed

\* onopen
Open(s) ==
  /\ up
  /\ readyState[s] = "connecting"
  /\ readyState' = [readyState EXCEPT ![s] = "open"]
  /\ reconnectAttempts' = 0
  /\ subscribed' = Send(readyState')
  /\ UNCHANGED <<ws, scheduled, up, mounted, mounts>>

\* setTimeout, with a delay that grows with the attempts.
Retry ==
  IF reconnectAttempts < maxReconnectAttempts
  THEN /\ reconnectAttempts' = reconnectAttempts + 1
       /\ scheduled' = scheduled + 1
  ELSE UNCHANGED <<reconnectAttempts, scheduled>>

\* onclose, whoever closed the socket, and whether it is this.ws or not.
Closed(s) ==
  /\ readyState[s] = "closing" \/ (~up /\ s \in Alive)
  /\ readyState' = [readyState EXCEPT ![s] = "closed"]
  /\ Retry
  /\ UNCHANGED <<ws, subscribed, up, mounted, mounts>>

\* A timeout fires.
Reconnect ==
  /\ scheduled > 0
  /\ Connect
  /\ scheduled' = scheduled - 1
  /\ UNCHANGED <<reconnectAttempts, up, mounted, mounts>>

-----------------------------------------------------------------------------
(* app/App.tsx                                                             *)

Mount ==
  /\ ~mounted /\ mounts < MaxMounts
  /\ Connect
  /\ mounted' = TRUE
  /\ mounts' = mounts + 1
  /\ UNCHANGED <<reconnectAttempts, scheduled, up>>

\* disconnect(): no timeout is cleared, and onclose stays.
Unmount ==
  /\ mounted
  /\ readyState' = IF ws \in Alive THEN [readyState EXCEPT ![ws] = "closing"]
                   ELSE readyState
  /\ ws' = NoSocket
  /\ mounted' = FALSE
  /\ UNCHANGED <<reconnectAttempts, scheduled, subscribed, up, mounts>>

\* The gateway, or the network, goes and comes back.
Gateway ==
  /\ up' = ~up
  /\ UNCHANGED <<ws, reconnectAttempts, scheduled, readyState, subscribed,
                 mounted, mounts>>

-----------------------------------------------------------------------------
Init ==
  /\ ws = NoSocket
  /\ reconnectAttempts = 0
  /\ scheduled = 0
  /\ readyState = [s \in Socket |-> "closed"]
  /\ subscribed = [s \in Socket |-> 0]
  /\ up = TRUE
  /\ mounted = FALSE
  /\ mounts = 0

Next ==
  \/ Mount \/ Unmount \/ Gateway \/ Reconnect
  \/ \E s \in Socket : Open(s) \/ Closed(s)

Spec == Init /\ [][Next]_vars

\* Timeouts fire, and a socket that connects or closes does so in the end.
FairSpec ==
  /\ Spec
  /\ WF_vars(Reconnect)
  /\ \A s \in Socket : WF_vars(Open(s)) /\ WF_vars(Closed(s))

-----------------------------------------------------------------------------
(* Properties.                                                             *)

TypeOK ==
  /\ ws \in Socket \cup {NoSocket}
  /\ reconnectAttempts \in 0..maxReconnectAttempts
  /\ scheduled \in Nat
  /\ readyState \in [Socket -> {"connecting", "open", "closing", "closed"}]
  /\ subscribed \in [Socket -> Nat]
  /\ up \in BOOLEAN /\ mounted \in BOOLEAN
  /\ mounts \in 0..MaxMounts

\* Reconnecting multiplies nothing: every run of the effect leaves one socket,
\* or one timeout that will open it, however often connections are lost, and
\* whichever of them disconnect() meant to end.
NeverForks == Cardinality(Alive) + scheduled <= mounts

\* A mounted service that is still trying is connected and subscribed once the
\* gateway stays up.  (It is not trying when a socket that it has lost sight of
\* is the one that connects: that one opens and nothing subscribes it.)
Trying == scheduled > 0 \/ (ws \in Alive /\ readyState[ws] = "connecting")
Recovers ==
  (mounted /\ up /\ Trying)
    ~> (~mounted \/ ~up \/ (ws \in Alive /\ readyState[ws] = "open" /\ subscribed[ws] > 0))

=============================================================================
