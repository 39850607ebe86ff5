----------------------------- MODULE ExtensionBridge -----------------------------
(***************************************************************************)
(* One channel between the server and the browser extension: a WebSocket   *)
(* the extension opens, and reopens when it closes, over which the server  *)
(* sends commands and gets results (extension-bridge.service.ts,           *)
(* extension-channel.gateway.ts, extension/background.js).                 *)
(*                                                                         *)
(* An action is one callback of the server's or the extension's event      *)
(* loop.  A socket closes at its two ends at different times, and what is  *)
(* in flight when the receiving end closes is lost.  Pings, pongs and      *)
(* hellos move no state that this module keeps.                            *)
(***************************************************************************)
EXTENDS Naturals, FiniteSets

CONSTANTS Calls,        \* the calls of sendCommand
          Sockets,      \* names for sockets, used again once they are forgotten
          None,         \* no socket
          MaxBrowsers   \* browsers that run the extension

ASSUME NoneAssumption == None \notin Sockets

VARIABLES
  current,  \* the channel's socket, or None
  server,   \* server[s]: the socket's readyState at the server
  client,   \* the sockets that are open at the extension's end
  pending,  \* the calls in the channel's pending map
  timers,   \* the calls whose timer is armed
  outcome,  \* outcome[c]: how c's promise is settled
  via,      \* via[c]: the socket c was sent on
  msg       \* msg[c]: how far c's command and its result have got

vars == <<current, server, client, pending, timers, outcome, via, msg>>

\* unread: the command was lost; unheard: it ran and its result was lost.
Progress == {"none", "sent", "unread", "running", "ok", "error", "unheard"}

TypeOK ==
  /\ current \in Sockets \cup {None}
  /\ server \in [Sockets -> {"open", "closing", "closed"}]
  /\ client \subseteq Sockets
  /\ pending \subseteq Calls /\ timers \subseteq Calls
  /\ outcome \in [Calls -> {"idle", "waiting", "refused", "ok", "error",
                            "timeout", "disconnected", "crashed"}]
  /\ via \in [Calls -> Sockets \cup {None}]
  /\ msg \in [Calls -> Progress]

Init ==
  /\ current = None
  /\ server = [s \in Sockets |-> "closed"]
  /\ client = {}
  /\ pending = {} /\ timers = {}
  /\ outcome = [c \in Calls |-> "idle"]
  /\ via = [c \in Calls |-> None]
  /\ msg = [c \in Calls |-> "none"]

-----------------------------------------------------------------------------
\* What is under way on socket s in a state of From becomes To.
Lose(s, From, To) ==
  [c \in Calls |-> IF via[c] = s /\ msg[c] \in From THEN To ELSE msg[c]]

\* Mutant: a socket is attached before it is open.
ConnectEarly(s) ==
  /\ server[s] = "closed" /\ s \notin client
  /\ Cardinality(client) < MaxBrowsers
  /\ client' = client \cup {s}
  /\ server' = [server EXCEPT ![s] = "connecting"]
  /\ current' = s
  /\ UNCHANGED <<pending, timers, outcome, via, msg>>

\* The extension opens a socket; attach makes it the channel's and closes
\* the one before it.
Connect(s) ==
  /\ server[s] = "closed" /\ s \notin client
  /\ \A c \in Calls : via[c] = s => msg[c] # "running"
  /\ Cardinality(client) < MaxBrowsers
  /\ client' = client \cup {s}
  /\ server' = [t \in Sockets |-> IF t = s THEN "open"
                                  ELSE IF t = current /\ server[t] = "open" THEN "closing"
                                  ELSE server[t]]
  /\ current' = s
  /\ UNCHANGED <<pending, timers, outcome, via, msg>>

\* The connection breaks, or the extension closes it.
Drop(s) ==
  /\ server[s] = "open" /\ s \in client
  /\ server' = [server EXCEPT ![s] = "closing"]
  /\ client' = client \ {s}
  /\ msg' = Lose(s, {"sent"}, "unread")
  /\ UNCHANGED <<current, pending, timers, outcome, via>>

\* The extension sees that the server has closed its end.
ClientClosed(s) ==
  /\ server[s] # "open" /\ s \in client
  /\ client' = client \ {s}
  /\ msg' = Lose(s, {"sent"}, "unread")
  /\ UNCHANGED <<current, server, pending, timers, outcome, via>>

\* Mutant: the close of a socket that has been replaced is not told apart.
DetachAny(s) ==
  /\ current' = None
  /\ pending' = {}
  /\ timers' = timers \ pending
  /\ outcome' = [c \in Calls |-> IF c \in pending THEN "disconnected" ELSE outcome[c]]

\* detach: unless s has been replaced, every pending call is rejected,
\* whichever socket it was sent on.
Detach(s) ==
  IF current \in {None, s}
  THEN /\ current' = None
       /\ pending' = {}
       /\ timers' = timers \ pending
       /\ outcome' = [c \in Calls |-> IF c \in pending THEN "disconnected" ELSE outcome[c]]
  ELSE UNCHANGED <<current, pending, timers, outcome>>

\* The server's end is closed for good: handleDisconnect.
Disconnect(s) ==
  /\ server[s] = "closing"
  /\ server' = [server EXCEPT ![s] = "closed"]
  /\ msg' = Lose(s, {"ok", "error"}, "unheard")
  /\ Detach(s)
  /\ UNCHANGED <<client, via>>

-----------------------------------------------------------------------------
(* Commands *)

\* Mutant: no timer is armed.
SendUntimed(c) ==
  /\ outcome[c] = "idle" /\ current # None
  /\ outcome' = [outcome EXCEPT ![c] = "waiting"]
  /\ pending' = pending \cup {c}
  /\ via' = [via EXCEPT ![c] = current]
  /\ msg' = [msg EXCEPT ![c] = "sent"]
  /\ UNCHANGED <<current, server, client, timers>>

\* sendCommand: a socket that is no longer open swallows the command.
SendCommand(c) ==
  /\ outcome[c] = "idle"
  /\ IF current = None
     THEN /\ outcome' = [outcome EXCEPT ![c] = "refused"]
          /\ UNCHANGED <<pending, timers, via, msg>>
     ELSE /\ outcome' = [outcome EXCEPT ![c] = "waiting"]
          /\ pending' = pending \cup {c}
          /\ timers' = timers \cup {c}
          /\ via' = [via EXCEPT ![c] = current]
          /\ msg' = [msg EXCEPT ![c] = IF server[current] = "open" /\ current \in client
                                       THEN "sent" ELSE "unread"]
  /\ UNCHANGED <<current, server, client>>

\* The extension gets the command and starts on it ...
Dispatch(c) ==
  /\ msg[c] = "sent" /\ via[c] \in client
  /\ msg' = [msg EXCEPT ![c] = "running"]
  /\ UNCHANGED <<current, server, client, pending, timers, outcome, via>>

\* ... and sends what came of it over the socket the command came in on.
SendResult(c) ==
  /\ msg[c] = "running"
  /\ \E o \in {"ok", "error"} :
       msg' = [msg EXCEPT ![c] = IF via[c] \in client /\ server[via[c]] # "closed"
                                 THEN o ELSE "unheard"]
  /\ UNCHANGED <<current, server, client, pending, timers, outcome, via>>

\* Mutant: a result that comes too late is not recognised.
ResultAlways(c) ==
  /\ msg[c] \in {"ok", "error"} /\ server[via[c]] # "closed"
  /\ pending' = pending \ {c}
  /\ timers' = timers \ {c}
  /\ outcome' = [outcome EXCEPT ![c] = msg[c]]
  /\ msg' = [msg EXCEPT ![c] = "unheard"]
  /\ UNCHANGED <<current, server, client, via>>

\* handleMessage: a result counts if its call is pending, whichever socket
\* it comes in on.
Result(c) ==
  /\ msg[c] \in {"ok", "error"} /\ server[via[c]] # "closed"
  /\ IF c \in pending
     THEN /\ pending' = pending \ {c}
          /\ timers' = timers \ {c}
          /\ outcome' = [outcome EXCEPT ![c] = msg[c]]
     ELSE UNCHANGED <<pending, timers, outcome>>
  /\ msg' = [msg EXCEPT ![c] = "unheard"]
  /\ UNCHANGED <<current, server, client, via>>

\* Mutant: the timer does not take the call out of the pending map.
TimeoutKeeps(c) ==
  /\ c \in timers
  /\ timers' = timers \ {c}
  /\ outcome' = [outcome EXCEPT ![c] = "timeout"]
  /\ UNCHANGED <<current, server, client, pending, via, msg>>

Timeout(c) ==
  /\ c \in timers
  /\ timers' = timers \ {c}
  /\ pending' = pending \ {c}
  /\ outcome' = [outcome EXCEPT ![c] = "timeout"]
  /\ UNCHANGED <<current, server, client, via, msg>>

\* The server process ends, and its callers with it, and starts again.
Restart ==
  /\ current' = None
  /\ server' = [s \in Sockets |-> "closed"]
  /\ pending' = {} /\ timers' = {}
  /\ outcome' = [c \in Calls |-> IF outcome[c] = "waiting" THEN "crashed" ELSE outcome[c]]
  /\ msg' = [c \in Calls |-> IF msg[c] \in {"ok", "error"} THEN "unheard" ELSE msg[c]]
  /\ UNCHANGED <<client, via>>

Next ==
  \/ \E s \in Sockets : Connect(s) \/ Drop(s) \/ ClientClosed(s) \/ Disconnect(s)
  \/ \E c \in Calls : \/ SendCommand(c) \/ Dispatch(c) \/ SendResult(c)
                      \/ Result(c) \/ Timeout(c)
  \/ Restart

(***************************************************************************)
(* Timers fire, a closed end is noticed at the other, and the extension    *)
(* tries to reconnect every five seconds (its alarm does, should the timer *)
(* have been lost).  Nothing makes a command come to an end.               *)
(***************************************************************************)
Fairness ==
  /\ \A c \in Calls : WF_vars(Timeout(c))
  /\ \A s \in Sockets : WF_vars(ClientClosed(s)) /\ WF_vars(Disconnect(s))
  /\ WF_vars(\E s \in Sockets : Connect(s))

Spec == Init /\ [][Next]_vars

FairSpec == Spec /\ Fairness
-----------------------------------------------------------------------------
(* Correctness. *)

(***************************************************************************)
(* The three records of an open call agree: a promise is unsettled exactly *)
(* while its call is pending and its timer armed.  (A call in the map and  *)
(* not waiting would be leaked or settled twice; one waiting and not in    *)
(* the map would hang.)                                                    *)
(***************************************************************************)
PendingAgrees ==
  /\ pending = {c \in Calls : outcome[c] = "waiting"}
  /\ timers = pending

(***************************************************************************)
(* A channel without a socket has no open calls: whoever waits, waits for  *)
(* a socket whose close will be noticed.                                   *)
(***************************************************************************)
NoSocketNoCalls == current = None => pending = {}

(***************************************************************************)
(* A channel never stays without a socket because a socket it had replaced *)
(* is closed afterwards: while a socket is open, the channel has one.      *)
(***************************************************************************)
OpenSocketAttached ==
  (\E s \in Sockets : server[s] = "open") =>
    current # None /\ \A s \in Sockets : server[s] = "open" => s = current

(***************************************************************************)
(* A call is given up as disconnected only once the socket it was sent on  *)
(* is closing, though detach rejects all calls of the channel and sockets  *)
(* close in any order.                                                     *)
(***************************************************************************)
NeverCutOff ==
  [][\A c \in Calls :
       outcome[c] = "waiting" /\ outcome'[c] = "disconnected"
       => server[via[c]] # "open"]_vars

(***************************************************************************)
(* To its callers the channel is a remote call.                            *)
(***************************************************************************)
Remote == INSTANCE RemoteCall
            WITH ran <- {c \in Calls : msg[c] \in {"running", "ok", "error", "unheard"}}

IsRemoteCall == Remote!Spec

(***************************************************************************)
(* Every call ends: by its result, its timer, or a disconnect.             *)
(***************************************************************************)
CallsEnd == \A c \in Calls : outcome[c] = "waiting" ~> outcome[c] # "waiting"

(***************************************************************************)
(* The channel comes back after every failure, with two browsers taking    *)
(* it from each other as well as with one.                                 *)
(***************************************************************************)
Reconnects == []<>(current # None /\ server[current] = "open")
=============================================================================
