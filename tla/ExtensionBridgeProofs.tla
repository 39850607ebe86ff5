-------------------------- MODULE ExtensionBridgeProofs --------------------------
(***************************************************************************)
(* Theorems about ExtensionBridge, for any calls, sockets and number of    *)
(* browsers: its safety invariants, NeverCutOff, and that it implements    *)
(* RemoteCall.                                                             *)
(*                                                                         *)
(* detach rejects every pending call when the channel's socket closes or   *)
(* there is none.  That no call is cut off thereby rests on two facts that *)
(* no single callback shows: a channel without a socket has no pending     *)
(* call, and no socket but the channel's is ever open.                     *)
(***************************************************************************)
EXTENDS ExtensionBridge, TLAPS

\* A command that has left was sent by a call, and a waiting call has sent one.
Sent ==
  \A c \in Calls : /\ msg[c] # "none" => outcome[c] \notin {"idle", "refused"}
                   /\ outcome[c] = "waiting" => via[c] \in Sockets

IInv == TypeOK /\ PendingAgrees /\ NoSocketNoCalls /\ OpenSocketAttached /\ Sent

\* Losing what is under way on a socket keeps the types and starts nothing.
LEMMA LoseType ==
  ASSUME NEW s, NEW From, NEW To \in Progress \ {"none"}, "none" \notin From,
         msg \in [Calls -> Progress]
  PROVE  /\ Lose(s, From, To) \in [Calls -> Progress]
         /\ \A c \in Calls : Lose(s, From, To)[c] # "none" <=> msg[c] # "none"
BY DEF Lose

LEMMA Initially == Init => IInv
BY NoneAssumption DEF Init, IInv, TypeOK, PendingAgrees, NoSocketNoCalls, OpenSocketAttached,
                      Sent, Progress

\* What Detach does to the calls, whichever socket has closed.
LEMMA DetachKeeps ==
  ASSUME IInv, NEW s \in Sockets, Detach(s)
  PROVE  /\ current' \in Sockets \cup {None}
         /\ current' = IF current \in {None, s} THEN None ELSE current
         /\ pending' \subseteq Calls /\ timers' = pending'
         /\ outcome' \in [Calls -> {"idle", "waiting", "refused", "ok", "error",
                                    "timeout", "disconnected", "crashed"}]
         /\ pending' = {c \in Calls : outcome'[c] = "waiting"}
         /\ current' = None => pending' = {}
         /\ \A c \in Calls : /\ outcome'[c] = "waiting" => outcome[c] = "waiting"
                             /\ outcome'[c] \in {"idle", "refused"} => outcome'[c] = outcome[c]
<1> USE NoneAssumption DEF IInv, TypeOK, PendingAgrees, NoSocketNoCalls
<1>1. CASE current \in {None, s}
  BY <1>1 DEF Detach
<1>2. CASE current \notin {None, s}
  BY <1>2 DEF Detach
<1> QED BY <1>1, <1>2

(***************************************************************************)
(* One case per action.  Sockets: only Connect opens one, and closes the   *)
(* only other that was open.  Calls: only SendCommand starts one.          *)
(***************************************************************************)
LEMMA Inductive == IInv /\ [Next]_vars => IInv'
<1> SUFFICES ASSUME IInv, [Next]_vars PROVE IInv'
  OBVIOUS
<1> USE NoneAssumption DEF IInv, TypeOK
<1>1. ASSUME NEW s \in Sockets, Connect(s) PROVE IInv'
  BY <1>1 DEF Connect, PendingAgrees, NoSocketNoCalls, OpenSocketAttached, Sent
<1>2. ASSUME NEW s \in Sockets, Drop(s) \/ ClientClosed(s) PROVE IInv'
  <2>1. msg' = Lose(s, {"sent"}, "unread")
    BY <1>2 DEF Drop, ClientClosed
  <2>2. msg' \in [Calls -> Progress] /\ \A c \in Calls : msg'[c] # "none" <=> msg[c] # "none"
    BY <2>1, LoseType DEF Progress
  <2>3. server' \in [Sockets -> {"open", "closing", "closed"}]
        /\ \A t \in Sockets : server'[t] = "open" => server[t] = "open"
    BY <1>2 DEF Drop, ClientClosed
  <2> QED BY <1>2, <2>2, <2>3 DEF Drop, ClientClosed, PendingAgrees, NoSocketNoCalls,
                                  OpenSocketAttached, Sent
<1>3. ASSUME NEW s \in Sockets, Disconnect(s) PROVE IInv'
  <2>1. msg' \in [Calls -> Progress] /\ \A c \in Calls : msg'[c] # "none" <=> msg[c] # "none"
    BY <1>3, LoseType DEF Disconnect, Progress
  <2>2. Detach(s)
    BY <1>3 DEF Disconnect
  <2>3. server' = [server EXCEPT ![s] = "closed"] /\ server[s] = "closing"
        /\ client' = client /\ via' = via
    BY <1>3 DEF Disconnect
  <2>4. TypeOK'
    BY <2>1, <2>2, <2>3, DetachKeeps
  <2>5. PendingAgrees' /\ NoSocketNoCalls'
    BY <2>2, DetachKeeps DEF PendingAgrees, NoSocketNoCalls
  <2>6. OpenSocketAttached'
    BY <2>2, <2>3, DetachKeeps DEF OpenSocketAttached
  <2>7. Sent'
    BY <2>1, <2>2, <2>3, DetachKeeps DEF Sent
  <2> QED BY <2>4, <2>5, <2>6, <2>7
<1>4. ASSUME NEW c \in Calls, SendCommand(c) PROVE IInv'
  BY <1>4 DEF SendCommand, Progress, PendingAgrees, NoSocketNoCalls, OpenSocketAttached, Sent
<1>5. ASSUME NEW c \in Calls, Dispatch(c) \/ SendResult(c) PROVE IInv'
  BY <1>5 DEF Dispatch, SendResult, Progress, PendingAgrees, NoSocketNoCalls,
              OpenSocketAttached, Sent
<1>6. ASSUME NEW c \in Calls, Result(c) PROVE IInv'
  BY <1>6 DEF Result, Progress, PendingAgrees, NoSocketNoCalls, OpenSocketAttached, Sent
<1>7. ASSUME NEW c \in Calls, Timeout(c) PROVE IInv'
  BY <1>7 DEF Timeout, PendingAgrees, NoSocketNoCalls, OpenSocketAttached, Sent
<1>8. CASE Restart
  BY <1>8 DEF Restart, Progress, PendingAgrees, NoSocketNoCalls, OpenSocketAttached, Sent
<1>9. CASE UNCHANGED vars
  BY <1>9 DEF vars, PendingAgrees, NoSocketNoCalls, OpenSocketAttached, Sent
<1> QED BY <1>1, <1>2, <1>3, <1>4, <1>5, <1>6, <1>7, <1>8, <1>9 DEF Next

THEOREM Invariance == Spec => []IInv
<1>1. Init => IInv
  BY Initially
<1>2. IInv /\ [Next]_vars => IInv'
  BY Inductive
<1> QED BY <1>1, <1>2, PTL DEF Spec

(***************************************************************************)
(* A promise is unsettled exactly while its call is pending with its timer *)
(* armed, none is while the channel has no socket, and no socket but the   *)
(* channel's is open (ExtensionBridgeService).                             *)
(***************************************************************************)
THEOREM CallsAccounted == Spec => [](PendingAgrees /\ NoSocketNoCalls /\ OpenSocketAttached)
<1>1. IInv => PendingAgrees /\ NoSocketNoCalls /\ OpenSocketAttached
  BY DEF IInv
<1> QED BY <1>1, Invariance, PTL

(***************************************************************************)
(* The variables of the channel keep their types.                          *)
(***************************************************************************)
THEOREM TypeInvariant == Spec => []TypeOK
<1>1. IInv => TypeOK
  BY DEF IInv
<1> QED BY <1>1, Invariance, PTL

-----------------------------------------------------------------------------
(***************************************************************************)
(* A call is given up as disconnected only once the socket it was sent on  *)
(* is closing (detach), in whatever order sockets are replaced and closed. *)
(***************************************************************************)
THEOREM NoCallCutOff == Spec => NeverCutOff
<1>1. ASSUME IInv, [Next]_vars, NEW c \in Calls,
             outcome[c] = "waiting", outcome'[c] = "disconnected"
      PROVE  server[via[c]] # "open"
  <2> USE <1>1 DEF IInv, TypeOK
  <2>1. PICK s \in Sockets : Disconnect(s)
    <3>1. ASSUME NEW s \in Sockets, Connect(s) \/ Drop(s) \/ ClientClosed(s) PROVE FALSE
      BY <3>1 DEF Connect, Drop, ClientClosed
    <3>2. ASSUME NEW d \in Calls, SendCommand(d) \/ Timeout(d) PROVE FALSE
      BY <3>2 DEF SendCommand, Timeout
    <3>3. ASSUME NEW d \in Calls, Dispatch(d) \/ SendResult(d) \/ Result(d) PROVE FALSE
      BY <3>3 DEF Dispatch, SendResult, Result
    <3>4. CASE Restart \/ UNCHANGED vars
      BY <3>4 DEF Restart, vars
    <3> QED BY <3>1, <3>2, <3>3, <3>4 DEF Next
  <2>2. current \in {None, s} /\ server[s] = "closing"
    BY <2>1 DEF Disconnect, Detach
  <2>3. current = s
    BY <2>2 DEF NoSocketNoCalls, PendingAgrees
  <2> QED BY <2>2, <2>3 DEF OpenSocketAttached, Sent
<1>2. IInv /\ [Next]_vars
      => \A c \in Calls : outcome[c] = "waiting" /\ outcome'[c] = "disconnected"
                          => server[via[c]] # "open"
  BY <1>1
<1> QED BY <1>2, Invariance, PTL DEF Spec, NeverCutOff

-----------------------------------------------------------------------------
(* The refinement *)

\* The calls whose command the extension has begun to run.
Ran == {c \in Calls : msg[c] \in {"running", "ok", "error", "unheard"}}

\* What Lose makes of messages neither runs a command nor undoes one.
LEMMA LoseRan ==
  ASSUME NEW s, msg \in [Calls -> Progress],
         \/ msg' = Lose(s, {"sent"}, "unread")
         \/ msg' = Lose(s, {"ok", "error"}, "unheard")
  PROVE  Ran' = Ran
BY DEF Lose, Ran, Progress

\* Giving up the calls of S is a step of the remote call, S being empty too.
LEMMA GivingUp ==
  ASSUME NEW S \in SUBSET Calls, \A c \in S : outcome[c] = "waiting",
         NEW o \in {"timeout", "disconnected", "crashed"},
         outcome \in [Calls -> {"idle", "waiting", "refused", "ok", "error",
                                "timeout", "disconnected", "crashed"}],
         outcome' = [c \in Calls |-> IF c \in S THEN o ELSE outcome[c]], Ran' = Ran
  PROVE  Remote!Next
BY DEF Remote!Next, Remote!GiveUp, Remote!GivenUp, Ran

LEMMA Simulation == IInv /\ [Next]_vars => Remote!Next \/ UNCHANGED <<outcome, Ran>>
<1> SUFFICES ASSUME IInv, [Next]_vars PROVE Remote!Next \/ UNCHANGED <<outcome, Ran>>
  OBVIOUS
<1> USE DEF IInv, TypeOK
<1>1. ASSUME NEW s \in Sockets, Connect(s) PROVE UNCHANGED <<outcome, Ran>>
  BY <1>1 DEF Connect, Ran
<1>2. ASSUME NEW s \in Sockets, Drop(s) \/ ClientClosed(s) PROVE UNCHANGED <<outcome, Ran>>
  BY <1>2, LoseRan DEF Drop, ClientClosed
<1>3. ASSUME NEW s \in Sockets, Disconnect(s) PROVE Remote!Next \/ UNCHANGED <<outcome, Ran>>
  <2>1. Ran' = Ran
    BY <1>3, LoseRan DEF Disconnect
  <2>2. CASE current \in {None, s}
    <3>1. outcome' = [c \in Calls |-> IF c \in pending THEN "disconnected" ELSE outcome[c]]
      BY <1>3, <2>2 DEF Disconnect, Detach
    <3> QED BY <3>1, <2>1, GivingUp DEF PendingAgrees
  <2>3. CASE current \notin {None, s}
    BY <1>3, <2>1, <2>3 DEF Disconnect, Detach
  <2> QED BY <2>2, <2>3
<1>4. ASSUME NEW c \in Calls, SendCommand(c) PROVE Remote!Next
  <2>1. outcome[c] = "idle" /\ msg[c] = "none"
    BY <1>4 DEF SendCommand, Sent
  <2>2. Ran' = Ran
    BY <1>4, <2>1 DEF SendCommand, Ran
  <2>3. \E o \in {"waiting", "refused"} : outcome' = [outcome EXCEPT ![c] = o]
    BY <1>4 DEF SendCommand
  <2>4. Remote!Start(c)
    BY <2>1, <2>2, <2>3 DEF Remote!Start, Ran
  <2> QED BY <2>4 DEF Remote!Next
<1>5. ASSUME NEW c \in Calls, Dispatch(c) PROVE Remote!Next
  <2>1. outcome[c] \notin {"idle", "refused"}
    BY <1>5 DEF Dispatch, Sent
  <2>2. c \notin Ran /\ Ran' = Ran \cup {c} /\ outcome' = outcome
    BY <1>5 DEF Dispatch, Ran
  <2>3. Remote!Run(c)
    BY <2>1, <2>2 DEF Remote!Run, Ran
  <2> QED BY <2>3 DEF Remote!Next
<1>6. ASSUME NEW c \in Calls, SendResult(c) PROVE UNCHANGED <<outcome, Ran>>
  BY <1>6 DEF SendResult, Ran
<1>7. ASSUME NEW c \in Calls, Result(c) PROVE Remote!Next \/ UNCHANGED <<outcome, Ran>>
  <2>1. c \in Ran /\ Ran' = Ran
    BY <1>7 DEF Result, Ran
  <2>2. CASE c \in pending
    <3>1. Remote!Answer(c)
      BY <1>7, <2>1, <2>2 DEF Result, Remote!Answer, Remote!Answers, PendingAgrees, Ran
    <3> QED BY <3>1 DEF Remote!Next
  <2>3. CASE c \notin pending
    BY <1>7, <2>1, <2>3 DEF Result
  <2> QED BY <2>2, <2>3
<1>8. ASSUME NEW c \in Calls, Timeout(c) PROVE Remote!Next
  <2>1. outcome' = [d \in Calls |-> IF d \in {c} THEN "timeout" ELSE outcome[d]]
    BY <1>8 DEF Timeout
  <2>2. outcome[c] = "waiting" /\ Ran' = Ran
    BY <1>8 DEF Timeout, PendingAgrees, Ran
  <2> QED BY <2>1, <2>2, GivingUp
<1>9. CASE Restart
  <2>1. outcome' = [c \in Calls |-> IF c \in pending THEN "crashed" ELSE outcome[c]]
    BY <1>9 DEF Restart, PendingAgrees
  <2>2. Ran' = Ran
    BY <1>9 DEF Restart, Ran
  <2> QED BY <2>1, <2>2, GivingUp DEF PendingAgrees
<1>10. CASE UNCHANGED vars
  BY <1>10 DEF vars, Ran
<1> QED BY <1>1, <1>2, <1>3, <1>4, <1>5, <1>6, <1>7, <1>8, <1>9, <1>10 DEF Next

(***************************************************************************)
(* To its callers a channel is a remote call: one outcome per call, an     *)
(* answer only of a command that ran, no command run twice.                *)
(***************************************************************************)
THEOREM Refinement == Spec => IsRemoteCall
<1>1. Init => Remote!Init
  BY DEF Init, Remote!Init
<1>2. IInv /\ [Next]_vars => [Remote!Next]_<<outcome, Ran>>
  BY Simulation
<1>3. <<outcome, Ran>> = Remote!vars
  BY DEF Remote!vars, Ran
<1>4. IInv /\ [Next]_vars => [Remote!Next]_Remote!vars
  BY <1>2, <1>3 DEF Remote!vars, Ran
<1> QED BY <1>1, <1>4, Invariance, PTL DEF Spec, IsRemoteCall, Remote!Spec
=============================================================================
