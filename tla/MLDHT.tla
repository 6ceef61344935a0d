------------------------------- MODULE MLDHT -------------------------------
(***************************************************************************)
(* MLDHTProvider (daemon/discovery/mldht/MLDHTProvider.cpp): the glue that *)
(* drives the mainline-DHT library.  The library is external; its contract *)
(* is that dht_periodic is called whenever a datagram arrives and again    *)
(* after the tosleep seconds it returns.  The provider calls it from        *)
(* processDatagram (socket readyRead) and from periodic_request (the        *)
(* single-shot QTimer periodic_).                                           *)
(*                                                                         *)
(* Time is abstracted: an active timer eventually fires (fairness), and    *)
(* the interval tosleep is not recorded.  Qt's QTimer::setInterval          *)
(* restarts an active timer and only stores the interval of an inactive    *)
(* one; a single-shot timer is inactive once it has fired.  Datagrams are  *)
(* counted: wire is the number of replies on their way to the socket.      *)
(***************************************************************************)
EXTENDS Naturals

CONSTANTS
    Router,       \* host names in mainline_dht_routers
    MaxInFlight   \* bound on datagrams in flight towards the socket

VARIABLES
    running,      \* between init() and deinit()
    timerActive,  \* periodic_->isActive()
    resolves,     \* resolves_: router lookups not yet answered
    wire,         \* replies in flight to socket_
    beat          \* flips at every call of dht_periodic

vars == <<running, timerActive, resolves, wire, beat>>

TypeOK ==
    /\ running \in BOOLEAN /\ timerActive \in BOOLEAN
    /\ resolves \subseteq Router
    /\ wire \in 0..MaxInFlight
    /\ beat \in BOOLEAN

\* dht_periodic sends what its routing table and searches call for; each
\* request may draw a reply.  With nothing to do it sends nothing.
Sent == {w \in wire..MaxInFlight : w <= wire + 1}

\* The constructor and init(): readSessionFile runs first and pings the
\* saved nodes through addNode before dht_init has given the library its
\* socket, so those pings never leave; then bind, dht_init, one host
\* lookup per router, and periodic_->start() with interval 0.
Init ==
    /\ running = TRUE
    /\ timerActive = TRUE
    /\ resolves = Router
    /\ wire = 0
    /\ beat = FALSE

\* addNode: dht_ping_node sends a ping, which may draw a reply.
AddNode ==
    \/ UNCHANGED wire
    \/ wire < MaxInFlight /\ wire' = wire + 1

\* handle_resolve: a failed lookup is forgotten; a resolved router is
\* pinged through addNode.
HandleResolve(r) ==
    /\ running /\ r \in resolves
    /\ resolves' = resolves \ {r}
    /\ \/ UNCHANGED wire
       \/ AddNode
    /\ UNCHANGED <<running, timerActive, beat>>

\* periodic_request: the single-shot timer has fired (and is inactive),
\* dht_periodic runs, and setInterval(tosleep*1000) stores the interval
\* without starting the timer.
PeriodicRequest ==
    /\ running /\ timerActive
    /\ timerActive' = FALSE
    /\ beat' = ~beat
    /\ wire' \in Sent
    /\ UNCHANGED <<running, resolves>>

\* processDatagram: a datagram is read, dht_periodic runs on it, and
\* setInterval(tosleep*1000) restarts the timer only if it is active.
ProcessDatagram ==
    /\ running /\ wire > 0
    /\ beat' = ~beat
    /\ wire' \in {w - 1 : w \in Sent}
    /\ UNCHANGED <<running, timerActive, resolves>>

\* UDP loses a datagram.
Lose ==
    /\ wire > 0
    /\ wire' = wire - 1
    /\ UNCHANGED <<running, timerActive, resolves, beat>>

\* deinit(), from the destructor: stop the timer, save the session,
\* dht_uninit, close the socket.
Deinit ==
    /\ running
    /\ running' = FALSE
    /\ timerActive' = FALSE
    /\ UNCHANGED <<resolves, wire, beat>>

Next ==
    \/ \E r \in Router : HandleResolve(r)
    \/ PeriodicRequest
    \/ ProcessDatagram
    \/ Lose
    \/ Deinit

\* The Qt event loop delivers every timeout of an active timer, every
\* readyRead and every finished host lookup.  Loss and shutdown are the
\* environment's and are not fair.
Fairness ==
    /\ \A r \in Router : WF_vars(HandleResolve(r))
    /\ WF_vars(PeriodicRequest)
    /\ WF_vars(ProcessDatagram)

Spec == Init /\ [][Next]_vars /\ Fairness

-----------------------------------------------------------------------------
\* While the provider runs, dht_periodic is always called again: the
\* library's contract (call again after tosleep seconds even when no
\* datagram comes) that periodic_request's setInterval is meant to keep.
PeriodicKeepsRunning ==
    \A b \in BOOLEAN : (running /\ beat = b) ~> (~running \/ beat # b)

=============================================================================
