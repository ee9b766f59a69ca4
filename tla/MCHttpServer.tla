---------------------------- MODULE MCHttpServer ----------------------------
(***************************************************************************)
(* A request on its way: the threads and permits that carry it             *)
(* (HttpServer) and the checks and the route it meets (RequestChecks).     *)
(* The two share no state: a behaviour uses one and leaves the other in an *)
(* initial state.                                                          *)
(***************************************************************************)
EXTENDS HttpServer, RequestChecks

CONSTANTS c1, c2

VARIABLE part  \* the part in use

allVars == <<vars, requestVars, part>>

TwoConn == {c1, c2}

OfServer(A) == part = "server" /\ A /\ UNCHANGED <<requestVars, part>>
OfChecks(A) == part = "checks" /\ A /\ UNCHANGED <<vars, part>>

WayInit == Init /\ RequestInit /\ part \in {"server", "checks"}

WayNext == OfServer(Next) \/ OfChecks(RequestNext)

(* HttpServer!Fairness, of the part that is in use. *)
WayFairness ==
  \A c \in Conn : WF_allVars(OfServer(Worker(c))) /\ WF_allVars(OfServer(Deadline(c)))

WaySpec == WayInit /\ [][WayNext]_allVars /\ WayFairness
=============================================================================
