----------------------------- MODULE HttpServer -----------------------------
(***************************************************************************)
(* The HTTP server of the dashboard: the accept thread, the pool of        *)
(* workers behind a semaphore, the request loop of HandleHttpConnection,   *)
(* the hand-over of a socket to an SseClientThread, and what the main      *)
(* thread does with all of them when the program stops.                    *)
(*                                                                         *)
(* Connections name their workers and their SSE threads.  What a handler   *)
(* answers is left out; that it uses the critical sections is not.         *)
(***************************************************************************)
EXTENDS Integers, FiniteSets

CONSTANTS
  Conn,     \* connections that browsers open
  NoConn,
  Pool      \* the permits of g_httpWorkerSemaphore

ASSUME HttpAssumption == NoConn \notin Conn /\ Pool \in Nat \ {0}

VARIABLES
  running,   \* g_running
  serving,   \* g_httpRunning
  accept,    \* the accept thread: "head", "select", "taken", "permitted", "done"
  taken,     \* the connection it has in hand
  fresh,     \* connections not accepted yet
  permits,   \* the count of g_httpWorkerSemaphore
  active,    \* g_httpWorkersActive
  open,      \* accepted sockets that are not closed
  pc,        \* per worker, where it is
  got,       \* per worker, how much of the request it has
  late,      \* workers whose requestDeadline has passed
  sse,       \* per connection, its SseClientThread
  main,      \* the main thread: "loop", "sse", "workers", "join", "delete"
  sections,  \* whether the critical sections exist
  drained    \* whether the wait for the workers found none left

pool == <<permits, active>>
acceptor == <<accept, taken, fresh>>
worker == <<pc, got, late>>
process == <<running, serving, main, sections, drained>>
vars == <<process, acceptor, pool, open, worker, sse>>

Init ==
  /\ running = TRUE /\ serving = TRUE
  /\ accept = "head" /\ taken = NoConn /\ fresh = Conn
  /\ permits = Pool /\ active = 0
  /\ open = {}
  /\ pc = [c \in Conn |-> "none"] /\ got = [c \in Conn |-> "nothing"] /\ late = {}
  /\ sse = [c \in Conn |-> "none"]
  /\ main = "loop" /\ sections = TRUE /\ drained = FALSE
-----------------------------------------------------------------------------
(* HttpThread                                                              *)

AcceptHead ==
  /\ accept = "head"
  /\ accept' = IF serving THEN "select" ELSE "done"
  /\ UNCHANGED <<process, taken, fresh, pool, open, worker, sse>>

(* select finds nothing in 500 ms. *)
AcceptIdles ==
  /\ accept = "select"
  /\ accept' = "head"
  /\ UNCHANGED <<process, taken, fresh, pool, open, worker, sse>>

(* select or accept fails: nobody accepts any more. *)
AcceptFails ==
  /\ accept = "select"
  /\ accept' = "done"
  /\ UNCHANGED <<process, taken, fresh, pool, open, worker, sse>>

Accept(c) ==
  /\ accept = "select" /\ c \in fresh
  /\ accept' = "taken" /\ taken' = c /\ fresh' = fresh \ {c}
  /\ open' = open \cup {c}
  /\ UNCHANGED <<process, pool, worker, sse>>

(* No worker is free, or the semaphore is closed: the connection is        *)
(* refused at once.                                                        *)
TurnAway ==
  /\ accept = "taken" /\ (permits = 0 \/ main = "delete")
  /\ open' = open \ {taken}
  /\ accept' = "head" /\ taken' = NoConn
  /\ UNCHANGED <<process, fresh, pool, worker, sse>>

Acquire ==
  /\ accept = "taken" /\ permits > 0 /\ main # "delete"
  /\ permits' = permits - 1
  /\ accept' = "permitted"
  /\ UNCHANGED <<process, taken, fresh, active, open, worker, sse>>

(* Mutant: a worker that is not counted. *)
HireUncounted ==
  /\ accept = "permitted"
  /\ pc' = [pc EXCEPT ![taken] = "started"]
  /\ accept' = "head" /\ taken' = NoConn
  /\ UNCHANGED <<process, fresh, pool, open, got, late, sse>>

Hire ==
  /\ accept = "permitted"
  /\ active' = active + 1
  /\ pc' = [pc EXCEPT ![taken] = "started"]
  /\ accept' = "head" /\ taken' = NoConn
  /\ UNCHANGED <<process, fresh, permits, open, got, late, sse>>

(* CreateThread fails: the count, the permit and the socket are given back. *)
HireFails ==
  /\ accept = "permitted"
  /\ permits' = IF main = "delete" THEN permits ELSE permits + 1
  /\ open' = open \ {taken}
  /\ accept' = "head" /\ taken' = NoConn
  /\ UNCHANGED <<process, fresh, active, worker, sse>>
-----------------------------------------------------------------------------
(* HttpWorkerThread and HandleHttpConnection                               *)

At(c, from, to) == pc[c] = from /\ pc' = [pc EXCEPT ![c] = to]

Start(c) ==
  \/ /\ ~running
     /\ At(c, "started", "closed") /\ open' = open \ {c}
     /\ UNCHANGED <<process, acceptor, pool, got, late, sse>>
  \/ /\ running
     /\ At(c, "started", "head")
     /\ UNCHANGED <<process, acceptor, pool, open, got, late, sse>>

(* The worker closes its socket and leaves HandleHttpConnection. *)
Abandon(c, from) ==
  /\ At(c, from, "closed") /\ open' = open \ {c}
  /\ UNCHANGED <<process, acceptor, pool, got, late, sse>>

(* Mutant: a request may take any time. *)
ReadOnForever(c) ==
  /\ serving
  /\ At(c, "head", "recv")
  /\ UNCHANGED <<process, acceptor, pool, open, got, late, sse>>

(* The head of the request loop. *)
ReadOn(c) ==
  /\ serving /\ c \notin late
  /\ At(c, "head", "recv")
  /\ UNCHANGED <<process, acceptor, pool, open, got, late, sse>>

TooLate(c) == serving /\ c \in late /\ Abandon(c, "head")

(* The loop ends because the server stops: what has arrived so far is      *)
(* taken for the request.                                                  *)
StopReading(c) ==
  /\ ~serving
  /\ \/ got[c] = "nothing" /\ Abandon(c, "head")
     \/ /\ got[c] # "nothing" /\ At(c, "head", "dispatch")
        /\ UNCHANGED <<process, acceptor, pool, open, got, late, sse>>

(* More of the request arrives, up to a part of the headers, to all of     *)
(* them, or to its end; or too much, which is answered and closed.         *)
Recv(c) ==
  \/ /\ \/ At(c, "recv", "head") /\ got[c] # "headers" /\ got' = [got EXCEPT ![c] = "part"]
        \/ At(c, "recv", "head") /\ got' = [got EXCEPT ![c] = "headers"]
        \/ At(c, "recv", "dispatch") /\ got' = [got EXCEPT ![c] = "whole"]
     /\ UNCHANGED <<process, acceptor, pool, open, late, sse>>
  \/ Abandon(c, "recv")

(* The client has closed its side.  Before the end of the headers, what    *)
(* has arrived is taken for the request.                                   *)
Fin(c) ==
  \/ /\ got[c] = "part" /\ At(c, "recv", "dispatch")
     /\ UNCHANGED <<process, acceptor, pool, open, got, late, sse>>
  \/ got[c] # "part" /\ Abandon(c, "recv")

(* recv fails, or does not return in 5 s. *)
RecvFails(c) == Abandon(c, "recv")

Deadline(c) ==
  /\ pc[c] \in {"head", "recv"} /\ c \notin late
  /\ late' = late \cup {c}
  /\ UNCHANGED <<process, acceptor, pool, open, pc, got, sse>>

(* The request is refused, as it is without the headers, which name the    *)
(* host; or handled by the worker itself, or waits for the main thread     *)
(* (RunDashOp).                                                            *)
Dispatch(c) ==
  \/ Abandon(c, "dispatch")
  \/ /\ got[c] # "part"
     /\ At(c, "dispatch", "handling") \/ At(c, "dispatch", "waiting")
     /\ UNCHANGED <<process, acceptor, pool, open, got, late, sse>>

(* The handler has used the sections it needs and sent its answer. *)
Handled(c) == Abandon(c, "handling")

(* The main thread is done with the operation, or 15 s have passed. *)
OpEnds(c) == Abandon(c, "waiting")

(* Mutant: the worker closes the socket it has handed over. *)
HandOverAndClose(c) ==
  /\ got[c] # "part" /\ At(c, "dispatch", "closed") /\ open' = open \ {c}
  /\ sse' = [sse EXCEPT ![c] = "greeting"]
  /\ UNCHANGED <<process, acceptor, pool, got, late>>

(* GET /api/v1/events: the socket goes to a thread of its own. *)
HandOver(c) ==
  /\ got[c] # "part" /\ At(c, "dispatch", "closed")
  /\ sse' = [sse EXCEPT ![c] = "greeting"]
  /\ UNCHANGED <<process, acceptor, pool, open, got, late>>

Uncount(c) ==
  /\ At(c, "closed", "uncounted")
  /\ active' = active - 1
  /\ UNCHANGED <<process, acceptor, permits, open, got, late, sse>>

(* The permit is given back, if the semaphore is still there. *)
GiveBack(c) ==
  /\ At(c, "uncounted", "done")
  /\ permits' = IF main = "delete" THEN permits ELSE permits + 1
  /\ UNCHANGED <<process, acceptor, active, open, got, late, sse>>
-----------------------------------------------------------------------------
(* SseClientThread (in detail in SseHub).                                  *)

Listen(c) ==
  /\ sse[c] = "greeting"
  /\ sse' = [sse EXCEPT ![c] = "listed"]
  /\ UNCHANGED <<process, acceptor, pool, open, worker>>

(* Too many pages, or the page is gone, or the program stops. *)
Unlist(c) ==
  /\ sse[c] \in {"greeting", "listed"}
  /\ sse' = [sse EXCEPT ![c] = "done"]
  /\ open' = open \ {c}
  /\ UNCHANGED <<process, acceptor, pool, worker>>
-----------------------------------------------------------------------------
(* The main thread leaves its loop when g_running is reset, and then waits *)
(* three times, each time for at most 3 s, however much is left to do: a   *)
(* worker may be in recv for 5 s, in send for 10 s, and wait for the main  *)
(* thread for 15 s.                                                        *)

Stop ==
  /\ running /\ running' = FALSE
  /\ UNCHANGED <<serving, main, sections, drained, acceptor, pool, open, worker, sse>>

StopServing ==
  /\ main = "loop" /\ ~running
  /\ main' = "sse" /\ serving' = FALSE
  /\ UNCHANGED <<running, sections, drained, acceptor, pool, open, worker, sse>>

(* No page is listed any more, or the time is up. *)
DrainSse ==
  /\ main = "sse" /\ main' = "workers"
  /\ UNCHANGED <<running, serving, sections, drained, acceptor, pool, open, worker, sse>>

(* No worker is counted any more, or the time is up. *)
DrainWorkers ==
  /\ main = "workers" /\ main' = "join"
  /\ drained' = (active = 0)
  /\ UNCHANGED <<running, serving, sections, acceptor, pool, open, worker, sse>>

(* The accept thread has ended, or the time is up; then the semaphore is   *)
(* closed.                                                                 *)
Join ==
  /\ main = "join" /\ main' = "delete"
  /\ UNCHANGED <<running, serving, sections, drained, acceptor, pool, open, worker, sse>>

(* The last thing the main thread does.  What the other threads do until   *)
(* the process is gone goes on in the model.                               *)
DeleteSections ==
  /\ main = "delete" /\ sections
  /\ sections' = FALSE
  /\ UNCHANGED <<running, serving, main, drained, acceptor, pool, open, worker, sse>>

-----------------------------------------------------------------------------
Acceptor ==
  \/ AcceptHead \/ AcceptIdles \/ AcceptFails \/ \E c \in Conn : Accept(c)
  \/ TurnAway \/ Acquire \/ Hire \/ HireFails

Worker(c) ==
  \/ Start(c) \/ ReadOn(c) \/ TooLate(c) \/ StopReading(c) \/ Recv(c) \/ Fin(c)
  \/ RecvFails(c)
  \/ Dispatch(c) \/ Handled(c) \/ OpEnds(c) \/ HandOver(c) \/ Uncount(c) \/ GiveBack(c)

MainThread == StopServing \/ DrainSse \/ DrainWorkers \/ Join \/ DeleteSections

Next ==
  \/ Acceptor
  \/ \E c \in Conn : Worker(c) \/ Deadline(c) \/ Listen(c) \/ Unlist(c)
  \/ MainThread \/ Stop

Spec == Init /\ [][Next]_vars

(* A worker goes on, its recv returns or times out, and time passes;       *)
(* nothing makes a browser connect or a page leave.                        *)
Fairness == \A c \in Conn : WF_vars(Worker(c)) /\ WF_vars(Deadline(c))

LiveSpec == Spec /\ Fairness
-----------------------------------------------------------------------------
TypeOK ==
  /\ running \in BOOLEAN /\ serving \in BOOLEAN /\ sections \in BOOLEAN /\ drained \in BOOLEAN
  /\ accept \in {"head", "select", "taken", "permitted", "done"}
  /\ taken \in Conn \cup {NoConn} /\ fresh \subseteq Conn /\ open \subseteq Conn
  /\ permits \in 0..Pool /\ active \in 0..Pool
  /\ pc \in [Conn -> {"none", "started", "head", "recv", "dispatch", "handling", "waiting",
                      "closed", "uncounted", "done"}]
  /\ got \in [Conn -> {"nothing", "part", "headers", "whole"}] /\ late \subseteq Conn
  /\ sse \in [Conn -> {"none", "greeting", "listed", "done"}]
  /\ main \in {"loop", "sse", "workers", "join", "delete"}

Counted == {c \in Conn : pc[c] \notin {"none", "uncounted", "done"}}

Holders ==
  {c \in Conn : pc[c] \notin {"none", "done"}} \cup (IF accept = "permitted" THEN {taken} ELSE {})

(* No permit is lost or made up on any path, refused connections, threads  *)
(* that cannot be created and requests that are cut off included: the pool *)
(* keeps its size as long as it exists, and the count the shutdown waits   *)
(* for is that of the workers.                                             *)
PoolIsExact ==
  /\ TypeOK
  /\ active = Cardinality(Counted)
  /\ main # "delete" => permits + Cardinality(Holders) = Pool

(* Every accepted socket has one thread that will close it, and only that  *)
(* one: the accept thread before it hires, the worker until it closes or   *)
(* hands over, the SSE thread after that.                                  *)
OneOwner ==
  \A c \in Conn :
    LET owners == {x \in {"accept", "worker", "sse"} :
                     \/ x = "accept" /\ taken = c
                     \/ x = "worker" /\ pc[c] \notin {"none", "closed", "uncounted", "done"}
                     \/ x = "sse" /\ sse[c] \in {"greeting", "listed"}}
    IN Cardinality(owners) = IF c \in open THEN 1 ELSE 0

(* Threads, permits and sockets are each accounted for. *)
PoolIsKept == PoolIsExact /\ OneOwner

(* A request of which a part is missing is not handled: a truncated read   *)
(* is never processed.                                                     *)
WholeRequestsOnly == \A c \in Conn : pc[c] \in {"handling", "waiting"} => got[c] = "whole"

(* If the main thread found no worker left, no request is handled any      *)
(* more, although the accept thread may have had a connection in hand and  *)
(* hires for it afterwards; so nobody is left to wait for an operation     *)
(* that will not be processed.                                             *)
DrainedIsQuiet ==
  drained => \A c \in Conn : pc[c] \notin {"head", "recv", "dispatch", "handling", "waiting"}

(* When the critical sections are deleted, nobody is left who uses them.   *)
SectionsOutliveUsers ==
  ~sections => \A c \in Conn : pc[c] # "handling" /\ sse[c] \notin {"greeting", "listed"}

(* However slow a client is, its worker comes back to the pool. *)
WorkersComeBack == \A c \in Conn : pc[c] = "started" ~> pc[c] = "done"
=============================================================================
