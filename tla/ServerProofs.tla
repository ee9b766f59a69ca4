---------------------------- MODULE ServerProofs ----------------------------
(***************************************************************************)
(* Theorems about the server.  HTTP: any number of connections and         *)
(* permits, the pool keeps its size and every accepted socket has one      *)
(* owner; any ports and any number of starts, nothing is changed without   *)
(* the token, and a page is served.  The feed of "identify": any length of *)
(* the ring.  Server-sent events: any number of pages and pushers.         *)
(***************************************************************************)
EXTENDS HttpServer, RequestChecks, IdentifyFeed, SseHub, FiniteSetTheorems, TLAPS

Busy == {"started", "head", "recv", "dispatch", "handling", "waiting"}
Stage == {"none", "closed", "uncounted", "done"} \cup Busy

Types ==
  /\ running \in BOOLEAN /\ serving \in BOOLEAN /\ sections \in BOOLEAN /\ drained \in BOOLEAN
  /\ accept \in {"head", "select", "taken", "permitted", "done"}
  /\ taken \in Conn \cup {NoConn} /\ fresh \subseteq Conn /\ open \subseteq Conn
  /\ permits \in Nat
  /\ pc \in [Conn -> Stage]
  /\ got \in [Conn -> {"nothing", "part", "headers", "whole"}] /\ late \subseteq Conn
  /\ sse \in [Conn -> {"none", "greeting", "listed", "done"}]
  /\ main \in {"loop", "sse", "workers", "join", "delete"}

(* A connection is fresh, then in the hands of the accept thread, then of  *)
(* its worker, then perhaps of its SSE thread: each begins where the one   *)
(* before has let go, and the socket is open while one of them has it.     *)
Life ==
  \A c \in Conn :
    /\ c \in fresh \/ taken = c => pc[c] = "none"
    /\ c \in fresh => taken # c
    /\ pc[c] = "none" \/ pc[c] \in Busy => sse[c] = "none"
    /\ c \in open <=> taken = c \/ pc[c] \in Busy \/ sse[c] \in {"greeting", "listed"}

(* The permits that are out are those of the holders.  When the semaphore  *)
(* is closed, nobody acquires any more, and nobody gives back.             *)
Permits ==
  /\ accept \in {"taken", "permitted"} <=> taken # NoConn
  /\ IsFiniteSet(Counted) /\ active = Cardinality(Counted)
  /\ IsFiniteSet(Holders) /\ permits + Cardinality(Holders) <= Pool
  /\ main # "delete" => permits + Cardinality(Holders) = Pool

HttpInv == Types /\ Life /\ Permits

(* The server starts in the invariant. *)
LEMMA InitInv == Init => HttpInv
<1> SUFFICES ASSUME Init PROVE HttpInv
  OBVIOUS
<1> USE HttpAssumption DEF Init
<1>1. Types
  BY DEF Types, Stage
<1>2. Life
  BY DEF Life, Busy
<1>3. Counted = {} /\ Holders = {}
  BY DEF Counted, Holders
<1>4. Permits
  BY <1>3, FS_EmptySet DEF Permits
<1>. QED BY <1>1, <1>2, <1>4 DEF HttpInv

(***************************************************************************)
(* What a step does to the two counts, by what it does to the sets they    *)
(* count.                                                                  *)
(***************************************************************************)
LEMMA SameSets ==
  ASSUME HttpInv, Counted' = Counted, Holders' = Holders,
         UNCHANGED <<permits, active>>,
         accept' \in {"taken", "permitted"} <=> taken' # NoConn,
         main' # "delete" => main # "delete"
  PROVE  Permits'
BY DEF HttpInv, Permits

(* One more holder is one more in their number. *)
LEMMA OneHolderMore ==
  ASSUME HttpInv, Counted' = Counted, NEW x, x \notin Holders, Holders' = Holders \cup {x},
         permits' = permits - 1, permits > 0, active' = active,
         accept' \in {"taken", "permitted"} <=> taken' # NoConn,
         main' = main, main # "delete"
  PROVE  Permits'
<1>1. IsFiniteSet(Holders') /\ Cardinality(Holders') = Cardinality(Holders) + 1
  BY FS_AddElement DEF HttpInv, Permits
<1>2. Cardinality(Holders) \in Nat
  BY FS_CardinalityType DEF HttpInv, Permits
<1>. QED BY <1>1, <1>2, HttpAssumption DEF HttpInv, Permits, Types

(* One holder less is one less in their number. *)
LEMMA OneHolderLess ==
  ASSUME HttpInv, Counted' = Counted, NEW x \in Holders, Holders' = Holders \ {x},
         permits' = IF main = "delete" THEN permits ELSE permits + 1, active' = active,
         accept' \in {"taken", "permitted"} <=> taken' # NoConn,
         main' = main
  PROVE  Permits' /\ permits' \in Nat
<1>1. IsFiniteSet(Holders') /\ Cardinality(Holders') = Cardinality(Holders) - 1
  BY FS_RemoveElement DEF HttpInv, Permits
<1>2. Cardinality(Holders) \in Nat
  BY FS_CardinalityType DEF HttpInv, Permits
<1>. QED BY <1>1, <1>2, HttpAssumption DEF HttpInv, Permits, Types

(* The same of the connections that are counted: one more, *)
LEMMA OneCountedMore ==
  ASSUME HttpInv, Holders' = Holders, NEW x, x \notin Counted, Counted' = Counted \cup {x},
         permits' = permits, active' = active + 1,
         accept' \in {"taken", "permitted"} <=> taken' # NoConn,
         main' = main
  PROVE  Permits'
<1>1. IsFiniteSet(Counted') /\ Cardinality(Counted') = Cardinality(Counted) + 1
  BY FS_AddElement DEF HttpInv, Permits
<1>. QED BY <1>1 DEF HttpInv, Permits

(* and one less. *)
LEMMA OneCountedLess ==
  ASSUME HttpInv, Holders' = Holders, NEW x \in Counted, Counted' = Counted \ {x},
         permits' = permits, active' = active - 1, UNCHANGED <<accept, taken, main>>
  PROVE  Permits'
<1>1. IsFiniteSet(Counted') /\ Cardinality(Counted') = Cardinality(Counted) - 1
  BY FS_RemoveElement DEF HttpInv, Permits
<1>. QED BY <1>1 DEF HttpInv, Permits

(***************************************************************************)
(* The accept thread.                                                      *)
(***************************************************************************)
LEMMA AcceptorInv == ASSUME HttpInv, Acceptor PROVE HttpInv'
<1> USE HttpAssumption DEF HttpInv
<1>p. permits \in Nat /\ taken \in Conn \cup {NoConn} /\ NoConn \notin Conn
  BY DEF Types
<1>t. accept \in {"taken", "permitted"} <=> taken # NoConn
  BY DEF Permits
<1>1. CASE AcceptHead \/ AcceptIdles \/ AcceptFails
  <2> USE <1>1 DEF AcceptHead, AcceptIdles, AcceptFails, process, pool, worker
  <2>1. Types'
    BY DEF Types
  <2>2. Life'
    BY DEF Life
  <2>3. Counted' = Counted /\ Holders' = Holders
    BY <1>t DEF Counted, Holders
  <2>4. Permits'
    BY <2>3, <1>t, SameSets
  <2>. QED BY <2>1, <2>2, <2>4
<1>2. ASSUME NEW c \in Conn, Accept(c) PROVE HttpInv'
  <2> USE <1>2 DEF Accept, process, pool, worker
  <2>1. Types'
    BY DEF Types
  <2>2. Life'
    BY <1>t DEF Life, Busy
  <2>3. Counted' = Counted /\ Holders' = Holders
    BY DEF Counted, Holders
  <2>4. Permits'
    BY <2>3, <1>p, SameSets
  <2>. QED BY <2>1, <2>2, <2>4
<1>3. CASE TurnAway
  <2> USE <1>3 DEF TurnAway, process, pool, worker
  <2>1. Types'
    BY DEF Types
  <2>2. Life'
    BY <1>p DEF Life, Busy
  <2>3. Counted' = Counted /\ Holders' = Holders
    BY DEF Counted, Holders
  <2>4. Permits'
    BY <2>3, SameSets
  <2>. QED BY <2>1, <2>2, <2>4
<1>4. CASE Acquire
  <2> USE <1>4 DEF Acquire, process, worker
  <2>1. Types'
    BY <1>p DEF Types
  <2>2. Life'
    BY DEF Life
  <2>c. taken \in Conn /\ pc[taken] = "none"
    BY <1>p, <1>t DEF Life
  <2>3. Counted' = Counted /\ taken \notin Holders /\ Holders' = Holders \cup {taken}
    BY <2>c DEF Counted, Holders
  <2>4. Permits'
    BY <2>3, <1>t, <1>p, OneHolderMore
  <2>. QED BY <2>1, <2>2, <2>4
<1>5. CASE Hire
  <2> USE <1>5 DEF Hire, process
  <2>c. taken \in Conn /\ pc[taken] = "none"
    BY <1>p, <1>t DEF Life
  <2>e. pc' = [pc EXCEPT ![taken] = "started"] /\ pc \in [Conn -> Stage]
    BY DEF Types
  <2>f. \A c \in Conn : pc'[c] = IF c = taken THEN "started" ELSE pc[c]
    BY <2>e
  <2>1. Types'
    BY <2>c, <2>e DEF Types, Stage, Busy
  <2>2. Life'
    BY <2>c, <2>f, <1>p DEF Life, Busy
  <2>3. /\ taken \notin Counted /\ Counted' = Counted \cup {taken}
        /\ Holders' = Holders
    BY <2>c, <2>f DEF Counted, Holders
  <2>4. Permits'
    BY <2>3, OneCountedMore
  <2>. QED BY <2>1, <2>2, <2>4
<1>6. CASE HireFails
  <2> USE <1>6 DEF HireFails, process, worker
  <2>c. taken \in Conn /\ pc[taken] = "none"
    BY <1>p, <1>t DEF Life
  <2>3. Counted' = Counted /\ taken \in Holders /\ Holders' = Holders \ {taken}
    BY <2>c DEF Counted, Holders
  <2>4. Permits' /\ permits' \in Nat
    BY <2>3, OneHolderLess
  <2>1. Types'
    BY <2>4 DEF Types
  <2>2. Life'
    BY <2>c, <1>p DEF Life, Busy
  <2>. QED BY <2>1, <2>2, <2>4
<1>. QED BY <1>1, <1>2, <1>3, <1>4, <1>5, <1>6 DEF Acceptor

(***************************************************************************)
(* The workers.  A worker that goes from one of its stages to another is   *)
(* counted and holds its permit as before.                                 *)
(***************************************************************************)
LEMMA WorkerGoes ==
  ASSUME HttpInv, NEW c \in Conn, NEW from \in Busy, NEW to \in Busy \cup {"closed"},
         At(c, from, to), UNCHANGED <<process, acceptor, pool>>,
         got' \in [Conn -> {"nothing", "part", "headers", "whole"}], UNCHANGED late,
         \/ open' = open /\ sse' = sse /\ to \in Busy
         \/ open' = open \ {c} /\ sse' = sse /\ to = "closed"
         \/ open' = open /\ sse' = [sse EXCEPT ![c] = "greeting"] /\ to = "closed"
  PROVE  HttpInv'
<1> USE HttpAssumption DEF HttpInv, At, process, acceptor, pool
<1>1. \A d \in Conn : pc'[d] = IF d = c THEN to ELSE pc[d]
  BY DEF Types
<1>2. /\ sse' \in [Conn -> {"none", "greeting", "listed", "done"}]
      /\ \A d \in Conn : d # c => sse'[d] = sse[d]
      /\ \/ sse'[c] = sse[c]
         \/ to = "closed" /\ sse'[c] = "greeting" /\ open' = open
  BY DEF Types
<1>3. Types'
  <2>1. pc' \in [Conn -> Stage] /\ open' \subseteq Conn
    BY DEF Types, Busy, Stage
  <2>. QED BY <1>2, <2>1 DEF Types
<1>4. Life'
  <2> SUFFICES ASSUME NEW d \in Conn
               PROVE  /\ d \in fresh \/ taken = d => pc'[d] = "none"
                      /\ d \in fresh => taken # d
                      /\ pc'[d] = "none" \/ pc'[d] \in Busy => sse'[d] = "none"
                      /\ d \in open' <=> \/ taken = d \/ pc'[d] \in Busy
                                         \/ sse'[d] \in {"greeting", "listed"}
    BY DEF Life
  <2>1. CASE d # c
    BY <2>1, <1>1, <1>2 DEF Life
  <2>2. CASE d = c
    <3>1. /\ taken # c /\ c \notin fresh /\ sse[c] = "none" /\ c \in open
      BY DEF Life, Busy
    <3>2. pc'[c] = to /\ to # "none"
      BY <1>1 DEF Busy
    <3>3. CASE to \in Busy
      BY <2>2, <3>1, <3>2, <3>3 DEF Busy
    <3>4. CASE to = "closed"
      BY <2>2, <3>1, <3>2, <3>4, <1>2 DEF Busy, Types
    <3>. QED BY <3>3, <3>4
  <2>. QED BY <2>1, <2>2
<1>5. Counted' = Counted /\ Holders' = Holders
  BY <1>1 DEF Counted, Holders, Busy
<1>6. Permits'
  BY <1>5, SameSets DEF Permits
<1>. QED BY <1>3, <1>4, <1>6

(* A step of a worker keeps the invariant. *)
LEMMA WorkerInv == ASSUME HttpInv, NEW c \in Conn, Worker(c) PROVE HttpInv'
<1>g. got \in [Conn -> {"nothing", "part", "headers", "whole"}]
  BY DEF HttpInv, Types
<1>b. Busy = {"started", "head", "recv", "dispatch", "handling", "waiting"}
  BY DEF Busy
<1>1. CASE Start(c)
  BY <1>1, <1>g, <1>b, WorkerGoes DEF Start
<1>2. CASE ReadOn(c)
  BY <1>2, <1>g, <1>b, WorkerGoes DEF ReadOn
<1>3. CASE TooLate(c)
  BY <1>3, <1>g, <1>b, WorkerGoes DEF TooLate, Abandon
<1>4. CASE StopReading(c)
  BY <1>4, <1>g, <1>b, WorkerGoes DEF StopReading, Abandon
<1>5. CASE Recv(c)
  BY <1>5, <1>g, <1>b, WorkerGoes DEF Recv, Abandon
<1>11. CASE Fin(c)
  BY <1>11, <1>g, <1>b, WorkerGoes DEF Fin, Abandon
<1>6. CASE RecvFails(c) \/ Handled(c) \/ OpEnds(c)
  BY <1>6, <1>g, <1>b, WorkerGoes DEF RecvFails, Handled, OpEnds, Abandon
<1>7. CASE Dispatch(c)
  BY <1>7, <1>g, <1>b, WorkerGoes DEF Dispatch, Abandon
<1>8. CASE HandOver(c)
  BY <1>8, <1>g, <1>b, WorkerGoes DEF HandOver
<1>9. CASE Uncount(c)
  <2> USE <1>9, HttpAssumption DEF HttpInv, Uncount, At, process, acceptor
  <2>1. \A d \in Conn : pc'[d] = IF d = c THEN "uncounted" ELSE pc[d]
    BY DEF Types
  <2>2. Types'
    BY DEF Types, Stage
  <2>3. Life'
    BY <2>1 DEF Life, Busy
  <2>4. c \in Counted /\ Counted' = Counted \ {c} /\ Holders' = Holders
    BY <2>1 DEF Counted, Holders
  <2>5. Permits'
    BY <2>4, OneCountedLess
  <2>. QED BY <2>2, <2>3, <2>5
<1>10. CASE GiveBack(c)
  <2> USE <1>10, HttpAssumption DEF HttpInv, GiveBack, At, process, acceptor
  <2>1. \A d \in Conn : pc'[d] = IF d = c THEN "done" ELSE pc[d]
    BY DEF Types
  <2>2. Life'
    BY <2>1 DEF Life, Busy
  <2>3. taken # c
    BY DEF Life
  <2>4. c \in Holders /\ Counted' = Counted /\ Holders' = Holders \ {c}
    BY <2>1, <2>3 DEF Counted, Holders
  <2>5. Permits' /\ permits' \in Nat
    BY <2>4, OneHolderLess DEF Permits
  <2>6. Types'
    BY <2>5 DEF Types, Stage
  <2>. QED BY <2>2, <2>5, <2>6
<1>. QED BY <1>1, <1>2, <1>3, <1>4, <1>5, <1>6, <1>7, <1>8, <1>9, <1>10, <1>11 DEF Worker

(***************************************************************************)
(* The SSE threads, the clocks and the main thread.                        *)
(***************************************************************************)
LEMMA SseInv ==
  ASSUME HttpInv, NEW c \in Conn, Deadline(c) \/ Listen(c) \/ Unlist(c)
  PROVE  HttpInv'
<1> USE HttpAssumption DEF HttpInv, process, acceptor, pool, worker
<1>1. CASE Deadline(c)
  <2> USE <1>1 DEF Deadline
  <2>1. Types' /\ Life'
    BY DEF Types, Life
  <2>2. Counted' = Counted /\ Holders' = Holders
    BY DEF Counted, Holders
  <2>. QED BY <2>1, <2>2, SameSets DEF Permits
<1>2. CASE Listen(c) \/ Unlist(c)
  <2>1. PICK to \in {"listed", "done"} :
          /\ sse[c] \in {"greeting", "listed"} /\ sse' = [sse EXCEPT ![c] = to]
          /\ open' = IF to = "done" THEN open \ {c} ELSE open
          /\ UNCHANGED <<process, acceptor, pool, worker>>
    BY <1>2 DEF Listen, Unlist
  <2>2. Types'
    BY <2>1 DEF Types
  <2>3. \A d \in Conn : sse'[d] = IF d = c THEN to ELSE sse[d]
    BY <2>1 DEF Types
  <2>4. c \notin fresh /\ taken # c /\ pc[c] # "none" /\ pc[c] \notin Busy
    BY <2>1 DEF Life
  <2>5. Life'
    BY <2>1, <2>3, <2>4 DEF Life
  <2>6. Counted' = Counted /\ Holders' = Holders
    BY <2>1 DEF Counted, Holders
  <2>. QED BY <2>1, <2>2, <2>5, <2>6, SameSets DEF Permits
<1>. QED BY <1>1, <1>2

(* The main thread that shuts down keeps it, and so does Stop. *)
LEMMA MainInv == ASSUME HttpInv, MainThread \/ Stop PROVE HttpInv'
<1> USE DEF HttpInv, MainThread, Stop, StopServing, DrainSse, DrainWorkers, Join, DeleteSections,
            acceptor, pool, worker
<1>1. Types'
  BY DEF Types
<1>2. Life'
  BY DEF Life
<1>3. Counted' = Counted /\ Holders' = Holders
  BY DEF Counted, Holders
<1>4. Permits'
  BY <1>3, SameSets DEF Permits
<1>. QED BY <1>1, <1>2, <1>4

(* A step that changes nothing keeps it. *)
LEMMA StutterInv == ASSUME HttpInv, UNCHANGED vars PROVE HttpInv'
<1> USE DEF HttpInv, vars, process, acceptor, pool, worker
<1>1. Types' /\ Life'
  BY DEF Types, Life
<1>2. Counted' = Counted /\ Holders' = Holders
  BY DEF Counted, Holders
<1>. QED BY <1>1, <1>2, SameSets DEF Permits

(* The server never leaves its invariant: for any number of permits and connections. *)
THEOREM HttpInvariant == Spec => []HttpInv
<1>1. HttpInv /\ [Next]_vars => HttpInv'
  BY AcceptorInv, WorkerInv, SseInv, MainInv, StutterInv DEF Next
<1>. QED BY <1>1, InitInv, PTL DEF Spec

(***************************************************************************)
(* What makes the wait for the workers mean something: by then the program *)
(* is to stop, so that whoever is hired later closes the connection at     *)
(* once; and if the wait found none, none is under way.                    *)
(***************************************************************************)
UnderWay == {"head", "recv", "dispatch", "handling", "waiting"}

DrainInv ==
  /\ main # "loop" => ~running
  /\ drained => main \in {"join", "delete"} /\ \A c \in Conn : pc[c] \notin UnderWay

(* When no worker is counted, none is under way. *)
LEMMA NoneCounted == ASSUME HttpInv, active = 0 PROVE \A c \in Conn : pc[c] \notin UnderWay
<1>1. Counted = {}
  BY FS_EmptySet DEF HttpInv, Permits
<1>. QED BY <1>1 DEF Counted, UnderWay

(* A worker gets under way only while the program runs. *)
LEMMA WorkerDrains == ASSUME HttpInv, DrainInv, NEW c \in Conn, Worker(c) PROVE DrainInv'
<1> USE DEF Worker, ReadOn, TooLate, StopReading, Recv, Fin, RecvFails, Dispatch, Handled, OpEnds,
            HandOver, Uncount, GiveBack, Abandon, At, process, UnderWay
<1>1. UNCHANGED <<running, main, drained>>
  BY DEF Start
<1>2. pc \in [Conn -> Stage]
  BY DEF HttpInv, Types
<1>3. ASSUME drained, NEW d \in Conn PROVE pc'[d] \notin UnderWay
  <2>1. pc[c] \notin UnderWay /\ pc[d] \notin UnderWay /\ ~running
    BY <1>3 DEF DrainInv
  <2>2. pc'[c] \notin UnderWay
    BY <2>1, <1>2 DEF Start
  <2>3. pc'[d] = IF d = c THEN pc'[c] ELSE pc[d]
    BY <1>2 DEF Start
  <2>. QED BY <2>1, <2>2, <2>3
<1>. QED BY <1>1, <1>3 DEF DrainInv

(* The other threads of the server put nobody under way. *)
LEMMA OthersDrain ==
  ASSUME HttpInv, DrainInv,
         \/ Acceptor \/ UNCHANGED vars
         \/ \E c \in Conn : Deadline(c) \/ Listen(c) \/ Unlist(c)
  PROVE  DrainInv'
<1>1. UNCHANGED <<running, main, drained>>
  BY DEF Acceptor, AcceptHead, AcceptIdles, AcceptFails, Accept, TurnAway, Acquire, Hire, HireFails,
         Deadline, Listen, Unlist, vars, process
<1>2. pc' = pc \/ pc' = [pc EXCEPT ![taken] = "started"]
  BY DEF Acceptor, AcceptHead, AcceptIdles, AcceptFails, Accept, TurnAway, Acquire, Hire, HireFails,
         Deadline, Listen, Unlist, vars, worker
<1>3. pc \in [Conn -> Stage]
  BY DEF HttpInv, Types
<1>. QED BY <1>1, <1>2, <1>3 DEF DrainInv, UnderWay

(* Nor does the main thread. *)
LEMMA MainDrains == ASSUME HttpInv, DrainInv, MainThread \/ Stop PROVE DrainInv'
<1> USE DEF MainThread, Stop, StopServing, DrainSse, DrainWorkers, Join, DeleteSections, worker
<1>1. main' # "loop" => ~running'
  BY DEF DrainInv
<1>2. pc' = pc
  OBVIOUS
<1>3. \/ DrainWorkers /\ main' = "join" /\ (drained' => active = 0)
      \/ drained' = drained /\ (main \in {"join", "delete"} => main' \in {"join", "delete"})
  OBVIOUS
<1>. QED BY <1>1, <1>2, <1>3, NoneCounted DEF DrainInv

(***************************************************************************)
(* If the shutdown found no worker left before its time was up, no request *)
(* is handled from then on, whoever was being accepted or hired meanwhile. *)
(***************************************************************************)
THEOREM DrainedStaysQuiet == Spec => []DrainedIsQuiet
<1>1. Init => DrainInv
  BY DEF Init, DrainInv
<1>2. HttpInv /\ DrainInv /\ [Next]_vars => DrainInv'
  BY WorkerDrains, OthersDrain, MainDrains DEF Next
<1>3. DrainInv => DrainedIsQuiet
  BY DEF DrainInv, DrainedIsQuiet, UnderWay
<1>. QED BY <1>1, <1>2, <1>3, HttpInvariant, PTL DEF Spec

(***************************************************************************)
(* The invariant bounds the counters, and gives a socket its owner.        *)
(***************************************************************************)
LEMMA CountersInRange == HttpInv => TypeOK /\ PoolIsExact
<1> SUFFICES ASSUME HttpInv PROVE TypeOK /\ PoolIsExact
  OBVIOUS
<1> USE DEF HttpInv
<1>1. Counted \subseteq Holders
  BY DEF Counted, Holders
<1>2. Cardinality(Counted) <= Cardinality(Holders)
  BY <1>1, FS_Subset DEF Permits
<1>3. Cardinality(Counted) \in Nat /\ Cardinality(Holders) \in Nat
  BY FS_CardinalityType DEF Permits
<1>4. permits \in 0..Pool /\ active \in 0..Pool
  BY <1>2, <1>3, HttpAssumption DEF Permits, Types
<1>5. TypeOK
  BY <1>4 DEF TypeOK, Types, Stage, Busy
<1>. QED BY <1>5 DEF PoolIsExact, Permits

(* Whoever holds a socket is the only one, and no socket stays open without a holder. *)
LEMMA SocketHasOwner == HttpInv => OneOwner
<1> SUFFICES ASSUME HttpInv, NEW c \in Conn
             PROVE  LET owners == {x \in {"accept", "worker", "sse"} :
                         \/ x = "accept" /\ taken = c
                         \/ x = "worker" /\ pc[c] \notin {"none", "closed", "uncounted", "done"}
                         \/ x = "sse" /\ sse[c] \in {"greeting", "listed"}}
                    IN Cardinality(owners) = IF c \in open THEN 1 ELSE 0
  BY DEF OneOwner
<1> DEFINE owners == {x \in {"accept", "worker", "sse"} :
                         \/ x = "accept" /\ taken = c
                         \/ x = "worker" /\ pc[c] \notin {"none", "closed", "uncounted", "done"}
                         \/ x = "sse" /\ sse[c] \in {"greeting", "listed"}}
<1>1. pc[c] \notin {"none", "closed", "uncounted", "done"} <=> pc[c] \in Busy
  BY DEF HttpInv, Types, Stage, Busy
<1>2. /\ taken = c => pc[c] = "none"
      /\ pc[c] = "none" \/ pc[c] \in Busy => sse[c] = "none"
      /\ c \in open <=> taken = c \/ pc[c] \in Busy \/ sse[c] \in {"greeting", "listed"}
  BY DEF HttpInv, Life
<1>3. \/ c \notin open /\ owners = {}
      \/ c \in open /\ owners = {"accept"}
      \/ c \in open /\ owners = {"worker"}
      \/ c \in open /\ owners = {"sse"}
  <2>1. CASE taken = c
    BY <2>1, <1>1, <1>2
  <2>2. CASE taken # c /\ pc[c] \in Busy
    BY <2>2, <1>1, <1>2
  <2>3. CASE taken # c /\ pc[c] \notin Busy
    BY <2>3, <1>1, <1>2
  <2>. QED BY <2>1, <2>2, <2>3
<1>. QED BY <1>3, FS_EmptySet, FS_Singleton

(***************************************************************************)
(* No permit is lost or made up, and no socket is without an owner or has  *)
(* two, for any number of connections and any size of the pool.            *)
(***************************************************************************)
THEOREM PoolStaysExact == Spec => []PoolIsKept
<1>1. HttpInv => PoolIsKept
  BY CountersInRange, SocketHasOwner DEF PoolIsKept
<1>. QED BY <1>1, HttpInvariant, PTL

(***************************************************************************)
(* No path of a GET route is in the list of mutations; a change asks for   *)
(* the token whatever that list says.                                      *)
(***************************************************************************)
LEMMA RoutesAreApart ==
  /\ \A path \in GetRoutes : path \notin MutationPaths \cup {"/switch", "/profile"}
  /\ "/" \in GetRoutes
  BY DEF GetRoutes, MutationPaths

(* A request that changes something carries the token, whatever its route. *)
LEMMA ChangeHasToken ==
  ASSUME NEW r, r.method = "POST", Judge(r) = Served
  PROVE  r.token = g_csrfToken /\ g_csrfToken # NoToken /\ r.json
<1>1. Validate(r) = Served
  BY DEF Judge
<1>2. IsMutationMethod(r.method)
  BY DEF IsMutationMethod
<1>3. QED
  BY <1>1, <1>2 DEF Validate, Served

(* What the checks say of a request that a page sent to the port it is on. *)
LEMMA PageIsJudged ==
  ASSUME g_csrfToken # NoToken, NEW r, r.size = "fits", r.site # "cross-site",
         r.host.name = "127.0.0.1", r.host.port \in {NoPort, g_httpPortBound}
  PROVE  /\ r.method = "GET" /\ r.origin = {} /\ r.path \in GetRoutes => Judge(r) = Served
         /\ /\ r.method = "POST" /\ r.path \in PostRoutes /\ r.origin = {r.host} /\ r.json
            /\ r.host.port = g_httpPortBound /\ r.token = g_csrfToken
            => Judge(r) = Served
<1>1. HostIsValid(r.host)
  BY DEF HostIsValid, LiveHttpPort
<1>2. ASSUME r.method = "GET", r.origin = {}, r.path \in GetRoutes PROVE Judge(r) = Served
  <2>1. IsAllowedOrigin(r.origin)
    BY <1>2 DEF IsAllowedOrigin
  <2>2. ~ IsMutationMethod(r.method) /\ ~ IsMutationPath(r.path) /\ r.path \notin {"/switch", "/profile"}
    BY <1>2, RoutesAreApart DEF IsMutationMethod, IsMutationPath
  <2>3. Validate(r) = Served
    BY <1>1, <2>1, <2>2 DEF Validate
  <2>4. QED
    BY <1>2, <2>2, <2>3 DEF Judge
<1>3. ASSUME r.method = "POST", r.path \in PostRoutes, r.origin = {r.host}, r.json,
             r.host.port = g_httpPortBound, r.token = g_csrfToken
      PROVE  Judge(r) = Served
  <2>1. IsAllowedOrigin(r.origin)
    BY <1>3 DEF IsAllowedOrigin, LiveHttpPort
  <2>2. Validate(r) = Served
    BY <1>1, <1>3, <2>1 DEF Validate
  <2>3. QED
    BY <1>3, <2>2 DEF Judge
<1>4. QED
  BY <1>2, <1>3

(***************************************************************************)
(* Every step is judged rightly.                                           *)
(***************************************************************************)
LEMMA JudgeStep ==
  RequestsAreJudged /\ [RequestNext]_requestVars => RequestsAreJudged'
<1> SUFFICES ASSUME RequestsAreJudged, [RequestNext]_requestVars PROVE RequestsAreJudged'
  OBVIOUS
<1>t. /\ RequestTypeOK /\ MaxStarts \in Nat /\ Port \subseteq Nat \ {0} /\ starts \in Nat
      /\ g_httpPortBound \in Port /\ g_httpPortBound # NoPort
  BY RequestAssumption DEF RequestsAreJudged, RequestTypeOK, NoPort
<1>1. CASE StartProgram \/ NextRequest
  <2>1. RequestTypeOK'
    BY <1>1, <1>t DEF StartProgram, NextRequest, RequestTypeOK, NoToken
  <2>2. request' = NoRequest /\ answer' # Served
    BY <1>1 DEF StartProgram, NextRequest, Served
  <2>3. QED
    BY <2>1, <2>2 DEF RequestsAreJudged, FromPage
<1>2. ASSUME NEW port \in Port, Configure(port) PROVE RequestsAreJudged'
  BY <1>2, <1>t DEF Configure, RequestTypeOK, RequestsAreJudged, FromPage
<1>3. ASSUME NEW r, Asks(r), page' \in [token : 0..MaxStarts, port : Port \cup {NoPort}],
             r.asker = "page" /\ g_csrfToken # NoToken =>
               /\ r.method = "GET" => Judge(r) = Served
               /\ g_httpPortBound # DefaultPort => Judge(r) = Served \/ r.token # g_csrfToken
      PROVE  RequestsAreJudged'
  <2>1. RequestTypeOK'
    BY <1>3, <1>t DEF Asks, RequestTypeOK
  <2>2. request' = r /\ answer' = Judge(r) /\ g_csrfToken' = g_csrfToken /\ g_httpPortBound' = g_httpPortBound
    BY <1>3 DEF Asks
  <2>3. answer' = Served /\ request'.method = "POST" /\ request'.path \in Changing
          => request'.token = g_csrfToken' /\ g_csrfToken' # NoToken /\ request'.json
    BY <2>2, ChangeHasToken
  <2>4. QED
    BY <1>3, <2>1, <2>2, <2>3 DEF RequestsAreJudged, FromPage
<1>4. CASE OpenPage
  <2> DEFINE r == [PageRequest("GET", "/", LiveHttpPort) EXCEPT !.site = "none", !.token = NoToken,
                                                                !.json = FALSE]
  <2>1. Asks(r) /\ page' \in {page, [token |-> g_csrfToken, port |-> g_httpPortBound]}
    BY <1>4 DEF OpenPage
  <2>2. page' \in [token : 0..MaxStarts, port : Port \cup {NoPort}]
    BY <2>1, <1>t DEF RequestTypeOK
  <2>3. /\ r.method = "GET" /\ r.path = "/" /\ r.origin = {} /\ r.size = "fits" /\ r.site = "none"
        /\ r.host.name = "127.0.0.1" /\ r.host.port \in {NoPort, g_httpPortBound}
    BY DEF PageRequest, LiveHttpPort
  <2> HIDE DEF r
  <2>4. g_csrfToken # NoToken => Judge(r) = Served
    BY <2>3, PageIsJudged, RoutesAreApart
  <2>5. QED
    BY <1>3, <2>1, <2>2, <2>4
<1>5. ASSUME NEW method \in {"GET", "POST"}, NEW path \in Paths, PageAsks(method, path)
      PROVE  RequestsAreJudged'
  <2> DEFINE r == PageRequest(method, path, page.port)
  <2>1. /\ Asks(r) /\ page' = page /\ page.port = g_httpPortBound
        /\ path \in IF method = "GET" THEN GetRoutes ELSE PostRoutes
    BY <1>5 DEF PageAsks
  <2>2. page' \in [token : 0..MaxStarts, port : Port \cup {NoPort}]
    BY <2>1, <1>t DEF RequestTypeOK
  <2>3. /\ r.method = method /\ r.path = path /\ r.size = "fits" /\ r.site = "same-origin" /\ r.json
        /\ r.host.name = "127.0.0.1" /\ r.host.port \in {NoPort, g_httpPortBound}
        /\ g_httpPortBound # DefaultPort => r.host.port = g_httpPortBound
        /\ method = "GET" => r.origin = {}
        /\ method = "POST" => r.origin = {r.host}
    BY <2>1 DEF PageRequest
  <2> HIDE DEF r
  <2>4. method = "GET" => path \in GetRoutes
    BY <2>1
  <2>5. method = "POST" => path \in PostRoutes
    BY <2>1
  <2>6. g_csrfToken # NoToken /\ method = "GET" => Judge(r) = Served
    BY <2>3, <2>4, PageIsJudged
  <2>7. g_csrfToken # NoToken /\ method = "POST" /\ g_httpPortBound # DefaultPort
          => Judge(r) = Served \/ r.token # g_csrfToken
    BY <2>3, <2>5, PageIsJudged
  <2>8. QED
    BY <1>3, <2>1, <2>2, <2>3, <2>6, <2>7
<1>6. ASSUME NEW method, NEW path, NEW token, NEW json, NEW host, NEW origin, NEW site, NEW size,
             OtherAsks(method, path, token, json, host, origin, site, size)
      PROVE  RequestsAreJudged'
  <2> DEFINE r == [asker |-> "other", method |-> method, path |-> path, token |-> token,
                   json |-> json, host |-> host, origin |-> origin, site |-> site, size |-> size]
  <2>1. Asks(r) /\ page' = page /\ r.asker = "other"
    BY <1>6 DEF OtherAsks
  <2> HIDE DEF r
  <2>2. page' \in [token : 0..MaxStarts, port : Port \cup {NoPort}]
    BY <2>1, <1>t DEF RequestTypeOK
  <2>3. QED
    BY <1>3, <2>1, <2>2
<1>7. CASE UNCHANGED requestVars
  BY <1>7 DEF requestVars, RequestsAreJudged, RequestTypeOK, FromPage
<1>8. QED
  BY <1>1, <1>2, <1>4, <1>5, <1>6, <1>7 DEF RequestNext, SomeRequest

(***************************************************************************)
(* Whatever ports are configured and however often the program starts:     *)
(* nothing is changed without the token of the running program, and a page *)
(* is served unless its token is of an earlier start or the port is the    *)
(* one that browsers do not write.                                         *)
(***************************************************************************)
THEOREM ChecksAndRoutesAgree == RequestSpec => []RequestsAreJudged
<1>1. RequestInit => RequestsAreJudged
  BY RequestAssumption
  DEF RequestInit, RequestsAreJudged, RequestTypeOK, FromPage, NoRequest, Served, NoToken, NoPort
<1>2. QED
  BY <1>1, JudgeStep, PTL DEF RequestSpec

-----------------------------------------------------------------------------
(* What an event of the feed and a press are made of. *)
Ids == {Unknown} \cup {IdOf[d] : d \in Device}
Event == [seq : Nat, identifiable : BOOLEAN, id : Ids]
Press == [device : Device \cup {NoDevice}, readable : BOOLEAN]

FeedTyped ==
  /\ g_identified \in [has : BOOLEAN, identifiable : BOOLEAN, id : Ids]
  /\ g_identifyEvents \in Seq(Event)
  /\ g_identifySeq \in Nat
  /\ presses \in Seq(Press)

(* An id is that of a device, or unknown. *)
LEMMA IdIsRead ==
  ASSUME FeedTyped, NEW d \in Device \cup {NoDevice}, NEW readable \in BOOLEAN
  PROVE  IdRead(d, readable) \in Ids
BY DEF FeedTyped, IdRead, Ids

(* A press becomes the last event; if the ring is full the first one      *)
(* goes, and the others move up by one.                                   *)
LEMMA RecordStep ==
  ASSUME FeedTyped, FeedIsTrue, NEW d \in Device \cup {NoDevice}, NEW readable \in BOOLEAN,
         RecordIdentifyEvent(d, readable)
  PROVE  FeedTyped' /\ FeedIsTrue'
<1> USE IdentifyFeedAssumption
<1> DEFINE id == IdRead(d, readable)
           e == [seq |-> g_identifySeq + 1, identifiable |-> d # NoDevice, id |-> id]
           pr == [device |-> d, readable |-> readable]
           all == Append(g_identifyEvents, e)
           n == Len(presses)
           shown == Len(g_identifyEvents)
<1>1. id \in Ids  BY IdIsRead
<1>2. (d # NoDevice) \in BOOLEAN  OBVIOUS
<1>3. g_identifySeq \in Nat /\ n \in Nat /\ shown \in Nat /\ g_identifySeq = n
  BY DEF FeedTyped, FeedIsTrue
<1>4. e \in Event  BY <1>1, <1>2, <1>3 DEF Event
<1>5. pr \in Press  BY DEF Press
<1>6. /\ g_identified' = [has |-> TRUE, identifiable |-> d # NoDevice, id |-> id]
      /\ g_identifyEvents' = IF Len(all) > Ring THEN Tail(all) ELSE all
      /\ g_identifySeq' = g_identifySeq + 1
      /\ presses' = Append(presses, pr)
  BY DEF RecordIdentifyEvent
<1>7. /\ e.seq = n + 1 /\ (e.identifiable <=> d # NoDevice) /\ e.id = id
      /\ pr.device = d /\ (pr.readable <=> readable)
  BY <1>3
<1>8. Tells(e, pr)
  BY <1>7 DEF Tells, IdRead
<1>9. g_identified' \in [has : BOOLEAN, identifiable : BOOLEAN, id : Ids]
  <2> HIDE DEF id
  <2> QED BY <1>1, <1>2, <1>6
<1>10. g_identified'.has  BY <1>6
<1> HIDE DEF id, e, pr
<1>11. /\ g_identifyEvents \in Seq(Event) /\ presses \in Seq(Press)
  BY DEF FeedTyped
<1>12. all \in Seq(Event) /\ Len(all) = shown + 1 /\ all[shown+1] = e
       /\ \A i \in 1..shown : all[i] = g_identifyEvents[i]
  BY <1>4, <1>11
<1>13. presses' \in Seq(Press) /\ Len(presses') = n + 1 /\ presses'[n+1] = pr
       /\ \A i \in 1..n : presses'[i] = presses[i]
  BY <1>5, <1>6, <1>11
<1>14. \A i \in 1..shown+1 : all[i].seq = n - shown + i /\ Tells(all[i], presses'[all[i].seq])
  <2> SUFFICES ASSUME NEW i \in 1..shown+1
               PROVE all[i].seq = n - shown + i /\ Tells(all[i], presses'[all[i].seq])
    OBVIOUS
  <2>1. CASE i = shown + 1  BY <2>1, <1>3, <1>7, <1>8, <1>12, <1>13
  <2>2. CASE i \in 1..shown
    <3>1. g_identifyEvents[i].seq = n - shown + i
          /\ Tells(g_identifyEvents[i], presses[g_identifyEvents[i].seq])
      BY <2>2 DEF FeedIsTrue
    <3>2. shown <= n  BY <1>3 DEF FeedIsTrue
    <3>3. n - shown + i \in 1..n  BY <2>2, <3>2, <1>3
    <3> QED BY <2>2, <3>1, <3>3, <1>12, <1>13
  <2> QED BY <2>1, <2>2, <1>3
<1>15. shown = IF n < Ring THEN n ELSE Ring  BY DEF FeedIsTrue
<1> HIDE DEF all
<1>16. CASE Len(all) > Ring
  <2> DEFINE t == Tail(all)
  <2>1. t \in Seq(Event) /\ Len(t) = shown /\ \A i \in 1..shown : t[i] = all[i+1]
    BY <1>12, <1>3
  <2>2. g_identifyEvents' = t  BY <1>6, <1>16
  <2>3. shown = Ring /\ n >= Ring  BY <1>3, <1>12, <1>15, <1>16
  <2>4. FeedTyped'  BY <1>3, <1>6, <1>9, <1>13, <2>1, <2>2 DEF FeedTyped
  <2> HIDE DEF t
  <2>5. \A i \in 1..shown : t[i].seq = n + 1 - shown + i /\ Tells(t[i], presses'[t[i].seq])
    <3> SUFFICES ASSUME NEW i \in 1..shown
                 PROVE t[i].seq = n + 1 - shown + i /\ Tells(t[i], presses'[t[i].seq])
      OBVIOUS
    <3>1. i + 1 \in 1..shown+1 /\ n - shown + (i + 1) = n + 1 - shown + i  BY <1>3
    <3> QED BY <3>1, <1>14, <2>1
  <2>6. FeedIsTrue'
    <3> USE <1>3, <1>6, <1>10, <1>13, <2>1, <2>2, <2>3, <2>5
    <3>1. g_identifySeq' = Len(presses') /\ (g_identified'.has <=> Len(presses') > 0)
          /\ Len(g_identifyEvents') = IF Len(presses') < Ring THEN Len(presses') ELSE Ring
      OBVIOUS
    <3>2. \A i \in 1..Len(g_identifyEvents') :
            /\ g_identifyEvents'[i].seq = Len(presses') - Len(g_identifyEvents') + i
            /\ Tells(g_identifyEvents'[i], presses'[g_identifyEvents'[i].seq])
      <4>1. Len(g_identifyEvents') = shown /\ Len(presses') = n + 1
        BY ONLY <1>13, <2>1, <2>2
      <4>. QED BY ONLY <4>1, <2>2, <2>5
    <3> QED BY ONLY <3>1, <3>2 DEF FeedIsTrue, Tells
  <2> QED BY <2>4, <2>6
<1>17. CASE ~ (Len(all) > Ring)
  <2>1. g_identifyEvents' = all  BY <1>6, <1>17
  <2>2. Len(all) = n + 1 /\ n < Ring  BY <1>3, <1>12, <1>15, <1>17
  <2>3. FeedTyped'  BY <1>3, <1>6, <1>9, <1>13, <1>12, <2>1 DEF FeedTyped
  <2>4. FeedIsTrue'
    <3> USE <1>3, <1>6, <1>10, <1>12, <1>13, <1>14, <1>15, <2>1, <2>2
    <3>1. g_identifySeq' = Len(presses') /\ (g_identified'.has <=> Len(presses') > 0)
          /\ Len(g_identifyEvents') = IF Len(presses') < Ring THEN Len(presses') ELSE Ring
      OBVIOUS
    <3>2. \A i \in 1..Len(g_identifyEvents') :
            /\ g_identifyEvents'[i].seq = Len(presses') - Len(g_identifyEvents') + i
            /\ Tells(g_identifyEvents'[i], presses'[g_identifyEvents'[i].seq])
      BY ONLY <1>3, <1>12, <1>13, <1>14, <2>1, <2>2
    <3> QED BY ONLY <3>1, <3>2 DEF FeedIsTrue, Tells
  <2> QED BY <2>3, <2>4
<1> QED BY <1>16, <1>17

(* A feed that was cleared tells of no press. *)
LEMMA ClearedFeed ==
  ASSUME g_identified = NothingIdentified, g_identifyEvents = <<>>, g_identifySeq = 0, presses = <<>>
  PROVE  FeedTyped /\ FeedIsTrue
BY IdentifyFeedAssumption DEF NothingIdentified, FeedTyped, FeedIsTrue, Ids

(* IdentifyFeed (WM_INPUT and the identify routes): the feed is the last  *)
(* presses since it was cleared, each under its number and its device;    *)
(* for any devices, and a ring of any length.                             *)
THEOREM FeedStaysTrue == FeedSpec => []FeedIsTrue
<1>1. FeedInit => FeedTyped /\ FeedIsTrue  BY ClearedFeed DEF FeedInit
<1>2. FeedTyped /\ FeedIsTrue /\ [FeedNext]_feedVars => (FeedTyped /\ FeedIsTrue)'
  <2> SUFFICES ASSUME FeedTyped, FeedIsTrue, [FeedNext]_feedVars
               PROVE (FeedTyped /\ FeedIsTrue)'
    OBVIOUS
  <2>1. CASE ClearFeed
    <3>1. FeedTyped'  BY <2>1 DEF ClearFeed, FeedTyped, NothingIdentified, Ids
    <3>2. FeedIsTrue'  BY <2>1, IdentifyFeedAssumption DEF ClearFeed, FeedIsTrue, NothingIdentified
    <3> QED BY <3>1, <3>2
  <2>2. ASSUME NEW d \in Device \cup {NoDevice}, NEW readable \in BOOLEAN,
               RecordIdentifyEvent(d, readable)
        PROVE  (FeedTyped /\ FeedIsTrue)'
    BY <2>2, RecordStep
  <2>3. CASE UNCHANGED feedVars  BY <2>3 DEF feedVars, FeedTyped, FeedIsTrue, Tells
  <2> QED BY <2>1, <2>2, <2>3 DEF FeedNext
<1> QED BY <1>1, <1>2, PTL DEF FeedSpec

-----------------------------------------------------------------------------
USE SseAssumption

(* The types of the hub, in parts that a step changes one by one. *)
ServerTyped ==
  /\ revision \in 0..MaxRevision /\ pushing \in [Bumper -> 0..MaxRevision]
  /\ g_running \in BOOLEAN
SocketsTyped ==
  /\ registry \subseteq Socket
  /\ peer \in [Socket -> Page \cup {NoPage}]
ThreadsTyped ==
  /\ stage \in [SseThread -> {"none", "started", "admitted", "greeted", "loop", "check",
                      "leaving", "closing"}]
  /\ sock \in [SseThread -> Socket \cup {NoSocket}]
  /\ \A t \in SseThread : stage[t] # "none" => sock[t] \in Socket
PagesTyped ==
  /\ conn \in [Page -> {"none", "open", "gone"}]
  /\ polling \subseteq Page /\ dirty \subseteq Page
  /\ missed \subseteq Page /\ ignored \subseteq Page
ChanTyped == chan \in [Page -> Seq(0..MaxRevision)]
LoadsTyped ==
  /\ answers \in [Page -> SUBSET (0..MaxRevision)]
  /\ last \in [Page -> 0..MaxRevision] /\ view \in [Page -> 0..MaxRevision]
  /\ newest \in [Page -> 0..MaxRevision] /\ crossed \subseteq Page /\ failed \subseteq Page
  /\ asked \in [Page -> 0..Loads]

(* The parts together are the type of the hub. *)
LEMMA HubTypeParts ==
  ServerTyped /\ SocketsTyped /\ ThreadsTyped /\ PagesTyped /\ ChanTyped /\ LoadsTyped /\ count \in 0..Cardinality(SseThread)
    => HubTypeOK
BY DEF HubTypeOK, ServerTyped, SocketsTyped, ThreadsTyped, PagesTyped, ChanTyped, LoadsTyped

HubTyped == ServerTyped /\ SocketsTyped /\ ThreadsTyped /\ PagesTyped /\ ChanTyped /\ LoadsTyped

(* Every step keeps the types, part by part. *)
LEMMA ServerTypedStep ==
  ASSUME HubTyped, [HubNext]_hubVars
  PROVE ServerTyped'
<1> USE DEF HubTyped, ServerTyped, server
<1>1. CASE \E b \in Bumper : Bump(b)  BY <1>1 DEF Bump
<1>2. CASE \E b \in Bumper : \E failing \in SUBSET Socket : Notify(b, failing)  BY <1>2 DEF Notify
<1>3. CASE \E failing \in SUBSET Socket : NotifyActivity(failing)  BY <1>3 DEF NotifyActivity
<1>4. CASE \/ \E c \in Page, t \in SseThread, s \in Socket : Connect(c, t, s)
          \/ \E t \in SseThread : ClientThread(t)
  BY <1>4 DEF ClientThread, Connect, End, Refuse, Admit, Greet, Register, Look, Check, Leave, CloseErased
<1>5. CASE \E c \in Page : Browser(c)
  BY <1>5 DEF Browser, Receive, Poll, Answer, Show, Fail, Edit, Save, Select, Lost, Quit
<1>6. CASE Terminate  BY <1>6 DEF Terminate
<1>7. CASE UNCHANGED hubVars  BY <1>7 DEF hubVars
<1> QED BY <1>1, <1>2, <1>3, <1>4, <1>5, <1>6, <1>7 DEF HubNext

(* The sockets keep their types, *)
LEMMA SocketsTypedStep ==
  ASSUME HubTyped, [HubNext]_hubVars
  PROVE SocketsTyped'
<1> USE DEF HubTyped, ThreadsTyped, SocketsTyped, sockets
<1>0. \A ss : Close(ss) => peer' \in [Socket -> Page \cup {NoPage}]  BY DEF Close
<1>1. CASE \E b \in Bumper : Bump(b)  BY <1>1 DEF Bump
<1>2. CASE \E b \in Bumper : \E failing \in SUBSET Socket : Notify(b, failing)  BY <1>2, <1>0 DEF Notify, Drop
<1>3. CASE \E failing \in SUBSET Socket : NotifyActivity(failing)  BY <1>3, <1>0 DEF NotifyActivity, Drop
<1>4. CASE \E c \in Page, t \in SseThread, s \in Socket : Connect(c, t, s)  BY <1>4 DEF Connect
<1>8. ASSUME NEW t \in SseThread, ClientThread(t) PROVE SocketsTyped'
  <2>1. CASE Register(t)  BY <2>1 DEF Register
  <2>2. CASE Leave(t)  BY <2>2 DEF Leave
  <2> QED BY <1>8, <1>0, <2>1, <2>2 DEF ClientThread, Refuse, Admit, Greet, Look, Check, CloseErased
<1>5. CASE \E c \in Page : Browser(c)
  BY <1>5, <1>0 DEF Browser, Receive, Poll, Answer, Show, Fail, Edit, Save, Select, Lost, Quit
<1>6. CASE Terminate  BY <1>6 DEF Terminate
<1>7. CASE UNCHANGED hubVars  BY <1>7 DEF hubVars
<1> QED BY <1>1, <1>2, <1>3, <1>4, <1>5, <1>6, <1>7, <1>8 DEF HubNext

(* the threads theirs, *)
LEMMA ThreadsTypedStep ==
  ASSUME HubTyped, [HubNext]_hubVars
  PROVE ThreadsTyped'
<1> USE DEF HubTyped, ThreadsTyped, threads
<1>1. CASE \E b \in Bumper : Bump(b)  BY <1>1 DEF Bump
<1>2. CASE \E b \in Bumper : \E failing \in SUBSET Socket : Notify(b, failing)  BY <1>2 DEF Notify
<1>3. CASE \E failing \in SUBSET Socket : NotifyActivity(failing)  BY <1>3 DEF NotifyActivity
<1>4. CASE \E c \in Page, t \in SseThread, s \in Socket : Connect(c, t, s)  BY <1>4 DEF Connect
<1>8. ASSUME NEW t \in SseThread, ClientThread(t) PROVE ThreadsTyped'
  <2>1. CASE Refuse(t) \/ CloseErased(t)  BY <2>1 DEF Refuse, CloseErased, End
  <2>2. CASE Leave(t)  BY <2>2 DEF Leave, End
  <2>3. CASE Admit(t) \/ Greet(t) \/ Register(t)  BY <2>3 DEF Admit, Greet, Register
  <2>4. CASE Look(t) \/ Check(t)  BY <2>4 DEF Look, Check
  <2> QED BY <1>8, <2>1, <2>2, <2>3, <2>4 DEF ClientThread
<1>5. CASE \E c \in Page : Browser(c)
  BY <1>5 DEF Browser, Receive, Poll, Answer, Show, Fail, Edit, Save, Select, Lost, Quit
<1>6. CASE Terminate  BY <1>6 DEF Terminate
<1>7. CASE UNCHANGED hubVars  BY <1>7 DEF hubVars
<1> QED BY <1>1, <1>2, <1>3, <1>4, <1>5, <1>6, <1>7, <1>8 DEF HubNext

(* the pages theirs, *)
LEMMA PagesTypedStep ==
  ASSUME HubTyped, [HubNext]_hubVars
  PROVE PagesTyped'
<1> USE DEF HubTyped, PagesTyped, pages, excused
<1>1. CASE \E b \in Bumper : Bump(b)  BY <1>1 DEF Bump
<1>2. CASE \E b \in Bumper : \E failing \in SUBSET Socket : Notify(b, failing)  BY <1>2 DEF Notify
<1>3. CASE \E failing \in SUBSET Socket : NotifyActivity(failing)  BY <1>3 DEF NotifyActivity
<1>4. CASE \E c \in Page, t \in SseThread, s \in Socket : Connect(c, t, s)  BY <1>4 DEF Connect
<1>8. ASSUME NEW t \in SseThread, ClientThread(t) PROVE PagesTyped'
  <2>1. CASE Greet(t)  BY <2>1 DEF Greet
  <2> QED BY <1>8, <2>1 DEF ClientThread, End, Refuse, Admit, Register, Look, Check, Leave, CloseErased
<1>5. CASE \E c \in Page : Browser(c)
  BY <1>5 DEF Browser, Receive, Poll, Answer, Show, Fail, Edit, Save, Select, Lost, Quit
<1>6. CASE Terminate  BY <1>6 DEF Terminate
<1>7. CASE UNCHANGED hubVars  BY <1>7 DEF hubVars
<1> QED BY <1>1, <1>2, <1>3, <1>4, <1>5, <1>6, <1>7, <1>8 DEF HubNext

(* the events under way theirs, *)
LEMMA ChanTypedStep ==
  ASSUME HubTyped, [HubNext]_hubVars
  PROVE ChanTyped'
<1> USE DEF HubTyped, ServerTyped, ChanTyped
<1>1. CASE \E b \in Bumper : Bump(b)  BY <1>1 DEF Bump
<1>2. ASSUME NEW b \in Bumper, NEW failing \in SUBSET Socket, Notify(b, failing) PROVE ChanTyped'
  <2>1. \A c \in Page : Append(chan[c], pushing[b]) \in Seq(0..MaxRevision)  OBVIOUS
  <2> QED BY <1>2, <2>1 DEF Notify
<1>3. CASE \E failing \in SUBSET Socket : NotifyActivity(failing)  BY <1>3 DEF NotifyActivity
<1>4. CASE \E c \in Page, t \in SseThread, s \in Socket : Connect(c, t, s)  BY <1>4 DEF Connect
<1>8. ASSUME NEW t \in SseThread, ClientThread(t) PROVE ChanTyped'
  <2>1. CASE Greet(t)
    <3>1. \A c \in Page : Append(chan[c], revision) \in Seq(0..MaxRevision)  OBVIOUS
    <3> QED BY <2>1, <3>1 DEF Greet
  <2> QED BY <1>8, <2>1 DEF ClientThread, End, Refuse, Admit, Register, Look, Check, Leave, CloseErased
<1>5. ASSUME NEW c \in Page, Browser(c) PROVE ChanTyped'
  <2>1. CASE Receive(c)
    <3>1. Tail(chan[c]) \in Seq(0..MaxRevision)  BY <2>1 DEF Receive
    <3> QED BY <2>1, <3>1 DEF Receive
  <2>2. CASE Quit(c)
    <3>1. <<>> \in Seq(0..MaxRevision)  OBVIOUS
    <3> QED BY <2>2, <3>1 DEF Quit
  <2> QED BY <1>5, <2>1, <2>2 DEF Browser, Poll, Answer, Show, Fail, Edit, Save, Select, Lost
<1>6. CASE Terminate  BY <1>6 DEF Terminate
<1>7. CASE UNCHANGED hubVars  BY <1>7 DEF hubVars
<1> QED BY <1>1, <1>2, <1>3, <1>4, <1>5, <1>6, <1>7, <1>8 DEF HubNext

(* what is loaded its own, *)
LEMMA LoadsTypedStep ==
  ASSUME HubTyped, [HubNext]_hubVars
  PROVE LoadsTyped'
<1> USE DEF HubTyped, ServerTyped, LoadsTyped, pages, loading
<1>1. CASE \E b \in Bumper : Bump(b)  BY <1>1 DEF Bump
<1>2. CASE \E b \in Bumper : \E failing \in SUBSET Socket : Notify(b, failing)  BY <1>2 DEF Notify
<1>3. CASE \E failing \in SUBSET Socket : NotifyActivity(failing)  BY <1>3 DEF NotifyActivity
<1>4. CASE \/ \E c \in Page, t \in SseThread, s \in Socket : Connect(c, t, s)
          \/ \E t \in SseThread : ClientThread(t)
  BY <1>4 DEF ClientThread, Connect, End, Refuse, Admit, Greet, Register, Look, Check, Leave, CloseErased
<1>5. ASSUME NEW c \in Page, Browser(c) PROVE LoadsTyped'
  <2>0. CanLoad(c) => asked[c] < Loads
    <3>1. IsFiniteSet(0..MaxRevision)
      <4>1. 0 \in Int /\ MaxRevision \in Int  OBVIOUS
      <4> QED BY <4>1, FS_Interval
    <3>2. IsFiniteSet(answers[c])  BY <3>1, FS_Subset
    <3>3. Cardinality(answers[c]) \in Nat  BY <3>2, FS_CardinalityType
    <3> QED BY <3>3 DEF CanLoad
  <2>1. CASE Receive(c)
    <3>1. Head(chan[c]) \in 0..MaxRevision  BY <2>1 DEF Receive, ChanTyped
    <3>2. Refresh(c) => asked' \in [Page -> 0..Loads] /\ crossed' \subseteq Page /\ failed' \subseteq Page
      BY <2>0 DEF Refresh
    <3>3. Refresh(c) \/ UNCHANGED <<asked, crossed, failed>>  BY <2>1 DEF Receive
    <3>4. last' \in [Page -> 0..MaxRevision]  BY <2>1, <3>1 DEF Receive
    <3> QED BY <2>1, <3>2, <3>3, <3>4 DEF Receive
  <2>2. CASE Poll(c)  BY <2>2, <2>0 DEF Poll, Refresh
  <2>3. CASE Save(c)  BY <2>3, <2>0 DEF Save, Refresh
  <2>4. CASE Answer(c)  BY <2>4 DEF Answer
  <2>5. CASE Show(c)
    <3>1. PICK r \in answers[c] : /\ answers' = [answers EXCEPT ![c] = @ \ {r}]
                                  /\ view' = [view EXCEPT ![c] = r]
                                  /\ newest' = [newest EXCEPT ![c] = IF r > @ THEN r ELSE @]
                                  /\ UNCHANGED <<last, asked, crossed, failed>>
      BY <2>5 DEF Show
    <3> QED BY <3>1
  <2>6. CASE Quit(c)
    <3>1. {} \in SUBSET (0..MaxRevision) /\ 0 \in 0..Loads  OBVIOUS
    <3> QED BY <2>6, <3>1 DEF Quit
  <2>7. CASE Fail(c)
    <3>1. failed' \subseteq Page /\ UNCHANGED <<last, view, newest, crossed>>  BY <2>7 DEF Fail
    <3>2. CASE asked[c] > 0 /\ asked' = [asked EXCEPT ![c] = @ - 1] /\ UNCHANGED answers
      BY <3>1, <3>2
    <3>3. CASE \E x \in answers[c] : answers' = [answers EXCEPT ![c] = @ \ {x}] /\ UNCHANGED asked
      BY <3>1, <3>3
    <3> QED BY <2>7, <3>2, <3>3 DEF Fail
  <2> QED BY <1>5, <2>1, <2>2, <2>3, <2>4, <2>5, <2>6, <2>7 DEF Browser, Edit, Select, Lost
<1>6. CASE Terminate  BY <1>6 DEF Terminate
<1>7. CASE UNCHANGED hubVars  BY <1>7 DEF hubVars
<1> QED BY <1>1, <1>2, <1>3, <1>4, <1>5, <1>6, <1>7 DEF HubNext

(* and so the hub keeps its type. *)
LEMMA HubTypedStep ==
  ASSUME HubTyped, [HubNext]_hubVars
  PROVE HubTyped'
BY ServerTypedStep, SocketsTypedStep, ThreadsTypedStep, PagesTypedStep, ChanTypedStep, LoadsTypedStep DEF HubTyped

(* No two threads have the same handle in hand, to list it or to close it. *)
Handles ==
  \A t, u \in SseThread : InHand(t) /\ InHand(u) /\ sock[t] = sock[u] => t = u

(* A socket in hand is open and not listed; each record is watched by a   *)
(* thread in the loop; an open socket is listed or in hand, and its page  *)
(* has asked for it.                                                      *)
Own == \A t \in SseThread : InHand(t) => peer[sock[t]] # NoPage /\ sock[t] \notin registry
Watched == \A s \in registry : \E t \in SseThread : InLoop(t) /\ sock[t] = s
Opened ==
  \A s \in Socket : peer[s] # NoPage <=> s \in registry \/ \E t \in SseThread : InHand(t) /\ sock[t] = s
Asked == \A s \in Socket : peer[s] \in Page => conn[peer[s]] # "none"
Records == Handles /\ Own /\ Watched /\ Opened /\ Asked
Tallied == IsFiniteSet(registry) /\ count = Cardinality(registry)
HubInv == HubTyped /\ Records /\ Tallied

(* Every step keeps the handles and the records: a thread closes a socket *)
(* only when it has itself erased the record of the handle, whoever       *)
(* listed it.                                                             *)
LEMMA RecordsStep ==
  ASSUME HubInv, [HubNext]_hubVars
  PROVE Records'
<1> USE DEF HubInv, HubTyped, SocketsTyped, ThreadsTyped, PagesTyped, Records, Handles, Own, Watched, Opened, Asked,
            InHand, InLoop, sockets, threads, pages
<1>1. CASE \E b \in Bumper : Bump(b)  BY <1>1 DEF Bump
<1>0. ASSUME NEW failing \in SUBSET Socket, Drop(failing), UNCHANGED <<threads, conn>>
      PROVE  Records'
  <2>1. /\ failing \subseteq registry /\ registry' = registry \ failing
        /\ peer' = [s \in Socket |-> IF s \in failing THEN NoPage ELSE peer[s]]
    BY <1>0 DEF Drop, Close
  <2>2. Handles' /\ Own'  BY <1>0, <2>1
  <2>3. Watched'  BY <1>0, <2>1
  <2>4. Opened'  BY <1>0, <2>1
  <2>5. Asked'  BY <1>0, <2>1
  <2> QED BY <2>2, <2>3, <2>4, <2>5
<1>2. CASE \E b \in Bumper : \E failing \in SUBSET Socket : Notify(b, failing)  BY <1>2, <1>0 DEF Notify
<1>3. CASE \E failing \in SUBSET Socket : NotifyActivity(failing)  BY <1>3, <1>0 DEF NotifyActivity
<1>4. ASSUME NEW c \in Page, NEW t \in SseThread, NEW s \in Socket, Connect(c, t, s) PROVE Records'
  <2> USE <1>4 DEF Connect
  <2>1. Handles'  OBVIOUS
  <2>2. Own'  OBVIOUS
  <2>3. Watched'  OBVIOUS
  <2>4. Opened'  OBVIOUS
  <2>5. Asked'  OBVIOUS
  <2> QED BY <2>1, <2>2, <2>3, <2>4, <2>5
<1>5. ASSUME NEW t \in SseThread, Refuse(t) \/ CloseErased(t) PROVE Records'
  <2>1. /\ InHand(t)
        /\ stage' = [stage EXCEPT ![t] = "none"] /\ sock' = [sock EXCEPT ![t] = NoSocket]
        /\ peer' = [s \in Socket |-> IF s \in {sock[t]} THEN NoPage ELSE peer[s]]
        /\ UNCHANGED <<registry, conn>>
    BY <1>5 DEF Refuse, CloseErased, Close, End
  <2>2. Handles'  BY <2>1
  <2>3. Own'  BY <2>1
  <2>4. Watched'  BY <2>1
  <2>5. Opened'  BY <2>1
  <2>6. Asked'  BY <2>1
  <2> QED BY <2>2, <2>3, <2>4, <2>5, <2>6
<1>6. ASSUME NEW t \in SseThread, Admit(t) \/ Greet(t) PROVE Records'
  <2>1. /\ stage[t] \in {"started", "admitted"}
        /\ (stage' = [stage EXCEPT ![t] = "admitted"] \/ stage' = [stage EXCEPT ![t] = "greeted"])
        /\ UNCHANGED <<registry, peer, sock, conn>>
    BY <1>6 DEF Admit, Greet
  <2>2. \A u \in SseThread : (InHand(u)' <=> InHand(u)) /\ (InLoop(u)' <=> InLoop(u))
                             /\ (stage'[u] = "none" <=> stage[u] = "none")
    BY <2>1
  <2> QED BY <2>1, <2>2
<1>7. ASSUME NEW t \in SseThread, Register(t) PROVE Records'
  <2> USE <1>7 DEF Register
  <2>1. Handles'  OBVIOUS
  <2>2. Own'  OBVIOUS
  <2>3. Watched'  OBVIOUS
  <2>4. Opened'  OBVIOUS
  <2>5. Asked'  OBVIOUS
  <2> QED BY <2>1, <2>2, <2>3, <2>4, <2>5
<1>8. ASSUME NEW t \in SseThread, Look(t) \/ Check(t) PROVE Records'
  <2>1. /\ stage[t] \in {"loop", "check"}
        /\ \E g \in {"loop", "check", "leaving"} : stage' = [stage EXCEPT ![t] = g]
        /\ UNCHANGED <<registry, peer, sock, conn>>
    BY <1>8 DEF Look, Check
  <2>2. \A u \in SseThread : (InHand(u)' <=> InHand(u)) /\ (InLoop(u)' <=> InLoop(u))
                             /\ (stage'[u] = "none" <=> stage[u] = "none")
    BY <2>1
  <2> QED BY <2>1, <2>2
<1>9. ASSUME NEW t \in SseThread, Leave(t) PROVE Records'
  <2>1. CASE sock[t] \in registry
    <3>1. /\ stage[t] = "leaving" /\ registry' = registry \ {sock[t]}
          /\ stage' = [stage EXCEPT ![t] = "closing"] /\ UNCHANGED <<peer, sock, conn>>
      BY <1>9, <2>1 DEF Leave
    <3>2. Handles'  BY <2>1, <3>1
    <3>3. Own'  BY <2>1, <3>1
    <3>4. Watched'  BY <2>1, <3>1
    <3>5. Opened'  BY <2>1, <3>1
    <3>6. Asked'  BY <2>1, <3>1
    <3> QED BY <3>2, <3>3, <3>4, <3>5, <3>6
  <2>2. CASE sock[t] \notin registry
    <3>1. /\ stage[t] = "leaving" /\ stage' = [stage EXCEPT ![t] = "none"]
          /\ sock' = [sock EXCEPT ![t] = NoSocket] /\ UNCHANGED <<peer, registry, conn>>
      BY <1>9, <2>2 DEF Leave, End
    <3>2. Handles'  BY <2>2, <3>1
    <3>3. Own'  BY <2>2, <3>1
    <3>4. Watched'  BY <2>2, <3>1
    <3>5. Opened'  BY <2>2, <3>1
    <3>6. Asked'  BY <2>2, <3>1
    <3> QED BY <3>2, <3>3, <3>4, <3>5, <3>6
  <2> QED BY <2>1, <2>2
<1>10. ASSUME NEW c \in Page, Browser(c) PROVE Records'
  <2>1. UNCHANGED <<sockets, threads>>
    BY <1>10 DEF Browser, Receive, Poll, Answer, Show, Fail, Edit, Save, Select, Lost, Quit
  <2>2. \A d \in Page : conn'[d] = "none" => conn[d] = "none" \/ \A s \in Socket : peer[s] # d
    <3>1. CASE Lost(c)  BY <3>1 DEF Lost
    <3>2. CASE Quit(c)  BY <3>2 DEF Quit
    <3>3. CASE ~Lost(c) /\ ~Quit(c)
      <4>1. UNCHANGED conn  BY <1>10, <3>3 DEF Browser, Receive, Poll, Answer, Show, Fail, Edit, Save, Select
      <4> QED BY <4>1
    <3> QED BY <3>1, <3>2, <3>3
  <2> QED BY <2>1, <2>2
<1>11. CASE Terminate  BY <1>11 DEF Terminate
<1>12. CASE UNCHANGED hubVars  BY <1>12 DEF hubVars
<1> QED BY <1>1, <1>2, <1>3, <1>4, <1>5, <1>6, <1>7, <1>8, <1>9, <1>10, <1>11, <1>12 DEF HubNext, ClientThread

(* The counter goes up with a record and down with it, also when a push   *)
(* drops several at once.                                                 *)
LEMMA TalliedStep ==
  ASSUME HubInv, [HubNext]_hubVars
  PROVE Tallied'
<1> USE DEF HubInv, Tallied, sockets
<1>0. ASSUME NEW failing \in SUBSET Socket, Drop(failing) PROVE Tallied'
  <2>1. /\ failing \subseteq registry /\ registry' = registry \ failing
        /\ count' = count - Cardinality(failing)
    BY <1>0 DEF Drop
  <2>2. IsFiniteSet(failing)  BY <2>1, FS_Subset
  <2>3. IsFiniteSet(registry') /\ Cardinality(registry') = Cardinality(registry) - Cardinality(registry \cap failing)
    BY <2>1, <2>2, FS_Difference
  <2>4. registry \cap failing = failing  BY <2>1
  <2> QED BY <2>1, <2>3, <2>4
<1>1. CASE \E b \in Bumper : Bump(b)  BY <1>1 DEF Bump
<1>2. CASE \E b \in Bumper : \E failing \in SUBSET Socket : Notify(b, failing)  BY <1>2, <1>0 DEF Notify
<1>3. CASE \E failing \in SUBSET Socket : NotifyActivity(failing)  BY <1>3, <1>0 DEF NotifyActivity
<1>4. ASSUME NEW t \in SseThread, Register(t) PROVE Tallied'
  <2>1. sock[t] \notin registry  BY <1>4 DEF Register, Records, Own, InHand
  <2> QED BY <1>4, <2>1, FS_AddElement DEF Register
<1>5. ASSUME NEW t \in SseThread, Leave(t) PROVE Tallied'
  <2>1. CASE sock[t] \in registry  BY <1>5, <2>1, FS_RemoveElement DEF Leave
  <2>2. CASE sock[t] \notin registry  BY <1>5, <2>2 DEF Leave
  <2> QED BY <2>1, <2>2
<1>6. CASE \E t \in SseThread : Refuse(t) \/ Admit(t) \/ Greet(t) \/ Look(t) \/ Check(t) \/ CloseErased(t)
  BY <1>6 DEF Refuse, Admit, Greet, Look, Check, CloseErased
<1>7. CASE \E c \in Page, t \in SseThread, s \in Socket : Connect(c, t, s)  BY <1>7 DEF Connect
<1>8. CASE \E c \in Page : Browser(c)
  BY <1>8 DEF Browser, Receive, Poll, Answer, Show, Fail, Edit, Save, Select, Lost, Quit
<1>9. CASE Terminate  BY <1>9 DEF Terminate
<1>10. CASE UNCHANGED hubVars  BY <1>10 DEF hubVars
<1> QED BY <1>1, <1>2, <1>3, <1>4, <1>5, <1>6, <1>7, <1>8, <1>9, <1>10 DEF HubNext, ClientThread

(* No socket is open at the start. *)
LEMMA HubInitHolds == HubInit => HubInv
<1> SUFFICES ASSUME HubInit PROVE HubInv  OBVIOUS
<1> USE DEF HubInit
<1>2. ServerTyped /\ SocketsTyped /\ ThreadsTyped /\ PagesTyped
  BY DEF ServerTyped, SocketsTyped, ThreadsTyped, PagesTyped
<1>3. <<>> \in Seq(0..MaxRevision)  OBVIOUS
<1>4. ChanTyped /\ LoadsTyped  BY <1>3 DEF ChanTyped, LoadsTyped
<1>5. Records  BY DEF Records, Handles, Own, Watched, Opened, Asked, InHand
<1>6. Tallied  BY FS_EmptySet DEF Tallied
<1> QED BY <1>2, <1>4, <1>5, <1>6 DEF HubInv, HubTyped

(* The invariant is what is promised of the registry. *)
LEMMA HubInvExact == HubInv => RegistryIsExact
<1> SUFFICES ASSUME HubInv PROVE RegistryIsExact  OBVIOUS
<1> USE DEF HubInv
<1> DEFINE socks == {sock[t] : t \in SseThread}
<1>1. registry \subseteq socks  BY DEF Records, Watched
<1>2. IsFiniteSet(socks) /\ Cardinality(socks) <= Cardinality(SseThread)
  <2>1. sock = [t \in SseThread |-> sock[t]]  BY DEF HubTyped, ThreadsTyped
  <2>2. sock \in Surjection(SseThread, socks)  BY <2>1 DEF Surjection
  <2> HIDE DEF socks
  <2> QED BY <2>2, FS_Surjection
<1> HIDE DEF socks
<1>3. Cardinality(registry) <= Cardinality(socks)  BY <1>1, <1>2, FS_Subset
<1>4. /\ Cardinality(registry) \in Nat /\ Cardinality(SseThread) \in Nat
      /\ Cardinality(socks) \in Nat
  BY <1>2, FS_CardinalityType DEF Tallied
<1>5. count \in 0..Cardinality(SseThread)  BY <1>2, <1>3, <1>4 DEF Tallied
<1>6. HubTypeOK  BY <1>5, HubTypeParts DEF HubTyped
<1>7. /\ \A s \in Socket :
           peer[s] # NoPage <=> s \in registry \/ \E t \in SseThread : InHand(t) /\ sock[t] = s
      /\ \A s \in registry : \E t \in SseThread : InLoop(t) /\ sock[t] = s
  BY DEF Records, Opened, Watched
<1>8. \A t \in SseThread : InHand(t) =>
        /\ sock[t] \notin registry
        /\ \A u \in SseThread : InHand(u) /\ sock[u] = sock[t] => u = t
  BY DEF Records, Own, Handles
<1> QED BY <1>6, <1>7, <1>8 DEF RegistryIsExact, Tallied

(* The invariant of the hub. *)
LEMMA HubInvariant == HubSpec => []HubInv
<1>1. HubInv /\ [HubNext]_hubVars => HubInv'  BY HubTypedStep, RecordsStep, TalliedStep DEF HubInv
<1> QED BY <1>1, HubInitHolds, PTL DEF HubSpec

(* SseHub (SseClientThread, NotifySseClients): although handles are used  *)
(* again, a socket is open exactly while it is listed once or in the hand *)
(* of one thread, which lists or closes it, every record is watched, and  *)
(* the counter is their number; for any numbers of pages, threads,        *)
(* pushers and handles.                                                   *)
THEOREM RegistryStaysExact == HubSpec => []RegistryIsExact
BY HubInvariant, HubInvExact, PTL

(* A page whose last refresh is alone: it has one request or one answer   *)
(* under way, not older than what it has shown, or none, and shows the    *)
(* newest unless that one failed.                                         *)
Alone(c) ==
  conn[c] # "gone" /\ c \notin crossed =>
    /\ asked[c] <= 1 /\ (asked[c] = 0 \/ answers[c] = {}) /\ \A r, q \in answers[c] : r = q
    /\ \A r \in answers[c] : newest[c] <= r
    /\ asked[c] = 0 /\ answers[c] = {} /\ c \notin failed => view[c] = newest[c]

(* No page has seen, asked for, or been sent more than the present        *)
(* revision.                                                              *)
In(q, n) == \E i \in 1..Len(q) : q[i] = n
Bounded(q, n) == \A i \in 1..Len(q) : q[i] <= n
NotAhead(c) ==
  /\ last[c] <= revision /\ newest[c] <= revision
  /\ \A r \in answers[c] : r <= revision
  /\ Bounded(chan[c], revision)

(* A page is fresh if the present revision has been shown to it or will   *)
(* be, or a refresh failed; it is linked if a push reaches it or finds it *)
(* greeted and not listed.  A linked page is fresh, or the revision is on *)
(* its way, or about to be pushed.                                        *)
Fresh(c) == asked[c] > 0 \/ revision \in answers[c] \/ newest[c] = revision \/ c \in failed
SeenIsFresh(c) == conn[c] # "gone" /\ c \notin ignored /\ last[c] = revision => Fresh(c)
Linked(c) ==
  conn[c] = "open" /\ (c \in Unlisted \/ \E s \in registry : peer[s] = c)
Pushed == revision # 0 /\ \E b \in Bumper : pushing[b] = revision
LinkedIsFresh(c) == Linked(c) /\ c \notin missed \cup ignored => Fresh(c) \/ In(chan[c], revision) \/ Pushed
NoneAhead == (\A b \in Bumper : pushing[b] <= revision) /\ \A c \in Page : NotAhead(c)
PageInv ==
  /\ NoneAhead
  /\ \A c \in Page : Alone(c)
  /\ \A c \in Followed : SeenIsFresh(c) /\ LinkedIsFresh(c)

(* Bounds of what is on its way to a page, and what is in it. *)
LEMMA BoundedSteps ==
  ASSUME NEW q \in Seq(0..MaxRevision), NEW x \in 0..MaxRevision, NEW n \in 0..MaxRevision,
         Bounded(q, n)
  PROVE  /\ x <= n => Bounded(Append(q, x), n)
         /\ q # <<>> => Bounded(Tail(q), n) /\ Head(q) <= n
         /\ Bounded(<<>>, n)
         /\ n < MaxRevision => Bounded(q, n + 1)
<1> USE DEF Bounded
<1>1. ASSUME x <= n PROVE Bounded(Append(q, x), n)
  <2>1. SUFFICES ASSUME NEW i \in 1..Len(Append(q, x)) PROVE Append(q, x)[i] <= n  OBVIOUS
  <2>2. CASE i <= Len(q)  BY <2>2
  <2>3. CASE i = Len(q) + 1  BY <1>1, <2>3
  <2> QED BY <2>2, <2>3
<1>2. q # <<>> => Bounded(Tail(q), n) /\ Head(q) <= n  OBVIOUS
<1>3. Bounded(<<>>, n)  OBVIOUS
<1>4. n < MaxRevision => Bounded(q, n + 1)  OBVIOUS
<1> QED BY <1>1, <1>2, <1>3, <1>4

(* What is in a queue of answers is in the longer one, and leaves only as its head. *)
LEMMA InSteps ==
  ASSUME NEW q \in Seq(0..MaxRevision), NEW x \in 0..MaxRevision, NEW n \in 0..MaxRevision
  PROVE  /\ In(Append(q, x), x)
         /\ In(q, n) => In(Append(q, x), n)
         /\ q # <<>> /\ In(q, n) => Head(q) = n \/ In(Tail(q), n)
         /\ ~In(<<>>, n)
<1> USE DEF In
<1>1. In(Append(q, x), x)
  <2>1. Len(q) + 1 \in 1..Len(Append(q, x)) /\ Append(q, x)[Len(q) + 1] = x  OBVIOUS
  <2> QED BY <2>1
<1>2. ASSUME In(q, n) PROVE In(Append(q, x), n)
  <2>1. PICK i \in 1..Len(q) : q[i] = n  BY <1>2
  <2>2. i \in 1..Len(Append(q, x)) /\ Append(q, x)[i] = n  BY <2>1
  <2> QED BY <2>2
<1>3. ASSUME q # <<>>, In(q, n), Head(q) # n PROVE In(Tail(q), n)
  <2>1. PICK i \in 1..Len(q) : q[i] = n  BY <1>3
  <2>2. i - 1 \in 1..Len(Tail(q)) /\ Tail(q)[i - 1] = n  BY <1>3, <2>1
  <2> QED BY <2>2
<1>4. ~In(<<>>, n)  OBVIOUS
<1> QED BY <1>1, <1>2, <1>3, <1>4

(* A refresh that begins while another is under way crosses it; one that  *)
(* is alone shows what it was answered.                                   *)
LEMMA AloneStep ==
  ASSUME HubTyped, NoneAhead, \A c \in Page : Alone(c), [HubNext]_hubVars, NEW d \in Page
  PROVE  Alone(d)'
<1> USE DEF HubTyped, LoadsTyped, PagesTyped, Alone, pages, loading
<1>1. CASE \E b \in Bumper : Bump(b)  BY <1>1 DEF Bump
<1>2. CASE \E b \in Bumper : \E failing \in SUBSET Socket : Notify(b, failing)  BY <1>2 DEF Notify
<1>3. CASE \E failing \in SUBSET Socket : NotifyActivity(failing)  BY <1>3 DEF NotifyActivity
<1>4. CASE \E c \in Page, t \in SseThread, s \in Socket : Connect(c, t, s)  BY <1>4 DEF Connect
<1>8. CASE \E t \in SseThread : ClientThread(t)
  BY <1>8 DEF ClientThread, End, Refuse, Admit, Greet, Register, Look, Check, Leave, CloseErased
<1>5. ASSUME NEW c \in Page, Browser(c) PROVE Alone(d)'
  <2>0. ASSUME Refresh(c), UNCHANGED <<answers, view, newest, conn>> PROVE Alone(d)'
    <3>1. /\ \A e \in Page : asked'[e] = IF e = c THEN asked[e] + 1 ELSE asked[e]
          /\ failed' = failed \ {c}
          /\ crossed' = IF asked[c] > 0 \/ answers[c] # {} THEN crossed \cup {c} ELSE crossed \ {c}
      BY <2>0 DEF Refresh
    <3>2. asked[c] \in Nat  OBVIOUS
    <3>3. CASE d = c  BY <2>0, <3>1, <3>2, <3>3
    <3>4. CASE d # c  BY <2>0, <3>1, <3>4
    <3> QED BY <3>3, <3>4
  <2>1. CASE Receive(c)  BY <2>1, <2>0 DEF Receive
  <2>2. CASE Poll(c)  BY <2>2, <2>0 DEF Poll
  <2>3. CASE Save(c)  BY <2>3, <2>0 DEF Save
  <2>4. CASE Answer(c)
    <3>1. newest[c] <= revision  BY DEF NoneAhead, NotAhead
    <3>2. asked[c] \in Nat /\ asked[c] > 0  BY <2>4 DEF Answer
    <3> QED BY <2>4, <3>1, <3>2 DEF Answer
  <2>5. CASE Show(c)
    <3>1. PICK r \in answers[c] : /\ answers' = [answers EXCEPT ![c] = @ \ {r}]
                                  /\ view' = [view EXCEPT ![c] = r]
                                  /\ newest' = [newest EXCEPT ![c] = IF r > @ THEN r ELSE @]
                                  /\ UNCHANGED <<conn, asked, crossed, failed>>
      BY <2>5 DEF Show
    <3> QED BY <3>1
  <2>6. CASE Quit(c)  BY <2>6 DEF Quit
  <2>7. CASE Lost(c)
    <3>1. UNCHANGED loading /\ (conn'[d] # "gone" => conn[d] # "gone")  BY <2>7 DEF Lost
    <3> QED BY <3>1
  <2>8. CASE Fail(c)
    <3>1. /\ \A e \in Page : asked'[e] <= asked[e] /\ answers'[e] \subseteq answers[e]
          /\ \A e \in Page : e # c => asked'[e] = asked[e] /\ answers'[e] = answers[e]
          /\ failed' = failed \cup {c} /\ UNCHANGED <<conn, view, newest, crossed>>
      BY <2>8 DEF Fail
    <3>2. asked[d] \in Nat /\ asked'[d] \in Nat  BY <2>8 DEF Fail
    <3>3. CASE d = c  BY <3>1, <3>2, <3>3
    <3>4. CASE d # c  BY <3>1, <3>4
    <3> QED BY <3>3, <3>4
  <2> QED BY <1>5, <2>1, <2>2, <2>3, <2>4, <2>5, <2>6, <2>7, <2>8 DEF Browser, Edit, Select
<1>6. CASE Terminate  BY <1>6 DEF Terminate
<1>7. CASE UNCHANGED hubVars  BY <1>7 DEF hubVars
<1> QED BY <1>1, <1>2, <1>3, <1>4, <1>5, <1>6, <1>7, <1>8 DEF HubNext

(* Every step keeps the bounds: only the present revision is sent, pushed *)
(* or answered.                                                           *)
LEMMA NoneAheadStep ==
  ASSUME HubTyped, NoneAhead, [HubNext]_hubVars
  PROVE  NoneAhead'
<1> USE DEF HubTyped, ServerTyped, ChanTyped, LoadsTyped, NoneAhead, NotAhead, server, pages, loading
<1>1. ASSUME NEW b \in Bumper, Bump(b) PROVE NoneAhead'
  <2>1. \A c \in Page : Bounded(chan[c], revision + 1)  BY <1>1, BoundedSteps DEF Bump
  <2> QED BY <1>1, <2>1 DEF Bump
<1>2. ASSUME NEW b \in Bumper, NEW failing \in SUBSET Socket, Notify(b, failing) PROVE NoneAhead'
  <2>1. \A e \in Bumper : pushing'[e] <= revision'  BY <1>2 DEF Notify
  <2>2. ASSUME NEW c \in Page PROVE NotAhead(c)'
    <3>1. chan'[c] = Append(chan[c], pushing[b]) \/ chan'[c] = chan[c]  BY <1>2 DEF Notify
    <3>2. Bounded(chan[c], revision) /\ Bounded(Append(chan[c], pushing[b]), revision)
      BY BoundedSteps
    <3>3. Bounded(chan'[c], revision)  BY <3>1, <3>2
    <3> QED BY <1>2, <3>3 DEF Notify
  <2> QED BY <2>1, <2>2
<1>3. CASE \E failing \in SUBSET Socket : NotifyActivity(failing)  BY <1>3 DEF NotifyActivity
<1>4. CASE \E c \in Page, t \in SseThread, s \in Socket : Connect(c, t, s)  BY <1>4 DEF Connect
<1>8. ASSUME NEW t \in SseThread, ClientThread(t) PROVE NoneAhead'
  <2>1. CASE Greet(t)
    <3>1. ASSUME NEW d \in Page PROVE NotAhead(d)'
      <4>1. chan'[d] = Append(chan[d], revision) \/ chan'[d] = chan[d]  BY <2>1 DEF Greet
      <4>2. Bounded(chan[d], revision) /\ Bounded(Append(chan[d], revision), revision)
        BY BoundedSteps
      <4>3. Bounded(chan'[d], revision)  BY <4>1, <4>2
      <4> QED BY <2>1, <4>3 DEF Greet
    <3> QED BY <2>1, <3>1 DEF Greet
  <2> QED BY <1>8, <2>1 DEF ClientThread, End, Refuse, Admit, Register, Look, Check, Leave, CloseErased
<1>5. ASSUME NEW c \in Page, Browser(c) PROVE NoneAhead'
  <2>1. CASE Receive(c)
    <3>1. chan[c] # <<>> /\ chan' = [chan EXCEPT ![c] = Tail(@)]  BY <2>1 DEF Receive
    <3>2. Head(chan[c]) <= revision /\ Bounded(Tail(chan[c]), revision)  BY <3>1, BoundedSteps
    <3>3. \A d \in Page : last'[d] <= revision  BY <2>1, <3>2 DEF Receive
    <3>4. UNCHANGED <<server, answers, newest>>  BY <2>1 DEF Receive
    <3>5. \A d \in Page : Bounded(chan'[d], revision)
      <4> HIDE DEF Bounded
      <4>1. \A d \in Page : chan'[d] = IF d = c THEN Tail(chan[c]) ELSE chan[d]  BY <3>1
      <4> QED BY <3>2, <4>1
    <3>6. \A d \in Page : newest'[d] <= revision /\ answers'[d] = answers[d]  BY <3>4
    <3> HIDE DEF Bounded, HubTyped, ServerTyped, ChanTyped, LoadsTyped
    <3> QED BY <3>3, <3>4, <3>5, <3>6
  <2>2. CASE Poll(c)  BY <2>2 DEF Poll
  <2>3. CASE Save(c)  BY <2>3 DEF Save
  <2>4. CASE Answer(c)  BY <2>4 DEF Answer
  <2>5. CASE Show(c)
    <3>1. PICK r \in answers[c] : /\ answers' = [answers EXCEPT ![c] = @ \ {r}]
                                  /\ newest' = [newest EXCEPT ![c] = IF r > @ THEN r ELSE @]
                                  /\ UNCHANGED <<server, last, chan>>
      BY <2>5 DEF Show
    <3>2. r <= revision  OBVIOUS
    <3> QED BY <3>1, <3>2
  <2>6. CASE Quit(c)
    <3>1. \A d \in Page : answers'[d] \subseteq answers[d] /\ (chan'[d] = chan[d] \/ chan'[d] = <<>>)
      BY <2>6 DEF Quit
    <3>2. UNCHANGED <<server, last, newest>>  BY <2>6 DEF Quit
    <3>3. Bounded(<<>>, revision)  BY BoundedSteps
    <3> QED BY <3>1, <3>2, <3>3
  <2>7. CASE Fail(c)
    <3>1. \A d \in Page : answers'[d] \subseteq answers[d]
      <4>1. CASE UNCHANGED answers  BY <4>1
      <4>2. CASE \E x \in answers[c] : answers' = [answers EXCEPT ![c] = @ \ {x}]  BY <4>2
      <4> QED BY <2>7, <4>1, <4>2 DEF Fail
    <3>2. UNCHANGED <<server, last, newest, chan>>  BY <2>7 DEF Fail
    <3> QED BY <3>1, <3>2
  <2> QED BY <1>5, <2>1, <2>2, <2>3, <2>4, <2>5, <2>6, <2>7 DEF Browser, Edit, Select, Lost
<1>6. CASE Terminate  BY <1>6 DEF Terminate
<1>7. CASE UNCHANGED hubVars  BY <1>7 DEF hubVars
<1> QED BY <1>1, <1>2, <1>3, <1>4, <1>5, <1>6, <1>7, <1>8 DEF HubNext

(* A step of a page keeps every page fresh: the newest answer is not      *)
(* lost.                                                                  *)
LEMMA FreshStep ==
  ASSUME HubTyped, PageInv, NEW c \in Page, Browser(c), NEW d \in Page, Fresh(d), conn'[d] # "gone"
  PROVE  Fresh(d)'
<1> USE DEF HubTyped, ServerTyped, LoadsTyped, PagesTyped, Fresh, server, pages, loading
<1>1. CASE Receive(c)
  <2>1. (asked'[d] = asked[d] /\ (d \in failed => d \in failed')) \/ asked'[d] = asked[d] + 1  BY <1>1 DEF Receive, Refresh
  <2>2. UNCHANGED <<revision, answers, newest>>  BY <1>1 DEF Receive
  <2> QED BY <2>1, <2>2
<1>2. CASE Poll(c)  BY <1>2 DEF Poll, Refresh
<1>3. CASE Save(c)  BY <1>3 DEF Save, Refresh
<1>4. CASE Answer(c)  BY <1>4 DEF Answer
<1>5. CASE Show(c)
  <2>1. PICK r \in answers[c] : /\ answers' = [answers EXCEPT ![c] = @ \ {r}]
                                /\ newest' = [newest EXCEPT ![c] = IF r > @ THEN r ELSE @]
                                /\ UNCHANGED <<server, asked, failed>>
    BY <1>5 DEF Show
  <2>2. newest[c] <= revision /\ r <= revision  BY DEF PageInv, NoneAhead, NotAhead
  <2> QED BY <2>1, <2>2
<1>6. CASE Quit(c)  BY <1>6 DEF Quit
<1>7. CASE Fail(c)
  <2>1. CASE d = c  BY <1>7, <2>1 DEF Fail
  <2>2. CASE d # c  BY <1>7, <2>2 DEF Fail
  <2> QED BY <2>1, <2>2
<1> QED BY <1>1, <1>2, <1>3, <1>4, <1>5, <1>6, <1>7 DEF Browser, Edit, Select, Lost

(* A page that has seen the present revision, and ignored none, has asked *)
(* for the state since.                                                   *)
LEMMA SeenStep ==
  ASSUME HubTyped, PageInv, [HubNext]_hubVars, NEW d \in Followed
  PROVE  SeenIsFresh(d)'
<1> USE DEF SeenIsFresh
<1>0. d \in Page /\ SeenIsFresh(d)  BY DEF PageInv
<1>1. CASE \E b \in Bumper : Bump(b)
  <2>1. last[d] <= revision /\ revision \in Nat  BY <1>0 DEF PageInv, NoneAhead, NotAhead, HubTyped, ServerTyped
  <2> QED BY <2>1, <1>1 DEF Bump, pages, loading, LoadsTyped
<1>2. CASE \E b \in Bumper : \E failing \in SUBSET Socket : Notify(b, failing)
  BY <1>2, <1>0 DEF Notify, pages, loading, Fresh
<1>3. CASE \E failing \in SUBSET Socket : NotifyActivity(failing)
  BY <1>3, <1>0 DEF NotifyActivity, server, pages, loading, Fresh, excused
<1>4. CASE \E c \in Page, t \in SseThread, s \in Socket : Connect(c, t, s)
  BY <1>4, <1>0 DEF Connect, server, loading, excused, Fresh, HubTyped, PagesTyped
<1>8. CASE \E t \in SseThread : ClientThread(t)
  <2>1. UNCHANGED <<server, loading, ignored, conn>>
    BY <1>8 DEF ClientThread, End, Refuse, Admit, Greet, Register, Look, Check, Leave, CloseErased, pages, excused
  <2> QED BY <2>1, <1>0 DEF server, loading, Fresh
<1>5. ASSUME NEW c \in Page, Browser(c) PROVE SeenIsFresh(d)'
  <2>0. /\ Fresh(d) /\ conn'[d] # "gone" => Fresh(d)'
        /\ conn'[d] # "gone" => conn[d] # "gone"
        /\ UNCHANGED server
    <3>1. conn'[d] # "gone" => conn[d] # "gone"
      BY <1>0, <1>5 DEF Browser, Receive, Poll, Answer, Show, Fail, Edit, Save, Select, Lost, Quit, HubTyped, PagesTyped
    <3>2. UNCHANGED server
      BY <1>5 DEF Browser, Receive, Poll, Answer, Show, Fail, Edit, Save, Select, Lost, Quit
    <3> QED BY <1>0, <1>5, <3>1, <3>2, FreshStep
  <2>1. CASE Receive(c)
    <3> DEFINE r == Head(chan[c])  new == r # 0 /\ r # last[c]
    <3>1. /\ last' = IF new THEN [last EXCEPT ![c] = r] ELSE last
          /\ new /\ c \notin dirty => Refresh(c)
          /\ ignored' = IF ~new THEN ignored
                        ELSE IF c \in dirty THEN ignored \cup {c} ELSE ignored \ {c}
      BY <2>1 DEF Receive
    <3> HIDE DEF r, new
    <3>2. CASE d = c /\ new
      <4>1. d \notin ignored' => asked'[d] = asked[d] + 1  BY <3>1, <3>2 DEF Refresh, HubTyped, LoadsTyped
      <4>2. asked[d] \in Nat  BY <1>0 DEF HubTyped, LoadsTyped
      <4> QED BY <4>1, <4>2 DEF Fresh
    <3>3. CASE d # c \/ ~new
      <4>1. last'[d] = last[d] /\ (d \in ignored <=> d \in ignored')
        BY <3>1, <3>3, <1>0 DEF HubTyped, LoadsTyped
      <4> QED BY <4>1, <2>0, <1>0 DEF server
    <3> QED BY <3>2, <3>3
  <2>2. CASE Save(c)
    <3>1. CASE c = d
      <4>1. asked'[d] = asked[d] + 1 /\ asked[d] \in Nat
        BY <2>2, <3>1, <1>0 DEF Save, Refresh, HubTyped, LoadsTyped
      <4> QED BY <4>1 DEF Fresh
    <3>2. CASE c # d  BY <2>2, <3>2, <2>0, <1>0 DEF Save, server
    <3> QED BY <3>1, <3>2
  <2>3. CASE ~Receive(c) /\ ~Save(c)
    <3>1. UNCHANGED <<last, ignored>>
      BY <1>5, <2>3 DEF Browser, Poll, Answer, Show, Fail, Edit, Select, Lost, Quit, excused, loading
    <3> QED BY <3>1, <2>0, <1>0 DEF server
  <2> QED BY <2>1, <2>2, <2>3
<1>6. CASE Terminate  BY <1>6, <1>0 DEF Terminate, pages, loading, excused, Fresh
<1>7. CASE UNCHANGED hubVars  BY <1>7, <1>0 DEF hubVars, server, pages, loading, excused, Fresh
<1> QED BY <1>1, <1>2, <1>3, <1>4, <1>5, <1>6, <1>7, <1>8 DEF HubNext

(* A page that a push reaches is fresh, or will hear of the revision: the *)
(* greeting sends the one it finds, and of two pushes that cross the      *)
(* later revision is still on its way.                                    *)
LEMMA LinkedStep ==
  ASSUME HubInv, PageInv, [HubNext]_hubVars, NEW d \in Followed
  PROVE  LinkedIsFresh(d)'
<1> USE DEF LinkedIsFresh
<1>0. d \in Page /\ LinkedIsFresh(d) /\ SeenIsFresh(d)  BY DEF PageInv
<1>a. /\ stage \in [SseThread -> {"none", "started", "admitted", "greeted", "loop", "check", "leaving", "closing"}]
      /\ conn \in [Page -> {"none", "open", "gone"}]
      /\ peer \in [Socket -> Page \cup {NoPage}] /\ registry \subseteq Socket
      /\ sock \in [SseThread -> Socket \cup {NoSocket}]
      /\ revision \in 0..MaxRevision /\ pushing \in [Bumper -> 0..MaxRevision]
      /\ chan \in [Page -> Seq(0..MaxRevision)]
      /\ last[d] <= revision /\ last[d] \in 0..MaxRevision
  BY <1>0 DEF HubInv, HubTyped, SocketsTyped, ThreadsTyped, PagesTyped, ServerTyped, ChanTyped, LoadsTyped, PageInv, NoneAhead, NotAhead
<1>d. /\ \A t \in SseThread : InHand(t) => sock[t] \in Socket /\ peer[sock[t]] # NoPage /\ sock[t] \notin registry
      /\ \A s \in registry : peer[s] # NoPage
      /\ \A s \in Socket : peer[s] \in Page => conn[peer[s]] # "none"
  BY <1>a DEF HubInv, HubTyped, ThreadsTyped, Records, Handles, Own, Opened, Asked, InHand
<1>1. ASSUME NEW b \in Bumper, Bump(b) PROVE LinkedIsFresh(d)'
  <2>1. revision' # 0 /\ pushing'[b] = revision'  BY <1>1, <1>a DEF Bump
  <2> QED BY <2>1 DEF Pushed
<1>b. ASSUME NEW failing \in SUBSET Socket, Drop(failing), UNCHANGED threads, UNCHANGED pages, Linked(d)'
      PROVE  /\ Linked(d)
             /\ d \in Unlisted \/ d \in Reached(failing)
  <2>1. /\ failing \subseteq registry /\ registry' = registry \ failing
        /\ \A s \in Socket : peer'[s] = IF s \in failing THEN NoPage ELSE peer[s]
        /\ UNCHANGED <<stage, sock, conn>>
    BY <1>b DEF Drop, Close, threads, pages
  <2>2. CASE d \in Unlisted'
    <3>1. PICK t \in SseThread : stage[t] = "greeted" /\ peer'[sock[t]] = d
      BY <2>1, <2>2 DEF Unlisted
    <3>2. peer[sock[t]] = d  BY <2>1, <3>1, <1>0, <1>d DEF InHand
    <3>3. d \in Unlisted  BY <3>1, <3>2 DEF Unlisted
    <3> QED BY <1>b, <2>1, <3>3 DEF Linked
  <2>3. CASE \E s \in registry' : peer'[s] = d
    <3>1. PICK s \in registry \ failing : peer[s] = d  BY <2>1, <2>3, <1>a
    <3>2. d \in Reached(failing)  BY <3>1 DEF Reached
    <3> QED BY <1>b, <2>1, <3>1, <3>2 DEF Linked
  <2> QED BY <1>b, <2>2, <2>3 DEF Linked
<1>2. ASSUME NEW b \in Bumper, NEW failing \in SUBSET Socket, Notify(b, failing) PROVE LinkedIsFresh(d)'
  <2> SUFFICES ASSUME Linked(d)', d \notin missed' \cup ignored'
               PROVE  Fresh(d)' \/ In(chan'[d], revision') \/ Pushed'
    OBVIOUS
  <2>0. Drop(failing) /\ UNCHANGED <<threads, pages, ignored>> /\ missed' = missed \cup (Followed \cap Unlisted)
    BY <1>2 DEF Notify
  <2>1. Linked(d) /\ d \notin missed \cup ignored /\ d \notin Unlisted
    BY <2>0, <1>b
  <2>5. d \in Followed \cap Reached(failing)  BY <2>0, <2>1, <1>b
  <2>6. chan'[d] = Append(chan[d], pushing[b])  BY <1>0, <1>2, <2>5 DEF Notify
  <2>7. UNCHANGED <<revision, asked, answers, newest, failed>>  BY <1>2 DEF Notify, pages, loading
  <2>8. CASE Fresh(d)  BY <2>7, <2>8 DEF Fresh
  <2>9. CASE In(chan[d], revision)
    <3>1. In(Append(chan[d], pushing[b]), revision)  BY <2>9, <1>0, <1>a, InSteps
    <3> QED BY <2>6, <2>7, <3>1
  <2>10. ASSUME Pushed, pushing[b] = revision PROVE In(chan'[d], revision')
    <3>1. In(Append(chan[d], pushing[b]), pushing[b])  BY <1>0, <1>a, InSteps
    <3> QED BY <2>6, <2>7, <2>10, <3>1
  <2>11. ASSUME Pushed, pushing[b] # revision PROVE Pushed'
    BY <1>2, <2>7, <2>11, <1>a DEF Notify, Pushed
  <2> QED BY <1>0, <2>1, <2>8, <2>9, <2>10, <2>11
<1>3. ASSUME NEW failing \in SUBSET Socket, NotifyActivity(failing) PROVE LinkedIsFresh(d)'
  <2>1. Linked(d)' => Linked(d)  BY <1>3, <1>b DEF NotifyActivity
  <2> QED BY <1>3, <1>0, <2>1 DEF NotifyActivity, server, pages, loading, Fresh, excused, Pushed
<1>c. ASSUME Linked(d)' => Linked(d), UNCHANGED <<server, loading, chan, excused>> PROVE LinkedIsFresh(d)'
  BY <1>c, <1>0 DEF server, loading, Fresh, excused, Pushed
<1>4. ASSUME NEW c \in Page, NEW t \in SseThread, NEW s \in Socket, Connect(c, t, s) PROVE LinkedIsFresh(d)'
  <2>1. ASSUME Linked(d)' PROVE Linked(d)
    <3>1. /\ stage' = [stage EXCEPT ![t] = "started"] /\ sock' = [sock EXCEPT ![t] = s]
          /\ peer' = [peer EXCEPT ![s] = c] /\ conn' = [conn EXCEPT ![c] = "open"]
          /\ conn[c] = "none" /\ peer[s] = NoPage /\ UNCHANGED registry
      BY <1>4 DEF Connect
    <3>2. CASE d \in Unlisted'
      <4>1. PICK u \in SseThread : stage'[u] = "greeted" /\ peer'[sock'[u]] = d
        BY <3>2 DEF Unlisted
      <4>2. stage[u] = "greeted" /\ sock'[u] = sock[u]  BY <3>1, <4>1, <1>a
      <4>3. sock[u] \in Socket /\ sock[u] # s  BY <3>1, <4>2, <1>d DEF InHand
      <4>4. peer[sock[u]] = d  BY <3>1, <4>1, <4>2, <4>3, <1>a
      <4>5. d \in Unlisted  BY <4>2, <4>4 DEF Unlisted
      <4>6. d # c  BY <3>1, <4>3, <4>4, <1>0, <1>d
      <4> QED BY <2>1, <3>1, <4>5, <4>6, <1>0, <1>a DEF Linked
    <3>3. CASE \E q \in registry' : peer'[q] = d
      <4>1. PICK q \in registry : peer[q] = d /\ q # s  BY <3>1, <3>3, <1>a, <1>d
      <4>2. d # c  BY <3>1, <4>1, <1>0, <1>a, <1>d
      <4> QED BY <2>1, <3>1, <4>1, <4>2, <1>0, <1>a DEF Linked
    <3> QED BY <2>1, <3>2, <3>3 DEF Linked
  <2> QED BY <1>4, <2>1, <1>c DEF Connect
<1>5. ASSUME NEW t \in SseThread, Greet(t) PROVE LinkedIsFresh(d)'
  <2>0. /\ stage' = [stage EXCEPT ![t] = "greeted"]
        /\ chan' = IF peer[sock[t]] \in Followed THEN [chan EXCEPT ![peer[sock[t]]] = Append(@, revision)] ELSE chan
        /\ missed' = missed \ {peer[sock[t]]}
        /\ UNCHANGED <<server, sockets, sock, conn, loading, ignored>>
    BY <1>5 DEF Greet
  <2>1. CASE peer[sock[t]] = d
    <3>1. chan'[d] = Append(chan[d], revision) /\ revision' = revision
      BY <2>0, <2>1, <1>0, <1>a DEF server
    <3>2. In(Append(chan[d], revision), revision)  BY <1>0, <1>a, InSteps
    <3> QED BY <3>1, <3>2
  <2>2. CASE peer[sock[t]] # d
    <3>1. ASSUME Linked(d)' PROVE Linked(d)
      <4>1. d \in Unlisted' => d \in Unlisted
        BY <2>0, <2>2, <1>a DEF Unlisted, sockets
      <4> QED BY <2>0, <3>1, <4>1 DEF Linked, sockets
    <3>2. chan'[d] = chan[d] /\ (d \in missed' <=> d \in missed)  BY <2>0, <2>2, <1>0, <1>a
    <3> QED BY <2>0, <3>1, <3>2, <1>0 DEF server, loading, Fresh, Pushed
  <2> QED BY <2>1, <2>2
<1>6. ASSUME NEW t \in SseThread,
             Refuse(t) \/ Admit(t) \/ Register(t) \/ Look(t) \/ Check(t) \/ Leave(t) \/ CloseErased(t)
      PROVE  LinkedIsFresh(d)'
  <2>0. UNCHANGED <<server, loading, chan, excused, conn>>
    BY <1>6 DEF Refuse, Admit, Register, Look, Check, Leave, CloseErased, pages
  <2>1. CASE Refuse(t) \/ CloseErased(t)
    <3>1. /\ stage' = [stage EXCEPT ![t] = "none"] /\ sock' = [sock EXCEPT ![t] = NoSocket]
          /\ \A s \in Socket : peer'[s] = IF s \in {sock[t]} THEN NoPage ELSE peer[s]
          /\ UNCHANGED registry
      BY <2>1 DEF Refuse, CloseErased, Close, End
    <3>2. d \in Unlisted' => d \in Unlisted
      <4>1. SUFFICES ASSUME NEW u \in SseThread, stage'[u] = "greeted", peer'[sock'[u]] = d PROVE d \in Unlisted
        BY DEF Unlisted
      <4>2. stage[u] = "greeted" /\ sock'[u] = sock[u]  BY <3>1, <4>1, <1>a
      <4>3. peer[sock[u]] = d  BY <3>1, <4>1, <4>2, <1>0, <1>d DEF InHand
      <4> QED BY <4>2, <4>3 DEF Unlisted
    <3>3. (\E s \in registry' : peer'[s] = d) => \E s \in registry : peer[s] = d  BY <3>1, <1>0, <1>a
    <3> QED BY <2>0, <3>2, <3>3, <1>c DEF Linked
  <2>2. CASE Admit(t) \/ Look(t) \/ Check(t)
    <3>1. /\ \A u \in SseThread : stage'[u] = "greeted" => stage[u] = "greeted"
          /\ UNCHANGED <<registry, peer, sock>>
      BY <2>2, <1>a DEF Admit, Look, Check, sockets
    <3>2. d \in Unlisted' => d \in Unlisted  BY <3>1 DEF Unlisted
    <3> QED BY <2>0, <3>1, <3>2, <1>c DEF Linked
  <2>3. CASE Register(t)
    <3>1. /\ stage[t] = "greeted" /\ stage' = [stage EXCEPT ![t] = "loop"]
          /\ registry' = registry \cup {sock[t]} /\ UNCHANGED <<peer, sock>>
      BY <2>3 DEF Register
    <3>2. d \in Unlisted' => d \in Unlisted  BY <3>1, <1>a DEF Unlisted
    <3>3. peer[sock[t]] = d => d \in Unlisted  BY <3>1 DEF Unlisted
    <3> QED BY <2>0, <3>1, <3>2, <3>3, <1>c DEF Linked
  <2>4. CASE Leave(t)
    <3>1. /\ \A u \in SseThread : stage'[u] = "greeted" => stage[u] = "greeted" /\ sock'[u] = sock[u]
          /\ registry' \subseteq registry /\ UNCHANGED peer
      BY <2>4, <1>a DEF Leave, End
    <3>2. d \in Unlisted' => d \in Unlisted  BY <3>1 DEF Unlisted
    <3> QED BY <2>0, <3>1, <3>2, <1>c DEF Linked
  <2> QED BY <1>6, <2>1, <2>2, <2>3, <2>4
<1>7. ASSUME NEW c \in Page, Browser(c) PROVE LinkedIsFresh(d)'
  <2>0. /\ Fresh(d) /\ conn'[d] # "gone" => Fresh(d)'
        /\ Linked(d)' => Linked(d) /\ conn[d] = "open" /\ conn'[d] = "open"
        /\ UNCHANGED <<server, missed>>
    <3>1. UNCHANGED <<server, missed, sock, stage, registry, peer>>
      BY <1>7 DEF Browser, Receive, Poll, Answer, Show, Fail, Edit, Save, Select, Lost, Quit, sockets, threads, excused
    <3>2. conn'[d] = "open" => conn[d] = "open"
      BY <1>0, <1>7, <1>a DEF Browser, Receive, Poll, Answer, Show, Fail, Edit, Save, Select, Lost, Quit
    <3>3. Fresh(d) /\ conn'[d] # "gone" => Fresh(d)'
      BY <1>0, <1>7, FreshStep DEF HubInv
    <3> QED BY <3>1, <3>2, <3>3 DEF Linked, Unlisted
  <2>1. CASE Receive(c)
    <3> DEFINE r == Head(chan[c])  new == r # 0 /\ r # last[c]
    <3>1. /\ new /\ c \notin dirty => Refresh(c)
          /\ ignored' = IF ~new THEN ignored
                        ELSE IF c \in dirty THEN ignored \cup {c} ELSE ignored \ {c}
          /\ chan[c] # <<>> /\ chan' = [chan EXCEPT ![c] = Tail(@)]
      BY <2>1 DEF Receive
    <3>2. chan'[c] = Tail(chan[c]) /\ (In(chan[c], revision) => r = revision \/ In(Tail(chan[c]), revision))
      BY <3>1, <1>a, InSteps
    <3>3. new <=> r # 0 /\ r # last[c]  OBVIOUS
    <3> HIDE DEF r, new
    <3>4. CASE d = c /\ new
      <4>1. d \notin ignored' => asked'[d] = asked[d] + 1  BY <3>1, <3>4 DEF Refresh, HubInv, HubTyped, LoadsTyped
      <4>2. asked[d] \in Nat  BY <1>0 DEF HubInv, HubTyped, LoadsTyped
      <4> QED BY <4>1, <4>2 DEF Fresh
    <3>5. CASE d = c /\ ~new
      <4>1. ignored' = ignored  BY <3>1, <3>5
      <4>2. r = revision => last[d] = revision  BY <3>3, <3>5, <1>a
      <4>3. SUFFICES ASSUME Linked(d)', d \notin missed' \cup ignored'
                     PROVE  Fresh(d)' \/ In(chan'[d], revision') \/ Pushed'
        OBVIOUS
      <4>4. Fresh(d) \/ In(chan[d], revision) \/ Pushed  BY <4>1, <4>3, <2>0, <1>0
      <4>5. r = revision => Fresh(d)  BY <4>1, <4>2, <4>3, <2>0, <1>0 DEF SeenIsFresh
      <4> QED BY <4>3, <4>4, <4>5, <3>2, <3>5, <2>0 DEF server, Pushed
    <3>6. CASE d # c
      <4>1. chan'[d] = chan[d] /\ (d \in ignored <=> d \in ignored')  BY <3>1, <3>6, <1>0, <1>a
      <4> QED BY <4>1, <2>0, <1>0 DEF server, Pushed
    <3> QED BY <3>4, <3>5, <3>6
  <2>2. CASE Save(c)
    <3>1. CASE c = d
      <4>1. asked'[d] = asked[d] + 1 /\ asked[d] \in Nat
        BY <2>2, <3>1, <1>0 DEF Save, Refresh, HubInv, HubTyped, LoadsTyped
      <4> QED BY <4>1 DEF Fresh
    <3>2. CASE c # d  BY <2>2, <3>2, <2>0, <1>0 DEF Save, server, Pushed
    <3> QED BY <3>1, <3>2
  <2>3. CASE Quit(c)
    <3>1. CASE c = d  BY <2>3, <3>1, <1>0, <1>a DEF Quit, Linked
    <3>2. CASE c # d  BY <2>3, <3>2, <2>0, <1>0, <1>a DEF Quit, server, Pushed, excused
    <3> QED BY <3>1, <3>2
  <2>4. CASE ~Receive(c) /\ ~Save(c) /\ ~Quit(c)
    <3>1. UNCHANGED <<chan, ignored>>
      BY <1>7, <2>4 DEF Browser, Poll, Answer, Show, Fail, Edit, Select, Lost, excused, loading
    <3> QED BY <3>1, <2>0, <1>0 DEF server, Pushed
  <2> QED BY <2>1, <2>2, <2>3, <2>4
<1>8. CASE Terminate
  BY <1>8, <1>0 DEF Terminate, pages, loading, excused, Fresh, sockets, threads, Linked, Unlisted, Pushed
<1>9. CASE UNCHANGED hubVars
  BY <1>9, <1>0 DEF hubVars, server, sockets, threads, pages, loading, excused, Fresh, Linked, Unlisted, Pushed
<1> QED BY <1>1, <1>2, <1>3, <1>4, <1>5, <1>6, <1>7, <1>8, <1>9 DEF HubNext, ClientThread

(* The start: a page that is followed has asked for the state. *)
LEMMA PageInvInit == HubInit => PageInv
<1> SUFFICES ASSUME HubInit PROVE PageInv  OBVIOUS
<1> USE DEF HubInit
<1>1. NoneAhead
  <2>1. Bounded(<<>>, 0)  BY BoundedSteps DEF Bounded
  <2> QED BY <2>1 DEF NoneAhead, NotAhead
<1>2. \A c \in Page : Alone(c)  BY DEF Alone
<1>3. \A c \in Followed : SeenIsFresh(c) /\ LinkedIsFresh(c)
  BY DEF SeenIsFresh, LinkedIsFresh, Fresh
<1> QED BY <1>1, <1>2, <1>3 DEF PageInv

(* With nothing on its way, a linked page is fresh because it was shown   *)
(* the present revision.                                                  *)
LEMMA PageInvCurrent == HubInv /\ PageInv => AttentivePageIsCurrent
<1> SUFFICES ASSUME HubInv, PageInv, NEW c \in Page, Quiet(c), c \notin missed \cup ignored \cup failed
             PROVE  newest[c] = revision /\ (c \notin crossed => view[c] = revision)
  BY DEF AttentivePageIsCurrent
<1>1. c \in Followed /\ LinkedIsFresh(c)  BY DEF Quiet, PageInv
<1>2. Linked(c)  BY DEF Quiet, InRegistry, Linked
<1>3. ~In(<<>>, revision)  BY DEF In
<1>4. ~Pushed  BY DEF Quiet, Pushed
<1>5. newest[c] = revision  BY <1>1, <1>2, <1>3, <1>4 DEF LinkedIsFresh, Fresh, Quiet
<1>6. c \notin crossed => view[c] = newest[c]  BY DEF PageInv, Alone, Quiet, InRegistry
<1> QED BY <1>5, <1>6

(* SseHub and refresh in web/app.js: a connected page with nothing on its *)
(* way, that no push passed by, that ignored none and whose last refresh  *)
(* did not fail, has been shown the present state, and still shows it if  *)
(* that refresh was alone; for any number of pages, threads, pushers,     *)
(* changes and refreshes.                                                 *)
THEOREM AttentivePageStaysCurrent == HubSpec => []AttentivePageIsCurrent
<1>1. HubInit => HubInv /\ PageInv  BY HubInitHolds, PageInvInit
<1>2. HubInv /\ PageInv /\ [HubNext]_hubVars => (HubInv /\ PageInv)'
  <2> SUFFICES ASSUME HubInv, PageInv, [HubNext]_hubVars PROVE (HubInv /\ PageInv)'  OBVIOUS
  <2>1. HubInv'  BY HubTypedStep, RecordsStep, TalliedStep DEF HubInv
  <2>2. NoneAhead'  BY NoneAheadStep DEF HubInv, PageInv
  <2>3. \A c \in Page : Alone(c)'  BY AloneStep DEF HubInv, PageInv
  <2>4. \A c \in Followed : SeenIsFresh(c)' /\ LinkedIsFresh(c)'  BY SeenStep, LinkedStep DEF HubInv
  <2> QED BY <2>1, <2>2, <2>3, <2>4 DEF PageInv
<1> QED BY <1>1, <1>2, PageInvCurrent, PTL DEF HubSpec
=============================================================================
