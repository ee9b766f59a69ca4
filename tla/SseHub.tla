------------------------------- MODULE SseHub -------------------------------
(***************************************************************************)
(* The live updates of the dashboard.  BumpRevision and NotifySseClients   *)
(* push the revision of the state to the sockets in g_sseClients, one      *)
(* SseClientThread serves each page, and a page told of a new revision     *)
(* fetches the state (connectSSE and refresh in web/app.js).  A step is    *)
(* what a thread does while it holds g_csRevision, or one socket call, or  *)
(* one event of a page.                                                    *)
(*                                                                         *)
(* A record is known by its socket handle.  A handle that was closed may   *)
(* be given to the next connection, while the thread that had it before    *)
(* still sleeps on it: it then wakes up on the socket of another page.     *)
(***************************************************************************)
EXTENDS Integers, FiniteSets, Sequences

CONSTANTS
  Page,         \* pages
  Followed,     \* the pages whose contents are followed, not only their sockets
  NoPage,
  SseThread,    \* threads that run SseClientThread
  Socket,       \* values of a socket handle
  NoSocket,
  Bumper,       \* threads that call BumpRevision
  Cap,          \* kMaxSseClients
  Edits,        \* whether the user edits profiles in the page
  Loads,        \* bound of the refreshes under way in a page
  MaxRevision   \* bound of the changes of the state

ASSUME SseAssumption ==
  /\ NoPage \notin Page /\ Followed \subseteq Page
  /\ IsFiniteSet(SseThread) /\ NoSocket \notin Socket
  /\ Cap \in Nat \ {0} /\ Loads \in Nat \ {0} /\ MaxRevision \in Nat
  /\ Edits \in BOOLEAN

VARIABLES
  revision,  \* g_stateRevision
  pushing,   \* per bumper, the revision it is about to push, or 0
  g_running, \* g_running
  registry,  \* g_sseClients, as the set of its sockets: one listed twice shows in count
  count,     \* g_sseClientCount
  peer,      \* per handle, the page at the other end, while it is open
  stage, sock, \* per thread, where it is and its handle
  conn,      \* per page, "none", "open" (its EventSource) or "gone"
  polling,   \* pages with pollFallback set
  dirty,     \* pages with profileDirty set
  chan,      \* per page, the revisions on their way to it
  last,      \* per page, LAST_REVISION
  asked,     \* per page, refreshes whose request is not answered yet
  answers,   \* per page, revisions of the answers a refresh has not shown yet
  view,      \* per page, the revision of the state it shows
  newest,    \* history: per page, the newest state it has shown
  crossed,   \* history: pages whose last refresh was not alone under way
  missed,    \* pages a push passed by between greeting and registration
  ignored,   \* pages that ignored a revision because of unsaved changes
  failed     \* pages of which a refresh failed since they last began one

server == <<revision, pushing, g_running>>
sockets == <<registry, count, peer>>
threads == <<stage, sock>>
loading == <<last, asked, answers, view, newest, crossed, failed>>
pages == <<conn, polling, dirty, loading>>
excused == <<missed, ignored>>
hubVars == <<server, sockets, threads, pages, chan, excused>>

HubInit ==
  /\ revision = 0 /\ pushing = [b \in Bumper |-> 0] /\ g_running = TRUE
  /\ registry = {} /\ count = 0
  /\ peer = [s \in Socket |-> NoPage]
  /\ stage = [t \in SseThread |-> "none"] /\ sock = [t \in SseThread |-> NoSocket]
  /\ conn = [c \in Page |-> "none"] /\ polling = {} /\ dirty = {}
  /\ chan = [c \in Page |-> <<>>]
  /\ last = [c \in Page |-> 0] /\ asked = [c \in Page |-> IF c \in Followed THEN 1 ELSE 0]
  /\ answers = [c \in Page |-> {}] /\ view = [c \in Page |-> 0]
  /\ newest = [c \in Page |-> 0] /\ crossed = {}
  /\ missed = {} /\ ignored = {} /\ failed = {}
-----------------------------------------------------------------------------
(* The pushes.                                                             *)

(* closesocket *)
Close(ss) == peer' = [s \in Socket |-> IF s \in ss THEN NoPage ELSE peer[s]]

(* Mutant: a client that cannot be reached is still counted. *)
DropKeepsCount(failing) ==
  /\ failing \subseteq registry
  /\ \A s \in registry : peer[s] = NoPage => s \in failing
  /\ registry' = registry \ failing
  /\ UNCHANGED count
  /\ Close(failing)

(* What sending to every registered socket does, when it fails on some:    *)
(* those are closed, erased and no longer counted.  A closed handle fails. *)
Drop(failing) ==
  /\ failing \subseteq registry
  /\ \A s \in registry : peer[s] = NoPage => s \in failing
  /\ registry' = registry \ failing
  /\ count' = count - Cardinality(failing)
  /\ Close(failing)

Reached(failing) == {peer[s] : s \in registry \ failing}

(* Pages that were greeted and are not yet registered. *)
Unlisted == {peer[sock[t]] : t \in {u \in SseThread : stage[u] = "greeted"}}

(* BumpRevision, up to its release of g_csRevision. *)
Bump(b) ==
  /\ revision < MaxRevision  \* bound
  /\ pushing[b] = 0
  /\ revision' = revision + 1
  /\ pushing' = [pushing EXCEPT ![b] = revision + 1]
  /\ UNCHANGED <<g_running, sockets, threads, pages, chan, excused>>

(* NotifySseClients *)
Notify(b, failing) ==
  /\ pushing[b] # 0
  /\ pushing' = [pushing EXCEPT ![b] = 0]
  /\ Drop(failing)
  /\ chan' = [c \in Page |-> IF c \in Followed \cap Reached(failing) THEN Append(chan[c], pushing[b])
                                                       ELSE chan[c]]
  /\ missed' = missed \cup (Followed \cap Unlisted)
  /\ UNCHANGED <<revision, g_running, threads, pages, ignored>>

(* NotifyActivitySse, where a client cannot be reached; otherwise it       *)
(* leaves all of this alone.                                               *)
NotifyActivity(failing) ==
  /\ failing # {}
  /\ Drop(failing)
  /\ UNCHANGED <<server, threads, pages, chan, excused>>
-----------------------------------------------------------------------------
(* SseClientThread                                                         *)

End(t) == stage' = [stage EXCEPT ![t] = "none"] /\ sock' = [sock EXCEPT ![t] = NoSocket]

(* A page asks for the stream (new EventSource), and a worker hands the    *)
(* accepted socket, whose handle may have been that of another, to a new   *)
(* thread.                                                                 *)
Connect(c, t, s) ==
  /\ g_running
  /\ conn[c] = "none" /\ stage[t] = "none"
  /\ peer[s] = NoPage
  /\ conn' = [conn EXCEPT ![c] = "open"]
  /\ peer' = [peer EXCEPT ![s] = c]
  /\ stage' = [stage EXCEPT ![t] = "started"]
  /\ sock' = [sock EXCEPT ![t] = s]
  /\ UNCHANGED <<server, registry, count, polling, dirty, loading, chan, excused>>

(* Too many clients: refused. *)
Refuse(t) ==
  /\ stage[t] = "started" /\ count >= Cap
  /\ Close({sock[t]})
  /\ End(t)
  /\ UNCHANGED <<server, registry, count, pages, chan, excused>>

Admit(t) ==
  /\ stage[t] = "started" /\ count < Cap
  /\ stage' = [stage EXCEPT ![t] = "admitted"]
  /\ UNCHANGED <<server, sockets, sock, pages, chan, excused>>

(* Mutant: no present revision. *)
GreetWithoutRevision(t) ==
  /\ stage[t] = "admitted"
  /\ stage' = [stage EXCEPT ![t] = "greeted"]
  /\ polling' = polling \ {peer[sock[t]]}
  /\ missed' = missed \ {peer[sock[t]]}
  /\ UNCHANGED <<server, sockets, sock, chan, conn, dirty, loading, ignored>>

(* The headers, which make the page stop polling (onopen), and the present *)
(* revision.                                                               *)
Greet(t) ==
  /\ stage[t] = "admitted"
  /\ stage' = [stage EXCEPT ![t] = "greeted"]
  /\ LET c == peer[sock[t]]
     IN /\ chan' = IF c \in Followed THEN [chan EXCEPT ![c] = Append(@, revision)] ELSE chan
        /\ polling' = polling \ {c}
        /\ missed' = missed \ {c}
  /\ UNCHANGED <<server, sockets, sock, conn, dirty, loading, ignored>>

Register(t) ==
  /\ stage[t] = "greeted"
  /\ stage' = [stage EXCEPT ![t] = "loop"]
  /\ registry' = registry \cup {sock[t]}
  /\ count' = count + 1
  /\ UNCHANGED <<server, peer, sock, pages, chan, excused>>

(* The head of the loop: g_running, then select on the handle, which fails *)
(* if it is closed, and a recv that finds the other side closed.  A ping   *)
(* may fail as well.                                                       *)
Look(t) ==
  /\ stage[t] = "loop"
  /\ \/ stage' = [stage EXCEPT ![t] = "leaving"]
     \/ /\ g_running
        /\ peer[sock[t]] \in {d \in Page : conn[d] = "open"}
        /\ stage' = [stage EXCEPT ![t] = "check"]
  /\ UNCHANGED <<server, sockets, sock, pages, chan, excused>>

(* Is the handle still registered? *)
Check(t) ==
  /\ stage[t] = "check"
  /\ stage' = [stage EXCEPT ![t] = IF sock[t] \in registry THEN "loop" ELSE "leaving"]
  /\ UNCHANGED <<server, sockets, sock, pages, chan, excused>>

(* Mutant: the thread closes its socket whoever has erased the record. *)
LeaveAndClose(t) ==
  /\ stage[t] = "leaving"
  /\ stage' = [stage EXCEPT ![t] = "closing"]
  /\ \E found \in BOOLEAN :
       /\ found = (sock[t] \in registry)
       /\ registry' = IF found THEN registry \ {sock[t]} ELSE registry
       /\ count' = IF found THEN count - 1 ELSE count
  /\ UNCHANGED <<server, peer, sock, pages, chan, excused>>

(* The record of the handle is erased if there is one, and then the socket *)
(* will be closed.                                                         *)
Leave(t) ==
  /\ stage[t] = "leaving"
  /\ \/ /\ sock[t] \in registry
        /\ registry' = registry \ {sock[t]}
        /\ count' = count - 1
        /\ stage' = [stage EXCEPT ![t] = "closing"]
        /\ UNCHANGED sock
     \/ sock[t] \notin registry /\ End(t) /\ UNCHANGED <<registry, count>>
  /\ UNCHANGED <<server, peer, pages, chan, excused>>

CloseErased(t) ==
  /\ stage[t] = "closing"
  /\ Close({sock[t]})
  /\ End(t)
  /\ UNCHANGED <<server, registry, count, pages, chan, excused>>

(* The program stops. *)
Terminate ==
  /\ g_running
  /\ g_running' = FALSE
  /\ UNCHANGED <<revision, pushing, sockets, threads, pages, chan, excused>>
-----------------------------------------------------------------------------
(* The page.                                                               *)

CanLoad(c) == asked[c] + Cardinality(answers[c]) < Loads  \* bound

(* The page begins a refresh; those under way go on. *)
Refresh(c) ==
  /\ CanLoad(c)
  /\ asked' = [asked EXCEPT ![c] = @ + 1]
  /\ crossed' = IF asked[c] > 0 \/ answers[c] # {} THEN crossed \cup {c} ELSE crossed \ {c}
  /\ failed' = failed \ {c}

(* A revision event: one that is not the last seen makes the page fetch    *)
(* the state, unless the user has changes of his own in it.                *)
Receive(c) ==
  /\ conn[c] = "open" /\ chan[c] # <<>>
  /\ LET r == Head(chan[c])  new == r # 0 /\ r # last[c]
     IN /\ last' = IF new THEN [last EXCEPT ![c] = r] ELSE last
        /\ IF new /\ c \notin dirty THEN Refresh(c) ELSE UNCHANGED <<asked, crossed, failed>>
        /\ ignored' = IF ~new THEN ignored
                      ELSE IF c \in dirty THEN ignored \cup {c} ELSE ignored \ {c}
  /\ chan' = [chan EXCEPT ![c] = Tail(@)]
  /\ UNCHANGED <<server, sockets, threads, conn, polling, dirty, answers, view, newest, missed>>

(* pollFallback *)
Poll(c) ==
  /\ c \in polling
  /\ Refresh(c)
  /\ UNCHANGED <<server, sockets, threads, conn, polling, dirty, last, answers, view, newest, chan, excused>>

(* A worker answers GET /api/profiles of a refresh. *)
Answer(c) ==
  /\ asked[c] > 0
  /\ asked' = [asked EXCEPT ![c] = @ - 1]
  /\ answers' = [answers EXCEPT ![c] = @ \cup {revision}]
  /\ UNCHANGED <<server, sockets, threads, conn, polling, dirty, last, view, newest, crossed, failed,
                 chan, excused>>

(* The refresh has its other answers as well, and shows the state. *)
Show(c) ==
  \E r \in answers[c] :
    /\ answers' = [answers EXCEPT ![c] = @ \ {r}]
    /\ view' = [view EXCEPT ![c] = r]
    /\ newest' = [newest EXCEPT ![c] = IF r > @ THEN r ELSE @]
    /\ dirty' = dirty \ {c}
    /\ UNCHANGED <<server, sockets, threads, conn, polling, last, asked, crossed, failed, chan, excused>>

(* One of its three requests fails, or is refused by a full pool: the page *)
(* shows an error, and the revision it was told is not asked for again.    *)
Fail(c) ==
  /\ \/ asked[c] > 0 /\ asked' = [asked EXCEPT ![c] = @ - 1] /\ UNCHANGED answers
     \/ \E r \in answers[c] : answers' = [answers EXCEPT ![c] = @ \ {r}] /\ UNCHANGED asked
  /\ failed' = failed \cup {c}
  /\ UNCHANGED <<server, sockets, threads, conn, polling, dirty, last, view, newest, crossed, chan, excused>>

(* The user changes something (markProfileDirty), and saves it, which      *)
(* fetches the state, or turns to another profile (selectProfile).         *)
Edit(c) ==
  /\ Edits /\ c \in Followed /\ conn[c] # "gone" /\ c \notin dirty
  /\ dirty' = dirty \cup {c}
  /\ UNCHANGED <<server, sockets, threads, conn, polling, loading, chan, excused>>

Save(c) ==
  /\ c \in dirty
  /\ dirty' = dirty \ {c} /\ ignored' = ignored \ {c}
  /\ Refresh(c)
  /\ UNCHANGED <<server, sockets, threads, conn, polling, last, answers, view, newest, chan, missed>>

Select(c) ==
  /\ c \in dirty
  /\ dirty' = dirty \ {c}
  /\ UNCHANGED <<server, sockets, threads, conn, polling, loading, chan, excused>>

(* The stream ends (onerror): the page polls until it is connected again.  *)
Lost(c) ==
  /\ conn[c] = "open" /\ chan[c] = <<>>
  /\ c \notin {peer[s] : s \in Socket}
  /\ conn' = [conn EXCEPT ![c] = "none"]
  /\ polling' = polling \cup ({c} \cap Followed)
  /\ UNCHANGED <<server, sockets, threads, dirty, loading, chan, excused>>

(* The tab is closed. *)
Quit(c) ==
  /\ conn[c] = "open"
  /\ conn' = [conn EXCEPT ![c] = "gone"]
  /\ polling' = polling \ {c}
  /\ dirty' = dirty \ {c}
  /\ chan' = [chan EXCEPT ![c] = <<>>]
  /\ asked' = [asked EXCEPT ![c] = 0] /\ answers' = [answers EXCEPT ![c] = {}]
  /\ UNCHANGED <<server, sockets, threads, last, view, newest, crossed, failed, excused>>
-----------------------------------------------------------------------------
ClientThread(t) ==
  \/ Refuse(t) \/ Admit(t) \/ Greet(t) \/ Register(t)
  \/ Look(t) \/ Check(t) \/ Leave(t) \/ CloseErased(t)

Browser(c) ==
  \/ Receive(c) \/ Poll(c) \/ Answer(c) \/ Show(c) \/ Fail(c)
  \/ Edit(c) \/ Save(c) \/ Select(c) \/ Lost(c) \/ Quit(c)

HubNext ==
  \/ \E b \in Bumper : Bump(b) \/ \E failing \in SUBSET Socket : Notify(b, failing)
  \/ \E failing \in SUBSET Socket : NotifyActivity(failing)
  \/ \E c \in Page, t \in SseThread, s \in Socket : Connect(c, t, s)
  \/ \E t \in SseThread : ClientThread(t)
  \/ \E c \in Page : Browser(c)
  \/ Terminate

HubSpec == HubInit /\ [][HubNext]_hubVars
-----------------------------------------------------------------------------
HubTypeOK ==
  /\ revision \in 0..MaxRevision /\ pushing \in [Bumper -> 0..MaxRevision]
  /\ g_running \in BOOLEAN
  /\ registry \subseteq Socket /\ count \in 0..Cardinality(SseThread)
  /\ peer \in [Socket -> Page \cup {NoPage}]
  /\ stage \in [SseThread -> {"none", "started", "admitted", "greeted", "loop", "check",
                      "leaving", "closing"}]
  /\ sock \in [SseThread -> Socket \cup {NoSocket}]
  /\ conn \in [Page -> {"none", "open", "gone"}]
  /\ polling \subseteq Page /\ dirty \subseteq Page
  /\ missed \subseteq Page /\ ignored \subseteq Page
  /\ chan \in [Page -> Seq(0..MaxRevision)] /\ answers \in [Page -> SUBSET (0..MaxRevision)]
  /\ last \in [Page -> 0..MaxRevision] /\ view \in [Page -> 0..MaxRevision]
  /\ newest \in [Page -> 0..MaxRevision] /\ crossed \subseteq Page /\ failed \subseteq Page
  /\ asked \in [Page -> 0..Loads]

InLoop(t) == stage[t] \in {"loop", "check", "leaving"}
InHand(t) == stage[t] \in {"started", "admitted", "greeted", "closing"}

(* The handles are accounted for, although they are used again: a socket   *)
(* is open exactly while it has its one record or is in the hands of one   *)
(* thread, which is about to list or to close it, so that none is closed   *)
(* twice, lost, or written to after it was closed; some thread watches     *)
(* each record; and the counter that the cap is compared with counts the   *)
(* records.                                                                *)
RegistryIsExact ==
  /\ HubTypeOK
  /\ count = Cardinality(registry)
  /\ \A s \in Socket :
       peer[s] # NoPage <=> s \in registry \/ \E t \in SseThread : InHand(t) /\ sock[t] = s
  /\ \A t \in SseThread : InHand(t) =>
       /\ sock[t] \notin registry
       /\ \A u \in SseThread : InHand(u) /\ sock[u] = sock[t] => u = t
  /\ \A s \in registry : \E t \in SseThread : InLoop(t) /\ sock[t] = s

(* What the comments at the registry and at the end of SseClientThread say *)
(* of the ownership: a thread follows its own record only, so that no two  *)
(* follow one.                                                             *)
OneWatcher ==
  \A t, u \in SseThread : InLoop(t) /\ InLoop(u) /\ sock[t] = sock[u] /\ sock[t] \in registry => t = u

InRegistry(c) == conn[c] = "open" /\ \E s \in registry : peer[s] = c

Quiet(c) ==
  /\ c \in Followed /\ InRegistry(c) /\ chan[c] = <<>> /\ asked[c] = 0 /\ answers[c] = {}
  /\ \A b \in Bumper : pushing[b] = 0
  /\ c \notin dirty

(* A connected page with nothing on its way to it shows the present state: *)
(* whatever the order of the pushes, and however often it was dropped and  *)
(* came back.                                                              *)
QuietPageIsCurrent == \A c \in Page : Quiet(c) => view[c] = revision

(* Such a page that ignored nothing, and whose last refresh did not fail,  *)
(* has been shown the present state, and it still shows it if its last     *)
(* refresh was alone: refreshes that cross may show an older state last.   *)
AttentivePageIsCurrent ==
  \A c \in Page : Quiet(c) /\ c \notin missed \cup ignored \cup failed =>
    /\ newest[c] = revision
    /\ c \notin crossed => view[c] = revision
=============================================================================
