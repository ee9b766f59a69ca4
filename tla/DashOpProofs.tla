---------------------------- MODULE DashOpProofs ----------------------------
(***************************************************************************)
(* Theorems about DashOp, for every set of workers and operations.  The    *)
(* inductive invariant is DashInv; the two lemmas say what taking from and *)
(* appending to the queue of messages does to it.                          *)
(***************************************************************************)
EXTENDS DashOp, TLAPS

LEMMA TakeFirst ==
  ASSUME NEW S, NEW q \in Seq(S), q # <<>>
  PROVE  /\ Head(q) \in S /\ Head(q) = q[1] /\ 1 \in 1..Len(q)
         /\ Tail(q) \in Seq(S)
         /\ \A i \in 1..Len(Tail(q)) : i + 1 \in 1..Len(q) /\ i + 1 # 1 /\ Tail(q)[i] = q[i + 1]
  OBVIOUS

LEMMA AddLast ==
  ASSUME NEW S, NEW q \in Seq(S), NEW o \in S
  PROVE  /\ Append(q, o) \in Seq(S)
         /\ Len(q) + 1 \in 1..Len(Append(q, o)) /\ Append(q, o)[Len(q) + 1] = o
         /\ \A i \in 1..Len(q) : i \in 1..Len(Append(q, o)) /\ Append(q, o)[i] = q[i]
         /\ \A i \in 1..Len(Append(q, o)) : i \in 1..Len(q) \/ i = Len(q) + 1
  OBVIOUS

(***************************************************************************)
(* Every step keeps every variable within its type.                        *)
(***************************************************************************)
LEMMA TypeStep == TypeOK /\ [Next]_vars => TypeOK'
<1> SUFFICES ASSUME TypeOK, [Next]_vars PROVE TypeOK'
  OBVIOUS
<1> USE DashOpAssumption DEF TypeOK, Go, worker, object, main, config, ghost
<1>1. ASSUME NEW w \in Worker, NEW o \in Op, Receive(w, o) PROVE TypeOK'
  <2>1. wpc' \in [Worker -> {"idle", "write", "post", "wait", "expired", "collect", "delete", "create", "unsaved", "reply"}]
    BY <1>1 DEF Receive
  <2>2. heap' \in [Op -> {"new", "live", "freed"}]
    BY <1>1 DEF Receive
  <2>3. \A v \in Worker : wop'[v] = NoOp <=> wpc'[v] = "idle"
    BY <1>1 DEF Receive
  <2>4. QED
    BY <1>1, <2>1, <2>2, <2>3 DEF Receive
<1>2. ASSUME NEW w \in Worker, WriteImport(w) PROVE TypeOK'
  BY <1>2 DEF WriteImport
<1>3. ASSUME NEW w \in Worker, WriteImportFails(w) PROVE TypeOK'
  BY <1>3 DEF WriteImportFails
<1>4. ASSUME NEW w \in Worker, CreateEdit(w) PROVE TypeOK'
  BY <1>4 DEF CreateEdit
<1>5. ASSUME NEW w \in Worker, CreateSave(w) PROVE TypeOK'
  <2>1. wpc[w] = "unsaved" /\ wop[w] \in Op
    BY <1>5 DEF CreateSave
  <2>2. /\ wpc' = [wpc EXCEPT ![w] = "reply"] /\ served' = served \cup {wop[w]}
        /\ UNCHANGED <<wop, heap, event, timedOut, queue, main, mem, answer>>
    BY <1>5 DEF CreateSave
  <2>3. success' \in [Op -> BOOLEAN] /\ file' \subseteq Op /\ diverged' \in BOOLEAN
    BY <1>5 DEF CreateSave
  <2>4. \A v \in Worker : wop'[v] = NoOp <=> wpc'[v] = "idle"
    BY <2>1, <2>2
  <2>5. QED
    BY <2>1, <2>2, <2>3, <2>4
<1>6. ASSUME NEW w \in Worker, CreateReply(w) PROVE TypeOK'
  BY <1>6 DEF CreateReply
<1>7. ASSUME NEW w \in Worker, Post(w) PROVE TypeOK'
  BY <1>7, AddLast DEF Post
<1>8. ASSUME NEW w \in Worker, PostFails(w) PROVE TypeOK'
  BY <1>8 DEF PostFails
<1>9. ASSUME NEW w \in Worker, WaitSucceeds(w) PROVE TypeOK'
  BY <1>9 DEF WaitSucceeds
<1>10. ASSUME NEW w \in Worker, WaitExpires(w) PROVE TypeOK'
  BY <1>10 DEF WaitExpires
<1>11. ASSUME NEW w \in Worker, Collect(w) PROVE TypeOK'
  BY <1>11 DEF Collect
<1>12. ASSUME NEW w \in Worker, DeleteOp(w) PROVE TypeOK'
  BY <1>12 DEF DeleteOp
<1>13. ASSUME NEW w \in Worker, Abandon(w) PROVE TypeOK'
  BY <1>13 DEF Abandon
<1>14. CASE Take
  BY <1>14, TakeFirst DEF Take
<1>15. CASE ApplyEdit
  BY <1>15 DEF ApplyEdit
<1>16. CASE ApplyFire
  BY <1>16 DEF ApplyFire
<1>17. CASE LeaveForReload
  BY <1>17 DEF LeaveForReload
<1>18. CASE Reenter
  BY <1>18 DEF Reenter
<1>19. CASE ApplyReload
  BY <1>19 DEF ApplyReload
<1>20. CASE Reject
  BY <1>20 DEF Reject
<1>21. CASE Persist
  BY <1>21 DEF Persist
<1>22. CASE ReadTimedOut
  BY <1>22 DEF ReadTimedOut
<1>23. CASE Signal
  BY <1>23 DEF Signal
<1>24. CASE Dispose
  <2>1. mop' = NoOp /\ mpc' = "pump" /\ abandoned' = FALSE
        /\ UNCHANGED <<worker, timedOut, success, queue, config, ghost>>
    BY <1>24 DEF Dispose
  <2>2. event' \in [Op -> {"unset", "set", "closed"}] /\ heap' \in [Op -> {"new", "live", "freed"}]
    BY <1>24 DEF Dispose
  <2>3. QED
    BY <2>1, <2>2
<1>25. CASE Exit
  BY <1>25 DEF Exit
<1>26. CASE Finished
  BY <1>26 DEF Finished, vars
<1>27. CASE UNCHANGED vars
  BY <1>27 DEF vars
<1>28. QED
  BY <1>1, <1>2, <1>3, <1>4, <1>5, <1>6, <1>7, <1>8, <1>9, <1>10, <1>11, <1>12, <1>13, <1>14, <1>15, <1>16, <1>17, <1>18, <1>19, <1>20, <1>21, <1>22, <1>23, <1>24, <1>25, <1>26, <1>27 DEF Next, WorkerNext, WorkerStep, MainNext, Locked

(***************************************************************************)
(* Every step preserves the rest of DashInv.                               *)
(***************************************************************************)
LEMMA InvStep == DashInv /\ [Next]_vars => DashInv'
<1> SUFFICES ASSUME DashInv, [Next]_vars PROVE DashInv'
  OBVIOUS
<1>t. TypeOK /\ TypeOK'
  BY TypeStep DEF DashInv
<1> USE DashOpAssumption, <1>t DEF Go, worker, object, main, config, ghost, Queued, Handling
<1>1. ASSUME NEW w \in Worker, NEW o \in Op, Receive(w, o) PROVE DashInv'
  <2>1. OneOwner'
    BY <1>1 DEF Receive, DashInv, TypeOK, OneOwner, ObjectInv
  <2>2. QueueInv'
    BY <1>1 DEF Receive, DashInv, TypeOK, QueueInv, WorkerInv, ObjectInv
  <2>3. WorkerInv'
    BY <1>1 DEF Receive, DashInv, TypeOK, OneOwner, QueueInv, WorkerInv, MainInv, ObjectInv
  <2>4. MainInv'
    BY <1>1 DEF Receive, DashInv, TypeOK, OneOwner, QueueInv, WorkerInv, MainInv, ObjectInv
  <2>5. ObjectInv'
    BY <1>1 DEF Receive, DashInv, TypeOK, OneOwner, QueueInv, WorkerInv, MainInv, ObjectInv
  <2>6. QED
    BY <2>1, <2>2, <2>3, <2>4, <2>5, <1>t DEF DashInv
<1>2. ASSUME NEW w \in Worker, WriteImport(w) PROVE DashInv'
  <2>1. OneOwner'
    BY <1>2 DEF WriteImport, DashInv, TypeOK, OneOwner, ObjectInv
  <2>2. QueueInv'
    BY <1>2 DEF WriteImport, DashInv, TypeOK, QueueInv, WorkerInv
  <2>3. WorkerInv'
    BY <1>2 DEF WriteImport, DashInv, TypeOK, OneOwner, QueueInv, WorkerInv, MainInv, ObjectInv
  <2>4. MainInv'
    BY <1>2 DEF WriteImport, DashInv, TypeOK, OneOwner, QueueInv, WorkerInv, MainInv, ObjectInv
  <2>5. ObjectInv'
    BY <1>2 DEF WriteImport, DashInv, TypeOK, OneOwner, QueueInv, WorkerInv, MainInv, ObjectInv
  <2>6. QED
    BY <2>1, <2>2, <2>3, <2>4, <2>5, <1>t DEF DashInv
<1>3. ASSUME NEW w \in Worker, WriteImportFails(w) PROVE DashInv'
  <2>1. OneOwner'
    BY <1>3 DEF WriteImportFails, DashInv, TypeOK, OneOwner, ObjectInv
  <2>2. QueueInv'
    BY <1>3 DEF WriteImportFails, DashInv, TypeOK, QueueInv, WorkerInv
  <2>3. WorkerInv'
    BY <1>3 DEF WriteImportFails, DashInv, TypeOK, OneOwner, QueueInv, WorkerInv, MainInv, ObjectInv
  <2>4. MainInv'
    BY <1>3 DEF WriteImportFails, DashInv, TypeOK, OneOwner, QueueInv, WorkerInv, MainInv, ObjectInv
  <2>5. ObjectInv'
    BY <1>3 DEF WriteImportFails, DashInv, TypeOK, OneOwner, QueueInv, WorkerInv, MainInv, ObjectInv
  <2>6. QED
    BY <2>1, <2>2, <2>3, <2>4, <2>5, <1>t DEF DashInv
<1>4. ASSUME NEW w \in Worker, CreateEdit(w) PROVE DashInv'
  <2>1. OneOwner'
    BY <1>4 DEF CreateEdit, DashInv, TypeOK, OneOwner, ObjectInv
  <2>2. QueueInv'
    BY <1>4 DEF CreateEdit, DashInv, TypeOK, QueueInv, WorkerInv
  <2>3. WorkerInv'
    BY <1>4 DEF CreateEdit, DashInv, TypeOK, OneOwner, QueueInv, WorkerInv, MainInv, ObjectInv
  <2>4. MainInv'
    BY <1>4 DEF CreateEdit, DashInv, TypeOK, OneOwner, QueueInv, WorkerInv, MainInv, ObjectInv
  <2>5. ObjectInv'
    BY <1>4 DEF CreateEdit, DashInv, TypeOK, OneOwner, QueueInv, WorkerInv, MainInv, ObjectInv
  <2>6. QED
    BY <2>1, <2>2, <2>3, <2>4, <2>5, <1>t DEF DashInv
<1>5. ASSUME NEW w \in Worker, CreateSave(w) PROVE DashInv'
  <2>1. OneOwner'
    BY <1>5 DEF CreateSave, DashInv, TypeOK, OneOwner, ObjectInv
  <2>2. QueueInv'
    BY <1>5 DEF CreateSave, DashInv, TypeOK, QueueInv, WorkerInv
  <2>3. WorkerInv'
    BY <1>5 DEF CreateSave, DashInv, TypeOK, OneOwner, QueueInv, WorkerInv, MainInv, ObjectInv
  <2>4. MainInv'
    BY <1>5 DEF CreateSave, DashInv, TypeOK, OneOwner, QueueInv, WorkerInv, MainInv, ObjectInv
  <2>5. ObjectInv'
    BY <1>5 DEF CreateSave, DashInv, TypeOK, OneOwner, QueueInv, WorkerInv, MainInv, ObjectInv
  <2>6. QED
    BY <2>1, <2>2, <2>3, <2>4, <2>5, <1>t DEF DashInv
<1>6. ASSUME NEW w \in Worker, CreateReply(w) PROVE DashInv'
  <2>1. OneOwner'
    BY <1>6 DEF CreateReply, DashInv, TypeOK, OneOwner, ObjectInv
  <2>2. QueueInv'
    BY <1>6 DEF CreateReply, DashInv, TypeOK, QueueInv, WorkerInv
  <2>3. WorkerInv'
    BY <1>6 DEF CreateReply, DashInv, TypeOK, OneOwner, QueueInv, WorkerInv, MainInv, ObjectInv
  <2>4. MainInv'
    BY <1>6 DEF CreateReply, DashInv, TypeOK, OneOwner, QueueInv, WorkerInv, MainInv, ObjectInv
  <2>5. ObjectInv'
    BY <1>6 DEF CreateReply, DashInv, TypeOK, OneOwner, QueueInv, WorkerInv, MainInv, ObjectInv
  <2>6. QED
    BY <2>1, <2>2, <2>3, <2>4, <2>5, <1>t DEF DashInv
<1>7. ASSUME NEW w \in Worker, Post(w) PROVE DashInv'
  <2>1. OneOwner'
    BY <1>7, AddLast DEF Post, DashInv, TypeOK, OneOwner, ObjectInv
  <2>2. QueueInv'
    <3>1. wop[w] \in Op /\ queue \in Seq(Op) /\ queue' = Append(queue, wop[w])
      BY <1>7 DEF Post, TypeOK
    <3>2. /\ wop[w] # mop /\ wop[w] \notin served /\ heap[wop[w]] = "live"
          /\ event[wop[w]] = "unset" /\ answer[wop[w]] \in {"open", "timeout"}
          /\ \A i \in 1..Len(queue) : queue[i] # wop[w]
      BY <1>7 DEF Post, DashInv, WorkerInv
    <3>3. UNCHANGED <<mop, served, heap, event, answer>>
      BY <1>7 DEF Post
    <3>4. QED
      BY <3>1, <3>2, <3>3, AddLast DEF DashInv, QueueInv
  <2>3. WorkerInv'
    BY <1>7, AddLast DEF Post, DashInv, TypeOK, OneOwner, QueueInv, WorkerInv, MainInv, ObjectInv
  <2>4. MainInv'
    BY <1>7, AddLast DEF Post, DashInv, TypeOK, OneOwner, QueueInv, WorkerInv, MainInv, ObjectInv
  <2>5. ObjectInv'
    BY <1>7, AddLast DEF Post, DashInv, TypeOK, OneOwner, QueueInv, WorkerInv, MainInv, ObjectInv
  <2>6. QED
    BY <2>1, <2>2, <2>3, <2>4, <2>5, <1>t DEF DashInv
<1>8. ASSUME NEW w \in Worker, PostFails(w) PROVE DashInv'
  <2>1. OneOwner'
    BY <1>8 DEF PostFails, DashInv, TypeOK, OneOwner, ObjectInv
  <2>2. QueueInv'
    BY <1>8 DEF PostFails, DashInv, TypeOK, QueueInv, WorkerInv
  <2>3. WorkerInv'
    BY <1>8 DEF PostFails, DashInv, TypeOK, OneOwner, QueueInv, WorkerInv, MainInv, ObjectInv
  <2>4. MainInv'
    BY <1>8 DEF PostFails, DashInv, TypeOK, OneOwner, QueueInv, WorkerInv, MainInv, ObjectInv
  <2>5. ObjectInv'
    BY <1>8 DEF PostFails, DashInv, TypeOK, OneOwner, QueueInv, WorkerInv, MainInv, ObjectInv
  <2>6. QED
    BY <2>1, <2>2, <2>3, <2>4, <2>5, <1>t DEF DashInv
<1>9. ASSUME NEW w \in Worker, WaitSucceeds(w) PROVE DashInv'
  <2>1. OneOwner'
    BY <1>9 DEF WaitSucceeds, DashInv, TypeOK, OneOwner, ObjectInv
  <2>2. QueueInv'
    BY <1>9 DEF WaitSucceeds, DashInv, TypeOK, QueueInv, WorkerInv
  <2>3. WorkerInv'
    BY <1>9 DEF WaitSucceeds, DashInv, TypeOK, OneOwner, QueueInv, WorkerInv, MainInv, ObjectInv
  <2>4. MainInv'
    BY <1>9 DEF WaitSucceeds, DashInv, TypeOK, OneOwner, QueueInv, WorkerInv, MainInv, ObjectInv
  <2>5. ObjectInv'
    BY <1>9 DEF WaitSucceeds, DashInv, TypeOK, OneOwner, QueueInv, WorkerInv, MainInv, ObjectInv
  <2>6. QED
    BY <2>1, <2>2, <2>3, <2>4, <2>5, <1>t DEF DashInv
<1>10. ASSUME NEW w \in Worker, WaitExpires(w) PROVE DashInv'
  <2>1. OneOwner'
    BY <1>10 DEF WaitExpires, DashInv, TypeOK, OneOwner, ObjectInv
  <2>2. QueueInv'
    BY <1>10 DEF WaitExpires, DashInv, TypeOK, QueueInv, WorkerInv
  <2>3. WorkerInv'
    BY <1>10 DEF WaitExpires, DashInv, TypeOK, OneOwner, QueueInv, WorkerInv, MainInv, ObjectInv
  <2>4. MainInv'
    BY <1>10 DEF WaitExpires, DashInv, TypeOK, OneOwner, QueueInv, WorkerInv, MainInv, ObjectInv
  <2>5. ObjectInv'
    BY <1>10 DEF WaitExpires, DashInv, TypeOK, OneOwner, QueueInv, WorkerInv, MainInv, ObjectInv
  <2>6. QED
    BY <2>1, <2>2, <2>3, <2>4, <2>5, <1>t DEF DashInv
<1>11. ASSUME NEW w \in Worker, Collect(w) PROVE DashInv'
  <2>1. OneOwner'
    BY <1>11 DEF Collect, DashInv, TypeOK, OneOwner, ObjectInv
  <2>2. QueueInv'
    BY <1>11 DEF Collect, DashInv, TypeOK, QueueInv, WorkerInv
  <2>3. WorkerInv'
    BY <1>11 DEF Collect, DashInv, TypeOK, OneOwner, QueueInv, WorkerInv, MainInv, ObjectInv
  <2>4. MainInv'
    BY <1>11 DEF Collect, DashInv, TypeOK, OneOwner, QueueInv, WorkerInv, MainInv, ObjectInv
  <2>5. ObjectInv'
    BY <1>11 DEF Collect, DashInv, TypeOK, OneOwner, QueueInv, WorkerInv, MainInv, ObjectInv
  <2>6. QED
    BY <2>1, <2>2, <2>3, <2>4, <2>5, <1>t DEF DashInv
<1>12. ASSUME NEW w \in Worker, DeleteOp(w) PROVE DashInv'
  <2>1. OneOwner'
    BY <1>12 DEF DeleteOp, DashInv, TypeOK, OneOwner, ObjectInv
  <2>2. QueueInv'
    BY <1>12 DEF DeleteOp, DashInv, TypeOK, QueueInv, WorkerInv
  <2>3. WorkerInv'
    BY <1>12 DEF DeleteOp, DashInv, TypeOK, OneOwner, QueueInv, WorkerInv, MainInv, ObjectInv
  <2>4. MainInv'
    BY <1>12 DEF DeleteOp, DashInv, TypeOK, OneOwner, QueueInv, WorkerInv, MainInv, ObjectInv
  <2>5. ObjectInv'
    BY <1>12 DEF DeleteOp, DashInv, TypeOK, OneOwner, QueueInv, WorkerInv, MainInv, ObjectInv
  <2>6. QED
    BY <2>1, <2>2, <2>3, <2>4, <2>5, <1>t DEF DashInv
<1>13. ASSUME NEW w \in Worker, Abandon(w) PROVE DashInv'
  <2>1. OneOwner'
    BY <1>13 DEF Abandon, DashInv, TypeOK, OneOwner, ObjectInv
  <2>2. QueueInv'
    BY <1>13 DEF Abandon, DashInv, TypeOK, QueueInv, WorkerInv
  <2>3. WorkerInv'
    BY <1>13 DEF Abandon, DashInv, TypeOK, OneOwner, QueueInv, WorkerInv, MainInv, ObjectInv
  <2>4. MainInv'
    BY <1>13 DEF Abandon, DashInv, TypeOK, OneOwner, QueueInv, WorkerInv, MainInv, ObjectInv
  <2>5. ObjectInv'
    BY <1>13 DEF Abandon, DashInv, TypeOK, OneOwner, QueueInv, WorkerInv, MainInv, ObjectInv
  <2>6. QED
    BY <2>1, <2>2, <2>3, <2>4, <2>5, <1>t DEF DashInv
<1>14. CASE Take
  <2>1. OneOwner'
    BY <1>14, TakeFirst DEF Take, DashInv, TypeOK, OneOwner, ObjectInv
  <2>2. QueueInv'
    BY <1>14, TakeFirst DEF Take, DashInv, TypeOK, QueueInv, WorkerInv
  <2>3. WorkerInv'
    BY <1>14, TakeFirst DEF Take, DashInv, TypeOK, OneOwner, QueueInv, WorkerInv, MainInv, ObjectInv
  <2>4. MainInv'
    BY <1>14, TakeFirst DEF Take, DashInv, TypeOK, OneOwner, QueueInv, WorkerInv, MainInv, ObjectInv
  <2>5. ObjectInv'
    BY <1>14, TakeFirst DEF Take, DashInv, TypeOK, OneOwner, QueueInv, WorkerInv, MainInv, ObjectInv
  <2>6. QED
    BY <2>1, <2>2, <2>3, <2>4, <2>5, <1>t DEF DashInv
<1>15. CASE ApplyEdit
  <2>1. OneOwner'
    BY <1>15 DEF ApplyEdit, DashInv, TypeOK, OneOwner, ObjectInv
  <2>2. QueueInv'
    BY <1>15 DEF ApplyEdit, DashInv, TypeOK, QueueInv, WorkerInv
  <2>3. WorkerInv'
    BY <1>15 DEF ApplyEdit, DashInv, TypeOK, OneOwner, QueueInv, WorkerInv, MainInv, ObjectInv
  <2>4. MainInv'
    BY <1>15 DEF ApplyEdit, DashInv, TypeOK, OneOwner, QueueInv, WorkerInv, MainInv, ObjectInv
  <2>5. ObjectInv'
    BY <1>15 DEF ApplyEdit, DashInv, TypeOK, OneOwner, QueueInv, WorkerInv, MainInv, ObjectInv
  <2>6. QED
    BY <2>1, <2>2, <2>3, <2>4, <2>5, <1>t DEF DashInv
<1>16. CASE ApplyFire
  <2>1. OneOwner'
    BY <1>16 DEF ApplyFire, DashInv, TypeOK, OneOwner, ObjectInv
  <2>2. QueueInv'
    BY <1>16 DEF ApplyFire, DashInv, TypeOK, QueueInv, WorkerInv
  <2>3. WorkerInv'
    BY <1>16 DEF ApplyFire, DashInv, TypeOK, OneOwner, QueueInv, WorkerInv, MainInv, ObjectInv
  <2>4. MainInv'
    BY <1>16 DEF ApplyFire, DashInv, TypeOK, OneOwner, QueueInv, WorkerInv, MainInv, ObjectInv
  <2>5. ObjectInv'
    BY <1>16 DEF ApplyFire, DashInv, TypeOK, OneOwner, QueueInv, WorkerInv, MainInv, ObjectInv
  <2>6. QED
    BY <2>1, <2>2, <2>3, <2>4, <2>5, <1>t DEF DashInv
<1>17. CASE LeaveForReload
  <2>1. OneOwner'
    BY <1>17 DEF LeaveForReload, DashInv, TypeOK, OneOwner, ObjectInv
  <2>2. QueueInv'
    BY <1>17 DEF LeaveForReload, DashInv, TypeOK, QueueInv, WorkerInv
  <2>3. WorkerInv'
    BY <1>17 DEF LeaveForReload, DashInv, TypeOK, OneOwner, QueueInv, WorkerInv, MainInv, ObjectInv
  <2>4. MainInv'
    BY <1>17 DEF LeaveForReload, DashInv, TypeOK, OneOwner, QueueInv, WorkerInv, MainInv, ObjectInv
  <2>5. ObjectInv'
    BY <1>17 DEF LeaveForReload, DashInv, TypeOK, OneOwner, QueueInv, WorkerInv, MainInv, ObjectInv
  <2>6. QED
    BY <2>1, <2>2, <2>3, <2>4, <2>5, <1>t DEF DashInv
<1>18. CASE Reenter
  <2>1. OneOwner'
    BY <1>18 DEF Reenter, DashInv, TypeOK, OneOwner, ObjectInv
  <2>2. QueueInv'
    BY <1>18 DEF Reenter, DashInv, TypeOK, QueueInv, WorkerInv
  <2>3. WorkerInv'
    BY <1>18 DEF Reenter, DashInv, TypeOK, OneOwner, QueueInv, WorkerInv, MainInv, ObjectInv
  <2>4. MainInv'
    BY <1>18 DEF Reenter, DashInv, TypeOK, OneOwner, QueueInv, WorkerInv, MainInv, ObjectInv
  <2>5. ObjectInv'
    BY <1>18 DEF Reenter, DashInv, TypeOK, OneOwner, QueueInv, WorkerInv, MainInv, ObjectInv
  <2>6. QED
    BY <2>1, <2>2, <2>3, <2>4, <2>5, <1>t DEF DashInv
<1>19. CASE ApplyReload
  <2>1. OneOwner'
    BY <1>19 DEF ApplyReload, DashInv, TypeOK, OneOwner, ObjectInv
  <2>2. QueueInv'
    BY <1>19 DEF ApplyReload, DashInv, TypeOK, QueueInv, WorkerInv
  <2>3. WorkerInv'
    BY <1>19 DEF ApplyReload, DashInv, TypeOK, OneOwner, QueueInv, WorkerInv, MainInv, ObjectInv
  <2>4. MainInv'
    BY <1>19 DEF ApplyReload, DashInv, TypeOK, OneOwner, QueueInv, WorkerInv, MainInv, ObjectInv
  <2>5. ObjectInv'
    BY <1>19 DEF ApplyReload, DashInv, TypeOK, OneOwner, QueueInv, WorkerInv, MainInv, ObjectInv
  <2>6. QED
    BY <2>1, <2>2, <2>3, <2>4, <2>5, <1>t DEF DashInv
<1>20. CASE Reject
  <2>1. OneOwner'
    BY <1>20 DEF Reject, DashInv, TypeOK, OneOwner, ObjectInv
  <2>2. QueueInv'
    BY <1>20 DEF Reject, DashInv, TypeOK, QueueInv, WorkerInv
  <2>3. WorkerInv'
    BY <1>20 DEF Reject, DashInv, TypeOK, OneOwner, QueueInv, WorkerInv, MainInv, ObjectInv
  <2>4. MainInv'
    BY <1>20 DEF Reject, DashInv, TypeOK, OneOwner, QueueInv, WorkerInv, MainInv, ObjectInv
  <2>5. ObjectInv'
    BY <1>20 DEF Reject, DashInv, TypeOK, OneOwner, QueueInv, WorkerInv, MainInv, ObjectInv
  <2>6. QED
    BY <2>1, <2>2, <2>3, <2>4, <2>5, <1>t DEF DashInv
<1>21. CASE Persist
  <2>1. OneOwner'
    BY <1>21 DEF Persist, DashInv, TypeOK, OneOwner, ObjectInv
  <2>2. QueueInv'
    BY <1>21 DEF Persist, DashInv, TypeOK, QueueInv, WorkerInv
  <2>3. WorkerInv'
    BY <1>21 DEF Persist, DashInv, TypeOK, OneOwner, QueueInv, WorkerInv, MainInv, ObjectInv
  <2>4. MainInv'
    BY <1>21 DEF Persist, DashInv, TypeOK, OneOwner, QueueInv, WorkerInv, MainInv, ObjectInv
  <2>5. ObjectInv'
    BY <1>21 DEF Persist, DashInv, TypeOK, OneOwner, QueueInv, WorkerInv, MainInv, ObjectInv
  <2>6. QED
    BY <2>1, <2>2, <2>3, <2>4, <2>5, <1>t DEF DashInv
<1>22. CASE ReadTimedOut
  <2>1. OneOwner'
    BY <1>22 DEF ReadTimedOut, DashInv, TypeOK, OneOwner, ObjectInv
  <2>2. QueueInv'
    BY <1>22 DEF ReadTimedOut, DashInv, TypeOK, QueueInv, WorkerInv
  <2>3. WorkerInv'
    BY <1>22 DEF ReadTimedOut, DashInv, TypeOK, OneOwner, QueueInv, WorkerInv, MainInv, ObjectInv
  <2>4. MainInv'
    BY <1>22 DEF ReadTimedOut, DashInv, TypeOK, OneOwner, QueueInv, WorkerInv, MainInv, ObjectInv
  <2>5. ObjectInv'
    BY <1>22 DEF ReadTimedOut, DashInv, TypeOK, OneOwner, QueueInv, WorkerInv, MainInv, ObjectInv
  <2>6. QED
    BY <2>1, <2>2, <2>3, <2>4, <2>5, <1>t DEF DashInv
<1>23. CASE Signal
  <2>1. OneOwner'
    BY <1>23 DEF Signal, DashInv, TypeOK, OneOwner, ObjectInv
  <2>2. QueueInv'
    BY <1>23 DEF Signal, DashInv, TypeOK, QueueInv, WorkerInv
  <2>3. WorkerInv'
    BY <1>23 DEF Signal, DashInv, TypeOK, OneOwner, QueueInv, WorkerInv, MainInv, ObjectInv
  <2>4. MainInv'
    BY <1>23 DEF Signal, DashInv, TypeOK, OneOwner, QueueInv, WorkerInv, MainInv, ObjectInv
  <2>5. ObjectInv'
    BY <1>23 DEF Signal, DashInv, TypeOK, OneOwner, QueueInv, WorkerInv, MainInv, ObjectInv
  <2>6. QED
    BY <2>1, <2>2, <2>3, <2>4, <2>5, <1>t DEF DashInv
<1>24. CASE Dispose
  <2>1. OneOwner'
    BY <1>24 DEF Dispose, DashInv, TypeOK, OneOwner, ObjectInv
  <2>2. QueueInv'
    BY <1>24 DEF Dispose, DashInv, TypeOK, QueueInv, WorkerInv
  <2>3. WorkerInv'
    BY <1>24 DEF Dispose, DashInv, TypeOK, OneOwner, QueueInv, WorkerInv, MainInv, ObjectInv
  <2>4. MainInv'
    BY <1>24 DEF Dispose, DashInv, TypeOK, OneOwner, QueueInv, WorkerInv, MainInv, ObjectInv
  <2>5. ObjectInv'
    BY <1>24 DEF Dispose, DashInv, TypeOK, OneOwner, QueueInv, WorkerInv, MainInv, ObjectInv
  <2>6. QED
    BY <2>1, <2>2, <2>3, <2>4, <2>5, <1>t DEF DashInv
<1>25. CASE Exit
  <2>1. OneOwner'
    BY <1>25 DEF Exit, DashInv, TypeOK, OneOwner, ObjectInv
  <2>2. QueueInv'
    BY <1>25 DEF Exit, DashInv, TypeOK, QueueInv, WorkerInv
  <2>3. WorkerInv'
    BY <1>25 DEF Exit, DashInv, TypeOK, OneOwner, QueueInv, WorkerInv, MainInv, ObjectInv
  <2>4. MainInv'
    BY <1>25 DEF Exit, DashInv, TypeOK, OneOwner, QueueInv, WorkerInv, MainInv, ObjectInv
  <2>5. ObjectInv'
    BY <1>25 DEF Exit, DashInv, TypeOK, OneOwner, QueueInv, WorkerInv, MainInv, ObjectInv
  <2>6. QED
    BY <2>1, <2>2, <2>3, <2>4, <2>5, <1>t DEF DashInv
<1>26. CASE Finished
  BY <1>26 DEF Finished, vars, DashInv, TypeOK, OneOwner, QueueInv, WorkerInv, MainInv, ObjectInv
<1>27. CASE UNCHANGED vars
  BY <1>27 DEF vars, DashInv, TypeOK, OneOwner, QueueInv, WorkerInv, MainInv, ObjectInv
<1>28. QED
  BY <1>1, <1>2, <1>3, <1>4, <1>5, <1>6, <1>7, <1>8, <1>9, <1>10, <1>11, <1>12, <1>13, <1>14, <1>15, <1>16, <1>17, <1>18, <1>19, <1>20, <1>21, <1>22, <1>23, <1>24, <1>25, <1>26, <1>27 DEF Next, WorkerNext, WorkerStep, MainNext, Locked

(***************************************************************************)
(* DashInv holds in every state.                                           *)
(***************************************************************************)
LEMMA DashInvariant == Spec => []DashInv
<1>1. ASSUME Init PROVE DashInv
  <2>1. queue \in Seq(Op)
    BY <1>1 DEF Init
  <2>2. TypeOK
    BY <1>1, <2>1, DashOpAssumption DEF Init, TypeOK
  <2>3. 1..Len(queue) = {}
    BY <1>1 DEF Init
  <2>4. QED
    BY <1>1, <2>2, <2>3, DashOpAssumption
    DEF Init, DashInv, OneOwner, QueueInv, WorkerInv, MainInv, ObjectInv, Queued, Handling
<1>2. QED
  BY <1>1, InvStep, PTL DEF Spec

(***************************************************************************)
(* Every variable of DashOp keeps its type, and a thread has an operation  *)
(* in hand exactly while it serves one.                                    *)
(***************************************************************************)
THEOREM TypeCorrect == Spec => []TypeOK
  BY DashInvariant, PTL DEF DashInv

(***************************************************************************)
(* RunDashOp and WM_DASH_OP use no operation after it was freed and free   *)
(* none twice, whatever times out.                                         *)
(***************************************************************************)
THEOREM NoUseAfterFree == Spec => []OpsAreLive
<1>1. DashInv => OpsAreLive
  BY DEF DashInv, TypeOK, OneOwner, QueueInv, WorkerInv, MainInv, ObjectInv, OpsAreLive, MainTouches, Handling, Queued
<1>2. QED
  BY <1>1, DashInvariant, PTL

(***************************************************************************)
(* Every step of DashOp is a step of OperationService or changes neither   *)
(* how an operation was performed nor what its caller was told.            *)
(***************************************************************************)
LEMMA ServiceStep == DashInv /\ [Next]_vars => [Service!Next]_(Service!vars)
<1> SUFFICES ASSUME DashInv, [Next]_vars PROVE [Service!Next]_(Service!vars)
  OBVIOUS
<1>t. TypeOK /\ TypeOK'
  BY TypeStep DEF DashInv
<1> USE DashOpAssumption, <1>t DEF Go, worker, object, main, config, ghost, Handling
<1>1. ASSUME NEW w \in Worker, NEW o \in Op, Receive(w, o) PROVE [Service!Next]_(Service!vars)
  <2>1. o \in Op /\ answer[o] = "none"
    BY <1>1 DEF Receive, DashInv, TypeOK, WorkerInv, ObjectInv
  <2>2. outcome[o] = "none"
    BY <1>1, <2>1 DEF Receive, DashInv, TypeOK, WorkerInv, MainInv, ObjectInv, outcome
  <2>3. outcome' = [outcome EXCEPT ![o] = "pending"]
    <3>1. outcome = [q \in Op |-> outcome[q]] /\ outcome' = [q \in Op |-> outcome'[q]]
      BY Zenon DEF outcome
    <3>2. \A q \in Op : q # o => outcome'[q] = outcome[q]
      BY <1>1, <2>1, <2>2 DEF Receive, TypeOK, outcome
    <3>3. outcome'[o] = "pending"
      BY <1>1, <2>1, <2>2 DEF Receive, TypeOK, outcome
    <3>4. QED
      BY <2>1, <3>1, <3>2, <3>3
  <2>4. Service!Call(o)
    BY <1>1, <2>1, <2>2, <2>3 DEF Receive, TypeOK, Service!Call
  <2>5. QED
    BY <2>1, <2>4 DEF Service!Next
<1>2. ASSUME NEW w \in Worker, WriteImport(w) PROVE [Service!Next]_(Service!vars)
  BY <1>2 DEF WriteImport, DashInv, TypeOK, QueueInv, WorkerInv, MainInv, Service!vars, outcome
<1>3. ASSUME NEW w \in Worker, WriteImportFails(w) PROVE [Service!Next]_(Service!vars)
  <2>1. wop[w] \in Op /\ answer[wop[w]] = "open"
    BY <1>3 DEF WriteImportFails, DashInv, TypeOK, WorkerInv, ObjectInv
  <2>2. outcome[wop[w]] = "pending"
    BY <1>3, <2>1 DEF WriteImportFails, DashInv, TypeOK, WorkerInv, MainInv, ObjectInv, outcome
  <2>3. outcome' = [outcome EXCEPT ![wop[w]] = "refused"]
    <3>1. outcome = [q \in Op |-> outcome[q]] /\ outcome' = [q \in Op |-> outcome'[q]]
      BY Zenon DEF outcome
    <3>2. \A q \in Op : q # wop[w] => outcome'[q] = outcome[q]
      BY <1>3, <2>1, <2>2 DEF WriteImportFails, TypeOK, outcome
    <3>3. outcome'[wop[w]] = "refused"
      BY <1>3, <2>1, <2>2 DEF WriteImportFails, TypeOK, outcome
    <3>4. QED
      BY <2>1, <3>1, <3>2, <3>3
  <2>4. Service!Refuse(wop[w])
    BY <1>3, <2>1, <2>2, <2>3 DEF WriteImportFails, TypeOK, Service!Refuse
  <2>5. QED
    BY <2>1, <2>4 DEF Service!Next
<1>4. ASSUME NEW w \in Worker, CreateEdit(w) PROVE [Service!Next]_(Service!vars)
  BY <1>4 DEF CreateEdit, DashInv, TypeOK, QueueInv, WorkerInv, MainInv, Service!vars, outcome
<1>5. ASSUME NEW w \in Worker, CreateSave(w) PROVE [Service!Next]_(Service!vars)
  <2>1. wop[w] \in Op
    BY <1>5 DEF CreateSave, DashInv, TypeOK, WorkerInv, ObjectInv
  <2>2. outcome[wop[w]] = "pending"
    BY <1>5, <2>1 DEF CreateSave, DashInv, TypeOK, WorkerInv, MainInv, ObjectInv, outcome
  <2>3. \E r \in {"done", "failed"} : outcome' = [outcome EXCEPT ![wop[w]] = r]
    <3>1. outcome = [q \in Op |-> outcome[q]] /\ outcome' = [q \in Op |-> outcome'[q]]
      BY Zenon DEF outcome
    <3>2. \A q \in Op : q # wop[w] => outcome'[q] = outcome[q]
      BY <1>5, <2>1, <2>2 DEF CreateSave, TypeOK, outcome
    <3>3. outcome'[wop[w]] \in {"done", "failed"}
      BY <1>5, <2>1, <2>2 DEF CreateSave, TypeOK, outcome
    <3>4. QED
      BY <2>1, <3>1, <3>2, <3>3
  <2>4. Service!Perform(wop[w])
    BY <1>5, <2>1, <2>2, <2>3 DEF CreateSave, TypeOK, Service!Perform
  <2>5. QED
    BY <2>1, <2>4 DEF Service!Next
<1>6. ASSUME NEW w \in Worker, CreateReply(w) PROVE [Service!Next]_(Service!vars)
  <2>1. wop[w] \in Op /\ answer[wop[w]] = "open"
    BY <1>6 DEF CreateReply, DashInv, TypeOK, WorkerInv, ObjectInv
  <2>2. outcome[wop[w]] = IF success[wop[w]] THEN "done" ELSE "failed"
    BY <1>6, <2>1 DEF CreateReply, DashInv, TypeOK, WorkerInv, MainInv, ObjectInv, outcome
  <2>3. outcome' = outcome
    BY <1>6, <2>1, <2>2 DEF CreateReply, TypeOK, outcome
  <2>4. Service!Answer(wop[w])
    BY <1>6, <2>1, <2>2, <2>3 DEF CreateReply, TypeOK, Service!Answer
  <2>5. QED
    BY <2>1, <2>4 DEF Service!Next
<1>7. ASSUME NEW w \in Worker, Post(w) PROVE [Service!Next]_(Service!vars)
  BY <1>7 DEF Post, DashInv, TypeOK, QueueInv, WorkerInv, MainInv, Service!vars, outcome
<1>8. ASSUME NEW w \in Worker, PostFails(w) PROVE [Service!Next]_(Service!vars)
  <2>1. wop[w] \in Op /\ answer[wop[w]] = "open"
    BY <1>8 DEF PostFails, DashInv, TypeOK, WorkerInv, ObjectInv
  <2>2. outcome[wop[w]] = "pending"
    BY <1>8, <2>1 DEF PostFails, DashInv, TypeOK, WorkerInv, MainInv, ObjectInv, outcome
  <2>3. outcome' = [outcome EXCEPT ![wop[w]] = "refused"]
    <3>1. outcome = [q \in Op |-> outcome[q]] /\ outcome' = [q \in Op |-> outcome'[q]]
      BY Zenon DEF outcome
    <3>2. \A q \in Op : q # wop[w] => outcome'[q] = outcome[q]
      BY <1>8, <2>1, <2>2 DEF PostFails, TypeOK, outcome
    <3>3. outcome'[wop[w]] = "refused"
      BY <1>8, <2>1, <2>2 DEF PostFails, TypeOK, outcome
    <3>4. QED
      BY <2>1, <3>1, <3>2, <3>3
  <2>4. Service!Refuse(wop[w])
    BY <1>8, <2>1, <2>2, <2>3 DEF PostFails, TypeOK, Service!Refuse
  <2>5. QED
    BY <2>1, <2>4 DEF Service!Next
<1>9. ASSUME NEW w \in Worker, WaitSucceeds(w) PROVE [Service!Next]_(Service!vars)
  BY <1>9 DEF WaitSucceeds, DashInv, TypeOK, QueueInv, WorkerInv, MainInv, Service!vars, outcome
<1>10. ASSUME NEW w \in Worker, WaitExpires(w) PROVE [Service!Next]_(Service!vars)
  BY <1>10 DEF WaitExpires, DashInv, TypeOK, QueueInv, WorkerInv, MainInv, Service!vars, outcome
<1>11. ASSUME NEW w \in Worker, Collect(w) PROVE [Service!Next]_(Service!vars)
  <2>1. wop[w] \in Op /\ answer[wop[w]] = "open"
    BY <1>11 DEF Collect, DashInv, TypeOK, WorkerInv, ObjectInv
  <2>2. outcome[wop[w]] = IF success[wop[w]] THEN "done" ELSE "failed"
    BY <1>11, <2>1 DEF Collect, DashInv, TypeOK, WorkerInv, MainInv, ObjectInv, outcome
  <2>3. outcome' = outcome
    BY <1>11, <2>1, <2>2 DEF Collect, TypeOK, outcome
  <2>4. Service!Answer(wop[w])
    BY <1>11, <2>1, <2>2, <2>3 DEF Collect, TypeOK, Service!Answer
  <2>5. QED
    BY <2>1, <2>4 DEF Service!Next
<1>12. ASSUME NEW w \in Worker, DeleteOp(w) PROVE [Service!Next]_(Service!vars)
  BY <1>12 DEF DeleteOp, DashInv, TypeOK, QueueInv, WorkerInv, MainInv, Service!vars, outcome
<1>13. ASSUME NEW w \in Worker, Abandon(w) PROVE [Service!Next]_(Service!vars)
  <2>1. wop[w] \in Op /\ answer[wop[w]] = "open"
    BY <1>13 DEF Abandon, DashInv, TypeOK, WorkerInv, ObjectInv
  <2>2. success[wop[w]] \in BOOLEAN
    BY <1>13, <2>1 DEF Abandon, DashInv, TypeOK, WorkerInv, MainInv, ObjectInv, outcome
  <2>3. outcome' = outcome
    BY <1>13, <2>1, <2>2 DEF Abandon, TypeOK, outcome
  <2>4. Service!GiveUp(wop[w])
    BY <1>13, <2>1, <2>2, <2>3 DEF Abandon, TypeOK, Service!GiveUp
  <2>5. QED
    BY <2>1, <2>4 DEF Service!Next
<1>14. CASE Take
  BY <1>14, TakeFirst DEF Take, DashInv, TypeOK, QueueInv, WorkerInv, MainInv, Service!vars, outcome
<1>15. CASE ApplyEdit
  BY <1>15 DEF ApplyEdit, DashInv, TypeOK, QueueInv, WorkerInv, MainInv, Service!vars, outcome
<1>16. CASE ApplyFire
  <2>1. mop \in Op
    BY <1>16 DEF ApplyFire, DashInv, TypeOK, WorkerInv, ObjectInv
  <2>2. outcome[mop] = "pending"
    BY <1>16, <2>1 DEF ApplyFire, DashInv, TypeOK, WorkerInv, MainInv, ObjectInv, outcome
  <2>3. outcome' = [outcome EXCEPT ![mop] = "done"]
    <3>1. outcome = [q \in Op |-> outcome[q]] /\ outcome' = [q \in Op |-> outcome'[q]]
      BY Zenon DEF outcome
    <3>2. \A q \in Op : q # mop => outcome'[q] = outcome[q]
      BY <1>16, <2>1, <2>2 DEF ApplyFire, TypeOK, outcome
    <3>3. outcome'[mop] = "done"
      BY <1>16, <2>1, <2>2 DEF ApplyFire, TypeOK, outcome
    <3>4. QED
      BY <2>1, <3>1, <3>2, <3>3
  <2>4. Service!Perform(mop)
    BY <1>16, <2>1, <2>2, <2>3 DEF ApplyFire, TypeOK, Service!Perform
  <2>5. QED
    BY <2>1, <2>4 DEF Service!Next
<1>17. CASE LeaveForReload
  BY <1>17 DEF LeaveForReload, DashInv, TypeOK, QueueInv, WorkerInv, MainInv, Service!vars, outcome
<1>18. CASE Reenter
  BY <1>18 DEF Reenter, DashInv, TypeOK, QueueInv, WorkerInv, MainInv, Service!vars, outcome
<1>19. CASE ApplyReload
  <2>1. mop \in Op
    BY <1>19 DEF ApplyReload, DashInv, TypeOK, WorkerInv, ObjectInv
  <2>2. outcome[mop] = "pending"
    BY <1>19, <2>1 DEF ApplyReload, DashInv, TypeOK, WorkerInv, MainInv, ObjectInv, outcome
  <2>3. \E r \in {"done", "failed"} : outcome' = [outcome EXCEPT ![mop] = r]
    <3>1. outcome = [q \in Op |-> outcome[q]] /\ outcome' = [q \in Op |-> outcome'[q]]
      BY Zenon DEF outcome
    <3>2. \A q \in Op : q # mop => outcome'[q] = outcome[q]
      BY <1>19, <2>1, <2>2 DEF ApplyReload, TypeOK, outcome
    <3>3. outcome'[mop] \in {"done", "failed"}
      BY <1>19, <2>1, <2>2 DEF ApplyReload, TypeOK, outcome
    <3>4. QED
      BY <2>1, <3>1, <3>2, <3>3
  <2>4. Service!Perform(mop)
    BY <1>19, <2>1, <2>2, <2>3 DEF ApplyReload, TypeOK, Service!Perform
  <2>5. QED
    BY <2>1, <2>4 DEF Service!Next
<1>20. CASE Reject
  <2>1. mop \in Op
    BY <1>20 DEF Reject, DashInv, TypeOK, WorkerInv, ObjectInv
  <2>2. outcome[mop] = "pending"
    BY <1>20, <2>1 DEF Reject, DashInv, TypeOK, WorkerInv, MainInv, ObjectInv, outcome
  <2>3. outcome' = [outcome EXCEPT ![mop] = "failed"]
    <3>1. outcome = [q \in Op |-> outcome[q]] /\ outcome' = [q \in Op |-> outcome'[q]]
      BY Zenon DEF outcome
    <3>2. \A q \in Op : q # mop => outcome'[q] = outcome[q]
      BY <1>20, <2>1, <2>2 DEF Reject, TypeOK, outcome
    <3>3. outcome'[mop] = "failed"
      BY <1>20, <2>1, <2>2 DEF Reject, TypeOK, outcome, DashInv, MainInv
    <3>4. QED
      BY <2>1, <3>1, <3>2, <3>3
  <2>4. Service!Perform(mop)
    BY <1>20, <2>1, <2>2, <2>3 DEF Reject, TypeOK, Service!Perform
  <2>5. QED
    BY <2>1, <2>4 DEF Service!Next
<1>21. CASE Persist
  <2>1. mop \in Op
    BY <1>21 DEF Persist, DashInv, TypeOK, WorkerInv, ObjectInv
  <2>2. outcome[mop] = "pending"
    BY <1>21, <2>1 DEF Persist, DashInv, TypeOK, WorkerInv, MainInv, ObjectInv, outcome
  <2>3. \E r \in {"done", "failed"} : outcome' = [outcome EXCEPT ![mop] = r]
    <3>1. outcome = [q \in Op |-> outcome[q]] /\ outcome' = [q \in Op |-> outcome'[q]]
      BY Zenon DEF outcome
    <3>2. \A q \in Op : q # mop => outcome'[q] = outcome[q]
      BY <1>21, <2>1, <2>2 DEF Persist, TypeOK, outcome
    <3>3. outcome'[mop] \in {"done", "failed"}
      BY <1>21, <2>1, <2>2 DEF Persist, TypeOK, outcome
    <3>4. QED
      BY <2>1, <3>1, <3>2, <3>3
  <2>4. Service!Perform(mop)
    BY <1>21, <2>1, <2>2, <2>3 DEF Persist, TypeOK, Service!Perform
  <2>5. QED
    BY <2>1, <2>4 DEF Service!Next
<1>22. CASE ReadTimedOut
  BY <1>22 DEF ReadTimedOut, DashInv, TypeOK, QueueInv, WorkerInv, MainInv, Service!vars, outcome
<1>23. CASE Signal
  BY <1>23 DEF Signal, DashInv, TypeOK, QueueInv, WorkerInv, MainInv, Service!vars, outcome
<1>24. CASE Dispose
  BY <1>24 DEF Dispose, DashInv, TypeOK, QueueInv, WorkerInv, MainInv, Service!vars, outcome
<1>25. CASE Exit
  BY <1>25 DEF Exit, DashInv, TypeOK, QueueInv, WorkerInv, MainInv, Service!vars, outcome
<1>26. CASE Finished
  BY <1>26 DEF Finished, vars, DashInv, TypeOK, QueueInv, WorkerInv, MainInv, Service!vars, outcome
<1>27. CASE UNCHANGED vars
  BY <1>27 DEF vars, DashInv, TypeOK, QueueInv, WorkerInv, MainInv, Service!vars, outcome
<1>28. QED
  BY <1>1, <1>2, <1>3, <1>4, <1>5, <1>6, <1>7, <1>8, <1>9, <1>10, <1>11, <1>12, <1>13, <1>14, <1>15, <1>16, <1>17, <1>18, <1>19, <1>20, <1>21, <1>22, <1>23, <1>24, <1>25, <1>26, <1>27 DEF Next, WorkerNext, WorkerStep, MainNext, Locked

(***************************************************************************)
(* DashOp implements OperationService.                                     *)
(***************************************************************************)
THEOREM ImplementsService == Spec => ServiceSpec
<1>1. Init => Service!Init
  BY DEF Init, Service!Init, outcome
<1>2. QED
  BY <1>1, DashInvariant, ServiceStep, PTL DEF Spec, ServiceSpec, Service!Spec

(***************************************************************************)
(* What FileHoldsMemory becomes while the main thread handles a message:   *)
(* nothing is said between an edit of the main thread and its write, and   *)
(* an import no longer waits once its reload is taken.                     *)
(***************************************************************************)
Agree == mem = file \/ diverged \/ ImportPending \/ CreatePending

FileInv ==
  /\ mpc \in {"pump", "epilogue", "signal", "dispose", "exited"} => Agree
  /\ mpc \in {"apply", "reenter", "reload"} => Agree \/ Kind[mop] = "import"
  /\ \A w \in Worker : wpc[w] = "write" => Kind[wop[w]] = "import"

(* A step that takes no import or creation away and leaves the files alone keeps Agree. *)
LEMMA PendingStays ==
  ASSUME TypeOK, TypeOK', UNCHANGED config,
         \A i \in 1..Len(queue) : Kind[queue[i]] = "import" =>
           \E j \in 1..Len(queue') : queue'[j] = queue[i],
         \A w \in Worker : wpc[w] = "post" /\ Kind[wop[w]] = "import" =>
           \/ wpc'[w] = "post" /\ wop'[w] = wop[w]
           \/ \E j \in 1..Len(queue') : queue'[j] = wop[w],
         \A w \in Worker : wpc[w] = "unsaved" => wpc'[w] = "unsaved"
  PROVE  Agree => Agree'
  <1>1. SUFFICES ASSUME ImportPending PROVE ImportPending'
    BY DEF Agree, config, CreatePending
  <1>2. PICK o \in Op : Kind[o] = "import" /\ (Queued(o) \/ \E w \in Worker : wop[w] = o /\ wpc[w] = "post")
    BY <1>1 DEF ImportPending
  <1>3. Queued(o)' \/ \E w \in Worker : wop'[w] = o /\ wpc'[w] = "post"
    BY <1>2 DEF Queued
  <1>4. QED
    BY <1>2, <1>3 DEF ImportPending, Queued

(***************************************************************************)
(* Every step preserves FileInv.                                           *)
(***************************************************************************)
LEMMA FileStep == TypeOK /\ TypeOK' /\ FileInv /\ [Next]_vars => FileInv'
<1> SUFFICES ASSUME TypeOK, TypeOK', FileInv, [Next]_vars PROVE FileInv'
  OBVIOUS
<1> USE DEF Go, worker, object, main, config, ghost
<1>1. ASSUME NEW w \in Worker, NEW o \in Op, Receive(w, o) PROVE FileInv'
  <2>1. Agree => Agree'
    BY <1>1, PendingStays DEF Receive, TypeOK, Queued
  <2>2. QED
    BY <1>1, <2>1 DEF Receive, TypeOK, FileInv
<1>2. ASSUME NEW w \in Worker, WriteImport(w) PROVE FileInv'
  <2>1. Agree'
    BY <1>2 DEF WriteImport, TypeOK, FileInv, Agree, ImportPending
  <2>2. QED
    BY <1>2, <2>1 DEF WriteImport, TypeOK, FileInv
<1>3. ASSUME NEW w \in Worker, WriteImportFails(w) PROVE FileInv'
  <2>1. Agree => Agree'
    BY <1>3, PendingStays DEF WriteImportFails, TypeOK, Queued
  <2>2. QED
    BY <1>3, <2>1 DEF WriteImportFails, TypeOK, FileInv
<1>4. ASSUME NEW w \in Worker, CreateEdit(w) PROVE FileInv'
  <2>1. CreatePending'
    BY <1>4 DEF CreateEdit, TypeOK, CreatePending
  <2>2. QED
    BY <1>4, <2>1 DEF CreateEdit, TypeOK, FileInv, Agree
<1>5. ASSUME NEW w \in Worker, CreateSave(w) PROVE FileInv'
  <2>1. Agree'
    BY <1>5 DEF CreateSave, Agree
  <2>2. QED
    BY <1>5, <2>1 DEF CreateSave, TypeOK, FileInv
<1>6. ASSUME NEW w \in Worker, CreateReply(w) PROVE FileInv'
  <2>1. Agree => Agree'
    BY <1>6, PendingStays DEF CreateReply, TypeOK, Queued
  <2>2. QED
    BY <1>6, <2>1 DEF CreateReply, TypeOK, FileInv
<1>7. ASSUME NEW w \in Worker, Post(w) PROVE FileInv'
  <2>1. Agree => Agree'
    BY <1>7, PendingStays, AddLast DEF Post, TypeOK, Queued
  <2>2. QED
    BY <1>7, <2>1 DEF Post, TypeOK, FileInv
<1>8. ASSUME NEW w \in Worker, PostFails(w) PROVE FileInv'
  <2>1. Agree => Agree'
    <3>1. CASE Kind[wop[w]] = "import"
      BY <1>8, <3>1 DEF PostFails, Agree
    <3>2. CASE Kind[wop[w]] # "import"
      BY <1>8, <3>2, PendingStays DEF PostFails, TypeOK, Queued
    <3>3. QED
      BY <3>1, <3>2
  <2>2. QED
    BY <1>8, <2>1 DEF PostFails, TypeOK, FileInv
<1>9. ASSUME NEW w \in Worker, WaitSucceeds(w) PROVE FileInv'
  <2>1. Agree => Agree'
    BY <1>9, PendingStays DEF WaitSucceeds, TypeOK, Queued
  <2>2. QED
    BY <1>9, <2>1 DEF WaitSucceeds, TypeOK, FileInv
<1>10. ASSUME NEW w \in Worker, WaitExpires(w) PROVE FileInv'
  <2>1. Agree => Agree'
    BY <1>10, PendingStays DEF WaitExpires, TypeOK, Queued
  <2>2. QED
    BY <1>10, <2>1 DEF WaitExpires, TypeOK, FileInv
<1>11. ASSUME NEW w \in Worker, Collect(w) PROVE FileInv'
  <2>1. Agree => Agree'
    BY <1>11, PendingStays DEF Collect, TypeOK, Queued
  <2>2. QED
    BY <1>11, <2>1 DEF Collect, TypeOK, FileInv
<1>12. ASSUME NEW w \in Worker, DeleteOp(w) PROVE FileInv'
  <2>1. Agree => Agree'
    BY <1>12, PendingStays DEF DeleteOp, TypeOK, Queued
  <2>2. QED
    BY <1>12, <2>1 DEF DeleteOp, TypeOK, FileInv
<1>13. ASSUME NEW w \in Worker, Abandon(w) PROVE FileInv'
  <2>1. Agree => Agree'
    BY <1>13, PendingStays DEF Abandon, TypeOK, Queued
  <2>2. QED
    BY <1>13, <2>1 DEF Abandon, TypeOK, FileInv
<1>14. CASE Take
  <2>1. Agree => Agree' \/ Kind[mop'] = "import"
    <3>1. SUFFICES ASSUME Kind[mop'] # "import" PROVE Agree => Agree'
      OBVIOUS
    <3>2. queue \in Seq(Op) /\ queue # <<>> /\ mop' = queue[1] /\ queue' = Tail(queue)
      BY <1>14, TakeFirst DEF Take, TypeOK
    <3>3. ASSUME NEW i \in 1..Len(queue), i # 1
          PROVE  \E j \in 1..Len(queue') : queue'[j] = queue[i]
      <4>1. i - 1 \in 1..Len(queue') /\ queue'[i - 1] = queue[i]
        BY <3>2, <3>3
      <4>2. QED
        BY <4>1
    <3>4. QED
      BY <1>14, <3>1, <3>2, <3>3, PendingStays DEF Take
  <2>2. QED
    BY <1>14, <2>1 DEF Take, TypeOK, FileInv
<1>15. CASE ApplyEdit
  BY <1>15 DEF ApplyEdit, TypeOK, FileInv
<1>16. CASE ApplyFire
  <2>1. Agree => Agree'
    BY <1>16, PendingStays DEF ApplyFire, TypeOK, Queued
  <2>2. QED
    BY <1>16, <2>1 DEF ApplyFire, TypeOK, FileInv
<1>17. CASE LeaveForReload
  <2>1. Agree => Agree'
    BY <1>17, PendingStays DEF LeaveForReload, TypeOK, Queued
  <2>2. QED
    BY <1>17, <2>1 DEF LeaveForReload, TypeOK, FileInv
<1>18. CASE Reenter
  <2>1. Agree => Agree'
    BY <1>18, PendingStays DEF Reenter, TypeOK, Queued
  <2>2. QED
    BY <1>18, <2>1 DEF Reenter, TypeOK, FileInv
<1>19. CASE ApplyReload
  BY <1>19 DEF ApplyReload, TypeOK, FileInv, Agree
<1>20. CASE Reject
  <2>1. Agree => Agree'
    BY <1>20, PendingStays DEF Reject, TypeOK, Queued
  <2>2. QED
    BY <1>20, <2>1 DEF Reject, TypeOK, FileInv
<1>21. CASE Persist
  BY <1>21 DEF Persist, TypeOK, FileInv, Agree
<1>22. CASE ReadTimedOut
  <2>1. Agree => Agree'
    BY <1>22, PendingStays DEF ReadTimedOut, TypeOK, Queued
  <2>2. QED
    BY <1>22, <2>1 DEF ReadTimedOut, TypeOK, FileInv
<1>23. CASE Signal
  <2>1. Agree => Agree'
    BY <1>23, PendingStays DEF Signal, TypeOK, Queued
  <2>2. QED
    BY <1>23, <2>1 DEF Signal, TypeOK, FileInv
<1>24. CASE Dispose
  <2>1. Agree => Agree'
    BY <1>24, PendingStays DEF Dispose, TypeOK, Queued
  <2>2. QED
    BY <1>24, <2>1 DEF Dispose, TypeOK, FileInv
<1>25. CASE Exit
  <2>1. Agree => Agree'
    BY <1>25, PendingStays DEF Exit, TypeOK, Queued
  <2>2. QED
    BY <1>25, <2>1 DEF Exit, TypeOK, FileInv
<1>26. CASE Finished \/ UNCHANGED vars
  BY <1>26 DEF Finished, vars, FileInv, Agree, ImportPending, CreatePending, Queued
<1>27. QED
  BY <1>1, <1>2, <1>3, <1>4, <1>5, <1>6, <1>7, <1>8, <1>9, <1>10, <1>11, <1>12, <1>13, <1>14, <1>15, <1>16, <1>17, <1>18, <1>19, <1>20, <1>21, <1>22, <1>23, <1>24, <1>25, <1>26 DEF Next, WorkerNext, WorkerStep, MainNext, Locked

(***************************************************************************)
(* Between two messages config.ini holds what the program runs on, unless  *)
(* a read, a write or a post failed, an import waits for its reload or a   *)
(* created application for its write, whatever callers time out.           *)
(***************************************************************************)
THEOREM FileAndMemoryAgree == Spec => []FileHoldsMemory
<1>1. Init => FileInv
  BY DEF Init, FileInv, Agree
<1>2. Spec => []FileInv
  BY <1>1, TypeCorrect, FileStep, PTL DEF Spec
<1>3. FileInv => FileHoldsMemory
  BY DEF FileInv, Agree, FileHoldsMemory
<1>4. QED
  BY <1>2, <1>3, PTL
=============================================================================
