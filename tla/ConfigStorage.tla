---------------------------- MODULE ConfigStorage ----------------------------
(***************************************************************************)
(* config.ini on disk: WriteConfig and AtomicWriteUtf8 step by step, the   *)
(* loads at start-up and reload, failing system calls and crashes.         *)
(*                                                                         *)
(* The main thread edits the configuration in a DashOp, a worker in        *)
(* POST /applications/create; both edit under g_csProfile, leave it, and   *)
(* take it again in WriteConfig, which keeps it until the file is written. *)
(* A configuration is the set of edits it contains.                        *)
(***************************************************************************)
EXTENDS FiniteSets

CONSTANTS
  Main, Worker,  \* the main thread and the HTTP workers
  Edit,          \* the edits that may be made, each once
  NoEdit,        \* no edit in progress
  Nobody,        \* g_csProfile is free
  NoFile         \* a file that does not exist

ASSUME StorageAssumption ==
  Main \notin Worker /\ Nobody \notin Worker \cup {Main} /\ NoEdit \notin Edit

Thread == Worker \cup {Main}

Config == SUBSET Edit

(* A file: its content, and whether that is complete and flushed to the disk. *)
File == [content : Config, whole : BOOLEAN, flushed : BOOLEAN]

ASSUME FileAssumption == NoFile \notin File

VARIABLES
  target,     \* config.ini
  bak,        \* config.ini.bak
  temp,       \* the temporary file of the write in progress
  up,         \* the program runs
  memory,     \* the configuration it works with
  lock,       \* the owner of g_csProfile
  pc,         \* control of every thread
  edit,       \* the edit it is saving
  acked,      \* history: edits whose save was reported a success
  overtaken,  \* history: edits a reload dropped before their save began
  misread     \* history: a load did not get the configuration on disk

disk        == <<target, bak, temp>>
history     == <<acked, overtaken, misread>>
storageVars == <<disk, up, memory, lock, pc, edit, history>>

InWrite == {"create", "write", "flush", "verify", "place", "delbak", "rename", "swap", "move"}

StorageTypeOK ==
  /\ target \in File \cup {NoFile}
  /\ bak \in File \cup {NoFile}
  /\ temp \in File \cup {NoFile}
  /\ up \in BOOLEAN /\ misread \in BOOLEAN
  /\ memory \in Config
  /\ lock \in Thread \cup {Nobody}
  /\ pc \in [Thread -> InWrite \cup {"idle", "edited", "saved", "failed"}]
  /\ edit \in [Thread -> Edit \cup {NoEdit}]
  /\ acked \subseteq Edit /\ overtaken \subseteq Edit

OnDisk(c) == [content |-> c, whole |-> TRUE, flushed |-> TRUE]

StorageInit ==
  /\ target \in {NoFile, OnDisk({})}
  /\ bak = NoFile /\ temp = NoFile
  /\ up = FALSE /\ memory = {}
  /\ lock = Nobody
  /\ pc = [t \in Thread |-> "idle"]
  /\ edit = [t \in Thread |-> NoEdit]
  /\ acked = {} /\ overtaken = {} /\ misread = FALSE
-----------------------------------------------------------------------------
Goto(t, label) == pc' = [pc EXCEPT ![t] = label]

(* The configuration the disk can still give back. *)
Recoverable == IF target # NoFile THEN target ELSE bak

ContentOf(f) == IF f = NoFile THEN {} ELSE f.content

(***************************************************************************)
(* LoadConfig: the whole file; or the defaults, when it is missing or      *)
(* cannot be read; or as much of it as ReadFileContents got before a       *)
(* ReadFile failed.                                                        *)
(***************************************************************************)
Load ==
  /\ \/ target # NoFile /\ memory' = target.content
     \/ memory' \in SUBSET ContentOf(target)
  /\ misread' = (misread \/ memory' # ContentOf(Recoverable))

StartUp ==
  /\ ~up /\ up' = TRUE
  /\ Load
  /\ UNCHANGED <<disk, lock, pc, edit, acked, overtaken>>

(* ReloadConfig, by the main thread. *)
Reload ==
  /\ up /\ lock = Nobody /\ pc[Main] = "idle"
  /\ Load
  /\ overtaken' = overtaken \cup ({edit[t] : t \in {w \in Worker : pc[w] = "edited"}} \ memory')
  /\ UNCHANGED <<disk, up, lock, pc, edit, acked>>

(***************************************************************************)
(* The process dies, or the machine does: a file that was not flushed      *)
(* loses part of its data.  A temporary file left behind is never read.    *)
(***************************************************************************)
AfterCrash(f) == IF f = NoFile THEN f ELSE [f EXCEPT !.whole = @ /\ f.flushed]

Crash ==
  /\ up /\ up' = FALSE
  /\ memory' = {}
  /\ target' = AfterCrash(target) /\ bak' = AfterCrash(bak) /\ temp' = NoFile
  /\ lock' = Nobody
  /\ pc' = [t \in Thread |-> "idle"]
  /\ edit' = [t \in Thread |-> NoEdit]
  /\ UNCHANGED history
-----------------------------------------------------------------------------
MakeEdit(t, e) ==
  /\ up /\ lock = Nobody /\ pc[t] = "idle"
  /\ e \notin memory \cup acked \cup overtaken
  /\ memory' = memory \cup {e}
  /\ edit' = [edit EXCEPT ![t] = e]
  /\ Goto(t, "edited")
  /\ UNCHANGED <<disk, up, lock, history>>

(* WriteConfig takes the lock; the memory it writes cannot change until it leaves. *)
Enter(t) ==
  /\ pc[t] = "edited" /\ lock = Nobody
  /\ lock' = t
  /\ Goto(t, "create")
  /\ UNCHANGED <<disk, up, memory, edit, history>>

(* A system call of t's write fails: the temporary file is deleted. *)
GiveUp(t) ==
  /\ temp' = NoFile
  /\ Goto(t, "failed")
  /\ UNCHANGED <<target, bak, up, memory, lock, edit, history>>

CreateTemp(t) ==
  /\ pc[t] = "create"
  /\ temp' = [content |-> memory, whole |-> FALSE, flushed |-> FALSE]
  /\ Goto(t, "write")
  /\ UNCHANGED <<target, bak, up, memory, lock, edit, history>>

(* The data need not reach the file as they were written. *)
WriteTemp(t) ==
  /\ pc[t] = "write"
  /\ \E complete \in BOOLEAN : temp' = [temp EXCEPT !.whole = complete]
  /\ Goto(t, "flush")
  /\ UNCHANGED <<target, bak, up, memory, lock, edit, history>>

FlushTemp(t) ==
  /\ pc[t] = "flush"
  /\ temp' = [temp EXCEPT !.flushed = TRUE]
  /\ Goto(t, "verify")
  /\ UNCHANGED <<target, bak, up, memory, lock, edit, history>>

VerifyNothing(t) ==   \* mutant: the file is not read back
  /\ pc[t] = "verify"
  /\ Goto(t, "place")
  /\ UNCHANGED <<disk, up, memory, lock, edit, history>>

(* The file is read back and compared. *)
VerifyTemp(t) ==
  /\ pc[t] = "verify" /\ temp.whole
  /\ Goto(t, "place")
  /\ UNCHANGED <<disk, up, memory, lock, edit, history>>

Place(t) ==
  /\ pc[t] = "place"
  /\ Goto(t, IF target = NoFile THEN "move" ELSE "delbak")
  /\ UNCHANGED <<disk, up, memory, lock, edit, history>>

(* DeleteFileW, whose failure is ignored. *)
DeleteBak(t) ==
  /\ pc[t] = "delbak"
  /\ bak' \in {NoFile, bak}
  /\ Goto(t, "rename")
  /\ UNCHANGED <<target, temp, up, memory, lock, edit, history>>

RenameOverNothing(t) ==   \* mutant: the old file is deleted, not kept as the backup
  /\ pc[t] = "rename"
  /\ target' = NoFile
  /\ Goto(t, "swap")
  /\ UNCHANGED <<bak, temp, up, memory, lock, edit, history>>

(***************************************************************************)
(* ReplaceFileW renames config.ini to the backup, then the temporary file  *)
(* to config.ini.  Either may fail; after a failure MoveFileExW is tried.  *)
(* A rename is on the disk when it is done, which is more than ReplaceFileW*)
(* promises without REPLACEFILE_WRITE_THROUGH, should the power fail.      *)
(***************************************************************************)
Rename(t) ==
  /\ pc[t] = "rename"
  /\ bak' = target /\ target' = NoFile
  /\ Goto(t, "swap")
  /\ UNCHANGED <<temp, up, memory, lock, edit, history>>

ReplaceFails(t) ==
  /\ pc[t] \in {"rename", "swap"}
  /\ Goto(t, "move")
  /\ UNCHANGED <<disk, up, memory, lock, edit, history>>

(* The temporary file becomes config.ini. *)
MoveTemp(t) ==
  /\ pc[t] \in {"swap", "move"}
  /\ target' = temp /\ temp' = NoFile
  /\ Goto(t, "saved")
  /\ UNCHANGED <<bak, up, memory, lock, edit, history>>

CallFails(t) ==
  /\ pc[t] \in {"create", "write", "flush", "verify", "move"}
  /\ GiveUp(t)

LeaveBlindly(t) ==   \* mutant: the result is not looked at
  /\ pc[t] \in {"saved", "failed"}
  /\ lock' = Nobody
  /\ acked' = acked \cup {edit[t]}
  /\ edit' = [edit EXCEPT ![t] = NoEdit]
  /\ Goto(t, "idle")
  /\ UNCHANGED <<disk, up, memory, overtaken, misread>>

(* WriteConfig leaves the lock and its caller reports the result. *)
Leave(t) ==
  /\ pc[t] \in {"saved", "failed"}
  /\ lock' = Nobody
  /\ acked' = IF pc[t] = "saved" THEN acked \cup {edit[t]} ELSE acked
  /\ edit' = [edit EXCEPT ![t] = NoEdit]
  /\ Goto(t, "idle")
  /\ UNCHANGED <<disk, up, memory, overtaken, misread>>
-----------------------------------------------------------------------------
WriteStep(t) ==
  \/ Enter(t) \/ CreateTemp(t) \/ WriteTemp(t) \/ FlushTemp(t) \/ VerifyTemp(t)
  \/ Place(t) \/ DeleteBak(t) \/ Rename(t) \/ ReplaceFails(t) \/ MoveTemp(t)
  \/ CallFails(t) \/ Leave(t)

StorageNext ==
  \/ StartUp \/ Reload \/ Crash
  \/ \E t \in Thread : WriteStep(t) \/ \E e \in Edit : MakeEdit(t, e)

StorageSpec == StorageInit /\ [][StorageNext]_storageVars
-----------------------------------------------------------------------------
(***************************************************************************)
(* Neither a failed call nor a crash at any point leaves a partial         *)
(* config.ini or config.ini.bak, and only the holder of the lock writes.   *)
(***************************************************************************)
FilesAreWhole ==
  /\ \A f \in {target, bak} : f # NoFile => f.whole /\ f.flushed
  /\ \A t \in Thread : pc[t] \in InWrite => lock = t

StorageInv == StorageTypeOK /\ FilesAreWhole

(***************************************************************************)
(* An edit reported as saved stays on disk and in memory through failures, *)
(* restarts and reloads, unless a reload overtook its save or a load did   *)
(* not get the configuration that was there.                               *)
(***************************************************************************)
AckedEditsSurvive ==
  ~misread => /\ acked \ overtaken \subseteq ContentOf(Recoverable)
              /\ up => acked \ overtaken \subseteq memory

(***************************************************************************)
(* What makes the two inductive: how far the temporary file is when a      *)
(* thread is at each of its calls, that no other thread changes what it is *)
(* made of, and where an edit is until its save is reported.               *)
(***************************************************************************)
Placing == {"place", "delbak", "rename", "swap", "move"}

Progress(t) ==
  /\ pc[t] \in {"saved", "failed"} => lock = t
  /\ pc[t] \in {"write", "flush", "verify"} => temp \in File /\ temp.content = memory
  /\ pc[t] = "verify" => temp.flushed
  /\ pc[t] \in Placing => temp = OnDisk(memory)
  /\ pc[t] \in {"delbak", "rename"} => target # NoFile
  /\ pc[t] = "saved" => target = OnDisk(memory)

WriterInv ==
  /\ ~up => \A t \in Thread : pc[t] = "idle"
  /\ \A t \in Thread : Progress(t)

EditInv == \A t \in Thread : pc[t] # "idle" => edit[t] \in memory \cup overtaken

StorageIInv == StorageInv /\ WriterInv /\ EditInv /\ AckedEditsSurvive

(***************************************************************************)
(* The saves implement an atomic file, even where ReplaceFileW stops       *)
(* half-way: what the disk can give back is the old content or the new.    *)
(***************************************************************************)
Phase(t) == IF pc[t] \in InWrite THEN "writing"
            ELSE IF pc[t] \in {"saved", "failed"} THEN pc[t] ELSE "idle"

Save(t) == [phase   |-> Phase(t),
            content |-> IF Phase(t) = "idle" THEN NoFile ELSE OnDisk(memory)]

Saves == [t \in Thread |-> Save(t)]

Disk == INSTANCE AtomicFile WITH
  Caller <- Thread, Content <- {OnDisk(c) : c \in Config}, NoContent <- NoFile,
  file <- Recoverable, call <- Saves

WritesAreAtomic == Disk!Spec

(***************************************************************************)
(* What the comment in POST /applications/create says its answer means: an *)
(* edit reported as saved is on disk, whatever is reloaded meanwhile.      *)
(***************************************************************************)
CreatedIsSaved == ~misread => acked \subseteq ContentOf(Recoverable)
==============================================================================
