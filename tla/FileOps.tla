------------------------------ MODULE FileOps ------------------------------
(***************************************************************************)
(* Uploads to, deletions from and the fork into one sandbox of the browser *)
(* demo (file-upload.js, file-deletion.js, their dialogs and fork in       *)
(* src.js).  The checks are made before an await and the IndexedDB         *)
(* transaction commits after it.  A tab refuses a second upload to the     *)
(* sandbox meanwhile; it does not refuse one while a fork still fills the  *)
(* sandbox, and the tabs share the database and know nothing of one        *)
(* another.                                                                *)
(***************************************************************************)
EXTENDS FiniteSets

CONSTANTS
    Path,
    Upload,     \* calls of uploadFiles
    Page        \* the tabs they are made in

VARIABLES
    files,      \* IndexedDB: the paths stored for the sandbox
    status,     \* the sandbox: "Active" or "Suspend"
    call,       \* step, entries, mode, confirmed keys and keys read, per upload, the
                \* page it is made in and, as history, the paths that a fork or
                \* another page's upload wrote since its keys were read
    deleting,   \* paths whose deletion is awaited
    forking     \* paths the fork that made the sandbox has still to write
fileVars == <<files, status, call, deleting, forking>>

NoPage == "none"
NoCall == [step |-> "none", page |-> NoPage, entries |-> {}, mode |-> "skip", confirmed |-> {},
           present |-> {}, arrived |-> {}]

(* A fork makes its sandbox, empty, in the same turn in which it begins to *)
(* fill it; any other sandbox may hold anything by now.                    *)
FilesInit ==
    /\ files \in SUBSET Path /\ forking \in SUBSET Path /\ (forking # {} => files = {})
    /\ status = "Active" /\ call = [u \in Upload |-> NoCall] /\ deleting = {}

OnlyWriting(u) == call[u].step = "writing"
Pending(u) == call[u].step \in {"reading", "writing"}
SamePage(u, other) == call[u].page = call[other].page
InTheWay(u) == \E other \in Upload \ {u} : SamePage(u, other) /\ Pending(other)

-----------------------------------------------------------------------------
(* upload: the conflicts are looked up; without any it goes on as "skip".  *)
Choose(u, page, entries) ==
    /\ call[u].step = "none" /\ status # "Suspend" /\ entries # {}
    /\ LET conflicts == entries \cap files
       IN  call' = [call EXCEPT ![u] =
              [NoCall EXCEPT !.step = IF conflicts = {} THEN "asking" ELSE "confirming",
                             !.page = page, !.entries = entries, !.confirmed = conflicts]]
    /\ UNCHANGED <<files, status, deleting, forking>>
(* chooseOverwrite: the user skips, overwrites what is listed, or cancels. *)
Answer(u, mode) ==
    /\ call[u].step = "confirming"
    /\ call' = [call EXCEPT ![u] = IF mode = "cancel" THEN NoCall
                                   ELSE [@ EXCEPT !.step = "asking", !.mode = mode]]
    /\ UNCHANGED <<files, status, deleting, forking>>

(* uploadFiles up to its first await: refused while the tab has another    *)
(* upload to the sandbox pending, or the sandbox is suspended.             *)
BeginUpload(u) ==
    /\ call[u].step = "asking"
    /\ call' = [call EXCEPT ![u] = IF InTheWay(u) \/ status = "Suspend" THEN NoCall
                                   ELSE [@ EXCEPT !.step = "reading"]]
    /\ UNCHANGED <<files, status, deleting, forking>>
(* The keys are read: a conflict nobody confirmed goes back to the user.   *)
Unconfirmed(u) == (call[u].entries \cap files) \ call[u].confirmed
NeverAgain(u) == FALSE
MustReconfirm(u) == call[u].mode = "overwrite" /\ Unconfirmed(u) # {}
ReadKeys(u) ==
    /\ call[u].step = "reading"
    /\ call' = [call EXCEPT ![u] =
          IF MustReconfirm(u)
          THEN [@ EXCEPT !.step = "confirming", !.confirmed = call[u].entries \cap files]
          ELSE [@ EXCEPT !.step = "writing", !.present = files, !.arrived = {}]]
    /\ UNCHANGED <<files, status, deleting, forking>>
(* What one writer puts there arrives, unseen, for the uploads that have   *)
(* read their keys and do not know of that writer.                         *)
Arrive(calls, unaware, paths) ==
    [v \in Upload |-> IF v \in unaware /\ calls[v].step = "writing"
                      THEN [calls[v] EXCEPT !.arrived = @ \cup paths] ELSE calls[v]]

(* The transaction commits, or aborts and leaves every file as it was.     *)
Entries(u) == IF call[u].mode = "skip" THEN call[u].entries \ call[u].present
              ELSE call[u].entries
WriteFiles(u) ==
    /\ call[u].step = "writing" /\ files' = files \cup Entries(u)
    /\ call' = Arrive([call EXCEPT ![u] = NoCall], {v \in Upload : ~SamePage(u, v)}, Entries(u))
    /\ UNCHANGED <<status, deleting, forking>>
AbortWrite(u) ==
    /\ call[u].step = "writing" /\ call' = [call EXCEPT ![u] = NoCall]
    /\ UNCHANGED <<files, status, deleting, forking>>

(* fork: the source's files are put one by one, each awaited, with no look *)
(* at what is there; an error ends the loop and is swallowed.              *)
ForkPuts(p) ==
    /\ p \in forking /\ forking' = forking \ {p} /\ files' = files \cup {p}
    /\ call' = Arrive(call, Upload, {p})
    /\ UNCHANGED <<status, deleting>>
ForkFails ==
    /\ forking # {} /\ forking' = {} /\ UNCHANGED <<files, status, call, deleting>>

(* deleteFile: one deletion of a file at a time, then its transaction.     *)
BeginDelete(p) ==
    /\ p \in files \ deleting /\ status # "Suspend" /\ deleting' = deleting \cup {p}
    /\ UNCHANGED <<files, status, call, forking>>
EndDelete(p, committed) ==
    /\ p \in deleting /\ deleting' = deleting \ {p}
    /\ files' = IF committed THEN files \ {p} ELSE files
    /\ UNCHANGED <<status, call, forking>>
Switch ==
    /\ status' = IF status = "Active" THEN "Suspend" ELSE "Active"
    /\ UNCHANGED <<files, call, deleting, forking>>

FilesNext ==
    \/ Switch \/ ForkFails
    \/ \E p \in Path : ForkPuts(p)
    \/ \E p \in Path : BeginDelete(p) \/ \E committed \in BOOLEAN : EndDelete(p, committed)
    \/ \E u \in Upload :
          \/ \E page \in Page, entries \in SUBSET Path : Choose(u, page, entries)
          \/ \E mode \in {"skip", "overwrite", "cancel"} : Answer(u, mode)
          \/ BeginUpload(u) \/ ReadKeys(u) \/ WriteFiles(u) \/ AbortWrite(u)
FilesSpec == FilesInit /\ [][FilesNext]_fileVars

-----------------------------------------------------------------------------
(* A file that is there when an upload commits is replaced only if the     *)
(* user confirmed it for that upload, whatever appeared, was deleted or    *)
(* was suspended while the upload waited (uploadFiles) - with two          *)
(* exceptions, both in the window between the reading of its keys and its  *)
(* commit, which the pending set does not close for them: a file that the  *)
(* fork which fills the sandbox put there (src.js:63), and one that an     *)
(* upload of another page wrote.  file-upload.js:32 and the README name    *)
(* neither.                                                                *)
OverwriteSeen ==
    [][\A u \in Upload :
          WriteFiles(u) =>
             files \cap Entries(u) \subseteq call[u].confirmed \cup call[u].arrived]_fileVars
=============================================================================
