----------------------------- MODULE VaultSession -----------------------------
(***************************************************************************)
(* The browser portal's session (browser/vault/session.ts): the books and  *)
(* their key in memory, the sealed copy in the browser's storage           *)
(* (vault/idb.ts), the vault files downloaded, and the operations under    *)
(* way.  An operation awaits the key, the cipher and the storage; between  *)
(* its steps other operations run, as far as the buttons allow.            *)
(*                                                                         *)
(* Books are the vault they were created in and the changes made to them;  *)
(* a vault stands for its own key as well, the key of its password.        *)
(***************************************************************************)
EXTENDS Integers, FiniteSets

CONSTANTS
  Vaults,     \* the sets of books that may be created
  Changes,    \* the changes that may be made, each once
  Tasks,      \* bound: operations under way at once
  MaxMade,    \* bound: sets of books created and changes made
  MaxFiles,   \* bound: vault files downloaded
  FirstTask,  \* the task of the first reading of the storage
  None

ASSUME VaultAssumption ==
  /\ FirstTask \in Tasks
  /\ MaxMade \in Nat /\ MaxFiles \in Nat
  /\ None \notin Vaults

Books == [vault : Vaults, changes : SUBSET Changes]
Sealed == [key : Vaults, books : Books]
Kinds == {"hydrate", "create", "unlockLocal", "unlockFile", "change", "import",
          "download", "forget"}
Phases == {"working", "loaded", "delivered", "stored", "refused", "unanswered"}
Task == [kind : Kinds, phase : Phases,
         key : Vaults \cup {None}, books : Books \cup {None}]
Session == [status : {"locked", "open"}, books : Books \cup {None},
            material : Vaults \cup {None}, localName : Vaults \cup {None},
            backupStale : BOOLEAN, storageWarning : BOOLEAN, busy : BOOLEAN]

ASSUME NoneAssumption == None \notin Books \cup Sealed \cup Task

VARIABLES
  session,      \* what the page holds in memory
  stored,       \* the sealed vault in the browser's storage
  files,        \* the vault files downloaded so far
  tasks,        \* the operations under way
  made,         \* history: the vaults created and the changes made
  beside,       \* history: the changes begun while a download was under way
  safe,         \* history: the changes reported saved in the stored vault
  opened,       \* history: the books as they were last opened
  interrupted   \* history: Lock or Remove overtook an operation, or was overtaken

vaultVars == <<session, stored, files, tasks, made, beside, safe, opened, interrupted>>

Fresh == [status |-> "locked", books |-> None, material |-> None, localName |-> None,
          backupStale |-> FALSE, storageWarning |-> FALSE, busy |-> FALSE]
Hydrating == [kind |-> "hydrate", phase |-> "working", key |-> None, books |-> None]
OnlyHydrating == [t \in Tasks |-> IF t = FirstTask THEN Hydrating ELSE None]

UnderWay == {t \in Tasks : tasks[t] # None}

VaultTypeOK ==
  /\ session \in Session
  /\ stored \in Sealed \cup {None}
  /\ files \subseteq Sealed
  /\ tasks \in [Tasks -> Task \cup {None}]
  /\ made \subseteq Vaults \cup Changes
  /\ beside \subseteq Changes /\ safe \subseteq Changes
  /\ opened \in Books \cup {None}
  /\ interrupted \in BOOLEAN

------------------------------------------------------------------------------
(* Starting an operation.  The gate shows while there are no books, and    *)
(* the buttons of both sides are disabled while the session is busy; only  *)
(* Lock and Remove are not, and a download does not make it busy.          *)

AtGate == session.books = None /\ ~session.busy
InBooks == session.books # None /\ session.material # None /\ ~session.busy

Removing == {t \in UnderWay : tasks[t].kind = "forget"}
Downloads == {t \in UnderWay : tasks[t].kind = "download" /\ tasks[t].phase # "unanswered"}

\* Once Lock or Remove overtook an operation, nothing more is remembered.
Overtake(over) ==
  /\ interrupted' = (interrupted \/ over # {})
  /\ safe' = IF over = {} THEN safe ELSE {}
  /\ opened' = IF over = {} THEN opened ELSE None

Start(t, kind, key, books, over) ==
  /\ tasks[t] = None
  /\ tasks' = [tasks EXCEPT ![t] =
       [kind |-> kind, phase |-> "working", key |-> key, books |-> books]]
  /\ Overtake(over)
  /\ UNCHANGED <<stored, files>>

\* A new identifier; which one is drawn makes no difference.
New(S) ==
  {x \in S \ made : x = (CHOOSE y \in S \ made : TRUE) /\ Cardinality(made) < MaxMade}

StartBusy(t, kind, key, books) ==
  /\ Start(t, kind, key, books, Removing)
  /\ session' = [session EXCEPT !.busy = TRUE]

CreateVault(t) ==
  /\ AtGate
  /\ \E v \in New(Vaults) :
       /\ StartBusy(t, "create", v, [vault |-> v, changes |-> {}])
       /\ made' = made \cup {v}
  /\ UNCHANGED beside

UnlockLocal(t) ==
  /\ AtGate /\ session.localName # None
  /\ StartBusy(t, "unlockLocal", None, None)
  /\ UNCHANGED <<made, beside>>

UnlockFile(t) ==
  /\ AtGate
  /\ \E f \in files : StartBusy(t, "unlockFile", f.key, f.books)
  /\ UNCHANGED <<made, beside>>

\* Slip: a change may start while another is being saved.
ChangeAnyTime(t) ==
  /\ session.books # None /\ session.material # None
  /\ \E kind \in {"change", "import"}, c \in New(Changes) :
       /\ StartBusy(t, kind, session.material,
                    [session.books EXCEPT !.changes = @ \cup {c}])
       /\ made' = made \cup {c}
       /\ beside' = IF Downloads = {} THEN beside ELSE beside \cup {c}

\* mutate, importFiles: the books and the key are read before the first await.
Change(t) ==
  /\ InBooks
  /\ \E kind \in {"change", "import"}, c \in New(Changes) :
       /\ StartBusy(t, kind, session.material,
                    [session.books EXCEPT !.changes = @ \cup {c}])
       /\ made' = made \cup {c}
       /\ beside' = IF Downloads = {} THEN beside ELSE beside \cup {c}

DownloadVault(t) ==
  /\ InBooks
  /\ Start(t, "download", session.material, session.books, Removing)
  /\ UNCHANGED <<session, made, beside>>

ForgetBrowser(t) ==
  /\ session.books # None
  /\ Start(t, "forget", None, None, UnderWay)
  /\ UNCHANGED <<session, made, beside>>

\* Slip: the key stays in memory.
LockBooksOnly ==
  /\ session.books # None
  /\ session' = [session EXCEPT !.status = "locked", !.books = None,
                                !.busy = FALSE, !.backupStale = FALSE]
  /\ Overtake(UnderWay)
  /\ UNCHANGED <<stored, files, tasks, made, beside>>

Lock ==
  /\ session.books # None
  /\ session' = [session EXCEPT !.status = "locked", !.books = None, !.material = None,
                                !.busy = FALSE, !.backupStale = FALSE]
  /\ Overtake(UnderWay)
  /\ UNCHANGED <<stored, files, tasks, made, beside>>

\* Closing or reloading the page; the shell then reads the storage once more.
CloseTab ==
  /\ session' = Fresh
  /\ tasks' = OnlyHydrating
  /\ opened' = None
  /\ UNCHANGED <<stored, files, made, beside, safe, interrupted>>

------------------------------------------------------------------------------
(* The steps of an operation under way. *)

Reaches(t, phase) == tasks' = [tasks EXCEPT ![t].phase = phase]
Ends(t) == tasks' = [tasks EXCEPT ![t] = None]
Answered(t) == tasks[t].phase \in {"stored", "refused"}

\* The messages that tell how far a key or a file is make the session busy again.
Progress(t) ==
  /\ tasks[t].kind \in {"create", "unlockLocal", "unlockFile", "import"}
  /\ tasks[t].phase \in {"working", "loaded"}
  /\ ~session.busy
  /\ session' = [session EXCEPT !.busy = TRUE]
  /\ UNCHANGED <<stored, files, tasks, made, beside, safe, opened, interrupted>>

\* idbLoad
Load(t) ==
  /\ tasks[t].kind \in {"hydrate", "unlockLocal"} /\ tasks[t].phase = "working"
  /\ stored = None => tasks[t].kind = "hydrate"
  /\ tasks' = [tasks EXCEPT ![t].phase = "loaded",
                            ![t].key = IF stored = None THEN None ELSE stored.key,
                            ![t].books = IF stored = None THEN None ELSE stored.books]
  /\ session' = IF tasks[t].kind = "hydrate" THEN session
                ELSE [session EXCEPT !.busy = TRUE]
  /\ UNCHANGED <<stored, files, made, beside, safe, opened, interrupted>>

\* downloadBytes: the file is out before the storage is asked.
Deliver(t) ==
  /\ tasks[t].kind = "download" /\ tasks[t].phase = "working"
  /\ Cardinality(files) < MaxFiles
  /\ files' = files \cup {[key |-> tasks[t].key, books |-> tasks[t].books]}
  /\ Reaches(t, "delivered")
  /\ UNCHANGED <<session, stored, made, beside, safe, opened, interrupted>>

Writing(t) ==
  \/ tasks[t].kind \in {"create", "unlockFile", "change", "import", "forget"}
     /\ tasks[t].phase = "working"
  \/ tasks[t].kind = "download" /\ tasks[t].phase = "delivered"

\* idbSave, idbForget: the storage's transaction completes,
Commit(t) ==
  /\ Writing(t)
  /\ stored' = IF tasks[t].kind = "forget" THEN None
               ELSE [key |-> tasks[t].key, books |-> tasks[t].books]
  /\ Reaches(t, "stored")
  /\ safe' = IF tasks[t].kind \in {"create", "unlockFile", "forget"} THEN {} ELSE safe
  /\ UNCHANGED <<session, files, made, beside, opened, interrupted>>

\* is answered with an error,
Refuse(t) ==
  /\ Writing(t) /\ tasks[t].kind # "forget"
  /\ Reaches(t, "refused")
  /\ UNCHANGED <<session, stored, files, made, beside, safe, opened, interrupted>>

\* or is aborted, which nobody listens for: the operation waits for ever.
Abort(t) ==
  /\ Writing(t)
  /\ Reaches(t, "unanswered")
  /\ UNCHANGED <<session, stored, files, made, beside, safe, opened, interrupted>>

\* Slip: an error leaves the session busy.
FailBusy(t) ==
  /\ tasks[t].phase \in {"working", "loaded"} /\ tasks[t].kind # "hydrate"
  /\ Ends(t)
  /\ UNCHANGED <<session, stored, files, made, beside, safe, opened, interrupted>>

\* A wrong password, nothing stored, a file that cannot be read, a cipher that fails.
Fail(t) ==
  /\ tasks[t].phase \in {"working", "loaded"}
  /\ tasks[t].kind = "hydrate" => tasks[t].phase = "working"
  /\ session' =
       CASE tasks[t].kind \in {"download", "forget"} -> session
         [] tasks[t].kind = "hydrate" ->
              IF session.books = None
              THEN [session EXCEPT !.status = "locked", !.localName = None]
              ELSE session
         [] OTHER -> [session EXCEPT !.busy = FALSE]
  /\ Ends(t)
  /\ UNCHANGED <<stored, files, made, beside, safe, opened, interrupted>>

FinishHydrate(t) ==
  /\ tasks[t].kind = "hydrate" /\ tasks[t].phase = "loaded"
  /\ session' = IF session.books # None THEN session
                ELSE [session EXCEPT !.status = "locked", !.localName = tasks[t].key]
  /\ Ends(t)
  /\ UNCHANGED <<stored, files, made, beside, safe, opened, interrupted>>

\* The end of createVault, unlockLocal and unlockFile.  What an older copy that
\* is opened lacks is safe no more.
FinishOpening(t) ==
  /\ \/ tasks[t].kind \in {"create", "unlockFile"} /\ Answered(t)
     \/ tasks[t].kind = "unlockLocal" /\ tasks[t].phase = "loaded"
  /\ session' = [status |-> "open", books |-> tasks[t].books, material |-> tasks[t].key,
                 localName |-> tasks[t].books.vault,
                 backupStale |-> tasks[t].kind = "create",
                 storageWarning |-> IF tasks[t].kind = "unlockLocal"
                                    THEN session.storageWarning
                                    ELSE tasks[t].phase = "refused",
                 busy |-> FALSE]
  /\ safe' = IF tasks[t].kind = "unlockLocal"
             THEN safe \ (beside \ tasks[t].books.changes)
             ELSE IF interrupted \/ tasks[t].phase = "refused" THEN {}
             ELSE tasks[t].books.changes
  /\ opened' = IF interrupted THEN None ELSE tasks[t].books
  /\ Ends(t)
  /\ UNCHANGED <<stored, files, made, beside, interrupted>>

\* Slip: the end of a change does not raise the reminder to download.
PutBackQuietly(t) ==
  /\ tasks[t].kind \in {"change", "import"} /\ Answered(t)
  /\ session' = [session EXCEPT !.books = tasks[t].books,
                                !.storageWarning = (tasks[t].phase = "refused"),
                                !.busy = FALSE]
  /\ safe' = IF interrupted \/ tasks[t].phase = "refused" THEN safe
             ELSE safe \cup tasks[t].books.changes
  /\ Ends(t)
  /\ UNCHANGED <<stored, files, made, beside, opened, interrupted>>

\* The end of mutate and importFiles.
FinishChange(t) ==
  /\ tasks[t].kind \in {"change", "import"} /\ Answered(t)
  /\ session' = [session EXCEPT !.books = tasks[t].books, !.backupStale = TRUE,
                                !.storageWarning = (tasks[t].phase = "refused"),
                                !.busy = FALSE]
  /\ safe' = IF interrupted \/ tasks[t].phase = "refused" THEN safe
             ELSE safe \cup tasks[t].books.changes
  /\ Ends(t)
  /\ UNCHANGED <<stored, files, made, beside, opened, interrupted>>

FinishDownload(t) ==
  /\ tasks[t].kind = "download" /\ Answered(t)
  /\ session' = [session EXCEPT !.backupStale = FALSE,
                                !.storageWarning = @ \/ tasks[t].phase = "refused"]
  /\ Ends(t)
  /\ UNCHANGED <<stored, files, made, beside, safe, opened, interrupted>>

FinishForget(t) ==
  /\ tasks[t].kind = "forget" /\ Answered(t)
  /\ session' = Fresh
  /\ Ends(t)
  /\ UNCHANGED <<stored, files, made, beside, safe, opened, interrupted>>

Finish(t) ==
  \/ FinishHydrate(t) \/ FinishOpening(t) \/ FinishChange(t)
  \/ FinishDownload(t) \/ FinishForget(t)

------------------------------------------------------------------------------

Init ==
  /\ session = Fresh /\ stored = None /\ files = {}
  /\ tasks = OnlyHydrating
  /\ made = {} /\ beside = {} /\ safe = {} /\ opened = None /\ interrupted = FALSE

Press(t) ==
  \/ CreateVault(t) \/ UnlockLocal(t) \/ UnlockFile(t)
  \/ Change(t) \/ DownloadVault(t) \/ ForgetBrowser(t)

Continue(t) ==
  /\ tasks[t] # None
  /\ \/ Load(t) \/ Deliver(t) \/ Commit(t) \/ Refuse(t) \/ Abort(t)
     \/ Fail(t) \/ Finish(t)

Next ==
  \/ \E t \in Tasks : Press(t) \/ Continue(t) \/ (tasks[t] # None /\ Progress(t))
  \/ Lock \/ CloseTab

VaultSpec == Init /\ [][Next]_vaultVars

\* The browser settles what an operation awaits and runs what follows it.
FairVaultSpec == VaultSpec /\ \A t \in Tasks : WF_vaultVars(Continue(t))

------------------------------------------------------------------------------
(* Properties.  Those about the session's contents are of a session in     *)
(* which nobody locked or removed while an operation was under way, or     *)
(* started one while the vault was being removed.                          *)

\* A change that was reported saved stays in the books in memory until they are
\* closed, whatever runs beside it: what mutate and importFiles read before they
\* wait is still current when they end.  It stays in the stored vault as well
\* until the user forgets the vault or puts another in its place, with one
\* exception: when a download was under way as the change was begun, the older
\* copy that downloadVault stores may come after it (session.ts:219).
NoSavedChangeIsLost ==
  ~interrupted =>
    /\ session.books # None => safe \subseteq session.books.changes
    /\ safe \ beside # {} => stored # None /\ safe \ beside \subseteq stored.books.changes

\* The books in memory are `books`, but for changes begun during a download.
SameButBeside(books) ==
  /\ books.vault = session.books.vault
  /\ books.changes \subseteq session.books.changes
  /\ session.books.changes \subseteq books.changes \cup beside

\* While nothing asks for a download, the books are as they were opened, or in a
\* file under their key: every end of a change raises backupStale.  The only
\* changes that may be in neither are those begun while a download was under
\* way, for its end lowers the reminder of them too (session.ts:223).
ReminderTellsOfChanges ==
  ~interrupted /\ session.books # None /\ ~session.backupStale =>
    \/ opened # None /\ SameButBeside(opened)
    \/ \E f \in files : f.key = session.material /\ SameButBeside(f.books)

\* The key is in memory exactly while the books it opens are, and what is stored
\* or downloaded is sealed with the key of its own books.
KeyGoesWithItsBooks ==
  ~interrupted =>
    /\ session.material = IF session.books = None THEN None ELSE session.books.vault
    /\ (session.status = "open") = (session.books # None)
    /\ \A s \in files \cup ({stored} \ {None}) : s.key = s.books.vault

\* However operations overlap, the buttons come back: each end of an operation,
\* failed or not, clears busy.  Only a write the storage aborts, which idbSave
\* does not listen for, leaves them disabled.
ButtonsComeBack ==
  session.busy ~> (~session.busy \/ \E t \in UnderWay : tasks[t].phase = "unanswered")
=============
