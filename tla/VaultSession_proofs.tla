-------------------------- MODULE VaultSession_proofs --------------------------
(***************************************************************************)
(* The browser's session keeps its types, and what it holds, what it       *)
(* stored and what it downloaded fit together in every session in which no *)
(* operation was overtaken, for any number of vaults, changes, operations  *)
(* and files.                                                              *)
(***************************************************************************)
EXTENDS VaultSession, TLAPS

Saving == {"create", "unlockFile", "change", "import", "download"}
Opening == {"create", "unlockLocal", "unlockFile"}
Changing == {"change", "import"}

\* What an operation carries: books and their key, once it has read or made them.
Carries(task) ==
  /\ task.kind \in Saving => task.books # None /\ task.key # None
  /\ (task.kind = "unlockLocal" /\ task.phase = "loaded") => task.books # None
  /\ task.kind \in {"unlockLocal", "hydrate"} => task.phase \in {"working", "loaded"}

CarriesBooks == \A t \in Tasks : tasks[t] # None => Carries(tasks[t])

\* The books are under their own key;
HasKey(task) == task.books # None => task.key = task.books.vault

\* an operation on the books is on those in memory: they are what it read, but
\* for the changes made beside a download;
ReadIsCurrent(task) ==
  /\ task.kind \in Changing =>
       /\ session.books # None
       /\ session.books.vault = task.books.vault
       /\ session.books.changes \subseteq task.books.changes
  /\ task.kind = "download" =>
       /\ session.books # None
       /\ session.books.vault = task.books.vault
       /\ task.books.changes \subseteq session.books.changes
       /\ task.phase # "unanswered" =>
            session.books.changes \subseteq task.books.changes \cup beside
  /\ task.kind \in Opening => session.books = None

\* what it has written or loaded is what is stored, where no download may
\* overwrite it,
WrittenIsStored(task) ==
  /\ (task.kind \in {"create", "unlockFile"} /\ task.phase = "stored") =>
       (stored # None /\ stored.books = task.books)
  /\ (task.kind = "unlockLocal" /\ task.phase = "loaded") =>
       (stored # None /\ stored.books = task.books)
  /\ (task.kind \in Changing /\ task.phase = "stored") =>
       (stored # None /\ task.books.changes \ beside \subseteq stored.books.changes)

\* and what it has delivered is a file.
DeliveredIsFile(task) ==
  (task.kind = "download" /\ task.phase \in {"delivered", "stored", "refused"}) =>
    [key |-> task.key, books |-> task.books] \in files

KeepsBusy(task) == task.kind \in Opening \cup Changing => session.busy

TaskFits(task) ==
  /\ HasKey(task) /\ ReadIsCurrent(task) /\ WrittenIsStored(task)
  /\ DeliveredIsFile(task) /\ KeepsBusy(task)

TasksFit == \A t \in Tasks : tasks[t] # None => TaskFits(tasks[t])

\* The first reading of the storage may overlap anything, and a download another
\* download, or a change that knows of it; the rest overlap nothing.
Beside(download, change) ==
  /\ download.kind = "download" /\ change.kind \in Changing
  /\ download.phase # "unanswered" =>
       change.books.changes \subseteq download.books.changes \cup beside

MayOverlap(one, other) ==
  \/ "hydrate" \in {one.kind, other.kind}
  \/ one.kind = "download" /\ other.kind = "download"
  \/ Beside(one, other) \/ Beside(other, one)

OverlapsFit ==
  \A t, u \in Tasks : t # u /\ tasks[t] # None /\ tasks[u] # None =>
    MayOverlap(tasks[t], tasks[u])

SealedFit ==
  /\ \A s \in files : s.key = s.books.vault
  /\ stored # None => stored.key = stored.books.vault

SessionFits ==
  /\ session.material = IF session.books = None THEN None ELSE session.books.vault
  /\ (session.status = "open") = (session.books # None)

SafeIsKept ==
  /\ session.books # None => safe \subseteq session.books.changes
  /\ safe \ beside # {} => stored # None /\ safe \ beside \subseteq stored.books.changes

Reminded ==
  session.books # None /\ ~session.backupStale =>
    \/ opened # None /\ SameButBeside(opened)
    \/ \E f \in files : f.key = session.material /\ SameButBeside(f.books)

\* The inductive invariant.
Fits == OverlapsFit /\ TasksFit /\ SealedFit /\ SessionFits /\ SafeIsKept /\ Reminded
Undisturbed == ~interrupted => Fits

------------------------------------------------------------------------------
(* Types. *)

(* A change to the session's fields leaves a session. *)
LEMMA SessionType ==
  ASSUME NEW s \in Session
  PROVE  /\ s.status \in {"locked", "open"} /\ s.books \in Books \cup {None}
         /\ s.material \in Vaults \cup {None} /\ s.localName \in Vaults \cup {None}
         /\ s.backupStale \in BOOLEAN /\ s.storageWarning \in BOOLEAN /\ s.busy \in BOOLEAN
         /\ [s EXCEPT !.busy = TRUE] \in Session
         /\ [s EXCEPT !.busy = FALSE] \in Session
  BY DEF Session

(* What an operation under way is. *)
LEMMA TaskType ==
  ASSUME VaultTypeOK, CarriesBooks, NEW t \in Tasks, tasks[t] # None
  PROVE  /\ tasks[t] \in Task
         /\ tasks[t].kind \in Kinds /\ tasks[t].phase \in Phases
         /\ tasks[t].key \in Vaults \cup {None} /\ tasks[t].books \in Books \cup {None}
         /\ Carries(tasks[t])
  <1>1. tasks \in [Tasks -> Task \cup {None}]
    BY DEF VaultTypeOK
  <1>2. tasks[t] \in Task
    BY <1>1
  <1>3. Carries(tasks[t])
    BY DEF CarriesBooks
  <1>4. QED
    BY <1>2, <1>3 DEF Task

(* An operation that starts carries what it read. *)
LEMMA StartTypes ==
  ASSUME VaultTypeOK, CarriesBooks, NEW t \in Tasks, NEW kind \in Kinds,
         NEW key \in Vaults \cup {None}, NEW books \in Books \cup {None},
         NEW over, Start(t, kind, key, books, over),
         kind \in Saving => books # None /\ key # None,
         session' \in Session, made' \subseteq Vaults \cup Changes, beside' \subseteq Changes
  PROVE  VaultTypeOK' /\ CarriesBooks'
  <1> DEFINE started == [kind |-> kind, phase |-> "working", key |-> key, books |-> books]
  <1>1. started \in Task
    BY DEF Task, Phases
  <1>2. tasks \in [Tasks -> Task \cup {None}]
    BY DEF VaultTypeOK
  <1>3. tasks' = [tasks EXCEPT ![t] = started]
    BY DEF Start
  <1>4. Carries(started)
    BY DEF Carries
  <1> HIDE DEF started
  <1>5. tasks' \in [Tasks -> Task \cup {None}]
    BY <1>1, <1>2, <1>3
  <1>6. CarriesBooks'
    <2> SUFFICES ASSUME NEW u \in Tasks, tasks'[u] # None PROVE Carries(tasks'[u])
      BY DEF CarriesBooks
    <2>1. CASE u = t
      BY <2>1, <1>2, <1>3, <1>4
    <2>2. CASE u # t
      BY <2>2, <1>2, <1>3 DEF CarriesBooks
    <2>3. QED
      BY <2>1, <2>2
  <1>7. safe' \subseteq Changes /\ opened' \in Books \cup {None}
    BY DEF Start, Overtake, VaultTypeOK
  <1>8. interrupted' \in BOOLEAN
    BY DEF Start, Overtake
  <1>9. stored' \in Sealed \cup {None} /\ files' \subseteq Sealed
    BY DEF Start, VaultTypeOK
  <1>10. QED
    BY <1>5, <1>6, <1>7, <1>8, <1>9 DEF VaultTypeOK

(* An operation whose record is replaced by a well-typed one. *)
LEMMA GoesOn ==
  ASSUME VaultTypeOK, CarriesBooks, NEW t \in Tasks, NEW next \in Task \cup {None},
         tasks' = [tasks EXCEPT ![t] = next], next # None => Carries(next)
  PROVE  tasks' \in [Tasks -> Task \cup {None}] /\ CarriesBooks'
  <1>1. tasks \in [Tasks -> Task \cup {None}]
    BY DEF VaultTypeOK
  <1>2. tasks' \in [Tasks -> Task \cup {None}]
    BY <1>1
  <1>3. ASSUME NEW u \in Tasks, tasks'[u] # None PROVE Carries(tasks'[u])
    <2>1. CASE u = t
      BY <2>1, <1>1, <1>3
    <2>2. CASE u # t
      BY <2>2, <1>1, <1>3 DEF CarriesBooks
    <2>3. QED
      BY <2>1, <2>2
  <1>4. QED
    BY <1>2, <1>3 DEF CarriesBooks

(* The new phase of an operation is well typed. *)
LEMMA ReachesTypes ==
  ASSUME VaultTypeOK, CarriesBooks, NEW t \in Tasks, tasks[t] # None,
         NEW phase \in Phases, Reaches(t, phase),
         tasks[t].kind \notin {"unlockLocal", "hydrate"}
  PROVE  tasks' \in [Tasks -> Task \cup {None}] /\ CarriesBooks'
  <1> DEFINE next == [tasks[t] EXCEPT !.phase = phase]
  <1>1. tasks[t] \in Task /\ Carries(tasks[t])
    BY TaskType
  <1>2. next \in Task /\ next.kind = tasks[t].kind /\ next.books = tasks[t].books
    BY <1>1 DEF Task
  <1>3. Carries(next)
    BY <1>1, <1>2 DEF Carries
  <1>4. tasks' = [tasks EXCEPT ![t] = next]
    BY DEF Reaches
  <1>5. QED
    BY <1>2, <1>3, <1>4, GoesOn

LEMMA EndsTypes ==
  ASSUME VaultTypeOK, CarriesBooks, NEW t \in Tasks, Ends(t)
  PROVE  tasks' \in [Tasks -> Task \cup {None}] /\ CarriesBooks'
  BY GoesOn DEF Ends

LEMMA InitTypes == Init => VaultTypeOK /\ CarriesBooks
  <1> SUFFICES ASSUME Init PROVE VaultTypeOK /\ CarriesBooks
    OBVIOUS
  <1>1. Hydrating \in Task /\ Carries(Hydrating)
    BY DEF Hydrating, Task, Kinds, Phases, Carries, Saving
  <1>2. tasks \in [Tasks -> Task \cup {None}]
    BY <1>1 DEF Init, OnlyHydrating
  <1>3. CarriesBooks
    <2> SUFFICES ASSUME NEW t \in Tasks, tasks[t] # None PROVE Carries(tasks[t])
      BY DEF CarriesBooks
    <2>1. tasks[t] = Hydrating
      BY DEF Init, OnlyHydrating
    <2>2. QED
      BY <1>1, <2>1
  <1>4. session \in Session
    BY DEF Init, Fresh, Session
  <1>5. QED
    BY <1>2, <1>3, <1>4 DEF Init, VaultTypeOK

(* Each button, Lock and the closing of the page keep the types. *)
LEMMA PressTypes ==
  ASSUME VaultTypeOK, CarriesBooks, NEW t \in Tasks, Press(t)
  PROVE  VaultTypeOK' /\ CarriesBooks'
  <1>1. /\ session \in Session
        /\ session.books \in Books \cup {None} /\ session.material \in Vaults \cup {None}
        /\ [session EXCEPT !.busy = TRUE] \in Session
    BY SessionType DEF VaultTypeOK
  <1>2. made \subseteq Vaults \cup Changes /\ beside \subseteq Changes
    BY DEF VaultTypeOK
  <1>3. CASE CreateVault(t)
    <2>1. PICK v \in New(Vaults) :
            /\ StartBusy(t, "create", v, [vault |-> v, changes |-> {}])
            /\ made' = made \cup {v}
      BY <1>3 DEF CreateVault
    <2>2. v \in Vaults
      BY DEF New
    <2>3. [vault |-> v, changes |-> {}] \in Books /\ [vault |-> v, changes |-> {}] # None
      BY <2>2, NoneAssumption DEF Books
    <2>4. Start(t, "create", v, [vault |-> v, changes |-> {}], Removing)
      BY <2>1 DEF StartBusy
    <2>5. session' \in Session /\ made' \subseteq Vaults \cup Changes /\ beside' \subseteq Changes
      BY <1>1, <1>2, <1>3, <2>1, <2>2 DEF CreateVault, StartBusy
    <2>6. QED
      BY <2>2, <2>3, <2>4, <2>5, StartTypes, VaultAssumption DEF Kinds
  <1>4. CASE UnlockLocal(t)
    <2>1. Start(t, "unlockLocal", None, None, Removing)
      BY <1>4 DEF UnlockLocal, StartBusy
    <2>2. session' \in Session /\ made' \subseteq Vaults \cup Changes /\ beside' \subseteq Changes
      BY <1>1, <1>2, <1>4 DEF UnlockLocal, StartBusy
    <2>3. QED
      BY <2>1, <2>2, StartTypes DEF Kinds, Saving
  <1>5. CASE UnlockFile(t)
    <2>1. PICK f \in files : StartBusy(t, "unlockFile", f.key, f.books)
      BY <1>5 DEF UnlockFile
    <2>2. f \in Sealed
      BY DEF VaultTypeOK
    <2>3. f.key \in Vaults /\ f.books \in Books /\ f.books # None
      BY <2>2, NoneAssumption DEF Sealed
    <2>4. Start(t, "unlockFile", f.key, f.books, Removing)
      BY <2>1 DEF StartBusy
    <2>5. session' \in Session /\ made' \subseteq Vaults \cup Changes /\ beside' \subseteq Changes
      BY <1>1, <1>2, <1>5, <2>1 DEF UnlockFile, StartBusy
    <2>6. QED
      BY <2>3, <2>4, <2>5, StartTypes, VaultAssumption DEF Kinds
  <1>6. CASE Change(t)
    <2>1. PICK kind \in {"change", "import"}, c \in New(Changes) :
            /\ StartBusy(t, kind, session.material,
                         [session.books EXCEPT !.changes = @ \cup {c}])
            /\ made' = made \cup {c}
            /\ beside' = IF Downloads = {} THEN beside ELSE beside \cup {c}
      BY <1>6 DEF Change
    <2> DEFINE books == [session.books EXCEPT !.changes = @ \cup {c}]
    <2>2. c \in Changes
      BY DEF New
    <2>3. session.books \in Books /\ session.material # None
      BY <1>1, <1>6 DEF Change, InBooks
    <2>4. books \in Books /\ books # None
      BY <2>2, <2>3, NoneAssumption DEF Books
    <2>5. Start(t, kind, session.material, books, Removing)
      BY <2>1 DEF StartBusy
    <2>6. session' \in Session /\ made' \subseteq Vaults \cup Changes /\ beside' \subseteq Changes
      BY <1>1, <1>2, <2>1, <2>2 DEF StartBusy
    <2> HIDE DEF books
    <2>7. QED
      BY <1>1, <2>3, <2>4, <2>5, <2>6, StartTypes DEF Kinds
  <1>7. CASE DownloadVault(t)
    <2>1. Start(t, "download", session.material, session.books, Removing)
      BY <1>7 DEF DownloadVault
    <2>2. session.books # None /\ session.material # None
      BY <1>7 DEF DownloadVault, InBooks
    <2>3. session' \in Session /\ made' \subseteq Vaults \cup Changes /\ beside' \subseteq Changes
      BY <1>1, <1>2, <1>7 DEF DownloadVault
    <2>4. QED
      BY <1>1, <2>1, <2>2, <2>3, StartTypes DEF Kinds
  <1>8. CASE ForgetBrowser(t)
    <2>1. Start(t, "forget", None, None, UnderWay)
      BY <1>8 DEF ForgetBrowser
    <2>2. session' \in Session /\ made' \subseteq Vaults \cup Changes /\ beside' \subseteq Changes
      BY <1>1, <1>2, <1>8 DEF ForgetBrowser
    <2>3. QED
      BY <2>1, <2>2, StartTypes DEF Kinds, Saving
  <1>9. QED
    BY <1>3, <1>4, <1>5, <1>6, <1>7, <1>8 DEF Press

LEMMA LockTypes ==
  ASSUME VaultTypeOK, CarriesBooks, Lock
  PROVE  VaultTypeOK' /\ CarriesBooks'
  <1>1. session' \in Session
    BY DEF Lock, VaultTypeOK, Session
  <1>2. interrupted' \in BOOLEAN
    BY DEF Lock, Overtake
  <1>3. safe' \subseteq Changes /\ opened' \in Books \cup {None}
    BY DEF Lock, Overtake, VaultTypeOK
  <1>4. CarriesBooks'
    BY DEF Lock, CarriesBooks
  <1>5. QED
    BY <1>1, <1>2, <1>3, <1>4 DEF Lock, VaultTypeOK

LEMMA CloseTabTypes ==
  ASSUME VaultTypeOK, CarriesBooks, CloseTab
  PROVE  VaultTypeOK' /\ CarriesBooks'
  <1>1. Hydrating \in Task /\ Carries(Hydrating)
    BY DEF Hydrating, Task, Kinds, Phases, Carries, Saving
  <1>2. tasks' \in [Tasks -> Task \cup {None}]
    BY <1>1 DEF CloseTab, OnlyHydrating
  <1>3. CarriesBooks'
    <2> SUFFICES ASSUME NEW t \in Tasks, tasks'[t] # None PROVE Carries(tasks'[t])
      BY DEF CarriesBooks
    <2>1. tasks'[t] = Hydrating
      BY DEF CloseTab, OnlyHydrating
    <2>2. QED
      BY <1>1, <2>1
  <1>4. session' \in Session
    BY DEF CloseTab, Fresh, Session
  <1>5. QED
    BY <1>2, <1>3, <1>4 DEF CloseTab, VaultTypeOK

(* The steps of an operation that only reach the next phase. *)
LEMMA StepTypes ==
  ASSUME VaultTypeOK, CarriesBooks, NEW t \in Tasks, tasks[t] # None,
         Deliver(t) \/ Commit(t) \/ Refuse(t) \/ Abort(t)
  PROVE  VaultTypeOK' /\ CarriesBooks'
  <1> DEFINE written == [key |-> tasks[t].key, books |-> tasks[t].books]
  <1>1. /\ tasks[t].key \in Vaults \cup {None} /\ tasks[t].books \in Books \cup {None}
        /\ Carries(tasks[t])
    BY TaskType
  <1>2. tasks[t].kind \in Saving \cup {"forget"}
    BY DEF Deliver, Commit, Refuse, Abort, Writing, Saving
  <1>3. PICK phase \in Phases : Reaches(t, phase)
    BY DEF Deliver, Commit, Refuse, Abort, Phases
  <1>4. tasks' \in [Tasks -> Task \cup {None}] /\ CarriesBooks'
    BY <1>2, <1>3, ReachesTypes DEF Saving
  <1>5. ASSUME tasks[t].kind # "forget" PROVE written \in Sealed
    BY <1>1, <1>2, <1>5 DEF Carries, Sealed
  <1>6. tasks[t].kind = "download" => written \in Sealed
    BY <1>5
  <1> HIDE DEF written
  <1>7. files' \subseteq Sealed
    <2>1. CASE Deliver(t)
      <3>1. files' = files \cup {written}
        BY <2>1 DEF Deliver, written
      <3>2. QED
        BY <2>1, <3>1, <1>6 DEF Deliver, VaultTypeOK
    <2>2. CASE ~Deliver(t)
      BY <2>2 DEF Commit, Refuse, Abort, VaultTypeOK
    <2>3. QED
      BY <2>1, <2>2
  <1>8. stored' \in Sealed \cup {None} /\ safe' \subseteq Changes
    <2>1. CASE Commit(t)
      <3>1. stored' = IF tasks[t].kind = "forget" THEN None ELSE written
        BY <2>1 DEF Commit, written
      <3>2. safe' = {} \/ safe' = safe
        BY <2>1 DEF Commit
      <3>3. QED
        BY <3>1, <3>2, <1>5 DEF VaultTypeOK
    <2>2. CASE ~Commit(t)
      BY <2>2 DEF Deliver, Refuse, Abort, VaultTypeOK
    <2>3. QED
      BY <2>1, <2>2
  <1>9. UNCHANGED <<session, made, beside, opened, interrupted>>
    BY DEF Deliver, Commit, Refuse, Abort
  <1>10. QED
    BY <1>4, <1>7, <1>8, <1>9 DEF VaultTypeOK

LEMMA LoadTypes ==
  ASSUME VaultTypeOK, CarriesBooks, NEW t \in Tasks, tasks[t] # None, Load(t)
  PROVE  VaultTypeOK' /\ CarriesBooks'
  <1> DEFINE key == IF stored = None THEN None ELSE stored.key
             books == IF stored = None THEN None ELSE stored.books
             next == [tasks[t] EXCEPT !.phase = "loaded", !.key = key, !.books = books]
  <1>1. tasks[t] \in Task /\ Carries(tasks[t])
    BY TaskType
  <1>2. /\ key \in Vaults \cup {None} /\ books \in Books \cup {None}
        /\ stored # None => books # None
    <2>1. stored \in Sealed \cup {None}
      BY DEF VaultTypeOK
    <2>2. QED
      BY <2>1, NoneAssumption DEF Sealed
  <1> HIDE DEF key, books
  <1>3. /\ next \in Task /\ next.kind = tasks[t].kind
        /\ next.phase = "loaded" /\ next.books = books
    BY <1>1, <1>2 DEF Task, Phases
  <1>4. tasks[t].kind \in {"hydrate", "unlockLocal"}
        /\ (tasks[t].kind = "unlockLocal" => stored # None)
    BY DEF Load
  <1>5. Carries(next)
    BY <1>2, <1>3, <1>4 DEF Carries, Saving
  <1>6. tasks' = [tasks EXCEPT ![t] = next]
    <2>1. tasks \in [Tasks -> Task \cup {None}]
      BY DEF VaultTypeOK
    <2>2. tasks' = [tasks EXCEPT ![t].phase = "loaded", ![t].key = key, ![t].books = books]
      BY DEF Load, key, books
    <2>3. QED
      BY <2>1, <2>2
  <1>7. tasks' \in [Tasks -> Task \cup {None}] /\ CarriesBooks'
    BY <1>3, <1>5, <1>6, GoesOn
  <1>8. session' \in Session
    BY SessionType DEF Load, VaultTypeOK
  <1>9. QED
    BY <1>7, <1>8 DEF Load, VaultTypeOK

LEMMA ProgressTypes ==
  ASSUME VaultTypeOK, CarriesBooks, NEW t \in Tasks, Progress(t)
  PROVE  VaultTypeOK' /\ CarriesBooks'
  <1>1. session' \in Session
    BY SessionType DEF Progress, VaultTypeOK
  <1>2. QED
    BY <1>1 DEF Progress, VaultTypeOK, CarriesBooks

LEMMA FailTypes ==
  ASSUME VaultTypeOK, CarriesBooks, NEW t \in Tasks, Fail(t)
  PROVE  VaultTypeOK' /\ CarriesBooks'
  <1>1. session \in Session
    BY DEF VaultTypeOK
  <1>2. [session EXCEPT !.status = "locked", !.localName = None] \in Session
    BY <1>1 DEF Session
  <1>3. \/ session' = session
        \/ session' = [session EXCEPT !.status = "locked", !.localName = None]
        \/ session' = [session EXCEPT !.busy = FALSE]
    BY DEF Fail
  <1>4. session' \in Session
    BY <1>1, <1>2, <1>3, SessionType
  <1>5. tasks' \in [Tasks -> Task \cup {None}] /\ CarriesBooks'
    BY EndsTypes DEF Fail
  <1>6. QED
    BY <1>4, <1>5 DEF Fail, VaultTypeOK

LEMMA FinishOpeningTypes ==
  ASSUME VaultTypeOK, CarriesBooks, NEW t \in Tasks, tasks[t] # None, FinishOpening(t)
  PROVE  VaultTypeOK' /\ CarriesBooks'
  <1>1. /\ tasks[t].key \in Vaults \cup {None} /\ tasks[t].books \in Books \cup {None}
        /\ Carries(tasks[t])
    BY TaskType
  <1>2. tasks[t].books \in Books
    BY <1>1 DEF FinishOpening, Carries, Saving
  <1>3. tasks[t].books.vault \in Vaults /\ tasks[t].books.changes \subseteq Changes
    BY <1>2 DEF Books
  <1>4. session.storageWarning \in BOOLEAN
    BY SessionType DEF VaultTypeOK
  <1>5. (IF tasks[t].kind = "unlockLocal" THEN session.storageWarning
         ELSE tasks[t].phase = "refused") \in BOOLEAN
    BY <1>4
  <1>6. session' \in Session
    BY <1>1, <1>2, <1>3, <1>5 DEF FinishOpening, Session
  <1>7. safe' \subseteq Changes
    <2>1. safe' \subseteq safe \/ safe' = tasks[t].books.changes
      BY DEF FinishOpening
    <2>2. QED
      BY <1>3, <2>1 DEF VaultTypeOK
  <1>8. opened' \in Books \cup {None}
    BY <1>2 DEF FinishOpening
  <1>9. tasks' \in [Tasks -> Task \cup {None}] /\ CarriesBooks'
    BY EndsTypes DEF FinishOpening
  <1>10. QED
    BY <1>6, <1>7, <1>8, <1>9 DEF FinishOpening, VaultTypeOK

LEMMA FinishChangeTypes ==
  ASSUME VaultTypeOK, CarriesBooks, NEW t \in Tasks, tasks[t] # None, FinishChange(t)
  PROVE  VaultTypeOK' /\ CarriesBooks'
  <1>1. tasks[t].books \in Books
    BY TaskType DEF FinishChange, Carries, Saving
  <1>2. tasks[t].books.changes \subseteq Changes
    BY <1>1 DEF Books
  <1>3. session \in Session
    BY DEF VaultTypeOK
  <1>4. session' \in Session
    BY <1>1, <1>3 DEF FinishChange, Session
  <1>5. safe' \subseteq Changes
    <2>1. safe' = safe \/ safe' = safe \cup tasks[t].books.changes
      BY DEF FinishChange
    <2>2. QED
      BY <1>2, <2>1 DEF VaultTypeOK
  <1>6. tasks' \in [Tasks -> Task \cup {None}] /\ CarriesBooks'
    BY EndsTypes DEF FinishChange
  <1>7. QED
    BY <1>4, <1>5, <1>6 DEF FinishChange, VaultTypeOK

LEMMA FinishTypes ==
  ASSUME VaultTypeOK, CarriesBooks, NEW t \in Tasks, tasks[t] # None, Finish(t)
  PROVE  VaultTypeOK' /\ CarriesBooks'
  <1>1. session \in Session
    BY DEF VaultTypeOK
  <1>2. CASE FinishHydrate(t)
    <2>1. tasks[t].key \in Vaults \cup {None}
      BY TaskType
    <2>2. session' \in Session
      BY <1>1, <1>2, <2>1 DEF FinishHydrate, Session
    <2>3. tasks' \in [Tasks -> Task \cup {None}] /\ CarriesBooks'
      BY <1>2, EndsTypes DEF FinishHydrate
    <2>4. QED
      BY <1>2, <2>2, <2>3 DEF FinishHydrate, VaultTypeOK
  <1>3. CASE FinishDownload(t)
    <2>1. (session.storageWarning \/ tasks[t].phase = "refused") \in BOOLEAN
      OBVIOUS
    <2>2. session' \in Session
      BY <1>1, <1>3, <2>1 DEF FinishDownload, Session
    <2>3. tasks' \in [Tasks -> Task \cup {None}] /\ CarriesBooks'
      BY <1>3, EndsTypes DEF FinishDownload
    <2>4. QED
      BY <1>3, <2>2, <2>3 DEF FinishDownload, VaultTypeOK
  <1>4. CASE FinishForget(t)
    <2>1. session' \in Session
      BY <1>4 DEF FinishForget, Fresh, Session
    <2>2. tasks' \in [Tasks -> Task \cup {None}] /\ CarriesBooks'
      BY <1>4, EndsTypes DEF FinishForget
    <2>3. QED
      BY <1>4, <2>1, <2>2 DEF FinishForget, VaultTypeOK
  <1>5. QED
    BY <1>2, <1>3, <1>4, FinishOpeningTypes, FinishChangeTypes DEF Finish

LEMMA NextTypes ==
  ASSUME VaultTypeOK, CarriesBooks, [Next]_vaultVars
  PROVE  VaultTypeOK' /\ CarriesBooks'
  <1>1. CASE Lock
    BY <1>1, LockTypes
  <1>2. CASE CloseTab
    BY <1>2, CloseTabTypes
  <1>3. ASSUME NEW t \in Tasks, Press(t) PROVE VaultTypeOK' /\ CarriesBooks'
    BY <1>3, PressTypes
  <1>4. ASSUME NEW t \in Tasks, tasks[t] # None, Progress(t)
        PROVE  VaultTypeOK' /\ CarriesBooks'
    BY <1>4, ProgressTypes
  <1>5. ASSUME NEW t \in Tasks, Continue(t) PROVE VaultTypeOK' /\ CarriesBooks'
    <2>1. tasks[t] # None
      BY <1>5 DEF Continue
    <2>2. CASE Load(t)
      BY <2>1, <2>2, LoadTypes
    <2>3. CASE Deliver(t) \/ Commit(t) \/ Refuse(t) \/ Abort(t)
      BY <2>1, <2>3, StepTypes
    <2>4. CASE Fail(t)
      BY <2>4, FailTypes
    <2>5. CASE Finish(t)
      BY <2>1, <2>5, FinishTypes
    <2>6. QED
      BY <1>5, <2>2, <2>3, <2>4, <2>5 DEF Continue
  <1>6. CASE UNCHANGED vaultVars
    BY <1>6 DEF vaultVars, VaultTypeOK, CarriesBooks
  <1>7. QED
    BY <1>1, <1>2, <1>3, <1>4, <1>5, <1>6 DEF Next

(* The session, the storage, the files and the operations under way are always *)
(* as typed, whatever overlaps.                                                *)
THEOREM VaultTypes == VaultSpec => []VaultTypeOK
  <1>1. VaultTypeOK /\ CarriesBooks /\ [Next]_vaultVars => (VaultTypeOK /\ CarriesBooks)'
    BY NextTypes
  <1>2. QED
    BY <1>1, InitTypes, PTL DEF VaultSpec

------------------------------------------------------------------------------
(* What fits together while no operation is overtaken. *)

OthersFit(t) == \A u \in Tasks : u # t /\ tasks[u] # None => TaskFits(tasks[u])

MayRunBeside(task, t) ==
  \A u \in Tasks : u # t /\ tasks[u] # None => MayOverlap(task, tasks[u])

\* A reading relies on nothing another operation changes.
OnlyHydrateBesides(t) ==
  \A u \in Tasks : (u # t /\ tasks[u] # None) => tasks[u].kind = "hydrate"

(* An operation that starts, goes on or ends. *)
LEMMA GoesOnFits ==
  ASSUME VaultTypeOK, OverlapsFit, NEW t \in Tasks, NEW next,
         tasks' = [tasks EXCEPT ![t] = next], beside \subseteq beside', OthersFit(t)',
         next # None => TaskFits(next)' /\ MayRunBeside(next, t)'
  PROVE  OverlapsFit' /\ TasksFit'
  <1>1. tasks \in [Tasks -> Task \cup {None}]
    BY DEF VaultTypeOK
  <1>2. tasks'[t] = next
    BY <1>1
  <1>3. \A u \in Tasks : u # t => tasks'[u] = tasks[u]
    BY <1>1
  <1>4. ASSUME NEW u \in Tasks, NEW v \in Tasks, u # v, tasks'[u] # None, tasks'[v] # None
        PROVE  MayOverlap(tasks[u], tasks[v])'
    <2>1. CASE u = t
      BY <2>1, <1>2, <1>4 DEF MayRunBeside, MayOverlap, Beside
    <2>2. CASE v = t
      BY <2>2, <1>2, <1>4 DEF MayRunBeside, MayOverlap, Beside
    <2>3. CASE u # t /\ v # t
      <3>1. tasks'[u] = tasks[u] /\ tasks'[v] = tasks[v] /\ MayOverlap(tasks[u], tasks[v])
        BY <2>3, <1>3, <1>4 DEF OverlapsFit
      <3>2. QED
        BY <3>1 DEF MayOverlap, Beside
    <2>4. QED
      BY <2>1, <2>2, <2>3
  <1>5. ASSUME NEW u \in Tasks, tasks'[u] # None PROVE TaskFits(tasks[u])'
    <2>1. CASE u = t
      BY <2>1, <1>2, <1>5 DEF TaskFits, HasKey, ReadIsCurrent, WrittenIsStored,
                              DeliveredIsFile, KeepsBusy
    <2>2. CASE u # t
      BY <2>2, <1>5 DEF OthersFit
    <2>3. QED
      BY <2>1, <2>2
  <1>6. QED
    BY <1>4, <1>5 DEF OverlapsFit, TasksFit

(* The others still fit while the books in memory and what is stored stay. *)
LEMMA OthersStay ==
  ASSUME VaultTypeOK, TasksFit, OverlapsFit, NEW t \in Tasks, NEW next,
         tasks' = [tasks EXCEPT ![t] = next],
         session'.books = session.books, stored' = stored,
         files \subseteq files', beside \subseteq beside',
         \/ session.busy => session'.busy
         \/ tasks[t] # None /\ tasks[t].kind \in Opening \cup Changing
  PROVE  OthersFit(t)'
  <1>1. tasks \in [Tasks -> Task \cup {None}]
    BY DEF VaultTypeOK
  <1>2. SUFFICES ASSUME NEW u \in Tasks, u # t, tasks'[u] # None PROVE TaskFits(tasks[u])'
    BY DEF OthersFit
  <1>3. tasks'[u] = tasks[u] /\ tasks[u] # None /\ TaskFits(tasks[u])
    BY <1>1, <1>2 DEF TasksFit
  <1>4. PICK task : task = tasks[u]
    OBVIOUS
  <1>5. HasKey(task) /\ ReadIsCurrent(task)'
    BY <1>3, <1>4 DEF TaskFits, HasKey, ReadIsCurrent
  <1>6. WrittenIsStored(task)' /\ DeliveredIsFile(task)'
    BY <1>3, <1>4 DEF TaskFits, WrittenIsStored, DeliveredIsFile
  <1>7. KeepsBusy(task)'
    <2>1. CASE session.busy => session'.busy
      BY <2>1, <1>3, <1>4 DEF TaskFits, KeepsBusy
    <2>2. CASE tasks[t] # None /\ tasks[t].kind \in Opening \cup Changing
      <3>1. MayOverlap(tasks[t], tasks[u])
        BY <2>2, <1>2, <1>3 DEF OverlapsFit
      <3>2. task.kind \in {"hydrate", "download"}
        BY <3>1, <2>2, <1>4 DEF MayOverlap, Beside, Opening, Changing
      <3>3. QED
        BY <3>2 DEF KeepsBusy, Opening, Changing
    <2>3. QED
      BY <2>1, <2>2
  <1>8. QED
    BY <1>3, <1>4, <1>5, <1>6, <1>7
       DEF TaskFits, HasKey, ReadIsCurrent, WrittenIsStored, DeliveredIsFile, KeepsBusy

(* Readings fit whatever happens. *)
LEMMA ReadingsFit ==
  ASSUME VaultTypeOK, TasksFit, NEW t \in Tasks, OnlyHydrateBesides(t), NEW next,
         tasks' = [tasks EXCEPT ![t] = next]
  PROVE  OthersFit(t)' /\ MayRunBeside(next, t)'
  <1>1. tasks \in [Tasks -> Task \cup {None}]
    BY DEF VaultTypeOK
  <1>2. ASSUME NEW u \in Tasks, u # t, tasks'[u] # None
        PROVE  TaskFits(tasks[u])' /\ tasks'[u].kind = "hydrate"
    <2>1. tasks'[u] = tasks[u] /\ tasks[u].kind = "hydrate" /\ HasKey(tasks[u])
      BY <1>1, <1>2 DEF OnlyHydrateBesides, TasksFit, TaskFits
    <2>2. QED
      BY <2>1 DEF TaskFits, HasKey, ReadIsCurrent, WrittenIsStored, DeliveredIsFile,
                  KeepsBusy, Opening, Changing
  <1>3. QED
    BY <1>2 DEF OthersFit, MayRunBeside, MayOverlap

(* An operation overlaps what it did before while its books are the same. *)
LEMMA StillBeside ==
  ASSUME VaultTypeOK, OverlapsFit, NEW t \in Tasks, tasks[t] # None, NEW next,
         tasks' = [tasks EXCEPT ![t] = next], beside \subseteq beside',
         next.kind = tasks[t].kind,
         next.kind \in Changing \cup {"download"} =>
           next.books = tasks[t].books /\ tasks[t].phase # "unanswered"
  PROVE  MayRunBeside(next, t)'
  <1>1. tasks \in [Tasks -> Task \cup {None}]
    BY DEF VaultTypeOK
  <1>2. SUFFICES ASSUME NEW u \in Tasks, u # t, tasks'[u] # None
                 PROVE  MayOverlap(next, tasks[u])'
    BY DEF MayRunBeside
  <1>3. tasks'[u] = tasks[u] /\ tasks[u] # None /\ MayOverlap(tasks[t], tasks[u])
    BY <1>1, <1>2 DEF OverlapsFit
  <1>4. QED
    BY <1>3 DEF MayOverlap, Beside

(* An operation of which only readings can run beside. *)
LEMMA OnlyReadings ==
  ASSUME OverlapsFit, NEW t \in Tasks, tasks[t] # None,
         tasks[t].kind \in Opening \cup {"forget"}
  PROVE  OnlyHydrateBesides(t)
  BY DEF OverlapsFit, MayOverlap, Beside, OnlyHydrateBesides, Opening, Changing

(* An operation that starts in a calm session finds readings and downloads only. *)
LEMMA StartsCalm ==
  ASSUME VaultTypeOK, CarriesBooks, Undisturbed, NEW t \in Tasks,
         NEW over, Overtake(over), ~interrupted',
         over = UnderWay \/ (over = Removing /\ ~session.busy)
  PROVE  /\ Fits /\ UNCHANGED <<safe, opened>>
         /\ \A u \in Tasks : tasks[u] # None =>
              over = Removing /\ tasks[u].kind \in {"hydrate", "download"}
  <1>1. over = {} /\ ~interrupted
    BY DEF Overtake
  <1>2. Fits
    BY <1>1 DEF Undisturbed
  <1>3. UNCHANGED <<safe, opened>>
    BY <1>1 DEF Overtake
  <1>4. ASSUME NEW u \in Tasks, tasks[u] # None
        PROVE  over = Removing /\ tasks[u].kind \in {"hydrate", "download"}
    <2>1. u \in UnderWay
      BY <1>4 DEF UnderWay
    <2>2. over = Removing /\ ~session.busy
      BY <2>1, <1>1
    <2>3. tasks[u].kind \in Kinds /\ tasks[u].kind # "forget"
      BY <2>1, <2>2, <1>1, <1>4, TaskType DEF Removing
    <2>4. tasks[u].kind \notin Opening \cup Changing
      BY <2>2, <1>2, <1>4 DEF Fits, TasksFit, TaskFits, KeepsBusy
    <2>5. QED
      BY <2>2, <2>3, <2>4 DEF Kinds, Opening, Changing
  <1>5. QED
    BY <1>2, <1>3, <1>4

(* What is in the session, in storage and in the files fits while it is left    *)
(* alone, and more changes are known to be made beside a download.              *)
LEMMA LeftAlone ==
  ASSUME Fits, UNCHANGED <<stored, safe, opened>>,
         files \subseteq files', SealedFit', beside \subseteq beside',
         session'.books = session.books, session'.material = session.material,
         session'.status = session.status, session'.backupStale = session.backupStale
  PROVE  SessionFits' /\ SafeIsKept' /\ Reminded'
  <1>1. SessionFits' /\ SafeIsKept'
    BY DEF Fits, SessionFits, SafeIsKept
  <1>2. ASSUME NEW b, SameButBeside(b) PROVE SameButBeside(b)'
    BY <1>2 DEF SameButBeside
  <1>3. Reminded'
    <2>1. SUFFICES ASSUME session'.books # None, ~session'.backupStale PROVE Reminded'
      BY DEF Reminded
    <2>2. CASE opened # None /\ SameButBeside(opened)
      <3>1. opened' # None /\ SameButBeside(opened)'
        BY <2>2 DEF SameButBeside
      <3>2. QED
        BY <3>1 DEF Reminded
    <2>3. CASE \E f \in files : f.key = session.material /\ SameButBeside(f.books)
      <3>1. PICK f \in files : f.key = session.material /\ SameButBeside(f.books)
        BY <2>3
      <3>2. f \in files' /\ f.key = session'.material /\ SameButBeside(f.books)'
        BY <3>1 DEF SameButBeside
      <3>3. QED
        BY <3>2 DEF Reminded
    <2>4. QED
      BY <2>1, <2>2, <2>3 DEF Fits, Reminded
  <1>4. QED
    BY <1>1, <1>3

(* A button pressed in a calm session, whose operation's record fits. *)
LEMMA StartFits ==
  ASSUME VaultTypeOK, CarriesBooks, Undisturbed, ~interrupted', NEW t \in Tasks,
         NEW kind, NEW key, NEW books, NEW over, Start(t, kind, key, books, over),
         over = UnderWay \/ (over = Removing /\ ~session.busy),
         session' = session \/ session' = [session EXCEPT !.busy = TRUE],
         beside \subseteq beside', NEW started,
         started = [kind |-> kind, phase |-> "working", key |-> key, books |-> books],
         TaskFits(started)', MayRunBeside(started, t)'
  PROVE  Fits'
  <1>1. Fits /\ UNCHANGED <<safe, opened>>
    BY StartsCalm DEF Start
  <1>2. UNCHANGED <<stored, files>> /\ tasks' = [tasks EXCEPT ![t] = started]
    BY DEF Start
  <1>3. /\ session'.books = session.books /\ session'.material = session.material
        /\ session'.status = session.status /\ session'.backupStale = session.backupStale
        /\ session.busy => session'.busy
    BY DEF VaultTypeOK, Session
  <1>4. SealedFit'
    BY <1>1, <1>2 DEF Fits, SealedFit
  <1>5. SessionFits' /\ SafeIsKept' /\ Reminded'
    BY <1>1, <1>2, <1>3, <1>4, LeftAlone
  <1>6. TasksFit /\ OverlapsFit
    BY <1>1 DEF Fits
  <1>7. OthersFit(t)'
    BY <1>2, <1>3, <1>6, OthersStay
  <1>8. OverlapsFit' /\ TasksFit'
    BY <1>2, <1>6, <1>7, GoesOnFits
  <1>9. QED
    BY <1>4, <1>5, <1>8 DEF Fits

(* At the gate there is no download to run beside. *)
LEMMA GateIsCalm ==
  ASSUME VaultTypeOK, CarriesBooks, Undisturbed, ~interrupted', NEW t \in Tasks,
         NEW kind, NEW key, NEW books, StartBusy(t, kind, key, books), AtGate
  PROVE  Fits /\ OnlyHydrateBesides(t) /\ session'.books = None /\ session'.busy
  <1>1. Overtake(Removing) /\ ~session.busy /\ session.books = None
    BY DEF StartBusy, Start, AtGate
  <1>2. Fits /\ \A u \in Tasks : tasks[u] # None => tasks[u].kind \in {"hydrate", "download"}
    BY <1>1, StartsCalm
  <1>3. \A u \in Tasks : tasks[u] # None => tasks[u].kind # "download"
    BY <1>1, <1>2 DEF Fits, TasksFit, TaskFits, ReadIsCurrent
  <1>4. session'.books = None /\ session'.busy
    BY <1>1 DEF StartBusy, VaultTypeOK, Session
  <1>5. QED
    BY <1>2, <1>3, <1>4 DEF OnlyHydrateBesides

(* An opening starts at the gate, with the key of its books if it has them. *)
LEMMA OpeningStarts ==
  ASSUME VaultTypeOK, CarriesBooks, Undisturbed, ~interrupted', NEW t \in Tasks,
         NEW kind \in Opening, NEW key, NEW books, StartBusy(t, kind, key, books), AtGate,
         books # None => key = books.vault, beside' = beside
  PROVE  Fits'
  <1>1. PICK started :
          started = [kind |-> kind, phase |-> "working", key |-> key, books |-> books]
    OBVIOUS
  <1>2. Fits /\ OnlyHydrateBesides(t) /\ session'.books = None /\ session'.busy
    BY GateIsCalm
  <1>3. tasks' = [tasks EXCEPT ![t] = started]
    BY <1>1 DEF StartBusy, Start
  <1>4. MayRunBeside(started, t)'
    BY <1>2, <1>3, ReadingsFit DEF Fits
  <1>5. TaskFits(started)'
    BY <1>1, <1>2 DEF TaskFits, HasKey, ReadIsCurrent, WrittenIsStored, DeliveredIsFile,
                      KeepsBusy, Opening, Changing
  <1>6. QED
    BY <1>1, <1>4, <1>5, StartFits DEF StartBusy, AtGate

(* A change starts on the books in memory; a download under way knows of it. *)
LEMMA ChangeStarts ==
  ASSUME VaultTypeOK, CarriesBooks, Undisturbed, ~interrupted', NEW t \in Tasks, Change(t)
  PROVE  Fits'
  <1>1. PICK kind \in {"change", "import"}, c \in New(Changes) :
          /\ StartBusy(t, kind, session.material,
                       [session.books EXCEPT !.changes = @ \cup {c}])
          /\ beside' = IF Downloads = {} THEN beside ELSE beside \cup {c}
    BY DEF Change
  <1>2. session.books # None /\ ~session.busy /\ session \in Session
    BY DEF Change, InBooks, VaultTypeOK
  <1>3. PICK key, books :
          key = session.material /\ books = [session.books EXCEPT !.changes = @ \cup {c}]
    OBVIOUS
  <1>4. Start(t, kind, key, books, Removing) /\ session' = [session EXCEPT !.busy = TRUE]
    BY <1>1, <1>3 DEF StartBusy
  <1>5. /\ Fits
        /\ \A u \in Tasks : tasks[u] # None => tasks[u].kind \in {"hydrate", "download"}
    BY <1>2, <1>4, StartsCalm DEF Start
  <1>6. key = session.books.vault
    BY <1>2, <1>3, <1>5 DEF Fits, SessionFits
  <1>7. session.books \in Books
    BY <1>2 DEF Session
  <1>8. /\ books.vault = session.books.vault
        /\ books.changes = session.books.changes \cup {c}
    BY <1>3, <1>7 DEF Books
  <1>9. session'.books = session.books /\ session'.busy
    BY <1>2, <1>4 DEF Session
  <1>10. PICK started :
           started = [kind |-> kind, phase |-> "working", key |-> key, books |-> books]
    OBVIOUS
  <1>11. /\ started.kind = kind /\ started.phase = "working"
         /\ started.key = key /\ started.books = books /\ kind \in Changing
    BY <1>10 DEF Changing
  <1>12. TaskFits(started)'
    BY <1>2, <1>6, <1>8, <1>9, <1>11
       DEF TaskFits, HasKey, ReadIsCurrent, WrittenIsStored, DeliveredIsFile, KeepsBusy,
           Opening, Changing
  <1>13. tasks' = [tasks EXCEPT ![t] = started] /\ tasks \in [Tasks -> Task \cup {None}]
    BY <1>4, <1>10 DEF Start, VaultTypeOK
  <1>14. MayRunBeside(started, t)'
    <2>1. SUFFICES ASSUME NEW u \in Tasks, u # t, tasks'[u] # None
                   PROVE  MayOverlap(started, tasks[u])'
      BY DEF MayRunBeside
    <2>2. tasks'[u] = tasks[u] /\ tasks[u] # None
      BY <1>13, <2>1
    <2>3. CASE tasks[u].kind = "hydrate"
      BY <2>2, <2>3 DEF MayOverlap
    <2>4. CASE tasks[u].kind = "download"
      <3>1. ReadIsCurrent(tasks[u])
        BY <1>5, <2>2 DEF Fits, TasksFit, TaskFits
      <3>2. tasks[u].phase # "unanswered" => books.changes \subseteq tasks[u].books.changes \cup beside'
        <4>1. SUFFICES ASSUME tasks[u].phase # "unanswered"
                       PROVE  books.changes \subseteq tasks[u].books.changes \cup beside'
          OBVIOUS
        <4>2. u \in Downloads
          BY <2>2, <2>4, <4>1 DEF Downloads, UnderWay
        <4>3. beside' = beside \cup {c}
          BY <4>2, <1>1
        <4>4. session.books.changes \subseteq tasks[u].books.changes \cup beside
          BY <3>1, <2>4, <4>1 DEF ReadIsCurrent
        <4>5. QED
          BY <4>3, <4>4, <1>8
      <3>3. QED
        BY <3>2, <2>2, <2>4, <1>11 DEF MayOverlap, Beside
    <2>5. QED
      BY <1>5, <2>2, <2>3, <2>4
  <1>15. beside \subseteq beside'
    BY <1>1
  <1>16. QED
    BY <1>2, <1>4, <1>10, <1>12, <1>14, <1>15, StartFits

(* A download starts on the books in memory, whatever other downloads there are. *)
LEMMA DownloadStarts ==
  ASSUME VaultTypeOK, CarriesBooks, Undisturbed, ~interrupted', NEW t \in Tasks,
         DownloadVault(t)
  PROVE  Fits'
  <1>1. PICK key, books : key = session.material /\ books = session.books
    OBVIOUS
  <1>2. /\ Start(t, "download", key, books, Removing) /\ beside' = beside
        /\ session' = session /\ books # None /\ ~session.busy
    BY <1>1 DEF DownloadVault, InBooks
  <1>3. /\ Fits
        /\ \A u \in Tasks : tasks[u] # None => tasks[u].kind \in {"hydrate", "download"}
    BY <1>2, StartsCalm DEF Start
  <1>4. key = books.vault
    BY <1>1, <1>2, <1>3 DEF Fits, SessionFits
  <1>5. PICK started :
          started = [kind |-> "download", phase |-> "working", key |-> key, books |-> books]
    OBVIOUS
  <1>6. TaskFits(started)'
    BY <1>1, <1>2, <1>4, <1>5
       DEF TaskFits, HasKey, ReadIsCurrent, WrittenIsStored, DeliveredIsFile, KeepsBusy,
           Opening, Changing
  <1>7. tasks' = [tasks EXCEPT ![t] = started] /\ tasks \in [Tasks -> Task \cup {None}]
    BY <1>2, <1>5 DEF Start, VaultTypeOK
  <1>8. MayRunBeside(started, t)'
    BY <1>3, <1>5, <1>7 DEF MayRunBeside, MayOverlap
  <1>9. QED
    BY <1>2, <1>5, <1>6, <1>8, StartFits

LEMMA PressFits ==
  ASSUME VaultTypeOK, CarriesBooks, Undisturbed, ~interrupted', NEW t \in Tasks, Press(t)
  PROVE  Fits'
  <1>1. CASE CreateVault(t)
    <2>1. PICK v \in New(Vaults) : StartBusy(t, "create", v, [vault |-> v, changes |-> {}])
      BY <1>1 DEF CreateVault
    <2>2. PICK books : books = [vault |-> v, changes |-> {}]
      OBVIOUS
    <2>3. StartBusy(t, "create", v, books) /\ books.vault = v
      BY <2>1, <2>2
    <2>4. AtGate /\ beside' = beside
      BY <1>1 DEF CreateVault
    <2>5. QED
      BY <2>3, <2>4, OpeningStarts DEF Opening
  <1>2. CASE UnlockLocal(t)
    BY <1>2, OpeningStarts DEF UnlockLocal, Opening
  <1>3. CASE UnlockFile(t)
    <2>1. PICK f \in files : StartBusy(t, "unlockFile", f.key, f.books)
      BY <1>3 DEF UnlockFile
    <2>2. AtGate /\ beside' = beside
      BY <1>3 DEF UnlockFile
    <2>3. f.key = f.books.vault
      BY <2>1, <2>2, GateIsCalm DEF Fits, SealedFit
    <2>4. QED
      BY <2>1, <2>2, <2>3, OpeningStarts DEF Opening
  <1>4. CASE ForgetBrowser(t)
    <2>1. PICK started :
            started = [kind |-> "forget", phase |-> "working", key |-> None, books |-> None]
      OBVIOUS
    <2>2. /\ Start(t, "forget", None, None, UnderWay)
          /\ session' = session /\ beside' = beside
      BY <1>4 DEF ForgetBrowser
    <2>3. Fits /\ \A u \in Tasks : tasks[u] # None => tasks[u].kind \in {"hydrate", "download"}
      BY <2>2, StartsCalm DEF Start
    <2>4. UnderWay = {}
      BY <2>2 DEF Start, Overtake
    <2>5. OnlyHydrateBesides(t)
      BY <2>4 DEF UnderWay, OnlyHydrateBesides
    <2>6. tasks' = [tasks EXCEPT ![t] = started]
      BY <2>1, <2>2 DEF Start
    <2>7. MayRunBeside(started, t)'
      BY <2>3, <2>5, <2>6, ReadingsFit DEF Fits
    <2>8. TaskFits(started)'
      BY <2>1 DEF TaskFits, HasKey, ReadIsCurrent, WrittenIsStored, DeliveredIsFile,
                  KeepsBusy, Opening, Changing
    <2>9. QED
      BY <2>1, <2>2, <2>7, <2>8, StartFits
  <1>5. QED
    BY <1>1, <1>2, <1>3, <1>4, ChangeStarts, DownloadStarts DEF Press

LEMMA InitFits == Init => Undisturbed
  <1> SUFFICES ASSUME Init PROVE Fits
    BY DEF Undisturbed
  <1>1. \A t \in Tasks : tasks[t] # None => tasks[t] = Hydrating
    BY DEF Init, OnlyHydrating
  <1>2. OverlapsFit
    BY <1>1 DEF OverlapsFit, MayOverlap, Hydrating
  <1>3. TasksFit
    BY <1>1 DEF TasksFit, TaskFits, HasKey, ReadIsCurrent, WrittenIsStored,
                DeliveredIsFile, KeepsBusy, Opening, Changing, Hydrating
  <1>4. SealedFit /\ SessionFits /\ SafeIsKept /\ Reminded
    BY DEF Init, Fresh, SealedFit, SessionFits, SafeIsKept, Reminded
  <1>5. QED
    BY <1>2, <1>3, <1>4 DEF Fits

(* Locking a calm session, with nothing under way, leaves it empty. *)
LEMMA LockFits ==
  ASSUME VaultTypeOK, CarriesBooks, Undisturbed, ~interrupted', Lock
  PROVE  Fits'
  <1>1. UnderWay = {} /\ ~interrupted /\ safe' = safe
    BY DEF Lock, Overtake
  <1>2. Fits
    BY <1>1 DEF Undisturbed
  <1>3. \A t \in Tasks : tasks'[t] = None
    BY <1>1 DEF UnderWay, Lock
  <1>4. OverlapsFit' /\ TasksFit'
    BY <1>3 DEF OverlapsFit, TasksFit
  <1>5. /\ session'.books = None /\ session'.material = None
        /\ session'.status = "locked"
    BY DEF Lock, VaultTypeOK, Session
  <1>6. SealedFit' /\ SessionFits' /\ SafeIsKept' /\ Reminded'
    BY <1>1, <1>2, <1>5 DEF Lock, Fits, SealedFit, SessionFits, SafeIsKept, Reminded
  <1>7. QED
    BY <1>4, <1>6 DEF Fits

LEMMA CloseTabFits ==
  ASSUME Undisturbed, ~interrupted', CloseTab
  PROVE  Fits'
  <1>1. Fits
    BY DEF CloseTab, Undisturbed
  <1>2. \A t \in Tasks : tasks'[t] # None => tasks'[t] = Hydrating
    BY DEF CloseTab, OnlyHydrating
  <1>3. OverlapsFit'
    BY <1>2 DEF OverlapsFit, MayOverlap, Hydrating
  <1>4. TasksFit'
    BY <1>2 DEF TasksFit, TaskFits, HasKey, ReadIsCurrent, WrittenIsStored,
                DeliveredIsFile, KeepsBusy, Opening, Changing, Hydrating
  <1>5. SealedFit' /\ SessionFits' /\ SafeIsKept' /\ Reminded'
    BY <1>1 DEF CloseTab, Fresh, Fits, SealedFit, SessionFits, SafeIsKept, Reminded
  <1>6. QED
    BY <1>3, <1>4, <1>5 DEF Fits

(* The storage read by the page's first reading or by an unlocking. *)
LEMMA LoadFits ==
  ASSUME VaultTypeOK, CarriesBooks, Fits, NEW t \in Tasks, tasks[t] # None, Load(t)
  PROVE  Fits'
  <1>1. PICK key, books :
          /\ key = IF stored = None THEN None ELSE stored.key
          /\ books = IF stored = None THEN None ELSE stored.books
    OBVIOUS
  <1>2. PICK next : next = [tasks[t] EXCEPT !.phase = "loaded", !.key = key, !.books = books]
    OBVIOUS
  <1>3. tasks[t] \in Task
    BY TaskType
  <1>4. /\ next.kind = tasks[t].kind /\ next.phase = "loaded"
        /\ next.key = key /\ next.books = books
    BY <1>2, <1>3 DEF Task
  <1>5. HasKey(next)
    BY <1>1, <1>4 DEF Fits, SealedFit, HasKey
  <1>6. tasks' = [tasks EXCEPT ![t] = next]
    <2>1. tasks \in [Tasks -> Task \cup {None}]
      BY DEF VaultTypeOK
    <2>2. tasks' = [tasks EXCEPT ![t].phase = "loaded", ![t].key = key, ![t].books = books]
      BY <1>1 DEF Load
    <2>3. QED
      BY <1>2, <2>1, <2>2
  <1>7. session \in Session
    BY DEF VaultTypeOK
  <1>8. /\ UNCHANGED <<stored, files, safe, opened, beside>>
        /\ session' = session \/ session' = [session EXCEPT !.busy = TRUE]
        /\ tasks[t].kind = "unlockLocal" =>
             stored # None /\ session' = [session EXCEPT !.busy = TRUE]
        /\ tasks[t].kind \in {"hydrate", "unlockLocal"}
    BY DEF Load
  <1>9. /\ session'.books = session.books /\ session'.material = session.material
        /\ session'.status = session.status /\ session'.backupStale = session.backupStale
        /\ session.busy => session'.busy
        /\ tasks[t].kind = "unlockLocal" => session'.busy
    BY <1>7, <1>8 DEF Session
  <1>10. SealedFit'
    BY <1>8 DEF Fits, SealedFit
  <1>11. SessionFits' /\ SafeIsKept' /\ Reminded'
    BY <1>8, <1>9, <1>10, LeftAlone
  <1>12. OthersFit(t)'
    BY <1>6, <1>8, <1>9, OthersStay DEF Fits
  <1>13. MayRunBeside(next, t)'
    BY <1>4, <1>6, <1>8, StillBeside DEF Fits, Changing
  <1>14. TaskFits(next)'
    <2>1. ReadIsCurrent(tasks[t])
      BY DEF Fits, TasksFit, TaskFits
    <2>2. QED
      BY <2>1, <1>1, <1>4, <1>5, <1>8, <1>9
         DEF TaskFits, HasKey, ReadIsCurrent, WrittenIsStored, DeliveredIsFile, KeepsBusy,
             Opening, Changing
  <1>15. OverlapsFit' /\ TasksFit'
    BY <1>6, <1>8, <1>12, <1>13, <1>14, GoesOnFits DEF Fits
  <1>16. QED
    BY <1>10, <1>11, <1>15 DEF Fits

LEMMA ProgressFits ==
  ASSUME VaultTypeOK, Fits, NEW t \in Tasks, Progress(t)
  PROVE  Fits'
  <1>1. session \in Session /\ UNCHANGED <<stored, files, tasks, safe, opened, beside>>
    BY DEF VaultTypeOK, Progress
  <1>2. /\ session'.books = session.books /\ session'.material = session.material
        /\ session'.status = session.status /\ session'.backupStale = session.backupStale
        /\ session'.busy
    BY <1>1 DEF Progress, Session
  <1>3. SealedFit'
    BY <1>1 DEF Fits, SealedFit
  <1>4. SessionFits' /\ SafeIsKept' /\ Reminded'
    BY <1>1, <1>2, <1>3, LeftAlone
  <1>5. OverlapsFit'
    BY <1>1 DEF Fits, OverlapsFit, MayOverlap, Beside
  <1>6. TasksFit'
    BY <1>1, <1>2 DEF Fits, TasksFit, TaskFits, HasKey, ReadIsCurrent, WrittenIsStored,
                      DeliveredIsFile, KeepsBusy
  <1>7. QED
    BY <1>3, <1>4, <1>5, <1>6 DEF Fits

(* What the others had written is stored still, though a write completes beside *)
(* them: a change's, which only downloads overlap, or a download's, which has   *)
(* all of a change but what is made beside it.                                  *)
LEMMA CommitBeside ==
  ASSUME VaultTypeOK, CarriesBooks, Fits, NEW t \in Tasks, tasks[t] # None, Commit(t)
  PROVE  OthersFit(t)'
  <1>1. tasks \in [Tasks -> Task \cup {None}]
    BY DEF VaultTypeOK
  <1>2. /\ UNCHANGED <<session, files, beside>>
        /\ \A u \in Tasks : u # t => tasks'[u] = tasks[u]
    BY <1>1 DEF Commit, Reaches
  <1>3. SUFFICES ASSUME NEW u \in Tasks, u # t, tasks'[u] # None PROVE TaskFits(tasks[u])'
    BY DEF OthersFit
  <1>4. PICK task : task = tasks[u]
    OBVIOUS
  <1>5. /\ tasks'[u] = task /\ task # None /\ TaskFits(task)
        /\ MayOverlap(tasks[t], task)
    BY <1>2, <1>3, <1>4 DEF Fits, TasksFit, OverlapsFit
  <1>6. HasKey(task) /\ ReadIsCurrent(task)' /\ DeliveredIsFile(task)' /\ KeepsBusy(task)'
    BY <1>2, <1>5 DEF TaskFits, HasKey, ReadIsCurrent, DeliveredIsFile, KeepsBusy
  <1>7. WrittenIsStored(task)'
    <2>1. tasks[t].kind # "hydrate"
      BY DEF Commit, Writing
    <2>2. CASE task.kind \in {"hydrate", "download"}
      BY <2>2 DEF WrittenIsStored, Changing
    <2>3. CASE task.kind \notin {"hydrate", "download"}
      <3>1. tasks[t].kind = "download" /\ Beside(tasks[t], task)
        BY <1>5, <2>1, <2>3 DEF MayOverlap, Beside, Changing
      <3>2. tasks[t].phase = "delivered" /\ task.kind \in Changing
        BY <3>1 DEF Commit, Writing, Beside
      <3>3. task.books.changes \ beside \subseteq tasks[t].books.changes
        BY <3>1, <3>2 DEF Beside
      <3>4. PICK written : written = [key |-> tasks[t].key, books |-> tasks[t].books]
        OBVIOUS
      <3>5. stored' = written
        BY <3>1, <3>4 DEF Commit
      <3>6. tasks[t].books # None /\ tasks[t].key # None /\ tasks[t] \in Task
        BY <3>1, TaskType DEF Carries, Saving
      <3>7. written \in Sealed /\ written.books = tasks[t].books
        BY <3>4, <3>6 DEF Task, Sealed
      <3>8. stored' # None /\ stored'.books = tasks[t].books
        BY <3>5, <3>7, NoneAssumption
      <3>9. QED
        BY <3>2, <3>3, <3>8, <1>2 DEF WrittenIsStored, Changing
    <2>4. QED
      BY <2>2, <2>3
  <1>8. QED
    BY <1>5, <1>6, <1>7
       DEF TaskFits, HasKey, ReadIsCurrent, WrittenIsStored, DeliveredIsFile, KeepsBusy

(* A file delivered, a write completed, refused or aborted. *)
LEMMA StepFits ==
  ASSUME VaultTypeOK, CarriesBooks, Fits, NEW t \in Tasks, tasks[t] # None,
         Deliver(t) \/ Commit(t) \/ Refuse(t) \/ Abort(t)
  PROVE  Fits'
  <1>1. /\ tasks[t].kind \in Saving \cup {"forget"} /\ UNCHANGED <<session, opened, beside>>
        /\ tasks[t].phase \in {"working", "delivered"}
    BY DEF Deliver, Commit, Refuse, Abort, Writing, Saving
  <1>2. /\ tasks[t] \in Task /\ Carries(tasks[t]) /\ TaskFits(tasks[t])
        /\ HasKey(tasks[t]) /\ ReadIsCurrent(tasks[t])
        /\ WrittenIsStored(tasks[t]) /\ DeliveredIsFile(tasks[t]) /\ KeepsBusy(tasks[t])
    BY TaskType DEF Fits, TasksFit, TaskFits
  <1>3. PICK task : task = tasks[t]
    OBVIOUS
  <1>4. PICK phase : Reaches(t, phase) /\ (phase = "stored" <=> Commit(t))
                     /\ (phase = "delivered" <=> Deliver(t))
    <2>1. CASE Deliver(t)
      <3>1. ~Commit(t)
        BY <2>1 DEF Deliver, Commit, Writing
      <3>2. QED
        BY <2>1, <3>1 DEF Deliver
    <2>2. CASE Commit(t)
      <3>1. ~Deliver(t)
        BY <2>2 DEF Deliver, Commit, Writing
      <3>2. QED
        BY <2>2, <3>1 DEF Commit
    <2>3. CASE ~Deliver(t) /\ ~Commit(t)
      BY <2>3 DEF Refuse, Abort
    <2>4. QED
      BY <2>1, <2>2, <2>3
  <1>5. PICK next : next = [task EXCEPT !.phase = phase]
    OBVIOUS
  <1>6. /\ next.kind = task.kind /\ next.phase = phase
        /\ next.key = task.key /\ next.books = task.books
    BY <1>2, <1>3, <1>5 DEF Task
  <1>7. tasks' = [tasks EXCEPT ![t] = next]
    BY <1>3, <1>4, <1>5 DEF Reaches
  <1> DEFINE written == [key |-> task.key, books |-> task.books]
  <1>8. files' = IF Deliver(t) THEN files \cup {written} ELSE files
    BY <1>3 DEF Deliver, Commit, Refuse, Abort
  <1>9. stored' = IF ~Commit(t) THEN stored
                  ELSE IF task.kind = "forget" THEN None ELSE written
    BY <1>3 DEF Deliver, Commit, Refuse, Abort
  <1>10. safe' = IF Commit(t) /\ task.kind \in {"create", "unlockFile", "forget"}
                 THEN {} ELSE safe
    BY <1>3 DEF Deliver, Commit, Refuse, Abort
  <1>11. task.kind # "forget" =>
           /\ task.books # None /\ task.key = task.books.vault
           /\ written # None /\ written.key = task.key /\ written.books = task.books
    <2>1. task.kind # "forget" => task.books # None /\ task.key = task.books.vault
      BY <1>1, <1>2, <1>3 DEF Carries, HasKey
    <2>2. task.kind # "forget" => written \in Sealed
      BY <1>1, <1>2, <1>3 DEF Carries, Task, Sealed
    <2>3. QED
      BY <2>1, <2>2, NoneAssumption
  <1>12. TaskFits(next)'
    <2>1. HasKey(next)'
      BY <1>2, <1>3, <1>6 DEF HasKey
    <2>2. ReadIsCurrent(next)' /\ KeepsBusy(next)'
      BY <1>1, <1>2, <1>3, <1>6 DEF ReadIsCurrent, KeepsBusy
    <2>3. WrittenIsStored(next)'
      <3>1. (next.kind \in {"create", "unlockFile"} \cup Changing /\ next.phase = "stored") =>
              (stored' # None /\ stored'.books = next.books)
        BY <1>4, <1>6, <1>9, <1>11 DEF Changing
      <3>2. next.kind # "unlockLocal"
        BY <1>1, <1>3, <1>6 DEF Saving
      <3>3. QED
        BY <3>1, <3>2 DEF WrittenIsStored
    <2>4. DeliveredIsFile(next)'
      <3>1. SUFFICES ASSUME next.kind = "download",
                            next.phase \in {"delivered", "stored", "refused"}
                     PROVE  written \in files'
        BY <1>6 DEF DeliveredIsFile
      <3>2. CASE Deliver(t)
        BY <3>2, <1>8
      <3>3. CASE ~Deliver(t)
        <4>1. task.phase = "delivered"
          BY <3>1, <3>3, <1>3, <1>6 DEF Commit, Refuse, Abort, Writing
        <4>2. QED
          BY <3>1, <3>3, <4>1, <1>2, <1>3, <1>6, <1>8 DEF DeliveredIsFile
      <3>4. QED
        BY <3>2, <3>3
    <2>5. QED
      BY <2>1, <2>2, <2>3, <2>4 DEF TaskFits
  <1> HIDE DEF written
  <1>13. OthersFit(t)'
    <2>1. CASE Commit(t)
      BY <2>1, CommitBeside
    <2>2. CASE ~Commit(t)
      BY <2>2, <1>1, <1>7, <1>8, <1>9, OthersStay DEF Fits
    <2>3. QED
      BY <2>1, <2>2
  <1>14. MayRunBeside(next, t)'
    BY <1>1, <1>3, <1>6, <1>7, StillBeside DEF Fits
  <1>15. OverlapsFit' /\ TasksFit'
    BY <1>1, <1>7, <1>12, <1>13, <1>14, GoesOnFits DEF Fits
  <1>16. task.kind \in Saving \cup {"forget"} /\ (Deliver(t) => task.kind = "download")
    BY <1>1, <1>3 DEF Deliver
  <1>17. SealedFit'
    BY <1>8, <1>9, <1>11, <1>16 DEF Fits, SealedFit
  <1>18. CASE ~Commit(t)
    <2>1. SessionFits' /\ SafeIsKept' /\ Reminded'
      BY <1>18, <1>1, <1>8, <1>9, <1>10, <1>17, LeftAlone
    <2>2. QED
      BY <2>1, <1>15, <1>17 DEF Fits
  <1>19. CASE Commit(t)
    <2>1. SafeIsKept'
      <3>1. SafeIsKept
        BY DEF Fits
      <3>2. CASE task.kind \in {"create", "unlockFile", "forget"}
        <4>1. safe' = {}
          BY <3>2, <1>10, <1>19
        <4>2. QED
          BY <4>1 DEF SafeIsKept
      <3>3. CASE task.kind \in Changing \cup {"download"}
        <4>1. stored' # None /\ stored'.books = task.books /\ safe' = safe
          BY <3>3, <1>9, <1>10, <1>11, <1>19 DEF Changing
        <4>2. task.phase # "unanswered"
          BY <1>1, <1>3
        <4>3. session.books # None /\ session.books.changes \subseteq task.books.changes \cup beside
          BY <3>3, <4>2, <1>2, <1>3 DEF ReadIsCurrent, Changing
        <4>4. safe \subseteq session.books.changes
          BY <3>1, <4>3 DEF SafeIsKept
        <4>5. QED
          BY <4>1, <4>3, <4>4, <1>1 DEF SafeIsKept
      <3>4. QED
        BY <3>2, <3>3, <1>16 DEF Saving, Changing
    <2>2. ~Deliver(t)
      BY <1>19 DEF Deliver, Commit, Writing
    <2>3. UNCHANGED <<session, opened, beside, files>>
      BY <2>2, <1>1, <1>8
    <2>4. SessionFits' /\ Reminded'
      BY <2>3 DEF Fits, SessionFits, Reminded, SameButBeside
    <2>5. QED
      BY <2>1, <2>4, <1>15, <1>17 DEF Fits
  <1>20. QED
    BY <1>18, <1>19

(* An operation ends and leaves the books as they were. *)
LEMMA EndsQuietly ==
  ASSUME VaultTypeOK, Fits, NEW t \in Tasks, tasks[t] # None, Ends(t),
         UNCHANGED <<stored, files, beside>>, session'.books = session.books,
         (session.busy => session'.busy) \/ tasks[t].kind \in Opening \cup Changing
  PROVE  OverlapsFit' /\ TasksFit'
  <1>1. tasks' = [tasks EXCEPT ![t] = None]
    BY DEF Ends
  <1>2. OthersFit(t)'
    BY <1>1, OthersStay DEF Fits
  <1>3. QED
    BY <1>1, <1>2, GoesOnFits DEF Fits

LEMMA FailFits ==
  ASSUME VaultTypeOK, CarriesBooks, Fits, NEW t \in Tasks, tasks[t] # None, Fail(t)
  PROVE  Fits'
  <1>1. session \in Session /\ Ends(t) /\ tasks[t].kind \in Kinds
        /\ UNCHANGED <<stored, files, safe, opened, beside>>
    BY TaskType DEF VaultTypeOK, Fail
  <1>2. /\ session'.books = session.books /\ session'.material = session.material
        /\ session'.backupStale = session.backupStale
        /\ session.books # None => session'.status = session.status
        /\ session.books = None =>
             (session'.status = session.status \/ session'.status = "locked")
    BY <1>1 DEF Fail, Session
  <1>3. SealedFit' /\ SessionFits' /\ SafeIsKept' /\ Reminded'
    BY <1>1, <1>2 DEF Fits, SealedFit, SessionFits, SafeIsKept, Reminded, SameButBeside
  <1>4. (session.busy => session'.busy) \/ tasks[t].kind \in Opening \cup Changing
    BY <1>1 DEF Fail, Session, Kinds, Opening, Changing
  <1>5. OverlapsFit' /\ TasksFit'
    BY <1>1, <1>2, <1>4, EndsQuietly
  <1>6. QED
    BY <1>3, <1>5 DEF Fits

(* An operation that ends leaves at most readings beside it. *)
LEMMA EndsFits ==
  ASSUME VaultTypeOK, Fits, NEW t \in Tasks, tasks[t] # None, Ends(t), beside' = beside,
         tasks[t].kind \in Opening \cup {"forget"}
  PROVE  OverlapsFit' /\ TasksFit'
  <1>1. tasks' = [tasks EXCEPT ![t] = None] /\ OnlyHydrateBesides(t)
    BY OnlyReadings DEF Ends, Fits
  <1>2. OthersFit(t)'
    BY <1>1, ReadingsFit DEF Fits
  <1>3. QED
    BY <1>1, <1>2, GoesOnFits DEF Fits

LEMMA FinishHydrateFits ==
  ASSUME VaultTypeOK, CarriesBooks, Fits, NEW t \in Tasks, tasks[t] # None, FinishHydrate(t)
  PROVE  Fits'
  <1>1. session \in Session /\ Ends(t)
        /\ UNCHANGED <<stored, files, safe, opened, beside>>
    BY DEF VaultTypeOK, FinishHydrate
  <1>2. /\ session'.books = session.books /\ session'.material = session.material
        /\ session'.backupStale = session.backupStale /\ session'.busy = session.busy
        /\ session.books # None => session'.status = session.status
        /\ session.books = None => session'.status = "locked"
    BY <1>1 DEF FinishHydrate, Session
  <1>3. SealedFit' /\ SessionFits' /\ SafeIsKept' /\ Reminded'
    BY <1>1, <1>2 DEF Fits, SealedFit, SessionFits, SafeIsKept, Reminded, SameButBeside
  <1>4. OverlapsFit' /\ TasksFit'
    BY <1>1, <1>2, EndsQuietly
  <1>5. QED
    BY <1>3, <1>4 DEF Fits

(* Books created or unlocked: all their changes are in what is stored. *)
LEMMA FinishOpeningFits ==
  ASSUME VaultTypeOK, CarriesBooks, Fits, ~interrupted, NEW t \in Tasks,
         tasks[t] # None, FinishOpening(t)
  PROVE  Fits'
  <1>1. /\ Carries(tasks[t]) /\ HasKey(tasks[t]) /\ ReadIsCurrent(tasks[t])
        /\ WrittenIsStored(tasks[t])
    BY TaskType DEF Fits, TasksFit, TaskFits
  <1>2. tasks[t].books # None /\ tasks[t].key = tasks[t].books.vault
    BY <1>1 DEF FinishOpening, Carries, HasKey, Saving
  <1>3. OverlapsFit' /\ TasksFit'
    BY EndsFits DEF FinishOpening, Opening
  <1>4. /\ session'.books = tasks[t].books /\ session'.material = tasks[t].key
        /\ session'.status = "open" /\ opened' = tasks[t].books
        /\ UNCHANGED <<stored, files, beside>>
    BY DEF FinishOpening
  <1>5. SealedFit' /\ SessionFits' /\ Reminded'
    BY <1>2, <1>4 DEF Fits, SealedFit, SessionFits, Reminded, SameButBeside
  <1>6. SafeIsKept'
    <2>1. CASE tasks[t].kind = "unlockLocal"
      <3>1. /\ stored # None /\ stored.books = tasks[t].books
            /\ safe' = safe \ (beside \ tasks[t].books.changes)
        BY <2>1, <1>1 DEF FinishOpening, WrittenIsStored
      <3>2. safe \ beside \subseteq tasks[t].books.changes
        BY <3>1 DEF Fits, SafeIsKept
      <3>3. QED
        BY <3>1, <3>2, <1>4 DEF SafeIsKept
    <2>2. CASE tasks[t].kind # "unlockLocal" /\ tasks[t].phase = "refused"
      <3>1. safe' = {}
        BY <2>2 DEF FinishOpening
      <3>2. QED
        BY <3>1 DEF SafeIsKept
    <2>3. CASE tasks[t].kind # "unlockLocal" /\ tasks[t].phase # "refused"
      <3>1. tasks[t].kind \in {"create", "unlockFile"} /\ tasks[t].phase = "stored"
        BY <2>3 DEF FinishOpening, Answered
      <3>2. stored # None /\ stored.books = tasks[t].books
        BY <3>1, <1>1 DEF WrittenIsStored
      <3>3. safe' = tasks[t].books.changes
        BY <2>3 DEF FinishOpening
      <3>4. QED
        BY <3>2, <3>3, <1>4 DEF SafeIsKept
    <2>4. QED
      BY <2>1, <2>2, <2>3
  <1>7. QED
    BY <1>3, <1>5, <1>6 DEF Fits

(* A change put back in memory: it was made to the books still there, and the   *)
(* downloads beside it have all of it but what is made beside them.             *)
LEMMA FinishChangeFits ==
  ASSUME VaultTypeOK, CarriesBooks, Fits, NEW t \in Tasks,
         tasks[t] # None, FinishChange(t)
  PROVE  Fits'
  <1>1. /\ Carries(tasks[t]) /\ ReadIsCurrent(tasks[t]) /\ WrittenIsStored(tasks[t])
        /\ session \in Session /\ tasks \in [Tasks -> Task \cup {None}]
    BY TaskType DEF Fits, TasksFit, TaskFits, VaultTypeOK
  <1>2. /\ tasks[t].books # None /\ session.books # None /\ tasks[t].kind \in Changing
        /\ session.books.vault = tasks[t].books.vault
        /\ session.books.changes \subseteq tasks[t].books.changes
    BY <1>1 DEF FinishChange, Carries, ReadIsCurrent, Saving, Changing
  <1>3. /\ session'.books = tasks[t].books /\ session'.material = session.material
        /\ session'.status = session.status /\ session'.backupStale
        /\ UNCHANGED <<stored, files, beside>> /\ tasks' = [tasks EXCEPT ![t] = None]
    BY <1>1 DEF FinishChange, Session, Ends
  <1>4. OthersFit(t)'
    <2>1. SUFFICES ASSUME NEW u \in Tasks, u # t, tasks'[u] # None PROVE TaskFits(tasks[u])'
      BY DEF OthersFit
    <2>2. PICK task : task = tasks[u]
      OBVIOUS
    <2>3. tasks'[u] = task /\ TaskFits(task) /\ MayOverlap(tasks[t], task)
      BY <1>1, <1>3, <2>1, <2>2 DEF Fits, TasksFit, OverlapsFit
    <2>4. \/ task.kind = "hydrate"
          \/ task.kind = "download" /\ Beside(task, tasks[t])
      BY <2>3, <1>2 DEF MayOverlap, Beside, Changing
    <2>5. ReadIsCurrent(task)'
      <3>1. CASE task.kind = "hydrate"
        BY <3>1 DEF ReadIsCurrent, Opening, Changing
      <3>2. CASE task.kind = "download" /\ Beside(task, tasks[t])
        <4>1. ReadIsCurrent(task)
          BY <2>3 DEF TaskFits
        <4>2. QED
          BY <3>2, <4>1, <1>2, <1>3 DEF ReadIsCurrent, Beside, Opening, Changing
      <3>3. QED
        BY <2>4, <3>1, <3>2
    <2>6. QED
      BY <2>3, <2>4, <2>5, <1>3
         DEF TaskFits, HasKey, ReadIsCurrent, WrittenIsStored, DeliveredIsFile, KeepsBusy,
             Opening, Changing
  <1>5. OverlapsFit' /\ TasksFit'
    BY <1>3, <1>4, GoesOnFits DEF Fits
  <1>6. SealedFit' /\ SessionFits' /\ Reminded'
    BY <1>2, <1>3 DEF Fits, SealedFit, SessionFits, Reminded
  <1>7. SafeIsKept'
    <2>1. SafeIsKept
      BY DEF Fits
    <2>2. CASE tasks[t].phase = "stored"
      <3>1. stored # None /\ tasks[t].books.changes \ beside \subseteq stored.books.changes
        BY <2>2, <1>1, <1>2 DEF WrittenIsStored
      <3>2. safe' = safe \/ safe' = safe \cup tasks[t].books.changes
        BY DEF FinishChange
      <3>3. QED
        BY <2>1, <3>1, <3>2, <1>2, <1>3 DEF SafeIsKept
    <2>3. CASE tasks[t].phase # "stored"
      <3>1. safe' = safe
        BY <2>3 DEF FinishChange, Answered
      <3>2. QED
        BY <2>1, <3>1, <1>2, <1>3 DEF SafeIsKept
    <2>4. QED
      BY <2>2, <2>3
  <1>8. QED
    BY <1>5, <1>6, <1>7 DEF Fits

(* The reminder is lowered for the books that were delivered, and for what was *)
(* changed beside.                                                             *)
LEMMA FinishDownloadFits ==
  ASSUME VaultTypeOK, CarriesBooks, Fits, NEW t \in Tasks,
         tasks[t] # None, FinishDownload(t)
  PROVE  Fits'
  <1>1. /\ Carries(tasks[t]) /\ HasKey(tasks[t]) /\ ReadIsCurrent(tasks[t])
        /\ DeliveredIsFile(tasks[t]) /\ session \in Session
    BY TaskType DEF Fits, TasksFit, TaskFits, VaultTypeOK
  <1>2. PICK file : file = [key |-> tasks[t].key, books |-> tasks[t].books]
    OBVIOUS
  <1>3. /\ file \in files /\ file.books = tasks[t].books
        /\ file.key = session.books.vault /\ SameButBeside(file.books)
    BY <1>1, <1>2 DEF FinishDownload, Answered, Carries, HasKey, ReadIsCurrent,
                      DeliveredIsFile, SameButBeside, Saving
  <1>4. /\ session'.books = session.books /\ session'.material = session.material
        /\ session'.status = session.status /\ session'.busy = session.busy
        /\ UNCHANGED <<stored, files, safe, opened, beside>> /\ Ends(t)
    BY <1>1 DEF FinishDownload, Session
  <1>5. OverlapsFit' /\ TasksFit'
    BY <1>4, EndsQuietly
  <1>6. session.books # None
    BY <1>1 DEF FinishDownload, ReadIsCurrent
  <1>7. file.key = session'.material /\ SameButBeside(file.books)'
    BY <1>3, <1>4, <1>6 DEF Fits, SessionFits, SameButBeside
  <1>8. Reminded'
    BY <1>3, <1>4, <1>7 DEF Reminded
  <1>9. SealedFit' /\ SessionFits' /\ SafeIsKept'
    BY <1>4 DEF Fits, SealedFit, SessionFits, SafeIsKept
  <1>10. QED
    BY <1>5, <1>8, <1>9 DEF Fits

LEMMA FinishForgetFits ==
  ASSUME VaultTypeOK, CarriesBooks, Fits, NEW t \in Tasks,
         tasks[t] # None, FinishForget(t)
  PROVE  Fits'
  <1>1. OverlapsFit' /\ TasksFit'
    BY EndsFits DEF FinishForget
  <1>2. SealedFit' /\ SessionFits' /\ SafeIsKept' /\ Reminded'
    BY DEF FinishForget, Fresh, Fits, SealedFit, SessionFits, SafeIsKept, Reminded
  <1>3. QED
    BY <1>1, <1>2 DEF Fits

LEMMA NextFits ==
  ASSUME VaultTypeOK, CarriesBooks, Undisturbed, [Next]_vaultVars
  PROVE  Undisturbed'
  <1> SUFFICES ASSUME ~interrupted' PROVE Fits'
    BY DEF Undisturbed
  <1>1. CASE Lock
    BY <1>1, LockFits
  <1>2. CASE CloseTab
    BY <1>2, CloseTabFits
  <1>3. ASSUME NEW t \in Tasks, Press(t) PROVE Fits'
    BY <1>3, PressFits
  <1>4. ASSUME NEW t \in Tasks, tasks[t] # None, Progress(t) PROVE Fits'
    <2>1. Fits
      BY <1>4 DEF Progress, Undisturbed
    <2>2. QED
      BY <1>4, <2>1, ProgressFits
  <1>5. ASSUME NEW t \in Tasks, Continue(t) PROVE Fits'
    <2>1. tasks[t] # None
      BY <1>5 DEF Continue
    <2>2. Fits /\ ~interrupted
      BY <1>5 DEF Continue, Load, Deliver, Commit, Refuse, Abort, Fail, Finish, FinishHydrate,
                  FinishOpening, FinishChange, FinishDownload, FinishForget, Undisturbed
    <2>3. CASE Load(t)
      BY <2>1, <2>2, <2>3, LoadFits
    <2>4. CASE Deliver(t) \/ Commit(t) \/ Refuse(t) \/ Abort(t)
      BY <2>1, <2>2, <2>4, StepFits
    <2>5. CASE Fail(t)
      BY <2>1, <2>2, <2>5, FailFits
    <2>6. CASE Finish(t)
      BY <2>1, <2>2, <2>6, FinishHydrateFits, FinishOpeningFits, FinishChangeFits,
         FinishDownloadFits, FinishForgetFits DEF Finish
    <2>7. QED
      BY <1>5, <2>3, <2>4, <2>5, <2>6 DEF Continue
  <1>6. CASE UNCHANGED vaultVars
    <2>1. Fits
      BY <1>6 DEF vaultVars, Undisturbed
    <2>2. QED
      BY <1>6, <2>1 DEF vaultVars, Fits, OverlapsFit, MayOverlap, Beside, TasksFit, TaskFits,
           HasKey, ReadIsCurrent, WrittenIsStored, DeliveredIsFile, KeepsBusy, SealedFit,
           SessionFits, SafeIsKept, Reminded, SameButBeside
  <1>7. QED
    BY <1>1, <1>2, <1>3, <1>4, <1>5, <1>6 DEF Next

(* In a session that Lock and Remove left undisturbed, whatever an operation    *)
(* read before it waited is still current when it ends.  It overlaps no other   *)
(* but the first reading of the storage and downloads; what is changed while a  *)
(* download is under way is remembered, and nothing else may differ from it.    *)
THEOREM SessionUndisturbed == VaultSpec => []Undisturbed
  <1> DEFINE Inv == VaultTypeOK /\ CarriesBooks /\ Undisturbed
  <1>1. Init => Inv
    BY InitTypes, InitFits
  <1>2. Inv /\ [Next]_vaultVars => Inv'
    BY NextTypes, NextFits
  <1>3. QED
    BY <1>1, <1>2, PTL DEF VaultSpec

(* A change reported saved stays in the books in memory until they are closed,  *)
(* also beside downloads, and in the stored vault until it is forgotten or      *)
(* replaced, but for changes begun while a download was under way.              *)
THEOREM SavedChangesKept == VaultSpec => []NoSavedChangeIsLost
  <1>1. Undisturbed => NoSavedChangeIsLost
    BY DEF Undisturbed, Fits, SafeIsKept, NoSavedChangeIsLost
  <1>2. QED
    BY <1>1, SessionUndisturbed, PTL

(* While nothing asks for a download, the books are as opened, or in a file    *)
(* under their key, but for changes begun while a download was under way.       *)
THEOREM ReminderIsHonest == VaultSpec => []ReminderTellsOfChanges
  <1>1. Undisturbed => ReminderTellsOfChanges
    BY DEF Undisturbed, Fits, Reminded, ReminderTellsOfChanges
  <1>2. QED
    BY <1>1, SessionUndisturbed, PTL

(* The key is in memory exactly while its books are, and seals only its own. *)
THEOREM KeyStaysWithItsBooks == VaultSpec => []KeyGoesWithItsBooks
  <1>1. Undisturbed => KeyGoesWithItsBooks
    BY DEF Undisturbed, Fits, SessionFits, SealedFit, KeyGoesWithItsBooks
  <1>2. QED
    BY <1>1, SessionUndisturbed, PTL
=============================================================================
