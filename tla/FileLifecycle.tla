---------------------------- MODULE FileLifecycle ----------------------------
(***************************************************************************)
(* The files of conversation threads: rows in PostgreSQL, which are the    *)
(* ledger, and on disk a metadata file per row and the content objects the *)
(* rows share by hash.                                                     *)
(*                                                                         *)
(* Attempts to upload or to copy a file publish inside the section of      *)
(* ObjectPublication; users delete files, trash, restore and purge threads;*)
(* a purge collects the objects nobody refers to.  A client that lost an   *)
(* answer sends the upload again with the same request id: the attempt is  *)
(* idle again, or another one for the same row runs beside it.  An action  *)
(* is one transaction, one file operation, or the code between two awaits. *)
(***************************************************************************)
EXTENDS ObjectPublication

CONSTANTS
    Files, Contents, Keys,
    Uploads,       \* attempts to upload
    Copies,        \* attempts of a fork to copy a file of the source thread
    Indexed,       \* the uploads that end with a meteorological data set
    ThreadOf, ContentOf, KeyOf,    \* what a row says of its file
    FileOf,        \* the row an attempt reserves
    SourceOf       \* the row a copy is made from

Attempts == Publishers     \* they enter the section as publishers
Threads  == Collectors     \* their purges as collectors

ASSUME FileLifecycleConstants ==
    /\ Attempts = Uploads \cup Copies /\ Uploads \cap Copies = {} /\ Indexed \subseteq Uploads
    /\ ThreadOf \in [Files -> Threads]
    /\ ContentOf \in [Files -> Contents]
    /\ KeyOf \in [Files -> Keys]
    /\ FileOf \in [Attempts -> Files]
    /\ SourceOf \in [Copies -> Files]
    \* A copy has a new id and no request id, and the bytes of its source.
    /\ \A a \in Copies : /\ ContentOf[FileOf[a]] = ContentOf[SourceOf[a]]
                         /\ \A b \in Attempts \ {a} : FileOf[b] # FileOf[a]

VARIABLES
    \* PostgreSQL
    thread,        \* "live", "trashed", or "purged": its row is gone
    row,           \* the status of a file's row
    dataset,       \* the files a ready meteorological data set refers to
    \* the disk
    disk,          \* content objects
    meta,          \* files with a metadata.json
    \* the process
    at,            \* where an attempt is
    old,           \* retired files an attempt has still to remove
    unlinking,     \* deleted files whose metadata is about to be removed
    work,          \* where the purge of a thread is
    seen,          \* the queries for references that have answered
    refs           \* the references they returned

db    == <<thread, row, dataset>>
store == <<disk, meta>>
try   == <<at, old>>
purge == <<work, seen, refs>>
vars  == <<db, store, try, unlinking, purge, gate>>

Steps == {"idle", "admitted", "reserved", "replay", "section", "written", "cleaning",
          "indexing", "undo"}
Queries == {"files", "datasets"}

TypeOK ==
    /\ thread \in [Threads -> {"live", "trashed", "purged"}]
    /\ row \in [Files -> {"none", "pending", "ready", "deleted"}]
    /\ dataset \in SUBSET Files
    /\ disk \in SUBSET Contents
    /\ meta \in SUBSET Files
    /\ at \in [Attempts -> Steps]
    /\ old \in [Attempts -> SUBSET Files]
    /\ unlinking \in SUBSET Files
    /\ work \in [Threads -> {"none", "queue", "section", "listing", "done", "failed"}]
    /\ seen \in [Threads -> SUBSET Queries]
    /\ refs \in [Threads -> SUBSET Contents]
    /\ GateTypeOK

Init ==
    /\ thread = [t \in Threads |-> "live"]
    /\ row = [f \in Files |-> "none"] /\ dataset = {}
    /\ disk = {} /\ meta = {}
    /\ at = [a \in Attempts |-> "idle"] /\ old = [a \in Attempts |-> {}]
    /\ unlinking = {}
    /\ work = [t \in Threads |-> "none"]
    /\ seen = [t \in Threads |-> {}] /\ refs = [t \in Threads |-> {}]
    /\ GateInit

-----------------------------------------------------------------------------
(* An upload, or the copy of one file by a fork.                           *)

Home(f) == thread[ThreadOf[f]]
Go(a, step) == at' = [at EXCEPT ![a] = step]

\* The route finds the thread in its index.  A fork lists the ready files, and
\* copies each of them once.
Admit(a) ==
    /\ at[a] = "idle"
    /\ Home(FileOf[a]) = "live"
    /\ a \in Copies => row[SourceOf[a]] = "ready" /\ row[FileOf[a]] = "none"
    /\ Go(a, "admitted")
    /\ UNCHANGED <<db, store, old, unlinking, purge, gate>>

\* reservePending inserts the row, or finds the one of an earlier attempt.
Reserve(a) ==
    /\ at[a] = "admitted"
    /\ Home(FileOf[a]) # "purged"
    /\ \/ /\ row[FileOf[a]] \in {"none", "pending"}
          /\ row' = [row EXCEPT ![FileOf[a]] = "pending"]
          /\ Go(a, "reserved")
       \/ /\ row[FileOf[a]] = "ready"
          /\ Go(a, "replay")
          /\ UNCHANGED row
    /\ UNCHANGED <<thread, dataset, store, old, unlinking, purge, gate>>

\* The thread is gone, or the row was deleted, or the database fails.
ReserveFails(a) ==
    /\ at[a] = "admitted"
    /\ Go(a, "idle")
    /\ UNCHANGED <<db, store, old, unlinking, purge, gate>>

Enter(a) ==
    /\ at[a] = "reserved"
    /\ Go(a, "section")
    /\ AcquirePublisher(a)
    /\ UNCHANGED <<db, store, old, unlinking, purge>>

\* Seeded fault: the metadata is written before the object is there.
PublishMetadataOnly(a) ==
    /\ at[a] = "section" /\ a \in publishing
    /\ a \in Copies => SourceOf[a] \in meta
    /\ meta' = meta \cup {FileOf[a]}
    /\ Go(a, "written")
    /\ UNCHANGED <<db, disk, old, unlinking, purge, gate>>

\* The object and the metadata; a copy shares the object of its source, whose
\* metadata it must find.
Publish(a) ==
    /\ at[a] = "section" /\ a \in publishing
    /\ a \in Copies => SourceOf[a] \in meta
    /\ disk' = IF a \in Copies THEN disk ELSE disk \cup {ContentOf[FileOf[a]]}
    /\ meta' = meta \cup {FileOf[a]}
    /\ Go(a, "written")
    /\ UNCHANGED <<db, old, unlinking, purge, gate>>

\* The row stays pending, for another attempt.
PublishFails(a) ==
    /\ at[a] = "section" /\ a \in publishing
    /\ disk' \in {disk, IF a \in Copies THEN disk ELSE disk \cup {ContentOf[FileOf[a]]}}
    /\ ReleasePublisher(a)
    /\ Go(a, "idle")
    /\ UNCHANGED <<db, meta, old, unlinking, purge>>

Others(f) == {g \in Files \ {f} : ThreadOf[g] = ThreadOf[f] /\ KeyOf[g] = KeyOf[f]}

\* The transaction of promoteReadyAndRetire.
CanPromote(f) == Home(f) # "purged" /\ row[f] \in {"pending", "ready"}
Promoted(f) ==
    IF row[f] = "ready" THEN row
    ELSE [g \in Files |-> IF g = f THEN "ready"
                          ELSE IF g \in Others(f) /\ row[g] = "ready" THEN "deleted"
                          ELSE row[g]]

\* Inside the section, which it leaves, or for a row that was ready already.
Leave(a) ==
    \/ at[a] = "written" /\ ReleasePublisher(a)
    \/ at[a] = "replay" /\ UNCHANGED gate

\* Seeded fault: an older file of the key that is ready stays ready, and loses
\* its metadata all the same.
PromoteWithoutRetiring(a) ==
    /\ Leave(a)
    /\ CanPromote(FileOf[a])
    /\ row' = [row EXCEPT ![FileOf[a]] = "ready"]
    /\ old' = [old EXCEPT ![a] = {g \in Others(FileOf[a]) : row[g] \in {"ready", "deleted"}}]
    /\ Go(a, "cleaning")
    /\ UNCHANGED <<thread, dataset, store, unlinking, purge>>

Promote(a) ==
    /\ Leave(a)
    /\ CanPromote(FileOf[a])
    /\ row' = Promoted(FileOf[a])
    /\ old' = [old EXCEPT ![a] = {g \in Others(FileOf[a]) : row[g] \in {"ready", "deleted"}}]
    /\ Go(a, "cleaning")
    /\ UNCHANGED <<thread, dataset, store, unlinking, purge>>

\* Refused, failed, or only the answer is lost.
PromoteFails(a) ==
    /\ Leave(a)
    /\ row' \in {row} \cup {Promoted(f) : f \in {g \in {FileOf[a]} : CanPromote(g)}}
    /\ Go(a, "idle")
    /\ UNCHANGED <<thread, dataset, store, old, unlinking, purge>>

\* removeRetiredFiles, one file after the other.
Clean(a) ==
    /\ at[a] = "cleaning"
    /\ \E g \in old[a] : /\ meta' = meta \ {g}
                         /\ old' = [old EXCEPT ![a] = @ \ {g}]
    /\ UNCHANGED <<db, disk, at, unlinking, purge, gate>>

CleanEnds(a) ==
    /\ at[a] = "cleaning"
    /\ \/ old[a] = {} /\ Go(a, IF a \in Indexed THEN "indexing" ELSE "idle")
       \/ Go(a, "idle")
    /\ old' = [old EXCEPT ![a] = {}]
    /\ UNCHANGED <<db, store, unlinking, purge, gate>>

\* createMeteorologicalDataset, outside the section.
Index(a) ==
    /\ at[a] = "indexing"
    /\ Home(FileOf[a]) # "purged"
    /\ dataset' = dataset \cup {FileOf[a]}
    /\ Go(a, "idle")
    /\ UNCHANGED <<thread, row, store, old, unlinking, purge, gate>>

IndexFails(a) ==
    /\ at[a] = "indexing"
    /\ Go(a, "undo")
    /\ UNCHANGED <<db, store, old, unlinking, purge, gate>>

\* FileLifecycleService.delete up to the removal of the metadata.
DeleteRow(f) ==
    IF row[f] \in {"ready", "deleted"}
    THEN /\ row' = [row EXCEPT ![f] = "deleted"]
         /\ unlinking' = unlinking \cup {f}
    ELSE UNCHANGED <<row, unlinking>>

\* The compensation for a data set that could not be stored.
Undo(a) ==
    /\ at[a] = "undo"
    /\ DeleteRow(FileOf[a])
    /\ Go(a, "idle")
    /\ UNCHANGED <<thread, dataset, store, old, purge, gate>>

-----------------------------------------------------------------------------
(* The users: deletion of a file, the trash, and the purge of a thread.    *)

Delete(f) ==
    /\ row[f] \in {"ready", "deleted"}
    /\ DeleteRow(f)
    /\ UNCHANGED <<thread, dataset, store, try, purge, gate>>

Unlink(f) ==
    /\ f \in unlinking
    /\ meta' \in {meta, meta \ {f}}
    /\ unlinking' = unlinking \ {f}
    /\ UNCHANGED <<db, disk, try, purge, gate>>

Trash(t) ==
    /\ thread[t] = "live"
    /\ thread' = [thread EXCEPT ![t] = "trashed"]
    /\ UNCHANGED <<row, dataset, store, try, unlinking, purge, gate>>

Restore(t) ==
    /\ thread[t] = "trashed"
    /\ thread' = [thread EXCEPT ![t] = "live"]
    /\ UNCHANGED <<row, dataset, store, try, unlinking, purge, gate>>

FilesOf(t) == {f \in Files : ThreadOf[f] = t}

\* The transaction of purgeThread: the rows of the files go with the thread's,
\* a data set stays.
PurgeRows(t) ==
    /\ thread[t] = "trashed"
    /\ thread' = [thread EXCEPT ![t] = "purged"]
    /\ row' = [f \in Files |-> IF f \in FilesOf(t) THEN "none" ELSE row[f]]
    /\ work' = [work EXCEPT ![t] = "queue"]
    /\ UNCHANGED <<dataset, store, try, unlinking, seen, refs, gate>>

EnterCollector(t) ==
    /\ work[t] = "queue"
    /\ work' = [work EXCEPT ![t] = "section"]
    /\ AcquireCollector(t)
    /\ UNCHANGED <<db, store, try, unlinking, seen, refs>>

PurgeFiles(t) ==
    /\ work[t] = "section" /\ t \in sweeping
    /\ meta' = meta \ FilesOf(t)
    /\ work' = [work EXCEPT ![t] = "listing"]
    /\ UNCHANGED <<db, disk, try, unlinking, seen, refs, gate>>

Live(f) == row[f] \in {"pending", "ready"}

\* The queries of listReferencedObjectHashes run side by side.
ListFiles(t) ==
    /\ work[t] = "listing" /\ "files" \notin seen[t]
    /\ refs' = [refs EXCEPT ![t] = @ \cup {ContentOf[f] : f \in {g \in Files : Live(g)}}]
    /\ seen' = [seen EXCEPT ![t] = @ \cup {"files"}]
    /\ UNCHANGED <<db, store, try, unlinking, work, gate>>

\* Seeded fault: data sets are no reference of their own.
ListNoDatasets(t) ==
    /\ work[t] = "listing" /\ "datasets" \notin seen[t]
    /\ seen' = [seen EXCEPT ![t] = @ \cup {"datasets"}]
    /\ UNCHANGED <<db, store, try, unlinking, work, refs, gate>>

ListDatasets(t) ==
    /\ work[t] = "listing" /\ "datasets" \notin seen[t]
    /\ refs' = [refs EXCEPT ![t] = @ \cup {ContentOf[f] : f \in dataset}]
    /\ seen' = [seen EXCEPT ![t] = @ \cup {"datasets"}]
    /\ UNCHANGED <<db, store, try, unlinking, work, gate>>

\* Seeded fault: only the references of the database are kept.
GarbageIgnoringMetadata(t) == disk \ refs[t]

\* What neither the database nor a metadata file refers to.
Garbage(t) == disk \ (refs[t] \cup {ContentOf[f] : f \in meta})

Forget(t) == seen' = [seen EXCEPT ![t] = {}] /\ refs' = [refs EXCEPT ![t] = {}]

\* garbageCollectObjects, which may stop half way.
Sweep(t) ==
    /\ work[t] = "listing" /\ seen[t] = Queries
    /\ \E D \in SUBSET Garbage(t) :
         /\ disk' = disk \ D
         /\ work' = [work EXCEPT ![t] = IF D = Garbage(t) THEN "done" ELSE "failed"]
    /\ Forget(t)
    /\ ReleaseCollector(t)
    /\ UNCHANGED <<db, meta, try, unlinking>>

PurgeFails(t) ==
    /\ t \in sweeping
    /\ work' = [work EXCEPT ![t] = "failed"]
    /\ Forget(t)
    /\ ReleaseCollector(t)
    /\ UNCHANGED <<db, store, try, unlinking>>

\* The process dies; a purge it was at is never taken up again.
Crash ==
    /\ at' = [a \in Attempts |-> "idle"]
    /\ old' = [a \in Attempts |-> {}]
    /\ unlinking' = {}
    /\ work' = [t \in Threads |-> IF work[t] \in {"none", "done"} THEN work[t] ELSE "failed"]
    /\ seen' = [t \in Threads |-> {}] /\ refs' = [t \in Threads |-> {}]
    /\ GateRestart
    /\ UNCHANGED <<db, store>>

-----------------------------------------------------------------------------
Attempt(a) ==
    \/ Reserve(a) \/ ReserveFails(a) \/ Enter(a) \/ Publish(a) \/ PublishFails(a)
    \/ Promote(a) \/ PromoteFails(a) \/ Clean(a) \/ CleanEnds(a)
    \/ Index(a) \/ IndexFails(a) \/ Undo(a)

Purge(t) ==
    \/ EnterCollector(t) \/ PurgeFiles(t) \/ ListFiles(t) \/ ListDatasets(t)
    \/ Sweep(t) \/ PurgeFails(t)

Next ==
    \/ \E a \in Attempts : Admit(a) \/ Attempt(a)
    \/ \E f \in Files : Delete(f) \/ Unlink(f)
    \/ \E t \in Threads : Trash(t) \/ Restore(t) \/ PurgeRows(t) \/ Purge(t)
    \/ Crash

Spec == Init /\ [][Next]_vars
-----------------------------------------------------------------------------
(* Properties. *)

\* What the check at the start of the server requires of a ready row
\* (runtimeIntegrityChecker.ts): its metadata and its object are there, however
\* uploads of the same key, retries, deletions, purges and crashes interleave.
ReadyIsReadable ==
    \A f \in Files : row[f] = "ready" => f \in meta /\ ContentOf[f] \in disk

\* And of a metadata file: a fork copies it without looking at the object, so
\* no collection may delete an object that only a metadata file still names.
MetaHasContent == \A f \in meta : ContentOf[f] \in disk

\* A data set that is in place, its file still ready, at a moment without a
\* collection keeps its object for good: when a newer upload retires the file,
\* when a user deletes it, and when its thread is purged (review, F-05).
DatasetKeepsContent ==
    \A f \in {FileOf[a] : a \in Indexed} :
        [](f \in dataset /\ row[f] = "ready" /\ sweeping = {}
             => [](ContentOf[f] \in disk))

\* The stronger reading of F-05: every ready data set has its object.
DatasetHasContent == \A f \in dataset : ContentOf[f] \in disk

\* The comment on the purge (threadStore.ts:299-300): the section keeps a
\* publisher from writing metadata back, so a purged thread has none.
PurgeIsFinal ==
    \A t \in Threads : work[t] = "done" => meta \cap FilesOf(t) = {}

\* The inductive strengthening: who is inside is where its program counter says,
\* what is about to lose its metadata is not ready, and never will be.
InSection ==
    /\ \A a \in Attempts :
         /\ a \in publishing => at[a] \in {"section", "written"}
         /\ a \in waitingPublishers => at[a] = "section"
         /\ at[a] = "written" => a \in publishing
    /\ \A t \in Threads :
         /\ t \in sweeping => work[t] \in {"section", "listing"}
         /\ work[t] = "listing" => t \in sweeping
         /\ seen[t] # {} => t \in sweeping
         /\ work[t] # "none" => thread[t] = "purged"
    /\ \A k \in DOMAIN waitingCollectors : work[waitingCollectors[k]] = "section"

Gone(f) == row[f] = "deleted" \/ Home(f) = "purged"

OneReady ==
    \A f \in Files : row[f] = "ready" => \A g \in Others(f) : row[g] # "ready"

RowsAreSound ==
    /\ OneReady
    /\ \A f \in Files : Home(f) = "purged" => row[f] = "none"
    /\ \A f \in unlinking : Gone(f)
    /\ \A a \in Attempts : \A f \in old[a] : Gone(f)
    /\ \A a \in Attempts :
         /\ at[a] = "written" => FileOf[a] \in meta \/ Gone(FileOf[a])
         /\ at[a] = "replay" => row[FileOf[a]] = "ready" \/ Gone(FileOf[a])

FileInv ==
    /\ TypeOK /\ GateInv /\ InSection /\ RowsAreSound
    /\ ReadyIsReadable /\ MetaHasContent
=============================================================================
