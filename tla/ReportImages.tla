---------------------------- MODULE ReportImages ----------------------------
(***************************************************************************)
(* The images of lost-and-found reports.  Rows live in the database,       *)
(* objects in the object store, and no transaction spans both: reports are *)
(* created, edited and deleted by transactions that upload and remove      *)
(* objects on their way, images staged for the agent expire, and a job     *)
(* removes the expired ones nobody refers to.                              *)
(***************************************************************************)
EXTENDS Naturals, FiniteSets

CONSTANTS
  StagedKeys,   \* object keys under lost-found-staging/
  DirectKeys,   \* object keys under lost-found/
  Reports,      \* ids the database may give
  Requests,     \* slots for transactions in progress
  NULL,
  MaxImages,    \* bound on the images of a request
  Setups        \* what may go wrong, and how many direct keys are drawn

ASSUME KeysAssumption == StagedKeys \cap DirectKeys = {} /\ NULL \notin StagedKeys
Faults == {"rollback",  \* a transaction fails before its commit
           "crash",     \* a request dies and cleans nothing up
           "storage",   \* the removal of an object fails
           "late",      \* a creation lasts beyond an expiry
           "reuse",     \* a staged key is submitted more than once
           "bare"}      \* a report is created without images
ASSUME SetupsAssumption == Setups \subseteq [faults: SUBSET Faults, uploads: Nat]

Keys == StagedKeys \cup DirectKeys

VARIABLES
  setup,    \* the setup of this run, chosen at the start
  objects,  \* the objects in the store
  rows,     \* LostFoundStagedImage: the staged keys with their metadata
  age,      \* per staged key: 0 fresh, 1 its object is old, 2 its row expired too
  used,     \* the keys and ids drawn so far
  images,   \* LostFoundReport: per report in the database, its image keys
  tx,       \* per request, its transaction
  job       \* the cleanup: keys still to look at, and the one to delete

vars == <<setup, objects, rows, age, used, images, tx, job>>

Idle == [op |-> "idle", report |-> NULL, old |-> {}, new |-> {}, todo |-> {}, rows |-> {}]
Tx(op, r, old, todo) ==
  [op |-> op, report |-> r, old |-> old, new |-> {}, todo |-> todo, rows |-> rows]

Init ==
  /\ setup \in Setups
  /\ objects = {} /\ rows = {} /\ used = {}
  /\ age = [k \in StagedKeys |-> 0]
  /\ images = [r \in {} |-> {}]
  /\ tx = [t \in Requests |-> Idle]
  /\ job = [list |-> {}, key |-> NULL]

Exists(r) == r \in DOMAIN images
Referenced(k) == \E r \in DOMAIN images : k \in images[r]

\* A best-effort removal of the objects ks leaves what fails to go.
Removed(ks) ==
  {objects \ gone : gone \in IF "storage" \in setup.faults THEN SUBSET ks ELSE {ks}}

\* A transaction on a report that has read its images; a key some report has, or
\* had when such a transaction read it.
Edits(t) == tx[t].op \in {"update", "replaced", "delete", "removed"}
Linked(k) == Referenced(k) \/ \E t \in Requests : Edits(t) /\ k \in tx[t].old

\* A flushed deletion holds its rows until it ends.
Deleting(k) == \E t \in Requests : tx[t].op = "removed" /\ k \in tx[t].old

WithImages(r, ks) == [q \in DOMAIN images \cup {r} |-> IF q = r THEN ks ELSE images[q]]

End(t) == tx' = [tx EXCEPT ![t] = Idle]

(***************************************************************************)
(* Staging                                                                 *)
(***************************************************************************)
\* upload puts the object and then saves the row; what fails in between is
\* removed again, or left behind by a crash.
Upload(k) ==
  /\ k \in StagedKeys \ used
  /\ used' = used \cup {k}
  /\ \/ objects' = objects \cup {k} /\ rows' = rows \cup {k}
     \/ "crash" \in setup.faults /\ objects' = objects \cup {k} /\ UNCHANGED rows
  /\ UNCHANGED <<age, images, tx, job>>

\* The object is older than the cutoff of the job a little before the row expires.
Tick(k) ==
  /\ age[k] < 2 /\ k \in used
  /\ "late" \in setup.faults \/ \A t \in Requests : tx[t].op # "stage"
  /\ age' = [age EXCEPT ![k] = @ + 1]
  /\ UNCHANGED <<objects, rows, used, images, tx, job>>

(***************************************************************************)
(* Creating a report from staged images                                    *)
(***************************************************************************)
\* createFromStaged; the transaction reads the staged rows as of its start.
CreateFromStaged(t, r, ks) ==
  /\ tx[t] = Idle /\ r \in Reports \ used
  /\ ks # {} /\ ks \subseteq StagedKeys \cap used
  /\ "late" \in setup.faults \/ \A k \in ks : age[k] = 0
  /\ "reuse" \in setup.faults \/ \A k \in ks :
       ~Linked(k) /\ \A s \in Requests : k \notin tx[s].todo \cup tx[s].new
  /\ used' = used \cup {r}
  /\ tx' = [tx EXCEPT ![t] = Tx("stage", r, {}, ks)]
  /\ UNCHANGED <<objects, rows, age, images, job>>

\* retrieveOwned: the row is there and in force, and the object can be read.
RetrieveOwned(t, k) ==
  /\ tx[t].op = "stage" /\ k \in tx[t].todo
  /\ IF k \in tx[t].rows /\ age[k] < 2 /\ k \in objects
     THEN tx' = [tx EXCEPT ![t].todo = @ \ {k}, ![t].new = @ \cup {k}]
     ELSE End(t)
  /\ UNCHANGED <<objects, rows, age, used, images, job>>

\* Mutant: whether a key is taken is looked up before, not by the insert.
CommitStagedUnchecked(t) ==
  /\ tx[t].op = "stage" /\ tx[t].todo = {}
  /\ images' = WithImages(tx[t].report, tx[t].new)
  /\ tx' = [tx EXCEPT ![t].op = "consume"]
  /\ UNCHANGED <<objects, rows, age, used, job>>

\* Mutant: the staged images are not registered for consumption.
CommitStagedForgets(t) ==
  /\ tx[t].op = "stage" /\ tx[t].todo = {}
  /\ images' = WithImages(tx[t].report, tx[t].new)
  /\ tx' = [tx EXCEPT ![t].op = "committed"]
  /\ UNCHANGED <<objects, rows, age, used, job>>

\* saveAndFlush and commit; the unique object_key refuses a key twice.
CommitStaged(t) ==
  /\ tx[t].op = "stage" /\ tx[t].todo = {}
  /\ \A k \in tx[t].new : ~Deleting(k)
  /\ IF \E k \in tx[t].new : Referenced(k)
     THEN End(t) /\ UNCHANGED images
     ELSE /\ images' = WithImages(tx[t].report, tx[t].new)
          /\ tx' = [tx EXCEPT ![t].op = "consume"]
  /\ UNCHANGED <<objects, rows, age, used, job>>

\* consumeStagedImagesAfterCommit: the deletion of the rows joins the transaction
\* that has committed already, and may never be flushed.
Consume(t) ==
  /\ tx[t].op = "consume"
  /\ rows' \in {rows, rows \ tx[t].new}
  /\ End(t)
  /\ UNCHANGED <<objects, age, used, images, job>>

(***************************************************************************)
(* Creating, editing and deleting a report                                 *)
(***************************************************************************)
Create(t, r) ==
  /\ tx[t] = Idle /\ r \in Reports \ used
  /\ used' = used \cup {r}
  /\ tx' = [tx EXCEPT ![t] = Tx("create", r, {}, {})]
  /\ UNCHANGED <<objects, rows, age, images, job>>

\* update with new images; without any it leaves the images alone.
Update(t, r) ==
  /\ tx[t] = Idle /\ Exists(r)
  /\ tx' = [tx EXCEPT ![t] = Tx("update", r, images[r], {})]
  /\ UNCHANGED <<objects, rows, age, used, images, job>>

UploadImage(t, k) ==
  /\ tx[t].op \in {"create", "update"} /\ Cardinality(tx[t].new) < MaxImages
  /\ k \in DirectKeys \ used /\ Cardinality(DirectKeys \cap used) < setup.uploads
  /\ used' = used \cup {k}
  /\ objects' = objects \cup {k}
  /\ tx' = [tx EXCEPT ![t].new = @ \cup {k}]
  /\ UNCHANGED <<rows, age, images, job>>

CommitCreate(t) ==
  /\ tx[t].op = "create"
  /\ "bare" \in setup.faults \/ tx[t].new # {}
  /\ images' = WithImages(tx[t].report, tx[t].new)
  /\ End(t)
  /\ UNCHANGED <<objects, rows, age, used, job>>

\* replaceImages removes the old objects as soon as the new ones are there.
ReplaceImages(t) ==
  /\ tx[t].op = "update" /\ tx[t].new # {}
  /\ objects' \in Removed(tx[t].old)
  /\ tx' = [tx EXCEPT ![t].op = "replaced"]
  /\ UNCHANGED <<rows, age, used, images, job>>

\* A transaction that fails removes what it uploaded; staged images stay.
Uploaded(t) == IF tx[t].op \in {"create", "update", "replaced"} THEN tx[t].new ELSE {}

Abort(t) == objects' \in Removed(Uploaded(t)) /\ End(t)

\* The old image rows are deleted and the new ones inserted; if somebody
\* deleted the old ones or the report meanwhile, the row count is wrong and
\* the transaction fails.
CommitUpdate(t) ==
  LET r == tx[t].report
  IN /\ tx[t].op = "replaced"
     /\ ~\E s \in Requests : tx[s].op = "removed" /\ tx[s].report = r
     /\ IF Exists(r) /\ tx[t].old \subseteq images[r]
        THEN /\ images' = [images EXCEPT ![r] = (@ \ tx[t].old) \cup tx[t].new]
             /\ End(t) /\ UNCHANGED objects
        ELSE Abort(t) /\ UNCHANGED images
     /\ UNCHANGED <<rows, age, used, job>>

\* delete, deleteAsAdmin
Delete(t, r) ==
  /\ tx[t] = Idle /\ Exists(r)
  /\ tx' = [tx EXCEPT ![t] = Tx("delete", r, images[r], {})]
  /\ UNCHANGED <<objects, rows, age, used, images, job>>

\* deleteReportAndCleanup flushes the deletion and removes the objects; the
\* flush fails if the image rows are no longer those that were read.
RemoveObjects(t) ==
  LET r == tx[t].report
  IN /\ tx[t].op = "delete"
     /\ ~\E s \in Requests : tx[s].op = "removed" /\ tx[s].report = r
     /\ IF Exists(r) /\ images[r] = tx[t].old
        THEN objects' \in Removed(tx[t].old) /\ tx' = [tx EXCEPT ![t].op = "removed"]
        ELSE Abort(t)
     /\ UNCHANGED <<rows, age, used, images, job>>

CommitDelete(t) ==
  /\ tx[t].op = "removed"
  /\ images' = [q \in DOMAIN images \ {tx[t].report} |-> images[q]]
  /\ End(t)
  /\ UNCHANGED <<objects, rows, age, used, job>>

\* The transaction fails: the database, the audit or a later call throws.
Fail(t) ==
  /\ "rollback" \in setup.faults /\ tx[t].op \notin {"idle", "consume"}
  /\ Abort(t)
  /\ UNCHANGED <<rows, age, used, images, job>>

\* The request dies and nothing runs after it.
Crash(t) ==
  /\ "crash" \in setup.faults /\ tx[t].op # "idle"
  /\ End(t)
  /\ UNCHANGED <<objects, rows, age, used, images, job>>

(***************************************************************************)
(* LostFoundImageStagingCleanupJob                                         *)
(***************************************************************************)
JobIdle == job.list = {} /\ job.key = NULL

\* Mutant: the job goes through the rows instead of the objects.
CleanupRows ==
  LET old == {k \in rows : age[k] > 0}
  IN /\ JobIdle /\ old # {}
     /\ job' = [job EXCEPT !.list = old]
     /\ UNCHANGED <<objects, rows, age, used, images, tx>>

\* cleanupExpired lists the objects and keeps those older than the cutoff.
CleanupExpired ==
  LET old == {k \in objects \cap StagedKeys : age[k] > 0}
  IN /\ JobIdle /\ old # {}
     /\ job' = [job EXCEPT !.list = old]
     /\ UNCHANGED <<objects, rows, age, used, images, tx>>

\* Mutant: a key is kept while its staged row exists.
LookUpRow(k) ==
  /\ job.key = NULL /\ k \in job.list
  /\ job' = [list |-> job.list \ {k}, key |-> IF k \in rows THEN NULL ELSE k]
  /\ UNCHANGED <<objects, rows, age, used, images, tx>>

\* existsByObjectKey decides whether the object is kept.
LookUp(k) ==
  /\ job.key = NULL /\ k \in job.list
  /\ job' = [list |-> job.list \ {k}, key |-> IF Referenced(k) THEN NULL ELSE k]
  /\ UNCHANGED <<objects, rows, age, used, images, tx>>

\* delete: the row and then the object.
DeleteStaged ==
  /\ job.key # NULL
  /\ rows' = rows \ {job.key}
  /\ objects' = objects \ {job.key}
  /\ job' = [job EXCEPT !.key = NULL]
  /\ UNCHANGED <<age, used, images, tx>>

\* Its failure is ignored.
DeleteStagedFails ==
  /\ "storage" \in setup.faults /\ job.key # NULL
  /\ rows' \in {rows, rows \ {job.key}}
  /\ job' = [job EXCEPT !.key = NULL]
  /\ UNCHANGED <<objects, age, used, images, tx>>

Cleanup == CleanupExpired \/ \E k \in StagedKeys : LookUp(k)

Proceed(t) ==
  \/ \E k \in StagedKeys : RetrieveOwned(t, k)
  \/ CommitStaged(t) \/ CommitCreate(t) \/ Consume(t)
  \/ ReplaceImages(t) \/ CommitUpdate(t)
  \/ RemoveObjects(t) \/ CommitDelete(t)

Step ==
  \/ \E k \in StagedKeys : Upload(k) \/ Tick(k)
  \/ \E t \in Requests :
       \/ \E r \in Reports, ks \in SUBSET StagedKeys : CreateFromStaged(t, r, ks)
       \/ \E r \in Reports : Create(t, r) \/ Update(t, r) \/ Delete(t, r)
       \/ \E k \in DirectKeys : UploadImage(t, k)
       \/ Proceed(t) \/ Fail(t) \/ Crash(t)
  \/ Cleanup \/ DeleteStaged \/ DeleteStagedFails

Next == UNCHANGED setup /\ Step

Spec == Init /\ [][Next]_vars

\* Time passes, the job is scheduled and the store works now and then.
FairSpec ==
  /\ Spec
  /\ WF_vars(UNCHANGED setup /\ Cleanup)
  /\ SF_vars(UNCHANGED setup /\ DeleteStaged)
  /\ \A k \in StagedKeys : WF_vars(UNCHANGED setup /\ Tick(k))
  /\ \A t \in Requests : WF_vars(UNCHANGED setup /\ Proceed(t))

(***************************************************************************)
(* Properties                                                              *)
(***************************************************************************)
\* The types of the variables.
TypeOK ==
  /\ objects \subseteq Keys /\ rows \subseteq StagedKeys
  /\ age \in [StagedKeys -> 0..2]
  /\ used \subseteq Keys \cup Reports
  /\ DOMAIN images \subseteq Reports /\ \A r \in DOMAIN images : images[r] \subseteq Keys
  /\ tx \in [Requests ->
       [op: {"idle", "stage", "consume", "create", "update", "replaced", "delete", "removed"},
        report: Reports \cup {NULL}, old: SUBSET Keys, new: SUBSET Keys,
        todo: SUBSET StagedKeys, rows: SUBSET StagedKeys]]
  /\ \A t \in Requests : tx[t].op # "idle" => tx[t].report \in Reports
  /\ job \in [list: SUBSET StagedKeys, key: StagedKeys \cup {NULL}]

\* An object belongs to one report, so that deleting a report or its images
\* never takes away another's: neither a key submitted twice nor overlapping
\* transactions give it to two.
LinkedOnce ==
  \A r, q \in DOMAIN images : r # q => images[r] \cap images[q] = {}

\* While nothing fails, expires in mid-creation or is submitted twice, and
\* reports are created with images, every image of every report is in the store
\* once all requests are answered, however creations, edits, deletions and the
\* cleanup overlap.
CompleteAtRest ==
  setup.faults = {} /\ (\A t \in Requests : tx[t].op = "idle") =>
    \A r \in DOMAIN images : images[r] \subseteq objects

\* IMAGE_MATCHING_DEVELOPMENT_cn.md: a creation whose staged object is gone is
\* rolled back as a whole.  A new report finds its images in the store.
CreatedWithImages ==
  [][\A r \in DOMAIN images' \ DOMAIN images : images'[r] \subseteq objects]_vars

\* Abandoned staged images are removed in the end.
StagedOrphansGo ==
  \A k \in StagedKeys : k \in objects /\ ~Referenced(k) ~> k \notin objects \/ Referenced(k)

(***************************************************************************)
(* The inductive invariant (ReportImagesProofs)                            *)
(***************************************************************************)
\* A transaction that uploads: what it uploaded belongs to nobody yet.
Uploading(t) == tx[t].op \in {"create", "update", "replaced"}

\* Only staged images are created from staged keys.
StagingIsStaged == \A t \in Requests : tx[t].op = "stage" => tx[t].new \subseteq StagedKeys

\* A key that was drawn is not drawn again; a transaction is the only one
\* that knows the keys it has uploaded.
DrawnOnce ==
  /\ \A r \in DOMAIN images : images[r] \cap DirectKeys \subseteq used
  /\ \A t \in Requests : Uploading(t) =>
       /\ tx[t].new \subseteq DirectKeys \cap used
       /\ \A r \in DOMAIN images : tx[t].new \cap images[r] = {}
       /\ \A s \in Requests \ {t} : Uploading(s) => tx[s].new \cap tx[t].new = {}

IInv == TypeOK /\ StagingIsStaged /\ DrawnOnce /\ LinkedOnce

(***************************************************************************)
(* Why the images are complete while nothing fails (ReportImagesProofs)    *)
(***************************************************************************)
\* A transaction that has removed the objects of a report's images and still has
\* to tell the database.
Clearing(t) == tx[t].op \in {"replaced", "removed"}

\* The staged keys a creation has been given.
Submits(t) == tx[t].op \in {"stage", "consume"}
Submitted(t) == tx[t].todo \cup tx[t].new

\* A report to be created is nobody else's.
IdsDrawnOnce ==
  /\ DOMAIN images \subseteq used
  /\ \A t \in Requests : tx[t].op # "idle" => tx[t].report \in used
  /\ \A t \in Requests : tx[t].op \in {"create", "stage"} =>
       /\ tx[t].report \notin DOMAIN images
       /\ \A s \in Requests \ {t} : tx[s].op # "idle" => tx[s].report # tx[t].report

\* The images of a report are replaced as a whole: what a transaction has read
\* of them is what they are, or nothing of it is left.
ReadAsAWhole ==
  /\ \A r \in DOMAIN images : images[r] # {}
  /\ \A t \in Requests : Edits(t) =>
       /\ tx[t].old # {}
       /\ \A r \in DOMAIN images : \/ r = tx[t].report /\ tx[t].old = images[r]
                                   \/ tx[t].old \cap images[r] = {}
  /\ \A k \in Keys : Linked(k) =>
       k \in used /\ \A t \in Requests : Uploading(t) => k \notin tx[t].new

\* An edit that has removed the old images has uploaded new ones.
ReplacedBySome == \A t \in Requests : tx[t].op = "replaced" => tx[t].new # {}

\* A staged key is linked by one creation, once.
StagedOnce ==
  /\ \A t \in Requests : Submits(t) =>
       /\ Submitted(t) \subseteq used
       /\ \A s \in Requests \ {t} : Submits(s) => Submitted(s) \cap Submitted(t) = {}
  /\ \A t \in Requests : tx[t].op = "stage" =>
       /\ Submitted(t) # {}
       /\ \A k \in Submitted(t) : age[k] = 0 /\ ~Linked(k)

\* The cleanup is after keys that no creation can take any more.
CleansOrphans ==
  /\ \A k \in job.list : age[k] > 0
  /\ job.key # NULL => age[job.key] > 0 /\ ~Referenced(job.key)

\* The objects of a report are there, or a transaction is about to take the
\* report's images away.
StoredOrCleared ==
  /\ \A t \in Requests : Uploading(t) \/ tx[t].op = "stage" => tx[t].new \subseteq objects
  /\ \A r \in DOMAIN images : images[r] \subseteq objects
       \/ \E t \in Requests : Clearing(t) /\ tx[t].report = r /\ tx[t].old = images[r]

QuietInv ==
  setup.faults = {} =>
    /\ IdsDrawnOnce /\ ReadAsAWhole /\ ReplacedBySome
    /\ StagedOnce /\ CleansOrphans /\ StoredOrCleared
=============================================================================
