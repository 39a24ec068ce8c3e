------------------------ MODULE ReportImagesProofs ------------------------
(***************************************************************************)
(* Why no object is ever linked to two reports, whatever overlaps, fails,  *)
(* expires or is submitted twice: a staged key is refused by the unique    *)
(* index, and a key of lost-found/ is known only to the transaction that   *)
(* drew it.  And why, while nothing fails, a report has all its objects:   *)
(* whoever removes them has read them as a whole and is about to replace   *)
(* them or the report, and the cleanup is after keys too old to be taken.  *)
(***************************************************************************)
EXTENDS ReportImages, TLAPS

Ops == {"idle", "stage", "consume", "create", "update", "replaced", "delete", "removed"}
Records == [op: Ops, report: Reports \cup {NULL}, old: SUBSET Keys, new: SUBSET Keys,
            todo: SUBSET StagedKeys, rows: SUBSET StagedKeys]
Txs == {x \in Records : x.op # "idle" => x.report \in Reports}

(***************************************************************************)
(* Types                                                                   *)
(***************************************************************************)
\* A transaction may change a field within its type, and only that one.
LEMMA TxFields ==
  ASSUME NEW x \in Txs
  PROVE  /\ x.op # "idle" => \A o \in Ops : LET y == [x EXCEPT !.op = o]
                                             IN y \in Txs /\ y.op = o /\ y.new = x.new
         /\ \A ks \in SUBSET Keys : LET y == [x EXCEPT !.new = ks]
                                    IN y \in Txs /\ y.op = x.op /\ y.new = ks
         /\ \A ks \in SUBSET StagedKeys : LET y == [x EXCEPT !.todo = ks]
                                          IN y \in Txs /\ y.op = x.op /\ y.new = x.new
<1>1. ASSUME NEW o \in Ops, x.op # "idle"
      PROVE  LET y == [x EXCEPT !.op = o] IN y \in Txs /\ y.op = o /\ y.new = x.new
  BY <1>1 DEF Txs, Records
<1>2. ASSUME NEW ks \in SUBSET Keys
      PROVE  LET y == [x EXCEPT !.new = ks] IN y \in Txs /\ y.op = x.op /\ y.new = ks
  BY DEF Txs, Records
<1>3. ASSUME NEW ks \in SUBSET StagedKeys
      PROVE  LET y == [x EXCEPT !.todo = ks] IN y \in Txs /\ y.op = x.op /\ y.new = x.new
  BY DEF Txs, Records
<1>4. QED
  BY <1>1, <1>2, <1>3

\* The records of TypeOK by their name.
LEMMA TxTyped == ASSUME TypeOK PROVE tx \in [Requests -> Txs]
  BY DEF TypeOK, Txs, Records, Ops

\* A step of one transaction leaves the others alone.
LEMMA TxStep ==
  ASSUME TypeOK, NEW t \in Requests, NEW x \in Txs, tx' = [tx EXCEPT ![t] = x]
  PROVE  tx' \in [Requests -> Txs] /\ tx'[t] = x /\ \A s \in Requests \ {t} : tx'[s] = tx[s]
  BY TxTyped

\* A transaction at its beginning, and one that is over.
LEMMA NewTx ==
  ASSUME TypeOK
  PROVE  /\ Idle \in Txs /\ Idle.op = "idle"
         /\ \A o \in Ops, r \in Reports, old \in SUBSET Keys, todo \in SUBSET StagedKeys :
              Tx(o, r, old, todo) \in Txs /\ Tx(o, r, old, todo).op = o
                /\ Tx(o, r, old, todo).new = {}
<1>1. Idle \in Txs /\ Idle.op = "idle"
  BY DEF Idle, Txs, Records, Ops
<1>2. ASSUME NEW o \in Ops, NEW r \in Reports, NEW old \in SUBSET Keys,
             NEW todo \in SUBSET StagedKeys
      PROVE  Tx(o, r, old, todo) \in Txs /\ Tx(o, r, old, todo).op = o
               /\ Tx(o, r, old, todo).new = {}
  BY DEF Tx, Txs, Records, TypeOK
<1>3. QED
  BY <1>1, <1>2

\* Removing objects adds none.
LEMMA RemovedIsLess ==
  ASSUME NEW ks, objects' \in Removed(ks)
  PROVE  objects' \subseteq objects
  BY DEF Removed

\* TypeOK but for the transactions.
Typed ==
  /\ objects \subseteq Keys /\ rows \subseteq StagedKeys
  /\ age \in [StagedKeys -> 0..2]
  /\ used \subseteq Keys \cup Reports
  /\ DOMAIN images \subseteq Reports /\ \A r \in DOMAIN images : images[r] \subseteq Keys
  /\ job \in [list: SUBSET StagedKeys, key: StagedKeys \cup {NULL}]

LEMMA TypeOKParts == TypeOK <=> Typed /\ tx \in [Requests -> Txs]
  BY DEF TypeOK, Typed, Txs, Records, Ops

(***************************************************************************)
(* Who knows a key                                                         *)
(***************************************************************************)
\* A step that links nothing and uploads nothing: reports keep their images or
\* go, transactions keep what they uploaded or forget it.
LEMMA QuietStep ==
  ASSUME StagingIsStaged, DrawnOnce, LinkedOnce, used \subseteq used',
         \A r \in DOMAIN images' : r \in DOMAIN images /\ images'[r] = images[r],
         \A t \in Requests :
           \/ tx'[t] = tx[t]
           \/ /\ tx'[t].op = "stage" => tx'[t].new \subseteq StagedKeys
              /\ Uploading(t)' => tx'[t].new = {} \/ (Uploading(t) /\ tx'[t].new = tx[t].new)
  PROVE  StagingIsStaged' /\ DrawnOnce' /\ LinkedOnce'
<1>1. StagingIsStaged'
  BY DEF StagingIsStaged
<1>2. \A t \in Requests : Uploading(t)' =>
        tx'[t].new = {} \/ (Uploading(t) /\ tx'[t].new = tx[t].new)
  BY DEF Uploading
<1>3. DrawnOnce'
  BY <1>2 DEF DrawnOnce
<1>4. LinkedOnce'
  BY DEF LinkedOnce
<1>5. QED
  BY <1>1, <1>3, <1>4

\* A commit that gives the report r the keys ks, which nobody else knows.
LEMMA LinkStep ==
  ASSUME StagingIsStaged, DrawnOnce, LinkedOnce, used' = used,
         NEW t \in Requests, NEW r, NEW ks,
         \A k \in ks : ~Referenced(k),
         ks \cap DirectKeys \subseteq used,
         \A s \in Requests \ {t} : Uploading(s) => tx[s].new \cap ks = {},
         DOMAIN images' = DOMAIN images \cup {r},
         images'[r] \subseteq ks \cup (IF r \in DOMAIN images THEN images[r] ELSE {}),
         \A q \in DOMAIN images \ {r} : images'[q] = images[q],
         tx'[t].op \in {"idle", "consume"},
         \A s \in Requests \ {t} : tx'[s] = tx[s]
  PROVE  StagingIsStaged' /\ DrawnOnce' /\ LinkedOnce'
<1>1. StagingIsStaged'
  BY DEF StagingIsStaged
<1>2. \A s \in Requests : Uploading(s)' => s # t /\ Uploading(s) /\ tx'[s] = tx[s]
  BY DEF Uploading
<1>3. \A q \in DOMAIN images' : \A k \in images'[q] :
        \/ q = r /\ k \in ks
        \/ q \in DOMAIN images /\ k \in images[q]
  OBVIOUS
<1>4. LinkedOnce'
  <2> SUFFICES ASSUME NEW q \in DOMAIN images', NEW p \in DOMAIN images', q # p,
                      NEW k \in images'[q], k \in images'[p]
               PROVE  FALSE
    BY DEF LinkedOnce
  <2>1. CASE q \in DOMAIN images /\ k \in images[q] /\ p \in DOMAIN images /\ k \in images[p]
    BY <2>1 DEF LinkedOnce
  <2>2. CASE k \in ks
    BY <1>3, <2>2 DEF Referenced
  <2>3. QED
    BY <1>3, <2>1, <2>2
<1>5. DrawnOnce'
  <2>1. \A q \in DOMAIN images' : images'[q] \cap DirectKeys \subseteq used'
    BY <1>3 DEF DrawnOnce
  <2>2. ASSUME NEW s \in Requests, Uploading(s)'
        PROVE  /\ tx'[s].new \subseteq DirectKeys \cap used'
               /\ \A q \in DOMAIN images' : tx'[s].new \cap images'[q] = {}
               /\ \A z \in Requests \ {s} : Uploading(z)' => tx'[z].new \cap tx'[s].new = {}
    <3>1. s # t /\ Uploading(s) /\ tx'[s] = tx[s]
      BY <1>2, <2>2
    <3>2. tx[s].new \cap ks = {} /\ tx[s].new \subseteq DirectKeys \cap used
          /\ \A q \in DOMAIN images : tx[s].new \cap images[q] = {}
      BY <3>1 DEF DrawnOnce
    <3>3. \A q \in DOMAIN images' : tx'[s].new \cap images'[q] = {}
      BY <1>3, <3>1, <3>2
    <3>4. \A z \in Requests \ {s} : Uploading(z)' => tx'[z].new \cap tx'[s].new = {}
      BY <1>2, <3>1 DEF DrawnOnce
    <3>5. QED
      BY <3>1, <3>2, <3>3, <3>4
  <2>3. QED
    BY <2>1, <2>2 DEF DrawnOnce
<1>6. QED
  BY <1>1, <1>4, <1>5

(***************************************************************************)
(* The actions                                                             *)
(***************************************************************************)
\* Uploads to staging, time and the cleanup touch no report and no transaction.
LEMMA StagingPreserves ==
  ASSUME IInv,
         \/ \E k \in StagedKeys : Upload(k) \/ Tick(k)
         \/ Cleanup \/ DeleteStaged \/ DeleteStagedFails
  PROVE  IInv'
<1>1. Typed /\ tx \in [Requests -> Txs]
  BY TypeOKParts DEF IInv
<1>2. Typed'
  <2>1. ASSUME NEW k \in StagedKeys, Upload(k)
        PROVE  Typed'
    BY <1>1, <2>1 DEF Upload, Typed, Keys
  <2>2. ASSUME NEW k \in StagedKeys, Tick(k)
        PROVE  Typed'
    BY <1>1, <2>2 DEF Tick, Typed
  <2>3. CASE CleanupExpired
    BY <1>1, <2>3 DEF CleanupExpired, Typed
  <2>4. ASSUME NEW k \in StagedKeys, LookUp(k)
        PROVE  Typed'
    BY <1>1, <2>4 DEF LookUp, Typed
  <2>5. CASE DeleteStaged \/ DeleteStagedFails
    BY <1>1, <2>5 DEF DeleteStaged, DeleteStagedFails, Typed
  <2>6. QED
    BY <2>1, <2>2, <2>3, <2>4, <2>5 DEF Cleanup
<1>3. UNCHANGED <<images, tx>> /\ used \subseteq used'
  BY DEF Upload, Tick, Cleanup, CleanupExpired, LookUp, DeleteStaged, DeleteStagedFails
<1>4. StagingIsStaged' /\ DrawnOnce' /\ LinkedOnce'
  BY <1>3, QuietStep DEF IInv
<1>5. TypeOK'
  BY <1>1, <1>2, <1>3 DEF TypeOK, Typed, Txs, Records, Ops
<1>6. QED
  BY <1>4, <1>5 DEF IInv

\* A request that begins has uploaded nothing.
LEMMA BeginPreserves ==
  ASSUME IInv, NEW t \in Requests,
         \/ \E r \in Reports, ks \in SUBSET StagedKeys : CreateFromStaged(t, r, ks)
         \/ \E r \in Reports : Create(t, r) \/ Update(t, r) \/ Delete(t, r)
  PROVE  IInv'
<1>1. Typed /\ TypeOK
  BY TypeOKParts DEF IInv
<1>2. PICK x \in Txs : tx' = [tx EXCEPT ![t] = x] /\ x.new = {}
  <2>1. ASSUME NEW r \in Reports, NEW ks \in SUBSET StagedKeys, CreateFromStaged(t, r, ks)
        PROVE  \E x \in Txs : tx' = [tx EXCEPT ![t] = x] /\ x.new = {}
    <3>1. Tx("stage", r, {}, ks) \in Txs /\ Tx("stage", r, {}, ks).new = {}
      BY <1>1, NewTx DEF Ops
    <3>2. QED
      BY <2>1, <3>1 DEF CreateFromStaged
  <2>2. ASSUME NEW r \in Reports, Create(t, r)
        PROVE  \E x \in Txs : tx' = [tx EXCEPT ![t] = x] /\ x.new = {}
    <3>1. Tx("create", r, {}, {}) \in Txs /\ Tx("create", r, {}, {}).new = {}
      BY <1>1, NewTx DEF Ops
    <3>2. QED
      BY <2>2, <3>1 DEF Create
  <2>3. ASSUME NEW r \in Reports, Update(t, r) \/ Delete(t, r)
        PROVE  \E x \in Txs : tx' = [tx EXCEPT ![t] = x] /\ x.new = {}
    <3>1. images[r] \in SUBSET Keys
      BY <1>1, <2>3 DEF Typed, Update, Delete, Exists
    <3>2. \A o \in Ops : Tx(o, r, images[r], {}) \in Txs /\ Tx(o, r, images[r], {}).new = {}
      BY <1>1, <3>1, NewTx
    <3>3. QED
      BY <2>3, <3>2 DEF Update, Delete, Ops
  <2>4. QED
    BY <2>1, <2>2, <2>3
<1>3. /\ UNCHANGED <<objects, rows, age, images, job>>
      /\ used \subseteq used' /\ used' \subseteq used \cup Reports
  BY DEF CreateFromStaged, Create, Update, Delete
<1>4. tx' \in [Requests -> Txs] /\ tx'[t].new = {} /\ \A s \in Requests \ {t} : tx'[s] = tx[s]
  BY <1>1, <1>2, TxStep
<1>5. StagingIsStaged' /\ DrawnOnce' /\ LinkedOnce'
  BY <1>3, <1>4, QuietStep DEF IInv
<1>6. Typed'
  BY <1>1, <1>3 DEF Typed
<1>7. TypeOK'
  BY <1>4, <1>6 DEF TypeOK, Typed, Txs, Records, Ops
<1>8. QED
  BY <1>5, <1>7 DEF IInv

\* A request that ends without linking anything.
LEMMA EndPreserves ==
  ASSUME IInv, NEW t \in Requests, End(t), objects' \subseteq objects,
         rows' \subseteq rows, UNCHANGED <<age, used, job>>,
         DOMAIN images' \subseteq DOMAIN images,
         \A r \in DOMAIN images' : images'[r] = images[r]
  PROVE  IInv'
<1>1. Typed /\ TypeOK
  BY TypeOKParts DEF IInv
<1>2. /\ tx' \in [Requests -> Txs] /\ tx'[t].op = "idle"
      /\ \A s \in Requests \ {t} : tx'[s] = tx[s]
  BY <1>1, TxStep, NewTx DEF End
<1>3. StagingIsStaged' /\ DrawnOnce' /\ LinkedOnce'
  <2>1. ~Uploading(t)'
    BY <1>2 DEF Uploading
  <2>2. QED
    BY <1>2, <2>1, QuietStep DEF IInv
<1>4. Typed'
  BY <1>1 DEF Typed
<1>5. TypeOK'
  BY <1>2, <1>4 DEF TypeOK, Typed, Txs, Records, Ops
<1>6. QED
  BY <1>3, <1>5 DEF IInv

\* A request that goes on: it uploads nothing new and links nothing.
LEMMA GoOnPreserves ==
  ASSUME IInv, NEW t \in Requests, NEW x \in Txs, tx' = [tx EXCEPT ![t] = x],
         x.op = "stage" => x.new \subseteq StagedKeys,
         x.op \in {"create", "update", "replaced"} => Uploading(t) /\ x.new = tx[t].new,
         objects' \subseteq objects, UNCHANGED <<rows, age, used, images, job>>
  PROVE  IInv'
<1>1. Typed /\ TypeOK
  BY TypeOKParts DEF IInv
<1>2. tx' \in [Requests -> Txs] /\ tx'[t] = x /\ \A s \in Requests \ {t} : tx'[s] = tx[s]
  BY <1>1, TxStep
<1>3. StagingIsStaged' /\ DrawnOnce' /\ LinkedOnce'
  <2>1. Uploading(t)' => Uploading(t) /\ tx'[t].new = tx[t].new
    BY <1>2 DEF Uploading
  <2>2. QED
    BY <1>2, <2>1, QuietStep DEF IInv
<1>4. Typed'
  BY <1>1 DEF Typed
<1>5. TypeOK'
  BY <1>2, <1>4 DEF TypeOK, Typed, Txs, Records, Ops
<1>6. QED
  BY <1>3, <1>5 DEF IInv

\* A staged image joins a creation that holds staged images only.
LEMMA RetrievePreserves ==
  ASSUME IInv, NEW t \in Requests, NEW k \in StagedKeys, RetrieveOwned(t, k)
  PROVE  IInv'
<1>1. TypeOK /\ tx[t] \in Txs
  BY TxTyped DEF IInv
<1>2. CASE End(t)
  BY <1>2, EndPreserves DEF RetrieveOwned
<1>3. CASE tx' = [tx EXCEPT ![t].todo = @ \ {k}, ![t].new = @ \cup {k}]
  <2> DEFINE y == [tx[t] EXCEPT !.todo = @ \ {k}]
             x == [y EXCEPT !.new = @ \cup {k}]
  <2>1. y \in Txs /\ y.op = "stage" /\ y.new = tx[t].new
    <3>1. tx[t].todo \ {k} \in SUBSET StagedKeys /\ tx[t].op = "stage"
      BY <1>1 DEF Txs, Records, RetrieveOwned
    <3>2. QED
      BY <1>1, <3>1, TxFields
  <2>2. tx' = [tx EXCEPT ![t] = x]
    BY <1>3
  <2>3. y.new \subseteq StagedKeys
    BY <1>1, <2>1 DEF IInv, StagingIsStaged, RetrieveOwned
  <2> HIDE DEF y
  <2>4. x \in Txs /\ x.op = "stage" /\ x.new = y.new \cup {k}
    <3>1. y.new \cup {k} \in SUBSET Keys
      BY <2>1, <2>3 DEF Keys
    <3>2. QED
      BY <2>1, <3>1, TxFields
  <2> HIDE DEF x
  <2>5. QED
    BY <2>2, <2>3, <2>4, GoOnPreserves DEF RetrieveOwned
<1>4. QED
  BY <1>2, <1>3 DEF RetrieveOwned

\* The unique key lets only staged images in that belong to no report.
LEMMA CommitStagedPreserves ==
  ASSUME IInv, NEW t \in Requests, CommitStaged(t)
  PROVE  IInv'
<1>1. TypeOK /\ Typed /\ tx[t] \in Txs /\ tx[t].op = "stage"
  BY TxTyped, TypeOKParts DEF IInv, CommitStaged
<1>2. CASE \E k \in tx[t].new : Referenced(k)
  <2>1. End(t) /\ UNCHANGED images
    BY <1>2 DEF CommitStaged
  <2>2. QED
    BY <2>1, EndPreserves DEF CommitStaged
<1>3. CASE ~\E k \in tx[t].new : Referenced(k)
  <2> DEFINE x == [tx[t] EXCEPT !.op = "consume"]
             ks == tx[t].new
             r == tx[t].report
  <2>1. images' = WithImages(r, ks) /\ tx' = [tx EXCEPT ![t] = x]
        /\ UNCHANGED <<objects, rows, age, used, job>>
    BY <1>3 DEF CommitStaged
  <2>2. x \in Txs /\ x.op = "consume"
    BY <1>1, TxFields DEF Ops
  <2>3. ks \subseteq StagedKeys
    BY <1>1 DEF IInv, StagingIsStaged
  <2> HIDE DEF x
  <2>4. /\ tx' \in [Requests -> Txs] /\ tx'[t].op = "consume"
        /\ \A s \in Requests \ {t} : tx'[s] = tx[s]
    BY <1>1, <2>1, <2>2, TxStep
  <2>5. ks \cap DirectKeys = {}
    BY <2>3, KeysAssumption
  <2>6. \A s \in Requests \ {t} : Uploading(s) => tx[s].new \cap ks = {}
    BY <2>5 DEF IInv, DrawnOnce
  <2>7. /\ DOMAIN images' = DOMAIN images \cup {r} /\ images'[r] = ks
        /\ \A q \in DOMAIN images \ {r} : images'[q] = images[q]
    BY <2>1 DEF WithImages
  <2>8. StagingIsStaged' /\ DrawnOnce' /\ LinkedOnce'
    <3> HIDE DEF ks, r
    <3>1. (\A k \in ks : ~Referenced(k)) /\ ks \cap DirectKeys \subseteq used
      BY <1>3, <2>5 DEF ks
    <3>2. QED
      BY <2>1, <2>4, <2>6, <2>7, <3>1, LinkStep DEF IInv
  <2>9. TypeOK'
    <3>1. r \in Reports
      BY <1>1 DEF Txs
    <3>2. Typed'
      BY <1>1, <2>1, <2>3, <2>7, <3>1 DEF Typed, Keys
    <3>3. QED
      BY <2>4, <3>2 DEF TypeOK, Typed, Txs, Records, Ops
  <2>10. QED
    BY <2>8, <2>9 DEF IInv
<1>4. QED
  BY <1>2, <1>3

\* An uploaded key was never drawn before, so nobody else knows it.
LEMMA UploadPreserves ==
  ASSUME IInv, NEW t \in Requests, NEW k \in DirectKeys, UploadImage(t, k)
  PROVE  IInv'
<1>1. TypeOK /\ Typed /\ tx[t] \in Txs /\ tx \in [Requests -> Txs]
  BY TxTyped, TypeOKParts DEF IInv
<1> DEFINE x == [tx[t] EXCEPT !.new = @ \cup {k}]
<1>2. x \in Txs /\ x.op = tx[t].op /\ x.new = tx[t].new \cup {k}
  <2>1. tx[t].new \cup {k} \in SUBSET Keys
    BY <1>1 DEF Txs, Records, Keys
  <2>2. QED
    BY <1>1, <2>1, TxFields
<1>3. /\ tx' = [tx EXCEPT ![t] = x] /\ used' = used \cup {k} /\ k \notin used
      /\ tx[t].op \in {"create", "update"} /\ objects' = objects \cup {k}
      /\ UNCHANGED <<rows, age, images, job>>
  BY DEF UploadImage
<1> HIDE DEF x
<1>4. tx' \in [Requests -> Txs] /\ tx'[t] = x /\ \A s \in Requests \ {t} : tx'[s] = tx[s]
  BY <1>1, <1>2, <1>3, TxStep
<1>5. \A s \in Requests : Uploading(s)' <=> Uploading(s)
  BY <1>2, <1>4 DEF Uploading
<1>6. Uploading(t)
  BY <1>3 DEF Uploading
<1>7. StagingIsStaged'
  BY <1>2, <1>3, <1>4 DEF IInv, StagingIsStaged
<1>8. LinkedOnce'
  BY <1>3 DEF IInv, LinkedOnce
<1>9. DrawnOnce'
  <2>1. \A r \in DOMAIN images' : images'[r] \cap DirectKeys \subseteq used'
    BY <1>3 DEF IInv, DrawnOnce
  <2>2. /\ \A s \in Requests : Uploading(s) => k \notin tx[s].new
        /\ \A r \in DOMAIN images : k \notin images[r]
    BY <1>3 DEF IInv, DrawnOnce
  <2>3. ASSUME NEW s \in Requests, Uploading(s)
        PROVE  /\ tx'[s].new \subseteq DirectKeys \cap used'
               /\ \A r \in DOMAIN images' : tx'[s].new \cap images'[r] = {}
    <3>1. /\ tx[s].new \subseteq DirectKeys \cap used
          /\ \A r \in DOMAIN images : tx[s].new \cap images[r] = {}
      BY <2>3 DEF IInv, DrawnOnce
    <3>2. tx'[s].new \subseteq tx[s].new \cup {k}
      BY <1>2, <1>4
    <3>3. QED
      BY <1>3, <2>2, <3>1, <3>2
  <2>4. ASSUME NEW s \in Requests, NEW z \in Requests \ {s}, Uploading(s), Uploading(z)
        PROVE  tx'[z].new \cap tx'[s].new = {}
    <3>1. tx[z].new \cap tx[s].new = {} /\ k \notin tx[z].new /\ k \notin tx[s].new
      BY <2>2, <2>4 DEF IInv, DrawnOnce
    <3>2. CASE s = t
      BY <1>2, <1>4, <3>1, <3>2
    <3>3. CASE z = t
      BY <1>2, <1>4, <3>1, <3>3
    <3>4. CASE s # t /\ z # t
      BY <1>4, <3>1, <3>4
    <3>5. QED
      BY <3>2, <3>3, <3>4
  <2>5. QED
    BY <1>5, <2>1, <2>3, <2>4 DEF DrawnOnce
<1>10. TypeOK'
  <2>1. Typed'
    BY <1>1, <1>3 DEF Typed, Keys
  <2>2. QED
    BY <1>4, <2>1 DEF TypeOK, Typed, Txs, Records, Ops
<1>11. QED
  BY <1>7, <1>8, <1>9, <1>10 DEF IInv

\* A creation or an edit links what it has uploaded.
LEMMA LinkPreserves ==
  ASSUME IInv, NEW t \in Requests, Uploading(t), End(t),
         UNCHANGED <<objects, rows, age, used, job>>,
         DOMAIN images' = DOMAIN images \cup {tx[t].report},
         images'[tx[t].report] \subseteq
           tx[t].new \cup (IF Exists(tx[t].report) THEN images[tx[t].report] ELSE {}),
         \A q \in DOMAIN images \ {tx[t].report} : images'[q] = images[q]
  PROVE  IInv'
<1> DEFINE r == tx[t].report
           ks == tx[t].new
<1>1. TypeOK /\ Typed /\ tx[t] \in Txs /\ tx \in [Requests -> Txs]
  BY TxTyped, TypeOKParts DEF IInv
<1>2. r \in Reports /\ ks \subseteq Keys
  BY <1>1 DEF Txs, Records, Uploading
<1>3. /\ ks \subseteq DirectKeys \cap used /\ \A k \in ks : ~Referenced(k)
      /\ \A s \in Requests \ {t} : Uploading(s) => tx[s].new \cap ks = {}
  BY DEF IInv, DrawnOnce, Referenced
<1>4. /\ tx' \in [Requests -> Txs] /\ tx'[t].op = "idle"
      /\ \A s \in Requests \ {t} : tx'[s] = tx[s]
  BY <1>1, TxStep, NewTx DEF End
<1>5. /\ DOMAIN images' = DOMAIN images \cup {r}
      /\ images'[r] \subseteq ks \cup (IF r \in DOMAIN images THEN images[r] ELSE {})
      /\ \A q \in DOMAIN images \ {r} : images'[q] = images[q]
  BY DEF Exists
<1> HIDE DEF r, ks
<1>6. StagingIsStaged' /\ DrawnOnce' /\ LinkedOnce'
  BY <1>3, <1>4, <1>5, LinkStep DEF IInv
<1>7. Typed'
  <2>1. images'[r] \subseteq Keys
    BY <1>1, <1>2, <1>5 DEF Typed
  <2>2. QED
    BY <1>1, <1>2, <1>5, <2>1 DEF Typed
<1>8. TypeOK'
  BY <1>4, <1>7 DEF TypeOK, Typed, Txs, Records, Ops
<1>9. QED
  BY <1>6, <1>8 DEF IInv

\* What a transaction does after its checks and before it fails.
LEMMA ProceedPreserves ==
  ASSUME IInv, NEW t \in Requests, Proceed(t)
  PROVE  IInv'
<1>1. TypeOK /\ tx[t] \in Txs
  BY TxTyped DEF IInv
<1>2. ASSUME NEW ks, objects' \in Removed(ks)
      PROVE  objects' \subseteq objects
  BY <1>2, RemovedIsLess
<1>3. CASE CommitCreate(t)
  <2>1. /\ DOMAIN images' = DOMAIN images \cup {tx[t].report}
        /\ images'[tx[t].report] = tx[t].new
        /\ \A q \in DOMAIN images \ {tx[t].report} : images'[q] = images[q]
    BY <1>3 DEF CommitCreate, WithImages
  <2>2. QED
    BY <1>3, <2>1, LinkPreserves DEF CommitCreate, Uploading
<1>4. CASE Consume(t)
  BY <1>4, EndPreserves DEF Consume
<1>5. CASE ReplaceImages(t)
  <2> DEFINE x == [tx[t] EXCEPT !.op = "replaced"]
  <2>1. x \in Txs /\ x.op = "replaced" /\ x.new = tx[t].new
    BY <1>1, <1>5, TxFields DEF ReplaceImages, Ops
  <2>2. tx' = [tx EXCEPT ![t] = x] /\ objects' \subseteq objects
        /\ UNCHANGED <<rows, age, used, images, job>>
    BY <1>2, <1>5 DEF ReplaceImages
  <2>3. Uploading(t)
    BY <1>5 DEF ReplaceImages, Uploading
  <2> HIDE DEF x
  <2>4. QED
    BY <2>1, <2>2, <2>3, GoOnPreserves
<1>6. CASE CommitUpdate(t)
  <2> DEFINE r == tx[t].report
  <2>1. CASE Exists(r) /\ tx[t].old \subseteq images[r]
    <3>1. images' = [images EXCEPT ![r] = (@ \ tx[t].old) \cup tx[t].new]
          /\ End(t) /\ UNCHANGED <<objects, rows, age, used, job>>
      BY <1>6, <2>1 DEF CommitUpdate
    <3>2. /\ DOMAIN images' = DOMAIN images \cup {r}
          /\ images'[r] \subseteq tx[t].new \cup images[r]
          /\ \A q \in DOMAIN images \ {r} : images'[q] = images[q]
      BY <2>1, <3>1 DEF Exists
    <3>3. QED
      BY <1>6, <2>1, <3>1, <3>2, LinkPreserves DEF CommitUpdate, Uploading
  <2>2. CASE ~(Exists(r) /\ tx[t].old \subseteq images[r])
    <3>1. Abort(t) /\ UNCHANGED <<rows, age, used, images, job>>
      BY <1>6, <2>2 DEF CommitUpdate
    <3>2. QED
      BY <1>2, <3>1, EndPreserves DEF Abort
  <2>3. QED
    BY <2>1, <2>2
<1>7. CASE RemoveObjects(t)
  <2>1. CASE Abort(t)
    BY <1>2, <1>7, <2>1, EndPreserves DEF Abort, RemoveObjects
  <2>2. CASE objects' \in Removed(tx[t].old) /\ tx' = [tx EXCEPT ![t].op = "removed"]
    <3> DEFINE x == [tx[t] EXCEPT !.op = "removed"]
    <3>1. x \in Txs /\ x.op = "removed"
      BY <1>1, <1>7, TxFields DEF RemoveObjects, Ops
    <3>2. tx' = [tx EXCEPT ![t] = x] /\ objects' \subseteq objects
          /\ UNCHANGED <<rows, age, used, images, job>>
      BY <1>2, <1>7, <2>2 DEF RemoveObjects
    <3> HIDE DEF x
    <3>3. QED
      BY <3>1, <3>2, GoOnPreserves
  <2>3. QED
    BY <1>7, <2>1, <2>2 DEF RemoveObjects
<1>8. CASE CommitDelete(t)
  BY <1>8, EndPreserves DEF CommitDelete
<1>9. QED
  BY <1>3, <1>4, <1>5, <1>6, <1>7, <1>8, RetrievePreserves, CommitStagedPreserves DEF Proceed

\* A request that fails or dies links nothing.
LEMMA FailurePreserves ==
  ASSUME IInv, NEW t \in Requests, Fail(t) \/ Crash(t)
  PROVE  IInv'
<1>1. CASE Fail(t)
  <2>1. objects' \subseteq objects
    BY <1>1, RemovedIsLess DEF Fail, Abort
  <2>2. QED
    BY <1>1, <2>1, EndPreserves DEF Fail, Abort
<1>2. CASE Crash(t)
  BY <1>2, EndPreserves DEF Crash
<1>3. QED
  BY <1>1, <1>2

(***************************************************************************)
(* One report for each object                                              *)
(***************************************************************************)
\* There is nothing at first.
LEMMA InitEstablishes == Init => IInv
<1> SUFFICES ASSUME Init PROVE IInv
  OBVIOUS
<1>1. \A t \in Requests : tx[t] = Idle
  BY DEF Init
<1>2. Idle \in Txs /\ Idle.op = "idle"
  BY DEF Idle, Txs, Records, Ops
<1>3. TypeOK
  <2>1. tx \in [Requests -> Txs]
    BY <1>2 DEF Init
  <2>2. Typed
    BY DEF Init, Typed
  <2>3. QED
    BY <2>1, <2>2, TypeOKParts
<1>4. StagingIsStaged /\ DrawnOnce /\ LinkedOnce
  BY <1>1, <1>2 DEF Init, StagingIsStaged, DrawnOnce, LinkedOnce, Uploading
<1>5. QED
  BY <1>3, <1>4 DEF IInv

\* The inductive invariant holds in every reachable state.
THEOREM Invariant == Spec => []IInv
<1>1. IInv /\ [Next]_vars => IInv'
  <2> SUFFICES ASSUME IInv, [Next]_vars PROVE IInv'
    OBVIOUS
  <2>1. CASE UNCHANGED vars
    BY <2>1 DEF vars, IInv, TypeOK, StagingIsStaged, DrawnOnce, LinkedOnce, Uploading
  <2>2. CASE Next
    BY <2>2, StagingPreserves, BeginPreserves, UploadPreserves, ProceedPreserves,
       FailurePreserves DEF Next, Step
  <2>3. QED
    BY <2>1, <2>2
<1>2. QED
  BY <1>1, InitEstablishes, PTL DEF Spec

\* Objects, rows and transactions stay well typed, for any number of requests
\* and under any faults.
THEOREM TypeCorrect == Spec => []TypeOK
<1>1. IInv => TypeOK
  BY DEF IInv
<1>2. QED
  BY <1>1, Invariant, PTL

\* Whatever fails, expires or is submitted twice, no object belongs to two
\* reports.
THEOREM ObjectsHaveOneReport == Spec => []LinkedOnce
<1>1. IInv => LinkedOnce
  BY DEF IInv
<1>2. QED
  BY <1>1, Invariant, PTL

(***************************************************************************)
(* While nothing fails: what a step leaves of each part of QuietInv        *)
(***************************************************************************)
Quiet == IdsDrawnOnce /\ ReadAsAWhole /\ StagedOnce /\ CleansOrphans /\ StoredOrCleared

OthersStay(t) == \A s \in Requests \ {t} : tx'[s] = tx[s]

\* The transaction t does its next step and keeps what it knows.
MovesTo(t, op) ==
  /\ tx'[t].op = op /\ tx'[t].report = tx[t].report /\ tx'[t].old = tx[t].old
  /\ tx'[t].new = tx[t].new /\ tx'[t].todo = tx[t].todo /\ tx'[t].rows = tx[t].rows
  /\ OthersStay(t)

LEMMA Moved ==
  ASSUME TypeOK, NEW t \in Requests, NEW op, tx' = [tx EXCEPT ![t].op = op]
  PROVE  MovesTo(t, op)
<1>1. tx[t] \in Records /\ tx \in [Requests -> Txs]
  BY TxTyped DEF Txs
<1>2. tx'[t] = [tx[t] EXCEPT !.op = op] /\ OthersStay(t)
  BY <1>1 DEF OthersStay
<1>3. QED
  BY <1>1, <1>2 DEF MovesTo, Records

\* The transaction t is over.
LEMMA Ended ==
  ASSUME TypeOK, NEW t \in Requests, End(t)
  PROVE  tx'[t] = Idle /\ tx'[t].op = "idle" /\ OthersStay(t)
BY TxTyped DEF End, OthersStay, Idle

\* No transaction but those that create takes an id, and none gives it to two.
LEMMA IdsFrame ==
  ASSUME IdsDrawnOnce, used \subseteq used', DOMAIN images' \subseteq DOMAIN images,
         \A t \in Requests : tx'[t].op # "idle" =>
           /\ tx[t].op # "idle" /\ tx'[t].report = tx[t].report
           /\ tx'[t].op \in {"create", "stage"} => tx[t].op \in {"create", "stage"}
  PROVE  IdsDrawnOnce'
BY DEF IdsDrawnOnce

\* Reports keep their images or go; an editing transaction keeps what it read;
\* what is uploaded is new.
LEMMA WholeFrame ==
  ASSUME ReadAsAWhole, used \subseteq used',
         \A r \in DOMAIN images' : r \in DOMAIN images /\ images'[r] = images[r],
         \A t \in Requests : Edits(t)' =>
           Edits(t) /\ tx'[t].report = tx[t].report /\ tx'[t].old = tx[t].old,
         \A t \in Requests : Uploading(t)' => \A k \in tx'[t].new :
           k \notin used \/ (Uploading(t) /\ k \in tx[t].new)
  PROVE  ReadAsAWhole' /\ \A k \in Keys : Linked(k)' => Linked(k)
<1>1. \A k \in Keys : Linked(k)' => Linked(k)
  BY DEF Linked, Referenced
<1>2. \A r \in DOMAIN images' : images'[r] # {}
  BY DEF ReadAsAWhole
<1>3. \A t \in Requests : Edits(t)' =>
        /\ tx'[t].old # {}
        /\ \A r \in DOMAIN images' : \/ r = tx'[t].report /\ tx'[t].old = images'[r]
                                     \/ tx'[t].old \cap images'[r] = {}
  BY DEF ReadAsAWhole
<1>4. \A k \in Keys : Linked(k)' =>
        k \in used' /\ \A t \in Requests : Uploading(t)' => k \notin tx'[t].new
  BY <1>1 DEF ReadAsAWhole
<1>5. QED
  BY <1>1, <1>2, <1>3, <1>4 DEF ReadAsAWhole

\* What a creation has been given, well typed.
LEMMA SubmittedTyped ==
  ASSUME IInv
  PROVE  \A t \in Requests : tx[t].op = "stage" =>
           tx[t].new \subseteq StagedKeys /\ tx[t].todo \subseteq StagedKeys
BY TxTyped DEF IInv, StagingIsStaged, Txs, Records

\* No creation from staged images begins, and none goes on.
LEMMA StagedFrame ==
  ASSUME IInv, StagedOnce, used \subseteq used', UNCHANGED age,
         \A k \in StagedKeys : Linked(k)' => Linked(k),
         \A t \in Requests : Submits(t)' => Submits(t) /\ tx'[t] = tx[t]
  PROVE  StagedOnce'
<1>1. \A t \in Requests : tx'[t].op = "stage" => tx[t].op = "stage" /\ tx'[t] = tx[t]
  BY DEF Submits
<1>2. \A t \in Requests : Submits(t)' =>
        /\ tx'[t].todo \cup tx'[t].new \subseteq used'
        /\ \A s \in Requests \ {t} : Submits(s)' =>
             (tx'[s].todo \cup tx'[s].new) \cap (tx'[t].todo \cup tx'[t].new) = {}
  BY DEF StagedOnce, Submitted
<1>3. ASSUME NEW t \in Requests, tx'[t].op = "stage"
      PROVE  /\ tx'[t].todo \cup tx'[t].new # {}
             /\ \A k \in tx'[t].todo \cup tx'[t].new : age'[k] = 0 /\ ~Linked(k)'
  <2>1. tx[t].op = "stage" /\ tx'[t] = tx[t]
    BY <1>1, <1>3
  <2>2. tx[t].new \subseteq StagedKeys /\ tx[t].todo \subseteq StagedKeys
    BY <2>1, SubmittedTyped
  <2>3. /\ tx[t].todo \cup tx[t].new # {}
        /\ \A k \in tx[t].todo \cup tx[t].new : age[k] = 0 /\ ~Linked(k)
    BY <2>1 DEF StagedOnce, Submitted
  <2>4. QED
    BY <2>1, <2>2, <2>3
<1>4. QED
  BY <1>2, <1>3 DEF StagedOnce, Submitted

\* The cleanup only takes on what is old, and only old keys stay unlinked.
LEMMA CleansFrame ==
  ASSUME TypeOK, TypeOK', CleansOrphans,
         \A k \in StagedKeys : age[k] > 0 => age'[k] > 0,
         \A k \in StagedKeys : age[k] > 0 /\ Referenced(k)' => Referenced(k),
         \A k \in job'.list : k \in job.list \/ age[k] > 0,
         job'.key # NULL =>
           job'.key = job.key \/ (job'.key \in job.list /\ ~Referenced(job'.key))
  PROVE  CleansOrphans'
<1>1. /\ job.list \subseteq StagedKeys /\ job'.list \subseteq StagedKeys
      /\ job'.key # NULL => job'.key \in StagedKeys
  BY DEF TypeOK
<1>2. \A k \in job'.list : age'[k] > 0
  BY <1>1 DEF CleansOrphans
<1>3. ASSUME job'.key # NULL
      PROVE  age'[job'.key] > 0 /\ ~Referenced(job.key)'
  <2>1. job'.key \in StagedKeys /\ age[job'.key] > 0 /\ ~Referenced(job'.key)
    BY <1>1, <1>3 DEF CleansOrphans
  <2>2. \A k \in StagedKeys : age[k] > 0 /\ ~Referenced(k) => age'[k] > 0 /\ ~Referenced(k)'
    OBVIOUS
  <2>3. QED
    BY <2>1, <2>2 DEF Referenced
<1>4. QED
  BY <1>2, <1>3 DEF CleansOrphans

\* Reports keep the objects they have, and who is about to change them is.
LEMMA StoredFrame ==
  ASSUME StoredOrCleared,
         \A t \in Requests : Uploading(t)' \/ tx'[t].op = "stage" => tx'[t].new \subseteq objects',
         \A r \in DOMAIN images' :
           /\ r \in DOMAIN images /\ images'[r] = images[r]
           /\ images[r] \subseteq objects => images[r] \subseteq objects',
         \A t \in Requests : Clearing(t) =>
           \/ Clearing(t)' /\ tx'[t].report = tx[t].report /\ tx'[t].old = tx[t].old
           \/ tx[t].report \notin DOMAIN images' \/ tx[t].old # images[tx[t].report]
  PROVE  StoredOrCleared'
<1>1. ASSUME NEW r \in DOMAIN images', ~(images'[r] \subseteq objects')
      PROVE  \E t \in Requests : Clearing(t)' /\ tx'[t].report = r /\ tx'[t].old = images'[r]
  <2>1. PICK t \in Requests : Clearing(t) /\ tx[t].report = r /\ tx[t].old = images[r]
    BY <1>1 DEF StoredOrCleared
  <2>2. r \in DOMAIN images' /\ images'[r] = images[r]
    BY <1>1
  <2>3. QED
    BY <2>1, <2>2
<1>2. QED
  BY <1>1 DEF StoredOrCleared

(***************************************************************************)
(* While nothing fails: the actions                                        *)
(***************************************************************************)
\* Transactions, reports and rows stay; objects and keys may be added.
LEMMA StayQuiet ==
  ASSUME IInv, IInv', Quiet, UNCHANGED <<tx, images, age>>, used \subseteq used',
         objects \subseteq objects',
         \A k \in job'.list : k \in job.list \/ age[k] > 0,
         job'.key # NULL =>
           job'.key = job.key \/ (job'.key \in job.list /\ ~Referenced(job'.key))
  PROVE  Quiet'
<1>1. IdsDrawnOnce'
  BY DEF Quiet, IdsDrawnOnce
<1>2. \A k \in Keys : Linked(k)' => Linked(k)
  BY DEF Linked, Referenced, Edits
<1>3. ReadAsAWhole'
  BY WholeFrame DEF Quiet, Edits, Uploading
<1>4. StagedOnce'
  BY <1>2, StagedFrame DEF Quiet, Submits, Keys
<1>5. CleansOrphans'
  BY CleansFrame DEF Quiet, IInv, Referenced
<1>6. StoredOrCleared'
  BY StoredFrame DEF Quiet, Uploading, Clearing, StoredOrCleared
<1>7. QED
  BY <1>1, <1>3, <1>4, <1>5, <1>6 DEF Quiet

\* No time passes while a creation has staged images to take.
LEMMA TickQuiet ==
  ASSUME IInv, IInv', Quiet, setup.faults = {}, NEW k \in StagedKeys, Tick(k)
  PROVE  Quiet'
<1>1. /\ UNCHANGED <<objects, rows, used, images, tx, job>>
      /\ \A t \in Requests : tx[t].op # "stage"
      /\ age' = [age EXCEPT ![k] = @ + 1]
  BY DEF Tick
<1>2. IdsDrawnOnce' /\ StoredOrCleared'
  BY <1>1 DEF Quiet, IdsDrawnOnce, StoredOrCleared, Uploading, Clearing
<1>3. ReadAsAWhole' /\ \A l \in Keys : Linked(l)' => Linked(l)
  BY <1>1, WholeFrame DEF Quiet, Edits, Uploading
<1>4. StagedOnce'
  BY <1>1, <1>3 DEF Quiet, StagedOnce, Submits, Submitted
<1>5. CleansOrphans'
  <2>1. \A l \in StagedKeys : age[l] > 0 => age'[l] > 0
    BY <1>1 DEF IInv, TypeOK
  <2>2. QED
    BY <1>1, <2>1, CleansFrame DEF Quiet, IInv, Referenced
<1>6. QED
  BY <1>2, <1>3, <1>4, <1>5 DEF Quiet

\* The cleanup removes an object that no report has and none can get.
LEMMA DeleteStagedQuiet ==
  ASSUME IInv, IInv', Quiet, DeleteStaged
  PROVE  Quiet'
<1>1. /\ UNCHANGED <<age, used, images, tx>> /\ job' = [job EXCEPT !.key = NULL]
      /\ job.key # NULL /\ objects' = objects \ {job.key} /\ rows' = rows \ {job.key}
  BY DEF DeleteStaged
<1>2. /\ job.key \in StagedKeys /\ age[job.key] > 0 /\ ~Referenced(job.key)
      /\ job'.list = job.list /\ job'.key = NULL
  BY <1>1 DEF IInv, TypeOK, Quiet, CleansOrphans
<1>3. IdsDrawnOnce'
  BY <1>1 DEF Quiet, IdsDrawnOnce
<1>4. ReadAsAWhole' /\ \A k \in Keys : Linked(k)' => Linked(k)
  BY <1>1, WholeFrame DEF Quiet, Edits, Uploading
<1>5. StagedOnce'
  BY <1>1, <1>4, StagedFrame DEF Quiet, Submits, Keys
<1>6. CleansOrphans'
  BY <1>1, <1>2, CleansFrame DEF Quiet, IInv, Referenced
<1>7. StoredOrCleared'
  <2>1. \A t \in Requests : Uploading(t)' \/ tx'[t].op = "stage" => tx'[t].new \subseteq objects'
    <3>1. \A t \in Requests : Uploading(t) => job.key \notin tx[t].new
      BY <1>2, KeysAssumption DEF IInv, DrawnOnce
    <3>2. \A t \in Requests : tx[t].op = "stage" => job.key \notin tx[t].new
      BY <1>2 DEF Quiet, StagedOnce, Submitted
    <3>3. QED
      BY <1>1, <3>1, <3>2 DEF Quiet, StoredOrCleared, Uploading
  <2>2. \A r \in DOMAIN images : images[r] \subseteq objects => images[r] \subseteq objects'
    BY <1>1, <1>2 DEF Referenced
  <2>3. QED
    BY <1>1, <2>1, <2>2, StoredFrame DEF Quiet, Clearing
<1>8. QED
  BY <1>3, <1>4, <1>5, <1>6, <1>7 DEF Quiet

\* A request that ends links nothing; it removes at most what it uploaded
\* itself, and if it was about to change a report's images, it has.
LEMMA EndQuiet ==
  ASSUME IInv, IInv', Quiet, NEW t \in Requests, End(t), UNCHANGED <<age, used, job>>,
         \A r \in DOMAIN images' : r \in DOMAIN images /\ images'[r] = images[r],
         \A k \in objects : k \in objects' \/ (Uploading(t) /\ k \in tx[t].new),
         Clearing(t) => \/ tx[t].report \notin DOMAIN images'
                        \/ tx[t].old # images[tx[t].report]
  PROVE  Quiet'
<1>1. tx'[t].op = "idle" /\ OthersStay(t)
  BY Ended DEF IInv
<1>2. IdsDrawnOnce'
  BY <1>1, IdsFrame DEF Quiet, OthersStay
<1>3. ReadAsAWhole' /\ \A k \in Keys : Linked(k)' => Linked(k)
  <2>1. \A s \in Requests : Edits(s)' => Edits(s) /\ tx'[s] = tx[s]
    BY <1>1 DEF Edits, OthersStay
  <2>2. \A s \in Requests : Uploading(s)' => Uploading(s) /\ tx'[s] = tx[s]
    BY <1>1 DEF Uploading, OthersStay
  <2>3. QED
    BY <2>1, <2>2, WholeFrame DEF Quiet
<1>4. StagedOnce'
  <2>1. \A s \in Requests : Submits(s)' => Submits(s) /\ tx'[s] = tx[s]
    BY <1>1 DEF Submits, OthersStay
  <2>2. QED
    BY <1>3, <2>1, StagedFrame DEF Quiet, Keys
<1>5. CleansOrphans'
  <2>1. \A k \in StagedKeys : age[k] > 0 /\ Referenced(k)' => Referenced(k)
    BY DEF Referenced
  <2>2. QED
    BY <2>1, CleansFrame DEF Quiet, IInv
<1>6. StoredOrCleared'
  <2>1. \A s \in Requests : Uploading(s)' \/ tx'[s].op = "stage" =>
          s # t /\ tx'[s] = tx[s] /\ (Uploading(s) \/ tx[s].op = "stage")
    BY <1>1 DEF Uploading, OthersStay
  <2>2. \A s \in Requests \ {t} : Uploading(s) \/ tx[s].op = "stage" =>
          tx[s].new \subseteq objects /\ (Uploading(t) => tx[s].new \cap tx[t].new = {})
    BY KeysAssumption DEF Quiet, StoredOrCleared, IInv, DrawnOnce, StagingIsStaged
  <2>3. \A s \in Requests : Uploading(s)' \/ tx'[s].op = "stage" => tx'[s].new \subseteq objects'
    BY <2>1, <2>2
  <2>4. \A r \in DOMAIN images : images[r] \subseteq objects => images[r] \subseteq objects'
    BY DEF IInv, DrawnOnce
  <2>5. \A s \in Requests : Clearing(s) =>
          \/ Clearing(s)' /\ tx'[s].report = tx[s].report /\ tx'[s].old = tx[s].old
          \/ tx[s].report \notin DOMAIN images' \/ tx[s].old # images[tx[s].report]
    BY <1>1 DEF Clearing, OthersStay
  <2>6. QED
    BY <2>3, <2>4, <2>5, StoredFrame DEF Quiet
<1>7. QED
  BY <1>2, <1>3, <1>4, <1>5, <1>6 DEF Quiet

\* A commit gives a report the keys ks instead of what it had.
LEMMA LinkQuiet ==
  ASSUME IInv, IInv', Quiet, NEW t \in Requests, tx[t].op # "idle", OthersStay(t),
         tx'[t].op \in {"idle", "consume"}, tx'[t].op = "consume" => tx'[t].report = tx[t].report,
         UNCHANGED <<objects, rows, age, used, job>>,
         NEW r, r = tx[t].report, NEW ks \in SUBSET Keys, ks # {}, ks \subseteq objects,
         DOMAIN images' = DOMAIN images \cup {r}, images'[r] = ks,
         \A q \in DOMAIN images \ {r} : images'[q] = images[q],
         \A k \in ks : /\ k \in used /\ ~Linked(k) /\ (k \in StagedKeys => age[k] = 0)
                       /\ \A s \in Requests \ {t} : Uploading(s) => k \notin tx[s].new
  PROVE  /\ IdsDrawnOnce' /\ ReadAsAWhole' /\ CleansOrphans' /\ StoredOrCleared'
         /\ \A k \in Keys : Linked(k)' => Linked(k) \/ k \in ks
<1>1. \A k \in Keys : Referenced(k)' => Referenced(k) \/ k \in ks
  BY DEF Referenced
<1>2. \A s \in Requests : Edits(s)' => s # t /\ Edits(s) /\ tx'[s] = tx[s]
  BY DEF Edits, OthersStay
<1>3. \A s \in Requests : Uploading(s)' => s # t /\ Uploading(s) /\ tx'[s] = tx[s]
  BY DEF Uploading, OthersStay
<1>4. \A k \in Keys : Linked(k)' => Linked(k) \/ k \in ks
  BY <1>1, <1>2 DEF Linked
<1>5. IdsDrawnOnce'
  <2>1. r \in used /\ \A s \in Requests \ {t} : tx[s].op \in {"create", "stage"} => tx[s].report # r
    BY DEF Quiet, IdsDrawnOnce
  <2>2. DOMAIN images' \subseteq used'
    BY <2>1 DEF Quiet, IdsDrawnOnce
  <2>3. \A s \in Requests : tx'[s].op # "idle" => tx'[s].report \in used'
    <3>1. tx'[t].op = "consume" => tx'[t].report \in used'
      BY <2>1
    <3>2. QED
      BY <3>1 DEF Quiet, IdsDrawnOnce, OthersStay
  <2>4. ASSUME NEW s \in Requests, tx'[s].op \in {"create", "stage"}
        PROVE  /\ tx'[s].report \notin DOMAIN images'
               /\ \A z \in Requests \ {s} : tx'[z].op # "idle" => tx'[z].report # tx'[s].report
    <3>1. s # t /\ tx'[s] = tx[s]
      BY <2>4 DEF OthersStay
    <3>2. /\ tx[s].report \notin DOMAIN images
          /\ \A z \in Requests \ {s} : tx[z].op # "idle" => tx[z].report # tx[s].report
      BY <2>4, <3>1 DEF Quiet, IdsDrawnOnce
    <3>3. \A z \in Requests : tx'[z].op # "idle" => tx[z].op # "idle" /\ tx'[z].report = tx[z].report
      BY DEF OthersStay
    <3>4. QED
      BY <3>1, <3>2, <3>3
  <2>5. QED
    BY <2>2, <2>3, <2>4 DEF IdsDrawnOnce
<1>6. ReadAsAWhole'
  <2>1. \A q \in DOMAIN images' : images'[q] # {}
    BY DEF Quiet, ReadAsAWhole
  <2>2. ASSUME NEW s \in Requests, tx'[s] = tx[s], Edits(s)
        PROVE  /\ tx'[s].old # {}
               /\ \A q \in DOMAIN images' : \/ q = tx'[s].report /\ tx'[s].old = images'[q]
                                            \/ tx'[s].old \cap images'[q] = {}
    <3>1. tx[s].old \cap ks = {}
      BY <2>2 DEF Linked
    <3>2. QED
      BY <2>2, <3>1 DEF Quiet, ReadAsAWhole
  <2>3. \A k \in Keys : Linked(k)' =>
          k \in used' /\ \A s \in Requests : Uploading(s)' => k \notin tx'[s].new
    BY <1>3, <1>4 DEF Quiet, ReadAsAWhole
  <2>4. QED
    BY <1>2, <2>1, <2>2, <2>3 DEF ReadAsAWhole
<1>7. CleansOrphans'
  <2>1. \A k \in StagedKeys : age[k] > 0 /\ Referenced(k)' => Referenced(k)
    BY <1>1 DEF Keys
  <2>2. QED
    BY <2>1, CleansFrame DEF Quiet, IInv
<1>8. StoredOrCleared'
  <2>1. \A s \in Requests : Uploading(s)' \/ tx'[s].op = "stage" => tx'[s].new \subseteq objects'
    <3>1. \A s \in Requests : tx'[s].op = "stage" => tx[s].op = "stage" /\ tx'[s] = tx[s]
      BY DEF OthersStay
    <3>2. QED
      BY <1>3, <3>1 DEF Quiet, StoredOrCleared
  <2>2. ASSUME NEW q \in DOMAIN images', ~(images'[q] \subseteq objects')
        PROVE  \E s \in Requests : Clearing(s)' /\ tx'[s].report = q /\ tx'[s].old = images'[q]
    <3>1. q \in DOMAIN images /\ q # r /\ images'[q] = images[q]
      BY <2>2
    <3>2. PICK s \in Requests : Clearing(s) /\ tx[s].report = q /\ tx[s].old = images[q]
      BY <2>2, <3>1 DEF Quiet, StoredOrCleared
    <3>3. tx'[s] = tx[s]
      BY <3>1, <3>2 DEF OthersStay
    <3>4. QED
      BY <3>1, <3>2, <3>3 DEF Clearing
  <2>3. QED
    BY <2>1, <2>2 DEF StoredOrCleared
<1>9. QED
  BY <1>4, <1>5, <1>6, <1>7, <1>8

\* A creation or an edit that uploaded its images commits them; the images an
\* edit has read are either all there or all gone.
LEMMA CommitUploadedQuiet ==
  ASSUME IInv, IInv', Quiet, NEW t \in Requests, Uploading(t), tx[t].new # {}, End(t),
         UNCHANGED <<objects, rows, age, used, job>>,
         DOMAIN images' = DOMAIN images \cup {tx[t].report},
         images'[tx[t].report] = tx[t].new,
         \A q \in DOMAIN images \ {tx[t].report} : images'[q] = images[q]
  PROVE  Quiet'
<1> DEFINE ks == tx[t].new
           r == tx[t].report
<1>1. tx'[t].op = "idle" /\ OthersStay(t)
  BY Ended DEF IInv
<1>2. ks \subseteq objects
  BY DEF Quiet, StoredOrCleared
<1>3. ks \subseteq DirectKeys \cap used
  BY DEF IInv, DrawnOnce
<1>4. \A s \in Requests \ {t} : Uploading(s) => tx[s].new \cap ks = {}
  BY DEF IInv, DrawnOnce
<1>5. \A k \in Keys : Linked(k) => k \notin ks
  BY DEF Quiet, ReadAsAWhole
<1>6. ks \in SUBSET Keys /\ ks \cap StagedKeys = {}
  BY <1>3, KeysAssumption DEF Keys
<1>7. tx[t].op # "idle"
  BY DEF Uploading
<1>8. ks # {} /\ DOMAIN images' = DOMAIN images \cup {r} /\ images'[r] = ks
      /\ \A q \in DOMAIN images \ {r} : images'[q] = images[q]
  OBVIOUS
<1> HIDE DEF ks
<1>9. \A k \in ks : /\ k \in used /\ ~Linked(k) /\ (k \in StagedKeys => age[k] = 0)
                    /\ \A s \in Requests \ {t} : Uploading(s) => k \notin tx[s].new
  BY <1>3, <1>4, <1>5, <1>6
<1>10. /\ IdsDrawnOnce' /\ ReadAsAWhole' /\ CleansOrphans' /\ StoredOrCleared'
       /\ \A k \in Keys : Linked(k)' => Linked(k) \/ k \in ks
  BY <1>1, <1>2, <1>6, <1>7, <1>8, <1>9, LinkQuiet
<1>11. StagedOnce'
  <2>1. \A k \in StagedKeys : Linked(k)' => Linked(k)
    BY <1>6, <1>10 DEF Keys
  <2>2. \A s \in Requests : Submits(s)' => Submits(s) /\ tx'[s] = tx[s]
    BY <1>1 DEF Submits, OthersStay
  <2>3. QED
    BY <2>1, <2>2, StagedFrame DEF Quiet
<1>12. QED
  BY <1>10, <1>11 DEF Quiet

\* Staged images that are taken are fresh and linked by nobody.
LEMMA CommitStagedQuiet ==
  ASSUME IInv, IInv', Quiet, NEW t \in Requests, CommitStaged(t)
  PROVE  Quiet'
<1> DEFINE ks == tx[t].new
           r == tx[t].report
<1>1. TypeOK /\ tx[t].op = "stage" /\ tx[t].todo = {}
  BY DEF IInv, CommitStaged
<1>2. CASE End(t) /\ UNCHANGED images
  BY <1>1, <1>2, EndQuiet DEF CommitStaged, Clearing
<1>3. CASE images' = WithImages(r, ks) /\ tx' = [tx EXCEPT ![t].op = "consume"]
  <2>1. MovesTo(t, "consume") /\ OthersStay(t)
    BY <1>1, <1>3, Moved DEF MovesTo
  <2>2. /\ ks # {} /\ ks \subseteq used /\ \A k \in ks : age[k] = 0 /\ ~Linked(k)
    BY <1>1 DEF Quiet, StagedOnce, Submitted, Submits
  <2>3. ks \subseteq StagedKeys /\ ks \subseteq objects
    BY <1>1 DEF IInv, StagingIsStaged, Quiet, StoredOrCleared
  <2>4. \A s \in Requests : Uploading(s) => tx[s].new \cap ks = {}
    BY <2>3, KeysAssumption DEF IInv, DrawnOnce
  <2>5. /\ DOMAIN images' = DOMAIN images \cup {r} /\ images'[r] = ks
        /\ \A q \in DOMAIN images \ {r} : images'[q] = images[q]
    BY <1>3 DEF WithImages
  <2>6. UNCHANGED <<objects, rows, age, used, job>>
    BY DEF CommitStaged
  <2>7. /\ tx'[t].op \in {"idle", "consume"} /\ tx'[t].report = tx[t].report
        /\ tx[t].op # "idle" /\ ks \in SUBSET Keys
    BY <1>1, <2>1, <2>3 DEF MovesTo, Keys
  <2>8. /\ IdsDrawnOnce' /\ ReadAsAWhole' /\ CleansOrphans' /\ StoredOrCleared'
        /\ \A k \in Keys : Linked(k)' => Linked(k) \/ k \in ks
    <3> HIDE DEF ks
    <3>1. \A k \in ks : /\ k \in used /\ ~Linked(k) /\ (k \in StagedKeys => age[k] = 0)
                        /\ \A s \in Requests \ {t} : Uploading(s) => k \notin tx[s].new
      BY <2>2, <2>4
    <3>2. QED
      BY <2>1, <2>2, <2>3, <2>5, <2>6, <2>7, <3>1, LinkQuiet
  <2>9. StagedOnce'
    <3>1. \A s \in Requests : /\ Submits(s)' <=> Submits(s)
                              /\ tx'[s].todo = tx[s].todo /\ tx'[s].new = tx[s].new
                              /\ tx'[s].op = "stage" => s # t /\ tx[s].op = "stage"
      BY <1>1, <2>1 DEF MovesTo, OthersStay, Submits
    <3>2. \A s \in Requests : Submits(s)' =>
            /\ tx'[s].todo \cup tx'[s].new \subseteq used'
            /\ \A z \in Requests \ {s} : Submits(z)' =>
                 (tx'[z].todo \cup tx'[z].new) \cap (tx'[s].todo \cup tx'[s].new) = {}
      BY <2>6, <3>1 DEF Quiet, StagedOnce, Submitted
    <3>3. ASSUME NEW s \in Requests, s # t, tx[s].op = "stage"
          PROVE  /\ tx[s].todo \cup tx[s].new # {}
                 /\ \A k \in tx[s].todo \cup tx[s].new :
                      age[k] = 0 /\ k \in Keys /\ ~Linked(k) /\ k \notin ks
      <4>1. (tx[s].todo \cup tx[s].new) \cap ks = {}
        BY <1>1, <3>3 DEF Quiet, StagedOnce, Submitted, Submits
      <4>2. tx[s].new \subseteq Keys /\ tx[s].todo \subseteq Keys
        BY <3>3, SubmittedTyped DEF Keys
      <4>3. QED
        BY <3>3, <4>1, <4>2 DEF Quiet, StagedOnce, Submitted
    <3>4. \A s \in Requests : tx'[s].op = "stage" =>
            /\ tx'[s].todo \cup tx'[s].new # {}
            /\ \A k \in tx'[s].todo \cup tx'[s].new : age'[k] = 0 /\ ~Linked(k)'
      BY <2>6, <2>8, <3>1, <3>3
    <3>5. QED
      BY <3>2, <3>4 DEF StagedOnce, Submitted
  <2>10. QED
    BY <2>8, <2>9 DEF Quiet
<1>4. QED
  BY <1>2, <1>3 DEF CommitStaged

\* A staged image that is taken was given to this creation alone.
LEMMA RetrieveQuiet ==
  ASSUME IInv, IInv', Quiet, NEW t \in Requests, NEW k \in StagedKeys, RetrieveOwned(t, k)
  PROVE  Quiet'
<1>1. TypeOK /\ tx[t] \in Records /\ tx \in [Requests -> Txs] /\ tx[t].op = "stage" /\ k \in tx[t].todo
  BY TxTyped DEF IInv, RetrieveOwned, Txs
<1>2. UNCHANGED <<objects, rows, age, used, images, job>>
  BY DEF RetrieveOwned
<1>3. CASE End(t)
  BY <1>1, <1>2, <1>3, EndQuiet DEF Clearing
<1>4. CASE ~End(t)
  <2>1. /\ tx' = [tx EXCEPT ![t].todo = @ \ {k}, ![t].new = @ \cup {k}]
        /\ k \in tx[t].rows /\ k \in objects
    BY <1>4 DEF RetrieveOwned
  <2>2. tx'[t] = [tx[t] EXCEPT !.todo = @ \ {k}, !.new = @ \cup {k}] /\ OthersStay(t)
    BY <1>1, <2>1 DEF OthersStay
  <2>3. /\ tx'[t].op = "stage" /\ tx'[t].report = tx[t].report /\ tx'[t].rows = tx[t].rows
        /\ tx'[t].todo = tx[t].todo \ {k} /\ tx'[t].new = tx[t].new \cup {k}
    BY <1>1, <2>2 DEF Records
  <2>4. \A s \in Requests : tx'[s].op = tx[s].op /\ tx'[s].report = tx[s].report
                             /\ tx'[s].todo \cup tx'[s].new = tx[s].todo \cup tx[s].new
    <3>1. tx'[t].todo \cup tx'[t].new = tx[t].todo \cup tx[t].new
      BY <1>1, <2>3
    <3>2. QED
      BY <1>1, <2>2, <2>3, <3>1 DEF OthersStay
  <2>5. \A s \in Requests : Edits(s)' \/ Uploading(s)' => s # t /\ tx'[s] = tx[s]
    BY <2>2, <2>3 DEF Edits, Uploading, OthersStay
  <2>6. IdsDrawnOnce'
    BY <1>2, <2>4, IdsFrame DEF Quiet
  <2>7. ReadAsAWhole' /\ \A l \in Keys : Linked(l)' => Linked(l)
    <3>1. \A s \in Requests : Edits(s)' =>
            Edits(s) /\ tx'[s].report = tx[s].report /\ tx'[s].old = tx[s].old
      BY <2>5 DEF Edits
    <3>2. \A s \in Requests : Uploading(s)' => \A l \in tx'[s].new :
            l \notin used \/ (Uploading(s) /\ l \in tx[s].new)
      BY <2>5 DEF Uploading
    <3>3. QED
      BY <1>2, <3>1, <3>2, WholeFrame DEF Quiet
  <2>8. CleansOrphans'
    BY <1>2, CleansFrame DEF Quiet, IInv, Referenced
  <2>9. StoredOrCleared'
    <3>1. \A s \in Requests : Uploading(s)' \/ tx'[s].op = "stage" => tx'[s].new \subseteq objects'
      <4>1. tx'[t].new \subseteq objects'
        BY <1>1, <1>2, <2>1, <2>3 DEF Quiet, StoredOrCleared
      <4>2. QED
        BY <1>2, <2>2, <4>1 DEF Quiet, StoredOrCleared, Uploading, OthersStay
    <3>2. \A s \in Requests : Clearing(s) =>
            Clearing(s)' /\ tx'[s].report = tx[s].report /\ tx'[s].old = tx[s].old
      BY <1>1, <2>2 DEF Clearing, OthersStay
    <3>3. QED
      BY <1>2, <3>1, <3>2, StoredFrame DEF Quiet
  <2>10. StagedOnce'
    <3>1. \A s \in Requests : Submits(s)' =>
            /\ tx'[s].todo \cup tx'[s].new \subseteq used'
            /\ \A z \in Requests \ {s} : Submits(z)' =>
                 (tx'[z].todo \cup tx'[z].new) \cap (tx'[s].todo \cup tx'[s].new) = {}
      BY <1>2, <2>4 DEF Quiet, StagedOnce, Submitted, Submits
    <3>2. \A s \in Requests : tx'[s].op = "stage" =>
            /\ tx'[s].todo \cup tx'[s].new # {}
            /\ \A l \in tx'[s].todo \cup tx'[s].new : age'[l] = 0 /\ ~Linked(l)'
      BY <1>2, <2>4, <2>7, SubmittedTyped DEF Quiet, StagedOnce, Submitted, Keys
    <3>3. QED
      BY <3>1, <3>2 DEF StagedOnce, Submitted
  <2>11. QED
    BY <2>6, <2>7, <2>8, <2>9, <2>10 DEF Quiet
<1>5. QED
  BY <1>3, <1>4

\* A request that begins; only an edit or a deletion reads a report's images.
LEMMA BeginQuiet ==
  ASSUME IInv, IInv', Quiet, NEW t \in Requests, NEW op, NEW r, NEW old \in SUBSET Keys,
         tx[t] = Idle, tx' = [tx EXCEPT ![t] = Tx(op, r, old, {})],
         UNCHANGED <<objects, rows, age, images, job>>,
         \/ /\ op = "create" /\ r \notin used /\ used' = used \cup {r}
         \/ /\ op \in {"update", "delete"} /\ r \in DOMAIN images /\ old = images[r]
            /\ UNCHANGED used
  PROVE  Quiet'
<1>1. tx \in [Requests -> Txs]
  BY TxTyped DEF IInv
<1>2. tx'[t] = Tx(op, r, old, {}) /\ OthersStay(t)
  BY <1>1 DEF OthersStay
<1>3. /\ tx'[t].op = op /\ tx'[t].report = r /\ tx'[t].old = old /\ tx'[t].new = {}
      /\ tx[t].op = "idle"
  BY <1>2 DEF Tx, Idle
<1> HIDE DEF Tx, Idle
<1>4. IdsDrawnOnce'
  <2>1. DOMAIN images' \subseteq used' /\ r \in used'
    BY DEF Quiet, IdsDrawnOnce
  <2>2. \A s \in Requests : tx'[s].op # "idle" => tx'[s].report \in used'
    BY <1>2, <1>3, <2>1 DEF Quiet, IdsDrawnOnce, OthersStay
  <2>3. \A s \in Requests \ {t} : tx[s].op # "idle" /\ (op = "create" \/ tx[s].op \in {"create", "stage"})
          => tx[s].report # r
    BY DEF Quiet, IdsDrawnOnce
  <2>4. op = "create" => r \notin DOMAIN images
    BY DEF Quiet, IdsDrawnOnce
  <2>5. \A s \in Requests : tx'[s].op \in {"create", "stage"} =>
          /\ tx'[s].report \notin DOMAIN images'
          /\ \A z \in Requests \ {s} : tx'[z].op # "idle" => tx'[z].report # tx'[s].report
    BY <1>2, <1>3, <2>3, <2>4 DEF Quiet, IdsDrawnOnce, OthersStay
  <2>6. QED
    BY <2>1, <2>2, <2>5 DEF IdsDrawnOnce
<1>5. \A s \in Requests : Edits(s)' => \/ s = t /\ r \in DOMAIN images /\ old = images[r]
                                       \/ s # t /\ Edits(s) /\ tx'[s] = tx[s]
  BY <1>2, <1>3 DEF Edits, OthersStay
<1>6. \A k \in Keys : Linked(k)' => Linked(k)
  BY <1>3, <1>5 DEF Linked, Referenced
<1>7. ReadAsAWhole'
  <2>1. \A s \in Requests : Edits(s)' =>
          /\ tx'[s].old # {}
          /\ \A q \in DOMAIN images' : \/ q = tx'[s].report /\ tx'[s].old = images'[q]
                                       \/ tx'[s].old \cap images'[q] = {}
    <3>1. ASSUME r \in DOMAIN images, old = images[r]
          PROVE  /\ old # {}
                 /\ \A q \in DOMAIN images : q = r \/ old \cap images[q] = {}
      BY <3>1 DEF Quiet, ReadAsAWhole, IInv, LinkedOnce
    <3>2. QED
      BY <1>3, <1>5, <3>1 DEF Quiet, ReadAsAWhole
  <2>2. \A k \in Keys : Linked(k)' =>
          k \in used' /\ \A s \in Requests : Uploading(s)' => k \notin tx'[s].new
    BY <1>2, <1>3, <1>6 DEF Quiet, ReadAsAWhole, Uploading, OthersStay
  <2>3. QED
    BY <2>1, <2>2 DEF Quiet, ReadAsAWhole
<1>8. StagedOnce'
  <2>1. \A s \in Requests : Submits(s)' => Submits(s) /\ tx'[s] = tx[s]
    BY <1>2, <1>3 DEF Submits, OthersStay
  <2>2. used \subseteq used'
    OBVIOUS
  <2>3. QED
    BY <1>6, <2>1, <2>2, StagedFrame DEF Quiet, Keys
<1>9. CleansOrphans'
  BY CleansFrame DEF Quiet, IInv, Referenced
<1>10. StoredOrCleared'
  <2>1. \A s \in Requests : Uploading(s)' \/ tx'[s].op = "stage" => tx'[s].new \subseteq objects'
    BY <1>2, <1>3 DEF Quiet, StoredOrCleared, Uploading, OthersStay
  <2>2. \A s \in Requests : Clearing(s) =>
          Clearing(s)' /\ tx'[s].report = tx[s].report /\ tx'[s].old = tx[s].old
    BY <1>2, <1>3 DEF Clearing, OthersStay
  <2>3. QED
    BY <2>1, <2>2, StoredFrame DEF Quiet
<1>11. QED
  BY <1>4, <1>7, <1>8, <1>9, <1>10 DEF Quiet

\* A creation from staged images begins; a key is submitted once and in time.
LEMMA CreateFromStagedQuiet ==
  ASSUME IInv, IInv', Quiet, setup.faults = {}, NEW t \in Requests, NEW r \in Reports,
         NEW ks \in SUBSET StagedKeys, CreateFromStaged(t, r, ks)
  PROVE  Quiet'
<1>1. /\ tx[t] = Idle /\ r \notin used /\ ks # {} /\ ks \subseteq used
      /\ used' = used \cup {r} /\ UNCHANGED <<objects, rows, age, images, job>>
      /\ \A k \in ks : age[k] = 0
      /\ \A k \in ks : ~Linked(k) /\ \A s \in Requests : k \notin tx[s].todo \cup tx[s].new
  BY DEF CreateFromStaged
<1>2. tx'[t] = Tx("stage", r, {}, ks) /\ OthersStay(t)
  BY TxTyped DEF CreateFromStaged, OthersStay, IInv
<1>3. /\ tx'[t].op = "stage" /\ tx'[t].report = r /\ tx'[t].new = {}
      /\ tx'[t].todo = ks /\ tx'[t].rows = rows /\ tx[t].op = "idle"
  BY <1>1, <1>2 DEF Tx, Idle
<1> HIDE DEF Tx, Idle
<1>4. \A s \in Requests \ {t} : tx'[s] = tx[s]
  BY <1>2 DEF OthersStay
<1>5. IdsDrawnOnce'
  <2>1. r \notin DOMAIN images /\ \A s \in Requests : tx[s].op # "idle" => tx[s].report # r
    BY <1>1 DEF Quiet, IdsDrawnOnce
  <2>2. DOMAIN images' \subseteq used' /\ \A s \in Requests : tx'[s].op # "idle" => tx'[s].report \in used'
    BY <1>1, <1>3, <1>4 DEF Quiet, IdsDrawnOnce
  <2>3. \A s \in Requests : tx'[s].op \in {"create", "stage"} =>
          /\ tx'[s].report \notin DOMAIN images'
          /\ \A z \in Requests \ {s} : tx'[z].op # "idle" => tx'[z].report # tx'[s].report
    BY <1>1, <1>3, <1>4, <2>1 DEF Quiet, IdsDrawnOnce
  <2>4. QED
    BY <2>2, <2>3 DEF IdsDrawnOnce
<1>6. \A s \in Requests : Edits(s)' \/ Uploading(s)' => s # t /\ tx'[s] = tx[s]
  BY <1>3, <1>4 DEF Edits, Uploading
<1>7. ReadAsAWhole' /\ \A k \in Keys : Linked(k)' => Linked(k)
  <2>1. \A s \in Requests : Edits(s)' =>
          Edits(s) /\ tx'[s].report = tx[s].report /\ tx'[s].old = tx[s].old
    BY <1>6 DEF Edits
  <2>2. \A s \in Requests : Uploading(s)' => \A k \in tx'[s].new :
          k \notin used \/ (Uploading(s) /\ k \in tx[s].new)
    BY <1>6 DEF Uploading
  <2>3. QED
    BY <1>1, <2>1, <2>2, WholeFrame DEF Quiet
<1>8. StagedOnce'
  <2>1. \A k \in ks : k \in Keys /\ ~Linked(k)
    BY <1>1 DEF Keys
  <2>2. \A s \in Requests : Submits(s)' => s = t \/ (Submits(s) /\ tx'[s] = tx[s])
    BY <1>4 DEF Submits
  <2>3. \A s \in Requests : Submits(s)' =>
          /\ tx'[s].todo \cup tx'[s].new \subseteq used'
          /\ \A z \in Requests \ {s} : Submits(z)' =>
               (tx'[z].todo \cup tx'[z].new) \cap (tx'[s].todo \cup tx'[s].new) = {}
    <3>1. tx'[t].todo \cup tx'[t].new = ks
      BY <1>3
    <3>2. \A s \in Requests : ks \cap (tx[s].todo \cup tx[s].new) = {}
      BY <1>1
    <3>3. \A s \in Requests : Submits(s) =>
            /\ tx[s].todo \cup tx[s].new \subseteq used
            /\ \A z \in Requests \ {s} : Submits(z) =>
                 (tx[z].todo \cup tx[z].new) \cap (tx[s].todo \cup tx[s].new) = {}
      BY DEF Quiet, StagedOnce, Submitted
    <3>4. QED
      BY <1>1, <2>2, <3>1, <3>2, <3>3
  <2>4. ASSUME NEW s \in Requests, s # t, tx[s].op = "stage"
        PROVE  /\ tx[s].todo \cup tx[s].new # {}
               /\ \A k \in tx[s].todo \cup tx[s].new : age[k] = 0 /\ k \in Keys /\ ~Linked(k)
    BY <2>4, SubmittedTyped DEF Quiet, StagedOnce, Submitted, Keys
  <2>5. \A s \in Requests : tx'[s].op = "stage" =>
          /\ tx'[s].todo \cup tx'[s].new # {}
          /\ \A k \in tx'[s].todo \cup tx'[s].new : age'[k] = 0 /\ ~Linked(k)'
    BY <1>1, <1>3, <1>4, <1>7, <2>1, <2>4
  <2>6. QED
    BY <2>3, <2>5 DEF StagedOnce, Submitted
<1>9. CleansOrphans'
  BY <1>1, CleansFrame DEF Quiet, IInv, Referenced
<1>10. StoredOrCleared'
  <2>1. \A s \in Requests : Uploading(s)' \/ tx'[s].op = "stage" => tx'[s].new \subseteq objects'
    BY <1>1, <1>3, <1>4 DEF Quiet, StoredOrCleared, Uploading
  <2>2. \A s \in Requests : Clearing(s) =>
          Clearing(s)' /\ tx'[s].report = tx[s].report /\ tx'[s].old = tx[s].old
    BY <1>3, <1>4 DEF Clearing
  <2>3. QED
    BY <1>1, <2>1, <2>2, StoredFrame DEF Quiet
<1>11. QED
  BY <1>5, <1>7, <1>8, <1>9, <1>10 DEF Quiet

\* An upload draws a key nobody has known, and stores its object.
LEMMA UploadImageQuiet ==
  ASSUME IInv, IInv', Quiet, NEW t \in Requests, NEW k \in DirectKeys, UploadImage(t, k)
  PROVE  Quiet'
<1>1. /\ tx[t] \in Records /\ tx \in [Requests -> Txs] /\ tx[t].op \in {"create", "update"}
      /\ k \notin used /\ used' = used \cup {k} /\ objects' = objects \cup {k}
      /\ UNCHANGED <<rows, age, images, job>>
  BY TxTyped DEF IInv, UploadImage, Txs
<1>2. tx'[t] = [tx[t] EXCEPT !.new = @ \cup {k}] /\ OthersStay(t)
  BY <1>1 DEF UploadImage, OthersStay
<1>3. /\ tx'[t].op = tx[t].op /\ tx'[t].report = tx[t].report /\ tx'[t].old = tx[t].old
      /\ tx'[t].new = tx[t].new \cup {k}
  BY <1>1, <1>2 DEF Records
<1>4. \A s \in Requests : tx'[s].op = tx[s].op /\ tx'[s].report = tx[s].report
                           /\ tx'[s].old = tx[s].old /\ tx'[s].new \subseteq tx[s].new \cup {k}
  BY <1>2, <1>3 DEF OthersStay
<1>5. IdsDrawnOnce'
  BY <1>1, <1>4, IdsFrame DEF Quiet
<1>6. \A s \in Requests : (Uploading(s)' <=> Uploading(s)) /\ (Edits(s)' <=> Edits(s))
                          /\ (Clearing(s)' <=> Clearing(s))
  BY <1>4 DEF Uploading, Edits, Clearing
<1>7. ReadAsAWhole' /\ \A l \in Keys : Linked(l)' => Linked(l)
  <2>1. \A s \in Requests : Uploading(s)' => \A l \in tx'[s].new :
          l \notin used \/ (Uploading(s) /\ l \in tx[s].new)
    BY <1>1, <1>4, <1>6
  <2>2. QED
    BY <1>1, <1>4, <1>6, <2>1, WholeFrame DEF Quiet
<1>8. StagedOnce'
  <2>1. \A s \in Requests : Submits(s)' => Submits(s) /\ tx'[s] = tx[s]
    BY <1>1, <1>2, <1>3 DEF Submits, OthersStay
  <2>2. used \subseteq used'
    BY <1>1
  <2>3. QED
    BY <1>1, <1>7, <2>1, <2>2, StagedFrame DEF Quiet, Keys
<1>9. CleansOrphans'
  BY <1>1, CleansFrame DEF Quiet, IInv, Referenced
<1>10. StoredOrCleared'
  <2>1. \A s \in Requests : Uploading(s)' \/ tx'[s].op = "stage" => tx'[s].new \subseteq objects'
    BY <1>1, <1>4, <1>6 DEF Quiet, StoredOrCleared
  <2>2. QED
    BY <1>1, <1>4, <1>6, <2>1, StoredFrame DEF Quiet
<1>11. QED
  BY <1>5, <1>7, <1>8, <1>9, <1>10 DEF Quiet

\* A transaction removes the objects of the images it has read: those of its
\* report, which it is about to change, or what no report has any more.
LEMMA ClearQuiet ==
  ASSUME IInv, IInv', Quiet, NEW t \in Requests, NEW op,
         \/ tx[t].op = "update" /\ op = "replaced"
         \/ tx[t].op = "delete" /\ op = "removed",
         tx' = [tx EXCEPT ![t].op = op], objects' = objects \ tx[t].old,
         UNCHANGED <<rows, age, used, images, job>>
  PROVE  Quiet'
<1>1. MovesTo(t, op)
  BY Moved DEF IInv
<1>2. \A s \in Requests : /\ tx'[s].report = tx[s].report /\ tx'[s].old = tx[s].old
                          /\ tx'[s].new = tx[s].new
                          /\ tx'[s] = tx[s] \/ (s = t /\ tx'[s].op = op)
  BY <1>1 DEF MovesTo, OthersStay
<1>3. \A s \in Requests : /\ Uploading(s)' => Uploading(s)
                          /\ Edits(s)' <=> Edits(s)
                          /\ Clearing(s)' <=> Clearing(s) \/ s = t
  BY <1>1, <1>2 DEF MovesTo, Uploading, Edits, Clearing
<1>4. IdsDrawnOnce'
  <2>1. \A s \in Requests : tx'[s].op # "idle" =>
          /\ tx[s].op # "idle" /\ tx'[s].report = tx[s].report
          /\ tx'[s].op \in {"create", "stage"} => tx[s].op \in {"create", "stage"}
    BY <1>2
  <2>2. QED
    BY <2>1, IdsFrame DEF Quiet
<1>5. ReadAsAWhole' /\ \A k \in Keys : Linked(k)' => Linked(k)
  BY <1>2, <1>3, WholeFrame DEF Quiet
<1>6. StagedOnce'
  <2>1. \A s \in Requests : Submits(s)' => Submits(s) /\ tx'[s] = tx[s]
    BY <1>2 DEF Submits
  <2>2. QED
    BY <1>5, <2>1, StagedFrame DEF Quiet, Keys
<1>7. CleansOrphans'
  BY CleansFrame DEF Quiet, IInv, Referenced
<1>8. StoredOrCleared'
  <2>1. Edits(t) /\ tx[t].old \subseteq Keys
    BY TxTyped DEF Edits, IInv, Txs, Records
  <2>2. \A k \in tx[t].old : k \in Keys /\ Linked(k)
    BY <2>1 DEF Linked
  <2>3. \A s \in Requests : Uploading(s)' \/ tx'[s].op = "stage" => tx'[s].new \subseteq objects'
    <3>1. \A s \in Requests : Uploading(s) \/ tx[s].op = "stage" =>
            tx[s].new \subseteq objects /\ tx[s].new \cap tx[t].old = {}
      BY <2>2 DEF Quiet, StoredOrCleared, ReadAsAWhole, StagedOnce, Submitted
    <3>2. \A s \in Requests : tx'[s].op = "stage" => tx[s].op = "stage"
      BY <1>2
    <3>3. QED
      BY <1>2, <1>3, <3>1, <3>2
  <2>4. ASSUME NEW r \in DOMAIN images, ~(images[r] \subseteq objects')
        PROVE  \E s \in Requests : (Clearing(s) \/ s = t) /\ tx[s].report = r /\ tx[s].old = images[r]
    <3>1. CASE images[r] \subseteq objects
      <4>1. tx[t].old \cap images[r] # {}
        BY <2>4, <3>1
      <4>2. tx[t].report = r /\ tx[t].old = images[r]
        BY <2>1, <4>1 DEF Quiet, ReadAsAWhole
      <4>3. QED
        BY <4>2
    <3>2. CASE ~(images[r] \subseteq objects)
      BY <3>2 DEF Quiet, StoredOrCleared
    <3>3. QED
      BY <3>1, <3>2
  <2>5. QED
    BY <1>2, <1>3, <2>3, <2>4 DEF StoredOrCleared
<1>9. QED
  BY <1>4, <1>5, <1>6, <1>7, <1>8 DEF Quiet

\* Nothing is left behind by a removal that cannot fail.
LEMMA RemovedWhole ==
  ASSUME setup.faults = {}, NEW ks, objects' \in Removed(ks)
  PROVE  objects' = objects \ ks
BY DEF Removed

\* What a transaction does next.
LEMMA ProceedQuiet ==
  ASSUME IInv, IInv', Quiet, ReplacedBySome, setup.faults = {}, NEW t \in Requests, Proceed(t)
  PROVE  Quiet'
<1>1. CASE CommitCreate(t)
  <2>1. /\ tx[t].new # {} /\ Uploading(t) /\ End(t)
        /\ UNCHANGED <<objects, rows, age, used, job>>
    BY <1>1 DEF CommitCreate, Uploading
  <2>2. /\ DOMAIN images' = DOMAIN images \cup {tx[t].report}
        /\ images'[tx[t].report] = tx[t].new
        /\ \A q \in DOMAIN images \ {tx[t].report} : images'[q] = images[q]
    BY <1>1 DEF CommitCreate, WithImages
  <2>3. QED
    BY <2>1, <2>2, CommitUploadedQuiet
<1>2. CASE Consume(t)
  <2>1. /\ tx[t].op = "consume" /\ End(t)
        /\ UNCHANGED <<objects, age, used, images, job>>
    BY <1>2 DEF Consume
  <2>2. QED
    BY <2>1, EndQuiet DEF Clearing
<1>3. CASE ReplaceImages(t)
  <2>1. /\ tx[t].op = "update" /\ tx' = [tx EXCEPT ![t].op = "replaced"]
        /\ objects' = objects \ tx[t].old /\ UNCHANGED <<rows, age, used, images, job>>
    BY <1>3, RemovedWhole DEF ReplaceImages
  <2>2. QED
    BY <2>1, ClearQuiet
<1>4. CASE CommitUpdate(t)
  <2> DEFINE r == tx[t].report
  <2>1. tx[t].op = "replaced" /\ UNCHANGED <<rows, age, used, job>>
    BY <1>4 DEF CommitUpdate
  <2>2. CASE Exists(r) /\ tx[t].old \subseteq images[r]
    <3>1. /\ images' = [images EXCEPT ![r] = (@ \ tx[t].old) \cup tx[t].new]
          /\ End(t) /\ UNCHANGED objects
      BY <1>4, <2>2 DEF CommitUpdate
    <3>2. tx[t].old = images[r] /\ r \in DOMAIN images
      BY <2>1, <2>2 DEF Quiet, ReadAsAWhole, Edits, Exists
    <3>3. /\ DOMAIN images' = DOMAIN images \cup {r} /\ images'[r] = tx[t].new
          /\ \A q \in DOMAIN images \ {r} : images'[q] = images[q]
      BY <3>1, <3>2
    <3>4. tx[t].new # {} /\ Uploading(t)
      BY <2>1 DEF ReplacedBySome, Uploading
    <3>5. QED
      BY <2>1, <3>1, <3>3, <3>4, CommitUploadedQuiet
  <2>3. CASE ~(Exists(r) /\ tx[t].old \subseteq images[r])
    <3>1. /\ objects' \in Removed(Uploaded(t)) /\ End(t) /\ UNCHANGED images
      BY <1>4, <2>3 DEF CommitUpdate, Abort
    <3>2. objects' = objects \ tx[t].new /\ Uploading(t)
      BY <2>1, <3>1, RemovedWhole DEF Uploaded, Uploading
    <3>3. r \notin DOMAIN images \/ tx[t].old # images[r]
      BY <2>3 DEF Exists
    <3>4. QED
      BY <2>1, <3>1, <3>2, <3>3, EndQuiet
  <2>4. QED
    BY <2>2, <2>3
<1>5. CASE RemoveObjects(t)
  <2>1. tx[t].op = "delete" /\ UNCHANGED <<rows, age, used, images, job>>
    BY <1>5 DEF RemoveObjects
  <2>2. CASE objects' \in Removed(tx[t].old) /\ tx' = [tx EXCEPT ![t].op = "removed"]
    <3>1. objects' = objects \ tx[t].old
      BY <2>2, RemovedWhole
    <3>2. QED
      BY <2>1, <2>2, <3>1, ClearQuiet
  <2>3. CASE Abort(t)
    <3>1. objects' = objects \ {} /\ End(t)
      BY <2>1, <2>3, RemovedWhole DEF Abort, Uploaded
    <3>2. QED
      BY <2>1, <3>1, EndQuiet DEF Clearing
  <2>4. QED
    BY <1>5, <2>2, <2>3 DEF RemoveObjects
<1>6. CASE CommitDelete(t)
  <2>1. /\ tx[t].op = "removed" /\ End(t) /\ UNCHANGED <<objects, rows, age, used, job>>
        /\ DOMAIN images' = DOMAIN images \ {tx[t].report}
        /\ \A r \in DOMAIN images' : r \in DOMAIN images /\ images'[r] = images[r]
    BY <1>6 DEF CommitDelete
  <2>2. QED
    BY <2>1, EndQuiet
<1>7. QED
  BY <1>1, <1>2, <1>3, <1>4, <1>5, <1>6, RetrieveQuiet, CommitStagedQuiet DEF Proceed

\* No edit goes on without new images.
LEMMA ReplacedBySomePreserved ==
  ASSUME IInv, ReplacedBySome, Next
  PROVE  ReplacedBySome'
<1>1. TypeOK /\ tx \in [Requests -> Txs]
  BY TxTyped DEF IInv
<1>2. ASSUME NEW t \in Requests, OthersStay(t), tx'[t].op = "replaced" => tx'[t].new # {}
      PROVE  ReplacedBySome'
  BY <1>2 DEF ReplacedBySome, OthersStay
<1>3. ASSUME NEW t \in Requests, End(t)
      PROVE  ReplacedBySome'
  BY <1>1, <1>2, <1>3, Ended
<1>4. ASSUME NEW t \in Requests, NEW op \in {"stage", "create", "update", "delete"}, NEW r, NEW old,
             NEW todo, tx' = [tx EXCEPT ![t] = Tx(op, r, old, todo)]
      PROVE  ReplacedBySome'
  <2>1. tx'[t].op # "replaced" /\ OthersStay(t)
    BY <1>1, <1>4 DEF Tx, OthersStay
  <2>2. QED
    BY <1>2, <2>1
<1>5. ASSUME NEW t \in Requests, NEW op, tx' = [tx EXCEPT ![t].op = op],
             op = "replaced" => tx[t].new # {}
      PROVE  ReplacedBySome'
  <2>1. MovesTo(t, op)
    BY <1>1, <1>5, Moved
  <2>2. QED
    BY <1>2, <1>5, <2>1 DEF MovesTo
<1>6. CASE UNCHANGED tx
  BY <1>6 DEF ReplacedBySome
<1>7. ASSUME NEW t \in Requests, NEW k \in DirectKeys, UploadImage(t, k)
      PROVE  ReplacedBySome'
  <2>1. tx[t] \in Records
    BY <1>1 DEF Txs
  <2>2. OthersStay(t) /\ tx'[t].new = tx[t].new \cup {k}
    BY <1>1, <1>7, <2>1 DEF UploadImage, OthersStay, Records
  <2>3. QED
    BY <1>2, <2>2
<1>8. ASSUME NEW t \in Requests, NEW k \in StagedKeys, RetrieveOwned(t, k)
      PROVE  ReplacedBySome'
  <2>1. tx[t] \in Records /\ tx[t].op = "stage"
    BY <1>1, <1>8 DEF Txs, RetrieveOwned
  <2>2. CASE tx' = [tx EXCEPT ![t].todo = @ \ {k}, ![t].new = @ \cup {k}]
    <3>1. OthersStay(t) /\ tx'[t].op = "stage"
      BY <1>1, <2>1, <2>2 DEF OthersStay, Records
    <3>2. QED
      BY <1>2, <3>1
  <2>3. QED
    BY <1>3, <1>8, <2>2 DEF RetrieveOwned
<1>9. ASSUME NEW t \in Requests, Proceed(t)
      PROVE  ReplacedBySome'
  <2>1. CASE ReplaceImages(t)
    BY <1>5, <2>1 DEF ReplaceImages
  <2>2. CASE RemoveObjects(t)
    BY <1>3, <1>5, <2>2 DEF RemoveObjects, Abort
  <2>3. CASE CommitStaged(t)
    BY <1>3, <1>5, <2>3 DEF CommitStaged
  <2>4. CASE CommitUpdate(t)
    BY <1>3, <2>4 DEF CommitUpdate, Abort
  <2>5. CASE CommitCreate(t) \/ Consume(t) \/ CommitDelete(t)
    BY <1>3, <2>5 DEF CommitCreate, Consume, CommitDelete
  <2>6. QED
    BY <1>8, <1>9, <2>1, <2>2, <2>3, <2>4, <2>5 DEF Proceed
<1>10. ASSUME NEW t \in Requests, NEW r \in Reports, NEW ks \in SUBSET StagedKeys,
             CreateFromStaged(t, r, ks) \/ Create(t, r) \/ Update(t, r) \/ Delete(t, r)
      PROVE  ReplacedBySome'
  BY <1>4, <1>10 DEF CreateFromStaged, Create, Update, Delete
<1>11. ASSUME NEW t \in Requests, Fail(t) \/ Crash(t)
      PROVE  ReplacedBySome'
  BY <1>3, <1>11 DEF Fail, Crash, Abort
<1>12. ASSUME NEW k \in StagedKeys, Upload(k) \/ Tick(k)
       PROVE  ReplacedBySome'
  BY <1>6, <1>12 DEF Upload, Tick
<1>13. CASE Cleanup \/ DeleteStaged \/ DeleteStagedFails
  BY <1>6, <1>13 DEF Cleanup, CleanupExpired, LookUp, DeleteStaged, DeleteStagedFails
<1>14. QED
  BY <1>7, <1>9, <1>10, <1>11, <1>12, <1>13 DEF Next, Step

\* Whatever happens while nothing fails keeps the parts.
LEMMA NextQuiet ==
  ASSUME IInv, IInv', Quiet, ReplacedBySome, setup.faults = {}, Next
  PROVE  Quiet'
<1>1. ASSUME NEW k \in StagedKeys, Upload(k)
      PROVE  Quiet'
  <2>1. /\ used' = used \cup {k} /\ k \notin used /\ objects' = objects \cup {k}
        /\ rows' = rows \cup {k} /\ UNCHANGED <<age, images, tx, job>>
    BY <1>1 DEF Upload
  <2>2. QED
    BY <2>1, StayQuiet
<1>2. CASE CleanupExpired
  BY <1>2, StayQuiet DEF CleanupExpired
<1>3. ASSUME NEW k \in StagedKeys, LookUp(k)
      PROVE  Quiet'
  <2>1. /\ UNCHANGED <<objects, rows, age, used, images, tx>> /\ k \in job.list
        /\ job'.list = job.list \ {k} /\ job'.key = IF Referenced(k) THEN NULL ELSE k
    BY <1>3 DEF LookUp
  <2>2. QED
    BY <2>1, StayQuiet
<1>4. ASSUME NEW t \in Requests, NEW r \in Reports, Create(t, r)
      PROVE  Quiet'
  BY <1>4, BeginQuiet DEF Create
<1>5. ASSUME NEW t \in Requests, NEW r \in Reports, Update(t, r) \/ Delete(t, r)
      PROVE  Quiet'
  <2>1. r \in DOMAIN images /\ images[r] \in SUBSET Keys
    BY <1>5 DEF Update, Delete, Exists, IInv, TypeOK
  <2>2. QED
    BY <1>5, <2>1, BeginQuiet DEF Update, Delete
<1>6. ~DeleteStagedFails /\ \A t \in Requests : ~Fail(t) /\ ~Crash(t)
  BY DEF DeleteStagedFails, Fail, Crash
<1>7. QED
  BY <1>1, <1>2, <1>3, <1>4, <1>5, <1>6, TickQuiet, CreateFromStagedQuiet, UploadImageQuiet,
     ProceedQuiet, DeleteStagedQuiet DEF Next, Step, Cleanup

(***************************************************************************)
(* All objects of each report                                              *)
(***************************************************************************)
\* At first there is no report and no request.
LEMMA InitQuiet == Init => Quiet /\ ReplacedBySome
<1> SUFFICES ASSUME Init PROVE Quiet /\ ReplacedBySome
  OBVIOUS
<1>1. \A t \in Requests : tx[t].op = "idle"
  BY DEF Init, Idle
<1>2. DOMAIN images = {} /\ rows = {} /\ job.list = {} /\ job.key = NULL
  BY DEF Init
<1>3. \A k \in Keys : ~Linked(k)
  BY <1>1, <1>2 DEF Linked, Referenced, Edits
<1>4. IdsDrawnOnce /\ ReadAsAWhole /\ ReplacedBySome
  BY <1>1, <1>2, <1>3 DEF IdsDrawnOnce, ReadAsAWhole, ReplacedBySome, Edits
<1>5. StagedOnce /\ CleansOrphans /\ StoredOrCleared
  BY <1>1, <1>2 DEF StagedOnce, CleansOrphans, StoredOrCleared, Submits, Uploading
<1>6. QED
  BY <1>4, <1>5 DEF Quiet

\* While nothing fails the parts hold in every reachable state.
THEOREM QuietInvariant == Spec => [](IInv /\ QuietInv)
<1>1. Init => IInv /\ QuietInv
  BY InitEstablishes, InitQuiet DEF QuietInv, Quiet
<1>2. IInv /\ QuietInv /\ IInv' /\ [Next]_vars => QuietInv'
  <2> SUFFICES ASSUME IInv, QuietInv, IInv', [Next]_vars, setup'.faults = {}
               PROVE  Quiet' /\ ReplacedBySome'
    BY DEF QuietInv, Quiet
  <2>1. setup' = setup
    BY DEF Next, vars
  <2>2. Quiet /\ ReplacedBySome /\ setup.faults = {}
    BY <2>1 DEF QuietInv, Quiet
  <2>3. CASE UNCHANGED vars
    <3>1. UNCHANGED <<objects, rows, age, used, images, tx, job>>
      BY <2>3 DEF vars
    <3>2. QED
      BY <2>2, <3>1, StayQuiet DEF ReplacedBySome
  <2>4. CASE Next
    BY <2>2, <2>4, NextQuiet, ReplacedBySomePreserved
  <2>5. QED
    BY <2>3, <2>4
<1>3. QED
  BY <1>1, <1>2, Invariant, PTL DEF Spec

\* While nothing fails, no report is without one of its images once all
\* requests are answered, for any number of requests and however they overlap.
THEOREM ImagesAreComplete == Spec => []CompleteAtRest
<1>1. QuietInv => CompleteAtRest
  BY DEF QuietInv, CompleteAtRest, StoredOrCleared, Clearing
<1>2. QED
  BY <1>1, QuietInvariant, PTL
=============================================================================
