------------------------ MODULE PluginWrapperProofs ------------------------
(***************************************************************************)
(* Proofs about PluginWrapper: as long as no BEGIN or COMMIT of SQLite     *)
(* failed, the metadata and the plugin agree between operations, and what  *)
(* clients were told stays true, for any collections and secrets and any   *)
(* number of stops.                                                        *)
(*                                                                         *)
(* Neither is inductive: while an operation runs, the plugin agrees with   *)
(* what the connection will commit or with what is on disk, depending on   *)
(* how far it is, and initialize() only repairs the metadata because no    *)
(* secret is stored, or has a row, without its collection.                 *)
(***************************************************************************)
EXTENDS PluginWrapper, TLAPS

-----------------------------------------------------------------------------
(* The inductive invariant *)

\* A connection between operations, and one in a transaction
Idle(d) == /\ d \in Connection(Metadata) /\ d.sem = 0 /\ d.tx = FALSE
           /\ d.view = d.disk
Busy(d) == d \in Connection(Metadata) /\ d.sem = 1 /\ d.tx = TRUE

Operation == [kind : Kinds, item : Items, at : {"plugin", "commit"}]
Makes(kind) == kind \in {"createCollection", "setSecret"}

\* Stored secrets, and rows of secrets, have a collection.
StoreClosed(st) == \A i \in SecretItems : i \in st => <<i[1]>> \in st
RowsClosed(m) == \A i \in SecretItems : m[i] # "none" => m[<<i[1]>>] # "none"

\* The items whose rows m has to agree with the plugin's content st
Covered(enc, i, init, ul) == i \in CollectionItems \/ init \/ (enc => i[1] \in ul)
Agree(enc, st, m, init, ul) ==
    \A i \in CollectionItems \cup SecretItems :
        Covered(enc, i, init, ul) => (i \in st <=> m[i] # "none")

\* What clients were told about the items of S is true of st and m.
ToldFits(st, m, t, S) ==
    \A i \in S : /\ t[i] = "created" => i \in st /\ m[i] = "client"
                 /\ t[i] = "removed" => i \notin st /\ m[i] = "none"

Typed ==
    /\ encrypted \in BOOLEAN /\ isOpen \in BOOLEAN /\ m_initialized \in BOOLEAN
    /\ store \subseteq Items
    /\ job = NoJob \/ job \in Operation
    /\ told \in [Items -> {"nothing", "created", "removed"}]

\* Between operations
AtRest ==
    /\ Idle(db)
    /\ isOpen \/ m_initialized => Agree(encrypted, store, db.disk, m_initialized, unlocked)
    /\ ToldFits(store, db.disk, told, Items)

\* In an operation
UnderWay ==
    /\ isOpen /\ Busy(db)
    /\ job.kind \in {"createCollection", "removeCollection"} <=> job.item \in CollectionItems
    /\ db.view = Changed(job.kind, job.item, db.disk) /\ RowsClosed(db.view)
    /\ job.kind = "createCollection" => db.disk[job.item] = "none"
    /\ job.at = "plugin" =>
         /\ Agree(encrypted, store, db.disk, m_initialized, unlocked)
         /\ ToldFits(store, db.disk, told, Items)
    /\ job.at = "commit" =>
         /\ Agree(encrypted, store, db.view, m_initialized, unlocked)
         /\ ToldFits(store, db.disk, told, Items \ Concerned(job))
         /\ \A i \in Concerned(job) : i \in store <=> Makes(job.kind)

Consistent ==
    /\ Typed
    /\ StoreClosed(store) /\ RowsClosed(db.disk)
    /\ IF Quiet THEN AtRest ELSE UnderWay

WrapperInv == txFailures \in Nat /\ (txFailures = 0 => Consistent)

-----------------------------------------------------------------------------
(* Items *)

\* Which items there are, and which of them belong to a collection.
LEMMA ItemFacts ==
    /\ CollectionItems \subseteq Items /\ SecretItems \subseteq Items
    /\ StandaloneItems \subseteq Items
    /\ \A c \in Collections : <<c>> \in CollectionItems
    /\ \A i \in CollectionItems :
         i[1] \in Collections /\ i = <<i[1]>> /\ i \notin SecretItems /\ i \notin StandaloneItems
    /\ \A i \in SecretItems :
         i[1] \in Collections /\ <<i[1]>> \in CollectionItems /\ i \notin StandaloneItems
    /\ \A i \in StandaloneItems : i[1] = Standalone
    /\ \A i \in Items : i \in CollectionItems \/ i \in SecretItems \/ i \in StandaloneItems
<1>1. \A c \in Collections : <<c>> \in CollectionItems
  BY DEF CollectionItems
<1>2. \A i \in SecretItems : i = <<i[1], i[2]>> /\ i[1] \in Collections /\ DOMAIN i = 1 .. 2
  BY DEF SecretItems
<1>3. \A i \in StandaloneItems : i = <<i[1], i[2]>> /\ i[1] = Standalone /\ DOMAIN i = 1 .. 2
  BY DEF StandaloneItems
<1>4. \A i \in CollectionItems : i[1] \in Collections /\ i = <<i[1]>> /\ DOMAIN i = 1 .. 1
  BY DEF CollectionItems
<1> QED BY <1>1, <1>2, <1>3, <1>4, NamesAssumption DEF Items

\* The items of a collection are those whose first part is its name.
LEMMA ItemsOfFacts ==
    ASSUME NEW c \in Collections
    PROVE  /\ ItemsOf(c) \subseteq Items /\ <<c>> \in ItemsOf(c)
           /\ \A i \in Items : i \in ItemsOf(c) <=> i[1] = c
<1>1. \A i \in CollectionItems : i \in ItemsOf(c) <=> i[1] = c
  BY ItemFacts DEF ItemsOf
<1>2. \A i \in SecretItems : i \in ItemsOf(c) <=> i[1] = c
  BY DEF ItemsOf, SecretItems
<1>3. \A i \in StandaloneItems : i \notin ItemsOf(c) /\ i[1] # c
  BY NamesAssumption DEF ItemsOf, StandaloneItems
<1>4. ItemsOf(c) \subseteq Items
  BY DEF ItemsOf, Items, CollectionItems, SecretItems
<1> QED BY <1>1, <1>2, <1>3, <1>4, ItemFacts DEF ItemsOf

-----------------------------------------------------------------------------
(* The connection *)

\* The connection is closed.
LEMMA ClosedFields ==
    ASSUME NEW d \in Connection(Metadata)
    PROVE  /\ Closed(d) \in Connection(Metadata) /\ Closed(d).tx = FALSE
           /\ Closed(d).sem = d.sem /\ Closed(d).view = d.disk /\ Closed(d).disk = d.disk
BY DEF Connection, Closed

\* BEGIN on an idle connection
LEMMA BeginIdle ==
    ASSUME NEW d, Idle(d), NEW b \in BeginTransaction(d)
    PROVE  \/ b.failed = TRUE /\ b.ok = FALSE
           \/ /\ b.failed = FALSE /\ b.ok = TRUE
              /\ Busy(b.db) /\ b.db.view = d.view /\ b.db.disk = d.disk
<1>1. PICK c : c = [d EXCEPT !.sem = 1]
  OBVIOUS
<1>2. /\ c \in Connection(Metadata) /\ c.sem = 1
      /\ c.view = d.view /\ c.disk = d.disk
  BY <1>1 DEF Idle, Connection
<1>3. PICK o : o = [c EXCEPT !.tx = TRUE]
  OBVIOUS
<1>4. /\ o \in Connection(Metadata) /\ o.sem = 1 /\ o.tx = TRUE
      /\ o.view = d.view /\ o.disk = d.disk
  BY <1>2, <1>3 DEF Busy, Connection
<1>5. [d EXCEPT !.sem = @ + 1] = c
  BY <1>1 DEF Idle
<1>6. BeginTransaction(d) = {Outcome(o, TRUE, FALSE), Outcome(c, FALSE, TRUE)}
  BY <1>3, <1>5 DEF BeginTransaction, Idle
<1>7. CASE b = Outcome(o, TRUE, FALSE)
  BY <1>4, <1>7 DEF Outcome, Busy
<1>8. CASE b = Outcome(c, FALSE, TRUE)
  BY <1>8 DEF Outcome
<1> QED BY <1>6, <1>7, <1>8

\* COMMIT of a transaction
LEMMA CommitBusy ==
    ASSUME NEW d, Busy(d), NEW e \in CommitTransaction(d), ~e.failed
    PROVE  Idle(e.db) /\ e.db.disk = d.view
<1>1. PICK c : c = [d EXCEPT !.sem = 0]
  OBVIOUS
<1>2. /\ c \in Connection(Metadata) /\ c.sem = 0
      /\ c.view = d.view /\ c.disk = d.disk
  BY <1>1 DEF Busy, Connection
<1>3. PICK o : o = [c EXCEPT !.tx = FALSE, !.disk = d.view]
  OBVIOUS
<1>4. /\ o \in Connection(Metadata) /\ o.sem = 0 /\ o.tx = FALSE
      /\ o.view = d.view /\ o.disk = d.view
  BY <1>2, <1>3 DEF Busy, Connection
<1>5. [d EXCEPT !.sem = @ - 1] = c
  BY <1>1 DEF Busy
<1>6. CommitTransaction(d) =
        {Outcome(o, TRUE, FALSE), Outcome(c, FALSE, TRUE), Outcome(Closed(c), FALSE, TRUE)}
  BY <1>3, <1>5 DEF CommitTransaction, Busy
<1>7. e = Outcome(o, TRUE, FALSE)
  BY <1>6 DEF Outcome
<1> QED BY <1>4, <1>7 DEF Outcome, Idle

\* ROLLBACK of a transaction
LEMMA RollBackBusy ==
    ASSUME NEW d, Busy(d)
    PROVE  Idle(RolledBack(d)) /\ RolledBack(d).disk = d.disk
<1>1. PICK c : c = [d EXCEPT !.sem = 0]
  OBVIOUS
<1>2. /\ c \in Connection(Metadata) /\ c.sem = 0
      /\ c.view = d.view /\ c.disk = d.disk
  BY <1>1 DEF Busy, Connection
<1>3. [d EXCEPT !.sem = @ - 1] = c
  BY <1>1 DEF Busy
<1>4. RolledBack(d) = Closed(c)
  BY <1>3 DEF RolledBack, Busy
<1> QED BY <1>2, <1>4, ClosedFields DEF Idle

\* A statement in a transaction
LEMMA WriteBusy ==
    ASSUME NEW d, Busy(d), NEW m \in Metadata
    PROVE  /\ Busy(Written(d, m))
           /\ Written(d, m).view = m /\ Written(d, m).disk = d.disk
BY DEF Busy, Written, Connection

\* The connection is closed or opened again.
LEMMA OpenIdle ==
    /\ \A m \in Metadata : Idle(Opened(m)) /\ Opened(m).disk = m
    /\ \A d : Idle(d) => Idle(Closed(d)) /\ Closed(d).disk = d.disk
<1>1. ASSUME NEW m \in Metadata PROVE Idle(Opened(m)) /\ Opened(m).disk = m
  BY DEF Idle, Opened, Connection
<1>2. ASSUME NEW d, Idle(d) PROVE Idle(Closed(d)) /\ Closed(d).disk = d.disk
  BY <1>2, ClosedFields DEF Idle
<1> QED BY <1>1, <1>2

-----------------------------------------------------------------------------
(* initialize() *)

\* What comes out of comparing the rows m with the plugin: nothing stored is
\* left out, nothing else is kept, and no row a client gave is overwritten.
LEMMA ResyncedFacts ==
    ASSUME NEW m \in Metadata, NEW ul, StoreClosed(store), RowsClosed(m)
    PROVE  /\ Resynced(m, ul) \in Metadata
           /\ RowsClosed(Resynced(m, ul))
           /\ Agree(encrypted, store, Resynced(m, ul), FALSE, ul)
           /\ InitializedWhen(ul) => Agree(encrypted, store, Resynced(m, ul), TRUE, ul)
           /\ \A t : ToldFits(store, m, t, Items) => ToldFits(store, Resynced(m, ul), t, Items)
<1> DEFINE R == Resynced(m, ul)
<1>1. R \in Metadata
  BY DEF Resynced, Metadata, Origin
<1>2. \A i \in CollectionItems :
        R[i] = IF i \notin store THEN "none"
               ELSE IF m[i] = "none" THEN "imported" ELSE m[i]
  BY ItemFacts DEF Resynced
<1>3. \A i \in SecretItems :
        R[i] = IF <<i[1]>> \notin store THEN "none"
               ELSE IF ~Known(i[1], ul) THEN m[i]
               ELSE IF i \notin store THEN "none"
               ELSE IF m[i] = "none" THEN "imported" ELSE m[i]
  BY ItemFacts DEF Resynced
<1>4. \A i \in StandaloneItems : R[i] = m[i]
  BY ItemFacts DEF Resynced
<1> HIDE DEF R
<1>5. \A i \in CollectionItems : i \in store <=> R[i] # "none"
  BY <1>2
<1>6. \A i \in SecretItems : R[i] # "none" => <<i[1]>> \in store
  BY <1>3
<1>7. RowsClosed(R)
  BY <1>5, <1>6, ItemFacts DEF RowsClosed
<1>8. \A i \in SecretItems : Known(i[1], ul) => (i \in store <=> R[i] # "none")
  BY <1>3 DEF StoreClosed
<1>9. Agree(encrypted, store, R, FALSE, ul)
  BY <1>5, <1>8 DEF Agree, Covered, Known, Usable
<1>10. ASSUME InitializedWhen(ul) PROVE Agree(encrypted, store, R, TRUE, ul)
  <2>1. ASSUME NEW i \in SecretItems PROVE i \in store <=> R[i] # "none"
    <3>1. CASE <<i[1]>> \in store
      BY <1>8, <1>10, <3>1, ItemFacts DEF InitializedWhen, Known, Usable
    <3>2. CASE <<i[1]>> \notin store
      BY <1>6, <3>2 DEF StoreClosed
    <3> QED BY <3>1, <3>2
  <2> QED BY <1>5, <2>1 DEF Agree
<1>11. ASSUME NEW t, ToldFits(store, m, t, Items) PROVE ToldFits(store, R, t, Items)
  <2> SUFFICES ASSUME NEW i \in Items
               PROVE  /\ t[i] = "created" => i \in store /\ R[i] = "client"
                      /\ t[i] = "removed" => i \notin store /\ R[i] = "none"
    BY DEF ToldFits
  <2>1. /\ t[i] = "created" => i \in store /\ m[i] = "client"
        /\ t[i] = "removed" => i \notin store /\ m[i] = "none"
    BY <1>11 DEF ToldFits
  <2>2. CASE i \in CollectionItems
    BY <1>2, <2>1, <2>2
  <2>3. CASE i \in SecretItems
    BY <1>3, <2>1, <2>3 DEF StoreClosed
  <2>4. CASE i \in StandaloneItems
    BY <1>4, <2>1, <2>4
  <2> QED BY <2>2, <2>3, <2>4, ItemFacts
<1> QED BY <1>1, <1>7, <1>9, <1>10, <1>11 DEF R

\* initialize() on the idle connection: it does nothing, or commits the rows
\* which agree with the plugin.
LEMMA InitializeStep ==
    ASSUME Idle(db), StoreClosed(store), RowsClosed(db.disk),
           txFailures = 0, txFailures' = 0, Initialize(db)
    PROVE  /\ Idle(db')
           /\ \/ m_initialized /\ m_initialized' = m_initialized /\ db'.disk = db.disk
              \/ /\ m_initialized' = InitializedWhen(unlocked')
                 /\ db'.disk = Resynced(db.disk, unlocked')
<1>1. CASE m_initialized
  BY <1>1 DEF Initialize
<1>2. CASE ~m_initialized
  <2>1. PICK b \in BeginTransaction(db) :
             \/ /\ ~b.ok
                /\ txFailures' = Failed(b)
             \/ /\ b.ok
                /\ \E e \in Bounded(CommitTransaction(Written(b.db, Resynced(b.db.view, unlocked')))) :
                      /\ db' = e.db
                      /\ txFailures' = Failed(e)
                /\ m_initialized' = InitializedWhen(unlocked')
    BY <1>2 DEF Initialize, Bounded
  <2>2. \/ b.failed = TRUE /\ b.ok = FALSE
        \/ /\ b.failed = FALSE /\ b.ok = TRUE
           /\ Busy(b.db) /\ b.db.view = db.view /\ b.db.disk = db.disk
    BY BeginIdle
  <2>3. b.failed = FALSE
    BY <2>1, <2>2 DEF Failed
  <2>4. b.ok = TRUE /\ Busy(b.db) /\ b.db.view = db.disk /\ b.db.disk = db.disk
    BY <2>2, <2>3 DEF Idle
  <2>5. db.disk \in Metadata
    BY DEF Idle, Connection
  <2>6. PICK m \in Metadata : m = Resynced(db.disk, unlocked')
    BY <2>5, ResyncedFacts
  <2>7. PICK w : w = Written(b.db, m)
    OBVIOUS
  <2>8. Busy(w) /\ w.view = m
    BY <2>4, <2>7, WriteBusy
  <2>9. PICK e \in CommitTransaction(w) : db' = e.db /\ txFailures' = Failed(e)
    BY <2>1, <2>4, <2>6, <2>7 DEF Bounded
  <2>10. ~e.failed
    BY <2>9 DEF Failed
  <2> QED BY <2>1, <2>4, <2>6, <2>8, <2>9, <2>10, CommitBusy
<1> QED BY <1>1, <1>2

\* The rows agree with the plugin after initialize().
LEMMA InitializeRest ==
    ASSUME Idle(db), StoreClosed(store), RowsClosed(db.disk),
           m_initialized => Agree(encrypted, store, db.disk, TRUE, unlocked),
           ToldFits(store, db.disk, told, Items), m_initialized \in BOOLEAN,
           txFailures = 0, txFailures' = 0, Initialize(db)
    PROVE  /\ Idle(db') /\ RowsClosed(db'.disk) /\ m_initialized' \in BOOLEAN
           /\ Agree(encrypted, store, db'.disk, m_initialized', unlocked')
           /\ ToldFits(store, db'.disk, told, Items)
<1>1. CASE m_initialized /\ m_initialized' = m_initialized /\ db'.disk = db.disk
  <2>1. Agree(encrypted, store, db'.disk, m_initialized', unlocked')
    BY <1>1 DEF Agree, Covered
  <2> QED BY <1>1, <2>1, InitializeStep
<1>2. CASE /\ m_initialized' = InitializedWhen(unlocked')
           /\ db'.disk = Resynced(db.disk, unlocked')
  <2>1. db.disk \in Metadata
    BY DEF Idle, Connection
  <2>2. PICK R : R = Resynced(db.disk, unlocked')
    OBVIOUS
  <2>3. /\ RowsClosed(R) /\ ToldFits(store, R, told, Items)
        /\ Agree(encrypted, store, R, FALSE, unlocked')
        /\ InitializedWhen(unlocked') => Agree(encrypted, store, R, TRUE, unlocked')
    BY <2>1, <2>2, ResyncedFacts
  <2>4. m_initialized' \in BOOLEAN
    BY <1>2 DEF InitializedWhen
  <2>5. Agree(encrypted, store, R, m_initialized', unlocked')
    BY <1>2, <2>3, <2>4
  <2> QED BY <1>2, <2>2, <2>3, <2>4, <2>5, InitializeStep
<1> QED BY <1>1, <1>2, InitializeStep

-----------------------------------------------------------------------------
(* The operations *)

\* What each operation does to the rows m.
LEMMA ChangedFacts ==
    ASSUME NEW m \in Metadata, NEW kind \in Kinds, NEW i \in Items,
           kind \in {"createCollection", "removeCollection"} <=> i \in CollectionItems
    PROVE  /\ Changed(kind, i, m) \in Metadata
           /\ Makes(kind) =>
                \A j \in Items : Changed(kind, i, m)[j] = IF j = i THEN "client" ELSE m[j]
           /\ kind = "removeCollection" =>
                \A j \in Items : Changed(kind, i, m)[j] = IF j[1] = i[1] THEN "none" ELSE m[j]
           /\ kind = "removeSecret" =>
                \A j \in Items : Changed(kind, i, m)[j] = IF j = i THEN "none" ELSE m[j]
<1>1. CASE Makes(kind)
  BY <1>1 DEF Changed, Makes, Metadata, Origin
<1>2. CASE kind = "removeCollection"
  <2>1. i \in CollectionItems /\ i[1] \in Collections
    BY <1>2, ItemFacts
  <2>2. \A j \in Items : j \in ItemsOf(i[1]) <=> j[1] = i[1]
    BY <2>1, ItemsOfFacts
  <2> QED BY <1>2, <2>2 DEF Changed, Makes, Metadata, Origin
<1>3. CASE kind = "removeSecret"
  BY <1>3 DEF Changed, Makes, Metadata, Origin
<1> QED BY <1>1, <1>2, <1>3 DEF Kinds, Makes

\* What the operation is about.
LEMMA ConcernedFacts ==
    ASSUME NEW j \in Operation,
           j.kind \in {"createCollection", "removeCollection"} <=> j.item \in CollectionItems
    PROVE  /\ Concerned(j) \subseteq Items /\ j.item \in Concerned(j)
           /\ j.kind # "removeCollection" => Concerned(j) = {j.item}
           /\ j.kind = "removeCollection" =>
                \A i \in Items : i \in Concerned(j) <=> i[1] = j.item[1]
<1>1. j.item \in Items
  BY DEF Operation
<1>2. CASE j.kind = "removeCollection"
  <2>1. j.item \in CollectionItems /\ j.item[1] \in Collections /\ j.item = <<j.item[1]>>
    BY <1>2, ItemFacts
  <2> QED BY <1>2, <2>1, ItemsOfFacts DEF Concerned
<1>3. CASE j.kind # "removeCollection"
  BY <1>1, <1>3 DEF Concerned
<1> QED BY <1>2, <1>3

\* No row of a secret without its collection comes about.
LEMMA ChangedRows ==
    ASSUME NEW m \in Metadata, NEW kind \in Kinds, NEW i \in Items,
           kind \in {"createCollection", "removeCollection"} <=> i \in CollectionItems,
           RowsClosed(m), ~Violates(kind, i, m)
    PROVE  RowsClosed(Changed(kind, i, m))
<1> DEFINE C == Changed(kind, i, m)
<1> SUFFICES ASSUME NEW j \in SecretItems, C[j] # "none" PROVE C[<<j[1]>>] # "none"
  BY DEF RowsClosed
<1>1. <<j[1]>> \in CollectionItems /\ <<j[1]>> \in Items /\ j \in Items /\ <<j[1]>>[1] = j[1]
  BY ItemFacts
<1>2. m[j] # "none" => m[<<j[1]>>] # "none"
  BY DEF RowsClosed
<1> HIDE DEF C
<1>3. CASE Makes(kind)
  <2>1. \A k \in Items : C[k] = IF k = i THEN "client" ELSE m[k]
    BY <1>3, ChangedFacts DEF C
  <2>2. j = i => m[<<j[1]>>] # "none"
    BY <1>3, ItemFacts DEF Violates, Makes
  <2> QED BY <1>1, <1>2, <2>1, <2>2
<1>4. CASE kind = "removeCollection"
  <2>1. \A k \in Items : C[k] = IF k[1] = i[1] THEN "none" ELSE m[k]
    BY <1>4, ChangedFacts DEF C
  <2> QED BY <1>1, <1>2, <2>1
<1>5. CASE kind = "removeSecret"
  <2>1. \A k \in Items : C[k] = IF k = i THEN "none" ELSE m[k]
    BY <1>5, ChangedFacts DEF C
  <2> QED BY <1>1, <1>2, <1>5, <2>1
<1> QED BY <1>3, <1>4, <1>5 DEF Kinds, Makes

\* The transaction is begun and the rows are changed, or nothing happens.
LEMMA StartInv ==
    ASSUME Consistent, txFailures = 0, txFailures' = 0,
           NEW kind \in Kinds, NEW i \in Items, Start(kind, i)
    PROVE  Consistent'
<1>1. /\ Typed /\ StoreClosed(store) /\ RowsClosed(db.disk) /\ AtRest
      /\ job = NoJob /\ isOpen = TRUE
  BY DEF Consistent, Start, Quiet, Typed
<1>2. /\ encrypted' = encrypted /\ store' = store /\ isOpen' = isOpen
      /\ unlocked' = unlocked /\ m_initialized' = m_initialized /\ told' = told
  BY DEF Start
<1>3. Idle(db) /\ db.view = db.disk /\ db.disk \in Metadata
  BY <1>1 DEF AtRest, Idle, Connection
<1>4. PICK b \in BeginTransaction(db) :
          /\ txFailures' = Failed(b)
          /\ \/ /\ ~b.ok
                /\ db' = b.db
                /\ UNCHANGED job
             \/ /\ b.ok /\ Violates(kind, i, b.db.view)
                /\ db' = RolledBack(b.db)
                /\ UNCHANGED job
             \/ /\ b.ok /\ ~Violates(kind, i, b.db.view)
                /\ db' = Written(b.db, Changed(kind, i, b.db.view))
                /\ job' = [kind |-> kind, item |-> i, at |-> "plugin"]
  BY DEF Start, Bounded
<1>5. \/ b.failed = TRUE /\ b.ok = FALSE
      \/ /\ b.failed = FALSE /\ b.ok = TRUE
         /\ Busy(b.db) /\ b.db.view = db.view /\ b.db.disk = db.disk
  BY <1>3, BeginIdle
<1>6. b.ok = TRUE /\ Busy(b.db) /\ b.db.view = db.disk /\ b.db.disk = db.disk
  BY <1>3, <1>4, <1>5 DEF Failed
<1>7. CASE Violates(kind, i, db.disk)
  <2>1. db' = RolledBack(b.db) /\ job' = job
    BY <1>4, <1>6, <1>7
  <2>2. Idle(db') /\ db'.disk = db.disk
    BY <1>6, <2>1, RollBackBusy
  <2>3. AtRest'
    BY <1>1, <1>2, <2>2 DEF AtRest
  <2>4. Typed'
    BY <1>1, <1>2, <2>1 DEF Typed
  <2>5. Quiet'
    BY <1>1, <2>1 DEF Quiet
  <2> QED BY <1>1, <1>2, <2>2, <2>3, <2>4, <2>5 DEF Consistent
<1>8. CASE ~Violates(kind, i, db.disk)
  <2>1. /\ db' = Written(b.db, Changed(kind, i, db.disk))
        /\ job' = [kind |-> kind, item |-> i, at |-> "plugin"]
    BY <1>4, <1>6, <1>8
  <2>2. /\ job' \in Operation /\ job'.kind = kind /\ job'.item = i /\ job'.at = "plugin"
        /\ job' # NoJob
    BY <2>1 DEF Operation, NoJob, Kinds
  <2>3. /\ kind \in {"createCollection", "removeCollection"} <=> i \in CollectionItems
        /\ kind = "createCollection" => db.disk[i] = "none"
    BY <1>3 DEF Start, Allowed
  <2>4. PICK C \in Metadata : C = Changed(kind, i, db.disk)
    BY <1>3, <2>3, ChangedFacts
  <2>5. Busy(db') /\ db'.view = C /\ db'.disk = db.disk
    BY <1>6, <2>1, <2>4, WriteBusy
  <2>6. RowsClosed(C)
    BY <1>1, <1>3, <1>8, <2>3, <2>4, ChangedRows
  <2>7. /\ Agree(encrypted, store, db.disk, m_initialized, unlocked)
        /\ ToldFits(store, db.disk, told, Items)
    BY <1>1 DEF AtRest
  <2>8. UnderWay'
    BY <1>1, <1>2, <2>2, <2>3, <2>4, <2>5, <2>6, <2>7 DEF UnderWay
  <2>9. Typed'
    BY <1>1, <1>2, <2>2 DEF Typed
  <2>10. ~Quiet'
    BY <2>2 DEF Quiet
  <2> QED BY <1>1, <1>2, <2>5, <2>8, <2>9, <2>10 DEF Consistent
<1> QED BY <1>7, <1>8

\* The plugin changes its content the way the rows were changed.
LEMMA PluginOperationInv ==
    ASSUME Consistent, PluginOperation
    PROVE  Consistent'
<1>1. /\ Typed /\ StoreClosed(store) /\ RowsClosed(db.disk) /\ UnderWay
      /\ job # NoJob /\ job \in Operation /\ job.at = "plugin" /\ ~PluginRefuses(job)
  BY DEF Consistent, PluginOperation, Quiet, Typed
<1>2. /\ encrypted' = encrypted /\ db' = db /\ isOpen' = isOpen
      /\ m_initialized' = m_initialized /\ told' = told
      /\ job' = [job EXCEPT !.at = "commit"]
  BY DEF PluginOperation
<1> DEFINE k == job.kind
           i == job.item
<1>3. k \in Kinds /\ i \in Items
  BY <1>1 DEF Operation
<1>4. /\ job' \in Operation /\ job'.kind = k /\ job'.item = i /\ job'.at = "commit"
      /\ job' # NoJob
  <2>1. job' \in Operation /\ job'.kind = k /\ job'.item = i /\ job'.at = "commit"
    BY <1>1, <1>2 DEF Operation
  <2> QED BY <1>3, <2>1 DEF NoJob, Kinds
<1>5. /\ k \in {"createCollection", "removeCollection"} <=> i \in CollectionItems
      /\ db.view = Changed(k, i, db.disk) /\ RowsClosed(db.view)
      /\ k = "createCollection" => db.disk[i] = "none"
      /\ Agree(encrypted, store, db.disk, m_initialized, unlocked)
      /\ ToldFits(store, db.disk, told, Items)
      /\ db.disk \in Metadata /\ isOpen /\ Busy(db)
  BY <1>1 DEF UnderWay, Busy, Connection
<1>6. Concerned(job') = Concerned(job)
  BY <1>4 DEF Concerned
<1>7. /\ Concerned(job) \subseteq Items /\ i \in Concerned(job)
      /\ k # "removeCollection" => Concerned(job) = {i}
      /\ k = "removeCollection" => \A j \in Items : j \in Concerned(job) <=> j[1] = i[1]
  BY <1>1, <1>5, ConcernedFacts
<1>8. store' = IF Makes(k) THEN store \cup {i} ELSE store \ Concerned(job)
  BY DEF PluginOperation, Makes
<1>9. unlocked' = IF ~encrypted THEN unlocked
                  ELSE IF k = "createCollection" THEN unlocked \cup {i[1]}
                  ELSE IF k = "removeCollection" THEN unlocked \ {i[1]}
                  ELSE unlocked
  BY DEF PluginOperation
<1>10. /\ Makes(k) => \A j \in Items : db.view[j] = IF j = i THEN "client" ELSE db.disk[j]
       /\ k = "removeCollection" =>
            \A j \in Items : db.view[j] = IF j[1] = i[1] THEN "none" ELSE db.disk[j]
       /\ k = "removeSecret" =>
            \A j \in Items : db.view[j] = IF j = i THEN "none" ELSE db.disk[j]
  BY <1>3, <1>5, ChangedFacts
<1>11. /\ k = "createCollection" => i \notin store
       /\ k = "setSecret" /\ i \in SecretItems => <<i[1]>> \in store
  BY <1>1 DEF PluginRefuses
<1>12. \A c \in Items : c \in store' /\ c # i => c \in store
  BY <1>8
<1> HIDE DEF k, i
<1>13. StoreClosed(store')
  <2> SUFFICES ASSUME NEW j \in SecretItems, j \in store' PROVE <<j[1]>> \in store'
    BY DEF StoreClosed
  <2>1. /\ <<j[1]>> \in Items /\ j \in Items /\ <<j[1]>>[1] = j[1]
        /\ <<j[1]>> \in CollectionItems
    BY ItemFacts
  <2>2. j \in store => <<j[1]>> \in store
    BY <1>1 DEF StoreClosed
  <2>3. CASE Makes(k)
    <3>1. j = i => k = "setSecret"
      BY <1>5, <2>3, ItemFacts DEF Makes
    <3> QED BY <1>8, <1>11, <2>2, <2>3, <3>1
  <2>4. CASE k = "removeCollection"
    BY <1>7, <1>8, <2>1, <2>2, <2>4 DEF Makes
  <2>5. CASE k = "removeSecret"
    BY <1>5, <1>7, <1>8, <2>1, <2>2, <2>5 DEF Makes
  <2> QED BY <1>3, <2>3, <2>4, <2>5 DEF Kinds, Makes
<1>14. Agree(encrypted, store', db.view, m_initialized, unlocked')
  <2> SUFFICES ASSUME NEW j \in CollectionItems \cup SecretItems,
                      Covered(encrypted, j, m_initialized, unlocked')
               PROVE  j \in store' <=> db.view[j] # "none"
    BY DEF Agree
  <2>1. j \in Items
    BY ItemFacts
  <2>2. Covered(encrypted, j, m_initialized, unlocked) => (j \in store <=> db.disk[j] # "none")
    BY <1>5 DEF Agree
  <2>3. CASE k = "createCollection"
    <3>1. db.view[j] = IF j = i THEN "client" ELSE db.disk[j]
      BY <1>10, <2>1, <2>3 DEF Makes
    <3>2. j \in store' <=> j \in store \/ j = i
      BY <1>8, <2>3 DEF Makes
    <3>3. i \in CollectionItems /\ i = <<i[1]>>
      BY <1>5, <2>3, ItemFacts
    <3>4. CASE j \in SecretItems /\ j[1] = i[1]
      <4>1. j \notin store
        BY <1>1, <1>11, <2>3, <3>3, <3>4 DEF StoreClosed
      <4>2. db.disk[j] = "none"
        BY <1>1, <1>5, <2>3, <3>3, <3>4 DEF RowsClosed
      <4>3. j # i
        BY <3>3, <3>4, ItemFacts
      <4> QED BY <3>1, <3>2, <4>1, <4>2, <4>3
    <3>5. CASE j \in CollectionItems \/ j[1] # i[1]
      <4>1. Covered(encrypted, j, m_initialized, unlocked)
        BY <1>9, <2>3, <3>5 DEF Covered
      <4> QED BY <2>2, <3>1, <3>2, <4>1
    <3> QED BY <3>4, <3>5
  <2>4. CASE k # "createCollection"
    <3>1. Covered(encrypted, j, m_initialized, unlocked)
      BY <1>9, <2>4 DEF Covered
    <3>2. CASE k = "setSecret"
      BY <1>8, <1>10, <2>1, <2>2, <3>1, <3>2 DEF Makes
    <3>3. CASE k = "removeCollection"
      BY <1>7, <1>8, <1>10, <2>1, <2>2, <3>1, <3>3 DEF Makes
    <3>4. CASE k = "removeSecret"
      BY <1>7, <1>8, <1>10, <2>1, <2>2, <3>1, <3>4 DEF Makes
    <3> QED BY <1>3, <2>4, <3>2, <3>3, <3>4 DEF Kinds
  <2> QED BY <2>3, <2>4
<1>15. ToldFits(store', db.disk, told, Items \ Concerned(job))
  <2> SUFFICES ASSUME NEW j \in Items \ Concerned(job)
               PROVE  /\ told[j] = "created" => j \in store' /\ db.disk[j] = "client"
                      /\ told[j] = "removed" => j \notin store' /\ db.disk[j] = "none"
    BY DEF ToldFits
  <2>1. j \in store' <=> j \in store
    BY <1>7, <1>8
  <2> QED BY <1>5, <2>1 DEF ToldFits
<1>16. \A j \in Concerned(job) : j \in store' <=> Makes(k)
  <2>1. CASE Makes(k)
    BY <1>7, <1>8, <2>1 DEF Makes
  <2>2. CASE ~Makes(k)
    BY <1>8, <2>2
  <2> QED BY <2>1, <2>2
<1>17. store' \subseteq Items
  BY <1>1, <1>3, <1>8 DEF Typed
<1>18. Typed'
  BY <1>1, <1>2, <1>4, <1>17 DEF Typed
<1>19. UnderWay'
  BY <1>2, <1>4, <1>5, <1>6, <1>14, <1>15, <1>16 DEF UnderWay
<1>20. ~Quiet'
  BY <1>4 DEF Quiet
<1> QED BY <1>1, <1>2, <1>13, <1>18, <1>19, <1>20 DEF Consistent

\* The plugin does nothing, and the rows are as they were before.
LEMMA PluginFailsInv ==
    ASSUME Consistent, PluginFails
    PROVE  Consistent'
<1>1. /\ Typed /\ StoreClosed(store) /\ RowsClosed(db.disk) /\ UnderWay /\ job.at = "plugin"
  BY DEF Consistent, PluginFails
<1>2. /\ encrypted' = encrypted /\ store' = store /\ isOpen' = isOpen
      /\ m_initialized' = m_initialized /\ told' = told /\ job' = NoJob
      /\ db' = RolledBack(db) /\ unlocked' \subseteq unlocked
  BY DEF PluginFails
<1>3. Idle(db') /\ db'.disk = db.disk
  BY <1>1, <1>2, RollBackBusy DEF UnderWay
<1>4. /\ Agree(encrypted, store, db.disk, m_initialized, unlocked')
      /\ ToldFits(store, db.disk, told, Items)
  BY <1>1, <1>2 DEF UnderWay, Agree, Covered
<1>5. AtRest'
  BY <1>2, <1>3, <1>4 DEF AtRest
<1>6. Typed' /\ Quiet'
  BY <1>1, <1>2 DEF Typed, Quiet
<1> QED BY <1>1, <1>2, <1>3, <1>5, <1>6 DEF Consistent

\* The rows are committed, and the client is told what the plugin has.
LEMMA FinishInv ==
    ASSUME Consistent, txFailures = 0, txFailures' = 0, Finish
    PROVE  Consistent'
<1>1. /\ Typed /\ StoreClosed(store) /\ RowsClosed(db.disk) /\ UnderWay
      /\ job # NoJob /\ job \in Operation /\ job.at = "commit"
  BY DEF Consistent, Finish, Quiet, Typed
<1>2. /\ encrypted' = encrypted /\ store' = store /\ isOpen' = isOpen
      /\ m_initialized' = m_initialized /\ job' = NoJob
      /\ unlocked' \subseteq unlocked
      /\ told' = [i \in Items |->
            IF i \notin Concerned(job) THEN told[i]
            ELSE IF Makes(job.kind) THEN "created" ELSE "removed"]
  BY DEF Finish, Makes
<1>3. PICK e \in CommitTransaction(db) : db' = e.db /\ txFailures' = Failed(e)
  BY DEF Finish, Bounded, Committed
<1>4. ~e.failed
  BY <1>3 DEF Failed
<1>5. Idle(db') /\ db'.disk = db.view
  BY <1>1, <1>3, <1>4, CommitBusy DEF UnderWay
<1>6. /\ job.kind \in {"createCollection", "removeCollection"} <=> job.item \in CollectionItems
      /\ db.view = Changed(job.kind, job.item, db.disk) /\ RowsClosed(db.view)
      /\ Agree(encrypted, store, db.view, m_initialized, unlocked)
      /\ ToldFits(store, db.disk, told, Items \ Concerned(job))
      /\ \A i \in Concerned(job) : i \in store <=> Makes(job.kind)
      /\ db.disk \in Metadata
  BY <1>1 DEF UnderWay, Busy, Connection
<1>7. Agree(encrypted, store, db.view, m_initialized, unlocked')
  BY <1>2, <1>6 DEF Agree, Covered
<1> DEFINE k == job.kind
           i == job.item
<1>8. k \in Kinds /\ i \in Items
  BY <1>1 DEF Operation
<1>9. /\ Concerned(job) \subseteq Items /\ i \in Concerned(job)
      /\ k # "removeCollection" => Concerned(job) = {i}
      /\ k = "removeCollection" => \A j \in Items : j \in Concerned(job) <=> j[1] = i[1]
  BY <1>1, <1>6, ConcernedFacts
<1>10. /\ Makes(k) => \A j \in Items : db.view[j] = IF j = i THEN "client" ELSE db.disk[j]
       /\ k = "removeCollection" =>
            \A j \in Items : db.view[j] = IF j[1] = i[1] THEN "none" ELSE db.disk[j]
       /\ k = "removeSecret" =>
            \A j \in Items : db.view[j] = IF j = i THEN "none" ELSE db.disk[j]
  BY <1>6, <1>8, ChangedFacts
<1> HIDE DEF k, i
<1>11. \A j \in Items :
         db.view[j] = IF j \notin Concerned(job) THEN db.disk[j]
                      ELSE IF Makes(k) THEN "client" ELSE "none"
  <2>1. CASE Makes(k)
    BY <1>9, <1>10, <2>1 DEF Makes
  <2>2. CASE k = "removeCollection"
    BY <1>9, <1>10, <2>2 DEF Makes
  <2>3. CASE k = "removeSecret"
    BY <1>9, <1>10, <2>3 DEF Makes
  <2> QED BY <1>8, <2>1, <2>2, <2>3 DEF Kinds, Makes
<1>12. ToldFits(store, db.view, told', Items)
  <2> SUFFICES ASSUME NEW j \in Items
               PROVE  /\ told'[j] = "created" => j \in store /\ db.view[j] = "client"
                      /\ told'[j] = "removed" => j \notin store /\ db.view[j] = "none"
    BY DEF ToldFits
  <2>1. CASE j \in Concerned(job)
    BY <1>2, <1>6, <1>11, <2>1 DEF k
  <2>2. CASE j \notin Concerned(job)
    <3>1. told'[j] = told[j] /\ db.view[j] = db.disk[j]
      BY <1>2, <1>11, <2>2
    <3>2. /\ told[j] = "created" => j \in store /\ db.disk[j] = "client"
          /\ told[j] = "removed" => j \notin store /\ db.disk[j] = "none"
      BY <1>6, <2>2 DEF ToldFits
    <3> QED BY <3>1, <3>2
  <2> QED BY <2>1, <2>2
<1>13. AtRest'
  BY <1>2, <1>5, <1>7, <1>12 DEF AtRest
<1>14. told' \in [Items -> {"nothing", "created", "removed"}]
  BY <1>1, <1>2 DEF Typed
<1>15. Typed' /\ Quiet'
  BY <1>1, <1>2, <1>14 DEF Typed, Quiet
<1> QED BY <1>1, <1>2, <1>5, <1>6, <1>13, <1>15 DEF Consistent

-----------------------------------------------------------------------------
(* Unlocking, locking, stopping *)

\* masterUnlock and setEncryptionKey, which call initialize().
LEMMA UnlockInv ==
    ASSUME Consistent, txFailures = 0, txFailures' = 0,
           MasterUnlock \/ \E c \in Collections, opens \in BOOLEAN : SetEncryptionKey(c, opens)
    PROVE  Consistent'
<1>1. /\ Quiet /\ Initialize(db) /\ isOpen' = TRUE
      /\ encrypted' = encrypted /\ store' = store /\ job' = job /\ told' = told
  BY DEF MasterUnlock, SetEncryptionKey, Consistent, Typed
<1>2. Typed /\ StoreClosed(store) /\ RowsClosed(db.disk) /\ AtRest
  BY <1>1 DEF Consistent
<1>3. m_initialized => Agree(encrypted, store, db.disk, TRUE, unlocked)
  BY <1>2 DEF AtRest, Typed
<1>4. /\ Idle(db') /\ RowsClosed(db'.disk) /\ m_initialized' \in BOOLEAN
      /\ Agree(encrypted, store, db'.disk, m_initialized', unlocked')
      /\ ToldFits(store, db'.disk, told, Items)
  BY <1>1, <1>2, <1>3, InitializeRest DEF AtRest, Typed
<1>5. AtRest'
  BY <1>1, <1>4 DEF AtRest
<1>6. Typed' /\ Quiet'
  BY <1>1, <1>2, <1>4 DEF Typed, Quiet
<1> QED BY <1>1, <1>2, <1>4, <1>5, <1>6 DEF Consistent

\* masterLock: what was in line stays so while the database is closed.
LEMMA MasterLockInv ==
    ASSUME Consistent, MasterLock
    PROVE  Consistent'
<1>1. /\ Quiet /\ isOpen /\ isOpen' = FALSE /\ db' = Closed(db)
      /\ encrypted' = encrypted /\ store' = store /\ unlocked' = unlocked
      /\ m_initialized' = m_initialized /\ job' = job /\ told' = told
  BY DEF MasterLock
<1>2. Typed /\ StoreClosed(store) /\ RowsClosed(db.disk) /\ AtRest
  BY <1>1 DEF Consistent
<1>3. Idle(db') /\ db'.disk = db.disk
  BY <1>1, <1>2, OpenIdle DEF AtRest
<1>4. AtRest'
  BY <1>1, <1>2, <1>3 DEF AtRest
<1>5. Typed' /\ Quiet'
  BY <1>1, <1>2 DEF Typed, Quiet
<1> QED BY <1>1, <1>2, <1>3, <1>4, <1>5 DEF Consistent

\* The daemon is stopped between any two steps.
LEMMA CrashInv ==
    ASSUME Consistent, Crash
    PROVE  Consistent'
<1>1. /\ db' = Opened(db.disk) /\ isOpen' = FALSE /\ m_initialized' = FALSE
      /\ job' = NoJob /\ encrypted' = encrypted /\ store' = store
      /\ told' = IF Quiet THEN told
                 ELSE [i \in Items |-> IF i \in Concerned(job) THEN "nothing" ELSE told[i]]
  BY DEF Crash
<1>2. Typed /\ StoreClosed(store) /\ RowsClosed(db.disk) /\ (IF Quiet THEN AtRest ELSE UnderWay)
  BY DEF Consistent
<1>3. db.disk \in Metadata
  BY <1>2 DEF AtRest, UnderWay, Idle, Busy, Connection
<1>4. Idle(db') /\ db'.disk = db.disk
  BY <1>1, <1>3, OpenIdle
<1>5. ToldFits(store, db.disk, told', Items)
  <2>1. CASE Quiet
    BY <1>1, <1>2, <2>1 DEF AtRest
  <2>2. CASE ~Quiet
    <3> SUFFICES ASSUME NEW j \in Items
                 PROVE  /\ told'[j] = "created" => j \in store /\ db.disk[j] = "client"
                        /\ told'[j] = "removed" => j \notin store /\ db.disk[j] = "none"
      BY DEF ToldFits
    <3>1. ToldFits(store, db.disk, told, Items \ Concerned(job))
      <4>1. job \in Operation /\ UnderWay
        BY <1>2, <2>2 DEF Typed, Quiet
      <4>2. CASE job.at = "plugin"
        BY <4>1, <4>2 DEF UnderWay, ToldFits
      <4>3. CASE job.at = "commit"
        BY <4>1, <4>3 DEF UnderWay
      <4> QED BY <4>1, <4>2, <4>3 DEF Operation
    <3>2. told'[j] = IF j \in Concerned(job) THEN "nothing" ELSE told[j]
      BY <1>1, <2>2
    <3> QED BY <3>1, <3>2 DEF ToldFits
  <2> QED BY <2>1, <2>2
<1>6. told' \in [Items -> {"nothing", "created", "removed"}]
  BY <1>1, <1>2 DEF Typed
<1>7. AtRest'
  BY <1>1, <1>4, <1>5 DEF AtRest
<1>8. Typed' /\ Quiet'
  BY <1>1, <1>2, <1>6 DEF Typed, Quiet
<1> QED BY <1>1, <1>2, <1>4, <1>7, <1>8 DEF Consistent

-----------------------------------------------------------------------------
(* The theorems *)

\* The invariant holds at the daemon's first start.
LEMMA WrapperInvInit == Init => WrapperInv
<1> SUFFICES ASSUME Init PROVE WrapperInv
  OBVIOUS
<1>1. PICK m : m = [i \in Items |-> "none"]
  OBVIOUS
<1>2. m \in Metadata /\ \A i \in Items : m[i] = "none"
  BY <1>1 DEF Metadata, Origin
<1>3. Idle(db) /\ db.disk = m
  BY <1>1, <1>2, OpenIdle DEF Init
<1>4. RowsClosed(m) /\ StoreClosed(store)
  BY <1>2, ItemFacts DEF Init, RowsClosed, StoreClosed
<1>5. ToldFits(store, m, told, Items)
  BY DEF Init, ToldFits
<1>6. AtRest
  BY <1>3, <1>5 DEF Init, AtRest
<1>7. Typed /\ Quiet
  BY DEF Init, Typed, Quiet
<1> QED BY <1>3, <1>4, <1>6, <1>7 DEF Init, WrapperInv, Consistent

\* The number of failed BEGINs and COMMITs never shrinks.
LEMMA FailuresGrow ==
    ASSUME txFailures \in Nat, [Next]_vars
    PROVE  txFailures' \in Nat /\ (txFailures' = 0 => txFailures = 0)
<1>1. ASSUME NEW o PROVE Failed(o) \in Nat /\ (Failed(o) = 0 => txFailures = 0)
  BY DEF Failed
<1>2. CASE UNCHANGED txFailures
  BY <1>2
<1>3. CASE \E o : txFailures' = Failed(o)
  BY <1>1, <1>3
<1>4. Initialize(db) => UNCHANGED txFailures \/ \E o : txFailures' = Failed(o)
  BY DEF Initialize
<1>5. UNCHANGED txFailures \/ \E o : txFailures' = Failed(o)
  BY <1>4 DEF Next, vars, MasterUnlock, MasterLock, SetEncryptionKey, Start,
              PluginOperation, PluginFails, Finish, Crash
<1> QED BY <1>2, <1>3, <1>5

\* Every step keeps the invariant.
LEMMA WrapperInvNext == WrapperInv /\ [Next]_vars => WrapperInv'
<1> SUFFICES ASSUME WrapperInv, [Next]_vars PROVE WrapperInv'
  OBVIOUS
<1>1. txFailures' \in Nat /\ (txFailures' = 0 => txFailures = 0)
  BY FailuresGrow DEF WrapperInv
<1> SUFFICES ASSUME txFailures' = 0 PROVE Consistent'
  BY <1>1 DEF WrapperInv
<1>2. txFailures = 0 /\ Consistent
  BY <1>1 DEF WrapperInv
<1>3. CASE UNCHANGED vars
  <2>1. /\ encrypted' = encrypted /\ store' = store /\ db' = db /\ isOpen' = isOpen
        /\ unlocked' = unlocked /\ m_initialized' = m_initialized /\ job' = job
        /\ told' = told
    BY <1>3 DEF vars
  <2>2. /\ Typed' <=> Typed
        /\ AtRest' <=> AtRest
        /\ UnderWay' <=> UnderWay
        /\ Quiet' <=> Quiet
    BY <2>1 DEF Typed, AtRest, UnderWay, Quiet, Concerned
  <2> QED BY <1>2, <2>1, <2>2 DEF Consistent
<1>4. CASE MasterUnlock \/ \E c \in Collections, opens \in BOOLEAN : SetEncryptionKey(c, opens)
  BY <1>2, <1>4, UnlockInv
<1>5. CASE MasterLock
  BY <1>2, <1>5, MasterLockInv
<1>6. ASSUME NEW kind \in Kinds, NEW i \in Items, Start(kind, i) PROVE Consistent'
  BY <1>2, <1>6, StartInv
<1>7. CASE PluginOperation
  BY <1>2, <1>7, PluginOperationInv
<1>8. CASE PluginFails
  BY <1>2, <1>8, PluginFailsInv
<1>9. CASE Finish
  BY <1>2, <1>9, FinishInv
<1>10. CASE Crash
  BY <1>2, <1>10, CrashInv
<1> QED BY <1>3, <1>4, <1>5, <1>6, <1>7, <1>8, <1>9, <1>10 DEF Next

\* The invariant holds in every state of every behaviour.
THEOREM WrapperInvAlways == Spec => []WrapperInv
BY WrapperInvInit, WrapperInvNext, PTL DEF Spec

\* As long as SQLite begins and commits its transactions, the metadata database
\* and the plugin have the same collections between operations, and the same
\* secrets of the collections that can be used, wherever the daemon was stopped
\* and whatever the plugin refused (pluginwrapper.cpp: initialize).
THEOREM AlwaysInSync == Spec => [](txFailures = 0 => InSync)
<1>1. WrapperInv => (txFailures = 0 => InSync)
  <2> SUFFICES ASSUME Consistent, Quiet, isOpen,
                      NEW i \in CollectionItems \cup SecretItems,
                      i \in CollectionItems \/ m_initialized \/ Usable(i[1], unlocked)
               PROVE  i \in store <=> db.disk[i] # "none"
    BY DEF WrapperInv, InSync
  <2>1. Agree(encrypted, store, db.disk, m_initialized, unlocked)
    BY DEF Consistent, AtRest
  <2> QED BY <2>1 DEF Agree, Covered, Usable
<1> QED BY <1>1, WrapperInvAlways, PTL

\* As long as SQLite begins and commits its transactions, what clients were told
\* about collections and secrets, standalone ones too, stays true across stops
\* (pluginwrapper.cpp: the commit comes after the plugin's operation).
THEOREM ToldStaysTrue == Spec => [](txFailures = 0 => ToldIsTrue)
<1>1. WrapperInv => (txFailures = 0 => ToldIsTrue)
  BY DEF WrapperInv, Consistent, AtRest, ToldFits, ToldIsTrue
<1> QED BY <1>1, WrapperInvAlways, PTL
=============================================================================
