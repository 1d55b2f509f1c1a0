------------------------------ MODULE Database ------------------------------
(***************************************************************************)
(* A database connection of the daemon (database/database.cpp), used by    *)
(* one thread: what beginTransaction, commitTransaction and                *)
(* rollbackTransaction do to the nesting counter m_transactionSemaphore    *)
(* and to SQLite's own transaction.                                        *)
(*                                                                         *)
(* A connection is a record: sem is the counter, tx says whether SQLite is *)
(* in a transaction, view is the content the connection sees and disk the  *)
(* content that survives a stop.  An outcome of an operation is the        *)
(* connection after it, the value it returned, and whether SQLite failed.  *)
(***************************************************************************)
EXTENDS Integers

\* The counter passes 2 only when beginTransaction is called too many times.
Connection(Content) == [sem : 0 .. 2, tx : BOOLEAN, view : Content, disk : Content]

Opened(content) == [sem |-> 0, tx |-> FALSE, view |-> content, disk |-> content]

Outcome(db, ok, failed) == [db |-> db, ok |-> ok, failed |-> failed]

\* An open transaction is lost when the connection is closed; the counter is
\* part of the Database object and stays.
Closed(db) == [db EXCEPT !.tx = FALSE, !.view = db.disk]

\* A statement outside a transaction is committed at once.
Written(db, content) ==
    [db EXCEPT !.view = content, !.disk = IF db.tx THEN @ ELSE content]

\* BEGIN fails within a transaction, and may fail otherwise.
BeginTransaction(db) ==
    LET counted == [db EXCEPT !.sem = @ + 1] IN
    IF db.sem = 0
    THEN IF db.tx THEN {Outcome(counted, FALSE, FALSE)}
         ELSE {Outcome([counted EXCEPT !.tx = TRUE], TRUE, FALSE),
               Outcome(counted, FALSE, TRUE)}
    ELSE {Outcome(counted, db.sem = 1, FALSE)}

\* COMMIT fails outside a transaction; if it fails within one, SQLite may have
\* rolled the transaction back, or it stays open.
CommitTransaction(db) ==
    LET counted == [db EXCEPT !.sem = @ - 1] IN
    IF db.sem = 1
    THEN IF ~db.tx THEN {Outcome(counted, FALSE, FALSE)}
         ELSE {Outcome([counted EXCEPT !.tx = FALSE, !.disk = db.view], TRUE, FALSE),
               Outcome(counted, FALSE, TRUE),
               Outcome(Closed(counted), FALSE, TRUE)}
    ELSE {Outcome(counted, db.sem # 0, FALSE)}

\* The result of rollbackTransaction is never looked at.
RolledBack(db) ==
    LET counted == [db EXCEPT !.sem = @ - 1] IN
    IF db.sem = 1 THEN Closed(counted) ELSE counted
=============================================================================
