----------------------------- MODULE Persistence -----------------------------
(***************************************************************************)
(* The way of the results into the database (persistence/persistence.go)   *)
(* beside the event loop, and the validation at start that reads them back *)
(* (validate/validate.go).  A result is named by the id of its row.        *)
(***************************************************************************)
EXTENDS EventLoop

CONSTANTS
  PerchCap,   \* capacity of perch
  BatchSize,  \* persistence.batch-size
  BatchCap,   \* capacity of mrBatchChan
  Inserters   \* the goroutines of goPersistence

ASSUME PersistAssumption ==
  /\ PerchCap \in Nat \ {0} /\ BatchSize \in Nat \ {0} /\ BatchCap \in Nat \ {0}

VARIABLES
  perch,        \* channel of results
  mrBatchChan,  \* channel of batches
  inserting,    \* the batch each inserter is executing, <<>> for none
  stored,       \* ids of the results in the database
  failed,       \* ids whose insert was answered with an error (history)
  skipped,      \* ids the loaded snapshot covers that were not stored (history)
  checked,      \* ValidateOrderbook has returned since the start
  refused       \* why validation last ended the process: "no", "early", "lost"

lane == <<perch, mrBatchChan, inserting>>
outcome == <<stored, failed, skipped>>
pvars == <<vars, lane, outcome, checked, refused>>

InFlight ==
  Range(perch)
    \cup (UNION {Range(mrBatchChan[k]) : k \in DOMAIN mrBatchChan})
    \cup (UNION {Range(inserting[w]) : w \in Inserters})

EmptyLane ==
  /\ perch' = <<>> /\ mrBatchChan' = <<>>
  /\ inserting' = [w \in Inserters |-> <<>>]

PersistInit ==
  /\ Init
  /\ perch = <<>> /\ mrBatchChan = <<>>
  /\ inserting = [w \in Inserters |-> <<>>]
  /\ stored = {} /\ failed = {} /\ skipped = {}
  /\ checked = FALSE /\ refused = "no"

-----------------------------------------------------------------------------
\* The matcher blocks on a full perch.
SendToPerch ==
  /\ SendResult
  /\ Len(perch) < PerchCap
  /\ perch' = Append(perch, book.fromId)
  /\ UNCHANGED <<mrBatchChan, inserting, outcome, checked, refused>>

AtMost(m, n) == IF m < n THEN m ELSE n

\* Slip: the first result's place in the batch is used again.
BatchOverFirst ==
  LET n == AtMost(Len(perch), BatchSize)
  IN  /\ alive /\ perch # <<>> /\ Len(mrBatchChan) < BatchCap
      /\ mrBatchChan' = Append(mrBatchChan, SubSeq(perch, AtMost(n, 2), n))
      /\ perch' = SubSeq(perch, n + 1, Len(perch))
      /\ UNCHANGED <<vars, inserting, outcome, checked, refused>>

\* goBatch: one result and what waits behind it, up to a batch.
Batch ==
  LET n == AtMost(Len(perch), BatchSize)
  IN  /\ alive /\ perch # <<>> /\ Len(mrBatchChan) < BatchCap
      /\ mrBatchChan' = Append(mrBatchChan, SubSeq(perch, 1, n))
      /\ perch' = SubSeq(perch, n + 1, Len(perch))
      /\ UNCHANGED <<vars, inserting, outcome, checked, refused>>

TakeBatch(w) ==
  /\ alive /\ inserting[w] = <<>> /\ mrBatchChan # <<>>
  /\ inserting' = [inserting EXCEPT ![w] = Head(mrBatchChan)]
  /\ mrBatchChan' = Tail(mrBatchChan)
  /\ UNCHANGED <<vars, perch, outcome, checked, refused>>

\* insert ignore: one statement for the batch.
Insert(w) ==
  /\ alive /\ inserting[w] # <<>>
  /\ stored' = stored \cup Range(inserting[w])
  /\ inserting' = [inserting EXCEPT ![w] = <<>>]
  /\ UNCHANGED <<vars, perch, mrBatchChan, failed, skipped, checked, refused>>

\* An error is logged, and the inserter goes on with the next batch.
InsertFails(w) ==
  /\ alive /\ inserting[w] # <<>>
  /\ failed' = failed \cup Range(inserting[w])
  /\ inserting' = [inserting EXCEPT ![w] = <<>>]
  /\ UNCHANGED <<vars, perch, mrBatchChan, stored, skipped, checked, refused>>

-----------------------------------------------------------------------------
\* The rows ValidateOrderbook replays: those after the last snapshot but one,
\* up to the last.
Window ==
  {i \in table : \E f \in files : Newest(f) /\ i <= f.fromId
                   /\ \A g \in Snapshots \ {f} : g.fromId < i}

\* startExchange has started every goroutine before ValidateOrderbook runs.
Validate ==
  /\ alive /\ ~checked /\ Window \subseteq stored
  /\ checked' = TRUE
  /\ UNCHANGED <<vars, lane, outcome, refused>>

\* CheckResult: a result that is not found is fatal.
ValidateFails ==
  /\ alive /\ ~checked /\ ~(Window \subseteq stored)
  /\ refused' = IF Window \subseteq stored \cup InFlight THEN "early" ELSE "lost"
  /\ alive' = FALSE
  /\ Started(EmptyBook, 1)
  /\ EmptyLane
  /\ UNCHANGED <<onDisk, outcome, checked>>

CrashPersist ==
  /\ Crash
  /\ EmptyLane
  /\ UNCHANGED <<outcome, checked, refused>>

RestartPersist ==
  /\ Restart
  /\ skipped' = skipped \cup (Range(book'.rows) \ stored)
  /\ checked' = FALSE
  /\ UNCHANGED <<lane, stored, failed, refused>>

\* The steps of the event loop that do not touch the results.
Elsewhere ==
  /\ \/ \E i \in Rows : Upstream(i)
     \/ PullSome
     \/ SendOrder
     \/ Match
     \/ SnapshotTick \/ SendClone \/ SendMarker
     \/ Dump
  /\ UNCHANGED <<lane, outcome, checked, refused>>

PersistNext ==
  \/ Elsewhere
  \/ SendToPerch
  \/ Batch
  \/ \E w \in Inserters : TakeBatch(w) \/ Insert(w) \/ InsertFails(w)
  \/ Validate \/ ValidateFails
  \/ CrashPersist \/ RestartPersist

PersistSpec == PersistInit /\ [][PersistNext]_pvars

\* Goroutines that can go on do; an insert is answered in the end.
FairPersistSpec ==
  /\ PersistSpec
  /\ WF_pvars(PullSome /\ Elsewhere) /\ WF_pvars(SendOrder /\ Elsewhere)
  /\ WF_pvars(Dump /\ Elsewhere)
  /\ WF_pvars((SendClone \/ SendMarker) /\ Elsewhere)
  /\ SF_pvars(Match /\ Elsewhere) /\ WF_pvars(SendToPerch)
  /\ WF_pvars(Batch) /\ WF_pvars(RestartPersist)
  /\ WF_pvars(Validate \/ ValidateFails)
  /\ \A w \in Inserters : WF_pvars(TakeBatch(w))
                          /\ WF_pvars(Insert(w) \/ InsertFails(w))

-----------------------------------------------------------------------------
(* Properties *)

\* Every variable has its type; a batch has one to batch-size results.
PersistTypeOK ==
  /\ perch \in Seq(Rows)
  /\ mrBatchChan \in Seq(Seq(Rows))
  /\ \A k \in DOMAIN mrBatchChan : Len(mrBatchChan[k]) \in 1 .. BatchSize
  /\ inserting \in [Inserters -> Seq(Rows)]
  /\ stored \subseteq Rows /\ failed \subseteq Rows /\ skipped \subseteq Rows
  /\ checked \in BOOLEAN
  /\ refused \in {"no", "early", "lost"}

\* Whatever has been matched is stored or on its way, unless its insert failed
\* or a snapshot covered it when the process died: batching loses nothing, and
\* what a restart matches again is written again.
ResultsAccountedFor ==
  \A i \in Range(book.rows) :
    \/ i \in stored \cup InFlight \cup failed \cup skipped
    \/ loop = "result" /\ i = book.fromId

\* When crashes end and no start is refused, every result ends in one of
\* these; the goroutines and channels in between hold none back.
ResultsEnd ==
  [](refused = "no") =>
    \A i \in Rows : i \in table ~> i \in stored \cup failed \cup skipped

\* A process that died comes back and completes its start
\* (snapshotter/snapshotter.go:2).
ComesBack == ~alive ~> alive /\ checked
=============================================================================
