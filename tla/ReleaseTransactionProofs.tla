---------------------- MODULE ReleaseTransactionProofs ----------------------
(***************************************************************************)
(* Proofs about ReleaseTransaction, for any releases, any configurations   *)
(* and any number of commands and faults.                                  *)
(***************************************************************************)
EXTENDS ReleaseTransaction, TLAPS

-----------------------------------------------------------------------------
(* The inductive invariant.                                                *)

WithoutJournal == {"resolve", "clear_orphans", "write_journal", "discard"}
WithJournal == {"load_journal"} \cup Switching \cup Recovering

(* Where a journal exists, whose it is, and that it names two releases.    *)
JournalOK ==
    /\ pc \in WithoutJournal => journal = NoJournal
    /\ pc \in WithJournal => journal # NoJournal
    /\ pc \in {"load_journal"} \cup Switching => journal.target = target
    /\ pc \in {"clear_orphans", "write_journal"} => target \notin {current, Legacy}
    /\ journal # NoJournal => /\ journal \in Journals
                              /\ journal.target \notin {journal.current, Legacy}
                              /\ journal.existed <=> journal.sha # NoRecord

(* The state file of the target can be found, and its backup is complete   *)
(* before anything is switched.                                            *)
Saved == {"up_backend", "up_others", "verify", "link_previous", "link_current",
          "commit_state", "clear_journal"}
FilesOK ==
    /\ Recoverable
    /\ pc \in {"clear_orphans", "write_journal", "load_journal"}
               \cup (Switching \ {"clear_journal"}) => stamp < MaxStamp
    /\ pc = "write_journal" => backup[target] = NoRecord
    /\ pc = "move_copy" => journal.existed /\ copying[target] = journal.sha
    /\ pc \in Saved /\ journal.existed => backup[target] = journal.sha
    /\ pc = "clear_journal" => record[target] \in [previous : {journal.current},
                                                   stamp : 1 .. MaxStamp]
    /\ pc \in {"restore_tmp", "restore_previous", "restore_current", "restored"}
         => record[journal.target] = journal.sha
    /\ journal # NoJournal /\ journal.current # Legacy
         => record[journal.current].previous = journal.previous

(* How far the two links have moved.                                       *)
Unmoved == {"load_journal", "copy_state", "move_copy", "up_backend", "up_others",
            "verify", "link_previous"}
LinksOK ==
    /\ pc \in Unmoved => current = journal.current /\ previous = journal.previous
    /\ pc = "link_current" => current = journal.current /\ previous = journal.current
    /\ pc \in {"commit_state", "clear_journal"}
         => current = target /\ previous = journal.current
    /\ pc \in {"restore_current", "restored"} => previous = journal.previous
    /\ pc = "restored" => current = journal.current

(* Which release the services run once they have been verified.            *)
ServicesOK ==
    /\ pc \in {"link_previous", "link_current", "commit_state", "clear_journal"}
         => Serves(target)
    /\ pc \in Recovering \ {"restore_backend", "restore_others", "restore_verify"}
         => Serves(journal.current)

Inv == /\ TypeOK /\ JournalOK /\ FilesOK /\ LinksOK /\ ServicesOK
       /\ ServesCurrent /\ RecordNamesPrevious

(* Facts about the journal's fields.                                       *)
LEMMA JournalFields ==
    ASSUME TypeOK, journal # NoJournal
    PROVE  /\ journal.target \in Releases /\ journal.current \in Releases
           /\ journal.previous \in Releases \cup {"none"}
           /\ journal.existed \in BOOLEAN /\ journal.sha \in Records
BY DEF TypeOK, Journals

(* A missing state file counts as a record.                                *)
LEMMA NoRecordIsRecord == NoRecord \in Records
BY DEF Records

(* The steps before the switch preserve the invariant.                     *)
LEMMA PreparationPreserves == ASSUME Inv, Prepare PROVE Inv'
<1> USE LegacyAssumption, StampAssumption, JournalFields, NoRecordIsRecord
<1> USE DEF Step, linkVars, fileVars, commandVars, WithoutJournal, WithJournal, Saved,
           Unmoved, Switching, Recovering, Preparing, Steps
<1>1. CASE RecoverUnfinished BY <1>1 DEF Inv, TypeOK, JournalOK, FilesOK, LinksOK,
     ServicesOK, ServesCurrent, RecordNamesPrevious, Recoverable, RestoredState,
     Serves, RecoverUnfinished
<1>2. CASE Refuse BY <1>2 DEF Inv, TypeOK, JournalOK, FilesOK, LinksOK, ServicesOK,
     ServesCurrent, RecordNamesPrevious, Recoverable, RestoredState, Serves, Refuse
<1>3. CASE ClearOrphanBackup
  <2>1. TypeOK' BY <1>3 DEF Inv, TypeOK, ClearOrphanBackup
  <2>2. JournalOK' BY <1>3 DEF Inv, TypeOK, JournalOK, ClearOrphanBackup
  <2>3. FilesOK' BY <1>3 DEF Inv, TypeOK, JournalOK, FilesOK, Recoverable,
       RestoredState, ClearOrphanBackup
  <2>4. LinksOK' BY <1>3 DEF Inv, JournalOK, LinksOK, ClearOrphanBackup
  <2>5. ServicesOK' BY <1>3 DEF Inv, TypeOK, JournalOK, ServicesOK, Serves,
       Stateless, ClearOrphanBackup
  <2>6. ServesCurrent' BY <1>3 DEF Inv, TypeOK, JournalOK, ServesCurrent, Serves,
       Stateless, ClearOrphanBackup
  <2>7. RecordNamesPrevious' BY <1>3 DEF Inv, TypeOK, JournalOK,
       RecordNamesPrevious, ClearOrphanBackup
  <2> QED BY <2>1, <2>2, <2>3, <2>4, <2>5, <2>6, <2>7 DEF Inv
<1>4. CASE WriteJournal
  <2>1. TypeOK' BY <1>4 DEF Inv, TypeOK, WriteJournal, Records, Journals, NoJournal,
       NoRecord
  <2>2. JournalOK' BY <1>4 DEF Inv, TypeOK, JournalOK, WriteJournal, Records,
       Journals, NoJournal, NoRecord
  <2>3. FilesOK' BY <1>4 DEF Inv, TypeOK, JournalOK, FilesOK, LinksOK, ServicesOK,
       ServesCurrent, RecordNamesPrevious, Recoverable, RestoredState, Serves,
       Stateless, Services, WriteJournal
  <2>4. LinksOK' BY <1>4 DEF Inv, JournalOK, LinksOK, WriteJournal
  <2>5. ServicesOK' BY <1>4 DEF Inv, TypeOK, JournalOK, ServicesOK, Serves,
       Stateless, WriteJournal
  <2>6. ServesCurrent' BY <1>4 DEF Inv, TypeOK, JournalOK, ServesCurrent, Serves,
       Stateless, WriteJournal
  <2>7. RecordNamesPrevious' BY <1>4 DEF Inv, TypeOK, JournalOK,
       RecordNamesPrevious, WriteJournal
  <2> QED BY <2>1, <2>2, <2>3, <2>4, <2>5, <2>6, <2>7 DEF Inv
<1>5. CASE LoadJournal BY <1>5 DEF Inv, TypeOK, JournalOK, FilesOK, LinksOK,
     ServicesOK, ServesCurrent, RecordNamesPrevious, Recoverable, RestoredState,
     Serves, LoadJournal
<1> QED BY <1>1, <1>2, <1>3, <1>4, <1>5 DEF Prepare

(* So do the steps of the switch: the backup is complete before the first. *)
LEMMA SwitchPreserves == ASSUME Inv, SwitchOver PROVE Inv'
<1> USE LegacyAssumption, StampAssumption, JournalFields, NoRecordIsRecord
<1> USE DEF Step, linkVars, fileVars, commandVars, WithoutJournal, WithJournal, Saved,
           Unmoved, Switching, Recovering, Preparing, Steps
<1>1. CASE CopyState BY <1>1 DEF Inv, TypeOK, JournalOK, FilesOK, LinksOK,
     ServicesOK, ServesCurrent, RecordNamesPrevious, Recoverable, RestoredState,
     Serves, CopyState
<1>2. CASE MoveCopy
  <2>1. TypeOK' BY <1>2 DEF Inv, TypeOK, MoveCopy
  <2>2. JournalOK' BY <1>2 DEF Inv, TypeOK, JournalOK, MoveCopy
  <2>3. FilesOK' BY <1>2 DEF Inv, TypeOK, JournalOK, FilesOK, Recoverable,
       RestoredState, MoveCopy
  <2>4. LinksOK' BY <1>2 DEF Inv, JournalOK, LinksOK, MoveCopy
  <2>5. ServicesOK' BY <1>2 DEF Inv, TypeOK, JournalOK, ServicesOK, Serves,
       Stateless, MoveCopy
  <2>6. ServesCurrent' BY <1>2 DEF Inv, TypeOK, JournalOK, ServesCurrent, Serves,
       Stateless, MoveCopy
  <2>7. RecordNamesPrevious' BY <1>2 DEF Inv, TypeOK, JournalOK,
       RecordNamesPrevious, MoveCopy
  <2> QED BY <2>1, <2>2, <2>3, <2>4, <2>5, <2>6, <2>7 DEF Inv
<1>3. CASE UpBackend BY <1>3 DEF Inv, TypeOK, JournalOK, FilesOK, LinksOK,
     ServicesOK, ServesCurrent, RecordNamesPrevious, Recoverable, RestoredState,
     Serves, UpBackend
<1>4. CASE UpOthers BY <1>4 DEF Inv, TypeOK, JournalOK, FilesOK, LinksOK,
     ServicesOK, ServesCurrent, RecordNamesPrevious, Recoverable, RestoredState,
     Serves, UpOthers, Restarted
<1>5. CASE VerifyRelease BY <1>5 DEF Inv, TypeOK, JournalOK, FilesOK, LinksOK,
     ServicesOK, ServesCurrent, RecordNamesPrevious, Recoverable, RestoredState,
     Serves, VerifyRelease
<1>6. CASE LinkPrevious BY <1>6 DEF Inv, TypeOK, JournalOK, FilesOK, LinksOK,
     ServicesOK, ServesCurrent, RecordNamesPrevious, Recoverable, RestoredState,
     Serves, LinkPrevious
<1>7. CASE LinkCurrent BY <1>7 DEF Inv, TypeOK, JournalOK, FilesOK, LinksOK,
     ServicesOK, ServesCurrent, RecordNamesPrevious, Recoverable, RestoredState,
     Serves, LinkCurrent
<1>8. CASE CommitState
  <2>1. TypeOK' BY <1>8 DEF Inv, TypeOK, JournalOK, FilesOK, LinksOK, ServicesOK,
       ServesCurrent, RecordNamesPrevious, Recoverable, RestoredState, Serves,
       Stateless, Services, CommitState, Records, Journals, NoJournal, NoRecord
  <2>2. JournalOK' BY <1>8 DEF Inv, TypeOK, JournalOK, CommitState
  <2>3. FilesOK' BY <1>8 DEF Inv, TypeOK, JournalOK, FilesOK, LinksOK, ServicesOK,
       ServesCurrent, RecordNamesPrevious, Recoverable, RestoredState, Serves,
       Stateless, Services, CommitState
  <2>4. LinksOK' BY <1>8 DEF Inv, JournalOK, LinksOK, CommitState
  <2>5. ServicesOK' BY <1>8 DEF Inv, TypeOK, JournalOK, ServicesOK, Serves,
       Stateless, CommitState
  <2>6. ServesCurrent' BY <1>8 DEF Inv, TypeOK, JournalOK, ServesCurrent, Serves,
       Stateless, CommitState
  <2>7. RecordNamesPrevious' BY <1>8 DEF Inv, TypeOK, JournalOK,
       RecordNamesPrevious, CommitState
  <2> QED BY <2>1, <2>2, <2>3, <2>4, <2>5, <2>6, <2>7 DEF Inv
<1>9. CASE ClearJournal BY <1>9 DEF Inv, TypeOK, JournalOK, FilesOK, LinksOK,
     ServicesOK, ServesCurrent, RecordNamesPrevious, Recoverable, RestoredState,
     Serves, ClearJournal
<1>10. CASE Discard
  <2>1. TypeOK' BY <1>10 DEF Inv, TypeOK, Discard
  <2>2. JournalOK' BY <1>10 DEF Inv, TypeOK, JournalOK, Discard
  <2>3. FilesOK' BY <1>10 DEF Inv, TypeOK, JournalOK, FilesOK, Recoverable,
       RestoredState, Discard
  <2>4. LinksOK' BY <1>10 DEF Inv, JournalOK, LinksOK, Discard
  <2>5. ServicesOK' BY <1>10 DEF Inv, TypeOK, JournalOK, ServicesOK, Serves,
       Stateless, Discard
  <2>6. ServesCurrent' BY <1>10 DEF Inv, TypeOK, JournalOK, ServesCurrent, Serves,
       Stateless, Discard
  <2>7. RecordNamesPrevious' BY <1>10 DEF Inv, TypeOK, JournalOK,
       RecordNamesPrevious, Discard
  <2> QED BY <2>1, <2>2, <2>3, <2>4, <2>5, <2>6, <2>7 DEF Inv
<1> QED BY <1>1, <1>2, <1>3, <1>4, <1>5, <1>6, <1>7, <1>8, <1>9, <1>10 DEF
     SwitchOver

(* So do the steps of a recovery, whichever steps of an earlier one were done. *)
LEMMA RestorePreserves == ASSUME Inv, Restore PROVE Inv'
<1> USE LegacyAssumption, StampAssumption, JournalFields, NoRecordIsRecord
<1> USE DEF Step, linkVars, fileVars, commandVars, WithoutJournal, WithJournal, Saved,
           Unmoved, Switching, Recovering, Preparing, Steps
<1>1. CASE RestoreBackend
  <2>1. TypeOK' BY <1>1 DEF Inv, TypeOK, JournalOK, FilesOK, LinksOK, ServicesOK,
       ServesCurrent, RecordNamesPrevious, Recoverable, RestoredState, Serves,
       Stateless, Services, RestoreBackend, Restarted
  <2>2. JournalOK' BY <1>1 DEF Inv, TypeOK, JournalOK, RestoreBackend, Restarted,
       Services
  <2>3. FilesOK' BY <1>1 DEF Inv, TypeOK, JournalOK, FilesOK, Recoverable,
       RestoredState, RestoreBackend, Restarted, Services
  <2>4. LinksOK' BY <1>1 DEF Inv, JournalOK, LinksOK, RestoreBackend, Restarted,
       Services
  <2>5. ServicesOK' BY <1>1 DEF Inv, TypeOK, JournalOK, ServicesOK, Serves,
       Stateless, RestoreBackend, Restarted, Services
  <2>6. ServesCurrent' BY <1>1 DEF Inv, TypeOK, JournalOK, ServesCurrent, Serves,
       Stateless, RestoreBackend, Restarted, Services
  <2>7. RecordNamesPrevious' BY <1>1 DEF Inv, TypeOK, JournalOK,
       RecordNamesPrevious, RestoreBackend, Restarted, Services
  <2> QED BY <2>1, <2>2, <2>3, <2>4, <2>5, <2>6, <2>7 DEF Inv
<1>2. CASE RestoreOthers
  <2>1. TypeOK' BY <1>2 DEF Inv, TypeOK, JournalOK, FilesOK, LinksOK, ServicesOK,
       ServesCurrent, RecordNamesPrevious, Recoverable, RestoredState, Serves,
       Stateless, Services, RestoreOthers, Restarted
  <2>2. JournalOK' BY <1>2 DEF Inv, TypeOK, JournalOK, RestoreOthers, Restarted,
       Services
  <2>3. FilesOK' BY <1>2 DEF Inv, TypeOK, JournalOK, FilesOK, Recoverable,
       RestoredState, RestoreOthers, Restarted, Services
  <2>4. LinksOK' BY <1>2 DEF Inv, JournalOK, LinksOK, RestoreOthers, Restarted,
       Services
  <2>5. ServicesOK' BY <1>2 DEF Inv, TypeOK, JournalOK, ServicesOK, Serves,
       Stateless, RestoreOthers, Restarted, Services
  <2>6. ServesCurrent' BY <1>2 DEF Inv, TypeOK, JournalOK, ServesCurrent, Serves,
       Stateless, RestoreOthers, Restarted, Services
  <2>7. RecordNamesPrevious' BY <1>2 DEF Inv, TypeOK, JournalOK,
       RecordNamesPrevious, RestoreOthers, Restarted, Services
  <2> QED BY <2>1, <2>2, <2>3, <2>4, <2>5, <2>6, <2>7 DEF Inv
<1>3. CASE RestoreVerify BY <1>3 DEF Inv, TypeOK, JournalOK, FilesOK, LinksOK,
     ServicesOK, ServesCurrent, RecordNamesPrevious, Recoverable, RestoredState,
     Serves, RestoreVerify
<1>4. CASE RestoreState
  <2>1. TypeOK' BY <1>4 DEF Inv, TypeOK, JournalOK, FilesOK, LinksOK, ServicesOK,
       ServesCurrent, RecordNamesPrevious, Recoverable, RestoredState, Serves,
       Stateless, Services, RestoreState
  <2>2. JournalOK' BY <1>4 DEF Inv, TypeOK, JournalOK, RestoreState
  <2>3. FilesOK' BY <1>4 DEF Inv, TypeOK, JournalOK, FilesOK, Recoverable,
       RestoredState, RestoreState
  <2>4. LinksOK' BY <1>4 DEF Inv, JournalOK, LinksOK, RestoreState
  <2>5. ServicesOK' BY <1>4 DEF Inv, TypeOK, JournalOK, ServicesOK, Serves,
       Stateless, RestoreState
  <2>6. ServesCurrent' BY <1>4 DEF Inv, TypeOK, JournalOK, ServesCurrent, Serves,
       Stateless, RestoreState
  <2>7. RecordNamesPrevious' BY <1>4 DEF Inv, TypeOK, JournalOK,
       RecordNamesPrevious, RestoreState
  <2> QED BY <2>1, <2>2, <2>3, <2>4, <2>5, <2>6, <2>7 DEF Inv
<1>5. CASE RestoreTmp
  <2>1. TypeOK' BY <1>5 DEF Inv, TypeOK, RestoreTmp
  <2>2. JournalOK' BY <1>5 DEF Inv, TypeOK, JournalOK, RestoreTmp
  <2>3. FilesOK' BY <1>5 DEF Inv, TypeOK, JournalOK, FilesOK, Recoverable,
       RestoredState, RestoreTmp
  <2>4. LinksOK' BY <1>5 DEF Inv, JournalOK, LinksOK, RestoreTmp
  <2>5. ServicesOK' BY <1>5 DEF Inv, TypeOK, JournalOK, ServicesOK, Serves,
       Stateless, RestoreTmp
  <2>6. ServesCurrent' BY <1>5 DEF Inv, TypeOK, JournalOK, ServesCurrent, Serves,
       Stateless, RestoreTmp
  <2>7. RecordNamesPrevious' BY <1>5 DEF Inv, TypeOK, JournalOK,
       RecordNamesPrevious, RestoreTmp
  <2> QED BY <2>1, <2>2, <2>3, <2>4, <2>5, <2>6, <2>7 DEF Inv
<1>6. CASE RestorePrevious
  <2>1. TypeOK' BY <1>6 DEF Inv, TypeOK, JournalOK, FilesOK, LinksOK, ServicesOK,
       ServesCurrent, RecordNamesPrevious, Recoverable, RestoredState, Serves,
       Stateless, Services, RestorePrevious
  <2>2. JournalOK' BY <1>6 DEF Inv, TypeOK, JournalOK, RestorePrevious
  <2>3. FilesOK' BY <1>6 DEF Inv, TypeOK, JournalOK, FilesOK, Recoverable,
       RestoredState, RestorePrevious
  <2>4. LinksOK' BY <1>6 DEF Inv, JournalOK, LinksOK, RestorePrevious
  <2>5. ServicesOK' BY <1>6 DEF Inv, TypeOK, JournalOK, ServicesOK, Serves,
       Stateless, RestorePrevious
  <2>6. ServesCurrent' BY <1>6 DEF Inv, TypeOK, JournalOK, ServesCurrent, Serves,
       Stateless, RestorePrevious
  <2>7. RecordNamesPrevious' BY <1>6 DEF Inv, TypeOK, JournalOK,
       RecordNamesPrevious, RestorePrevious
  <2> QED BY <2>1, <2>2, <2>3, <2>4, <2>5, <2>6, <2>7 DEF Inv
<1>7. CASE RestoreCurrent BY <1>7 DEF Inv, TypeOK, JournalOK, FilesOK, LinksOK,
     ServicesOK, ServesCurrent, RecordNamesPrevious, Recoverable, RestoredState,
     Serves, RestoreCurrent
<1>8. CASE ClearRestored BY <1>8 DEF Inv, TypeOK, JournalOK, FilesOK, LinksOK,
     ServicesOK, ServesCurrent, RecordNamesPrevious, Recoverable, RestoredState,
     Serves, ClearRestored
<1> QED BY <1>1, <1>2, <1>3, <1>4, <1>5, <1>6, <1>7, <1>8 DEF Restore

(* So do failures, signals and kills.                                      *)
LEMMA FaultsPreserve == ASSUME Inv, Faults PROVE Inv'
<1> USE LegacyAssumption, StampAssumption, JournalFields, NoRecordIsRecord
<1> USE DEF Step, linkVars, fileVars, commandVars, WithoutJournal, WithJournal, Saved,
           Unmoved, Switching, Recovering, Preparing, Steps
<1>1. CASE UpPartly
  <2>1. TypeOK' BY <1>1 DEF Inv, TypeOK, JournalOK, FilesOK, LinksOK, ServicesOK,
       ServesCurrent, RecordNamesPrevious, Recoverable, RestoredState, Serves,
       Stateless, Services, UpPartly, Restarted
  <2>2. JournalOK' BY <1>1 DEF Inv, TypeOK, JournalOK, UpPartly, Restarted, Services
  <2>3. FilesOK' BY <1>1 DEF Inv, TypeOK, JournalOK, FilesOK, Recoverable,
       RestoredState, UpPartly, Restarted, Services
  <2>4. LinksOK' BY <1>1 DEF Inv, JournalOK, LinksOK, UpPartly, Restarted, Services
  <2>5. ServicesOK' BY <1>1 DEF Inv, TypeOK, JournalOK, ServicesOK, Serves,
       Stateless, UpPartly, Restarted, Services
  <2>6. ServesCurrent' BY <1>1 DEF Inv, TypeOK, JournalOK, ServesCurrent, Serves,
       Stateless, UpPartly, Restarted, Services
  <2>7. RecordNamesPrevious' BY <1>1 DEF Inv, TypeOK, JournalOK,
       RecordNamesPrevious, UpPartly, Restarted, Services
  <2> QED BY <2>1, <2>2, <2>3, <2>4, <2>5, <2>6, <2>7 DEF Inv
<1>2. CASE HandleExit BY <1>2 DEF Inv, TypeOK, JournalOK, FilesOK, LinksOK,
     ServicesOK, ServesCurrent, RecordNamesPrevious, Recoverable, RestoredState,
     Serves, HandleExit
<1>3. CASE Stop BY <1>3 DEF Inv, TypeOK, JournalOK, FilesOK, LinksOK, ServicesOK,
     ServesCurrent, RecordNamesPrevious, Recoverable, RestoredState, Serves, Stop
<1> QED BY <1>1, <1>2, <1>3 DEF Faults

-----------------------------------------------------------------------------
(* The theorems.                                                           *)

(* The invariant holds initially and every step preserves it.              *)
THEOREM Invariance == Spec => []Inv
<1>1. Init => Inv
  <2> SUFFICES ASSUME Init PROVE Inv OBVIOUS
  <2> USE LegacyAssumption, StampAssumption, NoRecordIsRecord DEF Init
  <2>1. TypeOK
    <3>1. stamp \in 0 .. MaxStamp OBVIOUS
    <3>2. record \in [Releases -> Records] /\ running \in [Services -> Releases]
      OBVIOUS
    <3>3. pc \in Steps /\ operation \in Operations BY DEF Steps, Operations
    <3> QED BY <3>1, <3>2, <3>3 DEF TypeOK
  <2>2. JournalOK /\ LinksOK
    BY DEF JournalOK, LinksOK, WithoutJournal, WithJournal, Unmoved, Switching, Recovering
  <2>3. FilesOK BY DEF FilesOK, Recoverable, Saved, Switching
  <2>4. ServicesOK /\ ServesCurrent
    BY DEF ServicesOK, ServesCurrent, Serves, Services, Stateless, Recovering
  <2>5. RecordNamesPrevious BY DEF RecordNamesPrevious
  <2> QED BY <2>1, <2>2, <2>3, <2>4, <2>5 DEF Inv
<1>2. Inv /\ [Next]_vars => Inv'
  <2> SUFFICES ASSUME Inv, [Next]_vars PROVE Inv' OBVIOUS
  <2> USE DEF Step, linkVars, fileVars, commandVars, WithoutJournal, WithJournal, Saved,
              Unmoved, Switching, Recovering, Preparing, Steps
  <2>1. ASSUME NEW o \in Operations, Begin(o) PROVE Inv'
    BY <2>1 DEF Begin, Inv, TypeOK, JournalOK, FilesOK, LinksOK, ServicesOK,
        ServesCurrent, RecordNamesPrevious, Recoverable, RestoredState, Serves
  <2>2. ASSUME NEW t \in Releases, Resolve(t) PROVE Inv'
    BY <2>2, StampAssumption DEF Resolve, Eligible, Inv, TypeOK, JournalOK, FilesOK,
        LinksOK, ServicesOK, ServesCurrent, RecordNamesPrevious, Recoverable,
        RestoredState, Serves
  <2>3. CASE UNCHANGED vars
    BY <2>3 DEF vars, Inv, TypeOK, JournalOK, FilesOK, LinksOK, ServicesOK,
        ServesCurrent, RecordNamesPrevious, Recoverable, RestoredState, Serves
  <2> QED BY <2>1, <2>2, <2>3, PreparationPreserves, SwitchPreserves, RestorePreserves,
             FaultsPreserve DEF Next
<1> QED BY <1>1, <1>2, PTL DEF Spec

(* Every variable keeps its type.                                          *)
THEOREM Typing == Spec => []TypeOK
<1>1. Inv => TypeOK BY DEF Inv
<1> QED BY <1>1, Invariance, PTL

(* Without a journal the services run the release that is current,         *)
(* whatever commands were interrupted before.                              *)
THEOREM AlwaysServesCurrent == Spec => []ServesCurrent
<1>1. Inv => ServesCurrent BY DEF Inv
<1> QED BY <1>1, Invariance, PTL

(* ... and its state file agrees with the previous link.                   *)
THEOREM RecordAgrees == Spec => []RecordNamesPrevious
<1>1. Inv => RecordNamesPrevious BY DEF Inv
<1> QED BY <1>1, Invariance, PTL

(* The state file a journal promises to bring back is never lost.          *)
THEOREM NeverUnrecoverable == Spec => []Recoverable
<1>1. Inv => Recoverable BY DEF Inv, FilesOK
<1> QED BY <1>1, Invariance, PTL

(* A step that removes the journal of a switch is an atomic switch.        *)
LEMMA CommitIsSwitch == ASSUME Inv, ClearJournal PROVE Switched!Next
<1> USE LegacyAssumption, StampAssumption, JournalFields
<1>1. /\ CommittedCurrent = journal.current /\ CommittedCurrent' = target
      /\ CommittedPrevious' = journal.current
  BY DEF Inv, JournalOK, LinksOK, ClearJournal, Step, CommittedCurrent,
         CommittedPrevious, WithJournal, Switching, linkVars, commandVars
<1>2. target \in Releases /\ target \notin {journal.current, Legacy}
  BY DEF Inv, TypeOK, JournalOK, ClearJournal, Step, WithJournal, Switching
<1>3. PICK n \in 1 .. MaxStamp : record[target] = [previous |-> journal.current, stamp |-> n]
  BY DEF Inv, FilesOK, ClearJournal, Step
<1>4. CommittedRecord' = [CommittedRecord EXCEPT ![target] =
                            [previous |-> journal.current, stamp |-> n]]
  BY <1>3 DEF Inv, TypeOK, JournalOK, ClearJournal, Step, WithJournal, Switching,
         CommittedRecord, fileVars
<1> QED BY <1>1, <1>2, <1>3, <1>4 DEF Switched!Next, Switched!Switch

(* Every other step leaves the committed links and state files alone.      *)
LEMMA OthersStutter ==
    ASSUME Inv, Inv', Next, ~ClearJournal
    PROVE  UNCHANGED <<CommittedCurrent, CommittedPrevious, CommittedRecord>>
<1> USE LegacyAssumption, JournalFields
<1> USE DEF CommittedCurrent, CommittedPrevious, CommittedRecord
<1> USE DEF Inv, TypeOK, JournalOK, Step, linkVars, fileVars, commandVars,
            WithoutJournal, WithJournal, Switching, Recovering
<1>1. CASE WriteJournal BY <1>1 DEF WriteJournal, NoJournal
<1>2. CASE CommitState BY <1>2 DEF CommitState
<1>3. CASE RestoreState BY <1>3 DEF RestoreState
<1>4. CASE ClearRestored BY <1>4 DEF ClearRestored, FilesOK, LinksOK
<1>5. CASE LinkPrevious \/ LinkCurrent \/ RestorePrevious \/ RestoreCurrent
  BY <1>5 DEF LinkPrevious, LinkCurrent, RestorePrevious, RestoreCurrent
<1>6. CASE UNCHANGED <<linkVars, record, journal>> BY <1>6
<1>7. \/ WriteJournal \/ CommitState \/ RestoreState \/ ClearRestored
      \/ LinkPrevious \/ LinkCurrent \/ RestorePrevious \/ RestoreCurrent
      \/ UNCHANGED <<linkVars, record, journal>>
  BY DEF Next, Prepare, SwitchOver, Restore, Faults, Begin, Resolve, RecoverUnfinished,
         Refuse, ClearOrphanBackup, LoadJournal, CopyState, MoveCopy, UpBackend, UpOthers,
         VerifyRelease, Discard, RestoreBackend, RestoreOthers, RestoreVerify, RestoreTmp,
         UpPartly, HandleExit, Stop
<1> QED BY <1>1, <1>2, <1>3, <1>4, <1>5, <1>6, <1>7

(* Release commands implement an atomic switch: the script, its crashes,   *)
(* its exit handler and its recoveries refine ReleaseSwitch.               *)
THEOREM CommandsAreAtomic == Spec => AtomicSwitch
<1>1. Init => Switched!Init
  BY DEF Init, Switched!Init, Switched!NoRecord, NoRecord, CommittedCurrent,
         CommittedPrevious, CommittedRecord
<1>2. ASSUME Inv, Inv', [Next]_vars PROVE [Switched!Next]_(Switched!vars)
  <2>1. CASE ClearJournal BY <1>2, <2>1, CommitIsSwitch
  <2>2. CASE Next /\ ~ClearJournal BY <1>2, <2>2, OthersStutter DEF Switched!vars
  <2>3. CASE UNCHANGED vars
    BY <2>3 DEF vars, linkVars, fileVars, Switched!vars, CommittedCurrent,
                CommittedPrevious, CommittedRecord
  <2> QED BY <1>2, <2>1, <2>2, <2>3
<1> QED BY <1>1, <1>2, Invariance, PTL DEF Spec, AtomicSwitch, Switched!Spec

=============================================================================
