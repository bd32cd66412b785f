------------------------- MODULE ReleaseTransaction ------------------------
(***************************************************************************)
(* deploy-release.sh: deploy, rollback and recovery of a release.          *)
(*                                                                         *)
(* One command at a time holds the release lock.  It writes a journal of   *)
(* the original release, saves the state file it will replace, restarts    *)
(* the services, moves the two links and the state file, and commits by    *)
(* removing the journal.  It can fail, be interrupted by a signal or be    *)
(* killed between any two steps; a journal that is found at the start of   *)
(* a command, or by the exit handler, is undone first.                     *)
(***************************************************************************)
EXTENDS Naturals

CONSTANTS
    Releases,     \* release directories
    Legacy,       \* the one that was deployed before there were manifests
    NginxConfig,  \* the checksum of each release's Nginx configuration
    MaxStamp      \* bound: state files written

ASSUME LegacyAssumption == Legacy \in Releases /\ "none" \notin Releases
ASSUME StampAssumption == MaxStamp \in Nat

VARIABLES
    current, previous,  \* the two symbolic links
    running,            \* the release whose image or configuration each service runs
    record,             \* deployment-state.json of every release
    backup,             \* its .pretransaction copy
    copying,            \* its .pretransaction.tmp copy
    journal,            \* .release-transaction.env
    stamp,              \* state files written so far
    pc,                 \* what the command does next, "off" if none runs
    operation,          \* what the command was asked to do
    target,             \* the release it switches to
    handling            \* TRUE: the exit handler is running

linkVars == <<current, previous>>
fileVars == <<record, backup, copying, stamp>>
commandVars == <<operation, target, handling>>
vars == <<linkVars, running, fileVars, journal, pc, commandVars>>

-----------------------------------------------------------------------------
(* State.                                                                  *)

NoRecord == [previous |-> "none", stamp |-> 0]
Records == [previous : Releases, stamp : 1 .. MaxStamp] \cup {NoRecord}
Services == {"backend", "worker", "scheduler", "frontend", "nginx"}
Stateless == {"worker", "scheduler", "frontend"}
Operations == {"deploy", "rollback", "recovery-only"}

(* The checksum of the target's state file stands for its content.         *)
Journals == [target : Releases, current : Releases, previous : Releases \cup {"none"},
             existed : BOOLEAN, sha : Records]
NoJournal == [target |-> "none", current |-> "none", previous |-> "none",
              existed |-> FALSE, sha |-> NoRecord]

Preparing == {"locked", "resolve", "clear_orphans", "write_journal", "load_journal"}
Switching == {"copy_state", "move_copy", "up_backend", "up_others", "verify",
              "link_previous", "link_current", "commit_state", "clear_journal"}
Recovering == {"restore_backend", "restore_others", "restore_verify", "restore_state",
               "restore_tmp", "restore_previous", "restore_current", "restored"}
Steps == {"off", "discard"} \cup Preparing \cup Switching \cup Recovering

TypeOK ==
    /\ current \in Releases /\ previous \in Releases \cup {"none"}
    /\ running \in [Services -> Releases]
    /\ record \in [Releases -> Records]
    /\ backup \in [Releases -> Records] /\ copying \in [Releases -> Records]
    /\ journal \in Journals \cup {NoJournal}
    /\ stamp \in 0 .. MaxStamp
    /\ pc \in Steps
    /\ operation \in Operations /\ target \in Releases /\ handling \in BOOLEAN

(* The host before the first release command.                              *)
Init ==
    /\ current = Legacy /\ previous = "none"
    /\ running = [s \in Services |-> Legacy]
    /\ record = [r \in Releases |-> NoRecord]
    /\ backup = record /\ copying = record
    /\ journal = NoJournal
    /\ stamp = 0
    /\ pc = "off" /\ operation = "deploy" /\ target = Legacy /\ handling = FALSE

Step(from, to) == pc = from /\ pc' = to /\ UNCHANGED commandVars

-----------------------------------------------------------------------------
(* The command, up to the journal.                                         *)

Begin(o) ==
    /\ pc = "off" /\ pc' = "locked"
    /\ operation' = o /\ handling' = FALSE
    /\ UNCHANGED <<linkVars, running, fileVars, journal, target>>

(* recover_unfinished_transaction, run_recovery_only.                      *)
RecoverUnfinished ==
    /\ Step("locked", IF journal # NoJournal THEN "restore_backend"
                      ELSE IF operation = "recovery-only" THEN "off" ELSE "resolve")
    /\ UNCHANGED <<linkVars, running, fileVars, journal>>

(* The target has a manifest and is not current; a rollback goes to the    *)
(* previous release and needs a current one that can be recovered.         *)
Eligible(t) ==
    /\ t # current /\ t # Legacy
    /\ operation = "rollback" => t = previous /\ current # Legacy

Resolve(t) ==
    /\ pc = "resolve" /\ pc' = "clear_orphans"
    /\ Eligible(t) /\ stamp < MaxStamp
    /\ target' = t
    /\ UNCHANGED <<linkVars, running, fileVars, journal, operation, handling>>

(* The target is not eligible, or a check of the preflight fails.          *)
Refuse == Step("resolve", "off") /\ UNCHANGED <<linkVars, running, fileVars, journal>>

(* Fault of ClearOrphanBackup: copies of earlier commands are left.        *)
ClearOrphanBackupNever ==
    /\ Step("clear_orphans", "write_journal")
    /\ UNCHANGED <<linkVars, running, fileVars, journal>>

ClearOrphanBackup ==
    /\ \/ /\ Step("clear_orphans", "clear_orphans") /\ backup[target] # NoRecord
          /\ backup' = [backup EXCEPT ![target] = NoRecord]
          /\ UNCHANGED copying
       \/ /\ Step("clear_orphans", "write_journal") /\ backup[target] = NoRecord
          /\ copying' = [copying EXCEPT ![target] = NoRecord]
          /\ UNCHANGED backup
    /\ UNCHANGED <<linkVars, running, record, stamp, journal>>

WriteJournal ==
    /\ Step("write_journal", "load_journal") /\ journal = NoJournal
    /\ journal' = [target |-> target, current |-> current, previous |-> previous,
                   existed |-> record[target] # NoRecord, sha |-> record[target]]
    /\ UNCHANGED <<linkVars, running, fileVars>>

(* From here on the exit handler undoes the transaction.                   *)
LoadJournal ==
    /\ Step("load_journal", "copy_state")
    /\ UNCHANGED <<linkVars, running, fileVars, journal>>

-----------------------------------------------------------------------------
(* The switch.                                                             *)

(* prepare_candidate_state_backup copies the state file under another name *)
(* first, so that the backup is complete once it exists.                   *)
CopyState ==
    /\ pc = "copy_state"
    /\ backup[target] = NoRecord /\ copying[target] = NoRecord
    /\ \/ /\ journal.existed /\ record[target] = journal.sha
          /\ Step("copy_state", "move_copy")
          /\ copying' = [copying EXCEPT ![target] = record[target]]
       \/ ~journal.existed /\ Step("copy_state", "up_backend") /\ UNCHANGED copying
    /\ UNCHANGED <<linkVars, running, record, backup, stamp, journal>>

MoveCopy ==
    /\ Step("move_copy", "up_backend")
    /\ backup' = [backup EXCEPT ![target] = copying[target]]
    /\ copying' = [copying EXCEPT ![target] = NoRecord]
    /\ UNCHANGED <<linkVars, running, record, stamp, journal>>

(* activate_loaded_release.                                                *)
UpBackend ==
    /\ Step("up_backend", "up_others")
    /\ running' = [running EXCEPT !["backend"] = target]
    /\ UNCHANGED <<linkVars, fileVars, journal>>

(* Nginx is recreated only if its configuration changed.                   *)
Restarted(r) ==
    LET changed == NginxConfig[running["nginx"]] # NginxConfig[r]
    IN  [s \in Services |-> IF s \in Stateless \/ (s = "nginx" /\ changed)
                            THEN r ELSE running[s]]

UpOthers ==
    /\ Step("up_others", "verify")
    /\ running' = Restarted(target)
    /\ UNCHANGED <<linkVars, fileVars, journal>>

(* Every service runs what release r asks for: validate_running_*.         *)
Serves(r) ==
    /\ \A s \in Stateless \cup {"backend"} : running[s] = r
    /\ NginxConfig[running["nginx"]] = NginxConfig[r]

VerifyRelease ==
    /\ Step("verify", "link_previous") /\ Serves(target)
    /\ UNCHANGED <<linkVars, running, fileVars, journal>>

LinkPrevious ==
    /\ Step("link_previous", "link_current")
    /\ previous' = current
    /\ UNCHANGED <<current, running, fileVars, journal>>

LinkCurrent ==
    /\ Step("link_current", "commit_state")
    /\ current' = target
    /\ UNCHANGED <<previous, running, fileVars, journal>>

(* The new state file, written beside it, is moved over the old one.       *)
CommitState ==
    /\ Step("commit_state", "clear_journal")
    /\ stamp' = stamp + 1
    /\ record' = [record EXCEPT ![target] = [previous |-> previous, stamp |-> stamp + 1]]
    /\ UNCHANGED <<linkVars, running, backup, copying, journal>>

ClearJournal ==
    /\ Step("clear_journal", "discard")
    /\ journal' = NoJournal
    /\ UNCHANGED <<linkVars, running, fileVars>>

Discard ==
    /\ Step("discard", "off")
    /\ backup' = [backup EXCEPT ![target] = NoRecord]
    /\ copying' = [copying EXCEPT ![target] = NoRecord]
    /\ UNCHANGED <<linkVars, running, record, stamp, journal>>

-----------------------------------------------------------------------------
(* Recovery, by the exit handler or at the start of the next command.      *)

RestoreBackend ==
    /\ Step("restore_backend", "restore_others")
    /\ running' = [running EXCEPT !["backend"] = journal.current]
    /\ UNCHANGED <<linkVars, fileVars, journal>>

RestoreOthers ==
    /\ Step("restore_others", "restore_verify")
    /\ running' = Restarted(journal.current)
    /\ UNCHANGED <<linkVars, fileVars, journal>>

RestoreVerify ==
    /\ Step("restore_verify", "restore_state") /\ Serves(journal.current)
    /\ UNCHANGED <<linkVars, running, fileVars, journal>>

(* Fault of RestoredState: a file that was not there is left.              *)
RestoredStateKept(t) ==
    IF journal.existed /\ backup[t] # NoRecord THEN backup[t] ELSE record[t]

RestoredState(t) ==
    IF ~journal.existed THEN NoRecord
    ELSE IF backup[t] # NoRecord THEN backup[t] ELSE record[t]

(* Fault of RestoreState: a recovery that was itself interrupted after the *)
(* backup was moved does not find it.                                      *)
RestoreStateOnce ==
    /\ Step("restore_state", IF journal.existed THEN "restore_tmp" ELSE "restore_previous")
    /\ journal.existed => backup[journal.target] = journal.sha
    /\ record' = [record EXCEPT ![journal.target] = RestoredState(journal.target)]
    /\ backup' = IF journal.existed THEN [backup EXCEPT ![journal.target] = NoRecord]
                 ELSE backup
    /\ UNCHANGED <<linkVars, running, copying, stamp, journal>>

(* restore_candidate_state_from_journal; refuses a copy whose checksum is  *)
(* not the recorded one.                                                   *)
RestoreState ==
    /\ Step("restore_state", IF journal.existed THEN "restore_tmp" ELSE "restore_previous")
    /\ journal.existed => RestoredState(journal.target) = journal.sha
    /\ record' = [record EXCEPT ![journal.target] = RestoredState(journal.target)]
    /\ backup' = IF journal.existed THEN [backup EXCEPT ![journal.target] = NoRecord]
                 ELSE backup
    /\ UNCHANGED <<linkVars, running, copying, stamp, journal>>

RestoreTmp ==
    /\ Step("restore_tmp", "restore_previous")
    /\ copying' = [copying EXCEPT ![journal.target] = NoRecord]
    /\ UNCHANGED <<linkVars, running, record, backup, stamp, journal>>

RestorePreviousNever ==
    /\ Step("restore_previous", "restore_current")
    /\ UNCHANGED <<linkVars, running, fileVars, journal>>

RestorePrevious ==
    /\ Step("restore_previous", "restore_current")
    /\ previous' = journal.previous
    /\ UNCHANGED <<current, running, fileVars, journal>>

RestoreCurrent ==
    /\ Step("restore_current", "restored")
    /\ current' = journal.current
    /\ UNCHANGED <<previous, running, fileVars, journal>>

(* The journal goes last; a command that was to deploy goes on.            *)
ClearRestored ==
    /\ Step("restored", IF handling \/ operation = "recovery-only" THEN "off" ELSE "resolve")
    /\ journal' = NoJournal
    /\ UNCHANGED <<linkVars, running, fileVars>>

-----------------------------------------------------------------------------
(* Failures.                                                               *)

(* A start that fails may have replaced some of the services.              *)
UpPartly ==
    /\ pc \in {"up_others", "restore_others"}
    /\ LET r == IF pc = "up_others" THEN target ELSE journal.current
       IN  \E part \in SUBSET Stateless :
              running' = [s \in Services |-> IF s \in part THEN r ELSE running[s]]
    /\ pc' = IF pc = "up_others" THEN "restore_backend" ELSE "off"
    /\ handling' = (handling \/ pc = "up_others")
    /\ UNCHANGED <<linkVars, fileVars, journal, operation, target>>

(* Fault of HandleExit: the journal is removed although nothing has been   *)
(* restored.                                                               *)
HandleExitForgets ==
    /\ pc \in Switching
    /\ pc' = "off" /\ handling' = TRUE
    /\ journal' = NoJournal
    /\ UNCHANGED <<linkVars, running, fileVars, operation, target>>

(* release_exit_handler: a step failed or a signal came.                   *)
HandleExit ==
    /\ pc \in Switching
    /\ pc' = "restore_backend" /\ handling' = TRUE
    /\ UNCHANGED <<linkVars, running, fileVars, journal, operation, target>>

(* A failed recovery, a signal before or after the transaction, or a kill  *)
(* that no handler sees: the journal stays as it is.                       *)
Stop ==
    /\ pc # "off"
    /\ pc' = "off"
    /\ UNCHANGED <<linkVars, running, fileVars, journal, commandVars>>

-----------------------------------------------------------------------------
Prepare == RecoverUnfinished \/ Refuse \/ ClearOrphanBackup \/ WriteJournal \/ LoadJournal
SwitchOver == \/ CopyState \/ MoveCopy \/ UpBackend \/ UpOthers \/ VerifyRelease
              \/ LinkPrevious \/ LinkCurrent \/ CommitState \/ ClearJournal \/ Discard
Restore == \/ RestoreBackend \/ RestoreOthers \/ RestoreVerify \/ RestoreState
           \/ RestoreTmp \/ RestorePrevious \/ RestoreCurrent \/ ClearRestored
Faults == UpPartly \/ HandleExit \/ Stop

Next == \/ \E o \in Operations : Begin(o)
        \/ \E t \in Releases : Resolve(t)
        \/ Prepare \/ SwitchOver \/ Restore \/ Faults

Spec == Init /\ [][Next]_vars

-----------------------------------------------------------------------------
(* Properties.                                                             *)

(* Whenever no journal is left, whatever was interrupted before, every     *)
(* service runs the release that the current link names.                   *)
ServesCurrent == journal = NoJournal => Serves(current)

(* ... and the state file of that release names the one the previous link  *)
(* leads to, so that a rollback undoes what the file says.                 *)
RecordNamesPrevious ==
    journal = NoJournal /\ current # Legacy => record[current].previous = previous

(* While a journal is left, the content of the target's state file that it *)
(* promises to bring back can still be found under its recorded checksum.  *)
Recoverable ==
    journal # NoJournal => RestoredState(journal.target) = journal.sha

(* Until the journal is removed the originals that it records stand for    *)
(* the links and for the state file of the target.                         *)
CommittedCurrent == IF journal = NoJournal THEN current ELSE journal.current
CommittedPrevious == IF journal = NoJournal THEN previous ELSE journal.previous
CommittedRecord == IF journal = NoJournal THEN record
                   ELSE [record EXCEPT ![journal.target] = journal.sha]

Switched == INSTANCE ReleaseSwitch WITH
    current <- CommittedCurrent, previous <- CommittedPrevious, record <- CommittedRecord

(* With that reading, release commands and their crashes, failures and     *)
(* recoveries are atomic switches from one release to another.             *)
AtomicSwitch == Switched!Spec

(* Commands keep being issued, a running one goes on, and from some point  *)
(* on nothing fails any more.                                              *)
FairSpec ==
    /\ Spec
    /\ WF_vars(\E o \in Operations : Begin(o))
    /\ WF_vars(Prepare \/ SwitchOver \/ Restore)
    /\ <>[][~Faults]_vars

(* Then a journal never stays: the transaction is committed or undone.     *)
JournalIsConsumed == journal # NoJournal ~> journal = NoJournal

=============================================================================
