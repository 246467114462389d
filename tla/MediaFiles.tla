------------------------------ MODULE MediaFiles ------------------------------
(***************************************************************************)
(* The media directory: files that members sent, that tasks made and that  *)
(* operators uploaded as visual references, the rows that name them, and   *)
(* the collector that removes old files which no row names                 *)
(* (runMediaGCAudited).  It reads one table after the other, first for the *)
(* whole directory and once more before it removes a file.                 *)
(***************************************************************************)
EXTENDS Naturals, Sequences, FiniteSets

CONSTANTS
  Files   \* file names, which are random and never used twice

ASSUME FilesAssumption == IsFiniteSet(Files)

VARIABLES
  kind,     \* what a file is, "none" before it is written
  stage,    \* written without a row yet, named by rows, or being deleted
  disk,     \* files in the directory
  old,      \* those whose mtime is before the cutoff
  rows,     \* the tables with a row that names the file and counts
  freed,    \* files that no task, delivery or reference named for a while
  gc        \* the collector: phase, tables read, files they name, files that
            \* the scan of the directory found to be named, candidate

filesVars == <<kind, stage, disk, old, rows, freed, gc>>

Kinds == {"inbound", "made", "persona", "library"}
\* The table that names a file of a kind first: attachments and artifacts of
\* queued and running runs, and the references of personas and libraries.
FirstRow == [inbound |-> "run", made |-> "artifact", persona |-> "persona", library |-> "library"]
Tables == {"run", "artifact", "recent", "delivery", "persona", "library"}

\* Tables that name a file for someone who will read it.
Wanting == Tables \ {"recent"}
Wanted(f) == rows[f] \cap Wanting # {}

DeliveriesFirst == <<"delivery", "artifact", "recent", "run", "persona">>
\* protectedMediaFiles: the tables in the order in which they are read.
ReadOrder == <<"artifact", "recent", "run", "delivery", "persona">>

Resting == [phase |-> "rest", read |-> 0, named |-> {}, protected |-> {}, file |-> "none"]

\* Files, rows and the collector have their shape, and only a file that was
\* recorded is named by a row.
FilesTypeOK ==
  /\ kind \in [Files -> Kinds \cup {"none"}]
  /\ stage \in [Files -> {"unused", "saved", "kept", "dropped"}]
  /\ disk \subseteq Files /\ old \subseteq Files /\ freed \subseteq Files
  /\ rows \in [Files -> SUBSET Tables]
  /\ \A f \in Files : rows[f] # {} => stage[f] = "kept"
  /\ gc \in [phase : {"rest", "scan", "list", "check"}, read : 0..Len(ReadOrder),
             named : SUBSET Files, protected : SUBSET Files, file : Files \cup {"none"}]

FilesInit ==
  /\ kind = [f \in Files |-> "none"] /\ stage = [f \in Files |-> "unused"]
  /\ disk = {} /\ old = {} /\ freed = {}
  /\ rows = [f \in Files |-> {}]
  /\ gc = Resting

\* Rows change; what nobody wants any more may go.
RowsBecome(f, set) ==
  /\ rows' = [rows EXCEPT ![f] = set]
  /\ freed' = IF set \cap Wanting = {} THEN freed \cup {f} ELSE freed

-----------------------------------------------------------------------------
(* Files come, are named by rows and go.                                   *)

\* A download, a generation or an upload is renamed into the directory.
SaveFile(f, what) ==
  /\ stage[f] = "unused"
  /\ kind' = [kind EXCEPT ![f] = what]
  /\ stage' = [stage EXCEPT ![f] = "saved"]
  /\ disk' = disk \cup {f}
  /\ UNCHANGED <<old, rows, freed, gc>>

\* The row comes second, far sooner than the retention time.
RecordFile(f) ==
  /\ stage[f] = "saved"
  /\ stage' = [stage EXCEPT ![f] = "kept"]
  /\ RowsBecome(f, {FirstRow[kind[f]]})
  /\ UNCHANGED <<kind, disk, old, gc>>

\* It cannot be written: an upload takes its file back, unless the process
\* stops; other files stay and nothing names them.
RecordFails(f) ==
  /\ stage[f] = "saved"
  /\ stage' = [stage EXCEPT ![f] = "dropped"]
  /\ disk' \in {disk} \cup IF kind[f] \in {"persona", "library"} THEN {disk \ {f}} ELSE {}
  /\ freed' = freed \cup {f}
  /\ UNCHANGED <<kind, old, rows, gc>>

\* The retention time passes; what is not recorded yet is far younger.
AgeFile(f) ==
  /\ f \in disk \ old /\ stage[f] # "saved"
  /\ old' = old \cup {f}
  /\ UNCHANGED <<kind, stage, disk, rows, freed, gc>>

\* The attachments of a message are kept for messages that refer to them.
Remember(f) ==
  /\ "run" \in rows[f]
  /\ RowsBecome(f, rows[f] \cup {"recent"})
  /\ UNCHANGED <<kind, stage, disk, old, gc>>

Forget(f) ==
  /\ "recent" \in rows[f]
  /\ RowsBecome(f, rows[f] \ {"recent"})
  /\ UNCHANGED <<kind, stage, disk, old, gc>>

\* The terminal transaction: the run is over, and what it made is queued for
\* delivery; a run may also end without that.
EndTask(f, delivers) ==
  /\ rows[f] \cap {"run", "artifact"} # {}
  /\ delivers => "artifact" \in rows[f]
  /\ RowsBecome(f, (rows[f] \ {"run", "artifact"}) \cup IF delivers THEN {"delivery"} ELSE {})
  /\ UNCHANGED <<kind, stage, disk, old, gc>>

\* The delivery was acknowledged, given up or withdrawn.
EndDelivery(f) ==
  /\ "delivery" \in rows[f]
  /\ RowsBecome(f, rows[f] \ {"delivery"})
  /\ UNCHANGED <<kind, stage, disk, old, gc>>

\* A run that is over is tried again with what it had.
RetryWithFile(f) ==
  /\ stage[f] = "kept" /\ kind[f] \in {"inbound", "made"} /\ ~ Wanted(f)
  /\ RowsBecome(f, rows[f] \cup {FirstRow[kind[f]]})
  /\ UNCHANGED <<kind, stage, disk, old, gc>>

\* References are switched off and on, and removed: the row first.
SwitchReference(f) ==
  /\ stage[f] = "kept" /\ kind[f] \in {"persona", "library"}
  /\ RowsBecome(f, IF rows[f] = {} THEN {FirstRow[kind[f]]} ELSE {})
  /\ UNCHANGED <<kind, stage, disk, old, gc>>

DropReference(f) ==
  /\ stage[f] = "kept" /\ kind[f] \in {"persona", "library"}
  /\ RowsBecome(f, {})
  /\ stage' = [stage EXCEPT ![f] = "dropped"]
  /\ UNCHANGED <<kind, disk, old, gc>>

RemoveReference(f) ==
  /\ stage[f] = "dropped" /\ f \in disk /\ kind[f] \in {"persona", "library"}
  /\ disk' = disk \ {f}
  /\ UNCHANGED <<kind, stage, old, rows, freed, gc>>

-----------------------------------------------------------------------------
(* The collector, one at a time.                                           *)

StartScan ==
  /\ gc.phase = "rest"
  /\ gc' = [Resting EXCEPT !.phase = "scan"]
  /\ UNCHANGED <<kind, stage, disk, old, rows, freed>>

ReadTable ==
  /\ gc.phase \in {"scan", "check"} /\ gc.read < Len(ReadOrder)
  /\ gc' = [gc EXCEPT !.read = @ + 1,
              !.named = @ \cup {f \in Files : ReadOrder[gc.read + 1] \in rows[f]}]
  /\ UNCHANGED <<kind, stage, disk, old, rows, freed>>

ListFiles ==
  /\ gc.phase = "scan" /\ gc.read = Len(ReadOrder)
  /\ gc' = [gc EXCEPT !.phase = "list", !.protected = gc.named]
  /\ UNCHANGED <<kind, stage, disk, old, rows, freed>>

\* An old file that nothing named is looked at again; a dry run only counts.
TakeCandidate(f) ==
  /\ gc.phase = "list" /\ f \in disk \cap old /\ f \notin gc.protected
  /\ gc' = [gc EXCEPT !.phase = "check", !.read = 0, !.named = {}, !.file = f]
  /\ UNCHANGED <<kind, stage, disk, old, rows, freed>>

NamesRead == gc.phase = "check" /\ gc.read = Len(ReadOrder)
BackToList == gc' = [gc EXCEPT !.phase = "list", !.named = {}, !.file = "none"]

Collect ==
  /\ NamesRead /\ gc.file \notin gc.named
  /\ disk' = disk \ {gc.file}
  /\ BackToList
  /\ UNCHANGED <<kind, stage, old, rows, freed>>

\* It is named again; the scan goes on with other files.
Spare ==
  /\ NamesRead /\ gc.file \in gc.named
  /\ BackToList
  /\ UNCHANGED <<kind, stage, disk, old, rows, freed>>

\* The directory is done, a query fails or the process stops.
EndScan ==
  /\ gc.phase # "rest"
  /\ gc' = Resting
  /\ UNCHANGED <<kind, stage, disk, old, rows, freed>>

FileStep(f) ==
  \/ \E what \in Kinds : SaveFile(f, what)
  \/ RecordFile(f) \/ RecordFails(f) \/ AgeFile(f)
  \/ Remember(f) \/ Forget(f) \/ EndDelivery(f) \/ RetryWithFile(f)
  \/ \E delivers \in BOOLEAN : EndTask(f, delivers)
  \/ SwitchReference(f) \/ DropReference(f) \/ RemoveReference(f)
  \/ TakeCandidate(f)

FilesNext ==
  \/ \E f \in Files : FileStep(f)
  \/ StartScan \/ ReadTable \/ ListFiles \/ Collect \/ Spare \/ EndScan

FilesSpec == FilesInit /\ [][FilesNext]_filesVars

-----------------------------------------------------------------------------
(* Properties.                                                             *)

\* A file that a queued or running task, a pending delivery or an enabled
\* reference of a persona has named all the time, one after the other, is in
\* the directory however the collector interleaves with the transactions that
\* hand it on, and with uploads and removals that fail half-way.  References of
\* appearance libraries are left out: the collector does not read their table.
WantedFilesStay ==
  \A f \in Files : Wanted(f) /\ "library" \notin rows[f] /\ f \notin freed => f \in disk
=============================================================================
