----------------------------- MODULE BookFiles -----------------------------
(***************************************************************************)
(* The files of a book, uploaded sources and exports, and the rows of      *)
(* stored_artifact that register them (backend/app/storage.py,             *)
(* api/projects.py, api/artifacts.py).                                     *)
(*                                                                         *)
(* The row of a file is committed before the file is written; the file is  *)
(* written under another name and renamed.  Uploads and deletions are      *)
(* coroutines: what they do between two awaits is not interleaved with     *)
(* another coroutine.  An export runs in a thread and is interleaved with  *)
(* everything.  The process may be killed between any two steps; nothing   *)
(* repairs files or rows at the next start.                                *)
(***************************************************************************)
EXTENDS Integers

CONSTANTS
    Projects,       \* ids of projects; never used twice
    Files,          \* object keys; each has one row and one place on the disk
    NoProject,      \* NULL
    MaxDeletions,   \* bound: requests to delete a project
    MaxFaults,      \* bound: file operations that fail
    MaxCrashes      \* bound: crashes of the server

ASSUME NoProjectAssumption == NoProject \notin Projects

VARIABLES
    artifact,   \* the rows of stored_artifact
    disk,       \* what is on the disk for each key: "part", "file"
    projects,   \* the rows of project
    writer,     \* the request that makes each file
    deletion,   \* the request that deletes a project
    used,       \* ids of projects given out
    deletions, faults, crashes,
    overlapped, \* (history) exports that ran while their project was being deleted
    abandoned   \* (history) files whose request was killed or could not clean up

fileVars == <<artifact, disk, projects, writer, deletion, used, deletions, faults, crashes,
              overlapped, abandoned>>

-----------------------------------------------------------------------------
NoArtifact == [kind |-> "none", status |-> "none", project |-> NoProject]
NoWriter == [at |-> "none", project |-> NoProject]
NoDeletion == [at |-> "none", project |-> NoProject, left |-> {}, found |-> {}]

Registered(f) == artifact[f].status # "none"
Sets(f, status) == artifact' = [artifact EXCEPT ![f].status = status]
MovesTo(f, at) == writer' = [writer EXCEPT ![f].at = at]
Returns(f) == writer' = [writer EXCEPT ![f] = NoWriter]

\* An upload whose request has gone on after upload.close() does not give up the event
\* loop until the book is parsed.
HoldsLoop(f) == writer[f].at \in {"ready", "unlinked"}
LoopIsFree(f) == deletion = NoDeletion /\ \A g \in Files \ {f} : ~HoldsLoop(g)

Being(f, kind) == artifact[f].kind = kind /\ writer[f].at # "none"

Fault == faults < MaxFaults /\ faults' = faults + 1

-----------------------------------------------------------------------------
(* create_project() *)

NewKey(f) == ~Registered(f) /\ disk[f] = {} /\ writer[f] = NoWriter /\ f \notin overlapped

Upload(f) ==
    /\ NewKey(f) /\ LoopIsFree(f)
    /\ artifact' = [artifact EXCEPT ![f] = [NoArtifact EXCEPT !.kind = "source", !.status = "pending"]]
    /\ MovesTo(f, "reserved")
    /\ UNCHANGED <<disk, projects, deletion, used, deletions, faults, crashes, overlapped, abandoned>>

Receives(f) ==
    /\ writer[f].at = "reserved" /\ artifact[f].kind = "source" /\ LoopIsFree(f)
    /\ disk' = [disk EXCEPT ![f] = {"part"}]
    /\ MovesTo(f, "writing")
    /\ UNCHANGED <<artifact, projects, deletion, used, deletions, faults, crashes, overlapped, abandoned>>

\* os.replace(part, final); then upload.close() is awaited.
Received(f) ==
    /\ Being(f, "source") /\ writer[f].at = "writing" /\ LoopIsFree(f)
    /\ disk' = [disk EXCEPT ![f] = {"file"}]
    /\ MovesTo(f, "uploaded")
    /\ UNCHANGED <<artifact, projects, deletion, used, deletions, faults, crashes, overlapped, abandoned>>

\* Too large, or an I/O error: the row says "error", and the part is removed unless
\* that fails, too.
UploadFails(f) ==
    /\ Being(f, "source") /\ writer[f].at \in {"reserved", "writing"} /\ LoopIsFree(f)
    /\ Sets(f, "error")
    /\ Returns(f)
    /\ \/ disk' = [disk EXCEPT ![f] = {}] /\ UNCHANGED <<faults, abandoned>>
       \/ Fault /\ abandoned' = abandoned \cup {f} /\ UNCHANGED disk
    /\ UNCHANGED <<projects, deletion, used, deletions, crashes, overlapped>>

\* Not a readable EPUB: the file is removed.  A StorageError is only logged; any other
\* error of the removal ends the request and leaves the row "pending".
Rejected(f) ==
    /\ writer[f].at = "uploaded" /\ LoopIsFree(f)
    /\ Returns(f)
    /\ \/ disk' = [disk EXCEPT ![f] = {}] /\ Sets(f, "error") /\ UNCHANGED <<faults, abandoned>>
       \/ /\ Fault /\ abandoned' = abandoned \cup {f} /\ UNCHANGED disk
          /\ Sets(f, "error") \/ UNCHANGED artifact
    /\ UNCHANGED <<projects, deletion, used, deletions, crashes, overlapped>>

\* A fault: the row is "ready" as soon as it is there.
StoredAtOnce(f) ==
    /\ writer[f].at \in {"reserved", "uploaded"} /\ artifact[f].kind = "source" /\ LoopIsFree(f)
    /\ Sets(f, "ready")
    /\ IF writer[f].at = "uploaded" THEN MovesTo(f, "ready") ELSE UNCHANGED writer
    /\ UNCHANGED <<disk, projects, deletion, used, deletions, faults, crashes, overlapped, abandoned>>

Stored(f) ==
    /\ writer[f].at = "uploaded" /\ LoopIsFree(f)
    /\ Sets(f, "ready")
    /\ MovesTo(f, "ready")
    /\ UNCHANGED <<disk, projects, deletion, used, deletions, faults, crashes, overlapped, abandoned>>

NewProject(f, p) ==
    /\ writer[f].at = "ready" /\ p \notin used
    /\ used' = used \cup {p}
    /\ projects' = projects \cup {p}
    /\ writer' = [writer EXCEPT ![f] = [at |-> "unlinked", project |-> p]]
    /\ UNCHANGED <<artifact, disk, deletion, deletions, faults, crashes, overlapped, abandoned>>

\* A fault: the artifact is never told its project.
NeverLinks(f) ==
    /\ writer[f].at = "unlinked"
    /\ Returns(f)
    /\ UNCHANGED <<artifact, disk, projects, deletion, used, deletions, faults, crashes, overlapped,
                   abandoned>>

\* Then the book is parsed, which does not touch its file.
Links(f) ==
    /\ writer[f].at = "unlinked"
    /\ artifact' = [artifact EXCEPT ![f].project = writer[f].project]
    /\ Returns(f)
    /\ UNCHANGED <<disk, projects, deletion, used, deletions, faults, crashes, overlapped, abandoned>>

-----------------------------------------------------------------------------
(* export_project() *)

Deleting(p) == deletion.at # "none" /\ deletion.project = p

Export(f, p) ==
    /\ NewKey(f) /\ p \in projects
    /\ artifact' = [artifact EXCEPT ![f] = [kind |-> "export", status |-> "pending", project |-> p]]
    /\ writer' = [writer EXCEPT ![f] = [at |-> "reserved", project |-> p]]
    /\ overlapped' = IF Deleting(p) THEN overlapped \cup {f} ELSE overlapped
    /\ UNCHANGED <<disk, projects, deletion, used, deletions, faults, crashes, abandoned>>

Exporting(f) == writer[f].at # "none" /\ artifact[f].kind # "source"

WritesPart(f) ==
    /\ Exporting(f) /\ writer[f].at = "reserved"
    /\ disk' = [disk EXCEPT ![f] = {"part"}]
    /\ MovesTo(f, "writing")
    /\ UNCHANGED <<artifact, projects, deletion, used, deletions, faults, crashes, overlapped, abandoned>>

\* publish_generated(): the part must still be there.
Publishes(f) ==
    /\ Exporting(f) /\ writer[f].at = "writing" /\ "part" \in disk[f]
    /\ disk' = [disk EXCEPT ![f] = {"file"}]
    /\ MovesTo(f, "published")
    /\ UNCHANGED <<artifact, projects, deletion, used, deletions, faults, crashes, overlapped, abandoned>>

\* The UPDATE of a row that a deletion has taken away fails, and so does the request.
Exported(f) ==
    /\ Exporting(f) /\ writer[f].at = "published"
    /\ IF Registered(f) THEN Sets(f, "ready") ELSE UNCHANGED artifact
    /\ Returns(f)
    /\ UNCHANGED <<disk, projects, deletion, used, deletions, faults, crashes, overlapped, abandoned>>

SaysError(f) == IF Registered(f) THEN Sets(f, "error") ELSE UNCHANGED artifact

\* discard_part(); a StorageError is only logged, any other error leaves the row "pending".
ExportFails(f) ==
    /\ Exporting(f) /\ writer[f].at \in {"reserved", "writing"}
    /\ Returns(f)
    /\ \/ disk' = [disk EXCEPT ![f] = @ \ {"part"}] /\ SaysError(f) /\ UNCHANGED faults
       \/ Fault /\ UNCHANGED disk /\ (SaysError(f) \/ UNCHANGED artifact)
    /\ UNCHANGED <<projects, deletion, used, deletions, crashes, overlapped, abandoned>>

-----------------------------------------------------------------------------
(* delete_project() *)

Of(p) == {f \in Files : artifact[f].project = p}

MarksAll(p, status) ==
    artifact' = [f \in Files |-> IF f \in Of(p) THEN [artifact[f] EXCEPT !.status = status]
                                 ELSE artifact[f]]

Delete(p) ==
    /\ p \in projects /\ deletions < MaxDeletions
    /\ deletion = NoDeletion /\ \A f \in Files : ~HoldsLoop(f)
    /\ deletions' = deletions + 1
    /\ MarksAll(p, "deleting")
    /\ deletion' = [at |-> "files", project |-> p, left |-> Of(p), found |-> Of(p)]
    /\ overlapped' = overlapped \cup {f \in Files : writer[f].at # "none" /\ writer[f].project = p}
    /\ UNCHANGED <<disk, projects, writer, used, faults, crashes, abandoned>>

\* delete_object() removes the file and the part, if they are there.
Removes(f) ==
    /\ deletion.at = "files" /\ f \in deletion.left
    /\ disk' = [disk EXCEPT ![f] = {}]
    /\ deletion' = [deletion EXCEPT !.left = @ \ {f}]
    /\ UNCHANGED <<artifact, projects, writer, used, deletions, faults, crashes, overlapped, abandoned>>

\* The rows the request has seen; those it has finished are "deleted".
Finished(status, f) ==
    [g \in Files |->
        IF ~Registered(g) THEN artifact[g]
        ELSE IF g = f THEN [artifact[g] EXCEPT !.status = status]
        ELSE IF g \in deletion.found \ deletion.left THEN [artifact[g] EXCEPT !.status = "deleted"]
        ELSE artifact[g]]

\* The file cannot be removed: the request ends, the project stays.
RemovalFails(f) ==
    /\ deletion.at = "files" /\ f \in deletion.left
    /\ Fault
    /\ artifact' = Finished("error", f)
    /\ deletion' = NoDeletion
    /\ UNCHANGED <<disk, projects, writer, used, deletions, crashes, overlapped, abandoned>>

FilesRemoved ==
    /\ deletion.at = "files" /\ deletion.left = {}
    /\ artifact' = [g \in Files |-> IF g \in deletion.found /\ Registered(g)
                                    THEN [artifact[g] EXCEPT !.status = "deleted"] ELSE artifact[g]]
    /\ deletion' = [deletion EXCEPT !.at = "project"]
    /\ UNCHANGED <<disk, projects, writer, used, deletions, faults, crashes, overlapped, abandoned>>

\* A fault: without the foreign keys the rows stay.
ProjectDeletedAlone ==
    /\ deletion.at = "project"
    /\ projects' = projects \ {deletion.project}
    /\ deletion' = NoDeletion
    /\ UNCHANGED <<artifact, disk, writer, used, deletions, faults, crashes, overlapped, abandoned>>

\* ON DELETE CASCADE takes all rows of the project.
ProjectDeleted ==
    /\ deletion.at = "project"
    /\ projects' = projects \ {deletion.project}
    /\ artifact' = [f \in Files |-> IF f \in Of(deletion.project) THEN NoArtifact ELSE artifact[f]]
    /\ deletion' = NoDeletion
    /\ UNCHANGED <<disk, writer, used, deletions, faults, crashes, overlapped, abandoned>>

Crash ==
    /\ crashes < MaxCrashes
    /\ crashes' = crashes + 1
    /\ writer' = [f \in Files |-> NoWriter]
    /\ deletion' = NoDeletion
    /\ abandoned' = abandoned \cup {f \in Files : writer[f].at # "none"}
    /\ UNCHANGED <<artifact, disk, projects, used, deletions, faults, overlapped>>

-----------------------------------------------------------------------------
FilesInit ==
    /\ artifact = [f \in Files |-> NoArtifact]
    /\ disk = [f \in Files |-> {}]
    /\ projects = {} /\ used = {}
    /\ writer = [f \in Files |-> NoWriter]
    /\ deletion = NoDeletion
    /\ deletions = 0 /\ faults = 0 /\ crashes = 0
    /\ overlapped = {} /\ abandoned = {}

FilesNext ==
    \/ \E f \in Files :
         \/ Upload(f) \/ Receives(f) \/ Received(f) \/ UploadFails(f) \/ Rejected(f) \/ Stored(f)
         \/ Links(f) \/ WritesPart(f) \/ Publishes(f) \/ Exported(f) \/ ExportFails(f)
         \/ Removes(f) \/ RemovalFails(f)
         \/ \E p \in Projects : NewProject(f, p) \/ Export(f, p)
    \/ \E p \in Projects : Delete(p)
    \/ FilesRemoved \/ ProjectDeleted \/ Crash

FilesSpec == FilesInit /\ [][FilesNext]_fileVars

-----------------------------------------------------------------------------
(* Properties *)

Artifacts == [kind : {"none", "source", "export"},
              status : {"none", "pending", "ready", "deleting", "deleted", "error"},
              project : Projects \cup {NoProject}]
Writers == [at : {"none", "reserved", "writing", "uploaded", "ready", "unlinked", "published"},
            project : Projects \cup {NoProject}]
Deletions == [at : {"none", "files", "project"}, project : Projects \cup {NoProject},
              left : SUBSET Files, found : SUBSET Files]

FilesTypeOK ==
    /\ artifact \in [Files -> Artifacts]
    /\ disk \in [Files -> {{}, {"part"}, {"file"}}]
    /\ projects \subseteq used /\ used \subseteq Projects
    /\ writer \in [Files -> Writers]
    /\ deletion \in Deletions
    /\ overlapped \subseteq Files /\ abandoned \subseteq Files

\* Files and rows agree wherever a request fails or the server is killed: nothing
\* is on the disk that no row tells of, for the row comes first and goes last; and
\* what a row calls ready can be downloaded. Only an export that runs while its
\* project is being deleted may leave a file without a row, or a ready row without
\* a file, for ever (projects.py 144-205, 333-382, 546-582; artifacts.py 29-53).
FilesMatchRows ==
    \A f \in Files \ overlapped :
        /\ disk[f] # {} => Registered(f)
        /\ artifact[f].status = "ready" => disk[f] = {"file"}

\* Deleting its project removes every file sooner or later, also after a deletion
\* that failed: while nobody works on it, a file is one of an existing project,
\* unless its request was killed or could not remove a failed or rejected upload
\* (projects.py 168-193, 227-230, 343-377).
FilesAreReachable ==
    \A f \in Files \ (overlapped \cup abandoned) :
        disk[f] # {} /\ writer[f].at = "none" => artifact[f].project \in projects

-----------------------------------------------------------------------------
(* What the safety properties rest on *)

\* What a request has on the disk after each of its steps.
OnDisk(at) == IF at = "reserved" THEN {} ELSE IF at = "writing" THEN {"part"} ELSE {"file"}

\* An upload is of no project until its last step; an export is of one that
\* nobody deletes.
Uploading(f) ==
    /\ artifact[f].kind = "source" /\ artifact[f].project = NoProject
    /\ \/ writer[f].at \in {"reserved", "writing", "uploaded"} /\ artifact[f].status = "pending"
       \/ writer[f].at \in {"ready", "unlinked"} /\ artifact[f].status = "ready"

ExportingUndisturbed(f) ==
    /\ artifact[f].kind = "export" /\ artifact[f].status = "pending"
    /\ writer[f].at \in {"reserved", "writing", "published"}
    /\ artifact[f].project # NoProject /\ writer[f].project = artifact[f].project
    /\ ~Deleting(artifact[f].project)

\* The deletion has found the file, and removes it.
Doomed(f) ==
    /\ writer[f].at = "none"
    /\ artifact[f].status \in {"deleting", "deleted"}
    /\ artifact[f].project = deletion.project
    /\ f \notin deletion.left => disk[f] = {}

FileInOrder(f) ==
    /\ ~Registered(f) => artifact[f] = NoArtifact /\ disk[f] = {} /\ writer[f].at = "none"
    /\ writer[f].at # "none" =>
          disk[f] = OnDisk(writer[f].at) /\ (Uploading(f) \/ ExportingUndisturbed(f))
    /\ writer[f].at = "none" /\ artifact[f].status = "ready" => disk[f] = {"file"}
    /\ f \in deletion.found => Doomed(f)
    /\ Deleting(artifact[f].project) => f \in deletion.found
    /\ writer[f].at = "none" /\ disk[f] # {} /\ f \notin abandoned => artifact[f].project # NoProject

\* Every row is of an existing project or of none; an upload keeps deletions away.
ProjectsInOrder ==
    /\ \A f \in Files :
          /\ artifact[f].project \in projects \cup {NoProject}
          /\ HoldsLoop(f) => deletion = NoDeletion
          /\ writer[f].at = "unlinked" => writer[f].project \in projects
          /\ writer[f].at = "none" => writer[f] = NoWriter
    /\ deletion.at = "none" => deletion = NoDeletion
    /\ deletion.at # "none" => deletion.project \in projects
    /\ deletion.left \subseteq deletion.found
    /\ deletion.at = "project" => deletion.left = {}

FilesInductive == FilesTypeOK /\ ProjectsInOrder /\ \A f \in Files \ overlapped : FileInOrder(f)
=============================================================================
