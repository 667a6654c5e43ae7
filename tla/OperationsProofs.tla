--------------------------- MODULE OperationsProofs ---------------------------
(***************************************************************************)
(* Theorems about BookFiles, for every number of books and files, of       *)
(* faults, crashes and deletions; and about what is done to a text around  *)
(* its call, for every length of a block and of a part (Segmentation),     *)
(* every size of the texts and of the budget (ContextWindow), and every    *)
(* number, kind and nesting of constructs (Protection).                    *)
(*                                                                         *)
(* What makes those about the files true is what every request and every   *)
(* deletion has still to do, and in which order: the file is there before  *)
(* the row says so, and the row says that it goes before it is gone.  A    *)
(* block is cut well because the cursor is never inside a span.  A context *)
(* is the best one because whatever fits still does without some of it.  A *)
(* text is protected because a pass leaves nothing it could have found.    *)
(*                                                                         *)
(* The library's theorems by induction take an operator, which no prover   *)
(* here can instantiate; where a fact holds for all numbers up to a bound, *)
(* the least number for which it does not is led to a contradiction.       *)
(***************************************************************************)
EXTENDS ReleaseProofs, MCOperations, FiniteSetTheorems,
        SequenceTheorems, WellFoundedInduction, TLAPS

-----------------------------------------------------------------------------
(* The files of books: what the steps do to rows, files and requests *)

Statuses == {"none", "pending", "ready", "deleting", "deleted", "error"}
Disks == [Files -> {{}, {"part"}, {"file"}}]

LEMMA RowFields ==
  ASSUME NEW a \in Artifacts, NEW status \in Statuses
  PROVE  LET b == [a EXCEPT !.status = status] IN
         b \in Artifacts /\ b.status = status /\ b.kind = a.kind /\ b.project = a.project
  BY DEF Artifacts, Statuses

LEMMA SetsRow ==
  ASSUME artifact \in [Files -> Artifacts], NEW f \in Files, NEW status \in Statuses,
         Sets(f, status)
  PROVE  /\ artifact' \in [Files -> Artifacts]
         /\ artifact'[f].status = status /\ artifact'[f].kind = artifact[f].kind
         /\ artifact'[f].project = artifact[f].project
         /\ \A g \in Files \ {f} : artifact'[g] = artifact[g]
  <1>1. artifact' = [artifact EXCEPT ![f] = [artifact[f] EXCEPT !.status = status]]
    BY DEF Sets
  <1>2. PICK b \in Artifacts : b = [artifact[f] EXCEPT !.status = status] BY RowFields
  <1>3. artifact' = [artifact EXCEPT ![f] = b] BY <1>1, <1>2
  <1>4. b.status = status /\ b.kind = artifact[f].kind /\ b.project = artifact[f].project
    BY <1>2, RowFields
  <1> QED BY <1>3, <1>4

LEMMA MovesWriter ==
  ASSUME writer \in [Files -> Writers], NEW f \in Files,
         NEW stage \in {"reserved", "writing", "uploaded", "ready", "unlinked", "published"},
         MovesTo(f, stage)
  PROVE  /\ writer' \in [Files -> Writers]
         /\ writer'[f].at = stage /\ writer'[f].project = writer[f].project
         /\ \A g \in Files \ {f} : writer'[g] = writer[g]
  <1>1. PICK w : w = [writer[f] EXCEPT !.at = stage] OBVIOUS
  <1>2. w \in Writers /\ w.at = stage /\ w.project = writer[f].project BY <1>1 DEF Writers
  <1>3. writer' = [writer EXCEPT ![f] = w] BY <1>1 DEF MovesTo
  <1> QED BY <1>2, <1>3

LEMMA ReturnsWriter ==
  ASSUME writer \in [Files -> Writers], NEW f \in Files, Returns(f)
  PROVE  /\ writer' \in [Files -> Writers]
         /\ writer'[f] = NoWriter /\ writer'[f].at = "none"
         /\ \A g \in Files \ {f} : writer'[g] = writer[g]
  BY DEF Returns, NoWriter, Writers

LEMMA DiskBecomes ==
  ASSUME disk \in Disks, NEW f \in Files, NEW d \in {{}, {"part"}, {"file"}},
         disk' = [disk EXCEPT ![f] = d]
  PROVE  disk' \in Disks /\ disk'[f] = d /\ \A g \in Files \ {f} : disk'[g] = disk[g]
  BY DEF Disks

-----------------------------------------------------------------------------
(* The files of books: a file stays in order *)

LEMMA NobodyDeletes ==
  ASSUME FilesInductive
  PROVE  ~Deleting(NoProject)
  BY NoProjectAssumption DEF FilesInductive, FilesTypeOK, ProjectsInOrder, Deleting

\* Nothing happened to the file.
LEMMA FileKept ==
  ASSUME FilesInductive, NEW g \in Files, g \notin overlapped,
         artifact'[g] = artifact[g], disk'[g] = disk[g], writer'[g] = writer[g],
         deletion' = deletion, abandoned \subseteq abandoned'
  PROVE  FileInOrder(g)'
  <1>1. FileInOrder(g) BY DEF FilesInductive
  <1> QED BY <1>1 DEF FileInOrder, Registered, Uploading, ExportingUndisturbed, Doomed, Deleting

\* A file is being uploaded.
LEMMA InOrderUploading ==
  ASSUME FilesInductive, NEW f \in Files, Uploading(f)', disk'[f] = OnDisk(writer'[f].at),
         deletion' = deletion, f \notin deletion.found
  PROVE  FileInOrder(f)'
  <1>1. /\ writer'[f].at # "none" /\ artifact'[f].status \in {"pending", "ready"}
        /\ artifact'[f].project = NoProject
    BY DEF Uploading
  <1>2. ~(deletion.at # "none" /\ deletion.project = NoProject) BY NobodyDeletes DEF Deleting
  <1> QED BY <1>1, <1>2 DEF FileInOrder, Registered, Deleting

LEMMA InOrderExporting ==
  ASSUME NEW f \in Files, ExportingUndisturbed(f)', disk'[f] = OnDisk(writer'[f].at),
         deletion' = deletion, f \notin deletion.found
  PROVE  FileInOrder(f)'
  BY DEF FileInOrder, Registered, ExportingUndisturbed, Deleting

LEMMA InOrderIdle ==
  ASSUME NEW f \in Files, writer'[f].at = "none", artifact'[f].status # "none",
         artifact'[f].status = "ready" => disk'[f] = {"file"},
         disk'[f] # {} => f \in abandoned' \/ artifact'[f].project # NoProject,
         deletion' = deletion, f \notin deletion.found, ~Deleting(artifact'[f].project)
  PROVE  FileInOrder(f)'
  BY DEF FileInOrder, Registered, Deleting

\* What is known of a file somebody works on.
LEMMA UploadKnown ==
  ASSUME FilesInductive, NEW f \in Files, f \notin overlapped, writer[f].at # "none",
         artifact[f].kind # "export"
  PROVE  /\ Uploading(f) /\ disk[f] = OnDisk(writer[f].at) /\ f \notin deletion.found
         /\ ~Deleting(artifact[f].project)
  <1>1. FileInOrder(f) BY DEF FilesInductive
  <1>2. Uploading(f) BY <1>1 DEF FileInOrder, ExportingUndisturbed
  <1> QED BY <1>1, <1>2, NobodyDeletes DEF FileInOrder, Doomed, Uploading

LEMMA ExportKnown ==
  ASSUME FilesInductive, NEW f \in Files, f \notin overlapped, Exporting(f)
  PROVE  /\ ExportingUndisturbed(f) /\ disk[f] = OnDisk(writer[f].at)
         /\ f \notin deletion.found /\ Registered(f)
  <1>1. FileInOrder(f) BY DEF FilesInductive
  <1>2. ExportingUndisturbed(f) BY <1>1 DEF FileInOrder, Uploading, Exporting
  <1> QED BY <1>1, <1>2 DEF FileInOrder, Doomed, Exporting, ExportingUndisturbed, Registered

\* A step that concerns one file only.
LEMMA OneFileStep ==
  ASSUME FilesInductive, NEW f \in Files,
         artifact' \in [Files -> Artifacts], disk' \in Disks, writer' \in [Files -> Writers],
         \A g \in Files \ {f} : /\ artifact'[g] = artifact[g] /\ disk'[g] = disk[g]
                                /\ writer'[g] = writer[g],
         deletion' = deletion,
         projects \subseteq projects', projects' \subseteq used', used' \subseteq Projects,
         overlapped \subseteq overlapped', overlapped' \subseteq Files,
         abandoned \subseteq abandoned', abandoned' \subseteq Files,
         artifact'[f].project \in projects' \cup {NoProject},
         writer'[f].at \in {"ready", "unlinked"} => deletion = NoDeletion,
         writer'[f].at = "unlinked" => writer'[f].project \in projects',
         writer'[f].at = "none" => writer'[f] = NoWriter,
         f \notin overlapped' => FileInOrder(f)'
  PROVE  FilesInductive'
  <1>1. FilesTypeOK' BY DEF FilesInductive, FilesTypeOK, Disks
  <1>2. ProjectsInOrder'
    <2>1. /\ deletion'.at = "none" => deletion' = NoDeletion
          /\ deletion'.at # "none" => deletion'.project \in projects'
          /\ deletion'.left \subseteq deletion'.found
          /\ deletion'.at = "project" => deletion'.left = {}
      BY DEF FilesInductive, ProjectsInOrder
    <2>2. ASSUME NEW g \in Files
          PROVE  /\ artifact'[g].project \in projects' \cup {NoProject}
                 /\ HoldsLoop(g)' => deletion' = NoDeletion
                 /\ writer'[g].at = "unlinked" => writer'[g].project \in projects'
                 /\ writer'[g].at = "none" => writer'[g] = NoWriter
      BY DEF FilesInductive, ProjectsInOrder, HoldsLoop
    <2> QED BY <2>1, <2>2 DEF ProjectsInOrder
  <1>3. ASSUME NEW g \in Files \ overlapped' PROVE FileInOrder(g)'
    <2>1. g \notin overlapped OBVIOUS
    <2> QED BY <2>1, FileKept
  <1> QED BY <1>1, <1>2, <1>3 DEF FilesInductive

-----------------------------------------------------------------------------
(* The files of books: uploads and exports, step by step *)

LEMMA TypeFacts ==
  ASSUME FilesInductive
  PROVE  /\ artifact \in [Files -> Artifacts] /\ disk \in Disks /\ writer \in [Files -> Writers]
         /\ projects \subseteq used /\ used \subseteq Projects
         /\ overlapped \subseteq Files /\ abandoned \subseteq Files
         /\ \A f \in Files : /\ artifact[f].project \in projects \cup {NoProject}
                             /\ disk[f] \in {{}, {"part"}, {"file"}}
         /\ deletion.left \subseteq deletion.found
         /\ NoDeletion.found = {} /\ NoDeletion.at = "none"
         /\ deletion.at = "none" => deletion = NoDeletion
  BY DEF FilesInductive, FilesTypeOK, ProjectsInOrder, Disks, NoDeletion

LEMMA UploadStep ==
  ASSUME FilesInductive, NEW f \in Files, Upload(f)
  PROVE  FilesInductive'
  <1>1. /\ NewKey(f) /\ deletion = NoDeletion /\ MovesTo(f, "reserved")
        /\ artifact' = [artifact EXCEPT ![f] = [NoArtifact EXCEPT !.kind = "source",
                                                                !.status = "pending"]]
        /\ UNCHANGED <<disk, projects, deletion, used, overlapped, abandoned>>
    BY DEF Upload, LoopIsFree
  <1>2. PICK a \in Artifacts : a = [NoArtifact EXCEPT !.kind = "source", !.status = "pending"]
    BY DEF NoArtifact, Artifacts
  <1>3. a.kind = "source" /\ a.status = "pending" /\ a.project = NoProject
    BY <1>2 DEF NoArtifact
  <1>4. /\ artifact' \in [Files -> Artifacts] /\ artifact'[f] = a
        /\ \A g \in Files \ {f} : artifact'[g] = artifact[g]
    BY <1>1, <1>2, TypeFacts
  <1>5. /\ writer' \in [Files -> Writers] /\ writer'[f].at = "reserved"
        /\ \A g \in Files \ {f} : writer'[g] = writer[g]
    BY <1>1, TypeFacts, MovesWriter
  <1>6. Uploading(f)' BY <1>3, <1>4, <1>5 DEF Uploading
  <1>7. disk'[f] = OnDisk(writer'[f].at) BY <1>1, <1>5 DEF OnDisk, NewKey
  <1>8. FileInOrder(f)' BY <1>1, <1>6, <1>7, TypeFacts, InOrderUploading
  <1> QED BY <1>1, <1>3, <1>4, <1>5, <1>8, TypeFacts, OneFileStep

\* The steps of an upload that only write, while the row says "pending".
LEMMA ReceiveSteps ==
  ASSUME FilesInductive, NEW f \in Files, Receives(f) \/ Received(f)
  PROVE  FilesInductive'
  <1>1. /\ deletion = NoDeletion /\ writer[f].at # "none" /\ artifact[f].kind = "source"
        /\ writer[f].at \in {"reserved", "writing"}
        /\ UNCHANGED <<artifact, projects, deletion, used, overlapped, abandoned>>
    BY DEF Receives, Received, Being, LoopIsFree
  <1>2. PICK stage \in {"writing", "uploaded"} :
           /\ MovesTo(f, stage)
           /\ disk' = [disk EXCEPT ![f] = OnDisk(stage)]
    BY DEF Receives, Received, OnDisk
  <1>3. /\ writer' \in [Files -> Writers] /\ writer'[f].at = stage
        /\ \A g \in Files \ {f} : writer'[g] = writer[g]
    BY <1>2, TypeFacts, MovesWriter
  <1>4. OnDisk(stage) \in {{}, {"part"}, {"file"}} BY DEF OnDisk
  <1>5. disk' \in Disks /\ disk'[f] = OnDisk(stage) /\ \A g \in Files \ {f} : disk'[g] = disk[g]
    BY <1>2, <1>4, TypeFacts, DiskBecomes
  <1>6. ASSUME f \notin overlapped PROVE FileInOrder(f)'
    <2>1. Uploading(f) /\ f \notin deletion.found BY <1>1, <1>6, UploadKnown
    <2>2. Uploading(f)' BY <1>1, <1>3, <2>1 DEF Uploading
    <2> QED BY <1>1, <1>3, <1>5, <2>1, <2>2, InOrderUploading
  <1> QED BY <1>1, <1>3, <1>5, <1>6, TypeFacts, OneFileStep

LEMMA UploadEnds ==
  ASSUME FilesInductive, NEW f \in Files, UploadFails(f) \/ Rejected(f)
  PROVE  FilesInductive'
  <1>1. /\ Sets(f, "error") \/ UNCHANGED artifact
        /\ UploadFails(f) => Sets(f, "error")
        /\ Returns(f)
        /\ disk' = [disk EXCEPT ![f] = {}] \/ (disk' = disk /\ abandoned' = abandoned \cup {f})
        /\ abandoned' \in {abandoned, abandoned \cup {f}}
        /\ UNCHANGED <<projects, deletion, used, overlapped>>
    BY DEF UploadFails, Rejected
  <1>2. writer[f].at # "none" /\ (f \notin overlapped => artifact[f].kind # "export")
    <2>1. CASE UploadFails(f) BY <2>1 DEF UploadFails, Being
    <2>2. CASE Rejected(f)
      <3>1. f \notin overlapped => FileInOrder(f) BY DEF FilesInductive
      <3> QED BY <2>2, <3>1 DEF Rejected, FileInOrder, Uploading, ExportingUndisturbed
    <2> QED BY <2>1, <2>2
  <1>3. /\ artifact' \in [Files -> Artifacts]
        /\ artifact'[f].status = "error" \/ artifact'[f] = artifact[f]
        /\ artifact'[f].project = artifact[f].project
        /\ \A g \in Files \ {f} : artifact'[g] = artifact[g]
    <2>1. CASE Sets(f, "error") BY <2>1, TypeFacts, SetsRow DEF Statuses
    <2>2. CASE UNCHANGED artifact BY <2>2, TypeFacts
    <2> QED BY <1>1, <2>1, <2>2
  <1>4. /\ writer' \in [Files -> Writers] /\ writer'[f] = NoWriter /\ writer'[f].at = "none"
        /\ \A g \in Files \ {f} : writer'[g] = writer[g]
    BY <1>1, TypeFacts, ReturnsWriter
  <1>5. /\ disk' \in Disks /\ \A g \in Files \ {f} : disk'[g] = disk[g]
        /\ disk'[f] # {} => f \in abandoned'
    BY <1>1, TypeFacts, DiskBecomes
  <1>6. ASSUME f \notin overlapped PROVE FileInOrder(f)'
    <2>1. f \notin deletion.found /\ ~Deleting(artifact[f].project) /\ Uploading(f)
      BY <1>2, <1>6, UploadKnown
    <2>2. artifact'[f].status \in {"error", "pending"}
      <3>1. CASE artifact'[f].status = "error" BY <3>1
      <3>2. CASE artifact'[f] = artifact[f] /\ ~Sets(f, "error")
        <4>1. writer[f].at = "uploaded" BY <1>1, <3>2 DEF Rejected
        <4> QED BY <2>1, <3>2, <4>1 DEF Uploading
      <3>3. CASE Sets(f, "error") BY <3>3, TypeFacts, SetsRow DEF Statuses
      <3> QED BY <1>3, <3>1, <3>2, <3>3
    <2> QED BY <1>1, <1>3, <1>4, <1>5, <2>1, <2>2, InOrderIdle
  <1> QED BY <1>1, <1>3, <1>4, <1>5, <1>6, TypeFacts, OneFileStep

LEMMA StoredStep ==
  ASSUME FilesInductive, NEW f \in Files, Stored(f)
  PROVE  FilesInductive'
  <1>1. /\ writer[f].at = "uploaded" /\ Sets(f, "ready") /\ MovesTo(f, "ready")
        /\ deletion = NoDeletion
        /\ UNCHANGED <<disk, projects, deletion, used, overlapped, abandoned>>
    BY DEF Stored, LoopIsFree
  <1>2. deletion = NoDeletion BY <1>1
  <1>3. /\ artifact' \in [Files -> Artifacts] /\ artifact'[f].status = "ready"
        /\ artifact'[f].kind = artifact[f].kind /\ artifact'[f].project = artifact[f].project
        /\ \A g \in Files \ {f} : artifact'[g] = artifact[g]
    BY <1>1, TypeFacts, SetsRow DEF Statuses
  <1>4. /\ writer' \in [Files -> Writers] /\ writer'[f].at = "ready"
        /\ \A g \in Files \ {f} : writer'[g] = writer[g]
    BY <1>1, TypeFacts, MovesWriter
  <1>5. ASSUME f \notin overlapped PROVE FileInOrder(f)'
    <2>1. FileInOrder(f) BY <1>5 DEF FilesInductive
    <2>2. Uploading(f) /\ disk[f] = {"file"} /\ f \notin deletion.found
      BY <1>1, <2>1 DEF FileInOrder, ExportingUndisturbed, OnDisk, Doomed
    <2>3. Uploading(f)' BY <1>3, <1>4, <2>2 DEF Uploading
    <2>4. disk'[f] = OnDisk(writer'[f].at) BY <1>1, <1>4, <2>2 DEF OnDisk
    <2> QED BY <1>1, <2>2, <2>3, <2>4, InOrderUploading
  <1> QED BY <1>1, <1>2, <1>3, <1>4, <1>5, TypeFacts, OneFileStep

LEMMA NewProjectStep ==
  ASSUME FilesInductive, NEW f \in Files, NEW p \in Projects, NewProject(f, p)
  PROVE  FilesInductive'
  <1>1. /\ writer[f].at = "ready" /\ used' = used \cup {p} /\ projects' = projects \cup {p}
        /\ writer' = [writer EXCEPT ![f] = [at |-> "unlinked", project |-> p]]
        /\ UNCHANGED <<artifact, disk, deletion, overlapped, abandoned>>
    BY DEF NewProject
  <1>2. deletion = NoDeletion BY <1>1 DEF FilesInductive, ProjectsInOrder, HoldsLoop
  <1>3. /\ writer' \in [Files -> Writers] /\ writer'[f].at = "unlinked" /\ writer'[f].project = p
        /\ \A g \in Files \ {f} : writer'[g] = writer[g]
    BY <1>1, TypeFacts DEF Writers
  <1>4. ASSUME f \notin overlapped PROVE FileInOrder(f)'
    <2>1. FileInOrder(f) BY <1>4 DEF FilesInductive
    <2>2. Uploading(f) /\ disk[f] = {"file"} /\ f \notin deletion.found
      BY <1>1, <2>1 DEF FileInOrder, ExportingUndisturbed, OnDisk, Doomed
    <2>3. Uploading(f)' BY <1>1, <1>3, <2>2 DEF Uploading
    <2>4. disk'[f] = OnDisk(writer'[f].at) BY <1>1, <1>3, <2>2 DEF OnDisk
    <2> QED BY <1>1, <2>2, <2>3, <2>4, InOrderUploading
  <1> QED BY <1>1, <1>2, <1>3, <1>4, TypeFacts, OneFileStep

LEMMA LinksStep ==
  ASSUME FilesInductive, NEW f \in Files, Links(f)
  PROVE  FilesInductive'
  <1>1. /\ writer[f].at = "unlinked" /\ Returns(f)
        /\ artifact' = [artifact EXCEPT ![f].project = writer[f].project]
        /\ UNCHANGED <<disk, projects, deletion, used, overlapped, abandoned>>
    BY DEF Links
  <1>2. deletion = NoDeletion /\ writer[f].project \in projects
    BY <1>1 DEF FilesInductive, ProjectsInOrder, HoldsLoop
  <1>3. PICK a : a = [artifact[f] EXCEPT !.project = writer[f].project] OBVIOUS
  <1>4. /\ a \in Artifacts /\ a.project = writer[f].project /\ a.status = artifact[f].status
    BY <1>2, <1>3, TypeFacts DEF Artifacts
  <1>5. artifact' = [artifact EXCEPT ![f] = a] BY <1>1, <1>3
  <1>6. /\ artifact' \in [Files -> Artifacts] /\ artifact'[f] = a
        /\ \A g \in Files \ {f} : artifact'[g] = artifact[g]
    BY <1>4, <1>5, TypeFacts
  <1>7. /\ writer' \in [Files -> Writers] /\ writer'[f] = NoWriter /\ writer'[f].at = "none"
        /\ \A g \in Files \ {f} : writer'[g] = writer[g]
    BY <1>1, TypeFacts, ReturnsWriter
  <1>8. ASSUME f \notin overlapped PROVE FileInOrder(f)'
    <2>1. FileInOrder(f) BY <1>8 DEF FilesInductive
    <2>2. artifact[f].status = "ready" /\ disk[f] = {"file"}
      BY <1>1, <2>1 DEF FileInOrder, Uploading, ExportingUndisturbed, OnDisk
    <2>3. a.project # NoProject
      BY <1>2, <1>4, TypeFacts, NoProjectAssumption
    <2>4. f \notin deletion.found /\ ~Deleting(a.project) BY <1>2, TypeFacts DEF Deleting
    <2> QED BY <1>1, <1>4, <1>6, <1>7, <2>2, <2>3, <2>4, InOrderIdle
  <1> QED BY <1>1, <1>2, <1>4, <1>6, <1>7, <1>8, TypeFacts, OneFileStep

LEMMA ExportStep ==
  ASSUME FilesInductive, NEW f \in Files, NEW p \in Projects, Export(f, p)
  PROVE  FilesInductive'
  <1>1. /\ NewKey(f) /\ p \in projects
        /\ artifact' = [artifact EXCEPT ![f] = [kind |-> "export", status |-> "pending",
                                               project |-> p]]
        /\ writer' = [writer EXCEPT ![f] = [at |-> "reserved", project |-> p]]
        /\ overlapped' = IF Deleting(p) THEN overlapped \cup {f} ELSE overlapped
        /\ UNCHANGED <<disk, projects, deletion, used, abandoned>>
    BY DEF Export
  <1>2. /\ artifact' \in [Files -> Artifacts] /\ artifact'[f].kind = "export"
        /\ artifact'[f].status = "pending" /\ artifact'[f].project = p
        /\ \A g \in Files \ {f} : artifact'[g] = artifact[g]
    BY <1>1, TypeFacts DEF Artifacts
  <1>3. /\ writer' \in [Files -> Writers] /\ writer'[f].at = "reserved" /\ writer'[f].project = p
        /\ \A g \in Files \ {f} : writer'[g] = writer[g]
    BY <1>1, TypeFacts DEF Writers
  <1>4. ASSUME f \notin overlapped' PROVE FileInOrder(f)'
    <2>1. ~Deleting(p) BY <1>1, <1>4
    <2>2. f \notin overlapped /\ FileInOrder(f) BY <1>1, <1>4 DEF FilesInductive
    <2>3. f \notin deletion.found BY <1>1, <2>2 DEF NewKey, Registered, FileInOrder, Doomed
    <2>4. ExportingUndisturbed(f)'
      BY <1>1, <1>2, <1>3, <2>1, NoProjectAssumption DEF ExportingUndisturbed, Deleting
    <2>5. disk'[f] = OnDisk(writer'[f].at) BY <1>1, <1>3 DEF OnDisk, NewKey
    <2> QED BY <1>1, <2>3, <2>4, <2>5, InOrderExporting
  <1> QED BY <1>1, <1>2, <1>3, <1>4, TypeFacts, OneFileStep

LEMMA ExportWrites ==
  ASSUME FilesInductive, NEW f \in Files, WritesPart(f) \/ Publishes(f)
  PROVE  FilesInductive'
  <1>1. PICK stage \in {"writing", "published"} :
           /\ MovesTo(f, stage)
           /\ disk' = [disk EXCEPT ![f] = OnDisk(stage)]
    BY DEF WritesPart, Publishes, OnDisk
  <1>2. Exporting(f) /\ UNCHANGED <<artifact, projects, deletion, used, overlapped, abandoned>>
    BY DEF WritesPart, Publishes
  <1>3. /\ writer' \in [Files -> Writers] /\ writer'[f].at = stage
        /\ writer'[f].project = writer[f].project
        /\ \A g \in Files \ {f} : writer'[g] = writer[g]
    BY <1>1, TypeFacts, MovesWriter
  <1>4. OnDisk(stage) \in {{}, {"part"}, {"file"}} BY DEF OnDisk
  <1>5. disk' \in Disks /\ disk'[f] = OnDisk(stage) /\ \A g \in Files \ {f} : disk'[g] = disk[g]
    BY <1>1, <1>4, TypeFacts, DiskBecomes
  <1>6. ASSUME f \notin overlapped PROVE FileInOrder(f)'
    <2>1. ExportingUndisturbed(f) /\ f \notin deletion.found BY <1>2, <1>6, ExportKnown
    <2>2. ExportingUndisturbed(f)' BY <1>2, <1>3, <2>1 DEF ExportingUndisturbed, Deleting
    <2> QED BY <1>2, <1>3, <1>5, <2>1, <2>2, InOrderExporting
  <1> QED BY <1>2, <1>3, <1>5, <1>6, TypeFacts, OneFileStep

LEMMA ExportEnds ==
  ASSUME FilesInductive, NEW f \in Files, Exported(f) \/ ExportFails(f)
  PROVE  FilesInductive'
  <1>1. PICK status \in {"ready", "error"} :
           /\ \/ IF Registered(f) THEN Sets(f, status) ELSE UNCHANGED artifact
              \/ status = "error" /\ UNCHANGED artifact
           /\ status = "ready" => writer[f].at = "published" /\ disk' = disk
           /\ status = "error" => writer[f].at \in {"reserved", "writing"}
    BY DEF Exported, ExportFails, SaysError
  <1>2. /\ Exporting(f) /\ Returns(f)
        /\ disk' = disk \/ disk' = [disk EXCEPT ![f] = disk[f] \ {"part"}]
        /\ UNCHANGED <<projects, deletion, used, overlapped, abandoned>>
    BY DEF Exported, ExportFails
  <1>3. /\ artifact' \in [Files -> Artifacts] /\ artifact'[f].project = artifact[f].project
        /\ Registered(f) => \/ artifact'[f].status = status
                            \/ status = "error" /\ artifact'[f] = artifact[f]
        /\ \A g \in Files \ {f} : artifact'[g] = artifact[g]
    <2>1. CASE Registered(f) /\ Sets(f, status)
      <3>1. status \in Statuses BY DEF Statuses
      <3>2. /\ artifact' \in [Files -> Artifacts] /\ artifact'[f].status = status
            /\ artifact'[f].project = artifact[f].project
            /\ \A g \in Files \ {f} : artifact'[g] = artifact[g]
        BY <2>1, <3>1, TypeFacts, SetsRow
      <3> QED BY <3>2
    <2>2. CASE UNCHANGED artifact /\ (Registered(f) => status = "error") BY <2>2, TypeFacts
    <2> QED BY <1>1, <2>1, <2>2
  <1>4. /\ writer' \in [Files -> Writers] /\ writer'[f] = NoWriter /\ writer'[f].at = "none"
        /\ \A g \in Files \ {f} : writer'[g] = writer[g]
    BY <1>2, TypeFacts, ReturnsWriter
  <1>5. disk' \in Disks /\ \A g \in Files \ {f} : disk'[g] = disk[g]
    <2>1. disk[f] \ {"part"} \in {{}, {"part"}, {"file"}} BY TypeFacts
    <2> QED BY <1>2, <2>1, TypeFacts, DiskBecomes
  <1>6. ASSUME f \notin overlapped PROVE FileInOrder(f)'
    <2>1. /\ ExportingUndisturbed(f) /\ disk[f] = OnDisk(writer[f].at)
          /\ f \notin deletion.found /\ Registered(f)
      BY <1>2, <1>6, ExportKnown
    <2>2. \/ artifact'[f].status = status
          \/ status = "error" /\ artifact'[f].status = "pending"
      BY <1>3, <2>1 DEF ExportingUndisturbed
    <2>3. status = "ready" => disk'[f] = {"file"} BY <1>1, <2>1 DEF OnDisk
    <2>4. artifact'[f].project # NoProject /\ ~Deleting(artifact'[f].project)
      BY <1>3, <2>1 DEF ExportingUndisturbed
    <2> QED BY <1>2, <1>4, <2>1, <2>2, <2>3, <2>4, InOrderIdle
  <1> QED BY <1>2, <1>3, <1>4, <1>5, <1>6, TypeFacts, OneFileStep

-----------------------------------------------------------------------------
(* The files of books: deletion and crash *)

LEMMA DeleteStep ==
  ASSUME FilesInductive, NEW p \in Projects, Delete(p)
  PROVE  FilesInductive'
  <1>1. /\ p \in projects /\ deletion = NoDeletion /\ \A f \in Files : ~HoldsLoop(f)
        /\ MarksAll(p, "deleting")
        /\ deletion' = [at |-> "files", project |-> p, left |-> Of(p), found |-> Of(p)]
        /\ overlapped' = overlapped \cup {f \in Files : writer[f].at # "none"
                                                        /\ writer[f].project = p}
        /\ UNCHANGED <<disk, projects, writer, used, abandoned>>
    BY DEF Delete
  <1>2. Of(p) \subseteq Files BY DEF Of
  <1>3. /\ deletion' \in Deletions /\ deletion'.at = "files" /\ deletion'.project = p
        /\ deletion'.left = Of(p) /\ deletion'.found = Of(p)
    BY <1>1, <1>2 DEF Deletions
  <1>4. ASSUME NEW f \in Files
        PROVE  /\ f \in Of(p) => /\ artifact'[f].status = "deleting" /\ artifact'[f].project = p
                                 /\ artifact'[f] \in Artifacts
               /\ f \notin Of(p) => artifact'[f] = artifact[f]
    <2>1. artifact'[f] = IF f \in Of(p) THEN [artifact[f] EXCEPT !.status = "deleting"]
                         ELSE artifact[f]
      BY <1>1 DEF MarksAll
    <2>2. f \in Of(p) => artifact[f].project = p BY DEF Of
    <2>3. artifact[f] \in Artifacts /\ "deleting" \in Statuses BY TypeFacts DEF Statuses
    <2> QED BY <2>1, <2>2, <2>3, RowFields
  <1>5. artifact' \in [Files -> Artifacts] BY <1>1, <1>4, TypeFacts DEF MarksAll
  <1>6. FilesTypeOK'
    BY <1>1, <1>3, <1>5, TypeFacts DEF FilesTypeOK, Disks
  <1>7. ProjectsInOrder'
    <2>1. ASSUME NEW f \in Files
          PROVE  /\ artifact'[f].project \in projects' \cup {NoProject}
                 /\ ~HoldsLoop(f)' /\ writer'[f].at = "none" => writer'[f] = NoWriter
      BY <1>1, <1>4, TypeFacts DEF HoldsLoop, FilesInductive, ProjectsInOrder
    <2> QED BY <1>1, <1>3, <2>1 DEF ProjectsInOrder, HoldsLoop
  <1>8. ASSUME NEW f \in Files \ overlapped' PROVE FileInOrder(f)'
    <2>1. FileInOrder(f) /\ (writer[f].at # "none" => writer[f].project # p)
      BY <1>1, <1>8 DEF FilesInductive
    <2>2. p # NoProject BY NoProjectAssumption
    <2>3. CASE f \in Of(p)
      <3>1. artifact[f].project = p BY <2>3 DEF Of
      <3>2. writer[f].at = "none"
        BY <2>1, <2>2, <3>1 DEF FileInOrder, Uploading, ExportingUndisturbed
      <3> QED BY <1>1, <1>3, <1>4, <2>2, <2>3, <3>2
          DEF FileInOrder, Registered, Doomed, Deleting
    <2>4. CASE f \notin Of(p)
      <3>1. artifact[f].project # p BY <2>4 DEF Of
      <3>2. Uploading(f) => Uploading(f)' BY <1>1, <1>4, <2>4 DEF Uploading
      <3>3. ExportingUndisturbed(f) => ExportingUndisturbed(f)'
        BY <1>1, <1>3, <1>4, <2>4, <3>1 DEF ExportingUndisturbed, Deleting
      <3> QED BY <1>1, <1>3, <1>4, <2>1, <2>4, <3>1, <3>2, <3>3
          DEF FileInOrder, Registered, Deleting
    <2> QED BY <2>3, <2>4
  <1> QED BY <1>6, <1>7, <1>8 DEF FilesInductive

\* The request that deletes a project holds the event loop, as far as uploads go.
LEMMA WhileDeleting ==
  ASSUME FilesInductive, deletion.at # "none"
  PROVE  /\ \A f \in Files : ~HoldsLoop(f) /\ writer[f].at # "unlinked"
         /\ deletion.project \in projects /\ deletion.project # NoProject
         /\ deletion \in Deletions
  BY NoProjectAssumption
  DEF FilesInductive, FilesTypeOK, ProjectsInOrder, HoldsLoop, NoDeletion

\* How a deletion leaves the files of which it has not taken the rows.
LEMMA ReleasedFile ==
  ASSUME FilesInductive, NEW f \in Files, f \notin overlapped, UNCHANGED <<disk, writer, abandoned>>,
         deletion' = NoDeletion,
         \/ artifact'[f] = artifact[f] /\ f \notin deletion.found
         \/ /\ f \in deletion.found /\ artifact'[f].project = artifact[f].project
            /\ artifact'[f].status \in {"deleting", "deleted", "error"}
            /\ artifact'[f].project # NoProject
  PROVE  FileInOrder(f)'
  <1>1. FileInOrder(f) BY DEF FilesInductive
  <1>2. deletion'.at = "none" /\ deletion'.found = {} BY TypeFacts
  <1>3. CASE artifact'[f] = artifact[f] /\ f \notin deletion.found
    <2>1. /\ Uploading(f) => Uploading(f)'
          /\ ExportingUndisturbed(f) => ExportingUndisturbed(f)'
      BY <1>2, <1>3 DEF Uploading, ExportingUndisturbed, Deleting
    <2> QED BY <1>1, <1>2, <1>3, <2>1 DEF FileInOrder, Registered, Deleting
  <1>4. CASE /\ f \in deletion.found /\ artifact'[f].project = artifact[f].project
             /\ artifact'[f].status \in {"deleting", "deleted", "error"}
             /\ artifact'[f].project # NoProject
    <2>1. writer[f].at = "none" BY <1>1, <1>4 DEF FileInOrder, Doomed
    <2> QED BY <1>2, <1>4, <2>1 DEF FileInOrder, Registered, Deleting
  <1> QED BY <1>3, <1>4

LEMMA RemovesStep ==
  ASSUME FilesInductive, NEW f \in Files, Removes(f)
  PROVE  FilesInductive'
  <1>1. /\ deletion.at = "files" /\ f \in deletion.left
        /\ disk' = [disk EXCEPT ![f] = {}]
        /\ deletion' = [deletion EXCEPT !.left = @ \ {f}]
        /\ UNCHANGED <<artifact, projects, writer, used, overlapped, abandoned>>
    BY DEF Removes
  <1>2. disk' \in Disks /\ disk'[f] = {} /\ \A g \in Files \ {f} : disk'[g] = disk[g]
    BY <1>1, TypeFacts, DiskBecomes
  <1>3. /\ deletion' \in Deletions /\ deletion'.at = "files" /\ deletion'.project = deletion.project
        /\ deletion'.left = deletion.left \ {f} /\ deletion'.found = deletion.found
    BY <1>1, WhileDeleting DEF Deletions
  <1>4. FilesTypeOK' BY <1>1, <1>2, <1>3 DEF FilesTypeOK, FilesInductive, Disks
  <1>5. ProjectsInOrder'
    BY <1>1, <1>3, WhileDeleting DEF ProjectsInOrder, FilesInductive, HoldsLoop
  <1>6. ASSUME NEW g \in Files \ overlapped' PROVE FileInOrder(g)'
    <2>1. FileInOrder(g) BY <1>1 DEF FilesInductive
    <2>2. /\ Uploading(g) => Uploading(g)'
          /\ ExportingUndisturbed(g) => ExportingUndisturbed(g)'
      BY <1>1, <1>3 DEF Uploading, ExportingUndisturbed, Deleting
    <2>3. CASE g = f
      <3>1. f \in deletion.found /\ Doomed(f)
        BY <1>1, <2>1, <2>3, TypeFacts DEF FileInOrder
      <3> QED BY <1>1, <1>2, <1>3, <2>1, <2>3, <3>1
          DEF FileInOrder, Registered, Doomed, Deleting
    <2>4. CASE g # f
      BY <1>1, <1>2, <1>3, <2>1, <2>2, <2>4 DEF FileInOrder, Registered, Doomed, Deleting
    <2> QED BY <2>3, <2>4
  <1> QED BY <1>4, <1>5, <1>6 DEF FilesInductive

LEMMA RemovalFailsStep ==
  ASSUME FilesInductive, NEW f \in Files, RemovalFails(f)
  PROVE  FilesInductive'
  <1>1. /\ deletion.at = "files" /\ f \in deletion.left /\ artifact' = Finished("error", f)
        /\ deletion' = NoDeletion
        /\ UNCHANGED <<disk, projects, writer, used, overlapped, abandoned>>
    BY DEF RemovalFails
  <1>2. ASSUME NEW g \in Files
        PROVE  /\ artifact'[g] \in Artifacts /\ artifact'[g].project = artifact[g].project
               /\ g \notin deletion.found => artifact'[g] = artifact[g]
               /\ Registered(g) /\ artifact[g].status \in {"deleting", "deleted"} =>
                     artifact'[g].status \in {"deleting", "deleted", "error"}
    <2>1. artifact'[g] = IF ~Registered(g) THEN artifact[g]
                         ELSE IF g = f THEN [artifact[g] EXCEPT !.status = "error"]
                         ELSE IF g \in deletion.found \ deletion.left
                              THEN [artifact[g] EXCEPT !.status = "deleted"] ELSE artifact[g]
      BY <1>1 DEF Finished
    <2>2. artifact[g] \in Artifacts /\ {"error", "deleted"} \subseteq Statuses
      BY TypeFacts DEF Statuses
    <2>3. f \in deletion.found BY <1>1, TypeFacts
    <2>4. CASE artifact'[g] = artifact[g] BY <2>2, <2>4
    <2>5. CASE Registered(g) /\ g = f BY <2>1, <2>2, <2>3, <2>5, RowFields
    <2>6. CASE Registered(g) /\ g # f /\ g \in deletion.found \ deletion.left
      BY <2>1, <2>2, <2>6, RowFields
    <2> QED BY <2>1, <2>4, <2>5, <2>6
  <1>3. artifact' \in [Files -> Artifacts] BY <1>1, <1>2 DEF Finished
  <1>4. NoDeletion \in Deletions /\ NoDeletion.left = {} BY DEF NoDeletion, Deletions
  <1>5. FilesTypeOK' BY <1>1, <1>3, <1>4 DEF FilesTypeOK, FilesInductive
  <1>6. ProjectsInOrder'
    BY <1>1, <1>2, <1>4, WhileDeleting, TypeFacts DEF ProjectsInOrder, FilesInductive, HoldsLoop
  <1>7. ASSUME NEW g \in Files \ overlapped' PROVE FileInOrder(g)'
    <2>1. FileInOrder(g) BY <1>1 DEF FilesInductive
    <2>2. CASE g \in deletion.found
      <3>1. artifact[g].project # NoProject /\ artifact[g].status \in {"deleting", "deleted"}
        BY <1>1, <2>1, <2>2, WhileDeleting DEF FileInOrder, Doomed
      <3>2. Registered(g) BY <3>1 DEF Registered
      <3> QED BY <1>1, <1>2, <2>2, <3>1, <3>2, ReleasedFile
    <2>3. CASE g \notin deletion.found BY <1>1, <1>2, <2>3, ReleasedFile
    <2> QED BY <2>2, <2>3
  <1> QED BY <1>5, <1>6, <1>7 DEF FilesInductive

LEMMA FilesRemovedStep ==
  ASSUME FilesInductive, FilesRemoved
  PROVE  FilesInductive'
  <1>1. /\ deletion.at = "files" /\ deletion.left = {}
        /\ artifact' = [g \in Files |-> IF g \in deletion.found /\ Registered(g)
                                        THEN [artifact[g] EXCEPT !.status = "deleted"]
                                        ELSE artifact[g]]
        /\ deletion' = [deletion EXCEPT !.at = "project"]
        /\ UNCHANGED <<disk, projects, writer, used, overlapped, abandoned>>
    BY DEF FilesRemoved
  <1>2. ASSUME NEW g \in Files
        PROVE  /\ artifact'[g] \in Artifacts /\ artifact'[g].project = artifact[g].project
               /\ g \notin deletion.found => artifact'[g] = artifact[g]
               /\ g \in deletion.found /\ Registered(g) => artifact'[g].status = "deleted"
    <2>1. artifact[g] \in Artifacts /\ "deleted" \in Statuses BY TypeFacts DEF Statuses
    <2> QED BY <1>1, <2>1, RowFields
  <1>3. artifact' \in [Files -> Artifacts] BY <1>1, <1>2
  <1>4. /\ deletion' \in Deletions /\ deletion'.at = "project"
        /\ deletion'.project = deletion.project
        /\ deletion'.left = {} /\ deletion'.found = deletion.found
    BY <1>1, WhileDeleting DEF Deletions
  <1>5. FilesTypeOK' BY <1>1, <1>3, <1>4 DEF FilesTypeOK, FilesInductive
  <1>6. ProjectsInOrder'
    BY <1>1, <1>2, <1>4, WhileDeleting DEF ProjectsInOrder, FilesInductive, HoldsLoop
  <1>7. ASSUME NEW g \in Files \ overlapped' PROVE FileInOrder(g)'
    <2>1. FileInOrder(g) BY <1>1 DEF FilesInductive
    <2>2. CASE g \in deletion.found
      <3>1. Doomed(g) /\ Registered(g)
        BY <2>1, <2>2 DEF FileInOrder, Doomed, Registered
      <3>2. artifact'[g].status = "deleted" BY <1>2, <2>2, <3>1
      <3>3. disk[g] = {} BY <1>1, <3>1 DEF Doomed
      <3> QED BY <1>1, <1>2, <1>4, <2>2, <3>1, <3>2, <3>3
          DEF FileInOrder, Registered, Doomed, Deleting
    <2>3. CASE g \notin deletion.found
      <3>1. artifact'[g] = artifact[g] BY <1>2, <2>3
      <3>2. /\ Uploading(g) => Uploading(g)'
            /\ ExportingUndisturbed(g) => ExportingUndisturbed(g)'
        BY <1>1, <1>4, <3>1 DEF Uploading, ExportingUndisturbed, Deleting
      <3> QED BY <1>1, <1>4, <2>1, <2>3, <3>1, <3>2 DEF FileInOrder, Registered, Deleting
    <2> QED BY <2>2, <2>3
  <1> QED BY <1>5, <1>6, <1>7 DEF FilesInductive

LEMMA ProjectDeletedStep ==
  ASSUME FilesInductive, ProjectDeleted
  PROVE  FilesInductive'
  <1>1. /\ deletion.at = "project" /\ projects' = projects \ {deletion.project}
        /\ artifact' = [f \in Files |-> IF f \in Of(deletion.project) THEN NoArtifact
                                        ELSE artifact[f]]
        /\ deletion' = NoDeletion
        /\ UNCHANGED <<disk, writer, used, overlapped, abandoned>>
    BY DEF ProjectDeleted
  <1>2. /\ NoArtifact \in Artifacts /\ NoArtifact.status = "none"
        /\ NoArtifact.project = NoProject
    BY DEF NoArtifact, Artifacts
  <1>3. NoDeletion \in Deletions /\ NoDeletion.left = {} BY DEF NoDeletion, Deletions
  <1>4. artifact' \in [Files -> Artifacts] BY <1>1, <1>2, TypeFacts
  <1>5. FilesTypeOK' BY <1>1, <1>3, <1>4 DEF FilesTypeOK, FilesInductive
  <1>6. ASSUME NEW f \in Files PROVE artifact'[f].project \in projects' \cup {NoProject}
    <2>1. CASE f \in Of(deletion.project) BY <1>1, <1>2, <2>1
    <2>2. CASE f \notin Of(deletion.project)
      BY <1>1, <2>2, TypeFacts DEF Of
    <2> QED BY <2>1, <2>2
  <1>7. ProjectsInOrder'
    BY <1>1, <1>3, <1>6, WhileDeleting, TypeFacts
    DEF ProjectsInOrder, FilesInductive, HoldsLoop
  <1>8. ASSUME NEW g \in Files \ overlapped' PROVE FileInOrder(g)'
    <2>1. FileInOrder(g) /\ deletion.left = {}
      BY <1>1 DEF FilesInductive, ProjectsInOrder
    <2>2. CASE g \in Of(deletion.project)
      <3>1. g \in deletion.found BY <1>1, <2>1, <2>2 DEF Of, Deleting, FileInOrder
      <3>2. disk[g] = {} /\ writer[g].at = "none" BY <2>1, <3>1 DEF FileInOrder, Doomed
      <3>3. artifact'[g] = NoArtifact BY <1>1, <2>2
      <3>4. deletion'.at = "none" /\ deletion'.found = {} BY <1>1, TypeFacts
      <3> QED BY <1>1, <1>2, <3>2, <3>3, <3>4
          DEF FileInOrder, Registered, Deleting, NoArtifact
    <2>3. CASE g \notin Of(deletion.project)
      <3>1. artifact'[g] = artifact[g] /\ artifact[g].project # deletion.project
        BY <1>1, <2>3 DEF Of
      <3>2. g \notin deletion.found BY <2>1, <3>1 DEF FileInOrder, Doomed
      <3> QED BY <1>1, <3>1, <3>2, ReleasedFile
    <2> QED BY <2>2, <2>3
  <1> QED BY <1>5, <1>7, <1>8 DEF FilesInductive

\* The requests are gone, and nothing repairs what they leave.
LEMMA CrashStep ==
  ASSUME FilesInductive, Crash
  PROVE  FilesInductive'
  <1>1. /\ writer' = [f \in Files |-> NoWriter] /\ deletion' = NoDeletion
        /\ abandoned' = abandoned \cup {f \in Files : writer[f].at # "none"}
        /\ UNCHANGED <<artifact, disk, projects, used, overlapped>>
    BY DEF Crash
  <1>2. /\ NoWriter \in Writers /\ NoWriter.at = "none"
        /\ NoDeletion \in Deletions /\ NoDeletion.left = {}
    BY DEF NoWriter, Writers, NoDeletion, Deletions
  <1>3. writer' \in [Files -> Writers] /\ \A f \in Files : writer'[f] = NoWriter BY <1>1, <1>2
  <1>4. FilesTypeOK' BY <1>1, <1>2, <1>3 DEF FilesTypeOK, FilesInductive
  <1>5. ProjectsInOrder'
    BY <1>1, <1>2, <1>3, TypeFacts DEF ProjectsInOrder, FilesInductive, HoldsLoop
  <1>6. ASSUME NEW f \in Files \ overlapped' PROVE FileInOrder(f)'
    <2>1. FileInOrder(f) BY <1>1 DEF FilesInductive
    <2>2. artifact[f].status = "ready" => disk[f] = {"file"}
      BY <2>1 DEF FileInOrder, Uploading, ExportingUndisturbed, OnDisk
    <2>3. deletion'.at = "none" /\ deletion'.found = {} BY <1>1, TypeFacts
    <2> QED BY <1>1, <1>2, <1>3, <2>1, <2>2, <2>3 DEF FileInOrder, Registered, Deleting
  <1> QED BY <1>4, <1>5, <1>6 DEF FilesInductive

-----------------------------------------------------------------------------
(* The files of books: the theorems *)

LEMMA FilesInductiveInit == FilesInit => FilesInductive
  <1> SUFFICES ASSUME FilesInit PROVE FilesInductive OBVIOUS
  <1>1. /\ artifact = [f \in Files |-> NoArtifact] /\ disk = [f \in Files |-> {}]
        /\ projects = {} /\ used = {} /\ writer = [f \in Files |-> NoWriter]
        /\ deletion = NoDeletion /\ overlapped = {} /\ abandoned = {}
    BY DEF FilesInit
  <1>2. /\ NoArtifact \in Artifacts /\ NoArtifact.status = "none"
        /\ NoArtifact.project = NoProject
        /\ NoWriter \in Writers /\ NoWriter.at = "none"
        /\ NoDeletion \in Deletions /\ NoDeletion.left = {} /\ NoDeletion.found = {}
        /\ NoDeletion.at = "none"
    BY DEF NoArtifact, Artifacts, NoWriter, Writers, NoDeletion, Deletions
  <1>3. FilesTypeOK BY <1>1, <1>2 DEF FilesTypeOK
  <1>4. ProjectsInOrder BY <1>1, <1>2 DEF ProjectsInOrder, HoldsLoop
  <1>5. ASSUME NEW f \in Files PROVE FileInOrder(f)
    BY <1>1, <1>2 DEF FileInOrder, Registered, Deleting
  <1> QED BY <1>3, <1>4, <1>5 DEF FilesInductive

LEMMA FilesInductiveStep == FilesInductive /\ [FilesNext]_fileVars => FilesInductive'
  <1> SUFFICES ASSUME FilesInductive, [FilesNext]_fileVars PROVE FilesInductive' OBVIOUS
  <1>1. CASE UNCHANGED fileVars
    BY <1>1 DEF fileVars, FilesInductive, FilesTypeOK, ProjectsInOrder, HoldsLoop, FileInOrder,
                Registered, Uploading, ExportingUndisturbed, Doomed, Deleting
  <1>2. ASSUME NEW f \in Files, NEW p \in Projects, NewProject(f, p) \/ Export(f, p)
        PROVE  FilesInductive'
    BY <1>2, NewProjectStep, ExportStep
  <1>3. ASSUME NEW f \in Files,
               \/ Upload(f) \/ Receives(f) \/ Received(f) \/ UploadFails(f) \/ Rejected(f)
               \/ Stored(f) \/ Links(f)
        PROVE  FilesInductive'
    BY <1>3, UploadStep, ReceiveSteps, UploadEnds, StoredStep, LinksStep
  <1>4. ASSUME NEW f \in Files,
               \/ WritesPart(f) \/ Publishes(f) \/ Exported(f) \/ ExportFails(f)
               \/ Removes(f) \/ RemovalFails(f)
        PROVE  FilesInductive'
    BY <1>4, ExportWrites, ExportEnds, RemovesStep, RemovalFailsStep
  <1>5. ASSUME NEW p \in Projects, Delete(p) PROVE FilesInductive' BY <1>5, DeleteStep
  <1>6. CASE FilesRemoved \/ ProjectDeleted \/ Crash
    BY <1>6, FilesRemovedStep, ProjectDeletedStep, CrashStep
  <1> QED BY <1>1, <1>2, <1>3, <1>4, <1>5, <1>6 DEF FilesNext

\* FilesInductive holds in every reachable state: each step of an upload, an
\* export or a deletion finds its file, its row and its project as the steps
\* before have left them (projects.py 144-205, 333-382, 546-582).
THEOREM FilesInvariant == FilesSpec => []FilesInductive
  <1> QED BY FilesInductiveInit, FilesInductiveStep, PTL DEF FilesSpec

\* No file is without a row and no ready row without its file, but for exports
\* that ran while their project was being deleted.
THEOREM FilesMatch == FilesSpec => []FilesMatchRows
  <1>1. FilesInductive => FilesMatchRows
    BY DEF FilesInductive, FilesMatchRows, FileInOrder, Uploading, ExportingUndisturbed, OnDisk,
           Registered
  <1> QED BY <1>1, FilesInvariant, PTL

\* A file nobody works on is one of an existing project, which takes it along when
\* it is deleted.
THEOREM FilesStayReachable == FilesSpec => []FilesAreReachable
  <1>1. ASSUME FilesInductive PROVE FilesAreReachable
    <2>1. ASSUME NEW f \in Files \ (overlapped \cup abandoned), disk[f] # {},
                 writer[f].at = "none"
          PROVE  artifact[f].project \in projects
      <3>1. artifact[f].project # NoProject BY <1>1, <2>1 DEF FilesInductive, FileInOrder
      <3> QED BY <1>1, <3>1, TypeFacts
    <2> QED BY <2>1 DEF FilesAreReachable
  <1> QED BY <1>1, FilesInvariant, PTL

-----------------------------------------------------------------------------
(* Least and greatest numbers *)

LEMMA Minimum ==
  ASSUME NEW T \in SUBSET Nat, T # {}
  PROVE  \E x \in T : \A y \in T : x <= y
  <1>1. PICK R : R = OpToRel(<, Nat) BY Zenon
  <1>2. IsWellFoundedOn(R, Nat) BY <1>1, NatLessThanWellFounded, Zenon
  <1>3. PICK x \in T : \A y \in T : <<y, x>> \notin R BY <1>2, WFMin
  <1>4. ASSUME NEW y \in T PROVE x <= y
    <2>1. <<y, x>> \notin OpToRel(<, Nat) BY <1>1, <1>3, Zenon
    <2>2. ~(y < x) BY <2>1 DEF OpToRel
    <2> QED BY <2>2
  <1> QED BY <1>4

LEMMA Maximum ==
  ASSUME NEW T \in SUBSET Nat, T # {}, NEW n \in Nat, \A t \in T : t <= n
  PROVE  \E x \in T : \A y \in T : y <= x
  <1> DEFINE D == {n - t : t \in T}
  <1>1. D \in SUBSET Nat /\ D # {}
    <2>1. \A t \in T : t \in Nat /\ n - t \in Nat OBVIOUS
    <2>2. PICK t \in T : TRUE OBVIOUS
    <2>3. n - t \in D BY <2>2
    <2> QED BY <2>1, <2>3
  <1>2. PICK d \in D : \A e \in D : d <= e BY <1>1, Minimum
  <1>3. PICK x \in T : d = n - x OBVIOUS
  <1>4. ASSUME NEW y \in T PROVE y <= x
    <2>1. n - y \in D OBVIOUS
    <2>2. d <= n - y BY <1>2, <2>1
    <2> QED BY <1>3, <2>2
  <1> QED BY <1>4

-----------------------------------------------------------------------------
(* Segments: where a block is cut *)

Positions == 0 .. MaxLength

LEMMA BlockFacts ==
  ASSUME SegmentationTypeOK
  PROVE  /\ MaxLength \in Nat /\ MaxChars \in Nat \ {0}
         /\ block.length \in Positions /\ cursor \in Positions /\ cursor <= block.length
         /\ block.boundaries \subseteq 1 .. block.length
         /\ \A s \in block.atoms : /\ s \in Positions \X Positions /\ s[1] \in Positions
                                   /\ s[2] \in Positions /\ s = <<s[1], s[2]>>
                                   /\ s[1] < s[2] /\ s[2] <= block.length
                                   /\ \A t \in block.atoms : Apart(s, t)
         /\ parts \in Seq(Positions \X Positions)
  BY LengthAssumption DEF SegmentationTypeOK, IsBlock, Spans, Positions

\* A cut within reach: at the end of a sentence, or as far as it goes.
LEMMA SoftEndInReach ==
  ASSUME SegmentationTypeOK, HardEnd < block.length
  PROVE  SoftEnd \in Positions /\ cursor < SoftEnd /\ SoftEnd <= HardEnd
  <1> DEFINE near == {p \in block.boundaries : cursor < p /\ p <= HardEnd}
  <1>1. HardEnd \in Nat /\ HardEnd \in Positions /\ cursor < HardEnd
    BY BlockFacts DEF HardEnd, Positions
  <1>2. CASE near = {}
    BY <1>1, <1>2 DEF SoftEnd
  <1>3. CASE near # {}
    <2>1. near \in SUBSET Nat BY BlockFacts DEF Positions
    <2>2. \E p \in near : \A q \in near : q <= p BY <1>1, <1>3, <2>1, Maximum
    <2>3. SoftEnd = CHOOSE p \in near : \A q \in near : q <= p BY <1>3 DEF SoftEnd
    <2>4. SoftEnd \in near BY <2>2, <2>3
    <2> QED BY <1>1, <2>4, BlockFacts DEF Positions
  <1> QED BY <1>2, <1>3

\* No span holds the position in its inside.
BetweenSpans(n) == \A s \in block.atoms : n <= s[1] \/ s[2] <= n

LEMMA OutOfAtomIsBetween ==
  ASSUME SegmentationTypeOK, BetweenSpans(cursor), NEW end \in Positions, cursor < end,
         end <= HardEnd, end <= block.length
  PROVE  LET cut == OutOfAtom(end) IN
         /\ cut \in Positions /\ cursor < cut /\ cut <= block.length /\ BetweenSpans(cut)
         /\ cut <= HardEnd \/ <<cursor, cut>> \in block.atoms
  <1>1. cursor \in Int /\ end \in Int BY BlockFacts DEF Positions
  <1>2. CASE ~ \E s \in block.atoms : s[1] < end /\ end < s[2]
    <2>1. OutOfAtom(end) = end BY <1>2 DEF OutOfAtom
    <2>2. ASSUME NEW s \in block.atoms PROVE end <= s[1] \/ s[2] <= end
      <3>1. s[1] \in Int /\ s[2] \in Int BY BlockFacts DEF Positions
      <3>2. ~(s[1] < end) \/ ~(end < s[2]) BY <1>2
      <3> QED BY <1>1, <3>1, <3>2
    <2>3. BetweenSpans(end) BY <2>2 DEF BetweenSpans
    <2> QED BY <2>1, <2>3
  <1>3. CASE \E s \in block.atoms : s[1] < end /\ end < s[2]
    <2>1. PICK s : s = CHOOSE t \in block.atoms : t[1] < end /\ end < t[2] OBVIOUS
    <2>2. s \in block.atoms /\ s[1] < end /\ end < s[2] BY <1>3, <2>1
    <2>3. OutOfAtom(end) = IF s[1] > cursor THEN s[1] ELSE s[2] BY <1>3, <2>1 DEF OutOfAtom
    <2>4. /\ s[1] \in Positions /\ s[2] \in Positions /\ s = <<s[1], s[2]>>
          /\ s[2] <= block.length
      BY <2>2, BlockFacts
    <2>5. BetweenSpans(s[1]) /\ BetweenSpans(s[2])
      <3>1. ASSUME NEW t \in block.atoms
            PROVE  (s[1] <= t[1] \/ t[2] <= s[1]) /\ (s[2] <= t[1] \/ t[2] <= s[2])
        <4>1. Apart(s, t) /\ t[1] \in Positions /\ t[2] \in Positions /\ t[1] < t[2]
          BY <2>2, BlockFacts
        <4> QED BY <2>2, <2>4, <4>1, <1>1 DEF Apart, Positions
      <3> QED BY <3>1 DEF BetweenSpans
    <2>6. CASE s[1] > cursor
      <3>1. OutOfAtom(end) = s[1] BY <2>3, <2>6
      <3>2. s[1] <= HardEnd /\ s[1] <= block.length
        BY <1>1, <2>2, <2>4, BlockFacts DEF HardEnd, Positions
      <3> QED BY <2>4, <2>5, <2>6, <3>1, <3>2
    <2>7. CASE ~(s[1] > cursor)
      <3>1. OutOfAtom(end) = s[2] BY <2>3, <2>7
      <3>2. s[1] = cursor /\ cursor < s[2]
        BY <1>1, <2>2, <2>4, <2>7 DEF BetweenSpans, Positions
      <3> QED BY <2>2, <2>4, <2>5, <3>1, <3>2
    <2> QED BY <2>6, <2>7
  <1> QED BY <1>2, <1>3

-----------------------------------------------------------------------------
(* Segments: the parts of a block *)

\* One more part, from the cursor to a position that no span holds.
LEMMA CutsWhole ==
  ASSUME SegmentationTypeOK, PartsAreWhole, NEW end \in Positions, Cuts(end), cursor < end,
         end <= block.length, BetweenSpans(end),
         end - cursor <= MaxChars \/ <<cursor, end>> \in block.atoms
  PROVE  SegmentationTypeOK' /\ PartsAreWhole'
  <1>1. /\ parts' = Append(parts, <<cursor, end>>) /\ cursor' = end /\ block' = block
    BY DEF Cuts
  <1>2. PICK n \in Nat : n = Len(parts) BY BlockFacts
  <1>3. PICK new : new = <<cursor, end>> OBVIOUS
  <1>4. new \in Positions \X Positions /\ new[1] = cursor /\ new[2] = end
    BY <1>3, BlockFacts
  <1>5. /\ parts' \in Seq(Positions \X Positions) /\ Len(parts') = n + 1
        /\ parts'[n + 1] = new /\ \A i \in 1 .. n : parts'[i] = parts[i]
        /\ DOMAIN parts' = 1 .. (n + 1) /\ DOMAIN parts = 1 .. n
    BY <1>1, <1>2, <1>3, <1>4, BlockFacts, AppendProperties, LenProperties
  <1>6. SegmentationTypeOK'
    <2>1. cursor' \in 0 .. block.length BY <1>1, BlockFacts DEF Positions
    <2> QED BY <1>1, <1>5, <2>1 DEF SegmentationTypeOK, IsBlock, Positions
  <1>7. cursor = IF n = 0 THEN 0 ELSE parts[n][2]
    <2>1. parts = << >> <=> n = 0 BY <1>2, BlockFacts, EmptySeq
    <2> QED BY <1>2, <2>1 DEF PartsAreWhole
  <1>8. ASSUME NEW i \in 1 .. (n + 1)
        PROVE  /\ parts'[i][1] = IF i = 1 THEN 0 ELSE parts'[i - 1][2]
               /\ parts'[i][1] < parts'[i][2]
               /\ parts'[i][2] - parts'[i][1] > MaxChars => parts'[i] \in block.atoms
               /\ \A s \in block.atoms : parts'[i][2] <= s[1] \/ s[2] <= parts'[i][2]
    <2>1. CASE i \in 1 .. n
      <3>1. i # 1 => i - 1 \in 1 .. n BY <2>1
      <3>2. /\ parts[i][1] = IF i = 1 THEN 0 ELSE parts[i - 1][2]
            /\ parts[i][1] < parts[i][2]
            /\ parts[i][2] - parts[i][1] > MaxChars => parts[i] \in block.atoms
            /\ \A s \in block.atoms : parts[i][2] <= s[1] \/ s[2] <= parts[i][2]
        BY <1>5, <2>1 DEF PartsAreWhole
      <3>3. parts'[i] = parts[i] /\ (i # 1 => parts'[i - 1] = parts[i - 1])
        BY <1>5, <2>1, <3>1
      <3> QED BY <3>2, <3>3
    <2>2. CASE i = n + 1
      <3>1. parts'[i] = new BY <1>5, <2>2
      <3>2. cursor = IF i = 1 THEN 0 ELSE parts'[i - 1][2]
        <4>1. CASE n = 0 BY <1>7, <2>2, <4>1
        <4>2. CASE n # 0
          <5>1. n \in 1 .. n /\ i - 1 = n /\ i # 1 BY <2>2, <4>2
          <5> QED BY <1>5, <1>7, <4>2, <5>1
        <4> QED BY <4>1, <4>2
      <3>3. end - cursor > MaxChars => new \in block.atoms
        BY <1>3, BlockFacts DEF Positions
      <3> QED BY <1>4, <3>1, <3>2, <3>3 DEF BetweenSpans
    <2> QED BY <2>1, <2>2
  <1>9. cursor' = IF parts' = << >> THEN 0 ELSE parts'[Len(parts')][2]
    <2>1. parts' # << >> BY <1>5, EmptySeq
    <2> QED BY <1>1, <1>4, <1>5, <2>1
  <1>10. PartsAreWhole' BY <1>1, <1>5, <1>8, <1>9 DEF PartsAreWhole
  <1> QED BY <1>6, <1>10

LEMMA SegmentationInductiveInit == SegmentationInit => SegmentationTypeOK /\ PartsAreWhole
  BY LengthAssumption, EmptySeq
  DEF SegmentationInit, SegmentationTypeOK, PartsAreWhole, NoBlock, IsBlock

LEMMA SegmentationInductiveStep ==
  ASSUME SegmentationTypeOK, PartsAreWhole, [SegmentationNext]_segmentationVars
  PROVE  SegmentationTypeOK' /\ PartsAreWhole'
  <1>1. BetweenSpans(cursor)
    <2>1. CASE parts = << >>
      <3>1. cursor = 0 BY <2>1 DEF PartsAreWhole
      <3> QED BY <3>1, BlockFacts DEF BetweenSpans, Positions
    <2>2. CASE parts # << >>
      <3>1. Len(parts) \in DOMAIN parts BY <2>2, BlockFacts, EmptySeq, LenProperties
      <3>2. cursor = parts[Len(parts)][2] BY <2>2 DEF PartsAreWhole
      <3> QED BY <3>1, <3>2 DEF PartsAreWhole, BetweenSpans
    <2> QED BY <2>1, <2>2
  <1>2. CASE SegmentBlock
    <2>1. /\ block = NoBlock /\ UNCHANGED <<cursor, parts>>
          /\ \E n \in 1 .. MaxLength : block' \in BlocksOf(n)
      BY <1>2 DEF SegmentBlock
    <2>2. cursor = 0 BY <2>1, BlockFacts DEF NoBlock, Positions
    <2>3. parts = << >>
      <3>1. SUFFICES ASSUME parts # << >> PROVE FALSE OBVIOUS
      <3>2. PICK n \in DOMAIN parts : n = Len(parts) BY <3>1, BlockFacts, EmptySeq, LenProperties
      <3>3. parts[n][1] < parts[n][2] /\ parts[n][2] = 0
        BY <2>2, <3>1, <3>2 DEF PartsAreWhole
      <3>4. parts[n] \in Positions \X Positions BY <3>2, BlockFacts, ElementOfSeq, LenProperties
      <3> QED BY <3>3, <3>4 DEF Positions
    <2>4. IsBlock(block') BY <2>1 DEF BlocksOf
    <2>5. block'.length \in Nat BY <2>4, LengthAssumption DEF IsBlock
    <2>6. SegmentationTypeOK'
      BY <2>1, <2>2, <2>4, <2>5 DEF SegmentationTypeOK
    <2>7. parts' = << >> /\ cursor' = 0 BY <2>1, <2>2, <2>3
    <2> QED BY <2>6, <2>7 DEF PartsAreWhole
  <1>3. CASE Cut
    <2>1. PICK end : end = SoftEnd OBVIOUS
    <2>2. PICK cut : cut = OutOfAtom(end) OBVIOUS
    <2>3. HardEnd < block.length /\ Cuts(cut) BY <1>3, <2>1, <2>2 DEF Cut
    <2>4. end \in Positions /\ cursor < end /\ end <= HardEnd BY <2>1, <2>3, SoftEndInReach
    <2>5. end <= block.length BY <2>3, <2>4, BlockFacts DEF HardEnd, Positions
    <2>6. /\ cut \in Positions /\ cursor < cut /\ cut <= block.length /\ BetweenSpans(cut)
          /\ cut <= HardEnd \/ <<cursor, cut>> \in block.atoms
      BY <1>1, <2>2, <2>4, <2>5, OutOfAtomIsBetween
    <2>7. cut <= HardEnd => cut - cursor <= MaxChars
      BY <2>6, BlockFacts DEF HardEnd, Positions
    <2> QED BY <2>3, <2>6, <2>7, CutsWhole
  <1>4. CASE LastPart
    <2>1. PICK end : end = block.length OBVIOUS
    <2>2. cursor < end /\ HardEnd >= end /\ Cuts(end) BY <1>4, <2>1 DEF LastPart
    <2>3. end \in Positions /\ end <= block.length /\ end - cursor <= MaxChars
      BY <2>1, <2>2, BlockFacts DEF HardEnd, Positions
    <2>4. BetweenSpans(end) BY <2>1, BlockFacts DEF BetweenSpans
    <2> QED BY <2>2, <2>3, <2>4, CutsWhole
  <1>5. CASE UNCHANGED segmentationVars
    BY <1>5 DEF segmentationVars, SegmentationTypeOK, PartsAreWhole, IsBlock
  <1> QED BY <1>2, <1>3, <1>4, <1>5 DEF SegmentationNext

\* The parts of a block are the block: whatever its length, its sentences and its
\* spans, for every bound on their numbers, they follow each other without gap or overlap, none is empty, no span is
\* cut, and only a span makes a part too long (segment.py 105-164).
THEOREM BlocksAreCutWhole == SegmentationSpec => []PartsAreWhole
  <1>1. SegmentationInit => SegmentationTypeOK /\ PartsAreWhole BY SegmentationInductiveInit
  <1>2. /\ SegmentationTypeOK /\ PartsAreWhole /\ [SegmentationNext]_segmentationVars
        => SegmentationTypeOK' /\ PartsAreWhole'
    BY SegmentationInductiveStep
  <1> QED BY <1>1, <1>2, PTL DEF SegmentationSpec

-----------------------------------------------------------------------------
(* Context: the size of a selection *)

Share(sizes, S, i) == IF i \in S THEN sizes[i] ELSE 0

\* What Sums is defined to be.
IsSum(f, sizes, S, n) ==
    /\ f \in [0 .. n -> Nat] /\ f[0] = 0
    /\ \A i \in 1 .. n : f[i] = f[i - 1] + Share(sizes, S, i)

LEMMA SumExists ==
  ASSUME NEW sizes \in Seq(Nat), NEW S, NEW n \in Nat, n <= Len(sizes)
  PROVE  \E f : IsSum(f, sizes, S, n)
  <1> DEFINE Bad == {k \in 0 .. Len(sizes) : ~ \E f : IsSum(f, sizes, S, k)}
  <1>1. /\ Len(sizes) \in Nat /\ Bad \in SUBSET Nat /\ Bad \subseteq 0 .. Len(sizes)
        /\ \A k \in 0 .. Len(sizes) : k \in Bad <=> ~ \E f : IsSum(f, sizes, S, k)
    BY LenProperties
  <1> HIDE DEF Bad
  <1>2. ASSUME Bad # {} PROVE FALSE
    <2>1. PICK k \in Bad : \A m \in Bad : k <= m BY <1>1, <1>2, Minimum
    <2>2. k \in 0 .. Len(sizes) /\ ~ \E f : IsSum(f, sizes, S, k)
      BY <1>1, <2>1
    <2>3. CASE k = 0
      <3>1. IsSum([i \in 0 .. 0 |-> 0], sizes, S, 0) BY DEF IsSum
      <3> QED BY <2>2, <2>3, <3>1
    <2>4. CASE k # 0
      <3>1. PICK m \in Nat : k = m + 1 BY <1>1, <2>2, <2>4
      <3>2. m \notin Bad /\ m \in 0 .. Len(sizes) BY <1>1, <2>1, <2>2, <3>1
      <3>3. PICK g : IsSum(g, sizes, S, m) BY <1>1, <3>2
      <3>4. PICK x : x = g[m] + Share(sizes, S, k) OBVIOUS
      <3>5. x \in Nat
        <4>1. k \in 1 .. Len(sizes) BY <1>1, <2>2, <2>4
        <4>2. sizes[k] \in Nat BY <4>1, ElementOfSeq
        <4> QED BY <3>3, <3>4, <4>2 DEF IsSum, Share
      <3> DEFINE f == [i \in 0 .. k |-> IF i = k THEN x ELSE g[i]]
      <3>6. \A i \in 0 .. m : g[i] \in Nat BY <3>3 DEF IsSum
      <3>7. \A i \in 0 .. k : i = k \/ i \in 0 .. m BY <3>1
      <3>8. f \in [0 .. k -> Nat] BY <3>5, <3>6, <3>7
      <3>9. f[k] = x BY <3>1
      <3>10. \A i \in 0 .. m : f[i] = g[i]
        <4>1. \A i \in 0 .. m : i \in 0 .. k /\ i # k BY <3>1
        <4> QED BY <4>1
      <3> HIDE DEF f
      <3>11. f[0] = 0 BY <3>3, <3>10 DEF IsSum
      <3>12. ASSUME NEW i \in 1 .. k PROVE f[i] = f[i - 1] + Share(sizes, S, i)
        <4>1. CASE i = k
          <5>1. k - 1 = m /\ m \in 0 .. m BY <3>1
          <5> QED BY <3>4, <3>9, <3>10, <4>1, <5>1
        <4>2. CASE i # k
          <5>1. i \in 1 .. m /\ i \in 0 .. m /\ i - 1 \in 0 .. m BY <3>1, <4>2
          <5>2. f[i] = g[i] /\ f[i - 1] = g[i - 1] BY <3>10, <5>1
          <5>3. g[i] = g[i - 1] + Share(sizes, S, i) BY <3>3, <5>1 DEF IsSum
          <5> QED BY <5>2, <5>3
        <4> QED BY <4>1, <4>2
      <3>13. IsSum(f, sizes, S, k) BY <3>8, <3>11, <3>12 DEF IsSum
      <3> QED BY <2>2, <3>13
    <2> QED BY <2>3, <2>4
  <1> QED BY <1>1, <1>2

LEMMA SumsAreSums ==
  ASSUME NEW sizes \in Seq(Nat), NEW S
  PROVE  IsSum(Sums(sizes, S), sizes, S, Len(sizes))
  <1>1. PICK n \in Nat : n = Len(sizes) BY LenProperties
  <1>2. PICK f : IsSum(f, sizes, S, n)
    <2>1. n <= Len(sizes) BY <1>1
    <2> QED BY <2>1, SumExists, Zenon
  <1> DEFINE Solves(g) == g = [i \in 0 .. n |-> IF i = 0 THEN 0
                                                 ELSE g[i - 1] + (IF i \in S THEN sizes[i] ELSE 0)]
  <1>3. Solves(f)
    <2>1. f = [i \in 0 .. n |-> f[i]] BY <1>2 DEF IsSum
    <2>2. ASSUME NEW i \in 0 .. n
          PROVE  f[i] = IF i = 0 THEN 0 ELSE f[i - 1] + (IF i \in S THEN sizes[i] ELSE 0)
      BY <1>2 DEF IsSum, Share
    <2> QED BY <2>1, <2>2
  <1>4. Solves(Sums(sizes, S)) BY <1>1, <1>3 DEF Sums
  <1>5. ASSUME NEW g, Solves(g) PROVE IsSum(g, sizes, S, n)
    <2>1. /\ DOMAIN g = 0 .. n /\ g = [i \in 0 .. n |-> g[i]] /\ g[0] = 0
          /\ \A i \in 1 .. n : g[i] = g[i - 1] + Share(sizes, S, i)
      <3>1. /\ DOMAIN g = 0 .. n /\ g = [i \in 0 .. n |-> g[i]]
            /\ \A i \in 0 .. n :
                  g[i] = IF i = 0 THEN 0 ELSE g[i - 1] + (IF i \in S THEN sizes[i] ELSE 0)
        BY <1>5
      <3> HIDE DEF Solves
      <3>2. 0 \in 0 .. n /\ \A i \in 1 .. n : i \in 0 .. n /\ i # 0 OBVIOUS
      <3> QED BY <3>1, <3>2 DEF Share
    <2> HIDE DEF Solves
    <2> DEFINE Bad == {i \in 0 .. n : g[i] \notin Nat}
    <2>2. Bad = {}
      <3>1. SUFFICES ASSUME Bad # {} PROVE FALSE OBVIOUS
      <3>2. Bad \in SUBSET Nat OBVIOUS
      <3>3. PICK i \in Bad : \A j \in Bad : i <= j BY <3>1, <3>2, Minimum
      <3>4. i \in 1 .. n /\ g[i] \notin Nat BY <2>1, <3>3
      <3>5. i - 1 \in 0 .. n /\ ~(i <= i - 1) BY <3>4
      <3>6. g[i - 1] \in Nat BY <3>3, <3>5
      <3>7. Share(sizes, S, i) \in Nat BY <1>1, <3>4, ElementOfSeq DEF Share
      <3> QED BY <2>1, <3>4, <3>6, <3>7
    <2>3. g \in [0 .. n -> Nat] BY <2>1, <2>2
    <2> QED BY <2>1, <2>3 DEF IsSum
  <1> HIDE DEF Solves
  <1> QED BY <1>1, <1>4, <1>5

\* More of the same segments is not less.
LEMMA SumsGrow ==
  ASSUME NEW sizes \in Seq(Nat), NEW S, NEW T, S \subseteq T
  PROVE  LET n == Len(sizes) IN
         /\ Sums(sizes, S)[n] \in Nat /\ Sums(sizes, T)[n] \in Nat
         /\ Sums(sizes, S)[n] <= Sums(sizes, T)[n]
  <1>1. PICK n \in Nat : n = Len(sizes) BY LenProperties
  <1>2. PICK f, g : f = Sums(sizes, S) /\ g = Sums(sizes, T) OBVIOUS
  <1>3. IsSum(f, sizes, S, n) /\ IsSum(g, sizes, T, n) BY <1>1, <1>2, SumsAreSums
  <1>4. /\ f[0] = 0 /\ g[0] = 0 /\ \A i \in 0 .. n : f[i] \in Nat /\ g[i] \in Nat
        /\ \A i \in 1 .. n : /\ f[i] = f[i - 1] + Share(sizes, S, i)
                             /\ g[i] = g[i - 1] + Share(sizes, T, i)
    BY <1>3 DEF IsSum
  <1> DEFINE Bad == {i \in 0 .. n : ~(f[i] <= g[i])}
  <1>5. Bad = {}
    <2>1. SUFFICES ASSUME Bad # {} PROVE FALSE OBVIOUS
    <2>2. Bad \in SUBSET Nat OBVIOUS
    <2>3. PICK i \in Bad : \A j \in Bad : i <= j BY <2>1, <2>2, Minimum
    <2>4. i \in 1 .. n /\ ~(f[i] <= g[i]) BY <1>4, <2>3
    <2>5. i - 1 \in 0 .. n /\ ~(i <= i - 1) BY <2>4
    <2>6. f[i - 1] <= g[i - 1] BY <2>3, <2>5
    <2>7. PICK s, t : s = Share(sizes, S, i) /\ t = Share(sizes, T, i) OBVIOUS
    <2>8. s \in Nat /\ t \in Nat /\ s <= t
      <3>1. sizes[i] \in Nat BY <1>1, <2>4, ElementOfSeq
      <3> QED BY <2>7, <3>1 DEF Share
    <2>9. /\ f[i - 1] \in Nat /\ g[i - 1] \in Nat /\ f[i] = f[i - 1] + s /\ g[i] = g[i - 1] + t
      BY <1>4, <2>4, <2>5, <2>7
    <2> QED BY <2>4, <2>6, <2>8, <2>9
  <1>6. n \in 0 .. n /\ f[n] <= g[n] BY <1>5
  <1> QED BY <1>1, <1>2, <1>4, <1>6

-----------------------------------------------------------------------------
(* Context: which segments are chosen *)

LEMMA ContextTypes ==
  ASSUME ContextTypeOK
  PROVE  /\ window.fixed \in Nat /\ window.previous \in Seq(Nat)
         /\ MaxTokens \in Nat /\ MarkerTokens \in Nat /\ HeaderTokens \in Nat
         /\ Candidates(window) \subseteq 1 .. Len(window.previous)
         /\ Candidates(window) \subseteq Nat /\ Len(window.previous) \in Nat
         /\ rest \subseteq Nat /\ selected \subseteq Nat
         /\ low \in Nat /\ high \in Nat
  <1>1. /\ window.fixed \in 0 .. MaxFixed /\ window.previous \in Seq(1 .. MaxPart)
        /\ window.finished \subseteq DOMAIN window.previous
        /\ selected \cup rest \subseteq DOMAIN window.previous
        /\ low \in Nat /\ high \in Nat
    BY DEF ContextTypeOK
  <1>2. window.previous \in Seq(Nat)
    <2>1. 1 .. MaxPart \subseteq Nat BY TokenAssumption
    <2> QED BY <1>1, <2>1, SeqMonotonic
  <1>3. /\ DOMAIN window.previous = 1 .. Len(window.previous) /\ Len(window.previous) \in Nat
    BY <1>2, LenProperties
  <1>4. Candidates(window) \subseteq window.finished BY DEF Candidates
  <1> QED BY <1>1, <1>2, <1>3, <1>4, TokenAssumption

\* What fits does so without some of its segments.
LEMMA FewerFit ==
  ASSUME ContextTypeOK, NEW S, NEW T, S \subseteq T
  PROVE  /\ Tokens(S) \in Nat /\ Tokens(T) \in Nat /\ Tokens(S) <= Tokens(T)
         /\ Fits(T) => Fits(S)
         /\ Tokens({}) = window.fixed
  <1>1. Size(S) \in Nat /\ Size(T) \in Nat /\ Size(S) <= Size(T)
    BY ContextTypes, SumsGrow DEF Size
  <1>2. window.fixed \in Nat /\ HeaderTokens \in Nat /\ MaxTokens \in Nat BY ContextTypes
  <1>3. T = {} => S = {} OBVIOUS
  <1>4. Tokens(S) \in Nat /\ Tokens(T) \in Nat /\ Tokens(S) <= Tokens(T)
    BY <1>1, <1>2, <1>3 DEF Tokens
  <1>5. Tokens({}) = window.fixed BY <1>2 DEF Tokens
  <1> QED BY <1>2, <1>4, <1>5 DEF Fits

LEMMA LatestIsLatest ==
  ASSUME NEW n \in Nat, NEW S \in SUBSET (1 .. n), S # {}
  PROVE  Latest(S) \in S /\ \A i \in S : i <= Latest(S)
  <1>1. S \in SUBSET Nat /\ \A i \in S : i <= n OBVIOUS
  <1>2. \E x \in S : \A y \in S : y <= x BY <1>1, Maximum
  <1> QED BY <1>2 DEF Latest

\* The same texts, hence the same sizes.
LEMMA SameWindow ==
  ASSUME window' = window
  PROVE  /\ Candidates(window') = Candidates(window)
         /\ \A S : Tokens(S)' = Tokens(S) /\ (Fits(S)' <=> Fits(S))
  <1>1. \A S : Size(S)' = Size(S) BY DEF Size
  <1>2. \A S : Tokens(S)' = Tokens(S) BY <1>1 DEF Tokens
  <1> QED BY <1>2 DEF Fits

LEMMA BuildBegins ==
  ASSUME ContextInductive, Build
  PROVE  ContextInductive'
  <1>1. /\ window' \in Windows /\ at' = "choosing" /\ rest' = Candidates(window')
        /\ selected' = {} /\ low' \in Nat /\ high' \in Nat
    BY DEF Build, ContextInductive, ContextTypeOK
  <1>2. PICK n \in 0 .. MaxPrevious :
           window' \in [fixed : 0 .. MaxFixed, previous : [1 .. n -> 1 .. MaxPart],
                        finished : SUBSET (1 .. n)]
    BY <1>1 DEF Windows
  <1>3. PICK w : w = window' OBVIOUS
  <1>4. /\ w.fixed \in 0 .. MaxFixed /\ w.previous \in [1 .. n -> 1 .. MaxPart]
        /\ w.finished \subseteq 1 .. n
    BY <1>2, <1>3
  <1>5. n \in Nat /\ n <= MaxPrevious BY TokenAssumption
  <1>6. w.previous \in Seq(1 .. MaxPart) /\ Len(w.previous) = n /\ DOMAIN w.previous = 1 .. n
    <2>1. w.previous \in Seq(1 .. MaxPart) BY <1>4, <1>5, SeqDef
    <2>2. DOMAIN w.previous = 1 .. n BY <1>4
    <2>3. PICK l \in Nat : l = Len(w.previous) /\ DOMAIN w.previous = 1 .. l
      BY <2>1, LenProperties
    <2>4. l = n
      <3>1. 1 .. l = 1 .. n BY <2>2, <2>3
      <3>2. l # n => (l \in 1 .. l /\ l \notin 1 .. n) \/ (n \in 1 .. n /\ n \notin 1 .. l)
        BY <1>5
      <3> QED BY <3>1, <3>2
    <2> QED BY <2>1, <2>2, <2>3, <2>4
  <1>7. Candidates(w) \subseteq 1 .. n BY <1>4 DEF Candidates
  <1>8. ContextTypeOK' BY <1>1, <1>3, <1>4, <1>5, <1>6, <1>7 DEF ContextTypeOK
  <1>9. NewestFirstSoFar' BY <1>1 DEF NewestFirstSoFar
  <1> QED BY <1>1, <1>8, <1>9 DEF ContextInductive

LEMMA ConsiderIsGreedy ==
  ASSUME ContextInductive, Consider
  PROVE  ContextInductive'
  <1>1. PICK i : i = Latest(rest) OBVIOUS
  <1>2. PICK C : C = Candidates(window) OBVIOUS
  <1>3. PICK old : old = selected OBVIOUS
  <1>4. /\ at = "choosing" /\ rest # {} /\ at' = "choosing" /\ window' = window
        /\ selected' = IF Fits(old \cup {i}) THEN old \cup {i} ELSE old
        /\ rest' = rest \ {i} /\ low' = low /\ high' = high
    BY <1>1, <1>3 DEF Consider, PassOver
  <1>5. /\ ContextTypeOK /\ C \subseteq Nat /\ rest \subseteq C /\ old \subseteq C \ rest
        /\ \A c \in C \ rest : /\ \A r \in rest : r < c
                               /\ c \in old \/ ~ Fits(Newer(old, c) \cup {c})
        /\ old # {} => Fits(old)
    BY <1>2, <1>3, <1>4, ContextTypes DEF ContextInductive, NewestFirstSoFar
  <1>6. i \in rest /\ \A r \in rest : r <= i
    <2>1. rest \in SUBSET (1 .. Len(window.previous)) /\ Len(window.previous) \in Nat
      BY <1>2, <1>5, ContextTypes
    <2> QED BY <1>1, <1>4, <2>1, LatestIsLatest
  <1>7. \A j \in old : i < j BY <1>5, <1>6
  <1>8. selected' \subseteq C \ rest' /\ rest' \subseteq C /\ selected' \subseteq old \cup {i}
        /\ old \subseteq selected'
    BY <1>4, <1>5, <1>6
  <1>9. ASSUME NEW c \in C \ rest'
        PROVE  /\ \A r \in rest' : r < c
               /\ c \in selected' \/ ~ Fits(Newer(selected', c) \cup {c})
    <2>1. CASE c = i
      <3>1. \A r \in rest' : r \in Nat /\ r <= i /\ r # i BY <1>4, <1>5, <1>6
      <3>2. i \in Nat BY <1>5, <1>6
      <3>3. \A r \in rest' : r < i BY <3>1, <3>2
      <3>4. ASSUME i \notin selected' PROVE ~ Fits(Newer(selected', i) \cup {i})
        <4>1. ~ Fits(old \cup {i}) /\ selected' = old BY <1>4, <3>4
        <4>2. Newer(old, i) = old BY <1>5, <1>7, <3>2 DEF Newer
        <4> QED BY <4>1, <4>2
      <3> QED BY <2>1, <3>3, <3>4
    <2>2. CASE c # i
      <3>1. c \in C \ rest /\ i < c BY <1>4, <1>6, <1>5, <2>2
      <3>2. c \in Nat /\ i \in Nat BY <1>5, <1>6
      <3>3. ~(i > c) BY <3>1, <3>2
      <3>4. Newer(selected', c) = Newer(old, c) BY <1>8, <3>3 DEF Newer
      <3>5. c \in old \/ ~ Fits(Newer(old, c) \cup {c}) BY <1>5, <3>1
      <3> QED BY <1>4, <1>5, <1>8, <3>1, <3>4, <3>5
    <2> QED BY <2>1, <2>2
  <1>10. selected' # {} => Fits(selected') BY <1>4, <1>5
  <1>11. \A S : Fits(S)' <=> Fits(S) BY <1>4, SameWindow
  <1>12. C = Candidates(window') BY <1>2, <1>4
  <1>13. NewestFirstSoFar'
    BY <1>8, <1>9, <1>10, <1>11, <1>12 DEF NewestFirstSoFar, Newer
  <1>14. ContextTypeOK'
    BY <1>4, <1>3, <1>5, <1>6 DEF ContextTypeOK
  <1> QED BY <1>4, <1>13, <1>14 DEF ContextInductive

LEMMA ChoiceIsOver ==
  ASSUME ContextInductive, Chosen
  PROVE  ContextInductive'
  <1>1. /\ at = "choosing" /\ rest = {} /\ window' = window /\ rest' = rest
        /\ selected' = selected
        /\ at' = IF Fits(selected) THEN "done" ELSE "clipping"
        /\ low' = IF Fits(selected) THEN Tokens(selected) ELSE 0
        /\ high' = Tokens(selected)
    BY DEF Chosen
  <1>2. ContextTypeOK /\ NewestFirstSoFar BY <1>1 DEF ContextInductive
  <1>3. Tokens(selected) \in Nat /\ Tokens({}) = window.fixed BY <1>2, FewerFit
  <1>4. \A S : Tokens(S)' = Tokens(S) /\ (Fits(S)' <=> Fits(S)) BY <1>1, SameWindow
  <1>5. NewestFirstSoFar' BY <1>1, <1>2, <1>4 DEF NewestFirstSoFar, Newer
  <1>6. ContextTypeOK' BY <1>1, <1>2, <1>3 DEF ContextTypeOK
  <1>7. CASE Fits(selected)
    <2>1. at' = "done" /\ low' = Tokens(selected) BY <1>1, <1>7
    <2>2. Fits(selected)' /\ Tokens(selected)' = Tokens(selected) BY <1>1, <1>4, <1>7
    <2> QED BY <1>1, <1>5, <1>6, <2>1, <2>2 DEF ContextInductive
  <1>8. CASE ~ Fits(selected)
    <2>1. selected = {} BY <1>2, <1>8 DEF NewestFirstSoFar
    <2>2. at' = "clipping" /\ low' = 0 /\ high' = window.fixed /\ window.fixed \in Nat
      BY <1>1, <1>2, <1>3, <1>8, <2>1, ContextTypes
    <2>3. PrefixIsBetween' BY <1>1, <2>1, <2>2 DEF PrefixIsBetween
    <2>4. ~ Fits(selected)' BY <1>1, <1>4, <1>8
    <2> QED BY <1>1, <1>5, <1>6, <2>2, <2>3, <2>4 DEF ContextInductive
  <1> QED BY <1>7, <1>8

LEMMA SearchGoesOn ==
  ASSUME ContextInductive, Halve \/ Clipped
  PROVE  ContextInductive'
  <1>1. /\ at = "clipping" /\ window' = window /\ rest' = rest /\ selected' = selected
        /\ rest = {}
    BY DEF Halve, Clipped, ContextInductive
  <1>2. ContextTypeOK /\ NewestFirstSoFar /\ ~ Fits(selected) /\ PrefixIsBetween
    BY <1>1 DEF ContextInductive
  <1>3. \A S : Tokens(S)' = Tokens(S) /\ (Fits(S)' <=> Fits(S)) BY <1>1, SameWindow
  <1>4. NewestFirstSoFar' BY <1>1, <1>2, <1>3 DEF NewestFirstSoFar, Newer
  <1>5. ~ Fits(selected)' BY <1>1, <1>2, <1>3
  <1>6. low \in Nat /\ high \in Nat /\ window.fixed \in Nat /\ MarkerTokens \in Nat
        /\ MaxTokens \in Nat
    BY <1>2, ContextTypes
  <1>7. CASE Halve
    <2>1. PICK middle : middle = (low + high + 1) \div 2 OBVIOUS
    <2>2. /\ low < high /\ at' = at
          /\ IF middle + MarkerTokens <= MaxTokens
             THEN low' = middle /\ high' = high
             ELSE high' = middle - 1 /\ low' = low
      BY <1>7, <2>1 DEF Halve
    <2>3. middle \in Nat /\ low < middle /\ middle <= high BY <1>6, <2>1, <2>2
    <2>4. PrefixIsBetween'
      <3>1. /\ low <= high /\ high <= window.fixed
            /\ low = 0 \/ low + MarkerTokens <= MaxTokens
            /\ high < window.fixed => high + 1 + MarkerTokens > MaxTokens
            /\ selected = {}
        BY <1>2 DEF PrefixIsBetween
      <3> QED BY <1>1, <1>6, <2>2, <2>3, <3>1 DEF PrefixIsBetween
    <2>5. low' \in Nat /\ high' \in Nat BY <1>6, <2>2, <2>3
    <2>6. ContextTypeOK' BY <1>1, <1>2, <2>2, <2>5 DEF ContextTypeOK
    <2> QED BY <1>1, <1>4, <1>5, <2>2, <2>4, <2>6 DEF ContextInductive
  <1>8. CASE Clipped
    <2>1. at' = "done" /\ low' = low /\ high' = high /\ low = high BY <1>8 DEF Clipped
    <2>2. PrefixIsBetween' BY <1>1, <1>2, <2>1 DEF PrefixIsBetween
    <2>3. ContextTypeOK' BY <1>1, <1>2, <2>1 DEF ContextTypeOK
    <2> QED BY <1>1, <1>4, <1>5, <2>1, <2>2, <2>3 DEF ContextInductive
  <1> QED BY <1>7, <1>8

LEMMA ContextInductiveStep ==
  ASSUME ContextInductive, [ContextNext]_contextVars
  PROVE  ContextInductive'
  <1>1. CASE UNCHANGED contextVars
    <2>1. \A S : Tokens(S)' = Tokens(S) /\ (Fits(S)' <=> Fits(S))
      BY <1>1, SameWindow DEF contextVars
    <2> QED
      BY <1>1, <2>1
      DEF contextVars, ContextInductive, ContextTypeOK, NewestFirstSoFar, Newer, PrefixIsBetween
  <1> QED BY <1>1, BuildBegins, ConsiderIsGreedy, ChoiceIsOver, SearchGoesOn DEF ContextNext

LEMMA ContextInductiveInit == ContextInit => ContextInductive
  <1> SUFFICES ASSUME ContextInit PROVE ContextInductive OBVIOUS
  <1>1. /\ window.fixed = 0 /\ window.previous = << >> /\ window.finished = {}
        /\ at = "idle" /\ rest = {} /\ selected = {} /\ low = 0 /\ high = 0
    BY DEF ContextInit
  <1> QED BY <1>1, TokenAssumption DEF ContextInductive, ContextTypeOK

\* Whatever the sizes of the texts and the budget are.
THEOREM ContextInvariant == ContextSpec => []ContextInductive
  <1> QED BY ContextInductiveInit, ContextInductiveStep, PTL DEF ContextSpec

\* The context of a segment keeps to its budget, holds the newest translations that
\* fit, and is cut off only when it must and as late as it can be
\* (context.py 72-146).
THEOREM ContextsAreBest == ContextSpec => []ContextIsBest
  <1>1. ContextInductive => ContextIsBest
    <2> SUFFICES ASSUME ContextInductive, at = "done" PROVE ContextIsBest
      BY DEF ContextIsBest
    <2>1. ContextTypeOK /\ NewestFirstSoFar /\ rest = {} BY DEF ContextInductive
    <2>2. Fits({}) => Fits(selected) BY <2>1 DEF NewestFirstSoFar
    <2>3. Fits(selected) => Fits({}) BY <2>1, FewerFit
    <2>4. ASSUME Fits({}) PROVE NewestFirst
      <3>1. ASSUME NEW S \in SUBSET Candidates(window), Fits(S), S # selected
            PROVE  Latest((S \ selected) \cup (selected \ S)) \in selected
        <4>1. PICK D, C : D = (S \ selected) \cup (selected \ S) /\ C = Candidates(window) OBVIOUS
        <4>2. D # {} /\ D \subseteq C /\ selected \subseteq C
          BY <2>1, <3>1, <4>1 DEF NewestFirstSoFar
        <4>3. PICK n \in Nat : C \subseteq 1 .. n BY <2>1, <4>1, ContextTypes
        <4>4. PICK i : i = Latest(D) OBVIOUS
        <4>5. i \in D /\ \A j \in D : j <= i
          BY <4>2, <4>3, <4>4, LatestIsLatest
        <4>6. ASSUME i \notin selected PROVE FALSE
          <5>1. i \in S /\ i \in C \ rest BY <2>1, <4>1, <4>2, <4>5, <4>6
          <5>2. ~ Fits(Newer(selected, i) \cup {i})
            BY <2>1, <4>1, <4>6, <5>1 DEF NewestFirstSoFar
          <5>3. ASSUME NEW j \in Newer(selected, i) PROVE j \in S
            <6>1. j \in selected /\ j > i /\ j \in Nat /\ i \in Nat
              BY <4>2, <4>3, <5>1, <5>3 DEF Newer
            <6>2. ~(j <= i) BY <6>1
            <6> QED BY <4>1, <4>5, <6>1, <6>2
          <5>4. Newer(selected, i) \cup {i} \subseteq S BY <5>1, <5>3
          <5> QED BY <2>1, <3>1, <5>2, <5>4, FewerFit
        <4> QED BY <4>1, <4>4, <4>6
      <3> QED BY <3>1 DEF NewestFirst
    <2>5. ASSUME Fits({}) PROVE low = Tokens(selected) /\ low <= MaxTokens
      BY <2>2, <2>5 DEF ContextInductive, Fits
    <2>6. ASSUME ~ Fits({})
          PROVE  /\ selected = {}
                 /\ low = 0 \/ low + MarkerTokens <= MaxTokens
                 /\ low < window.fixed => low + 1 + MarkerTokens > MaxTokens
      BY <2>3, <2>6 DEF ContextInductive, PrefixIsBetween
    <2> QED BY <2>4, <2>5, <2>6 DEF ContextIsBest
  <1> QED BY <1>1, ContextInvariant, PTL

-----------------------------------------------------------------------------
(* Protection: what a pattern sees *)

LEMMA TextFacts ==
  ASSUME ProtectionTypeOK
  PROVE  /\ Len(source) \in Nat /\ DOMAIN source = 1 .. Len(source)
         /\ Len(made) \in Nat /\ DOMAIN made = 1 .. Len(made) /\ made \in Seq(Stretches)
         /\ \A p \in DOMAIN source : source[p] \in Lexemes
         /\ \A m \in DOMAIN made : /\ made[m].from \in 1 .. Len(source)
                                   /\ made[m].to \in 1 .. Len(source)
                                   /\ made[m].from <= made[m].to
         /\ restored \in 0 .. Len(made) /\ scan \in 1 .. (Len(source) + 1)
         /\ pass \in Nat
  <1>1. source \in Seq(Lexemes)
    <2>1. << >> \in Seq(Lexemes) OBVIOUS
    <2> QED BY <2>1 DEF ProtectionTypeOK, IsText
  <1>2. Len(source) \in Nat /\ DOMAIN source = 1 .. Len(source)
    BY <1>1, LenProperties
  <1>3. \A p \in DOMAIN source : source[p] \in Lexemes BY <1>1, <1>2, ElementOfSeq
  <1>4. made \in Seq(Stretches) /\ Len(made) \in Nat /\ DOMAIN made = 1 .. Len(made)
    BY LenProperties DEF ProtectionTypeOK
  <1>5. ASSUME NEW m \in DOMAIN made
        PROVE  /\ made[m].from \in 1 .. Len(source) /\ made[m].to \in 1 .. Len(source)
               /\ made[m].from <= made[m].to
    <2>1. made[m] \in Stretches BY <1>4, ElementOfSeq
    <2> QED BY <1>2, <2>1 DEF Stretches, ProtectionTypeOK
  <1>6. pass \in Nat
    <2>1. Len(Passes[format]) \in {2, 9}
      BY DEF ProtectionTypeOK, Passes
    <2> QED BY <2>1 DEF ProtectionTypeOK
  <1> QED BY <1>2, <1>3, <1>4, <1>5, <1>6 DEF ProtectionTypeOK

LEMMA SeenFacts ==
  ASSUME ProtectionTypeOK, NEW p
  PROVE  /\ Seen(p) # "end" => p \in DOMAIN source
         /\ Seen(p) # "marker" /\ p \in Int =>
               \A m \in DOMAIN made : ~(made[m].from <= p /\ p <= made[m].to)
         /\ Seen(p) = "marker" \/ Seen(p) = "end" \/ Seen(p) = source[p]
  <1>1. ASSUME Seen(p) # "marker", p \in Int, NEW m \in DOMAIN made, made[m].from <= p, p <= made[m].to
        PROVE  FALSE
    <2>1. p \notin DOMAIN source BY <1>1 DEF Seen
    <2> QED BY <1>1, <2>1, TextFacts
  <1> QED BY <1>1 DEF Seen

\* The first of a set of lexemes is found, if only at the end of the text.
LEMMA FirstIsFound ==
  ASSUME ProtectionTypeOK, NEW S, NEW p \in 1 .. (Len(source) + 1)
  PROVE  /\ First(S, p) \in p .. (Len(source) + 1)
         /\ Seen(First(S, p)) \in S \cup {"end"}
  <1> DEFINE T == {q \in p .. (Len(source) + 1) : Seen(q) \in S \cup {"end"}}
  <1>1. Len(source) \in Nat BY TextFacts
  <1>2. Seen(Len(source) + 1) = "end" BY TextFacts DEF Seen
  <1>3. T \in SUBSET Nat /\ T # {} BY <1>1, <1>2
  <1>4. PICK q \in T : \A r \in T : q <= r BY <1>3, Minimum
  <1>5. ASSUME NEW r \in p .. (q - 1) PROVE Seen(r) \notin S \cup {"end"}
    <2>1. r \in p .. (Len(source) + 1) /\ r < q BY <1>1, <1>3, <1>4, <1>5
    <2> QED BY <1>3, <1>4, <2>1
  <1>6. \E x \in p .. (Len(source) + 1) :
           /\ Seen(x) \in S \cup {"end"}
           /\ \A r \in p .. (x - 1) : Seen(r) \notin S \cup {"end"}
    BY <1>4, <1>5
  <1> QED BY <1>6 DEF First

\* What a marker is made of: it begins with something that is seen, and it ends with
\* something that is seen or right before it.
Clean(s) ==
    /\ s \in Stretches /\ s.from <= s.to
    /\ Seen(s.from) # "marker"
    /\ Seen(s.to) # "marker" \/ Seen(s.to + 1) # "marker"

LEMMA MatchIsClean ==
  ASSUME ProtectionTypeOK, NEW kind, NEW i \in 1 .. Len(source), NEW j \in i .. Len(source),
         Matches(kind, i, j)
  PROVE  /\ Seen(i) # "marker" /\ Seen(i) # "end"
         /\ Seen(j) # "marker" \/ Seen(j + 1) # "marker"
         /\ kind \in {"link", "reference"} =>
               /\ LabelEnd(i + 1) \in (i + 1) .. j
               /\ Seen(LabelEnd(i + 1)) # "marker" /\ Seen(j) # "marker"
  <1>1. Seen(i) # "marker" /\ Seen(i) # "end" BY DEF Matches
  <1>2. CASE kind = "url"
    <2>1. j + 1 = First(Stops, i + 1) BY <1>2 DEF Matches
    <2>2. i + 1 \in 1 .. (Len(source) + 1) BY TextFacts
    <2>3. Seen(j + 1) \in Stops \cup {"end"} BY <2>1, <2>2, FirstIsFound
    <2> QED BY <1>1, <1>2, <2>3 DEF Stops
  <1>3. CASE kind \in {"link", "reference"}
    <2> DEFINE k == LabelEnd(i + 1)
    <2>1. /\ Seen(k) = "]" /\ k > i + 1 /\ j > k + 2
          /\ Seen(j) = ")" \/ Seen(j) = "]"
      BY <1>3 DEF Matches, LabelAnd, BothFilled, Closed
    <2>2. k \in Nat BY <2>1, SeenFacts, TextFacts
    <2> HIDE DEF k
    <2>3. k \in (i + 1) .. j BY <2>1, <2>2
    <2> QED BY <1>1, <2>1, <2>3 DEF k
  <1>4. CASE kind \notin {"url", "link", "reference"}
    <2>1. Seen(j) \in {"tick", ")", ">", "}", "*", "internal"}
      BY <1>4 DEF Matches, LabelAnd, Closed
    <2> QED BY <1>1, <1>4, <2>1
  <1> QED BY <1>2, <1>3, <1>4

\* An address, an emphasis and an internal marker are found wherever they are seen.
LEMMA AlwaysFound ==
  ASSUME ProtectionTypeOK, NEW p \in DOMAIN source,
         \/ Passes[format][pass] = "url" /\ Seen(p) = "u"
         \/ Passes[format][pass] = "emphasis" /\ Seen(p) = "*"
         \/ Passes[format][pass] = "internal" /\ Seen(p) = "internal"
  PROVE  MatchesAt(p)
  <1>1. p \in 1 .. Len(source) /\ Len(source) \in Nat BY TextFacts
  <1>2. CASE Passes[format][pass] = "url" /\ Seen(p) = "u"
    <2> DEFINE f == First(Stops, p + 1)
    <2>1. f \in (p + 1) .. (Len(source) + 1) BY <1>1, FirstIsFound
    <2> HIDE DEF f
    <2>2. f - 1 \in p .. Len(source) /\ (f - 1) + 1 = f BY <1>1, <2>1
    <2>3. Matches("url", p, f - 1) BY <1>2, <2>2 DEF Matches, f
    <2> QED BY <1>2, <2>2, <2>3 DEF MatchesAt
  <1>3. CASE Passes[format][pass] = "emphasis" /\ Seen(p) = "*"
    BY <1>1, <1>3 DEF MatchesAt, Matches
  <1>4. CASE Passes[format][pass] = "internal" /\ Seen(p) = "internal"
    BY <1>1, <1>4 DEF MatchesAt, Matches
  <1> QED BY <1>2, <1>3, <1>4

\* What begins and ends in sight takes a marker along as a whole or leaves it alone.
LEMMA WholeOrNot ==
  ASSUME ProtectionTypeOK, NEW s, Clean(s), NEW m \in DOMAIN made
  PROVE  Disjoint(made[m], s) \/ Within(made[m], s)
  <1>1. PICK f, t : f = made[m].from /\ t = made[m].to OBVIOUS
  <1>2. PICK a, b : a = s.from /\ b = s.to OBVIOUS
  <1>3. PICK n \in Nat : n = Len(source) /\ DOMAIN source = 1 .. n BY TextFacts
  <1>4. f \in 1 .. n /\ t \in 1 .. n /\ f <= t BY <1>1, <1>3, TextFacts
  <1>5. a \in 1 .. n /\ b \in 1 .. n /\ a <= b BY <1>2, <1>3 DEF Clean, Stretches
  <1>6. ~(f <= a /\ a <= t) BY <1>1, <1>2, <1>4, <1>5, SeenFacts DEF Clean
  <1>7. ~(f <= b /\ b <= t) \/ ~(f <= b + 1 /\ b + 1 <= t)
    BY <1>1, <1>2, <1>4, <1>5, SeenFacts DEF Clean
  <1>8. t < a \/ b < f \/ (a <= f /\ t <= b) BY <1>4, <1>5, <1>6, <1>7
  <1> QED BY <1>1, <1>2, <1>8 DEF Disjoint, Within

-----------------------------------------------------------------------------
(* Protection: the steps *)

LEMMA TextIsTaken ==
  ASSUME ProtectionInductive, Protect
  PROVE  ProtectionInductive'
  <1>1. /\ source = << >> /\ outcome' = "masking" /\ pass' = 1 /\ scan' = 1 /\ made' = << >>
        /\ answer' = << >> /\ restored' = 0
    BY DEF Protect, ProtectionInductive, AllPassesFirst, AnswersInOrder
  <1>2. /\ IsText(source') /\ format' \in {"md", "plain"}
        /\ \A p \in DOMAIN source' : source'[p] \in Lexemes
    <2>1. IsText(source') /\ format' \in {"md", "plain"} BY TextAssumption DEF Protect
    <2> QED BY <2>1, ElementOfSeq, LenProperties DEF IsText
  <1>3. Len(source') \in Nat /\ DOMAIN source' = 1 .. Len(source')
    BY <1>2, LenProperties DEF IsText
  <1>4. DOMAIN Passes = {"md", "plain"} /\ Len(Passes[format']) \in {2, 9}
    BY <1>2 DEF Passes
  <1>5. ProtectionTypeOK'
    <2>1. Len(made') = 0 /\ DOMAIN made' = {} /\ made' \in Seq(Stretches') BY <1>1
    <2> QED BY <1>1, <1>2, <1>3, <1>4, <2>1 DEF ProtectionTypeOK
  <1>6. ASSUME NEW kind, NEW lexeme PROVE Hidden(kind, lexeme)'
    <2>1. DOMAIN Passes[format'] = 1 .. 2 \/ DOMAIN Passes[format'] = 1 .. 9
      BY <1>2 DEF Passes
    <2>2. \A p \in DOMAIN source', q \in DOMAIN Passes[format'] : ~(q < pass') /\ ~(p < scan')
      BY <1>1, <1>3, <2>1
    <2> QED BY <2>2 DEF Hidden
  <1>7. NoMarkerIsCut' BY <1>1 DEF NoMarkerIsCut
  <1>8. AllPassesFirst' BY <1>1, <1>4 DEF AllPassesFirst
  <1>9. AnswersInOrder' BY <1>1 DEF AnswersInOrder
  <1> QED BY <1>5, <1>6, <1>7, <1>8, <1>9 DEF ProtectionInductive, NothingIsLeft

\* What is seen stays so or goes behind a marker.
LEMMA SeenLater ==
  ASSUME ProtectionTypeOK, source' = source, NEW R \in Seq(Stretches), made' = made \o R, NEW p
  PROVE  /\ Seen(p)' = Seen(p) \/ Seen(p)' = "marker"
         /\ \A x \in DOMAIN R : R[x].from <= p /\ p <= R[x].to =>
               Seen(p)' \in {"marker", "end"}
  <1>1. PICK k, l : k = Len(made) /\ l = Len(R) OBVIOUS
  <1>2. /\ k \in Nat /\ DOMAIN made = 1 .. k /\ l \in Nat /\ DOMAIN R = 1 .. l
        /\ made \in Seq(Stretches)
    BY <1>1, TextFacts, LenProperties
  <1>3. /\ made' \in Seq(Stretches) /\ Len(made') = k + l
        /\ \A x \in 1 .. (k + l) : made'[x] = IF x <= k THEN made[x] ELSE R[x - k]
    BY <1>1, <1>2, ConcatProperties
  <1>4. DOMAIN made' = 1 .. (k + l) BY <1>3, LenProperties
  <1>5. \A m \in DOMAIN made : m \in DOMAIN made' /\ made'[m] = made[m] BY <1>2, <1>3, <1>4
  <1>6. \A x \in DOMAIN R : k + x \in DOMAIN made' /\ made'[k + x] = R[x]
    <2>1. ASSUME NEW x \in DOMAIN R PROVE k + x \in DOMAIN made' /\ made'[k + x] = R[x]
      <3>1. k + x \in 1 .. (k + l) /\ ~(k + x <= k) /\ (k + x) - k = x BY <1>2, <2>1
      <3>2. made'[k + x] = R[(k + x) - k] BY <1>3, <3>1
      <3> QED BY <1>4, <3>1, <3>2
    <2> QED BY <2>1
  <1> QED BY <1>5, <1>6 DEF Seen

CleanList(R) ==
    /\ R \in Seq(Stretches) /\ Len(R) \in {1, 2} /\ DOMAIN R = 1 .. Len(R)
    /\ \A x \in DOMAIN R : Clean(R[x])
    /\ \A x, y \in DOMAIN R : x < y => Disjoint(R[x], R[y])

\* What is replaced is in sight, and the two markers of a link are apart.
LEMMA ReplacedIsClean ==
  ASSUME ProtectionTypeOK, NEW kind, NEW i \in 1 .. Len(source), NEW j \in i .. Len(source),
         Matches(kind, i, j), NEW R, R = Replaced(kind, i, j)
  PROVE  /\ CleanList(R)
         /\ kind \notin {"link", "reference"} => R = << [from |-> i, to |-> j] >>
  <1>1. DOMAIN source = 1 .. Len(source) /\ Len(source) \in Nat BY TextFacts
  <1>2. CASE kind \in {"link", "reference"}
    <2>1. PICK k : k = LabelEnd(i + 1) OBVIOUS
    <2>2. k \in (i + 1) .. j /\ Seen(k) # "marker" /\ Seen(j) # "marker" /\ Seen(i) # "marker"
      BY <1>2, <2>1, MatchIsClean
    <2>3. R = << [from |-> i, to |-> i], [from |-> k, to |-> j] >> BY <1>2, <2>1 DEF Replaced
    <2>4. k \in 1 .. Len(source) /\ j \in 1 .. Len(source) /\ k <= j /\ i < k
      BY <1>1, <2>2
    <2>5. Clean([from |-> i, to |-> i]) /\ Clean([from |-> k, to |-> j])
      BY <1>1, <2>2, <2>4 DEF Clean, Stretches
    <2>6. Disjoint([from |-> i, to |-> i], [from |-> k, to |-> j]) BY <2>4 DEF Disjoint
    <2>7. R \in Seq(Stretches) /\ Len(R) = 2 BY <2>3, <2>5 DEF Clean
    <2>8. DOMAIN R = 1 .. 2 /\ R[1] = [from |-> i, to |-> i] /\ R[2] = [from |-> k, to |-> j]
      BY <2>3
    <2> QED BY <1>2, <2>5, <2>6, <2>7, <2>8 DEF CleanList
  <1>3. CASE kind \notin {"link", "reference"}
    <2>1. R = << [from |-> i, to |-> j] >> BY <1>3 DEF Replaced
    <2>2. j \in 1 .. Len(source) /\ i <= j BY <1>1
    <2>3. Clean([from |-> i, to |-> j]) BY <1>1, <2>2, MatchIsClean DEF Clean, Stretches
    <2>4. R \in Seq(Stretches) /\ Len(R) = 1 /\ DOMAIN R = 1 .. 1 /\ R[1] = [from |-> i, to |-> j]
      BY <2>1, <2>3 DEF Clean
    <2> QED BY <2>1, <2>3, <2>4 DEF CleanList
  <1> QED BY <1>2, <1>3

\* What a pattern always finds is gone up to where it goes on looking.
LEMMA StaysHidden ==
  ASSUME ProtectionTypeOK, Substitute, NEW kind, NEW lexeme,
         lexeme \notin {"marker", "end"}, kind \notin {"link", "reference"},
         \A p \in DOMAIN source :
             Passes[format][pass] = kind /\ Seen(p) = lexeme => MatchesAt(p),
         Hidden(kind, lexeme)
  PROVE  Hidden(kind, lexeme)'
  <1>0. PICK i \in scan .. Len(source) :
           /\ \A h \in scan .. (i - 1) : ~ MatchesAt(h)
           /\ \E j \in i .. Len(source) : /\ Matches(Passes[format][pass], i, j)
                                          /\ made' = made \o Replaced(Passes[format][pass], i, j)
                                          /\ scan' = j + 1
    BY DEF Substitute
  <1>1. PICK j \in i .. Len(source) :
           /\ \A h \in scan .. (i - 1) : ~ MatchesAt(h)
           /\ Matches(Passes[format][pass], i, j)
           /\ made' = made \o Replaced(Passes[format][pass], i, j)
           /\ scan' = j + 1
    BY <1>0
  <1>2. source' = source /\ format' = format /\ pass' = pass BY DEF Substitute
  <1>3. PICK R : R = Replaced(Passes[format][pass], i, j) OBVIOUS
  <1>4. /\ i \in 1 .. Len(source) /\ DOMAIN source = 1 .. Len(source) /\ Len(source) \in Nat
        /\ scan \in Nat /\ pass \in Nat
    BY TextFacts
  <1>7. PICK pattern : pattern = Passes[format][pass] OBVIOUS
  <1>8. Matches(pattern, i, j) /\ R = Replaced(pattern, i, j) BY <1>1, <1>3, <1>7
  <1>5. R \in Seq(Stretches) BY <1>4, <1>8, ReplacedIsClean DEF CleanList
  <1>6. ASSUME NEW p \in DOMAIN source, NEW q \in DOMAIN Passes[format],
               Passes[format][q] = kind, q < pass \/ (q = pass /\ p < j + 1),
               Seen(p)' = lexeme
        PROVE  FALSE
    <2>1. Seen(p) = lexeme BY <1>1, <1>2, <1>3, <1>5, <1>6, SeenLater
    <2>2. q = pass /\ ~(p < scan) BY <1>6, <2>1 DEF Hidden
    <2>3. p \in scan .. (i - 1) \/ (i <= p /\ p <= j) BY <1>4, <1>6, <2>2
    <2>4. ASSUME i <= p, p <= j PROVE FALSE
      <3>1. 1 \in DOMAIN R /\ R[1].from = i /\ R[1].to = j
        <4>1. pattern \notin {"link", "reference"} BY <1>6, <1>7, <2>2
        <4>2. R = << [from |-> i, to |-> j] >> BY <1>4, <1>8, <4>1, ReplacedIsClean
        <4> QED BY <4>2
      <3>2. Seen(p)' \in {"marker", "end"} BY <1>1, <1>2, <1>3, <1>5, <2>4, <3>1, SeenLater
      <3> QED BY <1>6, <3>2
    <2> QED BY <1>1, <1>6, <2>1, <2>2, <2>3, <2>4
  <1> QED BY <1>1, <1>2, <1>6 DEF Hidden

LEMMA MatchIsReplaced ==
  ASSUME ProtectionInductive, Substitute
  PROVE  ProtectionInductive'
  <1>0. PICK i \in scan .. Len(source) : \E j \in i .. Len(source) :
           /\ Matches(Passes[format][pass], i, j)
           /\ made' = made \o Replaced(Passes[format][pass], i, j)
           /\ scan' = j + 1
    BY DEF Substitute
  <1>1. PICK j \in i .. Len(source) :
           /\ Matches(Passes[format][pass], i, j)
           /\ made' = made \o Replaced(Passes[format][pass], i, j)
           /\ scan' = j + 1
    BY <1>0
  <1>2. /\ source' = source /\ format' = format /\ pass' = pass /\ answer' = answer
        /\ restored' = restored /\ outcome' = outcome /\ outcome = "masking"
    BY DEF Substitute
  <1>3. PICK R : R = Replaced(Passes[format][pass], i, j) OBVIOUS
  <1>4. /\ i \in 1 .. Len(source) /\ DOMAIN source = 1 .. Len(source) /\ Len(source) \in Nat
        /\ j \in 1 .. Len(source)
    BY TextFacts DEF ProtectionInductive
  <1>5. ProtectionTypeOK BY DEF ProtectionInductive
  <1>6. /\ R \in Seq(Stretches) /\ Len(R) \in {1, 2} /\ DOMAIN R = 1 .. Len(R)
        /\ \A x \in DOMAIN R : Clean(R[x])
        /\ \A x, y \in DOMAIN R : x < y => Disjoint(R[x], R[y])
    <2>1. PICK pattern : pattern = Passes[format][pass] OBVIOUS
    <2>2. Matches(pattern, i, j) /\ R = Replaced(pattern, i, j) BY <1>1, <1>3, <2>1
    <2>3. CleanList(R) BY <1>4, <1>5, <2>2, ReplacedIsClean
    <2> QED BY <2>3 DEF CleanList
  <1>7. answer = << >> /\ restored = 0
    BY <1>2 DEF ProtectionInductive, AnswersInOrder
  <1>8. PICK k, l : k = Len(made) /\ l = Len(R) OBVIOUS
  <1>9. /\ k \in Nat /\ DOMAIN made = 1 .. k /\ l \in Nat /\ DOMAIN R = 1 .. l
        /\ made \in Seq(Stretches)
    BY <1>5, <1>6, <1>8, TextFacts
  <1>10. /\ made' \in Seq(Stretches) /\ Len(made') = k + l
         /\ \A x \in 1 .. (k + l) : made'[x] = IF x <= k THEN made[x] ELSE R[x - k]
    BY <1>1, <1>3, <1>6, <1>8, <1>9, ConcatProperties
  <1>11. DOMAIN made' = 1 .. (k + l) BY <1>10, LenProperties
  <1>12. \A x \in DOMAIN made' : \/ x \in DOMAIN made /\ made'[x] = made[x]
                                 \/ ~(x <= k) /\ x - k \in DOMAIN R /\ made'[x] = R[x - k]
    BY <1>9, <1>10, <1>11
  <1>13. ProtectionTypeOK'
    <2>1. \A x \in DOMAIN made' : made'[x].from <= made'[x].to
      BY <1>5, <1>6, <1>12, TextFacts DEF Clean
    <2>2. scan' \in 1 .. (Len(source) + 1) BY <1>1, <1>4
    <2>3. restored' \in 0 .. Len(made') BY <1>2, <1>7, <1>9, <1>10
    <2>4. Stretches' = Stretches BY <1>2 DEF Stretches
    <2> QED BY <1>2, <1>5, <1>7, <1>10, <2>1, <2>2, <2>3, <2>4 DEF ProtectionTypeOK
  <1>14. NoMarkerIsCut'
    <2>1. ASSUME NEW m \in DOMAIN made', NEW n \in DOMAIN made', m < n
          PROVE  Disjoint(made'[m], made'[n]) \/ Within(made'[m], made'[n])
      <3>1. CASE n \in DOMAIN made /\ made'[n] = made[n]
        <4>1. m \in DOMAIN made /\ made'[m] = made[m] BY <1>9, <1>11, <1>12, <2>1, <3>1
        <4> QED BY <2>1, <3>1, <4>1 DEF ProtectionInductive, NoMarkerIsCut
      <3>2. CASE ~(n <= k) /\ n - k \in DOMAIN R /\ made'[n] = R[n - k]
        <4>1. CASE m \in DOMAIN made /\ made'[m] = made[m]
          BY <1>5, <1>6, <3>2, <4>1, WholeOrNot
        <4>2. CASE ~(m <= k) /\ m - k \in DOMAIN R /\ made'[m] = R[m - k]
          <5>1. m - k < n - k BY <1>9, <1>11, <2>1
          <5> QED BY <1>6, <3>2, <4>2, <5>1
        <4> QED BY <1>12, <4>1, <4>2
      <3> QED BY <1>12, <3>1, <3>2
    <2> QED BY <2>1 DEF NoMarkerIsCut, Disjoint, Within
  <1>15. NothingIsLeft'
    <2>1. Hidden("url", "u")'
      BY <1>5, AlwaysFound, StaysHidden DEF ProtectionInductive, NothingIsLeft
    <2>2. Hidden("emphasis", "*")'
      BY <1>5, AlwaysFound, StaysHidden DEF ProtectionInductive, NothingIsLeft
    <2>3. Hidden("internal", "internal")'
      BY <1>5, AlwaysFound, StaysHidden DEF ProtectionInductive, NothingIsLeft
    <2> QED BY <2>1, <2>2, <2>3 DEF NothingIsLeft
  <1>16. AllPassesFirst' BY <1>2 DEF ProtectionInductive, AllPassesFirst
  <1>17. AnswersInOrder' BY <1>2, <1>7 DEF AnswersInOrder
  <1> QED BY <1>13, <1>14, <1>15, <1>16, <1>17 DEF ProtectionInductive

\* What is seen and what is buried depend on the text and its markers only.
LEMMA SameMarkers ==
  ASSUME source' = source, made' = made
  PROVE  /\ \A p : Seen(p)' = Seen(p)
         /\ \A m : Buried(m)' = Buried(m)
         /\ Stretches' = Stretches
         /\ NoMarkerIsCut' = NoMarkerIsCut
  BY DEF Seen, Buried, Stretches, NoMarkerIsCut, Within, Disjoint

LEMMA PatternIsThrough ==
  ASSUME ProtectionInductive, NextPass
  PROVE  ProtectionInductive'
  <1>1. /\ outcome = "masking" /\ \A i \in scan .. Len(source) : ~ MatchesAt(i)
        /\ pass' = pass + 1 /\ scan' = 1
        /\ outcome' = IF pass = Len(Passes[format]) THEN "asking" ELSE "masking"
        /\ format' = format /\ source' = source /\ made' = made /\ answer' = answer
        /\ restored' = restored
    BY DEF NextPass
  <1>2. ProtectionTypeOK BY DEF ProtectionInductive
  <1>3. PICK n \in Nat : n = Len(Passes[format]) /\ DOMAIN Passes[format] = 1 .. n
    <2>1. format = "md" \/ format = "plain" BY <1>2 DEF ProtectionTypeOK, Passes
    <2>2. Len(Passes["md"]) = 9 /\ DOMAIN Passes["md"] = 1 .. 9 BY DEF Passes
    <2>3. Len(Passes["plain"]) = 2 /\ DOMAIN Passes["plain"] = 1 .. 2 BY DEF Passes
    <2> QED BY <2>1, <2>2, <2>3
  <1>4. pass \in 1 .. n
    BY <1>1, <1>2, <1>3 DEF ProtectionInductive, AllPassesFirst, ProtectionTypeOK
  <1>5. /\ DOMAIN source = 1 .. Len(source) /\ Len(source) \in Nat
        /\ scan \in 1 .. (Len(source) + 1)
    BY <1>2, TextFacts
  <1>6. ASSUME NEW kind, NEW lexeme, Hidden(kind, lexeme),
               \A p \in DOMAIN source :
                   Passes[format][pass] = kind /\ Seen(p) = lexeme => MatchesAt(p)
        PROVE  Hidden(kind, lexeme)'
    <2>1. ASSUME NEW p \in DOMAIN source, NEW q \in 1 .. n, Passes[format][q] = kind,
                 q < pass + 1 \/ (q = pass + 1 /\ p < 1), Seen(p) = lexeme
          PROVE  FALSE
      <3>1. q < pass \/ (q = pass /\ p < scan) \/ (q = pass /\ p \in scan .. Len(source))
        BY <1>4, <1>5, <2>1
      <3> QED BY <1>1, <1>3, <1>6, <2>1, <3>1 DEF Hidden
    <2> QED BY <1>1, <1>3, <2>1, SameMarkers DEF Hidden
  <1>7. NothingIsLeft'
    <2>1. Hidden("url", "u")'
      BY <1>2, <1>6, AlwaysFound DEF ProtectionInductive, NothingIsLeft
    <2>2. Hidden("emphasis", "*")'
      BY <1>2, <1>6, AlwaysFound DEF ProtectionInductive, NothingIsLeft
    <2>3. Hidden("internal", "internal")'
      BY <1>2, <1>6, AlwaysFound DEF ProtectionInductive, NothingIsLeft
    <2> QED BY <2>1, <2>2, <2>3 DEF NothingIsLeft
  <1>8. ProtectionTypeOK'
    BY <1>1, <1>2, <1>3, <1>4, <1>5, SameMarkers DEF ProtectionTypeOK
  <1>9. NoMarkerIsCut' BY <1>1, SameMarkers DEF ProtectionInductive
  <1>10. AllPassesFirst' BY <1>1, <1>3, <1>4 DEF AllPassesFirst
  <1>11. AnswersInOrder' BY <1>1 DEF ProtectionInductive, AnswersInOrder
  <1> QED BY <1>7, <1>8, <1>9, <1>10, <1>11 DEF ProtectionInductive

\* From the call on the text and its markers stay.
LEMMA TextStays ==
  ASSUME ProtectionInductive, source' = source, made' = made, pass' = pass, scan' = scan,
         format' = format
  PROVE  NothingIsLeft' /\ NoMarkerIsCut'
  <1>1. ASSUME NEW kind, NEW lexeme PROVE Hidden(kind, lexeme)' = Hidden(kind, lexeme)
    BY SameMarkers DEF Hidden
  <1> QED BY <1>1, SameMarkers DEF ProtectionInductive, NothingIsLeft

LEMMA AnswerComes ==
  ASSUME ProtectionInductive, Translate
  PROVE  ProtectionInductive'
  <1>1. PICK spoiled \in SUBSET DOMAIN made : \E times \in [spoiled -> {0, 2}] :
           answer' = [m \in DOMAIN made |-> IF Buried(m) THEN 0
                                            ELSE IF m \in spoiled THEN times[m] ELSE 1]
    BY DEF Translate
  <1>2. PICK times \in [spoiled -> {0, 2}] :
           answer' = [m \in DOMAIN made |-> IF Buried(m) THEN 0
                                            ELSE IF m \in spoiled THEN times[m] ELSE 1]
    BY <1>1
  <1>3. /\ source' = source /\ made' = made /\ pass' = pass /\ restored' = restored
        /\ scan' = scan /\ format' = format /\ outcome = "asking" /\ outcome' = "restoring"
    BY DEF Translate
  <1>4. answer' \in [DOMAIN made -> 0 .. 2]
    <2>1. \A m \in spoiled : times[m] \in 0 .. 2 BY <1>2
    <2> QED BY <1>2, <2>1
  <1>5. \A m \in DOMAIN made : Buried(m) => answer'[m] = 0 BY <1>2
  <1>6. restored = 0 BY <1>3 DEF ProtectionInductive, AnswersInOrder
  <1>7. ProtectionTypeOK'
    BY <1>3, <1>4, SameMarkers DEF ProtectionInductive, ProtectionTypeOK
  <1>8. AllPassesFirst' BY <1>3 DEF ProtectionInductive, AllPassesFirst
  <1>9. AnswersInOrder' BY <1>3, <1>4, <1>5, <1>6, SameMarkers DEF AnswersInOrder
  <1> QED BY <1>3, <1>7, <1>8, <1>9, TextStays DEF ProtectionInductive

LEMMA MarkersComeBack ==
  ASSUME ProtectionInductive, Restore \/ AllRestored
  PROVE  ProtectionInductive'
  <1>1. /\ source' = source /\ made' = made /\ pass' = pass /\ answer' = answer
        /\ scan' = scan /\ format' = format /\ outcome = "restoring"
    BY DEF Restore, AllRestored
  <1>2. /\ restored \in 0 .. Len(made) /\ Len(made) \in Nat
        /\ \A m \in 1 .. restored : answer[m] = 1
        /\ answer \in [DOMAIN made -> 0 .. 2]
        /\ \A m \in DOMAIN made : Buried(m) => answer[m] = 0
    BY <1>1, TextFacts DEF ProtectionInductive, AnswersInOrder
  <1>3. CASE outcome' = "restoring" /\ restored < Len(made) /\ restored' = restored + 1
             /\ answer[restored + 1] = 1
    <2>1. \A m \in 1 .. (restored + 1) : m \in 1 .. restored \/ m = restored + 1 BY <1>2
    <2>2. \A m \in 1 .. restored' : answer[m] = 1 BY <1>2, <1>3, <2>1
    <2>3. AnswersInOrder' BY <1>1, <1>2, <1>3, <2>2, SameMarkers DEF AnswersInOrder
    <2>4. ProtectionTypeOK'
      BY <1>1, <1>2, <1>3, SameMarkers DEF ProtectionInductive, ProtectionTypeOK
    <2>5. AllPassesFirst' BY <1>1, <1>3 DEF ProtectionInductive, AllPassesFirst
    <2> QED BY <1>1, <2>3, <2>4, <2>5, TextStays DEF ProtectionInductive
  <1>4. CASE outcome' \in {"restored", "refused"} /\ restored' = restored
             /\ (outcome' = "restored" => restored = Len(made))
             /\ (outcome' = "refused" =>
                    restored < Len(made) /\ answer[restored + 1] # 1)
    <2>1. AnswersInOrder' BY <1>1, <1>2, <1>4, SameMarkers DEF AnswersInOrder
    <2>2. ProtectionTypeOK'
      BY <1>1, <1>4, SameMarkers DEF ProtectionInductive, ProtectionTypeOK
    <2>3. AllPassesFirst' BY <1>1, <1>4 DEF ProtectionInductive, AllPassesFirst
    <2> QED BY <1>1, <2>1, <2>2, <2>3, TextStays DEF ProtectionInductive
  <1> QED BY <1>1, <1>3, <1>4 DEF Restore, AllRestored

LEMMA ProtectionInductiveStep ==
  ASSUME ProtectionInductive, [ProtectionNext]_protectionVars
  PROVE  ProtectionInductive'
  <1>1. CASE UNCHANGED protectionVars
    <2>1. NothingIsLeft' /\ NoMarkerIsCut' BY <1>1, TextStays DEF protectionVars
    <2>2. AnswersInOrder'
      BY <1>1, SameMarkers DEF protectionVars, ProtectionInductive, AnswersInOrder
    <2>3. ProtectionTypeOK' /\ AllPassesFirst'
      BY <1>1, SameMarkers
      DEF protectionVars, ProtectionInductive, ProtectionTypeOK, AllPassesFirst
    <2> QED BY <2>1, <2>2, <2>3 DEF ProtectionInductive
  <1> QED BY <1>1, TextIsTaken, MatchIsReplaced, PatternIsThrough, AnswerComes, MarkersComeBack
      DEF ProtectionNext

LEMMA ProtectionInductiveInit == ProtectionInit => ProtectionInductive
  <1> SUFFICES ASSUME ProtectionInit PROVE ProtectionInductive OBVIOUS
  <1>1. /\ format = "md" /\ source = << >> /\ made = << >> /\ answer = << >> /\ restored = 0
        /\ pass = 1 /\ scan = 1 /\ outcome = "idle"
    BY DEF ProtectionInit
  <1>2. Len(made) = 0 /\ DOMAIN made = {} /\ made \in Seq(Stretches) /\ DOMAIN source = {}
        /\ Len(source) = 0
    BY <1>1
  <1>3. Len(Passes["md"]) = 9 /\ "md" \in DOMAIN Passes BY DEF Passes
  <1>4. ProtectionTypeOK BY <1>1, <1>2, <1>3 DEF ProtectionTypeOK
  <1> QED BY <1>1, <1>2, <1>4
      DEF ProtectionInductive, NothingIsLeft, Hidden, NoMarkerIsCut, AllPassesFirst, AnswersInOrder

\* Whatever text is given, whatever its patterns take along, and whatever comes back.
THEOREM ProtectionInvariant == ProtectionSpec => []ProtectionInductive
  <1> QED BY ProtectionInductiveInit, ProtectionInductiveStep, PTL DEF ProtectionSpec

\* For every text over the lexemes, of any length and nesting, and every answer that
\* keeps, loses or doubles its markers: what comes back is complete and does not
\* overlap, a perfect answer is refused only if a marker was taken along by a later
\* pattern, and no bare address is sent (protection.py 27-91).
THEOREM EveryConstructSurvives == ProtectionSpec => []ConstructsSurvive
  <1>1. ASSUME ProtectionInductive PROVE ConstructsSurvive
    <2>1. Len(made) \in Nat /\ DOMAIN made = 1 .. Len(made)
      BY <1>1, TextFacts DEF ProtectionInductive
    <2>2. ASSUME outcome = "restored"
          PROVE  /\ \A m \in DOMAIN made : answer[m] = 1
                 /\ \A m, n \in DOMAIN made : m # n => Disjoint(made[m], made[n])
      <3>1. \A m \in DOMAIN made : answer[m] = 1 /\ ~ Buried(m)
        BY <1>1, <2>1, <2>2 DEF ProtectionInductive, AnswersInOrder
      <3>2. ASSUME NEW m \in DOMAIN made, NEW n \in DOMAIN made, m < n
            PROVE  Disjoint(made[m], made[n])
        <4>1. n \in (m + 1) .. Len(made) BY <2>1, <3>2
        <4>2. ~ Within(made[m], made[n]) BY <3>1, <3>2, <4>1 DEF Buried
        <4> QED BY <1>1, <3>2, <4>2 DEF ProtectionInductive, NoMarkerIsCut
      <3>3. \A m, n \in DOMAIN made : m # n => m < n \/ n < m BY <2>1
      <3>4. \A s, t : Disjoint(s, t) <=> Disjoint(t, s) BY DEF Disjoint
      <3> QED BY <3>1, <3>2, <3>3, <3>4
    <2>3. ASSUME outcome = "refused" PROVE \E m \in DOMAIN made : Buried(m) \/ answer[m] # 1
      <3>1. restored < Len(made) /\ answer[restored + 1] # 1 /\ restored \in Nat
        BY <1>1, <2>3, TextFacts DEF ProtectionInductive, AnswersInOrder
      <3>2. restored + 1 \in DOMAIN made BY <2>1, <3>1
      <3> QED BY <3>1, <3>2
    <2> QED BY <1>1, <2>2, <2>3 DEF ConstructsSurvive, ProtectionInductive
  <1> QED BY <1>1, ProtectionInvariant, PTL

-----------------------------------------------------------------------------
(* All of it *)

\* The invariants that the run of MCOperations checks are those of its parts, which
\* do not interact: the release tool, the migrations, the files, and each text.
THEOREM OperationsInvariant == OperationsSpec => []OperationsInductive
  <1> DEFINE Texts == /\ SegmentationTypeOK /\ PartsAreWhole
                      /\ ContextInductive /\ ProtectionInductive
             Invariant == ReleaseInductive /\ FilesInductive /\ MigrationInductive /\ Texts
  <1>1. OperationsInit => Invariant
    BY ReleaseInductiveInit, FilesInductiveInit, MigrationInductiveInit, SegmentationInductiveInit,
       ContextInductiveInit, ProtectionInductiveInit
    DEF OperationsInit
  <1>2. ASSUME Texts, [SegmentationNext]_segmentationVars, [ContextNext]_contextVars,
               [ProtectionNext]_protectionVars
        PROVE  Texts'
    BY <1>2, SegmentationInductiveStep, ContextInductiveStep, ProtectionInductiveStep
  <1>3. ASSUME Invariant, [OperationsNext]_operationVars PROVE Invariant'
    <2>1. /\ [ReleaseNext]_releaseVars /\ [FilesNext]_fileVars /\ [MigrationNext]_migrationVars
          /\ [SegmentationNext]_segmentationVars /\ [ContextNext]_contextVars
          /\ [ProtectionNext]_protectionVars
      BY <1>3 DEF OperationsNext, TextNext, operationVars, textVars
    <2>2. Texts' BY <1>2, <1>3, <2>1
    <2>3. ReleaseInductive' /\ FilesInductive' /\ MigrationInductive'
      BY <1>3, <2>1, ReleaseInductiveStep, FilesInductiveStep, MigrationInductiveStep
    <2> QED BY <2>2, <2>3
  <1>4. Invariant => OperationsInductive BY DEF OperationsInductive
  <1> QED BY <1>1, <1>3, <1>4, PTL DEF OperationsSpec
=============================================================================
