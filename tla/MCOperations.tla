---------------------------- MODULE MCOperations ---------------------------
(* The tools, files and texts around the server, side by side: the release   *)
(* tool, the migrations of the schema, the files of the books, and what is   *)
(* done to a text before and after its call.  They are independent here;     *)
(* scope says which of them moves.                                           *)
EXTENDS Release, Migrations, BookFiles, Segmentation, ContextWindow, Protection, TLC

VARIABLE scope

\* Three versions: the second is two migrations ahead of the first, the third
\* needs none.
MCRev == 1 :> 1 @@ 2 :> 3 @@ 3 :> 3

\* No file differs from another until it is written.
AnyFile == Permutations(Files)

(* The texts that are protected *)

Texts1 == {<<>>, <<"w">>, <<"u">>, <<"*">>, <<"tick", "w", "tick">>, <<"{", "w", "}">>,
           <<"<", "w", ">">>, <<"[", "w", "]", "(", "w", ")">>}

\* Each construct around or before two other texts.
Around(a, b) ==
    {a \o b, <<"[">> \o a \o <<"]", "(">> \o b \o <<")">>,
     <<"!", "[">> \o a \o <<"]", "(">> \o b \o <<")">>,
     <<"[">> \o a \o <<"]", "[">> \o b \o <<"]">>, <<"<", "w", " ">> \o a \o <<">">> \o b,
     <<"<", "u">> \o a \o <<">">> \o b, <<"tick">> \o a \o <<"tick">> \o b,
     <<"{", "w">> \o a \o <<"}">> \o b, <<"{", "{">> \o a \o <<"}", "}">> \o b,
     <<"u">> \o a \o b}

Texts2 == UNION {Around(a, b) : a, b \in Texts1}
Texts3 == UNION {Around(a, b) : a \in UNION {Around(c, d) : c, d \in {<<"w">>, <<"u">>}},
                                b \in {<<>>, <<"u">>}}

\* Brackets and the like in any order, that close or do not.
Pieces == {<<"tick">>, <<"!", "[">>, <<"[">>, <<"]">>, <<"]", "(">>, <<")">>, <<"<", "w">>,
           <<">">>, <<"{", "{">>, <<"}">>, <<"*">>, <<" ">>, <<"u">>}
Slots  == {<<"{">>, <<"{", "{">>, <<"}">>, <<"}", "}">>, <<"internal">>, <<"w">>}
Runs(S) == S \cup {s \o t : s, t \in S} \cup {s \o t \o r : s, t, r \in S}

MCMarkdown == {s \in Texts2 \cup Texts3 \cup Runs(Pieces) : IsText(s)}
MCPlain    == Runs(Slots)

textVars == <<segmentationVars, contextVars, protectionVars>>
operationVars == <<scope, releaseVars, migrationVars, fileVars, textVars>>

OperationsInit ==
    /\ scope \in {"release", "migrations", "files", "texts"}
    /\ ReleaseInit /\ MigrationInit /\ FilesInit
    /\ SegmentationInit /\ ContextInit /\ ProtectionInit
    /\ scope # "release" => envTag = 1
    /\ scope # "migrations" => schema = {}

\* One text is cut, put into its context or protected.
TextNext ==
    \/ /\ at = "idle" /\ outcome = "idle" /\ SegmentationNext
       /\ UNCHANGED <<contextVars, protectionVars>>
    \/ /\ block = NoBlock /\ outcome = "idle" /\ ContextNext
       /\ UNCHANGED <<segmentationVars, protectionVars>>
    \/ /\ block = NoBlock /\ at = "idle" /\ ProtectionNext
       /\ UNCHANGED <<segmentationVars, contextVars>>

OperationsNext ==
    \/ scope = "release" /\ ReleaseNext
       /\ UNCHANGED <<scope, migrationVars, fileVars, textVars>>
    \/ scope = "migrations" /\ MigrationNext
       /\ UNCHANGED <<scope, releaseVars, fileVars, textVars>>
    \/ scope = "files" /\ FilesNext
       /\ UNCHANGED <<scope, releaseVars, migrationVars, textVars>>
    \/ scope = "texts" /\ TextNext
       /\ UNCHANGED <<scope, releaseVars, migrationVars, fileVars>>

OperationsSpec == OperationsInit /\ [][OperationsNext]_operationVars

\* The inductive invariants of the proofs, and the types of a block.
OperationsInductive ==
    /\ ReleaseInductive /\ FilesInductive /\ MigrationInductive
    /\ SegmentationTypeOK /\ ContextInductive /\ ProtectionInductive
=============================================================================
