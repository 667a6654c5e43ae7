-------------------------- MODULE MCTranslationRun --------------------------
(* Instances of TranslationRun: some of the segments have the same text. *)
EXTENDS TranslationRun

CONSTANTS h1, h2

Repeated == [s \in Segs |-> IF s = 2 THEN h2 ELSE h1]

\* The whole project, and one segment of each text.
WholeOrPart == {Segs, {1}, {2}}
Whole       == {Segs}

=============================================================================
