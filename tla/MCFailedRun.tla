----------------------------- MODULE MCFailedRun -----------------------------
(* TranslationRun with the workers of a failed run, on the same instances. *)
EXTENDS MCTranslationRun, FailedRun
=============================================================================
