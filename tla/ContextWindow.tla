---------------------------- MODULE ContextWindow ---------------------------
(***************************************************************************)
(* The context a worker sends with a segment: the glossary, the summary of *)
(* the chapter and the translations before it, within a budget of tokens   *)
(* (backend/app/engine/context.py).                                        *)
(*                                                                         *)
(* Texts are their tokens, which add up here; the tokenizer is a library's *)
(* and only nearly additive.  Every turn of the two loops is a step.       *)
(***************************************************************************)
EXTENDS Integers, Sequences, FiniteSets

CONSTANTS
    MaxTokens,      \* context_tokens of the project
    MarkerTokens,   \* the note that something was cut off
    HeaderTokens,   \* the heading of the translations
    PreviousCount,  \* previous_segments of the project
    MaxFixed,       \* bound: tokens of glossary and summary
    MaxPart,        \* bound: tokens of a previous segment and its translation
    MaxPrevious     \* bound: segments before this one

ASSUME TokenAssumption ==
    /\ {MaxTokens, MarkerTokens, HeaderTokens, PreviousCount} \subseteq Nat
    /\ {MaxFixed, MaxPart, MaxPrevious} \subseteq Nat

VARIABLES
    window,     \* fixed: glossary and summary; previous: sizes, the newest last;
                \* finished: which of these have a translation
    at,         \* where build_context() is: "idle", "choosing", "clipping" or "done"
    rest,       \* candidates not yet considered
    selected,   \* candidates that are in
    low, high   \* the binary search for the longest prefix that fits

contextVars == <<window, at, rest, selected, low, high>>

Windows ==
    UNION {[fixed : 0..MaxFixed, previous : [1..n -> 1..MaxPart], finished : SUBSET (1..n)] :
              n \in 0..MaxPrevious}

ContextTypeOK ==
    /\ window.fixed \in 0..MaxFixed
    /\ window.previous \in Seq(1..MaxPart) /\ Len(window.previous) <= MaxPrevious
    /\ window.finished \subseteq DOMAIN window.previous
    /\ at \in {"idle", "choosing", "clipping", "done"}
    /\ selected \cup rest \subseteq DOMAIN window.previous
    /\ low \in Nat /\ high \in Nat

ContextInit ==
    /\ window = [fixed |-> 0, previous |-> <<>>, finished |-> {}]
    /\ at = "idle" /\ rest = {} /\ selected = {} /\ low = 0 /\ high = 0

\* The newest finished segments, previous_count of them.
Candidates(w) == {i \in w.finished : Cardinality({j \in w.finished : j > i}) < PreviousCount}

\* The sizes at the positions of S, added up position by position.
Sums(sizes, S) ==
    LET sum[i \in 0..Len(sizes)] ==
            IF i = 0 THEN 0 ELSE sum[i - 1] + (IF i \in S THEN sizes[i] ELSE 0)
    IN  sum

Size(S) == Sums(window.previous, S)[Len(window.previous)]

\* Tokens of the context with the translations S.
Tokens(S) == window.fixed + IF S = {} THEN 0 ELSE HeaderTokens + Size(S)

Fits(S) == Tokens(S) <= MaxTokens

Latest(S) == CHOOSE i \in S : \A j \in S : j <= i

\* load_claim() has a segment and what is around it.
Build ==
    /\ at = "idle"
    /\ window' \in Windows
    /\ at' = "choosing"
    /\ rest' = Candidates(window')
    /\ UNCHANGED <<selected, low, high>>

\* A fault: the first candidate that does not fit ends the choice.
StopAt(i) == IF Fits(selected \cup {i}) THEN rest \ {i} ELSE {}

\* The candidates left after i: one that does not fit is passed over.
PassOver(i) == rest \ {i}

\* build_context(): the newest candidate comes in if everything still fits.
Consider ==
    /\ at = "choosing" /\ rest # {}
    /\ LET i == Latest(rest) IN
          /\ selected' = IF Fits(selected \cup {i}) THEN selected \cup {i} ELSE selected
          /\ rest' = PassOver(i)
    /\ UNCHANGED <<window, at, low, high>>

\* Nothing was cut off, or the search for a prefix begins.
Chosen ==
    /\ at = "choosing" /\ rest = {}
    /\ at' = IF Fits(selected) THEN "done" ELSE "clipping"
    /\ low' = IF Fits(selected) THEN Tokens(selected) ELSE 0
    /\ high' = Tokens(selected)
    /\ UNCHANGED <<window, rest, selected>>

Halve ==
    /\ at = "clipping" /\ low < high
    /\ LET middle == (low + high + 1) \div 2 IN
          IF middle + MarkerTokens <= MaxTokens
          THEN low' = middle /\ UNCHANGED high
          ELSE high' = middle - 1 /\ UNCHANGED low
    /\ UNCHANGED <<window, at, rest, selected>>

Clipped ==
    /\ at = "clipping" /\ low = high
    /\ at' = "done"
    /\ UNCHANGED <<window, rest, selected, low, high>>

ContextNext ==
    \/ Build
    \/ Consider
    \/ Chosen
    \/ Halve
    \/ Clipped

ContextSpec == ContextInit /\ [][ContextNext]_contextVars

-----------------------------------------------------------------------------
\* No candidate could be exchanged for a newer one: of all selections that fit,
\* the chosen one has the newest segment in which it differs from the other.
NewestFirst ==
    \A S \in SUBSET Candidates(window) :
        Fits(S) /\ S # selected =>
            Latest((S \ selected) \cup (selected \ S)) \in selected

\* The context never exceeds its budget, except that the note alone may; it holds
\* the best selection of previous segments; and it is cut off only when glossary
\* and summary alone are too long, as late as the budget allows ("a bounded
\* glossary + history + chapter-summary context window", context.py 72).
ContextIsBest ==
    at = "done" =>
        /\ Fits({}) => NewestFirst /\ low = Tokens(selected) /\ low <= MaxTokens
        /\ ~ Fits({}) =>
              /\ selected = {}
              /\ low = 0 \/ low + MarkerTokens <= MaxTokens
              /\ low < window.fixed => low + 1 + MarkerTokens > MaxTokens

-----------------------------------------------------------------------------
(* What ContextIsBest rests on *)

Newer(S, i) == {j \in S : j > i}

\* The candidates are considered from the newest to the oldest, and one that was left
\* out did not fit next to the newer ones that are in.
NewestFirstSoFar ==
    /\ rest \subseteq Candidates(window) /\ selected \subseteq Candidates(window) \ rest
    /\ \A c \in Candidates(window) \ rest :
          /\ \A r \in rest : r < c
          /\ c \in selected \/ ~ Fits(Newer(selected, c) \cup {c})
    /\ selected # {} => Fits(selected)

\* The longest prefix that fits is between low and high.
PrefixIsBetween ==
    /\ selected = {}
    /\ low <= high /\ high <= window.fixed
    /\ low = 0 \/ low + MarkerTokens <= MaxTokens
    /\ high < window.fixed => high + 1 + MarkerTokens > MaxTokens

ContextInductive ==
    /\ ContextTypeOK
    /\ at = "idle" => rest = {} /\ selected = {}
    /\ at # "idle" => NewestFirstSoFar
    /\ at \in {"clipping", "done"} => rest = {}
    /\ at = "clipping" => ~ Fits(selected) /\ PrefixIsBetween
    /\ at = "done" =>
          IF Fits(selected) THEN low = Tokens(selected) ELSE low = high /\ PrefixIsBetween
=============================================================================
