---------------------------- MODULE Segmentation ----------------------------
(***************************************************************************)
(* How a block of a book is cut into segments: split_long_text() and       *)
(* split_markdown_text() (backend/app/segment.py).                         *)
(*                                                                         *)
(* A text is its length, the positions at which a sentence ends, and the   *)
(* spans that must not be cut: code, links, images and placeholders in     *)
(* Markdown, the parser's own markers elsewhere.  A span may be longer     *)
(* than a segment, and a sentence may end inside of one.  Every turn of    *)
(* the loop is a step.                                                     *)
(***************************************************************************)
EXTENDS Integers, Sequences

CONSTANTS
    MaxLength,  \* bound: characters of a block
    MaxSpans,   \* bound: spans of a block
    MaxChars    \* max_chars of a segment

ASSUME LengthAssumption == MaxLength \in Nat /\ MaxSpans \in Nat /\ MaxChars \in Nat \ {0}

VARIABLES
    block,      \* the text being cut
    cursor,
    parts       \* what it has been cut into: <<first position, end>>

segmentationVars == <<block, cursor, parts>>

Spans == {s \in (0..MaxLength) \X (0..MaxLength) : s[1] < s[2]}
Apart(s, t) == s = t \/ s[2] <= t[1] \/ t[2] <= s[1]

\* The spans of a text, which finditer() finds one after the other.
AtomSets == {{f[i] : i \in DOMAIN f} : f \in UNION {[1..n -> Spans] : n \in 0..MaxSpans}}
IsBlock(b) ==
    /\ b.length \in 0..MaxLength
    /\ b.boundaries \subseteq 1..b.length
    /\ b.atoms \subseteq Spans
    /\ \A s, t \in b.atoms : s[2] <= b.length /\ Apart(s, t)
BlocksOf(n) ==
    {b \in [length : {n}, boundaries : SUBSET (1..n), atoms : AtomSets] : IsBlock(b)}

NoBlock == [length |-> 0, boundaries |-> {}, atoms |-> {}]

SegmentationTypeOK ==
    /\ IsBlock(block)
    /\ cursor \in 0..block.length
    /\ parts \in Seq((0..MaxLength) \X (0..MaxLength))

SegmentationInit == block = NoBlock /\ cursor = 0 /\ parts = <<>>

\* create_segments() comes to a block.
SegmentBlock ==
    /\ block = NoBlock
    /\ \E n \in 1..MaxLength : block' \in BlocksOf(n)
    /\ UNCHANGED <<cursor, parts>>

Cuts(end) ==
    /\ parts' = Append(parts, <<cursor, end>>)
    /\ cursor' = end
    /\ UNCHANGED block

HardEnd == cursor + MaxChars

\* The last end of a sentence that is within reach, or as far as it goes.
SoftEnd ==
    LET near == {p \in block.boundaries : cursor < p /\ p <= HardEnd}
    IN  IF near = {} THEN HardEnd ELSE CHOOSE p \in near : \A q \in near : q <= p

\* A fault: a span at the cursor is cut before, too.
BeforeAtom(end) ==
    IF \E s \in block.atoms : s[1] < end /\ end < s[2]
    THEN (CHOOSE s \in block.atoms : s[1] < end /\ end < s[2])[1]
    ELSE end

\* Not inside a span: before it, or after it when there is nothing before it.
OutOfAtom(end) ==
    IF \E s \in block.atoms : s[1] < end /\ end < s[2]
    THEN LET s == CHOOSE s \in block.atoms : s[1] < end /\ end < s[2]
         IN  IF s[1] > cursor THEN s[1] ELSE s[2]
    ELSE end

Cut == HardEnd < block.length /\ Cuts(OutOfAtom(SoftEnd))

LastPart == cursor < block.length /\ HardEnd >= block.length /\ Cuts(block.length)

SegmentationNext ==
    \/ SegmentBlock
    \/ Cut
    \/ LastPart

SegmentationSpec == SegmentationInit /\ [][SegmentationNext]_segmentationVars

-----------------------------------------------------------------------------
\* The parts, joined again, are the text so far, none of them is empty, no span
\* is cut, and a part is longer than max_chars only when it is one span
\* ("soft-split long blocks while preserving every input character exactly",
\* segment.py 105; "without cutting through code, URLs, images or placeholders",
\* 145).
PartsAreWhole ==
    /\ \A i \in DOMAIN parts :
          /\ parts[i][1] = IF i = 1 THEN 0 ELSE parts[i - 1][2]
          /\ parts[i][1] < parts[i][2]
          /\ parts[i][2] - parts[i][1] > MaxChars => parts[i] \in block.atoms
          /\ \A s \in block.atoms : parts[i][2] <= s[1] \/ s[2] <= parts[i][2]
    /\ cursor = IF parts = <<>> THEN 0 ELSE parts[Len(parts)][2]
=============================================================================
