----------------------------- MODULE Protection -----------------------------
(***************************************************************************)
(* What must not be translated is hidden behind markers before the call    *)
(* and put back into the answer: protect_markdown(), protect_plain_text()  *)
(* and ProtectedText.restore() (backend/app/engine/protection.py).         *)
(*                                                                         *)
(* A text is the lexemes the patterns look for: brackets and the like, a   *)
(* space, a word "w", the beginning of an address "u", a marker that the   *)
(* parser of a book left in it, "internal".  A backtick and an emphasis    *)
(* stand for a run of them, all runs alike; what is escaped is a word.     *)
(* One pattern after another replaces what it finds, from left to right,   *)
(* by markers, which the patterns that follow see as one more character.   *)
(*                                                                         *)
(* Left out: line breaks, comments, mailto:, placeholders that begin with  *)
(* $ or %, the slots of an EPUB block, and a source that holds the name of *)
(* a marker.  An answer is how often it has each marker of the text it was *)
(* given; it invents none.                                                 *)
(***************************************************************************)
EXTENDS Integers, Sequences, FiniteSets

CONSTANTS
    Markdown,       \* bound: texts of Markdown books
    Plain,          \* bound: texts of other books
    MaxSpoiled      \* bound: markers that an answer loses or doubles

Lexemes == {"tick", "!", "[", "]", "(", ")", "<", ">", "{", "}", "*", " ", "w", "u", "internal"}

IsText(s) ==
    /\ s \in Seq(Lexemes) /\ s # <<>>
    /\ \A p \in 2..Len(s) : s[p] \in {"tick", "*"} => s[p] # s[p - 1]

ASSUME TextAssumption ==
    MaxSpoiled \in Nat /\ \A s \in Markdown \cup Plain : IsText(s)

\* The patterns, in the order in which they are applied.
Passes ==
    [md |-> <<"code", "image", "autolink", "html", "link", "reference", "url", "placeholder",
              "emphasis">>,
     plain |-> <<"internal", "placeholder">>]

VARIABLES
    format,     \* "md" or "plain"
    source,     \* the text, << >> before there is one
    pass,       \* the pattern that is applied
    scan,       \* where the pattern goes on looking
    made,       \* the markers in the order they are made: what each stands for
    answer,     \* how often the answer has each of them
    restored,   \* how many of them have been put back
    outcome     \* "idle", "masking", "asking", "restoring", "restored" or "refused"

protectionVars == <<format, source, pass, scan, made, answer, restored, outcome>>

Stretches == [from : DOMAIN source, to : DOMAIN source]

ProtectionTypeOK ==
    /\ format \in DOMAIN Passes
    /\ source = <<>> \/ IsText(source)
    /\ pass \in 1..(Len(Passes[format]) + 1)
    /\ scan \in 1..(Len(source) + 1)
    /\ made \in Seq(Stretches)
    /\ \A m \in DOMAIN made : made[m].from <= made[m].to
    /\ answer = <<>> \/ answer \in [DOMAIN made -> 0..2]
    /\ restored \in 0..Len(made)
    /\ outcome \in {"idle", "masking", "asking", "restoring", "restored", "refused"}

ProtectionInit ==
    /\ format = "md" /\ source = <<>> /\ pass = 1 /\ scan = 1 /\ made = <<>>
    /\ answer = <<>> /\ restored = 0 /\ outcome = "idle"

-----------------------------------------------------------------------------
(* The patterns *)

\* A fault: a pattern looks for what it replaces in the source.
Unmasked(p) == IF p \in DOMAIN source THEN source[p] ELSE "end"

\* What a pattern finds at a position.
Seen(p) ==
    IF p \notin DOMAIN source THEN "end"
    ELSE IF \E m \in DOMAIN made : made[m].from <= p /\ p <= made[m].to THEN "marker"
    ELSE source[p]

\* The first of S from p on, or the end of the text.
First(S, p) ==
    CHOOSE q \in p..(Len(source) + 1) :
        /\ Seen(q) \in S \cup {"end"}
        /\ \A r \in p..(q - 1) : Seen(r) \notin S \cup {"end"}

\* From i to the first closing one after from, which is j.
Closed(from, closing, j) == j = First({closing}, from) /\ Seen(j) = closing

LabelEnd(i) == First({"]"}, i)

\* A label that ends with "]" and a destination between open and close right after it.
LabelAnd(label, open, close, j) ==
    LET k == LabelEnd(label)
    IN  Seen(k) = "]" /\ Seen(k + 1) = open /\ Closed(k + 2, close, j)

\* Neither of the two is empty.
BothFilled(i, j) == LabelEnd(i + 1) > i + 1 /\ j > LabelEnd(i + 1) + 2

\* A bare address goes up to one of these, past a marker as well.
Stops == {" ", "<", ">", "]", ")"}

\* The pattern matches from i to j.
Matches(kind, i, j) ==
    \/ kind = "code" /\ Seen(i) = "tick" /\ Closed(i + 1, "tick", j)
    \/ kind = "image" /\ Seen(i) = "!" /\ Seen(i + 1) = "[" /\ LabelAnd(i + 2, "(", ")", j)
    \/ kind = "autolink" /\ Seen(i) = "<" /\ Seen(i + 1) = "u" /\ Closed(i + 2, ">", j)
    \/ kind = "html" /\ Seen(i) = "<" /\ Seen(i + 1) \in {"w", "u"} /\ Closed(i + 2, ">", j)
    \/ kind = "link" /\ Seen(i) = "[" /\ LabelAnd(i + 1, "(", ")", j) /\ BothFilled(i, j)
    \/ kind = "reference" /\ Seen(i) = "[" /\ LabelAnd(i + 1, "[", "]", j) /\ BothFilled(i, j)
    \/ kind = "url" /\ Seen(i) = "u" /\ j + 1 = First(Stops, i + 1)
    \/ kind = "placeholder" /\ Seen(i) = "{"
       /\ \/ Seen(i + 1) \in {"w", "u"} /\ j = First({"{", "}"}, i + 2) /\ Seen(j) = "}"
          \/ /\ Seen(i + 1) = "{" /\ j - 1 = First({"{", "}"}, i + 2) /\ j - 1 > i + 2
             /\ Seen(j - 1) = "}" /\ Seen(j) = "}"
    \/ kind = "emphasis" /\ Seen(i) = "*" /\ j = i
    \/ kind = "internal" /\ Seen(i) = "internal" /\ j = i

\* What gets a marker: the whole match, or what is around the label of a link.
Replaced(kind, i, j) ==
    IF kind \in {"link", "reference"}
    THEN <<[from |-> i, to |-> i], [from |-> LabelEnd(i + 1), to |-> j]>>
    ELSE <<[from |-> i, to |-> j]>>

MatchesAt(i) == \E j \in i..Len(source) : Matches(Passes[format][pass], i, j)

-----------------------------------------------------------------------------
(* Masking, the call, and putting back *)

\* A worker has claimed a segment.
Protect ==
    /\ outcome = "idle"
    /\ \/ format' = "md" /\ source' \in Markdown
       \/ format' = "plain" /\ source' \in Plain
    /\ outcome' = "masking"
    /\ UNCHANGED <<pass, scan, made, answer, restored>>

\* sub() replaces the next match.
Substitute ==
    /\ outcome = "masking"
    /\ \E i \in scan..Len(source) :
          /\ \A h \in scan..(i - 1) : ~ MatchesAt(h)
          /\ \E j \in i..Len(source) :
                /\ Matches(Passes[format][pass], i, j)
                /\ made' = made \o Replaced(Passes[format][pass], i, j)
                /\ scan' = j + 1
    /\ UNCHANGED <<format, source, pass, answer, restored, outcome>>

\* There is none left.
NextPass ==
    /\ outcome = "masking" /\ \A i \in scan..Len(source) : ~ MatchesAt(i)
    /\ pass' = pass + 1 /\ scan' = 1
    /\ outcome' = IF pass = Len(Passes[format]) THEN "asking" ELSE "masking"
    /\ UNCHANGED <<format, source, made, answer, restored>>

Disjoint(s, t) == s.to < t.from \/ t.to < s.from
Within(s, t)   == t.from <= s.from /\ s.to <= t.to

\* A marker in what a later one stands for is not in the text that is sent.
Buried(m) == \E n \in (m + 1)..Len(made) : Within(made[m], made[n])

\* The model keeps the markers it sees but for some that it loses or doubles.
Translate ==
    /\ outcome = "asking"
    /\ \E spoiled \in SUBSET DOMAIN made :
          /\ Cardinality(spoiled) <= MaxSpoiled
          /\ \E times \in [spoiled -> {0, 2}] :
                answer' = [m \in DOMAIN made |-> IF Buried(m) THEN 0
                                                 ELSE IF m \in spoiled THEN times[m] ELSE 1]
    /\ outcome' = "restoring"
    /\ UNCHANGED <<format, source, pass, scan, made, restored>>

\* restore(): markers are put back in the order in which they were made, so one in
\* what another stands for has not come back when it is its turn.
Restore ==
    /\ outcome = "restoring" /\ restored < Len(made)
    /\ IF answer[restored + 1] = 1
       THEN restored' = restored + 1 /\ UNCHANGED outcome
       ELSE outcome' = "refused" /\ UNCHANGED restored
    /\ UNCHANGED <<format, source, pass, scan, made, answer>>

AllRestored ==
    /\ outcome = "restoring" /\ restored = Len(made)
    /\ outcome' = "restored"
    /\ UNCHANGED <<format, source, pass, scan, made, answer, restored>>

ProtectionNext == Protect \/ Substitute \/ NextPass \/ Translate \/ Restore \/ AllRestored

ProtectionSpec == ProtectionInit /\ [][ProtectionNext]_protectionVars

-----------------------------------------------------------------------------
(* What must come back comes back *)

\* No address, emphasis or internal marker is in sight once its pattern is through,
\* before the point where it goes on looking otherwise.
Hidden(kind, lexeme) ==
    \A p \in DOMAIN source, q \in DOMAIN Passes[format] :
        Passes[format][q] = kind /\ (q < pass \/ (q = pass /\ p < scan)) => Seen(p) # lexeme

NothingIsLeft ==
    Hidden("url", "u") /\ Hidden("emphasis", "*") /\ Hidden("internal", "internal")

\* A text comes back with all that was masked, each stretch of the source once and
\* no two overlapping, or not at all: an answer that lost or doubled a marker is
\* refused.  A perfect one is refused only if a later pattern took an earlier marker
\* along, for which "order matters" (protection.py 61): code or a link in what an
\* image, a tag or a destination hides, or a marker right behind a bare address.
\* What is sent has no bare address, emphasis or internal marker left.
ConstructsSurvive ==
    /\ outcome = "restored" =>
          /\ \A m \in DOMAIN made : answer[m] = 1
          /\ \A m, n \in DOMAIN made : m # n => Disjoint(made[m], made[n])
    /\ outcome = "refused" => \E m \in DOMAIN made : Buried(m) \/ answer[m] # 1
    /\ NothingIsLeft

-----------------------------------------------------------------------------
(* What ConstructsSurvive rests on *)

\* A pattern takes a marker along as a whole or leaves it alone.
NoMarkerIsCut ==
    \A m, n \in DOMAIN made :
        m < n => Disjoint(made[m], made[n]) \/ Within(made[m], made[n])

\* A text has gone through all patterns before it is sent.
AllPassesFirst ==
    /\ outcome = "idle" => source = <<>> /\ pass = 1 /\ scan = 1 /\ made = <<>>
    /\ outcome = "masking" => pass <= Len(Passes[format])
    /\ outcome \notin {"idle", "masking"} => pass > Len(Passes[format])

\* Only what can be seen comes back, and each marker that has been put back came once.
AnswersInOrder ==
    /\ outcome \in {"idle", "masking", "asking"} => answer = <<>> /\ restored = 0
    /\ outcome \in {"restoring", "restored", "refused"} =>
          /\ answer \in [DOMAIN made -> 0..2]
          /\ \A m \in DOMAIN made : Buried(m) => answer[m] = 0
          /\ \A m \in 1..restored : answer[m] = 1
    /\ outcome = "restored" => restored = Len(made)
    /\ outcome = "refused" => restored < Len(made) /\ answer[restored + 1] # 1

ProtectionInductive ==
    /\ ProtectionTypeOK
    /\ NothingIsLeft
    /\ NoMarkerIsCut
    /\ AllPassesFirst
    /\ AnswersInOrder
=============================================================================
