----------------------------- MODULE EditSplit -----------------------------
(***************************************************************************)
(* The split of one file's patch into fragments with an owner              *)
(* (toolkit/go/internal/units, Split and splitChange).                     *)
(*                                                                         *)
(* The text of a line is left out: an edit is the side it is on and its    *)
(* line number there. A declaration is the span of its lines.              *)
(***************************************************************************)
EXTENDS Integers, Sequences, FiniteSets, SequencesExt

CONSTANTS MaxLine,      \* of either version of the file
          Context       \* unchanged lines kept beside an edit: 3 in the code

Line == 1..MaxLine
Type == {"context", "added", "deleted"}
Side == {"before", "after"}
Span == {s \in Line \X Line : s[1] <= s[2]}

VARIABLES
    hunks,      \* the patch: ParseHunks' [old, new, lines]
    elements,   \* by side: the declarations found in the source
    stage, hunk, i, oldLine, newLine,
    out         \* the fragments: [before, after, hunks]

vars == <<hunks, elements, stage, hunk, i, oldLine, newLine, out>>

Lines == hunks[hunk].lines
Edit(type) == type # "context"

\* Where each line of a hunk is, and whether it is there before and after.
Before(h, n) == h.old + Len(SelectSeq(SubSeq(h.lines, 1, n - 1), LAMBDA t : t # "added"))
After(h, n) == h.new + Len(SelectSeq(SubSeq(h.lines, 1, n - 1), LAMBDA t : t # "deleted"))

\* The edits of a list of hunks, by position: ValidateEdits' counts, ChangedSpans.
EditAt(h, n) == IF h.lines[n] = "deleted" THEN <<"before", Before(h, n)>>
                ELSE <<"after", After(h, n)>>
Edits(hs) ==
    UNION {{<<k, n, EditAt(hs[k], n)>> :
              n \in {n \in 1..Len(hs[k].lines) : Edit(hs[k].lines[n])}} : k \in 1..Len(hs)}
Times(hs, edit) == Cardinality({x \in Edits(hs) : x[3] = edit})

-----------------------------------------------------------------------------
(* Owners.                                                                 *)

Size(s) == s[2] - s[1]

\* ElementAt in the order of sortElementsBySize: the innermost declaration.
Owner(side, line) ==
    LET around == {s \in elements[side] : s[1] <= line /\ line <= s[2]}
    IN {s \in around : \A o \in around \ {s} :
            Size(s) < Size(o) \/ (Size(s) = Size(o) /\ s[1] < o[1])}

OwnerOfLine(n) ==
    LET h == hunks[hunk] IN
    IF h.lines[n] = "deleted" THEN Owner("before", Before(h, n)) ELSE Owner("after", After(h, n))

\* The edited lines from i on without an unchanged one between them.
BlockEnd ==
    CHOOSE e \in i..Len(Lines) :
        /\ \A n \in i..e : Edit(Lines[n])
        /\ e = Len(Lines) \/ ~Edit(Lines[e + 1])

Replacement == {Lines[n] : n \in i..BlockEnd} = {"added", "deleted"}

\* A replacement is one patch, whoever owns it; added or removed lines alone are
\* parted where their owner changes.
PartEnd ==
    IF Replacement THEN BlockEnd
    ELSE CHOOSE e \in i..BlockEnd :
            /\ \A n \in i..e : OwnerOfLine(n) = OwnerOfLine(i)
            /\ e = BlockEnd \/ OwnerOfLine(e + 1) # OwnerOfLine(i)

OwnersOf(type) == UNION {OwnerOfLine(n) : n \in {n \in i..PartEnd : Lines[n] = type}}

\* Mutant: the lines next to the part are taken whether they changed or not.
ReachAnyLine(n, step) == Cardinality({k \in 1..Context : n + step * k \in 1..Len(Lines)})

\* How many unchanged lines next to the part are taken with it.
Reach(n, step) ==
    Cardinality({k \in 1..Context :
        \A x \in 1..k : n + step * x \in 1..Len(Lines) /\ ~Edit(Lines[n + step * x])})

Part ==
    LET above == Reach(i, -1) below == Reach(PartEnd, 1) IN
    [old |-> oldLine - above, new |-> newLine - above,
     lines |-> SubSeq(Lines, i - above, PartEnd + below)]

-----------------------------------------------------------------------------
Skip ==
    /\ stage = "split" /\ hunk <= Len(hunks) /\ i <= Len(Lines)
    /\ ~Edit(Lines[i])
    /\ i' = i + 1 /\ oldLine' = oldLine + 1 /\ newLine' = newLine + 1
    /\ UNCHANGED <<hunks, elements, stage, hunk, out>>

\* A part joins the fragment of the same owners on both sides, if it has any.
Split ==
    LET before == OwnersOf("deleted")
        after == OwnersOf("added")
        same == {k \in 1..Len(out) : /\ out[k].before = before /\ out[k].after = after
                                     /\ before \cup after # {}}
    IN
    /\ stage = "split" /\ hunk <= Len(hunks) /\ i <= Len(Lines)
    /\ Edit(Lines[i])
    /\ out' = IF same = {}
              THEN Append(out, [before |-> before, after |-> after, hunks |-> <<Part>>])
              ELSE [k \in 1..Len(out) |->
                      IF k \in same THEN [out[k] EXCEPT !.hunks = Append(@, Part)] ELSE out[k]]
    /\ i' = PartEnd + 1
    /\ oldLine' = oldLine + Cardinality({n \in i..PartEnd : Lines[n] = "deleted"})
    /\ newLine' = newLine + Cardinality({n \in i..PartEnd : Lines[n] = "added"})
    /\ UNCHANGED <<hunks, elements, stage, hunk>>

StartAt(k) ==
    /\ hunk' = k /\ i' = 1
    /\ oldLine' = IF k <= Len(hunks) THEN hunks[k].old ELSE 0
    /\ newLine' = IF k <= Len(hunks) THEN hunks[k].new ELSE 0

NextHunk ==
    /\ stage = "split" /\ hunk <= Len(hunks) /\ i > Len(Lines)
    /\ StartAt(hunk + 1)
    /\ UNCHANGED <<hunks, elements, stage, out>>

\* ValidateEdits: the fragments hold every edit of the patch as often as it does.
Covered ==
    LET all == FoldLeft(LAMBDA s, f : s \o f.hunks, <<>>, out)
    IN \A side \in Side : \A n \in 0..2 * MaxLine :
          Times(all, <<side, n>>) = Times(hunks, <<side, n>>)

\* A patch without an edited line (a rename, a mode, binary) is one fragment.
Finish ==
    /\ stage = "split" /\ hunk > Len(hunks)
    /\ out' = IF out = <<>> THEN <<[before |-> {}, after |-> {}, hunks |-> hunks]>> ELSE out
    /\ stage' = IF Covered THEN "done" ELSE "mismatch"
    /\ UNCHANGED <<hunks, elements, hunk, i, oldLine, newLine>>

-----------------------------------------------------------------------------
\* The hunks of a patch follow each other in both versions and do not touch.
WellFormed(hs) ==
    \A k \in 1..Len(hs) - 1 :
        LET h == hs[k] IN
        /\ hs[k + 1].old > Before(h, Len(h.lines) + 1)
        /\ hs[k + 1].new - hs[k + 1].old =
              After(h, Len(h.lines) + 1) - Before(h, Len(h.lines) + 1)

Init ==
    /\ hunks \in SeqOf([old : Line, new : Line, lines : SeqOf(Type, MaxLine)], 2)
    /\ WellFormed(hunks)
    /\ elements \in [Side -> SUBSET Span]
    /\ stage = "split" /\ out = <<>>
    /\ hunk = 1 /\ i = 1
    /\ oldLine = (IF hunks = <<>> THEN 0 ELSE hunks[1].old)
    /\ newLine = (IF hunks = <<>> THEN 0 ELSE hunks[1].new)

Next == Skip \/ Split \/ NextHunk \/ Finish

Spec == Init /\ [][Next]_vars

-----------------------------------------------------------------------------
(* Properties.                                                             *)

\* Each edit has one owner. At the end every edited line of the patch is in just
\* one fragment, at the line it really has, and that fragment names its innermost
\* declaration; no two fragments are alike, so their identities differ; and a
\* patch is never refused for missing coverage.
EditsOwnedOnce ==
    /\ stage # "mismatch"
    /\ stage = "done" =>
        /\ \A x \in Edits(hunks) :
              LET holders == {k \in 1..Len(out) : \E y \in Edits(out[k].hunks) : y[3] = x[3]} IN
              /\ Cardinality(holders) = 1
              /\ \A k \in holders :
                    /\ Times(out[k].hunks, x[3]) = 1
                    /\ Owner(x[3][1], x[3][2]) \subseteq
                            IF x[3][1] = "before" THEN out[k].before ELSE out[k].after
        /\ \A j, k \in 1..Len(out) : j # k => out[j] # out[k]
=============================================================================
