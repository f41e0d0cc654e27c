------------------------------ MODULE PatchText ------------------------------
(* The text a set of patches makes of a file (patch_file).  A text is a sequence *)
(* of characters; offsets count from 0 as in the code, a range excludes its end. *)
(* A patch is located in the original text and all of them are applied to it     *)
(* from the end backwards.                                                       *)
EXTENDS Naturals, Integers, Sequences, FiniteSets, SequencesExt, FiniteSetsExt

Newline == "nl"

\* A patch without anchors, line range or occurrence.
Patch(op, old, new) == [op |-> op, old |-> old, new |-> new, before |-> <<>>,
                        after |-> <<>>, lines |-> <<>>, nth |-> 0]

Slice(text, from, to) == SubSeq(text, from + 1, to)
OccursAt(text, needle, i) == Slice(text, i, i + Len(needle)) = needle

\* str.find: the places where needle lies inside from..to.
Places(text, needle, from, to) == {i \in from..(to - Len(needle)) : OccursAt(text, needle, i)}

InOrder(S) == CHOOSE s \in [1..Cardinality(S) -> S] :
                  \A i, j \in DOMAIN s : i < j => s[i] < s[j]

\* Matches are taken from the left and do not overlap.
Occurrences(text, needle, from, to) ==
    LET places == Places(text, needle, from, to)
        taken[i \in places] ==
            ~\E j \in places : j < i /\ i < j + Len(needle) /\ taken[j]
    IN InOrder({i \in places : taken[i]})

LineStarts(text) == InOrder({i \in 0..(Len(text) - 1) : i = 0 \/ text[i] = Newline})
LineEnd(text, starts, k) == IF k = Len(starts) THEN Len(text) ELSE starts[k + 1]

Refused(code)    == [code |-> code, start |-> 0, end |-> 0]
Found(start, end) == [code |-> "ok", start |-> start, end |-> end]

\* The first occurrence of anchor_before and the first of anchor_after behind it
\* enclose the place to search.
AnchorBounds(text, p) ==
    LET heads == Places(text, p.before, 0, Len(text))
        from  == IF p.before = <<>> THEN 0 ELSE Min(heads) + Len(p.before)
        tails == Places(text, p.after, from, Len(text)) IN
    IF p.before # <<>> /\ heads = {} THEN Refused("patch_anchor_not_found")
    ELSE IF p.after # <<>> /\ tails = {} THEN Refused("patch_anchor_not_found")
    ELSE Found(from, IF p.after = <<>> THEN Len(text) ELSE Min(tails))

\* A line range must hold exactly old_text.
LineRangeMatch(text, p, starts) ==
    LET from == p.lines[1]
        to   == p.lines[2] IN
    IF to < from \/ to > Len(starts) THEN Refused("patch_line_mismatch")
    ELSE IF Slice(text, starts[from], LineEnd(text, starts, to)) # p.old
    THEN Refused("patch_line_mismatch")
    ELSE Found(starts[from], LineEnd(text, starts, to))

\* found: where old_text occurs in the place to search.
OldTextMatch(p, found) ==
    LET nth == IF p.nth = 0 THEN 1 ELSE p.nth IN
    IF Len(found) < nth THEN Refused("patch_old_text_not_found")
    ELSE IF p.nth = 0 /\ Len(found) > 1 THEN Refused("patch_ambiguous_match")
    ELSE Found(found[nth], found[nth] + Len(p.old))

LocateWithin(text, p, bounds) ==
    IF p.old = <<>> THEN Refused("invalid_args")
    ELSE IF bounds.code # "ok" THEN bounds
    ELSE IF p.lines # <<>> THEN LineRangeMatch(text, p, LineStarts(text))
    ELSE OldTextMatch(p, Occurrences(text, p.old, bounds.start, bounds.end))
Locate(text, p) == LocateWithin(text, p, AnchorBounds(text, p))

Inserts(p) == p.op \in {"insert_before", "insert_after"}

\* Where patch i goes: what it takes away is start..end, what it adds comes at "at".
LocatedPatch(p, span) ==
    [code |-> span.code, start |-> span.start, end |-> span.end,
     at |-> IF p.op = "insert_after" THEN span.end ELSE span.start,
     inserts |-> Inserts(p),
     new |-> IF p.op = "delete_block" THEN <<>> ELSE p.new]
Located(text, patches) ==
    [i \in DOMAIN patches |-> LocatedPatch(patches[i], Locate(text, patches[i]))]

\* Two insertions at one place, or two rewritten ranges that overlap.
OverlapConflict(located) ==
    \E i, j \in DOMAIN located :
        /\ i # j
        /\ LET x == located[i]
               y == located[j] IN
           \/ x.inserts /\ y.inserts /\ x.at = y.at
           \/ ~x.inserts /\ ~y.inserts /\ x.start < y.end /\ x.end > y.start

Before(located, i, j) ==
    LET x == located[i]
        y == located[j] IN
    \/ x.at > y.at
    \/ x.at = y.at /\ x.start > y.start
    \/ x.at = y.at /\ x.start = y.start /\ i < j

ApplyOne(text, x) ==
    Slice(text, 0, x.at) \o x.new
        \o Slice(text, IF x.inserts THEN x.at ELSE x.end, Len(text))

\* Mutant: the patches are applied from the start, with the offsets of the
\* original text.
ApplyForward(text, located) ==
    LET next(left) == CHOOSE i \in left : \A j \in left \ {i} : Before(located, j, i)
        step[k \in 0..Len(located)] ==
            IF k = 0 THEN [left |-> DOMAIN located, text |-> text]
            ELSE LET i == next(step[k - 1].left)
                 IN [left |-> step[k - 1].left \ {i},
                     text |-> ApplyOne(step[k - 1].text, located[i])]
    IN step[Len(located)].text

\* One after the other, from the end of the text: what is left to apply, and the
\* text so far.
FirstOf(located, left) == CHOOSE i \in left : \A j \in left \ {i} : Before(located, i, j)
Applied(located, done) ==
    LET i == FirstOf(located, done.left)
    IN [left |-> done.left \ {i}, text |-> ApplyOne(done.text, located[i])]
Apply(text, located) ==
    LET step[k \in 0..Len(located)] ==
          IF k = 0 THEN [left |-> DOMAIN located, text |-> text]
          ELSE Applied(located, step[k - 1])
    IN step[Len(located)].text

\* build_patch_plan on a text that was read.
PlanLocated(text, located) ==
    LET refused == {i \in DOMAIN located : located[i].code # "ok"} IN
    IF located = <<>> THEN [code |-> "invalid_args", text |-> text]
    ELSE IF refused # {} THEN [code |-> located[Min(refused)].code, text |-> text]
    ELSE IF OverlapConflict(located) THEN [code |-> "patch_conflict", text |-> text]
    ELSE [code |-> "ok", text |-> Apply(text, located)]
PatchPlan(text, patches) == PlanLocated(text, Located(text, patches))

(*********************************** reference **********************************)
\* What a reader of the patches expects: the original text, place by place, with
\* every range rewritten where it was located.
Coming(located, ks) == IF ks = {} THEN <<>> ELSE located[CHOOSE k \in ks : TRUE].new
AtPlace(text, located, i) ==
    LET added == {k \in DOMAIN located : located[k].inserts /\ located[k].at = i}
        begun == {k \in DOMAIN located : ~located[k].inserts /\ located[k].start = i}
        gone  == \E k \in DOMAIN located : /\ ~located[k].inserts
                                           /\ located[k].start <= i /\ i < located[k].end
    IN Coming(located, added) \o Coming(located, begun)
         \o (IF gone \/ i = Len(text) THEN <<>> ELSE <<text[i + 1]>>)
Rewritten(text, located) ==
    LET behind[k \in 0..(Len(text) + 1)] ==
          IF k = 0 THEN <<>> ELSE AtPlace(text, located, Len(text) + 1 - k) \o behind[k - 1]
    IN behind[Len(text) + 1]

\* An insertion into a range that another patch rewrites.
Entangled(located) ==
    \E i, j \in DOMAIN located :
        /\ located[i].inserts /\ ~located[j].inserts
        /\ located[j].start <= located[i].at /\ located[i].at < located[j].end
===============================================================================
