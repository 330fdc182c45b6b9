---------------------------- MODULE LiveStructure ----------------------------
(***************************************************************************)
(* How the headings typed into a live document become sections.            *)
(*                                                                         *)
(* A section of a document is a fragment of the session's Y.Doc, and the   *)
(* proposal on disk keeps a skeleton: the tree of sections, each with its  *)
(* body.  An edit that leaves the fragment with its own heading and one    *)
(* body is written to the proposal at once.  One that types a heading      *)
(* inside a body, renames, re-levels or deletes the heading, or types      *)
(* above it, lives in the Y.Doc alone until the document is quiet or is    *)
(* about to be published: the settle then classifies every fragment and    *)
(* changes the skeleton and the fragments to match                         *)
(* (crdt-ws-coordinator.ts, structural-change.ts, structural-appliers.ts,  *)
(* content-layer.ts, document-skeleton.ts).                                *)
(*                                                                         *)
(* A skeleton is the sequence of its sections in document order; `depth`   *)
(* gives the nesting, which the heading levels need not agree with.  A     *)
(* fragment, and a body, is a sequence of blocks: <<name, level>> is a     *)
(* heading and <<w>> the word number w.                                    *)
(***************************************************************************)
EXTENDS Naturals, FiniteSets, Sequences, SequencesExt, FiniteSetsExt

CONSTANTS
  Names,             \* heading texts an author types
  Levels,            \* heading levels an author types
  InitialSkeletons,  \* the skeletons a document may start with
  Changes,           \* structural changes the authors make, of ChangeKinds
  MaxEdits,          \* bound: edits in a behaviour
  MaxDirty           \* bound: structurally dirty fragments at a time

\* What a settle may find in a fragment: the kinds of classifyStructuralChange,
\* the splits and the deletions told apart by what the section is.
ChangeKinds == {"leading-chunk", "root-split", "section-split", "preceding-split",
                "parent-split", "nested-split", "renamed-split", "heading-rename",
                "heading-level-change", "heading-deletion", "parent-deletion"}

ASSUME LiveStructureAssumption ==
  /\ Changes \subseteq ChangeKinds
  /\ Levels \cup {MaxEdits, MaxDirty} \subseteq Nat \ {0}
  /\ "" \notin Names

VARIABLES
  doc,      \* the document: skeleton, fragments, registered keys, next id
  touched,  \* fragments edited since they last settled, latest edit last
  words,    \* number of the last word typed
  edits     \* edits so far

vars == <<doc, touched, words, edits>>

Bfh    == 0      \* BEFORE_FIRST_HEADING_KEY, the fragment above all headings
Absent == 99     \* no such node; larger than any index

-----------------------------------------------------------------------------
(* Fragments and the markdown parser                                        *)

IsHeading(block) == Len(block) = 2

HeadingsAt(f) == SelectSeq([i \in DOMAIN f |-> i], LAMBDA i : IsHeading(f[i]))

\* The words above the first heading: the headless section the parser emits.
Lead(f) ==
  LET hs == HeadingsAt(f)
  IN  IF hs = <<>> THEN f ELSE SubSeq(f, 1, hs[1] - 1)

\* The headed section that starts at position i of a fragment.
ParseAt(f, i) ==
  [head |-> f[i][1], level |-> f[i][2], body |-> Lead(SubSeq(f, i + 1, Len(f)))]

\* The headed sections of a fragment, each up to the next heading.
Parse(f) ==
  LET hs == HeadingsAt(f) IN [j \in DOMAIN hs |-> ParseAt(f, hs[j])]

\* The elements of a sequence of levels that stay open above element j: the
\* stack the parser keeps, popped by every heading of the same or a higher rank.
OpenAbove(levels, j) ==
  {i \in 1..(j - 1) : \A m \in (i + 1)..j : levels[m] > levels[i]}

\* The headings of the sections at the given indices, in order.
Heads(secs, indices) ==
  LET chain == SelectSeq([i \in DOMAIN secs |-> i], LAMBDA i : i \in indices)
  IN  [m \in DOMAIN chain |-> secs[chain[m]].head]

\* Heading path of the j-th of a sequence of parsed sections.
ParsedPath(secs, j) ==
  LET open == OpenAbove([i \in DOMAIN secs |-> secs[i].level], j)
  IN  IF secs[j].head = "" THEN <<>>
      ELSE Heads(secs, {i \in open : secs[i].head # ""} \cup {j})

Content(sec) == IF sec.head = "" THEN sec.body ELSE <<<<sec.head, sec.level>>>> \o sec.body

-----------------------------------------------------------------------------
(* Skeletons *)

Splice(s, i, n, t) == SubSeq(s, 1, i - 1) \o t \o SubSeq(s, i + n, Len(s))

Keys(sk)   == {sk[i].key : i \in DOMAIN sk}
KeyAt(sk, key) == CHOOSE i \in DOMAIN sk : sk[i].key = key

Ancestors(sk, i) == OpenAbove([m \in DOMAIN sk |-> sk[m].depth], i)

PathAt(sk, i) ==
  IF sk[i].key = Bfh THEN <<>> ELSE Heads(sk, Ancestors(sk, i) \cup {i})

\* Index 0 stands for the document, the parent of the root sections.
Parent(sk, i)   == Max(Ancestors(sk, i) \cup {0})
Children(sk, p) == {i \in DOMAIN sk : Parent(sk, i) = p /\ sk[i].key # Bfh}
LastOf(sk, p)   == IF p = 0 THEN Len(sk)
                   ELSE Max({p} \cup {i \in DOMAIN sk : p \in Ancestors(sk, i)})
IsParent(sk, i) == Children(sk, i) # {}

Named(sk, p, head) == {i \in Children(sk, p) : sk[i].head = head}

\* Lookup by address takes the first match at every segment.
Node(sk, path) ==
  FoldLeft(LAMBDA p, head : Min(Named(sk, p, head) \cup {Absent}), 0, path)

Section(sk, path) ==
  IF path # <<>> THEN Node(sk, path)
  ELSE IF Bfh \in Keys(sk) THEN KeyAt(sk, Bfh) ELSE Absent

\* A read of all bodies is keyed by address: of two equal ones the last stays.
BodyRead(sk, i) ==
  sk[Max({j \in DOMAIN sk : PathAt(sk, j) = PathAt(sk, i)})].body

Clean(sec, f) ==
  IF sec.key = Bfh THEN HeadingsAt(f) = <<>>
  ELSE HeadingsAt(f) = <<1>> /\ f[1] = <<sec.head, sec.level>>

-----------------------------------------------------------------------------
(* Operations of the proposal's skeleton.  Where the code throws, ok is     *)
(* FALSE from then on and the operations that follow do nothing.            *)

Throw(d) == [d EXCEPT !.ok = FALSE]

\* An operation on the section at index i has something to work on.
Found(d, i) == d.ok /\ i # Absent

Taken(sk, i, head) == \E j \in Named(sk, Parent(sk, i), head) : j # i

Retitle(d, i, sec) ==
  IF Found(d, i) /\ d.skel[i].key # Bfh /\ ~Taken(d.skel, i, sec.head)
  THEN [d EXCEPT !.skel[i] = [@ EXCEPT !.head = sec.head, !.level = sec.level,
                                       !.body = sec.body]]
  ELSE Throw(d)

\* A new last child of section p; a leaf that gets its first child gives its
\* body to a body holder with a new id.
AddChild(d, p, head) ==
  LET sk   == IF p = 0 \/ IsParent(d.skel, p) THEN d.skel
              ELSE [d.skel EXCEPT ![p].key = d.next]
      node == [key   |-> d.next + 1, head |-> head,
               level |-> IF p = 0 THEN 1 ELSE sk[p].level + 1,
               depth |-> IF p = 0 THEN 1 ELSE sk[p].depth + 1, body |-> <<>>]
  IN  [d EXCEPT !.skel = Splice(sk, LastOf(sk, p) + 1, 0, <<node>>), !.next = @ + 2]

\* Every section of the path that is missing.
Materialize(d, path) ==
  FoldLeft(LAMBDA e, n : IF Node(e.skel, SubSeq(path, 1, n)) # Absent THEN e
                         ELSE AddChild(e, Node(e.skel, SubSeq(path, 1, n - 1)), path[n]),
           d, [n \in DOMAIN path |-> n])

Ensure(d, path) == IF Section(d.skel, path) = Absent THEN Materialize(d, path) ELSE d

\* replaceSubtreeDeletingOmittedSections of a section without children: the
\* parsed sections take its place and the one at its own address keeps its key.
Replace(d, i, secs) ==
  LET rel(j) == ParsedPath(secs, j)
      own    == IF d.skel[i].key = Bfh THEN <<>> ELSE <<d.skel[i].head>>
      nodes  == [j \in DOMAIN secs |->
                   [key   |-> IF rel(j) = own THEN d.skel[i].key ELSE d.next + j,
                    head  |-> secs[j].head, level |-> secs[j].level,
                    depth |-> d.skel[i].depth + Max({1, Len(rel(j))}) - 1,
                    body  |-> secs[j].body]]
      clash  == \/ \E j, m \in DOMAIN secs : j # m /\ rel(j) = rel(m)
                \/ \E j \in DOMAIN secs : Len(rel(j)) = 1 /\ Taken(d.skel, i, secs[j].head)
  IN  IF ~Found(d, i) \/ clash THEN Throw(d)
      ELSE [d EXCEPT !.skel = Splice(@, i, 1, nodes), !.next = @ + Len(secs) + 1]

\* upsertSectionFromMarkdownCore for one headed section.
Upsert(d, i, sec) ==
  IF ~Found(d, i) THEN Throw(d)
  ELSE IF d.skel[i].head = sec.head /\ d.skel[i].level = sec.level
  THEN [d EXCEPT !.skel[i].body = sec.body]
  ELSE IF IsParent(d.skel, i) THEN Retitle(d, i, sec)
  ELSE Replace(d, i, <<sec>>)

UpsertIn(d, path, sec)  == Upsert(d, Section(d.skel, path), sec)
UpsertOne(d, path, sec) == UpsertIn(IF d.ok THEN Ensure(d, path) ELSE d, path, sec)

\* A section written below the parent p right after its child `sib`, or first.
Place(d, p, sib, target, sec) ==
  LET at   == IF sib = 0 THEN p ELSE LastOf(d.skel, sib)
      node == [key |-> d.next, head |-> sec.head, level |-> sec.level,
               depth |-> Len(target), body |-> sec.body]
  IN  IF ~d.ok \/ sib = Absent THEN Throw(d)
      ELSE [d EXCEPT !.skel = Splice(@, at + 1, 0, <<node>>), !.next = @ + 1]

\* One of several sections written to one that has children: below a parent
\* with children it goes to the place it was typed, after the one written there
\* before it (none: <<>>), otherwise where a missing node is put.
UpsertNext(d, target, before, sec) ==
  LET p   == Node(d.skel, Front(target))
      sib == IF before = <<>> THEN 0 ELSE Node(d.skel, Front(target) \o before)
  IN  IF /\ p \notin {0, Absent}
         /\ IsParent(d.skel, p)
         /\ Node(d.skel, target) = Absent
      THEN Place(d, p, sib, target, sec)
      ELSE UpsertOne(d, target, sec)

\* The heading of the last section before the j-th that has the same parent.
Before(secs, j) ==
  LET prev == {m \in 1..(j - 1) : Front(ParsedPath(secs, m)) = Front(ParsedPath(secs, j))}
  IN  IF prev = {} THEN <<>> ELSE <<secs[Max(prev)].head>>

UpsertEach(d, path, secs) ==
  FoldLeft(LAMBDA e, j : UpsertNext(e, Front(path) \o ParsedPath(secs, j), Before(secs, j), secs[j]),
           UpsertOne(d, path, secs[1]), [j \in 1..(Len(secs) - 1) |-> j + 1])

WriteAt(d, i, path, secs) ==
  IF Len(secs) = 1 /\ path # <<>> THEN Upsert(d, i, secs[1])
  ELSE IF IsParent(d.skel, i) THEN UpsertEach(d, path, secs)
  ELSE Replace(d, i, secs)

WriteIn(d, path, secs)        == WriteAt(d, Section(d.skel, path), path, secs)
WriteExpanding(d, path, secs) == IF d.ok THEN WriteIn(Ensure(d, path), path, secs) ELSE d

\* reorderSiblingSection(path, target, "before").
ReorderBefore(d, i, target) ==
  LET n    == LastOf(d.skel, i) - i + 1
      rest == Splice(d.skel, i, n, <<>>)
      to   == Node(d.skel, target)
  IN  IF ~Found(d, i) \/ to = Absent THEN Throw(d)
      ELSE IF to = i THEN d
      ELSE [d EXCEPT !.skel = Splice(rest, Node(rest, target), 0, SubSeq(@, i, i + n - 1))]

\* Mutant: the text joins the fragment of the section before and not its body.
JoinLiveAlone(sk, i, text) ==
  IF text = <<>> \/ i > 1 THEN sk
  ELSE <<[key |-> Bfh, head |-> "", level |-> 0, depth |-> 1, body |-> text]>> \o sk

\* Text that loses its heading joins the section before it, or a new section
\* above all headings.
JoinPrevious(sk, i, text) ==
  IF text = <<>> THEN sk
  ELSE IF i > 1 THEN [sk EXCEPT ![i - 1].body = @ \o text]
  ELSE <<[key |-> Bfh, head |-> "", level |-> 0, depth |-> 1, body |-> text]>> \o sk

\* A section under the headings still open, given as levels and depths.
PutUnder(acc, level, top) ==
  LET keep  == Max({0} \cup {m \in DOMAIN acc.open : acc.open[m].level < level})
      depth == IF keep = 0 THEN top ELSE acc.open[keep].depth + 1
  IN  [open  |-> Append(SubSeq(acc.open, 1, keep), [level |-> level, depth |-> depth]),
       depth |-> Append(acc.depth, depth)]

\* DocumentSkeleton.removeHeading: each child of the removed section goes below
\* the deepest heading of smaller level still open before it, the ones of the
\* preceding sibling first and then the children already placed.
Reparent(sk, i) ==
  LET kids   == SelectSeq([j \in DOMAIN sk |-> j], LAMBDA j : j \in Children(sk, i))
      open   == SelectSeq([j \in 1..(i - 1) |-> j],
                          LAMBDA j : /\ sk[j].depth >= sk[i].depth
                                     /\ sk[j].key # Bfh
                                     /\ LastOf(sk, j) = i - 1)
      placed == FoldLeft(LAMBDA acc, c : PutUnder(acc, sk[c].level, sk[i].depth),
                         [open |-> [m \in DOMAIN open |-> sk[open[m]]], depth |-> <<>>],
                         kids).depth
      top(j) == CHOOSE m \in DOMAIN kids : j \in kids[m]..LastOf(sk, kids[m])
  IN  [j \in DOMAIN sk |->
         IF i \in Ancestors(sk, j)
         THEN [sk[j] EXCEPT !.depth = @ - sk[kids[top(j)]].depth + placed[top(j)]]
         ELSE sk[j]]

\* A section above all headings that stays without text goes too.
DropEmptyIntro(sk, i) == IF i = 2 /\ sk[1].key = Bfh /\ sk[1].body = <<>> THEN Tail(sk) ELSE sk

\* content-layer removeHeading: the deletion of a heading.
RemoveHeading(d, i, orphan) ==
  IF ~Found(d, i) THEN Throw(d)
  ELSE [d EXCEPT !.skel =
          DropEmptyIntro(JoinPrevious(Splice(Reparent(@, i), i, 1, <<>>), i, orphan), i)]

-----------------------------------------------------------------------------
(* Live fragments *)

LiveKeys(d)  == ToSet(d.reg)
LiveOf(d, k) == IF k \in LiveKeys(d) THEN d.live[k] ELSE <<>>

SetLive(d, k, f) ==
  [d EXCEPT !.live = [j \in DOMAIN d.live \cup {k} |-> IF j = k THEN f ELSE d.live[j]],
            !.reg  = IF k \in LiveKeys(d) THEN @ ELSE Append(@, k)]

Unregister(d, gone) ==
  [d EXCEPT !.live = [j \in DOMAIN d.live \ gone |-> d.live[j]],
            !.reg  = SelectSeq(@, LAMBDA j : j \notin gone)]

\* Live text joins the fragment of section `to`, which is seeded when no live
\* fragment shows it yet.
JoinLive(d, to, text) ==
  IF text = <<>> THEN d
  ELSE IF to \in LiveKeys(d) THEN SetLive(d, to, d.live[to] \o text)
  ELSE SetLive(d, to, Content(d.skel[KeyAt(d.skel, to)]))

-----------------------------------------------------------------------------
(* The settle, fragment by fragment *)

\* The section before the one at index i.
Previous(sk, i) == IF i > 1 THEN sk[i - 1].key ELSE Bfh

\* settleLeadingChunk: words typed above a section's heading move to the end of
\* the section before.
SettleLead(d, i, chunk) ==
  IF chunk = <<>> THEN d
  ELSE IF ~Found(d, i) THEN Throw(d)
  ELSE JoinLive([d EXCEPT !.skel = JoinPrevious(@, i, chunk)], Previous(d.skel, i), chunk)

\* The words are cut from the fragment, where no split of it does so.
CutLead(d, k, chunk) ==
  IF ~d.ok \/ chunk = <<>> THEN d
  ELSE SetLive(d, k, SubSeq(d.live[k], Len(chunk) + 1, Len(d.live[k])))

\* parseSectionSplit: the first section with the old heading and level
\* survives, or else the first of all, renamed.
Survivor(id, secs) ==
  LET same == {j \in DOMAIN secs : secs[j].head = id.head /\ secs[j].level = id.level}
  IN  IF same = {} THEN 1 ELSE Min(same)

\* The survivor and the sections below it are written to its address.
WriteSurvivor(d, id, secs, s) ==
  LET renamed == <<secs[s].head, secs[s].level>> # <<id.head, id.level>>
  IN  WriteExpanding(IF renamed THEN Retitle(d, Section(d.skel, id.path), secs[s]) ELSE d,
                     Append(Front(id.path), secs[s].head), SubSeq(secs, s, Len(secs)))

\* The sections above the survivor are created ...
WriteAbove(d, prefix, secs, s) ==
  FoldLeft(LAMBDA e, j : UpsertOne(e, prefix \o ParsedPath(secs, j), secs[j]),
           d, [j \in 1..(s - 1) |-> j])

\* ... and the ones beside it moved before it.
MoveAbove(d, prefix, secs, s) ==
  FoldLeft(LAMBDA e, j : IF Len(ParsedPath(secs, j)) > 1 THEN e
                         ELSE ReorderBefore(e, Section(e.skel, Append(prefix, secs[j].head)),
                                            Append(prefix, secs[s].head)),
           d, [j \in 1..(s - 1) |-> j])

\* Mutant: sections typed above the survivor are not moved above it.
ReflectSplitUnordered(d, id, secs, s) ==
  WriteAbove(WriteSurvivor(d, id, secs, s), Front(id.path), secs, s)

\* reflectSplitIntoProposal for a headed section.
ReflectSplit(d, id, secs, s) ==
  MoveAbove(WriteAbove(WriteSurvivor(d, id, secs, s), Front(id.path), secs, s),
            Front(id.path), secs, s)

ReflectRootSplit(d, lead, secs) ==
  WriteExpanding(d, <<>>,
    (IF lead = <<>> THEN <<>> ELSE <<[head |-> "", level |-> 0, body |-> lead]>>) \o secs)

\* A section without a fragment gets one from its body in the proposal.
Seed(d, sec) ==
  SetLive(d, sec.key, Content([sec EXCEPT !.body = BodyRead(d.skel, KeyAt(d.skel, sec.key))]))

\* applyStructuralSplitPlan: the fragment keeps what its section keeps, the new
\* sections are seeded, a section above all headings that is gone loses its own.
ShowSplit(d, k, kept, f) ==
  LET new    == SelectSeq(d.skel, LAMBDA sec : sec.key \notin LiveKeys(d))
      seeded == FoldLeft(Seed, SetLive(d, k, kept), new)
  IN  IF ~d.ok THEN d
      ELSE IF k = Bfh /\ Bfh \notin Keys(d.skel) THEN Unregister(seeded, {Bfh})
      ELSE IF new = <<>> THEN SetLive(d, k, SubSeq(f, Len(Lead(f)) + 1, Len(f)))
      ELSE seeded

SettleSplit(d, k, id, f, secs, s) ==
  ShowSplit(ReflectSplit(SettleLead(d, Section(d.skel, id.path), Lead(f)), id, secs, s),
            k, Content(secs[s]), f)

\* The fragment of a removed heading goes, its text joins the one before.
HideRemoved(d, key, to, f) ==
  IF ~d.ok THEN d
  ELSE Unregister(IF to \in Keys(d.skel) THEN JoinLive(d, to, f) ELSE d,
                  {key} \cup ({Bfh} \ Keys(d.skel)))

SettleDeletion(d, i, f) ==
  IF ~Found(d, i) THEN Throw(d)
  ELSE HideRemoved(RemoveHeading(d, i, f), d.skel[i].key, Previous(d.skel, i), f)

\* A rename or a change of level, or only words above the heading.
SettleTitle(d, k, id, chunk, sec) ==
  LET led == CutLead(SettleLead(d, Section(d.skel, id.path), chunk), k, chunk)
  IN  IF Clean(id, Content(sec)) THEN led ELSE Retitle(led, Section(led.skel, id.path), sec)

\* One fragment of normalizeQuiescedStructure; id is its section in the layout
\* read before the loop.
SettleOne(d, k, id, f, secs) ==
  IF Clean(id, f) THEN d
  ELSE IF k = Bfh THEN ShowSplit(ReflectRootSplit(d, Lead(f), secs), k, Lead(f), f)
  ELSE IF secs = <<>> THEN SettleDeletion(d, Section(d.skel, id.path), f)
  ELSE IF Len(secs) = 1 THEN SettleTitle(d, k, id, Lead(f), secs[1])
  ELSE SettleSplit(d, k, id, f, secs, Survivor(id, secs))

\* What a fragment belongs to in the layout.
Identity(sk, i) ==
  [key |-> sk[i].key, head |-> sk[i].head, level |-> sk[i].level, path |-> PathAt(sk, i)]

\* normalizeQuiescedStructure: the layout is read once, then the fragments are
\* taken in the order of their registration.
SettleKeys(d, keys) ==
  FoldLeft(LAMBDA e, k :
             IF ~e.ok \/ k \notin Keys(d.skel) THEN Throw(e)
             ELSE SettleOne(e, k, Identity(d.skel, KeyAt(d.skel, k)), LiveOf(e, k), Parse(LiveOf(e, k))),
           d, SelectSeq(d.reg, LAMBDA k : k \in keys))

-----------------------------------------------------------------------------
(* Edits *)

\* Addresses of all headings as the gate counts them: the other fragments by
\* the skeleton, the edited one by its headings below its section's parent.
Addresses(d, k, f) ==
  LET i    == KeyAt(d.skel, k)
      base == IF k = Bfh THEN <<>> ELSE Front(PathAt(d.skel, i))
      secs == Parse(f)
  IN  [j \in DOMAIN d.skel \ {m \in DOMAIN d.skel : m = i \/ d.skel[m].key = Bfh}
         |-> PathAt(d.skel, j)]
      @@ [j \in {Len(d.skel) + m : m \in DOMAIN secs}
            |-> base \o ParsedPath(secs, j - Len(d.skel))]

Uses(addresses, a) == Cardinality({j \in DOMAIN addresses : addresses[j] = a})

\* No address gets a second or a further use.
Distinguishes(pre, post) ==
  \A j \in DOMAIN post : Uses(post, post[j]) < 2 \/ Uses(post, post[j]) <= Uses(pre, post[j])

\* Mutant: the gate compares the headings of the edited fragment alone.
AcceptedByItself(d, k, f) ==
  LET secs == Parse(f)
  IN  \A i, j \in DOMAIN secs : ParsedPath(secs, i) = ParsedPath(secs, j) => i = j

\* The acceptance gate.
Accepted(d, k, f) == Distinguishes(Addresses(d, k, d.live[k]), Addresses(d, k, f))

\* Mutant: the body of an accepted edit is written by the settle.
MaterializedLater(d, k) == d

\* An accepted edit of a clean fragment is written to the proposal at the
\* address of its section.
Materialized(d, k) ==
  LET i    == KeyAt(d.skel, k)
      to   == Section(d.skel, PathAt(d.skel, i))
      body == SelectSeq(d.live[k], LAMBDA b : ~IsHeading(b))
  IN  IF Clean(d.skel[i], d.live[k]) THEN [d EXCEPT !.skel[to].body = body] ELSE d

Dirty(d) == {k \in LiveKeys(d) \cap Keys(d.skel) : ~Clean(d.skel[KeyAt(d.skel, k)], LiveOf(d, k))}

\* The split of the section at index i, by its parsed sections.
SplitKind(sk, i, secs, s) ==
  IF Len(ParsedPath(secs, s)) > 1 THEN "nested-split"
  ELSE IF IsParent(sk, i) /\ secs[s].head # sk[i].head THEN "renamed-split"
  ELSE IF IsParent(sk, i) /\ \E j \in (s + 1)..Len(secs) : secs[j].level <= secs[s].level
  THEN "parent-split"
  ELSE IF s > 1 THEN "preceding-split" ELSE "section-split"

TitleKind(sec, parsed) ==
  IF parsed.level # sec.level THEN {"heading-level-change"}
  ELSE IF parsed.head # sec.head THEN {"heading-rename"}
  ELSE {}

\* What the settle will have to do for the section, by name.
Change(sk, i, f, secs) ==
  IF Clean(sk[i], f) THEN {}
  ELSE IF sk[i].key = Bfh THEN {"root-split"}
  ELSE IF secs = <<>> THEN {IF IsParent(sk, i) THEN "parent-deletion" ELSE "heading-deletion"}
  ELSE (IF Lead(f) = <<>> THEN {} ELSE {"leading-chunk"})
       \cup
       (IF Len(secs) > 1 THEN {SplitKind(sk, i, secs, Survivor(sk[i], secs))}
        ELSE TitleKind(sk[i], secs[1]))

Edit(k, f) ==
  LET d == SetLive(doc, k, f)
  IN  /\ edits < MaxEdits
      /\ doc.ok
      /\ Change(doc.skel, KeyAt(doc.skel, k), f, Parse(f)) \subseteq Changes
      /\ Accepted(doc, k, f)
      /\ Cardinality(Dirty(d)) <= MaxDirty
      /\ doc' = Materialized(d, k)
      /\ touched' = Append(SelectSeq(touched, LAMBDA j : j # k), k)
      /\ edits' = edits + 1

Editable == LiveKeys(doc) \cap Keys(doc.skel)

TypeWord ==
  /\ \E k \in Editable : \E p \in 1..(Len(doc.live[k]) + 1) :
       Edit(k, Splice(doc.live[k], p, 0, <<<<words + 1>>>>))
  /\ words' = words + 1

TypeHeading ==
  /\ \E k \in Editable, h \in Names, l \in Levels :
       \E p \in 1..(Len(doc.live[k]) + 1) :
         Edit(k, Splice(doc.live[k], p, 0, <<<<h, l>>>>))
  /\ UNCHANGED words

ChangeHeading ==
  /\ \E k \in Editable, h \in Names, l \in Levels : \E p \in DOMAIN doc.live[k] :
       /\ IsHeading(doc.live[k][p])
       /\ doc.live[k][p] # <<h, l>>
       /\ Edit(k, [doc.live[k] EXCEPT ![p] = <<h, l>>])
  /\ UNCHANGED words

Erase ==
  /\ \E k \in Editable : \E p \in DOMAIN doc.live[k] :
       Edit(k, Splice(doc.live[k], p, 1, <<>>))
  /\ UNCHANGED words

-----------------------------------------------------------------------------
(* The session *)

\* The n fragments edited last.
StillActive(n) == SubSeq(touched, Len(touched) - n + 1, Len(touched))

\* The quiescence command, and with no fragment still active the settle of a
\* section move.  The fragments edited last are still active: updates that were
\* queued before the command are applied before it.
Settle ==
  \E active \in 0..(Len(touched) - 1) :
    LET still == StillActive(active)
    IN  /\ doc.ok
        /\ doc' = SettleKeys(doc, LiveKeys(doc) \ ToSet(still))
        /\ touched' = still
        /\ UNCHANGED <<words, edits>>

\* finalizeAndEnd: a publish settles every fragment and writes every body; a
\* fragment that still disagrees with its section makes it throw.
WriteAll(d) ==
  IF ~d.ok \/ Dirty(d) # {} THEN Throw(d)
  ELSE FoldLeft(Materialized, d, d.reg)

Publish ==
  /\ doc.ok /\ edits > 0
  /\ doc' = WriteAll(SettleKeys(doc, LiveKeys(doc)))
  /\ touched' = <<>>
  /\ UNCHANGED <<words, edits>>

FromSkeleton(sk, next) ==
  LET reg == [i \in DOMAIN sk |-> sk[i].key]
  IN  [skel |-> sk, reg |-> reg, next |-> next, ok |-> TRUE,
       live |-> [k \in ToSet(reg) |->
                   LET i == KeyAt(sk, k) IN Content([sk[i] EXCEPT !.body = BodyRead(sk, i)])]]

\* The session is discarded, or the process restarts, after a settle: the
\* fragments are rebuilt from the skeleton and its bodies.
Reopen ==
  /\ doc.ok /\ touched = <<>>
  /\ doc' = FromSkeleton(doc.skel, doc.next)
  /\ UNCHANGED <<touched, words, edits>>

Init ==
  /\ \E sk \in InitialSkeletons : doc = FromSkeleton(sk, Len(sk) + 1)
  /\ touched = <<>>
  /\ words = Cardinality({i \in DOMAIN doc.skel : doc.skel[i].body # <<>>})
  /\ edits = 0

Next == TypeWord \/ TypeHeading \/ ChangeHeading \/ Erase \/ Settle \/ Publish \/ Reopen

Spec == Init /\ [][Next]_vars

-----------------------------------------------------------------------------
(* Text and layout, as the properties compare them *)

\* What the authors see: the live fragments in the order of the layout.
Text(d) == FlattenSeq([i \in DOMAIN d.skel |-> LiveOf(d, d.skel[i].key)])

\* The document assembled from the skeleton and its bodies.
Assembled(sk) == FlattenSeq([i \in DOMAIN sk |-> Content(sk[i])])

IsSettle == touched' # touched /\ edits' = edits

\* Every fragment, key and block there is has been made by the actions above.
TypeOK ==
  /\ doc.ok \in BOOLEAN
  /\ edits \in 0..MaxEdits /\ words \in Nat
  /\ ToSet(touched) \subseteq 0..doc.next
  /\ \A k \in LiveKeys(doc) : k = Bfh \/ k \in 1..doc.next
  /\ \A k \in LiveKeys(doc) : \A b \in ToSet(doc.live[k]) :
       IsHeading(b) \/ b[1] \in 1..words

\* An edit the acceptance gate lets through can be settled, and what is settled
\* can be published: none of the throws on the way (a heading that is taken, a
\* section that is not found, a fragment that still disagrees) is reached.
SettleSucceeds == doc.ok

\* Between commands the session's fragments are the sections of the proposal,
\* one each: a split gives every new section its fragment, a removed section's
\* fragment goes with it, and no key is given out twice.
RegisteredIsLayout ==
  doc.ok => /\ LiveKeys(doc) = Keys(doc.skel)
            /\ Len(doc.reg) = Len(doc.skel)
            /\ Cardinality(Keys(doc.skel)) = Len(doc.skel)

\* No two sections have one address.  The gate looks at one edit at a time, the
\* skeleton operations move whole subtrees; a second section of an address would
\* be hidden by the first (heading-addressability.ts).
UniqueAddresses ==
  doc.ok => \A i, j \in DOMAIN doc.skel : PathAt(doc.skel, i) = PathAt(doc.skel, j) => i = j

\* A fragment that agrees with its section has its text in the proposal, so what
\* a crash can lose is the structurally dirty fragments alone: edits write the
\* clean ones at once, a settle writes what it makes clean.
CleanIsDurable ==
  doc.ok => \A i \in DOMAIN doc.skel :
    LET sec == doc.skel[i]
    IN  Clean(sec, LiveOf(doc, sec.key)) => LiveOf(doc, sec.key) = Content(sec)

\* A settle changes what the sections are and never what the authors see: the
\* same blocks in the same order before and after, whichever fragments it takes
\* and whichever are still being typed in.
SettleKeepsText == [][IsSettle /\ doc'.ok => Text(doc') = Text(doc)]_vars

\* A publish that goes through, and a settle with no fragment still active, put
\* on disk the document the authors saw.
PublishKeepsText ==
  [][edits' = edits /\ doc'.ok /\ touched' = <<>> => Assembled(doc'.skel) = Text(doc)]_vars

\* A session rebuilt from the proposal after everything has settled shows what
\* the one before showed.
ReopenKeepsText == [][touched = <<>> /\ edits' = edits => Text(doc') = Text(doc)]_vars

\* Where the headings are deleted and no level is changed, a section lies below
\* the headings a parser of the whole text would put it below: the children of
\* a deleted heading find the parent their level asks for.
NestingFollowsLevels ==
  doc.ok => \A i \in DOMAIN doc.skel :
    Ancestors(doc.skel, i) =
      {j \in OpenAbove([m \in DOMAIN doc.skel |-> doc.skel[m].level], i) :
         doc.skel[j].key # Bfh}
=============================================================================
