------------------------------ MODULE Overlay ------------------------------
(* One document, and the proposals that overlay it.

   A document is a tree of files: a root listing of its sections, and for every
   section either a body file or, when the section has children, a listing of its
   own whose first entry is a headless "body holder" with the section's own text
   (document-skeleton.ts).  A section is known by the name of its file, which a
   rename or a move keeps.

   A proposal holds a partial copy of that tree.  A body edit copies one file; the
   first structural edit writes every listing of the document as it is at that
   moment (ProposalShadowContentLayer).  Publishing checks that the manifest claims
   what the overlay holds (proposal-overlay-ownership.ts), merges the overlay's
   listings with those canonical has by then (mergeEffectiveSkeleton), deletes the
   canonical files the merged listings do not name, and copies the overlay over the
   rest (CanonicalStore.absorbChangedSections).

   The document is two levels deep.  Text stands for whoever wrote it last, a
   heading for the section that brought it or the proposal that gave it. *)
EXTENDS Naturals, FiniteSets, SequencesExt

CONSTANTS
    Proposals,   \* proposals that edit the document
    Blank,       \* the heading of a body holder, and the empty text
    Common,      \* a heading two writers may both choose
    MaxOps,      \* mutations of one proposal
    Env          \* the kinds of mutation, and the coincidences, considered

Kinds == {"write", "create", "nest", "nest_leaf", "delete", "delete_parent", "rename",
          "move", "reorder", "clash", "queued"}

ASSUME EnvAssumption == Env \subseteq Kinds

VARIABLES
    canon,     \* the canonical files of the document
    over,      \* the files in each proposal's content root
    deleted,   \* each proposal's deleted_section_files
    claims,    \* the heading paths each manifest claims
    status,    \* draft, committing or committed
    minted,    \* section files named so far
    ops,       \* mutations made so far by each proposal
    touched    \* ghost: the sections each proposal's mutations named

vars == <<canon, over, deleted, claims, status, minted, ops, touched>>

----------------------------------------------------------------------------
(* Files and trees. *)

Listing(entries) == [list |-> entries]
Text(t) == [text |-> t]
IsListing(f) == "list" \in DOMAIN f

Entry(id, heading) == [id |-> id, heading |-> heading]

\* parseSkeletonToEntries: a body, or no file, lists nothing.
Entries(t, path) ==
    IF path \in DOMAIN t /\ IsListing(t[path]) THEN t[path].list ELSE <<>>

\* readSkeletonRootTree
Nodes(t) ==
    LET root == Entries(t, <<>>) IN
    [i \in DOMAIN root |-> [id |-> root[i].id, heading |-> root[i].heading,
                            kids |-> Entries(t, <<root[i].id>>)]]

IdsOf(siblings) == {siblings[i].id : i \in DOMAIN siblings}
TreeIds(nodes) == IdsOf(nodes) \union UNION {IdsOf(nodes[i].kids) : i \in DOMAIN nodes}

\* Mutant: a body holder is a section like the others.
NoHolder(siblings) == FALSE

\* isBodyHolderShape
HasHolder(siblings) == \E i \in DOMAIN siblings : siblings[i].heading = Blank

\* The headed sections of a tree: <<i, 0>> the i-th root section, <<i, j>> its j-th entry.
Places(nodes) ==
    {<<i, 0>> : i \in DOMAIN nodes}
    \union UNION {{<<i, j>> : j \in {k \in DOMAIN nodes[i].kids : nodes[i].kids[k].heading # Blank}}
                    : i \in DOMAIN nodes}

SectionAt(nodes, l) == IF l[2] = 0 THEN nodes[l[1]] ELSE nodes[l[1]].kids[l[2]]
IsParent(nodes, l) == l[2] = 0 /\ nodes[l[1]].kids # <<>>
SiblingsOf(nodes, l) == IF l[2] = 0 THEN nodes ELSE nodes[l[1]].kids

HeadingPath(nodes, l) ==
    IF l[2] = 0 THEN <<nodes[l[1]].heading>>
                ELSE <<nodes[l[1]].heading, nodes[l[1]].kids[l[2]].heading>>

\* A leaf's text is in its own file, a parent's in its body holder.
BodyFile(nodes, l) ==
    LET n == nodes[l[1]] IN
    CASE l[2] # 0 -> <<n.id, n.kids[l[2]].id>>
      [] IsParent(nodes, l) ->
             <<n.id, n.kids[CHOOSE k \in DOMAIN n.kids : HasHolder(n.kids) => n.kids[k].heading = Blank].id>>
      [] OTHER -> <<n.id>>

PathsUnder(nodes, hp) ==
    {q \in {HeadingPath(nodes, l) : l \in Places(nodes)} : IsPrefix(hp, q)}

\* One file, and a tree laid over another.
File(path, f) == [q \in {path} |-> f]
Over(t, u) == [q \in DOMAIN t \union DOMAIN u |-> IF q \in DOMAIN t THEN t[q] ELSE u[q]]

Without(t, paths) == [q \in DOMAIN t \ paths |-> t[q]]
FilesUnder(t, path) == {q \in DOMAIN t : IsPrefix(path, q)}

----------------------------------------------------------------------------
(* The effective structure of a proposal: its listings merged with canonical's. *)

\* Mutant: an overlay that has listings takes nothing over from canonical.
OverlayAlone(canonical, overlay, carried, gone) == overlay

\* mergeSiblings: the overlay's order, with each canonical section the overlay does
\* not carry anywhere, and did not delete, behind its nearest canonical neighbour.
MergeSiblings(canonical, overlay, carried, gone) ==
    LET Splice(result, i) ==
            LET c == canonical[i]
                before == {j \in 1..(i - 1) : canonical[j].id \in IdsOf(result)}
                at == IF before = {} THEN 1
                      ELSE 1 + SelectInSeq(result, LAMBDA r : r.id = canonical[Max(before)].id)
            IN IF \/ c.id \in carried \union gone
                  \/ c.heading = Blank /\ HasHolder(result)
               THEN result ELSE InsertAt(result, at, c)
    IN FoldLeft(Splice, overlay, [i \in DOMAIN canonical |-> i])

\* mergeEffectiveSkeleton: a section both have where the overlay has it is merged
\* below too; one the overlay made, or moved, keeps the overlay's children.
MergedNodes(canonical, overlay, gone) ==
    LET carried == TreeIds(overlay)
        WithKids(o) ==
            IF o.id \notin IdsOf(canonical) THEN o
            ELSE LET c == canonical[SelectInSeq(canonical, LAMBDA r : r.id = o.id)]
                 IN [o EXCEPT !.kids = MergeSiblings(c.kids, o.kids, carried, gone)]
    IN MergeSiblings(canonical, [i \in DOMAIN overlay |-> WithKids(overlay[i])], carried, gone)

\* buildSkeletonTree
EffectiveOf(t, gone) ==
    CASE <<>> \notin DOMAIN t -> Nodes(canon)
      [] Nodes(canon) = <<>> -> Nodes(t)
      [] OTHER -> MergedNodes(Nodes(canon), Nodes(t), gone)

Effective(p) == EffectiveOf(over[p], deleted[p])

\* loadWritableSkeleton: mutations start from the overlay's own listings, once it has any.
Writable(p) == Nodes(IF <<>> \in DOMAIN over[p] THEN over[p] ELSE canon)

\* readEffectiveSectionBody ?? ""
Read(p, path) ==
    IF path \in DOMAIN over[p] THEN over[p][path]
    ELSE IF path \in DOMAIN canon THEN canon[path] ELSE Text(Blank)

\* writeTree: every listing, and an empty text for a body holder that has none,
\* here or in canonical.
Persist(nodes, t) ==
    LET parents == {i \in DOMAIN nodes : nodes[i].kids # <<>>}
        Heads(siblings) == [i \in DOMAIN siblings |-> Entry(siblings[i].id, siblings[i].heading)]
        listings == [q \in {<<>>} \union {<<nodes[i].id>> : i \in parents} |->
                       IF q = <<>> THEN Listing(Heads(nodes))
                       ELSE Listing(nodes[CHOOSE i \in parents : nodes[i].id = q[1]].kids)]
        holders == UNION {{<<nodes[i].id, nodes[i].kids[k].id>> :
                              k \in {j \in DOMAIN nodes[i].kids : nodes[i].kids[j].heading = Blank}}
                            : i \in parents}
    IN Over(listings, Over(t, [q \in holders \ DOMAIN canon |-> Text(Blank)]))

----------------------------------------------------------------------------
(* Mutations of a proposal (mutateProposalContent). *)

Mutable(p, kind) == kind \in Env /\ status[p] = "draft" /\ ops[p] < MaxOps

Mutated(p, files, named, claimed, gone, names) ==
    /\ over' = [over EXCEPT ![p] = files]
    /\ claims' = [claims EXCEPT ![p] = @ \union claimed]
    /\ deleted' = [deleted EXCEPT ![p] = @ \union gone]
    /\ minted' = minted + names
    /\ ops' = [ops EXCEPT ![p] = @ + 1]
    /\ touched' = [touched EXCEPT ![p] = @ \union named]
    /\ UNCHANGED <<canon, status>>

\* applyStructuralMutationTransaction and its caller: the listings, then the files of
\* what went away, then the bodies.
Restructured(p, nodes, removed, writes) ==
    Over(writes, Without(Persist(nodes, over[p]), removed))

\* assertNoDuplicateSiblingHeadingCollision
Free(siblings, heading) == \A i \in DOMAIN siblings : siblings[i].heading # heading

NewHeading(id) == IF "clash" \in Env THEN Common ELSE id

\* write_section: one body file, and no listing.
WriteSection(p) ==
    /\ Mutable(p, "write")
    /\ LET nodes == Writable(p) IN
       \E l \in Places(nodes) :
          LET file == BodyFile(nodes, l) IN
          /\ Read(p, file) # Text(p)
          /\ Mutated(p, Over(File(file, Text(p)), over[p]), {SectionAt(nodes, l).id},
                     {HeadingPath(nodes, l)}, {}, 0)

\* create_section at the root
CreateSection(p) ==
    /\ Mutable(p, "create")
    /\ LET nodes == Writable(p)
           id == minted + 1 IN
       /\ Free(nodes, NewHeading(id))
       /\ Mutated(p,
            Restructured(p, Append(nodes, [id |-> id, heading |-> NewHeading(id), kids |-> <<>>]),
                         {}, File(<<id>>, Text(p))),
            {id}, {<<NewHeading(id)>>}, {}, 1)

\* create_section under a section that has children already
CreateChild(p) ==
    /\ Mutable(p, "nest")
    /\ LET nodes == Writable(p)
           id == minted + 1 IN
       \E i \in DOMAIN nodes :
          LET n == nodes[i] IN
          /\ n.kids # <<>>
          /\ Free(n.kids, NewHeading(id))
          /\ Mutated(p,
               Restructured(p, [nodes EXCEPT ![i].kids = Append(@, Entry(id, NewHeading(id)))],
                            {}, File(<<n.id, id>>, Text(p))),
               {id}, {<<n.heading, NewHeading(id)>>}, {}, 1)

\* create_section under a leaf: its body moves into a body holder, its file becomes
\* a listing (materializeAncestorHeadings).
CreateUnderLeaf(p) ==
    /\ Mutable(p, "nest_leaf")
    /\ LET nodes == Writable(p)
           id == minted + 1
           holder == minted + 2 IN
       \E i \in DOMAIN nodes :
          LET n == nodes[i] IN
          /\ n.kids = <<>>
          /\ Mutated(p,
               Restructured(p,
                 [nodes EXCEPT ![i].kids = <<Entry(holder, Blank), Entry(id, NewHeading(id))>>], {},
                 Over(File(<<n.id, holder>>, Read(p, <<n.id>>)), File(<<n.id, id>>, Text(p)))),
               {n.id, id}, {<<n.heading>>, <<n.heading, NewHeading(id)>>}, {}, 2)

\* delete_section: the section, its descendants and their overlay files go, and their
\* file names are recorded.
DeleteSection(p) ==
    /\ Mutable(p, "delete")
    /\ LET nodes == Writable(p) IN
       \E l \in Places(nodes) :
          LET n == nodes[l[1]]
              hp == HeadingPath(nodes, l)
              file == IF l[2] = 0 THEN <<n.id>> ELSE <<n.id, n.kids[l[2]].id>>
              rest == IF l[2] = 0 THEN RemoveAt(nodes, l[1])
                      ELSE [nodes EXCEPT ![l[1]].kids = RemoveAt(@, l[2])] IN
          /\ IsParent(nodes, l) => "delete_parent" \in Env
          /\ Mutated(p, Restructured(p, rest, FilesUnder(Persist(rest, over[p]), file), <<>>),
                     {SectionAt(nodes, l).id}, PathsUnder(nodes, hp),
                     IF l[2] = 0 THEN {n.id} \union IdsOf(n.kids) ELSE {n.kids[l[2]].id}, 0)

\* rename_section: the file keeps its name; a leaf's body is copied into the overlay.
RenameSection(p) ==
    /\ Mutable(p, "rename")
    /\ LET nodes == Writable(p) IN
       \E l \in Places(nodes) :
          LET hp == HeadingPath(nodes, l)
              renamed == [hp EXCEPT ![Len(hp)] = p]
              file == BodyFile(nodes, l)
              after == IF l[2] = 0 THEN [nodes EXCEPT ![l[1]].heading = p]
                       ELSE [nodes EXCEPT ![l[1]].kids[l[2]].heading = p]
              files == IF IsParent(nodes, l) THEN Persist(after, over[p])
                       ELSE Restructured(p, after, {file}, File(file, Read(p, file))) IN
          /\ Free(SiblingsOf(nodes, l), p)
          /\ Mutated(p, files, {SectionAt(nodes, l).id},
                     PathsUnder(Effective(p), hp)
                       \union PathsUnder(EffectiveOf(files, deleted[p]), renamed),
                     {}, 0)

\* move_section of a leaf, under a root section or to the root; a destination that was
\* a leaf gets a body holder.
MoveSection(p) ==
    /\ Mutable(p, "move")
    /\ LET nodes == Writable(p) IN
       \E l \in Places(nodes) : \E d \in {0} \union DOMAIN nodes :
          LET s == SectionAt(nodes, l)
              file == BodyFile(nodes, l)
              lifted == IF l[2] = 0 THEN nodes
                        ELSE [nodes EXCEPT ![l[1]].kids = RemoveAt(@, l[2])]
              under == nodes[d]
              holder == minted + 1
              kids == IF under.kids = <<>> THEN <<Entry(holder, Blank), Entry(s.id, s.heading)>>
                      ELSE Append(under.kids, Entry(s.id, s.heading))
              placed == IF d = 0
                        THEN Append(lifted, [id |-> s.id, heading |-> s.heading, kids |-> <<>>])
                        ELSE [lifted EXCEPT ![d].kids = kids]
              after == IF l[2] = 0 THEN RemoveAt(placed, l[1]) ELSE placed
              body == IF d = 0 THEN File(<<s.id>>, Read(p, file))
                      ELSE File(<<under.id, s.id>>, Read(p, file))
              held == IF d # 0 /\ under.kids = <<>>
                      THEN File(<<under.id, holder>>, Read(p, <<under.id>>)) ELSE <<>> IN
          /\ ~IsParent(nodes, l)
          /\ IF l[2] = 0 THEN d \notin {0, l[1]} ELSE d # l[1]
          /\ Free(IF d = 0 THEN nodes ELSE under.kids, s.heading)
          /\ Mutated(p, Restructured(p, after, {file}, Over(body, held)), {s.id},
                     {HeadingPath(nodes, l),
                      IF d = 0 THEN <<s.heading>> ELSE <<under.heading, s.heading>>},
                     {}, IF d # 0 /\ under.kids = <<>> THEN 1 ELSE 0)

\* reorder_section among the root sections: listings only, and a claim on both.
ReorderSection(p) ==
    /\ Mutable(p, "reorder")
    /\ LET nodes == Writable(p) IN
       \E i, j \in DOMAIN nodes :
          LET rest == RemoveAt(nodes, i)
              at == SelectInSeq(rest, LAMBDA r : r.id = nodes[j].id) IN
          /\ i # j
          /\ Mutated(p, Persist(InsertAt(rest, at, nodes[i]), over[p]),
                     {nodes[i].id, nodes[j].id}, {<<nodes[i].heading>>, <<nodes[j].heading>>}, {}, 0)

----------------------------------------------------------------------------
(* Publishing. *)

\* proposalOwnedHeadingKeys: what the overlay holds against canonical as it is now.
Owned(p) ==
    LET eff == Effective(p)
        now == Nodes(canon)
        PathOf(id) == {HeadingPath(now, l) : l \in {k \in Places(now) : SectionAt(now, k).id = id}}
        Elsewhere(l) == HeadingPath(eff, l) \notin PathOf(SectionAt(eff, l).id)
        BodyNow(hp) == {canon[BodyFile(now, l)] :
                          l \in {k \in Places(now) : HeadingPath(now, k) = hp
                                                     /\ BodyFile(now, k) \in DOMAIN canon}}
        Rewritten(l) == /\ BodyFile(eff, l) \in DOMAIN over[p]
                        /\ over[p][BodyFile(eff, l)] \notin BodyNow(HeadingPath(eff, l))
    IN {HeadingPath(eff, l) : l \in {k \in Places(eff) : Elsewhere(k) \/ Rewritten(k)}}
       \union UNION {PathOf(id) : id \in deleted[p]}

\* checkProposalLocks by exact heading path, the move into committing/, then
\* unclaimedOwnedHeadings: a proposal that owns what it does not claim stays a draft.
BeginPublish(p) ==
    /\ status[p] = "draft"
    /\ claims[p] # {}
    /\ \A q \in Proposals : status[q] = "committing" =>
          "queued" \in Env /\ claims[q] \intersect claims[p] = {}
    /\ Owned(p) \subseteq claims[p]
    /\ status' = [status EXCEPT ![p] = "committing"]
    /\ UNCHANGED <<canon, over, deleted, claims, minted, ops, touched>>

\* Mutant: the listings are copied as they were when the proposal was staged.
StagedAsTheyWere(p) == over[p]

\* rewriteStagingSkeletonToMerge, when the proposal has listings at all
Staged(p) == IF <<>> \in DOMAIN over[p] THEN Persist(Effective(p), over[p]) ELSE over[p]

\* collectSkeletonDeclaredFiles, reading staging first and canonical second
Declared(t) ==
    LET root == Entries(t, <<>>)
        Kids(id) == Entries(IF <<id>> \in DOMAIN t THEN t ELSE canon, <<id>>)
    IN {<<root[i].id>> : i \in DOMAIN root}
       \union UNION {{<<root[i].id, e.id>> : e \in ToSet(Kids(root[i].id))} : i \in DOMAIN root}

\* Mutant: the merged listings are not checked against the files.
NothingMissing(p) == FALSE

\* collectSkeletonDeclaredFiles: the "Skeleton integrity error"
Missing(p) ==
    <<>> \in DOMAIN over[p] /\ ~(Declared(Staged(p)) \subseteq DOMAIN Staged(p) \union DOMAIN canon)

\* deletionPass: what the merged listings no longer name.
Orphans(p) ==
    IF <<>> \in DOMAIN over[p] THEN DOMAIN canon \ ({<<>>} \union Declared(Staged(p))) ELSE {}

\* deletionPass, copyPass and the commit, under the index mutex
Absorb(p) ==
    /\ status[p] = "committing"
    /\ ~Missing(p)
    /\ canon' = Over(Staged(p), Without(canon, Orphans(p)))
    /\ status' = [status EXCEPT ![p] = "committed"]
    /\ UNCHANGED <<over, deleted, claims, minted, ops, touched>>

\* A declared file that exists nowhere stops the absorb: canonical is rolled back and
\* the proposal is a draft again, its listings rewritten to the merge.
AbsorbFails(p) ==
    /\ status[p] = "committing"
    /\ Missing(p)
    /\ over' = [over EXCEPT ![p] = Staged(p)]
    /\ status' = [status EXCEPT ![p] = "draft"]
    /\ UNCHANGED <<canon, deleted, claims, minted, ops, touched>>

----------------------------------------------------------------------------

\* Section 1 is a leaf; section 2 has a body holder, 3, and a child, 4.
Original ==
    [q \in {<<>>, <<1>>, <<2>>, <<2, 3>>, <<2, 4>>} |->
       CASE q = <<>> -> Listing(<<Entry(1, 1), Entry(2, 2)>>)
         [] q = <<2>> -> Listing(<<Entry(3, Blank), Entry(4, 4)>>)
         [] OTHER -> Text(0)]

Init ==
    /\ canon = Original
    /\ over = [p \in Proposals |-> <<>>]
    /\ deleted = [p \in Proposals |-> {}]
    /\ claims = [p \in Proposals |-> {}]
    /\ status = [p \in Proposals |-> "draft"]
    /\ minted = 4
    /\ ops = [p \in Proposals |-> 0]
    /\ touched = [p \in Proposals |-> {}]

Next == \E p \in Proposals :
    \/ WriteSection(p)  \/ CreateSection(p) \/ CreateChild(p) \/ CreateUnderLeaf(p)
    \/ DeleteSection(p) \/ RenameSection(p) \/ MoveSection(p) \/ ReorderSection(p)
    \/ BeginPublish(p)  \/ Absorb(p)        \/ AbsorbFails(p)

Spec == Init /\ [][Next]_vars

----------------------------------------------------------------------------
(* Properties. *)

Headings == Nat \union {Blank, Common} \union Proposals
Bodies == {0, Blank} \union Proposals
FileOk(f) == IF IsListing(f) THEN \A i \in DOMAIN f.list : f.list[i].id \in 1..minted
                                                          /\ f.list[i].heading \in Headings
                             ELSE f.text \in Bodies
TreeOk(t) == \A q \in DOMAIN t : Len(q) <= 2 /\ Range(q) \subseteq 1..minted /\ FileOk(t[q])

\* Files are named by sections that were made, listings list such sections, and a
\* proposal is in a status the repository knows.
TypeOK ==
    /\ minted \in Nat
    /\ TreeOk(canon)
    /\ \A p \in Proposals :
          /\ TreeOk(over[p])
          /\ deleted[p] \subseteq 1..minted /\ touched[p] \subseteq 1..minted
          /\ \A hp \in claims[p] : Len(hp) \in {1, 2} /\ Range(hp) \subseteq Headings
          /\ status[p] \in {"draft", "committing", "committed"}
          /\ ops[p] \in 0..MaxOps

\* What a reader sees of a section: where it is, and its text.
Shown(nodes, t) ==
    {[id |-> SectionAt(nodes, l).id, at |-> HeadingPath(nodes, l), body |-> t[BodyFile(nodes, l)]]
        : l \in Places(nodes)}

\* Canonical can be assembled: each listed file is there (DocumentAssemblyError) ...
FilesThere ==
    LET nodes == Nodes(canon) IN
    \A i \in DOMAIN nodes :
       /\ <<nodes[i].id>> \in DOMAIN canon
       /\ \A k \in DOMAIN nodes[i].kids : <<nodes[i].id, nodes[i].kids[k].id>> \in DOMAIN canon

\* ... and a section with children has one body holder.
OneBodyHolder ==
    LET nodes == Nodes(canon) IN
    \A i \in DOMAIN nodes : nodes[i].kids # <<>> =>
       Cardinality({k \in DOMAIN nodes[i].kids : nodes[i].kids[k].heading = Blank}) = 1

Absorbed(p) == status[p] = "committing" /\ status'[p] = "committed"

\* After a publish the section is still there, under its heading and with its text.
Stands(s) ==
    \E n \in Shown(Nodes(canon'), canon') :
       n.id = s.id /\ Last(n.at) = Last(s.at) /\ n.body = s.body

\* A section is in the reach of a proposal whose mutations named it, or the section
\* above it, there or in the proposal's own structure.
Reach(p) ==
    LET Under(nodes) == UNION {IdsOf(nodes[i].kids) : i \in {k \in DOMAIN nodes : nodes[k].id \in touched[p]}}
    IN touched[p] \union Under(Nodes(canon)) \union Under(Effective(p))

\* A publish whose claims still cover what it holds when its turn comes leaves alone
\* every section out of the proposal's reach, also one that canonical gained, or
\* changed, after the proposal was staged.
OtherSectionsStand == [][
    \A p \in Proposals : Absorbed(p) /\ Owned(p) \subseteq claims[p] =>
       \A s \in Shown(Nodes(canon), canon) : s.id \notin Reach(p) => Stands(s)]_vars

\* "a section canonical gained after the proposal opened is preserved on commit": a
\* publish leaves alone every section the proposal's mutations did not name.
OnlyTouchedChange == [][
    \A p \in Proposals : Absorbed(p) =>
       \A s \in Shown(Nodes(canon), canon) : s.id \notin touched[p] => Stands(s)]_vars

\* No file is a body in the overlay and a listing in canonical, or the other way round.
SameKinds(p) ==
    \A q \in DOMAIN over[p] \intersect DOMAIN canon : IsListing(over[p][q]) <=> IsListing(canon[q])

\* What the proposal's reader was shown is what the publish makes of the document.
PublishesPreview == [][
    \A p \in Proposals : Absorbed(p) /\ SameKinds(p) =>
       /\ Nodes(canon') = Effective(p)
       /\ \A l \in Places(Effective(p)) :
             canon'[BodyFile(Effective(p), l)] = Read(p, BodyFile(Effective(p), l))]_vars

\* No section is listed twice.
ListedOnce ==
    LET nodes == Nodes(canon) IN
    Cardinality({SectionAt(nodes, l).id : l \in Places(nodes)}) = Cardinality(Places(nodes))

\* No file of canonical is outside its listings: a body that was absorbed is in the document.
PublishesLand ==
    LET nodes == Nodes(canon) IN
    \A q \in DOMAIN canon \ {<<>>} :
       \E i \in DOMAIN nodes : q = <<nodes[i].id>>
                               \/ \E k \in DOMAIN nodes[i].kids : q = <<nodes[i].id, nodes[i].kids[k].id>>

\* Siblings differ in heading, so that a heading path names one section.
DistinctSiblings ==
    LET nodes == Nodes(canon) IN
    \A l, m \in Places(nodes) : HeadingPath(nodes, l) = HeadingPath(nodes, m) => l = m
=============================================================================
