---------------------------- MODULE Overlay_proofs ----------------------------
(* What holds of the files of a document for every number of proposals and of
   mutations.  The merge itself folds over the siblings, so what it returns stays
   with TLC; what the code does with its result does not depend on it. *)
EXTENDS Overlay, TLAPS

(* A proposal that has no listings has bodies only.                          *)
BodiesOnly(t) == <<>> \notin DOMAIN t => \A q \in DOMAIN t : ~IsListing(t[q])
OverlaysOK == \A p \in Proposals : BodiesOnly(over[p])

LEMMA NodesAre ==
    ASSUME NEW t
    PROVE  /\ DOMAIN Nodes(t) = DOMAIN Entries(t, <<>>)
           /\ \A i \in DOMAIN Nodes(t) :
                 /\ Nodes(t)[i].id = Entries(t, <<>>)[i].id
                 /\ Nodes(t)[i].kids = Entries(t, <<Entries(t, <<>>)[i].id>>)
  BY DEF Nodes

LEMMA TextIs == \A t : ~IsListing(Text(t))
  BY DEF IsListing, Text

LEMMA OverIs ==
    ASSUME NEW f, NEW g
    PROVE  /\ DOMAIN Over(f, g) = DOMAIN f \union DOMAIN g
           /\ \A q \in DOMAIN f : Over(f, g)[q] = f[q]
           /\ \A q \in DOMAIN g \ DOMAIN f : Over(f, g)[q] = g[q]
  BY DEF Over

LEMMA WithoutIs ==
    ASSUME NEW t, NEW paths
    PROVE  /\ DOMAIN Without(t, paths) = DOMAIN t \ paths
           /\ \A q \in DOMAIN t \ paths : Without(t, paths)[q] = t[q]
  BY DEF Without

(* A body is in a file of its own, never in the file of the root.            *)
LEMMA BodyFileIs ==
    ASSUME NEW nodes, NEW l
    PROVE  BodyFile(nodes, l) # <<>>
  BY DEF BodyFile

LEMMA NotUnderRoot ==
    ASSUME NEW t, NEW x, NEW q \in {<<x>>} \union {<<x, y>> : y \in {}}
    PROVE  <<>> \notin FilesUnder(t, q)
  BY DEF FilesUnder, IsPrefix

(* The listings of a tree that is written out include the root's.            *)
LEMMA PersistIs ==
    ASSUME NEW nodes, NEW t
    PROVE  <<>> \in DOMAIN Persist(nodes, t)
  <1> DEFINE parents == {i \in DOMAIN nodes : nodes[i].kids # <<>>}
             Heads(siblings) == [i \in DOMAIN siblings |-> Entry(siblings[i].id, siblings[i].heading)]
             listings == [q \in {<<>>} \union {<<nodes[i].id>> : i \in parents} |->
                       IF q = <<>> THEN Listing(Heads(nodes))
                       ELSE Listing(nodes[CHOOSE i \in parents : nodes[i].id = q[1]].kids)]
             holders == UNION {{<<nodes[i].id, nodes[i].kids[k].id>> :
                              k \in {j \in DOMAIN nodes[i].kids : nodes[i].kids[j].heading = Blank}}
                            : i \in parents}
             rest == Over(t, [q \in holders \ DOMAIN canon |-> Text(Blank)])
  <1>1. Persist(nodes, t) = Over(listings, rest)
    BY DEF Persist
  <1>2. <<>> \in DOMAIN listings
    OBVIOUS
  <1> HIDE DEF listings, rest
  <1>3. DOMAIN Over(listings, rest) = DOMAIN listings \union DOMAIN rest
    BY OverIs
  <1>. QED
    BY <1>1, <1>2, <1>3

(* A mutation that restructures leaves the proposal with the root's listing. *)
LEMMA RestructuredIs ==
    ASSUME NEW p, NEW nodes, NEW removed, NEW writes, <<>> \notin removed
    PROVE  BodiesOnly(Restructured(p, nodes, removed, writes))
  <1> DEFINE t == Persist(nodes, over[p])
             u == Without(t, removed)
  <1>1. <<>> \in DOMAIN t
    BY PersistIs
  <1> HIDE DEF t
  <1>2. <<>> \in DOMAIN u
    BY <1>1, WithoutIs
  <1> HIDE DEF u
  <1>3. DOMAIN Over(writes, u) = DOMAIN writes \union DOMAIN u
    BY OverIs
  <1>4. Restructured(p, nodes, removed, writes) = Over(writes, u)
    BY DEF Restructured, u, t
  <1>. QED
    BY <1>2, <1>3, <1>4 DEF BodiesOnly

LEMMA PersistsBodies ==
    ASSUME NEW nodes, NEW t
    PROVE  BodiesOnly(Persist(nodes, t))
  BY PersistIs DEF BodiesOnly

LEMMA WriteIs ==
    ASSUME NEW t, BodiesOnly(t), NEW q, NEW x
    PROVE  BodiesOnly(Over(File(q, Text(x)), t))
  <1> DEFINE f == File(q, Text(x))
             u == Over(f, t)
  <1>1. DOMAIN f = {q} /\ f[q] = Text(x)
    BY DEF File
  <1> HIDE DEF f
  <1>2. /\ DOMAIN u = {q} \union DOMAIN t /\ u[q] = Text(x)
        /\ \A y \in DOMAIN t \ {q} : u[y] = t[y]
    <2>1. DOMAIN u = DOMAIN f \union DOMAIN t
      BY OverIs
    <2>2. \A y \in DOMAIN f : u[y] = f[y]
      BY OverIs
    <2>3. \A y \in DOMAIN t \ DOMAIN f : u[y] = t[y]
      BY OverIs
    <2> HIDE DEF u
    <2>. QED
      BY <1>1, <2>1, <2>2, <2>3
  <1> HIDE DEF u
  <1>3. ASSUME <<>> \notin DOMAIN u, NEW y \in DOMAIN u
        PROVE  ~IsListing(u[y])
    BY <1>2, <1>3, TextIs DEF BodiesOnly
  <1>4. BodiesOnly(u)
    BY <1>3 DEF BodiesOnly
  <1>. QED
    BY <1>4 DEF u, f

(***************************************************************************)
(* Steps: what becomes of the overlay of the proposal that makes it        *)
(***************************************************************************)
Shape == over = [p \in Proposals |-> over[p]]

LEMMA MutatedIs ==
    ASSUME Shape, OverlaysOK, NEW p \in Proposals, NEW files, NEW named, NEW claimed, NEW gone,
           NEW names, Mutated(p, files, named, claimed, gone, names), BodiesOnly(files)
    PROVE  (Shape /\ OverlaysOK)' /\ UNCHANGED canon
  BY DEF Mutated, Shape, OverlaysOK

LEMMA WriteSectionStep ==
    ASSUME Shape, OverlaysOK, NEW p \in Proposals, WriteSection(p)
    PROVE  (Shape /\ OverlaysOK)' /\ UNCHANGED canon
  <1>1. PICK l : \E named, claimed :
          Mutated(p, Over(File(BodyFile(Writable(p), l), Text(p)), over[p]), named, claimed, {}, 0)
    BY DEF WriteSection
  <1>2. BodiesOnly(Over(File(BodyFile(Writable(p), l), Text(p)), over[p]))
    BY WriteIs DEF OverlaysOK
  <1>. QED
    BY <1>1, <1>2, MutatedIs

(* Mutations that restructure.                                               *)
Restructures(p) ==
  \E files, named, claimed, gone, names :
     BodiesOnly(files) /\ Mutated(p, files, named, claimed, gone, names)

LEMMA CreateSectionStep ==
    ASSUME NEW p \in Proposals, CreateSection(p)
    PROVE  Restructures(p)
  <1>1. \E nodes, writes, named, claimed, names :
           Mutated(p, Restructured(p, nodes, {}, writes), named, claimed, {}, names)
    BY DEF CreateSection
  <1>. QED
    BY <1>1, RestructuredIs DEF Restructures

LEMMA CreateChildStep ==
    ASSUME NEW p \in Proposals, CreateChild(p)
    PROVE  Restructures(p)
  <1>1. \E nodes, writes, named, claimed, names :
           Mutated(p, Restructured(p, nodes, {}, writes), named, claimed, {}, names)
    BY DEF CreateChild
  <1>. QED
    BY <1>1, RestructuredIs DEF Restructures

LEMMA CreateUnderLeafStep ==
    ASSUME NEW p \in Proposals, CreateUnderLeaf(p)
    PROVE  Restructures(p)
  <1>1. \E nodes, writes, named, claimed, names :
           Mutated(p, Restructured(p, nodes, {}, writes), named, claimed, {}, names)
    BY DEF CreateUnderLeaf
  <1>. QED
    BY <1>1, RestructuredIs DEF Restructures

LEMMA DeleteSectionStep ==
    ASSUME NEW p \in Proposals, DeleteSection(p)
    PROVE  Restructures(p)
  <1>1. PICK l, t, file, nodes, writes, named, claimed, gone :
           /\ file = IF l[2] = 0 THEN <<Writable(p)[l[1]].id>>
                     ELSE <<Writable(p)[l[1]].id, Writable(p)[l[1]].kids[l[2]].id>>
           /\ Mutated(p, Restructured(p, nodes, FilesUnder(t, file), writes), named, claimed, gone, 0)
    BY DEF DeleteSection
  <1>2. <<>> \notin FilesUnder(t, file)
    <2>1. Len(file) > 0 /\ Len(<<>>) = 0
      BY <1>1
    <2>2. ~IsPrefix(file, <<>>)
      BY <2>1 DEF IsPrefix
    <2>. QED
      BY <2>2 DEF FilesUnder
  <1>. QED
    BY <1>1, <1>2, RestructuredIs DEF Restructures

LEMMA RenameSectionStep ==
    ASSUME NEW p \in Proposals, RenameSection(p)
    PROVE  Restructures(p)
  <1>1. PICK l, after, writes, named, claimed, files :
           /\ files = IF IsParent(Writable(p), l) THEN Persist(after, over[p])
                      ELSE Restructured(p, after, {BodyFile(Writable(p), l)}, writes)
           /\ Mutated(p, files, named, claimed, {}, 0)
    BY DEF RenameSection
  <1>2. BodiesOnly(files)
    BY <1>1, PersistsBodies, RestructuredIs, BodyFileIs
  <1>. QED
    BY <1>1, <1>2 DEF Restructures

LEMMA MoveSectionStep ==
    ASSUME NEW p \in Proposals, MoveSection(p)
    PROVE  Restructures(p)
  <1> DEFINE nodes == Writable(p)
             file(l) == BodyFile(nodes, l)
             sec(l) == SectionAt(nodes, l)
             lifted(l) == IF l[2] = 0 THEN nodes
                          ELSE [nodes EXCEPT ![l[1]].kids = RemoveAt(@, l[2])]
             under(d) == nodes[d]
             holder == minted + 1
             kids(l, d) == IF under(d).kids = <<>>
                           THEN <<Entry(holder, Blank), Entry(sec(l).id, sec(l).heading)>>
                           ELSE Append(under(d).kids, Entry(sec(l).id, sec(l).heading))
             placed(l, d) == IF d = 0
                        THEN Append(lifted(l), [id |-> sec(l).id, heading |-> sec(l).heading, kids |-> <<>>])
                        ELSE [lifted(l) EXCEPT ![d].kids = kids(l, d)]
             after(l, d) == IF l[2] = 0 THEN RemoveAt(placed(l, d), l[1]) ELSE placed(l, d)
             body(l, d) == IF d = 0 THEN File(<<sec(l).id>>, Read(p, file(l)))
                      ELSE File(<<under(d).id, sec(l).id>>, Read(p, file(l)))
             held(d) == IF d # 0 /\ under(d).kids = <<>>
                      THEN File(<<under(d).id, holder>>, Read(p, <<under(d).id>>)) ELSE <<>>
             files(l, d) == Restructured(p, after(l, d), {file(l)}, Over(body(l, d), held(d)))
             claimed(l, d) == {HeadingPath(nodes, l),
                               IF d = 0 THEN <<sec(l).heading>> ELSE <<under(d).heading, sec(l).heading>>}
             names(d) == IF d # 0 /\ under(d).kids = <<>> THEN 1 ELSE 0
  <1>1. PICK l, d : Mutated(p, files(l, d), {sec(l).id}, claimed(l, d), {}, names(d))
    BY Zenon DEF MoveSection
  <1>2. BodiesOnly(files(l, d))
    BY RestructuredIs, BodyFileIs
  <1> HIDE DEF files, claimed, names
  <1>. QED
    BY <1>1, <1>2 DEF Restructures

LEMMA ReorderSectionStep ==
    ASSUME NEW p \in Proposals, ReorderSection(p)
    PROVE  Restructures(p)
  <1>1. PICK nodes, named, claimed :
           Mutated(p, Persist(nodes, over[p]), named, claimed, {}, 0)
    BY DEF ReorderSection
  <1>. QED
    BY <1>1, PersistsBodies DEF Restructures

(***************************************************************************)
(* Publishing                                                              *)
(***************************************************************************)
\* FilesThere of a tree: what its listings name is in it.
Complete(t) ==
  LET root == Entries(t, <<>>)
  IN \A i \in DOMAIN root :
       /\ <<root[i].id>> \in DOMAIN t
       /\ LET kids == Entries(t, <<root[i].id>>)
          IN \A k \in DOMAIN kids : <<root[i].id, kids[k].id>> \in DOMAIN t

FilesIn(t) ==
  LET nodes == Nodes(t)
  IN \A i \in DOMAIN nodes :
       /\ <<nodes[i].id>> \in DOMAIN t
       /\ \A k \in DOMAIN nodes[i].kids : <<nodes[i].id, nodes[i].kids[k].id>> \in DOMAIN t

LEMMA CompleteIs ==
    ASSUME NEW t
    PROVE  FilesIn(t) <=> Complete(t)
  <1> DEFINE nodes == Nodes(t)
             root == Entries(t, <<>>)
  <1>1. /\ DOMAIN nodes = DOMAIN root
        /\ \A i \in DOMAIN root : /\ nodes[i].id = root[i].id
                                  /\ nodes[i].kids = Entries(t, <<root[i].id>>)
    BY NodesAre
  <1>2. FilesIn(t) <=> \A i \in DOMAIN nodes :
            /\ <<nodes[i].id>> \in DOMAIN t
            /\ \A k \in DOMAIN nodes[i].kids : <<nodes[i].id, nodes[i].kids[k].id>> \in DOMAIN t
    BY DEF FilesIn
  <1>3. Complete(t) <=> \A i \in DOMAIN root :
            /\ <<root[i].id>> \in DOMAIN t
            /\ \A k \in DOMAIN Entries(t, <<root[i].id>>) :
                  <<root[i].id, Entries(t, <<root[i].id>>)[k].id>> \in DOMAIN t
    BY DEF Complete
  <1> HIDE DEF nodes, root
  <1>. QED
    BY <1>1, <1>2, <1>3

(* Bodies alone leave the listings alone, or put a body in the place of one. *)
LEMMA BodiesLand ==
    ASSUME NEW t, Complete(t), NEW u, <<>> \notin DOMAIN u, \A q \in DOMAIN u : ~IsListing(u[q])
    PROVE  Complete(Over(u, Without(t, {})))
  <1> DEFINE v == Over(u, Without(t, {}))
  <1>1. /\ DOMAIN v = DOMAIN u \union DOMAIN t
        /\ \A q \in DOMAIN u : v[q] = u[q]
        /\ \A q \in DOMAIN t \ DOMAIN u : v[q] = t[q]
    <2> DEFINE w == Without(t, {})
    <2>1. DOMAIN w = DOMAIN t /\ \A q \in DOMAIN t : w[q] = t[q]
      BY DEF Without
    <2> HIDE DEF w
    <2>2. DOMAIN v = DOMAIN u \union DOMAIN w /\ \A q \in DOMAIN u : v[q] = u[q]
      BY OverIs DEF w
    <2>3. \A q \in DOMAIN w \ DOMAIN u : v[q] = w[q]
      BY OverIs DEF w
    <2> HIDE DEF v
    <2>. QED
      BY <2>1, <2>2, <2>3
  <1> HIDE DEF v
  <1>2. Entries(v, <<>>) = Entries(t, <<>>)
    BY <1>1 DEF Entries
  <1>3. ASSUME NEW q, q \in DOMAIN t
        PROVE  Entries(v, q) = <<>> \/ Entries(v, q) = Entries(t, q)
    BY <1>1, <1>3 DEF Entries
  <1>4. ASSUME NEW i \in DOMAIN Entries(t, <<>>)
        PROVE  /\ <<Entries(t, <<>>)[i].id>> \in DOMAIN v
               /\ \A k \in DOMAIN Entries(v, <<Entries(t, <<>>)[i].id>>) :
                     <<Entries(t, <<>>)[i].id, Entries(v, <<Entries(t, <<>>)[i].id>>)[k].id>> \in DOMAIN v
    <2> DEFINE x == Entries(t, <<>>)[i].id
    <2>1. <<x>> \in DOMAIN t
          /\ \A k \in DOMAIN Entries(t, <<x>>) : <<x, Entries(t, <<x>>)[k].id>> \in DOMAIN t
      BY DEF Complete
    <2> HIDE DEF x
    <2>2. \A k \in DOMAIN Entries(v, <<x>>) : <<x, Entries(v, <<x>>)[k].id>> \in DOMAIN v
      <3>1. CASE Entries(v, <<x>>) = <<>>
        BY <3>1
      <3>2. CASE Entries(v, <<x>>) = Entries(t, <<x>>)
        BY <1>1, <2>1, <3>2
      <3>. QED
        BY <1>3, <2>1, <3>1, <3>2
    <2>3. <<x>> \in DOMAIN v
      BY <1>1, <2>1
    <2>. QED
      BY <2>2, <2>3 DEF x
  <1>5. Complete(v)
    BY <1>2, <1>4 DEF Complete
  <1>. QED
    BY <1>5 DEF v

(* Listings land with every file they name: one of the overlay, or one that *)
(* canonical has and that the deletion pass leaves.                         *)
LEMMA ListingsLand ==
    ASSUME NEW t, <<>> \in DOMAIN t, Declared(t) \subseteq DOMAIN t \union DOMAIN canon
    PROVE  Complete(Over(t, Without(canon, DOMAIN canon \ ({<<>>} \union Declared(t)))))
  <1> DEFINE w == Without(canon, DOMAIN canon \ ({<<>>} \union Declared(t)))
             v == Over(t, w)
             root == Entries(t, <<>>)
             Kids(id) == Entries(IF <<id>> \in DOMAIN t THEN t ELSE canon, <<id>>)
  <1>1. /\ DOMAIN w = DOMAIN canon \intersect ({<<>>} \union Declared(t))
        /\ \A q \in DOMAIN w : w[q] = canon[q]
    BY DEF Without
  <1>2. \A i \in DOMAIN root :
          /\ <<root[i].id>> \in Declared(t)
          /\ \A k \in DOMAIN Kids(root[i].id) : <<root[i].id, Kids(root[i].id)[k].id>> \in Declared(t)
    <2>1. Declared(t) = {<<root[i].id>> : i \in DOMAIN root}
               \union UNION {{<<root[i].id, e.id>> : e \in ToSet(Kids(root[i].id))} : i \in DOMAIN root}
      BY DEF Declared
    <2>2. \A s : \A k \in DOMAIN s : s[k] \in ToSet(s)
      BY DEF ToSet
    <2> HIDE DEF Kids, root
    <2>. QED
      BY <2>1, <2>2
  <1> HIDE DEF w, Kids
  <1>3. /\ DOMAIN v = DOMAIN t \union DOMAIN w
        /\ \A q \in DOMAIN t : v[q] = t[q]
    BY OverIs
  <1>4. \A q \in DOMAIN w \ DOMAIN t : v[q] = w[q]
    BY OverIs
  <1> HIDE DEF v
  <1>5. Declared(t) \subseteq DOMAIN v
    BY <1>1, <1>3
  <1>6. Entries(v, <<>>) = root
    BY <1>3 DEF Entries
  <1>7. ASSUME NEW i \in DOMAIN root
        PROVE  Entries(v, <<root[i].id>>) = Kids(root[i].id)
    <2> DEFINE x == root[i].id
    <2>1. <<x>> \in Declared(t)
      BY <1>2
    <2> HIDE DEF x
    <2>2. CASE <<x>> \in DOMAIN t
      <3>1. Kids(x) = Entries(t, <<x>>)
        BY <2>2 DEF Kids
      <3>. QED
        BY <1>3, <2>2, <3>1 DEF Entries, x
    <2>3. CASE <<x>> \notin DOMAIN t
      <3>1. <<x>> \in DOMAIN w \ DOMAIN t /\ <<x>> \in DOMAIN canon
        BY <1>1, <2>1, <2>3
      <3>2. <<x>> \in DOMAIN v /\ v[<<x>>] = canon[<<x>>]
        BY <1>1, <1>3, <1>4, <3>1
      <3>. QED
        <4>1. Kids(x) = Entries(canon, <<x>>)
          BY <2>3 DEF Kids
        <4>. QED
          BY <3>1, <3>2, <4>1 DEF Entries, x
    <2>. QED
      BY <2>2, <2>3 DEF x
  <1>8. Complete(v)
    BY <1>2, <1>5, <1>6, <1>7 DEF Complete
  <1>. QED
    BY <1>8 DEF v, w

LEMMA AbsorbStep ==
    ASSUME OverlaysOK, FilesThere, NEW p \in Proposals, Absorb(p)
    PROVE  FilesThere' /\ UNCHANGED over
  <1>1. /\ UNCHANGED over /\ ~Missing(p)
        /\ canon' = Over(Staged(p), Without(canon, Orphans(p)))
    BY DEF Absorb
  <1>2. Complete(canon')
    <2>1. CASE <<>> \notin DOMAIN over[p]
      <3>1. Staged(p) = over[p] /\ Orphans(p) = {}
        BY <2>1 DEF Staged, Orphans
      <3>2. \A q \in DOMAIN over[p] : ~IsListing(over[p][q])
        BY <2>1 DEF OverlaysOK, BodiesOnly
      <3>3. Complete(canon)
        BY CompleteIs DEF FilesThere, FilesIn
      <3>. QED
        BY <1>1, <2>1, <3>1, <3>2, <3>3, BodiesLand
    <2>2. CASE <<>> \in DOMAIN over[p]
      <3>1. <<>> \in DOMAIN Staged(p)
        BY <2>2, PersistIs DEF Staged
      <3>2. Declared(Staged(p)) \subseteq DOMAIN Staged(p) \union DOMAIN canon
        BY <1>1, <2>2 DEF Missing
      <3>3. Orphans(p) = DOMAIN canon \ ({<<>>} \union Declared(Staged(p)))
        BY <2>2 DEF Orphans
      <3>. QED
        BY <1>1, <3>1, <3>2, <3>3, ListingsLand
    <2>. QED
      BY <2>1, <2>2
  <1>3. FilesThere' <=> Complete(canon')
    <2>1. FilesThere' <=> FilesIn(canon')
      BY DEF FilesThere, FilesIn
    <2>. QED
      BY <2>1, CompleteIs
  <1>. QED
    BY <1>1, <1>2, <1>3

LEMMA AbsorbFailsStep ==
    ASSUME Shape, OverlaysOK, NEW p \in Proposals, AbsorbFails(p)
    PROVE  (Shape /\ OverlaysOK)' /\ UNCHANGED canon
  <1>1. BodiesOnly(Staged(p))
    BY PersistsBodies DEF Staged, OverlaysOK
  <1>2. over' = [over EXCEPT ![p] = Staged(p)] /\ UNCHANGED canon
    BY DEF AbsorbFails
  <1>. QED
    BY <1>1, <1>2 DEF Shape, OverlaysOK

LEMMA InitFiles ==
    ASSUME Init
    PROVE  Shape /\ OverlaysOK /\ FilesThere
  <1>1. Shape /\ OverlaysOK
    BY DEF Init, Shape, OverlaysOK, BodiesOnly
  <1>2. Complete(Original)
    <2>1. /\ DOMAIN Original = {<<>>, <<1>>, <<2>>, <<2, 3>>, <<2, 4>>}
          /\ Original[<<>>] = Listing(<<Entry(1, 1), Entry(2, 2)>>)
          /\ Original[<<1>>] = Text(0)
          /\ Original[<<2>>] = Listing(<<Entry(3, Blank), Entry(4, 4)>>)
      BY DEF Original
    <2>2. /\ Entries(Original, <<>>) = <<Entry(1, 1), Entry(2, 2)>>
          /\ Entries(Original, <<1>>) = <<>>
          /\ Entries(Original, <<2>>) = <<Entry(3, Blank), Entry(4, 4)>>
      BY <2>1 DEF Entries, IsListing, Listing, Text
    <2>. QED
      BY <2>1, <2>2 DEF Complete, Entry
  <1>3. FilesThere
    BY <1>2, CompleteIs DEF Init, FilesThere, FilesIn
  <1>. QED
    BY <1>1, <1>3

LEMMA FilesStep ==
    ASSUME Shape, OverlaysOK, FilesThere, [Next]_vars
    PROVE  (Shape /\ OverlaysOK /\ FilesThere)'
  <1>1. ASSUME UNCHANGED canon
        PROVE  FilesThere'
    <2>1. /\ FilesThere <=> FilesIn(canon)
          /\ FilesThere' <=> FilesIn(canon')
      BY DEF FilesThere, FilesIn
    <2>. QED
      BY <1>1, <2>1
  <1>2. CASE UNCHANGED vars
    BY <1>1, <1>2 DEF vars, Shape, OverlaysOK, BodiesOnly
  <1>3. ASSUME NEW p \in Proposals, Restructures(p)
        PROVE  (Shape /\ OverlaysOK /\ FilesThere)'
    BY <1>1, <1>3, MutatedIs DEF Restructures
  <1>4. ASSUME NEW p \in Proposals, WriteSection(p) \/ AbsorbFails(p)
        PROVE  (Shape /\ OverlaysOK /\ FilesThere)'
    BY <1>1, <1>4, WriteSectionStep, AbsorbFailsStep
  <1>5. ASSUME NEW p \in Proposals, Absorb(p)
        PROVE  (Shape /\ OverlaysOK /\ FilesThere)'
    BY <1>5, AbsorbStep DEF Shape, OverlaysOK
  <1>6. ASSUME NEW p \in Proposals, BeginPublish(p)
        PROVE  (Shape /\ OverlaysOK /\ FilesThere)'
    BY <1>1, <1>6 DEF BeginPublish, Shape, OverlaysOK
  <1>. QED
    BY <1>2, <1>3, <1>4, <1>5, <1>6, CreateSectionStep, CreateChildStep, CreateUnderLeafStep,
       DeleteSectionStep, RenameSectionStep, MoveSectionStep, ReorderSectionStep DEF Next

(* A listing of canonical never names a file that is not there: whatever the *)
(* proposals made of the document meanwhile, and whatever the merge returns, *)
(* the absorb either has every file its listings name or changes nothing.    *)
THEOREM ListedFilesAreThere == Spec => []FilesThere
  <1>1. Init => Shape /\ OverlaysOK /\ FilesThere
    BY InitFiles
  <1>2. Shape /\ OverlaysOK /\ FilesThere /\ [Next]_vars => (Shape /\ OverlaysOK /\ FilesThere)'
    BY FilesStep
  <1>. QED
    BY <1>1, <1>2, PTL DEF Spec
=============================================================================
