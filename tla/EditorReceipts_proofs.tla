-------------------------- MODULE EditorReceipts_proofs --------------------------
(***************************************************************************)
(* Proofs about EditorTab, continued: what a page's counters may claim.    *)
(* An editor's page counts the edits it sends and the receipts it gets,    *)
(* and says all is received when the two agree; the theorem at the end is  *)
(* that this is then so, whatever sockets the page went through meanwhile. *)
(*                                                                         *)
(* Three invariants, each on the ones before: Channels (what a socket's    *)
(* channels may hold, and what a page and its open socket have agreed on), *)
(* Mail (every edit on its way is of its owner's replica, in order, and    *)
(* the server has what comes before it), Counted (the counters of page and *)
(* socket differ by what the server has not got).                          *)
(***************************************************************************)
EXTENDS EditorTab_proofs

-----------------------------------------------------------------------------
(* A channel by what it holds.                                             *)
NoEdits(q) == \A i \in DOMAIN q : q[i].t # "edit"
Unended(q) == \A i \in DOMAIN q : q[i].t \notin {"fin", "lost"}
EndsOK(q) == \A i, j \in DOMAIN q : q[i].t \in {"fin", "lost"} /\ i < j => q[j].t # "edit"
Before(m, m2) == m.gen < m2.gen \/ (m.gen = m2.gen /\ m.n < m2.n)
Sorted(q) == \A i, j \in DOMAIN q : i < j /\ q[i].t = "edit" /\ q[j].t = "edit" => Before(q[i], q[j])
AcksUpTo(q, n) == \A i \in DOMAIN q : q[i].t = "ack" => q[i].n <= n

(* What is left on a channel, and that nothing is missing.                 *)
Fewer(q, q2) == /\ \A j \in DOMAIN q2 : q2[j].t = "edit" => \E i \in DOMAIN q : q[i] = q2[j]
                /\ Sorted(q) => Sorted(q2)
Every(q, q2) == \A i \in DOMAIN q : q[i].t = "edit" => \E j \in DOMAIN q2 : q2[j] = q[i]

LEMMA SameMail ==
    ASSUME NEW q
    PROVE  Fewer(q, q) /\ Every(q, q)
  BY DEF Fewer, Every

LEMMA NoMail ==
    ASSUME NEW q, NEW q2, NoEdits(q2)
    PROVE  Fewer(q, q2) /\ (NoEdits(q) => Every(q, q2))
  BY DEF Fewer, Every, NoEdits, Sorted

LEMMA TailMail ==
    ASSUME NEW q \in Seq(UpFrames), q # <<>>
    PROVE  /\ Fewer(q, Tail(q)) /\ (q[1].t # "edit" => Every(q, Tail(q)))
           /\ NoEdits(q) => NoEdits(Tail(q))
           /\ Unended(q) => Unended(Tail(q))
           /\ EndsOK(q) => EndsOK(Tail(q))
           /\ EndsOK(q) /\ q[1].t \in {"fin", "lost"} => NoEdits(q)
           /\ \A i \in DOMAIN Tail(q) : /\ i \in Nat /\ i + 1 \in DOMAIN q /\ i + 1 # 1
                                        /\ Tail(q)[i] = q[i + 1]
           /\ \A i \in DOMAIN q : i # 1 => i - 1 \in DOMAIN Tail(q) /\ Tail(q)[i - 1] = q[i]
           /\ 1 \in DOMAIN q /\ \A i \in DOMAIN q : i # 1 => 1 < i
  <1>1. /\ \A i \in DOMAIN Tail(q) : /\ i \in Nat /\ i + 1 \in DOMAIN q /\ i + 1 # 1
                                     /\ Tail(q)[i] = q[i + 1]
        /\ \A i \in DOMAIN q : i # 1 => i - 1 \in DOMAIN Tail(q) /\ Tail(q)[i - 1] = q[i]
        /\ 1 \in DOMAIN q /\ \A i \in DOMAIN q : i # 1 => 1 < i
    BY TailIs
  <1>2. Sorted(q) => Sorted(Tail(q))
    <2> SUFFICES ASSUME Sorted(q), NEW i \in DOMAIN Tail(q), NEW j \in DOMAIN Tail(q), i < j,
                        Tail(q)[i].t = "edit", Tail(q)[j].t = "edit"
                 PROVE  Before(Tail(q)[i], Tail(q)[j])
      BY DEF Sorted
    <2>1. /\ i + 1 \in DOMAIN q /\ j + 1 \in DOMAIN q /\ i + 1 < j + 1
          /\ Tail(q)[i] = q[i + 1] /\ Tail(q)[j] = q[j + 1]
      BY <1>1
    <2>. QED
      BY <2>1 DEF Sorted
  <1>3. Fewer(q, Tail(q))
    BY <1>1, <1>2 DEF Fewer
  <1>4. q[1].t # "edit" => Every(q, Tail(q))
    BY <1>1 DEF Every
  <1>5. (NoEdits(q) => NoEdits(Tail(q))) /\ (Unended(q) => Unended(Tail(q)))
    BY <1>1 DEF NoEdits, Unended
  <1>6. EndsOK(q) => EndsOK(Tail(q))
    <2> SUFFICES ASSUME EndsOK(q), NEW i \in DOMAIN Tail(q), NEW j \in DOMAIN Tail(q), i < j,
                        Tail(q)[i].t \in {"fin", "lost"}
                 PROVE  Tail(q)[j].t # "edit"
      BY DEF EndsOK
    <2>1. /\ i + 1 \in DOMAIN q /\ j + 1 \in DOMAIN q /\ i + 1 < j + 1
          /\ Tail(q)[i] = q[i + 1] /\ Tail(q)[j] = q[j + 1]
      BY <1>1
    <2>. QED
      BY <2>1 DEF EndsOK
  <1>7. EndsOK(q) /\ q[1].t \in {"fin", "lost"} => NoEdits(q)
    BY <1>1 DEF EndsOK, NoEdits
  <1>. QED
    BY <1>1, <1>3, <1>4, <1>5, <1>6, <1>7

LEMMA AppendMail ==
    ASSUME NEW q \in Seq(UpFrames), NEW m \in UpFrames
    PROVE  /\ Every(q, Append(q, m))
           /\ m.t # "edit" => Fewer(q, Append(q, m)) /\ (NoEdits(q) => NoEdits(Append(q, m)))
           /\ m.t # "edit" \/ Unended(q) => (EndsOK(q) => EndsOK(Append(q, m)))
           /\ m.t \notin {"fin", "lost"} /\ Unended(q) => Unended(Append(q, m))
           /\ \A i \in DOMAIN Append(q, m) :
                 \/ i \in DOMAIN q /\ Append(q, m)[i] = q[i]
                 \/ i = Len(q) + 1 /\ Append(q, m)[i] = m
           /\ \A i \in DOMAIN q : i \in DOMAIN Append(q, m) /\ Append(q, m)[i] = q[i]
           /\ \A i \in DOMAIN q : i \in Nat /\ i < Len(q) + 1
           /\ Len(q) + 1 \in DOMAIN Append(q, m) /\ Append(q, m)[Len(q) + 1] = m
  <1> DEFINE p == Append(q, m)
             z == Len(q) + 1
  <1>1. /\ \A i \in DOMAIN p : (i \in DOMAIN q /\ p[i] = q[i]) \/ (i = z /\ p[i] = m)
        /\ \A i \in DOMAIN q : i \in DOMAIN p /\ p[i] = q[i]
        /\ \A i \in DOMAIN q : i \in Nat /\ i < z
        /\ z \in DOMAIN p /\ p[z] = m /\ z \in Nat
    BY AppendIs
  <1> HIDE DEF p, z
  <1>2. Every(q, p)
    BY <1>1 DEF Every
  <1>3. ASSUME m.t # "edit" PROVE Fewer(q, p) /\ (NoEdits(q) => NoEdits(p))
    <2>1. Sorted(q) => Sorted(p)
      BY <1>1, <1>3 DEF Sorted
    <2>. QED
      BY <1>1, <1>3, <2>1 DEF Fewer, NoEdits
  <1>4. ASSUME m.t # "edit" \/ Unended(q), EndsOK(q) PROVE EndsOK(p)
    <2> SUFFICES ASSUME NEW i \in DOMAIN p, NEW j \in DOMAIN p, i < j,
                        p[i].t \in {"fin", "lost"}
                 PROVE  p[j].t # "edit"
      BY DEF EndsOK
    <2>1. CASE j \in DOMAIN q /\ p[j] = q[j]
      <3>1. i \in DOMAIN q /\ p[i] = q[i]
        BY <1>1, <2>1
      <3>. QED
        BY <1>4, <2>1, <3>1 DEF EndsOK
    <2>2. CASE j = z /\ p[j] = m
      <3>1. i \in DOMAIN q /\ p[i] = q[i]
        BY <1>1, <2>2
      <3>. QED
        BY <1>4, <2>2, <3>1 DEF Unended
    <2>. QED
      BY <1>1, <2>1, <2>2
  <1>5. m.t \notin {"fin", "lost"} /\ Unended(q) => Unended(p)
    BY <1>1 DEF Unended
  <1>. QED
    BY <1>1, <1>2, <1>3, <1>4, <1>5 DEF p, z

(* Receipts on their way back.                                             *)
LEMMA AcksAre ==
    ASSUME NEW q \in Seq(DownFrames), NEW n \in Nat, AcksUpTo(q, n)
    PROVE  /\ \A m \in DownFrames : (m.t = "ack" => m.n <= n) => AcksUpTo(Append(q, m), n)
           /\ q # <<>> => AcksUpTo(Tail(q), n)
           /\ AcksUpTo(q, n + 1)
  <1>1. ASSUME NEW m \in DownFrames, m.t = "ack" => m.n <= n
        PROVE  AcksUpTo(Append(q, m), n)
    <2>1. \A i \in DOMAIN Append(q, m) : \/ i \in DOMAIN q /\ Append(q, m)[i] = q[i]
                                         \/ Append(q, m)[i] = m
      BY AppendIs
    <2>. QED
      BY <1>1, <2>1 DEF AcksUpTo
  <1>2. q # <<>> => AcksUpTo(Tail(q), n)
    <2> SUFFICES ASSUME q # <<>> PROVE AcksUpTo(Tail(q), n)
      OBVIOUS
    <2>1. \A i \in DOMAIN Tail(q) : i + 1 \in DOMAIN q /\ Tail(q)[i] = q[i + 1]
      BY TailIs
    <2>. QED
      BY <2>1 DEF AcksUpTo
  <1>3. AcksUpTo(q, n + 1)
    <2>1. \A i \in DOMAIN q : q[i].t = "ack" => q[i].n \in Nat
      BY DownFramesAre
    <2>. QED
      BY <2>1 DEF AcksUpTo
  <1>. QED
    BY <1>1, <1>2, <1>3
(* A socket by itself: while the page has it open the server has it too    *)
(* and it has not ended; edits come before the end, and from an editor     *)
(* only; no receipt is ahead of what has been received.                    *)
ChannelOK(r) ==
  /\ r.client = "open" => r.server \in {"open", "closing"} /\ Unended(r.up)
  /\ r.server \notin {"open", "closing"} \/ r.role # "editor" => NoEdits(r.up)
  /\ EndsOK(r.up) /\ AcksUpTo(r.down, r.received)

(* A page and the socket it has open.  The role the page asks for is the   *)
(* one it gets, and before its bootstrap it sends nothing.                 *)
Begun(k, r) ==
  /\ r.joined /\ k.prov.role = "editor" => r.role = "editor"
  /\ r.attached /\ ~r.joined => k.prov.role # "editor"
  /\ \A i \in DOMAIN r.up : r.up[i].t = "req" =>
       i = 1 /\ r.up[i].role = k.prov.role /\ ~r.attached
  /\ \A i \in DOMAIN r.up : r.up[i].t = "edit" => r.up[i].gen = k.gen
  /\ ~k.prov.booted => NoEdits(r.up) /\ k.prov.sent = 0 /\ r.received = 0
  /\ k.prov.acked <= r.received
Paired(k, r) ==
  /\ r.client = "broken" => k.broke
  /\ r.client = "opening" /\ k.prov.role = "editor" /\ ~k.broke => k.pipe # "live"
  /\ r.client = "open" => Begun(k, r)

(* What the steps of others leave of them.                                 *)
Passes(r, r2) ==
  /\ ChannelOK(r2) /\ \A k \in PageRec : Paired(k, r) => Paired(k, r2)
  /\ r2.owner = r.owner \/ NoEdits(r2.up)
  /\ Fewer(r.up, r2.up)
  /\ r2.client = "open" =>
       r.client = "open" /\ r2.owner = r.owner /\ r2.received = r.received
Delivers(r, r2) == Passes(r, r2) /\ Every(r.up, r2.up)

LEMMA PassesOn ==
    ASSUME NEW r, NEW r1, NEW r2, Passes(r, r1), Passes(r1, r2)
    PROVE  /\ Passes(r, r2)
           /\ Every(r.up, r1.up) /\ Every(r1.up, r2.up) => Every(r.up, r2.up)
  <1>1. Fewer(r.up, r2.up)
    BY DEF Passes, Fewer
  <1>2. r2.owner = r.owner \/ NoEdits(r2.up)
    <2>1. NoEdits(r1.up) => NoEdits(r2.up)
      BY DEF Passes, Fewer, NoEdits
    <2>. QED
      BY <2>1 DEF Passes
  <1>3. Every(r.up, r1.up) /\ Every(r1.up, r2.up) => Every(r.up, r2.up)
    BY DEF Every
  <1>4. /\ ChannelOK(r2) /\ \A k \in PageRec : Paired(k, r) => Paired(k, r2)
        /\ r2.client = "open" =>
             r.client = "open" /\ r2.owner = r.owner /\ r2.received = r.received
    BY DEF Passes
  <1>. QED
    BY <1>1, <1>2, <1>3, <1>4 DEF Passes

LEMMA SameDelivers ==
    ASSUME NEW r, ChannelOK(r)
    PROVE  Delivers(r, r)
  BY SameMail DEF Delivers, Passes

(* Nothing of it differs but what has come for the page.                   *)
LEMMA LikeDelivers ==
    ASSUME NEW r \in SockRec, NEW r2 \in SockRec, ChannelOK(r),
           r2.owner = r.owner, r2.client = r.client, r2.role = r.role, r2.attached = r.attached,
           r2.joined = r.joined, r2.received = r.received, r2.up = r.up,
           r2.server = r.server \/ (r.server = "open" /\ r2.server = "closing"),
           AcksUpTo(r2.down, r2.received)
    PROVE  Delivers(r, r2)
  <1>1. ChannelOK(r2)
    BY DEF ChannelOK
  <1>2. \A k \in PageRec : Paired(k, r) => Paired(k, r2)
    BY DEF Paired, Begun
  <1>. QED
    BY <1>1, <1>2, SameMail DEF Delivers, Passes

LEMMA SentDelivers ==
    ASSUME NEW r \in SockRec, ChannelOK(r)
    PROVE  /\ \A m \in DownFrames : m.t # "ack" => Delivers(r, Sent(r, m))
           /\ \A code \in Codes : Delivers(r, Shut(r, code))
           /\ r.down # <<>> => Delivers(r, Got(r))
  <1>1. AcksUpTo(r.down, r.received) /\ r.received \in Nat /\ r.down \in Seq(DownFrames)
    BY SockRecIs DEF ChannelOK
  <1>2. ASSUME NEW m \in DownFrames, m.t # "ack" PROVE Delivers(r, Sent(r, m))
    <2>1. /\ Sent(r, m) \in SockRec /\ Alike(r, Sent(r, m))
          /\ Sent(r, m).client = r.client /\ Sent(r, m).up = r.up
          /\ Sent(r, m).down = r.down \/ Sent(r, m).down = Append(r.down, m)
      BY SentIs
    <2>2. AcksUpTo(Sent(r, m).down, r.received)
      BY <1>1, <1>2, <2>1, AcksAre
    <2>. QED
      BY <2>1, <2>2, LikeDelivers DEF Alike
  <1>3. ASSUME NEW code \in Codes PROVE Delivers(r, Shut(r, code))
    <2> DEFINE m == [t |-> "close", code |-> code]
    <2>1. m \in DownFrames /\ m.t # "ack"
      BY DownFramesAre
    <2> HIDE DEF m
    <2>2. CASE r.server # "open"
      BY <2>2, ShutIs, SameDelivers
    <2>3. CASE r.server = "open"
      <3>1. /\ Shut(r, code) \in SockRec
            /\ Shut(r, code).owner = r.owner /\ Shut(r, code).client = r.client
            /\ Shut(r, code).role = r.role /\ Shut(r, code).attached = r.attached
            /\ Shut(r, code).joined = r.joined
            /\ Shut(r, code).received = r.received /\ Shut(r, code).up = r.up
            /\ Shut(r, code).server = "closing" /\ Shut(r, code).down = Append(r.down, m)
        BY <2>3, ShutIs DEF m
      <3>2. AcksUpTo(Shut(r, code).down, r.received)
        BY <1>1, <2>1, <3>1, AcksAre
      <3>. QED
        BY <2>3, <3>1, <3>2, LikeDelivers
    <2>. QED
      BY <2>2, <2>3
  <1>4. ASSUME r.down # <<>> PROVE Delivers(r, Got(r))
    <2>1. /\ Got(r) \in SockRec /\ Alike(r, Got(r)) /\ Got(r).client = r.client
          /\ Got(r).down = Tail(r.down) /\ Got(r).up = r.up
      BY <1>4, GotIs
    <2>2. AcksUpTo(Got(r).down, r.received)
      BY <1>1, <1>4, <2>1, AcksAre
    <2>. QED
      BY <2>1, <2>2, LikeDelivers DEF Alike
  <1>. QED
    BY <1>2, <1>3, <1>4

LEMMA BootDelivers ==
    ASSUME Typed, NEW r \in SockRec, ChannelOK(r)
    PROVE  Delivers(r, Unbooted(r)) /\ (r.server = "open" => Delivers(r, Booting(r)))
  <1>1. AcksUpTo(r.down, r.received) /\ r.received \in Nat /\ r.down \in Seq(DownFrames)
    BY SockRecIs DEF ChannelOK
  <1>2. BootOf \in DownFrames /\ BootOf.t # "ack"
    BY BootingIs DEF BootOf
  <1>3. Delivers(r, Unbooted(r))
    BY <1>1, BootingIs, LikeDelivers
  <1>4. ASSUME r.server = "open" PROVE Delivers(r, Booting(r))
    <2>1. Booting(r).down = Append(r.down, BootOf) /\ Booting(r).received = r.received
      BY <1>4, BootingIs
    <2>2. AcksUpTo(Booting(r).down, Booting(r).received)
      BY <1>1, <1>2, <2>1, AcksAre
    <2>. QED
      BY <2>2, BootingIs, LikeDelivers
  <1>. QED
    BY <1>3, <1>4

(* The server takes a frame.                                               *)
LEMMA HeardPasses ==
    ASSUME NEW r \in SockRec, ChannelOK(r), r.up # <<>>
    PROVE  /\ Passes(r, Heard(r))
           /\ r.up[1].t # "edit" => Delivers(r, Heard(r))
  <1>1. /\ Heard(r) \in SockRec /\ Alike(r, Heard(r)) /\ Heard(r).client = r.client
        /\ Heard(r).up = Tail(r.up) /\ Heard(r).down = r.down /\ r.up \in Seq(UpFrames)
    BY HeardIs, SockRecIs
  <1>2. /\ Fewer(r.up, Tail(r.up)) /\ (r.up[1].t # "edit" => Every(r.up, Tail(r.up)))
        /\ NoEdits(r.up) => NoEdits(Tail(r.up))
        /\ Unended(r.up) => Unended(Tail(r.up))
        /\ EndsOK(r.up) => EndsOK(Tail(r.up))
        /\ \A i \in DOMAIN Tail(r.up) : i + 1 \in DOMAIN r.up /\ i + 1 # 1
                                        /\ Tail(r.up)[i] = r.up[i + 1]
    BY <1>1, TailMail
  <1>3. ChannelOK(Heard(r))
    BY <1>1, <1>2 DEF ChannelOK, Alike
  <1>4. ASSUME NEW k \in PageRec, Paired(k, r) PROVE Paired(k, Heard(r))
    BY <1>1, <1>2, <1>4 DEF Paired, Begun, Alike
  <1>. QED
    BY <1>1, <1>2, <1>3, <1>4 DEF Passes, Delivers, Alike
(* The request is granted: the role is the one asked for.                  *)
LEMMA AskedDelivers ==
    ASSUME NEW r \in SockRec, ChannelOK(r), r.up # <<>>, r.up[1].t = "req", NEW s \in Nat
    PROVE  /\ r.up[1].role = "observer" =>
                Delivers(r, Join(Heard(r), s)) /\ Delivers(r, Attach(Heard(r)))
           /\ r.up[1].role = "editor" /\ ~r.attached /\ r.server \in {"open", "closing"} =>
                Delivers(r, JoinEditor(Heard(r), s))
  <1> DEFINE h == Heard(r)
  <1>1. /\ h \in SockRec /\ Alike(r, h) /\ h.client = r.client
        /\ h.up = Tail(r.up) /\ h.down = r.down /\ r.up \in Seq(UpFrames)
    BY HeardIs, SockRecIs
  <1>2. Delivers(r, h)
    BY HeardPasses
  <1>3. /\ \A i \in DOMAIN h.up : h.up[i].t = "req" => ~(\E k \in PageRec : Paired(k, r) /\ r.client = "open")
        /\ 1 \in DOMAIN r.up
    <2>1. /\ 1 \in DOMAIN r.up
          /\ \A i \in DOMAIN h.up : i + 1 \in DOMAIN r.up /\ i + 1 # 1 /\ h.up[i] = r.up[i + 1]
      BY <1>1, TailMail
    <2>. QED
      BY <2>1 DEF Paired, Begun
  <1>4. ASSUME NEW r2 \in SockRec, r2.owner = h.owner, r2.client = h.client, r2.up = h.up,
               r2.down = h.down, r2.server = h.server, r2.received = h.received,
               h.role = "editor" => r2.role = "editor",
               NEW role \in {"observer", "editor"}, r.up[1].role = role,
               role = "editor" => r2.role = "editor" /\ r2.joined
        PROVE  Delivers(r, r2)
    <2>1. ChannelOK(r2)
      BY <1>2, <1>4 DEF ChannelOK, Delivers, Passes
    <2>2. ASSUME NEW k \in PageRec, Paired(k, r) PROVE Paired(k, r2)
      <3>1. Paired(k, h)
        BY <1>2, <2>2 DEF Delivers, Passes
      <3>2. CASE r.client = "open"
        <4>1. k.prov.role = role
          BY <1>3, <1>4, <2>2, <3>2 DEF Paired, Begun
        <4>2. \A i \in DOMAIN r2.up : r2.up[i].t # "req"
          BY <1>3, <1>4, <2>2, <3>2
        <4>3. Begun(k, h)
          BY <1>1, <3>1, <3>2 DEF Paired
        <4>4. /\ \A i \in DOMAIN r2.up : r2.up[i].t = "edit" => r2.up[i].gen = k.gen
              /\ ~k.prov.booted => NoEdits(r2.up) /\ k.prov.sent = 0 /\ r2.received = 0
              /\ k.prov.acked <= r2.received
          BY <1>4, <4>3 DEF Begun
        <4>5. k.prov.role = "editor" => r2.role = "editor" /\ (r2.attached /\ ~r2.joined => FALSE)
          BY <1>4, <4>1
        <4>6. Begun(k, r2)
          BY <4>2, <4>4, <4>5 DEF Begun
        <4>. QED
          BY <1>1, <1>4, <3>2, <4>6 DEF Paired
      <3>3. CASE r.client # "open"
        BY <1>1, <1>4, <3>1, <3>3 DEF Paired
      <3>. QED
        BY <3>2, <3>3
    <2>3. Every(r.up, r2.up) /\ Fewer(r.up, r2.up)
      BY <1>2, <1>4 DEF Delivers, Passes
    <2>. QED
      BY <1>1, <1>4, <2>1, <2>2, <2>3 DEF Delivers, Passes, Alike
  <1> HIDE DEF h
  <1>5. ASSUME r.up[1].role = "observer" PROVE Delivers(r, Join(h, s)) /\ Delivers(r, Attach(h))
    <2>1. /\ Join(h, s) \in SockRec
          /\ Join(h, s).owner = h.owner /\ Join(h, s).client = h.client
          /\ Join(h, s).server = h.server /\ Join(h, s).role = h.role
          /\ Join(h, s).received = h.received
          /\ Join(h, s).up = h.up /\ Join(h, s).down = h.down
      BY <1>1, JoinIs
    <2>2. /\ Attach(h) \in SockRec
          /\ Attach(h).owner = h.owner /\ Attach(h).client = h.client
          /\ Attach(h).server = h.server /\ Attach(h).role = h.role
          /\ Attach(h).received = h.received
          /\ Attach(h).up = h.up /\ Attach(h).down = h.down
      BY <1>1, AttachIs
    <2>3. Delivers(r, Join(h, s))
      BY <1>4, <1>5, <2>1
    <2>4. Delivers(r, Attach(h))
      BY <1>4, <1>5, <2>2
    <2>. QED
      BY <2>3, <2>4
  <1>6. ASSUME r.up[1].role = "editor", ~r.attached, r.server \in {"open", "closing"}
        PROVE  Delivers(r, JoinEditor(h, s))
    <2>1. /\ JoinEditor(h, s) \in SockRec
          /\ JoinEditor(h, s).owner = h.owner /\ JoinEditor(h, s).client = h.client
          /\ JoinEditor(h, s).server = h.server /\ JoinEditor(h, s).role = "editor"
          /\ JoinEditor(h, s).joined /\ JoinEditor(h, s).received = h.received
          /\ JoinEditor(h, s).up = h.up /\ JoinEditor(h, s).down = h.down
      BY <1>1, JoinEditorIs
    <2>. QED
      BY <1>4, <1>6, <2>1
  <1>. QED
    BY <1>5, <1>6 DEF h

(* A waiting observer joins with the first editor.                         *)
LEMMA WaitingDelivers ==
    ASSUME NEW r \in SockRec, ChannelOK(r), r.role = "observer", r.attached, ~r.joined, NEW s \in Nat
    PROVE  Delivers(r, Join(r, s))
  <1> DEFINE r2 == Join(r, s)
  <1>1. /\ r2 \in SockRec /\ r2.owner = r.owner /\ r2.client = r.client
        /\ r2.server = r.server /\ r2.role = r.role /\ r2.attached /\ r2.joined
        /\ r2.received = r.received /\ r2.up = r.up /\ r2.down = r.down
    BY JoinIs
  <1> HIDE DEF r2
  <1>2. ChannelOK(r2)
    BY <1>1 DEF ChannelOK
  <1>3. ASSUME NEW k \in PageRec, Paired(k, r) PROVE Paired(k, r2)
    BY <1>1, <1>3 DEF Paired, Begun
  <1>4. Delivers(r, r2)
    BY <1>1, <1>2, <1>3, SameMail DEF Delivers, Passes
  <1>. QED
    BY <1>4 DEF r2

(* The server is done with a socket that has ended.                        *)
LEMMA OffDelivers ==
    ASSUME NEW r \in SockRec, ChannelOK(r), NoEdits(r.up), r.client # "open",
           NEW state \in {"leaving", "gone"}
    PROVE  Delivers(r, Off(r, state))
  <1> DEFINE r2 == Off(r, state)
  <1>1. \/ r2 = Unused
        \/ /\ r2.owner = r.owner /\ r2.client = r.client /\ r2.server = state
           /\ r2.role = r.role /\ r2.received = r.received
           /\ r2.up = <<>> /\ r2.down = r.down
    BY OffIs
  <1>2. /\ Unused.client = "free" /\ Unused.received = 0 /\ Unused.up = <<>> /\ Unused.down = <<>>
    BY UnusedIs
  <1>3. NoEdits(<<>>) /\ EndsOK(<<>>) /\ AcksUpTo(<<>>, 0)
    BY EmptyIs DEF NoEdits, EndsOK, AcksUpTo
  <1> HIDE DEF r2
  <1>4. ChannelOK(r2) /\ NoEdits(r2.up) /\ r2.client # "open"
    BY <1>1, <1>2, <1>3 DEF ChannelOK
  <1>5. ASSUME NEW k \in PageRec, Paired(k, r) PROVE Paired(k, r2)
    BY <1>1, <1>2, <1>5 DEF Paired
  <1>6. Fewer(r.up, r2.up) /\ Every(r.up, r2.up)
    BY <1>4, NoMail
  <1>7. Delivers(r, r2)
    BY <1>4, <1>5, <1>6 DEF Delivers, Passes
  <1>. QED
    BY <1>7 DEF r2

LEMMA EndedIs ==
    ASSUME NEW r \in SockRec, ChannelOK(r)
    PROVE  /\ r.up # <<>> /\ r.up[1].t \in {"fin", "lost"} => NoEdits(r.up) /\ r.client # "open"
           /\ r.server \in {"leaving", "gone", "none"} => NoEdits(r.up) /\ r.client # "open"
  <1>1. r.up \in Seq(UpFrames)
    BY SockRecIs
  <1>2. r.up # <<>> /\ r.up[1].t \in {"fin", "lost"} => NoEdits(r.up) /\ r.client # "open"
    BY <1>1, TailMail DEF ChannelOK, Unended
  <1>. QED
    BY <1>2 DEF ChannelOK

(* The page lets go of it, or the network does.                            *)
LEMMA ClosedPasses ==
    ASSUME NEW r \in SockRec, ChannelOK(r), r.client \in Held
    PROVE  /\ ChannelOK(Closed(r)) /\ Closed(r).client \notin Held
           /\ Closed(r).owner = r.owner \/ NoEdits(Closed(r).up)
           /\ Fewer(r.up, Closed(r).up) /\ Every(r.up, Closed(r).up)
  <1> DEFINE r2 == Closed(r)
             fin == [t |-> "fin"]
  <1>0. r.up \in Seq(UpFrames) /\ fin \in UpFrames /\ fin.t = "fin"
    BY SockRecIs, UpFramesAre
  <1> HIDE DEF fin
  <1>1. /\ \/ r2 = Unused
           \/ /\ Alike(r, r2) /\ r2.client = "closed" /\ r2.down = <<>>
              /\ r2.up = Append(r.up, fin) \/ r2.up = r.up
        /\ r2 = Unused =>
             (r.role = "observer" /\ r.up = <<>>) \/ r.server \in {"none", "gone"}
    BY ClosedIs DEF fin
  <1>2. /\ Unused.client = "free" /\ Unused.received = 0 /\ Unused.up = <<>> /\ Unused.down = <<>>
    BY UnusedIs
  <1>3. NoEdits(<<>>) /\ EndsOK(<<>>) /\ \A n : AcksUpTo(<<>>, n)
    BY EmptyIs DEF NoEdits, EndsOK, AcksUpTo
  <1> HIDE DEF r2
  <1>4. CASE r2 = Unused
    <2>1. NoEdits(r.up)
      BY <1>1, <1>3, <1>4 DEF ChannelOK
    <2>2. ChannelOK(r2) /\ r2.client \notin Held /\ NoEdits(r2.up)
      BY <1>2, <1>3, <1>4 DEF ChannelOK, Held
    <2>3. Fewer(r.up, r2.up) /\ Every(r.up, r2.up)
      BY <2>1, <2>2, NoMail
    <2>. QED
      BY <2>2, <2>3 DEF r2
  <1>5. CASE /\ Alike(r, r2) /\ r2.client = "closed" /\ r2.down = <<>>
             /\ r2.up = Append(r.up, fin) \/ r2.up = r.up
    <2>0. fin.t # "edit"
      BY <1>0
    <2>1. /\ Fewer(r.up, r2.up) /\ Every(r.up, r2.up)
          /\ NoEdits(r.up) => NoEdits(r2.up)
          /\ EndsOK(r.up) => EndsOK(r2.up)
      <3>1. CASE r2.up = r.up
        BY <3>1, SameMail
      <3>2. CASE r2.up = Append(r.up, fin)
        BY <1>0, <2>0, <3>2, AppendMail
      <3>. QED
        BY <1>5, <3>1, <3>2
    <2>2. ChannelOK(r2)
      BY <1>3, <1>5, <2>1 DEF ChannelOK, Alike
    <2>3. r2.client \notin Held
      BY <1>5 DEF Held
    <2>. QED
      BY <1>5, <2>1, <2>2, <2>3 DEF r2, Alike
  <1>. QED
    BY <1>1, <1>4, <1>5

LEMMA BrokenPasses ==
    ASSUME NEW r \in SockRec, ChannelOK(r)
    PROVE  /\ ChannelOK(Broken(r)) /\ NoEdits(Broken(r).up) /\ Broken(r).client = "broken"
           /\ Broken(r).owner = r.owner /\ Fewer(r.up, Broken(r).up)
  <1> DEFINE close == [t |-> "close", code |-> "dropped"]
             lost == [t |-> "lost"]
  <1>1. /\ Alike(r, Broken(r)) /\ Broken(r).client = "broken" /\ Broken(r).down = <<close>>
        /\ Broken(r).up = (IF r.server \in {"open", "closing"} THEN <<lost>> ELSE <<>>)
    BY BrokenIs
  <1>2. /\ NoEdits(<<>>) /\ EndsOK(<<>>) /\ NoEdits(<<lost>>) /\ EndsOK(<<lost>>)
        /\ \A n : AcksUpTo(<<close>>, n)
    BY DEF NoEdits, EndsOK, AcksUpTo
  <1> HIDE DEF close, lost
  <1>3. NoEdits(Broken(r).up) /\ EndsOK(Broken(r).up)
    BY <1>1, <1>2
  <1>4. Fewer(r.up, Broken(r).up)
    BY <1>3, NoMail
  <1>5. ChannelOK(Broken(r))
    BY <1>1, <1>2, <1>3 DEF ChannelOK
  <1>. QED
    BY <1>1, <1>3, <1>4, <1>5 DEF Alike

(* The page sends on it.                                                   *)
LEMMA SaidPasses ==
    ASSUME NEW r \in SockRec, ChannelOK(r), r.client = "open", NEW m \in UpFrames,
           m.t = "ready" \/ (m.t = "edit" /\ r.role = "editor")
    PROVE  /\ ChannelOK(Said(r, m)) /\ Every(r.up, Said(r, m).up)
           /\ m.t = "ready" => Fewer(r.up, Said(r, m).up)
           /\ \A k \in PageRec : Paired(k, r) /\ (m.t = "edit" => k.prov.booted /\ m.gen = k.gen)
                => Paired(k, Said(r, m))
  <1> DEFINE r2 == Said(r, m)
  <1>1. /\ r2 \in SockRec /\ Alike(r, r2) /\ r2.client = r.client
        /\ r2.up = Append(r.up, m) /\ r2.down = r.down /\ r.up \in Seq(UpFrames)
    BY SaidIs, SockRecIs
  <1>2. /\ Every(r.up, r2.up)
        /\ m.t # "edit" => Fewer(r.up, r2.up) /\ (NoEdits(r.up) => NoEdits(r2.up))
        /\ Unended(r.up) => (EndsOK(r.up) => EndsOK(r2.up))
        /\ m.t \notin {"fin", "lost"} /\ Unended(r.up) => Unended(r2.up)
        /\ \A i \in DOMAIN r2.up : (i \in DOMAIN r.up /\ r2.up[i] = r.up[i]) \/ r2.up[i] = m
    BY <1>1, AppendMail
  <1>3. m.t \in {"ready", "edit"} /\ m.t \notin {"fin", "lost"} /\ m.t # "req"
    OBVIOUS
  <1> HIDE DEF r2
  <1>4. ChannelOK(r2)
    BY <1>1, <1>2, <1>3 DEF ChannelOK, Alike
  <1>5. ASSUME NEW k \in PageRec, Paired(k, r), m.t = "edit" => k.prov.booted /\ m.gen = k.gen
        PROVE  Paired(k, r2)
    <2>1. Begun(k, r)
      BY <1>5 DEF Paired
    <2>2. ~k.prov.booted => NoEdits(r2.up)
      BY <1>2, <1>3, <1>5, <2>1 DEF Begun
    <2>3. /\ \A i \in DOMAIN r2.up : r2.up[i].t = "req" =>
               i = 1 /\ r2.up[i].role = k.prov.role /\ ~r2.attached
          /\ \A i \in DOMAIN r2.up : r2.up[i].t = "edit" => r2.up[i].gen = k.gen
      BY <1>1, <1>2, <1>3, <1>5, <2>1 DEF Begun, Alike
    <2>4. Begun(k, r2)
      BY <1>1, <2>1, <2>2, <2>3 DEF Begun, Alike
    <2>. QED
      BY <1>1, <2>4 DEF Paired
  <1>. QED
    BY <1>2, <1>3, <1>4, <1>5 DEF r2

(* A new socket, and its opening.                                          *)
LEMMA DialedPasses ==
    ASSUME NEW t \in Tabs
    PROVE  LET r == Dialed(Unused, t) IN
           /\ ChannelOK(r) /\ NoEdits(r.up) /\ r.client = "opening" /\ r.owner = t
           /\ \A k : (k.prov.role = "editor" /\ ~k.broke => k.pipe # "live") => Paired(k, r)
  <1> DEFINE r == Dialed(Unused, t)
  <1>1. /\ r.owner = t /\ r.client = "opening" /\ r.server = "none" /\ r.role = "observer"
        /\ r.received = 0 /\ r.up = <<>> /\ r.down = <<>>
    BY DialedIs
  <1>2. NoEdits(<<>>) /\ EndsOK(<<>>) /\ AcksUpTo(<<>>, 0)
    BY EmptyIs DEF NoEdits, EndsOK, AcksUpTo
  <1> HIDE DEF r
  <1>3. ChannelOK(r) /\ NoEdits(r.up)
    BY <1>1, <1>2 DEF ChannelOK
  <1>4. \A k : (k.prov.role = "editor" /\ ~k.broke => k.pipe # "live") => Paired(k, r)
    BY <1>1 DEF Paired
  <1>. QED
    BY <1>1, <1>3, <1>4 DEF r

LEMMA ConnectedPasses ==
    ASSUME NEW r \in SockRec, r.client = "opening", SocketOK(r), NEW k \in PageRec,
           ~k.prov.booted, k.prov.sent = 0, k.prov.acked = 0
    PROVE  LET r2 == Connected(r, k.prov.role) IN
           ChannelOK(r2) /\ NoEdits(r2.up) /\ Paired(k, r2) /\ r2.owner = r.owner
  <1> DEFINE r2 == Connected(r, k.prov.role)
             req == [t |-> "req", role |-> k.prov.role]
  <1>1. k.prov.role \in {"editor", "observer", "none"}
    BY PageIs
  <1>2. /\ r.role = "observer" /\ ~r.attached /\ ~r.joined /\ r.received = 0 /\ r.down = <<>>
    BY DEF SocketOK
  <1>3. /\ r2.owner = r.owner /\ r2.client = "open" /\ r2.server = "open" /\ r2.role = r.role
        /\ r2.attached = r.attached /\ r2.joined = r.joined /\ r2.received = r.received
        /\ r2.up = <<req>> /\ r2.down = r.down
    BY <1>1, ConnectedIs
  <1>4. req.t = "req" /\ req.role = k.prov.role
    OBVIOUS
  <1>5. DOMAIN <<req>> = {1} /\ <<req>>[1] = req
    OBVIOUS
  <1> HIDE DEF r2, req
  <1>6. NoEdits(r2.up) /\ EndsOK(r2.up) /\ Unended(r2.up) /\ AcksUpTo(r2.down, 0)
    BY <1>2, <1>3, <1>4, <1>5, EmptyIs DEF NoEdits, EndsOK, Unended, AcksUpTo
  <1>7. ChannelOK(r2)
    BY <1>2, <1>3, <1>6 DEF ChannelOK
  <1>8. Begun(k, r2)
    BY <1>2, <1>3, <1>4, <1>5, <1>6 DEF Begun
  <1>. QED
    BY <1>3, <1>6, <1>7, <1>8 DEF Paired, r2

(* An edit is taken in.                                                    *)
LEMMA ReceiptPasses ==
    ASSUME NEW r \in SockRec, ChannelOK(r), r.up # <<>>, r.up[1].t = "edit"
    PROVE  /\ ChannelOK(Receipt(r)) /\ \A k \in PageRec : Paired(k, r) => Paired(k, Receipt(r))
           /\ Fewer(r.up, Receipt(r).up)
  <1> DEFINE r2 == Receipt(r)
  <1>1. /\ r2 \in SockRec /\ r2.owner = r.owner /\ r2.client = r.client
        /\ r2.server = r.server /\ r2.role = r.role /\ r2.attached = r.attached
        /\ r2.joined = r.joined /\ r2.received = r.received + 1 /\ r2.up = Tail(r.up)
        /\ AckOf(r) \in DownFrames
        /\ r2.down = Append(r.down, AckOf(r)) \/ r2.down = r.down
        /\ r.up \in Seq(UpFrames) /\ r.down \in Seq(DownFrames) /\ r.received \in Nat
    BY ReceiptIs, SockRecIs
  <1>2. AckOf(r).n = r.received + 1
    BY DEF AckOf
  <1>3. /\ Fewer(r.up, r2.up)
        /\ NoEdits(r.up) => NoEdits(r2.up)
        /\ Unended(r.up) => Unended(r2.up)
        /\ EndsOK(r.up) => EndsOK(r2.up)
        /\ \A i \in DOMAIN r2.up : i + 1 \in DOMAIN r.up /\ i + 1 # 1 /\ r2.up[i] = r.up[i + 1]
        /\ 1 \in DOMAIN r.up
    BY <1>1, TailMail
  <1> HIDE DEF r2
  <1>4. AcksUpTo(r2.down, r.received + 1)
    <2>1. AcksUpTo(r.down, r.received + 1)
      BY <1>1, AcksAre DEF ChannelOK
    <2>2. r.received + 1 \in Nat /\ AckOf(r).n <= r.received + 1
      BY <1>1, <1>2
    <2>3. AcksUpTo(Append(r.down, AckOf(r)), r.received + 1)
      BY <1>1, <2>1, <2>2, AcksAre
    <2>. QED
      BY <1>1, <2>1, <2>3
  <1>5. ChannelOK(r2)
    BY <1>1, <1>3, <1>4 DEF ChannelOK
  <1>6. ASSUME NEW k \in PageRec, Paired(k, r) PROVE Paired(k, r2)
    <2>1. CASE r.client = "open"
      <3>1. Begun(k, r)
        BY <1>6, <2>1 DEF Paired
      <3>2. k.prov.booted
        BY <1>3, <3>1 DEF Begun, NoEdits
      <3>3. k.prov.acked <= r2.received
        BY <1>1, <3>1, PageIs DEF Begun
      <3>4. Begun(k, r2)
        BY <1>1, <1>3, <3>1, <3>2, <3>3 DEF Begun
      <3>. QED
        BY <1>1, <2>1, <3>4 DEF Paired
    <2>2. CASE r.client # "open"
      BY <1>1, <1>6, <2>2 DEF Paired
    <2>. QED
      BY <2>1, <2>2
  <1>. QED
    BY <1>3, <1>5, <1>6 DEF r2

(* The channels of every socket, every page and the socket it has; a page  *)
(* without one has lost frames; the sessions are numbered.                 *)
Alone == \A t \in Tabs : tab[t].socket = 0 /\ tab[t].prov.role = "editor" => tab[t].broke
Numbered ==
  /\ session <= nSessions
  /\ \A c \in Sockets : sock[c].sess <= nSessions
  /\ \A t \in Tabs : tab[t].bound <= nSessions
Channels ==
  /\ \A c \in Sockets : ChannelOK(sock[c])
  /\ \A t \in Tabs : tab[t].socket # 0 => Paired(tab[t], OwnSock(t))
  /\ Alone /\ Numbered

-----------------------------------------------------------------------------
(* The server by what it does to the mail.  Every step but the receipt of  *)
(* an edit tends the sockets: no edit of the session there is is lost, or  *)
(* its page knows that frames were.                                        *)
KeepsNow(q, q2, s) ==
  \A i \in DOMAIN q : q[i].t = "edit" /\ q[i].s = s => \E j \in DOMAIN q2 : q2[j] = q[i]
Kept(d) ==
  \/ session = 0
  \/ KeepsNow(sock[d].up, sock'[d].up, session)
  \/ sock[d].owner \in Tabs /\ tab'[sock[d].owner].broke
Tended ==
  /\ \A d \in Sockets : /\ Passes(sock[d], sock'[d]) /\ Kept(d)
                        /\ sock'[d].sess \in {0, sock[d].sess, session'}
  /\ \A t \in Tabs : tab'[t] = tab[t] \/ tab'[t] = Faulted(tab[t])
  /\ \/ session' \in {0, session} /\ UNCHANGED <<nSessions, integrated>>
     \/ session' = nSessions + 1 /\ nSessions' = session' /\ integrated' = [t \in Tabs |-> Nothing]
ReceiptStep(c) ==
  /\ Serving(c) /\ Asks(c).t = "edit" /\ IsCurrentSessionEditor(c) /\ session # 0
  /\ integrated' = IF Integrates(Asks(c))
                   THEN [integrated EXCEPT ![Asks(c).tab] = [gen |-> Asks(c).gen, n |-> Asks(c).n]]
                   ELSE integrated
  /\ sock'[c] = Receipt(sock[c])
  /\ \A d \in Sockets \ {c} : Delivers(sock[d], sock'[d]) /\ sock'[d].sess = sock[d].sess
  /\ UNCHANGED <<tab, session, nSessions>>

LEMMA DeliversKeeps ==
    ASSUME NEW q, NEW q2, Every(q, q2)
    PROVE  \A s : KeepsNow(q, q2, s)
  BY DEF Every, KeepsNow

LEMMA ShutDelivers ==
    ASSUME NEW r \in SockRec, ChannelOK(r), NEW code \in Codes
    PROVE  Delivers(r, Shut(r, code)) /\ Shut(r, code).sess = r.sess
  <1>1. Delivers(r, Shut(r, code))
    BY SentDelivers
  <1>2. Shut(r, code).sess = r.sess
    BY ShutIs
  <1>. QED
    BY <1>1, <1>2

LEMMA OneTends ==
    ASSUME Typed, Channels, NEW c \in Sockets, NEW r, OnSock(c, r), Passes(sock[c], r),
           \/ session = 0 \/ Every(sock[c].up, r.up) \/ KeepsNow(sock[c].up, r.up, session),
           r.sess \in {0, sock[c].sess, session'},
           UNCHANGED tab, session' \in {0, session}, UNCHANGED <<nSessions, integrated>>
    PROVE  Tended
  <1>1. session = 0 \/ KeepsNow(sock[c].up, r.up, session)
    BY DeliversKeeps
  <1>2. ASSUME NEW d \in Sockets \ {c}
        PROVE  /\ sock'[d] = sock[d] /\ Passes(sock[d], sock[d])
               /\ KeepsNow(sock[d].up, sock[d].up, session)
    BY SameDelivers, DeliversKeeps DEF OnSock, Channels, Delivers
  <1>3. sock'[c] = r
    BY DEF OnSock
  <1>. QED
    BY <1>1, <1>2, <1>3 DEF Tended, Kept

LEMMA LeaveTends ==
    ASSUME Typed, Channels, NEW c \in Sockets, NEW last \in BOOLEAN, Leave(c, last),
           sock[c].role = "observer" => sock[c].server # "open",
           NoEdits(sock[c].up), sock[c].client # "open",
           UNCHANGED <<tab, nSessions, integrated>>
    PROVE  Tended
  <1>1. /\ sock' \in [Sockets -> SockRec] /\ sock'[c] = Gone(sock[c])
        /\ \A d \in Sockets \ {c} :
             sock'[d] = IF last /\ sock[d].role = "observer" THEN Shut(sock[d], "ended") ELSE sock[d]
        /\ session' = IF holders' = {} THEN 0 ELSE session
    BY LeaveDoes
  <1>2. \A d \in Sockets : sock[d] \in SockRec /\ ChannelOK(sock[d])
    BY DEF Typed, Channels
  <1>3. Delivers(sock[c], sock'[c]) /\ sock'[c].sess \in {0, sock[c].sess}
    BY <1>1, <1>2, OffDelivers, OffIs, UnusedIs DEF Gone
  <1>4. ASSUME NEW d \in Sockets \ {c}
        PROVE  Delivers(sock[d], sock'[d]) /\ sock'[d].sess = sock[d].sess
    <2>1. "ended" \in Codes
      BY DEF Codes
    <2>2. Delivers(sock[d], Shut(sock[d], "ended")) /\ Shut(sock[d], "ended").sess = sock[d].sess
      BY <1>2, <2>1, ShutDelivers
    <2>3. Delivers(sock[d], sock[d])
      BY <1>2, SameDelivers
    <2>. QED
      BY <1>1, <2>2, <2>3
  <1>5. \A d \in Sockets : Passes(sock[d], sock'[d]) /\ Every(sock[d].up, sock'[d].up)
    BY <1>3, <1>4 DEF Delivers
  <1>6. \A d \in Sockets : Kept(d)
    BY <1>5, DeliversKeeps DEF Kept
  <1>7. \A d \in Sockets : sock'[d].sess \in {0, sock[d].sess, session'}
    BY <1>3, <1>4
  <1>. QED
    BY <1>1, <1>5, <1>6, <1>7 DEF Tended

(* A closing is of the socket's own frames only.                           *)
LEMMA ShutKeeps ==
    ASSUME NEW r \in SockRec, NEW code \in Codes
    PROVE  Shut(r, code).up = r.up /\ Shut(r, code).sess = r.sess
  <1>1. Shut(r, code).up = r.up
    BY ShutIs
  <1>2. Shut(r, code).sess = r.sess
    BY ShutIs
  <1>. QED
    BY <1>1, <1>2

(* The first frame is handled, and the socket closed.                      *)
LEMMA HeardTends ==
    ASSUME NEW r \in SockRec, ChannelOK(r), r.up # <<>>, NEW code \in Codes
    PROVE  /\ Passes(r, Heard(r)) /\ Passes(r, Shut(Heard(r), code))
           /\ Heard(r).up = Tail(r.up) /\ Shut(Heard(r), code).up = Tail(r.up)
           /\ Heard(r).sess = r.sess /\ Shut(Heard(r), code).sess = r.sess
           /\ r.up[1].t # "edit" => Every(r.up, Tail(r.up))
           /\ \A s : r.up[1].s # s => KeepsNow(r.up, Tail(r.up), s)
  <1> DEFINE h == Heard(r)
  <1>1. /\ h \in SockRec /\ h.up = Tail(r.up) /\ h.sess = r.sess /\ r.up \in Seq(UpFrames)
    BY HeardIs, SockRecIs DEF Alike
  <1>2. Passes(r, h) /\ ChannelOK(h)
    BY HeardPasses DEF Passes
  <1> HIDE DEF h
  <1>3. Passes(h, Shut(h, code)) /\ Shut(h, code).up = h.up /\ Shut(h, code).sess = h.sess
    <2>1. Passes(h, Shut(h, code))
      BY <1>1, <1>2, SentDelivers DEF Delivers
    <2>. QED
      BY <1>1, <2>1, ShutKeeps
  <1>4. Passes(r, Shut(h, code))
    BY <1>2, <1>3, PassesOn
  <1>5. r.up[1].t # "edit" => Every(r.up, Tail(r.up))
    BY <1>1, TailMail
  <1>6. ASSUME NEW s, r.up[1].s # s PROVE KeepsNow(r.up, Tail(r.up), s)
    <2>1. \A i \in DOMAIN r.up : i # 1 => i - 1 \in DOMAIN Tail(r.up) /\ Tail(r.up)[i - 1] = r.up[i]
      BY <1>1, TailMail
    <2>. QED
      BY <1>6, <2>1 DEF KeepsNow
  <1>. QED
    BY <1>1, <1>2, <1>3, <1>4, <1>5, <1>6 DEF h

LEMMA AskEditorTends ==
    ASSUME "unasked" \notin Env, Typed, Channels, NEW c \in Sockets, AskEditor(c)
    PROVE  Tended
  <1>1. /\ Serving(c) /\ sock[c].up # <<>> /\ sock[c].server \in {"open", "closing"}
        /\ JoinedBy \in Nat \ {0} /\ Asks(c) = sock[c].up[1]
        /\ Asks(c).t = "req" /\ Asks(c).role = "editor"
    BY AskEditorDoes, HandledIs
  <1>2. \A d \in Sockets : sock[d] \in SockRec /\ ChannelOK(sock[d])
    BY DEF Typed, Channels
  <1>3. UNCHANGED tab
    BY DEF AskEditor
  <1>4. CASE OnSock(c, Heard(sock[c])) /\ UNCHANGED <<session, holders, nSessions, integrated>>
    <2>1. Delivers(sock[c], Heard(sock[c])) /\ Heard(sock[c]).sess = sock[c].sess
      BY <1>1, <1>2, HeardPasses, HeardIs DEF Alike
    <2>. QED
      BY <1>3, <1>4, <2>1, OneTends DEF Delivers
  <1>5. CASE ~sock[c].attached
    <2>1. /\ session' = JoinedBy
          /\ nSessions' = IF session = 0 THEN JoinedBy ELSE nSessions
          /\ integrated' = IF session' # session THEN [t \in Tabs |-> Nothing] ELSE integrated
          /\ sock'[c] = JoinEditor(Heard(sock[c]), JoinedBy)
      BY <1>5, AskEditorDoes
    <2>2. \/ session' \in {0, session} /\ UNCHANGED <<nSessions, integrated>>
          \/ /\ session' = nSessions + 1 /\ nSessions' = session'
             /\ integrated' = [t \in Tabs |-> Nothing]
      BY <1>1, <2>1 DEF JoinedBy
    <2>3. Heard(sock[c]) \in SockRec
      BY <1>1, <1>2, HeardIs
    <2>4. Delivers(sock[c], sock'[c]) /\ sock'[c].sess = session'
      <3>1. sock[c].up[1].t = "req" /\ sock[c].up[1].role = "editor" /\ JoinedBy \in Nat
        BY <1>1
      <3>2. Delivers(sock[c], JoinEditor(Heard(sock[c]), JoinedBy))
        BY <1>1, <1>2, <1>5, <3>1, AskedDelivers
      <3>3. JoinEditor(Heard(sock[c]), JoinedBy).sess = JoinedBy
        BY <2>3, <3>1, JoinEditorIs
      <3>. QED
        BY <2>1, <3>2, <3>3
    <2>5. ASSUME NEW d \in Sockets \ {c}
          PROVE  Delivers(sock[d], sock'[d]) /\ sock'[d].sess \in {sock[d].sess, session'}
      <3>1. "superseded" \in Codes
        BY DEF Codes
      <3>2. CASE sock'[d] = Shut(sock[d], "superseded")
        BY <1>2, <3>1, <3>2, ShutDelivers
      <3>3. CASE /\ sock[d].attached /\ ~sock[d].joined /\ sock[d].role = "observer"
                 /\ sock'[d] = Join(sock[d], JoinedBy)
        <4>1. sock[d] \in SockRec /\ JoinedBy \in Nat
          BY <1>1, <1>2
        <4>2. Delivers(sock[d], Join(sock[d], JoinedBy))
          BY <1>2, <3>3, <4>1, WaitingDelivers
        <4>3. Join(sock[d], JoinedBy).sess = JoinedBy
          BY <4>1, JoinIs
        <4>. QED
          BY <2>1, <3>3, <4>2, <4>3
      <3>4. CASE sock'[d] = sock[d]
        BY <1>2, <3>4, SameDelivers
      <3>. QED
        BY <1>5, <3>2, <3>3, <3>4, AskEditorDoes
    <2>6. \A d \in Sockets : /\ Passes(sock[d], sock'[d]) /\ Every(sock[d].up, sock'[d].up)
                             /\ sock'[d].sess \in {0, sock[d].sess, session'}
      BY <2>4, <2>5 DEF Delivers
    <2>7. \A d \in Sockets : Kept(d)
      BY <2>6, DeliversKeeps DEF Kept
    <2>. QED
      BY <1>3, <2>2, <2>6, <2>7 DEF Tended
  <1>. QED
    BY <1>4, <1>5, AskEditorDoes

LEMMA EditTends ==
    ASSUME Typed, Base, Channels, NEW c \in Sockets, EditArrives(c)
    PROVE  Tended \/ ReceiptStep(c)
  <1> DEFINE r == sock[c]
  <1>1. /\ Serving(c) /\ r.up # <<>> /\ r.server \in {"open", "closing"} /\ Asks(c) = r.up[1]
        /\ Asks(c).t = "edit" /\ r \in SockRec /\ r.up \in Seq(UpFrames)
    BY EditArrivesDoes, HandledIs, SockRecIs DEF Typed
  <1>2. ChannelOK(r) /\ SocketOK(r) /\ \A d \in Sockets : sock[d] \in SockRec /\ ChannelOK(sock[d])
    BY DEF Typed, Channels, Base, SocketsOK
  <1>3. UNCHANGED <<tab, session, nSessions>>
    BY DEF EditArrives
  <1>4. 1 \in DOMAIN r.up
    BY <1>1, TailIs
  <1>5. r.role = "editor" /\ r.up[1].s = r.sess
    BY <1>1, <1>2, <1>4, SockRecIs DEF ChannelOK, NoEdits, SocketOK
  <1> HIDE DEF r
  <1>6. /\ Passes(r, Heard(r)) /\ Passes(r, Shut(Heard(r), "stale"))
        /\ Heard(r).up = Tail(r.up) /\ Shut(Heard(r), "stale").up = Tail(r.up)
        /\ Heard(r).sess = r.sess /\ Shut(Heard(r), "stale").sess = r.sess
        /\ \A s : r.up[1].s # s => KeepsNow(r.up, Tail(r.up), s)
    BY <1>1, <1>2, HeardTends DEF Codes
  <1>7. CASE Dropped(c) /\ OnSock(c, Heard(r)) /\ UNCHANGED integrated
    <2>1. session = 0
      BY <1>5, <1>7 DEF Dropped, r
    <2>. QED
      BY <1>3, <1>6, <1>7, <2>1, OneTends DEF r
  <1>8. CASE /\ ~Dropped(c) /\ ~IsCurrentSessionEditor(c) /\ UNCHANGED integrated
             /\ OnSock(c, Shut(Heard(r), "stale"))
    <2>1. r.up[1].s # session
      BY <1>5, <1>8 DEF IsCurrentSessionEditor, r
    <2>2. KeepsNow(r.up, Shut(Heard(r), "stale").up, session)
      BY <1>6, <2>1
    <2>. QED
      BY <1>3, <1>6, <1>8, <2>2, OneTends DEF r
  <1>9. CASE /\ ~Dropped(c) /\ IsCurrentSessionEditor(c)
             /\ integrated' = IF Integrates(Asks(c))
                              THEN [integrated EXCEPT ![Asks(c).tab] =
                                      [gen |-> Asks(c).gen, n |-> Asks(c).n]]
                              ELSE integrated
             /\ UpdateOf \in DownFrames /\ sock'[c] = Receipt(r)
             /\ \A d \in Sockets \ {c} :
                  sock'[d] = IF sock[d].recipient THEN Sent(sock[d], UpdateOf) ELSE sock[d]
    <2>1. session # 0
      BY <1>9 DEF Dropped
    <2>2. UpdateOf.t # "ack"
      BY DEF UpdateOf
    <2>3. ASSUME NEW d \in Sockets \ {c}
          PROVE  Delivers(sock[d], sock'[d]) /\ sock'[d].sess = sock[d].sess
      <3>1. Delivers(sock[d], Sent(sock[d], UpdateOf)) /\ Delivers(sock[d], sock[d])
        BY <1>2, <1>9, <2>2, SentDelivers, SameDelivers
      <3>2. Sent(sock[d], UpdateOf).sess = sock[d].sess
        BY <1>2, <1>9, SentIs DEF Alike
      <3>. QED
        BY <1>9, <3>1, <3>2
    <2>. QED
      BY <1>1, <1>3, <1>9, <2>1, <2>3 DEF ReceiptStep, r
  <1>. QED
    BY <1>7, <1>8, <1>9, EditArrivesDoes DEF r

LEMMA ServerTends ==
    ASSUME "unasked" \notin Env, Typed, Base, Channels, NEW c \in Sockets, ServerStep(c)
    PROVE  Tended \/ ReceiptStep(c)
  <1>1. UNCHANGED tab /\ session \in Nat
    BY DEF ServerStep, AskObserver, AskEditor, SendBootstrap, EditArrives, ReadyArrives,
           SocketCloses, LastEditorLeaves, Typed
  <1>2. /\ sock[c] \in SockRec /\ ChannelOK(sock[c])
        /\ Serving(c) => /\ sock[c].up # <<>> /\ sock[c].server \in {"open", "closing"}
                         /\ Asks(c) = sock[c].up[1] /\ Heard(sock[c]) \in SockRec
                         /\ Heard(sock[c]).sess = sock[c].sess
    BY HandledIs, HeardIs DEF Typed, Channels, Alike
  <1>3. ASSUME NEW r, OnSock(c, r), Delivers(sock[c], r), r.sess \in {0, sock[c].sess, session'},
               UNCHANGED <<session, nSessions, integrated>>
        PROVE  Tended
    BY <1>1, <1>3, OneTends DEF Delivers
  <1>4. CASE AskObserver(c)
    <2>1. UNCHANGED <<session, nSessions, integrated>>
      BY <1>4 DEF AskObserver, server
    <2>2. /\ Serving(c) /\ Asks(c).t = "req" /\ Asks(c).role = "observer"
      BY <1>4 DEF AskObserver
    <2>3. /\ Delivers(sock[c], Heard(sock[c])) /\ Delivers(sock[c], Join(Heard(sock[c]), session))
          /\ Delivers(sock[c], Attach(Heard(sock[c])))
      BY <1>1, <1>2, <2>2, HeardPasses, AskedDelivers
    <2>4. /\ Join(Heard(sock[c]), session).sess = session
          /\ Attach(Heard(sock[c])).sess = sock[c].sess
      BY <1>1, <1>2, <2>2, JoinIs, AttachIs
    <2>. QED
      BY <1>2, <1>3, <1>4, <2>1, <2>2, <2>3, <2>4, AskObserverDoes
  <1>5. CASE AskEditor(c)
    BY <1>5, AskEditorTends
  <1>6. CASE SendBootstrap(c)
    <2>1. UNCHANGED <<session, nSessions, integrated>>
      BY <1>6 DEF SendBootstrap, server
    <2>2. /\ Delivers(sock[c], Unbooted(sock[c]))
          /\ Bootable(sock[c]) => Delivers(sock[c], Booting(sock[c]))
          /\ Unbooted(sock[c]).sess = sock[c].sess /\ Booting(sock[c]).sess = sock[c].sess
      BY <1>2, BootDelivers, BootingIs DEF Bootable
    <2>. QED
      BY <1>3, <1>6, <2>1, <2>2, SendBootstrapDoes
  <1>7. CASE EditArrives(c)
    BY <1>7, EditTends
  <1>8. CASE ReadyArrives(c)
    <2>1. UNCHANGED <<session, nSessions, integrated>> /\ Serving(c) /\ Asks(c).t = "ready"
      BY <1>8 DEF ReadyArrives
    <2>2. /\ Delivers(sock[c], Heard(sock[c])) /\ Delivers(sock[c], Shut(Heard(sock[c]), "stale"))
          /\ Heard(sock[c]).sess = sock[c].sess /\ Shut(Heard(sock[c]), "stale").sess = sock[c].sess
      <3>1. "stale" \in Codes
        BY DEF Codes
      <3>. QED
        BY <1>2, <2>1, <3>1, HeardTends DEF Delivers
    <2>. QED
      BY <1>3, <1>8, <2>1, <2>2, ReadyArrivesDoes
  <1>9. CASE SocketCloses(c)
    <2>1. Serving(c) /\ Asks(c).t \in {"fin", "lost"} /\ LastEditor(c) \in BOOLEAN
      BY <1>9 DEF SocketCloses, LastEditor
    <2>2. UNCHANGED <<nSessions, integrated>>
      BY <1>9 DEF SocketCloses
    <2>3. NoEdits(sock[c].up) /\ sock[c].client # "open"
      BY <1>2, <2>1, EndedIs
    <2>4. ASSUME NEW state \in {"leaving", "gone"}
          PROVE  Delivers(sock[c], Off(sock[c], state)) /\ Off(sock[c], state).sess \in {0, sock[c].sess}
      BY <1>2, <2>3, OffDelivers, OffIs, UnusedIs
    <2>5. CASE sock[c].role = "editor" /\ Leave(c, LastEditor(c))
      BY <1>1, <2>1, <2>2, <2>3, <2>5, LeaveTends
    <2>. QED
      BY <1>3, <1>9, <2>2, <2>4, <2>5, SocketClosesDoes DEF Gone
  <1>10. CASE LastEditorLeaves(c)
    <2>1. sock[c].server = "leaving" /\ Leave(c, TRUE) /\ UNCHANGED <<nSessions, integrated>>
      BY <1>10 DEF LastEditorLeaves
    <2>2. NoEdits(sock[c].up) /\ sock[c].client # "open"
      BY <1>2, <2>1, EndedIs
    <2>. QED
      BY <1>1, <2>1, <2>2, LeaveTends
  <1>. QED
    BY <1>4, <1>5, <1>6, <1>7, <1>8, <1>9, <1>10 DEF ServerStep

LEMMA CommonTends ==
    ASSUME Typed, Channels,
           \/ PauseStart \/ PauseEnd \/ Lockdown
           \/ Invalidate("restore", "replaced") \/ Invalidate("delete", "deleted")
    PROVE  Tended
  <1>1. UNCHANGED <<tab, nSessions, integrated>> /\ session' \in {0, session}
    BY DEF PauseStart, PauseEnd, Lockdown, Invalidate, server
  <1>2. \A d \in Sockets : sock[d] \in SockRec /\ ChannelOK(sock[d])
    BY DEF Typed, Channels
  <1>. SUFFICES \A d \in Sockets : Passes(sock[d], sock'[d]) /\ Every(sock[d].up, sock'[d].up)
                                   /\ sock'[d].sess = sock[d].sess
    BY <1>1, DeliversKeeps DEF Tended, Kept
  <1>3. CASE PauseStart
    <2>1. [t |-> "start"] \in DownFrames /\ [t |-> "start"].t # "ack"
      BY DownFramesAre
    <2>2. ASSUME NEW d \in Sockets
          PROVE  Delivers(sock[d], sock'[d]) /\ sock'[d].sess = sock[d].sess
      BY <1>2, <1>3, <2>1, PauseStartDoes, SentDelivers, SentIs DEF Alike
    <2>. QED
      BY <2>2 DEF Delivers
  <1>4. CASE PauseEnd
    <2> SUFFICES ASSUME NEW d \in Sockets
                 PROVE  Passes(sock[d], sock'[d]) /\ Every(sock[d].up, sock'[d].up)
                        /\ sock'[d].sess = sock[d].sess
      OBVIOUS
    <2> DEFINE r == sock[d]
               q == Ended(r)
    <2>1. [t |-> "end"] \in DownFrames /\ [t |-> "end"].t # "ack"
      BY DownFramesAre
    <2>2. Delivers(r, q) /\ q \in SockRec /\ q.sess = r.sess
      BY <1>2, <2>1, SentDelivers, SentIs DEF Ended, Alike
    <2>3. /\ ThawOf \in DownFrames /\ ThawOf.t # "ack"
          /\ sock'[d] = IF q.recipient THEN Sent(q, ThawOf) ELSE q
      BY <1>4, PauseEndDoes DEF ThawOf
    <2> HIDE DEF r, q, ThawOf
    <2>4. ChannelOK(q)
      BY <2>2 DEF Delivers, Passes
    <2>5. /\ Delivers(q, Sent(q, ThawOf)) /\ Delivers(q, q) /\ Sent(q, ThawOf).sess = q.sess
      BY <2>2, <2>3, <2>4, SentDelivers, SameDelivers, SentIs DEF Alike
    <2>6. Delivers(q, sock'[d]) /\ sock'[d].sess = q.sess
      BY <2>3, <2>5
    <2>7. Passes(r, sock'[d]) /\ Every(r.up, sock'[d].up)
      <3>1. Passes(r, q) /\ Passes(q, sock'[d]) /\ Every(r.up, q.up) /\ Every(q.up, sock'[d].up)
        BY <2>2, <2>6 DEF Delivers
      <3>. QED
        BY <3>1, PassesOn
    <2>. QED
      BY <2>2, <2>6, <2>7 DEF r
  <1>5. ASSUME NEW code \in Codes, sock' = ShutAll(code)
        PROVE  \A d \in Sockets : Passes(sock[d], sock'[d]) /\ Every(sock[d].up, sock'[d].up)
                                  /\ sock'[d].sess = sock[d].sess
    <2>1. \A d \in Sockets : sock'[d] = Shut(sock[d], code)
      BY <1>5, ShutAllDoes
    <2>. QED
      BY <1>2, <1>5, <2>1, ShutDelivers DEF Delivers
  <1>6. {"lockdown", "replaced", "deleted"} \subseteq Codes
    BY DEF Codes
  <1>. QED
    BY <1>3, <1>4, <1>5, <1>6 DEF Lockdown, Invalidate

(* The frame that finds the token expired is lost, which its page learns.  *)
LEMMA ExpiryTends ==
    ASSUME Typed, Base, Channels, NEW c \in Sockets, TokenExpired(c)
    PROVE  Tended
  <1> DEFINE t == sock[c].owner
             r == Shut(Heard(sock[c]), "expired")
  <1>1. /\ t \in Tabs /\ sock[c] \in SockRec /\ ChannelOK(sock[c]) /\ sock[c].up # <<>>
    BY DEF TokenExpired, Live, Serving, Base, Wired, OwnerOK, Typed, Channels
  <1>2. OnSock(c, r) /\ OnPage(t, Faulted(tab[t]))
    BY <1>1, TokenExpiredDoes
  <1>3. UNCHANGED <<session, nSessions, integrated>>
    BY DEF TokenExpired, server
  <1>4. Passes(sock[c], r) /\ r.sess = sock[c].sess
    BY <1>1, HeardTends DEF Codes
  <1>5. tab'[t].broke
    <2>1. tab[t] \in PageRec
      BY <1>1 DEF Typed
    <2>. QED
      BY <1>2, <2>1 DEF OnPage, Faulted, PageRec
  <1>6. sock'[c] = r /\ \A u \in Tabs : tab'[u] = tab[u] \/ tab'[u] = Faulted(tab[u])
    BY <1>2 DEF OnSock, OnPage
  <1>7. ASSUME NEW d \in Sockets \ {c}
        PROVE  /\ sock'[d] = sock[d] /\ Passes(sock[d], sock[d])
               /\ KeepsNow(sock[d].up, sock[d].up, session)
    BY <1>2, SameDelivers, DeliversKeeps DEF OnSock, Channels, Delivers
  <1> HIDE DEF r
  <1>8. \A d \in Sockets : Kept(d)
    BY <1>1, <1>5, <1>7 DEF Kept
  <1>9. \A d \in Sockets : /\ Passes(sock[d], sock'[d])
                           /\ sock'[d].sess \in {0, sock[d].sess, session'}
    BY <1>4, <1>6, <1>7
  <1>. QED
    BY <1>3, <1>6, <1>8, <1>9 DEF Tended

-----------------------------------------------------------------------------
(* The pages by what they do to the mail.  Most steps stay with the replica *)
(* and the socket that the page has, and lose nothing unless the page knows *)
(* it; or they give both up, open the socket, type, or take a bootstrap.    *)
SameReplica(k, k2) == k2.gen = k.gen /\ k2.bound = k.bound /\ k2.own = k.own
SameCounts(k, k2) ==
  /\ k2.socket = k.socket /\ k2.prov.role = k.prov.role /\ k2.prov.sent = k.prov.sent
  /\ k2.prov.booted = k.prov.booted /\ (k.broke => k2.broke)
Leaves(r, r2) ==
  /\ ChannelOK(r2) /\ r2.owner = r.owner /\ r2.sess = r.sess /\ r2.received = r.received
  /\ Fewer(r.up, r2.up) /\ (r2.client = "open" => r.client = "open")
Others(t) ==
  /\ UNCHANGED <<session, nSessions, integrated>>
  /\ \A u \in Tabs \ {t} : tab'[u] = tab[u]
  /\ \A d \in Sockets : d # tab[t].socket => sock'[d] = sock[d]
Stays(t) ==
  /\ Others(t) /\ SameReplica(tab[t], tab'[t]) /\ SameCounts(tab[t], tab'[t])
  /\ tab[t].socket # 0 =>
       /\ Leaves(OwnSock(t), sock'[tab[t].socket]) /\ Paired(tab'[t], sock'[tab[t].socket])
       /\ tab'[t].broke \/ Every(OwnSock(t).up, sock'[tab[t].socket].up)
Opens(t) ==
  /\ Others(t) /\ OnPage(t, OpenedPage(tab[t])) /\ tab[t].socket \in Sockets /\ Settled(t)
  /\ OwnSock(t).client = "opening"
  /\ sock'[tab[t].socket] = Connected(OwnSock(t), tab[t].prov.role)
Moves(t) == Rewires(t) /\ UNCHANGED <<session, nSessions, integrated>>
Boots(t) ==
  /\ Others(t) /\ OnPage(t, AfterFrame(tab[t], Arriving(t))) /\ Arriving(t).t = "boot"
  /\ tab[t].socket \in Sockets /\ OwnSock(t).client = "open" /\ OwnSock(t).down # <<>>
  /\ Arriving(t) = OwnSock(t).down[1] /\ Arriving(t) \in DownFrames
  /\ sock'[tab[t].socket] = Got(OwnSock(t))

(* A page that differs in nothing its socket and it have agreed on.        *)
SamePair(k, k2) ==
  /\ SameReplica(k, k2) /\ SameCounts(k, k2)
  /\ k2.pipe = k.pipe /\ k2.prov.acked = k.prov.acked

LEMMA SamePairs ==
    ASSUME NEW k, NEW k2, SamePair(k, k2), NEW r, Paired(k, r)
    PROVE  Paired(k2, r)
  BY DEF SamePair, SameReplica, SameCounts, Paired, Begun

LEMMA PagesStay ==
    ASSUME NEW k \in PageRec
    PROVE  /\ SamePair(k, Unfocused(k)) /\ SamePair(k, Awoken(k)) /\ SamePair(k, Handed(k))
           /\ SamePair(k, FramedPage(k))
           /\ SamePair(k, Slept(k)) /\ Slept(k).broke
           /\ SamePair(k, Faulted(k)) /\ Faulted(k).broke
  <1>1. k.prov \in ProvRec
    BY PageIs
  <1>2. SamePair(k, FramedPage(k))
    BY <1>1 DEF FramedPage, PageRec, ProvRec, SamePair, SameReplica, SameCounts
  <1>. QED
    BY <1>2 DEF PageRec, SamePair, SameReplica, SameCounts, Unfocused, Awoken, Handed, Slept, Faulted

LEMMA StaysQuiet ==
    ASSUME Typed, Base, Channels, NEW t \in Tabs, NEW k, OnPage(t, k), SamePair(tab[t], k),
           UNCHANGED sock, UNCHANGED <<session, nSessions, integrated>>
    PROVE  Stays(t)
  <1>1. Others(t)
    BY DEF Others, OnPage
  <1>2. ASSUME tab[t].socket # 0
        PROVE  /\ Leaves(OwnSock(t), sock'[tab[t].socket]) /\ Paired(k, sock'[tab[t].socket])
               /\ Every(OwnSock(t).up, sock'[tab[t].socket].up)
    <2>1. sock'[tab[t].socket] = OwnSock(t) /\ Paired(tab[t], OwnSock(t)) /\ ChannelOK(OwnSock(t))
      BY <1>2, OwnedIs DEF Channels, OwnSock, Base
    <2>. QED
      BY <2>1, SamePairs, SameMail DEF Leaves
  <1>3. tab'[t] = k
    BY DEF OnPage
  <1>. QED
    BY <1>1, <1>2, <1>3 DEF Stays, SamePair

LEMMA StaysHeard ==
    ASSUME NEW t \in Tabs, NEW k, OnPage(t, k), SameReplica(tab[t], k), SameCounts(tab[t], k),
           UNCHANGED <<session, nSessions, integrated>>,
           NEW r, tab[t].socket \in Sockets, OnSock(tab[t].socket, r),
           Leaves(OwnSock(t), r), Paired(k, r), k.broke \/ Every(OwnSock(t).up, r.up)
    PROVE  Stays(t)
  BY DEF Stays, Others, OnPage, OnSock

(* The socket is lost, and the page knows that it may be.                  *)
LEMMA StaysLost ==
    ASSUME Typed, Base, Channels, NEW t \in Tabs, NEW k, OnPage(t, k), SamePair(tab[t], k), k.broke,
           tab[t].socket \in Sockets, OnSock(tab[t].socket, Broken(OwnSock(t))),
           UNCHANGED <<session, nSessions, integrated>>
    PROVE  Stays(t)
  <1> DEFINE r == OwnSock(t)
             r2 == Broken(r)
  <1>1. r \in SockRec /\ ChannelOK(r)
    BY DEF OwnSock, Typed, Channels
  <1>2. /\ ChannelOK(r2) /\ NoEdits(r2.up) /\ r2.client = "broken" /\ r2.owner = r.owner
        /\ Fewer(r.up, r2.up) /\ Alike(r, r2)
    BY <1>1, BrokenPasses, BrokenIs
  <1> HIDE DEF r2
  <1>3. Leaves(r, r2)
    BY <1>2 DEF Leaves, Alike
  <1>4. Paired(k, r2)
    BY <1>2 DEF Paired
  <1>5. OnSock(tab[t].socket, r2)
    BY DEF r2
  <1>. QED
    BY <1>3, <1>4, <1>5, StaysHeard DEF SamePair

(* The frames that are no bootstrap.                                       *)
LEMMA FrameStays ==
    ASSUME NEW k \in PageRec, NEW m \in DownFrames, m.t \notin {"close", "boot"}
    PROVE  LET k2 == AfterFrame(k, m) IN
           /\ SameReplica(k, k2) /\ SameCounts(k, k2) /\ k2.pipe = k.pipe
           /\ \/ k2.prov.acked = k.prov.acked
              \/ m.t = "ack" /\ k2.prov.acked = AckedNow(k, m)
  <1> DEFINE k2 == AfterFrame(k, m)
  <1>1. m.mirror \in BOOLEAN \/ m.t # "update"
    BY DownFramesAre
  <1>2. k.prov \in ProvRec
    BY PageIs
  <1>3. CASE m.t = "update" /\ k2 = Mirrored(k, m.mirror)
    BY <1>1, <1>3, MirroredIs DEF SameReplica, SameCounts
  <1>4. CASE k2 = PauseStarted(k) /\ ~k.prov.pubPaused
    <2>1. /\ k2.gen = k.gen /\ k2.bound = k.bound /\ k2.own = k.own /\ k2.socket = k.socket
          /\ k2.pipe = k.pipe /\ k2.broke = k.broke
          /\ k2.prov = [k.prov EXCEPT !.pubPaused = TRUE, !.readySent = FALSE,
                                      !.freezing = k.prov.freezing \cup {2}]
      BY <1>4, PauseStartedIs
    <2> HIDE DEF k2
    <2>2. /\ k2.prov.role = k.prov.role /\ k2.prov.sent = k.prov.sent
          /\ k2.prov.booted = k.prov.booted /\ k2.prov.acked = k.prov.acked
      BY <1>2, <2>1 DEF ProvRec
    <2>. QED
      BY <2>1, <2>2 DEF SameReplica, SameCounts, k2
  <1>5. CASE k2 = PauseEnded(k)
    <2>1. /\ k2.gen = k.gen /\ k2.bound = k.bound /\ k2.own = k.own /\ k2.socket = k.socket
          /\ k2.pipe = k.pipe /\ k2.broke = k.broke
          /\ k2.prov = [k.prov EXCEPT !.pubPaused = FALSE, !.readySent = FALSE]
      BY <1>5, PauseEndedIs
    <2> HIDE DEF k2
    <2>2. /\ k2.prov.role = k.prov.role /\ k2.prov.sent = k.prov.sent
          /\ k2.prov.booted = k.prov.booted /\ k2.prov.acked = k.prov.acked
      BY <1>2, <2>1 DEF ProvRec
    <2>. QED
      BY <2>1, <2>2 DEF SameReplica, SameCounts, k2
  <1>6. CASE m.t = "ack" /\ k2 = AckedPage(k, m)
    <2>1. /\ k2.gen = k.gen /\ k2.bound = k.bound /\ k2.own = k.own /\ k2.socket = k.socket
          /\ k2.pipe = k.pipe /\ k2.broke = k.broke
          /\ k2.prov = [k.prov EXCEPT !.acked = AckedNow(k, m)]
      BY <1>6, AckedPageIs
    <2> HIDE DEF k2
    <2>2. /\ k2.prov.role = k.prov.role /\ k2.prov.sent = k.prov.sent
          /\ k2.prov.booted = k.prov.booted /\ k2.prov.acked = AckedNow(k, m)
      BY <1>2, <2>1 DEF ProvRec
    <2>. QED
      BY <1>6, <2>1, <2>2 DEF SameReplica, SameCounts, k2
  <1>7. CASE k2 = k
    BY <1>7 DEF SameReplica, SameCounts
  <1>. QED
    BY <1>3, <1>4, <1>5, <1>6, <1>7, AfterFrameIs

LEMMA ReceiveMoves ==
    ASSUME Typed, Base, Channels, NEW t \in Tabs, Receive(t)
    PROVE  Stays(t) \/ Boots(t)
  <1> DEFINE r == OwnSock(t)
             m == Arriving(t)
             k == AfterFrame(tab[t], m)
  <1>1. /\ tab[t].socket \in Sockets /\ r.down # <<>> /\ m \in DownFrames /\ m.t # "close"
        /\ m = r.down[1] /\ OnPage(t, k) /\ OnSock(tab[t].socket, Got(r))
    BY ReceiveDoes
  <1>2. UNCHANGED <<session, nSessions, integrated>>
    BY DEF Receive, server
  <1>3. /\ r \in SockRec /\ SocketOK(r) /\ r.client \in Held /\ tab[t] \in PageRec
        /\ tab[t].socket # 0
    BY <1>1, OwnSocketIs, SocketsAre DEF Typed
  <1>4. r.client = "open" /\ 1 \in DOMAIN r.down
    <2>1. 1 \in DOMAIN r.down
      BY <1>1, <1>3, SockRecIs, TailIs
    <2>. QED
      BY <1>1, <1>3, <2>1 DEF SocketOK, Held
  <1>5. CASE m.t = "boot"
    BY <1>1, <1>2, <1>4, <1>5 DEF Boots, Others, OnPage, OnSock
  <1>6. CASE m.t # "boot"
    <2>1. ChannelOK(r) /\ Paired(tab[t], r)
      BY <1>1, <1>3 DEF Channels, OwnSock
    <2>2. Delivers(r, Got(r))
      BY <1>1, <1>3, <2>1, SentDelivers
    <2>3. Got(r).owner = r.owner /\ Got(r).sess = r.sess /\ Got(r).received = r.received
          /\ Got(r).client = r.client
      BY <1>1, <1>3, GotIs DEF Alike
    <2>4. /\ SameReplica(tab[t], k) /\ SameCounts(tab[t], k) /\ k.pipe = tab[t].pipe
          /\ \/ k.prov.acked = tab[t].prov.acked
             \/ m.t = "ack" /\ k.prov.acked = AckedNow(tab[t], m)
      BY <1>1, <1>3, <1>6, FrameStays
    <2>5. k.prov.acked <= r.received
      <3>1. tab[t].prov.acked <= r.received
        BY <1>4, <2>1 DEF Paired, Begun
      <3>2. m.t = "ack" => m.n <= r.received
        BY <1>1, <1>4, <2>1 DEF ChannelOK, AcksUpTo
      <3> HIDE DEF m, k, r
      <3>. QED
        BY <2>4, <3>1, <3>2 DEF AckedNow
    <2> HIDE DEF m, k, r
    <2>6. Paired(tab[t], Got(r))
      BY <1>3, <2>1, <2>2 DEF Delivers, Passes
    <2>7. Paired(k, Got(r))
      BY <1>4, <2>3, <2>4, <2>5, <2>6 DEF Paired, Begun, SameReplica, SameCounts
    <2>8. Leaves(r, Got(r)) /\ Every(r.up, Got(r).up)
      BY <2>2, <2>3 DEF Leaves, Delivers, Passes
    <2>. QED
      BY <1>1, <1>2, <2>4, <2>7, <2>8, StaysHeard DEF r
  <1>. QED
    BY <1>5, <1>6

LEMMA PageMoves ==
    ASSUME Typed, Base, Channels, NEW t \in Tabs, PageStep(t)
    PROVE  Stays(t) \/ Moves(t) \/ Opens(t) \/ Boots(t) \/ Type(t)
  <1>1. UNCHANGED <<session, nSessions, integrated>> /\ ~tab[t].left
    BY DEF PageStep, OpenEditor, StopEditing, Unfocus, Opened, Type, Frame, Receive, ToldClosed,
           Reconnect, RefreshFails, HandoffDone, Sleep, Wake, Awake, server
  <1>2. /\ tab[t] \in PageRec /\ tab[t].prov \in ProvRec
        /\ tab[t].kind = "editing" => tab[t].prov.role = "editor"
        /\ tab[t].socket # 0 => tab[t].prov.retry = "none"
    BY <1>1, PageIs DEF Typed, Base, Wired, EditorsOK, Owned
  <1>3. CASE RedialStep(t) \/ LetsGoStep(t)
    BY <1>1, <1>3, RedialRewires DEF Moves
  <1>4. CASE OpenEditor(t) \/ StopEditing(t) \/ RefreshFails(t)
    BY <1>3, <1>4, OpenEditorDoes
  <1>5. CASE ToldClosed(t)
    <2>1. tab[t].socket # 0
      BY <1>5 DEF ToldClosed, Incoming
    <2>. QED
      BY <1>2, <1>3, <1>5, <2>1, ToldClosedDoes
  <1>6. CASE Reconnect(t)
    BY <1>2, <1>3, <1>6, ReconnectDoes
  <1>7. CASE Wake(t)
    BY <1>1, <1>2, <1>3, <1>7, WakeDoes, PagesStay, StaysQuiet
  <1>8. CASE HandoffDone(t)
    BY <1>1, <1>2, <1>3, <1>8, HandoffDoneDoes, PagesStay, StaysQuiet
  <1>9. CASE Unfocus(t)
    BY <1>1, <1>2, <1>9, UnfocusDoes, PagesStay, StaysQuiet
  <1>10. CASE Opened(t)
    <2>1. /\ OnPage(t, OpenedPage(tab[t])) /\ tab[t].socket \in Sockets
          /\ OnSock(tab[t].socket, Connected(OwnSock(t), tab[t].prov.role))
      BY <1>10, OpenedDoes
    <2>2. OwnSock(t).client = "opening" /\ Settled(t)
      BY <1>10 DEF Opened, OwnSock
    <2>. QED
      BY <1>1, <2>1, <2>2 DEF Opens, Others, OnPage, OnSock
  <1>11. CASE Frame(t)
    <2> DEFINE r == OwnSock(t)
               m == [t |-> "ready"]
               k == FramedPage(tab[t])
    <2>1. OnPage(t, k) /\ SamePair(tab[t], k)
      BY <1>2, <1>11, FrameDoes, PagesStay
    <2>2. CASE SaysReady(t)
      <3>1. /\ tab[t].socket \in Sockets /\ m \in UpFrames /\ m.t = "ready"
            /\ OnSock(tab[t].socket, Said(r, m)) /\ r.client = "open" /\ tab[t].socket # 0
        BY <1>11, <2>2, FrameDoes, UpFramesAre DEF SaysReady
      <3>2. r \in SockRec /\ ChannelOK(r) /\ Paired(tab[t], r)
        BY <3>1, OwnSocketIs DEF Channels, OwnSock
      <3>3. Said(r, m).owner = r.owner /\ Said(r, m).sess = r.sess /\ Said(r, m).client = r.client
            /\ Said(r, m).received = r.received
        BY <3>1, <3>2, SaidIs DEF Alike
      <3> HIDE DEF m, k
      <3>4. /\ ChannelOK(Said(r, m)) /\ Every(r.up, Said(r, m).up) /\ Fewer(r.up, Said(r, m).up)
            /\ Paired(tab[t], Said(r, m))
        BY <1>2, <3>1, <3>2, SaidPasses
      <3>5. Paired(k, Said(r, m)) /\ Leaves(r, Said(r, m))
        BY <2>1, <3>3, <3>4, SamePairs DEF Leaves
      <3>. QED
        BY <1>1, <2>1, <3>1, <3>4, <3>5, StaysHeard DEF SamePair
    <2>. QED
      BY <1>1, <1>11, <2>1, <2>2, FrameDoes, StaysQuiet
  <1>12. CASE Receive(t)
    BY <1>12, ReceiveMoves
  <1>13. CASE Sleep(t)
    <2>1. OnPage(t, Slept(tab[t])) /\ SamePair(tab[t], Slept(tab[t])) /\ Slept(tab[t]).broke
      BY <1>2, <1>13, SleepDoes, PagesStay
    <2>. QED
      BY <1>1, <1>13, <2>1, SleepDoes, StaysQuiet, StaysLost
  <1>. QED
    BY <1>4, <1>5, <1>6, <1>7, <1>8, <1>9, <1>10, <1>11, <1>12, <1>13 DEF PageStep

LEMMA DropStays ==
    ASSUME Typed, Base, Channels, NEW c \in Sockets, Drop(c)
    PROVE  Stays(sock[c].owner) /\ sock[c].owner \in Tabs
  <1> DEFINE t == sock[c].owner
  <1>1. t \in Tabs /\ tab[t] \in PageRec /\ tab[t].socket = c
    BY DEF Drop, Base, Wired, OwnerOK, Known, Typed, Held
  <1>2. /\ OnPage(t, Faulted(tab[t])) /\ OnSock(c, Broken(sock[c]))
        /\ SamePair(tab[t], Faulted(tab[t])) /\ Faulted(tab[t]).broke
    BY <1>1, DropDoes, PagesStay
  <1>3. UNCHANGED <<session, nSessions, integrated>>
    BY DEF Drop, server
  <1>. QED
    BY <1>1, <1>2, <1>3, StaysLost DEF OwnSock

-----------------------------------------------------------------------------
(* Channels is kept.                                                       *)
LEMMA ChannelsTended ==
    ASSUME Typed, Base, Channels, Tended
    PROVE  Channels'
  <1>1. \A d \in Sockets : ChannelOK(sock'[d])
    BY DEF Tended, Passes
  <1>2. ASSUME NEW t \in Tabs
        PROVE  /\ tab'[t].socket = tab[t].socket /\ tab'[t].prov.role = tab[t].prov.role
               /\ tab[t].broke => tab'[t].broke
               /\ tab'[t].bound = tab[t].bound
               /\ \A r : Paired(tab[t], r) => Paired(tab'[t], r)
    <2>1. tab'[t] = tab[t] \/ tab'[t] = Faulted(tab[t])
      BY DEF Tended
    <2>2. SamePair(tab[t], tab[t]) /\ SamePair(tab[t], Faulted(tab[t]))
      BY PagesStay DEF Typed, SamePair, SameReplica, SameCounts
    <2>3. SamePair(tab[t], tab'[t])
      BY <2>1, <2>2
    <2>. QED
      BY <2>3, SamePairs DEF SamePair, SameReplica, SameCounts
  <1>3. ASSUME NEW t \in Tabs, tab'[t].socket # 0
        PROVE  Paired(tab'[t], OwnSock(t)')
    <2>1. tab[t].socket \in Sockets /\ Paired(tab[t], OwnSock(t)) /\ tab[t] \in PageRec
      BY <1>2, <1>3, OwnSocketIs DEF Channels, Typed
    <2>2. Paired(tab[t], sock'[tab[t].socket])
      BY <2>1 DEF Tended, Passes, OwnSock
    <2>. QED
      BY <1>2, <2>2 DEF OwnSock
  <1>4. Alone'
    BY <1>2 DEF Channels, Alone
  <1>5. Numbered'
    <2>1. session' <= nSessions' /\ nSessions <= nSessions'
      BY DEF Tended, Channels, Numbered, Typed
    <2>2. \A d \in Sockets : sock'[d].sess <= nSessions'
      <3>1. \A d \in Sockets : sock'[d].sess \in {0, sock[d].sess, session'} /\ sock[d].sess <= nSessions
            /\ sock[d].sess \in Nat
        BY SockRecIs DEF Tended, Channels, Numbered, Typed
      <3>. QED
        BY <2>1, <3>1 DEF Tended, Typed
    <2>3. \A t \in Tabs : tab'[t].bound <= nSessions'
      <3>1. \A t \in Tabs : tab[t].bound \in Nat /\ tab[t].bound <= nSessions
        BY PageIs DEF Typed, Channels, Numbered
      <3>. QED
        BY <1>2, <2>1, <3>1 DEF Tended, Typed
    <2>. QED
      BY <2>1, <2>2, <2>3 DEF Numbered
  <1>. QED
    BY <1>1, <1>3, <1>4, <1>5 DEF Channels

(* A step that touches no page, or one page in its place and its socket.   *)
LEMMA ChannelsInPlace ==
    ASSUME Typed, Base, Channels, NEW t \in Tabs, UNCHANGED <<session, nSessions>>,
           \A u \in Tabs \ {t} : tab'[u] = tab[u],
           \A d \in Sockets : d # tab[t].socket => sock'[d] = sock[d],
           tab'[t].socket = tab[t].socket, tab'[t].bound <= nSessions,
           tab'[t].socket = 0 /\ tab'[t].prov.role = "editor" => tab'[t].broke,
           tab[t].socket # 0 => /\ ChannelOK(sock'[tab[t].socket])
                                /\ Paired(tab'[t], sock'[tab[t].socket])
                                /\ sock'[tab[t].socket].sess = OwnSock(t).sess
    PROVE  Channels'
  <1>1. \A d \in Sockets : ChannelOK(sock'[d]) /\ sock'[d].sess = sock[d].sess
    BY SocketsAre DEF Channels, OwnSock
  <1>2. ASSUME NEW u \in Tabs, tab'[u].socket # 0
        PROVE  Paired(tab'[u], OwnSock(u)')
    <2>1. CASE u = t
      BY <1>2, <2>1 DEF OwnSock
    <2>2. CASE u # t
      <3>1. tab'[u] = tab[u] /\ tab[u].socket \in Sockets /\ Paired(tab[u], OwnSock(u))
        BY <1>2, <2>2, OwnSocketIs DEF Channels
      <3>2. tab[u].socket # tab[t].socket
        BY <1>2, <2>2, <3>1, OwnSocketIs
      <3>. QED
        BY <3>1, <3>2 DEF OwnSock
    <2>. QED
      BY <2>1, <2>2
  <1>3. Alone' /\ Numbered'
    BY <1>1 DEF Channels, Alone, Numbered
  <1>. QED
    BY <1>1, <1>2, <1>3 DEF Channels

LEMMA ChannelsStays ==
    ASSUME Typed, Base, Channels, NEW t \in Tabs, Stays(t)
    PROVE  Channels'
  <1>1. /\ tab'[t].socket = tab[t].socket /\ tab'[t].bound = tab[t].bound
        /\ tab'[t].socket = 0 /\ tab'[t].prov.role = "editor" => tab'[t].broke
        /\ tab'[t].bound <= nSessions
    BY DEF Stays, SameReplica, SameCounts, Channels, Alone, Numbered
  <1>. QED
    BY <1>1, ChannelsInPlace DEF Stays, Others, Leaves

LEMMA ChannelsReceipt ==
    ASSUME Typed, Base, Channels, NEW c \in Sockets, ReceiptStep(c)
    PROVE  Channels'
  <1>1. sock[c] \in SockRec /\ ChannelOK(sock[c]) /\ sock[c].up # <<>> /\ sock[c].up[1].t = "edit"
    BY HandledIs DEF ReceiptStep, Typed, Channels
  <1>2. /\ ChannelOK(sock'[c]) /\ sock'[c].sess = sock[c].sess
        /\ \A k \in PageRec : Paired(k, sock[c]) => Paired(k, sock'[c])
    BY <1>1, ReceiptPasses, ReceiptIs DEF ReceiptStep
  <1>3. ASSUME NEW d \in Sockets
        PROVE  /\ ChannelOK(sock'[d]) /\ sock'[d].sess = sock[d].sess
               /\ \A k \in PageRec : Paired(k, sock[d]) => Paired(k, sock'[d])
    BY <1>2 DEF ReceiptStep, Delivers, Passes
  <1>4. UNCHANGED <<tab, session, nSessions>>
    BY DEF ReceiptStep
  <1>5. ASSUME NEW t \in Tabs, tab[t].socket # 0
        PROVE  Paired(tab[t], sock'[tab[t].socket])
    BY <1>3, <1>5, OwnSocketIs DEF Channels, Typed, OwnSock
  <1>6. Alone' /\ Numbered'
    BY <1>3, <1>4 DEF Channels, Alone, Numbered
  <1>. QED
    BY <1>3, <1>4, <1>5, <1>6 DEF Channels, OwnSock

(* A page that gives up its socket.                                        *)
LEMMA MovesIs ==
    ASSUME Typed, Base, Channels, NEW t \in Tabs, Moves(t)
    PROVE  /\ \A d \in Sockets :
                /\ ChannelOK(sock'[d]) /\ sock'[d].sess <= nSessions
                /\ Fewer(sock[d].up, sock'[d].up) /\ Every(sock[d].up, sock'[d].up)
                /\ sock'[d].owner = sock[d].owner \/ NoEdits(sock'[d].up)
                /\ sock'[d].client = "open" => sock'[d] = sock[d]
           /\ tab'[t].socket # 0 => /\ tab'[t].socket \in Sockets
                                    /\ sock'[tab'[t].socket] = Dialed(Unused, t)
           /\ \A u \in Tabs \ {t} : /\ tab'[u] = tab[u]
                                    /\ tab[u].socket # 0 => OwnSock(u)' = OwnSock(u)
  <1> DEFINE c0 == tab[t].socket
             k == tab'[t]
  <1>1. \A u \in Tabs \ {t} : tab'[u] = tab[u]
    BY DEF Moves, Rewires
  <1>2. ASSUME NEW d \in Sockets
        PROVE  \/ sock'[d] = sock[d] /\ d # c0
               \/ sock'[d] = Closed(sock[c0]) /\ d = c0
               \/ sock'[d] = Dialed(Unused, t) /\ k.socket = d
    BY DEF Moves, Rewires
  <1>3. k.socket # 0 => /\ k.socket \in Sockets /\ sock'[k.socket] = Dialed(Unused, t)
                        /\ k.socket # c0 => sock[k.socket] = Unused
                        /\ k.socket = c0 => Closed(sock[c0]) = Unused
    BY DEF Moves, Rewires
  <1> HIDE DEF c0, k
  <1>4. c0 # 0 => /\ sock[c0] \in SockRec /\ c0 \in Sockets
                  /\ sock[c0].client \in Held /\ ChannelOK(sock[c0])
    BY OwnSocketIs DEF OwnSock, c0, Channels
  <1>5. c0 # 0 => /\ ChannelOK(Closed(sock[c0])) /\ Closed(sock[c0]).client \notin Held
                  /\ Closed(sock[c0]).owner = sock[c0].owner \/ NoEdits(Closed(sock[c0]).up)
                  /\ Fewer(sock[c0].up, Closed(sock[c0]).up)
                  /\ Every(sock[c0].up, Closed(sock[c0]).up)
                  /\ Closed(sock[c0]).sess \in {0, sock[c0].sess}
    BY <1>4, ClosedPasses, ClosedIs, UnusedIs DEF Alike
  <1>6. LET n == Dialed(Unused, t) IN
        /\ ChannelOK(n) /\ NoEdits(n.up) /\ n.client = "opening" /\ n.sess = 0
        /\ Unused.up = <<>> /\ Unused.client = "free"
    BY DialedPasses, DialedIs, UnusedIs
  <1>7. NoEdits(<<>>)
    BY EmptyIs DEF NoEdits
  <1>8. ASSUME NEW d \in Sockets, sock'[d] = Dialed(Unused, t), k.socket = d
        PROVE  NoEdits(sock[d].up)
    <2>1. d # 0
      BY SocketsAre
    <2>2. CASE d # c0
      BY <1>3, <1>6, <1>7, <1>8, <2>1, <2>2
    <2>3. CASE d = c0
      <3>1. Every(sock[d].up, <<>>)
        BY <1>3, <1>5, <1>6, <1>8, <2>1, <2>3
      <3>. QED
        BY <3>1, EmptyIs DEF Every, NoEdits
    <2>. QED
      BY <2>2, <2>3
  <1>9. ASSUME NEW d \in Sockets
        PROVE  /\ ChannelOK(sock'[d]) /\ sock'[d].sess <= nSessions
               /\ Fewer(sock[d].up, sock'[d].up) /\ Every(sock[d].up, sock'[d].up)
               /\ sock'[d].owner = sock[d].owner \/ NoEdits(sock'[d].up)
               /\ sock'[d].client = "open" => sock'[d] = sock[d]
    <2>0. 0 <= nSessions /\ sock[d].sess <= nSessions /\ ChannelOK(sock[d])
      BY DEF Typed, Channels, Numbered
    <2>1. CASE sock'[d] = sock[d] /\ d # c0
      BY <2>0, <2>1, SameMail
    <2>2. CASE sock'[d] = Closed(sock[c0]) /\ d = c0
      <3>1. c0 # 0
        BY <2>2, SocketsAre
      <3>. QED
        BY <1>5, <2>0, <2>2, <3>1 DEF Held
    <2>3. CASE sock'[d] = Dialed(Unused, t) /\ k.socket = d
      BY <1>6, <1>8, <2>0, <2>3, NoMail
    <2>. QED
      BY <1>2, <2>1, <2>2, <2>3
  <1>10. ASSUME NEW u \in Tabs \ {t}, tab[u].socket # 0
         PROVE  OwnSock(u)' = OwnSock(u)
    <2>1. /\ tab'[u] = tab[u] /\ tab[u].socket \in Sockets /\ tab[u].socket # c0
          /\ sock[tab[u].socket].client \in Held
      BY <1>1, <1>10, OwnSocketIs DEF c0, OwnSock
    <2>2. sock'[tab[u].socket] = sock[tab[u].socket]
      BY <1>2, <1>3, <1>6, <2>1, SocketsAre DEF Held
    <2>. QED
      BY <2>1, <2>2 DEF OwnSock
  <1>. QED
    BY <1>1, <1>3, <1>9, <1>10 DEF k

LEMMA ChannelsMoves ==
    ASSUME Typed, Base, Channels, NEW t \in Tabs, Moves(t)
    PROVE  Channels'
  <1>1. /\ \A d \in Sockets : ChannelOK(sock'[d]) /\ sock'[d].sess <= nSessions
        /\ tab'[t].socket # 0 => /\ tab'[t].socket \in Sockets
                                 /\ sock'[tab'[t].socket] = Dialed(Unused, t)
        /\ \A u \in Tabs \ {t} : /\ tab'[u] = tab[u]
                                 /\ tab[u].socket # 0 => OwnSock(u)' = OwnSock(u)
    BY MovesIs
  <1>2. UNCHANGED <<session, nSessions>>
    BY DEF Moves
  <1>3. tab'[t].prov.role = "editor" /\ ~tab'[t].broke => tab'[t].socket # 0 /\ tab'[t].pipe # "live"
    BY DEF Moves, Rewires, Channels, Alone
  <1>4. tab'[t].bound <= nSessions
    BY DEF Moves, Rewires, SameDoc, FreshDoc, Channels, Numbered, Typed
  <1>5. tab'[t].socket # 0 => Paired(tab'[t], OwnSock(t)')
    BY <1>1, <1>3, DialedPasses DEF OwnSock
  <1>6. \A u \in Tabs : tab'[u].socket # 0 => Paired(tab'[u], OwnSock(u)')
    BY <1>1, <1>5 DEF Channels
  <1>7. Alone'
    BY <1>1, <1>3 DEF Channels, Alone
  <1>8. Numbered'
    BY <1>1, <1>2, <1>4 DEF Channels, Numbered
  <1>. QED
    BY <1>1, <1>6, <1>7, <1>8 DEF Channels

(* The page's socket opens.                                                *)
LEMMA OpensIs ==
    ASSUME Typed, Base, NEW t \in Tabs, Opens(t)
    PROVE  LET r == OwnSock(t)
               k2 == tab'[t]
               r2 == sock'[tab[t].socket] IN
           /\ ChannelOK(r2) /\ NoEdits(r2.up) /\ NoEdits(r.up) /\ Paired(k2, r2)
           /\ r2.owner = r.owner /\ r2.owner = t /\ r2.sess = r.sess
           /\ SameReplica(tab[t], k2) /\ k2.broke = tab[t].broke /\ k2.socket = tab[t].socket
           /\ k2.socket # 0 /\ ~k2.prov.booted
  <1> DEFINE r == OwnSock(t)
             k == tab[t]
             k2 == OpenedPage(k)
             r2 == Connected(r, k2.prov.role)
  <1>1. /\ tab[t].socket \in Sockets /\ tab[t].socket # 0 /\ r.client = "opening"
        /\ r \in SockRec /\ SocketOK(r) /\ r.owner = t /\ k \in PageRec /\ k.prov \in ProvRec
    BY OwnSocketIs, SocketsAre, PageIs DEF Opens, Typed
  <1>2. /\ ~k2.prov.booted /\ k2.prov.sent = 0 /\ k2.prov.acked = 0 /\ k2.prov.role = k.prov.role
        /\ SameReplica(k, k2) /\ k2.broke = k.broke /\ k2.socket = k.socket
    BY <1>1 DEF OpenedPage, PageRec, ProvRec, SameReplica
  <1>3. k2 \in PageRec /\ tab'[t] = k2 /\ sock'[tab[t].socket] = r2
    BY <1>2 DEF Opens, OnPage
  <1> HIDE DEF k2, k
  <1>4. ChannelOK(r2) /\ NoEdits(r2.up) /\ Paired(k2, r2) /\ r2.owner = r.owner
    BY <1>1, <1>2, <1>3, ConnectedPasses
  <1>5. NoEdits(r.up)
    BY <1>1, EmptyIs DEF SocketOK, NoEdits
  <1>6. r2.sess = r.sess
    <2>1. k2.prov.role \in {"editor", "observer", "none"}
      BY <1>3, PageIs
    <2>. QED
      BY <1>1, <2>1, ConnectedIs
  <1>. QED
    BY <1>1, <1>2, <1>3, <1>4, <1>5, <1>6 DEF k

LEMMA ChannelsOpens ==
    ASSUME Typed, Base, Channels, NEW t \in Tabs, Opens(t)
    PROVE  Channels'
  <1>1. /\ ChannelOK(sock'[tab[t].socket]) /\ Paired(tab'[t], sock'[tab[t].socket])
        /\ sock'[tab[t].socket].sess = OwnSock(t).sess
        /\ tab'[t].bound = tab[t].bound /\ tab'[t].socket = tab[t].socket /\ tab[t].socket # 0
    BY OpensIs DEF SameReplica
  <1>2. tab'[t].bound <= nSessions
    BY <1>1 DEF Channels, Numbered
  <1>. QED
    BY <1>1, <1>2, ChannelsInPlace DEF Opens, Others

(* The page takes a bootstrap.                                             *)
LEMMA BootsIs ==
    ASSUME Typed, Base, Channels, NEW t \in Tabs, Boots(t)
    PROVE  LET r == OwnSock(t)
               k == tab[t]
               k2 == tab'[t]
               r2 == sock'[tab[t].socket] IN
           /\ r \in SockRec /\ r.client = "open" /\ Delivers(r, r2) /\ r2.owner = r.owner
           /\ r2.sess = r.sess /\ r2.received = r.received /\ r2.client = "open" /\ r2.up = r.up
           /\ r.owner = t /\ k2.socket = k.socket /\ k.socket # 0
           /\ k2.bound = r.sess /\ k2.prov.booted /\ k2.pipe = k.pipe
           /\ k2.prov.role = k.prov.role /\ k2.prov.sent = k.prov.sent
           /\ k2.prov.acked = k.prov.acked
           /\ \/ SameReplica(k, k2) /\ k2.broke = k.broke
              \/ k.bound = 0 /\ k2.gen = k.gen /\ k2.own = k.own /\ k2.broke = k.broke
              \/ k2.gen = k.gen + 1 /\ k2.own = 0 /\ ~k2.broke
           /\ k.prov.booted => SameReplica(k, k2) /\ k2.broke = k.broke
  <1> DEFINE r == OwnSock(t)
             k == tab[t]
             m == Arriving(t)
             f == ReplicaFor(k, m)
             k2 == tab'[t]
             r2 == sock'[tab[t].socket]
  <1>1. /\ k.socket \in Sockets /\ k.socket # 0 /\ r.client = "open" /\ r \in SockRec
        /\ SocketOK(r) /\ r.owner = t /\ Link(k, r) /\ ChannelOK(r)
        /\ k \in PageRec /\ k.prov \in ProvRec
    BY OwnSocketIs, SocketsAre, PageIs DEF Boots, Typed, Channels, OwnSock
  <1>2. m \in DownFrames /\ m.t = "boot" /\ m = r.down[1] /\ r.down # <<>> /\ r2 = Got(r)
    BY DEF Boots
  <1>3. m.s = r.sess /\ r.joined
    <2>1. 1 \in DOMAIN r.down
      BY <1>1, <1>2, SockRecIs, TailIs
    <2>. QED
      BY <1>1, <1>2, <2>1 DEF SocketOK
  <1>4. /\ k2 = BootedPage(f, m) /\ f \in PageRec
    BY <1>1, <1>2, BootFrameIs DEF Boots, OnPage
  <1>5. /\ k2.bound = m.s /\ k2.gen = f.gen /\ k2.own = f.own /\ k2.broke = f.broke
        /\ k2.pipe = f.pipe /\ k2.prov = [f.prov EXCEPT !.booted = TRUE] /\ k2.socket = f.socket
    BY <1>2, <1>4, BootedPageIs
  <1>6. /\ f.prov = k.prov /\ f.socket = k.socket /\ f.pipe = k.pipe
        /\ k.bound \in {0, m.s} => f = k
        /\ k.bound \notin {0, m.s} => FreshDoc(k, f)
    BY <1>1, ReplicaForIs
  <1>7. /\ Delivers(r, r2) /\ r2.owner = r.owner /\ r2.sess = r.sess /\ r2.received = r.received
        /\ r2.client = "open" /\ r2.up = r.up
    BY <1>1, <1>2, SentDelivers, GotIs DEF Alike
  <1> HIDE DEF r, k, m, f, k2, r2
  <1>8. /\ k2.prov.booted /\ k2.prov.role = k.prov.role /\ k2.prov.sent = k.prov.sent
        /\ k2.prov.acked = k.prov.acked
    BY <1>1, <1>5, <1>6 DEF ProvRec
  <1>9. /\ \/ SameReplica(k, k2) /\ k2.broke = k.broke
           \/ k.bound = 0 /\ k2.gen = k.gen /\ k2.own = k.own /\ k2.broke = k.broke
           \/ k2.gen = k.gen + 1 /\ k2.own = 0 /\ ~k2.broke
        /\ k.bound = m.s => SameReplica(k, k2) /\ k2.broke = k.broke
    BY <1>5, <1>6 DEF SameReplica, FreshDoc
  <1>10. k.prov.booted => k.bound = m.s
    BY <1>1, <1>3 DEF Link, Told
  <1>. QED
    BY <1>1, <1>3, <1>5, <1>6, <1>7, <1>8, <1>9, <1>10 DEF r, k, k2, r2

LEMMA ChannelsBoots ==
    ASSUME Typed, Base, Channels, NEW t \in Tabs, Boots(t)
    PROVE  Channels'
  <1> DEFINE r == OwnSock(t)
             k == tab[t]
             k2 == tab'[t]
             r2 == sock'[tab[t].socket]
  <1>1. /\ r.client = "open" /\ Delivers(r, r2)
        /\ r2.sess = r.sess /\ r2.received = r.received /\ r2.client = "open" /\ r2.up = r.up
        /\ k2.socket = k.socket /\ k.socket # 0
        /\ k2.bound = r.sess /\ k2.prov.booted
        /\ k2.prov.role = k.prov.role /\ k2.prov.acked = k.prov.acked
        /\ k2.gen = k.gen \/ ~k.prov.booted
    BY BootsIs DEF SameReplica
  <1>2. k \in PageRec /\ Paired(k, r) /\ r.sess <= nSessions
    BY <1>1, OwnSocketIs DEF Typed, Channels, Numbered, OwnSock
  <1> HIDE DEF r, k, k2, r2
  <1>3. ChannelOK(r2) /\ Paired(k, r2)
    BY <1>1, <1>2 DEF Delivers, Passes
  <1>4. Begun(k, r2)
    BY <1>1, <1>3 DEF Paired
  <1>5. Begun(k2, r2)
    BY <1>1, <1>4 DEF Begun, NoEdits
  <1>6. Paired(k2, r2)
    BY <1>1, <1>5 DEF Paired
  <1>. QED
    BY <1>1, <1>2, <1>3, <1>6, ChannelsInPlace DEF Boots, Others, r, k, k2, r2

(* A key is typed.  What the page shows as editable goes to a socket that  *)
(* is an editor's, or the page knows that it has lost frames.              *)
LEMMA TypedPageIs ==
    ASSUME NEW k \in PageRec
    PROVE  LET k2 == TypedPage(k) IN
           /\ k2.gen = k.gen /\ k2.bound = k.bound /\ k2.own = k.own + 1 /\ k2.broke = k.broke
           /\ k2.socket = k.socket /\ k2.pipe = k.pipe /\ k2.prov.role = k.prov.role
           /\ k2.prov.booted = k.prov.booted /\ k2.prov.acked = k.prov.acked
           /\ k2.prov.sent = SentNow(k)
  <1>1. k.prov \in ProvRec
    BY PageIs
  <1>2. SentNow(k) \in Nat
    BY <1>1 DEF SentNow, ProvRec
  <1>. QED
    BY <1>1, <1>2 DEF TypedPage, PageRec, ProvRec

LEMMA TypeIs ==
    ASSUME "early" \notin Env, Typed, Base, Channels, NEW t \in Tabs, Type(t)
    PROVE  /\ Others(t) /\ OnPage(t, TypedPage(tab[t])) /\ EditOf(t) \in UpFrames
           /\ tab[t].bound # 0 /\ tab[t].prov.booted /\ tab[t].prov.role = "editor"
           /\ \/ UNCHANGED sock /\ tab[t].broke
              \/ /\ tab[t].socket \in Sockets /\ OwnSock(t).client = "open"
                 /\ OwnSock(t).role = "editor"
                 /\ OnSock(tab[t].socket, Said(OwnSock(t), EditOf(t)))
  <1> DEFINE k == tab[t]
             r == OwnSock(t)
  <1>1. k.kind = "editing" /\ k.pipe = "live" /\ k.bound # 0 /\ ~k.left /\ k.prov.booted
    BY DEF Type, Bound
  <1>2. k.prov.role = "editor"
    BY <1>1 DEF Base, Wired, EditorsOK
  <1>3. OnPage(t, TypedPage(k)) /\ EditOf(t) \in UpFrames
    BY TypeDoes
  <1>4. UNCHANGED <<session, nSessions, integrated>>
    BY DEF Type, server
  <1>5. CASE Sends(t)
    <2>1. k.socket \in Sockets /\ OnSock(k.socket, Said(r, EditOf(t))) /\ k.socket # 0
          /\ r.client = "open"
      BY <1>5, TypeDoes DEF Sends
    <2>2. r.role = "editor"
      <3>1. Link(k, r) /\ Paired(k, r)
        BY <2>1, OwnSocketIs DEF Channels
      <3>. QED
        BY <1>1, <1>2, <2>1, <3>1 DEF Link, Told, Paired, Begun
    <2>3. Others(t)
      BY <1>3, <1>4, <2>1 DEF Others, OnPage, OnSock
    <2>. QED
      BY <1>1, <1>2, <1>3, <2>1, <2>2, <2>3
  <1>6. CASE ~Sends(t)
    <2>1. UNCHANGED sock
      BY <1>6, TypeDoes
    <2>2. k.broke
      <3>1. CASE k.socket = 0
        BY <1>2, <3>1 DEF Channels, Alone
      <3>2. CASE k.socket # 0
        <4>1. r.client \in Held /\ Paired(k, r)
          BY <3>2, OwnSocketIs DEF Channels
        <4>2. r.client # "open"
          BY <1>2, <1>6, <3>2 DEF Sends
        <4>. QED
          BY <1>1, <1>2, <4>1, <4>2 DEF Held, Paired
      <3>. QED
        BY <3>1, <3>2
    <2>3. Others(t)
      BY <1>3, <1>4, <2>1 DEF Others, OnPage
    <2>. QED
      BY <1>1, <1>2, <1>3, <2>1, <2>2, <2>3
  <1>. QED
    BY <1>5, <1>6

LEMMA ChannelsTypes ==
    ASSUME "early" \notin Env, Typed, Base, Channels, NEW t \in Tabs, Type(t)
    PROVE  Channels'
  <1> DEFINE k == tab[t]
             k2 == TypedPage(k)
             r == OwnSock(t)
             m == EditOf(t)
  <1>1. /\ Others(t) /\ OnPage(t, k2) /\ m \in UpFrames /\ k.prov.booted
        /\ \/ UNCHANGED sock /\ k.broke
           \/ /\ k.socket \in Sockets /\ r.client = "open" /\ r.role = "editor"
              /\ OnSock(k.socket, Said(r, m))
    BY TypeIs
  <1>2. /\ k2.gen = k.gen /\ k2.bound = k.bound /\ k2.broke = k.broke
        /\ k2.socket = k.socket /\ k2.pipe = k.pipe /\ k2.prov.role = k.prov.role
        /\ k2.prov.booted = k.prov.booted /\ k2.prov.acked = k.prov.acked /\ k \in PageRec
    BY TypedPageIs DEF Typed
  <1>3. /\ tab'[t].bound <= nSessions
        /\ tab'[t].socket = 0 /\ tab'[t].prov.role = "editor" => tab'[t].broke
        /\ tab'[t].socket = tab[t].socket
    BY <1>1, <1>2 DEF Channels, Numbered, Alone, OnPage
  <1>4. m.t = "edit" /\ m.gen = k.gen
    BY DEF EditOf
  <1>5. k.socket # 0 => /\ k.socket \in Sockets /\ ChannelOK(r) /\ Paired(k, r) /\ r \in SockRec
    BY OwnSocketIs DEF Channels, OwnSock
  <1>6. ASSUME NEW q, Paired(k, q) PROVE Paired(k2, q)
    BY <1>1, <1>2, <1>6 DEF Paired, Begun
  <1>7. k.socket # 0 => /\ ChannelOK(sock'[k.socket]) /\ Paired(k2, sock'[k.socket])
                        /\ sock'[k.socket].sess = r.sess
    <2> SUFFICES ASSUME k.socket # 0
                 PROVE  /\ ChannelOK(sock'[k.socket]) /\ Paired(k2, sock'[k.socket])
                        /\ sock'[k.socket].sess = r.sess
      OBVIOUS
    <2>1. CASE UNCHANGED sock
      BY <1>5, <1>6, <2>1 DEF OwnSock
    <2>2. CASE /\ k.socket \in Sockets /\ r.client = "open" /\ r.role = "editor"
               /\ OnSock(k.socket, Said(r, m))
      <3> HIDE DEF k, k2, r, m
      <3>1. ChannelOK(Said(r, m)) /\ Paired(k, Said(r, m))
        BY <1>1, <1>2, <1>4, <1>5, <2>2, SaidPasses
      <3>2. Said(r, m).sess = r.sess
        BY <1>1, <1>5, <2>2, SaidIs DEF Alike
      <3>3. sock'[k.socket] = Said(r, m)
        BY <2>2 DEF OnSock
      <3>. QED
        BY <1>6, <3>1, <3>2, <3>3
    <2>. QED
      BY <1>1, <2>1, <2>2
  <1>8. tab'[t] = k2
    BY <1>1 DEF OnPage
  <1> HIDE DEF k2
  <1>. QED
    BY <1>1, <1>3, <1>7, <1>8, ChannelsInPlace DEF Others

-----------------------------------------------------------------------------
(* The edits on their way.  Every one is of its owner's replica, now or    *)
(* before; a channel has them in order, and of a page's sockets one has    *)
(* them all.  For a page that has lost no frame of the session there is,   *)
(* what the server has not integrated of the replica is on its way, and    *)
(* nothing that it has.                                                    *)
EditOK(m, t, k) ==
  /\ m.tab = t /\ m.n > 0
  /\ m.gen < k.gen \/ (m.gen = k.gen /\ k.bound # 0 /\ m.s = k.bound /\ m.n <= k.own)
MailOK(r) ==
  /\ \A i \in DOMAIN r.up : r.up[i].t = "edit" => EditOK(r.up[i], r.owner, tab[r.owner])
  /\ Sorted(r.up)
Single ==
  \A c \in Sockets : \A d \in Sockets \ {c} : sock[c].owner = sock[d].owner =>
     /\ NoEdits(sock[c].up) \/ NoEdits(sock[d].up)
     /\ sock[c].client = "open" => NoEdits(sock[d].up)
DocOK(k, v) ==
  /\ k.gen > 0 /\ (k.bound = 0 => k.own = 0)
  /\ v.gen < k.gen \/ (v.gen = k.gen /\ k.bound # 0 /\ v.n <= k.own)
Have(k, v) == IF v.gen = k.gen THEN v.n ELSE 0
CarriedOn(q, g, n) == \E i \in DOMAIN q : q[i].t = "edit" /\ q[i].gen = g /\ q[i].n = n
Carried(ss, t, g, n) == \E c \in Sockets : ss[c].owner = t /\ CarriedOn(ss[c].up, g, n)
InStep(k, s) == ~k.broke /\ s # 0 /\ k.bound = s
Flowing(ss, t, g, have, own) ==
  /\ \A n \in Nat : Carried(ss, t, g, n) => n > have
  /\ \A n \in Nat : have < n /\ n <= own => Carried(ss, t, g, n)
Flow(t) ==
  InStep(tab[t], session) =>
    Flowing(sock, t, tab[t].gen, Have(tab[t], integrated[t]), tab[t].own)
Mail ==
  /\ \A c \in Sockets : MailOK(sock[c])
  /\ Single /\ \A t \in Tabs : DocOK(tab[t], integrated[t]) /\ Flow(t)

(* What a step does with a replica, and with the edits of it.              *)
Emptied(k, k2) ==
  k2.own = 0 /\ (k2.gen = k.gen + 1 \/ (k2.gen = k.gen /\ k.bound = 0))
KeepsGen(q, q2, g) ==
  \A i \in DOMAIN q : q[i].t = "edit" /\ q[i].gen = g => \E j \in DOMAIN q2 : q2[j] = q[i]
StaysInStep(t) ==
  InStep(tab'[t], session') =>
    /\ InStep(tab[t], session)
    /\ \A d \in Sockets : sock[d].owner = t => KeepsGen(sock[d].up, sock'[d].up, tab[t].gen)
Treated(t) ==
  \/ SameReplica(tab[t], tab'[t]) /\ integrated'[t] = integrated[t] /\ StaysInStep(t)
  \/ SameReplica(tab[t], tab'[t]) /\ integrated'[t] = Nothing /\ ~InStep(tab'[t], session')
  \/ Emptied(tab[t], tab'[t]) /\ integrated'[t] = integrated[t]
Passed(d) ==
  /\ Fewer(sock[d].up, sock'[d].up)
  /\ sock'[d].owner = sock[d].owner \/ NoEdits(sock'[d].up)
  /\ sock'[d].client = "open" =>
       \/ sock[d].client = "open" /\ sock'[d].owner = sock[d].owner
       \/ \A e \in Sockets \ {d} : sock'[e].owner = sock'[d].owner => NoEdits(sock'[e].up)
Treats == (\A d \in Sockets : Passed(d)) /\ \A t \in Tabs : Treated(t)

LEMMA EditIs ==
    ASSUME Typed, NEW c \in Sockets, NEW i \in DOMAIN sock[c].up, sock[c].up[i].t = "edit"
    PROVE  /\ sock[c].up[i].tab \in Tabs /\ sock[c].up[i].gen \in Nat
           /\ sock[c].up[i].n \in Nat /\ sock[c].up[i].s \in Nat
  <1>1. sock[c].up \in Seq(UpFrames)
    BY SockRecIs DEF Typed
  <1>2. sock[c].up[i] \in UpFrames
    BY <1>1
  <1>. QED
    BY <1>2, UpFramesAre, EditFramesAre

LEMMA TabIs ==
    ASSUME Typed, NEW t \in Tabs
    PROVE  /\ tab[t] \in PageRec /\ tab[t].gen \in Nat /\ tab[t].own \in Nat /\ tab[t].bound \in Nat
           /\ integrated[t].gen \in Nat /\ integrated[t].n \in Nat
           /\ tab[t].prov.sent \in Nat /\ tab[t].prov.acked \in Nat
           /\ tab[t].broke \in BOOLEAN
           /\ Have(tab[t], integrated[t]) \in Nat
  <1>1. tab[t] \in PageRec /\ integrated[t] \in [gen : Nat, n : Nat]
    BY DEF Typed
  <1>2. tab[t].prov \in ProvRec
    BY <1>1, PageIs
  <1>. QED
    BY <1>1, <1>2 DEF PageRec, ProvRec, Have

(* What is left on the sockets is of the replicas as they are.             *)
LEMMA TreatedMail ==
    ASSUME Typed, Mail, NEW c \in Sockets, Passed(c),
           \A t \in Tabs : SameReplica(tab[t], tab'[t]) \/ Emptied(tab[t], tab'[t])
    PROVE  MailOK(sock[c])'
  <1>1. Passed(c) /\ MailOK(sock[c])
    BY DEF Mail
  <1>2. Sorted(sock'[c].up)
    BY <1>1 DEF Passed, Fewer, MailOK
  <1>3. ASSUME NEW j \in DOMAIN sock'[c].up, sock'[c].up[j].t = "edit"
        PROVE  EditOK(sock'[c].up[j], sock'[c].owner, tab'[sock'[c].owner])
    <2> DEFINE t == sock[c].owner
    <2>1. PICK i \in DOMAIN sock[c].up : sock[c].up[i] = sock'[c].up[j]
      BY <1>1, <1>3 DEF Passed, Fewer
    <2> DEFINE m == sock[c].up[i]
    <2>2. m.t = "edit" /\ EditOK(m, t, tab[t]) /\ sock'[c].owner = t
      BY <1>1, <1>3, <2>1 DEF Passed, MailOK, NoEdits
    <2>3. m.tab \in Tabs /\ m.gen \in Nat /\ m.n \in Nat /\ t \in Tabs
      BY <2>2, EditIs DEF EditOK
    <2>4. (SameReplica(tab[t], tab'[t]) \/ Emptied(tab[t], tab'[t])) /\ tab[t].gen \in Nat
      BY <2>3, TabIs
    <2> HIDE DEF m, t
    <2>5. EditOK(m, t, tab'[t])
      BY <2>2, <2>3, <2>4 DEF EditOK, SameReplica, Emptied
    <2>. QED
      BY <2>1, <2>2, <2>5 DEF m
  <1>. QED
    BY <1>2, <1>3 DEF MailOK

LEMMA TreatedSingle ==
    ASSUME Mail, \A d \in Sockets : Passed(d)
    PROVE  Single'
  <1>1. ASSUME NEW d \in Sockets, NoEdits(sock[d].up)
        PROVE  NoEdits(sock'[d].up)
    BY <1>1 DEF Passed, Fewer, NoEdits
  <1>2. ASSUME NEW d \in Sockets, ~NoEdits(sock'[d].up)
        PROVE  sock'[d].owner = sock[d].owner
    BY <1>2 DEF Passed
  <1>3. ASSUME NEW c \in Sockets, NEW d \in Sockets \ {c}, sock'[c].owner = sock'[d].owner
        PROVE  /\ NoEdits(sock'[c].up) \/ NoEdits(sock'[d].up)
               /\ sock'[c].client = "open" => NoEdits(sock'[d].up)
    <2>1. NoEdits(sock'[c].up) \/ NoEdits(sock'[d].up)
      BY <1>1, <1>2, <1>3 DEF Mail, Single
    <2>2. sock'[c].client = "open" => NoEdits(sock'[d].up)
      <3>1. Passed(c)
        OBVIOUS
      <3>. QED
        BY <1>1, <1>2, <1>3, <3>1 DEF Mail, Single, Passed
    <2>. QED
      BY <2>1, <2>2
  <1>. QED
    BY <1>3 DEF Single

LEMMA TreatedDoc ==
    ASSUME Typed, Mail, NEW t \in Tabs, Treated(t)
    PROVE  DocOK(tab'[t], integrated'[t])
  <1>1. /\ DocOK(tab[t], integrated[t]) /\ Treated(t)
        /\ tab[t].gen \in Nat /\ tab[t].own \in Nat /\ integrated[t].gen \in Nat
    BY TabIs DEF Mail
  <1>2. Nothing.gen = 0
    BY DEF Nothing
  <1>. QED
    BY <1>1, <1>2 DEF Treated, DocOK, SameReplica, Emptied

(* The edits on their way to the server stay the same ones.                *)
LEMMA CarriedStays ==
    ASSUME \A d \in Sockets : Passed(d), NEW t \in Tabs, NEW g, NEW n
    PROVE  /\ Carried(sock', t, g, n) => Carried(sock, t, g, n)
           /\ (\A d \in Sockets : sock[d].owner = t => KeepsGen(sock[d].up, sock'[d].up, g))
                /\ Carried(sock, t, g, n) => Carried(sock', t, g, n)
  <1>1. ASSUME Carried(sock', t, g, n)
        PROVE  Carried(sock, t, g, n)
    <2>1. PICK c \in Sockets : sock'[c].owner = t /\ CarriedOn(sock'[c].up, g, n)
      BY <1>1 DEF Carried
    <2>2. Passed(c) /\ ~NoEdits(sock'[c].up)
      BY <2>1 DEF CarriedOn, NoEdits
    <2>3. CarriedOn(sock[c].up, g, n) /\ sock[c].owner = t
      BY <2>1, <2>2 DEF Passed, Fewer, CarriedOn
    <2>. QED
      BY <2>3 DEF Carried
  <1>2. ASSUME \A d \in Sockets : sock[d].owner = t => KeepsGen(sock[d].up, sock'[d].up, g),
               Carried(sock, t, g, n)
        PROVE  Carried(sock', t, g, n)
    <2>1. PICK c \in Sockets : sock[c].owner = t /\ CarriedOn(sock[c].up, g, n)
      BY <1>2 DEF Carried
    <2>2. CarriedOn(sock'[c].up, g, n)
      BY <1>2, <2>1 DEF KeepsGen, CarriedOn
    <2>3. Passed(c) /\ ~NoEdits(sock'[c].up)
      BY <2>2 DEF CarriedOn, NoEdits
    <2>4. sock'[c].owner = t
      BY <2>1, <2>3 DEF Passed
    <2>. QED
      BY <2>2, <2>4 DEF Carried
  <1>. QED
    BY <1>1, <1>2

(* No edit is of a replica that is not there yet.                          *)
LEMMA CarriedIs ==
    ASSUME Typed, Mail, NEW t \in Tabs, NEW g, NEW n \in Nat, Carried(sock, t, g, n)
    PROVE  n > 0 /\ g \in Nat /\ (g < tab[t].gen \/ (g = tab[t].gen /\ tab[t].bound # 0 /\ n <= tab[t].own))
  <1>1. PICK c \in Sockets : sock[c].owner = t /\ CarriedOn(sock[c].up, g, n)
    BY DEF Carried
  <1>2. PICK i \in DOMAIN sock[c].up :
          sock[c].up[i].t = "edit" /\ sock[c].up[i].gen = g /\ sock[c].up[i].n = n
    BY <1>1 DEF CarriedOn
  <1>3. EditOK(sock[c].up[i], t, tab[t]) /\ g \in Nat
    BY <1>1, <1>2, EditIs DEF Mail, MailOK
  <1>. QED
    BY <1>2, <1>3 DEF EditOK

LEMMA TreatedFlow ==
    ASSUME Typed, Mail, \A d \in Sockets : Passed(d), NEW t \in Tabs, Treated(t)
    PROVE  Flow(t)'
  <1> DEFINE k2 == tab'[t]
             v2 == integrated'[t]
  <1> SUFFICES ASSUME InStep(k2, session')
               PROVE  Flowing(sock', t, k2.gen, Have(k2, v2), k2.own)
    BY DEF Flow
  <1>1. /\ DocOK(tab[t], integrated[t]) /\ Flow(t) /\ Treated(t)
        /\ tab[t].gen \in Nat /\ tab[t].own \in Nat
        /\ integrated[t].gen \in Nat /\ integrated[t].n \in Nat
    BY TabIs DEF Mail
  <1> HIDE DEF k2, v2
  <1>2. CASE SameReplica(tab[t], k2) /\ v2 = integrated[t] /\ StaysInStep(t)
    <2> DEFINE have == Have(tab[t], integrated[t])
    <2>1. /\ Flowing(sock, t, tab[t].gen, have, tab[t].own)
          /\ \A d \in Sockets : sock[d].owner = t => KeepsGen(sock[d].up, sock'[d].up, tab[t].gen)
      BY <1>1, <1>2 DEF StaysInStep, Flow, k2
    <2>2. \A n \in Nat : Carried(sock', t, tab[t].gen, n) <=> Carried(sock, t, tab[t].gen, n)
      BY <2>1, CarriedStays
    <2>3. Flowing(sock', t, tab[t].gen, have, tab[t].own)
      BY <2>1, <2>2 DEF Flowing
    <2>4. Have(k2, v2) = have /\ k2.gen = tab[t].gen /\ k2.own = tab[t].own
      BY <1>2 DEF Have, SameReplica
    <2>. QED
      BY <2>3, <2>4
  <1>3. CASE Emptied(tab[t], k2) /\ v2 = integrated[t]
    <2>1. v2.gen # k2.gen /\ k2.own = 0
      BY <1>1, <1>3 DEF Emptied, DocOK
    <2>2. Have(k2, v2) = 0
      BY <2>1 DEF Have
    <2>3. ASSUME NEW n \in Nat PROVE ~Carried(sock', t, k2.gen, n)
      <3>1. ~Carried(sock, t, k2.gen, n)
        BY <1>1, <1>3, CarriedIs DEF Emptied
      <3>. QED
        BY <3>1, CarriedStays
    <2>. QED
      BY <2>1, <2>2, <2>3 DEF Flowing
  <1>. QED
    BY <1>1, <1>2, <1>3 DEF Treated, k2, v2

LEMMA TreatedKeeps ==
    ASSUME Typed, Mail, Treats
    PROVE  Mail'
  <1>1. /\ \A d \in Sockets : Passed(d)
        /\ \A t \in Tabs : Treated(t) /\ (SameReplica(tab[t], tab'[t]) \/ Emptied(tab[t], tab'[t]))
    BY DEF Treats, Treated
  <1>2. \A c \in Sockets : MailOK(sock[c])'
    BY <1>1, TreatedMail
  <1>3. Single'
    BY <1>1, TreatedSingle
  <1>4. \A t \in Tabs : DocOK(tab'[t], integrated'[t]) /\ Flow(t)'
    BY <1>1, TreatedDoc, TreatedFlow
  <1>. QED
    BY <1>2, <1>3, <1>4 DEF Mail

-----------------------------------------------------------------------------
(* Steps that treat the mail so.                                           *)
LEMMA TendedTreats ==
    ASSUME Typed, Base, Channels, Mail, Tended
    PROVE  Treats
  <1>1. ASSUME NEW d \in Sockets PROVE Passed(d)
    BY DEF Tended, Passes, Passed
  <1>2. ASSUME NEW t \in Tabs PROVE Treated(t)
    <2>1. SameReplica(tab[t], tab'[t]) /\ (tab[t].broke => tab'[t].broke)
      <3>1. SamePair(tab[t], tab[t]) /\ SamePair(tab[t], Faulted(tab[t]))
        BY PagesStay DEF Typed, SamePair, SameReplica, SameCounts
      <3>. QED
        BY <3>1 DEF Tended, SamePair, SameCounts
    <2>2. tab[t].bound <= nSessions /\ nSessions \in Nat /\ tab[t].bound \in Nat
      BY TabIs DEF Typed, Channels, Numbered
    <2>3. CASE session' \in {0, session} /\ UNCHANGED <<nSessions, integrated>>
      <3> SUFFICES ASSUME InStep(tab'[t], session')
                   PROVE  /\ InStep(tab[t], session)
                          /\ \A d \in Sockets : sock[d].owner = t =>
                               KeepsGen(sock[d].up, sock'[d].up, tab[t].gen)
        BY <2>1, <2>3 DEF Treated, StaysInStep
      <3>1. session' = session /\ session # 0 /\ InStep(tab[t], session) /\ tab[t].bound = session
            /\ ~tab'[t].broke
        BY <2>1, <2>3 DEF InStep, SameReplica
      <3>2. ASSUME NEW d \in Sockets, sock[d].owner = t,
                   NEW i \in DOMAIN sock[d].up, sock[d].up[i].t = "edit",
                   sock[d].up[i].gen = tab[t].gen
            PROVE  \E j \in DOMAIN sock'[d].up : sock'[d].up[j] = sock[d].up[i]
        <4>1. KeepsNow(sock[d].up, sock'[d].up, session)
          BY <3>1, <3>2 DEF Tended, Kept
        <4>2. EditOK(sock[d].up[i], t, tab[t]) /\ tab[t].gen \in Nat
          BY <3>2, TabIs DEF Mail, MailOK
        <4>3. sock[d].up[i].s = session
          BY <3>1, <3>2, <4>2 DEF EditOK
        <4>. QED
          BY <3>2, <4>1, <4>3 DEF KeepsNow
      <3>. QED
        BY <3>1, <3>2 DEF KeepsGen
    <2>4. CASE session' = nSessions + 1 /\ integrated' = [u \in Tabs |-> Nothing]
      BY <2>1, <2>2, <2>4 DEF Treated, InStep, SameReplica
    <2>. QED
      BY <2>3, <2>4 DEF Tended
  <1>. QED
    BY <1>1, <1>2 DEF Treats

(* A step of one page: the replicas of the others stay as they are.        *)
LEMMA OthersTreated ==
    ASSUME Typed, Base, NEW t \in Tabs, UNCHANGED <<session, integrated>>,
           \A d \in Sockets : Every(sock[d].up, sock'[d].up) \/ sock[d].owner = t,
           NEW u \in Tabs \ {t}, tab'[u] = tab[u]
    PROVE  Treated(u)
  BY DEF Treated, SameReplica, StaysInStep, KeepsGen, Every

LEMMA StaysTreats ==
    ASSUME Typed, Base, Channels, NEW t \in Tabs, Stays(t)
    PROVE  Treats
  <1> DEFINE c0 == tab[t].socket
  <1>1. c0 # 0 => c0 \in Sockets /\ OwnSock(t).owner = t
    BY OwnSocketIs
  <1>2. ASSUME NEW d \in Sockets
        PROVE  Passed(d) /\ (Every(sock[d].up, sock'[d].up) \/ (sock[d].owner = t /\ tab'[t].broke))
    <2>1. CASE d = c0
      <3>1. d # 0
        BY SocketsAre
      <3>. QED
        BY <1>1, <2>1, <3>1 DEF Stays, Leaves, Passed, OwnSock
    <2>2. CASE d # c0
      BY <2>2, SameMail DEF Stays, Others, Passed
    <2>. QED
      BY <2>1, <2>2
  <1>3. \A u \in Tabs \ {t} : Treated(u)
    BY <1>2, OthersTreated DEF Stays, Others
  <1>4. Treated(t)
    BY <1>2 DEF Stays, Others, SameReplica, SameCounts, Treated, StaysInStep, InStep, KeepsGen, Every
  <1>. QED
    BY <1>2, <1>3, <1>4 DEF Treats

LEMMA MovesTreats ==
    ASSUME Typed, Base, Channels, NEW t \in Tabs, Moves(t)
    PROVE  Treats
  <1>1. /\ \A d \in Sockets :
             /\ Fewer(sock[d].up, sock'[d].up) /\ Every(sock[d].up, sock'[d].up)
             /\ sock'[d].owner = sock[d].owner \/ NoEdits(sock'[d].up)
             /\ sock'[d].client = "open" => sock'[d] = sock[d]
        /\ \A u \in Tabs \ {t} : tab'[u] = tab[u]
    BY MovesIs
  <1>2. UNCHANGED <<session, nSessions, integrated>>
    BY DEF Moves
  <1>3. \A d \in Sockets : Passed(d)
    BY <1>1 DEF Passed
  <1>4. \A u \in Tabs \ {t} : Treated(u)
    BY <1>1, <1>2, OthersTreated
  <1>5. CASE SameDoc(tab[t], tab'[t]) /\ (tab[t].broke => tab'[t].broke)
    BY <1>1, <1>2, <1>3, <1>4, <1>5
       DEF Treats, Treated, SameDoc, SameReplica, StaysInStep, InStep, KeepsGen, Every
  <1>6. CASE FreshDoc(tab[t], tab'[t])
    BY <1>2, <1>3, <1>4, <1>6 DEF Treats, Treated, FreshDoc, Emptied
  <1>. QED
    BY <1>5, <1>6 DEF Moves, Rewires

LEMMA OpensTreats ==
    ASSUME Typed, Base, Channels, NEW t \in Tabs, Opens(t)
    PROVE  Treats
  <1> DEFINE c0 == tab[t].socket
  <1>1. /\ NoEdits(sock'[c0].up) /\ NoEdits(sock[c0].up)
        /\ sock'[c0].owner = t /\ sock[c0].owner = t
        /\ SameReplica(tab[t], tab'[t]) /\ tab'[t].broke = tab[t].broke
    BY OpensIs DEF OwnSock
  <1>2. \A d \in Sockets : sock[d].owner = t => NoEdits(sock[d].up)
    <2>1. NoEdits(<<>>) /\ NoEdits(<<[t |-> "lost"]>>)
      BY DEF NoEdits
    <2>. QED
      BY <2>1 DEF Opens, Settled
  <1>3. \A d \in Sockets : d # c0 => sock'[d] = sock[d]
    BY DEF Opens, Others
  <1>4. ASSUME NEW d \in Sockets
        PROVE  Passed(d) /\ Every(sock[d].up, sock'[d].up)
    <2>1. CASE d = c0
      BY <1>1, <1>2, <1>3, <2>1, NoMail DEF Passed
    <2>2. CASE d # c0
      BY <1>3, <2>2, SameMail DEF Passed
    <2>. QED
      BY <2>1, <2>2
  <1>5. \A u \in Tabs \ {t} : Treated(u)
    BY <1>4, OthersTreated DEF Opens, Others
  <1>6. Treated(t)
    BY <1>1, <1>4 DEF Opens, Others, SameReplica, Treated, StaysInStep, InStep, KeepsGen, Every
  <1>. QED
    BY <1>4, <1>5, <1>6 DEF Treats

LEMMA BootsTreats ==
    ASSUME Typed, Base, Channels, Mail, NEW t \in Tabs, Boots(t)
    PROVE  Treats
  <1> DEFINE c0 == tab[t].socket
  <1>1. /\ sock'[c0].up = sock[c0].up /\ sock'[c0].owner = sock[c0].owner
        /\ sock[c0].client = "open"
        /\ \/ SameReplica(tab[t], tab'[t]) /\ tab'[t].broke = tab[t].broke
           \/ tab[t].bound = 0 /\ tab'[t].gen = tab[t].gen /\ tab'[t].own = tab[t].own
           \/ tab'[t].gen = tab[t].gen + 1 /\ tab'[t].own = 0
    BY BootsIs DEF OwnSock
  <1>2. \A d \in Sockets : d # c0 => sock'[d] = sock[d]
    BY DEF Boots, Others
  <1>3. ASSUME NEW d \in Sockets
        PROVE  Passed(d) /\ Every(sock[d].up, sock'[d].up)
    <2>1. CASE d = c0
      BY <1>1, <2>1, SameMail DEF Passed
    <2>2. CASE d # c0
      BY <1>2, <2>2, SameMail DEF Passed
    <2>. QED
      BY <2>1, <2>2
  <1>4. \A u \in Tabs \ {t} : Treated(u)
    BY <1>3, OthersTreated DEF Boots, Others
  <1>5. UNCHANGED <<session, integrated>> /\ DocOK(tab[t], integrated[t])
    BY DEF Boots, Others, Mail
  <1>6. Treated(t)
    <2>1. CASE SameReplica(tab[t], tab'[t]) /\ tab'[t].broke = tab[t].broke
      BY <1>3, <1>5, <2>1 DEF SameReplica, Treated, StaysInStep, InStep, KeepsGen, Every
    <2>2. CASE tab[t].bound = 0 /\ tab'[t].gen = tab[t].gen /\ tab'[t].own = tab[t].own
      BY <1>5, <2>2 DEF Treated, Emptied, DocOK
    <2>3. CASE tab'[t].gen = tab[t].gen + 1 /\ tab'[t].own = 0
      BY <1>5, <2>3 DEF Treated, Emptied
    <2>. QED
      BY <1>1, <2>1, <2>2, <2>3
  <1>. QED
    BY <1>3, <1>4, <1>6 DEF Treats

-----------------------------------------------------------------------------
(* A key is typed: the newest edit of the replica goes to the end of the   *)
(* socket that has them all.                                               *)
LEMMA SaidSorted ==
    ASSUME NEW q \in Seq(UpFrames), NEW m \in UpFrames, m.t = "edit", Sorted(q),
           \A i \in DOMAIN q : q[i].t = "edit" => Before(q[i], m)
    PROVE  Sorted(Append(q, m))
  <1>1. /\ \A i \in DOMAIN Append(q, m) :
              \/ i \in DOMAIN q /\ Append(q, m)[i] = q[i]
              \/ i = Len(q) + 1 /\ Append(q, m)[i] = m
        /\ \A i \in DOMAIN q : i \in Nat /\ i < Len(q) + 1
        /\ Len(q) \in Nat
    BY AppendMail
  <1> SUFFICES ASSUME NEW i \in DOMAIN Append(q, m), NEW j \in DOMAIN Append(q, m), i < j,
                      Append(q, m)[i].t = "edit", Append(q, m)[j].t = "edit"
               PROVE  Before(Append(q, m)[i], Append(q, m)[j])
    BY DEF Sorted
  <1>2. i \in DOMAIN q /\ Append(q, m)[i] = q[i]
    BY <1>1
  <1>. QED
    BY <1>1, <1>2 DEF Sorted

(* What typing does with the sockets: none but the page's own has new mail. *)
Speaks(t, m) ==
  /\ \A d \in Sockets : sock'[d].owner = sock[d].owner /\ sock'[d].client = sock[d].client
  /\ \A d \in Sockets : sock[d].owner # t => sock'[d].up = sock[d].up
  /\ \A d \in Sockets : \A i \in DOMAIN sock'[d].up :
       \/ i \in DOMAIN sock[d].up /\ sock'[d].up[i] = sock[d].up[i]
       \/ sock'[d].up[i] = m /\ sock[d].owner = t /\ sock[d].client = "open"
  /\ \A d \in Sockets : \A i \in DOMAIN sock[d].up :
       i \in DOMAIN sock'[d].up /\ sock'[d].up[i] = sock[d].up[i]
  /\ \A d \in Sockets : Sorted(sock'[d].up)

LEMMA TypeSpeaks ==
    ASSUME "early" \notin Env, Typed, Base, Channels, Mail, NEW t \in Tabs, Type(t)
    PROVE  /\ Speaks(t, EditOf(t))
           /\ \/ tab[t].broke
              \/ \E c \in Sockets : /\ sock[c].owner = t
                                    /\ \E i \in DOMAIN sock'[c].up : sock'[c].up[i] = EditOf(t)
  <1> DEFINE m == EditOf(t)
             c == tab[t].socket
             r == OwnSock(t)
  <1>1. /\ m \in UpFrames
        /\ \/ UNCHANGED sock /\ tab[t].broke
           \/ c \in Sockets /\ r.client = "open" /\ OnSock(c, Said(r, m))
    BY TypeIs
  <1>2. CASE UNCHANGED sock /\ tab[t].broke
    <2>1. \A d \in Sockets : Sorted(sock'[d].up)
      BY <1>2 DEF Mail, MailOK
    <2>. QED
      BY <1>2, <2>1 DEF Speaks
  <1>3. CASE c \in Sockets /\ r.client = "open" /\ OnSock(c, Said(r, m))
    <2>1. r \in SockRec /\ r.owner = t /\ r.up \in Seq(UpFrames)
      <3>1. c # 0
        BY <1>3, SocketsAre
      <3>. QED
        BY <3>1, OwnSocketIs, SockRecIs
    <2>2. /\ Said(r, m).up = Append(r.up, m) /\ Said(r, m).client = r.client
          /\ Said(r, m).owner = t
      BY <1>1, <2>1, SaidIs DEF Alike
    <2>3. m.t = "edit" /\ m.gen = tab[t].gen /\ m.n = tab[t].own + 1
      BY DEF EditOf
    <2>4. ASSUME NEW i \in DOMAIN r.up, r.up[i].t = "edit"
          PROVE  Before(r.up[i], m)
      <3>1. EditOK(r.up[i], t, tab[t])
        BY <1>3, <2>1, <2>4 DEF Mail, MailOK, OwnSock
      <3>2. r.up[i].n \in Nat /\ tab[t].own \in Nat
        BY <1>3, <2>4, EditIs, TabIs DEF OwnSock
      <3>. QED
        BY <2>3, <3>1, <3>2 DEF EditOK, Before
    <2>5. Sorted(r.up)
      BY <1>3 DEF Mail, MailOK, OwnSock
    <2> HIDE DEF m
    <2>6. Sorted(Append(r.up, m))
      BY <1>1, <2>1, <2>3, <2>4, <2>5, SaidSorted
    <2>7. /\ \A i \in DOMAIN Append(r.up, m) :
               \/ i \in DOMAIN r.up /\ Append(r.up, m)[i] = r.up[i]
               \/ Append(r.up, m)[i] = m
          /\ \A i \in DOMAIN r.up : i \in DOMAIN Append(r.up, m) /\ Append(r.up, m)[i] = r.up[i]
          /\ \E i \in DOMAIN Append(r.up, m) : Append(r.up, m)[i] = m
      BY <1>1, <2>1, AppendMail
    <2>8. /\ sock[c] = r /\ sock'[c].up = Append(r.up, m)
          /\ sock'[c].client = "open" /\ sock'[c].owner = t
          /\ \A d \in Sockets : d # c => sock'[d] = sock[d]
      BY <1>3, <2>2 DEF OnSock, OwnSock
    <2>9. \A d \in Sockets : Sorted(sock'[d].up)
      BY <2>6, <2>8 DEF Mail, MailOK
    <2>10. Speaks(t, m)
      <3> HIDE DEF r, c
      <3>1. ASSUME NEW d \in Sockets
            PROVE  /\ sock'[d].owner = sock[d].owner /\ sock'[d].client = sock[d].client
                   /\ sock[d].owner # t => sock'[d].up = sock[d].up
                   /\ \A i \in DOMAIN sock'[d].up :
                        \/ i \in DOMAIN sock[d].up /\ sock'[d].up[i] = sock[d].up[i]
                        \/ sock'[d].up[i] = m /\ sock[d].owner = t /\ sock[d].client = "open"
                   /\ \A i \in DOMAIN sock[d].up :
                        i \in DOMAIN sock'[d].up /\ sock'[d].up[i] = sock[d].up[i]
        <4>1. CASE d = c
          BY <1>3, <2>1, <2>7, <2>8, <4>1
        <4>2. CASE d # c
          BY <2>8, <4>2
        <4>. QED
          BY <4>1, <4>2
      <3>. QED
        BY <2>9, <3>1 DEF Speaks
    <2>. QED
      BY <1>3, <2>1, <2>7, <2>8, <2>10 DEF m
  <1>. QED
    BY <1>1, <1>2, <1>3 DEF m

LEMMA MailTypes ==
    ASSUME "early" \notin Env, Typed, Base, Channels, Mail, NEW t \in Tabs, Type(t)
    PROVE  Mail'
  <1> DEFINE k == tab[t]
             k2 == tab'[t]
             m == EditOf(t)
  <1>1. /\ Speaks(t, m)
        /\ \/ k.broke
           \/ \E c \in Sockets : /\ sock[c].owner = t
                                 /\ \E i \in DOMAIN sock'[c].up : sock'[c].up[i] = m
    BY TypeSpeaks
  <1>2. /\ k2.gen = k.gen /\ k2.bound = k.bound /\ k2.own = k.own + 1 /\ k2.broke = k.broke
        /\ k.bound # 0
        /\ UNCHANGED <<session, integrated>> /\ \A u \in Tabs \ {t} : tab'[u] = tab[u]
    BY TypeIs, TypedPageIs DEF Typed, Others, OnPage
  <1>3. /\ m.t = "edit" /\ m.tab = t /\ m.gen = k.gen /\ m.n = k.own + 1 /\ m.s = k.bound
        /\ k.own \in Nat /\ k.gen \in Nat /\ m.n > 0
    BY TabIs DEF EditOf
  <1> HIDE DEF k, k2, m
  <1>4. EditOK(m, t, k2)
    BY <1>2, <1>3 DEF EditOK
  <1>5. ASSUME NEW d \in Sockets, NEW i \in DOMAIN sock[d].up, sock[d].up[i].t = "edit"
        PROVE  /\ EditOK(sock[d].up[i], sock[d].owner, tab'[sock[d].owner])
    <2>1. EditOK(sock[d].up[i], sock[d].owner, tab[sock[d].owner])
      BY <1>5 DEF Mail, MailOK
    <2>2. sock[d].owner \in Tabs /\ sock[d].up[i].n \in Nat
      BY <1>5, <2>1, EditIs DEF EditOK
    <2>3. CASE sock[d].owner = t
      BY <1>2, <1>3, <2>1, <2>2, <2>3 DEF EditOK, k, k2
    <2>4. CASE sock[d].owner # t
      BY <1>2, <2>1, <2>2, <2>4
    <2>. QED
      BY <2>3, <2>4
  <1>6. ASSUME NEW d \in Sockets PROVE MailOK(sock[d])'
    <2>1. ASSUME NEW i \in DOMAIN sock'[d].up, sock'[d].up[i].t = "edit"
          PROVE  EditOK(sock'[d].up[i], sock'[d].owner, tab'[sock'[d].owner])
      BY <1>1, <1>4, <1>5, <2>1 DEF Speaks, k2
    <2>. QED
      BY <1>1, <2>1 DEF Speaks, MailOK
  <1>7. ASSUME NEW d \in Sockets, ~NoEdits(sock'[d].up)
        PROVE  \/ ~NoEdits(sock[d].up)
               \/ sock[d].owner = t /\ sock[d].client = "open"
    BY <1>1, <1>7 DEF Speaks, NoEdits
  <1>8. Single'
    <2>1. ASSUME NEW c \in Sockets, NEW d \in Sockets \ {c}, sock'[c].owner = sock'[d].owner
          PROVE  /\ NoEdits(sock'[c].up) \/ NoEdits(sock'[d].up)
                 /\ sock'[c].client = "open" => NoEdits(sock'[d].up)
      <3>1. /\ sock[c].owner = sock[d].owner
            /\ sock'[c].client = sock[c].client /\ sock'[d].client = sock[d].client
        BY <1>1, <2>1 DEF Speaks
      <3>2. /\ NoEdits(sock[c].up) \/ NoEdits(sock[d].up)
            /\ sock[c].client = "open" => NoEdits(sock[d].up)
            /\ sock[d].client = "open" => NoEdits(sock[c].up)
        BY <3>1 DEF Mail, Single
      <3>3. ~(sock[c].client = "open" /\ sock[d].client = "open" /\ sock[c].owner = t)
        <4> SUFFICES ASSUME sock[c].client = "open", sock[d].client = "open", sock[c].owner = t
                     PROVE  FALSE
          OBVIOUS
        <4>1. tab[t].socket = c /\ tab[t].socket = d
          BY <3>1 DEF Base, Wired, Known, Held
        <4>. QED
          BY <4>1
      <3>. QED
        BY <1>7, <3>1, <3>2, <3>3
    <2>. QED
      BY <2>1 DEF Single
  <1>9. ASSUME NEW u \in Tabs PROVE DocOK(tab'[u], integrated'[u])
    <2>1. DocOK(tab[u], integrated[u]) /\ integrated[u].n \in Nat
      BY TabIs DEF Mail
    <2>2. CASE u = t
      BY <1>2, <1>3, <2>1, <2>2 DEF DocOK, k, k2
    <2>3. CASE u # t
      BY <1>2, <2>1, <2>3
    <2>. QED
      BY <2>2, <2>3
  <1>10. ASSUME NEW u \in Tabs \ {t} PROVE Flow(u)'
    <2>1. Flow(u) /\ tab'[u] = tab[u]
      BY <1>2 DEF Mail
    <2>2. \A g : \A n \in Nat : Carried(sock', u, g, n) <=> Carried(sock, u, g, n)
      BY <1>1 DEF Speaks, Carried
    <2>. QED
      BY <1>2, <2>1, <2>2 DEF Flow, Flowing
  <1>11. Flow(t)'
    <2> DEFINE have == Have(k, integrated[t])
    <2> SUFFICES ASSUME InStep(k2, session)
                 PROVE  Flowing(sock', t, k2.gen, Have(k2, integrated[t]), k2.own)
      BY <1>2 DEF Flow, k2
    <2>1. Flowing(sock, t, k.gen, have, k.own)
      BY <1>2 DEF Mail, Flow, InStep, k
    <2>2. have \in Nat /\ have <= k.own
      <3>1. DocOK(k, integrated[t]) /\ integrated[t].n \in Nat
        BY TabIs DEF Mail, k
      <3>. QED
        BY <1>3, <3>1 DEF DocOK, Have
    <2>3. Have(k2, integrated[t]) = have
      BY <1>2 DEF Have
    <2>4. ASSUME NEW n \in Nat, Carried(sock', t, k.gen, n)
          PROVE  Carried(sock, t, k.gen, n) \/ n = k.own + 1
      <3>1. PICK c \in Sockets : sock'[c].owner = t /\ CarriedOn(sock'[c].up, k.gen, n)
        BY <2>4 DEF Carried
      <3>2. PICK i \in DOMAIN sock'[c].up :
              sock'[c].up[i].t = "edit" /\ sock'[c].up[i].gen = k.gen /\ sock'[c].up[i].n = n
        BY <3>1 DEF CarriedOn
      <3>3. CASE i \in DOMAIN sock[c].up /\ sock'[c].up[i] = sock[c].up[i]
        BY <1>1, <3>1, <3>2, <3>3 DEF Speaks, Carried, CarriedOn
      <3>4. CASE sock'[c].up[i] = m
        BY <1>3, <3>2, <3>4
      <3>. QED
        BY <1>1, <3>3, <3>4 DEF Speaks
    <2>5. ASSUME NEW n \in Nat, Carried(sock, t, k.gen, n)
          PROVE  Carried(sock', t, k.gen, n)
      BY <1>1, <2>5 DEF Speaks, Carried, CarriedOn
    <2>6. Carried(sock', t, k.gen, k.own + 1)
      <3>1. ~k.broke
        BY <1>2 DEF InStep
      <3>. QED
        BY <1>1, <1>3, <3>1 DEF Speaks, Carried, CarriedOn
    <2> HIDE DEF have
    <2>7. Flowing(sock', t, k.gen, have, k.own + 1)
      <3>1. ASSUME NEW n \in Nat, Carried(sock', t, k.gen, n) PROVE n > have
        BY <1>3, <2>1, <2>2, <2>4, <3>1 DEF Flowing
      <3>2. ASSUME NEW n \in Nat, have < n, n <= k.own + 1 PROVE Carried(sock', t, k.gen, n)
        <4>1. CASE n = k.own + 1
          BY <2>6, <4>1
        <4>2. CASE n <= k.own
          BY <2>1, <2>5, <3>2, <4>2 DEF Flowing
        <4>. QED
          BY <1>3, <3>2, <4>1, <4>2
      <3>. QED
        BY <3>1, <3>2 DEF Flowing
    <2>. QED
      BY <1>2, <2>3, <2>7
  <1>. QED
    BY <1>6, <1>8, <1>9, <1>10, <1>11 DEF Mail

-----------------------------------------------------------------------------
(* The server takes in an edit.  It is the next one of its replica, or one *)
(* of a replica that its page has given up.                                *)
LEMMA ReceiptFacts ==
    ASSUME Typed, Base, Channels, Mail, NEW c \in Sockets, ReceiptStep(c)
    PROVE  LET r == sock[c]
               m == sock[c].up[1]
               t == sock[c].owner
           IN
           /\ t \in Tabs /\ m.t = "edit" /\ EditOK(m, t, tab[t]) /\ m.s = session
           /\ m.gen \in Nat /\ m.n \in Nat /\ 1 \in DOMAIN r.up /\ r.up \in Seq(UpFrames)
           /\ r.up # <<>>
           /\ sock'[c].up = Tail(r.up) /\ sock'[c].owner = t /\ sock'[c].client = r.client
           /\ sock'[c].received = r.received + 1
           /\ integrated' = IF Integrates(m)
                            THEN [integrated EXCEPT ![t] = [gen |-> m.gen, n |-> m.n]]
                            ELSE integrated
  <1> DEFINE r == sock[c]
             m == r.up[1]
             t == r.owner
  <1>1. /\ Asks(c) = m /\ r.up # <<>> /\ m.t = "edit" /\ r.sess = session /\ r \in SockRec
        /\ r.up \in Seq(UpFrames)
    BY HandledIs, SockRecIs DEF ReceiptStep, IsCurrentSessionEditor, Typed
  <1>2. 1 \in DOMAIN r.up
    BY <1>1, TailMail
  <1>3. EditOK(m, t, tab[t]) /\ m.s = session
    BY <1>1, <1>2 DEF Mail, MailOK, Base, SocketsOK, SocketOK
  <1>4. t \in Tabs /\ m.gen \in Nat /\ m.n \in Nat /\ m.tab = t
    BY <1>1, <1>2, <1>3, EditIs DEF EditOK
  <1>5. /\ sock'[c].up = Tail(r.up) /\ sock'[c].owner = t /\ sock'[c].client = r.client
        /\ sock'[c].received = r.received + 1
    BY <1>1, ReceiptIs DEF ReceiptStep
  <1>. QED
    BY <1>1, <1>2, <1>3, <1>4, <1>5 DEF ReceiptStep

(* Every other edit stays where it is.                                     *)
LEMMA ReceiptCarries ==
    ASSUME Typed, Base, Channels, Mail, NEW c \in Sockets, ReceiptStep(c)
    PROVE  /\ \A d \in Sockets : Passed(d)
           /\ \A u \in Tabs, g \in Nat, n \in Nat :
                Carried(sock, u, g, n) =>
                  \/ Carried(sock', u, g, n)
                  \/ u = sock[c].owner /\ g = sock[c].up[1].gen /\ n = sock[c].up[1].n
  <1> DEFINE q == sock[c].up
  <1>1. /\ q \in Seq(UpFrames) /\ q # <<>> /\ sock'[c].up = Tail(q)
        /\ sock'[c].owner = sock[c].owner /\ sock'[c].client = sock[c].client
    BY ReceiptFacts
  <1>2. /\ Fewer(q, Tail(q))
        /\ \A i \in DOMAIN q : i # 1 => i - 1 \in DOMAIN Tail(q) /\ Tail(q)[i - 1] = q[i]
    BY <1>1, TailMail
  <1>3. ASSUME NEW d \in Sockets PROVE Passed(d)
    <2>1. CASE d = c
      BY <1>1, <1>2, <2>1 DEF Passed
    <2>2. CASE d # c
      BY <2>2 DEF ReceiptStep, Delivers, Passes, Passed
    <2>. QED
      BY <2>1, <2>2
  <1>4. ASSUME NEW u \in Tabs, NEW g \in Nat, NEW n \in Nat, Carried(sock, u, g, n)
        PROVE  Carried(sock', u, g, n) \/ (u = sock[c].owner /\ g = q[1].gen /\ n = q[1].n)
    <2>1. PICK d \in Sockets : sock[d].owner = u /\ CarriedOn(sock[d].up, g, n)
      BY <1>4 DEF Carried
    <2>2. PICK i \in DOMAIN sock[d].up :
            sock[d].up[i].t = "edit" /\ sock[d].up[i].gen = g /\ sock[d].up[i].n = n
      BY <2>1 DEF CarriedOn
    <2>3. CASE d = c /\ i = 1
      BY <2>1, <2>2, <2>3
    <2>4. CASE d = c /\ i # 1
      <3>1. CarriedOn(sock'[c].up, g, n)
        BY <1>1, <1>2, <2>2, <2>4 DEF CarriedOn
      <3>. QED
        BY <1>1, <2>1, <2>4, <3>1 DEF Carried
    <2>5. CASE d # c
      <3>1. Delivers(sock[d], sock'[d])
        BY <2>5 DEF ReceiptStep
      <3>2. CarriedOn(sock'[d].up, g, n)
        BY <2>2, <3>1 DEF Delivers, Every, CarriedOn
      <3>3. sock'[d].owner = u
        BY <2>1, <3>1, <3>2 DEF Delivers, Passes, CarriedOn, NoEdits
      <3>. QED
        BY <3>2, <3>3 DEF Carried
    <2>. QED
      BY <2>3, <2>4, <2>5
  <1>. QED
    BY <1>3, <1>4 DEF q

(* The edit is the next one of its page's replica.                         *)
LEMMA ReceiptIsNext ==
    ASSUME Typed, Base, Channels, Mail, NEW c \in Sockets, ReceiptStep(c),
           NEW t \in Tabs, t = sock[c].owner, InStep(tab[t], session),
           NEW g \in Nat, g = tab[t].gen, sock[c].up[1].gen = g
    PROVE  /\ sock[c].up[1].n = Have(tab[t], integrated[t]) + 1
           /\ integrated'[t] = [gen |-> g, n |-> sock[c].up[1].n]
           /\ Have(tab[t], integrated'[t]) = Have(tab[t], integrated[t]) + 1
           /\ \A n \in Nat : Carried(sock', t, g, n) => n > sock[c].up[1].n
  <1> DEFINE q == sock[c].up
             m == q[1]
             k == tab[t]
             v == integrated[t]
             have == Have(k, v)
  <1>1. /\ m.t = "edit" /\ EditOK(m, t, k) /\ m.s = session /\ m.n \in Nat
        /\ 1 \in DOMAIN q /\ q \in Seq(UpFrames) /\ q # <<>>
        /\ sock'[c].up = Tail(q) /\ sock'[c].owner = t
        /\ integrated' = IF Integrates(m)
                         THEN [integrated EXCEPT ![t] = [gen |-> m.gen, n |-> m.n]]
                         ELSE integrated
    BY ReceiptFacts
  <1>2. /\ Flowing(sock, t, g, have, k.own) /\ DocOK(k, v) /\ have \in Nat
        /\ v.gen \in Nat /\ v.n \in Nat /\ Sorted(q) /\ k.own \in Nat
        /\ m.n <= k.own
    <2>1. DocOK(k, v) /\ Flow(t) /\ Sorted(q)
      BY DEF Mail, MailOK
    <2>2. have \in Nat /\ v.gen \in Nat /\ v.n \in Nat /\ k.own \in Nat /\ k.gen \in Nat
      BY TabIs
    <2>3. Flowing(sock, t, g, have, k.own)
      BY <2>1 DEF Flow
    <2>4. m.n <= k.own
      BY <1>1, <2>2 DEF EditOK
    <2>. QED
      BY <2>1, <2>2, <2>3, <2>4
  <1>3. CarriedOn(q, g, m.n) /\ ~NoEdits(q)
    BY <1>1 DEF CarriedOn, NoEdits
  <1>4. ASSUME NEW d \in Sockets \ {c}, sock[d].owner = t PROVE NoEdits(sock[d].up)
    BY <1>3, <1>4 DEF Mail, Single
  <1>5. m.n > have
    BY <1>1, <1>2, <1>3 DEF Flowing, Carried
  <1>6. ASSUME NEW i \in DOMAIN q, i # 1, q[i].t = "edit", q[i].gen = g PROVE q[i].n > m.n
    <2>1. 1 < i
      BY <1>1, <1>6, TailMail
    <2>2. Before(m, q[i])
      BY <1>1, <1>2, <1>6, <2>1 DEF Sorted
    <2>3. q[i].n \in Nat
      BY <1>6, EditIs
    <2>. QED
      BY <1>1, <1>6, <2>2, <2>3 DEF Before
  <1>7. m.n = have + 1
    <2> SUFFICES ASSUME have + 1 < m.n PROVE FALSE
      BY <1>1, <1>2, <1>5
    <2>0. PICK n, x, y, z : x = have /\ y = m.n /\ z = k.own /\ n = x + 1 /\ n < y
      OBVIOUS
    <2>1. n \in Nat /\ have < n /\ n <= k.own /\ n < m.n
      <3>1. x \in Nat /\ y \in Nat /\ z \in Nat /\ y <= z
        BY <1>1, <1>2, <2>0
      <3>2. n \in Nat /\ x < n /\ n <= z
        BY <2>0, <3>1
      <3>. QED
        BY <2>0, <3>2
    <2>2. Carried(sock, t, g, n)
      BY <1>2, <2>1 DEF Flowing
    <2>3. PICK d \in Sockets : sock[d].owner = t /\ CarriedOn(sock[d].up, g, n)
      BY <2>2 DEF Carried
    <2>4. d = c
      BY <1>4, <2>3 DEF CarriedOn, NoEdits
    <2>5. PICK i \in DOMAIN q : q[i].t = "edit" /\ q[i].gen = g /\ q[i].n = n
      BY <2>3, <2>4 DEF CarriedOn
    <2>6. (i = 1 /\ n = y) \/ n > y
      BY <1>6, <2>0, <2>5
    <2>7. y \in Nat
      BY <1>1, <2>0
    <2>. QED
      BY <2>0, <2>1, <2>6, <2>7
  <1>8. Integrates(m)
    <2>1. m.gen = g /\ m.tab = t
      BY <1>1 DEF EditOK
    <2>2. CASE v.gen = g
      <3>1. have = v.n
        BY <1>1, <1>2, <2>2 DEF Have
      <3>. QED
        BY <1>1, <1>2, <1>7, <2>1, <2>2, <3>1 DEF Integrates
    <2>3. CASE v.gen < g
      <3>1. v.gen # g
        BY <1>2, <2>3
      <3>2. have = 0
        BY <3>1 DEF Have
      <3>3. m.n = 1
        BY <1>7, <3>2
      <3>. QED
        BY <1>1, <1>2, <2>1, <2>3, <3>3 DEF Integrates
    <2>. QED
      BY <1>2, <2>2, <2>3 DEF DocOK
  <1>9. integrated'[t] = [gen |-> g, n |-> m.n]
    BY <1>1, <1>8 DEF Typed
  <1>10. Have(k, integrated'[t]) = m.n
    BY <1>9 DEF Have
  <1>11. ASSUME NEW n \in Nat, Carried(sock', t, g, n) PROVE n > m.n
    <2>1. PICK d \in Sockets : sock'[d].owner = t /\ CarriedOn(sock'[d].up, g, n)
      BY <1>11 DEF Carried
    <2>2. d = c
      <3> SUFFICES ASSUME d # c PROVE FALSE
        OBVIOUS
      <3>1. Passed(d) /\ ~NoEdits(sock'[d].up)
        BY <2>1, ReceiptCarries DEF CarriedOn, NoEdits
      <3>2. sock[d].owner = t /\ ~NoEdits(sock[d].up)
        BY <2>1, <3>1 DEF Passed, Fewer, NoEdits
      <3>. QED
        BY <1>4, <3>2
    <2>3. PICK j \in DOMAIN Tail(q) : Tail(q)[j].t = "edit" /\ Tail(q)[j].gen = g /\ Tail(q)[j].n = n
      BY <1>1, <2>1, <2>2 DEF CarriedOn
    <2>4. j + 1 \in DOMAIN q /\ j + 1 # 1 /\ Tail(q)[j] = q[j + 1]
      BY <1>1, TailMail
    <2>. QED
      BY <1>6, <2>3, <2>4
  <1>. QED
    BY <1>7, <1>9, <1>10, <1>11

(* An edit of a replica that is given up changes nothing of the next one.  *)
LEMMA ReceiptIsOld ==
    ASSUME Typed, Base, Channels, Mail, NEW c \in Sockets, ReceiptStep(c),
           NEW t \in Tabs,
           t # sock[c].owner \/ sock[c].up[1].gen # tab[t].gen
    PROVE  /\ Have(tab[t], integrated'[t]) = Have(tab[t], integrated[t])
           /\ t # sock[c].owner => integrated'[t] = integrated[t]
  <1> DEFINE m == sock[c].up[1]
             o == sock[c].owner
  <1>1. /\ EditOK(m, o, tab[o]) /\ o \in Tabs /\ m.gen \in Nat
        /\ integrated' = IF Integrates(m)
                         THEN [integrated EXCEPT ![o] = [gen |-> m.gen, n |-> m.n]]
                         ELSE integrated
    BY ReceiptFacts
  <1>2. t # o => integrated'[t] = integrated[t]
    BY <1>1 DEF Typed
  <1>3. CASE t = o
    <2>1. m.gen < tab[t].gen /\ m.tab = t /\ tab[t].gen \in Nat /\ integrated[t].gen \in Nat
      BY <1>1, <1>3, TabIs DEF EditOK
    <2>2. CASE Integrates(m)
      <3>1. integrated'[t].gen = m.gen
        BY <1>1, <1>3, <2>2 DEF Typed
      <3>2. integrated[t].gen <= m.gen
        BY <1>1, <2>1, <2>2 DEF Integrates
      <3>. QED
        BY <1>1, <1>3, <2>1, <3>1, <3>2 DEF Have
    <2>3. CASE ~Integrates(m)
      BY <1>1, <1>3, <2>3
    <2>. QED
      BY <2>2, <2>3
  <1>. QED
    BY <1>2, <1>3

LEMMA MailReceipt ==
    ASSUME Typed, Base, Channels, Mail, NEW c \in Sockets, ReceiptStep(c)
    PROVE  Mail'
  <1> DEFINE m == sock[c].up[1]
             o == sock[c].owner
  <1>1. /\ EditOK(m, o, tab[o]) /\ o \in Tabs /\ m.gen \in Nat /\ m.n \in Nat
        /\ integrated' = IF Integrates(m)
                         THEN [integrated EXCEPT ![o] = [gen |-> m.gen, n |-> m.n]]
                         ELSE integrated
    BY ReceiptFacts
  <1>2. UNCHANGED <<tab, session>>
    BY DEF ReceiptStep
  <1>3. \A d \in Sockets : Passed(d)
    BY ReceiptCarries
  <1>4. /\ \A d \in Sockets : MailOK(sock[d])'
        /\ Single'
    BY <1>2, <1>3, TreatedMail, TreatedSingle DEF SameReplica
  <1>5. ASSUME NEW u \in Tabs PROVE DocOK(tab'[u], integrated'[u])
    <2>1. DocOK(tab[u], integrated[u])
      BY DEF Mail
    <2>2. CASE integrated'[u] = integrated[u]
      BY <1>2, <2>1, <2>2
    <2>3. CASE u = o /\ integrated'[u] = [gen |-> m.gen, n |-> m.n]
      BY <1>1, <1>2, <2>1, <2>3 DEF DocOK, EditOK
    <2>. QED
      BY <1>1, <2>2, <2>3 DEF Typed
  <1>6. ASSUME NEW u \in Tabs PROVE Flow(u)'
    <2> DEFINE k == tab[u]
               g == k.gen
               have == Have(k, integrated[u])
               have2 == Have(k, integrated'[u])
    <2> SUFFICES ASSUME InStep(k, session)
                 PROVE  Flowing(sock', u, g, have2, k.own)
      BY <1>2 DEF Flow
    <2>1. Flowing(sock, u, g, have, k.own) /\ g \in Nat /\ have \in Nat /\ k.own \in Nat
      BY TabIs DEF Mail, Flow
    <2>2. CASE u = o /\ m.gen = g
      <3>1. /\ m.n = have + 1 /\ have2 = have + 1
            /\ \A n \in Nat : Carried(sock', u, g, n) => n > m.n
        BY <2>1, <2>2, ReceiptIsNext
      <3> HIDE DEF have, have2, g
      <3>2. ASSUME NEW n \in Nat, have2 < n, n <= k.own PROVE Carried(sock', u, g, n)
        <4>1. Carried(sock, u, g, n) /\ n # m.n
          BY <2>1, <3>1, <3>2 DEF Flowing
        <4>. QED
          BY <2>1, <4>1, ReceiptCarries
      <3>. QED
        BY <3>1, <3>2 DEF Flowing
    <2>3. CASE u # o \/ m.gen # g
      <3>1. have2 = have
        BY <2>3, ReceiptIsOld
      <3>2. \A n \in Nat : Carried(sock, u, g, n) => Carried(sock', u, g, n)
        BY <2>1, <2>3, ReceiptCarries
      <3>3. \A n \in Nat : Carried(sock', u, g, n) => Carried(sock, u, g, n)
        BY <1>3, CarriedStays
      <3> HIDE DEF have, have2, g
      <3>. QED
        BY <2>1, <3>1, <3>2, <3>3 DEF Flowing
    <2>. QED
      BY <2>2, <2>3
  <1>. QED
    BY <1>4, <1>5, <1>6 DEF Mail

-----------------------------------------------------------------------------
(* What is counted.  A connection starts when the server has all of the    *)
(* replica; from then on the server has what the page had and what the     *)
(* connection has taken in, and the page has what it has sent besides.     *)
Counts(k, r, v, s) ==
  r.client = "open" /\ InStep(k, s) /\ k.prov.booted /\ k.prov.role = "editor"
    => Have(k, v) + k.prov.sent = k.own + r.received
Counted ==
  \A t \in Tabs : tab[t].socket # 0 => Counts(tab[t], OwnSock(t), integrated[t], session)

(* With nothing on its way, the server has all of a replica.               *)
LEMMA AllIn ==
    ASSUME NEW ss, NEW t, NEW k, NEW v, k.own \in Nat, v.n \in Nat, k.gen \in Nat, v.gen \in Nat,
           DocOK(k, v),
           Flowing(ss, t, k.gen, Have(k, v), k.own),
           \A d \in Sockets : ss[d].owner = t => NoEdits(ss[d].up)
    PROVE  Have(k, v) = k.own
  <1>1. Have(k, v) \in Nat /\ Have(k, v) <= k.own
    BY DEF DocOK, Have
  <1>2. ~Carried(ss, t, k.gen, k.own)
    BY DEF Carried, CarriedOn, NoEdits
  <1>3. ~(Have(k, v) < k.own)
    BY <1>2 DEF Flowing
  <1>. QED
    BY <1>1, <1>3

LEMMA CountedTended ==
    ASSUME Typed, Base, Channels, Counted, Tended
    PROVE  Counted'
  <1> SUFFICES ASSUME NEW t \in Tabs, tab'[t].socket # 0
               PROVE  Counts(tab'[t], sock'[tab'[t].socket], integrated'[t], session')
    BY DEF Counted, OwnSock
  <1>1. SameReplica(tab[t], tab'[t]) /\ SameCounts(tab[t], tab'[t])
    <2>1. SamePair(tab[t], tab[t]) /\ SamePair(tab[t], Faulted(tab[t]))
      BY PagesStay DEF Typed, SamePair, SameReplica, SameCounts
    <2>. QED
      BY <2>1 DEF Tended, SamePair
  <1> DEFINE r == OwnSock(t)
             r2 == sock'[tab[t].socket]
  <1>2. /\ tab[t].socket # 0 /\ tab'[t].socket = tab[t].socket /\ tab[t].socket \in Sockets
        /\ Counts(tab[t], r, integrated[t], session)
    BY <1>1, OwnSocketIs DEF SameCounts, Counted
  <1>3. r2.client = "open" => r.client = "open" /\ r2.received = r.received
    BY <1>2 DEF Tended, Passes, OwnSock
  <1>4. tab[t].bound <= nSessions /\ nSessions \in Nat /\ tab[t].bound \in Nat
    BY TabIs DEF Typed, Channels, Numbered
  <1> HIDE DEF r, r2
  <1>5. CASE session' \in {0, session} /\ UNCHANGED <<nSessions, integrated>>
    BY <1>1, <1>2, <1>3, <1>5 DEF Counts, InStep, SameReplica, SameCounts, Have, r2
  <1>6. CASE session' = nSessions + 1
    BY <1>1, <1>4, <1>6 DEF Counts, InStep, SameReplica
  <1>. QED
    BY <1>5, <1>6 DEF Tended

(* A step of one page.                                                     *)
LEMMA CountedPage ==
    ASSUME Typed, Base, Counted, NEW t \in Tabs, UNCHANGED <<session, integrated>>,
           \A u \in Tabs \ {t} : /\ tab'[u] = tab[u]
                                 /\ tab[u].socket # 0 => OwnSock(u)' = OwnSock(u),
           tab'[t].socket # 0 =>
             Counts(tab'[t], sock'[tab'[t].socket], integrated[t], session)
    PROVE  Counted'
  BY DEF Counted, OwnSock

LEMMA OthersCount ==
    ASSUME Typed, Base, NEW t \in Tabs, Others(t)
    PROVE  /\ UNCHANGED <<session, integrated>>
           /\ \A u \in Tabs \ {t} : /\ tab'[u] = tab[u]
                                    /\ tab[u].socket # 0 => OwnSock(u)' = OwnSock(u)
  <1>1. ASSUME NEW u \in Tabs \ {t}, tab[u].socket # 0
        PROVE  tab[u].socket # tab[t].socket /\ tab[u].socket \in Sockets
    BY <1>1, OwnSocketIs
  <1>. QED
    BY <1>1 DEF Others, OwnSock

LEMMA CountedStays ==
    ASSUME Typed, Base, Channels, Counted, NEW t \in Tabs, Stays(t)
    PROVE  Counted'
  <1>1. ASSUME tab'[t].socket # 0
        PROVE  Counts(tab'[t], sock'[tab'[t].socket], integrated[t], session)
    <2>1. tab[t].socket # 0 /\ tab'[t].socket = tab[t].socket
      BY <1>1 DEF Stays, SameCounts
    <2>2. Counts(tab[t], OwnSock(t), integrated[t], session)
      BY <2>1 DEF Counted
    <2>3. Leaves(OwnSock(t), sock'[tab[t].socket])
      BY <2>1 DEF Stays
    <2>4. SameReplica(tab[t], tab'[t]) /\ SameCounts(tab[t], tab'[t])
      BY DEF Stays
    <2>. QED
      BY <2>1, <2>2, <2>3, <2>4 DEF Leaves, SameReplica, SameCounts, Counts, InStep, Have
  <1>2. Others(t)
    BY DEF Stays
  <1>. QED
    BY <1>1, <1>2, OthersCount, CountedPage

LEMMA CountedMoves ==
    ASSUME Typed, Base, Channels, Counted, NEW t \in Tabs, Moves(t)
    PROVE  Counted'
  <1>1. /\ tab'[t].socket # 0 => sock'[tab'[t].socket] = Dialed(Unused, t)
        /\ \A u \in Tabs \ {t} : /\ tab'[u] = tab[u]
                                 /\ tab[u].socket # 0 => OwnSock(u)' = OwnSock(u)
    BY MovesIs
  <1>2. Dialed(Unused, t).client = "opening"
    BY DialedIs
  <1>3. UNCHANGED <<session, integrated>>
    BY DEF Moves
  <1>. QED
    BY <1>1, <1>2, <1>3, CountedPage DEF Counts

LEMMA CountedOpens ==
    ASSUME Typed, Base, Channels, Counted, NEW t \in Tabs, Opens(t)
    PROVE  Counted'
  <1>1. ~tab'[t].prov.booted
    BY OpensIs
  <1>2. Others(t)
    BY DEF Opens
  <1>. QED
    BY <1>1, <1>2, OthersCount, CountedPage DEF Counts

LEMMA CountedBoots ==
    ASSUME Typed, Typed', Base, Channels, Mail, Mail', Counted, NEW t \in Tabs, Boots(t)
    PROVE  Counted'
  <1> DEFINE k == tab[t]
             k2 == tab'[t]
             r == OwnSock(t)
             r2 == sock'[tab[t].socket]
  <1>1. /\ r.client = "open" /\ r2.received = r.received /\ r2.client = "open" /\ r2.up = r.up
        /\ r.owner = t /\ k2.socket = k.socket /\ k.socket # 0 /\ k2.prov.sent = k.prov.sent
        /\ k.prov.booted => SameReplica(k, k2) /\ k2.broke = k.broke
        /\ k2.prov.role = k.prov.role
    BY BootsIs
  <1>2. Others(t) /\ Paired(k, r) /\ k.socket \in Sockets /\ Counts(k, r, integrated[t], session)
    BY <1>1, OwnSocketIs DEF Boots, Channels, Counted
  <1>3. UNCHANGED <<session, integrated>>
    BY <1>2 DEF Others
  <1>4. CASE k.prov.booted
    <2>1. Counts(k2, r2, integrated[t], session)
      BY <1>1, <1>2, <1>4 DEF Counts, SameReplica, InStep, Have
    <2>. QED
      BY <1>1, <1>2, <2>1, OthersCount, CountedPage
  <1>5. CASE ~k.prov.booted
    <2>1. NoEdits(r.up) /\ k.prov.sent = 0 /\ r.received = 0
      BY <1>1, <1>2, <1>5 DEF Paired, Begun
    <2>2. ASSUME NEW d \in Sockets, sock'[d].owner = t PROVE NoEdits(sock'[d].up)
      <3>1. CASE d = k.socket
        BY <1>1, <2>1, <3>1
      <3>2. CASE d # k.socket
        <4>1. sock'[d] = sock[d]
          BY <1>2, <3>2 DEF Others
        <4>. QED
          BY <1>1, <1>2, <2>2, <3>2, <4>1 DEF Mail, Single, OwnSock
      <3>. QED
        BY <3>1, <3>2
    <2>3. /\ k2.own \in Nat /\ integrated[t].n \in Nat /\ DocOK(k2, integrated[t])
          /\ k2.gen \in Nat /\ integrated[t].gen \in Nat
      BY <1>3 DEF Typed, Mail, PageRec
    <2>4. InStep(k2, session) => Flowing(sock', t, k2.gen, Have(k2, integrated[t]), k2.own)
      BY <1>3 DEF Mail, Flow
    <2> HIDE DEF k2, r2
    <2>5. InStep(k2, session) => Have(k2, integrated[t]) = k2.own
      <3> DEFINE ss == sock'
                 v == integrated[t]
      <3>1. \A d \in Sockets : ss[d].owner = t => NoEdits(ss[d].up)
        BY <2>2
      <3>2. InStep(k2, session) => Flowing(ss, t, k2.gen, Have(k2, v), k2.own)
        BY <2>4
      <3>3. /\ k2.own \in Nat /\ v.n \in Nat /\ k2.gen \in Nat /\ v.gen \in Nat
            /\ DocOK(k2, v)
        BY <2>3
      <3> HIDE DEF ss, v
      <3>4. InStep(k2, session) => Have(k2, v) = k2.own
        BY <3>1, <3>2, <3>3, AllIn
      <3>. QED
        BY <3>4 DEF v
    <2>6. Counts(k2, r2, integrated[t], session)
      BY <1>1, <2>1, <2>3, <2>5 DEF Counts
    <2>. QED
      BY <1>1, <1>2, <2>6, OthersCount, CountedPage DEF k2, r2
  <1>. QED
    BY <1>4, <1>5

LEMMA CountedTypes ==
    ASSUME "early" \notin Env, Typed, Base, Channels, Counted, NEW t \in Tabs, Type(t)
    PROVE  Counted'
  <1> DEFINE k == tab[t]
             k2 == TypedPage(k)
             r == OwnSock(t)
             m == EditOf(t)
             v == integrated[t]
  <1>1. /\ Others(t) /\ tab'[t] = k2 /\ m \in UpFrames /\ k.prov.booted /\ k.prov.role = "editor"
        /\ \/ UNCHANGED sock /\ k.broke
           \/ k.socket \in Sockets /\ OnSock(k.socket, Said(r, m))
    BY TypeIs DEF OnPage
  <1>2. /\ k2.gen = k.gen /\ k2.bound = k.bound /\ k2.own = k.own + 1 /\ k2.broke = k.broke
        /\ k2.socket = k.socket /\ k2.prov.role = k.prov.role /\ k2.prov.booted = k.prov.booted
        /\ k2.prov.sent = SentNow(k)
    BY TypedPageIs DEF Typed
  <1>3. SentNow(k) = k.prov.sent + 1
    BY <1>1 DEF SentNow
  <1> HIDE DEF k2, m
  <1>4. ASSUME k2.socket # 0
        PROVE  Counts(k2, sock'[k2.socket], v, session)
    <2>1. /\ k.socket # 0 /\ Counts(k, r, v, session) /\ r \in SockRec
          /\ r.received \in Nat /\ k.own \in Nat /\ k.prov.sent \in Nat /\ Have(k, v) \in Nat
      BY <1>2, <1>4, OwnSocketIs, TabIs, SockRecIs DEF Counted
    <2>2. CASE k.broke
      BY <1>2, <2>2 DEF Counts, InStep
    <2>3. CASE k.socket \in Sockets /\ OnSock(k.socket, Said(r, m))
      <3>1. Said(r, m).client = r.client /\ Said(r, m).received = r.received
        BY <1>1, <2>1, SaidIs DEF Alike
      <3>2. sock'[k2.socket] = Said(r, m)
        BY <1>2, <2>3 DEF OnSock
      <3>3. Have(k2, v) = Have(k, v)
        BY <1>2 DEF Have
      <3>4. InStep(k2, session) = InStep(k, session)
        BY <1>2 DEF InStep
      <3> DEFINE h == Have(k, v)
                 h2 == Have(k2, v)
      <3> HIDE DEF h, h2, k, r
      <3>5. h + k.prov.sent = k.own + r.received =>
              h2 + k2.prov.sent = k2.own + sock'[k2.socket].received
        BY <1>2, <1>3, <2>1, <3>1, <3>2, <3>3 DEF h, h2
      <3>. QED
        BY <1>2, <2>1, <3>1, <3>2, <3>4, <3>5 DEF Counts, h, h2
    <2>. QED
      BY <1>1, <2>2, <2>3
  <1>. QED
    BY <1>1, <1>4, OthersCount, CountedPage

LEMMA CountedReceipt ==
    ASSUME Typed, Base, Channels, Mail, Counted, NEW c \in Sockets, ReceiptStep(c)
    PROVE  Counted'
  <1> SUFFICES ASSUME NEW t \in Tabs, tab[t].socket # 0
               PROVE  Counts(tab[t], sock'[tab[t].socket], integrated'[t], session)
    BY DEF Counted, OwnSock, ReceiptStep
  <1> DEFINE k == tab[t]
             d == k.socket
             m == sock[c].up[1]
  <1>1. /\ d \in Sockets /\ sock[d].owner = t /\ Paired(k, sock[d]) /\ sock[d].received \in Nat
        /\ Counts(k, sock[d], integrated[t], session)
        /\ k.gen \in Nat /\ Have(k, integrated[t]) \in Nat /\ k.own \in Nat /\ k.prov.sent \in Nat
    BY OwnSocketIs, TabIs, SockRecIs DEF Channels, Counted, OwnSock
  <1>2. /\ m.t = "edit" /\ 1 \in DOMAIN sock[c].up
        /\ sock'[c].client = sock[c].client /\ sock'[c].received = sock[c].received + 1
    BY ReceiptFacts
  <1> SUFFICES ASSUME sock'[d].client = "open", InStep(k, session), k.prov.booted,
                      k.prov.role = "editor"
               PROVE  Have(k, integrated'[t]) + k.prov.sent = k.own + sock'[d].received
    BY DEF Counts
  <1> HIDE DEF k, d
  <1>3. CASE d = c
    <2>1. Have(k, integrated[t]) + k.prov.sent = k.own + sock[d].received
      BY <1>1, <1>2, <1>3 DEF Counts
    <2>2. m.gen = k.gen
      BY <1>1, <1>2, <1>3 DEF Paired, Begun
    <2>3. Have(k, integrated'[t]) = Have(k, integrated[t]) + 1
      BY <1>1, <1>3, <2>2, ReceiptIsNext DEF k
    <2> DEFINE h == Have(k, integrated[t])
               h2 == Have(k, integrated'[t])
    <2> HIDE DEF h, h2
    <2>4. h2 + k.prov.sent = k.own + sock'[d].received
      BY <1>1, <1>2, <1>3, <2>1, <2>3 DEF h, h2
    <2>. QED
      BY <2>4 DEF h2
  <1>4. CASE d # c
    <2>1. sock[d].client = "open" /\ sock'[d].received = sock[d].received
      BY <1>1, <1>4 DEF ReceiptStep, Delivers, Passes
    <2>2. t # sock[c].owner
      BY <1>1, <1>2, <1>4, <2>1 DEF Mail, Single, NoEdits
    <2>3. integrated'[t] = integrated[t]
      BY <2>2, ReceiptIsOld
    <2>. QED
      BY <1>1, <2>1, <2>3 DEF Counts
  <1>. QED
    BY <1>3, <1>4

-----------------------------------------------------------------------------
(* All of it together, and what it says of a page that shows every edit as *)
(* received.                                                               *)
Receiving == Channels /\ Mail /\ Counted

LEMMA ReceivingInit ==
    ASSUME Init
    PROVE  Receiving
  <1>1. /\ Typed /\ session = 0 /\ nSessions = 0 /\ integrated = [t \in Tabs |-> Nothing]
        /\ \A t \in Tabs : \E w \in Nat, c \in Sockets :
             tab[t] = Page(c, w) /\ sock[c] = WaitingSocket(t)
        /\ \A c \in Sockets : \/ sock[c] = Unused
                              \/ \E t \in Tabs : sock[c] = WaitingSocket(t) /\ tab[t].socket = c
    BY InitIs
  <1>2. DOMAIN <<>> = {}
    BY EmptyIs
  <1>3. ASSUME NEW c \in Sockets
        PROVE  ChannelOK(sock[c]) /\ sock[c].sess = 0 /\ sock[c].up = <<>>
    <2>1. CASE sock[c] = Unused
      BY <1>2, <2>1 DEF Unused, ChannelOK, NoEdits, EndsOK, AcksUpTo, Unended
    <2>2. CASE \E t \in Tabs : sock[c] = WaitingSocket(t)
      <3>1. PICK t \in Tabs : sock[c] = WaitingSocket(t)
        BY <2>2
      <3> DEFINE r == WaitingSocket(t)
      <3>2. /\ r.client = "open" /\ r.server = "open" /\ r.role = "observer"
            /\ r.up = <<>> /\ r.down = <<>>
        BY WaitingSocketIs
      <3>3. r.sess = 0
        BY DEF WaitingSocket, Unused
      <3> HIDE DEF r
      <3>. QED
        BY <1>2, <3>1, <3>2, <3>3 DEF ChannelOK, NoEdits, EndsOK, AcksUpTo, Unended, r
    <2>. QED
      BY <1>1, <2>1, <2>2
  <1>4. ASSUME NEW t \in Tabs
        PROVE  LET k == tab[t] IN
               /\ k.gen = 1 /\ k.bound = 0 /\ k.own = 0 /\ k.prov.role = "observer"
               /\ ~k.prov.booted /\ k.prov.sent = 0 /\ k.prov.acked = 0
               /\ OwnSock(t) = WaitingSocket(t)
    <2>1. PICK w \in Nat, c \in Sockets : tab[t] = Page(c, w) /\ sock[c] = WaitingSocket(t)
      BY <1>1
    <2>. QED
      BY <2>1, ProviderIs DEF Page, OwnSock
  <1>5. Channels
    <2>1. ASSUME NEW t \in Tabs PROVE Paired(tab[t], OwnSock(t))
      <3> DEFINE k == tab[t]
                 r == OwnSock(t)
      <3>1. /\ k.prov.role = "observer" /\ ~k.prov.booted /\ k.prov.sent = 0 /\ k.prov.acked = 0
            /\ r.client = "open" /\ r.up = <<>> /\ ~r.joined /\ r.received = 0
        BY <1>4, WaitingSocketIs
      <3> HIDE DEF k, r
      <3>. QED
        BY <1>2, <3>1 DEF Paired, Begun, NoEdits, k, r
    <2>2. Alone
      BY <1>4 DEF Alone
    <2>3. Numbered
      BY <1>1, <1>3, <1>4 DEF Numbered
    <2>. QED
      BY <1>3, <2>1, <2>2, <2>3 DEF Channels
  <1>6. Mail
    <2>1. \A c \in Sockets : MailOK(sock[c]) /\ NoEdits(sock[c].up)
      BY <1>2, <1>3 DEF MailOK, Sorted, NoEdits
    <2>2. ASSUME NEW t \in Tabs PROVE DocOK(tab[t], integrated[t]) /\ Flow(t)
      <3>1. integrated[t].gen = 0
        BY <1>1 DEF Nothing
      <3>. QED
        BY <1>1, <1>4, <3>1 DEF DocOK, Flow, InStep
    <2>. QED
      BY <2>1, <2>2 DEF Mail, Single
  <1>7. Counted
    BY <1>4 DEF Counted, Counts
  <1>. QED
    BY <1>5, <1>6, <1>7 DEF Receiving

LEMMA StutterTends ==
    ASSUME Channels, UNCHANGED vars
    PROVE  Tended
  <1>1. ASSUME NEW d \in Sockets PROVE Passes(sock[d], sock'[d]) /\ Kept(d)
    <2>1. sock'[d] = sock[d] /\ Delivers(sock[d], sock[d])
      BY SameDelivers DEF vars, Channels
    <2>. QED
      BY <2>1, DeliversKeeps DEF Delivers, Kept
  <1>. QED
    BY <1>1 DEF vars, Tended

LEMMA ReceivingTended ==
    ASSUME Typed, Base, Receiving, Tended
    PROVE  Receiving'
  <1>1. Channels' /\ Counted'
    BY ChannelsTended, CountedTended DEF Receiving
  <1>2. Mail'
    BY TendedTreats, TreatedKeeps DEF Receiving
  <1>. QED
    BY <1>1, <1>2 DEF Receiving

LEMMA ReceivingPage ==
    ASSUME "early" \notin Env, Typed, Typed', Base, Receiving, NEW t \in Tabs,
           Stays(t) \/ Moves(t) \/ Opens(t) \/ Boots(t) \/ Type(t)
    PROVE  Receiving'
  <1>1. Channels /\ Mail /\ Counted
    BY DEF Receiving
  <1>2. CASE Stays(t)
    BY <1>1, <1>2, ChannelsStays, StaysTreats, TreatedKeeps, CountedStays DEF Receiving
  <1>3. CASE Moves(t)
    BY <1>1, <1>3, ChannelsMoves, MovesTreats, TreatedKeeps, CountedMoves DEF Receiving
  <1>4. CASE Opens(t)
    BY <1>1, <1>4, ChannelsOpens, OpensTreats, TreatedKeeps, CountedOpens DEF Receiving
  <1>5. CASE Boots(t)
    <2>1. Channels' /\ Mail'
      BY <1>1, <1>5, ChannelsBoots, BootsTreats, TreatedKeeps
    <2>2. Counted'
      BY <1>1, <1>5, <2>1, CountedBoots
    <2>. QED
      BY <2>1, <2>2 DEF Receiving
  <1>6. CASE Type(t)
    BY <1>1, <1>6, ChannelsTypes, MailTypes, CountedTypes DEF Receiving
  <1>. QED
    BY <1>2, <1>3, <1>4, <1>5, <1>6

LEMMA ReceivingStep ==
    ASSUME "early" \notin Env, "unasked" \notin Env, Typed, Typed', Base, Receiving, [Next]_vars
    PROVE  Receiving'
  <1>1. Channels /\ Mail /\ Counted
    BY DEF Receiving
  <1>2. CASE UNCHANGED vars
    BY <1>1, <1>2, StutterTends, ReceivingTended
  <1>3. ASSUME NEW t \in Tabs, PageStep(t) PROVE Receiving'
    BY <1>1, <1>3, PageMoves, ReceivingPage
  <1>4. ASSUME NEW c \in Sockets, ServerStep(c) PROVE Receiving'
    <2>1. CASE Tended
      BY <2>1, ReceivingTended
    <2>2. CASE ReceiptStep(c)
      BY <1>1, <2>2, ChannelsReceipt, MailReceipt, CountedReceipt DEF Receiving
    <2>. QED
      BY <1>1, <1>4, <2>1, <2>2, ServerTends
  <1>5. ASSUME NEW c \in Sockets, Drop(c) PROVE Receiving'
    BY <1>1, <1>5, DropStays, ReceivingPage
  <1>6. ASSUME NEW c \in Sockets, TokenExpired(c) PROVE Receiving'
    BY <1>1, <1>6, ExpiryTends, ReceivingTended
  <1>7. CASE \/ PauseStart \/ PauseEnd \/ Lockdown
             \/ Invalidate("restore", "replaced") \/ Invalidate("delete", "deleted")
    BY <1>1, <1>7, CommonTends, ReceivingTended
  <1>. QED
    BY <1>2, <1>3, <1>4, <1>5, <1>6, <1>7, NextIs

(* A page that has every edit it sent acknowledged has them in the Y.Doc.  *)
LEMMA ReceivingIsTrue ==
    ASSUME Typed, Base, Receiving
    PROVE  AllReceivedTrue
  <1> SUFFICES ASSUME NEW t \in Tabs, Received(t), ~tab[t].broke, tab[t].own # 0
               PROVE  integrated[t] = [gen |-> tab[t].gen, n |-> tab[t].own]
    BY DEF AllReceivedTrue, HasEdits
  <1> DEFINE k == tab[t]
             r == OwnSock(t)
             v == integrated[t]
  <1>1. /\ k.pipe = "live" /\ k.bound # 0 /\ k.bound = session /\ k.prov.role = "editor"
        /\ k.prov.booted /\ k.prov.acked >= k.prov.sent
    BY DEF Received, Bound
  <1>2. k.socket # 0
    BY <1>1 DEF Receiving, Channels, Alone
  <1>3. /\ r.client \in Held /\ Paired(k, r) /\ r.received \in Nat
        /\ Counts(k, r, v, session)
    BY <1>2, OwnSocketIs, SockRecIs DEF Receiving, Channels, Counted
  <1>4. /\ k.own \in Nat /\ k.gen \in Nat /\ k.prov.sent \in Nat /\ k.prov.acked \in Nat
        /\ v.gen \in Nat /\ v.n \in Nat /\ v \in [gen : Nat, n : Nat] /\ DocOK(k, v)
    BY TabIs DEF Receiving, Mail, Typed
  <1>5. r.client = "open" /\ InStep(k, session)
    BY <1>1, <1>3 DEF Held, Paired, InStep
  <1>6. Have(k, v) + k.prov.sent = k.own + r.received /\ k.prov.acked <= r.received
    BY <1>1, <1>3, <1>5 DEF Counts, Paired, Begun
  <1> HIDE DEF k, r, v
  <1>7. Have(k, v) \in Nat
    BY <1>4 DEF Have
  <1> DEFINE h == Have(k, v)
  <1>8. h >= k.own
    <2> HIDE DEF h
    <2>. QED
      BY <1>1, <1>3, <1>4, <1>6, <1>7 DEF h
  <1>9. v.gen = k.gen /\ v.n = h
    <2>1. k.own # 0
      BY DEF k
    <2>. QED
      BY <1>4, <1>8, <2>1 DEF Have
  <1>10. v.n = k.own
    BY <1>4, <1>8, <1>9 DEF DocOK
  <1>. QED
    BY <1>4, <1>9, <1>10 DEF k, v

(* The receipt watermark (section-save-state.ts): a page that shows every  *)
(* edit as received has each of them in the server's Y.Doc, whatever the   *)
(* clicks, closes, reconnects, pauses and sessions in between, as long as  *)
(* no connection of its replica has lost a frame.  The keys wait for the   *)
(* bootstrap, and the first editor finds no socket that has not asked yet. *)
THEOREM ReceiptsAreTrue ==
    ASSUME "early" \notin Env, "unasked" \notin Env
    PROVE  Spec => []AllReceivedTrue
  <1> DEFINE Inv == Typed /\ Base /\ Receiving
  <1>1. Init => Inv
    BY InitIs, BaseInit, ReceivingInit
  <1>2. Inv /\ [Next]_vars => Inv'
    <2> SUFFICES ASSUME Inv, [Next]_vars PROVE Inv'
      OBVIOUS
    <2>1. Typed' /\ Base'
      BY WiredStep, BaseStep DEF Base
    <2>2. Receiving'
      BY <2>1, ReceivingStep
    <2>. QED
      BY <2>1, <2>2
  <1>3. Inv => AllReceivedTrue
    BY ReceivingIsTrue
  <1>. QED
    BY <1>1, <1>2, <1>3, PTL DEF Spec
=============================================================================
