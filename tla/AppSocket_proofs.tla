--------------------------- MODULE AppSocket_proofs ---------------------------
(***************************************************************************)
(* Proofs about AppSocket for any number of pages, documents, sockets,     *)
(* messages and faults, and whatever the environment may do (Env): the hub *)
(* comes to have what its clients believe it has.                          *)
(*                                                                         *)
(* HubKnowsTabs speaks of sockets with nothing under way and is not        *)
(* inductive.  What is: the last frame about a document, or a page, among  *)
(* those under way says what the client wants, and where there is none the *)
(* hub has it already (WillShow, WillHide, WillKnow, WillForget).          *)
(***************************************************************************)
EXTENDS AppSocket, FiniteSetTheorems, TLAPS

-----------------------------------------------------------------------------
(* Sequences of frames.                                                      *)

LEMMA EmptyIs ==
    ASSUME NEW S
    PROVE  <<>> \in Seq(S) /\ DOMAIN <<>> = {} /\ Len(<<>>) = 0
  OBVIOUS

LEMMA AppendIs ==
    ASSUME NEW S, NEW q \in Seq(S), NEW m \in S
    PROVE  /\ Append(q, m) \in Seq(S) /\ Append(q, m) # <<>>
           /\ DOMAIN q = 1 .. Len(q) /\ Len(q) \in Nat
           /\ DOMAIN Append(q, m) = 1 .. Len(q) + 1
           /\ \A i \in 1 .. Len(q) : Append(q, m)[i] = q[i]
           /\ Append(q, m)[Len(q) + 1] = m
  <1>1. /\ Append(q, m) \in Seq(S) /\ Len(Append(q, m)) = Len(q) + 1
        /\ DOMAIN q = 1 .. Len(q) /\ Len(q) \in Nat
        /\ \A i \in 1 .. Len(q) : Append(q, m)[i] = q[i]
        /\ Append(q, m)[Len(q) + 1] = m
    OBVIOUS
  <1>2. DOMAIN Append(q, m) = 1 .. Len(q) + 1
    BY <1>1
  <1>3. Append(q, m) # <<>>
    BY <1>1, EmptyIs
  <1>. QED
    BY <1>1, <1>2, <1>3

LEMMA TailIs ==
    ASSUME NEW S, NEW q \in Seq(S), q # <<>>
    PROVE  /\ Tail(q) \in Seq(S) /\ Len(q) \in Nat /\ Len(q) > 0
           /\ DOMAIN q = 1 .. Len(q)
           /\ DOMAIN Tail(q) = 1 .. Len(q) - 1
           /\ \A i \in 1 .. Len(q) - 1 : Tail(q)[i] = q[i + 1]
           /\ Head(q) = q[1] /\ Head(q) \in S
  OBVIOUS

LEMMA ConcatIs ==
    ASSUME NEW S, NEW q \in Seq(S), NEW r \in Seq(S)
    PROVE  /\ q \o r \in Seq(S) /\ Len(q) \in Nat /\ Len(r) \in Nat
           /\ DOMAIN q = 1 .. Len(q) /\ DOMAIN r = 1 .. Len(r)
           /\ DOMAIN (q \o r) = 1 .. Len(q) + Len(r)
           /\ \A i \in 1 .. Len(q) : (q \o r)[i] = q[i]
           /\ \A i \in 1 .. Len(r) : (q \o r)[Len(q) + i] = r[i]
  OBVIOUS

(* A frame of one of the kinds K about x; no such frame in q; the last such *)
(* frame in q is of a kind of P.                                            *)
About(f, K, x) == f[1] \in K /\ f[2] = x
Quiet(q, K, x) == \A i \in DOMAIN q : ~About(q[i], K, x)
Ends(q, K, x, P) ==
  \E i \in DOMAIN q : /\ About(q[i], P, x)
                      /\ \A j \in DOMAIN q : j > i => ~About(q[j], K, x)

LEMMA ConcatEnds ==
    ASSUME NEW S, NEW q \in Seq(S), NEW r \in Seq(S), NEW K, NEW x, NEW P
    PROVE  /\ Ends(r, K, x, P) => Ends(q \o r, K, x, P)
           /\ Quiet(r, K, x) /\ Ends(q, K, x, P) => Ends(q \o r, K, x, P)
           /\ Quiet(r, K, x) /\ Quiet(q, K, x) => Quiet(q \o r, K, x)
  <1> DEFINE m == Len(q)
             n == Len(r)
             s == q \o r
  <1>1. /\ m \in Nat /\ n \in Nat /\ DOMAIN q = 1 .. m /\ DOMAIN r = 1 .. n
        /\ DOMAIN s = 1 .. m + n
        /\ \A i \in 1 .. m : s[i] = q[i]
        /\ \A i \in 1 .. n : s[m + i] = r[i]
    BY ConcatIs
  <1> HIDE DEF m, n, s
  <1>2. \A j \in 1 .. m + n : j \in 1 .. m \/ (j - m \in 1 .. n /\ s[j] = r[j - m])
    <2> SUFFICES ASSUME NEW j \in 1 .. m + n, j \notin 1 .. m
                 PROVE  j - m \in 1 .. n /\ s[j] = r[j - m]
      OBVIOUS
    <2>1. j - m \in 1 .. n /\ m + (j - m) = j
      BY <1>1
    <2>. QED
      BY <1>1, <2>1
  <1>3. ASSUME Ends(r, K, x, P)
        PROVE  Ends(s, K, x, P)
    <2>1. PICK i \in 1 .. n : About(r[i], P, x) /\ \A j \in 1 .. n : j > i => ~About(r[j], K, x)
      BY <1>1, <1>3 DEF Ends
    <2>2. m + i \in 1 .. m + n /\ About(s[m + i], P, x)
      BY <1>1, <2>1
    <2>3. ASSUME NEW j \in 1 .. m + n, j > m + i
          PROVE  ~About(s[j], K, x)
      <3>1. j \notin 1 .. m /\ j - m > i
        BY <1>1, <2>3
      <3>. QED
        BY <1>2, <2>1, <3>1
    <2>. QED
      BY <1>1, <2>2, <2>3 DEF Ends
  <1>4. ASSUME Quiet(r, K, x), Ends(q, K, x, P)
        PROVE  Ends(s, K, x, P)
    <2>1. PICK i \in 1 .. m : About(q[i], P, x) /\ \A j \in 1 .. m : j > i => ~About(q[j], K, x)
      BY <1>1, <1>4 DEF Ends
    <2>2. i \in 1 .. m + n /\ About(s[i], P, x)
      BY <1>1, <2>1
    <2>3. \A j \in 1 .. m + n : j > i => ~About(s[j], K, x)
      BY <1>1, <1>2, <1>4, <2>1 DEF Quiet
    <2>. QED
      BY <1>1, <2>2, <2>3 DEF Ends
  <1>5. ASSUME Quiet(r, K, x), Quiet(q, K, x)
        PROVE  Quiet(s, K, x)
    BY <1>1, <1>2, <1>5 DEF Quiet
  <1>. QED
    BY <1>3, <1>4, <1>5 DEF s

LEMMA AppendEnds ==
    ASSUME NEW S, NEW q \in Seq(S), NEW f \in S, NEW K, NEW x, NEW P
    PROVE  /\ About(f, P, x) => Ends(Append(q, f), K, x, P)
           /\ ~About(f, K, x) /\ Ends(q, K, x, P) => Ends(Append(q, f), K, x, P)
           /\ ~About(f, K, x) /\ Quiet(q, K, x) => Quiet(Append(q, f), K, x)
  <1> DEFINE m == Len(q)
             s == Append(q, f)
  <1>1. /\ m \in Nat /\ DOMAIN q = 1 .. m /\ DOMAIN s = 1 .. m + 1
        /\ \A i \in 1 .. m : s[i] = q[i]
        /\ s[m + 1] = f
    BY AppendIs
  <1> HIDE DEF m, s
  <1>2. m + 1 \in 1 .. m + 1 /\ \A j \in 1 .. m + 1 : j \in 1 .. m \/ j = m + 1
    BY <1>1
  <1>3. ASSUME About(f, P, x)
        PROVE  Ends(s, K, x, P)
    <2>1. \A j \in 1 .. m + 1 : ~(j > m + 1)
      BY <1>1
    <2>. QED
      BY <1>1, <1>2, <1>3, <2>1 DEF Ends
  <1>4. ASSUME ~About(f, K, x), Ends(q, K, x, P)
        PROVE  Ends(s, K, x, P)
    <2>1. PICK i \in 1 .. m : About(q[i], P, x) /\ \A j \in 1 .. m : j > i => ~About(q[j], K, x)
      BY <1>1, <1>4 DEF Ends
    <2>2. i \in 1 .. m + 1 /\ About(s[i], P, x)
      BY <1>1, <2>1
    <2>3. \A j \in 1 .. m + 1 : j > i => ~About(s[j], K, x)
      BY <1>1, <1>2, <1>4, <2>1
    <2>. QED
      BY <1>1, <2>2, <2>3 DEF Ends
  <1>5. ASSUME ~About(f, K, x), Quiet(q, K, x)
        PROVE  Quiet(s, K, x)
    BY <1>1, <1>2, <1>5 DEF Quiet
  <1>. QED
    BY <1>3, <1>4, <1>5 DEF s

LEMMA TailEnds ==
    ASSUME NEW S, NEW q \in Seq(S), q # <<>>, NEW K, NEW x, NEW P
    PROVE  /\ Quiet(q, K, x) => Quiet(Tail(q), K, x)
           /\ Ends(q, K, x, P) => \/ Ends(Tail(q), K, x, P)
                                  \/ Quiet(Tail(q), K, x) /\ About(Head(q), P, x)
  <1> DEFINE m == Len(q)
             s == Tail(q)
  <1>1. /\ m \in Nat /\ m > 0 /\ DOMAIN q = 1 .. m /\ DOMAIN s = 1 .. m - 1
        /\ \A i \in 1 .. m - 1 : s[i] = q[i + 1]
        /\ Head(q) = q[1]
    BY TailIs
  <1> HIDE DEF m, s
  <1>2. \A j \in 1 .. m - 1 : j + 1 \in 1 .. m /\ j + 1 > 1
    BY <1>1
  <1>3. ASSUME Quiet(q, K, x)
        PROVE  Quiet(s, K, x)
    BY <1>1, <1>2, <1>3 DEF Quiet
  <1>4. ASSUME Ends(q, K, x, P)
        PROVE  Ends(s, K, x, P) \/ (Quiet(s, K, x) /\ About(Head(q), P, x))
    <2>1. PICK i \in 1 .. m : About(q[i], P, x) /\ \A j \in 1 .. m : j > i => ~About(q[j], K, x)
      BY <1>1, <1>4 DEF Ends
    <2>2. CASE i = 1
      <3>1. Quiet(s, K, x)
        BY <1>1, <1>2, <2>1, <2>2 DEF Quiet
      <3>. QED
        BY <1>1, <2>1, <2>2, <3>1
    <2>3. CASE i # 1
      <3>1. i - 1 \in 1 .. m - 1 /\ (i - 1) + 1 = i
        BY <1>1, <2>3
      <3>2. About(s[i - 1], P, x)
        BY <1>1, <2>1, <3>1
      <3>3. ASSUME NEW j \in 1 .. m - 1, j > i - 1
            PROVE  ~About(s[j], K, x)
        <4>1. j + 1 \in 1 .. m /\ j + 1 > i
          BY <1>1, <3>3
        <4>. QED
          BY <1>1, <2>1, <4>1
      <3>. QED
        BY <1>1, <3>1, <3>2, <3>3 DEF Ends
    <2>. QED
      BY <2>2, <2>3
  <1>. QED
    BY <1>3, <1>4 DEF s

(* What the code sends of a set, in whatever order.                         *)
LEMMA SetToSeqIs ==
    ASSUME NEW S, IsFiniteSet(S)
    PROVE  /\ SetToSeq(S) \in Seq(S)
           /\ \A x \in S : \E i \in DOMAIN SetToSeq(S) : SetToSeq(S)[i] = x
           /\ \A i, j \in DOMAIN SetToSeq(S) : SetToSeq(S)[i] = SetToSeq(S)[j] => i = j
  <1> DEFINE n == Cardinality(S)
             f == SetToSeq(S)
  <1>1. n \in Nat /\ \E g : g \in Bijection(1 .. n, S)
    BY FS_CardinalityType DEF ExistsBijection
  <1>2. \E g \in [1 .. n -> S] : IsInjective(g)
    BY <1>1 DEF Bijection, Injection
  <1>3. f \in [1 .. n -> S] /\ IsInjective(f)
    BY <1>2 DEF SetToSeq
  <1> HIDE DEF f
  <1>4. f \in Surjection(1 .. n, S)
    <2>1. f \in Injection(1 .. n, S)
      BY <1>3 DEF Injection
    <2>2. Cardinality(1 .. n) = n
      BY <1>1, FS_Interval
    <2>. QED
      BY <1>1, <2>1, <2>2, FS_Injection
  <1>5. f \in Seq(S)
    BY <1>1, <1>3
  <1>6. \A x \in S : \E i \in DOMAIN f : f[i] = x
    BY <1>3, <1>4 DEF Surjection
  <1>7. \A i, j \in DOMAIN f : f[i] = f[j] => i = j
    BY <1>3 DEF IsInjective
  <1>. QED
    BY <1>5, <1>6, <1>7 DEF f

LEMMA FramesIs ==
    ASSUME NEW kind, NEW S, IsFiniteSet(S)
    PROVE  /\ Frames(kind, S) \in Seq({kind} \X S)
           /\ \A x, K, P : kind \in P /\ x \in S => Ends(Frames(kind, S), K, x, P)
           /\ \A x, K : kind \notin K \/ x \notin S => Quiet(Frames(kind, S), K, x)
  <1> DEFINE T == {<<kind, x>> : x \in S}
             f == SetToSeq(T)
  <1>1. IsFiniteSet(T)
    <2> DEFINE g == [x \in S |-> <<kind, x>>]
    <2>1. g \in Surjection(S, T)
      BY DEF Surjection
    <2>. QED
      BY <2>1, FS_Surjection
  <1>2. /\ f \in Seq(T)
        /\ \A x \in T : \E i \in DOMAIN f : f[i] = x
        /\ \A i, j \in DOMAIN f : f[i] = f[j] => i = j
    BY <1>1, SetToSeqIs
  <1>3. Frames(kind, S) = f
    BY DEF Frames
  <1> HIDE DEF f
  <1>4. T = {kind} \X S
    OBVIOUS
  <1>5. \A i \in DOMAIN f : f[i] \in T
    BY <1>2
  <1>6. \A i \in DOMAIN f : f[i][1] = kind /\ f[i][2] \in S /\ f[i] = <<kind, f[i][2]>>
    BY <1>5
  <1>7. ASSUME NEW x, NEW K, NEW P, kind \in P, x \in S
        PROVE  Ends(f, K, x, P)
    <2>1. PICK i \in DOMAIN f : f[i] = <<kind, x>>
      BY <1>2, <1>7
    <2>2. \A j \in DOMAIN f : f[j][2] = x => j = i
      BY <1>2, <1>6, <2>1
    <2>3. \A j \in DOMAIN f : j > i => ~About(f[j], K, x)
      <3>1. DOMAIN f \subseteq Int
        BY <1>2
      <3>. QED
        BY <2>2, <3>1 DEF About
    <2>. QED
      BY <1>7, <2>1, <2>3 DEF Ends, About
  <1>8. ASSUME NEW x, NEW K, kind \notin K \/ x \notin S
        PROVE  Quiet(f, K, x)
    BY <1>6, <1>8 DEF Quiet, About
  <1>. QED
    BY <1>2, <1>3, <1>4, <1>7, <1>8

-----------------------------------------------------------------------------
(* The invariant.                                                            *)

DocKinds == {"open", "opened", "closed"}
IdKinds == {"identify", "tab_gone"}
Shows == {"open", "opened"}
Hides == {"closed"}
Live == {"opening", "open", "broken"}
Counts == 0 .. MaxChanges + 1

UpFrames == ({"open", "closed"} \X Docs) \cup (IdKinds \X Tabs)
ChainFrames == DocKinds \X Docs

ClientRec == [leads : BOOLEAN, sock : 0 .. MaxSockets, retry : BOOLEAN,
              docs : SUBSET Docs, ids : SUBSET Tabs]
SockRec == [owner : Owners, client : Live \cup {"closing", "done"}, server : BOOLEAN,
            docs : SUBSET Docs, ids : SUBSET Tabs,
            up : Seq(UpFrames), chain : Seq(ChainFrames), down : Seq(Docs \X Counts)]
NetRec == [client : [Owners -> ClientRec], sock : [Sockets -> SockRec]]

(* What the hub will have of document d, or of page t, when it has handled  *)
(* all that is under way on socket s.                                       *)
WillShow(s, d) ==
  \/ Ends(s.up, DocKinds, d, Shows)
  \/ Quiet(s.up, DocKinds, d) /\ Ends(s.chain, DocKinds, d, Shows)
  \/ Quiet(s.up, DocKinds, d) /\ Quiet(s.chain, DocKinds, d) /\ d \in s.docs
WillHide(s, d) ==
  \/ Ends(s.up, DocKinds, d, Hides)
  \/ Quiet(s.up, DocKinds, d) /\ Ends(s.chain, DocKinds, d, Hides)
  \/ Quiet(s.up, DocKinds, d) /\ Quiet(s.chain, DocKinds, d) /\ d \notin s.docs
WillKnow(s, t) ==
  \/ Ends(s.up, IdKinds, t, {"identify"})
  \/ Quiet(s.up, IdKinds, t) /\ t \in s.ids
WillForget(s, t) ==
  \/ Ends(s.up, IdKinds, t, {"tab_gone"})
  \/ Quiet(s.up, IdKinds, t) /\ t \notin s.ids

(* A socket in itself: the hub has nothing of a socket it does not have; an *)
(* open that waits for its snapshot is at the head of the chain.            *)
SockOK(s) ==
  /\ ~s.server => s.docs = {} /\ s.ids = {} /\ s.up = <<>> /\ s.chain = <<>>
  /\ s.client = "opening" => ~s.server
  /\ s.client = "open" => s.server
  /\ \A i \in DOMAIN s.chain : s.chain[i][1] = "opened" => i = 1 /\ s.chain[1][2] \in s.docs

(* Client record k and its socket s.                                        *)
Told(k, s) ==
  s.client = "open" =>
    /\ \A d \in Docs : IF d \in k.docs THEN WillShow(s, d) ELSE WillHide(s, d)
    /\ s.owner # Worker => \A t \in Tabs : IF t \in k.ids THEN WillKnow(s, t) ELSE WillForget(s, t)

Linked(n) ==
  /\ \A o \in Owners : n.client[o].sock # 0 =>
       n.sock[n.client[o].sock].owner = o /\ n.sock[n.client[o].sock].client \in Live
  /\ \A c \in Sockets : n.sock[c].client \in Live => n.client[n.sock[c].owner].sock = c

NetOK(n) ==
  /\ n \in NetRec
  /\ Linked(n)
  /\ \A c \in Sockets : SockOK(n.sock[c]) /\ Told(n.client[n.sock[c].owner], n.sock[c])

(* The worker's socket, where D is open and K known to the worker.          *)
WorkerOK(n, D, K) ==
  IsOpen(n, Worker) =>
    /\ n.client[Worker].docs = D
    /\ \A t \in K : WillKnow(n.sock[n.client[Worker].sock], t)

(* A hub's snapshot job is the only one for its socket, whose chain waits   *)
(* for it.                                                                  *)
Jobs == [to : {Nobody, 0} \cup Sockets, v : Counts]
JobsOK(js, S) ==
  /\ js \in [Docs -> Seq(Jobs)]
  /\ \A d \in Docs : \A i \in DOMAIN js[d] : js[d][i].to \in Sockets =>
       /\ S[js[d][i].to].chain # <<>> /\ S[js[d][i].to].chain[1] = <<"opened", d>>
       /\ \A j \in DOMAIN js[d] : js[d][j].to = js[d][i].to => j = i

TabRec == [mode : {"off", "worker", "fallback", "gone"}, acked : BOOLEAN, awake : BOOLEAN,
           open : SUBSET Docs, known : BOOLEAN, gen : 0 .. MaxPorts, seen : [Docs -> Counts]]
Messages == [t : {"register", "unregister"}] \cup [t : {"state"}, s : Views]

Typed ==
  /\ tab \in [Tabs -> TabRec]
  /\ port \in [Tabs -> 0 .. MaxPorts]
  /\ view \in [Owners -> [Tabs -> Views]]
  /\ up \in [Tabs -> [Ports -> Seq(Messages)]]
  /\ activity \in [Docs -> 1 .. MaxChanges + 1]

Inv ==
  /\ Typed
  /\ NetOK(Net)
  /\ WorkerOK(Net, Desired(view[Worker]), Known(view[Worker]))
  /\ JobsOK(jobs, sock)

-----------------------------------------------------------------------------
(* A socket.                                                                 *)

LEMMA Sets ==
    /\ Worker \in Owners /\ Worker \notin Tabs /\ Tabs \subseteq Owners /\ Worker = 0
    /\ Owners \subseteq Nat /\ Sockets \subseteq Nat /\ 0 \notin Sockets
    /\ Sockets \subseteq 0 .. MaxSockets
    /\ 0 .. MaxSockets = {0} \cup Sockets
    /\ MaxSockets \in Nat /\ MaxPorts \in Nat /\ MaxChanges \in Nat
    /\ 0 \in Counts /\ 0 \in 0 .. MaxPorts
    /\ Nobody \notin Sockets /\ Nobody # 0
  BY AppSocketAssumption DEF Worker, Owners, Tabs, Sockets, Counts, Nobody

LEMMA FiniteSets ==
    /\ \A S \in SUBSET Docs : IsFiniteSet(S)
    /\ \A S \in SUBSET Tabs : IsFiniteSet(S)
  <1>1. IsFiniteSet(Tabs)
    BY AppSocketAssumption, FS_Interval DEF Tabs
  <1>. QED
    BY <1>1, AppSocketAssumption, FS_Subset

LEMMA EmptyRec ==
    /\ Free \in SockRec /\ Idle \in ClientRec /\ SockOK(Free)
  BY Sets, EmptyIs DEF Free, Idle, SockRec, ClientRec, SockOK, Live

(* No frame is about documents and pages both.                              *)
LEMMA KindsApart ==
    /\ \A f \in {"open", "closed"} \X Docs : \A t : ~About(f, IdKinds, t)
    /\ \A f \in IdKinds \X Tabs : \A d : ~About(f, DocKinds, d)
    /\ \A f \in {"open", "closed"} \X Docs : f \in ChainFrames /\ f \in UpFrames /\ f[1] # "opened"
    /\ \A f \in IdKinds \X Tabs : f \in UpFrames
    /\ Seq({"open", "closed"} \X Docs) \subseteq Seq(UpFrames)
    /\ Seq(IdKinds \X Tabs) \subseteq Seq(UpFrames)
  BY DEF About, IdKinds, DocKinds, ChainFrames, UpFrames

(* Frames added to what is under way: those that say something count, the   *)
(* others change nothing.                                                   *)
Adds(s, fs) == [s EXCEPT !.up = @ \o fs]
LEMMA Added ==
    ASSUME NEW s \in SockRec, NEW fs \in Seq(UpFrames), NEW x,
           NEW s2, s2 = Adds(s, fs)
    PROVE  /\ s2 \in SockRec
           /\ Ends(fs, DocKinds, x, Shows) => WillShow(s2, x)
           /\ Ends(fs, DocKinds, x, Hides) => WillHide(s2, x)
           /\ Quiet(fs, DocKinds, x) => /\ WillShow(s, x) => WillShow(s2, x)
                                        /\ WillHide(s, x) => WillHide(s2, x)
           /\ Ends(fs, IdKinds, x, {"identify"}) => WillKnow(s2, x)
           /\ Ends(fs, IdKinds, x, {"tab_gone"}) => WillForget(s2, x)
           /\ Quiet(fs, IdKinds, x) => /\ WillKnow(s, x) => WillKnow(s2, x)
                                       /\ WillForget(s, x) => WillForget(s2, x)
  <1>1. s.up \in Seq(UpFrames)
    BY DEF SockRec
  <1>2. /\ s2.up = s.up \o fs /\ s2.chain = s.chain /\ s2.docs = s.docs /\ s2.ids = s.ids
    BY DEF SockRec, Adds
  <1>3. s.up \o fs \in Seq(UpFrames)
    BY <1>1, ConcatIs
  <1>4. s2 \in SockRec
    BY <1>3 DEF SockRec, Adds
  <1>5. \A K, P : /\ Ends(fs, K, x, P) => Ends(s2.up, K, x, P)
                  /\ Quiet(fs, K, x) /\ Ends(s.up, K, x, P) => Ends(s2.up, K, x, P)
                  /\ Quiet(fs, K, x) /\ Quiet(s.up, K, x) => Quiet(s2.up, K, x)
    BY <1>1, <1>2, ConcatEnds
  <1>. QED
    BY <1>2, <1>4, <1>5 DEF WillShow, WillHide, WillKnow, WillForget

-----------------------------------------------------------------------------
(* What a client does to its socket.                                         *)

CanDialIn(n, o) == n.client[o].sock # 0 \/ \E c \in Sockets : n.sock[c] = Free
SameChains(n, m) == \A c \in Sockets : m.sock[c].chain = n.sock[c].chain
Kept(n, m) == /\ NetOK(m) /\ SameChains(n, m)
              /\ \A p \in Owners : CanDialIn(n, p) => CanDialIn(m, p)

(* Client o sends fs and believes the hub to have D and I.                  *)
Put(n, o, k, c, s) == [client |-> [n.client EXCEPT ![o] = k], sock |-> [n.sock EXCEPT ![c] = s]]
Believes(k, D, I) == [k EXCEPT !.docs = D, !.ids = I]
Said(n, o, fs, D, I) ==
  Put(n, o, Believes(n.client[o], D, I),
      n.client[o].sock, Adds(n.sock[n.client[o].sock], fs))

LEMMA NetParts ==
    ASSUME NEW n, NetOK(n), NEW o \in Owners
    PROVE  /\ n.client \in [Owners -> ClientRec] /\ n.sock \in [Sockets -> SockRec]
           /\ n.client[o] \in ClientRec
           /\ n.client[o].sock \in {0} \cup Sockets
           /\ n.client[o].docs \in SUBSET Docs /\ n.client[o].ids \in SUBSET Tabs
           /\ n.client[o].sock # 0 => /\ n.client[o].sock \in Sockets
                                      /\ n.sock[n.client[o].sock] \in SockRec
                                      /\ n.sock[n.client[o].sock].owner = o
                                      /\ n.sock[n.client[o].sock].client \in Live
           /\ n = [client |-> n.client, sock |-> n.sock]
  <1>1. n \in NetRec
    BY DEF NetOK
  <1>2. n.client \in [Owners -> ClientRec] /\ n.sock \in [Sockets -> SockRec]
        /\ n = [client |-> n.client, sock |-> n.sock]
    BY <1>1 DEF NetRec
  <1>3. n.client[o] \in ClientRec
    BY <1>2
  <1>4. n.client[o].sock \in {0} \cup Sockets
        /\ n.client[o].docs \in SUBSET Docs /\ n.client[o].ids \in SUBSET Tabs
    BY <1>3, Sets DEF ClientRec
  <1>5. n.client[o].sock # 0 => n.sock[n.client[o].sock].owner = o
                                 /\ n.sock[n.client[o].sock].client \in Live
    BY DEF NetOK, Linked
  <1>. QED
    BY <1>2, <1>3, <1>4, <1>5

SaidFacts(n, o, fs, D, I, m, c) ==
  /\ c \in Sockets /\ n.sock[c] \in SockRec /\ n.sock[c].owner = o
  /\ n.sock[c].client = "open"
  /\ m \in NetRec
  /\ m.client[o] = Believes(n.client[o], D, I)
  /\ \A p \in Owners : p # o => m.client[p] = n.client[p]
  /\ m.sock[c] = Adds(n.sock[c], fs)
  /\ m.sock[c] \in SockRec
  /\ \A b \in Sockets : b # c => m.sock[b] = n.sock[b]

LEMMA SaidIs ==
    ASSUME NEW n, NetOK(n), NEW o \in Owners, IsOpen(n, o),
           NEW fs \in Seq(UpFrames), NEW D \in SUBSET Docs, NEW I \in SUBSET Tabs,
           NEW m, m = Said(n, o, fs, D, I), NEW c, c = n.client[o].sock
    PROVE  SaidFacts(n, o, fs, D, I, m, c)
  <1>1. /\ n.client \in [Owners -> ClientRec] /\ n.sock \in [Sockets -> SockRec]
        /\ c \in Sockets /\ n.sock[c] \in SockRec /\ n.sock[c].owner = o
        /\ n.client[o] \in ClientRec
    BY NetParts DEF IsOpen
  <1> DEFINE k2 == Believes(n.client[o], D, I)
             s2 == Adds(n.sock[c], fs)
  <1>2. k2 \in ClientRec
    BY <1>1 DEF ClientRec, Believes
  <1>3. s2 \in SockRec
    BY <1>1, Added
  <1>4. m.client = [n.client EXCEPT ![o] = k2] /\ m.sock = [n.sock EXCEPT ![c] = s2]
        /\ m = [client |-> m.client, sock |-> m.sock]
    <2>1. m = Put(n, o, k2, c, s2)
      BY DEF Said
    <2> HIDE DEF k2, s2
    <2>. QED
      BY <2>1 DEF Put
  <1> HIDE DEF k2, s2
  <1>5. m.client \in [Owners -> ClientRec] /\ m.sock \in [Sockets -> SockRec]
    BY <1>1, <1>2, <1>3, <1>4
  <1>6. m \in NetRec
    BY <1>4, <1>5 DEF NetRec
  <1>7. /\ m.client[o] = k2 /\ m.sock[c] = s2
        /\ \A p \in Owners : p # o => m.client[p] = n.client[p]
        /\ \A b \in Sockets : b # c => m.sock[b] = n.sock[b]
    BY <1>1, <1>4
  <1>. QED
    BY <1>1, <1>3, <1>6, <1>7 DEF k2, s2, IsOpen, SaidFacts

LEMMA SaidKeeps ==
    ASSUME NEW n, NetOK(n), NEW o \in Owners, IsOpen(n, o),
           NEW fs \in Seq(UpFrames), NEW D \in SUBSET Docs, NEW I \in SUBSET Tabs,
           NEW m, m = Said(n, o, fs, D, I),
           \A d \in D : Ends(fs, DocKinds, d, Shows)
                        \/ (Quiet(fs, DocKinds, d) /\ d \in n.client[o].docs),
           \A d \in Docs \ D : Ends(fs, DocKinds, d, Hides)
                               \/ (Quiet(fs, DocKinds, d) /\ d \notin n.client[o].docs),
           o # Worker =>
             /\ \A t \in I : Ends(fs, IdKinds, t, {"identify"})
                             \/ (Quiet(fs, IdKinds, t) /\ t \in n.client[o].ids)
             /\ \A t \in Tabs \ I : Ends(fs, IdKinds, t, {"tab_gone"})
                                    \/ (Quiet(fs, IdKinds, t) /\ t \notin n.client[o].ids)
    PROVE  Kept(n, m)
  <1>0. PICK c : c = n.client[o].sock
    OBVIOUS
  <1>1. /\ c \in Sockets /\ n.sock[c] \in SockRec /\ n.sock[c].owner = o
        /\ n.sock[c].client = "open"
        /\ m \in NetRec
        /\ m.client[o] = Believes(n.client[o], D, I)
        /\ \A p \in Owners : p # o => m.client[p] = n.client[p]
        /\ m.sock[c] = Adds(n.sock[c], fs)
        /\ m.sock[c] \in SockRec
        /\ \A b \in Sockets : b # c => m.sock[b] = n.sock[b]
    <2>1. SaidFacts(n, o, fs, D, I, m, c)
      BY <1>0, SaidIs
    <2>. QED
      BY <2>1 DEF SaidFacts
  <1>2. n.client[o] \in ClientRec /\ \A p \in Owners : n.client[p] \in ClientRec
    BY NetParts
  <1>3. /\ m.client[o].sock = c /\ m.client[o].docs = D /\ m.client[o].ids = I
    BY <1>0, <1>1, <1>2 DEF ClientRec, Believes
  <1>4. /\ m.sock[c].owner = o /\ m.sock[c].client = "open"
        /\ m.sock[c].server = n.sock[c].server /\ m.sock[c].docs = n.sock[c].docs
        /\ m.sock[c].ids = n.sock[c].ids /\ m.sock[c].chain = n.sock[c].chain
    BY <1>1 DEF SockRec, Adds
  <1>5. \A p \in Owners : m.client[p].sock = n.client[p].sock
    BY <1>0, <1>1, <1>3
  <1>6. \A b \in Sockets : /\ m.sock[b].owner = n.sock[b].owner
                           /\ m.sock[b].client = n.sock[b].client
                           /\ m.sock[b].chain = n.sock[b].chain
    BY <1>1, <1>4
  <1>7. Linked(m)
    <2>1. \A p \in Owners : m.client[p].sock # 0 => m.client[p].sock \in Sockets
      BY <1>5, NetParts
    <2>2. \A b \in Sockets : m.sock[b].owner \in Owners
      BY <1>1 DEF NetRec, SockRec
    <2>3. Linked(n)
      BY DEF NetOK
    <2>4. ASSUME NEW p \in Owners, m.client[p].sock # 0
          PROVE  m.sock[m.client[p].sock].owner = p /\ m.sock[m.client[p].sock].client \in Live
      <3>1. n.client[p].sock = m.client[p].sock /\ m.client[p].sock \in Sockets
        BY <1>5, <2>1, <2>4
      <3>2. /\ n.sock[n.client[p].sock].owner = p
            /\ n.sock[n.client[p].sock].client \in Live
        BY <2>3, <2>4, <3>1 DEF Linked
      <3>. QED
        BY <1>6, <3>1, <3>2
    <2>5. ASSUME NEW b \in Sockets, m.sock[b].client \in Live
          PROVE  m.client[m.sock[b].owner].sock = b
      <3>1. n.sock[b].client \in Live /\ m.sock[b].owner = n.sock[b].owner
        BY <1>6, <2>5
      <3>2. n.client[n.sock[b].owner].sock = b
        BY <2>3, <3>1 DEF Linked
      <3>. QED
        BY <1>5, <2>2, <3>1, <3>2
    <2>. QED
      BY <2>4, <2>5 DEF Linked
  <1>8. ASSUME NEW b \in Sockets
        PROVE  SockOK(m.sock[b]) /\ Told(m.client[m.sock[b].owner], m.sock[b])
    <2>0. SockOK(n.sock[b]) /\ Told(n.client[n.sock[b].owner], n.sock[b])
      BY DEF NetOK
    <2>1. CASE b = c
      <3>1. n.sock[c].server
        BY <2>0, <2>1, <1>1 DEF SockOK
      <3>2. SockOK(m.sock[c])
        BY <2>0, <2>1, <1>4, <3>1 DEF SockOK
      <3>3. ASSUME NEW d \in Docs
            PROVE  IF d \in D THEN WillShow(m.sock[c], d) ELSE WillHide(m.sock[c], d)
        <4>1. IF d \in n.client[o].docs THEN WillShow(n.sock[c], d) ELSE WillHide(n.sock[c], d)
          BY <2>0, <2>1, <1>1 DEF Told
        <4>2. /\ Ends(fs, DocKinds, d, Shows) => WillShow(m.sock[c], d)
              /\ Ends(fs, DocKinds, d, Hides) => WillHide(m.sock[c], d)
              /\ Quiet(fs, DocKinds, d) => /\ WillShow(n.sock[c], d) => WillShow(m.sock[c], d)
                                           /\ WillHide(n.sock[c], d) => WillHide(m.sock[c], d)
          BY <1>1, Added
        <4>. QED
          BY <4>1, <4>2
      <3>4. ASSUME o # Worker, NEW t \in Tabs
            PROVE  IF t \in I THEN WillKnow(m.sock[c], t) ELSE WillForget(m.sock[c], t)
        <4>1. IF t \in n.client[o].ids THEN WillKnow(n.sock[c], t) ELSE WillForget(n.sock[c], t)
          BY <2>0, <2>1, <1>1, <3>4 DEF Told
        <4>2. /\ Ends(fs, IdKinds, t, {"identify"}) => WillKnow(m.sock[c], t)
              /\ Ends(fs, IdKinds, t, {"tab_gone"}) => WillForget(m.sock[c], t)
              /\ Quiet(fs, IdKinds, t) => /\ WillKnow(n.sock[c], t) => WillKnow(m.sock[c], t)
                                          /\ WillForget(n.sock[c], t) => WillForget(m.sock[c], t)
          BY <1>1, Added
        <4>. QED
          BY <4>1, <4>2, <3>4
      <3>5. Told(m.client[o], m.sock[c])
        BY <1>3, <1>4, <3>3, <3>4 DEF Told
      <3>. QED
        BY <2>1, <1>4, <3>2, <3>5
    <2>2. CASE b # c
      <3>1. m.sock[b] = n.sock[b]
        BY <1>1, <2>2
      <3>2. n.sock[b].owner \in Owners
        BY <1>1, <3>1 DEF NetRec, SockRec
      <3>3. CASE n.sock[b].owner # o
        BY <1>1, <2>0, <3>1, <3>2, <3>3
      <3>4. CASE n.sock[b].owner = o
        <4>1. n.sock[b].client \notin Live
          BY <1>0, <3>4, <2>2 DEF NetOK, Linked
        <4>2. n.sock[b].client # "open"
          BY <4>1 DEF Live
        <4>. QED
          BY <2>0, <3>1, <4>2 DEF Told
      <3>. QED
        BY <3>3, <3>4
    <2>. QED
      BY <2>1, <2>2
  <1>9. NetOK(m)
    BY <1>1, <1>7, <1>8 DEF NetOK
  <1>10. ASSUME NEW p \in Owners, CanDialIn(n, p)
         PROVE  CanDialIn(m, p)
    <2>1. CASE n.client[p].sock # 0
      BY <1>5, <2>1 DEF CanDialIn
    <2>2. CASE \E b \in Sockets : n.sock[b] = Free
      <3>1. PICK b \in Sockets : n.sock[b] = Free
        BY <2>2
      <3>2. b # c
        BY <1>1, <3>1 DEF Free
      <3>. QED
        BY <1>1, <3>1, <3>2 DEF CanDialIn
    <2>. QED
      BY <1>10, <2>1, <2>2 DEF CanDialIn
  <1>. QED
    BY <1>6, <1>9, <1>10 DEF SameChains, Kept

(* ... and what that is to the worker.                                      *)
LEMMA SaidBeside ==
    ASSUME NEW n, NetOK(n), NEW o \in Owners, IsOpen(n, o), o # Worker,
           NEW fs \in Seq(UpFrames), NEW D \in SUBSET Docs, NEW I \in SUBSET Tabs,
           NEW m, m = Said(n, o, fs, D, I),
           NEW E, NEW K, WorkerOK(n, E, K)
    PROVE  WorkerOK(m, E, K)
  <1>0. PICK c : c = n.client[o].sock
    OBVIOUS
  <1>1. SaidFacts(n, o, fs, D, I, m, c)
    BY <1>0, SaidIs
  <1>2. m.client[Worker] = n.client[Worker]
    BY <1>1, Sets DEF SaidFacts
  <1>3. n.client[Worker].sock # 0 => m.sock[n.client[Worker].sock] = n.sock[n.client[Worker].sock]
    <2>1. n.client[Worker].sock # 0 => n.client[Worker].sock \in Sockets
                                       /\ n.sock[n.client[Worker].sock].owner = Worker
      BY Sets, NetParts
    <2>. QED
      BY <1>1, <2>1 DEF SaidFacts
  <1>. QED
    BY <1>2, <1>3 DEF WorkerOK, IsOpen

LEMMA SaidByWorker ==
    ASSUME NEW n, NetOK(n), IsOpen(n, Worker),
           NEW fs \in Seq(UpFrames), NEW D \in SUBSET Docs, NEW I \in SUBSET Tabs,
           NEW m, m = Said(n, Worker, fs, D, I),
           NEW E, NEW K, NEW L, WorkerOK(n, E, K),
           \A t \in L : Ends(fs, IdKinds, t, {"identify"}) \/ (Quiet(fs, IdKinds, t) /\ t \in K)
    PROVE  WorkerOK(m, D, L)
  <1>0. PICK c : c = n.client[Worker].sock
    OBVIOUS
  <1>1. SaidFacts(n, Worker, fs, D, I, m, c)
    BY <1>0, Sets, SaidIs
  <1>2. n.client[Worker] \in ClientRec
    BY Sets, NetParts
  <1>3. /\ m.client[Worker].sock = c /\ m.client[Worker].docs = D
    BY <1>0, <1>1, <1>2 DEF ClientRec, Believes, SaidFacts
  <1>4. \A t \in K : WillKnow(n.sock[c], t)
    BY <1>0 DEF WorkerOK
  <1>5. ASSUME NEW t \in L
        PROVE  WillKnow(m.sock[c], t)
    <2>1. n.sock[c] \in SockRec /\ m.sock[c] = Adds(n.sock[c], fs)
      BY <1>1 DEF SaidFacts
    <2>2. /\ Ends(fs, IdKinds, t, {"identify"}) => WillKnow(m.sock[c], t)
          /\ Quiet(fs, IdKinds, t) => (WillKnow(n.sock[c], t) => WillKnow(m.sock[c], t))
      BY <2>1, Added
    <2>. QED
      BY <1>4, <2>2
  <1>. QED
    BY <1>3, <1>5 DEF WorkerOK

(* One assignment to one field of one socket or client.                     *)
LEMMA ClientField ==
    ASSUME NEW C, NEW S, NEW o, NEW x, NEW n, n = [client |-> C, sock |-> S]
    PROVE  /\ [n EXCEPT !.client[o].sock = x] = [client |-> [C EXCEPT ![o] = [C[o] EXCEPT !.sock = x]], sock |-> S]
           /\ [n EXCEPT !.client[o].docs = x] = [client |-> [C EXCEPT ![o] = [C[o] EXCEPT !.docs = x]], sock |-> S]
           /\ [n EXCEPT !.client[o].ids = x] = [client |-> [C EXCEPT ![o] = [C[o] EXCEPT !.ids = x]], sock |-> S]
  <1>0. n.client = C /\ n.sock = S
    OBVIOUS
  <1>1. [n EXCEPT !.client[o].sock = x] = [client |-> [C EXCEPT ![o] = [C[o] EXCEPT !.sock = x]], sock |-> S]
    <2> DEFINE y == [n.client EXCEPT ![o] = [n.client[o] EXCEPT !.sock = x]]
    <2> HIDE DEF y
    <2>1. [n EXCEPT !.client = y] = [client |-> y, sock |-> S]
      OBVIOUS
    <2>. QED
      BY <1>0, <2>1 DEF y
  <1>2. [n EXCEPT !.client[o].docs = x] = [client |-> [C EXCEPT ![o] = [C[o] EXCEPT !.docs = x]], sock |-> S]
    <2> DEFINE y == [n.client EXCEPT ![o] = [n.client[o] EXCEPT !.docs = x]]
    <2> HIDE DEF y
    <2>1. [n EXCEPT !.client = y] = [client |-> y, sock |-> S]
      OBVIOUS
    <2>. QED
      BY <1>0, <2>1 DEF y
  <1>3. [n EXCEPT !.client[o].ids = x] = [client |-> [C EXCEPT ![o] = [C[o] EXCEPT !.ids = x]], sock |-> S]
    <2> DEFINE y == [n.client EXCEPT ![o] = [n.client[o] EXCEPT !.ids = x]]
    <2> HIDE DEF y
    <2>1. [n EXCEPT !.client = y] = [client |-> y, sock |-> S]
      OBVIOUS
    <2>. QED
      BY <1>0, <2>1 DEF y
  <1>. QED
    BY <1>1, <1>2, <1>3, Zenon

LEMMA SockField ==
    ASSUME NEW C, NEW S, NEW c, NEW x, NEW n, n = [client |-> C, sock |-> S]
    PROVE  /\ [n EXCEPT !.sock[c] = x] = [client |-> C, sock |-> [S EXCEPT ![c] = x]]
           /\ [n EXCEPT !.sock[c].client = x] = [client |-> C, sock |-> [S EXCEPT ![c] = [S[c] EXCEPT !.client = x]]]
           /\ [n EXCEPT !.sock[c].server = x] = [client |-> C, sock |-> [S EXCEPT ![c] = [S[c] EXCEPT !.server = x]]]
  <1>0. n.client = C /\ n.sock = S
    OBVIOUS
  <1>4. [n EXCEPT !.sock[c] = x] = [client |-> C, sock |-> [S EXCEPT ![c] = x]]
    <2> DEFINE y == [n.sock EXCEPT ![c] = x]
    <2> HIDE DEF y
    <2>1. [n EXCEPT !.sock = y] = [client |-> C, sock |-> y]
      OBVIOUS
    <2>. QED
      BY <1>0, <2>1 DEF y
  <1>5. [n EXCEPT !.sock[c].client = x] = [client |-> C, sock |-> [S EXCEPT ![c] = [S[c] EXCEPT !.client = x]]]
    <2> DEFINE y == [n.sock EXCEPT ![c] = [n.sock[c] EXCEPT !.client = x]]
    <2> HIDE DEF y
    <2>1. [n EXCEPT !.sock = y] = [client |-> C, sock |-> y]
      OBVIOUS
    <2>. QED
      BY <1>0, <2>1 DEF y
  <1>6. [n EXCEPT !.sock[c].server = x] = [client |-> C, sock |-> [S EXCEPT ![c] = [S[c] EXCEPT !.server = x]]]
    <2> DEFINE y == [n.sock EXCEPT ![c] = [n.sock[c] EXCEPT !.server = x]]
    <2> HIDE DEF y
    <2>1. [n EXCEPT !.sock = y] = [client |-> C, sock |-> y]
      OBVIOUS
    <2>. QED
      BY <1>0, <2>1 DEF y
  <1>. QED
    BY <1>4, <1>5, <1>6, Zenon

(* What the code's operators are.                                           *)
LEMMA SendIs ==
    ASSUME NEW n, NetOK(n), NEW o \in Owners, IsOpen(n, o), NEW fs \in Seq(UpFrames)
    PROVE  Send(n, o, fs) = Said(n, o, fs, n.client[o].docs, n.client[o].ids)
  <1> DEFINE c == n.client[o].sock
             S == n.sock
             C == n.client
             s2 == Adds(S[c], fs)
  <1>1. /\ C \in [Owners -> ClientRec] /\ C[o] \in ClientRec
        /\ n = [client |-> C, sock |-> S]
    BY NetParts
  <1>2. Send(n, o, fs) = [n EXCEPT !.sock[c].up = @ \o fs]
    BY DEF Send
  <1>3. [n EXCEPT !.sock[c].up = @ \o fs] = [client |-> C, sock |-> [S EXCEPT ![c] = s2]]
    <2>1. n.sock = S
      OBVIOUS
    <2> HIDE DEF c, S, C, s2
    <2>2. ASSUME NEW x
          PROVE  [n EXCEPT !.sock[c].up = x]
            = [client |-> C, sock |-> [S EXCEPT ![c] = [S[c] EXCEPT !.up = x]]]
      <3> DEFINE y == [n.sock EXCEPT ![c] = [n.sock[c] EXCEPT !.up = x]]
      <3> HIDE DEF y
      <3>1. [n EXCEPT !.sock = y] = [client |-> C, sock |-> y]
        BY <1>1
      <3>. QED
        BY <2>1, <3>1 DEF y
    <2>3. s2 = [S[c] EXCEPT !.up = S[c].up \o fs]
      BY DEF Adds, s2
    <2>. QED
      BY <2>1, <2>2, <2>3
  <1>4. Believes(C[o], C[o].docs, C[o].ids) = C[o]
    <2> HIDE DEF C
    <2>. QED
      BY <1>1 DEF Believes, ClientRec
  <1>5. [C EXCEPT ![o] = C[o]] = C
    <2> HIDE DEF C
    <2>. QED
      BY <1>1
  <1>6. Said(n, o, fs, C[o].docs, C[o].ids) = Put(n, o, Believes(C[o], C[o].docs, C[o].ids), c, s2)
    BY DEF Said
  <1> HIDE DEF c, s2
  <1>7. Put(n, o, C[o], c, s2) = [client |-> [C EXCEPT ![o] = C[o]], sock |-> [S EXCEPT ![c] = s2]]
    BY DEF Put
  <1> HIDE DEF S, C
  <1>8. Send(n, o, fs) = Said(n, o, fs, C[o].docs, C[o].ids)
    BY <1>2, <1>3, <1>4, <1>5, <1>6, <1>7
  <1>. QED
    BY <1>8 DEF C

DocFrames(k, D) == Frames("open", D \ k.docs) \o Frames("closed", k.docs \ D)
IdFrames(k, I) == Frames("tab_gone", k.ids \ I) \o Frames("identify", I \ k.ids)

LEMMA SyncsAre ==
    ASSUME NEW n, NetOK(n), NEW o \in Owners, IsOpen(n, o),
           NEW D \in SUBSET Docs, NEW I \in SUBSET Tabs
    PROVE  /\ DocFrames(n.client[o], D) \in Seq(UpFrames)
           /\ SyncDocs(n, o, D) = Said(n, o, DocFrames(n.client[o], D), D, n.client[o].ids)
           /\ IdFrames(n.client[o], I) \in Seq(UpFrames)
           /\ SyncIds(n, o, I) = Said(n, o, IdFrames(n.client[o], I), n.client[o].docs, I)
  <1> DEFINE k == n.client[o]
             ds == DocFrames(k, D)
             is == IdFrames(k, I)
             C == n.client
  <1>1. /\ C \in [Owners -> ClientRec] /\ k \in ClientRec
        /\ k.docs \in SUBSET Docs /\ k.ids \in SUBSET Tabs
    BY NetParts
  <1>2. ds \in Seq(UpFrames) /\ is \in Seq(UpFrames)
    <2>1. Frames("open", D \ k.docs) \in Seq({"open"} \X (D \ k.docs))
          /\ Frames("closed", k.docs \ D) \in Seq({"closed"} \X (k.docs \ D))
      <3>1. IsFiniteSet(D \ k.docs) /\ IsFiniteSet(k.docs \ D)
        BY <1>1, FiniteSets
      <3>. QED
        BY <3>1, FramesIs
    <2>2. Frames("tab_gone", k.ids \ I) \in Seq({"tab_gone"} \X (k.ids \ I))
          /\ Frames("identify", I \ k.ids) \in Seq({"identify"} \X (I \ k.ids))
      <3>1. IsFiniteSet(k.ids \ I) /\ IsFiniteSet(I \ k.ids)
        BY <1>1, FiniteSets
      <3>. QED
        BY <3>1, FramesIs
    <2> HIDE DEF k
    <2>3. Frames("open", D \ k.docs) \in Seq(UpFrames)
          /\ Frames("closed", k.docs \ D) \in Seq(UpFrames)
      BY <2>1, <1>1 DEF UpFrames
    <2>4. Frames("tab_gone", k.ids \ I) \in Seq(UpFrames)
          /\ Frames("identify", I \ k.ids) \in Seq(UpFrames)
      BY <2>2, <1>1 DEF UpFrames, IdKinds
    <2>. QED
      BY <2>3, <2>4, ConcatIs DEF DocFrames, IdFrames
  <1>3. SyncDocs(n, o, D) = [Send(n, o, ds) EXCEPT !.client[o].docs = D]
        /\ SyncIds(n, o, I) = [Send(n, o, is) EXCEPT !.client[o].ids = I]
    BY DEF SyncDocs, SyncIds, DocFrames, IdFrames
  <1> HIDE DEF ds, is
  <1>4. Send(n, o, ds) = Said(n, o, ds, k.docs, k.ids) /\ Send(n, o, is) = Said(n, o, is, k.docs, k.ids)
    BY <1>2, SendIs
  <1>5. ASSUME NEW fs, NEW e, NEW i
        PROVE  /\ [Said(n, o, fs, k.docs, k.ids) EXCEPT !.client[o].docs = e] = Said(n, o, fs, e, k.ids)
               /\ [Said(n, o, fs, k.docs, k.ids) EXCEPT !.client[o].ids = i] = Said(n, o, fs, k.docs, i)
    <2> DEFINE T == [n.sock EXCEPT ![k.sock] = Adds(n.sock[k.sock], fs)]
    <2>1. \A e2, i2 : Said(n, o, fs, e2, i2) = [client |-> [C EXCEPT ![o] = Believes(k, e2, i2)], sock |-> T]
      BY DEF Said, Put
    <2> HIDE DEF T, k, C
    <2>2. Believes(k, k.docs, k.ids) = k
      BY <1>1 DEF Believes, ClientRec
    <2>3. [C EXCEPT ![o] = k] = C
      BY <1>1 DEF C, k
    <2>4. PICK r : r = [client |-> C, sock |-> T]
      OBVIOUS
    <2>5. /\ [r EXCEPT !.client[o].docs = e]
             = [client |-> [C EXCEPT ![o] = [C[o] EXCEPT !.docs = e]], sock |-> T]
          /\ [r EXCEPT !.client[o].ids = i]
             = [client |-> [C EXCEPT ![o] = [C[o] EXCEPT !.ids = i]], sock |-> T]
      <3>1. [r EXCEPT !.client[o].docs = e]
              = [client |-> [C EXCEPT ![o] = [C[o] EXCEPT !.docs = e]], sock |-> T]
        <4> DEFINE y == [r.client EXCEPT ![o] = [r.client[o] EXCEPT !.docs = e]]
        <4> HIDE DEF y
        <4>1. [r EXCEPT !.client = y] = [client |-> y, sock |-> T] /\ r.client = C
          BY <2>4
        <4>. QED
          BY <4>1 DEF y
      <3>2. [r EXCEPT !.client[o].ids = i]
              = [client |-> [C EXCEPT ![o] = [C[o] EXCEPT !.ids = i]], sock |-> T]
        <4> DEFINE y == [r.client EXCEPT ![o] = [r.client[o] EXCEPT !.ids = i]]
        <4> HIDE DEF y
        <4>1. [r EXCEPT !.client = y] = [client |-> y, sock |-> T] /\ r.client = C
          BY <2>4
        <4>. QED
          BY <4>1 DEF y
      <3>. QED
        BY <3>1, <3>2
    <2>6. C[o] = k
      BY DEF C, k
    <2>7. Believes(k, e, k.ids) = [k EXCEPT !.docs = e] /\ Believes(k, k.docs, i) = [k EXCEPT !.ids = i]
      BY <1>1 DEF Believes, ClientRec
    <2>8. Said(n, o, fs, k.docs, k.ids) = r
      BY <2>1, <2>2, <2>3, <2>4
    <2>9. /\ Said(n, o, fs, e, k.ids)
             = [client |-> [C EXCEPT ![o] = [C[o] EXCEPT !.docs = e]], sock |-> T]
          /\ Said(n, o, fs, k.docs, i)
             = [client |-> [C EXCEPT ![o] = [C[o] EXCEPT !.ids = i]], sock |-> T]
      BY <2>1, <2>6, <2>7
    <2>. QED
      <3>1. [Said(n, o, fs, k.docs, k.ids) EXCEPT !.client[o].docs = e] = Said(n, o, fs, e, k.ids)
        BY <2>5, <2>8, <2>9
      <3>2. [Said(n, o, fs, k.docs, k.ids) EXCEPT !.client[o].ids = i] = Said(n, o, fs, k.docs, i)
        BY <2>5, <2>8, <2>9
      <3>. QED
        BY <3>1, <3>2
  <1>6. SyncDocs(n, o, D) = Said(n, o, ds, D, k.ids)
    BY <1>3, <1>4, <1>5
  <1>7. SyncIds(n, o, I) = Said(n, o, is, k.docs, I)
    BY <1>3, <1>4, <1>5
  <1>. QED
    BY <1>2, <1>6, <1>7 DEF ds, is

LEMMA NothingKeeps ==
    ASSUME NEW n, NetOK(n)
    PROVE  Kept(n, n)
  BY DEF Kept, SameChains

LEMMA NotOpenWorker ==
    ASSUME NEW n, ~IsOpen(n, Worker), NEW E, NEW K
    PROVE  WorkerOK(n, E, K)
  BY DEF WorkerOK

(* Frames about pages are not about documents, and the other way round.     *)
LEMMA QuietApart ==
    /\ \A q \in Seq(IdKinds \X Tabs) : \A d : Quiet(q, DocKinds, d)
    /\ \A q \in Seq({"open", "closed"} \X Docs) : \A t : Quiet(q, IdKinds, t)
  <1>1. ASSUME NEW q \in Seq(IdKinds \X Tabs), NEW d
        PROVE  Quiet(q, DocKinds, d)
    <2>1. \A i \in DOMAIN q : q[i] \in IdKinds \X Tabs
      OBVIOUS
    <2>. QED
      BY <2>1, KindsApart DEF Quiet
  <1>2. ASSUME NEW q \in Seq({"open", "closed"} \X Docs), NEW t
        PROVE  Quiet(q, IdKinds, t)
    <2>1. \A i \in DOMAIN q : q[i] \in {"open", "closed"} \X Docs
      OBVIOUS
    <2>. QED
      BY <2>1, KindsApart DEF Quiet
  <1>. QED
    BY <1>1, <1>2

LEMMA DocFramesSay ==
    ASSUME NEW k \in ClientRec, NEW D \in SUBSET Docs
    PROVE  /\ \A d \in D : Ends(DocFrames(k, D), DocKinds, d, Shows)
                           \/ (Quiet(DocFrames(k, D), DocKinds, d) /\ d \in k.docs)
           /\ \A d \in Docs \ D : Ends(DocFrames(k, D), DocKinds, d, Hides)
                                  \/ (Quiet(DocFrames(k, D), DocKinds, d) /\ d \notin k.docs)
           /\ \A t : Quiet(DocFrames(k, D), IdKinds, t)
  <1> DEFINE q == Frames("open", D \ k.docs)
             r == Frames("closed", k.docs \ D)
             S == {"open", "closed"} \X Docs
  <1>1. k.docs \in SUBSET Docs
    BY DEF ClientRec
  <1>2. IsFiniteSet(D \ k.docs) /\ IsFiniteSet(k.docs \ D)
    BY <1>1, FiniteSets
  <1>3. "open" \in Shows /\ "closed" \in Hides
    BY DEF Shows, Hides
  <1>4. /\ q \in Seq({"open"} \X (D \ k.docs))
        /\ \A x, K, P : "open" \in P /\ x \in D \ k.docs => Ends(q, K, x, P)
        /\ \A x, K : "open" \notin K \/ x \notin D \ k.docs => Quiet(q, K, x)
    BY <1>2, FramesIs
  <1>5. /\ r \in Seq({"closed"} \X (k.docs \ D))
        /\ \A x, K, P : "closed" \in P /\ x \in k.docs \ D => Ends(r, K, x, P)
        /\ \A x, K : "closed" \notin K \/ x \notin k.docs \ D => Quiet(r, K, x)
    BY <1>2, FramesIs
  <1> HIDE DEF q, r
  <1>6. q \in Seq(S) /\ r \in Seq(S)
    BY <1>1, <1>4, <1>5
  <1>7. q \o r \in Seq(S)
    BY <1>6, ConcatIs
  <1> HIDE DEF S
  <1>8. \A K, x, P : /\ Ends(r, K, x, P) => Ends(q \o r, K, x, P)
                     /\ Quiet(r, K, x) /\ Ends(q, K, x, P) => Ends(q \o r, K, x, P)
                     /\ Quiet(r, K, x) /\ Quiet(q, K, x) => Quiet(q \o r, K, x)
    BY <1>6, ConcatEnds
  <1>9. DocFrames(k, D) = q \o r
    BY DEF DocFrames, q, r
  <1>10. \A t : Quiet(q \o r, IdKinds, t)
    BY <1>7, QuietApart DEF S
  <1>11. ASSUME NEW d \in D
         PROVE  Ends(q \o r, DocKinds, d, Shows) \/ (Quiet(q \o r, DocKinds, d) /\ d \in k.docs)
    BY <1>3, <1>4, <1>5, <1>8
  <1>12. ASSUME NEW d \in Docs \ D
         PROVE  Ends(q \o r, DocKinds, d, Hides) \/ (Quiet(q \o r, DocKinds, d) /\ d \notin k.docs)
    BY <1>3, <1>4, <1>5, <1>8
  <1>. QED
    BY <1>9, <1>10, <1>11, <1>12

LEMMA IdFramesSay ==
    ASSUME NEW k \in ClientRec, NEW I \in SUBSET Tabs
    PROVE  /\ \A t \in I : Ends(IdFrames(k, I), IdKinds, t, {"identify"})
                           \/ (Quiet(IdFrames(k, I), IdKinds, t) /\ t \in k.ids)
           /\ \A t \in Tabs \ I : Ends(IdFrames(k, I), IdKinds, t, {"tab_gone"})
                                  \/ (Quiet(IdFrames(k, I), IdKinds, t) /\ t \notin k.ids)
           /\ \A d : Quiet(IdFrames(k, I), DocKinds, d)
  <1> DEFINE q == Frames("tab_gone", k.ids \ I)
             r == Frames("identify", I \ k.ids)
             S == IdKinds \X Tabs
  <1>1. k.ids \in SUBSET Tabs
    BY DEF ClientRec
  <1>2. IsFiniteSet(k.ids \ I) /\ IsFiniteSet(I \ k.ids)
    BY <1>1, FiniteSets
  <1>4. /\ q \in Seq({"tab_gone"} \X (k.ids \ I))
        /\ \A x, K, P : "tab_gone" \in P /\ x \in k.ids \ I => Ends(q, K, x, P)
        /\ \A x, K : "tab_gone" \notin K \/ x \notin k.ids \ I => Quiet(q, K, x)
    BY <1>2, FramesIs
  <1>5. /\ r \in Seq({"identify"} \X (I \ k.ids))
        /\ \A x, K, P : "identify" \in P /\ x \in I \ k.ids => Ends(r, K, x, P)
        /\ \A x, K : "identify" \notin K \/ x \notin I \ k.ids => Quiet(r, K, x)
    BY <1>2, FramesIs
  <1> HIDE DEF q, r
  <1>6. q \in Seq(S) /\ r \in Seq(S)
    BY <1>1, <1>4, <1>5 DEF IdKinds
  <1>7. q \o r \in Seq(S)
    BY <1>6, ConcatIs
  <1> HIDE DEF S
  <1>8. \A K, x, P : /\ Ends(r, K, x, P) => Ends(q \o r, K, x, P)
                     /\ Quiet(r, K, x) /\ Ends(q, K, x, P) => Ends(q \o r, K, x, P)
                     /\ Quiet(r, K, x) /\ Quiet(q, K, x) => Quiet(q \o r, K, x)
    BY <1>6, ConcatEnds
  <1>9. IdFrames(k, I) = q \o r
    BY DEF IdFrames, q, r
  <1>10. \A d : Quiet(q \o r, DocKinds, d)
    BY <1>7, QuietApart DEF S
  <1>11. ASSUME NEW t \in I
         PROVE  Ends(q \o r, IdKinds, t, {"identify"}) \/ (Quiet(q \o r, IdKinds, t) /\ t \in k.ids)
    BY <1>4, <1>5, <1>8
  <1>12. ASSUME NEW t \in Tabs \ I
         PROVE  Ends(q \o r, IdKinds, t, {"tab_gone"}) \/ (Quiet(q \o r, IdKinds, t) /\ t \notin k.ids)
    BY <1>4, <1>5, <1>8
  <1>. QED
    BY <1>9, <1>10, <1>11, <1>12

(* syncSocketState, syncLeaderSessionState: the socket hears of D.          *)
LEMMA SyncDocsKeeps ==
    ASSUME NEW n, NetOK(n), NEW o \in Owners, NEW D \in SUBSET Docs,
           NEW m, m = SyncDocs(n, o, D)
    PROVE  /\ Kept(n, m)
           /\ \A E, K : WorkerOK(n, E, K) => WorkerOK(m, IF o = Worker THEN D ELSE E, K)
  <1>1. CASE ~IsOpen(n, o)
    <2>1. m = n
      BY <1>1 DEF SyncDocs
    <2>2. ASSUME NEW E, NEW K, WorkerOK(n, E, K)
          PROVE  WorkerOK(m, IF o = Worker THEN D ELSE E, K)
      BY <1>1, <2>1, <2>2, NotOpenWorker
    <2>. QED
      BY <2>1, <2>2, NothingKeeps
  <1>2. CASE IsOpen(n, o)
    <2>1. PICK k : k = n.client[o]
      OBVIOUS
    <2>2. k \in ClientRec /\ k.ids \in SUBSET Tabs /\ k.docs \in SUBSET Docs
      BY <2>1, NetParts
    <2>3. PICK fs : fs = DocFrames(k, D)
      OBVIOUS
    <2>4. fs \in Seq(UpFrames) /\ m = Said(n, o, fs, D, k.ids)
      BY <1>2, <2>1, <2>2, <2>3, SyncsAre
    <2>5. /\ \A d \in D : Ends(fs, DocKinds, d, Shows)
                          \/ (Quiet(fs, DocKinds, d) /\ d \in k.docs)
          /\ \A d \in Docs \ D : Ends(fs, DocKinds, d, Hides)
                                 \/ (Quiet(fs, DocKinds, d) /\ d \notin k.docs)
          /\ \A t : Quiet(fs, IdKinds, t)
      BY <2>2, <2>3, DocFramesSay
    <2>6. Kept(n, m)
      BY <1>2, <2>1, <2>2, <2>4, <2>5, SaidKeeps
    <2>7. ASSUME NEW E, NEW K, WorkerOK(n, E, K)
          PROVE  WorkerOK(m, IF o = Worker THEN D ELSE E, K)
      <3>1. CASE o # Worker
        BY <1>2, <2>2, <2>4, <2>7, <3>1, SaidBeside
      <3>2. CASE o = Worker
        <4>1. \A t \in K : Ends(fs, IdKinds, t, {"identify"}) \/ (Quiet(fs, IdKinds, t) /\ t \in K)
          BY <2>5
        <4>2. WorkerOK(m, D, K)
          BY <1>2, <2>2, <2>4, <2>7, <3>2, <4>1, SaidByWorker
        <4>. QED
          BY <3>2, <4>2
      <3>. QED
        BY <3>1, <3>2
    <2>. QED
      BY <2>6, <2>7
  <1>. QED
    BY <1>1, <1>2

(* syncLeaderIdentities.                                                    *)
LEMMA SyncIdsKeeps ==
    ASSUME NEW n, NetOK(n), NEW o \in Owners, o # Worker, NEW I \in SUBSET Tabs,
           NEW m, m = SyncIds(n, o, I)
    PROVE  /\ Kept(n, m)
           /\ \A E, K : WorkerOK(n, E, K) => WorkerOK(m, E, K)
  <1>1. CASE ~IsOpen(n, o)
    BY <1>1, NothingKeeps DEF SyncIds
  <1>2. CASE IsOpen(n, o)
    <2>1. PICK k : k = n.client[o]
      OBVIOUS
    <2>2. k \in ClientRec /\ k.ids \in SUBSET Tabs /\ k.docs \in SUBSET Docs
      BY <2>1, NetParts
    <2>3. PICK fs : fs = IdFrames(k, I)
      OBVIOUS
    <2>4. fs \in Seq(UpFrames) /\ m = Said(n, o, fs, k.docs, I)
      BY <1>2, <2>1, <2>2, <2>3, SyncsAre
    <2>5. /\ \A t \in I : Ends(fs, IdKinds, t, {"identify"})
                          \/ (Quiet(fs, IdKinds, t) /\ t \in k.ids)
          /\ \A t \in Tabs \ I : Ends(fs, IdKinds, t, {"tab_gone"})
                                 \/ (Quiet(fs, IdKinds, t) /\ t \notin k.ids)
          /\ \A d : Quiet(fs, DocKinds, d)
      BY <2>2, <2>3, IdFramesSay
    <2>6. Kept(n, m)
      <3>1. /\ \A d \in k.docs : Ends(fs, DocKinds, d, Shows)
                                 \/ (Quiet(fs, DocKinds, d) /\ d \in n.client[o].docs)
            /\ \A d \in Docs \ k.docs : Ends(fs, DocKinds, d, Hides)
                                 \/ (Quiet(fs, DocKinds, d) /\ d \notin n.client[o].docs)
        BY <2>1, <2>5
      <3>. QED
        BY <1>2, <2>1, <2>2, <2>4, <2>5, <3>1, SaidKeeps
    <2>7. ASSUME NEW E, NEW K, WorkerOK(n, E, K)
          PROVE  WorkerOK(m, E, K)
      BY <1>2, <2>1, <2>2, <2>4, <2>7, SaidBeside
    <2>. QED
      BY <2>6, <2>7
  <1>. QED
    BY <1>1, <1>2

(* The worker tells the hub of pages.                                       *)
LEMMA IdentifyKeeps ==
    ASSUME NEW n, NetOK(n), NEW fs \in Seq(IdKinds \X Tabs),
           NEW m, m = Send(n, Worker, fs), NEW E, NEW K, NEW L, WorkerOK(n, E, K),
           \A t \in L : Ends(fs, IdKinds, t, {"identify"}) \/ (Quiet(fs, IdKinds, t) /\ t \in K)
    PROVE  Kept(n, m) /\ WorkerOK(m, E, L) /\ m.client[Worker] = n.client[Worker]
  <1>1. CASE ~IsOpen(n, Worker)
    BY <1>1, NothingKeeps, NotOpenWorker DEF Send
  <1>2. CASE IsOpen(n, Worker)
    <2>1. PICK k : k = n.client[Worker]
      OBVIOUS
    <2>2. k \in ClientRec /\ k.ids \in SUBSET Tabs /\ k.docs \in SUBSET Docs /\ Worker \in Owners
      BY <2>1, Sets, NetParts
    <2>3. fs \in Seq(UpFrames)
      BY KindsApart
    <2>4. m = Said(n, Worker, fs, k.docs, k.ids)
      BY <1>2, <2>1, <2>2, <2>3, SendIs
    <2>5. \A d : Quiet(fs, DocKinds, d)
      BY QuietApart
    <2>6. Kept(n, m)
      <3>1. /\ \A d \in k.docs : Ends(fs, DocKinds, d, Shows)
                                 \/ (Quiet(fs, DocKinds, d) /\ d \in n.client[Worker].docs)
            /\ \A d \in Docs \ k.docs : Ends(fs, DocKinds, d, Hides)
                                 \/ (Quiet(fs, DocKinds, d) /\ d \notin n.client[Worker].docs)
        BY <2>1, <2>5
      <3>. QED
        BY <1>2, <2>1, <2>2, <2>3, <2>4, <3>1, SaidKeeps
    <2>7. WorkerOK(m, k.docs, L)
      <3>1. \A t \in L : Ends(fs, IdKinds, t, {"identify"}) \/ (Quiet(fs, IdKinds, t) /\ t \in K)
        OBVIOUS
      <3>. QED
        BY <1>2, <2>1, <2>2, <2>3, <2>4, <3>1, SaidByWorker
    <2>8. E = k.docs
      BY <1>2, <2>1 DEF WorkerOK
    <2>9. m.client[Worker] = k
      <3>1. SaidFacts(n, Worker, fs, k.docs, k.ids, m, k.sock)
        BY <1>2, <2>1, <2>2, <2>3, <2>4, SaidIs
      <3>2. Believes(k, k.docs, k.ids) = k
        BY <2>2 DEF ClientRec, Believes
      <3>. QED
        BY <2>1, <3>1, <3>2 DEF SaidFacts
    <2>. QED
      BY <2>1, <2>6, <2>7, <2>8, <2>9
  <1>. QED
    BY <1>1, <1>2

(* ... and opens a document again.                                          *)
LEMMA ReopenKeeps ==
    ASSUME NEW n, NetOK(n), NEW D \in SUBSET n.client[Worker].docs,
           NEW m, m = Send(n, Worker, Frames("open", D)), NEW E, NEW K, WorkerOK(n, E, K)
    PROVE  Kept(n, m) /\ WorkerOK(m, E, K)
  <1>1. CASE ~IsOpen(n, Worker)
    BY <1>1, NothingKeeps, NotOpenWorker DEF Send
  <1>2. CASE IsOpen(n, Worker)
    <2>1. PICK k : k = n.client[Worker]
      OBVIOUS
    <2>2. k \in ClientRec /\ k.ids \in SUBSET Tabs /\ k.docs \in SUBSET Docs /\ Worker \in Owners
      BY <2>1, Sets, NetParts
    <2>3. PICK fs : fs = Frames("open", D)
      OBVIOUS
    <2>4. /\ fs \in Seq({"open"} \X D)
          /\ \A x, L, P : "open" \in P /\ x \in D => Ends(fs, L, x, P)
          /\ \A x, L : "open" \notin L \/ x \notin D => Quiet(fs, L, x)
      <3>1. IsFiniteSet(D)
        BY <2>1, <2>2, FiniteSets
      <3>. QED
        BY <2>3, <3>1, FramesIs
    <2>5. fs \in Seq(UpFrames)
      <3>1. {"open"} \X D \subseteq UpFrames
        BY <2>1, <2>2 DEF UpFrames
      <3>. QED
        BY <2>4, <3>1
    <2>6. m = Said(n, Worker, fs, k.docs, k.ids)
      BY <1>2, <2>1, <2>2, <2>3, <2>5, SendIs
    <2>7. /\ \A d \in k.docs : Ends(fs, DocKinds, d, Shows) \/ (Quiet(fs, DocKinds, d) /\ d \in k.docs)
          /\ \A d \in Docs \ k.docs : Quiet(fs, DocKinds, d) /\ d \notin k.docs
          /\ \A t : Quiet(fs, IdKinds, t)
      BY <2>1, <2>4 DEF Shows, IdKinds
    <2>8. Kept(n, m)
      BY <1>2, <2>1, <2>2, <2>5, <2>6, <2>7, SaidKeeps
    <2>9. WorkerOK(m, k.docs, K)
      <3>1. \A t \in K : Ends(fs, IdKinds, t, {"identify"}) \/ (Quiet(fs, IdKinds, t) /\ t \in K)
        BY <2>7
      <3>. QED
        BY <1>2, <2>1, <2>2, <2>5, <2>6, <3>1, SaidByWorker
    <2>10. E = k.docs
      BY <1>2, <2>1 DEF WorkerOK
    <2>. QED
      BY <2>8, <2>9, <2>10
  <1>. QED
    BY <1>1, <1>2

Moved(n, m) == /\ NetOK(m) /\ SameChains(n, m)
               /\ \A E, K : WorkerOK(n, E, K) => WorkerOK(m, E, K)

LEMMA MovedOn ==
    ASSUME NEW n, NEW m, NEW p, Moved(n, m), Moved(m, p)
    PROVE  Moved(n, p)
  BY DEF Moved, SameChains

(* Who leads and whether a timer runs is nothing to the hub.                *)
SameButFlags(n, o, m) ==
  /\ m = [client |-> m.client, sock |-> n.sock]
  /\ m.client \in [Owners -> ClientRec]
  /\ \A p \in Owners : /\ p # o => m.client[p] = n.client[p]
                       /\ m.client[p].sock = n.client[p].sock
                       /\ m.client[p].docs = n.client[p].docs
                       /\ m.client[p].ids = n.client[p].ids

LEMMA FlagsMove ==
    ASSUME NEW n, NetOK(n), NEW o \in Owners, NEW m, SameButFlags(n, o, m)
    PROVE  Moved(n, m) /\ (CanDialIn(n, o) => CanDialIn(m, o))
  <1>1. /\ n.client \in [Owners -> ClientRec] /\ n.sock \in [Sockets -> SockRec]
    BY NetParts
  <1>2. m.sock = n.sock /\ m = [client |-> m.client, sock |-> m.sock]
    BY DEF SameButFlags
  <1>3. m \in NetRec
    BY <1>1, <1>2 DEF SameButFlags, NetRec
  <1>4. \A p \in Owners : /\ m.client[p].sock = n.client[p].sock
                          /\ m.client[p].docs = n.client[p].docs
                          /\ m.client[p].ids = n.client[p].ids
    BY DEF SameButFlags
  <1>5. \A c \in Sockets : n.sock[c].owner \in Owners
    BY <1>1 DEF SockRec
  <1>6. Linked(m)
    BY <1>2, <1>4, <1>5 DEF Linked, NetOK
  <1>7. \A c \in Sockets : SockOK(m.sock[c]) /\ Told(m.client[m.sock[c].owner], m.sock[c])
    BY <1>2, <1>4, <1>5 DEF NetOK, Told
  <1>8. \A E, K : WorkerOK(n, E, K) => WorkerOK(m, E, K)
    BY <1>2, <1>4, Sets DEF WorkerOK, IsOpen
  <1>. QED
    BY <1>2, <1>3, <1>4, <1>6, <1>7, <1>8 DEF Moved, NetOK, SameChains, CanDialIn

Leading(n, o) == [n EXCEPT !.client[o].leads = TRUE]
Stopped(n, o) == [n EXCEPT !.client[o].retry = FALSE]
LEMMA FlagIs ==
    ASSUME NEW n, NetOK(n), NEW o \in Owners, NEW b \in BOOLEAN
    PROVE  /\ SameButFlags(n, o, [n EXCEPT !.client[o].leads = b])
           /\ SameButFlags(n, o, [n EXCEPT !.client[o].retry = b])
  <1> DEFINE C == n.client
             S == n.sock
             k == C[o]
             k1 == [k EXCEPT !.leads = b]
             k2 == [k EXCEPT !.retry = b]
  <1>1. /\ C \in [Owners -> ClientRec] /\ k \in ClientRec
        /\ n = [client |-> C, sock |-> S]
    BY NetParts
  <1>2. S = n.sock /\ C = n.client /\ k = C[o]
    OBVIOUS
  <1> HIDE DEF S, C, k
  <1>3. /\ k1 \in ClientRec /\ k1.sock = k.sock /\ k1.docs = k.docs /\ k1.ids = k.ids
        /\ k2 \in ClientRec /\ k2.sock = k.sock /\ k2.docs = k.docs /\ k2.ids = k.ids
    BY <1>1 DEF ClientRec
  <1>4. /\ [n EXCEPT !.client[o].leads = b] = [client |-> [C EXCEPT ![o] = k1], sock |-> S]
        /\ [n EXCEPT !.client[o].retry = b] = [client |-> [C EXCEPT ![o] = k2], sock |-> S]
    <2> DEFINE y1 == [n.client EXCEPT ![o] = k1]
               y2 == [n.client EXCEPT ![o] = k2]
    <2> HIDE DEF y1, y2
    <2>1. /\ [n EXCEPT !.client = y1] = [client |-> y1, sock |-> S]
          /\ [n EXCEPT !.client = y2] = [client |-> y2, sock |-> S]
      BY <1>1, <1>2
    <2>2. n.client = C /\ n.client[o] = k
      BY <1>1, <1>2
    <2>. QED
      BY <2>1, <2>2 DEF y1, y2
  <1> HIDE DEF k1, k2
  <1>5. ASSUME NEW q, q \in ClientRec, q.sock = k.sock, q.docs = k.docs, q.ids = k.ids
        PROVE  SameButFlags(n, o, [client |-> [C EXCEPT ![o] = q], sock |-> S])
    <2> DEFINE D == [C EXCEPT ![o] = q]
    <2>1. /\ D \in [Owners -> ClientRec]
          /\ \A p \in Owners : /\ p # o => D[p] = C[p]
                               /\ D[p].sock = C[p].sock
                               /\ D[p].docs = C[p].docs
                               /\ D[p].ids = C[p].ids
      BY <1>1, <1>2, <1>5
    <2> HIDE DEF D
    <2>2. PICK r : r = [client |-> D, sock |-> S]
      OBVIOUS
    <2>3. r.client = D /\ r.sock = S /\ r = [client |-> r.client, sock |-> n.sock]
      BY <1>2, <2>2
    <2>4. SameButFlags(n, o, r)
      BY <1>2, <2>1, <2>3 DEF SameButFlags
    <2>. QED
      BY <2>2, <2>4 DEF D
  <1>. QED
    BY <1>3, <1>4, <1>5

LEMMA FlagsAre ==
    ASSUME NEW n, NetOK(n), NEW o \in Owners
    PROVE  /\ SameButFlags(n, o, Leading(n, o))
           /\ SameButFlags(n, o, Stopped(n, o))
  <1>1. \A b \in BOOLEAN : /\ SameButFlags(n, o, [n EXCEPT !.client[o].leads = b])
                           /\ SameButFlags(n, o, [n EXCEPT !.client[o].retry = b])
    BY FlagIs, Zenon
  <1>. QED
    BY <1>1, Zenon DEF Leading, Stopped

(* closeSocket, becomeFollower.                                             *)
LEMMA HangUpMoves ==
    ASSUME NEW n, NetOK(n), NEW o \in Owners, NEW m, m = HangUp(n, o)
    PROVE  Moved(n, m) /\ ~IsOpen(m, o)
  <1> DEFINE c == n.client[o].sock
  <1>1. /\ n.client \in [Owners -> ClientRec] /\ n.sock \in [Sockets -> SockRec]
        /\ c # 0 => c \in Sockets /\ n.sock[c].owner = o /\ n.sock[c] \in SockRec
                    /\ n.sock[c].client \in Live
    BY NetParts
  <1>2. c = n.client[o].sock
    OBVIOUS
  <1>3. m = [client |-> [n.client EXCEPT ![o] = Idle],
             sock |-> IF c = 0 THEN n.sock ELSE [n.sock EXCEPT ![c].client = "closing"]]
    BY DEF HangUp
  <1> HIDE DEF c
  <1>4. /\ m.client = [n.client EXCEPT ![o] = Idle]
        /\ c = 0 => m.sock = n.sock
        /\ c # 0 => m.sock = [n.sock EXCEPT ![c] = [n.sock[c] EXCEPT !.client = "closing"]]
        /\ m = [client |-> m.client, sock |-> m.sock]
    <2>1. CASE c = 0
      BY <1>3, <2>1
    <2>2. CASE c # 0
      BY <1>3, <2>2
    <2>. QED
      BY <2>1, <2>2
  <1>5. m.client \in [Owners -> ClientRec] /\ m.client[o] = Idle
        /\ \A p \in Owners : p # o => m.client[p] = n.client[p]
    BY <1>1, <1>4, EmptyRec
  <1>6. \A b \in Sockets : b # c => m.sock[b] = n.sock[b]
    BY <1>1, <1>4
  <1>7. c # 0 => /\ m.sock[c] \in SockRec /\ m.sock[c].client = "closing"
                 /\ m.sock[c].owner = o
                 /\ m.sock[c].chain = n.sock[c].chain
                 /\ SockOK(m.sock[c])
    <2> SUFFICES ASSUME c # 0
                 PROVE  /\ m.sock[c] \in SockRec /\ m.sock[c].client = "closing"
                        /\ m.sock[c].owner = o
                        /\ m.sock[c].chain = n.sock[c].chain
                        /\ SockOK(m.sock[c])
      OBVIOUS
    <2>1. PICK s : s = n.sock[c]
      OBVIOUS
    <2>2. PICK s2 : s2 = [s EXCEPT !.client = "closing"]
      OBVIOUS
    <2>3. m.sock[c] = s2
      BY <1>1, <1>4, <2>1, <2>2
    <2>4. s \in SockRec /\ SockOK(s) /\ s.owner = o
      BY <1>1, <2>1 DEF NetOK
    <2>5. /\ s2 \in SockRec /\ s2.client = "closing" /\ s2.owner = o /\ s2.chain = s.chain
          /\ s2.up = s.up /\ s2.docs = s.docs /\ s2.ids = s.ids /\ s2.server = s.server
      BY <2>2, <2>4 DEF SockRec
    <2>6. SockOK(s2)
      BY <2>4, <2>5 DEF SockOK
    <2>. QED
      BY <2>1, <2>3, <2>5, <2>6
  <1>8. m.sock \in [Sockets -> SockRec]
    <2>1. DOMAIN m.sock = Sockets /\ m.sock = [b \in Sockets |-> m.sock[b]]
      BY <1>1, <1>4
    <2>2. \A b \in Sockets : m.sock[b] \in SockRec
      BY <1>1, <1>6, <1>7, Sets
    <2>. QED
      BY <2>1, <2>2
  <1>9. m \in NetRec
    BY <1>4, <1>5, <1>8 DEF NetRec
  <1>10. Idle.sock = 0 /\ 0 \notin Sockets
    BY Sets DEF Idle
  <1>11. Linked(m)
    <2>1. ASSUME NEW p \in Owners, m.client[p].sock # 0
          PROVE  /\ m.sock[m.client[p].sock].owner = p
                 /\ m.sock[m.client[p].sock].client \in Live
      <3>1. p # o /\ m.client[p] = n.client[p]
        BY <1>5, <1>10, <2>1
      <3>2. n.client[p].sock \in Sockets /\ n.sock[n.client[p].sock].owner = p
            /\ n.sock[n.client[p].sock].client \in Live
        BY <2>1, <3>1, NetParts
      <3>3. n.client[p].sock # c
        BY <1>1, <1>10, <3>1, <3>2
      <3>. QED
        BY <1>6, <3>1, <3>2, <3>3
    <2>2. ASSUME NEW b \in Sockets, m.sock[b].client \in Live
          PROVE  m.client[m.sock[b].owner].sock = b
      <3>1. b # c
        BY <1>7, <1>10, <2>2 DEF Live
      <3>2. m.sock[b] = n.sock[b] /\ n.client[n.sock[b].owner].sock = b
        BY <1>6, <2>2, <3>1 DEF NetOK, Linked
      <3>3. n.sock[b].owner # o
        BY <1>2, <3>1, <3>2
      <3>4. n.sock[b].owner \in Owners
        BY <1>1 DEF SockRec
      <3>. QED
        BY <1>5, <3>2, <3>3, <3>4
    <2>. QED
      BY <2>1, <2>2 DEF Linked
  <1>12. ASSUME NEW b \in Sockets
         PROVE  SockOK(m.sock[b]) /\ Told(m.client[m.sock[b].owner], m.sock[b])
    <2>1. CASE b = c
      BY <1>7, <1>10, <2>1 DEF Told
    <2>2. CASE b # c
      <3>1. m.sock[b] = n.sock[b] /\ SockOK(n.sock[b]) /\ Told(n.client[n.sock[b].owner], n.sock[b])
        BY <1>6, <2>2 DEF NetOK
      <3>2. n.sock[b].owner \in Owners
        BY <1>1 DEF SockRec
      <3>3. CASE n.sock[b].owner = o
        <4>1. n.sock[b].client \notin Live
          BY <1>2, <2>2, <3>3 DEF NetOK, Linked
        <4>. QED
          BY <3>1, <4>1 DEF Told, Live
      <3>. QED
        BY <1>5, <3>1, <3>2, <3>3
    <2>. QED
      BY <2>1, <2>2
  <1>13. NetOK(m)
    BY <1>9, <1>11, <1>12 DEF NetOK
  <1>14. SameChains(n, m)
    BY <1>6, <1>7, <1>10 DEF SameChains
  <1>15. ASSUME NEW E, NEW K, WorkerOK(n, E, K)
         PROVE  WorkerOK(m, E, K)
    <2>1. CASE o = Worker
      BY <1>5, <1>10, <2>1, NotOpenWorker DEF IsOpen
    <2>2. CASE o # Worker
      <3>1. m.client[Worker] = n.client[Worker]
        BY <1>5, <2>2, Sets
      <3>2. n.client[Worker].sock # 0 => m.sock[n.client[Worker].sock] = n.sock[n.client[Worker].sock]
        <4>1. n.client[Worker].sock # 0 => n.client[Worker].sock \in Sockets
                                           /\ n.sock[n.client[Worker].sock].owner = Worker
          BY Sets, NetParts
        <4>. QED
          BY <1>1, <1>6, <1>10, <2>2, <4>1
      <3>. QED
        BY <1>15, <3>1, <3>2 DEF WorkerOK, IsOpen
    <2>. QED
      BY <2>1, <2>2
  <1>. QED
    BY <1>5, <1>10, <1>13, <1>14, <1>15 DEF Moved, IsOpen

(* One assignment after the other.                                          *)
LEMMA OneByOne ==
    ASSUME NEW n, NEW o, NEW b, NEW c, NEW x, NEW y
    PROVE  /\ [n EXCEPT !.client[o].sock = x, !.sock[b] = y] = [[n EXCEPT !.client[o].sock = x] EXCEPT !.sock[b] = y]
           /\ [n EXCEPT !.sock[c].client = "open", !.sock[c].server = TRUE,
                        !.client[o].docs = {}, !.client[o].ids = {}]
              = [[[[n EXCEPT !.sock[c].client = "open"] EXCEPT !.sock[c].server = TRUE]
                      EXCEPT !.client[o].docs = {}] EXCEPT !.client[o].ids = {}]
  <1>1. [n EXCEPT !.client[o].sock = x, !.sock[b] = y] = [[n EXCEPT !.client[o].sock = x] EXCEPT !.sock[b] = y]
    BY Zenon
  <1>2. [n EXCEPT !.sock[c].client = "open", !.sock[c].server = TRUE,
                        !.client[o].docs = {}, !.client[o].ids = {}]
              = [[[[n EXCEPT !.sock[c].client = "open"] EXCEPT !.sock[c].server = TRUE]
                      EXCEPT !.client[o].docs = {}] EXCEPT !.client[o].ids = {}]
    BY Zenon
  <1>. QED
    BY <1>1, <1>2, Zenon

(* Sockets of which one, b, is another one; the client record of its owner  *)
(* may have changed.                                                        *)
LEMMA OtherSocket ==
    ASSUME NEW n, NetOK(n), NEW m, NEW o \in Owners, NEW b \in Sockets,
           m.client \in [Owners -> ClientRec], m.sock \in [Sockets -> SockRec],
           m = [client |-> m.client, sock |-> m.sock],
           \A p \in Owners : p # o => m.client[p] = n.client[p],
           \A a \in Sockets : a # b => m.sock[a] = n.sock[a],
           m.client[o].sock = b, m.sock[b].owner = o, m.sock[b].client \in Live,
           n.client[o].sock \in {0, b},
           n.sock[b].client \in Live => n.sock[b].owner = o,
           SockOK(m.sock[b]), Told(m.client[o], m.sock[b]),
           m.sock[b].chain = n.sock[b].chain
    PROVE  /\ NetOK(m) /\ SameChains(n, m)
           /\ o # Worker => \A E, K : WorkerOK(n, E, K) => WorkerOK(m, E, K)
  <1>1. /\ n.client \in [Owners -> ClientRec] /\ n.sock \in [Sockets -> SockRec]
    BY NetParts
  <1>2. m \in NetRec
    BY DEF NetRec
  <1>3. ASSUME NEW p \in Owners, p # o, n.client[p].sock # 0
        PROVE  /\ n.client[p].sock \in Sockets /\ n.client[p].sock # b
               /\ n.sock[n.client[p].sock].owner = p
               /\ n.sock[n.client[p].sock].client \in Live
               /\ m.sock[n.client[p].sock] = n.sock[n.client[p].sock]
    <2>1. /\ n.client[p].sock \in Sockets
          /\ n.sock[n.client[p].sock].owner = p
          /\ n.sock[n.client[p].sock].client \in Live
      BY <1>3, NetParts
    <2>2. n.client[p].sock # b
      BY <1>3, <2>1
    <2>. QED
      BY <2>1, <2>2
  <1>4. Linked(m)
    <2>1. ASSUME NEW p \in Owners, m.client[p].sock # 0
          PROVE  /\ m.sock[m.client[p].sock].owner = p
                 /\ m.sock[m.client[p].sock].client \in Live
      BY <1>3, <2>1
    <2>2. ASSUME NEW a \in Sockets, m.sock[a].client \in Live
          PROVE  m.client[m.sock[a].owner].sock = a
      <3>1. CASE a # b
        <4>1. m.sock[a] = n.sock[a] /\ n.client[n.sock[a].owner].sock = a /\ n.sock[a].owner \in Owners
          BY <1>1, <2>2, <3>1 DEF NetOK, Linked, SockRec
        <4>2. n.sock[a].owner # o
          BY <3>1, <4>1, Sets
        <4>. QED
          BY <4>1, <4>2
      <3>. QED
        BY <3>1
    <2>. QED
      BY <2>1, <2>2 DEF Linked
  <1>5. ASSUME NEW a \in Sockets
        PROVE  SockOK(m.sock[a]) /\ Told(m.client[m.sock[a].owner], m.sock[a])
    <2>1. CASE a # b
      <3>1. m.sock[a] = n.sock[a] /\ SockOK(n.sock[a]) /\ Told(n.client[n.sock[a].owner], n.sock[a])
            /\ n.sock[a].owner \in Owners
        BY <1>1, <2>1 DEF NetOK, SockRec
      <3>2. CASE n.sock[a].owner = o
        <4>1. n.sock[a].client \notin Live
          <5>1. n.sock[a].client \in Live => n.client[o].sock = a
            BY <3>2 DEF NetOK, Linked
          <5>. QED
            BY <2>1, <5>1, Sets
        <4>. QED
          BY <3>1, <4>1 DEF Told, Live
      <3>. QED
        BY <3>1, <3>2
    <2>. QED
      BY <2>1
  <1>6. NetOK(m)
    BY <1>2, <1>4, <1>5 DEF NetOK
  <1>7. SameChains(n, m)
    BY DEF SameChains
  <1>8. ASSUME o # Worker, NEW E, NEW K, WorkerOK(n, E, K)
        PROVE  WorkerOK(m, E, K)
    <2>1. m.client[Worker] = n.client[Worker]
      BY <1>8, Sets
    <2>2. n.client[Worker].sock # 0 => m.sock[n.client[Worker].sock] = n.sock[n.client[Worker].sock]
      BY <1>3, <1>8, Sets
    <2>. QED
      BY <1>8, <2>1, <2>2 DEF WorkerOK, IsOpen
  <1>. QED
    BY <1>6, <1>7, <1>8

(* ensureSocket, connectLeaderSocket.                                       *)
LEMMA DialMoves ==
    ASSUME NEW n, NetOK(n), NEW o \in Owners, CanDialIn(n, o), NEW m, m = Dial(n, o)
    PROVE  Moved(n, m)
  <1>1. CASE n.client[o].sock # 0
    <2>1. m = n
      BY <1>1 DEF Dial
    <2>. QED
      BY <2>1, NothingKeeps DEF Moved, Kept
  <1>2. CASE n.client[o].sock = 0
    <2>1. PICK b \in Sockets : n.sock[b] = Free /\ b = CHOOSE c \in Sockets : n.sock[c] = Free
      BY <1>2 DEF CanDialIn
    <2>2. PICK s2 : s2 = [Free EXCEPT !.owner = o, !.client = "opening"]
      OBVIOUS
    <2>3. PICK k2 : k2 = [n.client[o] EXCEPT !.sock = b]
      OBVIOUS
    <2>4. m = [n EXCEPT !.client[o].sock = b, !.sock[b] = s2]
      BY <1>2, <2>1, <2>2 DEF Dial
    <2>5. /\ n.client \in [Owners -> ClientRec] /\ n.sock \in [Sockets -> SockRec]
          /\ n = [client |-> n.client, sock |-> n.sock] /\ n.client[o] \in ClientRec
      BY NetParts
    <2>6. m = [client |-> [n.client EXCEPT ![o] = k2], sock |-> [n.sock EXCEPT ![b] = s2]]
      <3>1. PICK C, S : C = n.client /\ S = n.sock
        OBVIOUS
      <3>2. n = [client |-> C, sock |-> S]
        BY <2>5, <3>1
      <3>3. PICK n1 : n1 = [n EXCEPT !.client[o].sock = b]
        OBVIOUS
      <3>4. n1 = [client |-> [C EXCEPT ![o] = k2], sock |-> S]
        BY <2>3, <3>1, <3>2, <3>3, ClientField, SockField, Zenon
      <3>5. [n1 EXCEPT !.sock[b] = s2] = [client |-> [C EXCEPT ![o] = k2], sock |-> [S EXCEPT ![b] = s2]]
        <4>1. PICK C2 : C2 = [C EXCEPT ![o] = k2]
          OBVIOUS
        <4>2. n1 = [client |-> C2, sock |-> S]
          BY <3>4, <4>1
        <4>3. [n1 EXCEPT !.sock[b] = s2] = [client |-> C2, sock |-> [S EXCEPT ![b] = s2]]
          <5> DEFINE y == [n1.sock EXCEPT ![b] = s2]
          <5> HIDE DEF y
          <5>1. [n1 EXCEPT !.sock = y] = [client |-> C2, sock |-> y] /\ n1.sock = S
            BY <4>2
          <5>. QED
            BY <5>1 DEF y
        <4>. QED
          BY <4>1, <4>3, Zenon
      <3>6. m = [n1 EXCEPT !.sock[b] = s2]
        BY <2>4, <3>3, OneByOne, Zenon
      <3>. QED
        BY <3>1, <3>5, <3>6
    <2>7. /\ s2 \in SockRec /\ s2.owner = o /\ s2.client = "opening" /\ s2.chain = Free.chain
          /\ SockOK(s2)
      BY <2>2, EmptyRec, EmptyIs DEF Free, SockRec, SockOK, Live
    <2>8. k2 \in ClientRec /\ k2.sock = b
      BY <2>3, <2>5, Sets DEF ClientRec
    <2>9. /\ m.client = [n.client EXCEPT ![o] = k2] /\ m.sock = [n.sock EXCEPT ![b] = s2]
          /\ m = [client |-> m.client, sock |-> m.sock]
      BY <2>6
    <2>10. /\ m.client \in [Owners -> ClientRec] /\ m.sock \in [Sockets -> SockRec]
           /\ m.client[o] = k2 /\ m.sock[b] = s2
           /\ \A p \in Owners : p # o => m.client[p] = n.client[p]
           /\ \A a \in Sockets : a # b => m.sock[a] = n.sock[a]
      BY <2>5, <2>7, <2>8, <2>9
    <2>11. Told(k2, s2)
      BY <2>7 DEF Told
    <2>12. s2.client \in Live /\ n.sock[b].client \notin Live
      BY <2>1, <2>7 DEF Live, Free
    <2>13. /\ NetOK(m) /\ SameChains(n, m)
           /\ o # Worker => \A E, K : WorkerOK(n, E, K) => WorkerOK(m, E, K)
      <3>1. /\ m.client \in [Owners -> ClientRec] /\ m.sock \in [Sockets -> SockRec]
            /\ m = [client |-> m.client, sock |-> m.sock]
            /\ \A p \in Owners : p # o => m.client[p] = n.client[p]
            /\ \A a \in Sockets : a # b => m.sock[a] = n.sock[a]
        BY <2>9, <2>10
      <3>2. /\ m.client[o].sock = b /\ m.sock[b].owner = o /\ m.sock[b].client \in Live
            /\ n.client[o].sock \in {0, b}
            /\ n.sock[b].client \in Live => n.sock[b].owner = o
            /\ SockOK(m.sock[b]) /\ Told(m.client[o], m.sock[b])
            /\ m.sock[b].chain = n.sock[b].chain
        BY <1>2, <2>1, <2>7, <2>8, <2>10, <2>11, <2>12
      <3>. QED
        BY <3>1, <3>2, OtherSocket
    <2>14. ASSUME o = Worker, NEW E, NEW K
           PROVE  WorkerOK(m, E, K)
      <3>1. ~IsOpen(m, Worker)
        BY <2>7, <2>8, <2>10, <2>14 DEF IsOpen
      <3>. QED
        BY <3>1, NotOpenWorker
    <2>. QED
      BY <2>13, <2>14 DEF Moved
  <1>. QED
    BY <1>1, <1>2

(* The socket opens, and nothing has been applied to it yet.                *)
Opened(n, c, m) ==
  m = [n EXCEPT !.sock[c].client = "open", !.sock[c].server = TRUE,
                !.client[n.sock[c].owner].docs = {}, !.client[n.sock[c].owner].ids = {}]
LEMMA OpenedMoves ==
    ASSUME NEW n, NetOK(n), NEW c \in Sockets, n.sock[c].client = "opening", NEW m, Opened(n, c, m)
    PROVE  /\ NetOK(m) /\ SameChains(n, m)
           /\ n.sock[c].owner # Worker => \A E, K : WorkerOK(n, E, K) => WorkerOK(m, E, K)
           /\ n.sock[c].owner = Worker => WorkerOK(m, {}, {})
  <1>1. PICK o : o = n.sock[c].owner
    OBVIOUS
  <1>2. /\ n.client \in [Owners -> ClientRec] /\ n.sock \in [Sockets -> SockRec]
        /\ n = [client |-> n.client, sock |-> n.sock] /\ n.sock[c] \in SockRec
    <2>1. Worker \in Owners
      BY Sets
    <2>. QED
      BY <2>1, NetParts
  <1>3. o \in Owners /\ n.client[o] \in ClientRec /\ n.client[o].sock = c
    <2>1. o \in Owners
      BY <1>1, <1>2 DEF SockRec
    <2>2. n.client[o].sock = c
      BY <1>1 DEF NetOK, Linked, Live
    <2>. QED
      BY <1>2, <2>1, <2>2
  <1>4. PICK k2 : k2 = [n.client[o] EXCEPT !.docs = {}, !.ids = {}]
    OBVIOUS
  <1>5. PICK s2 : s2 = [n.sock[c] EXCEPT !.client = "open", !.server = TRUE]
    OBVIOUS
  <1>6. m = [client |-> [n.client EXCEPT ![o] = k2], sock |-> [n.sock EXCEPT ![c] = s2]]
    <2>1. PICK C, S : C = n.client /\ S = n.sock
      OBVIOUS
    <2>2. n = [client |-> C, sock |-> S]
      BY <1>2, <2>1
    <2>3. PICK s1, s3, k1, k3 : /\ s1 = [S[c] EXCEPT !.client = "open"] /\ s3 = [s1 EXCEPT !.server = TRUE]
                                /\ k1 = [C[o] EXCEPT !.docs = {}] /\ k3 = [k1 EXCEPT !.ids = {}]
      OBVIOUS
    <2>4. PICK S1, S3, C1, C3 : /\ S1 = [S EXCEPT ![c] = s1] /\ S3 = [S1 EXCEPT ![c] = s3]
                                /\ C1 = [C EXCEPT ![o] = k1] /\ C3 = [C1 EXCEPT ![o] = k3]
      OBVIOUS
    <2>5. PICK n1 : n1 = [n EXCEPT !.sock[c].client = "open"]
      OBVIOUS
    <2>6. n1 = [client |-> C, sock |-> S1]
      BY <2>2, <2>3, <2>4, <2>5, ClientField, SockField, Zenon
    <2>7. PICK n2 : n2 = [n1 EXCEPT !.sock[c].server = TRUE]
      OBVIOUS
    <2>8. S1[c] = s1 /\ C1[o] = k1
      BY <1>2, <1>3, <2>1, <2>4
    <2>9. n2 = [client |-> C, sock |-> S3]
      <3>1. n2 = [client |-> C, sock |-> [S1 EXCEPT ![c] = [S1[c] EXCEPT !.server = TRUE]]]
        BY <2>6, <2>7, ClientField, SockField, Zenon
      <3>. QED
        BY <2>3, <2>4, <2>8, <3>1, Zenon
    <2>10. PICK n3 : n3 = [n2 EXCEPT !.client[o].docs = {}]
      OBVIOUS
    <2>11. n3 = [client |-> C1, sock |-> S3]
      BY <2>9, <2>3, <2>4, <2>10, ClientField, SockField, Zenon
    <2>12. PICK n4 : n4 = [n3 EXCEPT !.client[o].ids = {}]
      OBVIOUS
    <2>13. n4 = [client |-> C3, sock |-> S3]
      <3>1. n4 = [client |-> [C1 EXCEPT ![o] = [C1[o] EXCEPT !.ids = {}]], sock |-> S3]
        BY <2>11, <2>12, ClientField, SockField, Zenon
      <3>. QED
        BY <2>3, <2>4, <2>8, <3>1, Zenon
    <2>14. m = n4
      BY <1>1, <2>5, <2>7, <2>10, <2>12, OneByOne, Zenon DEF Opened
    <2>15. s3 = s2 /\ k3 = k2
      BY <1>2, <1>3, <1>4, <1>5, <2>1, <2>3 DEF SockRec, ClientRec
    <2>16. S3 = [S EXCEPT ![c] = s3] /\ C3 = [C EXCEPT ![o] = k3]
      BY <1>2, <1>3, <2>1, <2>4
    <2>. QED
      BY <2>1, <2>13, <2>14, <2>15, <2>16
  <1>7. k2 \in ClientRec /\ k2.sock = c /\ k2.docs = {} /\ k2.ids = {}
    BY <1>3, <1>4 DEF ClientRec
  <1>8. /\ s2 \in SockRec /\ s2.owner = o /\ s2.client = "open" /\ s2.server
        /\ s2.docs = {} /\ s2.ids = {} /\ s2.up = <<>> /\ s2.chain = <<>>
        /\ n.sock[c].chain = <<>>
    <2>1. ~n.sock[c].server /\ n.sock[c].docs = {} /\ n.sock[c].ids = {} /\ n.sock[c].up = <<>>
          /\ n.sock[c].chain = <<>>
      BY DEF NetOK, SockOK
    <2>. QED
      BY <1>1, <1>2, <1>5, <2>1 DEF SockRec, Live
  <1>9. /\ m.client = [n.client EXCEPT ![o] = k2] /\ m.sock = [n.sock EXCEPT ![c] = s2]
        /\ m = [client |-> m.client, sock |-> m.sock]
    BY <1>6
  <1>10. /\ m.client \in [Owners -> ClientRec] /\ m.sock \in [Sockets -> SockRec]
         /\ m.client[o] = k2 /\ m.sock[c] = s2
         /\ \A p \in Owners : p # o => m.client[p] = n.client[p]
         /\ \A a \in Sockets : a # c => m.sock[a] = n.sock[a]
    BY <1>2, <1>3, <1>7, <1>8, <1>9
  <1>11. SockOK(s2)
    BY <1>8, EmptyIs DEF SockOK
  <1>12. Told(k2, s2)
    <2>1. \A K, x : Quiet(<<>>, K, x)
      BY EmptyIs DEF Quiet
    <2>. QED
      BY <1>7, <1>8, <2>1 DEF Told, WillHide, WillForget
  <1>13. /\ NetOK(m) /\ SameChains(n, m)
         /\ o # Worker => \A E, K : WorkerOK(n, E, K) => WorkerOK(m, E, K)
    <2>1. s2.client \in Live
      BY <1>8 DEF Live
    <2>. QED
      BY <1>1, <1>3, <1>7, <1>8, <1>9, <1>10, <1>11, <1>12, <2>1, OtherSocket
  <1>14. o = Worker => WorkerOK(m, {}, {})
    BY <1>7, <1>10, <1>3 DEF WorkerOK
  <1>. QED
    BY <1>1, <1>13, <1>14

(* recomputeLeader.                                                         *)
LEMMA ElectMoves ==
    ASSUME NEW n, NetOK(n), NEW t \in Tabs, CanDialIn(n, t), NEW v, NEW m, m = Elect(n, t, v)
    PROVE  Moved(n, m)
  <1> DEFINE first == \A u \in Tabs \ {t} : v[u].here => t < u
  <1>1. t \in Owners
    BY Sets
  <1>2. CASE m = n
    BY <1>2, NothingKeeps DEF Moved, Kept
  <1>3. CASE m = [Dial(n, t) EXCEPT !.client[t].leads = TRUE]
    <2>1. PICK d : d = Dial(n, t)
      OBVIOUS
    <2>2. Moved(n, d)
      BY <1>1, <2>1, DialMoves
    <2>3. NetOK(d) /\ SameButFlags(d, t, m)
      <3>1. m = Leading(d, t)
        BY <1>3, <2>1 DEF Leading
      <3>. QED
        BY <1>1, <2>2, <3>1, FlagsAre DEF Moved
    <2>4. Moved(d, m)
      BY <1>1, <2>3, FlagsMove
    <2>. QED
      BY <2>2, <2>4, MovedOn
  <1>4. CASE m = HangUp(n, t)
    BY <1>1, <1>4, HangUpMoves
  <1>. QED
    BY <1>2, <1>3, <1>4 DEF Elect

LEMMA LeaderSyncs ==
    ASSUME NEW n, NetOK(n), NEW t \in Tabs, NEW I \in SUBSET Tabs, NEW D \in SUBSET Docs
    PROVE  Moved(n, SyncIds(n, t, I)) /\ Moved(n, SyncDocs(SyncIds(n, t, I), t, D))
  <1>1. t \in Owners /\ t # Worker
    BY Sets
  <1>2. PICK m : m = SyncIds(n, t, I)
    OBVIOUS
  <1>3. Moved(n, m)
    BY <1>1, <1>2, SyncIdsKeeps DEF Moved, Kept
  <1>4. PICK p : p = SyncDocs(m, t, D)
    OBVIOUS
  <1>5. Moved(m, p)
    <2>1. NetOK(m)
      BY <1>3 DEF Moved
    <2>. QED
      BY <1>1, <1>4, <2>1, SyncDocsKeeps DEF Moved, Kept
  <1>. QED
    BY <1>2, <1>3, <1>4, <1>5, MovedOn

-----------------------------------------------------------------------------
(* Types.                                                                    *)

LEMMA ViewsAre ==
    /\ Gone \in Views /\ ~Gone.known /\ ~Gone.here
    /\ [u \in Tabs |-> Gone] \in [Tabs -> Views]
    /\ \A v \in [Tabs -> Views] : Desired(v) \in SUBSET Docs /\ Known(v) \in SUBSET Tabs
    /\ \A v \in [Tabs -> Views], t \in Tabs, s \in Views : [v EXCEPT ![t] = s] \in [Tabs -> Views]
  BY DEF Gone, Views, Desired, Known

LEMMA MessagesAre ==
    /\ \A k \in TabRec : StateOf(k) \in Messages /\ StateOf(k).s \in Views
    /\ [t |-> "register"] \in Messages /\ [t |-> "unregister"] \in Messages
    /\ \A m \in Messages : m.t = "state" => m.s \in Views
  BY DEF StateOf, Messages, Views, TabRec

LEMMA StateIs ==
    ASSUME Typed, NEW t \in Tabs
    PROVE  tab[t] \in TabRec /\ State(t) \in Views
  BY DEF Typed, State, Views, TabRec

LEMMA TellTypes ==
    ASSUME Typed, NEW t \in Tabs, NEW g, NEW ms \in Seq(Messages), Tell(t, g, ms)
    PROVE  up' \in [Tabs -> [Ports -> Seq(Messages)]]
  <1> DEFINE q == [up[t] EXCEPT ![g] = @ \o ms]
  <1>1. up \in [Tabs -> [Ports -> Seq(Messages)]] /\ up[t] \in [Ports -> Seq(Messages)]
    BY DEF Typed
  <1>2. q \in [Ports -> Seq(Messages)]
    <2>1. CASE g \in Ports
      <3>1. up[t][g] \o ms \in Seq(Messages)
        BY <1>1, <2>1, ConcatIs
      <3>. QED
        BY <1>1, <2>1, <3>1
    <2>2. CASE g \notin Ports
      <3>1. q = up[t]
        BY <1>1, <2>2
      <3>. QED
        BY <1>1, <3>1
    <2>. QED
      BY <2>1, <2>2
  <1>3. up' = [up EXCEPT ![t] = q]
    BY DEF Tell
  <1> HIDE DEF q
  <1>. QED
    BY <1>1, <1>2, <1>3

LEMMA NetNext ==
    ASSUME NEW m, NetOK(m), Becomes(m)
    PROVE  Net' = m /\ sock' = m.sock /\ client' = m.client
  <1>1. m = [client |-> m.client, sock |-> m.sock]
    BY Sets, NetParts
  <1>. QED
    BY <1>1 DEF Net, Becomes

LEMMA JobsStay ==
    ASSUME NEW js, NEW n, NEW m, JobsOK(js, n.sock), SameChains(n, m)
    PROVE  JobsOK(js, m.sock)
  BY DEF JobsOK, SameChains

LEMMA NetIs ==
    Net.client = client /\ Net.sock = sock
  BY DEF Net

(* A step of a page, as far as the net and the worker are concerned.        *)
LEMMA PageStep ==
    ASSUME Inv, Typed', NEW m, Moved(Net, m), Becomes(m), view'[Worker] = view[Worker], jobs' = jobs
    PROVE  Inv'
  <1>1. NetOK(m)
    BY DEF Moved
  <1>2. Net' = m /\ sock' = m.sock
    BY <1>1, NetNext
  <1>3. NetOK(Net')
    BY <1>1, <1>2
  <1>4. WorkerOK(Net', Desired(view'[Worker]), Known(view'[Worker]))
    <2>1. WorkerOK(m, Desired(view[Worker]), Known(view[Worker]))
      BY DEF Inv, Moved
    <2>. QED
      BY <1>2, <2>1
  <1>5. JobsOK(jobs', sock')
    <2>1. JobsOK(jobs, Net.sock) /\ SameChains(Net, m)
      BY NetIs DEF Inv, Moved
    <2>2. JobsOK(jobs, m.sock)
      BY <2>1, JobsStay
    <2>. QED
      BY <1>2, <2>2
  <1>. QED
    BY <1>3, <1>4, <1>5 DEF Inv

LEMMA QuietStep ==
    ASSUME Inv, Typed', UNCHANGED <<client, sock, jobs>>, view'[Worker] = view[Worker]
    PROVE  Inv'
  <1>1. NetOK(Net)
    BY DEF Inv
  <1>2. Moved(Net, Net) /\ Becomes(Net)
    BY <1>1, NothingKeeps, NetIs DEF Moved, Kept, Becomes
  <1>. QED
    BY <1>2, PageStep

-----------------------------------------------------------------------------
(* The pages.                                                                *)

LEMMA AcquireKeeps ==
    ASSUME Inv, NEW t \in Tabs, Acquire(t)
    PROVE  Inv'
  <1>0. Typed
    BY DEF Inv
  <1>1. tab[t] \in TabRec
    BY <1>0, StateIs
  <1>2. PICK k : /\ k = [tab[t] EXCEPT !.mode = "worker", !.acked = FALSE, !.gen = @ + 1]
                 /\ tab' = [tab EXCEPT ![t] = k]
                 /\ Tell(t, k.gen, <<[t |-> "register"], StateOf(k)>>)
                 /\ tab[t].gen < MaxPorts
    BY Zenon DEF Acquire
  <1>3. UNCHANGED <<port, view, client, sock, activity, jobs>>
    BY DEF Acquire
  <1>4. k \in TabRec
    <2>1. tab[t].gen + 1 \in 0 .. MaxPorts
      BY <1>1, <1>2, Sets DEF TabRec
    <2>. QED
      BY <1>1, <1>2, <2>1 DEF TabRec
  <1>5. tab' \in [Tabs -> TabRec]
    BY <1>0, <1>2, <1>4 DEF Typed
  <1>6. up' \in [Tabs -> [Ports -> Seq(Messages)]]
    <2>1. <<[t |-> "register"], StateOf(k)>> \in Seq(Messages)
      BY <1>4, MessagesAre
    <2>. QED
      BY <1>0, <1>2, <2>1, TellTypes
  <1>7. Typed'
    BY <1>0, <1>3, <1>5, <1>6 DEF Typed
  <1>. QED
    BY <1>3, <1>7, QuietStep

LEMMA PushKeeps ==
    ASSUME Inv, NEW t \in Tabs, NEW k \in TabRec, Push(t, k),
           UNCHANGED <<port, view, activity, jobs>>
    PROVE  Inv'
  <1>0. Typed
    BY DEF Inv
  <1>1. tab' \in [Tabs -> TabRec]
    BY <1>0 DEF Typed, Push
  <1>2. CASE k.mode = "worker"
    <2>1. Tell(t, k.gen, <<StateOf(k)>>) /\ UNCHANGED <<client, sock>>
      BY <1>2 DEF Push
    <2>2. <<StateOf(k)>> \in Seq(Messages)
      BY MessagesAre
    <2>3. up' \in [Tabs -> [Ports -> Seq(Messages)]]
      BY <1>0, <2>1, <2>2, TellTypes
    <2>4. Typed'
      BY <1>0, <1>1, <2>3 DEF Typed
    <2>. QED
      BY <2>1, <2>4, QuietStep
  <1>3. CASE k.mode # "worker"
    <2>1. UNCHANGED up
      BY <1>3 DEF Push
    <2>2. Typed'
      BY <1>0, <1>1, <2>1 DEF Typed
    <2>3. CASE ~client[t].leads
      <3>1. UNCHANGED <<client, sock>>
        BY <1>3, <2>3 DEF Push
      <3>. QED
        BY <2>2, <3>1, QuietStep
    <2>4. CASE client[t].leads
      <3>1. PICK v : /\ v = [view[t] EXCEPT ![t] = StateOf(k).s]
                     /\ Becomes(SyncDocs(SyncIds(Net, t, Known(v)), t, Desired(v)))
        BY <1>3, <2>4 DEF Push
      <3>2. v \in [Tabs -> Views]
        <4>1. view[t] \in [Tabs -> Views]
          BY <1>0, Sets DEF Typed
        <4>. QED
          BY <3>1, <4>1, ViewsAre, MessagesAre
      <3>3. NetOK(Net)
        BY DEF Inv
      <3>4. Moved(Net, SyncDocs(SyncIds(Net, t, Known(v)), t, Desired(v)))
        BY <3>2, <3>3, ViewsAre, LeaderSyncs
      <3>. QED
        BY <2>2, <3>1, <3>4, PageStep
    <2>. QED
      BY <2>3, <2>4
  <1>. QED
    BY <1>2, <1>3

LEMMA OpenDocumentKeeps ==
    ASSUME Inv, NEW t \in Tabs, OpenDocument(t)
    PROVE  Inv'
  <1>1. PICK d \in Docs \ tab[t].open :
           /\ Push(t, [tab[t] EXCEPT !.open = @ \cup {d}, !.known = TRUE, !.seen[d] = 0])
           /\ UNCHANGED <<port, view, activity, jobs>>
    BY DEF OpenDocument
  <1>2. tab[t] \in TabRec
    BY StateIs DEF Inv
  <1>3. [tab[t] EXCEPT !.open = @ \cup {d}, !.known = TRUE, !.seen[d] = 0] \in TabRec
    BY <1>1, <1>2, Sets DEF TabRec
  <1>. QED
    BY <1>1, <1>3, PushKeeps

LEMMA CloseDocumentKeeps ==
    ASSUME Inv, NEW t \in Tabs, CloseDocument(t)
    PROVE  Inv'
  <1>1. PICK d \in tab[t].open :
           /\ Push(t, [tab[t] EXCEPT !.open = @ \ {d}])
           /\ UNCHANGED <<port, view, activity, jobs>>
    BY DEF CloseDocument
  <1>2. tab[t] \in TabRec
    BY StateIs DEF Inv
  <1>3. [tab[t] EXCEPT !.open = @ \ {d}] \in TabRec
    BY <1>1, <1>2 DEF TabRec
  <1>. QED
    BY <1>1, <1>3, PushKeeps

LEMMA ReleaseKeeps ==
    ASSUME Inv, NEW t \in Tabs, Release(t)
    PROVE  Inv'
  <1>0. Typed
    BY DEF Inv
  <1>1. tab' \in [Tabs -> TabRec]
    <2>1. tab' = [tab EXCEPT ![t] = [tab[t] EXCEPT !.mode = "off"]]
      BY DEF Release
    <2>2. [tab[t] EXCEPT !.mode = "off"] \in TabRec
      BY <1>0, StateIs DEF TabRec
    <2>. QED
      BY <1>0, <2>1, <2>2 DEF Typed
  <1>2. CASE tab[t].mode = "worker"
    <2>1. Tell(t, tab[t].gen, <<[t |-> "unregister"]>>)
          /\ UNCHANGED <<port, view, client, sock, activity, jobs>>
      BY <1>2 DEF Release
    <2>2. <<[t |-> "unregister"]>> \in Seq(Messages)
      BY MessagesAre
    <2>3. up' \in [Tabs -> [Ports -> Seq(Messages)]]
      BY <1>0, <2>1, <2>2, TellTypes
    <2>4. Typed'
      BY <1>0, <1>1, <2>1, <2>3 DEF Typed
    <2>. QED
      BY <2>1, <2>4, QuietStep
  <1>3. CASE tab[t].mode # "worker"
    <2>1. /\ Becomes(HangUp(Net, t))
          /\ view' = [view EXCEPT ![t] = [u \in Tabs |-> Gone]]
          /\ UNCHANGED <<up, port, activity, jobs>>
      BY <1>3 DEF Release
    <2>2. t \in Owners /\ t # Worker /\ Worker \in Owners
      BY Sets
    <2>3. view' \in [Owners -> [Tabs -> Views]] /\ view'[Worker] = view[Worker]
      BY <1>0, <2>1, <2>2, ViewsAre DEF Typed
    <2>4. Typed'
      BY <1>0, <1>1, <2>1, <2>3 DEF Typed
    <2>5. Moved(Net, HangUp(Net, t))
      BY <2>2, HangUpMoves DEF Inv
    <2>. QED
      BY <2>1, <2>3, <2>4, <2>5, PageStep
  <1>. QED
    BY <1>2, <1>3

LEMMA HeartbeatKeeps ==
    ASSUME Inv, NEW t \in Tabs, Heartbeat(t)
    PROVE  Inv'
  <1>1. Typed /\ tab[t] \in TabRec
    BY StateIs DEF Inv
  <1>2. <<StateOf(tab[t])>> \in Seq(Messages)
    BY <1>1, MessagesAre
  <1>3. Tell(t, tab[t].gen, <<StateOf(tab[t])>>)
        /\ UNCHANGED <<tab, port, view, client, sock, activity, jobs>>
    BY DEF Heartbeat
  <1>4. up' \in [Tabs -> [Ports -> Seq(Messages)]]
    BY <1>1, <1>2, <1>3, TellTypes
  <1>5. Typed'
    BY <1>1, <1>3, <1>4 DEF Typed
  <1>. QED
    BY <1>3, <1>5, QuietStep

LEMMA SleepKeeps ==
    ASSUME Inv, NEW t \in Tabs, Sleep(t)
    PROVE  Inv'
  <1>1. Typed /\ tab[t] \in TabRec
    BY StateIs DEF Inv
  <1>2. tab' = [tab EXCEPT ![t] = [tab[t] EXCEPT !.awake = FALSE]]
        /\ UNCHANGED <<port, view, up, client, sock, activity, jobs>>
    BY DEF Sleep
  <1>3. [tab[t] EXCEPT !.awake = FALSE] \in TabRec
    BY <1>1 DEF TabRec
  <1>4. Typed'
    BY <1>1, <1>2, <1>3 DEF Typed
  <1>. QED
    BY <1>2, <1>4, QuietStep

(* The worker's interval and the reconnect timers.                          *)
LEMMA CanDialIs ==
    \A o : CanDial(o) => CanDialIn(Net, o)
  BY NetIs DEF CanDial, CanDialIn

LEMMA RedialKeeps ==
    ASSUME Inv, NEW o \in Owners, Redial(o)
    PROVE  Inv'
  <1>1. /\ CanDial(o)
        /\ Becomes(IF Wants(o) THEN Dial(Stopped(Net, o), o) ELSE Stopped(Net, o))
        /\ UNCHANGED <<tab, port, view, up, activity, jobs>>
    BY DEF Redial, Stopped
  <1>2. Typed'
    BY <1>1 DEF Inv, Typed
  <1>3. PICK n : n = Stopped(Net, o)
    OBVIOUS
  <1>4. Moved(Net, n) /\ CanDialIn(n, o)
    <2>1. NetOK(Net)
      BY DEF Inv
    <2>2. SameButFlags(Net, o, n)
      BY <1>3, <2>1, FlagsAre
    <2>. QED
      BY <1>1, <2>1, <2>2, FlagsMove, CanDialIs
  <1>5. PICK m : m = Dial(n, o)
    OBVIOUS
  <1>6. Moved(n, m)
    <2>1. NetOK(n)
      BY <1>4 DEF Moved
    <2>. QED
      BY <1>4, <1>5, <2>1, DialMoves
  <1>7. Moved(Net, m)
    BY <1>4, <1>6, MovedOn
  <1>8. Becomes(m) \/ Becomes(n)
    BY <1>1, <1>3, <1>5
  <1>. QED
    BY <1>1, <1>2, <1>4, <1>7, <1>8, PageStep

(* tick and what a page does when it hears another: it may lead or stop to, *)
(* and brings its socket up to date.                                        *)
LEMMA TickedMoves ==
    ASSUME Inv, NEW t \in Tabs, NEW v \in [Tabs -> Views], CanDial(t),
           Ticked(t, v) \/ Reelect(t, v)
    PROVE  /\ \E m : Becomes(m) /\ Moved(Net, m)
           /\ view' \in [Owners -> [Tabs -> Views]] /\ view'[Worker] = view[Worker]
  <1>0. Typed /\ NetOK(Net)
    BY DEF Inv
  <1>1. CanDialIn(Net, t) /\ t \in Owners /\ t # Worker /\ Worker \in Owners
    BY CanDialIs, Sets
  <1>2. view' = [view EXCEPT ![t] = v]
    BY DEF Ticked, Reelect
  <1>3. view' \in [Owners -> [Tabs -> Views]] /\ view'[Worker] = view[Worker]
    BY <1>0, <1>1, <1>2 DEF Typed
  <1>4. PICK n : n = Elect(Net, t, v)
    OBVIOUS
  <1>5. Moved(Net, n) /\ NetOK(n)
    BY <1>0, <1>1, <1>4, ElectMoves DEF Moved
  <1>6. PICK I, D : I = Known(Own(t, v)) /\ D = Desired(Own(t, v))
    OBVIOUS
  <1>7. I \in SUBSET Tabs /\ D \in SUBSET Docs
    <2>1. State(t) \in Views
      BY <1>0, StateIs
    <2>2. Own(t, v) \in [Tabs -> Views]
      BY <2>1, ViewsAre DEF Own
    <2>. QED
      BY <1>6, <2>2, ViewsAre
  <1>8. Moved(n, SyncIds(n, t, I)) /\ Moved(n, SyncDocs(SyncIds(n, t, I), t, D))
    BY <1>5, <1>7, LeaderSyncs
  <1>9. Becomes(n) \/ Becomes(SyncIds(n, t, I)) \/ Becomes(SyncDocs(SyncIds(n, t, I), t, D))
    <2>1. CASE Ticked(t, v)
      BY <2>1, <1>4, <1>6 DEF Ticked
    <2>2. CASE Reelect(t, v)
      BY <2>2, <1>4, <1>6 DEF Reelect
    <2>. QED
      BY <2>1, <2>2
  <1>10. /\ Moved(Net, SyncIds(n, t, I))
         /\ Moved(Net, SyncDocs(SyncIds(n, t, I), t, D))
    BY <1>5, <1>8, MovedOn
  <1>. QED
    BY <1>3, <1>5, <1>9, <1>10

LEMMA TimeoutKeeps ==
    ASSUME Inv, NEW t \in Tabs, Timeout(t)
    PROVE  Inv'
  <1>0. Typed /\ tab[t] \in TabRec
    BY StateIs DEF Inv
  <1>1. /\ tab' = [tab EXCEPT ![t] = [tab[t] EXCEPT !.mode = "fallback"]]
        /\ Tell(t, tab[t].gen, <<[t |-> "unregister"]>>)
        /\ Ticked(t, [u \in Tabs |-> Gone])
        /\ CanDial(t)
        /\ UNCHANGED <<port, activity, jobs>>
    BY DEF Timeout
  <1>2. [tab[t] EXCEPT !.mode = "fallback"] \in TabRec
    BY <1>0 DEF TabRec
  <1>3. tab' \in [Tabs -> TabRec]
    BY <1>0, <1>1, <1>2 DEF Typed
  <1>4. up' \in [Tabs -> [Ports -> Seq(Messages)]]
    <2>1. <<[t |-> "unregister"]>> \in Seq(Messages)
      BY MessagesAre
    <2>. QED
      BY <1>0, <1>1, <2>1, TellTypes
  <1>5. /\ \E m : Becomes(m) /\ Moved(Net, m)
        /\ view' \in [Owners -> [Tabs -> Views]] /\ view'[Worker] = view[Worker]
    BY <1>1, ViewsAre, TickedMoves
  <1>6. Typed'
    BY <1>0, <1>1, <1>3, <1>4, <1>5 DEF Typed
  <1>. QED
    BY <1>1, <1>5, <1>6, PageStep

LEMMA HearKeeps ==
    ASSUME Inv, NEW t \in Tabs, Hear(t)
    PROVE  Inv'
  <1>0. Typed
    BY DEF Inv
  <1>1. PICK u \in Tabs \ {t} :
          /\ Reelect(t, [view[t] EXCEPT ![u] = State(u)])
          /\ CanDial(t)
          /\ UNCHANGED <<tab, port, up, activity, jobs>>
    BY DEF Hear
  <1>2. [view[t] EXCEPT ![u] = State(u)] \in [Tabs -> Views]
    <2>1. view[t] \in [Tabs -> Views] /\ State(u) \in Views
      BY <1>0, <1>1, Sets, StateIs DEF Typed
    <2>. QED
      BY <2>1, ViewsAre
  <1>5. /\ \E m : Becomes(m) /\ Moved(Net, m)
        /\ view' \in [Owners -> [Tabs -> Views]] /\ view'[Worker] = view[Worker]
    BY <1>1, <1>2, TickedMoves
  <1>6. Typed'
    BY <1>0, <1>1, <1>5 DEF Typed
  <1>. QED
    BY <1>1, <1>5, <1>6, PageStep

LEMMA TickKeeps ==
    ASSUME Inv, NEW t \in Tabs, Tick(t)
    PROVE  Inv'
  <1>0. Typed
    BY DEF Inv
  <1>1. PICK silent \in SUBSET Tabs :
          /\ Ticked(t, [u \in Tabs |-> IF u \in silent THEN Gone ELSE view[t][u]])
          /\ CanDial(t)
          /\ UNCHANGED <<tab, port, up, activity, jobs>>
    <2>1. {u \in Tabs \ {t} : ~Beats(u) /\ view[t][u].here} \in SUBSET Tabs
      OBVIOUS
    <2>. QED
      BY <2>1, Zenon DEF Tick
  <1>2. [u \in Tabs |-> IF u \in silent THEN Gone ELSE view[t][u]] \in [Tabs -> Views]
    <2>1. view[t] \in [Tabs -> Views]
      BY <1>0, Sets DEF Typed
    <2>. QED
      BY <2>1, ViewsAre
  <1>5. /\ \E m : Becomes(m) /\ Moved(Net, m)
        /\ view' \in [Owners -> [Tabs -> Views]] /\ view'[Worker] = view[Worker]
    BY <1>1, <1>2, TickedMoves
  <1>6. Typed'
    BY <1>0, <1>1, <1>5 DEF Typed
  <1>. QED
    BY <1>1, <1>5, <1>6, PageStep

LEMMA WakeKeeps ==
    ASSUME Inv, NEW t \in Tabs, Wake(t)
    PROVE  Inv'
  <1>0. Typed /\ tab[t] \in TabRec
    BY StateIs DEF Inv
  <1>1. /\ tab' = [tab EXCEPT ![t] = [tab[t] EXCEPT !.awake = TRUE]]
        /\ CanDial(t)
        /\ UNCHANGED <<port, up, activity, jobs>>
        /\ UNCHANGED <<view, client, sock>> \/ Ticked(t, [u \in Tabs |-> Gone])
    BY DEF Wake
  <1>2. [tab[t] EXCEPT !.awake = TRUE] \in TabRec
    BY <1>0 DEF TabRec
  <1>3. tab' \in [Tabs -> TabRec]
    BY <1>0, <1>1, <1>2 DEF Typed
  <1>4. CASE UNCHANGED <<view, client, sock>>
    <2>1. Typed'
      BY <1>0, <1>1, <1>3, <1>4 DEF Typed
    <2>. QED
      BY <1>1, <1>4, <2>1, QuietStep
  <1>5. CASE Ticked(t, [u \in Tabs |-> Gone])
    <2>1. /\ \E m : Becomes(m) /\ Moved(Net, m)
          /\ view' \in [Owners -> [Tabs -> Views]] /\ view'[Worker] = view[Worker]
      BY <1>1, <1>5, ViewsAre, TickedMoves
    <2>2. Typed'
      BY <1>0, <1>1, <1>3, <2>1 DEF Typed
    <2>. QED
      BY <1>1, <2>1, <2>2, PageStep
  <1>. QED
    BY <1>1, <1>4, <1>5

-----------------------------------------------------------------------------
(* The worker.                                                               *)

LEMMA WorkerStep ==
    ASSUME Inv, Typed', NEW m, NetOK(m), SameChains(Net, m), Becomes(m), jobs' = jobs,
           WorkerOK(m, Desired(view'[Worker]), Known(view'[Worker]))
    PROVE  Inv'
  <1>1. Net' = m /\ sock' = m.sock
    BY NetNext
  <1>2. NetOK(Net') /\ WorkerOK(Net', Desired(view'[Worker]), Known(view'[Worker]))
    BY <1>1
  <1>3. JobsOK(jobs', sock')
    <2>1. JobsOK(jobs, Net.sock)
      BY NetIs DEF Inv
    <2>2. JobsOK(jobs, m.sock)
      BY <2>1, JobsStay
    <2>. QED
      BY <1>1, <2>2
  <1>. QED
    BY <1>2, <1>3 DEF Inv

LEMMA KnowLess ==
    ASSUME NEW n, NEW E, NEW K, NEW L \in SUBSET K, WorkerOK(n, E, K)
    PROVE  WorkerOK(n, E, L)
  BY DEF WorkerOK

LEMMA OneFrame ==
    ASSUME NEW k \in IdKinds, NEW t \in Tabs, NEW fs, fs = <<<<k, t>>>>
    PROVE  /\ fs \in Seq(IdKinds \X Tabs)
           /\ \A P : k \in P => Ends(fs, IdKinds, t, P)
           /\ \A u : u # t => Quiet(fs, IdKinds, u)
  <1>1. DOMAIN fs = 1 .. 1 /\ fs[1] = <<k, t>> /\ fs \in Seq(IdKinds \X Tabs)
    OBVIOUS
  <1>2. \A i \in 1 .. 1 : i = 1
    OBVIOUS
  <1>3. 1 \in 1 .. 1
    OBVIOUS
  <1> HIDE DEF About
  <1>4. \A P : k \in P => About(fs[1], P, t)
    BY <1>1 DEF About
  <1>5. \A u : u # t => ~About(fs[1], IdKinds, u)
    BY <1>1 DEF About
  <1>6. \A i, j \in 1 .. 1 : ~(j > i)
    OBVIOUS
  <1>7. ASSUME NEW P, k \in P
        PROVE  Ends(fs, IdKinds, t, P)
    BY <1>1, <1>3, <1>4, <1>6, <1>7 DEF Ends
  <1>8. ASSUME NEW u, u # t
        PROVE  Quiet(fs, IdKinds, u)
    BY <1>1, <1>2, <1>5, <1>8 DEF Quiet
  <1>. QED
    BY <1>1, <1>7, <1>8

(* The worker brings its socket up to date.                                 *)
LEMMA WorkerSyncs ==
    ASSUME NEW n, NetOK(n), NEW D \in SUBSET Docs, NEW E, NEW K, WorkerOK(n, E, K),
           NEW m, m = SyncDocs(n, Worker, D)
    PROVE  NetOK(m) /\ SameChains(n, m) /\ WorkerOK(m, D, K)
  <1>1. Worker \in Owners
    BY Sets
  <1>2. /\ Kept(n, m)
        /\ \A F, L : WorkerOK(n, F, L) => WorkerOK(m, IF Worker = Worker THEN D ELSE F, L)
    BY <1>1, SyncDocsKeeps
  <1>. QED
    BY <1>2 DEF Kept

LEMMA ChainsOn ==
    ASSUME NEW n, NEW m, NEW p, SameChains(n, m), SameChains(m, p)
    PROVE  SameChains(n, p)
  BY DEF SameChains

(* A page whose view is s from now on.                                      *)
LEMMA ViewOf ==
    ASSUME Typed, NEW t \in Tabs, NEW s \in Views, NEW v, v = [view[Worker] EXCEPT ![t] = s]
    PROVE  /\ v \in [Tabs -> Views]
           /\ Desired(v) \in SUBSET Docs
           /\ \A u \in Known(v) : IF u = t THEN s.known ELSE u \in Known(view[Worker])
           /\ view' = [view EXCEPT ![Worker] = v] =>
                view' \in [Owners -> [Tabs -> Views]] /\ view'[Worker] = v
  <1>1. view \in [Owners -> [Tabs -> Views]] /\ view[Worker] \in [Tabs -> Views] /\ Worker \in Owners
    BY Sets DEF Typed
  <1>2. v \in [Tabs -> Views] /\ Desired(v) \in SUBSET Docs
    BY <1>1, ViewsAre
  <1>3. \A u \in Known(v) : IF u = t THEN s.known ELSE u \in Known(view[Worker])
    BY <1>1 DEF Known
  <1>. QED
    BY <1>1, <1>2, <1>3

(* unregister, sweepStaleTabs.                                              *)
LEMMA DroppedMoves ==
    ASSUME Inv, NEW t \in Tabs, Dropped(t)
    PROVE  /\ \E m : /\ Becomes(m) /\ NetOK(m) /\ SameChains(Net, m)
                     /\ WorkerOK(m, Desired(view'[Worker]), Known(view'[Worker]))
           /\ view' \in [Owners -> [Tabs -> Views]]
           /\ port' = [port EXCEPT ![t] = 0]
  <1>0. Typed /\ NetOK(Net) /\ Worker \in Owners
    BY Sets DEF Inv
  <1>1. PICK v : v = [view[Worker] EXCEPT ![t] = Gone]
    OBVIOUS
  <1>2. PICK n : n = IF view[Worker][t].known THEN Send(Net, Worker, <<<<"tab_gone", t>>>>) ELSE Net
    OBVIOUS
  <1>3. /\ view' = [view EXCEPT ![Worker] = v]
        /\ port' = [port EXCEPT ![t] = 0]
        /\ Becomes(HangUp(n, Worker)) \/ Becomes(SyncDocs(n, Worker, Desired(v)))
    BY <1>1, <1>2 DEF Dropped
  <1>4. PICK E, K, L : E = Desired(view[Worker]) /\ K = Known(view[Worker]) /\ L = Known(v)
    OBVIOUS
  <1>5. /\ v \in [Tabs -> Views] /\ Desired(v) \in SUBSET Docs
        /\ view' \in [Owners -> [Tabs -> Views]] /\ view'[Worker] = v
        /\ \A u \in L : u # t /\ u \in K
    BY <1>0, <1>1, <1>3, <1>4, ViewsAre, ViewOf
  <1>6. WorkerOK(Net, E, K)
    BY <1>4 DEF Inv
  <1>7. NetOK(n) /\ SameChains(Net, n) /\ WorkerOK(n, E, L)
    <2>1. CASE view[Worker][t].known
      <3>1. PICK fs : fs = <<<<"tab_gone", t>>>>
        OBVIOUS
      <3>2. fs \in Seq(IdKinds \X Tabs) /\ \A u : u # t => Quiet(fs, IdKinds, u)
        BY <3>1, OneFrame DEF IdKinds
      <3>3. n = Send(Net, Worker, fs)
        BY <1>2, <2>1, <3>1
      <3>4. \A u \in L : Ends(fs, IdKinds, u, {"identify"}) \/ (Quiet(fs, IdKinds, u) /\ u \in K)
        BY <1>5, <3>2
      <3>. QED
        BY <1>0, <1>6, <3>2, <3>3, <3>4, IdentifyKeeps DEF Kept
    <2>2. CASE ~view[Worker][t].known
      <3>1. n = Net /\ L \in SUBSET K
        BY <1>2, <1>5, <2>2
      <3>. QED
        BY <1>0, <1>6, <3>1, KnowLess DEF SameChains
    <2>. QED
      BY <2>1, <2>2
  <1>8. CASE Becomes(HangUp(n, Worker))
    <2>1. PICK m : m = HangUp(n, Worker)
      OBVIOUS
    <2>2. Moved(n, m) /\ ~IsOpen(m, Worker)
      BY <1>0, <1>7, <2>1, HangUpMoves
    <2>3. NetOK(m) /\ SameChains(Net, m)
      BY <1>7, <2>2, ChainsOn DEF Moved
    <2>4. WorkerOK(m, Desired(view'[Worker]), Known(view'[Worker]))
      BY <2>2, NotOpenWorker
    <2>. QED
      BY <1>3, <1>5, <1>8, <2>1, <2>3, <2>4
  <1>9. CASE Becomes(SyncDocs(n, Worker, Desired(v)))
    <2>1. PICK m : m = SyncDocs(n, Worker, Desired(v))
      OBVIOUS
    <2>2. NetOK(m) /\ SameChains(n, m) /\ WorkerOK(m, Desired(v), L)
      BY <1>5, <1>7, <2>1, WorkerSyncs
    <2>3. SameChains(Net, m)
      BY <1>7, <2>2, ChainsOn
    <2>. QED
      BY <1>3, <1>4, <1>5, <1>9, <2>1, <2>2, <2>3
  <1>. QED
    BY <1>3, <1>8, <1>9

LEMMA DialThenSync ==
    ASSUME NEW n, NetOK(n), CanDialIn(n, Worker), NEW D \in SUBSET Docs, NEW E, NEW K,
           WorkerOK(n, E, K), NEW m, m = SyncDocs(Dial(n, Worker), Worker, D)
    PROVE  NetOK(m) /\ SameChains(n, m) /\ WorkerOK(m, D, K)
  <1>1. PICK d : d = Dial(n, Worker)
    OBVIOUS
  <1>2. Moved(n, d)
    BY <1>1, Sets, DialMoves
  <1>3. NetOK(d) /\ SameChains(n, d) /\ WorkerOK(d, E, K)
    BY <1>2 DEF Moved
  <1>4. NetOK(m) /\ SameChains(d, m) /\ WorkerOK(m, D, K)
    BY <1>1, <1>3, WorkerSyncs
  <1>. QED
    BY <1>3, <1>4, ChainsOn

LEMMA RegisteredMoves ==
    ASSUME Inv, NEW t \in Tabs, NEW g \in Ports, CanDial(Worker), Registered(t, g)
    PROVE  /\ \E m : /\ Becomes(m) /\ NetOK(m) /\ SameChains(Net, m)
                     /\ WorkerOK(m, Desired(view'[Worker]), Known(view'[Worker]))
           /\ view' \in [Owners -> [Tabs -> Views]]
           /\ port' = [port EXCEPT ![t] = g]
           /\ tab' \in [Tabs -> TabRec]
  <1>0. Typed /\ NetOK(Net) /\ Worker \in Owners /\ CanDialIn(Net, Worker)
    BY Sets, CanDialIs DEF Inv
  <1>1. PICK s : s = [Gone EXCEPT !.here = TRUE]
    OBVIOUS
  <1>2. PICK v : v = [view[Worker] EXCEPT ![t] = s]
    OBVIOUS
  <1>3. /\ view' = [view EXCEPT ![Worker] = v]
        /\ port' = [port EXCEPT ![t] = g]
        /\ Becomes(SyncDocs(Dial(Net, Worker), Worker, Desired(v)))
        /\ \E late \in BOOLEAN :
             tab' = [tab EXCEPT ![t].acked = IF tab[t].gen = g THEN ~late ELSE @]
    BY <1>1, <1>2 DEF Registered
  <1>4. s \in Views /\ ~s.known
    BY <1>1 DEF Gone, Views
  <1>5. PICK E, K, L : E = Desired(view[Worker]) /\ K = Known(view[Worker]) /\ L = Known(v)
    OBVIOUS
  <1>6. /\ v \in [Tabs -> Views] /\ Desired(v) \in SUBSET Docs
        /\ view' \in [Owners -> [Tabs -> Views]] /\ view'[Worker] = v
        /\ L \in SUBSET K
    BY <1>0, <1>2, <1>3, <1>4, <1>5, ViewOf
  <1>7. WorkerOK(Net, E, L)
    <2>1. WorkerOK(Net, E, K)
      BY <1>5 DEF Inv
    <2>. QED
      BY <1>6, <2>1, KnowLess
  <1>8. PICK m : m = SyncDocs(Dial(Net, Worker), Worker, Desired(v))
    OBVIOUS
  <1>9. NetOK(m) /\ SameChains(Net, m) /\ WorkerOK(m, Desired(v), L)
    BY <1>0, <1>6, <1>7, <1>8, DialThenSync
  <1>10. tab' \in [Tabs -> TabRec]
    <2>1. PICK late \in BOOLEAN :
             tab' = [tab EXCEPT ![t].acked = IF tab[t].gen = g THEN ~late ELSE @]
      BY <1>3
    <2>2. PICK b \in BOOLEAN : b = IF tab[t].gen = g THEN ~late ELSE tab[t].acked
      BY <1>0, StateIs DEF TabRec
    <2>3. tab' = [tab EXCEPT ![t] = [tab[t] EXCEPT !.acked = b]]
      BY <2>1, <2>2
    <2>4. [tab[t] EXCEPT !.acked = b] \in TabRec
      BY <1>0, StateIs DEF TabRec
    <2>. QED
      BY <1>0, <2>3, <2>4 DEF Typed
  <1>. QED
    BY <1>3, <1>5, <1>6, <1>8, <1>9, <1>10

LEMMA StatedMoves ==
    ASSUME Inv, NEW t \in Tabs, NEW g \in Ports, CanDial(Worker), NEW m0 \in Views, Stated(t, g, m0)
    PROVE  /\ \E m : /\ Becomes(m) /\ NetOK(m) /\ SameChains(Net, m)
                     /\ WorkerOK(m, Desired(view'[Worker]), Known(view'[Worker]))
           /\ view' \in [Owners -> [Tabs -> Views]]
           /\ port' = [port EXCEPT ![t] = g]
  <1>0. Typed /\ NetOK(Net) /\ Worker \in Owners /\ CanDialIn(Net, Worker)
    BY Sets, CanDialIs DEF Inv
  <1>1. PICK old : old = view[Worker][t]
    OBVIOUS
  <1>2. PICK s : s = [m0 EXCEPT !.known = @ \/ old.known]
    OBVIOUS
  <1>3. PICK v : v = [view[Worker] EXCEPT ![t] = s]
    OBVIOUS
  <1>4. PICK O : O = Opens(t, s)
    OBVIOUS
  <1>5. PICK opened : opened = Send(Net, Worker, Frames("open", O))
    OBVIOUS
  <1>6. PICK n : n = IF s.known /\ ~old.known THEN Send(opened, Worker, <<<<"identify", t>>>>) ELSE opened
    OBVIOUS
  <1>7. /\ view' = [view EXCEPT ![Worker] = v]
        /\ port' = [port EXCEPT ![t] = g]
        /\ Becomes(SyncDocs(Dial(n, Worker), Worker, Desired(v)))
    BY <1>1, <1>2, <1>3, <1>4, <1>5, <1>6 DEF Stated
  <1>8. s \in Views
    <2>1. old \in Views
      BY <1>0, <1>1 DEF Typed
    <2>2. (m0.known \/ old.known) \in BOOLEAN
      OBVIOUS
    <2>. QED
      BY <1>2, <2>2 DEF Views
  <1>9. PICK E, K, L : E = Desired(view[Worker]) /\ K = Known(view[Worker]) /\ L = Known(v)
    OBVIOUS
  <1>10. /\ v \in [Tabs -> Views] /\ Desired(v) \in SUBSET Docs
         /\ view' \in [Owners -> [Tabs -> Views]] /\ view'[Worker] = v
         /\ \A u \in L : IF u = t THEN s.known ELSE u \in K
    BY <1>0, <1>3, <1>7, <1>8, <1>9, ViewOf
  <1>11. NetOK(opened) /\ SameChains(Net, opened) /\ WorkerOK(opened, E, K)
         /\ CanDialIn(opened, Worker)
    <2>1. WorkerOK(Net, E, K)
      BY <1>9 DEF Inv
    <2>2. O \in SUBSET Net.client[Worker].docs
      BY <1>4, NetIs DEF Opens
    <2>3. Kept(Net, opened) /\ WorkerOK(opened, E, K)
      BY <1>0, <1>5, <2>1, <2>2, ReopenKeeps
    <2>. QED
      BY <1>0, <2>3 DEF Kept
  <1>12. NetOK(n) /\ SameChains(opened, n) /\ WorkerOK(n, E, L) /\ CanDialIn(n, Worker)
    <2>1. CASE s.known /\ ~old.known
      <3>1. PICK fs : fs = <<<<"identify", t>>>>
        OBVIOUS
      <3>2. /\ fs \in Seq(IdKinds \X Tabs) /\ Ends(fs, IdKinds, t, {"identify"})
            /\ \A u : u # t => Quiet(fs, IdKinds, u)
        BY <3>1, OneFrame DEF IdKinds
      <3>3. n = Send(opened, Worker, fs)
        BY <1>6, <2>1, <3>1
      <3>4. \A u \in L : Ends(fs, IdKinds, u, {"identify"}) \/ (Quiet(fs, IdKinds, u) /\ u \in K)
        BY <1>10, <3>2
      <3>5. Kept(opened, n) /\ WorkerOK(n, E, L)
        BY <1>11, <3>2, <3>3, <3>4, IdentifyKeeps
      <3>. QED
        BY <1>0, <1>11, <3>5 DEF Kept
    <2>2. CASE ~(s.known /\ ~old.known)
      <3>1. n = opened
        BY <1>6, <2>2
      <3>2. old.known => t \in K
        BY <1>1, <1>9 DEF Known
      <3>3. L \in SUBSET K
        BY <1>10, <2>2, <3>2
      <3>. QED
        BY <1>11, <3>1, <3>3, KnowLess DEF SameChains
    <2>. QED
      BY <2>1, <2>2
  <1>13. PICK m : m = SyncDocs(Dial(n, Worker), Worker, Desired(v))
    OBVIOUS
  <1>14. NetOK(m) /\ SameChains(n, m) /\ WorkerOK(m, Desired(v), L)
    BY <1>10, <1>12, <1>13, DialThenSync
  <1>15. SameChains(Net, m)
    BY <1>11, <1>12, <1>14, ChainsOn
  <1>. QED
    BY <1>7, <1>9, <1>10, <1>13, <1>14, <1>15

LEMMA WorkerHearsKeeps ==
    ASSUME Inv, NEW t \in Tabs, WorkerHears(t)
    PROVE  Inv'
  <1>0. Typed
    BY DEF Inv
  <1>1. PICK g \in Ports :
          /\ up[t][g] # <<>> /\ CanDial(Worker)
          /\ LET m == Head(up[t][g])
             IN \/ m.t = "register" /\ Registered(t, g)
                \/ m.t = "state" /\ Stated(t, g, m.s) /\ UNCHANGED tab
                \/ m.t = "unregister" /\ Dropped(t) /\ UNCHANGED tab
          /\ up' = [up EXCEPT ![t][g] = Tail(@)]
          /\ UNCHANGED <<activity, jobs>>
    BY Zenon DEF WorkerHears
  <1>2. PICK q : q = up[t][g]
    OBVIOUS
  <1>3. q \in Seq(Messages) /\ q # <<>>
    BY <1>0, <1>1, <1>2 DEF Typed
  <1>4. Tail(q) \in Seq(Messages) /\ Head(q) \in Messages
    BY <1>3, TailIs
  <1>5. up' \in [Tabs -> [Ports -> Seq(Messages)]]
    <2>1. up' = [up EXCEPT ![t] = [up[t] EXCEPT ![g] = Tail(q)]]
      BY <1>1, <1>2
    <2>2. [up[t] EXCEPT ![g] = Tail(q)] \in [Ports -> Seq(Messages)]
      BY <1>0, <1>4 DEF Typed
    <2>. QED
      BY <1>0, <2>1, <2>2 DEF Typed
  <1>6. /\ \E m : /\ Becomes(m) /\ NetOK(m) /\ SameChains(Net, m)
                  /\ WorkerOK(m, Desired(view'[Worker]), Known(view'[Worker]))
        /\ view' \in [Owners -> [Tabs -> Views]]
        /\ port' = [port EXCEPT ![t] = g] \/ port' = [port EXCEPT ![t] = 0]
        /\ tab' \in [Tabs -> TabRec]
    <2>1. CASE Registered(t, g)
      BY <1>1, <2>1, RegisteredMoves
    <2>2. CASE Head(q).t = "state" /\ Stated(t, g, Head(q).s) /\ UNCHANGED tab
      <3>1. Head(q).s \in Views
        BY <1>4, <2>2, MessagesAre
      <3>2. tab' \in [Tabs -> TabRec]
        BY <1>0, <2>2 DEF Typed
      <3>. QED
        BY <1>1, <2>2, <3>1, <3>2, StatedMoves
    <2>3. CASE Dropped(t) /\ UNCHANGED tab
      <3>1. tab' \in [Tabs -> TabRec]
        BY <1>0, <2>3 DEF Typed
      <3>. QED
        BY <2>3, <3>1, DroppedMoves
    <2>. QED
      BY <1>1, <1>2, <2>1, <2>2, <2>3
  <1>7. port' \in [Tabs -> 0 .. MaxPorts]
    <2>1. g \in 0 .. MaxPorts /\ 0 \in 0 .. MaxPorts
      BY Sets DEF Ports
    <2>. QED
      BY <1>0, <1>6, <2>1 DEF Typed
  <1>8. Typed'
    BY <1>0, <1>1, <1>5, <1>6, <1>7 DEF Typed
  <1>. QED
    BY <1>1, <1>6, <1>8, WorkerStep

LEMMA SweepKeeps ==
    ASSUME Inv, NEW t \in Tabs, Sweep(t)
    PROVE  Inv'
  <1>0. Typed
    BY DEF Inv
  <1>1. Dropped(t) /\ UNCHANGED <<tab, up, activity, jobs>>
    BY DEF Sweep
  <1>2. /\ \E m : /\ Becomes(m) /\ NetOK(m) /\ SameChains(Net, m)
                  /\ WorkerOK(m, Desired(view'[Worker]), Known(view'[Worker]))
        /\ view' \in [Owners -> [Tabs -> Views]]
        /\ port' = [port EXCEPT ![t] = 0]
    BY <1>1, DroppedMoves
  <1>3. port' \in [Tabs -> 0 .. MaxPorts]
    BY <1>0, <1>2, Sets DEF Typed
  <1>4. Typed'
    BY <1>0, <1>1, <1>2, <1>3 DEF Typed
  <1>. QED
    BY <1>1, <1>2, <1>4, WorkerStep

-----------------------------------------------------------------------------
(* The hub: what a socket comes to say does not change by its being         *)
(* handled.                                                                 *)

Follows(s, s2) ==
  /\ s2 \in SockRec /\ SockOK(s2)
  /\ s.client \in Live <=> s2.client \in Live
  /\ s.client \in Live => s2.owner = s.owner
  /\ s2.client = "open" =>
       /\ s.client = "open"
       /\ \A x : /\ WillShow(s, x) => WillShow(s2, x)
                 /\ WillHide(s, x) => WillHide(s2, x)
                 /\ WillKnow(s, x) => WillKnow(s2, x)
                 /\ WillForget(s, x) => WillForget(s2, x)

LEMMA SockIs ==
    ASSUME Inv, NEW c \in Sockets
    PROVE  sock[c] \in SockRec /\ SockOK(sock[c])
  <1>1. NetOK(Net)
    BY DEF Inv
  <1>. QED
    BY <1>1, NetIs DEF NetOK, NetRec

LEMMA SocketsFollow ==
    ASSUME Inv, client' = client, UNCHANGED view,
           sock' = [c \in Sockets |-> sock'[c]],
           \A c \in Sockets : Follows(sock[c], sock'[c])
    PROVE  NetOK(Net') /\ WorkerOK(Net', Desired(view'[Worker]), Known(view'[Worker]))
  <1>1. PICK m : m = Net'
    OBVIOUS
  <1>2. m.client = client /\ m.sock = sock' /\ m = [client |-> m.client, sock |-> m.sock]
    BY <1>1 DEF Net
  <1>3. NetOK(Net) /\ WorkerOK(Net, Desired(view[Worker]), Known(view[Worker]))
    BY DEF Inv
  <1>4. client \in [Owners -> ClientRec] /\ sock \in [Sockets -> SockRec]
    BY <1>3, NetIs, NetParts, Sets
  <1>5. sock' \in [Sockets -> SockRec]
    BY DEF Follows
  <1>6. m \in NetRec
    BY <1>2, <1>4, <1>5 DEF NetRec
  <1>7. \A o \in Owners : client[o].sock # 0 =>
          /\ client[o].sock \in Sockets
          /\ sock[client[o].sock].owner = o /\ sock[client[o].sock].client \in Live
    BY <1>3, NetIs, NetParts
  <1>8. \A c \in Sockets : sock[c].client \in Live => client[sock[c].owner].sock = c
    BY <1>3, NetIs DEF NetOK, Linked
  <1>9. Linked(m)
    <2>1. ASSUME NEW o \in Owners, client[o].sock # 0
          PROVE  sock'[client[o].sock].owner = o /\ sock'[client[o].sock].client \in Live
      BY <1>7, <2>1 DEF Follows
    <2>2. ASSUME NEW c \in Sockets, sock'[c].client \in Live
          PROVE  client[sock'[c].owner].sock = c
      BY <1>8, <2>2 DEF Follows
    <2>. QED
      BY <1>2, <2>1, <2>2 DEF Linked
  <1>10. ASSUME NEW c \in Sockets
         PROVE  SockOK(sock'[c]) /\ Told(client[sock'[c].owner], sock'[c])
    <2>1. Follows(sock[c], sock'[c])
      OBVIOUS
    <2>2. SockOK(sock'[c])
      BY <2>1 DEF Follows
    <2>3. CASE sock'[c].client = "open"
      <3>1. /\ sock[c].client = "open" /\ sock'[c].owner = sock[c].owner
            /\ \A x : /\ WillShow(sock[c], x) => WillShow(sock'[c], x)
                      /\ WillHide(sock[c], x) => WillHide(sock'[c], x)
                      /\ WillKnow(sock[c], x) => WillKnow(sock'[c], x)
                      /\ WillForget(sock[c], x) => WillForget(sock'[c], x)
        BY <2>1, <2>3 DEF Follows, Live
      <3>2. Told(client[sock[c].owner], sock[c])
        BY <1>3, NetIs DEF NetOK
      <3>. QED
        BY <2>2, <3>1, <3>2 DEF Told
    <2>4. CASE sock'[c].client # "open"
      BY <2>2, <2>4 DEF Told
    <2>. QED
      BY <2>3, <2>4
  <1>11. NetOK(m)
    BY <1>2, <1>6, <1>9, <1>10 DEF NetOK
  <1>12. WorkerOK(m, Desired(view[Worker]), Known(view[Worker]))
    <2>1. CASE IsOpen(m, Worker)
      <3>1. PICK c : c = client[Worker].sock
        OBVIOUS
      <3>2. c # 0 /\ sock'[c].client = "open" /\ c \in Sockets
        BY <1>2, <1>7, <2>1, <3>1, Sets DEF IsOpen
      <3>3. /\ sock[c].client = "open"
            /\ \A x : WillKnow(sock[c], x) => WillKnow(sock'[c], x)
        BY <3>2 DEF Follows
      <3>4. IsOpen(Net, Worker)
        BY <3>1, <3>2, <3>3, NetIs DEF IsOpen
      <3>. QED
        BY <1>2, <1>3, <3>1, <3>3, <3>4, NetIs DEF WorkerOK
    <2>2. CASE ~IsOpen(m, Worker)
      BY <2>2, NotOpenWorker
    <2>. QED
      BY <2>1, <2>2
  <1>. QED
    BY <1>1, <1>11, <1>12

LEMMA FollowsItself ==
    ASSUME NEW s \in SockRec, SockOK(s)
    PROVE  Follows(s, s)
  BY DEF Follows

(* Whose turn it is in the hub's chains stays.                              *)
LEMMA TurnsStay ==
    ASSUME NEW js, NEW S, NEW S2, JobsOK(js, S),
           \A c \in Sockets : S[c].chain # <<>> /\ S[c].chain[1][1] = "opened" =>
             S2[c].chain # <<>> /\ S2[c].chain[1] = S[c].chain[1]
    PROVE  JobsOK(js, S2)
  <1>1. ASSUME NEW d \in Docs, NEW i \in DOMAIN js[d], js[d][i].to \in Sockets
        PROVE  /\ S2[js[d][i].to].chain # <<>> /\ S2[js[d][i].to].chain[1] = <<"opened", d>>
               /\ \A j \in DOMAIN js[d] : js[d][j].to = js[d][i].to => j = i
    <2>1. /\ S[js[d][i].to].chain # <<>> /\ S[js[d][i].to].chain[1] = <<"opened", d>>
          /\ \A j \in DOMAIN js[d] : js[d][j].to = js[d][i].to => j = i
      BY <1>1 DEF JobsOK
    <2>2. <<"opened", d>>[1] = "opened"
      OBVIOUS
    <2>. QED
      BY <1>1, <2>1, <2>2
  <1>. QED
    BY <1>1 DEF JobsOK

LEMMA OneSocketFollows ==
    ASSUME Inv, NEW c \in Sockets, NEW s2, sock' = [sock EXCEPT ![c] = s2], Follows(sock[c], s2),
           client' = client, UNCHANGED view
    PROVE  /\ NetOK(Net') /\ WorkerOK(Net', Desired(view'[Worker]), Known(view'[Worker]))
           /\ sock'[c] = s2 /\ \A b \in Sockets : b # c => sock'[b] = sock[b]
  <1>1. sock \in [Sockets -> SockRec]
    <2>1. NetOK(Net)
      BY DEF Inv
    <2>. QED
      BY <2>1, NetIs DEF NetOK, NetRec
  <1>2. sock'[c] = s2 /\ \A b \in Sockets : b # c => sock'[b] = sock[b]
    BY <1>1
  <1>3. sock' = [b \in Sockets |-> sock'[b]]
    BY <1>1
  <1>4. \A b \in Sockets : Follows(sock[b], sock'[b])
    BY <1>2, SockIs, FollowsItself
  <1>. QED
    BY <1>2, <1>3, <1>4, SocketsFollow

LEMMA HeadOfQuiet ==
    ASSUME NEW S, NEW q \in Seq(S), q # <<>>, NEW K, NEW x, Quiet(q, K, x)
    PROVE  ~About(Head(q), K, x)
  BY TailIs DEF Quiet

LEMMA HeadGone ==
    ASSUME NEW S, NEW q \in Seq(S), q # <<>>, NEW f, f = Head(q), NEW r, r = Tail(q)
    PROVE  \A K, x, P : /\ Quiet(q, K, x) => Quiet(r, K, x) /\ ~About(f, K, x)
                        /\ Ends(q, K, x, P) => Ends(r, K, x, P) \/ (Quiet(r, K, x) /\ About(f, P, x))
  BY TailEnds, HeadOfQuiet

(* identify, tab_gone.                                                      *)
LEMMA HearsIds ==
    ASSUME NEW s \in SockRec, SockOK(s), s.server, s.up # <<>>,
           NEW f, f = Head(s.up), NEW s2 \in SockRec,
           s2.up = Tail(s.up), s2.chain = s.chain, s2.docs = s.docs,
           s2.owner = s.owner, s2.client = s.client, s2.server = s.server,
           \/ f[1] = "identify" /\ s2.ids = s.ids \cup {f[2]}
           \/ f[1] = "tab_gone" /\ s2.ids = s.ids \ {f[2]}
    PROVE  Follows(s, s2)
  <1>1. s.up \in Seq(UpFrames)
    BY DEF SockRec
  <1>3. \A x : ~About(f, DocKinds, x)
    BY DEF About, DocKinds
  <1>4. \A K, x, P : /\ Quiet(s.up, K, x) => Quiet(s2.up, K, x) /\ ~About(f, K, x)
                     /\ Ends(s.up, K, x, P) => \/ Ends(s2.up, K, x, P)
                                               \/ Quiet(s2.up, K, x) /\ About(f, P, x)
    BY <1>1, HeadGone
  <1>5. \A x : ~About(f, Shows, x) /\ ~About(f, Hides, x)
    BY DEF About, Shows, Hides
  <1>6. SockOK(s2)
    BY DEF SockOK
  <1>7. ASSUME NEW x
        PROVE  /\ WillShow(s, x) => WillShow(s2, x)
               /\ WillHide(s, x) => WillHide(s2, x)
    BY <1>4, <1>5 DEF WillShow, WillHide
  <1>8. ASSUME NEW x, WillKnow(s, x)
        PROVE  WillKnow(s2, x)
    <2>1. CASE Ends(s.up, IdKinds, x, {"identify"})
      <3>1. About(f, {"identify"}, x) => x \in s2.ids
        BY DEF About
      <3>. QED
        BY <1>4, <2>1, <3>1 DEF WillKnow
    <2>2. CASE Quiet(s.up, IdKinds, x) /\ x \in s.ids
      <3>1. x \in s2.ids
        <4>1. ~About(f, IdKinds, x)
          BY <1>4, <2>2
        <4>. QED
          BY <2>2, <4>1 DEF About, IdKinds
      <3>. QED
        BY <1>4, <2>2, <3>1 DEF WillKnow
    <2>. QED
      BY <1>8, <2>1, <2>2 DEF WillKnow
  <1>9. ASSUME NEW x, WillForget(s, x)
        PROVE  WillForget(s2, x)
    <2>1. CASE Ends(s.up, IdKinds, x, {"tab_gone"})
      <3>1. About(f, {"tab_gone"}, x) => x \notin s2.ids
        BY DEF About
      <3>. QED
        BY <1>4, <2>1, <3>1 DEF WillForget
    <2>2. CASE Quiet(s.up, IdKinds, x) /\ x \notin s.ids
      <3>1. x \notin s2.ids
        <4>1. ~About(f, IdKinds, x)
          BY <1>4, <2>2
        <4>. QED
          BY <2>2, <4>1 DEF About, IdKinds
      <3>. QED
        BY <1>4, <2>2, <3>1 DEF WillForget
    <2>. QED
      BY <1>9, <2>1, <2>2 DEF WillForget
  <1>. QED
    BY <1>6, <1>7, <1>8, <1>9 DEF Follows

(* A frame about a document goes to the end of the chain.                   *)
LEMMA HearsDocs ==
    ASSUME NEW s \in SockRec, SockOK(s), s.server, s.up # <<>>,
           NEW f, f = Head(s.up), f \in {"open", "closed"} \X Docs, NEW s2 \in SockRec,
           s2.up = Tail(s.up), s2.chain = Append(s.chain, f), s2.docs = s.docs, s2.ids = s.ids,
           s2.owner = s.owner, s2.client = s.client, s2.server = s.server
    PROVE  Follows(s, s2)
  <1>0. s.up \in Seq(UpFrames)
    BY DEF SockRec
  <1>1. s.up \in Seq(UpFrames) /\ s.chain \in Seq(ChainFrames) /\ f \in ChainFrames
        /\ f[1] # "opened"
    BY KindsApart DEF SockRec
  <1>2. \A x : ~About(f, IdKinds, x) /\ ~About(f, {"identify"}, x) /\ ~About(f, {"tab_gone"}, x)
    BY DEF About, IdKinds
  <1>3. \A K, x, P : /\ Quiet(s.up, K, x) => Quiet(s2.up, K, x) /\ ~About(f, K, x)
                     /\ Ends(s.up, K, x, P) => \/ Ends(s2.up, K, x, P)
                                               \/ Quiet(s2.up, K, x) /\ About(f, P, x)
    BY <1>0, HeadGone
  <1>4. \A K, x, P : /\ About(f, P, x) => Ends(s2.chain, K, x, P)
                     /\ ~About(f, K, x) /\ Ends(s.chain, K, x, P) => Ends(s2.chain, K, x, P)
                     /\ ~About(f, K, x) /\ Quiet(s.chain, K, x) => Quiet(s2.chain, K, x)
    BY <1>1, AppendEnds
  <1>5. SockOK(s2)
    <2>1. /\ DOMAIN s2.chain = 1 .. Len(s.chain) + 1 /\ DOMAIN s.chain = 1 .. Len(s.chain)
          /\ Len(s.chain) \in Nat
          /\ \A i \in 1 .. Len(s.chain) : s2.chain[i] = s.chain[i]
          /\ s2.chain[Len(s.chain) + 1] = f
      BY <1>1, AppendIs
    <2>2. ASSUME NEW i \in DOMAIN s2.chain, s2.chain[i][1] = "opened"
          PROVE  i = 1 /\ s2.chain[1][2] \in s2.docs
      <3>1. i \in 1 .. Len(s.chain)
        BY <1>1, <2>1, <2>2
      <3>2. i = 1 /\ s.chain[1][2] \in s.docs
        BY <2>1, <2>2, <3>1 DEF SockOK
      <3>. QED
        BY <2>1, <3>1, <3>2
    <2>. QED
      BY <2>2 DEF SockOK
  <1>6. ASSUME NEW x
        PROVE  /\ WillKnow(s, x) => WillKnow(s2, x)
               /\ WillForget(s, x) => WillForget(s2, x)
    BY <1>2, <1>3 DEF WillKnow, WillForget
  <1>7. ASSUME NEW x
        PROVE  /\ WillShow(s, x) => WillShow(s2, x)
               /\ WillHide(s, x) => WillHide(s2, x)
    BY <1>3, <1>4 DEF WillShow, WillHide
  <1>. QED
    BY <1>5, <1>6, <1>7 DEF Follows

LEMMA HubHearsKeeps ==
    ASSUME Inv, NEW c \in Sockets, HubHears(c)
    PROVE  Inv'
  <1>0. PICK s : s = sock[c]
    OBVIOUS
  <1>1. s \in SockRec /\ SockOK(s)
    BY <1>0, SockIs
  <1>2. PICK f : f = Head(s.up)
    OBVIOUS
  <1>3. PICK s1 : s1 = [s EXCEPT !.up = Tail(@)]
    OBVIOUS
  <1>4. PICK s2 : s2 = CASE f[1] = "identify" -> [s1 EXCEPT !.ids = @ \cup {f[2]}]
                         [] f[1] = "tab_gone" -> [s1 EXCEPT !.ids = @ \ {f[2]}]
                         [] OTHER -> [s1 EXCEPT !.chain = Append(@, f)]
    OBVIOUS
  <1>5. /\ s.server /\ s.up # <<>>
        /\ sock' = [sock EXCEPT ![c] = s2]
        /\ UNCHANGED <<tab, port, view, up, client, activity, jobs>>
    BY <1>0, <1>2, <1>3, <1>4 DEF HubHears
  <1>6. s.up \in Seq(UpFrames) /\ Tail(s.up) \in Seq(UpFrames) /\ f \in UpFrames
    <2>1. s.up \in Seq(UpFrames)
      BY <1>1 DEF SockRec
    <2>. QED
      BY <1>2, <1>5, <2>1, TailIs
  <1>7. /\ s1 \in SockRec /\ s1.up = Tail(s.up) /\ s1.chain = s.chain /\ s1.docs = s.docs
        /\ s1.ids = s.ids
        /\ s1.owner = s.owner /\ s1.client = s.client /\ s1.server = s.server
    BY <1>1, <1>3, <1>6 DEF SockRec
  <1>8. /\ Follows(s, s2)
        /\ s.chain # <<>> => s2.chain # <<>> /\ s2.chain[1] = s.chain[1]
    <2>1. CASE f[1] = "identify"
      <3>1. s2 = [s1 EXCEPT !.ids = @ \cup {f[2]}]
        BY <1>4, <2>1
      <3>2. f[2] \in Tabs
        BY <1>6, <2>1 DEF UpFrames
      <3>3. /\ s2 \in SockRec /\ s2.up = s1.up /\ s2.chain = s1.chain /\ s2.docs = s1.docs
            /\ s2.owner = s1.owner /\ s2.client = s1.client /\ s2.server = s1.server
            /\ s2.ids = s1.ids \cup {f[2]}
        BY <1>7, <3>1, <3>2 DEF SockRec
      <3>4. /\ s2.up = Tail(s.up) /\ s2.chain = s.chain /\ s2.docs = s.docs
            /\ s2.owner = s.owner /\ s2.client = s.client /\ s2.server = s.server
            /\ s2.ids = s.ids \cup {f[2]}
        BY <1>7, <3>3
      <3>5. Follows(s, s2)
        BY <1>1, <1>2, <1>5, <2>1, <3>3, <3>4, HearsIds
      <3>. QED
        BY <3>4, <3>5
    <2>2. CASE f[1] = "tab_gone"
      <3>1. s2 = [s1 EXCEPT !.ids = @ \ {f[2]}]
        BY <1>4, <2>2
      <3>3. /\ s2 \in SockRec /\ s2.up = s1.up /\ s2.chain = s1.chain /\ s2.docs = s1.docs
            /\ s2.owner = s1.owner /\ s2.client = s1.client /\ s2.server = s1.server
            /\ s2.ids = s1.ids \ {f[2]}
        BY <1>7, <3>1 DEF SockRec
      <3>4. /\ s2.up = Tail(s.up) /\ s2.chain = s.chain /\ s2.docs = s.docs
            /\ s2.owner = s.owner /\ s2.client = s.client /\ s2.server = s.server
            /\ s2.ids = s.ids \ {f[2]}
        BY <1>7, <3>3
      <3>5. Follows(s, s2)
        BY <1>1, <1>2, <1>5, <2>2, <3>3, <3>4, HearsIds
      <3>. QED
        BY <3>4, <3>5
    <2>3. CASE f[1] # "identify" /\ f[1] # "tab_gone"
      <3>1. s2 = [s1 EXCEPT !.chain = Append(@, f)]
        BY <1>4, <2>3
      <3>2. f \in {"open", "closed"} \X Docs
        BY <1>6, <2>3 DEF UpFrames, IdKinds
      <3>3. s.chain \in Seq(ChainFrames) /\ f \in ChainFrames
        BY <1>1, <3>2, KindsApart DEF SockRec
      <3>4. /\ Append(s.chain, f) \in Seq(ChainFrames) /\ Append(s.chain, f) # <<>>
            /\ s.chain # <<>> => Append(s.chain, f)[1] = s.chain[1]
        <4>1. s.chain # <<>> => 1 \in 1 .. Len(s.chain)
          BY <3>3, TailIs
        <4>. QED
          BY <3>3, <4>1, AppendIs
      <3>5. /\ s2 \in SockRec /\ s2.up = s1.up /\ s2.chain = Append(s.chain, f) /\ s2.docs = s1.docs
            /\ s2.owner = s1.owner /\ s2.client = s1.client /\ s2.server = s1.server
            /\ s2.ids = s1.ids
        BY <1>7, <3>1, <3>4 DEF SockRec
      <3>6. Follows(s, s2)
        BY <1>1, <1>2, <1>5, <1>7, <3>2, <3>5, HearsDocs
      <3>. QED
        BY <3>4, <3>5, <3>6
    <2>. QED
      BY <2>1, <2>2, <2>3
  <1>9. /\ NetOK(Net') /\ WorkerOK(Net', Desired(view'[Worker]), Known(view'[Worker]))
        /\ sock'[c] = s2 /\ \A b \in Sockets : b # c => sock'[b] = sock[b]
    BY <1>0, <1>5, <1>8, OneSocketFollows
  <1>10. JobsOK(jobs', sock')
    <2>1. \A b \in Sockets : sock[b].chain # <<>> =>
             sock'[b].chain # <<>> /\ sock'[b].chain[1] = sock[b].chain[1]
      BY <1>0, <1>8, <1>9
    <2>2. JobsOK(jobs, sock)
      BY DEF Inv
    <2>3. JobsOK(jobs, sock')
      BY <2>1, <2>2, TurnsStay
    <2>. QED
      BY <1>5, <2>3
  <1>11. Typed'
    BY <1>5 DEF Inv, Typed
  <1>. QED
    BY <1>9, <1>10, <1>11 DEF Inv

(* An open whose snapshot is asked for: the hub has the document open.      *)
LEMMA OpensFollows ==
    ASSUME NEW s \in SockRec, SockOK(s), s.chain # <<>>, s.chain[1][1] = "open",
           NEW d \in Docs, d = s.chain[1][2], NEW s2 \in SockRec,
           s2.chain = [s.chain EXCEPT ![1] = <<"opened", d>>], s2.docs = s.docs \cup {d},
           s2.up = s.up, s2.ids = s.ids, s2.owner = s.owner, s2.client = s.client, s2.server = s.server
    PROVE  Follows(s, s2)
  <1> DEFINE q == s.chain
             r == s2.chain
  <1>1. q \in Seq(ChainFrames) /\ DOMAIN q = 1 .. Len(q) /\ 1 \in DOMAIN q
    <2>1. q \in Seq(ChainFrames)
      BY DEF SockRec
    <2>. QED
      BY <2>1, TailIs
  <1>2. DOMAIN r = DOMAIN q /\ r[1] = <<"opened", d>> /\ \A i \in DOMAIN q : i # 1 => r[i] = q[i]
    BY <1>1
  <1>3. q[1][1] = "open" /\ q[1][2] = d /\ r[1][1] = "opened" /\ r[1][2] = d
    BY <1>2
  <1> HIDE DEF q, r
  <1>4. \A i \in DOMAIN q : \A x :
            /\ About(r[i], DocKinds, x) <=> About(q[i], DocKinds, x)
            /\ About(r[i], Shows, x) <=> About(q[i], Shows, x)
            /\ About(r[i], Hides, x) <=> About(q[i], Hides, x)
    <2>1. ASSUME NEW x
          PROVE  /\ About(r[1], DocKinds, x) <=> About(q[1], DocKinds, x)
                 /\ About(r[1], Shows, x) <=> About(q[1], Shows, x)
                 /\ About(r[1], Hides, x) <=> About(q[1], Hides, x)
      BY <1>3 DEF About, DocKinds, Shows, Hides
    <2>. QED
      BY <1>2, <2>1
  <1>5. \A x : /\ Quiet(q, DocKinds, x) <=> Quiet(r, DocKinds, x)
               /\ Ends(q, DocKinds, x, Shows) => Ends(r, DocKinds, x, Shows)
               /\ Ends(q, DocKinds, x, Hides) => Ends(r, DocKinds, x, Hides)
    BY <1>2, <1>4 DEF Quiet, Ends
  <1>6. ~Quiet(q, DocKinds, d)
    BY <1>1, <1>3 DEF Quiet, About, DocKinds
  <1>7. SockOK(s2)
    <2>1. s.server
      BY DEF SockOK
    <2>2. ASSUME NEW i \in DOMAIN r, r[i][1] = "opened"
          PROVE  i = 1 /\ r[1][2] \in s2.docs
      BY <1>2, <1>3, <2>2 DEF SockOK, q
    <2>. QED
      BY <2>1, <2>2 DEF SockOK, r
  <1>8. \A x : /\ WillShow(s, x) => WillShow(s2, x)
               /\ WillHide(s, x) => WillHide(s2, x)
               /\ WillKnow(s, x) => WillKnow(s2, x)
               /\ WillForget(s, x) => WillForget(s2, x)
    <2>1. ASSUME NEW x
          PROVE  /\ WillShow(s, x) => WillShow(s2, x)
                 /\ WillHide(s, x) => WillHide(s2, x)
      <3>1. Quiet(q, DocKinds, x) => x # d
        BY <1>6
      <3>. QED
        BY <1>5, <3>1 DEF WillShow, WillHide, q, r
    <2>2. ASSUME NEW x
          PROVE  /\ WillKnow(s, x) => WillKnow(s2, x)
                 /\ WillForget(s, x) => WillForget(s2, x)
      BY DEF WillKnow, WillForget
    <2>. QED
      BY <2>1, <2>2
  <1>. QED
    BY <1>7, <1>8 DEF Follows

(* A close handled, or an open whose snapshot has been sent.                *)
LEMMA ServedFollows ==
    ASSUME NEW s \in SockRec, SockOK(s), s.chain # <<>>, NEW d, d = s.chain[1][2],
           NEW s2 \in SockRec, s2.chain = Tail(s.chain),
           \/ s.chain[1][1] = "closed" /\ s2.docs = s.docs \ {d}
           \/ s.chain[1][1] = "opened" /\ s2.docs = s.docs,
           s2.up = s.up, s2.ids = s.ids, s2.owner = s.owner, s2.client = s.client, s2.server = s.server
    PROVE  Follows(s, s2)
  <1> DEFINE q == s.chain
             r == s2.chain
  <1>0. q \in Seq(ChainFrames)
    BY DEF SockRec
  <1>1. /\ 1 \in DOMAIN q /\ DOMAIN q = 1 .. Len(q) /\ Len(q) \in Nat
        /\ DOMAIN r = 1 .. Len(q) - 1
        /\ \A i \in 1 .. Len(q) - 1 : r[i] = q[i + 1] /\ i + 1 \in DOMAIN q /\ i + 1 # 1
        /\ Head(q) = q[1]
    BY <1>0, TailIs
  <1>2. \A K, x, P : /\ Quiet(q, K, x) => Quiet(r, K, x) /\ ~About(q[1], K, x)
                     /\ Ends(q, K, x, P) => Ends(r, K, x, P) \/ (Quiet(r, K, x) /\ About(q[1], P, x))
    <2>1. PICK f : f = Head(q)
      OBVIOUS
    <2>2. \A K, x, P : /\ Quiet(q, K, x) => Quiet(r, K, x) /\ ~About(f, K, x)
                       /\ Ends(q, K, x, P) => Ends(r, K, x, P) \/ (Quiet(r, K, x) /\ About(f, P, x))
      BY <1>0, <2>1, HeadGone
    <2>. QED
      BY <1>1, <2>1, <2>2
  <1>3. SockOK(s2)
    <2>1. s.server
      BY DEF SockOK
    <2>2. ASSUME NEW i \in DOMAIN r
          PROVE  r[i][1] # "opened"
      <3>1. \A j \in DOMAIN q : q[j][1] = "opened" => j = 1
        BY DEF SockOK
      <3>2. i + 1 \in DOMAIN q /\ i + 1 # 1 /\ r[i] = q[i + 1]
        BY <1>1, <2>2
      <3>. QED
        BY <3>1, <3>2
    <2>. QED
      BY <2>1, <2>2 DEF SockOK
  <1>4. q[1][1] = "opened" => d \in s.docs
    BY <1>1 DEF SockOK
  <1> HIDE DEF q, r
  <1>5. \A x : /\ About(q[1], Shows, x) => x \in s2.docs
               /\ About(q[1], Hides, x) => x \notin s2.docs
    BY <1>4 DEF About, Shows, Hides, q
  <1>6. \A x : ~About(q[1], DocKinds, x) => (x \in s2.docs <=> x \in s.docs)
    BY DEF About, DocKinds, q
  <1>7. ASSUME NEW x
        PROVE  /\ WillShow(s, x) => WillShow(s2, x)
               /\ WillHide(s, x) => WillHide(s2, x)
    BY <1>2, <1>5, <1>6 DEF WillShow, WillHide, q, r
  <1>8. ASSUME NEW x
        PROVE  /\ WillKnow(s, x) => WillKnow(s2, x)
               /\ WillForget(s, x) => WillForget(s2, x)
    BY DEF WillKnow, WillForget
  <1>. QED
    BY <1>3, <1>7, <1>8 DEF Follows

(* What goes down to the client is nothing to the hub.                      *)
LEMMA DownFollows ==
    ASSUME NEW s \in SockRec, SockOK(s), NEW s2 \in SockRec,
           s2.up = s.up, s2.chain = s.chain, s2.docs = s.docs, s2.ids = s.ids,
           s2.owner = s.owner, s2.client = s.client, s2.server = s.server
    PROVE  Follows(s, s2)
  <1>1. SockOK(s2)
    BY DEF SockOK
  <1>2. \A x : /\ WillShow(s, x) => WillShow(s2, x)
               /\ WillHide(s, x) => WillHide(s2, x)
               /\ WillKnow(s, x) => WillKnow(s2, x)
               /\ WillForget(s, x) => WillForget(s2, x)
    BY DEF WillShow, WillHide, WillKnow, WillForget
  <1>. QED
    BY <1>1, <1>2 DEF Follows

(* The jobs of the documents.  Job j for document d may come last: sockets  *)
(* turn from S to S2, where the chain of its own waits for it alone.        *)
MayCome(js, S, S2, d, j) ==
  /\ \A b \in Sockets : b # j.to /\ S[b].chain # <<>> =>
       S2[b].chain # <<>> /\ S2[b].chain[1] = S[b].chain[1]
  /\ j.to \in Sockets =>
       /\ \A e \in Docs : \A i \in DOMAIN js[e] : js[e][i].to # j.to
       /\ S2[j.to].chain # <<>> /\ S2[j.to].chain[1] = <<"opened", d>>

LEMMA JobAppended ==
    ASSUME NEW js, NEW S, NEW S2, JobsOK(js, S), NEW d \in Docs, NEW j \in Jobs, NEW js2,
           js2 = [js EXCEPT ![d] = Append(@, j)],
           MayCome(js, S, S2, d, j)
    PROVE  JobsOK(js2, S2)
  <1>0. /\ \A b \in Sockets : b # j.to /\ S[b].chain # <<>> =>
             S2[b].chain # <<>> /\ S2[b].chain[1] = S[b].chain[1]
        /\ j.to \in Sockets =>
             /\ \A e \in Docs : \A i \in DOMAIN js[e] : js[e][i].to # j.to
             /\ S2[j.to].chain # <<>> /\ S2[j.to].chain[1] = <<"opened", d>>
    BY DEF MayCome
  <1> DEFINE q == js[d]
  <1>1. js \in [Docs -> Seq(Jobs)] /\ q \in Seq(Jobs)
    BY DEF JobsOK
  <1>2. /\ Append(q, j) \in Seq(Jobs)
        /\ DOMAIN q = 1 .. Len(q) /\ Len(q) \in Nat
        /\ DOMAIN Append(q, j) = 1 .. Len(q) + 1
        /\ \A i \in 1 .. Len(q) : Append(q, j)[i] = q[i]
        /\ Append(q, j)[Len(q) + 1] = j
    BY <1>1, AppendIs
  <1>3. \A i \in 1 .. Len(q) + 1 : i \in 1 .. Len(q) \/ i = Len(q) + 1
    BY <1>2
  <1>4. /\ js2 \in [Docs -> Seq(Jobs)] /\ js2[d] = Append(q, j)
        /\ \A e \in Docs : e # d => js2[e] = js[e]
    BY <1>1, <1>2
  <1>5. ASSUME NEW e \in Docs, NEW i \in DOMAIN js2[e], js2[e][i].to \in Sockets
        PROVE  /\ S2[js2[e][i].to].chain # <<>> /\ S2[js2[e][i].to].chain[1] = <<"opened", e>>
               /\ \A k \in DOMAIN js2[e] : js2[e][k].to = js2[e][i].to => k = i
    <2>1. CASE e # d
      <3>1. js2[e] = js[e] /\ js[e][i].to # j.to
        BY <1>0, <1>4, <1>5, <2>1
      <3>2. /\ S[js[e][i].to].chain # <<>> /\ S[js[e][i].to].chain[1] = <<"opened", e>>
            /\ \A k \in DOMAIN js[e] : js[e][k].to = js[e][i].to => k = i
        BY <1>5, <3>1 DEF JobsOK
      <3>3. S2[js[e][i].to].chain # <<>> /\ S2[js[e][i].to].chain[1] = <<"opened", e>>
        BY <1>0, <1>5, <3>1, <3>2
      <3>. QED
        BY <3>1, <3>2, <3>3
    <2>2. CASE e = d /\ i \in 1 .. Len(q)
      <3>1. js2[e][i] = q[i] /\ i \in DOMAIN q
        BY <1>2, <1>4, <2>2
      <3>2. q[i].to # j.to
        BY <1>0, <1>5, <2>2, <3>1
      <3>3. /\ S[q[i].to].chain # <<>> /\ S[q[i].to].chain[1] = <<"opened", d>>
            /\ \A k \in DOMAIN q : q[k].to = q[i].to => k = i
        BY <1>5, <2>2, <3>1 DEF JobsOK
      <3>4. S2[q[i].to].chain # <<>> /\ S2[q[i].to].chain[1] = <<"opened", d>>
        BY <1>0, <1>5, <3>1, <3>2, <3>3
      <3>5. \A k \in DOMAIN js2[e] : js2[e][k].to = js2[e][i].to => k = i
        <4> SUFFICES ASSUME NEW k \in 1 .. Len(q) + 1, js2[e][k].to = q[i].to
                     PROVE  k = i
          BY <1>2, <1>4, <2>2, <3>1
        <4>1. k \in 1 .. Len(q)
          BY <1>2, <1>3, <1>4, <2>2, <3>2
        <4>. QED
          BY <1>2, <1>4, <2>2, <3>3, <4>1
      <3>. QED
        BY <2>2, <3>1, <3>4, <3>5
    <2>3. CASE e = d /\ i = Len(q) + 1
      <3>1. js2[e][i] = j
        BY <1>2, <1>4, <2>3
      <3>2. \A k \in DOMAIN js2[e] : js2[e][k].to = j.to => k = i
        BY <1>0, <1>2, <1>3, <1>4, <1>5, <2>3, <3>1
      <3>. QED
        BY <1>0, <1>5, <2>3, <3>1, <3>2
    <2>. QED
      BY <1>2, <1>3, <1>4, <2>1, <2>2, <2>3
  <1>. QED
    BY <1>4, <1>5 DEF JobsOK

(* The same jobs, some of them no longer for a socket.                      *)
FewerTurns(js, js2, S, S2) ==
  \A d \in Docs : /\ DOMAIN js2[d] = DOMAIN js[d]
                  /\ \A i \in DOMAIN js[d] : js2[d][i].to \in Sockets =>
                       /\ js2[d][i].to = js[d][i].to
                       /\ S2[js2[d][i].to].chain = S[js2[d][i].to].chain

LEMMA JobsLess ==
    ASSUME NEW js, NEW S, NEW S2, JobsOK(js, S), NEW js2 \in [Docs -> Seq(Jobs)],
           FewerTurns(js, js2, S, S2)
    PROVE  JobsOK(js2, S2)
  <1>1. ASSUME NEW d \in Docs, NEW i \in DOMAIN js2[d], js2[d][i].to \in Sockets
        PROVE  /\ S2[js2[d][i].to].chain # <<>> /\ S2[js2[d][i].to].chain[1] = <<"opened", d>>
               /\ \A j \in DOMAIN js2[d] : js2[d][j].to = js2[d][i].to => j = i
    <2>1. /\ i \in DOMAIN js[d] /\ js2[d][i].to = js[d][i].to
          /\ S2[js2[d][i].to].chain = S[js2[d][i].to].chain
      BY <1>1 DEF FewerTurns
    <2>2. /\ S[js[d][i].to].chain # <<>> /\ S[js[d][i].to].chain[1] = <<"opened", d>>
          /\ \A j \in DOMAIN js[d] : js[d][j].to = js[d][i].to => j = i
      BY <1>1, <2>1 DEF JobsOK
    <2>3. \A j \in DOMAIN js2[d] : js2[d][j].to = js2[d][i].to => js[d][j].to = js[d][i].to
      BY <1>1, <2>1 DEF FewerTurns
    <2>4. DOMAIN js2[d] = DOMAIN js[d]
      BY DEF FewerTurns
    <2>. QED
      BY <2>1, <2>2, <2>3, <2>4
  <1>. QED
    BY <1>1 DEF JobsOK

LEMMA JobsTyped ==
    ASSUME Inv, NEW d \in Docs
    PROVE  jobs \in [Docs -> Seq(Jobs)] /\ jobs[d] \in Seq(Jobs) /\ DOMAIN jobs[d] = 1 .. Len(jobs[d])
  BY DEF Inv, JobsOK

LEMMA HubOpensKeeps ==
    ASSUME Inv, NEW c \in Sockets, HubOpens(c)
    PROVE  Inv'
  <1>0. PICK s : s = sock[c]
    OBVIOUS
  <1>1. s \in SockRec /\ SockOK(s)
    BY <1>0, SockIs
  <1>2. PICK d : d = Head(s.chain)[2]
    OBVIOUS
  <1>3. PICK s2 : s2 = [s EXCEPT !.docs = @ \cup {d}, !.chain[1] = <<"opened", d>>]
    OBVIOUS
  <1>4. /\ s.chain # <<>> /\ Head(s.chain)[1] = "open"
        /\ sock' = [sock EXCEPT ![c].docs = @ \cup {d}, ![c].chain[1] = <<"opened", d>>]
        /\ jobs' = [jobs EXCEPT ![d] = Append(@, [to |-> c, v |-> 0])]
        /\ UNCHANGED <<tab, port, view, up, client, activity>>
    BY <1>0, <1>2 DEF HubOpens
  <1>5. s.chain \in Seq(ChainFrames)
    BY <1>1 DEF SockRec
  <1>6. /\ Head(s.chain) = s.chain[1] /\ d \in Docs /\ 1 \in DOMAIN s.chain
    <2>1. /\ Head(s.chain) = s.chain[1] /\ Head(s.chain) \in ChainFrames /\ 1 \in DOMAIN s.chain
      BY <1>4, <1>5, TailIs
    <2>. QED
      BY <1>2, <2>1 DEF ChainFrames
  <1>7. PICK q : q = [s.chain EXCEPT ![1] = <<"opened", d>>]
    OBVIOUS
  <1>8. q \in Seq(ChainFrames) /\ q # <<>> /\ q[1] = <<"opened", d>>
    <2>1. <<"opened", d>> \in ChainFrames
      BY <1>6 DEF ChainFrames, DocKinds
    <2>2. q \in Seq(ChainFrames) /\ DOMAIN q = DOMAIN s.chain
      BY <1>5, <1>6, <1>7, <2>1
    <2>3. q # <<>>
      BY <1>6, <2>2, EmptyIs
    <2>. QED
      BY <1>5, <1>6, <1>7, <2>2, <2>3
  <1>9. /\ s2 \in SockRec /\ s2.chain = q /\ s2.docs = s.docs \cup {d}
        /\ s2.up = s.up /\ s2.ids = s.ids /\ s2.owner = s.owner /\ s2.client = s.client
        /\ s2.server = s.server
    <2>1. s2 = [[s EXCEPT !.docs = s.docs \cup {d}] EXCEPT !.chain = q]
      BY <1>1, <1>3, <1>7 DEF SockRec
    <2>2. s.docs \cup {d} \in SUBSET Docs
      BY <1>1, <1>6 DEF SockRec
    <2>. QED
      BY <1>1, <1>8, <2>1, <2>2 DEF SockRec
  <1>10. sock' = [sock EXCEPT ![c] = s2]
    BY <1>0, <1>1, <1>3, <1>4 DEF SockRec
  <1>11. Follows(s, s2)
    <2>1. s.chain[1][1] = "open" /\ d = s.chain[1][2] /\ s2.chain = [s.chain EXCEPT ![1] = <<"opened", d>>]
      BY <1>2, <1>4, <1>6, <1>7, <1>9
    <2>. QED
      BY <1>1, <1>4, <1>6, <1>9, <2>1, OpensFollows
  <1>12. /\ NetOK(Net') /\ WorkerOK(Net', Desired(view'[Worker]), Known(view'[Worker]))
         /\ sock'[c] = s2 /\ \A b \in Sockets : b # c => sock'[b] = sock[b]
    BY <1>0, <1>4, <1>10, <1>11, OneSocketFollows
  <1>13. JobsOK(jobs', sock')
    <2>1. PICK j : j = [to |-> c, v |-> 0]
      OBVIOUS
    <2>2. j \in Jobs /\ j.to = c
      BY <2>1, Sets DEF Jobs
    <2>3. JobsOK(jobs, sock)
      BY DEF Inv
    <2>4. \A e \in Docs : \A i \in DOMAIN jobs[e] : jobs[e][i].to # c
      <3> SUFFICES ASSUME NEW e \in Docs, NEW i \in DOMAIN jobs[e], jobs[e][i].to = c
                   PROVE  FALSE
        OBVIOUS
      <3>1. sock[c].chain[1] = <<"opened", e>>
        BY <2>3 DEF JobsOK
      <3>. QED
        BY <1>0, <1>4, <1>6, <3>1
    <2>5. \A b \in Sockets : b # j.to /\ sock[b].chain # <<>> =>
             sock'[b].chain # <<>> /\ sock'[b].chain[1] = sock[b].chain[1]
      BY <1>12, <2>2
    <2>6. sock'[c].chain # <<>> /\ sock'[c].chain[1] = <<"opened", d>>
      BY <1>8, <1>9, <1>12
    <2>7. jobs' = [jobs EXCEPT ![d] = Append(@, j)]
      BY <1>4, <2>1
    <2>8. MayCome(jobs, sock, sock', d, j)
      BY <2>2, <2>4, <2>5, <2>6 DEF MayCome
    <2>. QED
      BY <1>6, <2>2, <2>3, <2>7, <2>8, JobAppended
  <1>14. Typed'
    BY <1>4 DEF Inv, Typed
  <1>. QED
    BY <1>12, <1>13, <1>14 DEF Inv

LEMMA HubClosesKeeps ==
    ASSUME Inv, NEW c \in Sockets, HubCloses(c)
    PROVE  Inv'
  <1>0. PICK s : s = sock[c]
    OBVIOUS
  <1>1. s \in SockRec /\ SockOK(s)
    BY <1>0, SockIs
  <1>2. PICK d : d = Head(s.chain)[2]
    OBVIOUS
  <1>3. PICK s2 : s2 = [s EXCEPT !.docs = @ \ {d}, !.chain = Tail(s.chain)]
    OBVIOUS
  <1>4. /\ s.chain # <<>> /\ Head(s.chain)[1] = "closed"
        /\ sock' = [sock EXCEPT ![c] = s2]
        /\ UNCHANGED <<tab, port, view, up, client, activity, jobs>>
    BY <1>0, <1>2, <1>3 DEF HubCloses
  <1>5. s.chain \in Seq(ChainFrames) /\ Tail(s.chain) \in Seq(ChainFrames) /\ Head(s.chain) = s.chain[1]
    <2>1. s.chain \in Seq(ChainFrames)
      BY <1>1 DEF SockRec
    <2>. QED
      BY <1>4, <2>1, TailIs
  <1>6. /\ s2 \in SockRec /\ s2.chain = Tail(s.chain) /\ s2.docs = s.docs \ {d}
        /\ s2.up = s.up /\ s2.ids = s.ids /\ s2.owner = s.owner /\ s2.client = s.client
        /\ s2.server = s.server
    BY <1>1, <1>3, <1>5 DEF SockRec
  <1>7. Follows(s, s2)
    BY <1>1, <1>2, <1>4, <1>5, <1>6, ServedFollows
  <1>8. /\ NetOK(Net') /\ WorkerOK(Net', Desired(view'[Worker]), Known(view'[Worker]))
        /\ sock'[c] = s2 /\ \A b \in Sockets : b # c => sock'[b] = sock[b]
    BY <1>0, <1>4, <1>7, OneSocketFollows
  <1>9. JobsOK(jobs', sock')
    <2>1. JobsOK(jobs, sock)
      BY DEF Inv
    <2>2. \A b \in Sockets : sock[b].chain # <<>> /\ sock[b].chain[1][1] = "opened" =>
             sock'[b].chain # <<>> /\ sock'[b].chain[1] = sock[b].chain[1]
      BY <1>0, <1>4, <1>5, <1>8
    <2>3. JobsOK(jobs, sock')
      BY <2>1, <2>2, TurnsStay
    <2>. QED
      BY <1>4, <2>3
  <1>10. Typed'
    BY <1>4 DEF Inv, Typed
  <1>. QED
    BY <1>8, <1>9, <1>10 DEF Inv

LEMMA ChangeKeeps ==
    ASSUME Inv, NEW d \in Docs, Change(d)
    PROVE  Inv'
  <1>1. /\ activity[d] < 1 + MaxChanges
        /\ activity' = [activity EXCEPT ![d] = @ + 1]
        /\ jobs' = [jobs EXCEPT ![d] = Append(@, [to |-> 0, v |-> 0])]
        /\ UNCHANGED <<tab, port, view, up, client, sock>>
    BY DEF Change
  <1>2. Typed'
    <2>1. activity \in [Docs -> 1 .. MaxChanges + 1] /\ activity[d] + 1 \in 1 .. MaxChanges + 1
      BY <1>1, Sets DEF Inv, Typed
    <2>2. activity' \in [Docs -> 1 .. MaxChanges + 1]
      BY <1>1, <2>1
    <2>. QED
      BY <1>1, <2>2 DEF Inv, Typed
  <1>3. NetOK(Net') /\ WorkerOK(Net', Desired(view'[Worker]), Known(view'[Worker]))
    BY <1>1 DEF Inv, Net
  <1>4. JobsOK(jobs', sock')
    <2>1. PICK j : j = [to |-> 0, v |-> 0]
      OBVIOUS
    <2>2. j \in Jobs /\ j.to \notin Sockets
      BY <2>1, Sets DEF Jobs
    <2>3. JobsOK(jobs, sock)
      BY DEF Inv
    <2>4. jobs' = [jobs EXCEPT ![d] = Append(@, j)]
      BY <1>1, <2>1
    <2>5. MayCome(jobs, sock, sock, d, j)
      BY <2>2 DEF MayCome
    <2>6. JobsOK(jobs', sock)
      BY <2>2, <2>3, <2>4, <2>5, JobAppended
    <2>. QED
      BY <1>1, <2>6
  <1>. QED
    BY <1>2, <1>3, <1>4 DEF Inv

LEMMA BuildKeeps ==
    ASSUME Inv, NEW d \in Docs, Build(d)
    PROVE  Inv'
  <1>1. /\ jobs[d] # <<>>
        /\ jobs' = [jobs EXCEPT ![d][1].v = activity[d]]
        /\ UNCHANGED <<tab, port, view, up, client, sock, activity>>
    BY DEF Build
  <1>2. Typed' /\ activity[d] \in Counts
    BY <1>1, Sets DEF Inv, Typed, Counts
  <1>3. NetOK(Net') /\ WorkerOK(Net', Desired(view'[Worker]), Known(view'[Worker]))
    BY <1>1 DEF Inv, Net
  <1>4. JobsOK(jobs', sock')
    <2>1. PICK q : q = jobs[d]
      OBVIOUS
    <2>2. q \in Seq(Jobs) /\ jobs \in [Docs -> Seq(Jobs)] /\ 1 \in DOMAIN q /\ q[1] \in Jobs
      <3>1. q \in Seq(Jobs) /\ jobs \in [Docs -> Seq(Jobs)]
        BY <2>1, JobsTyped
      <3>. QED
        BY <1>1, <2>1, <3>1, TailIs
    <2>3. PICK j : j = [q[1] EXCEPT !.v = activity[d]]
      OBVIOUS
    <2>4. j \in Jobs /\ j.to = q[1].to
      BY <1>2, <2>2, <2>3 DEF Jobs
    <2>5. PICK r : r = [q EXCEPT ![1] = j]
      OBVIOUS
    <2>6. r \in Seq(Jobs) /\ DOMAIN r = DOMAIN q /\ \A i \in DOMAIN q : r[i].to = q[i].to
      BY <2>2, <2>4, <2>5
    <2>7. jobs' = [jobs EXCEPT ![d] = r]
      BY <1>1, <2>1, <2>3, <2>5
    <2>8. jobs' \in [Docs -> Seq(Jobs)] /\ jobs'[d] = r /\ \A e \in Docs : e # d => jobs'[e] = jobs[e]
      BY <2>2, <2>6, <2>7
    <2>9. FewerTurns(jobs, jobs', sock, sock)
      BY <2>1, <2>6, <2>8 DEF FewerTurns
    <2>10. JobsOK(jobs, sock)
      BY DEF Inv
    <2>11. JobsOK(jobs', sock)
      BY <2>8, <2>9, <2>10, JobsLess
    <2>. QED
      BY <1>1, <2>11
  <1>. QED
    BY <1>2, <1>3, <1>4 DEF Inv

LEMMA DeliverKeeps ==
    ASSUME Inv, NEW d \in Docs, Deliver(d)
    PROVE  Inv'
  <1>0. PICK q, j : q = jobs[d] /\ j = q[1]
    OBVIOUS
  <1>1. PICK to : to = IF j.to # 0 THEN {j.to} ELSE {c \in Sockets : sock[c].server /\ d \in sock[c].docs}
    OBVIOUS
  <1>2. /\ q # <<>> /\ j.v # 0
        /\ sock' = [c \in Sockets |->
              IF c \notin to THEN sock[c]
              ELSE [sock[c] EXCEPT !.down = Append(@, <<d, j.v>>),
                                   !.chain = IF j.to = c THEN Tail(@) ELSE @]]
        /\ jobs' = [jobs EXCEPT ![d] = Tail(@)]
        /\ UNCHANGED <<tab, port, view, up, client, activity>>
    BY <1>0, <1>1 DEF Deliver
  <1>3. q \in Seq(Jobs) /\ jobs \in [Docs -> Seq(Jobs)] /\ 1 \in DOMAIN q /\ j \in Jobs
    <2>1. q \in Seq(Jobs) /\ jobs \in [Docs -> Seq(Jobs)]
      BY <1>0, JobsTyped
    <2>2. DOMAIN q = 1 .. Len(q) /\ Len(q) \in Nat /\ Len(q) > 0 /\ Head(q) = q[1] /\ Head(q) \in Jobs
      BY <1>2, <2>1, TailIs
    <2>3. 1 \in DOMAIN q
      BY <2>2
    <2>. QED
      BY <1>0, <2>1, <2>2, <2>3
  <1>4. /\ Tail(q) \in Seq(Jobs) /\ DOMAIN q = 1 .. Len(q) /\ Len(q) \in Nat
        /\ DOMAIN Tail(q) = 1 .. Len(q) - 1
        /\ \A i \in 1 .. Len(q) - 1 : Tail(q)[i] = q[i + 1] /\ i + 1 \in DOMAIN q /\ i + 1 # 1
    <2>1. /\ Tail(q) \in Seq(Jobs) /\ DOMAIN q = 1 .. Len(q) /\ Len(q) \in Nat
          /\ DOMAIN Tail(q) = 1 .. Len(q) - 1
          /\ \A i \in 1 .. Len(q) - 1 : Tail(q)[i] = q[i + 1]
      BY <1>2, <1>3, TailIs
    <2>2. \A i \in 1 .. Len(q) - 1 : i + 1 \in 1 .. Len(q) /\ i + 1 # 1
      BY <2>1
    <2>. QED
      BY <2>1, <2>2
  <1>5. JobsOK(jobs, sock)
    BY DEF Inv
  <1>6. ASSUME NEW c \in Sockets
        PROVE  /\ Follows(sock[c], sock'[c])
               /\ c # j.to => sock'[c].chain = sock[c].chain
    <2>0. PICK s : s = sock[c]
      OBVIOUS
    <2>1. s \in SockRec /\ SockOK(s)
      BY <2>0, SockIs
    <2>2. PICK w : w = Append(s.down, <<d, j.v>>)
      OBVIOUS
    <2>3. w \in Seq(Docs \X Counts)
      <3>1. s.down \in Seq(Docs \X Counts) /\ <<d, j.v>> \in Docs \X Counts
        BY <1>3, <2>1 DEF SockRec, Jobs
      <3>. QED
        BY <2>2, <3>1, AppendIs
    <2>4. CASE c \notin to
      <3>1. sock'[c] = s
        BY <1>2, <2>0, <2>4
      <3>. QED
        BY <2>0, <2>1, <3>1, FollowsItself
    <2>5. CASE c \in to /\ j.to # c
      <3>1. sock'[c] = [s EXCEPT !.down = w, !.chain = s.chain]
        BY <1>2, <2>0, <2>2, <2>5
      <3>2. PICK s2 : s2 = sock'[c]
        OBVIOUS
      <3>3. /\ s2 \in SockRec /\ s2.chain = s.chain /\ s2.docs = s.docs
            /\ s2.up = s.up /\ s2.ids = s.ids /\ s2.owner = s.owner /\ s2.client = s.client
            /\ s2.server = s.server
        BY <2>1, <2>3, <3>1, <3>2 DEF SockRec
      <3>4. Follows(s, s2)
        BY <2>1, <3>3, DownFollows
      <3>. QED
        BY <2>0, <3>2, <3>3, <3>4
    <2>6. CASE c \in to /\ j.to = c
      <3>1. sock'[c] = [s EXCEPT !.down = w, !.chain = Tail(s.chain)]
        BY <1>2, <2>0, <2>2, <2>6
      <3>2. s.chain # <<>> /\ s.chain[1] = <<"opened", d>>
        BY <1>0, <1>3, <1>5, <2>0, <2>6 DEF JobsOK
      <3>3. s.chain \in Seq(ChainFrames) /\ Tail(s.chain) \in Seq(ChainFrames)
        <4>1. s.chain \in Seq(ChainFrames)
          BY <2>1 DEF SockRec
        <4>. QED
          BY <3>2, <4>1, TailIs
      <3>4. PICK s2 : s2 = sock'[c]
        OBVIOUS
      <3>5. /\ s2 \in SockRec /\ s2.chain = Tail(s.chain) /\ s2.docs = s.docs
            /\ s2.up = s.up /\ s2.ids = s.ids /\ s2.owner = s.owner /\ s2.client = s.client
            /\ s2.server = s.server
        BY <2>1, <2>3, <3>1, <3>3, <3>4 DEF SockRec
      <3>6. s.chain[1][1] = "opened" /\ s.chain[1][2] = d
        BY <3>2
      <3>7. Follows(s, s2)
        BY <2>1, <3>2, <3>5, <3>6, ServedFollows
      <3>. QED
        BY <2>0, <2>6, <3>4, <3>7
    <2>. QED
      BY <2>4, <2>5, <2>6
  <1>7. NetOK(Net') /\ WorkerOK(Net', Desired(view'[Worker]), Known(view'[Worker]))
    <2>1. sock' = [c \in Sockets |-> sock'[c]]
      BY <1>2
    <2>. QED
      BY <1>2, <1>6, <2>1, SocketsFollow
  <1>8. /\ jobs' \in [Docs -> Seq(Jobs)] /\ jobs'[d] = Tail(q)
        /\ \A e \in Docs : e # d => jobs'[e] = jobs[e]
    BY <1>0, <1>2, <1>3, <1>4
  <1>9. ASSUME NEW e \in Docs, NEW i \in DOMAIN jobs'[e], jobs'[e][i].to \in Sockets
        PROVE  /\ sock'[jobs'[e][i].to].chain # <<>> /\ sock'[jobs'[e][i].to].chain[1] = <<"opened", e>>
               /\ \A k \in DOMAIN jobs'[e] : jobs'[e][k].to = jobs'[e][i].to => k = i
    <2>1. CASE e # d
      <3>1. jobs'[e] = jobs[e]
        BY <1>8, <2>1
      <3>2. /\ sock[jobs[e][i].to].chain # <<>> /\ sock[jobs[e][i].to].chain[1] = <<"opened", e>>
            /\ \A k \in DOMAIN jobs[e] : jobs[e][k].to = jobs[e][i].to => k = i
        BY <1>5, <1>9, <3>1 DEF JobsOK
      <3>3. jobs[e][i].to # j.to
        <4> SUFFICES ASSUME jobs[e][i].to = j.to
                     PROVE  FALSE
          OBVIOUS
        <4>1. sock[j.to].chain[1] = <<"opened", d>>
          BY <1>0, <1>3, <1>5, <1>9, <3>1 DEF JobsOK
        <4>2. <<"opened", d>>[2] = d /\ <<"opened", e>>[2] = e
          OBVIOUS
        <4>. QED
          BY <2>1, <3>2, <4>1, <4>2
      <3>. QED
        BY <1>6, <1>9, <3>1, <3>2, <3>3
    <2>2. CASE e = d
      <3>1. i \in 1 .. Len(q) - 1 /\ jobs'[e][i] = q[i + 1] /\ i + 1 \in DOMAIN q /\ i + 1 # 1
        BY <1>4, <1>8, <1>9, <2>2
      <3>2. /\ sock[q[i + 1].to].chain # <<>> /\ sock[q[i + 1].to].chain[1] = <<"opened", d>>
            /\ \A k \in DOMAIN q : q[k].to = q[i + 1].to => k = i + 1
        BY <1>0, <1>5, <1>9, <2>2, <3>1 DEF JobsOK
      <3>3. q[i + 1].to # j.to
        BY <1>0, <1>3, <3>1, <3>2
      <3>4. ASSUME NEW k \in DOMAIN jobs'[e], jobs'[e][k].to = jobs'[e][i].to
            PROVE  k = i
        <4>1. k \in 1 .. Len(q) - 1 /\ q[k + 1].to = q[i + 1].to /\ k + 1 \in DOMAIN q
          BY <1>4, <1>8, <2>2, <3>1, <3>4
        <4>2. k + 1 = i + 1
          BY <3>2, <4>1
        <4>. QED
          BY <1>4, <3>1, <4>1, <4>2
      <3>. QED
        BY <1>6, <1>9, <2>2, <3>1, <3>2, <3>3, <3>4
    <2>. QED
      BY <2>1, <2>2
  <1>10. JobsOK(jobs', sock')
    BY <1>8, <1>9 DEF JobsOK
  <1>11. Typed'
    BY <1>2 DEF Inv, Typed
  <1>. QED
    BY <1>7, <1>10, <1>11 DEF Inv

-----------------------------------------------------------------------------
(* The ends of a socket.                                                     *)

LEMMA FreedIs ==
    ASSUME NEW s \in SockRec, SockOK(s), s.client \notin Live
    PROVE  /\ Freed(s) \in SockRec /\ SockOK(Freed(s)) /\ Freed(s).client \notin Live
           /\ Freed(s).chain = s.chain
  <1>1. CASE s.client = "done" /\ ~s.server
    <2>1. Freed(s) = Free /\ s.chain = <<>> /\ Free.chain = <<>> /\ Free.client = "done"
      BY <1>1 DEF Freed, SockOK, Free
    <2>. QED
      BY <2>1, EmptyRec DEF Live
  <1>2. CASE ~(s.client = "done" /\ ~s.server)
    BY <1>2 DEF Freed
  <1>. QED
    BY <1>1, <1>2

(* The network closes a socket: what was under way to the hub is lost, and   *)
(* the client has yet to notice.                                             *)
LEMMA DropKeeps ==
    ASSUME Inv, NEW c \in Sockets, Drop(c)
    PROVE  Inv'
  <1>0. PICK s : s = sock[c]
    OBVIOUS
  <1>1. s \in SockRec /\ SockOK(s)
    BY <1>0, SockIs
  <1>2. PICK s2 : s2 = [s EXCEPT !.client = "broken", !.up = <<>>, !.down = <<>>]
    OBVIOUS
  <1>3. /\ s.client \in {"opening", "open"}
        /\ sock' = [sock EXCEPT ![c].client = "broken", ![c].up = <<>>, ![c].down = <<>>]
        /\ UNCHANGED <<tab, port, view, up, client, activity, jobs>>
    BY <1>0 DEF Drop
  <1>4. sock' = [sock EXCEPT ![c] = s2]
    BY <1>0, <1>1, <1>2, <1>3 DEF SockRec
  <1>5. /\ s2 \in SockRec /\ s2.client = "broken" /\ s2.up = <<>> /\ s2.chain = s.chain
        /\ s2.docs = s.docs /\ s2.ids = s.ids /\ s2.owner = s.owner /\ s2.server = s.server
    BY <1>1, <1>2, EmptyIs DEF SockRec, Live
  <1>6. Follows(s, s2)
    <2>1. SockOK(s2)
      BY <1>1, <1>5 DEF SockOK
    <2>. QED
      BY <1>3, <1>5, <2>1 DEF Follows, Live
  <1>7. /\ NetOK(Net') /\ WorkerOK(Net', Desired(view'[Worker]), Known(view'[Worker]))
        /\ sock'[c] = s2 /\ \A b \in Sockets : b # c => sock'[b] = sock[b]
    BY <1>0, <1>3, <1>4, <1>6, OneSocketFollows
  <1>8. JobsOK(jobs', sock')
    <2>1. JobsOK(jobs, sock)
      BY DEF Inv
    <2>2. \A b \in Sockets : sock[b].chain # <<>> /\ sock[b].chain[1][1] = "opened" =>
             sock'[b].chain # <<>> /\ sock'[b].chain[1] = sock[b].chain[1]
      BY <1>0, <1>5, <1>7
    <2>3. JobsOK(jobs, sock')
      BY <2>1, <2>2, TurnsStay
    <2>. QED
      BY <1>3, <2>3
  <1>9. Typed'
    BY <1>3 DEF Inv, Typed
  <1>. QED
    BY <1>7, <1>8, <1>9 DEF Inv

(* An event comes to the client, which shows it to the pages it has.         *)
LEMMA ArrivesKeeps ==
    ASSUME Inv, NEW c \in Sockets, Arrives(c)
    PROVE  Inv'
  <1>0. PICK s : s = sock[c]
    OBVIOUS
  <1>1. s \in SockRec /\ SockOK(s)
    BY <1>0, SockIs
  <1>2. PICK d, v, hear :
          /\ d = Head(s.down)[1] /\ v = Head(s.down)[2]
          /\ hear = IF s.owner = Worker
                    THEN {t \in Tabs : tab[t].mode = "worker" /\ port[t] = tab[t].gen}
                    ELSE {t \in Tabs : tab[t].mode = "fallback"}
    OBVIOUS
  <1>3. /\ s.down # <<>>
        /\ tab' = [t \in Tabs |-> IF t \in hear /\ d \in tab[t].open THEN [tab[t] EXCEPT !.seen[d] = v]
                                                                       ELSE tab[t]]
        /\ sock' = [sock EXCEPT ![c].down = Tail(@)]
        /\ UNCHANGED <<port, view, up, client, activity, jobs>>
    BY <1>0, <1>2 DEF Arrives
  <1>4. PICK s2 : s2 = [s EXCEPT !.down = Tail(s.down)]
    OBVIOUS
  <1>5. v \in Counts /\ Tail(s.down) \in Seq(Docs \X Counts)
    <2>1. s.down \in Seq(Docs \X Counts)
      BY <1>1 DEF SockRec
    <2>2. Head(s.down) \in Docs \X Counts /\ Tail(s.down) \in Seq(Docs \X Counts)
      BY <1>3, <2>1, TailIs
    <2>. QED
      BY <1>2, <2>2
  <1>6. /\ s2 \in SockRec /\ s2.client = s.client /\ s2.up = s.up /\ s2.chain = s.chain
        /\ s2.docs = s.docs /\ s2.ids = s.ids /\ s2.owner = s.owner /\ s2.server = s.server
    BY <1>1, <1>4, <1>5 DEF SockRec
  <1>7. Follows(s, s2)
    BY <1>1, <1>6, DownFollows
  <1>8. sock' = [sock EXCEPT ![c] = s2]
    BY <1>0, <1>1, <1>3, <1>4 DEF SockRec
  <1>9. /\ NetOK(Net') /\ WorkerOK(Net', Desired(view'[Worker]), Known(view'[Worker]))
        /\ sock'[c] = s2 /\ \A b \in Sockets : b # c => sock'[b] = sock[b]
    BY <1>0, <1>3, <1>7, <1>8, OneSocketFollows
  <1>10. JobsOK(jobs', sock')
    <2>1. JobsOK(jobs, sock)
      BY DEF Inv
    <2>2. \A b \in Sockets : sock[b].chain # <<>> /\ sock[b].chain[1][1] = "opened" =>
             sock'[b].chain # <<>> /\ sock'[b].chain[1] = sock[b].chain[1]
      BY <1>0, <1>6, <1>9
    <2>3. JobsOK(jobs, sock')
      BY <2>1, <2>2, TurnsStay
    <2>. QED
      BY <1>3, <2>3
  <1>11. Typed'
    <2>1. Typed
      BY DEF Inv
    <2>2. ASSUME NEW t \in Tabs
          PROVE  tab'[t] \in TabRec
      <3>1. tab[t] \in TabRec
        BY <2>1 DEF Typed
      <3>2. [tab[t] EXCEPT !.seen[d] = v] \in TabRec
        BY <1>5, <3>1 DEF TabRec
      <3>. QED
        BY <1>3, <3>1, <3>2
    <2>3. tab' \in [Tabs -> TabRec]
      BY <1>3, <2>2
    <2>. QED
      BY <1>3, <2>1, <2>3 DEF Typed
  <1>. QED
    BY <1>9, <1>10, <1>11 DEF Inv

(* The hub notices that a socket is gone.                                    *)
LEMMA HubClosedKeeps ==
    ASSUME Inv, NEW c \in Sockets, HubClosed(c)
    PROVE  Inv'
  <1>0. PICK s : s = sock[c]
    OBVIOUS
  <1>1. s \in SockRec /\ SockOK(s)
    BY <1>0, SockIs
  <1>2. PICK s1 : s1 = [s EXCEPT !.server = FALSE, !.docs = {}, !.ids = {},
                                  !.up = <<>>, !.chain = <<>>, !.down = <<>>]
    OBVIOUS
  <1>3. PICK s2 : s2 = Freed(s1)
    OBVIOUS
  <1>4. /\ s.client \notin {"opening", "open"}
        /\ sock' = [sock EXCEPT ![c] = s2]
        /\ jobs' = [d \in Docs |-> [i \in DOMAIN jobs[d] |->
              IF jobs[d][i].to = c THEN [jobs[d][i] EXCEPT !.to = Nobody] ELSE jobs[d][i]]]
        /\ UNCHANGED <<tab, port, view, up, client, activity>>
    <2>1. sock' = [sock EXCEPT ![c] = Freed([@ EXCEPT !.server = FALSE, !.docs = {}, !.ids = {},
                                                 !.up = <<>>, !.chain = <<>>, !.down = <<>>])]
      BY DEF HubClosed
    <2>2. sock' = [sock EXCEPT ![c] = s2]
      BY <1>0, <1>2, <1>3, <2>1
    <2>. QED
      BY <1>0, <2>2 DEF HubClosed
  <1>5. /\ s1 \in SockRec /\ s1.client = s.client /\ ~s1.server /\ s1.docs = {} /\ s1.ids = {}
        /\ s1.up = <<>> /\ s1.chain = <<>> /\ s1.owner = s.owner
    BY <1>1, <1>2, EmptyIs DEF SockRec
  <1>6. SockOK(s1)
    BY <1>4, <1>5, EmptyIs DEF SockOK
  <1>7. Follows(s, s2)
    <2>1. CASE s.client \in Live
      <3>1. s2 = s1
        BY <1>3, <1>5, <2>1 DEF Freed, Live
      <3>. QED
        BY <1>4, <1>5, <1>6, <2>1, <3>1 DEF Follows
    <2>2. CASE s.client \notin Live
      <3>1. s2 \in SockRec /\ SockOK(s2) /\ s2.client \notin Live
        BY <1>3, <1>5, <1>6, <2>2, FreedIs
      <3>. QED
        BY <2>2, <3>1 DEF Follows, Live
    <2>. QED
      BY <2>1, <2>2
  <1>8. /\ NetOK(Net') /\ WorkerOK(Net', Desired(view'[Worker]), Known(view'[Worker]))
        /\ sock'[c] = s2 /\ \A b \in Sockets : b # c => sock'[b] = sock[b]
    BY <1>0, <1>4, <1>7, OneSocketFollows
  <1>9. jobs \in [Docs -> Seq(Jobs)] /\ JobsOK(jobs, sock)
    BY DEF Inv, JobsOK
  <1>10. ASSUME NEW d \in Docs
         PROVE  /\ DOMAIN jobs'[d] = DOMAIN jobs[d] /\ jobs'[d] \in Seq(Jobs)
                /\ \A i \in DOMAIN jobs[d] :
                     jobs'[d][i].to = IF jobs[d][i].to = c THEN Nobody ELSE jobs[d][i].to
    <2>1. PICK q : q = jobs[d]
      OBVIOUS
    <2>2. q \in Seq(Jobs) /\ DOMAIN q = 1 .. Len(q) /\ Len(q) \in Nat
      BY <1>9, <2>1
    <2>3. PICK r : r = [i \in DOMAIN q |-> IF q[i].to = c THEN [q[i] EXCEPT !.to = Nobody] ELSE q[i]]
      OBVIOUS
    <2>4. ASSUME NEW i \in DOMAIN q
          PROVE  r[i] \in Jobs /\ r[i].to = IF q[i].to = c THEN Nobody ELSE q[i].to
      <3>1. q[i] \in Jobs
        BY <2>2
      <3>2. /\ [q[i] EXCEPT !.to = Nobody] \in Jobs
            /\ [q[i] EXCEPT !.to = Nobody].to = Nobody
        BY <3>1 DEF Jobs
      <3>. QED
        BY <2>3, <3>1, <3>2
    <2>5. r \in Seq(Jobs) /\ DOMAIN r = DOMAIN q
      <3>1. r \in [1 .. Len(q) -> Jobs]
        BY <2>2, <2>3, <2>4
      <3>. QED
        BY <2>2, <3>1
    <2>6. jobs'[d] = r
      BY <1>4, <2>1, <2>3
    <2>. QED
      BY <2>1, <2>4, <2>5, <2>6
  <1>11. JobsOK(jobs', sock')
    <2>1. jobs' \in [Docs -> Seq(Jobs)]
      BY <1>4, <1>10
    <2>2. FewerTurns(jobs, jobs', sock, sock')
      BY <1>8, <1>10, Sets DEF FewerTurns
    <2>. QED
      BY <1>9, <2>1, <2>2, JobsLess
  <1>12. Typed'
    BY <1>4 DEF Inv, Typed
  <1>. QED
    BY <1>8, <1>11, <1>12 DEF Inv

(* A socket that its client has left, and that only the hub still has.       *)
Left(s, s2) == /\ s2 \in SockRec /\ SockOK(s2) /\ s2.client \notin Live
               /\ s2.chain = s.chain

(* Some sockets are left; a client whose socket is left is without one.      *)
Parts(n, m) ==
  /\ m.client \in [Owners -> ClientRec]
  /\ m = [client |-> m.client, sock |-> m.sock]
  /\ m.sock = [c \in Sockets |-> m.sock[c]]
  /\ \A c \in Sockets : m.sock[c] = n.sock[c] \/ Left(n.sock[c], m.sock[c])
  /\ \A p \in Owners :
       \/ /\ m.client[p].sock = 0
          /\ n.client[p].sock # 0 => m.sock[n.client[p].sock].client \notin Live
       \/ /\ m.client[p].sock = n.client[p].sock /\ m.client[p].docs = n.client[p].docs
          /\ m.client[p].ids = n.client[p].ids
          /\ n.client[p].sock # 0 => m.sock[n.client[p].sock] = n.sock[n.client[p].sock]

LEMMA PartsMoves ==
    ASSUME NEW n, NetOK(n), NEW m, Parts(n, m)
    PROVE  Moved(n, m)
  <1>1. /\ n.client \in [Owners -> ClientRec] /\ n.sock \in [Sockets -> SockRec]
    BY NetParts, Sets
  <1>2. \A p \in Owners : n.client[p].sock # 0 =>
          n.client[p].sock \in Sockets /\ n.sock[n.client[p].sock].owner = p
          /\ n.sock[n.client[p].sock].client \in Live
    BY NetParts
  <1>3. \A c \in Sockets : n.sock[c].client \in Live => n.client[n.sock[c].owner].sock = c
    BY DEF NetOK, Linked
  <1>4. m \in NetRec
    <2>1. m.sock \in [Sockets -> SockRec]
      BY <1>1 DEF Parts, Left
    <2>. QED
      BY <2>1 DEF Parts, NetRec
  <1>5. ASSUME NEW c \in Sockets, m.sock[c].client \in Live
        PROVE  /\ m.sock[c] = n.sock[c] /\ n.sock[c].owner \in Owners
               /\ m.client[n.sock[c].owner].sock = c
               /\ m.client[n.sock[c].owner].docs = n.client[n.sock[c].owner].docs
               /\ m.client[n.sock[c].owner].ids = n.client[n.sock[c].owner].ids
    <2>1. m.sock[c] = n.sock[c]
      BY <1>5 DEF Parts, Left
    <2>2. PICK o : o = n.sock[c].owner
      OBVIOUS
    <2>3. o \in Owners /\ n.client[o].sock = c /\ c # 0
      BY <1>1, <1>3, <1>5, <2>1, <2>2, Sets DEF SockRec
    <2>4. /\ m.client[o].sock = c /\ m.client[o].docs = n.client[o].docs
          /\ m.client[o].ids = n.client[o].ids
      BY <1>5, <2>3 DEF Parts
    <2>. QED
      BY <2>1, <2>2, <2>3, <2>4
  <1>6. Linked(m)
    <2>1. ASSUME NEW o \in Owners, m.client[o].sock # 0
          PROVE  m.sock[m.client[o].sock].owner = o /\ m.sock[m.client[o].sock].client \in Live
      <3>1. m.client[o].sock = n.client[o].sock
            /\ m.sock[n.client[o].sock] = n.sock[n.client[o].sock]
        BY <2>1 DEF Parts
      <3>. QED
        BY <1>2, <2>1, <3>1
    <2>. QED
      BY <1>5, <2>1 DEF Linked
  <1>7. ASSUME NEW c \in Sockets
        PROVE  SockOK(m.sock[c]) /\ Told(m.client[m.sock[c].owner], m.sock[c])
    <2>0. SockOK(n.sock[c]) /\ Told(n.client[n.sock[c].owner], n.sock[c])
      BY DEF NetOK
    <2>1. SockOK(m.sock[c])
      BY <2>0 DEF Parts, Left
    <2>2. CASE m.sock[c].client = "open"
      <3>1. m.sock[c].client \in Live
        BY <2>2 DEF Live
      <3>2. PICK o, s : o = n.sock[c].owner /\ s = n.sock[c]
        OBVIOUS
      <3>3. /\ m.sock[c] = s /\ s.owner = o
            /\ m.client[o].docs = n.client[o].docs /\ m.client[o].ids = n.client[o].ids
        BY <1>5, <3>1, <3>2
      <3>4. Told(n.client[o], s)
        BY <2>0, <3>2
      <3>5. Told(m.client[o], s)
        BY <3>3, <3>4 DEF Told
      <3>. QED
        BY <2>1, <3>3, <3>5
    <2>3. CASE m.sock[c].client # "open"
      BY <2>1, <2>3 DEF Told
    <2>. QED
      BY <2>2, <2>3
  <1>8. NetOK(m)
    BY <1>4, <1>6, <1>7 DEF NetOK
  <1>9. SameChains(n, m)
    BY DEF Parts, Left, SameChains
  <1>10. ASSUME NEW E, NEW K, WorkerOK(n, E, K)
         PROVE  WorkerOK(m, E, K)
    <2>1. CASE IsOpen(m, Worker)
      <3>1. /\ m.client[Worker].sock = n.client[Worker].sock
            /\ m.client[Worker].docs = n.client[Worker].docs
            /\ m.sock[n.client[Worker].sock] = n.sock[n.client[Worker].sock]
            /\ n.client[Worker].sock # 0
        BY <2>1, Sets DEF Parts, IsOpen
      <3>2. IsOpen(n, Worker)
        BY <2>1, <3>1 DEF IsOpen
      <3>. QED
        BY <1>10, <3>1, <3>2 DEF WorkerOK
    <2>2. CASE ~IsOpen(m, Worker)
      BY <2>2 DEF WorkerOK
    <2>. QED
      BY <2>1, <2>2
  <1>. QED
    BY <1>8, <1>9, <1>10 DEF Moved

LEMMA DoneLeft ==
    ASSUME NEW s \in SockRec, SockOK(s)
    PROVE  Left(s, Freed([s EXCEPT !.client = "done"]))
  <1>1. PICK s1 : s1 = [s EXCEPT !.client = "done"]
    OBVIOUS
  <1>2. /\ s1 \in SockRec /\ s1.client = "done" /\ s1.chain = s.chain /\ s1.up = s.up
        /\ s1.docs = s.docs /\ s1.ids = s.ids /\ s1.server = s.server
    BY <1>1 DEF SockRec
  <1>3. SockOK(s1) /\ s1.client \notin Live
    BY <1>2 DEF SockOK, Live
  <1>. QED
    BY <1>1, <1>2, <1>3, FreedIs DEF Left

(* The client notices that a socket is gone.                                 *)
LEMMA ClientClosedKeeps ==
    ASSUME Inv, NEW c \in Sockets, ClientClosed(c)
    PROVE  Inv'
  <1>0. Typed /\ NetOK(Net)
    BY DEF Inv
  <1>1. PICK o : o = sock[c].owner
    OBVIOUS
  <1>2. PICK s2, k2 : /\ s2 = Freed([sock[c] EXCEPT !.client = "done"])
                      /\ k2 = [client[o] EXCEPT !.sock = IF client[o].sock = c THEN 0 ELSE @,
                                                !.retry = Wants(o)]
    OBVIOUS
  <1>3. /\ sock' = [sock EXCEPT ![c] = s2]
        /\ client' = [client EXCEPT ![o].sock = IF client[o].sock = c THEN 0 ELSE @, ![o].retry = Wants(o)]
        /\ UNCHANGED <<tab, port, view, up, activity, jobs>>
    BY <1>1, <1>2 DEF ClientClosed
  <1>4. /\ client \in [Owners -> ClientRec] /\ sock \in [Sockets -> SockRec]
        /\ sock[c] \in SockRec /\ SockOK(sock[c])
    BY <1>0, NetIs, NetParts, Sets, SockIs
  <1>5. o \in Owners /\ client[o] \in ClientRec
    BY <1>1, <1>4 DEF SockRec
  <1>6. Wants(o) \in BOOLEAN
    BY <1>5 DEF Wants, ClientRec
  <1>7. client' = [client EXCEPT ![o] = k2]
    BY <1>2, <1>3, <1>4, <1>5 DEF ClientRec
  <1>8. /\ k2 \in ClientRec /\ k2.docs = client[o].docs /\ k2.ids = client[o].ids
        /\ k2.sock = IF client[o].sock = c THEN 0 ELSE client[o].sock
    <2>1. PICK b, x : b = Wants(o) /\ x = IF client[o].sock = c THEN 0 ELSE client[o].sock
      OBVIOUS
    <2>2. x \in 0 .. MaxSockets
      BY <1>5, <2>1, Sets DEF ClientRec
    <2>3. k2 = [client[o] EXCEPT !.sock = x, !.retry = b]
      BY <1>2, <2>1
    <2>. QED
      BY <1>5, <1>6, <2>1, <2>2, <2>3 DEF ClientRec
  <1>9. PICK m : m = [client |-> client', sock |-> sock']
    OBVIOUS
  <1>10. /\ m.client = client' /\ m.sock = sock' /\ m = [client |-> m.client, sock |-> m.sock]
    BY <1>9
  <1>11. Left(sock[c], s2)
    BY <1>2, <1>4, DoneLeft
  <1>12. /\ m.client[o] = k2 /\ \A p \in Owners : p # o => m.client[p] = client[p]
         /\ m.sock[c] = s2 /\ \A b \in Sockets : b # c => m.sock[b] = sock[b]
         /\ m.client \in [Owners -> ClientRec] /\ m.sock = [b \in Sockets |-> m.sock[b]]
    <2>1. client' \in [Owners -> ClientRec] /\ client'[o] = k2
          /\ \A p \in Owners : p # o => client'[p] = client[p]
      BY <1>4, <1>5, <1>7, <1>8
    <2>2. s2 \in SockRec
      BY <1>11 DEF Left
    <2>3. sock' \in [Sockets -> SockRec] /\ sock'[c] = s2
          /\ \A b \in Sockets : b # c => sock'[b] = sock[b]
      BY <1>3, <1>4, <2>2
    <2>. QED
      BY <1>10, <2>1, <2>3
  <1>13. ASSUME NEW p \in Owners
         PROVE  \/ /\ m.client[p].sock = 0
                   /\ client[p].sock # 0 => m.sock[client[p].sock].client \notin Live
                \/ /\ m.client[p].sock = client[p].sock /\ m.client[p].docs = client[p].docs
                   /\ m.client[p].ids = client[p].ids
                   /\ client[p].sock # 0 => m.sock[client[p].sock] = sock[client[p].sock]
    <2>1. client[p].sock # 0 => client[p].sock \in Sockets /\ sock[client[p].sock].owner = p
      BY <1>0, NetIs, NetParts
    <2>2. CASE p = o /\ client[p].sock = c
      BY <1>8, <1>12, <1>11, <2>2 DEF Left
    <2>3. CASE client[p].sock # c
      BY <1>8, <1>12, <2>1, <2>3
    <2>4. p # o => client[p].sock # c
      BY <1>1, <2>1, Sets
    <2>. QED
      BY <2>2, <2>3, <2>4
  <1>14. Parts(Net, m)
    <2>1. \A b \in Sockets : m.sock[b] = sock[b] \/ Left(sock[b], m.sock[b])
      BY <1>12, <1>11
    <2>. QED
      BY <1>10, <1>12, <1>13, <2>1, NetIs DEF Parts
  <1>15. Moved(Net, m)
    BY <1>0, <1>14, PartsMoves
  <1>16. Becomes(m)
    BY <1>10 DEF Becomes
  <1>17. Typed'
    BY <1>0, <1>3 DEF Typed
  <1>. QED
    BY <1>3, <1>15, <1>16, <1>17, PageStep

(* A page disappears without a word.                                         *)
LEMMA ClosePageKeeps ==
    ASSUME Inv, NEW t \in Tabs, ClosePage(t)
    PROVE  Inv'
  <1>0. Typed /\ NetOK(Net) /\ tab[t] \in TabRec
    BY StateIs DEF Inv
  <1>1. /\ tab' = [tab EXCEPT ![t].mode = "gone", ![t].open = {}]
        /\ client' = [client EXCEPT ![t] = Idle]
        /\ sock' = [c \in Sockets |-> IF sock[c].owner = t
                                      THEN Freed([sock[c] EXCEPT !.client = "done"]) ELSE sock[c]]
        /\ UNCHANGED <<port, view, up, activity, jobs>>
    BY DEF ClosePage
  <1>2. Typed'
    <2>1. PICK k : k = [tab[t] EXCEPT !.mode = "gone", !.open = {}]
      OBVIOUS
    <2>2. k \in TabRec /\ tab' = [tab EXCEPT ![t] = k]
      BY <1>0, <1>1, <2>1 DEF TabRec, Typed
    <2>3. tab' \in [Tabs -> TabRec]
      BY <1>0, <2>2 DEF Typed
    <2>. QED
      BY <1>0, <1>1, <2>3 DEF Typed
  <1>3. client \in [Owners -> ClientRec] /\ t \in Owners
    BY <1>0, NetIs, NetParts, Sets
  <1>4. PICK m : m = [client |-> client', sock |-> sock']
    OBVIOUS
  <1>5. /\ m.client = client' /\ m.sock = sock' /\ m = [client |-> m.client, sock |-> m.sock]
    BY <1>4
  <1>6. /\ m.client \in [Owners -> ClientRec] /\ m.client[t].sock = 0
        /\ \A p \in Owners : p # t => m.client[p] = client[p]
    BY <1>1, <1>3, <1>5, EmptyRec DEF Idle
  <1>7. ASSUME NEW c \in Sockets
        PROVE  /\ sock[c].owner = t => Left(sock[c], m.sock[c])
               /\ sock[c].owner # t => m.sock[c] = sock[c]
    <2>1. sock[c] \in SockRec /\ SockOK(sock[c])
      BY SockIs
    <2>. QED
      BY <1>1, <1>5, <2>1, DoneLeft
  <1>8. ASSUME NEW p \in Owners
        PROVE  \/ /\ m.client[p].sock = 0
                  /\ client[p].sock # 0 => m.sock[client[p].sock].client \notin Live
               \/ /\ m.client[p].sock = client[p].sock /\ m.client[p].docs = client[p].docs
                  /\ m.client[p].ids = client[p].ids
                  /\ client[p].sock # 0 => m.sock[client[p].sock] = sock[client[p].sock]
    <2>1. client[p].sock # 0 => client[p].sock \in Sockets /\ sock[client[p].sock].owner = p
      BY <1>0, NetIs, NetParts
    <2>2. CASE p = t
      BY <1>6, <1>7, <2>1, <2>2 DEF Left
    <2>3. CASE p # t
      BY <1>6, <1>7, <2>1, <2>3
    <2>. QED
      BY <2>2, <2>3
  <1>9. Parts(Net, m)
    <2>1. \A b \in Sockets : m.sock[b] = sock[b] \/ Left(sock[b], m.sock[b])
      BY <1>7
    <2>2. m.sock = [c \in Sockets |-> m.sock[c]]
      BY <1>1, <1>5
    <2>. QED
      BY <1>5, <1>6, <1>8, <2>1, <2>2, NetIs DEF Parts
  <1>10. Moved(Net, m)
    BY <1>0, <1>9, PartsMoves
  <1>12. Becomes(m)
    BY <1>5 DEF Becomes
  <1>. QED
    BY <1>1, <1>2, <1>10, <1>12, PageStep

-----------------------------------------------------------------------------
(* A socket opens: nothing is known of it yet, and what the client wants is  *)
(* sent at once.                                                             *)

(* What the worker tells a new socket: all the pages it knows.               *)
LEMMA WorkerOpens ==
    ASSUME NEW n, NetOK(n), WorkerOK(n, {}, {}), NEW v \in [Tabs -> Views],
           NEW m, m = SyncDocs(Send(n, Worker, Frames("identify", Known(v))), Worker, Desired(v))
    PROVE  /\ NetOK(m) /\ SameChains(n, m)
           /\ WorkerOK(m, Desired(v), Known(v))
  <1>1. PICK K, fs, s : /\ K = Known(v) /\ fs = Frames("identify", K)
                        /\ s = Send(n, Worker, fs)
    OBVIOUS
  <1>2. K \in SUBSET Tabs /\ Desired(v) \in SUBSET Docs
    BY <1>1, ViewsAre
  <1>3. /\ fs \in Seq(IdKinds \X Tabs)
        /\ \A t \in K : Ends(fs, IdKinds, t, {"identify"})
    <2>1. IsFiniteSet(K)
      BY <1>2, FiniteSets
    <2>2. fs \in Seq({"identify"} \X K) /\ \A t \in K : Ends(fs, IdKinds, t, {"identify"})
      BY <1>1, <2>1, FramesIs
    <2>3. Seq({"identify"} \X K) \subseteq Seq(IdKinds \X Tabs)
      <3>1. {"identify"} \X K \subseteq IdKinds \X Tabs
        BY <1>2 DEF IdKinds
      <3>. QED
        BY <3>1
    <2>. QED
      BY <2>2, <2>3
  <1>4. Kept(n, s) /\ WorkerOK(s, {}, K)
    BY <1>1, <1>3, IdentifyKeeps
  <1>5. NetOK(s) /\ SameChains(n, s)
    BY <1>4 DEF Kept
  <1>6. NetOK(m) /\ SameChains(s, m) /\ WorkerOK(m, Desired(v), K)
    BY <1>1, <1>2, <1>4, <1>5, WorkerSyncs
  <1>. QED
    BY <1>1, <1>5, <1>6, ChainsOn

LEMMA SocketOpensKeeps ==
    ASSUME Inv, NEW c \in Sockets, SocketOpens(c)
    PROVE  Inv'
  <1>0. Typed /\ NetOK(Net) /\ WorkerOK(Net, Desired(view[Worker]), Known(view[Worker]))
    BY DEF Inv
  <1>p. PICK o : o = sock[c].owner
    OBVIOUS
  <1>q. PICK v : v = IF o = Worker THEN view[Worker] ELSE Own(o, view[o])
    OBVIOUS
  <1>r. PICK n : n = [Net EXCEPT !.sock[c].client = "open", !.sock[c].server = TRUE,
                                 !.client[o].docs = {}, !.client[o].ids = {}]
    OBVIOUS
  <1>s. PICK m : m = SyncDocs(IF o = Worker THEN Send(n, o, Frames("identify", Known(v)))
                                            ELSE SyncIds(n, o, Known(v)), o, Desired(v))
    OBVIOUS
  <1>1. /\ o = sock[c].owner
        /\ v = IF o = Worker THEN view[Worker] ELSE Own(o, view[o])
        /\ n = [Net EXCEPT !.sock[c].client = "open", !.sock[c].server = TRUE,
                           !.client[o].docs = {}, !.client[o].ids = {}]
        /\ m = SyncDocs(IF o = Worker THEN Send(n, o, Frames("identify", Known(v)))
                                      ELSE SyncIds(n, o, Known(v)), o, Desired(v))
    BY <1>p, <1>q, <1>r, <1>s
  <1>2. /\ sock[c].client = "opening"
        /\ Becomes(m)
        /\ UNCHANGED <<tab, port, view, up, activity, jobs>>
    BY <1>1 DEF SocketOpens
  <1>3. o \in Owners
    BY <1>1, SockIs DEF SockRec
  <1>4. view[o] \in [Tabs -> Views]
    BY <1>0, <1>3 DEF Typed
  <1>5. /\ NetOK(n) /\ SameChains(Net, n)
        /\ o # Worker => \A E, K : WorkerOK(Net, E, K) => WorkerOK(n, E, K)
        /\ o = Worker => WorkerOK(n, {}, {})
    <2>1. Net.sock[c].client = "opening" /\ Net.sock[c].owner = o
      BY <1>1, <1>2, NetIs
    <2>2. Opened(Net, c, n)
      BY <1>1, <2>1 DEF Opened
    <2>. QED
      BY <1>0, <2>1, <2>2, OpenedMoves
  <1>6. Typed'
    BY <1>0, <1>2 DEF Typed
  <1>7. CASE o = Worker
    <2>1. v = view[Worker] /\ v \in [Tabs -> Views]
      BY <1>1, <1>4, <1>7
    <2>2. m = SyncDocs(Send(n, Worker, Frames("identify", Known(v))), Worker, Desired(v))
      BY <1>1, <1>7
    <2>3. NetOK(m) /\ SameChains(n, m) /\ WorkerOK(m, Desired(v), Known(v))
      BY <1>5, <1>7, <2>1, <2>2, WorkerOpens
    <2>4. SameChains(Net, m)
      BY <1>5, <2>3, ChainsOn
    <2>5. view'[Worker] = v
      BY <1>2, <2>1
    <2>. QED
      BY <1>2, <1>6, <2>3, <2>4, <2>5, WorkerStep
  <1>8. CASE o # Worker
    <2>1. o \in Tabs
      BY <1>3, <1>8 DEF Owners
    <2>2. v \in [Tabs -> Views]
      <3>1. v = [view[o] EXCEPT ![o] = State(o)] /\ State(o) \in Views
        BY <1>0, <1>1, <1>8, <2>1, StateIs DEF Own
      <3>. QED
        BY <1>4, <2>1, <3>1, ViewsAre
    <2>3. m = SyncDocs(SyncIds(n, o, Known(v)), o, Desired(v))
      BY <1>1, <1>8
    <2>4. Moved(n, m)
      BY <1>5, <2>1, <2>2, <2>3, ViewsAre, LeaderSyncs
    <2>5. Moved(Net, n)
      BY <1>5, <1>8 DEF Moved
    <2>6. Moved(Net, m)
      BY <2>4, <2>5, MovedOn
    <2>. QED
      BY <1>2, <1>6, <2>6, PageStep
  <1>. QED
    BY <1>7, <1>8

-----------------------------------------------------------------------------
(* The theorems.                                                             *)

LEMMA InitHolds == Init => Inv
  <1> SUFFICES ASSUME Init
               PROVE  Inv
    OBVIOUS
  <1>1. client = [o \in Owners |-> Idle] /\ sock = [c \in Sockets |-> Free]
    BY DEF Init
  <1>2. Typed
    <2>1. <<>> \in Seq(Messages)
      BY EmptyIs
    <2>2. tab \in [Tabs -> TabRec]
      BY Sets DEF Init, TabRec, Counts
    <2>3. view \in [Owners -> [Tabs -> Views]]
      BY ViewsAre DEF Init
    <2>4. up \in [Tabs -> [Ports -> Seq(Messages)]]
      BY <2>1 DEF Init
    <2>5. port \in [Tabs -> 0 .. MaxPorts] /\ activity \in [Docs -> 1 .. MaxChanges + 1]
      BY Sets DEF Init
    <2>. QED
      BY <2>2, <2>3, <2>4, <2>5 DEF Typed
  <1>3. NetOK(Net)
    <2>1. Net \in NetRec
      BY <1>1, EmptyRec DEF Net, NetRec
    <2>2. Linked(Net)
      BY <1>1, NetIs DEF Linked, Idle, Free, Live
    <2>3. \A c \in Sockets : SockOK(sock[c]) /\ Told(client[sock[c].owner], sock[c])
      BY <1>1, EmptyRec DEF Told, Free
    <2>. QED
      BY <2>1, <2>2, <2>3, NetIs DEF NetOK
  <1>4. WorkerOK(Net, Desired(view[Worker]), Known(view[Worker]))
    BY <1>1, NetIs, Sets DEF WorkerOK, IsOpen, Idle
  <1>5. JobsOK(jobs, sock)
    <2>1. <<>> \in Seq(Jobs) /\ DOMAIN <<>> = {}
      BY EmptyIs
    <2>2. jobs = [d \in Docs |-> <<>>]
      BY DEF Init
    <2>3. jobs \in [Docs -> Seq(Jobs)]
      BY <2>1, <2>2
    <2>. QED
      BY <2>1, <2>2, <2>3 DEF JobsOK
  <1>. QED
    BY <1>2, <1>3, <1>4, <1>5 DEF Inv

LEMMA NextKeeps == Inv /\ [Next]_vars => Inv'
  <1> SUFFICES ASSUME Inv, [Next]_vars
               PROVE  Inv'
    OBVIOUS
  <1>1. CASE System
    <2>1. CASE \E t \in Tabs : \/ Heartbeat(t) \/ WorkerHears(t) \/ Sweep(t)
                               \/ Timeout(t) \/ Hear(t) \/ Tick(t)
      BY <2>1, HeartbeatKeeps, WorkerHearsKeeps, SweepKeeps, TimeoutKeeps, HearKeeps, TickKeeps
    <2>2. CASE \E o \in Owners : Redial(o)
      BY <2>2, RedialKeeps
    <2>3. CASE \E c \in Sockets : \/ SocketOpens(c) \/ Arrives(c) \/ ClientClosed(c)
                                  \/ HubHears(c) \/ HubOpens(c) \/ HubCloses(c) \/ HubClosed(c)
      BY <2>3, SocketOpensKeeps, ArrivesKeeps, ClientClosedKeeps, HubHearsKeeps, HubOpensKeeps,
         HubClosesKeeps, HubClosedKeeps
    <2>4. CASE \E d \in Docs : Build(d) \/ Deliver(d)
      BY <2>4, BuildKeeps, DeliverKeeps
    <2>. QED
      BY <1>1, <2>1, <2>2, <2>3, <2>4 DEF System
  <1>2. CASE World
    <2>1. CASE \E t \in Tabs : \/ Acquire(t) \/ OpenDocument(t) \/ CloseDocument(t) \/ Release(t)
                               \/ Sleep(t) \/ Wake(t) \/ ClosePage(t)
      BY <2>1, AcquireKeeps, OpenDocumentKeeps, CloseDocumentKeeps, ReleaseKeeps, SleepKeeps,
         WakeKeeps, ClosePageKeeps
    <2>2. CASE \E c \in Sockets : Drop(c)
      BY <2>2, DropKeeps
    <2>3. CASE \E d \in Docs : Change(d)
      BY <2>3, ChangeKeeps
    <2>. QED
      BY <1>2, <2>1, <2>2, <2>3 DEF World
  <1>3. CASE UNCHANGED vars
    <2>1. Typed' /\ UNCHANGED <<client, sock, jobs>> /\ view'[Worker] = view[Worker]
      BY <1>3 DEF vars, Inv, Typed
    <2>. QED
      BY <2>1, QuietStep
  <1>. QED
    BY <1>1, <1>2, <1>3 DEF Next

(* With nothing under way the hub has what it will have.                    *)
LEMMA SettledHub ==
    ASSUME NEW s, s.up = <<>>, s.chain = <<>>, NEW x
    PROVE  /\ WillShow(s, x) => x \in s.docs
           /\ WillHide(s, x) => x \notin s.docs
           /\ WillKnow(s, x) => x \in s.ids
           /\ WillForget(s, x) => x \notin s.ids
  BY EmptyIs DEF WillShow, WillHide, WillKnow, WillForget, Ends

LEMMA HubKnows == Inv => HubKnowsTabs
  <1> SUFFICES ASSUME Inv, NEW c \in Sockets,
                      sock[c].client = "open", sock[c].up = <<>>, sock[c].chain = <<>>
               PROVE  LET o == sock[c].owner
                      IN /\ sock[c].docs = client[o].docs
                         /\ o = Worker => sock[c].docs = Desired(view[o]) /\ Known(view[o]) \subseteq sock[c].ids
                         /\ o # Worker => sock[c].ids = client[o].ids
    BY DEF HubKnowsTabs
  <1>1. PICK s, o, k : s = sock[c] /\ o = s.owner /\ k = client[o]
    OBVIOUS
  <1>2. /\ s \in SockRec /\ o \in Owners /\ k \in ClientRec /\ k.sock = c
        /\ Told(k, s) /\ s.client = "open"
    <2>1. NetOK(Net) /\ s \in SockRec
      BY <1>1, SockIs DEF Inv
    <2>2. o \in Owners
      BY <1>1, <2>1 DEF SockRec
    <2>3. k \in ClientRec
      BY <1>1, <2>1, <2>2, NetIs, NetParts
    <2>4. k.sock = c /\ Told(k, s)
      BY <1>1, <2>1, NetIs DEF NetOK, Linked, Live
    <2>. QED
      BY <1>1, <2>1, <2>2, <2>3, <2>4
  <1>3. \A x : /\ WillShow(s, x) => x \in s.docs
               /\ WillHide(s, x) => x \notin s.docs
               /\ WillKnow(s, x) => x \in s.ids
               /\ WillForget(s, x) => x \notin s.ids
    BY <1>1, SettledHub
  <1>4. s.docs \subseteq Docs /\ k.docs \subseteq Docs /\ s.ids \subseteq Tabs /\ k.ids \subseteq Tabs
    BY <1>2 DEF SockRec, ClientRec
  <1>5. s.docs = k.docs
    <2>1. \A d \in Docs : d \in k.docs <=> d \in s.docs
      BY <1>2, <1>3 DEF Told
    <2>. QED
      BY <1>4, <2>1
  <1>6. CASE o = Worker
    <2>1. IsOpen(Net, Worker)
      BY <1>1, <1>2, <1>6, NetIs, Sets DEF IsOpen
    <2>2. /\ k.docs = Desired(view[Worker])
          /\ \A t \in Known(view[Worker]) : WillKnow(s, t)
      BY <1>1, <1>2, <1>6, <2>1, NetIs DEF Inv, WorkerOK
    <2>. QED
      BY <1>1, <1>3, <1>5, <1>6, <2>2
  <1>7. CASE o # Worker
    <2>1. \A t \in Tabs : t \in k.ids <=> t \in s.ids
      BY <1>1, <1>2, <1>3, <1>7 DEF Told
    <2>2. s.ids = k.ids
      BY <1>4, <2>1
    <2>. QED
      BY <1>1, <1>5, <1>7, <2>2
  <1>. QED
    BY <1>6, <1>7

LEMMA TypesAre == Inv => TypeOK
  <1> SUFFICES ASSUME Inv
               PROVE  TypeOK
    OBVIOUS
  <1>1. Typed /\ NetOK(Net) /\ JobsOK(jobs, sock)
    BY DEF Inv
  <1>2. /\ client \in [Owners -> ClientRec] /\ sock \in [Sockets -> SockRec]
    BY <1>1, NetIs, NetParts, Sets
  <1>3. \A o \in Owners : client[o].sock # 0 =>
          sock[client[o].sock].owner = o /\ sock[client[o].sock].client \in {"opening", "open", "broken"}
    BY <1>1, NetIs, NetParts DEF Live
  <1>4. ASSUME NEW c \in Sockets
        PROVE  /\ sock[c].up \in Seq(FrameSet) /\ sock[c].chain \in Seq(FrameSet)
               /\ sock[c].docs \subseteq Docs /\ sock[c].ids \subseteq Tabs
    <2>1. /\ sock[c].up \in Seq(UpFrames) /\ sock[c].chain \in Seq(ChainFrames)
          /\ sock[c].docs \subseteq Docs /\ sock[c].ids \subseteq Tabs
      BY <1>2 DEF SockRec
    <2>2. UpFrames \subseteq FrameSet /\ ChainFrames \subseteq FrameSet
      BY DEF UpFrames, ChainFrames, FrameSet, IdKinds, DocKinds
    <2>3. Seq(UpFrames) \subseteq Seq(FrameSet) /\ Seq(ChainFrames) \subseteq Seq(FrameSet)
      BY <2>2
    <2>. QED
      BY <2>1, <2>3
  <1>5. ASSUME NEW d \in Docs, NEW i \in DOMAIN jobs[d], jobs[d][i].to \in Sockets
        PROVE  Head(sock[jobs[d][i].to].chain) = <<"opened", d>>
    <2>1. PICK q : q = sock[jobs[d][i].to].chain
      OBVIOUS
    <2>2. q # <<>> /\ q[1] = <<"opened", d>>
      BY <1>1, <1>5, <2>1 DEF JobsOK
    <2>3. q \in Seq(ChainFrames)
      BY <1>2, <1>5, <2>1 DEF SockRec
    <2>4. Head(q) = q[1]
      BY <2>2, <2>3, TailIs
    <2>. QED
      BY <2>1, <2>2, <2>4
  <1>6. ASSUME NEW t \in Tabs, NEW g \in Ports, NEW i \in DOMAIN up[t][g]
        PROVE  up[t][g][i].t \in {"register", "unregister"} \/ up[t][g][i].s \in Views
    <2>1. up[t][g] \in Seq(Messages)
      BY <1>1 DEF Typed
    <2>2. up[t][g][i] \in Messages
      BY <2>1
    <2>. QED
      BY <2>2 DEF Messages
  <1>7. client \in [Owners -> [leads : BOOLEAN, sock : 0 .. MaxSockets, retry : BOOLEAN,
                               docs : SUBSET Docs, ids : SUBSET Tabs]]
    BY <1>2 DEF ClientRec
  <1>8. /\ tab \in [Tabs -> [mode : {"off", "worker", "fallback", "gone"}, acked : BOOLEAN,
                             awake : BOOLEAN, open : SUBSET Docs, known : BOOLEAN, gen : 0 .. MaxPorts,
                             seen : [Docs -> 0 .. MaxChanges + 1]]]
        /\ port \in [Tabs -> 0 .. MaxPorts] /\ view \in [Owners -> [Tabs -> Views]]
        /\ activity \in [Docs -> 1 .. MaxChanges + 1]
    BY <1>1 DEF Typed, TabRec, Counts
  <1>. QED
    BY <1>3, <1>4, <1>5, <1>6, <1>7, <1>8 DEF TypeOK

LEMMA InvAlways == Spec => []Inv
  BY InitHolds, NextKeeps, PTL DEF Spec

(* Every variable keeps its type, a client's socket is its own, and a hub's  *)
(* snapshot job is for a socket whose chain waits for it: whatever pages     *)
(* come, sleep and go, and whatever sockets the network closes.              *)
THEOREM SocketTypes == Spec => []TypeOK
  BY InvAlways, TypesAre, PTL

(* Once the frames of an open socket have been handled, the hub has the      *)
(* documents and the page identities that the client behind it has, although *)
(* only differences are sent: ws-shared-worker.ts syncSocketState and the    *)
(* leader's syncLeaderSessionState, over any number of pages and sockets.    *)
THEOREM HubComesToKnow == Spec => []HubKnowsTabs
  BY InvAlways, HubKnows, PTL
=============================================================================
