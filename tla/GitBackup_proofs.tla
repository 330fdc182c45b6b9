--------------------------- MODULE GitBackup_proofs ---------------------------
(***************************************************************************)
(* Proofs about GitBackup for any number of servers, admin requests,       *)
(* commits, writes and faults, and whatever the environment may do (Env),  *)
(* but for ReadyTreeIsHead, which a checkout that fails in the middle of a *)
(* restore would refute.                                                   *)
(*                                                                         *)
(* The properties speak of the two refs of the remote and of trees; what   *)
(* makes them true is the pair of mutexes.  QueueOK says that the index    *)
(* queue of a server holds at most the publish and the first request of    *)
(* the lockdown chain, RequestOK that a request past its fetch is at the   *)
(* head of that queue, so that between its steps nobody else moves a ref   *)
(* of its server; BackupOK and RestoreOK say what its next step finds.     *)
(***************************************************************************)
EXTENDS GitBackup, FiniteSetTheorems, TLAPS

-----------------------------------------------------------------------------
(* The mutexes.                                                            *)

(* The steps of the work under the lockdown, and those that hold the index. *)
Working == {"fetch", "build", "push", "readback", "head", "content", "auth"}
Deep == Working \ {"fetch"}

(* The index queue of a server: the publish, and the head of the chain.    *)
QueueOK(r) ==
  /\ r.lockdown = <<>> => r.index = <<>> \/ r.index = <<Absorb>>
  /\ r.lockdown # <<>> => LET h == r.lockdown[1]
                          IN  \/ r.index = <<h>> \/ r.index = <<Absorb, h>> \/ r.index = <<h, Absorb>>
  /\ (\E k \in DOMAIN r.index : r.index[k] = Absorb) => r.committing

(* The lockdown chain of server i: requests at work there, each once.      *)
ChainOK(i) ==
  /\ \A k \in DOMAIN srv[i].lockdown :
       LET o == srv[i].lockdown[k] IN op[o].at = i /\ op[o].pc \in Working
  /\ \A j, k \in DOMAIN srv[i].lockdown : srv[i].lockdown[j] = srv[i].lockdown[k] => j = k

(* Of a process that is gone nothing is left.                              *)
GoneOK(r) == ~r.up => /\ ~r.ready /\ r.lockdown = <<>> /\ r.index = <<>>
                      /\ r.inFlight = {} /\ r.last = <<>>

(* A request runs on a server that is up, its steps are those of its kind,
   and past its fetch it holds the index.                                  *)
RequestOK(o) ==
  /\ op[o].pc \notin {"unused", "done"} => srv[op[o].at].up
  /\ op[o].pc \in {"build", "push", "readback"} => op[o].kind = "backup"
  /\ op[o].pc \in {"head", "content", "auth"} => op[o].kind = "restore"
  /\ op[o].pc \in Deep => Indexed(op[o].at, o)

(* The gate is open outside of lockdowns only.                             *)
GateOK(r) == r.ready => r.up /\ r.lockdown = <<>>

(* Each write that passed the gate makes one proposal at most, and a publish
   needs a proposal.                                                       *)
QuotaOK(r) ==
  /\ r.active + (IF "propose" \in r.inFlight THEN 1 ELSE 0) <= nWrites
  /\ r.committing => r.active > 0

(* A publish that has yet to make its commit.                              *)
Unspent(i) ==
  /\ srv[i].committing
  /\ IF srv[i].up THEN ~(Indexed(i, Absorb) /\ srv[i].content # srv[i].head)
     ELSE srv[i].content = srv[i].head
CommitsOK == nCommits + Cardinality({i \in Servers : Unspent(i)}) <= MaxCommits + Cardinality(Servers)

(* All of that of a server.                                                *)
ServerOK(i) ==
  /\ QueueOK(srv[i]) /\ ChainOK(i) /\ GoneOK(srv[i]) /\ GateOK(srv[i]) /\ QuotaOK(srv[i])

-----------------------------------------------------------------------------
(* The refs.                                                               *)

(* What a backup has prepared is of one moment, and builds on the tip it
   fetched; what it has pushed is on the remote.                           *)
BackupOK(o) ==
  LET k == op[o]
      r == srv[k.at] IN
  /\ k.pc = "build" => r.parent = k.tip
  /\ k.pc = "push" => IsPrefix(k.tip, r.authRef)
  /\ k.pc \in {"push", "readback"} => r.authRef # <<>> /\ Last(r.authRef).head = r.head
  /\ k.pc = "readback" => IsPrefix(r.head, remote.content) /\ IsPrefix(r.authRef, remote.auth)

(* A restore begins where there is a backup to restore.                    *)
RestoreOK(o) ==
  LET k == op[o] IN
  /\ k.pc = "fetch" /\ k.kind = "restore" => remote.auth # <<>>
  /\ k.pc \in {"head", "content", "auth"} => k.got.auth # <<>>

(* What a server has recorded is on the remote.                            *)
RecordOK(i) == srv[i].last # <<>> => /\ IsPrefix(srv[i].last[1].content, remote.content)
                                     /\ IsPrefix(srv[i].last[1].auth, remote.auth)

(* The tree of a server is its HEAD's, but in the middle of a publish or of
   a restore, and a restore fills the tree from the HEAD it has set.       *)
TreeOK(i) ==
  srv[i].up => \/ srv[i].content = srv[i].head
               \/ Indexed(i, Absorb)
               \/ \E o \in Ops : op[o].at = i /\ op[o].pc = "content"
HeadOK(o) == op[o].pc \in {"content", "auth"} => srv[op[o].at].head = op[o].got.content

(* All that is asked of a request.                                         *)
LocalOK(o) == RequestOK(o) /\ BackupOK(o) /\ RestoreOK(o) /\ HeadOK(o)

(* The inductive invariant.                                                *)
Ready ==
  /\ Typed /\ CommitsOK
  /\ \A i \in Servers : ServerOK(i) /\ RecordOK(i)
  /\ \A o \in Ops : LocalOK(o)
  /\ BackupIsOneMoment
  /\ "checkout_fails" \notin Env => \A i \in Servers : TreeOK(i)

-----------------------------------------------------------------------------
(* Histories.                                                              *)

(* A prefix has the same elements as far as it goes.                       *)
LEMMA PrefixIs ==
    ASSUME NEW S, NEW s \in Seq(S), NEW t \in Seq(S)
    PROVE  IsPrefix(s, t) <=> Len(s) <= Len(t) /\ \A k \in 1 .. Len(s) : s[k] = t[k]
  BY DEF IsPrefix

(* Prefixes of prefixes are prefixes.                                      *)
LEMMA PrefixTransitive ==
    ASSUME NEW S, NEW s \in Seq(S), NEW t \in Seq(S), NEW u \in Seq(S),
           IsPrefix(s, t), IsPrefix(t, u)
    PROVE  IsPrefix(s, u)
  BY PrefixIs

(* A history is a prefix of itself and of what continues it.               *)
LEMMA PrefixGrows ==
    ASSUME NEW S, NEW s \in Seq(S), NEW x \in S
    PROVE  IsPrefix(s, s) /\ IsPrefix(s, Append(s, x))
  <1> DEFINE t == Append(s, x)
  <1>1. t \in Seq(S) /\ Len(t) = Len(s) + 1 /\ \A k \in 1 .. Len(s) : t[k] = s[k]
    OBVIOUS
  <1>2. IsPrefix(s, s)
    BY PrefixIs
  <1>3. IsPrefix(s, t)
    <2> HIDE DEF t
    <2>. QED
      BY <1>1, PrefixIs
  <1>. QED
    BY <1>2, <1>3

-----------------------------------------------------------------------------
(* The step of one server.                                                 *)

(* The fields of a server.                                                 *)
LEMMA ServerTyped ==
    ASSUME Ready, NEW i \in Servers
    PROVE  LET r == srv[i] IN
           /\ r \in Server
           /\ r.head \in Seq(Nat) /\ r.content \in Seq(Nat) /\ r.auth \in 0 .. MaxWrites
           /\ r.authRef \in Snapshots /\ r.parent \in Snapshots
           /\ r.active \in 0 .. MaxWrites /\ r.committing \in BOOLEAN
           /\ r.up \in BOOLEAN /\ r.ready \in BOOLEAN
           /\ r.lockdown \in Seq(Ops) /\ r.index \in Seq(Ops \cup {Absorb})
           /\ r.inFlight \subseteq {"propose", "auth"} /\ r.last \in Seq(Refs)
  <1>1. srv[i] \in Server
    BY DEF Ready, Typed
  <1>. QED
    BY <1>1 DEF Server

(* The fields of a request.                                                *)
LEMMA RequestTyped ==
    ASSUME Ready, NEW o \in Ops
    PROVE  LET k == op[o] IN
           /\ k \in Request /\ k.at \in Servers /\ k.pc \in Steps
           /\ k.tip \in Snapshots /\ k.got \in Refs
           /\ k.got.content \in Seq(Nat) /\ k.got.auth \in Snapshots
  <1>1. op[o] \in Request
    BY DEF Ready, Typed
  <1>2. op[o].got \in Refs
    BY <1>1 DEF Request
  <1>. QED
    BY <1>1, <1>2 DEF Request, Refs

(* The counters and the remote.                                            *)
LEMMA OthersTyped ==
    ASSUME Ready
    PROVE  /\ remote \in Refs /\ remote.content \in Seq(Nat) /\ remote.auth \in Snapshots
           /\ nWrites \in 1 .. MaxWrites /\ nFaults \in 0 .. MaxFaults /\ nCommits \in Nat \ {0}
           /\ MaxWrites \in Nat /\ MaxFaults \in Nat /\ MaxCommits \in Nat
           /\ Cardinality(Servers) \in Nat
  <1>1. MaxWrites \in Nat /\ MaxFaults \in Nat /\ MaxCommits \in Nat /\ Cardinality(Servers) \in Nat
    BY BackupAssumption, FS_CardinalityType
  <1>. QED
    BY <1>1 DEF Ready, Typed, Refs

(* Server i is d now, and the others are what they were.                   *)
Host(i, d) == srv' = [srv EXCEPT ![i] = d]

(* The remote only gets longer.                                            *)
RemoteGrows == IsPrefix(remote.content, remote'.content) /\ IsPrefix(remote.auth, remote'.auth)

(* A step that does not push leaves the remote as long as it was.          *)
LEMMA RemoteStays ==
    ASSUME Ready, UNCHANGED remote PROVE RemoteGrows /\ remote' \in Refs
  BY PrefixIs DEF Ready, Typed, Refs, Snapshots, RemoteGrows

(* A step of one server and its requests keeps the invariant, if it keeps what
   is asked of them: to the other servers the remote only got longer.      *)
LEMMA HostStep ==
    ASSUME Ready, NEW i \in Servers, NEW d \in Server, Host(i, d), op' \in [Ops -> Request],
           remote' \in Refs, RemoteGrows, nWrites' \in 1 .. MaxWrites, nWrites <= nWrites',
           nFaults' \in 0 .. MaxFaults, nCommits' \in Nat \ {0},
           \A o \in Ops : \/ op'[o] = op[o] /\ op[o].at # i
                          \/ LocalOK(o)',
           \A o \in Ops : op[o].pc \in Working /\ op[o].at # i => op'[o] = op[o],
           ServerOK(i)', RecordOK(i)', BackupIsOneMoment', CommitsOK',
           "checkout_fails" \notin Env => TreeOK(i)'
    PROVE  Ready'
  <1>1. /\ srv'[i] = d /\ srv' \in [Servers -> Server]
        /\ \A j \in Servers \ {i} : srv'[j] = srv[j]
    BY DEF Ready, Typed, Host
  <1>2. Typed'
    <2>1. Cardinality({j \in Servers : Unspent(j)}') \in Nat
      BY FS_Subset, FS_CardinalityType, BackupAssumption
    <2>2. Cardinality(Servers) \in Nat
      BY FS_CardinalityType, BackupAssumption
    <2>3. MaxCommits \in Nat
      BY BackupAssumption
    <2>4. nCommits' \in 1 .. MaxCommits + Cardinality(Servers)
      BY <2>1, <2>2, <2>3 DEF CommitsOK
    <2>. QED
      BY <1>1, <2>4 DEF Typed
  <1>3. ASSUME NEW j \in Servers PROVE (ServerOK(j) /\ RecordOK(j))'
    <2>1. CASE j = i
      BY <2>1
    <2>2. CASE j # i
      <3>1. srv'[j] = srv[j] /\ ServerOK(j) /\ RecordOK(j)
        BY <1>1, <2>2 DEF Ready
      <3>2. ChainOK(j)'
        <4>1. \A k \in DOMAIN srv[j].lockdown : srv[j].lockdown[k] \in Ops
          BY ServerTyped
        <4>. QED
          BY <2>2, <3>1, <4>1 DEF ServerOK, ChainOK
      <3>3. QuotaOK(srv[j])'
        BY <3>1, ServerTyped, OthersTyped DEF ServerOK, QuotaOK
      <3>4. ServerOK(j)'
        BY <3>1, <3>2, <3>3 DEF ServerOK, QueueOK, GoneOK, GateOK
      <3>5. RecordOK(j)'
        <4>1. CASE srv[j].last = <<>>
          BY <3>1, <4>1 DEF RecordOK
        <4>2. CASE srv[j].last # <<>>
          <5>1. srv[j].last[1] \in Refs /\ remote \in Refs
            BY <4>2, ServerTyped, OthersTyped
          <5>. QED
            BY <3>1, <4>2, <5>1, PrefixTransitive DEF RecordOK, RemoteGrows, Refs, Snapshots
        <4>. QED
          BY <4>1, <4>2
      <3>. QED
        BY <3>4, <3>5
    <2>. QED
      BY <2>1, <2>2
  <1>4. ASSUME NEW o \in Ops PROVE LocalOK(o)'
    <2>1. SUFFICES ASSUME op'[o] = op[o], op[o].at # i PROVE LocalOK(o)'
      OBVIOUS
    <2>2. LocalOK(o) /\ op[o].at \in Servers /\ srv'[op[o].at] = srv[op[o].at] /\ op[o] \in Request
      BY <1>1, <2>1 DEF Ready, Typed, Request
    <2>3. BackupOK(o)'
      <3>1. remote \in Refs /\ srv[op[o].at] \in Server
        BY <2>2 DEF Ready, Typed
      <3>2. op[o].pc = "readback" => /\ IsPrefix(srv[op[o].at].head, remote'.content)
                                     /\ IsPrefix(srv[op[o].at].authRef, remote'.auth)
        <4> DEFINE r == srv[op[o].at]
        <4>1. /\ r.head \in Seq(Nat) /\ remote.content \in Seq(Nat) /\ remote'.content \in Seq(Nat)
              /\ r.authRef \in Snapshots /\ remote.auth \in Snapshots /\ remote'.auth \in Snapshots
          BY <2>2, ServerTyped, OthersTyped DEF Refs
        <4>2. op[o].pc = "readback" => IsPrefix(r.head, remote.content) /\ IsPrefix(r.authRef, remote.auth)
          BY <2>2 DEF LocalOK, BackupOK
        <4> HIDE DEF r
        <4>3. op[o].pc = "readback" => IsPrefix(r.head, remote'.content)
          BY <4>1, <4>2, PrefixTransitive DEF RemoteGrows
        <4>4. op[o].pc = "readback" => IsPrefix(r.authRef, remote'.auth)
          BY <4>1, <4>2, PrefixTransitive DEF RemoteGrows, Snapshots
        <4>. QED
          BY <4>3, <4>4 DEF r
      <3>. QED
        BY <2>1, <2>2, <3>2 DEF LocalOK, BackupOK
    <2>4. RestoreOK(o)'
      <3>1. remote.auth # <<>> => remote'.auth # <<>>
        BY PrefixIs DEF RemoteGrows, Ready, Typed, Refs, Snapshots
      <3>. QED
        BY <2>1, <2>2, <3>1 DEF LocalOK, RestoreOK
    <2>. QED
      BY <2>1, <2>2, <2>3, <2>4 DEF LocalOK, RequestOK, HeadOK, Indexed
  <1>5. ASSUME "checkout_fails" \notin Env, NEW j \in Servers PROVE TreeOK(j)'
    <2>1. CASE j = i
      BY <1>5, <2>1
    <2>2. CASE j # i
      BY <1>1, <1>5, <2>2 DEF Ready, TreeOK, Indexed, Working
    <2>. QED
      BY <2>1, <2>2
  <1>. QED
    BY <1>2, <1>3, <1>4, <1>5 DEF Ready

(* Queues of one and of two.                                               *)
LEMMA ShortQueues ==
    ASSUME NEW a \in Int, NEW b \in Int
    PROVE  /\ Tail(<<a>>) = <<>> /\ Tail(<<a, b>>) = <<b>>
           /\ Append(<<>>, a) = <<a>> /\ Append(<<a>>, b) = <<a, b>>
  <1>1. Tail(<<a>>) = <<>>
    OBVIOUS
  <1>2. Tail(<<a, b>>) = <<b>>
    OBVIOUS
  <1>3. Append(<<>>, a) = <<a>>
    OBVIOUS
  <1>4. Append(<<a>>, b) = <<a, b>>
    <2> DEFINE q == Append(<<a>>, b)
    <2>1. q \in Seq(Int) /\ Len(q) = 2 /\ q[1] = a /\ q[2] = b
      OBVIOUS
    <2> HIDE DEF q
    <2>2. q = <<a, b>>
      BY <2>1
    <2>. QED
      BY <2>2 DEF q
  <1>. QED
    BY <1>1, <1>2, <1>3, <1>4

(* Who holds the index of a server holds it alone.                         *)
LEMMA Alone ==
    ASSUME Ready, NEW o \in Ops, op[o].pc \in Deep, NEW who, Indexed(op[o].at, who)
    PROVE  o = who
  BY DEF Ready, LocalOK, RequestOK, Indexed

(* A request that is not under the index has nothing to lose.              *)
LEMMA Bystander ==
    ASSUME Ready, NEW o \in Ops, op'[o] = op[o], op[o].pc \notin Deep, RemoteGrows, remote' \in Refs,
           op[o].pc \notin {"unused", "done"} => srv'[op[o].at].up
    PROVE  LocalOK(o)'
  <1>1. LocalOK(o)
    BY DEF Ready
  <1>2. remote.auth # <<>> => remote'.auth # <<>>
    BY OthersTyped, PrefixIs DEF RemoteGrows, Refs, Snapshots
  <1>. QED
    BY <1>1, <1>2 DEF LocalOK, RequestOK, BackupOK, RestoreOK, HeadOK, Deep, Working

(* Nor has one whose server keeps its refs and whose place is kept.        *)
LEMMA Undisturbed ==
    ASSUME Ready, NEW o \in Ops, op'[o] = op[o], UNCHANGED remote, NEW i, i = op[o].at,
           srv'[i].up = srv[i].up, srv'[i].head = srv[i].head, srv'[i].authRef = srv[i].authRef,
           srv'[i].parent = srv[i].parent, Indexed(i, o) => Indexed(i, o)'
    PROVE  LocalOK(o)'
  <1>1. LocalOK(o)
    BY DEF Ready
  <1>2. RequestOK(o)'
    BY <1>1 DEF LocalOK, RequestOK
  <1>3. BackupOK(o)'
    BY <1>1 DEF LocalOK, BackupOK
  <1>4. RestoreOK(o)' /\ HeadOK(o)'
    BY <1>1 DEF LocalOK, RestoreOK, HeadOK
  <1>. QED
    BY <1>2, <1>3, <1>4 DEF LocalOK

(* A step after which no publish is unspent that was not before.           *)
LEMMA NoneSpent ==
    ASSUME Ready, NEW i \in Servers, NEW d, Host(i, d), UNCHANGED nCommits,
           Unspent(i)' => Unspent(i)
    PROVE  CommitsOK'
  <1>1. \A j \in Servers \ {i} : Unspent(j)' <=> Unspent(j)
    BY DEF Host, Ready, Typed, Unspent, Indexed
  <1>2. {j \in Servers : Unspent(j)}' \subseteq {j \in Servers : Unspent(j)}
    BY <1>1
  <1>3. IsFiniteSet({j \in Servers : Unspent(j)})
    BY FS_Subset, BackupAssumption
  <1>4. Cardinality({j \in Servers : Unspent(j)}') <= Cardinality({j \in Servers : Unspent(j)})
    BY <1>2, <1>3, FS_Subset
  <1>5. /\ Cardinality({j \in Servers : Unspent(j)}') \in Nat
        /\ Cardinality({j \in Servers : Unspent(j)}) \in Nat
    BY <1>2, <1>3, FS_Subset, FS_CardinalityType
  <1>. QED
    BY <1>4, <1>5, OthersTyped DEF CommitsOK, Ready

(* A step that spends one.                                                 *)
LEMMA OneSpent ==
    ASSUME Ready, NEW i \in Servers, NEW d, Host(i, d), nCommits' = nCommits + 1,
           Unspent(i), ~Unspent(i)'
    PROVE  CommitsOK'
  <1> DEFINE U == {j \in Servers : Unspent(j)}
  <1>1. \A j \in Servers \ {i} : Unspent(j)' <=> Unspent(j)
    BY DEF Host, Ready, Typed, Unspent, Indexed
  <1>2. U' = U \ {i} /\ i \in U
    BY <1>1
  <1>3. IsFiniteSet(U)
    BY FS_Subset, BackupAssumption
  <1>4. Cardinality(U') = Cardinality(U) - 1 /\ Cardinality(U) \in Nat
    BY <1>2, <1>3, FS_RemoveElement, FS_CardinalityType
  <1>5. nCommits + Cardinality(U) <= MaxCommits + Cardinality(Servers)
    BY DEF CommitsOK, Ready
  <1>6. nCommits' + Cardinality(U') <= MaxCommits + Cardinality(Servers)
    <2> HIDE DEF U
    <2>. QED
      BY <1>4, <1>5, OthersTyped
  <1>. QED
    BY <1>6 DEF CommitsOK

(* A step that begins a publish, while the bound allows one.               *)
LEMMA MoreToSpend ==
    ASSUME Ready, nCommits < MaxCommits, UNCHANGED nCommits PROVE CommitsOK'
  <1>1. {j \in Servers : Unspent(j)}' \subseteq Servers
    OBVIOUS
  <1>2. Cardinality({j \in Servers : Unspent(j)}') <= Cardinality(Servers)
    BY <1>1, FS_Subset, BackupAssumption
  <1>3. Cardinality({j \in Servers : Unspent(j)}') \in Nat
    BY <1>1, FS_Subset, FS_CardinalityType, BackupAssumption
  <1>. QED
    BY <1>2, <1>3, OthersTyped DEF CommitsOK

(* The work of o settles: the index and the chain go on, the rest stays.   *)
LetsGo(o, r, d) ==
  /\ d.lockdown = Tail(r.lockdown) /\ d.ready = (d.lockdown = <<>>)
  /\ d.index = IF d.lockdown = <<>> THEN Tail(r.index) ELSE Append(Tail(r.index), Head(d.lockdown))
  /\ d.up = r.up /\ d.active = r.active /\ d.committing = r.committing /\ d.inFlight = r.inFlight

(* Then the next one of the chain queues behind a publish that waits, and o is
   in no queue any more.                                                   *)
LEMMA ReleaseStep ==
    ASSUME Ready, NEW o \in Ops, NEW i, i = op[o].at, op[o].pc \in Working, Indexed(i, o),
           NEW d, Host(i, d), LetsGo(o, srv[i], d), UNCHANGED nWrites,
           \A u \in Ops \ {o} : op'[u] = op[u]
    PROVE  ServerOK(i)' /\ d.index # <<o>> /\ (d.index # <<>> => Head(d.index) # o)
  <1>1. i \in Servers
    BY RequestTyped
  <1>2. srv'[i] = d
    BY <1>1 DEF Host, Ready, Typed
  <1>3. ServerOK(i)
    BY <1>1 DEF Ready
  <1>4. PICK l, q : l = srv[i].lockdown /\ q = srv[i].index
    OBVIOUS
  <1>5. l \in Seq(Ops) /\ q \in Seq(Ops \cup {Absorb})
    BY <1>1, <1>4, ServerTyped
  <1>6. o # Absorb /\ \A k \in DOMAIN l : l[k] \in Ops /\ l[k] # Absorb
    BY <1>5, BackupAssumption DEF Ops, Absorb
  <1>7. l # <<>> /\ l[1] = o /\ (q = <<o>> \/ q = <<o, Absorb>>)
    <2>1. q # <<>> /\ Head(q) = o /\ QueueOK(srv[i])
      BY <1>3, <1>4 DEF ServerOK, Indexed
    <2>2. q # <<Absorb>> /\ \A h : q # <<Absorb, h>>
      BY <1>6, <2>1
    <2>3. l # <<>>
      BY <1>4, <2>1, <2>2 DEF QueueOK
    <2>4. q = <<l[1]>> \/ q = <<l[1], Absorb>>
      BY <1>4, <2>1, <2>2, <2>3 DEF QueueOK
    <2>. QED
      BY <2>1, <2>3, <2>4
  <1>8. (Tail(q) = <<>> /\ q = <<o>>) \/ (Tail(q) = <<Absorb>> /\ q = <<o, Absorb>>)
    <2>1. CASE q = <<o>>
      BY <2>1, ShortQueues
    <2>2. CASE q = <<o, Absorb>>
      <3>2. Tail(q) = <<Absorb>>
        BY <1>5, <2>2, ShortQueues DEF Absorb
      <3>. QED
        BY <2>2, <3>2
    <2>. QED
      BY <1>7, <2>1, <2>2
  <1>9. PICK m, n : m = d.lockdown /\ n = d.index
    OBVIOUS
  <1>10. m = Tail(l) /\ n = IF m = <<>> THEN Tail(q) ELSE Append(Tail(q), Head(m))
    BY <1>4, <1>9 DEF LetsGo
  <1>11. \A j, k \in DOMAIN l : l[j] = l[k] => j = k
    BY <1>3, <1>4 DEF ServerOK, ChainOK
  <1>12. m \in Seq(Ops) /\ Len(m) = Len(l) - 1 /\ \A k \in DOMAIN m : k + 1 \in DOMAIN l /\ m[k] = l[k + 1]
    BY <1>5, <1>7, <1>10
  <1>13. \A k \in DOMAIN m : m[k] # o /\ m[k] # Absorb
    <2> SUFFICES ASSUME NEW k \in DOMAIN m PROVE m[k] # o /\ m[k] # Absorb
      OBVIOUS
    <2>1. k \in Nat /\ k + 1 # 1 /\ 1 \in DOMAIN l /\ k + 1 \in DOMAIN l
      BY <1>5, <1>7, <1>12
    <2>. QED
      BY <1>6, <1>7, <1>11, <1>12, <2>1
  <1>14. CASE m = <<>>
    <2>1. n = <<>> \/ (n = <<Absorb>> /\ q = <<o, Absorb>>)
      BY <1>8, <1>10, <1>14
    <2>2. (\E k \in DOMAIN n : n[k] = Absorb) => \E k \in DOMAIN q : q[k] = Absorb
      <3>1. CASE n = <<>>
        BY <3>1
      <3>2. CASE q = <<o, Absorb>>
        <4>1. 2 \in DOMAIN q /\ q[2] = Absorb
          BY <3>2
        <4>. QED
          BY <4>1
      <3>. QED
        BY <2>1, <3>1, <3>2
    <2>3. n # <<o>> /\ (n # <<>> => Head(n) # o)
      <3>1. Head(<<Absorb>>) = Absorb /\ <<Absorb>>[1] = Absorb /\ <<o>>[1] = o
        BY DEF Absorb
      <3>2. CASE n = <<>>
        BY <3>2
      <3>3. CASE n = <<Absorb>>
        BY <1>6, <3>1, <3>3
      <3>. QED
        BY <2>1, <3>2, <3>3
    <2>4. QueueOK(d)
      <3>1. d.lockdown = <<>> /\ d.index = n /\ d.committing = srv[i].committing
        BY <1>9, <1>14 DEF LetsGo
      <3>2. (\E k \in DOMAIN q : q[k] = Absorb) => srv[i].committing
        BY <1>3, <1>4 DEF ServerOK, QueueOK
      <3>3. n = <<>> \/ n = <<Absorb>>
        BY <2>1
      <3>. QED
        BY <2>2, <3>1, <3>2, <3>3 DEF QueueOK
    <2>5. ChainOK(i)'
      BY <1>2, <1>9, <1>14 DEF ChainOK
    <2>6. srv[i].up
      BY <1>3, <1>4, <1>7 DEF ServerOK, GoneOK
    <2>. QED
      BY <1>2, <1>3, <1>9, <1>14, <2>3, <2>4, <2>5, <2>6 DEF ServerOK, GoneOK, GateOK, QuotaOK, LetsGo
  <1>15. CASE m # <<>>
    <2>1. PICK h : h = m[1]
      OBVIOUS
    <2>2. h # o /\ h # Absorb /\ h = Head(m)
      BY <1>12, <1>13, <1>15, <2>1
    <2>3. n = <<h>> \/ (n = <<Absorb, h>> /\ q = <<o, Absorb>>)
      <3>1. n = Append(Tail(q), h)
        BY <1>10, <1>15, <2>2
      <3>2. Append(<<>>, h) = <<h>> /\ Append(<<Absorb>>, h) = <<Absorb, h>>
        <4>0. m[1] \in Ops
          BY <1>12, <1>15
        <4>1. h \in Int /\ Absorb \in Int
          BY <2>1, <4>0 DEF Absorb, Ops
        <4>. QED
          BY <4>1, ShortQueues
      <3>. QED
        BY <1>8, <3>1, <3>2
    <2>4. n # <<o>> /\ n # <<>> /\ Head(n) # o
      BY <1>6, <2>2, <2>3
    <2>5. (\E k \in DOMAIN n : n[k] = Absorb) => \E k \in DOMAIN q : q[k] = Absorb
      <3>1. CASE n = <<h>>
        BY <2>2, <3>1
      <3>2. CASE q = <<o, Absorb>>
        <4>1. 2 \in DOMAIN q /\ q[2] = Absorb
          BY <3>2
        <4>. QED
          BY <4>1
      <3>. QED
        BY <2>3, <3>1, <3>2
    <2>6. QueueOK(d)
      <3>1. d.lockdown = m /\ d.index = n /\ d.committing = srv[i].committing
        BY <1>9 DEF LetsGo
      <3>2. (\E k \in DOMAIN q : q[k] = Absorb) => srv[i].committing
        BY <1>3, <1>4 DEF ServerOK, QueueOK
      <3>3. d.lockdown # <<>> /\ d.lockdown[1] = h
        BY <1>15, <2>1, <3>1
      <3>4. d.index = <<h>> \/ d.index = <<Absorb, h>>
        BY <2>3, <3>1
      <3>5. (\E k \in DOMAIN d.index : d.index[k] = Absorb) => d.committing
        BY <2>5, <3>1, <3>2
      <3>. QED
        BY <3>3, <3>4, <3>5 DEF QueueOK
    <2>7. ChainOK(i)'
      <3>1. \A k \in DOMAIN m : m[k] \in Ops /\ op'[m[k]] = op[m[k]] /\ op[m[k]].at = i /\ op[m[k]].pc \in Working
        <4> SUFFICES ASSUME NEW k \in DOMAIN m
                     PROVE  /\ m[k] \in Ops /\ op'[m[k]] = op[m[k]] /\ op[m[k]].at = i
                            /\ op[m[k]].pc \in Working
          OBVIOUS
        <4>1. k + 1 \in DOMAIN l /\ m[k] = l[k + 1]
          BY <1>12
        <4>2. PICK j : j = k + 1
          OBVIOUS
        <4>3. l[j] \in Ops /\ l[j] # o
          BY <1>6, <1>13, <4>1, <4>2
        <4>4. op[l[j]].at = i /\ op[l[j]].pc \in Working
          BY <1>3, <1>4, <4>1, <4>2 DEF ServerOK, ChainOK
        <4>. QED
          BY <4>1, <4>2, <4>3, <4>4
      <3>2. \A j, k \in DOMAIN m : m[j] = m[k] => j = k
        <4> SUFFICES ASSUME NEW j \in DOMAIN m, NEW k \in DOMAIN m, m[j] = m[k] PROVE j = k
          OBVIOUS
        <4>1. j \in Nat /\ k \in Nat /\ j + 1 = k + 1
          BY <1>11, <1>12
        <4>. QED
          BY <4>1
      <3>. QED
        BY <1>2, <1>9, <3>1, <3>2 DEF ChainOK
    <2>8. srv[i].up /\ ~d.ready
      BY <1>3, <1>4, <1>7, <1>9, <1>15 DEF ServerOK, GoneOK, LetsGo
    <2>. QED
      BY <1>2, <1>3, <1>9, <2>4, <2>6, <2>7, <2>8 DEF ServerOK, GoneOK, GateOK, QuotaOK, LetsGo
  <1>. QED
    BY <1>14, <1>15

(* A server whose mutexes, gate and proposals stay.                        *)
SameWork(r, d) ==
  /\ d.lockdown = r.lockdown /\ d.index = r.index /\ d.up = r.up /\ d.ready = r.ready
  /\ d.active = r.active /\ d.committing = r.committing /\ d.inFlight = r.inFlight

(* It stays well formed, if the requests at work on it go on.              *)
LEMMA SameWorkStep ==
    ASSUME Ready, NEW i \in Servers, NEW d, Host(i, d), SameWork(srv[i], d), UNCHANGED nWrites,
           d.last = srv[i].last,
           \A o \in Ops : op[o].at = i /\ op[o].pc \in Working => op'[o].at = i /\ op'[o].pc \in Working
    PROVE  ServerOK(i)'
  <1>1. srv'[i] = d /\ ServerOK(i)
    BY DEF Host, Ready, Typed
  <1>2. \A k \in DOMAIN srv[i].lockdown : srv[i].lockdown[k] \in Ops
    BY ServerTyped
  <1>3. ChainOK(i)'
    BY <1>1, <1>2 DEF ServerOK, ChainOK, SameWork
  <1>. QED
    BY <1>1, <1>3 DEF ServerOK, QueueOK, GoneOK, GateOK, QuotaOK, SameWork

(* And so does one where only what the writers do has changed.             *)
LEMMA WriterStep ==
    ASSUME Ready, NEW i \in Servers, NEW d, Host(i, d), UNCHANGED op,
           d.lockdown = srv[i].lockdown, d.up = srv[i].up, d.ready = srv[i].ready, d.last = srv[i].last,
           QueueOK(d), GoneOK(d), QuotaOK(srv[i])'
    PROVE  ServerOK(i)'
  <1>1. srv'[i] = d /\ ServerOK(i)
    BY DEF Host, Ready, Typed
  <1>2. ChainOK(i)'
    BY <1>1 DEF ServerOK, ChainOK
  <1>. QED
    BY <1>1, <1>2 DEF ServerOK, GateOK

(* What is recorded stays so while the remote only grows.                  *)
LEMMA RecordStays ==
    ASSUME Ready, NEW i \in Servers, NEW d, Host(i, d), d.last \in {srv[i].last, <<>>},
           RemoteGrows, remote' \in Refs
    PROVE  RecordOK(i)'
  <1>1. srv'[i] = d /\ RecordOK(i)
    BY DEF Host, Ready, Typed
  <1>2. CASE d.last = <<>>
    BY <1>1, <1>2 DEF RecordOK
  <1>3. CASE d.last = srv[i].last /\ d.last # <<>>
    <2>1. d.last[1] \in Refs /\ remote \in Refs
      BY <1>3, ServerTyped, OthersTyped
    <2>. QED
      BY <1>1, <1>3, <2>1, PrefixTransitive DEF RecordOK, RemoteGrows, Refs, Snapshots
  <1>. QED
    BY <1>2, <1>3

-----------------------------------------------------------------------------
(* The writers.                                                            *)

(* A request that passes the gate has not written anything yet.            *)
LEMMA ArrivesReady ==
    ASSUME Ready, NEW i \in Servers, NEW kind \in {"propose", "auth"}, RequestArrives(i, kind)
    PROVE  Ready'
  <1>1. PICK d : d = [srv[i] EXCEPT !.inFlight = @ \cup {kind}]
    OBVIOUS
  <1>2. Host(i, d) /\ nWrites' = nWrites + 1 /\ UNCHANGED <<op, remote, nCommits, nFaults>>
    BY <1>1 DEF RequestArrives, Host
  <1>3. /\ d \in Server /\ d.inFlight = srv[i].inFlight \cup {kind}
        /\ d.head = srv[i].head /\ d.content = srv[i].content /\ d.authRef = srv[i].authRef
        /\ d.parent = srv[i].parent /\ d.last = srv[i].last
        /\ d.lockdown = srv[i].lockdown /\ d.index = srv[i].index /\ d.up = srv[i].up /\ d.ready = srv[i].ready
        /\ d.active = srv[i].active /\ d.committing = srv[i].committing
    BY <1>1, ServerTyped DEF Server
  <1>4. srv'[i] = d
    BY <1>2 DEF Host, Ready, Typed
  <1>5. ServerOK(i)'
    <2>1. ServerOK(i) /\ srv[i].up
      BY DEF Ready, RequestArrives
    <2>2. QuotaOK(srv[i])'
      <3>1. /\ srv[i].active <= nWrites /\ (srv[i].committing => srv[i].active > 0)
            /\ srv[i].active \in Int /\ nWrites \in Int
        BY <2>1, ServerTyped, OthersTyped DEF ServerOK, QuotaOK
      <3>2. d.active + (IF "propose" \in d.inFlight THEN 1 ELSE 0) <= nWrites'
        BY <1>2, <1>3, <3>1
      <3>. QED
        BY <1>3, <1>4, <3>1, <3>2, Zenon DEF QuotaOK
    <2>3. QueueOK(d) /\ GoneOK(d)
      BY <1>3, <2>1 DEF ServerOK, QueueOK, GoneOK
    <2>. QED
      BY <1>2, <1>3, <2>2, <2>3, WriterStep
  <1>6. CommitsOK'
    BY <1>2, <1>3, <1>4, NoneSpent DEF Unspent, Indexed
  <1>7. \A o \in Ops : (op'[o] = op[o] /\ op[o].at # i) \/ LocalOK(o)'
    BY <1>2, <1>3, <1>4, Undisturbed DEF Indexed
  <1>8. ASSUME "checkout_fails" \notin Env PROVE TreeOK(i)'
    <2>1. TreeOK(i)
      BY <1>8 DEF Ready
    <2>. QED
      BY <1>2, <1>3, <1>4, <2>1 DEF TreeOK, Indexed
  <1>9. RemoteGrows /\ remote' \in Refs /\ RecordOK(i)' /\ BackupIsOneMoment'
    BY <1>2, <1>3, RemoteStays, RecordStays DEF Ready, BackupIsOneMoment
  <1>10. nWrites' \in 1 .. MaxWrites /\ nWrites <= nWrites' /\ nFaults' \in 0 .. MaxFaults /\ nCommits' \in Nat \ {0}
    BY <1>2, OthersTyped DEF RequestArrives
  <1>11. op' \in [Ops -> Request] /\ \A o \in Ops : op'[o] = op[o]
    BY <1>2 DEF Ready, Typed
  <1>. QED
    BY <1>2, <1>3, <1>5, <1>6, <1>7, <1>8, <1>9, <1>10, <1>11, HostStep

(* While one holds the index of a server, its other requests have nothing
   to lose there.                                                          *)
LEMMA NobodyElse ==
    ASSUME Ready, NEW i \in Servers, NEW d, Host(i, d), d.up = srv[i].up, NEW who, Indexed(i, who),
           RemoteGrows, remote' \in Refs, NEW o \in Ops, o # who, op[o].at = i, op'[o] = op[o]
    PROVE  LocalOK(o)'
  <1>1. srv'[i] = d
    BY DEF Host, Ready, Typed
  <1>2. LocalOK(o)
    BY DEF Ready
  <1>3. op[o].pc \notin Deep
    BY Alone
  <1>4. op[o].pc \notin {"unused", "done"} => srv'[op[o].at].up
    BY <1>1, <1>2 DEF LocalOK, RequestOK
  <1>. QED
    BY <1>3, <1>4, Bystander

(* Somebody who queues does not take the head of the queue.                *)
LEMMA QueuesBehind ==
    ASSUME NEW S, NEW q \in Seq(S), q # <<>>, NEW x \in S
    PROVE  Append(q, x) # <<>> /\ Head(Append(q, x)) = Head(q)
  OBVIOUS

(* A proposal is one of the writes that passed the gate.                   *)
LEMMA ProposeReady ==
    ASSUME Ready, NEW i \in Servers, Propose(i) PROVE Ready'
  <1>1. PICK d : d = [srv[i] EXCEPT !.inFlight = @ \ {"propose"}, !.active = @ + 1]
    OBVIOUS
  <1>2. Host(i, d) /\ UNCHANGED <<op, remote, nCommits, nWrites, nFaults>>
    BY <1>1 DEF Propose, Host
  <1>3. ServerOK(i) /\ "propose" \in srv[i].inFlight
    BY DEF Ready, Propose
  <1>4. srv[i].active + 1 <= nWrites /\ srv[i].active + 1 \in 0 .. MaxWrites
    BY <1>3, ServerTyped, OthersTyped DEF ServerOK, QuotaOK
  <1>5. /\ d \in Server /\ d.inFlight = srv[i].inFlight \ {"propose"} /\ d.active = srv[i].active + 1
        /\ d.head = srv[i].head /\ d.content = srv[i].content /\ d.authRef = srv[i].authRef
        /\ d.parent = srv[i].parent /\ d.last = srv[i].last
        /\ d.lockdown = srv[i].lockdown /\ d.index = srv[i].index /\ d.up = srv[i].up /\ d.ready = srv[i].ready
        /\ d.committing = srv[i].committing
    BY <1>1, <1>4, ServerTyped DEF Server
  <1>6. srv'[i] = d
    BY <1>2 DEF Host, Ready, Typed
  <1>7. ServerOK(i)'
    <2>1. QuotaOK(srv[i])'
      <3>1. srv[i].active \in Nat /\ nWrites' = nWrites
        BY <1>2, ServerTyped
      <3>2. "propose" \notin d.inFlight /\ d.active <= nWrites' /\ d.active > 0
        BY <1>4, <1>5, <3>1
      <3>3. d.active + 0 = d.active
        BY <1>5, <3>1
      <3>. QED
        BY <1>6, <3>2, <3>3 DEF QuotaOK
    <2>2. QueueOK(d) /\ GoneOK(d)
      BY <1>3, <1>5 DEF ServerOK, QueueOK, GoneOK
    <2>. QED
      BY <1>2, <1>5, <2>1, <2>2, WriterStep
  <1>8. CommitsOK'
    BY <1>2, <1>5, <1>6, NoneSpent DEF Unspent, Indexed
  <1>9. \A o \in Ops : (op'[o] = op[o] /\ op[o].at # i) \/ LocalOK(o)'
    BY <1>2, <1>5, <1>6, Undisturbed DEF Indexed
  <1>10. "checkout_fails" \notin Env => TreeOK(i)'
    BY <1>2, <1>5, <1>6 DEF Ready, TreeOK, Indexed
  <1>11. RemoteGrows /\ remote' \in Refs /\ RecordOK(i)' /\ BackupIsOneMoment'
    BY <1>2, <1>5, RemoteStays, RecordStays DEF Ready, BackupIsOneMoment
  <1>12. nWrites' \in 1 .. MaxWrites /\ nWrites <= nWrites' /\ nFaults' \in 0 .. MaxFaults /\ nCommits' \in Nat \ {0}
    BY <1>2, OthersTyped
  <1>13. op' \in [Ops -> Request] /\ \A o \in Ops : op'[o] = op[o]
    BY <1>2 DEF Ready, Typed
  <1>. QED
    BY <1>2, <1>5, <1>7, <1>8, <1>9, <1>10, <1>11, <1>12, <1>13, HostStep

(* A write under auth/ touches no ref, and no snapshot that is made.       *)
LEMMA WriteAuthReady ==
    ASSUME Ready, NEW i \in Servers, WriteAuth(i) PROVE Ready'
  <1>1. PICK d : d = [srv[i] EXCEPT !.inFlight = @ \ {"auth"}, !.auth = nWrites]
    OBVIOUS
  <1>2. Host(i, d) /\ UNCHANGED <<op, remote, nCommits, nWrites, nFaults>>
    BY <1>1 DEF WriteAuth, Host
  <1>3. ServerOK(i) /\ "auth" \in srv[i].inFlight /\ nWrites \in 0 .. MaxWrites
    BY OthersTyped DEF Ready, WriteAuth
  <1>4. /\ d \in Server /\ d.inFlight = srv[i].inFlight \ {"auth"} /\ d.active = srv[i].active
        /\ d.head = srv[i].head /\ d.content = srv[i].content /\ d.authRef = srv[i].authRef
        /\ d.parent = srv[i].parent /\ d.last = srv[i].last
        /\ d.lockdown = srv[i].lockdown /\ d.index = srv[i].index /\ d.up = srv[i].up /\ d.ready = srv[i].ready
        /\ d.committing = srv[i].committing
    BY <1>1, <1>3, ServerTyped DEF Server
  <1>5. srv'[i] = d
    BY <1>2 DEF Host, Ready, Typed
  <1>6. ServerOK(i)'
    <2>1. QuotaOK(srv[i])'
      BY <1>2, <1>3, <1>4, <1>5, ServerTyped, OthersTyped DEF QuotaOK, ServerOK
    <2>2. QueueOK(d) /\ GoneOK(d)
      BY <1>3, <1>4 DEF ServerOK, QueueOK, GoneOK
    <2>. QED
      BY <1>2, <1>4, <2>1, <2>2, WriterStep
  <1>7. CommitsOK'
    BY <1>2, <1>4, <1>5, NoneSpent DEF Unspent, Indexed
  <1>8. \A o \in Ops : (op'[o] = op[o] /\ op[o].at # i) \/ LocalOK(o)'
    BY <1>2, <1>4, <1>5, Undisturbed DEF Indexed
  <1>9. "checkout_fails" \notin Env => TreeOK(i)'
    BY <1>2, <1>4, <1>5 DEF Ready, TreeOK, Indexed
  <1>10. RemoteGrows /\ remote' \in Refs /\ RecordOK(i)' /\ BackupIsOneMoment'
    BY <1>2, <1>4, RemoteStays, RecordStays DEF Ready, BackupIsOneMoment
  <1>11. nWrites' \in 1 .. MaxWrites /\ nWrites <= nWrites' /\ nFaults' \in 0 .. MaxFaults /\ nCommits' \in Nat \ {0}
    BY <1>2, OthersTyped
  <1>12. op' \in [Ops -> Request] /\ \A o \in Ops : op'[o] = op[o]
    BY <1>2 DEF Ready, Typed
  <1>. QED
    BY <1>2, <1>4, <1>6, <1>7, <1>8, <1>9, <1>10, <1>11, <1>12, HostStep

(* A publish queues behind the lockdown that holds the index, if one does. *)
LEMMA PublishBeginsReady ==
    ASSUME Ready, NEW i \in Servers, PublishBegins(i) PROVE Ready'
  <1>1. PICK d : d = [srv[i] EXCEPT !.committing = TRUE, !.index = Append(@, Absorb)]
    OBVIOUS
  <1>2. Host(i, d) /\ UNCHANGED <<op, remote, nCommits, nWrites, nFaults>> /\ nCommits < MaxCommits
    BY <1>1 DEF PublishBegins, Host
  <1>3. ServerOK(i) /\ srv[i].up /\ srv[i].active > 0 /\ ~srv[i].committing
    BY DEF Ready, PublishBegins
  <1>4. Append(srv[i].index, Absorb) \in Seq(Ops \cup {Absorb})
    BY ServerTyped
  <1>5. /\ d \in Server /\ d.committing = TRUE /\ d.index = Append(srv[i].index, Absorb)
        /\ d.inFlight = srv[i].inFlight /\ d.active = srv[i].active
        /\ d.head = srv[i].head /\ d.content = srv[i].content /\ d.authRef = srv[i].authRef
        /\ d.parent = srv[i].parent /\ d.last = srv[i].last
        /\ d.lockdown = srv[i].lockdown /\ d.up = srv[i].up /\ d.ready = srv[i].ready
    BY <1>1, <1>4, ServerTyped DEF Server
  <1>6. srv'[i] = d
    BY <1>2 DEF Host, Ready, Typed
  <1>7. \A who : Indexed(i, who) => Indexed(i, who)'
    <2>1. srv[i].index \in Seq(Ops \cup {Absorb}) /\ Absorb \in Ops \cup {Absorb}
      BY ServerTyped
    <2>2. srv[i].index # <<>> => d.index # <<>> /\ Head(d.index) = Head(srv[i].index)
      BY <1>5, <2>1, QueuesBehind
    <2>. QED
      BY <1>6, <2>2 DEF Indexed
  <1>8. ServerOK(i)'
    <2>1. QuotaOK(srv[i])'
      BY <1>2, <1>3, <1>5, <1>6 DEF QuotaOK, ServerOK
    <2>2. PICK l, q : l = srv[i].lockdown /\ q = srv[i].index
      OBVIOUS
    <2>3. (l = <<>> /\ q = <<>>) \/ (l # <<>> /\ q = <<l[1]>>)
      <3>1. q \in Seq(Ops \cup {Absorb}) /\ ~ \E k \in DOMAIN q : q[k] = Absorb
        BY <1>3, <2>2, ServerTyped DEF ServerOK, QueueOK
      <3>2. q # <<Absorb>> /\ \A h : q # <<Absorb, h>> /\ q # <<h, Absorb>>
        <4>1. \A h : <<Absorb>>[1] = Absorb /\ <<Absorb, h>>[1] = Absorb /\ <<h, Absorb>>[2] = Absorb
          OBVIOUS
        <4>2. \A h : 1 \in DOMAIN <<Absorb>> /\ 1 \in DOMAIN <<Absorb, h>> /\ 2 \in DOMAIN <<h, Absorb>>
          OBVIOUS
        <4>. QED
          BY <3>1, <4>1, <4>2
      <3>. QED
        BY <1>3, <2>2, <3>2 DEF ServerOK, QueueOK
    <2>4. CASE l = <<>>
      <3>1. d.index = <<Absorb>>
        <4>1. Absorb \in Int
          BY DEF Absorb
        <4>2. Append(<<>>, Absorb) = <<Absorb>>
          BY <4>1, ShortQueues
        <4>. QED
          BY <1>5, <2>2, <2>3, <2>4, <4>2
      <3>. QED
        BY <1>2, <1>3, <1>5, <2>1, <2>2, <2>4, <3>1, WriterStep DEF QueueOK, GoneOK
    <2>5. CASE l # <<>>
      <3>1. l[1] \in Int
        <4>1. l \in Seq(Ops)
          BY <2>2, ServerTyped
        <4>2. l[1] \in Ops
          BY <2>5, <4>1
        <4>. QED
          BY <4>2 DEF Ops
      <3>2. d.index = <<l[1], Absorb>>
        <4>1. Absorb \in Int
          BY DEF Absorb
        <4>2. Append(<<l[1]>>, Absorb) = <<l[1], Absorb>>
          BY <3>1, <4>1, ShortQueues
        <4>. QED
          BY <1>5, <2>2, <2>3, <2>5, <4>2
      <3>. QED
        BY <1>2, <1>3, <1>5, <2>1, <2>2, <2>5, <3>2, WriterStep DEF QueueOK, GoneOK
    <2>. QED
      BY <2>4, <2>5
  <1>9. CommitsOK'
    BY <1>2, MoreToSpend
  <1>10. \A o \in Ops : (op'[o] = op[o] /\ op[o].at # i) \/ LocalOK(o)'
    BY <1>2, <1>5, <1>6, <1>7, Undisturbed
  <1>11. "checkout_fails" \notin Env => TreeOK(i)'
    BY <1>2, <1>5, <1>6, <1>7 DEF Ready, TreeOK
  <1>12. RemoteGrows /\ remote' \in Refs /\ RecordOK(i)' /\ BackupIsOneMoment'
    BY <1>2, <1>5, RemoteStays, RecordStays DEF Ready, BackupIsOneMoment
  <1>13. nWrites' \in 1 .. MaxWrites /\ nWrites <= nWrites' /\ nFaults' \in 0 .. MaxFaults /\ nCommits' \in Nat \ {0}
    BY <1>2, OthersTyped
  <1>14. op' \in [Ops -> Request] /\ \A o \in Ops : op'[o] = op[o]
    BY <1>2 DEF Ready, Typed
  <1>. QED
    BY <1>2, <1>5, <1>8, <1>9, <1>10, <1>11, <1>12, <1>13, <1>14, HostStep

(* The publish writes the tree, and holds the index while it differs.      *)
LEMMA AbsorbWritesReady ==
    ASSUME Ready, NEW i \in Servers, AbsorbWrites(i) PROVE Ready'
  <1>1. PICK d : d = [srv[i] EXCEPT !.content = Append(srv[i].head, nCommits + 1)]
    OBVIOUS
  <1>2. Host(i, d) /\ nCommits' = nCommits + 1 /\ UNCHANGED <<op, remote, nWrites, nFaults>>
    BY <1>1 DEF AbsorbWrites, Host
  <1>3. ServerOK(i) /\ Indexed(i, Absorb) /\ srv[i].content = srv[i].head
    BY DEF Ready, AbsorbWrites
  <1>4. Append(srv[i].head, nCommits + 1) \in Seq(Nat) /\ Append(srv[i].head, nCommits + 1) # srv[i].head
    <2>1. srv[i].head \in Seq(Nat) /\ nCommits + 1 \in Nat
      BY ServerTyped, OthersTyped
    <2>2. Len(Append(srv[i].head, nCommits + 1)) # Len(srv[i].head)
      BY <2>1
    <2>. QED
      BY <2>1, <2>2
  <1>5. /\ d \in Server /\ d.content # srv[i].head
        /\ d.inFlight = srv[i].inFlight /\ d.active = srv[i].active
        /\ d.head = srv[i].head /\ d.authRef = srv[i].authRef
        /\ d.parent = srv[i].parent /\ d.last = srv[i].last
        /\ d.lockdown = srv[i].lockdown /\ d.index = srv[i].index /\ d.up = srv[i].up /\ d.ready = srv[i].ready
        /\ d.committing = srv[i].committing
    BY <1>1, <1>4, ServerTyped DEF Server
  <1>6. srv'[i] = d /\ Indexed(i, Absorb)'
    BY <1>2, <1>3, <1>5 DEF Host, Ready, Typed, Indexed
  <1>7. ServerOK(i)'
    <2>1. QuotaOK(srv[i])'
      BY <1>2, <1>3, <1>5, <1>6 DEF QuotaOK, ServerOK
    <2>2. QueueOK(d) /\ GoneOK(d)
      BY <1>3, <1>5 DEF ServerOK, QueueOK, GoneOK
    <2>. QED
      BY <1>2, <1>5, <2>1, <2>2, WriterStep
  <1>8. CommitsOK'
    <2>1. srv[i].committing /\ srv[i].up
      <3>1. srv[i].index \in Seq(Ops \cup {Absorb}) /\ srv[i].index # <<>> /\ srv[i].index[1] = Absorb
        BY <1>3, ServerTyped DEF Indexed
      <3>2. 1 \in DOMAIN srv[i].index
        BY <3>1
      <3>. QED
        BY <1>3, <3>1, <3>2 DEF ServerOK, QueueOK, GoneOK
    <2>. QED
      BY <1>2, <1>3, <1>5, <1>6, <2>1, OneSpent DEF Unspent
  <1>9. RemoteGrows /\ remote' \in Refs /\ RecordOK(i)' /\ BackupIsOneMoment'
    BY <1>2, <1>5, RemoteStays, RecordStays DEF Ready, BackupIsOneMoment
  <1>10. \A o \in Ops : (op'[o] = op[o] /\ op[o].at # i) \/ LocalOK(o)'
    BY <1>2, <1>5, <1>6, Undisturbed DEF Indexed
  <1>11. "checkout_fails" \notin Env => TreeOK(i)'
    BY <1>6 DEF TreeOK
  <1>12. nWrites' \in 1 .. MaxWrites /\ nWrites <= nWrites' /\ nFaults' \in 0 .. MaxFaults /\ nCommits' \in Nat \ {0}
    BY <1>2, OthersTyped
  <1>13. op' \in [Ops -> Request] /\ \A o \in Ops : op'[o] = op[o]
    BY <1>2 DEF Ready, Typed
  <1>. QED
    BY <1>2, <1>5, <1>7, <1>8, <1>9, <1>10, <1>11, <1>12, <1>13, HostStep

(* The publish commits what it has written, and gives the index to the next.*)
LEMMA AbsorbCommitsReady ==
    ASSUME Ready, NEW i \in Servers, AbsorbCommits(i) PROVE Ready'
  <1>1. PICK d : d = [srv[i] EXCEPT !.head = srv[i].content, !.active = @ - 1,
                                    !.committing = FALSE, !.index = Tail(@)]
    OBVIOUS
  <1>2. Host(i, d) /\ UNCHANGED <<op, remote, nCommits, nWrites, nFaults>>
    BY <1>1 DEF AbsorbCommits, Host
  <1>3. ServerOK(i) /\ Indexed(i, Absorb)
    BY DEF Ready, AbsorbCommits
  <1>4. PICK l, q : l = srv[i].lockdown /\ q = srv[i].index
    OBVIOUS
  <1>5. /\ l \in Seq(Ops) /\ q \in Seq(Ops \cup {Absorb}) /\ q # <<>> /\ q[1] = Absorb /\ 1 \in DOMAIN q
        /\ Absorb \in Int
    BY <1>3, <1>4, ServerTyped DEF Indexed, Absorb
  <1>6. srv[i].committing /\ srv[i].active > 0 /\ srv[i].up
    BY <1>3, <1>4, <1>5 DEF ServerOK, QueueOK, QuotaOK, GoneOK
  <1>7. \/ l = <<>> /\ Tail(q) = <<>>
        \/ l # <<>> /\ Tail(q) = <<l[1]>> /\ l[1] # Absorb
    <2>1. CASE l = <<>>
      <3>1. q = <<Absorb>>
        BY <1>3, <1>4, <1>5, <2>1 DEF ServerOK, QueueOK
      <3>. QED
        BY <1>5, <2>1, <3>1, ShortQueues
    <2>2. CASE l # <<>>
      <3>1. l[1] \in Ops
        BY <1>5, <2>2
      <3>2. l[1] \in Int /\ l[1] # Absorb
        BY <3>1, BackupAssumption DEF Ops, Absorb
      <3>3. q = <<Absorb, l[1]>>
        BY <1>3, <1>4, <1>5, <2>2, <3>2 DEF ServerOK, QueueOK
      <3>. QED
        BY <1>5, <2>2, <3>2, <3>3, ShortQueues
    <2>. QED
      BY <2>1, <2>2
  <1>8. Tail(q) \in Seq(Ops \cup {Absorb}) /\ srv[i].active - 1 \in 0 .. MaxWrites
    <2>1. Tail(q) \in Seq(Ops \cup {Absorb})
      BY <1>5
    <2>2. srv[i].active - 1 \in 0 .. MaxWrites
      <3>1. PICK a : a = srv[i].active
        OBVIOUS
      <3>2. a \in 1 .. MaxWrites /\ MaxWrites \in Nat
        BY <1>6, <3>1, ServerTyped, BackupAssumption
      <3>3. a - 1 \in 0 .. MaxWrites
        BY <3>2
      <3>. QED
        BY <3>1, <3>3
    <2>. QED
      BY <2>1, <2>2
  <1>9. /\ d \in Server /\ d.content = srv[i].content /\ d.head = srv[i].content
        /\ d.inFlight = srv[i].inFlight /\ d.active = srv[i].active - 1 /\ ~d.committing
        /\ d.authRef = srv[i].authRef
        /\ d.parent = srv[i].parent /\ d.last = srv[i].last
        /\ d.lockdown = srv[i].lockdown /\ d.index = Tail(q) /\ d.up = srv[i].up /\ d.ready = srv[i].ready
    BY <1>1, <1>4, <1>8, ServerTyped DEF Server
  <1>10. srv'[i] = d
    BY <1>2 DEF Host, Ready, Typed
  <1>11. ServerOK(i)'
    <2>1. QuotaOK(srv[i])'
      <3>1. /\ srv[i].active + (IF "propose" \in srv[i].inFlight THEN 1 ELSE 0) <= nWrites
            /\ srv[i].active \in Int /\ nWrites \in Int
        BY <1>3, ServerTyped, OthersTyped DEF ServerOK, QuotaOK
      <3>2. d.active + (IF "propose" \in d.inFlight THEN 1 ELSE 0) <= nWrites'
        BY <1>2, <1>9, <3>1
      <3>. QED
        BY <1>9, <1>10, <3>2, Zenon DEF QuotaOK
    <2>2. ~ \E k \in DOMAIN Tail(q) : Tail(q)[k] = Absorb
      <3>1. CASE Tail(q) = <<>>
        BY <3>1
      <3>2. CASE Tail(q) = <<l[1]>> /\ l[1] # Absorb
        <4>1. PICK t, x : t = Tail(q) /\ x = l[1]
          OBVIOUS
        <4>2. t = <<x>> /\ x # Absorb
          BY <3>2, <4>1
        <4>3. \A k \in DOMAIN t : t[k] = x
          BY <4>2
        <4>. QED
          BY <4>1, <4>2, <4>3
      <3>. QED
        BY <1>7, <3>1, <3>2
    <2>3. QueueOK(d) /\ GoneOK(d)
      BY <1>3, <1>4, <1>6, <1>7, <1>9, <2>2 DEF ServerOK, QueueOK, GoneOK
    <2>. QED
      BY <1>2, <1>9, <2>1, <2>3, WriterStep
  <1>12. CommitsOK'
    BY <1>2, <1>9, <1>10, NoneSpent DEF Unspent
  <1>13. RemoteGrows /\ remote' \in Refs /\ RecordOK(i)' /\ BackupIsOneMoment'
    BY <1>2, <1>9, RemoteStays, RecordStays DEF Ready, BackupIsOneMoment
  <1>14. op' \in [Ops -> Request] /\ \A o \in Ops : op'[o] = op[o]
    BY <1>2 DEF Ready, Typed
  <1>15. \A o \in Ops : (op'[o] = op[o] /\ op[o].at # i) \/ LocalOK(o)'
    <2>1. \A o \in Ops : o # Absorb
      BY BackupAssumption DEF Ops, Absorb
    <2>. QED
      BY <1>2, <1>3, <1>9, <1>13, <1>14, <2>1, NobodyElse
  <1>16. "checkout_fails" \notin Env => TreeOK(i)'
    BY <1>9, <1>10 DEF TreeOK
  <1>17. nWrites' \in 1 .. MaxWrites /\ nWrites <= nWrites' /\ nFaults' \in 0 .. MaxFaults /\ nCommits' \in Nat \ {0}
    BY <1>2, OthersTyped
  <1>. QED
    BY <1>2, <1>9, <1>11, <1>12, <1>13, <1>14, <1>15, <1>16, <1>17, HostStep

-----------------------------------------------------------------------------
(* The work under the lockdown.                                            *)

(* Who holds the index is not the publish.                                 *)
LEMMA NotAbsorb ==
    ASSUME Ready, NEW o \in Ops, NEW i, Indexed(i, o) PROVE o # Absorb /\ ~Indexed(i, Absorb)
  <1>1. o # Absorb
    BY BackupAssumption DEF Ops, Absorb
  <1>. QED
    BY <1>1 DEF Indexed

(* A request whose work settles, well or badly, leaves what it promised.   *)
LEMMA SettlesReady ==
    ASSUME Ready, NEW o \in Ops, NEW i, i = op[o].at, op[o].pc \in Working, Indexed(i, o),
           NEW d \in Server, Host(i, d), LetsGo(o, srv[i], d),
           d.head = srv[i].head, d.content = srv[i].content,
           Goes(o, "done"), remote' \in Refs, RemoteGrows, UNCHANGED <<nCommits, nWrites>>,
           nFaults' \in 0 .. MaxFaults, RecordOK(i)', BackupIsOneMoment',
           "checkout_fails" \notin Env => op[o].pc # "content"
    PROVE  Ready'
  <1>1. i \in Servers /\ srv'[i] = d
    BY RequestTyped DEF Host, Ready, Typed
  <1>2. op'[o] = [op[o] EXCEPT !.pc = "done"] /\ \A u \in Ops \ {o} : op'[u] = op[u]
    BY DEF Goes, Ready, Typed
  <1>3. op'[o] \in Request /\ op'[o].pc = "done" /\ op'[o].at = i
    BY <1>2, RequestTyped DEF Request, Steps
  <1>4. op' \in [Ops -> Request]
    BY <1>2, <1>3 DEF Goes, Ready, Typed
  <1>5. ServerOK(i)'
    BY <1>2, ReleaseStep
  <1>6. CommitsOK'
    <2>1. Unspent(i)' => Unspent(i)
      <3>1. srv[i].up
        BY DEF Ready, LocalOK, RequestOK, Working
      <3>. QED
        BY <1>1, <3>1, NotAbsorb DEF Unspent, LetsGo
    <2>. QED
      BY <1>1, <2>1, NoneSpent
  <1>7. ASSUME NEW u \in Ops PROVE (op'[u] = op[u] /\ op[u].at # i) \/ LocalOK(u)'
    <2>1. CASE u = o
      BY <1>3, <2>1 DEF LocalOK, RequestOK, BackupOK, RestoreOK, HeadOK, Deep, Working
    <2>2. CASE u # o /\ op[u].at = i
      <3>1. op'[u] = op[u] /\ d.up = srv[i].up
        BY <1>2, <2>2 DEF LetsGo
      <3>. QED
        BY <1>1, <2>2, <3>1, NobodyElse
    <2>. QED
      BY <1>2, <2>1, <2>2
  <1>8. "checkout_fails" \notin Env => TreeOK(i)'
    <2> SUFFICES ASSUME "checkout_fails" \notin Env, srv[i].up PROVE srv[i].content = srv[i].head
      BY <1>1 DEF TreeOK, LetsGo
    <2>1. TreeOK(i) /\ ~Indexed(i, Absorb)
      BY <1>1, NotAbsorb DEF Ready
    <2>2. ASSUME NEW u \in Ops, op[u].at = i, op[u].pc = "content" PROVE FALSE
      <3>1. u = o
        BY <2>2, Alone DEF Deep, Working
      <3>. QED
        BY <2>2, <3>1
    <2>. QED
      BY <2>1, <2>2 DEF TreeOK
  <1>9. nWrites' \in 1 .. MaxWrites /\ nWrites <= nWrites' /\ nCommits' \in Nat \ {0}
    BY OthersTyped
  <1>10. \A u \in Ops : op[u].pc \in Working /\ op[u].at # i => op'[u] = op[u]
    BY <1>2
  <1>. QED
    BY <1>1, <1>4, <1>5, <1>6, <1>7, <1>8, <1>9, <1>10, HostStep

(* A request that goes on to its next step holds what it held.             *)
LEMMA GoesOnReady ==
    ASSUME Ready, NEW o \in Ops, NEW i, i = op[o].at, op[o].pc \in Working, Indexed(i, o),
           NEW d \in Server, Host(i, d), SameWork(srv[i], d), d.last = srv[i].last,
           NEW k \in Request, op' = [op EXCEPT ![o] = k], k.at = i, k.pc \in Working,
           remote' \in Refs, RemoteGrows, UNCHANGED <<nCommits, nWrites, nFaults>>,
           LocalOK(o)', BackupIsOneMoment',
           "checkout_fails" \notin Env => TreeOK(i)'
    PROVE  Ready'
  <1>1. i \in Servers /\ srv'[i] = d
    BY RequestTyped DEF Host, Ready, Typed
  <1>2. op'[o] = k /\ (\A u \in Ops \ {o} : op'[u] = op[u]) /\ op' \in [Ops -> Request]
    BY DEF Ready, Typed
  <1>3. ServerOK(i)'
    <2>1. \A u \in Ops : op[u].at = i /\ op[u].pc \in Working => op'[u].at = i /\ op'[u].pc \in Working
      BY <1>2
    <2>. QED
      BY <1>1, <2>1, SameWorkStep
  <1>4. CommitsOK'
    <2>1. Unspent(i)' => Unspent(i)
      <3>1. srv[i].up
        BY DEF Ready, LocalOK, RequestOK, Working
      <3>. QED
        BY <1>1, <3>1, NotAbsorb DEF Unspent, SameWork
    <2>. QED
      BY <1>1, <2>1, NoneSpent
  <1>5. ASSUME NEW u \in Ops PROVE (op'[u] = op[u] /\ op[u].at # i) \/ LocalOK(u)'
    <2>1. CASE u # o /\ op[u].at = i
      <3>1. op'[u] = op[u] /\ d.up = srv[i].up
        BY <1>2, <2>1 DEF SameWork
      <3>. QED
        BY <1>1, <2>1, <3>1, NobodyElse
    <2>. QED
      BY <1>2, <2>1
  <1>6. RecordOK(i)'
    BY <1>1, RecordStays
  <1>7. /\ nWrites' \in 1 .. MaxWrites /\ nWrites <= nWrites' /\ nCommits' \in Nat \ {0}
        /\ nFaults' \in 0 .. MaxFaults
    BY OthersTyped
  <1>8. \A u \in Ops : op[u].pc \in Working /\ op[u].at # i => op'[u] = op[u]
    BY <1>2
  <1>. QED
    BY <1>1, <1>2, <1>3, <1>4, <1>5, <1>6, <1>7, <1>8, HostStep

(* What a step under the index finds.                                      *)
LEMMA HoldsAt ==
    ASSUME Ready, NEW o \in Ops, NEW kind, NEW pc \in Working, At(o, kind, pc)
    PROVE  /\ op[o].pc = pc /\ op[o].kind = kind /\ op[o].at \in Servers
           /\ Indexed(op[o].at, o) /\ srv[op[o].at].up /\ LocalOK(o)
           /\ srv[op[o].at].lockdown # <<>>
           /\ op[o] \in Request
  <1>1. op[o].pc = pc /\ op[o].kind = kind /\ op[o].at \in Servers /\ Indexed(op[o].at, o) /\ LocalOK(o)
    BY RequestTyped DEF At, Ready
  <1>2. PICK i : i = op[o].at
    OBVIOUS
  <1>3. srv[i].up
    BY <1>1, <1>2 DEF LocalOK, RequestOK, Working
  <1>4. srv[i].lockdown # <<>>
    <2>1. QueueOK(srv[i]) /\ srv[i].index # <<>> /\ Head(srv[i].index) = o /\ o # Absorb
      BY <1>1, <1>2, NotAbsorb DEF Ready, ServerOK, Indexed
    <2>. QED
      BY <2>1 DEF QueueOK
  <1>. QED
    BY <1>1, <1>2, <1>3, <1>4, RequestTyped

(* The fields of a server whose lockdown has gone to the next.             *)
LEMMA ReleasedIs ==
    ASSUME Ready, NEW o \in Ops, NEW i \in Servers, srv[i].lockdown # <<>>, Indexed(i, o),
           NEW d, d = Released(o, srv[i])
    PROVE  /\ d \in Server /\ LetsGo(o, srv[i], d)
           /\ d.head = srv[i].head /\ d.content = srv[i].content /\ d.last = srv[i].last
           /\ d.auth = srv[i].auth /\ d.authRef = srv[i].authRef /\ d.parent = srv[i].parent
  <1>1. PICK l, q : l = Tail(srv[i].lockdown) /\ q = IF l = <<>> THEN Tail(srv[i].index)
                                                      ELSE Append(Tail(srv[i].index), Head(l))
    OBVIOUS
  <1>2. d = [srv[i] EXCEPT !.lockdown = l, !.ready = (l = <<>>), !.index = q]
    BY <1>1 DEF Released
  <1>3. srv[i].index # <<>>
    BY DEF Indexed
  <1>4. l \in Seq(Ops)
    BY <1>1, ServerTyped
  <1>5. Tail(srv[i].index) \in Seq(Ops \cup {Absorb})
    BY <1>3, ServerTyped
  <1>6. l # <<>> => Head(l) \in Ops
    BY <1>4
  <1>7. q \in Seq(Ops \cup {Absorb})
    BY <1>1, <1>5, <1>6
  <1>8. d \in Server
    BY <1>2, <1>4, <1>7, ServerTyped DEF Server
  <1>9. d.lockdown = l /\ d.ready = (l = <<>>) /\ d.index = q
    BY <1>2, ServerTyped DEF Server
  <1>10. /\ d.head = srv[i].head /\ d.content = srv[i].content /\ d.last = srv[i].last
         /\ d.auth = srv[i].auth /\ d.authRef = srv[i].authRef /\ d.parent = srv[i].parent
         /\ d.up = srv[i].up /\ d.active = srv[i].active /\ d.committing = srv[i].committing
         /\ d.inFlight = srv[i].inFlight
    BY <1>2, ServerTyped DEF Server
  <1>. QED
    BY <1>1, <1>8, <1>9, <1>10 DEF LetsGo

(* A tree that nobody touches stays what it is.                            *)
LEMMA TreeStays ==
    ASSUME Ready, "checkout_fails" \notin Env, NEW i \in Servers, NEW d, srv'[i] = d,
           SameWork(srv[i], d), d.head = srv[i].head, d.content = srv[i].content,
           \A u \in Ops : op[u].at = i /\ op[u].pc = "content" => op'[u] = op[u]
    PROVE  TreeOK(i)'
  <1> SUFFICES ASSUME srv[i].up, srv[i].content # srv[i].head, ~Indexed(i, Absorb)
               PROVE  \E u \in Ops : op'[u].at = i /\ op'[u].pc = "content"
    BY DEF TreeOK, SameWork, Indexed
  <1>1. TreeOK(i)
    BY DEF Ready
  <1>2. PICK u \in Ops : op[u].at = i /\ op[u].pc = "content"
    BY <1>1 DEF TreeOK
  <1>. QED
    BY <1>2

(* runQuietStateGitBackup fetches the tip: the snapshot will build on it.  *)
LEMMA FetchAuthTipReady ==
    ASSUME Ready, NEW o \in Ops, FetchAuthTip(o) PROVE Ready'
  <1>1. PICK i, d : i = op[o].at /\ d = [srv[i] EXCEPT !.parent = remote.auth]
    OBVIOUS
  <1>2. PICK k : k = [op[o] EXCEPT !.pc = "build", !.tip = remote.auth]
    OBVIOUS
  <1>3. /\ Host(i, d) /\ op' = [op EXCEPT ![o] = k] /\ UNCHANGED <<remote, nCommits, nWrites, nFaults>>
        /\ At(o, "backup", "fetch")
    BY <1>1, <1>2 DEF FetchAuthTip, Host
  <1>4. i \in Servers /\ Indexed(i, o) /\ op[o].pc = "fetch" /\ op[o].kind = "backup"
    BY <1>1, <1>3, HoldsAt DEF Working
  <1>5. /\ d \in Server /\ SameWork(srv[i], d) /\ d.parent = remote.auth
        /\ d.head = srv[i].head /\ d.content = srv[i].content /\ d.last = srv[i].last
    <2>1. PICK r, p : r = srv[i] /\ p = remote.auth /\ d = [r EXCEPT !.parent = p]
      BY <1>1
    <2>2. r \in Server /\ p \in Snapshots
      BY <1>4, <2>1, ServerTyped, OthersTyped
    <2>3. /\ d \in Server /\ SameWork(r, d) /\ d.parent = p
          /\ d.head = r.head /\ d.content = r.content /\ d.last = r.last
      BY <2>1, <2>2 DEF Server, SameWork
    <2>. QED
      BY <2>1, <2>3
  <1>6. /\ k \in Request /\ k.at = i /\ k.pc = "build" /\ k.kind = "backup" /\ k.tip = remote.auth
    BY <1>1, <1>2, <1>4, RequestTyped, OthersTyped DEF Request, Steps
  <1>7. srv'[i] = d /\ op'[o] = k
    BY <1>3, <1>4 DEF Host, Ready, Typed
  <1>8. Indexed(i, o)'
    BY <1>4, <1>5, <1>7 DEF Indexed, SameWork
  <1>9. LocalOK(o)'
    <2>1. srv[i].up
      BY <1>1, <1>3, HoldsAt DEF Working
    <2>. QED
      BY <1>3, <1>5, <1>6, <1>7, <1>8, <2>1
      DEF LocalOK, RequestOK, BackupOK, RestoreOK, HeadOK, Deep, Working, SameWork
  <1>10. "checkout_fails" \notin Env => TreeOK(i)'
    <2>1. \A u \in Ops : op[u].at = i /\ op[u].pc = "content" => op'[u] = op[u]
      BY <1>3, <1>4 DEF Ready, Typed
    <2>. QED
      BY <1>4, <1>5, <1>7, <2>1, TreeStays
  <1>11. BackupIsOneMoment' /\ RemoteGrows /\ remote' \in Refs
    BY <1>3, RemoteStays DEF Ready, BackupIsOneMoment
  <1>. QED
    BY <1>1, <1>3, <1>4, <1>5, <1>6, <1>9, <1>10, <1>11, GoesOnReady DEF Working

(* The plain end of a run: only the mutexes of its server move.            *)
LEMMA EndsReady ==
    ASSUME Ready, NEW o \in Ops, NEW i, i = op[o].at, op[o].pc \in Working, Indexed(i, o),
           srv' = [srv EXCEPT ![i] = Released(o, @)], Goes(o, "done"),
           UNCHANGED <<nCommits, nWrites>>, nFaults' \in 0 .. MaxFaults,
           remote' \in Refs, RemoteGrows, BackupIsOneMoment',
           "checkout_fails" \notin Env => op[o].pc # "content"
    PROVE  Ready'
  <1>1. PICK d : d = Released(o, srv[i])
    OBVIOUS
  <1>2. i \in Servers /\ Host(i, d)
    BY <1>1, RequestTyped DEF Host
  <1>3. srv[i].lockdown # <<>>
    <2>1. At(o, op[o].kind, op[o].pc)
      BY DEF At
    <2>. QED
      BY <2>1, HoldsAt
  <1>4. /\ d \in Server /\ LetsGo(o, srv[i], d)
        /\ d.head = srv[i].head /\ d.content = srv[i].content /\ d.last = srv[i].last
    BY <1>1, <1>2, <1>3, ReleasedIs
  <1>5. RecordOK(i)'
    BY <1>2, <1>4, RecordStays
  <1>. QED
    BY <1>2, <1>4, <1>5, SettlesReady

(* A step of a request that leaves its server as it is.                    *)
LEMMA SameHost ==
    ASSUME Ready, NEW i \in Servers, UNCHANGED srv
    PROVE  Host(i, srv[i]) /\ srv[i] \in Server /\ SameWork(srv[i], srv[i]) /\ srv'[i] = srv[i]
  BY DEF Ready, Typed, Host, SameWork

(* The snapshot is of the HEAD it is made on, and continues the tip.       *)
LEMMA BuildSnapshotReady ==
    ASSUME Ready, NEW o \in Ops, BuildSnapshot(o) PROVE Ready'
  <1>1. PICK i : i = op[o].at
    OBVIOUS
  <1>2. At(o, "backup", "build") /\ UNCHANGED <<remote, nCommits, nWrites, nFaults>>
    BY DEF BuildSnapshot
  <1>3. /\ i \in Servers /\ Indexed(i, o) /\ op[o].pc = "build" /\ op[o].kind = "backup"
        /\ srv[i].up /\ LocalOK(o)
    BY <1>1, <1>2, HoldsAt DEF Working
  <1>4. BackupIsOneMoment' /\ RemoteGrows /\ remote' \in Refs /\ nFaults' \in 0 .. MaxFaults
    BY <1>2, RemoteStays, OthersTyped DEF Ready, BackupIsOneMoment
  <1>5. CASE srv[i].auth = 0
    <2>1. srv' = [srv EXCEPT ![i] = Released(o, @)] /\ Goes(o, "done")
      BY <1>1, <1>5 DEF BuildSnapshot
    <2>. QED
      BY <1>1, <1>2, <1>3, <1>4, <2>1, EndsReady DEF Working
  <1>6. CASE srv[i].auth # 0
    <2>1. PICK x, r, a : /\ x = [op |-> o, auth |-> srv[i].auth, head |-> srv[i].head]
                         /\ r = srv[i] /\ a = Append(srv[i].parent, x)
      OBVIOUS
    <2>2. PICK d : d = [r EXCEPT !.authRef = a]
      OBVIOUS
    <2>3. PICK k : k = [op[o] EXCEPT !.pc = "push"]
      OBVIOUS
    <2>4. Host(i, d) /\ op' = [op EXCEPT ![o] = k]
      BY <1>1, <1>6, <2>1, <2>2, <2>3 DEF BuildSnapshot, Host, Goes
    <2>5. x \in [op : Ops, auth : 1 .. MaxWrites, head : Seq(Nat)] /\ x.head = r.head
      BY <1>3, <1>6, <2>1, ServerTyped, OthersTyped
    <2>6. a \in Snapshots /\ IsPrefix(r.parent, a) /\ a # <<>> /\ Last(a) = x
      <3>1. PICK S, p : S = [op : Ops, auth : 1 .. MaxWrites, head : Seq(Nat)] /\ p = r.parent
        OBVIOUS
      <3>2. p \in Seq(S) /\ x \in S /\ a = Append(p, x)
        BY <1>3, <2>1, <2>5, <3>1, ServerTyped DEF Snapshots
      <3>3. a \in Seq(S) /\ a # <<>> /\ Last(a) = x
        BY <3>2 DEF Last
      <3>4. IsPrefix(p, a)
        BY <3>2, PrefixGrows
      <3>. QED
        BY <3>1, <3>3, <3>4 DEF Snapshots
    <2>7. r \in Server
      BY <1>3, <2>1, ServerTyped
    <2>8. /\ d \in Server /\ SameWork(r, d) /\ d.authRef = a
          /\ d.head = r.head /\ d.content = r.content /\ d.last = r.last /\ d.up = r.up
      BY <2>2, <2>6, <2>7 DEF Server, SameWork
    <2>9. k \in Request /\ k.at = i /\ k.pc = "push" /\ k.kind = "backup" /\ k.tip = op[o].tip
      BY <1>1, <1>3, <2>3, RequestTyped DEF Request, Steps
    <2>10. srv'[i] = d /\ op'[o] = k /\ \A u \in Ops \ {o} : op'[u] = op[u]
      BY <1>3, <2>4 DEF Host, Ready, Typed
    <2>11. Indexed(i, o)'
      BY <1>3, <2>1, <2>8, <2>10 DEF Indexed, SameWork
    <2>12. k.tip = r.parent
      BY <1>1, <1>3, <2>1, <2>9 DEF LocalOK, BackupOK
    <2>13. LocalOK(o)'
      <3>1. RequestOK(o)'
        BY <1>3, <2>1, <2>8, <2>9, <2>10, <2>11 DEF RequestOK
      <3>2. BackupOK(o)'
        BY <2>1, <2>6, <2>8, <2>9, <2>10, <2>12, <2>5 DEF BackupOK
      <3>3. RestoreOK(o)' /\ HeadOK(o)'
        BY <2>9, <2>10 DEF RestoreOK, HeadOK
      <3>. QED
        BY <3>1, <3>2, <3>3 DEF LocalOK
    <2>14. "checkout_fails" \notin Env => TreeOK(i)'
      BY <1>3, <2>1, <2>8, <2>10, TreeStays
    <2>. QED
      BY <1>1, <1>2, <1>3, <1>4, <2>1, <2>4, <2>8, <2>9, <2>13, <2>14, GoesOnReady DEF Working
  <1>. QED
    BY <1>5, <1>6

(* What is pushed is of one moment, and continues what the remote has.     *)
LEMMA PushedIsOneMoment ==
    ASSUME Ready, NEW o \in Ops, At(o, "backup", "push"), FastForwards(op[o].at),
           remote' = Pushed(op[o].at)
    PROVE  /\ remote' \in Refs /\ RemoteGrows /\ BackupIsOneMoment'
           /\ remote'.content = srv[op[o].at].head /\ remote'.auth = srv[op[o].at].authRef
  <1>1. PICK r : r = srv[op[o].at]
    OBVIOUS
  <1>2. r.head \in Seq(Nat) /\ r.authRef \in Snapshots
    BY <1>1, RequestTyped, ServerTyped
  <1>3. remote' \in Refs /\ remote'.content = r.head /\ remote'.auth = r.authRef
    BY <1>1, <1>2 DEF Pushed, Refs
  <1>4. RemoteGrows
    BY <1>1, <1>3 DEF FastForwards, RemoteGrows
  <1>5. BackupIsOneMoment'
    BY <1>1, <1>3 DEF Ready, LocalOK, BackupOK, At, BackupIsOneMoment
  <1>. QED
    BY <1>1, <1>3, <1>4, <1>5

(* The push: the remote takes both refs, or the run ends with nothing.     *)
LEMMA PushReady ==
    ASSUME Ready, NEW o \in Ops, Push(o) PROVE Ready'
  <1>1. PICK i : i = op[o].at
    OBVIOUS
  <1>2. At(o, "backup", "push") /\ UNCHANGED <<nCommits, nWrites, nFaults>>
    BY DEF Push
  <1>3. /\ i \in Servers /\ Indexed(i, o) /\ op[o].pc = "push" /\ op[o].kind = "backup"
        /\ srv[i].up /\ LocalOK(o)
    BY <1>1, <1>2, HoldsAt DEF Working
  <1>4. CASE ~FastForwards(i)
    <2>1. srv' = [srv EXCEPT ![i] = Released(o, @)] /\ Goes(o, "done") /\ UNCHANGED remote
      BY <1>1, <1>4 DEF Push
    <2>2. BackupIsOneMoment' /\ RemoteGrows /\ remote' \in Refs /\ nFaults' \in 0 .. MaxFaults
      BY <1>2, <2>1, RemoteStays, OthersTyped DEF Ready, BackupIsOneMoment
    <2>. QED
      BY <1>1, <1>2, <1>3, <2>1, <2>2, EndsReady DEF Working
  <1>5. CASE FastForwards(i)
    <2>1. remote' = Pushed(i) /\ Goes(o, "readback") /\ UNCHANGED srv
      BY <1>1, <1>5 DEF Push
    <2>2. /\ remote' \in Refs /\ RemoteGrows /\ BackupIsOneMoment'
          /\ remote'.content = srv[i].head /\ remote'.auth = srv[i].authRef
      BY <1>1, <1>2, <1>5, <2>1, PushedIsOneMoment
    <2>3. PICK k : k = [op[o] EXCEPT !.pc = "readback"]
      OBVIOUS
    <2>4. op' = [op EXCEPT ![o] = k]
      BY <2>1, <2>3 DEF Goes
    <2>5. k \in Request /\ k.at = i /\ k.pc = "readback" /\ k.kind = "backup"
      BY <1>1, <1>3, <2>3, RequestTyped DEF Request, Steps
    <2>6. op'[o] = k /\ \A u \in Ops \ {o} : op'[u] = op[u]
      BY <2>4 DEF Ready, Typed
    <2>7. /\ Host(i, srv[i]) /\ srv[i] \in Server /\ SameWork(srv[i], srv[i]) /\ srv'[i] = srv[i]
      BY <1>3, <2>1, SameHost
    <2>8. IsPrefix(srv[i].head, remote'.content) /\ IsPrefix(srv[i].authRef, remote'.auth)
      BY <1>3, <2>2, ServerTyped, PrefixIs DEF Snapshots
    <2>9. LocalOK(o)'
      BY <1>1, <1>3, <2>1, <2>5, <2>6, <2>7, <2>8
      DEF LocalOK, RequestOK, BackupOK, RestoreOK, HeadOK, Deep, Working, Indexed
    <2>10. "checkout_fails" \notin Env => TreeOK(i)'
      BY <1>3, <2>6, <2>7, TreeStays
    <2>. QED
      BY <1>1, <1>2, <1>3, <2>2, <2>4, <2>5, <2>7, <2>9, <2>10, GoesOnReady DEF Working
  <1>. QED
    BY <1>4, <1>5

(* The push whose answer is lost: the remote has it, the run does not know. *)
LEMMA AnswerLostReady ==
    ASSUME Ready, NEW o \in Ops, AnswerLost(o) PROVE Ready'
  <1>1. PICK i : i = op[o].at
    OBVIOUS
  <1>2. /\ At(o, "backup", "push") /\ FastForwards(i) /\ remote' = Pushed(i)
        /\ srv' = [srv EXCEPT ![i] = Released(o, @)] /\ Goes(o, "done")
        /\ UNCHANGED <<nCommits, nWrites>> /\ nFaults < MaxFaults /\ nFaults' = nFaults + 1
    BY <1>1 DEF AnswerLost, Fault
  <1>3. i \in Servers /\ Indexed(i, o) /\ op[o].pc = "push"
    BY <1>1, <1>2, HoldsAt DEF Working
  <1>4. remote' \in Refs /\ RemoteGrows /\ BackupIsOneMoment'
    BY <1>1, <1>2, PushedIsOneMoment
  <1>5. nFaults' \in 0 .. MaxFaults
    BY <1>2, OthersTyped
  <1>. QED
    BY <1>1, <1>2, <1>3, <1>4, <1>5, EndsReady DEF Working

(* The run reads the refs back, and records what the remote has.           *)
LEMMA ReadBackReady ==
    ASSUME Ready, NEW o \in Ops, ReadBack(o) PROVE Ready'
  <1>1. PICK i : i = op[o].at
    OBVIOUS
  <1>2. PICK r, x : r = Released(o, srv[i]) /\ x = Pushed(i)
    OBVIOUS
  <1>3. PICK d : d = [r EXCEPT !.last = <<x>>]
    OBVIOUS
  <1>4. /\ At(o, "backup", "readback") /\ UNCHANGED <<remote, nCommits, nWrites, nFaults>>
        /\ Host(i, d) /\ Goes(o, "done")
    BY <1>1, <1>2, <1>3 DEF ReadBack, Host
  <1>5. /\ i \in Servers /\ Indexed(i, o) /\ op[o].pc = "readback" /\ LocalOK(o)
        /\ srv[i].lockdown # <<>>
    BY <1>1, <1>4, HoldsAt DEF Working
  <1>6. x \in Refs /\ x.content = srv[i].head /\ x.auth = srv[i].authRef
    BY <1>2, <1>5, ServerTyped DEF Pushed, Refs
  <1>7. /\ r \in Server /\ LetsGo(o, srv[i], r)
        /\ r.head = srv[i].head /\ r.content = srv[i].content
    BY <1>2, <1>5, ReleasedIs
  <1>8. <<x>> \in Seq(Refs) /\ <<x>>[1] = x
    BY <1>6
  <1>9. /\ d \in Server /\ d.head = r.head /\ d.content = r.content /\ d.last = <<x>>
        /\ d.lockdown = r.lockdown /\ d.index = r.index /\ d.up = r.up /\ d.ready = r.ready
        /\ d.active = r.active /\ d.committing = r.committing /\ d.inFlight = r.inFlight
    BY <1>3, <1>7, <1>8 DEF Server
  <1>10. LetsGo(o, srv[i], d)
    BY <1>7, <1>9 DEF LetsGo
  <1>11. srv'[i] = d
    BY <1>4, <1>5 DEF Host, Ready, Typed
  <1>12. RecordOK(i)'
    BY <1>1, <1>4, <1>5, <1>6, <1>8, <1>9, <1>11 DEF RecordOK, LocalOK, BackupOK
  <1>13. BackupIsOneMoment' /\ RemoteGrows /\ remote' \in Refs /\ nFaults' \in 0 .. MaxFaults
    BY <1>4, RemoteStays, OthersTyped DEF Ready, BackupIsOneMoment
  <1>. QED
    BY <1>1, <1>4, <1>5, <1>7, <1>9, <1>10, <1>12, <1>13, SettlesReady DEF Working

(* A restore fetches a backup: both refs the remote has, at once.          *)
LEMMA FetchBackupReady ==
    ASSUME Ready, NEW o \in Ops, FetchBackup(o) PROVE Ready'
  <1>1. PICK i : i = op[o].at
    OBVIOUS
  <1>2. PICK k : k = [op[o] EXCEPT !.pc = "head", !.got = remote]
    OBVIOUS
  <1>3. /\ At(o, "restore", "fetch") /\ UNCHANGED <<srv, remote, nCommits, nWrites, nFaults>>
        /\ op' = [op EXCEPT ![o] = k]
    BY <1>2 DEF FetchBackup
  <1>4. /\ i \in Servers /\ Indexed(i, o) /\ op[o].pc = "fetch" /\ op[o].kind = "restore"
        /\ srv[i].up /\ LocalOK(o)
    BY <1>1, <1>3, HoldsAt DEF Working
  <1>5. k \in Request /\ k.at = i /\ k.pc = "head" /\ k.kind = "restore" /\ k.got = remote
    BY <1>1, <1>2, <1>4, RequestTyped, OthersTyped DEF Request, Steps
  <1>6. op'[o] = k /\ \A u \in Ops \ {o} : op'[u] = op[u]
    BY <1>3 DEF Ready, Typed
  <1>7. Host(i, srv[i]) /\ srv[i] \in Server /\ SameWork(srv[i], srv[i]) /\ srv'[i] = srv[i]
    BY <1>3, <1>4, SameHost
  <1>8. LocalOK(o)'
    BY <1>1, <1>3, <1>4, <1>5, <1>6, <1>7
    DEF LocalOK, RequestOK, BackupOK, RestoreOK, HeadOK, Deep, Working, Indexed
  <1>9. "checkout_fails" \notin Env => TreeOK(i)'
    BY <1>4, <1>6, <1>7, TreeStays
  <1>10. BackupIsOneMoment' /\ RemoteGrows /\ remote' \in Refs
    BY <1>3, RemoteStays DEF Ready, BackupIsOneMoment
  <1>. QED
    BY <1>1, <1>3, <1>4, <1>5, <1>7, <1>8, <1>9, <1>10, GoesOnReady DEF Working

(* The restore moves HEAD, and the tree is behind until it is filled.      *)
LEMMA SetHeadReady ==
    ASSUME Ready, NEW o \in Ops, SetHead(o) PROVE Ready'
  <1>1. PICK i : i = op[o].at
    OBVIOUS
  <1>2. PICK r, g : r = srv[i] /\ g = op[o].got.content
    OBVIOUS
  <1>3. PICK d : d = [r EXCEPT !.head = g]
    OBVIOUS
  <1>4. PICK k : k = [op[o] EXCEPT !.pc = "content"]
    OBVIOUS
  <1>5. /\ At(o, "restore", "head") /\ UNCHANGED <<remote, nCommits, nWrites, nFaults>>
        /\ Host(i, d) /\ op' = [op EXCEPT ![o] = k]
    BY <1>1, <1>2, <1>3, <1>4 DEF SetHead, Host, Goes
  <1>6. /\ i \in Servers /\ Indexed(i, o) /\ op[o].pc = "head" /\ op[o].kind = "restore"
        /\ srv[i].up /\ LocalOK(o)
    BY <1>1, <1>5, HoldsAt DEF Working
  <1>7. r \in Server /\ g \in Seq(Nat)
    BY <1>2, <1>6, ServerTyped, RequestTyped
  <1>8. d \in Server /\ SameWork(r, d) /\ d.head = g /\ d.last = r.last /\ d.up = r.up
    BY <1>3, <1>7 DEF Server, SameWork
  <1>9. k \in Request /\ k.at = i /\ k.pc = "content" /\ k.kind = "restore" /\ k.got = op[o].got
    BY <1>1, <1>4, <1>6, RequestTyped DEF Request, Steps
  <1>10. srv'[i] = d /\ op'[o] = k
    BY <1>5, <1>6 DEF Host, Ready, Typed
  <1>11. Indexed(i, o)'
    BY <1>2, <1>6, <1>8, <1>10 DEF Indexed, SameWork
  <1>12. LocalOK(o)'
    <2>1. RequestOK(o)'
      BY <1>2, <1>6, <1>8, <1>9, <1>10, <1>11 DEF RequestOK
    <2>2. BackupOK(o)' /\ HeadOK(o)'
      BY <1>2, <1>8, <1>9, <1>10 DEF BackupOK, HeadOK
    <2>3. RestoreOK(o)'
      BY <1>6, <1>9, <1>10 DEF LocalOK, RestoreOK
    <2>. QED
      BY <2>1, <2>2, <2>3 DEF LocalOK
  <1>13. TreeOK(i)'
    BY <1>9, <1>10 DEF TreeOK
  <1>14. BackupIsOneMoment' /\ RemoteGrows /\ remote' \in Refs
    BY <1>5, RemoteStays DEF Ready, BackupIsOneMoment
  <1>. QED
    BY <1>1, <1>2, <1>5, <1>6, <1>8, <1>9, <1>12, <1>13, <1>14, GoesOnReady DEF Working

(* The restore fills the tree from the HEAD it has set.                    *)
LEMMA CheckoutContentReady ==
    ASSUME Ready, NEW o \in Ops, CheckoutContent(o) PROVE Ready'
  <1>1. PICK i : i = op[o].at
    OBVIOUS
  <1>2. PICK r, g : r = srv[i] /\ g = op[o].got.content
    OBVIOUS
  <1>3. PICK d : d = [r EXCEPT !.content = g]
    OBVIOUS
  <1>4. PICK k : k = [op[o] EXCEPT !.pc = "auth"]
    OBVIOUS
  <1>5. /\ At(o, "restore", "content") /\ UNCHANGED <<remote, nCommits, nWrites, nFaults>>
        /\ Host(i, d) /\ op' = [op EXCEPT ![o] = k]
    BY <1>1, <1>2, <1>3, <1>4 DEF CheckoutContent, Host, Goes
  <1>6. /\ i \in Servers /\ Indexed(i, o) /\ op[o].pc = "content" /\ op[o].kind = "restore"
        /\ srv[i].up /\ LocalOK(o)
    BY <1>1, <1>5, HoldsAt DEF Working
  <1>7. r \in Server /\ g \in Seq(Nat)
    BY <1>2, <1>6, ServerTyped, RequestTyped
  <1>8. /\ d \in Server /\ SameWork(r, d) /\ d.content = g /\ d.head = r.head
        /\ d.last = r.last /\ d.up = r.up
    BY <1>3, <1>7 DEF Server, SameWork
  <1>9. k \in Request /\ k.at = i /\ k.pc = "auth" /\ k.kind = "restore" /\ k.got = op[o].got
    BY <1>1, <1>4, <1>6, RequestTyped DEF Request, Steps
  <1>10. srv'[i] = d /\ op'[o] = k
    BY <1>5, <1>6 DEF Host, Ready, Typed
  <1>11. Indexed(i, o)'
    BY <1>2, <1>6, <1>8, <1>10 DEF Indexed, SameWork
  <1>12. r.head = g
    BY <1>1, <1>2, <1>6 DEF LocalOK, HeadOK
  <1>13. LocalOK(o)'
    <2>1. RequestOK(o)'
      BY <1>2, <1>6, <1>8, <1>9, <1>10, <1>11 DEF RequestOK
    <2>2. BackupOK(o)' /\ HeadOK(o)'
      BY <1>2, <1>8, <1>9, <1>10, <1>12 DEF BackupOK, HeadOK
    <2>3. RestoreOK(o)'
      BY <1>6, <1>9, <1>10 DEF LocalOK, RestoreOK
    <2>. QED
      BY <2>1, <2>2, <2>3 DEF LocalOK
  <1>14. TreeOK(i)'
    BY <1>8, <1>10, <1>12 DEF TreeOK
  <1>15. BackupIsOneMoment' /\ RemoteGrows /\ remote' \in Refs
    BY <1>5, RemoteStays DEF Ready, BackupIsOneMoment
  <1>. QED
    BY <1>1, <1>2, <1>5, <1>6, <1>8, <1>9, <1>13, <1>14, <1>15, GoesOnReady DEF Working

(* The restore ends with the auth files of the snapshot it fetched.        *)
LEMMA CheckoutAuthReady ==
    ASSUME Ready, NEW o \in Ops, CheckoutAuth(o) PROVE Ready'
  <1>1. PICK i : i = op[o].at
    OBVIOUS
  <1>2. PICK r, a : r = Released(o, srv[i]) /\ a = Last(op[o].got.auth).auth
    OBVIOUS
  <1>3. PICK d : d = [r EXCEPT !.auth = a]
    OBVIOUS
  <1>4. /\ At(o, "restore", "auth") /\ UNCHANGED <<remote, nCommits, nWrites, nFaults>>
        /\ Host(i, d) /\ Goes(o, "done")
    BY <1>1, <1>2, <1>3 DEF CheckoutAuth, Host
  <1>5. /\ i \in Servers /\ Indexed(i, o) /\ op[o].pc = "auth" /\ LocalOK(o)
        /\ srv[i].lockdown # <<>>
    BY <1>1, <1>4, HoldsAt DEF Working
  <1>6. a \in 0 .. MaxWrites
    <2>1. op[o].got.auth \in Snapshots /\ op[o].got.auth # <<>>
      BY <1>5, RequestTyped DEF LocalOK, RestoreOK
    <2>2. PICK S, s : S = [op : Ops, auth : 1 .. MaxWrites, head : Seq(Nat)] /\ s = op[o].got.auth
      OBVIOUS
    <2>3. s \in Seq(S) /\ s # <<>>
      BY <2>1, <2>2 DEF Snapshots
    <2>4. Last(s) \in S
      BY <2>3 DEF Last
    <2>. QED
      BY <1>2, <2>2, <2>4, OthersTyped
  <1>7. /\ r \in Server /\ LetsGo(o, srv[i], r)
        /\ r.head = srv[i].head /\ r.content = srv[i].content /\ r.last = srv[i].last
    BY <1>2, <1>5, ReleasedIs
  <1>8. /\ d \in Server /\ d.head = r.head /\ d.content = r.content /\ d.last = r.last
        /\ d.lockdown = r.lockdown /\ d.index = r.index /\ d.up = r.up /\ d.ready = r.ready
        /\ d.active = r.active /\ d.committing = r.committing /\ d.inFlight = r.inFlight
    BY <1>3, <1>6, <1>7 DEF Server
  <1>9. LetsGo(o, srv[i], d)
    BY <1>7, <1>8 DEF LetsGo
  <1>10. BackupIsOneMoment' /\ RemoteGrows /\ remote' \in Refs /\ nFaults' \in 0 .. MaxFaults
    BY <1>4, RemoteStays, OthersTyped DEF Ready, BackupIsOneMoment
  <1>11. RecordOK(i)'
    BY <1>4, <1>5, <1>7, <1>8, <1>10, RecordStays
  <1>. QED
    BY <1>1, <1>4, <1>5, <1>7, <1>8, <1>9, <1>10, <1>11, SettlesReady DEF Working

(* A git command fails, and the finally lets the next one go on.           *)
LEMMA GitFailsReady ==
    ASSUME Ready, NEW o \in Ops, GitFails(o) PROVE Ready'
  <1>1. PICK i : i = op[o].at
    OBVIOUS
  <1>2. /\ Indexed(i, o) /\ srv' = [srv EXCEPT ![i] = Released(o, @)] /\ Goes(o, "done")
        /\ UNCHANGED <<remote, nCommits, nWrites>> /\ nFaults < MaxFaults /\ nFaults' = nFaults + 1
        /\ op[o].pc \in Working /\ (op[o].pc = "content" => "checkout_fails" \in Env)
    BY <1>1 DEF GitFails, Fault, Working
  <1>3. BackupIsOneMoment' /\ RemoteGrows /\ remote' \in Refs /\ nFaults' \in 0 .. MaxFaults
    <2>1. RemoteGrows /\ remote' \in Refs
      BY <1>2, RemoteStays
    <2>2. BackupIsOneMoment'
      BY <1>2 DEF Ready, BackupIsOneMoment
    <2>3. nFaults' \in 0 .. MaxFaults
      BY <1>2, OthersTyped
    <2>. QED
      BY <2>1, <2>2, <2>3
  <1>. QED
    BY <1>1, <1>2, <1>3, EndsReady

-----------------------------------------------------------------------------
(* The requests of the admin.                                              *)

(* A request that is new has not looked at anything yet.                   *)
LEMMA AdminAsksReady ==
    ASSUME Ready, NEW o \in Ops, NEW i \in Servers, NEW kind \in {"backup", "restore"},
           AdminAsks(o, i, kind)
    PROVE  Ready'
  <1>1. PICK k : k = [NoOp EXCEPT !.kind = kind, !.at = i, !.pc = "check"]
    OBVIOUS
  <1>2. /\ op[o].pc = "unused" /\ srv[i].up /\ op' = [op EXCEPT ![o] = k]
        /\ UNCHANGED <<srv, remote, nCommits, nWrites, nFaults>>
    BY <1>1 DEF AdminAsks
  <1>3. k \in Request /\ k.at = i /\ k.pc = "check"
    <2>1. <<>> \in Seq(Nat) /\ <<>> \in Snapshots
      BY DEF Snapshots
    <2>2. [content |-> <<>>, auth |-> <<>>] \in Refs
      BY <2>1 DEF Refs
    <2>. QED
      BY <1>1, <2>1, <2>2, BackupAssumption DEF NoOp, Request, Steps
  <1>4. op'[o] = k /\ (\A u \in Ops \ {o} : op'[u] = op[u]) /\ op' \in [Ops -> Request]
    BY <1>2, <1>3 DEF Ready, Typed
  <1>5. Host(i, srv[i]) /\ srv[i] \in Server /\ SameWork(srv[i], srv[i]) /\ srv'[i] = srv[i]
    BY <1>2, SameHost
  <1>6. \A u \in Ops : op[u].pc # "unused" => op'[u] = op[u]
    BY <1>2, <1>4
  <1>7. ServerOK(i)'
    <2>1. \A u \in Ops : op[u].at = i /\ op[u].pc \in Working => op'[u].at = i /\ op'[u].pc \in Working
      BY <1>6 DEF Working
    <2>. QED
      BY <1>2, <1>5, <2>1, SameWorkStep
  <1>8. CommitsOK'
    BY <1>2, <1>5, NoneSpent DEF Unspent, Indexed
  <1>9. BackupIsOneMoment' /\ RemoteGrows /\ remote' \in Refs
    BY <1>2, RemoteStays DEF Ready, BackupIsOneMoment
  <1>10. ASSUME NEW u \in Ops PROVE (op'[u] = op[u] /\ op[u].at # i) \/ LocalOK(u)'
    <2>1. CASE u = o
      BY <1>2, <1>3, <1>4, <1>5, <2>1 DEF LocalOK, RequestOK, BackupOK, RestoreOK, HeadOK, Deep, Working
    <2>2. CASE u # o /\ op[u].at = i
      BY <1>2, <1>4, <1>5, <2>2, Undisturbed DEF Indexed
    <2>. QED
      BY <1>4, <2>1, <2>2
  <1>11. "checkout_fails" \notin Env => TreeOK(i)'
    BY <1>5, <1>6, TreeStays
  <1>12. RecordOK(i)'
    BY <1>5, <1>9, RecordStays
  <1>13. nWrites' \in 1 .. MaxWrites /\ nWrites <= nWrites' /\ nFaults' \in 0 .. MaxFaults /\ nCommits' \in Nat \ {0}
    BY <1>2, OthersTyped
  <1>14. \A u \in Ops : op[u].pc \in Working /\ op[u].at # i => op'[u] = op[u]
    BY <1>6 DEF Working
  <1>. QED
    BY <1>4, <1>5, <1>7, <1>8, <1>9, <1>10, <1>11, <1>12, <1>13, <1>14, HostStep

(* A request that may not go on ends where it stands.                      *)
LEMMA RefusedReady ==
    ASSUME Ready, NEW o \in Ops, op[o].pc = "check", Goes(o, "done"),
           UNCHANGED <<srv, remote, nCommits, nWrites, nFaults>>
    PROVE  Ready'
  <1>1. PICK i, k : i = op[o].at /\ k = [op[o] EXCEPT !.pc = "done"]
    OBVIOUS
  <1>2. i \in Servers /\ op' = [op EXCEPT ![o] = k]
    BY <1>1, RequestTyped DEF Goes
  <1>3. k \in Request /\ k.at = i /\ k.pc = "done"
    BY <1>1, RequestTyped DEF Request, Steps
  <1>4. op'[o] = k /\ (\A u \in Ops \ {o} : op'[u] = op[u]) /\ op' \in [Ops -> Request]
    BY <1>2, <1>3 DEF Ready, Typed
  <1>5. Host(i, srv[i]) /\ srv[i] \in Server /\ SameWork(srv[i], srv[i]) /\ srv'[i] = srv[i]
    BY <1>2, SameHost
  <1>6. \A u \in Ops : op[u].pc # "check" => op'[u] = op[u]
    BY <1>4
  <1>7. ServerOK(i)'
    <2>1. \A u \in Ops : op[u].at = i /\ op[u].pc \in Working => op'[u].at = i /\ op'[u].pc \in Working
      BY <1>6 DEF Working
    <2>. QED
      BY <1>2, <1>5, <2>1, SameWorkStep
  <1>8. CommitsOK'
    BY <1>2, <1>5, NoneSpent DEF Unspent, Indexed
  <1>9. BackupIsOneMoment' /\ RemoteGrows /\ remote' \in Refs
    BY RemoteStays DEF Ready, BackupIsOneMoment
  <1>10. ASSUME NEW u \in Ops PROVE (op'[u] = op[u] /\ op[u].at # i) \/ LocalOK(u)'
    <2>1. CASE u = o
      BY <1>3, <1>4, <2>1 DEF LocalOK, RequestOK, BackupOK, RestoreOK, HeadOK, Deep, Working
    <2>2. CASE u # o /\ op[u].at = i
      BY <1>4, <1>5, <2>2, Undisturbed DEF Indexed
    <2>. QED
      BY <1>4, <2>1, <2>2
  <1>11. "checkout_fails" \notin Env => TreeOK(i)'
    BY <1>2, <1>5, <1>6, TreeStays
  <1>12. RecordOK(i)'
    BY <1>2, <1>5, <1>9, RecordStays
  <1>13. nWrites' \in 1 .. MaxWrites /\ nWrites <= nWrites' /\ nFaults' \in 0 .. MaxFaults /\ nCommits' \in Nat \ {0}
    BY OthersTyped
  <1>14. \A u \in Ops : op[u].pc \in Working /\ op[u].at # i => op'[u] = op[u]
    BY <1>6 DEF Working
  <1>. QED
    BY <1>2, <1>4, <1>5, <1>7, <1>8, <1>9, <1>10, <1>11, <1>12, <1>13, <1>14, HostStep

(* The lockdown: the request joins the chain, and its first the index.     *)
LEMMA LockdownQueues ==
    ASSUME Ready, NEW o \in Ops, NEW i, i = op[o].at, op[o].pc = "check",
           NEW d, Host(i, d), d.lockdown = Append(srv[i].lockdown, o), ~d.ready,
           d.index = IF srv[i].lockdown = <<>> THEN Append(srv[i].index, o) ELSE srv[i].index,
           d.up = srv[i].up, d.active = srv[i].active, d.committing = srv[i].committing,
           d.inFlight = srv[i].inFlight, UNCHANGED nWrites,
           op'[o].at = i, op'[o].pc = "fetch", \A u \in Ops \ {o} : op'[u] = op[u]
    PROVE  ServerOK(i)'
  <1>1. i \in Servers /\ srv'[i] = d /\ ServerOK(i) /\ srv[i].up
    <2>1. i \in Servers /\ RequestOK(o)
      BY RequestTyped DEF Ready, LocalOK
    <2>. QED
      BY <2>1 DEF Host, Ready, Typed, RequestOK
  <1>2. PICK l, q : l = srv[i].lockdown /\ q = srv[i].index
    OBVIOUS
  <1>3. l \in Seq(Ops) /\ q \in Seq(Ops \cup {Absorb}) /\ o # Absorb /\ o \in Int /\ Absorb \in Int
    <2>1. l \in Seq(Ops) /\ q \in Seq(Ops \cup {Absorb})
      BY <1>1, <1>2, ServerTyped
    <2>2. o # Absorb /\ o \in Int /\ Absorb \in Int
      BY BackupAssumption DEF Ops, Absorb
    <2>. QED
      BY <2>1, <2>2
  <1>4. PICK m, n : m = d.lockdown /\ n = d.index
    OBVIOUS
  <1>5. m = Append(l, o) /\ n = IF l = <<>> THEN Append(q, o) ELSE q
    BY <1>2, <1>4
  <1>6. /\ m \in Seq(Ops) /\ m # <<>> /\ Len(m) = Len(l) + 1 /\ m[Len(m)] = o
        /\ (l = <<>> => m[1] = o) /\ (l # <<>> => m[1] = l[1])
        /\ \A k \in DOMAIN m : k \in DOMAIN l \/ k = Len(m)
        /\ \A k \in DOMAIN l : k \in DOMAIN m /\ m[k] = l[k]
    BY <1>3, <1>5
  <1>7. \A k \in DOMAIN l : l[k] \in Ops /\ l[k] # o /\ op[l[k]].at = i /\ op[l[k]].pc \in Working
    <2>1. \A k \in DOMAIN l : l[k] \in Ops /\ op[l[k]].at = i /\ op[l[k]].pc \in Working
      <3>1. \A k \in DOMAIN l : op[l[k]].at = i /\ op[l[k]].pc \in Working
        BY <1>1, <1>2, Zenon DEF ServerOK, ChainOK
      <3>2. \A k \in DOMAIN l : l[k] \in Ops
        BY <1>3
      <3>. QED
        BY <3>1, <3>2
    <2>. QED
      BY <2>1 DEF Working
  <1>8. ChainOK(i)'
    <2>1. \A k \in DOMAIN m : m[k] \in Ops /\ op'[m[k]].at = i /\ op'[m[k]].pc \in Working
      <3> SUFFICES ASSUME NEW k \in DOMAIN m PROVE m[k] \in Ops /\ op'[m[k]].at = i /\ op'[m[k]].pc \in Working
        OBVIOUS
      <3>1. CASE k \in DOMAIN l
        BY <1>6, <1>7, <3>1
      <3>2. CASE k = Len(m)
        BY <1>6, <3>2 DEF Working
      <3>. QED
        BY <1>6, <3>1, <3>2
    <2>2. \A j, k \in DOMAIN m : m[j] = m[k] => j = k
      <3>1. \A j, k \in DOMAIN l : l[j] = l[k] => j = k
        BY <1>1, <1>2 DEF ServerOK, ChainOK
      <3>. QED
        BY <1>6, <1>7, <3>1
    <2>. QED
      BY <1>1, <1>4, <2>1, <2>2 DEF ChainOK
  <1>9. QueueOK(d)
    <2>1. CASE l = <<>>
      <3>1. q = <<>> \/ q = <<Absorb>>
        BY <1>1, <1>2, <2>1 DEF ServerOK, QueueOK
      <3>2. (q = <<>> /\ n = <<o>>) \/ (q = <<Absorb>> /\ n = <<Absorb, o>>)
        <4>1. Append(<<>>, o) = <<o>> /\ Append(<<Absorb>>, o) = <<Absorb, o>>
          BY <1>3, ShortQueues
        <4>. QED
          BY <1>5, <2>1, <3>1, <4>1
      <3>3. (\E k \in DOMAIN n : n[k] = Absorb) => \E k \in DOMAIN q : q[k] = Absorb
        <4>1. CASE n = <<o>>
          BY <1>3, <4>1
        <4>2. CASE q = <<Absorb>>
          <5>1. 1 \in DOMAIN q /\ q[1] = Absorb
            BY <4>2
          <5>. QED
            BY <5>1
        <4>. QED
          BY <3>2, <4>1, <4>2
      <3>. QED
        BY <1>1, <1>2, <1>4, <1>6, <2>1, <3>2, <3>3 DEF ServerOK, QueueOK
    <2>2. CASE l # <<>>
      <3>1. /\ q = <<l[1]>> \/ q = <<Absorb, l[1]>> \/ q = <<l[1], Absorb>>
            /\ (\E k \in DOMAIN q : q[k] = Absorb) => srv[i].committing
        BY <1>1, <1>2, <2>2 DEF ServerOK, QueueOK
      <3>2. m # <<>> /\ m[1] = l[1] /\ n = q
        BY <1>5, <1>6, <2>2
      <3>. QED
        BY <1>4, <3>1, <3>2 DEF QueueOK
    <2>. QED
      BY <2>1, <2>2
  <1>. QED
    BY <1>1, <1>8, <1>9 DEF ServerOK, GoneOK, GateOK, QuotaOK

(* The check and the lockdown: refused, or queued behind who was first.    *)
LEMMA CheckThenLockdownReady ==
    ASSUME Ready, NEW o \in Ops, CheckThenLockdown(o) PROVE Ready'
  <1>1. op[o].pc = "check" /\ UNCHANGED <<remote, nCommits, nWrites, nFaults>>
    BY DEF CheckThenLockdown
  <1>2. CASE ~Allowed(o)
    BY <1>1, <1>2, RefusedReady DEF CheckThenLockdown, Goes
  <1>3. CASE Allowed(o)
    <2>1. PICK i : i = op[o].at
      OBVIOUS
    <2>2. PICK r, l, q : /\ r = srv[i] /\ l = Append(srv[i].lockdown, o)
                         /\ q = IF srv[i].lockdown = <<>> THEN Append(srv[i].index, o) ELSE srv[i].index
      OBVIOUS
    <2>3. PICK d : d = [r EXCEPT !.ready = FALSE, !.lockdown = l, !.index = q]
      OBVIOUS
    <2>4. PICK k : k = [op[o] EXCEPT !.pc = "fetch"]
      OBVIOUS
    <2>5. Host(i, d) /\ op' = [op EXCEPT ![o] = k]
      BY <1>3, <2>1, <2>2, <2>3, <2>4 DEF CheckThenLockdown, Host
    <2>6. i \in Servers /\ r \in Server /\ LocalOK(o) /\ r.up
      BY <1>1, <2>1, <2>2, RequestTyped, ServerTyped DEF Ready, LocalOK, RequestOK
    <2>7. l \in Seq(Ops) /\ q \in Seq(Ops \cup {Absorb})
      <3>1. srv[i].lockdown \in Seq(Ops) /\ srv[i].index \in Seq(Ops \cup {Absorb})
        BY <2>6, ServerTyped
      <3>. QED
        BY <2>2, <3>1
    <2>8. /\ d \in Server /\ ~d.ready /\ d.lockdown = l /\ d.index = q /\ d.head = r.head
          /\ d.content = r.content /\ d.last = r.last /\ d.authRef = r.authRef /\ d.parent = r.parent
          /\ d.up = r.up /\ d.active = r.active /\ d.committing = r.committing /\ d.inFlight = r.inFlight
      BY <2>3, <2>6, <2>7 DEF Server
    <2>9. k \in Request /\ k.at = i /\ k.pc = "fetch" /\ k.kind = op[o].kind
      BY <2>1, <2>4, RequestTyped DEF Request, Steps
    <2>10. op'[o] = k /\ (\A u \in Ops \ {o} : op'[u] = op[u]) /\ op' \in [Ops -> Request]
      BY <2>5, <2>9 DEF Ready, Typed
    <2>11. srv'[i] = d
      BY <2>5, <2>6 DEF Host, Ready, Typed
    <2>12. ServerOK(i)'
      BY <1>1, <2>1, <2>2, <2>5, <2>8, <2>9, <2>10, LockdownQueues
    <2>13. \A who : Indexed(i, who) => Indexed(i, who)'
      <3>1. r.index # <<>> => q # <<>> /\ Head(q) = Head(r.index)
        <4>1. r.index \in Seq(Ops \cup {Absorb}) /\ o \in Ops \cup {Absorb}
          BY <2>2, <2>6, ServerTyped
        <4>. QED
          BY <2>2, <4>1, QueuesBehind
      <3>. QED
        BY <2>2, <2>8, <2>11, <3>1 DEF Indexed
    <2>14. CommitsOK'
      BY <1>1, <2>2, <2>5, <2>6, <2>8, <2>11, <2>13, NoneSpent DEF Unspent
    <2>15. BackupIsOneMoment' /\ RemoteGrows /\ remote' \in Refs
      BY <1>1, RemoteStays DEF Ready, BackupIsOneMoment
    <2>16. ASSUME NEW u \in Ops PROVE (op'[u] = op[u] /\ op[u].at # i) \/ LocalOK(u)'
      <3>1. CASE u = o
        <4>1. k.kind = "restore" => remote.auth # <<>>
          BY <1>3, <2>9 DEF Allowed
        <4>. QED
          BY <1>1, <2>6, <2>8, <2>9, <2>10, <2>11, <3>1, <4>1
          DEF LocalOK, RequestOK, BackupOK, RestoreOK, HeadOK, Deep, Working
      <3>2. CASE u # o /\ op[u].at = i
        BY <1>1, <2>2, <2>8, <2>10, <2>11, <2>13, <3>2, Undisturbed
      <3>. QED
        BY <2>10, <3>1, <3>2
    <2>17. "checkout_fails" \notin Env => TreeOK(i)'
      <3> SUFFICES ASSUME "checkout_fails" \notin Env, r.up, r.content # r.head, ~Indexed(i, Absorb)'
                   PROVE  \E u \in Ops : op'[u].at = i /\ op'[u].pc = "content"
        BY <2>8, <2>11 DEF TreeOK
      <3>1. PICK u \in Ops : op[u].at = i /\ op[u].pc = "content"
        BY <2>2, <2>6, <2>13 DEF Ready, TreeOK
      <3>2. u # o
        BY <1>1, <3>1
      <3>. QED
        BY <2>10, <3>1, <3>2
    <2>18. RecordOK(i)'
      BY <2>2, <2>5, <2>6, <2>8, <2>15, RecordStays
    <2>19. nWrites' \in 1 .. MaxWrites /\ nWrites <= nWrites' /\ nFaults' \in 0 .. MaxFaults /\ nCommits' \in Nat \ {0}
      BY <1>1, OthersTyped
    <2>20. \A u \in Ops : op[u].pc \in Working /\ op[u].at # i => op'[u] = op[u]
      BY <2>1, <2>10
    <2>. QED
      BY <2>5, <2>6, <2>8, <2>10, <2>12, <2>14, <2>15, <2>16, <2>17, <2>18, <2>19, <2>20, HostStep
  <1>. QED
    BY <1>2, <1>3

-----------------------------------------------------------------------------
(* Processes that stop, and start again.                                   *)

(* Nothing of the process outlives it, whatever is on the disk.            *)
LEMMA StoppedIs ==
    ASSUME NEW r \in Server, NEW d, d = Stopped(r)
    PROVE  /\ d \in Server /\ ~d.up /\ ~d.ready /\ d.lockdown = <<>> /\ d.index = <<>>
           /\ d.inFlight = {} /\ d.last = <<>>
           /\ d.head = r.head /\ d.content = r.content /\ d.active = r.active
           /\ d.committing = r.committing
  <1>1. <<>> \in Seq(Ops) /\ <<>> \in Seq(Ops \cup {Absorb}) /\ <<>> \in Seq(Refs)
    OBVIOUS
  <1>2. PICK l, q, s : l = <<>> /\ q = <<>> /\ s = <<>>
    OBVIOUS
  <1>3. d = [r EXCEPT !.up = FALSE, !.ready = FALSE, !.lockdown = l, !.index = q, !.inFlight = {}, !.last = s]
    BY <1>2 DEF Stopped
  <1>4. /\ d \in Server /\ ~d.up /\ ~d.ready /\ d.lockdown = l /\ d.index = q
        /\ d.inFlight = {} /\ d.last = s
        /\ d.head = r.head /\ d.content = r.content /\ d.active = r.active
        /\ d.committing = r.committing
    BY <1>1, <1>2, <1>3 DEF Server
  <1>. QED
    BY <1>2, <1>4

(* A process that stops takes its requests with it.                        *)
LEMMA StopsReady ==
    ASSUME Ready, NEW i \in Servers, NEW disk \in Server, Stops(i, disk),
           disk.active <= nWrites, disk.committing => disk.active > 0,
           disk.committing /\ disk.content = disk.head => Unspent(i),
           UNCHANGED <<remote, nCommits, nWrites>>, nFaults' \in 0 .. MaxFaults
    PROVE  Ready'
  <1>1. PICK d : d = Stopped(disk)
    OBVIOUS
  <1>2. Host(i, d) /\ srv[i].up
    BY <1>1 DEF Stops, Host
  <1>3. /\ d \in Server /\ ~d.up /\ ~d.ready /\ d.lockdown = <<>> /\ d.index = <<>>
        /\ d.inFlight = {} /\ d.last = <<>> /\ d.active = disk.active /\ d.committing = disk.committing
        /\ d.content = disk.content /\ d.head = disk.head
    BY <1>1, StoppedIs
  <1>4. srv'[i] = d
    BY <1>2 DEF Host, Ready, Typed
  <1>5. ASSUME NEW u \in Ops
        PROVE  /\ op'[u] \in Request /\ op'[u].at = op[u].at
               /\ op[u].at # i => op'[u] = op[u]
               /\ op[u].at = i => op'[u].pc \in {"unused", "done"}
    <2>1. PICK k : k = [op[u] EXCEPT !.pc = "done"]
      OBVIOUS
    <2>2. k \in Request /\ k.at = op[u].at /\ k.pc = "done"
      BY <2>1, RequestTyped DEF Request, Steps
    <2>3. op'[u] = IF op[u].at = i /\ op[u].pc # "unused" THEN k ELSE op[u]
      BY <2>1 DEF Stops
    <2>. QED
      BY <2>2, <2>3, RequestTyped
  <1>6. op' \in [Ops -> Request]
    <2>1. op' = [u \in Ops |-> op'[u]]
      BY DEF Stops
    <2>. QED
      BY <1>5, <2>1
  <1>7. ServerOK(i)'
    <2>1. QuotaOK(srv[i])'
      BY <1>3, <1>4, OthersTyped DEF QuotaOK, Server
    <2>2. QueueOK(d) /\ GoneOK(d) /\ GateOK(d)
      BY <1>3 DEF QueueOK, GoneOK, GateOK
    <2>3. ChainOK(i)'
      BY <1>3, <1>4 DEF ChainOK
    <2>. QED
      BY <1>4, <2>1, <2>2, <2>3 DEF ServerOK
  <1>8. CommitsOK'
    <2>1. Unspent(i)' => Unspent(i)
      BY <1>3, <1>4 DEF Unspent
    <2>. QED
      BY <1>2, <2>1, NoneSpent
  <1>9. BackupIsOneMoment' /\ RemoteGrows /\ remote' \in Refs
    BY RemoteStays DEF Ready, BackupIsOneMoment
  <1>10. \A u \in Ops : (op'[u] = op[u] /\ op[u].at # i) \/ LocalOK(u)'
    BY <1>5 DEF LocalOK, RequestOK, BackupOK, RestoreOK, HeadOK, Deep, Working
  <1>11. TreeOK(i)'
    BY <1>3, <1>4 DEF TreeOK
  <1>12. RecordOK(i)'
    BY <1>3, <1>4 DEF RecordOK
  <1>13. nWrites' \in 1 .. MaxWrites /\ nWrites <= nWrites' /\ nCommits' \in Nat \ {0}
    BY OthersTyped
  <1>. QED
    BY <1>2, <1>3, <1>5, <1>6, <1>7, <1>8, <1>9, <1>10, <1>11, <1>12, <1>13, HostStep

(* A crash keeps the disk.                                                 *)
LEMMA CrashReady ==
    ASSUME Ready, NEW i \in Servers, Crash(i) PROVE Ready'
  <1>1. /\ Stops(i, srv[i]) /\ UNCHANGED <<remote, nCommits, nWrites>>
        /\ nFaults < MaxFaults /\ nFaults' = nFaults + 1 /\ srv[i].up
    BY DEF Crash, Fault, Stops
  <1>2. srv[i].active <= nWrites /\ (srv[i].committing => srv[i].active > 0)
    <2>1. QuotaOK(srv[i])
      BY DEF Ready, ServerOK
    <2>. QED
      BY <2>1, ServerTyped, OthersTyped DEF QuotaOK
  <1>3. srv[i].committing /\ srv[i].content = srv[i].head => Unspent(i)
    BY <1>1 DEF Unspent
  <1>4. nFaults' \in 0 .. MaxFaults /\ srv[i] \in Server
    BY <1>1, OthersTyped, ServerTyped
  <1>. QED
    BY <1>1, <1>2, <1>3, <1>4, StopsReady

(* An empty data directory is well formed.                                 *)
LEMMA VirginTyped ==
    /\ Virgin \in Server /\ ~Virgin.committing /\ Virgin.active = 0 /\ Virgin.content = Virgin.head
    /\ Virgin.lockdown = <<>> /\ Virgin.index = <<>> /\ Virgin.inFlight = {} /\ Virgin.last = <<>>
    /\ Virgin.up /\ Virgin.ready
  <1>1. <<>> \in Seq(Nat) /\ <<>> \in Snapshots /\ <<>> \in Seq(Ops) /\ <<>> \in Seq(Ops \cup {Absorb})
    BY DEF Snapshots
  <1>2. <<>> \in Seq(Refs)
    OBVIOUS
  <1>3. 0 \in 0 .. MaxWrites
    BY BackupAssumption
  <1>. QED
    BY <1>1, <1>2, <1>3 DEF Virgin, Server

(* A host that is replaced by an empty one has nothing to lose any more.   *)
LEMMA DiskLostReady ==
    ASSUME Ready, NEW i \in Servers, DiskLost(i) PROVE Ready'
  <1>1. /\ Stops(i, Virgin) /\ UNCHANGED <<remote, nCommits, nWrites>>
        /\ nFaults < MaxFaults /\ nFaults' = nFaults + 1
    BY DEF DiskLost, Fault
  <1>2. nFaults' \in 0 .. MaxFaults /\ 0 <= nWrites
    BY <1>1, OthersTyped
  <1>. QED
    BY <1>1, <1>2, VirginTyped, StopsReady

(* detectAndRecoverCrash: the server starts with its tree at its HEAD.     *)
LEMMA RestartReady ==
    ASSUME Ready, NEW i \in Servers, Restart(i) PROVE Ready'
  <1>1. PICK r, lands : r = srv[i] /\ lands = (r.committing /\ r.content = r.head)
    OBVIOUS
  <1>2. PICK h, a : /\ h = IF lands THEN Append(r.head, nCommits + 1) ELSE r.content
                    /\ a = IF r.committing THEN r.active - 1 ELSE r.active
    OBVIOUS
  <1>3. PICK d : d = [r EXCEPT !.head = h, !.content = h, !.committing = FALSE, !.active = a,
                               !.up = TRUE, !.ready = TRUE]
    OBVIOUS
  <1>4. /\ ~r.up /\ Host(i, d) /\ nCommits' = IF lands THEN nCommits + 1 ELSE nCommits
        /\ UNCHANGED <<op, remote, nWrites, nFaults>>
    BY <1>1, <1>2, <1>3 DEF Restart, Host
  <1>5. ServerOK(i) /\ r \in Server /\ r.head \in Seq(Nat) /\ r.content \in Seq(Nat)
    BY <1>1, ServerTyped DEF Ready
  <1>6. h \in Seq(Nat)
    <2>1. nCommits + 1 \in Nat
      BY OthersTyped
    <2>. QED
      BY <1>2, <1>5, <2>1
  <1>7. /\ a \in 0 .. MaxWrites /\ a <= nWrites
    <2>1. r.active \in 0 .. MaxWrites /\ r.active <= nWrites /\ (r.committing => r.active > 0)
      BY <1>1, <1>5, ServerTyped, OthersTyped DEF ServerOK, QuotaOK
    <2>2. nWrites \in Nat /\ MaxWrites \in Nat
      BY OthersTyped
    <2>3. a = r.active \/ (a = r.active - 1 /\ r.active > 0)
      BY <1>2, <2>1
    <2>. QED
      BY <2>1, <2>2, <2>3
  <1>8. /\ d \in Server /\ d.head = h /\ d.content = h /\ ~d.committing /\ d.active = a /\ d.up /\ d.ready
        /\ d.lockdown = r.lockdown /\ d.index = r.index /\ d.inFlight = r.inFlight /\ d.last = r.last
    BY <1>3, <1>5, <1>6, <1>7 DEF Server
  <1>9. r.lockdown = <<>> /\ r.index = <<>> /\ r.inFlight = {} /\ r.last = <<>>
    BY <1>1, <1>4, <1>5 DEF ServerOK, GoneOK
  <1>10. srv'[i] = d
    BY <1>4 DEF Host, Ready, Typed
  <1>11. ServerOK(i)'
    <2>1. QuotaOK(srv[i])'
      BY <1>4, <1>7, <1>8, <1>9, <1>10, OthersTyped DEF QuotaOK
    <2>2. QueueOK(d) /\ GoneOK(d) /\ GateOK(d)
      BY <1>8, <1>9 DEF QueueOK, GoneOK, GateOK
    <2>3. ChainOK(i)'
      BY <1>8, <1>9, <1>10 DEF ChainOK
    <2>. QED
      BY <1>10, <2>1, <2>2, <2>3 DEF ServerOK
  <1>12. CommitsOK'
    <2>1. ~Unspent(i)'
      BY <1>8, <1>10 DEF Unspent
    <2>2. CASE lands
      BY <1>1, <1>4, <2>1, <2>2, OneSpent DEF Unspent
    <2>3. CASE ~lands
      BY <1>4, <2>1, <2>3, NoneSpent
    <2>. QED
      BY <2>2, <2>3
  <1>13. RemoteGrows /\ remote' \in Refs /\ BackupIsOneMoment'
    BY <1>4, RemoteStays DEF Ready, BackupIsOneMoment
  <1>14. op' \in [Ops -> Request] /\ \A u \in Ops : op'[u] = op[u]
    BY <1>4 DEF Ready, Typed
  <1>15. ASSUME NEW u \in Ops PROVE (op'[u] = op[u] /\ op[u].at # i) \/ LocalOK(u)'
    <2>1. CASE op[u].at = i
      <3>1. op[u].pc \in {"unused", "done"}
        BY <1>1, <1>4, <2>1 DEF Ready, LocalOK, RequestOK
      <3>. QED
        BY <1>13, <1>14, <3>1, Bystander DEF Deep, Working
    <2>. QED
      BY <1>14, <2>1
  <1>16. TreeOK(i)'
    BY <1>8, <1>10 DEF TreeOK
  <1>17. RecordOK(i)'
    BY <1>8, <1>9, <1>10 DEF RecordOK
  <1>18. nWrites' \in 1 .. MaxWrites /\ nWrites <= nWrites' /\ nFaults' \in 0 .. MaxFaults /\ nCommits' \in Nat \ {0}
    BY <1>4, OthersTyped
  <1>. QED
    BY <1>4, <1>8, <1>11, <1>12, <1>13, <1>14, <1>15, <1>16, <1>17, <1>18, HostStep

-----------------------------------------------------------------------------
(* The system.                                                             *)

(* At first nobody has asked for anything, and one server has a history.   *)
LEMMA InitReady == Init => Ready
  <1> SUFFICES ASSUME Init PROVE Ready
    OBVIOUS
  <1>1. PICK f : f = [Virgin EXCEPT !.head = <<1>>, !.content = <<1>>, !.auth = 1]
    OBVIOUS
  <1>2. /\ f \in Server /\ ~f.committing /\ f.active = 0 /\ f.content = f.head
        /\ f.lockdown = <<>> /\ f.index = <<>> /\ f.inFlight = {} /\ f.last = <<>>
        /\ f.up /\ f.ready
    <2>1. PICK v, h, a : v = Virgin /\ h = <<1>> /\ a = 1
      OBVIOUS
    <2>2. v \in Server /\ h \in Seq(Nat) /\ a \in 0 .. MaxWrites
      BY <2>1, VirginTyped, BackupAssumption
    <2>3. f = [v EXCEPT !.head = h, !.content = h, !.auth = a]
      BY <1>1, <2>1
    <2>4. /\ f \in Server /\ f.committing = v.committing /\ f.active = v.active /\ f.content = f.head
          /\ f.lockdown = v.lockdown /\ f.index = v.index /\ f.inFlight = v.inFlight /\ f.last = v.last
          /\ f.up = v.up /\ f.ready = v.ready
      BY <2>2, <2>3 DEF Server
    <2>. QED
      BY <2>1, <2>4, VirginTyped
  <1>3. \A i \in Servers : srv[i] \in {f, Virgin}
    BY <1>1 DEF Init
  <1>4. \A i \in Servers :
          /\ srv[i] \in Server /\ ~srv[i].committing /\ srv[i].active = 0 /\ srv[i].content = srv[i].head
          /\ srv[i].lockdown = <<>> /\ srv[i].index = <<>> /\ srv[i].inFlight = {} /\ srv[i].last = <<>>
          /\ srv[i].up /\ srv[i].ready
    BY <1>2, <1>3, VirginTyped
  <1>5. op = [o \in Ops |-> NoOp] /\ remote = [content |-> <<>>, auth |-> <<>>]
        /\ nCommits = 1 /\ nWrites = 1 /\ nFaults = 0
    BY DEF Init
  <1>6. remote \in Refs /\ NoOp \in Request /\ NoOp.pc = "unused"
    <2>1. <<>> \in Seq(Nat) /\ <<>> \in Snapshots
      BY DEF Snapshots
    <2>2. [content |-> <<>>, auth |-> <<>>] \in Refs
      BY <2>1 DEF Refs
    <2>. QED
      BY <1>5, <2>1, <2>2, BackupAssumption DEF NoOp, Request, Steps
  <1>7. Cardinality(Servers) \in Nat /\ Cardinality(Servers) # 0
    BY BackupAssumption, FS_CardinalityType, FS_EmptySet
  <1>8. Typed
    <2>1. srv \in [Servers -> Server]
      BY <1>4 DEF Init
    <2>2. op \in [Ops -> Request]
      BY <1>5, <1>6
    <2>. QED
      BY <1>5, <1>6, <1>7, <2>1, <2>2, BackupAssumption DEF Typed
  <1>9. CommitsOK
    <2>1. {i \in Servers : Unspent(i)} = {}
      BY <1>4 DEF Unspent
    <2>2. Cardinality({i \in Servers : Unspent(i)}) = 0
      BY <2>1, FS_EmptySet
    <2>. QED
      BY <1>5, <1>7, <2>2, BackupAssumption DEF CommitsOK
  <1>10. ASSUME NEW i \in Servers PROVE ServerOK(i) /\ RecordOK(i) /\ TreeOK(i)
    <2>1. QuotaOK(srv[i])
      BY <1>4, <1>5 DEF QuotaOK
    <2>2. QueueOK(srv[i]) /\ GoneOK(srv[i]) /\ GateOK(srv[i])
      BY <1>4 DEF QueueOK, GoneOK, GateOK
    <2>3. ChainOK(i)
      BY <1>4 DEF ChainOK
    <2>. QED
      BY <1>4, <2>1, <2>2, <2>3 DEF ServerOK, RecordOK, TreeOK
  <1>11. \A o \in Ops : LocalOK(o)
    BY <1>5, <1>6 DEF LocalOK, RequestOK, BackupOK, RestoreOK, HeadOK, Deep, Working
  <1>12. BackupIsOneMoment
    BY <1>5 DEF BackupIsOneMoment
  <1>. QED
    BY <1>8, <1>9, <1>10, <1>11, <1>12 DEF Ready

(* Every step keeps the invariant.                                         *)
LEMMA StepReady == Ready /\ [Next]_vars => Ready'
  <1> SUFFICES ASSUME Ready, [Next]_vars PROVE Ready'
    OBVIOUS
  <1>1. ASSUME NEW i \in Servers, NEW kind \in {"propose", "auth"}, RequestArrives(i, kind) PROVE Ready'
    BY <1>1, ArrivesReady
  <1>2. ASSUME NEW i \in Servers, Writes(i) PROVE Ready'
    BY <1>2, ProposeReady, WriteAuthReady, AbsorbWritesReady, AbsorbCommitsReady DEF Writes
  <1>3. ASSUME NEW i \in Servers, PublishBegins(i) PROVE Ready'
    BY <1>3, PublishBeginsReady
  <1>4. ASSUME NEW i \in Servers, Crash(i) \/ DiskLost(i) \/ Restart(i) PROVE Ready'
    BY <1>4, CrashReady, DiskLostReady, RestartReady
  <1>5. ASSUME NEW o \in Ops, NEW i \in Servers, NEW kind \in {"backup", "restore"}, AdminAsks(o, i, kind)
        PROVE  Ready'
    BY <1>5, AdminAsksReady
  <1>6. ASSUME NEW o \in Ops, Work(o) PROVE Ready'
    BY <1>6, CheckThenLockdownReady, FetchAuthTipReady, BuildSnapshotReady, PushReady, ReadBackReady,
       FetchBackupReady, SetHeadReady, CheckoutContentReady, CheckoutAuthReady DEF Work
  <1>7. ASSUME NEW o \in Ops, GitFails(o) \/ AnswerLost(o) PROVE Ready'
    BY <1>7, GitFailsReady, AnswerLostReady
  <1>8. CASE UNCHANGED vars
    <2>1. /\ srv' = srv /\ op' = op /\ remote' = remote
          /\ nCommits' = nCommits /\ nWrites' = nWrites /\ nFaults' = nFaults
      BY <1>8 DEF vars
    <2>2. Typed'
      BY <2>1 DEF Ready, Typed
    <2>3. CommitsOK'
      <3>1. \A i \in Servers : Unspent(i)' <=> Unspent(i)
        BY <2>1 DEF Unspent, Indexed
      <3>2. {i \in Servers : Unspent(i)'} = {i \in Servers : Unspent(i)}
        BY <3>1
      <3>. QED
        BY <2>1, <3>2 DEF Ready, CommitsOK
    <2>4. ASSUME NEW i \in Servers PROVE ServerOK(i)' /\ RecordOK(i)'
      <3>1. ServerOK(i) /\ RecordOK(i)
        BY DEF Ready
      <3>2. ServerOK(i)'
        BY <2>1, <3>1 DEF ServerOK, QueueOK, ChainOK, GoneOK, GateOK, QuotaOK
      <3>. QED
        BY <2>1, <3>1, <3>2 DEF RecordOK
    <2>5. ASSUME NEW o \in Ops PROVE LocalOK(o)'
      <3>1. LocalOK(o)
        BY DEF Ready
      <3>. QED
        BY <2>1, <3>1 DEF LocalOK, RequestOK, BackupOK, RestoreOK, HeadOK, Indexed
    <2>6. BackupIsOneMoment'
      BY <2>1 DEF Ready, BackupIsOneMoment
    <2>7. ASSUME NEW i \in Servers, TreeOK(i) PROVE TreeOK(i)'
      BY <2>1, <2>7 DEF TreeOK, Indexed
    <2>. QED
      BY <2>2, <2>3, <2>4, <2>5, <2>6, <2>7 DEF Ready
  <1>. QED
    BY <1>1, <1>2, <1>3, <1>4, <1>5, <1>6, <1>7, <1>8 DEF Next

(* The inductive invariant is one.                                         *)
THEOREM AlwaysReady == Spec => []Ready
  BY InitReady, StepReady, PTL DEF Spec

-----------------------------------------------------------------------------
(* What it is for.                                                         *)

(* Every server, every request and the remote are well typed, and a server
   that takes requests is outside of any lockdown.                         *)
THEOREM TypeCorrect == Spec => []TypeOK
  <1>1. Ready => TypeOK
    BY DEF Ready, ServerOK, QuotaOK, GateOK, TypeOK
  <1>. QED
    BY <1>1, AlwaysReady, PTL

(* The two refs of the remote are of one moment, whatever fails, crashes or
   writes during a lockdown.                                               *)
THEOREM OneMoment == Spec => []BackupIsOneMoment
  <1>1. Ready => BackupIsOneMoment
    BY DEF Ready
  <1>. QED
    BY <1>1, AlwaysReady, PTL

(* No earlier run blocks a backup: unless the remote has moved since the
   fetch, what is about to be pushed continues its auth ref.               *)
THEOREM FastForward == Spec => []SnapshotFastForwards
  <1>1. Ready => SnapshotFastForwards
    BY DEF Ready, LocalOK, BackupOK, SnapshotFastForwards, At
  <1>. QED
    BY <1>1, AlwaysReady, PTL

(* What last_successful_backup names is on the remote, and stays there
   whoever else pushes.                                                    *)
THEOREM RecordTold == Spec => []RecordedBackupIsThere
  <1>1. Ready => RecordedBackupIsThere
    BY DEF Ready, RecordOK, RecordedBackupIsThere
  <1>. QED
    BY <1>1, AlwaysReady, PTL

(* Where no checkout fails in the middle of a restore, a server that takes
   requests shows what its branch has, or is in the middle of a publish.   *)
THEOREM TreeShown == ASSUME "checkout_fails" \notin Env PROVE Spec => []ReadyTreeIsHead
  <1>1. Ready => ReadyTreeIsHead
    <2> SUFFICES ASSUME Ready, NEW i \in Servers, srv[i].ready, ~Indexed(i, Absorb)
                 PROVE  srv[i].content = srv[i].head
      BY DEF ReadyTreeIsHead
    <2>1. ServerOK(i) /\ TreeOK(i)
      BY DEF Ready
    <2>2. srv[i].up /\ (srv[i].index = <<>> \/ srv[i].index = <<Absorb>>)
      BY <2>1 DEF ServerOK, GateOK, QueueOK
    <2>3. srv[i].index = <<>>
      BY <2>2 DEF Indexed
    <2>4. ASSUME NEW o \in Ops, op[o].at = i, op[o].pc = "content" PROVE FALSE
      BY <2>3, <2>4 DEF Ready, LocalOK, RequestOK, Indexed, Deep, Working
    <2>. QED
      BY <2>1, <2>2, <2>4 DEF TreeOK
  <1>. QED
    BY <1>1, AlwaysReady, PTL

=============================================================================
