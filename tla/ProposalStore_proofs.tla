-------------------------- MODULE ProposalStore_proofs --------------------------
(***************************************************************************)
(* Proofs about ProposalStore for any number of proposals, sections,       *)
(* requests, writes and stops, and whatever the environment may do (Env):  *)
(* the store stays well formed, its working tree is clean whenever nobody  *)
(* publishes, a status and a lock mean one thing at a time, a write that   *)
(* was answered is kept, and a proposal lands once and whole.              *)
(*                                                                         *)
(* TypeOK is not inductive: a request carries what it read at its start to *)
(* steps that come much later, and a publish in the index mutex must have  *)
(* asked for it. Formed adds that.                                         *)
(***************************************************************************)
EXTENDS ProposalStore, FiniteSetTheorems, WellFoundedInduction, TLAPS

(* The phases in which a publish waits for the git index or holds it.      *)
Queued == {"queued", "copy", "landed"}

\* What a request has read is complete for the step it is at.
TaskFormed(k) ==
  /\ k.pc = "idle" => k = Idle
  /\ k.pc # "idle" => k.p \in Proposals
  /\ k.pc \in {"content", "answer", "claim"} => k.w > 0 /\ k.sec \in Sections /\ k.from \in Statuses
  /\ k.pc \in {"meta", "rename"} => k.from \in Statuses /\ k.to \in Statuses

(* Every request is complete for the step it is at.                        *)
TasksFormed == \A t \in AllTasks : TaskFormed(task[t])

(* The index mutex: who waits in it has asked for it and waits once, and a
   publish that copies or has committed is at its head.                    *)
QueueOK ==
  /\ \A i \in DOMAIN index : task[index[i]].pc \in Queued
  /\ \A i, j \in DOMAIN index : index[i] = index[j] => i = j
  /\ \A t \in AllTasks : task[t].pc \in {"copy", "landed"} => HoldsIndex(t)

(* Requests run while the server is up, the recovery while it recovers,
   and nothing at all while it is down.                                    *)
BootOK ==
  /\ up = "up" => task[Boot].pc = "idle"
  /\ up # "up" => \A t \in Tasks : task[t].pc = "idle"
  /\ up = "down" => task[Boot].pc = "idle" /\ index = <<>>

(* The inductive invariant behind TypeOK.                                  *)
Formed == TypeOK /\ TasksFormed /\ QueueOK /\ BootOK

(* The status directories, one for each place in the search order.         *)
LEMMA StatusesAre == /\ Statuses = {"draft", "pending", "inprogress", "committing", "committed", "withdrawn"}
                     /\ DOMAIN StatusOrder = 1 .. 6
  BY DEF Statuses, StatusOrder

(* A proposal is found in one of the status directories or nowhere.        *)
LEMMA LocateType == ASSUME NEW p PROVE Locate(p) \in Statuses \cup {Missing}
  <1> DEFINE m(i) == dir[p][StatusOrder[i]].meta
  <1>1. CASE \E i \in 1 .. 6 : m(i)
    <2>1. \E i \in 1 .. 6 : m(i) /\ \A j \in 1 .. i - 1 : ~m(j)
      <3> HIDE DEF m
      <3>1. m(1) \/ m(2) \/ m(3) \/ m(4) \/ m(5) \/ m(6)
        BY <1>1
      <3>. QED
        BY <3>1
    <2>. QED
      BY <2>1, StatusesAre DEF Locate, Statuses
  <1>2. CASE ~ \E i \in 1 .. 6 : m(i)
    BY <1>2, StatusesAre DEF Locate
  <1>. QED
    BY <1>1, <1>2

(* A set of numbers that is not empty and has a bound has a largest
   element.                                                                *)
LEMMA LargestExists ==
    ASSUME NEW m \in Nat, NEW N, N \subseteq 1 .. m, N # {}
    PROVE  \E g \in N : \A n \in N : n <= g
  <1> DEFINE B == {i \in Nat : \A n \in N : n <= i}
             less == {ss \in Nat \X Nat : ss[1] < ss[2]}
  <1>1. IsWellFoundedOn(less, Nat)
    <2>1. less = OpToRel(<, Nat)
      BY Zenon DEF OpToRel
    <2>. QED
      BY <2>1, NatLessThanWellFounded, Zenon
  <1>2. m \in B
    OBVIOUS
  <1>3. PICK b \in B : \A i \in B : ~(<<i, b>> \in less)
    <2> HIDE DEF less
    <2>. QED
      BY <1>1, <1>2, WFMin
  <1>4. \A i \in B : b <= i
    <2> SUFFICES ASSUME NEW i \in B, i < b PROVE FALSE
      OBVIOUS
    <2>1. <<i, b>> \in less
      OBVIOUS
    <2>. QED
      BY <1>3, <2>1
  <1>5. CASE b \in N
    BY <1>5
  <1>6. CASE b \notin N
    <2>1. \A n \in N : n \in 1 .. m /\ n <= b /\ n # b
      BY <1>6
    <2>2. PICK n \in N : TRUE
      OBVIOUS
    <2>3. b - 1 \in Nat
      BY <2>1, <2>2
    <2>4. b - 1 \in B
      BY <2>1, <2>3
    <2>. QED
      BY <1>4, <2>4
  <1>. QED
    BY <1>5, <1>6

(* The newest write of a section is one of the writes of that section, and
   none is newer.                                                          *)
LEMMA NewestType ==
    ASSUME NEW W \in SUBSET Work, NEW s \in SectionsOf(W)
    PROVE  /\ NewestOf(W, s) \in 1 .. MaxWrites
           /\ \E w \in W : w.sec = s /\ w.n = NewestOf(W, s)
           /\ \A w \in W : w.sec = s => w.n <= NewestOf(W, s)
  <1> DEFINE N == {w.n : w \in {x \in W : x.sec = s}}
  <1>1. N # {} /\ N \subseteq 1 .. MaxWrites
    BY DEF SectionsOf, Work
  <1>2. PICK m \in N : \A n \in N : n <= m
    BY <1>1, LargestExists, StoreAssumption
  <1>3. \A w \in W : w.sec = s => w.n <= m
    BY <1>2
  <1>4. NewestOf(W, s) \in N /\ \A w \in W : w.sec = s => w.n <= NewestOf(W, s)
    BY <1>3 DEF NewestOf
  <1>. QED
    BY <1>1, <1>4

(* A request that goes on, outside the index mutex or where it stands in
   it, leaves the requests well formed.                                    *)
LEMMA TaskMoves ==
    ASSUME Formed, NEW t \in AllTasks, NEW k \in TaskType, TaskFormed(k),
           task' = [task EXCEPT ![t] = k], UNCHANGED <<index, up>>,
           task[t].pc \in Queued => k.pc \in Queued,
           k.pc \in {"copy", "landed"} => HoldsIndex(t),
           task[t].pc = "idle" => up = IF t = Boot THEN "recovering" ELSE "up"
    PROVE  RequestsTyped' /\ TasksFormed' /\ QueueOK' /\ BootOK'
  <1>1. RequestsTyped'
    BY DEF Formed, TypeOK, RequestsTyped
  <1>2. TasksFormed'
    BY DEF Formed, TypeOK, RequestsTyped, TasksFormed
  <1>3. QueueOK'
    BY DEF Formed, TypeOK, RequestsTyped, QueueOK, Queued, HoldsIndex
  <1>4. BootOK'
    BY StoreAssumption DEF Formed, TypeOK, RequestsTyped, BootOK, AllTasks
  <1>. QED
    BY <1>1, <1>2, <1>3, <1>4

(* So does the holder of the git index that gives it up.                   *)
LEMMA IndexReleased ==
    ASSUME Formed, NEW t \in AllTasks, HoldsIndex(t), NEW k \in TaskType, TaskFormed(k),
           task' = [task EXCEPT ![t] = k], index' = Tail(index), UNCHANGED up,
           task[t].pc \in Queued, k.pc \notin Queued
    PROVE  RequestsTyped' /\ TasksFormed' /\ QueueOK' /\ BootOK'
  <1>1. RequestsTyped'
    BY DEF Formed, TypeOK, RequestsTyped, HoldsIndex
  <1>2. TasksFormed'
    BY DEF Formed, TypeOK, RequestsTyped, TasksFormed
  <1>3. /\ index # <<>> /\ index[1] = t
        /\ DOMAIN index' = 1 .. Len(index) - 1
        /\ \A i \in DOMAIN index' : i + 1 \in DOMAIN index /\ index'[i] = index[i + 1] /\ index'[i] # t
    BY DEF Formed, TypeOK, RequestsTyped, QueueOK, HoldsIndex
  <1>4. QueueOK'
    <2>1. \A i \in DOMAIN index' : task'[index'[i]].pc \in Queued
      BY <1>3 DEF Formed, TypeOK, RequestsTyped, QueueOK
    <2>2. \A i, j \in DOMAIN index' : index'[i] = index'[j] => i = j
      BY <1>3 DEF Formed, QueueOK
    <2>3. \A u \in AllTasks : task'[u].pc \notin {"copy", "landed"}
      BY DEF Formed, TypeOK, RequestsTyped, QueueOK, Queued, HoldsIndex
    <2>. QED
      BY <2>1, <2>2, <2>3 DEF QueueOK
  <1>5. BootOK'
    BY StoreAssumption DEF Formed, TypeOK, RequestsTyped, BootOK, AllTasks, Queued
  <1>. QED
    BY <1>1, <1>2, <1>4, <1>5

(* And a publish that asks for the index.                                  *)
LEMMA IndexAsked ==
    ASSUME Formed, NEW t \in AllTasks, NEW k \in TaskType, TaskFormed(k),
           task' = [task EXCEPT ![t] = k], index' = Append(index, t), UNCHANGED up,
           task[t].pc = "enter", k.pc = "queued"
    PROVE  RequestsTyped' /\ TasksFormed' /\ QueueOK' /\ BootOK'
  <1>1. RequestsTyped'
    BY DEF Formed, TypeOK, RequestsTyped
  <1>2. TasksFormed'
    BY DEF Formed, TypeOK, RequestsTyped, TasksFormed
  <1>3. /\ DOMAIN index' = 1 .. Len(index) + 1
        /\ \A i \in DOMAIN index' : index'[i] = IF i <= Len(index) THEN index[i] ELSE t
        /\ \A i \in DOMAIN index : index[i] # t
    BY DEF Formed, TypeOK, RequestsTyped, QueueOK, Queued
  <1>4. QueueOK'
    <2>1. \A i \in DOMAIN index' : task'[index'[i]].pc \in Queued
      BY <1>3 DEF Formed, TypeOK, RequestsTyped, QueueOK, Queued
    <2>2. \A i, j \in DOMAIN index' : index'[i] = index'[j] => i = j
      BY <1>3 DEF Formed, TypeOK, RequestsTyped, QueueOK
    <2>3. \A u \in AllTasks : task'[u].pc \in {"copy", "landed"} => HoldsIndex(u)'
      BY DEF Formed, TypeOK, RequestsTyped, QueueOK, HoldsIndex
    <2>. QED
      BY <2>1, <2>2, <2>3 DEF QueueOK
  <1>5. BootOK'
    BY StoreAssumption DEF Formed, TypeOK, RequestsTyped, BootOK, AllTasks
  <1>. QED
    BY <1>1, <1>2, <1>4, <1>5

(* Changing the content of a directory leaves a directory.                 *)
LEMMA WorkTyped ==
    ASSUME NEW d \in DirType, NEW W \in SUBSET Work
    PROVE  /\ [d EXCEPT !.work = W] \in DirType
           /\ [d EXCEPT !.there = TRUE, !.work = W] \in DirType
  BY DEF DirType

(* Every status directory of every proposal is a directory.                *)
LEMMA EntryIsTyped ==
    ASSUME DiskTyped, NEW p \in Proposals, NEW st \in Statuses
    PROVE  dir[p][st] \in DirType
  BY DEF DiskTyped

(* Replacing one directory leaves the store well typed.                    *)
LEMMA EntryTyped ==
    ASSUME DiskTyped, NEW p \in Proposals, NEW st \in Statuses, NEW d \in DirType
    PROVE  [dir EXCEPT ![p][st] = d] \in [Proposals -> [Statuses -> DirType]]
  BY DEF DiskTyped

(* So does writing one meta.json.                                          *)
LEMMA MetaWrittenType ==
    ASSUME DiskTyped, NEW p \in Proposals, NEW st \in Statuses, NEW T \in SUBSET Sections,
           NEW l \in BOOLEAN
    PROVE  MetaWritten(p, st, T, l) \in [Proposals -> [Statuses -> DirType]]
  <1> DEFINE d == [dir[p][st] EXCEPT !.there = TRUE, !.meta = TRUE, !.targets = T, !.landed = l]
  <1>0. dir[p][st] \in DirType
    BY DEF DiskTyped
  <1>1. d \in DirType
    BY <1>0 DEF DirType
  <1>2. MetaWritten(p, st, T, l) = [dir EXCEPT ![p][st] = d]
    BY DEF MetaWritten
  <1>. QED
    BY <1>1, <1>2, EntryTyped

(* So does the rename from one status to another.                          *)
LEMMA MovedType ==
    ASSUME DiskTyped, NEW p \in Proposals, NEW st \in Statuses, NEW su \in Statuses
    PROVE  Moved(p, st, su) \in [Proposals -> [Statuses -> DirType]]
  BY DEF DiskTyped, Moved, DirType, NoDir

(* A proposal that is found claims sections.                               *)
LEMMA TargetsType ==
    ASSUME DiskTyped, NEW p \in Proposals, Locate(p) # Missing
    PROVE  Locate(p) \in Statuses /\ Targets(p) \in SUBSET Sections
  <1>1. Locate(p) \in Statuses
    BY LocateType
  <1>. QED
    BY <1>1 DEF DiskTyped, Targets, DirType

(* No request is a request at rest.                                        *)
LEMMA IdleTyped == Idle \in TaskType
  BY StoreAssumption DEF Phases, Idle, TaskType

(* A change of status that starts is complete for its first step.          *)
LEMMA RequestFormed ==
    ASSUME NEW pc \in {"meta", "rename"}, NEW p \in Proposals, NEW from \in Statuses,
           NEW to \in Statuses, NEW T \in SUBSET Sections
    PROVE  LET k == [Idle EXCEPT !.pc = pc, !.p = p, !.from = from, !.to = to, !.targets = T]
           IN  k \in TaskType /\ TaskFormed(k)
  <1> DEFINE k == [Idle EXCEPT !.pc = pc, !.p = p, !.from = from, !.to = to, !.targets = T]
  <1>1. p \in 0 .. MaxProposals /\ from \in Statuses \cup {Missing} /\ to \in Statuses \cup {Missing}
    BY StoreAssumption DEF Proposals
  <1>2. pc \in Phases
    BY DEF Phases
  <1>3. k \in TaskType
    BY <1>1, <1>2, IdleTyped DEF TaskType
  <1>4. k.pc = pc /\ k.p = p /\ k.from = from /\ k.to = to
    BY IdleTyped DEF TaskType
  <1>5. TaskFormed(k)
    <2> HIDE DEF k
    <2>. QED
      BY <1>4 DEF TaskFormed
  <1>. QED
    BY <1>3, <1>5

(* A write that starts is complete for its first step.                     *)
LEMMA ContentFormed ==
    ASSUME NEW p \in Proposals, NEW from \in Statuses, NEW T \in SUBSET Sections,
           NEW w \in 1 .. MaxWrites, NEW s \in Sections
    PROVE  LET k == [Idle EXCEPT !.pc = "content", !.p = p, !.from = from, !.targets = T, !.w = w, !.sec = s]
           IN  k \in TaskType /\ TaskFormed(k)
  <1> DEFINE k == [Idle EXCEPT !.pc = "content", !.p = p, !.from = from, !.targets = T, !.w = w, !.sec = s]
  <1>1. p \in 0 .. MaxProposals /\ from \in Statuses \cup {Missing} /\ w \in 0 .. MaxWrites /\ s \in Sections \cup {0} /\ w > 0
    BY StoreAssumption DEF Proposals
  <1>2. "content" \in Phases
    BY DEF Phases
  <1>3. k \in TaskType
    BY <1>1, <1>2, IdleTyped DEF TaskType
  <1>4. k.pc = "content" /\ k.p = p /\ k.from = from /\ k.w = w /\ k.sec = s
    BY IdleTyped DEF TaskType
  <1>5. TaskFormed(k)
    <2> HIDE DEF k
    <2>. QED
      BY <1>1, <1>4 DEF TaskFormed
  <1>. QED
    BY <1>3, <1>5

(* A write is taken by open proposals only, and in one under way only for
   sections it holds or may get.                                           *)
LEMMA MayWriteOpen ==
    ASSUME NEW p, NEW s, MayWrite(p, s)
    PROVE  /\ Locate(p) \in OpenStatuses
           /\ Locate(p) = "inprogress" =>
                \/ writer[p] = "human" /\ s \in Targets(p)
                \/ writer[p] = "session" /\ LocksAvailable(p, {s})
  BY DEF MayWrite, OpenStatuses

(* Creating a proposal keeps the store well formed.                        *)
LEMMA CreateFormed ==
    ASSUME Formed, NEW p \in Proposals, Create(p) PROVE Formed'
  <1>1. PICK who \in Writers, st \in Statuses, targets \in SUBSET Sections :
             CreateIn(p, who, st, targets)
    BY StatusesAre DEF Create, Writers
  <1>2. DiskTyped'
    BY <1>1, MetaWrittenType DEF Formed, TypeOK, CreateIn, DiskTyped
  <1>3. HistoryTyped' /\ RequestsTyped' /\ TasksFormed' /\ QueueOK' /\ BootOK'
    BY <1>1 DEF Formed, TypeOK, CreateIn, HistoryTyped, RequestsTyped, counters, TasksFormed,
                QueueOK, BootOK, HoldsIndex
  <1>. QED
    BY <1>2, <1>3 DEF Formed, TypeOK

(* Demoting a pending proposal to a draft keeps the store well formed.     *)
LEMMA DemoteFormed ==
    ASSUME Formed, NEW p \in Proposals, Demote(p) PROVE Formed'
  <1>1. DiskTyped'
    BY MovedType, StatusesAre DEF Formed, TypeOK, Demote, DiskTyped
  <1>2. HistoryTyped' /\ RequestsTyped' /\ TasksFormed' /\ QueueOK' /\ BootOK'
    BY DEF Formed, TypeOK, Demote, HistoryTyped, RequestsTyped, counters, TasksFormed,
                QueueOK, BootOK, HoldsIndex
  <1>. QED
    BY <1>1, <1>2 DEF Formed, TypeOK

\* A request that starts.
LEMMA RequestStarts ==
    ASSUME Formed, Running, NEW t, Free(t), NEW k \in TaskType, k.pc \notin Queued \cup {"idle"}, TaskFormed(k),
           task' = [task EXCEPT ![t] = k], UNCHANGED <<index, up>>
    PROVE  RequestsTyped' /\ TasksFormed' /\ QueueOK' /\ BootOK'
  <1>1. t \in AllTasks /\ t # Boot /\ task[t].pc = "idle" /\ up = "up"
    BY StoreAssumption DEF Free, Running, AllTasks
  <1>. QED
    BY <1>1, TaskMoves DEF Queued

(* Declaring what a draft is about keeps the store well formed.            *)
LEMMA DeclareFormed ==
    ASSUME Formed, NEW t, NEW p \in Proposals, Declare(t, p) PROVE Formed'
  <1>1. DiskTyped' /\ HistoryTyped'
    <2>1. dir' \in [Proposals -> [Statuses -> DirType]]
      <3>1. "draft" \in Statuses
        BY StatusesAre
      <3>2. [dir[p]["draft"] EXCEPT !.work = {}] \in DirType
        <4>1. dir[p]["draft"] \in DirType
          BY <3>1, EntryIsTyped DEF Formed, TypeOK
        <4>. QED
          BY <4>1, WorkTyped
      <3>3. \/ dir' = dir
            \/ dir' = [dir EXCEPT ![p]["draft"] = [dir[p]["draft"] EXCEPT !.work = {}]]
        BY DEF Declare
      <3>4. DiskTyped
        BY DEF Formed, TypeOK
      <3>5. CASE dir' = dir
        BY <3>4, <3>5 DEF DiskTyped
      <3>6. CASE dir' = [dir EXCEPT ![p]["draft"] = [dir[p]["draft"] EXCEPT !.work = {}]]
        BY <3>1, <3>2, <3>4, <3>6, EntryTyped
      <3>. QED
        BY <3>3, <3>5, <3>6
    <2>2. dropped' \subseteq 1 .. MaxWrites
      <3>1. {w.n : w \in dir[p]["draft"].work} \subseteq 1 .. MaxWrites
        BY StatusesAre DEF Formed, TypeOK, DiskTyped, DirType, Work
      <3>. QED
        BY <3>1 DEF Formed, TypeOK, Declare, HistoryTyped
    <2>. QED
      BY <2>1, <2>2 DEF Formed, TypeOK, Declare, DiskTyped, HistoryTyped, counters
  <1>2. PICK targets \in SUBSET Sections :
          task' = [task EXCEPT ![t] = [Idle EXCEPT !.pc = "meta", !.p = p, !.from = "draft",
                                                   !.to = "draft", !.targets = targets]]
    BY DEF Declare
  <1>3. RequestsTyped' /\ TasksFormed' /\ QueueOK' /\ BootOK'
    <2> DEFINE k == [Idle EXCEPT !.pc = "meta", !.p = p, !.from = "draft", !.to = "draft", !.targets = targets]
    <2>1. k \in TaskType /\ TaskFormed(k)
      BY StatusesAre, RequestFormed
    <2>2. k.pc = "meta"
      BY IdleTyped DEF TaskType
    <2>. QED
      BY <1>2, <2>1, <2>2, RequestStarts DEF Declare, Queued
  <1>. QED
    BY <1>1, <1>3 DEF Formed, TypeOK

(* Starting a write keeps the store well formed.                           *)
LEMMA WriteStartFormed ==
    ASSUME Formed, NEW t, NEW p \in Proposals, NEW s \in Sections, WriteStart(t, p, s) PROVE Formed'
  <1>1. DiskTyped' /\ HistoryTyped'
    <2>1. DiskTyped'
      BY DEF Formed, TypeOK, WriteStart, DiskTyped, disk
    <2>2. HistoryTyped'
      BY StoreAssumption DEF Formed, TypeOK, WriteStart, HistoryTyped
    <2>. QED
      BY <2>1, <2>2
  <1>2. Locate(p) \in Statuses /\ Targets(p) \in SUBSET Sections
    BY MayWriteOpen, TargetsType, LocateType DEF Formed, TypeOK, WriteStart, OpenStatuses, Missing
  <1>3. RequestsTyped' /\ TasksFormed' /\ QueueOK' /\ BootOK'
    <2> DEFINE k == [Idle EXCEPT !.pc = "content", !.p = p, !.from = Locate(p), !.targets = Targets(p), !.w = nWrites + 1, !.sec = s]
    <2>1. k \in TaskType /\ TaskFormed(k)
      <3>1. nWrites + 1 \in 1 .. MaxWrites
        BY StoreAssumption DEF Formed, TypeOK, HistoryTyped, WriteStart
      <3>. QED
        BY <1>2, <3>1, ContentFormed
    <2>2. k.pc = "content"
      BY IdleTyped DEF TaskType
    <2>. QED
      BY <2>1, <2>2, RequestStarts DEF WriteStart, Queued
  <1>. QED
    BY <1>1, <1>3 DEF Formed, TypeOK

(* Starting to acquire the locks of a draft keeps the store well formed.   *)
LEMMA AcquireStartFormed ==
    ASSUME Formed, NEW t, NEW p \in Proposals, AcquireStart(t, p) PROVE Formed'
  <1>1. DiskTyped' /\ HistoryTyped'
    BY DEF Formed, TypeOK, AcquireStart, DiskTyped, HistoryTyped, disk, counters
  <1>2. Targets(p) \in SUBSET Sections
    BY TargetsType DEF Formed, TypeOK, AcquireStart, Missing
  <1>3. RequestsTyped' /\ TasksFormed' /\ QueueOK' /\ BootOK'
    <2> DEFINE k == [Idle EXCEPT !.pc = "meta", !.p = p, !.from = "draft", !.to = "inprogress", !.targets = Targets(p)]
    <2>1. k \in TaskType /\ TaskFormed(k)
      <3>1. "meta" \in {"meta", "rename"} /\ "draft" \in Statuses /\ "inprogress" \in Statuses
        BY <1>2, StatusesAre
      <3>. QED
        BY <1>2, <3>1, RequestFormed
    <2>2. k.pc = "meta"
      BY IdleTyped DEF TaskType
    <2>. QED
      BY <2>1, <2>2, RequestStarts DEF AcquireStart, Queued
  <1>. QED
    BY <1>1, <1>3 DEF Formed, TypeOK

(* Starting to withdraw a proposal keeps the store well formed.            *)
LEMMA WithdrawStartFormed ==
    ASSUME Formed, NEW t, NEW p \in Proposals, WithdrawStart(t, p) PROVE Formed'
  <1>1. DiskTyped' /\ HistoryTyped'
    BY DEF Formed, TypeOK, WithdrawStart, DiskTyped, HistoryTyped, disk, counters
  <1>2. Locate(p) \in Statuses /\ Targets(p) \in SUBSET Sections
    BY TargetsType DEF Formed, TypeOK, WithdrawStart, Missing, OpenStatuses
  <1>3. RequestsTyped' /\ TasksFormed' /\ QueueOK' /\ BootOK'
    <2> DEFINE k == [Idle EXCEPT !.pc = "meta", !.p = p, !.from = Locate(p), !.to = "withdrawn", !.targets = Targets(p)]
    <2>1. k \in TaskType /\ TaskFormed(k)
      <3>1. "meta" \in {"meta", "rename"} /\ Locate(p) \in Statuses /\ "withdrawn" \in Statuses
        BY <1>2, StatusesAre
      <3>. QED
        BY <1>2, <3>1, RequestFormed
    <2>2. k.pc = "meta"
      BY IdleTyped DEF TaskType
    <2>. QED
      BY <2>1, <2>2, RequestStarts DEF WithdrawStart, Queued
  <1>. QED
    BY <1>1, <1>3 DEF Formed, TypeOK

(* Starting a commit keeps the store well formed.                          *)
LEMMA CommitStartFormed ==
    ASSUME Formed, NEW t, NEW p \in Proposals, CommitStart(t, p) PROVE Formed'
  <1>1. DiskTyped' /\ HistoryTyped'
    BY DEF Formed, TypeOK, CommitStart, DiskTyped, HistoryTyped, disk, counters
  <1>2. Locate(p) \in Statuses /\ Targets(p) \in SUBSET Sections
    BY TargetsType DEF Formed, TypeOK, CommitStart, Missing, MayCommitFrom
  <1>3. RequestsTyped' /\ TasksFormed' /\ QueueOK' /\ BootOK'
    <2> DEFINE k == [Idle EXCEPT !.pc = "rename", !.p = p, !.from = Locate(p), !.to = "committing", !.targets = Targets(p)]
    <2>1. k \in TaskType /\ TaskFormed(k)
      <3>1. "rename" \in {"meta", "rename"} /\ Locate(p) \in Statuses /\ "committing" \in Statuses
        BY <1>2, StatusesAre
      <3>. QED
        BY <1>2, <3>1, RequestFormed
    <2>2. k.pc = "rename"
      BY IdleTyped DEF TaskType
    <2>. QED
      BY <2>1, <2>2, RequestStarts DEF CommitStart, Queued
  <1>. QED
    BY <1>1, <1>3 DEF Formed, TypeOK

(* A request that only goes to its next step keeps the requests well
   formed.                                                                 *)
LEMMA ContinueKeeps ==
    ASSUME Formed, NEW t \in AllTasks, NEW pc \in Phases \ {"idle"}, Continue(t, pc),
           UNCHANGED <<index, up>>, task[t].pc # "idle",
           pc \in {"content", "answer", "claim"} => task[t].pc \in {"content", "answer", "claim"},
           pc \in {"meta", "rename"} => task[t].pc \in {"meta", "rename"},
           task[t].pc \in Queued => pc \in Queued,
           pc \in {"copy", "landed"} => HoldsIndex(t)
    PROVE  RequestsTyped' /\ TasksFormed' /\ QueueOK' /\ BootOK'
  <1> DEFINE k == [task[t] EXCEPT !.pc = pc]
  <1>1. task[t] \in TaskType /\ TaskFormed(task[t])
    BY DEF Formed, TypeOK, RequestsTyped, TasksFormed
  <1>2. k \in TaskType
    BY <1>1 DEF TaskType
  <1>3. /\ k.pc = pc /\ k.p = task[t].p /\ k.from = task[t].from /\ k.to = task[t].to
        /\ k.w = task[t].w /\ k.sec = task[t].sec
    BY <1>1 DEF TaskType
  <1>4. TaskFormed(k)
    <2> HIDE DEF k
    <2>. QED
      BY <1>1, <1>3 DEF TaskFormed
  <1>5. task' = [task EXCEPT ![t] = k]
    BY DEF Continue
  <1> HIDE DEF k
  <1>. QED
    BY <1>2, <1>3, <1>4, <1>5, TaskMoves

(* So does one that ends outside the index mutex.                          *)
LEMMA FinishKeeps ==
    ASSUME Formed, NEW t \in AllTasks, Finish(t), UNCHANGED <<index, up>>,
           task[t].pc # "idle", task[t].pc \notin Queued
    PROVE  RequestsTyped' /\ TasksFormed' /\ QueueOK' /\ BootOK'
  <1>1. Idle.pc = "idle" /\ TaskFormed(Idle)
    BY DEF Idle, TaskFormed
  <1>. QED
    BY <1>1, IdleTyped, TaskMoves DEF Finish

(* Writing the content file keeps the store well formed.                   *)
LEMMA WriteContentFormed ==
    ASSUME Formed, NEW t \in AllTasks, WriteContent(t) PROVE Formed'
  <1>1. /\ task[t] \in TaskType /\ TaskFormed(task[t]) /\ task[t].pc = "content"
        /\ task[t].p \in Proposals /\ task[t].from \in Statuses /\ DiskTyped
    BY DEF Formed, TypeOK, RequestsTyped, TasksFormed, TaskFormed, WriteContent
  <1>2. DiskTyped'
    <2> DEFINE d == [dir[task[t].p][task[t].from] EXCEPT !.there = TRUE,
                       !.work = @ \cup {[n |-> task[t].w, sec |-> task[t].sec]}]
    <2>1. [n |-> task[t].w, sec |-> task[t].sec] \in Work
      BY <1>1 DEF TaskType, TaskFormed, Work
    <2>2. dir[task[t].p][task[t].from] \in DirType
      BY <1>1, EntryIsTyped
    <2>3. dir[task[t].p][task[t].from].work \cup {[n |-> task[t].w, sec |-> task[t].sec]} \in SUBSET Work
      BY <2>1, <2>2 DEF DirType
    <2>4. d \in DirType
      BY <2>2, <2>3, WorkTyped
    <2>5. dir' = [dir EXCEPT ![task[t].p][task[t].from] = d]
      BY <1>1 DEF WriteContent, DiskTyped
    <2>. HIDE DEF d
    <2>6. dir' \in [Proposals -> [Statuses -> DirType]]
      BY <1>1, <2>4, <2>5, EntryTyped
    <2>. QED
      BY <1>1, <2>6 DEF DiskTyped, WriteContent
  <1>3. HistoryTyped'
    BY DEF Formed, TypeOK, HistoryTyped, WriteContent, counters
  <1>4. RequestsTyped' /\ TasksFormed' /\ QueueOK' /\ BootOK'
    <2>1. \E pc \in {"answer", "claim"} : Continue(t, pc) /\ UNCHANGED <<index, up>>
      BY DEF WriteContent
    <2>. QED
      BY <1>1, <2>1, ContinueKeeps DEF Phases, Queued
  <1>. QED
    BY <1>2, <1>3, <1>4 DEF Formed, TypeOK

(* Answering the write of a person keeps the store well formed.            *)
LEMMA WriteAnswerFormed ==
    ASSUME Formed, NEW t \in AllTasks, WriteAnswer(t) PROVE Formed'
  <1>1. task[t].w \in 1 .. MaxWrites
    BY StoreAssumption DEF Formed, TypeOK, RequestsTyped, TasksFormed, TaskFormed, WriteAnswer, TaskType
  <1>2. DiskTyped' /\ HistoryTyped'
    BY <1>1 DEF Formed, TypeOK, HistoryTyped, WriteAnswer, counters, DiskTyped, disk
  <1>3. RequestsTyped' /\ TasksFormed' /\ QueueOK' /\ BootOK'
    BY FinishKeeps DEF WriteAnswer, Queued
  <1>. QED
    BY <1>2, <1>3 DEF Formed, TypeOK

(* Reading the claims again for a write keeps the store well formed.       *)
LEMMA WriteClaimFormed ==
    ASSUME Formed, NEW t \in AllTasks, WriteClaim(t) PROVE Formed'
  <1>1. DiskTyped' /\ HistoryTyped'
    BY DEF Formed, TypeOK, HistoryTyped, WriteClaim, counters, DiskTyped, disk
  <1>2. CASE Finish(t)
    <2>1. RequestsTyped' /\ TasksFormed' /\ QueueOK' /\ BootOK'
      BY <1>2, FinishKeeps DEF WriteClaim, Queued
    <2>. QED
      BY <1>1, <2>1 DEF Formed, TypeOK
  <1>3. ASSUME NEW T, T = {task[t].sec} \cup IF writer[task[t].p] = "session"
                                             THEN Targets(task[t].p) ELSE task[t].targets,
               Locate(task[t].p) \in OpenStatuses,
               task' = [task EXCEPT ![t].pc = "meta", ![t].from = Locate(task[t].p),
                                    ![t].to = Locate(task[t].p), ![t].targets = T]
        PROVE  Formed'
    <2> DEFINE st == Locate(task[t].p)
               k == [task[t] EXCEPT !.pc = "meta", !.from = st, !.to = st, !.targets = T]
    <2>1. task[t] \in TaskType /\ TaskFormed(task[t]) /\ task[t].pc = "claim" /\ task[t].p \in Proposals
          /\ task[t].sec \in Sections /\ task[t].targets \in SUBSET Sections
      BY DEF Formed, TypeOK, RequestsTyped, TasksFormed, TaskFormed, WriteClaim, TaskType
    <2>2. Targets(task[t].p) \in SUBSET Sections /\ st \in Statuses
      BY <1>3, <2>1, TargetsType DEF Formed, TypeOK, OpenStatuses, Missing
    <2>3. T \in SUBSET Sections
      BY <1>3, <2>1, <2>2
    <2>4. task' = [task EXCEPT ![t] = k]
      BY <1>3, <2>1 DEF Formed, TypeOK, RequestsTyped, TaskType
    <2>5. k \in TaskType
      <3> HIDE DEF st
      <3>1. "meta" \in Phases /\ st \in Statuses \cup {Missing}
        BY <2>2 DEF Phases
      <3>. QED
        BY <2>1, <2>3, <3>1 DEF TaskType
    <2>6. k.pc = "meta" /\ k.p = task[t].p /\ k.from = st /\ k.to = st
      BY <2>1 DEF TaskType
    <2> HIDE DEF k
    <2>7. TaskFormed(k)
      BY <2>1, <2>2, <2>6 DEF TaskFormed
    <2>8. RequestsTyped' /\ TasksFormed' /\ QueueOK' /\ BootOK'
      BY <2>1, <2>4, <2>5, <2>6, <2>7, TaskMoves DEF Queued, WriteClaim
    <2>. QED
      BY <1>1, <2>8 DEF Formed, TypeOK
  <1>. QED
    BY <1>2, <1>3 DEF WriteClaim

(* Writing meta.json keeps the store well formed.                          *)
LEMMA WriteMetaFormed ==
    ASSUME Formed, NEW t \in AllTasks, WriteMeta(t) PROVE Formed'
  <1>1. /\ task[t] \in TaskType /\ TaskFormed(task[t]) /\ task[t].pc = "meta"
        /\ task[t].p \in Proposals /\ task[t].from \in Statuses /\ DiskTyped
        /\ task[t].targets \in SUBSET Sections /\ task[t].w \in 0 .. MaxWrites
    BY DEF Formed, TypeOK, RequestsTyped, TasksFormed, TaskFormed, WriteMeta, TaskType
  <1>2. DiskTyped'
    <2>1. dir' \in [Proposals -> [Statuses -> DirType]]
      BY <1>1, MetaWrittenType DEF WriteMeta
    <2>. QED
      BY <1>1, <2>1 DEF DiskTyped, WriteMeta
  <1>3. HistoryTyped'
    BY <1>1, StoreAssumption DEF Formed, TypeOK, HistoryTyped, WriteMeta, counters
  <1>4. RequestsTyped' /\ TasksFormed' /\ QueueOK' /\ BootOK'
    <2>1. (Finish(t) \/ Continue(t, "rename")) /\ UNCHANGED <<index, up>>
      BY DEF WriteMeta
    <2>2. "rename" \in Phases
      BY DEF Phases
    <2>. QED
      BY <1>1, <2>1, <2>2, ContinueKeeps, FinishKeeps DEF Queued
  <1>. QED
    BY <1>2, <1>3, <1>4 DEF Formed, TypeOK

(* Renaming the directory keeps the store well formed.                     *)
LEMMA RenameFormed ==
    ASSUME Formed, NEW t \in AllTasks, Rename(t) PROVE Formed'
  <1>1. /\ task[t] \in TaskType /\ TaskFormed(task[t]) /\ task[t].pc = "rename"
        /\ task[t].p \in Proposals /\ task[t].from \in Statuses /\ task[t].to \in Statuses /\ DiskTyped
    BY DEF Formed, TypeOK, RequestsTyped, TasksFormed, TaskFormed, Rename
  <1>2. DiskTyped'
    <2>1. dir' \in [Proposals -> [Statuses -> DirType]]
      BY <1>1, MovedType DEF Rename, DiskTyped
    <2>. QED
      BY <1>1, <2>1 DEF DiskTyped, Rename
  <1>3. HistoryTyped'
    BY DEF Formed, TypeOK, HistoryTyped, Rename, counters
  <1>4. RequestsTyped' /\ TasksFormed' /\ QueueOK' /\ BootOK'
    <2>1. (Finish(t) \/ Continue(t, "enter") \/ Continue(t, "rollback")) /\ UNCHANGED <<index, up>>
      BY DEF Rename
    <2>2. "enter" \in Phases /\ "rollback" \in Phases
      BY DEF Phases
    <2>. QED
      BY <1>1, <2>1, <2>2, ContinueKeeps, FinishKeeps DEF Queued
  <1>. QED
    BY <1>2, <1>3, <1>4 DEF Formed, TypeOK

(* Entering the publish pipeline keeps the store well formed.              *)
LEMMA AbsorbEnterFormed ==
    ASSUME Formed, NEW t \in AllTasks, AbsorbEnter(t) PROVE Formed'
  <1>1. /\ task[t] \in TaskType /\ TaskFormed(task[t]) /\ task[t].pc = "enter"
        /\ task[t].p \in Proposals /\ DiskTyped
    BY DEF Formed, TypeOK, RequestsTyped, TasksFormed, TaskFormed, AbsorbEnter
  <1>2. DiskTyped' /\ HistoryTyped'
    BY DEF Formed, TypeOK, HistoryTyped, AbsorbEnter, counters, DiskTyped, disk
  <1>3. CASE Continue(t, "rollback") /\ UNCHANGED index
    <2>1. "rollback" \in Phases
      BY DEF Phases
    <2>2. RequestsTyped' /\ TasksFormed' /\ QueueOK' /\ BootOK'
      BY <1>1, <1>3, <2>1, ContinueKeeps DEF Queued, AbsorbEnter
    <2>. QED
      BY <1>2, <2>2 DEF Formed, TypeOK
  <1>4. ASSUME NEW T, T = Targets(task[t].p), Locate(task[t].p) \in ActiveStatuses,
               task' = [task EXCEPT ![t].pc = "queued", ![t].targets = T],
               index' = Append(index, t)
        PROVE  Formed'
    <2> DEFINE k == [task[t] EXCEPT !.pc = "queued", !.targets = T]
    <2>1. T \in SUBSET Sections
      BY <1>1, <1>4, TargetsType DEF ActiveStatuses, Missing
    <2>2. "queued" \in Phases
      BY DEF Phases
    <2>3. k \in TaskType /\ k.pc = "queued" /\ k.p = task[t].p
      BY <1>1, <2>1, <2>2 DEF TaskType
    <2>4. task' = [task EXCEPT ![t] = k]
      BY <1>1, <1>4 DEF Formed, TypeOK, RequestsTyped, TaskType
    <2> HIDE DEF k
    <2>5. TaskFormed(k)
      BY <1>1, <2>3 DEF TaskFormed
    <2>6. RequestsTyped' /\ TasksFormed' /\ QueueOK' /\ BootOK'
      BY <1>1, <1>4, <2>3, <2>4, <2>5, IndexAsked DEF AbsorbEnter
    <2>. QED
      BY <1>2, <2>6 DEF Formed, TypeOK
  <1>. QED
    BY <1>3, <1>4 DEF AbsorbEnter

(* Getting the git index keeps the store well formed.                      *)
LEMMA AbsorbStartFormed ==
    ASSUME Formed, NEW t \in AllTasks, AbsorbStart(t) PROVE Formed'
  <1>1. DiskTyped' /\ HistoryTyped'
    BY DEF Formed, TypeOK, HistoryTyped, AbsorbStart, counters, DiskTyped, disk
  <1>2. "copy" \in Phases
    BY DEF Phases
  <1>3. RequestsTyped' /\ TasksFormed' /\ QueueOK' /\ BootOK'
    BY <1>2, ContinueKeeps DEF AbsorbStart, Queued
  <1>. QED
    BY <1>1, <1>3 DEF Formed, TypeOK

(* What a publish copies are writes.                                       *)
LEMMA OverlayTyped ==
    ASSUME DiskTyped, NEW p \in Proposals
    PROVE  Overlay(p) \in SUBSET Work
  BY StatusesAre, EntryIsTyped DEF Overlay, DirType

(* Copying into the tree keeps the store well formed.                      *)
LEMMA AbsorbCopyFormed ==
    ASSUME Formed, NEW t \in AllTasks, AbsorbCopy(t) PROVE Formed'
  <1>1. task[t].p \in Proposals /\ DiskTyped
    BY DEF Formed, TypeOK, TasksFormed, TaskFormed, AbsorbCopy
  <1>2. Overlay(task[t].p) \in SUBSET Work
    BY <1>1, OverlayTyped
  <1>3. PICK s \in SectionsOf(Overlay(task[t].p)) :
             tree' = [tree EXCEPT ![s] = NewestOf(Overlay(task[t].p), s)]
    BY DEF AbsorbCopy, StaleSections
  <1>4. NewestOf(Overlay(task[t].p), s) \in 0 .. MaxWrites
    BY <1>2, NewestType, StoreAssumption
  <1>5. DiskTyped'
    BY <1>1, <1>3, <1>4 DEF DiskTyped, AbsorbCopy
  <1>6. HistoryTyped' /\ RequestsTyped' /\ TasksFormed' /\ QueueOK' /\ BootOK'
    BY DEF Formed, TypeOK, HistoryTyped, AbsorbCopy, counters, RequestsTyped, TasksFormed,
           QueueOK, BootOK, HoldsIndex
  <1>. QED
    BY <1>5, <1>6 DEF Formed, TypeOK

(* The git commit keeps the store well formed.                             *)
LEMMA AbsorbCommitFormed ==
    ASSUME Formed, NEW t \in AllTasks, AbsorbCommit(t) PROVE Formed'
  <1>1. task[t].p \in Proposals /\ DiskTyped /\ task[t].pc = "copy" /\ HoldsIndex(t)
    BY DEF Formed, TypeOK, TasksFormed, TaskFormed, AbsorbCommit, QueueOK
  <1>2. Overlay(task[t].p) \in SUBSET Work
    BY <1>1, OverlayTyped
  <1>3. DiskTyped'
    BY <1>1, <1>2 DEF DiskTyped, AbsorbCommit
  <1>4. HistoryTyped'
    BY DEF Formed, TypeOK, HistoryTyped, AbsorbCommit, counters
  <1>5. "landed" \in Phases
    BY DEF Phases
  <1>6. RequestsTyped' /\ TasksFormed' /\ QueueOK' /\ BootOK'
    BY <1>1, <1>5, ContinueKeeps DEF AbsorbCommit, Queued
  <1>. QED
    BY <1>3, <1>4, <1>6 DEF Formed, TypeOK

(* A publish that leaves the index to go on with its status, or to take it
   back.                                                                   *)
LEMMA ReleaseKeeps ==
    ASSUME Formed, NEW t \in AllTasks, NEW pc \in {"finalize", "rollback"}, Continue(t, pc),
           index' = Tail(index), UNCHANGED up, HoldsIndex(t), task[t].pc \in Queued
    PROVE  RequestsTyped' /\ TasksFormed' /\ QueueOK' /\ BootOK'
  <1> DEFINE k == [task[t] EXCEPT !.pc = pc]
  <1>1. task[t] \in TaskType /\ TaskFormed(task[t]) /\ pc \in Phases
    BY DEF Formed, TypeOK, RequestsTyped, TasksFormed, Phases
  <1>2. k \in TaskType /\ k.pc = pc /\ k.p = task[t].p
    BY <1>1 DEF TaskType
  <1>3. task' = [task EXCEPT ![t] = k]
    BY DEF Continue
  <1> HIDE DEF k
  <1>4. TaskFormed(k)
    BY <1>1, <1>2 DEF TaskFormed, Queued
  <1>. QED
    BY <1>2, <1>3, <1>4, IndexReleased DEF Queued

(* Leaving the git index keeps the store well formed.                      *)
LEMMA AbsorbDoneFormed ==
    ASSUME Formed, NEW t \in AllTasks, AbsorbDone(t) PROVE Formed'
  <1>1. DiskTyped' /\ HistoryTyped'
    BY DEF Formed, TypeOK, HistoryTyped, AbsorbDone, counters, DiskTyped, disk
  <1>2. HoldsIndex(t)
    BY DEF Formed, QueueOK, AbsorbDone
  <1>3. RequestsTyped' /\ TasksFormed' /\ QueueOK' /\ BootOK'
    BY <1>2, ReleaseKeeps DEF AbsorbDone, Queued
  <1>. QED
    BY <1>1, <1>3 DEF Formed, TypeOK

(* A git operation that fails keeps the store well formed.                 *)
LEMMA GitFailsFormed ==
    ASSUME Formed, NEW t \in AllTasks, GitFails(t) PROVE Formed'
  <1>1. DiskTyped'
    BY DEF Formed, TypeOK, GitFails, DiskTyped
  <1>2. HistoryTyped'
    BY StoreAssumption DEF Formed, TypeOK, HistoryTyped, GitFails
  <1>3. HoldsIndex(t) /\ task[t].pc \in Queued
    BY DEF Formed, QueueOK, GitFails, Queued
  <1>4. RequestsTyped' /\ TasksFormed' /\ QueueOK' /\ BootOK'
    BY <1>3, ReleaseKeeps DEF GitFails
  <1>. QED
    BY <1>1, <1>2, <1>4 DEF Formed, TypeOK

(* Finishing the status after the commit keeps the store well formed.      *)
LEMMA FinalizeFormed ==
    ASSUME Formed, NEW t \in AllTasks, Finalize(t) PROVE Formed'
  <1>1. /\ task[t] \in TaskType /\ TaskFormed(task[t]) /\ task[t].pc = "finalize"
        /\ task[t].p \in Proposals /\ DiskTyped
    BY DEF Formed, TypeOK, RequestsTyped, TasksFormed, TaskFormed, Finalize
  <1>2. DiskTyped' /\ HistoryTyped'
    BY DEF Formed, TypeOK, HistoryTyped, Finalize, counters, DiskTyped, disk
  <1>3. CASE Continue(t, "rollback")
    <2>1. "rollback" \in Phases
      BY DEF Phases
    <2>2. RequestsTyped' /\ TasksFormed' /\ QueueOK' /\ BootOK'
      BY <1>1, <1>3, <2>1, ContinueKeeps DEF Queued, Finalize
    <2>. QED
      BY <1>2, <2>2 DEF Formed, TypeOK
  <1>4. ASSUME NEW T, T = Targets(task[t].p), Locate(task[t].p) = "committing",
               task' = [task EXCEPT ![t].pc = "meta", ![t].from = "committing",
                                    ![t].to = "committed", ![t].targets = T]
        PROVE  Formed'
    <2> DEFINE k == [task[t] EXCEPT !.pc = "meta", !.from = "committing", !.to = "committed", !.targets = T]
    <2>1. T \in SUBSET Sections
      BY <1>1, <1>4, TargetsType DEF Missing
    <2>2. "meta" \in Phases /\ "committing" \in Statuses /\ "committed" \in Statuses
      BY StatusesAre DEF Phases
    <2>3. k \in TaskType /\ k.pc = "meta" /\ k.p = task[t].p /\ k.from = "committing" /\ k.to = "committed"
      BY <1>1, <2>1, <2>2 DEF TaskType
    <2>4. task' = [task EXCEPT ![t] = k]
      BY <1>1, <1>4 DEF Formed, TypeOK, RequestsTyped, TaskType
    <2> HIDE DEF k
    <2>5. TaskFormed(k)
      BY <1>1, <2>2, <2>3 DEF TaskFormed
    <2>6. RequestsTyped' /\ TasksFormed' /\ QueueOK' /\ BootOK'
      BY <1>1, <2>3, <2>4, <2>5, TaskMoves DEF Finalize, Queued
    <2>. QED
      BY <1>2, <2>6 DEF Formed, TypeOK
  <1>. QED
    BY <1>3, <1>4 DEF Finalize

(* A status change after the commit that fails keeps the store well
   formed.                                                                 *)
LEMMA FinalizeFailsFormed ==
    ASSUME Formed, NEW t \in AllTasks, FinalizeFails(t) PROVE Formed'
  <1>1. DiskTyped' /\ HistoryTyped'
    <2>1. DiskTyped'
      BY DEF Formed, TypeOK, FinalizeFails, DiskTyped, disk
    <2>2. HistoryTyped'
      BY StoreAssumption DEF Formed, TypeOK, FinalizeFails, HistoryTyped
    <2>. QED
      BY <2>1, <2>2
  <1>2. "rollback" \in Phases
    BY DEF Phases
  <1>3. RequestsTyped' /\ TasksFormed' /\ QueueOK' /\ BootOK'
    BY <1>2, ContinueKeeps DEF FinalizeFails, Queued
  <1>. QED
    BY <1>1, <1>3 DEF Formed, TypeOK

(* Taking a failed publish back keeps the store well formed.               *)
LEMMA RollbackFormed ==
    ASSUME Formed, NEW t \in AllTasks, Rollback(t) PROVE Formed'
  <1>1. task[t].p \in Proposals /\ DiskTyped /\ task[t].pc = "rollback"
    BY DEF Formed, TypeOK, TasksFormed, TaskFormed, Rollback
  <1>2. DiskTyped'
    <2>1. "committing" \in Statuses /\ RollbackTo(task[t].p) \in Statuses
      BY StatusesAre DEF RollbackTo
    <2>2. dir' \in [Proposals -> [Statuses -> DirType]]
      BY <1>1, <2>1, MovedType DEF Rollback, DiskTyped
    <2>. QED
      BY <1>1, <2>2 DEF DiskTyped, Rollback
  <1>3. HistoryTyped'
    BY DEF Formed, TypeOK, HistoryTyped, Rollback, counters
  <1>4. RequestsTyped' /\ TasksFormed' /\ QueueOK' /\ BootOK'
    BY <1>1, FinishKeeps DEF Rollback, Queued
  <1>. QED
    BY <1>2, <1>3, <1>4 DEF Formed, TypeOK

(* The end of the process, whoever ends it, leaves no request behind.      *)
LEMMA StopFormed ==
    ASSUME Formed, Stop, UNCHANGED <<disk, nWrites, nFails, acked, dropped>>,
           nCrashes' \in 0 .. MaxCrashes
    PROVE  Formed'
  <1>1. Idle.pc = "idle" /\ TaskFormed(Idle)
    BY DEF Idle, TaskFormed
  <1>2. DiskTyped' /\ HistoryTyped'
    BY DEF Formed, TypeOK, HistoryTyped, DiskTyped, disk, Stop
  <1>3. RequestsTyped'
    BY IdleTyped DEF Stop, RequestsTyped
  <1>4. TasksFormed'
    BY <1>1 DEF Stop, TasksFormed
  <1>5. QueueOK'
    BY <1>1 DEF Stop, QueueOK
  <1>6. BootOK'
    BY <1>1 DEF Stop, BootOK, AllTasks
  <1>. QED
    BY <1>2, <1>3, <1>4, <1>5, <1>6 DEF Formed, TypeOK

(* A recovery that gives up keeps the store well formed.                   *)
LEMMA RecoveryFailsFormed ==
    ASSUME Formed, RecoveryFails PROVE Formed'
  BY StopFormed DEF RecoveryFails, counters, Formed, TypeOK, HistoryTyped

(* A stop of the process keeps the store well formed.                      *)
LEMMA CrashFormed ==
    ASSUME Formed, Crash PROVE Formed'
  BY StopFormed, StoreAssumption DEF Crash, Formed, TypeOK, HistoryTyped

(* The restart keeps the store well formed.                                *)
LEMMA RestartFormed ==
    ASSUME Formed, Restart PROVE Formed'
  <1>1. DiskTyped' /\ HistoryTyped' /\ RequestsTyped' /\ TasksFormed'
    BY DEF Formed, TypeOK, HistoryTyped, DiskTyped, RequestsTyped, disk, counters, Restart, TasksFormed
  <1>2. QueueOK' /\ BootOK'
    BY DEF Formed, QueueOK, BootOK, Restart, HoldsIndex
  <1>. QED
    BY <1>1, <1>2 DEF Formed, TypeOK

(* Discarding a pending proposal at the start keeps the store well formed. *)
LEMMA DiscardPendingFormed ==
    ASSUME Formed, NEW p \in Proposals, DiscardPending(p) PROVE Formed'
  <1>1. DiskTyped /\ "pending" \in Statuses
    BY StatusesAre DEF Formed, TypeOK
  <1>2. DiskTyped'
    <2>1. NoDir \in DirType
      BY DEF NoDir, DirType
    <2>2. dir' \in [Proposals -> [Statuses -> DirType]]
      BY <1>1, <2>1, EntryTyped DEF DiscardPending
    <2>. QED
      BY <1>1, <2>2 DEF DiskTyped, DiscardPending
  <1>3. HistoryTyped'
    <2>1. dir[p]["pending"].work \in SUBSET Work
      BY <1>1, EntryIsTyped DEF DirType
    <2>2. {w.n : w \in dir[p]["pending"].work} \subseteq 1 .. MaxWrites
      BY <2>1 DEF Work
    <2>. QED
      BY <2>2 DEF Formed, TypeOK, HistoryTyped, DiscardPending, counters
  <1>4. RequestsTyped' /\ TasksFormed' /\ QueueOK' /\ BootOK'
    BY DEF Formed, TypeOK, RequestsTyped, DiscardPending, TasksFormed, QueueOK, BootOK, HoldsIndex
  <1>. QED
    BY <1>2, <1>3, <1>4 DEF Formed, TypeOK

\* Recovery takes up one of the proposals it has to.
LEMMA RecoveredExists ==
    ASSUME ToRecover # {}
    PROVE  LET p == CHOOSE q \in ToRecover : \A r \in ToRecover : r <= q
           IN  p \in ToRecover /\ \A r \in ToRecover : r <= p
  <1>1. ToRecover \subseteq 1 .. MaxProposals
    BY DEF ToRecover, Proposals
  <1>2. \E q \in ToRecover : \A r \in ToRecover : r <= q
    BY <1>1, LargestExists, StoreAssumption
  <1>. QED
    BY <1>2

(* Recovering one proposal keeps the store well formed.                    *)
LEMMA RecoverNextFormed ==
    ASSUME Formed, RecoverNext PROVE Formed'
  <1> DEFINE p == CHOOSE q \in ToRecover : \A r \in ToRecover : r <= q
  <1>1. p \in Proposals
    BY RecoveredExists DEF RecoverNext, ToRecover
  <1>2. DiskTyped' /\ HistoryTyped'
    <2>1. DiskTyped /\ "committing" \in Statuses /\ "committed" \in Statuses
      BY StatusesAre DEF Formed, TypeOK
    <2>2. dir' = dir \/ dir' = Moved(p, "committing", "committed")
      BY DEF RecoverNext
    <2>. HIDE DEF p
    <2>3. dir' \in [Proposals -> [Statuses -> DirType]]
      BY <1>1, <2>1, <2>2, MovedType DEF DiskTyped
    <2>. QED
      BY <2>1, <2>3 DEF DiskTyped, RecoverNext, HistoryTyped, Formed, TypeOK, counters
  <1>3. CASE UNCHANGED task
    BY <1>2, <1>3 DEF Formed, TypeOK, RequestsTyped, RecoverNext, TasksFormed, QueueOK, BootOK, HoldsIndex
  <1>4. CASE task' = [task EXCEPT ![Boot] = [Idle EXCEPT !.pc = "enter", !.p = p]]
    <2>1. PICK k : k = [Idle EXCEPT !.pc = "enter", !.p = p]
      OBVIOUS
    <2>2. "enter" \in Phases /\ p \in 0 .. MaxProposals
      BY <1>1, StoreAssumption DEF Phases, Proposals
    <2>. HIDE DEF p
    <2>3. k \in TaskType /\ k.pc = "enter" /\ k.p = p
      BY <2>1, <2>2, IdleTyped DEF TaskType
    <2>4. TaskFormed(k)
      BY <1>1, <2>3 DEF TaskFormed
    <2>5. Boot \in AllTasks /\ up = "recovering" /\ task[Boot].pc = "idle" /\ UNCHANGED <<index, up>>
      BY DEF RecoverNext, AllTasks
    <2>6. RequestsTyped' /\ TasksFormed' /\ QueueOK' /\ BootOK'
      BY <1>4, <2>1, <2>3, <2>4, <2>5, TaskMoves DEF Queued
    <2>. QED
      BY <1>2, <2>6 DEF Formed, TypeOK
  <1>. QED
    BY <1>3, <1>4 DEF RecoverNext

(* The end of the recovery keeps the store well formed.                    *)
LEMMA RecoverDoneFormed ==
    ASSUME Formed, RecoverDone PROVE Formed'
  <1>1. DiskTyped' /\ HistoryTyped' /\ RequestsTyped' /\ TasksFormed'
    BY DEF Formed, TypeOK, HistoryTyped, DiskTyped, RequestsTyped, disk, counters, RecoverDone, TasksFormed
  <1>2. QueueOK'
    BY DEF Formed, QueueOK, RecoverDone, HoldsIndex
  <1>3. BootOK'
    <2>1. \A t \in AllTasks : task[t].pc = "idle"
      BY DEF Formed, BootOK, RecoverDone, AllTasks
    <2>2. index = <<>>
      <3> SUFFICES ASSUME index # <<>> PROVE FALSE
        OBVIOUS
      <3>1. 1 \in DOMAIN index /\ index[1] \in AllTasks
        BY DEF Formed, TypeOK, RequestsTyped
      <3>. QED
        BY <2>1, <3>1 DEF Formed, QueueOK, Queued
    <2>. QED
      BY <2>1, <2>2 DEF BootOK, RecoverDone, AllTasks
  <1>. QED
    BY <1>1, <1>2, <1>3 DEF Formed, TypeOK

(* Nothing happens.                                                        *)
LEMMA StutterFormed ==
    ASSUME Formed, UNCHANGED vars PROVE Formed'
  BY DEF Formed, vars, TypeOK, HistoryTyped, DiskTyped, RequestsTyped, TasksFormed, QueueOK, BootOK, HoldsIndex

(* The store starts well formed.                                           *)
LEMMA InitFormed == Init => Formed
  <1> SUFFICES ASSUME Init PROVE Formed
    OBVIOUS
  <1>1. Idle.pc = "idle" /\ TaskFormed(Idle) /\ NoDir \in DirType
    BY DEF Idle, TaskFormed, NoDir, DirType
  <1>2. DiskTyped
    BY <1>1, StoreAssumption DEF Init, DiskTyped
  <1>3. RequestsTyped
    BY IdleTyped DEF Init, RequestsTyped
  <1>4. HistoryTyped
    BY StoreAssumption DEF Init, HistoryTyped
  <1>5. TasksFormed /\ QueueOK /\ BootOK
    BY <1>1 DEF Init, TasksFormed, QueueOK, BootOK, AllTasks
  <1>. QED
    BY <1>2, <1>3, <1>4, <1>5 DEF Formed, TypeOK

(* Every step keeps it well formed.                                        *)
LEMMA StepFormed == Formed /\ [Next]_vars => Formed'
  <1> SUFFICES ASSUME Formed, [Next]_vars PROVE Formed'
    OBVIOUS
  <1>1. CASE UNCHANGED vars
    BY <1>1, StutterFormed
  <1>2. ASSUME NEW p \in Proposals, Create(p) \/ Demote(p) PROVE Formed'
    BY <1>2, CreateFormed, DemoteFormed
  <1>3. ASSUME NEW t \in Tasks, NEW p \in Proposals, Request(t, p) PROVE Formed'
    BY <1>3, DeclareFormed, WriteStartFormed, AcquireStartFormed, WithdrawStartFormed,
       CommitStartFormed DEF Request
  <1>4. ASSUME NEW t \in AllTasks, Progress(t) PROVE Formed'
    BY <1>4, WriteContentFormed, WriteAnswerFormed, WriteClaimFormed, WriteMetaFormed,
       RenameFormed, AbsorbEnterFormed, AbsorbStartFormed, AbsorbCopyFormed,
       AbsorbCommitFormed, AbsorbDoneFormed, FinalizeFormed, RollbackFormed DEF Progress
  <1>5. ASSUME NEW t \in AllTasks, GitFails(t) \/ FinalizeFails(t) PROVE Formed'
    BY <1>5, GitFailsFormed, FinalizeFailsFormed
  <1>6. CASE Recovery
    BY <1>6, RestartFormed, DiscardPendingFormed, RecoverNextFormed, RecoverDoneFormed,
       RecoveryFailsFormed DEF Recovery
  <1>7. CASE Crash
    BY <1>7, CrashFormed
  <1>. QED
    BY <1>1, <1>2, <1>3, <1>4, <1>5, <1>6, <1>7 DEF Next

(* So it is well formed in every state.                                    *)
LEMMA AlwaysFormed == Spec => []Formed
  BY InitFormed, StepFormed, PTL DEF Spec

(* The store is well typed in every state, for any number of proposals,
   sections, requests and writes and any environment: no request is left
   with half of what its next step needs, and nobody is in the index mutex
   that did not ask for it.                                                *)
THEOREM TypeCorrect == Spec => []TypeOK
<1>1. Formed => TypeOK
  BY DEF Formed
<1>. QED
  BY <1>1, AlwaysFormed, PTL

(* An invariant for TreeIsHead: a server that answers has a tree that differs
   from HEAD only while some publish is copying. *)
DirtyOnlyInCopy == up = "up" /\ tree # head => \E t \in AllTasks : task[t].pc = "copy"

(* A step that is not the copier's keeps the copier.                       *)
LEMMA CopyStays ==
    ASSUME Formed, DirtyOnlyInCopy, NEW t, task[t].pc # "copy", UNCHANGED <<tree, head, up>>,
           \A u \in AllTasks \ {t} : task'[u] = task[u]
    PROVE  DirtyOnlyInCopy'
  BY DEF DirtyOnlyInCopy

(* Every step keeps a dirty tree the copier's, if a failed copy is always
   taken back.                                                             *)
LEMMA StepDirty ==
    ASSUME Formed, DirtyOnlyInCopy, "rollback_fails" \notin Env, [Next]_vars
    PROVE  DirtyOnlyInCopy'
  <1>0. task \in [AllTasks -> TaskType]
    BY DEF Formed, TypeOK, RequestsTyped
  <1>1. CASE UNCHANGED <<tree, head, task, up>>
    BY <1>1 DEF DirtyOnlyInCopy
  <1>2. ASSUME NEW p \in Proposals, Create(p) \/ Demote(p) PROVE DirtyOnlyInCopy'
    BY <1>1, <1>2 DEF Create, CreateIn, Demote
  <1>3. ASSUME NEW t \in Tasks, NEW p \in Proposals, Request(t, p) PROVE DirtyOnlyInCopy'
    <2>1. /\ task[t].pc # "copy" /\ UNCHANGED <<tree, head, up>>
          /\ \A u \in AllTasks \ {t} : task'[u] = task[u]
      BY <1>0, <1>3 DEF Request, Declare, WriteStart, AcquireStart, WithdrawStart, CommitStart, Free, disk
    <2>. QED
      BY <2>1, CopyStays
  <1>4. ASSUME NEW t \in AllTasks, Progress(t) PROVE DirtyOnlyInCopy'
    <2>1. CASE AbsorbCopy(t)
      BY <2>1 DEF AbsorbCopy, DirtyOnlyInCopy
    <2>2. CASE AbsorbCommit(t)
      BY <2>2 DEF AbsorbCommit, DirtyOnlyInCopy
    <2>3. CASE \/ WriteContent(t) \/ WriteAnswer(t) \/ WriteClaim(t) \/ WriteMeta(t) \/ Rename(t)
               \/ AbsorbEnter(t) \/ AbsorbStart(t) \/ AbsorbDone(t) \/ Finalize(t) \/ Rollback(t)
      <3>1. /\ task[t].pc # "copy" /\ UNCHANGED <<tree, head, up>>
            /\ \A u \in AllTasks \ {t} : task'[u] = task[u]
        BY <1>0, <2>3 DEF WriteContent, WriteAnswer, WriteClaim, WriteMeta, Rename, AbsorbEnter,
             AbsorbStart, AbsorbDone, Finalize, Rollback, disk, Finish, Continue
      <3>. QED
        BY <3>1, CopyStays
    <2>. QED
      BY <1>4, <2>1, <2>2, <2>3 DEF Progress
  <1>5. ASSUME NEW t \in AllTasks, GitFails(t) PROVE DirtyOnlyInCopy'
    <2>1. /\ UNCHANGED up /\ \A u \in AllTasks \ {t} : task'[u] = task[u]
      BY <1>0, <1>5 DEF GitFails, Continue
    <2>2. CASE UNCHANGED <<tree, head>> /\ task[t].pc # "copy"
      BY <2>1, <2>2, CopyStays
    <2>3. CASE tree' = head'
      BY <2>3 DEF DirtyOnlyInCopy
    <2>. QED
      BY <1>5, <2>2, <2>3 DEF GitFails
  <1>6. ASSUME NEW t \in AllTasks, FinalizeFails(t) PROVE DirtyOnlyInCopy'
    <2>1. /\ task[t].pc # "copy" /\ UNCHANGED <<tree, head, up>>
          /\ \A u \in AllTasks \ {t} : task'[u] = task[u]
      BY <1>0, <1>6 DEF FinalizeFails, disk, Continue
    <2>. QED
      BY <2>1, CopyStays
  <1>7. CASE Recovery \/ Crash
    BY <1>7 DEF Recovery, Restart, DiscardPending, RecoverNext, RecoverDone, RecoveryFails, Crash,
         Stop, DirtyOnlyInCopy, disk
  <1>. QED
    BY <1>1, <1>2, <1>3, <1>4, <1>5, <1>6, <1>7 DEF Next, vars

(* Whenever nobody holds the git index the working tree is what HEAD says:
   readers and the next publish never see half a publish. It takes that
   the git reset that takes a failed copy back does not fail itself, which
   the code only logs.                                                     *)
THEOREM TreeAtRest ==
    ASSUME "rollback_fails" \notin Env PROVE Spec => []TreeIsHead
<1>1. Init => DirtyOnlyInCopy
  BY DEF Init, DirtyOnlyInCopy
<1>2. Formed /\ DirtyOnlyInCopy /\ [Next]_vars => DirtyOnlyInCopy'
  BY StepDirty
<1>3. Formed /\ DirtyOnlyInCopy => TreeIsHead
  BY DEF Formed, QueueOK, HoldsIndex, DirtyOnlyInCopy, TreeIsHead
<1>. QED
  BY <1>1, <1>2, <1>3, AlwaysFormed, PTL DEF Spec

(***************************************************************************)
(* One place and one holder: a proposal is in one status directory, and a  *)
(* section is claimed by one proposal.  And nothing is lost: an answered   *)
(* write is where its proposal is found, or in the log.                    *)
(*                                                                         *)
(* The first two are checks made on the disk before an await and relied on *)
(* after it. Placed says what a request has read of its proposal still     *)
(* holds when it uses it, ClaimOK that nobody else claims between a check  *)
(* of the locks and the claim.  FreshOK says that the number of a write is *)
(* its own, so that a write found in a directory is the one that was       *)
(* acknowledged; KeptOK follows the writes from the request's directory to *)
(* the log.                                                                *)
(***************************************************************************)

(* A step of request t on proposal p: no other request and no other
   proposal.                                                               *)
Only(t, p) ==
  /\ \A u \in AllTasks \ {t} : task'[u] = task[u]
  /\ \A q \in Proposals \ {p} : dir'[q] = dir[q] /\ writer'[q] = writer[q]

\* The task goes on, or it is over.
PcOnly(t, pc) ==
  /\ task'[t].pc = pc /\ task'[t].p = task[t].p /\ task'[t].from = task[t].from
  /\ task'[t].to = task[t].to /\ task'[t].targets = task[t].targets
  /\ task'[t].w = task[t].w /\ task'[t].sec = task[t].sec

(* And no other request moves.                                             *)
TasksOnly(t, pc) == PcOnly(t, pc) /\ \A u \in AllTasks \ {t} : task'[u] = task[u]

(* What a request at rest says.                                            *)
LEMMA IdleIs == /\ Idle.pc = "idle" /\ Idle.p = 0 /\ Idle.w = 0 /\ Idle.to = Missing
                /\ Idle.from = Missing /\ Idle.targets = {}
  BY DEF Idle

(* Going to the next step changes nothing else of the request.             *)
LEMMA ContinueDoes ==
    ASSUME Formed, NEW t \in AllTasks, NEW pc, Continue(t, pc)
    PROVE  TasksOnly(t, pc)
  BY DEF Continue, TasksOnly, PcOnly, Formed, TypeOK, RequestsTyped, TaskType

(* A request that ends is at rest, and it is the only one.                 *)
LEMMA FinishDoes ==
    ASSUME Formed, NEW t \in AllTasks, Finish(t)
    PROVE  task'[t] = Idle /\ \A u \in AllTasks \ {t} : task'[u] = task[u]
  BY DEF Finish, Formed, TypeOK, RequestsTyped

(* A rename of a directory: the content is where it goes, and nothing is
   left.                                                                   *)
LEMMA MovedDoes ==
    ASSUME DiskTyped, NEW p \in Proposals, NEW st \in Statuses, NEW su \in Statuses, st # su,
           dir' = Moved(p, st, su)
    PROVE  /\ dir'[p][su] = dir[p][st] /\ dir'[p][st] = NoDir
           /\ \A sv \in Statuses \ {st, su} : dir'[p][sv] = dir[p][sv]
           /\ \A q \in Proposals \ {p} : dir'[q] = dir[q]
  BY DEF DiskTyped, Moved

(* Replacing a directory replaces that one.                                *)
LEMMA EntryDoes ==
    ASSUME DiskTyped, NEW p \in Proposals, NEW st \in Statuses, NEW d,
           dir' = [dir EXCEPT ![p][st] = d]
    PROVE  /\ dir'[p][st] = d
           /\ \A su \in Statuses \ {st} : dir'[p][su] = dir[p][su]
           /\ \A q \in Proposals \ {p} : dir'[q] = dir[q]
  BY DEF DiskTyped

(* Writing meta.json makes the directory, keeps its content and touches no
   other.                                                                  *)
LEMMA MetaDoes ==
    ASSUME DiskTyped, NEW p \in Proposals, NEW st \in Statuses, NEW T, NEW l,
           dir' = MetaWritten(p, st, T, l)
    PROVE  /\ dir'[p][st].there /\ dir'[p][st].meta /\ dir'[p][st].targets = T
           /\ dir'[p][st].landed = l /\ dir'[p][st].work = dir[p][st].work
           /\ \A su \in Statuses \ {st} : dir'[p][su] = dir[p][su]
           /\ \A q \in Proposals \ {p} : dir'[q] = dir[q]
  <1> DEFINE d == [dir[p][st] EXCEPT !.there = TRUE, !.meta = TRUE, !.targets = T, !.landed = l]
  <1>1. dir[p][st] \in DirType
    BY EntryIsTyped
  <1>2. d.there /\ d.meta /\ d.targets = T /\ d.landed = l /\ d.work = dir[p][st].work
    BY <1>1 DEF DirType
  <1>3. dir' = [dir EXCEPT ![p][st] = d]
    BY DEF MetaWritten
  <1> HIDE DEF d
  <1>4. /\ dir'[p][st] = d
        /\ \A su \in Statuses \ {st} : dir'[p][su] = dir[p][su]
        /\ \A q \in Proposals \ {p} : dir'[q] = dir[q]
    BY <1>3 DEF DiskTyped
  <1>. QED
    BY <1>2, <1>4

-----------------------------------------------------------------------------

(* A proposal that is created has one directory, by the kind of its
   writer.                                                                 *)
CreateDoes(p) ==
  \E st \in {"draft", "pending", "inprogress"} :
    /\ Running /\ UNCHANGED <<task, tree, head, log, index, up, nWrites, acked, dropped>>
    /\ \A q \in Proposals \ {p} : dir'[q] = dir[q] /\ writer'[q] = writer[q]
    /\ writer[p] = "none" /\ writer'[p] \in Writers
    /\ writer'[p] = "session" => st = "inprogress"
    /\ st = "draft" \/ dir'[p][st].targets = {}
    /\ dir'[p][st].there /\ dir'[p][st].meta /\ ~dir'[p][st].landed
    /\ dir'[p][st].work = dir[p][st].work
    /\ \A su \in Statuses \ {st} : dir'[p][su] = dir[p][su]

(* What creating a proposal changes.                                       *)
LEMMA CreateEffect ==
    ASSUME Formed, NEW p \in Proposals, Create(p) PROVE CreateDoes(p)
  <1>1. PICK who \in Writers, st \in {"draft", "pending", "inprogress"}, T \in SUBSET Sections :
             /\ CreateIn(p, who, st, T)
             /\ st = "draft" \/ T = {}
             /\ who = "session" => st = "inprogress"
    BY DEF Create, Writers
  <1>2. DiskTyped /\ st \in Statuses
    BY <1>1, StatusesAre DEF Formed, TypeOK
  <1>3. writer[p] = "none" /\ writer' = [writer EXCEPT ![p] = who]
    BY <1>1, StoreAssumption DEF CreateIn, Proposals
  <1>4. writer'[p] = who /\ \A q \in Proposals \ {p} : writer'[q] = writer[q]
    BY <1>2, <1>3 DEF DiskTyped
  <1>5. dir' = MetaWritten(p, st, T, FALSE)
    BY <1>1 DEF CreateIn
  <1>6. /\ dir'[p][st].there /\ dir'[p][st].meta /\ dir'[p][st].targets = T
        /\ dir'[p][st].landed = FALSE /\ dir'[p][st].work = dir[p][st].work
        /\ \A su \in Statuses \ {st} : dir'[p][su] = dir[p][su]
        /\ \A q \in Proposals \ {p} : dir'[q] = dir[q]
    BY <1>2, <1>5, MetaDoes
  <1>7. Running /\ UNCHANGED <<task, tree, head, log, index, up, nWrites, acked, dropped>>
    BY <1>1 DEF CreateIn, counters
  <1>. QED
    BY <1>1, <1>3, <1>4, <1>6, <1>7 DEF CreateDoes

(* The directory of p goes from one status to another.                     *)
ShiftsDir(p, st, su) ==
  /\ dir'[p][su] = dir[p][st] /\ dir'[p][st] = NoDir
  /\ \A sv \in Statuses \ {st, su} : dir'[p][sv] = dir[p][sv]

(* And the move was possible.                                              *)
MovesDir(p, st, su) == CanMove(p, st, su) /\ ShiftsDir(p, st, su)

(* What demoting a pending proposal changes.                               *)
LEMMA DemoteEffect ==
    ASSUME Formed, NEW p \in Proposals, Demote(p)
    PROVE  /\ \A q \in Proposals \ {p} : dir'[q] = dir[q]
           /\ MovesDir(p, "pending", "draft") /\ writer[p] = "agent" /\ OneRequest(p) /\ Running
           /\ UNCHANGED <<task, writer, tree, head, log, index, up, nWrites, acked, dropped>>
  <1>1. DiskTyped /\ "pending" \in Statuses /\ "draft" \in Statuses
    BY StatusesAre DEF Formed, TypeOK
  <1>2. dir' = Moved(p, "pending", "draft")
    BY DEF Demote
  <1>. QED
    BY <1>1, <1>2, MovedDoes DEF Demote, MovesDir, ShiftsDir, counters

(* What every request does when it starts: it reads where its proposal is. *)
LEMMA StartEffect ==
    ASSUME Formed, NEW t \in Tasks, NEW p \in Proposals, Request(t, p)
    PROVE  /\ Running /\ OneRequest(p) /\ task[t] = Idle /\ t \in AllTasks
           /\ Only(t, p) /\ UNCHANGED <<writer, tree, head, log, index, up, acked>>
           /\ task'[t].p = p /\ task'[t].from = Locate(p)
           /\ task'[t].pc # "content" => task'[t].w = 0
  <1>1. /\ Running /\ OneRequest(p) /\ task[t] = Idle /\ t \in AllTasks /\ DiskTyped
        /\ task \in [AllTasks -> TaskType]
    BY DEF Request, Declare, WriteStart, AcquireStart, WithdrawStart, CommitStart, Free, Formed,
           TypeOK, RequestsTyped, TasksFormed, TaskFormed, AllTasks
  <1>2. CASE Declare(t, p)
    <2>1. PICK T : task' = [task EXCEPT ![t] = [Idle EXCEPT !.pc = "meta", !.p = p, !.from = "draft",
                                                   !.to = "draft", !.targets = T]]
      BY <1>2 DEF Declare
    <2>2. task'[t].p = p /\ task'[t].from = "draft" /\ task'[t].w = 0
          /\ \A u \in AllTasks \ {t} : task'[u] = task[u]
      BY <1>1, <2>1 DEF Idle
    <2>3. \A q \in Proposals \ {p} : dir'[q] = dir[q]
      BY <1>1, <1>2 DEF Declare, DiskTyped
    <2>. QED
      BY <1>1, <1>2, <2>2, <2>3 DEF Declare, Only, counters
  <1>3. ASSUME NEW s \in Sections, WriteStart(t, p, s) PROVE 
           /\ Only(t, p) /\ UNCHANGED <<writer, tree, head, log, index, up, acked>>
           /\ task'[t].p = p /\ task'[t].from = Locate(p) /\ task'[t].pc = "content"
    BY <1>1, <1>3, IdleTyped DEF WriteStart, TaskType, Only, disk
  <1>4. CASE AcquireStart(t, p)
    BY <1>1, <1>4, IdleTyped, IdleIs DEF AcquireStart, TaskType, Only, disk, counters
  <1>5. CASE WithdrawStart(t, p)
    BY <1>1, <1>5, IdleTyped, IdleIs DEF WithdrawStart, TaskType, Only, disk, counters
  <1>6. CASE CommitStart(t, p)
    BY <1>1, <1>6, IdleTyped, IdleIs DEF CommitStart, TaskType, Only, disk, counters
  <1>. QED
    BY <1>1, <1>2, <1>3, <1>4, <1>5, <1>6 DEF Request

(* Declaring may empty the draft, and only the draft.                      *)
LEMMA DeclareEffect ==
    ASSUME Formed, NEW t \in Tasks, NEW p \in Proposals, Declare(t, p)
    PROVE  /\ Locate(p) = "draft" /\ writer[p] = "human"
           /\ task'[t].pc = "meta" /\ task'[t].from = "draft" /\ task'[t].to = "draft"
           /\ \A su \in Statuses \ {"draft"} : dir'[p][su] = dir[p][su]
           /\ dir'[p]["draft"].there = dir[p]["draft"].there
           /\ dir'[p]["draft"].meta = dir[p]["draft"].meta
           /\ dir'[p]["draft"].targets = dir[p]["draft"].targets
           /\ dir'[p]["draft"].landed = dir[p]["draft"].landed
           /\ UNCHANGED nWrites
           /\ \/ UNCHANGED <<dir, dropped>>
              \/ /\ dir'[p]["draft"].work = {}
                 /\ dropped' = dropped \cup {w.n : w \in dir[p]["draft"].work}
  <1>1. DiskTyped /\ "draft" \in Statuses /\ t \in AllTasks /\ task \in [AllTasks -> TaskType]
    BY StatusesAre DEF Formed, TypeOK, RequestsTyped, AllTasks
  <1>2. PICK T : task' = [task EXCEPT ![t] = [Idle EXCEPT !.pc = "meta", !.p = p, !.from = "draft",
                                                 !.to = "draft", !.targets = T]]
    BY DEF Declare
  <1>3. task'[t].pc = "meta" /\ task'[t].from = "draft" /\ task'[t].to = "draft"
    BY <1>1, <1>2 DEF Idle
  <1>4. CASE UNCHANGED <<dir, dropped>>
    BY <1>3, <1>4 DEF Declare, counters
  <1>5. CASE /\ dir' = [dir EXCEPT ![p]["draft"].work = {}]
             /\ dropped' = dropped \cup {w.n : w \in dir[p]["draft"].work}
    <2> DEFINE d == [dir[p]["draft"] EXCEPT !.work = {}]
    <2>1. dir[p]["draft"] \in DirType
      BY <1>1, EntryIsTyped
    <2>2. /\ d.there = dir[p]["draft"].there /\ d.meta = dir[p]["draft"].meta
          /\ d.targets = dir[p]["draft"].targets /\ d.landed = dir[p]["draft"].landed /\ d.work = {}
      BY <2>1 DEF DirType
    <2>3. dir' = [dir EXCEPT ![p]["draft"] = d]
      BY <1>5
    <2> HIDE DEF d
    <2>4. dir'[p]["draft"] = d /\ \A su \in Statuses \ {"draft"} : dir'[p][su] = dir[p][su]
      BY <1>1, <2>3 DEF DiskTyped
    <2>. QED
      BY <1>3, <1>5, <2>2, <2>4 DEF Declare, counters
  <1>. QED
    BY <1>4, <1>5 DEF Declare

(* A write is numbered when it starts, and has changed nothing yet.        *)
LEMMA WriteStartEffect ==
    ASSUME Formed, NEW t \in Tasks, NEW p \in Proposals, NEW s \in Sections, WriteStart(t, p, s)
    PROVE  /\ MayWrite(p, s) /\ (writer[p] = "session" => OneCheck)
           /\ task'[t].pc = "content" /\ task'[t].targets = Targets(p)
           /\ task'[t].w = nWrites + 1 /\ task'[t].sec = s
           /\ nWrites' = nWrites + 1 /\ UNCHANGED <<dir, dropped>>
  <1>1. t \in AllTasks /\ task \in [AllTasks -> TaskType]
    BY DEF Formed, TypeOK, RequestsTyped, AllTasks
  <1>. QED
    BY <1>1, IdleTyped DEF WriteStart, TaskType, disk

(* The locks are checked when the acquisition starts.                      *)
LEMMA AcquireStartEffect ==
    ASSUME Formed, NEW t \in Tasks, NEW p \in Proposals, AcquireStart(t, p)
    PROVE  /\ Locate(p) = "draft" /\ writer[p] = "human" /\ OneCheck
           /\ LocksAvailable(p, Targets(p))
           /\ task'[t].pc = "meta" /\ task'[t].to = "inprogress" /\ task'[t].targets = Targets(p)
           /\ UNCHANGED <<dir, nWrites, dropped>>
  <1>1. t \in AllTasks /\ task \in [AllTasks -> TaskType]
    BY DEF Formed, TypeOK, RequestsTyped, AllTasks
  <1>. QED
    BY <1>1, IdleTyped DEF AcquireStart, TaskType, disk, counters

(* Withdrawing starts from an open proposal.                               *)
LEMMA WithdrawStartEffect ==
    ASSUME Formed, NEW t \in Tasks, NEW p \in Proposals, WithdrawStart(t, p)
    PROVE  /\ Locate(p) \in OpenStatuses
           /\ task'[t].pc = "meta" /\ task'[t].to = "withdrawn" /\ task'[t].targets = Targets(p)
           /\ UNCHANGED <<dir, nWrites, dropped>>
  <1>1. t \in AllTasks /\ task \in [AllTasks -> TaskType]
    BY DEF Formed, TypeOK, RequestsTyped, AllTasks
  <1>. QED
    BY <1>1, IdleTyped DEF WithdrawStart, TaskType, disk, counters

(* The locks are checked when the commit starts.                           *)
LEMMA CommitStartEffect ==
    ASSUME Formed, NEW t \in Tasks, NEW p \in Proposals, CommitStart(t, p)
    PROVE  /\ Locate(p) \in MayCommitFrom(p) /\ OneCheck /\ LocksAvailable(p, Targets(p))
           /\ task'[t].pc = "rename" /\ task'[t].to = "committing" /\ task'[t].targets = Targets(p)
           /\ UNCHANGED <<dir, nWrites, dropped>>
  <1>1. t \in AllTasks /\ task \in [AllTasks -> TaskType]
    BY DEF Formed, TypeOK, RequestsTyped, AllTasks
  <1>. QED
    BY <1>1, IdleTyped DEF CommitStart, TaskType, disk, counters

-----------------------------------------------------------------------------

\* What is known of a request that is under way.
LEMMA TaskIs ==
    ASSUME Formed, NEW t \in AllTasks
    PROVE  /\ task[t] \in TaskType /\ TaskFormed(task[t]) /\ DiskTyped
           /\ task[t].pc # "idle" => task[t].p \in Proposals
           /\ task[t].pc \in {"content", "answer", "claim", "meta", "rename"} => task[t].from \in Statuses
           /\ task[t].pc \in {"meta", "rename"} => task[t].to \in Statuses
  BY DEF Formed, TypeOK, RequestsTyped, TasksFormed, TaskFormed

(* What writing the content file changes: one more write in the directory
   the request found.                                                      *)
LEMMA WriteContentEffect ==
    ASSUME Formed, NEW t \in AllTasks, WriteContent(t)
    PROVE  LET p == task[t].p
               st == task[t].from
           IN  /\ task[t].pc = "content" /\ p \in Proposals /\ st \in Statuses
               /\ TasksOnly(t, IF writer[p] = "human" /\ st # "pending" THEN "answer" ELSE "claim")
               /\ \A q \in Proposals \ {p} : dir'[q] = dir[q]
               /\ \A su \in Statuses \ {st} : dir'[p][su] = dir[p][su]
               /\ dir'[p][st].there
               /\ dir'[p][st].meta = dir[p][st].meta /\ dir'[p][st].targets = dir[p][st].targets
               /\ dir'[p][st].landed = dir[p][st].landed
               /\ dir'[p][st].work = dir[p][st].work \cup {[n |-> task[t].w, sec |-> task[t].sec]}
               /\ UNCHANGED <<writer, tree, head, log, index, up, nWrites, acked, dropped>>
  <1> DEFINE p == task[t].p
             st == task[t].from
             e == [n |-> task[t].w, sec |-> task[t].sec]
             d == [dir[p][st] EXCEPT !.there = TRUE, !.work = @ \cup {e}]
  <1>1. task[t].pc = "content" /\ p \in Proposals /\ st \in Statuses /\ DiskTyped
    BY TaskIs DEF WriteContent
  <1>2. TasksOnly(t, IF writer[p] = "human" /\ st # "pending" THEN "answer" ELSE "claim")
    BY ContinueDoes DEF WriteContent
  <1>3. dir[p][st] \in DirType
    BY <1>1, EntryIsTyped
  <1>4. dir' = [dir EXCEPT ![p][st] = d]
    BY <1>1 DEF WriteContent, DiskTyped
  <1> HIDE DEF e
  <1>5. /\ d.there /\ d.meta = dir[p][st].meta /\ d.targets = dir[p][st].targets
        /\ d.landed = dir[p][st].landed /\ d.work = dir[p][st].work \cup {e}
    BY <1>3 DEF DirType
  <1> HIDE DEF d
  <1>6. /\ dir'[p][st] = d
        /\ \A su \in Statuses \ {st} : dir'[p][su] = dir[p][su]
        /\ \A q \in Proposals \ {p} : dir'[q] = dir[q]
    BY <1>1, <1>4 DEF DiskTyped
  <1>. QED
    BY <1>1, <1>2, <1>5, <1>6 DEF WriteContent, counters, e

(* Reading the claims again changes no file; the write ends, or goes on to
   meta.json.                                                              *)
LEMMA WriteClaimEffect ==
    ASSUME Formed, NEW t \in AllTasks, WriteClaim(t)
    PROVE  LET p == task[t].p
               st == Locate(p)
           IN  /\ task[t].pc = "claim" /\ p \in Proposals
               /\ \A u \in AllTasks \ {t} : task'[u] = task[u]
               /\ UNCHANGED <<writer, dir, tree, head, log, index, up, nWrites, acked, dropped>>
               /\ \/ /\ task'[t] = Idle
                     /\ ~(st \in OpenStatuses /\ (writer[p] = "session" => st = "inprogress"))
                  \/ /\ st \in OpenStatuses /\ (writer[p] = "session" => st = "inprogress")
                     /\ task'[t].pc = "meta" /\ task'[t].p = p /\ task'[t].from = st
                     /\ task'[t].to = st /\ task'[t].w = task[t].w
                     /\ task'[t].targets = {task[t].sec} \cup IF writer[p] = "session"
                                                           THEN Targets(p) ELSE task[t].targets
  <1>1. task[t].pc = "claim" /\ task[t].p \in Proposals /\ task \in [AllTasks -> TaskType]
    BY TaskIs DEF WriteClaim, Formed, TypeOK, RequestsTyped
  <1>2. UNCHANGED <<writer, dir, tree, head, log, index, up, nWrites, acked, dropped>>
    BY DEF WriteClaim, disk, counters
  <1>. QED
    BY <1>1, <1>2, FinishDoes DEF WriteClaim, TaskType

(* What writing meta.json changes, and how the request goes on.            *)
LEMMA WriteMetaEffect ==
    ASSUME Formed, NEW t \in AllTasks, WriteMeta(t)
    PROVE  LET p == task[t].p
               st == task[t].from
           IN  /\ task[t].pc = "meta" /\ p \in Proposals /\ st \in Statuses /\ task[t].to \in Statuses
               /\ \A q \in Proposals \ {p} : dir'[q] = dir[q]
               /\ \A su \in Statuses \ {st} : dir'[p][su] = dir[p][su]
               /\ dir'[p][st].there /\ dir'[p][st].meta /\ dir'[p][st].targets = task[t].targets
               /\ dir'[p][st].landed = (task[t].to = "committed")
               /\ dir'[p][st].work = dir[p][st].work
               /\ UNCHANGED <<writer, tree, head, log, index, up, nWrites, dropped>>
               /\ \A u \in AllTasks \ {t} : task'[u] = task[u]
               /\ \/ /\ task[t].to = st /\ task'[t] = Idle
                     /\ acked' = IF task[t].w > 0 THEN acked \cup {task[t].w} ELSE acked
                  \/ task[t].to # st /\ PcOnly(t, "rename") /\ UNCHANGED acked
  <1>1. /\ task[t].pc = "meta" /\ task[t].p \in Proposals /\ task[t].from \in Statuses
        /\ task[t].to \in Statuses /\ DiskTyped
    BY TaskIs DEF WriteMeta
  <1>2. dir' = MetaWritten(task[t].p, task[t].from, task[t].targets, task[t].to = "committed")
    BY DEF WriteMeta
  <1>3. UNCHANGED <<writer, tree, head, log, index, up, nWrites, dropped>>
    BY DEF WriteMeta, counters
  <1>4. \/ /\ task[t].to = task[t].from /\ Finish(t)
           /\ acked' = IF task[t].w > 0 THEN acked \cup {task[t].w} ELSE acked
        \/ task[t].to # task[t].from /\ Continue(t, "rename") /\ UNCHANGED acked
    BY DEF WriteMeta
  <1>5. /\ \A u \in AllTasks \ {t} : task'[u] = task[u]
        /\ \/ /\ task[t].to = task[t].from /\ task'[t] = Idle
              /\ acked' = IF task[t].w > 0 THEN acked \cup {task[t].w} ELSE acked
           \/ task[t].to # task[t].from /\ PcOnly(t, "rename") /\ UNCHANGED acked
    BY <1>4, FinishDoes, ContinueDoes DEF TasksOnly
  <1>6. /\ \A q \in Proposals \ {task[t].p} : dir'[q] = dir[q]
        /\ \A su \in Statuses \ {task[t].from} : dir'[task[t].p][su] = dir[task[t].p][su]
        /\ dir'[task[t].p][task[t].from].there /\ dir'[task[t].p][task[t].from].meta
        /\ dir'[task[t].p][task[t].from].targets = task[t].targets
        /\ dir'[task[t].p][task[t].from].landed = (task[t].to = "committed")
        /\ dir'[task[t].p][task[t].from].work = dir[task[t].p][task[t].from].work
    <2>1. PICK p, st, T, l : /\ p = task[t].p /\ st = task[t].from /\ T = task[t].targets
                             /\ l = (task[t].to = "committed")
      OBVIOUS
    <2>2. DiskTyped /\ p \in Proposals /\ st \in Statuses /\ dir' = MetaWritten(p, st, T, l)
      BY <1>1, <1>2, <2>1
    <2>3. /\ dir'[p][st].there /\ dir'[p][st].meta /\ dir'[p][st].targets = T
          /\ dir'[p][st].landed = l /\ dir'[p][st].work = dir[p][st].work
          /\ \A su \in Statuses \ {st} : dir'[p][su] = dir[p][su]
          /\ \A q \in Proposals \ {p} : dir'[q] = dir[q]
      BY <2>2, MetaDoes
    <2>. QED
      BY <2>1, <2>3
  <1>. QED
    BY <1>1, <1>3, <1>5, <1>6, Zenon

(* A rename happens or finds no room for it, and then changes no file.     *)
LEMMA RenameEffect ==
    ASSUME Formed, NEW t \in AllTasks, Rename(t), task[t].from # task[t].to
    PROVE  LET p == task[t].p
               st == task[t].from
               su == task[t].to
           IN  /\ task[t].pc = "rename" /\ p \in Proposals /\ st \in Statuses /\ su \in Statuses
               /\ \A q \in Proposals \ {p} : dir'[q] = dir[q]
               /\ UNCHANGED <<writer, tree, head, log, index, up, nWrites, acked, dropped>>
               /\ \A u \in AllTasks \ {t} : task'[u] = task[u]
               /\ \/ /\ MovesDir(p, st, su)
                     /\ \/ su = "committing" /\ PcOnly(t, "enter")
                        \/ su # "committing" /\ task'[t] = Idle
                  \/ /\ ~CanMove(p, st, su) /\ UNCHANGED dir
                     /\ \/ su = "committed" /\ PcOnly(t, "rollback")
                        \/ su # "committed" /\ task'[t] = Idle
  <1>1. /\ task[t].pc = "rename" /\ task[t].p \in Proposals /\ task[t].from \in Statuses
        /\ task[t].to \in Statuses /\ DiskTyped
    BY TaskIs DEF Rename
  <1>2. UNCHANGED <<writer, tree, head, log, index, up, nWrites, acked, dropped>>
    BY DEF Rename, counters
  <1>3. CASE CanMove(task[t].p, task[t].from, task[t].to)
    <2>1. dir' = Moved(task[t].p, task[t].from, task[t].to)
      BY <1>3 DEF Rename
    <2>2. (task[t].to = "committing" /\ Continue(t, "enter")) \/ (task[t].to # "committing" /\ Finish(t))
      BY <1>3 DEF Rename
    <2>3. \/ task[t].to = "committing" /\ TasksOnly(t, "enter")
          \/ task[t].to # "committing" /\ task'[t] = Idle /\ \A u \in AllTasks \ {t} : task'[u] = task[u]
      BY <2>2, FinishDoes, ContinueDoes
    <2>. QED
      BY <1>1, <1>2, <1>3, <2>1, <2>3, MovedDoes DEF MovesDir, ShiftsDir, TasksOnly
  <1>4. CASE ~CanMove(task[t].p, task[t].from, task[t].to)
    <2>1. UNCHANGED dir
      BY <1>4 DEF Rename
    <2>2. (task[t].to = "committed" /\ Continue(t, "rollback")) \/ (task[t].to # "committed" /\ Finish(t))
      BY <1>4 DEF Rename
    <2>3. \/ task[t].to = "committed" /\ TasksOnly(t, "rollback")
          \/ task[t].to # "committed" /\ task'[t] = Idle /\ \A u \in AllTasks \ {t} : task'[u] = task[u]
      BY <2>2, FinishDoes, ContinueDoes
    <2>. QED
      BY <1>1, <1>2, <1>4, <2>1, <2>3 DEF TasksOnly
  <1>. QED
    BY <1>3, <1>4

(* The phases of a publish.                                                *)
Publishing == {"enter", "queued", "copy", "landed", "finalize", "rollback"}

(* Its steps.                                                              *)
Pipeline(t) == \/ AbsorbEnter(t) \/ AbsorbStart(t) \/ AbsorbCopy(t) \/ AbsorbCommit(t)
               \/ AbsorbDone(t) \/ Finalize(t) \/ GitFails(t) \/ FinalizeFails(t)

(* The pipeline touches no directory: it goes on, to the final status, or
   back.                                                                   *)
LEMMA PipelineEffect ==
    ASSUME Formed, NEW t \in AllTasks, Pipeline(t)
    PROVE  LET p == task[t].p
           IN  /\ p \in Proposals
               /\ \A u \in AllTasks \ {t} : task'[u] = task[u]
               /\ UNCHANGED <<writer, dir, up, nWrites, acked, dropped>>
               /\ task'[t].p = p /\ task'[t].w = task[t].w
               /\ \/ task[t].pc \in Publishing /\ task'[t].pc \in Publishing
                  \/ /\ task[t].pc = "finalize" /\ Locate(p) = "committing"
                     /\ task'[t].pc = "meta" /\ task'[t].from = "committing"
                     /\ task'[t].to = "committed" /\ task'[t].targets = Targets(p)
                  \/ /\ task[t].pc \in {"meta", "rename"} /\ task[t].to = "committed"
                     /\ task'[t].pc = "rollback" /\ "late_fails" \in Env
  <1>1. /\ task[t] \in TaskType /\ task[t].pc # "idle" => task[t].p \in Proposals
        /\ task \in [AllTasks -> TaskType]
    BY TaskIs DEF Formed, TypeOK, RequestsTyped
  <1>2. UNCHANGED <<writer, dir, up, nWrites, acked, dropped>>
    BY DEF Pipeline, AbsorbEnter, AbsorbStart, AbsorbCopy, AbsorbCommit, AbsorbDone, Finalize,
         GitFails, FinalizeFails, disk, counters
  <1>3. ASSUME NEW pc, Continue(t, pc)
        PROVE  /\ \A u \in AllTasks \ {t} : task'[u] = task[u]
               /\ task'[t].p = task[t].p /\ task'[t].w = task[t].w /\ task'[t].pc = pc
    BY <1>3, ContinueDoes DEF TasksOnly, PcOnly
  <1>4. CASE AbsorbEnter(t)
    <2>1. CASE Continue(t, "rollback")
      BY <1>1, <1>2, <1>3, <1>4, <2>1 DEF AbsorbEnter, Publishing
    <2>2. CASE task' = [task EXCEPT ![t].pc = "queued", ![t].targets = Targets(task[t].p)]
      <3>1. /\ \A u \in AllTasks \ {t} : task'[u] = task[u]
            /\ task'[t].p = task[t].p /\ task'[t].w = task[t].w /\ task'[t].pc = "queued"
        BY <1>1, <2>2 DEF TaskType
      <3>. QED
        BY <1>1, <1>2, <1>4, <3>1 DEF AbsorbEnter, Publishing
    <2>. QED
      BY <1>4, <2>1, <2>2 DEF AbsorbEnter
  <1>5. CASE AbsorbCopy(t)
    BY <1>1, <1>2, <1>5 DEF AbsorbCopy, Publishing
  <1>6. CASE AbsorbStart(t) \/ AbsorbCommit(t) \/ AbsorbDone(t) \/ GitFails(t)
    <2>1. PICK pc \in Publishing : Continue(t, pc) /\ task[t].pc \in Publishing
      BY <1>6 DEF AbsorbStart, AbsorbCommit, AbsorbDone, GitFails, Publishing
    <2>. QED
      BY <1>1, <1>2, <1>3, <2>1 DEF Publishing
  <1>7. CASE Finalize(t)
    <2>1. CASE Continue(t, "rollback")
      BY <1>1, <1>2, <1>3, <1>7, <2>1 DEF Finalize, Publishing
    <2>2. CASE /\ Locate(task[t].p) = "committing"
               /\ task' = [task EXCEPT ![t].pc = "meta", ![t].from = "committing",
                                       ![t].to = "committed", ![t].targets = Targets(task[t].p)]
      <3>1. /\ \A u \in AllTasks \ {t} : task'[u] = task[u]
            /\ task'[t].p = task[t].p /\ task'[t].w = task[t].w /\ task'[t].pc = "meta"
            /\ task'[t].from = "committing" /\ task'[t].to = "committed"
            /\ task'[t].targets = Targets(task[t].p)
        BY <1>1, <2>2 DEF TaskType
      <3>. QED
        BY <1>1, <1>2, <1>7, <2>2, <3>1 DEF Finalize
    <2>. QED
      BY <1>7, <2>1, <2>2 DEF Finalize
  <1>8. CASE FinalizeFails(t)
    BY <1>1, <1>2, <1>3, <1>8 DEF FinalizeFails
  <1>. QED
    BY <1>4, <1>5, <1>6, <1>7, <1>8 DEF Pipeline

(* Taking a publish back moves its directory out of committing, or finds
   it gone.                                                                *)
LEMMA RollbackEffect ==
    ASSUME Formed, NEW t \in AllTasks, Rollback(t)
    PROVE  LET p == task[t].p
           IN  /\ task[t].pc = "rollback" /\ p \in Proposals /\ t # Boot
               /\ \A q \in Proposals \ {p} : dir'[q] = dir[q]
               /\ UNCHANGED <<writer, tree, head, log, index, up, nWrites, acked, dropped>>
               /\ \A u \in AllTasks \ {t} : task'[u] = task[u]
               /\ task'[t] = Idle
               /\ \/ Locate(p) = "committing" /\ MovesDir(p, "committing", RollbackTo(p))
                  \/ ~(Locate(p) = "committing" /\ CanMove(p, "committing", RollbackTo(p))) /\ UNCHANGED dir
  <1>1. /\ task[t].pc = "rollback" /\ task[t].p \in Proposals /\ t # Boot /\ DiskTyped
        /\ "committing" \in Statuses /\ RollbackTo(task[t].p) \in Statuses
        /\ RollbackTo(task[t].p) # "committing"
    BY TaskIs, StatusesAre DEF Rollback, RollbackTo
  <1>2. UNCHANGED <<writer, tree, head, log, index, up, nWrites, acked, dropped>>
    BY DEF Rollback, counters
  <1>3. task'[t] = Idle /\ \A u \in AllTasks \ {t} : task'[u] = task[u]
    BY FinishDoes DEF Rollback
  <1>. QED
    BY <1>1, <1>2, <1>3, MovedDoes DEF Rollback, MovesDir, ShiftsDir

\* Both ways for the process to end.
LEMMA StopEffect ==
    ASSUME Formed, RecoveryFails \/ Crash
    PROVE  /\ \A t \in AllTasks : task'[t] = Idle
           /\ index' = <<>> /\ up' = "down"
           /\ UNCHANGED <<writer, dir, tree, head, log, nWrites, acked, dropped>>
  BY DEF RecoveryFails, Crash, Stop, disk, counters

(* While the server is not up nothing but the recovery is under way.       *)
LEMMA AllAtRest ==
    ASSUME Formed, up # "up", task[Boot].pc = "idle"
    PROVE  \A t \in AllTasks : task[t] = Idle
  BY DEF Formed, BootOK, TasksFormed, TaskFormed, AllTasks

(* What discarding a pending proposal changes.                             *)
LEMMA DiscardPendingEffect ==
    ASSUME Formed, NEW p \in Proposals, DiscardPending(p)
    PROVE  /\ up = "recovering" /\ \A t \in AllTasks : task[t] = Idle
           /\ dir'[p]["pending"] = NoDir
           /\ \A su \in Statuses \ {"pending"} : dir'[p][su] = dir[p][su]
           /\ \A q \in Proposals \ {p} : dir'[q] = dir[q]
           /\ dropped' = dropped \cup {w.n : w \in dir[p]["pending"].work}
           /\ UNCHANGED <<writer, tree, head, log, task, index, up, nWrites, acked>>
  <1>1. DiskTyped /\ "pending" \in Statuses
    BY StatusesAre DEF Formed, TypeOK
  <1>2. /\ dir'[p]["pending"] = NoDir
        /\ \A su \in Statuses \ {"pending"} : dir'[p][su] = dir[p][su]
        /\ \A q \in Proposals \ {p} : dir'[q] = dir[q]
    BY <1>1 DEF DiscardPending, DiskTyped
  <1>3. /\ up = "recovering" /\ \A t \in AllTasks : task[t] = Idle
    BY AllAtRest DEF DiscardPending
  <1>4. /\ dropped' = dropped \cup {w.n : w \in dir[p]["pending"].work}
        /\ UNCHANGED <<writer, tree, head, log, task, index, up, nWrites, acked>>
    BY DEF DiscardPending, counters
  <1>. QED
    BY <1>2, <1>3, <1>4

(* Recovery finishes a proposal that has landed and publishes one that has
   not.                                                                    *)
LEMMA RecoverNextEffect ==
    ASSUME Formed, RecoverNext
    PROVE  \E p \in ToRecover :
             /\ up = "recovering" /\ \A t \in AllTasks : task[t] = Idle
             /\ p \in Proposals /\ Pending = {}
             /\ UNCHANGED <<writer, tree, head, log, index, up, nWrites, acked, dropped>>
             /\ \A q \in Proposals \ {p} : dir'[q] = dir[q]
             /\ \A u \in AllTasks \ {Boot} : task'[u] = task[u]
             /\ \/ /\ dir[p]["committing"].landed /\ UNCHANGED task
                   /\ ShiftsDir(p, "committing", "committed")
                \/ /\ ~dir[p]["committing"].landed /\ UNCHANGED dir
                   /\ task'[Boot].pc = "enter" /\ task'[Boot].p = p /\ task'[Boot].w = 0
  <1> DEFINE p == CHOOSE q \in ToRecover : \A r \in ToRecover : r <= q
  <1>1. p \in ToRecover /\ p \in Proposals
    BY RecoveredExists DEF RecoverNext, ToRecover
  <1>2. /\ up = "recovering" /\ \A t \in AllTasks : task[t] = Idle
    BY AllAtRest DEF RecoverNext
  <1>3. /\ Pending = {} /\ UNCHANGED <<writer, tree, head, log, index, up, nWrites, acked, dropped>>
    BY DEF RecoverNext, counters
  <1>4. /\ DiskTyped /\ "committing" \in Statuses /\ "committed" \in Statuses
        /\ task \in [AllTasks -> TaskType] /\ Boot \in AllTasks
    BY StatusesAre DEF Formed, TypeOK, RequestsTyped, AllTasks
  <1>5. IF dir[p]["committing"].landed
        THEN dir' = Moved(p, "committing", "committed") /\ UNCHANGED task
        ELSE task' = [task EXCEPT ![Boot] = [Idle EXCEPT !.pc = "enter", !.p = p]] /\ UNCHANGED dir
    BY DEF RecoverNext
  <1> HIDE DEF p
  <1>6. CASE dir[p]["committing"].landed
    <2>1. dir' = Moved(p, "committing", "committed") /\ UNCHANGED task
      BY <1>5, <1>6
    <2>2. ShiftsDir(p, "committing", "committed") /\ \A q \in Proposals \ {p} : dir'[q] = dir[q]
      BY <1>1, <1>4, <2>1, MovedDoes DEF ShiftsDir
    <2>. QED
      BY <1>1, <1>2, <1>3, <1>6, <2>1, <2>2
  <1>7. CASE ~dir[p]["committing"].landed
    <2>0. PICK k : k = [Idle EXCEPT !.pc = "enter", !.p = p]
      OBVIOUS
    <2>2. k.pc = "enter" /\ k.p = p /\ k.w = 0
      BY <2>0, IdleTyped, IdleIs DEF TaskType
    <2>3. UNCHANGED dir /\ task' = [task EXCEPT ![Boot] = k]
      BY <1>5, <1>7, <2>0
    <2>1. /\ UNCHANGED dir /\ \A u \in AllTasks \ {Boot} : task'[u] = task[u]
          /\ task'[Boot].pc = "enter" /\ task'[Boot].p = p /\ task'[Boot].w = 0
      BY <1>4, <2>2, <2>3
    <2>. QED
      BY <1>1, <1>2, <1>3, <1>7, <2>1
  <1>. QED
    BY <1>6, <1>7

-----------------------------------------------------------------------------

\* Requests are serial per proposal: no two work on the same one.
Serial == \A t, u \in AllTasks : task[t].p = task[u].p => t = u \/ task[t].p = 0

\* A proposal that exists lies in one directory and that one has its meta.json.
PlaceOK(p) ==
  /\ \A st \in Statuses : /\ dir[p][st].there => dir[p][st].meta
                          /\ ~dir[p][st].there => dir[p][st] = NoDir
  /\ \A st, su \in Statuses : dir[p][st].there /\ dir[p][su].there => st = su
  /\ writer[p] = "none" => \A st \in Statuses : ~dir[p][st].there

(* Every proposal has one place.                                           *)
DirOK == \A p \in Proposals : PlaceOK(p)

\* What a request has read is still so: its directory is where it was found.
TaskPlaced(k) ==
  /\ k.pc # "idle" => writer[k.p] # "none"
  /\ k.pc \in {"content", "answer", "claim", "meta", "rename"} => dir[k.p][k.from].there
  /\ k.pc \in {"content", "answer", "claim"} => k.from \in OpenStatuses
  /\ k.pc = "content" /\ k.from = "inprogress" => writer[k.p] # "agent"
  /\ k.pc = "claim" /\ k.from = "inprogress" => writer[k.p] = "session"
  /\ k.pc = "meta" /\ k.to = k.from =>
       /\ k.from \in OpenStatuses
       /\ k.from = "inprogress" => writer[k.p] = "session"
  /\ k.pc \in {"meta", "rename"} /\ k.to # k.from =>
       /\ k.w = 0
       /\ dir[k.p][k.from].targets = k.targets
       /\ \/ k.to = "withdrawn" /\ k.from \in OpenStatuses
          \/ k.to = "committed" /\ k.from = "committing"
          \/ k.to = "committing" /\ k.pc = "rename" /\ k.from \in OpenStatuses
          \/ k.to = "inprogress" /\ k.from = "draft" /\ writer[k.p] = "human"
  /\ k.pc = "rename" => k.to # k.from
  /\ k.pc \in Publishing => k.w = 0 /\ dir[k.p]["committing"].there

(* What every request has read is still so.                                *)
TaskDir == \A t \in AllTasks : TaskPlaced(task[t])

(* The inductive invariant behind OnePlace: one request at a time works on
   a proposal, so that what a request has read of a directory still holds
   when it moves it.                                                       *)
Placed == Serial /\ DirOK /\ TaskDir

(* The search finds the directory that is there.                           *)
LEMMA Located ==
    ASSUME NEW p, PlaceOK(p)
    PROVE  /\ Locate(p) # Missing =>
                /\ Locate(p) \in Statuses
                /\ dir[p][Locate(p)].there /\ dir[p][Locate(p)].meta
           /\ \A st \in Statuses : dir[p][st].there => Locate(p) = st
  <1> DEFINE m(i) == dir[p][StatusOrder[i]].meta
  <1>1. CASE \E i \in 1 .. 6 : m(i)
    <2>1. \E i \in 1 .. 6 : m(i) /\ \A j \in 1 .. i - 1 : ~m(j)
      <3> HIDE DEF m
      <3>1. m(1) \/ m(2) \/ m(3) \/ m(4) \/ m(5) \/ m(6)
        BY <1>1
      <3>. QED
        BY <3>1
    <2>2. Locate(p) \in Statuses /\ dir[p][Locate(p)].meta
      BY <2>1, StatusesAre DEF Locate, Statuses
    <2>3. dir[p][Locate(p)].there
      BY <2>2 DEF PlaceOK, NoDir
    <2>. QED
      BY <2>2, <2>3 DEF PlaceOK
  <1>2. CASE ~ \E i \in 1 .. 6 : m(i)
    <2>1. \A st \in Statuses : ~dir[p][st].meta
      BY <1>2, StatusesAre DEF Statuses
    <2>2. Locate(p) = Missing
      BY <1>2, StatusesAre DEF Locate
    <2>. QED
      BY <2>1, <2>2 DEF PlaceOK
  <1>. QED
    BY <1>1, <1>2

(* The step of one request on one proposal that nobody else works on: what
   is left to show is about that request and that proposal.                *)
LEMMA PlacedStep ==
    ASSUME Formed, Placed, NEW t \in AllTasks, NEW p \in Proposals, Only(t, p),
           \A u \in AllTasks \ {t} : task[u].p # p,
           task'[t].p \in {0, p}, PlaceOK(p)', TaskPlaced(task[t])'
    PROVE  Placed'
  <1>1. Serial'
    BY DEF Placed, Serial, Only
  <1>2. DirOK'
    BY DEF Placed, DirOK, PlaceOK, Only
  <1>3. TaskDir'
    <2> SUFFICES ASSUME NEW u \in AllTasks, u # t PROVE TaskPlaced(task[u])'
      BY DEF TaskDir
    <2>1. TaskPlaced(task[u]) /\ task'[u] = task[u]
      BY DEF Placed, TaskDir, Only
    <2>2. CASE task[u].pc = "idle"
      BY <2>1, <2>2 DEF TaskPlaced, Publishing
    <2>3. CASE task[u].pc # "idle"
      <3>1. dir'[task[u].p] = dir[task[u].p] /\ writer'[task[u].p] = writer[task[u].p]
        BY <2>3, TaskIs DEF Only
      <3>. QED
        BY <2>1, <3>1 DEF TaskPlaced
    <2>. QED
      BY <2>2, <2>3
  <1>. QED
    BY <1>1, <1>2, <1>3 DEF Placed

(* The same for a request that is under way.                               *)
LEMMA TaskStepPlaced ==
    ASSUME Formed, Placed, NEW t \in AllTasks, task[t].pc # "idle", NEW p, p = task[t].p,
           Only(t, p), task'[t].p \in {0, p}, PlaceOK(p)', TaskPlaced(task[t])'
    PROVE  Placed'
  <1>1. p \in Proposals /\ p # 0
    BY TaskIs DEF Proposals
  <1>2. \A u \in AllTasks \ {t} : task[u].p # p
    BY <1>1 DEF Placed, Serial
  <1>. QED
    BY <1>1, <1>2, PlacedStep

(* A request that is over claims nothing.                                  *)
LEMMA IdlePlaced ==
    ASSUME NEW t \in AllTasks, task'[t] = Idle
    PROVE  task'[t].p = 0 /\ TaskPlaced(task[t])'
  BY IdleIs DEF TaskPlaced, Publishing

(* A proposal stays where it is when no file changes.                      *)
LEMMA PlaceStays ==
    ASSUME NEW p, PlaceOK(p), UNCHANGED <<dir, writer>>
    PROVE  PlaceOK(p)'
  BY DEF PlaceOK

\* A directory of a proposal may be renamed, if it is there and its name is free.
LEMMA PlaceMoves ==
    ASSUME NEW p, PlaceOK(p), NEW st \in Statuses, NEW su \in Statuses, st # su,
           dir[p][st].there, ShiftsDir(p, st, su), UNCHANGED writer
    PROVE  PlaceOK(p)' /\ dir'[p][su].there /\ CanMove(p, st, su)
  BY DEF PlaceOK, ShiftsDir, CanMove, NoDir

\* A write into the directory that is there.
LEMMA PlaceWritten ==
    ASSUME NEW p, PlaceOK(p), NEW st \in Statuses, dir[p][st].there, UNCHANGED writer,
           dir'[p][st].there, dir'[p][st].meta,
           \A su \in Statuses \ {st} : dir'[p][su] = dir[p][su]
    PROVE  PlaceOK(p)'
  BY DEF PlaceOK

(* Creating a proposal keeps every proposal in one place.                  *)
LEMMA CreatePlaced ==
    ASSUME Formed, Placed, NEW p \in Proposals, Create(p) PROVE Placed'
  <1>1. PICK st \in {"draft", "pending", "inprogress"} :
          /\ Running /\ UNCHANGED task
          /\ \A q \in Proposals \ {p} : dir'[q] = dir[q] /\ writer'[q] = writer[q]
          /\ writer[p] = "none" /\ writer'[p] \in Writers
          /\ dir'[p][st].there /\ dir'[p][st].meta
          /\ \A su \in Statuses \ {st} : dir'[p][su] = dir[p][su]
    BY CreateEffect DEF CreateDoes
  <1>2. Boot \in AllTasks /\ task[Boot] = Idle
    BY <1>1, TaskIs DEF AllTasks, Running, Formed, BootOK, TaskFormed
  <1>3. PlaceOK(p)'
    <2>1. PlaceOK(p) /\ st \in Statuses
      BY StatusesAre DEF Placed, DirOK
    <2>2. \A su \in Statuses : ~dir[p][su].there /\ dir[p][su] = NoDir
      BY <1>1, <2>1 DEF PlaceOK
    <2>3. \A su \in Statuses \ {st} : ~dir'[p][su].there /\ dir'[p][su] = NoDir
      BY <1>1, <2>2
    <2>4. writer'[p] # "none"
      BY <1>1 DEF Writers
    <2>. QED
      BY <1>1, <2>3, <2>4 DEF PlaceOK
  <1>4. \A u \in AllTasks : task[u].p # p
    BY <1>1, TaskIs, IdleIs, StoreAssumption DEF Placed, TaskDir, TaskPlaced, TaskFormed, Proposals
  <1>5. Only(Boot, p)
    BY <1>1 DEF Only
  <1>. QED
    BY <1>1, <1>2, <1>3, <1>4, <1>5, IdlePlaced, PlacedStep

(* Demoting a pending proposal to a draft keeps every proposal in one
   place.                                                                  *)
LEMMA DemotePlaced ==
    ASSUME Formed, Placed, "same_proposal" \notin Env, NEW p \in Proposals, Demote(p)
    PROVE  Placed'
  <1>1. Boot \in AllTasks /\ task[Boot] = Idle
    BY DemoteEffect, TaskIs DEF AllTasks, Running, Formed, BootOK, TaskFormed
  <1>2. PlaceOK(p)'
    <2>1. PlaceOK(p) /\ "pending" \in Statuses /\ "draft" \in Statuses
      BY StatusesAre DEF Placed, DirOK
    <2>. QED
      BY <2>1, DemoteEffect, PlaceMoves DEF MovesDir, CanMove
  <1>3. Only(Boot, p) /\ \A u \in AllTasks : task[u].p # p
    BY DemoteEffect DEF Only, OneRequest
  <1>. QED
    BY <1>1, <1>2, <1>3, DemoteEffect, IdlePlaced, PlacedStep

(* A request that starts keeps every proposal in one place.                *)
LEMMA StartPlaced ==
    ASSUME Formed, Placed, "same_proposal" \notin Env, NEW t \in Tasks, NEW p \in Proposals,
           Request(t, p)
    PROVE  Placed'
  <1>1. /\ t \in AllTasks /\ Only(t, p) /\ task'[t].p = p /\ task'[t].from = Locate(p)
        /\ \A u \in AllTasks : task[u].p # p
        /\ UNCHANGED writer
        /\ task'[t].pc # "content" => task'[t].w = 0
    BY StartEffect DEF OneRequest
  <1>2. PlaceOK(p)
    BY DEF Placed, DirOK
  <1>3. /\ Locate(p) \in Statuses => dir[p][Locate(p)].there
        /\ Targets(p) = dir[p][Locate(p)].targets
        /\ \A st \in Statuses : dir[p][st].there => writer[p] # "none"
    BY <1>2, Located DEF Missing, Statuses, StatusOrder, Targets, PlaceOK
  <1>4. ASSUME NEW s \in Sections, WriteStart(t, p, s) PROVE PlaceOK(p)' /\ TaskPlaced(task[t])'
    <2>1. UNCHANGED dir /\ task'[t].pc = "content" /\ MayWrite(p, s)
      BY <1>4, WriteStartEffect
    <2>2. Locate(p) \in OpenStatuses /\ Locate(p) \in Statuses /\ (Locate(p) = "inprogress" => writer[p] # "agent")
      BY <2>1, MayWriteOpen, StatusesAre DEF OpenStatuses
    <2>. QED
      BY <1>1, <1>2, <1>3, <2>1, <2>2, PlaceStays DEF TaskPlaced, Publishing
  <1>5. ASSUME Declare(t, p) PROVE PlaceOK(p)' /\ TaskPlaced(task[t])'
    <2>1. /\ task'[t].pc = "meta" /\ task'[t].from = "draft" /\ task'[t].to = "draft"
          /\ Locate(p) = "draft"
      BY <1>5, DeclareEffect
    <2>2. "draft" \in Statuses /\ "draft" \in OpenStatuses /\ dir[p]["draft"].there /\ dir[p]["draft"].meta
      BY <1>2, <2>1, Located, StatusesAre DEF OpenStatuses, Missing
    <2>3. PlaceOK(p)' /\ dir'[p]["draft"].there
      BY <1>1, <1>2, <1>5, <2>2, DeclareEffect, PlaceWritten
    <2>. QED
      BY <1>1, <1>3, <2>1, <2>2, <2>3 DEF TaskPlaced, Publishing
  <1>6. ASSUME AcquireStart(t, p) PROVE PlaceOK(p)' /\ TaskPlaced(task[t])'
    <2>1. UNCHANGED dir /\ task'[t].pc = "meta" /\ task'[t].to = "inprogress" /\ Locate(p) = "draft"
          /\ task'[t].targets = Targets(p) /\ writer[p] = "human" /\ "draft" \in Statuses
      BY <1>6, AcquireStartEffect, StatusesAre
    <2>. QED
      BY <1>1, <1>2, <1>3, <2>1, PlaceStays DEF TaskPlaced, Publishing
  <1>7. ASSUME WithdrawStart(t, p) PROVE PlaceOK(p)' /\ TaskPlaced(task[t])'
    <2>1. UNCHANGED dir /\ task'[t].pc = "meta" /\ task'[t].to = "withdrawn" /\ Locate(p) \in OpenStatuses
          /\ task'[t].targets = Targets(p) /\ Locate(p) \in Statuses /\ Locate(p) # "withdrawn"
      BY <1>7, WithdrawStartEffect, StatusesAre DEF OpenStatuses
    <2>. QED
      BY <1>1, <1>2, <1>3, <2>1, PlaceStays DEF TaskPlaced, Publishing
  <1>8. ASSUME CommitStart(t, p) PROVE PlaceOK(p)' /\ TaskPlaced(task[t])'
    <2>1. UNCHANGED dir /\ task'[t].pc = "rename" /\ task'[t].to = "committing" /\ Locate(p) \in OpenStatuses
          /\ task'[t].targets = Targets(p) /\ Locate(p) \in Statuses /\ Locate(p) # "committing"
      BY <1>8, CommitStartEffect, StatusesAre DEF OpenStatuses, MayCommitFrom
    <2>. QED
      BY <1>1, <1>2, <1>3, <2>1, PlaceStays DEF TaskPlaced, Publishing
  <1>9. PlaceOK(p)' /\ TaskPlaced(task[t])'
    BY <1>4, <1>5, <1>6, <1>7, <1>8 DEF Request
  <1>. QED
    BY <1>1, <1>9, PlacedStep

\* What Placed says of one request under way, with the proposal it works on.
LEMMA PlacedTask ==
    ASSUME Formed, Placed, NEW t \in AllTasks, task[t].pc # "idle"
    PROVE  /\ task[t].p \in Proposals /\ PlaceOK(task[t].p) /\ TaskPlaced(task[t])
           /\ task[t].pc \in {"content", "answer", "claim", "meta", "rename"} => task[t].from \in Statuses
  BY TaskIs DEF Placed, DirOK, TaskDir

(* Writing the content file keeps every proposal in one place.             *)
LEMMA WriteContentPlaced ==
    ASSUME Formed, Placed, NEW t \in AllTasks, WriteContent(t) PROVE Placed'
  <1>1. PICK p, st : p = task[t].p /\ st = task[t].from
    OBVIOUS
  <1>2. PICK pc : pc = IF writer[p] = "human" /\ st # "pending" THEN "answer" ELSE "claim"
    OBVIOUS
  <1>3. /\ task[t].pc = "content" /\ p \in Proposals /\ st \in Statuses
        /\ TasksOnly(t, pc) /\ \A q \in Proposals \ {p} : dir'[q] = dir[q]
        /\ \A su \in Statuses \ {st} : dir'[p][su] = dir[p][su]
        /\ dir'[p][st].there /\ dir'[p][st].meta = dir[p][st].meta /\ UNCHANGED writer
    BY <1>1, <1>2, WriteContentEffect
  <1>4. /\ PlaceOK(p) /\ dir[p][st].there /\ dir[p][st].meta /\ st \in OpenStatuses
        /\ st = "inprogress" => writer[p] # "agent"
        /\ writer[p] # "none" /\ writer[p] \in Writers \cup {"none"}
    BY <1>1, <1>3, PlacedTask DEF TaskPlaced, PlaceOK, Formed, TypeOK, DiskTyped
  <1>5. PlaceOK(p)'
    BY <1>3, <1>4, PlaceWritten
  <1>6. TaskPlaced(task[t])'
    <2>1. task'[t].pc = pc /\ task'[t].p = p /\ task'[t].from = st
      BY <1>1, <1>3 DEF TasksOnly, PcOnly
    <2>. QED
      BY <1>2, <1>3, <1>4, <2>1 DEF TaskPlaced, Publishing, Writers
  <1>7. Only(t, p) /\ task'[t].p = p
    BY <1>1, <1>3 DEF Only, TasksOnly, PcOnly
  <1>. QED
    BY <1>1, <1>3, <1>5, <1>6, <1>7, TaskStepPlaced

(* Answering the write of a person keeps every proposal in one place.      *)
LEMMA WriteAnswerPlaced ==
    ASSUME Formed, Placed, NEW t \in AllTasks, WriteAnswer(t) PROVE Placed'
  <1>1. PICK p : p = task[t].p
    OBVIOUS
  <1>2. task[t].pc # "idle" /\ PlaceOK(p)
    BY <1>1, PlacedTask DEF WriteAnswer
  <1>3. task'[t] = Idle /\ Only(t, p) /\ UNCHANGED <<dir, writer>>
    BY FinishDoes DEF WriteAnswer, disk, Only
  <1>. QED
    BY <1>1, <1>2, <1>3, IdlePlaced, PlaceStays, TaskStepPlaced

(* Reading the claims again for a write keeps every proposal in one place. *)
LEMMA WriteClaimPlaced ==
    ASSUME Formed, Placed, NEW t \in AllTasks, WriteClaim(t) PROVE Placed'
  <1>1. PICK p : p = task[t].p
    OBVIOUS
  <1>2. task[t].pc = "claim" /\ PlaceOK(p) /\ UNCHANGED <<dir, writer>> /\ Only(t, p)
    BY <1>1, WriteClaimEffect, PlacedTask DEF Only
  <1>3. CASE task'[t] = Idle
    BY <1>1, <1>2, <1>3, IdlePlaced, PlaceStays, TaskStepPlaced
  <1>4. CASE /\ Locate(p) \in OpenStatuses
             /\ task'[t].pc = "meta" /\ task'[t].p = p /\ task'[t].from = Locate(p)
             /\ task'[t].to = Locate(p)
    <2>1. /\ writer[p] # "none" /\ task[t].from \in Statuses /\ dir[p][task[t].from].there
          /\ task[t].from = "inprogress" => writer[p] = "session"
      BY <1>1, <1>2, PlacedTask DEF TaskPlaced
    <2>2. Locate(p) = task[t].from
      BY <1>2, <2>1, Located
    <2>3. TaskPlaced(task[t])'
      BY <1>2, <1>4, <2>1, <2>2 DEF TaskPlaced, Publishing
    <2>. QED
      BY <1>1, <1>2, <1>4, <2>3, PlaceStays, TaskStepPlaced
  <1>. QED
    BY <1>1, <1>3, <1>4, WriteClaimEffect

(* Writing meta.json keeps every proposal in one place.                    *)
LEMMA WriteMetaPlaced ==
    ASSUME Formed, Placed, NEW t \in AllTasks, WriteMeta(t) PROVE Placed'
  <1>1. PICK p, st : p = task[t].p /\ st = task[t].from
    OBVIOUS
  <1>2. /\ task[t].pc = "meta" /\ p \in Proposals /\ st \in Statuses
        /\ Only(t, p)
        /\ \A su \in Statuses \ {st} : dir'[p][su] = dir[p][su]
        /\ dir'[p][st].there /\ dir'[p][st].meta /\ dir'[p][st].targets = task[t].targets
        /\ UNCHANGED writer
        /\ task'[t] = Idle \/ (task[t].to # st /\ PcOnly(t, "rename"))
    BY <1>1, WriteMetaEffect DEF Only
  <1>3. PlaceOK(p) /\ dir[p][st].there /\ TaskPlaced(task[t])
    BY <1>1, <1>2, PlacedTask DEF TaskPlaced
  <1>4. PlaceOK(p)'
    BY <1>2, <1>3, PlaceWritten
  <1>5. CASE task'[t] = Idle
    BY <1>1, <1>2, <1>4, <1>5, IdlePlaced, TaskStepPlaced
  <1>6. CASE task[t].to # st /\ PcOnly(t, "rename")
    <2>1. TaskPlaced(task[t])'
      BY <1>1, <1>2, <1>3, <1>6 DEF TaskPlaced, Publishing, PcOnly
    <2>. QED
      BY <1>1, <1>2, <1>4, <1>6, <2>1, TaskStepPlaced DEF PcOnly
  <1>. QED
    BY <1>2, <1>5, <1>6

(* A request that comes to its rename still finds the directory it read,
   and nothing in its way.                                                 *)
LEMMA RenameFits ==
    ASSUME Formed, Placed, NEW t \in AllTasks, Rename(t)
    PROVE  /\ task[t].from # task[t].to
           /\ MovesDir(task[t].p, task[t].from, task[t].to)
  <1>1. task[t].pc = "rename"
    BY DEF Rename
  <1>2. /\ task[t].from # task[t].to /\ PlaceOK(task[t].p) /\ dir[task[t].p][task[t].from].there
        /\ task[t].from \in Statuses /\ task[t].to \in Statuses
    BY <1>1, PlacedTask, TaskIs DEF TaskPlaced
  <1>3. CanMove(task[t].p, task[t].from, task[t].to)
    BY <1>2 DEF PlaceOK, CanMove
  <1>. QED
    BY <1>2, <1>3, RenameEffect

(* Renaming the directory keeps every proposal in one place.               *)
LEMMA RenamePlaced ==
    ASSUME Formed, Placed, NEW t \in AllTasks, Rename(t) PROVE Placed'
  <1>1. PICK p, st, su : p = task[t].p /\ st = task[t].from /\ su = task[t].to
    OBVIOUS
  <1>2. /\ st # su /\ MovesDir(p, st, su) /\ st \in Statuses /\ su \in Statuses
        /\ Only(t, p) /\ UNCHANGED writer /\ task[t].pc = "rename" /\ p \in Proposals
        /\ \/ su = "committing" /\ PcOnly(t, "enter")
           \/ task'[t] = Idle
    BY <1>1, RenameFits, RenameEffect DEF Only, MovesDir
  <1>3. PlaceOK(p) /\ TaskPlaced(task[t])
    BY <1>1, <1>2, PlacedTask
  <1>4. PlaceOK(p)' /\ dir'[p][su].there
    BY <1>2, <1>3, PlaceMoves DEF MovesDir, CanMove
  <1>5. CASE task'[t] = Idle
    BY <1>1, <1>2, <1>4, <1>5, IdlePlaced, TaskStepPlaced
  <1>6. CASE su = "committing" /\ PcOnly(t, "enter")
    <2>1. TaskPlaced(task[t])'
      BY <1>1, <1>2, <1>3, <1>4, <1>6 DEF TaskPlaced, Publishing, PcOnly
    <2>. QED
      BY <1>1, <1>2, <1>4, <1>6, <2>1, TaskStepPlaced DEF PcOnly
  <1>. QED
    BY <1>2, <1>5, <1>6

(* A step of the publish pipeline keeps every proposal in one place.       *)
LEMMA PipelinePlaced ==
    ASSUME Formed, Placed, NEW t \in AllTasks, Pipeline(t) PROVE Placed'
  <1>1. PICK p : p = task[t].p
    OBVIOUS
  <1>2. /\ p \in Proposals /\ Only(t, p) /\ UNCHANGED <<dir, writer>>
        /\ task'[t].p = p /\ task'[t].w = task[t].w
        /\ task[t].pc \in Publishing \/ (task[t].pc \in {"meta", "rename"} /\ task[t].to = "committed")
    BY <1>1, PipelineEffect DEF Only, Publishing
  <1>3. /\ task[t].pc # "idle" /\ PlaceOK(p) /\ TaskPlaced(task[t])
    BY <1>1, <1>2, PlacedTask DEF Publishing
  <1>4. task[t].w = 0 /\ dir[p]["committing"].there /\ writer[p] # "none"
    <2>1. task[t].pc \in {"meta", "rename"} => task[t].from \in Statuses
      BY TaskIs
    <2>. QED
      BY <1>1, <1>2, <1>3, <2>1 DEF TaskPlaced, Publishing, OpenStatuses
  <1>5. TaskPlaced(task[t])'
    <2>1. CASE task'[t].pc \in Publishing
      BY <1>2, <1>4, <2>1 DEF TaskPlaced, Publishing
    <2>2. CASE /\ task'[t].pc = "meta" /\ task'[t].from = "committing" /\ Locate(p) = "committing"
               /\ task'[t].to = "committed" /\ task'[t].targets = Targets(p)
      BY <1>2, <1>4, <2>2 DEF TaskPlaced, Publishing, Targets
    <2>3. "rollback" \in Publishing
      BY DEF Publishing
    <2>. QED
      BY <1>1, <2>1, <2>2, <2>3, PipelineEffect
  <1>. QED
    BY <1>1, <1>2, <1>3, <1>5, PlaceStays, TaskStepPlaced

(* Taking a failed publish back keeps every proposal in one place.         *)
LEMMA RollbackPlaced ==
    ASSUME Formed, Placed, NEW t \in AllTasks, Rollback(t) PROVE Placed'
  <1>1. PICK p : p = task[t].p
    OBVIOUS
  <1>2. /\ task[t].pc = "rollback" /\ Only(t, p) /\ UNCHANGED writer /\ task'[t] = Idle
        /\ MovesDir(p, "committing", RollbackTo(p)) \/ UNCHANGED dir
    BY <1>1, RollbackEffect DEF Only
  <1>3. PlaceOK(p)
    BY <1>1, <1>2, PlacedTask
  <1>4. PlaceOK(p)'
    <2>1. "committing" \in Statuses /\ RollbackTo(p) \in Statuses /\ RollbackTo(p) # "committing"
      BY StatusesAre DEF RollbackTo
    <2>. QED
      BY <1>2, <1>3, <2>1, PlaceMoves, PlaceStays DEF MovesDir, CanMove
  <1>. QED
    BY <1>1, <1>2, <1>4, IdlePlaced, TaskStepPlaced

(* A stop of the process keeps every proposal in one place.                *)
LEMMA StopPlaced ==
    ASSUME Formed, Placed, RecoveryFails \/ Crash PROVE Placed'
  <1>1. DirOK'
    BY StopEffect DEF Placed, DirOK, PlaceOK
  <1>2. Serial' /\ TaskDir'
    BY StopEffect, IdlePlaced DEF Serial, TaskDir
  <1>. QED
    BY <1>1, <1>2 DEF Placed

(* Discarding a pending proposal at the start keeps every proposal in one
   place.                                                                  *)
LEMMA DiscardPendingPlaced ==
    ASSUME Formed, Placed, NEW p \in Proposals, DiscardPending(p) PROVE Placed'
  <1>1. /\ Boot \in AllTasks /\ \A t \in AllTasks : task[t] = Idle /\ task[t].p = 0
        /\ Only(Boot, p) /\ task'[Boot] = Idle /\ UNCHANGED writer
        /\ dir'[p]["pending"] = NoDir /\ \A su \in Statuses \ {"pending"} : dir'[p][su] = dir[p][su]
    BY DiscardPendingEffect, IdleIs DEF AllTasks, Only
  <1>2. PlaceOK(p)'
    BY <1>1 DEF PlaceOK, NoDir, Placed, DirOK
  <1>3. p # 0
    BY DEF Proposals
  <1>. QED
    BY <1>1, <1>2, <1>3, IdlePlaced, PlacedStep

(* Recovering one proposal keeps every proposal in one place.              *)
LEMMA RecoverNextPlaced ==
    ASSUME Formed, Placed, RecoverNext PROVE Placed'
  <1>1. PICK p \in ToRecover :
          /\ \A t \in AllTasks : task[t] = Idle
          /\ p \in Proposals
          /\ UNCHANGED writer
          /\ \A q \in Proposals \ {p} : dir'[q] = dir[q]
          /\ \A u \in AllTasks \ {Boot} : task'[u] = task[u]
          /\ \/ UNCHANGED task /\ ShiftsDir(p, "committing", "committed")
             \/ /\ UNCHANGED dir
                /\ task'[Boot].pc = "enter" /\ task'[Boot].p = p /\ task'[Boot].w = 0
    BY RecoverNextEffect
  <1>2. Boot \in AllTasks /\ Only(Boot, p) /\ \A t \in AllTasks : task[t].p # p
    BY <1>1, IdleIs DEF AllTasks, Only, Proposals
  <1>3. PlaceOK(p) /\ dir[p]["committing"].there /\ writer[p] # "none"
        /\ "committing" \in Statuses /\ "committed" \in Statuses
    <2>1. PlaceOK(p) /\ "committing" \in Statuses /\ "committed" \in Statuses
      BY <1>1, StatusesAre DEF Placed, DirOK
    <2>2. dir[p]["committing"].there
      BY <1>1, <2>1 DEF PlaceOK, ToRecover, NoDir
    <2>. QED
      BY <2>1, <2>2 DEF PlaceOK
  <1>4. CASE UNCHANGED task /\ ShiftsDir(p, "committing", "committed")
    <2>1. PlaceOK(p)'
      BY <1>1, <1>3, <1>4, PlaceMoves
    <2>. QED
      BY <1>1, <1>2, <1>4, <2>1, IdlePlaced, PlacedStep
  <1>5. CASE /\ UNCHANGED dir
             /\ task'[Boot].pc = "enter" /\ task'[Boot].p = p /\ task'[Boot].w = 0
    <2>1. PlaceOK(p)' /\ TaskPlaced(task[Boot])'
      BY <1>1, <1>3, <1>5, PlaceStays DEF TaskPlaced, Publishing
    <2>. QED
      BY <1>1, <1>2, <1>5, <2>1, PlacedStep
  <1>. QED
    BY <1>1, <1>4, <1>5

(* A step that touches nothing of this keeps every proposal in one place.  *)
LEMMA QuietPlaced ==
    ASSUME Placed, UNCHANGED <<writer, dir, task>> PROVE Placed'
  BY DEF Placed, Serial, DirOK, PlaceOK, TaskDir, TaskPlaced

(* Every step keeps each proposal in one place.                            *)
LEMMA StepPlaced ==
    ASSUME Formed, Placed, "same_proposal" \notin Env, [Next]_vars PROVE Placed'
  <1>1. CASE UNCHANGED <<writer, dir, task>>
    BY <1>1, QuietPlaced
  <1>2. ASSUME NEW p \in Proposals, Create(p) \/ Demote(p) PROVE Placed'
    BY <1>2, CreatePlaced, DemotePlaced
  <1>3. ASSUME NEW t \in Tasks, NEW p \in Proposals, Request(t, p) PROVE Placed'
    BY <1>3, StartPlaced
  <1>4. ASSUME NEW t \in AllTasks, Progress(t) \/ GitFails(t) \/ FinalizeFails(t) PROVE Placed'
    <2>1. Pipeline(t) \/ WriteContent(t) \/ WriteAnswer(t) \/ WriteClaim(t) \/ WriteMeta(t)
            \/ Rename(t) \/ Rollback(t)
      BY <1>4 DEF Progress, Pipeline
    <2>. QED
      BY <2>1, PipelinePlaced, WriteContentPlaced, WriteAnswerPlaced, WriteClaimPlaced,
         WriteMetaPlaced, RenamePlaced, RollbackPlaced
  <1>5. CASE Recovery
    <2>1. Restart \/ RecoverDone => UNCHANGED <<writer, dir, task>>
      BY DEF Restart, RecoverDone, disk
    <2>. QED
      BY <1>1, <1>5, <2>1, DiscardPendingPlaced, RecoverNextPlaced, StopPlaced DEF Recovery
  <1>6. CASE Crash
    BY <1>6, StopPlaced
  <1>. QED
    BY <1>1, <1>2, <1>3, <1>4, <1>5, <1>6 DEF Next, vars

(* The store starts with no proposal.                                      *)
LEMMA InitPlaced == Init => Placed
  BY IdleIs DEF Init, Placed, Serial, DirOK, PlaceOK, TaskDir, TaskPlaced, Publishing, NoDir

(* So each proposal is in one place in every state.                        *)
LEMMA AlwaysPlaced ==
    ASSUME "same_proposal" \notin Env PROVE Spec => [](Formed /\ Placed)
<1>1. Formed /\ Placed /\ [Next]_vars => Placed'
  BY StepPlaced
<1>. QED
  BY <1>1, InitPlaced, InitFormed, StepFormed, PTL DEF Spec

(* A set whose elements are all equal has one at most.                     *)
LEMMA AtMostOne ==
    ASSUME NEW S, \A x, y \in S : x = y PROVE Cardinality(S) <= 1
  <1>1. CASE S = {}
    BY <1>1, FS_EmptySet
  <1>2. CASE S # {}
    <2>1. PICK x : S = {x}
      BY <1>2
    <2>. QED
      BY <2>1, FS_Singleton
  <1>. QED
    BY <1>1, <1>2

(* A proposal is never in two status directories, whatever fails and
   whenever the process stops, as long as the requests on one proposal
   come one after the other.                                               *)
THEOREM StatusUnambiguous ==
    ASSUME "same_proposal" \notin Env PROVE Spec => []OnePlace
<1>1. Placed => OnePlace
  <2> SUFFICES ASSUME Placed, NEW p \in Proposals
               PROVE  Cardinality({st \in Statuses : dir[p][st].there}) <= 1
    BY DEF OnePlace
  <2>1. \A x, y \in {st \in Statuses : dir[p][st].there} : x = y
    BY DEF Placed, DirOK, PlaceOK
  <2>. QED
    BY <2>1, AtMostOne
<1>. QED
  BY <1>1, AlwaysPlaced, PTL

-----------------------------------------------------------------------------

(* Proposal p claims section s in a status that blocks others.             *)
Holds(p, s) == \E st \in BlockingStatuses : dir[p][st].meta /\ s \in dir[p][st].targets

\* A request between its lock check and its claim still has the locks it checked.
Checked(t) ==
  LET k == task[t] IN
  /\ k.pc \in {"meta", "rename"} /\ k.to \in BlockingStatuses => LocksAvailable(k.p, k.targets)
  /\ k.pc \in {"content", "claim"} /\ writer[k.p] = "session" => LocksAvailable(k.p, {k.sec})

(* Nobody but t is between a lock check and its claim.                     *)
Quiet(t) == \A u \in AllTasks \ {t} : ~Claiming(u)

(* The proposal of an editing session is born with its locks.              *)
SessionOK(p) == writer[p] = "session" => ~dir[p]["draft"].there /\ ~dir[p]["pending"].there

(* The inductive invariant behind OneHolder: between the check of the
   locks and the claim nobody else can claim.                              *)
ClaimOK ==
  /\ \A t \in AllTasks : Checked(t)
  /\ \A t \in AllTasks : Claiming(t) => Quiet(t)
  /\ \A s : \A p, q \in Holders(s) : p = q
  /\ \A p \in Proposals : SessionOK(p)

(* The holders of a section are the proposals that claim it in a blocking
   status.                                                                 *)
LEMMA HoldersAre == ASSUME NEW s PROVE Holders(s) = {p \in Proposals : Holds(p, s)}
  BY DEF Holders, Holds

\* Nobody else gains a section when only p changes.
LEMMA LocksStay ==
    ASSUME NEW t, NEW p, Only(t, p), NEW T, LocksAvailable(p, T)
    PROVE  \A s \in T : Holders(s)' \subseteq {p}
  BY DEF Only, LocksAvailable, Holders

(* The step of one request on one proposal: that proposal gains a section
   only if nobody else has it and nobody is about to claim.                *)
LEMMA ClaimStep ==
    ASSUME Formed, ClaimOK, NEW t \in AllTasks, NEW p \in Proposals, Only(t, p),
           \A u \in AllTasks \ {t} : task[u].p # p,
           \A s : Holds(p, s)' => Holds(p, s) \/ (Holders(s) \subseteq {p} /\ Quiet(t)),
           Claiming(t)' => Quiet(t), Checked(t)', SessionOK(p)'
    PROVE  ClaimOK'
  <1>1. ASSUME NEW u \in AllTasks, u # t
        PROVE  /\ task'[u] = task[u]
               /\ task[u].pc # "idle" => task[u].p \in Proposals \ {p} /\ writer'[task[u].p] = writer[task[u].p]
    BY <1>1, TaskIs DEF Only
  <1>2. ASSUME NEW u \in AllTasks, u # t PROVE Claiming(u)' <=> Claiming(u)
    BY <1>1, <1>2 DEF Claiming
  <1>3. \A s : \A q \in Holders(s)' : q # p => q \in Holders(s)
    BY DEF Only, Holders
  <1>4. \A s : p \in Holders(s)' => p \in Holders(s) \/ (Holders(s) \subseteq {p} /\ Quiet(t))
    BY HoldersAre DEF Holders, Holds
  <1>5. ASSUME NEW u \in AllTasks, u # t PROVE Checked(u)'
    <2>1. Checked(u) /\ task'[u] = task[u]
      BY <1>1, <1>5 DEF ClaimOK
    <2>2. CASE ~Claiming(u)
      <3>1. ~Claiming(u)'
        BY <1>2, <1>5, <2>2
      <3>. QED
        BY <3>1 DEF Checked, Claiming
    <2>3. CASE Claiming(u)
      <3>1. ~Quiet(t) /\ task[u].p # p
        BY <1>5, <2>3 DEF Quiet
      <3>2. \A s : Holders(s)' \subseteq Holders(s)
        BY <1>3, <1>4, <3>1
      <3>3. writer'[task[u].p] = writer[task[u].p]
        BY <1>1, <1>5, <2>3 DEF Claiming
      <3>. QED
        BY <2>1, <3>2, <3>3 DEF Checked, LocksAvailable
    <2>. QED
      BY <2>2, <2>3
  <1>6. \A u \in AllTasks : Checked(u)'
    BY <1>5
  <1>7. \A u \in AllTasks : Claiming(u)' => Quiet(u)'
    <2> SUFFICES ASSUME NEW u \in AllTasks, Claiming(u)', NEW v \in AllTasks, v # u, Claiming(v)'
                 PROVE  FALSE
      BY DEF Quiet
    <2>. QED
      BY <1>2 DEF ClaimOK, Quiet
  <1>8. \A s : \A q, r \in Holders(s)' : q = r
    BY <1>3, <1>4 DEF ClaimOK
  <1>9. \A q \in Proposals : SessionOK(q)'
    BY DEF ClaimOK, SessionOK, Only
  <1>. QED
    BY <1>6, <1>7, <1>8, <1>9 DEF ClaimOK

\* The same for a step of a request under way.
LEMMA TaskClaimStep ==
    ASSUME Formed, Placed, ClaimOK, NEW t \in AllTasks, task[t].pc # "idle", NEW p, p = task[t].p, Only(t, p),
           \A s : Holds(p, s)' => Holds(p, s) \/ (Holders(s) \subseteq {p} /\ Quiet(t)),
           Claiming(t)' => Quiet(t), Checked(t)', SessionOK(p)'
    PROVE  ClaimOK'
  <1>1. p \in Proposals /\ p # 0
    BY TaskIs DEF Proposals
  <1>2. \A u \in AllTasks \ {t} : task[u].p # p
    BY <1>1 DEF Placed, Serial
  <1>. QED
    BY <1>1, <1>2, ClaimStep

(* A proposal gains no section as long as its claims and their statuses
   stay.                                                                   *)
LEMMA HoldsStay ==
    ASSUME NEW p, \A st \in BlockingStatuses : dir'[p][st].meta = dir[p][st].meta /\ dir'[p][st].targets = dir[p][st].targets
    PROVE  \A s : Holds(p, s)' => Holds(p, s)
  BY DEF Holds

(* A request that is over is not about to claim.                           *)
LEMMA IdleClaims ==
    ASSUME NEW t \in AllTasks, task'[t] = Idle
    PROVE  ~Claiming(t)' /\ Checked(t)'
  BY IdleIs DEF Claiming, Checked

(* Creating a proposal keeps the locks exclusive.                          *)
LEMMA CreateClaims ==
    ASSUME Formed, Placed, ClaimOK, NEW p \in Proposals, Create(p) PROVE ClaimOK'
  <1>1. PICK st \in {"draft", "pending", "inprogress"} :
          /\ Running /\ UNCHANGED task
          /\ \A q \in Proposals \ {p} : dir'[q] = dir[q] /\ writer'[q] = writer[q]
          /\ writer[p] = "none" 
          /\ writer'[p] = "session" => st = "inprogress"
          /\ st = "draft" \/ dir'[p][st].targets = {}
          /\ \A su \in Statuses \ {st} : dir'[p][su] = dir[p][su]
    BY CreateEffect DEF CreateDoes
  <1>2. Boot \in AllTasks /\ task[Boot] = Idle
    BY <1>1, TaskIs DEF AllTasks, Running, Formed, BootOK, TaskFormed
  <1>3. \A u \in AllTasks : task[u].p # p
    BY <1>1, TaskIs, IdleIs, StoreAssumption DEF Placed, TaskDir, TaskPlaced, TaskFormed, Proposals
  <1>4. Only(Boot, p)
    BY <1>1 DEF Only
  <1>5. \A s : Holds(p, s)' => Holds(p, s)
    <2>1. \A su \in BlockingStatuses : dir'[p][su] = dir[p][su] \/ dir'[p][su].targets = {}
      BY <1>1, StatusesAre DEF BlockingStatuses
    <2>. QED
      BY <2>1 DEF Holds
  <1>6. SessionOK(p)'
    BY <1>1, StatusesAre DEF SessionOK, Placed, DirOK, PlaceOK
  <1>. QED
    BY <1>1, <1>2, <1>3, <1>4, <1>5, <1>6, IdleClaims, ClaimStep

(* Demoting a pending proposal to a draft keeps the locks exclusive.       *)
LEMMA DemoteClaims ==
    ASSUME Formed, Placed, ClaimOK, "same_proposal" \notin Env, NEW p \in Proposals, Demote(p)
    PROVE  ClaimOK'
  <1>1. Boot \in AllTasks /\ task[Boot] = Idle
    BY DemoteEffect, TaskIs DEF AllTasks, Running, Formed, BootOK, TaskFormed
  <1>2. Only(Boot, p) /\ \A u \in AllTasks : task[u].p # p
    BY DemoteEffect DEF Only, OneRequest
  <1>3. \A s : Holds(p, s)' => Holds(p, s)
    BY DemoteEffect, StatusesAre, HoldsStay DEF MovesDir, ShiftsDir, BlockingStatuses
  <1>4. SessionOK(p)'
    BY DemoteEffect DEF SessionOK
  <1>. QED
    BY <1>1, <1>2, <1>3, <1>4, DemoteEffect, IdleClaims, ClaimStep

(* A request that starts keeps the locks exclusive.                        *)
LEMMA StartClaims ==
    ASSUME Formed, Placed, ClaimOK, {"same_proposal", "same_moment"} \cap Env = {},
           NEW t \in Tasks, NEW p \in Proposals, Request(t, p)
    PROVE  ClaimOK'
  <1>1. /\ t \in AllTasks /\ Only(t, p) /\ task'[t].p = p /\ task'[t].from = Locate(p)
        /\ \A u \in AllTasks : task[u].p # p
        /\ UNCHANGED writer
    BY StartEffect DEF OneRequest
  <1>2. PlaceOK(p) /\ SessionOK(p)
    BY DEF Placed, DirOK, ClaimOK
  <1>3. OneCheck => Quiet(t)
    BY DEF OneCheck, Quiet
  <1>4. ASSUME NEW s \in Sections, WriteStart(t, p, s)
        PROVE  UNCHANGED dir /\ (Claiming(t)' => Quiet(t)) /\ Checked(t)'
    <2>1. /\ UNCHANGED dir /\ task'[t].pc = "content" /\ MayWrite(p, s) /\ task'[t].sec = s
          /\ writer[p] = "session" => OneCheck
      BY <1>4, WriteStartEffect
    <2>2. writer[p] = "session" => LocksAvailable(p, {s})
      <3>1. Locate(p) \in OpenStatuses /\ Locate(p) \in Statuses
        BY <2>1, MayWriteOpen, StatusesAre DEF OpenStatuses
      <3>2. dir[p][Locate(p)].there
        BY <1>2, <3>1, Located DEF Missing, OpenStatuses
      <3>. QED
        BY <1>2, <2>1, <3>1, <3>2, MayWriteOpen DEF SessionOK, OpenStatuses
    <2>3. writer[p] = "session" => \A u \in {s} : Holders(u)' \subseteq {p}
      BY <1>1, <2>2, LocksStay
    <2>. QED
      BY <1>1, <1>3, <2>1, <2>3 DEF Claiming, Checked, LocksAvailable, BlockingStatuses
  <1>5. ASSUME Declare(t, p) PROVE (Claiming(t)' => Quiet(t)) /\ Checked(t)'
    BY <1>5, DeclareEffect DEF Claiming, Checked, BlockingStatuses
  <1>6. ASSUME AcquireStart(t, p) PROVE UNCHANGED dir /\ (Claiming(t)' => Quiet(t)) /\ Checked(t)'
    <2>1. /\ LocksAvailable(p, Targets(p)) /\ OneCheck
          /\ task'[t].pc = "meta" /\ task'[t].targets = Targets(p) /\ UNCHANGED dir
      BY <1>6, AcquireStartEffect
    <2>2. \A s \in Targets(p) : Holders(s)' \subseteq {p}
      BY <1>1, <2>1, LocksStay
    <2>. QED
      BY <1>1, <1>3, <2>1, <2>2 DEF Checked, LocksAvailable
  <1>7. ASSUME WithdrawStart(t, p) PROVE UNCHANGED dir /\ (Claiming(t)' => Quiet(t)) /\ Checked(t)'
    BY <1>7, WithdrawStartEffect DEF Claiming, Checked, BlockingStatuses
  <1>8. ASSUME CommitStart(t, p) PROVE UNCHANGED dir /\ (Claiming(t)' => Quiet(t)) /\ Checked(t)'
    <2>1. /\ LocksAvailable(p, Targets(p)) /\ OneCheck
          /\ task'[t].pc = "rename" /\ task'[t].targets = Targets(p) /\ UNCHANGED dir
      BY <1>8, CommitStartEffect
    <2>2. \A s \in Targets(p) : Holders(s)' \subseteq {p}
      BY <1>1, <2>1, LocksStay
    <2>. QED
      BY <1>1, <1>3, <2>1, <2>2 DEF Checked, LocksAvailable
  <1>9. /\ (Claiming(t)' => Quiet(t)) /\ Checked(t)'
        /\ UNCHANGED dir \/ Declare(t, p)
    BY <1>4, <1>5, <1>6, <1>7, <1>8 DEF Request
  <1>10. /\ \A s : Holds(p, s)' => Holds(p, s)
         /\ SessionOK(p)'
    <2>1. CASE UNCHANGED dir
      BY <1>1, <1>2, <2>1 DEF Holds, SessionOK
    <2>2. CASE Declare(t, p)
      <3>1. \A su \in Statuses \ {"draft"} : dir'[p][su] = dir[p][su]
        BY <2>2, DeclareEffect
      <3>2. \A s : Holds(p, s)' => Holds(p, s)
        BY <3>1, StatusesAre, HoldsStay DEF BlockingStatuses
      <3>3. SessionOK(p)'
        BY <1>1, <2>2, DeclareEffect DEF SessionOK
      <3>. QED
        BY <3>2, <3>3
    <2>. QED
      BY <1>9, <2>1, <2>2
  <1>. QED
    BY <1>1, <1>9, <1>10, ClaimStep

(* Writing the content file keeps the locks exclusive.                     *)
LEMMA WriteContentClaims ==
    ASSUME Formed, Placed, ClaimOK, NEW t \in AllTasks, WriteContent(t) PROVE ClaimOK'
  <1>1. PICK p, st : p = task[t].p /\ st = task[t].from
    OBVIOUS
  <1>2. PICK pc : pc = IF writer[p] = "human" /\ st # "pending" THEN "answer" ELSE "claim"
    OBVIOUS
  <1>3. /\ task[t].pc = "content" /\ p \in Proposals /\ st \in Statuses
        /\ TasksOnly(t, pc) /\ Only(t, p)
        /\ \A su \in Statuses \ {st} : dir'[p][su] = dir[p][su]
        /\ dir'[p][st].meta = dir[p][st].meta /\ dir'[p][st].targets = dir[p][st].targets
        /\ UNCHANGED writer
    BY <1>1, <1>2, WriteContentEffect DEF Only, TasksOnly
  <1>4. dir[p][st].there /\ SessionOK(p) /\ Checked(t)
    BY <1>1, <1>3, PlacedTask DEF TaskPlaced, ClaimOK
  <1>5. \A s : Holds(p, s)' => Holds(p, s)
    BY <1>3, StatusesAre, HoldsStay DEF BlockingStatuses
  <1>6. SessionOK(p)'
    BY <1>3, <1>4, StatusesAre DEF SessionOK
  <1>7. /\ Checked(t)' /\ (Claiming(t)' => Claiming(t))
    <2>1. task'[t].pc = pc /\ task'[t].p = p /\ task'[t].sec = task[t].sec
      BY <1>1, <1>3 DEF TasksOnly, PcOnly
    <2>2. writer[p] = "session" => \A s \in {task[t].sec} : Holders(s)' \subseteq {p}
      BY <1>1, <1>3, <1>4, LocksStay DEF Checked
    <2>. QED
      BY <1>1, <1>2, <1>3, <2>1, <2>2 DEF Checked, Claiming, LocksAvailable
  <1>. QED
    BY <1>1, <1>3, <1>5, <1>6, <1>7, TaskClaimStep DEF ClaimOK

(* Answering the write of a person keeps the locks exclusive.              *)
LEMMA WriteAnswerClaims ==
    ASSUME Formed, Placed, ClaimOK, NEW t \in AllTasks, WriteAnswer(t) PROVE ClaimOK'
  <1>1. PICK p : p = task[t].p
    OBVIOUS
  <1>2. task[t].pc # "idle" /\ SessionOK(p)
    BY <1>1, PlacedTask DEF WriteAnswer, ClaimOK
  <1>3. task'[t] = Idle /\ Only(t, p) /\ UNCHANGED <<dir, writer>>
    BY FinishDoes DEF WriteAnswer, disk, Only
  <1>4. SessionOK(p)' /\ \A s : Holds(p, s)' => Holds(p, s)
    BY <1>2, <1>3 DEF SessionOK, Holds
  <1>. QED
    BY <1>1, <1>2, <1>3, <1>4, IdleClaims, TaskClaimStep

(* Reading the claims again for a write keeps the locks exclusive.         *)
LEMMA WriteClaimClaims ==
    ASSUME Formed, Placed, ClaimOK, NEW t \in AllTasks, WriteClaim(t) PROVE ClaimOK'
  <1>1. PICK p : p = task[t].p
    OBVIOUS
  <1>2. task[t].pc = "claim" /\ PlaceOK(p) /\ UNCHANGED <<dir, writer>> /\ Only(t, p) /\ p \in Proposals
    BY <1>1, WriteClaimEffect, PlacedTask DEF Only
  <1>3. SessionOK(p)' /\ \A s : Holds(p, s)' => Holds(p, s)
    BY <1>2 DEF SessionOK, Holds, ClaimOK
  <1>4. CASE task'[t] = Idle
    BY <1>1, <1>2, <1>3, <1>4, IdleClaims, TaskClaimStep
  <1>5. CASE /\ Locate(p) \in OpenStatuses
             /\ task'[t].pc = "meta" /\ task'[t].p = p
             /\ task'[t].to = Locate(p)
             /\ task'[t].targets = {task[t].sec} \cup IF writer[p] = "session"
                                                     THEN Targets(p) ELSE task[t].targets
    <2>1. /\ task[t].from \in Statuses /\ dir[p][task[t].from].there
          /\ task[t].from = "inprogress" => writer[p] = "session"
      BY <1>1, <1>2, PlacedTask DEF TaskPlaced
    <2>2. Locate(p) = task[t].from
      BY <1>2, <2>1, Located
    <2>3. CASE Locate(p) = "inprogress"
      <3>1. writer[p] = "session" /\ LocksAvailable(p, {task[t].sec})
        BY <1>1, <1>2, <2>1, <2>2, <2>3 DEF ClaimOK, Checked
      <3>2. LocksAvailable(p, Targets(p))
        <4>1. \A s \in Targets(p) : p \in Holders(s)
          BY <1>2, <2>1, <2>2, <2>3 DEF Holders, Targets, BlockingStatuses, PlaceOK
        <4>. QED
          BY <4>1 DEF ClaimOK, LocksAvailable
      <3>3. LocksAvailable(p, task'[t].targets)
        BY <1>5, <3>1, <3>2 DEF LocksAvailable
      <3>4. Checked(t)'
        <4>1. \A s \in task'[t].targets : Holders(s)' \subseteq {p}
          BY <1>2, <3>3, LocksStay
        <4>. QED
          BY <1>5, <4>1 DEF Checked, LocksAvailable
      <3>5. Claiming(t)
        BY <1>1, <1>2, <3>1 DEF Claiming
      <3>. QED
        BY <1>1, <1>2, <1>3, <3>4, <3>5, TaskClaimStep DEF ClaimOK
    <2>4. CASE Locate(p) # "inprogress"
      <3>1. Checked(t)' /\ ~Claiming(t)'
        BY <1>5, <2>4 DEF Checked, Claiming, BlockingStatuses, OpenStatuses
      <3>. QED
        BY <1>1, <1>2, <1>3, <3>1, TaskClaimStep
    <2>. QED
      BY <2>3, <2>4
  <1>. QED
    BY <1>1, <1>4, <1>5, WriteClaimEffect

(* Writing meta.json keeps the locks exclusive.                            *)
LEMMA WriteMetaClaims ==
    ASSUME Formed, Placed, ClaimOK, NEW t \in AllTasks, WriteMeta(t) PROVE ClaimOK'
  <1>1. PICK p, st : p = task[t].p /\ st = task[t].from
    OBVIOUS
  <1>2. /\ task[t].pc = "meta" /\ p \in Proposals /\ st \in Statuses
        /\ Only(t, p)
        /\ \A su \in Statuses \ {st} : dir'[p][su] = dir[p][su]
        /\ dir'[p][st].targets = task[t].targets
        /\ UNCHANGED writer
        /\ task'[t] = Idle \/ PcOnly(t, "rename")
    BY <1>1, WriteMetaEffect DEF Only
  <1>3. PlaceOK(p) /\ dir[p][st].there /\ TaskPlaced(task[t]) /\ Checked(t) /\ SessionOK(p)
    BY <1>1, <1>2, PlacedTask DEF TaskPlaced, ClaimOK
  <1>4. \A s : Holds(p, s)' => Holds(p, s) \/ (Holders(s) \subseteq {p} /\ Quiet(t))
    <2> SUFFICES ASSUME NEW s, Holds(p, s)', ~Holds(p, s)
                 PROVE  Holders(s) \subseteq {p} /\ Quiet(t)
      OBVIOUS
    <2>1. st \in BlockingStatuses /\ s \in task[t].targets
      BY <1>2, StatusesAre DEF Holds, BlockingStatuses
    <2>2. task[t].to = st
      BY <1>1, <1>2, <1>3, <2>1 DEF TaskPlaced, Holds, PlaceOK
    <2>3. LocksAvailable(p, task[t].targets) /\ Claiming(t)
      BY <1>1, <1>2, <1>3, <2>1, <2>2 DEF Checked, Claiming
    <2>. QED
      BY <2>1, <2>3 DEF LocksAvailable, ClaimOK
  <1>5. SessionOK(p)'
    BY <1>2, <1>3, StatusesAre DEF SessionOK
  <1>6. CASE task'[t] = Idle
    BY <1>1, <1>2, <1>4, <1>5, <1>6, IdleClaims, TaskClaimStep
  <1>7. CASE PcOnly(t, "rename")
    <2>1. Claiming(t)' => Claiming(t)
      BY <1>2, <1>7 DEF Claiming, PcOnly
    <2>2. LocksAvailable(p, task[t].targets) => \A s \in task[t].targets : Holders(s)' \subseteq {p}
      BY <1>2, LocksStay
    <2>3. Checked(t)'
      BY <1>1, <1>2, <1>3, <1>7, <2>2 DEF Checked, PcOnly, LocksAvailable
    <2>. QED
      BY <1>1, <1>2, <1>4, <1>5, <2>1, <2>3, TaskClaimStep DEF ClaimOK
  <1>. QED
    BY <1>2, <1>6, <1>7

(* Renaming the directory keeps the locks exclusive.                       *)
LEMMA RenameClaims ==
    ASSUME Formed, Placed, ClaimOK, NEW t \in AllTasks, Rename(t) PROVE ClaimOK'
  <1>1. PICK p, st, su : p = task[t].p /\ st = task[t].from /\ su = task[t].to
    OBVIOUS
  <1>2. /\ st # su /\ ShiftsDir(p, st, su) /\ st \in Statuses /\ su \in Statuses
        /\ Only(t, p) /\ UNCHANGED writer /\ task[t].pc = "rename" /\ p \in Proposals
        /\ PcOnly(t, "enter") \/ task'[t] = Idle
    BY <1>1, RenameFits, RenameEffect DEF Only, MovesDir
  <1>3. PlaceOK(p) /\ TaskPlaced(task[t]) /\ Checked(t) /\ SessionOK(p)
    BY <1>1, <1>2, PlacedTask DEF ClaimOK
  <1>4. dir[p][st].targets = task[t].targets /\ su \notin {"draft", "pending"}
    BY <1>1, <1>2, <1>3 DEF TaskPlaced
  <1>5. \A s : Holds(p, s)' => Holds(p, s) \/ (Holders(s) \subseteq {p} /\ Quiet(t))
    <2> SUFFICES ASSUME NEW s, Holds(p, s)', ~Holds(p, s)
                 PROVE  Holders(s) \subseteq {p} /\ Quiet(t)
      OBVIOUS
    <2>1. su \in BlockingStatuses /\ s \in task[t].targets
      BY <1>2, <1>4, StatusesAre DEF Holds, BlockingStatuses, ShiftsDir, NoDir
    <2>2. LocksAvailable(p, task[t].targets) /\ Claiming(t)
      BY <1>1, <1>2, <1>3, <2>1 DEF Checked, Claiming
    <2>. QED
      BY <2>1, <2>2 DEF LocksAvailable, ClaimOK
  <1>6. SessionOK(p)'
    BY <1>2, <1>3, <1>4, StatusesAre DEF SessionOK, ShiftsDir, NoDir
  <1>7. ~Claiming(t)' /\ Checked(t)'
    BY <1>2, IdleClaims DEF Claiming, Checked, PcOnly
  <1>. QED
    BY <1>1, <1>2, <1>5, <1>6, <1>7, TaskClaimStep

(* A step of the publish pipeline keeps the locks exclusive.               *)
LEMMA PipelineClaims ==
    ASSUME Formed, Placed, ClaimOK, NEW t \in AllTasks, Pipeline(t) PROVE ClaimOK'
  <1>1. PICK p : p = task[t].p
    OBVIOUS
  <1>2. /\ p \in Proposals /\ Only(t, p) /\ UNCHANGED <<dir, writer>>
        /\ task[t].pc # "idle"
        /\ task'[t].pc \in Publishing \/ (task'[t].pc = "meta" /\ task'[t].to = "committed")
    BY <1>1, PipelineEffect DEF Only, Publishing
  <1>3. SessionOK(p)' /\ \A s : Holds(p, s)' => Holds(p, s)
    BY <1>2 DEF SessionOK, Holds, ClaimOK
  <1>4. ~Claiming(t)' /\ Checked(t)'
    BY <1>2 DEF Claiming, Checked, Publishing, BlockingStatuses
  <1>. QED
    BY <1>1, <1>2, <1>3, <1>4, TaskClaimStep

(* Taking a failed publish back keeps the locks exclusive.                 *)
LEMMA RollbackClaims ==
    ASSUME Formed, Placed, ClaimOK, NEW t \in AllTasks, Rollback(t) PROVE ClaimOK'
  <1>1. PICK p : p = task[t].p
    OBVIOUS
  <1>2. /\ task[t].pc = "rollback" /\ Only(t, p) /\ UNCHANGED writer /\ task'[t] = Idle
        /\ ShiftsDir(p, "committing", RollbackTo(p)) \/ UNCHANGED dir
    BY <1>1, RollbackEffect DEF Only, MovesDir
  <1>3. SessionOK(p)
    BY <1>1, <1>2, PlacedTask DEF ClaimOK
  <1>4. SessionOK(p)' /\ \A s : Holds(p, s)' => Holds(p, s)
    <2>1. CASE UNCHANGED dir
      BY <1>2, <1>3, <2>1 DEF SessionOK, Holds
    <2>2. CASE ShiftsDir(p, "committing", RollbackTo(p))
      BY <1>2, <1>3, <2>2, StatusesAre
         DEF SessionOK, Holds, ShiftsDir, NoDir, RollbackTo, BlockingStatuses
    <2>. QED
      BY <1>2, <2>1, <2>2
  <1>. QED
    BY <1>1, <1>2, <1>4, IdleClaims, TaskClaimStep

(* A stop of the process keeps the locks exclusive.                        *)
LEMMA StopClaims ==
    ASSUME Formed, Placed, ClaimOK, RecoveryFails \/ Crash PROVE ClaimOK'
  <1>1. \A t \in AllTasks : ~Claiming(t)' /\ Checked(t)'
    BY StopEffect, IdleClaims
  <1>2. ASSUME NEW s PROVE \A p, q \in Holders(s)' : p = q
    <2>1. Holders(s)' = Holders(s)
      BY StopEffect DEF Holders
    <2>. QED
      BY <2>1 DEF ClaimOK
  <1>3. \A p \in Proposals : SessionOK(p)'
    BY StopEffect DEF ClaimOK, SessionOK
  <1>. QED
    BY <1>1, <1>2, <1>3 DEF ClaimOK

(* Discarding a pending proposal at the start keeps the locks exclusive.   *)
LEMMA DiscardPendingClaims ==
    ASSUME Formed, Placed, ClaimOK, NEW p \in Proposals, DiscardPending(p) PROVE ClaimOK'
  <1>1. /\ Boot \in AllTasks /\ \A t \in AllTasks : task[t] = Idle /\ task[t].p = 0
        /\ Only(Boot, p) /\ task'[Boot] = Idle /\ UNCHANGED writer
        /\ dir'[p]["pending"] = NoDir /\ \A su \in Statuses \ {"pending"} : dir'[p][su] = dir[p][su]
    BY DiscardPendingEffect, IdleIs DEF AllTasks, Only
  <1>2. \A s : Holds(p, s)' => Holds(p, s)
    BY <1>1, StatusesAre, HoldsStay DEF BlockingStatuses
  <1>3. SessionOK(p)' /\ p # 0
    BY <1>1, StatusesAre DEF ClaimOK, SessionOK, NoDir, Proposals
  <1>. QED
    BY <1>1, <1>2, <1>3, IdleClaims, ClaimStep

(* Recovering one proposal keeps the locks exclusive.                      *)
LEMMA RecoverNextClaims ==
    ASSUME Formed, Placed, ClaimOK, RecoverNext PROVE ClaimOK'
  <1>1. PICK p \in ToRecover :
          /\ \A t \in AllTasks : task[t] = Idle
          /\ p \in Proposals
          /\ UNCHANGED writer
          /\ \A q \in Proposals \ {p} : dir'[q] = dir[q]
          /\ \A u \in AllTasks \ {Boot} : task'[u] = task[u]
          /\ \/ UNCHANGED task /\ ShiftsDir(p, "committing", "committed")
             \/ UNCHANGED dir /\ task'[Boot].pc = "enter"
    BY RecoverNextEffect
  <1>2. Boot \in AllTasks /\ Only(Boot, p) /\ \A t \in AllTasks : task[t].p # p
    BY <1>1, IdleIs DEF AllTasks, Only, Proposals
  <1>3. \A s : Holds(p, s)' => Holds(p, s)
    <2>1. \A st \in BlockingStatuses : dir'[p][st] \in {dir[p][st], NoDir}
      BY <1>1, StatusesAre DEF ShiftsDir, BlockingStatuses
    <2>. QED
      BY <2>1 DEF Holds, NoDir
  <1>4. SessionOK(p)'
    BY <1>1, StatusesAre DEF SessionOK, ClaimOK, ShiftsDir
  <1>5. ~Claiming(Boot)' /\ Checked(Boot)'
    BY <1>1, <1>2, IdleClaims DEF Claiming, Checked
  <1>. QED
    BY <1>1, <1>2, <1>3, <1>4, <1>5, ClaimStep

(* A step that touches nothing of this keeps the locks exclusive.          *)
LEMMA QuietClaims ==
    ASSUME ClaimOK, UNCHANGED <<writer, dir, task>> PROVE ClaimOK'
  BY DEF ClaimOK, Checked, Claiming, Quiet, Holders, LocksAvailable, SessionOK

(* Every step keeps the locks exclusive.                                   *)
LEMMA StepClaims ==
    ASSUME Formed, Placed, ClaimOK, {"same_proposal", "same_moment"} \cap Env = {}, [Next]_vars
    PROVE  ClaimOK'
  <1>1. CASE UNCHANGED <<writer, dir, task>>
    BY <1>1, QuietClaims
  <1>2. ASSUME NEW p \in Proposals, Create(p) \/ Demote(p) PROVE ClaimOK'
    BY <1>2, CreateClaims, DemoteClaims
  <1>3. ASSUME NEW t \in Tasks, NEW p \in Proposals, Request(t, p) PROVE ClaimOK'
    BY <1>3, StartClaims
  <1>4. ASSUME NEW t \in AllTasks, Progress(t) \/ GitFails(t) \/ FinalizeFails(t) PROVE ClaimOK'
    <2>1. Pipeline(t) \/ WriteContent(t) \/ WriteAnswer(t) \/ WriteClaim(t) \/ WriteMeta(t)
            \/ Rename(t) \/ Rollback(t)
      BY <1>4 DEF Progress, Pipeline
    <2>. QED
      BY <2>1, PipelineClaims, WriteContentClaims, WriteAnswerClaims, WriteClaimClaims,
         WriteMetaClaims, RenameClaims, RollbackClaims
  <1>5. CASE Recovery
    <2>1. Restart \/ RecoverDone => UNCHANGED <<writer, dir, task>>
      BY DEF Restart, RecoverDone, disk
    <2>. QED
      BY <1>1, <1>5, <2>1, DiscardPendingClaims, RecoverNextClaims, StopClaims DEF Recovery
  <1>6. CASE Crash
    BY <1>6, StopClaims
  <1>. QED
    BY <1>1, <1>2, <1>3, <1>4, <1>5, <1>6 DEF Next, vars

(* The store starts with no claim.                                         *)
LEMMA InitClaims == Init => ClaimOK
  <1> SUFFICES ASSUME Init PROVE ClaimOK
    OBVIOUS
  <1>1. \A t \in AllTasks : ~Claiming(t) /\ Checked(t)
    BY IdleIs DEF Init, Claiming, Checked
  <1>2. \A p \in Proposals, st \in Statuses : dir[p][st] = NoDir
    BY DEF Init
  <1>3. \A s : Holders(s) = {}
    BY <1>2, StatusesAre DEF Holders, NoDir, BlockingStatuses
  <1>4. \A p \in Proposals : SessionOK(p)
    BY <1>2, StatusesAre DEF SessionOK, NoDir
  <1>. QED
    BY <1>1, <1>3, <1>4 DEF ClaimOK

(* So the locks are exclusive in every state.                              *)
LEMMA AlwaysClaims ==
    ASSUME {"same_proposal", "same_moment"} \cap Env = {} PROVE Spec => [](Formed /\ Placed /\ ClaimOK)
<1>1. Formed /\ Placed /\ [Next]_vars => Placed'
  BY StepPlaced
<1>2. Formed /\ Placed /\ ClaimOK /\ [Next]_vars => ClaimOK'
  BY StepClaims
<1>. QED
  BY <1>1, <1>2, InitClaims, InitPlaced, InitFormed, StepFormed, PTL DEF Spec

(* No section is held by two proposals, across every transition, failure
   and recovery, as long as requests on one proposal come one after the
   other and no two requests are between their lock check and their claim
   at the same moment: the code checks locks and claims them in separate
   file operations.                                                        *)
THEOREM LocksExclusive ==
    ASSUME {"same_proposal", "same_moment"} \cap Env = {} PROVE Spec => []OneHolder
<1>1. ClaimOK => OneHolder
  BY AtMostOne DEF ClaimOK, OneHolder
<1>. QED
  BY <1>1, AlwaysClaims, PTL

-----------------------------------------------------------------------------
(* Acknowledged writes are kept, across renames, publishes, failures, stops
   and recoveries.                                                          *)

(* The numbers of some writes.                                             *)
Nums(W) == {w.n : w \in W}

(* Write n is in a directory of proposal p.                                *)
Written(p, n) == \E st \in Statuses : n \in Nums(dir[p][st].work)

(* The steps of a publish after its commit.                                *)
Landing(k) == \/ k.pc \in {"landed", "finalize"}
              \/ k.pc \in {"meta", "rename"} /\ k.to = "committed"

(* A write's number is its own: it is given once, found in one proposal
   only, and acknowledged only after the request that carries it.          *)
FreshOK ==
  /\ \A n \in acked : n <= nWrites
  /\ \A p \in Proposals : \A n : Written(p, n) => n \in Nat /\ n <= nWrites
  /\ \A p, q \in Proposals : \A n : Written(p, n) /\ Written(q, n) => p = q
  /\ \A t \in AllTasks : task[t].w > 0 =>
       /\ task[t].w <= nWrites /\ task[t].w \notin acked
       /\ \A q \in Proposals : Written(q, task[t].w) => q = task[t].p
  /\ \A t, u \in AllTasks : task[t].w > 0 /\ task[t].w = task[u].w => t = u

(* What a request knows of the writes: its own is in the directory it
   found, and after the commit all that its proposal stages is in the log. *)
TaskKept(k) ==
  /\ k.pc \in {"answer", "claim"} \/ (k.pc = "meta" /\ k.w > 0)
       => k.w \in Nums(dir[k.p][k.from].work)
  /\ Landing(k) => Nums(Overlay(k.p)) \subseteq LandedWrites
  /\ k.pc = "answer" => writer[k.p] = "human"
  /\ k.pc = "rename" /\ k.to = "committing" /\ k.from = "draft" => writer[k.p] = "agent"
  /\ k.pc = "rename" /\ k.to \notin {"committing", "committed"} => ~dir[k.p][k.from].landed

(* A proposal marked as landed, or lying in committed, has its
   acknowledged writes in the log.                                         *)
LandedOK(p) ==
  /\ Nums(dir[p]["committed"].work) \cap acked \subseteq LandedWrites
  /\ \A st \in Statuses :
       dir[p][st].landed =>
         /\ writer[p] = "human" => st \notin {"pending", "inprogress"}
         /\ ~(writer[p] = "human" /\ st = "draft")
            => Nums(dir[p][st].work) \cap acked \subseteq LandedWrites

(* The acknowledged writes are kept.                                       *)
KeptOK ==
  /\ \A n \in acked \ dropped : n \in LandedWrites \/ \E p \in Proposals : Written(p, n)
  /\ \A t \in AllTasks : TaskKept(task[t])
  /\ \A p \in Proposals : LandedOK(p)

(* The step of one request on one proposal: a number comes from the
   counter, a written one from the request.                                *)
LEMMA FreshStep ==
    ASSUME Formed, FreshOK, NEW t \in AllTasks, NEW p \in Proposals, Only(t, p),
           \/ nWrites' = nWrites
           \/ nWrites' = nWrites + 1 /\ task'[t].w = nWrites' /\ task'[t].p = p,
           \A n : Written(p, n)' => Written(p, n) \/ (task[t].w > 0 /\ n = task[t].w /\ task[t].p = p),
           \/ acked' = acked
           \/ acked' = acked \cup {task[t].w} /\ task[t].w > 0 /\ task'[t].w = 0,
           \/ task'[t].w = 0
           \/ task'[t].w = task[t].w /\ task'[t].p = task[t].p
           \/ nWrites' = nWrites + 1
    PROVE  FreshOK'
  <1>1. nWrites \in Nat /\ acked \subseteq Nat /\ \A u \in AllTasks : task[u].w \in Nat
    BY StoreAssumption, TaskIs DEF Formed, TypeOK, HistoryTyped, TaskType
  <1>2. \A q \in Proposals \ {p} : \A n : Written(q, n)' <=> Written(q, n)
    BY DEF Only, Written
  <1>3. \A u \in AllTasks \ {t} : task'[u] = task[u]
    BY DEF Only
  <1>4. \A q \in Proposals : \A n : Written(q, n)' =>
          Written(q, n) \/ (q = p /\ task[t].w > 0 /\ n = task[t].w /\ task[t].p = p)
    BY <1>2
  <1>5. \A n \in acked' : n <= nWrites'
    <2>1. \A n \in acked : n \in Nat /\ n <= nWrites
      BY <1>1 DEF FreshOK
    <2>2. task[t].w > 0 => task[t].w <= nWrites
      BY DEF FreshOK
    <2>3. nWrites' \in Nat /\ nWrites <= nWrites'
      BY <1>1
    <2>4. \A n \in acked' : n \in acked \/ (n = task[t].w /\ task[t].w > 0)
      OBVIOUS
    <2> SUFFICES ASSUME NEW n \in acked' PROVE n <= nWrites'
      OBVIOUS
    <2>5. n \in Nat /\ n <= nWrites
      BY <1>1, <2>1, <2>2, <2>4
    <2>. QED
      BY <1>1, <2>3, <2>5
  <1>6. \A q \in Proposals : \A n : Written(q, n)' => n \in Nat /\ n <= nWrites'
    BY <1>1, <1>4 DEF FreshOK
  <1>7. \A q, r \in Proposals : \A n : Written(q, n)' /\ Written(r, n)' => q = r
    BY <1>4 DEF FreshOK
  <1>8. \A u \in AllTasks : task'[u].w > 0 =>
          /\ task'[u].w <= nWrites' /\ task'[u].w \notin acked'
          /\ \A q \in Proposals : Written(q, task[u].w)' => q = task'[u].p
    <2> SUFFICES ASSUME NEW u \in AllTasks, task'[u].w > 0
                 PROVE  /\ task'[u].w <= nWrites' /\ task'[u].w \notin acked'
                        /\ \A q \in Proposals : Written(q, task[u].w)' => q = task'[u].p
      OBVIOUS
    <2>1. CASE u # t
      BY <1>1, <1>3, <1>4, <2>1 DEF FreshOK
    <2>2. CASE u = t /\ task'[t].w = task[t].w /\ task'[t].p = task[t].p
      BY <1>1, <1>4, <2>2 DEF FreshOK
    <2>3. CASE u = t /\ nWrites' = nWrites + 1
      <3>1. task'[t].w = nWrites + 1 /\ task'[t].p = p /\ acked' = acked
        BY <1>1, <2>3
      <3>. QED
        BY <1>1, <1>4, <2>3, <3>1 DEF FreshOK
    <2>. QED
      BY <1>1, <2>1, <2>2, <2>3
  <1>9. \A u, v \in AllTasks : task'[u].w > 0 /\ task'[u].w = task'[v].w => u = v
    BY <1>1, <1>3 DEF FreshOK
  <1>. QED
    BY <1>5, <1>6, <1>7, <1>8, <1>9 DEF FreshOK

(* A step that loses no write of its proposal keeps the others' too.       *)
LEMMA KeptStep ==
    ASSUME Formed, Placed, KeptOK, FreshOK', NEW t \in AllTasks, NEW p \in Proposals, Only(t, p),
           \A u \in AllTasks \ {t} : task[u].p # p,
           LandedWrites \subseteq LandedWrites', dropped \subseteq dropped',
           \A n \in acked' : n \in acked \/ Written(p, n)',
           \A n : Written(p, n) => Written(p, n)' \/ n \in dropped',
           TaskKept(task[t])', LandedOK(p)'
    PROVE  KeptOK'
  <1>1. \A q \in Proposals \ {p} : \A n : Written(q, n)' <=> Written(q, n)
    BY DEF Only, Written
  <1>2. \A n \in acked' \ dropped' : n \in LandedWrites' \/ \E q \in Proposals : Written(q, n)'
    BY <1>1 DEF KeptOK
  <1>3. ASSUME NEW u \in AllTasks, u # t PROVE TaskKept(task[u])'
    <2>1. task'[u] = task[u] /\ TaskKept(task[u])
      BY <1>3 DEF Only, KeptOK
    <2>2. CASE task[u].pc = "idle"
      BY <2>1, <2>2 DEF TaskKept, Landing
    <2>3. CASE task[u].pc # "idle"
      <3>1. dir'[task[u].p] = dir[task[u].p] /\ writer'[task[u].p] = writer[task[u].p]
        BY <1>3, <2>3, TaskIs DEF Only
      <3>. QED
        BY <2>1, <3>1 DEF TaskKept, Landing, Overlay
    <2>. QED
      BY <2>2, <2>3
  <1>4. ASSUME NEW q \in Proposals, q # p PROVE LandedOK(q)'
    <2>1. dir'[q] = dir[q] /\ writer'[q] = writer[q] /\ LandedOK(q)
      BY <1>4 DEF Only, KeptOK
    <2>2. \A st \in Statuses : Nums(dir[q][st].work) \cap acked' \subseteq acked
      <3> SUFFICES ASSUME NEW st \in Statuses, NEW n \in Nums(dir[q][st].work), n \in acked', n \notin acked
                   PROVE  FALSE
        OBVIOUS
      <3>1. Written(q, n)' /\ Written(p, n)'
        BY <2>1 DEF Written
      <3>. QED
        BY <1>4, <3>1 DEF FreshOK
    <2>. QED
      BY <2>1, <2>2, StatusesAre DEF LandedOK
  <1>. QED
    BY <1>2, <1>3, <1>4 DEF KeptOK

(* The inductive invariant behind AckedWritesKept.                         *)
History == FreshOK /\ KeptOK

(* A request that is over has no write.                                    *)
LEMMA IdleKept ==
    ASSUME NEW t \in AllTasks, task'[t] = Idle
    PROVE  task'[t].w = 0 /\ TaskKept(task[t])'
  BY IdleIs DEF TaskKept, Landing

(* Both together.                                                          *)
LEMMA HistoryStep ==
    ASSUME Formed, Placed, History, NEW t \in AllTasks, NEW p \in Proposals, Only(t, p),
           NEW w, w = task[t].w,
           \A u \in AllTasks \ {t} : task[u].p # p,
           \/ nWrites' = nWrites
           \/ nWrites' = nWrites + 1 /\ task'[t].w = nWrites' /\ task'[t].p = p,
           \A n : Written(p, n)' => Written(p, n) \/ (task[t].w > 0 /\ n = task[t].w /\ task[t].p = p),
           \/ acked' = acked
           \/ acked' = acked \cup {task[t].w} /\ task[t].w > 0 /\ task'[t].w = 0 /\ Written(p, w)',
           \/ task'[t].w = 0
           \/ task'[t].w = task[t].w /\ task'[t].p = task[t].p
           \/ nWrites' = nWrites + 1,
           LandedWrites \subseteq LandedWrites', dropped \subseteq dropped',
           \A n : Written(p, n) => Written(p, n)' \/ n \in dropped',
           TaskKept(task[t])', LandedOK(p)'
    PROVE  History'
  <1>1. FreshOK'
    BY FreshStep DEF History
  <1>2. \A n \in acked' : n \in acked \/ Written(p, n)'
    BY TaskIs
  <1>3. KeptOK'
    BY <1>1, <1>2, KeptStep DEF History
  <1>. QED
    BY <1>1, <1>3 DEF History

(* What has landed stays while the log does.                               *)
LEMMA LogStays == ASSUME UNCHANGED log PROVE LandedWrites' = LandedWrites
  BY DEF LandedWrites

(* A commit adds what it commits to what has landed, and takes nothing
   away.                                                                   *)
LEMMA LogGrows ==
    ASSUME Formed, NEW p \in Proposals, NEW W, log' = Append(log, [p |-> p, work |-> W])
    PROVE  LandedWrites \subseteq LandedWrites' /\ Nums(W) \subseteq LandedWrites'
  <1>1. log \in Seq([p : Proposals, work : SUBSET Work])
    BY DEF Formed, TypeOK, DiskTyped
  <1>2. /\ DOMAIN log \subseteq DOMAIN log'
        /\ \A i \in DOMAIN log : log'[i].work = log[i].work
        /\ Len(log) + 1 \in DOMAIN log' /\ log'[Len(log) + 1].work = W
    BY <1>1
  <1>. QED
    BY <1>2 DEF LandedWrites, Nums

(* One more write is one more number.                                      *)
LEMMA NumsAdd ==
    ASSUME NEW W, NEW n, NEW s
    PROVE  Nums(W \cup {[n |-> n, sec |-> s]}) = Nums(W) \cup {n}
  <1>1. PICK e : e = [n |-> n, sec |-> s]
    OBVIOUS
  <1>2. e.n = n
    BY <1>1
  <1>3. Nums(W \cup {e}) = Nums(W) \cup {e.n}
    BY DEF Nums
  <1>. QED
    BY <1>1, <1>2, <1>3

(* An empty directory holds no write.                                      *)
LEMMA NoNums == Nums({}) = {} /\ NoDir.work = {} /\ ~NoDir.landed /\ ~NoDir.there /\ ~NoDir.meta
  BY DEF Nums, NoDir

\* All that is written of a proposal is in its one directory.
LEMMA OneDir ==
    ASSUME NEW p, PlaceOK(p), NEW st \in Statuses, dir[p][st].there
    PROVE  /\ \A su \in Statuses \ {st} : dir[p][su] = NoDir
           /\ \A n : Written(p, n) <=> n \in Nums(dir[p][st].work)
  BY NoNums DEF PlaceOK, Written

(* The same after a step.                                                  *)
LEMMA OneDirNext ==
    ASSUME NEW p, PlaceOK(p)', NEW st \in Statuses, dir'[p][st].there
    PROVE  /\ \A su \in Statuses \ {st} : dir'[p][su] = NoDir
           /\ \A n : Written(p, n)' <=> n \in Nums(dir'[p][st].work)
  BY NoNums DEF PlaceOK, Written

(* For a proposal in one directory it is enough to look at that one.       *)
LEMMA LandedIn ==
    ASSUME NEW p, PlaceOK(p)', NEW st \in Statuses, dir'[p][st].there,
           st = "committed" => Nums(dir'[p][st].work) \cap acked' \subseteq LandedWrites',
           dir'[p][st].landed =>
             /\ writer'[p] = "human" => st \notin {"pending", "inprogress"}
             /\ ~(writer'[p] = "human" /\ st = "draft")
                  => Nums(dir'[p][st].work) \cap acked' \subseteq LandedWrites'
    PROVE  LandedOK(p)'
  <1>1. \A su \in Statuses \ {st} : dir'[p][su] = NoDir
    BY OneDirNext
  <1>2. "committed" \in Statuses
    BY StatusesAre
  <1>. QED
    BY <1>1, <1>2, NoNums DEF LandedOK

(* A step that changes no file, no log and no answer.                      *)
LEMMA LandedStays ==
    ASSUME NEW p, LandedOK(p), UNCHANGED <<dir, writer, log, acked>>
    PROVE  LandedOK(p)' /\ \A n : Written(p, n)' <=> Written(p, n)
  BY LogStays DEF LandedOK, Written

(* Creating a proposal loses no acknowledged write.                        *)
LEMMA CreateKept ==
    ASSUME Formed, Placed, History, Placed', NEW p \in Proposals, Create(p) PROVE History'
  <1>1. PICK st \in {"draft", "pending", "inprogress"} :
          /\ Running /\ UNCHANGED <<task, log, nWrites, acked, dropped>>
          /\ \A q \in Proposals \ {p} : dir'[q] = dir[q] /\ writer'[q] = writer[q]
          /\ writer[p] = "none"
          /\ dir'[p][st].there /\ ~dir'[p][st].landed
          /\ dir'[p][st].work = dir[p][st].work
          /\ \A su \in Statuses \ {st} : dir'[p][su] = dir[p][su]
    BY CreateEffect DEF CreateDoes
  <1>2. Boot \in AllTasks /\ task[Boot] = Idle /\ task'[Boot] = Idle
    BY <1>1, TaskIs DEF AllTasks, Running, Formed, BootOK, TaskFormed
  <1>3. \A u \in AllTasks : task[u].p # p
    BY <1>1, TaskIs, IdleIs, StoreAssumption DEF Placed, TaskDir, TaskPlaced, TaskFormed, Proposals
  <1>4. Only(Boot, p)
    BY <1>1 DEF Only
  <1>5. \A su \in Statuses : dir'[p][su].work = dir[p][su].work
    BY <1>1
  <1>6. \A n : Written(p, n)' <=> Written(p, n)
    BY <1>5 DEF Written
  <1>7. LandedOK(p)' /\ LandedWrites' = LandedWrites
    <2>1. st \in Statuses /\ PlaceOK(p)' /\ st # "committed"
      BY StatusesAre DEF Placed, DirOK
    <2>. QED
      BY <1>1, <2>1, LandedIn, LogStays
  <1>. QED
    BY <1>1, <1>2, <1>3, <1>4, <1>6, <1>7, IdleKept, HistoryStep

(* Demoting a pending proposal to a draft loses no acknowledged write.     *)
LEMMA DemoteKept ==
    ASSUME Formed, Placed, History, Placed', "same_proposal" \notin Env, NEW p \in Proposals, Demote(p)
    PROVE  History'
  <1>1. Boot \in AllTasks /\ task[Boot] = Idle /\ task'[Boot] = Idle
    BY DemoteEffect, TaskIs DEF AllTasks, Running, Formed, BootOK, TaskFormed
  <1>2. /\ Only(Boot, p) /\ \A u \in AllTasks : task[u].p # p
        /\ dir[p]["pending"].there /\ dir'[p]["draft"] = dir[p]["pending"] /\ writer[p] = "agent"
        /\ UNCHANGED <<writer, log, nWrites, acked, dropped>>
    BY DemoteEffect DEF Only, OneRequest, MovesDir, CanMove, ShiftsDir
  <1>3. "pending" \in Statuses /\ "draft" \in Statuses /\ PlaceOK(p) /\ PlaceOK(p)' /\ LandedOK(p)
    BY StatusesAre DEF Placed, DirOK, History, KeptOK
  <1>4. \A n : Written(p, n)' <=> Written(p, n)
    BY <1>2, <1>3, OneDir, OneDirNext
  <1>5. LandedWrites' = LandedWrites
    BY <1>2, LogStays
  <1>6. LandedOK(p)'
    <2>1. dir[p]["pending"].landed => Nums(dir[p]["pending"].work) \cap acked \subseteq LandedWrites
      BY <1>2, <1>3 DEF LandedOK
    <2>. QED
      BY <1>2, <1>3, <1>5, <2>1, LandedIn
  <1>. QED
    BY <1>1, <1>2, <1>4, <1>5, <1>6, IdleKept, HistoryStep

(* A request that starts loses no acknowledged write.                      *)
LEMMA StartKept ==
    ASSUME Formed, Placed, History, Placed', "same_proposal" \notin Env, NEW t \in Tasks,
           NEW p \in Proposals, Request(t, p)
    PROVE  History'
  <1>1. /\ t \in AllTasks /\ Only(t, p) /\ task'[t].p = p /\ task'[t].from = Locate(p)
        /\ \A u \in AllTasks : task[u].p # p
        /\ UNCHANGED <<writer, log, acked>>
        /\ task'[t].pc # "content" => task'[t].w = 0
        /\ task[t].w = 0
    BY StartEffect, IdleIs DEF OneRequest
  <1>2. PlaceOK(p) /\ LandedOK(p) /\ LandedWrites' = LandedWrites /\ PlaceOK(p)'
    BY <1>1, LogStays DEF Placed, DirOK, History, KeptOK
  <1>3. ASSUME NEW s \in Sections, WriteStart(t, p, s) PROVE History'
    <2>1. /\ UNCHANGED <<dir, dropped>> /\ task'[t].pc = "content" /\ nWrites' = nWrites + 1
          /\ task'[t].w = nWrites'
      BY <1>3, WriteStartEffect
    <2>2. TaskKept(task[t])'
      BY <2>1 DEF TaskKept, Landing
    <2>. QED
      BY <1>1, <1>2, <2>1, <2>2, LandedStays, HistoryStep
  <1>4. ASSUME AcquireStart(t, p) \/ WithdrawStart(t, p) \/ CommitStart(t, p) PROVE History'
    <2>1. /\ UNCHANGED <<dir, nWrites, dropped>> 
          /\ \/ task'[t].pc = "meta" /\ task'[t].to # "committed"
             \/ task'[t].pc = "rename" /\ task'[t].to = "committing" /\ Locate(p) \in MayCommitFrom(p)
      BY <1>4, AcquireStartEffect, WithdrawStartEffect, CommitStartEffect
    <2>2. task'[t].w = 0
      BY <1>1, <2>1
    <2>3. TaskKept(task[t])'
      BY <1>1, <2>1, <2>2 DEF TaskKept, Landing, MayCommitFrom
    <2>. QED
      BY <1>1, <1>2, <2>1, <2>2, <2>3, LandedStays, HistoryStep
  <1>5. ASSUME Declare(t, p) PROVE History'
    <2>1. /\ task'[t].pc = "meta" /\ task'[t].to = "draft" /\ UNCHANGED nWrites /\ task'[t].w = 0
          /\ dir'[p]["draft"].there = dir[p]["draft"].there
          /\ dir'[p]["draft"].landed = dir[p]["draft"].landed
          /\ Locate(p) = "draft"  /\ writer[p] = "human" /\ "draft" \in Statuses
      BY <1>1, <1>5, DeclareEffect, StatusesAre
    <2>2. dir[p]["draft"].there
      BY <1>2, <2>1, Located DEF Missing
    <2>3. LandedOK(p)'
      BY <1>1, <1>2, <2>1, <2>2, LandedIn
    <2>4. TaskKept(task[t])'
      BY <2>1 DEF TaskKept, Landing
    <2>5. CASE UNCHANGED <<dir, dropped>>
      BY <1>1, <1>2, <2>1, <2>3, <2>4, <2>5, LandedStays, HistoryStep
    <2>6. CASE dir'[p]["draft"].work = {} /\ dropped' = dropped \cup {w.n : w \in dir[p]["draft"].work}
      <3>0. PlaceOK(p)' /\ dir'[p]["draft"].there /\ Nums(dir'[p]["draft"].work) = {}
        BY <1>2, <2>1, <2>2, <2>6, NoNums
      <3>1. \A n : ~Written(p, n)'
        BY <2>1, <3>0, OneDirNext
      <3>2. \A n : Written(p, n) => n \in dropped'
        BY <1>2, <2>1, <2>2, <2>6, OneDir DEF Nums
      <3>. QED
        BY <1>1, <1>2, <2>1, <2>3, <2>4, <2>6, <3>1, <3>2, HistoryStep
    <2>. QED
      BY <1>5, <2>5, <2>6, DeclareEffect
  <1>. QED
    BY <1>3, <1>4, <1>5 DEF Request

(* The same for a request under way.                                       *)
LEMMA TaskHistoryStep ==
    ASSUME Formed, Placed, Placed', History, NEW t \in AllTasks, task[t].pc # "idle",
           NEW p, p = task[t].p, NEW w, w = task[t].w, Only(t, p), nWrites' = nWrites,
           \A n : Written(p, n)' => Written(p, n) \/ (task[t].w > 0 /\ n = task[t].w),
           \/ acked' = acked
           \/ acked' = acked \cup {task[t].w} /\ task[t].w > 0 /\ task'[t].w = 0 /\ Written(p, w)',
           \/ task'[t].w = 0
           \/ task'[t].w = task[t].w /\ task'[t].p = task[t].p,
           LandedWrites \subseteq LandedWrites', dropped' = dropped,
           \A n : Written(p, n) => Written(p, n)',
           TaskKept(task[t])', LandedOK(p)'
    PROVE  History'
  <1>1. p \in Proposals /\ p # 0
    BY TaskIs DEF Proposals
  <1>2. \A u \in AllTasks \ {t} : task[u].p # p
    BY <1>1 DEF Placed, Serial
  <1>. QED
    BY <1>1, <1>2, HistoryStep

\* Placed and KeptOK of one request and its proposal.
LEMMA KeptTask ==
    ASSUME Formed, Placed, Placed', History, NEW t \in AllTasks, task[t].pc # "idle", NEW p, p = task[t].p
    PROVE  /\ p \in Proposals /\ PlaceOK(p) /\ PlaceOK(p)' /\ TaskPlaced(task[t])
           /\ TaskKept(task[t]) /\ LandedOK(p) /\ task[t].w \in Nat
  BY PlacedTask, TaskIs DEF Placed, DirOK, History, KeptOK, TaskType, Formed

(* Writing the content file loses no acknowledged write.                   *)
LEMMA WriteContentKept ==
    ASSUME Formed, Placed, Placed', History, NEW t \in AllTasks, WriteContent(t) PROVE History'
  <1>1. PICK p, st, w : p = task[t].p /\ st = task[t].from /\ w = task[t].w
    OBVIOUS
  <1>2. PICK pc : pc = IF writer[p] = "human" /\ st # "pending" THEN "answer" ELSE "claim"
    OBVIOUS
  <1>3. /\ task[t].pc = "content" /\ p \in Proposals /\ st \in Statuses
        /\ TasksOnly(t, pc) /\ Only(t, p)
        /\ dir'[p][st].there /\ dir'[p][st].landed = dir[p][st].landed
        /\ dir'[p][st].work = dir[p][st].work \cup {[n |-> w, sec |-> task[t].sec]}
        /\ UNCHANGED <<writer, log, nWrites, acked, dropped>>
    BY <1>1, <1>2, WriteContentEffect DEF Only, TasksOnly
  <1>4. /\ PlaceOK(p) /\ PlaceOK(p)' /\ dir[p][st].there /\ LandedOK(p) /\ w > 0 /\ st \in OpenStatuses
        /\ w \notin acked
    BY <1>1, <1>3, KeptTask, TaskIs DEF TaskPlaced, TaskFormed, History, FreshOK
  <1>5. Nums(dir'[p][st].work) = Nums(dir[p][st].work) \cup {w}
    <2>1. Nums(dir[p][st].work \cup {[n |-> w, sec |-> task[t].sec]}) = Nums(dir[p][st].work) \cup {w}
      BY NumsAdd
    <2>. QED
      BY <1>3, <2>1
  <1>6. /\ \A n : Written(p, n)' => Written(p, n) \/ n = w
        /\ \A n : Written(p, n) => Written(p, n)'
    BY <1>3, <1>4, <1>5, OneDir, OneDirNext
  <1>7. LandedWrites' = LandedWrites
    BY <1>3, LogStays
  <1>8. LandedOK(p)'
    <2>1. dir[p][st].landed =>
             /\ writer[p] = "human" => st \notin {"pending", "inprogress"}
             /\ ~(writer[p] = "human" /\ st = "draft")
                  => Nums(dir[p][st].work) \cap acked \subseteq LandedWrites
      BY <1>3, <1>4 DEF LandedOK
    <2>2. st # "committed" /\ Nums(dir'[p][st].work) \cap acked = Nums(dir[p][st].work) \cap acked
      BY <1>4, <1>5 DEF OpenStatuses
    <2>. QED
      BY <1>3, <1>4, <1>7, <2>1, <2>2, LandedIn
  <1>9. TaskKept(task[t])' /\ task'[t].w = task[t].w /\ task'[t].p = task[t].p
    <2>1. task'[t].pc = pc /\ task'[t].p = p /\ task'[t].from = st /\ task'[t].w = w
      BY <1>1, <1>3 DEF TasksOnly, PcOnly
    <2>. QED
      BY <1>1, <1>2, <1>3, <1>5, <2>1 DEF TaskKept, Landing
  <1>. QED
    BY <1>1, <1>3, <1>4, <1>6, <1>7, <1>8, <1>9, TaskHistoryStep

(* Answering the write of a person loses no acknowledged write.            *)
LEMMA WriteAnswerKept ==
    ASSUME Formed, Placed, Placed', History, NEW t \in AllTasks, WriteAnswer(t) PROVE History'
  <1>1. PICK p, st, w : p = task[t].p /\ st = task[t].from /\ w = task[t].w
    OBVIOUS
  <1>2. /\ task[t].pc = "answer" /\ task'[t] = Idle /\ Only(t, p)
        /\ UNCHANGED <<dir, writer, log, nWrites, dropped>>
        /\ acked' = acked \/ acked' = acked \cup {w}
    BY <1>1, FinishDoes DEF WriteAnswer, disk, Only, counters
  <1>3. /\ PlaceOK(p) /\ PlaceOK(p)' /\ dir[p][st].there /\ LandedOK(p) /\ w > 0 /\ st \in OpenStatuses
        /\ st \in Statuses /\ w \in Nums(dir[p][st].work) /\ writer[p] = "human" /\ p \in Proposals
    BY <1>1, <1>2, KeptTask, TaskIs DEF TaskPlaced, TaskFormed, TaskKept
  <1>4. (\A n : Written(p, n)' <=> Written(p, n)) /\ Written(p, w)'
    BY <1>2, <1>3 DEF Written
  <1>5. LandedWrites' = LandedWrites
    BY <1>2, LogStays
  <1>6. LandedOK(p)'
    <2>1. dir[p][st].landed => st = "draft"
      BY <1>3 DEF LandedOK, OpenStatuses
    <2>. QED
      BY <1>2, <1>3, <2>1, LandedIn DEF OpenStatuses
  <1>7. TaskKept(task[t])' /\ task'[t].w = 0
    BY <1>2, IdleKept
  <1>. QED
    BY <1>1, <1>2, <1>3, <1>4, <1>5, <1>6, <1>7, TaskHistoryStep

(* Reading the claims again for a write loses no acknowledged write.       *)
LEMMA WriteClaimKept ==
    ASSUME Formed, Placed, Placed', History, NEW t \in AllTasks, WriteClaim(t) PROVE History'
  <1>1. PICK p, w : p = task[t].p /\ w = task[t].w
    OBVIOUS
  <1>2. /\ task[t].pc = "claim" /\ Only(t, p)
        /\ UNCHANGED <<dir, writer, log, nWrites, acked, dropped>>
    BY <1>1, WriteClaimEffect DEF Only
  <1>3. /\ PlaceOK(p) /\ LandedOK(p) /\ dir[p][task[t].from].there /\ task[t].from \in Statuses
        /\ w \in Nums(dir[p][task[t].from].work) /\ task[t].from \in OpenStatuses
    BY <1>1, <1>2, KeptTask, TaskIs DEF TaskPlaced, TaskKept
  <1>4. TaskKept(task[t])' /\ (task'[t].w = 0 \/ (task'[t].w = task[t].w /\ task'[t].p = task[t].p))
    <2>1. CASE task'[t] = Idle
      BY <2>1, IdleKept
    <2>2. CASE /\ task'[t].pc = "meta" /\ task'[t].p = p /\ task'[t].from = Locate(p)
               /\ task'[t].to = Locate(p) /\ task'[t].w = task[t].w
      <3>1. Locate(p) = task[t].from
        BY <1>3, Located
      <3>. QED
        BY <1>1, <1>2, <1>3, <2>2, <3>1 DEF TaskKept, Landing, OpenStatuses
    <2>. QED
      BY <1>1, <2>1, <2>2, WriteClaimEffect
  <1>5. LandedOK(p)' /\ LandedWrites' = LandedWrites /\ \A n : Written(p, n)' <=> Written(p, n)
    BY <1>2, <1>3, LandedStays, LogStays
  <1>. QED
    BY <1>1, <1>2, <1>4, <1>5, TaskHistoryStep

(* Writing meta.json loses no acknowledged write.                          *)
LEMMA WriteMetaKept ==
    ASSUME Formed, Placed, Placed', History, NEW t \in AllTasks, WriteMeta(t) PROVE History'
  <1>1. PICK p, st, w : p = task[t].p /\ st = task[t].from /\ w = task[t].w
    OBVIOUS
  <1>2. /\ task[t].pc = "meta" /\ p \in Proposals /\ st \in Statuses
        /\ Only(t, p)
        /\ dir'[p][st].there
        /\ dir'[p][st].landed = (task[t].to = "committed")
        /\ dir'[p][st].work = dir[p][st].work
        /\ UNCHANGED <<writer, log, nWrites, dropped>>
        /\ \/ /\ task[t].to = st /\ task'[t] = Idle
              /\ acked' = IF w > 0 THEN acked \cup {w} ELSE acked
           \/ task[t].to # st /\ PcOnly(t, "rename") /\ UNCHANGED acked
    BY <1>1, WriteMetaEffect DEF Only
  <1>3. /\ PlaceOK(p) /\ PlaceOK(p)' /\ dir[p][st].there /\ LandedOK(p) /\ TaskPlaced(task[t])
        /\ TaskKept(task[t]) /\ w \in Nat
    BY <1>1, <1>2, KeptTask DEF TaskPlaced
  <1>4. \A n : Written(p, n)' <=> Written(p, n)
    BY <1>2, <1>3, OneDir, OneDirNext
  <1>5. LandedWrites' = LandedWrites
    BY <1>2, LogStays
  <1>6. CASE /\ task[t].to = st /\ task'[t] = Idle
             /\ acked' = IF w > 0 THEN acked \cup {w} ELSE acked
    <2>1. st \in OpenStatuses
      BY <1>1, <1>2, <1>3, <1>6 DEF TaskPlaced
    <2>2. LandedOK(p)'
      BY <1>2, <1>3, <1>6, <2>1, LandedIn DEF OpenStatuses
    <2>3. w > 0 => Written(p, w)'
      BY <1>1, <1>2, <1>3, <1>4 DEF TaskKept, Written
    <2>4. acked' = acked \/ (acked' = acked \cup {w} /\ w > 0)
      BY <1>6
    <2>. QED
      BY <1>1, <1>2, <1>4, <1>5, <1>6, <2>2, <2>3, <2>4, IdleKept, TaskHistoryStep
  <1>7. CASE task[t].to # st /\ PcOnly(t, "rename") /\ UNCHANGED acked
    <2>1. LandedOK(p)'
      <3>1. task[t].to = "committed" => st = "committing" /\ Nums(dir[p][st].work) \subseteq LandedWrites
        BY <1>1, <1>2, <1>3, <1>7 DEF TaskPlaced, TaskKept, Landing, Overlay
      <3>2. st = "committed" => FALSE
        BY <1>1, <1>2, <1>3, <1>7 DEF TaskPlaced, OpenStatuses
      <3>. QED
        BY <1>2, <1>3, <1>5, <1>7, <3>1, <3>2, LandedIn
    <2>2. /\ task'[t].pc = "rename" /\ task'[t].p = p /\ task'[t].from = st /\ task'[t].to = task[t].to
          /\ task'[t].w = task[t].w
      BY <1>1, <1>7 DEF PcOnly
    <2>3. TaskKept(task[t])'
      <3>1. task[t].to # "committing"
        BY <1>1, <1>2, <1>3, <1>7 DEF TaskPlaced
      <3>2. task[t].to = "committed" => Nums(Overlay(p)') \subseteq LandedWrites'
        <4>1. task[t].to = "committed" => st = "committing"
          BY <1>1, <1>2, <1>3, <1>7 DEF TaskPlaced
        <4>. QED
          BY <1>1, <1>2, <1>3, <1>5, <4>1 DEF TaskKept, Landing, Overlay
      <3>. QED
        BY <1>2, <2>2, <3>1, <3>2 DEF TaskKept, Landing, Overlay
    <2>. QED
      BY <1>1, <1>2, <1>4, <1>5, <1>7, <2>1, <2>2, <2>3, TaskHistoryStep
  <1>. QED
    BY <1>2, <1>6, <1>7

(* Renaming the directory loses no acknowledged write.                     *)
LEMMA RenameKept ==
    ASSUME Formed, Placed, Placed', History, NEW t \in AllTasks, Rename(t) PROVE History'
  <1>1. PICK p, st, su, w : p = task[t].p /\ st = task[t].from /\ su = task[t].to /\ w = task[t].w
    OBVIOUS
  <1>2. /\ st # su /\ MovesDir(p, st, su) /\ st \in Statuses /\ su \in Statuses
        /\ Only(t, p) /\ task[t].pc = "rename" /\ p \in Proposals
        /\ UNCHANGED <<writer, log, nWrites, acked, dropped>>
        /\ \/ su = "committing" /\ PcOnly(t, "enter")
           \/ task'[t] = Idle
    BY <1>1, RenameFits, RenameEffect DEF Only, MovesDir
  <1>3. /\ PlaceOK(p) /\ PlaceOK(p)' /\ LandedOK(p) /\ TaskPlaced(task[t]) /\ TaskKept(task[t])
        /\ dir[p][st].there /\ dir'[p][su] = dir[p][st]
    BY <1>1, <1>2, KeptTask DEF MovesDir, CanMove, ShiftsDir
  <1>4. \A n : Written(p, n)' <=> Written(p, n)
    BY <1>2, <1>3, OneDir, OneDirNext
  <1>5. LandedWrites' = LandedWrites
    BY <1>2, LogStays
  <1>6. LandedOK(p)'
    <2>1. su = "committed" => Nums(dir[p][st].work) \subseteq LandedWrites
      BY <1>1, <1>2, <1>3 DEF TaskPlaced, TaskKept, Landing, Overlay
    <2>2. dir[p][st].landed =>
             /\ su \notin {"pending", "inprogress", "draft"}
             /\ Nums(dir[p][st].work) \cap acked \subseteq LandedWrites
      BY <1>1, <1>2, <1>3 DEF TaskPlaced, TaskKept, LandedOK, OpenStatuses
    <2>. QED
      BY <1>2, <1>3, <1>5, <2>1, <2>2, LandedIn
  <1>7. TaskKept(task[t])' /\ (task'[t].w = 0 \/ (task'[t].w = task[t].w /\ task'[t].p = task[t].p))
    BY <1>2, IdleKept DEF TaskKept, Landing, PcOnly
  <1>. QED
    BY <1>1, <1>2, <1>4, <1>5, <1>6, <1>7, TaskHistoryStep

(* In the pipeline only the commit lands anything.                         *)
LEMMA LandingComes ==
    ASSUME Formed, NEW t \in AllTasks, Pipeline(t)
    PROVE  /\ Landing(task[t])' => Landing(task[t]) \/ AbsorbCommit(t)
           /\ UNCHANGED log \/ AbsorbCommit(t)
           /\ task'[t].pc \notin {"answer", "claim", "rename"}
  <1>1. UNCHANGED log \/ AbsorbCommit(t)
    BY DEF Pipeline, AbsorbEnter, AbsorbStart, AbsorbCopy, AbsorbDone, Finalize, GitFails,
       FinalizeFails, disk
  <1>2. task \in [AllTasks -> TaskType]
    BY DEF Formed, TypeOK, RequestsTyped
  <1>3. CASE AbsorbEnter(t)
    <2>1. task'[t].pc \in {"queued", "rollback"}
      BY <1>2, <1>3, ContinueDoes DEF AbsorbEnter, TasksOnly, PcOnly, TaskType
    <2>. QED
      BY <1>1, <2>1 DEF Landing
  <1>4. CASE AbsorbCopy(t)
    BY <1>1, <1>4 DEF AbsorbCopy, Landing
  <1>5. CASE AbsorbStart(t) \/ AbsorbCommit(t) \/ AbsorbDone(t) \/ GitFails(t)
    <2>1. \/ Continue(t, "copy") \/ Continue(t, "rollback")
          \/ Continue(t, "landed") /\ AbsorbCommit(t)
          \/ Continue(t, "finalize") /\ task[t].pc = "landed"
      BY <1>5 DEF AbsorbStart, AbsorbCommit, AbsorbDone, GitFails
    <2>2. \/ task'[t].pc = "copy" \/ task'[t].pc = "rollback"
          \/ task'[t].pc = "landed" /\ AbsorbCommit(t)
          \/ task'[t].pc = "finalize" /\ task[t].pc = "landed"
      BY <2>1, ContinueDoes DEF TasksOnly, PcOnly
    <2>. QED
      BY <1>1, <2>2 DEF Landing
  <1>6. CASE Finalize(t)
    <2>1. task'[t].pc \in {"meta", "rollback"}
      BY <1>2, <1>6, ContinueDoes DEF Finalize, TasksOnly, PcOnly, TaskType
    <2>. QED
      BY <1>1, <1>6, <2>1 DEF Landing, Finalize
  <1>7. CASE FinalizeFails(t)
    <2>1. task'[t].pc = "rollback"
      BY <1>2, <1>7, ContinueDoes DEF FinalizeFails, TasksOnly, PcOnly, TaskType
    <2>. QED
      BY <1>1, <1>7, <2>1 DEF Landing, FinalizeFails
  <1>. QED
    BY <1>3, <1>4, <1>5, <1>6, <1>7 DEF Pipeline

(* A step of the publish pipeline loses no acknowledged write.             *)
LEMMA PipelineKept ==
    ASSUME Formed, Placed, Placed', History, NEW t \in AllTasks, Pipeline(t) PROVE History'
  <1>1. PICK p, w : p = task[t].p /\ w = task[t].w
    OBVIOUS
  <1>2. /\ p \in Proposals /\ Only(t, p) /\ UNCHANGED <<dir, writer, nWrites, acked, dropped>>
        /\ task[t].pc # "idle"
        /\ task'[t].p = p /\ task'[t].w = w
    BY <1>1, PipelineEffect DEF Only, Publishing
  <1>3. LandedOK(p) /\ TaskKept(task[t]) /\ w = 0
    <2>1. \/ task[t].pc \in Publishing
          \/ task[t].pc \in {"meta", "rename"} /\ task[t].to = "committed"
      BY PipelineEffect DEF Publishing
    <2>2. LandedOK(p) /\ TaskKept(task[t]) /\ TaskPlaced(task[t])
      BY <1>1, <1>2, KeptTask
    <2>. QED
      BY <1>1, <2>1, <2>2 DEF TaskPlaced, OpenStatuses, Publishing
  <1>4. LandedWrites \subseteq LandedWrites' /\ (AbsorbCommit(t) => Nums(Overlay(p)) \subseteq LandedWrites')
    <2>1. CASE UNCHANGED log /\ ~AbsorbCommit(t)
      BY <2>1, LogStays
    <2>2. CASE AbsorbCommit(t)
      <3>1. PICK W : W = Overlay(p)
        OBVIOUS
      <3>2. log' = Append(log, [p |-> p, work |-> W])
        BY <1>1, <2>2, <3>1 DEF AbsorbCommit
      <3>. QED
        BY <1>2, <3>1, <3>2, LogGrows
    <2>. QED
      BY <2>1, <2>2, LandingComes
  <1>5. LandedOK(p)' /\ \A n : Written(p, n)' <=> Written(p, n)
    BY <1>2, <1>3, <1>4 DEF LandedOK, Written
  <1>6. TaskKept(task[t])'
    <2>1. Nums(Overlay(p)') = Nums(Overlay(p))
      BY <1>2 DEF Overlay
    <2>2. Landing(task[t])' => Nums(Overlay(p)) \subseteq LandedWrites'
      BY <1>1, <1>3, <1>4, LandingComes DEF TaskKept
    <2>. QED
      BY <1>2, <1>3, <2>1, <2>2, LandingComes DEF TaskKept, Overlay
  <1>. QED
    BY <1>1, <1>2, <1>4, <1>5, <1>6, TaskHistoryStep

(* Taking a failed publish back loses no acknowledged write.               *)
LEMMA RollbackKept ==
    ASSUME Formed, Placed, Placed', History, NEW t \in AllTasks, Rollback(t) PROVE History'
  <1>1. PICK p, w : p = task[t].p /\ w = task[t].w
    OBVIOUS
  <1>2. /\ task[t].pc = "rollback" /\ Only(t, p) /\ task'[t] = Idle
        /\ UNCHANGED <<writer, log, nWrites, acked, dropped>>
        /\ MovesDir(p, "committing", RollbackTo(p)) \/ UNCHANGED dir
    BY <1>1, RollbackEffect DEF Only
  <1>3. /\ PlaceOK(p) /\ PlaceOK(p)' /\ LandedOK(p)
        /\ "committing" \in Statuses /\ RollbackTo(p) \in Statuses
    BY <1>1, <1>2, KeptTask, StatusesAre DEF RollbackTo
  <1>4. LandedWrites' = LandedWrites
    BY <1>2, LogStays
  <1>5. LandedOK(p)' /\ \A n : Written(p, n)' <=> Written(p, n)
    <2>1. CASE UNCHANGED dir
      BY <1>2, <1>3, <2>1, LandedStays
    <2>2. CASE MovesDir(p, "committing", RollbackTo(p))
      <3>1. PICK su : su = RollbackTo(p)
        OBVIOUS
      <3>2. /\ dir[p]["committing"].there /\ dir'[p][su] = dir[p]["committing"] /\ su \in Statuses
            /\ su \in {"inprogress", "draft"} /\ (su = "inprogress" => writer[p] # "human")
        BY <1>3, <2>2, <3>1 DEF MovesDir, CanMove, ShiftsDir, RollbackTo
      <3>3. \A n : Written(p, n)' <=> Written(p, n)
        BY <1>3, <3>2, OneDir, OneDirNext
      <3>4. dir[p]["committing"].landed => Nums(dir[p]["committing"].work) \cap acked \subseteq LandedWrites
        BY <1>3 DEF LandedOK
      <3>5. LandedOK(p)'
        BY <1>2, <1>3, <1>4, <3>2, <3>4, LandedIn
      <3>. QED
        BY <3>3, <3>5
    <2>. QED
      BY <1>2, <2>1, <2>2
  <1>. QED
    BY <1>1, <1>2, <1>4, <1>5, IdleKept, TaskHistoryStep

(* A stop of the process loses no acknowledged write.                      *)
LEMMA StopKept ==
    ASSUME Formed, Placed, History, RecoveryFails \/ Crash PROVE History'
  <1>1. /\ UNCHANGED <<writer, dir, log, nWrites, acked, dropped>>
        /\ \A t \in AllTasks : task'[t].w = 0 /\ TaskKept(task[t])'
    BY StopEffect, IdleKept
  <1>2. \A p \in Proposals : LandedOK(p)' /\ \A n : Written(p, n)' <=> Written(p, n)
    BY <1>1, LandedStays DEF History, KeptOK
  <1>3. FreshOK'
    BY <1>1, <1>2 DEF History, FreshOK
  <1>4. KeptOK'
    BY <1>1, <1>2, LogStays DEF History, KeptOK
  <1>. QED
    BY <1>3, <1>4 DEF History

(* Discarding a pending proposal at the start loses no acknowledged write. *)
LEMMA DiscardPendingKept ==
    ASSUME Formed, Placed, Placed', History, NEW p \in Proposals, DiscardPending(p) PROVE History'
  <1>1. /\ Boot \in AllTasks /\ \A t \in AllTasks : task[t] = Idle /\ task[t].p = 0
        /\ Only(Boot, p) /\ task'[Boot] = Idle
        /\ UNCHANGED <<writer, log, nWrites, acked>>
        /\ dir'[p]["pending"] = NoDir /\ \A su \in Statuses \ {"pending"} : dir'[p][su] = dir[p][su]
        /\ dropped' = dropped \cup {w.n : w \in dir[p]["pending"].work}
    BY DiscardPendingEffect, IdleIs DEF AllTasks, Only
  <1>2. LandedWrites' = LandedWrites /\ p # 0
    BY <1>1, LogStays DEF Proposals
  <1>3. \A n : Written(p, n)' => Written(p, n)
    <2>1. \A su \in Statuses : Nums(dir'[p][su].work) \subseteq Nums(dir[p][su].work)
      BY <1>1, NoNums
    <2>. QED
      BY <2>1 DEF Written
  <1>4. \A n : Written(p, n) => Written(p, n)' \/ n \in dropped'
    <2>1. Nums(dir[p]["pending"].work) \subseteq dropped'
      BY <1>1 DEF Nums
    <2>2. \A su \in Statuses \ {"pending"} : Nums(dir'[p][su].work) = Nums(dir[p][su].work)
      BY <1>1
    <2>. QED
      BY <2>1, <2>2 DEF Written
  <1>5. LandedOK(p)'
    <2>1. LandedOK(p) /\ "committed" \in Statuses
      BY StatusesAre DEF History, KeptOK
    <2>. QED
      BY <1>1, <1>2, <2>1, NoNums DEF LandedOK
  <1>. QED
    BY <1>1, <1>2, <1>3, <1>4, <1>5, IdleKept, HistoryStep

(* Recovering one proposal loses no acknowledged write.                    *)
LEMMA RecoverNextKept ==
    ASSUME Formed, Placed, Placed', History, RecoverNext PROVE History'
  <1>1. PICK p \in ToRecover :
          /\ \A t \in AllTasks : task[t] = Idle
          /\ p \in Proposals
          /\ UNCHANGED <<writer, log, nWrites, acked, dropped>>
          /\ \A q \in Proposals \ {p} : dir'[q] = dir[q]
          /\ \A u \in AllTasks \ {Boot} : task'[u] = task[u]
          /\ \/ /\ dir[p]["committing"].landed /\ UNCHANGED task
                /\ ShiftsDir(p, "committing", "committed")
             \/ UNCHANGED dir /\ task'[Boot].pc = "enter" /\ task'[Boot].p = p /\ task'[Boot].w = 0
    BY RecoverNextEffect
  <1>2. Boot \in AllTasks /\ Only(Boot, p) /\ (\A t \in AllTasks : task[t].p # p) /\ task[Boot].w = 0
    BY <1>1, IdleIs DEF AllTasks, Only, Proposals
  <1>3. PlaceOK(p) /\ PlaceOK(p)' /\ LandedOK(p) /\ LandedWrites' = LandedWrites
        /\ "committing" \in Statuses /\ "committed" \in Statuses
    BY <1>1, LogStays, StatusesAre DEF Placed, DirOK, History, KeptOK
  <1>4. LandedOK(p)' /\ \A n : Written(p, n)' <=> Written(p, n)
    <2>1. CASE UNCHANGED dir
      BY <1>1, <1>3, <2>1, LandedStays
    <2>2. CASE dir[p]["committing"].landed /\ ShiftsDir(p, "committing", "committed")
      <3>1. /\ dir[p]["committing"].there /\ dir'[p]["committed"] = dir[p]["committing"]
            /\ Nums(dir[p]["committing"].work) \cap acked \subseteq LandedWrites
        BY <1>3, <2>2, NoNums DEF ShiftsDir, LandedOK, PlaceOK
      <3>. QED
        BY <1>1, <1>3, <3>1, OneDir, OneDirNext, LandedIn
    <2>. QED
      BY <1>1, <2>1, <2>2
  <1>5. TaskKept(task[Boot])' /\ task'[Boot].w = 0
    BY <1>1, <1>2, IdleKept DEF TaskKept, Landing
  <1>. QED
    BY <1>1, <1>2, <1>3, <1>4, <1>5, HistoryStep

(* A step that touches nothing of this loses no acknowledged write.        *)
LEMMA QuietKept ==
    ASSUME History, UNCHANGED <<writer, dir, task, log, nWrites, acked, dropped>> PROVE History'
  <1>1. \A p \in Proposals : LandedOK(p)' /\ \A n : Written(p, n)' <=> Written(p, n)
    BY LandedStays DEF History, KeptOK
  <1>2. FreshOK'
    BY <1>1 DEF History, FreshOK
  <1>3. LandedWrites' = LandedWrites
    BY LogStays
  <1>4. KeptOK'
    BY <1>1, <1>3 DEF History, KeptOK, TaskKept, Landing, Overlay
  <1>. QED
    BY <1>2, <1>4 DEF History

(* Every step keeps the acknowledged writes.                               *)
LEMMA StepKept ==
    ASSUME Formed, Placed, History, "same_proposal" \notin Env, [Next]_vars PROVE History'
  <1>0. Placed'
    BY StepPlaced
  <1>1. CASE UNCHANGED <<writer, dir, task, log, nWrites, acked, dropped>>
    BY <1>1, QuietKept
  <1>2. ASSUME NEW p \in Proposals, Create(p) \/ Demote(p) PROVE History'
    BY <1>0, <1>2, CreateKept, DemoteKept
  <1>3. ASSUME NEW t \in Tasks, NEW p \in Proposals, Request(t, p) PROVE History'
    BY <1>0, <1>3, StartKept
  <1>4. ASSUME NEW t \in AllTasks, Progress(t) \/ GitFails(t) \/ FinalizeFails(t) PROVE History'
    <2>1. Pipeline(t) \/ WriteContent(t) \/ WriteAnswer(t) \/ WriteClaim(t) \/ WriteMeta(t)
            \/ Rename(t) \/ Rollback(t)
      BY <1>4 DEF Progress, Pipeline
    <2>. QED
      BY <1>0, <2>1, PipelineKept, WriteContentKept, WriteAnswerKept, WriteClaimKept,
         WriteMetaKept, RenameKept, RollbackKept
  <1>5. CASE Recovery
    <2>1. Restart \/ RecoverDone => UNCHANGED <<writer, dir, task, log, nWrites, acked, dropped>>
      BY DEF Restart, RecoverDone, disk, counters
    <2>. QED
      BY <1>0, <1>1, <1>5, <2>1, DiscardPendingKept, RecoverNextKept, StopKept DEF Recovery
  <1>6. CASE Crash
    BY <1>6, StopKept
  <1>. QED
    BY <1>1, <1>2, <1>3, <1>4, <1>5, <1>6 DEF Next, vars

(* At the start there is no write.                                         *)
LEMMA InitKept == Init => History
  <1> SUFFICES ASSUME Init PROVE History
    OBVIOUS
  <1>1. /\ \A p \in Proposals, st \in Statuses : dir[p][st] = NoDir
        /\ \A t \in AllTasks : task[t] = Idle
        /\ acked = {}
    BY DEF Init
  <1>2. \A p \in Proposals : \A n : ~Written(p, n)
    BY <1>1, NoNums DEF Written
  <1>3. FreshOK
    BY <1>1, <1>2, IdleIs DEF FreshOK
  <1>4. KeptOK
    BY <1>1, <1>2, IdleIs, NoNums DEF KeptOK, TaskKept, Landing, LandedOK
  <1>. QED
    BY <1>3, <1>4 DEF History

(* A write answered with success is in canonical history or in the
   directory the store finds its proposal in, unless its author emptied
   the draft or a start discarded the pending operation: renames,
   failures, rollbacks, stops at any moment and recoveries lose nothing,
   as long as the requests on one proposal come one after the other.       *)
THEOREM WritesKept ==
    ASSUME "same_proposal" \notin Env PROVE Spec => []AckedWritesKept
<1>1. Formed /\ Placed /\ [Next]_vars => Placed'
  BY StepPlaced
<1>2. Formed /\ Placed /\ History /\ [Next]_vars => History'
  BY StepKept
<1>3. Placed /\ History => AckedWritesKept
  <2> SUFFICES ASSUME Placed, History, NEW n \in acked \ dropped, n \notin LandedWrites
               PROVE  \E p \in Proposals : /\ Locate(p) \notin {Missing, "committed"}
                                           /\ n \in {w.n : w \in dir[p][Locate(p)].work}
    BY DEF AckedWritesKept
  <2>1. PICK p \in Proposals, st \in Statuses : n \in Nums(dir[p][st].work)
    BY DEF History, KeptOK, Written
  <2>2. PlaceOK(p) /\ LandedOK(p)
    BY DEF Placed, DirOK, History, KeptOK
  <2>3. dir[p][st].there
    BY <2>1, <2>2, NoNums DEF PlaceOK
  <2>4. Locate(p) = st /\ st # Missing
    BY <2>2, <2>3, Located, StatusesAre DEF Missing
  <2>5. st # "committed"
    BY <2>1, <2>2 DEF LandedOK
  <2>. QED
    BY <2>1, <2>4, <2>5 DEF Nums
<1>. QED
  BY <1>1, <1>2, <1>3, InitFormed, InitPlaced, InitKept, StepFormed, PTL DEF Spec

-----------------------------------------------------------------------------
(* Publishing under the lock: a section changes in canonical only by the    *)
(* commit of a proposal that claims it and alone holds it.  The commit      *)
(* takes all of the working tree (git add -A), so what has to be shown is   *)
(* about the tree: whatever differs from HEAD was put there by the copy of  *)
(* one proposal, and a restart after a stop in the middle of that copy      *)
(* finds this proposal, and no other, in committing.                        *)

(* What a section of the dirty tree shows is what the proposal puts there. *)
DirtyFrom(p, s) == s \in SectionsOf(Overlay(p)) /\ tree[s] = NewestOf(Overlay(p), s)

(* The manifest of a proposal in committing claims all of its content.     *)
Claimed(p) == SectionsOf(Overlay(p)) \subseteq dir[p]["committing"].targets

(* Where the dirt of a section comes from: the publish that is copying, or,
   once the process has stopped, the one proposal that recovery will find. *)
Traced(s) ==
  tree[s] # head[s] =>
    IF up = "up" THEN \E t \in AllTasks : task[t].pc = "copy" /\ DirtyFrom(task[t].p, s)
    ELSE \A p \in ToRecover : DirtyFrom(p, s)

(* A process that stopped was publishing one proposal at most.             *)
Alone == up # "up" => \A p, q \in ToRecover : p = q

(* The recovery does nothing but publish.                                  *)
BootPublishes ==
  \/ task[Boot].pc \in Publishing \cup {"idle"}
  \/ task[Boot].pc \in {"meta", "rename"} /\ task[Boot].to = "committed"

(* The inductive invariant behind HeadChangesUnderLock.                    *)
PublishOK ==
  /\ \A t \in AllTasks : task[t].pc \in Queued => Claimed(task[t].p)
  /\ \A s \in Sections : Traced(s)
  /\ Alone
  /\ BootPublishes

(* A section is in what a proposal stages or it is not: Overlay follows the
   proposal's own directory and nothing else.                              *)
LEMMA SameDir ==
    ASSUME NEW p, dir'[p] = dir[p]
    PROVE  /\ Overlay(p)' = Overlay(p)
           /\ Claimed(p)' <=> Claimed(p)
           /\ \A s : tree'[s] = tree[s] => (DirtyFrom(p, s)' <=> DirtyFrom(p, s))
  BY DEF Overlay, Claimed, DirtyFrom

(* The step of one request on one proposal.                                *)
LEMMA PublishStep ==
    ASSUME Formed, PublishOK, NEW t \in AllTasks, NEW p \in Proposals, Only(t, p), UNCHANGED up,
           \A u \in AllTasks \ {t} : task[u].p # p,
           up # "up" => \A q \in ToRecover' : q \in ToRecover /\ Overlay(q)' = Overlay(q),
           task'[t].pc \in Queued => task'[t].p = p /\ Claimed(p)',
           t = Boot => BootPublishes',
           \/ UNCHANGED <<tree, head>> /\ task[t].pc # "copy"
           \/ \A s \in Sections : Traced(s)'
    PROVE  PublishOK'
  <1>1. ASSUME NEW u \in AllTasks, u # t
        PROVE  /\ task'[u] = task[u]
               /\ task[u].pc # "idle" => task[u].p \in Proposals /\ dir'[task[u].p] = dir[task[u].p]
    BY <1>1, TaskIs DEF Only
  <1>2. \A u \in AllTasks : task'[u].pc \in Queued => Claimed(task[u].p)'
    <2> SUFFICES ASSUME NEW u \in AllTasks, u # t, task'[u].pc \in Queued PROVE Claimed(task[u].p)'
      OBVIOUS
    <2>1. task'[u] = task[u] /\ dir'[task[u].p] = dir[task[u].p] /\ Claimed(task[u].p)
      BY <1>1 DEF Queued, PublishOK
    <2>. QED
      BY <2>1 DEF Claimed, Overlay
  <1>3. Alone'
    BY DEF PublishOK, Alone
  <1>4. BootPublishes'
    BY DEF BootPublishes, PublishOK, Only, AllTasks
  <1>5. ASSUME UNCHANGED <<tree, head>>, task[t].pc # "copy", NEW s \in Sections PROVE Traced(s)'
    <2> SUFFICES ASSUME tree[s] # head[s]
                 PROVE  IF up = "up" THEN \E u \in AllTasks : task'[u].pc = "copy" /\ DirtyFrom(task[u].p, s)'
                        ELSE \A q \in ToRecover' : DirtyFrom(q, s)'
      BY <1>5 DEF Traced
    <2>1. CASE up = "up"
      <3>1. PICK u \in AllTasks : task[u].pc = "copy" /\ DirtyFrom(task[u].p, s)
        BY <2>1 DEF PublishOK, Traced
      <3>2. u # t /\ task'[u] = task[u] /\ dir'[task[u].p] = dir[task[u].p]
        BY <1>1, <1>5, <3>1
      <3>3. DirtyFrom(task[u].p, s)'
        BY <1>5, <3>1, <3>2 DEF DirtyFrom, Overlay
      <3>. QED
        BY <2>1, <3>1, <3>2, <3>3
    <2>2. CASE up # "up"
      BY <1>5, <2>2 DEF PublishOK, Traced, DirtyFrom
    <2>. QED
      BY <2>1, <2>2
  <1>. QED
    BY <1>2, <1>3, <1>4, <1>5 DEF PublishOK

(* Only requests change claims or content, and they run while the server is
   up; the recovery works on what it found in committing.                  *)
LEMMA Whose ==
    ASSUME Formed, Placed, PublishOK, NEW t \in AllTasks, task[t].pc # "idle", up # "up"
    PROVE  /\ t = Boot /\ task[t].p \in ToRecover /\ task[t].pc \in Publishing \cup {"meta", "rename"}
           /\ task[t].pc \notin Publishing => task[t].to = "committed" /\ task[t].from = "committing"
  <1>1. t = Boot
    BY DEF Formed, BootOK, AllTasks
  <1>2. task[t].p \in Proposals /\ PlaceOK(task[t].p) /\ TaskPlaced(task[t])
    BY PlacedTask
  <1>3. /\ task[t].pc \in Publishing \cup {"meta", "rename"}
        /\ task[t].pc \notin Publishing => task[t].to = "committed"
    BY <1>1 DEF PublishOK, BootPublishes
  <1>4. task[t].pc \notin Publishing => task[t].from = "committing" /\ dir[task[t].p]["committing"].there
    BY <1>2, <1>3 DEF TaskPlaced, OpenStatuses
  <1>5. dir[task[t].p]["committing"].there /\ dir[task[t].p]["committing"].meta
    BY <1>2, <1>3, <1>4, StatusesAre DEF TaskPlaced, PlaceOK
  <1>. QED
    BY <1>1, <1>2, <1>3, <1>4, <1>5 DEF ToRecover

(* The same for a request that is under way.                               *)
LEMMA TaskPublishStep ==
    ASSUME Formed, Placed, PublishOK, NEW t \in AllTasks, task[t].pc # "idle", NEW p, p = task[t].p,
           Only(t, p), UNCHANGED up,
           up # "up" => Overlay(p)' = Overlay(p) \/ p \notin ToRecover',
           task'[t].pc \in Queued => task'[t].p = p /\ Claimed(p)',
           t = Boot => BootPublishes',
           \/ UNCHANGED <<tree, head>> /\ task[t].pc # "copy"
           \/ \A s \in Sections : Traced(s)'
    PROVE  PublishOK'
  <1>1. p \in Proposals /\ p # 0
    BY TaskIs DEF Proposals
  <1>2. \A u \in AllTasks \ {t} : task[u].p # p
    BY <1>1 DEF Placed, Serial
  <1>3. up # "up" => \A q \in ToRecover' : q \in ToRecover /\ Overlay(q)' = Overlay(q)
    BY Whose DEF Only, ToRecover, Overlay
  <1>. QED
    BY <1>1, <1>2, <1>3, PublishStep

(* A request that is over publishes nothing.                               *)
LEMMA IdlePublish ==
    ASSUME NEW t \in AllTasks, task'[t] = Idle
    PROVE  task'[t].pc \notin Queued /\ (t = Boot => BootPublishes')
  BY IdleIs DEF Queued, BootPublishes

(* Creating a proposal keeps the dirt of the tree traced to one proposal.  *)
LEMMA CreatePublish ==
    ASSUME Formed, Placed, PublishOK, NEW p \in Proposals, Create(p) PROVE PublishOK'
  <1>1. /\ up = "up" /\ UNCHANGED <<task, tree, head, up>> /\ writer[p] = "none"
        /\ \A q \in Proposals \ {p} : dir'[q] = dir[q] /\ writer'[q] = writer[q]
    BY CreateEffect DEF CreateDoes, Running
  <1>2. Boot \in AllTasks /\ task[Boot] = Idle /\ task'[Boot] = Idle
    BY <1>1, TaskIs DEF AllTasks, Formed, BootOK, TaskFormed
  <1>3. \A u \in AllTasks : task[u].p # p
    BY <1>1, TaskIs, IdleIs, StoreAssumption DEF Placed, TaskDir, TaskPlaced, TaskFormed, Proposals
  <1>4. Only(Boot, p)
    BY <1>1 DEF Only
  <1>. QED
    BY <1>1, <1>2, <1>3, <1>4, IdleIs, IdlePublish, PublishStep

(* Demoting a pending proposal to a draft keeps the dirt of the tree
   traced to one proposal.                                                 *)
LEMMA DemotePublish ==
    ASSUME Formed, Placed, PublishOK, "same_proposal" \notin Env, NEW p \in Proposals, Demote(p)
    PROVE  PublishOK'
  <1>1. /\ up = "up" /\ UNCHANGED <<task, tree, head, up>>
        /\ Only(Boot, p) /\ \A u \in AllTasks : task[u].p # p
    BY DemoteEffect DEF Only, OneRequest, Running
  <1>2. Boot \in AllTasks /\ task[Boot] = Idle /\ task'[Boot] = Idle
    BY <1>1, TaskIs DEF AllTasks, Formed, BootOK, TaskFormed
  <1>. QED
    BY <1>1, <1>2, IdleIs, IdlePublish, PublishStep

(* A request that starts keeps the dirt of the tree traced to one
   proposal.                                                               *)
LEMMA RequestPublish ==
    ASSUME Formed, Placed, PublishOK, "same_proposal" \notin Env, NEW t \in Tasks, NEW p \in Proposals,
           Request(t, p)
    PROVE  PublishOK'
  <1>1. /\ up = "up" /\ task[t] = Idle /\ t \in AllTasks /\ t # Boot
        /\ Only(t, p) /\ UNCHANGED <<tree, head, up>> /\ \A u \in AllTasks : task[u].p # p
    BY StartEffect, StoreAssumption DEF OneRequest, Running
  <1>2. task'[t].pc \in {"meta", "rename", "content"}
    BY DeclareEffect, WriteStartEffect, AcquireStartEffect, WithdrawStartEffect, CommitStartEffect
       DEF Request
  <1>. QED
    BY <1>1, <1>2, IdleIs, PublishStep DEF Queued

(* Writing the content file keeps the dirt of the tree traced to one
   proposal.                                                               *)
LEMMA WriteContentPublish ==
    ASSUME Formed, Placed, PublishOK, NEW t \in AllTasks, WriteContent(t) PROVE PublishOK'
  <1>1. PICK p, pc : p = task[t].p /\ pc = IF writer[p] = "human" /\ task[t].from # "pending" THEN "answer" ELSE "claim"
    OBVIOUS
  <1>2. /\ task[t].pc = "content" /\ TasksOnly(t, pc) /\ UNCHANGED <<writer, tree, head, up>>
        /\ \A q \in Proposals \ {p} : dir'[q] = dir[q]
    BY <1>1, WriteContentEffect
  <1>3. up = "up" /\ t # Boot
    BY <1>2, Whose DEF Publishing, Formed, BootOK
  <1>4. Only(t, p) /\ task'[t].pc \notin Queued
    BY <1>1, <1>2 DEF Only, TasksOnly, PcOnly, Queued
  <1>. QED
    BY <1>1, <1>2, <1>3, <1>4, TaskPublishStep

(* Answering the write of a person keeps the dirt of the tree traced to
   one proposal.                                                           *)
LEMMA WriteAnswerPublish ==
    ASSUME Formed, Placed, PublishOK, NEW t \in AllTasks, WriteAnswer(t) PROVE PublishOK'
  <1>1. PICK p : p = task[t].p
    OBVIOUS
  <1>2. task'[t] = Idle /\ Only(t, p) /\ UNCHANGED <<dir, tree, head, up>> /\ task[t].pc = "answer"
    BY FinishDoes DEF WriteAnswer, disk, Only
  <1>3. Overlay(p)' = Overlay(p)
    BY <1>2 DEF Overlay
  <1>. QED
    BY <1>1, <1>2, <1>3, IdlePublish, TaskPublishStep

(* Reading the claims again for a write keeps the dirt of the tree traced
   to one proposal.                                                        *)
LEMMA WriteClaimPublish ==
    ASSUME Formed, Placed, PublishOK, NEW t \in AllTasks, WriteClaim(t) PROVE PublishOK'
  <1>1. PICK p : p = task[t].p
    OBVIOUS
  <1>2. /\ task[t].pc = "claim" /\ Only(t, p) /\ UNCHANGED <<dir, tree, head, up>>
        /\ task'[t] = Idle \/ task'[t].pc = "meta"
    BY <1>1, WriteClaimEffect DEF Only
  <1>3. up = "up" /\ t # Boot
    BY <1>2, Whose DEF Publishing, Formed, BootOK
  <1>. QED
    BY <1>1, <1>2, <1>3, IdlePublish, TaskPublishStep DEF Queued

(* Writing meta.json keeps the dirt of the tree traced to one proposal.    *)
LEMMA WriteMetaPublish ==
    ASSUME Formed, Placed, PublishOK, NEW t \in AllTasks, WriteMeta(t) PROVE PublishOK'
  <1>1. PICK p, st : p = task[t].p /\ st = task[t].from
    OBVIOUS
  <1>2. /\ task[t].pc = "meta" /\ Only(t, p) /\ UNCHANGED <<tree, head, up>> /\ st \in Statuses
        /\ \A su \in Statuses \ {st} : dir'[p][su] = dir[p][su]
        /\ dir'[p][st].work = dir[p][st].work
        /\ task'[t] = Idle \/ PcOnly(t, "rename")
    BY <1>1, WriteMetaEffect DEF Only
  <1>3. Overlay(p)' = Overlay(p)
    BY <1>2, StatusesAre DEF Overlay
  <1>4. task'[t].pc \notin Queued
    BY <1>2, IdlePublish DEF PcOnly, Queued
  <1>5. t = Boot => BootPublishes'
    BY <1>2, IdlePublish DEF PcOnly, BootPublishes, PublishOK, Publishing
  <1>. QED
    BY <1>1, <1>2, <1>3, <1>4, <1>5, TaskPublishStep

(* Renaming the directory keeps the dirt of the tree traced to one
   proposal.                                                               *)
LEMMA RenamePublish ==
    ASSUME Formed, Placed, PublishOK, NEW t \in AllTasks, Rename(t) PROVE PublishOK'
  <1>1. PICK p, st, su : p = task[t].p /\ st = task[t].from /\ su = task[t].to
    OBVIOUS
  <1>2. /\ ShiftsDir(p, st, su) /\ Only(t, p) /\ UNCHANGED <<tree, head, up>> /\ task[t].pc = "rename"
        /\ PcOnly(t, "enter") \/ task'[t] = Idle
    BY <1>1, RenameFits, RenameEffect DEF Only, MovesDir
  <1>3. up # "up" => p \notin ToRecover'
    BY <1>1, <1>2, Whose DEF ShiftsDir, ToRecover, NoDir, Publishing
  <1>4. task'[t].pc \notin Queued
    BY <1>2, IdlePublish DEF PcOnly, Queued
  <1>5. t = Boot => BootPublishes'
    BY <1>2, IdlePublish DEF PcOnly, BootPublishes, Publishing
  <1>. QED
    BY <1>1, <1>2, <1>3, <1>4, <1>5, TaskPublishStep

(* A step of the pipeline that touches neither tree nor HEAD, or after which
   the two agree.                                                          *)
LEMMA PipelineStep ==
    ASSUME Formed, Placed, PublishOK, NEW t \in AllTasks, Pipeline(t),
           task'[t].pc \in Queued => Claimed(task[t].p),
           \/ UNCHANGED <<tree, head>> /\ task[t].pc # "copy"
           \/ tree' = head'
    PROVE  PublishOK'
  <1>1. PICK p : p = task[t].p
    OBVIOUS
  <1>2. /\ Only(t, p) /\ UNCHANGED <<dir, up>> /\ task'[t].p = p
        /\ task[t].pc \in Publishing \cup {"meta", "rename"}
        /\ \/ task'[t].pc \in Publishing
           \/ task'[t].pc = "meta" /\ task'[t].to = "committed"
    BY <1>1, PipelineEffect DEF Only, Publishing
  <1>3. Overlay(p)' = Overlay(p) /\ (Claimed(p)' <=> Claimed(p))
    BY <1>2 DEF Overlay, Claimed
  <1>4. t = Boot => BootPublishes'
    BY <1>2 DEF BootPublishes
  <1>5. tree' = head' => \A s \in Sections : Traced(s)'
    BY DEF Traced
  <1>6. task[t].pc # "idle"
    BY <1>2 DEF Publishing
  <1>. QED
    BY <1>1, <1>2, <1>3, <1>4, <1>5, <1>6, TaskPublishStep

(* The check before the index is waited for is what makes the claims cover
   the content from then on.                                               *)
LEMMA AbsorbEnterPublish ==
    ASSUME Formed, Placed, PublishOK, NEW t \in AllTasks, AbsorbEnter(t) PROVE PublishOK'
  <1>1. task[t].pc = "enter" /\ UNCHANGED <<tree, head>> /\ Pipeline(t)
    BY DEF AbsorbEnter, disk, Pipeline
  <1>2. Locate(task[t].p) = "committing"
    <2>1. dir[task[t].p]["committing"].there /\ PlaceOK(task[t].p)
      BY <1>1, PlacedTask DEF TaskPlaced, Publishing
    <2>. QED
      BY <2>1, Located, StatusesAre
  <1>3. task'[t].pc \in Queued => Claimed(task[t].p)
    <2> SUFFICES ASSUME ~Claimed(task[t].p) PROVE task'[t].pc \notin Queued
      OBVIOUS
    <2>1. Continue(t, "rollback")
      BY <1>2 DEF AbsorbEnter, Claimed, Targets
    <2>. QED
      BY <2>1, ContinueDoes DEF TasksOnly, PcOnly, Queued
  <1>. QED
    BY <1>1, <1>3, PipelineStep

(* Getting the git index keeps the dirt of the tree traced to one
   proposal.                                                               *)
LEMMA AbsorbStartPublish ==
    ASSUME Formed, Placed, PublishOK, NEW t \in AllTasks, AbsorbStart(t) PROVE PublishOK'
  <1>1. task[t].pc = "queued" /\ UNCHANGED <<tree, head>> /\ Pipeline(t)
    BY DEF AbsorbStart, disk, Pipeline
  <1>2. Claimed(task[t].p)
    BY <1>1 DEF PublishOK, Queued
  <1>. QED
    BY <1>1, <1>2, PipelineStep

(* Copying into the tree keeps the dirt of the tree traced to one
   proposal.                                                               *)
LEMMA AbsorbCopyPublish ==
    ASSUME Formed, Placed, PublishOK, NEW t \in AllTasks, AbsorbCopy(t) PROVE PublishOK'
  <1>1. PICK p : p = task[t].p
    OBVIOUS
  <1>2. /\ task[t].pc = "copy" /\ p \in Proposals
        /\ UNCHANGED <<writer, dir, head, task, up>>
    BY <1>1, TaskIs DEF AbsorbCopy
  <1>3. PICK s \in StaleSections(p) : tree' = [tree EXCEPT ![s] = NewestOf(Overlay(p), s)]
    BY <1>1 DEF AbsorbCopy
  <1>4. /\ s \in SectionsOf(Overlay(p)) /\ s \in Sections /\ tree'[s] = NewestOf(Overlay(p), s)
        /\ \A r \in Sections \ {s} : tree'[r] = tree[r]
    <2>1. Claimed(p) /\ DiskTyped
      BY <1>1, <1>2, TaskIs DEF PublishOK, Queued
    <2>2. SectionsOf(Overlay(p)) \subseteq Sections
      <3>1. dir[p]["committing"] \in DirType
        BY <1>2, <2>1, EntryIsTyped, StatusesAre
      <3>. QED
        BY <2>1, <3>1 DEF Claimed, DirType
    <2>3. tree \in [Sections -> 0 .. MaxWrites]
      BY <2>1 DEF DiskTyped
    <2>. QED
      BY <1>3, <2>2, <2>3 DEF StaleSections
  <1>5. \A q : Overlay(q)' = Overlay(q) /\ (Claimed(q)' <=> Claimed(q))
    BY <1>2 DEF Overlay, Claimed
  <1>6. DirtyFrom(p, s)'
    BY <1>4, <1>5 DEF DirtyFrom
  <1>7. ASSUME NEW r \in Sections PROVE Traced(r)'
    <2>1. CASE r = s /\ up = "up"
      BY <1>1, <1>2, <1>6, <2>1 DEF Traced
    <2>2. CASE r = s /\ up # "up"
      <3>1. ToRecover' = ToRecover /\ \A q \in ToRecover : q = p
        BY <1>1, <1>2, <2>2, Whose DEF PublishOK, Alone, ToRecover
      <3>. QED
        BY <1>2, <1>6, <2>2, <3>1 DEF Traced
    <2>3. CASE r # s
      <3>1. Traced(r) /\ tree'[r] = tree[r] /\ ToRecover' = ToRecover
        BY <1>2, <1>4, <2>3 DEF PublishOK, ToRecover
      <3>2. \A q : DirtyFrom(q, r)' <=> DirtyFrom(q, r)
        BY <1>5, <3>1 DEF DirtyFrom
      <3>. QED
        BY <1>2, <3>1, <3>2 DEF Traced
    <2>. QED
      BY <2>1, <2>2, <2>3
  <1>8. Alone' /\ BootPublishes' /\ \A u \in AllTasks : task'[u].pc \in Queued => Claimed(task[u].p)'
    BY <1>2, <1>5 DEF PublishOK, Alone, BootPublishes, ToRecover, Claimed, Overlay
  <1>. QED
    BY <1>7, <1>8 DEF PublishOK

(* The git commit keeps the dirt of the tree traced to one proposal.       *)
LEMMA AbsorbCommitPublish ==
    ASSUME Formed, Placed, PublishOK, NEW t \in AllTasks, AbsorbCommit(t) PROVE PublishOK'
  <1>1. task[t].pc = "copy" /\ head' = tree' /\ Pipeline(t)
    BY DEF AbsorbCommit, Pipeline
  <1>2. Claimed(task[t].p)
    BY <1>1 DEF PublishOK, Queued
  <1>. QED
    BY <1>1, <1>2, PipelineStep

(* Leaving the git index keeps the dirt of the tree traced to one
   proposal.                                                               *)
LEMMA AbsorbDonePublish ==
    ASSUME Formed, Placed, PublishOK, NEW t \in AllTasks, AbsorbDone(t) PROVE PublishOK'
  <1>1. task[t].pc = "landed" /\ UNCHANGED <<tree, head>> /\ Pipeline(t)
    BY DEF AbsorbDone, disk, Pipeline
  <1>2. Claimed(task[t].p)
    BY <1>1 DEF PublishOK, Queued
  <1>. QED
    BY <1>1, <1>2, PipelineStep

(* Finishing the status after the commit keeps the dirt of the tree traced
   to one proposal.                                                        *)
LEMMA FinalizePublish ==
    ASSUME Formed, Placed, PublishOK, NEW t \in AllTasks, Finalize(t) \/ FinalizeFails(t)
    PROVE  PublishOK'
  <1>1. task[t].pc \in {"finalize", "meta", "rename"} /\ UNCHANGED <<tree, head>> /\ Pipeline(t)
    BY DEF Finalize, FinalizeFails, disk, Pipeline
  <1>2. task'[t].pc \notin Queued
    <2>1. CASE Continue(t, "rollback")
      BY <2>1, ContinueDoes DEF TasksOnly, PcOnly, Queued
    <2>2. CASE Finalize(t) /\ task' = [task EXCEPT ![t].pc = "meta", ![t].from = "committing",
                                          ![t].to = "committed", ![t].targets = Targets(task[t].p)]
      BY <2>2, TaskIs DEF Formed, TypeOK, RequestsTyped, TaskType, Queued
    <2>. QED
      BY <2>1, <2>2 DEF Finalize, FinalizeFails
  <1>. QED
    BY <1>1, <1>2, PipelineStep

(* A git operation that fails keeps the dirt of the tree traced to one
   proposal.                                                               *)
LEMMA GitFailsPublish ==
    ASSUME Formed, Placed, PublishOK, "rollback_fails" \notin Env, NEW t \in AllTasks, GitFails(t)
    PROVE  PublishOK'
  <1>1. /\ Pipeline(t) /\ UNCHANGED head /\ Continue(t, "rollback")
        /\ (UNCHANGED tree /\ task[t].pc # "copy") \/ tree' = head'
    BY DEF GitFails, Pipeline
  <1>2. task'[t].pc \notin Queued
    BY <1>1, ContinueDoes DEF TasksOnly, PcOnly, Queued
  <1>. QED
    BY <1>1, <1>2, PipelineStep

(* Taking a failed publish back keeps the dirt of the tree traced to one
   proposal.                                                               *)
LEMMA RollbackPublish ==
    ASSUME Formed, Placed, PublishOK, NEW t \in AllTasks, Rollback(t) PROVE PublishOK'
  <1>1. PICK p : p = task[t].p
    OBVIOUS
  <1>2. /\ task[t].pc = "rollback" /\ t # Boot /\ Only(t, p) /\ task'[t] = Idle
        /\ UNCHANGED <<tree, head, up>>
    BY <1>1, RollbackEffect DEF Only
  <1>3. up = "up"
    BY <1>2, Whose
  <1>. QED
    BY <1>1, <1>2, <1>3, IdlePublish, TaskPublishStep

(* The process may stop while one proposal at most is in committing.       *)
LEMMA FewAreOne ==
    ASSUME NEW S, IsFiniteSet(S), Cardinality(S) <= 1 PROVE \A x, y \in S : x = y
  <1> SUFFICES ASSUME NEW x \in S, NEW y \in S, x # y PROVE FALSE
    OBVIOUS
  <1>1. PICK U : U = S \ {x}
    OBVIOUS
  <1>2. IsFiniteSet(U) /\ Cardinality(U) = Cardinality(S) - 1 /\ Cardinality(S) \in Nat
    BY <1>1, FS_RemoveElement, FS_CardinalityType
  <1>3. y \in U /\ Cardinality(U) \in Nat
    BY <1>1, <1>2, FS_CardinalityType
  <1>4. U # {} /\ Cardinality(U) = 0
    BY <1>2, <1>3
  <1>. QED
    BY <1>2, <1>4, FS_EmptySet

(* There are finitely many proposals to recover.                           *)
LEMMA ToRecoverFinite == IsFiniteSet(ToRecover)
  <1>1. IsFiniteSet(1 .. MaxProposals)
    BY FS_Interval, StoreAssumption
  <1>. QED
    BY <1>1, FS_Subset DEF ToRecover, Proposals

(* A stop: at most one publish was copying, and its proposal is the one in
   committing.                                                             *)
LEMMA StopPublish ==
    ASSUME Formed, Placed, PublishOK, "stop_anywhere" \notin Env, RecoveryFails \/ Crash
    PROVE  PublishOK'
  <1>1. /\ \A t \in AllTasks : task'[t] = Idle
        /\ up' = "down" /\ UNCHANGED <<dir, tree, head>>
    BY StopEffect
  <1>2. up = "up" => \A p, q \in ToRecover : p = q
    <2>1. up = "up" => Cardinality(ToRecover) <= 1
      BY DEF RecoveryFails, Crash, Formed, BootOK
    <2>. QED
      BY <2>1, ToRecoverFinite, FewAreOne
  <1>3. \A p, q \in ToRecover : p = q
    BY <1>2 DEF PublishOK, Alone
  <1>4. ToRecover' = ToRecover /\ \A q : Overlay(q)' = Overlay(q)
    BY <1>1 DEF ToRecover, Overlay
  <1>5. ASSUME NEW s \in Sections, tree[s] # head[s] PROVE \A p \in ToRecover : DirtyFrom(p, s)
    <2>1. CASE up # "up"
      BY <1>5, <2>1 DEF PublishOK, Traced
    <2>2. CASE up = "up"
      <3>1. PICK t \in AllTasks : task[t].pc = "copy" /\ DirtyFrom(task[t].p, s)
        BY <1>5, <2>2 DEF PublishOK, Traced
      <3>2. task[t].p \in ToRecover
        <4>1. /\ task[t].p \in Proposals /\ PlaceOK(task[t].p)
              /\ dir[task[t].p]["committing"].there
          BY <3>1, PlacedTask DEF TaskPlaced, Publishing
        <4>. QED
          BY <4>1, StatusesAre DEF PlaceOK, ToRecover
      <3>. QED
        BY <1>3, <3>1, <3>2
    <2>. QED
      BY <2>1, <2>2
  <1>6. \A s \in Sections : Traced(s)'
    BY <1>1, <1>4, <1>5 DEF Traced, DirtyFrom
  <1>7. Alone'
    BY <1>3, <1>4 DEF Alone
  <1>8. BootPublishes' /\ \A t \in AllTasks : task'[t].pc \notin Queued
    BY <1>1, IdlePublish DEF AllTasks
  <1>. QED
    BY <1>6, <1>7, <1>8 DEF PublishOK

(* Discarding a pending proposal at the start keeps the dirt of the tree
   traced to one proposal.                                                 *)
LEMMA DiscardPendingPublish ==
    ASSUME Formed, Placed, PublishOK, NEW p \in Proposals, DiscardPending(p) PROVE PublishOK'
  <1>1. /\ Boot \in AllTasks /\ \A t \in AllTasks : task[t] = Idle /\ task[t].p = 0
        /\ Only(Boot, p) /\ task'[Boot] = Idle /\ UNCHANGED <<tree, head, up>>
        /\ dir'[p]["committing"] = dir[p]["committing"]
        /\ \A q \in Proposals \ {p} : dir'[q] = dir[q]
    BY DiscardPendingEffect, IdleIs, StatusesAre DEF AllTasks, Only
  <1>2. \A q \in ToRecover' : q \in ToRecover /\ Overlay(q)' = Overlay(q)
    BY <1>1 DEF ToRecover, Overlay
  <1>3. p # 0
    BY DEF Proposals
  <1>. QED
    BY <1>1, <1>2, <1>3, IdleIs, IdlePublish, PublishStep

(* Recovering one proposal keeps the dirt of the tree traced to one
   proposal.                                                               *)
LEMMA RecoverNextPublish ==
    ASSUME Formed, Placed, PublishOK, RecoverNext PROVE PublishOK'
  <1>1. PICK p \in ToRecover :
          /\ \A t \in AllTasks : task[t] = Idle
          /\ p \in Proposals
          /\ UNCHANGED <<writer, tree, head, up>>
          /\ \A q \in Proposals \ {p} : dir'[q] = dir[q]
          /\ \A u \in AllTasks \ {Boot} : task'[u] = task[u]
          /\ \/ UNCHANGED task /\ ShiftsDir(p, "committing", "committed")
             \/ UNCHANGED dir /\ task'[Boot].pc = "enter"
    BY RecoverNextEffect
  <1>2. Boot \in AllTasks /\ Only(Boot, p) /\ \A t \in AllTasks : task[t].p # p
    BY <1>1, IdleIs DEF AllTasks, Only, Proposals
  <1>3. \A q \in ToRecover' : q \in ToRecover /\ Overlay(q)' = Overlay(q)
    BY <1>1 DEF ToRecover, Overlay, ShiftsDir, NoDir
  <1>4. task'[Boot].pc \notin Queued /\ BootPublishes'
    BY <1>1, <1>2, IdleIs DEF Queued, BootPublishes, Publishing
  <1>5. task[Boot].pc # "copy"
    BY <1>1, <1>2, IdleIs
  <1>. QED
    BY <1>1, <1>2, <1>3, <1>4, <1>5, PublishStep

(* The restart keeps the dirt of the tree traced to one proposal.          *)
LEMMA RestartPublish ==
    ASSUME Formed, PublishOK, Restart \/ RecoverDone PROVE PublishOK'
  <1>1. /\ UNCHANGED <<dir, tree, head, task>> /\ up # "up"
        /\ up' # "up" \/ tree = head
    BY DEF Restart, RecoverDone, disk
  <1>2. \A q : Overlay(q)' = Overlay(q) /\ (Claimed(q)' <=> Claimed(q))
    BY <1>1 DEF Overlay, Claimed
  <1>. QED
    BY <1>1, <1>2 DEF PublishOK, Traced, Alone, BootPublishes, ToRecover, DirtyFrom, Claimed, Overlay

(* A step that touches nothing of this keeps the dirt of the tree traced
   to one proposal.                                                        *)
LEMMA QuietPublish ==
    ASSUME PublishOK, UNCHANGED vars PROVE PublishOK'
  BY DEF vars, PublishOK, Traced, Alone, BootPublishes, ToRecover, DirtyFrom, Claimed, Overlay

(* Where only one request at a time works on a proposal, a failed copy is
   taken back, and the process stops during one publish at most.           *)
PublishEnv == {"same_proposal", "rollback_fails", "stop_anywhere"} \cap Env = {}

(* Every step keeps the dirt of the tree traced to one proposal.           *)
LEMMA StepPublish ==
    ASSUME Formed, Placed, PublishOK, PublishEnv, [Next]_vars PROVE PublishOK'
  <1>1. CASE UNCHANGED vars
    BY <1>1, QuietPublish
  <1>2. ASSUME NEW p \in Proposals, Create(p) \/ Demote(p) PROVE PublishOK'
    BY <1>2, CreatePublish, DemotePublish DEF PublishEnv
  <1>3. ASSUME NEW t \in Tasks, NEW p \in Proposals, Request(t, p) PROVE PublishOK'
    BY <1>3, RequestPublish DEF PublishEnv
  <1>4. ASSUME NEW t \in AllTasks, Progress(t) PROVE PublishOK'
    BY <1>4, WriteContentPublish, WriteAnswerPublish, WriteClaimPublish, WriteMetaPublish,
       RenamePublish, AbsorbEnterPublish, AbsorbStartPublish, AbsorbCopyPublish,
       AbsorbCommitPublish, AbsorbDonePublish, FinalizePublish, RollbackPublish DEF Progress
  <1>5. ASSUME NEW t \in AllTasks, GitFails(t) \/ FinalizeFails(t) PROVE PublishOK'
    BY <1>5, GitFailsPublish, FinalizePublish DEF PublishEnv
  <1>6. CASE Recovery \/ Crash
    BY <1>6, RestartPublish, DiscardPendingPublish, RecoverNextPublish, StopPublish
       DEF Recovery, PublishEnv
  <1>. QED
    BY <1>1, <1>2, <1>3, <1>4, <1>5, <1>6 DEF Next

(* The store starts clean.                                                 *)
LEMMA InitPublish == Init => PublishOK
  <1> SUFFICES ASSUME Init PROVE PublishOK
    OBVIOUS
  <1>1. BootPublishes /\ \A t \in AllTasks : task[t].pc \notin Queued
    BY IdleIs DEF Init, BootPublishes, Queued, AllTasks
  <1>2. Alone /\ \A s \in Sections : Traced(s)
    BY DEF Init, Alone, Traced
  <1>. QED
    BY <1>1, <1>2 DEF PublishOK

(* Only one publish copies at a time, so the dirt is its own.              *)
LEMMA CopierDirt ==
    ASSUME Formed, Placed, PublishOK, NEW t \in AllTasks, task[t].pc = "copy",
           NEW s \in Sections, tree[s] # head[s]
    PROVE  DirtyFrom(task[t].p, s)
  <1>1. Traced(s)
    BY DEF PublishOK
  <1>2. CASE up = "up"
    <2>1. PICK u \in AllTasks : task[u].pc = "copy" /\ DirtyFrom(task[u].p, s)
      BY <1>1, <1>2 DEF Traced
    <2>2. u = t
      BY <2>1 DEF Formed, QueueOK, HoldsIndex
    <2>. QED
      BY <2>1, <2>2
  <1>3. CASE up # "up"
    BY <1>1, <1>3, Whose DEF Traced
  <1>. QED
    BY <1>2, <1>3

(* The commit of a proposal changes the sections that proposal holds.      *)
LEMMA CommitUnderLock ==
    ASSUME Formed, Placed, ClaimOK, PublishOK, NEW t \in AllTasks, AbsorbCommit(t),
           NEW s \in Sections, head'[s] # head[s]
    PROVE  LET p == task[t].p IN
           /\ p \in Proposals /\ Holders(s) = {p} /\ dir[p]["committing"].there
           /\ Len(log') > Len(log) /\ log'[Len(log')].p = p
  <1>1. PICK p : p = task[t].p
    OBVIOUS
  <1>2. /\ task[t].pc = "copy" /\ head' = tree
        /\ log' = Append(log, [p |-> p, work |-> Overlay(p)])
    BY <1>1 DEF AbsorbCommit
  <1>3. /\ p \in Proposals /\ PlaceOK(p) /\ dir[p]["committing"].there /\ DiskTyped
        /\ dir[p]["committing"].meta
    <2>1. p \in Proposals /\ PlaceOK(p) /\ TaskPlaced(task[t])
      BY <1>1, <1>2, PlacedTask
    <2>2. dir[p]["committing"].there
      BY <1>1, <1>2, <2>1 DEF TaskPlaced, Publishing
    <2>3. dir[p]["committing"].meta
      BY <2>1, <2>2, StatusesAre DEF PlaceOK
    <2>. QED
      BY <2>1, <2>2, <2>3, TaskIs
  <1>4. DirtyFrom(p, s)
    BY <1>1, <1>2, CopierDirt
  <1>5. s \in dir[p]["committing"].targets
    BY <1>1, <1>2, <1>4 DEF PublishOK, Queued, Claimed, DirtyFrom
  <1>6. Holders(s) = {p}
    <2>1. p \in Holders(s)
      BY <1>3, <1>5 DEF Holders, BlockingStatuses
    <2>. QED
      BY <2>1 DEF ClaimOK
  <1>7. Len(log') > Len(log) /\ log'[Len(log')].p = p
    <2>1. log \in Seq([p : Proposals, work : SUBSET Work])
      BY <1>3 DEF DiskTyped
    <2>. QED
      BY <1>2, <2>1
  <1>. QED
    BY <1>1, <1>3, <1>6, <1>7

(* Canonical changes by a commit and by nothing else.                      *)
LEMMA OnlyCommitChangesHead ==
    ASSUME [Next]_vars, head' # head PROVE \E t \in AllTasks : AbsorbCommit(t)
  <1>1. ASSUME NEW p \in Proposals, Create(p) \/ Demote(p) PROVE UNCHANGED head
    BY <1>1 DEF Create, CreateIn, Demote, disk
  <1>2. ASSUME NEW t \in Tasks, NEW p \in Proposals, Request(t, p) PROVE UNCHANGED head
    BY <1>2 DEF Request, Declare, WriteStart, AcquireStart, WithdrawStart, CommitStart, disk
  <1>3. ASSUME NEW t \in AllTasks, Progress(t), ~AbsorbCommit(t) PROVE UNCHANGED head
    <2>1. CASE WriteContent(t) \/ WriteAnswer(t) \/ WriteClaim(t) \/ WriteMeta(t) \/ Rename(t)
      BY <2>1 DEF WriteContent, WriteAnswer, WriteClaim, WriteMeta, Rename, disk
    <2>2. CASE AbsorbEnter(t) \/ AbsorbStart(t) \/ AbsorbCopy(t) \/ AbsorbDone(t) \/ Finalize(t)
               \/ Rollback(t)
      BY <2>2 DEF AbsorbEnter, AbsorbStart, AbsorbCopy, AbsorbDone, Finalize, Rollback, disk
    <2>. QED
      BY <1>3, <2>1, <2>2 DEF Progress
  <1>4. ASSUME NEW t \in AllTasks, GitFails(t) \/ FinalizeFails(t) PROVE UNCHANGED head
    BY <1>4 DEF GitFails, FinalizeFails, disk
  <1>5. CASE Recovery \/ Crash
    BY <1>5 DEF Recovery, Restart, DiscardPending, RecoverNext, RecoverDone, RecoveryFails, Crash, disk
  <1>6. CASE UNCHANGED vars
    BY <1>6 DEF vars, disk
  <1>. QED
    BY <1>1, <1>2, <1>3, <1>4, <1>5, <1>6 DEF Next

(* A section changes in canonical only by the commit of a proposal that claims
   it and that alone holds it: nobody publishes under somebody else's lock. *)
THEOREM PublishUnderLock ==
    ASSUME PublishEnv, "same_moment" \notin Env PROVE Spec => HeadChangesUnderLock
<1>1. Formed /\ Placed /\ [Next]_vars => Placed'
  BY StepPlaced DEF PublishEnv
<1>2. Formed /\ Placed /\ ClaimOK /\ [Next]_vars => ClaimOK'
  BY StepClaims DEF PublishEnv
<1>3. Formed /\ Placed /\ PublishOK /\ [Next]_vars => PublishOK'
  BY StepPublish
<1>4. Formed /\ Placed /\ ClaimOK /\ PublishOK /\ [Next]_vars
        => [\A s \in Sections : head'[s] # head[s] =>
              \E p \in Proposals : /\ Len(log') > Len(log) /\ log'[Len(log')].p = p
                                   /\ Holders(s) = {p} /\ dir[p]["committing"].there]_vars
  <2> SUFFICES ASSUME Formed, Placed, ClaimOK, PublishOK, [Next]_vars, NEW s \in Sections,
                      head'[s] # head[s]
               PROVE  \E p \in Proposals : /\ Len(log') > Len(log) /\ log'[Len(log')].p = p
                                           /\ Holders(s) = {p} /\ dir[p]["committing"].there
    OBVIOUS
  <2>1. PICK t \in AllTasks : AbsorbCommit(t)
    BY OnlyCommitChangesHead
  <2>. QED
    BY <2>1, CommitUnderLock
<1>. QED
  BY <1>1, <1>2, <1>3, <1>4, InitPublish, InitClaims, InitPlaced, InitFormed, StepFormed, PTL
     DEF Spec, HeadChangesUnderLock

-----------------------------------------------------------------------------
(* The store implements the lifecycle: a proposal lands once and whole, or *)
(* not at all, whatever requests, failing git operations, stops and        *)
(* recoveries there were.  The step that counts is the git commit.  The    *)
(* first commit of a proposal is its landing, and a commit that recovery   *)
(* makes again must change nothing: what the proposal landed is still what *)
(* HEAD shows in its sections, since nobody else could claim them in the   *)
(* meantime.                                                               *)

(* A proposal that landed lies in committed, or still in committing with
   what it landed, which is what HEAD shows.                               *)
LandedP(p) ==
  /\ \A i \in LandingOf(p) :
       \/ dir[p]["committed"].there
       \/ /\ dir[p]["committing"].there /\ log[i].work = Overlay(p) /\ Claimed(p)
          /\ \A s \in SectionsOf(Overlay(p)) : head[s] = NewestOf(Overlay(p), s)
  /\ \A i, j \in LandingOf(p) : log[i].work = log[j].work
  /\ dir[p]["committed"].there => LandingOf(p) # {}
  /\ \A st \in Statuses : dir[p][st].landed => LandingOf(p) # {}

(* A publish knows whether its commit was made; one that recovery repeats
   does not.                                                               *)
TaskLanded(k) ==
  /\ Landing(k) => LandingOf(k.p) # {}
  /\ k.pc \in {"enter", "queued", "copy", "rollback"} /\ up = "up" => LandingOf(k.p) = {}

(* The inductive invariant behind the refinement.                          *)
LandOK ==
  /\ \A p \in Proposals : LandedP(p)
  /\ \A t \in AllTasks : TaskLanded(task[t])

(* A proposal in any other directory has not landed.                       *)
LEMMA NotLanded ==
    ASSUME NEW p \in Proposals, LandOK, PlaceOK(p), NEW st \in Statuses, dir[p][st].there,
           st \notin {"committing", "committed"}
    PROVE  LandingOf(p) = {} /\ \A su \in Statuses : ~dir[p][su].landed
  BY StatusesAre DEF LandOK, LandedP, PlaceOK

(* A proposal that never landed and is not in committed.                   *)
LEMMA Unlanded ==
    ASSUME NEW p, LandingOf(p)' = {}, ~dir'[p]["committed"].there,
           \A su \in Statuses : ~dir'[p][su].landed
    PROVE  LandedP(p)'
  BY DEF LandedP

(* Landings are in the log.                                                *)
LEMMA LandingStays == ASSUME UNCHANGED log PROVE \A p : LandingOf(p)' = LandingOf(p)
  BY DEF LandingOf

(* The step of one request on one proposal that leaves log and HEAD alone. *)
LEMMA LandStep ==
    ASSUME Formed, LandOK, NEW t \in AllTasks, NEW p \in Proposals, Only(t, p),
           UNCHANGED <<log, head, up>>, \A u \in AllTasks \ {t} : task[u].p # p,
           LandedP(p)', TaskLanded(task[t])'
    PROVE  LandOK'
  <1>1. \A q : LandingOf(q)' = LandingOf(q)
    BY LandingStays
  <1>2. ASSUME NEW q \in Proposals, q # p PROVE LandedP(q)'
    <2>1. LandedP(q) /\ dir'[q] = dir[q]
      BY <1>2 DEF LandOK, Only
    <2>. QED
      BY <1>1, <2>1 DEF LandedP, Overlay, Claimed
  <1>3. ASSUME NEW u \in AllTasks, u # t PROVE TaskLanded(task[u])'
    <2>1. TaskLanded(task[u]) /\ task'[u] = task[u]
      BY <1>3 DEF LandOK, Only
    <2>. QED
      BY <1>1, <2>1 DEF TaskLanded, Landing
  <1>. QED
    BY <1>2, <1>3 DEF LandOK

(* The same for a request that is under way.                               *)
LEMMA TaskLandStep ==
    ASSUME Formed, Placed, LandOK, NEW t \in AllTasks, task[t].pc # "idle", NEW p, p = task[t].p,
           Only(t, p), UNCHANGED <<log, head, up>>, LandedP(p)', TaskLanded(task[t])'
    PROVE  LandOK'
  <1>1. p \in Proposals /\ p # 0
    BY TaskIs DEF Proposals
  <1>2. \A u \in AllTasks \ {t} : task[u].p # p
    BY <1>1 DEF Placed, Serial
  <1>. QED
    BY <1>1, <1>2, LandStep

(* What has landed stays landed while no file changes.                     *)
LEMMA StillLanded ==
    ASSUME LandOK, NEW p \in Proposals, UNCHANGED <<dir, log, head>> PROVE LandedP(p)'
  BY LandingStays DEF LandOK, LandedP, Overlay, Claimed

(* A request that is over knows nothing.                                   *)
LEMMA IdleLanded == ASSUME NEW t, task'[t] = Idle PROVE TaskLanded(task[t])'
  BY IdleIs DEF TaskLanded, Landing

(* Creating a proposal keeps what has landed.                              *)
LEMMA CreateLand ==
    ASSUME Formed, Placed, LandOK, NEW p \in Proposals, Create(p) PROVE LandOK'
  <1>1. PICK st \in {"draft", "pending", "inprogress"} :
          /\ up = "up" /\ UNCHANGED <<task, log, head, up>> /\ writer[p] = "none"
          /\ \A q \in Proposals \ {p} : dir'[q] = dir[q] /\ writer'[q] = writer[q]
          /\ ~dir'[p][st].landed
          /\ \A su \in Statuses \ {st} : dir'[p][su] = dir[p][su]
    BY CreateEffect DEF CreateDoes, Running
  <1>2. Boot \in AllTasks /\ task'[Boot] = Idle
    BY <1>1, TaskIs DEF AllTasks, Formed, BootOK, TaskFormed
  <1>3. \A u \in AllTasks : task[u].p # p
    BY <1>1, TaskIs, IdleIs, StoreAssumption DEF Placed, TaskDir, TaskPlaced, TaskFormed, Proposals
  <1>4. PlaceOK(p) /\ LandedP(p) /\ \A su \in Statuses : ~dir[p][su].there /\ dir[p][su] = NoDir
    BY <1>1 DEF Placed, DirOK, PlaceOK, LandOK
  <1>5. LandingOf(p)' = {}
    BY <1>1, <1>4, StatusesAre, LandingStays DEF LandedP
  <1>6. \A su \in Statuses : ~dir'[p][su].landed
    BY <1>1, <1>4 DEF NoDir
  <1>7. ~dir'[p]["committed"].there
    BY <1>1, <1>4, StatusesAre
  <1>. QED
    BY <1>1, <1>2, <1>3, <1>5, <1>6, <1>7, Unlanded, IdleLanded, LandStep DEF Only

(* Demoting a pending proposal to a draft keeps what has landed.           *)
LEMMA DemoteLand ==
    ASSUME Formed, Placed, LandOK, "same_proposal" \notin Env, NEW p \in Proposals, Demote(p)
    PROVE  LandOK'
  <1>1. /\ up = "up" /\ UNCHANGED <<task, log, head, up>> /\ MovesDir(p, "pending", "draft")
        /\ Only(Boot, p) /\ \A u \in AllTasks : task[u].p # p
    BY DemoteEffect DEF Only, OneRequest, Running
  <1>2. Boot \in AllTasks /\ task'[Boot] = Idle
    BY <1>1, TaskIs DEF AllTasks, Formed, BootOK, TaskFormed
  <1>3. PlaceOK(p) /\ LandingOf(p) = {} /\ \A su \in Statuses : ~dir[p][su].landed
    BY <1>1, NotLanded, StatusesAre DEF Placed, DirOK, MovesDir, CanMove
  <1>4. LandedP(p)'
    <2>1. LandingOf(p)' = {}
      BY <1>1, <1>3, LandingStays
    <2>2. ~dir'[p]["committed"].there
      BY <1>1, <1>3, StatusesAre DEF MovesDir, ShiftsDir, CanMove, PlaceOK
    <2>3. \A su \in Statuses : ~dir'[p][su].landed
      BY <1>1, <1>3, StatusesAre DEF MovesDir, ShiftsDir, NoDir
    <2>. QED
      BY <2>1, <2>2, <2>3, Unlanded
  <1>. QED
    BY <1>1, <1>2, <1>4, IdleLanded, LandStep

(* A request that starts keeps what has landed.                            *)
LEMMA RequestLand ==
    ASSUME Formed, Placed, LandOK, "same_proposal" \notin Env, NEW t \in Tasks, NEW p \in Proposals,
           Request(t, p)
    PROVE  LandOK'
  <1>1. /\ t \in AllTasks /\ Only(t, p) /\ UNCHANGED <<log, head, up>> /\ task'[t].p = p
        /\ \A u \in AllTasks : task[u].p # p
    BY StartEffect DEF OneRequest
  <1>2. PlaceOK(p) /\ LandedP(p)
    BY DEF Placed, DirOK, LandOK
  <1>3. /\ task'[t].pc \in {"meta", "rename", "content"}
        /\ task'[t].pc # "content" => task'[t].to # "committed"
    BY DeclareEffect, WriteStartEffect, AcquireStartEffect, WithdrawStartEffect, CommitStartEffect
       DEF Request
  <1>4. TaskLanded(task[t])'
    BY <1>3 DEF TaskLanded, Landing
  <1>5. CASE UNCHANGED dir
    BY <1>1, <1>4, <1>5, StillLanded, LandStep
  <1>6. CASE Declare(t, p)
    <2>1. /\ Locate(p) = "draft" /\ dir[p]["draft"].there /\ "draft" \in Statuses
          /\ \A su \in Statuses \ {"draft"} : dir'[p][su] = dir[p][su]
          /\ dir'[p]["draft"].landed = dir[p]["draft"].landed
      BY <1>2, <1>6, DeclareEffect, Located, StatusesAre DEF Missing
    <2>2. LandingOf(p) = {} /\ \A su \in Statuses : ~dir[p][su].landed
      BY <1>2, <2>1, NotLanded
    <2>3. ~dir[p]["committed"].there /\ dir'[p]["committed"] = dir[p]["committed"]
      BY <1>2, <2>1, StatusesAre DEF PlaceOK
    <2>4. LandedP(p)'
      BY <1>1, <2>1, <2>2, <2>3, LandingStays, Unlanded
    <2>. QED
      BY <1>1, <1>4, <2>4, LandStep
  <1>. QED
    BY <1>5, <1>6, WriteStartEffect, AcquireStartEffect, WithdrawStartEffect, CommitStartEffect
       DEF Request

(* Writing the content file keeps what has landed.                         *)
LEMMA WriteContentLand ==
    ASSUME Formed, Placed, LandOK, NEW t \in AllTasks, WriteContent(t) PROVE LandOK'
  <1>1. PICK p, st, pc : p = task[t].p /\ st = task[t].from
                      /\ pc = IF writer[p] = "human" /\ st # "pending" THEN "answer" ELSE "claim"
    OBVIOUS
  <1>2. /\ task[t].pc = "content" /\ p \in Proposals /\ st \in Statuses
        /\ TasksOnly(t, pc) /\ UNCHANGED <<writer, log, head, up>>
        /\ \A q \in Proposals \ {p} : dir'[q] = dir[q]
        /\ \A su \in Statuses \ {st} : dir'[p][su] = dir[p][su]
        /\ dir'[p][st].landed = dir[p][st].landed
    BY <1>1, WriteContentEffect
  <1>3. PlaceOK(p) /\ dir[p][st].there /\ st \in OpenStatuses
    BY <1>1, <1>2, PlacedTask DEF TaskPlaced
  <1>4. LandingOf(p) = {} /\ \A su \in Statuses : ~dir[p][su].landed
    BY <1>2, <1>3, NotLanded DEF OpenStatuses
  <1>5. ~dir'[p]["committed"].there
    BY <1>2, <1>3, StatusesAre DEF PlaceOK, OpenStatuses
  <1>6. LandedP(p)'
    BY <1>2, <1>4, <1>5, LandingStays, Unlanded
  <1>7. Only(t, p) /\ TaskLanded(task[t])'
    BY <1>1, <1>2 DEF Only, TasksOnly, PcOnly, TaskLanded, Landing
  <1>. QED
    BY <1>1, <1>2, <1>6, <1>7, TaskLandStep

(* The answer to a write, or its claims read again keeps what has landed.  *)
LEMMA AnswerLand ==
    ASSUME Formed, Placed, LandOK, NEW t \in AllTasks, WriteAnswer(t) \/ WriteClaim(t) PROVE LandOK'
  <1>1. PICK p : p = task[t].p
    OBVIOUS
  <1>2. /\ task[t].pc \in {"answer", "claim"} /\ p \in Proposals
        /\ Only(t, p) /\ UNCHANGED <<dir, log, head, up>>
        /\ task'[t] = Idle \/ (task'[t].pc = "meta" /\ task'[t].to \in OpenStatuses)
    <2>1. CASE WriteAnswer(t)
      BY <1>1, <2>1, FinishDoes, TaskIs DEF WriteAnswer, disk, Only
    <2>2. CASE WriteClaim(t)
      BY <1>1, <2>2, WriteClaimEffect DEF Only
    <2>. QED
      BY <2>1, <2>2
  <1>3. TaskLanded(task[t])'
    BY <1>2, IdleLanded DEF TaskLanded, Landing, OpenStatuses
  <1>. QED
    BY <1>1, <1>2, <1>3, StillLanded, TaskLandStep

(* Writing meta.json keeps what has landed.                                *)
LEMMA WriteMetaLand ==
    ASSUME Formed, Placed, LandOK, NEW t \in AllTasks, WriteMeta(t) PROVE LandOK'
  <1>1. PICK p, st : p = task[t].p /\ st = task[t].from
    OBVIOUS
  <1>2. /\ task[t].pc = "meta" /\ p \in Proposals /\ st \in Statuses
        /\ Only(t, p) /\ UNCHANGED <<log, head, up>>
        /\ \A su \in Statuses \ {st} : dir'[p][su] = dir[p][su]
        /\ dir'[p][st].there /\ dir'[p][st].targets = task[t].targets
        /\ dir'[p][st].landed = (task[t].to = "committed")
        /\ dir'[p][st].work = dir[p][st].work
        /\ task'[t] = Idle \/ PcOnly(t, "rename")
    BY <1>1, WriteMetaEffect DEF Only
  <1>3. PlaceOK(p) /\ TaskPlaced(task[t]) /\ LandedP(p) /\ TaskLanded(task[t])
    BY <1>1, <1>2, PlacedTask DEF LandOK
  <1>4. dir[p][st].there
    BY <1>1, <1>2, <1>3 DEF TaskPlaced
  <1>5. TaskLanded(task[t])'
    <2>1. task'[t].pc = "rename" /\ task'[t].to = task[t].to /\ task'[t].p = task[t].p => TaskLanded(task[t])'
      BY <1>2, <1>3, LandingStays DEF TaskLanded, Landing
    <2>. QED
      BY <1>2, <2>1, IdleLanded DEF PcOnly
  <1>6. CASE task[t].to = "committed"
    <2>1. st = "committing" /\ dir[p][st].targets = task[t].targets
      BY <1>1, <1>2, <1>3, <1>6 DEF TaskPlaced, OpenStatuses
    <2>2. LandingOf(p)' = LandingOf(p) /\ LandingOf(p) # {}
      BY <1>1, <1>2, <1>3, <1>6, LandingStays DEF TaskLanded, Landing
    <2>3. dir'[p]["committed"] = dir[p]["committed"] /\ Overlay(p)' = Overlay(p) /\ (Claimed(p)' <=> Claimed(p))
      BY <1>2, <2>1, StatusesAre DEF Overlay, Claimed
    <2>4. LandedP(p)'
      BY <1>2, <1>3, <1>4, <2>1, <2>2, <2>3 DEF LandedP
    <2>. QED
      BY <1>1, <1>2, <1>5, <2>4, TaskLandStep
  <1>7. CASE task[t].to # "committed"
    <2>1. st \in OpenStatuses
      BY <1>1, <1>2, <1>3, <1>7 DEF TaskPlaced, OpenStatuses
    <2>2. LandingOf(p) = {} /\ \A su \in Statuses : ~dir[p][su].landed
      BY <1>2, <1>3, <1>4, <2>1, NotLanded DEF OpenStatuses
    <2>3. ~dir'[p]["committed"].there
      BY <1>2, <1>3, <1>4, <2>1, StatusesAre DEF PlaceOK, OpenStatuses
    <2>4. LandedP(p)'
      BY <1>2, <1>7, <2>2, <2>3, LandingStays, Unlanded
    <2>. QED
      BY <1>1, <1>2, <1>5, <2>4, TaskLandStep
  <1>. QED
    BY <1>6, <1>7

(* A move into committed, of a proposal that landed.                       *)
LEMMA MoveToCommitted ==
    ASSUME NEW p, LandedP(p), LandingOf(p) # {}, UNCHANGED <<log, head>>,
           dir'[p]["committed"].there
    PROVE  LandedP(p)'
  BY LandingStays DEF LandedP

(* Renaming the directory keeps what has landed.                           *)
LEMMA RenameLand ==
    ASSUME Formed, Placed, LandOK, NEW t \in AllTasks, Rename(t) PROVE LandOK'
  <1>1. PICK p, st, su : p = task[t].p /\ st = task[t].from /\ su = task[t].to
    OBVIOUS
  <1>2. /\ st # su /\ MovesDir(p, st, su) /\ st \in Statuses /\ su \in Statuses
        /\ Only(t, p) /\ UNCHANGED <<log, head, up>> /\ task[t].pc = "rename" /\ p \in Proposals
        /\ \/ su = "committing" /\ PcOnly(t, "enter")
           \/ task'[t] = Idle
    BY <1>1, RenameFits, RenameEffect DEF Only, MovesDir
  <1>3. PlaceOK(p) /\ TaskPlaced(task[t]) /\ LandedP(p) /\ TaskLanded(task[t]) /\ dir[p][st].there
    BY <1>1, <1>2, PlacedTask DEF LandOK, MovesDir, CanMove
  <1>4. CASE su = "committed"
    <2>1. LandingOf(p) # {}
      BY <1>1, <1>2, <1>3, <1>4 DEF TaskLanded, Landing
    <2>2. dir'[p]["committed"].there
      BY <1>2, <1>3, <1>4 DEF MovesDir, ShiftsDir
    <2>3. LandedP(p)' /\ task'[t] = Idle
      BY <1>2, <1>3, <1>4, <2>1, <2>2, MoveToCommitted
    <2>. QED
      BY <1>1, <1>2, <2>3, IdleLanded, TaskLandStep
  <1>5. CASE su # "committed"
    <2>1. st \in OpenStatuses
      BY <1>1, <1>2, <1>3, <1>5 DEF TaskPlaced, OpenStatuses
    <2>2. LandingOf(p) = {} /\ \A sv \in Statuses : ~dir[p][sv].landed
      BY <1>2, <1>3, <2>1, NotLanded DEF OpenStatuses
    <2>3. LandedP(p)'
      <3>1. ~dir'[p]["committed"].there
        BY <1>2, <1>3, <1>5, <2>1, StatusesAre DEF MovesDir, ShiftsDir, PlaceOK, OpenStatuses
      <3>2. \A sv \in Statuses : ~dir'[p][sv].landed
        BY <1>2, <2>2 DEF MovesDir, ShiftsDir, NoDir
      <3>. QED
        BY <1>2, <2>2, <3>1, <3>2, LandingStays, Unlanded
    <2>4. TaskLanded(task[t])'
      <3>1. CASE task'[t] = Idle
        BY <3>1, IdleLanded
      <3>2. CASE PcOnly(t, "enter")
        BY <1>1, <1>2, <2>2, <3>2, LandingStays DEF PcOnly, TaskLanded, Landing
      <3>. QED
        BY <1>2, <3>1, <3>2
    <2>. QED
      BY <1>1, <1>2, <2>3, <2>4, TaskLandStep
  <1>. QED
    BY <1>4, <1>5

(* Every step of the pipeline but the commit.                              *)
LEMMA PipelineLand ==
    ASSUME Formed, Placed, LandOK, "late_fails" \notin Env, NEW t \in AllTasks, Pipeline(t),
           ~AbsorbCommit(t)
    PROVE  LandOK'
  <1>1. PICK p : p = task[t].p
    OBVIOUS
  <1>2. /\ p \in Proposals /\ Only(t, p) /\ UNCHANGED <<dir, up>> /\ task'[t].p = p
        /\ task[t].pc # "idle"
    BY <1>1, PipelineEffect DEF Only, Publishing
  <1>3. UNCHANGED <<log, head>>
    BY DEF Pipeline, AbsorbEnter, AbsorbStart, AbsorbCopy, AbsorbDone, Finalize, GitFails,
       FinalizeFails, disk
  <1>4. TaskLanded(task[t]) /\ TaskPlaced(task[t]) /\ PlaceOK(p)
    BY <1>1, <1>2, PlacedTask DEF LandOK
  <1>5. LandingOf(p)' = LandingOf(p)
    BY <1>3, LandingStays
  <1>6. \/ /\ task[t].pc \in {"enter", "queued", "copy"}
           /\ task'[t].pc \in {"queued", "copy", "rollback"}
        \/ task[t].pc = "landed" /\ task'[t].pc = "finalize"
        \/ task[t].pc = "finalize" /\ task'[t].pc = "meta" /\ task'[t].to = "committed"
    <2>1. ASSUME NEW pc, Continue(t, pc) PROVE task'[t].pc = pc
      BY <2>1, ContinueDoes DEF TasksOnly, PcOnly
    <2>2. CASE AbsorbEnter(t)
      <3>1. CASE Continue(t, "rollback")
        BY <2>1, <2>2, <3>1 DEF AbsorbEnter
      <3>2. CASE task' = [task EXCEPT ![t].pc = "queued", ![t].targets = Targets(task[t].p)]
        BY <2>2, <3>2, TaskIs DEF AbsorbEnter, Formed, TypeOK, RequestsTyped, TaskType
      <3>. QED
        BY <2>2, <3>1, <3>2 DEF AbsorbEnter
    <2>3. CASE AbsorbStart(t) \/ AbsorbDone(t) \/ GitFails(t)
      BY <2>1, <2>3 DEF AbsorbStart, AbsorbDone, GitFails
    <2>4. CASE AbsorbCopy(t)
      BY <2>4 DEF AbsorbCopy
    <2>5. CASE Finalize(t)
      <3>1. dir[p]["committing"].there
        BY <1>1, <1>4, <2>5 DEF Finalize, TaskPlaced, Publishing
      <3>2. Locate(p) = "committing"
        BY <1>4, <3>1, Located, StatusesAre
      <3>3. task' = [task EXCEPT ![t].pc = "meta", ![t].from = "committing",
                                 ![t].to = "committed", ![t].targets = Targets(task[t].p)]
        BY <1>1, <2>5, <3>2 DEF Finalize
      <3>. QED
        BY <2>5, <3>3, TaskIs DEF Finalize, Formed, TypeOK, RequestsTyped, TaskType
    <2>. QED
      BY <2>2, <2>3, <2>4, <2>5 DEF Pipeline, FinalizeFails
  <1>7. TaskLanded(task[t])'
    BY <1>1, <1>2, <1>4, <1>5, <1>6 DEF TaskLanded, Landing
  <1>. QED
    BY <1>1, <1>2, <1>3, <1>7, StillLanded, TaskLandStep

(* The commit: its proposal lands or has landed with the same content, and
   no section of another proposal on its way to committed changes.         *)
LEMMA CommitAppends ==
    ASSUME Formed, NEW t \in AllTasks, AbsorbCommit(t), NEW p, p = task[t].p
    PROVE  LET i == Len(log) + 1 IN
           /\ LandingOf(p)' = LandingOf(p) \cup {i} /\ log'[i].work = Overlay(p)
           /\ i \notin LandingOf(p)
           /\ \A q : q # p => LandingOf(q)' = LandingOf(q)
           /\ \A j \in DOMAIN log : log'[j] = log[j]
           /\ DOMAIN log' = DOMAIN log \cup {i}
  <1> DEFINE e == [p |-> p, work |-> Overlay(p)]
  <1>1. log \in Seq([p : Proposals, work : SUBSET Work]) /\ log' = Append(log, e)
    BY DEF Formed, TypeOK, DiskTyped, AbsorbCommit
  <1>2. e.p = p /\ e.work = Overlay(p)
    OBVIOUS
  <1> HIDE DEF e
  <1>3. /\ DOMAIN log' = DOMAIN log \cup {Len(log) + 1} /\ Len(log) + 1 \notin DOMAIN log
        /\ \A j \in DOMAIN log : log'[j] = log[j]
        /\ log'[Len(log) + 1] = e
    BY <1>1
  <1>. QED
    BY <1>2, <1>3 DEF LandingOf

(* The git commit keeps what has landed.                                   *)
LEMMA CommitLand ==
    ASSUME Formed, Placed, ClaimOK, PublishOK, LandOK, NEW t \in AllTasks, AbsorbCommit(t)
    PROVE  LandOK'
  <1>1. PICK p, i : p = task[t].p /\ i = Len(log) + 1
    OBVIOUS
  <1>2. /\ task[t].pc = "copy" /\ head' = tree /\ StaleSections(p) = {} /\ p \in Proposals
        /\ UNCHANGED <<writer, dir, tree, index, up>>
        /\ TasksOnly(t, "landed")
    BY <1>1, TaskIs, ContinueDoes DEF AbsorbCommit
  <1>3. /\ LandingOf(p)' = LandingOf(p) \cup {i} /\ log'[i].work = Overlay(p)
        /\ \A q : q # p => LandingOf(q)' = LandingOf(q)
        /\ \A j \in DOMAIN log : log'[j] = log[j]
    BY <1>1, CommitAppends
  <1>4. PlaceOK(p) /\ dir[p]["committing"].there /\ LandedP(p)
    BY <1>1, <1>2, PlacedTask DEF TaskPlaced, Publishing, LandOK
  <1>5. ~dir[p]["committed"].there
    BY <1>4, StatusesAre DEF PlaceOK
  <1>6. \A q : Overlay(q)' = Overlay(q) /\ (Claimed(q)' <=> Claimed(q))
    BY <1>2 DEF Overlay, Claimed
  <1>7. LandedP(p)'
    <2>1. \A j \in LandingOf(p)' : log'[j].work = Overlay(p)
      BY <1>3, <1>4, <1>5 DEF LandedP, LandingOf
    <2>2. Claimed(p)
      BY <1>1, <1>2 DEF PublishOK, Queued
    <2>3. \A s \in SectionsOf(Overlay(p)) : head'[s] = NewestOf(Overlay(p), s)
      BY <1>2 DEF StaleSections
    <2>4. LandingOf(p)' # {}
      BY <1>3
    <2>. QED
      BY <1>2, <1>4, <1>5, <1>6, <2>1, <2>2, <2>3, <2>4 DEF LandedP
  <1>8. ASSUME NEW q \in Proposals, q # p PROVE LandedP(q)'
    <2>1. LandedP(q) /\ LandingOf(q)' = LandingOf(q) /\ PlaceOK(q) /\ \A j \in LandingOf(q) : log'[j] = log[j]
      BY <1>3, <1>8 DEF LandOK, Placed, DirOK, LandingOf
    <2>2. ASSUME dir[q]["committing"].there, Claimed(q), NEW s \in SectionsOf(Overlay(q)),
                 head'[s] # head[s]
          PROVE  FALSE
      <3>1. /\ s \in dir[q]["committing"].targets /\ dir[q]["committing"].meta
            /\ dir[q]["committing"].targets \subseteq Sections
        BY <2>1, <2>2, EntryIsTyped, StatusesAre DEF Claimed, PlaceOK, Formed, TypeOK, DirType
      <3>2. q \in Holders(s)
        BY <3>1 DEF Holders, BlockingStatuses
      <3>3. Holders(s) = {p}
        BY <1>1, <2>2, <3>1, CommitUnderLock
      <3>. QED
        BY <1>8, <3>2, <3>3
    <2>. QED
      BY <1>2, <1>6, <2>1, <2>2 DEF LandedP
  <1>9. ASSUME NEW u \in AllTasks PROVE TaskLanded(task[u])'
    <2>1. CASE u = t
      BY <1>1, <1>2, <1>3, <2>1 DEF TasksOnly, PcOnly, TaskLanded, Landing
    <2>2. CASE u # t
      <3>1. task'[u] = task[u] /\ TaskLanded(task[u])
        BY <1>2, <2>2 DEF TasksOnly, LandOK
      <3>2. task[u].p # p
        BY <1>1, <1>2, <2>2 DEF Placed, Serial, Proposals
      <3>3. LandingOf(task[u].p)' = LandingOf(task[u].p)
        BY <1>3, <3>1, <3>2
      <3>. QED
        BY <1>2, <3>1, <3>3 DEF TaskLanded, Landing
    <2>. QED
      BY <2>1, <2>2
  <1>. QED
    BY <1>7, <1>8, <1>9 DEF LandOK

(* Taking a failed publish back keeps what has landed.                     *)
LEMMA RollbackLand ==
    ASSUME Formed, Placed, PublishOK, LandOK, NEW t \in AllTasks, Rollback(t) PROVE LandOK'
  <1>1. PICK p : p = task[t].p
    OBVIOUS
  <1>2. /\ task[t].pc = "rollback" /\ t # Boot /\ Only(t, p) /\ task'[t] = Idle
        /\ UNCHANGED <<log, head, up>> /\ p \in Proposals
        /\ MovesDir(p, "committing", RollbackTo(p)) \/ UNCHANGED dir
    BY <1>1, RollbackEffect DEF Only
  <1>3. LandingOf(p) = {} /\ LandedP(p) /\ PlaceOK(p)
    BY <1>1, <1>2, Whose, PlacedTask DEF LandOK, TaskLanded
  <1>4. LandedP(p)'
    <2>1. CASE MovesDir(p, "committing", RollbackTo(p))
      <3>1. \A su \in Statuses : ~dir[p][su].landed /\ ~dir[p]["committed"].there
        BY <1>3 DEF LandedP
      <3>2. ~dir'[p]["committed"].there /\ \A su \in Statuses : ~dir'[p][su].landed
        BY <2>1, <3>1, StatusesAre DEF MovesDir, ShiftsDir, RollbackTo, NoDir
      <3>. QED
        BY <1>2, <1>3, <3>2, LandingStays, Unlanded
    <2>2. CASE UNCHANGED dir
      BY <1>2, <2>2, StillLanded
    <2>. QED
      BY <1>2, <2>1, <2>2
  <1>. QED
    BY <1>1, <1>2, <1>4, IdleLanded, TaskLandStep

(* Discarding a pending proposal at the start keeps what has landed.       *)
LEMMA DiscardPendingLand ==
    ASSUME Formed, Placed, LandOK, NEW p \in Proposals, DiscardPending(p) PROVE LandOK'
  <1>1. /\ Boot \in AllTasks /\ \A t \in AllTasks : task[t] = Idle /\ task[t].p = 0
        /\ Only(Boot, p) /\ task'[Boot] = Idle /\ UNCHANGED <<log, head, up>>
        /\ dir'[p]["pending"] = NoDir /\ \A su \in Statuses \ {"pending"} : dir'[p][su] = dir[p][su]
    BY DiscardPendingEffect, IdleIs DEF AllTasks, Only
  <1>2. PlaceOK(p) /\ dir[p]["pending"].there
    BY DEF Placed, DirOK, DiscardPending, Pending
  <1>3. LandingOf(p) = {} /\ \A su \in Statuses : ~dir[p][su].landed
    BY <1>2, NotLanded, StatusesAre
  <1>4. ~dir'[p]["committed"].there /\ \A su \in Statuses : ~dir'[p][su].landed
    BY <1>1, <1>2, <1>3, StatusesAre DEF PlaceOK, NoDir
  <1>5. LandedP(p)' /\ p # 0
    BY <1>1, <1>3, <1>4, LandingStays, Unlanded DEF Proposals
  <1>. QED
    BY <1>1, <1>5, IdleLanded, LandStep

(* Recovering one proposal keeps what has landed.                          *)
LEMMA RecoverNextLand ==
    ASSUME Formed, Placed, LandOK, RecoverNext PROVE LandOK'
  <1>1. PICK p \in ToRecover :
          /\ up = "recovering" /\ \A t \in AllTasks : task[t] = Idle
          /\ p \in Proposals
          /\ UNCHANGED <<writer, log, head, up>>
          /\ \A q \in Proposals \ {p} : dir'[q] = dir[q]
          /\ \A u \in AllTasks \ {Boot} : task'[u] = task[u]
          /\ \/ /\ dir[p]["committing"].landed /\ UNCHANGED task
                /\ ShiftsDir(p, "committing", "committed")
             \/ UNCHANGED dir /\ task'[Boot].pc = "enter"
    BY RecoverNextEffect
  <1>2. Boot \in AllTasks /\ Only(Boot, p) /\ \A t \in AllTasks : task[t].p # p
    BY <1>1, IdleIs DEF AllTasks, Only, Proposals
  <1>3. LandedP(p) /\ PlaceOK(p) /\ dir[p]["committing"].there /\ "committing" \in Statuses
    BY <1>1, StatusesAre DEF LandOK, Placed, DirOK, PlaceOK, ToRecover, NoDir
  <1>4. CASE /\ dir[p]["committing"].landed /\ UNCHANGED task
             /\ ShiftsDir(p, "committing", "committed")
    <2>1. LandingOf(p) # {} /\ dir'[p]["committed"].there
      BY <1>3, <1>4 DEF LandedP, ShiftsDir
    <2>2. LandedP(p)' /\ TaskLanded(task[Boot])'
      BY <1>1, <1>2, <1>3, <1>4, <2>1, MoveToCommitted, IdleLanded
    <2>. QED
      BY <1>1, <1>2, <2>2, LandStep
  <1>5. CASE UNCHANGED dir /\ task'[Boot].pc = "enter"
    <2>1. LandedP(p)'
      BY <1>1, <1>5, StillLanded
    <2>2. TaskLanded(task[Boot])'
      BY <1>1, <1>5 DEF TaskLanded, Landing
    <2>. QED
      BY <1>1, <1>2, <2>1, <2>2, LandStep
  <1>. QED
    BY <1>1, <1>4, <1>5

(* A stop of the process keeps what has landed.                            *)
LEMMA StopLand ==
    ASSUME Formed, LandOK, RecoveryFails \/ Crash \/ Restart \/ RecoverDone PROVE LandOK'
  <1>1. UNCHANGED <<dir, log, head>> /\ \A t \in AllTasks : task'[t] = Idle
    <2>1. CASE RecoveryFails \/ Crash
      BY <2>1, StopEffect
    <2>2. CASE Restart \/ RecoverDone
      BY <2>2, AllAtRest DEF Restart, RecoverDone, disk, Formed, BootOK
    <2>. QED
      BY <2>1, <2>2
  <1>. QED
    BY <1>1, StillLanded, IdleLanded DEF LandOK

(* A step that touches nothing of this keeps what has landed.              *)
LEMMA QuietLand == ASSUME LandOK, UNCHANGED vars PROVE LandOK'
  BY LandingStays DEF vars, LandOK, LandedP, TaskLanded, Landing, Overlay, Claimed

(* The environment in which publishing is atomic to the outside: git may
   fail before its commit, the process may stop, nothing else goes wrong.  *)
LifecycleEnv == Env \subseteq {"git_fails"}

(* The invariants of the store that landing rests on.                      *)
Publishable == Formed /\ Placed /\ ClaimOK /\ PublishOK

(* Every step keeps what has landed.                                       *)
LEMMA StepLand ==
    ASSUME Publishable, LandOK, LifecycleEnv, [Next]_vars PROVE LandOK'
  <1>0. Formed /\ Placed /\ ClaimOK /\ PublishOK /\ "same_proposal" \notin Env /\ "late_fails" \notin Env
    BY DEF Publishable, LifecycleEnv
  <1>1. CASE UNCHANGED vars
    BY <1>1, QuietLand
  <1>2. ASSUME NEW p \in Proposals, Create(p) \/ Demote(p) PROVE LandOK'
    BY <1>0, <1>2, CreateLand, DemoteLand
  <1>3. ASSUME NEW t \in Tasks, NEW p \in Proposals, Request(t, p) PROVE LandOK'
    BY <1>0, <1>3, RequestLand
  <1>4. ASSUME NEW t \in AllTasks, Progress(t) \/ GitFails(t) \/ FinalizeFails(t) PROVE LandOK'
    <2>1. CASE Pipeline(t) /\ ~AbsorbCommit(t)
      BY <1>0, <2>1, PipelineLand
    <2>2. CASE AbsorbCommit(t)
      BY <1>0, <2>2, CommitLand
    <2>3. CASE \/ WriteContent(t) \/ WriteAnswer(t) \/ WriteClaim(t) \/ WriteMeta(t)
               \/ Rename(t) \/ Rollback(t)
      BY <1>0, <2>3, WriteContentLand, AnswerLand, WriteMetaLand, RenameLand, RollbackLand
    <2>. QED
      BY <1>4, <2>1, <2>2, <2>3 DEF Progress, Pipeline
  <1>5. CASE Recovery \/ Crash
    BY <1>0, <1>5, DiscardPendingLand, RecoverNextLand, StopLand DEF Recovery
  <1>. QED
    BY <1>1, <1>2, <1>3, <1>4, <1>5 DEF Next

(* At the start nothing has landed.                                        *)
LEMMA InitLand == Init => LandOK
  <1> SUFFICES ASSUME Init PROVE LandOK
    OBVIOUS
  <1>1. \A p : LandingOf(p) = {}
    BY DEF Init, LandingOf
  <1>2. \A p \in Proposals : LandedP(p)
    BY <1>1, StatusesAre DEF Init, LandedP, NoDir
  <1>3. \A t \in AllTasks : TaskLanded(task[t])
    BY <1>1, IdleIs DEF Init, TaskLanded, Landing
  <1>. QED
    BY <1>2, <1>3 DEF LandOK

-----------------------------------------------------------------------------

(***************************************************************************)
(* The refinement.  View says what the lifecycle sees of a proposal, given *)
(* where it lies and whether it landed.                                    *)
(***************************************************************************)
View(p) ==
  /\ LandingOf(p) # {} => FateOf(p) = "landed" /\ \A i \in LandingOf(p) : StagedOf(p) = log[i].work
  /\ LandingOf(p) = {} =>
       /\ writer[p] = "none" => FateOf(p) = "none" /\ StagedOf(p) = {}
       /\ \A st \in ActiveStatuses :
            dir[p][st].there => FateOf(p) = "open" /\ StagedOf(p) = dir[p][st].work
       /\ writer[p] # "none" /\ (\A st \in ActiveStatuses : ~dir[p][st].there)
            => FateOf(p) = "dropped" /\ StagedOf(p) = {}

(* The lifecycle sees every proposal as its place and its landing say.     *)
Views == \A p \in Proposals : View(p)

(* That follows from the invariants.                                       *)
LEMMA ViewsHold == Placed /\ LandOK => Views
  <1> SUFFICES ASSUME Placed, LandOK, NEW p \in Proposals PROVE View(p)
    BY DEF Views
  <1>1. PlaceOK(p) /\ LandedP(p)
    BY DEF Placed, DirOK, LandOK
  <1>2. CASE LandingOf(p) # {}
    <2>1. (CHOOSE i \in LandingOf(p) : TRUE) \in LandingOf(p)
      BY <1>2
    <2>. QED
      BY <1>1, <1>2, <2>1 DEF View, FateOf, StagedOf, LandedP
  <1>3. CASE LandingOf(p) = {}
    <2>1. writer[p] = "none" => FateOf(p) = "none" /\ StagedOf(p) = {}
      BY <1>3 DEF FateOf, StagedOf
    <2>2. ASSUME NEW st \in ActiveStatuses, dir[p][st].there
          PROVE  FateOf(p) = "open" /\ StagedOf(p) = dir[p][st].work
      <3>1. Locate(p) = st /\ writer[p] # "none"
        BY <1>1, <2>2, Located, StatusesAre DEF PlaceOK, ActiveStatuses
      <3>. QED
        BY <1>3, <2>2, <3>1 DEF FateOf, StagedOf
    <2>3. ASSUME writer[p] # "none", \A st \in ActiveStatuses : ~dir[p][st].there
          PROVE  FateOf(p) = "dropped" /\ StagedOf(p) = {}
      <3>1. Locate(p) \notin ActiveStatuses
        BY <1>1, <2>3, Located DEF ActiveStatuses, Missing
      <3>. QED
        BY <1>3, <2>3, <3>1 DEF FateOf, StagedOf
    <2>. QED
      BY <1>3, <2>1, <2>2, <2>3 DEF View
  <1>. QED
    BY <1>2, <1>3

(* The same after a step.                                                  *)
LEMMA ViewsHoldNext == Placed' /\ LandOK' => Views'
  BY ViewsHold, PTL

(* The lifecycle sees no change of p.                                      *)
Same(p) == FateOf(p)' = FateOf(p) /\ StagedOf(p)' = StagedOf(p)

(* A step of the lifecycle or none.                                        *)
LifecycleStep == [Lifecycle!LifecycleNext]_(Lifecycle!lifecycleVars)

(* Steps the lifecycle does not see, and each of those that it does.       *)
LEMMA Unseen ==
    ASSUME \A q \in Proposals : Same(q), UNCHANGED head PROVE LifecycleStep
  BY DEF Same, LifecycleStep, Lifecycle!lifecycleVars

(* A proposal opens.                                                       *)
LEMMA Opens ==
    ASSUME NEW p \in Proposals, \A q \in Proposals \ {p} : Same(q), UNCHANGED head,
           FateOf(p) = "none", FateOf(p)' = "open", StagedOf(p)' = StagedOf(p)
    PROVE  LifecycleStep
  <1>1. Lifecycle!Open(p)
    BY DEF Same, Lifecycle!Open
  <1>. QED
    BY <1>1 DEF LifecycleStep, Lifecycle!LifecycleNext

(* A write joins what a proposal stages.                                   *)
LEMMA Stages ==
    ASSUME NEW p \in Proposals, \A q \in Proposals \ {p} : Same(q), UNCHANGED head,
           FateOf(p) = "open", FateOf(p)' = "open", NEW n \in 1 .. MaxWrites, NEW s \in Sections,
           StagedOf(p)' = StagedOf(p) \cup {[n |-> n, sec |-> s]}
    PROVE  LifecycleStep
  <1>1. Lifecycle!Stage(p)
    BY DEF Same, Lifecycle!Stage
  <1>. QED
    BY <1>1 DEF LifecycleStep, Lifecycle!LifecycleNext

(* An author empties a draft.                                              *)
LEMMA Empties ==
    ASSUME NEW p \in Proposals, \A q \in Proposals \ {p} : Same(q), UNCHANGED head,
           FateOf(p) = "open", FateOf(p)' = "open", StagedOf(p)' = {}
    PROVE  LifecycleStep
  <1>1. Lifecycle!Empty(p)
    BY DEF Same, Lifecycle!Empty
  <1>. QED
    BY <1>1 DEF LifecycleStep, Lifecycle!LifecycleNext

(* A proposal is dropped with all it staged.                               *)
LEMMA Drops ==
    ASSUME NEW p \in Proposals, \A q \in Proposals \ {p} : Same(q), UNCHANGED head,
           FateOf(p) = "open", FateOf(p)' = "dropped", StagedOf(p)' = {}
    PROVE  LifecycleStep
  <1>1. Lifecycle!Drop(p)
    BY DEF Same, Lifecycle!Drop
  <1>. QED
    BY <1>1 DEF LifecycleStep, Lifecycle!LifecycleNext

(* A proposal lands whole: HEAD takes all it staged.                       *)
LEMMA Lands ==
    ASSUME NEW p \in Proposals, \A q \in Proposals \ {p} : Same(q),
           FateOf(p) = "open", FateOf(p)' = "landed", StagedOf(p)' = StagedOf(p),
           head' = Lifecycle!Overlaid(head, StagedOf(p))
    PROVE  LifecycleStep
  <1>1. Lifecycle!Land(p)
    BY DEF Same, Lifecycle!Land
  <1>. QED
    BY <1>1 DEF LifecycleStep, Lifecycle!LifecycleNext

(* What the lifecycle sees of a proposal follows its files and its commits. *)
LEMMA SameFiles ==
    ASSUME NEW q, dir'[q] = dir[q], writer'[q] = writer[q], LandingOf(q)' = LandingOf(q),
           \A i \in LandingOf(q) : log'[i] = log[i]
    PROVE  Same(q)
  <1>1. Locate(q)' = Locate(q)
    BY DEF Locate
  <1>2. FateOf(q)' = FateOf(q)
    BY <1>1 DEF FateOf
  <1>3. CASE LandingOf(q) = {}
    BY <1>1, <1>2, <1>3 DEF Same, StagedOf
  <1>4. CASE LandingOf(q) # {}
    <2>1. (CHOOSE i \in LandingOf(q) : TRUE) \in LandingOf(q)
      BY <1>4
    <2>. QED
      BY <1>2, <1>4, <2>1 DEF Same, StagedOf
  <1>. QED
    BY <1>3, <1>4

(* Of the other proposals the lifecycle sees no change.                    *)
LEMMA OthersSame ==
    ASSUME NEW t, NEW p, Only(t, p), UNCHANGED log PROVE \A q \in Proposals \ {p} : Same(q)
  <1> SUFFICES ASSUME NEW q \in Proposals, q # p PROVE Same(q)
    OBVIOUS
  <1>1. dir'[q] = dir[q] /\ writer'[q] = writer[q]
    BY DEF Only
  <1>. QED
    BY <1>1, LandingStays, SameFiles

(* A step that changes no file and no commit is not seen.                  *)
LEMMA FilesStay ==
    ASSUME UNCHANGED <<dir, writer, log, head>> PROVE LifecycleStep
  <1>1. \A q \in Proposals : Same(q)
    BY LandingStays, SameFiles
  <1>. QED
    BY <1>1, Unseen

(* A proposal that has not landed and goes from one open directory to
   another with all it holds, or stays where it is.                        *)
LEMMA StaysOpen ==
    ASSUME Views, Views', NEW t, NEW p \in Proposals, Only(t, p), UNCHANGED <<log, head>>,
           NEW st \in ActiveStatuses, NEW su \in ActiveStatuses, LandingOf(p) = {},
           dir[p][st].there, dir'[p][su].there, dir'[p][su].work = dir[p][st].work
    PROVE  LifecycleStep
  <1>1. FateOf(p) = "open" /\ StagedOf(p) = dir[p][st].work
    BY DEF Views, View
  <1>2. LandingOf(p)' = {} /\ View(p)'
    BY LandingStays DEF Views
  <1>3. FateOf(p)' = "open" /\ StagedOf(p)' = dir'[p][su].work
    BY <1>2 DEF View
  <1>. QED
    BY <1>1, <1>3, OthersSame, Unseen DEF Same

(* A proposal that has landed stays landed.                                *)
LEMMA StaysLanded ==
    ASSUME Views, Views', NEW t, NEW p \in Proposals, Only(t, p), UNCHANGED <<log, head>>,
           LandingOf(p) # {}
    PROVE  LifecycleStep
  <1>1. LandingOf(p)' = LandingOf(p) /\ View(p)' /\ View(p)
    BY LandingStays DEF Views
  <1>2. Same(p)
    <2>1. PICK i \in LandingOf(p) : TRUE
      OBVIOUS
    <2>. QED
      BY <1>1, <2>1 DEF Same, View
  <1>. QED
    BY <1>2, OthersSame, Unseen

(* Creating a proposal opens it.                                           *)
LEMMA CreateOpens ==
    ASSUME Formed, Placed, LandOK, Views, Views', LandOK', NEW p \in Proposals, Create(p)
    PROVE  LifecycleStep
  <1>1. PICK st \in {"draft", "pending", "inprogress"} :
          /\ UNCHANGED <<task, log, head>> /\ writer[p] = "none"
          /\ \A q \in Proposals \ {p} : dir'[q] = dir[q] /\ writer'[q] = writer[q]
          /\ dir'[p][st].there /\ dir'[p][st].work = dir[p][st].work
    BY CreateEffect DEF CreateDoes
  <1>2. Only(Boot, p)
    BY <1>1 DEF Only
  <1>3. st \in Statuses /\ st \in ActiveStatuses /\ "committed" \in Statuses /\ "committing" \in Statuses
    BY StatusesAre DEF ActiveStatuses
  <1>4. dir[p][st].work = {} /\ LandingOf(p) = {}
    BY <1>1, <1>3 DEF Placed, DirOK, PlaceOK, LandOK, LandedP, NoDir
  <1>5. FateOf(p) = "none" /\ StagedOf(p) = {}
    BY <1>1, <1>4 DEF Views, View
  <1>6. View(p)' /\ LandingOf(p)' = {}
    BY <1>1, <1>4, LandingStays DEF Views
  <1>7. FateOf(p)' = "open" /\ StagedOf(p)' = {}
    BY <1>1, <1>3, <1>4, <1>6 DEF View
  <1>. QED
    BY <1>1, <1>2, <1>5, <1>7, OthersSame, Opens

(* Demoting one is not seen.                                               *)
LEMMA DemoteUnseen ==
    ASSUME Formed, Placed, LandOK, Views, Views', NEW p \in Proposals, Demote(p)
    PROVE  LifecycleStep
  <1>1. MovesDir(p, "pending", "draft") /\ Only(Boot, p) /\ UNCHANGED <<log, head>>
    BY DemoteEffect DEF Only
  <1>2. dir[p]["pending"].there /\ dir'[p]["draft"] = dir[p]["pending"]
    BY <1>1 DEF MovesDir, CanMove, ShiftsDir
  <1>3. LandingOf(p) = {}
    BY <1>2, NotLanded, StatusesAre DEF Placed, DirOK
  <1>. QED
    BY <1>1, <1>2, <1>3, StaysOpen DEF ActiveStatuses

(* A request that starts may empty its draft, and is not seen otherwise.   *)
LEMMA RequestEmpties ==
    ASSUME Formed, Placed, LandOK, Views, Views', NEW t \in Tasks, NEW p \in Proposals,
           Request(t, p)
    PROVE  LifecycleStep
  <1>1. Only(t, p) /\ UNCHANGED <<writer, log, head>>
    BY StartEffect
  <1>2. CASE UNCHANGED dir
    BY <1>1, <1>2, FilesStay
  <1>3. CASE Declare(t, p) /\ dir'[p]["draft"].work = {}
    <2>1. /\ dir[p]["draft"].there /\ dir'[p]["draft"].there
          /\ "draft" \in Statuses /\ "draft" \in ActiveStatuses
      BY <1>3, DeclareEffect, Located, StatusesAre DEF Placed, DirOK, Missing, ActiveStatuses
    <2>2. LandingOf(p) = {}
      BY <2>1, NotLanded DEF Placed, DirOK
    <2>3. FateOf(p) = "open"
      BY <2>1, <2>2 DEF Views, View
    <2>4. View(p)' /\ LandingOf(p)' = {}
      BY <1>1, <2>2, LandingStays DEF Views
    <2>5. FateOf(p)' = "open" /\ StagedOf(p)' = {}
      BY <1>3, <2>1, <2>4 DEF View
    <2>. QED
      BY <1>1, <2>3, <2>5, OthersSame, Empties
  <1>. QED
    BY <1>2, <1>3, DeclareEffect, WriteStartEffect, AcquireStartEffect, WithdrawStartEffect,
       CommitStartEffect DEF Request

(* Writing the content file stages the write.                              *)
LEMMA WriteStages ==
    ASSUME Formed, Placed, LandOK, Views, Views', NEW t \in AllTasks, WriteContent(t)
    PROVE  LifecycleStep
  <1>1. PICK p, st, n, s, pc : p = task[t].p /\ st = task[t].from /\ n = task[t].w /\ s = task[t].sec
                      /\ pc = IF writer[p] = "human" /\ st # "pending" THEN "answer" ELSE "claim"
    OBVIOUS
  <1>2. /\ task[t].pc = "content" /\ p \in Proposals /\ st \in Statuses
        /\ Only(t, p) /\ UNCHANGED <<log, head>>
        /\ dir'[p][st].there
        /\ dir'[p][st].work = dir[p][st].work \cup {[n |-> n, sec |-> s]}
    BY <1>1, WriteContentEffect DEF Only, TasksOnly
  <1>3. PlaceOK(p) /\ dir[p][st].there /\ st \in OpenStatuses
    BY <1>1, <1>2, PlacedTask DEF TaskPlaced
  <1>4. n \in 1 .. MaxWrites /\ s \in Sections
    BY <1>1, <1>2, TaskIs, StoreAssumption DEF TaskFormed, TaskType
  <1>5. LandingOf(p) = {} /\ st \in ActiveStatuses
    BY <1>2, <1>3, NotLanded DEF OpenStatuses, ActiveStatuses
  <1>6. FateOf(p) = "open" /\ StagedOf(p) = dir[p][st].work
    BY <1>2, <1>3, <1>5 DEF Views, View
  <1>7. View(p)' /\ LandingOf(p)' = {}
    BY <1>2, <1>5, LandingStays DEF Views
  <1>8. FateOf(p)' = "open" /\ StagedOf(p)' = dir'[p][st].work
    BY <1>2, <1>5, <1>7 DEF View
  <1>. QED
    BY <1>2, <1>4, <1>6, <1>8, OthersSame, Stages

(* Writing meta.json is not seen.                                          *)
LEMMA WriteMetaUnseen ==
    ASSUME Formed, Placed, LandOK, Views, Views', NEW t \in AllTasks, WriteMeta(t)
    PROVE  LifecycleStep
  <1>1. PICK p, st : p = task[t].p /\ st = task[t].from
    OBVIOUS
  <1>2. /\ task[t].pc = "meta" /\ p \in Proposals /\ st \in Statuses
        /\ Only(t, p) /\ UNCHANGED <<log, head>>
        /\ dir'[p][st].there /\ dir'[p][st].work = dir[p][st].work
    BY <1>1, WriteMetaEffect DEF Only
  <1>3. dir[p][st].there /\ TaskPlaced(task[t])
    BY <1>1, <1>2, PlacedTask DEF TaskPlaced
  <1>4. st \in ActiveStatuses
    BY <1>1, <1>2, <1>3 DEF TaskPlaced, OpenStatuses, ActiveStatuses
  <1>. QED
    BY <1>2, <1>3, <1>4, StaysOpen, StaysLanded

(* A rename to withdrawn drops the proposal; any other is not seen.        *)
LEMMA RenameDrops ==
    ASSUME Formed, Placed, LandOK, Placed', Views, Views', NEW t \in AllTasks, Rename(t)
    PROVE  LifecycleStep
  <1>1. PICK p, st, su : p = task[t].p /\ st = task[t].from /\ su = task[t].to
    OBVIOUS
  <1>2. /\ MovesDir(p, st, su) /\ st \in Statuses /\ su \in Statuses
        /\ Only(t, p) /\ UNCHANGED <<writer, log, head>> /\ task[t].pc = "rename" /\ p \in Proposals
    BY <1>1, RenameFits, RenameEffect DEF Only, MovesDir
  <1>3. /\ PlaceOK(p) /\ TaskPlaced(task[t]) /\ TaskLanded(task[t]) /\ PlaceOK(p)'
        /\ dir[p][st].there /\ dir'[p][su] = dir[p][st]
    BY <1>1, <1>2, PlacedTask DEF LandOK, MovesDir, CanMove, ShiftsDir, Placed, DirOK
  <1>4. CASE su = "committed"
    <2>1. LandingOf(p) # {}
      BY <1>1, <1>2, <1>3, <1>4 DEF TaskLanded, Landing
    <2>. QED
      BY <1>2, <2>1, StaysLanded
  <1>5. CASE su # "committed"
    <2>1. st \in OpenStatuses /\ st \in ActiveStatuses /\ su \in {"withdrawn", "committing", "inprogress"}
      BY <1>1, <1>2, <1>3, <1>5 DEF TaskPlaced, OpenStatuses, ActiveStatuses
    <2>2. LandingOf(p) = {}
      BY <1>2, <1>3, <2>1, NotLanded DEF OpenStatuses
    <2>3. CASE su = "withdrawn"
      <3>1. FateOf(p) = "open" /\ writer[p] # "none"
        BY <1>2, <1>3, <2>1, <2>2 DEF Views, View, PlaceOK
      <3>2. \A sv \in ActiveStatuses : ~dir'[p][sv].there
        BY <1>2, <1>3, <2>3, StatusesAre DEF PlaceOK, ActiveStatuses
      <3>3. View(p)' /\ LandingOf(p)' = {}
        BY <1>2, <2>2, LandingStays DEF Views
      <3>4. FateOf(p)' = "dropped" /\ StagedOf(p)' = {}
        BY <1>2, <3>1, <3>2, <3>3 DEF View
      <3>. QED
        BY <1>2, <3>1, <3>4, OthersSame, Drops
    <2>4. CASE su \in {"committing", "inprogress"}
      BY <1>2, <1>3, <2>1, <2>2, <2>4, StaysOpen DEF ActiveStatuses
    <2>. QED
      BY <2>1, <2>3, <2>4
  <1>. QED
    BY <1>4, <1>5

(* The commit is the landing, or repeats it and changes nothing.           *)
LEMMA CommitLands ==
    ASSUME Formed, Placed, PublishOK, LandOK, Views, Views', NEW t \in AllTasks, AbsorbCommit(t)
    PROVE  LifecycleStep
  <1>1. PICK p, i : p = task[t].p /\ i = Len(log) + 1
    OBVIOUS
  <1>2. /\ task[t].pc = "copy" /\ head' = tree /\ StaleSections(p) = {} /\ p \in Proposals
        /\ UNCHANGED <<writer, dir>>
        /\ tree \in [Sections -> 0 .. MaxWrites] /\ head \in [Sections -> 0 .. MaxWrites]
    BY <1>1, TaskIs DEF AbsorbCommit, DiskTyped
  <1>3. /\ LandingOf(p)' = LandingOf(p) \cup {i} /\ log'[i].work = Overlay(p)
        /\ \A q : q # p => LandingOf(q)' = LandingOf(q)
        /\ \A j \in DOMAIN log : log'[j] = log[j]
    BY <1>1, CommitAppends
  <1>4. \A q \in Proposals \ {p} : Same(q)
    <2> SUFFICES ASSUME NEW q \in Proposals, q # p PROVE Same(q)
      OBVIOUS
    <2>1. dir'[q] = dir[q] /\ writer'[q] = writer[q]
      BY <1>2
    <2>2. LandingOf(q)' = LandingOf(q) /\ \A j \in LandingOf(q) : log'[j] = log[j]
      BY <1>3 DEF LandingOf
    <2>. QED
      BY <2>1, <2>2, SameFiles
  <1>5. PlaceOK(p) /\ dir[p]["committing"].there /\ LandedP(p) /\ ~dir[p]["committed"].there
    <2>1. PlaceOK(p) /\ TaskPlaced(task[t])
      BY <1>1, <1>2, PlacedTask
    <2>2. dir[p]["committing"].there
      BY <1>1, <1>2, <2>1 DEF TaskPlaced, Publishing
    <2>3. ~dir[p]["committed"].there
      BY <2>1, <2>2, StatusesAre DEF PlaceOK
    <2>. QED
      BY <1>2, <2>1, <2>2, <2>3 DEF LandOK
  <1>6. FateOf(p)' = "landed" /\ StagedOf(p)' = Overlay(p)
    <2>1. View(p)' /\ i \in LandingOf(p)'
      BY <1>2, <1>3 DEF Views
    <2>. QED
      BY <1>3, <2>1 DEF View
  <1>7. \A s \in Sections : tree[s] # head[s] => s \in SectionsOf(Overlay(p))
    BY <1>1, <1>2, CopierDirt DEF DirtyFrom
  <1>8. \A s \in SectionsOf(Overlay(p)) : tree[s] = NewestOf(Overlay(p), s)
    BY <1>2 DEF StaleSections
  <1>9. CASE LandingOf(p) = {}
    <2>1. FateOf(p) = "open" /\ StagedOf(p) = Overlay(p)
      BY <1>2, <1>5, <1>9 DEF Views, View, ActiveStatuses, Overlay
    <2>2. head' = Lifecycle!Overlaid(head, Overlay(p))
      <3>1. ASSUME NEW s \in Sections
            PROVE  tree[s] = IF \E w \in Overlay(p) : w.sec = s THEN NewestOf(Overlay(p), s) ELSE head[s]
        BY <1>7, <1>8 DEF SectionsOf
      <3>2. Lifecycle!Overlaid(head, Overlay(p))
              = [s \in Sections |->
                   IF \E w \in Overlay(p) : w.sec = s THEN NewestOf(Overlay(p), s) ELSE head[s]]
        BY DEF Lifecycle!Overlaid, NewestOf
      <3>. QED
        BY <1>2, <3>1, <3>2
    <2>. QED
      BY <1>2, <1>4, <1>6, <2>1, <2>2, Lands
  <1>10. CASE LandingOf(p) # {}
    <2>1. FateOf(p) = "landed" /\ StagedOf(p) = Overlay(p)
      BY <1>2, <1>5, <1>10 DEF Views, View, LandedP
    <2>2. \A s \in Sections : tree[s] = head[s]
      BY <1>5, <1>7, <1>8, <1>10 DEF LandedP
    <2>3. UNCHANGED head
      BY <1>2, <2>2
    <2>4. \A q \in Proposals : Same(q)
      BY <1>4, <1>6, <2>1 DEF Same
    <2>. QED
      BY <2>3, <2>4, Unseen
  <1>. QED
    BY <1>9, <1>10

(* Taking a publish back is not seen: nothing had landed.                  *)
LEMMA RollbackUnseen ==
    ASSUME Formed, Placed, PublishOK, LandOK, Views, Views', NEW t \in AllTasks, Rollback(t)
    PROVE  LifecycleStep
  <1>1. PICK p : p = task[t].p
    OBVIOUS
  <1>2. /\ task[t].pc = "rollback" /\ t # Boot /\ Only(t, p) /\ p \in Proposals
        /\ UNCHANGED <<writer, log, head>>
        /\ MovesDir(p, "committing", RollbackTo(p)) \/ UNCHANGED dir
    BY <1>1, RollbackEffect DEF Only
  <1>3. LandingOf(p) = {}
    BY <1>1, <1>2, Whose DEF LandOK, TaskLanded
  <1>4. CASE MovesDir(p, "committing", RollbackTo(p))
    <2>1. /\ dir[p]["committing"].there /\ dir'[p][RollbackTo(p)] = dir[p]["committing"]
          /\ RollbackTo(p) \in ActiveStatuses /\ "committing" \in ActiveStatuses
      BY <1>4 DEF MovesDir, CanMove, ShiftsDir, RollbackTo, ActiveStatuses
    <2>. QED
      BY <1>2, <1>3, <2>1, StaysOpen
  <1>5. CASE UNCHANGED dir
    BY <1>2, <1>5, FilesStay
  <1>. QED
    BY <1>2, <1>4, <1>5

(* Discarding a pending proposal drops it.                                 *)
LEMMA DiscardDrops ==
    ASSUME Formed, Placed, LandOK, Views, Views', NEW p \in Proposals, DiscardPending(p)
    PROVE  LifecycleStep
  <1>1. /\ Only(Boot, p) /\ UNCHANGED <<writer, log, head>>
        /\ dir'[p]["pending"] = NoDir /\ \A su \in Statuses \ {"pending"} : dir'[p][su] = dir[p][su]
    BY DiscardPendingEffect DEF Only
  <1>2. PlaceOK(p) /\ dir[p]["pending"].there /\ "pending" \in Statuses
    BY StatusesAre DEF Placed, DirOK, DiscardPending, Pending
  <1>3. LandingOf(p) = {} /\ writer[p] # "none"
    BY <1>2, NotLanded DEF PlaceOK
  <1>4. FateOf(p) = "open"
    BY <1>2, <1>3 DEF Views, View, ActiveStatuses
  <1>5. View(p)' /\ LandingOf(p)' = {}
    BY <1>1, <1>3, LandingStays DEF Views
  <1>6. \A st \in ActiveStatuses : ~dir'[p][st].there
    BY <1>1, <1>2, StatusesAre DEF PlaceOK, ActiveStatuses, NoDir
  <1>7. FateOf(p)' = "dropped" /\ StagedOf(p)' = {}
    BY <1>1, <1>3, <1>5, <1>6 DEF View
  <1>. QED
    BY <1>1, <1>4, <1>7, OthersSame, Drops

(* Recovery finishes what has landed, or publishes what has not: not seen
   before its commit.                                                      *)
LEMMA RecoverUnseen ==
    ASSUME Formed, Placed, LandOK, Views, Views', RecoverNext PROVE LifecycleStep
  <1>1. PICK p \in ToRecover :
          /\ \A t \in AllTasks : task[t] = Idle
          /\ p \in Proposals
          /\ UNCHANGED <<writer, log, head>>
          /\ \A q \in Proposals \ {p} : dir'[q] = dir[q]
          /\ \A u \in AllTasks \ {Boot} : task'[u] = task[u]
          /\ dir[p]["committing"].landed \/ UNCHANGED dir
    BY RecoverNextEffect
  <1>2. Only(Boot, p)
    BY <1>1 DEF Only
  <1>3. CASE dir[p]["committing"].landed
    <2>1. LandingOf(p) # {}
      BY <1>1, <1>3, StatusesAre DEF LandOK, LandedP
    <2>. QED
      BY <1>1, <1>2, <2>1, StaysLanded
  <1>4. CASE UNCHANGED dir
    BY <1>1, <1>4, FilesStay
  <1>. QED
    BY <1>1, <1>3, <1>4

(* Every step of the store is a step of the lifecycle or none.             *)
LEMMA StepImplements ==
    ASSUME Publishable, LandOK, Publishable', LandOK', LifecycleEnv, [Next]_vars PROVE LifecycleStep
  <1>1. /\ Formed /\ Placed /\ PublishOK /\ Placed'
        /\ "late_fails" \notin Env
    BY DEF Publishable, LifecycleEnv
  <1>2. Views /\ Views'
    BY <1>1, ViewsHold, ViewsHoldNext
  <1>3. CASE UNCHANGED vars
    BY <1>3, FilesStay DEF vars
  <1>4. ASSUME NEW p \in Proposals, Create(p) \/ Demote(p) PROVE LifecycleStep
    BY <1>1, <1>2, <1>4, CreateOpens, DemoteUnseen
  <1>5. ASSUME NEW t \in Tasks, NEW p \in Proposals, Request(t, p) PROVE LifecycleStep
    BY <1>1, <1>2, <1>5, RequestEmpties
  <1>6. ASSUME NEW t \in AllTasks, Progress(t) \/ GitFails(t) \/ FinalizeFails(t) PROVE LifecycleStep
    <2>1. CASE Pipeline(t) /\ ~AbsorbCommit(t)
      <3>1. UNCHANGED <<dir, writer, log, head>>
        BY <2>1 DEF Pipeline, AbsorbEnter, AbsorbStart, AbsorbCopy, AbsorbDone, Finalize, GitFails,
           FinalizeFails, disk
      <3>. QED
        BY <3>1, FilesStay
    <2>2. CASE AbsorbCommit(t)
      BY <1>1, <1>2, <2>2, CommitLands
    <2>3. CASE WriteAnswer(t) \/ WriteClaim(t)
      BY <2>3, FilesStay DEF WriteAnswer, WriteClaim, disk
    <2>4. CASE WriteContent(t) \/ WriteMeta(t) \/ Rename(t) \/ Rollback(t)
      BY <1>1, <1>2, <2>4, WriteStages, WriteMetaUnseen, RenameDrops, RollbackUnseen
    <2>. QED
      BY <1>6, <2>1, <2>2, <2>3, <2>4 DEF Progress, Pipeline
  <1>7. ASSUME NEW p \in Proposals, DiscardPending(p) PROVE LifecycleStep
    BY <1>1, <1>2, <1>7, DiscardDrops
  <1>8. CASE RecoverNext
    BY <1>1, <1>2, <1>8, RecoverUnseen
  <1>9. CASE Restart \/ RecoverDone \/ RecoveryFails \/ Crash
    BY <1>9, FilesStay DEF Restart, RecoverDone, RecoveryFails, Crash, disk
  <1>. QED
    BY <1>3, <1>4, <1>5, <1>6, <1>7, <1>8, <1>9 DEF Next, Recovery

(* The store starts as the lifecycle does.                                 *)
LEMMA InitImplements == Init => Lifecycle!LifecycleInit
  <1> SUFFICES ASSUME Init PROVE Lifecycle!LifecycleInit
    OBVIOUS
  <1>1. Placed /\ LandOK
    BY InitPlaced, InitLand
  <1>2. Views
    BY <1>1, ViewsHold
  <1>3. \A p \in Proposals : FateOf(p) = "none" /\ StagedOf(p) = {}
    BY <1>2 DEF Views, View, Init, LandingOf
  <1>4. head = [s \in Sections |-> 0]
    BY DEF Init
  <1>. QED
    BY <1>3, <1>4 DEF Lifecycle!LifecycleInit

(* The store implements the lifecycle: one landing, whole, or none at all.  *)
THEOREM StoreImplementsLifecycle ==
    ASSUME LifecycleEnv PROVE Spec => ImplementsLifecycle
<1>1. "same_proposal" \notin Env /\ {"same_proposal", "same_moment"} \cap Env = {} /\ PublishEnv
  BY DEF LifecycleEnv, PublishEnv
<1>2. Init => Publishable /\ LandOK
  BY InitFormed, InitPlaced, InitClaims, InitPublish, InitLand DEF Publishable
<1>3. Publishable /\ [Next]_vars => Publishable'
  BY <1>1, StepFormed, StepPlaced, StepClaims, StepPublish DEF Publishable
<1>4. Publishable /\ LandOK /\ [Next]_vars => LandOK'
  BY StepLand
<1>5. Publishable /\ LandOK /\ Publishable' /\ LandOK' /\ [Next]_vars
        => [Lifecycle!LifecycleNext]_(Lifecycle!lifecycleVars)
  BY StepImplements DEF LifecycleStep
<1>. QED
  BY <1>2, <1>3, <1>4, <1>5, InitImplements, PTL
     DEF Spec, ImplementsLifecycle, Lifecycle!LifecycleSpec

=============================================================================
