------------------------------ MODULE GitBackup ------------------------------
(***************************************************************************)
(* Backup of the data repository to a git remote, and restore from it.     *)
(*                                                                         *)
(* Servers that share one remote (an old host and its replacement) each    *)
(* have a content history, content/ on disk, auth/ on disk, a ref with the *)
(* last auth snapshot and proposals not yet published.  An admin request   *)
(* checks its conditions, takes the process-wide lockdown (a FIFO chain),  *)
(* then the mutex of the git index (another one, shared with the publishes *)
(* of module ProposalStore), and runs its git commands one at a time.      *)
(*                                                                         *)
(* Sources: backend backup/operation-lockdown.ts, git-backup-service.ts,   *)
(* git-backup-git.ts, quiet-state.ts, storage/data-repo-index-mutex.ts,    *)
(* storage/canonical-store.ts, startup-state.ts, server.ts.                *)
(***************************************************************************)
EXTENDS Integers, FiniteSets, SequencesExt

CONSTANTS Servers, First,  \* First is the server with a history, the others are virgin
          MaxOps,          \* bound: admin requests
          MaxCommits,      \* bound: content commits
          MaxWrites,       \* bound: requests that write, and edits
          MaxFaults,       \* bound: occurrences of what Env allows
          Env

(***************************************************************************)
(* Env: "git_fails"   a git command or the network fails                   *)
(*      "answer_lost" the remote takes a push and its answer is lost       *)
(*      "checkout_fails"  a restore fails after it has moved HEAD          *)
(*      "crash"       a process stops; it may be started again             *)
(*      "disk_lost"   a host is replaced by an empty one                   *)
(*      "late_write"  a request that passed the readiness gate writes      *)
(*                    during a lockdown                                    *)
(***************************************************************************)
EnvFlags == {"git_fails", "answer_lost", "checkout_fails", "crash", "disk_lost", "late_write"}

ASSUME BackupAssumption ==
  /\ IsFiniteSet(Servers) /\ First \in Servers
  /\ {MaxOps, MaxCommits, MaxWrites, MaxFaults} \subseteq Nat
  /\ MaxWrites > 0  \* First has been written to
  /\ Env \subseteq EnvFlags

Ops == 1 .. MaxOps
Absorb == 0        \* the publish that holds or wants the git index

VARIABLES
  srv,     \* [Servers -> the data directory and the process on it]
  op,      \* [Ops -> an admin request: kind, server, next step, what it read]
  remote,  \* the remote's two refs: content and auth, as histories
  nCommits, nWrites, nFaults

vars == <<srv, op, remote, nCommits, nWrites, nFaults>>

\* head, content: the history of the branch, and the commit content/ shows.
\* auth: the version of the files under auth/, 0 if there are none.
\* authRef, parent: the local refs auth/main and backup-parent/auth/main.
\* active: proposals neither committed nor withdrawn; committing: one of them
\* is being absorbed.  Of the process: its readiness gate, the two FIFO
\* mutexes, requests past the gate, and the last_successful_backup record.
Virgin == [head |-> <<>>, content |-> <<>>, auth |-> 0, authRef |-> <<>>, parent |-> <<>>,
           active |-> 0, committing |-> FALSE,
           up |-> TRUE, ready |-> TRUE, lockdown |-> <<>>, index |-> <<>>, inFlight |-> {},
           last |-> <<>>]

\* A process that ends leaves its data directory and nothing else.
Stopped(d) == [d EXCEPT !.up = FALSE, !.ready = FALSE, !.lockdown = <<>>, !.index = <<>>,
                        !.inFlight = {}, !.last = <<>>]

NoOp == [kind |-> "none", at |-> First, pc |-> "unused", tip |-> <<>>,
         got |-> [content |-> <<>>, auth |-> <<>>]]

Init ==
  /\ srv = [i \in Servers |->
              IF i = First THEN [Virgin EXCEPT !.head = <<1>>, !.content = <<1>>, !.auth = 1]
              ELSE Virgin]
  /\ op = [o \in Ops |-> NoOp]
  /\ remote = [content |-> <<>>, auth |-> <<>>]
  /\ nCommits = 1 /\ nWrites = 1 /\ nFaults = 0

(***************************************************************************)
(* Writers                                                                 *)
(***************************************************************************)

\* A request, or an edit of a live session, passes the readiness gate.
RequestArrives(i, kind) ==
  /\ srv[i].up /\ srv[i].ready /\ nWrites < MaxWrites
  /\ kind \notin srv[i].inFlight
  /\ srv' = [srv EXCEPT ![i].inFlight = @ \cup {kind}]
  /\ nWrites' = nWrites + 1
  /\ UNCHANGED <<op, remote, nCommits, nFaults>>

Unfenced(i) == srv[i].ready \/ "late_write" \in Env

\* A proposal directory appears: createProposal, or a materialized edit.
Propose(i) ==
  /\ "propose" \in srv[i].inFlight /\ Unfenced(i)
  /\ srv' = [srv EXCEPT ![i].inFlight = @ \ {"propose"}, ![i].active = @ + 1]
  /\ UNCHANGED <<op, remote, nCommits, nWrites, nFaults>>

\* A user, a key or an ACL is written under auth/.
WriteAuth(i) ==
  /\ "auth" \in srv[i].inFlight /\ Unfenced(i)
  /\ srv' = [srv EXCEPT ![i].inFlight = @ \ {"auth"}, ![i].auth = nWrites]
  /\ UNCHANGED <<op, remote, nCommits, nWrites, nFaults>>

\* A publish queues for the index; the session's lane asks no gate.
PublishBegins(i) ==
  /\ srv[i].up /\ srv[i].active > 0 /\ ~srv[i].committing
  /\ nCommits < MaxCommits
  /\ srv' = [srv EXCEPT ![i].committing = TRUE, ![i].index = Append(@, Absorb)]
  /\ UNCHANGED <<op, remote, nCommits, nWrites, nFaults>>

Indexed(i, who) == srv[i].index # <<>> /\ Head(srv[i].index) = who

\* absorbChangedSections rewrites content/ ...
AbsorbWrites(i) ==
  /\ Indexed(i, Absorb) /\ srv[i].content = srv[i].head
  /\ srv' = [srv EXCEPT ![i].content = Append(srv[i].head, nCommits + 1)]
  /\ nCommits' = nCommits + 1
  /\ UNCHANGED <<op, remote, nWrites, nFaults>>

\* ... and commits.
AbsorbCommits(i) ==
  /\ Indexed(i, Absorb) /\ srv[i].content # srv[i].head
  /\ srv' = [srv EXCEPT ![i].head = srv[i].content, ![i].active = @ - 1,
                        ![i].committing = FALSE, ![i].index = Tail(@)]
  /\ UNCHANGED <<op, remote, nCommits, nWrites, nFaults>>

(***************************************************************************)
(* Admin requests: past the gate, then the check, then the lockdown        *)
(***************************************************************************)
AdminAsks(o, i, kind) ==
  /\ op[o].pc = "unused" /\ \A p \in 1 .. o - 1 : op[p].pc # "unused"
  /\ srv[i].up /\ srv[i].ready
  /\ op' = [op EXCEPT ![o] = [NoOp EXCEPT !.kind = kind, !.at = i, !.pc = "check"]]
  /\ UNCHANGED <<srv, remote, nCommits, nWrites, nFaults>>

\* reportQuietState
QuietState(i) == srv[i].active = 0

\* getGitRestoreStatus
TargetVirgin(i) == srv[i].head = <<>> /\ srv[i].content = <<>> /\ srv[i].auth = 0

Allowed(o) ==
  LET i == op[o].at IN
  IF op[o].kind = "backup" THEN QuietState(i)
  ELSE TargetVirgin(i) /\ remote.content # <<>> /\ remote.auth # <<>>

(***************************************************************************)
(* The check, and withGitBackupLockdown.  Nothing else runs between the    *)
(* last read of the check and the end of the chain.  The first of the      *)
(* chain closes the gate and queues for the index.                         *)
(***************************************************************************)
CheckThenLockdown(o) ==
  /\ op[o].pc = "check"
  /\ IF Allowed(o)
     THEN LET i == op[o].at IN
          /\ srv' = [srv EXCEPT ![i].ready = FALSE, ![i].lockdown = Append(@, o),
                                ![i].index = IF srv[i].lockdown = <<>> THEN Append(@, o) ELSE @]
          /\ op' = [op EXCEPT ![o].pc = "fetch"]
     ELSE op' = [op EXCEPT ![o].pc = "done"] /\ UNCHANGED srv
  /\ UNCHANGED <<remote, nCommits, nWrites, nFaults>>

\* Mutant: the work under the lockdown does not wait for the git index.
AtWithoutIndex(o, kind, pc) == op[o].kind = kind /\ op[o].pc = pc

At(o, kind, pc) == op[o].kind = kind /\ op[o].pc = pc /\ Indexed(op[o].at, o)
Goes(o, pc) == op' = [op EXCEPT ![o].pc = pc]

\* Mutant: no finally, a failure leaves the gate closed.
FenceLeftUp(o, r) == [r EXCEPT !.lockdown = Tail(@), !.index = Tail(@)]

\* The work settles: the index and the chain go to the next, which closes the
\* gate before anything else can run; without a next one the gate opens.
Released(o, r) ==
  LET next == Tail(r.lockdown) IN
  [r EXCEPT !.lockdown = next, !.ready = (next = <<>>),
            !.index = IF next = <<>> THEN Tail(@) ELSE Append(Tail(@), Head(next))]

(***************************************************************************)
(* runQuietStateGitBackup                                                  *)
(***************************************************************************)

\* Mutant: the snapshot is chained on the local ref.
ParentIsLocalRef(o) ==
  /\ At(o, "backup", "fetch")
  /\ srv' = [srv EXCEPT ![op[o].at].parent = srv[op[o].at].authRef]
  /\ op' = [op EXCEPT ![o].pc = "build", ![o].tip = remote.auth]
  /\ UNCHANGED <<remote, nCommits, nWrites, nFaults>>

FetchAuthTip(o) ==
  /\ At(o, "backup", "fetch")
  /\ srv' = [srv EXCEPT ![op[o].at].parent = remote.auth]
  /\ op' = [op EXCEPT ![o].pc = "build", ![o].tip = remote.auth]
  /\ UNCHANGED <<remote, nCommits, nWrites, nFaults>>

\* The snapshot commit holds auth/ as it is now, and moves the local ref
\* before anything is pushed.  head is not in it: it says when it was taken.
\* git add refuses an auth/ without files.
BuildSnapshot(o) ==
  LET i == op[o].at
      snapshot == [op |-> o, auth |-> srv[i].auth, head |-> srv[i].head]
  IN
  /\ At(o, "backup", "build")
  /\ IF srv[i].auth = 0
     THEN srv' = [srv EXCEPT ![i] = Released(o, @)] /\ Goes(o, "done")
     ELSE srv' = [srv EXCEPT ![i].authRef = Append(srv[i].parent, snapshot)] /\ Goes(o, "push")
  /\ UNCHANGED <<remote, nCommits, nWrites, nFaults>>

\* The remote takes both refs or none, and only fast-forwards.
FastForwards(i) ==
  /\ srv[i].head # <<>>
  /\ IsPrefix(remote.content, srv[i].head) /\ IsPrefix(remote.auth, srv[i].authRef)

Pushed(i) == [content |-> srv[i].head, auth |-> srv[i].authRef]

\* Mutant: the record is written before the push.
RecordedFirst(o) ==
  LET i == op[o].at IN
  /\ At(o, "backup", "push")
  /\ srv' = [srv EXCEPT ![i].last = <<Pushed(i)>>]
  /\ IF FastForwards(i) THEN remote' = Pushed(i) ELSE UNCHANGED remote
  /\ Goes(o, "readback")
  /\ UNCHANGED <<nCommits, nWrites, nFaults>>

Push(o) ==
  LET i == op[o].at IN
  /\ At(o, "backup", "push")
  /\ IF FastForwards(i)
     THEN remote' = Pushed(i) /\ Goes(o, "readback") /\ UNCHANGED srv
     ELSE srv' = [srv EXCEPT ![i] = Released(o, @)] /\ Goes(o, "done") /\ UNCHANGED remote
  /\ UNCHANGED <<nCommits, nWrites, nFaults>>

ReadBack(o) ==
  LET i == op[o].at IN
  /\ At(o, "backup", "readback")
  /\ srv' = [srv EXCEPT ![i] = [Released(o, @) EXCEPT !.last = <<Pushed(i)>>]]
  /\ Goes(o, "done")
  /\ UNCHANGED <<remote, nCommits, nWrites, nFaults>>

(***************************************************************************)
(* runGitRestore                                                           *)
(***************************************************************************)
FetchBackup(o) ==
  /\ At(o, "restore", "fetch")
  /\ op' = [op EXCEPT ![o].pc = "head", ![o].got = remote]
  /\ UNCHANGED <<srv, remote, nCommits, nWrites, nFaults>>

SetHead(o) ==
  /\ At(o, "restore", "head")
  /\ srv' = [srv EXCEPT ![op[o].at].head = op[o].got.content]
  /\ Goes(o, "content")
  /\ UNCHANGED <<remote, nCommits, nWrites, nFaults>>

CheckoutContent(o) ==
  /\ At(o, "restore", "content")
  /\ srv' = [srv EXCEPT ![op[o].at].content = op[o].got.content]
  /\ Goes(o, "auth")
  /\ UNCHANGED <<remote, nCommits, nWrites, nFaults>>

CheckoutAuth(o) ==
  LET i == op[o].at IN
  /\ At(o, "restore", "auth")
  /\ srv' = [srv EXCEPT ![i] = [Released(o, @) EXCEPT !.auth = Last(op[o].got.auth).auth]]
  /\ Goes(o, "done")
  /\ UNCHANGED <<remote, nCommits, nWrites, nFaults>>

(***************************************************************************)
(* Faults                                                                  *)
(***************************************************************************)
Fault(f) == f \in Env /\ nFaults < MaxFaults /\ nFaults' = nFaults + 1

\* A git command fails: the error reaches the admin, the finally clears the
\* lockdown.
GitFails(o) ==
  /\ \/ op[o].pc \in {"fetch", "build", "push", "readback", "head"} /\ Fault("git_fails")
     \/ op[o].pc \in {"content", "auth"} /\ Fault("checkout_fails")
  /\ Indexed(op[o].at, o)
  /\ srv' = [srv EXCEPT ![op[o].at] = Released(o, @)]
  /\ Goes(o, "done")
  /\ UNCHANGED <<remote, nCommits, nWrites>>

AnswerLost(o) ==
  /\ Fault("answer_lost")
  /\ At(o, "backup", "push") /\ FastForwards(op[o].at)
  /\ remote' = Pushed(op[o].at)
  /\ srv' = [srv EXCEPT ![op[o].at] = Released(o, @)]
  /\ Goes(o, "done")
  /\ UNCHANGED <<nCommits, nWrites>>

Stops(i, disk) ==
  /\ srv[i].up
  /\ srv' = [srv EXCEPT ![i] = Stopped(disk)]
  /\ op' = [o \in Ops |-> IF op[o].at = i /\ op[o].pc # "unused" THEN [op[o] EXCEPT !.pc = "done"] ELSE op[o]]

Crash(i) ==
  /\ Fault("crash") /\ Stops(i, srv[i])
  /\ UNCHANGED <<remote, nCommits, nWrites>>

DiskLost(i) ==
  /\ Fault("disk_lost") /\ Stops(i, Virgin)
  /\ UNCHANGED <<remote, nCommits, nWrites>>

\* Mutant: the server starts on whatever it finds.
RestartsAsItIs(i) ==
  /\ ~srv[i].up
  /\ srv' = [srv EXCEPT ![i].up = TRUE, ![i].ready = TRUE]
  /\ UNCHANGED <<op, remote, nCommits, nWrites, nFaults>>

\* detectAndRecoverCrash: a committing proposal is finished forward, any other
\* difference between content/ and HEAD keeps the server from starting.
Restart(i) ==
  LET d == srv[i]
      lands == d.committing /\ d.content = d.head
      head == IF lands THEN Append(d.head, nCommits + 1) ELSE d.content
  IN
  /\ ~d.up
  /\ d.committing \/ d.content = d.head
  /\ srv' = [srv EXCEPT ![i] =
       [d EXCEPT !.head = head, !.content = head, !.committing = FALSE,
                 !.active = IF d.committing THEN @ - 1 ELSE @, !.up = TRUE, !.ready = TRUE]]
  /\ nCommits' = IF lands THEN nCommits + 1 ELSE nCommits
  /\ UNCHANGED <<op, remote, nWrites, nFaults>>

(***************************************************************************)
(* The system                                                              *)
(***************************************************************************)
Work(o) == \/ CheckThenLockdown(o)
           \/ FetchAuthTip(o) \/ BuildSnapshot(o) \/ Push(o) \/ ReadBack(o)
           \/ FetchBackup(o) \/ SetHead(o) \/ CheckoutContent(o) \/ CheckoutAuth(o)

Writes(i) == Propose(i) \/ WriteAuth(i) \/ AbsorbWrites(i) \/ AbsorbCommits(i)

Next ==
  \/ \E i \in Servers : \/ \E kind \in {"propose", "auth"} : RequestArrives(i, kind)
                        \/ Writes(i) \/ PublishBegins(i)
                        \/ Crash(i) \/ DiskLost(i) \/ Restart(i)
  \/ \E o \in Ops : \/ \E i \in Servers, kind \in {"backup", "restore"} : AdminAsks(o, i, kind)
                    \/ Work(o) \/ GitFails(o) \/ AnswerLost(o)

Spec == Init /\ [][Next]_vars

\* The event loop goes on and every git command ends.  Nobody has to ask.
FairSpec ==
  /\ Spec
  /\ \A o \in Ops : WF_vars(Work(o))
  /\ \A i \in Servers : WF_vars(Writes(i))

(***************************************************************************)
(* Properties                                                              *)
(***************************************************************************)

Snapshots == Seq([op : Ops, auth : 1 .. MaxWrites, head : Seq(Nat)])
Refs == [content : Seq(Nat), auth : Snapshots]
Server == [head : Seq(Nat), content : Seq(Nat), auth : 0 .. MaxWrites,
           authRef : Snapshots, parent : Snapshots, active : 0 .. MaxWrites, committing : BOOLEAN,
           up : BOOLEAN, ready : BOOLEAN, lockdown : Seq(Ops), index : Seq(Ops \cup {Absorb}),
           inFlight : SUBSET {"propose", "auth"}, last : Seq(Refs)]
Steps == {"unused", "check", "fetch", "build", "push", "readback", "head", "content", "auth", "done"}
Request == [kind : {"none", "backup", "restore"}, at : Servers, pc : Steps,
            tip : Snapshots, got : Refs]

Typed ==
  /\ srv \in [Servers -> Server] /\ op \in [Ops -> Request] /\ remote \in Refs
  /\ nCommits \in 1 .. MaxCommits + Cardinality(Servers)
  /\ nWrites \in 1 .. MaxWrites /\ nFaults \in 0 .. MaxFaults

\* The servers, the requests and the remote are well typed, and a server that
\* takes requests runs, outside of any lockdown.
TypeOK ==
  /\ Typed
  /\ \A i \in Servers :
       /\ srv[i].committing => srv[i].active > 0
       /\ srv[i].ready => srv[i].up /\ srv[i].lockdown = <<>>

\* operation-lockdown.ts: "an absorb that was already in flight when the gate
\* closed finishes before the operation's own git commands touch the index".
\* The two refs of the remote are therefore of one moment: the content the
\* remote has is the content the server had when it took that auth snapshot.
BackupIsOneMoment ==
  remote.auth # <<>> => Last(remote.auth).head = remote.content

\* git-backup-service.ts: a failed push left the local auth ref "on a commit
\* the remote has never seen, and building there would non-fast-forward
\* again".  No earlier run, failed or unanswered, blocks a backup: unless the
\* remote has moved since the fetch, the auth ref fast-forwards.
SnapshotFastForwards ==
  \A o \in Ops : At(o, "backup", "push") /\ remote.auth = op[o].tip
                   => IsPrefix(remote.auth, srv[op[o].at].authRef)

\* last_successful_backup names content and a snapshot the remote has.
RecordedBackupIsThere ==
  \A i \in Servers : srv[i].last # <<>> =>
    /\ IsPrefix(srv[i].last[1].content, remote.content)
    /\ IsPrefix(srv[i].last[1].auth, remote.auth)

\* "Even a thrown error restores normal traffic": the gate opens again, or the
\* process is gone.
LockdownLifts == \A i \in Servers : ~srv[i].ready ~> srv[i].ready \/ ~srv[i].up

\* "backup that silently omits unpublished proposal work is a data-loss shape":
\* what a backup pushes leaves no proposal of its server behind.
BackupIsQuiet == \A o \in Ops : At(o, "backup", "push") => srv[op[o].at].active = 0

\* git-backup-git.ts: "the caller has already verified there are no local
\* content commits -- so the ref update is not a history rewrite".
RestoreRewritesNothing ==
  \A o \in Ops : At(o, "restore", "head") => srv[op[o].at].head = <<>>

\* A server that takes requests shows in content/ what its branch has.
ReadyTreeIsHead ==
  \A i \in Servers : srv[i].ready => srv[i].content = srv[i].head \/ Indexed(i, Absorb)
=============================================================================
