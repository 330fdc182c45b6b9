---------------------------- MODULE ProposalStore ----------------------------
(***************************************************************************)
(* Proposals on disk, their locks, the commit pipeline and crash recovery. *)
(*                                                                         *)
(* A proposal's status is the directory it lies in, a lock is nothing but  *)
(* being in a blocking directory, and a commit is a sequence of file and   *)
(* git operations with awaits between them.  Requests are interleaved at   *)
(* every await that does real I/O; the process may stop at any of them,    *)
(* and the next start recovers from the disk alone.                        *)
(*                                                                         *)
(* Sources: storage/proposal-repository.ts, storage/commit-pipeline.ts,    *)
(* storage/canonical-store.ts, storage/crash-recovery.ts,                  *)
(* storage/data-repo-index-mutex.ts, domain/proposal-fsm-locks.ts,         *)
(* domain/proposal-fsm-lock-index.ts, api/application/proposals.ts.        *)
(***************************************************************************)
EXTENDS Integers, Sequences, FiniteSets

CONSTANTS Tasks,         \* requests the server handles at the same time
          Boot,          \* start-up recovery, which runs like a request of its own
          Sections,
          MaxProposals,  \* bound: proposals ever created
          MaxWrites,     \* bound: section writes ever made
          MaxCrashes,    \* bound: process stops
          MaxFails,      \* bound: failing git or file operations
          Env            \* what the environment may do, see below

(***************************************************************************)
(* Env: "same_proposal"  several requests work on one proposal at once     *)
(*      "same_moment"    two lock checks are pending at the same time      *)
(*      "git_fails"      git fails before its commit; the rollback works   *)
(*      "late_fails"     a step after the git commit fails                 *)
(*      "rollback_fails" so does the rollback of the working tree          *)
(*      "stop_anywhere"  the process stops while two publishes are under   *)
(*                       way, not only while at most one is                *)
(***************************************************************************)
EnvFlags == {"same_proposal", "same_moment", "git_fails", "late_fails", "rollback_fails",
             "stop_anywhere"}

ASSUME StoreAssumption ==
  /\ Boot \notin Tasks
  /\ {MaxProposals, MaxWrites, MaxCrashes, MaxFails} \subseteq Nat
  /\ Env \subseteq EnvFlags

Proposals == 1 .. MaxProposals       \* ids in the order of creation
Writers == {"human", "agent", "session"}
AllTasks == Tasks \cup {Boot}

\* PROPOSAL_STATUSES, in the order locateProposal tries them.
StatusOrder == <<"draft", "pending", "inprogress", "committing", "committed", "withdrawn">>
Statuses == {StatusOrder[i] : i \in DOMAIN StatusOrder}
Missing == "missing"
BlockingStatuses == {"inprogress", "committing"}
ActiveStatuses == {"draft", "pending", "inprogress", "committing"}
OpenStatuses == {"draft", "pending", "inprogress"}

Work == [n : 1 .. MaxWrites, sec : Sections]
NoDir == [there |-> FALSE, meta |-> FALSE, targets |-> {}, landed |-> FALSE, work |-> {}]
Idle == [pc |-> "idle", p |-> 0, from |-> Missing, to |-> Missing, targets |-> {}, w |-> 0, sec |-> 0]

VARIABLES
  writer,    \* [Proposals -> Writers]: the author in meta.json ("session": a DocSession)
  dir,       \* [Proposals -> [Statuses -> directory]]: proposals/<status>/<id>
  tree,      \* the working tree: the number of the write each section shows
  head,      \* the same in git's HEAD
  log,       \* git log: the publish commits [p, work]
  task,      \* [AllTasks -> what each request has read and will do next]
  index,     \* withExclusiveDataRepoIndex: the queue, its head holds the index
  up,        \* "up", "recovering" or "down"
  nWrites, nCrashes, nFails,
  acked,     \* writes whose request was answered with success
  dropped    \* writes disposed of on purpose: emptied drafts, discarded pending

disk == <<writer, dir, tree, head, log>>
counters == <<nWrites, nCrashes, nFails>>
vars == <<writer, dir, tree, head, log, task, index, up, nWrites, nCrashes, nFails, acked, dropped>>

(***************************************************************************)
(* Reading the store                                                       *)
(***************************************************************************)

\* A status counts only with a meta.json in it; the first one in order wins.
Locate(p) ==
  IF \E i \in DOMAIN StatusOrder : dir[p][StatusOrder[i]].meta
  THEN StatusOrder[CHOOSE i \in DOMAIN StatusOrder :
                     /\ dir[p][StatusOrder[i]].meta
                     /\ \A j \in 1 .. i - 1 : ~dir[p][StatusOrder[j]].meta]
  ELSE Missing

Targets(p) == dir[p][Locate(p)].targets

\* The proposals that hold a section exclusively (ProposalFsmLockIndex.build).
Holders(s) == {p \in Proposals : \E st \in BlockingStatuses :
                                    dir[p][st].meta /\ s \in dir[p][st].targets}

\* Mutant: a publish under way no longer holds its sections.
FreeOfClaims(p, targets) ==
  \A s \in targets : \A q \in Proposals \ {p} :
    ~(dir[q]["inprogress"].meta /\ s \in dir[q]["inprogress"].targets)

\* checkProposalLocks: none of the targets is held by another proposal.
LocksAvailable(p, targets) == \A s \in targets : Holders(s) \subseteq {p}

SectionsOf(W) == {w.sec : w \in W}
NewestOf(W, s) == CHOOSE n \in {w.n : w \in {x \in W : x.sec = s}} :
                    \A w \in W : w.sec = s => w.n <= n

(***************************************************************************)
(* Writing the store                                                       *)
(***************************************************************************)

\* writeJsonFile: mkdir -p and write, so a directory that was renamed away in
\* the meantime comes back with nothing but its meta.json.
MetaWritten(p, st, targets, landed) ==
  [dir EXCEPT ![p][st] = [@ EXCEPT !.there = TRUE, !.meta = TRUE,
                                   !.targets = targets, !.landed = landed]]

\* Mutant: the directory is copied.
Copied(p, from, to) == [dir EXCEPT ![p][to] = dir[p][from]]

CanMove(p, from, to) == dir[p][from].there /\ ~dir[p][to].there
Moved(p, from, to) == [dir EXCEPT ![p][to] = dir[p][from], ![p][from] = NoDir]

Finish(t) == task' = [task EXCEPT ![t] = Idle]
Continue(t, pc) == task' = [task EXCEPT ![t].pc = pc]

Running == up = "up"
Free(t) == t \in Tasks /\ task[t].pc = "idle"

\* Bound: without "same_proposal" a proposal has one request at a time.
OneRequest(p) == "same_proposal" \in Env \/ \A t \in AllTasks : task[t].p # p

\* A request that has checked locks and not yet made its claim visible.
Claiming(t) == \/ task[t].pc \in {"meta", "rename"} /\ task[t].to \in BlockingStatuses
               \/ task[t].pc \in {"content", "claim"} /\ writer[task[t].p] = "session"

\* Bound: without "same_moment" locks are checked by one request at a time.
OneCheck == "same_moment" \in Env \/ \A t \in AllTasks : ~Claiming(t)

(***************************************************************************)
(* Requests                                                                *)
(***************************************************************************)

\* createProposal (draft), createTransientProposal (pending) and
\* getOrCreateInProgressProposalForAdoptionId (inprogress).  Nobody knows the id
\* before the call returns, so its file operations are one step.
CreateIn(p, who, st, targets) ==
  /\ Running
  /\ \A q \in Proposals : writer[q] = "none" <=> q >= p
  /\ writer' = [writer EXCEPT ![p] = who]
  /\ dir' = MetaWritten(p, st, targets, FALSE)
  /\ UNCHANGED <<tree, head, log, task, index, up, counters, acked, dropped>>

Create(p) ==
  \/ \E targets \in SUBSET Sections : CreateIn(p, "human", "draft", targets)
  \/ CreateIn(p, "agent", "draft", {})
  \/ \E who \in {"human", "agent"} : CreateIn(p, who, "pending", {})
  \/ CreateIn(p, "session", "inprogress", {})

\* declareReservedProposalSectionsFromRequest through modifyProposalUseCase: the
\* scope of a draft.  Emptying it moves the staged content away.
Declare(t, p) ==
  /\ Running /\ Free(t) /\ OneRequest(p)
  /\ Locate(p) = "draft" /\ writer[p] = "human"
  /\ \E targets \in SUBSET Sections \ {Targets(p)} :
       /\ task' = [task EXCEPT ![t] = [Idle EXCEPT !.pc = "meta", !.p = p, !.from = "draft",
                                                   !.to = "draft", !.targets = targets]]
       /\ IF targets = {}
          THEN /\ dir' = [dir EXCEPT ![p]["draft"].work = {}]
               /\ dropped' = dropped \cup {w.n : w \in dir[p]["draft"].work}
          ELSE UNCHANGED <<dir, dropped>>
  /\ UNCHANGED <<writer, tree, head, log, index, up, counters, acked>>

\* isProposalMutable for the staged-content routes; the mutation boundary also
\* works in pending, and a DocSession in its inprogress proposal, where the
\* acceptance gate has checked the lock of the section first.
MayWrite(p, s) ==
  CASE Locate(p) = "draft"      -> TRUE
    [] Locate(p) = "pending"    -> TRUE
    [] Locate(p) = "inprogress" -> \/ writer[p] = "human" /\ s \in Targets(p)
                                   \/ writer[p] = "session" /\ LocksAvailable(p, {s})
    [] OTHER                    -> FALSE

WriteStart(t, p, s) ==
  /\ Running /\ Free(t) /\ OneRequest(p)
  /\ nWrites < MaxWrites
  /\ MayWrite(p, s)
  /\ writer[p] = "session" => OneCheck
  /\ nWrites' = nWrites + 1
  /\ task' = [task EXCEPT ![t] = [Idle EXCEPT !.pc = "content", !.p = p, !.from = Locate(p),
                                              !.targets = Targets(p), !.w = nWrites + 1, !.sec = s]]
  /\ UNCHANGED <<disk, index, up, nCrashes, nFails, acked, dropped>>

\* The body file goes to the content root chosen when the request was read, and
\* mkdir -p brings that directory back if it has moved.  A human stages content
\* under claims already declared; the others claim the section next.
WriteContent(t) ==
  LET k == task[t] IN
  /\ k.pc = "content"
  /\ dir' = [dir EXCEPT ![k.p][k.from].there = TRUE,
                        ![k.p][k.from].work = @ \cup {[n |-> k.w, sec |-> k.sec]}]
  /\ Continue(t, IF writer[k.p] = "human" /\ k.from # "pending" THEN "answer" ELSE "claim")
  /\ UNCHANGED <<writer, tree, head, log, index, up, counters, acked, dropped>>

\* stageProposalSectionContent re-reads the proposal before it answers.
WriteAnswer(t) ==
  /\ task[t].pc = "answer"
  /\ acked' = IF Locate(task[t].p) \in ActiveStatuses THEN acked \cup {task[t].w} ELSE acked
  /\ Finish(t)
  /\ UNCHANGED <<disk, index, up, counters, dropped>>

\* writeProposalSectionsFile with the claims mutateProposalContent read before the
\* write, and unionCurrentProposalSections, which reads them now.
WriteClaim(t) ==
  LET k == task[t]
      st == Locate(k.p)
  IN
  /\ k.pc = "claim"
  /\ IF st \in OpenStatuses /\ (writer[k.p] = "session" => st = "inprogress")
     THEN task' = [task EXCEPT ![t].pc = "meta", ![t].from = st, ![t].to = st,
                               ![t].targets = {k.sec} \cup IF writer[k.p] = "session"
                                                           THEN Targets(k.p) ELSE k.targets]
     ELSE Finish(t)
  /\ UNCHANGED <<disk, index, up, counters, acked, dropped>>

\* acquireLocksUseCase and transitionToInProgress up to the write.
AcquireStart(t, p) ==
  /\ Running /\ Free(t) /\ OneRequest(p) /\ OneCheck
  /\ Locate(p) = "draft" /\ writer[p] = "human"
  /\ Targets(p) # {}
  /\ LocksAvailable(p, Targets(p))
  /\ task' = [task EXCEPT ![t] = [Idle EXCEPT !.pc = "meta", !.p = p, !.from = "draft",
                                              !.to = "inprogress", !.targets = Targets(p)]]
  /\ UNCHANGED <<disk, index, up, counters, acked, dropped>>

\* transitionToWithdrawn up to the write.
WithdrawStart(t, p) ==
  /\ Running /\ Free(t) /\ OneRequest(p)
  /\ Locate(p) \in OpenStatuses
  /\ task' = [task EXCEPT ![t] = [Idle EXCEPT !.pc = "meta", !.p = p, !.from = Locate(p),
                                              !.to = "withdrawn", !.targets = Targets(p)]]
  /\ UNCHANGED <<disk, index, up, counters, acked, dropped>>

\* transitionToCommitting up to the rename; nothing is written before it.
MayCommitFrom(p) == IF writer[p] = "agent" THEN {"draft", "pending"} ELSE {"inprogress", "pending"}

CommitStart(t, p) ==
  /\ Running /\ Free(t) /\ OneRequest(p) /\ OneCheck
  /\ Locate(p) \in MayCommitFrom(p)
  /\ Targets(p) # {}
  /\ LocksAvailable(p, Targets(p))
  /\ task' = [task EXCEPT ![t] = [Idle EXCEPT !.pc = "rename", !.p = p, !.from = Locate(p),
                                              !.to = "committing", !.targets = Targets(p)]]
  /\ UNCHANGED <<disk, index, up, counters, acked, dropped>>

\* demoteTransientProposalToDraft, after the agent write policy said no.
Demote(p) ==
  /\ Running /\ OneRequest(p)
  /\ Locate(p) = "pending" /\ writer[p] = "agent"
  /\ CanMove(p, "pending", "draft")
  /\ dir' = Moved(p, "pending", "draft")
  /\ UNCHANGED <<writer, tree, head, log, task, index, up, counters, acked, dropped>>

\* The file write of every transition and of every manifest change.  The fields
\* are those read when the request started; a change of the claims also answers
\* the write it belongs to.
WriteMeta(t) ==
  LET k == task[t] IN
  /\ k.pc = "meta"
  /\ dir' = MetaWritten(k.p, k.from, k.targets, k.to = "committed")
  /\ IF k.to = k.from
     THEN /\ acked' = IF k.w > 0 THEN acked \cup {k.w} ELSE acked
          /\ Finish(t)
     ELSE /\ Continue(t, "rename")
          /\ UNCHANGED acked
  /\ UNCHANGED <<writer, tree, head, log, index, up, counters, dropped>>

\* The directory rename that is the transition.  It fails when its source has
\* moved or its destination exists; only a publish past committing rolls back.
Rename(t) ==
  LET k == task[t] IN
  /\ k.pc = "rename"
  /\ IF CanMove(k.p, k.from, k.to)
     THEN /\ dir' = Moved(k.p, k.from, k.to)
          /\ IF k.to = "committing" THEN Continue(t, "enter") ELSE Finish(t)
     ELSE /\ UNCHANGED dir
          /\ IF k.to = "committed" THEN Continue(t, "rollback") ELSE Finish(t)
  /\ UNCHANGED <<writer, tree, head, log, index, up, counters, acked, dropped>>

(***************************************************************************)
(* The commit pipeline past committing                                     *)
(***************************************************************************)

Overlay(p) == dir[p]["committing"].work

\* Mutant: nobody handles the refusal of unclaimed content.
RefusalUnhandled(t) ==
  LET p == task[t].p IN
  /\ task[t].pc = "enter"
  /\ IF Locate(p) \in ActiveStatuses /\ SectionsOf(Overlay(p)) \subseteq Targets(p)
     THEN /\ task' = [task EXCEPT ![t].pc = "queued", ![t].targets = Targets(p)]
          /\ index' = Append(index, t)
     ELSE /\ Continue(t, "refused")
          /\ UNCHANGED index
  /\ UNCHANGED <<disk, up, counters, acked, dropped>>

\* absorbCommittingProposalToCanonical: content the manifest does not claim
\* refuses the publish; then wait for the git index.
AbsorbEnter(t) ==
  LET p == task[t].p IN
  /\ task[t].pc = "enter"
  /\ IF Locate(p) \in ActiveStatuses /\ SectionsOf(Overlay(p)) \subseteq Targets(p)
     THEN /\ task' = [task EXCEPT ![t].pc = "queued", ![t].targets = Targets(p)]
          /\ index' = Append(index, t)
     ELSE /\ Continue(t, "rollback")
          /\ UNCHANGED index
  /\ UNCHANGED <<disk, up, counters, acked, dropped>>

\* Mutant: whoever wants the index takes it.
TakesIndex(t) == \E i \in DOMAIN index : index[i] = t

HoldsIndex(t) == index # <<>> /\ Head(index) = t

AbsorbStart(t) ==
  /\ task[t].pc = "queued" /\ HoldsIndex(t)
  /\ Continue(t, "copy")
  /\ UNCHANGED <<disk, index, up, counters, acked, dropped>>

\* deletionPass and copyPass, a section at a time.
StaleSections(p) == {s \in SectionsOf(Overlay(p)) : tree[s] # NewestOf(Overlay(p), s)}

AbsorbCopy(t) ==
  LET p == task[t].p IN
  /\ task[t].pc = "copy"
  /\ \E s \in StaleSections(p) : tree' = [tree EXCEPT ![s] = NewestOf(Overlay(p), s)]
  /\ UNCHANGED <<writer, dir, head, log, task, index, up, counters, acked, dropped>>

\* Mutant: git commits while the copy is still going on.
CommitsEarly(t) ==
  LET p == task[t].p IN
  /\ task[t].pc = "copy"
  /\ head' = tree
  /\ log' = Append(log, [p |-> p, work |-> Overlay(p)])
  /\ Continue(t, "landed")
  /\ UNCHANGED <<writer, dir, tree, index, up, counters, acked, dropped>>

\* git add -A content/ and git commit --allow-empty: all of the tree.
AbsorbCommit(t) ==
  LET p == task[t].p IN
  /\ task[t].pc = "copy" /\ StaleSections(p) = {}
  /\ head' = tree
  /\ log' = Append(log, [p |-> p, work |-> Overlay(p)])
  /\ Continue(t, "landed")
  /\ UNCHANGED <<writer, dir, tree, index, up, counters, acked, dropped>>

\* assertCommitLanded and the final diff succeed; the mutex is released.
AbsorbDone(t) ==
  /\ task[t].pc = "landed"
  /\ index' = Tail(index)
  /\ Continue(t, "finalize")
  /\ UNCHANGED <<disk, up, counters, acked, dropped>>

\* Mutant: the failed copy stays in the working tree.
FailsWithoutReset(t) ==
  /\ nFails < MaxFails
  /\ task[t].pc = "copy" /\ "git_fails" \in Env
  /\ nFails' = nFails + 1
  /\ index' = Tail(index)
  /\ Continue(t, "rollback")
  /\ UNCHANGED <<writer, dir, tree, head, log, up, nWrites, nCrashes, acked, dropped>>

\* A git operation fails: canonical is reset to HEAD, if that does not fail too.
GitFails(t) ==
  /\ nFails < MaxFails
  /\ \/ task[t].pc = "queued" /\ HoldsIndex(t) /\ "git_fails" \in Env /\ UNCHANGED tree
     \/ task[t].pc = "copy" /\ "git_fails" \in Env /\ tree' = head
     \/ task[t].pc = "copy" /\ "rollback_fails" \in Env /\ UNCHANGED tree
     \/ task[t].pc = "landed" /\ "late_fails" \in Env /\ tree' = head
  /\ nFails' = nFails + 1
  /\ index' = Tail(index)
  /\ Continue(t, "rollback")
  /\ UNCHANGED <<writer, dir, head, log, up, nWrites, nCrashes, acked, dropped>>

\* transitionToCommitted up to the write of the enriched meta.json.
Finalize(t) ==
  LET p == task[t].p IN
  /\ task[t].pc = "finalize"
  /\ IF Locate(p) = "committing"
     THEN task' = [task EXCEPT ![t].pc = "meta", ![t].from = "committing", ![t].to = "committed",
                               ![t].targets = Targets(p)]
     ELSE Continue(t, "rollback")
  /\ UNCHANGED <<disk, index, up, counters, acked, dropped>>

\* The write or the rename of transitionToCommitted fails.
FinalizeFails(t) ==
  /\ "late_fails" \in Env /\ nFails < MaxFails
  /\ task[t].pc \in {"meta", "rename"} /\ task[t].to = "committed"
  /\ nFails' = nFails + 1
  /\ Continue(t, "rollback")
  /\ UNCHANGED <<disk, index, up, nWrites, nCrashes, acked, dropped>>

\* The process ends: requests, queue and mutex are gone, the disk stays.
Stop == /\ task' = [t \in AllTasks |-> Idle]
        /\ index' = <<>>
        /\ up' = "down"

\* publishProposalToCanonicalDetailed passes ownerKind ?? "agent", and only a
\* DocSession passes "docsession".  rollbackCommittingProposal gives up silently
\* when the proposal is not in committing.
RollbackTo(p) == IF writer[p] = "session" THEN "inprogress" ELSE "draft"

\* Mutant: the failure is reported and the proposal left where it is.
LeftInCommitting(t) ==
  /\ task[t].pc = "rollback" /\ t # Boot
  /\ Finish(t)
  /\ UNCHANGED <<disk, index, up, counters, acked, dropped>>

Rollback(t) ==
  LET p == task[t].p IN
  /\ task[t].pc = "rollback" /\ t # Boot
  /\ dir' = IF Locate(p) = "committing" /\ CanMove(p, "committing", RollbackTo(p))
            THEN Moved(p, "committing", RollbackTo(p)) ELSE dir
  /\ Finish(t)
  /\ UNCHANGED <<writer, tree, head, log, index, up, counters, acked, dropped>>

\* A failure during recovery ends the process with a crash report.
RecoveryFails ==
  /\ task[Boot].pc = "rollback"
  /\ Stop
  /\ UNCHANGED <<disk, counters, acked, dropped>>

(***************************************************************************)
(* Crash and recovery                                                      *)
(***************************************************************************)
ToRecover == {p \in Proposals : dir[p]["committing"].meta}

Crash ==
  /\ up # "down" /\ nCrashes < MaxCrashes
  /\ "stop_anywhere" \in Env \/ Cardinality(ToRecover) <= 1
  /\ nCrashes' = nCrashes + 1
  /\ Stop
  /\ UNCHANGED <<disk, nWrites, nFails, acked, dropped>>

Restart ==
  /\ up = "down"
  /\ up' = "recovering"
  /\ UNCHANGED <<disk, task, index, counters, acked, dropped>>

\* discardPendingProposals, the first thing a start does.
Pending == {p \in Proposals : dir[p]["pending"].there}

\* Mutant: only the meta.json of the pending proposal goes.
DiscardsMeta(p) ==
  /\ up = "recovering" /\ task[Boot].pc = "idle"
  /\ p \in Pending
  /\ dir' = [dir EXCEPT ![p]["pending"].meta = FALSE]
  /\ UNCHANGED <<writer, tree, head, log, task, index, up, counters, acked, dropped>>

DiscardPending(p) ==
  /\ up = "recovering" /\ task[Boot].pc = "idle"
  /\ p \in Pending
  /\ dir' = [dir EXCEPT ![p]["pending"] = NoDir]
  /\ dropped' = dropped \cup {w.n : w \in dir[p]["pending"].work}
  /\ UNCHANGED <<writer, tree, head, log, task, index, up, counters, acked>>

\* Mutant: everything found in committing is taken for landed.
TakenForLanded ==
  LET p == CHOOSE q \in ToRecover : \A r \in ToRecover : r <= q IN
  /\ up = "recovering" /\ task[Boot].pc = "idle"
  /\ Pending = {} /\ ToRecover # {}
  /\ dir' = Moved(p, "committing", "committed")
  /\ UNCHANGED <<writer, tree, head, log, task, index, up, counters, acked, dropped>>

\* recoverCommittingProposals, newest first: finalizeCommittingProposal when the
\* meta.json names the commit, otherwise publishCommittingProposalToCanonical,
\* which runs the absorb again.
RecoverNext ==
  LET p == CHOOSE q \in ToRecover : \A r \in ToRecover : r <= q IN
  /\ up = "recovering" /\ task[Boot].pc = "idle"
  /\ Pending = {} /\ ToRecover # {}
  /\ IF dir[p]["committing"].landed
     THEN /\ dir' = Moved(p, "committing", "committed")
          /\ UNCHANGED task
     ELSE /\ task' = [task EXCEPT ![Boot] = [Idle EXCEPT !.pc = "enter", !.p = p]]
          /\ UNCHANGED dir
  /\ UNCHANGED <<writer, tree, head, log, index, up, counters, acked, dropped>>

\* recoverDirtyWorkingTree: whatever is still dirty ends the process.
RecoverDone ==
  /\ up = "recovering" /\ task[Boot].pc = "idle"
  /\ Pending = {} /\ ToRecover = {}
  /\ up' = IF tree = head THEN "up" ELSE "down"
  /\ UNCHANGED <<disk, task, index, counters, acked, dropped>>

(***************************************************************************)
(* The specification                                                       *)
(***************************************************************************)
Init ==
  /\ writer = [p \in Proposals |-> "none"]
  /\ dir = [p \in Proposals |-> [st \in Statuses |-> NoDir]]
  /\ tree = [s \in Sections |-> 0]
  /\ head = [s \in Sections |-> 0]
  /\ log = <<>>
  /\ task = [t \in AllTasks |-> Idle]
  /\ index = <<>>
  /\ up = "up"
  /\ nWrites = 0 /\ nCrashes = 0 /\ nFails = 0
  /\ acked = {}
  /\ dropped = {}

Request(t, p) ==
  \/ Declare(t, p)
  \/ \E s \in Sections : WriteStart(t, p, s)
  \/ AcquireStart(t, p)
  \/ WithdrawStart(t, p)
  \/ CommitStart(t, p)

\* What a request, or the recovery, does once it has started.
Progress(t) ==
  \/ WriteContent(t) \/ WriteAnswer(t) \/ WriteClaim(t)
  \/ WriteMeta(t) \/ Rename(t)
  \/ AbsorbEnter(t) \/ AbsorbStart(t) \/ AbsorbCopy(t) \/ AbsorbCommit(t) \/ AbsorbDone(t)
  \/ Finalize(t) \/ Rollback(t)

Recovery ==
  \/ Restart
  \/ \E p \in Proposals : DiscardPending(p)
  \/ RecoverNext \/ RecoverDone \/ RecoveryFails

Next ==
  \/ \E p \in Proposals : Create(p) \/ Demote(p)
  \/ \E t \in Tasks, p \in Proposals : Request(t, p)
  \/ \E t \in AllTasks : Progress(t) \/ GitFails(t) \/ FinalizeFails(t)
  \/ Recovery
  \/ Crash

Spec == Init /\ [][Next]_vars

\* Started work goes on (promise reactions and file operations complete), and a
\* process that is down is started again.  Nothing is assumed of requests.
FairSpec == Spec /\ WF_vars(Recovery) /\ \A t \in AllTasks : WF_vars(Progress(t))

(***************************************************************************)
(* Properties                                                              *)
(***************************************************************************)
DirType == [there : BOOLEAN, meta : BOOLEAN, targets : SUBSET Sections, landed : BOOLEAN,
            work : SUBSET Work]
Phases == {"idle", "content", "answer", "claim", "meta", "rename", "enter", "queued", "copy",
           "landed", "finalize", "rollback"}
TaskType == [pc : Phases, p : 0 .. MaxProposals, from : Statuses \cup {Missing},
             to : Statuses \cup {Missing}, targets : SUBSET Sections,
             w : 0 .. MaxWrites, sec : Sections \cup {0}]

DiskTyped ==
  /\ writer \in [Proposals -> Writers \cup {"none"}]
  /\ dir \in [Proposals -> [Statuses -> DirType]]
  /\ tree \in [Sections -> 0 .. MaxWrites] /\ head \in [Sections -> 0 .. MaxWrites]
  /\ log \in Seq([p : Proposals, work : SUBSET Work])

RequestsTyped == task \in [AllTasks -> TaskType] /\ index \in Seq(AllTasks)

HistoryTyped ==
  /\ up \in {"up", "recovering", "down"}
  /\ nWrites \in 0 .. MaxWrites /\ nCrashes \in 0 .. MaxCrashes /\ nFails \in 0 .. MaxFails
  /\ acked \subseteq 1 .. MaxWrites /\ dropped \subseteq 1 .. MaxWrites

\* Types of the store: directories, trees, the git log and the running requests.
TypeOK == DiskTyped /\ RequestsTyped /\ HistoryTyped

LandedWrites == UNION {{w.n : w \in log[i].work} : i \in DOMAIN log}

\* A write answered with success is in canonical history, or in the directory the
\* store finds its proposal in, unless its author emptied the draft or a start
\* discarded the pending operation: transitions and recovery lose nothing.
AckedWritesKept ==
  \A n \in acked \ dropped :
    \/ n \in LandedWrites
    \/ \E p \in Proposals : /\ Locate(p) \notin {Missing, "committed"}
                            /\ n \in {w.n : w \in dir[p][Locate(p)].work}

\* While the server answers requests no section is held by two proposals, whatever
\* transitions, failures and recoveries came before ("exclusive section locks").
OneHolder == up # "down" => \A s \in Sections : Cardinality(Holders(s)) <= 1

\* A proposal is never in two directories, so its status is unambiguous.
OnePlace == \A p \in Proposals : Cardinality({st \in Statuses : dir[p][st].there}) <= 1

\* Whenever nobody holds the git index the working tree is what HEAD says: readers
\* and the next publish never see half a publish.
TreeIsHead == up = "up" /\ index = <<>> => tree = head

\* A section changes in canonical only by the commit of a proposal that claims it
\* and that alone holds it: nobody publishes under somebody else's lock.
HeadChangesUnderLock ==
  [][\A s \in Sections : head'[s] # head[s] =>
        \E p \in Proposals : /\ Len(log') > Len(log) /\ log'[Len(log')].p = p
                             /\ Holders(s) = {p} /\ dir[p]["committing"].there]_vars

\* A publish ends: whatever fails or stops, its proposal leaves committing again.
\* Recovery gives up for good on two kinds of disk, and neither passes by itself:
\* a proposal stopped between its rename to committing and the check of its claims,
\* with content it does not claim, and a tree dirty with nothing left to recover.
Unclaimed(p) == dir[p]["committing"].there /\ ~(SectionsOf(Overlay(p)) \subseteq Targets(p))
GivenUp == \/ \E p \in Proposals : Unclaimed(p)
           \/ tree # head /\ ToRecover = {}
CommittingEnds ==
  \A p \in Proposals : dir[p]["committing"].there ~> ~dir[p]["committing"].there \/ GivenUp

\* A server that went down serves again: recovery terminates, whatever it finds.
ServerComesBack == up = "down" ~> up = "up" \/ GivenUp

(***************************************************************************)
(* Refinement: where a proposal of ProposalLifecycle is in the store       *)
(***************************************************************************)
LandingOf(p) == {i \in DOMAIN log : log[i].p = p}

FateOf(p) ==
  CASE LandingOf(p) # {}                                 -> "landed"
    [] LandingOf(p) = {} /\ writer[p] = "none"           -> "none"
    [] LandingOf(p) = {} /\ writer[p] # "none"           ->
         IF Locate(p) \in ActiveStatuses THEN "open" ELSE "dropped"

StagedOf(p) ==
  IF LandingOf(p) # {} THEN log[CHOOSE i \in LandingOf(p) : TRUE].work
  ELSE IF FateOf(p) = "open" THEN dir[p][Locate(p)].work ELSE {}

Lifecycle == INSTANCE ProposalLifecycle
  WITH Writes <- 1 .. MaxWrites,
       fate <- [p \in Proposals |-> FateOf(p)],
       staged <- [p \in Proposals |-> StagedOf(p)],
       content <- head

\* The store implements the lifecycle: one landing, whole, or none at all.
ImplementsLifecycle == Lifecycle!LifecycleSpec
=============================================================================
