# Civigent: TLA+ models and proofs

Civigent is a collaborative Markdown workspace. People edit documents live in
the browser (Yjs over a WebSocket), agents write through proposals, and
canonical content is a git tree that advances only by publishing proposals. The
hard part is the boundary between the two: live edits must reach canonical
content exactly when everything in flight has been accounted for, while editors
come and go, documents are restored and deleted, commits fail, processes stop
and two proposals edit the same document.

This directory models that boundary, from the keystroke in a tab to the commit
in git and its backup. Paths below are relative to `src/`.

## Inventory

| Component | State it keeps | Operations | Interacts with | Correct when | Here |
|---|---|---|---|---|---|
| Publish pause, `backend/src/crdt/docsession-publish-pause.ts` | state, required and acked sockets, resolver, timer | start, markReady, handleSocketDisconnect, timeout, end | one per DocSession, driven by the coordinator | its promise settles once, always, and `ready` only when every required socket acked | `PauseFsm` |
| DocSession lifecycle, `backend/src/crdt/ydoc-lifecycle.ts` | sessions, sessionPromises, holders, the actor lane | acquire, construct, release, discard, invalidate | coordinator, proposal repository | one live session per document, discarded with its last editor | `DocSession`, `EditorTab` |
| CRDT coordinator, `backend/src/ws/crdt-ws-coordinator.ts` | sockets, message chains, publishChains, quiescence timers, deletes in flight | mode transition, update, ack, close, publish attempt, quiescence, delete | everything around it | edits go to their session; a publish covers what editors saw saved; nothing acknowledged is lost | `DocSession`, `EditorTab` |
| Proposal generator, `backend/src/crdt/crdt-proposal-generator.ts` | bound proposal, adoption id | materialise, claim, settle, finalizeAndPublish | proposal repository, commit pipeline | one in-progress proposal per document | `DocSession` |
| Editor client and observer channel, `frontend/src/services/crdt-provider.ts`, `observer-crdt-provider.ts`, `live-section-replica.ts`, `frontend/src/hooks/useLiveSectionReplica.ts` | provider, replica, receipts, publishPaused, reconnect timer, handoff | open, edit, freeze, ack, thaw, reconnect, sleep, wake, hand off, close | coordinator | one socket, one history per replica, what shows as received is | `EditorTab` |
| Restore, `backend/src/api/application/documents.ts` | a restore proposal and its lock | handoff, lock, replace, invalidate | coordinator, repository | keeps live work before it replaces it | `DocSession` |
| Proposal repository, FSM and locks, `backend/src/storage/proposal-repository.ts`, `backend/src/domain/` | status directories, manifests | create, adopt, claim, write, every transition | pipeline, agents, sessions | a section has one holder, a proposal one place | `ProposalStore` |
| Commit pipeline, canonical store | the working tree, git | absorb, roll back, finalise | repository, git index mutex | a publish is in canonical whole or not at all | `ProposalStore`, `Overlay` |
| Crash recovery, `backend/src/storage/crash-recovery.ts` | none: the disk | discard pending, recover committing, check the tree | repository, git | a crash neither loses nor half lands a commit | `ProposalStore` |
| Content layer and skeleton, `backend/src/storage/content-layer.ts`, `document-skeleton.ts` | listings and body files of canonical and of every overlay | write, create, rename, move, reorder, delete, merge | proposals, canonical store | publishing leaves alone what the proposal did not touch | `Overlay`, `LiveStructure` |
| Live section structure, `backend/src/crdt/structural-change.ts`, `structural-appliers.ts`, `live-edit-structural-validation.ts` | live fragments, registered keys, recently edited fragments | acceptance gate, classify, settle (split, rename, re-level, remove), rebuild | coordinator, content layer, Y.Doc | what authors typed becomes sections without a change of the text | `LiveStructure` |
| Git backup and restore, lockdown, `backend/src/backup/` | lockdown chain, refs, last record | back up, restore | index mutex, readiness gate | a backup is one moment, a restore all or refuse, the gate reopens | `GitBackup` |
| WS hub and browser client, `backend/src/ws/hub.ts`, `frontend/src/services/ws-client.ts`, `frontend/src/workers/ws-shared-worker.ts` | sockets with documents and identities; ports and page states; leader | open, close, sweep, reconnect, elect, broadcast | pages, document activity | the hub knows what the pages have open, one socket per browser | `AppSocket` |
| Publish trigger policy, agent write policy | none (pure) | evaluate | coordinator, agents | agrees with the documented table | not modelled |
| HTTP reads, MCP, auth, import, diagnostics, UI | various | | | | not modelled |

Hard behaviours: Node interleaves handlers at every `await`; a lane command may
outlive its session, a close handler its socket, a timer the thing it was armed
for; pause frames carry no pause id and address documents, not sessions; three
operations (last editor leaving, delete, restore) tear a session down while
publishes and edits are under way; commits and settling fail half way; locks and
statuses are directories read before they are changed; a restart has only the
disk; an overlay is a copy of listings that may be stale when it is merged; a
page sleeps, wakes and reconnects at any moment; headings typed into a fragment
become sections later, on disk first and in the Y.Doc after, while people type on. `PROJECT.json` lists the
hazards at their lines, with the properties that watch them or the reason none
does.

## Modules

| Module | What it is |
|---|---|
| `PauseFsm` | the pause as a value and its methods as operators |
| `DocSession` | one document on the server: sockets, sessions, lanes, publish attempts, edits. Extends `PauseFsm` |
| `DocSession_proofs`, `AckedEdits_proofs` | theorems about `DocSession`, for every value of the constants, the second on top of the first: types, session maps, owners of edits, the pause, the chain of attempts and the freeze; then acknowledged edits and what a publish covers |
| `ProposalStore_proofs` | theorems about `ProposalStore`: types and the tree, status and locks, kept writes, publishing under the lock, the refinement |
| `EditorTab_proofs`, `EditorReceipts_proofs` | theorems about `EditorTab`, the second on top of the first: sockets, histories and the freeze; then the receipts |
| `GitBackup_proofs`, `Overlay_proofs`, `AppSocket_proofs` | theorems about the module of that name |
| `EditorTab` | tabs and their connections to the document: the client's side of the same channel |
| `ProposalLifecycle` | abstract: a proposal is opened, collects writes, and lands whole or is dropped |
| `ProposalStore` | directories, requests, publish steps, git, crashes, recovery; implements `ProposalLifecycle` |
| `Overlay` | the files of one document in canonical and in proposals, and the merge at publish |
| `LiveStructure` | the skeleton of one proposal and the live fragments that show it: edits, gate, settle, publish, reopen |
| `GitBackup` | servers sharing a backup remote: lockdown, index mutex, push, restore, restart |
| `AppSocket` | the application socket: pages, worker or elected leader, hub, activity snapshots |
| `MC*` | model values and symmetries for TLC |

The cuts between them: `EditorTab` takes the lane's work behind a frame as one
step, `DocSession` takes the client as one connection; `DocSession` takes a
commit as one step that may fail, `ProposalStore` opens it up; `ProposalStore`
takes a proposal's content as a set of writes to sections, `Overlay` opens that
up into listings and files; `DocSession` takes a structural change as an edit that
lives in the Y.Doc until it is settled, `LiveStructure` opens that up into headings
and sections; `GitBackup` takes a publish as the two halves that
matter to the index.

Operators whose comment starts with `Mutant:` are deliberately wrong versions
of the definition that follows them, kept so that each property can be shown to
fail when the code is wrong.

### How state and actions correspond to the code

An action is the code between two awaits that really wait. `Env` switches on,
per instance, what the environment may do (drops, restores, failures, crashes,
coincidences of requests); every flag is explained at the head of its module.

**DocSession.** A lane command that awaits is several actions: the head of
`lane[s]` is the running command and `Continued` replaces it by its continuation
(an update is `LaneGate` then `LaneMaterialize`; a publish is `LanePhase1`, the
wait off the lane, `LaneSettle`, `LaneCommit`; a delete is `LaneDelete` then
`LaneDeleteCommit` or `LaneDeleteAbandoned`). `current` and `promised` are the
document's entries in `sessions` and `sessionPromises`; a session's number stands
for its `liveYDocId`, `adopt` for its `proposalAdoptionId`. An edit is a number, and
texts are reduced to where it is: in the Y.Doc only (`dirty`), in the in-progress
proposal (`draft`), in canonical (`landed`), reverted by the acceptance gate
(`rejected`). `aprev` and `chain` are `publishChains`; a pause's `waiter` is the
attempt holding its promise. The quiescence trigger never publishes:
`buildQuiescencePublishSignals` always reports a blocker
(`backend/src/crdt/publish-trigger-signals.ts:60`), so `LaneQuiesce` only settles.
`CloseEvent` is the first half of the close handler, `LeaveDone` what follows its
publish; frames already received are handled after the close, the others are lost.

**EditorTab.** `tab[t]` is the page: the session's kind and pipe, the replica
(`gen` for the Y.Doc it is, `bound` for the session it took its history from, `own`
for its edits), and at most one provider with its counters. `sock[c]` is both ends
of a socket and its two FIFO channels. `OpenEditor` to `StopEditing` are clicks,
`Opened`, `Receive`, `ToldClosed` the socket's events, `Reconnect` the timer,
`Frame` the animation frame before a ready, `HandoffDone` the end of a handoff,
`Sleep` and `Wake` the page lifecycle. On the server, `Ask*`, `EditArrives`,
`ReadyArrives`, `SocketCloses` and `LastEditorLeaves` are the handlers,
`PauseStart`/`PauseEnd` a publish as a tab sees it, `Invalidate` and `Lockdown` the
three reasons for the server to close everything.

**ProposalStore.** `dir[p][status]` is `proposals/<status>/<id>`, with `meta.json`
possibly missing; `Locate` is `locateProposal`, `Holders` the lock index. `task[t]`
is a request between two awaits (`pc` says which) with what it has read: a
transition is the check, `WriteMeta`, `Rename`; a publish goes on through
`AbsorbEnter`, `AbsorbStart`, `AbsorbCopy`, `AbsorbCommit`, `AbsorbDone`, `Finalize` or
`Rollback` with `index` the queue of `withExclusiveDataRepoIndex`. `tree` and `head`
are the working tree and git's HEAD, `log` the publish commits. `Crash` empties all
memory; `Restart`, `DiscardPending`, `RecoverNext`, `RecoverDone`, `RecoveryFails` are
start-up. The HTTP use cases are the entries of `Request`.

**Overlay.** A tree is a function from file paths to listings or texts, two
levels deep, sections named by their file. `over[p]` is a proposal's sparse copy.
`WriteSection` copies one body file; the structural mutations first materialise
every listing (`ProposalShadowContentLayer`) and then edit them. `BeginPublish`
checks claims against ownership, `Absorb` is merge, deletion of files no listing
names, and the copy pass. A mutation is one step: the service runs it under its
proposal. Texts stand for who wrote them, headings for who gave them.

**LiveStructure.** `doc.skel` is the proposal's skeleton in document order with the
bodies, `doc.reg` and `doc.live` the registered keys and the fragments of the Y.Doc,
`touched` the fragments edited since they last settled. A fragment is a sequence of
blocks, headings `<<name, level>>` and words `<<n>>`; `Parse` is the markdown parser on
them. `TypeWord`, `TypeHeading`, `ChangeHeading` and `Erase` are an update that
`processArbitratedClientUpdate` accepts (`Accepted` is the gate) and, if the fragment
is clean, writes through (`Materialized`). `Settle` is the quiescence command,
`SettleOne` one turn of its loop, with the kinds of `classifyStructuralChange` as
its branches: `ReflectSplit` and `Retitle` on the proposal, `ShowSplit` and
`HideRemoved` on the Y.Doc. `Publish` is `finalizeAndEnd`, `Reopen` a session
rebuilt from the proposal. A throw leaves `doc.ok` false, and the process ends
there: the code calls it fatal. `Changes` names the structural changes an
instance's authors make.

**GitBackup.** `srv[i]` is a data directory and the process on it: history of
the branch, what `content/` and `auth/` show, local refs, the lockdown chain, the
index queue. `op[o]` is an admin request at its next git command. The remote is
two refs. A host may be lost and a fresh one restore.

**AppSocket.** `tab[t]` is `SessionWsManager`, `up[t][g]` the messages of the page's
g-th port (ports are separate channels and may overtake each other), `view[o]` what
the worker, or a page on the fallback, believes of the pages; `client[o]` its
socket and what it has applied to it; `sock[c]` both ends, the hub's documents and
identities, the command chain. `jobs[d]` is the chain of activity sends of a
document, built (`Build`) and sent (`Deliver`) across an await. `Tick` prunes any
silent peers and goes through the whole tick; `Hear` is a heartbeat received.

### The abstract specification

`ProposalLifecycle` has no directories, locks, git or crashes: `Open`, `Stage`,
`Empty`, `Land`, `Drop`. `ProposalStore` instantiates it with the fate of a proposal
read off the git log and its directory, its staged writes, and HEAD as content,
and the run `proposals` checks `ImplementsLifecycle`: each step of the store, crash
and recovery included, is one of those five or none. So a proposal lands
whole, in one step, at most once, with exactly the writes it held, and one that
was dropped never lands.

### Bounds

Every `Max*` constant bounds a counter and is named where it is declared.

* `DocSession`: two sockets (one that acks and one that does not, one that leaves
  and one that joins), two sessions (a stale and a live one), two edits, two to
  five attempts. `AttemptsToSpare` keeps forced publishes from using up the
  attempts the close handlers need, so no handler is cut off by a bound. One
  delete is queued at a time, while a client has less than `MaxBacklog` frames sent.
* `EditorTab`: `one_tab` has one tab, three sockets (the old, the dying and the new one), five sessions and one
  pause, with every kind of fault, one per behaviour. `EditorTab_tabs.cfg` has
  two tabs, two sessions, a restore and an observer that has not asked for its role
  yet, and passes with `OneHistory` too.
* `ProposalStore`: two proposals, two requests and the recovery, two sections, two
  writes, one failure and one crash at every place; the liveness run has one
  section and one write. A proposal has one request at a time and one lock check
  is pending at a time (`OneRequest`, `OneCheck`): the two flags that lift this
  lead to the divergences below.
* `Overlay`: two proposals with two mutations each on a document of a leaf and a
  parent with body holder and child; two levels are what a merge needs to get
  siblings, parents and their kind wrong.
* `LiveStructure`: two flat and two nested documents of two or three sections, three
  edits, two new names of which one is taken, two levels, one structurally dirty
  fragment at a time. Three edits are what it takes to split a section, change what
  came of it and delete a heading beside it. By hand and passing:
  `LiveStructure_nesting.cfg` (three names, three levels, two edits; also `TypeOK`,
  `RegisteredIsLayout`, `UniqueAddresses`, `ReopenKeepsText`) and
  `LiveStructure_deletions.cfg` (headings of a three-level document deleted one after
  the other, parents among them; `NestingFollowsLevels`). `SettleKeepsText` also
  holds on `TrioDocs` with `MaxDirty = 2`, `Names = {"C"}`, `Levels = {2}` and the changes
  root-split, section-split, heading-deletion: one fragment settles while the other
  is typed in. The kinds `leading-chunk`, `parent-split`, `nested-split`,
  `renamed-split` and `parent-deletion` are in no passing run but `deletions`: they
  lead to the divergences below.
* `GitBackup`: an old and a new host, three admin requests, two content commits,
  two writes and one fault.
* `AppSocket`: two pages, one document, three clicks, one change of its activity,
  one fault; `fallback` has two sockets, for the leader that goes and the one that
  comes. One socket in `hub` only delays a redial until the last socket is gone at
  both ends; with `MaxSockets = 2` and `MaxClicks = 2` they overlap, and the run
  passes too (three minutes).

Deadlock is checked in `LiveStructure` only, where a publish is always possible; in
the other instances edits, clicks, proposals run out and they really stop. Symmetry is used where only safety is checked.

## Runs

| Run | Question | Environment |
|---|---|---|
| publish | types, acknowledged edits kept, editors frozen, commits cover the frontier | drop, force, timeout, quiesce, failing commits and settling; one structural edit of two |
| teardown | restore, delete and leaving tear sessions down beside edits and publishes: one publisher, one session | drop, force, restore, delete |
| live | attempts end, editors thaw | drop, force, timeout |
| proposals | the store's safety and its refinement of the lifecycle | failing git steps, a crash anywhere |
| proposals_live | publishes end, the server comes back | the same, failing late and failing to roll back |
| one_tab | one tab through everything a connection can meet | drop, lockdown, sleep, expiry, restore, delete, unfocus |
| overlay | two proposals on one document | all mutations, in either order of publishing |
| backup | backups and restores beside publishes | failing git, lost answers, crash, lost disk, late writes |
| hub | two pages on one worker | drop, sleep |
| fallback | two pages that elect a leader | drop, sleep, close |
| sections | headings typed, changed and deleted become sections | settles, publishes and reopenings between any two edits |
| dropped_section | the violation described below | write, nest under a leaf |

The properties, in the order they matter:

* `AckedEditsKept`, `AckedBodyEditsKept` - an edit the server acknowledged is in
  canonical, in an in-progress proposal, or in the live Y.Doc, until a delete
  disposes of it. `AckedWritesKept` - the same for a write answered by the API:
  transitions, failures, crashes and recovery keep it.
* `OtherSectionsStand`, `OnlyTouchedChange` (refuted), `PublishesPreview`,
  `FilesThere`, `OneBodyHolder` - publishing an overlay leaves alone what the proposal
  has nothing to do with, makes of the document what the proposal's reader saw, leaves
  no listed file missing and gives a section with children one place for its text.
  `SameKinds` and the claims are the limits within which these hold; outside them are
  the divergences below.
* `SettleKeepsText`, `PublishKeepsText`, `CleanIsDurable`, `SettleSucceeds` - what the
  authors saw before a settle they see after it, and it is what a publish writes;
  a clean fragment is on disk, so only structurally dirty ones can be lost; what the
  gate accepted can be settled.
* `ImplementsLifecycle`, `HeadChangesUnderLock`, `OneHolder`, `OnePlace`, `TreeIsHead` -
  the store: landing whole and once, by the holder of the lock alone, one
  directory per proposal, no half publish in the working tree.
* `CommitCoversFrontier` - when a publish commits, every required socket still
  open has acked, and all it sent before that ack is in the commit.
* `OneHistory`, `EditsStayInSession` - no update meets a Y.Doc of another history,
  in a replica or on the server.
* `AllReceivedTrue`, `ReadyMeansQuiet`, `EditorsFrozen` - what a tab promises and
  shows: received means received (unless a connection of this replica lost a
  frame), ready means no more edits, and nobody types on in a pause.
* `BackupIsOneMoment`, `RecordedBackupIsThere`, `SnapshotFastForwards`,
  `ReadyTreeIsHead` - the two refs belong together, the record is true, a failed run
  does not block the next, a server in service works on HEAD's tree.
* `OnePublisher`, `OneLiveSession`, `NoStraySocket`, `HubKnowsTabs` - one attempt per
  pause, one session, one socket, and the hub's books agree with the pages'.
* `AttemptsEnd`, `FrozenEditorsThaw`, `EditorsGetLive`, `CommittingEnds`,
  `ServerComesBack`, `LockdownLifts`, `ActivityShown`, `OneLeader` - liveness.

*Fairness.* Weak fairness of what runs by itself: queued lane commands, handlers
of received frames, promise reactions, timers the code always arms, the close of
a socket the other side closed, the browser's frames, git commands that end, the
restart of a stopped process. Nothing is assumed of users, agents, administrators,
drops or failures. In `AppSocket` it is one weak fairness of all of the system's
steps together, which is less than one per step: enough, because the pages, faults
and changes end. A push that hangs for ever is outside `LockdownLifts`: the code
has no timeout for it. `CommittingEnds` and `ServerComesBack` name the two disks
recovery refuses for good (`GivenUp`).

## Where the code falls short of what it says

`dropped_section` is a listed run: a proposal that wrote the body of a leaf is
published after another has nested a section under that leaf; the body replaces
the listing and the new section is gone (`OnlyTouchedChange`, against "a section
canonical gained after the proposal opened is preserved on commit",
`backend/src/storage/canonical-store.ts:311`).

The following `.cfg` files each check one property that TLC refutes. They are kept
to reproduce the behaviour and are not part of the listed runs.

| Config | Property | What happens |
|---|---|---|
| `EditorTab_lost_edit` | `AllReceivedAlways` | an update lost with its connection: after the reconnect the tab shows every edit as received and the server has never seen it (`crdt-provider.ts:398`; `section-save-state.ts:11` promises "every local edit acknowledged received") |
| `EditorTab_stuck_pause` | `FreezesEnd` | `publishPaused` is not reset on close (`crdt-provider.ts:624`): the next pause start is ignored and the page stays frozen |
| `EditorTab_refused_editor` | `EditsComeFromEditors` | the first editor's arrival attaches an observer that has not asked, and the tab types as if it were an editor (`docs/architecture.md:137`, `crdt-ws-coordinator.ts:2494`) |
| `EditorTab_early_edit` | `OneHistory` | a key typed on a new connection before its bootstrap |
| `Overlay_same_heading` | `DistinctSiblings` | two proposals create siblings of the same heading; `loadWritableSkeleton` (`content-layer.ts:666`) looks at the overlay only |
| `LiveStructure_stale_path` | `SettleSucceeds` | a section and its child are renamed before one settle: all paths are read before the first change, so the child is not found and the settle throws (`crdt-ws-coordinator.ts:1161`; `:777` calls settle errors "P0 invariant failures", `:1071` says the "gate already REJECTED any client update whose settled structure would be" invalid) |
| `LiveStructure_same_heading` | `CleanIsDurable` | two authors type the same new heading into two sections before a settle: the gate counts other fragments by what has settled, and the second section is written over the first (`live-edit-structural-validation.ts:111`; `:174` says "Two sections cannot share the same heading path") |
| `LiveStructure_unaddressable` | `UniqueAddresses` | a heading is deleted above a child whose name a section outside has: the child is moved beside it (`document-skeleton.ts:1380`; `heading-addressability.ts:6`: "unaddressable: one hides the other") |
| `LiveStructure_moved_text` | `SettleKeepsText` | a heading of its own level typed into a section with children is created after the children it was typed above (`content-layer.ts:1258`; `legal-edit-publish-roundtrip.test.ts:168`: "every accepted shape publishes and assembles to what the author saw") |
| `LiveStructure_leading_chunk` | `CleanIsDurable` | words typed above a heading and in its body before one settle: the first move to the section before, the second stay in the Y.Doc alone though the fragment is clean now (`crdt-ws-coordinator.ts:1367`; `:1125` speaks of content that is not durable until this pass runs) |
| `AppSocket_fallback_shown` | `FallbackActivityShown` | on the fallback a second page that opens a document another has open gets no snapshot, which "the hub answers a subscribe with" (`useDocumentWebSocket.ts:181`); the worker repeats the open for it, the leader does not |
| `DocSession_hang` | `AttemptsEnd` | a restore ends a session in the middle of a pause; `end()` drops the resolver, and that attempt and all later ones wait for ever |
| `DocSession_stale_ack` | `NothingInFlightAtCommit` | an ack of a timed-out pause is counted for the next pause |
| `DocSession_two_proposals` | `OneProposal` | an update on a discarded session's lane creates a second in-progress proposal |
| `DocSession_late_timer` | `TimerHasItsSession` | a lane command arms the quiescence timer after the discard cancelled it (`crdt-ws-coordinator.ts:1031` says it cannot) |
| `DocSession_restore_overlap` | `AckedEditsKept` | a structural edit acknowledged between handoff and replacement is lost |
| `DocSession_delete_drops` | `AckedEditsKept` | an abandoned delete leaves edits only in the Y.Doc, which the last leaver discards |
| `DocSession_thawed_early` | `EditorsFrozen` | the end of a dead session's publish thaws the next session's editors (`crdt-ws-coordinator.ts:794`, against `docsession-publish-pause.ts:18`) |
| `DocSession_settle_drops` | `AckedEditsKept` | rebuilding after one fragment loses the fragments not yet settled (`crdt-ws-coordinator.ts:758`) |

TLC refutes these too, with the constants of the run named and the changes given:

| Run | Property | What happens |
|---|---|---|
| `DocSession_late_timer` | `HoldersAreConnected` | a socket closes during `acquireDocSession`, is attached afterwards, and pins the session |
| `EditorTab_refused_editor` with `MaxSockets = 4`, `MaxClicks = 4` | `AllReceivedTrue` | the refused editor's edit is dropped and never resent: after the editor is closed and opened again its counters start at zero, and the tab shows the edit as received |
| `proposals` with `Env = {"git_fails", "stop_anywhere"}` | `HeadChangesUnderLock` | a crash while two publishes are under way: recovery commits the tree of one under the name of the other (`docs/crash-recovery.md:56`) |
| `overlay` with `MaxOps = 1`, `Env = {"write", "delete"}` | `PublishesLand` | one writes a section another deletes: the body lands in a file no listing names |
| `overlay` with `MaxOps = 2`, `Env = {"create", "move"}` | `ListedOnce` | a section moved by two proposals is listed twice |
| `backup` | `BackupIsQuiet` | a proposal begins between the quiet check and the lockdown (`git-backup-service.ts:179`) |
| `backup` | `RestoreRewritesNothing` | the virgin check is as early: a restore resets a branch that has gained a commit |

Lifting an `Env` flag of a passing run shows more of this kind:

* `ProposalStore`, `same_moment`: two lock checks before either rename give a section
  two holders (`proposal-repository.ts:922`). `same_proposal`: a metadata write that
  lost against a rename brings the directory back (`:219`); two content mutations
  lose a claim. A failed human publish goes back to draft, though it was in
  progress. A failure after the git commit rolls the status back although it has
  landed. A rollback that fails leaves a dirty tree which the next `git add -A`
  commits under another name. A stop between the rename to committing and the
  check of the claims leaves a disk recovery refuses at every start.
* `EditorTab`, `unfocus` with `drop`: `reduceSession` throws when a lost connection is
  reported to a session the removal of its section has ended. A handoff that comes
  late closes an editor opened meanwhile (`useLiveSectionReplica.ts:356`).
* `GitBackup`, `checkout_fails`: a restore that fails after `SetHead` leaves a ready
  server whose next `git add -A` commits the deletion of everything
  (`git-backup-service.ts:410`); a stop at the same place makes start-up refuse.
* `Overlay`: a reorder is undone by a stale listing without a conflict; another's
  rename or delete makes a draft unpublishable (`canonical-store.ts:653`).
* `EditorTab`, `expiry` without `drop`: the lost edit of `EditorTab_lost_edit` again, when
  the frame after a token's expiry closes the socket. `Overlay`, `queued`: a proposal
  that waited in the queue publishes over what was published meanwhile
  (`OnlyTouchedChange`).
* `LiveStructure`, `nested-split`: `# B` typed above the heading `## B` of a child is
  accepted, and the settle throws, for the survivor's heading is below its own new
  sibling. `renamed-split` with `heading-rename`: a parent renamed and split before one
  settle moves text like `moved_text`. `BlankDocs`, two dirty fragments, root-split and
  heading-deletion: a deleted heading's settle dissolves the empty section above all
  headings with what is being typed into it (`content-layer.ts:1613`).
* `AppSocket`: a register that arrives after the state of a newer port forgets an
  identity without a `tab_gone`, so the hub keeps it until the socket closes; hence
  `HubKnowsTabs` asks for the identities the worker has, not for no others.

The passing runs stop where these begin; that is the boundary of what they show.

## Proofs

Each theorem holds for every value of the constants: any number of sockets,
sessions, proposals, requests, servers, edits and crashes. The named assumptions on
constants (`BoundsAssumption`, `StoreAssumption`, `BackupAssumption`, `TabAssumption`,
`AppSocketAssumption`, `EnvAssumption`) only say that bounds are naturals, that sets
are finite or disjoint where the code counts or tells them apart, that the tabs of
`EditorTab` are no more than its sockets (each starts with one), and that `Env` is a
set of known flags. Every invariant was
checked by TLC before it was proved.

A theorem that holds in part of the environments only says so as a hypothesis on
`Env`. Each such hypothesis takes away a behaviour that refutes the property (see
the section above), so none is there for the proof alone, except where noted; the
listed run that checks the property satisfies it.

### DocSession

* `TypeCorrect`: `Spec => []TypeOK`. Inductive as it stands; one lemma per action.
  Most of the work is that queues hold only commands and frames, and that a
  resumed attempt is a real one.
* `OneSessionAtATime`: `Spec => []OneLiveSession`. Not inductive alone: a second
  session could be under construction. `SessionMaps` adds that whatever is being
  constructed or live is the session `promised` names, and that session numbers
  beyond `nSessions` are unused. This is the statement that the check and the
  entry in `sessionPromises` are not separated by an await.
* `EditsStay`: `Spec => []EditsStayInSession`. `EditOwners` adds that an edit has
  one sender, that a socket is attached once, that the frames of a socket carry
  its own edits, and (`LanesOwned`) the property restated over whole lanes, which
  appending and popping preserve. Without the `liveYDocId` comparison in
  `isCurrentSessionEditor` exactly the step `ServerReceiveOwned` cannot be proved.

* `OnePublisherHolds`: `Spec => []OnePublisher`, in every environment. What the
  property says of the live session follows only if the lanes of all sessions agree
  with the attempts, so `Books` says it for each: a publish command on a lane is of an
  attempt of that session, at the stage the command stands for, and no attempt has
  two; the waiter of a pause is the attempt that waits; a session not yet live has
  neither; a delete only ever commits at the head of its lane. A session that has
  ended keeps its lane, and its attempts go on, so only the first parts hold for it.
* `EditorsStayFrozen`: `"delete" \notin Env` implies `Spec => []EditorsFrozen`. The end
  of any attempt thaws every open socket of the document, so the property needs that
  attempts of different sessions do not overlap: `ChainInOrder` (an attempt that has
  started finds all before it over) and `PauseHeld` (a pause is held by an attempt that
  has started). `Covers` is the property for every open socket, of what is on its wire
  in order: a start frame with no end frame behind it, or a client in the pause with
  no end frame coming, or only bootstraps of this pause. A delete freezes without a
  place in the chain, and `DocSession_thawed_early` refutes the property with it.
* `AckedBodyEditsHeld`: `Spec => []AckedBodyEditsKept`. An edit of section text is in the
  proposal before it is acknowledged, so what has to be shown is that whoever takes the
  proposal away has committed it (`BodyKept`). A delete takes the claim while its
  commit is under way and keeps it unless it is abandoned. Hypothesis: with `delete`, neither
  `delete_fails` nor `delete_in_restore`, the two ways to abandon one (`Apart` says that
  otherwise a restore and a delete are never there together).
* `AckedEditsHeld`: `Spec => []AckedEditsKept`, structural edits included. Those are
  acknowledged while they are only in the Y.Doc, and the last editor's close handler is
  all that writes them down before the session goes. `Safe` says so: an edit at risk is in
  the live session, and one of its holders guards it: an editor, which will publish when
  it leaves; a leaver whose attempt has yet to settle (`YetToSettle`, read off the
  attempt and the head of the lane); or one whose attempt threw, which never releases.
  It rests on `Seats` (the holders of a session are the sockets attached to it, at every
  step of leaving), `Tidy` (edits wait for a settle only in a session bound to a
  proposal, and none does when a publish commits) and `StructuralWait` (they are
  structural). Hypotheses: no restore (`DocSession_restore_overlap` refutes it) and no
  delete (`DocSession_delete_drops` does); with `settle_fails` one structural edit at
  most, which is what `publish` has, since the settle that fails between two loses one
  (`DocSession_settle_drops`).
* `CommitsCover`: `Spec => CommitCoversFrontier`, restores included. The argument
  follows an edit from its client to the commit. A wire is in order: a ready ack comes
  after the edits made before it (`SentInOrder`). An editor's edit is acknowledged, on a
  lane or on its wire, and one sent before the ack that was counted is acknowledged
  (`Delivery`): the ack is handled only when no update of its socket is on a lane,
  which is what the socket's `messageChain` is for. An acknowledged edit of an editor
  is refused, landed, or in the live session's proposal or Y.Doc (`HeldThere`), unless a
  restore holds the lock, and then no publish commits. A lane goes on to the commit
  only when all acks are in (`AcksIn`), they are of sockets attached to the session
  that is published (`OwnAcks`), and by `Tidy` nothing is left in its Y.Doc. `Seats`
  makes such a socket, if open, an editor of the live session. Hypothesis: not both
  `delete` and `delete_fails`: a delete whose own commit fails puts the proposal's
  content back in the Y.Doc only, and TLC then finds an edit acknowledged before the
  ack and missing in the next commit (`DocSession_teardown.cfg` with
  `delete_fails` and `quiesce` added).

### ProposalStore

The two modules build one invariant in layers; each layer is inductive given the
ones below it.

1. `Formed` (types): a request carries what it read at its start to steps that come
   much later, so `TypeOK` needs that what it carries is complete for its step, and
   that whoever is in the index queue has asked for it. Gives `TypeCorrect` and, with
   `DirtyOnlyInCopy`, `TreeAtRest`: without a holder of the index the tree is HEAD's.
   Hypothesis: a git reset that takes a failed copy back does not fail itself, which
   the code only logs.
2. `Placed`: one request at a time works on a proposal, and what it has read of the
   directory still holds when it moves it. Gives `StatusUnambiguous` (`OnePlace`).
   Hypothesis: without `same_proposal`, two requests on one proposal at once.
3. `ClaimOK`: between the check of the locks and the claim nobody else claims. Gives
   `LocksExclusive` (`OneHolder`). Hypothesis: also without `same_moment`, two requests
   between their check and their claim.
4. `History` (`FreshOK`, `KeptOK`), on top of 2: a write's number is its own, and each
   acknowledged one is followed from the directory it was answered in to the log.
   Gives `WritesKept` (`AckedWritesKept`), for every failure and stop the model has.
5. `PublishOK`, on top of 3: whatever in the tree differs from HEAD was put there by
   the copy of one proposal, and after a stop in the middle of that copy recovery
   finds that proposal and no other in committing. `git add -A` takes the whole
   tree, so this is what makes `HeadChangesUnderLock` true: `PublishUnderLock`.
   Hypotheses: `PublishEnv` and no `same_moment`; a rollback that fails, or a stop
   during two publishes, lets one proposal commit the tree of another.
6. `LandOK`, on top of 5: a proposal that has landed lies in committed, or still in
   committing with what it landed, which is what HEAD shows in its sections, since
   nobody could claim them meanwhile. So a commit that recovery makes again changes
   nothing, which is what `StoreImplementsLifecycle` turns on: initial states map
   to initial states, and every step to `Open`, `Stage`, `Empty`, `Land`, `Drop` or a
   stutter. Hypothesis `LifecycleEnv`: `Env \subseteq {"git_fails"}`, with crashes.

### GitBackup

`Ready` is one inductive invariant for the five safety properties. `ServerOK` is about
the two mutexes of a server: its index queue holds at most the publish and the first
request of the lockdown chain, in either order; the chain holds requests that are at
work there, each once; a process that is gone has left nothing. `LocalOK` is about a
request: past its fetch it is at the head of the index queue, hence alone (`Alone`),
so what it has read of its server still holds at its next step (`BackupOK`,
`RestoreOK`, `HeadOK`). `RecordOK` is `RecordedBackupIsThere`, kept because the
remote only grows (`RemoteGrows`, `PrefixTransitive`). `CommitsOK` bounds the commit
counter: recovery may make a commit beyond the bound, but one per server.
`HostStep` is the frame: a step of one server, with the remote no shorter, leaves
what the others rely on alone, so that each action needs to be looked at on its own
server only; `SettlesReady` and `GoesOnReady` do the same for the end and the middle
of a run.

* `TypeCorrect`, `OneMoment` (`BackupIsOneMoment`), `FastForward`
  (`SnapshotFastForwards`), `RecordTold` (`RecordedBackupIsThere`): in every
  environment, `checkout_fails`, which no listed run has, included.
* `TreeShown` (`ReadyTreeIsHead`): without `checkout_fails`, which refutes it.

### EditorTab

Four invariants: `Wired`, and on top of it `Base`, `PauseInv`, and on `Base`
`Receiving`, which is in a module of its own. The lemmas `...Does` say once what an
action does to the records of a page and of a socket; the proofs then speak of
records and not of actions.

* `WiredAlways`: `Spec => [](Typed /\ Wired)`, in every environment. `Owned` and `Known`
  tie both ends together: a socket that its client has not closed is the one its page
  has, and what a page has is its own; a page with a socket has no reconnect timer
  armed. `EditorsOK` says that the holders are sockets the server has as editors. It
  gives `TabsHaveNoStraySocket` (`NoStraySocket`): the stop of a provider, the timer, a wake
  and a handoff all give up the old socket before they make a new one, in any order.
* `UpdatesMeetTheirHistory`: `"early" \notin Env` implies `Spec => []OneHistory`. `Base`
  follows a history from the session to the replica: a socket that has joined has its
  session's number, its frames carry it until a later bootstrap, and the page it is
  connected to is bound to that session, or has the bootstrap ahead of it on the wire
  (`Linked`). `JoinedOK` says that of the live session's sockets alone, since the
  server may have closed the others. The hypothesis is what `EditorTab_early_edit`
  refutes: a key typed on a new connection before its bootstrap.
* `ReadyPagesAreQuiet`: `Spec /\ [][PauseStart => Drained]_vars => []ReadyMeansQuiet`.
  `PauseInv` says how far the freeze has come on each socket the pause asked: the start
  frame is still coming down; or the page has stopped and its ready waits for the
  animation frame, or is on its way up with no edit behind it, or has been counted.
  `Drained` is a hypothesis about when a pause starts: no ready, start or end of an
  earlier pause is on the wire of an editor, and its page has thawed. It is needed: a late ready of a pause that
  timed out counts for the next one, since frames carry no pause id, and with
  `MaxPauses = 2` TLC finds that behaviour (the client's side of `DocSession_stale_ack`).
* `FirstPauseIsQuiet`: without a second pause nothing has to be assumed of the
  channels: `MaxPauses <= 1` implies `Spec => []ReadyMeansQuiet`. `FirstPause` shows that
  before it starts no such frame exists, so `Drained` holds when it does. This is the
  instance `one_tab` checks.
* `ReceiptsAreTrue`: without `early` and `unasked`, `Spec => []AllReceivedTrue`, across
  any number of reconnects, supersessions, pauses and sessions. Three invariants make up
  `Receiving`:
  - `Channels`: what a socket may carry. Edits come only up a socket the server has as an
    editor, none behind a close, none on a connection that has no bootstrap yet; an ack
    on its way is no more than what was received; a page that has lost its socket, or has
    a broken one, knows it (`broke`).
  - `Mail`: the edits on their way. Each is of its owner's replica or of one given up;
    each socket has them in order; of a page's sockets one has them all (`Single`); and
    for a page in step with the session (`InStep`: bound to it, nothing lost) the edits
    of its replica that the server has not integrated are all on their way, and no
    others (`Flow`). So the one that arrives is the next one, and it is integrated
    (`ReceiptIsNext`): the server never counts an edit it leaves out.
  - `Counted`: for such a page `Have + sent = own + received`. A bootstrap sets both
    counters to zero when nothing is on its way, hence when the server has everything
    (`AllIn`); typing and receiving keep the equation. With `sent <= acked <= received`
    it says that the server has all of `own`.

  The steps are first sorted by what they do to the mail (`Stays`, `Moves`, `Opens`,
  `Boots`, `Type` of a page; `Tended`, `ReceiptStep` of the server), then each kind is
  shown to keep the three. `unasked` refutes the property (the table above). `early` is
  there for `Base`, and a run with it alone has refuted nothing. The loss of a frame is
  what `broke` leaves out; `EditorTab_lost_edit` shows that it has to.

### Overlay

`ListedFilesAreThere`: `Spec => []FilesThere`, for any number of proposals and mutations
and any order of publishing. The merge of two listings is a fold and stays opaque: the
proof needs nothing of what it returns. `absorb` compares the listings it is about to
write with the files there would be and throws if one is missing, so what has to be
shown is that the check sees all listings. An overlay whose root listing was never
written has bodies only (`OverlaysOK`): every structural mutation first materialises
all listings. Otherwise a listing could be copied into canonical by the pass
that copies bodies, past the check.

### AppSocket

`HubComesToKnow`: `Spec => []HubKnowsTabs`, in every environment and for any number of
pages, documents and sockets. The property speaks of sockets with nothing under way
and says nothing about the steps between. The invariant speaks of what the hub *will*
have: of the frames about a document (`WillShow`, `WillHide`) or a page (`WillKnow`,
`WillForget`) that are under way, up the socket and then in the command chain, the
last one says what the client has applied; and where there is none, the hub has it
already. `Told` says so of every open socket and its client, `WorkerOK` adds for the
worker that what it has applied is what its pages want. Every step of the hub moves a
frame along and changes none of the four (`Follows`); every step of a client adds
frames that say the difference (`SaidKeeps`), so what is to be shown of
`syncSocketState` and of the leader's two functions is that a difference of two sets
has a frame for each element that differs, and for no other (`DocFramesSay`,
`IdFramesSay`). `Linked` (a socket that is not closed is its client's only one) and
`SockOK` (the hub has nothing of a socket it does not have; an open that waits for its
snapshot is at the head of the chain) carry this across drops, hang-ups and redials;
`JobsOK` says that a snapshot job is the only one for its socket, which keeps its
delivery from taking another's turn in the chain. A job whose socket is gone is
addressed to `Nobody` (`HubClosed`). The invariant also gives the module's types
(`SocketTypes`).

### What stays with TLC

* Liveness, and with it fairness: out of the prover's reach.
* Induction over data: the folds over listings with which `Overlay` merges, the settle
  of `LiveStructure` and the reading of Markdown into blocks are recursive, and what they
  compute is only checked over bounded inputs. So `OtherSectionsStand`, `PublishesPreview`
  and `OneBodyHolder`, which say what a merge returns, and all of `LiveStructure`
  (`SettleSucceeds`, `CleanIsDurable` and the two that compare texts) are model-checked.
* A delete that succeeds may or may not keep `AckedEditsKept` (no run refutes it; the
  theorem leaves all deletes out).

Every safety property that the passing runs check of `DocSession`, `ProposalStore`,
`GitBackup`, `AppSocket` and `EditorTab` is proved, under the hypotheses above; of
`Overlay` one.

## Plan

1. *(done)* `PauseFsm`, `DocSession` and its theorems; `EditorTab`; `ProposalStore`
   with `ProposalLifecycle`; `GitBackup`; `Overlay`; `AppSocket`; `LiveStructure`.
2. Theorems. *(done)* `DocSession` with the pause, acknowledged edits and what commits
   cover; `ProposalStore` and its refinement; `GitBackup`; `EditorTab`; the files of
   `Overlay`; `AppSocket`. Next: of `LiveStructure` the lemmas about fragments (what a
   split keeps of a sequence of blocks) that need no induction.
3. `PublishPolicy` and `AgentWritePolicy` as operators, compared with the documented
   tables over bounded inputs.
4. Canonical changes and section moves in `LiveStructure`. Document renames and deletion in the proposal repository; foreign commits
   propagated into a live Y.Doc; private envelopes in `AppSocket`.

## Not modelled

Texts and their layout (Markdown is parsed into headings and words only, and
serialising is left out); upper and lower case and headings without text; what a failed settle leaves behind; awareness (it writes
nothing); live section moves and foreign commits propagated into a Y.Doc; the
admin rebuild (same teardown as restore with another close code); whole-document
replacement and tombstones in `Overlay`, where listings are two levels deep and have no
section before the first heading; document renames; the pure policies; authentication,
ACL, MCP, import, monitoring, HTTP reads and the user interface, which keep no
state the properties speak of. Git, the file system and the browser enter only
through the outcomes the code distinguishes.

## Running

    tlc -config DocSession_publish.cfg MCDocSession.tla
    tlc -config ProposalStore_proposals.cfg MCProposalStore.tla
    tlc -config EditorTab_one_tab.cfg MCEditorTab.tla
    tlc -config Overlay_overlay.cfg MCOverlay.tla
    tlc -config LiveStructure_sections.cfg MCLiveStructure.tla
    tlc -config GitBackup_backup.cfg MCGitBackup.tla
    tlc -config AppSocket_hub.cfg MCAppSocket.tla
    tlapm DocSession_proofs.tla      # then AckedEdits_proofs
    tlapm EditorTab_proofs.tla       # then EditorReceipts_proofs
    tlapm ProposalStore_proofs.tla   # also GitBackup, Overlay, AppSocket

Each listed run takes seconds to about three minutes.
