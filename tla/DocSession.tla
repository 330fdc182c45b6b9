----------------------------- MODULE DocSession -----------------------------
(***************************************************************************)
(* One document edited live: its DocSessions (ydoc-lifecycle.ts), the      *)
(* editor sockets and the per-session actor lane of the WebSocket          *)
(* coordinator (crdt-ws-coordinator.ts), the publish pause, the chain of   *)
(* publish attempts and the CRDT-owned in-progress proposal the session    *)
(* writes its edits to (crdt-proposal-generator.ts), together with the     *)
(* three operations that tear a session down from outside: last editor     *)
(* leaving, document delete and restore.                                   *)
(*                                                                         *)
(* Node runs one callback at a time, so the unit of atomicity is the code  *)
(* between two awaits: a handler that awaits file or git work is several   *)
(* actions, and every other handler may run between them.                  *)
(*                                                                         *)
(* A socket is used once: a client that reconnects is another socket.      *)
(* Each socket belongs to its own writer.                                  *)
(***************************************************************************)
EXTENDS PauseFsm, Sequences, FiniteSets

CONSTANTS
    MaxSessions,          \* bound: DocSessions constructed for the document
    MaxAttempts,          \* bound: publish attempts
    MaxEdits,             \* bound: local edits made by all clients together
    Structural,           \* the edits that change heading structure
    Env                   \* what the environment may do in an instance

EnvEvents == {"drop", "force", "quiesce", "restore", "delete", "timeout",
              "publish_fails", "settle_fails", "delete_fails",
              "delete_in_restore"}

ASSUME BoundsAssumption ==
    /\ MaxSessions \in Nat
    /\ MaxAttempts \in Nat
    /\ MaxEdits \in Nat
    /\ Structural \subseteq 1..MaxEdits
    /\ Env \subseteq EnvEvents

Sessions == 1..MaxSessions     \* a session's number is also its DocSessionId
Attempts == 1..MaxAttempts
Edits    == 1..MaxEdits

VARIABLES
    \* ydoc-lifecycle.ts
    sstate,     \* [Sessions -> state of the DocSession]
    current,    \* the entry of the sessions map for this document, 0 if none
    promised,   \* the entry of sessionPromises, 0 if none
    nSessions,  \* sessions constructed so far
    holders,    \* [Sessions -> sockets that hold the session as editors]
    lane,       \* [Sessions -> queue of lane commands, the head is running]
    pause,      \* [Sessions -> the session's publish pause]
    \* crdt-proposal-generator.ts and the proposals on disk
    adopt,      \* [Sessions -> the proposalAdoptionId, named by its first session]
    bound,      \* [Sessions -> boundProposalId is set]
    dirty,      \* [Sessions -> accepted edits that only the session's Y.Doc holds]
    inprog,     \* adoption ids with a proposal in inprogress/
    draft,      \* [Sessions -> edits in that proposal's content tree]
    tomb,       \* adoption ids whose proposal holds the document's tombstone
    \* crdt-ws-coordinator.ts
    nAttempts,  \* publish attempts made so far
    apc,        \* [Attempts -> where the attempt is]
    asess,      \* [Attempts -> the session it publishes]
    aprev,      \* [Attempts -> the attempt it waits for in publishChains, 0 if none]
    chain,      \* the entry of publishChains: the last attempt chained, 0 if none
    aout,       \* [Attempts -> outcome]
    armed,      \* the session that armed the quiescence timer, 0 if none
    deleting,   \* documentDeleteInFlight holds the document
    \* sockets, server side
    sock,       \* [Sockets -> connection state]
    acq,        \* [Sockets -> progress of the socket's mode transition]
    sid,        \* [Sockets -> docSessionId of the socket's state, 0 if detached]
    waits,      \* [Sockets -> attempt the close handler awaits, 0 if none]
    \* the wire and the client
    up,         \* [Sockets -> frames sent by the client and not yet handled]
    down,       \* [Sockets -> frames sent to the client]
    booted,     \* [Sockets -> the client has its Y.Doc and may mount editors]
    phase,      \* [Sockets -> where the client is in a publish pause]
    \* api/application/documents.ts restoreDocument
    rpc,        \* progress of the restore
    ratt,       \* its handoff publish attempt, 0 if none
    \* history
    nEdits,     \* edits made so far
    sent,       \* [Sockets -> edits the client sent on it]
    acked,      \* edits the server acknowledged (encodeUpdateAck)
    rejected,   \* edits the acceptance gate reverted
    landed,     \* edits that reached a canonical commit
    frontier    \* [Sockets -> last edit sent before its counted ready ack]

sessionVars  == <<sstate, current, promised, nSessions, holders>>
proposalVars == <<adopt, bound, dirty, inprog, draft, tomb>>
attemptVars  == <<nAttempts, apc, asess, aprev, chain, aout>>
socketVars   == <<sock, acq, sid, waits>>
wireVars     == <<up, down, booted, phase>>
restoreVars  == <<rpc, ratt>>
historyVars  == <<nEdits, sent, acked, rejected, landed, frontier>>
vars == <<sessionVars, lane, pause, proposalVars, attemptVars, armed, deleting,
          socketVars, wireVars, restoreVars, historyVars>>

SessionStates == {"none", "acquiring", "seeding", "active", "ended", "failed"}
AttemptStates == {"unused", "chained", "queued", "waiting", "finalizing", "done"}
Outcomes      == {"none", "committed", "noop", "aborted", "failed", "threw"}
SocketStates  == {"idle", "open", "editor", "closing", "leaving", "closed"}
ClientPhases  == {"open", "settling", "ready", "mirror"}
LaneOps == {"boot", "update", "materialize", "phase1", "ready", "aborted",
            "commit", "quiesce", "delete", "delete_commit"}

(* n is the edit of an update, the attempt of a publish command.             *)
Commands == {c \in [op : LaneOps, n : Nat, ks : SUBSET Sockets] :
                c.op \in {"update", "materialize"} => c.n \in Edits}
Command(op, n) == [op |-> op, n |-> n, ks |-> {}]

(* An update carries its edit, a ready ack (for the history) the last edit   *)
(* made before it.                                                           *)
Frames == {f \in [op : {"update", "ready"}, n : 0..MaxEdits] :
              f.op = "update" => f.n \in Edits}

(* Pause frames and bootstraps, the latter taken during a pause or not.      *)
Notices == {"start", "end", "boot", "boot_frozen"}

SessionsTyped ==
    /\ sstate \in [Sessions -> SessionStates]
    /\ current \in 0..MaxSessions /\ promised \in 0..MaxSessions
    /\ nSessions \in 0..MaxSessions
    /\ holders \in [Sessions -> SUBSET Sockets]
    /\ armed \in 0..MaxSessions /\ deleting \in BOOLEAN
LanesTyped  == lane \in [Sessions -> Seq(Commands)]
PausesTyped == pause \in [Sessions -> Pauses]
ProposalsTyped ==
    /\ adopt \in [Sessions -> Sessions]
    /\ bound \in [Sessions -> BOOLEAN]
    /\ dirty \in [Sessions -> SUBSET Edits]
    /\ inprog \subseteq Sessions /\ tomb \subseteq Sessions
    /\ draft \in [Sessions -> SUBSET Edits]
AttemptsTyped ==
    /\ nAttempts \in 0..MaxAttempts
    /\ apc \in [Attempts -> AttemptStates]
    /\ asess \in [Attempts -> 0..MaxSessions]
    /\ aprev \in [Attempts -> 0..MaxAttempts] /\ chain \in 0..MaxAttempts
    /\ aout \in [Attempts -> Outcomes]
SocketsTyped ==
    /\ sock \in [Sockets -> SocketStates]
    /\ acq \in [Sockets -> {"none", "head", "wait"}]
    /\ sid \in [Sockets -> 0..MaxSessions]
    /\ waits \in [Sockets -> 0..MaxAttempts]
WireTyped ==
    /\ up \in [Sockets -> Seq(Frames)]
    /\ down \in [Sockets -> Seq(Notices)]
    /\ booted \in [Sockets -> BOOLEAN]
    /\ phase \in [Sockets -> ClientPhases]
RestoreTyped ==
    /\ rpc \in {"idle", "handoff", "create", "locked", "done", "refused"}
    /\ ratt \in 0..MaxAttempts
HistoryTyped ==
    /\ nEdits \in 0..MaxEdits
    /\ sent \in [Sockets -> SUBSET Edits]
    /\ acked \subseteq Edits /\ rejected \subseteq Edits /\ landed \subseteq Edits
    /\ frontier \in [Sockets -> 0..MaxEdits]

TypeOK ==
    /\ SessionsTyped /\ LanesTyped /\ PausesTyped /\ ProposalsTyped
    /\ AttemptsTyped /\ SocketsTyped /\ WireTyped /\ RestoreTyped
    /\ HistoryTyped

Init ==
    /\ sstate = [s \in Sessions |-> "none"]
    /\ current = 0 /\ promised = 0 /\ nSessions = 0
    /\ holders = [s \in Sessions |-> {}]
    /\ lane = [s \in Sessions |-> << >>]
    /\ pause = [s \in Sessions |-> IdlePause]
    /\ adopt = [s \in Sessions |-> s]
    /\ bound = [s \in Sessions |-> FALSE]
    /\ dirty = [s \in Sessions |-> {}]
    /\ inprog = {} /\ tomb = {}
    /\ draft = [s \in Sessions |-> {}]
    /\ nAttempts = 0
    /\ apc = [a \in Attempts |-> "unused"]
    /\ asess = [a \in Attempts |-> 0]
    /\ aprev = [a \in Attempts |-> 0] /\ chain = 0
    /\ aout = [a \in Attempts |-> "none"]
    /\ armed = 0 /\ deleting = FALSE
    /\ sock = [k \in Sockets |-> "idle"]
    /\ acq = [k \in Sockets |-> "none"]
    /\ sid = [k \in Sockets |-> 0]
    /\ waits = [k \in Sockets |-> 0]
    /\ up = [k \in Sockets |-> << >>]
    /\ down = [k \in Sockets |-> << >>]
    /\ booted = [k \in Sockets |-> FALSE]
    /\ phase = [k \in Sockets |-> "open"]
    /\ rpc = "idle" /\ ratt = 0
    /\ nEdits = 0
    /\ sent = [k \in Sockets |-> {}]
    /\ acked = {} /\ rejected = {} /\ landed = {}
    /\ frontier = [k \in Sockets |-> 0]

-----------------------------------------------------------------------------
(* Coordinator queries.                                                     *)

OpenSockets   == {k \in Sockets : sock[k] \in {"open", "editor"}}
ActiveEditors == {k \in Sockets : sock[k] = "editor"}

(* The socket's messageChain is inside a handler: a mode transition, or an  *)
(* update whose lane command has not finished.                              *)
Busy(k) ==
    \/ acq[k] # "none"
    \/ \E s \in Sessions : \E i \in 1..Len(lane[s]) :
          lane[s][i].op \in {"update", "materialize"} /\ lane[s][i].n \in sent[k]

Enqueued(l, s, c) == [l EXCEPT ![s] = Append(@, c)]
Popped(l, s)      == [l EXCEPT ![s] = Tail(@)]
(* The running command goes on to its next await.                           *)
Continued(l, s, c) == [l EXCEPT ![s] = <<c>> \o Tail(@)]

Broadcast(d, f) ==
    [k \in Sockets |-> IF k \in OpenSockets THEN Append(d[k], f) ELSE d[k]]

(* The session's pause becomes q.  If that resolves an attempt's promise,   *)
(* the attempt enqueues finalizeAndEnd with the outcome.                     *)
LaneAfter(s, q) ==
    LET a == PauseResumes(pause[s], q)
    IN  IF a = 0 THEN lane ELSE Enqueued(lane, s, Command(q.state, a))
ApcAfter(s, q) ==
    LET a == PauseResumes(pause[s], q)
    IN  IF a = 0 THEN apc ELSE [apc EXCEPT ![a] = "finalizing"]
PauseStep(s, q) ==
    /\ pause' = [pause EXCEPT ![s] = q]
    /\ lane' = LaneAfter(s, q)
    /\ apc' = ApcAfter(s, q)
    /\ UNCHANGED <<nAttempts, asess, aprev, chain, aout>>

(* runPublishAttempt: a new attempt behind the document's unfinished ones.   *)
(* pc is where the attempts are after the rest of the step.                  *)
NewAttempt(s, pc) ==
    LET a == nAttempts + 1
    IN  /\ a \in Attempts
        /\ nAttempts' = a
        /\ apc' = [pc EXCEPT ![a] = "chained"]
        /\ asess' = [asess EXCEPT ![a] = s]
        /\ aprev' = [aprev EXCEPT ![a] = chain]
        /\ chain' = a
        /\ UNCHANGED aout

(* Attempts left for the close handlers of the sockets still attached, so    *)
(* that the bound MaxAttempts never stops one of them.                       *)
AttemptsToSpare ==
    nAttempts + Cardinality({k \in Sockets : sock[k] # "closed"}) < MaxAttempts

(* Mutant: a publish result reaches the caller under its repository name.    *)
OutcomeNotMapped(a, outcome) ==
    /\ apc' = [apc EXCEPT ![a] = "done"]
    /\ aout' = [aout EXCEPT ![a] =
                  IF outcome = "failed" THEN "returned_to_inprogress" ELSE outcome]
    /\ chain' = IF chain = a THEN 0 ELSE chain
    /\ UNCHANGED <<nAttempts, asess, aprev>>

(* The attempt's promise resolves; publishChains forgets it if it is last.   *)
Finish(a, outcome) ==
    /\ apc' = [apc EXCEPT ![a] = "done"]
    /\ aout' = [aout EXCEPT ![a] = outcome]
    /\ chain' = IF chain = a THEN 0 ELSE chain
    /\ UNCHANGED <<nAttempts, asess, aprev>>

(* Mutant: a torn down session stays in the maps.                            *)
GoneInNameOnly(s) ==
    /\ sstate' = [sstate EXCEPT ![s] = "ended"]
    /\ armed' = 0
    /\ UNCHANGED <<current, promised, nSessions>>

(* discardSession and the invalidations: out of both maps, timer cancelled.  *)
SessionGone(s) ==
    /\ sstate' = [sstate EXCEPT ![s] = "ended"]
    /\ current' = 0 /\ promised' = 0 /\ armed' = 0
    /\ UNCHANGED nSessions

(* invalidateSessionForReplacement, invalidateSessionForDocumentDelete: close *)
(* every open socket of the document and tear the live session down.  p is   *)
(* the pause after what the caller did to it in the same step.               *)
Invalidated(p) ==
    /\ sock' = [k \in Sockets |->
                   IF k \in OpenSockets THEN "closing" ELSE sock[k]]
    /\ IF current = 0
       THEN pause' = p /\ UNCHANGED <<sstate, current, promised, nSessions, armed>>
       ELSE /\ SessionGone(current)
            /\ pause' = [p EXCEPT ![current] = PauseEnded(@)]
    /\ UNCHANGED <<holders, acq, sid, waits>>

-----------------------------------------------------------------------------
(* Sockets and the session they edit: applyModeTransition and               *)
(* acquireDocSession.                                                        *)

Connect(k) ==
    /\ sock[k] = "idle"
    /\ sock' = [sock EXCEPT ![k] = "open"]
    /\ acq' = [acq EXCEPT ![k] = "head"]
    /\ UNCHANGED <<sessionVars, lane, pause, proposalVars, attemptVars, armed,
                   deleting, sid, waits, wireVars, restoreVars, historyVars>>

(* The awaits of applyModeTransition do not look at the socket again: one   *)
(* that closed meanwhile is attached all the same.                          *)
Attach(ks, s) ==
    /\ acq' = [k \in Sockets |-> IF k \in ks THEN "none" ELSE acq[k]]
    /\ sid' = [k \in Sockets |-> IF k \in ks THEN s ELSE sid[k]]
    /\ sock' = [k \in Sockets |->
                  IF k \in ks /\ sock[k] = "open" THEN "editor" ELSE sock[k]]
    /\ holders' = [holders EXCEPT ![s] = @ \cup ks]
    /\ lane' = Enqueued(lane, s, [op |-> "boot", n |-> 0, ks |-> ks])
    /\ UNCHANGED waits

(* A handler that throws closes its socket with 1011.                       *)
ClosedByServer(ks) ==
    sock' = [k \in Sockets |->
               IF k \in ks \cap OpenSockets THEN "closing" ELSE sock[k]]

(* Mutant: the live session is looked up instead of the promise.             *)
NoLiveSessionYet == current = 0

(* acquireDocSession finds no promise to share, nor a session behind one.     *)
MustConstruct == promised = 0

(* acquireDocSession after getHeadSha: construct, wait for the construction *)
(* in flight, join the live session, or meet the rejected promise that a    *)
(* failed construction left in the map.                                     *)
Acquire(k) ==
    /\ acq[k] = "head"
    /\ \/ /\ MustConstruct
          /\ nSessions < MaxSessions
          /\ nSessions' = nSessions + 1
          /\ promised' = nSessions + 1
          /\ sstate' = [sstate EXCEPT ![nSessions + 1] = "acquiring"]
          /\ acq' = [acq EXCEPT ![k] = "wait"]
          /\ UNCHANGED <<current, holders, lane, sock, sid, waits>>
       \/ /\ promised # 0
          /\ sstate[promised] \in {"acquiring", "seeding"}
          /\ acq' = [acq EXCEPT ![k] = "wait"]
          /\ UNCHANGED <<sessionVars, lane, sock, sid, waits>>
       \/ /\ promised # 0
          /\ sstate[promised] = "active"
          /\ Attach({k}, promised)
          /\ UNCHANGED <<sstate, current, promised, nSessions>>
       \/ /\ promised # 0
          /\ sstate[promised] = "failed"
          /\ acq' = [acq EXCEPT ![k] = "none"]
          /\ ClosedByServer({k})
          /\ UNCHANGED <<sessionVars, lane, sid, waits>>
    /\ UNCHANGED <<pause, proposalVars, attemptVars, armed, deleting, wireVars,
                   restoreVars, historyVars>>

Acquirers == {k \in Sockets : acq[k] = "wait"}

(* constructDocSession reads the proposals directory and adopts the         *)
(* document's in-progress proposal; two of them are refused.                *)
ConstructRead(s) ==
    /\ sstate[s] = "acquiring"
    /\ IF Cardinality(inprog) > 1
       THEN /\ sstate' = [sstate EXCEPT ![s] = "failed"]
            /\ acq' = [k \in Sockets |-> IF k \in Acquirers THEN "none" ELSE acq[k]]
            /\ ClosedByServer(Acquirers)
            /\ UNCHANGED <<adopt, bound>>
       ELSE /\ sstate' = [sstate EXCEPT ![s] = "seeding"]
            /\ \E id \in (IF inprog = {} THEN {s} ELSE inprog) :
                  adopt' = [adopt EXCEPT ![s] = id]
            /\ bound' = [bound EXCEPT ![s] = inprog # {}]
            /\ UNCHANGED <<acq, sock>>
    /\ UNCHANGED <<current, promised, nSessions, holders, lane, pause, dirty,
                   inprog, draft, tomb, attemptVars, armed, deleting, sid, waits,
                   wireVars, restoreVars, historyVars>>

ConstructDone(s) ==
    /\ sstate[s] = "seeding"
    /\ sstate' = [sstate EXCEPT ![s] = "active"]
    /\ current' = s
    /\ Attach(Acquirers, s)
    /\ UNCHANGED <<promised, nSessions, pause, proposalVars, attemptVars, armed,
                   deleting, wireVars, restoreVars, historyVars>>

-----------------------------------------------------------------------------
(* The session's actor lane: one command at a time, each to its next await.  *)

Running(s, op) == lane[s] # << >> /\ Head(lane[s]).op = op
Arg(s) == Head(lane[s]).n
Sender(e) == {k \in Sockets : e \in sent[k]}

(* encodeUpdateAck reaches only an open socket.                              *)
AckedWith(e) == IF Sender(e) \subseteq OpenSockets THEN acked \cup {e} ELSE acked

(* The proposal the generator is bound to is in inprogress/.                 *)
ProposalFound(s) == bound[s] /\ adopt[s] \in inprog

(* Mutant: the bootstrap says nothing of the pause in progress.              *)
BootUnfrozen(s) ==
    /\ Running(s, "boot")
    /\ lane' = Popped(lane, s)
    /\ down' = [k \in Sockets |->
                  IF k \in Head(lane[s]).ks \cap OpenSockets /\ sstate[s] = "active"
                  THEN Append(down[k], "boot") ELSE down[k]]
    /\ UNCHANGED <<sessionVars, pause, proposalVars, attemptVars, armed, deleting,
                   socketVars, up, booted, phase, restoreVars, historyVars>>

(* sendLiveSectionsBootstrap                                                 *)
LaneBoot(s) ==
    LET frame == IF PauseIsActive(pause[s]) THEN "boot_frozen" ELSE "boot"
    IN  /\ Running(s, "boot")
        /\ lane' = Popped(lane, s)
        /\ down' = [k \in Sockets |->
                      IF k \in Head(lane[s]).ks \cap OpenSockets /\ sstate[s] = "active"
                      THEN Append(down[k], frame) ELSE down[k]]
        /\ UNCHANGED <<sessionVars, pause, proposalVars, attemptVars, armed, deleting,
                       socketVars, up, booted, phase, restoreVars, historyVars>>

(* Mutant: an edit is acknowledged before it is written to the proposal.     *)
AckedAtTheGate(s) ==
    /\ Running(s, "update")
    /\ ~(bound[s] /\ adopt[s] \in tomb) /\ rpc # "locked"
    /\ acked' = AckedWith(Arg(s))
    /\ lane' = Continued(lane, s, Command("materialize", Arg(s)))
    /\ UNCHANGED <<sessionVars, pause, proposalVars, attemptVars, armed, deleting,
                   socketVars, wireVars, restoreVars,
                   nEdits, sent, rejected, landed, frontier>>

(* processArbitratedClientUpdate up to the verdict of the acceptance gate.   *)
(* The edit is refused while a restore holds the document's lock; a          *)
(* tombstoned proposal has no layout to address it in, and the gate throws.  *)
LaneGate(s) ==
    LET e == Arg(s)
    IN  /\ Running(s, "update")
        /\ \/ /\ bound[s] /\ adopt[s] \in tomb
              /\ ClosedByServer(Sender(e))
              /\ lane' = Popped(lane, s)
              /\ UNCHANGED <<acked, rejected>>
           \/ /\ ~(bound[s] /\ adopt[s] \in tomb)
              /\ rpc = "locked"
              /\ rejected' = rejected \cup {e}
              /\ acked' = AckedWith(e)
              /\ lane' = Popped(lane, s)
              /\ UNCHANGED sock
           \/ /\ ~(bound[s] /\ adopt[s] \in tomb)
              /\ rpc # "locked"
              /\ lane' = Continued(lane, s, Command("materialize", e))
              /\ UNCHANGED <<acked, rejected, sock>>
        /\ UNCHANGED <<sessionVars, pause, proposalVars, attemptVars, armed, deleting,
                       acq, sid, waits, wireVars, restoreVars,
                       nEdits, sent, landed, frontier>>

(* ... and from there to the ack: materializeEdit writes a body edit to the  *)
(* proposal, ensureAuthoredProposalClaiming only claims a structural one.    *)
(* Neither looks at session.state.                                           *)
LaneMaterialize(s) ==
    LET e == Arg(s)
        lost == bound[s] /\ adopt[s] \notin inprog
    IN  /\ Running(s, "materialize")
        /\ lane' = Popped(lane, s)
        /\ \/ /\ lost
              /\ ClosedByServer(Sender(e))
              /\ UNCHANGED <<inprog, bound, draft, dirty, acked, armed>>
           \/ /\ ~lost
              /\ inprog' = inprog \cup {adopt[s]}
              /\ bound' = [bound EXCEPT ![s] = TRUE]
              /\ IF e \in Structural
                 THEN dirty' = [dirty EXCEPT ![s] = @ \cup {e}] /\ UNCHANGED draft
                 ELSE draft' = [draft EXCEPT ![adopt[s]] = @ \cup {e}] /\ UNCHANGED dirty
              /\ acked' = AckedWith(e)
              /\ armed' = IF deleting THEN armed ELSE s
              /\ UNCHANGED sock
        /\ UNCHANGED <<sessionVars, pause, adopt, tomb, attemptVars, deleting,
                       acq, sid, waits, wireVars, restoreVars,
                       nEdits, sent, rejected, landed, frontier>>

(* runPublishAttemptInner, first lane command: nothing to publish, a pause   *)
(* already in progress, nobody to wait for, or wait off the lane.            *)
LanePhase1(s) ==
    LET a == Arg(s)
    IN  /\ Running(s, "phase1")
        /\ \/ /\ ~bound[s] \/ pause[s].state # "idle"
              /\ Finish(a, "noop")
              /\ lane' = Popped(lane, s)
              /\ UNCHANGED <<pause, down>>
           \/ /\ bound[s] /\ pause[s].state = "idle"
              /\ pause' = [pause EXCEPT ![s] = PauseStarted(ActiveEditors, a)]
              /\ down' = Broadcast(down, "start")
              /\ IF ActiveEditors = {}
                 THEN /\ lane' = Continued(lane, s, Command("ready", a))
                      /\ apc' = [apc EXCEPT ![a] = "finalizing"]
                 ELSE /\ lane' = Popped(lane, s)
                      /\ apc' = [apc EXCEPT ![a] = "waiting"]
              /\ UNCHANGED <<nAttempts, asess, aprev, chain, aout>>
        /\ UNCHANGED <<sessionVars, proposalVars, armed, deleting, socketVars,
                       up, booted, phase, restoreVars, historyVars>>

(* Mutant: an aborted attempt does not tell the editors.                     *)
AbortedQuietly(s, a, outcome) ==
    /\ Finish(a, outcome)
    /\ pause' = [pause EXCEPT ![s] = PauseEnded(@)]
    /\ down' = IF outcome = "aborted" THEN down ELSE Broadcast(down, "end")
    /\ lane' = Popped(lane, s)

(* finalizeAndEnd returns or throws: the finally block ends the pause and    *)
(* tells everyone.                                                           *)
EndAttempt(s, a, outcome) ==
    /\ Finish(a, outcome)
    /\ pause' = [pause EXCEPT ![s] = PauseEnded(@)]
    /\ down' = Broadcast(down, "end")
    /\ lane' = Popped(lane, s)

(* finalizeAndEnd(ready = false)                                             *)
LaneAbort(s) ==
    /\ Running(s, "aborted")
    /\ EndAttempt(s, Arg(s), "aborted")
    /\ UNCHANGED <<sessionVars, proposalVars, armed, deleting, socketVars,
                   up, booted, phase, restoreVars, historyVars>>

(* settleLiveFragments: settling takes edits out of the Y.Doc's sole keeping *)
(* and into the proposal.                                                    *)
Settled(s, d) ==
    /\ dirty' = [dirty EXCEPT ![s] = @ \ d]
    /\ draft' = [draft EXCEPT ![adopt[s]] = @ \cup d]

(* A tombstoned proposal, or one that is no longer in progress, cannot take  *)
(* structural changes: normalizeQuiescedStructure throws.                    *)
CannotSettle(s) ==
    /\ bound[s]
    /\ adopt[s] \in tomb \/ (adopt[s] \notin inprog /\ dirty[s] # {})

(* finalizeAndEnd(ready = true) up to finalizeAndPublish.  settleLiveStructure *)
(* works on every fragment.                                                  *)
LaneSettle(s) ==
    LET a == Arg(s)
    IN  /\ Running(s, "ready")
        /\ IF CannotSettle(s)
           THEN EndAttempt(s, a, "threw") /\ UNCHANGED <<dirty, draft>>
           ELSE /\ IF bound[s] THEN Settled(s, dirty[s]) ELSE UNCHANGED <<dirty, draft>>
                /\ IF sstate[s] = "active"
                   THEN /\ lane' = Continued(lane, s, Command("commit", a))
                        /\ UNCHANGED <<pause, down, attemptVars>>
                   ELSE EndAttempt(s, a, "failed")
        /\ UNCHANGED <<sessionVars, adopt, bound, inprog, tomb, armed, deleting,
                       socketVars, up, booted, phase, restoreVars, historyVars>>

(* A structural change reached the proposal and could not be applied to the  *)
(* live Y.Doc: the document's live session is discarded for the next acquire *)
(* to rebuild.  The fragments after it are not looked at.                    *)
SettledBadly(s) ==
    /\ "settle_fails" \in Env
    /\ ProposalFound(s) /\ adopt[s] \notin tomb
    /\ \E d \in SUBSET dirty[s] : d # {} /\ Settled(s, d)

LaneSettleBadly(s) ==
    /\ Running(s, "ready")
    /\ SettledBadly(s)
    /\ Invalidated([pause EXCEPT ![s] = PauseEnded(@)])
    /\ Finish(Arg(s), "failed")
    /\ lane' = Popped(lane, s)
    /\ UNCHANGED <<adopt, bound, inprog, tomb, deleting, wireVars, restoreVars,
                   historyVars>>

(* Mutant: a publish that fails is not returned to inprogress/.              *)
CommitNotRolledBack(s) ==
    /\ Running(s, "commit")
    /\ ProposalFound(s)
    /\ rpc = "locked" \/ "publish_fails" \in Env
    /\ EndAttempt(s, Arg(s), "failed")
    /\ bound' = [bound EXCEPT ![s] = FALSE]
    /\ inprog' = inprog \ {adopt[s]}
    /\ UNCHANGED <<sessionVars, adopt, dirty, draft, tomb, armed, deleting, socketVars,
                   up, booted, phase, restoreVars, historyVars>>

(* generator.finalizeAndPublish: nothing found, refused by the lock of a     *)
(* restore or failing on the way, or committed.                              *)
LaneCommit(s) ==
    LET a == Arg(s)
        id == adopt[s]
    IN  /\ Running(s, "commit")
        /\ \/ /\ ~ProposalFound(s)
              /\ EndAttempt(s, a, "noop")
              /\ bound' = [bound EXCEPT ![s] = FALSE]
              /\ UNCHANGED <<inprog, draft, landed>>
           \/ /\ ProposalFound(s)
              /\ rpc = "locked" \/ "publish_fails" \in Env
              /\ EndAttempt(s, a, "failed")
              /\ UNCHANGED <<bound, inprog, draft, landed>>
           \/ /\ ProposalFound(s)
              /\ rpc # "locked"
              /\ EndAttempt(s, a, "committed")
              /\ bound' = [bound EXCEPT ![s] = FALSE]
              /\ inprog' = inprog \ {id}
              /\ landed' = landed \cup draft[id]
              /\ draft' = [draft EXCEPT ![id] = {}]
        /\ UNCHANGED <<sessionVars, adopt, dirty, tomb, armed, deleting, socketVars,
                       up, booted, phase, restoreVars,
                       nEdits, sent, acked, rejected, frontier>>

(* runQuiescenceCommand settles the fragments that have been quiet.  It      *)
(* never publishes: buildQuiescencePublishSignals reports                    *)
(* noBurstOrCompositionInProgress = false, which the policy takes as a       *)
(* blocker.                                                                  *)
LaneQuiesce(s) ==
    /\ Running(s, "quiesce")
    /\ lane' = Popped(lane, s)
    /\ \/ /\ sstate[s] # "active" \/ ~bound[s] \/ CannotSettle(s)
          /\ UNCHANGED <<sessionVars, pause, dirty, draft, armed, socketVars>>
       \/ /\ sstate[s] = "active" /\ bound[s] /\ ~CannotSettle(s)
          /\ \E d \in SUBSET dirty[s] :
                /\ Settled(s, d)
                /\ armed' = IF d # dirty[s] /\ ~deleting THEN s ELSE armed
          /\ UNCHANGED <<sessionVars, pause, socketVars>>
       \/ /\ sstate[s] = "active"
          /\ SettledBadly(s)
          /\ Invalidated(pause)
    /\ UNCHANGED <<adopt, bound, inprog, tomb, attemptVars, deleting, wireVars,
                   restoreVars, historyVars>>

(* Mutant: the delete does not look whether a publish pause is on.           *)
DeleteDuringPublish(s) ==
    /\ Running(s, "delete") /\ sstate[s] = "active"
    /\ deleting' = TRUE
    /\ armed' = 0
    /\ pause' = [pause EXCEPT ![s] = PauseStarted(ActiveEditors, 0)]
    /\ down' = Broadcast(down, "start")
    /\ lane' = Continued(lane, s, Command("delete_commit", 0))
    /\ UNCHANGED <<sessionVars, proposalVars, attemptVars, socketVars,
                   up, booted, phase, restoreVars, historyVars>>

(* runDocumentDeleteCommand: refuse, or freeze the editors without waiting   *)
(* for them ...                                                              *)
LaneDelete(s) ==
    /\ Running(s, "delete")
    /\ \/ /\ sstate[s] # "active" \/ pause[s].state # "idle"
          /\ lane' = Popped(lane, s)
          /\ UNCHANGED <<pause, down, armed, deleting>>
       \/ /\ sstate[s] = "active" /\ pause[s].state = "idle"
          /\ deleting' = TRUE
          /\ armed' = 0
          /\ pause' = [pause EXCEPT ![s] = PauseStarted(ActiveEditors, 0)]
          /\ down' = Broadcast(down, "start")
          /\ lane' = Continued(lane, s, Command("delete_commit", 0))
    /\ UNCHANGED <<sessionVars, proposalVars, attemptVars, socketVars,
                   up, booted, phase, restoreVars, historyVars>>

(* ... and, once the tombstone is published on the session's own proposal,   *)
(* dispose of the document and its session.                                  *)
LaneDeleteCommit(s) ==
    LET id == adopt[s]
    IN  /\ Running(s, "delete_commit")
        /\ bound[s] => id \in inprog
        /\ rpc # "locked"
        /\ landed' = landed \cup acked
        /\ inprog' = inprog \ {id}
        /\ tomb' = tomb \ {id}
        /\ draft' = [draft EXCEPT ![id] = {}]
        /\ dirty' = [dirty EXCEPT ![s] = {}]
        /\ bound' = [bound EXCEPT ![s] = TRUE]
        /\ Invalidated(pause)
        /\ deleting' = FALSE
        /\ lane' = Popped(lane, s)
        /\ UNCHANGED <<adopt, attemptVars, wireVars, restoreVars,
                       nEdits, sent, acked, rejected, frontier>>

(* abandonDelete: by the time the commit fails the tombstone has replaced    *)
(* the proposal's content.                                                   *)
LaneDeleteAbandoned(s) ==
    LET id   == adopt[s]
        lost == bound[s] /\ id \notin inprog
    IN  /\ Running(s, "delete_commit")
        /\ lost \/ rpc = "locked" \/ "delete_fails" \in Env
        /\ IF lost THEN UNCHANGED <<inprog, tomb, draft, dirty>>
           ELSE /\ inprog' = inprog \cup {id}
                /\ tomb' = tomb \cup {id}
                /\ dirty' = [dirty EXCEPT ![s] = @ \cup draft[id]]
                /\ draft' = [draft EXCEPT ![id] = {}]
        /\ bound' = [bound EXCEPT ![s] = TRUE]
        /\ pause' = [pause EXCEPT ![s] = PauseEnded(@)]
        /\ down' = Broadcast(down, "end")
        /\ deleting' = FALSE
        /\ lane' = Popped(lane, s)
        /\ UNCHANGED <<sessionVars, adopt, attemptVars, armed, socketVars,
                       up, booted, phase, restoreVars, historyVars>>

-----------------------------------------------------------------------------
(* Frames from the clients: handleMessage.                                   *)

(* Mutant: any attached socket may edit.                                     *)
IsSomeSessionEditor(k) == current # 0 /\ sid[k] # 0

IsCurrentSessionEditor(k) == current # 0 /\ sid[k] = current

(* The socket's messageChain handles one frame at a time and outlives the    *)
(* socket.  A frame for no session is dropped, one from a socket of an older *)
(* session closes that socket.                                               *)
ServerReceive(k) ==
    LET f == Head(up[k])
    IN  /\ up[k] # << >> /\ ~Busy(k)
        /\ up' = [up EXCEPT ![k] = Tail(@)]
        /\ \/ /\ ~IsCurrentSessionEditor(k)
              /\ IF current = 0 THEN UNCHANGED sock ELSE ClosedByServer({k})
              /\ UNCHANGED <<lane, pause, attemptVars, frontier>>
           \/ /\ IsCurrentSessionEditor(k)
              /\ f.op = "update"
              /\ lane' = Enqueued(lane, current, Command("update", f.n))
              /\ UNCHANGED <<sock, pause, attemptVars, frontier>>
           \/ /\ IsCurrentSessionEditor(k)
              /\ f.op = "ready"
              /\ PauseStep(current, PauseMarkReady(pause[current], k))
              /\ frontier' = IF pause[current].state = "pausing"
                                /\ k \in pause[current].required
                             THEN [frontier EXCEPT ![k] = f.n] ELSE frontier
              /\ UNCHANGED sock
        /\ UNCHANGED <<sessionVars, proposalVars, armed, deleting, acq, sid, waits,
                       down, booted, phase, restoreVars,
                       nEdits, sent, acked, rejected, landed>>

(* readinessTimeoutMs expires.                                               *)
PauseTimeout(s) ==
    /\ "timeout" \in Env
    /\ pause[s].state = "pausing"
    /\ PauseStep(s, PauseTimedOut(pause[s]))
    /\ UNCHANGED <<sessionVars, proposalVars, armed, deleting, socketVars,
                   wireVars, restoreVars, historyVars>>

-----------------------------------------------------------------------------
(* Sockets that close: the close handler and releaseDocSession.              *)

(* removeEditorHolder and discardSession work on the live session of the     *)
(* moment, whichever the socket was attached to.                             *)
ReleaseDocSession(k) ==
    IF current = 0 THEN UNCHANGED <<sessionVars, armed>>
    ELSE LET rest == holders[current] \ {k}
         IN  /\ holders' = [holders EXCEPT ![current] = rest]
             /\ IF rest = {} THEN SessionGone(current)
                ELSE UNCHANGED <<sstate, current, promised, nSessions, armed>>

(* Mutant: no publish on leaving while one is under way.                     *)
LeavesDuringPublish(k) ==
    /\ current # 0
    /\ ActiveEditors \ {k} = {}
    /\ bound[current] /\ pause[current].state = "idle"
    /\ ~deleting

(* The last active editor publishes before it releases.                      *)
PublishesOnLeaving(k) ==
    /\ current # 0
    /\ ActiveEditors \ {k} = {}
    /\ bound[current]
    /\ ~deleting

(* Frames the server has not received when the connection is gone are lost.  *)
FramesLost(k, n) == up' = [up EXCEPT ![k] = SubSeq(@, 1, n)]

ClientGone(k) ==
    /\ down' = [down EXCEPT ![k] = << >>]
    /\ booted' = [booted EXCEPT ![k] = FALSE]
    /\ phase' = [phase EXCEPT ![k] = "open"]

CloseEvent(k) ==
    /\ \/ sock[k] = "closing"
       \/ sock[k] \in {"open", "editor"} /\ "drop" \in Env
    /\ \E n \in 0..Len(up[k]) : FramesLost(k, n)
    /\ ClientGone(k)
    /\ \/ /\ sid[k] = 0
          /\ sock' = [sock EXCEPT ![k] = "closed"]
          /\ UNCHANGED <<sessionVars, lane, pause, attemptVars, armed, waits>>
       \/ /\ sid[k] # 0
          /\ ~PublishesOnLeaving(k)
          /\ sock' = [sock EXCEPT ![k] = "closed"]
          /\ IF current = 0 THEN UNCHANGED <<pause, lane, attemptVars>>
             ELSE PauseStep(current, PauseSocketLost(pause[current], k))
          /\ ReleaseDocSession(k)
          /\ UNCHANGED waits
       \/ /\ sid[k] # 0
          /\ PublishesOnLeaving(k)
          /\ sock' = [sock EXCEPT ![k] = "leaving"]
          /\ waits' = [waits EXCEPT ![k] = nAttempts + 1]
          /\ LET q == PauseSocketLost(pause[current], k)
             IN  /\ pause' = [pause EXCEPT ![current] = q]
                 /\ lane' = LaneAfter(current, q)
                 /\ NewAttempt(current, ApcAfter(current, q))
          /\ UNCHANGED <<sessionVars, armed>>
    /\ UNCHANGED <<proposalVars, deleting, acq, sid, restoreVars, historyVars>>

(* The close handler goes on when its attempt is over.  If the attempt threw *)
(* it never reaches releaseDocSession.                                       *)
LeaveDone(k) ==
    /\ waits[k] # 0
    /\ apc[waits[k]] = "done"
    /\ waits' = [waits EXCEPT ![k] = 0]
    /\ sock' = [sock EXCEPT ![k] = "closed"]
    /\ IF aout[waits[k]] = "threw" THEN UNCHANGED <<sessionVars, armed>>
       ELSE ReleaseDocSession(k)
    /\ UNCHANGED <<lane, pause, proposalVars, attemptVars, deleting, acq, sid,
                   wireVars, restoreVars, historyVars>>

-----------------------------------------------------------------------------
(* The client: crdt-provider.ts and useLiveSectionReplica.ts.                *)

(* A keystroke.  Editors are mounted once the bootstrap has arrived; they    *)
(* stop producing edits only when the freeze has settled (two animation      *)
(* frames after the start frame).                                            *)
ClientEdit(k) ==
    /\ nEdits < MaxEdits
    /\ sock[k] \in {"editor", "closing"}
    /\ booted[k] /\ phase[k] \in {"open", "settling"}
    /\ nEdits' = nEdits + 1
    /\ sent' = [sent EXCEPT ![k] = @ \cup {nEdits + 1}]
    /\ up' = [up EXCEPT ![k] = Append(@, [op |-> "update", n |-> nEdits + 1])]
    /\ UNCHANGED <<sessionVars, lane, pause, proposalVars, attemptVars, armed,
                   deleting, socketVars, down, booted, phase, restoreVars,
                   acked, rejected, landed, frontier>>

(* handlePublishPauseStart ignores a second start; handlePublishPauseEnd     *)
(* always thaws; a bootstrap taken during a pause freezes without an ack.    *)
PhaseAfter(ph, f) ==
    CASE f = "start" /\ ph \in {"open", "mirror"} -> "settling"
      [] f = "end" -> "open"
      [] f = "boot_frozen" /\ ph = "open" -> "mirror"
      [] OTHER -> ph

ClientReceive(k) ==
    /\ down[k] # << >>
    /\ down' = [down EXCEPT ![k] = Tail(@)]
    /\ LET f == Head(down[k])
       IN  /\ booted' = [booted EXCEPT ![k] = @ \/ f \in {"boot", "boot_frozen"}]
           /\ phase' = [phase EXCEPT ![k] = PhaseAfter(@, f)]
    /\ UNCHANGED <<sessionVars, lane, pause, proposalVars, attemptVars, armed,
                   deleting, socketVars, up, restoreVars, historyVars>>

(* Mutant: the ack overtakes the updates on the wire.                        *)
ReadyOvertakes(k) ==
    /\ phase[k] = "settling"
    /\ phase' = [phase EXCEPT ![k] = "ready"]
    /\ up' = [up EXCEPT ![k] = <<[op |-> "ready", n |-> nEdits]>> \o @]
    /\ UNCHANGED <<sessionVars, lane, pause, proposalVars, attemptVars, armed,
                   deleting, socketVars, down, booted, restoreVars, historyVars>>

(* The barrier has settled: doc_publish_ready, once per pause.               *)
ClientReady(k) ==
    /\ phase[k] = "settling"
    /\ phase' = [phase EXCEPT ![k] = "ready"]
    /\ up' = [up EXCEPT ![k] = Append(@, [op |-> "ready", n |-> nEdits])]
    /\ UNCHANGED <<sessionVars, lane, pause, proposalVars, attemptVars, armed,
                   deleting, socketVars, down, booted, restoreVars, historyVars>>

-----------------------------------------------------------------------------
(* Publish attempts, the quiescence timer, delete and restore requests.      *)

(* The attempt before it in publishChains has settled.                       *)
RunAttempt(a) ==
    /\ apc[a] = "chained"
    /\ aprev[a] # 0 => apc[aprev[a]] = "done"
    /\ apc' = [apc EXCEPT ![a] = "queued"]
    /\ lane' = Enqueued(lane, asess[a], Command("phase1", a))
    /\ UNCHANGED <<sessionVars, pause, proposalVars, nAttempts, asess, aprev, chain,
                   aout, armed, deleting, socketVars, wireVars, restoreVars,
                   historyVars>>

(* requestDocSessionPublish                                                  *)
ForcePublish ==
    /\ "force" \in Env
    /\ current # 0
    /\ AttemptsToSpare
    /\ NewAttempt(current, apc)
    /\ UNCHANGED <<sessionVars, lane, pause, proposalVars, armed, deleting,
                   socketVars, wireVars, restoreVars, historyVars>>

(* The quiescence timer goes off for whatever session the document has now.  *)
QuiesceFire ==
    /\ "quiesce" \in Env
    /\ armed # 0
    /\ armed' = 0
    /\ lane' = IF current = 0 THEN lane
               ELSE Enqueued(lane, current, Command("quiesce", 0))
    /\ UNCHANGED <<sessionVars, pause, proposalVars, attemptVars, deleting,
                   socketVars, wireVars, restoreVars, historyVars>>

(* Bound: a delete and a restore of the document are not under way together   *)
(* unless the instance says so.                                              *)
NoDeleteQueued ==
    \A s \in Sessions : \A i \in 1..Len(lane[s]) :
        lane[s][i].op \notin {"delete", "delete_commit"}
RestoreUnderWay == rpc \in {"handoff", "create", "locked"}

(* requestDocSessionDocumentDelete.  Bounds: one delete command at a time, no *)
(* second one in a session that left a tombstone, and none while MaxBacklog   *)
(* frames are on the wire of a client.                                        *)
MaxBacklog == 2
DeleteRequest ==
    /\ "delete" \in Env
    /\ current # 0 /\ adopt[current] \notin tomb
    /\ \A k \in Sockets : Len(up[k]) + Len(down[k]) < MaxBacklog
    /\ NoDeleteQueued
    /\ RestoreUnderWay => "delete_in_restore" \in Env
    /\ lane' = Enqueued(lane, current, Command("delete", 0))
    /\ UNCHANGED <<sessionVars, pause, proposalVars, attemptVars, armed, deleting,
                   socketVars, wireVars, restoreVars, historyVars>>

(* restoreDocument: publish the live session's work first ...                *)
RestoreBegin ==
    /\ "restore" \in Env
    /\ rpc = "idle"
    /\ NoDeleteQueued \/ "delete_in_restore" \in Env
    /\ IF current = 0
       THEN rpc' = "create" /\ UNCHANGED <<ratt, attemptVars>>
       ELSE /\ AttemptsToSpare
            /\ NewAttempt(current, apc)
            /\ ratt' = nAttempts + 1
            /\ rpc' = "handoff"
    /\ UNCHANGED <<sessionVars, lane, pause, proposalVars, armed, deleting,
                   socketVars, wireVars, historyVars>>

(* ... stop unless that published or had nothing to publish ...              *)
RestoreHandoff ==
    /\ rpc = "handoff"
    /\ apc[ratt] = "done"
    /\ rpc' = IF aout[ratt] \in {"committed", "noop"} THEN "create" ELSE "refused"
    /\ UNCHANGED <<sessionVars, lane, pause, proposalVars, attemptVars, armed,
                   deleting, socketVars, wireVars, ratt, historyVars>>

(* ... take the document's lock, unless an in-progress proposal holds it ... *)
RestoreLock ==
    /\ rpc = "create"
    /\ rpc' = IF inprog = {} THEN "locked" ELSE "refused"
    /\ UNCHANGED <<sessionVars, lane, pause, proposalVars, attemptVars, armed,
                   deleting, socketVars, wireVars, ratt, historyVars>>

(* ... replace the canonical document and the live session with it.          *)
RestoreLand ==
    /\ rpc = "locked"
    /\ rpc' = "done"
    /\ Invalidated(pause)
    /\ UNCHANGED <<lane, proposalVars, attemptVars, deleting, wireVars, ratt,
                   historyVars>>

-----------------------------------------------------------------------------
LaneStep(s) ==
    \/ LaneBoot(s) \/ LaneGate(s) \/ LaneMaterialize(s) \/ LanePhase1(s)
    \/ LaneAbort(s) \/ LaneSettle(s) \/ LaneSettleBadly(s) \/ LaneCommit(s)
    \/ LaneQuiesce(s) \/ LaneDelete(s) \/ LaneDeleteCommit(s)
    \/ LaneDeleteAbandoned(s)

SessionStep(s) ==
    ConstructRead(s) \/ ConstructDone(s) \/ PauseTimeout(s) \/ LaneStep(s)

SocketStep(k) ==
    \/ Connect(k) \/ Acquire(k) \/ ServerReceive(k) \/ CloseEvent(k) \/ LeaveDone(k)
    \/ ClientEdit(k) \/ ClientReceive(k) \/ ClientReady(k)

Request == ForcePublish \/ QuiesceFire \/ DeleteRequest \/ RestoreBegin

RestoreStep == RestoreHandoff \/ RestoreLock \/ RestoreLand

Next ==
    \/ \E s \in Sessions : SessionStep(s)
    \/ \E k \in Sockets : SocketStep(k)
    \/ \E a \in Attempts : RunAttempt(a)
    \/ Request
    \/ RestoreStep

Spec == Init /\ [][Next]_vars

-----------------------------------------------------------------------------
(* Safety.                                                                   *)

(* A publish in progress on the live session is one attempt's business: an   *)
(* attempt waiting for acks owns the pause, whoever the pause would resume   *)
(* is waiting, and no second attempt and no delete is past its start.        *)
PausedBy(s) == {a \in Attempts : asess[a] = s /\ apc[a] \in {"waiting", "finalizing"}}
OnePublisher ==
    \A s \in Sessions : sstate[s] = "active" =>
        /\ \A a \in PausedBy(s) :
              apc[a] = "waiting" <=> pause[s].waiter = a
        /\ pause[s].waiter # 0 => pause[s].waiter \in PausedBy(s)
        /\ Cardinality(PausedBy(s)) <= 1
        /\ PausedBy(s) # {} => pause[s].state # "idle" /\ ~Running(s, "delete_commit")

(* No acknowledged edit is lost: it has been committed (or disposed of by a  *)
(* delete), or the in-progress proposal or the live session still holds it.  *)
Kept(e) ==
    \/ e \in landed \cup rejected
    \/ \E id \in inprog : e \in draft[id]
    \/ \E s \in Sessions : sstate[s] = "active" /\ e \in dirty[s]
    \/ deleting
AckedEditsKept == \A e \in acked : Kept(e)

(* The same for the edits that leave the heading structure alone, which are  *)
(* written to the proposal before they are acknowledged and so outlive the   *)
(* session that accepted them.                                               *)
AckedBodyEditsKept == \A e \in acked \ Structural : Kept(e)

(* From the start of a pause to its end every editor that has its document   *)
(* is frozen or has the freeze ahead of it on the wire, those that joined    *)
(* during the pause included.                                                *)
EditorsFrozen ==
    \A s \in Sessions : sstate[s] = "active" /\ PauseIsActive(pause[s]) =>
        \A k \in ActiveEditors :
            booted[k] /\ phase[k] = "open" =>
                \E i \in 1..Len(down[k]) : down[k][i] = "start"

(* The document has at most one live session, and acquireDocSession finds it. *)
OneLiveSession ==
    \A s \in Sessions : sstate[s] = "active" <=> s = current

(* An edit is applied to the session its socket is attached to, never to a   *)
(* later session of the document.                                            *)
EditsStayInSession ==
    \A s \in Sessions : \A i \in 1..Len(lane[s]) :
        lane[s][i].op \in {"update", "materialize"} =>
            \A k \in Sender(lane[s][i].n) : sid[k] = s

(* A document never has two CRDT-owned proposals in progress: the next        *)
(* session to be constructed would refuse to open the document.              *)
OneProposal == Cardinality(inprog) <= 1

(* The quiescence timer of a session that is gone never fires for the one    *)
(* that follows it: it is cancelled with the session and not armed again.    *)
TimerHasItsSession == armed # 0 => armed = current

(* A live session has an editor still connected or a close handler that will *)
(* release it.                                                               *)
HoldersAreConnected ==
    \A s \in Sessions : sstate[s] = "active" =>
        \E k \in holders[s] : sock[k] # "closed"

(* Every edit a client sent before the ready ack that was counted is in what *)
(* the publish commits, unless the gate refused it.                          *)
Committing(s, a) == Running(s, "commit") /\ Arg(s) = a /\ aout'[a] = "committed"
CommitCoversFrontier ==
    [][\A s \in Sessions, a \in Attempts : Committing(s, a) =>
          \A k \in pause[s].required \cap OpenSockets :
             /\ k \in pause[s].acked
             /\ \A e \in sent[k] : e <= frontier[k] => e \in landed' \cup rejected]_vars

(* When a publish commits, no edit of an editor that acked is still on its   *)
(* way: the freeze holds from the ack to the commit.                         *)
NothingInFlightAtCommit ==
    [][\A s \in Sessions, a \in Attempts : Committing(s, a) =>
          \A k \in pause[s].acked \cap OpenSockets : sent[k] \subseteq landed' \cup rejected]_vars

-----------------------------------------------------------------------------
(* Liveness.  Every promise reaction, timer and frame handler that Node has  *)
(* queued is run.                                                            *)
Fairness ==
    /\ \A s \in Sessions : /\ WF_vars(ConstructRead(s) \/ ConstructDone(s))
                           /\ WF_vars(LaneStep(s))
                           /\ WF_vars(PauseTimeout(s))
    /\ \A k \in Sockets : /\ WF_vars(Acquire(k))
                          /\ WF_vars(ServerReceive(k))
                          /\ WF_vars(sock[k] = "closing" /\ CloseEvent(k))
                          /\ WF_vars(LeaveDone(k))
                          /\ WF_vars(ClientReceive(k))
                          /\ WF_vars(ClientReady(k))
    /\ \A a \in Attempts : WF_vars(RunAttempt(a))
    /\ WF_vars(RestoreStep)

FairSpec == Spec /\ Fairness

(* Every publish that starts ends.                                           *)
AttemptsEnd ==
    \A a \in Attempts : apc[a] = "chained" ~> apc[a] = "done"

(* An editor frozen by a publish pause is thawed or its connection ends.     *)
FrozenEditorsThaw ==
    \A k \in Sockets :
        phase[k] # "open" ~> phase[k] = "open" \/ sock[k] = "closed"
=============================================================================
