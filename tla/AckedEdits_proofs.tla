-------------------------- MODULE AckedEdits_proofs --------------------------
(***************************************************************************)
(* Proofs about DocSession: what becomes of the edits the server has       *)
(* acknowledged, and what a publish commits of the edits its editors have  *)
(* sent, for any number of sockets, sessions, attempts and edits.          *)
(***************************************************************************)
EXTENDS DocSession_proofs

-----------------------------------------------------------------------------
(* Edits that leave the heading structure alone.                             *)

(* A restore under way and a delete on a lane are never there together, and  *)
(* where no delete may come there is none.                                   *)
Apart == RestoreUnderWay \/ "delete" \notin Env => NoDeletes

(* A body edit that was acknowledged is decided on, or in the proposal.      *)
InProposal(e) == \E id \in inprog : e \in draft[id]
BodyKept == \A e \in acked \ Structural : e \in landed \cup rejected \/ InProposal(e)

(* Only the restore itself moves the restore on.                             *)
LEMMA RestoreRests ==
    ASSUME [Next]_vars, ~RestoreBegin, ~RestoreStep
    PROVE  rpc' = rpc
  <1>1. ASSUME NEW s \in Sessions, SessionStep(s) PROVE rpc' = rpc
    <2>1. CASE ConstructRead(s) \/ ConstructDone(s) \/ PauseTimeout(s)
      BY <2>1 DEF ConstructRead, ConstructDone, PauseTimeout, restoreVars
    <2>2. CASE LaneBoot(s) \/ LaneGate(s) \/ LaneMaterialize(s) \/ LanePhase1(s)
               \/ LaneAbort(s) \/ LaneSettle(s)
      BY <2>2 DEF LaneBoot, LaneGate, LaneMaterialize, LanePhase1, LaneAbort, LaneSettle,
                  restoreVars
    <2>3. CASE LaneSettleBadly(s) \/ LaneCommit(s) \/ LaneQuiesce(s) \/ LaneDelete(s)
               \/ LaneDeleteCommit(s) \/ LaneDeleteAbandoned(s)
      BY <2>3 DEF LaneSettleBadly, LaneCommit, LaneQuiesce, LaneDelete, LaneDeleteCommit,
                  LaneDeleteAbandoned, restoreVars
    <2>. QED
      BY <1>1, <2>1, <2>2, <2>3 DEF SessionStep, LaneStep
  <1>2. ASSUME NEW k \in Sockets, SocketStep(k) PROVE rpc' = rpc
    BY <1>2 DEF SocketStep, Connect, Acquire, ServerReceive, CloseEvent, LeaveDone,
                ClientEdit, ClientReceive, ClientReady, restoreVars
  <1>3. ASSUME NEW a \in Attempts, RunAttempt(a) PROVE rpc' = rpc
    BY <1>3 DEF RunAttempt, restoreVars
  <1>4. CASE ForcePublish \/ QuiesceFire \/ DeleteRequest
    BY <1>4 DEF ForcePublish, QuiesceFire, DeleteRequest, restoreVars
  <1>5. CASE UNCHANGED vars
    BY <1>5 DEF vars, restoreVars
  <1>. QED
    BY <1>1, <1>2, <1>3, <1>4, <1>5 DEF Next, Request

(* Deletes and restores stay apart.                                          *)
LEMMA StepApart ==
    ASSUME TypeOK, Apart, [Next]_vars, "delete" \in Env => "delete_in_restore" \notin Env
    PROVE  Apart'
  <1>1. CASE NoDeletes /\ ~DeleteRequest
    BY <1>1, StepUndeleted DEF Apart
  <1>2. CASE DeleteRequest
    BY <1>2 DEF Apart, DeleteRequest, RestoreUnderWay, restoreVars
  <1>3. CASE ~NoDeletes /\ RestoreBegin
    <2>1. NoDeleteQueued
      BY <1>3 DEF RestoreBegin, Apart
    <2>2. ASSUME NEW s \in Sessions PROVE lane[s] \in Seq(Undeleted)
      <3>1. lane[s] \in Seq(Commands)
        BY DEF TypeOK, LanesTyped
      <3>2. \A i \in 1..Len(lane[s]) : lane[s][i] \in Undeleted
        BY <2>1, <3>1 DEF NoDeleteQueued, Undeleted
      <3>. QED
        BY <3>1, <3>2
    <2>3. NoDeletes
      BY <2>2 DEF NoDeletes, TypeOK, LanesTyped
    <2>. QED
      BY <1>3, <2>3
  <1>4. CASE ~NoDeletes /\ ~RestoreBegin /\ ~DeleteRequest
    <2>1. ~RestoreUnderWay /\ "delete" \in Env
      BY <1>4 DEF Apart
    <2>2. rpc' = rpc \/ rpc' = "done"
      BY <1>4, <2>1, RestoreRests
         DEF RestoreStep, RestoreHandoff, RestoreLock, RestoreLand, RestoreUnderWay
    <2>. QED
      BY <2>1, <2>2 DEF Apart, RestoreUnderWay
  <1>. QED
    BY <1>1, <1>2, <1>3, <1>4

(* What a step must not do to them: forget a decision, drop a proposal with  *)
(* edits no decision was taken on, or acknowledge an edit it kept nowhere.   *)
LEMMA BodyStays ==
    ASSUME BodyKept,
           \A e \in acked \ Structural :
              e \in landed \cup rejected \/ InProposal(e) =>
                 e \in landed' \cup rejected' \/ InProposal(e)',
           \A e \in acked' \ acked : e \in Structural \/ e \in rejected' \/ InProposal(e)'
    PROVE  BodyKept'
  BY DEF BodyKept

(* Settling moves edits to the proposal and takes none out.                  *)
LEMMA SettledKeeps ==
    ASSUME ProposalsTyped, NEW s \in Sessions, NEW d, Settled(s, d), UNCHANGED inprog
    PROVE  \A e : InProposal(e) => InProposal(e)'
  <1>1. \A id \in inprog : draft[id] \subseteq draft'[id]
    BY DEF ProposalsTyped, Settled
  <1>. QED
    BY <1>1 DEF InProposal

(* A publish takes out of the proposal what it commits.                      *)
LEMMA CommitKeeps ==
    ASSUME ProposalsTyped, NEW s \in Sessions, LaneCommit(s)
    PROVE  /\ UNCHANGED <<acked, rejected>> /\ landed \subseteq landed'
           /\ \A e : InProposal(e) => e \in landed' \/ InProposal(e)'
  <1>1. CASE UNCHANGED <<inprog, draft, landed>>
    BY <1>1 DEF LaneCommit, InProposal
  <1>2. CASE /\ inprog' = inprog \ {adopt[s]}
             /\ landed' = landed \cup draft[adopt[s]]
             /\ draft' = [draft EXCEPT ![adopt[s]] = {}]
    <2>1. \A id \in inprog : id # adopt[s] => id \in inprog' /\ draft'[id] = draft[id]
      BY <1>2 DEF ProposalsTyped
    <2>. QED
      BY <1>2, <2>1 DEF LaneCommit, InProposal
  <1>. QED
    BY <1>1, <1>2 DEF LaneCommit

(* The edit that is materialized joins the proposal, if it is a body edit.   *)
LEMMA MaterializeKeeps ==
    ASSUME TypeOK, NEW s \in Sessions, LaneMaterialize(s)
    PROVE  /\ UNCHANGED <<rejected, landed>>
           /\ \A e : InProposal(e) => InProposal(e)'
           /\ \A e \in acked' \ acked : e \in Structural \/ InProposal(e)'
  <1>1. CASE UNCHANGED <<inprog, draft, acked>>
    BY <1>1 DEF LaneMaterialize, InProposal
  <1>2. CASE /\ inprog' = inprog \cup {adopt[s]}
             /\ IF Arg(s) \in Structural THEN UNCHANGED draft
                ELSE draft' = [draft EXCEPT ![adopt[s]] = @ \cup {Arg(s)}]
             /\ acked' = AckedWith(Arg(s))
    <2>1. /\ adopt[s] \in Sessions /\ inprog \subseteq Sessions
          /\ draft \in [Sessions -> SUBSET Edits]
      BY DEF TypeOK, ProposalsTyped
    <2>2. \A id \in inprog : id \in inprog' /\ draft[id] \subseteq draft'[id]
      BY <1>2, <2>1
    <2>3. Arg(s) \in Structural \/ Arg(s) \in draft'[adopt[s]]
      BY <1>2, <2>1
    <2>4. adopt[s] \in inprog' /\ \A e \in acked' \ acked : e = Arg(s)
      BY <1>2 DEF AckedWith
    <2>. QED
      BY <2>2, <2>3, <2>4 DEF LaneMaterialize, InProposal
  <1>. QED
    BY <1>1, <1>2 DEF LaneMaterialize

(* An abandoned delete empties the proposal only when its own commit failed, *)
(* or a restore had the document's lock.                                     *)
LEMMA AbandonKeeps ==
    ASSUME Apart, "delete" \in Env => "delete_fails" \notin Env,
           NEW s \in Sessions, LaneDeleteAbandoned(s)
    PROVE  UNCHANGED <<inprog, draft, acked, rejected, landed>>
  <1>1. ~NoDeletes
    <2> SUFFICES ASSUME NoDeletes PROVE FALSE
      OBVIOUS
    <2>1. lane[s] \in Seq(Undeleted) /\ lane[s] # << >> /\ Head(lane[s]).op = "delete_commit"
      BY DEF NoDeletes, LaneDeleteAbandoned, Running
    <2>2. Head(lane[s]) \in Undeleted
      BY <2>1
    <2>. QED
      BY <2>1, <2>2 DEF Undeleted
  <1>2. rpc # "locked" /\ "delete_fails" \notin Env
    BY <1>1 DEF Apart, RestoreUnderWay
  <1>. QED
    BY <1>2 DEF LaneDeleteAbandoned, historyVars

(* No step loses an acknowledged body edit.                                  *)
LEMMA StepBodyKept ==
    ASSUME TypeOK, Apart, BodyKept, [Next]_vars,
           "delete" \in Env => "delete_fails" \notin Env
    PROVE  BodyKept'
  <1>0. ProposalsTyped
    BY DEF TypeOK
  <1>1. ASSUME UNCHANGED <<inprog, draft, acked>>, rejected \subseteq rejected',
               landed \subseteq landed'
        PROVE  BodyKept'
    BY <1>1, BodyStays DEF InProposal
  <1>2. ASSUME NEW s \in Sessions, SessionStep(s) PROVE BodyKept'
    <2>1. CASE ConstructRead(s) \/ ConstructDone(s) \/ PauseTimeout(s)
      BY <1>1, <2>1 DEF ConstructRead, ConstructDone, PauseTimeout, proposalVars, historyVars
    <2>2. CASE LaneBoot(s) \/ LanePhase1(s) \/ LaneAbort(s) \/ LaneDelete(s)
      BY <1>1, <2>2 DEF LaneBoot, LanePhase1, LaneAbort, LaneDelete, proposalVars, historyVars
    <2>3. CASE LaneGate(s)
      <3>1. /\ UNCHANGED <<inprog, draft, landed>> /\ rejected \subseteq rejected'
            /\ \A e \in acked' \ acked : e \in rejected'
        BY <2>3 DEF LaneGate, AckedWith, proposalVars
      <3>. QED
        BY <3>1, BodyStays DEF InProposal
    <2>4. CASE LaneMaterialize(s)
      BY <2>4, MaterializeKeeps, BodyStays
    <2>5. CASE LaneSettle(s) \/ LaneSettleBadly(s) \/ LaneQuiesce(s)
      <3>1. /\ UNCHANGED <<inprog, historyVars>>
            /\ UNCHANGED draft \/ \E d : Settled(s, d)
        BY <2>5 DEF LaneSettle, LaneSettleBadly, LaneQuiesce, SettledBadly
      <3>2. \A e : InProposal(e) => InProposal(e)'
        BY <1>0, <3>1, SettledKeeps DEF InProposal
      <3>. QED
        BY <3>1, <3>2, BodyStays DEF historyVars
    <2>6. CASE LaneCommit(s)
      BY <1>0, <2>6, CommitKeeps, BodyStays
    <2>7. CASE LaneDeleteCommit(s)
      <3>1. acked \subseteq landed' /\ acked' = acked
        BY <2>7 DEF LaneDeleteCommit
      <3>. QED
        BY <3>1 DEF BodyKept
    <2>8. CASE LaneDeleteAbandoned(s)
      BY <1>1, <2>8, AbandonKeeps
    <2>. QED
      BY <1>2, <2>1, <2>2, <2>3, <2>4, <2>5, <2>6, <2>7, <2>8 DEF SessionStep, LaneStep
  <1>3. ASSUME NEW k \in Sockets, SocketStep(k) PROVE BodyKept'
    BY <1>1, <1>3 DEF SocketStep, Connect, Acquire, ServerReceive, CloseEvent, LeaveDone,
                      ClientEdit, ClientReceive, ClientReady, proposalVars, historyVars
  <1>4. ASSUME NEW a \in Attempts, RunAttempt(a) PROVE BodyKept'
    BY <1>1, <1>4 DEF RunAttempt, proposalVars, historyVars
  <1>5. CASE Request \/ RestoreStep \/ UNCHANGED vars
    BY <1>1, <1>5
       DEF Request, ForcePublish, QuiesceFire, DeleteRequest, RestoreBegin, RestoreStep,
           RestoreHandoff, RestoreLock, RestoreLand, vars, proposalVars, historyVars
  <1>. QED
    BY <1>2, <1>3, <1>4, <1>5 DEF Next

(* No acknowledged body edit is lost, whatever publishes, timeouts, settles, *)
(* restores and closing sockets interleave, and whichever of them fail: an   *)
(* edit is written to the proposal before it is acknowledged, and whoever    *)
(* takes the proposal away has committed it.  A delete keeps the claim while *)
(* its commit succeeds and no restore runs beside it; otherwise abandonDelete *)
(* gives the proposal back without its content.                              *)
THEOREM AckedBodyEditsHeld ==
    ASSUME "delete" \in Env => {"delete_fails", "delete_in_restore"} \cap Env = {}
    PROVE  Spec => []AckedBodyEditsKept
<1>1. Init => Apart /\ BodyKept
  BY DEF Init, Apart, BodyKept, NoDeletes
<1>2. TypeOK /\ Apart /\ BodyKept /\ [Next]_vars => Apart' /\ BodyKept'
  BY StepApart, StepBodyKept
<1>3. BodyKept => AckedBodyEditsKept
  BY DEF BodyKept, AckedBodyEditsKept, Kept, InProposal
<1>. QED
  BY <1>1, <1>2, <1>3, TypeCorrect, PTL DEF Spec

-----------------------------------------------------------------------------
(* All edits, where no document is deleted or restored.                      *)

(* What then never happens.                                                  *)
Calm == rpc = "idle" /\ tomb = {} /\ ~deleting /\ NoDeletes

(* Without a delete on a lane none runs.                                      *)
LEMMA NoDeleteRuns ==
    ASSUME NoDeletes, NEW s \in Sessions
    PROVE  ~LaneDelete(s) /\ ~LaneDeleteCommit(s) /\ ~LaneDeleteAbandoned(s)
  <1>1. lane[s] # << >> => Head(lane[s]) \in Undeleted
    BY DEF NoDeletes
  <1>. QED
    BY <1>1 DEF Undeleted, LaneDelete, LaneDeleteCommit, LaneDeleteAbandoned, Running

(* A quiescence command that settles, or finds nothing to settle.             *)
QuietQuiesce(s) ==
    /\ Running(s, "quiesce") /\ lane' = Popped(lane, s)
    /\ \/ UNCHANGED <<dirty, draft>>
       \/ bound[s] /\ ~CannotSettle(s) /\ \E d \in SUBSET dirty[s] : Settled(s, d)
    /\ UNCHANGED <<sessionVars, pause, adopt, bound, inprog, tomb, attemptVars, deleting,
                   socketVars, wireVars, restoreVars, historyVars>>

(* A settle of either kind that discards the session half-way.                *)
BadSettle(s) ==
    /\ lane[s] # << >> /\ lane' = Popped(lane, s)
    /\ SettledBadly(s)
    /\ \E p : Invalidated(p)
    /\ UNCHANGED <<adopt, bound, inprog, tomb, deleting, wireVars, restoreVars, historyVars>>

(* The steps that are left.                                                   *)
CalmLaneStep(s) ==
    \/ LaneBoot(s) \/ LaneGate(s) \/ LaneMaterialize(s) \/ LanePhase1(s)
    \/ LaneAbort(s) \/ LaneSettle(s) \/ LaneCommit(s) \/ QuietQuiesce(s) \/ BadSettle(s)
CalmStep ==
    \/ \E s \in Sessions : \/ ConstructRead(s) \/ ConstructDone(s) \/ PauseTimeout(s)
                           \/ CalmLaneStep(s)
    \/ \E k \in Sockets : SocketStep(k)
    \/ \E a \in Attempts : RunAttempt(a)
    \/ ForcePublish \/ QuiesceFire \/ UNCHANGED vars

LEMMA OnlyCalmSteps ==
    ASSUME Calm, [Next]_vars, {"restore", "delete"} \cap Env = {}
    PROVE  CalmStep
  <1>1. ASSUME NEW s \in Sessions, LaneStep(s) PROVE CalmLaneStep(s)
    <2>1. CASE LaneQuiesce(s)
      BY <2>1 DEF LaneQuiesce, Running, QuietQuiesce, BadSettle, CalmLaneStep
    <2>2. CASE LaneSettleBadly(s)
      BY <2>2 DEF LaneSettleBadly, Running, BadSettle, CalmLaneStep
    <2>. QED
      BY <1>1, <2>1, <2>2, NoDeleteRuns DEF LaneStep, CalmLaneStep, Calm
  <1>2. ~DeleteRequest /\ ~RestoreBegin /\ ~RestoreStep
    BY DEF Calm, DeleteRequest, RestoreBegin, RestoreStep, RestoreHandoff, RestoreLock,
           RestoreLand
  <1>. QED
    BY <1>1, <1>2 DEF Next, SessionStep, Request, CalmStep

(* They leave it so.                                                          *)
LEMMA StepCalm ==
    ASSUME TypeOK, Calm, [Next]_vars, {"restore", "delete"} \cap Env = {}
    PROVE  Calm'
  <1>1. CalmStep
    BY OnlyCalmSteps
  <1>2. ~DeleteRequest /\ ~RestoreBegin /\ ~RestoreStep
    BY DEF Calm, DeleteRequest, RestoreBegin, RestoreStep, RestoreHandoff, RestoreLock,
           RestoreLand
  <1>3. rpc' = rpc /\ NoDeletes'
    BY <1>2, RestoreRests, StepUndeleted DEF Calm
  <1>4. UNCHANGED <<tomb, deleting>>
    <2>1. ASSUME NEW s \in Sessions, CalmLaneStep(s) PROVE UNCHANGED <<tomb, deleting>>
      BY <2>1 DEF CalmLaneStep, LaneBoot, LaneGate, LaneMaterialize, LanePhase1, LaneAbort,
                  LaneSettle, LaneCommit, QuietQuiesce, BadSettle, proposalVars
    <2>2. ASSUME NEW s \in Sessions, ConstructRead(s) \/ ConstructDone(s) \/ PauseTimeout(s)
          PROVE  UNCHANGED <<tomb, deleting>>
      BY <2>2 DEF ConstructRead, ConstructDone, PauseTimeout, proposalVars
    <2>3. ASSUME NEW k \in Sockets, SocketStep(k) PROVE UNCHANGED <<tomb, deleting>>
      BY <2>3 DEF SocketStep, Connect, Acquire, ServerReceive, CloseEvent, LeaveDone,
                  ClientEdit, ClientReceive, ClientReady, proposalVars
    <2>. QED
      BY <1>1, <2>1, <2>2, <2>3
         DEF CalmStep, RunAttempt, ForcePublish, QuiesceFire, vars, proposalVars
  <1>. QED
    BY <1>3, <1>4 DEF Calm

-----------------------------------------------------------------------------
(* Where a socket can be.  One that has an editor, or whose close handler     *)
(* has yet to release, holds the live session.                                *)
Seat(k) ==
    /\ sid[k] # 0 => sock[k] \notin {"idle", "open"}
    /\ sid[k] = 0 => sock[k] \notin {"editor", "leaving"}
    /\ sid[k] # 0 /\ sock[k] \in {"editor", "closing", "leaving"} => k \in holders[sid[k]]
    /\ sock[k] = "editor" => sid[k] = current
    /\ waits[k] # 0 => sock[k] = "leaving"
Seats ==
    /\ \A k \in Sockets : Seat(k)
    /\ \A s \in Sessions : \A h \in holders[s] : sid[h] = s

(* Edits wait for a settle only in a session that is bound to a proposal, and *)
(* a publish about to commit has settled them: its command runs at once.      *)
CommitAlone(q, d) == \A i \in DOMAIN q : q[i].op = "commit" => i = 1 /\ d = {}
Tidy ==
    \A s \in Sessions : /\ dirty[s] # {} => bound[s] /\ Reached(sstate[s])
                        /\ CommitAlone(lane[s], dirty[s])

(* Only structural edits wait for a settle.                                   *)
StructuralWait == \A s \in Sessions : dirty[s] \subseteq Structural

(* The acknowledged edits that nothing but a Y.Doc keeps.                     *)
AtRisk == {e \in acked : e \notin landed \cup rejected /\ ~InProposal(e)}

(* An attempt of the live session has yet to settle, or could not.            *)
YetToSettle(b) ==
    /\ b \in Attempts /\ asess[b] = current
    /\ \/ apc[b] \in {"chained", "queued"}
       \/ Running(current, "ready") /\ Arg(current) = b
       \/ apc[b] = "done" /\ aout[b] = "threw"

(* A holder of the live session that will publish on leaving, one that waits  *)
(* for an attempt that settles, or one that never leaves.                     *)
Guards(h) == \/ sock[h] \in {"editor", "closing", "closed"}
             \/ sock[h] = "leaving" /\ YetToSettle(waits[h])
Guarded == \E h \in holders[current] : Guards(h)

(* Edits at risk are in the live session, and it is guarded.                  *)
Safe == AtRisk # {} => current # 0 /\ AtRisk \subseteq dirty[current] /\ Guarded

(* A socket is attached to the session that is live, or becomes it.           *)
LEMMA AttachSeats ==
    ASSUME TypeOK, Seats, AttachedOnce, NEW ks \in SUBSET Sockets, NEW s \in Sessions,
           \A k \in ks : acq[k] # "none", Attach(ks, s), current' = s, current \in {0, s}
    PROVE  Seats'
  <1>1. /\ sock \in [Sockets -> SocketStates] /\ holders \in [Sessions -> SUBSET Sockets]
        /\ sid \in [Sockets -> 0..MaxSessions] /\ 0 \notin Sessions
    BY DEF TypeOK, SocketsTyped, SessionsTyped, Sessions
  <1>2. holders'[s] = holders[s] \cup ks /\ \A t \in Sessions : t # s => holders'[t] = holders[t]
    BY <1>1 DEF Attach
  <1>3. \A k \in Sockets :
           /\ sid'[k] = IF k \in ks THEN s ELSE sid[k]
           /\ sock'[k] = IF k \in ks /\ sock[k] = "open" THEN "editor" ELSE sock[k]
           /\ waits'[k] = waits[k]
    BY DEF Attach
  <1>4. ASSUME NEW k \in Sockets PROVE Seat(k)'
    <2>1. Seat(k) /\ (k \in ks => sid[k] = 0 /\ sock[k] # "idle")
      BY DEF Seats, AttachedOnce
    <2>2. CASE k \in ks
      BY <1>1, <1>2, <1>3, <2>1, <2>2 DEF Seat
    <2>3. CASE k \notin ks
      <3>1. sid[k] # 0 => sid[k] \in Sessions
        BY <1>1, BoundsAssumption DEF Sessions
      <3>2. sid[k] # 0 => holders[sid[k]] \subseteq holders'[sid[k]]
        BY <1>2, <3>1
      <3>. QED
        BY <1>3, <2>1, <2>3, <3>2 DEF Seat
    <2>. QED
      BY <2>2, <2>3
  <1>5. ASSUME NEW t \in Sessions, NEW h \in holders'[t] PROVE sid'[h] = t
    <2>1. h \in Sockets
      BY <1>1, <1>2, <1>5
    <2>2. CASE h \in ks
      <3>1. h \notin holders[t]
        BY <1>1, <2>2 DEF Seats, AttachedOnce
      <3>. QED
        BY <1>2, <1>3, <1>5, <2>1, <2>2, <3>1
    <2>. QED
      BY <1>2, <1>3, <1>5, <2>1, <2>2 DEF Seats
  <1>. QED
    BY <1>4, <1>5 DEF Seats

(* A socket that releases, and is closed, takes the session with it only     *)
(* when no other socket is attached to it.                                   *)
LEMMA ReleaseSeats ==
    ASSUME TypeOK, Seats, NEW k \in Sockets, ReleaseDocSession(k), sock' = [sock EXCEPT ![k] = "closed"],
           sid' = sid, waits'[k] = 0, \A m \in Sockets : m # k => waits'[m] = waits[m], sid[k] # 0
    PROVE  Seats'
  <1>1. /\ sock \in [Sockets -> SocketStates] /\ holders \in [Sessions -> SUBSET Sockets]
        /\ current \in Sessions \cup {0}
    BY BoundsAssumption DEF TypeOK, SocketsTyped, SessionsTyped, Sessions
  <1>2. \A t \in Sessions : holders'[t] \subseteq holders[t]
    BY <1>1 DEF ReleaseDocSession, sessionVars
  <1>3. ASSUME NEW m \in Sockets, m # k, current # 0, m \in holders[current]
        PROVE  current' = current
    BY <1>1, <1>3 DEF ReleaseDocSession
  <1>4. ASSUME NEW m \in Sockets, m # k, NEW t \in Sessions, m \in holders[t]
        PROVE  m \in holders'[t]
    BY <1>1, <1>4 DEF ReleaseDocSession, sessionVars
  <1>5. ASSUME NEW m \in Sockets PROVE Seat(m)'
    <2>1. Seat(m)
      BY DEF Seats
    <2>2. CASE m = k
      BY <1>1, <2>1, <2>2 DEF Seat
    <2>3. CASE m # k
      <3>1. sid[m] # 0 => sid[m] \in Sessions
        BY BoundsAssumption DEF TypeOK, SocketsTyped, Sessions
      <3>2. sock[m] = "editor" => current' = current
        BY <1>3, <2>1, <2>3, <3>1 DEF Seat, ReleaseDocSession, sessionVars
      <3>. QED
        BY <1>1, <1>4, <2>1, <2>3, <3>1, <3>2 DEF Seat
    <2>. QED
      BY <2>2, <2>3
  <1>. QED
    BY <1>2, <1>5 DEF Seats

(* A step that closes or connects sockets and attaches or releases none.     *)
LEMMA SeatsStay ==
    ASSUME Seats, AttachedOnce, UNCHANGED <<current, holders, sid>>,
           \A k \in Sockets :
              /\ \/ sock'[k] = sock[k]
                 \/ sock[k] = "idle" /\ sock'[k] = "open"
                 \/ sock[k] \in {"open", "editor"} /\ sock'[k] = "closing"
                 \/ sock'[k] = "closed"
                 \/ sid[k] # 0 /\ sock[k] \in {"editor", "closing"} /\ sock'[k] = "leaving"
              /\ waits'[k] # 0 => sock'[k] = "leaving"
    PROVE  Seats'
  <1>1. ASSUME NEW k \in Sockets PROVE Seat(k)'
    <2>1. Seat(k) /\ (sock[k] = "idle" => sid[k] = 0)
      BY DEF Seats, AttachedOnce
    <2>. QED
      BY <2>1 DEF Seat
  <1>. QED
    BY <1>1 DEF Seats

(* The sockets and the holders of the live session keep in step.             *)
LEMMA StepSeats ==
    ASSUME TypeOK, SessionMaps, EditOwners, Seats, [Next]_vars
    PROVE  Seats'
  <1>0. AttachedOnce /\ sock \in [Sockets -> SocketStates] /\ waits \in [Sockets -> 0..MaxAttempts]
    BY DEF EditOwners, TypeOK, SocketsTyped
  <1>1. ASSUME UNCHANGED <<current, holders, sock, sid, waits>> PROVE Seats'
    BY <1>0, <1>1, SeatsStay DEF Seats, Seat
  <1>2. ASSUME NEW ks, ClosedByServer(ks), UNCHANGED <<current, holders, sid, waits>>
        PROVE  Seats'
    <2>1. \A k \in Sockets : \/ sock'[k] = sock[k]
                             \/ sock[k] \in {"open", "editor"} /\ sock'[k] = "closing"
      BY <1>2 DEF ClosedByServer, OpenSockets
    <2>2. \A k \in Sockets : waits'[k] # 0 => sock[k] = "leaving"
      BY <1>2 DEF Seats, Seat
    <2>. QED
      BY <1>0, <1>2, <2>1, <2>2, SeatsStay
  <1>3. ASSUME NEW p, Invalidated(p) PROVE Seats'
    <2>1. /\ UNCHANGED <<holders, sid, waits>>
          /\ \A k \in Sockets : sock'[k] = IF k \in OpenSockets THEN "closing" ELSE sock[k]
      BY <1>3 DEF Invalidated
    <2>2. ASSUME NEW k \in Sockets PROVE Seat(k)'
      <3>1. Seat(k)
        BY DEF Seats
      <3>. QED
        BY <2>1, <3>1 DEF Seat, OpenSockets
    <2>. QED
      BY <2>1, <2>2 DEF Seats
  <1>13. ASSUME NEW s \in Sessions, LaneStep(s) PROVE Seats'
    <2>1. CASE LaneGate(s) \/ LaneMaterialize(s)
      BY <1>1, <1>2, <2>1 DEF LaneGate, LaneMaterialize, sessionVars
    <2>2. CASE LaneBoot(s) \/ LanePhase1(s) \/ LaneAbort(s) \/ LaneSettle(s) \/ LaneCommit(s)
               \/ LaneDelete(s) \/ LaneDeleteAbandoned(s)
      BY <1>1, <2>2 DEF LaneBoot, LanePhase1, LaneAbort, LaneSettle, LaneCommit, LaneDelete,
                        LaneDeleteAbandoned, sessionVars, socketVars
    <2>3. CASE LaneSettleBadly(s) \/ LaneQuiesce(s) \/ LaneDeleteCommit(s)
      BY <1>1, <1>3, <2>3 DEF LaneSettleBadly, LaneQuiesce, LaneDeleteCommit, sessionVars,
                              socketVars
    <2>. QED
      BY <1>13, <2>1, <2>2, <2>3 DEF LaneStep
  <1>4. ASSUME NEW s \in Sessions, ConstructRead(s) PROVE Seats'
    BY <1>1, <1>2, <1>4 DEF ConstructRead
  <1>5. ASSUME NEW s \in Sessions, ConstructDone(s) PROVE Seats'
    <2>1. current \in {0, s}
      <3>1. promised = s /\ sstate[s] = "seeding"
        BY <1>5 DEF ConstructDone, SessionMaps
      <3>2. current # 0 => current \in Sessions
        BY BoundsAssumption DEF TypeOK, SessionsTyped, Sessions
      <3>3. current # 0 => promised = current
        BY <3>2 DEF SessionMaps, OneLiveSession
      <3>. QED
        BY <3>1, <3>3
    <2>2. Acquirers \in SUBSET Sockets /\ \A k \in Acquirers : acq[k] # "none"
      BY DEF Acquirers
    <2>3. Attach(Acquirers, s) /\ current' = s
      BY <1>5 DEF ConstructDone
    <2>. QED
      BY <1>0, <2>1, <2>2, <2>3, AttachSeats
  <1>6. ASSUME NEW k \in Sockets, Acquire(k) PROVE Seats'
    <2>1. CASE /\ promised # 0 /\ sstate[promised] = "active" /\ Attach({k}, promised)
               /\ UNCHANGED current
      <3>1. promised \in Sessions
        BY <2>1, BoundsAssumption DEF TypeOK, SessionsTyped, Sessions
      <3>2. current = promised
        BY <2>1, <3>1 DEF SessionMaps, OneLiveSession
      <3>3. \A m \in {k} : acq[m] # "none"
        BY <1>6 DEF Acquire
      <3>. QED
        BY <1>0, <2>1, <3>1, <3>2, <3>3, AttachSeats
    <2>. QED
      BY <1>1, <1>2, <1>6, <2>1 DEF Acquire, sessionVars
  <1>7. ASSUME NEW k \in Sockets, Connect(k) PROVE Seats'
    <2>1. \A m \in Sockets : \/ sock'[m] = sock[m]
                             \/ sock[m] = "idle" /\ sock'[m] = "open"
      BY <1>0, <1>7 DEF Connect
    <2>2. \A m \in Sockets : waits'[m] # 0 => sock'[m] = "leaving"
      BY <1>0, <1>7 DEF Connect, Seats, Seat
    <2>. QED
      BY <1>0, <1>7, <2>1, <2>2, SeatsStay DEF Connect, sessionVars
  <1>8. ASSUME NEW k \in Sockets, CloseEvent(k) PROVE Seats'
    <2>0. sock[k] \in {"open", "editor", "closing"} /\ sid' = sid /\ waits[k] = 0
          /\ \A m \in Sockets : m # k => sock'[m] = sock[m] /\ waits'[m] = waits[m]
      BY <1>0, <1>8 DEF CloseEvent, Seats, Seat
    <2>1. CASE sid[k] = 0
      <3>1. sock'[k] = "closed" /\ UNCHANGED <<current, holders, waits>>
        BY <1>0, <1>8, <2>1 DEF CloseEvent, sessionVars
      <3>2. \A m \in Sockets : waits'[m] # 0 => sock'[m] = "leaving"
        BY <2>0, <3>1 DEF Seats, Seat
      <3>. QED
        BY <1>0, <2>0, <3>1, <3>2, SeatsStay
    <2>2. CASE sid[k] # 0 /\ ~PublishesOnLeaving(k)
      BY <1>8, <2>0, <2>2, ReleaseSeats DEF CloseEvent
    <2>3. CASE sid[k] # 0 /\ PublishesOnLeaving(k)
      <3>1. sock'[k] = "leaving" /\ UNCHANGED <<current, holders>>
        BY <1>0, <1>8, <2>3 DEF CloseEvent, sessionVars
      <3>2. sock[k] # "open" /\ \A m \in Sockets : waits'[m] # 0 => sock'[m] = "leaving"
        BY <2>0, <2>3, <3>1 DEF Seats, Seat
      <3>. QED
        BY <1>0, <2>0, <2>3, <3>1, <3>2, SeatsStay
    <2>. QED
      BY <2>1, <2>2, <2>3
  <1>9. ASSUME NEW k \in Sockets, LeaveDone(k) PROVE Seats'
    <2>1. /\ sock' = [sock EXCEPT ![k] = "closed"] /\ sid' = sid /\ waits'[k] = 0
          /\ \A m \in Sockets : m # k => waits'[m] = waits[m]
          /\ sock[k] = "leaving" /\ sid[k] # 0
      BY <1>0, <1>9 DEF LeaveDone, Seats, Seat
    <2>2. CASE UNCHANGED <<current, holders>>
      <3>1. \A m \in Sockets : /\ waits'[m] # 0 => sock'[m] = "leaving"
                               /\ sock'[m] = sock[m] \/ sock'[m] = "closed"
        BY <1>0, <2>1 DEF Seats, Seat
      <3>. QED
        BY <1>0, <2>1, <2>2, <3>1, SeatsStay
    <2>. QED
      BY <1>9, <2>1, <2>2, ReleaseSeats DEF LeaveDone, sessionVars
  <1>10. ASSUME NEW k \in Sockets, ServerReceive(k) PROVE Seats'
    BY <1>1, <1>2, <1>10 DEF ServerReceive, sessionVars
  <1>11. ASSUME NEW k \in Sockets, ClientEdit(k) \/ ClientReceive(k) \/ ClientReady(k)
         PROVE  Seats'
    BY <1>1, <1>11 DEF ClientEdit, ClientReceive, ClientReady, sessionVars, socketVars
  <1>12. CASE \/ \E s \in Sessions : PauseTimeout(s)
              \/ \E a \in Attempts : RunAttempt(a)
              \/ Request \/ UNCHANGED vars
    BY <1>1, <1>12 DEF PauseTimeout, RunAttempt, Request, ForcePublish, QuiesceFire,
                       DeleteRequest, RestoreBegin, vars, sessionVars, socketVars
  <1>14. CASE RestoreStep
    BY <1>1, <1>3, <1>14 DEF RestoreStep, RestoreHandoff, RestoreLock, RestoreLand,
                             sessionVars, socketVars
  <1>. QED
    BY <1>4, <1>5, <1>6, <1>7, <1>8, <1>9, <1>10, <1>11, <1>12, <1>13, <1>14
       DEF Next, SessionStep, SocketStep

(* A commit at the head of a lane stays there while commands join, and is    *)
(* gone when the head goes; only the last step of a settle puts one there.   *)
LEMMA AppendAlone ==
    ASSUME NEW q \in Seq(Commands), NEW c \in Commands, c.op # "commit", NEW d,
           CommitAlone(q, d)
    PROVE  CommitAlone(Append(q, c), d)
  <1>1. \A i \in DOMAIN Append(q, c) :
           (Append(q, c)[i] = c) \/ (i \in DOMAIN q /\ Append(q, c)[i] = q[i])
    OBVIOUS
  <1>. QED
    BY <1>1 DEF CommitAlone

LEMMA TailAlone ==
    ASSUME NEW q \in Seq(Commands), q # << >>, NEW d, NEW e, CommitAlone(q, d)
    PROVE  CommitAlone(Tail(q), e)
  <1>0. Tail(q) \in Seq(Commands)
    OBVIOUS
  <1>1. PICK t \in Seq(Commands) : t = Tail(q)
    BY <1>0
  <1>2. \A i \in DOMAIN t : i + 1 \in DOMAIN q /\ t[i] = q[i + 1] /\ i + 1 # 1
    BY <1>1
  <1>. QED
    BY <1>1, <1>2 DEF CommitAlone

LEMMA ContinuedAlone ==
    ASSUME NEW q \in Seq(Commands), q # << >>, NEW c \in Commands, NEW d, NEW e,
           CommitAlone(q, d), c.op = "commit" => e = {}
    PROVE  CommitAlone(<<c>> \o Tail(q), e)
  <1>1. PICK r \in Seq(Commands) : r = <<c>> \o Tail(q)
    <2>1. <<c>> \in Seq(Commands) /\ Tail(q) \in Seq(Commands)
      OBVIOUS
    <2>2. <<c>> \o Tail(q) \in Seq(Commands)
      BY <2>1
    <2>. QED
      BY <2>2
  <1>2. \A i \in DOMAIN r : (i = 1 /\ r[i] = c) \/ (i # 1 /\ i \in DOMAIN q /\ r[i] = q[i])
    BY <1>1
  <1>. QED
    BY <1>1, <1>2 DEF CommitAlone

(* A step of a lane leaves things tidy ...                                   *)
LEMMA LaneTidy ==
    ASSUME LanesTyped, AllBooks, Tidy, NEW s \in Sessions, lane[s] # << >>,
           \A t \in Sessions : Reached(sstate[t]) => Reached(sstate'[t]),
           \/ lane' = Popped(lane, s)
           \/ \E c \in Commands : /\ lane' = Continued(lane, s, c)
                                  /\ c.op = "commit" => dirty'[s] = {},
           \A t \in Sessions : t # s => dirty'[t] = dirty[t] /\ bound'[t] = bound[t],
           dirty'[s] # {} => bound'[s]
    PROVE  Tidy'
  <1>1. lane \in [Sessions -> Seq(Commands)] /\ lane[s] \in Seq(Commands)
    BY DEF LanesTyped
  <1>2. CommitAlone(lane[s], dirty[s]) /\ Reached(sstate[s])
    BY DEF Tidy, AllBooks, InBooks, Books
  <1>3. CommitAlone(lane'[s], dirty'[s]) /\ \A t \in Sessions : t # s => lane'[t] = lane[t]
    <2>1. CASE lane' = Popped(lane, s)
      <3>1. CommitAlone(Tail(lane[s]), dirty'[s])
        BY <1>1, <1>2, TailAlone
      <3>. QED
        BY <1>1, <2>1, <3>1 DEF Popped
    <2>2. ASSUME NEW c \in Commands, lane' = Continued(lane, s, c),
                 c.op = "commit" => dirty'[s] = {}
          PROVE  CommitAlone(lane'[s], dirty'[s]) /\ \A t \in Sessions : t # s => lane'[t] = lane[t]
      <3>1. CommitAlone(<<c>> \o Tail(lane[s]), dirty'[s])
        BY <1>1, <1>2, <2>2, ContinuedAlone
      <3>. QED
        BY <1>1, <2>2, <3>1 DEF Continued
    <2>. QED
      BY <2>1, <2>2
  <1>. QED
    BY <1>2, <1>3 DEF Tidy

(* ... and so does a step in which commands join, or none moves.             *)
LEMMA OtherTidy ==
    ASSUME LanesTyped, Tidy, UNCHANGED dirty,
           \/ lane' = lane
           \/ \E s \in Sessions, c \in Commands : c.op # "commit" /\ lane' = Enqueued(lane, s, c),
           \A t \in Sessions : /\ Reached(sstate[t]) => Reached(sstate'[t])
                               /\ bound'[t] = bound[t] \/ ~Reached(sstate[t])
    PROVE  Tidy'
  <1>1. ASSUME NEW t \in Sessions PROVE CommitAlone(lane'[t], dirty[t])
    <2>1. lane \in [Sessions -> Seq(Commands)] /\ lane[t] \in Seq(Commands)
      BY DEF LanesTyped
    <2>2. CommitAlone(lane[t], dirty[t])
      BY DEF Tidy
    <2>3. ASSUME NEW s \in Sessions, NEW c \in Commands, c.op # "commit",
                 lane' = Enqueued(lane, s, c)
          PROVE  CommitAlone(lane'[t], dirty[t])
      <3>1. lane'[t] = IF t = s THEN Append(lane[t], c) ELSE lane[t]
        BY <2>1, <2>3 DEF Enqueued
      <3>. QED
        BY <2>1, <2>2, <2>3, <3>1, AppendAlone
    <2>. QED
      BY <2>2, <2>3
  <1>. QED
    BY <1>1 DEF Tidy

(* What a pause that moves puts on the lane is no commit.                    *)
LEMMA LaneAfterJoins ==
    ASSUME PausesTyped, NEW s \in Sessions, NEW q \in Pauses
    PROVE  \/ LaneAfter(s, q) = lane
           \/ \E c \in Commands : c.op # "commit" /\ LaneAfter(s, q) = Enqueued(lane, s, c)
  <1> DEFINE a == PauseResumes(pause[s], q)
  <1>1. CASE a = 0
    BY <1>1 DEF LaneAfter
  <1>2. CASE a # 0
    <2>1. a \in Nat /\ q.state \in {"ready", "aborted"}
      BY <1>2, PauseResumesSettled DEF PausesTyped
    <2>2. Command(q.state, a) \in Commands /\ Command(q.state, a).op # "commit"
      BY <2>1, CommandType DEF LaneOps, Command
    <2>. QED
      BY <1>2, <2>2 DEF LaneAfter
  <1>. QED
    BY <1>1, <1>2

(* The lanes and the edits that wait for a settle stay tidy.                 *)
LEMMA StepTidy ==
    ASSUME TypeOK, SessionMaps, AllBooks, Tidy, [Next]_vars
    PROVE  Tidy'
  <1>0. /\ LanesTyped /\ PausesTyped /\ lane \in [Sessions -> Seq(Commands)]
        /\ ProposalsTyped /\ sstate \in [Sessions -> SessionStates]
        /\ current # 0 => current \in Sessions
    BY BoundsAssumption DEF TypeOK, LanesTyped, SessionsTyped, Sessions
  <1>1. ASSUME NEW s \in Sessions, LaneStep(s) PROVE Tidy'
    <2>0. lane[s] # << >> /\ \A t \in Sessions : Reached(sstate[t]) => Reached(sstate'[t])
      <3>1. lane[s] # << >> /\ (sstate' = sstate \/ \E p : Invalidated(p))
        BY <1>1 DEF LaneStep, LaneBoot, LaneGate, LaneMaterialize, LanePhase1, LaneAbort,
                    LaneSettle, LaneSettleBadly, LaneCommit, LaneQuiesce, LaneDelete,
                    LaneDeleteCommit, LaneDeleteAbandoned, Running, sessionVars
      <3>. QED
        BY <1>0, <3>1 DEF Invalidated, SessionGone, Reached
    <2>1. Head(lane[s]) \in Commands /\ Arg(s) \in Nat
      BY <1>0, <2>0, HeadType DEF Arg, Commands
    <2>2. /\ dirty[s] # {} => bound[s]
          /\ Running(s, "commit") => dirty[s] = {}
      <3>1. lane[s] \in Seq(Commands) /\ 1 \in DOMAIN lane[s] /\ Head(lane[s]) = lane[s][1]
        BY <1>0, <2>0
      <3>. QED
        BY <3>1 DEF Tidy, CommitAlone, Running
    <2>3. CASE LaneBoot(s) \/ LaneAbort(s)
      BY <1>0, <2>0, <2>2, <2>3, LaneTidy DEF LaneBoot, LaneAbort, EndAttempt, proposalVars
    <2>4. CASE LaneGate(s)
      <3>1. UNCHANGED <<dirty, bound>>
        BY <2>4 DEF LaneGate, proposalVars
      <3>2. Running(s, "update") => Command("materialize", Arg(s)) \in Commands
        BY <2>1, CommandType DEF Running, Arg, Commands, LaneOps
      <3>3. Command("materialize", Arg(s)).op # "commit"
        BY DEF Command
      <3>. QED
        BY <1>0, <2>0, <2>2, <2>4, <3>1, <3>2, <3>3, LaneTidy DEF LaneGate
    <2>5. CASE LaneMaterialize(s)
      <3>1. \A t \in Sessions : t # s => dirty'[t] = dirty[t] /\ bound'[t] = bound[t]
        BY <1>0, <2>5 DEF LaneMaterialize, ProposalsTyped
      <3>2. dirty'[s] # {} => bound'[s]
        BY <1>0, <2>2, <2>5 DEF LaneMaterialize, ProposalsTyped
      <3>. QED
        BY <1>0, <2>0, <2>5, <3>1, <3>2, LaneTidy DEF LaneMaterialize
    <2>6. CASE LanePhase1(s)
      <3>1. UNCHANGED <<dirty, bound>>
        BY <2>6 DEF LanePhase1, proposalVars
      <3>2. Command("ready", Arg(s)) \in Commands /\ Command("ready", Arg(s)).op # "commit"
        BY <2>1, CommandType DEF Command, LaneOps
      <3>3. lane' = Popped(lane, s) \/ lane' = Continued(lane, s, Command("ready", Arg(s)))
        BY <2>6 DEF LanePhase1
      <3>. QED
        BY <1>0, <2>0, <2>2, <3>1, <3>2, <3>3, LaneTidy
    <2>7. CASE LaneSettle(s)
      <3>1. Command("commit", Arg(s)) \in Commands
        BY <2>1, CommandType DEF LaneOps
      <3>2. bound' = bound
        BY <2>7 DEF LaneSettle
      <3>3. CASE lane' = Popped(lane, s) /\ UNCHANGED <<dirty, draft>>
        BY <1>0, <2>0, <2>2, <3>2, <3>3, LaneTidy
      <3>4. CASE /\ IF bound[s] THEN Settled(s, dirty[s]) ELSE UNCHANGED <<dirty, draft>>
                 /\ \/ lane' = Popped(lane, s)
                    \/ lane' = Continued(lane, s, Command("commit", Arg(s)))
        <4>1. dirty'[s] = {} /\ \A t \in Sessions : t # s => dirty'[t] = dirty[t]
          BY <1>0, <2>2, <3>4 DEF Settled, ProposalsTyped
        <4>. QED
          BY <1>0, <2>0, <3>1, <3>2, <3>4, <4>1, LaneTidy
      <3>. QED
        BY <2>7, <3>3, <3>4 DEF LaneSettle, EndAttempt
    <2>8. CASE LaneCommit(s)
      <3>1. /\ dirty' = dirty /\ lane' = Popped(lane, s) /\ dirty[s] = {}
            /\ \A t \in Sessions : t # s => bound'[t] = bound[t]
        BY <1>0, <2>2, <2>8 DEF LaneCommit, EndAttempt, ProposalsTyped
      <3>. QED
        BY <1>0, <2>0, <3>1, LaneTidy
    <2>9. CASE LaneQuiesce(s) \/ LaneSettleBadly(s)
      <3>1. /\ dirty'[s] \subseteq dirty[s] /\ bound' = bound /\ lane' = Popped(lane, s)
            /\ \A t \in Sessions : t # s => dirty'[t] = dirty[t]
        BY <1>0, <2>9 DEF LaneQuiesce, LaneSettleBadly, SettledBadly, Settled, ProposalsTyped
      <3>. QED
        BY <1>0, <2>0, <2>2, <3>1, LaneTidy
    <2>10. CASE LaneDelete(s)
      <3>1. UNCHANGED <<dirty, bound>>
        BY <2>10 DEF LaneDelete, proposalVars
      <3>2. /\ Command("delete_commit", 0) \in Commands
            /\ Command("delete_commit", 0).op # "commit"
        BY CommandType DEF Command, LaneOps
      <3>3. \/ lane' = Popped(lane, s)
            \/ lane' = Continued(lane, s, Command("delete_commit", 0))
        BY <2>10 DEF LaneDelete
      <3>. QED
        BY <1>0, <2>0, <2>2, <3>1, <3>2, <3>3, LaneTidy
    <2>11. CASE LaneDeleteCommit(s) \/ LaneDeleteAbandoned(s)
      <3>1. /\ bound'[s] /\ lane' = Popped(lane, s)
            /\ \A t \in Sessions : t # s => dirty'[t] = dirty[t] /\ bound'[t] = bound[t]
        BY <1>0, <2>11 DEF LaneDeleteCommit, LaneDeleteAbandoned, ProposalsTyped
      <3>. QED
        BY <1>0, <2>0, <3>1, LaneTidy
    <2>. QED
      BY <1>1, <2>3, <2>4, <2>5, <2>6, <2>7, <2>8, <2>9, <2>10, <2>11 DEF LaneStep
  <1>2. ASSUME UNCHANGED <<lane, dirty, bound>>,
               \A t \in Sessions : Reached(sstate[t]) => Reached(sstate'[t])
        PROVE  Tidy'
    BY <1>0, <1>2, OtherTidy
  <1>3. ASSUME NEW s \in Sessions, NEW q \in Pauses,
               lane' = LaneAfter(s, q), UNCHANGED <<dirty, bound>>,
               \A t \in Sessions : Reached(sstate[t]) => Reached(sstate'[t])
        PROVE  Tidy'
    BY <1>0, <1>3, LaneAfterJoins, OtherTidy
  <1>4. ASSUME NEW s \in Sessions, ConstructRead(s) PROVE Tidy'
    BY <1>0, <1>4, OtherTidy DEF ConstructRead, ProposalsTyped, Reached
  <1>5. ASSUME NEW s \in Sessions, NEW ks \in SUBSET Sockets, Attach(ks, s),
               UNCHANGED <<dirty, bound>>,
               \A t \in Sessions : Reached(sstate[t]) => Reached(sstate'[t])
        PROVE  Tidy'
    <2>1. PICK c : c = [op |-> "boot", n |-> 0, ks |-> ks]
      OBVIOUS
    <2>2. c \in Commands /\ c.op # "commit"
      BY <2>1 DEF Commands, LaneOps
    <2>3. lane' = Enqueued(lane, s, c)
      BY <1>5, <2>1 DEF Attach
    <2>. QED
      BY <1>0, <1>5, <2>2, <2>3, OtherTidy
  <1>6. ASSUME NEW s \in Sessions, ConstructDone(s) PROVE Tidy'
    BY <1>0, <1>5, <1>6 DEF ConstructDone, Acquirers, proposalVars, Reached
  <1>7. ASSUME NEW k \in Sockets, Acquire(k) PROVE Tidy'
    <2>1. UNCHANGED <<dirty, bound>>
      BY <1>7 DEF Acquire, proposalVars
    <2>2. \A t \in Sessions : Reached(sstate[t]) => Reached(sstate'[t])
      <3>1. CASE sstate' = [sstate EXCEPT ![nSessions + 1] = "acquiring"]
        <4>1. \A t \in Sessions : t = nSessions + 1 => sstate[t] = "none"
          BY BoundsAssumption DEF SessionMaps, TypeOK, SessionsTyped, Sessions
        <4>. QED
          BY <1>0, <3>1, <4>1 DEF Reached
      <3>. QED
        BY <1>7, <3>1 DEF Acquire, sessionVars
    <2>3. CASE promised # 0 /\ Attach({k}, promised)
      <3>1. promised \in Sessions
        BY <2>3, BoundsAssumption DEF TypeOK, SessionsTyped, Sessions
      <3>. QED
        BY <1>5, <2>1, <2>2, <2>3, <3>1
    <2>. QED
      BY <1>2, <1>7, <2>1, <2>2, <2>3 DEF Acquire
  <1>8. ASSUME NEW k \in Sockets, CloseEvent(k) \/ LeaveDone(k) PROVE Tidy'
    <2>1. UNCHANGED <<dirty, bound>> /\ \A t \in Sessions : Reached(sstate[t]) => Reached(sstate'[t])
      <3>1. \A t \in Sessions : sstate'[t] \in {sstate[t], "ended"}
        BY <1>8, SessionsEnd DEF CloseEvent, LeaveDone, sessionVars
      <3>. QED
        BY <1>8, <3>1 DEF CloseEvent, LeaveDone, proposalVars, Reached
    <2>2. \/ lane' = lane
          \/ current # 0 /\ lane' = LaneAfter(current, PauseSocketLost(pause[current], k))
      BY <1>8 DEF CloseEvent, LeaveDone, PauseStep, PublishesOnLeaving
    <2>. QED
      BY <1>0, <1>2, <1>3, <2>1, <2>2, MovedPauses
  <1>9. ASSUME NEW k \in Sockets, ServerReceive(k) PROVE Tidy'
    <2>1. UNCHANGED <<dirty, bound, sstate>>
      BY <1>9 DEF ServerReceive, proposalVars, sessionVars
    <2>2. CASE /\ current # 0 /\ up[k] # << >> /\ Head(up[k]).op = "update"
               /\ lane' = Enqueued(lane, current, Command("update", Head(up[k]).n))
      <3>1. Head(up[k]) \in Frames
        BY <2>2 DEF TypeOK, WireTyped
      <3>2. Head(up[k]).n \in Edits /\ Head(up[k]).n \in Nat
        BY <2>2, <3>1, BoundsAssumption DEF Frames
      <3>3. /\ Command("update", Head(up[k]).n) \in Commands
            /\ Command("update", Head(up[k]).n).op # "commit"
        BY <3>2, CommandType DEF LaneOps, Command
      <3>. QED
        BY <1>0, <2>1, <2>2, <3>3, OtherTidy
    <2>3. CASE current # 0 /\ lane' = LaneAfter(current, PauseMarkReady(pause[current], k))
      BY <1>0, <1>3, <2>1, <2>3, MovedPauses
    <2>. QED
      BY <1>2, <1>9, <2>1, <2>2, <2>3 DEF ServerReceive, IsCurrentSessionEditor, PauseStep
  <1>10. ASSUME NEW k \in Sockets, \/ Connect(k) \/ ClientEdit(k) \/ ClientReceive(k)
                                   \/ ClientReady(k)
         PROVE  Tidy'
    BY <1>2, <1>10 DEF Connect, ClientEdit, ClientReceive, ClientReady, proposalVars, sessionVars
  <1>11. ASSUME NEW s \in Sessions, PauseTimeout(s) PROVE Tidy'
    <2>1. PauseTimedOut(pause[s]) \in Pauses
      BY <1>0 DEF PausesTyped, PauseTimedOut, PauseSettled, Pauses, PauseStates
    <2>. QED
      BY <1>3, <1>11, <2>1 DEF PauseTimeout, PauseStep, proposalVars, sessionVars
  <1>12. ASSUME NEW a \in Attempts, RunAttempt(a) PROVE Tidy'
    <2>1. asess[a] \in Sessions
      BY <1>12 DEF AllBooks, AttemptsCounted, RunAttempt
    <2>2. Command("phase1", a) \in Commands /\ Command("phase1", a).op # "commit"
      BY CommandType DEF LaneOps, Attempts, Command
    <2>. QED
      BY <1>0, <1>12, <2>1, <2>2, OtherTidy DEF RunAttempt, proposalVars, sessionVars
  <1>13. CASE QuiesceFire \/ DeleteRequest
    <2>1. ASSUME NEW op \in {"quiesce", "delete"}
          PROVE  Command(op, 0) \in Commands /\ Command(op, 0).op # "commit"
      BY CommandType DEF LaneOps, Command
    <2>2. UNCHANGED <<dirty, bound, sstate>>
      BY <1>13 DEF QuiesceFire, DeleteRequest, proposalVars, sessionVars
    <2>3. \/ lane' = lane
          \/ \E op \in {"quiesce", "delete"} :
                current \in Sessions /\ lane' = Enqueued(lane, current, Command(op, 0))
      BY <1>0, <1>13 DEF QuiesceFire, DeleteRequest
    <2>. QED
      BY <1>0, <2>1, <2>2, <2>3, OtherTidy
  <1>14. CASE ForcePublish \/ RestoreBegin \/ RestoreHandoff \/ RestoreLock \/ UNCHANGED vars
    BY <1>2, <1>14 DEF ForcePublish, RestoreBegin, RestoreHandoff, RestoreLock, vars,
                       proposalVars, sessionVars
  <1>15. CASE RestoreLand
    BY <1>0, <1>2, <1>15 DEF RestoreLand, Invalidated, SessionGone, Reached, proposalVars
  <1>. QED
    BY <1>1, <1>4, <1>6, <1>7, <1>8, <1>9, <1>10, <1>11, <1>12, <1>13, <1>14, <1>15
       DEF Next, SessionStep, SocketStep, Request, RestoreStep

(* A structural edit waits for a settle, a body edit never does.             *)
LEMMA StepStructural ==
    ASSUME TypeOK, StructuralWait, CalmStep
    PROVE  StructuralWait'
  <1>0. dirty \in [Sessions -> SUBSET Edits]
    BY DEF TypeOK, ProposalsTyped
  <1>1. ASSUME NEW s \in Sessions, CalmLaneStep(s) PROVE StructuralWait'
    <2>1. CASE LaneMaterialize(s)
      BY <1>0, <2>1 DEF LaneMaterialize, StructuralWait
    <2>2. CASE LaneSettle(s) \/ QuietQuiesce(s) \/ BadSettle(s)
      <3>1. dirty' = dirty \/ \E d : Settled(s, d)
        BY <2>2 DEF LaneSettle, QuietQuiesce, BadSettle, SettledBadly
      <3>. QED
        BY <1>0, <3>1 DEF Settled, StructuralWait
    <2>3. CASE \/ LaneBoot(s) \/ LaneGate(s) \/ LanePhase1(s) \/ LaneAbort(s)
               \/ LaneCommit(s)
      BY <2>3 DEF LaneBoot, LaneGate, LanePhase1, LaneAbort, LaneCommit, proposalVars,
                  StructuralWait
    <2>. QED
      BY <1>1, <2>1, <2>2, <2>3 DEF CalmLaneStep
  <1>2. ASSUME UNCHANGED dirty PROVE StructuralWait'
    BY <1>2 DEF StructuralWait
  <1>3. ASSUME NEW k \in Sockets, SocketStep(k) PROVE UNCHANGED dirty
    BY <1>3 DEF SocketStep, Connect, Acquire, ServerReceive, CloseEvent, LeaveDone,
                ClientEdit, ClientReceive, ClientReady, proposalVars
  <1>4. ASSUME NEW s \in Sessions, ConstructRead(s) \/ ConstructDone(s) \/ PauseTimeout(s)
        PROVE  UNCHANGED dirty
    BY <1>4 DEF ConstructRead, ConstructDone, PauseTimeout, proposalVars
  <1>. QED
    BY <1>1, <1>2, <1>3, <1>4
       DEF CalmStep, RunAttempt, ForcePublish, QuiesceFire, vars, proposalVars

(* No new edit is at risk when every edit that gets acknowledged is decided  *)
(* on or in the proposal, and none that is leaves it undecided.              *)
LEMMA RiskStays ==
    ASSUME \A e \in acked : e \in landed \cup rejected \/ InProposal(e) =>
                               e \in landed' \cup rejected' \/ InProposal(e)',
           \A e \in acked' \ acked : e \in rejected' \/ InProposal(e)'
    PROVE  AtRisk' \subseteq AtRisk
  BY DEF AtRisk

(* Settling takes edits out of risk.                                         *)
LEMMA SettleRisk ==
    ASSUME ProposalsTyped, NEW s \in Sessions, NEW d \in SUBSET dirty[s], bound[s], ~CannotSettle(s),
           Settled(s, d), UNCHANGED <<inprog, acked, rejected, landed>>
    PROVE  /\ AtRisk' \subseteq AtRisk \ d /\ dirty'[s] = dirty[s] \ d
           /\ \A t \in Sessions : t # s => dirty'[t] = dirty[t]
  <1>1. AtRisk' \subseteq AtRisk
    BY SettledKeeps, RiskStays
  <1>2. draft'[adopt[s]] = draft[adopt[s]] \cup d /\ (d # {} => adopt[s] \in inprog)
    BY DEF ProposalsTyped, Settled, CannotSettle
  <1>3. \A e \in d : InProposal(e)'
    BY <1>2 DEF InProposal
  <1>4. AtRisk' \cap d = {}
    BY <1>3 DEF AtRisk
  <1>. QED
    BY <1>1, <1>4 DEF ProposalsTyped, Settled

(* The command that is about to settle stays where it is.                    *)
ReadyStays ==
    Running(current, "ready") => Running(current, "ready")' /\ Arg(current)' = Arg(current)

LEMMA JoinedReady ==
    ASSUME LanesTyped, current \in Sessions, current' = current, NEW s \in Sessions, NEW c,
           lane' = Enqueued(lane, s, c)
    PROVE  ReadyStays
  <1>1. lane \in [Sessions -> Seq(Commands)] /\ lane[current] \in Seq(Commands)
    BY DEF LanesTyped
  <1>2. lane'[current] = lane[current] \/ lane'[current] = Append(lane[current], c)
    BY <1>1 DEF Enqueued
  <1>3. lane[current] # << >> => /\ Append(lane[current], c) # << >>
                                 /\ Head(Append(lane[current], c)) = Head(lane[current])
    BY <1>1
  <1>. QED
    BY <1>2, <1>3 DEF ReadyStays, Running, Arg

LEMMA PassedReady ==
    ASSUME LanesTyped, current \in Sessions, current' = current, NEW s \in Sessions,
           Running(s, "ready") => s # current,
           \/ lane' = Popped(lane, s)
           \/ \E c : lane' = Continued(lane, s, c)
    PROVE  ReadyStays
  <1>1. \A t \in Sessions : t # s => lane'[t] = lane[t]
    BY DEF LanesTyped, Popped, Continued
  <1>. QED
    BY <1>1 DEF ReadyStays, Running, Arg

(* Attempts go on without passing their settle.                              *)
LEMMA YetStays ==
    ASSUME TypeOK, AllBooks, current \in Sessions, current' = current, ReadyStays,
           \A b \in Attempts : apc[b] # "unused" =>
              /\ asess'[b] = asess[b]
              /\ \/ apc'[b] = apc[b] /\ aout'[b] = aout[b]
                 \/ apc[b] = "chained" /\ apc'[b] = "queued"
                 \/ apc[b] = "waiting"
    PROVE  \A b : YetToSettle(b) => YetToSettle(b)'
  <1> SUFFICES ASSUME NEW b, YetToSettle(b) PROVE YetToSettle(b)'
    OBVIOUS
  <1>1. b \in Attempts /\ asess[b] = current
    BY DEF YetToSettle
  <1>2. CASE Running(current, "ready") /\ Arg(current) = b
    <2>1. apc[b] = "finalizing"
      BY <1>2, RunningAttempt DEF Running, PublishOps, Stage
    <2>. QED
      BY <1>1, <1>2, <2>1 DEF YetToSettle, ReadyStays
  <1>3. CASE apc[b] \in {"chained", "queued"} \/ (apc[b] = "done" /\ aout[b] = "threw")
    BY <1>1, <1>3 DEF YetToSettle
  <1>. QED
    BY <1>2, <1>3 DEF YetToSettle

(* The session stays guarded while the guards stay and what they wait for.   *)
LEMMA GuardStays ==
    ASSUME Guarded, current' = current, holders[current] \subseteq holders'[current],
           \A h \in holders[current] :
              /\ sock[h] \in {"editor", "closing", "closed"} =>
                    sock'[h] \in {"editor", "closing", "closed"}
              /\ sock[h] = "leaving" => sock'[h] = "leaving" /\ waits'[h] = waits[h],
           \A b : YetToSettle(b) => YetToSettle(b)'
    PROVE  Guarded'
  <1>1. PICK h \in holders[current] : Guards(h)
    BY DEF Guarded
  <1>2. Guards(h)'
    BY <1>1 DEF Guards
  <1>. QED
    BY <1>1, <1>2 DEF Guarded

(* Sockets that close at most, attempts that do not pass their settle.       *)
SocketsCarryOn ==
    \A h \in Sockets :
       /\ sock[h] \in {"editor", "closing", "closed"} => sock'[h] \in {"editor", "closing", "closed"}
       /\ sock[h] = "leaving" => sock'[h] = "leaving" /\ waits'[h] = waits[h]
AttemptsCarryOn ==
    \A b \in Attempts : apc[b] # "unused" =>
       /\ asess'[b] = asess[b]
       /\ \/ apc'[b] = apc[b] /\ aout'[b] = aout[b]
          \/ apc[b] = "chained" /\ apc'[b] = "queued"
          \/ apc[b] = "waiting"

(* The edits at risk stay safe where the session stays, the attempts that    *)
(* have yet to settle still have, and the sockets carry on.                  *)
LEMMA GuardedSafe ==
    ASSUME TypeOK, Safe, AtRisk' \subseteq AtRisk, SocketsCarryOn,
           current # 0 => /\ current' = current /\ holders[current] \subseteq holders'[current]
                          /\ AtRisk \subseteq dirty[current] => AtRisk' \subseteq dirty'[current],
           current # 0 /\ AtRisk # {} => \A b : YetToSettle(b) => YetToSettle(b)'
    PROVE  Safe'
  <1>1. CASE AtRisk = {} \/ current = 0
    BY <1>1 DEF Safe
  <1>2. CASE AtRisk # {} /\ current # 0
    <2>1. current \in Sessions /\ holders[current] \subseteq Sockets
      BY <1>2, BoundsAssumption DEF TypeOK, SessionsTyped, Sessions
    <2>2. Guarded /\ AtRisk \subseteq dirty[current]
      BY <1>2 DEF Safe
    <2>3. /\ current' = current /\ holders[current] \subseteq holders'[current]
          /\ \A b : YetToSettle(b) => YetToSettle(b)'
      BY <1>2
    <2>4. Guarded'
      BY <2>1, <2>2, <2>3, GuardStays DEF SocketsCarryOn
    <2>. QED
      BY <1>2, <2>2, <2>4 DEF Safe
  <1>. QED
    BY <1>1, <1>2

LEMMA QuietSafe ==
    ASSUME TypeOK, AllBooks, Safe, SocketsCarryOn, AttemptsCarryOn,
           UNCHANGED <<acked, rejected, landed, inprog, draft, dirty>>,
           current # 0 => /\ current' = current /\ holders[current] \subseteq holders'[current]
                          /\ ReadyStays
    PROVE  Safe'
  <1>1. AtRisk' = AtRisk
    BY DEF AtRisk, InProposal
  <1>2. current # 0 => \A b : YetToSettle(b) => YetToSettle(b)'
    <2>1. current # 0 => current \in Sessions
      BY BoundsAssumption DEF TypeOK, SessionsTyped, Sessions
    <2>. QED
      BY <2>1, YetStays DEF AttemptsCarryOn
  <1>. QED
    BY <1>1, <1>2, GuardedSafe

(* An attempt that ends has settled, or threw.                               *)
LEMMA FinishYet ==
    ASSUME TypeOK, AllBooks, NEW s \in Sessions, lane[s] # << >>, Head(lane[s]).op \in PublishOps,
           lane' = Popped(lane, s), NEW o, Finish(Arg(s), o), current' = current, current \in Sessions,
           o = "threw" \/ s # current \/ Head(lane[s]).op \in {"aborted", "commit"}
    PROVE  \A b : YetToSettle(b) => YetToSettle(b)'
  <1> SUFFICES ASSUME NEW b, YetToSettle(b) PROVE YetToSettle(b)'
    OBVIOUS
  <1>1. /\ Arg(s) \in Attempts /\ asess[Arg(s)] = s
        /\ apc[Arg(s)] = Stage(Head(lane[s]).op)
    BY RunningAttempt
  <1>2. b \in Attempts /\ asess[b] = current /\ asess' = asess
    BY DEF YetToSettle, Finish
  <1>3. /\ apc'[Arg(s)] = "done" /\ aout'[Arg(s)] = o
        /\ \A c \in Attempts : c # Arg(s) => apc'[c] = apc[c] /\ aout'[c] = aout[c]
    BY <1>1 DEF Finish, TypeOK, AttemptsTyped
  <1>4. CASE b = Arg(s)
    <2>1. s = current
      BY <1>1, <1>2, <1>4
    <2>2. CASE o = "threw"
      BY <1>2, <1>3, <1>4, <2>2 DEF YetToSettle
    <2>3. CASE Head(lane[s]).op \in {"aborted", "commit"}
      <3>1. apc[b] = "finalizing" /\ ~Running(current, "ready")
        BY <1>1, <1>4, <2>1, <2>3 DEF Stage, Running
      <3>. QED
        BY <3>1 DEF YetToSettle
    <2>. QED
      BY <2>1, <2>2, <2>3
  <1>5. CASE b # Arg(s)
    <2>1. apc'[b] = apc[b] /\ aout'[b] = aout[b]
      BY <1>2, <1>3, <1>5
    <2>2. CASE Running(current, "ready") /\ Arg(current) = b
      <3>1. s # current
        BY <1>5, <2>2
      <3>2. \A t \in Sessions : t # s => lane'[t] = lane[t]
        BY DEF Popped, TypeOK, LanesTyped
      <3>. QED
        BY <1>2, <2>2, <3>1, <3>2 DEF YetToSettle, Running, Arg
    <2>3. CASE apc[b] \in {"chained", "queued"} \/ (apc[b] = "done" /\ aout[b] = "threw")
      BY <1>2, <2>1, <2>3 DEF YetToSettle
    <2>. QED
      BY <2>2, <2>3 DEF YetToSettle
  <1>. QED
    BY <1>4, <1>5

(* A server that closes sockets, or none, leaves what guards.                *)
LEMMA ClosedCarryOn ==
    ASSUME TypeOK, waits' = waits, sock' = sock \/ \E ks : ClosedByServer(ks)
    PROVE  SocketsCarryOn
  BY DEF SocketsCarryOn, ClosedByServer, OpenSockets

(* An edit that is materialized and acknowledged has its sender at the       *)
(* session, an active editor.                                                *)
LEMMA MaterializeSafe ==
    ASSUME TypeOK, EditOwners, AllBooks, Seats, Safe, NEW s \in Sessions, LaneMaterialize(s)
    PROVE  Safe'
  <1>0. LanesTyped /\ (current # 0 => current \in Sessions)
    BY BoundsAssumption DEF TypeOK, SessionsTyped, Sessions
  <1>1. /\ AttemptsCarryOn /\ UNCHANGED <<current, holders, waits, rejected, landed>>
        /\ lane' = Popped(lane, s) /\ Running(s, "materialize")
    BY DEF LaneMaterialize, sessionVars, attemptVars, AttemptsCarryOn
  <1>2. SocketsCarryOn
    BY <1>1, ClosedCarryOn DEF LaneMaterialize
  <1>3. current # 0 => ReadyStays
    BY <1>0, <1>1, PassedReady DEF Running
  <1>4. current # 0 => \A b : YetToSettle(b) => YetToSettle(b)'
    BY <1>0, <1>1, <1>3, YetStays DEF AttemptsCarryOn
  <1>5. \A t \in Sessions : dirty[t] \subseteq dirty'[t]
    BY DEF LaneMaterialize, TypeOK, ProposalsTyped
  <1>6. AtRisk' \subseteq AtRisk => Safe'
    BY <1>0, <1>1, <1>2, <1>4, <1>5, GuardedSafe
  <1>7. ASSUME NEW e \in AtRisk', e \notin AtRisk PROVE Safe'
    <2>1. \A f \in acked : f \in AtRisk' => f \in AtRisk
      BY <1>1, MaterializeKeeps DEF AtRisk
    <2>2. e \in acked' /\ e \notin acked
      BY <1>7, <2>1 DEF AtRisk
    <2>3. /\ e = Arg(s) /\ Sender(e) \subseteq OpenSockets /\ acked' = acked \cup {e}
          /\ sock' = sock /\ e \in Structural /\ dirty' = [dirty EXCEPT ![s] = @ \cup {e}]
      <3>1. e \notin Structural => InProposal(e)'
        BY <2>2, MaterializeKeeps
      <3>2. e \in Structural
        BY <1>7, <3>1 DEF AtRisk
      <3>. QED
        BY <2>2, <3>2 DEF LaneMaterialize, AckedWith
    <2>4. PICK k \in Sender(e) : sid[k] = s
      <3>1. Head(lane[s]) \in OwnCommands(s)
        BY <1>1 DEF EditOwners, LanesOwned, Running
      <3>. QED
        BY <1>1, <2>3, <3>1 DEF OwnCommands, Running, Arg
    <2>5. sock[k] = "editor" /\ s = current /\ k \in holders[current]
      <3>1. k \in Sockets /\ sock[k] \in {"open", "editor"} /\ 0 \notin Sessions
        BY <2>3, <2>4 DEF OpenSockets, Sender, Sessions
      <3>2. Seat(k)
        BY <3>1 DEF Seats
      <3>. QED
        BY <2>4, <3>1, <3>2 DEF Seat
    <2>6. Guarded'
      BY <1>1, <2>3, <2>5 DEF Guarded, Guards
    <2>7. AtRisk' \subseteq AtRisk \cup {e}
      BY <2>1, <2>3 DEF AtRisk
    <2>8. AtRisk \subseteq dirty[current]
      BY DEF Safe
    <2>9. AtRisk' \subseteq dirty'[current]
      BY <2>3, <2>5, <2>7, <2>8 DEF TypeOK, ProposalsTyped
    <2>. QED
      BY <1>1, <2>5, <2>6, <2>9 DEF Safe, Sessions
  <1>. QED
    BY <1>6, <1>7

(* A publish that starts has something to publish and finds no other under   *)
(* way; it waits for editors, which hold the session, or settles at once.    *)
LEMMA Phase1Safe ==
    ASSUME TypeOK, AllBooks, ChainInOrder, PauseHeld, Seats, Tidy, Safe, NEW s \in Sessions,
           LanePhase1(s)
    PROVE  Safe'
  <1>0. /\ LanesTyped /\ AttemptsTyped /\ lane[s] # << >> /\ Head(lane[s]).op = "phase1"
        /\ UNCHANGED <<current, holders, sock, waits, acked, rejected, landed, inprog, draft, dirty>>
    BY DEF TypeOK, LanePhase1, Running, sessionVars, socketVars, historyVars, proposalVars
  <1>1. SocketsCarryOn /\ AtRisk' = AtRisk
    BY <1>0 DEF SocketsCarryOn, AtRisk, InProposal
  <1>2. CASE current = 0 \/ AtRisk = {}
    BY <1>1, <1>2 DEF Safe
  <1>3. CASE current # 0 /\ AtRisk # {}
    <2>0. /\ current \in Sessions /\ AtRisk \subseteq dirty[current] /\ dirty[current] # {}
      BY <1>3, BoundsAssumption DEF Safe, TypeOK, SessionsTyped, Sessions
    <2>1. /\ Arg(s) \in Attempts /\ apc[Arg(s)] = "queued" /\ UnderWay(apc[Arg(s)])
          /\ asess[Arg(s)] = s
      BY <1>0, RunningAttempt DEF PublishOps, Stage
    <2>2. CASE (\A b : YetToSettle(b) => YetToSettle(b)')
      BY <1>0, <1>1, <2>2, GuardedSafe
    <2>3. CASE Finish(Arg(s), "noop") /\ lane' = Popped(lane, s) /\ (~bound[s] \/ pause[s].state # "idle")
      <3>1. CASE s = current
        <4>1. bound[s]
          BY <2>0, <3>1 DEF Tidy
        <4>2. PICK a \in Attempts : apc[a] \in {"waiting", "finalizing"}
          BY <2>3, <4>1 DEF PauseHeld, Holding
        <4>3. a = Arg(s)
          BY <2>1, <4>2, OneUnderWay DEF UnderWay
        <4>. QED
          BY <2>1, <4>2, <4>3
      <3>2. CASE s # current
        BY <1>0, <2>0, <2>2, <2>3, <3>2, FinishYet DEF PublishOps
      <3>. QED
        BY <3>1, <3>2
    <2>4. CASE ActiveEditors # {}
      <3>1. PICK k \in Sockets : sock[k] = "editor"
        BY <2>4 DEF ActiveEditors
      <3>2. k \in holders[current]
        BY <3>1 DEF Seats, Seat
      <3>3. Guarded'
        BY <1>0, <3>1, <3>2 DEF Guarded, Guards
      <3>. QED
        BY <1>0, <1>1, <1>3, <2>0, <3>3 DEF Safe
    <2>5. CASE /\ lane' = Continued(lane, s, Command("ready", Arg(s)))
               /\ apc' = [apc EXCEPT ![Arg(s)] = "finalizing"]
               /\ UNCHANGED <<asess, aout>>
      <3>1. /\ \A b \in Attempts : b # Arg(s) => apc'[b] = apc[b]
            /\ \A t \in Sessions : t # s => lane'[t] = lane[t]
        BY <1>0, <2>5 DEF AttemptsTyped, LanesTyped, Continued
      <3>2. Running(s, "ready")' /\ Arg(s)' = Arg(s)
        <4>1. PICK c : c = Command("ready", Arg(s))
          OBVIOUS
        <4>2. c \in Commands /\ c.op = "ready" /\ c.n = Arg(s)
          BY <2>1, <4>1, CommandType DEF Command, LaneOps, Attempts
        <4>3. lane[s] \in Seq(Commands) /\ lane \in [Sessions -> Seq(Commands)]
          BY <1>0 DEF LanesTyped
        <4>4. <<c>> \in Seq(Commands) /\ Tail(lane[s]) \in Seq(Commands)
          BY <1>0, <4>2, <4>3
        <4>5. <<c>> \o Tail(lane[s]) # << >> /\ Head(<<c>> \o Tail(lane[s])) = c
          BY <4>2, <4>4
        <4>6. lane'[s] = <<c>> \o Tail(lane[s])
          BY <2>5, <4>1, <4>3 DEF Continued
        <4>. QED
          BY <4>2, <4>5, <4>6 DEF Running, Arg
      <3>3. ASSUME NEW b, YetToSettle(b) PROVE YetToSettle(b)'
        <4>1. b \in Attempts /\ asess[b] = current
          BY <3>3 DEF YetToSettle
        <4>2. CASE b = Arg(s)
          BY <1>0, <2>1, <2>5, <3>2, <4>1, <4>2 DEF YetToSettle
        <4>3. CASE b # Arg(s) /\ Running(current, "ready") /\ Arg(current) = b
          <5>1. s # current
            BY <4>3
          <5>. QED
            BY <1>0, <2>0, <2>5, <3>1, <4>1, <4>3, <5>1 DEF YetToSettle, Running, Arg
        <4>4. CASE b # Arg(s) /\ ~(Running(current, "ready") /\ Arg(current) = b)
          BY <1>0, <2>5, <3>1, <3>3, <4>1, <4>4 DEF YetToSettle
        <4>. QED
          BY <4>2, <4>3, <4>4
      <3>. QED
        BY <2>2, <3>3
    <2>. QED
      BY <2>3, <2>4, <2>5 DEF LanePhase1
  <1>. QED
    BY <1>2, <1>3

(* A publish that ends without having been about to settle the live session. *)
LEMMA EndSafe ==
    ASSUME TypeOK, AllBooks, Safe, NEW s \in Sessions, lane[s] # << >>,
           Head(lane[s]).op \in PublishOps, NEW o, EndAttempt(s, Arg(s), o),
           o = "threw" \/ s # current \/ Head(lane[s]).op \in {"aborted", "commit"},
           UNCHANGED <<current, holders, sock, waits>>, AtRisk' \subseteq AtRisk,
           s # current \/ UNCHANGED dirty,
           \A t \in Sessions : t # s => dirty'[t] = dirty[t]
    PROVE  Safe'
  <1>1. lane' = Popped(lane, s) /\ Finish(Arg(s), o)
    BY DEF EndAttempt
  <1>2. SocketsCarryOn /\ (current # 0 => current \in Sessions)
    BY BoundsAssumption DEF SocketsCarryOn, TypeOK, SessionsTyped, Sessions
  <1>3. current # 0 => \A b : YetToSettle(b) => YetToSettle(b)'
    BY <1>1, <1>2, FinishYet
  <1>4. current # 0 => dirty'[current] = dirty[current]
    BY <1>2
  <1>. QED
    BY <1>2, <1>3, <1>4, GuardedSafe

(* A settle takes every edit of its session out of risk.                     *)
LEMMA SettleSafe ==
    ASSUME TypeOK, AllBooks, Tidy, Safe, NEW s \in Sessions, LaneSettle(s)
    PROVE  Safe'
  <1>0. /\ ProposalsTyped /\ LanesTyped /\ lane[s] # << >> /\ Head(lane[s]).op = "ready"
        /\ UNCHANGED <<current, holders, sock, waits, acked, rejected, landed, inprog, sstate>>
        /\ (current # 0 => current \in Sessions)
    BY BoundsAssumption
       DEF TypeOK, LaneSettle, Running, sessionVars, socketVars, historyVars, SessionsTyped, Sessions
  <1>1. CASE CannotSettle(s)
    <2>1. EndAttempt(s, Arg(s), "threw") /\ UNCHANGED <<dirty, draft>>
      BY <1>1 DEF LaneSettle
    <2>2. AtRisk' = AtRisk
      BY <1>0, <2>1 DEF AtRisk, InProposal
    <2>. QED
      BY <1>0, <2>1, <2>2, EndSafe DEF PublishOps
  <1>2. CASE ~CannotSettle(s)
    <2>1. /\ IF bound[s] THEN Settled(s, dirty[s]) ELSE UNCHANGED <<dirty, draft>>
          /\ \/ /\ lane' = Continued(lane, s, Command("commit", Arg(s)))
                /\ UNCHANGED attemptVars
             \/ EndAttempt(s, Arg(s), "failed")
      BY <1>2 DEF LaneSettle
    <2>2. /\ AtRisk' \subseteq AtRisk /\ (AtRisk' \cap dirty[s] = {} \/ dirty[s] = {})
          /\ \A t \in Sessions : t # s => dirty'[t] = dirty[t]
      <3>1. CASE bound[s]
        BY <1>0, <1>2, <2>1, <3>1, SettleRisk
      <3>2. CASE ~bound[s]
        BY <1>0, <2>1, <3>2 DEF Tidy, AtRisk, InProposal
      <3>. QED
        BY <3>1, <3>2
    <2>3. CASE s = current
      <3>1. AtRisk' = {}
        BY <2>2, <2>3 DEF Safe
      <3>. QED
        BY <3>1 DEF Safe
    <2>4. CASE s # current /\ EndAttempt(s, Arg(s), "failed")
      BY <1>0, <2>2, <2>4, EndSafe DEF PublishOps
    <2>5. CASE s # current /\ lane' = Continued(lane, s, Command("commit", Arg(s))) /\ UNCHANGED attemptVars
      <3>1. current # 0 => ReadyStays
        BY <1>0, <2>5, PassedReady
      <3>2. SocketsCarryOn /\ AttemptsCarryOn
        BY <1>0, <2>5 DEF SocketsCarryOn, AttemptsCarryOn, attemptVars
      <3>3. current # 0 => \A b : YetToSettle(b) => YetToSettle(b)'
        BY <1>0, <3>1, <3>2, YetStays DEF AttemptsCarryOn
      <3>4. current # 0 => dirty'[current] = dirty[current]
        BY <1>0, <2>2, <2>5
      <3>. QED
        BY <1>0, <2>2, <3>2, <3>3, <3>4, GuardedSafe
    <2>. QED
      BY <2>1, <2>3, <2>4, <2>5
  <1>. QED
    BY <1>1, <1>2

(* So does a quiescence command, as far as it settles.                       *)
LEMMA QuiesceSafe ==
    ASSUME TypeOK, AllBooks, Safe, NEW s \in Sessions, QuietQuiesce(s)
    PROVE  Safe'
  <1>0. /\ ProposalsTyped /\ LanesTyped /\ Running(s, "quiesce") /\ lane' = Popped(lane, s)
        /\ UNCHANGED <<current, holders, sock, waits, acked, rejected, landed, inprog>>
        /\ UNCHANGED attemptVars
        /\ (current # 0 => current \in Sessions)
    BY BoundsAssumption
       DEF TypeOK, QuietQuiesce, sessionVars, socketVars, historyVars, SessionsTyped, Sessions
  <1>1. SocketsCarryOn /\ AttemptsCarryOn
    BY <1>0 DEF SocketsCarryOn, AttemptsCarryOn, attemptVars
  <1>2. current # 0 => ReadyStays
    BY <1>0, PassedReady DEF Running
  <1>3. CASE UNCHANGED <<dirty, draft>>
    BY <1>0, <1>1, <1>2, <1>3, QuietSafe
  <1>4. ASSUME NEW d \in SUBSET dirty[s], bound[s], ~CannotSettle(s), Settled(s, d) PROVE Safe'
    <2>1. /\ AtRisk' \subseteq AtRisk \ d /\ dirty'[s] = dirty[s] \ d
          /\ \A t \in Sessions : t # s => dirty'[t] = dirty[t]
      BY <1>0, <1>4, SettleRisk
    <2>2. current # 0 => \A b : YetToSettle(b) => YetToSettle(b)'
      BY <1>0, <1>1, <1>2, YetStays DEF AttemptsCarryOn
    <2>3. current # 0 /\ AtRisk \subseteq dirty[current] => AtRisk' \subseteq dirty'[current]
      BY <1>0, <2>1
    <2>. QED
      BY <1>0, <1>1, <2>1, <2>2, <2>3, GuardedSafe
  <1>. QED
    BY <1>3, <1>4 DEF QuietQuiesce

(* A settle that goes wrong half-way leaves no half of one structural edit.  *)
LEMMA BadSettleSafe ==
    ASSUME TypeOK, BodyKept, StructuralWait, \E e : Structural \subseteq {e},
           NEW s \in Sessions, BadSettle(s)
    PROVE  Safe'
  <1>1. PICK e : Structural \subseteq {e}
    OBVIOUS
  <1>2. PICK d \in SUBSET dirty[s] : d # {} /\ Settled(s, d)
    BY DEF BadSettle, SettledBadly
  <1>3. d = {e} /\ AtRisk \subseteq {e}
    BY <1>1, <1>2 DEF StructuralWait, AtRisk, BodyKept
  <1>4. ProposalsTyped /\ bound[s] /\ ~CannotSettle(s) /\ UNCHANGED <<inprog, acked, rejected, landed>>
    BY DEF TypeOK, BadSettle, SettledBadly, ProposalFound, CannotSettle, historyVars
  <1>5. AtRisk' = {}
    BY <1>2, <1>3, <1>4, SettleRisk
  <1>. QED
    BY <1>5 DEF Safe

(* No command of a lane leaves an edit unsafe.                               *)
LEMMA LaneSafe ==
    ASSUME TypeOK, EditOwners, AllBooks, ChainInOrder, PauseHeld, BodyKept, Calm, Seats, Tidy,
           StructuralWait, Safe, "settle_fails" \in Env => \E e : Structural \subseteq {e},
           NEW s \in Sessions, CalmLaneStep(s)
    PROVE  Safe'
  <1>0. LanesTyped /\ ProposalsTyped /\ (current # 0 => current \in Sessions)
    BY BoundsAssumption DEF TypeOK, SessionsTyped, Sessions
  <1>1. CASE LaneBoot(s)
    <2>1. /\ UNCHANGED <<current, holders, sock, waits, acked, rejected, landed, inprog, draft, dirty>>
          /\ UNCHANGED attemptVars /\ Running(s, "boot") /\ lane' = Popped(lane, s)
      BY <1>1 DEF LaneBoot, sessionVars, socketVars, proposalVars, historyVars
    <2>2. SocketsCarryOn /\ AttemptsCarryOn
      BY <2>1 DEF SocketsCarryOn, AttemptsCarryOn, attemptVars
    <2>3. current # 0 => ReadyStays
      BY <1>0, <2>1, PassedReady DEF Running
    <2>. QED
      BY <2>1, <2>2, <2>3, QuietSafe
  <1>2. CASE LaneGate(s)
    <2>1. /\ UNCHANGED <<current, holders, sock, waits, acked, rejected, landed, inprog, draft, dirty>>
          /\ UNCHANGED attemptVars /\ Running(s, "update")
          /\ lane' = Continued(lane, s, Command("materialize", Arg(s)))
      BY <1>2 DEF LaneGate, Calm, sessionVars, proposalVars
    <2>2. SocketsCarryOn /\ AttemptsCarryOn
      BY <2>1 DEF SocketsCarryOn, AttemptsCarryOn, attemptVars
    <2>3. current # 0 => ReadyStays
      BY <1>0, <2>1, PassedReady DEF Running
    <2>. QED
      BY <2>1, <2>2, <2>3, QuietSafe
  <1>3. CASE LaneAbort(s)
    <2>1. /\ UNCHANGED <<current, holders, sock, waits, acked, rejected, landed, inprog, draft, dirty>>
          /\ lane[s] # << >> /\ Head(lane[s]).op = "aborted" /\ EndAttempt(s, Arg(s), "aborted")
      BY <1>3 DEF LaneAbort, Running, sessionVars, socketVars, proposalVars, historyVars
    <2>2. AtRisk' = AtRisk
      BY <2>1 DEF AtRisk, InProposal
    <2>. QED
      BY <2>1, <2>2, EndSafe DEF PublishOps
  <1>4. CASE LaneCommit(s)
    <2>1. /\ UNCHANGED <<current, holders, sock, waits, dirty>>
          /\ lane[s] # << >> /\ Head(lane[s]).op = "commit"
          /\ \E o : EndAttempt(s, Arg(s), o)
      BY <1>4 DEF LaneCommit, Running, sessionVars, socketVars
    <2>2. AtRisk' \subseteq AtRisk
      <3>1. /\ \A e \in acked : e \in landed \cup rejected \/ InProposal(e) =>
                                   e \in landed' \cup rejected' \/ InProposal(e)'
            /\ acked' \ acked = {}
        BY <1>0, <1>4, CommitKeeps
      <3>. QED
        BY <3>1, RiskStays
    <2>. QED
      BY <2>1, <2>2, EndSafe DEF PublishOps
  <1>5. CASE BadSettle(s)
    BY <1>5, BadSettleSafe DEF BadSettle, SettledBadly
  <1>. QED
    BY <1>1, <1>2, <1>3, <1>4, <1>5, MaterializeSafe, Phase1Safe, SettleSafe, QuiesceSafe
       DEF CalmLaneStep

(* A pause that moves wakes no attempt that has yet to settle.               *)
LEMMA MovedCarryOn ==
    ASSUME TypeOK, AllBooks, NEW s \in Sessions, NEW q \in Pauses, PauseMoved(pause[s], q),
           PauseStep(s, q)
    PROVE  AttemptsCarryOn /\ (current # 0 /\ current' = current => ReadyStays)
  <1>1. AttemptsCarryOn
    BY AfterPause DEF PauseStep, AttemptsCarryOn
  <1>2. ASSUME current # 0, current' = current PROVE ReadyStays
    <2>1. current \in Sessions /\ LanesTyped /\ PausesTyped
      BY <1>2, BoundsAssumption DEF TypeOK, SessionsTyped, Sessions
    <2>2. lane' = LaneAfter(s, q)
      BY DEF PauseStep
    <2>3. CASE lane' = lane
      BY <1>2, <2>3 DEF ReadyStays, Running, Arg
    <2>4. ASSUME NEW c, lane' = Enqueued(lane, s, c) PROVE ReadyStays
      BY <1>2, <2>1, <2>4, JoinedReady
    <2>. QED
      BY <2>1, <2>2, <2>3, <2>4, LaneAfterJoins
  <1>. QED
    BY <1>1, <1>2

(* A closing socket that releases leaves another editor, while edits are at  *)
(* risk; one that publishes first guards them.                               *)
LEMMA CloseSafe ==
    ASSUME TypeOK, AllBooks, Calm, Seats, Tidy, Safe, NEW k \in Sockets, CloseEvent(k)
    PROVE  Safe'
  <1>0. /\ UNCHANGED <<acked, rejected, landed, inprog, draft, dirty>>
        /\ sock[k] \in {"open", "editor", "closing"}
        /\ sock \in [Sockets -> SocketStates] /\ waits \in [Sockets -> 0..MaxAttempts]
        /\ (current # 0 => current \in Sessions)
    BY BoundsAssumption
       DEF CloseEvent, proposalVars, historyVars, TypeOK, SocketsTyped, SessionsTyped, Sessions
  <1>1. AtRisk' = AtRisk
    BY <1>0 DEF AtRisk, InProposal
  <1>2. CASE AtRisk = {} \/ current = 0
    BY <1>1, <1>2 DEF Safe
  <1>3. CASE AtRisk # {} /\ current # 0
    <2>0. /\ AtRisk \subseteq dirty[current] /\ Guarded /\ bound[current]
          /\ holders \in [Sessions -> SUBSET Sockets]
      BY <1>0, <1>3 DEF Safe, Tidy, TypeOK, SessionsTyped
    <2>1. CASE /\ sock' = [sock EXCEPT ![k] = "closed"]
               /\ UNCHANGED <<sessionVars, lane, attemptVars, waits>>
      <3>1. SocketsCarryOn /\ AttemptsCarryOn /\ ReadyStays
        BY <1>0, <2>1 DEF SocketsCarryOn, AttemptsCarryOn, attemptVars, sessionVars, ReadyStays,
                          Running, Arg
      <3>. QED
        BY <1>0, <2>1, <3>1, QuietSafe DEF sessionVars
    <2>2. CASE /\ ~PublishesOnLeaving(k) /\ ReleaseDocSession(k)
               /\ sock' = [sock EXCEPT ![k] = "closed"]
      <3>1. PICK m \in Sockets : m # k /\ sock[m] = "editor"
        BY <1>3, <2>0, <2>2 DEF PublishesOnLeaving, Calm, ActiveEditors
      <3>2. m \in holders[current]
        BY <3>1 DEF Seats, Seat
      <3>3. current' = current /\ m \in holders'[current] /\ sock'[m] = "editor"
        BY <1>0, <1>3, <2>0, <2>2, <3>1, <3>2 DEF ReleaseDocSession
      <3>4. Guarded'
        BY <3>3 DEF Guarded, Guards
      <3>. QED
        BY <1>0, <1>1, <1>3, <2>0, <3>3, <3>4 DEF Safe
    <2>3. CASE /\ sock' = [sock EXCEPT ![k] = "leaving"]
               /\ waits' = [waits EXCEPT ![k] = nAttempts + 1]
               /\ LET q == PauseSocketLost(pause[current], k)
                  IN  lane' = LaneAfter(current, q) /\ NewAttempt(current, ApcAfter(current, q))
               /\ UNCHANGED sessionVars
      <3> DEFINE q == PauseSocketLost(pause[current], k)
                 pc == ApcAfter(current, q)
      <3>1. /\ q \in Pauses /\ pc \in [Attempts -> AttemptStates] /\ PausesTyped /\ LanesTyped
            /\ \A b \in Attempts : \/ pc[b] = apc[b]
                                   \/ apc[b] = "waiting" /\ pc[b] = "finalizing"
        BY <1>0, <1>3, MovedPauses, AfterPause DEF TypeOK
      <3>2. NewAttempt(current, pc) /\ lane' = LaneAfter(current, q) /\ current' = current
            /\ holders' = holders
        BY <2>3 DEF sessionVars
      <3>3. PICK h \in holders[current] : Guards(h)
        BY <2>0 DEF Guarded
      <3>4. CASE h = k
        <4>1. /\ nAttempts + 1 \in Attempts /\ apc'[nAttempts + 1] = "chained"
              /\ asess'[nAttempts + 1] = current
          BY <3>1, <3>2 DEF NewAttempt, TypeOK, AttemptsTyped
        <4>2. sock'[k] = "leaving" /\ waits'[k] = nAttempts + 1
          BY <1>0, <2>3
        <4>3. Guards(k)'
          BY <3>2, <4>1, <4>2 DEF Guards, YetToSettle
        <4>. QED
          BY <1>0, <1>1, <1>3, <2>0, <3>2, <3>3, <3>4, <4>3 DEF Safe, Guarded
      <3>5. CASE h # k
        <4>1. \A b \in Attempts : apc[b] # "unused" => apc'[b] = pc[b] /\ asess'[b] = asess[b]
          <5>1. \A b \in Attempts : apc[b] = "unused" => pc[b] = "unused"
            BY <3>1
          <5>2. AttemptsTyped /\ AttemptsCounted
            BY DEF TypeOK, AllBooks
          <5>. QED
            BY <3>1, <3>2, <5>1, <5>2, HeldNewAttempt
        <4>2. ReadyStays
          <5>1. CASE lane' = lane
            BY <3>2, <5>1 DEF ReadyStays, Running, Arg
          <5>2. ASSUME NEW c, lane' = Enqueued(lane, current, c) PROVE ReadyStays
            BY <1>0, <1>3, <3>1, <3>2, <5>2, JoinedReady
          <5>. QED
            BY <1>0, <1>3, <3>1, <3>2, <5>1, <5>2, LaneAfterJoins
        <4>3. aout' = aout
          BY <3>2 DEF NewAttempt
        <4>4. \A b : YetToSettle(b) => YetToSettle(b)'
          BY <1>0, <1>3, <3>1, <3>2, <4>1, <4>2, <4>3, YetStays
        <4>5. sock'[h] = sock[h] /\ waits'[h] = waits[h]
          BY <1>0, <1>3, <2>0, <2>3, <3>3, <3>5
        <4>6. Guards(h)'
          BY <3>3, <4>4, <4>5 DEF Guards
        <4>. QED
          BY <1>0, <1>1, <1>3, <2>0, <3>2, <3>3, <4>6 DEF Safe, Guarded
      <3>. QED
        BY <3>4, <3>5
    <2>. QED
      BY <1>3, <2>1, <2>2, <2>3 DEF CloseEvent
  <1>. QED
    BY <1>2, <1>3

(* A close handler whose attempt is over releases, with no edit at risk but  *)
(* of another guard, or never does.                                          *)
LEMMA LeaveSafe ==
    ASSUME TypeOK, AllBooks, Seats, Safe, NEW k \in Sockets, LeaveDone(k)
    PROVE  Safe'
  <1>0. /\ UNCHANGED <<acked, rejected, landed, inprog, draft, dirty, lane, attemptVars>>
        /\ sock' = [sock EXCEPT ![k] = "closed"] /\ waits' = [waits EXCEPT ![k] = 0]
        /\ waits[k] # 0 /\ apc[waits[k]] = "done"
        /\ sock \in [Sockets -> SocketStates] /\ waits \in [Sockets -> 0..MaxAttempts]
        /\ (current # 0 => current \in Sessions)
        /\ holders \in [Sessions -> SUBSET Sockets]
    BY BoundsAssumption
       DEF LeaveDone, proposalVars, historyVars, TypeOK, SocketsTyped, SessionsTyped, Sessions
  <1>1. AtRisk' = AtRisk
    BY <1>0 DEF AtRisk, InProposal
  <1>2. CASE AtRisk = {} \/ current = 0
    BY <1>1, <1>2 DEF Safe
  <1>3. CASE AtRisk # {} /\ current # 0
    <2>0. AtRisk \subseteq dirty[current] /\ Guarded
      BY <1>3 DEF Safe
    <2>1. PICK h \in holders[current] : Guards(h)
      BY <2>0 DEF Guarded
    <2>2. CASE h = k
      <3>1. sock[k] = "leaving"
        BY <1>0 DEF Seats, Seat
      <3>2. YetToSettle(waits[k])
        BY <2>1, <2>2, <3>1 DEF Guards
      <3>3. ~(Running(current, "ready") /\ Arg(current) = waits[k])
        BY <1>0, <1>3, RunningAttempt DEF Running, PublishOps, Stage
      <3>4. UNCHANGED sessionVars
        BY <1>0, <3>2, <3>3 DEF YetToSettle, LeaveDone
      <3>5. sock'[k] = "closed"
        BY <1>0
      <3>6. Guarded'
        BY <2>1, <2>2, <3>4, <3>5 DEF Guarded, Guards, sessionVars
      <3>. QED
        BY <1>0, <1>1, <1>3, <2>0, <3>4, <3>6 DEF Safe, sessionVars
    <2>3. CASE h # k
      <3>1. current' = current /\ h \in holders'[current]
        BY <1>0, <1>3, <2>1, <2>3 DEF LeaveDone, ReleaseDocSession, sessionVars
      <3>2. h \in Sockets
        BY <1>0, <1>3, <2>1
      <3>3. sock'[h] = sock[h] /\ waits'[h] = waits[h]
        BY <1>0, <2>3, <3>2
      <3>4. \A b : YetToSettle(b) => YetToSettle(b)'
        BY <1>0, <3>1 DEF YetToSettle, Running, Arg, attemptVars
      <3>5. Guards(h)'
        BY <2>1, <3>3, <3>4 DEF Guards
      <3>6. Guarded'
        BY <3>1, <3>5 DEF Guarded
      <3>. QED
        BY <1>0, <1>1, <1>3, <2>0, <3>1, <3>6 DEF Safe
    <2>. QED
      BY <2>2, <2>3
  <1>. QED
    BY <1>2, <1>3

(* A socket that joins a session joins the live one, or makes one live that  *)
(* has no edits to lose.                                                     *)
LEMMA JoinSafe ==
    ASSUME TypeOK, SessionMaps, AllBooks, Safe,
           \/ \E s \in Sessions : ConstructRead(s) \/ ConstructDone(s)
           \/ \E k \in Sockets : Acquire(k)
    PROVE  Safe'
  <1>0. /\ UNCHANGED <<acked, rejected, landed, inprog, draft, dirty, waits, attemptVars>>
        /\ LanesTyped /\ current \in 0..MaxSessions
        /\ holders \in [Sessions -> SUBSET Sockets]
        /\ (current # 0 => current \in Sessions)
    <2>1. ASSUME NEW s \in Sessions, ConstructRead(s) \/ ConstructDone(s)
          PROVE  UNCHANGED <<acked, rejected, landed, inprog, draft, dirty, waits, attemptVars>>
      BY <2>1 DEF ConstructRead, ConstructDone, Attach, proposalVars, historyVars
    <2>2. ASSUME NEW k \in Sockets, Acquire(k)
          PROVE  UNCHANGED <<acked, rejected, landed, inprog, draft, dirty, waits, attemptVars>>
      BY <2>2 DEF Acquire, Attach, proposalVars, historyVars
    <2>3. /\ LanesTyped /\ current \in 0..MaxSessions
          /\ holders \in [Sessions -> SUBSET Sockets]
          /\ (current # 0 => current \in Sessions)
      BY BoundsAssumption DEF TypeOK, SessionsTyped, Sessions
    <2>. QED
      BY <2>1, <2>2, <2>3
  <1>1. AttemptsCarryOn /\ AtRisk' = AtRisk
    BY <1>0 DEF AttemptsCarryOn, attemptVars, AtRisk, InProposal
  <1>2. ASSUME UNCHANGED <<current, holders, lane>>, sock' = sock \/ \E ks : ClosedByServer(ks)
        PROVE  Safe'
    <2>1. SocketsCarryOn /\ ReadyStays
      BY <1>0, <1>2, ClosedCarryOn DEF ReadyStays, Running, Arg
    <2>. QED
      BY <1>0, <1>1, <1>2, <2>1, QuietSafe
  <1>3. ASSUME NEW s \in Sessions, ConstructRead(s) PROVE Safe'
    BY <1>2, <1>3 DEF ConstructRead
  <1>4. ASSUME NEW s \in Sessions, ConstructDone(s) PROVE Safe'
    <2>1. current = 0
      <3>1. promised = s /\ sstate[s] = "seeding"
        BY <1>4 DEF ConstructDone, SessionMaps
      <3>2. current # 0 => sstate[current] = "active" /\ promised = current
        BY <1>0 DEF SessionMaps, OneLiveSession
      <3>. QED
        BY <3>1, <3>2
    <2>. QED
      BY <1>1, <2>1 DEF Safe
  <1>5. ASSUME NEW k \in Sockets, Acquire(k) PROVE Safe'
    <2>1. CASE /\ promised # 0 /\ sstate[promised] = "active" /\ Attach({k}, promised)
               /\ current' = current
      <3>1. promised \in Sessions /\ promised = current
        BY <2>1, BoundsAssumption DEF TypeOK, SessionsTyped, Sessions, SessionMaps, OneLiveSession
      <3>2. holders[current] \subseteq holders'[current]
        BY <1>0, <2>1, <3>1 DEF Attach
      <3>3. SocketsCarryOn
        BY <1>0, <2>1 DEF SocketsCarryOn, Attach
      <3>4. ReadyStays
        BY <1>0, <2>1, <3>1, JoinedReady DEF Attach
      <3>. QED
        BY <1>0, <1>1, <2>1, <3>2, <3>3, <3>4, QuietSafe
    <2>2. CASE UNCHANGED <<current, holders, lane>> /\ (sock' = sock \/ \E ks : ClosedByServer(ks))
      BY <1>2, <2>2
    <2>. QED
      BY <1>5, <2>1, <2>2 DEF Acquire, sessionVars
  <1>. QED
    BY <1>3, <1>4, <1>5

(* No step leaves an edit at risk without a session that will settle it.     *)
LEMMA StepSafe ==
    ASSUME TypeOK, SessionMaps, EditOwners, AllBooks, ChainInOrder, PauseHeld, BodyKept, Calm,
           Seats, Tidy, StructuralWait, Safe,
           "settle_fails" \in Env => \E e : Structural \subseteq {e}, CalmStep
    PROVE  Safe'
  <1>0. LanesTyped /\ (current # 0 => current \in Sessions)
    BY BoundsAssumption DEF TypeOK, SessionsTyped, Sessions
  <1>1. ASSUME UNCHANGED <<acked, rejected, landed, inprog, draft, dirty, current, holders>>,
               SocketsCarryOn, AttemptsCarryOn, current # 0 => ReadyStays
        PROVE  Safe'
    BY <1>1, QuietSafe
  <1>2. lane' = lane /\ current' = current => ReadyStays
    BY DEF ReadyStays, Running, Arg
  <1>3. ASSUME NEW s \in Sessions, NEW c, current # 0, current' = current, lane' = Enqueued(lane, s, c)
        PROVE  ReadyStays
    BY <1>0, <1>3, JoinedReady
  <1>4. UNCHANGED <<sock, waits>> => SocketsCarryOn
    BY DEF SocketsCarryOn
  <1>5. UNCHANGED attemptVars => AttemptsCarryOn
    BY DEF AttemptsCarryOn, attemptVars
  <1>6. ASSUME NEW k \in Sockets, ServerReceive(k) PROVE Safe'
    <2>1. /\ UNCHANGED <<acked, rejected, landed, inprog, draft, dirty, current, holders, waits>>
          /\ sock' = sock \/ \E ks : ClosedByServer(ks)
      BY <1>6 DEF ServerReceive, sessionVars, proposalVars
    <2>2. SocketsCarryOn
      BY <2>1, ClosedCarryOn
    <2>3. CASE UNCHANGED <<lane, attemptVars>>
      BY <1>1, <1>2, <1>5, <2>1, <2>2, <2>3
    <2>4. CASE current # 0 /\ UNCHANGED attemptVars /\ \E c : lane' = Enqueued(lane, current, c)
      BY <1>0, <1>1, <1>3, <1>5, <2>1, <2>2, <2>4
    <2>5. CASE current # 0 /\ PauseStep(current, PauseMarkReady(pause[current], k))
      <3>1. AttemptsCarryOn /\ ReadyStays
        BY <1>0, <2>1, <2>5, MovedPauses, MovedCarryOn
      <3>. QED
        BY <1>1, <2>1, <2>2, <3>1
    <2>. QED
      BY <1>6, <2>3, <2>4, <2>5 DEF ServerReceive, IsCurrentSessionEditor
  <1>7. ASSUME NEW k \in Sockets, Connect(k) \/ ClientEdit(k) \/ ClientReceive(k) \/ ClientReady(k)
        PROVE  Safe'
    <2>1. /\ UNCHANGED <<acked, rejected, landed, inprog, draft, dirty, current, holders, lane>>
          /\ UNCHANGED attemptVars
      BY <1>7 DEF Connect, ClientEdit, ClientReceive, ClientReady, sessionVars, proposalVars, historyVars
    <2>2. SocketsCarryOn
      BY <1>7 DEF Connect, ClientEdit, ClientReceive, ClientReady, socketVars, SocketsCarryOn,
                  TypeOK, SocketsTyped
    <2>. QED
      BY <1>1, <1>2, <1>5, <2>1, <2>2
  <1>8. ASSUME NEW s \in Sessions, PauseTimeout(s) PROVE Safe'
    <2>1. /\ UNCHANGED <<acked, rejected, landed, inprog, draft, dirty, current, holders, sock, waits>>
          /\ PauseStep(s, PauseTimedOut(pause[s]))
      BY <1>8 DEF PauseTimeout, sessionVars, proposalVars, socketVars, historyVars
    <2>2. PauseTimedOut(pause[s]) \in Pauses /\ PauseMoved(pause[s], PauseTimedOut(pause[s]))
      <3>1. pause[s] \in Pauses
        BY DEF TypeOK, PausesTyped
      <3>2. PauseTimedOut(pause[s]) \in Pauses
        BY <3>1 DEF PauseTimedOut, PauseSettled, Pauses, PauseStates
      <3>. QED
        BY <3>1, <3>2, PauseMoves
    <2>3. AttemptsCarryOn /\ (current # 0 => ReadyStays)
      BY <2>1, <2>2, MovedCarryOn
    <2>. QED
      BY <1>1, <1>4, <2>1, <2>3
  <1>9. ASSUME NEW a \in Attempts, RunAttempt(a) PROVE Safe'
    <2>1. /\ UNCHANGED <<acked, rejected, landed, inprog, draft, dirty, current, holders, sock, waits>>
          /\ lane' = Enqueued(lane, asess[a], Command("phase1", a)) /\ asess[a] \in Sessions
      BY <1>9 DEF RunAttempt, sessionVars, proposalVars, socketVars, historyVars, AllBooks,
                  AttemptsCounted
    <2>2. AttemptsCarryOn
      BY <1>9 DEF RunAttempt, AttemptsCarryOn, TypeOK, AttemptsTyped
    <2>. QED
      BY <1>1, <1>3, <1>4, <2>1, <2>2
  <1>10. CASE ForcePublish
    <2>1. /\ UNCHANGED <<acked, rejected, landed, inprog, draft, dirty, current, holders, sock, waits, lane>>
          /\ NewAttempt(current, apc) /\ aout' = aout
      BY <1>10 DEF ForcePublish, sessionVars, proposalVars, socketVars, historyVars, NewAttempt
    <2>2. AttemptsCarryOn
      BY <2>1, HeldNewAttempt DEF AttemptsCarryOn, TypeOK, AttemptsTyped, AllBooks
    <2>. QED
      BY <1>1, <1>2, <1>4, <2>1, <2>2
  <1>11. CASE QuiesceFire
    <2>1. /\ UNCHANGED <<acked, rejected, landed, inprog, draft, dirty, current, holders, sock, waits>>
          /\ UNCHANGED attemptVars
          /\ lane' = lane \/ (current # 0 /\ lane' = Enqueued(lane, current, Command("quiesce", 0)))
      BY <1>11 DEF QuiesceFire, sessionVars, proposalVars, socketVars, historyVars
    <2>. QED
      BY <1>0, <1>1, <1>2, <1>3, <1>4, <1>5, <2>1
  <1>12. CASE UNCHANGED vars
    BY <1>1, <1>2, <1>4, <1>5, <1>12
       DEF vars, sessionVars, proposalVars, socketVars, historyVars
  <1>. QED
    BY <1>6, <1>7, <1>8, <1>9, <1>10, <1>11, <1>12, LaneSafe, JoinSafe, CloseSafe, LeaveSafe
       DEF CalmStep, SocketStep

(* No edit that a client has been told is safe is lost, structural ones      *)
(* included, through publishes, timeouts, forced and failing publishes and   *)
(* sockets that come and go: the last editor's close handler settles before  *)
(* it releases.  A restore or a delete can discard the session with edits    *)
(* only it held; so can a settle that fails between two structural edits.    *)
THEOREM AckedEditsHeld ==
    ASSUME {"restore", "delete"} \cap Env = {},
           "settle_fails" \in Env => \E e : Structural \subseteq {e}
    PROVE  Spec => []AckedEditsKept
<1> DEFINE Held == /\ EditOwners /\ AllBooks /\ ChainInOrder /\ PauseHeld /\ BodyKept
                   /\ Calm /\ Seats /\ Tidy /\ StructuralWait /\ Safe
<1>1. Init => Held
  <2> SUFFICES ASSUME Init PROVE Held
    OBVIOUS
  <2>1. EditOwners
    BY DEF Init, EditOwners, OneSender, AttachedOnce, FramesOwned, LanesOwned
  <2>2. ChainInOrder
    BY BoundsAssumption DEF Init, ChainInOrder, Attempts
  <2>3. PauseHeld /\ Calm
    BY DEF Init, PauseHeld, Calm, NoDeletes, IdlePause
  <2>4. Seats /\ Tidy /\ StructuralWait /\ Safe /\ BodyKept
    BY DEF Init, Seats, Seat, Tidy, CommitAlone, StructuralWait, Safe, AtRisk, BodyKept
  <2>. QED
    BY <2>1, <2>2, <2>3, <2>4, InitBooks
<1>2. TypeOK /\ SessionMaps /\ Held /\ [Next]_vars => Held'
  <2> SUFFICES ASSUME TypeOK, SessionMaps, Held, [Next]_vars PROVE Held'
    OBVIOUS
  <2>1. EditOwners'
    BY SessionStepOwned, SocketStepOwned, OtherStepOwned DEF Next
  <2>2. AllBooks' /\ ChainInOrder' /\ Calm'
    BY StepBooks, ChainStep, StepCalm
  <2>3. PauseHeld' /\ BodyKept'
    BY StepHeld, StepBodyKept DEF Calm, Apart
  <2>4. CalmStep
    BY OnlyCalmSteps
  <2>. QED
    BY <2>1, <2>2, <2>3, <2>4, StepSeats, StepTidy, StepStructural,
       StepSafe
<1>3. TypeOK /\ SessionMaps /\ Held => AckedEditsKept
  <2> SUFFICES ASSUME TypeOK, SessionMaps, Safe, NEW e \in acked PROVE Kept(e)
    BY DEF AckedEditsKept
  <2>1. CASE e \in AtRisk
    <3>1. current \in Sessions /\ e \in dirty[current]
      BY <2>1, BoundsAssumption DEF Safe, TypeOK, SessionsTyped, Sessions
    <3>2. sstate[current] = "active"
      BY <3>1 DEF SessionMaps, OneLiveSession
    <3>. QED
      BY <3>1, <3>2 DEF Kept
  <2>2. CASE e \notin AtRisk
    BY <2>2 DEF AtRisk, InProposal, Kept
  <2>. QED
    BY <2>1, <2>2
<1>. QED
  BY <1>1, <1>2, <1>3, TypeCorrect, MapsHold, PTL DEF Spec

-----------------------------------------------------------------------------
(* What a publish covers.                                                    *)

(* Every editor the pause asked has acked.  A lane with a publish that goes  *)
(* on after its wait.                                                        *)
AllAcked(p) == p.required \subseteq p.acked
GoesOn(q) == \E i \in DOMAIN q : q[i].op \in {"ready", "commit"}

(* A publish goes on only when all acks are in, and the acks are of sockets  *)
(* attached to the session that is published.                                *)
AcksIn == \A s \in Sessions : GoesOn(lane[s]) => AllAcked(pause[s])
OwnAcks == \A s \in Sessions : \A k \in pause[s].acked : sid[k] = s

(* No publish goes on that did not, no socket is attached anew.              *)
NoneGoesOn == \A s \in Sessions : GoesOn(lane'[s]) => GoesOn(lane[s])
SeatsTaken == \A k \in Sockets : sid[k] # 0 => sid'[k] = sid[k]

(* Commands that join, end or go on, and let no publish go on.               *)
LEMMA AppendGoes ==
    ASSUME NEW q \in Seq(Commands), NEW c \in Commands, GoesOn(Append(q, c))
    PROVE  GoesOn(q) \/ c.op \in {"ready", "commit"}
  <1>1. \A i \in DOMAIN Append(q, c) :
           (Append(q, c)[i] = c) \/ (i \in DOMAIN q /\ Append(q, c)[i] = q[i])
    OBVIOUS
  <1>. QED
    BY <1>1 DEF GoesOn

LEMMA TailGoes ==
    ASSUME NEW q \in Seq(Commands), q # << >>, NEW c \in Commands
    PROVE  /\ GoesOn(Tail(q)) => GoesOn(q)
           /\ GoesOn(<<c>> \o Tail(q)) => GoesOn(Tail(q)) \/ c.op \in {"ready", "commit"}
  <1>0. Tail(q) \in Seq(Commands) /\ <<c>> \in Seq(Commands)
    OBVIOUS
  <1>1. PICK t \in Seq(Commands) : t = Tail(q)
    BY <1>0
  <1>2. \A i \in DOMAIN t : i + 1 \in DOMAIN q /\ t[i] = q[i + 1]
    BY <1>1
  <1>3. PICK r \in Seq(Commands) : r = <<c>> \o t
    <2>1. <<c>> \o t \in Seq(Commands)
      BY <1>0, <1>1
    <2>. QED
      BY <2>1
  <1>4. \A i \in DOMAIN r : (r[i] = c) \/ (i - 1 \in DOMAIN t /\ r[i] = t[i - 1])
    BY <1>3
  <1>. QED
    BY <1>1, <1>2, <1>3, <1>4 DEF GoesOn

LEMMA LanesGo ==
    ASSUME LanesTyped, NEW s \in Sessions, NEW c \in Commands
    PROVE  /\ lane' = Enqueued(lane, s, c) /\ c.op \notin {"ready", "commit"} => NoneGoesOn
           /\ lane[s] # << >> /\ lane' = Popped(lane, s) => NoneGoesOn
           /\ (/\ lane[s] # << >> /\ lane' = Continued(lane, s, c)
               /\ (c.op \in {"ready", "commit"} => GoesOn(lane[s])))
              => NoneGoesOn
  <1>1. lane \in [Sessions -> Seq(Commands)] /\ lane[s] \in Seq(Commands)
    BY DEF LanesTyped
  <1>2. ASSUME lane' = Enqueued(lane, s, c), c.op \notin {"ready", "commit"} PROVE NoneGoesOn
    <2>1. lane'[s] = Append(lane[s], c) /\ \A t \in Sessions : t # s => lane'[t] = lane[t]
      BY <1>1, <1>2 DEF Enqueued
    <2>2. GoesOn(lane'[s]) => GoesOn(lane[s])
      BY <1>1, <1>2, <2>1, AppendGoes
    <2>. QED
      BY <2>1, <2>2 DEF NoneGoesOn
  <1>3. ASSUME lane[s] # << >>, lane' = Popped(lane, s) PROVE NoneGoesOn
    <2>1. lane'[s] = Tail(lane[s]) /\ \A t \in Sessions : t # s => lane'[t] = lane[t]
      BY <1>1, <1>3 DEF Popped
    <2>2. GoesOn(lane'[s]) => GoesOn(lane[s])
      BY <1>1, <1>3, <2>1, TailGoes
    <2>. QED
      BY <2>1, <2>2 DEF NoneGoesOn
  <1>4. ASSUME lane[s] # << >>, lane' = Continued(lane, s, c),
               c.op \in {"ready", "commit"} => GoesOn(lane[s])
        PROVE  NoneGoesOn
    <2>1. lane'[s] = <<c>> \o Tail(lane[s]) /\ \A t \in Sessions : t # s => lane'[t] = lane[t]
      BY <1>1, <1>4 DEF Continued
    <2>2. GoesOn(lane'[s]) => GoesOn(lane[s])
      BY <1>1, <1>4, <2>1, TailGoes
    <2>. QED
      BY <2>1, <2>2 DEF NoneGoesOn
  <1>. QED
    BY <1>2, <1>3, <1>4

(* What acks, lost sockets and the timeout make of the acks.                 *)
LEMMA MovedAcks ==
    ASSUME NEW p \in Pauses, NEW k,
           NEW q \in {PauseMarkReady(p, k), PauseSocketLost(p, k), PauseTimedOut(p)}
    PROVE  /\ AllAcked(p) => AllAcked(q)
           /\ p.state = "pausing" /\ q.state = "ready" => AllAcked(q)
           /\ q.acked \subseteq p.acked \cup {k}
           /\ q \in {PauseSocketLost(p, k), PauseTimedOut(p)} => q.acked = p.acked
  BY DEF Pauses, AllAcked, PauseMarkReady, PauseSocketLost, PauseTimedOut, PauseSettled

(* A pause that moves lets a publish go on when the acks are in.             *)
LEMMA MovedAcksIn ==
    ASSUME LanesTyped, PausesTyped, AcksIn, OwnAcks, SeatsTaken,
           NEW s \in Sessions, NEW k, NEW q \in Pauses,
           \/ q = PauseMarkReady(pause[s], k) /\ sid[k] = s
           \/ q \in {PauseSocketLost(pause[s], k), PauseTimedOut(pause[s])},
           pause' = [pause EXCEPT ![s] = q], lane' = LaneAfter(s, q)
    PROVE  AcksIn' /\ OwnAcks'
  <1> DEFINE a == PauseResumes(pause[s], q)
  <1>1. lane \in [Sessions -> Seq(Commands)] /\ pause \in [Sessions -> Pauses]
    BY DEF LanesTyped, PausesTyped
  <1>2. pause[s] \in Pauses /\ pause'[s] = q /\ \A t \in Sessions : t # s => pause'[t] = pause[t]
    BY <1>1
  <1>3. /\ AllAcked(pause[s]) => AllAcked(q)
        /\ pause[s].state = "pausing" /\ q.state = "ready" => AllAcked(q)
        /\ \A m \in q.acked : m \in pause[s].acked \/ sid[m] = s
    <2>1. q \in {PauseMarkReady(pause[s], k), PauseSocketLost(pause[s], k), PauseTimedOut(pause[s])}
      OBVIOUS
    <2>2. /\ AllAcked(pause[s]) => AllAcked(q)
          /\ pause[s].state = "pausing" /\ q.state = "ready" => AllAcked(q)
          /\ q.acked \subseteq pause[s].acked \cup {k}
          /\ q \in {PauseSocketLost(pause[s], k), PauseTimedOut(pause[s])} =>
                q.acked = pause[s].acked
      BY <1>2, <2>1, MovedAcks
    <2>. QED
      BY <2>2
  <1>4. ASSUME NEW t \in Sessions, GoesOn(lane'[t]) PROVE AllAcked(pause'[t])
    <2>1. CASE lane'[t] = lane[t]
      BY <1>2, <1>3, <1>4, <2>1 DEF AcksIn
    <2>2. CASE lane'[t] # lane[t]
      <3>1. a # 0 /\ lane' = Enqueued(lane, s, Command(q.state, a))
        BY <2>2 DEF LaneAfter
      <3>2. a \in Nat /\ q.state \in {"ready", "aborted"} /\ pause[s].state = "pausing"
        BY <1>2, <3>1, PauseResumesSettled DEF PauseResumes
      <3>3. Command(q.state, a) \in Commands /\ Command(q.state, a).op = q.state
        BY <3>2, CommandType DEF Command, LaneOps
      <3>4. t = s /\ lane'[s] = Append(lane[s], Command(q.state, a)) /\ lane[s] \in Seq(Commands)
        BY <1>1, <2>2, <3>1 DEF Enqueued
      <3>5. GoesOn(lane[s]) \/ q.state = "ready"
        BY <1>4, <3>2, <3>3, <3>4, AppendGoes
      <3>. QED
        BY <1>2, <1>3, <3>2, <3>4, <3>5 DEF AcksIn
    <2>. QED
      BY <2>1, <2>2
  <1>5. ASSUME NEW t \in Sessions, NEW m \in pause'[t].acked PROVE sid'[m] = t
    <2>1. sid[m] = t /\ t # 0
      BY <1>2, <1>3, <1>5, BoundsAssumption DEF OwnAcks, Sessions
    <2>2. m \in Sockets
      <3>1. pause'[t] \in Pauses
        BY <1>1, <1>2
      <3>. QED
        BY <1>5, <3>1 DEF Pauses
    <2>. QED
      BY <2>1, <2>2 DEF SeatsTaken
  <1>. QED
    BY <1>4, <1>5 DEF AcksIn, OwnAcks

(* Steps that start and move no pause.                                       *)
LEMMA QuietAcks ==
    ASSUME PausesTyped, AcksIn, OwnAcks, SeatsTaken, NoneGoesOn,
           \A t \in Sessions : pause'[t] \in {pause[t], IdlePause}
    PROVE  AcksIn' /\ OwnAcks'
  <1>1. AllAcked(IdlePause) /\ IdlePause.acked = {}
    BY DEF AllAcked, IdlePause
  <1>2. AcksIn'
    BY <1>1 DEF AcksIn, NoneGoesOn
  <1>3. ASSUME NEW t \in Sessions, NEW m \in pause'[t].acked PROVE sid'[m] = t
    <2>1. m \in pause[t].acked /\ pause[t] \in Pauses
      BY <1>1, <1>3 DEF PausesTyped
    <2>2. sid[m] = t /\ t # 0 /\ m \in Sockets
      BY <2>1, BoundsAssumption DEF OwnAcks, Sessions, Pauses
    <2>. QED
      BY <2>2 DEF SeatsTaken
  <1>. QED
    BY <1>2, <1>3 DEF OwnAcks

(* A publish of s that goes on is under way and, while s is live, holds its   *)
(* pause.                                                                    *)
LEMMA WhoGoesOn ==
    ASSUME TypeOK, AllBooks, NEW s \in Sessions, GoesOn(lane[s])
    PROVE  /\ \E b \in Attempts : asess[b] = s /\ apc[b] = "finalizing"
           /\ sstate[s] = "active" => pause[s].state # "idle"
  <1>1. PICK i \in DOMAIN lane[s] : lane[s][i].op \in {"ready", "commit"}
    BY DEF GoesOn
  <1>2. Orderly(lane[s], s, apc, asess) /\ (sstate[s] = "active" => pause[s].state # "idle"
                                              \/ Holding(s, apc, asess) = {})
    BY DEF AllBooks, InBooks, Books, Single
  <1>3. /\ lane[s][i].n \in Attempts /\ asess[lane[s][i].n] = s
        /\ apc[lane[s][i].n] = "finalizing"
    BY <1>1, <1>2 DEF Orderly, PublishOps, Stage
  <1>. QED
    BY <1>2, <1>3 DEF Holding

(* A pause that starts asks its editors afresh, and no publish goes on yet.  *)
LEMMA StartedAcks ==
    ASSUME TypeOK, AcksIn, OwnAcks, SeatsTaken, NEW s \in Sessions, NEW ks, NEW w,
           pause' = [pause EXCEPT ![s] = PauseStarted(ks, w)], NoneGoesOn \/ ks = {},
           GoesOn(lane[s]) => ks = {},
           \A t \in Sessions : t # s /\ GoesOn(lane'[t]) => GoesOn(lane[t])
    PROVE  AcksIn' /\ OwnAcks'
  <1>1. pause \in [Sessions -> Pauses]
    BY DEF TypeOK, PausesTyped
  <1>2. /\ pause'[s] = PauseStarted(ks, w) /\ PauseStarted(ks, w).acked = {}
        /\ ks = {} => AllAcked(PauseStarted(ks, w))
        /\ \A t \in Sessions : t # s => pause'[t] = pause[t]
    BY <1>1 DEF PauseStarted, IdlePause, AllAcked
  <1>3. AcksIn'
    BY <1>2 DEF AcksIn, NoneGoesOn
  <1>4. ASSUME NEW t \in Sessions, NEW m \in pause'[t].acked PROVE sid'[m] = t
    <2>1. m \in pause[t].acked /\ pause[t] \in Pauses
      BY <1>1, <1>2, <1>4
    <2>2. sid[m] = t /\ t # 0 /\ m \in Sockets
      BY <2>1, BoundsAssumption DEF OwnAcks, Sessions, Pauses
    <2>. QED
      BY <2>2 DEF SeatsTaken
  <1>. QED
    BY <1>3, <1>4 DEF OwnAcks

(* A socket stays attached to its session.                                   *)
LEMMA StepSeatsTaken ==
    ASSUME EditOwners, [Next]_vars
    PROVE  SeatsTaken
  <1>1. \A k \in Sockets : acq[k] # "none" => sid[k] = 0
    BY DEF EditOwners, AttachedOnce
  <1>2. ASSUME NEW ks, NEW s, Attach(ks, s), \A k \in ks : acq[k] # "none" PROVE SeatsTaken
    BY <1>1, <1>2 DEF Attach, SeatsTaken
  <1>3. CASE UNCHANGED sid
    BY <1>3 DEF SeatsTaken
  <1>4. ASSUME NEW s \in Sessions, SessionStep(s) PROVE SeatsTaken
    <2>1. CASE ConstructDone(s)
      BY <1>2, <2>1 DEF ConstructDone, Acquirers
    <2>2. CASE ConstructRead(s) \/ PauseTimeout(s) \/ LaneBoot(s) \/ LaneGate(s)
               \/ LaneMaterialize(s) \/ LanePhase1(s) \/ LaneAbort(s) \/ LaneSettle(s)
      BY <1>3, <2>2 DEF ConstructRead, PauseTimeout, LaneBoot, LaneGate, LaneMaterialize,
                        LanePhase1, LaneAbort, LaneSettle, socketVars
    <2>3. CASE LaneSettleBadly(s) \/ LaneCommit(s) \/ LaneQuiesce(s) \/ LaneDelete(s)
               \/ LaneDeleteCommit(s) \/ LaneDeleteAbandoned(s)
      BY <1>3, <2>3 DEF LaneSettleBadly, LaneCommit, LaneQuiesce, LaneDelete,
                        LaneDeleteCommit, LaneDeleteAbandoned, Invalidated, socketVars
    <2>. QED
      BY <1>4, <2>1, <2>2, <2>3 DEF SessionStep, LaneStep
  <1>5. ASSUME NEW k \in Sockets, Acquire(k) PROVE SeatsTaken
    <2>1. CASE Attach({k}, promised)
      BY <1>2, <1>5, <2>1 DEF Acquire
    <2>. QED
      BY <1>3, <1>5, <2>1 DEF Acquire
  <1>6. ASSUME NEW k \in Sockets, Connect(k) \/ ServerReceive(k) \/ CloseEvent(k) \/ LeaveDone(k)
                                  \/ ClientEdit(k) \/ ClientReceive(k) \/ ClientReady(k)
        PROVE  SeatsTaken
    BY <1>3, <1>6 DEF Connect, ServerReceive, CloseEvent, LeaveDone, ClientEdit,
                      ClientReceive, ClientReady, socketVars
  <1>7. CASE \/ \E a \in Attempts : RunAttempt(a)
             \/ Request \/ RestoreStep \/ UNCHANGED vars
    BY <1>3, <1>7 DEF RunAttempt, Request, ForcePublish, QuiesceFire, DeleteRequest,
                      RestoreBegin, RestoreStep, RestoreHandoff, RestoreLock, RestoreLand,
                      Invalidated, vars, socketVars
  <1>. QED
    BY <1>4, <1>5, <1>6, <1>7 DEF Next, SocketStep

(* The acks of every publish that goes on stay in.                           *)
LEMMA StepAcks ==
    ASSUME TypeOK, EditOwners, AllBooks, ChainInOrder, AcksIn, OwnAcks, [Next]_vars
    PROVE  AcksIn' /\ OwnAcks'
  <1>0. /\ LanesTyped /\ PausesTyped /\ SeatsTaken
        /\ lane \in [Sessions -> Seq(Commands)] /\ pause \in [Sessions -> Pauses]
        /\ current # 0 => current \in Sessions
    BY StepSeatsTaken, BoundsAssumption
       DEF TypeOK, LanesTyped, PausesTyped, SessionsTyped, Sessions
  <1>1. ASSUME NoneGoesOn, \A t \in Sessions : pause'[t] \in {pause[t], IdlePause}
        PROVE  AcksIn' /\ OwnAcks'
    BY <1>0, <1>1, QuietAcks
  <1>2. lane' = lane => NoneGoesOn
    BY DEF NoneGoesOn
  <1>3. ASSUME Invalidated(pause) PROVE \A t \in Sessions : pause'[t] \in {pause[t], IdlePause}
    BY <1>0, <1>3, InvalidatedPauses
  <1>4. ASSUME NEW s \in Sessions, LaneStep(s) PROVE AcksIn' /\ OwnAcks'
    <2>1. lane[s] # << >> /\ lane[s] \in Seq(Commands) /\ 1 \in DOMAIN lane[s]
          /\ Head(lane[s]) = lane[s][1]
      <3>1. lane[s] # << >>
        BY <1>4 DEF LaneStep, LaneBoot, LaneGate, LaneMaterialize, LanePhase1, LaneAbort,
                    LaneSettle, LaneSettleBadly, LaneCommit, LaneQuiesce, LaneDelete,
                    LaneDeleteCommit, LaneDeleteAbandoned, Running
      <3>. QED
        BY <1>0, <3>1
    <2>2. Head(lane[s]) \in Commands /\ Arg(s) \in Nat
      BY <1>0, <2>1, HeadType DEF Arg, Commands
    <2>3. lane' = Popped(lane, s) => NoneGoesOn
      BY <1>0, <2>1, <2>2, LanesGo
    <2>4. ASSUME NEW c \in Commands, lane' = Continued(lane, s, c),
                 c.op \in {"ready", "commit"} => GoesOn(lane[s])
          PROVE  NoneGoesOn
      BY <1>0, <2>1, <2>4, LanesGo
    <2>5. CASE LaneGate(s)
      <3>1. Running(s, "update") => Command("materialize", Arg(s)) \in Commands
        BY <2>2, CommandType DEF Running, Arg, Commands, LaneOps
      <3>. QED
        BY <1>1, <2>3, <2>4, <2>5, <3>1 DEF LaneGate, Command
    <2>6. CASE LaneBoot(s) \/ LaneMaterialize(s) \/ LaneQuiesce(s)
      BY <1>1, <1>3, <2>3, <2>6 DEF LaneBoot, LaneMaterialize, LaneQuiesce
    <2>7. CASE LanePhase1(s)
      <3>1. CASE UNCHANGED pause /\ lane' = Popped(lane, s)
        BY <1>1, <2>3, <3>1
      <3>2. CASE /\ pause' = [pause EXCEPT ![s] = PauseStarted(ActiveEditors, Arg(s))]
                 /\ \/ /\ ActiveEditors = {}
                       /\ lane' = Continued(lane, s, Command("ready", Arg(s)))
                    \/ lane' = Popped(lane, s)
        <4>1. ~GoesOn(lane[s])
          <5>1. Arg(s) \in Attempts /\ apc[Arg(s)] = "queued"
            BY <2>1, <2>7, RunningAttempt DEF LanePhase1, Running, PublishOps, Stage
          <5>2. \A b \in Attempts : apc[b] # "finalizing"
            BY <5>1, OneUnderWay DEF UnderWay
          <5>. QED
            BY <5>2, WhoGoesOn
        <4>2. \A t \in Sessions : t # s => lane'[t] = lane[t]
          BY <1>0, <3>2 DEF Continued, Popped
        <4>. QED
          BY <1>0, <2>3, <3>2, <4>1, <4>2, StartedAcks
      <3>. QED
        BY <2>7, <3>1, <3>2 DEF LanePhase1
    <2>8. CASE LaneAbort(s) \/ LaneSettle(s) \/ LaneCommit(s)
      <3>1. \A t \in Sessions : pause'[t] \in {pause[t], IdlePause}
        BY <1>0, <2>8 DEF LaneAbort, LaneSettle, LaneCommit, EndAttempt, PauseEnded
      <3>2. Command("commit", Arg(s)) \in Commands
        BY <2>2, CommandType DEF LaneOps
      <3>3. Running(s, "ready") => GoesOn(lane[s])
        BY <2>1 DEF Running, GoesOn
      <3>4. \/ lane' = Popped(lane, s)
            \/ Running(s, "ready") /\ lane' = Continued(lane, s, Command("commit", Arg(s)))
        BY <2>8 DEF LaneAbort, LaneSettle, LaneCommit, EndAttempt
      <3>. QED
        BY <1>1, <2>3, <2>4, <3>1, <3>2, <3>3, <3>4
    <2>9. CASE LaneSettleBadly(s)
      <3>1. PICK p \in [Sessions -> Pauses] :
               p = [pause EXCEPT ![s] = PauseEnded(@)] /\ Invalidated(p)
        <4>1. IdlePause \in Pauses
          BY DEF IdlePause, Pauses, PauseStates
        <4>. QED
          BY <1>0, <2>9, <4>1 DEF LaneSettleBadly, PauseEnded
      <3>2. \A t \in Sessions : pause'[t] \in {p[t], IdlePause} /\ p[t] \in {pause[t], IdlePause}
        BY <1>0, <3>1, InvalidatedPauses DEF PauseEnded
      <3>. QED
        BY <1>1, <2>3, <2>9, <3>2 DEF LaneSettleBadly
    <2>10. CASE LaneDelete(s)
      <3>1. CASE UNCHANGED pause /\ lane' = Popped(lane, s)
        BY <1>1, <2>3, <3>1
      <3>2. CASE /\ sstate[s] = "active" /\ pause[s].state = "idle"
                 /\ pause' = [pause EXCEPT ![s] = PauseStarted(ActiveEditors, 0)]
                 /\ lane' = Continued(lane, s, Command("delete_commit", 0))
        <4>1. ~GoesOn(lane[s])
          BY <3>2, WhoGoesOn
        <4>2. NoneGoesOn
          BY <2>4, <3>2, CommandType DEF Command, LaneOps
        <4>. QED
          BY <1>0, <3>2, <4>1, <4>2, StartedAcks DEF NoneGoesOn
      <3>. QED
        BY <2>10, <3>1, <3>2 DEF LaneDelete
    <2>11. CASE LaneDeleteCommit(s) \/ LaneDeleteAbandoned(s)
      <3>1. Invalidated(pause) \/ pause' = [pause EXCEPT ![s] = PauseEnded(@)]
        BY <2>11 DEF LaneDeleteCommit, LaneDeleteAbandoned
      <3>2. \A t \in Sessions : pause'[t] \in {pause[t], IdlePause}
        BY <1>0, <1>3, <3>1 DEF PauseEnded
      <3>. QED
        BY <1>1, <2>3, <2>11, <3>2 DEF LaneDeleteCommit, LaneDeleteAbandoned
    <2>. QED
      BY <1>4, <2>5, <2>6, <2>7, <2>8, <2>9, <2>10, <2>11 DEF LaneStep
  <1>5. ASSUME NEW s \in Sessions, NEW c \in Commands, c.op \notin {"ready", "commit"},
               lane' = Enqueued(lane, s, c), UNCHANGED pause
        PROVE  AcksIn' /\ OwnAcks'
    BY <1>0, <1>1, <1>5, LanesGo
  <1>6. ASSUME UNCHANGED <<lane, pause>> PROVE AcksIn' /\ OwnAcks'
    BY <1>1, <1>2, <1>6
  <1>7. ASSUME NEW ks \in SUBSET Sockets, NEW s \in Sessions, Attach(ks, s), UNCHANGED pause
        PROVE  AcksIn' /\ OwnAcks'
    <2>1. PICK c : c = [op |-> "boot", n |-> 0, ks |-> ks]
      OBVIOUS
    <2>2. c \in Commands /\ c.op \notin {"ready", "commit"}
      BY <2>1 DEF Commands, LaneOps
    <2>3. lane' = Enqueued(lane, s, c)
      BY <1>7, <2>1 DEF Attach
    <2>. QED
      BY <1>5, <1>7, <2>2, <2>3
  <1>8. ASSUME NEW s \in Sessions, ConstructRead(s) \/ ConstructDone(s) PROVE AcksIn' /\ OwnAcks'
    BY <1>6, <1>7, <1>8 DEF ConstructRead, ConstructDone, Acquirers
  <1>9. ASSUME NEW k \in Sockets, Acquire(k) PROVE AcksIn' /\ OwnAcks'
    <2>1. CASE promised # 0 /\ Attach({k}, promised)
      <3>1. promised \in Sessions
        BY <2>1, BoundsAssumption DEF TypeOK, SessionsTyped, Sessions
      <3>. QED
        BY <1>7, <1>9, <2>1, <3>1 DEF Acquire
    <2>. QED
      BY <1>6, <1>9, <2>1 DEF Acquire
  <1>10. ASSUME NEW s \in Sessions, PauseTimeout(s) PROVE AcksIn' /\ OwnAcks'
    <2>1. PauseTimedOut(pause[s]) \in Pauses
      BY <1>0 DEF PauseTimedOut, PauseSettled, Pauses, PauseStates
    <2>. QED
      BY <1>0, <1>10, <2>1, MovedAcksIn DEF PauseTimeout, PauseStep
  <1>11. ASSUME NEW k \in Sockets, ServerReceive(k) PROVE AcksIn' /\ OwnAcks'
    <2>1. CASE UNCHANGED <<lane, pause>>
      BY <1>6, <2>1
    <2>2. CASE /\ current # 0 /\ up[k] # << >> /\ Head(up[k]).op = "update" /\ UNCHANGED pause
               /\ lane' = Enqueued(lane, current, Command("update", Head(up[k]).n))
      <3>1. Head(up[k]) \in Frames
        BY <2>2 DEF TypeOK, WireTyped
      <3>2. Head(up[k]).n \in Edits /\ Head(up[k]).n \in Nat
        BY <2>2, <3>1, BoundsAssumption DEF Frames
      <3>3. /\ Command("update", Head(up[k]).n) \in Commands
            /\ Command("update", Head(up[k]).n).op \notin {"ready", "commit"}
        BY <3>2, CommandType DEF LaneOps, Command
      <3>. QED
        BY <1>0, <1>5, <2>2, <3>3
    <2>3. CASE /\ current # 0 /\ sid[k] = current
               /\ PauseStep(current, PauseMarkReady(pause[current], k))
      BY <1>0, <2>3, MovedPauses, MovedAcksIn DEF PauseStep
    <2>. QED
      BY <1>11, <2>1, <2>2, <2>3 DEF ServerReceive, IsCurrentSessionEditor
  <1>12. ASSUME NEW k \in Sockets, CloseEvent(k) PROVE AcksIn' /\ OwnAcks'
    <2>1. CASE UNCHANGED <<lane, pause>>
      BY <1>6, <2>1
    <2>2. CASE /\ current # 0
               /\ pause' = [pause EXCEPT ![current] = PauseSocketLost(pause[current], k)]
               /\ lane' = LaneAfter(current, PauseSocketLost(pause[current], k))
      BY <1>0, <2>2, MovedPauses, MovedAcksIn
    <2>. QED
      BY <1>12, <2>1, <2>2 DEF CloseEvent, PublishesOnLeaving, PauseStep
  <1>13. ASSUME NEW k \in Sockets, Connect(k) \/ LeaveDone(k) \/ ClientEdit(k)
                                   \/ ClientReceive(k) \/ ClientReady(k)
         PROVE  AcksIn' /\ OwnAcks'
    BY <1>6, <1>13 DEF Connect, LeaveDone, ClientEdit, ClientReceive, ClientReady
  <1>14. ASSUME NEW a \in Attempts, RunAttempt(a) PROVE AcksIn' /\ OwnAcks'
    <2>1. asess[a] \in Sessions
      BY <1>14 DEF AllBooks, AttemptsCounted, RunAttempt
    <2>2. Command("phase1", a) \in Commands /\ Command("phase1", a).op \notin {"ready", "commit"}
      BY CommandType DEF LaneOps, Attempts, Command
    <2>. QED
      BY <1>5, <1>14, <2>1, <2>2 DEF RunAttempt
  <1>15. CASE QuiesceFire \/ DeleteRequest
    <2>1. ASSUME NEW op \in {"quiesce", "delete"}
          PROVE  Command(op, 0) \in Commands /\ Command(op, 0).op \notin {"ready", "commit"}
      BY CommandType DEF LaneOps, Command
    <2>2. UNCHANGED pause
      BY <1>15 DEF QuiesceFire, DeleteRequest
    <2>3. \/ lane' = lane
          \/ \E op \in {"quiesce", "delete"} :
                current \in Sessions /\ lane' = Enqueued(lane, current, Command(op, 0))
      BY <1>0, <1>15 DEF QuiesceFire, DeleteRequest
    <2>. QED
      BY <1>5, <1>6, <2>1, <2>2, <2>3
  <1>16. CASE ForcePublish \/ RestoreBegin \/ RestoreStep \/ UNCHANGED vars
    BY <1>1, <1>2, <1>3, <1>6, <1>16
       DEF ForcePublish, RestoreBegin, RestoreStep, RestoreHandoff, RestoreLock, RestoreLand, vars
  <1>. QED
    BY <1>4, <1>8, <1>9, <1>10, <1>11, <1>12, <1>13, <1>14, <1>15, <1>16
       DEF Next, SessionStep, SocketStep, Request

-----------------------------------------------------------------------------
(* From a client to the proposal.                                            *)

(* An update carries e, as a command of lane q or a frame of wire u.         *)
Carries(q, e) == \E i \in DOMAIN q : q[i].op \in {"update", "materialize"} /\ q[i].n = e
OnLane(e) == \E s \in Sessions : Carries(lane[s], e)
OnWire(u, e) == \E i \in DOMAIN u : u[i].op = "update" /\ u[i].n = e

(* A ready ack comes after the edits made before it.                         *)
InOrder(u) == \A i, j \in DOMAIN u :
                 i < j /\ u[i].op = "ready" /\ u[j].op = "update" => u[i].n < u[j].n
SentInOrder == \A k \in Sockets : InOrder(up[k])

(* What is acknowledged, counted or on the wire has been made.               *)
MadeBefore(u, n) == \A i \in DOMAIN u : u[i].n <= n
Made == /\ \A e \in acked : e <= nEdits
        /\ \A k \in Sockets : frontier[k] <= nEdits /\ MadeBefore(up[k], nEdits)

(* A socket that is not yet attached has sent nothing.                       *)
Unsent == \A k \in Sockets : sock[k] \in {"idle", "open"} => sent[k] = {}

(* What an editor has sent is acknowledged, or on its way; what it sent      *)
(* before the ack that was counted is acknowledged.                          *)
Delivered(k) == \A e \in sent[k] : /\ e \in acked \/ OnLane(e) \/ OnWire(up[k], e)
                                   /\ e <= frontier[k] => e \in acked
Delivery == \A k \in ActiveEditors : Delivered(k)

(* What commands that join a lane, and its head that ends or goes on, mean   *)
(* for the updates on it.                                                    *)
LEMMA AppendCarries ==
    ASSUME NEW q \in Seq(Commands), NEW c \in Commands, NEW e,
           Carries(q, e) \/ (c.op \in {"update", "materialize"} /\ c.n = e)
    PROVE  Carries(Append(q, c), e)
  <1>1. /\ Len(q) + 1 \in DOMAIN Append(q, c) /\ Append(q, c)[Len(q) + 1] = c
        /\ \A i \in DOMAIN q : i \in DOMAIN Append(q, c) /\ Append(q, c)[i] = q[i]
    OBVIOUS
  <1>. QED
    BY <1>1 DEF Carries

LEMMA TailCarries ==
    ASSUME NEW q \in Seq(Commands), q # << >>, NEW c \in Commands, NEW e
    PROVE  /\ Carries(q, e) => \/ Carries(Tail(q), e)
                               \/ Head(q).op \in {"update", "materialize"} /\ Head(q).n = e
           /\ Carries(Tail(q), e) \/ (c.op \in {"update", "materialize"} /\ c.n = e)
              => Carries(<<c>> \o Tail(q), e)
  <1>0. Tail(q) \in Seq(Commands) /\ <<c>> \in Seq(Commands)
    OBVIOUS
  <1>1. PICK t \in Seq(Commands) : t = Tail(q)
    BY <1>0
  <1>2. /\ Head(q) = q[1]
        /\ \A i \in DOMAIN q : i = 1 \/ (i - 1 \in DOMAIN t /\ t[i - 1] = q[i])
    BY <1>1
  <1>3. PICK r \in Seq(Commands) : r = <<c>> \o t
    <2>1. <<c>> \o t \in Seq(Commands)
      BY <1>0, <1>1
    <2>. QED
      BY <2>1
  <1>4. /\ 1 \in DOMAIN r /\ r[1] = c
        /\ \A i \in DOMAIN t : i + 1 \in DOMAIN r /\ r[i + 1] = t[i]
    BY <1>3
  <1>5. Carries(q, e) => \/ Carries(t, e)
                         \/ Head(q).op \in {"update", "materialize"} /\ Head(q).n = e
    BY <1>2 DEF Carries
  <1>6. Carries(t, e) \/ (c.op \in {"update", "materialize"} /\ c.n = e) => Carries(r, e)
    BY <1>4 DEF Carries
  <1>. QED
    BY <1>1, <1>3, <1>5, <1>6

(* Updates stay on the lanes while commands join, ...                        *)
LEMMA JoinedOnLane ==
    ASSUME LanesTyped, NEW s \in Sessions, NEW c \in Commands, lane' = Enqueued(lane, s, c), NEW e,
           OnLane(e) \/ (c.op \in {"update", "materialize"} /\ c.n = e)
    PROVE  OnLane(e)'
  <1>1. lane \in [Sessions -> Seq(Commands)] /\ lane[s] \in Seq(Commands)
    BY DEF LanesTyped
  <1>2. lane'[s] = Append(lane[s], c) /\ \A t \in Sessions : t # s => lane'[t] = lane[t]
    BY <1>1 DEF Enqueued
  <1>3. Carries(lane[s], e) \/ (c.op \in {"update", "materialize"} /\ c.n = e)
        => Carries(lane'[s], e)
    BY <1>1, <1>2, AppendCarries
  <1>. QED
    BY <1>2, <1>3 DEF OnLane

(* ... and when a head ends or goes on, but for the update it carried.       *)
LEMMA PassedOnLane ==
    ASSUME LanesTyped, NEW s \in Sessions, lane[s] # << >>, NEW e, OnLane(e),
           lane' = Popped(lane, s) \/ \E c \in Commands : lane' = Continued(lane, s, c)
    PROVE  OnLane(e)' \/ (Head(lane[s]).op \in {"update", "materialize"} /\ Arg(s) = e)
  <1>1. lane \in [Sessions -> Seq(Commands)] /\ lane[s] \in Seq(Commands)
        /\ Head(lane[s]) \in Commands
    BY HeadType DEF LanesTyped
  <1>2. \A t \in Sessions : t # s => lane'[t] = lane[t]
    BY <1>1 DEF Popped, Continued
  <1>3. \/ lane'[s] = Tail(lane[s])
        \/ \E c \in Commands : lane'[s] = <<c>> \o Tail(lane[s])
    BY <1>1 DEF Popped, Continued
  <1>4. Carries(lane[s], e) => \/ Carries(Tail(lane[s]), e)
                               \/ Head(lane[s]).op \in {"update", "materialize"} /\ Arg(s) = e
    BY <1>1, TailCarries DEF Arg
  <1>5. Carries(Tail(lane[s]), e) => Carries(lane'[s], e)
    <2>1. CASE lane'[s] = Tail(lane[s])
      BY <2>1
    <2>2. ASSUME NEW c \in Commands, lane'[s] = <<c>> \o Tail(lane[s]),
                 Carries(Tail(lane[s]), e)
          PROVE  Carries(lane'[s], e)
      BY <1>1, <2>2, TailCarries
    <2>. QED
      BY <1>3, <2>1, <2>2
  <1>. QED
    BY <1>2, <1>4, <1>5 DEF OnLane

(* Frames that join a wire and frames that are taken off it, or lost.        *)
LEMMA AppendInOrder ==
    ASSUME NEW u \in Seq(Frames), NEW f \in Frames, InOrder(u),
           f.op = "update" => \A i \in DOMAIN u : u[i].n < f.n
    PROVE  /\ InOrder(Append(u, f))
           /\ f.op = "update" => OnWire(Append(u, f), f.n)
           /\ \A e : OnWire(u, e) => OnWire(Append(u, f), e)
           /\ \A n \in Nat : MadeBefore(u, n) /\ f.n <= n => MadeBefore(Append(u, f), n)
  <1>1. /\ Append(u, f) \in Seq(Frames) /\ DOMAIN Append(u, f) = 1..Len(u) + 1
        /\ Append(u, f)[Len(u) + 1] = f /\ Len(u) \in Nat /\ DOMAIN u = 1..Len(u)
        /\ \A i \in DOMAIN u : Append(u, f)[i] = u[i]
    OBVIOUS
  <1>2. PICK v \in Seq(Frames) : v = Append(u, f)
    BY <1>1
  <1>3. \A i \in DOMAIN v : i = Len(u) + 1 \/ i \in DOMAIN u
    BY <1>1, <1>2
  <1>4. InOrder(v)
    <2> SUFFICES ASSUME NEW i \in DOMAIN v, NEW j \in DOMAIN v, i < j,
                        v[i].op = "ready", v[j].op = "update"
                 PROVE  v[i].n < v[j].n
      BY DEF InOrder
    <2>1. i \in DOMAIN u
      BY <1>1, <1>2, <1>3
    <2>. QED
      BY <1>1, <1>2, <1>3, <2>1 DEF InOrder
  <1>5. /\ f.op = "update" => OnWire(v, f.n)
        /\ \A e : OnWire(u, e) => OnWire(v, e)
    BY <1>1, <1>2 DEF OnWire
  <1>6. \A n \in Nat : MadeBefore(u, n) /\ f.n <= n => MadeBefore(v, n)
    BY <1>1, <1>2, <1>3 DEF MadeBefore
  <1>. QED
    BY <1>2, <1>4, <1>5, <1>6

LEMMA TailInOrder ==
    ASSUME NEW u \in Seq(Frames), u # << >>, InOrder(u)
    PROVE  /\ InOrder(Tail(u))
           /\ \A e : OnWire(u, e) => OnWire(Tail(u), e) \/ (Head(u).op = "update" /\ Head(u).n = e)
           /\ Head(u).op = "ready" => \A e \in Edits : OnWire(u, e) => Head(u).n < e
           /\ \A n \in Nat : MadeBefore(u, n) => MadeBefore(Tail(u), n) /\ Head(u).n <= n
  <1>1. Tail(u) \in Seq(Frames) /\ Head(u) = u[1] /\ 1 \in DOMAIN u /\ DOMAIN u \subseteq Nat \ {0}
    OBVIOUS
  <1>2. PICK t \in Seq(Frames) : t = Tail(u)
    BY <1>1
  <1>3. /\ \A i \in DOMAIN t : i + 1 \in DOMAIN u /\ t[i] = u[i + 1] /\ i \in Nat
        /\ \A i \in DOMAIN u : i = 1 \/ (i - 1 \in DOMAIN t /\ t[i - 1] = u[i])
    BY <1>2
  <1>4. InOrder(t)
    <2> SUFFICES ASSUME NEW i \in DOMAIN t, NEW j \in DOMAIN t, i < j,
                        t[i].op = "ready", t[j].op = "update"
                 PROVE  t[i].n < t[j].n
      BY DEF InOrder
    <2>1. i + 1 \in DOMAIN u /\ j + 1 \in DOMAIN u /\ i + 1 < j + 1
      BY <1>3
    <2>2. t[i] = u[i + 1] /\ t[j] = u[j + 1]
      BY <1>3
    <2>. QED
      BY <2>1, <2>2 DEF InOrder
  <1>5. \A e : OnWire(u, e) => OnWire(t, e) \/ (Head(u).op = "update" /\ Head(u).n = e)
    BY <1>1, <1>3 DEF OnWire
  <1>6. Head(u).op = "ready" => \A e \in Edits : OnWire(u, e) => Head(u).n < e
    BY <1>1 DEF OnWire, InOrder
  <1>7. \A n \in Nat : MadeBefore(u, n) => MadeBefore(t, n) /\ Head(u).n <= n
    BY <1>1, <1>3 DEF MadeBefore
  <1>. QED
    BY <1>2, <1>4, <1>5, <1>6, <1>7

LEMMA CutInOrder ==
    ASSUME NEW u \in Seq(Frames), NEW m \in 0..Len(u), InOrder(u)
    PROVE  /\ InOrder(SubSeq(u, 1, m))
           /\ \A n \in Nat : MadeBefore(u, n) => MadeBefore(SubSeq(u, 1, m), n)
  <1>1. \A i \in DOMAIN SubSeq(u, 1, m) : i \in DOMAIN u /\ SubSeq(u, 1, m)[i] = u[i]
    OBVIOUS
  <1>. QED
    BY <1>1 DEF InOrder, MadeBefore

(* An attempt has no outcome before it is done.                              *)
Undecided == \A a \in Attempts : apc[a] # "done" => aout[a] = "none"

LEMMA StepUndecided ==
    ASSUME TypeOK, AllBooks, Undecided, [Next]_vars
    PROVE  Undecided'
  <1>0. /\ apc \in [Attempts -> AttemptStates] /\ aout \in [Attempts -> Outcomes]
        /\ current # 0 => current \in Sessions
    BY BoundsAssumption DEF TypeOK, AttemptsTyped, SessionsTyped, Sessions
  <1>1. ASSUME aout' = aout, \A b \in Attempts : apc[b] = "done" => apc'[b] = "done"
        PROVE  Undecided'
    BY <1>1 DEF Undecided
  <1>2. ASSUME NEW a, NEW o, Finish(a, o) PROVE Undecided'
    <2>1. ASSUME NEW b \in Attempts, b # a PROVE apc'[b] = apc[b] /\ aout'[b] = aout[b]
      BY <1>0, <1>2, <2>1 DEF Finish
    <2>2. a \in Attempts => apc'[a] = "done"
      BY <1>0, <1>2 DEF Finish
    <2>. QED
      BY <2>1, <2>2 DEF Undecided
  <1>3. ASSUME NEW s \in Sessions, NEW q \in Pauses, PauseMoved(pause[s], q)
        PROVE  /\ ApcAfter(s, q) \in [Attempts -> AttemptStates]
               /\ \A b \in Attempts : /\ apc[b] = "done" => ApcAfter(s, q)[b] = "done"
                                      /\ apc[b] = "unused" => ApcAfter(s, q)[b] = "unused"
    BY <1>3, AfterPause
  <1>4. ASSUME NEW s, NEW pc \in [Attempts -> AttemptStates], NewAttempt(s, pc),
               \A b \in Attempts : /\ apc[b] = "done" => pc[b] = "done"
                                   /\ apc[b] = "unused" => pc[b] = "unused"
        PROVE  Undecided'
    <2>1. \A b \in Attempts : apc[b] # "unused" => apc'[b] = pc[b]
      BY <1>4, HeldNewAttempt DEF TypeOK, AllBooks
    <2>. QED
      BY <1>1, <1>4, <2>1 DEF NewAttempt
  <1>5. ASSUME NEW s \in Sessions, LaneStep(s) PROVE Undecided'
    <2>1. CASE LanePhase1(s)
      <3>1. CASE \E o : Finish(Arg(s), o)
        BY <1>2, <3>1
      <3>2. CASE aout' = aout /\ \E st : apc' = [apc EXCEPT ![Arg(s)] = st]
        <4>1. apc[Arg(s)] = "queued"
          BY <2>1, RunningAttempt DEF LanePhase1, Running, PublishOps, Stage
        <4>. QED
          BY <1>0, <1>1, <3>2, <4>1
      <3>. QED
        BY <2>1, <3>1, <3>2 DEF LanePhase1
    <2>2. CASE LaneAbort(s) \/ LaneSettle(s) \/ LaneSettleBadly(s) \/ LaneCommit(s)
      <3>1. UNCHANGED attemptVars \/ \E o : Finish(Arg(s), o)
        BY <2>2 DEF LaneAbort, LaneSettle, LaneSettleBadly, LaneCommit, EndAttempt
      <3>. QED
        BY <1>1, <1>2, <3>1 DEF attemptVars
    <2>3. CASE LaneBoot(s) \/ LaneGate(s) \/ LaneMaterialize(s) \/ LaneQuiesce(s)
               \/ LaneDelete(s) \/ LaneDeleteCommit(s) \/ LaneDeleteAbandoned(s)
      BY <1>1, <2>3 DEF LaneBoot, LaneGate, LaneMaterialize, LaneQuiesce, LaneDelete,
                        LaneDeleteCommit, LaneDeleteAbandoned, attemptVars
    <2>. QED
      BY <1>5, <2>1, <2>2, <2>3 DEF LaneStep
  <1>6. ASSUME NEW s \in Sessions, NEW q \in Pauses, PauseMoved(pause[s], q), PauseStep(s, q)
        PROVE  Undecided'
    BY <1>1, <1>3, <1>6 DEF PauseStep
  <1>7. ASSUME NEW s \in Sessions, PauseTimeout(s) PROVE Undecided'
    <2>1. PauseTimedOut(pause[s]) \in Pauses /\ PauseMoved(pause[s], PauseTimedOut(pause[s]))
      <3>1. pause[s] \in Pauses
        BY DEF TypeOK, PausesTyped
      <3>. QED
        BY <3>1, PauseMoves DEF PauseTimedOut, PauseSettled, Pauses, PauseStates
    <2>. QED
      BY <1>6, <1>7, <2>1 DEF PauseTimeout
  <1>8. ASSUME NEW k \in Sockets, ServerReceive(k) PROVE Undecided'
    <2>1. CASE UNCHANGED attemptVars
      BY <1>1, <2>1 DEF attemptVars
    <2>2. CASE current # 0 /\ PauseStep(current, PauseMarkReady(pause[current], k))
      BY <1>0, <1>6, <2>2, MovedPauses
    <2>. QED
      BY <1>8, <2>1, <2>2 DEF ServerReceive, IsCurrentSessionEditor
  <1>9. ASSUME NEW k \in Sockets, CloseEvent(k) PROVE Undecided'
    <2>1. CASE UNCHANGED attemptVars
      BY <1>1, <2>1 DEF attemptVars
    <2>2. CASE current # 0 /\ PauseStep(current, PauseSocketLost(pause[current], k))
      BY <1>0, <1>6, <2>2, MovedPauses
    <2>3. CASE /\ current # 0
               /\ NewAttempt(current, ApcAfter(current, PauseSocketLost(pause[current], k)))
      BY <1>0, <1>3, <1>4, <2>3, MovedPauses
    <2>. QED
      BY <1>9, <2>1, <2>2, <2>3 DEF CloseEvent, PublishesOnLeaving
  <1>10. ASSUME NEW a \in Attempts, RunAttempt(a) PROVE Undecided'
    BY <1>0, <1>1, <1>10 DEF RunAttempt
  <1>11. CASE ForcePublish \/ RestoreBegin
    BY <1>0, <1>1, <1>4, <1>11 DEF ForcePublish, RestoreBegin, attemptVars
  <1>12. ASSUME UNCHANGED attemptVars PROVE Undecided'
    BY <1>1, <1>12 DEF attemptVars
  <1>13. ASSUME NEW s \in Sessions, ConstructRead(s) \/ ConstructDone(s) PROVE Undecided'
    BY <1>12, <1>13 DEF ConstructRead, ConstructDone
  <1>14. ASSUME NEW k \in Sockets, Connect(k) \/ Acquire(k) \/ LeaveDone(k) \/ ClientEdit(k)
                                   \/ ClientReceive(k) \/ ClientReady(k)
         PROVE  Undecided'
    BY <1>12, <1>14 DEF Connect, Acquire, LeaveDone, ClientEdit, ClientReceive, ClientReady
  <1>15. CASE QuiesceFire \/ DeleteRequest \/ RestoreStep \/ UNCHANGED vars
    BY <1>12, <1>15 DEF QuiesceFire, DeleteRequest, RestoreStep, RestoreHandoff, RestoreLock,
                        RestoreLand, vars
  <1>. QED
    BY <1>5, <1>7, <1>8, <1>9, <1>10, <1>11, <1>13, <1>14, <1>15
       DEF Next, SessionStep, SocketStep, Request

(* No socket is opened again, and only an open one gets an editor.           *)
SocketsMove ==
    \A k \in Sockets :
        /\ sock'[k] \in {"idle", "open"} => sock[k] \in {"idle", "open"}
        /\ sock'[k] = "editor" => sock[k] \in {"open", "editor"}

LEMMA StepSockets ==
    ASSUME TypeOK, [Next]_vars
    PROVE  SocketsMove
  <1>0. sock \in [Sockets -> SocketStates]
    BY DEF TypeOK, SocketsTyped
  <1>1. ASSUME UNCHANGED sock PROVE SocketsMove
    BY <1>1 DEF SocketsMove
  <1>2. ASSUME NEW ks, ClosedByServer(ks) PROVE SocketsMove
    BY <1>2 DEF ClosedByServer, OpenSockets, SocketsMove
  <1>3. ASSUME NEW p, Invalidated(p) PROVE SocketsMove
    BY <1>3 DEF Invalidated, OpenSockets, SocketsMove
  <1>4. ASSUME NEW ks, NEW s, Attach(ks, s) PROVE SocketsMove
    BY <1>4 DEF Attach, SocketsMove
  <1>5. ASSUME NEW s \in Sessions, SessionStep(s) PROVE SocketsMove
    <2>1. CASE ConstructRead(s) \/ ConstructDone(s) \/ PauseTimeout(s)
      BY <1>1, <1>2, <1>4, <2>1 DEF ConstructRead, ConstructDone, PauseTimeout, socketVars
    <2>2. CASE LaneBoot(s) \/ LaneGate(s) \/ LaneMaterialize(s) \/ LanePhase1(s)
               \/ LaneAbort(s) \/ LaneSettle(s)
      BY <1>1, <1>2, <2>2 DEF LaneBoot, LaneGate, LaneMaterialize, LanePhase1, LaneAbort,
                              LaneSettle, socketVars
    <2>3. CASE LaneSettleBadly(s) \/ LaneCommit(s) \/ LaneQuiesce(s) \/ LaneDelete(s)
               \/ LaneDeleteCommit(s) \/ LaneDeleteAbandoned(s)
      BY <1>1, <1>3, <2>3 DEF LaneSettleBadly, LaneCommit, LaneQuiesce, LaneDelete,
                              LaneDeleteCommit, LaneDeleteAbandoned, socketVars
    <2>. QED
      BY <1>5, <2>1, <2>2, <2>3 DEF SessionStep, LaneStep
  <1>6. ASSUME NEW k \in Sockets, SocketStep(k) PROVE SocketsMove
    <2>1. CASE Connect(k) \/ CloseEvent(k) \/ LeaveDone(k)
      <3>1. /\ \A m \in Sockets : m # k => sock'[m] = sock[m]
            /\ sock'[k] \in {"closed", "leaving"} \/ (sock[k] = "idle" /\ sock'[k] = "open")
        BY <1>0, <2>1 DEF Connect, CloseEvent, LeaveDone
      <3>. QED
        BY <3>1 DEF SocketsMove
    <2>2. CASE Acquire(k) \/ ServerReceive(k)
      BY <1>1, <1>2, <1>4, <2>2 DEF Acquire, ServerReceive
    <2>3. CASE ClientEdit(k) \/ ClientReceive(k) \/ ClientReady(k)
      BY <1>1, <2>3 DEF ClientEdit, ClientReceive, ClientReady, socketVars
    <2>. QED
      BY <1>6, <2>1, <2>2, <2>3 DEF SocketStep
  <1>7. CASE (\E a \in Attempts : RunAttempt(a)) \/ Request \/ RestoreStep \/ UNCHANGED vars
    BY <1>1, <1>3, <1>7
       DEF RunAttempt, Request, ForcePublish, QuiesceFire, DeleteRequest, RestoreBegin,
           RestoreStep, RestoreHandoff, RestoreLock, RestoreLand, vars, socketVars
  <1>. QED
    BY <1>5, <1>6, <1>7 DEF Next

(* Only the clients and the handlers of their frames touch the wires.        *)
WireStep(k) == ServerReceive(k) \/ CloseEvent(k) \/ ClientEdit(k) \/ ClientReady(k)

LEMMA WiresRest ==
    ASSUME [Next]_vars, \A k \in Sockets : ~WireStep(k)
    PROVE  UNCHANGED <<up, nEdits, sent, frontier>>
  <1>1. ASSUME NEW s \in Sessions, SessionStep(s) PROVE UNCHANGED <<up, nEdits, sent, frontier>>
    <2>1. CASE ConstructRead(s) \/ ConstructDone(s) \/ PauseTimeout(s)
      BY <2>1 DEF ConstructRead, ConstructDone, PauseTimeout, wireVars, historyVars
    <2>2. CASE LaneBoot(s) \/ LaneGate(s) \/ LaneMaterialize(s) \/ LanePhase1(s)
               \/ LaneAbort(s) \/ LaneSettle(s)
      BY <2>2 DEF LaneBoot, LaneGate, LaneMaterialize, LanePhase1, LaneAbort, LaneSettle,
                  wireVars, historyVars
    <2>3. CASE LaneSettleBadly(s) \/ LaneCommit(s) \/ LaneQuiesce(s) \/ LaneDelete(s)
               \/ LaneDeleteCommit(s) \/ LaneDeleteAbandoned(s)
      BY <2>3 DEF LaneSettleBadly, LaneCommit, LaneQuiesce, LaneDelete, LaneDeleteCommit,
                  LaneDeleteAbandoned, wireVars, historyVars
    <2>. QED
      BY <1>1, <2>1, <2>2, <2>3 DEF SessionStep, LaneStep
  <1>2. ASSUME NEW k \in Sockets, SocketStep(k) PROVE UNCHANGED <<up, nEdits, sent, frontier>>
    BY <1>2 DEF SocketStep, WireStep, Connect, Acquire, LeaveDone, ClientReceive, wireVars,
                historyVars
  <1>3. CASE (\E a \in Attempts : RunAttempt(a)) \/ Request \/ RestoreStep \/ UNCHANGED vars
    BY <1>3 DEF RunAttempt, Request, ForcePublish, QuiesceFire, DeleteRequest, RestoreBegin,
                RestoreStep, RestoreHandoff, RestoreLock, RestoreLand, vars, wireVars, historyVars
  <1>. QED
    BY <1>1, <1>2, <1>3 DEF Next

(* Only the gate and the materializing of an update acknowledge.             *)
LEMMA AcksRest ==
    ASSUME [Next]_vars, \A s \in Sessions : ~LaneGate(s) /\ ~LaneMaterialize(s)
    PROVE  acked' = acked
  <1>1. ASSUME NEW s \in Sessions, SessionStep(s) PROVE acked' = acked
    <2>1. CASE ConstructRead(s) \/ ConstructDone(s) \/ PauseTimeout(s)
      BY <2>1 DEF ConstructRead, ConstructDone, PauseTimeout, historyVars
    <2>2. CASE LaneBoot(s) \/ LanePhase1(s) \/ LaneAbort(s) \/ LaneSettle(s)
      BY <2>2 DEF LaneBoot, LanePhase1, LaneAbort, LaneSettle, historyVars
    <2>3. CASE LaneSettleBadly(s) \/ LaneCommit(s) \/ LaneQuiesce(s) \/ LaneDelete(s)
               \/ LaneDeleteCommit(s) \/ LaneDeleteAbandoned(s)
      BY <2>3 DEF LaneSettleBadly, LaneCommit, LaneQuiesce, LaneDelete, LaneDeleteCommit,
                  LaneDeleteAbandoned, historyVars
    <2>. QED
      BY <1>1, <2>1, <2>2, <2>3 DEF SessionStep, LaneStep
  <1>2. ASSUME NEW k \in Sockets, SocketStep(k) PROVE acked' = acked
    BY <1>2 DEF SocketStep, Connect, Acquire, ServerReceive, CloseEvent, LeaveDone,
                ClientEdit, ClientReceive, ClientReady, historyVars
  <1>3. CASE (\E a \in Attempts : RunAttempt(a)) \/ Request \/ RestoreStep \/ UNCHANGED vars
    BY <1>3 DEF RunAttempt, Request, ForcePublish, QuiesceFire, DeleteRequest, RestoreBegin,
                RestoreStep, RestoreHandoff, RestoreLock, RestoreLand, vars, historyVars
  <1>. QED
    BY <1>1, <1>2, <1>3 DEF Next

(* What is acknowledged was on the lane, sent by an attached client.         *)
LEMMA AckedCommand ==
    ASSUME TypeOK, EditOwners, NEW s \in Sessions, LaneGate(s) \/ LaneMaterialize(s)
    PROVE  /\ Head(lane[s]).op \in {"update", "materialize"} /\ lane[s] # << >>
           /\ Arg(s) \in Edits /\ Arg(s) <= nEdits
           /\ \E k \in Sockets : Sender(Arg(s)) = {k} /\ sid[k] = s
           /\ acked \subseteq acked' /\ acked' \subseteq acked \cup {Arg(s)}
  <1>1. /\ lane[s] # << >> /\ Head(lane[s]).op \in {"update", "materialize"}
        /\ acked' = acked \/ acked' = AckedWith(Arg(s))
    BY DEF LaneGate, LaneMaterialize, Running
  <1>2. lane[s] \in Seq(OwnCommands(s))
    BY DEF EditOwners, LanesOwned
  <1>3. Head(lane[s]) \in OwnCommands(s)
    BY <1>1, <1>2
  <1>4. /\ Arg(s) \in Edits /\ Arg(s) <= nEdits /\ Sender(Arg(s)) # {}
        /\ \A k \in Sender(Arg(s)) : sid[k] = s
    BY <1>1, <1>3 DEF OwnCommands, Commands, Arg
  <1>5. PICK k \in Sender(Arg(s)) : TRUE
    BY <1>4
  <1>6. Sender(Arg(s)) = {k} /\ k \in Sockets
    BY <1>5 DEF Sender, EditOwners, OneSender
  <1>. QED
    BY <1>1, <1>4, <1>6 DEF AckedWith

(* Wires in order, and nothing ahead of its making.                          *)
LEMMA StepWires ==
    ASSUME TypeOK, EditOwners, Made, SentInOrder, Unsent, [Next]_vars
    PROVE  Made' /\ SentInOrder' /\ Unsent'
  <1>0. /\ up \in [Sockets -> Seq(Frames)] /\ nEdits \in 0..MaxEdits /\ nEdits \in Nat
        /\ sent \in [Sockets -> SUBSET Edits] /\ frontier \in [Sockets -> 0..MaxEdits]
        /\ SocketsMove
    BY StepSockets, BoundsAssumption DEF TypeOK, WireTyped, HistoryTyped
  <1>1. ASSUME \A e \in acked' : e <= nEdits', UNCHANGED <<up, nEdits, sent, frontier>>
        PROVE  Made' /\ SentInOrder' /\ Unsent'
    BY <1>0, <1>1 DEF Made, SentInOrder, Unsent, SocketsMove
  <1>2. ASSUME NEW s \in Sessions, LaneGate(s) \/ LaneMaterialize(s)
        PROVE  Made' /\ SentInOrder' /\ Unsent'
    <2>1. UNCHANGED <<up, nEdits, sent, frontier>>
      BY <1>2 DEF LaneGate, LaneMaterialize, wireVars
    <2>2. Arg(s) <= nEdits /\ acked' \subseteq acked \cup {Arg(s)}
      BY <1>2, AckedCommand
    <2>. QED
      BY <1>1, <2>1, <2>2 DEF Made
  <1>3. ASSUME acked' = acked, UNCHANGED <<nEdits, sent>>, NEW k \in Sockets,
               \A m \in Sockets : m # k => up'[m] = up[m] /\ frontier'[m] = frontier[m],
               InOrder(up'[k]), MadeBefore(up'[k], nEdits), frontier'[k] <= nEdits
        PROVE  Made' /\ SentInOrder' /\ Unsent'
    BY <1>0, <1>3 DEF Made, SentInOrder, Unsent, SocketsMove
  <1>4. ASSUME NEW k \in Sockets, ServerReceive(k) PROVE Made' /\ SentInOrder' /\ Unsent'
    <2>1. up[k] \in Seq(Frames) /\ up[k] # << >> /\ InOrder(up[k]) /\ MadeBefore(up[k], nEdits)
      BY <1>0, <1>4 DEF SentInOrder, Made, ServerReceive
    <2>2. InOrder(Tail(up[k])) /\ MadeBefore(Tail(up[k]), nEdits) /\ Head(up[k]).n <= nEdits
      BY <1>0, <2>1, TailInOrder
    <2>3. /\ up' = [up EXCEPT ![k] = Tail(@)] /\ UNCHANGED <<acked, nEdits, sent>>
          /\ frontier' = frontier \/ frontier' = [frontier EXCEPT ![k] = Head(up[k]).n]
      BY <1>4 DEF ServerReceive
    <2>4. frontier[k] <= nEdits
      BY DEF Made
    <2>. QED
      BY <1>0, <1>3, <2>2, <2>3, <2>4
  <1>5. ASSUME NEW k \in Sockets, CloseEvent(k) PROVE Made' /\ SentInOrder' /\ Unsent'
    <2>1. PICK n \in 0..Len(up[k]) : up' = [up EXCEPT ![k] = SubSeq(@, 1, n)]
      BY <1>5 DEF CloseEvent, FramesLost
    <2>2. up[k] \in Seq(Frames) /\ InOrder(up[k]) /\ MadeBefore(up[k], nEdits)
      BY <1>0 DEF SentInOrder, Made
    <2>3. InOrder(SubSeq(up[k], 1, n)) /\ MadeBefore(SubSeq(up[k], 1, n), nEdits)
      BY <1>0, <2>2, CutInOrder
    <2>4. UNCHANGED <<acked, nEdits, sent, frontier>> /\ frontier[k] <= nEdits
      BY <1>5 DEF CloseEvent, historyVars, Made
    <2>. QED
      BY <1>0, <1>3, <2>1, <2>3, <2>4
  <1>6. ASSUME NEW k \in Sockets, ClientReady(k) PROVE Made' /\ SentInOrder' /\ Unsent'
    <2>1. PICK f \in Frames : f = [op |-> "ready", n |-> nEdits]
      BY <1>0 DEF Frames
    <2>2. up' = [up EXCEPT ![k] = Append(@, f)] /\ UNCHANGED <<acked, nEdits, sent, frontier>>
      BY <1>6, <2>1 DEF ClientReady, historyVars
    <2>3. up[k] \in Seq(Frames) /\ InOrder(up[k]) /\ MadeBefore(up[k], nEdits)
      BY <1>0 DEF SentInOrder, Made
    <2>4. InOrder(Append(up[k], f)) /\ MadeBefore(Append(up[k], f), nEdits)
      BY <1>0, <2>1, <2>3, AppendInOrder
    <2>5. frontier[k] <= nEdits
      BY DEF Made
    <2>. QED
      BY <1>0, <1>3, <2>2, <2>4, <2>5
  <1>7. ASSUME NEW k \in Sockets, ClientEdit(k) PROVE Made' /\ SentInOrder' /\ Unsent'
    <2>1. nEdits + 1 \in Edits /\ nEdits < nEdits + 1
      BY <1>0, <1>7, BoundsAssumption DEF ClientEdit, Edits
    <2>2. PICK f \in Frames : f = [op |-> "update", n |-> nEdits + 1]
      <3>1. PICK n \in Edits : n = nEdits + 1 /\ n \in 0..MaxEdits
        BY <2>1, BoundsAssumption DEF Edits
      <3>2. [op |-> "update", n |-> n] \in Frames
        BY <3>1 DEF Frames
      <3>. QED
        BY <3>1, <3>2
    <2>3. /\ up' = [up EXCEPT ![k] = Append(@, f)] /\ UNCHANGED <<acked, frontier, sock>>
          /\ nEdits' = nEdits + 1 /\ sent' = [sent EXCEPT ![k] = @ \cup {nEdits + 1}]
          /\ sock[k] \in {"editor", "closing"}
      BY <1>7, <2>2 DEF ClientEdit, socketVars
    <2>4. up[k] \in Seq(Frames) /\ InOrder(up[k]) /\ MadeBefore(up[k], nEdits)
      BY <1>0 DEF SentInOrder, Made
    <2>5. MadeBefore(up[k], nEdits + 1) /\ \A i \in DOMAIN up[k] : up[k][i].n < f.n
      <3>1. \A i \in DOMAIN up[k] : up[k][i] \in Frames
        BY <2>4
      <3>2. \A i \in DOMAIN up[k] : up[k][i].n \in Nat
        BY <3>1, BoundsAssumption DEF Frames
      <3>. QED
        BY <1>0, <2>2, <2>4, <3>2 DEF MadeBefore
    <2>6. InOrder(Append(up[k], f)) /\ MadeBefore(Append(up[k], f), nEdits + 1)
      BY <1>0, <2>2, <2>4, <2>5, AppendInOrder
    <2>7. ASSUME NEW m \in Sockets PROVE InOrder(up'[m]) /\ MadeBefore(up'[m], nEdits + 1)
      <3>1. CASE m = k
        BY <1>0, <2>3, <2>6, <3>1
      <3>2. CASE m # k
        <4>1. up'[m] = up[m] /\ up[m] \in Seq(Frames) /\ InOrder(up[m]) /\ MadeBefore(up[m], nEdits)
          BY <1>0, <2>3, <3>2 DEF SentInOrder, Made
        <4>2. \A i \in DOMAIN up[m] : up[m][i] \in Frames
          BY <4>1
        <4>3. \A i \in DOMAIN up[m] : up[m][i].n \in Nat
          BY <4>2, BoundsAssumption DEF Frames
        <4>. QED
          BY <1>0, <4>1, <4>3 DEF MadeBefore
      <3>. QED
        BY <3>1, <3>2
    <2>8. Made'
      <3>1. \A e \in acked : e \in Nat /\ e <= nEdits
        BY BoundsAssumption DEF Made, TypeOK, HistoryTyped, Edits
      <3>2. \A m \in Sockets : frontier[m] \in Nat /\ frontier[m] <= nEdits
        BY <1>0, BoundsAssumption DEF Made
      <3>. QED
        BY <1>0, <2>3, <2>7, <3>1, <3>2 DEF Made
    <2>9. SentInOrder' /\ Unsent'
      BY <1>0, <2>3, <2>7 DEF SentInOrder, Unsent
    <2>. QED
      BY <2>8, <2>9
  <1>8. CASE \A k \in Sockets : ~WireStep(k)
    <2>1. UNCHANGED <<up, nEdits, sent, frontier>>
      BY <1>8, WiresRest
    <2>2. CASE \A s \in Sessions : ~LaneGate(s) /\ ~LaneMaterialize(s)
      BY <1>1, <2>1, <2>2, AcksRest DEF Made
    <2>. QED
      BY <1>2, <2>2
  <1>. QED
    BY <1>4, <1>5, <1>6, <1>7, <1>8 DEF WireStep

(* An update leaves its lane by the gate or by being materialized.           *)
LEMMA UpdatesStay ==
    ASSUME TypeOK, AllBooks, [Next]_vars, \A s \in Sessions : ~LaneGate(s) /\ ~LaneMaterialize(s)
    PROVE  \A e : OnLane(e) => OnLane(e)'
  <1> SUFFICES ASSUME NEW e, OnLane(e) PROVE OnLane(e)'
    OBVIOUS
  <1>0. /\ LanesTyped /\ PausesTyped /\ lane \in [Sessions -> Seq(Commands)]
        /\ current # 0 => current \in Sessions
    BY BoundsAssumption DEF TypeOK, LanesTyped, SessionsTyped, Sessions
  <1>1. ASSUME lane' = lane PROVE OnLane(e)'
    BY <1>1 DEF OnLane
  <1>2. ASSUME NEW s \in Sessions, NEW c \in Commands, lane' = Enqueued(lane, s, c)
        PROVE  OnLane(e)'
    BY <1>0, <1>2, JoinedOnLane
  <1>3. ASSUME NEW s \in Sessions, LaneStep(s) PROVE OnLane(e)'
    <2>1. lane[s] # << >> /\ Head(lane[s]).op \notin {"update", "materialize"}
      BY <1>3 DEF LaneStep, LaneBoot, LanePhase1, LaneAbort, LaneSettle, LaneSettleBadly,
                  LaneCommit, LaneQuiesce, LaneDelete, LaneDeleteCommit, LaneDeleteAbandoned,
                  Running
    <2>2. Head(lane[s]) \in Commands /\ Arg(s) \in Nat
      BY <1>0, <2>1, HeadType DEF Arg, Commands
    <2>3. /\ Command("ready", Arg(s)) \in Commands /\ Command("commit", Arg(s)) \in Commands
          /\ Command("delete_commit", 0) \in Commands
      BY <2>2, CommandType DEF LaneOps
    <2>4. CASE LaneBoot(s) \/ LanePhase1(s) \/ LaneAbort(s) \/ LaneSettle(s) \/ LaneSettleBadly(s)
               \/ LaneCommit(s)
      <3>1. lane' = Popped(lane, s) \/ \E c \in Commands : lane' = Continued(lane, s, c)
        BY <2>3, <2>4 DEF LaneBoot, LanePhase1, LaneAbort, LaneSettle, LaneSettleBadly,
                          LaneCommit, EndAttempt
      <3>. QED
        BY <1>0, <2>1, <3>1, PassedOnLane
    <2>5. CASE LaneQuiesce(s) \/ LaneDelete(s) \/ LaneDeleteCommit(s) \/ LaneDeleteAbandoned(s)
      <3>1. lane' = Popped(lane, s) \/ \E c \in Commands : lane' = Continued(lane, s, c)
        BY <2>3, <2>5 DEF LaneQuiesce, LaneDelete, LaneDeleteCommit, LaneDeleteAbandoned
      <3>. QED
        BY <1>0, <2>1, <3>1, PassedOnLane
    <2>. QED
      BY <1>3, <2>4, <2>5 DEF LaneStep
  <1>4. ASSUME NEW ks \in SUBSET Sockets, NEW s \in Sessions, Attach(ks, s) PROVE OnLane(e)'
    <2>1. [op |-> "boot", n |-> 0, ks |-> ks] \in Commands
      BY DEF Commands, LaneOps
    <2>. QED
      BY <1>2, <1>4, <2>1 DEF Attach
  <1>5. ASSUME NEW s \in Sessions, NEW q \in Pauses, lane' = LaneAfter(s, q) PROVE OnLane(e)'
    BY <1>0, <1>1, <1>2, <1>5, LaneAfterJoins
  <1>6. ASSUME NEW s \in Sessions, ConstructRead(s) \/ ConstructDone(s) \/ PauseTimeout(s)
        PROVE  OnLane(e)'
    <2>1. PauseTimedOut(pause[s]) \in Pauses
      BY DEF TypeOK, PausesTyped, PauseTimedOut, PauseSettled, Pauses, PauseStates
    <2>. QED
      BY <1>1, <1>4, <1>5, <1>6, <2>1
         DEF ConstructRead, ConstructDone, Acquirers, PauseTimeout, PauseStep
  <1>7. ASSUME NEW k \in Sockets, Acquire(k) PROVE OnLane(e)'
    <2>1. CASE promised # 0 /\ Attach({k}, promised)
      <3>1. promised \in Sessions
        BY <2>1, BoundsAssumption DEF TypeOK, SessionsTyped, Sessions
      <3>. QED
        BY <1>4, <2>1, <3>1
    <2>. QED
      BY <1>1, <1>7, <2>1 DEF Acquire
  <1>8. ASSUME NEW k \in Sockets, ServerReceive(k) PROVE OnLane(e)'
    <2>1. CASE current # 0 /\ up[k] # << >> /\ Head(up[k]).op = "update"
               /\ lane' = Enqueued(lane, current, Command("update", Head(up[k]).n))
      <3>1. Head(up[k]) \in Frames
        BY <2>1 DEF TypeOK, WireTyped
      <3>2. Head(up[k]).n \in Edits /\ Head(up[k]).n \in Nat
        BY <2>1, <3>1, BoundsAssumption DEF Frames
      <3>3. Command("update", Head(up[k]).n) \in Commands
        BY <3>2, CommandType DEF LaneOps
      <3>. QED
        BY <1>0, <1>2, <2>1, <3>3
    <2>2. CASE current # 0 /\ lane' = LaneAfter(current, PauseMarkReady(pause[current], k))
      BY <1>0, <1>5, <2>2, MovedPauses
    <2>. QED
      BY <1>1, <1>8, <2>1, <2>2 DEF ServerReceive, IsCurrentSessionEditor, PauseStep
  <1>9. ASSUME NEW k \in Sockets, CloseEvent(k) PROVE OnLane(e)'
    <2>1. CASE current # 0 /\ lane' = LaneAfter(current, PauseSocketLost(pause[current], k))
      BY <1>0, <1>5, <2>1, MovedPauses
    <2>. QED
      BY <1>1, <1>9, <2>1 DEF CloseEvent, PublishesOnLeaving, PauseStep
  <1>10. ASSUME NEW k \in Sockets, Connect(k) \/ LeaveDone(k) \/ ClientEdit(k)
                                   \/ ClientReceive(k) \/ ClientReady(k)
         PROVE  OnLane(e)'
    BY <1>1, <1>10 DEF Connect, LeaveDone, ClientEdit, ClientReceive, ClientReady
  <1>11. ASSUME NEW a \in Attempts, RunAttempt(a) PROVE OnLane(e)'
    <2>1. asess[a] \in Sessions
      BY <1>11 DEF AllBooks, AttemptsCounted, RunAttempt
    <2>2. Command("phase1", a) \in Commands
      BY CommandType DEF LaneOps, Attempts
    <2>. QED
      BY <1>2, <1>11, <2>1, <2>2 DEF RunAttempt
  <1>12. CASE QuiesceFire \/ DeleteRequest
    <2>1. Command("quiesce", 0) \in Commands /\ Command("delete", 0) \in Commands
      BY CommandType DEF LaneOps
    <2>. QED
      BY <1>0, <1>1, <1>2, <1>12, <2>1 DEF QuiesceFire, DeleteRequest
  <1>13. CASE ForcePublish \/ RestoreBegin \/ RestoreStep \/ UNCHANGED vars
    BY <1>1, <1>13 DEF ForcePublish, RestoreBegin, RestoreStep, RestoreHandoff, RestoreLock,
                       RestoreLand, vars
  <1>. QED
    BY <1>3, <1>6, <1>7, <1>8, <1>9, <1>10, <1>11, <1>12, <1>13
       DEF Next, SessionStep, SocketStep, Request

(* An update passes the gate, is refused or materialized, and acknowledged,  *)
(* or its socket is closed.                                                  *)
LEMMA UpdateMoves ==
    ASSUME TypeOK, EditOwners, NEW s \in Sessions, LaneGate(s) \/ LaneMaterialize(s), NEW e, OnLane(e)
    PROVE  \/ OnLane(e)' \/ e \in acked'
           \/ \A k \in Sockets : e \in sent[k] => sock'[k] # "editor"
  <1>0. LanesTyped /\ lane[s] \in Seq(Commands)
    BY DEF TypeOK, LanesTyped
  <1>1. PICK k \in Sockets : Sender(Arg(s)) = {k}
    BY AckedCommand
  <1>2. /\ lane[s] # << >> /\ Arg(s) \in Edits /\ Head(lane[s]) \in Commands
        /\ Command("materialize", Arg(s)) \in Commands
    BY <1>0, AckedCommand, HeadType, CommandType, BoundsAssumption DEF LaneOps, Edits
  <1>3. CASE lane' = Continued(lane, s, Command("materialize", Arg(s)))
    <2>1. CASE e = Arg(s)
      <3>0. PICK c \in Commands : /\ c = Command("materialize", Arg(s))
                                 /\ c.op = "materialize" /\ c.n = Arg(s)
        BY <1>2 DEF Command
      <3>1. Carries(<<c>> \o Tail(lane[s]), e)
        BY <1>0, <1>2, <2>1, <3>0, TailCarries
      <3>2. lane'[s] = <<c>> \o Tail(lane[s])
        BY <1>0, <1>3, <3>0 DEF Continued, LanesTyped
      <3>. QED
        BY <3>1, <3>2 DEF OnLane
    <2>2. CASE e # Arg(s)
      BY <1>0, <1>2, <1>3, <2>2, PassedOnLane
    <2>. QED
      BY <2>1, <2>2
  <1>4. CASE lane' = Popped(lane, s) /\ e # Arg(s)
    BY <1>0, <1>2, <1>4, PassedOnLane
  <1>5. CASE lane' = Popped(lane, s) /\ e = Arg(s)
    <2>1. \A m \in Sockets : e \in sent[m] => m = k
      BY <1>1, <1>5 DEF Sender
    <2>2. CASE ClosedByServer(Sender(e))
      <3>1. sock'[k] # "editor"
        BY <1>1, <1>5, <2>2 DEF ClosedByServer, OpenSockets
      <3>. QED
        BY <2>1, <3>1
    <2>3. CASE acked' = AckedWith(e) /\ UNCHANGED sock
      BY <1>1, <1>5, <2>1, <2>3 DEF AckedWith, OpenSockets
    <2>. QED
      BY <1>3, <1>5, <2>2, <2>3 DEF LaneGate, LaneMaterialize
  <1>. QED
    BY <1>3, <1>4, <1>5 DEF LaneGate, LaneMaterialize

(* A step that leaves the wires keeps what was on its way on its way.        *)
LEMMA DeliveryStays ==
    ASSUME SocketsMove, Unsent, Delivery, UNCHANGED <<up, sent, frontier>>, acked \subseteq acked',
           \A e : OnLane(e) => \/ OnLane(e)' \/ e \in acked'
                               \/ \A k \in Sockets : e \in sent[k] => sock'[k] # "editor"
    PROVE  Delivery'
  <1> SUFFICES ASSUME NEW k \in Sockets, sock'[k] = "editor", NEW e \in sent[k]
               PROVE  /\ e \in acked' \/ OnLane(e)' \/ OnWire(up[k], e)
                      /\ e <= frontier[k] => e \in acked'
    BY DEF Delivery, Delivered, ActiveEditors
  <1>1. sock[k] = "editor"
    BY DEF SocketsMove, Unsent
  <1>2. Delivered(k)
    BY <1>1 DEF Delivery, ActiveEditors
  <1>. QED
    BY <1>2 DEF Delivered

(* What an editor has sent stays acknowledged or on its way; the ack that is *)
(* counted finds what was sent before it acknowledged.                       *)
LEMMA StepDelivery ==
    ASSUME TypeOK, EditOwners, AllBooks, Seats, Made, SentInOrder, Unsent, Delivery, [Next]_vars
    PROVE  Delivery'
  <1>0. /\ SocketsMove /\ up \in [Sockets -> Seq(Frames)] /\ sock \in [Sockets -> SocketStates]
        /\ sent \in [Sockets -> SUBSET Edits] /\ frontier \in [Sockets -> 0..MaxEdits]
        /\ nEdits \in Nat /\ (current # 0 => current \in Sessions) /\ LanesTyped /\ PausesTyped
    BY StepSockets, BoundsAssumption
       DEF TypeOK, WireTyped, SocketsTyped, HistoryTyped, SessionsTyped, Sessions
  <1>1. ASSUME NEW s \in Sessions, LaneGate(s) \/ LaneMaterialize(s) PROVE Delivery'
    <2>1. UNCHANGED <<up, sent, frontier>>
      BY <1>1 DEF LaneGate, LaneMaterialize, wireVars
    <2>2. acked \subseteq acked'
      BY <1>1, AckedCommand
    <2>. QED
      BY <1>0, <1>1, <2>1, <2>2, UpdateMoves, DeliveryStays
  <1>2. CASE \A s \in Sessions : ~LaneGate(s) /\ ~LaneMaterialize(s)
    <2>0. acked' = acked /\ \A e : OnLane(e) => OnLane(e)'
      BY <1>2, UpdatesStay, AcksRest
    <2>1. CASE \A k \in Sockets : ~WireStep(k)
      <3>1. UNCHANGED <<up, sent, frontier>>
        BY <2>1, WiresRest
      <3>. QED
        BY <1>0, <2>0, <3>1, DeliveryStays
    <2>2. ASSUME NEW k \in Sockets,
                 \A m \in Sockets : m # k => /\ up'[m] = up[m] /\ frontier'[m] = frontier[m]
                                             /\ sent'[m] = sent[m],
                 sock'[k] = "editor" => Delivered(k)'
          PROVE  Delivery'
      <3> SUFFICES ASSUME NEW m \in Sockets, sock'[m] = "editor", m # k PROVE Delivered(m)'
        BY <2>2 DEF Delivery, ActiveEditors
      <3>1. sock[m] = "editor" \/ sent[m] = {}
        BY <1>0 DEF SocketsMove, Unsent
      <3>2. sent[m] # {} => Delivered(m)
        BY <3>1 DEF Delivery, ActiveEditors
      <3>. QED
        BY <2>0, <2>2, <3>2 DEF Delivered
    <2>3. ASSUME NEW k \in Sockets, CloseEvent(k) PROVE Delivery'
      <3>1. sock'[k] # "editor"
        BY <1>0, <2>3 DEF CloseEvent
      <3>2. \A m \in Sockets : m # k => up'[m] = up[m]
        BY <1>0, <2>3 DEF CloseEvent, FramesLost
      <3>3. UNCHANGED <<sent, frontier>>
        BY <2>3 DEF CloseEvent, historyVars
      <3>. QED
        BY <2>2, <3>1, <3>2, <3>3
    <2>4. ASSUME NEW k \in Sockets, ClientReady(k) PROVE Delivery'
      <3>1. PICK f \in Frames : f = [op |-> "ready", n |-> nEdits]
        BY DEF Frames, TypeOK, HistoryTyped
      <3>2. up' = [up EXCEPT ![k] = Append(@, f)] /\ UNCHANGED <<sent, frontier, sock>>
        BY <2>4, <3>1 DEF ClientReady, historyVars, socketVars
      <3>3. up[k] \in Seq(Frames) /\ InOrder(up[k])
        BY <1>0 DEF SentInOrder
      <3>4. \A e : OnWire(up[k], e) => OnWire(up'[k], e)
        BY <1>0, <3>1, <3>2, <3>3, AppendInOrder
      <3>5. sock'[k] = "editor" => Delivered(k)'
        BY <2>0, <3>2, <3>4 DEF Delivery, Delivered, ActiveEditors
      <3>. QED
        BY <1>0, <2>2, <3>2, <3>5
    <2>5. ASSUME NEW k \in Sockets, ClientEdit(k) PROVE Delivery'
      <3>1. nEdits + 1 \in Edits
        BY <1>0, <2>5, BoundsAssumption DEF ClientEdit, Edits, TypeOK, HistoryTyped
      <3>2. [op |-> "update", n |-> nEdits + 1] \in Frames
        <4>1. PICK n \in Edits : n = nEdits + 1 /\ n \in 0..MaxEdits
          BY <3>1, BoundsAssumption DEF Edits
        <4>2. [op |-> "update", n |-> n] \in Frames
          BY <4>1 DEF Frames
        <4>. QED
          BY <4>1, <4>2
      <3>3. PICK f \in Frames : f = [op |-> "update", n |-> nEdits + 1]
        BY <3>2
      <3>4. /\ up' = [up EXCEPT ![k] = Append(@, f)] /\ UNCHANGED <<frontier, sock>>
            /\ sent' = [sent EXCEPT ![k] = @ \cup {nEdits + 1}]
        BY <2>5, <3>3 DEF ClientEdit, socketVars
      <3>5. up[k] \in Seq(Frames) /\ InOrder(up[k]) /\ MadeBefore(up[k], nEdits)
        BY <1>0 DEF SentInOrder, Made
      <3>6. \A i \in DOMAIN up[k] : up[k][i].n < f.n
        <4>1. \A i \in DOMAIN up[k] : up[k][i] \in Frames
          BY <3>5
        <4>2. \A i \in DOMAIN up[k] : up[k][i].n \in Nat
          BY <4>1, BoundsAssumption DEF Frames
        <4>. QED
          BY <1>0, <3>3, <3>5, <4>2 DEF MadeBefore
      <3>7. OnWire(up'[k], nEdits + 1) /\ \A e : OnWire(up[k], e) => OnWire(up'[k], e)
        BY <1>0, <3>3, <3>4, <3>5, <3>6, AppendInOrder
      <3>8. frontier[k] \in Nat /\ frontier[k] <= nEdits
        BY <1>0, BoundsAssumption DEF Made
      <3>9. sock'[k] = "editor" => Delivered(k)'
        BY <1>0, <2>0, <3>4, <3>7, <3>8 DEF Delivery, Delivered, ActiveEditors
      <3>. QED
        BY <1>0, <2>2, <3>4, <3>9
    <2>6. ASSUME NEW k \in Sockets, ServerReceive(k) PROVE Delivery'
      <3>1. /\ up' = [up EXCEPT ![k] = Tail(@)] /\ sent' = sent /\ ~Busy(k)
            /\ \A m \in Sockets : m # k => frontier'[m] = frontier[m]
            /\ up[k] \in Seq(Frames) /\ up[k] # << >> /\ InOrder(up[k])
        BY <1>0, <2>6 DEF ServerReceive, SentInOrder
      <3>2. /\ \A e : OnWire(up[k], e) =>
                  OnWire(up'[k], e) \/ (Head(up[k]).op = "update" /\ Head(up[k]).n = e)
            /\ Head(up[k]).op = "ready" => \A e \in Edits : OnWire(up[k], e) => Head(up[k]).n < e
        BY <1>0, <3>1, TailInOrder
      <3>3. Head(up[k]) \in Frames
        BY <3>1
      <3>4. sock'[k] = "editor" => Delivered(k)'
        <4> SUFFICES ASSUME sock'[k] = "editor" PROVE Delivered(k)'
          OBVIOUS
        <4>1. CASE ~IsCurrentSessionEditor(k)
          <5>1. sock[k] # "editor"
            <6>1. Seat(k)
              BY DEF Seats
            <6>. QED
              BY <4>1, <6>1 DEF Seat, IsCurrentSessionEditor
          <5>2. sent[k] = {}
            BY <1>0, <5>1 DEF SocketsMove, Unsent
          <5>. QED
            BY <3>1, <5>2 DEF Delivered
        <4>2. CASE /\ IsCurrentSessionEditor(k) /\ Head(up[k]).op = "update"
                   /\ lane' = Enqueued(lane, current, Command("update", Head(up[k]).n))
                   /\ UNCHANGED <<sock, frontier>>
          <5>1. Head(up[k]).n \in Edits /\ Head(up[k]).n \in Nat
            BY <3>3, <4>2, BoundsAssumption DEF Frames
          <5>2. PICK c \in Commands : /\ c = Command("update", Head(up[k]).n)
                                     /\ c.op = "update" /\ c.n = Head(up[k]).n
            BY <5>1, CommandType DEF LaneOps, Command
          <5>3. ASSUME NEW e, Head(up[k]).n = e PROVE OnLane(e)'
            BY <1>0, <4>2, <5>2, <5>3, JoinedOnLane DEF IsCurrentSessionEditor
          <5>4. Delivered(k)
            BY <4>2 DEF Delivery, ActiveEditors
          <5>. QED
            BY <2>0, <3>1, <3>2, <4>2, <5>3, <5>4 DEF Delivered
        <4>3. CASE /\ Head(up[k]).op = "ready" /\ UNCHANGED sock
                   /\ frontier'[k] \in {frontier[k], Head(up[k]).n}
          <5>1. Delivered(k)
            BY <4>3 DEF Delivery, ActiveEditors
          <5>2. ASSUME NEW e \in sent[k] PROVE ~OnLane(e)
            BY <1>0, <3>1, <5>2 DEF Busy, OnLane, Carries, LanesTyped
          <5>3. ASSUME NEW e \in sent[k], e <= Head(up[k]).n PROVE e \in acked
            <6>1. e \in Edits /\ e \in Nat /\ Head(up[k]).n \in Nat
              BY <1>0, <3>3, <5>3, BoundsAssumption DEF Edits, Frames
            <6>2. ~OnWire(up[k], e)
              BY <3>2, <4>3, <5>3, <6>1
            <6>. QED
              BY <5>1, <5>2, <5>3, <6>2 DEF Delivered
          <5>. QED
            BY <2>0, <3>1, <3>2, <4>3, <5>1, <5>3 DEF Delivered
        <4>. QED
          BY <1>0, <2>6, <4>1, <4>2, <4>3 DEF ServerReceive
      <3>. QED
        BY <1>0, <2>2, <3>1, <3>4
    <2>. QED
      BY <2>1, <2>3, <2>4, <2>5, <2>6 DEF WireStep
  <1>. QED
    BY <1>1, <1>2

(* What an acknowledged edit of an editor has come to: a decision, or a      *)
(* place in the live session's proposal or Y.Doc, until a restore is about   *)
(* to replace the document.                                                  *)
Placed(e) == e \in landed \cup rejected \cup draft[adopt[current]] \cup dirty[current]
HeldThere ==
    rpc # "locked" => \A k \in ActiveEditors : \A e \in sent[k] \cap acked : Placed(e)

(* Where no delete may be asked for, none is on a lane.                      *)
NeverDeleted == "delete" \notin Env => NoDeletes

LEMMA StepNeverDeleted ==
    ASSUME TypeOK, NeverDeleted, [Next]_vars
    PROVE  NeverDeleted'
  <1>1. "delete" \notin Env => ~DeleteRequest
    BY DEF DeleteRequest
  <1>. QED
    BY <1>1, StepUndeleted DEF NeverDeleted

(* A step that keeps the session, or leaves none, keeps its edits in place.  *)
LEMMA HeldStays ==
    ASSUME SocketsMove, Unsent, HeldThere, Seats', UNCHANGED sent, rpc # "locked",
           current' \in {0, current},
           current' = current => \A k \in ActiveEditors : \A e \in sent[k] \cap acked' :
                                    (e \in acked => Placed(e)) => Placed(e)'
    PROVE  HeldThere'
  <1> SUFFICES ASSUME NEW k \in Sockets, sock'[k] = "editor", NEW e \in sent[k] \cap acked'
               PROVE  Placed(e)'
    BY DEF HeldThere, ActiveEditors
  <1>1. sock[k] = "editor"
    BY DEF SocketsMove, Unsent
  <1>2. current' = current
    <2>1. Seat(k)'
      BY DEF Seats
    <2>. QED
      BY <2>1 DEF Seat
  <1>. QED
    BY <1>1, <1>2 DEF HeldThere, ActiveEditors

(* Edits that settle, are committed or are materialized have a place.        *)
LEMMA SettledInPlace ==
    ASSUME TypeOK, NEW s \in Sessions, NEW d, Settled(s, d), current \in Sessions,
           UNCHANGED <<current, landed, rejected, adopt>>
    PROVE  \A e : Placed(e) => Placed(e)'
  <1>1. /\ draft \in [Sessions -> SUBSET Edits] /\ dirty \in [Sessions -> SUBSET Edits]
        /\ adopt \in [Sessions -> Sessions]
    BY DEF TypeOK, ProposalsTyped
  <1>2. \A id \in Sessions : draft[id] \subseteq draft'[id]
    BY <1>1 DEF Settled
  <1>3. \A e \in dirty[current] : e \in dirty'[current] \cup draft'[adopt[current]]
    BY <1>1 DEF Settled
  <1>. QED
    BY <1>1, <1>2, <1>3 DEF Placed

LEMMA CommittedInPlace ==
    ASSUME TypeOK, NEW s \in Sessions, LaneCommit(s), current \in Sessions
    PROVE  \A e : Placed(e) => Placed(e)'
  <1>1. /\ draft \in [Sessions -> SUBSET Edits] /\ adopt \in [Sessions -> Sessions]
        /\ UNCHANGED <<current, rejected, adopt, dirty>>
    BY DEF TypeOK, ProposalsTyped, LaneCommit, sessionVars
  <1>2. CASE UNCHANGED <<draft, landed>>
    BY <1>1, <1>2 DEF Placed
  <1>3. CASE landed' = landed \cup draft[adopt[s]] /\ draft' = [draft EXCEPT ![adopt[s]] = {}]
    <2>1. \A e \in draft[adopt[current]] : e \in landed' \cup draft'[adopt[current]]
      BY <1>1, <1>3
    <2>. QED
      BY <1>1, <1>3, <2>1 DEF Placed
  <1>. QED
    BY <1>2, <1>3 DEF LaneCommit

LEMMA MaterializedInPlace ==
    ASSUME TypeOK, NEW s \in Sessions, LaneMaterialize(s), current \in Sessions
    PROVE  /\ \A e : Placed(e) => Placed(e)'
           /\ s = current => \A e \in acked' \ acked : Placed(e)'
  <1>1. /\ draft \in [Sessions -> SUBSET Edits] /\ dirty \in [Sessions -> SUBSET Edits]
        /\ adopt \in [Sessions -> Sessions]
        /\ UNCHANGED <<current, landed, rejected, adopt>>
    BY DEF TypeOK, ProposalsTyped, LaneMaterialize, sessionVars
  <1>2. CASE UNCHANGED <<draft, dirty, acked>>
    BY <1>1, <1>2 DEF Placed
  <1>3. CASE /\ acked' = AckedWith(Arg(s))
             /\ IF Arg(s) \in Structural
                THEN dirty' = [dirty EXCEPT ![s] = @ \cup {Arg(s)}] /\ UNCHANGED draft
                ELSE draft' = [draft EXCEPT ![adopt[s]] = @ \cup {Arg(s)}] /\ UNCHANGED dirty
    <2>1. /\ \A t \in Sessions : dirty[t] \subseteq dirty'[t] /\ draft[t] \subseteq draft'[t]
          /\ Arg(s) \in dirty'[s] \cup draft'[adopt[s]]
      BY <1>1, <1>3
    <2>2. \A e \in acked' \ acked : e = Arg(s)
      BY <1>3 DEF AckedWith
    <2>. QED
      BY <1>1, <2>1, <2>2 DEF Placed
  <1>. QED
    BY <1>2, <1>3 DEF LaneMaterialize

(* What an abandoned delete leaves in place: it had lost its proposal, since *)
(* no commit of it fails by itself and no restore holds the lock.            *)
LEMMA AbandonedInPlace ==
    ASSUME NeverDeleted, "delete" \notin Env \/ "delete_fails" \notin Env, rpc # "locked",
           NEW s \in Sessions, LaneDeleteAbandoned(s)
    PROVE  UNCHANGED <<current, draft, dirty, adopt, historyVars>>
  <1>1. "delete" \in Env
    BY NoDeleteRuns DEF NeverDeleted
  <1>. QED
    BY <1>1 DEF LaneDeleteAbandoned, sessionVars

(* A session that begins has editors that have sent nothing.                 *)
LEMMA BeginsHeld ==
    ASSUME TypeOK, SessionMaps, Seats, Unsent, NEW s \in Sessions, ConstructDone(s)
    PROVE  HeldThere'
  <1>1. current = 0
    <2>1. current # 0 => current \in Sessions
      BY BoundsAssumption DEF TypeOK, SessionsTyped, Sessions
    <2>. QED
      BY <2>1 DEF ConstructDone, SessionMaps, OneLiveSession
  <1>2. \A k \in Sockets : sock[k] # "editor"
    BY <1>1 DEF Seats, Seat
  <1>3. sent' = sent /\ \A k \in Sockets : sock'[k] = "editor" => sock[k] = "open"
    BY <1>2 DEF ConstructDone, Attach, historyVars
  <1>4. \A k \in Sockets : sock'[k] = "editor" => sent'[k] = {}
    BY <1>3 DEF Unsent
  <1>. QED
    BY <1>4 DEF HeldThere, ActiveEditors

(* Every step keeps the edits of the editors in place.                       *)
LEMMA StepHeldThere ==
    ASSUME TypeOK, SessionMaps, EditOwners, Seats, Seats', Made, Unsent, NeverDeleted, HeldThere,
           [Next]_vars, "delete" \notin Env \/ "delete_fails" \notin Env
    PROVE  HeldThere'
  <1>0. /\ SocketsMove /\ (current # 0 => current \in Sessions)
        /\ sock \in [Sockets -> SocketStates]
    BY StepSockets, BoundsAssumption DEF TypeOK, SessionsTyped, SocketsTyped, Sessions
  <1>1. ASSUME NEW p, Invalidated(p) PROVE HeldThere'
    <2>1. \A k \in Sockets : sock'[k] # "editor"
      BY <1>1 DEF Invalidated, OpenSockets
    <2>. QED
      BY <2>1 DEF HeldThere, ActiveEditors
  <1>2. CASE rpc' = "locked"
    BY <1>2 DEF HeldThere
  <1>3. CASE rpc = "locked" /\ rpc' # "locked"
    <2>1. RestoreLand
      BY <1>3, RestoreRests DEF RestoreBegin, RestoreStep, RestoreHandoff, RestoreLock
    <2>. QED
      BY <1>1, <2>1 DEF RestoreLand
  <1>4. CASE rpc # "locked"
    <2>1. ASSUME UNCHANGED sent, current' \in {0, current}, acked' = acked,
                 current' = current /\ current \in Sessions => \A e : Placed(e) => Placed(e)'
          PROVE  HeldThere'
      <3>1. ASSUME NEW k \in ActiveEditors PROVE current \in Sessions
        BY <1>0 DEF ActiveEditors, Seats, Seat
      <3>. QED
        BY <1>0, <1>4, <2>1, <3>1, HeldStays
    <2>2. ASSUME UNCHANGED <<draft, dirty, adopt, historyVars>>, current' \in {0, current}
          PROVE  HeldThere'
      BY <2>1, <2>2 DEF historyVars, Placed
    <2>3. ASSUME NEW s \in Sessions, LaneStep(s) PROVE HeldThere'
      <3>1. CASE LaneBoot(s) \/ LanePhase1(s) \/ LaneAbort(s) \/ LaneDelete(s)
        BY <2>2, <3>1 DEF LaneBoot, LanePhase1, LaneAbort, LaneDelete, sessionVars, proposalVars
      <3>2. CASE LaneSettleBadly(s) \/ LaneDeleteCommit(s)
        BY <1>1, <3>2 DEF LaneSettleBadly, LaneDeleteCommit
      <3>3. CASE LaneDeleteAbandoned(s)
        BY <1>4, <2>2, <3>3, AbandonedInPlace
      <3>4. CASE LaneSettle(s) \/ LaneQuiesce(s)
        <4>1. CASE \E p : Invalidated(p)
          BY <1>1, <4>1
        <4>2. CASE UNCHANGED <<dirty, draft, sessionVars, adopt, historyVars>>
          BY <2>2, <4>2 DEF sessionVars
        <4>3. CASE (\E d : Settled(s, d)) /\ UNCHANGED <<sessionVars, adopt, historyVars>>
          BY <2>1, <4>3, SettledInPlace DEF sessionVars, historyVars
        <4>. QED
          BY <3>4, <4>1, <4>2, <4>3 DEF LaneSettle, LaneQuiesce
      <3>5. CASE LaneCommit(s)
        <4>1. UNCHANGED <<sent, current, acked>>
          BY <3>5 DEF LaneCommit, sessionVars
        <4>. QED
          BY <2>1, <3>5, <4>1, CommittedInPlace
      <3>6. CASE LaneGate(s)
        <4>1. /\ UNCHANGED <<sent, current, draft, dirty, adopt, landed>>
              /\ rejected \subseteq rejected' /\ \A e \in acked' \ acked : e \in rejected'
          BY <3>6 DEF LaneGate, AckedWith, sessionVars, proposalVars
        <4>2. \A e : Placed(e) => Placed(e)'
          BY <4>1 DEF Placed
        <4>3. \A e \in acked' \ acked : Placed(e)'
          BY <4>1 DEF Placed
        <4>. QED
          BY <1>0, <1>4, <4>1, <4>2, <4>3, HeldStays
      <3>7. CASE LaneMaterialize(s)
        <4>1. UNCHANGED <<sent, current>>
          BY <3>7 DEF LaneMaterialize, sessionVars
        <4>2. PICK m \in Sockets : /\ Sender(Arg(s)) = {m} /\ sid[m] = s
                                   /\ acked' \subseteq acked \cup {Arg(s)}
          BY <3>7, AckedCommand
        <4>3. ASSUME NEW k \in ActiveEditors, NEW e \in sent[k] \cap acked', e \in acked => Placed(e)
              PROVE  Placed(e)'
          <5>1. sid[k] = current /\ current \in Sessions /\ k \in Sockets
            BY <1>0 DEF ActiveEditors, Seats, Seat
          <5>2. CASE e \in acked
            BY <3>7, <4>3, <5>1, <5>2, MaterializedInPlace
          <5>3. CASE e \notin acked
            <6>1. k = m
              BY <4>2, <4>3, <5>1, <5>3 DEF Sender
            <6>. QED
              BY <3>7, <4>2, <4>3, <5>1, <5>3, <6>1, MaterializedInPlace
          <5>. QED
            BY <5>2, <5>3
        <4>. QED
          BY <1>0, <1>4, <4>1, <4>3, HeldStays
      <3>. QED
        BY <2>3, <3>1, <3>2, <3>3, <3>4, <3>5, <3>6, <3>7 DEF LaneStep
    <2>4. ASSUME NEW s \in Sessions, ConstructRead(s) PROVE HeldThere'
      <3>1. UNCHANGED <<current, sent, acked, landed, rejected, draft, dirty>>
        BY <2>4 DEF ConstructRead, historyVars
      <3>2. current # s
        BY <2>4 DEF ConstructRead, SessionMaps, OneLiveSession
      <3>3. current \in Sessions => adopt'[current] = adopt[current]
        BY <2>4, <3>2 DEF ConstructRead, TypeOK, ProposalsTyped
      <3>. QED
        BY <2>1, <3>1, <3>3 DEF Placed
    <2>5. ASSUME NEW s \in Sessions, PauseTimeout(s) PROVE HeldThere'
      BY <2>2, <2>5 DEF PauseTimeout, sessionVars, proposalVars
    <2>6. ASSUME NEW k \in Sockets, ClientEdit(k) PROVE HeldThere'
      <3>1. /\ sent' = [sent EXCEPT ![k] = @ \cup {nEdits + 1}]
            /\ UNCHANGED <<sock, rpc, current, acked, landed, rejected, draft, dirty, adopt>>
        BY <2>6 DEF ClientEdit, sessionVars, proposalVars, restoreVars, socketVars
      <3>2. nEdits + 1 \notin acked
        BY BoundsAssumption DEF Made, TypeOK, HistoryTyped
      <3>3. \A m \in Sockets : sent'[m] \cap acked = sent[m] \cap acked
        BY <3>1, <3>2 DEF TypeOK, HistoryTyped
      <3>. QED
        BY <3>1, <3>3 DEF HeldThere, ActiveEditors, Placed
    <2>7. ASSUME NEW k \in Sockets, Connect(k) \/ Acquire(k) \/ ServerReceive(k)
                                    \/ ClientReceive(k) \/ ClientReady(k)
          PROVE  HeldThere'
      <3>1. UNCHANGED <<current, sent, acked, landed, rejected, draft, dirty, adopt>>
        BY <2>7 DEF Connect, Acquire, ServerReceive, ClientReceive, ClientReady, Attach,
                    sessionVars, proposalVars, historyVars
      <3>. QED
        BY <2>1, <3>1 DEF Placed
    <2>8. ASSUME NEW k \in Sockets, CloseEvent(k) \/ LeaveDone(k) PROVE HeldThere'
      <3>1. UNCHANGED <<sent, acked, landed, rejected, draft, dirty, adopt>>
        BY <2>8 DEF CloseEvent, LeaveDone, proposalVars, historyVars
      <3>2. current' \in {0, current}
        BY <2>8 DEF CloseEvent, LeaveDone, ReleaseDocSession, SessionGone, sessionVars
      <3>. QED
        BY <2>1, <3>1, <3>2 DEF Placed
    <2>9. CASE (\E a \in Attempts : RunAttempt(a)) \/ Request \/ UNCHANGED vars
      BY <2>2, <2>9 DEF RunAttempt, Request, ForcePublish, QuiesceFire, DeleteRequest,
                        RestoreBegin, sessionVars, proposalVars, vars
    <2>10. CASE RestoreStep
      BY <1>1, <2>2, <2>10 DEF RestoreStep, RestoreHandoff, RestoreLock, RestoreLand,
                               sessionVars, proposalVars
    <2>. QED
      BY <2>3, <2>4, <2>5, <2>6, <2>7, <2>8, <2>9, <2>10, BeginsHeld
         DEF Next, SessionStep, SocketStep
  <1>. QED
    BY <1>2, <1>3, <1>4

(* An attempt that is about to commit gets that outcome only from its own    *)
(* command, which lands the proposal's edits and finds no restore in the way. *)
LEMMA CommitLands ==
    ASSUME TypeOK, AllBooks, Undecided, NEW s \in Sessions, Running(s, "commit"),
           aout'[Arg(s)] = "committed", [Next]_vars
    PROVE  rpc # "locked" /\ landed' = landed \cup draft[adopt[s]]
  <1> DEFINE a == Arg(s)
  <1>1. a \in Attempts /\ asess[a] = s /\ apc[a] = "finalizing"
    BY RunningAttempt DEF Running, PublishOps, Stage
  <1>2. aout[a] = "none" /\ aout \in [Attempts -> Outcomes]
    BY <1>1 DEF Undecided, TypeOK, AttemptsTyped
  <1>3. aout' # aout
    BY <1>2
  <1>4. \A b, o : Finish(b, o) => b = a /\ o = "committed"
    BY <1>1, <1>2 DEF Finish
  <1>5. ASSUME NEW t \in Sessions, LaneStep(t) PROVE LaneCommit(t) /\ t = s
    <2>1. ~LaneBoot(t) /\ ~LaneGate(t) /\ ~LaneMaterialize(t) /\ ~LaneQuiesce(t) /\ ~LaneDelete(t)
          /\ ~LaneDeleteCommit(t) /\ ~LaneDeleteAbandoned(t)
      BY <1>3 DEF LaneBoot, LaneGate, LaneMaterialize, LaneQuiesce, LaneDelete,
                  LaneDeleteCommit, LaneDeleteAbandoned, attemptVars
    <2>2. ~LanePhase1(t) /\ ~LaneAbort(t) /\ ~LaneSettle(t) /\ ~LaneSettleBadly(t)
      BY <1>3, <1>4 DEF LanePhase1, LaneAbort, LaneSettle, LaneSettleBadly, EndAttempt, attemptVars
    <2>3. LaneCommit(t)
      BY <1>5, <2>1, <2>2 DEF LaneStep
    <2>4. Arg(t) = a /\ Running(t, "commit")
      BY <1>4, <2>3 DEF LaneCommit, EndAttempt
    <2>5. asess[Arg(t)] = t
      BY <2>4, RunningAttempt DEF Running, PublishOps
    <2>. QED
      BY <1>1, <2>3, <2>4, <2>5
  <1>6. \E t \in Sessions : LaneStep(t)
    <2>1. ASSUME NEW t \in Sessions PROVE ~ConstructRead(t) /\ ~ConstructDone(t) /\ ~PauseTimeout(t)
      BY <1>3 DEF ConstructRead, ConstructDone, PauseTimeout, PauseStep, attemptVars
    <2>2. ASSUME NEW k \in Sockets PROVE ~SocketStep(k)
      BY <1>3 DEF SocketStep, Connect, Acquire, ServerReceive, CloseEvent, LeaveDone, ClientEdit,
                  ClientReceive, ClientReady, PauseStep, NewAttempt, attemptVars
    <2>3. ~(\E b \in Attempts : RunAttempt(b)) /\ ~Request /\ ~RestoreStep /\ ~UNCHANGED vars
      BY <1>3 DEF RunAttempt, Request, ForcePublish, QuiesceFire, DeleteRequest, RestoreBegin,
                  RestoreStep, RestoreHandoff, RestoreLock, RestoreLand, NewAttempt, attemptVars,
                  vars
    <2>. QED
      BY <2>1, <2>2, <2>3 DEF Next, SessionStep
  <1>7. LaneCommit(s)
    BY <1>5, <1>6
  <1>. QED
    BY <1>4, <1>7 DEF LaneCommit, EndAttempt

(* A publish commits only with the acks of all editors it asked that are     *)
(* still connected, and takes in everything each of them had sent before its *)
(* ack: updates and acks share the socket's ordered wire, an ack is counted  *)
(* only after the updates before it are through the lane, and what they left *)
(* in the Y.Doc is settled before the commit.  A delete whose own commit     *)
(* fails gives the proposal back without its content, and the next publish   *)
(* misses it.                                                                *)
THEOREM CommitsCover ==
    ASSUME "delete" \notin Env \/ "delete_fails" \notin Env
    PROVE  Spec => CommitCoversFrontier
<1> DEFINE Covering == /\ EditOwners /\ AllBooks /\ Seats /\ Tidy /\ AcksIn /\ OwnAcks
                       /\ ChainInOrder /\ Undecided /\ Made /\ SentInOrder /\ Unsent /\ Delivery
                       /\ NeverDeleted /\ HeldThere
<1>1. Init => Covering
  <2> SUFFICES ASSUME Init PROVE Covering
    OBVIOUS
  <2>1. EditOwners
    BY DEF Init, EditOwners, OneSender, AttachedOnce, FramesOwned, LanesOwned
  <2>2. Seats /\ Tidy
    BY DEF Init, Seats, Seat, Tidy, CommitAlone
  <2>3. AcksIn /\ OwnAcks
    BY DEF Init, AcksIn, GoesOn, OwnAcks, IdlePause
  <2>4. Undecided /\ Unsent /\ NeverDeleted /\ ChainInOrder
    BY BoundsAssumption DEF Init, Undecided, Unsent, NeverDeleted, NoDeletes, ChainInOrder, Attempts
  <2>5. Made /\ SentInOrder
    BY DEF Init, Made, MadeBefore, SentInOrder, InOrder
  <2>6. Delivery /\ HeldThere
    BY DEF Init, Delivery, HeldThere, ActiveEditors
  <2>. QED
    BY <2>1, <2>2, <2>3, <2>4, <2>5, <2>6, InitBooks
<1>2. TypeOK /\ SessionMaps /\ Covering /\ [Next]_vars => Covering'
  <2> SUFFICES ASSUME TypeOK, SessionMaps, Covering, [Next]_vars PROVE Covering'
    OBVIOUS
  <2>1. EditOwners'
    BY SessionStepOwned, SocketStepOwned, OtherStepOwned DEF Next
  <2>2. AllBooks' /\ Seats' /\ Tidy' /\ ChainInOrder'
    BY StepBooks, StepSeats, StepTidy, ChainStep
  <2>3. AcksIn' /\ OwnAcks' /\ Undecided' /\ NeverDeleted'
    BY StepAcks, StepUndecided, StepNeverDeleted
  <2>4. Made' /\ SentInOrder' /\ Unsent' /\ Delivery'
    BY StepWires, StepDelivery
  <2>5. HeldThere'
    BY <2>2, StepHeldThere
  <2>. QED
    BY <2>1, <2>2, <2>3, <2>4, <2>5
<1>3. TypeOK /\ SessionMaps /\ Covering /\ [Next]_vars
      => [\A s \in Sessions, a \in Attempts : Committing(s, a) =>
            \A k \in pause[s].required \cap OpenSockets :
               /\ k \in pause[s].acked
               /\ \A e \in sent[k] : e <= frontier[k] => e \in landed' \cup rejected]_vars
  <2> SUFFICES ASSUME TypeOK, Covering, [Next]_vars, NEW s \in Sessions, NEW a \in Attempts,
                      Committing(s, a), NEW k \in pause[s].required \cap OpenSockets
               PROVE  /\ k \in pause[s].acked
                      /\ \A e \in sent[k] : e <= frontier[k] => e \in landed' \cup rejected
    OBVIOUS
  <2>1. /\ Running(s, "commit") /\ lane[s] \in Seq(Commands) /\ 1 \in DOMAIN lane[s]
        /\ lane[s][1] = Head(lane[s]) /\ Head(lane[s]).op = "commit"
    BY DEF Committing, Running, TypeOK, LanesTyped
  <2>2. k \in pause[s].acked
    BY <2>1 DEF AcksIn, GoesOn, AllAcked
  <2>3. sid[k] = s /\ sid[k] # 0
    BY <2>2, BoundsAssumption DEF OwnAcks, Sessions
  <2>4. k \in ActiveEditors /\ current = s
    BY <2>3 DEF Seats, Seat, OpenSockets, ActiveEditors
  <2>5. rpc # "locked" /\ landed' = landed \cup draft[adopt[s]] /\ dirty[s] = {}
    BY <2>1, CommitLands DEF Committing, Tidy, CommitAlone
  <2>6. ASSUME NEW e \in sent[k], e <= frontier[k] PROVE e \in landed' \cup rejected
    <3>1. e \in acked
      BY <2>4, <2>6 DEF Delivery, Delivered
    <3>. QED
      BY <2>4, <2>5, <3>1 DEF HeldThere, Placed
  <2>. QED
    BY <2>2, <2>6
<1>. QED
  BY <1>1, <1>2, <1>3, TypeCorrect, MapsHold, PTL DEF Spec, CommitCoversFrontier

=============================================================================
