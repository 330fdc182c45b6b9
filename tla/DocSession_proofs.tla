-------------------------- MODULE DocSession_proofs --------------------------
(***************************************************************************)
(* Proofs about DocSession for any number of sockets, sessions, publish    *)
(* attempts and edits, and whatever the environment may do (Env).          *)
(***************************************************************************)
EXTENDS DocSession, FiniteSetTheorems, TLAPS

-----------------------------------------------------------------------------
(* What the operations of the pause and of the lane return.                  *)

(* Each method of the publish pause leaves a well-formed pause.              *)
LEMMA PauseTypes ==
    ASSUME NEW p \in Pauses, NEW k \in Sockets, NEW ks \in SUBSET Sockets, NEW w \in Nat
    PROVE  /\ IdlePause \in Pauses
           /\ PauseStarted(ks, w) \in Pauses
           /\ PauseMarkReady(p, k) \in Pauses
           /\ PauseSocketLost(p, k) \in Pauses
           /\ PauseTimedOut(p) \in Pauses
           /\ PauseEnded(p) \in Pauses
  BY DEF Pauses, PauseStates, IdlePause, PauseStarted, PauseMarkReady, PauseSettled,
         PauseSocketLost, PauseTimedOut, PauseEnded

(* A pause that resumes an attempt has settled.                              *)
LEMMA PauseResumesSettled ==
    ASSUME NEW p \in Pauses, NEW q \in Pauses, PauseResumes(p, q) # 0
    PROVE  PauseResumes(p, q) \in Nat /\ q.state \in {"ready", "aborted"}
  BY DEF PauseResumes, Pauses

(* A command put at the end of a lane leaves lanes of commands.             *)
LEMMA EnqueuedType ==
    ASSUME NEW l \in [Sessions -> Seq(Commands)], NEW s \in Sessions, NEW c \in Commands
    PROVE  Enqueued(l, s, c) \in [Sessions -> Seq(Commands)]
  BY DEF Enqueued

(* The head of a lane that is not empty can be taken off it.                *)
LEMMA PoppedType ==
    ASSUME NEW l \in [Sessions -> Seq(Commands)], NEW s \in Sessions, l[s] # << >>
    PROVE  Popped(l, s) \in [Sessions -> Seq(Commands)]
  BY DEF Popped

(* A running command may be replaced by its continuation.                   *)
LEMMA ContinuedType ==
    ASSUME NEW l \in [Sessions -> Seq(Commands)], NEW s \in Sessions, l[s] # << >>,
           NEW c \in Commands
    PROVE  Continued(l, s, c) \in [Sessions -> Seq(Commands)]
  <1>1. <<c>> \in Seq(Commands)
    OBVIOUS
  <1>2. Tail(l[s]) \in Seq(Commands)
    OBVIOUS
  <1>3. <<c>> \o Tail(l[s]) \in Seq(Commands)
    BY <1>1, <1>2
  <1>. QED
    BY <1>3 DEF Continued

(* What runs on a lane is a command.                                        *)
LEMMA HeadType ==
    ASSUME NEW l \in [Sessions -> Seq(Commands)], NEW s \in Sessions, l[s] # << >>
    PROVE  Head(l[s]) \in Commands
  OBVIOUS

(* A command built for an attempt, or for nothing, is a command.             *)
LEMMA CommandType ==
    ASSUME NEW op \in LaneOps, NEW n \in Nat,
           op \in {"update", "materialize"} => n \in Edits
    PROVE  Command(op, n) \in Commands
  BY DEF Command, Commands

(* What a frame makes of the client's phase is a phase.                      *)
LEMMA PhaseType ==
    ASSUME NEW ph \in ClientPhases, NEW f \in Notices
    PROVE  PhaseAfter(ph, f) \in ClientPhases
  BY Zenon DEF PhaseAfter, ClientPhases, Notices

(* A broadcast appends a notice to the queues of the open sockets.          *)
LEMMA BroadcastType ==
    ASSUME NEW f \in Notices, NEW d \in [Sockets -> Seq(Notices)]
    PROVE  Broadcast(d, f) \in [Sockets -> Seq(Notices)]
  BY DEF Broadcast

(* Closing sockets from the server leaves socket states.                    *)
LEMMA ClosedByServerType ==
    ASSUME SocketsTyped, NEW ks, ClosedByServer(ks)
    PROVE  sock' \in [Sockets -> SocketStates]
  BY DEF SocketsTyped, ClosedByServer, OpenSockets, SocketStates

(* What the shared parts of the actions leave well-typed.                    *)
LEMMA LaneAfterType ==
    ASSUME LanesTyped, PausesTyped, NEW s \in Sessions, NEW q \in Pauses
    PROVE  LaneAfter(s, q) \in [Sessions -> Seq(Commands)]
  <1> DEFINE a == PauseResumes(pause[s], q)
  <1>1. CASE a = 0
    BY <1>1 DEF LaneAfter, LanesTyped
  <1>2. CASE a # 0
    <2>1. a \in Nat /\ q.state \in {"ready", "aborted"}
      BY <1>2, PauseResumesSettled DEF PausesTyped
    <2>2. Command(q.state, a) \in Commands
      BY <2>1, CommandType DEF LaneOps
    <2>. QED
      BY <1>2, <2>2, EnqueuedType DEF LaneAfter, LanesTyped
  <1>. QED
    BY <1>1, <1>2

(* ... and the attempt it resumes is at a known place.                      *)
LEMMA ApcAfterType ==
    ASSUME AttemptsTyped, NEW s \in Sessions, NEW q \in Pauses
    PROVE  ApcAfter(s, q) \in [Attempts -> AttemptStates]
  BY DEF ApcAfter, AttemptsTyped, AttemptStates

(* A step of the pause keeps lanes, pauses and attempts typed.              *)
LEMMA PauseStepType ==
    ASSUME TypeOK, NEW s \in Sessions, NEW q \in Pauses, PauseStep(s, q)
    PROVE  LanesTyped' /\ PausesTyped' /\ AttemptsTyped'
  <1>1. LanesTyped'
    BY LaneAfterType DEF TypeOK, PauseStep, LanesTyped
  <1>2. AttemptsTyped'
    BY ApcAfterType DEF TypeOK, PauseStep, AttemptsTyped
  <1>. QED
    BY <1>1, <1>2 DEF TypeOK, PauseStep, PausesTyped

(* Chaining a new publish attempt keeps the attempts typed.                 *)
LEMMA NewAttemptType ==
    ASSUME AttemptsTyped, NEW s \in Sessions, NEW pc \in [Attempts -> AttemptStates],
           NewAttempt(s, pc)
    PROVE  AttemptsTyped' /\ nAttempts + 1 \in 0..MaxAttempts
  BY BoundsAssumption DEF NewAttempt, AttemptsTyped, AttemptStates, Attempts, Sessions

(* Ending an attempt with one of the outcomes keeps them typed.             *)
LEMMA FinishType ==
    ASSUME AttemptsTyped, NEW a, NEW o \in Outcomes, Finish(a, o)
    PROVE  AttemptsTyped'
  <1>1. chain' \in 0..MaxAttempts
    BY BoundsAssumption DEF Finish, AttemptsTyped
  <1>2. apc' \in [Attempts -> AttemptStates]
    BY DEF Finish, AttemptsTyped, AttemptStates
  <1>3. aout' \in [Attempts -> Outcomes]
    BY DEF Finish, AttemptsTyped
  <1>. QED
    BY <1>1, <1>2, <1>3 DEF Finish, AttemptsTyped

(* The finally block of finalizeAndEnd keeps what it touches typed.         *)
LEMMA EndAttemptType ==
    ASSUME TypeOK, NEW s \in Sessions, lane[s] # << >>, NEW a, NEW o \in Outcomes,
           EndAttempt(s, a, o)
    PROVE  /\ AttemptsTyped' /\ LanesTyped' /\ PausesTyped'
           /\ down' \in [Sockets -> Seq(Notices)]
  <1>1. AttemptsTyped'
    BY FinishType DEF TypeOK, EndAttempt
  <1>2. LanesTyped'
    BY PoppedType DEF TypeOK, LanesTyped, EndAttempt
  <1>3. PausesTyped'
    BY PauseTypes DEF TypeOK, PausesTyped, EndAttempt, PauseEnded, IdlePause, Pauses,
       PauseStates
  <1>4. down' \in [Sockets -> Seq(Notices)]
    BY BroadcastType DEF TypeOK, WireTyped, EndAttempt, Notices
  <1>. QED
    BY <1>1, <1>2, <1>3, <1>4

(* Tearing a session down keeps the session maps typed.                     *)
LEMMA SessionGoneType ==
    ASSUME SessionsTyped, NEW s \in Sessions, SessionGone(s), UNCHANGED <<holders, deleting>>
    PROVE  SessionsTyped'
  BY BoundsAssumption DEF SessionsTyped, SessionGone, SessionStates

(* Closing every socket of the document keeps sockets and maps typed.       *)
LEMMA InvalidatedType ==
    ASSUME SessionsTyped, SocketsTyped, NEW p \in [Sessions -> Pauses], Invalidated(p),
           deleting' \in BOOLEAN
    PROVE  SessionsTyped' /\ SocketsTyped' /\ PausesTyped'
  <1>1. SocketsTyped'
    BY DEF Invalidated, SocketsTyped, SocketStates, OpenSockets
  <1>2. CASE current = 0
    BY <1>1, <1>2 DEF Invalidated, SessionsTyped, PausesTyped
  <1>3. CASE current # 0
    <2>1. current \in Sessions
      BY <1>3, BoundsAssumption DEF SessionsTyped, Sessions
    <2>2. SessionsTyped'
      BY <1>3, <2>1, BoundsAssumption
         DEF Invalidated, SessionGone, SessionsTyped, SessionStates
    <2>3. PausesTyped'
      BY <1>3, <2>1 DEF Invalidated, PausesTyped, PauseEnded, IdlePause, Pauses, PauseStates
    <2>. QED
      BY <1>1, <2>2, <2>3
  <1>. QED
    BY <1>2, <1>3

(* Attaching sockets to a session keeps sockets, holders, lanes typed.      *)
LEMMA AttachType ==
    ASSUME TypeOK, NEW ks \in SUBSET Sockets, NEW s \in Sessions, Attach(ks, s)
    PROVE  /\ SocketsTyped' /\ LanesTyped'
           /\ holders' \in [Sessions -> SUBSET Sockets]
  <1>1. SocketsTyped'
    BY BoundsAssumption DEF TypeOK, Attach, SocketsTyped, SocketStates, Sessions
  <1>2. [op |-> "boot", n |-> 0, ks |-> ks] \in Commands
    BY DEF Commands, LaneOps
  <1>3. LanesTyped'
    BY <1>2, EnqueuedType DEF TypeOK, Attach, LanesTyped
  <1>. QED
    BY <1>1, <1>3 DEF TypeOK, Attach, SessionsTyped

(* releaseDocSession keeps the session maps typed.                          *)
LEMMA ReleaseType ==
    ASSUME SessionsTyped, NEW k \in Sockets, ReleaseDocSession(k), UNCHANGED deleting
    PROVE  SessionsTyped'
  <1>1. CASE current = 0
    BY <1>1 DEF ReleaseDocSession, SessionsTyped, sessionVars
  <1>2. CASE current # 0
    <2>1. current \in Sessions
      BY <1>2, BoundsAssumption DEF SessionsTyped, Sessions
    <2>. QED
      BY <1>2, <2>1, BoundsAssumption
         DEF ReleaseDocSession, SessionGone, SessionsTyped, SessionStates
  <1>. QED
    BY <1>1, <1>2

(* Settling moves edits from the Y.Doc to the proposal.                     *)
LEMMA SettledType ==
    ASSUME ProposalsTyped, NEW s \in Sessions, NEW d \in SUBSET Edits, Settled(s, d),
           UNCHANGED <<adopt, bound, inprog, tomb>>
    PROVE  ProposalsTyped'
  BY DEF ProposalsTyped, Settled

(* Variables a step leaves alone keep their types.                           *)
LEMMA Untouched ==
    ASSUME TypeOK
    PROVE  /\ UNCHANGED <<sessionVars, armed, deleting>> => SessionsTyped'
           /\ UNCHANGED lane => LanesTyped'
           /\ UNCHANGED pause => PausesTyped'
           /\ UNCHANGED proposalVars => ProposalsTyped'
           /\ UNCHANGED attemptVars => AttemptsTyped'
           /\ UNCHANGED socketVars => SocketsTyped'
           /\ UNCHANGED wireVars => WireTyped'
           /\ UNCHANGED restoreVars => RestoreTyped'
           /\ UNCHANGED historyVars => HistoryTyped'
  BY DEF TypeOK, SessionsTyped, LanesTyped, PausesTyped, ProposalsTyped, AttemptsTyped,
         SocketsTyped, WireTyped, RestoreTyped, HistoryTyped, sessionVars, proposalVars,
         attemptVars, socketVars, wireVars, restoreVars, historyVars

-----------------------------------------------------------------------------
(* Every variable keeps its type.                                            *)
LEMMA ConnectTyped ==
    ASSUME TypeOK, NEW k \in Sockets, Connect(k)
    PROVE  TypeOK'
  <1>1. SocketsTyped'
    BY DEF TypeOK, Connect, SocketsTyped, SocketStates
  <1>. QED
    BY <1>1, Untouched DEF TypeOK, Connect

(* Acquire keeps every variable in its type.                                *)
LEMMA AcquireTyped ==
    ASSUME TypeOK, NEW k \in Sockets, Acquire(k)
    PROVE  TypeOK'
  <1>1. SessionsTyped' /\ SocketsTyped' /\ LanesTyped'
    <2>1. CASE MustConstruct /\ nSessions < MaxSessions
              /\ nSessions' = nSessions + 1 /\ promised' = nSessions + 1
              /\ sstate' = [sstate EXCEPT ![nSessions + 1] = "acquiring"]
              /\ acq' = [acq EXCEPT ![k] = "wait"]
              /\ UNCHANGED <<current, holders, lane, sock, sid, waits>>
      <3>1. nSessions + 1 \in 0..MaxSessions
        BY <2>1, BoundsAssumption DEF TypeOK, SessionsTyped
      <3>2. SessionsTyped'
        BY <2>1, <3>1 DEF TypeOK, Acquire, SessionsTyped, SessionStates
      <3>3. SocketsTyped' /\ LanesTyped'
        BY <2>1 DEF TypeOK, Acquire, SocketsTyped, LanesTyped
      <3>. QED
        BY <3>2, <3>3
    <2>2. CASE /\ acq' = [acq EXCEPT ![k] = "wait"]
               /\ UNCHANGED <<sessionVars, lane, sock, sid, waits>>
      BY <2>2 DEF TypeOK, Acquire, SessionsTyped, SocketsTyped, LanesTyped, sessionVars
    <2>3. CASE /\ promised # 0
               /\ Attach({k}, promised)
               /\ UNCHANGED <<sstate, current, promised, nSessions>>
      <3>1. promised \in Sessions
        BY <2>3, BoundsAssumption DEF TypeOK, SessionsTyped, Sessions
      <3>2. /\ SocketsTyped' /\ LanesTyped'
            /\ holders' \in [Sessions -> SUBSET Sockets]
        BY <2>3, <3>1, AttachType
      <3>. QED
        BY <2>3, <3>2 DEF TypeOK, Acquire, SessionsTyped
    <2>4. CASE /\ acq' = [acq EXCEPT ![k] = "none"]
               /\ ClosedByServer({k})
               /\ UNCHANGED <<sessionVars, lane, sid, waits>>
      <3>1. sock' \in [Sockets -> SocketStates]
        BY <2>4, ClosedByServerType DEF TypeOK
      <3>. QED
        BY <2>4, <3>1 DEF TypeOK, Acquire, SessionsTyped, SocketsTyped, LanesTyped, sessionVars
    <2>. QED
      BY <2>1, <2>2, <2>3, <2>4 DEF Acquire
  <1>. QED
    BY <1>1, Untouched DEF TypeOK, Acquire

(* ConstructRead keeps every variable in its type.                          *)
LEMMA ConstructReadTyped ==
    ASSUME TypeOK, NEW s \in Sessions, ConstructRead(s)
    PROVE  TypeOK'
  <1>1. SessionsTyped'
    BY DEF TypeOK, ConstructRead, SessionsTyped, SessionStates
  <1>2. ProposalsTyped'
    <2>1. adopt' \in [Sessions -> Sessions]
      BY DEF TypeOK, ConstructRead, ProposalsTyped
    <2>2. bound' \in [Sessions -> BOOLEAN]
      BY Zenon DEF TypeOK, ConstructRead, ProposalsTyped
    <2>. QED
      BY <2>1, <2>2 DEF TypeOK, ConstructRead, ProposalsTyped
  <1>3. SocketsTyped'
    <2>1. CASE ClosedByServer(Acquirers)
                 /\ acq' = [k \in Sockets |-> IF k \in Acquirers THEN "none" ELSE acq[k]]
      BY <2>1, ClosedByServerType DEF TypeOK, ConstructRead, SocketsTyped
    <2>2. CASE UNCHANGED <<acq, sock>>
      BY <2>2 DEF TypeOK, ConstructRead, SocketsTyped
    <2>. QED
      BY <2>1, <2>2 DEF ConstructRead
  <1>. QED
    BY <1>1, <1>2, <1>3, Untouched DEF TypeOK, ConstructRead

(* ConstructDone keeps every variable in its type.                          *)
LEMMA ConstructDoneTyped ==
    ASSUME TypeOK, NEW s \in Sessions, ConstructDone(s)
    PROVE  TypeOK'
  <1>1. Acquirers \in SUBSET Sockets
    BY DEF Acquirers
  <1>2. SocketsTyped' /\ LanesTyped'
    BY <1>1, AttachType DEF ConstructDone
  <1>3. SessionsTyped'
    <2>1. holders' \in [Sessions -> SUBSET Sockets]
      BY <1>1, AttachType DEF ConstructDone
    <2>. QED
      BY <2>1, BoundsAssumption DEF TypeOK, ConstructDone, SessionsTyped, SessionStates, Sessions
  <1>. QED
    BY <1>1, <1>2, <1>3, Untouched DEF TypeOK, ConstructDone

(* PauseTimeout keeps every variable in its type.                           *)
LEMMA PauseTimeoutTyped ==
    ASSUME TypeOK, NEW s \in Sessions, PauseTimeout(s)
    PROVE  TypeOK'
  <1>1. LanesTyped' /\ PausesTyped' /\ AttemptsTyped'
    <2>1. PauseTimedOut(pause[s]) \in Pauses
      BY DEF TypeOK, PausesTyped, PauseTimedOut, PauseSettled, Pauses, PauseStates
    <2>. QED
      BY <2>1, PauseStepType DEF PauseTimeout
  <1>. QED
    BY <1>1, Untouched DEF TypeOK, PauseTimeout

(* LaneBoot keeps every variable in its type.                               *)
LEMMA LaneBootTyped ==
    ASSUME TypeOK, NEW s \in Sessions, LaneBoot(s)
    PROVE  TypeOK'
  <1>1. LanesTyped'
    BY PoppedType DEF TypeOK, LanesTyped, Running, LaneBoot
  <1>2. WireTyped'
    BY DEF TypeOK, LaneBoot, WireTyped, Notices
  <1>. QED
    BY <1>1, <1>2, Untouched DEF TypeOK, LaneBoot

(* LaneGate keeps every variable in its type.                               *)
LEMMA LaneGateTyped ==
    ASSUME TypeOK, NEW s \in Sessions, LaneGate(s)
    PROVE  TypeOK'
  <1>1. Arg(s) \in Edits
    <2>1. lane[s] # << >> /\ Head(lane[s]).op = "update"
      BY DEF LaneGate, Running
    <2>2. Head(lane[s]) \in Commands
      BY <2>1, HeadType DEF TypeOK, LanesTyped
    <2>. QED
      BY <2>1, <2>2 DEF Arg, Commands
  <1>2. LanesTyped'
    <2>1. lane[s] # << >>
      BY DEF LaneGate, Running
    <2>2. Command("materialize", Arg(s)) \in Commands
      BY <1>1, BoundsAssumption DEF Command, Commands, LaneOps, Edits
    <2>3. /\ Popped(lane, s) \in [Sessions -> Seq(Commands)]
          /\ Continued(lane, s, Command("materialize", Arg(s))) \in [Sessions -> Seq(Commands)]
      BY <2>1, <2>2, PoppedType, ContinuedType DEF TypeOK, LanesTyped
    <2>. QED
      BY <2>3 DEF LaneGate, LanesTyped
  <1>3. SocketsTyped'
    BY ClosedByServerType DEF TypeOK, LaneGate, SocketsTyped
  <1>4. HistoryTyped'
    BY <1>1 DEF TypeOK, LaneGate, HistoryTyped, AckedWith
  <1>. QED
    BY <1>1, <1>2, <1>3, <1>4, Untouched DEF TypeOK, LaneGate

(* LaneMaterialize keeps every variable in its type.                        *)
LEMMA LaneMaterializeTyped ==
    ASSUME TypeOK, NEW s \in Sessions, LaneMaterialize(s)
    PROVE  TypeOK'
  <1>1. Arg(s) \in Edits
    <2>1. lane[s] # << >> /\ Head(lane[s]).op = "materialize"
      BY DEF LaneMaterialize, Running
    <2>2. Head(lane[s]) \in Commands
      BY <2>1, HeadType DEF TypeOK, LanesTyped
    <2>. QED
      BY <2>1, <2>2 DEF Arg, Commands
  <1>2. LanesTyped'
    BY PoppedType DEF TypeOK, LanesTyped, Running, LaneMaterialize
  <1>3. SocketsTyped'
    BY ClosedByServerType DEF TypeOK, LaneMaterialize, SocketsTyped
  <1>4. HistoryTyped'
    BY <1>1 DEF TypeOK, LaneMaterialize, HistoryTyped, AckedWith
  <1>5. SessionsTyped'
    BY BoundsAssumption DEF TypeOK, LaneMaterialize, SessionsTyped, Sessions, sessionVars
  <1>6. ProposalsTyped'
    <2>1. bound' \in [Sessions -> BOOLEAN]
      BY DEF TypeOK, LaneMaterialize, ProposalsTyped
    <2>2. dirty' \in [Sessions -> SUBSET Edits] /\ draft' \in [Sessions -> SUBSET Edits]
      BY <1>1 DEF TypeOK, LaneMaterialize, ProposalsTyped
    <2>3. inprog' \subseteq Sessions
      BY DEF TypeOK, LaneMaterialize, ProposalsTyped
    <2>. QED
      BY <2>1, <2>2, <2>3 DEF TypeOK, LaneMaterialize, ProposalsTyped
  <1>. QED
    BY <1>1, <1>2, <1>3, <1>4, <1>5, <1>6, Untouched DEF TypeOK, LaneMaterialize

(* LanePhase1 keeps every variable in its type.                             *)
LEMMA LanePhase1Typed ==
    ASSUME TypeOK, NEW s \in Sessions, LanePhase1(s)
    PROVE  TypeOK'
  <1>1. Arg(s) \in Nat
    <2>1. Head(lane[s]) \in Commands
      BY HeadType DEF TypeOK, LanesTyped, LanePhase1, Running
    <2>. QED
      BY <2>1 DEF Arg, Commands
  <1>2. AttemptsTyped'
    <2>1. CASE Finish(Arg(s), "noop")
      BY <2>1, FinishType DEF TypeOK, Outcomes
    <2>2. CASE /\ \/ apc' = [apc EXCEPT ![Arg(s)] = "finalizing"]
                  \/ apc' = [apc EXCEPT ![Arg(s)] = "waiting"]
               /\ UNCHANGED <<nAttempts, asess, aprev, chain, aout>>
      BY <2>2 DEF TypeOK, AttemptsTyped, AttemptStates
    <2>. QED
      BY <2>1, <2>2 DEF LanePhase1
  <1>3. LanesTyped'
    <2>1. lane[s] # << >>
      BY DEF LanePhase1, Running
    <2>2. Command("ready", Arg(s)) \in Commands
      BY <1>1, CommandType DEF LaneOps
    <2>3. /\ Popped(lane, s) \in [Sessions -> Seq(Commands)]
          /\ Continued(lane, s, Command("ready", Arg(s))) \in [Sessions -> Seq(Commands)]
      BY <2>1, <2>2, PoppedType, ContinuedType DEF TypeOK, LanesTyped
    <2>. QED
      BY <2>3 DEF LanePhase1, LanesTyped
  <1>4. PausesTyped'
    <2>1. PauseStarted(ActiveEditors, Arg(s)) \in Pauses
      BY <1>1 DEF ActiveEditors, PauseStarted, IdlePause, Pauses, PauseStates
    <2>. QED
      BY <2>1 DEF TypeOK, PausesTyped, LanePhase1
  <1>5. WireTyped'
    BY BroadcastType DEF TypeOK, WireTyped, LanePhase1, Notices
  <1>. QED
    BY <1>1, <1>2, <1>3, <1>4, <1>5, Untouched DEF TypeOK, LanePhase1

(* LaneAbort keeps every variable in its type.                              *)
LEMMA LaneAbortTyped ==
    ASSUME TypeOK, NEW s \in Sessions, LaneAbort(s)
    PROVE  TypeOK'
  <1>1. AttemptsTyped' /\ LanesTyped' /\ PausesTyped' /\ WireTyped'
    <2>1. lane[s] # << >>
      BY DEF LaneAbort, Running
    <2>2. /\ AttemptsTyped' /\ LanesTyped' /\ PausesTyped'
          /\ down' \in [Sockets -> Seq(Notices)]
      BY <2>1, EndAttemptType DEF LaneAbort, Outcomes
    <2>. QED
      BY <2>2 DEF TypeOK, WireTyped, LaneAbort
  <1>. QED
    BY <1>1, Untouched DEF TypeOK, LaneAbort

(* LaneSettle keeps every variable in its type.                             *)
LEMMA LaneSettleTyped ==
    ASSUME TypeOK, NEW s \in Sessions, LaneSettle(s)
    PROVE  TypeOK'
  <1>1. Arg(s) \in Nat
    <2>1. Head(lane[s]) \in Commands
      BY HeadType DEF TypeOK, LanesTyped, LaneSettle, Running
    <2>. QED
      BY <2>1 DEF Arg, Commands
  <1>2. ProposalsTyped'
    <2>1. CASE UNCHANGED <<dirty, draft>>
      BY <2>1 DEF TypeOK, LaneSettle, ProposalsTyped
    <2>2. CASE Settled(s, dirty[s])
      BY <2>2, SettledType DEF TypeOK, LaneSettle, ProposalsTyped
    <2>. QED
      BY <2>1, <2>2 DEF LaneSettle
  <1>3. AttemptsTyped' /\ LanesTyped' /\ PausesTyped' /\ WireTyped'
    <2>1. lane[s] # << >>
      BY DEF LaneSettle, Running
    <2>2. CASE EndAttempt(s, Arg(s), "threw") \/ EndAttempt(s, Arg(s), "failed")
      <3>1. /\ AttemptsTyped' /\ LanesTyped' /\ PausesTyped'
            /\ down' \in [Sockets -> Seq(Notices)]
        BY <2>1, <2>2, EndAttemptType DEF Outcomes
      <3>. QED
        BY <3>1 DEF TypeOK, WireTyped, LaneSettle
    <2>3. CASE /\ lane' = Continued(lane, s, Command("commit", Arg(s)))
               /\ UNCHANGED <<pause, down, attemptVars>>
      <3>1. Command("commit", Arg(s)) \in Commands
        BY <1>1, CommandType DEF LaneOps
      <3>2. LanesTyped'
        BY <2>1, <2>3, <3>1, ContinuedType DEF TypeOK, LanesTyped
      <3>. QED
        BY <2>3, <3>2, Untouched DEF TypeOK, WireTyped, LaneSettle
    <2>. QED
      BY <2>2, <2>3 DEF LaneSettle
  <1>. QED
    BY <1>1, <1>2, <1>3, Untouched DEF TypeOK, LaneSettle

(* LaneSettleBadly keeps every variable in its type.                        *)
LEMMA LaneSettleBadlyTyped ==
    ASSUME TypeOK, NEW s \in Sessions, LaneSettleBadly(s)
    PROVE  TypeOK'
  <1>1. [pause EXCEPT ![s] = PauseEnded(@)] \in [Sessions -> Pauses]
    BY DEF TypeOK, PausesTyped, PauseEnded, IdlePause, Pauses, PauseStates
  <1>2. SessionsTyped' /\ SocketsTyped' /\ PausesTyped'
    BY <1>1, InvalidatedType DEF TypeOK, LaneSettleBadly, SessionsTyped
  <1>3. ProposalsTyped'
    <2>1. PICK d \in SUBSET dirty[s] : Settled(s, d)
      BY DEF LaneSettleBadly, SettledBadly
    <2>2. d \in SUBSET Edits
      BY DEF TypeOK, ProposalsTyped
    <2>. QED
      BY <2>1, <2>2, SettledType DEF TypeOK, LaneSettleBadly
  <1>4. AttemptsTyped'
    BY FinishType DEF TypeOK, LaneSettleBadly, Outcomes
  <1>5. LanesTyped'
    BY PoppedType DEF TypeOK, LanesTyped, Running, LaneSettleBadly
  <1>. QED
    BY <1>1, <1>2, <1>3, <1>4, <1>5, Untouched DEF TypeOK, LaneSettleBadly

(* LaneCommit keeps every variable in its type.                             *)
LEMMA LaneCommitTyped ==
    ASSUME TypeOK, NEW s \in Sessions, LaneCommit(s)
    PROVE  TypeOK'
  <1>1. AttemptsTyped' /\ LanesTyped' /\ PausesTyped' /\ WireTyped'
    <2>1. lane[s] # << >>
      BY DEF LaneCommit, Running
    <2>2. /\ AttemptsTyped' /\ LanesTyped' /\ PausesTyped'
          /\ down' \in [Sockets -> Seq(Notices)]
      BY <2>1, EndAttemptType DEF LaneCommit, Outcomes
    <2>. QED
      BY <2>2 DEF TypeOK, WireTyped, LaneCommit
  <1>2. ProposalsTyped'
    <2>1. bound' \in [Sessions -> BOOLEAN]
      BY DEF TypeOK, LaneCommit, ProposalsTyped
    <2>2. dirty' \in [Sessions -> SUBSET Edits] /\ draft' \in [Sessions -> SUBSET Edits]
      BY DEF TypeOK, LaneCommit, ProposalsTyped
    <2>3. inprog' \subseteq Sessions
      BY DEF TypeOK, LaneCommit, ProposalsTyped
    <2>. QED
      BY <2>1, <2>2, <2>3 DEF TypeOK, LaneCommit, ProposalsTyped
  <1>3. HistoryTyped'
    BY DEF TypeOK, LaneCommit, ProposalsTyped, HistoryTyped
  <1>. QED
    BY <1>1, <1>2, <1>3, Untouched DEF TypeOK, LaneCommit

(* LaneQuiesce keeps every variable in its type.                            *)
LEMMA LaneQuiesceTyped ==
    ASSUME TypeOK, NEW s \in Sessions, LaneQuiesce(s)
    PROVE  TypeOK'
  <1>1. LanesTyped'
    BY PoppedType DEF TypeOK, LanesTyped, Running, LaneQuiesce
  <1>2. SessionsTyped' /\ SocketsTyped' /\ PausesTyped' /\ ProposalsTyped'
    <2>1. CASE UNCHANGED <<sessionVars, pause, dirty, draft, armed, socketVars>>
      BY <2>1, Untouched DEF LaneQuiesce, proposalVars
    <2>2. ASSUME NEW d \in SUBSET dirty[s], Settled(s, d),
                 armed' = IF d # dirty[s] /\ ~deleting THEN s ELSE armed,
                 UNCHANGED <<sessionVars, pause, socketVars>>
          PROVE  SessionsTyped' /\ SocketsTyped' /\ PausesTyped' /\ ProposalsTyped'
      <3>1. d \in SUBSET Edits
        BY DEF TypeOK, ProposalsTyped
      <3>2. ProposalsTyped'
        BY <2>2, <3>1, SettledType DEF TypeOK, LaneQuiesce
      <3>3. SessionsTyped'
        BY <2>2, BoundsAssumption DEF TypeOK, LaneQuiesce, SessionsTyped, sessionVars, Sessions
      <3>. QED
        BY <2>2, <3>2, <3>3, Untouched
    <2>3. CASE SettledBadly(s) /\ Invalidated(pause)
      <3>1. PICK d \in SUBSET dirty[s] : Settled(s, d)
        BY <2>3 DEF SettledBadly
      <3>2. d \in SUBSET Edits
        BY DEF TypeOK, ProposalsTyped
      <3>3. ProposalsTyped'
        BY <3>1, <3>2, SettledType DEF TypeOK, LaneQuiesce
      <3>. QED
        BY <2>3, <3>3, InvalidatedType DEF TypeOK, PausesTyped, SessionsTyped, LaneQuiesce
    <2>. QED
      BY <2>1, <2>2, <2>3 DEF LaneQuiesce
  <1>. QED
    BY <1>1, <1>2, Untouched DEF TypeOK, LaneQuiesce

(* LaneDelete keeps every variable in its type.                             *)
LEMMA LaneDeleteTyped ==
    ASSUME TypeOK, NEW s \in Sessions, LaneDelete(s)
    PROVE  TypeOK'
  <1>1. LanesTyped'
    <2>1. lane[s] # << >>
      BY DEF LaneDelete, Running
    <2>2. Command("delete_commit", 0) \in Commands
      BY CommandType DEF LaneOps
    <2>3. /\ Popped(lane, s) \in [Sessions -> Seq(Commands)]
          /\ Continued(lane, s, Command("delete_commit", 0)) \in [Sessions -> Seq(Commands)]
      BY <2>1, <2>2, PoppedType, ContinuedType DEF TypeOK, LanesTyped
    <2>. QED
      BY <2>3 DEF LaneDelete, LanesTyped
  <1>2. PausesTyped'
    <2>1. PauseStarted(ActiveEditors, 0) \in Pauses
      BY DEF ActiveEditors, PauseStarted, IdlePause, Pauses, PauseStates
    <2>. QED
      BY <2>1 DEF TypeOK, PausesTyped, LaneDelete
  <1>3. WireTyped'
    BY BroadcastType DEF TypeOK, WireTyped, LaneDelete, Notices
  <1>4. SessionsTyped'
    <2>1. armed' \in 0..MaxSessions
      BY BoundsAssumption DEF TypeOK, LaneDelete, SessionsTyped
    <2>2. deleting' \in BOOLEAN
      BY DEF TypeOK, LaneDelete, SessionsTyped
    <2>. QED
      BY <2>1, <2>2 DEF TypeOK, LaneDelete, SessionsTyped, sessionVars
  <1>. QED
    BY <1>1, <1>2, <1>3, <1>4, Untouched DEF TypeOK, LaneDelete

(* LaneDeleteCommit keeps every variable in its type.                       *)
LEMMA LaneDeleteCommitTyped ==
    ASSUME TypeOK, NEW s \in Sessions, LaneDeleteCommit(s)
    PROVE  TypeOK'
  <1>1. SessionsTyped' /\ SocketsTyped' /\ PausesTyped'
    BY InvalidatedType DEF TypeOK, LaneDeleteCommit, PausesTyped
  <1>2. LanesTyped'
    BY PoppedType DEF TypeOK, LanesTyped, Running, LaneDeleteCommit
  <1>3. ProposalsTyped'
    BY DEF TypeOK, LaneDeleteCommit, ProposalsTyped
  <1>4. HistoryTyped'
    BY DEF TypeOK, LaneDeleteCommit, HistoryTyped
  <1>. QED
    BY <1>1, <1>2, <1>3, <1>4, Untouched DEF TypeOK, LaneDeleteCommit

(* LaneDeleteAbandoned keeps every variable in its type.                    *)
LEMMA LaneDeleteAbandonedTyped ==
    ASSUME TypeOK, NEW s \in Sessions, LaneDeleteAbandoned(s)
    PROVE  TypeOK'
  <1>1. LanesTyped'
    BY PoppedType DEF TypeOK, LanesTyped, Running, LaneDeleteAbandoned
  <1>2. SessionsTyped'
    BY DEF TypeOK, LaneDeleteAbandoned, SessionsTyped, sessionVars
  <1>3. ProposalsTyped'
    BY DEF TypeOK, LaneDeleteAbandoned, ProposalsTyped
  <1>4. PausesTyped'
    BY DEF TypeOK, LaneDeleteAbandoned, PausesTyped, PauseEnded, IdlePause, Pauses, PauseStates
  <1>5. WireTyped'
    BY BroadcastType DEF TypeOK, WireTyped, LaneDeleteAbandoned, Notices
  <1>. QED
    BY <1>1, <1>2, <1>3, <1>4, <1>5, Untouched DEF TypeOK, LaneDeleteAbandoned

(* ServerReceive keeps every variable in its type.                          *)
LEMMA ServerReceiveTyped ==
    ASSUME TypeOK, NEW k \in Sockets, ServerReceive(k)
    PROVE  TypeOK'
  <1>1. up[k] \in Seq(Frames) /\ Head(up[k]) \in Frames
    BY DEF TypeOK, WireTyped, ServerReceive
  <1>2. WireTyped'
    <2>1. Tail(up[k]) \in Seq(Frames)
      BY <1>1 DEF ServerReceive
    <2>. QED
      BY <2>1 DEF TypeOK, WireTyped, ServerReceive
  <1>3. SocketsTyped'
    <2>1. CASE ClosedByServer({k})
      BY <2>1, ClosedByServerType DEF TypeOK, SocketsTyped, ServerReceive
    <2>2. CASE UNCHANGED sock
      BY <2>2 DEF TypeOK, SocketsTyped, ServerReceive
    <2>. QED
      BY <2>1, <2>2 DEF ServerReceive
  <1>4. HistoryTyped'
    BY <1>1 DEF TypeOK, HistoryTyped, ServerReceive, Frames
  <1>5. LanesTyped' /\ PausesTyped' /\ AttemptsTyped'
    <2>1. CASE UNCHANGED <<lane, pause, attemptVars>>
      BY <2>1, Untouched
    <2>2. CASE /\ IsCurrentSessionEditor(k) /\ Head(up[k]).op = "update"
               /\ lane' = Enqueued(lane, current, Command("update", Head(up[k]).n))
               /\ UNCHANGED <<pause, attemptVars>>
      <3>1. current \in Sessions
        BY <2>2, BoundsAssumption DEF TypeOK, SessionsTyped, IsCurrentSessionEditor, Sessions
      <3>2. Command("update", Head(up[k]).n) \in Commands
        BY <1>1, <2>2, BoundsAssumption DEF Frames, Command, Commands, LaneOps, Edits
      <3>3. LanesTyped'
        BY <2>2, <3>1, <3>2, EnqueuedType DEF TypeOK, LanesTyped
      <3>. QED
        BY <2>2, <3>3, Untouched
    <2>3. CASE /\ IsCurrentSessionEditor(k)
               /\ PauseStep(current, PauseMarkReady(pause[current], k))
      <3>1. current \in Sessions
        BY <2>3, BoundsAssumption DEF TypeOK, SessionsTyped, IsCurrentSessionEditor, Sessions
      <3>2. PauseMarkReady(pause[current], k) \in Pauses
        BY <3>1 DEF TypeOK, PausesTyped, PauseMarkReady, PauseSettled, Pauses, PauseStates
      <3>. QED
        BY <2>3, <3>1, <3>2, PauseStepType
    <2>. QED
      BY <2>1, <2>2, <2>3 DEF ServerReceive
  <1>. QED
    BY <1>1, <1>2, <1>3, <1>4, <1>5, Untouched DEF TypeOK, ServerReceive

(* CloseEvent keeps every variable in its type.                             *)
LEMMA CloseEventTyped ==
    ASSUME TypeOK, NEW k \in Sockets, CloseEvent(k)
    PROVE  TypeOK'
  <1>1. WireTyped'
    <2>1. PICK n \in 0..Len(up[k]) : FramesLost(k, n)
      BY DEF CloseEvent
    <2>2. up[k] \in Seq(Frames)
      BY DEF TypeOK, WireTyped
    <2>3. SubSeq(up[k], 1, n) \in Seq(Frames)
      BY <2>2
    <2>4. up' \in [Sockets -> Seq(Frames)]
      BY <2>1, <2>3 DEF TypeOK, WireTyped, FramesLost
    <2>5. << >> \in Seq(Notices)
      OBVIOUS
    <2>. QED
      BY <2>4, <2>5 DEF TypeOK, WireTyped, CloseEvent, ClientGone, ClientPhases
  <1>2. SessionsTyped' /\ SocketsTyped' /\ LanesTyped' /\ PausesTyped' /\ AttemptsTyped'
    <2>1. CASE /\ sock' = [sock EXCEPT ![k] = "closed"]
               /\ UNCHANGED <<sessionVars, lane, pause, attemptVars, armed, waits>>
      BY <2>1, Untouched DEF TypeOK, SocketsTyped, SocketStates, CloseEvent
    <2>2. CASE /\ sock' = [sock EXCEPT ![k] = "closed"]
               /\ IF current = 0 THEN UNCHANGED <<pause, lane, attemptVars>>
                  ELSE PauseStep(current, PauseSocketLost(pause[current], k))
               /\ ReleaseDocSession(k)
               /\ UNCHANGED waits
      <3>1. SessionsTyped' /\ SocketsTyped'
        BY <2>2, ReleaseType DEF TypeOK, SocketsTyped, SocketStates, CloseEvent
      <3>2. CASE current = 0
        BY <2>2, <3>1, <3>2, Untouched
      <3>3. CASE current # 0
        <4>1. current \in Sessions
          BY <3>3, BoundsAssumption DEF TypeOK, SessionsTyped, Sessions
        <4>2. PauseSocketLost(pause[current], k) \in Pauses
          BY <4>1 DEF TypeOK, PausesTyped, PauseSocketLost, PauseSettled, Pauses, PauseStates
        <4>. QED
          BY <2>2, <3>1, <3>3, <4>1, <4>2, PauseStepType
      <3>. QED
        BY <3>2, <3>3
    <2>3. CASE /\ PublishesOnLeaving(k)
               /\ sock' = [sock EXCEPT ![k] = "leaving"]
               /\ waits' = [waits EXCEPT ![k] = nAttempts + 1]
               /\ LET q == PauseSocketLost(pause[current], k)
                  IN  /\ pause' = [pause EXCEPT ![current] = q]
                      /\ lane' = LaneAfter(current, q)
                      /\ NewAttempt(current, ApcAfter(current, q))
               /\ UNCHANGED <<sessionVars, armed>>
      <3> DEFINE q == PauseSocketLost(pause[current], k)
      <3>1. current \in Sessions
        BY <2>3, BoundsAssumption DEF TypeOK, SessionsTyped, PublishesOnLeaving, Sessions
      <3>2. q \in Pauses
        BY <3>1 DEF TypeOK, PausesTyped, PauseSocketLost, PauseSettled, Pauses, PauseStates
      <3>3. LanesTyped' /\ PausesTyped'
        BY <2>3, <3>1, <3>2, LaneAfterType DEF TypeOK, LanesTyped, PausesTyped
      <3>4. AttemptsTyped' /\ nAttempts + 1 \in 0..MaxAttempts
        BY <2>3, <3>1, <3>2, ApcAfterType, NewAttemptType DEF TypeOK
      <3>5. SocketsTyped'
        BY <2>3, <3>4 DEF TypeOK, SocketsTyped, SocketStates, CloseEvent
      <3>6. SessionsTyped'
        BY <2>3, Untouched DEF CloseEvent
      <3>. QED
        BY <3>3, <3>4, <3>5, <3>6
    <2>. QED
      BY <2>1, <2>2, <2>3 DEF CloseEvent
  <1>. QED
    BY <1>1, <1>2, Untouched DEF TypeOK, CloseEvent

(* LeaveDone keeps every variable in its type.                              *)
LEMMA LeaveDoneTyped ==
    ASSUME TypeOK, NEW k \in Sockets, LeaveDone(k)
    PROVE  TypeOK'
  <1>1. SessionsTyped'
    <2>1. CASE UNCHANGED <<sessionVars, armed>>
      BY <2>1, Untouched DEF LeaveDone
    <2>2. CASE ReleaseDocSession(k)
      BY <2>2, ReleaseType DEF TypeOK, LeaveDone
    <2>. QED
      BY <2>1, <2>2 DEF LeaveDone
  <1>2. SocketsTyped'
    BY BoundsAssumption DEF TypeOK, LeaveDone, SocketsTyped, SocketStates
  <1>. QED
    BY <1>1, <1>2, Untouched DEF TypeOK, LeaveDone

(* ClientEdit keeps every variable in its type.                             *)
LEMMA ClientEditTyped ==
    ASSUME TypeOK, NEW k \in Sockets, ClientEdit(k)
    PROVE  TypeOK'
  <1>1. nEdits + 1 \in Edits /\ nEdits + 1 \in 0..MaxEdits
    BY BoundsAssumption DEF TypeOK, HistoryTyped, ClientEdit, Edits
  <1>2. HistoryTyped'
    BY <1>1 DEF TypeOK, HistoryTyped, ClientEdit
  <1>3. WireTyped'
    <2>1. [op |-> "update", n |-> nEdits + 1] \in Frames
      BY <1>1 DEF Frames
    <2>2. Append(up[k], [op |-> "update", n |-> nEdits + 1]) \in Seq(Frames)
      BY <2>1 DEF TypeOK, WireTyped
    <2>. QED
      BY <2>2 DEF TypeOK, WireTyped, ClientEdit
  <1>. QED
    BY <1>1, <1>2, <1>3, Untouched DEF TypeOK, ClientEdit

(* ClientReceive keeps every variable in its type.                          *)
LEMMA ClientReceiveTyped ==
    ASSUME TypeOK, NEW k \in Sockets, ClientReceive(k)
    PROVE  TypeOK'
  <1>1. Head(down[k]) \in Notices /\ Tail(down[k]) \in Seq(Notices)
    BY DEF TypeOK, WireTyped, ClientReceive
  <1>2. WireTyped'
    <2>1. PhaseAfter(phase[k], Head(down[k])) \in ClientPhases
      BY <1>1, PhaseType DEF TypeOK, WireTyped
    <2>. QED
      BY <1>1, <2>1 DEF TypeOK, WireTyped, ClientReceive
  <1>. QED
    BY <1>1, <1>2, Untouched DEF TypeOK, ClientReceive

(* ClientReady keeps every variable in its type.                            *)
LEMMA ClientReadyTyped ==
    ASSUME TypeOK, NEW k \in Sockets, ClientReady(k)
    PROVE  TypeOK'
  <1>1. WireTyped'
    <2>1. [op |-> "ready", n |-> nEdits] \in Frames
      BY DEF TypeOK, HistoryTyped, Frames
    <2>2. Append(up[k], [op |-> "ready", n |-> nEdits]) \in Seq(Frames)
      BY <2>1 DEF TypeOK, WireTyped
    <2>. QED
      BY <2>2 DEF TypeOK, WireTyped, ClientReady, ClientPhases
  <1>. QED
    BY <1>1, Untouched DEF TypeOK, ClientReady

(* RunAttempt keeps every variable in its type.                             *)
LEMMA RunAttemptTyped ==
    ASSUME TypeOK, NEW a \in Attempts, RunAttempt(a)
    PROVE  TypeOK'
  <1>1. AttemptsTyped'
    BY DEF TypeOK, AttemptsTyped, AttemptStates, RunAttempt
  <1>2. LanesTyped'
    <2>1. Command("phase1", a) \in Commands
      BY BoundsAssumption, CommandType DEF LaneOps, Attempts
    <2>2. CASE asess[a] \in Sessions
      BY <2>1, <2>2, EnqueuedType DEF TypeOK, LanesTyped, RunAttempt
    <2>3. CASE asess[a] \notin Sessions
      BY <2>3 DEF TypeOK, LanesTyped, RunAttempt, Enqueued
    <2>. QED
      BY <2>2, <2>3
  <1>. QED
    BY <1>1, <1>2, Untouched DEF TypeOK, RunAttempt

(* ForcePublish keeps every variable in its type.                           *)
LEMMA ForcePublishTyped ==
    ASSUME TypeOK, ForcePublish
    PROVE  TypeOK'
  <1>1. AttemptsTyped'
    <2>1. current \in Sessions
      BY BoundsAssumption DEF TypeOK, SessionsTyped, Sessions, ForcePublish
    <2>2. apc \in [Attempts -> AttemptStates]
      BY DEF TypeOK, AttemptsTyped
    <2>. QED
      BY <2>1, <2>2, NewAttemptType DEF TypeOK, ForcePublish
  <1>. QED
    BY <1>1, Untouched DEF TypeOK, ForcePublish

(* QuiesceFire keeps every variable in its type.                            *)
LEMMA QuiesceFireTyped ==
    ASSUME TypeOK, QuiesceFire
    PROVE  TypeOK'
  <1>1. SessionsTyped'
    BY BoundsAssumption DEF TypeOK, SessionsTyped, sessionVars, QuiesceFire
  <1>2. LanesTyped'
    <2>1. Command("quiesce", 0) \in Commands
      BY CommandType DEF LaneOps
    <2>2. current = 0 \/ current \in Sessions
      BY BoundsAssumption DEF TypeOK, SessionsTyped, Sessions
    <2>. QED
      BY <2>1, <2>2, EnqueuedType DEF TypeOK, LanesTyped, QuiesceFire
  <1>. QED
    BY <1>1, <1>2, Untouched DEF TypeOK, QuiesceFire

(* DeleteRequest keeps every variable in its type.                          *)
LEMMA DeleteRequestTyped ==
    ASSUME TypeOK, DeleteRequest
    PROVE  TypeOK'
  <1>1. LanesTyped'
    <2>1. current \in Sessions
      BY BoundsAssumption DEF TypeOK, SessionsTyped, Sessions, DeleteRequest
    <2>2. Command("delete", 0) \in Commands
      BY CommandType DEF LaneOps
    <2>. QED
      BY <2>1, <2>2, EnqueuedType DEF TypeOK, LanesTyped, DeleteRequest
  <1>. QED
    BY <1>1, Untouched DEF TypeOK, DeleteRequest

(* RestoreBegin keeps every variable in its type.                           *)
LEMMA RestoreBeginTyped ==
    ASSUME TypeOK, RestoreBegin
    PROVE  TypeOK'
  <1>1. AttemptsTyped' /\ RestoreTyped'
    <2>1. CASE current = 0
      BY <2>1, Untouched DEF TypeOK, RestoreTyped, RestoreBegin
    <2>2. CASE current # 0
      <3>1. current \in Sessions
        BY <2>2, BoundsAssumption DEF TypeOK, SessionsTyped, Sessions
      <3>2. apc \in [Attempts -> AttemptStates]
        BY DEF TypeOK, AttemptsTyped
      <3>3. AttemptsTyped' /\ nAttempts + 1 \in 0..MaxAttempts
        BY <2>2, <3>1, <3>2, NewAttemptType DEF TypeOK, RestoreBegin
      <3>. QED
        BY <2>2, <3>3 DEF RestoreTyped, RestoreBegin
    <2>. QED
      BY <2>1, <2>2
  <1>. QED
    BY <1>1, Untouched DEF TypeOK, RestoreBegin

(* RestoreHandoff keeps every variable in its type.                         *)
LEMMA RestoreHandoffTyped ==
    ASSUME TypeOK, RestoreHandoff
    PROVE  TypeOK'
  <1>1. RestoreTyped'
    BY DEF TypeOK, RestoreTyped, RestoreHandoff
  <1>. QED
    BY <1>1, Untouched DEF TypeOK, RestoreHandoff

(* RestoreLock keeps every variable in its type.                            *)
LEMMA RestoreLockTyped ==
    ASSUME TypeOK, RestoreLock
    PROVE  TypeOK'
  <1>1. RestoreTyped'
    BY DEF TypeOK, RestoreTyped, RestoreLock
  <1>. QED
    BY <1>1, Untouched DEF TypeOK, RestoreLock

(* RestoreLand keeps every variable in its type.                            *)
LEMMA RestoreLandTyped ==
    ASSUME TypeOK, RestoreLand
    PROVE  TypeOK'
  <1>1. RestoreTyped'
    BY DEF TypeOK, RestoreTyped, RestoreLand
  <1>2. SessionsTyped' /\ SocketsTyped' /\ PausesTyped'
    BY InvalidatedType DEF TypeOK, SessionsTyped, PausesTyped, RestoreLand
  <1>. QED
    BY <1>1, <1>2, Untouched DEF TypeOK, RestoreLand

(* The type invariant: every variable keeps its type, the lane's commands    *)
(* and the frames on the wire included.                                      *)
THEOREM TypeCorrect == Spec => []TypeOK
<1>1. Init => TypeOK
  <2> SUFFICES ASSUME Init PROVE TypeOK
    OBVIOUS
  <2>1. SessionsTyped
    <3>1. deleting \in BOOLEAN
      BY DEF Init
    <3>. QED
      BY <3>1, BoundsAssumption DEF Init, SessionsTyped, SessionStates
  <2>2. LanesTyped /\ PausesTyped
    BY DEF Init, LanesTyped, PausesTyped, IdlePause, Pauses, PauseStates
  <2>3. AttemptsTyped
    BY BoundsAssumption DEF Init, AttemptsTyped, AttemptStates, Outcomes
  <2>4. SocketsTyped
    BY BoundsAssumption DEF Init, SocketsTyped, SocketStates
  <2>5. WireTyped
    BY DEF Init, WireTyped, ClientPhases
  <2>6. RestoreTyped /\ HistoryTyped
    BY BoundsAssumption DEF Init, RestoreTyped, HistoryTyped, Edits
  <2>7. ProposalsTyped
    <3>1. bound \in [Sessions -> BOOLEAN]
      BY Zenon DEF Init
    <3>. QED
      BY <3>1 DEF Init, ProposalsTyped
  <2>. QED
    BY <2>1, <2>2, <2>3, <2>4, <2>5, <2>6, <2>7 DEF TypeOK
<1>2. TypeOK /\ [Next]_vars => TypeOK'
  <2> SUFFICES ASSUME TypeOK, [Next]_vars PROVE TypeOK'
    OBVIOUS
  <2>1. CASE UNCHANGED vars
    BY <2>1, Untouched DEF vars, TypeOK
  <2>2. ASSUME NEW s \in Sessions, SessionStep(s) PROVE TypeOK'
    BY <2>2, ConstructReadTyped, ConstructDoneTyped, PauseTimeoutTyped, LaneBootTyped,
       LaneGateTyped, LaneMaterializeTyped, LanePhase1Typed, LaneAbortTyped,
       LaneSettleTyped, LaneSettleBadlyTyped, LaneCommitTyped, LaneQuiesceTyped,
       LaneDeleteTyped, LaneDeleteCommitTyped, LaneDeleteAbandonedTyped DEF SessionStep,
       LaneStep
  <2>3. ASSUME NEW k \in Sockets, SocketStep(k) PROVE TypeOK'
    BY <2>3, ConnectTyped, AcquireTyped, ServerReceiveTyped, CloseEventTyped,
       LeaveDoneTyped, ClientEditTyped, ClientReceiveTyped, ClientReadyTyped DEF
       SocketStep
  <2>4. ASSUME NEW a \in Attempts, RunAttempt(a) PROVE TypeOK'
    BY <2>4, RunAttemptTyped
  <2>5. CASE Request
    BY <2>5, ForcePublishTyped, QuiesceFireTyped, DeleteRequestTyped, RestoreBeginTyped
       DEF Request
  <2>6. CASE RestoreStep
    BY <2>6, RestoreHandoffTyped, RestoreLockTyped, RestoreLandTyped DEF RestoreStep
  <2>. QED
    BY <2>1, <2>2, <2>3, <2>4, <2>5, <2>6 DEF Next
<1>. QED
  BY <1>1, <1>2, PTL DEF Spec

-----------------------------------------------------------------------------
(* The document has one live session.                                        *)

(* The inductive invariant: a session being built or live is the one its     *)
(* promise is in the map for, and the next session number is unused.         *)
SessionMaps ==
    /\ OneLiveSession
    /\ \A s \in Sessions :
          /\ sstate[s] \in {"acquiring", "seeding", "active"} => promised = s
          /\ s > nSessions => sstate[s] = "none"

(* Discarding the live session leaves none.                                  *)
LEMMA GoneKeepsMaps ==
    ASSUME SessionsTyped, SessionMaps, current # 0, SessionGone(current)
    PROVE  SessionMaps'
  <1>1. current \in Sessions
    BY BoundsAssumption DEF SessionsTyped, Sessions
  <1>. QED
    BY <1>1, BoundsAssumption
       DEF SessionsTyped, SessionMaps, OneLiveSession, SessionGone, Sessions

(* The invalidations tear down the one live session, if any.                *)
LEMMA InvalidatedKeepsMaps ==
    ASSUME SessionsTyped, SessionMaps, NEW p, Invalidated(p)
    PROVE  SessionMaps'
  <1>1. CASE current = 0
    BY <1>1 DEF Invalidated, SessionMaps, OneLiveSession
  <1>2. CASE current # 0
    BY <1>2, GoneKeepsMaps DEF Invalidated
  <1>. QED
    BY <1>1, <1>2

(* releaseDocSession tears down the live session or leaves it live.         *)
LEMMA ReleaseKeepsMaps ==
    ASSUME SessionsTyped, SessionMaps, NEW k, ReleaseDocSession(k)
    PROVE  SessionMaps'
  <1>1. CASE UNCHANGED <<sstate, current, promised, nSessions>>
    BY <1>1 DEF SessionMaps, OneLiveSession
  <1>2. CASE current # 0 /\ SessionGone(current)
    BY <1>2, GoneKeepsMaps
  <1>. QED
    BY <1>1, <1>2 DEF ReleaseDocSession, sessionVars

(* SessionMaps is about the session maps only.                              *)
LEMMA MapsUntouched ==
    ASSUME SessionMaps, UNCHANGED <<sstate, current, promised, nSessions>>
    PROVE  SessionMaps'
  BY DEF SessionMaps, OneLiveSession

(* The maps of the document's sessions stay in step with what they hold.     *)
LEMMA MapsHold == Spec => []SessionMaps
<1>1. Init => SessionMaps
  BY BoundsAssumption DEF Init, SessionMaps, OneLiveSession, Sessions
<1>2. TypeOK /\ SessionMaps /\ [Next]_vars => SessionMaps'
  <2> SUFFICES ASSUME TypeOK, SessionMaps, [Next]_vars PROVE SessionMaps'
    OBVIOUS
  <2>0. SessionsTyped
    BY DEF TypeOK
  <2>1. CASE UNCHANGED vars
    BY <2>1, MapsUntouched DEF vars, sessionVars
  <2>2. ASSUME NEW k \in Sockets, Acquire(k) PROVE SessionMaps'
    <3>1. CASE /\ MustConstruct
               /\ nSessions < MaxSessions
               /\ nSessions' = nSessions + 1
               /\ promised' = nSessions + 1
               /\ sstate' = [sstate EXCEPT ![nSessions + 1] = "acquiring"]
               /\ UNCHANGED current
      <4>1. nSessions + 1 \in Sessions
        BY <2>0, <3>1, BoundsAssumption DEF SessionsTyped, Sessions
      <4>2. \A s \in Sessions : sstate[s] \notin {"acquiring", "seeding", "active"}
        BY <3>1, BoundsAssumption DEF SessionMaps, MustConstruct, Sessions
      <4>. QED
        BY <2>0, <3>1, <4>1, <4>2, BoundsAssumption
           DEF SessionsTyped, SessionMaps, OneLiveSession, Sessions
    <3>2. CASE UNCHANGED <<sstate, current, promised, nSessions>>
      BY <3>2, MapsUntouched
    <3>. QED
      BY <2>2, <3>1, <3>2 DEF Acquire, sessionVars
  <2>3. ASSUME NEW s \in Sessions, ConstructRead(s) PROVE SessionMaps'
    BY <2>0, <2>3, BoundsAssumption
       DEF SessionsTyped, ConstructRead, SessionMaps, OneLiveSession, Sessions
  <2>4. ASSUME NEW s \in Sessions, ConstructDone(s) PROVE SessionMaps'
    BY <2>0, <2>4, BoundsAssumption
       DEF SessionsTyped, ConstructDone, SessionMaps, OneLiveSession, Sessions
  <2>5. ASSUME NEW s \in Sessions, LaneSettleBadly(s) PROVE SessionMaps'
    BY <2>0, <2>5, InvalidatedKeepsMaps DEF LaneSettleBadly
  <2>6. ASSUME NEW s \in Sessions, LaneQuiesce(s) PROVE SessionMaps'
    BY <2>0, <2>6, InvalidatedKeepsMaps, MapsUntouched DEF LaneQuiesce, sessionVars
  <2>7. ASSUME NEW s \in Sessions, LaneDeleteCommit(s) PROVE SessionMaps'
    BY <2>0, <2>7, InvalidatedKeepsMaps DEF LaneDeleteCommit
  <2>8. ASSUME NEW s \in Sessions,
               \/ PauseTimeout(s) \/ LaneBoot(s) \/ LaneGate(s) \/ LaneMaterialize(s)
               \/ LanePhase1(s) \/ LaneAbort(s) \/ LaneSettle(s) \/ LaneCommit(s)
               \/ LaneDelete(s) \/ LaneDeleteAbandoned(s)
        PROVE  SessionMaps'
    BY <2>8, MapsUntouched
       DEF PauseTimeout, LaneBoot, LaneGate, LaneMaterialize, LanePhase1, LaneAbort,
           LaneSettle, LaneCommit, LaneDelete, LaneDeleteAbandoned, sessionVars
  <2>9. ASSUME NEW k \in Sockets, CloseEvent(k) PROVE SessionMaps'
    BY <2>0, <2>9, ReleaseKeepsMaps, MapsUntouched DEF CloseEvent, sessionVars
  <2>10. ASSUME NEW k \in Sockets, LeaveDone(k) PROVE SessionMaps'
    BY <2>0, <2>10, ReleaseKeepsMaps, MapsUntouched DEF LeaveDone, sessionVars
  <2>11. ASSUME NEW k \in Sockets,
                \/ Connect(k) \/ ServerReceive(k) \/ ClientEdit(k)
                \/ ClientReceive(k) \/ ClientReady(k)
         PROVE  SessionMaps'
    BY <2>11, MapsUntouched
       DEF Connect, ServerReceive, ClientEdit, ClientReceive, ClientReady, sessionVars
  <2>12. ASSUME NEW a \in Attempts, RunAttempt(a) PROVE SessionMaps'
    BY <2>12, MapsUntouched DEF RunAttempt, sessionVars
  <2>13. CASE Request
    BY <2>13, MapsUntouched
       DEF Request, ForcePublish, QuiesceFire, DeleteRequest, RestoreBegin, sessionVars
  <2>14. CASE RestoreStep
    BY <2>0, <2>14, InvalidatedKeepsMaps, MapsUntouched
       DEF RestoreStep, RestoreHandoff, RestoreLock, RestoreLand, sessionVars
  <2>. QED
    BY <2>1, <2>2, <2>3, <2>4, <2>5, <2>6, <2>7, <2>8, <2>9, <2>10, <2>11, <2>12,
       <2>13, <2>14
       DEF Next, SessionStep, SocketStep, LaneStep
<1>. QED
  BY <1>1, <1>2, TypeCorrect, PTL DEF Spec

(* A session is live exactly when acquireDocSession would find it: at no     *)
(* point do two sessions of the document accept edits, and none is left      *)
(* behind by a last editor leaving, a delete, a restore or a failed settle.  *)
THEOREM OneSessionAtATime == Spec => []OneLiveSession
<1>1. SessionMaps => OneLiveSession
  BY DEF SessionMaps
<1>. QED
  BY <1>1, MapsHold, PTL

-----------------------------------------------------------------------------
(* Edits stay in the session their socket is attached to.                    *)

(* The commands that may be in the lane of s: an edit has a sender, which is *)
(* attached to s.  The frames a client may have sent: updates carry edits of *)
(* its own.                                                                  *)
OwnCommands(s) ==
    {c \in Commands : c.op \in {"update", "materialize"} =>
                         /\ c.n <= nEdits /\ Sender(c.n) # {}
                         /\ \A k \in Sender(c.n) : sid[k] = s}
OwnFrames(k) == {f \in Frames : f.op = "update" => f.n \in sent[k]}

LanesOwned(l) == \A s \in Sessions : l[s] \in Seq(OwnCommands(s))

(* An edit has one sender.                                                   *)
OneSender ==
    /\ \A k \in Sockets : \A e \in sent[k] : e <= nEdits
    /\ \A k, m \in Sockets : k # m => sent[k] \cap sent[m] = {}

(* A socket is attached once: it has no session before its mode transition   *)
(* and makes no second one after it.                                         *)
AttachedOnce ==
    \A k \in Sockets :
        /\ acq[k] # "none" => sid[k] = 0 /\ sock[k] # "idle"
        /\ sock[k] = "idle" => sid[k] = 0

FramesOwned == \A k \in Sockets : up[k] \in Seq(OwnFrames(k))

(* The inductive invariant.                                                  *)
EditOwners == OneSender /\ AttachedOnce /\ FramesOwned /\ LanesOwned(lane)

(* A command that carries no edit is owned by every session.                *)
LEMMA OtherCommandOwned ==
    ASSUME NEW s \in Sessions, NEW c \in Commands, c.op \notin {"update", "materialize"}
    PROVE  c \in OwnCommands(s)
  BY DEF OwnCommands

(* Lanes stay owned when an owned command joins one,                        *)
LEMMA EnqueuedOwned ==
    ASSUME NEW l \in [Sessions -> Seq(Commands)], LanesOwned(l), NEW s \in Sessions,
           NEW c \in OwnCommands(s)
    PROVE  LanesOwned(Enqueued(l, s, c))
  <1>1. Append(l[s], c) \in Seq(OwnCommands(s))
    BY DEF LanesOwned
  <1>. QED
    BY <1>1 DEF LanesOwned, Enqueued

(* ... when the head of one is done,                                        *)
LEMMA PoppedOwned ==
    ASSUME NEW l \in [Sessions -> Seq(Commands)], LanesOwned(l), NEW s \in Sessions,
           l[s] # << >>
    PROVE  LanesOwned(Popped(l, s))
  <1>1. Tail(l[s]) \in Seq(OwnCommands(s))
    BY DEF LanesOwned
  <1>. QED
    BY <1>1 DEF LanesOwned, Popped

(* ... when it is replaced by its continuation,                             *)
LEMMA ContinuedOwned ==
    ASSUME NEW l \in [Sessions -> Seq(Commands)], LanesOwned(l), NEW s \in Sessions,
           l[s] # << >>, NEW c \in OwnCommands(s)
    PROVE  LanesOwned(Continued(l, s, c))
  <1>1. Tail(l[s]) \in Seq(OwnCommands(s))
    BY DEF LanesOwned
  <1>2. <<c>> \in Seq(OwnCommands(s))
    OBVIOUS
  <1>3. <<c>> \o Tail(l[s]) \in Seq(OwnCommands(s))
    BY <1>1, <1>2
  <1>. QED
    BY <1>3 DEF LanesOwned, Continued

(* ... and when the pause resumes a publish attempt.                        *)
LEMMA LaneAfterOwned ==
    ASSUME LanesTyped, PausesTyped, LanesOwned(lane), NEW s \in Sessions, NEW q \in Pauses
    PROVE  LanesOwned(LaneAfter(s, q))
  <1> DEFINE a == PauseResumes(pause[s], q)
  <1>1. CASE a = 0
    BY <1>1 DEF LaneAfter
  <1>2. CASE a # 0
    <2>1. a \in Nat /\ q.state \in {"ready", "aborted"}
      BY <1>2, PauseResumesSettled DEF PausesTyped
    <2>2. Command(q.state, a) \in Commands
      BY <2>1, CommandType DEF LaneOps
    <2>3. Command(q.state, a) \in OwnCommands(s)
      BY <2>1, <2>2, OtherCommandOwned DEF Command
    <2>. QED
      BY <1>2, <2>3, EnqueuedOwned DEF LaneAfter, LanesTyped
  <1>. QED
    BY <1>1, <1>2

(* Lanes stay owned when the owners do not change, and when they only grow.  *)
LEMMA OwnersKept ==
    ASSUME LanesOwned(lane'), \A s \in Sessions : OwnCommands(s) \subseteq OwnCommands(s)'
    PROVE  LanesOwned(lane)'
  <1> SUFFICES ASSUME NEW s \in Sessions PROVE lane'[s] \in Seq(OwnCommands(s)')
    BY DEF LanesOwned
  <1>1. lane'[s] \in Seq(OwnCommands(s)) /\ OwnCommands(s) \subseteq OwnCommands(s)'
    BY DEF LanesOwned
  <1>. QED
    BY <1>1

(* Nothing changes hands while no edit is made and no socket attached.      *)
LEMMA SameOwners ==
    ASSUME LanesOwned(lane'), UNCHANGED <<nEdits, sent, sid>>
    PROVE  LanesOwned(lane)'
  BY OwnersKept DEF OwnCommands, Sender

(* Attaching sockets that were acquiring takes no edit from its session.    *)
LEMMA AttachOwned ==
    ASSUME TypeOK, EditOwners, NEW ks \in SUBSET Sockets, NEW s \in Sessions,
           \A k \in ks : acq[k] # "none", Attach(ks, s),
           UNCHANGED <<nEdits, sent, up>>
    PROVE  EditOwners'
  <1>1. \A r \in Sessions : OwnCommands(r) \subseteq OwnCommands(r)'
    <2> SUFFICES ASSUME NEW r \in Sessions, NEW c \in OwnCommands(r),
                        c.op \in {"update", "materialize"}, NEW k \in Sender(c.n)
                 PROVE  sid'[k] = r
      BY DEF OwnCommands, Sender
    <2>1. sid[k] = r /\ r # 0 /\ k \in Sockets
      BY BoundsAssumption DEF OwnCommands, Sessions, Sender
    <2>2. k \notin ks
      BY <2>1 DEF EditOwners, AttachedOnce
    <2>. QED
      BY <2>1, <2>2 DEF Attach
  <1>2. LanesOwned(lane')
    <2>1. [op |-> "boot", n |-> 0, ks |-> ks] \in Commands
      BY DEF Commands, LaneOps
    <2>2. [op |-> "boot", n |-> 0, ks |-> ks] \in OwnCommands(s)
      BY <2>1, OtherCommandOwned
    <2>. QED
      BY <2>2, EnqueuedOwned DEF TypeOK, LanesTyped, EditOwners, Attach
  <1>3. AttachedOnce'
    BY DEF TypeOK, SocketsTyped, EditOwners, AttachedOnce, Attach
  <1>. QED
    BY <1>1, <1>2, <1>3, OwnersKept DEF EditOwners, OneSender, FramesOwned, OwnFrames

(* Steps that make no edit, send nothing and attach no socket.               *)
LEMMA OwnersUntouched ==
    ASSUME EditOwners, LanesOwned(lane'), UNCHANGED <<nEdits, sent, sid, up>>,
           \A k \in Sockets : acq'[k] \in {acq[k], "none"},
           \A k \in Sockets : sock'[k] = "idle" => sock[k] = "idle",
           \A k \in Sockets : sock[k] = "idle" => sock'[k] = "idle"
    PROVE  EditOwners'
  <1>1. LanesOwned(lane)'
    BY SameOwners
  <1>2. AttachedOnce'
    BY DEF EditOwners, AttachedOnce
  <1>. QED
    BY <1>1, <1>2 DEF EditOwners, OneSender, FramesOwned, OwnFrames

(* Actions that touch neither edits nor attachments, lane by lane.           *)
LEMMA LaneStepOwned ==
    ASSUME TypeOK, EditOwners, NEW s \in Sessions, LaneStep(s)
    PROVE  EditOwners'
  <1>. USE DEF EditOwners
  <1>1. lane[s] # << >> /\ LanesTyped /\ lane \in [Sessions -> Seq(Commands)]
    BY DEF LaneStep, LaneBoot, LaneGate, LaneMaterialize, LanePhase1, LaneAbort, LaneSettle,
           LaneSettleBadly, LaneCommit, LaneQuiesce, LaneDelete, LaneDeleteCommit,
           LaneDeleteAbandoned, Running, TypeOK, LanesTyped
  <1>2. Head(lane[s]) \in Commands /\ Head(lane[s]) \in OwnCommands(s)
    BY <1>1, HeadType DEF LanesOwned
  <1>3. Arg(s) \in Nat
    BY <1>2 DEF Arg, Commands
  <1>4. lane' = Popped(lane, s) => LanesOwned(lane')
    BY <1>1, PoppedOwned
  <1>5. ASSUME NEW op \in {"ready", "commit"}, lane' = Continued(lane, s, Command(op, Arg(s)))
        PROVE  LanesOwned(lane')
    <2>1. Command(op, Arg(s)) \in Commands
      BY <1>3, CommandType DEF LaneOps
    <2>2. Command(op, Arg(s)) \in OwnCommands(s)
      BY <2>1, OtherCommandOwned DEF Command
    <2>. QED
      BY <1>1, <1>5, <2>2, ContinuedOwned
  <1>6. ASSUME lane' = Continued(lane, s, Command("delete_commit", 0))
        PROVE  LanesOwned(lane')
    <2>1. Command("delete_commit", 0) \in Commands
      BY CommandType DEF LaneOps
    <2>2. Command("delete_commit", 0) \in OwnCommands(s)
      BY <2>1, OtherCommandOwned DEF Command
    <2>. QED
      BY <1>1, <1>6, <2>2, ContinuedOwned
  <1>7. ASSUME Running(s, "update"),
               lane' = Continued(lane, s, Command("materialize", Arg(s)))
        PROVE  LanesOwned(lane')
    <2>1. /\ Arg(s) \in Edits /\ Arg(s) <= nEdits
          /\ Sender(Arg(s)) # {} /\ \A k \in Sender(Arg(s)) : sid[k] = s
      BY <1>2, <1>7 DEF OwnCommands, Commands, Arg, Running
    <2>2. Command("materialize", Arg(s)) \in Commands
      BY <1>3, <2>1, CommandType DEF LaneOps
    <2>3. Command("materialize", Arg(s)) \in OwnCommands(s)
      BY <2>1, <2>2 DEF OwnCommands, Command
    <2>. QED
      BY <1>1, <1>7, <2>3, ContinuedOwned
  <1>8. CASE LaneBoot(s)
    BY <1>4, <1>8, OwnersUntouched
       DEF LaneBoot, socketVars, historyVars
  <1>9. CASE LaneGate(s)
    BY <1>4, <1>7, <1>9, OwnersUntouched
       DEF LaneGate, ClosedByServer, OpenSockets, wireVars, TypeOK, SocketsTyped
  <1>10. CASE LaneMaterialize(s)
    BY <1>4, <1>10, OwnersUntouched
       DEF LaneMaterialize, ClosedByServer, OpenSockets, wireVars, TypeOK, SocketsTyped
  <1>11. CASE LanePhase1(s)
    BY <1>4, <1>5, <1>11, OwnersUntouched DEF LanePhase1, socketVars, historyVars
  <1>12. CASE LaneAbort(s)
    BY <1>4, <1>12, OwnersUntouched DEF LaneAbort, EndAttempt, socketVars, historyVars
  <1>13. CASE LaneSettle(s)
    BY <1>4, <1>5, <1>13, OwnersUntouched DEF LaneSettle, EndAttempt, socketVars, historyVars
  <1>14. CASE LaneSettleBadly(s)
    BY <1>4, <1>14, OwnersUntouched
       DEF LaneSettleBadly, Invalidated, OpenSockets, wireVars, historyVars, TypeOK, SocketsTyped
  <1>15. CASE LaneCommit(s)
    BY <1>4, <1>15, OwnersUntouched DEF LaneCommit, EndAttempt, socketVars
  <1>16. CASE LaneQuiesce(s)
    BY <1>4, <1>16, OwnersUntouched
       DEF LaneQuiesce, Invalidated, OpenSockets, wireVars, socketVars, historyVars,
           TypeOK, SocketsTyped
  <1>17. CASE LaneDelete(s)
    BY <1>4, <1>6, <1>17, OwnersUntouched DEF LaneDelete, socketVars, historyVars
  <1>18. CASE LaneDeleteCommit(s)
    BY <1>4, <1>18, OwnersUntouched
       DEF LaneDeleteCommit, Invalidated, OpenSockets, wireVars, TypeOK, SocketsTyped
  <1>19. CASE LaneDeleteAbandoned(s)
    BY <1>4, <1>19, OwnersUntouched DEF LaneDeleteAbandoned, socketVars, historyVars
  <1>. QED
    BY <1>8, <1>9, <1>10, <1>11, <1>12, <1>13, <1>14, <1>15, <1>16, <1>17, <1>18, <1>19
       DEF LaneStep

(* The steps of a session keep edits with their owners.                     *)
LEMMA SessionStepOwned ==
    ASSUME TypeOK, EditOwners, NEW s \in Sessions, SessionStep(s)
    PROVE  EditOwners'
  <1>1. CASE ConstructRead(s)
    BY <1>1, OwnersUntouched
       DEF ConstructRead, ClosedByServer, OpenSockets, Acquirers, wireVars, historyVars,
           EditOwners, TypeOK, SocketsTyped
  <1>2. CASE ConstructDone(s)
    BY <1>2, AttachOwned DEF ConstructDone, Acquirers, wireVars, historyVars
  <1>3. CASE PauseTimeout(s)
    <2>1. PauseTimedOut(pause[s]) \in Pauses
      BY DEF TypeOK, PausesTyped, PauseTimedOut, PauseSettled, Pauses, PauseStates
    <2>2. LanesOwned(lane')
      BY <1>3, <2>1, LaneAfterOwned DEF TypeOK, EditOwners, PauseTimeout, PauseStep
    <2>. QED
      BY <1>3, <2>2, OwnersUntouched DEF PauseTimeout, socketVars, wireVars, historyVars
  <1>. QED
    BY <1>1, <1>2, <1>3, LaneStepOwned DEF SessionStep

(* An update is put on the lane of the session its socket is attached to.   *)
LEMMA ServerReceiveOwned ==
    ASSUME TypeOK, EditOwners, NEW k \in Sockets, ServerReceive(k)
    PROVE  EditOwners'
  <1>1. /\ lane \in [Sessions -> Seq(Commands)] /\ LanesOwned(lane)
        /\ up \in [Sockets -> Seq(Frames)] /\ up[k] # << >> /\ up[k] \in Seq(OwnFrames(k))
    BY DEF TypeOK, LanesTyped, WireTyped, EditOwners, FramesOwned, ServerReceive
  <1>2. Head(up[k]) \in OwnFrames(k) /\ Tail(up[k]) \in Seq(OwnFrames(k))
    BY <1>1
  <1>3. FramesOwned'
    BY <1>1, <1>2 DEF ServerReceive, EditOwners, FramesOwned, OwnFrames, WireTyped
  <1>4. AttachedOnce'
    BY DEF ServerReceive, EditOwners, AttachedOnce, ClosedByServer, OpenSockets,
           TypeOK, SocketsTyped
  <1>5. LanesOwned(lane')
    <2>1. CASE UNCHANGED lane
      BY <1>1, <2>1
    <2>2. CASE /\ IsCurrentSessionEditor(k) /\ Head(up[k]).op = "update"
               /\ lane' = Enqueued(lane, current, Command("update", Head(up[k]).n))
      <3> DEFINE e == Head(up[k]).n
      <3>1. current \in Sessions /\ sid[k] = current
        BY <2>2, BoundsAssumption DEF TypeOK, SessionsTyped, IsCurrentSessionEditor, Sessions
      <3>2. e \in sent[k] /\ e \in Edits
        BY <1>2, <2>2 DEF OwnFrames, Frames
      <3>3. e <= nEdits /\ Sender(e) = {k}
        BY <3>2 DEF EditOwners, OneSender, Sender
      <3>4. Command("update", e) \in Commands
        BY <3>2, BoundsAssumption, CommandType DEF LaneOps, Edits
      <3>5. Command("update", e) \in OwnCommands(current)
        BY <3>1, <3>3, <3>4 DEF OwnCommands, Command
      <3>. QED
        BY <1>1, <2>2, <3>1, <3>5, EnqueuedOwned
    <2>3. CASE /\ IsCurrentSessionEditor(k)
               /\ PauseStep(current, PauseMarkReady(pause[current], k))
      <3>1. current \in Sessions
        BY <2>3, BoundsAssumption DEF TypeOK, SessionsTyped, IsCurrentSessionEditor, Sessions
      <3>2. PauseMarkReady(pause[current], k) \in Pauses
        BY <3>1 DEF TypeOK, PausesTyped, PauseMarkReady, PauseSettled, Pauses, PauseStates
      <3>. QED
        BY <1>1, <2>3, <3>1, <3>2, LaneAfterOwned DEF TypeOK, PauseStep
    <2>. QED
      BY <2>1, <2>2, <2>3 DEF ServerReceive
  <1>6. LanesOwned(lane)'
    BY <1>5, SameOwners DEF ServerReceive
  <1>. QED
    BY <1>3, <1>4, <1>6 DEF ServerReceive, EditOwners, OneSender

(* A close takes frames off the wire and hands none over.                   *)
LEMMA CloseEventOwned ==
    ASSUME TypeOK, EditOwners, NEW k \in Sockets, CloseEvent(k)
    PROVE  EditOwners'
  <1>1. FramesOwned'
    <2>1. PICK n \in 0..Len(up[k]) : FramesLost(k, n)
      BY DEF CloseEvent
    <2>2. up[k] \in Seq(OwnFrames(k)) /\ up \in [Sockets -> Seq(Frames)]
      BY DEF EditOwners, FramesOwned, TypeOK, WireTyped
    <2>3. SubSeq(up[k], 1, n) \in Seq(OwnFrames(k))
      BY <2>2
    <2>. QED
      BY <2>1, <2>2, <2>3
         DEF FramesLost, EditOwners, FramesOwned, OwnFrames, CloseEvent, historyVars
  <1>2. AttachedOnce'
    BY DEF CloseEvent, EditOwners, AttachedOnce, TypeOK, SocketsTyped
  <1>3. LanesOwned(lane')
    <2>1. CASE UNCHANGED lane
      BY <2>1 DEF EditOwners
    <2>2. CASE current # 0 /\ lane' = LaneAfter(current, PauseSocketLost(pause[current], k))
      <3>1. current \in Sessions
        BY <2>2, BoundsAssumption DEF TypeOK, SessionsTyped, Sessions
      <3>2. PauseSocketLost(pause[current], k) \in Pauses
        BY <3>1 DEF TypeOK, PausesTyped, PauseSocketLost, PauseSettled, Pauses, PauseStates
      <3>. QED
        BY <2>2, <3>1, <3>2, LaneAfterOwned DEF TypeOK, EditOwners
    <2>. QED
      BY <2>1, <2>2 DEF CloseEvent, PauseStep, PublishesOnLeaving
  <1>4. LanesOwned(lane)'
    BY <1>3, SameOwners DEF CloseEvent, historyVars
  <1>. QED
    BY <1>1, <1>2, <1>4 DEF CloseEvent, historyVars, EditOwners, OneSender

(* A new edit has one sender, and its frame is on the wire of that one.     *)
LEMMA ClientEditOwned ==
    ASSUME TypeOK, EditOwners, NEW k \in Sockets, ClientEdit(k)
    PROVE  EditOwners'
  <1> DEFINE e == nEdits + 1
             f == [op |-> "update", n |-> e]
  <1>1. /\ e \in Edits /\ e \in 0..MaxEdits /\ nEdits \in Nat
        /\ sent \in [Sockets -> SUBSET Edits]
    BY BoundsAssumption DEF TypeOK, HistoryTyped, ClientEdit, Edits
  <1>2. \A m \in Sockets : e \notin sent[m]
    BY <1>1 DEF EditOwners, OneSender
  <1>3. OneSender'
    BY <1>1, <1>2, BoundsAssumption DEF ClientEdit, EditOwners, OneSender, Edits
  <1>4. FramesOwned'
    <2>1. up \in [Sockets -> Seq(Frames)] /\ \A m \in Sockets : up[m] \in Seq(OwnFrames(m))
      BY DEF TypeOK, WireTyped, EditOwners, FramesOwned
    <2>2. \A m \in Sockets : OwnFrames(m) \subseteq OwnFrames(m)'
      BY <1>1 DEF ClientEdit, OwnFrames
    <2>3. f \in OwnFrames(k)'
      BY <1>1 DEF ClientEdit, OwnFrames, Frames
    <2>4. \A m \in Sockets : up[m] \in Seq(OwnFrames(m)')
      BY <2>1, <2>2
    <2>5. Append(up[k], f) \in Seq(OwnFrames(k)')
      BY <2>3, <2>4
    <2>6. \A m \in Sockets : up'[m] \in Seq(OwnFrames(m)')
      BY <2>1, <2>4, <2>5 DEF ClientEdit
    <2>. QED
      BY <2>6 DEF FramesOwned
  <1>5. \A s \in Sessions : OwnCommands(s) \subseteq OwnCommands(s)'
    <2> SUFFICES ASSUME NEW s \in Sessions, NEW c \in OwnCommands(s),
                        c.op \in {"update", "materialize"}
                 PROVE  /\ c.n <= nEdits' /\ Sender(c.n)' # {}
                        /\ \A m \in Sender(c.n)' : sid'[m] = s
      BY DEF OwnCommands
    <2>1. /\ c.n <= nEdits /\ c.n \in Nat /\ Sender(c.n) # {}
          /\ \A m \in Sender(c.n) : sid[m] = s
      BY DEF OwnCommands, Commands
    <2>2. Sender(c.n)' = Sender(c.n)
      BY <1>1, <2>1 DEF ClientEdit, Sender
    <2>. QED
      BY <1>1, <2>1, <2>2 DEF ClientEdit, socketVars
  <1>6. LanesOwned(lane)'
    BY <1>5, OwnersKept DEF ClientEdit, EditOwners
  <1>7. AttachedOnce'
    BY DEF ClientEdit, socketVars, EditOwners, AttachedOnce
  <1>. QED
    BY <1>3, <1>4, <1>6, <1>7 DEF EditOwners

(* A ready ack is no edit.                                                  *)
LEMMA ClientReadyOwned ==
    ASSUME TypeOK, EditOwners, NEW k \in Sockets, ClientReady(k)
    PROVE  EditOwners'
  <1> DEFINE f == [op |-> "ready", n |-> nEdits]
  <1>1. f \in OwnFrames(k)
    BY DEF TypeOK, HistoryTyped, OwnFrames, Frames
  <1>2. up \in [Sockets -> Seq(Frames)] /\ \A m \in Sockets : up[m] \in Seq(OwnFrames(m))
    BY DEF TypeOK, WireTyped, EditOwners, FramesOwned
  <1>3. Append(up[k], f) \in Seq(OwnFrames(k))
    BY <1>1, <1>2
  <1>4. FramesOwned'
    BY <1>2, <1>3 DEF ClientReady, FramesOwned, OwnFrames, historyVars
  <1>5. LanesOwned(lane)'
    BY SameOwners DEF ClientReady, EditOwners, historyVars, socketVars
  <1>. QED
    BY <1>4, <1>5
       DEF ClientReady, EditOwners, OneSender, AttachedOnce, historyVars, socketVars

(* The steps of a socket keep edits with their owners.                      *)
LEMMA SocketStepOwned ==
    ASSUME TypeOK, EditOwners, NEW k \in Sockets, SocketStep(k)
    PROVE  EditOwners'
  <1>1. CASE Connect(k)
    <2>1. AttachedOnce'
      BY <1>1 DEF TypeOK, SocketsTyped, Connect, EditOwners, AttachedOnce
    <2>2. LanesOwned(lane)'
      BY <1>1, SameOwners DEF Connect, EditOwners, historyVars
    <2>. QED
      BY <1>1, <2>1, <2>2
         DEF Connect, EditOwners, OneSender, FramesOwned, OwnFrames, wireVars, historyVars
  <1>2. CASE Acquire(k)
    <2>1. CASE Attach({k}, promised) /\ promised # 0
      <3>1. promised \in Sessions
        BY <2>1, BoundsAssumption DEF TypeOK, SessionsTyped, Sessions
      <3>. QED
        BY <1>2, <2>1, <3>1, AttachOwned DEF Acquire, wireVars, historyVars
    <2>2. CASE /\ \/ acq' = [acq EXCEPT ![k] = "wait"] /\ UNCHANGED sock
                  \/ acq' = [acq EXCEPT ![k] = "none"] /\ ClosedByServer({k})
               /\ UNCHANGED <<lane, sid>>
      <3>1. AttachedOnce'
        BY <1>2, <2>2
           DEF TypeOK, SocketsTyped, Acquire, EditOwners, AttachedOnce, ClosedByServer, OpenSockets
      <3>2. LanesOwned(lane)'
        BY <1>2, <2>2, SameOwners DEF Acquire, EditOwners, historyVars
      <3>. QED
        BY <1>2, <3>1, <3>2
           DEF Acquire, EditOwners, OneSender, FramesOwned, OwnFrames, wireVars, historyVars
    <2>. QED
      BY <1>2, <2>1, <2>2 DEF Acquire
  <1>3. CASE LeaveDone(k)
    <2>1. waits[k] # 0 /\ acq' = acq /\ sock' = [sock EXCEPT ![k] = "closed"]
      BY <1>3 DEF LeaveDone
    <2>2. AttachedOnce'
      BY <1>3, <2>1 DEF TypeOK, SocketsTyped, LeaveDone, EditOwners, AttachedOnce
    <2>3. LanesOwned(lane)'
      BY <1>3, SameOwners DEF LeaveDone, EditOwners, historyVars
    <2>. QED
      BY <1>3, <2>2, <2>3
         DEF LeaveDone, EditOwners, OneSender, FramesOwned, OwnFrames, wireVars, historyVars
  <1>4. CASE ClientReceive(k)
    BY <1>4, OwnersUntouched DEF ClientReceive, EditOwners, socketVars, historyVars
  <1>. QED
    BY <1>1, <1>2, <1>3, <1>4, ServerReceiveOwned, CloseEventOwned, ClientEditOwned,
       ClientReadyOwned DEF SocketStep

(* Requests enqueue commands that carry no edit.                            *)
LEMMA RequestOwned ==
    ASSUME TypeOK, EditOwners, NEW s \in Sessions, NEW op \in {"phase1", "quiesce", "delete"},
           NEW n \in Nat, lane' = Enqueued(lane, s, Command(op, n)),
           UNCHANGED <<socketVars, up, historyVars>>
    PROVE  EditOwners'
  <1>1. Command(op, n) \in Commands
    BY CommandType DEF LaneOps
  <1>2. Command(op, n) \in OwnCommands(s)
    BY <1>1, OtherCommandOwned DEF Command
  <1>3. LanesOwned(lane')
    BY <1>2, EnqueuedOwned DEF TypeOK, LanesTyped, EditOwners
  <1>. QED
    BY <1>3, OwnersUntouched DEF socketVars, historyVars

(* Requests, restores and publish attempts move no edit.                    *)
LEMMA OtherStepOwned ==
    ASSUME TypeOK, EditOwners,
           Request \/ RestoreStep \/ (\E a \in Attempts : RunAttempt(a)) \/ UNCHANGED vars
    PROVE  EditOwners'
  <1>1. ASSUME UNCHANGED <<lane, socketVars, up, historyVars>> PROVE EditOwners'
    BY <1>1, OwnersUntouched DEF EditOwners, socketVars, historyVars
  <1>2. current = 0 \/ current \in Sessions
    BY BoundsAssumption DEF TypeOK, SessionsTyped, Sessions
  <1>3. ASSUME NEW a \in Attempts, RunAttempt(a) PROVE EditOwners'
    <2>1. CASE asess[a] \in Sessions
      BY <1>3, <2>1, RequestOwned, BoundsAssumption DEF RunAttempt, wireVars, Attempts
    <2>2. CASE asess[a] \notin Sessions
      BY <1>1, <1>3, <2>2 DEF RunAttempt, Enqueued, wireVars, TypeOK, LanesTyped
    <2>. QED
      BY <2>1, <2>2
  <1>4. CASE Request
    <2>1. CASE ForcePublish \/ RestoreBegin
      BY <1>1, <2>1 DEF ForcePublish, RestoreBegin, wireVars
    <2>2. CASE QuiesceFire
      BY <1>1, <1>2, <2>2, RequestOwned DEF QuiesceFire, wireVars
    <2>3. CASE DeleteRequest
      BY <1>2, <2>3, RequestOwned DEF DeleteRequest, wireVars
    <2>. QED
      BY <1>4, <2>1, <2>2, <2>3 DEF Request
  <1>5. CASE RestoreStep
    <2>1. CASE RestoreHandoff \/ RestoreLock
      BY <1>1, <2>1 DEF RestoreHandoff, RestoreLock, wireVars
    <2>2. CASE RestoreLand
      BY <2>2, OwnersUntouched
         DEF RestoreLand, Invalidated, OpenSockets, EditOwners, wireVars, historyVars,
             TypeOK, SocketsTyped
    <2>. QED
      BY <1>5, <2>1, <2>2 DEF RestoreStep
  <1>6. CASE UNCHANGED vars
    BY <1>1, <1>6 DEF vars, wireVars
  <1>. QED
    BY <1>3, <1>4, <1>5, <1>6

(* An update the server has taken from a socket is applied in the session    *)
(* that socket is attached to, whatever sessions came and went while it was  *)
(* in a lane: isCurrentSessionEditor, checked once at receipt, suffices.     *)
THEOREM EditsStay == Spec => []EditsStayInSession
<1>1. Init => EditOwners
  <2> SUFFICES ASSUME Init PROVE EditOwners
    OBVIOUS
  <2>1. OneSender /\ AttachedOnce
    BY DEF Init, OneSender, AttachedOnce
  <2>2. FramesOwned /\ LanesOwned(lane)
    BY DEF Init, FramesOwned, LanesOwned
  <2>. QED
    BY <2>1, <2>2 DEF EditOwners
<1>2. TypeOK /\ EditOwners /\ [Next]_vars => EditOwners'
  BY SessionStepOwned, SocketStepOwned, OtherStepOwned DEF Next
<1>3. TypeOK /\ EditOwners => EditsStayInSession
  <2> SUFFICES ASSUME EditOwners, NEW s \in Sessions, NEW i \in 1..Len(lane[s]),
                      lane[s][i].op \in {"update", "materialize"},
                      NEW k \in Sender(lane[s][i].n)
               PROVE  sid[k] = s
    BY DEF EditsStayInSession
  <2>1. lane[s][i] \in OwnCommands(s)
    BY DEF EditOwners, LanesOwned
  <2>. QED
    BY <2>1 DEF OwnCommands
<1>. QED
  BY <1>1, <1>2, <1>3, TypeCorrect, PTL DEF Spec

(***************************************************************************)
(* Proofs about the publish pause of DocSession, the chain of publish      *)
(* attempts and the freeze of the editors, for any number of sockets,      *)
(* sessions, attempts and edits.                                           *)
(***************************************************************************)

(* The books of a session.                                                   *)

(* The lane commands of a publish attempt, and where the attempt is while    *)
(* one of them is on the lane.                                               *)
PublishOps == {"phase1", "ready", "aborted", "commit"}
Stage(op) == IF op = "phase1" THEN "queued" ELSE "finalizing"

(* A command of attempt a is on lane q.                                      *)
Mentions(q, a) == \E i \in DOMAIN q : q[i].op \in PublishOps /\ q[i].n = a

(* The lane q of session s, with attempts at pc that belong to the sessions  *)
(* ow: a publish command is of an attempt of s at that stage, no attempt has *)
(* two commands, and a delete only ever commits at the head.                 *)
Orderly(q, s, pc, ow) ==
    /\ \A i \in DOMAIN q : q[i].op \in PublishOps =>
          /\ q[i].n \in Attempts
          /\ ow[q[i].n] = s /\ pc[q[i].n] = Stage(q[i].op)
    /\ \A i, j \in DOMAIN q :
          q[i].op \in PublishOps /\ q[j].op \in PublishOps /\ q[i].n = q[j].n => i = j
    /\ \A i \in DOMAIN q : q[i].op = "delete_commit" => i = 1

Reached(st) == st \in {"active", "ended"}

(* The attempts of s that are waiting for acks or past them.                 *)
Holding(s, pc, ow) == {a \in Attempts : ow[a] = s /\ pc[a] \in {"waiting", "finalizing"}}

(* The waiter of a pause is an attempt of the session that waits.            *)
WaiterWaits(s, p, pc, ow) ==
    p.waiter # 0 => /\ p.waiter \in Attempts /\ p.state = "pausing"
                    /\ ow[p.waiter] = s /\ pc[p.waiter] = "waiting"

(* At most one attempt holds the pause, which is not idle then, and none     *)
(* while a delete commits.                                                   *)
Single(s, q, p, pc, ow) ==
    /\ \A a \in Holding(s, pc, ow) : pc[a] = "waiting" => p.waiter = a
    /\ \A a, b \in Holding(s, pc, ow) : a = b
    /\ Holding(s, pc, ow) # {} => p.state # "idle"
    /\ (\E i \in DOMAIN q : q[i].op = "delete_commit") => Holding(s, pc, ow) = {}

(* The books of session s: its lane q, pause p and state st agree with the   *)
(* attempts that publish it.                                                 *)
Books(s, q, p, st, pc, ow) ==
    /\ Orderly(q, s, pc, ow)
    /\ WaiterWaits(s, p, pc, ow)
    /\ ~Reached(st) => /\ q = << >> /\ p = IdlePause
                       /\ \A a \in Attempts : ow[a] = s => pc[a] = "unused"
    /\ st = "active" => Single(s, q, p, pc, ow)

AttemptsCounted ==
    \A a \in Attempts : /\ a > nAttempts => apc[a] = "unused"
                        /\ apc[a] # "unused" => asess[a] \in Sessions

InBooks(l, p, st, pc, ow) ==
    \A s \in Sessions : Books(s, l[s], p[s], st[s], pc, ow)

AllBooks == AttemptsCounted /\ InBooks(lane, pause, sstate, apc, asess)

-----------------------------------------------------------------------------
(* Taking the head off an orderly lane leaves an orderly lane, with no other *)
(* command of the attempt it was for.                                        *)
LEMMA OrderlyTail ==
    ASSUME NEW q \in Seq(Commands), q # << >>, NEW s, NEW pc, NEW ow, Orderly(q, s, pc, ow)
    PROVE  /\ Orderly(Tail(q), s, pc, ow)
           /\ \A i \in DOMAIN Tail(q) : Tail(q)[i].op # "delete_commit"
           /\ Head(q).op \in PublishOps =>
                 /\ Head(q).n \in Attempts /\ ow[Head(q).n] = s
                 /\ pc[Head(q).n] = Stage(Head(q).op)
                 /\ ~Mentions(Tail(q), Head(q).n)
  <1>1. /\ 1 \in DOMAIN q /\ Head(q) = q[1]
        /\ \A i \in DOMAIN Tail(q) : i + 1 \in DOMAIN q /\ Tail(q)[i] = q[i + 1] /\ i \in Nat \ {0}
    OBVIOUS
  <1>2. \A i \in DOMAIN Tail(q) : Tail(q)[i].op # "delete_commit"
    BY <1>1 DEF Orderly
  <1>3. Orderly(Tail(q), s, pc, ow)
    BY <1>1, <1>2 DEF Orderly
  <1>4. ASSUME Head(q).op \in PublishOps PROVE ~Mentions(Tail(q), Head(q).n)
    BY <1>1, <1>4 DEF Orderly, Mentions
  <1>. QED
    BY <1>1, <1>2, <1>3, <1>4 DEF Orderly

(* A command may join the end of an orderly lane if it is no delete_commit   *)
(* and, when it is of an attempt, the attempt is there and has no other.     *)
LEMMA OrderlyAppend ==
    ASSUME NEW q \in Seq(Commands), NEW c \in Commands, NEW s, NEW pc, NEW ow,
           Orderly(q, s, pc, ow), c.op # "delete_commit",
           c.op \in PublishOps =>
              /\ c.n \in Attempts /\ ow[c.n] = s /\ pc[c.n] = Stage(c.op)
              /\ ~Mentions(q, c.n)
    PROVE  /\ Orderly(Append(q, c), s, pc, ow)
           /\ (\E i \in DOMAIN Append(q, c) : Append(q, c)[i].op = "delete_commit") =>
                 \E i \in DOMAIN q : q[i].op = "delete_commit"
  <1> DEFINE r == Append(q, c)
             n == Len(q) + 1
  <1>1. /\ n \in DOMAIN r /\ r[n] = c
        /\ \A i \in DOMAIN r : i = n \/ (i \in DOMAIN q /\ r[i] = q[i])
    OBVIOUS
  <1> HIDE DEF r, n
  <1>2. \A i \in DOMAIN r : r[i].op \in PublishOps =>
          /\ r[i].n \in Attempts
          /\ ow[r[i].n] = s /\ pc[r[i].n] = Stage(r[i].op)
    BY <1>1 DEF Orderly
  <1>3. \A i, j \in DOMAIN r :
          r[i].op \in PublishOps /\ r[j].op \in PublishOps /\ r[i].n = r[j].n => i = j
    BY <1>1 DEF Orderly, Mentions
  <1>4. \A i \in DOMAIN r : r[i].op = "delete_commit" => i = 1
    BY <1>1 DEF Orderly
  <1>5. (\E i \in DOMAIN r : r[i].op = "delete_commit") =>
           \E i \in DOMAIN q : q[i].op = "delete_commit"
    BY <1>1
  <1>. QED
    BY <1>2, <1>3, <1>4, <1>5 DEF Orderly, r

(* The running command may be replaced by one that goes on.                  *)
LEMMA OrderlyContinued ==
    ASSUME NEW q \in Seq(Commands), q # << >>, NEW c \in Commands, NEW s, NEW pc, NEW ow,
           Orderly(Tail(q), s, pc, ow), \A i \in DOMAIN Tail(q) : Tail(q)[i].op # "delete_commit",
           c.op \in PublishOps =>
              /\ c.n \in Attempts /\ ow[c.n] = s /\ pc[c.n] = Stage(c.op)
              /\ ~Mentions(Tail(q), c.n)
    PROVE  /\ Orderly(<<c>> \o Tail(q), s, pc, ow)
           /\ (\E i \in DOMAIN (<<c>> \o Tail(q)) : (<<c>> \o Tail(q))[i].op = "delete_commit") =>
                 c.op = "delete_commit"
  <1>1. PICK r : r = <<c>> \o Tail(q)
    OBVIOUS
  <1>2. PICK t \in Seq(Commands) : t = Tail(q)
    <2>1. Tail(q) \in Seq(Commands)
      OBVIOUS
    <2>. QED
      BY <2>1
  <1>3. PICK h \in Seq(Commands) : h = <<c>> /\ Len(h) = 1 /\ h[1] = c
    <2>1. <<c>> \in Seq(Commands) /\ Len(<<c>>) = 1 /\ <<c>>[1] = c
      OBVIOUS
    <2>. QED
      BY <2>1
  <1>4. r = h \o t
    BY <1>1, <1>2, <1>3
  <1>5. /\ 1 \in DOMAIN r /\ r[1] = c
        /\ \A i \in DOMAIN r : i # 1 => i - 1 \in DOMAIN t /\ r[i] = t[i - 1] /\ i \in Nat
    BY <1>3, <1>4
  <1>6. \A i \in DOMAIN r : r[i].op \in PublishOps =>
          /\ r[i].n \in Attempts
          /\ ow[r[i].n] = s /\ pc[r[i].n] = Stage(r[i].op)
    BY <1>2, <1>5 DEF Orderly
  <1>7. \A i, j \in DOMAIN r :
          r[i].op \in PublishOps /\ r[j].op \in PublishOps /\ r[i].n = r[j].n => i = j
    <2> SUFFICES ASSUME NEW i \in DOMAIN r, NEW j \in DOMAIN r,
                        r[i].op \in PublishOps, r[j].op \in PublishOps, r[i].n = r[j].n
                 PROVE  i = j
      OBVIOUS
    <2>1. CASE i = 1
      BY <1>2, <1>5, <2>1 DEF Mentions
    <2>2. CASE j = 1
      BY <1>2, <1>5, <2>2 DEF Mentions
    <2>3. CASE i # 1 /\ j # 1
      <3>1. i - 1 \in DOMAIN t /\ j - 1 \in DOMAIN t /\ r[i] = t[i - 1] /\ r[j] = t[j - 1]
        BY <1>5, <2>3
      <3>2. i - 1 = j - 1
        BY <1>2, <3>1 DEF Orderly
      <3>. QED
        BY <1>5, <2>3, <3>2
    <2>. QED
      BY <2>1, <2>2, <2>3
  <1>8. \A i \in DOMAIN r : r[i].op = "delete_commit" => i = 1
    BY <1>2, <1>5
  <1>9. (\E i \in DOMAIN r : r[i].op = "delete_commit") => c.op = "delete_commit"
    BY <1>2, <1>5, <1>8
  <1>. QED
    BY <1>1, <1>6, <1>7, <1>8, <1>9 DEF Orderly

(* Only the attempts with a command on the lane matter to it.                *)
LEMMA OrderlyElsewhere ==
    ASSUME NEW q, NEW s, NEW pc, NEW ow, NEW pc2, NEW ow2, Orderly(q, s, pc, ow),
           \A a \in Attempts : Mentions(q, a) => pc2[a] = pc[a] /\ ow2[a] = ow[a]
    PROVE  Orderly(q, s, pc2, ow2)
  <1>1. ASSUME NEW i \in DOMAIN q, q[i].op \in PublishOps
        PROVE  /\ q[i].n \in Attempts
               /\ ow2[q[i].n] = s /\ pc2[q[i].n] = Stage(q[i].op)
    <2>1. q[i].n \in Attempts /\ Mentions(q, q[i].n)
      BY <1>1 DEF Orderly, Mentions
    <2>. QED
      BY <1>1, <2>1 DEF Orderly
  <1>. QED
    BY <1>1 DEF Orderly

(* An attempt with a command on an orderly lane has been queued and is the   *)
(* session's.                                                                *)
LEMMA MentionedAttempt ==
    ASSUME NEW q, NEW s, NEW pc, NEW ow, NEW a, Orderly(q, s, pc, ow), Mentions(q, a)
    PROVE  a \in Attempts /\ ow[a] = s /\ pc[a] \in {"queued", "finalizing"}
  BY DEF Orderly, Mentions, Stage

-----------------------------------------------------------------------------
(* The books of a session when something else than its lane changes: the     *)
(* session ends, it is not reached yet, or an unused attempt is chained.     *)
LEMMA BooksElsewhere ==
    ASSUME NEW t \in Sessions, NEW q, NEW p, NEW st, NEW pc, NEW ow,
           Books(t, q, p, st, pc, ow), NEW p2, NEW st2, NEW pc2, NEW ow2,
           \/ st2 = st /\ p2 = p
           \/ st2 = "ended" /\ p2 \in {p, IdlePause}
           \/ ~Reached(st) /\ p2 = p,
           \A a \in Attempts : ow[a] = t \/ ow2[a] = t =>
              \/ pc2[a] = pc[a] /\ ow2[a] = ow[a]
              \/ pc[a] = "unused" /\ pc2[a] = "chained" /\ (ow2[a] = t => Reached(st2))
    PROVE  Books(t, q, p2, st2, pc2, ow2)
  <1>1. Orderly(q, t, pc2, ow2)
    <2>1. \A a \in Attempts : Mentions(q, a) => pc2[a] = pc[a] /\ ow2[a] = ow[a]
      BY MentionedAttempt DEF Books
    <2>. QED
      BY <2>1, OrderlyElsewhere DEF Books
  <1>2. WaiterWaits(t, p2, pc2, ow2)
    BY DEF Books, WaiterWaits, IdlePause
  <1>3. ASSUME ~Reached(st2)
        PROVE  /\ q = << >> /\ p2 = IdlePause
               /\ \A a \in Attempts : ow2[a] = t => pc2[a] = "unused"
    <2>1. ~Reached(st) /\ p2 = p
      BY <1>3 DEF Reached
    <2>. QED
      BY <1>3, <2>1 DEF Books
  <1>4. ASSUME st2 = "active" PROVE Single(t, q, p2, pc2, ow2)
    <2>1. CASE st = "active"
      <3>1. Holding(t, pc2, ow2) = Holding(t, pc, ow)
        BY DEF Holding
      <3>2. \A a \in Holding(t, pc, ow) : pc2[a] = pc[a]
        BY DEF Holding
      <3>3. p2 = p
        BY <1>4, <2>1
      <3>4. Single(t, q, p, pc, ow)
        BY <2>1 DEF Books
      <3>. QED
        BY <3>1, <3>2, <3>3, <3>4 DEF Single
    <2>2. CASE ~Reached(st)
      <3>1. Holding(t, pc2, ow2) = {}
        BY <2>2 DEF Holding, Books
      <3>. QED
        BY <3>1 DEF Single
    <2>. QED
      BY <1>4, <2>1, <2>2 DEF Reached
  <1>. QED
    BY <1>1, <1>2, <1>3, <1>4 DEF Books

(* A command that is no publish command may join the lane of a session.      *)
LEMMA BooksAppend ==
    ASSUME NEW s, NEW q \in Seq(Commands), NEW p, NEW st, NEW pc, NEW ow,
           Books(s, q, p, st, pc, ow), Reached(st), NEW c \in Commands,
           c.op \notin PublishOps \cup {"delete_commit"}
    PROVE  Books(s, Append(q, c), p, st, pc, ow)
  <1>1. /\ Orderly(Append(q, c), s, pc, ow)
        /\ (\E i \in DOMAIN Append(q, c) : Append(q, c)[i].op = "delete_commit") =>
              \E i \in DOMAIN q : q[i].op = "delete_commit"
    BY OrderlyAppend, Zenon DEF Books
  <1>. QED
    BY <1>1, Zenon DEF Books, Single

(* ... and may leave it, at the end of what it does.                         *)
LEMMA BooksPopped ==
    ASSUME NEW s, NEW q \in Seq(Commands), q # << >>, NEW p, NEW st, NEW pc, NEW ow,
           Books(s, q, p, st, pc, ow), Head(q).op \notin PublishOps
    PROVE  Books(s, Tail(q), p, st, pc, ow)
  <1>1. /\ Orderly(Tail(q), s, pc, ow)
        /\ \A i \in DOMAIN Tail(q) : Tail(q)[i].op # "delete_commit"
    BY OrderlyTail, Zenon DEF Books
  <1>. QED
    BY <1>1, Zenon DEF Books, Single

(* ... or go on as another.                                                  *)
LEMMA BooksContinued ==
    ASSUME NEW s, NEW q \in Seq(Commands), q # << >>, NEW p, NEW st, NEW pc, NEW ow,
           Books(s, q, p, st, pc, ow), Head(q).op \notin PublishOps, NEW c \in Commands,
           c.op \notin PublishOps \cup {"delete_commit"}
    PROVE  Books(s, <<c>> \o Tail(q), p, st, pc, ow)
  <1>1. /\ Orderly(Tail(q), s, pc, ow)
        /\ \A i \in DOMAIN Tail(q) : Tail(q)[i].op # "delete_commit"
    BY OrderlyTail, Zenon DEF Books
  <1>2. /\ Orderly(<<c>> \o Tail(q), s, pc, ow)
        /\ (\E i \in DOMAIN (<<c>> \o Tail(q)) :
               (<<c>> \o Tail(q))[i].op = "delete_commit") => c.op = "delete_commit"
    BY <1>1, OrderlyContinued, Zenon
  <1>. QED
    BY <1>2, Zenon DEF Books, Single

(* A delete that finds no pause freezes the editors and goes on to commit.   *)
LEMMA BooksDelete ==
    ASSUME NEW s, NEW q \in Seq(Commands), q # << >>, NEW p, NEW st, NEW pc, NEW ow,
           Books(s, q, p, st, pc, ow), st = "active", p.state = "idle",
           Head(q).op = "delete", NEW c \in Commands, c.op = "delete_commit",
           NEW p2, p2.waiter = 0
    PROVE  Books(s, <<c>> \o Tail(q), p2, st, pc, ow)
  <1>1. /\ Orderly(Tail(q), s, pc, ow)
        /\ \A i \in DOMAIN Tail(q) : Tail(q)[i].op # "delete_commit"
    BY OrderlyTail, Zenon DEF Books
  <1>2. c.op \notin PublishOps
    BY DEF PublishOps
  <1>3. Orderly(<<c>> \o Tail(q), s, pc, ow)
    BY <1>1, <1>2, OrderlyContinued, Zenon
  <1>4. Holding(s, pc, ow) = {}
    BY DEF Books, Single
  <1>. QED
    BY <1>3, <1>4 DEF Books, Single, WaiterWaits, Reached

(* A delete that is abandoned ends the pause it started.                     *)
LEMMA BooksDeleteAbandoned ==
    ASSUME NEW s, NEW q \in Seq(Commands), q # << >>, NEW p, NEW st, NEW pc, NEW ow,
           Books(s, q, p, st, pc, ow), Head(q).op = "delete_commit"
    PROVE  Books(s, Tail(q), IdlePause, st, pc, ow)
  <1>1. /\ Orderly(Tail(q), s, pc, ow)
        /\ \A i \in DOMAIN Tail(q) : Tail(q)[i].op # "delete_commit"
    BY OrderlyTail, Zenon DEF Books
  <1>2. \E i \in DOMAIN q : q[i].op = "delete_commit"
    <2>1. 1 \in DOMAIN q /\ Head(q) = q[1]
      OBVIOUS
    <2>. QED
      BY <2>1
  <1>3. st = "active" => Holding(s, pc, ow) = {}
    BY <1>2 DEF Books, Single
  <1>. QED
    BY <1>1, <1>3 DEF Books, Single, WaiterWaits, Reached, IdlePause

(* An attempt that ends: with nothing to publish, leaving the pause alone,   *)
(* or at the end of finalizeAndEnd, which ends the pause.                    *)
LEMMA BooksFinish ==
    ASSUME NEW s, NEW q \in Seq(Commands), q # << >>, NEW p, NEW st,
           NEW pc \in [Attempts -> AttemptStates], NEW ow,
           Books(s, q, p, st, pc, ow), Head(q).op \in PublishOps, NEW pc2,
           pc2 = [pc EXCEPT ![Head(q).n] = "done"], NEW p2,
           p2 = IF Head(q).op = "phase1" THEN p ELSE IdlePause
    PROVE  Books(s, Tail(q), p2, st, pc2, ow)
  <1> DEFINE a == Head(q).n
  <1>1. /\ Orderly(Tail(q), s, pc, ow)
        /\ \A i \in DOMAIN Tail(q) : Tail(q)[i].op # "delete_commit"
        /\ a \in Attempts /\ ow[a] = s /\ pc[a] = Stage(Head(q).op)
        /\ ~Mentions(Tail(q), a)
    <2>1. Orderly(q, s, pc, ow)
      BY DEF Books
    <2>. QED
      BY <2>1, OrderlyTail
  <1>2. \A b \in Attempts : b # a => pc2[b] = pc[b]
    OBVIOUS
  <1>3. pc2[a] = "done"
    BY <1>1
  <1> HIDE DEF a
  <1>4. Orderly(Tail(q), s, pc2, ow)
    BY <1>1, <1>2, OrderlyElsewhere
  <1>5. Reached(st)
    BY DEF Books
  <1>6. CASE Head(q).op = "phase1"
    <2>1. Holding(s, pc2, ow) = Holding(s, pc, ow)
      BY <1>1, <1>2, <1>3, <1>6 DEF Holding, Stage
    <2>2. WaiterWaits(s, p, pc2, ow)
      BY <1>1, <1>2, <1>6 DEF Books, WaiterWaits, Stage
    <2>3. \A b \in Holding(s, pc, ow) : pc2[b] = pc[b]
      BY <1>1, <1>2, <1>6 DEF Holding, Stage
    <2>. QED
      BY <1>1, <1>4, <1>5, <1>6, <2>1, <2>2, <2>3 DEF Books, Single
  <1>7. CASE Head(q).op # "phase1"
    <2>1. a \in Holding(s, pc, ow)
      BY <1>1, <1>7 DEF Holding, Stage
    <2>2. st = "active" => Holding(s, pc2, ow) = {}
      <3> SUFFICES ASSUME st = "active", NEW b \in Holding(s, pc2, ow) PROVE FALSE
        OBVIOUS
      <3>1. b # a /\ b \in Holding(s, pc, ow)
        BY <1>2, <1>3 DEF Holding
      <3>. QED
        BY <2>1, <3>1 DEF Books, Single
    <2>. QED
      BY <1>4, <1>5, <1>7, <2>2 DEF Books, Single, WaiterWaits, IdlePause
  <1>. QED
    BY <1>6, <1>7

(* An attempt that finds the session's pause idle starts it, and waits for   *)
(* the editors or, with none, goes on at once.                               *)
LEMMA BooksStart ==
    ASSUME NEW s, NEW q \in Seq(Commands), q # << >>, NEW p, NEW st,
           NEW pc \in [Attempts -> AttemptStates], NEW ow,
           Books(s, q, p, st, pc, ow), Head(q).op = "phase1", p.state = "idle",
           NEW ks, NEW pc2, NEW q2,
           q2 = IF ks = {} THEN <<Command("ready", Head(q).n)>> \o Tail(q) ELSE Tail(q),
           pc2 = [pc EXCEPT ![Head(q).n] = IF ks = {} THEN "finalizing" ELSE "waiting"]
    PROVE  Books(s, q2, PauseStarted(ks, Head(q).n), st, pc2, ow)
  <1> DEFINE a == Head(q).n
             c == Command("ready", a)
             p2 == PauseStarted(ks, a)
  <1>1. /\ Orderly(Tail(q), s, pc, ow)
        /\ \A i \in DOMAIN Tail(q) : Tail(q)[i].op # "delete_commit"
        /\ a \in Attempts /\ ow[a] = s /\ pc[a] = Stage(Head(q).op)
        /\ ~Mentions(Tail(q), a)
    <2>1. Head(q).op \in PublishOps
      BY DEF PublishOps
    <2>2. Orderly(q, s, pc, ow)
      BY DEF Books
    <2> HIDE DEF c, p2
    <2>. QED
      BY <2>1, <2>2, OrderlyTail
  <1>2. \A b \in Attempts : b # a => pc2[b] = pc[b]
    OBVIOUS
  <1>3. pc2[a] = IF ks = {} THEN "finalizing" ELSE "waiting"
    BY <1>1
  <1>4. Orderly(Tail(q), s, pc2, ow)
    BY <1>1, <1>2, OrderlyElsewhere
  <1>5. c \in Commands /\ c.op = "ready" /\ c.n = a
    BY <1>1, CommandType, BoundsAssumption DEF LaneOps, Command, Attempts
  <1>6. /\ Orderly(q2, s, pc2, ow)
        /\ \A i \in DOMAIN q2 : q2[i].op # "delete_commit"
    <2>1. CASE ks # {}
      BY <1>1, <1>4, <2>1
    <2>2. CASE ks = {}
      <3>1. c.op \in PublishOps /\ pc2[a] = Stage(c.op) /\ c.op # "delete_commit"
        BY <1>3, <1>5, <2>2 DEF PublishOps, Stage
      <3>2. q2 = <<c>> \o Tail(q)
        BY <2>2
      <3> HIDE DEF a, c
      <3>3. /\ Orderly(<<c>> \o Tail(q), s, pc2, ow)
            /\ (\E i \in DOMAIN (<<c>> \o Tail(q)) :
                   (<<c>> \o Tail(q))[i].op = "delete_commit") => c.op = "delete_commit"
        BY <1>1, <1>4, <1>5, <3>1, OrderlyContinued, Zenon
      <3>. QED
        BY <3>1, <3>2, <3>3, Zenon
    <2>. QED
      BY <2>1, <2>2
  <1>7. /\ p2.state # "idle" /\ p2.waiter = (IF ks = {} THEN 0 ELSE a)
        /\ ks # {} => p2.state = "pausing"
    BY DEF PauseStarted, IdlePause
  <1>8. st = "active" => \A b \in Holding(s, pc2, ow) : b = a
    <2>1. st = "active" => Holding(s, pc, ow) = {}
      BY DEF Books, Single
    <2>. QED
      BY <1>2, <2>1 DEF Holding
  <1>9. Reached(st)
    BY DEF Books
  <1> HIDE DEF a, c, p2
  <1>10. WaiterWaits(s, p2, pc2, ow)
    BY <1>1, <1>3, <1>7 DEF WaiterWaits
  <1>11. st = "active" => Single(s, q2, p2, pc2, ow)
    BY <1>3, <1>6, <1>7, <1>8 DEF Single
  <1>12. Books(s, q2, p2, st, pc2, ow)
    BY <1>6, <1>9, <1>10, <1>11 DEF Books
  <1>. QED
    BY <1>12 DEF p2, a

(* An attempt that has settled the live fragments goes on to commit.         *)
LEMMA BooksCommit ==
    ASSUME NEW s, NEW q \in Seq(Commands), q # << >>, NEW p, NEW st, NEW pc, NEW ow,
           Books(s, q, p, st, pc, ow), Head(q).op = "ready"
    PROVE  Books(s, <<Command("commit", Head(q).n)>> \o Tail(q), p, st, pc, ow)
  <1> DEFINE a == Head(q).n
             c == Command("commit", a)
  <1>1. /\ Orderly(Tail(q), s, pc, ow)
        /\ \A i \in DOMAIN Tail(q) : Tail(q)[i].op # "delete_commit"
        /\ a \in Attempts /\ ow[a] = s /\ pc[a] = Stage("ready")
        /\ ~Mentions(Tail(q), a)
    <2>1. Orderly(q, s, pc, ow) /\ Head(q).op \in PublishOps
      BY DEF Books, PublishOps
    <2> HIDE DEF c
    <2>. QED
      BY <2>1, OrderlyTail
  <1>2. c \in Commands /\ c.op = "commit" /\ c.n = a
    BY <1>1, CommandType, BoundsAssumption DEF LaneOps, Command, Attempts
  <1>3. pc[a] = Stage(c.op) /\ c.op # "delete_commit"
    BY <1>1, <1>2 DEF Stage
  <1> HIDE DEF a, c
  <1>4. /\ Orderly(<<c>> \o Tail(q), s, pc, ow)
        /\ (\E i \in DOMAIN (<<c>> \o Tail(q)) :
               (<<c>> \o Tail(q))[i].op = "delete_commit") => c.op = "delete_commit"
    BY <1>1, <1>2, <1>3, OrderlyContinued, Zenon
  <1>5. Books(s, <<c>> \o Tail(q), p, st, pc, ow)
    BY <1>3, <1>4, Zenon DEF Books, Single
  <1>. QED
    BY <1>5 DEF c, a

(* The next attempt in the chain starts: its first command joins the lane.   *)
LEMMA BooksQueued ==
    ASSUME NEW s, NEW q \in Seq(Commands), NEW p, NEW st,
           NEW pc \in [Attempts -> AttemptStates], NEW ow,
           Books(s, q, p, st, pc, ow), NEW a \in Attempts, ow[a] = s, pc[a] = "chained",
           NEW pc2, pc2 = [pc EXCEPT ![a] = "queued"]
    PROVE  Books(s, Append(q, Command("phase1", a)), p, st, pc2, ow)
  <1> DEFINE c == Command("phase1", a)
  <1>1. c \in Commands /\ c.op = "phase1" /\ c.n = a
    BY CommandType, BoundsAssumption DEF LaneOps, Command, Attempts
  <1>2. ~Mentions(q, a)
    BY MentionedAttempt DEF Books
  <1>3. Orderly(q, s, pc2, ow)
    BY <1>2, OrderlyElsewhere DEF Books
  <1>4. pc2[a] = Stage(c.op) /\ c.op # "delete_commit"
    BY <1>1 DEF Stage
  <1> HIDE DEF c
  <1>5. /\ Orderly(Append(q, c), s, pc2, ow)
        /\ (\E i \in DOMAIN Append(q, c) : Append(q, c)[i].op = "delete_commit") =>
              \E i \in DOMAIN q : q[i].op = "delete_commit"
    BY <1>1, <1>2, <1>3, <1>4, OrderlyAppend, Zenon
  <1>6. Holding(s, pc2, ow) = Holding(s, pc, ow) /\ \A b \in Holding(s, pc, ow) : pc2[b] = pc[b]
    BY DEF Holding
  <1>7. WaiterWaits(s, p, pc2, ow)
    BY DEF Books, WaiterWaits
  <1>8. Reached(st)
    BY DEF Books
  <1>9. st = "active" => Single(s, Append(q, c), p, pc2, ow)
    <2>1. st = "active" => Single(s, q, p, pc, ow)
      BY DEF Books
    <2>. QED
      BY <1>5, <1>6, <2>1 DEF Single
  <1>10. Books(s, Append(q, c), p, st, pc2, ow)
    BY <1>5, <1>7, <1>8, <1>9 DEF Books
  <1>. QED
    BY <1>10 DEF c

(* What an ack, a lost socket or the timeout makes of a pause: nothing that  *)
(* matters to the attempt, or the end of its wait.                           *)
PauseMoved(p, q) ==
    \/ q = p
    \/ p.state = "pausing" /\ q.state = "pausing" /\ q.waiter = p.waiter
    \/ p.state = "pausing" /\ q.state \in {"ready", "aborted"} /\ q.waiter = 0

(* Acks, lost sockets and the timeout move the pause.                        *)
LEMMA PauseMoves ==
    ASSUME NEW p \in Pauses, NEW k
    PROVE  /\ PauseMoved(p, PauseMarkReady(p, k))
           /\ PauseMoved(p, PauseSocketLost(p, k))
           /\ PauseMoved(p, PauseTimedOut(p))
  BY DEF Pauses, PauseMoved, PauseMarkReady, PauseSocketLost, PauseTimedOut, PauseSettled

(* A pause that moves takes the attempt it held along: the attempt that      *)
(* waited is resumed once, with one command on the lane.                     *)
LEMMA BooksResumed ==
    ASSUME TypeOK, NEW s \in Sessions,
           Books(s, lane[s], pause[s], sstate[s], apc, asess),
           NEW q \in Pauses, PauseMoved(pause[s], q)
    PROVE  /\ Books(s, LaneAfter(s, q)[s], q, sstate[s], ApcAfter(s, q), asess)
           /\ ApcAfter(s, q) \in [Attempts -> AttemptStates]
           /\ LaneAfter(s, q) \in [Sessions -> Seq(Commands)]
           /\ \A t \in Sessions : t # s => LaneAfter(s, q)[t] = lane[t]
           /\ \A b \in Attempts :
                 \/ ApcAfter(s, q)[b] = apc[b]
                 \/ asess[b] = s /\ apc[b] = "waiting" /\ ApcAfter(s, q)[b] = "finalizing"
  <1> DEFINE w == PauseResumes(pause[s], q)
             p == pause[s]
             l == lane[s]
  <1>1. /\ lane \in [Sessions -> Seq(Commands)] /\ l \in Seq(Commands)
        /\ p \in Pauses /\ apc \in [Attempts -> AttemptStates]
    BY DEF TypeOK, LanesTyped, PausesTyped, AttemptsTyped
  <1>2. CASE w = 0
    <2>1. LaneAfter(s, q) = lane /\ ApcAfter(s, q) = apc
      BY <1>2 DEF LaneAfter, ApcAfter
    <2>2. \/ q = p
          \/ p.state = "pausing" /\ q.state = "pausing" /\ q.waiter = p.waiter
          \/ p.state = "pausing" /\ q.waiter = 0 /\ q.state # "idle" /\ p.waiter = 0
      BY <1>2 DEF PauseMoved, PauseResumes
    <2>3. Books(s, l, p, sstate[s], apc, asess)
      OBVIOUS
    <2>4. WaiterWaits(s, q, apc, asess)
      BY <2>2, <2>3 DEF Books, WaiterWaits
    <2>5. Reached(sstate[s]) \/ q = p
      BY <2>2, <2>3 DEF Books, IdlePause
    <2> HIDE DEF p, l
    <2>6. sstate[s] = "active" => Single(s, l, q, apc, asess)
      BY <2>2, <2>3 DEF Books, Single
    <2>7. Books(s, l, q, sstate[s], apc, asess)
      BY <2>3, <2>4, <2>5, <2>6 DEF Books
    <2>. QED
      BY <1>1, <2>1, <2>7 DEF l
  <1>3. CASE w # 0
    <2>1. /\ w = p.waiter /\ p.state = "pausing" /\ q.state \in {"ready", "aborted"}
          /\ w # 0 /\ q.waiter = 0
      BY <1>3 DEF PauseMoved, PauseResumes, Pauses
    <2>2. Books(s, l, p, sstate[s], apc, asess)
      OBVIOUS
    <2>3. w \in Attempts /\ asess[w] = s /\ apc[w] = "waiting"
      BY <2>1, <2>2 DEF Books, WaiterWaits
    <2> DEFINE c   == Command(q.state, w)
               pc2 == [apc EXCEPT ![w] = "finalizing"]
    <2>4. /\ LaneAfter(s, q) = Enqueued(lane, s, c) /\ ApcAfter(s, q) = pc2
      BY <1>3 DEF LaneAfter, ApcAfter
    <2>5. c \in Commands /\ c.op = q.state /\ c.n = w
      BY <2>1, <2>3, CommandType, BoundsAssumption DEF LaneOps, Command, Attempts
    <2>6. /\ Enqueued(lane, s, c) \in [Sessions -> Seq(Commands)]
          /\ Enqueued(lane, s, c)[s] = Append(l, c)
          /\ \A t \in Sessions : t # s => Enqueued(lane, s, c)[t] = lane[t]
      BY <1>1, <2>5, EnqueuedType DEF Enqueued
    <2>7. /\ pc2 \in [Attempts -> AttemptStates] /\ pc2[w] = "finalizing"
          /\ \A b \in Attempts : b # w => pc2[b] = apc[b]
      BY <1>1, <2>3 DEF AttemptStates
    <2>8. Reached(sstate[s])
      BY <2>1, <2>2 DEF Books, IdlePause
    <2> HIDE DEF c, pc2, w, l, p
    <2>9. ~Mentions(l, w)
      BY <2>2, <2>3, MentionedAttempt DEF Books
    <2>10. Orderly(l, s, pc2, asess)
      BY <2>2, <2>7, <2>9, OrderlyElsewhere DEF Books
    <2>11. c.op \in PublishOps /\ c.op # "delete_commit" /\ pc2[w] = Stage(c.op)
      BY <2>1, <2>5, <2>7 DEF PublishOps, Stage
    <2>12. /\ Orderly(Append(l, c), s, pc2, asess)
           /\ (\E i \in DOMAIN Append(l, c) : Append(l, c)[i].op = "delete_commit") =>
                 \E i \in DOMAIN l : l[i].op = "delete_commit"
      BY <1>1, <2>3, <2>5, <2>9, <2>10, <2>11, OrderlyAppend, Zenon
    <2>13. WaiterWaits(s, q, pc2, asess)
      BY <2>1 DEF WaiterWaits
    <2>14. sstate[s] = "active" => Single(s, Append(l, c), q, pc2, asess)
      <3>1. Holding(s, pc2, asess) = Holding(s, apc, asess) /\ w \in Holding(s, apc, asess)
        BY <2>3, <2>7 DEF Holding
      <3>2. sstate[s] = "active" => Single(s, l, p, apc, asess)
        BY <2>2 DEF Books
      <3>. QED
        BY <2>1, <2>7, <2>12, <3>1, <3>2 DEF Single
    <2>15. Books(s, Append(l, c), q, sstate[s], pc2, asess)
      BY <2>8, <2>12, <2>13, <2>14 DEF Books
    <2>. QED
      BY <2>3, <2>4, <2>6, <2>7, <2>15
  <1>. QED
    BY <1>2, <1>3

-----------------------------------------------------------------------------
(* A step of one session, its lane, its pause and its attempts, leaves the   *)
(* books of the others as they are.                                          *)
LEMMA OneSessionMoves ==
    ASSUME InBooks(lane, pause, sstate, apc, asess), NEW s \in Sessions,
           NEW l2, NEW p2, NEW pc2, Books(s, l2[s], p2[s], sstate[s], pc2, asess),
           \A t \in Sessions : t # s => l2[t] = lane[t] /\ p2[t] = pause[t],
           \A b \in Attempts : pc2[b] = apc[b] \/ asess[b] = s
    PROVE  InBooks(l2, p2, sstate, pc2, asess)
  <1> SUFFICES ASSUME NEW t \in Sessions, t # s
               PROVE  Books(t, l2[t], p2[t], sstate[t], pc2, asess)
    BY DEF InBooks
  <1>1. Books(t, lane[t], pause[t], sstate[t], apc, asess)
    BY DEF InBooks
  <1>2. Books(t, lane[t], pause[t], sstate[t], pc2, asess)
    BY <1>1, BooksElsewhere
  <1>. QED
    BY <1>2

(* Sessions that end, or have not been reached, stay in the books.           *)
LEMMA SessionsMove ==
    ASSUME NEW l, NEW p, NEW st, NEW pc, NEW ow, InBooks(l, p, st, pc, ow), NEW p2, NEW st2,
           \A t \in Sessions : \/ st2[t] = st[t] /\ p2[t] = p[t]
                               \/ st2[t] = "ended" /\ p2[t] \in {p[t], IdlePause}
                               \/ ~Reached(st[t]) /\ p2[t] = p[t]
    PROVE  InBooks(l, p2, st2, pc, ow)
  <1> SUFFICES ASSUME NEW t \in Sessions
               PROVE  Books(t, l[t], p2[t], st2[t], pc, ow)
    BY DEF InBooks
  <1>1. Books(t, l[t], p[t], st[t], pc, ow)
    BY DEF InBooks
  <1>. QED
    BY <1>1, BooksElsewhere

(* A new attempt on a session that has been live enters the books.           *)
LEMMA AttemptMoves ==
    ASSUME NEW l, NEW p, NEW st, NEW pc \in [Attempts -> AttemptStates],
           NEW ow \in [Attempts -> 0..MaxSessions], InBooks(l, p, st, pc, ow),
           NEW s \in Sessions, Reached(st[s]), NEW a \in Attempts, pc[a] = "unused"
    PROVE  InBooks(l, p, st, [pc EXCEPT ![a] = "chained"], [ow EXCEPT ![a] = s])
  <1> SUFFICES ASSUME NEW t \in Sessions
               PROVE  Books(t, l[t], p[t], st[t],
                            [pc EXCEPT ![a] = "chained"], [ow EXCEPT ![a] = s])
    BY DEF InBooks
  <1>1. Books(t, l[t], p[t], st[t], pc, ow)
    BY DEF InBooks
  <1>2. PICK pc2, ow2 : pc2 = [pc EXCEPT ![a] = "chained"] /\ ow2 = [ow EXCEPT ![a] = s]
    OBVIOUS
  <1>3. /\ \A b \in Attempts : b # a => pc2[b] = pc[b] /\ ow2[b] = ow[b]
        /\ pc2[a] = "chained" /\ ow2[a] = s
    BY <1>2
  <1>4. Books(t, l[t], p[t], st[t], pc2, ow2)
    BY <1>1, <1>3, BooksElsewhere
  <1>. QED
    BY <1>2, <1>4

(* What the operations on a lane do to it and to the other lanes.            *)
LEMMA LaneOperations ==
    ASSUME NEW l \in [Sessions -> Seq(Commands)], NEW s \in Sessions
    PROVE  /\ l[s] \in Seq(Commands)
           /\ Popped(l, s)[s] = Tail(l[s])
           /\ \A t \in Sessions : t # s => Popped(l, s)[t] = l[t]
           /\ \A c : /\ Continued(l, s, c)[s] = <<c>> \o Tail(l[s])
                     /\ Enqueued(l, s, c)[s] = Append(l[s], c)
                     /\ \A t \in Sessions : t # s => /\ Continued(l, s, c)[t] = l[t]
                                                     /\ Enqueued(l, s, c)[t] = l[t]
  BY DEF Popped, Continued, Enqueued

(* A command that is no publish command runs, to its next await or its end.  *)
LEMMA PlainCommand ==
    ASSUME LanesTyped, InBooks(lane, pause, sstate, apc, asess), NEW s \in Sessions,
           lane[s] # << >>, Head(lane[s]).op \notin PublishOps, NEW l2,
           \/ l2 = Popped(lane, s)
           \/ \E c \in Commands : /\ c.op \notin PublishOps \cup {"delete_commit"}
                                  /\ l2 = Continued(lane, s, c)
    PROVE  InBooks(l2, pause, sstate, apc, asess)
  <1>1. lane \in [Sessions -> Seq(Commands)] /\ lane[s] \in Seq(Commands)
    BY DEF LanesTyped
  <1>2. Books(s, lane[s], pause[s], sstate[s], apc, asess)
    BY DEF InBooks
  <1>3. /\ Books(s, l2[s], pause[s], sstate[s], apc, asess)
        /\ \A t \in Sessions : t # s => l2[t] = lane[t]
    <2>1. CASE l2 = Popped(lane, s)
      BY <1>1, <1>2, <2>1, LaneOperations, BooksPopped
    <2>2. ASSUME NEW c \in Commands, c.op \notin PublishOps \cup {"delete_commit"},
                 l2 = Continued(lane, s, c)
          PROVE  /\ Books(s, l2[s], pause[s], sstate[s], apc, asess)
                 /\ \A t \in Sessions : t # s => l2[t] = lane[t]
      <3>1. /\ l2[s] = <<c>> \o Tail(lane[s])
            /\ \A t \in Sessions : t # s => l2[t] = lane[t]
        BY <1>1, <2>2, LaneOperations
      <3>2. Books(s, <<c>> \o Tail(lane[s]), pause[s], sstate[s], apc, asess)
        BY <1>1, <1>2, <2>2, BooksContinued
      <3>. QED
        BY <3>1, <3>2
    <2>. QED
      BY <2>1, <2>2
  <1>. QED
    BY <1>3, OneSessionMoves

(* A publish attempt comes to its end.                                       *)
LEMMA AttemptOver ==
    ASSUME TypeOK, InBooks(lane, pause, sstate, apc, asess), NEW s \in Sessions,
           lane[s] # << >>, Head(lane[s]).op \in PublishOps, NEW p2,
           p2 = IF Head(lane[s]).op = "phase1" THEN pause ELSE [pause EXCEPT ![s] = IdlePause]
    PROVE  /\ InBooks(Popped(lane, s), p2, sstate,
                      [apc EXCEPT ![Arg(s)] = "done"], asess)
           /\ Arg(s) \in Attempts /\ apc[Arg(s)] # "unused"
  <1>0. PICK a, l2, pc2 : /\ a = Head(lane[s]).n /\ l2 = Popped(lane, s)
                          /\ pc2 = [apc EXCEPT ![a] = "done"]
    OBVIOUS
  <1>1. /\ lane \in [Sessions -> Seq(Commands)] /\ lane[s] \in Seq(Commands)
        /\ apc \in [Attempts -> AttemptStates] /\ pause \in [Sessions -> Pauses]
    BY DEF TypeOK, LanesTyped, AttemptsTyped, PausesTyped
  <1>2. Books(s, lane[s], pause[s], sstate[s], apc, asess)
    BY DEF InBooks
  <1>3. /\ a \in Attempts /\ asess[a] = s /\ apc[a] = Stage(Head(lane[s]).op)
    BY <1>0, <1>1, <1>2, OrderlyTail DEF Books
  <1>4. /\ l2[s] = Tail(lane[s]) /\ \A t \in Sessions : t # s => l2[t] = lane[t]
    BY <1>0, <1>1, LaneOperations
  <1>5. /\ p2[s] = IF Head(lane[s]).op = "phase1" THEN pause[s] ELSE IdlePause
        /\ \A t \in Sessions : t # s => p2[t] = pause[t]
    BY <1>1
  <1>6. \A b \in Attempts : pc2[b] = apc[b] \/ asess[b] = s
    BY <1>0, <1>1, <1>3
  <1>7. Books(s, Tail(lane[s]), p2[s], sstate[s], pc2, asess)
    BY <1>0, <1>1, <1>2, <1>5, BooksFinish
  <1>8. InBooks(l2, p2, sstate, pc2, asess)
    <2>1. Books(s, l2[s], p2[s], sstate[s], pc2, asess)
      BY <1>4, <1>7
    <2>2. \A t \in Sessions : t # s => l2[t] = lane[t] /\ p2[t] = pause[t]
      BY <1>4, <1>5
    <2>. QED
      BY <1>6, <2>1, <2>2, OneSessionMoves
  <1>. QED
    BY <1>0, <1>3, <1>8 DEF Arg, Stage

(* Closing every socket of the document ends its live session, if any.       *)
LEMMA InvalidatedBooks ==
    ASSUME SessionsTyped, NEW l, NEW p \in [Sessions -> Pauses], NEW pc, NEW ow,
           InBooks(l, p, sstate, pc, ow), Invalidated(p)
    PROVE  InBooks(l, pause', sstate', pc, ow)
  <1>1. CASE current = 0
    <2>1. pause' = p /\ sstate' = sstate
      BY <1>1 DEF Invalidated
    <2>. QED
      BY <2>1
  <1>2. CASE current # 0
    <2>1. /\ sstate' = [sstate EXCEPT ![current] = "ended"]
          /\ pause' = [p EXCEPT ![current] = IdlePause]
      BY <1>2 DEF Invalidated, SessionGone, PauseEnded
    <2>2. \A t \in Sessions : \/ sstate'[t] = sstate[t] /\ pause'[t] = p[t]
                              \/ sstate'[t] = "ended" /\ pause'[t] \in {p[t], IdlePause}
      BY <2>1 DEF SessionsTyped
    <2>. QED
      BY <2>2, SessionsMove
  <1>. QED
    BY <1>1, <1>2

(* Attempts stay counted in a step that makes none.                          *)
LEMMA StillCounted ==
    ASSUME AttemptsCounted, UNCHANGED <<nAttempts, asess>>,
           \A b \in Attempts : apc'[b] = "unused" <=> apc[b] = "unused"
    PROVE  AttemptsCounted'
  BY DEF AttemptsCounted

(* A new attempt on the live session enters the books, whatever the rest of  *)
(* the step made of the attempts (pc).                                       *)
LEMMA NewAttemptBooks ==
    ASSUME AttemptsTyped, AttemptsCounted, NEW l, NEW p,
           NEW pc \in [Attempts -> AttemptStates], InBooks(l, p, sstate, pc, asess),
           NEW s \in Sessions, sstate[s] = "active", NewAttempt(s, pc),
           \A b \in Attempts : pc[b] = "unused" <=> apc[b] = "unused"
    PROVE  InBooks(l, p, sstate, apc', asess') /\ AttemptsCounted'
  <1>1. PICK a \in Attempts : a = nAttempts + 1 /\ nAttempts \in Nat
    BY BoundsAssumption DEF NewAttempt, AttemptsTyped
  <1>2. /\ apc' = [pc EXCEPT ![a] = "chained"] /\ asess' = [asess EXCEPT ![a] = s]
        /\ nAttempts' = a
    BY <1>1 DEF NewAttempt
  <1>3. pc[a] = "unused" /\ asess \in [Attempts -> 0..MaxSessions]
    BY <1>1, BoundsAssumption DEF AttemptsCounted, AttemptsTyped, Attempts
  <1>4. InBooks(l, p, sstate, apc', asess')
    BY <1>2, <1>3, AttemptMoves DEF Reached
  <1>5. AttemptsCounted'
    <2> SUFFICES ASSUME NEW b \in Attempts
                 PROVE  /\ b > nAttempts' => apc'[b] = "unused"
                        /\ apc'[b] # "unused" => asess'[b] \in Sessions
      BY DEF AttemptsCounted
    <2>1. CASE b = a
      BY <1>2, <1>3, <2>1, BoundsAssumption DEF Attempts
    <2>2. CASE b # a
      <3>1. apc'[b] = pc[b] /\ asess'[b] = asess[b]
        BY <1>2, <1>3, <2>2
      <3>2. b > nAttempts' => b > nAttempts
        BY <1>1, <1>2, BoundsAssumption DEF Attempts
      <3>. QED
        BY <3>1, <3>2 DEF AttemptsCounted
    <2>. QED
      BY <2>1, <2>2
  <1>. QED
    BY <1>4, <1>5

-----------------------------------------------------------------------------
(* A step of the pause of one session keeps the books.                       *)
LEMMA PauseStepBooks ==
    ASSUME TypeOK, AllBooks, NEW s \in Sessions, NEW q \in Pauses, PauseMoved(pause[s], q),
           PauseStep(s, q)
    PROVE  InBooks(lane', pause', sstate, apc', asess') /\ AttemptsCounted'
  <1>1. /\ Books(s, lane[s], pause[s], sstate[s], apc, asess)
        /\ InBooks(lane, pause, sstate, apc, asess) /\ AttemptsCounted
    BY DEF AllBooks, InBooks
  <1>2. PICK l2, pc2 : l2 = LaneAfter(s, q) /\ pc2 = ApcAfter(s, q)
    OBVIOUS
  <1>3. /\ Books(s, l2[s], q, sstate[s], pc2, asess)
        /\ \A t \in Sessions : t # s => l2[t] = lane[t]
        /\ \A b \in Attempts : /\ pc2[b] = apc[b] \/ asess[b] = s
                               /\ pc2[b] = "unused" <=> apc[b] = "unused"
    BY <1>1, <1>2, BooksResumed
  <1>4. PICK p2 : /\ p2 = [pause EXCEPT ![s] = q] /\ p2[s] = q
                  /\ \A t \in Sessions : t # s => p2[t] = pause[t]
    <2>1. PICK p2 : p2 = [pause EXCEPT ![s] = q]
      OBVIOUS
    <2>2. p2[s] = q /\ \A t \in Sessions : t # s => p2[t] = pause[t]
      BY <2>1 DEF TypeOK, PausesTyped
    <2>. QED
      BY <2>1, <2>2
  <1>5. InBooks(l2, p2, sstate, pc2, asess)
    BY <1>1, <1>3, <1>4, OneSessionMoves
  <1>6. lane' = l2 /\ pause' = p2 /\ apc' = pc2 /\ asess' = asess /\ nAttempts' = nAttempts
    BY <1>2, <1>4 DEF PauseStep
  <1>. QED
    BY <1>1, <1>3, <1>5, <1>6, StillCounted

(* The first command of an attempt keeps the books.                          *)
LEMMA Phase1Books ==
    ASSUME TypeOK, AllBooks, NEW s \in Sessions, LanePhase1(s)
    PROVE  AllBooks'
  <1>1. /\ Books(s, lane[s], pause[s], sstate[s], apc, asess)
        /\ InBooks(lane, pause, sstate, apc, asess) /\ AttemptsCounted
        /\ lane[s] # << >> /\ Head(lane[s]).op = "phase1" /\ Arg(s) = Head(lane[s]).n
        /\ sstate' = sstate
        /\ lane \in [Sessions -> Seq(Commands)] /\ lane[s] \in Seq(Commands)
        /\ apc \in [Attempts -> AttemptStates]
    BY DEF AllBooks, InBooks, LanePhase1, Running, Arg, sessionVars, TypeOK, LanesTyped,
           AttemptsTyped
  <1>2. Head(lane[s]).op \in PublishOps
    BY <1>1 DEF PublishOps
  <1>3. CASE Finish(Arg(s), "noop") /\ lane' = Popped(lane, s) /\ pause' = pause
    <2>1. InBooks(lane', pause', sstate', apc', asess')
      BY <1>1, <1>2, <1>3, AttemptOver DEF Finish
    <2>2. AttemptsCounted'
      BY <1>1, <1>2, <1>3, AttemptOver, StillCounted DEF Finish
    <2>. QED
      BY <2>1, <2>2 DEF AllBooks
  <1>4. CASE /\ pause[s].state = "idle"
             /\ pause' = [pause EXCEPT ![s] = PauseStarted(ActiveEditors, Arg(s))]
             /\ IF ActiveEditors = {}
                THEN /\ lane' = Continued(lane, s, Command("ready", Arg(s)))
                     /\ apc' = [apc EXCEPT ![Arg(s)] = "finalizing"]
                ELSE /\ lane' = Popped(lane, s)
                     /\ apc' = [apc EXCEPT ![Arg(s)] = "waiting"]
             /\ UNCHANGED <<nAttempts, asess>>
    <2>1. /\ Arg(s) \in Attempts /\ asess[Arg(s)] = s /\ apc[Arg(s)] = "queued"
      BY <1>1, <1>2, OrderlyTail DEF Books, Stage
    <2>2. PICK l2, p2, pc2 : l2 = lane' /\ p2 = pause' /\ pc2 = apc'
      OBVIOUS
    <2>3. /\ l2[s] = IF ActiveEditors = {} THEN <<Command("ready", Arg(s))>> \o Tail(lane[s])
                                           ELSE Tail(lane[s])
          /\ \A t \in Sessions : t # s => l2[t] = lane[t]
      <3>1. CASE ActiveEditors = {}
        BY <1>1, <1>4, <2>2, <3>1, LaneOperations
      <3>2. CASE ActiveEditors # {}
        BY <1>1, <1>4, <2>2, <3>2, LaneOperations
      <3>. QED
        BY <3>1, <3>2
    <2>4. /\ p2[s] = PauseStarted(ActiveEditors, Arg(s))
          /\ \A t \in Sessions : t # s => p2[t] = pause[t]
      BY <1>4, <2>2 DEF TypeOK, PausesTyped
    <2>5. pc2 = [apc EXCEPT ![Arg(s)] = IF ActiveEditors = {} THEN "finalizing" ELSE "waiting"]
      BY <1>4, <2>2
    <2>6. Books(s, l2[s], PauseStarted(ActiveEditors, Arg(s)), sstate[s], pc2, asess)
      <3>1. PICK q2, ks : q2 = l2[s] /\ ks = ActiveEditors
        OBVIOUS
      <3>2. /\ q2 = IF ks = {} THEN <<Command("ready", Head(lane[s]).n)>> \o Tail(lane[s])
                              ELSE Tail(lane[s])
            /\ pc2 = [apc EXCEPT ![Head(lane[s]).n] =
                        IF ks = {} THEN "finalizing" ELSE "waiting"]
        BY <2>3, <2>5, <3>1 DEF Arg
      <3>3. /\ lane[s] \in Seq(Commands) /\ lane[s] # << >> /\ Head(lane[s]).op = "phase1"
            /\ apc \in [Attempts -> AttemptStates] /\ pause[s].state = "idle"
            /\ Books(s, lane[s], pause[s], sstate[s], apc, asess)
        BY <1>1, <1>4
      <3>4. Books(s, q2, PauseStarted(ks, Head(lane[s]).n), sstate[s], pc2, asess)
        BY <3>2, <3>3, BooksStart, Zenon
      <3>. QED
        BY <3>1, <3>4 DEF Arg
    <2>7. \A b \in Attempts : /\ pc2[b] = apc[b] \/ asess[b] = s
                              /\ pc2[b] = "unused" <=> apc[b] = "unused"
      BY <1>1, <2>1, <2>5
    <2>8. InBooks(l2, p2, sstate, pc2, asess)
      BY <1>1, <2>3, <2>4, <2>6, <2>7, OneSessionMoves
    <2>9. AttemptsCounted'
      BY <1>1, <1>4, <2>2, <2>7, StillCounted
    <2>. QED
      BY <1>1, <1>4, <2>2, <2>8, <2>9 DEF AllBooks
  <1>. QED
    BY <1>3, <1>4 DEF LanePhase1

(* The end of finalizeAndEnd keeps the books.                                *)
LEMMA EndAttemptBooks ==
    ASSUME TypeOK, AllBooks, NEW s \in Sessions, lane[s] # << >>,
           Head(lane[s]).op \in PublishOps \ {"phase1"}, NEW o,
           EndAttempt(s, Arg(s), o), sstate' = sstate
    PROVE  AllBooks'
  <1>1. InBooks(lane, pause, sstate, apc, asess) /\ AttemptsCounted
    BY DEF AllBooks
  <1>2. /\ lane' = Popped(lane, s) /\ pause' = [pause EXCEPT ![s] = IdlePause]
        /\ apc' = [apc EXCEPT ![Arg(s)] = "done"] /\ UNCHANGED <<nAttempts, asess>>
    BY DEF EndAttempt, Finish, PauseEnded
  <1>3. /\ InBooks(lane', pause', sstate', apc', asess')
        /\ Arg(s) \in Attempts /\ apc[Arg(s)] # "unused"
    BY <1>1, <1>2, AttemptOver
  <1>4. AttemptsCounted'
    BY <1>1, <1>2, <1>3, StillCounted DEF TypeOK, AttemptsTyped
  <1>. QED
    BY <1>3, <1>4 DEF AllBooks

(* Settling keeps the books: the attempt goes on to commit, or is over.      *)
LEMMA SettleBooks ==
    ASSUME TypeOK, AllBooks, NEW s \in Sessions, LaneSettle(s)
    PROVE  AllBooks'
  <1>1. /\ Books(s, lane[s], pause[s], sstate[s], apc, asess)
        /\ InBooks(lane, pause, sstate, apc, asess) /\ AttemptsCounted
        /\ lane[s] # << >> /\ Head(lane[s]).op = "ready" /\ Arg(s) = Head(lane[s]).n
        /\ sstate' = sstate
        /\ lane \in [Sessions -> Seq(Commands)] /\ lane[s] \in Seq(Commands)
    BY DEF AllBooks, InBooks, LaneSettle, Running, Arg, sessionVars, TypeOK, LanesTyped
  <1>2. Head(lane[s]).op \in PublishOps \ {"phase1"}
    BY <1>1 DEF PublishOps
  <1>3. ASSUME NEW o, EndAttempt(s, Arg(s), o) PROVE AllBooks'
    BY <1>1, <1>2, <1>3, EndAttemptBooks
  <1>4. CASE /\ lane' = Continued(lane, s, Command("commit", Arg(s)))
             /\ UNCHANGED <<pause, attemptVars>>
    <2>1. PICK l2 : l2 = lane'
      OBVIOUS
    <2>2. /\ l2[s] = <<Command("commit", Arg(s))>> \o Tail(lane[s])
          /\ \A t \in Sessions : t # s => l2[t] = lane[t]
      BY <1>1, <1>4, <2>1, LaneOperations
    <2>3. Books(s, l2[s], pause[s], sstate[s], apc, asess)
      BY <1>1, <2>2, BooksCommit
    <2>4. InBooks(l2, pause, sstate, apc, asess)
      BY <1>1, <2>2, <2>3, OneSessionMoves
    <2>5. AttemptsCounted'
      BY <1>1, <1>4, StillCounted DEF attemptVars
    <2>. QED
      BY <1>1, <1>4, <2>1, <2>4, <2>5 DEF AllBooks, attemptVars
  <1>. QED
    BY <1>3, <1>4 DEF LaneSettle

(* A settle that discards the live session keeps the books.                  *)
LEMMA SettleBadlyBooks ==
    ASSUME TypeOK, AllBooks, NEW s \in Sessions, LaneSettleBadly(s)
    PROVE  AllBooks'
  <1>1. /\ InBooks(lane, pause, sstate, apc, asess) /\ AttemptsCounted
        /\ lane[s] # << >> /\ Head(lane[s]).op = "ready"
        /\ lane' = Popped(lane, s) /\ Finish(Arg(s), "failed")
        /\ pause \in [Sessions -> Pauses]
    BY DEF AllBooks, LaneSettleBadly, Running, TypeOK, PausesTyped
  <1>2. Head(lane[s]).op \in PublishOps /\ Head(lane[s]).op # "phase1"
    BY <1>1 DEF PublishOps
  <1>3. PICK p2 : p2 = [pause EXCEPT ![s] = IdlePause]
    OBVIOUS
  <1>4. p2 \in [Sessions -> Pauses] /\ Invalidated(p2)
    BY <1>1, <1>3, PauseTypes DEF LaneSettleBadly, PauseEnded, IdlePause, Pauses, PauseStates
  <1>5. /\ InBooks(lane', p2, sstate, apc', asess')
        /\ Arg(s) \in Attempts /\ apc[Arg(s)] # "unused"
    BY <1>1, <1>2, <1>3, AttemptOver DEF Finish
  <1>6. InBooks(lane', pause', sstate', apc', asess')
    BY <1>4, <1>5, InvalidatedBooks DEF TypeOK
  <1>7. AttemptsCounted'
    BY <1>1, <1>5, StillCounted DEF Finish, TypeOK, AttemptsTyped
  <1>. QED
    BY <1>6, <1>7 DEF AllBooks

(* A delete that freezes the editors, and one that is abandoned, keep the    *)
(* books.                                                                    *)
LEMMA DeleteBooks ==
    ASSUME TypeOK, AllBooks, NEW s \in Sessions, LaneDelete(s) \/ LaneDeleteAbandoned(s)
    PROVE  AllBooks'
  <1>1. /\ Books(s, lane[s], pause[s], sstate[s], apc, asess)
        /\ InBooks(lane, pause, sstate, apc, asess) /\ AttemptsCounted
        /\ lane[s] # << >> /\ sstate' = sstate
        /\ Head(lane[s]).op \in {"delete", "delete_commit"}
        /\ Head(lane[s]).op \notin PublishOps
        /\ UNCHANGED <<apc, asess, nAttempts>>
        /\ lane \in [Sessions -> Seq(Commands)] /\ lane[s] \in Seq(Commands)
        /\ pause \in [Sessions -> Pauses]
    BY DEF AllBooks, InBooks, LaneDelete, LaneDeleteAbandoned, Running, sessionVars, attemptVars,
           TypeOK, LanesTyped, PausesTyped, PublishOps
  <1>2. AttemptsCounted'
    BY <1>1, StillCounted
  <1>3. CASE lane' = Popped(lane, s) /\ pause' = pause
    BY <1>1, <1>2, <1>3, PlainCommand DEF AllBooks, TypeOK
  <1>4. PICK l2, p2 : l2 = lane' /\ p2 = pause'
    OBVIOUS
  <1>5. ASSUME /\ Books(s, l2[s], p2[s], sstate[s], apc, asess)
               /\ \A t \in Sessions : t # s => l2[t] = lane[t] /\ p2[t] = pause[t]
        PROVE  AllBooks'
    <2>1. InBooks(l2, p2, sstate, apc, asess)
      BY <1>1, <1>5, OneSessionMoves
    <2>. QED
      BY <1>1, <1>2, <1>4, <2>1 DEF AllBooks
  <1>6. CASE /\ Running(s, "delete") /\ sstate[s] = "active" /\ pause[s].state = "idle"
             /\ pause' = [pause EXCEPT ![s] = PauseStarted(ActiveEditors, 0)]
             /\ lane' = Continued(lane, s, Command("delete_commit", 0))
    <2>1. /\ Command("delete_commit", 0) \in Commands
          /\ Command("delete_commit", 0).op = "delete_commit"
      BY CommandType DEF LaneOps, Command
    <2>2. /\ l2[s] = <<Command("delete_commit", 0)>> \o Tail(lane[s])
          /\ \A t \in Sessions : t # s => l2[t] = lane[t]
      <3>1. l2 = Continued(lane, s, Command("delete_commit", 0))
        BY <1>4, <1>6
      <3>. QED
        BY <1>1, <3>1 DEF Continued
    <2>3. /\ p2[s] = PauseStarted(ActiveEditors, 0)
          /\ \A t \in Sessions : t # s => p2[t] = pause[t]
      BY <1>1, <1>4, <1>6
    <2>4. p2[s].waiter = 0
      BY <2>3 DEF PauseStarted, IdlePause
    <2>5. Books(s, l2[s], p2[s], sstate[s], apc, asess)
      BY <1>1, <1>6, <2>1, <2>2, <2>4, BooksDelete DEF Running
    <2>. QED
      BY <1>5, <2>2, <2>3, <2>5
  <1>7. CASE /\ Running(s, "delete_commit") /\ lane' = Popped(lane, s)
             /\ pause' = [pause EXCEPT ![s] = IdlePause]
    <2>1. /\ l2[s] = Tail(lane[s]) /\ p2[s] = IdlePause
          /\ \A t \in Sessions : t # s => l2[t] = lane[t] /\ p2[t] = pause[t]
      BY <1>1, <1>4, <1>7, LaneOperations
    <2>2. Books(s, l2[s], p2[s], sstate[s], apc, asess)
      BY <1>1, <1>7, <2>1, BooksDeleteAbandoned DEF Running
    <2>. QED
      BY <1>5, <2>1, <2>2
  <1>. QED
    BY <1>3, <1>6, <1>7 DEF LaneDelete, LaneDeleteAbandoned, PauseEnded

(* The commands that have nothing to do with publishing keep the books.      *)
LEMMA OtherCommandBooks ==
    ASSUME TypeOK, AllBooks, NEW s \in Sessions,
           \/ LaneBoot(s) \/ LaneGate(s) \/ LaneMaterialize(s) \/ LaneQuiesce(s)
           \/ LaneDeleteCommit(s)
    PROVE  AllBooks'
  <1>1. /\ InBooks(lane, pause, sstate, apc, asess) /\ AttemptsCounted
        /\ lane[s] # << >> /\ Head(lane[s]).op \notin PublishOps
        /\ UNCHANGED <<apc, asess, nAttempts>>
        /\ lane \in [Sessions -> Seq(Commands)]
        /\ pause \in [Sessions -> Pauses]
    BY DEF AllBooks, LaneBoot, LaneGate, LaneMaterialize, LaneQuiesce, LaneDeleteCommit,
           Running, attemptVars, TypeOK, LanesTyped, PausesTyped, PublishOps
  <1>2. AttemptsCounted'
    BY <1>1, StillCounted
  <1>3. \/ lane' = Popped(lane, s)
        \/ Running(s, "update") /\ lane' = Continued(lane, s, Command("materialize", Arg(s)))
    BY DEF LaneBoot, LaneGate, LaneMaterialize, LaneQuiesce, LaneDeleteCommit
  <1>4. \/ lane' = Popped(lane, s)
        \/ \E c \in Commands : /\ c.op \notin PublishOps \cup {"delete_commit"}
                               /\ lane' = Continued(lane, s, c)
    <2>1. CASE Running(s, "update") /\ lane' = Continued(lane, s, Command("materialize", Arg(s)))
      <3>1. Head(lane[s]) \in Commands /\ Head(lane[s]).op = "update"
        BY <1>1, <2>1 DEF Running
      <3>2. Arg(s) \in Edits /\ Arg(s) \in Nat
        BY <3>1 DEF Commands, Arg
      <3>3. Command("materialize", Arg(s)) \in Commands
        BY <3>2, CommandType DEF LaneOps
      <3>4. Command("materialize", Arg(s)).op \notin PublishOps \cup {"delete_commit"}
        BY DEF Command, PublishOps
      <3>. QED
        BY <2>1, <3>3, <3>4
    <2>. QED
      BY <1>3, <2>1
  <1>5. PICK l2 : l2 = lane'
    OBVIOUS
  <1>6. InBooks(l2, pause, sstate, apc, asess)
    BY <1>1, <1>4, <1>5, PlainCommand DEF TypeOK
  <1>7. CASE UNCHANGED <<pause, sstate>>
    BY <1>1, <1>2, <1>5, <1>6, <1>7 DEF AllBooks
  <1>8. CASE Invalidated(pause)
    <2>1. InBooks(l2, pause', sstate', apc, asess)
      BY <1>1, <1>6, <1>8, InvalidatedBooks DEF TypeOK
    <2>. QED
      BY <1>1, <1>2, <1>5, <2>1 DEF AllBooks
  <1>. QED
    BY <1>7, <1>8
       DEF LaneBoot, LaneGate, LaneMaterialize, LaneQuiesce, LaneDeleteCommit, sessionVars

(* Every step of a lane keeps the books.                                     *)
LEMMA LaneStepBooks ==
    ASSUME TypeOK, AllBooks, NEW s \in Sessions, LaneStep(s)
    PROVE  AllBooks'
  <1>1. CASE LaneAbort(s)
    <2>1. /\ lane[s] # << >> /\ Head(lane[s]).op \in PublishOps \ {"phase1"}
          /\ EndAttempt(s, Arg(s), "aborted") /\ sstate' = sstate
      BY <1>1 DEF LaneAbort, Running, PublishOps, sessionVars
    <2>. QED
      BY <2>1, EndAttemptBooks
  <1>2. CASE LaneCommit(s)
    <2>1. /\ lane[s] # << >> /\ Head(lane[s]).op \in PublishOps \ {"phase1"} /\ sstate' = sstate
      BY <1>2 DEF LaneCommit, Running, PublishOps, sessionVars
    <2>2. PICK o : EndAttempt(s, Arg(s), o)
      BY <1>2 DEF LaneCommit
    <2>. QED
      BY <2>1, <2>2, EndAttemptBooks
  <1>. QED
    BY <1>1, <1>2, Phase1Books, SettleBooks, SettleBadlyBooks, DeleteBooks, OtherCommandBooks
       DEF LaneStep

-----------------------------------------------------------------------------
(* Sockets that join a live session put a bootstrap on its lane.             *)
LEMMA AttachBooks ==
    ASSUME LanesTyped, NEW st, InBooks(lane, pause, st, apc, asess), NEW ks \in SUBSET Sockets,
           NEW s \in Sessions, st[s] = "active", Attach(ks, s)
    PROVE  InBooks(lane', pause, st, apc, asess)
  <1>1. PICK c \in Commands : c = [op |-> "boot", n |-> 0, ks |-> ks]
    <2>1. [op |-> "boot", n |-> 0, ks |-> ks] \in Commands
      BY DEF Commands, LaneOps
    <2>. QED
      BY <2>1
  <1>2. c.op \notin PublishOps \cup {"delete_commit"}
    BY <1>1 DEF PublishOps
  <1>3. /\ lane' = Enqueued(lane, s, c) /\ lane[s] \in Seq(Commands)
        /\ lane \in [Sessions -> Seq(Commands)]
    BY <1>1 DEF Attach, LanesTyped
  <1>4. PICK l2 : l2 = lane'
    OBVIOUS
  <1>5. l2[s] = Append(lane[s], c) /\ \A t \in Sessions : t # s => l2[t] = lane[t]
    BY <1>3, <1>4 DEF Enqueued
  <1>6. Books(s, l2[s], pause[s], st[s], apc, asess)
    BY <1>2, <1>3, <1>5, BooksAppend DEF InBooks, Reached
  <1>7. InBooks(l2, pause, st, apc, asess)
    BY <1>5, <1>6 DEF InBooks
  <1>. QED
    BY <1>4, <1>7

(* A socket that comes, or a session that is constructed, keeps the books.   *)
LEMMA JoinBooks ==
    ASSUME TypeOK, SessionMaps, AllBooks,
           \/ \E k \in Sockets : Acquire(k)
           \/ \E s \in Sessions : ConstructRead(s) \/ ConstructDone(s)
    PROVE  AllBooks'
  <1>1. /\ InBooks(lane, pause, sstate, apc, asess) /\ AttemptsCounted
        /\ UNCHANGED <<pause, apc, asess, nAttempts>>
        /\ sstate \in [Sessions -> SessionStates] /\ LanesTyped
    BY DEF AllBooks, Acquire, ConstructRead, ConstructDone, attemptVars, TypeOK, SessionsTyped
  <1>2. AttemptsCounted'
    BY <1>1, StillCounted
  <1>3. ASSUME NEW st, \A t \in Sessions : st[t] = sstate[t] \/ ~Reached(sstate[t])
        PROVE  InBooks(lane, pause, st, apc, asess)
    BY <1>1, <1>3, SessionsMove
  <1>4. ASSUME lane' = lane, \A t \in Sessions : sstate'[t] = sstate[t] \/ ~Reached(sstate[t])
        PROVE  AllBooks'
    BY <1>1, <1>2, <1>3, <1>4 DEF AllBooks
  <1>5. ASSUME NEW k \in Sockets, Acquire(k) PROVE AllBooks'
    <2>1. CASE MustConstruct /\ sstate' = [sstate EXCEPT ![nSessions + 1] = "acquiring"]
                /\ lane' = lane
      <3>1. nSessions + 1 \in Sessions => ~Reached(sstate[nSessions + 1])
        BY DEF SessionMaps, Reached, TypeOK, SessionsTyped
      <3>. QED
        BY <1>1, <1>4, <2>1, <3>1
    <2>2. CASE UNCHANGED <<sessionVars, lane>>
      BY <1>4, <2>2 DEF sessionVars
    <2>3. CASE /\ promised # 0 /\ sstate[promised] = "active"
               /\ Attach({k}, promised) /\ sstate' = sstate
      <3>1. promised \in Sessions
        BY <2>3, BoundsAssumption DEF TypeOK, SessionsTyped, Sessions
      <3>. QED
        BY <1>1, <1>2, <2>3, <3>1, AttachBooks DEF AllBooks
    <2>. QED
      BY <1>5, <2>1, <2>2, <2>3 DEF Acquire
  <1>6. ASSUME NEW s \in Sessions, ConstructRead(s) PROVE AllBooks'
    BY <1>1, <1>4, <1>6 DEF ConstructRead, Reached
  <1>7. ASSUME NEW s \in Sessions, ConstructDone(s) PROVE AllBooks'
    <2>1. PICK st : st = sstate'
      OBVIOUS
    <2>2. st[s] = "active" /\ Attach(Acquirers, s) /\ Acquirers \in SUBSET Sockets
      BY <1>1, <1>7, <2>1 DEF ConstructDone, Acquirers
    <2>3. InBooks(lane, pause, st, apc, asess)
      BY <1>1, <1>3, <1>7, <2>1 DEF ConstructDone, Reached
    <2>4. InBooks(lane', pause, st, apc, asess)
      BY <1>1, <2>2, <2>3, AttachBooks
    <2>. QED
      BY <1>1, <1>2, <2>1, <2>4 DEF AllBooks
  <1>. QED
    BY <1>5, <1>6, <1>7

(* The last editor's release ends the live session.                          *)
LEMMA ReleaseBooks ==
    ASSUME SessionsTyped, NEW k, NEW l, NEW p, NEW pc, NEW ow,
           InBooks(l, p, sstate, pc, ow), ReleaseDocSession(k)
    PROVE  InBooks(l, p, sstate', pc, ow)
  <1>1. \A t \in Sessions : sstate'[t] \in {sstate[t], "ended"}
    BY DEF ReleaseDocSession, SessionGone, sessionVars, SessionsTyped
  <1>. QED
    BY <1>1, SessionsMove

(* The server's side of a socket: frames received, closes, releases.         *)
LEMMA SocketBooks ==
    ASSUME TypeOK, OneLiveSession, AllBooks, NEW k \in Sockets,
           ServerReceive(k) \/ CloseEvent(k) \/ LeaveDone(k)
    PROVE  AllBooks'
  <1>1. /\ InBooks(lane, pause, sstate, apc, asess) /\ AttemptsCounted
        /\ lane \in [Sessions -> Seq(Commands)] /\ SessionsTyped /\ AttemptsTyped
        /\ pause \in [Sessions -> Pauses]
        /\ current # 0 => current \in Sessions /\ sstate[current] = "active"
    BY BoundsAssumption
       DEF AllBooks, TypeOK, LanesTyped, PausesTyped, SessionsTyped, Sessions, OneLiveSession
  <1>2. ASSUME current # 0
        PROVE  /\ PauseMarkReady(pause[current], k) \in Pauses
               /\ PauseSocketLost(pause[current], k) \in Pauses
               /\ PauseMoved(pause[current], PauseMarkReady(pause[current], k))
               /\ PauseMoved(pause[current], PauseSocketLost(pause[current], k))
    <2>1. pause[current] \in Pauses
      BY <1>1, <1>2
    <2>. QED
      BY <2>1, PauseTypes, PauseMoves
  <1>3. ASSUME UNCHANGED attemptVars PROVE AttemptsCounted'
    BY <1>1, <1>3, StillCounted DEF attemptVars
  <1>4. CASE ServerReceive(k)
    <2>1. sstate' = sstate
      BY <1>4 DEF ServerReceive, sessionVars
    <2>2. CASE UNCHANGED <<lane, pause, attemptVars>>
      BY <1>1, <1>3, <2>1, <2>2 DEF AllBooks, attemptVars
    <2>3. CASE /\ current # 0
               /\ lane' = Enqueued(lane, current, Command("update", Head(up[k]).n))
               /\ Head(up[k]).op = "update" /\ up[k] # << >>
               /\ UNCHANGED <<pause, attemptVars>>
      <3>1. Head(up[k]) \in Frames
        BY <2>3 DEF TypeOK, WireTyped
      <3>2. Head(up[k]).n \in Edits /\ Head(up[k]).n \in Nat
        BY <2>3, <3>1, BoundsAssumption DEF Frames
      <3>3. PICK c \in Commands : c = Command("update", Head(up[k]).n)
        BY <3>2, CommandType DEF LaneOps
      <3>4. c.op \notin PublishOps \cup {"delete_commit"}
        BY <3>3 DEF Command, PublishOps
      <3>5. PICK l2 : l2 = lane' /\ l2 = Enqueued(lane, current, c)
        BY <2>3, <3>3
      <3>6. /\ l2[current] = Append(lane[current], c) /\ lane[current] \in Seq(Commands)
            /\ \A t \in Sessions : t # current => l2[t] = lane[t]
        BY <1>1, <2>3, <3>5 DEF Enqueued
      <3>7. Books(current, l2[current], pause[current], sstate[current], apc, asess)
        BY <1>1, <2>3, <3>4, <3>6, BooksAppend DEF InBooks, Reached
      <3>8. InBooks(l2, pause, sstate, apc, asess)
        BY <1>1, <2>3, <3>6, <3>7, OneSessionMoves
      <3>. QED
        BY <1>3, <2>1, <2>3, <3>5, <3>8 DEF AllBooks, attemptVars
    <2>4. CASE current # 0 /\ PauseStep(current, PauseMarkReady(pause[current], k))
      <3>1. InBooks(lane', pause', sstate, apc', asess') /\ AttemptsCounted'
        BY <1>1, <1>2, <2>4, PauseStepBooks
      <3>. QED
        BY <2>1, <3>1 DEF AllBooks
    <2>. QED
      BY <1>4, <2>2, <2>3, <2>4 DEF ServerReceive, IsCurrentSessionEditor
  <1>5. CASE CloseEvent(k)
    <2>1. CASE UNCHANGED <<sessionVars, lane, pause, attemptVars>>
      BY <1>1, <1>3, <2>1 DEF AllBooks, attemptVars, sessionVars
    <2>2. CASE /\ IF current = 0 THEN UNCHANGED <<pause, lane, attemptVars>>
                  ELSE PauseStep(current, PauseSocketLost(pause[current], k))
               /\ ReleaseDocSession(k)
      <3>1. InBooks(lane', pause', sstate, apc', asess') /\ AttemptsCounted'
        <4>1. CASE current = 0
          BY <1>1, <1>3, <2>2, <4>1 DEF attemptVars
        <4>2. CASE current # 0
          BY <1>1, <1>2, <2>2, <4>2, PauseStepBooks
        <4>. QED
          BY <4>1, <4>2
      <3>. QED
        BY <1>1, <2>2, <3>1, ReleaseBooks DEF AllBooks
    <2>3. CASE /\ PublishesOnLeaving(k)
               /\ LET q == PauseSocketLost(pause[current], k)
                  IN  /\ pause' = [pause EXCEPT ![current] = q]
                      /\ lane' = LaneAfter(current, q)
                      /\ NewAttempt(current, ApcAfter(current, q))
               /\ UNCHANGED <<sessionVars, armed>>
      <3>1. current # 0
        BY <2>3 DEF PublishesOnLeaving
      <3>2. PICK q \in Pauses : /\ q = PauseSocketLost(pause[current], k)
                                /\ PauseMoved(pause[current], q)
        BY <1>2, <3>1
      <3>3. PICK l2, p2, pc2 : /\ l2 = LaneAfter(current, q)
                               /\ p2 = [pause EXCEPT ![current] = q]
                               /\ pc2 = ApcAfter(current, q)
        OBVIOUS
      <3>4. /\ Books(current, l2[current], q, sstate[current], pc2, asess)
            /\ pc2 \in [Attempts -> AttemptStates]
            /\ \A t \in Sessions : t # current => l2[t] = lane[t]
            /\ \A b \in Attempts : /\ pc2[b] = apc[b] \/ asess[b] = current
                                   /\ pc2[b] = "unused" <=> apc[b] = "unused"
        BY <1>1, <3>1, <3>2, <3>3, BooksResumed DEF InBooks
      <3>5. p2[current] = q /\ \A t \in Sessions : t # current => p2[t] = pause[t]
        BY <1>1, <3>1, <3>3
      <3>6. InBooks(l2, p2, sstate, pc2, asess)
        BY <1>1, <3>1, <3>4, <3>5, OneSessionMoves
      <3>7. NewAttempt(current, pc2) /\ lane' = l2 /\ pause' = p2 /\ sstate' = sstate
        BY <2>3, <3>2, <3>3 DEF sessionVars
      <3>8. InBooks(l2, p2, sstate, apc', asess') /\ AttemptsCounted'
        BY <1>1, <3>1, <3>4, <3>6, <3>7, NewAttemptBooks
      <3>. QED
        BY <3>7, <3>8 DEF AllBooks
    <2>. QED
      BY <1>5, <2>1, <2>2, <2>3 DEF CloseEvent
  <1>6. CASE LeaveDone(k)
    <2>1. UNCHANGED <<lane, pause, attemptVars>>
      BY <1>6 DEF LeaveDone
    <2>2. InBooks(lane, pause, sstate', apc, asess)
      <3>1. CASE UNCHANGED sessionVars
        BY <1>1, <3>1 DEF sessionVars
      <3>2. CASE ReleaseDocSession(k)
        BY <1>1, <3>2, ReleaseBooks
      <3>. QED
        BY <1>6, <3>1, <3>2 DEF LeaveDone
    <2>. QED
      BY <1>3, <2>1, <2>2 DEF AllBooks, attemptVars
  <1>. QED
    BY <1>4, <1>5, <1>6

(* Requests and the steps of a restore keep the books.                       *)
LEMMA RequestBooks ==
    ASSUME TypeOK, OneLiveSession, AllBooks,
           Request \/ RestoreStep \/ \E a \in Attempts : RunAttempt(a)
    PROVE  AllBooks'
  <1>1. /\ InBooks(lane, pause, sstate, apc, asess) /\ AttemptsCounted
        /\ lane \in [Sessions -> Seq(Commands)] /\ SessionsTyped /\ AttemptsTyped
        /\ apc \in [Attempts -> AttemptStates] /\ pause \in [Sessions -> Pauses]
        /\ current # 0 => current \in Sessions /\ sstate[current] = "active"
    BY BoundsAssumption
       DEF AllBooks, TypeOK, LanesTyped, PausesTyped, SessionsTyped, Sessions, OneLiveSession,
           AttemptsTyped
  <1>2. ASSUME UNCHANGED <<sstate, lane, pause, apc, asess, nAttempts>> PROVE AllBooks'
    BY <1>1, <1>2, StillCounted DEF AllBooks
  <1>3. ASSUME current # 0, NewAttempt(current, apc), UNCHANGED <<sstate, lane, pause>>
        PROVE  AllBooks'
    BY <1>1, <1>3, NewAttemptBooks DEF AllBooks
  <1>4. ASSUME NEW s \in Sessions, NEW c \in Commands, sstate[s] = "active",
               c.op \notin PublishOps \cup {"delete_commit"}, lane' = Enqueued(lane, s, c),
               UNCHANGED <<sstate, pause, apc, asess, nAttempts>>
        PROVE  AllBooks'
    <2>1. PICK l2 : l2 = lane'
      OBVIOUS
    <2>2. /\ l2[s] = Append(lane[s], c) /\ lane[s] \in Seq(Commands)
          /\ \A t \in Sessions : t # s => l2[t] = lane[t]
      BY <1>1, <1>4, <2>1 DEF Enqueued
    <2>3. Books(s, l2[s], pause[s], sstate[s], apc, asess)
      BY <1>1, <1>4, <2>2, BooksAppend DEF InBooks, Reached
    <2>4. InBooks(l2, pause, sstate, apc, asess)
      BY <1>1, <2>2, <2>3, OneSessionMoves
    <2>. QED
      BY <1>1, <1>4, <2>1, <2>4, StillCounted DEF AllBooks
  <1>5. CASE ForcePublish \/ RestoreBegin
    BY <1>2, <1>3, <1>5 DEF ForcePublish, RestoreBegin, sessionVars, attemptVars
  <1>6. CASE QuiesceFire
    <2>1. CASE current = 0
      BY <1>2, <1>6, <2>1 DEF QuiesceFire, sessionVars, attemptVars
    <2>2. CASE current # 0
      <3>1. Command("quiesce", 0) \in Commands
        BY CommandType DEF LaneOps
      <3>2. Command("quiesce", 0).op \notin PublishOps \cup {"delete_commit"}
        BY DEF Command, PublishOps
      <3>. QED
        BY <1>1, <1>4, <1>6, <2>2, <3>1, <3>2 DEF QuiesceFire, sessionVars, attemptVars
    <2>. QED
      BY <2>1, <2>2
  <1>7. CASE DeleteRequest
    <2>1. Command("delete", 0) \in Commands
      BY CommandType DEF LaneOps
    <2>2. Command("delete", 0).op \notin PublishOps \cup {"delete_commit"}
      BY DEF Command, PublishOps
    <2>. QED
      BY <1>1, <1>4, <1>7, <2>1, <2>2 DEF DeleteRequest, sessionVars, attemptVars
  <1>8. CASE RestoreHandoff \/ RestoreLock
    BY <1>2, <1>8 DEF RestoreHandoff, RestoreLock, sessionVars, attemptVars
  <1>9. CASE RestoreLand
    <2>1. Invalidated(pause) /\ UNCHANGED <<lane, attemptVars>>
      BY <1>9 DEF RestoreLand
    <2>2. InBooks(lane, pause', sstate', apc, asess)
      BY <1>1, <2>1, InvalidatedBooks
    <2>. QED
      BY <1>1, <2>1, <2>2, StillCounted DEF AllBooks, attemptVars
  <1>10. ASSUME NEW a \in Attempts, RunAttempt(a) PROVE AllBooks'
    <2>1. PICK s \in Sessions : s = asess[a]
      BY <1>1, <1>10 DEF AttemptsCounted, RunAttempt
    <2>2. PICK l2, pc2 : l2 = lane' /\ pc2 = apc'
      OBVIOUS
    <2>3. /\ pc2 = [apc EXCEPT ![a] = "queued"] /\ apc[a] = "chained"
          /\ l2 = Enqueued(lane, s, Command("phase1", a))
          /\ UNCHANGED <<sstate, pause, asess, nAttempts>>
      BY <1>10, <2>1, <2>2 DEF RunAttempt, sessionVars
    <2>4. /\ l2[s] = Append(lane[s], Command("phase1", a)) /\ lane[s] \in Seq(Commands)
          /\ \A t \in Sessions : t # s => l2[t] = lane[t]
      BY <1>1, <2>3 DEF Enqueued
    <2>5. Books(s, lane[s], pause[s], sstate[s], apc, asess)
      BY <1>1 DEF InBooks
    <2>6. Books(s, l2[s], pause[s], sstate[s], pc2, asess)
      <3>1. /\ lane[s] \in Seq(Commands) /\ apc \in [Attempts -> AttemptStates]
            /\ Books(s, lane[s], pause[s], sstate[s], apc, asess)
            /\ a \in Attempts /\ asess[a] = s /\ apc[a] = "chained"
            /\ pc2 = [apc EXCEPT ![a] = "queued"]
        BY <1>1, <2>1, <2>3, <2>4, <2>5
      <3>2. Books(s, Append(lane[s], Command("phase1", a)), pause[s], sstate[s], pc2, asess)
        BY <3>1, BooksQueued, Zenon
      <3>. QED
        BY <2>4, <3>2
    <2>7. \A b \in Attempts : /\ pc2[b] = apc[b] \/ asess[b] = s
                              /\ pc2[b] = "unused" <=> apc[b] = "unused"
      BY <1>1, <2>1, <2>3
    <2>8. InBooks(l2, pause, sstate, pc2, asess)
      BY <1>1, <2>4, <2>6, <2>7, OneSessionMoves
    <2>. QED
      BY <1>1, <2>2, <2>3, <2>7, <2>8, StillCounted DEF AllBooks
  <1>. QED
    BY <1>5, <1>6, <1>7, <1>8, <1>9, <1>10 DEF Request, RestoreStep

(* The books hold at the start.                                              *)
LEMMA InitBooks == ASSUME Init PROVE AllBooks
  <1>1. AttemptsCounted
    BY DEF Init, AttemptsCounted
  <1>2. ASSUME NEW s \in Sessions
        PROVE  Books(s, lane[s], pause[s], sstate[s], apc, asess)
    BY DEF Init, Books, Orderly, WaiterWaits, IdlePause
  <1>. QED
    BY <1>1, <1>2 DEF AllBooks, InBooks

(* The books hold in every step.                                             *)
LEMMA StepBooks ==
    ASSUME TypeOK, SessionMaps, AllBooks, [Next]_vars
    PROVE  AllBooks'
  <1>0. OneLiveSession
    BY DEF SessionMaps
  <1>1. ASSUME UNCHANGED <<sstate, lane, pause, attemptVars>> PROVE AllBooks'
    BY <1>1, StillCounted DEF AllBooks, attemptVars
  <1>2. ASSUME NEW s \in Sessions, SessionStep(s) PROVE AllBooks'
    <2>1. CASE PauseTimeout(s)
      <3>1. /\ pause[s] \in Pauses /\ PauseStep(s, PauseTimedOut(pause[s])) /\ sstate' = sstate
        BY <2>1 DEF TypeOK, PausesTyped, PauseTimeout, sessionVars
      <3>2. PauseTimedOut(pause[s]) \in Pauses /\ PauseMoved(pause[s], PauseTimedOut(pause[s]))
        BY <3>1, PauseMoves DEF PauseTimedOut, PauseSettled, Pauses, PauseStates
      <3>3. InBooks(lane', pause', sstate, apc', asess') /\ AttemptsCounted'
        BY <3>1, <3>2, PauseStepBooks
      <3>. QED
        BY <3>1, <3>3 DEF AllBooks
    <2>. QED
      BY <1>2, <2>1, LaneStepBooks, JoinBooks DEF SessionStep
  <1>3. ASSUME NEW k \in Sockets, SocketStep(k) PROVE AllBooks'
    <2>1. CASE Connect(k) \/ ClientEdit(k) \/ ClientReceive(k) \/ ClientReady(k)
      BY <1>1, <2>1 DEF Connect, ClientEdit, ClientReceive, ClientReady, sessionVars
    <2>. QED
      BY <1>0, <1>3, <2>1, SocketBooks, JoinBooks DEF SocketStep
  <1>4. CASE UNCHANGED vars
    BY <1>1, <1>4 DEF vars, sessionVars
  <1>. QED
    BY <1>0, <1>2, <1>3, <1>4, RequestBooks DEF Next

(* A publish of the live session is one attempt's business from the start of *)
(* its pause to the end of finalizeAndEnd, however attempts, deletes,        *)
(* restores, timeouts and closing sockets interleave: the pause's waiter is  *)
(* the attempt that waits, an attempt past its wait never finds the pause    *)
(* idle, and no second attempt and no delete is past its start meanwhile.    *)
THEOREM OnePublisherHolds == Spec => []OnePublisher
<1>1. Init => AllBooks
  BY InitBooks
<1>2. TypeOK /\ SessionMaps /\ AllBooks /\ [Next]_vars => AllBooks'
  BY StepBooks
<1>3. TypeOK /\ AllBooks => OnePublisher
  <2> SUFFICES ASSUME TypeOK, AllBooks, NEW s \in Sessions, sstate[s] = "active"
               PROVE  /\ \A a \in PausedBy(s) : apc[a] = "waiting" <=> pause[s].waiter = a
                      /\ pause[s].waiter # 0 => pause[s].waiter \in PausedBy(s)
                      /\ Cardinality(PausedBy(s)) <= 1
                      /\ PausedBy(s) # {} =>
                            pause[s].state # "idle" /\ ~Running(s, "delete_commit")
    BY DEF OnePublisher
  <2>1. Books(s, lane[s], pause[s], sstate[s], apc, asess)
    BY DEF AllBooks, InBooks
  <2>2. PausedBy(s) = Holding(s, apc, asess)
    BY DEF PausedBy, Holding
  <2>3. WaiterWaits(s, pause[s], apc, asess) /\ Single(s, lane[s], pause[s], apc, asess)
    BY <2>1 DEF Books
  <2>4. \A a \in PausedBy(s) : apc[a] = "waiting" <=> pause[s].waiter = a
    BY <2>2, <2>3, BoundsAssumption DEF WaiterWaits, Single, Holding, Attempts
  <2>5. pause[s].waiter # 0 => pause[s].waiter \in PausedBy(s)
    BY <2>2, <2>3 DEF WaiterWaits, Holding
  <2>6. Cardinality(PausedBy(s)) <= 1
    <3>1. CASE PausedBy(s) = {}
      BY <3>1, FS_EmptySet
    <3>2. ASSUME NEW a \in PausedBy(s) PROVE Cardinality(PausedBy(s)) <= 1
      <4>1. PausedBy(s) = {a}
        BY <2>2, <2>3, <3>2 DEF Single
      <4>2. Cardinality({a}) = 1
        BY FS_Singleton, Zenon
      <4>. QED
        BY <4>1, <4>2
    <3>. QED
      BY <3>1, <3>2
  <2>7. Running(s, "delete_commit") => \E i \in DOMAIN lane[s] : lane[s][i].op = "delete_commit"
    <3> SUFFICES ASSUME Running(s, "delete_commit")
                 PROVE  \E i \in DOMAIN lane[s] : lane[s][i].op = "delete_commit"
      OBVIOUS
    <3>1. lane[s] \in Seq(Commands) /\ lane[s] # << >> /\ Head(lane[s]).op = "delete_commit"
      BY DEF TypeOK, LanesTyped, Running
    <3>2. 1 \in DOMAIN lane[s] /\ Head(lane[s]) = lane[s][1]
      BY <3>1
    <3>. QED
      BY <3>1, <3>2
  <2>. QED
    BY <2>2, <2>3, <2>4, <2>5, <2>6, <2>7 DEF Single
<1>. QED
  BY <1>1, <1>2, <1>3, TypeCorrect, MapsHold, PTL DEF Spec

-----------------------------------------------------------------------------
(* One publish attempt of the document at a time.                            *)

UnderWay(x) == x \notin {"unused", "chained", "done"}

(* publishChains holds the last attempt made until that one is over.  An     *)
(* attempt waits for the one before it, unless all before it are over, and   *)
(* an attempt that has been started finds all before it over.                *)
ChainInOrder ==
    /\ chain \in {0, nAttempts}
    /\ chain = 0 => \A b \in Attempts : apc[b] \in {"unused", "done"}
    /\ \A b \in Attempts : b <= nAttempts => apc[b] # "unused"
    /\ \A a, b \in Attempts :
          apc[a] \notin {"unused", "chained"} /\ b < a => apc[b] = "done"
    /\ \A a \in Attempts : apc[a] = "chained" =>
          \/ aprev[a] = 0 /\ \A b \in Attempts : b < a => apc[b] = "done"
          \/ aprev[a] # 0 /\ aprev[a] = a - 1

(* Two attempts are never under way together.                                *)
LEMMA OneUnderWay ==
    ASSUME ChainInOrder, NEW a \in Attempts, NEW b \in Attempts,
           UnderWay(apc[a]), UnderWay(apc[b])
    PROVE  a = b
  BY BoundsAssumption DEF ChainInOrder, UnderWay, Attempts

(* What an attempt does between its start and its end leaves the chain.      *)
LEMMA ChainGoesOn ==
    ASSUME ChainInOrder, UNCHANGED <<nAttempts, aprev, chain>>,
           \A b \in Attempts : \/ apc'[b] = apc[b]
                               \/ UnderWay(apc[b]) /\ UnderWay(apc'[b])
    PROVE  ChainInOrder'
  <1>1. chain' = 0 => \A b \in Attempts : apc'[b] \in {"unused", "done"}
    BY DEF ChainInOrder, UnderWay
  <1>2. \A b \in Attempts : b <= nAttempts' => apc'[b] # "unused"
    BY DEF ChainInOrder, UnderWay
  <1>3. \A a, b \in Attempts :
          apc'[a] \notin {"unused", "chained"} /\ b < a => apc'[b] = "done"
    <2> SUFFICES ASSUME NEW a \in Attempts, NEW b \in Attempts,
                        apc'[a] \notin {"unused", "chained"}, b < a
                 PROVE  apc'[b] = "done"
      OBVIOUS
    <2>1. apc[a] \notin {"unused", "chained"}
      BY DEF UnderWay
    <2>2. apc[b] = "done"
      BY <2>1 DEF ChainInOrder
    <2>. QED
      BY <2>2 DEF UnderWay
  <1>4. ASSUME NEW a \in Attempts, apc'[a] = "chained"
        PROVE  \/ aprev'[a] = 0 /\ \A b \in Attempts : b < a => apc'[b] = "done"
               \/ aprev'[a] # 0 /\ aprev'[a] = a - 1
    <2>1. apc[a] = "chained"
      BY <1>4 DEF UnderWay
    <2>2. \A b \in Attempts : apc[b] = "done" => apc'[b] = "done"
      BY DEF UnderWay
    <2>. QED
      BY <2>1, <2>2 DEF ChainInOrder
  <1>. QED
    BY <1>1, <1>2, <1>3, <1>4 DEF ChainInOrder

(* An attempt that is over lets the next one start.                          *)
LEMMA ChainFinish ==
    ASSUME AttemptsTyped, AttemptsCounted, ChainInOrder, NEW a \in Attempts, UnderWay(apc[a]),
           NEW o, Finish(a, o)
    PROVE  ChainInOrder'
  <1>1. /\ apc' = [apc EXCEPT ![a] = "done"] /\ chain' = IF chain = a THEN 0 ELSE chain
        /\ nAttempts' = nAttempts /\ aprev' = aprev
        /\ apc \in [Attempts -> AttemptStates] /\ nAttempts \in Nat /\ MaxAttempts \in Nat
    BY BoundsAssumption DEF Finish, AttemptsTyped
  <1>2. apc'[a] = "done" /\ \A b \in Attempts : b # a => apc'[b] = apc[b]
    BY <1>1
  <1>3. chain' = 0 => \A b \in Attempts : apc'[b] \in {"unused", "done"}
    <2>1. chain # 0
      BY DEF ChainInOrder, UnderWay
    <2>2. ASSUME chain = a, NEW b \in Attempts PROVE apc'[b] \in {"unused", "done"}
      <3>1. a = nAttempts
        BY <2>1, <2>2 DEF ChainInOrder
      <3>2. CASE b < a
        BY <1>2, <3>2 DEF ChainInOrder, UnderWay, Attempts
      <3>3. CASE b = a
        BY <1>2, <3>3
      <3>4. CASE b > a
        BY <1>2, <3>1, <3>4 DEF AttemptsCounted, Attempts
      <3>. QED
        BY <1>1, <3>2, <3>3, <3>4 DEF Attempts
    <2>. QED
      BY <1>1, <2>1, <2>2
  <1>4. \A b \in Attempts : b <= nAttempts' => apc'[b] # "unused"
    BY <1>1, <1>2 DEF ChainInOrder
  <1>5. \A c, b \in Attempts :
          apc'[c] \notin {"unused", "chained"} /\ b < c => apc'[b] = "done"
    BY <1>2 DEF ChainInOrder, UnderWay
  <1>6. \A c \in Attempts : apc'[c] = "chained" =>
          \/ aprev'[c] = 0 /\ \A b \in Attempts : b < c => apc'[b] = "done"
          \/ aprev'[c] # 0 /\ aprev'[c] = c - 1
    BY <1>1, <1>2 DEF ChainInOrder
  <1>7. chain' \in {0, nAttempts'}
    BY <1>1 DEF ChainInOrder
  <1>. QED
    BY <1>3, <1>4, <1>5, <1>6, <1>7 DEF ChainInOrder

(* The next attempt in the chain is the only one to start.                   *)
LEMMA ChainNext ==
    ASSUME AttemptsTyped, ChainInOrder, NEW a \in Attempts, RunAttempt(a)
    PROVE  ChainInOrder'
  <1>1. /\ apc' = [apc EXCEPT ![a] = "queued"] /\ UNCHANGED <<chain, nAttempts, aprev>>
        /\ apc[a] = "chained" /\ (aprev[a] # 0 => apc[aprev[a]] = "done")
        /\ apc \in [Attempts -> AttemptStates] /\ MaxAttempts \in Nat
    BY BoundsAssumption DEF RunAttempt, AttemptsTyped
  <1>2. apc'[a] = "queued" /\ \A b \in Attempts : b # a => apc'[b] = apc[b]
    BY <1>1
  <1>3. \A b \in Attempts : b < a => apc[b] = "done"
    <2>1. CASE aprev[a] = 0
      BY <1>1, <2>1 DEF ChainInOrder
    <2>2. CASE aprev[a] # 0
      <3>1. aprev[a] = a - 1 /\ apc[a - 1] = "done"
        BY <1>1, <2>2 DEF ChainInOrder
      <3> SUFFICES ASSUME NEW b \in Attempts, b < a PROVE apc[b] = "done"
        OBVIOUS
      <3>2. a - 1 \in Attempts
        BY <1>1 DEF Attempts
      <3>3. b = a - 1 \/ b < a - 1
        BY DEF Attempts
      <3>. QED
        BY <3>1, <3>2, <3>3 DEF ChainInOrder
    <2>. QED
      BY <2>1, <2>2
  <1>4. chain # 0
    BY <1>1 DEF ChainInOrder
  <1>5. \A c, b \in Attempts :
          apc'[c] \notin {"unused", "chained"} /\ b < c => apc'[b] = "done"
    <2> SUFFICES ASSUME NEW c \in Attempts, NEW b \in Attempts,
                        apc'[c] \notin {"unused", "chained"}, b < c
                 PROVE  apc'[b] = "done"
      OBVIOUS
    <2>1. b # a
      BY <1>1, <1>2 DEF ChainInOrder, Attempts
    <2>. QED
      BY <1>2, <1>3, <2>1 DEF ChainInOrder
  <1>6. \A c \in Attempts : apc'[c] = "chained" =>
          \/ aprev'[c] = 0 /\ \A b \in Attempts : b < c => apc'[b] = "done"
          \/ aprev'[c] # 0 /\ aprev'[c] = c - 1
    <2> SUFFICES ASSUME NEW c \in Attempts, apc'[c] = "chained"
                 PROVE  \/ aprev'[c] = 0 /\ \A b \in Attempts : b < c => apc'[b] = "done"
                        \/ aprev'[c] # 0 /\ aprev'[c] = c - 1
      OBVIOUS
    <2>1. c # a /\ apc[c] = "chained"
      BY <1>2
    <2>2. CASE aprev[c] = 0
      <3>1. \A b \in Attempts : b < c => apc[b] = "done"
        BY <2>1, <2>2 DEF ChainInOrder
      <3>2. ~(a < c)
        BY <1>1, <3>1
      <3>. QED
        BY <1>1, <1>2, <2>2, <3>1, <3>2
    <2>3. CASE aprev[c] # 0
      BY <1>1, <2>1, <2>3 DEF ChainInOrder
    <2>. QED
      BY <2>2, <2>3
  <1>7. \A b \in Attempts : b <= nAttempts' => apc'[b] # "unused"
    BY <1>1, <1>2 DEF ChainInOrder
  <1>. QED
    BY <1>1, <1>4, <1>5, <1>6, <1>7 DEF ChainInOrder

(* A new attempt is chained behind the last one that is not over.            *)
LEMMA ChainNew ==
    ASSUME AttemptsTyped, AttemptsCounted, ChainInOrder, NEW s,
           NEW pc \in [Attempts -> AttemptStates], NewAttempt(s, pc),
           \A b \in Attempts : pc[b] = apc[b] \/ (UnderWay(apc[b]) /\ UnderWay(pc[b]))
    PROVE  ChainInOrder'
  <1>1. PICK a \in Attempts : a = nAttempts + 1 /\ nAttempts \in Nat
    BY BoundsAssumption DEF NewAttempt, AttemptsTyped
  <1>2. /\ apc' = [pc EXCEPT ![a] = "chained"] /\ aprev' = [aprev EXCEPT ![a] = chain]
        /\ nAttempts' = a /\ chain' = a /\ aprev \in [Attempts -> 0..MaxAttempts]
        /\ MaxAttempts \in Nat
    BY <1>1, BoundsAssumption DEF NewAttempt, AttemptsTyped
  <1>3. /\ apc'[a] = "chained" /\ aprev'[a] = chain
        /\ \A b \in Attempts : b # a => apc'[b] = pc[b] /\ aprev'[b] = aprev[b]
    BY <1>2
  <1>4. apc[a] = "unused" /\ pc[a] = "unused"
    BY <1>1, <1>2 DEF AttemptsCounted, Attempts, UnderWay
  <1>5. \A b \in Attempts : b < a \/ b = a \/ (b > a /\ apc[b] = "unused" /\ pc[b] = "unused")
    BY <1>1, <1>2 DEF AttemptsCounted, Attempts, UnderWay
  <1>6. \A b \in Attempts : b <= nAttempts' => apc'[b] # "unused"
    <2> SUFFICES ASSUME NEW b \in Attempts, b <= nAttempts', b # a PROVE apc'[b] # "unused"
      BY <1>3
    <2>1. b <= nAttempts
      BY <1>1, <1>2 DEF Attempts
    <2>. QED
      BY <1>3, <2>1 DEF ChainInOrder, UnderWay
  <1>7. \A c, b \in Attempts :
          apc'[c] \notin {"unused", "chained"} /\ b < c => apc'[b] = "done"
    <2> SUFFICES ASSUME NEW c \in Attempts, NEW b \in Attempts,
                        apc'[c] \notin {"unused", "chained"}, b < c
                 PROVE  apc'[b] = "done"
      OBVIOUS
    <2>1. c # a /\ apc[c] \notin {"unused", "chained"}
      BY <1>3 DEF UnderWay
    <2>2. c < a
      BY <1>3, <1>5, <2>1
    <2>3. b # a /\ apc[b] = "done"
      BY <2>1, <2>2 DEF ChainInOrder, Attempts
    <2>. QED
      BY <1>3, <2>3 DEF UnderWay
  <1>8. \A c \in Attempts : apc'[c] = "chained" =>
          \/ aprev'[c] = 0 /\ \A b \in Attempts : b < c => apc'[b] = "done"
          \/ aprev'[c] # 0 /\ aprev'[c] = c - 1
    <2> SUFFICES ASSUME NEW c \in Attempts, apc'[c] = "chained"
                 PROVE  \/ aprev'[c] = 0 /\ \A b \in Attempts : b < c => apc'[b] = "done"
                        \/ aprev'[c] # 0 /\ aprev'[c] = c - 1
      OBVIOUS
    <2>1. CASE c = a /\ chain # 0
      <3>1. chain = nAttempts
        BY <2>1 DEF ChainInOrder
      <3>. QED
        BY <1>1, <1>3, <2>1, <3>1
    <2>2. CASE c = a /\ chain = 0
      <3>1. \A b \in Attempts : b < a => apc[b] = "done"
        BY <1>1, <2>2 DEF ChainInOrder, Attempts
      <3>2. \A b \in Attempts : b < a => apc'[b] = "done"
        BY <1>3, <3>1 DEF UnderWay, Attempts
      <3>. QED
        BY <1>3, <2>2, <3>2
    <2>3. CASE c # a
      <3>1. apc[c] = "chained" /\ aprev'[c] = aprev[c]
        BY <1>3, <2>3 DEF UnderWay
      <3>2. c < a
        BY <1>5, <2>3, <3>1
      <3>3. CASE aprev[c] = 0
        <4>1. \A b \in Attempts : b < c => apc[b] = "done"
          BY <3>1, <3>3 DEF ChainInOrder
        <4>2. \A b \in Attempts : b < c => b # a
          BY <3>2 DEF Attempts
        <4>. QED
          BY <1>3, <3>1, <3>3, <4>1, <4>2 DEF UnderWay
      <3>4. CASE aprev[c] # 0
        BY <3>1, <3>4 DEF ChainInOrder
      <3>. QED
        BY <3>3, <3>4
    <2>. QED
      BY <2>1, <2>2, <2>3
  <1>9. chain' # 0
    BY <1>2 DEF Attempts
  <1>. QED
    BY <1>2, <1>6, <1>7, <1>8, <1>9 DEF ChainInOrder

(* A running publish command is of an attempt under way.                     *)
LEMMA RunningAttempt ==
    ASSUME TypeOK, AllBooks, NEW s \in Sessions, lane[s] # << >>,
           Head(lane[s]).op \in PublishOps
    PROVE  /\ Arg(s) \in Attempts /\ asess[Arg(s)] = s
           /\ apc[Arg(s)] = Stage(Head(lane[s]).op) /\ UnderWay(apc[Arg(s)])
  <1>1. lane[s] \in Seq(Commands) /\ Orderly(lane[s], s, apc, asess)
    BY DEF TypeOK, LanesTyped, AllBooks, InBooks, Books
  <1>2. Arg(s) \in Attempts /\ asess[Arg(s)] = s /\ apc[Arg(s)] = Stage(Head(lane[s]).op)
    BY <1>1, OrderlyTail DEF Arg
  <1>. QED
    BY <1>2 DEF Stage, UnderWay

(* What becomes of the attempts when the live session's pause moves.         *)
LEMMA AfterPause ==
    ASSUME TypeOK, AllBooks, NEW s \in Sessions, NEW q \in Pauses, PauseMoved(pause[s], q)
    PROVE  /\ ApcAfter(s, q) \in [Attempts -> AttemptStates]
           /\ \A b \in Attempts :
                 \/ ApcAfter(s, q)[b] = apc[b]
                 \/ asess[b] = s /\ apc[b] = "waiting" /\ ApcAfter(s, q)[b] = "finalizing"
  BY BooksResumed DEF AllBooks, InBooks

(* What an ack, a lost socket or the timeout makes of the live session's     *)
(* pause is a pause that has moved.                                          *)
LEMMA MovedPauses ==
    ASSUME TypeOK, NEW s \in Sessions, NEW k \in Sockets
    PROVE  /\ PauseMarkReady(pause[s], k) \in Pauses
           /\ PauseSocketLost(pause[s], k) \in Pauses
           /\ PauseTimedOut(pause[s]) \in Pauses
           /\ PauseMoved(pause[s], PauseMarkReady(pause[s], k))
           /\ PauseMoved(pause[s], PauseSocketLost(pause[s], k))
           /\ PauseMoved(pause[s], PauseTimedOut(pause[s]))
  <1>1. pause[s] \in Pauses
    BY DEF TypeOK, PausesTyped
  <1>. QED
    BY <1>1, PauseMoves, PauseTypes

(* A move of the pause leaves the chain.                                     *)
LEMMA ChainPause ==
    ASSUME TypeOK, AllBooks, ChainInOrder, NEW s \in Sessions, NEW q \in Pauses,
           PauseMoved(pause[s], q), PauseStep(s, q)
    PROVE  ChainInOrder'
  <1>1. /\ apc' = ApcAfter(s, q) /\ UNCHANGED <<nAttempts, aprev, chain>>
    BY DEF PauseStep
  <1>2. \A b \in Attempts : \/ apc'[b] = apc[b]
                            \/ UnderWay(apc[b]) /\ UnderWay(apc'[b])
    BY <1>1, AfterPause DEF UnderWay
  <1>. QED
    BY <1>1, <1>2, ChainGoesOn

(* Every step keeps the chain in order.                                      *)
LEMMA ChainStep ==
    ASSUME TypeOK, SessionMaps, AllBooks, ChainInOrder, [Next]_vars
    PROVE  ChainInOrder'
  <1>1. /\ AttemptsTyped /\ AttemptsCounted /\ apc \in [Attempts -> AttemptStates]
        /\ current # 0 => current \in Sessions
    BY BoundsAssumption
       DEF TypeOK, AllBooks, AttemptsTyped, SessionsTyped, Sessions
  <1>2. ASSUME UNCHANGED attemptVars PROVE ChainInOrder'
    BY <1>2, ChainGoesOn DEF attemptVars
  <1>3. ASSUME NEW s \in Sessions, lane[s] # << >>, Head(lane[s]).op \in PublishOps,
               NEW o, Finish(Arg(s), o)
        PROVE  ChainInOrder'
    BY <1>1, <1>3, RunningAttempt, ChainFinish
  <1>4. ASSUME NEW s \in Sessions, LanePhase1(s) PROVE ChainInOrder'
    <2>1. lane[s] # << >> /\ Head(lane[s]).op \in PublishOps
      BY <1>4 DEF LanePhase1, Running, PublishOps
    <2>2. CASE /\ apc' = [apc EXCEPT ![Arg(s)] = "finalizing"]
               /\ UNCHANGED <<nAttempts, aprev, chain>>
      BY <1>1, <2>1, <2>2, RunningAttempt, ChainGoesOn DEF UnderWay
    <2>3. CASE /\ apc' = [apc EXCEPT ![Arg(s)] = "waiting"]
               /\ UNCHANGED <<nAttempts, aprev, chain>>
      BY <1>1, <2>1, <2>3, RunningAttempt, ChainGoesOn DEF UnderWay
    <2>4. CASE Finish(Arg(s), "noop")
      BY <1>3, <2>1, <2>4
    <2>. QED
      BY <1>4, <2>2, <2>3, <2>4 DEF LanePhase1
  <1>5. ASSUME NEW s \in Sessions,
               \/ LaneAbort(s) \/ LaneSettle(s) \/ LaneSettleBadly(s) \/ LaneCommit(s)
        PROVE  ChainInOrder'
    <2>1. lane[s] # << >> /\ Head(lane[s]).op \in PublishOps
      BY <1>5 DEF LaneAbort, LaneSettle, LaneSettleBadly, LaneCommit, Running, PublishOps
    <2>2. UNCHANGED attemptVars \/ \E o : Finish(Arg(s), o)
      BY <1>5 DEF LaneAbort, LaneSettle, LaneSettleBadly, LaneCommit, EndAttempt
    <2>. QED
      BY <1>2, <1>3, <2>1, <2>2
  <1>6. ASSUME NEW s \in Sessions,
               \/ ConstructRead(s) \/ ConstructDone(s) \/ LaneBoot(s) \/ LaneGate(s)
               \/ LaneMaterialize(s) \/ LaneQuiesce(s) \/ LaneDelete(s)
               \/ LaneDeleteCommit(s) \/ LaneDeleteAbandoned(s)
        PROVE  ChainInOrder'
    BY <1>2, <1>6
       DEF ConstructRead, ConstructDone, LaneBoot, LaneGate, LaneMaterialize, LaneQuiesce,
           LaneDelete, LaneDeleteCommit, LaneDeleteAbandoned
  <1>7. ASSUME NEW s \in Sessions, PauseTimeout(s) PROVE ChainInOrder'
    <2>1. pause[s] \in Pauses
      BY DEF TypeOK, PausesTyped
    <2>. QED
      BY <1>7, <2>1, PauseMoves, ChainPause
         DEF PauseTimeout, PauseTimedOut, PauseSettled, Pauses, PauseStates
  <1>8. ASSUME NEW k \in Sockets,
               \/ Connect(k) \/ Acquire(k) \/ LeaveDone(k) \/ ClientEdit(k)
               \/ ClientReceive(k) \/ ClientReady(k)
        PROVE  ChainInOrder'
    BY <1>2, <1>8
       DEF Connect, Acquire, LeaveDone, ClientEdit, ClientReceive, ClientReady
  <1>9. ASSUME NEW k \in Sockets, ServerReceive(k) PROVE ChainInOrder'
    <2>1. \/ UNCHANGED attemptVars
          \/ current # 0 /\ PauseStep(current, PauseMarkReady(pause[current], k))
      BY <1>9 DEF ServerReceive, IsCurrentSessionEditor
    <2>. QED
      BY <1>1, <1>2, <2>1, MovedPauses, ChainPause
  <1>10. ASSUME NEW k \in Sockets, CloseEvent(k) PROVE ChainInOrder'
    <2>1. CASE UNCHANGED attemptVars
      BY <1>2, <2>1
    <2>2. CASE current # 0 /\ PauseStep(current, PauseSocketLost(pause[current], k))
      BY <1>1, <2>2, MovedPauses, ChainPause
    <2>3. CASE /\ current # 0
               /\ NewAttempt(current, ApcAfter(current, PauseSocketLost(pause[current], k)))
      <3>1. PICK q \in Pauses : /\ q = PauseSocketLost(pause[current], k)
                                /\ PauseMoved(pause[current], q)
        BY <1>1, <2>3, MovedPauses
      <3>2. PICK pc \in [Attempts -> AttemptStates] :
               /\ pc = ApcAfter(current, q)
               /\ \A b \in Attempts : pc[b] = apc[b] \/ (UnderWay(apc[b]) /\ UnderWay(pc[b]))
        BY <1>1, <2>3, <3>1, AfterPause DEF UnderWay
      <3>. QED
        BY <1>1, <2>3, <3>1, <3>2, ChainNew
    <2>. QED
      BY <1>10, <2>1, <2>2, <2>3 DEF CloseEvent, PublishesOnLeaving
  <1>11. ASSUME NEW a \in Attempts, RunAttempt(a) PROVE ChainInOrder'
    BY <1>1, <1>11, ChainNext
  <1>12. CASE Request
    <2>1. UNCHANGED attemptVars \/ NewAttempt(current, apc)
      BY <1>12 DEF Request, ForcePublish, QuiesceFire, DeleteRequest, RestoreBegin
    <2>. QED
      BY <1>1, <1>2, <2>1, ChainNew
  <1>13. CASE RestoreStep
    BY <1>2, <1>13 DEF RestoreStep, RestoreHandoff, RestoreLock, RestoreLand
  <1>14. CASE UNCHANGED vars
    BY <1>2, <1>14 DEF vars
  <1>. QED
    BY <1>4, <1>5, <1>6, <1>7, <1>8, <1>9, <1>10, <1>11, <1>12, <1>13, <1>14
       DEF Next, SessionStep, SocketStep, LaneStep

-----------------------------------------------------------------------------
(* The freeze of the editors.                                                *)

(* A client whose wire holds d, in phase ph, with its Y.Doc or not (bt), is   *)
(* covered by the pause: a start frame that no end frame follows is on its   *)
(* way, or it is in the pause and no end frame is on its way, or it has only *)
(* bootstraps taken during the pause to start from.                          *)
CoveredBy(d, ph, bt) ==
    \/ \E i \in DOMAIN d : d[i] = "start" /\ \A j \in DOMAIN d : j > i => d[j] # "end"
    \/ ph # "open" /\ \A j \in DOMAIN d : d[j] # "end"
    \/ ~bt /\ \A j \in DOMAIN d : d[j] = "boot_frozen"

(* A start frame covers its client.                                          *)
LEMMA StartCovers ==
    ASSUME NEW d \in Seq(Notices), NEW ph, NEW bt
    PROVE  CoveredBy(Append(d, "start"), ph, bt)
  <1>1. /\ Len(d) \in Nat /\ Len(d) + 1 \in DOMAIN Append(d, "start")
        /\ Append(d, "start")[Len(d) + 1] = "start"
        /\ \A j \in DOMAIN Append(d, "start") : ~(j > Len(d) + 1)
    OBVIOUS
  <1>. QED
    BY <1>1 DEF CoveredBy

(* A bootstrap taken during the pause leaves its client covered.             *)
LEMMA FrozenBootCovers ==
    ASSUME NEW d \in Seq(Notices), NEW ph, NEW bt, CoveredBy(d, ph, bt)
    PROVE  CoveredBy(Append(d, "boot_frozen"), ph, bt)
  <1>1. PICK e \in Seq(Notices) : e = Append(d, "boot_frozen")
    <2>1. Append(d, "boot_frozen") \in Seq(Notices)
      BY DEF Notices
    <2>. QED
      BY <2>1
  <1>2. /\ \A i \in DOMAIN d : i \in DOMAIN e /\ e[i] = d[i]
        /\ \A j \in DOMAIN e : e[j] = "boot_frozen" \/ (j \in DOMAIN d /\ e[j] = d[j])
    BY <1>1
  <1>. QED
    BY <1>1, <1>2 DEF CoveredBy

(* A client that receives the next frame stays covered.                      *)
LEMMA ReceiveCovers ==
    ASSUME NEW d \in Seq(Notices), d # << >>, NEW ph \in ClientPhases, NEW bt \in BOOLEAN,
           CoveredBy(d, ph, bt)
    PROVE  CoveredBy(Tail(d), PhaseAfter(ph, Head(d)),
                     bt \/ Head(d) \in {"boot", "boot_frozen"})
  <1>1. Tail(d) \in Seq(Notices)
    OBVIOUS
  <1>2. PICK t \in Seq(Notices) : t = Tail(d)
    BY <1>1
  <1>3. PICK f : f = Head(d)
    OBVIOUS
  <1>4. /\ \A j \in DOMAIN t : j \in Nat /\ j + 1 \in DOMAIN d /\ t[j] = d[j + 1] /\ j + 1 > 1
        /\ \A i \in DOMAIN d : i # 1 => i - 1 \in DOMAIN t /\ t[i - 1] = d[i] /\ i \in Nat
        /\ 1 \in DOMAIN d /\ f = d[1] /\ f \in Notices
    BY <1>2, <1>3
  <1>5. CASE \E i \in DOMAIN d :
               i # 1 /\ d[i] = "start" /\ \A j \in DOMAIN d : j > i => d[j] # "end"
    <2>1. PICK i \in DOMAIN d :
             i # 1 /\ d[i] = "start" /\ \A j \in DOMAIN d : j > i => d[j] # "end"
      BY <1>5
    <2>2. i - 1 \in DOMAIN t /\ t[i - 1] = "start"
      BY <1>4, <2>1
    <2>3. \A j \in DOMAIN t : j > i - 1 => t[j] # "end"
      <3> SUFFICES ASSUME NEW j \in DOMAIN t, j > i - 1 PROVE t[j] # "end"
        OBVIOUS
      <3>1. j \in Nat /\ j + 1 \in DOMAIN d /\ t[j] = d[j + 1] /\ i \in Nat
        BY <1>4, <2>1
      <3>2. j + 1 > i
        BY <3>1
      <3>. QED
        BY <2>1, <3>1, <3>2
    <2>. QED
      BY <1>2, <2>2, <2>3 DEF CoveredBy
  <1>6. CASE /\ f = "start" \/ (ph # "open" /\ f # "end") \/ f = "boot_frozen"
             /\ \A j \in DOMAIN d : j > 1 => d[j] # "end"
    <2>1. PhaseAfter(ph, f) # "open"
      BY <1>4, <1>6 DEF PhaseAfter, ClientPhases, Notices
    <2>2. \A j \in DOMAIN t : t[j] # "end"
      BY <1>4, <1>6
    <2>. QED
      BY <1>2, <1>3, <2>1, <2>2 DEF CoveredBy
  <1>. QED
    BY <1>4, <1>5, <1>6 DEF CoveredBy

(* While the live session's pause is on, every open socket is covered: one   *)
(* that is not an editor yet may become one before the pause ends.           *)
Covers ==
    \A s \in Sessions : sstate[s] = "active" /\ PauseIsActive(pause[s]) =>
        \A k \in OpenSockets : CoveredBy(down[k], phase[k], booted[k])

(* A socket that has not connected has had nothing sent to it.               *)
SocketsFresh == \A k \in Sockets : sock[k] = "idle" => down[k] = << >> /\ ~booted[k]

Freeze == Covers /\ SocketsFresh

(* No pause of a live session comes on, and no session with one goes live.   *)
NoPauseStarts ==
    \A s \in Sessions : sstate'[s] = "active" /\ PauseIsActive(pause'[s]) =>
                           sstate[s] = "active" /\ PauseIsActive(pause[s])

(* A socket connects, or stays what it was to the freeze.                    *)
NoneReopens ==
    \A k \in Sockets : \/ sock'[k] = sock[k]
                       \/ sock[k] \in {"idle", "open", "editor"} /\ sock'[k] # "idle"
                       \/ sock'[k] \notin {"idle", "open", "editor"}

(* The freeze is kept by a step that starts no pause, if what it does to the *)
(* wire of a socket leaves its client covered.                               *)
LEMMA FreezeKept ==
    ASSUME Freeze, NoPauseStarts, NoneReopens,
           \A k \in Sockets :
              \/ down'[k] = down[k] /\ phase'[k] = phase[k] /\ booted'[k] = booted[k]
              \/ sock'[k] \notin {"idle", "open", "editor"}
              \/ /\ sock'[k] # "idle"
                 /\ CoveredBy(down[k], phase[k], booted[k]) =>
                       CoveredBy(down'[k], phase'[k], booted'[k])
    PROVE  Freeze'
  <1>1. SocketsFresh'
    BY DEF Freeze, SocketsFresh, NoneReopens
  <1>2. Covers'
    <2> SUFFICES ASSUME NEW s \in Sessions, sstate'[s] = "active", PauseIsActive(pause'[s]),
                        NEW k \in Sockets, sock'[k] \in {"open", "editor"}
                 PROVE  CoveredBy(down'[k], phase'[k], booted'[k])
      BY DEF Covers, OpenSockets
    <2>1. sstate[s] = "active" /\ PauseIsActive(pause[s])
      BY DEF NoPauseStarts
    <2>2. CASE sock[k] \in {"open", "editor"}
      <3>1. CoveredBy(down[k], phase[k], booted[k])
        BY <2>1, <2>2 DEF Freeze, Covers, OpenSockets
      <3>. QED
        BY <3>1
    <2>3. CASE sock[k] = "idle"
      <3>1. down[k] = << >> /\ ~booted[k]
        BY <2>3 DEF Freeze, SocketsFresh
      <3>2. CoveredBy(down[k], phase[k], booted[k])
        BY <3>1 DEF CoveredBy
      <3>. QED
        BY <3>2
    <2>. QED
      BY <2>2, <2>3 DEF NoneReopens
  <1>. QED
    BY <1>1, <1>2 DEF Freeze

(* A pause that is not idle is held by an attempt past its start.            *)
PauseHeld == \A s \in Sessions : pause[s].state # "idle" => Holding(s, apc, asess) # {}

(* A step keeps the pauses held if it starts none and gives up none.         *)
LEMMA HeldKept ==
    ASSUME PauseHeld,
           \A s \in Sessions : pause'[s].state # "idle" => pause[s].state # "idle",
           \A b \in Attempts :
              apc[b] \in {"waiting", "finalizing"} =>
                 /\ asess'[b] = asess[b]
                 /\ \/ apc'[b] \in {"waiting", "finalizing"}
                    \/ asess[b] \in Sessions /\ pause'[asess[b]].state = "idle"
    PROVE  PauseHeld'
  BY DEF PauseHeld, Holding

(* Lanes with no delete on them.                                             *)
Undeleted == {c \in Commands : c.op \notin {"delete", "delete_commit"}}
NoDeletes == lane \in [Sessions -> Seq(Undeleted)]

(* A command that is no delete joins a lane without deletes, or takes the    *)
(* place of the head of one; the head of one is taken off it.                *)
LEMMA EnqueuedUndeleted ==
    ASSUME NoDeletes, NEW s \in Sessions, NEW c \in Undeleted
    PROVE  Enqueued(lane, s, c) \in [Sessions -> Seq(Undeleted)]
  BY DEF NoDeletes, Enqueued

LEMMA PoppedUndeleted ==
    ASSUME NoDeletes, NEW s \in Sessions, lane[s] # << >>
    PROVE  Popped(lane, s) \in [Sessions -> Seq(Undeleted)]
  BY DEF NoDeletes, Popped

LEMMA ContinuedUndeleted ==
    ASSUME NoDeletes, NEW s \in Sessions, lane[s] # << >>, NEW c \in Undeleted
    PROVE  Continued(lane, s, c) \in [Sessions -> Seq(Undeleted)]
  <1>1. <<c>> \in Seq(Undeleted) /\ Tail(lane[s]) \in Seq(Undeleted)
    BY DEF NoDeletes
  <1>2. <<c>> \o Tail(lane[s]) \in Seq(Undeleted)
    BY <1>1
  <1>. QED
    BY <1>2 DEF NoDeletes, Continued

(* The commands the coordinator itself puts on a lane are no deletes.        *)
LEMMA CommandUndeleted ==
    ASSUME NEW op \in LaneOps \ {"delete", "delete_commit"}, NEW n \in Nat,
           op \in {"update", "materialize"} => n \in Edits
    PROVE  Command(op, n) \in Undeleted
  <1>1. Command(op, n) \in Commands
    BY CommandType
  <1>. QED
    BY <1>1 DEF Undeleted, Command

LEMMA LaneAfterUndeleted ==
    ASSUME NoDeletes, PausesTyped, NEW s \in Sessions, NEW q \in Pauses
    PROVE  LaneAfter(s, q) \in [Sessions -> Seq(Undeleted)]
  <1> DEFINE a == PauseResumes(pause[s], q)
  <1>1. CASE a = 0
    BY <1>1 DEF LaneAfter, NoDeletes
  <1>2. CASE a # 0
    <2>1. a \in Nat /\ q.state \in {"ready", "aborted"}
      BY <1>2, PauseResumesSettled DEF PausesTyped
    <2>2. Command(q.state, a) \in Undeleted
      BY <2>1, CommandUndeleted DEF LaneOps
    <2>. QED
      BY <1>2, <2>2, EnqueuedUndeleted DEF LaneAfter
  <1>. QED
    BY <1>1, <1>2

LEMMA AttachUndeleted ==
    ASSUME NoDeletes, NEW ks \in SUBSET Sockets, NEW s \in Sessions, Attach(ks, s)
    PROVE  NoDeletes'
  <1>1. [op |-> "boot", n |-> 0, ks |-> ks] \in Undeleted
    BY DEF Undeleted, Commands, LaneOps
  <1>. QED
    BY <1>1, EnqueuedUndeleted DEF Attach, NoDeletes

(* A lane step leaves no delete that it did not find.                        *)
LEMMA LaneStepUndeleted ==
    ASSUME TypeOK, NoDeletes, NEW s \in Sessions, LaneStep(s)
    PROVE  NoDeletes'
  <1>1. lane[s] # << >> /\ lane[s] \in Seq(Undeleted) /\ lane \in [Sessions -> Seq(Commands)]
    BY DEF LaneStep, LaneBoot, LaneGate, LaneMaterialize, LanePhase1, LaneAbort, LaneSettle,
           LaneSettleBadly, LaneCommit, LaneQuiesce, LaneDelete, LaneDeleteCommit,
           LaneDeleteAbandoned, Running, TypeOK, LanesTyped, NoDeletes
  <1>2. Head(lane[s]) \in Undeleted /\ Head(lane[s]) \in Commands /\ Arg(s) \in Nat
    <2>1. Head(lane[s]) \in Undeleted
      BY <1>1
    <2>2. Head(lane[s]) \in Commands
      BY <2>1 DEF Undeleted
    <2>. QED
      BY <2>1, <2>2 DEF Arg, Commands
  <1>3. ASSUME NEW op \in {"ready", "commit"}, lane' = Continued(lane, s, Command(op, Arg(s)))
        PROVE  NoDeletes'
    <2>1. Command(op, Arg(s)) \in Undeleted
      BY <1>2, CommandUndeleted DEF LaneOps
    <2>. QED
      BY <1>1, <1>3, <2>1, ContinuedUndeleted DEF NoDeletes
  <1>4. ASSUME Running(s, "update"), lane' = Continued(lane, s, Command("materialize", Arg(s)))
        PROVE  NoDeletes'
    <2>1. Arg(s) \in Edits
      BY <1>2, <1>4 DEF Running, Arg, Commands
    <2>2. Command("materialize", Arg(s)) \in Undeleted
      BY <1>2, <2>1, CommandUndeleted DEF LaneOps
    <2>. QED
      BY <1>1, <1>4, <2>2, ContinuedUndeleted DEF NoDeletes
  <1>5. lane' = Popped(lane, s) => NoDeletes'
    BY <1>1, PoppedUndeleted DEF NoDeletes
  <1>6. Head(lane[s]).op \notin {"delete", "delete_commit"}
    BY <1>2 DEF Undeleted
  <1>7. CASE LaneBoot(s) \/ LaneMaterialize(s) \/ LaneAbort(s) \/ LaneSettleBadly(s)
             \/ LaneCommit(s) \/ LaneQuiesce(s)
    BY <1>5, <1>7
       DEF LaneBoot, LaneMaterialize, LaneAbort, LaneSettleBadly, LaneCommit, LaneQuiesce,
           EndAttempt
  <1>8. CASE LaneGate(s)
    BY <1>4, <1>5, <1>8 DEF LaneGate
  <1>9. CASE LanePhase1(s) \/ LaneSettle(s)
    BY <1>3, <1>5, <1>9 DEF LanePhase1, LaneSettle, EndAttempt
  <1>10. CASE LaneDelete(s) \/ LaneDeleteCommit(s) \/ LaneDeleteAbandoned(s)
    BY <1>6, <1>10 DEF LaneDelete, LaneDeleteCommit, LaneDeleteAbandoned, Running
  <1>. QED
    BY <1>7, <1>8, <1>9, <1>10 DEF LaneStep

(* Nobody but a delete request puts a delete on a lane.                      *)
LEMMA StepUndeleted ==
    ASSUME TypeOK, NoDeletes, [Next]_vars, ~DeleteRequest
    PROVE  NoDeletes'
  <1>1. /\ current # 0 => current \in Sessions
        /\ pause \in [Sessions -> Pauses] /\ PausesTyped /\ AttemptsTyped
    BY BoundsAssumption DEF TypeOK, SessionsTyped, Sessions, PausesTyped
  <1>2. lane' = lane => NoDeletes'
    BY DEF NoDeletes
  <1>3. ASSUME NEW s \in Sessions, NEW q \in Pauses, lane' = LaneAfter(s, q) PROVE NoDeletes'
    BY <1>1, <1>3, LaneAfterUndeleted DEF NoDeletes
  <1>4. ASSUME NEW s \in Sessions, SessionStep(s) PROVE NoDeletes'
    <2>1. CASE ConstructRead(s)
      BY <1>2, <2>1 DEF ConstructRead
    <2>2. CASE ConstructDone(s)
      BY <2>2, AttachUndeleted DEF ConstructDone, Acquirers
    <2>3. CASE PauseTimeout(s)
      <3>1. PauseTimedOut(pause[s]) \in Pauses
        BY <1>1 DEF PauseTimedOut, PauseSettled, Pauses, PauseStates
      <3>. QED
        BY <1>3, <2>3, <3>1 DEF PauseTimeout, PauseStep
    <2>. QED
      BY <1>4, <2>1, <2>2, <2>3, LaneStepUndeleted DEF SessionStep
  <1>5. ASSUME NEW k \in Sockets, SocketStep(k) PROVE NoDeletes'
    <2>1. CASE Connect(k) \/ LeaveDone(k) \/ ClientEdit(k) \/ ClientReceive(k) \/ ClientReady(k)
      BY <1>2, <2>1 DEF Connect, LeaveDone, ClientEdit, ClientReceive, ClientReady
    <2>2. CASE Acquire(k)
      <3>1. CASE promised # 0 /\ Attach({k}, promised)
        <4>1. promised \in Sessions
          BY <3>1, BoundsAssumption DEF TypeOK, SessionsTyped, Sessions
        <4>. QED
          BY <3>1, <4>1, AttachUndeleted
      <3>. QED
        BY <1>2, <2>2, <3>1 DEF Acquire
    <2>3. CASE ServerReceive(k)
      <3>1. CASE /\ current # 0 /\ up[k] # << >> /\ Head(up[k]).op = "update"
                 /\ lane' = Enqueued(lane, current, Command("update", Head(up[k]).n))
        <4>1. Head(up[k]) \in Frames
          BY <3>1 DEF TypeOK, WireTyped
        <4>2. Head(up[k]).n \in Edits /\ Head(up[k]).n \in Nat
          BY <3>1, <4>1, BoundsAssumption DEF Frames
        <4>3. Command("update", Head(up[k]).n) \in Undeleted
          BY <4>2, CommandUndeleted DEF LaneOps
        <4>. QED
          BY <1>1, <3>1, <4>3, EnqueuedUndeleted DEF NoDeletes
      <3>2. CASE current # 0 /\ lane' = LaneAfter(current, PauseMarkReady(pause[current], k))
        BY <1>1, <1>3, <3>2, MovedPauses
      <3>. QED
        BY <1>2, <2>3, <3>1, <3>2 DEF ServerReceive, IsCurrentSessionEditor, PauseStep
    <2>4. CASE CloseEvent(k)
      <3>1. CASE current # 0 /\ lane' = LaneAfter(current, PauseSocketLost(pause[current], k))
        BY <1>1, <1>3, <3>1, MovedPauses
      <3>. QED
        BY <1>2, <2>4, <3>1 DEF CloseEvent, PublishesOnLeaving, PauseStep
    <2>. QED
      BY <1>5, <2>1, <2>2, <2>3, <2>4 DEF SocketStep
  <1>6. ASSUME NEW a \in Attempts, RunAttempt(a) PROVE NoDeletes'
    <2>1. Command("phase1", a) \in Undeleted
      BY CommandUndeleted, BoundsAssumption DEF LaneOps, Attempts
    <2>2. CASE asess[a] \in Sessions
      BY <1>6, <2>1, <2>2, EnqueuedUndeleted DEF RunAttempt, NoDeletes
    <2>3. CASE asess[a] \notin Sessions
      BY <1>6, <2>3 DEF RunAttempt, NoDeletes, Enqueued
    <2>. QED
      BY <2>2, <2>3
  <1>7. CASE Request
    <2>1. CASE QuiesceFire
      <3>1. Command("quiesce", 0) \in Undeleted
        BY CommandUndeleted DEF LaneOps
      <3>. QED
        BY <1>1, <1>2, <2>1, <3>1, EnqueuedUndeleted DEF QuiesceFire, NoDeletes
    <2>. QED
      BY <1>2, <1>7, <2>1 DEF Request, ForcePublish, RestoreBegin
  <1>8. CASE RestoreStep \/ UNCHANGED vars
    BY <1>2, <1>8 DEF RestoreStep, RestoreHandoff, RestoreLock, RestoreLand, vars
  <1>. QED
    BY <1>4, <1>5, <1>6, <1>7, <1>8 DEF Next

(* A pause that moves stays held, and no step of its session's attempts but  *)
(* their end lets go of it.                                                  *)
LEMMA HeldMoved ==
    ASSUME TypeOK, AllBooks, PauseHeld, NEW s \in Sessions, NEW q \in Pauses,
           PauseMoved(pause[s], q), pause' = [pause EXCEPT ![s] = q],
           \A b \in Attempts : apc[b] # "unused" =>
              apc'[b] = ApcAfter(s, q)[b] /\ asess'[b] = asess[b]
    PROVE  PauseHeld'
  <1>1. \A t \in Sessions : pause'[t].state # "idle" => pause[t].state # "idle"
    <2>1. q.state # "idle" => pause[s].state # "idle"
      BY DEF PauseMoved
    <2>2. pause \in [Sessions -> Pauses]
      BY DEF TypeOK, PausesTyped
    <2>3. pause'[s] = q /\ \A t \in Sessions : t # s => pause'[t] = pause[t]
      BY <2>2
    <2>. QED
      BY <2>1, <2>3
  <1>2. \A b \in Attempts : apc[b] \in {"waiting", "finalizing"} =>
           apc'[b] \in {"waiting", "finalizing"} /\ asess'[b] = asess[b]
    BY AfterPause
  <1>. QED
    BY <1>1, <1>2, HeldKept

(* A new attempt takes nothing from those that hold a pause.                 *)
LEMMA HeldNewAttempt ==
    ASSUME AttemptsTyped, AttemptsCounted, NEW s, NEW pc \in [Attempts -> AttemptStates],
           \A b \in Attempts : apc[b] = "unused" => pc[b] = "unused",
           NewAttempt(s, pc)
    PROVE  \A b \in Attempts : apc[b] # "unused" => apc'[b] = pc[b] /\ asess'[b] = asess[b]
  <1>1. nAttempts + 1 \in Attempts /\ nAttempts \in Nat /\ apc[nAttempts + 1] = "unused"
    BY DEF NewAttempt, AttemptsTyped, AttemptsCounted
  <1>2. /\ apc' = [pc EXCEPT ![nAttempts + 1] = "chained"]
        /\ asess' = [asess EXCEPT ![nAttempts + 1] = s]
    BY DEF NewAttempt
  <1>. QED
    BY <1>1, <1>2 DEF AttemptsTyped

(* An attempt that ends ends its pause.                                      *)
LEMMA HeldFinish ==
    ASSUME TypeOK, AllBooks, PauseHeld, NEW s \in Sessions, lane[s] # << >>,
           Head(lane[s]).op \in PublishOps, NEW o, Finish(Arg(s), o),
           \A t \in Sessions : pause'[t].state \in {pause[t].state, "idle"},
           Head(lane[s]).op = "phase1" \/ pause'[s].state = "idle"
    PROVE  PauseHeld'
  <1>1. /\ Arg(s) \in Attempts /\ asess[Arg(s)] = s
        /\ apc[Arg(s)] = Stage(Head(lane[s]).op)
    BY RunningAttempt
  <1>2. \A b \in Attempts : b # Arg(s) => apc'[b] = apc[b]
    BY DEF Finish, TypeOK, AttemptsTyped
  <1>3. asess' = asess /\ (Head(lane[s]).op = "phase1" => apc[Arg(s)] = "queued")
    BY <1>1 DEF Finish, Stage
  <1>4. \A b \in Attempts :
           apc[b] \in {"waiting", "finalizing"} =>
              /\ asess'[b] = asess[b]
              /\ \/ apc'[b] \in {"waiting", "finalizing"}
                 \/ asess[b] \in Sessions /\ pause'[asess[b]].state = "idle"
    BY <1>1, <1>2, <1>3
  <1>. QED
    BY <1>4, HeldKept

(* What an invalidation does to the pauses.                                  *)
LEMMA InvalidatedPauses ==
    ASSUME TypeOK, NEW p \in [Sessions -> Pauses], Invalidated(p)
    PROVE  \A t \in Sessions : pause'[t] \in {p[t], IdlePause}
  <1>1. current # 0 => current \in Sessions
    BY BoundsAssumption DEF TypeOK, SessionsTyped, Sessions
  <1>. QED
    BY <1>1 DEF Invalidated, PauseEnded

(* The end of an attempt, or its step to the next await.                     *)
LEMMA EndOfAttempt ==
    ASSUME TypeOK, NEW s \in Sessions,
           LaneAbort(s) \/ LaneSettle(s) \/ LaneSettleBadly(s) \/ LaneCommit(s)
    PROVE  /\ lane[s] # << >> /\ Head(lane[s]).op \in PublishOps \ {"phase1"}
           /\ \/ UNCHANGED <<sstate, sock, pause, down, apc, asess>>
              \/ /\ \E o : Finish(Arg(s), o)
                 /\ pause'[s].state = "idle"
                 /\ \A t \in Sessions : pause'[t].state \in {pause[t].state, "idle"}
  <1>1. pause \in [Sessions -> Pauses]
    BY DEF TypeOK, PausesTyped
  <1>2. lane[s] # << >> /\ Head(lane[s]).op \in PublishOps \ {"phase1"}
    BY DEF LaneAbort, LaneSettle, LaneSettleBadly, LaneCommit, Running, PublishOps
  <1>3. ASSUME NEW o, EndAttempt(s, Arg(s), o)
        PROVE  /\ Finish(Arg(s), o)
               /\ pause'[s].state = "idle"
               /\ \A t \in Sessions : pause'[t].state \in {pause[t].state, "idle"}
    BY <1>1, <1>3 DEF EndAttempt, PauseEnded, IdlePause
  <1>4. CASE LaneAbort(s) \/ LaneCommit(s)
    <2>1. \E o : EndAttempt(s, Arg(s), o)
      BY <1>4 DEF LaneAbort, LaneCommit
    <2>. QED
      BY <1>2, <1>3, <2>1
  <1>5. CASE LaneSettle(s)
    <2>1. \/ UNCHANGED <<sstate, sock, pause, down, apc, asess>>
          \/ \E o : EndAttempt(s, Arg(s), o)
      BY <1>5 DEF LaneSettle, attemptVars, sessionVars, socketVars
    <2>. QED
      BY <1>2, <1>3, <2>1
  <1>6. CASE LaneSettleBadly(s)
    <2>1. PICK p : p = [pause EXCEPT ![s] = IdlePause]
      OBVIOUS
    <2>2. /\ p \in [Sessions -> Pauses] /\ p[s] = IdlePause
          /\ \A t \in Sessions : t # s => p[t] = pause[t]
      BY <1>1, <2>1 DEF IdlePause, Pauses, PauseStates
    <2>3. Invalidated(p) /\ \E o : Finish(Arg(s), o)
      BY <1>6, <2>1 DEF LaneSettleBadly, PauseEnded
    <2>4. \A t \in Sessions : pause'[t] \in {p[t], IdlePause}
      BY <2>2, <2>3, InvalidatedPauses
    <2>. QED
      BY <1>2, <2>2, <2>3, <2>4 DEF IdlePause
  <1>. QED
    BY <1>4, <1>5, <1>6

(* Every step keeps the pauses held.                                         *)
LEMMA StepHeld ==
    ASSUME TypeOK, AllBooks, NoDeletes, PauseHeld, [Next]_vars
    PROVE  PauseHeld'
  <1>1. /\ current # 0 => current \in Sessions
        /\ pause \in [Sessions -> Pauses] /\ AttemptsTyped /\ AttemptsCounted
        /\ apc \in [Attempts -> AttemptStates]
    BY BoundsAssumption
       DEF TypeOK, SessionsTyped, Sessions, PausesTyped, AttemptsTyped, AllBooks
  <1>2. ASSUME UNCHANGED <<apc, asess>>,
               \A t \in Sessions : pause'[t].state \in {pause[t].state, "idle"}
        PROVE  PauseHeld'
    BY <1>2, HeldKept
  <1>3. ASSUME UNCHANGED <<apc, asess, pause>> PROVE PauseHeld'
    BY <1>2, <1>3
  <1>4. ASSUME Invalidated(pause), UNCHANGED <<apc, asess>> PROVE PauseHeld'
    BY <1>1, <1>2, <1>4, InvalidatedPauses DEF IdlePause
  <1>5. ASSUME NEW s \in Sessions, NEW q \in Pauses, PauseMoved(pause[s], q), PauseStep(s, q)
        PROVE  PauseHeld'
    BY <1>5, HeldMoved DEF PauseStep
  <1>6. ASSUME NewAttempt(current, apc), UNCHANGED pause PROVE PauseHeld'
    <2>1. \A b \in Attempts : apc[b] # "unused" => apc'[b] = apc[b] /\ asess'[b] = asess[b]
      BY <1>1, <1>6, HeldNewAttempt
    <2>. QED
      BY <1>6, <2>1, HeldKept
  <1>7. ASSUME NEW s \in Sessions,
               LaneAbort(s) \/ LaneSettle(s) \/ LaneSettleBadly(s) \/ LaneCommit(s)
        PROVE  PauseHeld'
    BY <1>3, <1>7, EndOfAttempt, HeldFinish
  <1>8. ASSUME NEW s \in Sessions, LanePhase1(s) PROVE PauseHeld'
    <2>1. lane[s] # << >> /\ Head(lane[s]).op = "phase1" /\ "phase1" \in PublishOps
      BY <1>8 DEF LanePhase1, Running, PublishOps
    <2>2. CASE Finish(Arg(s), "noop") /\ UNCHANGED pause
      BY <2>1, <2>2, HeldFinish
    <2>3. CASE /\ pause' = [pause EXCEPT ![s] = PauseStarted(ActiveEditors, Arg(s))]
               /\ \/ apc' = [apc EXCEPT ![Arg(s)] = "finalizing"]
                  \/ apc' = [apc EXCEPT ![Arg(s)] = "waiting"]
               /\ UNCHANGED asess
      <3>1. Arg(s) \in Attempts /\ asess[Arg(s)] = s
        BY <2>1, RunningAttempt
      <3>2. Arg(s) \in Holding(s, apc', asess')
        BY <1>1, <2>3, <3>1 DEF Holding
      <3>3. \A t \in Sessions : t # s => pause'[t] = pause[t]
        BY <1>1, <2>3
      <3>4. \A t \in Sessions : Holding(t, apc, asess) \subseteq Holding(t, apc', asess')
        BY <1>1, <2>3, <3>1 DEF Holding
      <3>. QED
        BY <3>2, <3>3, <3>4 DEF PauseHeld
    <2>. QED
      BY <1>8, <2>2, <2>3 DEF LanePhase1
  <1>9. ASSUME NEW s \in Sessions, SessionStep(s) PROVE PauseHeld'
    <2>1. CASE \/ ConstructRead(s) \/ ConstructDone(s) \/ LaneBoot(s) \/ LaneGate(s)
               \/ LaneMaterialize(s)
      BY <1>3, <2>1
         DEF ConstructRead, ConstructDone, LaneBoot, LaneGate, LaneMaterialize, attemptVars
    <2>2. CASE LaneQuiesce(s)
      BY <1>3, <1>4, <2>2 DEF LaneQuiesce, attemptVars
    <2>3. CASE PauseTimeout(s)
      <3>1. PauseTimedOut(pause[s]) \in Pauses
        BY <1>1 DEF PauseTimedOut, PauseSettled, Pauses, PauseStates
      <3>. QED
        BY <1>1, <1>5, <2>3, <3>1, PauseMoves DEF PauseTimeout
    <2>4. CASE LaneDelete(s) \/ LaneDeleteCommit(s) \/ LaneDeleteAbandoned(s)
      <3>1. lane[s] # << >> /\ Head(lane[s]).op \in {"delete", "delete_commit"}
        BY <2>4 DEF LaneDelete, LaneDeleteCommit, LaneDeleteAbandoned, Running
      <3>2. Head(lane[s]) \in Undeleted
        BY <3>1 DEF NoDeletes
      <3>. QED
        BY <3>1, <3>2 DEF Undeleted
    <2>. QED
      BY <1>7, <1>8, <1>9, <2>1, <2>2, <2>3, <2>4 DEF SessionStep, LaneStep
  <1>10. ASSUME NEW k \in Sockets, SocketStep(k) PROVE PauseHeld'
    <2>1. CASE \/ Connect(k) \/ Acquire(k) \/ LeaveDone(k) \/ ClientEdit(k)
               \/ ClientReceive(k) \/ ClientReady(k)
      BY <1>3, <2>1
         DEF Connect, Acquire, LeaveDone, ClientEdit, ClientReceive, ClientReady, attemptVars
    <2>2. CASE ServerReceive(k)
      <3>1. \/ UNCHANGED <<apc, asess, pause>>
            \/ current # 0 /\ PauseStep(current, PauseMarkReady(pause[current], k))
        BY <2>2 DEF ServerReceive, IsCurrentSessionEditor, attemptVars
      <3>. QED
        BY <1>1, <1>3, <1>5, <3>1, MovedPauses
    <2>3. CASE CloseEvent(k)
      <3>1. CASE UNCHANGED <<apc, asess, pause>>
        BY <1>3, <3>1
      <3>2. CASE current # 0 /\ PauseStep(current, PauseSocketLost(pause[current], k))
        BY <1>1, <1>5, <3>2, MovedPauses
      <3>3. CASE /\ current # 0
                 /\ pause' = [pause EXCEPT ![current] = PauseSocketLost(pause[current], k)]
                 /\ NewAttempt(current, ApcAfter(current, PauseSocketLost(pause[current], k)))
        <4>1. PICK q \in Pauses : /\ q = PauseSocketLost(pause[current], k)
                                  /\ PauseMoved(pause[current], q)
          BY <1>1, <3>3, MovedPauses
        <4>2. PICK pc \in [Attempts -> AttemptStates] :
                 /\ pc = ApcAfter(current, q)
                 /\ \A b \in Attempts : apc[b] = "unused" => pc[b] = "unused"
          BY <1>1, <3>3, <4>1, AfterPause
        <4>3. \A b \in Attempts : apc[b] # "unused" => apc'[b] = pc[b] /\ asess'[b] = asess[b]
          BY <1>1, <3>3, <4>1, <4>2, HeldNewAttempt
        <4>. QED
          BY <1>1, <3>3, <4>1, <4>2, <4>3, HeldMoved
      <3>. QED
        BY <2>3, <3>1, <3>2, <3>3 DEF CloseEvent, PublishesOnLeaving, attemptVars
    <2>. QED
      BY <1>10, <2>1, <2>2, <2>3 DEF SocketStep
  <1>11. ASSUME NEW a \in Attempts, RunAttempt(a) PROVE PauseHeld'
    <2>1. /\ apc[a] = "chained" /\ UNCHANGED <<asess, pause>>
          /\ \A b \in Attempts : b # a => apc'[b] = apc[b]
      BY <1>1, <1>11 DEF RunAttempt
    <2>. QED
      BY <2>1, HeldKept
  <1>12. CASE Request
    BY <1>3, <1>6, <1>12
       DEF Request, ForcePublish, QuiesceFire, DeleteRequest, RestoreBegin, attemptVars
  <1>13. CASE RestoreStep
    BY <1>3, <1>4, <1>13 DEF RestoreStep, RestoreHandoff, RestoreLock, RestoreLand, attemptVars
  <1>14. CASE UNCHANGED vars
    BY <1>3, <1>14 DEF vars, attemptVars
  <1>. QED
    BY <1>9, <1>10, <1>11, <1>12, <1>13, <1>14 DEF Next

(* A step that leaves the wire alone and starts no pause keeps the freeze.   *)
LEMMA FreezeQuiet ==
    ASSUME Freeze, NoPauseStarts, NoneReopens, UNCHANGED <<down, phase, booted>>
    PROVE  Freeze'
  BY FreezeKept

(* Nothing starts a pause: sessions and pauses that stay or end, and the     *)
(* pause of one session that moves.                                          *)
LEMMA NothingStarts ==
    ASSUME \A t \in Sessions : /\ sstate'[t] \in {sstate[t], "ended"}
                               /\ pause'[t] \in {pause[t], IdlePause}
    PROVE  NoPauseStarts
  BY DEF NoPauseStarts, PauseIsActive, IdlePause

LEMMA MoveStartsNone ==
    ASSUME TypeOK, NEW s \in Sessions, NEW q, PauseMoved(pause[s], q),
           pause' = [pause EXCEPT ![s] = q],
           \A t \in Sessions : sstate'[t] \in {sstate[t], "ended"}
    PROVE  NoPauseStarts
  <1>1. pause \in [Sessions -> Pauses]
    BY DEF TypeOK, PausesTyped
  <1>2. pause'[s] = q /\ \A t \in Sessions : t # s => pause'[t] = pause[t]
    BY <1>1
  <1>3. PauseIsActive(q) => PauseIsActive(pause[s])
    BY DEF PauseMoved, PauseIsActive
  <1>. QED
    BY <1>2, <1>3 DEF NoPauseStarts

(* Sessions only end by an invalidation or a release.                        *)
LEMMA SessionsEnd ==
    ASSUME TypeOK, \/ \E k \in Sockets : ReleaseDocSession(k)
                   \/ \E p \in [Sessions -> Pauses] : Invalidated(p)
                   \/ UNCHANGED sessionVars
    PROVE  \A t \in Sessions : sstate'[t] \in {sstate[t], "ended"}
  BY DEF TypeOK, SessionsTyped, ReleaseDocSession, Invalidated, SessionGone, sessionVars

(* What the server does to its sockets reopens none.                         *)
LEMMA ServerReopensNone ==
    ASSUME \/ UNCHANGED sock
           \/ \E ks : ClosedByServer(ks)
           \/ \E ks, s : Attach(ks, s)
           \/ \E p : Invalidated(p)
    PROVE  NoneReopens
  BY DEF NoneReopens, ClosedByServer, Attach, Invalidated, OpenSockets

(* The start of a pause covers every open socket.                            *)
LEMMA StartFreezes ==
    ASSUME TypeOK, Freeze, down' = Broadcast(down, "start"),
           UNCHANGED <<sock, phase, booted>>
    PROVE  Freeze'
  <1>1. down \in [Sockets -> Seq(Notices)]
    BY DEF TypeOK, WireTyped
  <1>2. \A k \in OpenSockets : CoveredBy(down'[k], phase'[k], booted'[k])
    BY <1>1, StartCovers DEF Broadcast, OpenSockets
  <1>3. SocketsFresh'
    BY DEF Freeze, SocketsFresh, Broadcast, OpenSockets
  <1>. QED
    BY <1>2, <1>3 DEF Freeze, Covers, OpenSockets

(* The end of an attempt, which ends every pause there was.                  *)
LEMMA EndThaws ==
    ASSUME TypeOK, AllBooks, ChainInOrder, PauseHeld', Freeze, NEW s \in Sessions,
           LaneAbort(s) \/ LaneSettle(s) \/ LaneSettleBadly(s) \/ LaneCommit(s)
    PROVE  Freeze'
  <1>1. UNCHANGED <<phase, booted>>
    BY DEF LaneAbort, LaneSettle, LaneSettleBadly, LaneCommit, wireVars
  <1>2. CASE UNCHANGED <<sstate, sock, pause, down>>
    <2>1. NoPauseStarts /\ NoneReopens
      BY <1>2 DEF NoPauseStarts, NoneReopens
    <2>. QED
      BY <1>1, <1>2, <2>1, FreezeQuiet
  <1>3. CASE \E o : Finish(Arg(s), o)
    <2>1. /\ Arg(s) \in Attempts /\ UnderWay(apc[Arg(s)])
          /\ apc \in [Attempts -> AttemptStates] /\ apc' = [apc EXCEPT ![Arg(s)] = "done"]
      BY <1>3, EndOfAttempt, RunningAttempt DEF Finish, TypeOK, AttemptsTyped
    <2>2. \A b \in Attempts : b # Arg(s) => apc'[b] = apc[b]
      BY <2>1
    <2>3. \A b \in Attempts : apc'[b] \notin {"waiting", "finalizing"}
      <3>1. ASSUME NEW b \in Attempts, b # Arg(s), UnderWay(apc[b]) PROVE FALSE
        BY <2>1, <3>1, OneUnderWay
      <3>. QED
        BY <2>1, <2>2, <3>1 DEF UnderWay
    <2>4. \A t \in Sessions : pause'[t].state = "idle"
      BY <2>3 DEF PauseHeld, Holding
    <2>5. Covers'
      BY <2>4 DEF Covers, PauseIsActive
    <2>6. SocketsFresh'
      <3>1. /\ sock' = sock \/ \E p : Invalidated(p)
            /\ down' = down \/ down' = Broadcast(down, "end")
        BY DEF LaneAbort, LaneSettle, LaneSettleBadly, LaneCommit, EndAttempt, wireVars,
               socketVars
      <3>2. \A k \in Sockets : sock'[k] = "idle" => sock[k] = "idle"
        BY <3>1 DEF Invalidated
      <3>3. \A k \in Sockets : sock[k] = "idle" => down'[k] = down[k]
        BY <3>1 DEF Broadcast, OpenSockets
      <3>. QED
        BY <1>1, <3>2, <3>3 DEF Freeze, SocketsFresh
    <2>. QED
      BY <2>5, <2>6 DEF Freeze
  <1>. QED
    BY <1>2, <1>3, EndOfAttempt

(* A bootstrap during the pause is a frozen one, and with no pause on there  *)
(* is nothing to cover.                                                      *)
LEMMA BootFreezes ==
    ASSUME TypeOK, OneLiveSession, Freeze, NEW s \in Sessions, LaneBoot(s)
    PROVE  Freeze'
  <1>1. /\ down \in [Sockets -> Seq(Notices)]
        /\ UNCHANGED <<sstate, pause, sock, phase, booted>>
    BY DEF TypeOK, WireTyped, LaneBoot, sessionVars, socketVars
  <1>2. NoPauseStarts /\ NoneReopens
    BY <1>1 DEF NoPauseStarts, NoneReopens
  <1>3. CASE sstate[s] # "active"
    BY <1>1, <1>2, <1>3, FreezeKept DEF LaneBoot
  <1>4. CASE sstate[s] = "active" /\ PauseIsActive(pause[s])
    <2>1. \A k \in Sockets : \/ down'[k] = down[k]
                             \/ /\ k \in OpenSockets
                                /\ down'[k] = Append(down[k], "boot_frozen")
      BY <1>4 DEF LaneBoot
    <2>. QED
      BY <1>1, <1>2, <2>1, FrozenBootCovers, FreezeKept DEF OpenSockets
  <1>5. CASE sstate[s] = "active" /\ ~PauseIsActive(pause[s])
    <2>1. Covers'
      <3>1. \A t \in Sessions : sstate[t] = "active" => t = s
        BY <1>5 DEF OneLiveSession
      <3>. QED
        BY <1>1, <1>5, <3>1 DEF Covers
    <2>2. SocketsFresh'
      BY <1>1 DEF Freeze, SocketsFresh, LaneBoot, OpenSockets
    <2>. QED
      BY <2>1, <2>2 DEF Freeze
  <1>. QED
    BY <1>3, <1>4, <1>5

(* Every step keeps the freeze.                                              *)
LEMMA StepFreeze ==
    ASSUME TypeOK, SessionMaps, AllBooks, ChainInOrder, NoDeletes, PauseHeld', Freeze,
           [Next]_vars
    PROVE  Freeze'
  <1>1. /\ current # 0 => current \in Sessions
        /\ OneLiveSession /\ pause \in [Sessions -> Pauses] /\ SocketsTyped
        /\ down \in [Sockets -> Seq(Notices)] /\ booted \in [Sockets -> BOOLEAN]
        /\ phase \in [Sockets -> ClientPhases] /\ sock \in [Sockets -> SocketStates]
    BY BoundsAssumption
       DEF TypeOK, SessionsTyped, Sessions, PausesTyped, SessionMaps, WireTyped, SocketsTyped
  <1>2. ASSUME UNCHANGED <<sstate, pause, down, phase, booted, sock>> PROVE Freeze'
    BY <1>2, NothingStarts, ServerReopensNone, FreezeQuiet
  <1>3. ASSUME UNCHANGED <<down, phase, booted>>, Invalidated(pause) PROVE Freeze'
    <2>1. NoPauseStarts
      BY <1>1, <1>3, SessionsEnd, InvalidatedPauses, NothingStarts
    <2>. QED
      BY <1>3, <2>1, ServerReopensNone, FreezeQuiet
  <1>4. ASSUME NEW s \in Sessions, SessionStep(s) PROVE Freeze'
    <2>1. CASE LaneBoot(s)
      BY <1>1, <2>1, BootFreezes
    <2>2. CASE LaneAbort(s) \/ LaneSettle(s) \/ LaneSettleBadly(s) \/ LaneCommit(s)
      BY <2>2, EndThaws
    <2>3. CASE LanePhase1(s)
      BY <1>2, <2>3, StartFreezes DEF LanePhase1, sessionVars, socketVars
    <2>4. CASE LaneGate(s) \/ LaneMaterialize(s)
      <3>1. /\ UNCHANGED <<sstate, pause, down, phase, booted>>
            /\ UNCHANGED sock \/ \E ks : ClosedByServer(ks)
        BY <2>4 DEF LaneGate, LaneMaterialize, sessionVars, wireVars
      <3>. QED
        BY <3>1, NothingStarts, ServerReopensNone, FreezeQuiet
    <2>5. CASE LaneQuiesce(s)
      <3>1. /\ UNCHANGED <<down, phase, booted>>
            /\ UNCHANGED <<sstate, pause, sock>> \/ Invalidated(pause)
        BY <2>5 DEF LaneQuiesce, sessionVars, socketVars, wireVars
      <3>. QED
        BY <1>2, <1>3, <3>1
    <2>6. CASE LaneDelete(s) \/ LaneDeleteCommit(s) \/ LaneDeleteAbandoned(s)
      <3>1. lane[s] # << >> /\ Head(lane[s]).op \in {"delete", "delete_commit"}
        BY <2>6 DEF LaneDelete, LaneDeleteCommit, LaneDeleteAbandoned, Running
      <3>2. Head(lane[s]) \in Undeleted
        BY <3>1 DEF NoDeletes
      <3>. QED
        BY <3>1, <3>2 DEF Undeleted
    <2>7. CASE PauseTimeout(s)
      <3>1. /\ pause' = [pause EXCEPT ![s] = PauseTimedOut(pause[s])]
            /\ UNCHANGED <<sstate, sock, down, phase, booted>>
            /\ PauseMoved(pause[s], PauseTimedOut(pause[s]))
        BY <1>1, <2>7, PauseMoves DEF PauseTimeout, PauseStep, sessionVars, socketVars, wireVars
      <3>. QED
        BY <3>1, MoveStartsNone, ServerReopensNone, FreezeQuiet
    <2>8. CASE ConstructRead(s)
      <3>1. /\ UNCHANGED <<pause, down, phase, booted>>
            /\ UNCHANGED sock \/ \E ks : ClosedByServer(ks)
            /\ \A t \in Sessions : sstate'[t] = "active" => sstate[t] = "active"
        BY <2>8 DEF ConstructRead, TypeOK, SessionsTyped, wireVars
      <3>2. NoPauseStarts
        BY <3>1 DEF NoPauseStarts
      <3>. QED
        BY <3>1, <3>2, ServerReopensNone, FreezeQuiet
    <2>9. CASE ConstructDone(s)
      <3>1. /\ UNCHANGED <<pause, down, phase, booted>> /\ Attach(Acquirers, s)
            /\ \A t \in Sessions : t # s => sstate'[t] = sstate[t]
            /\ sstate[s] = "seeding"
        BY <2>9 DEF ConstructDone, TypeOK, SessionsTyped, wireVars
      <3>2. pause[s] = IdlePause
        BY <3>1 DEF AllBooks, InBooks, Books, Reached
      <3>3. NoPauseStarts
        BY <3>1, <3>2 DEF NoPauseStarts, PauseIsActive, IdlePause
      <3>. QED
        BY <3>1, <3>3, ServerReopensNone, FreezeQuiet
    <2>. QED
      BY <1>4, <2>1, <2>2, <2>3, <2>4, <2>5, <2>6, <2>7, <2>8, <2>9 DEF SessionStep, LaneStep
  <1>5. ASSUME NEW k \in Sockets, SocketStep(k) PROVE Freeze'
    <2>1. CASE Connect(k)
      <3>1. NoneReopens /\ UNCHANGED <<sstate, pause, down, phase, booted>>
        BY <1>1, <2>1 DEF Connect, NoneReopens, sessionVars, wireVars
      <3>. QED
        BY <3>1, NothingStarts, FreezeQuiet
    <2>2. CASE Acquire(k)
      <3>1. NoneReopens /\ UNCHANGED <<pause, down, phase, booted>>
        BY <2>2, ServerReopensNone DEF Acquire, wireVars
      <3>2. \A t \in Sessions : sstate'[t] = "active" => sstate[t] = "active"
        BY <2>2 DEF Acquire, TypeOK, SessionsTyped, sessionVars
      <3>3. NoPauseStarts
        BY <3>1, <3>2 DEF NoPauseStarts
      <3>. QED
        BY <3>1, <3>3, FreezeQuiet
    <2>3. CASE ServerReceive(k)
      <3>1. UNCHANGED <<sstate, down, phase, booted>> /\ NoneReopens
        BY <2>3, ServerReopensNone DEF ServerReceive, sessionVars
      <3>2. CASE UNCHANGED pause
        BY <3>1, <3>2, NothingStarts, FreezeQuiet
      <3>3. CASE /\ current # 0
                 /\ pause' = [pause EXCEPT ![current] = PauseMarkReady(pause[current], k)]
        BY <1>1, <3>1, <3>3, MovedPauses, MoveStartsNone, FreezeQuiet
      <3>. QED
        BY <2>3, <3>2, <3>3 DEF ServerReceive, IsCurrentSessionEditor, PauseStep
    <2>4. CASE CloseEvent(k)
      <3>1. /\ \A m \in Sockets : m # k => /\ down'[m] = down[m] /\ phase'[m] = phase[m]
                                           /\ booted'[m] = booted[m] /\ sock'[m] = sock[m]
            /\ sock'[k] \in {"closed", "leaving"}
        BY <1>1, <2>4 DEF CloseEvent, ClientGone
      <3>2. \A t \in Sessions : sstate'[t] \in {sstate[t], "ended"}
        BY <2>4, SessionsEnd DEF CloseEvent
      <3>3. NoPauseStarts
        <4>1. CASE UNCHANGED pause
          BY <3>2, <4>1, NothingStarts
        <4>2. CASE /\ current # 0
                   /\ pause' = [pause EXCEPT ![current] = PauseSocketLost(pause[current], k)]
          BY <1>1, <3>2, <4>2, MovedPauses, MoveStartsNone
        <4>. QED
          BY <2>4, <4>1, <4>2 DEF CloseEvent, PublishesOnLeaving, PauseStep
      <3>. QED
        BY <3>1, <3>3, FreezeKept DEF NoneReopens
    <2>5. CASE LeaveDone(k)
      <3>1. UNCHANGED <<pause, down, phase, booted>> /\ sock' = [sock EXCEPT ![k] = "closed"]
        BY <2>5 DEF LeaveDone, wireVars
      <3>2. NoneReopens
        BY <1>1, <3>1 DEF NoneReopens
      <3>3. \A t \in Sessions : sstate'[t] \in {sstate[t], "ended"}
        BY <2>5, SessionsEnd DEF LeaveDone
      <3>. QED
        BY <3>1, <3>2, <3>3, NothingStarts, FreezeQuiet
    <2>6. CASE ClientEdit(k)
      BY <1>2, <2>6 DEF ClientEdit, sessionVars, socketVars
    <2>7. CASE ClientReady(k)
      <3>1. /\ UNCHANGED <<sstate, pause, sock, down, booted>>
            /\ phase[k] = "settling" /\ phase'[k] = "ready"
            /\ \A m \in Sockets : m # k => phase'[m] = phase[m]
        BY <1>1, <2>7 DEF ClientReady, sessionVars, socketVars
      <3>2. \A m \in Sockets : CoveredBy(down[m], phase[m], booted[m]) =>
                                  CoveredBy(down'[m], phase'[m], booted'[m])
        BY <3>1 DEF CoveredBy
      <3>3. NoPauseStarts /\ NoneReopens
        BY <3>1, NothingStarts, ServerReopensNone
      <3>4. Covers'
        BY <3>1, <3>2 DEF Freeze, Covers, OpenSockets
      <3>5. SocketsFresh'
        BY <3>1 DEF Freeze, SocketsFresh
      <3>. QED
        BY <3>4, <3>5 DEF Freeze
    <2>8. CASE ClientReceive(k)
      <3>1. /\ UNCHANGED <<sstate, pause, sock>> /\ down[k] # << >>
            /\ down'[k] = Tail(down[k]) /\ phase'[k] = PhaseAfter(phase[k], Head(down[k]))
            /\ booted'[k] = (booted[k] \/ Head(down[k]) \in {"boot", "boot_frozen"})
            /\ \A m \in Sockets : m # k => /\ down'[m] = down[m] /\ phase'[m] = phase[m]
                                           /\ booted'[m] = booted[m]
        BY <1>1, <2>8 DEF ClientReceive, sessionVars, socketVars
      <3>2. CoveredBy(down[k], phase[k], booted[k]) =>
               CoveredBy(down'[k], phase'[k], booted'[k])
        BY <1>1, <3>1, ReceiveCovers
      <3>3. NoPauseStarts /\ NoneReopens
        BY <3>1, NothingStarts, ServerReopensNone
      <3>4. sock'[k] # "idle"
        BY <3>1 DEF Freeze, SocketsFresh
      <3>. QED
        BY <3>1, <3>2, <3>3, <3>4, FreezeKept
    <2>. QED
      BY <1>5, <2>1, <2>2, <2>3, <2>4, <2>5, <2>6, <2>7, <2>8 DEF SocketStep
  <1>6. ASSUME NEW a \in Attempts, RunAttempt(a) PROVE Freeze'
    BY <1>2, <1>6 DEF RunAttempt, sessionVars, socketVars, wireVars
  <1>7. CASE Request
    BY <1>2, <1>7
       DEF Request, ForcePublish, QuiesceFire, DeleteRequest, RestoreBegin, sessionVars,
           socketVars, wireVars
  <1>8. CASE RestoreStep
    BY <1>2, <1>3, <1>8
       DEF RestoreStep, RestoreHandoff, RestoreLock, RestoreLand, sessionVars, socketVars,
           wireVars
  <1>9. CASE UNCHANGED vars
    BY <1>2, <1>9 DEF vars, sessionVars, socketVars, wireVars
  <1>. QED
    BY <1>4, <1>5, <1>6, <1>7, <1>8, <1>9 DEF Next

(* From the start of a publish pause to its end every editor that has its    *)
(* document is frozen, or the freeze is ahead of it on the wire, whatever    *)
(* attempts, timeouts, restores and closing or joining sockets interleave.   *)
(* Where a delete may come the claim fails: a delete freezes the editors     *)
(* without a place in publishChains, and the publish of a session that is    *)
(* gone thaws them when it ends.                                             *)
THEOREM EditorsStayFrozen ==
    ASSUME "delete" \notin Env PROVE Spec => []EditorsFrozen
<1> DEFINE FreezeInv == ChainInOrder /\ NoDeletes /\ PauseHeld /\ Freeze
<1>1. Init => AllBooks /\ FreezeInv
  <2> SUFFICES ASSUME Init PROVE AllBooks /\ FreezeInv
    OBVIOUS
  <2>1. ChainInOrder
    BY BoundsAssumption DEF Init, ChainInOrder, Attempts
  <2>2. NoDeletes
    BY DEF Init, NoDeletes
  <2>3. PauseHeld /\ Freeze
    BY DEF Init, PauseHeld, Freeze, Covers, SocketsFresh, IdlePause
  <2>. QED
    BY <2>1, <2>2, <2>3, InitBooks
<1>2. TypeOK /\ SessionMaps /\ AllBooks /\ FreezeInv /\ [Next]_vars => AllBooks' /\ FreezeInv'
  BY StepBooks, ChainStep, StepUndeleted, StepHeld, StepFreeze DEF DeleteRequest
<1>3. TypeOK /\ FreezeInv => EditorsFrozen
  <2> SUFFICES ASSUME TypeOK, Freeze, NEW s \in Sessions, sstate[s] = "active",
                      PauseIsActive(pause[s]), NEW k \in ActiveEditors,
                      booted[k], phase[k] = "open"
               PROVE  \E i \in 1..Len(down[k]) : down[k][i] = "start"
    BY DEF EditorsFrozen
  <2>1. k \in OpenSockets /\ down[k] \in Seq(Notices)
    BY DEF ActiveEditors, OpenSockets, TypeOK, WireTyped
  <2>2. CoveredBy(down[k], phase[k], booted[k])
    BY <2>1 DEF Freeze, Covers
  <2>. QED
    BY <2>1, <2>2 DEF CoveredBy
<1>. QED
  BY <1>1, <1>2, <1>3, TypeCorrect, MapsHold, PTL DEF Spec
=============================================================================
