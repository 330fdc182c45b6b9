------------------------------ MODULE PauseFsm ------------------------------
(***************************************************************************)
(* The per-DocSession publish pause (docsession-publish-pause.ts), as      *)
(* operations on a value: what each method makes of the pause it finds.    *)
(* A session owns one pause; DocSession.tla calls these operations from    *)
(* the coordinator's handlers.                                             *)
(*                                                                         *)
(* Two private fields of the class are not carried because they follow     *)
(* from the others.  settled holds exactly when state is "ready" or        *)
(* "aborted": settle() sets both, start() and end() reset both.  The       *)
(* timeout timer is armed exactly while state is "pausing".                *)
(***************************************************************************)
EXTENDS Naturals

CONSTANT Sockets          \* editor socket ids

PauseStates == {"idle", "pausing", "ready", "aborted"}

(* waiter is the publish attempt that holds the promise start() returned,  *)
(* or 0 when resolveWaiter is null.                                        *)
Pauses == [state    : PauseStates,
           required : SUBSET Sockets,
           acked    : SUBSET Sockets,
           waiter   : Nat]

IdlePause == [state |-> "idle", required |-> {}, acked |-> {}, waiter |-> 0]

(* start(): with nobody to wait for the promise resolves "ready" at once.  *)
PauseStarted(socks, w) ==
    IF socks = {}
    THEN [IdlePause EXCEPT !.state = "ready"]
    ELSE [state |-> "pausing", required |-> socks, acked |-> {}, waiter |-> w]

(* Mutant: the resolver stays behind, to be called a second time.           *)
SettledTwice(p, outcome) == [p EXCEPT !.state = outcome]

(* settle(): resolve the promise and drop the resolver.                    *)
PauseSettled(p, outcome) == [p EXCEPT !.state = outcome, !.waiter = 0]

(* Mutant: the first ack ends the wait.                                     *)
FirstAckIsEnough(p, k) ==
    IF p.state = "pausing" /\ k \in p.required
    THEN PauseSettled([p EXCEPT !.acked = @ \cup {k}], "ready") ELSE p

(* markReady(): acks outside a pause or from other sockets are ignored.    *)
PauseMarkReady(p, k) ==
    LET acked == p.acked \cup {k}
        q     == [p EXCEPT !.acked = acked]
    IN  IF p.state # "pausing" \/ k \notin p.required THEN p
        ELSE IF p.required \subseteq acked THEN PauseSettled(q, "ready")
        ELSE q

(* handleSocketDisconnect(): only a required socket that has not acked     *)
(* takes the pause down with it.                                           *)
PauseSocketLost(p, k) ==
    IF p.state = "pausing" /\ k \in p.required \ p.acked
    THEN PauseSettled(p, "aborted")
    ELSE p

(* Mutant: the timeout resets the pause as end() does.                      *)
TimeoutDropsWaiter(p) == IF p.state = "pausing" THEN IdlePause ELSE p
(* Mutant: the timeout leaves the resolver behind.                          *)
TimeoutKeepsWaiter(p) ==
    IF p.state = "pausing" THEN [p EXCEPT !.state = "aborted"] ELSE p

(* The readiness timer.                                                     *)
PauseTimedOut(p) ==
    IF p.state = "pausing" THEN PauseSettled(p, "aborted") ELSE p

(* end(): back to idle from any state.  The resolver is dropped, not       *)
(* called.                                                                 *)
PauseEnded(p) == IdlePause

(* isActive(): what freezes a joining editor and refuses other commands.   *)
PauseIsActive(p) == p.state \in {"pausing", "ready"}

(* The attempt whose promise a step from p to q resolves (0 for none).     *)
PauseResumes(p, q) ==
    IF p.state = "pausing" /\ q.state \in {"ready", "aborted"}
    THEN p.waiter ELSE 0
=============================================================================
