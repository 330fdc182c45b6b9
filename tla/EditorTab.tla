------------------------------ MODULE EditorTab ------------------------------
(***************************************************************************)
(* Browser tabs on one document, their sockets, and the server's side of   *)
(* the channel: who edits, which DocSession a tab's Y.Doc belongs to, the  *)
(* publish pause as a tab sees it, and what a tab believes is received.    *)
(*                                                                         *)
(* A tab has at most one provider (an editor's or an observer's), a        *)
(* provider at most one socket, a socket is two FIFO channels.  The server *)
(* handles one frame of a socket at a time.  The lane work behind a frame  *)
(* (arbitration, materializing, committing) is module DocSession's.        *)
(*                                                                         *)
(* Sources: frontend services/crdt-provider.ts, observer-crdt-provider.ts, *)
(* live-section-replica.ts, page-ws-lifecycle.ts,                          *)
(* status/live-document-session.ts, hooks/useLiveSectionReplica.ts;        *)
(* backend ws/crdt-ws-coordinator.ts, ws/crdt-transport.ts,                *)
(* crdt/ydoc-lifecycle.ts.                                                 *)
(***************************************************************************)
EXTENDS Integers, Sequences, FiniteSets, SequencesExt

CONSTANTS Tabs,
          MaxSockets,    \* bound: sockets that exist at the same time
          MaxSessions,   \* bound: DocSessions ever created
          MaxClicks,     \* bound: clicks that open or close an editor
          MaxEdits,      \* bound: keystrokes
          MaxPauses,     \* bound: publish attempts
          MaxFaults,     \* bound: occurrences of what Env allows
          Env            \* what the environment may do, see below

(***************************************************************************)
(* Env: "drop"      the network closes a socket and loses what is on it    *)
(*      "lockdown"  a backup closes every socket (4025)                    *)
(*      "expiry"    a token expires: the next frame closes the socket      *)
(*      "sleep"     the browser freezes the page and its socket is killed  *)
(*      "restore"   the document is replaced (4022)                        *)
(*      "delete"    the document is deleted (4026)                         *)
(*      "unasked"   the first editor's arrival finds a socket that has not *)
(*                  asked for a role yet                                   *)
(*      "early"     a key is typed on a new connection before the bootstrap*)
(*      "unfocus"   a peer's edit removes the section a tab has focused    *)
(***************************************************************************)
EnvFlags == {"drop", "lockdown", "expiry", "sleep", "restore", "delete", "unasked", "early",
             "unfocus"}

ASSUME TabAssumption ==
  /\ {MaxSockets, MaxSessions, MaxClicks, MaxEdits, MaxPauses, MaxFaults} \subseteq Nat
  /\ Env \subseteq EnvFlags
  /\ IsFiniteSet(Tabs) /\ Cardinality(Tabs) <= MaxSockets     \* each page starts with a socket

Sockets == 1 .. MaxSockets
Kinds == {"viewing", "editing", "superseded", "socketStopped"}     \* LiveDocumentSession
Phases == {"connecting", "live", "reconnecting", "error"}

VARIABLES
  tab,        \* [Tabs -> the page: session state, replica, provider]
  sock,       \* [Sockets -> both ends of a socket and its two channels]
  session,    \* the active DocSession's liveYDocId, 0 if there is none
  holders,    \* the editor sockets that hold it
  pause,      \* its publish pause: [on, waiting, ready]
  dirty,      \* the document has a proposal with edits to publish
  integrated, \* [Tabs -> [gen, n]]: how far the server's Y.Doc has a tab's replica
  nSessions, nClicks, nEdits, nPauses, nFaults

server == <<session, holders, pause, dirty, integrated>>
vars == <<tab, sock, session, holders, pause, dirty, integrated,
          nSessions, nClicks, nEdits, nPauses, nFaults>>

\* client: "opening", "open", "broken" (closed, the page not told yet), "closed"
\* server: "open", "closing", "leaving" (its close handler publishes), "gone"
Unused == [owner |-> 0, client |-> "free", server |-> "none", role |-> "observer", attached |-> FALSE,
           joined |-> FALSE, sess |-> 0, boot |-> FALSE, recipient |-> FALSE, received |-> 0,
           up |-> <<>>, down |-> <<>>]

\* A provider as its constructor leaves it; retry: what will reopen the socket.
Provider(role) == [role |-> role, booted |-> FALSE, sent |-> 0, acked |-> 0, pubPaused |-> FALSE,
                   readySent |-> FALSE, freezing |-> {}, retry |-> "none"]

\* A page that shows the document: an observer, waiting for a session.
Page(socket, writer) ==
  [writer |-> writer, kind |-> "viewing", pipe |-> "live", paused |-> FALSE, shown |-> 0, gen |-> 1,
   bound |-> 0, own |-> 0, mirror |-> FALSE, broke |-> FALSE, prov |-> Provider("observer"),
   socket |-> socket, asleep |-> FALSE, handoff |-> 0, left |-> FALSE]
WaitingSocket(t) ==
  [Unused EXCEPT !.owner = t, !.client = "open", !.server = "open", !.attached = TRUE]

NoPause == [on |-> FALSE, waiting |-> {}, ready |-> {}]
Nothing == [gen |-> 0, n |-> 0]

Init ==
  \E place \in Injection(Tabs, 1 .. Cardinality(Tabs)), oneWriter \in BOOLEAN :
    /\ tab = [t \in Tabs |-> Page(place[t], IF oneWriter THEN 1 ELSE place[t])]
    /\ sock = [c \in Sockets |->
                 IF \E t \in Tabs : place[t] = c
                 THEN WaitingSocket(CHOOSE t \in Tabs : place[t] = c)
                 ELSE Unused]
    /\ session = 0 /\ holders = {} /\ pause = NoPause /\ dirty = FALSE
    /\ integrated = [t \in Tabs |-> Nothing]
    /\ nSessions = 0 /\ nClicks = 0 /\ nEdits = 0 /\ nPauses = 0 /\ nFaults = 0

(***************************************************************************)
(* The page                                                                *)
(***************************************************************************)

Awake(t) == ~tab[t].asleep /\ ~tab[t].left

\* mintFreshReplica: nothing of the old Y.Doc goes over; the session's paused
\* does.
FreshReplica(k) == [k EXCEPT !.gen = @ + 1, !.bound = 0, !.own = 0, !.mirror = FALSE, !.broke = FALSE]

\* The replica's pause mirror; the page is told only when it changes.
Mirrored(k, m) == [k EXCEPT !.mirror = m, !.paused = IF m # k.mirror THEN m ELSE @]

\* A row can be edited when its session, pipe and replica allow it.
Bound(k) == k.kind = "editing" /\ k.pipe = "live" /\ k.bound # 0 /\ ~k.left
Editable(k) == Bound(k) /\ ~k.paused

Tidy(c) == IF c.client = "closed" /\ c.server \in {"none", "gone"} THEN Unused ELSE c

\* WebSocket.close() by the page, its onclose handler removed.  The server
\* takes no notice of an observer's leaving.
Unnoticed(c) == c.role = "observer" /\ c.up = <<>>
Closed(c) ==
  IF Unnoticed(c) THEN Unused
  ELSE Tidy([c EXCEPT !.client = "closed", !.down = <<>>,
                      !.up = IF c.client = "open" THEN Append(@, [t |-> "fin"]) ELSE @])
HungUp(t) == IF tab[t].socket = 0 THEN sock ELSE [sock EXCEPT ![tab[t].socket] = Closed(@)]

FreeIn(s) == {c \in Sockets : s[c] = Unused}
\* new WebSocket(url), on the sockets s, for the page k.
Dial(t, k, s) ==
  /\ FreeIn(s) # {}
  /\ LET c == Min(FreeIn(s))
     IN /\ sock' = [s EXCEPT ![c].client = "opening", ![c].owner = t]
        /\ tab' = [tab EXCEPT ![t] = [k EXCEPT !.socket = c]]

\* teardownConnection, then startEditor or startObserver.
Start(t, k, role) == Dial(t, [k EXCEPT !.prov = Provider(role)], HungUp(t))

\* teardownConnection alone.
Torn(k) == [k EXCEPT !.prov = Provider("none"), !.socket = 0]

\* sessionReplaced: a fresh replica, and the editor only if it may be kept.
Replaced(t, keepEditing) ==
  LET k == FreshReplica(tab[t])
      kind == IF k.kind = "editing" /\ ~keepEditing THEN "socketStopped" ELSE k.kind
  IN Start(t, [k EXCEPT !.kind = kind, !.pipe = "connecting", !.handoff = 0],
           IF kind = "editing" THEN "editor" ELSE "observer")

\* A click in a row: openEditor on the replica the page has.
OpenEditor(t) ==
  /\ Awake(t) /\ nClicks < MaxClicks
  /\ tab[t].kind # "editing" /\ ~tab[t].paused
  /\ Start(t, [tab[t] EXCEPT !.kind = "editing", !.pipe = "connecting"], "editor")
  /\ nClicks' = nClicks + 1
  /\ UNCHANGED <<server, nSessions, nEdits, nPauses, nFaults>>

StopEditing(t) ==
  /\ Awake(t) /\ nClicks < MaxClicks
  /\ tab[t].kind = "editing"
  /\ Start(t, [tab[t] EXCEPT !.kind = "viewing", !.pipe = "connecting"], "observer")
  /\ nClicks' = nClicks + 1
  /\ UNCHANGED <<server, nSessions, nEdits, nPauses, nFaults>>

\* topologyChanged without a survivor: the page stops editing, its editor
\* socket stays.
Unfocus(t) ==
  /\ "unfocus" \in Env /\ nFaults < MaxFaults
  /\ Awake(t) /\ Bound(tab[t])
  /\ tab' = [tab EXCEPT ![t].kind = "viewing"]
  /\ nFaults' = nFaults + 1
  /\ UNCHANGED <<sock, server, nSessions, nClicks, nEdits, nPauses>>

(***************************************************************************)
(* onopen.  The editor's counters start again, whatever is missing; the    *)
(* pause does not.  The mode request is the first frame.  The handshake    *)
(* takes a round trip more than what the page sent on its previous socket: *)
(* the server has handled that, its close too unless the network ate it.   *)
(***************************************************************************)
Settled(t) == \A d \in Sockets : sock[d].owner = t => sock[d].up \in {<<>>, <<[t |-> "lost"]>>}

Opened(t) ==
  LET c == tab[t].socket IN
  /\ Awake(t) /\ c # 0
  /\ sock[c].client = "opening" /\ sock[c].down = <<>> /\ Settled(t)
  /\ sock' = [sock EXCEPT ![c].client = "open", ![c].server = "open",
                          ![c].up = <<[t |-> "req", role |-> tab[t].prov.role]>>]
  /\ tab' = [tab EXCEPT ![t].pipe = "live", ![t].prov.booted = FALSE,
                        ![t].prov.sent = 0, ![t].prov.acked = 0]
  /\ UNCHANGED <<server, nSessions, nClicks, nEdits, nPauses, nFaults>>

\* Mutant: the key goes to the local document only.
TypedUnsent(t) ==
  /\ Awake(t) /\ nEdits < MaxEdits
  /\ tab[t].shown = tab[t].gen /\ Bound(tab[t]) /\ tab[t].prov.booted
  /\ tab' = [tab EXCEPT ![t].own = @ + 1]
  /\ nEdits' = nEdits + 1
  /\ UNCHANGED <<sock, server, nSessions, nClicks, nPauses, nFaults>>

(***************************************************************************)
(* A keystroke in a row that is on the screen as editable and whose session  *)
(* still is: updateHandler counts the update and sends it if the socket is *)
(* open.  Of the state changes only a pause waits for a frame here.        *)
(***************************************************************************)
Type(t) ==
  LET k == tab[t]
      c == k.socket
      sends == k.prov.role = "editor"
      edit == [t |-> "edit", tab |-> t, gen |-> k.gen, n |-> k.own + 1, s |-> k.bound]
  IN
  /\ Awake(t) /\ nEdits < MaxEdits
  /\ k.shown = k.gen /\ Bound(k)
  /\ k.prov.booted \/ "early" \in Env
  /\ tab' = [tab EXCEPT ![t].own = @ + 1, ![t].prov.sent = IF sends THEN @ + 1 ELSE @]
  /\ sock' = IF sends /\ c # 0 /\ sock[c].client = "open"
             THEN [sock EXCEPT ![c].up = Append(@, edit)] ELSE sock
  /\ nEdits' = nEdits + 1
  /\ UNCHANGED <<server, nSessions, nClicks, nPauses, nFaults>>

(***************************************************************************)
(* An animation frame: the rows are drawn as they now are, and a freeze    *)
(* that has waited for its second frame lets its provider say ready.       *)
(***************************************************************************)
ReadyDue(p) == 1 \in p.freezing /\ p.pubPaused /\ ~p.readySent

Frame(t) ==
  LET k == tab[t]
      c == k.socket
      shown == IF Editable(k) THEN k.gen ELSE 0
  IN
  /\ Awake(t)
  /\ k.shown # shown \/ k.prov.freezing # {}
  /\ tab' = [tab EXCEPT ![t].shown = shown,
                        ![t].prov.freezing = {n \in {1} : n + 1 \in @},
                        ![t].prov.readySent = @ \/ ReadyDue(k.prov)]
  /\ sock' = IF ReadyDue(k.prov) /\ c # 0 /\ sock[c].client = "open"
             THEN [sock EXCEPT ![c].up = Append(@, [t |-> "ready"])] ELSE sock
  /\ UNCHANGED <<server, nSessions, nClicks, nEdits, nPauses, nFaults>>

(***************************************************************************)
(* Frames from the server                                                  *)
(***************************************************************************)

\* A bootstrap of another DocSession is bound to a fresh replica
\* (adoptDisjointSessionBootstrap), one of the same session is merged.
Bootstrapped(k, m) ==
  LET r == IF k.bound \in {0, m.s} THEN k ELSE FreshReplica(k)
  IN [Mirrored(r, m.mirror) EXCEPT !.bound = m.s]

\* Mutant: ready will be said, and the rows stay editable.
UnfrozenRows(k) ==
  IF k.prov.pubPaused THEN k
  ELSE [k EXCEPT !.prov.pubPaused = TRUE, !.prov.readySent = FALSE, !.prov.freezing = @ \cup {2}]

\* handlePublishPauseStart: once per pause; the barrier takes two frames.
PauseStarted(k) ==
  IF k.prov.pubPaused THEN k
  ELSE [k EXCEPT !.paused = TRUE, !.prov.pubPaused = TRUE, !.prov.readySent = FALSE,
                 !.prov.freezing = @ \cup {2}]

PauseEnded(k) == [k EXCEPT !.paused = FALSE, !.mirror = FALSE,
                           !.prov.pubPaused = FALSE, !.prov.readySent = FALSE]

AfterFrame(k, m) ==
  CASE m.t = "boot" -> [Bootstrapped(k, m) EXCEPT !.prov.booted = TRUE]
    [] m.t = "update" -> Mirrored(k, m.mirror)
    [] m.t = "start" -> IF k.prov.role = "editor" THEN PauseStarted(k) ELSE k
    [] m.t = "end" -> IF k.prov.role = "editor" THEN PauseEnded(k) ELSE k
    [] m.t = "ack" -> [k EXCEPT !.prov.acked = IF m.n > @ THEN m.n ELSE @]

Incoming(t) == tab[t].socket # 0 /\ sock[tab[t].socket].down # <<>>
Arriving(t) == Head(sock[tab[t].socket].down)

Receive(t) ==
  /\ Awake(t) /\ Incoming(t) /\ Arriving(t).t # "close"
  /\ tab' = [tab EXCEPT ![t] = AfterFrame(@, Arriving(t))]
  /\ sock' = [sock EXCEPT ![tab[t].socket].down = Tail(@)]
  /\ UNCHANGED <<server, nSessions, nClicks, nEdits, nPauses, nFaults>>

(***************************************************************************)
(* onclose, by close code                                                  *)
(***************************************************************************)

\* Mutant: the socket is gone and nothing is scheduled.
HangsForGood(t, k, retry) ==
  /\ tab' = [tab EXCEPT ![t] = [k EXCEPT !.socket = 0, !.prov.retry = "none"]]
  /\ sock' = HungUp(t)

\* The socket is gone; the provider stays and waits for what will reopen it.
Hangs(t, k, retry) ==
  /\ tab' = [tab EXCEPT ![t] = [k EXCEPT !.socket = 0, !.broke = TRUE, !.prov.retry = retry]]
  /\ sock' = HungUp(t)

EditorClosed(t, k, code) ==
  CASE code = "replaced" -> Replaced(t, TRUE)
    [] code = "stale" -> Replaced(t, FALSE)
    [] code = "superseded" ->
         IF k.kind = "editing"
         THEN Start(t, [k EXCEPT !.kind = "superseded", !.pipe = "connecting"], "observer")
         ELSE Hangs(t, k, "none")
    [] code = "lockdown" -> Hangs(t, [k EXCEPT !.pipe = "reconnecting"], "timer")
    [] code = "expired" -> Hangs(t, k, "refresh")
    [] code \in {"dropped", "ended"} ->
         IF k.asleep THEN Hangs(t, k, "wake")
         ELSE IF k.kind # "editing" THEN Hangs(t, k, "none")     \* reduceSession throws
         ELSE Hangs(t, [k EXCEPT !.pipe = "reconnecting"], "timer")

ObserverClosed(t, k, code) ==
  CASE code \in {"replaced", "stale"} -> Dial(t, k, HungUp(t))
    [] code = "ended" ->
         /\ tab' = [tab EXCEPT ![t] = [Torn(k) EXCEPT !.pipe = "connecting", !.handoff = k.gen]]
         /\ sock' = HungUp(t)
    [] code = "expired" -> Hangs(t, k, "none")                   \* a permanent rejection
    [] code = "dropped" /\ k.asleep -> Hangs(t, k, "wake")
    [] OTHER -> Hangs(t, [k EXCEPT !.pipe = "reconnecting"], "timer")

ToldClosed(t) ==
  /\ ~tab[t].left /\ Incoming(t) /\ Arriving(t).t = "close"
  /\ LET k == tab[t]
         code == Arriving(t).code
     IN CASE code = "deleted" ->
               tab' = [tab EXCEPT ![t] = [Torn(k) EXCEPT !.left = TRUE]] /\ sock' = HungUp(t)
          [] code # "deleted" /\ k.prov.role = "editor" -> EditorClosed(t, k, code)
          [] code # "deleted" /\ k.prov.role # "editor" -> ObserverClosed(t, k, code)
  /\ UNCHANGED <<server, nSessions, nClicks, nEdits, nPauses, nFaults>>

\* The reconnect timer fires, or the session token was refreshed.
Reconnect(t) ==
  /\ Awake(t) /\ tab[t].prov.retry \in {"timer", "refresh"}
  /\ Dial(t, [tab[t] EXCEPT !.prov.retry = "none"], sock)
  /\ UNCHANGED <<server, nSessions, nClicks, nEdits, nPauses, nFaults>>

\* The token cannot be refreshed: editorDisconnected.
RefreshFails(t) ==
  /\ Awake(t) /\ tab[t].prov.retry = "refresh" /\ tab[t].kind = "editing"
  /\ Start(t, [tab[t] EXCEPT !.kind = "socketStopped", !.pipe = "connecting"], "observer")
  /\ UNCHANGED <<server, nSessions, nClicks, nEdits, nPauses, nFaults>>

\* The canonical sections are loaded and the session-end handoff completes,
\* if the replica is still the one it was parked for.
HandoffDone(t) ==
  /\ Awake(t) /\ tab[t].handoff # 0
  /\ IF tab[t].gen = tab[t].handoff
     THEN Replaced(t, FALSE)
     ELSE tab' = [tab EXCEPT ![t].handoff = 0] /\ UNCHANGED sock
  /\ UNCHANGED <<server, nSessions, nClicks, nEdits, nPauses, nFaults>>

Fault(f) == f \in Env /\ nFaults < MaxFaults /\ nFaults' = nFaults + 1

\* What is on a broken socket is lost, the page's close event comes later.
Broken(c) ==
  [c EXCEPT !.client = "broken", !.down = <<[t |-> "close", code |-> "dropped"]>>,
            !.up = IF c.server \in {"open", "closing"} THEN <<[t |-> "lost"]>> ELSE <<>>]

Drop(c) ==
  /\ Fault("drop")
  /\ sock[c].client \in {"opening", "open"}
  /\ sock' = [sock EXCEPT ![c] = Broken(@)]
  /\ tab' = [tab EXCEPT ![sock[c].owner].broke = TRUE]
  /\ UNCHANGED <<server, nSessions, nClicks, nEdits, nPauses>>

Sleep(t) ==
  LET c == tab[t].socket IN
  /\ Fault("sleep") /\ Awake(t)
  /\ tab' = [tab EXCEPT ![t].asleep = TRUE, ![t].broke = TRUE]
  /\ sock' = IF c # 0 /\ sock[c].client \in {"opening", "open"}
             THEN [sock EXCEPT ![c] = Broken(@)] ELSE sock
  /\ UNCHANGED <<server, nSessions, nClicks, nEdits, nPauses>>

\* Mutant: the page dials again without looking for what it has.
WakeAndDial(t) ==
  /\ tab[t].asleep /\ ~tab[t].left
  /\ Dial(t, [tab[t] EXCEPT !.asleep = FALSE, !.prov.retry = "none"], sock)
  /\ UNCHANGED <<server, nSessions, nClicks, nEdits, nPauses, nFaults>>

\* The wake flush runs after the close events that were held back.
Wake(t) ==
  LET k == tab[t] IN
  /\ k.asleep /\ ~k.left
  /\ ~(Incoming(t) /\ Arriving(t).t = "close")
  /\ IF k.prov.retry = "wake"
     THEN Dial(t, [k EXCEPT !.asleep = FALSE, !.prov.retry = "none"], sock)
     ELSE tab' = [tab EXCEPT ![t].asleep = FALSE] /\ UNCHANGED sock
  /\ UNCHANGED <<server, nSessions, nClicks, nEdits, nPauses, nFaults>>

(***************************************************************************)
(* The server                                                              *)
(***************************************************************************)

Serving(c) == sock[c].server \in {"open", "closing"} /\ sock[c].up # <<>>
Asks(c) == Head(sock[c].up)
Live(c) == sock[c].server = "open"
LiveEditor(c) == Live(c) /\ sock[c].role = "editor"

\* Handled: the frame is off the channel.
Handled(c) == [sock EXCEPT ![c].up = Tail(@)]

\* A frame to one socket, or a close; sockets that are not open get nothing.
Sent(r, m) == IF r.server = "open" THEN [r EXCEPT !.down = Append(@, m)] ELSE r
Shut(r, code) ==
  IF r.server # "open" THEN r
  ELSE [r EXCEPT !.server = "closing", !.down = Append(@, [t |-> "close", code |-> code])]
ShutAll(code) == [c \in Sockets |-> Shut(sock[c], code)]
ToRecipients(s, m, but) ==
  [c \in Sockets |-> IF s[c].recipient /\ c # but THEN Sent(s[c], m) ELSE s[c]]

Join(r, s) == [r EXCEPT !.attached = TRUE, !.joined = TRUE, !.sess = s, !.boot = ~r.joined]

\* applyModeTransition, observer.
AskObserver(c) ==
  /\ Serving(c) /\ Asks(c).t = "req" /\ Asks(c).role = "observer"
  /\ LET s == Handled(c)
     IN sock' = CASE sock[c].attached -> s                        \* refused
                  [] ~sock[c].attached /\ session # 0 -> [s EXCEPT ![c] = Join(@, session)]
                  [] ~sock[c].attached /\ session = 0 -> [s EXCEPT ![c].attached = TRUE]
  /\ UNCHANGED <<tab, server, nSessions, nClicks, nEdits, nPauses, nFaults>>

\* The open editor sockets of the same writer, which the new one supersedes.
Superseded(c, s) ==
  {d \in Sockets \ {c} : /\ s[d].role = "editor" /\ s[d].server = "open"
                         /\ tab[s[d].owner].writer = tab[s[c].owner].writer}

\* The observers the first editor finds waiting: every open socket that has
\* not joined, its own request handled or not.
Waiting(c, s) ==
  {d \in Sockets \ {c} : /\ s[d].server = "open" /\ s[d].role = "observer" /\ ~s[d].joined
                         /\ s[d].attached \/ "unasked" \in Env}

\* applyModeTransition, editor: attach, then supersede, then take in the
\* waiting observers.
AskEditor(c) ==
  LET s == IF session = 0 THEN nSessions + 1 ELSE session
      mine == [Handled(c) EXCEPT ![c] = [Join(@, s) EXCEPT !.role = "editor"]]
      first == \A d \in Sockets \ {c} : d \notin holders
  IN
  /\ Serving(c) /\ Asks(c).t = "req" /\ Asks(c).role = "editor"
  /\ IF sock[c].attached
     THEN sock' = Handled(c) /\ UNCHANGED <<session, holders, nSessions>>     \* refused
     ELSE /\ session = 0 => nSessions < MaxSessions
          /\ session' = s
          /\ nSessions' = IF session = 0 THEN s ELSE nSessions
          /\ holders' = holders \cup {c}
          /\ sock' = [d \in Sockets |->
               CASE d \in Superseded(c, mine) -> Shut(mine[d], "superseded")
                 [] first /\ d \in Waiting(c, mine) -> Join(mine[d], s)
                 [] OTHER -> mine[d]]
  /\ integrated' = IF session' # session THEN [t \in Tabs |-> Nothing] ELSE integrated
  /\ UNCHANGED <<tab, pause, dirty, nClicks, nEdits, nPauses, nFaults>>

\* The bootstrap of a joined socket, when the session's lane gets to it.
SendBootstrap(c) ==
  /\ sock[c].boot
  /\ LET m == [t |-> "boot", s |-> session, mirror |-> pause.on]
     IN sock' = [sock EXCEPT ![c] =
          IF Live(c) /\ session = @.sess
          THEN [Sent(@, m) EXCEPT !.boot = FALSE, !.recipient = TRUE]
          ELSE [@ EXCEPT !.boot = FALSE]]
  /\ UNCHANGED <<tab, server, nSessions, nClicks, nEdits, nPauses, nFaults>>

\* Mutant: any editor socket may write, whatever session it joined.
AnyEditor(c) == sock[c].role = "editor"

IsCurrentSessionEditor(c) == sock[c].role = "editor" /\ sock[c].sess = session

\* Yjs integrates an update only when it has the ones before it and the
\* history it was made in.
Integrates(m) ==
  /\ m.s = session
  /\ \/ m.gen = integrated[m.tab].gen /\ m.n = integrated[m.tab].n + 1
     \/ m.gen > integrated[m.tab].gen /\ m.n = 1

EditArrives(c) ==
  /\ Serving(c) /\ Asks(c).t = "edit" /\ ~sock[c].boot
  /\ LET m == Asks(c)
         s == Handled(c)
         got == sock[c].received + 1
     IN IF sock[c].role = "observer" \/ session = 0
        THEN sock' = s /\ UNCHANGED integrated
        ELSE IF ~IsCurrentSessionEditor(c)
        THEN sock' = [s EXCEPT ![c] = Shut(@, "stale")] /\ UNCHANGED integrated
        ELSE /\ integrated' = IF Integrates(m)
                              THEN [integrated EXCEPT ![m.tab] = [gen |-> m.gen, n |-> m.n]]
                              ELSE integrated
             /\ sock' = ToRecipients(
                  [s EXCEPT ![c] = [Sent(@, [t |-> "ack", n |-> got]) EXCEPT !.received = got]],
                  [t |-> "update", s |-> session, mirror |-> pause.on], c)
  /\ dirty' = (dirty \/ integrated' # integrated)
  /\ UNCHANGED <<tab, session, holders, pause, nSessions, nClicks, nEdits, nPauses, nFaults>>

ReadyArrives(c) ==
  /\ Serving(c) /\ Asks(c).t = "ready"
  /\ LET s == Handled(c)
     IN IF sock[c].role = "observer" \/ session = 0
        THEN sock' = s /\ UNCHANGED pause
        ELSE IF ~IsCurrentSessionEditor(c)
        THEN sock' = [s EXCEPT ![c] = Shut(@, "stale")] /\ UNCHANGED pause
        ELSE /\ sock' = s
             /\ pause' = IF pause.on /\ c \in pause.waiting
                         THEN [pause EXCEPT !.waiting = @ \ {c}, !.ready = @ \cup {c}] ELSE pause
  /\ UNCHANGED <<tab, session, holders, dirty, integrated, nSessions, nClicks, nEdits, nPauses, nFaults>>

\* checkTokenExpired: the frame that finds the token expired is not handled.
TokenExpired(c) ==
  /\ Fault("expiry")
  /\ Live(c) /\ Serving(c) /\ Asks(c).t \notin {"fin", "lost"}
  /\ sock' = [Handled(c) EXCEPT ![c] = Shut(@, "expired")]
  /\ tab' = [tab EXCEPT ![sock[c].owner].broke = TRUE]
  /\ UNCHANGED <<server, nSessions, nClicks, nEdits, nPauses>>

(***************************************************************************)
(* The close handler.  The last editor's publishes first what there is to  *)
(* publish; then observers are sent home and the session is discarded when *)
(* nobody holds it.                                                        *)
(***************************************************************************)
LastEditor(c) == \A d \in Sockets \ {c} : ~LiveEditor(d)
Off(r, state) == Tidy([r EXCEPT !.server = state, !.up = <<>>, !.boot = FALSE, !.recipient = FALSE])
Gone(r) == Off(r, "gone")

Leave(c, last) ==
  LET others == IF last THEN [d \in Sockets |-> IF sock[d].role = "observer" THEN Shut(sock[d], "ended")
                                                ELSE sock[d]]
                ELSE sock
  IN /\ sock' = [others EXCEPT ![c] = Gone(@)]
     /\ holders' = holders \ {c}
     /\ session' = IF holders' = {} THEN 0 ELSE session

SocketGone(c) == [pause EXCEPT !.waiting = @ \ {c}, !.ready = @ \ {c}]

SocketCloses(c) ==
  /\ Serving(c) /\ Asks(c).t \in {"fin", "lost"}
  /\ IF sock[c].role = "observer"
     THEN sock' = [sock EXCEPT ![c] = Gone(@)] /\ UNCHANGED <<session, holders, pause>>
     ELSE /\ pause' = SocketGone(c)
          /\ IF LastEditor(c) /\ session # 0 /\ dirty
             THEN /\ sock' = [sock EXCEPT ![c] = Off(@, "leaving")]
                  /\ UNCHANGED <<session, holders>>
             ELSE Leave(c, LastEditor(c))
  /\ UNCHANGED <<tab, dirty, integrated, nSessions, nClicks, nEdits, nPauses, nFaults>>

\* Nobody has to be ready: the publish of the last editor ends by itself.
LastEditorLeaves(c) ==
  /\ sock[c].server = "leaving" /\ ~pause.on
  /\ dirty' = FALSE
  /\ Leave(c, TRUE)
  /\ UNCHANGED <<tab, pause, integrated, nSessions, nClicks, nEdits, nPauses, nFaults>>

\* A publish attempt begins: every open editor socket must say ready.
PauseStart ==
  /\ session # 0 /\ dirty /\ ~pause.on /\ nPauses < MaxPauses
  /\ pause' = [on |-> TRUE, waiting |-> {c \in Sockets : LiveEditor(c)}, ready |-> {}]
  /\ sock' = [c \in Sockets |-> Sent(sock[c], [t |-> "start"])]
  /\ nPauses' = nPauses + 1
  /\ UNCHANGED <<tab, session, holders, dirty, integrated, nSessions, nClicks, nEdits, nFaults>>

\* It ends, all ready or the ready timeout over: pause_end to every socket,
\* then the state frame to those that have bootstrapped.
PauseEnd ==
  /\ pause.on
  /\ pause' = NoPause
  /\ dirty' \in {FALSE, TRUE}
  /\ sock' = ToRecipients([c \in Sockets |-> Sent(sock[c], [t |-> "end"])],
                          [t |-> "update", s |-> session, mirror |-> FALSE], 0)
  /\ UNCHANGED <<tab, session, holders, integrated, nSessions, nClicks, nEdits, nPauses, nFaults>>

\* The document is replaced or deleted; its publish has been settled before.
Invalidate(fault, code) ==
  /\ Fault(fault) /\ ~pause.on
  /\ \A c \in Sockets : sock[c].server # "leaving"
  /\ sock' = ShutAll(code)
  /\ session' = 0 /\ holders' = {} /\ dirty' = FALSE
  /\ UNCHANGED <<tab, pause, integrated, nSessions, nClicks, nEdits, nPauses>>

Lockdown ==
  /\ Fault("lockdown")
  /\ sock' = ShutAll("lockdown")
  /\ UNCHANGED <<tab, server, nSessions, nClicks, nEdits, nPauses>>

Next ==
  \/ \E t \in Tabs : \/ OpenEditor(t) \/ StopEditing(t) \/ Unfocus(t) \/ Opened(t) \/ Type(t)
                     \/ Frame(t) \/ Receive(t) \/ ToldClosed(t) \/ Reconnect(t)
                     \/ RefreshFails(t) \/ HandoffDone(t) \/ Sleep(t) \/ Wake(t)
  \/ \E c \in Sockets : \/ Drop(c) \/ AskObserver(c) \/ AskEditor(c) \/ SendBootstrap(c)
                        \/ EditArrives(c) \/ ReadyArrives(c) \/ TokenExpired(c)
                        \/ SocketCloses(c) \/ LastEditorLeaves(c)
  \/ PauseStart \/ PauseEnd
  \/ Invalidate("restore", "replaced") \/ Invalidate("delete", "deleted")
  \/ Lockdown

Spec == Init /\ [][Next]_vars

\* What runs by itself: the event loops of the page and of the server, the
\* browser's frames and timers, the publish timeout.  Nobody has to click.
FairSpec ==
  /\ Spec
  /\ \A t \in Tabs : WF_vars(Opened(t)) /\ WF_vars(Frame(t)) /\ WF_vars(Receive(t))
                     /\ WF_vars(ToldClosed(t)) /\ WF_vars(Reconnect(t)) /\ WF_vars(HandoffDone(t))
                     /\ WF_vars(Wake(t))
  /\ \A c \in Sockets : WF_vars(AskObserver(c)) /\ WF_vars(AskEditor(c))
                        /\ WF_vars(SendBootstrap(c)) /\ WF_vars(EditArrives(c))
                        /\ WF_vars(ReadyArrives(c)) /\ WF_vars(SocketCloses(c))
                        /\ WF_vars(LastEditorLeaves(c))
  /\ WF_vars(PauseEnd)

(***************************************************************************)
(* Properties                                                              *)
(***************************************************************************)

\* The state has the shape the code gives it.
TypeOK ==
  /\ \A t \in Tabs :
       /\ tab[t].kind \in Kinds /\ tab[t].pipe \in Phases
       /\ tab[t].socket \in {0} \cup Sockets
       /\ tab[t].prov.role \in {"editor", "observer", "none"}
       /\ tab[t].bound \in 0 .. nSessions /\ tab[t].shown \in 0 .. tab[t].gen
       /\ tab[t].prov.acked <= tab[t].prov.sent
  /\ session \in 0 .. nSessions /\ holders \subseteq Sockets
  /\ (session = 0) = (holders = {})
  /\ pause.on => session # 0
  /\ pause.waiting \cup pause.ready \subseteq Sockets

\* adoptDisjointSessionBootstrap: "Applying it into this doc would duplicate
\* every fragment".  No update ever meets a Y.Doc of another history: not an
\* update in a replica, not a tab's edit in the session that lets it through.
OneHistory ==
  /\ \A t \in Tabs : Incoming(t) /\ Arriving(t).t = "update" => Arriving(t).s = tab[t].bound
  /\ \A c \in Sockets : Serving(c) /\ Asks(c).t = "edit" /\ IsCurrentSessionEditor(c)
                          => Asks(c).s = session

\* The receipt watermark: a tab that shows every edit as received has each of
\* them in the server's Y.Doc, unless a connection of this replica lost a frame.
Received(t) ==
  LET k == tab[t] IN
  /\ Bound(k) /\ k.bound = session /\ k.prov.role = "editor"
  /\ k.prov.booted /\ k.prov.acked >= k.prov.sent
HasEdits(t) == LET k == tab[t] IN k.own # 0 => integrated[t] = [gen |-> k.gen, n |-> k.own]
AllReceivedTrue == \A t \in Tabs : Received(t) /\ ~tab[t].broke => HasEdits(t)

\* ... and on any connection, as section-save-state.ts:11 has it: "every local
\* edit acknowledged received".
AllReceivedAlways == \A t \in Tabs : Received(t) => HasEdits(t)

\* doc_publish_ready is a promise: an editor that has given it sends no edit
\* before the pause ends.
ReadyMeansQuiet ==
  \A c \in pause.ready : Live(c) => \A i \in DOMAIN sock[c].up : sock[c].up[i].t # "edit"

\* Reconnect timers, wakes, handoffs and clicks leave a tab with one socket:
\* every socket a page still has open is the one its tab knows.
NoStraySocket ==
  \A c \in Sockets : sock[c].client \in {"opening", "open", "broken"}
                       => \E t \in Tabs : tab[t].socket = c

\* "the frontend waits for the result rather than assuming the transition
\* succeeded" (docs/architecture.md): no edit of a live socket is dropped
\* because the server never made it an editor.
EditsComeFromEditors ==
  \A c \in Sockets : Live(c) /\ Serving(c) /\ Asks(c).t = "edit" => sock[c].role = "editor"

\* A tab that edits gets a live, bound editor, or stops editing.
EditorsGetLive ==
  \A t \in Tabs : tab[t].kind = "editing"
                    ~> \/ tab[t].kind # "editing" \/ tab[t].left
                       \/ tab[t].pipe = "live" /\ tab[t].bound = session /\ session # 0

\* No freeze outlives its publish: a paused page is released.
FreezesEnd == \A t \in Tabs : tab[t].paused ~> ~tab[t].paused \/ tab[t].left
=============================================================================
