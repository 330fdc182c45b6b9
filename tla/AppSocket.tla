------------------------------ MODULE AppSocket ------------------------------
(***************************************************************************)
(* The application WebSocket: the pages of one browser share one socket to *)
(* the server's hub, through a SharedWorker or, where the worker does not  *)
(* answer, through a leader they elect over a BroadcastChannel.  The hub   *)
(* keeps per socket which documents and which page identities are behind   *)
(* it and sends every change of a document's activity to the sockets that  *)
(* have it open.                                                           *)
(*                                                                         *)
(* Left out: focus frames (the hub ignores them), other event types (they  *)
(* take the same way and keep no state), read permissions, diagnostics.    *)
(* A socket's outbox at the hub is part of its down direction.             *)
(*                                                                         *)
(* Sources: frontend services/ws-client.ts, workers/ws-shared-worker.ts;   *)
(* backend ws/hub.ts, ws/document-activity.ts.                             *)
(***************************************************************************)
EXTENDS Integers, SequencesExt, FiniteSetsExt

CONSTANTS NTabs, Docs,
          MaxSockets,   \* bound: sockets that exist at the same time
          MaxPorts,     \* bound: sessions a page acquires, each has its own port
          MaxClicks,    \* bound: documents opened or closed, sessions released
          MaxChanges,   \* bound: changes of the activity of a document
          MaxFaults,    \* bound: occurrences of what Env allows
          Env

(***************************************************************************)
(* Env: "drop"     the network closes a socket, or refuses one             *)
(*      "sleep"    the browser stops the timers of a hidden page           *)
(*      "close"    a page disappears without a word                        *)
(*      "worker"   the browser has SharedWorkers that run; without it      *)
(*                 every page comes to the fallback                        *)
(*      "slow"     the worker's register_ack comes too late for a page     *)
(***************************************************************************)
EnvFlags == {"drop", "sleep", "close", "worker", "slow"}

ASSUME AppSocketAssumption ==
  /\ NTabs \in Nat \ {0}
  /\ {MaxSockets, MaxPorts, MaxClicks, MaxChanges, MaxFaults} \subseteq Nat
  /\ Env \subseteq EnvFlags
  /\ IsFiniteSet(Docs)

Tabs == 1 .. NTabs          \* in the order of their tabIds
Worker == 0
Owners == {Worker} \cup Tabs
Sockets == 1 .. MaxSockets
Ports == 1 .. MaxPorts
Nobody == -1                \* 0: everybody who has the document open

VARIABLES
  tab,       \* [Tabs -> SessionWsManager: transport, handshake, documents, identity]
  port,      \* [Tabs -> tabPorts of the worker: which of the page's ports, 0 none]
  view,      \* [Owners -> [Tabs -> tabStates of the worker, peers of a page]]
  up,        \* [Tabs -> [Ports -> messages from the page to the worker]]
  client,    \* [Owners -> leadership, socket, timer and what has been applied to it]
  sock,      \* [Sockets -> both ends and both directions of a socket]
  activity,  \* [Docs -> how often its activity has changed]
  jobs,      \* [Docs -> documentActivitySendChains]
  nClicks, nFaults

vars == <<tab, port, view, up, client, sock, activity, jobs, nClicks, nFaults>>

Gone == [here |-> FALSE, open |-> {}, known |-> FALSE]
Idle == [leads |-> FALSE, sock |-> 0, retry |-> FALSE, docs |-> {}, ids |-> {}]
Free == [owner |-> Worker, client |-> "done", server |-> FALSE, docs |-> {}, ids |-> {},
         up |-> <<>>, chain |-> <<>>, down |-> <<>>]

Init ==
  /\ tab = [t \in Tabs |-> [mode |-> "off", acked |-> FALSE, awake |-> TRUE, open |-> {},
                            known |-> FALSE, gen |-> 0, seen |-> [d \in Docs |-> 0]]]
  /\ port = [t \in Tabs |-> 0]
  /\ view = [o \in Owners |-> [t \in Tabs |-> Gone]]
  /\ up = [t \in Tabs |-> [g \in Ports |-> <<>>]]
  /\ client = [o \in Owners |-> Idle]
  /\ sock = [c \in Sockets |-> Free]
  /\ activity = [d \in Docs |-> 1]
  /\ jobs = [d \in Docs |-> <<>>]
  /\ nClicks = 0 /\ nFaults = 0

(***************************************************************************)
(* A client of the hub: the worker, or a page that leads.  n is the pair   *)
(* of client and sock.                                                     *)
(***************************************************************************)
Net == [client |-> client, sock |-> sock]
Becomes(n) == client' = n.client /\ sock' = n.sock

\* Bound: a step that may dial waits for a free socket number
CanDial(o) == client[o].sock # 0 \/ \E c \in Sockets : sock[c] = Free

IsOpen(n, o) == n.client[o].sock # 0 /\ n.sock[n.client[o].sock].client = "open"
Desired(v) == UNION {v[t].open : t \in Tabs}
Known(v) == {t \in Tabs : v[t].known}

Send(n, o, frames) ==
  IF IsOpen(n, o) THEN [n EXCEPT !.sock[n.client[o].sock].up = @ \o frames] ELSE n

Frames(kind, S) == SetToSeq({<<kind, x>> : x \in S})

\* syncSocketState, syncLeaderSessionState
SyncDocs(n, o, D) ==
  IF IsOpen(n, o)
  THEN [Send(n, o, Frames("open", D \ n.client[o].docs) \o Frames("closed", n.client[o].docs \ D))
          EXCEPT !.client[o].docs = D]
  ELSE n

\* syncLeaderIdentities
SyncIds(n, o, I) ==
  IF IsOpen(n, o)
  THEN [Send(n, o, Frames("tab_gone", n.client[o].ids \ I) \o Frames("identify", I \ n.client[o].ids))
          EXCEPT !.client[o].ids = I]
  ELSE n

\* ensureSocket, connectLeaderSocket
Dial(n, o) ==
  IF n.client[o].sock # 0 THEN n
  ELSE LET c == CHOOSE c \in Sockets : n.sock[c] = Free
       IN [n EXCEPT !.client[o].sock = c, !.sock[c] = [Free EXCEPT !.owner = o, !.client = "opening"]]

\* closeSocket, becomeFollower; the close event is still to come
HangUp(n, o) ==
  LET c == n.client[o].sock
  IN [client |-> [n.client EXCEPT ![o] = Idle],
      sock |-> IF c = 0 THEN n.sock ELSE [n.sock EXCEPT ![c].client = "closing"]]

(***************************************************************************)
(* A page                                                                  *)
(***************************************************************************)
State(t) == [here |-> TRUE, open |-> tab[t].open, known |-> tab[t].known]
Tell(t, g, messages) == up' = [up EXCEPT ![t][g] = @ \o messages]
StateOf(k) == [t |-> "state", s |-> [here |-> TRUE, open |-> k.open, known |-> k.known]]

\* acquire: a new port; the register resets the worker's view of the page,
\* which the empty tab_state of the transport then repeats
Acquire(t) ==
  /\ tab[t].mode = "off" /\ tab[t].gen < MaxPorts
  /\ LET k == [tab[t] EXCEPT !.mode = "worker", !.acked = FALSE, !.gen = @ + 1]
     IN /\ tab' = [tab EXCEPT ![t] = k]
        /\ Tell(t, k.gen, <<[t |-> "register"], StateOf(k)>>)
  /\ UNCHANGED <<port, view, client, sock, activity, jobs, nClicks, nFaults>>

\* pushTabState: to the worker a message; a leader brings its socket up to
\* date, and other pages hear of it in Hear
Push(t, k) ==
  /\ tab' = [tab EXCEPT ![t] = k]
  /\ IF k.mode = "worker"
     THEN Tell(t, k.gen, <<StateOf(k)>>) /\ UNCHANGED <<client, sock>>
     ELSE /\ IF client[t].leads
             THEN LET v == [view[t] EXCEPT ![t] = StateOf(k).s]
                  IN Becomes(SyncDocs(SyncIds(Net, t, Known(v)), t, Desired(v)))
             ELSE UNCHANGED <<client, sock>>
          /\ UNCHANGED up

OpenDocument(t) == \E d \in Docs \ tab[t].open :
  /\ tab[t].mode \in {"worker", "fallback"} /\ tab[t].awake /\ nClicks < MaxClicks
  /\ Push(t, [tab[t] EXCEPT !.open = @ \cup {d}, !.known = TRUE, !.seen[d] = 0])
  /\ nClicks' = nClicks + 1
  /\ UNCHANGED <<port, view, activity, jobs, nFaults>>

CloseDocument(t) == \E d \in tab[t].open :
  /\ tab[t].mode \in {"worker", "fallback"} /\ tab[t].awake /\ nClicks < MaxClicks
  /\ Push(t, [tab[t] EXCEPT !.open = @ \ {d}])
  /\ nClicks' = nClicks + 1
  /\ UNCHANGED <<port, view, activity, jobs, nFaults>>

\* release: documents are closed before the last reference goes
Release(t) ==
  /\ tab[t].mode \in {"worker", "fallback"} /\ tab[t].awake /\ tab[t].open = {}
  /\ nClicks < MaxClicks
  /\ tab' = [tab EXCEPT ![t].mode = "off"]
  /\ IF tab[t].mode = "worker"
     THEN Tell(t, tab[t].gen, <<[t |-> "unregister"]>>) /\ UNCHANGED <<view, client, sock>>
     ELSE /\ Becomes(HangUp(Net, t))
          /\ view' = [view EXCEPT ![t] = [u \in Tabs |-> Gone]]
          /\ UNCHANGED up
  /\ nClicks' = nClicks + 1
  /\ UNCHANGED <<port, activity, jobs, nFaults>>

\* The timer of pushTabState.  A message that repeats what the worker has
\* only refreshes updatedAt: Sweep looks at awake instead.
Heartbeat(t) ==
  /\ tab[t].mode = "worker" /\ tab[t].awake /\ up[t][tab[t].gen] = <<>>
  /\ view[Worker][t] # State(t) \/ port[t] # tab[t].gen
  /\ Tell(t, tab[t].gen, <<StateOf(tab[t])>>)
  /\ UNCHANGED <<tab, port, view, client, sock, activity, jobs, nClicks, nFaults>>

(***************************************************************************)
(* The worker                                                              *)
(***************************************************************************)
Opens(t, s) == (s.open \ view[Worker][t].open) \cap client[Worker].docs

\* A page the worker no longer has: unregister, sweepStaleTabs
Dropped(t) ==
  LET v == [view[Worker] EXCEPT ![t] = Gone]
      n == IF view[Worker][t].known THEN Send(Net, Worker, <<<<"tab_gone", t>>>>) ELSE Net
  IN /\ view' = [view EXCEPT ![Worker] = v]
     /\ port' = [port EXCEPT ![t] = 0]
     /\ Becomes(IF \A u \in Tabs : ~v[u].here THEN HangUp(n, Worker)
                                              ELSE SyncDocs(n, Worker, Desired(v)))

Registered(t, g) ==
  LET v == [view[Worker] EXCEPT ![t] = [Gone EXCEPT !.here = TRUE]]
  IN /\ view' = [view EXCEPT ![Worker] = v]
     /\ port' = [port EXCEPT ![t] = g]
     /\ Becomes(SyncDocs(Dial(Net, Worker), Worker, Desired(v)))
     /\ \E late \in IF "slow" \in Env THEN BOOLEAN ELSE {FALSE} :
          tab' = [tab EXCEPT ![t].acked = IF tab[t].gen = g THEN ~late ELSE @]

\* Mutant: a document another page has open is not opened again
StatedOnce(t, g, m) ==
  LET old == view[Worker][t]
      s == [m EXCEPT !.known = @ \/ old.known]
      v == [view[Worker] EXCEPT ![t] = s]
      n == IF s.known /\ ~old.known THEN Send(Net, Worker, <<<<"identify", t>>>>) ELSE Net
  IN /\ view' = [view EXCEPT ![Worker] = v]
     /\ port' = [port EXCEPT ![t] = g]
     /\ Becomes(SyncDocs(Dial(n, Worker), Worker, Desired(v)))

\* tab_state: a document another page has open already is opened again, for
\* the activity snapshot
Stated(t, g, m) ==
  LET old == view[Worker][t]
      s == [m EXCEPT !.known = @ \/ old.known]
      v == [view[Worker] EXCEPT ![t] = s]
      opened == Send(Net, Worker, Frames("open", Opens(t, s)))
      n == IF s.known /\ ~old.known THEN Send(opened, Worker, <<<<"identify", t>>>>) ELSE opened
  IN /\ view' = [view EXCEPT ![Worker] = v]
     /\ port' = [port EXCEPT ![t] = g]
     /\ Becomes(SyncDocs(Dial(n, Worker), Worker, Desired(v)))

\* Ports are separate channels: messages of two ports of a page may swap
WorkerHears(t) == \E g \in Ports :
  /\ "worker" \in Env /\ up[t][g] # <<>> /\ CanDial(Worker)
  /\ LET m == Head(up[t][g])
     IN \/ m.t = "register" /\ Registered(t, g)
        \/ m.t = "state" /\ Stated(t, g, m.s) /\ UNCHANGED tab
        \/ m.t = "unregister" /\ Dropped(t) /\ UNCHANGED tab
  /\ up' = [up EXCEPT ![t][g] = Tail(@)]
  /\ UNCHANGED <<activity, jobs, nClicks, nFaults>>

\* sweepStaleTabs: no message of the page for 7 s
Sweep(t) ==
  /\ view[Worker][t].here /\ \A g \in Ports : up[t][g] = <<>>
  /\ tab[t].mode # "worker" \/ ~tab[t].awake
  /\ Dropped(t)
  /\ UNCHANGED <<tab, up, activity, jobs, nClicks, nFaults>>

\* The worker's interval, and the reconnect timers of worker and leader
Wants(o) == IF o = Worker THEN \E t \in Tabs : view[Worker][t].here ELSE client[o].leads
Runs(o) == o \in Tabs => tab[o].awake /\ tab[o].mode = "fallback"

Redial(o) ==
  /\ \/ client[o].retry /\ Runs(o)
     \/ o = Worker /\ Wants(o) /\ client[o].sock = 0
  /\ CanDial(o)
  /\ LET n == [Net EXCEPT !.client[o].retry = FALSE]
     IN Becomes(IF Wants(o) THEN Dial(n, o) ELSE n)
  /\ UNCHANGED <<tab, port, view, up, activity, jobs, nClicks, nFaults>>

(***************************************************************************)
(* The fallback: pages hear each other's heartbeats once a second, forget  *)
(* a page after 3.5 s of silence, and the least tabId leads                *)
(***************************************************************************)
Own(t, v) == [v EXCEPT ![t] = State(t)]

\* Mutant: a page that leads goes on leading
ElectOnce(n, t, v) ==
  LET first == \A u \in Tabs \ {t} : v[u].here => t < u
  IN IF first /\ ~n.client[t].leads THEN [Dial(n, t) EXCEPT !.client[t].leads = TRUE] ELSE n

\* recomputeLeader
Elect(n, t, v) ==
  LET first == \A u \in Tabs \ {t} : v[u].here => t < u
  IN IF first = n.client[t].leads THEN n
     ELSE IF first THEN [Dial(n, t) EXCEPT !.client[t].leads = TRUE]
     ELSE HangUp(n, t)

Reelect(t, v) ==
  LET n == Elect(Net, t, v)
  IN /\ view' = [view EXCEPT ![t] = v]
     /\ Becomes(IF n.client[t].leads THEN SyncIds(n, t, Known(Own(t, v))) ELSE n)

\* tick, after v is what is left of the peers
Ticked(t, v) ==
  LET n == Elect(Net, t, v)
      all == Own(t, v)
  IN /\ view' = [view EXCEPT ![t] = v]
     /\ Becomes(IF n.client[t].leads
                THEN SyncDocs(SyncIds(n, t, Known(all)), t, Desired(all)) ELSE n)

\* fallbackToBroadcastTransport: the worker's transport says goodbye, the
\* page knows of no other and leads
Timeout(t) ==
  /\ tab[t].mode = "worker" /\ ~tab[t].acked /\ tab[t].awake
  /\ "worker" \notin Env \/ "slow" \in Env
  /\ CanDial(t)
  /\ tab' = [tab EXCEPT ![t].mode = "fallback"]
  /\ Tell(t, tab[t].gen, <<[t |-> "unregister"]>>)
  /\ Ticked(t, [u \in Tabs |-> Gone])
  /\ UNCHANGED <<port, activity, jobs, nClicks, nFaults>>

Beats(t) == tab[t].mode = "fallback" /\ tab[t].awake

Hear(t) == \E u \in Tabs \ {t} :
  /\ Beats(t) /\ Beats(u) /\ view[t][u] # State(u) /\ CanDial(t)
  /\ Reelect(t, [view[t] EXCEPT ![u] = State(u)])
  /\ UNCHANGED <<tab, port, up, activity, jobs, nClicks, nFaults>>

\* Any of the pages that were silent may be silent long enough
Tick(t) ==
  /\ Beats(t) /\ CanDial(t)
  /\ \E silent \in SUBSET {u \in Tabs \ {t} : ~Beats(u) /\ view[t][u].here} :
       Ticked(t, [u \in Tabs |-> IF u \in silent THEN Gone ELSE view[t][u]])
  /\ UNCHANGED <<tab, port, up, activity, jobs, nClicks, nFaults>>

(***************************************************************************)
(* The hub                                                                 *)
(***************************************************************************)
HubHears(c) ==
  /\ sock[c].server /\ sock[c].up # <<>>
  /\ LET f == Head(sock[c].up)
         s == [sock[c] EXCEPT !.up = Tail(@)]
     IN sock' = [sock EXCEPT ![c] =
          CASE f[1] = "identify" -> [s EXCEPT !.ids = @ \cup {f[2]}]
            [] f[1] = "tab_gone" -> [s EXCEPT !.ids = @ \ {f[2]}]
            [] OTHER -> [s EXCEPT !.chain = Append(@, f)]]
  /\ UNCHANGED <<tab, port, view, up, client, activity, jobs, nClicks, nFaults>>

\* docOpenCommandChain: an open waits for the snapshot it asks for
HubOpens(c) ==
  /\ sock[c].chain # <<>> /\ Head(sock[c].chain)[1] = "open"
  /\ LET d == Head(sock[c].chain)[2]
     IN /\ sock' = [sock EXCEPT ![c].docs = @ \cup {d}, ![c].chain[1] = <<"opened", d>>]
        /\ jobs' = [jobs EXCEPT ![d] = Append(@, [to |-> c, v |-> 0])]
  /\ UNCHANGED <<tab, port, view, up, client, activity, nClicks, nFaults>>

HubCloses(c) ==
  /\ sock[c].chain # <<>> /\ Head(sock[c].chain)[1] = "closed"
  /\ sock' = [sock EXCEPT ![c].docs = @ \ {Head(sock[c].chain)[2]}, ![c].chain = Tail(@)]
  /\ UNCHANGED <<tab, port, view, up, client, activity, jobs, nClicks, nFaults>>

\* A reading agent, an editor who comes or goes, a proposal
Change(d) ==
  /\ activity[d] < 1 + MaxChanges
  /\ activity' = [activity EXCEPT ![d] = @ + 1]
  /\ jobs' = [jobs EXCEPT ![d] = Append(@, [to |-> 0, v |-> 0])]
  /\ UNCHANGED <<tab, port, view, up, client, sock, nClicks, nFaults>>

\* buildDocumentActivityEvent
Build(d) ==
  /\ jobs[d] # <<>> /\ jobs[d][1].v = 0
  /\ jobs' = [jobs EXCEPT ![d][1].v = activity[d]]
  /\ UNCHANGED <<tab, port, view, up, client, sock, activity, nClicks, nFaults>>

\* The end of a job: a broadcast goes to the sockets that have the document
\* open, a snapshot to the socket that opened it
Deliver(d) ==
  /\ jobs[d] # <<>> /\ jobs[d][1].v # 0
  /\ LET j == jobs[d][1]
         to == IF j.to # 0 THEN {j.to} ELSE {c \in Sockets : sock[c].server /\ d \in sock[c].docs}
     IN sock' = [c \in Sockets |->
          IF c \notin to THEN sock[c]
          ELSE [sock[c] EXCEPT !.down = Append(@, <<d, j.v>>),
                               !.chain = IF j.to = c THEN Tail(@) ELSE @]]
  /\ jobs' = [jobs EXCEPT ![d] = Tail(@)]
  /\ UNCHANGED <<tab, port, view, up, client, activity, nClicks, nFaults>>

(***************************************************************************)
(* A socket                                                                *)
(***************************************************************************)
\* Mutant: what was applied to the last socket counts for this one
OpensAsBefore(c) ==
  LET o == sock[c].owner
      v == IF o = Worker THEN view[Worker] ELSE Own(o, view[o])
      n == [Net EXCEPT !.sock[c].client = "open", !.sock[c].server = TRUE]
  IN /\ sock[c].client = "opening" /\ Runs(o)
     /\ Becomes(SyncDocs(IF o = Worker THEN Send(n, o, Frames("identify", Known(v)))
                                       ELSE SyncIds(n, o, Known(v)), o, Desired(v)))
     /\ UNCHANGED <<tab, port, view, up, activity, jobs, nClicks, nFaults>>

SocketOpens(c) ==
  LET o == sock[c].owner
      v == IF o = Worker THEN view[Worker] ELSE Own(o, view[o])
      n == [Net EXCEPT !.sock[c].client = "open", !.sock[c].server = TRUE,
                       !.client[o].docs = {}, !.client[o].ids = {}]
  IN /\ sock[c].client = "opening" /\ Runs(o)
     /\ Becomes(SyncDocs(IF o = Worker THEN Send(n, o, Frames("identify", Known(v)))
                                       ELSE SyncIds(n, o, Known(v)), o, Desired(v)))
     /\ UNCHANGED <<tab, port, view, up, activity, jobs, nClicks, nFaults>>

\* An event: the worker posts it to every port it has, a leader to itself and
\* the channel; a page shows it if it has the document open
Arrives(c) ==
  /\ sock[c].client = "open" /\ sock[c].down # <<>> /\ Runs(sock[c].owner)
  /\ LET d == Head(sock[c].down)[1]
         v == Head(sock[c].down)[2]
         hear == IF sock[c].owner = Worker
                 THEN {t \in Tabs : tab[t].mode = "worker" /\ port[t] = tab[t].gen}
                 ELSE {t \in Tabs : tab[t].mode = "fallback"}
     IN tab' = [t \in Tabs |-> IF t \in hear /\ d \in tab[t].open THEN [tab[t] EXCEPT !.seen[d] = v]
                                                                   ELSE tab[t]]
  /\ sock' = [sock EXCEPT ![c].down = Tail(@)]
  /\ UNCHANGED <<port, view, up, client, activity, jobs, nClicks, nFaults>>

Drop(c) ==
  /\ "drop" \in Env /\ nFaults < MaxFaults /\ sock[c].client \in {"opening", "open"}
  /\ sock' = [sock EXCEPT ![c].client = "broken", ![c].up = <<>>, ![c].down = <<>>]
  /\ nFaults' = nFaults + 1
  /\ UNCHANGED <<tab, port, view, up, client, activity, jobs, nClicks>>

Freed(s) == IF s.client = "done" /\ ~s.server THEN Free ELSE s

\* The close event at the client
ClientClosed(c) ==
  LET o == sock[c].owner
      mine == client[o].sock = c
  IN /\ sock[c].client = "closing" \/ (sock[c].client = "broken" /\ Runs(o))
     /\ sock' = [sock EXCEPT ![c] = Freed([@ EXCEPT !.client = "done"])]
     /\ client' = [client EXCEPT ![o].sock = IF mine THEN 0 ELSE @, ![o].retry = Wants(o)]
     /\ UNCHANGED <<tab, port, view, up, activity, jobs, nClicks, nFaults>>

\* ... and at the hub: a job for a socket that is gone keeps its turn and does
\* nothing
HubClosed(c) ==
  /\ sock[c].server /\ sock[c].client \notin {"opening", "open"}
  /\ sock' = [sock EXCEPT ![c] = Freed([@ EXCEPT !.server = FALSE, !.docs = {}, !.ids = {},
                                                 !.up = <<>>, !.chain = <<>>, !.down = <<>>])]
  /\ jobs' = [d \in Docs |-> [i \in DOMAIN jobs[d] |->
                 IF jobs[d][i].to = c THEN [jobs[d][i] EXCEPT !.to = Nobody] ELSE jobs[d][i]]]
  /\ UNCHANGED <<tab, port, view, up, client, activity, nClicks, nFaults>>

(***************************************************************************)
(* The browser                                                             *)
(***************************************************************************)
Sleep(t) ==
  /\ "sleep" \in Env /\ nFaults < MaxFaults /\ tab[t].awake /\ tab[t].mode \in {"worker", "fallback"}
  /\ tab' = [tab EXCEPT ![t].awake = FALSE]
  /\ nFaults' = nFaults + 1
  /\ UNCHANGED <<port, view, up, client, sock, activity, jobs, nClicks>>

\* A page of the fallback that wakes may tick before it hears the others
Wake(t) ==
  /\ ~tab[t].awake /\ CanDial(t)
  /\ tab' = [tab EXCEPT ![t].awake = TRUE]
  /\ \/ UNCHANGED <<view, client, sock>>
     \/ tab[t].mode = "fallback" /\ Ticked(t, [u \in Tabs |-> Gone])
  /\ UNCHANGED <<port, up, activity, jobs, nClicks, nFaults>>

ClosePage(t) ==
  /\ "close" \in Env /\ nFaults < MaxFaults /\ tab[t].mode \in {"worker", "fallback"}
  /\ tab' = [tab EXCEPT ![t].mode = "gone", ![t].open = {}]
  /\ client' = [client EXCEPT ![t] = Idle]
  /\ sock' = [c \in Sockets |-> IF sock[c].owner = t
                                THEN Freed([sock[c] EXCEPT !.client = "done"]) ELSE sock[c]]
  /\ nFaults' = nFaults + 1
  /\ UNCHANGED <<port, view, up, activity, jobs, nClicks>>

(***************************************************************************)
\* Timers of pages that are awake and of the worker, messages, frames, the
\* hub's chains
System ==
  \/ \E t \in Tabs : \/ Heartbeat(t) \/ WorkerHears(t) \/ Sweep(t)
                     \/ Timeout(t) \/ Hear(t) \/ Tick(t)
  \/ \E o \in Owners : Redial(o)
  \/ \E c \in Sockets : \/ SocketOpens(c) \/ Arrives(c) \/ ClientClosed(c)
                        \/ HubHears(c) \/ HubOpens(c) \/ HubCloses(c) \/ HubClosed(c)
  \/ \E d \in Docs : Build(d) \/ Deliver(d)

\* The user, the browser, the network, agents and editors
World ==
  \/ \E t \in Tabs : \/ Acquire(t) \/ OpenDocument(t) \/ CloseDocument(t) \/ Release(t)
                     \/ Sleep(t) \/ Wake(t) \/ ClosePage(t)
  \/ \E c \in Sockets : Drop(c)
  \/ \E d \in Docs : Change(d)

Next == System \/ World

Spec == Init /\ [][Next]_vars

\* No step of the system is enabled for ever without one being taken
FairSpec == Spec /\ WF_vars(System)

(***************************************************************************)
(* Properties                                                              *)
(***************************************************************************)
Views == [here : BOOLEAN, open : SUBSET Docs, known : BOOLEAN]
FrameSet == ({"open", "closed", "opened"} \X Docs) \cup ({"identify", "tab_gone"} \X Tabs)

\* Every variable keeps its type, a client's socket is its own, and a hub's
\* snapshot job is for a socket whose chain waits for it.
TypeOK ==
  /\ tab \in [Tabs -> [mode : {"off", "worker", "fallback", "gone"}, acked : BOOLEAN,
                       awake : BOOLEAN, open : SUBSET Docs, known : BOOLEAN, gen : 0 .. MaxPorts,
                       seen : [Docs -> 0 .. MaxChanges + 1]]]
  /\ port \in [Tabs -> 0 .. MaxPorts]
  /\ view \in [Owners -> [Tabs -> Views]]
  /\ \A t \in Tabs, g \in Ports : \A i \in DOMAIN up[t][g] :
       up[t][g][i].t \in {"register", "unregister"} \/ up[t][g][i].s \in Views
  /\ client \in [Owners -> [leads : BOOLEAN, sock : 0 .. MaxSockets, retry : BOOLEAN,
                            docs : SUBSET Docs, ids : SUBSET Tabs]]
  /\ \A o \in Owners : client[o].sock # 0 => sock[client[o].sock].owner = o
                                              /\ sock[client[o].sock].client \in {"opening", "open", "broken"}
  /\ \A c \in Sockets : /\ sock[c].up \in Seq(FrameSet) /\ sock[c].chain \in Seq(FrameSet)
                        /\ sock[c].docs \subseteq Docs /\ sock[c].ids \subseteq Tabs
  /\ activity \in [Docs -> 1 .. MaxChanges + 1]
  /\ \A d \in Docs : \A i \in DOMAIN jobs[d] :
       jobs[d][i].to \in Sockets => Head(sock[jobs[d][i].to].chain) = <<"opened", d>>

\* ws-shared-worker.ts sends the hub only differences: once what it has sent
\* has been handled, the hub has the documents and identities of the pages
\* the worker has, whatever sockets and pages came and went.  For a leader:
\* what it believes to have applied.
HubKnowsTabs ==
  \A c \in Sockets :
    sock[c].client = "open" /\ sock[c].up = <<>> /\ sock[c].chain = <<>> =>
      LET o == sock[c].owner
      IN /\ sock[c].docs = client[o].docs
         /\ o = Worker => sock[c].docs = Desired(view[o]) /\ Known(view[o]) \subseteq sock[c].ids
         /\ o # Worker => sock[c].ids = client[o].ids

\* A page on the worker that has a document open gets to see its activity as
\* it is: after opening it, beside another page that has it open, after a
\* sweep, a lost socket or a session released and acquired again.
Shown(t, d) == tab[t].seen[d] = activity[d]
ActivityShown ==
  []<>(\A t \in Tabs : tab[t].mode = "worker" /\ tab[t].awake =>
         \A d \in tab[t].open : Shown(t, d))

\* The same for a page on the fallback.
FallbackActivityShown ==
  []<>(\A t \in Tabs : Beats(t) => \A d \in tab[t].open : Shown(t, d))

\* Pages on the fallback come to share one socket, whoever sleeps, wakes or
\* leaves: the least page awake leads and has the socket open, no other page
\* has one (docs/architecture.md:472, "the same single-WebSocket guarantee").
OneLeader ==
  []<>(\A t \in Tabs : Beats(t) =>
         LET first == \A u \in Tabs : Beats(u) => t <= u
         IN client[t].leads = first /\ IsOpen(Net, t) = first)
==============================================================================
